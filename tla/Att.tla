-------------------------------- MODULE Att --------------------------------
(***************************************************************************)
(* Vocabulary of the ATT protocol as the client of src/src/att.cc speaks   *)
(* it: handles, request operations, and what a device that holds the       *)
(* attributes Present answers.  A handle list is kept as a sequence of     *)
(* handles; types, values and group end handles are not told apart.        *)
(***************************************************************************)
EXTENDS Naturals, Sequences

CONSTANTS
  MaxHandle,  \* the largest handle_t value (0xFFFF in the code)
  PageMax,    \* how many entries fit in one response PDU
  Present     \* Present[op]: the handles that match what op asks for

\* Requests that one response may not finish: the client asks again from
\* behind the last handle it got.
PagedOps == {"FIND_INFO", "FIND_BY_TYPE", "READ_BY_GROUP"}
Ops      == PagedOps \cup {"READ_BY_TYPE", "READ"}
Handle   == 0 .. MaxHandle

\* Codes an Error Response carries, as far as the client tells them apart.
Codes == {"ATTR_NOT_FOUND", "OTHER"}

ASSUME AttAssumption ==
  /\ MaxHandle \in Nat \ {0}
  /\ PageMax \in Nat \ {0}
  /\ Present \in [Ops -> SUBSET (1 .. MaxHandle)]

----------------------------------------------------------------------------

\* The last element of a list (std::vector::back), undefined on the empty list.
Back(list) == list[Len(list)]

Elements(list) == {list[i] : i \in DOMAIN list}

Ascending(list) == \A i, j \in DOMAIN list : i < j => list[i] < list[j]

\* What a device has to report for op between the handles start and end.
Matches(op, start, end) == {h \in Present[op] : start <= h /\ h <= end}

\* The pages a device may answer with when the handles of M remain: some of
\* the smallest ones, in order, at least one and at most PageMax.
Pages(M) ==
  {page \in UNION {[1 .. n -> M] : n \in 1 .. PageMax} :
     /\ Ascending(page)
     /\ \A h \in M : h < Back(page) => h \in Elements(page)}

\* The list a successful request has to deliver.  ReadByType is a single
\* exchange: its caller gets the first page and asks for the rest itself.
Delivers(op, start, end, list) ==
  LET M == Matches(op, start, end)
  IN  /\ list # <<>>
      /\ Ascending(list)
      /\ Elements(list) \subseteq M
      /\ \A h \in M \ Elements(list) : op = "READ_BY_TYPE" /\ Back(list) < h

=============================================================================
