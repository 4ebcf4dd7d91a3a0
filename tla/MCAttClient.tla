---------------------------- MODULE MCAttClient ----------------------------
(***************************************************************************)
(* AttClient for TLC: a device of three handles.  FIND_INFO fills the      *)
(* handle space up to its last handle, FIND_BY_TYPE and READ_BY_GROUP have *)
(* gaps, and some ranges of each op are empty.                             *)
(***************************************************************************)
EXTENDS AttClient, TLC

MCPresent ==
  [FIND_INFO |-> {1, 2, 3}, FIND_BY_TYPE |-> {1, 3}, READ_BY_GROUP |-> {1, 2},
   READ_BY_TYPE |-> {2, 3}, READ |-> {2, 3}]

\* Every range, ill-formed ones too, and every handle.
MCAsks ==
  ((Ops \ {"READ"}) \X Handle \X Handle) \cup {<<"READ", h, h>> : h \in Handle}

\* A device of two handles, for the run in which it also sends what nobody
\* asked for.
MCSmallPresent ==
  [FIND_INFO |-> {1, 2}, FIND_BY_TYPE |-> {1, 2}, READ_BY_GROUP |-> {1},
   READ_BY_TYPE |-> {2}, READ |-> {1}]

\* One call of each kind of handler, over all the device has.
MCSmallAsks ==
  {<<"FIND_INFO", 1, 2>>, <<"FIND_BY_TYPE", 1, 2>>, <<"READ_BY_TYPE", 1, 2>>,
   <<"READ", 1, 1>>}

\* Nothing tells one call, or one listener, from another.  Sound for safety.
Symmetry == Permutations(CallId) \cup Permutations(Listener)

=============================================================================
