---------------------------- MODULE AttRequests ----------------------------
(***************************************************************************)
(* What the ATT client promises to the program that uses it.  A call is    *)
(* accepted only when no other call waits, otherwise it is refused on the  *)
(* spot; an accepted call is answered at most once; and an answer without  *)
(* an error carries exactly the handles the device has in the range.       *)
(* The client may die: what it then owes is void.                          *)
(***************************************************************************)
EXTENDS Att

CONSTANT CallId

VARIABLES
  call,    \* call[c]: the c-th call made by the program and its outcome
  dead     \* the process is gone

absVars == <<call, dead>>

\* How a call may end; "busy" is the refusal of a call.
Errors  == Codes \cup {"link", "noMatch"}
Results == {"unused", "pending", "ok", "busy"} \cup Errors

Unused == [op |-> "READ", start |-> 0, end |-> 0, result |-> "unused", list |-> <<>>]

Calls == [op : Ops, start : Handle, end : Handle, result : Results, list : Seq(Handle)]

Waiting == {c \in CallId : call[c].result = "pending"}

AbsTypeOK ==
  /\ call \in [CallId -> Calls]
  /\ dead \in BOOLEAN

AbsInit ==
  /\ call = [c \in CallId |-> Unused]
  /\ dead = FALSE

Accept(c) ==
  /\ call[c].result = "unused"
  /\ Waiting = {}
  /\ \E op \in Ops, s, e \in Handle :
       call' = [call EXCEPT ![c] = [op |-> op, start |-> s, end |-> e,
                                    result |-> "pending", list |-> <<>>]]
  /\ UNCHANGED dead

Refuse(c) ==
  /\ call[c].result = "unused"
  /\ Waiting # {}
  /\ \E op \in Ops, s, e \in Handle :
       call' = [call EXCEPT ![c] = [op |-> op, start |-> s, end |-> e,
                                    result |-> "busy", list |-> <<>>]]
  /\ UNCHANGED dead

Succeed(c) ==
  /\ call[c].result = "pending"
  /\ call'[c].result = "ok"
  /\ Delivers(call[c].op, call[c].start, call[c].end, call'[c].list)
  /\ call' = [call EXCEPT ![c].result = "ok", ![c].list = call'[c].list]
  /\ UNCHANGED dead

Fail(c) ==
  /\ call[c].result = "pending"
  /\ \E why \in Errors : call' = [call EXCEPT ![c].result = why]
  /\ UNCHANGED dead

Die ==
  /\ dead' = TRUE
  /\ UNCHANGED call

AbsNext ==
  /\ ~dead
  /\ \/ \E c \in CallId : Accept(c) \/ Refuse(c) \/ Succeed(c) \/ Fail(c)
     \/ Die

AbsSpec == AbsInit /\ [][AbsNext]_absVars

=============================================================================
