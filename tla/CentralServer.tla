--------------------------- MODULE CentralServer ---------------------------
(***************************************************************************)
(* What a Central is to the program that listens with it: a server of one  *)
(* client at a time.  It listens when it neither serves a client nor waits *)
(* for one; it replies to the client it serves, which is the one its last  *)
(* listen has brought; and replies may still be on their way to a client   *)
(* that is gone.  The server may die at any moment.                        *)
(***************************************************************************)
EXTENDS Naturals

CONSTANT MaxListens  \* bound: how often it listens

VARIABLES
  phase,    \* "idle", "waiting" for a client, or "serving" it
  listens,  \* how often it has listened: the client of the n-th listen is n
  unsent,   \* unsent[n]: the replies to the client n that are on their way
  dead      \* the process is gone

absVars == <<phase, listens, unsent, dead>>

AbsInit ==
  /\ phase = "idle"
  /\ listens = 0
  /\ unsent = [n \in 1 .. MaxListens |-> 0]
  /\ dead = FALSE

Listen ==
  /\ phase = "idle"
  /\ listens < MaxListens
  /\ phase' = "waiting"
  /\ listens' = listens + 1
  /\ UNCHANGED <<unsent, dead>>

Accept ==
  /\ phase = "waiting"
  /\ phase' = "serving"
  /\ UNCHANGED <<listens, unsent, dead>>

\* The client is gone, or none will come.
End ==
  /\ phase \in {"waiting", "serving"}
  /\ phase' = "idle"
  /\ UNCHANGED <<listens, unsent, dead>>

Reply ==
  /\ phase = "serving"
  /\ unsent'[listens] > unsent[listens]
  /\ unsent' = [unsent EXCEPT ![listens] = unsent'[listens]]
  /\ UNCHANGED <<phase, listens, dead>>

Sent(n) ==
  /\ unsent[n] > 0
  /\ unsent' = [unsent EXCEPT ![n] = @ - 1]
  /\ UNCHANGED <<phase, listens, dead>>

Die ==
  /\ dead' = TRUE
  /\ UNCHANGED <<phase, listens, unsent>>

AbsNext ==
  /\ ~dead
  /\ \/ Listen \/ Accept \/ End \/ Reply \/ Die
     \/ \E n \in 1 .. MaxListens : Sent(n)

AbsSpec == AbsInit /\ [][AbsNext]_absVars

=============================================================================
