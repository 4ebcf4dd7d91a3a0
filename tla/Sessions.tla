------------------------------ MODULE Sessions ------------------------------
(***************************************************************************)
(* What the connections of a Peripheral are to the program: sessions that  *)
(* have the callbacks in common and nothing else.  The program speaks to   *)
(* the session it began last.  Whichever session comes up or fails, the    *)
(* callback of the latest is told of it; and once a close was given an     *)
(* argument, no session that ends is reported any more.                    *)
(*                                                                         *)
(* For the rest each is on its own.  What is written over it is called     *)
(* back in the order in which it was written, one by one or, when the      *)
(* session ends, all that is left; a session that is ending takes what is  *)
(* written and never calls it back.  One request at a time waits for its   *)
(* answer, which comes only while the session is up.  The process may die  *)
(* at any moment.                                                          *)
(***************************************************************************)
EXTENDS Naturals, Sequences, Functions

CONSTANTS
  Id,       \* the sessions
  Message,  \* what may be written over them, as a command or as a request
  NULL      \* no request, and no session

VARIABLES
  session,  \* session[c]: how far the session c has come
  latest,   \* the session that was begun last, or NULL
  told,     \* told[c]: the sessions whose outcome the callback of c was told
  unsent,   \* unsent[c]: the messages of c that are still to be called back
  sent,     \* sent[w]: what writing the message w has come to
  waiting,  \* waiting[c]: the request c waits for, or NULL
  answer,   \* answer[r]: what the request r has come to
  silenced, \* a close was given an argument
  ended,    \* ended[c]: how the program heard of the end of c
  dead      \* the process is gone

absVars == <<session, latest, told, unsent, sent, waiting, answer, silenced, ended, dead>>

messageVars == <<unsent, sent, waiting, answer>>

AbsInit ==
  /\ session = [c \in Id |-> "none"]
  /\ latest = NULL
  /\ told = [c \in Id |-> <<>>]
  /\ unsent = [c \in Id |-> <<>>]
  /\ sent = [w \in Message |-> "unused"]
  /\ waiting = [c \in Id |-> NULL]
  /\ answer = [r \in Message |-> "unused"]
  /\ silenced = FALSE
  /\ ended = [c \in Id |-> "no"]
  /\ dead = FALSE

Goes(c, from, to) == session[c] = from /\ session' = [session EXCEPT ![c] = to]

\* The session begins, or cannot.
Begin(c) ==
  /\ Goes(c, "none", "connecting") \/ Goes(c, "none", "failed")
  /\ latest' = c
  /\ UNCHANGED <<told, messageVars, silenced, ended, dead>>

\* It comes up, or does not, of which the callback of the latest is told.
ComeUp(c) ==
  /\ Goes(c, "connecting", "up") \/ Goes(c, "connecting", "failed")
  /\ told' = [told EXCEPT ![latest] = Append(@, c)]
  /\ UNCHANGED <<latest, messageVars, silenced, ended, dead>>

New(w) == sent[w] = "unused" /\ answer[w] = "unused"

Taken(c, w) ==
  \/ /\ session[c] = "up"
     /\ unsent' = [unsent EXCEPT ![c] = Append(@, w)]
     /\ sent' = [sent EXCEPT ![w] = "queued"]
  \/ /\ session[c] \in {"ending", "over"}
     /\ sent' = [sent EXCEPT ![w] = "unanswered"]
     /\ UNCHANGED unsent

Command(c, w) ==
  /\ c = latest
  /\ New(w)
  /\ Taken(c, w)
  /\ UNCHANGED <<session, latest, told, waiting, answer, silenced, ended, dead>>

Request(c, r) ==
  /\ c = latest
  /\ New(r)
  /\ Taken(c, r)
  /\ waiting[c] = NULL
  /\ waiting' = [waiting EXCEPT ![c] = r]
  /\ answer' = [answer EXCEPT ![r] = "pending"]
  /\ UNCHANGED <<session, latest, told, silenced, ended, dead>>

\* A request is refused, and not written, while its session waits for another.
Refuse(c, r) ==
  /\ c = latest
  /\ New(r)
  /\ waiting[c] # NULL
  /\ answer' = [answer EXCEPT ![r] = "busy"]
  /\ UNCHANGED <<session, latest, told, unsent, sent, waiting, silenced, ended, dead>>

Sent(c) ==
  /\ session[c] = "up"
  /\ unsent[c] # <<>>
  /\ unsent' = [unsent EXCEPT ![c] = Tail(@)]
  /\ \E status \in {"done", "failed"} : sent' = [sent EXCEPT ![Head(unsent[c])] = status]
  /\ UNCHANGED <<session, latest, told, waiting, answer, silenced, ended, dead>>

Answer(c) ==
  /\ session[c] = "up"
  /\ waiting[c] # NULL
  /\ waiting' = [waiting EXCEPT ![c] = NULL]
  /\ \E how \in {"answered", "link"} : answer' = [answer EXCEPT ![waiting[c]] = how]
  /\ UNCHANGED <<session, latest, told, unsent, sent, silenced, ended, dead>>

\* The latest session is closed if it is up.  Before that there is nothing to
\* close; what was an argument to the close is remembered all the same.
Close(silently) ==
  /\ silenced' = (silenced \/ silently)
  /\ \/ latest \in Id /\ Goes(latest, "up", "ending")
     \/ /\ latest \in Id => session[latest] \in {"connecting", "failed"}
        /\ UNCHANGED session
  /\ UNCHANGED <<latest, told, messageVars, ended, dead>>

\* What is left of its messages is cancelled, and the program told that it ended,
\* unless any close was silent.
End(c) ==
  /\ Goes(c, "ending", "over")
  /\ unsent' = [unsent EXCEPT ![c] = <<>>]
  /\ sent' = [w \in Message |-> IF w \in Range(unsent[c]) THEN "failed" ELSE sent[w]]
  /\ ended' = [ended EXCEPT ![c] = IF silenced THEN "silent" ELSE "event"]
  /\ UNCHANGED <<latest, told, waiting, answer, silenced, dead>>

Die ==
  /\ dead' = TRUE
  /\ UNCHANGED <<session, latest, told, messageVars, silenced, ended>>

AbsNext ==
  /\ ~dead
  /\ \/ \E c \in Id :
          \/ Begin(c) \/ ComeUp(c) \/ Sent(c) \/ Answer(c) \/ End(c)
          \/ \E w \in Message : Command(c, w) \/ Request(c, w) \/ Refuse(c, w)
     \/ \E silently \in BOOLEAN : Close(silently)
     \/ Die

AbsSpec == AbsInit /\ [][AbsNext]_absVars

=============================================================================
