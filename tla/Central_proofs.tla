--------------------------- MODULE Central_proofs ---------------------------
(***************************************************************************)
(* Theorems about Central, for every number of listens, every depth of the *)
(* write queues and every program that is prudent: one that listens only   *)
(* while it has neither a connection it can read nor a listen.             *)
(***************************************************************************)
EXTENDS Central, TLAPS

\* What a prudent program may do about an event.  Listening after a failed
\* write is prudent only of a program that writes nothing.
PrudentReactions ==
  {<<"start", "listen">>, <<"connect", "nothing">>, <<"connectError", "listen">>,
   <<"readError", "listen">>, <<"readError", "close">>, <<"writeError", "nothing">>,
   <<"writeError", "listen">>, <<"close", "listen">>, <<"idle", "hangUp">>}

Prudent(p) ==
  /\ p.reactions \subseteq PrudentReactions
  /\ <<"writeError", "listen">> \in p.reactions => p.listener = "throws"

----------------------------------------------------------------------------
(* The invariant                                                           *)

Active(n) == poll[n] = "active"
Usable(n) == stream[n] \in {"reading", "stopped"}

\* While a listen waits for its client it is the last one, the Central points
\* to it, no connection is read or closed and no event makes the program listen.
ListenIsAlone ==
  \A n \in Number : Active(n) =>
    /\ n = listened /\ poll_handle = n
    /\ sock = Listening(n) /\ sock \in open
    /\ event \in {"none", "writeError"}
    /\ \A m \in Number : stream[m] \notin {"reading", "closing"}

\* The Central points to a poll handle until that is closed, and it is the last.
PollHandleIsLast ==
  poll_handle # 0 => /\ poll_handle = listened
                     /\ poll[poll_handle] \in {"active", "closing"}

\* A stream comes after its listen.  The one that is read or is closing is the
\* Central's, and the one that is read came of the last listen.
StreamsInTurn ==
  /\ \A n \in Number :
       /\ stream[n] # "none" => n <= listened /\ poll[n] \in {"closing", "closed"}
       /\ stream[n] \in {"reading", "closing"} => tcp = n
       /\ stream[n] = "reading" => n = listened
       /\ Usable(n) => Client(n) \in open
  /\ tcp # 0 => stream[tcp] \in {"reading", "stopped", "closing"}

\* A connection that has been superseded is so by a listen, or by the failure
\* of one that is about to be made good.
SupersededByListen ==
  tcp # 0 /\ Usable(tcp) =>
    \/ tcp = listened \/ Active(listened)
    \/ event = "connectError" \/ crash # "none"

\* What is known when the program reacts.
EventsInTurn ==
  /\ event \in {"start", "connectError", "close"} =>
       \A n \in Number : stream[n] \notin {"reading", "closing"}
  /\ event = "readError" =>
       /\ tcp # 0 /\ tcp = listened /\ stream[tcp] = "stopped" /\ poll[tcp] = "closed"
  /\ event = "writeError" => program.listener = "replies"
  /\ \A n \in Number : queue[n] > 0 => program.listener = "replies"

\* NeverDeaf, with the events that make a program listen named.
Attentive ==
  \/ event \in {"start", "connectError", "close"} \/ crash # "none" \/ tcp # 0
  \/ \E n \in Number : Active(n)

CentralInv ==
  /\ TypeOK
  /\ onConnects = listened
  /\ ListenIsAlone
  /\ PollHandleIsLast
  /\ StreamsInTurn
  /\ SupersededByListen
  /\ EventsInTurn
  /\ Attentive
  /\ DiesOfExceptionsOnly

----------------------------------------------------------------------------
(* The program                                                             *)

\* The events a deed is a prudent reaction to.
LEMMA PrudentPairs ==
  ASSUME NEW e, NEW deed, <<e, deed>> \in PrudentReactions
  PROVE  /\ deed = "listen" =>
              e \in {"start", "connectError", "readError", "writeError", "close"}
         /\ deed = "close" => e = "readError"
         /\ deed = "hangUp" => e = "idle"
         /\ deed = "nothing" => e \in {"connect", "writeError"}
<1>1. \A x, y : <<e, deed>> = <<x, y>> => e = x /\ deed = y
  OBVIOUS
<1> QED
  BY <1>1 DEF PrudentReactions

\* When a prudent program does what.
LEMMA PrudentDeeds ==
  ASSUME \A p \in Programs : Prudent(p), CentralInv
  PROVE  /\ May("listen") => event \in {"start", "connectError", "readError", "close"}
         /\ May("close") => event = "readError"
         /\ May("hangUp") => event = "none"
         /\ May("nothing") => event \in {"connect", "writeError"}
<1>1. /\ program.reactions \subseteq PrudentReactions
      /\ <<"writeError", "listen">> \in program.reactions => program.listener = "throws"
      /\ event \in Events \cup {"none"}
  BY DEF CentralInv, TypeOK, Prudent
<1>2. event = "writeError" => program.listener = "replies"
  BY DEF CentralInv, EventsInTurn
<1>3. Occasion = IF event = "none" THEN "idle" ELSE event
  BY DEF Occasion
<1>4. ASSUME NEW deed, May(deed)
      PROVE  <<Occasion, deed>> \in PrudentReactions /\ <<Occasion, deed>> \in program.reactions
  BY <1>1, <1>4 DEF May
<1>5. ASSUME May("listen")
      PROVE  event \in {"start", "connectError", "readError", "close"}
  <2>1. Occasion \in {"start", "connectError", "readError", "writeError", "close"}
    BY <1>4, <1>5, PrudentPairs
  <2>2. Occasion # "writeError"
    BY <1>1, <1>2, <1>3, <1>4, <1>5
  <2> QED
    BY <1>3, <2>1, <2>2
<1>6. May("close") => Occasion = "readError"
  BY <1>4, PrudentPairs
<1>7. May("hangUp") => Occasion = "idle"
  BY <1>4, PrudentPairs
<1>8. May("nothing") => Occasion \in {"connect", "writeError"}
  BY <1>4, PrudentPairs
<1> QED
  BY <1>1, <1>3, <1>5, <1>6, <1>7, <1>8 DEF Events

\* A listen begins where no other waits.
LEMMA ListenKeepsInv ==
  ASSUME \A p \in Programs : Prudent(p), CentralInv, Listen
  PROVE  CentralInv'
<1> DEFINE n == listened + 1
<1>1. event \in {"start", "connectError", "readError", "close"} /\ crash = "none"
  BY PrudentDeeds DEF Listen, May
<1>2. /\ listened < MaxListens /\ listened' = n /\ sock' = Listening(n)
      /\ open' = open \cup {Listening(n)} /\ poll_handle' = n
      /\ poll' = [poll EXCEPT ![n] = "active"] /\ onConnects' = onConnects + 1
      /\ event' = "none" /\ UNCHANGED <<program, tcp, stream, queue, onDatas, crash>>
  BY DEF Listen
<1>3. /\ listened \in Nat /\ n \in Number /\ n \in 0 .. MaxListens
      /\ MaxListens \in Nat /\ \A m \in Number : m \in Nat
  BY <1>2, CentralAssumption DEF CentralInv, TypeOK, Number
<1>4. /\ poll'[n] = "active"
      /\ \A m \in Number : m # n => poll'[m] = poll[m] /\ ~Active(m)
  BY <1>1, <1>2, <1>3 DEF CentralInv, TypeOK, ListenIsAlone, Active
<1>5. \A m \in Number : stream[m] \notin {"reading", "closing"}
  BY <1>1 DEF CentralInv, EventsInTurn, StreamsInTurn
<1>6. TypeOK'
  BY <1>2, <1>3 DEF CentralInv, TypeOK, Socket, Listening
<1>7. onConnects' = listened'
  BY <1>2 DEF CentralInv
<1>8. ListenIsAlone'
  BY <1>2, <1>3, <1>4, <1>5 DEF ListenIsAlone, Active
<1>9. PollHandleIsLast'
  BY <1>2, <1>4 DEF PollHandleIsLast
<1>10. StreamsInTurn'
  BY <1>2, <1>3, <1>4, <1>5 DEF CentralInv, StreamsInTurn, Usable, TypeOK
<1>11. SupersededByListen'
  BY <1>2, <1>4 DEF SupersededByListen, Active
<1>12. EventsInTurn' /\ Attentive' /\ DiesOfExceptionsOnly'
  BY <1>1, <1>2, <1>3, <1>4 DEF CentralInv, EventsInTurn, Attentive, DiesOfExceptionsOnly, Active
<1> QED
  BY <1>6, <1>7, <1>8, <1>9, <1>10, <1>11, <1>12 DEF CentralInv

\* What a close does: nothing it points to is being closed already.
ClosesOnce(n) ==
  /\ n = tcp /\ tcp # 0 /\ Usable(n) /\ poll[n] = "closed"
  /\ n = listened \/ Active(listened)

LEMMA ClosableOnce ==
  ASSUME CentralInv, NEW n \in Number, ClosesOnce(n)
  PROVE  Closable
<1>1. stream[tcp] \in {"reading", "stopped"}
  BY DEF ClosesOnce, Usable
<1>2. ASSUME poll_handle # 0  PROVE poll[poll_handle] = "active"
  <2>1. poll_handle = listened /\ poll[listened] \in {"active", "closing"}
    BY <1>2 DEF CentralInv, PollHandleIsLast
  <2> QED
    BY <2>1 DEF ClosesOnce, Active
<1> QED
  BY <1>1, <1>2 DEF Closable

\* Closing the handles leaves the Central with a stream that is closing.
LEMMA ClosingKeepsInv ==
  ASSUME CentralInv, crash = "none", event \in {"none", "readError"},
         NEW n \in Number, ClosesOnce(n), CloseHandles, event' = "none",
         UNCHANGED <<crash, listened, sock, poll_handle, tcp, queue, handlers>>
  PROVE  CentralInv'
<1>1. /\ \A m \in Number : poll'[m] = IF m = poll_handle THEN "closing" ELSE poll[m]
      /\ \A m \in Number : stream'[m] = IF m = tcp THEN "closing" ELSE stream[m]
      /\ poll' \in [Number -> {"none", "active", "closing", "closed"}]
      /\ stream' \in [Number -> {"none", "reading", "stopped", "closing", "closed"}]
      /\ open' = open \ {Client(tcp)}
  <2>1. /\ \A m \in Number : <<"poll", m>> \in Pointed <=> m = poll_handle
        /\ \A m \in Number : <<"tcp", m>> \in Pointed <=> m = tcp
    BY DEF Pointed
  <2> QED
    BY <2>1 DEF CloseHandles, CentralInv, TypeOK
<1>2. TypeOK'
  BY <1>1 DEF CentralInv, TypeOK, handlers
<1>3. \A m \in Number : poll[m] = "active" => m = poll_handle
  BY DEF CentralInv, ListenIsAlone, Active
<1>4. \A m \in Number : poll'[m] # "active"
  BY <1>1, <1>3
<1>5. ListenIsAlone'
  BY <1>4 DEF ListenIsAlone, Active
<1>6. PollHandleIsLast'
  BY <1>1, CentralAssumption DEF CentralInv, PollHandleIsLast, TypeOK
<1>7. \A m \in Number : m # n => stream[m] \notin {"reading", "closing"}
  BY DEF CentralInv, StreamsInTurn, ClosesOnce
<1>8. StreamsInTurn'
  <2>1. \A m \in Number : Client(m) # Client(tcp) \/ m = tcp
    BY DEF Client
  <2> QED
    BY <1>1, <1>7, <2>1 DEF CentralInv, StreamsInTurn, Usable, ClosesOnce
<1>9. SupersededByListen' /\ EventsInTurn' /\ Attentive'
  BY <1>1 DEF SupersededByListen, Usable, EventsInTurn, Attentive, CentralInv, ClosesOnce,
              handlers
<1>10. DiesOfExceptionsOnly' /\ onConnects' = listened'
  BY DEF CentralInv, DiesOfExceptionsOnly, handlers
<1> QED
  BY <1>2, <1>5, <1>6, <1>8, <1>9, <1>10 DEF CentralInv

\* A prudent program closes what it has not closed yet.
LEMMA CloseFindsOpen ==
  ASSUME \A p \in Programs : Prudent(p), CentralInv, Close
  PROVE  /\ crash = "none" /\ event \in {"none", "readError"}
         /\ tcp \in Number /\ ClosesOnce(tcp)
         /\ CloseHandles /\ UNCHANGED crash
<1>1. crash = "none" /\ event \in {"none", "readError"}
  BY PrudentDeeds DEF Close, May
<1>2. tcp \in Number /\ ClosesOnce(tcp)
  <2>1. CASE event = "readError"
    BY <2>1 DEF CentralInv, TypeOK, EventsInTurn, ClosesOnce, Usable
  <2>2. CASE event = "none"
    <3>1. Serving
      BY <2>2, PrudentDeeds DEF Close
    <3> QED
      BY <1>1, <2>2, <3>1
      DEF CentralInv, TypeOK, SupersededByListen, Serving, ClosesOnce, Usable
  <2> QED
    BY <1>1, <2>1, <2>2
<1>3. CloseHandles /\ UNCHANGED crash
  BY <1>2, ClosableOnce DEF Close
<1> QED
  BY <1>1, <1>2, <1>3

LEMMA CloseKeepsInv ==
  ASSUME \A p \in Programs : Prudent(p), CentralInv, Close
  PROVE  CentralInv'
BY CloseFindsOpen, ClosingKeepsInv DEF Close

\* A listen that fails ends the process; doing nothing loses no listen.
LEMMA ThrowOrNothingKeepsInv ==
  ASSUME \A p \in Programs : Prudent(p), CentralInv, ListenThrows \/ Nothing
  PROVE  CentralInv'
<1> USE DEF handlers
<1>1. /\ UNCHANGED <<listened, sock, open, poll_handle, tcp, poll, stream, queue, handlers>>
      /\ event' = "none" /\ crash' \in {crash, "listenThrew"}
      /\ crash = "none"
  BY DEF ListenThrows, Nothing, Crash, May
<1>2. TypeOK' /\ DiesOfExceptionsOnly' /\ onConnects' = listened'
  BY <1>1 DEF CentralInv, TypeOK, DiesOfExceptionsOnly
<1>3. ListenIsAlone' /\ PollHandleIsLast' /\ StreamsInTurn' /\ EventsInTurn'
  BY <1>1 DEF CentralInv, ListenIsAlone, PollHandleIsLast, StreamsInTurn, EventsInTurn,
              Active, Usable
<1>4. event = "connectError" => crash' # "none"
  BY PrudentDeeds DEF ListenThrows, Nothing, Crash
<1>5. SupersededByListen'
  BY <1>1, <1>4 DEF CentralInv, SupersededByListen, Active, Usable
<1>6. event \in {"start", "connectError", "close"} => crash' # "none"
  BY PrudentDeeds DEF ListenThrows, Nothing, Crash
<1>7. Attentive'
  BY <1>1, <1>6 DEF CentralInv, Attentive, Active
<1> QED
  BY <1>2, <1>3, <1>5, <1>7 DEF CentralInv

----------------------------------------------------------------------------
(* The callbacks                                                           *)

\* The client of the last listen becomes the Central's.
LEMMA OnConnectKeepsInv ==
  ASSUME CentralInv, NEW n \in Number, OnConnect(n)
  PROVE  CentralInv'
<1>1. /\ Active(n) /\ crash = "none" /\ event = "none"
      /\ poll' = [poll EXCEPT ![n] = "closing"]
      /\ open' = (open \ {sock}) \cup {Client(n)} /\ sock' = Client(n) /\ tcp' = n
      /\ stream' = [stream EXCEPT ![n] = "reading"]
      /\ onDatas' = onDatas + onConnects /\ event' = "connect"
      /\ UNCHANGED <<program, listened, poll_handle, queue, onConnects, crash>>
  BY DEF OnConnect, Turn, Active, PollStopped
<1>2. /\ n = listened /\ poll_handle = n /\ sock = Listening(n) /\ n # 0
      /\ \A m \in Number : m # n => ~Active(m)
      /\ \A m \in Number : stream[m] \notin {"reading", "closing"}
  BY <1>1 DEF CentralInv, ListenIsAlone, Number
<1>3. /\ poll'[n] = "closing" /\ stream'[n] = "reading"
      /\ \A m \in Number : m # n => poll'[m] = poll[m] /\ stream'[m] = stream[m]
  BY <1>1 DEF CentralInv, TypeOK
<1>4. TypeOK'
  <2>1. onDatas' \in Nat
    BY <1>1 DEF CentralInv, TypeOK
  <2> QED
    BY <1>1, <2>1 DEF CentralInv, TypeOK, Client, Socket, Events
<1>5. ListenIsAlone'
  BY <1>2, <1>3 DEF ListenIsAlone, Active
<1>6. PollHandleIsLast'
  BY <1>1, <1>2, <1>3 DEF PollHandleIsLast
<1>7. StreamsInTurn'
  <2>1. \A m \in Number : Client(m) # sock
    BY <1>2 DEF Client, Listening
  <2>2. n <= n
    BY DEF Number
  <2> QED
    BY <1>1, <1>2, <1>3, <2>1, <2>2 DEF CentralInv, StreamsInTurn, Usable
<1>8. SupersededByListen' /\ EventsInTurn' /\ Attentive' /\ DiesOfExceptionsOnly'
  BY <1>1, <1>2 DEF CentralInv, SupersededByListen, EventsInTurn, Attentive,
                    DiesOfExceptionsOnly
<1> QED
  BY <1>1, <1>4, <1>5, <1>6, <1>7, <1>8 DEF CentralInv

\* A listen that fails closes its socket and no other.
LEMMA OnConnectFailsKeepsInv ==
  ASSUME CentralInv, NEW n \in Number, OnConnectFails(n)
  PROVE  CentralInv'
<1> USE DEF handlers
<1>1. /\ Active(n) /\ crash = "none" /\ event = "none"
      /\ poll' = [poll EXCEPT ![n] = "closing"]
      /\ open' = open \ {sock} /\ sock' = NoSocket /\ event' = "connectError"
      /\ UNCHANGED <<listened, tcp, stream, poll_handle, queue, handlers, crash>>
  BY DEF OnConnectFails, Turn, Active, PollStopped
<1>2. /\ n = listened /\ poll_handle = n /\ sock = Listening(n)
      /\ \A m \in Number : m # n => ~Active(m)
      /\ \A m \in Number : stream[m] \notin {"reading", "closing"}
  BY <1>1 DEF CentralInv, ListenIsAlone
<1>3. /\ poll'[n] = "closing"
      /\ \A m \in Number : m # n => poll'[m] = poll[m]
  BY <1>1 DEF CentralInv, TypeOK
<1>4. TypeOK'
  BY <1>1 DEF CentralInv, TypeOK, Events
<1>5. ListenIsAlone'
  BY <1>2, <1>3 DEF ListenIsAlone, Active
<1>6. PollHandleIsLast'
  BY <1>1, <1>2, <1>3 DEF PollHandleIsLast
<1>7. StreamsInTurn'
  <2>1. \A m \in Number : Client(m) # sock
    BY <1>2 DEF Client, Listening
  <2> QED
    BY <1>1, <1>2, <1>3, <2>1 DEF CentralInv, StreamsInTurn, Usable
<1>8. SupersededByListen' /\ EventsInTurn' /\ Attentive' /\ DiesOfExceptionsOnly'
  BY <1>1, <1>2 DEF CentralInv, SupersededByListen, EventsInTurn, Attentive,
                    DiesOfExceptionsOnly
<1> QED
  BY <1>1, <1>4, <1>5, <1>6, <1>7, <1>8 DEF CentralInv

LEMMA OnPollClosedKeepsInv ==
  ASSUME CentralInv, NEW n \in Number, OnPollClosed(n)
  PROVE  CentralInv'
<1> USE DEF handlers
<1>1. /\ poll[n] = "closing" /\ crash = "none" /\ event = "none"
      /\ poll' = [poll EXCEPT ![n] = "closed"]
      /\ poll_handle' = IF poll_handle = n THEN 0 ELSE poll_handle
      /\ event' = event
      /\ UNCHANGED <<listened, sock, open, tcp, stream, queue, handlers, crash>>
  BY DEF OnPollClosed, Turn, PollForgotten, PollUnreported
<1>2. /\ poll'[n] = "closed"
      /\ \A m \in Number : m # n => poll'[m] = poll[m]
  BY <1>1 DEF CentralInv, TypeOK
<1>3. TypeOK'
  BY <1>1 DEF CentralInv, TypeOK
<1>4. \A m \in Number : Active(m)' <=> Active(m)
  BY <1>1, <1>2 DEF Active
<1>5. ListenIsAlone'
  BY <1>1, <1>4 DEF CentralInv, ListenIsAlone, Active
<1>6. PollHandleIsLast'
  BY <1>1, <1>2 DEF CentralInv, TypeOK, PollHandleIsLast
<1>7. StreamsInTurn'
  BY <1>1, <1>2 DEF CentralInv, StreamsInTurn, Usable
<1>8. SupersededByListen'
  BY <1>1, <1>2 DEF CentralInv, SupersededByListen, Usable, Active
<1>9. EventsInTurn' /\ Attentive' /\ DiesOfExceptionsOnly'
  BY <1>1, <1>4 DEF CentralInv, EventsInTurn, Attentive, DiesOfExceptionsOnly
<1> QED
  BY <1>1, <1>3, <1>5, <1>6, <1>7, <1>8, <1>9 DEF CentralInv

\* A request finds a stream to write the reply to.
LEMMA OnDataKeepsInv ==
  ASSUME CentralInv, NEW n \in Number, OnData(n)
  PROVE  CentralInv'
<1> USE DEF handlers
<1>1. /\ stream[n] = "reading" /\ crash = "none"
      /\ UNCHANGED <<listened, sock, open, poll_handle, tcp, poll, stream, handlers, event>>
  BY DEF OnData, CanRead, Turn
<1>2. tcp = n /\ tcp # 0
  BY <1>1 DEF CentralInv, StreamsInTurn, Number
<1>3. /\ queue' \in [Number -> Nat]
      /\ crash' \in {"none", "handlerThrew"}
      /\ \A m \in Number : queue'[m] > 0 => program.listener = "replies"
  <2>1. CASE program.listener = "throws" /\ crash' = "handlerThrew" /\ UNCHANGED queue
    BY <2>1 DEF CentralInv, TypeOK, EventsInTurn
  <2>2. CASE program.listener = "replies" /\ Replied /\ UNCHANGED crash
    <3>1. onDatas \in Nat /\ queue \in [Number -> Nat]
      BY DEF CentralInv, TypeOK
    <3>2. \A m \in Number : queue[m] + onDatas \in Nat
      BY <3>1
    <3> QED
      BY <1>1, <1>2, <2>2, <3>1, <3>2 DEF Replied
  <2> QED
    BY <1>2, <2>1, <2>2 DEF OnData
<1>4. TypeOK' /\ DiesOfExceptionsOnly'
  BY <1>1, <1>3 DEF CentralInv, TypeOK, DiesOfExceptionsOnly
<1>5. ListenIsAlone' /\ PollHandleIsLast' /\ StreamsInTurn'
  BY <1>1 DEF CentralInv, ListenIsAlone, PollHandleIsLast, StreamsInTurn, Active, Usable
<1>6. SupersededByListen' /\ Attentive'
  BY <1>1, <1>2 DEF CentralInv, SupersededByListen, Attentive, Active, Usable
<1>7. EventsInTurn'
  BY <1>1, <1>3 DEF CentralInv, EventsInTurn
<1> QED
  BY <1>1, <1>4, <1>5, <1>6, <1>7 DEF CentralInv

\* A connection that is reset is closed with nothing else.
LEMMA ResetFindsOpen ==
  ASSUME CentralInv, NEW n \in Number, OnReset(n)
  PROVE  /\ crash = "none" /\ event = "none" /\ stream[n] = "reading"
         /\ ClosesOnce(n) /\ CloseHandles /\ UNCHANGED crash
<1>1. stream[n] = "reading" /\ poll[n] = "closed" /\ crash = "none" /\ event = "none"
  BY DEF OnReset, CanRead, Turn
<1>2. ClosesOnce(n)
  BY <1>1 DEF CentralInv, StreamsInTurn, ClosesOnce, Usable, Number
<1>3. CloseHandles /\ UNCHANGED crash
  BY <1>2, ClosableOnce DEF OnReset, ResetCloses
<1> QED
  BY <1>1, <1>2, <1>3

LEMMA OnResetKeepsInv ==
  ASSUME CentralInv, NEW n \in Number, OnReset(n)
  PROVE  CentralInv'
BY ResetFindsOpen, ClosingKeepsInv DEF OnReset

\* A connection that cannot be read any more is reported.
LEMMA OnReadErrorKeepsInv ==
  ASSUME CentralInv, NEW n \in Number, OnReadError(n)
  PROVE  CentralInv'
<1> USE DEF handlers
<1>1. /\ stream[n] = "reading" /\ poll[n] = "closed" /\ crash = "none" /\ event = "none"
      /\ stream' = [stream EXCEPT ![n] = "stopped"] /\ event' = "readError"
      /\ UNCHANGED <<listened, sock, open, poll_handle, tcp, poll, queue, handlers, crash>>
  BY DEF OnReadError, CanRead, Turn
<1>2. tcp = n /\ tcp # 0 /\ n = listened /\ \A m \in Number : ~Active(m)
  BY <1>1 DEF CentralInv, StreamsInTurn, ListenIsAlone, Number
<1>3. /\ stream'[n] = "stopped"
      /\ \A m \in Number : m # n => stream'[m] = stream[m]
  BY <1>1 DEF CentralInv, TypeOK
<1>4. TypeOK' /\ DiesOfExceptionsOnly'
  BY <1>1 DEF CentralInv, TypeOK, DiesOfExceptionsOnly, Events
<1>5. ListenIsAlone' /\ PollHandleIsLast'
  BY <1>1, <1>2 DEF CentralInv, ListenIsAlone, PollHandleIsLast, Active
<1>6. StreamsInTurn'
  BY <1>1, <1>2, <1>3 DEF CentralInv, StreamsInTurn, Usable
<1>7. SupersededByListen' /\ EventsInTurn' /\ Attentive'
  BY <1>1, <1>2, <1>3 DEF CentralInv, SupersededByListen, EventsInTurn, Attentive
<1> QED
  BY <1>1, <1>4, <1>5, <1>6, <1>7 DEF CentralInv

\* A failed write is reported to a program that writes.
LEMMA OnWriteKeepsInv ==
  ASSUME CentralInv, NEW n \in Number, NEW status \in {"done", "failed"}, OnWrite(n, status)
  PROVE  CentralInv'
<1> USE DEF handlers
<1>1. /\ queue[n] > 0 /\ crash = "none" /\ event = "none"
      /\ queue' = [queue EXCEPT ![n] = queue[n] - 1] /\ event' \in {"none", "writeError"}
      /\ UNCHANGED <<listened, sock, open, poll_handle, tcp, poll, stream, handlers, crash>>
  BY DEF OnWrite, Turn
<1>2. queue' \in [Number -> Nat] /\ program.listener = "replies"
  <2>1. queue \in [Number -> Nat]
    BY DEF CentralInv, TypeOK
  <2>2. queue[n] - 1 \in Nat
    BY <1>1, <2>1
  <2> QED
    BY <1>1, <2>1, <2>2 DEF CentralInv, EventsInTurn
<1>3. TypeOK' /\ DiesOfExceptionsOnly'
  BY <1>1, <1>2 DEF CentralInv, TypeOK, DiesOfExceptionsOnly, Events
<1>4. ListenIsAlone' /\ PollHandleIsLast' /\ StreamsInTurn'
  BY <1>1 DEF CentralInv, ListenIsAlone, PollHandleIsLast, StreamsInTurn, Active, Usable
<1>5. SupersededByListen' /\ EventsInTurn' /\ Attentive'
  BY <1>1, <1>2 DEF CentralInv, SupersededByListen, EventsInTurn, Attentive, Active, Usable
<1> QED
  BY <1>1, <1>3, <1>4, <1>5 DEF CentralInv

\* A stream that is closed leaves the Central with an event to listen on.
LEMMA OnTcpClosedKeepsInv ==
  ASSUME CentralInv, NEW n \in Number, OnTcpClosed(n)
  PROVE  CentralInv'
<1> USE DEF handlers
<1>1. /\ stream[n] = "closing" /\ crash = "none" /\ event = "none"
      /\ stream' = [stream EXCEPT ![n] = "closed"]
      /\ UNCHANGED <<listened, sock, open, poll_handle, poll, queue, handlers, crash>>
  BY DEF OnTcpClosed, Turn
<1>2. tcp = n /\ \A m \in Number : ~Active(m)
  BY <1>1 DEF CentralInv, StreamsInTurn, ListenIsAlone
<1>3. tcp' = 0 /\ event' = "close"
  BY <1>2 DEF OnTcpClosed, ClosedReported
<1>4. /\ stream'[n] = "closed"
      /\ \A m \in Number : m # n => stream'[m] = stream[m]
  BY <1>1 DEF CentralInv, TypeOK
<1>5. \A m \in Number : stream'[m] \notin {"reading", "closing"}
  BY <1>2, <1>4 DEF CentralInv, StreamsInTurn
<1>6. TypeOK' /\ DiesOfExceptionsOnly'
  BY <1>1, <1>3 DEF CentralInv, TypeOK, DiesOfExceptionsOnly, Events
<1>7. ListenIsAlone' /\ PollHandleIsLast'
  BY <1>1, <1>2 DEF CentralInv, ListenIsAlone, PollHandleIsLast, Active
<1>8. StreamsInTurn'
  BY <1>1, <1>3, <1>4, <1>5 DEF CentralInv, StreamsInTurn, Usable
<1>9. SupersededByListen' /\ EventsInTurn' /\ Attentive'
  BY <1>1, <1>3, <1>5 DEF CentralInv, SupersededByListen, EventsInTurn, Attentive
<1> QED
  BY <1>1, <1>6, <1>7, <1>8, <1>9 DEF CentralInv

----------------------------------------------------------------------------
(* The specification                                                       *)

LEMMA InitCentralInv == Init => CentralInv
<1> SUFFICES ASSUME Init  PROVE CentralInv
  OBVIOUS
<1>1. TypeOK
  BY CentralAssumption DEF Init, TypeOK, Events
<1>2. ListenIsAlone /\ PollHandleIsLast /\ StreamsInTurn
  BY DEF Init, ListenIsAlone, PollHandleIsLast, StreamsInTurn, Active, Usable
<1>3. SupersededByListen /\ EventsInTurn /\ Attentive /\ DiesOfExceptionsOnly
  BY DEF Init, SupersededByListen, EventsInTurn, Attentive, DiesOfExceptionsOnly
<1> QED
  BY <1>1, <1>2, <1>3 DEF CentralInv, Init

LEMMA StepCentralInv ==
  ASSUME \A p \in Programs : Prudent(p)
  PROVE  CentralInv /\ [Next]_vars => CentralInv'
<1> SUFFICES ASSUME CentralInv, [Next]_vars  PROVE CentralInv'
  OBVIOUS
<1>1. CASE Program
  BY <1>1, ListenKeepsInv, CloseKeepsInv, ThrowOrNothingKeepsInv DEF Program
<1>2. ASSUME NEW n \in Number, Callback(n)
      PROVE  CentralInv'
  BY <1>2, OnConnectKeepsInv, OnConnectFailsKeepsInv, OnPollClosedKeepsInv, OnDataKeepsInv,
     OnResetKeepsInv, OnReadErrorKeepsInv, OnWriteKeepsInv, OnTcpClosedKeepsInv DEF Callback
<1>3. CASE UNCHANGED vars
  BY <1>3 DEF vars, CentralInv, TypeOK, ListenIsAlone, PollHandleIsLast, StreamsInTurn,
              SupersededByListen, EventsInTurn, Attentive, DiesOfExceptionsOnly, Active, Usable
<1> QED
  BY <1>1, <1>2, <1>3 DEF Next

LEMMA CentralInvariant ==
  ASSUME \A p \in Programs : Prudent(p)
  PROVE  Spec => []CentralInv
<1>1. CentralInv /\ [Next]_vars => CentralInv'
  BY StepCentralInv
<1> QED
  BY <1>1, InitCentralInv, PTL DEF Spec

\* The state of src/src/central.h and of the handles libuv holds for it keeps
\* its types.
THEOREM TypeCorrect ==
  ASSUME \A p \in Programs : Prudent(p)
  PROVE  Spec => []TypeOK
<1>1. CentralInv => TypeOK
  BY DEF CentralInv
<1> QED
  BY <1>1, CentralInvariant, PTL

\* Though every listen and every accept of central.cc overwrites sock, tcp and
\* poll_handle, no socket is closed under a handle that watches it.
THEOREM SocketsStayOpen ==
  ASSUME \A p \in Programs : Prudent(p)
  PROVE  Spec => []WatchedIsOpen
<1>1. CentralInv => WatchedIsOpen
  BY DEF CentralInv, ListenIsAlone, StreamsInTurn, WatchedIsOpen, Active, Usable
<1> QED
  BY <1>1, CentralInvariant, PTL

\* A reply of Central::write goes to the client whose request was read.
THEOREM RepliesGoToTheReader ==
  ASSUME \A p \in Programs : Prudent(p)
  PROVE  Spec => []ReaderIsCurrent
<1>1. CentralInv => ReaderIsCurrent
  BY DEF CentralInv, StreamsInTurn, ReaderIsCurrent
<1> QED
  BY <1>1, CentralInvariant, PTL

\* A prudent program is never left with nothing to wait for.
THEOREM ServerIsAttentive ==
  ASSUME \A p \in Programs : Prudent(p)
  PROVE  Spec => []NeverDeaf
<1>1. CentralInv => NeverDeaf
  BY DEF CentralInv, Attentive, NeverDeaf, Active
<1> QED
  BY <1>1, CentralInvariant, PTL

\* No handle is closed twice and nothing is written to a stream that is gone.
THEOREM NoHandleClosedTwice ==
  ASSUME \A p \in Programs : Prudent(p)
  PROVE  Spec => []DiesOfExceptionsOnly
<1>1. CentralInv => DiesOfExceptionsOnly
  BY DEF CentralInv
<1> QED
  BY <1>1, CentralInvariant, PTL

----------------------------------------------------------------------------
(* The refinement of CentralServer                                         *)

\* The phase, from the handles.
LEMMA Phases ==
  /\ Phase \in {"idle", "waiting", "serving"}
  /\ Phase = "waiting" <=> \E n \in Number : Active(n)
  /\ Phase = "serving" <=> /\ \A n \in Number : ~Active(n)
                           /\ \E n \in Number : stream[n] = "reading"
BY DEF Phase, Active

\* The same of the next state.
LEMMA PhasesNext ==
  /\ Phase' \in {"idle", "waiting", "serving"}
  /\ Phase' = "waiting" <=> \E n \in Number : poll'[n] = "active"
  /\ Phase' = "serving" <=> /\ \A n \in Number : poll'[n] # "active"
                            /\ \E n \in Number : stream'[n] = "reading"
BY DEF Phase

\* A step that begins and ends no listen and no reading leaves the phase alone.
LEMMA PhaseStays ==
  ASSUME \A n \in Number : /\ poll'[n] = "active" <=> poll[n] = "active"
                           /\ stream'[n] = "reading" <=> stream[n] = "reading"
  PROVE  Phase' = Phase
<1>1. (\E n \in Number : poll'[n] = "active") <=> (\E n \in Number : Active(n))
  BY DEF Active
<1>2. (\E n \in Number : stream'[n] = "reading")
      <=> (\E n \in Number : stream[n] = "reading")
  OBVIOUS
<1>3. Phase' = "waiting" <=> Phase = "waiting"
  BY <1>1, Phases, PhasesNext
<1>4. Phase' = "serving" <=> Phase = "serving"
  BY <1>1, <1>2, Phases, PhasesNext DEF Active
<1> QED
  BY <1>3, <1>4, Phases, PhasesNext

LEMMA PhaseUnchanged ==
  ASSUME UNCHANGED <<poll, stream>>
  PROVE  Phase' = Phase
BY DEF Phase

Stutters == UNCHANGED <<Phase, listened, queue, crash>>

\* The Central listens when it is idle.
LEMMA ListenServes ==
  ASSUME \A p \in Programs : Prudent(p), CentralInv, Listen
  PROVE  Server!AbsNext
<1> DEFINE n == listened + 1
<1>1. event \in {"start", "connectError", "readError", "close"} /\ crash = "none"
  BY PrudentDeeds DEF Listen, May
<1>2. /\ listened < MaxListens /\ listened' = n /\ poll' = [poll EXCEPT ![n] = "active"]
      /\ UNCHANGED <<queue, crash>>
  BY DEF Listen
<1>3. n \in Number /\ poll'[n] = "active"
  BY <1>2, CentralAssumption DEF CentralInv, TypeOK, Number
<1>4. \A m \in Number : ~Active(m) /\ stream[m] # "reading"
  BY <1>1 DEF CentralInv, ListenIsAlone, EventsInTurn, StreamsInTurn
<1>5. Phase = "idle" /\ Phase' = "waiting"
  BY <1>3, <1>4, Phases, PhasesNext
<1>6. Server!Listen
  BY <1>1, <1>2, <1>5 DEF Server!Listen
<1> QED
  BY <1>1, <1>6 DEF Server!AbsNext

\* A close, by the program or after a reset, ends what it was doing.
LEMMA ClosingServes ==
  ASSUME CentralInv, crash = "none", NEW n \in Number, ClosesOnce(n), CloseHandles,
         UNCHANGED <<crash, listened, queue>>
  PROVE  Server!AbsNext \/ Stutters
<1>1. /\ \A m \in Number : poll'[m] = IF m = poll_handle THEN "closing" ELSE poll[m]
      /\ \A m \in Number : stream'[m] = IF m = tcp THEN "closing" ELSE stream[m]
  <2>1. /\ \A m \in Number : <<"poll", m>> \in Pointed <=> m = poll_handle
        /\ \A m \in Number : <<"tcp", m>> \in Pointed <=> m = tcp
    BY DEF Pointed
  <2> QED
    BY <2>1 DEF CloseHandles
<1>2. /\ \A m \in Number : Active(m) => m = poll_handle
      /\ \A m \in Number : stream[m] = "reading" => m = tcp
  BY DEF CentralInv, ListenIsAlone, StreamsInTurn
<1>3. \A m \in Number : poll'[m] # "active" /\ stream'[m] # "reading"
  BY <1>1, <1>2 DEF Active
<1>4. Phase' = "idle"
  BY <1>3, PhasesNext
<1>5. CASE Phase = "idle"
  BY <1>4, <1>5 DEF Stutters
<1>6. CASE Phase # "idle"
  <2>1. Server!End
    BY <1>4, <1>6, Phases DEF Server!End
  <2> QED
    BY <2>1 DEF Server!AbsNext
<1> QED
  BY <1>5, <1>6

\* A listen that throws, or a listener, ends the process.
LEMMA DeathServes ==
  ASSUME crash = "none", crash' # "none", UNCHANGED <<listened, poll, stream, queue>>
  PROVE  Server!AbsNext
<1>1. Phase' = Phase
  BY PhaseUnchanged
<1> QED
  BY <1>1 DEF Server!AbsNext, Server!Die

\* The client comes that the listen waits for, or none does.
LEMMA OnConnectServes ==
  ASSUME CentralInv, NEW n \in Number, OnConnect(n) \/ OnConnectFails(n)
  PROVE  Server!AbsNext
<1>1. /\ crash = "none" /\ Active(n) /\ poll' = [poll EXCEPT ![n] = "closing"]
      /\ UNCHANGED <<listened, queue, crash>>
  BY DEF OnConnect, OnConnectFails, Turn, Active, PollStopped, handlers
<1>2. /\ \A m \in Number : Active(m) => m = n
      /\ \A m \in Number : stream[m] # "reading"
  BY <1>1 DEF CentralInv, ListenIsAlone
<1>3. Phase = "waiting" /\ \A m \in Number : poll'[m] # "active"
  BY <1>1, <1>2, Phases DEF CentralInv, TypeOK, Active
<1>4. CASE OnConnect(n)
  <2>1. stream'[n] = "reading"
    BY <1>4 DEF OnConnect, CentralInv, TypeOK
  <2>2. Server!Accept
    BY <1>1, <1>3, <2>1, PhasesNext DEF Server!Accept
  <2> QED
    BY <1>1, <2>2 DEF Server!AbsNext
<1>5. CASE OnConnectFails(n)
  <2>1. \A m \in Number : stream'[m] # "reading"
    BY <1>2, <1>5 DEF OnConnectFails
  <2>2. Server!End
    BY <1>1, <1>3, <2>1, PhasesNext DEF Server!End
  <2> QED
    BY <1>1, <2>2 DEF Server!AbsNext
<1> QED
  BY <1>4, <1>5

\* The stream that is read is that of the last listen, and the Central's.
LEMMA ReadingIsServing ==
  ASSUME CentralInv, NEW n \in Number, stream[n] = "reading"
  PROVE  /\ Phase = "serving" /\ n = listened /\ n = tcp
         /\ \A m \in Number : ~Active(m)
         /\ \A m \in Number : stream[m] = "reading" => m = n
<1>1. \A m \in Number : ~Active(m)
  BY DEF CentralInv, ListenIsAlone
<1>2. /\ n = listened /\ n = tcp
      /\ \A m \in Number : stream[m] = "reading" => m = n
  BY DEF CentralInv, StreamsInTurn
<1> QED
  BY <1>1, <1>2, Phases

\* A request is replied to, unless the listener throws.
LEMMA OnDataServes ==
  ASSUME CentralInv, NEW n \in Number, OnData(n)
  PROVE  Server!AbsNext \/ Stutters
<1>1. /\ crash = "none" /\ stream[n] = "reading" /\ UNCHANGED <<listened, poll, stream>>
  BY DEF OnData, CanRead, Turn
<1>2. Phase = "serving" /\ n = listened /\ n = tcp /\ Phase' = Phase
  BY <1>1, ReadingIsServing, PhaseUnchanged
<1>3. CASE crash' # "none"
  <2>1. UNCHANGED queue
    BY <1>1, <1>3 DEF OnData
  <2> QED
    BY <1>1, <1>3, <2>1, DeathServes
<1>4. CASE crash' = "none"
  <2>1. queue' = [queue EXCEPT ![n] = @ + onDatas]
    BY <1>1, <1>2, <1>4 DEF OnData, Replied
  <2>2. queue \in [Number -> Nat] /\ onDatas \in Nat
    BY DEF CentralInv, TypeOK
  <2>3. CASE onDatas = 0
    <3>1. queue[n] + onDatas = queue[n]
      BY <2>2, <2>3
    <3>2. queue' = queue
      BY <2>1, <2>2, <3>1
    <3> QED
      BY <1>1, <1>2, <1>4, <3>2 DEF Stutters
  <2>4. CASE onDatas # 0
    <3>1. queue'[n] > queue[n] /\ queue' = [queue EXCEPT ![n] = queue'[n]]
      BY <2>1, <2>2, <2>4
    <3>2. Server!Reply
      BY <1>1, <1>2, <1>4, <3>1 DEF Server!Reply
    <3> QED
      BY <1>1, <3>2 DEF Server!AbsNext
  <2> QED
    BY <2>3, <2>4
<1> QED
  BY <1>3, <1>4

\* A client that cannot be read any more is not served any more.
LEMMA OnReadErrorServes ==
  ASSUME CentralInv, NEW n \in Number, OnReadError(n)
  PROVE  Server!AbsNext
<1>1. /\ crash = "none" /\ stream[n] = "reading" /\ stream' = [stream EXCEPT ![n] = "stopped"]
      /\ UNCHANGED <<listened, poll, queue, crash>>
  BY DEF OnReadError, CanRead, Turn
<1>2. /\ Phase = "serving"
      /\ \A m \in Number : poll'[m] # "active" /\ stream'[m] # "reading"
  BY <1>1, ReadingIsServing DEF CentralInv, TypeOK, Active
<1>3. Server!End
  BY <1>1, <1>2, PhasesNext DEF Server!End
<1> QED
  BY <1>1, <1>3 DEF Server!AbsNext

\* A reply has been sent, or has failed.
LEMMA OnWriteServes ==
  ASSUME CentralInv, NEW n \in Number, NEW status \in {"done", "failed"}, OnWrite(n, status)
  PROVE  Server!AbsNext
<1>1. /\ crash = "none" /\ queue[n] > 0 /\ queue' = [queue EXCEPT ![n] = @ - 1]
      /\ UNCHANGED <<listened, poll, stream, crash>>
  BY DEF OnWrite, Turn
<1>2. Phase' = Phase
  BY <1>1, PhaseUnchanged
<1>3. Server!Sent(n)
  BY <1>1, <1>2 DEF Server!Sent
<1> QED
  BY <1>1, <1>3 DEF Server!AbsNext, Number

\* Handles that are closed were neither listened nor read with.
LEMMA OnClosedServes ==
  ASSUME CentralInv, NEW n \in Number, OnPollClosed(n) \/ OnTcpClosed(n)
  PROVE  Stutters
<1>1. /\ \A m \in Number : poll'[m] = "active" <=> poll[m] = "active"
      /\ \A m \in Number : stream'[m] = "reading" <=> stream[m] = "reading"
  BY DEF OnPollClosed, OnTcpClosed, CentralInv, TypeOK
<1> QED
  BY <1>1, PhaseStays DEF OnPollClosed, OnTcpClosed, Stutters

LEMMA StepServes ==
  ASSUME \A p \in Programs : Prudent(p), CentralInv, [Next]_vars
  PROVE  [Server!AbsNext]_(Server!absVars)
<1> SUFFICES Server!AbsNext \/ Stutters
  BY DEF Server!absVars, Stutters
<1>1. CASE Listen
  BY <1>1, ListenServes
<1>2. CASE ListenThrows
  BY <1>2, DeathServes DEF ListenThrows, May, Crash
<1>3. CASE Close
  BY <1>3, CloseFindsOpen, ClosingServes DEF Close
<1>4. CASE Nothing
  BY <1>4, PhaseUnchanged DEF Nothing, Stutters
<1>5. ASSUME NEW n \in Number, OnReset(n)  PROVE Server!AbsNext \/ Stutters
  BY <1>5, ResetFindsOpen, ClosingServes DEF OnReset
<1>6. CASE UNCHANGED vars
  BY <1>6, PhaseUnchanged DEF vars, Stutters
<1> QED
  BY <1>1, <1>2, <1>3, <1>4, <1>5, <1>6, OnConnectServes, OnDataServes, OnReadErrorServes,
     OnWriteServes, OnClosedServes DEF Next, Program, Callback

\* The Central of src/src/central.cc, whose one sock, tcp and poll_handle every
\* listen and every accept overwrite, is to a prudent program a server of one
\* client at a time, the one of its last listen.
THEOREM CentralServesOneByOne ==
  ASSUME \A p \in Programs : Prudent(p)
  PROVE  Spec => ServesOneByOne
<1>1. Init => Server!AbsInit
  <2>1. ASSUME Init  PROVE Phase = "idle"
    BY <2>1 DEF Init, Phase
  <2> QED
    BY <2>1 DEF Init, Number, Server!AbsInit
<1>2. CentralInv /\ [Next]_vars => [Server!AbsNext]_(Server!absVars)
  BY StepServes
<1> QED
  BY <1>1, <1>2, CentralInvariant, PTL DEF Spec, ServesOneByOne, Server!AbsSpec

----------------------------------------------------------------------------
(* The listeners pile up, whatever the program                             *)

\* Once there is an n-th client, n 'data' listeners or more are on the Central.
ListenersPileUp == \A n \in Number : stream[n] # "none" => onDatas >= n

\* Each listen has added a 'connect' listener, and there is no client, nor a poll
\* handle, before its listen.
PileInv ==
  /\ listened \in Nat /\ onDatas \in Nat
  /\ onConnects = listened
  /\ DOMAIN poll = Number /\ DOMAIN stream = Number
  /\ \A n \in Number : poll[n] # "none" => n <= listened
  /\ ListenersPileUp

LEMMA ListenKeepsPile == ASSUME PileInv, Listen  PROVE PileInv'
<1> DEFINE n == listened + 1
<1>1. /\ listened' = n /\ onConnects' = onConnects + 1
      /\ poll' = [poll EXCEPT ![n] = "active"] /\ UNCHANGED <<stream, onDatas>>
  BY DEF Listen
<1>2. \A m \in Number : poll'[m] # "none" => m = n \/ poll[m] # "none"
  BY <1>1 DEF PileInv
<1>3. \A m \in Number : poll'[m] # "none" => m <= n
  BY <1>2, CentralAssumption DEF PileInv, Number
<1> QED
  BY <1>1, <1>3 DEF PileInv, ListenersPileUp

LEMMA OnConnectKeepsPile == ASSUME PileInv, NEW n \in Number, OnConnect(n)  PROVE PileInv'
<1>1. /\ poll[n] = "active" /\ poll' = [poll EXCEPT ![n] = "closing"]
      /\ stream' = [stream EXCEPT ![n] = "reading"]
      /\ onDatas' = onDatas + onConnects /\ UNCHANGED <<listened, onConnects>>
  BY DEF OnConnect, PollStopped
<1>2. n \in Nat /\ n <= listened
  BY <1>1, CentralAssumption DEF PileInv, Number
<1>3. onDatas' \in Nat /\ onDatas' >= n /\ onDatas' >= onDatas
  BY <1>1, <1>2 DEF PileInv
<1>4. \A m \in Number : poll'[m] # "none" => m <= listened'
  BY <1>1, <1>2 DEF PileInv
<1>5. ASSUME NEW m \in Number, stream'[m] # "none"  PROVE onDatas' >= m
  <2>1. m = n \/ stream[m] # "none"
    BY <1>1, <1>5 DEF PileInv
  <2>2. m \in Nat /\ (stream[m] # "none" => onDatas >= m)
    BY CentralAssumption DEF PileInv, ListenersPileUp, Number
  <2> QED
    BY <1>3, <2>1, <2>2 DEF PileInv
<1> QED
  BY <1>1, <1>3, <1>4, <1>5 DEF PileInv, ListenersPileUp

\* No other step makes a client, or touches the listeners.
LEMMA OthersKeepPile ==
  ASSUME PileInv, UNCHANGED <<listened, onConnects, onDatas>>,
         DOMAIN poll' = Number, DOMAIN stream' = Number,
         \A n \in Number : /\ poll'[n] # "none" => poll[n] # "none"
                           /\ stream'[n] # "none" => stream[n] # "none"
  PROVE  PileInv'
BY DEF PileInv, ListenersPileUp

LEMMA ClosingKeepsPile ==
  ASSUME PileInv, UNCHANGED <<listened, onConnects, onDatas>>,
         CloseHandles \/ UNCHANGED <<poll, stream>>,
         Closable \/ UNCHANGED <<poll, stream>>
  PROVE  PileInv'
<1>1. CASE UNCHANGED <<poll, stream>>
  BY <1>1, OthersKeepPile DEF PileInv
<1>2. CASE CloseHandles /\ Closable
  <2>1. \A n \in Number : <<"poll", n>> \in Pointed => n = poll_handle
    BY DEF Pointed
  <2>2. \A n \in Number : <<"tcp", n>> \in Pointed => n = tcp
    BY DEF Pointed
  <2>3. /\ DOMAIN poll' = Number /\ DOMAIN stream' = Number
        /\ \A n \in Number : poll'[n] = poll[n] \/ n = poll_handle
        /\ \A n \in Number : stream'[n] = stream[n] \/ n = tcp
    BY <1>2, <2>1, <2>2 DEF CloseHandles
  <2>4. /\ \A n \in Number : n = poll_handle => poll[n] # "none"
        /\ \A n \in Number : n = tcp => stream[n] # "none"
    BY <1>2, CentralAssumption DEF Closable, Number
  <2> QED
    BY <2>3, <2>4, OthersKeepPile
<1> QED
  BY <1>1, <1>2

LEMMA StepPileInv == PileInv /\ [Next]_vars => PileInv'
<1> SUFFICES ASSUME PileInv, [Next]_vars  PROVE PileInv'
  OBVIOUS
<1>1. CASE Listen
  BY <1>1, ListenKeepsPile
<1>2. CASE ListenThrows \/ Nothing \/ UNCHANGED vars
  <2>1. UNCHANGED <<listened, onConnects, onDatas, poll, stream>>
    BY <1>2 DEF ListenThrows, Crash, Nothing, handlers, vars
  <2> QED
    BY <2>1, OthersKeepPile DEF PileInv
<1>3. CASE Close
  BY <1>3, ClosingKeepsPile DEF Close, handlers
<1>4. ASSUME NEW n \in Number, OnConnect(n)  PROVE PileInv'
  BY <1>4, OnConnectKeepsPile
<1>5. ASSUME NEW n \in Number, OnConnectFails(n) \/ OnPollClosed(n)  PROVE PileInv'
  <2>1. /\ poll[n] \in {"active", "closing"} /\ stream' = stream
        /\ \E state : poll' = [poll EXCEPT ![n] = state]
        /\ UNCHANGED <<listened, onConnects, onDatas>>
    BY <1>5 DEF OnConnectFails, OnPollClosed, PollStopped, handlers
  <2> QED
    BY <2>1, OthersKeepPile DEF PileInv
<1>6. ASSUME NEW n \in Number, OnData(n)  PROVE PileInv'
  <2>1. UNCHANGED <<listened, onConnects, onDatas, poll, stream>>
    BY <1>6 DEF OnData, handlers
  <2> QED
    BY <2>1, OthersKeepPile DEF PileInv
<1>7. ASSUME NEW n \in Number, OnReset(n)  PROVE PileInv'
  BY <1>7, ClosingKeepsPile DEF OnReset, ResetCloses, handlers
<1>8. ASSUME NEW n \in Number, OnReadError(n) \/ OnTcpClosed(n)  PROVE PileInv'
  <2>1. /\ stream[n] \in {"reading", "closing"} /\ poll' = poll
        /\ \E state : stream' = [stream EXCEPT ![n] = state]
        /\ UNCHANGED <<listened, onConnects, onDatas>>
    BY <1>8 DEF OnReadError, CanRead, OnTcpClosed, handlers
  <2> QED
    BY <2>1, OthersKeepPile DEF PileInv
<1>9. ASSUME NEW n \in Number, NEW status \in {"done", "failed"}, OnWrite(n, status)
      PROVE  PileInv'
  <2>1. UNCHANGED <<listened, onConnects, onDatas, poll, stream>>
    BY <1>9 DEF OnWrite, handlers
  <2> QED
    BY <2>1, OthersKeepPile DEF PileInv
<1> QED
  BY <1>1, <1>2, <1>3, <1>4, <1>5, <1>6, <1>7, <1>8, <1>9 DEF Next, Program, Callback

\* Whatever the program does, when the client of its n-th listen has connected
\* there are n 'data' listeners or more on the Central, to each of which the first
\* PDU would be handed: peripheral.js adds a 'connect' listener with each listen,
\* of which none is removed and each adds a 'data' listener on every connection.
THEOREM EveryReconnectionMultiplies == Spec => []ListenersPileUp
<1>1. Init => PileInv
  BY CentralAssumption DEF Init, PileInv, ListenersPileUp
<1>2. PileInv => ListenersPileUp
  BY DEF PileInv
<1> QED
  BY <1>1, <1>2, StepPileInv, PTL DEF Spec

=============================================================================
