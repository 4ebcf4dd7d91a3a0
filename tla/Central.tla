------------------------------ MODULE Central ------------------------------
(***************************************************************************)
(* The listening side: Central of src/src/central.cc, the listeners        *)
(* src/lib/peripheral.js puts on it, as much of libuv as it uses, and a    *)
(* program that reacts to its events.  One Central has one poll_handle,    *)
(* one tcp and one sock, which every listen and every accept overwrite.    *)
(*                                                                         *)
(* The n-th listen makes the n-th listening socket and the poll handle     *)
(* that watches it; at most one connection is accepted for it, the n-th    *)
(* client.  Events the program reacts to are emitted as the last deed of a *)
(* handler, so the reaction is the next action.                            *)
(***************************************************************************)
EXTENDS Naturals

CONSTANTS
  MaxListens,  \* bound: how often the program listens
  MaxQueue,    \* bound: requests arrive while fewer replies than this wait
  Programs     \* the programs: what each may do about an event, as a set of
               \* <<event, deed>>, and what its 'data' listener does

Events == {"start", "connect", "connectError", "readError", "writeError", "close"}
Deeds  == {"listen", "close", "hangUp", "nothing"}

ASSUME CentralAssumption ==
  /\ MaxListens \in Nat \ {0}
  /\ MaxQueue \in Nat \ {0}
  /\ Programs \subseteq [reactions : SUBSET ((Events \cup {"idle"}) \X Deeds),
                         listener : {"replies", "throws"}]

VARIABLES
  program,      \* the program that runs
  listened,     \* how often bt_io_listen has succeeded
  sock,         \* Central::sock: the socket it takes for its own, or NoSocket
  open,         \* the sockets that are open
  poll_handle,  \* Central::poll_handle: the number of a listen, 0 for NULL
  tcp,          \* Central::tcp: the number of a client, 0 for NULL
  poll,         \* poll[n]: the poll handle of the n-th listen
  stream,       \* stream[n]: the stream of the n-th client
  queue,        \* queue[n]: the writes libuv holds for stream[n]
  onConnects,   \* the 'connect' listeners peripheral.js has added
  onDatas,      \* the 'data' listeners they have added
  event,        \* the event the program has still to react to, or "none"
  crash         \* "none", or what ended the process

vars == <<program, listened, sock, open, poll_handle, tcp, poll, stream, queue, onConnects,
          onDatas, event, crash>>

handlers == <<program, onConnects, onDatas>>

----------------------------------------------------------------------------
(* State                                                                   *)

Number   == 1 .. MaxListens
NoSocket == <<"none", 0>>
Listening(n) == <<"listen", n>>
Client(n)    == <<"client", n>>
Socket   == {"listen", "client"} \X Number

TypeOK ==
  /\ program \in Programs
  /\ listened \in 0 .. MaxListens
  /\ sock \in Socket \cup {NoSocket}
  /\ open \subseteq Socket
  /\ poll_handle \in Number \cup {0}
  /\ tcp \in Number \cup {0}
  /\ poll \in [Number -> {"none", "active", "closing", "closed"}]
  /\ stream \in [Number -> {"none", "reading", "stopped", "closing", "closed"}]
  /\ queue \in [Number -> Nat]
  /\ onConnects \in 0 .. MaxListens
  /\ onDatas \in Nat
  /\ event \in Events \cup {"none"}
  /\ crash \in {"none", "listenThrew", "handlerThrew", "closedTwice", "nullStream"}

Init ==
  /\ program \in Programs
  /\ listened = 0
  /\ sock = NoSocket
  /\ open = {}
  /\ poll_handle = 0
  /\ tcp = 0
  /\ poll = [n \in Number |-> "none"]
  /\ stream = [n \in Number |-> "none"]
  /\ queue = [n \in Number |-> 0]
  /\ onConnects = 0
  /\ onDatas = 0
  /\ event = "start"
  /\ crash = "none"

\* The loop runs while nothing has ended the process and no event waits.
Turn == crash = "none" /\ event = "none"

Crash(cause) ==
  /\ crash' = cause
  /\ UNCHANGED <<listened, sock, open, poll_handle, tcp, poll, stream, queue, handlers>>

----------------------------------------------------------------------------
(* Central::close                                                          *)

\* The handles close() closes: those it points to, whatever their state.
Pointed == {<<"poll", n>> : n \in {poll_handle} \cap Number}
             \cup {<<"tcp", n>> : n \in {tcp} \cap Number}

\* uv_close on a handle that is already closing is an assertion of libuv.
Closable ==
  /\ poll_handle # 0 => poll[poll_handle] = "active"
  /\ tcp # 0 => stream[tcp] \in {"reading", "stopped"}

\* Seeded fault: the handles are deleted without waiting for onClose.
CloseHandlesDeleting ==
  /\ poll' = [n \in Number |-> IF <<"poll", n>> \in Pointed THEN "deleted" ELSE poll[n]]
  /\ stream' = [n \in Number |-> IF <<"tcp", n>> \in Pointed THEN "deleted" ELSE stream[n]]
  /\ open' = open \ {Client(tcp)}

\* uv_close ends the watching at once and closes the socket of a stream; the
\* listening socket stays open.
CloseHandles ==
  /\ poll' = [n \in Number |-> IF <<"poll", n>> \in Pointed THEN "closing" ELSE poll[n]]
  /\ stream' = [n \in Number |-> IF <<"tcp", n>> \in Pointed THEN "closing" ELSE stream[n]]
  /\ open' = open \ {Client(tcp)}

----------------------------------------------------------------------------
(* The program                                                             *)

\* The event at hand, or "idle" when a timer or another module calls.
Occasion == IF event = "none" THEN "idle" ELSE event

May(deed) == crash = "none" /\ <<Occasion, deed>> \in program.reactions

\* Peripheral.listen adds a 'connect' listener and calls Central::Listen, which
\* overwrites sock and poll_handle ...
Listen ==
  /\ May("listen")
  /\ listened < MaxListens
  /\ LET n == listened + 1
     IN  /\ listened' = n
         /\ sock' = Listening(n)
         /\ open' = open \cup {Listening(n)}
         /\ poll_handle' = n
         /\ poll' = [poll EXCEPT ![n] = "active"]
  /\ onConnects' = onConnects + 1
  /\ event' = "none"
  /\ UNCHANGED <<program, tcp, stream, queue, onDatas, crash>>

\* ... unless bt_io_listen fails: the BTLEException nobody catches.
ListenThrows ==
  /\ May("listen")
  /\ event' = "none"
  /\ Crash("listenThrew")

\* The program hangs up on a connection it knows of: not from within the
\* connect callback, and once.
Serving == tcp # 0 /\ stream[tcp] \in {"reading", "stopped"} /\ poll[tcp] = "closed"

\* Central::Close.
Close ==
  /\ May("close") \/ (May("hangUp") /\ Serving)
  /\ event' = "none"
  /\ IF Closable THEN CloseHandles /\ UNCHANGED crash
                 ELSE crash' = "closedTwice" /\ UNCHANGED <<poll, stream, open>>
  /\ UNCHANGED <<listened, sock, poll_handle, tcp, queue, handlers>>

Nothing ==
  /\ May("nothing")
  /\ event # "none"
  /\ event' = "none"
  /\ UNCHANGED <<listened, sock, open, poll_handle, tcp, poll, stream, queue, handlers, crash>>

----------------------------------------------------------------------------
(* The callbacks                                                           *)

\* Seeded fault: polling is not stopped.
PollStoppedNot(n) == poll

PollStopped(n) == [poll EXCEPT ![n] = "closing"]

\* onConnect stops polling and closes the socket Central::sock names, which it
\* has accepted from.  Each 'connect' listener of peripheral.js then adds a
\* 'data' listener to the Central.
OnConnect(n) ==
  /\ Turn
  /\ poll[n] = "active"
  /\ sock \in open /\ sock[1] = "listen"
  /\ poll' = PollStopped(n)
  /\ open' = (open \ {sock}) \cup {Client(n)}
  /\ sock' = Client(n)
  /\ tcp' = n
  /\ stream' = [stream EXCEPT ![n] = "reading"]
  /\ onDatas' = onDatas + onConnects
  /\ event' = "connect"
  /\ UNCHANGED <<program, listened, poll_handle, queue, onConnects, crash>>

\* A failed poll or accept: the socket Central::sock names is closed.
OnConnectFails(n) ==
  /\ Turn
  /\ poll[n] = "active"
  /\ poll' = PollStopped(n)
  /\ open' = open \ {sock}
  /\ sock' = NoSocket
  /\ event' = "connectError"
  /\ UNCHANGED <<listened, poll_handle, tcp, stream, queue, handlers, crash>>

\* Seeded faults: the closed handle is kept; it is reported like a stream.
PollRemembered(n) == poll_handle
PollReported(n)   == "close"

\* onClose forgets the poll handle, unless another has replaced it, and emits
\* nothing.
PollForgotten(n) == IF poll_handle = n THEN 0 ELSE poll_handle
PollUnreported(n) == event

OnPollClosed(n) ==
  /\ Turn
  /\ poll[n] = "closing"
  /\ poll' = [poll EXCEPT ![n] = "closed"]
  /\ poll_handle' = PollForgotten(n)
  /\ event' = PollUnreported(n)
  /\ UNCHANGED <<listened, sock, open, tcp, stream, queue, handlers, crash>>

\* A stream is first polled in the iteration after the one that opened it,
\* which has ended with the callbacks of the handles closed in it.
CanRead(n) == Turn /\ stream[n] = "reading" /\ poll[n] = "closed"

\* Central::write, once for each 'data' listener.  uv_write refuses a stream
\* that is being closed.
Replied ==
  queue' = IF stream[tcp] \in {"reading", "stopped"} THEN [queue EXCEPT ![tcp] = @ + onDatas]
                                                    ELSE queue

\* 'data' is emitted.  att.createHandler's listener throws, for its module does
\* not declare btle; the listener of a program that uses the Central itself
\* writes a reply, and Central::write writes to Central::tcp.
OnData(n) ==
  /\ CanRead(n)
  /\ queue[n] < MaxQueue
  /\ UNCHANGED <<listened, sock, open, poll_handle, tcp, poll, stream, handlers, event>>
  /\ \/ program.listener = "throws" /\ crash' = "handlerThrew" /\ UNCHANGED queue
     \/ program.listener = "replies" /\ IF tcp = 0 THEN crash' = "nullStream" /\ UNCHANGED queue
                                         ELSE Replied /\ UNCHANGED crash

\* Seeded fault: 'remoteClose' is emitted and nothing closed.
ResetUnclosed(n) ==
  /\ stream' = [stream EXCEPT ![n] = "stopped"]
  /\ UNCHANGED <<poll, open>>

ResetCloses(n) == CloseHandles

\* The peer has reset the connection: 'remoteClose' is emitted, then close()
\* closes what the Central points to.
OnReset(n) ==
  /\ CanRead(n)
  /\ IF Closable THEN ResetCloses(n) /\ UNCHANGED crash
                 ELSE crash' = "closedTwice" /\ UNCHANGED <<poll, stream, open>>
  /\ UNCHANGED <<listened, sock, poll_handle, tcp, queue, handlers, event>>

\* Any other error, the end of the stream included: reading stops.
OnReadError(n) ==
  /\ CanRead(n)
  /\ stream' = [stream EXCEPT ![n] = "stopped"]
  /\ event' = "readError"
  /\ UNCHANGED <<listened, sock, open, poll_handle, tcp, poll, queue, handlers, crash>>

\* onWrite: a reply has no callback, so a failure is emitted.  Closing a stream
\* fails what it has not written yet.
OnWrite(n, status) ==
  /\ Turn
  /\ queue[n] > 0
  /\ stream[n] = "closing" => status = "failed"
  /\ queue' = [queue EXCEPT ![n] = @ - 1]
  /\ event' = IF status = "failed" THEN "writeError" ELSE event
  /\ UNCHANGED <<listened, sock, open, poll_handle, tcp, poll, stream, handlers, crash>>

\* Seeded fault: central->tcp is set to NULL before it is compared.
ClosedUnreported(n) == event

ClosedReported(n) == IF tcp = n THEN "close" ELSE event

\* onClose of a stream: 'close' is emitted for the one the Central points to.
OnTcpClosed(n) ==
  /\ Turn
  /\ stream[n] = "closing"
  /\ queue[n] = 0
  /\ stream' = [stream EXCEPT ![n] = "closed"]
  /\ tcp' = IF tcp = n THEN 0 ELSE tcp
  /\ event' = ClosedReported(n)
  /\ UNCHANGED <<listened, sock, open, poll_handle, poll, queue, handlers, crash>>

----------------------------------------------------------------------------

Program == Listen \/ ListenThrows \/ Close \/ Nothing

Callback(n) ==
  \/ OnConnect(n) \/ OnConnectFails(n) \/ OnPollClosed(n)
  \/ OnData(n) \/ OnReset(n) \/ OnReadError(n)
  \/ \E status \in {"done", "failed"} : OnWrite(n, status)
  \/ OnTcpClosed(n)

Next == Program \/ \E n \in Number : Callback(n)

Reacts == event # "none" /\ Program

\* The event loop calls back what it was given, and the program reacts.
Fairness ==
  /\ WF_vars(Reacts)
  /\ \A n \in Number :
       /\ WF_vars(OnPollClosed(n))
       /\ WF_vars(\E status \in {"done", "failed"} : OnWrite(n, status))
       /\ WF_vars(OnTcpClosed(n))

Spec == Init /\ [][Next]_vars /\ Fairness

----------------------------------------------------------------------------
(* Properties                                                              *)

\* No socket is closed under a handle that still watches it: neither the
\* socket of a listen by an earlier one's onConnect, nor that of a client.
WatchedIsOpen ==
  \A n \in Number :
    /\ poll[n] = "active" => Listening(n) \in open
    /\ stream[n] \in {"reading", "stopped"} => Client(n) \in open

\* The stream a request arrives on is the one Central::tcp names, to which the
\* reply is written: no client gets the reply to another's request.
ReaderIsCurrent == \A n \in Number : stream[n] = "reading" => tcp = n

\* The server is never left without a connection, a listen or an event that
\* makes the program listen again.
NeverDeaf ==
  \/ event # "none" \/ crash # "none" \/ tcp # 0
  \/ \E n \in Number : poll[n] = "active"

\* The process dies of a listen that fails or of a listener that throws, and
\* neither of a handle closed twice nor of a write to no stream.
DiesOfExceptionsOnly == crash \in {"none", "listenThrew", "handlerThrew"}

\* A connection that ends, at either side, is followed by another listen.
ServesAgain ==
  \A n \in Number :
    stream[n] \in {"stopped", "closing"}
      ~> listened > n \/ listened = MaxListens \/ crash # "none"

\* To the program the Central is a server of one client at a time.
Phase ==
  IF \E n \in Number : poll[n] = "active" THEN "waiting"
  ELSE IF \E n \in Number : stream[n] = "reading" THEN "serving" ELSE "idle"

Server == INSTANCE CentralServer
          WITH phase <- Phase, listens <- listened, unsent <- queue, dead <- crash # "none"

\* The Central implements CentralServer: whatever listens, accepts, closes and
\* callbacks overwrite of it, a listen is made only when no client is served and
\* no other listen waits, and replies go to the client of the last one.
ServesOneByOne == Server!AbsSpec

\* Once a connection has ended and the program has listened again, what the next
\* client sends is handed to one 'data' listener, as what the first sent was.
OneListenerAfterReconnect ==
  \A m, n \in Number : stream[m] = "closed" /\ stream[n] = "reading" => onDatas = 1

=============================================================================
