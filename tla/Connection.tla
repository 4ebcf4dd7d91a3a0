----------------------------- MODULE Connection -----------------------------
(***************************************************************************)
(* The life of the connections of one Peripheral: src/src/connection.cc,   *)
(* the functions of src/src/peripheral.cc that open, write to and close    *)
(* it, as much of libuv as they use, and the request that the Att over     *)
(* each Connection has outstanding.  Every Peripheral::Connect makes a new *)
(* Att with a new Connection and drops the pointer to the last ones, whose *)
(* handles live on in the event loop.  A request is answered by one PDU    *)
(* here; those that take more are followed in AttClient.                   *)
(*                                                                         *)
(* Handlers run to their end on the one thread of the loop, and libuv      *)
(* calls back a closed handle only at the end of an iteration: between     *)
(* uv_close and that callback the program may call anything.               *)
(***************************************************************************)
EXTENDS Naturals, Sequences, Functions

CONSTANTS
  Conn,       \* the Connections the program may make
  Message,    \* the messages it may write: each a command or a request
  NULL

ASSUME ConnectionAssumption ==
  /\ NULL \notin Conn
  /\ NULL \notin Message

VARIABLES
  att,            \* Peripheral::att: the Connection in use, or NULL
  connecting,     \* connecting[c]: how connecting c went
  called,         \* called[c]: the connections whose outcome the callback that was
                  \* given with the connect of c has been handed, in their order
  poll_handle,    \* poll_handle[c]: watches the socket of c until it connects
  tcp,            \* tcp[c]: the stream c reads and writes
  tcpData,        \* tcpData[c]: what tcp->data points to
  open,           \* the Connections whose socket is open
  queue,          \* queue[c]: the messages libuv holds for tcp[c]
  write,          \* write[w]: what writing the message w has come to
  currentRequest, \* currentRequest[c]: the request the Att over c waits for
  request,        \* request[w]: what the request w has come to
  broken,         \* the Connections whose read callback was given an error
  closeCallback,  \* Peripheral::closeCallback was given a value
  closed,         \* closed[c]: how the program heard that c was closed
  crash           \* "none", or what ended the process

vars == <<att, connecting, called, poll_handle, tcp, tcpData, open, queue, write,
          currentRequest, request, broken, closeCallback, closed, crash>>

handleVars  == <<poll_handle, tcp, tcpData, open>>
requestVars == <<currentRequest, request>>
closeVars   == <<closeCallback, closed>>

----------------------------------------------------------------------------

HandleStates == {"none", "active", "closing", "closed"}

TypeOK ==
  /\ att \in Conn \cup {NULL}
  /\ connecting \in [Conn -> {"none", "waiting", "ok", "error", "thrown"}]
  /\ called \in [Conn -> Seq(Conn)]
  /\ poll_handle \in [Conn -> HandleStates]
  /\ tcp \in [Conn -> HandleStates]
  /\ tcpData \in [Conn -> {"none", "connection", "closeData"}]
  /\ open \subseteq Conn
  /\ queue \in [Conn -> Seq(Message)]
  /\ write \in [Message -> {"unused", "queued", "done", "failed", "unanswered"}]
  /\ currentRequest \in [Conn -> Message \cup {NULL}]
  /\ request \in [Message -> {"unused", "pending", "busy", "answered", "link"}]
  /\ broken \subseteq Conn
  /\ closeCallback \in BOOLEAN
  /\ closed \in [Conn -> {"no", "event", "silent"}]
  /\ crash \in {"none", "nullAtt", "nullStream", "nullRequest", "closedTwice", "staleData"}

Init ==
  /\ att = NULL
  /\ connecting = [c \in Conn |-> "none"]
  /\ called = [c \in Conn |-> <<>>]
  /\ poll_handle = [c \in Conn |-> "none"]
  /\ tcp = [c \in Conn |-> "none"]
  /\ tcpData = [c \in Conn |-> "none"]
  /\ open = {}
  /\ queue = [c \in Conn |-> <<>>]
  /\ write = [w \in Message |-> "unused"]
  /\ currentRequest = [c \in Conn |-> NULL]
  /\ request = [r \in Message |-> "unused"]
  /\ broken = {}
  /\ closeCallback = FALSE
  /\ closed = [c \in Conn |-> "no"]
  /\ crash = "none"

Running == crash = "none"

Crash(cause) ==
  /\ crash' = cause
  /\ UNCHANGED <<att, connecting, called, handleVars, queue, write, requestVars, broken,
                 closeVars>>

----------------------------------------------------------------------------
(* The program                                                             *)

\* Peripheral::Connect and Connection::connect: a new Connection whose socket
\* is polled until it can be written ...
Connect(c) ==
  /\ Running
  /\ connecting[c] = "none"
  /\ att' = c
  /\ connecting' = [connecting EXCEPT ![c] = "waiting"]
  /\ poll_handle' = [poll_handle EXCEPT ![c] = "active"]
  /\ open' = open \cup {c}
  /\ UNCHANGED <<called, tcp, tcpData, queue, write, requestVars, broken, closeVars, crash>>

\* ... or, when bt_io_connect returns -1, is thrown for: the program gets an
\* 'error' event and its connect callback is not called.
ConnectThrows(c) ==
  /\ Running
  /\ connecting[c] = "none"
  /\ att' = c
  /\ connecting' = [connecting EXCEPT ![c] = "thrown"]
  /\ UNCHANGED <<called, handleVars, queue, write, requestVars, broken, closeVars, crash>>

Fresh(w) == write[w] = "unused" /\ request[w] = "unused"

\* Connection::write.  uv_write refuses a stream being closed, which nobody
\* notices: the message is never called back.
Written(w) ==
  /\ att # NULL /\ tcp[att] # "none"
  /\ \/ /\ tcp[att] = "active"
        /\ queue' = [queue EXCEPT ![att] = Append(@, w)]
        /\ write' = [write EXCEPT ![w] = "queued"]
     \/ /\ tcp[att] # "active"
        /\ write' = [write EXCEPT ![w] = "unanswered"]
        /\ UNCHANGED queue

\* Peripheral::WriteCommand, Att::writeCommand.
Write(w) ==
  /\ Running
  /\ Fresh(w)
  /\ Written(w)
  /\ UNCHANGED <<att, connecting, called, handleVars, requestVars, broken, closeVars, crash>>

\* A request function of Peripheral and of Att: it takes the slot and writes ...
Issue(r) ==
  /\ Running
  /\ Fresh(r)
  /\ Written(r)
  /\ currentRequest[att] = NULL
  /\ currentRequest' = [currentRequest EXCEPT ![att] = r]
  /\ request' = [request EXCEPT ![r] = "pending"]
  /\ UNCHANGED <<att, connecting, called, handleVars, broken, closeVars, crash>>

\* ... or calls back at once that another is pending on this connection.
Busy(r) ==
  /\ Running
  /\ Fresh(r)
  /\ att # NULL /\ currentRequest[att] # NULL
  /\ request' = [request EXCEPT ![r] = "busy"]
  /\ UNCHANGED <<att, connecting, called, handleVars, queue, write, currentRequest, broken,
                 closeVars, crash>>

\* Either before Connect, or before the connection is up.
WriteTooEarly(w) ==
  /\ Running
  /\ Fresh(w)
  /\ \/ att = NULL /\ Crash("nullAtt")
     \/ att # NULL /\ tcp[att] = "none" /\ Crash("nullStream")

\* Seeded faults: tcp->data is left alone; the handle is deleted at once; the
\* stream is stopped and not closed.
CloseTcpKeepingData(c) ==
  /\ tcp' = [tcp EXCEPT ![c] = "closing"]
  /\ open' = open \ {c}
  /\ UNCHANGED tcpData
CloseTcpDeleting(c) ==
  /\ tcp' = [tcp EXCEPT ![c] = "deleted"]
  /\ tcpData' = [tcpData EXCEPT ![c] = "closeData"]
  /\ open' = open \ {c}
CloseTcpStopping(c) ==
  /\ tcpData' = [tcpData EXCEPT ![c] = "closeData"]
  /\ tcp' = [tcp EXCEPT ![c] = "closing"]
  /\ UNCHANGED open

\* Connection::close: tcp->data is the close callback's from now on, and uv_close
\* closes the socket.
CloseTcp(c) ==
  /\ tcpData' = [tcpData EXCEPT ![c] = "closeData"]
  /\ tcp' = [tcp EXCEPT ![c] = "closing"]
  /\ open' = open \ {c}

\* Peripheral::Close, with or without a callback argument.  Nothing happens
\* when the connection is not up yet.  A request that is pending is left so.
Close(callback) ==
  /\ Running
  /\ closeCallback' = (closeCallback \/ callback)
  /\ IF att # NULL /\ tcp[att] = "active" THEN CloseTcp(att)
                                         ELSE UNCHANGED <<tcp, tcpData, open>>
  /\ att # NULL => tcp[att] \in {"none", "active"}
  /\ UNCHANGED <<att, connecting, called, poll_handle, queue, write, requestVars, broken,
                 closed, crash>>

\* uv_close on a handle that is being closed, or was, is an assertion of libuv.
CloseAgain ==
  /\ Running
  /\ att # NULL
  /\ tcp[att] \in {"closing", "closed"}
  /\ Crash("closedTwice")

----------------------------------------------------------------------------
(* libuv and the callbacks                                                 *)

\* Seeded faults: the callback is made on success alone; a connect that was
\* replaced is not called back for; polling goes on.
CalledOnSuccess(c, status) ==
  IF status = "ok" THEN [called EXCEPT ![att] = Append(@, c)] ELSE called
CalledOfLatest(c, status) ==
  IF c = att THEN [called EXCEPT ![att] = Append(@, c)] ELSE called
PollNotStopped(c) == poll_handle

\* Peripheral::handleConnect calls back whatever the status was.  What it calls
\* is Peripheral::connectionCallback, the callback of the latest connect, be c
\* the connection of that connect or one that it has replaced.
Called(c, status) == [called EXCEPT ![att] = Append(@, c)]

\* onConnect first stops and closes the poll handle ...
PollStopped(c) == [poll_handle EXCEPT ![c] = "closing"]

\* ... and, on success, makes the stream and starts to read it.
OnConnect(c, status) ==
  /\ Running
  /\ poll_handle[c] = "active"
  /\ poll_handle' = PollStopped(c)
  /\ connecting' = [connecting EXCEPT ![c] = status]
  /\ called' = Called(c, status)
  /\ IF status = "ok" THEN /\ tcp' = [tcp EXCEPT ![c] = "active"]
                           /\ tcpData' = [tcpData EXCEPT ![c] = "connection"]
                      ELSE UNCHANGED <<tcp, tcpData>>
  /\ UNCHANGED <<att, open, queue, write, requestVars, broken, closeVars, crash>>

\* onClose of the poll handle, whose data is NULL.
OnPollClosed(c) ==
  /\ Running
  /\ poll_handle[c] = "closing"
  /\ poll_handle' = [poll_handle EXCEPT ![c] = "closed"]
  /\ UNCHANGED <<att, connecting, called, tcp, tcpData, open, queue, write, requestVars,
                 broken, closeVars, crash>>

\* Seeded fault: the callback is made on success alone.
WriteAnsweredOnSuccess(w, status) ==
  IF status = "done" THEN [write EXCEPT ![w] = status] ELSE write

\* onWrite hands the status of the write to its callback.  A request has none:
\* that its message has failed, nobody learns.
WriteAnswered(w, status) == [write EXCEPT ![w] = status]

OnWrite(c, status) ==
  /\ Running
  /\ tcp[c] = "active"
  /\ queue[c] # <<>>
  /\ queue' = [queue EXCEPT ![c] = Tail(@)]
  /\ write' = WriteAnswered(Head(queue[c]), status)
  /\ UNCHANGED <<att, connecting, called, handleVars, requestVars, broken, closeVars, crash>>

\* Seeded fault: the PDU is looked up in the Att in use.
AwaitedByLatest(c) == c = att /\ currentRequest[c] # NULL

Awaited(c) == currentRequest[c] # NULL

\* Seeded fault: the slot of the Att in use is freed.
FinishOfLatest(c, result) ==
  /\ currentRequest' = [currentRequest EXCEPT ![att] = NULL]
  /\ request' = [request EXCEPT ![currentRequest[c]] = result]

\* Seeded fault: removeCurrentRequest is left out.
FinishKeepingSlot(c, result) ==
  /\ request' = [request EXCEPT ![currentRequest[c]] = result]
  /\ UNCHANGED currentRequest

\* The request the Att over c waits for is called back, and its slot free.
Finish(c, result) ==
  /\ currentRequest' = [currentRequest EXCEPT ![c] = NULL]
  /\ request' = [request EXCEPT ![currentRequest[c]] = result]

\* Att::handleRead: a notification goes to its listener; any other PDU, and an
\* error, to the request that is waited for; without one a PDU is reported to
\* errorHandler, and an error ends the process.
HandleRead(c, what) ==
  \/ /\ what # "notification" /\ Awaited(c)
     /\ Finish(c, IF what = "error" THEN "link" ELSE "answered")
     /\ UNCHANGED crash
  \/ /\ what = "notification" \/ (what = "answer" /\ ~Awaited(c))
     /\ UNCHANGED <<requestVars, crash>>
  \/ /\ what = "error" /\ ~Awaited(c)
     /\ crash' = "nullRequest"
     /\ UNCHANGED requestVars

\* onRead takes tcp->data for the Connection, on data and on errors alike.
\* After an error the stream stays open and delivers nothing more.
OnRead(c, what) ==
  /\ Running
  /\ tcp[c] = "active"
  /\ c \notin broken
  /\ broken' = IF what = "error" THEN broken \cup {c} ELSE broken
  /\ IF tcpData[c] = "connection" THEN HandleRead(c, what)
                                  ELSE crash' = "staleData" /\ UNCHANGED requestVars
  /\ UNCHANGED <<att, connecting, called, handleVars, queue, write, closeVars>>

\* Seeded fault: the close callback is called where it was an argument alone.
ReportedToCallback(c) == [closed EXCEPT ![c] = IF closeCallback THEN "silent" ELSE "no"]

\* Peripheral::onClose emits 'close' unless it has a callback.  Peripheral::Close
\* keeps the second argument where it was given one: that is no function.
Reported(c) == [closed EXCEPT ![c] = IF closeCallback THEN "silent" ELSE "event"]

\* The stream is closed: the writes still queued are cancelled, then onClose
\* takes tcp->data for the close callback's.
OnTcpClosed(c) ==
  /\ Running
  /\ tcp[c] = "closing"
  /\ IF tcpData[c] = "closeData"
       THEN closed' = Reported(c) /\ UNCHANGED crash
       ELSE crash' = "staleData" /\ UNCHANGED closed
  /\ tcp' = [tcp EXCEPT ![c] = "closed"]
  /\ queue' = [queue EXCEPT ![c] = <<>>]
  /\ write' = [w \in Message |-> IF w \in Range(queue[c]) THEN "failed" ELSE write[w]]
  /\ UNCHANGED <<att, connecting, called, poll_handle, tcpData, open, requestVars, broken,
                 closeCallback>>

----------------------------------------------------------------------------

Program ==
  \/ \E c \in Conn : Connect(c) \/ ConnectThrows(c)
  \/ \E w \in Message : Write(w) \/ Issue(w) \/ Busy(w) \/ WriteTooEarly(w)
  \/ \E callback \in BOOLEAN : Close(callback)
  \/ CloseAgain

Loop(c) ==
  \/ \E status \in {"ok", "error"} : OnConnect(c, status)
  \/ OnPollClosed(c)
  \/ \E status \in {"done", "failed"} : OnWrite(c, status)
  \/ OnTcpClosed(c)
  \/ \E what \in {"answer", "notification", "error"} : OnRead(c, what)

Next == Program \/ \E c \in Conn : Loop(c)

\* The device has the request of c: its message is written.
Delivered(c) == currentRequest[c] # NULL /\ write[currentRequest[c]] = "done"

\* libuv completes what it was given: a poll, a write, a close; and the device
\* answers the request it has got.
Fairness ==
  \A c \in Conn :
    /\ WF_vars(\E status \in {"ok", "error"} : OnConnect(c, status))
    /\ WF_vars(OnPollClosed(c))
    /\ WF_vars(\E status \in {"done", "failed"} : OnWrite(c, status))
    /\ WF_vars(OnTcpClosed(c))
    /\ WF_vars(Delivered(c) /\ OnRead(c, "answer"))

Spec == Init /\ [][Next]_vars /\ Fairness

----------------------------------------------------------------------------
(* Properties                                                              *)

\* tcp->data has two owners in turn, the reads and the close: neither is ever
\* handed the other's, however a close and the callbacks interleave.
NoStaleData == crash # "staleData"

\* A socket is watched by one handle at a time: polling has ended before the
\* stream is made (libuv allows one watcher for a descriptor).
OneWatcher == \A c \in Conn : poll_handle[c] = "active" => tcp[c] = "none"

\* A write accepted by libuv is called back, be it done, failed or cancelled
\* by a close, on the connection in use and on one that was replaced.
WritesAnswered ==
  \A w \in Message : write[w] = "queued" ~> write[w] \in {"done", "failed"} \/ ~Running

\* Across all connections, those that were replaced included, a request waits in
\* the slot of one Att, whose connection has come up, and in no other.
RequestHasOneSlot ==
  /\ \A r \in Message : request[r] = "pending" <=> \E c \in Conn : currentRequest[c] = r
  /\ \A c, d \in Conn : currentRequest[c] = currentRequest[d] => c = d \/ currentRequest[c] = NULL
  /\ \A c \in Conn : currentRequest[c] # NULL => tcp[c] # "none"

\* A write that libuv has accepted and not called back yet stands in the queue of
\* one stream, once, and that stream is not closed yet, so that a callback is
\* still to come, be it a cancellation; no other write stands in a queue.
WriteHasOneQueue ==
  /\ \A w \in Message :
       write[w] = "queued" <=> \E c \in Conn : \E i \in 1 .. Len(queue[c]) : queue[c][i] = w
  /\ \A c, d \in Conn : \A i \in 1 .. Len(queue[c]), j \in 1 .. Len(queue[d]) :
       queue[c][i] = queue[d][j] => c = d /\ i = j
  /\ \A c \in Conn : queue[c] # <<>> => tcp[c] \in {"active", "closing"}

\* A step leaves alone what was called back, or never will be.
AnswersStay ==
  /\ \A w \in Message :
       /\ write[w] \in {"done", "failed", "unanswered"} => write'[w] = write[w]
       /\ request[w] \in {"busy", "answered", "link"} => request'[w] = request[w]
  /\ \A c \in Conn : closed[c] # "no" => closed'[c] = closed[c]

\* However writes, answers, closes and reconnects interleave, no write, request
\* or close is called back a second time.
CalledBackOnce == [][AnswersStay]_vars

\* Nothing more will be read from c.
Cut(c) == tcp[c] # "active" \/ c \in broken

\* A request is answered, on the connection in use and on one that was replaced,
\* unless its message is lost or its connection closed or broken.
RequestsAnswered ==
  \A r \in Message : request[r] = "pending" ~>
    \/ request[r] # "pending" \/ write[r] \in {"failed", "unanswered"}
    \/ \E c \in Conn : currentRequest[c] = r /\ Cut(c)
    \/ ~Running

\* What is watched is open, and a socket is left open and unwatched only by a
\* connect that failed.
DescriptorsAccountedFor ==
  \A c \in Conn :
    LET watched == poll_handle[c] = "active" \/ tcp[c] = "active"
    IN  /\ watched => c \in open
        /\ c \in open => watched \/ connecting[c] = "error"

\* The outcome of every connect that did not throw is handed to some callback,
\* even when the program closed or connected again in the meantime.  (Which one
\* that is, and that it is handed once, is part of SessionsShareCallbacks.)
ConnectsAnswered ==
  \A c \in Conn :
    connecting[c] = "waiting" ~> (\E d \in Conn : c \in Range(called[d])) \/ ~Running

\* Closing a connection that is up ends in a 'close' event, unless a callback
\* argument was ever given.
CloseReported ==
  \A c \in Conn : tcp[c] = "closing" ~> closed[c] = "event" \/ closeCallback \/ ~Running

\* How far c has come, as the program can tell.
Session(c) ==
  CASE tcp[c] = "active"  -> "up"
    [] tcp[c] = "closing" -> "ending"
    [] tcp[c] = "closed"  -> "over"
    [] OTHER -> CASE connecting[c] = "none"    -> "none"
                  [] connecting[c] = "waiting" -> "connecting"
                  [] OTHER                     -> "failed"

Peer == INSTANCE Sessions
        WITH Id <- Conn, session <- [c \in Conn |-> Session(c)], latest <- att,
             told <- called, unsent <- queue, sent <- write, waiting <- currentRequest,
             answer <- request, silenced <- closeCallback, ended <- closed,
             dead <- crash # "none"

\* The connections implement Sessions.  What they share is what Sessions says
\* and no more: the outcome of each goes, once, to the callback of the latest
\* connect, one close with an argument silences all that end from then on, and
\* only the latest is written to and closed.  What became of the writes, the
\* requests and the handles of one is not changed by a step of another.
SessionsShareCallbacks == Peer!AbsSpec

\* The program may close from its 'error' and its SIGINT handler, as the
\* README's example does.
MayCloseTwice == crash # "closedTwice"

=============================================================================
