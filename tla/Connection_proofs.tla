------------------------- MODULE Connection_proofs -------------------------
(***************************************************************************)
(* Proofs about Connection, for any number of connections and messages.    *)
(*                                                                         *)
(* NoStaleData is about the moment a callback runs; what makes it hold is  *)
(* that tcp->data follows the state of the handle (DataFollowsTcp).  The   *)
(* other invariants are inductive once it is known in which order the      *)
(* handles of a connection come up (HandlesInTurn).                        *)
(***************************************************************************)
EXTENDS Connection, SequenceTheorems, TLAPS

\* Who owns tcp->data can be told from the state of the handle.
DataFollowsTcp ==
  \A c \in Conn : /\ tcp[c] = "active"  => tcpData[c] = "connection"
                  /\ tcp[c] = "closing" => tcpData[c] = "closeData"

\* Before connect there are no handles; until the poll handle calls back the
\* connection is being made and there is no stream.
HandlesInTurn ==
  \A c \in Conn : /\ connecting[c] = "none" => poll_handle[c] = "none" /\ tcp[c] = "none"
                  /\ poll_handle[c] = "active" => connecting[c] = "waiting" /\ tcp[c] = "none"

\* The connection in use is one that was connected.
UsedWasConnected == att # NULL => connecting[att] # "none"

\* A stream of which a close was reported is closed.
ReportedWhenClosed == \A c \in Conn : closed[c] # "no" => tcp[c] = "closed"

ConnInv ==
  /\ TypeOK
  /\ DataFollowsTcp
  /\ HandlesInTurn
  /\ NoStaleData
  /\ DescriptorsAccountedFor
  /\ RequestHasOneSlot
  /\ WriteHasOneQueue
  /\ ReportedWhenClosed
  /\ UsedWasConnected

----------------------------------------------------------------------------

\* All handles are absent at first.
LEMMA InitConnInv == Init => ConnInv
<1> SUFFICES ASSUME Init  PROVE ConnInv
  OBVIOUS
<1> USE ConnectionAssumption
<1>1. <<>> \in Seq(Message) /\ <<>> \in Seq(Conn)
  OBVIOUS
<1>2. TypeOK
  BY <1>1 DEF Init, TypeOK, HandleStates
<1>3. DataFollowsTcp /\ HandlesInTurn /\ NoStaleData /\ DescriptorsAccountedFor
  BY DEF Init, DataFollowsTcp, HandlesInTurn, NoStaleData, DescriptorsAccountedFor
<1>4. RequestHasOneSlot /\ ReportedWhenClosed /\ UsedWasConnected
  BY DEF Init, RequestHasOneSlot, ReportedWhenClosed, UsedWasConnected
<1>5. WriteHasOneQueue
  BY DEF Init, WriteHasOneQueue
<1> QED
  BY <1>2, <1>3, <1>4, <1>5 DEF ConnInv

\* A queue is cut from the front and extended at the back.
LEMMA QueueIsList ==
  ASSUME NEW list \in Seq(Message), NEW w \in Message
  PROVE  /\ Append(list, w) \in Seq(Message)
         /\ list # <<>> => Tail(list) \in Seq(Message) /\ Head(list) \in Message
  OBVIOUS

\* A message goes to the queue of the connection in use.
LEMMA WrittenTypes ==
  ASSUME TypeOK, NEW w \in Message, Written(w)
  PROVE  /\ queue' \in [Conn -> Seq(Message)]
         /\ write' \in [Message -> {"unused", "queued", "done", "failed", "unanswered"}]
<1>1. att \in Conn /\ queue[att] \in Seq(Message)
  BY DEF Written, TypeOK
<1>2. Append(queue[att], w) \in Seq(Message)
  BY <1>1, QueueIsList
<1>3. queue \in [Conn -> Seq(Message)]
  BY DEF TypeOK
<1>4. queue' = [queue EXCEPT ![att] = Append(@, w)] \/ queue' = queue
  BY DEF Written
<1>5. queue' \in [Conn -> Seq(Message)]
  BY <1>1, <1>2, <1>3, <1>4
<1>6. write' \in [Message -> {"unused", "queued", "done", "failed", "unanswered"}]
  BY DEF Written, TypeOK
<1> QED
  BY <1>5, <1>6

\* Every operation and every callback keeps the types.
LEMMA StepTypeOK == TypeOK /\ DataFollowsTcp /\ [Next]_vars => TypeOK'
<1> SUFFICES ASSUME TypeOK, DataFollowsTcp, [Next]_vars  PROVE TypeOK'
  OBVIOUS
<1> USE ConnectionAssumption DEF TypeOK, HandleStates, Running
<1>1. ASSUME NEW c \in Conn, Connect(c)  PROVE TypeOK'
  BY <1>1 DEF Connect, requestVars, closeVars
<1>2. ASSUME NEW c \in Conn, ConnectThrows(c)  PROVE TypeOK'
  BY <1>2 DEF ConnectThrows, handleVars, requestVars, closeVars
<1>3. ASSUME NEW w \in Message, Write(w)  PROVE TypeOK'
  BY <1>3, WrittenTypes DEF Write, handleVars, requestVars, closeVars
<1>4. ASSUME NEW w \in Message, Issue(w)  PROVE TypeOK'
  <2>1. att \in Conn
    BY <1>4 DEF Issue, Written
  <2>2. /\ currentRequest' \in [Conn -> Message \cup {NULL}]
        /\ request' \in [Message -> {"unused", "pending", "busy", "answered", "link"}]
    BY <1>4, <2>1 DEF Issue
  <2> QED
    BY <1>4, <2>2, WrittenTypes DEF Issue, handleVars, closeVars
<1>5. ASSUME NEW w \in Message, Busy(w)  PROVE TypeOK'
  BY <1>5 DEF Busy, handleVars, closeVars
<1>6. ASSUME NEW w \in Message, WriteTooEarly(w)  PROVE TypeOK'
  BY <1>6 DEF WriteTooEarly, Crash, handleVars, requestVars, closeVars
<1>7. ASSUME NEW callback \in BOOLEAN, Close(callback)  PROVE TypeOK'
  <2>1. closeCallback' \in BOOLEAN
    BY <1>7 DEF Close
  <2>2. /\ tcp' \in [Conn -> HandleStates]
        /\ tcpData' \in [Conn -> {"none", "connection", "closeData"}]
        /\ open' \subseteq Conn
    <3>1. CASE UNCHANGED <<tcp, tcpData, open>>
      BY <3>1
    <3>2. CASE att # NULL /\ CloseTcp(att)
      BY <3>2 DEF CloseTcp
    <3> QED
      BY <1>7, <3>1, <3>2 DEF Close
  <2>3. UNCHANGED <<att, connecting, called, poll_handle, queue, write, currentRequest,
                    request, broken, closed, crash>>
    BY <1>7 DEF Close, requestVars
  <2> QED
    BY <2>1, <2>2, <2>3
<1>8. CASE CloseAgain
  BY <1>8 DEF CloseAgain, Crash, handleVars, requestVars, closeVars
<1>9. ASSUME NEW c \in Conn, NEW status \in {"ok", "error"}, OnConnect(c, status)  PROVE TypeOK'
  <2>1. called' \in [Conn -> Seq(Conn)]
    <3>1. called \in [Conn -> Seq(Conn)] /\ called' = [called EXCEPT ![att] = Append(@, c)]
      BY <1>9 DEF OnConnect, Called
    <3>2. \A d \in Conn : Append(called[d], c) \in Seq(Conn)
      BY <3>1, AppendProperties
    <3> QED
      BY <3>1, <3>2
  <2>2. /\ poll_handle' \in [Conn -> HandleStates]
        /\ connecting' \in [Conn -> {"none", "waiting", "ok", "error", "thrown"}]
    BY <1>9 DEF OnConnect, PollStopped
  <2>3. tcp' \in [Conn -> HandleStates] /\ tcpData' \in [Conn -> {"none", "connection", "closeData"}]
    <3>1. CASE status = "ok"
      <4>1. /\ tcp' = [tcp EXCEPT ![c] = "active"]
            /\ tcpData' = [tcpData EXCEPT ![c] = "connection"]
        BY <1>9, <3>1 DEF OnConnect
      <4> QED
        BY <4>1
    <3>2. CASE status # "ok"
      <4>1. UNCHANGED <<tcp, tcpData>>
        BY <1>9, <3>2 DEF OnConnect
      <4> QED
        BY <4>1
    <3> QED
      BY <3>1, <3>2
  <2>4. UNCHANGED <<att, open, queue, write, currentRequest, request, broken, closeCallback,
                    closed, crash>>
    BY <1>9 DEF OnConnect, requestVars, closeVars
  <2> QED
    BY <2>1, <2>2, <2>3, <2>4
<1>10. ASSUME NEW c \in Conn, OnPollClosed(c)  PROVE TypeOK'
  BY <1>10 DEF OnPollClosed, requestVars, closeVars
<1>11. ASSUME NEW c \in Conn, NEW status \in {"done", "failed"}, OnWrite(c, status)  PROVE TypeOK'
  <2>1. queue[c] \in Seq(Message) /\ queue[c] # <<>>
    BY <1>11 DEF OnWrite
  <2>2. Tail(queue[c]) \in Seq(Message) /\ Head(queue[c]) \in Message
    BY <2>1, QueueIsList
  <2>3. queue' \in [Conn -> Seq(Message)]
    BY <1>11, <2>2 DEF OnWrite
  <2>4. write' \in [Message -> {"unused", "queued", "done", "failed", "unanswered"}]
    BY <1>11, <2>2 DEF OnWrite, WriteAnswered
  <2> QED
    BY <1>11, <2>3, <2>4 DEF OnWrite, handleVars, requestVars, closeVars
<1>12. ASSUME NEW c \in Conn, OnTcpClosed(c)  PROVE TypeOK'
  <2>1. tcpData[c] = "closeData"
    BY <1>12 DEF OnTcpClosed, DataFollowsTcp
  <2>2. closed' = Reported(c) /\ UNCHANGED crash
    BY <1>12, <2>1 DEF OnTcpClosed
  <2>3. closed' \in [Conn -> {"no", "event", "silent"}]
    BY <2>2 DEF Reported
  <2>4. write' \in [Message -> {"unused", "queued", "done", "failed", "unanswered"}]
    BY <1>12 DEF OnTcpClosed
  <2>5. queue' \in [Conn -> Seq(Message)] /\ tcp' \in [Conn -> HandleStates]
    BY <1>12 DEF OnTcpClosed
  <2> QED
    BY <1>12, <2>2, <2>3, <2>4, <2>5 DEF OnTcpClosed, requestVars
<1>13. ASSUME NEW c \in Conn, NEW what \in {"answer", "notification", "error"}, OnRead(c, what)
       PROVE  TypeOK'
  <2>1. broken' \subseteq Conn
    BY <1>13 DEF OnRead
  <2>2. CASE tcpData[c] = "connection"
    <3>1. HandleRead(c, what)
      BY <1>13, <2>2 DEF OnRead
    <3>2. crash' \in {"none", "nullAtt", "nullStream", "nullRequest", "closedTwice", "staleData"}
      BY <3>1 DEF HandleRead
    <3>3. /\ currentRequest' \in [Conn -> Message \cup {NULL}]
          /\ request' \in [Message -> {"unused", "pending", "busy", "answered", "link"}]
      <4>1. CASE UNCHANGED <<currentRequest, request>>
        BY <4>1
      <4>2. ASSUME NEW result \in {"answered", "link"}, Awaited(c), Finish(c, result)
            PROVE  /\ currentRequest' \in [Conn -> Message \cup {NULL}]
                   /\ request' \in [Message -> {"unused", "pending", "busy", "answered", "link"}]
        BY <4>2 DEF Finish, Awaited
      <4> QED
        BY <3>1, <4>1, <4>2 DEF HandleRead, requestVars
    <3>4. UNCHANGED <<att, connecting, called, poll_handle, tcp, tcpData, open, queue, write,
                      closeCallback, closed>>
      BY <1>13 DEF OnRead, handleVars, closeVars
    <3> QED
      BY <2>1, <3>2, <3>3, <3>4
  <2>3. CASE tcpData[c] # "connection"
    BY <1>13, <2>1, <2>3 DEF OnRead, handleVars, requestVars, closeVars
  <2> QED
    BY <2>2, <2>3
<1>14. CASE UNCHANGED vars
  BY <1>14 DEF vars
<1> HIDE DEF TypeOK
<1>15. CASE Program
  BY <1>1, <1>2, <1>3, <1>4, <1>5, <1>6, <1>7, <1>8, <1>15 DEF Program
<1>16. ASSUME NEW c \in Conn, Loop(c)  PROVE TypeOK'
  BY <1>9, <1>10, <1>11, <1>12, <1>13, <1>16 DEF Loop
<1> QED
  BY <1>14, <1>15, <1>16 DEF Next

\* What happens to a handle happens to its data.
LEMMA StepData == ConnInv /\ [Next]_vars => DataFollowsTcp' /\ HandlesInTurn' /\ NoStaleData'
<1> SUFFICES ASSUME ConnInv, [Next]_vars
             PROVE  DataFollowsTcp' /\ HandlesInTurn' /\ NoStaleData'
  OBVIOUS
<1> USE ConnectionAssumption
        DEF ConnInv, TypeOK, HandleStates, DataFollowsTcp, HandlesInTurn, NoStaleData, Running
<1> DEFINE Goal == DataFollowsTcp' /\ HandlesInTurn' /\ NoStaleData'
<1>1. ASSUME NEW c \in Conn, Connect(c) \/ ConnectThrows(c)  PROVE Goal
  <2>1. tcp' = tcp /\ tcpData' = tcpData /\ crash' = crash /\ tcp[c] = "none"
    BY <1>1 DEF Connect, ConnectThrows, handleVars
  <2>2. DataFollowsTcp' /\ NoStaleData'
    BY <2>1
  <2>3. CASE Connect(c)
    <3>1. /\ connecting' = [connecting EXCEPT ![c] = "waiting"]
          /\ poll_handle' = [poll_handle EXCEPT ![c] = "active"]
      BY <2>3 DEF Connect
    <3> QED
      BY <2>1, <2>2, <3>1
  <2>4. CASE ConnectThrows(c)
    <3>1. /\ connecting' = [connecting EXCEPT ![c] = "thrown"]
          /\ poll_handle' = poll_handle /\ poll_handle[c] = "none"
      BY <2>4 DEF ConnectThrows, handleVars
    <3> QED
      BY <2>1, <2>2, <3>1
  <2> QED
    BY <1>1, <2>3, <2>4
<1>2. ASSUME NEW w \in Message, Write(w) \/ Issue(w) \/ Busy(w) \/ WriteTooEarly(w)  PROVE Goal
  BY <1>2 DEF Write, Issue, Busy, WriteTooEarly, Crash, handleVars
<1>3. ASSUME NEW callback \in BOOLEAN, Close(callback)  PROVE Goal
  <2>1. poll_handle' = poll_handle /\ connecting' = connecting /\ crash' = crash
    BY <1>3 DEF Close
  <2>2. CASE att # NULL /\ tcp[att] = "active"
    <3>1. att \in Conn /\ CloseTcp(att)
      BY <1>3, <2>2 DEF Close
    <3>2. poll_handle[att] # "active" /\ connecting[att] # "none"
      BY <2>2, <3>1
    <3> QED
      BY <2>1, <3>1, <3>2 DEF CloseTcp
  <2>3. CASE ~(att # NULL /\ tcp[att] = "active")
    <3>1. tcp' = tcp /\ tcpData' = tcpData
      BY <1>3, <2>3 DEF Close
    <3> QED
      BY <2>1, <3>1
  <2> QED
    BY <2>2, <2>3
<1>4. CASE CloseAgain
  BY <1>4 DEF CloseAgain, Crash, handleVars
<1>5. ASSUME NEW c \in Conn, NEW status \in {"ok", "error"}, OnConnect(c, status)  PROVE Goal
  <2>1. poll_handle' = [poll_handle EXCEPT ![c] = "closing"] /\ crash' = crash
    BY <1>5 DEF OnConnect, PollStopped
  <2>2. tcp[c] = "none" /\ connecting' = [connecting EXCEPT ![c] = status]
    BY <1>5 DEF OnConnect
  <2>3. \/ tcp' = tcp /\ tcpData' = tcpData
        \/ /\ tcp' = [tcp EXCEPT ![c] = "active"]
           /\ tcpData' = [tcpData EXCEPT ![c] = "connection"]
    BY <1>5 DEF OnConnect
  <2>4. DataFollowsTcp' /\ NoStaleData'
    BY <2>1, <2>3
  <2>5. \A d \in Conn : d # c => /\ poll_handle'[d] = poll_handle[d]
                                /\ connecting'[d] = connecting[d] /\ tcp'[d] = tcp[d]
    BY <2>1, <2>2, <2>3
  <2>6. poll_handle'[c] = "closing" /\ connecting'[c] = status
    BY <2>1, <2>2
  <2>7. HandlesInTurn'
    <3>1. ASSUME NEW d \in Conn
          PROVE  /\ connecting'[d] = "none" => poll_handle'[d] = "none" /\ tcp'[d] = "none"
                 /\ poll_handle'[d] = "active" => connecting'[d] = "waiting" /\ tcp'[d] = "none"
      <4>1. CASE d = c
        BY <2>6, <4>1
      <4>2. CASE d # c
        BY <2>5, <4>2
      <4> QED
        BY <4>1, <4>2
    <3> QED
      BY <3>1
  <2> QED
    BY <2>4, <2>7
<1>6. ASSUME NEW c \in Conn, OnPollClosed(c)  PROVE Goal
  BY <1>6 DEF OnPollClosed
<1>7. ASSUME NEW c \in Conn, NEW status \in {"done", "failed"}, OnWrite(c, status)  PROVE Goal
  BY <1>7 DEF OnWrite, handleVars
<1>8. ASSUME NEW c \in Conn, OnTcpClosed(c)  PROVE Goal
  BY <1>8 DEF OnTcpClosed
<1>9. ASSUME NEW c \in Conn, NEW what \in {"answer", "notification", "error"}, OnRead(c, what)
      PROVE  Goal
  <2>1. tcpData[c] = "connection" /\ crash' # "staleData"
    BY <1>9 DEF OnRead, HandleRead
  <2> QED
    BY <1>9, <2>1 DEF OnRead, handleVars
<1>10. CASE UNCHANGED vars
  BY <1>10 DEF vars
<1> QED
  BY <1>1, <1>2, <1>3, <1>4, <1>5, <1>6, <1>7, <1>8, <1>9, <1>10 DEF Next, Program, Loop

\* A descriptor is opened with its first watcher and closed with its last.
LEMMA StepDescriptors == ConnInv /\ [Next]_vars => DescriptorsAccountedFor'
<1> SUFFICES ASSUME ConnInv, [Next]_vars  PROVE DescriptorsAccountedFor'
  OBVIOUS
<1> USE ConnectionAssumption
        DEF ConnInv, TypeOK, HandleStates, HandlesInTurn, DescriptorsAccountedFor
<1>1. ASSUME NEW c \in Conn, Connect(c)  PROVE DescriptorsAccountedFor'
  BY <1>1 DEF Connect
<1>2. ASSUME NEW c \in Conn, ConnectThrows(c)  PROVE DescriptorsAccountedFor'
  BY <1>2 DEF ConnectThrows, handleVars
<1>3. ASSUME NEW w \in Message, Write(w) \/ Issue(w) \/ Busy(w) \/ WriteTooEarly(w)
      PROVE  DescriptorsAccountedFor'
  BY <1>3 DEF Write, Issue, Busy, WriteTooEarly, Crash, handleVars
<1>4. ASSUME NEW callback \in BOOLEAN, Close(callback)  PROVE DescriptorsAccountedFor'
  <2>1. poll_handle' = poll_handle /\ connecting' = connecting
    BY <1>4 DEF Close
  <2>2. CASE att # NULL /\ tcp[att] = "active"
    <3>1. att \in Conn /\ CloseTcp(att)
      BY <1>4, <2>2 DEF Close
    <3> QED
      BY <2>1, <2>2, <3>1 DEF CloseTcp
  <2>3. CASE ~(att # NULL /\ tcp[att] = "active")
    BY <1>4, <2>1, <2>3 DEF Close
  <2> QED
    BY <2>2, <2>3
<1>5. CASE CloseAgain
  BY <1>5 DEF CloseAgain, Crash, handleVars
<1>6. ASSUME NEW c \in Conn, NEW status \in {"ok", "error"}, OnConnect(c, status)
      PROVE  DescriptorsAccountedFor'
  BY <1>6 DEF OnConnect, PollStopped
<1>7. ASSUME NEW c \in Conn, OnPollClosed(c)  PROVE DescriptorsAccountedFor'
  BY <1>7 DEF OnPollClosed
<1>8. ASSUME NEW c \in Conn, NEW status \in {"done", "failed"}, OnWrite(c, status)
      PROVE  DescriptorsAccountedFor'
  BY <1>8 DEF OnWrite, handleVars
<1>9. ASSUME NEW c \in Conn, OnTcpClosed(c)  PROVE DescriptorsAccountedFor'
  BY <1>9 DEF OnTcpClosed
<1>10. ASSUME NEW c \in Conn, NEW what \in {"answer", "notification", "error"}, OnRead(c, what)
       PROVE  DescriptorsAccountedFor'
  BY <1>10 DEF OnRead, handleVars
<1>11. CASE UNCHANGED vars
  BY <1>11 DEF vars
<1> QED
  BY <1>1, <1>2, <1>3, <1>4, <1>5, <1>6, <1>7, <1>8, <1>9, <1>10, <1>11 DEF Next, Program, Loop

\* A stream, once made, is never unmade.
LEMMA StreamsStay ==
  ASSUME ConnInv, [Next]_vars, NEW c \in Conn, tcp[c] # "none"
  PROVE  tcp'[c] # "none"
<1> USE ConnectionAssumption DEF ConnInv, TypeOK, HandleStates
<1>1. ASSUME NEW d \in Conn, Connect(d) \/ ConnectThrows(d)  PROVE tcp' = tcp
  BY <1>1 DEF Connect, ConnectThrows, handleVars
<1>2. ASSUME NEW w \in Message, Write(w) \/ Issue(w) \/ Busy(w) \/ WriteTooEarly(w)
      PROVE  tcp' = tcp
  BY <1>2 DEF Write, Issue, Busy, WriteTooEarly, Crash, handleVars
<1>3. ASSUME NEW callback \in BOOLEAN, Close(callback)  PROVE tcp'[c] # "none"
  BY <1>3 DEF Close, CloseTcp
<1>4. CASE CloseAgain
  BY <1>4 DEF CloseAgain, Crash, handleVars
<1>5. ASSUME NEW d \in Conn, Loop(d)  PROVE tcp'[c] # "none"
  BY <1>5 DEF Loop, OnConnect, OnPollClosed, OnWrite, OnTcpClosed, OnRead, handleVars
<1>6. CASE UNCHANGED vars
  BY <1>6 DEF vars
<1> QED
  BY <1>1, <1>2, <1>3, <1>4, <1>5, <1>6 DEF Next, Program

\* Only a free slot is taken, and a request leaves the slot it is in.
LEMMA StepSlots == ConnInv /\ [Next]_vars => RequestHasOneSlot'
<1> SUFFICES ASSUME ConnInv, [Next]_vars  PROVE RequestHasOneSlot'
  OBVIOUS
<1> USE ConnectionAssumption
<1>1. TypeOK /\ RequestHasOneSlot /\ (\A c \in Conn : tcp[c] # "none" => tcp'[c] # "none")
  BY StreamsStay DEF ConnInv
<1>2. ASSUME UNCHANGED requestVars  PROVE RequestHasOneSlot'
  BY <1>1, <1>2 DEF RequestHasOneSlot, requestVars
<1>3. ASSUME NEW w \in Message, Issue(w)  PROVE RequestHasOneSlot'
  <2>1. /\ att \in Conn /\ tcp[att] # "none" /\ currentRequest[att] = NULL
        /\ request[w] = "unused"
        /\ currentRequest' = [currentRequest EXCEPT ![att] = w]
        /\ request' = [request EXCEPT ![w] = "pending"]
    BY <1>1, <1>3 DEF Issue, Fresh, Written, TypeOK
  <2>2. \A c \in Conn : currentRequest[c] # w
    BY <1>1, <2>1 DEF RequestHasOneSlot
  <2>3. \A c \in Conn : currentRequest'[c] = IF c = att THEN w ELSE currentRequest[c]
    BY <1>1, <2>1 DEF TypeOK
  <2>4. \A r \in Message : request'[r] = IF r = w THEN "pending" ELSE request[r]
    BY <1>1, <2>1 DEF TypeOK
  <2>5. \A r \in Message : request'[r] = "pending" <=> \E c \in Conn : currentRequest'[c] = r
    BY <1>1, <2>1, <2>2, <2>3, <2>4 DEF RequestHasOneSlot
  <2>6. \A c, d \in Conn :
          currentRequest'[c] = currentRequest'[d] => c = d \/ currentRequest'[c] = NULL
    BY <1>1, <2>2, <2>3 DEF RequestHasOneSlot
  <2>7. \A c \in Conn : currentRequest'[c] # NULL => tcp'[c] # "none"
    BY <1>1, <2>1, <2>3 DEF RequestHasOneSlot
  <2> QED
    BY <2>5, <2>6, <2>7 DEF RequestHasOneSlot
<1>4. ASSUME NEW w \in Message, Busy(w)  PROVE RequestHasOneSlot'
  <2>1. /\ currentRequest' = currentRequest
        /\ \A r \in Message : request'[r] = "pending" <=> request[r] = "pending"
    BY <1>1, <1>4 DEF Busy, Fresh, TypeOK
  <2> QED
    BY <1>1, <2>1 DEF RequestHasOneSlot
<1>5. ASSUME NEW c \in Conn, NEW result \in {"answered", "link"},
             currentRequest[c] # NULL, Finish(c, result)
      PROVE  RequestHasOneSlot'
  <2>1. currentRequest[c] \in Message
    BY <1>1, <1>5 DEF TypeOK
  <2>2. \A d \in Conn : currentRequest'[d] = IF d = c THEN NULL ELSE currentRequest[d]
    BY <1>1, <1>5 DEF Finish, TypeOK
  <2>3. \A r \in Message :
          request'[r] = "pending" <=> r # currentRequest[c] /\ request[r] = "pending"
    BY <1>1, <1>5, <2>1 DEF Finish, TypeOK
  <2>4. \A r \in Message : request'[r] = "pending" <=> \E d \in Conn : currentRequest'[d] = r
    BY <1>1, <1>5, <2>1, <2>2, <2>3 DEF RequestHasOneSlot
  <2> QED
    BY <1>1, <2>2, <2>4 DEF RequestHasOneSlot
<1>6. ASSUME NEW c \in Conn, NEW what \in {"answer", "notification", "error"}, OnRead(c, what)
      PROVE  RequestHasOneSlot'
  BY <1>2, <1>5, <1>6 DEF OnRead, HandleRead, Awaited
<1>7. ASSUME NEW c \in Conn, Connect(c) \/ ConnectThrows(c)  PROVE UNCHANGED requestVars
  BY <1>7 DEF Connect, ConnectThrows
<1>8. ASSUME NEW w \in Message, Write(w) \/ WriteTooEarly(w)  PROVE UNCHANGED requestVars
  BY <1>8 DEF Write, WriteTooEarly, Crash
<1>9. ASSUME NEW callback \in BOOLEAN, Close(callback)  PROVE UNCHANGED requestVars
  BY <1>9 DEF Close
<1>10. CASE CloseAgain
  BY <1>2, <1>10 DEF CloseAgain, Crash
<1>11. ASSUME NEW c \in Conn, NEW status \in {"ok", "error"}, OnConnect(c, status)
       PROVE  UNCHANGED requestVars
  BY <1>11 DEF OnConnect
<1>12. ASSUME NEW c \in Conn, NEW status \in {"done", "failed"}, OnWrite(c, status)
       PROVE  UNCHANGED requestVars
  BY <1>12 DEF OnWrite
<1>13. ASSUME NEW c \in Conn, OnPollClosed(c) \/ OnTcpClosed(c)  PROVE UNCHANGED requestVars
  BY <1>13 DEF OnPollClosed, OnTcpClosed
<1>14. CASE UNCHANGED vars
  BY <1>2, <1>14 DEF vars, requestVars
<1> QED
  BY <1>2, <1>3, <1>4, <1>6, <1>7, <1>8, <1>9, <1>10, <1>11, <1>12, <1>13, <1>14
  DEF Next, Program, Loop

\* What a step that leaves the streams alone, and one that does not, may do to
\* the queues.
LEMMA QueuesLeft ==
  ASSUME ConnInv, UNCHANGED <<queue, write>>,
         \A c \in Conn : tcp[c] \in {"active", "closing"} => tcp'[c] \in {"active", "closing"}
  PROVE  WriteHasOneQueue'
BY DEF ConnInv, WriteHasOneQueue

\* A message that was not queued is put at the end of the queue in use.
LEMMA StepWritten ==
  ASSUME ConnInv, NEW w \in Message, Fresh(w), Written(w), UNCHANGED tcp
  PROVE  WriteHasOneQueue'
<1>1. /\ att \in Conn /\ write[w] = "unused" /\ queue \in [Conn -> Seq(Message)]
      /\ write \in [Message -> {"unused", "queued", "done", "failed", "unanswered"}]
      /\ WriteHasOneQueue
  BY ConnectionAssumption DEF ConnInv, TypeOK, Fresh, Written
<1>2. \A c \in Conn : \A i \in 1 .. Len(queue[c]) : queue[c][i] # w
  BY <1>1 DEF WriteHasOneQueue
<1>3. CASE tcp[att] = "active"
  <2> DEFINE n == Len(queue[att])
  <2>1. /\ queue' = [queue EXCEPT ![att] = Append(@, w)]
        /\ write' = [write EXCEPT ![w] = "queued"]
    BY <1>3 DEF Written
  <2>2. /\ n \in Nat /\ Len(queue'[att]) = n + 1 /\ queue'[att][n + 1] = w
        /\ \A i \in 1 .. n : queue'[att][i] = queue[att][i]
        /\ \A c \in Conn : c # att => queue'[c] = queue[c]
    BY <1>1, <2>1, AppendProperties, LenProperties
  <2> HIDE DEF n
  <2>3. \A v \in Message : write'[v] = "queued" <=> v = w \/ write[v] = "queued"
    BY <1>1, <2>1
  <2>4. ASSUME NEW c \in Conn, NEW i \in 1 .. Len(queue'[c])
        PROVE  \/ c = att /\ i = n + 1 /\ queue'[c][i] = w
               \/ i \in 1 .. Len(queue[c]) /\ queue'[c][i] = queue[c][i] /\ queue[c][i] # w
    <3>1. CASE c = att /\ i = n + 1
      BY <2>2, <3>1
    <3>2. CASE c = att /\ i # n + 1
      <4>1. i \in 1 .. n /\ queue'[c][i] = queue[c][i]
        BY <2>2, <3>2
      <4> QED
        BY <1>1, <1>2, <3>2, <4>1 DEF n
    <3>3. CASE c # att
      BY <1>2, <2>2, <3>3
    <3> QED
      BY <3>1, <3>2, <3>3
  <2>5. ASSUME NEW c \in Conn, NEW i \in 1 .. Len(queue[c])
        PROVE  i \in 1 .. Len(queue'[c]) /\ queue'[c][i] = queue[c][i]
    <3>1. CASE c = att
      <4>1. i \in 1 .. n
        BY <3>1 DEF n
      <4>2. i \in 1 .. n + 1
        BY <2>2, <4>1
      <4> QED
        BY <2>2, <3>1, <4>1, <4>2
    <3>2. CASE c # att
      BY <2>2, <3>2
    <3> QED
      BY <3>1, <3>2
  <2>6. n + 1 \in 1 .. Len(queue'[att])
    BY <2>2
  <2>7. \A v \in Message : write'[v] = "queued" <=>
          \E c \in Conn : \E i \in 1 .. Len(queue'[c]) : queue'[c][i] = v
    <3> SUFFICES ASSUME NEW v \in Message
                 PROVE  write'[v] = "queued" <=>
                          \E c \in Conn : \E i \in 1 .. Len(queue'[c]) : queue'[c][i] = v
      OBVIOUS
    <3>1. CASE v = w
      <4>1. \E i \in 1 .. Len(queue'[att]) : queue'[att][i] = w
        BY <2>2, <2>6
      <4> QED
        BY <1>1, <2>3, <3>1, <4>1
    <3>2. CASE v # w
      <4>1. write'[v] = "queued" <=> \E c \in Conn : \E i \in 1 .. Len(queue[c]) : queue[c][i] = v
        BY <1>1, <2>3, <3>2 DEF WriteHasOneQueue
      <4>2. ASSUME NEW c \in Conn
            PROVE  (\E i \in 1 .. Len(queue[c]) : queue[c][i] = v)
                     <=> \E i \in 1 .. Len(queue'[c]) : queue'[c][i] = v
        BY <2>4, <2>5, <3>2
      <4> QED
        BY <4>1, <4>2
    <3> QED
      BY <3>1, <3>2
  <2>8. \A c, d \in Conn : \A i \in 1 .. Len(queue'[c]), j \in 1 .. Len(queue'[d]) :
          queue'[c][i] = queue'[d][j] => c = d /\ i = j
    <3> SUFFICES ASSUME NEW c \in Conn, NEW d \in Conn,
                        NEW i \in 1 .. Len(queue'[c]), NEW j \in 1 .. Len(queue'[d]),
                        queue'[c][i] = queue'[d][j]
                 PROVE  c = d /\ i = j
      OBVIOUS
    <3>1. CASE queue'[c][i] = w
      <4>1. c = att /\ i = n + 1
        BY <2>4, <3>1
      <4>2. queue'[d][j] = w
        BY <3>1
      <4>3. d = att /\ j = n + 1
        BY <2>4, <4>2
      <4> QED
        BY <4>1, <4>3
    <3>2. CASE queue'[c][i] # w
      <4>1. i \in 1 .. Len(queue[c]) /\ queue[c][i] = queue'[c][i]
        BY <2>4, <3>2
      <4>2. j \in 1 .. Len(queue[d]) /\ queue[d][j] = queue'[d][j]
        BY <2>4, <3>2
      <4> QED
        BY <1>1, <4>1, <4>2 DEF WriteHasOneQueue
    <3> QED
      BY <3>1, <3>2
  <2>9. \A c \in Conn : queue'[c] # <<>> => tcp'[c] \in {"active", "closing"}
    BY <1>1, <1>3, <2>2 DEF WriteHasOneQueue
  <2> QED
    BY <2>7, <2>8, <2>9 DEF WriteHasOneQueue
<1>4. CASE tcp[att] # "active"
  <2>1. queue' = queue /\ write' = [write EXCEPT ![w] = "unanswered"]
    BY <1>4 DEF Written
  <2>2. \A v \in Message : write'[v] = "queued" <=> write[v] = "queued"
    BY <1>1, <2>1
  <2> QED
    BY <1>1, <2>1, <2>2 DEF WriteHasOneQueue
<1> QED
  BY <1>3, <1>4

\* The first of a queue is called back and leaves it.
LEMMA StepOnWrite ==
  ASSUME ConnInv, NEW c \in Conn, NEW status \in {"done", "failed"}, OnWrite(c, status)
  PROVE  WriteHasOneQueue' /\ write[Head(queue[c])] = "queued" /\ Head(queue[c]) \in Message
<1> DEFINE n == Len(queue[c])
           w == Head(queue[c])
<1>1. /\ queue \in [Conn -> Seq(Message)] /\ tcp' = tcp /\ queue[c] # <<>>
      /\ write \in [Message -> {"unused", "queued", "done", "failed", "unanswered"}]
      /\ WriteHasOneQueue
      /\ queue' = [queue EXCEPT ![c] = Tail(@)] /\ write' = [write EXCEPT ![w] = status]
  BY DEF ConnInv, TypeOK, OnWrite, WriteAnswered, handleVars
<1>2. /\ n \in Nat \ {0} /\ w = queue[c][1] /\ w \in Message /\ 1 \in 1 .. n
      /\ Len(queue'[c]) = n - 1
      /\ \A i \in 1 .. n - 1 : queue'[c][i] = queue[c][i + 1]
      /\ \A d \in Conn : d # c => queue'[d] = queue[d]
  BY <1>1, HeadTailProperties, EmptySeq
<1> HIDE DEF n, w
<1>3. \A d \in Conn : \A i \in 1 .. Len(queue[d]) : queue[d][i] = w => d = c /\ i = 1
  BY <1>1, <1>2 DEF WriteHasOneQueue, n
<1>4. write[w] = "queued"
  BY <1>1, <1>2 DEF WriteHasOneQueue, n
<1>5. \A v \in Message : write'[v] = "queued" <=> v # w /\ write[v] = "queued"
  BY <1>1, <1>2
<1> DEFINE Place(d, i) == IF d = c THEN i + 1 ELSE i
<1>6. ASSUME NEW d \in Conn, NEW i \in 1 .. Len(queue'[d])
      PROVE  /\ Place(d, i) \in 1 .. Len(queue[d]) /\ queue'[d][i] = queue[d][Place(d, i)]
             /\ queue'[d][i] # w
  <2>1. CASE d = c
    <3>1. i + 1 \in 1 .. n /\ i + 1 # 1 /\ queue'[d][i] = queue[d][i + 1]
      BY <1>2, <2>1
    <3> QED
      BY <1>3, <2>1, <3>1 DEF n
  <2>2. CASE d # c
    BY <1>2, <1>3, <2>2
  <2> QED
    BY <2>1, <2>2
<1>7. ASSUME NEW d \in Conn, NEW i \in 1 .. Len(queue[d]), queue[d][i] # w
      PROVE  \E k \in 1 .. Len(queue'[d]) : queue'[d][k] = queue[d][i]
  <2>1. CASE d = c
    <3>1. i - 1 \in 1 .. n - 1 /\ (i - 1) + 1 = i
      BY <1>2, <1>7, <2>1 DEF n
    <3> QED
      BY <1>2, <2>1, <3>1
  <2>2. CASE d # c
    BY <1>2, <2>2
  <2> QED
    BY <2>1, <2>2
<1>8. \A v \in Message : write'[v] = "queued" <=>
        \E d \in Conn : \E i \in 1 .. Len(queue'[d]) : queue'[d][i] = v
  <2>1. ASSUME NEW v \in Message, write'[v] = "queued"
        PROVE  \E d \in Conn : \E i \in 1 .. Len(queue'[d]) : queue'[d][i] = v
    <3>1. PICK d \in Conn : \E i \in 1 .. Len(queue[d]) : queue[d][i] = v
      BY <1>1, <1>5, <2>1 DEF WriteHasOneQueue
    <3> QED
      BY <1>5, <1>7, <2>1, <3>1
  <2>2. ASSUME NEW v \in Message, NEW d \in Conn, NEW i \in 1 .. Len(queue'[d]),
               queue'[d][i] = v
        PROVE  write'[v] = "queued"
    BY <1>1, <1>5, <1>6, <2>2 DEF WriteHasOneQueue
  <2> QED
    BY <2>1, <2>2
<1>9. ASSUME NEW d \in Conn, NEW e \in Conn,
             NEW i \in 1 .. Len(queue'[d]), NEW j \in 1 .. Len(queue'[e]),
             queue'[d][i] = queue'[e][j]
      PROVE  d = e /\ i = j
  <2>1. d = e /\ Place(d, i) = Place(e, j)
    BY <1>1, <1>6, <1>9 DEF WriteHasOneQueue
  <2> QED
    BY <2>1
<1>10. \A d \in Conn : queue'[d] # <<>> => tcp'[d] \in {"active", "closing"}
  BY <1>1, <1>2 DEF WriteHasOneQueue
<1> QED
  BY <1>2, <1>4, <1>8, <1>9, <1>10 DEF WriteHasOneQueue, w

\* The writes in the queue of a stream that is closed are cancelled.
LEMMA StepOnTcpClosed ==
  ASSUME ConnInv, NEW c \in Conn, OnTcpClosed(c)
  PROVE  WriteHasOneQueue' /\ \A w \in Message : w \in Range(queue[c]) => write[w] = "queued"
<1>1. /\ queue \in [Conn -> Seq(Message)] /\ tcp \in [Conn -> HandleStates]
      /\ WriteHasOneQueue
      /\ queue' = [queue EXCEPT ![c] = <<>>] /\ tcp' = [tcp EXCEPT ![c] = "closed"]
      /\ write' = [w \in Message |-> IF w \in Range(queue[c]) THEN "failed" ELSE write[w]]
  BY DEF ConnInv, TypeOK, OnTcpClosed
<1>2. \A w : w \in Range(queue[c]) <=> \E i \in 1 .. Len(queue[c]) : queue[c][i] = w
  BY <1>1, LenProperties DEF Range
<1>3. \A d \in Conn : queue'[d] = IF d = c THEN <<>> ELSE queue[d]
  BY <1>1
<1>4. 1 .. Len(queue'[c]) = {}
  BY <1>3
<1>5. \A w \in Message : w \in Range(queue[c]) => write[w] = "queued"
  BY <1>1, <1>2 DEF WriteHasOneQueue
<1>6. \A w \in Message : write'[w] = "queued" <=>
        \E d \in Conn : \E i \in 1 .. Len(queue'[d]) : queue'[d][i] = w
  <2> SUFFICES ASSUME NEW w \in Message
               PROVE  write'[w] = "queued" <=>
                        \E d \in Conn : \E i \in 1 .. Len(queue'[d]) : queue'[d][i] = w
    OBVIOUS
  <2>1. CASE w \in Range(queue[c])
    <3>1. PICK i \in 1 .. Len(queue[c]) : queue[c][i] = w
      BY <1>2, <2>1
    <3>2. \A d \in Conn : \A j \in 1 .. Len(queue[d]) : queue[d][j] = w => d = c
      BY <1>1, <3>1 DEF WriteHasOneQueue
    <3> QED
      BY <1>1, <1>3, <1>4, <2>1, <3>2
  <2>2. CASE w \notin Range(queue[c])
    <3>1. write'[w] = write[w]
      BY <1>1, <2>2
    <3>2. \A i \in 1 .. Len(queue[c]) : queue[c][i] # w
      BY <1>2, <2>2
    <3> QED
      BY <1>1, <1>3, <1>4, <3>1, <3>2 DEF WriteHasOneQueue
  <2> QED
    BY <2>1, <2>2
<1>7. \A d, e \in Conn : \A i \in 1 .. Len(queue'[d]), j \in 1 .. Len(queue'[e]) :
        queue'[d][i] = queue'[e][j] => d = e /\ i = j
  BY <1>1, <1>3, <1>4 DEF WriteHasOneQueue
<1>8. \A d \in Conn : queue'[d] # <<>> => tcp'[d] \in {"active", "closing"}
  BY <1>1, <1>3 DEF WriteHasOneQueue
<1> QED
  BY <1>5, <1>6, <1>7, <1>8 DEF WriteHasOneQueue

\* A queue is filled while its stream is active and emptied when it is closed.
LEMMA StepQueues == ConnInv /\ [Next]_vars => WriteHasOneQueue'
<1> SUFFICES ASSUME ConnInv, [Next]_vars  PROVE WriteHasOneQueue'
  OBVIOUS
<1>1. ASSUME NEW c \in Conn, Connect(c) \/ ConnectThrows(c)  PROVE WriteHasOneQueue'
  BY <1>1, QueuesLeft DEF Connect, ConnectThrows, handleVars
<1>2. ASSUME NEW w \in Message, Write(w) \/ Issue(w)  PROVE WriteHasOneQueue'
  BY <1>2, StepWritten DEF Write, Issue, handleVars
<1>3. ASSUME NEW w \in Message, Busy(w) \/ WriteTooEarly(w)  PROVE WriteHasOneQueue'
  BY <1>3, QueuesLeft DEF Busy, WriteTooEarly, Crash, handleVars
<1>4. ASSUME NEW callback \in BOOLEAN, Close(callback)  PROVE WriteHasOneQueue'
  BY <1>4, QueuesLeft DEF Close, CloseTcp, ConnInv, TypeOK
<1>5. CASE CloseAgain
  BY <1>5, QueuesLeft DEF CloseAgain, Crash, handleVars
<1>6. ASSUME NEW c \in Conn, NEW status \in {"ok", "error"}, OnConnect(c, status)
      PROVE  WriteHasOneQueue'
  BY <1>6, QueuesLeft DEF OnConnect, ConnInv, TypeOK
<1>7. ASSUME NEW c \in Conn, OnPollClosed(c)  PROVE WriteHasOneQueue'
  BY <1>7, QueuesLeft DEF OnPollClosed
<1>8. ASSUME NEW c \in Conn, NEW what \in {"answer", "notification", "error"}, OnRead(c, what)
      PROVE  WriteHasOneQueue'
  BY <1>8, QueuesLeft DEF OnRead, handleVars
<1>9. CASE UNCHANGED vars
  BY <1>9, QueuesLeft DEF vars
<1> QED
  BY <1>1, <1>2, <1>3, <1>4, <1>5, <1>6, <1>7, <1>8, <1>9, StepOnWrite, StepOnTcpClosed
  DEF Next, Program, Loop

\* The step that reports a close is the one that closes the stream.
LEMMA StepReports == ConnInv /\ [Next]_vars => ReportedWhenClosed'
<1> SUFFICES ASSUME ConnInv, [Next]_vars  PROVE ReportedWhenClosed'
  OBVIOUS
<1> USE DEF ConnInv, TypeOK, HandleStates, ReportedWhenClosed
<1>1. ASSUME NEW c \in Conn, Connect(c) \/ ConnectThrows(c)  PROVE ReportedWhenClosed'
  BY <1>1 DEF Connect, ConnectThrows, handleVars, closeVars
<1>2. ASSUME NEW w \in Message, Write(w) \/ Issue(w) \/ Busy(w) \/ WriteTooEarly(w)
      PROVE  ReportedWhenClosed'
  BY <1>2 DEF Write, Issue, Busy, WriteTooEarly, Crash, handleVars, closeVars
<1>3. ASSUME NEW callback \in BOOLEAN, Close(callback)  PROVE ReportedWhenClosed'
  BY <1>3 DEF Close, CloseTcp
<1>4. CASE CloseAgain
  BY <1>4 DEF CloseAgain, Crash, handleVars, closeVars
<1>5. ASSUME NEW c \in Conn, NEW status \in {"ok", "error"}, OnConnect(c, status)
      PROVE  ReportedWhenClosed'
  <2>1. tcp[c] = "none" /\ closed' = closed
    BY <1>5 DEF OnConnect, HandlesInTurn, closeVars
  <2> QED
    BY <1>5, <2>1 DEF OnConnect
<1>6. ASSUME NEW c \in Conn, OnPollClosed(c)  PROVE ReportedWhenClosed'
  BY <1>6 DEF OnPollClosed, closeVars
<1>7. ASSUME NEW c \in Conn, NEW status \in {"done", "failed"}, OnWrite(c, status)
      PROVE  ReportedWhenClosed'
  BY <1>7 DEF OnWrite, handleVars, closeVars
<1>8. ASSUME NEW c \in Conn, OnTcpClosed(c)  PROVE ReportedWhenClosed'
  BY <1>8 DEF OnTcpClosed, Reported
<1>9. ASSUME NEW c \in Conn, NEW what \in {"answer", "notification", "error"}, OnRead(c, what)
      PROVE  ReportedWhenClosed'
  BY <1>9 DEF OnRead, handleVars, closeVars
<1>10. CASE UNCHANGED vars
  BY <1>10 DEF vars
<1> QED
  BY <1>1, <1>2, <1>3, <1>4, <1>5, <1>6, <1>7, <1>8, <1>9, <1>10 DEF Next, Program, Loop

\* The inductive invariant.
\* A connect takes the place of the connection in use; nothing undoes a connect.
LEMMA StepUsed == ConnInv /\ [Next]_vars => UsedWasConnected'
<1> SUFFICES ASSUME ConnInv, [Next]_vars  PROVE UsedWasConnected'
  OBVIOUS
<1> USE DEF ConnInv, TypeOK, UsedWasConnected
<1>1. ASSUME NEW c \in Conn, Connect(c) \/ ConnectThrows(c)  PROVE UsedWasConnected'
  BY <1>1 DEF Connect, ConnectThrows
<1>2. ASSUME NEW c \in Conn, NEW status \in {"ok", "error"}, OnConnect(c, status)
      PROVE  UsedWasConnected'
  BY <1>2 DEF OnConnect
<1>3. CASE UNCHANGED <<att, connecting>>
  BY <1>3
<1>4. CASE Next
  BY <1>1, <1>2, <1>3, <1>4
  DEF Next, Program, Loop, Write, Issue, Busy, WriteTooEarly, Close, CloseAgain, Crash,
      OnPollClosed, OnWrite, OnTcpClosed, OnRead
<1> QED
  BY <1>3, <1>4 DEF vars

LEMMA ConnInvariant == Spec => []ConnInv
<1>1. ConnInv /\ [Next]_vars => ConnInv'
  BY StepTypeOK, StepData, StepDescriptors, StepSlots, StepQueues, StepReports,
     StepUsed
  DEF ConnInv
<1> QED
  BY InitConnInv, <1>1, PTL DEF Spec

\* Only a write that is queued is called back, only a request that waits in a
\* slot, and only a stream that is being closed reports it.
LEMMA StepAnswersStay == ConnInv /\ [Next]_vars => AnswersStay \/ UNCHANGED vars
<1> SUFFICES ASSUME ConnInv, Next  PROVE AnswersStay
  OBVIOUS
<1> USE ConnectionAssumption DEF AnswersStay
<1>1. ASSUME UNCHANGED <<write, request, closed>>  PROVE AnswersStay
  BY <1>1
<1>2. ASSUME NEW c \in Conn, Connect(c) \/ ConnectThrows(c) \/ OnPollClosed(c)
      PROVE  UNCHANGED <<write, request, closed>>
  BY <1>2 DEF Connect, ConnectThrows, OnPollClosed, requestVars, closeVars
<1>3. ASSUME NEW w \in Message, Write(w) \/ Issue(w)  PROVE AnswersStay
  <2>1. /\ write[w] = "unused" /\ request[w] = "unused" /\ closed' = closed
        /\ \A v \in Message : v # w => write'[v] = write[v] /\ request'[v] = request[v]
    BY <1>3 DEF Write, Issue, Fresh, Written, requestVars, closeVars, ConnInv, TypeOK
  <2> QED
    BY <2>1
<1>4. ASSUME NEW w \in Message, Busy(w)  PROVE AnswersStay
  BY <1>4 DEF Busy, Fresh, closeVars, ConnInv, TypeOK
<1>5. ASSUME NEW w \in Message, WriteTooEarly(w)  PROVE UNCHANGED <<write, request, closed>>
  BY <1>5 DEF WriteTooEarly, Crash, requestVars, closeVars
<1>6. ASSUME NEW callback \in BOOLEAN, Close(callback)
      PROVE  UNCHANGED <<write, request, closed>>
  BY <1>6 DEF Close, requestVars
<1>7. CASE CloseAgain
  BY <1>1, <1>7 DEF CloseAgain, Crash, requestVars, closeVars
<1>8. ASSUME NEW c \in Conn, NEW status \in {"ok", "error"}, OnConnect(c, status)
      PROVE  UNCHANGED <<write, request, closed>>
  BY <1>8 DEF OnConnect, requestVars, closeVars
<1>9. ASSUME NEW c \in Conn, NEW status \in {"done", "failed"}, OnWrite(c, status)
      PROVE  AnswersStay
  <2>1. write[Head(queue[c])] = "queued" /\ Head(queue[c]) \in Message
    BY <1>9, StepOnWrite
  <2>2. write' = [write EXCEPT ![Head(queue[c])] = status] /\ request' = request /\ closed' = closed
    BY <1>9 DEF OnWrite, WriteAnswered, requestVars, closeVars
  <2> QED
    BY <2>1, <2>2 DEF ConnInv, TypeOK
<1>10. ASSUME NEW c \in Conn, OnTcpClosed(c)  PROVE AnswersStay
  <2>1. closed[c] = "no"
    BY <1>10 DEF OnTcpClosed, ConnInv, ReportedWhenClosed
  <2>2. \A w \in Message : w \in Range(queue[c]) => write[w] = "queued"
    BY <1>10, StepOnTcpClosed
  <2>3. /\ request' = request
        /\ \A w \in Message : write'[w] = IF w \in Range(queue[c]) THEN "failed" ELSE write[w]
        /\ \A d \in Conn : d # c => closed'[d] = closed[d]
    BY <1>10 DEF OnTcpClosed, Reported, requestVars, ConnInv, TypeOK
  <2> QED
    BY <2>1, <2>2, <2>3
<1>11. ASSUME NEW c \in Conn, NEW what \in {"answer", "notification", "error"}, OnRead(c, what)
       PROVE  AnswersStay
  <2>1. write' = write /\ closed' = closed
    BY <1>11 DEF OnRead, closeVars
  <2>2. CASE request' = request
    BY <2>1, <2>2
  <2>3. CASE request' # request
    <3>1. /\ currentRequest[c] # NULL
          /\ \E result \in {"answered", "link"} :
               request' = [request EXCEPT ![currentRequest[c]] = result]
      BY <1>11, <2>3 DEF OnRead, HandleRead, Awaited, Finish, requestVars
    <3>2. currentRequest[c] \in Message /\ request[currentRequest[c]] = "pending"
      BY <3>1 DEF ConnInv, TypeOK, RequestHasOneSlot
    <3> QED
      BY <2>1, <3>1, <3>2 DEF ConnInv, TypeOK
  <2> QED
    BY <2>2, <2>3
<1> QED
  BY <1>1, <1>2, <1>3, <1>4, <1>5, <1>6, <1>7, <1>8, <1>9, <1>10, <1>11 DEF Next, Program, Loop

----------------------------------------------------------------------------
(* The refinement of Sessions                                              *)

\* A step is none to the program.
Stutters == UNCHANGED <<Peer!absVars>>

\* The session of a connection is that of its stream, once it has one.
LEMMA SessionOfStream ==
  ASSUME TypeOK, NEW c \in Conn
  PROVE  /\ Session(c) = "up" <=> tcp[c] = "active"
         /\ Session(c) = "ending" <=> tcp[c] = "closing"
         /\ Session(c) = "over" <=> tcp[c] = "closed"
         /\ tcp[c] = "none" =>
              /\ connecting[c] = "none" => Session(c) = "none"
              /\ connecting[c] = "waiting" => Session(c) = "connecting"
              /\ connecting[c] \in {"ok", "error", "thrown"} => Session(c) = "failed"
BY DEF Session, TypeOK, HandleStates

LEMMA SessionOfStreamNext ==
  ASSUME TypeOK', NEW c \in Conn
  PROVE  /\ tcp'[c] = "active" => Session(c)' = "up"
         /\ tcp'[c] = "closing" => Session(c)' = "ending"
         /\ tcp'[c] = "closed" => Session(c)' = "over"
         /\ tcp'[c] = "none" =>
              /\ connecting'[c] = "waiting" => Session(c)' = "connecting"
              /\ connecting'[c] \in {"ok", "error", "thrown"} => Session(c)' = "failed"
BY DEF Session, TypeOK, HandleStates

\* It is left alone where stream and connect are.
LEMMA SessionStays ==
  ASSUME NEW c \in Conn, tcp'[c] = tcp[c], connecting'[c] = connecting[c]
  PROVE  Session(c)' = Session(c)
BY DEF Session

LEMMA SessionGoes ==
  ASSUME NEW c \in Conn, NEW from, NEW to, Session(c) = from, Session(c)' = to,
         \A d \in Conn : d # c => tcp'[d] = tcp[d] /\ connecting'[d] = connecting[d]
  PROVE  Peer!Goes(c, from, to)
<1>1. \A d \in Conn : d # c => Session(d)' = Session(d)
  BY SessionStays
<1> QED
  BY <1>1 DEF Peer!Goes

LEMMA SessionsStay ==
  ASSUME UNCHANGED <<tcp, connecting>>
  PROVE  UNCHANGED [c \in Conn |-> Session(c)]
BY SessionStays

\* A connect begins a session.
LEMMA ConnectIsBegin ==
  ASSUME ConnInv, TypeOK', NEW c \in Conn, Connect(c) \/ ConnectThrows(c)
  PROVE  Peer!AbsNext
<1>1. /\ crash = "none" /\ connecting[c] = "none" /\ tcp' = tcp /\ att' = c
      /\ UNCHANGED <<called, queue, write, currentRequest, request, closeCallback, closed,
                     crash>>
  BY DEF Connect, ConnectThrows, Running, handleVars, requestVars, closeVars
<1>2. tcp[c] = "none" /\ Session(c) = "none"
  BY <1>1, SessionOfStream DEF ConnInv, HandlesInTurn
<1>3. \A d \in Conn : d # c => tcp'[d] = tcp[d] /\ connecting'[d] = connecting[d]
  BY DEF Connect, ConnectThrows, handleVars, ConnInv, TypeOK
<1>4. connecting'[c] = "waiting" \/ connecting'[c] = "thrown"
  BY DEF Connect, ConnectThrows, ConnInv, TypeOK
<1>5. Session(c)' = "connecting" \/ Session(c)' = "failed"
  BY <1>1, <1>2, <1>4, SessionOfStreamNext
<1>6. Peer!Begin(c)
  BY <1>1, <1>2, <1>3, <1>5, SessionGoes DEF Peer!Begin, Peer!messageVars
<1> QED
  BY <1>1, <1>6 DEF Peer!AbsNext

\* What a poll handle calls back brings its session up, or fails it.
LEMMA OnConnectIsComeUp ==
  ASSUME ConnInv, TypeOK', NEW c \in Conn, NEW status \in {"ok", "error"}, OnConnect(c, status)
  PROVE  Peer!AbsNext
<1>1. /\ crash = "none" /\ poll_handle[c] = "active"
      /\ connecting' = [connecting EXCEPT ![c] = status]
      /\ called' = [called EXCEPT ![att] = Append(@, c)]
      /\ UNCHANGED <<att, queue, write, currentRequest, request, closeCallback, closed, crash>>
  BY DEF OnConnect, Called, Running, requestVars, closeVars
<1>2. tcp[c] = "none" /\ connecting[c] = "waiting" /\ Session(c) = "connecting"
  BY <1>1, SessionOfStream DEF ConnInv, HandlesInTurn
<1>3. \A d \in Conn : d # c => tcp'[d] = tcp[d] /\ connecting'[d] = connecting[d]
  BY <1>1 DEF OnConnect, ConnInv, TypeOK
<1>4. Session(c)' = "up" \/ Session(c)' = "failed"
  <2>1. CASE status = "ok"
    <3>1. tcp'[c] = "active"
      BY <2>1 DEF OnConnect, ConnInv, TypeOK
    <3> QED
      BY <3>1, SessionOfStreamNext
  <2>2. CASE status = "error"
    <3>1. tcp'[c] = "none" /\ connecting'[c] = "error"
      BY <1>1, <1>2, <2>2 DEF OnConnect, ConnInv, TypeOK
    <3> QED
      BY <3>1, SessionOfStreamNext
  <2> QED
    BY <2>1, <2>2
<1>5. Peer!ComeUp(c)
  BY <1>1, <1>2, <1>3, <1>4, SessionGoes DEF Peer!ComeUp, Peer!messageVars
<1> QED
  BY <1>1, <1>5 DEF Peer!AbsNext

\* What is written over the connection in use is taken by its session.
LEMMA WriteIsCommand ==
  ASSUME ConnInv, NEW w \in Message, Write(w) \/ Issue(w) \/ Busy(w)
  PROVE  Peer!AbsNext
<1>1. /\ crash = "none" /\ Peer!New(w)
      /\ UNCHANGED <<att, called, tcp, connecting, closeCallback, closed, crash>>
  BY DEF Write, Issue, Busy, Running, Fresh, Peer!New, handleVars, closeVars
<1>2. UNCHANGED [c \in Conn |-> Session(c)]
  BY <1>1, SessionsStay
<1>3. att \in Conn
  BY DEF Write, Issue, Busy, Written, ConnInv, TypeOK
<1>4. ASSUME Written(w)  PROVE Peer!Taken(att, w)
  <2>1. tcp[att] = "active" => Session(att) = "up"
    BY <1>3, SessionOfStream DEF ConnInv
  <2>2. tcp[att] # "active" => Session(att) \in {"ending", "over"}
    BY <1>3, <1>4, SessionOfStream DEF Written, ConnInv, TypeOK, HandleStates
  <2> QED
    BY <1>3, <1>4, <2>1, <2>2 DEF Written, Peer!Taken
<1>5. CASE Write(w)
  <2>1. Peer!Command(att, w)
    BY <1>1, <1>2, <1>4, <1>5 DEF Write, requestVars, Peer!Command
  <2> QED
    BY <1>1, <1>3, <2>1 DEF Peer!AbsNext
<1>6. CASE Issue(w)
  <2>1. Peer!Request(att, w)
    BY <1>1, <1>2, <1>4, <1>6 DEF Issue, Peer!Request
  <2> QED
    BY <1>1, <1>3, <2>1 DEF Peer!AbsNext
<1>7. CASE Busy(w)
  <2>1. Peer!Refuse(att, w)
    BY <1>1, <1>2, <1>7 DEF Busy, Peer!Refuse
  <2> QED
    BY <1>1, <1>3, <2>1 DEF Peer!AbsNext
<1> QED
  BY <1>5, <1>6, <1>7

\* A close ends the latest session if it is up; before that, there is none or
\* nothing to end.
LEMMA CloseIsClose ==
  ASSUME ConnInv, TypeOK', NEW callback \in BOOLEAN, Close(callback)
  PROVE  Peer!AbsNext
<1>1. /\ crash = "none" /\ closeCallback' = (closeCallback \/ callback)
      /\ UNCHANGED <<att, called, connecting, queue, write, currentRequest, request, closed,
                     crash>>
  BY DEF Close, Running, requestVars
<1>2. CASE att # NULL /\ tcp[att] = "active"
  <2>1. PICK c \in Conn : c = att
    BY <1>2 DEF ConnInv, TypeOK
  <2>2. tcp[c] = "active" /\ tcp' = [tcp EXCEPT ![c] = "closing"]
    BY <1>2, <2>1 DEF Close, CloseTcp
  <2>3. /\ tcp'[c] = "closing"
        /\ \A d \in Conn : d # c => tcp'[d] = tcp[d] /\ connecting'[d] = connecting[d]
    BY <1>1, <2>2 DEF ConnInv, TypeOK
  <2>4. Session(c) = "up" /\ Session(c)' = "ending"
    BY <2>2, <2>3, SessionOfStream, SessionOfStreamNext DEF ConnInv
  <2>5. Peer!Goes(att, "up", "ending")
    BY <2>1, <2>3, <2>4, SessionGoes
  <2>6. Peer!Close(callback)
    BY <1>1, <2>1, <2>5 DEF Peer!Close, Peer!messageVars
  <2> QED
    BY <1>1, <2>6 DEF Peer!AbsNext
<1>3. CASE ~(att # NULL /\ tcp[att] = "active")
  <2>1. tcp' = tcp
    BY <1>3 DEF Close
  <2>2. UNCHANGED [c \in Conn |-> Session(c)]
    BY <1>1, <2>1, SessionsStay
  <2>3. ASSUME att \in Conn  PROVE Session(att) \in {"connecting", "failed"}
    <3>1. tcp[att] = "none"
      BY <1>3, <2>3, ConnectionAssumption DEF Close
    <3>2. connecting[att] \in {"waiting", "ok", "error", "thrown"}
      BY <2>3, ConnectionAssumption DEF ConnInv, TypeOK, UsedWasConnected
    <3> QED
      BY <2>3, <3>1, <3>2, SessionOfStream DEF ConnInv
  <2>4. Peer!Close(callback)
    BY <1>1, <2>2, <2>3 DEF Peer!Close, Peer!messageVars
  <2> QED
    BY <1>1, <2>4 DEF Peer!AbsNext
<1> QED
  BY <1>2, <1>3

\* What ends the process leaves the sessions as they are.
LEMMA CrashIsDie ==
  ASSUME crash = "none", crash' # "none",
         UNCHANGED <<att, called, tcp, connecting, queue, write, currentRequest, request,
                     closeCallback, closed>>
  PROVE  Peer!AbsNext
<1>1. UNCHANGED [c \in Conn |-> Session(c)]
  BY SessionsStay
<1> QED
  BY <1>1 DEF Peer!AbsNext, Peer!Die, Peer!messageVars

\* The first message of a session is called back.
LEMMA OnWriteIsSent ==
  ASSUME ConnInv, NEW c \in Conn, NEW status \in {"done", "failed"}, OnWrite(c, status)
  PROVE  Peer!AbsNext
<1>1. /\ crash = "none" /\ tcp[c] = "active" /\ queue[c] # <<>>
      /\ queue' = [queue EXCEPT ![c] = Tail(@)]
      /\ write' = [write EXCEPT ![Head(queue[c])] = status]
      /\ UNCHANGED <<att, called, tcp, connecting, currentRequest, request, closeCallback,
                     closed, crash>>
  BY DEF OnWrite, Running, WriteAnswered, handleVars, requestVars, closeVars
<1>2. Session(c) = "up" /\ UNCHANGED [d \in Conn |-> Session(d)]
  BY <1>1, SessionOfStream, SessionsStay DEF ConnInv
<1>3. Peer!Sent(c)
  BY <1>1, <1>2 DEF Peer!Sent
<1> QED
  BY <1>1, <1>3 DEF Peer!AbsNext

\* The last callback of a stream ends its session.
LEMMA OnTcpClosedIsEnd ==
  ASSUME ConnInv, TypeOK', NEW c \in Conn, OnTcpClosed(c)
  PROVE  Peer!AbsNext
<1>1. /\ crash = "none" /\ tcp[c] = "closing" /\ tcpData[c] = "closeData"
      /\ UNCHANGED <<att, called, connecting, currentRequest, request, closeCallback>>
  BY DEF OnTcpClosed, Running, requestVars, ConnInv, DataFollowsTcp
<1>2. /\ closed' = Reported(c) /\ UNCHANGED crash
      /\ tcp' = [tcp EXCEPT ![c] = "closed"]
      /\ queue' = [queue EXCEPT ![c] = <<>>]
      /\ write' = [w \in Message |-> IF w \in Range(queue[c]) THEN "failed" ELSE write[w]]
  BY <1>1 DEF OnTcpClosed
<1>3. /\ tcp'[c] = "closed"
      /\ \A d \in Conn : d # c => tcp'[d] = tcp[d] /\ connecting'[d] = connecting[d]
  BY <1>1, <1>2 DEF ConnInv, TypeOK
<1>4. Session(c) = "ending" /\ Session(c)' = "over"
  BY <1>1, <1>3, SessionOfStream, SessionOfStreamNext DEF ConnInv
<1>5. closed' = [closed EXCEPT ![c] = IF closeCallback THEN "silent" ELSE "event"]
  BY <1>2 DEF Reported
<1>6. Peer!Goes(c, "ending", "over")
  BY <1>3, <1>4, SessionGoes
<1>7. UNCHANGED (crash # "none")
  BY <1>2
<1>8. Peer!End(c)
  BY <1>1, <1>2, <1>5, <1>6, <1>7 DEF Range, Peer!Range, Peer!End
<1> QED
  BY <1>1, <1>8 DEF Peer!AbsNext

\* A PDU or a read error answers the request that waits on the connection it was
\* read from, or none, or ends the process.
LEMMA OnReadIsAnswer ==
  ASSUME ConnInv, NEW c \in Conn, NEW what \in {"answer", "notification", "error"},
         OnRead(c, what)
  PROVE  Peer!AbsNext \/ Stutters
<1>1. /\ crash = "none" /\ tcp[c] = "active" /\ HandleRead(c, what)
      /\ UNCHANGED <<att, called, tcp, connecting, queue, write, closeCallback, closed>>
  BY DEF OnRead, Running, handleVars, closeVars, ConnInv, DataFollowsTcp
<1>2. Session(c) = "up" /\ UNCHANGED [d \in Conn |-> Session(d)]
  BY <1>1, SessionOfStream, SessionsStay DEF ConnInv
<1>3. ASSUME NEW how \in {"answered", "link"}, Awaited(c), Finish(c, how), UNCHANGED crash
      PROVE  Peer!AbsNext
  <2>1. Peer!Answer(c)
    BY <1>1, <1>2, <1>3 DEF Awaited, Finish, Peer!Answer
  <2> QED
    BY <1>1, <2>1 DEF Peer!AbsNext
<1>4. CASE UNCHANGED <<requestVars, crash>>
  BY <1>1, <1>2, <1>4 DEF requestVars, Stutters, Peer!absVars
<1>5. CASE crash' = "nullRequest" /\ UNCHANGED requestVars
  BY <1>1, <1>5, CrashIsDie DEF requestVars
<1> QED
  BY <1>1, <1>3, <1>4, <1>5 DEF HandleRead

LEMMA StepIsOfSessions ==
  ASSUME ConnInv, TypeOK', [Next]_vars
  PROVE  [Peer!AbsNext]_(Peer!absVars)
<1> SUFFICES Peer!AbsNext \/ Stutters
  BY DEF Stutters
<1>1. ASSUME NEW w \in Message, WriteTooEarly(w)  PROVE Peer!AbsNext
  BY <1>1, CrashIsDie DEF WriteTooEarly, Crash, Running, handleVars, requestVars, closeVars
<1>2. CASE CloseAgain
  BY <1>2, CrashIsDie DEF CloseAgain, Crash, Running, handleVars, requestVars, closeVars
<1>3. ASSUME NEW c \in Conn, OnPollClosed(c)  PROVE Stutters
  BY <1>3, SessionsStay DEF OnPollClosed, requestVars, closeVars, Stutters, Peer!absVars
<1>4. CASE UNCHANGED vars
  BY <1>4, SessionsStay DEF vars, Stutters, Peer!absVars
<1>5. CASE Program
  BY <1>1, <1>2, <1>5, ConnectIsBegin, WriteIsCommand, CloseIsClose DEF Program
<1>6. ASSUME NEW c \in Conn, Loop(c)  PROVE Peer!AbsNext \/ Stutters
  BY <1>3, <1>6, OnConnectIsComeUp, OnWriteIsSent, OnTcpClosedIsEnd, OnReadIsAnswer DEF Loop
<1> QED
  BY <1>4, <1>5, <1>6 DEF Next

----------------------------------------------------------------------------

\* Connection and the callbacks keep their variables in their types.
THEOREM ConnectionTypeCorrect == Spec => []TypeOK
<1>1. ConnInv => TypeOK
  BY DEF ConnInv
<1> QED
  BY ConnInvariant, <1>1, PTL

\* Neither onRead nor onClose ever finds the other's data in tcp->data, however
\* closes, reconnects and callbacks interleave.
THEOREM DataHasOneOwner == Spec => []NoStaleData
<1>1. ConnInv => NoStaleData
  BY DEF ConnInv
<1> QED
  BY ConnInvariant, <1>1, PTL

\* No socket is watched by its poll handle and its stream at once.
THEOREM SocketHasOneWatcher == Spec => []OneWatcher
<1>1. ConnInv => OneWatcher
  BY DEF ConnInv, HandlesInTurn, OneWatcher
<1> QED
  BY ConnInvariant, <1>1, PTL

\* However connects fail, are replaced or are closed, what is watched is open,
\* and only a failed connect leaves its socket open and unwatched.
THEOREM DescriptorsKept == Spec => []DescriptorsAccountedFor
<1>1. ConnInv => DescriptorsAccountedFor
  BY DEF ConnInv
<1> QED
  BY ConnInvariant, <1>1, PTL

\* The requests of all connections, the replaced ones included, are kept apart:
\* each waits in one slot.
THEOREM RequestsKeptApart == Spec => []RequestHasOneSlot
<1>1. ConnInv => RequestHasOneSlot
  BY DEF ConnInv
<1> QED
  BY ConnInvariant, <1>1, PTL

\* A write that waits for its callback is in the queue of one stream that has not
\* closed yet: none is forgotten, and none is queued twice.
THEOREM WritesKeptApart == Spec => []WriteHasOneQueue
<1>1. ConnInv => WriteHasOneQueue
  BY DEF ConnInv
<1> QED
  BY ConnInvariant, <1>1, PTL

\* No write, request or close is called back twice, however the callbacks of the
\* connection in use and of the replaced ones interleave with the program.
THEOREM CallbacksRunOnce == Spec => CalledBackOnce
<1>1. ConnInv /\ [Next]_vars => [AnswersStay]_vars
  BY StepAnswersStay
<1> QED
  BY ConnInvariant, <1>1, PTL DEF Spec, CalledBackOnce

\* The connections of one Peripheral, of which a connect leaves the handles of
\* the last ones to the loop, share what Sessions shares and nothing else: each
\* outcome is handed once, to the callback of the latest connect, a close with an
\* argument silences them all, and no other step of one is seen by another.
THEOREM ConnectionsAreSessions == Spec => SessionsShareCallbacks
<1>1. Init => Peer!AbsInit
  <2> SUFFICES ASSUME Init  PROVE Peer!AbsInit
    OBVIOUS
  <2>1. \A c \in Conn : Session(c) = "none"
    BY DEF Init, Session
  <2>2. [c \in Conn |-> Session(c)] = [c \in Conn |-> "none"]
    BY <2>1, Zenon
  <2>3. (crash # "none") = FALSE
    BY DEF Init
  <2>4. /\ queue = [c \in Conn |-> <<>>] /\ write = [w \in Message |-> "unused"]
        /\ currentRequest = [c \in Conn |-> NULL] /\ request = [r \in Message |-> "unused"]
        /\ closed = [c \in Conn |-> "no"]
    BY DEF Init
  <2>5. att = NULL /\ called = [c \in Conn |-> <<>>] /\ closeCallback = FALSE
    BY DEF Init
  <2> QED
    BY <2>2, <2>3, <2>4, <2>5, Zenon DEF Peer!AbsInit
<1>2. ConnInv /\ TypeOK' /\ [Next]_vars => [Peer!AbsNext]_(Peer!absVars)
  BY StepIsOfSessions
<1>3. ConnInv => TypeOK
  BY DEF ConnInv
<1> QED
  BY <1>1, <1>2, <1>3, ConnInvariant, PTL DEF Spec, SessionsShareCallbacks, Peer!AbsSpec

=============================================================================
