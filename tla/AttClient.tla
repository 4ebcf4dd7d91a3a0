----------------------------- MODULE AttClient -----------------------------
(***************************************************************************)
(* The ATT client of src/src/att.cc, seen from the moment the connection   *)
(* is up, with the callbacks of src/src/peripheral.cc that hand its        *)
(* answers to JavaScript, and the device and the link it talks over.       *)
(*                                                                         *)
(* Everything runs on the one thread of the event loop, so a handler is    *)
(* one action.  JavaScript called back from a handler may call the client  *)
(* again: every handler calls back as its last deed, so such a call is the *)
(* next action.  Dereferencing NULL and reading the back of an empty       *)
(* vector kill the process; crash says which of them did.                  *)
(***************************************************************************)
EXTENDS Att

CONSTANTS
  CallId,     \* the calls the program may make
  Asks,       \* what it may ask for: <<op, start, end>>; a READ is of one handle
  Listener,   \* the notification callbacks the program may register
  NULL,
  PushKinds,  \* what the device sends unasked: "NOTIFY", "OTHER"
  MaxPushes   \* bound: how many such PDUs it sends

ASSUME ClientAssumption ==
  /\ NULL \notin CallId
  /\ NULL \notin Listener
  /\ NULL \notin Handle
  /\ Asks \subseteq Ops \X Handle \X Handle
  /\ \A ask \in Asks : ask[1] = "READ" => ask[2] = ask[3]
  /\ PushKinds \subseteq {"NOTIFY", "OTHER"}
  /\ MaxPushes \in Nat

VARIABLES
  call,             \* call[c]: what the c-th call asked for and how it ended
  currentRequest,   \* the call whose request is outstanding, or NULL
  lists,            \* lists[op]: the cached list of a paged op, <<>> for NULL
  notificationMap,  \* the listener registered for a handle, or NULL
  listening,        \* <<listener, handle>> for each registration, in their order
  heard,            \* heard[l]: how many notifications l was called with
  errors,           \* how often errorHandler was called
  toDevice,         \* requests written and not yet taken by the device
  toClient,         \* PDUs sent by the device and not yet read
  link,             \* "up"; "lost" by the peer; "down": read error seen; "closed"
  pushes,           \* PDUs the device has sent unasked
  crash             \* "none", or what killed the process

vars == <<call, currentRequest, lists, notificationMap, listening, heard, errors,
          toDevice, toClient, link, pushes, crash>>

requestVars  == <<call, currentRequest, lists>>
listenerVars == <<notificationMap, listening, heard>>

----------------------------------------------------------------------------
(* State                                                                   *)

Errors  == Codes \cup {"link", "noMatch"}
Results == {"unused", "pending", "ok", "busy"} \cup Errors
Causes  == {"nullRequest", "nullBuffer", "emptyBack", "nullList"}

Calls == [op : Ops, start : Handle, end : Handle, result : Results, list : Seq(Handle)]

Requests == [op : Ops, start : Handle, end : Handle]

\* A PDU from the device: a response, an Error Response naming the request
\* it answers, a notification, or any other opcode, which carries whatever
\* list its bytes happen to parse to.
Pdus == [kind : {"RESPONSE", "ERROR", "NOTIFY", "OTHER"}, op : Ops, code : Codes,
         list : Seq(Handle)]

Response(op, list) == [kind |-> "RESPONSE", op |-> op, code |-> "OTHER", list |-> list]
ErrorPdu(op, code) == [kind |-> "ERROR", op |-> op, code |-> code, list |-> <<>>]
Pushed(kind, list) == [kind |-> kind, op |-> "READ", code |-> "OTHER", list |-> list]

TypeOK ==
  /\ call \in [CallId -> Calls]
  /\ currentRequest \in CallId \cup {NULL}
  /\ lists \in [PagedOps -> Seq(Handle)]
  /\ notificationMap \in [Handle -> Listener \cup {NULL}]
  /\ listening \in Seq(Listener \X Handle)
  /\ heard \in [Listener -> Nat]
  /\ errors \in Nat
  /\ toDevice \in Seq(Requests)
  /\ toClient \in Seq(Pdus)
  /\ link \in {"up", "lost", "down", "closed"}
  /\ pushes \in 0 .. MaxPushes
  /\ crash \in {"none"} \cup Causes

Init ==
  /\ call = [c \in CallId |-> [op |-> "READ", start |-> 0, end |-> 0,
                               result |-> "unused", list |-> <<>>]]
  /\ currentRequest = NULL
  /\ lists = [op \in PagedOps |-> <<>>]
  /\ notificationMap = [h \in Handle |-> NULL]
  /\ listening = <<>>
  /\ heard = [l \in Listener |-> 0]
  /\ errors = 0
  /\ toDevice = <<>>
  /\ toClient = <<>>
  /\ link = "up"
  /\ pushes = 0
  /\ crash = "none"

----------------------------------------------------------------------------
(* Requests                                                                *)

\* doFindInformation and its siblings: encode the request and write it.  The
\* result of the write is not looked at: off the link the request is lost.
Written(op, start, end) ==
  IF link = "up" THEN Append(toDevice, [op |-> op, start |-> start, end |-> end])
                 ELSE toDevice

\* Seeded fault: the swap without the comparison.
SlotFreeUnchecked == TRUE

\* setCurrentRequest compares and swaps: it succeeds when nothing is pending.
SlotFree == currentRequest = NULL

\* The call c as findInformation, findByTypeValue, readByType, readByGroupType
\* or readAttribute (whose range is one handle) receives it.
Made(c, op, start, end, result) ==
  [call EXCEPT ![c] = [op |-> op, start |-> start, end |-> end,
                       result |-> result, list |-> <<>>]]

\* A request function takes the slot and writes its request ...
Issue(c, op, start, end) ==
  /\ crash = "none"
  /\ call[c].result = "unused"
  /\ SlotFree
  /\ call' = Made(c, op, start, end, "pending")
  /\ currentRequest' = c
  /\ toDevice' = Written(op, start, end)
  /\ UNCHANGED <<lists, listenerVars, errors, toClient, link, pushes, crash>>

\* ... or, when a request is pending, calls back at once with an error.
Busy(c, op, start, end) ==
  /\ crash = "none"
  /\ call[c].result = "unused"
  /\ ~SlotFree
  /\ call' = Made(c, op, start, end, "busy")
  /\ UNCHANGED <<currentRequest, lists, listenerVars, errors, toDevice, toClient,
                 link, pushes, crash>>

\* Seeded fault: map[handle] = rd in place of map.insert.
InsertedOver(l, h) == [notificationMap EXCEPT ![h] = l]

\* listenForNotifications: map::insert keeps an entry that is already there.
\* (listening records the calls in their order, for the properties.)
Inserted(l, h) ==
  IF notificationMap[h] = NULL THEN [notificationMap EXCEPT ![h] = l]
                               ELSE notificationMap

Listen(l, h) ==
  /\ crash = "none"
  /\ \A i \in DOMAIN listening : listening[i][1] # l
  /\ listening' = Append(listening, <<l, h>>)
  /\ notificationMap' = Inserted(l, h)
  /\ UNCHANGED <<requestVars, heard, errors, toDevice, toClient, link, pushes, crash>>

----------------------------------------------------------------------------
(* Answers                                                                 *)

Die(cause) ==
  /\ crash' = cause
  /\ UNCHANGED <<requestVars, listenerVars, errors, toDevice, toClient, link, pushes>>

\* Seeded fault: attributeList = NULL is forgotten.
DroppedNot(op) == lists

\* The cached list of op, set to NULL when its request ends.
Dropped(op) == [lists EXCEPT ![op] = <<>>]

\* Seeded fault: the request is called back and not removed.
FinishUnremoved(c, result, list) ==
  /\ call' = [call EXCEPT ![c].result = result, ![c].list = list]
  /\ lists' = IF call[c].op \in PagedOps THEN Dropped(call[c].op) ELSE lists
  /\ UNCHANGED <<currentRequest, toDevice, crash>>

\* removeCurrentRequest, the cached list dropped, the callback called.
Finish(c, result, list) ==
  /\ currentRequest' = NULL
  /\ call' = [call EXCEPT ![c].result = result, ![c].list = list]
  /\ lists' = IF call[c].op \in PagedOps THEN Dropped(call[c].op) ELSE lists
  /\ UNCHANGED <<toDevice, crash>>

\* More is to be asked for while the last handle is below the end handle.
MoreToGet(list, end) == Back(list) < end

\* Seeded faults: the last handle is asked for again; one handle is skipped.
NextStartAgain(list)   == Back(list)
NextStartSkipped(list) == Back(list) + 2

\* The follow-up starts behind the last handle (a uint16_t: it would wrap).
NextStart(list) == (Back(list) + 1) % (MaxHandle + 1)

\* Seeded faults: the list is not cached; nothing is written.
FollowUpUncached(c, list) ==
  /\ toDevice' = Written(call[c].op, NextStart(list), call[c].end)
  /\ UNCHANGED <<lists, call, currentRequest, crash>>
FollowUpUnsent(c, list) ==
  /\ lists' = [lists EXCEPT ![call[c].op] = list]
  /\ UNCHANGED <<call, currentRequest, toDevice, crash>>

FollowUp(c, list) ==
  /\ lists' = [lists EXCEPT ![call[c].op] = list]
  /\ toDevice' = Written(call[c].op, NextStart(list), call[c].end)
  /\ UNCHANGED <<call, currentRequest, crash>>

\* The cached list with one more page parsed onto it.
Extended(c, page) == lists[call[c].op] \o page

\* handleFindInfo, handleFindByType and handleReadByGroupType at status 0:
\* parse onto the cached list, then ask for more or finish.  error is "ok"
\* or, after a read error, "link".
Accumulate(c, page, error) ==
  LET list == Extended(c, page)
  IN  /\ call[c].op \in PagedOps
      /\ list # <<>>
      /\ \/ MoreToGet(list, call[c].end) /\ FollowUp(c, list)
         \/ ~MoreToGet(list, call[c].end) /\ Finish(c, error, list)

\* handleReadByType and onReadAttribute: one response is the answer.
Single(c, list, error) ==
  /\ call[c].op \notin PagedOps
  /\ Finish(c, error, list)

\* Seeded fault: handleFindByType takes the end of an empty list for success.
EndOfListAlways(c) ==
  /\ call[c].op \in PagedOps
  /\ lists[call[c].op] # <<>> \/ call[c].op = "FIND_BY_TYPE"
  /\ Finish(c, "ok", lists[call[c].op])

\* The three paged handlers at "attribute not found": the list is complete,
\* unless nothing was ever found, which findByTypeValue alone reports.
EndOfList(c) ==
  /\ call[c].op \in PagedOps
  /\ \/ lists[call[c].op] # <<>> /\ Finish(c, "ok", lists[call[c].op])
     \/ /\ lists[call[c].op] = <<>>
        /\ call[c].op = "FIND_BY_TYPE"
        /\ Finish(c, "noMatch", <<>>)

\* Any other error, and every error of a request of one response.
Failure(c, code) ==
  /\ code = "ATTR_NOT_FOUND" => call[c].op \notin PagedOps
  /\ Finish(c, code, <<>>)

----------------------------------------------------------------------------
(* handleRead: the PDU at the head of toClient                             *)

CanRead == crash = "none" /\ link \in {"up", "lost"} /\ toClient # <<>>

Receive(kinds) ==
  /\ CanRead
  /\ Head(toClient).kind \in kinds
  /\ toClient' = Tail(toClient)
  /\ UNCHANGED <<link, pushes>>

\* default: whatever is no error and no notification is given to the current
\* request: its opcode is not compared with the expected response.
AnswerKinds == {"RESPONSE", "OTHER"}

ReadAnswer ==
  /\ ~SlotFree
  /\ Receive(AnswerKinds)
  /\ \/ Accumulate(currentRequest, Head(toClient).list, "ok")
     \/ Single(currentRequest, Head(toClient).list, "ok")
  /\ UNCHANGED <<listenerVars, errors>>

\* back() of the new and empty list when the first page holds no entry.
ReadEmptyPage ==
  /\ CanRead
  /\ ~SlotFree
  /\ Head(toClient).kind \in AnswerKinds
  /\ call[currentRequest].op \in PagedOps
  /\ Extended(currentRequest, Head(toClient).list) = <<>>
  /\ Die("emptyBack")

\* An Error Response for the request that is pending.
ErrorIsForCurrent(pdu) == ~SlotFree /\ call[currentRequest].op = pdu.op

ReadError ==
  /\ Receive({"ERROR"})
  /\ ErrorIsForCurrent(Head(toClient))
  /\ \/ Head(toClient).code = "ATTR_NOT_FOUND" /\ EndOfList(currentRequest)
     \/ Failure(currentRequest, Head(toClient).code)
  /\ UNCHANGED <<listenerVars, errors>>

\* handleFindInfo and handleReadByGroupType call back with status 0 and the
\* NULL list when nothing was found: Peripheral takes its size.
ReadNothingFound ==
  /\ CanRead
  /\ Head(toClient).kind = "ERROR"
  /\ ErrorIsForCurrent(Head(toClient))
  /\ Head(toClient).code = "ATTR_NOT_FOUND"
  /\ call[currentRequest].op \in PagedOps \ {"FIND_BY_TYPE"}
  /\ lists[call[currentRequest].op] = <<>>
  /\ Die("nullList")

\* A notification goes to its listener.
ReadNotification ==
  /\ Receive({"NOTIFY"})
  /\ LET l == notificationMap[Back(Head(toClient).list)]
     IN  /\ l # NULL
         /\ heard' = [heard EXCEPT ![l] = @ + 1]
  /\ UNCHANGED <<requestVars, notificationMap, listening, errors, toDevice, crash>>

\* Whatever fits nothing is reported to errorHandler.
Unexpected(pdu) ==
  \/ pdu.kind \in AnswerKinds /\ SlotFree
  \/ pdu.kind = "ERROR" /\ ~ErrorIsForCurrent(pdu)
  \/ pdu.kind = "NOTIFY" /\ notificationMap[Back(pdu.list)] = NULL

ReadUnexpected ==
  /\ Receive({"RESPONSE", "ERROR", "NOTIFY", "OTHER"})
  /\ Unexpected(Head(toClient))
  /\ errors' = errors + 1
  /\ UNCHANGED <<requestVars, listenerVars, toDevice, crash>>

----------------------------------------------------------------------------
(* handleRead with an error: the current request is called back with       *)
(* status 0, no buffer and the error.                                      *)

LinkBroken == crash = "none" /\ link = "lost" /\ toClient = <<>>

\* The handlers that look at the error, and findByTypeValue's, which parses
\* nothing from the empty buffer and goes on with the list it has.
BreakPending ==
  /\ LinkBroken
  /\ ~SlotFree
  /\ link' = "down"
  /\ \/ Single(currentRequest, <<>>, "link")
     \/ call[currentRequest].op = "FIND_BY_TYPE" /\ Accumulate(currentRequest, <<>>, "link")
  /\ UNCHANGED <<listenerVars, errors, toClient, pushes>>

\* No request is pending: currentRequest->callback.
BreakIdle ==
  /\ LinkBroken
  /\ SlotFree
  /\ Die("nullRequest")

\* parseAttributeList and parseGroupAttributeDataList read the NULL buffer.
BreakParsing ==
  /\ LinkBroken
  /\ ~SlotFree
  /\ call[currentRequest].op \in PagedOps \ {"FIND_BY_TYPE"}
  /\ Die("nullBuffer")

BreakFirstPage ==
  /\ LinkBroken
  /\ ~SlotFree
  /\ call[currentRequest].op = "FIND_BY_TYPE"
  /\ Extended(currentRequest, <<>>) = <<>>
  /\ Die("emptyBack")

\* Peripheral::Close: the stream is closed and nothing is read from then on;
\* the pending request is not called back.
Close ==
  /\ crash = "none"
  /\ link # "closed"
  /\ link' = "closed"
  /\ toDevice' = <<>>
  /\ toClient' = <<>>
  /\ UNCHANGED <<requestVars, listenerVars, errors, pushes, crash>>

----------------------------------------------------------------------------
(* The device and the link                                                 *)

\* The answers a device may give to req: it refuses an ill-formed range, may
\* refuse any request, and otherwise reports what it has.
Answers(req) ==
  LET M == Matches(req.op, req.start, req.end)
  IN  {ErrorPdu(req.op, "OTHER")} \cup
      (IF req.start = 0 \/ req.end < req.start THEN {}
       ELSE IF req.op = "READ" THEN {Response("READ", <<h>>) : h \in M}
       ELSE IF M = {} THEN {ErrorPdu(req.op, "ATTR_NOT_FOUND")}
       ELSE {Response(req.op, page) : page \in Pages(M)})

DeviceAnswers ==
  /\ crash = "none"
  /\ link = "up"
  /\ toDevice # <<>>
  /\ \E pdu \in Answers(Head(toDevice)) : toClient' = Append(toClient, pdu)
  /\ toDevice' = Tail(toDevice)
  /\ UNCHANGED <<requestVars, listenerVars, errors, link, pushes, crash>>

\* A notification, or an opcode that answers nothing: an indication, a
\* request of the device's own, a response that comes twice.
DevicePushes ==
  /\ crash = "none"
  /\ link = "up"
  /\ pushes < MaxPushes
  /\ pushes' = pushes + 1
  /\ \E kind \in PushKinds, h \in Handle :
       \/ toClient' = Append(toClient, Pushed(kind, <<h>>))
       \/ kind = "OTHER" /\ toClient' = Append(toClient, Pushed(kind, <<>>))
  /\ UNCHANGED <<requestVars, listenerVars, errors, toDevice, link, crash>>

LinkLost ==
  /\ crash = "none"
  /\ link = "up"
  /\ link' = "lost"
  /\ toDevice' = <<>>
  /\ UNCHANGED <<requestVars, listenerVars, errors, toClient, pushes, crash>>

----------------------------------------------------------------------------

Program ==
  \/ \E c \in CallId, ask \in Asks :
       Issue(c, ask[1], ask[2], ask[3]) \/ Busy(c, ask[1], ask[2], ask[3])
  \/ \E l \in Listener, h \in Handle : Listen(l, h)
  \/ Close

ReadPdu ==
  ReadAnswer \/ ReadEmptyPage \/ ReadError \/ ReadNothingFound \/ ReadNotification
    \/ ReadUnexpected

ReadBreak == BreakPending \/ BreakIdle \/ BreakParsing \/ BreakFirstPage

Next == Program \/ ReadPdu \/ ReadBreak \/ DeviceAnswers \/ DevicePushes \/ LinkLost

\* The event loop reads what has arrived; a device answers while it is there.
Fairness == WF_vars(ReadPdu) /\ WF_vars(ReadBreak) /\ WF_vars(DeviceAnswers)

Spec == Init /\ [][Next]_vars /\ Fairness

----------------------------------------------------------------------------
(* Properties                                                              *)

\* The call that waits is the one that holds the slot of outstanding requests
\* (Att::currentRequest): no call is forgotten, none is called back late.
PendingIsCurrent == \A c \in CallId : call[c].result = "pending" <=> currentRequest = c

\* A cached list belongs to the outstanding request and still lacks its end:
\* no request ever starts with handles an earlier one has left behind.
ListBelongsToRequest ==
  \A op \in PagedOps : lists[op] # <<>> =>
    /\ currentRequest # NULL
    /\ call[currentRequest].op = op
    /\ Back(lists[op]) < call[currentRequest].end

\* Answers under way, for requests the client wrote.
Answering == {i \in DOMAIN toClient : toClient[i].kind \in {"RESPONSE", "ERROR"}}

\* ATT is sequential: at most one exchange is on the wire, and on a live link
\* there is one exactly while a request is outstanding.  (The device pushes
\* nothing that could be mistaken for an answer.)
OneExchangeOnWire ==
  /\ Len(toDevice) <= 1
  /\ toDevice # <<>> => Answering = {}
  /\ \A i, j \in Answering : i = j
  /\ link = "up" =>
       (currentRequest # NULL <=> (toDevice # <<>> \/ Answering # {}))

\* A call that succeeds delivers, in order and once each, exactly what the
\* device has in the range it asked for, over however many pages it came.
ResultIsComplete ==
  \A c \in CallId : call[c].result = "ok" =>
    Delivers(call[c].op, call[c].start, call[c].end, call[c].list)

\* With a device that keeps to the protocol the process dies only when the
\* link breaks (while idle or in a paged request), or when a paged request
\* finds nothing at all.
DeathIsExplained ==
  crash # "none" =>
    \/ link = "lost" /\ currentRequest = NULL
    \/ /\ currentRequest # NULL
       /\ call[currentRequest].op \in PagedOps
       /\ \/ link = "lost"
          \/ Matches(call[currentRequest].op, call[currentRequest].start,
                     call[currentRequest].end) = {}

\* The listener of a handle is the first that was registered for it: one that
\* is registered later is accepted without a word and never called.
OnlyFirstHears ==
  \A i, j \in DOMAIN listening :
    i < j /\ listening[i][2] = listening[j][2] => heard[listening[j][1]] = 0

\* What was called back is final: no call is answered twice, nor a refused one.
AnswersAreFinal ==
  [][\A c \in CallId : call[c].result \notin {"unused", "pending"}
                         => call'[c] = call[c]]_vars

\* While the link is up every accepted call is called back, unless the
\* process dies of it.
EventuallyAnswered ==
  \A c \in CallId :
    call[c].result = "pending"
      ~> call[c].result # "pending" \/ crash # "none" \/ link \in {"down", "closed"}

\* A read error that finds the client idle does not kill the process.
SurvivesIdleBreak == crash # "nullRequest"

\* The client keeps the promise of AttRequests.
Promise == INSTANCE AttRequests WITH dead <- crash # "none"

KeepsPromise == Promise!AbsSpec

=============================================================================
