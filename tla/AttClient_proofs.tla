-------------------------- MODULE AttClient_proofs --------------------------
(***************************************************************************)
(* Theorems about AttClient, for every number of calls and listeners,      *)
(* every handle space, page size and device.                               *)
(***************************************************************************)
EXTENDS AttClient, SequenceTheorems, TLAPS

----------------------------------------------------------------------------
(* Lemmas about the vocabulary of Att                                      *)

\* A page is a list of handles of M, and not an empty one.
LEMMA PageIsList ==
  ASSUME NEW M \in SUBSET (1 .. MaxHandle), NEW page \in Pages(M)
  PROVE  page \in Seq(Handle) /\ page # <<>>
<1>1. PICK n \in 1 .. PageMax : page \in [1 .. n -> M]
  BY DEF Pages
<1>2. n \in Nat /\ n # 0
  BY AttAssumption
<1>3. page \in Seq(M)
  BY <1>1, <1>2, SeqDef
<1>4. page \in Seq(Handle)
  <2>1. M \subseteq Handle
    BY AttAssumption DEF Handle
  <2> QED  BY <1>3, <2>1, SeqMonotonic
<1>5. DOMAIN page = 1 .. n
  BY <1>1
<1>6. page # <<>>
  BY <1>5, <1>2
<1> QED  BY <1>4, <1>6

\* The last element of a list that is not empty is one of its handles.
LEMMA BackIsHandle ==
  ASSUME NEW list \in Seq(Handle), list # <<>>
  PROVE  Back(list) \in Handle
<1>1. Len(list) \in Nat \ {0}
  BY EmptySeq
<1>2. Len(list) \in 1 .. Len(list)
  BY <1>1
<1> QED  BY <1>2, ElementOfSeq DEF Back

\* While there is more to get the follow-up's start handle does not wrap.
LEMMA NextStartIsNext ==
  ASSUME NEW list \in Seq(Handle), list # <<>>, NEW end \in Handle, MoreToGet(list, end)
  PROVE  NextStart(list) = Back(list) + 1 /\ NextStart(list) \in Handle
<1>1. Back(list) \in Nat /\ MaxHandle \in Nat /\ Back(list) + 1 <= MaxHandle
  BY BackIsHandle, AttAssumption DEF MoreToGet, Handle
<1>2. \A x, y \in Nat : x < y => x % y = x
  OBVIOUS
<1>3. (Back(list) + 1) % (MaxHandle + 1) = Back(list) + 1
  BY <1>1, <1>2
<1> QED  BY <1>1, <1>3 DEF NextStart, Handle

----------------------------------------------------------------------------
(* Type correctness                                                        *)

\* The requests written are well formed.
LEMMA WrittenIsRequests ==
  ASSUME toDevice \in Seq(Requests), NEW op \in Ops, NEW s \in Handle, NEW e \in Handle
  PROVE  Written(op, s, e) \in Seq(Requests)
<1> DEFINE req == [op |-> op, start |-> s, end |-> e]
<1>1. req \in Requests
  BY DEF Requests
<1>2. Append(toDevice, req) \in Seq(Requests)
  BY <1>1
<1> QED  BY <1>2 DEF Written

\* A cached list extended by a page is a list of handles.
LEMMA ExtendedIsList ==
  ASSUME TypeOK, NEW c \in CallId, call[c].op \in PagedOps, NEW page \in Seq(Handle)
  PROVE  Extended(c, page) \in Seq(Handle)
<1>1. lists[call[c].op] \in Seq(Handle)
  BY DEF TypeOK
<1> QED  BY <1>1, ConcatProperties DEF Extended

\* What a request's end, or its continuation, does to the variables it writes.
RequestTypeOK ==
  /\ call \in [CallId -> Calls]
  /\ currentRequest \in CallId \cup {NULL}
  /\ lists \in [PagedOps -> Seq(Handle)]
  /\ toDevice \in Seq(Requests)
  /\ crash \in {"none"} \cup Causes

LEMMA FinishTypeOK ==
  ASSUME TypeOK, NEW c \in CallId, NEW result \in Results, NEW list \in Seq(Handle),
         Finish(c, result, list)
  PROVE  RequestTypeOK'
<1>1. call' \in [CallId -> Calls]
  <2>1. call \in [CallId -> Calls] /\ call[c] \in Calls
    BY DEF TypeOK
  <2>2. [call[c] EXCEPT !.result = result, !.list = list] \in Calls
    BY <2>1 DEF Calls
  <2>3. call' = [call EXCEPT ![c] = [call[c] EXCEPT !.result = result, !.list = list]]
    BY <2>1 DEF Finish
  <2> QED
    BY <2>1, <2>2, <2>3
<1>2. lists' \in [PagedOps -> Seq(Handle)]
  <2>1. <<>> \in Seq(Handle)
    BY EmptySeq
  <2> QED  BY <2>1 DEF Finish, Dropped, TypeOK
<1> QED  BY <1>1, <1>2 DEF Finish, TypeOK, RequestTypeOK

LEMMA AccumulateTypeOK ==
  ASSUME TypeOK, NEW c \in CallId, NEW page \in Seq(Handle), NEW error \in Results,
         Accumulate(c, page, error)
  PROVE  RequestTypeOK'
<1> DEFINE list == Extended(c, page)
<1>1. call[c].op \in PagedOps /\ list # <<>>
  BY DEF Accumulate
<1>2. list \in Seq(Handle)
  BY <1>1, ExtendedIsList
<1>3. CASE MoreToGet(list, call[c].end) /\ FollowUp(c, list)
  <2>1. call[c].op \in Ops /\ call[c].end \in Handle
    BY DEF TypeOK, Calls
  <2>2. NextStart(list) \in Handle
    BY <1>1, <1>2, <1>3, <2>1, NextStartIsNext
  <2>3. toDevice' \in Seq(Requests)
    BY <1>3, <2>1, <2>2, WrittenIsRequests DEF FollowUp, TypeOK
  <2> QED  BY <1>2, <1>3, <2>3 DEF FollowUp, TypeOK, RequestTypeOK
<1>4. CASE Finish(c, error, list)
  BY <1>2, <1>4, FinishTypeOK
<1> QED  BY <1>3, <1>4 DEF Accumulate

\* A PDU that has been read was a PDU.
LEMMA HeadIsPdu ==
  ASSUME toClient \in Seq(Pdus), toClient # <<>>
  PROVE  /\ Head(toClient) \in Pdus
         /\ Tail(toClient) \in Seq(Pdus)
BY HeadTailProperties

\* Every answer of a device is a PDU.
LEMMA AnswerIsPdu ==
  ASSUME NEW req \in Requests, NEW pdu \in Answers(req)
  PROVE  pdu \in Pdus
<1> DEFINE M == Matches(req.op, req.start, req.end)
<1>1. req.op \in Ops /\ req.start \in Handle /\ req.end \in Handle
  BY DEF Requests
<1>2. M \in SUBSET (1 .. MaxHandle)
  BY <1>1, AttAssumption DEF Matches
<1>3. \A code \in Codes : ErrorPdu(req.op, code) \in Pdus
  <2>1. <<>> \in Seq(Handle)
    BY EmptySeq
  <2> QED  BY <1>1, <2>1 DEF ErrorPdu, Pdus
<1>4. \A list \in Seq(Handle) : Response(req.op, list) \in Pdus
  BY <1>1 DEF Response, Pdus, Codes
<1>5. \A page \in Pages(M) : Response(req.op, page) \in Pdus
  BY <1>2, <1>4, PageIsList
<1>6. \A h \in M : Response(req.op, <<h>>) \in Pdus
  <2>1. \A h \in M : h \in Handle
    BY <1>2, AttAssumption DEF Handle
  <2>2. \A h \in Handle : <<h>> \in Seq(Handle)
    OBVIOUS
  <2> QED  BY <1>4, <2>1, <2>2
<1>7. CASE pdu = ErrorPdu(req.op, "OTHER") \/ pdu = ErrorPdu(req.op, "ATTR_NOT_FOUND")
  BY <1>3, <1>7 DEF Codes
<1>8. CASE req.op = "READ" /\ \E h \in M : pdu = Response("READ", <<h>>)
  BY <1>6, <1>8
<1>9. CASE \E page \in Pages(M) : pdu = Response(req.op, page)
  BY <1>5, <1>9
<1> QED  BY <1>7, <1>8, <1>9 DEF Answers

\* The initial state is well typed.
LEMMA InitTypeOK == Init => TypeOK
<1> SUFFICES ASSUME Init PROVE TypeOK
  OBVIOUS
<1>1. <<>> \in Seq(Handle) /\ <<>> \in Seq(Requests) /\ <<>> \in Seq(Pdus)
  BY EmptySeq
<1>2. 0 \in Handle /\ 0 \in 0 .. MaxPushes
  BY AttAssumption, ClientAssumption DEF Handle
<1>3. call \in [CallId -> Calls]
  BY <1>1, <1>2 DEF Init, Calls, Ops, Results
<1> QED  BY <1>1, <1>2, <1>3 DEF Init, TypeOK

\* Every step keeps the types.
LEMMA StepTypeOK == TypeOK /\ [Next]_vars => TypeOK'
<1> SUFFICES ASSUME TypeOK, [Next]_vars PROVE TypeOK'
  OBVIOUS
<1> USE DEF requestVars, listenerVars
<1>1. ASSUME NEW c \in CallId, NEW ask \in Asks, Issue(c, ask[1], ask[2], ask[3])
      PROVE  TypeOK'
  <2>1. ask[1] \in Ops /\ ask[2] \in Handle /\ ask[3] \in Handle
    BY ClientAssumption
  <2>2. <<>> \in Seq(Handle)
    BY EmptySeq
  <2>3. call' \in [CallId -> Calls]
    BY <1>1, <2>1, <2>2 DEF Issue, Made, TypeOK, Calls, Results
  <2>4. toDevice' \in Seq(Requests)
    BY <1>1, <2>1, WrittenIsRequests DEF Issue, TypeOK
  <2> QED  BY <1>1, <2>3, <2>4 DEF Issue, TypeOK
<1>2. ASSUME NEW c \in CallId, NEW ask \in Asks, Busy(c, ask[1], ask[2], ask[3])
      PROVE  TypeOK'
  <2>1. ask[1] \in Ops /\ ask[2] \in Handle /\ ask[3] \in Handle
    BY ClientAssumption
  <2>2. <<>> \in Seq(Handle)
    BY EmptySeq
  <2>3. call' \in [CallId -> Calls]
    BY <1>2, <2>1, <2>2 DEF Busy, Made, TypeOK, Calls, Results
  <2> QED  BY <1>2, <2>3 DEF Busy, TypeOK
<1>3. ASSUME NEW l \in Listener, NEW h \in Handle, Listen(l, h)
      PROVE  TypeOK'
  <2>1. listening' \in Seq(Listener \X Handle)
    BY <1>3, AppendProperties DEF Listen, TypeOK
  <2> QED  BY <1>3, <2>1 DEF Listen, Inserted, TypeOK
<1>4. CASE Close
  <2>1. <<>> \in Seq(Requests) /\ <<>> \in Seq(Pdus)
    BY EmptySeq
  <2> QED  BY <1>4, <2>1 DEF Close, TypeOK
<1>5. ASSUME NEW cause \in Causes, Die(cause)
      PROVE  TypeOK'
  BY <1>5 DEF Die, TypeOK
<1>6. CASE ReadAnswer
  <2>1. currentRequest \in CallId
    BY <1>6 DEF ReadAnswer, SlotFree, TypeOK
  <2>2. Head(toClient) \in Pdus /\ Tail(toClient) \in Seq(Pdus)
    BY <1>6, HeadIsPdu DEF ReadAnswer, Receive, CanRead, TypeOK
  <2>3. Head(toClient).list \in Seq(Handle) /\ "ok" \in Results
    BY <2>2 DEF Pdus, Results
  <2>4. RequestTypeOK'
    <3>1. CASE Accumulate(currentRequest, Head(toClient).list, "ok")
      BY <2>1, <2>3, <3>1, AccumulateTypeOK
    <3>2. CASE Single(currentRequest, Head(toClient).list, "ok")
      BY <2>1, <2>3, <3>2, FinishTypeOK DEF Single
    <3> QED  BY <1>6, <3>1, <3>2 DEF ReadAnswer
  <2> QED  BY <1>6, <2>2, <2>4 DEF ReadAnswer, Receive, TypeOK, RequestTypeOK
<1>7. CASE ReadError
  <2>1. currentRequest \in CallId
    BY <1>7 DEF ReadError, ErrorIsForCurrent, SlotFree, TypeOK
  <2>2. Head(toClient) \in Pdus /\ Tail(toClient) \in Seq(Pdus)
    BY <1>7, HeadIsPdu DEF ReadError, Receive, CanRead, TypeOK
  <2>3. Head(toClient).code \in Results /\ {"ok", "noMatch"} \subseteq Results
    BY <2>2 DEF Pdus, Results, Errors
  <2>4. <<>> \in Seq(Handle)
    BY EmptySeq
  <2>5. RequestTypeOK'
    <3>1. CASE EndOfList(currentRequest)
      <4>1. call[currentRequest].op \in PagedOps
        BY <3>1 DEF EndOfList
      <4>2. lists[call[currentRequest].op] \in Seq(Handle)
        BY <4>1 DEF TypeOK
      <4> QED  BY <2>1, <2>3, <2>4, <3>1, <4>2, FinishTypeOK DEF EndOfList
    <3>2. CASE Failure(currentRequest, Head(toClient).code)
      BY <2>1, <2>3, <2>4, <3>2, FinishTypeOK DEF Failure
    <3> QED  BY <1>7, <3>1, <3>2 DEF ReadError
  <2> QED  BY <1>7, <2>2, <2>5 DEF ReadError, Receive, TypeOK, RequestTypeOK
<1>8. CASE ReadNotification
  <2>1. Tail(toClient) \in Seq(Pdus)
    BY <1>8, HeadIsPdu DEF ReadNotification, Receive, CanRead, TypeOK
  <2>2. heard' \in [Listener -> Nat]
    <3> DEFINE l == notificationMap[Back(Head(toClient).list)]
    <3>1. heard' = [heard EXCEPT ![l] = heard[l] + 1]
      BY <1>8 DEF ReadNotification
    <3>2. \A k \in Listener : heard[k] \in Nat /\ heard[k] + 1 \in Nat
      BY DEF TypeOK
    <3> HIDE DEF l
    <3> QED  BY <3>1, <3>2 DEF TypeOK
  <2> QED  BY <1>8, <2>1, <2>2 DEF ReadNotification, Receive, TypeOK
<1>9. CASE ReadUnexpected
  <2>1. Tail(toClient) \in Seq(Pdus)
    BY <1>9, HeadIsPdu DEF ReadUnexpected, Receive, CanRead, TypeOK
  <2> QED  BY <1>9, <2>1 DEF ReadUnexpected, Receive, TypeOK
<1>10. CASE BreakPending
  <2>1. currentRequest \in CallId
    BY <1>10 DEF BreakPending, SlotFree, TypeOK
  <2>2. <<>> \in Seq(Handle) /\ "link" \in Results
    BY EmptySeq DEF Results, Errors
  <2>3. RequestTypeOK'
    <3>1. CASE Accumulate(currentRequest, <<>>, "link")
      BY <2>1, <2>2, <3>1, AccumulateTypeOK
    <3>2. CASE Single(currentRequest, <<>>, "link")
      BY <2>1, <2>2, <3>2, FinishTypeOK DEF Single
    <3> QED  BY <1>10, <3>1, <3>2 DEF BreakPending
  <2> QED  BY <1>10, <2>3 DEF BreakPending, TypeOK, RequestTypeOK
<1>11. CASE DeviceAnswers
  <2>1. Head(toDevice) \in Requests /\ Tail(toDevice) \in Seq(Requests)
    BY <1>11, HeadTailProperties DEF DeviceAnswers, TypeOK
  <2>2. toClient' \in Seq(Pdus)
    BY <1>11, <2>1, AnswerIsPdu, AppendProperties DEF DeviceAnswers, TypeOK
  <2> QED  BY <1>11, <2>1, <2>2 DEF DeviceAnswers, TypeOK
<1>12. CASE DevicePushes
  <2>1. \A h \in Handle : <<h>> \in Seq(Handle)
    OBVIOUS
  <2>2. <<>> \in Seq(Handle)
    BY EmptySeq
  <2>3. \A kind \in PushKinds, list \in Seq(Handle) : Pushed(kind, list) \in Pdus
    BY ClientAssumption DEF Pushed, Pdus, Ops, Codes
  <2>4. toClient' \in Seq(Pdus)
    <3>1. PICK kind \in PushKinds, list \in Seq(Handle) :
            toClient' = Append(toClient, Pushed(kind, list))
      BY <1>12, <2>1, <2>2 DEF DevicePushes
    <3>2. Pushed(kind, list) \in Pdus
      BY <2>3
    <3> QED  BY <3>1, <3>2, AppendProperties DEF TypeOK
  <2>5. pushes' \in 0 .. MaxPushes
    BY <1>12, ClientAssumption DEF DevicePushes, TypeOK
  <2> QED  BY <1>12, <2>4, <2>5 DEF DevicePushes, TypeOK
<1>13. CASE LinkLost
  <2>1. <<>> \in Seq(Requests)
    BY EmptySeq
  <2> QED  BY <1>13, <2>1 DEF LinkLost, TypeOK
<1>14. CASE UNCHANGED vars
  BY <1>14 DEF vars, TypeOK
<1>15. CASE ReadEmptyPage \/ ReadNothingFound \/ BreakIdle \/ BreakParsing \/ BreakFirstPage
  BY <1>5, <1>15 DEF ReadEmptyPage, ReadNothingFound, BreakIdle, BreakParsing,
                     BreakFirstPage, Causes
<1> QED
  BY <1>1, <1>2, <1>3, <1>4, <1>6, <1>7, <1>8, <1>9, <1>10, <1>11, <1>12, <1>13, <1>14, <1>15
  DEF Next, Program, ReadPdu, ReadBreak

\* Every state of the client is well typed (the state of src/src/att.h, the
\* queues of PDUs and the life of the link).
THEOREM TypeCorrect == Spec => []TypeOK
BY InitTypeOK, StepTypeOK, PTL DEF Spec

----------------------------------------------------------------------------
(* The slot of the outstanding request and the cached lists                *)

\* The invariant: a cached list is tied to the request in the slot, and the
\* slot to the one call that waits; neither is inductive without the types,
\* and the lists' part needs that an empty slot leaves every list empty.
SlotInv == TypeOK /\ PendingIsCurrent /\ ListBelongsToRequest

\* What the slot, the lists and the calls keep over a step.
SlotKept ==
  /\ PendingIsCurrent'
  /\ ListBelongsToRequest'
  /\ \A c \in CallId : call[c].result \notin {"unused", "pending"} => call'[c] = call[c]

Ends == Results \ {"unused", "pending"}

LEMMA FinishKeepsSlot ==
  ASSUME SlotInv, NEW c \in CallId, currentRequest = c, NEW result \in Ends,
         NEW list, Finish(c, result, list)
  PROVE  SlotKept
<1> USE DEF SlotInv
<1>1. call[c].result = "pending"
  BY DEF PendingIsCurrent
<1>2. /\ call' = [call EXCEPT ![c].result = result, ![c].list = list]
      /\ currentRequest' = NULL
  BY DEF Finish
<1>3. /\ call'[c].result = result
      /\ \A d \in CallId : d # c => call'[d] = call[d]
  BY <1>2 DEF TypeOK, Calls
<1>4. result # "pending"
  BY DEF Ends
<1>5. PendingIsCurrent'
  BY <1>2, <1>3, <1>4, ClientAssumption DEF PendingIsCurrent
<1>6. \A op \in PagedOps : lists'[op] = <<>>
  <2>1. \A op \in PagedOps : op # call[c].op => lists[op] = <<>>
    BY DEF ListBelongsToRequest
  <2>2. CASE call[c].op \in PagedOps
    BY <2>1, <2>2 DEF Finish, Dropped, TypeOK
  <2>3. CASE call[c].op \notin PagedOps
    BY <2>1, <2>3 DEF Finish
  <2> QED  BY <2>2, <2>3
<1>7. ListBelongsToRequest'
  BY <1>6 DEF ListBelongsToRequest
<1> QED  BY <1>1, <1>3, <1>5, <1>7 DEF SlotKept

LEMMA AccumulateKeepsSlot ==
  ASSUME SlotInv, NEW c \in CallId, currentRequest = c, NEW error \in Ends,
         NEW page \in Seq(Handle), Accumulate(c, page, error)
  PROVE  SlotKept
<1> DEFINE list == Extended(c, page)
<1> USE DEF SlotInv
<1>1. CASE MoreToGet(list, call[c].end) /\ FollowUp(c, list)
  <2>1. UNCHANGED <<call, currentRequest>> /\ lists' = [lists EXCEPT ![call[c].op] = list]
    BY <1>1 DEF FollowUp
  <2>2. call[c].op \in PagedOps
    BY DEF Accumulate
  <2>3. \A op \in PagedOps : op # call[c].op => lists'[op] = <<>>
    BY <2>1, <2>2 DEF ListBelongsToRequest, TypeOK
  <2>4. lists'[call[c].op] = list
    BY <2>1, <2>2 DEF TypeOK
  <2>5. ListBelongsToRequest'
    BY <1>1, <2>1, <2>3, <2>4, ClientAssumption DEF ListBelongsToRequest, MoreToGet
  <2> QED  BY <2>1, <2>5 DEF SlotKept, PendingIsCurrent
<1>2. CASE Finish(c, error, list)
  BY <1>2, FinishKeepsSlot
<1> QED  BY <1>1, <1>2 DEF Accumulate

\* Every step keeps the slot, and what was called back.
LEMMA StepKeepsSlot == SlotInv /\ [Next]_vars => SlotKept
<1> SUFFICES ASSUME SlotInv, [Next]_vars PROVE SlotKept
  OBVIOUS
<1> USE DEF requestVars, SlotInv
<1>1. ASSUME NEW c \in CallId, NEW ask \in Asks, Issue(c, ask[1], ask[2], ask[3])
      PROVE  SlotKept
  <2>1. \A op \in PagedOps : lists[op] = <<>>
    BY <1>1 DEF Issue, SlotFree, ListBelongsToRequest
  <2>2. ListBelongsToRequest'
    BY <1>1, <2>1 DEF Issue, ListBelongsToRequest
  <2>3. /\ call'[c].result = "pending"
        /\ \A d \in CallId : d # c => call'[d] = call[d]
    BY <1>1 DEF Issue, Made, TypeOK
  <2>4. PendingIsCurrent'
    BY <1>1, <2>3, ClientAssumption DEF Issue, SlotFree, PendingIsCurrent
  <2> QED  BY <1>1, <2>2, <2>3, <2>4 DEF Issue, SlotKept
<1>2. ASSUME NEW c \in CallId, NEW ask \in Asks, Busy(c, ask[1], ask[2], ask[3])
      PROVE  SlotKept
  <2>1. /\ call'[c].result = "busy"
        /\ \A d \in CallId : d # c => call'[d] = call[d]
    BY <1>2 DEF Busy, Made, TypeOK
  <2>2. currentRequest # c
    BY <1>2 DEF Busy, PendingIsCurrent
  <2>3. ListBelongsToRequest'
    BY <1>2, <2>1, <2>2 DEF Busy, ListBelongsToRequest, TypeOK
  <2>4. PendingIsCurrent'
    BY <1>2, <2>1, <2>2 DEF Busy, PendingIsCurrent
  <2> QED  BY <1>2, <2>1, <2>3, <2>4 DEF Busy, SlotKept
<1>3. CASE ReadAnswer
  <2>1. currentRequest \in CallId /\ "ok" \in Ends
    BY <1>3 DEF ReadAnswer, SlotFree, TypeOK, Ends, Results
  <2>2. Head(toClient).list \in Seq(Handle)
    BY <1>3, HeadIsPdu DEF ReadAnswer, Receive, CanRead, TypeOK, Pdus
  <2>3. CASE Accumulate(currentRequest, Head(toClient).list, "ok")
    BY <2>1, <2>2, <2>3, AccumulateKeepsSlot
  <2>4. CASE Single(currentRequest, Head(toClient).list, "ok")
    BY <2>1, <2>2, <2>4, FinishKeepsSlot DEF Single
  <2> QED  BY <1>3, <2>3, <2>4 DEF ReadAnswer
<1>4. CASE ReadError
  <2>1. currentRequest \in CallId
    BY <1>4 DEF ReadError, ErrorIsForCurrent, SlotFree, TypeOK
  <2>2. Head(toClient).code \in Ends /\ {"ok", "noMatch"} \subseteq Ends
    <3>1. Head(toClient).code \in Codes
      BY <1>4, HeadIsPdu DEF ReadError, Receive, CanRead, TypeOK, Pdus
    <3> QED  BY <3>1 DEF Ends, Results, Errors, Codes
  <2>3. CASE EndOfList(currentRequest)
    BY <2>1, <2>2, <2>3, FinishKeepsSlot DEF EndOfList
  <2>4. CASE Failure(currentRequest, Head(toClient).code)
    BY <2>1, <2>2, <2>4, FinishKeepsSlot DEF Failure
  <2> QED  BY <1>4, <2>3, <2>4 DEF ReadError
<1>5. CASE BreakPending
  <2>1. currentRequest \in CallId /\ "link" \in Ends /\ <<>> \in Seq(Handle)
    BY <1>5, EmptySeq DEF BreakPending, SlotFree, TypeOK, Ends, Results, Errors
  <2>2. CASE Accumulate(currentRequest, <<>>, "link")
    BY <2>1, <2>2, AccumulateKeepsSlot
  <2>3. CASE Single(currentRequest, <<>>, "link")
    BY <2>1, <2>3, FinishKeepsSlot DEF Single
  <2> QED  BY <1>5, <2>2, <2>3 DEF BreakPending
<1>6. CASE UNCHANGED requestVars
  BY <1>6 DEF SlotKept, PendingIsCurrent, ListBelongsToRequest
<1>7. ASSUME NEW cause, Die(cause)
      PROVE  SlotKept
  BY <1>6, <1>7 DEF Die
<1>8. CASE ReadEmptyPage \/ ReadNothingFound \/ BreakIdle \/ BreakParsing \/ BreakFirstPage
  BY <1>7, <1>8 DEF ReadEmptyPage, ReadNothingFound, BreakIdle, BreakParsing, BreakFirstPage
<1>9. ASSUME NEW l \in Listener, NEW h \in Handle, Listen(l, h)
      PROVE  SlotKept
  BY <1>6, <1>9 DEF Listen
<1>10. CASE Close \/ ReadNotification \/ ReadUnexpected \/ DeviceAnswers \/ DevicePushes
              \/ LinkLost
  BY <1>6, <1>10 DEF Close, ReadNotification, ReadUnexpected, DeviceAnswers, DevicePushes,
                     LinkLost
<1>11. CASE UNCHANGED vars
  BY <1>6, <1>11 DEF vars
<1> QED
  BY <1>1, <1>2, <1>3, <1>4, <1>5, <1>8, <1>9, <1>10, <1>11
  DEF Next, Program, ReadPdu, ReadBreak

LEMMA InitSlotInv == Init => SlotInv
<1>1. Init => PendingIsCurrent
  BY ClientAssumption DEF Init, PendingIsCurrent
<1>2. Init => ListBelongsToRequest
  BY DEF Init, ListBelongsToRequest
<1> QED  BY <1>1, <1>2, InitTypeOK DEF SlotInv

LEMMA SlotInvariant == Spec => []SlotInv
<1>1. SlotInv /\ [Next]_vars => SlotInv'
  BY StepTypeOK, StepKeepsSlot DEF SlotInv, SlotKept
<1> QED  BY <1>1, InitSlotInv, PTL DEF Spec

\* The call in Att::currentRequest is the one call that waits, whatever the
\* device sends: no accepted call is forgotten.
THEOREM SlotHoldsThePendingCall == Spec => []PendingIsCurrent
BY SlotInvariant, PTL DEF SlotInv

\* The lists att.cc caches between pages never outlive their request.
THEOREM NoListLeftBehind == Spec => []ListBelongsToRequest
BY SlotInvariant, PTL DEF SlotInv

\* No callback of att.cc runs twice for one call.
THEOREM CalledBackOnce == Spec => AnswersAreFinal
<1>1. SlotInv /\ [Next]_vars =>
        [\A c \in CallId : call[c].result \notin {"unused", "pending"}
                             => call'[c] = call[c]]_vars
  BY StepKeepsSlot DEF SlotKept
<1> QED  BY <1>1, SlotInvariant, PTL DEF Spec, AnswersAreFinal

----------------------------------------------------------------------------
(* The listeners                                                           *)

\* A notification names the handle it is about.
NamedPdus == {pdu \in Pdus : pdu.kind = "NOTIFY" => pdu.list # <<>>}

\* What listening holds: l was registered for h, and nobody for h before it.
FirstFor(l, h) ==
  \E k \in DOMAIN listening :
    /\ listening[k] = <<l, h>>
    /\ \A i \in DOMAIN listening : i < k => listening[i][2] # h

\* The entry of a handle is the first that was registered for it: a handle with
\* a registration has an entry, no listener is registered twice, and whoever
\* was ever called is the entry of some handle.
ListenerInv ==
  /\ TypeOK
  /\ toClient \in Seq(NamedPdus)
  /\ \A i \in DOMAIN listening : notificationMap[listening[i][2]] # NULL
  /\ \A i, j \in DOMAIN listening : listening[i][1] = listening[j][1] => i = j
  /\ \A h \in Handle : notificationMap[h] # NULL => FirstFor(notificationMap[h], h)
  /\ \A l \in Listener : heard[l] > 0 => \E h \in Handle : notificationMap[h] = l

\* What a step keeps of it, with the types known.
ListenersKept ==
  /\ toClient' \in Seq(NamedPdus)
  /\ \A i \in DOMAIN listening' : notificationMap'[listening'[i][2]] # NULL
  /\ \A i, j \in DOMAIN listening' : listening'[i][1] = listening'[j][1] => i = j
  /\ \A h \in Handle : notificationMap'[h] # NULL => FirstFor(notificationMap[h], h)'
  /\ \A l \in Listener : heard'[l] > 0 => \E h \in Handle : notificationMap'[h] = l

\* Registering never takes a handle from the listener that has it.
LEMMA ListenKeepsListeners ==
  ASSUME ListenerInv, NEW l \in Listener, NEW h \in Handle, Listen(l, h)
  PROVE  ListenersKept
<1> DEFINE n == Len(listening) + 1
<1>1. /\ \A i \in DOMAIN listening : listening[i][1] # l
      /\ listening' = Append(listening, <<l, h>>)
      /\ notificationMap' = Inserted(l, h) /\ UNCHANGED <<heard, toClient>>
  BY DEF Listen
<1>2. /\ DOMAIN listening = 1 .. Len(listening) /\ Len(listening) \in Nat
      /\ DOMAIN listening' = DOMAIN listening \cup {n} /\ n \notin DOMAIN listening
      /\ listening'[n] = <<l, h>>
      /\ \A i \in DOMAIN listening : i < n /\ listening'[i] = listening[i]
  <2>1. listening \in Seq(Listener \X Handle) /\ <<l, h>> \in Listener \X Handle
    BY DEF ListenerInv, TypeOK
  <2>2. /\ DOMAIN listening = 1 .. Len(listening) /\ Len(listening) \in Nat
        /\ DOMAIN listening' = 1 .. n
        /\ \A i \in 1 .. Len(listening) : listening'[i] = listening[i]
        /\ listening'[n] = <<l, h>>
    BY <1>1, <2>1, AppendProperties, LenProperties
  <2> QED
    BY <2>2
<1>3. \A i \in DOMAIN listening : listening[i][2] \in Handle
  BY <1>2, ElementOfSeq DEF ListenerInv, TypeOK
<1>4. /\ \A g \in Handle : g # h => notificationMap'[g] = notificationMap[g]
      /\ notificationMap'[h] = IF notificationMap[h] = NULL THEN l ELSE notificationMap[h]
  BY <1>1 DEF Inserted, ListenerInv, TypeOK
<1> HIDE DEF n
<1>5. notificationMap'[h] # NULL
  BY <1>4, ClientAssumption
<1>6. \A i \in DOMAIN listening' : notificationMap'[listening'[i][2]] # NULL
  BY <1>2, <1>3, <1>4, <1>5 DEF ListenerInv
<1>7. \A i, j \in DOMAIN listening' : listening'[i][1] = listening'[j][1] => i = j
  BY <1>1, <1>2 DEF ListenerInv
<1>8. ASSUME NEW g \in Handle, notificationMap'[g] # NULL
      PROVE  FirstFor(notificationMap[g], g)'
  <2>1. CASE g = h /\ notificationMap[h] = NULL
    <3>1. \A i \in DOMAIN listening : listening'[i][2] # h
      BY <1>2, <2>1 DEF ListenerInv
    <3>2. notificationMap'[g] = l /\ listening'[n] = <<notificationMap'[g], g>>
      BY <1>2, <1>4, <2>1
    <3>3. n \in DOMAIN listening' /\ \A i \in DOMAIN listening' : i < n => listening'[i][2] # g
      BY <1>2, <2>1, <3>1 DEF n
    <3> QED
      BY <3>2, <3>3 DEF FirstFor
  <2>2. CASE ~(g = h /\ notificationMap[h] = NULL)
    <3>1. notificationMap'[g] = notificationMap[g] /\ FirstFor(notificationMap[g], g)
      BY <1>4, <1>8, <2>2 DEF ListenerInv
    <3>2. PICK k \in DOMAIN listening :
            /\ listening[k] = <<notificationMap[g], g>>
            /\ \A i \in DOMAIN listening : i < k => listening[i][2] # g
      BY <3>1 DEF FirstFor
    <3>3. \A i \in DOMAIN listening' : i < k => i \in DOMAIN listening
      BY <1>2 DEF n
    <3>4. k \in DOMAIN listening' /\ listening'[k] = <<notificationMap'[g], g>>
      BY <1>2, <3>1, <3>2
    <3>5. \A i \in DOMAIN listening' : i < k => listening'[i][2] # g
      BY <1>2, <3>2, <3>3
    <3> QED
      BY <3>4, <3>5 DEF FirstFor
  <2> QED
    BY <2>1, <2>2
<1>9. ASSUME NEW k \in Listener, heard'[k] > 0
      PROVE  \E g \in Handle : notificationMap'[g] = k
  <2>1. PICK g \in Handle : notificationMap[g] = k
    BY <1>1, <1>9 DEF ListenerInv
  <2> QED
    BY <1>4, <2>1, ClientAssumption
<1> QED
  BY <1>1, <1>6, <1>7, <1>8, <1>9 DEF ListenersKept, ListenerInv

\* What is read, and what is left to be read, names its handle.
LEMMA NamedTail ==
  ASSUME ListenerInv, toClient # <<>>
  PROVE  Head(toClient) \in NamedPdus /\ Tail(toClient) \in Seq(NamedPdus)
BY HeadTailProperties DEF ListenerInv

\* A notification is the business of the entry of its handle.
LEMMA NotificationKeepsListeners ==
  ASSUME ListenerInv, ReadNotification
  PROVE  ListenersKept
<1> DEFINE h == Back(Head(toClient).list)
<1> DEFINE l == notificationMap[h]
<1>1. /\ toClient # <<>> /\ toClient' = Tail(toClient) /\ Head(toClient).kind = "NOTIFY"
      /\ l # NULL /\ heard' = [heard EXCEPT ![l] = heard[l] + 1]
      /\ UNCHANGED <<notificationMap, listening>>
  BY DEF ReadNotification, Receive, CanRead
<1>2. h \in Handle
  <2>1. Head(toClient).list \in Seq(Handle) /\ Head(toClient).list # <<>>
    BY <1>1, NamedTail DEF NamedPdus, Pdus
  <2> QED
    BY <2>1, BackIsHandle
<1>3. toClient' \in Seq(NamedPdus)
  BY <1>1, NamedTail
<1> HIDE DEF h
<1>4. \A k \in Listener : k # l => heard'[k] = heard[k]
  BY <1>1 DEF ListenerInv, TypeOK
<1>5. \A k \in Listener : heard'[k] > 0 => \E g \in Handle : notificationMap'[g] = k
  BY <1>1, <1>2, <1>4 DEF ListenerInv
<1> QED
  BY <1>1, <1>3, <1>5 DEF ListenersKept, ListenerInv, FirstFor

\* What arrives from the device names its handle.
LEMMA ArrivalKeepsListeners ==
  ASSUME ListenerInv, DeviceAnswers \/ DevicePushes
  PROVE  ListenersKept
<1>1. UNCHANGED <<notificationMap, listening, heard>>
  BY DEF DeviceAnswers, DevicePushes, listenerVars
<1>2. CASE DeviceAnswers
  <2>1. Head(toDevice) \in Requests
    BY <1>2, HeadTailProperties DEF DeviceAnswers, ListenerInv, TypeOK
  <2>2. \A pdu \in Answers(Head(toDevice)) : pdu.kind # "NOTIFY"
    BY DEF Answers, Response, ErrorPdu
  <2>3. toClient' \in Seq(NamedPdus)
    <3>1. PICK pdu \in Answers(Head(toDevice)) : toClient' = Append(toClient, pdu)
      BY <1>2 DEF DeviceAnswers
    <3>2. pdu \in NamedPdus
      BY <2>1, <2>2, AnswerIsPdu DEF NamedPdus
    <3> QED
      BY <3>1, <3>2, AppendProperties DEF ListenerInv
  <2> QED
    BY <1>1, <2>3 DEF ListenersKept, ListenerInv, FirstFor
<1>3. CASE DevicePushes
  <2>1. PICK kind \in PushKinds, list \in Seq(Handle) :
          /\ toClient' = Append(toClient, Pushed(kind, list))
          /\ kind # "OTHER" => list # <<>>
    <3>1. PICK kind \in PushKinds, h \in Handle :
            \/ toClient' = Append(toClient, Pushed(kind, <<h>>))
            \/ kind = "OTHER" /\ toClient' = Append(toClient, Pushed(kind, <<>>))
      BY <1>3 DEF DevicePushes
    <3>2. <<h>> \in Seq(Handle) /\ <<h>> # <<>> /\ <<>> \in Seq(Handle)
      BY EmptySeq
    <3> QED
      BY <3>1, <3>2
  <2>2. Pushed(kind, list) \in NamedPdus
    BY <2>1, ClientAssumption DEF Pushed, NamedPdus, Pdus, Ops, Codes
  <2>3. toClient' \in Seq(NamedPdus)
    BY <2>1, <2>2, AppendProperties DEF ListenerInv
  <2> QED
    BY <1>1, <2>3 DEF ListenersKept, ListenerInv, FirstFor
<1> QED
  BY <1>2, <1>3

\* Every step keeps the entries and those who were called.
LEMMA StepKeepsListeners ==
  ASSUME ListenerInv, [Next]_vars
  PROVE  ListenersKept
<1> USE DEF listenerVars
<1>1. ASSUME toClient' \in Seq(NamedPdus), UNCHANGED listenerVars
      PROVE  ListenersKept
  BY <1>1 DEF ListenersKept, ListenerInv, FirstFor
<1>2. ASSUME NEW l \in Listener, NEW h \in Handle, Listen(l, h)
      PROVE  ListenersKept
  BY <1>2, ListenKeepsListeners
<1>3. CASE ReadNotification
  BY <1>3, NotificationKeepsListeners
<1>4. CASE DeviceAnswers \/ DevicePushes
  BY <1>4, ArrivalKeepsListeners
<1>5. CASE ReadAnswer \/ ReadError \/ ReadUnexpected
  BY <1>1, <1>5, NamedTail DEF ReadAnswer, ReadError, ReadUnexpected, Receive, CanRead
<1>6. CASE Close
  <2>1. <<>> \in Seq(NamedPdus)
    BY EmptySeq
  <2> QED
    BY <1>1, <1>6, <2>1 DEF Close
<1>7. CASE UNCHANGED <<toClient, listenerVars>>
  BY <1>1, <1>7 DEF ListenerInv
<1>8. ASSUME NEW c \in CallId, NEW ask \in Asks,
             Issue(c, ask[1], ask[2], ask[3]) \/ Busy(c, ask[1], ask[2], ask[3])
      PROVE  ListenersKept
  BY <1>7, <1>8 DEF Issue, Busy
<1>9. CASE BreakPending \/ LinkLost \/ UNCHANGED vars
  BY <1>7, <1>9 DEF BreakPending, LinkLost, vars
<1>10. ASSUME NEW cause, Die(cause)
       PROVE  ListenersKept
  BY <1>7, <1>10 DEF Die
<1>11. CASE ReadEmptyPage \/ ReadNothingFound \/ BreakIdle \/ BreakParsing \/ BreakFirstPage
  BY <1>10, <1>11 DEF ReadEmptyPage, ReadNothingFound, BreakIdle, BreakParsing, BreakFirstPage
<1> QED
  BY <1>2, <1>3, <1>4, <1>5, <1>6, <1>8, <1>9, <1>11 DEF Next, Program, ReadPdu, ReadBreak

LEMMA InitListenerInv == Init => ListenerInv
<1> SUFFICES ASSUME Init  PROVE ListenerInv
  OBVIOUS
<1>1. <<>> \in Seq(NamedPdus)
  BY EmptySeq
<1> QED
  BY <1>1, InitTypeOK DEF Init, ListenerInv

\* A listener registered for a handle that already has one is never called
\* (listenForNotifications keeps the entry that is there and reports nothing),
\* whatever the device sends and however many others are registered.
THEOREM FirstListenerOnly == Spec => []OnlyFirstHears
<1>1. ListenerInv /\ [Next]_vars => ListenerInv'
  BY StepTypeOK, StepKeepsListeners DEF ListenerInv, ListenersKept
<1>2. ListenerInv => OnlyFirstHears
  <2> SUFFICES ASSUME ListenerInv,
                      NEW i \in DOMAIN listening, NEW j \in DOMAIN listening,
                      i < j, listening[i][2] = listening[j][2],
                      heard[listening[j][1]] # 0
               PROVE  FALSE
    BY DEF OnlyFirstHears
  <2> DEFINE l == listening[j][1]
  <2>1. l \in Listener
    BY ElementOfSeq DEF ListenerInv, TypeOK
  <2>2. PICK h \in Handle : notificationMap[h] = l
    <3>1. heard[l] \in Nat /\ heard[l] # 0
      BY <2>1 DEF ListenerInv, TypeOK
    <3> QED
      BY <2>1, <3>1 DEF ListenerInv
  <2>3. notificationMap[h] # NULL
    BY <2>1, <2>2, ClientAssumption
  <2>4. PICK k \in DOMAIN listening :
          /\ listening[k] = <<l, h>>
          /\ \A m \in DOMAIN listening : m < k => listening[m][2] # h
    BY <2>2, <2>3 DEF ListenerInv, FirstFor
  <2>5. k = j
    BY <2>4 DEF ListenerInv
  <2> QED
    BY <2>4, <2>5
<1> QED
  BY <1>1, <1>2, InitListenerInv, PTL DEF Spec

=============================================================================
