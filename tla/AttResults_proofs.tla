------------------------- MODULE AttResults_proofs -------------------------
(***************************************************************************)
(* What the ATT client achieves with a device that pushes nothing          *)
(* (PushKinds = {}): there is one exchange at a time, results are          *)
(* complete, the ways the process may die are known, and the promise of    *)
(* AttRequests is kept.  All of it rests on one invariant: what is on the  *)
(* wire is the request that is outstanding, or an answer to it, and what   *)
(* is cached is the beginning of the answer.                               *)
(***************************************************************************)
EXTENDS AttClient_proofs

----------------------------------------------------------------------------
(* Beginnings of an answer                                                 *)

\* The list has, in order, what M has up to the list's last handle.
Beginning(list, M) ==
  /\ Ascending(list)
  /\ Elements(list) \subseteq M
  /\ \A h \in M : h <= Back(list) => h \in Elements(list)

\* What matches is a set of handles other than 0.
LEMMA MatchesAreHandles ==
  ASSUME NEW op \in Ops, NEW s, NEW e
  PROVE  Matches(op, s, e) \in SUBSET (1 .. MaxHandle)
BY AttAssumption DEF Matches

\* The last element of a list is one of its elements.
LEMMA BackIsElement ==
  ASSUME NEW list \in Seq(Handle), list # <<>>
  PROVE  Len(list) \in Nat \ {0} /\ Back(list) \in Elements(list)
BY EmptySeq DEF Back, Elements

\* A page of a device is a beginning of what the device has.
LEMMA PageIsBeginning ==
  ASSUME NEW M \in SUBSET (1 .. MaxHandle), NEW page \in Pages(M)
  PROVE  Beginning(page, M) /\ page \in Seq(Handle) /\ page # <<>>
<1>1. page \in Seq(Handle) /\ page # <<>>
  BY PageIsList
<1>2. Ascending(page) /\ \A h \in M : h < Back(page) => h \in Elements(page)
  BY DEF Pages
<1>3. Elements(page) \subseteq M
  BY DEF Pages, Elements
<1>4. Back(page) \in Elements(page) /\ Back(page) \in Nat
  BY <1>1, BackIsElement, BackIsHandle DEF Handle
<1>5. ASSUME NEW h \in M, h <= Back(page)  PROVE h \in Elements(page)
  <2>1. h \in Nat
    BY AttAssumption
  <2> QED
    BY <1>2, <1>4, <1>5, <2>1
<1> QED
  BY <1>1, <1>2, <1>3, <1>5 DEF Beginning

\* The elements and the end of a list with another behind it.
LEMMA ConcatElements ==
  ASSUME NEW list \in Seq(Handle), NEW page \in Seq(Handle), page # <<>>
  PROVE  /\ list \o page \in Seq(Handle) /\ list \o page # <<>>
         /\ Elements(list \o page) = Elements(list) \cup Elements(page)
         /\ Back(list \o page) = Back(page)
<1>1. /\ list \o page \in Seq(Handle)
      /\ Len(list \o page) = Len(list) + Len(page)
      /\ \A i \in 1 .. Len(list) + Len(page) :
           (list \o page)[i] = IF i <= Len(list) THEN list[i] ELSE page[i - Len(list)]
  BY ConcatProperties
<1>2. Len(list) \in Nat /\ Len(page) \in Nat \ {0}
  BY EmptySeq
<1>3. list \o page # <<>>
  BY <1>1, <1>2
<1>4. Back(list \o page) = Back(page)
  BY <1>1, <1>2 DEF Back
<1>5. Elements(list \o page) \subseteq Elements(list) \cup Elements(page)
  <2> SUFFICES ASSUME NEW i \in 1 .. Len(list) + Len(page)
               PROVE  (list \o page)[i] \in Elements(list) \cup Elements(page)
    BY <1>1 DEF Elements
  <2>1. CASE i <= Len(list)
    BY <2>1, <1>1, <1>2 DEF Elements
  <2>2. CASE ~(i <= Len(list))
    <3>1. i - Len(list) \in 1 .. Len(page)
      BY <2>2, <1>2
    <3> QED
      BY <2>2, <3>1, <1>1 DEF Elements
  <2> QED
    BY <2>1, <2>2
<1>6. Elements(list) \subseteq Elements(list \o page)
  BY <1>1, <1>2 DEF Elements
<1>7. Elements(page) \subseteq Elements(list \o page)
  <2> SUFFICES ASSUME NEW j \in 1 .. Len(page)
               PROVE  page[j] \in Elements(list \o page)
    BY DEF Elements
  <2>1. /\ j + Len(list) \in 1 .. Len(list) + Len(page)
        /\ ~(j + Len(list) <= Len(list)) /\ (j + Len(list)) - Len(list) = j
    BY <1>2
  <2>2. (list \o page)[j + Len(list)] = page[j]
    BY <2>1, <1>1
  <2>3. j + Len(list) \in DOMAIN (list \o page)
    BY <2>1, <1>1
  <2> QED
    BY <2>2, <2>3 DEF Elements
<1> QED
  BY <1>1, <1>3, <1>4, <1>5, <1>6, <1>7

\* Lists in order, one behind the last handle of the other, are one in order.
LEMMA ConcatAscending ==
  ASSUME NEW list \in Seq(Handle), NEW page \in Seq(Handle),
         Ascending(list), Ascending(page),
         \A h \in Elements(list), k \in Elements(page) : h < k
  PROVE  Ascending(list \o page)
<1>1. /\ DOMAIN (list \o page) = 1 .. Len(list) + Len(page)
      /\ \A i \in 1 .. Len(list) + Len(page) :
           (list \o page)[i] = IF i <= Len(list) THEN list[i] ELSE page[i - Len(list)]
  BY ConcatProperties
<1>2. Len(list) \in Nat /\ Len(page) \in Nat
  OBVIOUS
<1> SUFFICES ASSUME NEW i \in 1 .. Len(list) + Len(page), NEW j \in 1 .. Len(list) + Len(page),
                    i < j
             PROVE  (list \o page)[i] < (list \o page)[j]
  BY <1>1 DEF Ascending
<1>3. CASE j <= Len(list)
  BY <1>3, <1>1, <1>2 DEF Ascending
<1>4. CASE i <= Len(list) /\ ~(j <= Len(list))
  <2>1. j - Len(list) \in 1 .. Len(page) /\ i \in 1 .. Len(list)
    BY <1>4, <1>2
  <2>2. list[i] \in Elements(list) /\ page[j - Len(list)] \in Elements(page)
    BY <2>1 DEF Elements
  <2> QED
    BY <1>4, <1>1, <2>2
<1>5. CASE ~(i <= Len(list))
  <2>1. /\ i - Len(list) \in 1 .. Len(page) /\ j - Len(list) \in 1 .. Len(page)
        /\ i - Len(list) < j - Len(list) /\ ~(j <= Len(list))
    BY <1>5, <1>2
  <2>2. page[i - Len(list)] < page[j - Len(list)]
    BY <2>1 DEF Ascending
  <2> QED
    BY <1>5, <2>1, <2>2, <1>1
<1> QED
  BY <1>2, <1>3, <1>4, <1>5

\* A beginning, and the beginning of what is left behind its last handle, are a
\* longer beginning.
LEMMA BeginningExtended ==
  ASSUME NEW op \in Ops, NEW s \in Handle, NEW e \in Handle,
         NEW list \in Seq(Handle), list # <<>>, Beginning(list, Matches(op, s, e)),
         NEW page \in Seq(Handle), page # <<>>,
         Beginning(page, Matches(op, Back(list) + 1, e))
  PROVE  Beginning(list \o page, Matches(op, s, e))
<1> DEFINE M == Matches(op, s, e)
<1>1. /\ s \in Nat /\ e \in Nat /\ Back(list) \in Nat /\ Back(page) \in Nat
      /\ M \subseteq Nat /\ Matches(op, Back(list) + 1, e) \subseteq Nat
  <2>1. Handle \subseteq Nat /\ 1 .. MaxHandle \subseteq Nat
    BY AttAssumption DEF Handle
  <2>2. Back(list) \in Handle /\ Back(page) \in Handle
    BY BackIsHandle
  <2>3. M \in SUBSET (1 .. MaxHandle)
    BY MatchesAreHandles
  <2>4. Matches(op, Back(list) + 1, e) \in SUBSET (1 .. MaxHandle)
    BY MatchesAreHandles
  <2> QED
    BY <2>1, <2>2, <2>3, <2>4
<1>2. Back(list) \in Elements(list) /\ Back(page) \in Elements(page)
  BY BackIsElement
<1>3. Back(list) \in M
  BY <1>2 DEF Beginning
<1>4. Matches(op, Back(list) + 1, e) \subseteq M
  <2>1. s <= Back(list)
    BY <1>3 DEF Matches
  <2> QED
    BY <1>1, <2>1 DEF Matches
<1>5. \A k \in Elements(page) : k >= Back(list) + 1
  BY DEF Beginning, Matches
<1>6. \A h \in Elements(list) : h <= Back(list)
  <2> SUFFICES ASSUME NEW i \in 1 .. Len(list)  PROVE list[i] <= Back(list)
    BY DEF Elements
  <2>1. Len(list) \in Nat \ {0}
    BY EmptySeq
  <2>2. CASE i = Len(list)
    BY <2>2, <1>1 DEF Back
  <2>3. CASE i < Len(list)
    <3>1. i \in 1 .. Len(list) /\ Len(list) \in 1 .. Len(list) /\ DOMAIN list = 1 .. Len(list)
      BY <2>1
    <3>2. list[i] < list[Len(list)]
      BY <2>3, <3>1 DEF Beginning, Ascending
    <3>3. list[i] \in Nat
      BY <3>1, ElementOfSeq, AttAssumption DEF Handle
    <3> QED
      BY <3>2, <3>3, <1>1 DEF Back
  <2> QED
    BY <2>1, <2>2, <2>3
<1>7. Elements(list) \subseteq Nat /\ Elements(page) \subseteq Nat
  BY <1>1 DEF Beginning
<1>8. Ascending(list \o page)
  <2>1. \A h \in Elements(list), k \in Elements(page) : h < k
    BY <1>1, <1>5, <1>6, <1>7
  <2> QED
    BY <2>1, ConcatAscending DEF Beginning
<1>9. Elements(list \o page) \subseteq M
  BY <1>4, ConcatElements DEF Beginning
<1>10. ASSUME NEW h \in M, h <= Back(list \o page)  PROVE h \in Elements(list \o page)
  <2>1. h \in Nat /\ h <= Back(page)
    BY <1>1, <1>10, ConcatElements
  <2>2. CASE h <= Back(list)
    BY <2>2, ConcatElements DEF Beginning
  <2>3. CASE ~(h <= Back(list))
    <3>1. h \in Matches(op, Back(list) + 1, e)
      BY <2>1, <2>3, <1>1 DEF Matches
    <3> QED
      BY <2>1, <3>1, ConcatElements DEF Beginning
  <2> QED
    BY <2>2, <2>3
<1> QED
  BY <1>8, <1>9, <1>10 DEF Beginning

\* A beginning is the whole answer when nothing is left behind its last handle.
LEMMA BeginningDelivers ==
  ASSUME NEW op \in Ops, NEW s \in Handle, NEW e \in Handle,
         NEW list \in Seq(Handle), list # <<>>, Beginning(list, Matches(op, s, e)),
         ~(Back(list) < e) \/ Matches(op, Back(list) + 1, e) = {} \/ op = "READ_BY_TYPE"
  PROVE  Delivers(op, s, e, list)
<1> DEFINE M == Matches(op, s, e)
<1> SUFFICES ASSUME NEW h \in M, h \notin Elements(list)
             PROVE  op = "READ_BY_TYPE" /\ Back(list) < h
  BY DEF Delivers, Beginning
<1>1. /\ h \in Nat /\ h <= e /\ e \in Nat /\ Back(list) \in Nat /\ h \in Present[op]
  BY BackIsHandle, MatchesAreHandles, AttAssumption DEF Handle, Matches
<1>2. Back(list) < h
  BY <1>1 DEF Beginning
<1>3. h \in Matches(op, Back(list) + 1, e)
  BY <1>1, <1>2 DEF Matches
<1> QED
  BY <1>1, <1>2, <1>3

----------------------------------------------------------------------------
(* The invariant                                                           *)

\* Where the request of call c that is outstanding starts: behind what is cached.
From(c) ==
  IF call[c].op \in PagedOps /\ lists[call[c].op] # <<>>
  THEN Back(lists[call[c].op]) + 1
  ELSE call[c].start

Outstanding(c) == [op |-> call[c].op, start |-> From(c), end |-> call[c].end]

\* One exchange at a time: on the wire is the request that is outstanding, or
\* one answer to it, and on a live link one of them is.
Wire ==
  /\ toDevice # <<>> =>
       /\ currentRequest # NULL /\ toClient = <<>> /\ link = "up"
       /\ toDevice = <<Outstanding(currentRequest)>>
  /\ toClient # <<>> =>
       /\ currentRequest # NULL
       /\ \E pdu \in Answers(Outstanding(currentRequest)) : toClient = <<pdu>>
  /\ currentRequest # NULL /\ link = "up" => toDevice # <<>> \/ toClient # <<>>

Matching(c) == Matches(call[c].op, call[c].start, call[c].end)

\* What is cached is the beginning of the answer.
CachedIsBeginning ==
  \A op \in PagedOps : lists[op] # <<>> => Beginning(lists[op], Matching(currentRequest))

\* A call that waits has delivered nothing yet; a read is of one handle.
CallsInTurn ==
  \A c \in CallId : /\ call[c].result = "pending" => call[c].list = <<>>
                    /\ call[c].op = "READ" => call[c].start = call[c].end

ResultInv ==
  /\ SlotInv
  /\ Wire
  /\ CachedIsBeginning
  /\ CallsInTurn
  /\ ResultIsComplete
  /\ DeathIsExplained

\* The parts a step may disturb while the process lives.
ResultsKept == Wire' /\ CachedIsBeginning' /\ CallsInTurn' /\ ResultIsComplete'

----------------------------------------------------------------------------
(* Answers                                                                 *)

\* The request that is outstanding is one.
LEMMA OutstandingIsRequest ==
  ASSUME SlotInv, NEW c \in CallId, currentRequest = c
  PROVE  Outstanding(c) \in Requests
<1>1. call[c].op \in Ops /\ call[c].start \in Handle /\ call[c].end \in Handle
  BY DEF SlotInv, TypeOK, Calls
<1>2. From(c) \in Handle
  <2>1. CASE call[c].op \in PagedOps /\ lists[call[c].op] # <<>>
    <3>1. lists[call[c].op] \in Seq(Handle) /\ Back(lists[call[c].op]) < call[c].end
      BY <2>1 DEF SlotInv, TypeOK, ListBelongsToRequest
    <3>2. Back(lists[call[c].op]) \in Handle
      BY <2>1, <3>1, BackIsHandle
    <3> QED
      BY <1>1, <2>1, <3>1, <3>2, AttAssumption DEF From, Handle
  <2>2. CASE ~(call[c].op \in PagedOps /\ lists[call[c].op] # <<>>)
    BY <1>1, <2>2 DEF From
  <2> QED
    BY <2>1, <2>2
<1> QED
  BY <1>1, <1>2 DEF Outstanding, Requests

\* What a device answers: an error, which says "attribute not found" only of a
\* paged request of which nothing is left, or the handle, or a page.
LEMMA AnswerCases ==
  ASSUME NEW req \in Requests, NEW pdu \in Answers(req)
  PROVE  /\ pdu.op = req.op
         /\ \/ /\ pdu.kind = "ERROR"
               /\ \/ pdu.code = "OTHER"
                  \/ /\ pdu.code = "ATTR_NOT_FOUND"
                     /\ req.op # "READ"
                     /\ Matches(req.op, req.start, req.end) = {}
            \/ /\ pdu.kind = "RESPONSE" /\ req.op = "READ"
               /\ \E h \in Matches(req.op, req.start, req.end) : pdu.list = <<h>>
            \/ /\ pdu.kind = "RESPONSE" /\ req.op # "READ"
               /\ pdu.list \in Pages(Matches(req.op, req.start, req.end))
BY DEF Answers, Response, ErrorPdu

\* What is read from the wire answers the request that is outstanding.
LEMMA HeadAnswers ==
  ASSUME ResultInv, toClient # <<>>
  PROVE  /\ currentRequest \in CallId
         /\ Head(toClient) \in Answers(Outstanding(currentRequest))
         /\ Tail(toClient) = <<>>
         /\ toDevice = <<>>
<1>1. PICK pdu \in Answers(Outstanding(currentRequest)) : toClient = <<pdu>>
  BY DEF ResultInv, Wire
<1>2. Head(<<pdu>>) = pdu /\ Tail(<<pdu>>) = <<>>
  OBVIOUS
<1> QED
  BY <1>1, <1>2 DEF ResultInv, Wire, SlotInv, TypeOK

----------------------------------------------------------------------------
(* How a request ends or goes on                                           *)

\* A request that ends leaves nothing behind, and if it succeeds it has the
\* answer.
LEMMA FinishKeepsResults ==
  ASSUME ResultInv, SlotInv', NEW c \in CallId, currentRequest = c,
         NEW result \in Ends, NEW list, Finish(c, result, list),
         result = "ok" => Delivers(call[c].op, call[c].start, call[c].end, list),
         toDevice = <<>>, toClient' = <<>>
  PROVE  ResultsKept
<1>1. currentRequest' = NULL /\ toDevice' = <<>>
  BY DEF Finish
<1>2. \A op \in PagedOps : lists'[op] = <<>>
  BY <1>1 DEF SlotInv, ListBelongsToRequest
<1>3. Wire' /\ CachedIsBeginning'
  BY <1>1, <1>2 DEF Wire, CachedIsBeginning
<1>4. /\ call'[c].op = call[c].op /\ call'[c].start = call[c].start
      /\ call'[c].end = call[c].end /\ call'[c].result = result /\ call'[c].list = list
      /\ \A d \in CallId : d # c => call'[d] = call[d]
  BY DEF Finish, ResultInv, SlotInv, TypeOK, Calls
<1>5. CallsInTurn'
  BY <1>4 DEF CallsInTurn, ResultInv, Ends
<1>6. ResultIsComplete'
  BY <1>4 DEF ResultIsComplete, ResultInv
<1> QED
  BY <1>3, <1>5, <1>6 DEF ResultsKept

\* A request that goes on caches a beginning and asks for what is behind it.
LEMMA FollowUpKeepsResults ==
  ASSUME ResultInv, SlotInv', NEW c \in CallId, currentRequest = c,
         NEW list \in Seq(Handle), list # <<>>, call[c].op \in PagedOps,
         Beginning(list, Matching(c)), MoreToGet(list, call[c].end), FollowUp(c, list),
         toDevice = <<>>, toClient' = <<>>, link' = "up" => link = "up",
         link = "up" => link' = "up"
  PROVE  ResultsKept
<1>1. /\ UNCHANGED <<call, currentRequest>>
      /\ lists' = [lists EXCEPT ![call[c].op] = list]
      /\ toDevice' = Written(call[c].op, NextStart(list), call[c].end)
  BY DEF FollowUp
<1>2. call[c].end \in Handle
  BY DEF ResultInv, SlotInv, TypeOK, Calls
<1>3. NextStart(list) = Back(list) + 1
  BY <1>2, NextStartIsNext
<1>4. lists'[call[c].op] = list
  BY <1>1 DEF ResultInv, SlotInv, TypeOK
<1>5. Outstanding(c)' = [op |-> call[c].op, start |-> Back(list) + 1, end |-> call[c].end]
  BY <1>1, <1>4 DEF Outstanding, From
<1>6. toDevice' = IF link = "up" THEN <<Outstanding(c)'>> ELSE <<>>
  BY <1>1, <1>3, <1>5 DEF Written
<1>7. c # NULL
  BY ClientAssumption
<1>8. Wire'
  <2>1. CASE link = "up"
    <3>1. toDevice' = <<Outstanding(c)'>> /\ toDevice' # <<>>
      BY <2>1, <1>6
    <3> QED
      BY <2>1, <3>1, <1>1, <1>7 DEF Wire
  <2>2. CASE link # "up"
    BY <2>2, <1>6 DEF Wire
  <2> QED
    BY <2>1, <2>2
<1>9. CachedIsBeginning'
  <2> SUFFICES ASSUME NEW op \in PagedOps, lists'[op] # <<>>
               PROVE  Beginning(lists'[op], Matching(c))
    BY <1>1 DEF CachedIsBeginning, Matching
  <2>1. op = call[c].op
    BY <1>1 DEF SlotInv, ListBelongsToRequest
  <2> QED
    BY <2>1, <1>4
<1>10. CallsInTurn' /\ ResultIsComplete'
  BY <1>1 DEF CallsInTurn, ResultIsComplete, ResultInv
<1> QED
  BY <1>8, <1>9, <1>10 DEF ResultsKept

\* The cached list with the page that answers the outstanding request.
LEMMA ExtendedIsBeginning ==
  ASSUME ResultInv, NEW c \in CallId, currentRequest = c, call[c].op \in PagedOps,
         NEW page \in Pages(Matches(call[c].op, From(c), call[c].end))
  PROVE  /\ Extended(c, page) \in Seq(Handle) /\ Extended(c, page) # <<>>
         /\ Beginning(Extended(c, page), Matching(c))
<1> DEFINE op == call[c].op
<1>1. /\ op \in Ops /\ call[c].start \in Handle /\ call[c].end \in Handle
      /\ lists[op] \in Seq(Handle)
  BY DEF ResultInv, SlotInv, TypeOK, Calls
<1>2. page \in Seq(Handle) /\ page # <<>> /\ Beginning(page, Matches(op, From(c), call[c].end))
  BY <1>1, MatchesAreHandles, PageIsBeginning
<1>3. CASE lists[op] = <<>>
  <2>1. Extended(c, page) = page
    BY <1>2, <1>3, ConcatEmptySeq DEF Extended
  <2>2. From(c) = call[c].start
    BY <1>3 DEF From
  <2> QED
    BY <1>2, <2>1, <2>2 DEF Matching
<1>4. CASE lists[op] # <<>>
  <2>1. From(c) = Back(lists[op]) + 1
    BY <1>4 DEF From
  <2>2. Beginning(lists[op], Matches(op, call[c].start, call[c].end))
    BY <1>4 DEF ResultInv, CachedIsBeginning, Matching
  <2>3. Beginning(lists[op] \o page, Matches(op, call[c].start, call[c].end))
    BY <1>1, <1>2, <1>4, <2>1, <2>2, BeginningExtended
  <2>4. lists[op] \o page \in Seq(Handle) /\ lists[op] \o page # <<>>
    BY <1>1, <1>2, ConcatElements
  <2> QED
    BY <2>3, <2>4 DEF Extended, Matching
<1> QED
  BY <1>3, <1>4

\* A page parsed: the request goes on, or ends with the whole answer.
LEMMA AccumulateKeepsResults ==
  ASSUME ResultInv, SlotInv', NEW c \in CallId, currentRequest = c,
         NEW page \in Pages(Matches(call[c].op, From(c), call[c].end)),
         Accumulate(c, page, "ok"), toDevice = <<>>, toClient' = <<>>, UNCHANGED link
  PROVE  ResultsKept
<1> DEFINE list == Extended(c, page)
<1>1. call[c].op \in PagedOps
  BY DEF Accumulate
<1>2. list \in Seq(Handle) /\ list # <<>> /\ Beginning(list, Matching(c))
  BY <1>1, ExtendedIsBeginning
<1>3. CASE MoreToGet(list, call[c].end) /\ FollowUp(c, list)
  BY <1>1, <1>2, <1>3, FollowUpKeepsResults
<1>4. CASE ~MoreToGet(list, call[c].end) /\ Finish(c, "ok", list)
  <2>1. call[c].op \in Ops /\ call[c].start \in Handle /\ call[c].end \in Handle
    BY DEF ResultInv, SlotInv, TypeOK, Calls
  <2>2. Delivers(call[c].op, call[c].start, call[c].end, list)
    BY <1>2, <1>4, <2>1, BeginningDelivers DEF MoreToGet, Matching
  <2>3. "ok" \in Ends
    BY DEF Ends, Results
  <2> HIDE DEF list
  <2> QED
    BY <1>4, <2>2, <2>3, FinishKeepsResults
<1> HIDE DEF list
<1> QED
  BY <1>3, <1>4 DEF Accumulate, list

\* The one response of a request that is not paged is its answer.
LEMMA SingleKeepsResults ==
  ASSUME ResultInv, SlotInv', toClient # <<>>, toClient' = Tail(toClient),
         Head(toClient).kind = "RESPONSE",
         Single(currentRequest, Head(toClient).list, "ok")
  PROVE  ResultsKept
<1> DEFINE c == currentRequest
<1> DEFINE list == Head(toClient).list
<1>1. /\ c \in CallId /\ Head(toClient) \in Answers(Outstanding(c))
      /\ toClient' = <<>> /\ toDevice = <<>>
  BY HeadAnswers
<1>2. /\ call[c].op \in Ops \ PagedOps /\ call[c].start \in Handle /\ call[c].end \in Handle
  BY <1>1 DEF Single, ResultInv, SlotInv, TypeOK, Calls
<1>3. Outstanding(c) = [op |-> call[c].op, start |-> call[c].start, end |-> call[c].end]
  BY <1>2 DEF Outstanding, From
<1>4. Outstanding(c) \in Requests
  BY <1>1, OutstandingIsRequest DEF ResultInv
<1>5. \/ call[c].op = "READ" /\ \E h \in Matching(c) : list = <<h>>
      \/ call[c].op # "READ" /\ list \in Pages(Matching(c))
  BY <1>1, <1>3, <1>4, AnswerCases DEF Matching
<1>6. Delivers(call[c].op, call[c].start, call[c].end, list)
  <2>1. CASE call[c].op = "READ" /\ \E h \in Matching(c) : list = <<h>>
    <3>1. PICK h \in Matching(c) : list = <<h>>
      BY <2>1
    <3>2. Matching(c) \in SUBSET (1 .. MaxHandle)
      BY <1>2, MatchesAreHandles DEF Matching
    <3>3. h \in Handle
      BY <3>2, AttAssumption DEF Handle
    <3>4. call[c].start = call[c].end
      BY <1>1, <2>1 DEF ResultInv, CallsInTurn
    <3>5. \A k \in Matching(c) : k = h
      BY <1>2, <3>2, <3>4, AttAssumption DEF Matching, Matches, Handle
    <3>6. /\ <<h>> # <<>> /\ Elements(<<h>>) = {h} /\ Ascending(<<h>>)
      BY <3>3, AttAssumption DEF Elements, Ascending, Handle
    <3> QED
      BY <3>1, <3>5, <3>6 DEF Delivers, Matching
  <2>2. CASE call[c].op # "READ" /\ list \in Pages(Matching(c))
    <3>1. list \in Seq(Handle) /\ list # <<>> /\ Beginning(list, Matching(c))
      BY <1>2, <2>2, MatchesAreHandles, PageIsBeginning DEF Matching
    <3>2. call[c].op = "READ_BY_TYPE"
      BY <1>2, <2>2 DEF Ops
    <3> QED
      BY <1>2, <3>1, <3>2, BeginningDelivers DEF Matching
  <2> QED
    BY <1>5, <2>1, <2>2
<1>7. "ok" \in Ends
  BY DEF Ends, Results
<1> QED
  BY <1>1, <1>6, <1>7, FinishKeepsResults DEF Single

\* "Attribute not found" behind what is cached: the cached list is the answer.
LEMMA EndOfListKeepsResults ==
  ASSUME ResultInv, SlotInv', toClient # <<>>, toClient' = Tail(toClient),
         Head(toClient).kind = "ERROR", Head(toClient).code = "ATTR_NOT_FOUND",
         EndOfList(currentRequest)
  PROVE  ResultsKept
<1> DEFINE c == currentRequest
<1>1. /\ c \in CallId /\ Head(toClient) \in Answers(Outstanding(c))
      /\ toClient' = <<>> /\ toDevice = <<>>
  BY HeadAnswers
<1>2. {"ok", "noMatch"} \subseteq Ends
  BY DEF Ends, Results, Errors
<1>3. CASE lists[call[c].op] # <<>> /\ Finish(c, "ok", lists[call[c].op])
  <2>1. /\ call[c].op \in PagedOps /\ call[c].op \in Ops
        /\ call[c].start \in Handle /\ call[c].end \in Handle
        /\ lists[call[c].op] \in Seq(Handle)
    BY <1>1 DEF EndOfList, ResultInv, SlotInv, TypeOK, Calls
  <2>2. Outstanding(c) \in Requests
    BY <1>1, OutstandingIsRequest DEF ResultInv
  <2>3. Matches(call[c].op, Back(lists[call[c].op]) + 1, call[c].end) = {}
    BY <1>1, <1>3, <2>1, <2>2, AnswerCases DEF Outstanding, From
  <2>4. Beginning(lists[call[c].op], Matching(c))
    BY <1>3, <2>1 DEF ResultInv, CachedIsBeginning
  <2>5. Delivers(call[c].op, call[c].start, call[c].end, lists[call[c].op])
    BY <1>3, <2>1, <2>3, <2>4, BeginningDelivers DEF Matching
  <2> QED
    BY <1>1, <1>2, <1>3, <2>5, FinishKeepsResults
<1>4. CASE Finish(c, "noMatch", <<>>)
  BY <1>1, <1>2, <1>4, FinishKeepsResults
<1> QED
  BY <1>3, <1>4 DEF EndOfList

----------------------------------------------------------------------------
(* The steps                                                               *)

\* A step of somebody else.
LEMMA UnchangedKeepsResults ==
  ASSUME ResultInv, UNCHANGED <<requestVars, toDevice, toClient, link>>
  PROVE  ResultsKept
BY DEF requestVars, ResultInv, ResultsKept, Wire, CachedIsBeginning, CallsInTurn,
       ResultIsComplete, Outstanding, From, Matching

\* A call that gets the slot is the one exchange on the wire.
LEMMA IssueKeepsResults ==
  ASSUME ResultInv, NEW c \in CallId, NEW ask \in Asks, Issue(c, ask[1], ask[2], ask[3])
  PROVE  ResultsKept
<1> DEFINE req == [op |-> ask[1], start |-> ask[2], end |-> ask[3]]
<1>1. /\ currentRequest = NULL /\ currentRequest' = c
      /\ call' = Made(c, ask[1], ask[2], ask[3], "pending")
      /\ toDevice' = Written(ask[1], ask[2], ask[3])
      /\ UNCHANGED <<lists, toClient, link>>
  BY DEF Issue, SlotFree
<1>2. toDevice = <<>> /\ toClient = <<>> /\ \A op \in PagedOps : lists[op] = <<>>
  BY <1>1 DEF ResultInv, Wire, SlotInv, ListBelongsToRequest
<1>3. /\ call'[c] = [op |-> ask[1], start |-> ask[2], end |-> ask[3],
                     result |-> "pending", list |-> <<>>]
      /\ \A d \in CallId : d # c => call'[d] = call[d]
  BY <1>1 DEF Made, ResultInv, SlotInv, TypeOK
<1>4. Outstanding(c)' = req
  BY <1>1, <1>2, <1>3 DEF Outstanding, From
<1>5. toDevice' = IF link = "up" THEN <<req>> ELSE <<>>
  BY <1>1, <1>2 DEF Written
<1>6. c # NULL
  BY ClientAssumption
<1>7. Wire'
  <2>1. CASE link = "up"
    <3>1. toDevice' = <<req>> /\ toDevice' # <<>>
      BY <1>5, <2>1
    <3> QED
      BY <1>1, <1>2, <1>4, <1>6, <2>1, <3>1 DEF Wire
  <2>2. CASE link # "up"
    BY <1>1, <1>2, <1>5, <2>2 DEF Wire
  <2> QED
    BY <2>1, <2>2
<1>8. CachedIsBeginning'
  BY <1>1, <1>2 DEF CachedIsBeginning
<1>9. ask[1] = "READ" => ask[2] = ask[3]
  BY ClientAssumption
<1>10. CallsInTurn' /\ ResultIsComplete'
  BY <1>3, <1>9 DEF CallsInTurn, ResultIsComplete, ResultInv
<1> QED
  BY <1>7, <1>8, <1>10 DEF ResultsKept

\* A call that is refused disturbs nothing.
LEMMA BusyKeepsResults ==
  ASSUME ResultInv, NEW c \in CallId, NEW ask \in Asks, Busy(c, ask[1], ask[2], ask[3])
  PROVE  ResultsKept
<1>1. /\ currentRequest # NULL /\ call[c].result = "unused"
      /\ call' = Made(c, ask[1], ask[2], ask[3], "busy")
      /\ UNCHANGED <<currentRequest, lists, toDevice, toClient, link>>
  BY DEF Busy, SlotFree
<1>2. currentRequest \in CallId /\ currentRequest # c
  BY <1>1 DEF ResultInv, SlotInv, TypeOK, PendingIsCurrent
<1>3. /\ call'[c] = [op |-> ask[1], start |-> ask[2], end |-> ask[3],
                     result |-> "busy", list |-> <<>>]
      /\ \A d \in CallId : d # c => call'[d] = call[d]
  BY <1>1 DEF Made, ResultInv, SlotInv, TypeOK
<1>4. call'[currentRequest] = call[currentRequest]
  BY <1>2, <1>3
<1>5. Outstanding(currentRequest)' = Outstanding(currentRequest)
  BY <1>1, <1>4 DEF Outstanding, From
<1>6. Wire'
  BY <1>1, <1>5 DEF Wire, ResultInv
<1>7. CachedIsBeginning'
  BY <1>1, <1>4 DEF CachedIsBeginning, Matching, ResultInv
<1>8. ask[1] = "READ" => ask[2] = ask[3]
  BY ClientAssumption
<1>9. CallsInTurn' /\ ResultIsComplete'
  BY <1>3, <1>8 DEF CallsInTurn, ResultIsComplete, ResultInv
<1> QED
  BY <1>6, <1>7, <1>9 DEF ResultsKept

\* A response is for the request that is outstanding.
LEMMA ReadAnswerKeepsResults ==
  ASSUME ResultInv, SlotInv', ReadAnswer
  PROVE  ResultsKept
<1> DEFINE c == currentRequest
<1>1. /\ toClient # <<>> /\ toClient' = Tail(toClient) /\ UNCHANGED link
      /\ Head(toClient).kind \in AnswerKinds
  BY DEF ReadAnswer, Receive, CanRead
<1>2. /\ c \in CallId /\ Head(toClient) \in Answers(Outstanding(c))
      /\ Tail(toClient) = <<>> /\ toDevice = <<>>
  BY <1>1, HeadAnswers
<1>3. Outstanding(c) \in Requests
  BY <1>2, OutstandingIsRequest DEF ResultInv
<1>4. Head(toClient).kind = "RESPONSE"
  BY <1>1, <1>2, <1>3, AnswerCases DEF AnswerKinds
<1>5. CASE Accumulate(c, Head(toClient).list, "ok")
  <2>1. call[c].op \in PagedOps
    BY <1>5 DEF Accumulate
  <2>2. Outstanding(c).op # "READ"
    BY <2>1 DEF Outstanding, PagedOps
  <2>3. Head(toClient).list \in Pages(Matches(call[c].op, From(c), call[c].end))
    BY <1>2, <1>3, <1>4, <2>2, AnswerCases DEF Outstanding
  <2> QED
    BY <1>1, <1>2, <1>5, <2>3, AccumulateKeepsResults
<1>6. CASE Single(c, Head(toClient).list, "ok")
  BY <1>1, <1>4, <1>6, SingleKeepsResults
<1> QED
  BY <1>5, <1>6 DEF ReadAnswer

\* An error ends the request, or the list.
LEMMA ReadErrorKeepsResults ==
  ASSUME ResultInv, SlotInv', ReadError
  PROVE  ResultsKept
<1> DEFINE c == currentRequest
<1>1. /\ toClient # <<>> /\ toClient' = Tail(toClient) /\ Head(toClient).kind = "ERROR"
  BY DEF ReadError, Receive, CanRead
<1>2. c \in CallId /\ Tail(toClient) = <<>> /\ toDevice = <<>>
  BY <1>1, HeadAnswers
<1>3. Head(toClient).code \in Ends /\ Head(toClient).code # "ok"
  <2>1. Head(toClient).code \in Codes
    BY <1>1, HeadIsPdu DEF ResultInv, SlotInv, TypeOK, Pdus
  <2> QED
    BY <2>1 DEF Ends, Results, Errors, Codes
<1>4. CASE Head(toClient).code = "ATTR_NOT_FOUND" /\ EndOfList(c)
  BY <1>1, <1>4, EndOfListKeepsResults
<1>5. CASE Failure(c, Head(toClient).code)
  BY <1>1, <1>2, <1>3, <1>5, FinishKeepsResults DEF Failure
<1> QED
  BY <1>4, <1>5 DEF ReadError

\* When the link breaks a request ends with an error, and findByTypeValue goes
\* on with what it has.
LEMMA BreakKeepsResults ==
  ASSUME ResultInv, SlotInv', BreakPending
  PROVE  ResultsKept
<1> DEFINE c == currentRequest
<1>1. link = "lost" /\ link' = "down" /\ toClient = <<>> /\ toClient' = <<>> /\ c \in CallId
  BY DEF BreakPending, LinkBroken, SlotFree, ResultInv, SlotInv, TypeOK
<1>2. toDevice = <<>>
  BY <1>1 DEF ResultInv, Wire
<1>3. "link" \in Ends /\ "link" # "ok"
  BY DEF Ends, Results, Errors
<1>4. CASE Single(c, <<>>, "link")
  BY <1>1, <1>2, <1>3, <1>4, FinishKeepsResults DEF Single
<1>5. CASE Accumulate(c, <<>>, "link")
  <2> DEFINE list == lists[call[c].op]
  <2>1. call[c].op \in PagedOps
    BY <1>5 DEF Accumulate
  <2>2. list \in Seq(Handle)
    BY <2>1 DEF ResultInv, SlotInv, TypeOK
  <2>3. Extended(c, <<>>) = list
    BY <2>2, ConcatEmptySeq DEF Extended
  <2>4. list # <<>>
    BY <1>5, <2>3 DEF Accumulate
  <2>5. MoreToGet(list, call[c].end) /\ Beginning(list, Matching(c))
    BY <2>1, <2>4 DEF ResultInv, SlotInv, ListBelongsToRequest, MoreToGet, CachedIsBeginning
  <2>6. FollowUp(c, list)
    BY <1>5, <2>3, <2>5 DEF Accumulate
  <2> QED
    BY <1>1, <1>2, <2>1, <2>2, <2>4, <2>5, <2>6, FollowUpKeepsResults
<1> QED
  BY <1>4, <1>5 DEF BreakPending

\* The device takes the request and answers it.
LEMMA DeviceKeepsResults ==
  ASSUME ResultInv, DeviceAnswers
  PROVE  ResultsKept
<1> DEFINE req == Outstanding(currentRequest)
<1>1. /\ currentRequest # NULL /\ toClient = <<>> /\ toDevice = <<req>>
      /\ link = "up" /\ UNCHANGED <<call, currentRequest, lists, link>>
  BY DEF DeviceAnswers, ResultInv, Wire, requestVars
<1>2. Head(toDevice) = req /\ Tail(toDevice) = <<>>
  BY <1>1
<1>3. PICK pdu \in Answers(req) : toClient' = Append(toClient, pdu)
  BY <1>2 DEF DeviceAnswers
<1>4. toClient' = <<pdu>> /\ toDevice' = <<>>
  BY <1>1, <1>2, <1>3 DEF DeviceAnswers
<1>5. req' = req
  BY <1>1 DEF Outstanding, From
<1>6. Wire'
  BY <1>1, <1>4, <1>5 DEF Wire
<1> QED
  BY <1>1, <1>6 DEF ResultInv, ResultsKept, CachedIsBeginning, CallsInTurn, ResultIsComplete,
                    Matching

\* With nothing pushed every PDU finds its request.
LEMMA NothingUnexpected ==
  ASSUME ResultInv
  PROVE  ~ReadNotification /\ ~ReadUnexpected /\ ~ReadEmptyPage
<1> SUFFICES ASSUME toClient # <<>>
             PROVE  ~ReadNotification /\ ~ReadUnexpected /\ ~ReadEmptyPage
  BY DEF ReadNotification, ReadUnexpected, ReadEmptyPage, Receive, CanRead
<1> DEFINE c == currentRequest
<1> DEFINE pdu == Head(toClient)
<1>1. c \in CallId /\ pdu \in Answers(Outstanding(c)) /\ Outstanding(c) \in Requests
  BY HeadAnswers, OutstandingIsRequest DEF ResultInv
<1>2. pdu.op = call[c].op /\ pdu.kind \in {"ERROR", "RESPONSE"}
  BY <1>1, AnswerCases DEF Outstanding
<1>3. ErrorIsForCurrent(pdu) /\ ~SlotFree
  BY <1>1, <1>2, ClientAssumption DEF ErrorIsForCurrent, SlotFree
<1>4. ~ReadNotification /\ ~ReadUnexpected
  BY <1>2, <1>3 DEF ReadNotification, ReadUnexpected, Receive, Unexpected
<1>5. ASSUME ReadEmptyPage  PROVE FALSE
  <2>1. pdu.kind = "RESPONSE" /\ call[c].op \in PagedOps /\ Extended(c, pdu.list) = <<>>
    BY <1>2, <1>5 DEF ReadEmptyPage, AnswerKinds
  <2>2. Outstanding(c).op # "READ"
    BY <2>1 DEF Outstanding, PagedOps
  <2>3. pdu.list \in Pages(Matches(call[c].op, From(c), call[c].end))
    BY <1>1, <2>1, <2>2, AnswerCases DEF Outstanding
  <2> HIDE DEF pdu, c
  <2> QED
    BY <1>1, <2>1, <2>3, ExtendedIsBeginning DEF c
<1> QED
  BY <1>4, <1>5

\* A device that pushes nothing leaves every step with its results.
LEMMA StepKeepsResults ==
  ASSUME PushKinds = {}, ResultInv, SlotInv', [Next]_vars
  PROVE  ResultsKept
<1> USE DEF requestVars
<1>1. ASSUME NEW c \in CallId, NEW ask \in Asks,
             Issue(c, ask[1], ask[2], ask[3]) \/ Busy(c, ask[1], ask[2], ask[3])
      PROVE  ResultsKept
  BY <1>1, IssueKeepsResults, BusyKeepsResults
<1>2. ASSUME NEW l \in Listener, NEW h \in Handle, Listen(l, h)
      PROVE  ResultsKept
  BY <1>2, UnchangedKeepsResults DEF Listen
<1>3. CASE Close
  BY <1>3 DEF Close, ResultInv, ResultsKept, Wire, CachedIsBeginning, CallsInTurn,
              ResultIsComplete, Matching
<1>4. CASE ReadAnswer \/ ReadError \/ BreakPending
  BY <1>4, ReadAnswerKeepsResults, ReadErrorKeepsResults, BreakKeepsResults
<1>5. ASSUME NEW cause, Die(cause)
      PROVE  ResultsKept
  BY <1>5, UnchangedKeepsResults DEF Die
<1>6. CASE ReadNothingFound \/ BreakIdle \/ BreakParsing \/ BreakFirstPage
  BY <1>5, <1>6 DEF ReadNothingFound, BreakIdle, BreakParsing, BreakFirstPage
<1>7. CASE DeviceAnswers
  BY <1>7, DeviceKeepsResults
<1>8. ~DevicePushes
  BY DEF DevicePushes
<1>9. CASE LinkLost
  <2>1. Wire'
    BY <1>9 DEF LinkLost, ResultInv, Wire, Outstanding, From
  <2> QED
    BY <1>9, <2>1 DEF LinkLost, ResultInv, ResultsKept, CachedIsBeginning, CallsInTurn,
                      ResultIsComplete, Matching
<1>10. CASE UNCHANGED vars
  BY <1>10, UnchangedKeepsResults DEF vars
<1> QED
  BY <1>1, <1>2, <1>3, <1>4, <1>6, <1>7, <1>8, <1>9, <1>10, NothingUnexpected
  DEF Next, Program, ReadPdu, ReadBreak

\* Nothing happens in a process that is dead.
LEMMA DeadIsDead ==
  ASSUME [Next]_vars, crash # "none"
  PROVE  UNCHANGED vars
<1>1. ~ReadAnswer /\ ~ReadError /\ ~ReadNotification /\ ~ReadUnexpected
  BY DEF ReadAnswer, ReadError, ReadNotification, ReadUnexpected, Receive, CanRead
<1>2. ~ReadEmptyPage /\ ~ReadNothingFound
  BY DEF ReadEmptyPage, ReadNothingFound, CanRead
<1>3. ~ReadBreak
  BY DEF ReadBreak, BreakPending, BreakIdle, BreakParsing, BreakFirstPage, LinkBroken
<1>4. ~Program
  BY DEF Program, Issue, Busy, Listen, Close
<1>5. ~DeviceAnswers /\ ~DevicePushes /\ ~LinkLost
  BY DEF DeviceAnswers, DevicePushes, LinkLost
<1> QED
  BY <1>1, <1>2, <1>3, <1>4, <1>5 DEF Next, ReadPdu

\* The four ways to die: an idle break, a NULL buffer, a first page that is
\* missing, a NULL list for a range in which there is nothing.
LEMMA StepExplainsDeath ==
  ASSUME PushKinds = {}, ResultInv, [Next]_vars
  PROVE  DeathIsExplained'
<1> DEFINE c == currentRequest
<1> USE DEF requestVars, listenerVars
<1>1. CASE crash # "none"
  BY <1>1, DeadIsDead DEF vars, ResultInv, DeathIsExplained
<1>2. CASE crash' = "none"
  BY <1>2 DEF DeathIsExplained
<1>3. CASE BreakIdle
  BY <1>3 DEF BreakIdle, Die, LinkBroken, SlotFree, DeathIsExplained
<1>4. CASE BreakParsing \/ BreakFirstPage
  <2>1. link' = "lost" /\ UNCHANGED <<currentRequest, call>> /\ c # NULL
    BY <1>4 DEF BreakParsing, BreakFirstPage, Die, LinkBroken, SlotFree
  <2>2. call[c].op \in PagedOps
    BY <1>4 DEF BreakParsing, BreakFirstPage, PagedOps
  <2> QED
    BY <2>1, <2>2 DEF DeathIsExplained
<1>5. CASE ReadNothingFound
  <2>1. /\ toClient # <<>> /\ Head(toClient).kind = "ERROR"
        /\ Head(toClient).code = "ATTR_NOT_FOUND"
        /\ call[c].op \in PagedOps /\ lists[call[c].op] = <<>>
        /\ UNCHANGED <<currentRequest, call>>
    BY <1>5 DEF ReadNothingFound, CanRead, Die
  <2>2. /\ c \in CallId /\ Head(toClient) \in Answers(Outstanding(c))
        /\ Outstanding(c) \in Requests
    BY <2>1, HeadAnswers, OutstandingIsRequest DEF ResultInv
  <2>3. Outstanding(c) = [op |-> call[c].op, start |-> call[c].start, end |-> call[c].end]
    BY <2>1 DEF Outstanding, From
  <2>4. Matches(call[c].op, call[c].start, call[c].end) = {}
    BY <2>1, <2>2, <2>3, AnswerCases
  <2> QED
    BY <2>1, <2>2, <2>4, ClientAssumption DEF DeathIsExplained
<1>6. CASE UNCHANGED crash
  BY <1>1, <1>2, <1>6
<1>7. CASE Program \/ DeviceAnswers \/ LinkLost
  BY <1>6, <1>7 DEF Program, Issue, Busy, Listen, Close, DeviceAnswers, LinkLost
<1>8. CASE ReadAnswer \/ ReadError \/ BreakPending
  BY <1>6, <1>8 DEF ReadAnswer, ReadError, BreakPending, Accumulate, Single, EndOfList,
                    Failure, FollowUp, Finish
<1>9. ~DevicePushes
  BY DEF DevicePushes
<1>10. CASE UNCHANGED vars
  BY <1>6, <1>10 DEF vars
<1> QED
  BY <1>3, <1>4, <1>5, <1>7, <1>8, <1>9, <1>10, NothingUnexpected DEF Next, ReadPdu, ReadBreak

\* At first nothing is on the wire and nothing has been called.
LEMMA InitResultInv == Init => ResultInv
<1> SUFFICES ASSUME Init  PROVE ResultInv
  OBVIOUS
<1>1. \A c \in CallId : call[c].result = "unused" /\ call[c].start = call[c].end
  BY DEF Init
<1>2. Wire /\ CachedIsBeginning
  BY DEF Init, Wire, CachedIsBeginning
<1>3. CallsInTurn /\ ResultIsComplete
  BY <1>1 DEF CallsInTurn, ResultIsComplete
<1>4. DeathIsExplained
  BY DEF Init, DeathIsExplained
<1> QED
  BY <1>2, <1>3, <1>4, InitSlotInv DEF ResultInv

LEMMA StepResultInv ==
  ASSUME PushKinds = {}
  PROVE  ResultInv /\ [Next]_vars => ResultInv'
<1> SUFFICES ASSUME ResultInv, [Next]_vars  PROVE ResultInv'
  OBVIOUS
<1>1. SlotInv'
  BY StepTypeOK, StepKeepsSlot DEF ResultInv, SlotInv, SlotKept
<1>2. ResultsKept /\ DeathIsExplained'
  BY <1>1, StepKeepsResults, StepExplainsDeath
<1> QED
  BY <1>1, <1>2 DEF ResultInv, ResultsKept

LEMMA ResultInvariant ==
  ASSUME PushKinds = {}
  PROVE  Spec => []ResultInv
<1>1. ResultInv /\ [Next]_vars => ResultInv'
  BY StepResultInv
<1> QED
  BY <1>1, InitResultInv, PTL DEF Spec

----------------------------------------------------------------------------
(* Theorems                                                                *)

\* A call of the ATT client that succeeds delivers exactly what the device has
\* in the range, in order, over however many pages.
THEOREM ResultsAreComplete ==
  ASSUME PushKinds = {}
  PROVE  Spec => []ResultIsComplete
<1>1. ResultInv => ResultIsComplete
  BY DEF ResultInv
<1> QED
  BY <1>1, ResultInvariant, PTL

\* The client dies in the ways DeathIsExplained names and in no other.
THEOREM DeathsAreExplained ==
  ASSUME PushKinds = {}
  PROVE  Spec => []DeathIsExplained
<1>1. ResultInv => DeathIsExplained
  BY DEF ResultInv
<1> QED
  BY <1>1, ResultInvariant, PTL

\* At most one exchange is under way, and on a live link exactly while a request
\* is outstanding.
THEOREM OneExchange ==
  ASSUME PushKinds = {}
  PROVE  Spec => []OneExchangeOnWire
<1>1. ResultInv => OneExchangeOnWire
  <2> SUFFICES ASSUME ResultInv  PROVE OneExchangeOnWire
    OBVIOUS
  <2> DEFINE req == Outstanding(currentRequest)
  <2>1. CASE toDevice # <<>>
    <3>1. toDevice = <<req>> /\ toClient = <<>> /\ currentRequest # NULL
      BY <2>1 DEF ResultInv, Wire
    <3>2. Answering = {} /\ Len(toDevice) = 1
      BY <3>1 DEF Answering
    <3> QED
      BY <2>1, <3>1, <3>2 DEF OneExchangeOnWire
  <2>2. CASE toDevice = <<>> /\ toClient # <<>>
    <3>1. PICK pdu \in Answers(req) : toClient = <<pdu>>
      BY <2>2 DEF ResultInv, Wire
    <3>2. currentRequest # NULL /\ req \in Requests
      BY <2>2, HeadAnswers, OutstandingIsRequest DEF ResultInv, Wire
    <3>3. pdu.kind \in {"RESPONSE", "ERROR"}
      BY <3>2, AnswerCases
    <3>4. DOMAIN toClient = {1} /\ toClient[1] = pdu
      BY <3>1
    <3>5. Answering = {1}
      BY <3>3, <3>4 DEF Answering
    <3>6. Len(toDevice) = 0
      BY <2>2
    <3> QED
      BY <2>2, <3>2, <3>5, <3>6 DEF OneExchangeOnWire
  <2>3. CASE toDevice = <<>> /\ toClient = <<>>
    <3>1. Answering = {} /\ Len(toDevice) = 0
      BY <2>3 DEF Answering
    <3>2. link = "up" => currentRequest = NULL
      BY <2>3 DEF ResultInv, Wire
    <3> QED
      BY <2>3, <3>1, <3>2 DEF OneExchangeOnWire
  <2> QED
    BY <2>1, <2>2, <2>3
<1> QED
  BY <1>1, ResultInvariant, PTL

----------------------------------------------------------------------------
(* The promise of AttRequests                                              *)

\* A request that ends is a call that succeeds with the answer, or fails.
LEMMA FinishKeepsPromise ==
  ASSUME ResultInv, ResultIsComplete', NEW c \in CallId, currentRequest = c, crash = "none",
         NEW result, NEW list, Finish(c, result, list),
         result = "ok" \/ (result \in Errors /\ list = <<>>)
  PROVE  Promise!AbsNext
<1>1. call[c].result = "pending" /\ call[c].list = <<>>
  BY DEF ResultInv, SlotInv, PendingIsCurrent, CallsInTurn
<1>2. call' = [call EXCEPT ![c].result = result, ![c].list = list] /\ crash' = "none"
  BY DEF Finish
<1>3. /\ call[c] \in Calls /\ call \in [CallId -> Calls]
      /\ call'[c] = [call[c] EXCEPT !.result = result, !.list = list]
  BY <1>2 DEF ResultInv, SlotInv, TypeOK, Calls
<1>4. CASE result = "ok"
  <2>1. /\ call'[c].result = "ok" /\ call'[c].list = list
        /\ call'[c].op = call[c].op /\ call'[c].start = call[c].start
        /\ call'[c].end = call[c].end
    BY <1>3, <1>4 DEF Calls
  <2>2. Delivers(call[c].op, call[c].start, call[c].end, call'[c].list)
    BY <2>1 DEF ResultIsComplete
  <2>3. Promise!Delivers(call[c].op, call[c].start, call[c].end, call'[c].list)
    BY <2>2 DEF Delivers, Matches, Ascending, Elements, Back, Promise!Delivers,
                Promise!Matches, Promise!Ascending, Promise!Elements, Promise!Back
  <2>4. Promise!Succeed(c)
    BY <1>1, <1>2, <1>4, <2>1, <2>3 DEF Promise!Succeed
  <2> QED
    BY <2>4 DEF Promise!AbsNext
<1>5. CASE result \in Errors /\ list = <<>>
  <2> DEFINE failed == [call[c] EXCEPT !.result = result]
  <2>1. [failed EXCEPT !.list = <<>>] = failed
    BY <1>1, <1>3 DEF Calls
  <2>2. call'[c] = failed
    BY <1>3, <1>5, <2>1
  <2>3. call' = [call EXCEPT ![c] = failed]
    BY <1>2, <1>3, <2>2
  <2>4. call' = [call EXCEPT ![c].result = result]
    BY <2>3
  <2>5. result \in Promise!Errors
    BY <1>5 DEF Errors, Codes, Promise!Errors, Promise!Codes
  <2>6. Promise!Fail(c)
    BY <1>1, <1>2, <2>4, <2>5 DEF Promise!Fail
  <2> QED
    BY <2>6 DEF Promise!AbsNext
<1> QED
  BY <1>4, <1>5

\* A call that is made is accepted when none waits, and refused when one does.
LEMMA CallKeepsPromise ==
  ASSUME ResultInv, NEW c \in CallId, NEW ask \in Asks,
         Issue(c, ask[1], ask[2], ask[3]) \/ Busy(c, ask[1], ask[2], ask[3])
  PROVE  Promise!AbsNext
<1>1. ask[1] \in Promise!Ops /\ ask[2] \in Promise!Handle /\ ask[3] \in Promise!Handle
  BY ClientAssumption DEF Ops, PagedOps, Handle, Promise!Ops, Promise!PagedOps, Promise!Handle
<1>2. crash = "none" /\ crash' = "none" /\ call[c].result = "unused"
  BY DEF Issue, Busy
<1>3. CASE Issue(c, ask[1], ask[2], ask[3])
  <2>1. Promise!Waiting = {}
    BY <1>3, ClientAssumption
    DEF Issue, SlotFree, ResultInv, SlotInv, PendingIsCurrent, Promise!Waiting
  <2>2. Promise!Accept(c)
    BY <1>1, <1>2, <1>3, <2>1 DEF Issue, Made, Promise!Accept
  <2> QED
    BY <1>2, <2>2 DEF Promise!AbsNext
<1>4. CASE Busy(c, ask[1], ask[2], ask[3])
  <2>1. currentRequest \in Promise!Waiting
    BY <1>4 DEF Busy, SlotFree, ResultInv, SlotInv, TypeOK, PendingIsCurrent, Promise!Waiting
  <2>2. Promise!Refuse(c)
    BY <1>1, <1>2, <1>4, <2>1 DEF Busy, Made, Promise!Refuse
  <2> QED
    BY <1>2, <2>2 DEF Promise!AbsNext
<1> QED
  BY <1>3, <1>4

\* A page parsed onto the list, with a break no more than a follow-up.
LEMMA AccumulateKeepsPromise ==
  ASSUME ResultInv, ResultIsComplete', NEW c \in CallId, currentRequest = c, crash = "none",
         NEW page \in Seq(Handle), NEW error, Accumulate(c, page, error),
         error = "ok" \/ page = <<>>
  PROVE  Promise!AbsNext \/ UNCHANGED <<call, crash>>
<1> DEFINE list == Extended(c, page)
<1>1. CASE MoreToGet(list, call[c].end) /\ FollowUp(c, list)
  BY <1>1 DEF FollowUp
<1>2. CASE ~MoreToGet(list, call[c].end) /\ Finish(c, error, list)
  <2>1. CASE error = "ok"
    BY <1>2, <2>1, FinishKeepsPromise
  <2>2. CASE page = <<>>
    <3>1. call[c].op \in PagedOps /\ list # <<>>
      BY DEF Accumulate
    <3>2. list = lists[call[c].op]
      BY <2>2, <3>1, ConcatEmptySeq DEF Extended, ResultInv, SlotInv, TypeOK
    <3>3. MoreToGet(list, call[c].end)
      BY <3>1, <3>2 DEF MoreToGet, ResultInv, SlotInv, ListBelongsToRequest
    <3> QED
      BY <1>2, <3>3
  <2> QED
    BY <2>1, <2>2
<1> QED
  BY <1>1, <1>2 DEF Accumulate

\* The handlers of a PDU and of a broken link end the request or leave it.
LEMMA HandlerKeepsPromise ==
  ASSUME ResultInv, ResultIsComplete', ReadAnswer \/ ReadError \/ BreakPending
  PROVE  Promise!AbsNext \/ UNCHANGED <<call, crash>>
<1> DEFINE c == currentRequest
<1>1. c \in CallId /\ crash = "none"
  BY DEF ReadAnswer, ReadError, BreakPending, Receive, CanRead, LinkBroken, SlotFree,
         ErrorIsForCurrent, ResultInv, SlotInv, TypeOK
<1>2. CASE ReadAnswer
  <2>1. Head(toClient).list \in Seq(Handle)
    BY <1>2, HeadIsPdu DEF ReadAnswer, Receive, CanRead, ResultInv, SlotInv, TypeOK, Pdus
  <2>2. CASE Accumulate(c, Head(toClient).list, "ok")
    BY <1>1, <2>1, <2>2, AccumulateKeepsPromise
  <2>3. CASE Single(c, Head(toClient).list, "ok")
    BY <1>1, <2>3, FinishKeepsPromise DEF Single
  <2> QED
    BY <1>2, <2>2, <2>3 DEF ReadAnswer
<1>3. CASE ReadError
  <2>1. Head(toClient).code \in Errors /\ "noMatch" \in Errors
    BY <1>3, HeadIsPdu DEF ReadError, Receive, CanRead, ResultInv, SlotInv, TypeOK, Pdus, Errors
  <2>2. CASE EndOfList(c)
    BY <1>1, <2>1, <2>2, FinishKeepsPromise DEF EndOfList
  <2>3. CASE Failure(c, Head(toClient).code)
    BY <1>1, <2>1, <2>3, FinishKeepsPromise DEF Failure
  <2> QED
    BY <1>3, <2>2, <2>3 DEF ReadError
<1>4. CASE BreakPending
  <2>1. "link" \in Errors /\ <<>> \in Seq(Handle)
    BY EmptySeq DEF Errors
  <2>2. CASE Accumulate(c, <<>>, "link")
    BY <1>1, <2>1, <2>2, AccumulateKeepsPromise
  <2>3. CASE Single(c, <<>>, "link")
    BY <1>1, <2>1, <2>3, FinishKeepsPromise DEF Single
  <2> QED
    BY <1>4, <2>2, <2>3 DEF BreakPending
<1> QED
  BY <1>2, <1>3, <1>4

\* Every step of the client is a step of its promise, or none.
LEMMA StepKeepsPromise ==
  ASSUME PushKinds = {}, ResultInv, ResultInv', [Next]_vars
  PROVE  [Promise!AbsNext]_(Promise!absVars)
<1> SUFFICES Promise!AbsNext \/ UNCHANGED <<call, crash>>
  BY DEF Promise!absVars
<1> USE DEF requestVars
<1>1. ASSUME NEW c \in CallId, NEW ask \in Asks,
             Issue(c, ask[1], ask[2], ask[3]) \/ Busy(c, ask[1], ask[2], ask[3])
      PROVE  Promise!AbsNext
  BY <1>1, CallKeepsPromise
<1>2. CASE ReadAnswer \/ ReadError \/ BreakPending
  BY <1>2, HandlerKeepsPromise DEF ResultInv
<1>3. ASSUME NEW cause \in Causes, crash = "none", Die(cause)
      PROVE  Promise!AbsNext
  BY <1>3 DEF Die, Causes, Promise!AbsNext, Promise!Die
<1>4. CASE ReadNothingFound \/ BreakIdle \/ BreakParsing \/ BreakFirstPage
  BY <1>3, <1>4 DEF ReadNothingFound, BreakIdle, BreakParsing, BreakFirstPage, CanRead,
                    LinkBroken, Causes
<1>5. ASSUME NEW l \in Listener, NEW h \in Handle, Listen(l, h)
      PROVE  UNCHANGED <<call, crash>>
  BY <1>5 DEF Listen
<1>6. CASE Close \/ DeviceAnswers \/ LinkLost
  BY <1>6 DEF Close, DeviceAnswers, LinkLost
<1>7. ~DevicePushes
  BY DEF DevicePushes
<1>8. CASE UNCHANGED vars
  BY <1>8 DEF vars
<1> QED
  BY <1>1, <1>2, <1>4, <1>5, <1>6, <1>7, <1>8, NothingUnexpected
  DEF Next, Program, ReadPdu, ReadBreak

\* The client of src/src/att.cc implements AttRequests: it accepts a call only
\* when none waits, answers it at most once, and with the right list.
THEOREM ClientKeepsPromise ==
  ASSUME PushKinds = {}
  PROVE  Spec => KeepsPromise
<1>1. Init => Promise!AbsInit
  BY DEF Init, Promise!AbsInit, Promise!Unused
<1>2. ResultInv /\ ResultInv' /\ [Next]_vars => [Promise!AbsNext]_(Promise!absVars)
  BY StepKeepsPromise
<1> QED
  BY <1>1, <1>2, ResultInvariant, PTL DEF Spec, KeepsPromise, Promise!AbsSpec

=============================================================================
