----------------------------- MODULE Hci_proofs -----------------------------
(***************************************************************************)
(* Proofs about Hci, for any number of calls.                              *)
(***************************************************************************)
EXTENDS Hci, TLAPS, SequenceTheorems

\* The flag says "closed" only where there is no socket.  Without it a socket
\* could be opened over another.
ClosedIsNone == socketClosed => hciSocket = "none"

\* The parameters in force are those of a call made, not of one to come: the
\* ones a new call finds are not its own.
ParamsOfPast == controller.params <= call.number

HciInv == TypeOK /\ OneDescriptor /\ ClosedIsNone /\ ParamsOfPast

\* Whatever getHCISocket returns is accounted for.
LEMMA SocketsAreCounted ==
  ASSUME HciInv, NEW socket \in Sockets
  PROVE  /\ socket.fd \in {"none", "open", "dead"}
         /\ socket.closed \in BOOLEAN
         /\ socket.throws \in BOOLEAN
         /\ socket.open \in Nat
         /\ socket.open = IF socket.fd = "none" THEN 0 ELSE 1
         /\ socket.closed => socket.fd = "none"
<1>1. CASE ~socketClosed
  <2>1. socket = Socket(hciSocket, FALSE, descriptors, FALSE)
    BY <1>1 DEF Sockets
  <2>2. QED  BY <1>1, <2>1 DEF Socket, HciInv, TypeOK, OneDescriptor, ClosedIsNone
<1>2. CASE socketClosed
  <2>1. hciSocket = "none" /\ descriptors = 0
    BY <1>2 DEF HciInv, OneDescriptor, ClosedIsNone
  <2>2. \/ socket = Socket("none", FALSE, descriptors, TRUE)
        \/ socket = Socket("open", FALSE, descriptors + 1, FALSE)
        \/ socket = Socket("none", TRUE, descriptors, TRUE)
    BY <1>2 DEF Sockets
  <2>3. CASE socket = Socket("none", FALSE, descriptors, TRUE)
    BY <2>1, <2>3 DEF Socket
  <2>4. CASE socket = Socket("open", FALSE, descriptors + 1, FALSE)
    BY <2>1, <2>4 DEF Socket
  <2>5. CASE socket = Socket("none", TRUE, descriptors, TRUE)
    BY <2>1, <2>5 DEF Socket
  <2>6. QED  BY <2>2, <2>3, <2>4, <2>5
<1>3. QED  BY <1>1, <1>2

LEMMA AppliedType ==
  ASSUME TypeOK, NEW cmd \in Commands
  PROVE  Applied(cmd) \in Controllers
<1>1. call.number \in Number /\ controller \in Controllers
  BY DEF TypeOK, CallType
<1>2. QED  BY <1>1 DEF Applied, Commands, Controllers

\* A command changes the parameters to those of the call or not at all.
LEMMA AppliedParams ==
  ASSUME TypeOK, NEW cmd \in Commands
  PROVE  Applied(cmd).params = IF cmd = "params" THEN call.number ELSE controller.params
<1>1. call.number \in Number /\ controller \in Controllers
  BY DEF TypeOK, CallType
<1>2. QED  BY <1>1 DEF Applied, Commands, Controllers

LEMMA StepsType ==
  ASSUME NEW params \in BOOLEAN, NEW scan \in BOOLEAN
  PROVE  Steps(params, scan) \in Seq(Commands)
<1>1. <<>> \in Seq(Commands)
  OBVIOUS
<1>2. <<"params">> \in Seq(Commands) /\ <<"scan">> \in Seq(Commands)
  BY DEF Commands
<1>3. <<"disable", "enable", "data">> \in Seq(Commands)
  BY DEF Commands
<1>4. \A s, t \in Seq(Commands) : s \o t \in Seq(Commands)
  OBVIOUS
<1>5. (IF params THEN <<"params">> ELSE <<>>) \in Seq(Commands)
  BY <1>1, <1>2
<1>6. (IF scan THEN <<"scan">> ELSE <<>>) \in Seq(Commands)
  BY <1>1, <1>2
<1>7. QED  BY <1>3, <1>4, <1>5, <1>6 DEF Steps

\* One command of any kind.
LEMMA SendStep ==
  ASSUME HciInv, NEW cmd \in Commands, Send(cmd), isAdvertising' \in BOOLEAN
  PROVE  HciInv'
<1>1. PICK socket \in Sockets : \E outcome \in Outcomes(cmd, socket) :
        /\ hciSocket' = socket.fd
        /\ socketClosed' = socket.closed
        /\ descriptors' = socket.open
        /\ thrown' = (thrown \/ socket.throws \/ Throws(cmd, outcome))
        /\ controller' = IF outcome \in {"done", "late"} THEN Applied(cmd) ELSE controller
  BY DEF Send
<1>2. /\ socket.fd \in {"none", "open", "dead"}
      /\ socket.closed \in BOOLEAN
      /\ socket.throws \in BOOLEAN
      /\ socket.open \in Nat
      /\ socket.open = IF socket.fd = "none" THEN 0 ELSE 1
      /\ socket.closed => socket.fd = "none"
  BY SocketsAreCounted
<1>3. controller' \in Controllers
  BY <1>1, AppliedType DEF HciInv, TypeOK
<1>4. todo' \in Seq(Commands)
  BY DEF Send, HciInv, TypeOK
<1>5. thrown' \in BOOLEAN
  BY <1>1, <1>2 DEF HciInv, TypeOK, Throws
<1>6. TypeOK'
  BY <1>1, <1>2, <1>3, <1>4, <1>5 DEF Send, HciInv, TypeOK
<1>7. OneDescriptor' /\ ClosedIsNone'
  BY <1>1, <1>2 DEF OneDescriptor, ClosedIsNone
<1>8. ParamsOfPast'
  <2>1. call.number \in Nat /\ controller.params <= call.number /\ call' = call
    BY HciAssumption DEF Send, HciInv, TypeOK, CallType, Number, ParamsOfPast
  <2>2. controller'.params = controller.params \/ controller'.params = call.number
    BY <1>1, AppliedParams DEF HciInv
  <2>3. QED  BY <2>1, <2>2 DEF ParamsOfPast
<1>9. QED  BY <1>6, <1>7, <1>8 DEF HciInv

\* A call only notes what is to be sent.
LEMMA CalledStep ==
  ASSUME HciInv, NEW starts \in BOOLEAN, NEW params \in BOOLEAN, NEW valid \in BOOLEAN,
         NEW scan \in BOOLEAN, NEW commands \in Seq(Commands),
         Called(starts, params, valid, scan, commands), thrown' \in BOOLEAN
  PROVE  HciInv'
<1>1. call' \in CallType
  <2>1. call.number \in Number /\ call.number + 1 \in Number /\ controller.enabled \in BOOLEAN
    BY HciAssumption DEF Called, HciInv, TypeOK, CallType, Controllers, Number
  <2>2. QED  BY <2>1 DEF Called, CallType
<1>2. TypeOK'
  BY <1>1 DEF Called, HciInv, TypeOK
<1>3. OneDescriptor' /\ ClosedIsNone'
  BY DEF Called, HciInv, OneDescriptor, ClosedIsNone
<1>4. ParamsOfPast'
  <2>1. call.number \in Nat /\ controller.params \in Nat /\ controller.params <= call.number
    BY HciAssumption DEF HciInv, TypeOK, CallType, Controllers, Number, ParamsOfPast
  <2>2. call'.number = call.number + 1 /\ controller' = controller
    BY DEF Called
  <2>3. QED  BY <2>1, <2>2 DEF ParamsOfPast
<1>5. QED  BY <1>2, <1>3, <1>4 DEF HciInv

\* The adapter takes a socket away, it does not close it.
LEMMA AdapterStep ==
  ASSUME HciInv, Adapter
  PROVE  HciInv'
<1>1. controller' \in Controllers /\ controller'.params \in {0, controller.params}
  <2>1. controller \in Controllers /\ Reset \in Controllers /\ Reset.params = 0
    BY HciAssumption DEF HciInv, TypeOK, Controllers, Reset, Number
  <2>2. /\ [controller EXCEPT !.enabled = FALSE] \in Controllers
        /\ [controller EXCEPT !.enabled = FALSE].params = controller.params
    BY <2>1 DEF Controllers
  <2>3. \/ controller' = controller
        \/ controller' = Reset
        \/ controller' = [controller EXCEPT !.enabled = FALSE]
    BY DEF Adapter, Connected, PowerDown, PowerUp, Unplug, Plug
  <2>4. QED  BY <2>1, <2>2, <2>3
<1>2. TypeOK'
  BY <1>1 DEF Adapter, Connected, PowerDown, PowerUp, Unplug, Plug, HciInv, TypeOK, hciVars
<1>3. OneDescriptor' /\ ClosedIsNone'
  BY DEF Adapter, Connected, PowerDown, PowerUp, Unplug, Plug, HciInv, TypeOK, hciVars,
         OneDescriptor, ClosedIsNone
<1>4. ParamsOfPast'
  <2>1. call' = call
    BY DEF Adapter, Connected, PowerDown, PowerUp, Unplug, Plug, hciVars
  <2>2. call.number \in Nat /\ controller.params <= call.number
    BY HciAssumption DEF HciInv, TypeOK, CallType, Number, ParamsOfPast
  <2>3. QED  BY <1>1, <2>1, <2>2 DEF ParamsOfPast
<1>5. QED  BY <1>2, <1>3, <1>4 DEF HciInv

LEMMA HciInvariant == Spec => []HciInv
<1>1. Init => HciInv
  <2>1. 0 \in Number
    BY HciAssumption DEF Number
  <2>2. ASSUME Init  PROVE controller \in Controllers
    BY <2>1, <2>2 DEF Init, Controllers, Reset
  <2>3. ASSUME Init  PROVE call \in CallType
    BY <2>1, <2>3 DEF Init, CallType
  <2>4. ASSUME Init  PROVE todo \in Seq(Commands)
    <3>1. <<>> \in Seq(Commands)
      OBVIOUS
    <3>2. QED  BY <3>1, <2>4 DEF Init
  <2>5. ASSUME Init  PROVE TypeOK
    <3>1. descriptors \in Nat
      BY <2>5 DEF Init
    <3>2. QED  BY <2>2, <2>3, <2>4, <2>5, <3>1, Zenon DEF Init, TypeOK
  <2>6. Init => OneDescriptor /\ ClosedIsNone /\ ParamsOfPast
    BY DEF Init, OneDescriptor, ClosedIsNone, ParamsOfPast, Reset
  <2>7. QED  BY <2>5, <2>6 DEF HciInv
<1>2. HciInv /\ [Next]_vars => HciInv'
  <2> SUFFICES ASSUME HciInv, [Next]_vars  PROVE HciInv'
    OBVIOUS
  <2>1. CASE StartAdvertising
    <3>1. PICK params, valid, scan, throws \in BOOLEAN :
            Called(TRUE, params, valid, scan, Steps(params, scan)) /\ thrown' = throws
      BY <2>1 DEF StartAdvertising
    <3>2. Steps(params, scan) \in Seq(Commands)
      BY StepsType
    <3>3. QED  BY <3>1, <3>2, CalledStep
  <2>2. CASE StopAdvertising
    <3>1. <<"disable">> \in Seq(Commands)
      BY DEF Commands
    <3>2. QED  BY <2>2, <3>1, CalledStep DEF StopAdvertising
  <2>3. CASE Command
    <3>1. isAdvertising' \in BOOLEAN
      BY <2>3 DEF Command, SetAdvertisingParameters, SetScanResponseData, Disable, Enable,
                  SetAdvertisingData, HciInv, TypeOK
    <3>2. \E cmd \in Commands : Send(cmd)
      BY <2>3 DEF Command, SetAdvertisingParameters, SetScanResponseData, Disable, Enable,
                  SetAdvertisingData, Commands
    <3>3. QED  BY <3>1, <3>2, SendStep
  <2>4. CASE Adapter
    BY <2>4, AdapterStep
  <2>5. CASE UNCHANGED vars
    BY <2>5 DEF vars, HciInv, TypeOK, OneDescriptor, ClosedIsNone, ParamsOfPast
  <2>6. QED  BY <2>1, <2>2, <2>3, <2>4, <2>5 DEF Next, Program
<1>3. QED  BY <1>1, <1>2, PTL DEF Spec

\* The HCI object and the adapter stay within their types.
THEOREM HciTypeCorrect == Spec => []TypeOK
<1>1. HciInv => TypeOK
  BY DEF HciInv
<1>2. QED  BY <1>1, HciInvariant, PTL

\* The process has one HCI socket open while the object holds one and none
\* otherwise, after any number of calls and whatever the adapter does.
THEOREM SocketsAccountedFor == Spec => []OneDescriptor
<1>1. HciInv => OneDescriptor
  BY DEF HciInv
<1>2. QED  BY <1>1, HciInvariant, PTL

----------------------------------------------------------------------------
(* What has been sent                                                      *)

\* The commands every start ends with.
Last == <<"disable", "enable", "data">>

ParamsScan == <<"params", "scan", "disable", "enable", "data">>
ParamsOnly == <<"params", "disable", "enable", "data">>
ScanOnly   == <<"scan", "disable", "enable", "data">>

\* What a start may still have to send.
Rests == {ParamsScan, ParamsOnly, ScanOnly, Last, <<"enable", "data">>, <<"data">>, <<>>}

\* The call at hand is a start, and nothing has gone wrong with it so far.
Undisturbed == call.starts /\ ~thrown /\ ~disturbed

\* Parameters get through exactly when they are valid and the controller was not
\* advertising.
ParamsInForce == controller.params = call.number <=> call.valid /\ ~call.over

\* What such a call has still to send tells what the controller has been told:
\* the parameters, if they are valid and it was not advertising; the scan data;
\* that it is to advertise; and at last the advertising data.
Told ==
  /\ todo \in Rests
  /\ todo = ParamsOnly => ~call.scan
  /\ todo \in {ParamsScan, ParamsOnly, ScanOnly, Last} => controller.enabled = call.over
  /\ todo \in {ParamsScan, ParamsOnly} => controller.params # call.number
  /\ todo \notin {ParamsScan, ParamsOnly} /\ call.params => ParamsInForce
  /\ todo \notin {ParamsScan, ScanOnly} /\ call.scan => controller.scan = call.number
  /\ todo \in {<<"data">>, <<>>} => controller.enabled
  /\ todo = <<>> => controller.data = call.number

SoFar == Undisturbed => Told

\* What getting three commands at the end does to a list of commands.
LEMMA ConcatLast ==
  ASSUME NEW s \in Seq(Commands)
  PROVE  /\ s \o Last \in Seq(Commands)
         /\ Len(s \o Last) = Len(s) + 3
         /\ \A i \in 1 .. Len(s) : (s \o Last)[i] = s[i]
         /\ (s \o Last)[Len(s) + 1] = "disable"
         /\ (s \o Last)[Len(s) + 2] = "enable"
         /\ (s \o Last)[Len(s) + 3] = "data"
<1>1. Last \in Seq(Commands) /\ Len(Last) = 3
  BY DEF Last, Commands
<1>2. /\ s \o Last \in Seq(Commands)
      /\ Len(s \o Last) = Len(s) + 3
      /\ \A i \in 1 .. Len(s) + 3 :
           (s \o Last)[i] = IF i <= Len(s) THEN s[i] ELSE Last[i - Len(s)]
  <2>1. /\ s \o Last \in Seq(Commands)
        /\ Len(s \o Last) = Len(s) + Len(Last)
        /\ \A i \in 1 .. Len(s) + Len(Last) :
             (s \o Last)[i] = IF i <= Len(s) THEN s[i] ELSE Last[i - Len(s)]
    BY <1>1, ConcatProperties
  <2>2. QED  BY <1>1, <2>1
<1>3. Len(s) \in Nat
  OBVIOUS
<1>4. Last[1] = "disable" /\ Last[2] = "enable" /\ Last[3] = "data"
  BY DEF Last
<1>. HIDE DEF Last
<1>5. QED  BY <1>2, <1>3, <1>4

\* The lists of commands spelled out.
LEMMA OneThenLast ==
  ASSUME NEW cmd \in Commands
  PROVE  <<cmd>> \o Last = <<cmd, "disable", "enable", "data">>
<1>. DEFINE one == <<cmd>>
            s == one \o Last
            t == <<cmd, "disable", "enable", "data">>
<1>1. one \in Seq(Commands) /\ Len(one) = 1 /\ one[1] = cmd
  OBVIOUS
<1>. HIDE DEF one
<1>2. /\ s \in Seq(Commands) /\ Len(s) = 4
      /\ s[1] = cmd /\ s[2] = "disable" /\ s[3] = "enable" /\ s[4] = "data"
  <2>1. /\ s \in Seq(Commands)
        /\ Len(s) = Len(one) + 3
        /\ \A i \in 1 .. Len(one) : s[i] = one[i]
        /\ s[Len(one) + 1] = "disable" /\ s[Len(one) + 2] = "enable" /\ s[Len(one) + 3] = "data"
    BY <1>1, ConcatLast
  <2>. HIDE DEF s
  <2>2. QED  BY <1>1, <2>1
<1>3. /\ t \in Seq(Commands) /\ Len(t) = 4
      /\ t[1] = cmd /\ t[2] = "disable" /\ t[3] = "enable" /\ t[4] = "data"
  BY DEF Commands
<1>. HIDE DEF s, t
<1>4. ASSUME NEW i \in 1 .. 4  PROVE s[i] = t[i]
  <2>1. i = 1 \/ i = 2 \/ i = 3 \/ i = 4
    OBVIOUS
  <2>2. QED  BY <2>1, <1>2, <1>3
<1>5. s = t
  BY <1>2, <1>3, <1>4, SeqEqual
<1>6. QED  BY <1>5 DEF s, t, one

LEMMA TwoThenLast ==
  <<"params">> \o <<"scan">> \o Last = <<"params", "scan", "disable", "enable", "data">>
<1>. DEFINE two == <<"params">> \o <<"scan">>
            s == two \o Last
            t == <<"params", "scan", "disable", "enable", "data">>
<1>1. two \in Seq(Commands) /\ Len(two) = 2 /\ two[1] = "params" /\ two[2] = "scan"
  <2>1. <<"params">> \in Seq(Commands) /\ <<"scan">> \in Seq(Commands)
    BY DEF Commands
  <2>2. QED  BY <2>1, ConcatProperties
<1>. HIDE DEF two
<1>2. /\ s \in Seq(Commands) /\ Len(s) = 5 /\ s[1] = "params" /\ s[2] = "scan"
      /\ s[3] = "disable" /\ s[4] = "enable" /\ s[5] = "data"
  <2>1. /\ s \in Seq(Commands)
        /\ Len(s) = Len(two) + 3
        /\ \A i \in 1 .. Len(two) : s[i] = two[i]
        /\ s[Len(two) + 1] = "disable" /\ s[Len(two) + 2] = "enable" /\ s[Len(two) + 3] = "data"
    BY <1>1, ConcatLast
  <2>. HIDE DEF s
  <2>2. QED  BY <1>1, <2>1
<1>3. /\ t \in Seq(Commands) /\ Len(t) = 5 /\ t[1] = "params" /\ t[2] = "scan"
      /\ t[3] = "disable" /\ t[4] = "enable" /\ t[5] = "data"
  BY DEF Commands
<1>. HIDE DEF s, t
<1>4. ASSUME NEW i \in 1 .. 5  PROVE s[i] = t[i]
  <2>1. i = 1 \/ i = 2 \/ i = 3 \/ i = 4 \/ i = 5
    OBVIOUS
  <2>2. QED  BY <2>1, <1>2, <1>3
<1>5. s = t
  BY <1>2, <1>3, <1>4, SeqEqual
<1>6. QED  BY <1>5 DEF s, t, two

LEMMA StepsTold ==
  ASSUME NEW params \in BOOLEAN, NEW scan \in BOOLEAN
  PROVE  Steps(params, scan) =
           IF params
             THEN IF scan THEN <<"params", "scan", "disable", "enable", "data">>
                          ELSE <<"params", "disable", "enable", "data">>
             ELSE IF scan THEN <<"scan", "disable", "enable", "data">>
                          ELSE Last
<1>1. /\ <<>> \o <<>> = <<>>
      /\ <<"params">> \o <<>> = <<"params">>
      /\ <<>> \o <<"scan">> = <<"scan">>
  OBVIOUS
<1>2. <<>> \o Last = Last
  BY DEF Last
<1>3. /\ <<"params">> \o Last = <<"params", "disable", "enable", "data">>
      /\ <<"scan">> \o Last = <<"scan", "disable", "enable", "data">>
  BY OneThenLast DEF Commands
<1>4. Steps(params, scan) =
        (IF params THEN <<"params">> ELSE <<>>) \o (IF scan THEN <<"scan">> ELSE <<>>) \o Last
  BY DEF Steps, Last
<1>. HIDE DEF Last
<1>5. CASE params /\ scan
  <2>1. Steps(params, scan) = <<"params">> \o <<"scan">> \o Last
    BY <1>4, <1>5, Zenon
  <2>2. QED  BY <1>5, <2>1, TwoThenLast, Zenon
<1>6. CASE params /\ ~scan
  <2>1. Steps(params, scan) = <<"params">> \o <<>> \o Last
    BY <1>4, <1>6, Zenon
  <2>2. QED  BY <1>6, <2>1, <1>1, <1>3, Zenon
<1>7. CASE ~params /\ scan
  <2>1. Steps(params, scan) = <<>> \o <<"scan">> \o Last
    BY <1>4, <1>7, Zenon
  <2>2. QED  BY <1>7, <2>1, <1>1, <1>3, Zenon
<1>8. CASE ~params /\ ~scan
  <2>1. Steps(params, scan) = <<>> \o <<>> \o Last
    BY <1>4, <1>8, Zenon
  <2>2. QED  BY <1>8, <2>1, <1>1, <1>2, Zenon
<1>9. QED  BY <1>5, <1>6, <1>7, <1>8

\* The rests are told apart by their lengths and their heads.
LEMMA RestsDiffer ==
  /\ ParamsScan \notin {ParamsOnly, ScanOnly, Last, <<"enable", "data">>, <<"data">>, <<>>}
  /\ ParamsOnly \notin {ScanOnly, Last, <<"enable", "data">>, <<"data">>, <<>>}
  /\ ScanOnly \notin {Last, <<"enable", "data">>, <<"data">>, <<>>}
  /\ Last \notin {<<"enable", "data">>, <<"data">>, <<>>}
  /\ <<"enable", "data">> \notin {<<"data">>, <<>>}
  /\ <<"data">> # <<>>
BY DEF ParamsScan, ParamsOnly, ScanOnly, Last

\* What a start is told to send.
LEMMA StartTold ==
  ASSUME HciInv, StartAdvertising
  PROVE  SoFar'
<1>1. PICK params, valid, scan \in BOOLEAN :
        Called(TRUE, params, valid, scan, Steps(params, scan))
  BY DEF StartAdvertising
<1>2. /\ call'.params = params /\ call'.scan = scan /\ call'.over = controller.enabled
      /\ todo' = Steps(params, scan) /\ controller' = controller
      /\ controller'.params # call'.number
  <2>1. /\ call'.params = params /\ call'.scan = scan /\ call'.over = controller.enabled
        /\ todo' = Steps(params, scan) /\ controller' = controller
        /\ call'.number = call.number + 1
    BY <1>1 DEF Called
  <2>2. call.number \in Nat /\ controller.params \in Nat /\ controller.params <= call.number
    BY HciAssumption DEF HciInv, TypeOK, CallType, Controllers, Number, ParamsOfPast
  <2>3. QED  BY <2>1, <2>2
<1>3. CASE params /\ scan
  <2>1. todo' = ParamsScan
    BY <1>2, <1>3, StepsTold DEF ParamsScan
  <2>2. QED  BY <1>2, <1>3, <2>1, RestsDiffer DEF SoFar, Told, Rests
<1>4. CASE params /\ ~scan
  <2>1. todo' = ParamsOnly
    BY <1>2, <1>4, StepsTold DEF ParamsOnly
  <2>2. QED  BY <1>2, <1>4, <2>1, RestsDiffer DEF SoFar, Told, Rests
<1>5. CASE ~params /\ scan
  <2>1. todo' = ScanOnly
    BY <1>2, <1>5, StepsTold DEF ScanOnly
  <2>2. QED  BY <1>2, <1>5, <2>1, RestsDiffer DEF SoFar, Told, Rests
<1>6. CASE ~params /\ ~scan
  <2>1. todo' = Last
    BY <1>2, <1>6, StepsTold
  <2>2. QED  BY <1>2, <1>6, <2>1, RestsDiffer DEF SoFar, Told, Rests
<1>7. QED  BY <1>3, <1>4, <1>5, <1>6

\* What each command leaves to send.
LEMMA RestOf ==
  ASSUME todo \in Rests, todo # <<>>
  PROVE  \/ todo = ParamsScan /\ Head(todo) = "params" /\ Tail(todo) = ScanOnly
         \/ todo = ParamsOnly /\ Head(todo) = "params" /\ Tail(todo) = Last
         \/ todo = ScanOnly /\ Head(todo) = "scan" /\ Tail(todo) = Last
         \/ todo = Last /\ Head(todo) = "disable" /\ Tail(todo) = <<"enable", "data">>
         \/ todo = <<"enable", "data">> /\ Head(todo) = "enable" /\ Tail(todo) = <<"data">>
         \/ todo = <<"data">> /\ Head(todo) = "data" /\ Tail(todo) = <<>>
<1>1. CASE todo = ParamsScan
  BY <1>1 DEF ParamsScan, ScanOnly
<1>2. CASE todo = ParamsOnly
  BY <1>2 DEF ParamsOnly, Last
<1>3. CASE todo = ScanOnly
  BY <1>3 DEF ScanOnly, Last
<1>4. CASE todo = Last
  BY <1>4 DEF Last
<1>5. CASE todo = <<"enable", "data">>
  BY <1>5
<1>6. CASE todo = <<"data">>
  BY <1>6
<1>7. QED  BY <1>1, <1>2, <1>3, <1>4, <1>5, <1>6 DEF Rests

\* A command that throws nothing was accepted, but for the two whose status
\* nobody looks at.  Of these the parameters were refused if they had to be.
LEMMA QuietSend ==
  ASSUME HciInv, NEW cmd \in Commands, Send(cmd), ~thrown'
  PROVE  /\ ~thrown
         /\ todo # <<>> /\ Head(todo) = cmd /\ todo' = Tail(todo)
         /\ UNCHANGED <<call, disturbed>>
         /\ cmd \in {"scan", "enable", "data"} => controller' = Applied(cmd)
         /\ cmd = "params" => controller' = IF call.valid /\ ~controller.enabled
                                               THEN Applied(cmd) ELSE controller
         /\ controller' \in {controller, Applied(cmd)}
<1>1. PICK socket \in Sockets, outcome \in {"failed", "done", "late", "refused"} :
        /\ outcome \in Outcomes(cmd, socket)
        /\ thrown' = (thrown \/ socket.throws \/ Throws(cmd, outcome))
        /\ controller' = IF outcome \in {"done", "late"} THEN Applied(cmd) ELSE controller
  <2>1. \A socket : Outcomes(cmd, socket) \subseteq {"failed", "done", "late", "refused"}
    BY DEF Outcomes
  <2>2. QED  BY <2>1 DEF Send
<1>2. ~thrown /\ ~Throws(cmd, outcome)
  BY <1>1 DEF HciInv, TypeOK, Throws
<1>3. cmd \in {"scan", "enable", "data"} => outcome = "done"
  BY <1>1, <1>2 DEF Throws
<1>4. cmd = "params" =>
        outcome = IF call.valid /\ ~controller.enabled THEN "done" ELSE "refused"
  BY <1>1, <1>2 DEF Throws, Outcomes, Accepts
<1>5. QED  BY <1>1, <1>2, <1>3, <1>4 DEF Send

LEMMA CommandTold ==
  ASSUME HciInv, SoFar, NEW cmd \in Commands, Send(cmd)
  PROVE  SoFar'
<1>1. SUFFICES ASSUME Undisturbed'  PROVE Told'
  BY DEF SoFar
<1>2. ~thrown'
  BY <1>1 DEF Undisturbed
<1>3. /\ todo # <<>> /\ Head(todo) = cmd /\ todo' = Tail(todo) /\ UNCHANGED call
      /\ cmd \in {"scan", "enable", "data"} => controller' = Applied(cmd)
      /\ cmd = "params" => controller' = IF call.valid /\ ~controller.enabled
                                            THEN Applied(cmd) ELSE controller
      /\ controller' \in {controller, Applied(cmd)}
  BY <1>2, QuietSend
<1>4. Told
  BY <1>1, <1>2, QuietSend DEF SoFar, Undisturbed
<1>5. controller \in Controllers /\ call \in CallType
  BY DEF HciInv, TypeOK
<1>6. CASE cmd = "params"
  <2>1. \/ todo = ParamsScan /\ todo' = ScanOnly
        \/ todo = ParamsOnly /\ todo' = Last
    BY <1>3, <1>4, <1>6, RestOf DEF Told
  <2>2. /\ controller'.enabled = call.over
        /\ controller'.params = call.number <=> call.valid /\ ~call.over
    <3>1. controller.enabled = call.over /\ controller.params # call.number
      BY <1>4, <2>1 DEF Told
    <3>2. controller' = IF call.valid /\ ~call.over
                          THEN [controller EXCEPT !.params = call.number] ELSE controller
      BY <1>3, <1>6, <3>1 DEF Applied
    <3>3. QED  BY <1>5, <3>1, <3>2 DEF Controllers, CallType
  <2>3. todo' = Last => ~call.scan
    BY <1>4, <2>1, RestsDiffer DEF Told
  <2>4. QED  BY <1>3, <2>1, <2>2, <2>3, RestsDiffer DEF Told, Rests, ParamsInForce
<1>7. CASE cmd = "scan"
  <2>1. todo = ScanOnly /\ todo' = Last
    BY <1>3, <1>4, <1>7, RestOf DEF Told
  <2>2. controller' = [controller EXCEPT !.scan = call.number]
    BY <1>3, <1>7 DEF Applied
  <2>3. /\ controller'.enabled = call.over
        /\ controller'.params = controller.params
        /\ controller'.scan = call.number
    BY <1>4, <1>5, <2>1, <2>2, RestsDiffer DEF Told, Controllers
  <2>4. QED  BY <1>3, <1>4, <2>1, <2>3, RestsDiffer DEF Told, Rests, ParamsInForce
<1>8. CASE cmd = "disable"
  <2>1. todo = Last /\ todo' = <<"enable", "data">>
    BY <1>3, <1>4, <1>8, RestOf DEF Told
  <2>2. controller' \in {controller, [controller EXCEPT !.enabled = FALSE]}
    BY <1>3, <1>8 DEF Applied
  <2>3. controller'.params = controller.params /\ controller'.scan = controller.scan
    BY <1>5, <2>2 DEF Controllers
  <2>4. QED  BY <1>3, <1>4, <2>1, <2>3, RestsDiffer DEF Told, Rests, ParamsInForce
<1>9. CASE cmd = "enable"
  <2>1. todo = <<"enable", "data">> /\ todo' = <<"data">>
    BY <1>3, <1>4, <1>9, RestOf DEF Told
  <2>2. controller' = [controller EXCEPT !.enabled = TRUE]
    BY <1>3, <1>9 DEF Applied
  <2>3. /\ controller'.params = controller.params /\ controller'.scan = controller.scan
        /\ controller'.enabled
    BY <1>5, <2>2 DEF Controllers
  <2>4. QED  BY <1>3, <1>4, <2>1, <2>3, RestsDiffer DEF Told, Rests, ParamsInForce
<1>10. CASE cmd = "data"
  <2>1. todo = <<"data">> /\ todo' = <<>>
    BY <1>3, <1>4, <1>10, RestOf DEF Told
  <2>2. controller' = [controller EXCEPT !.data = call.number]
    BY <1>3, <1>10 DEF Applied
  <2>3. /\ controller'.params = controller.params /\ controller'.scan = controller.scan
        /\ controller'.enabled = controller.enabled /\ controller'.data = call.number
    BY <1>5, <2>2 DEF Controllers
  <2>4. QED  BY <1>3, <1>4, <2>1, <2>3, RestsDiffer DEF Told, Rests, ParamsInForce
<1>11. QED  BY <1>6, <1>7, <1>8, <1>9, <1>10 DEF Commands

LEMMA SoFarInvariant == Spec => []SoFar
<1>1. Init => SoFar
  BY DEF Init, SoFar, Undisturbed
<1>2. HciInv /\ SoFar /\ [Next]_vars => SoFar'
  <2> SUFFICES ASSUME HciInv, SoFar, [Next]_vars  PROVE SoFar'
    OBVIOUS
  <2>1. CASE StartAdvertising
    BY <2>1, StartTold
  <2>2. CASE StopAdvertising
    BY <2>2 DEF StopAdvertising, Called, SoFar, Undisturbed
  <2>3. CASE Command
    <3>1. \E cmd \in Commands : Send(cmd)
      BY <2>3 DEF Command, SetAdvertisingParameters, SetScanResponseData, Disable, Enable,
                  SetAdvertisingData, Commands
    <3>2. QED  BY <3>1, CommandTold
  <2>4. CASE Adapter
    BY <2>4 DEF Adapter, Connected, PowerDown, PowerUp, Unplug, Plug, SoFar, Undisturbed
  <2>5. CASE UNCHANGED vars
    BY <2>5 DEF vars, SoFar, Undisturbed, Told, ParamsInForce
  <2>6. QED  BY <2>1, <2>2, <2>3, <2>4, <2>5 DEF Next, Program
<1>3. QED  BY <1>1, <1>2, HciInvariant, PTL DEF Spec

\* A start that threw nothing and was not disturbed has made the controller
\* advertise with its own data: no failure of this call or of an earlier one
\* passes in silence.
THEOREM SilenceMeansSuccess == Spec => []SilenceIsSuccess
<1>1. SoFar => SilenceIsSuccess
  BY RestsDiffer DEF SoFar, Undisturbed, Told, SilenceIsSuccess, Returned
<1>2. QED  BY <1>1, SoFarInvariant, PTL

\* Of its parameters that cannot be said.  Such a start has set them exactly when
\* they were valid and the controller was not advertising before: of a status
\* that refuses them nobody is told.
THEOREM ParametersAreTaken == Spec => []ParametersTaken
<1>1. SoFar => ParametersTaken
  BY RestsDiffer DEF SoFar, Undisturbed, Told, ParamsInForce, ParametersTaken,
                      Returned
<1>2. QED  BY <1>1, SoFarInvariant, PTL

=============================================================================
