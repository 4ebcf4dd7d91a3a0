-------------------------------- MODULE Hci --------------------------------
(***************************************************************************)
(* Advertising: the HCI object of src/src/hci.cc, the socket it keeps to   *)
(* the Bluetooth adapter, and the adapter itself.                          *)
(*                                                                         *)
(* startAdvertising and stopAdvertising block the process while they send  *)
(* one command after another.  They do not block the adapter, which may be *)
(* unplugged or powered down between two commands, nor the central whose   *)
(* connection ends the advertising: a command is one action.  An exception *)
(* thrown from native code does not end it: the commands behind it are     *)
(* sent all the same, and the program sees the exception at the end.       *)
(***************************************************************************)
EXTENDS Naturals, Sequences

CONSTANT MaxCalls  \* bound: how many calls the program makes

ASSUME HciAssumption == MaxCalls \in Nat \ {0}

VARIABLES
  hciSocket,      \* "none" for -1; "dead" when its adapter is unplugged
  socketClosed,   \* HCI::socketClosed
  descriptors,    \* how many HCI sockets the process has open
  isAdvertising,  \* HCI::isAdvertising
  call,           \* the number of the call in progress and what it asks for
  todo,           \* the commands it has still to send
  thrown,         \* it has thrown an exception
  disturbed,      \* the adapter was touched by others since it began
  adapter,        \* "absent", "down" or "up"
  controller      \* what the controller does; the call that told it so

vars == <<hciSocket, socketClosed, descriptors, isAdvertising, call, todo, thrown,
          disturbed, adapter, controller>>

hciVars == <<hciSocket, socketClosed, descriptors, isAdvertising, call, todo, thrown>>

----------------------------------------------------------------------------

Commands == {"params", "scan", "disable", "enable", "data"}
Number   == 0 .. MaxCalls

\* What a call asks for.  valid: its parameters are such as a controller accepts;
\* over: the controller was advertising when the call began.
CallType == [number : Number, starts : BOOLEAN, params : BOOLEAN, valid : BOOLEAN,
             scan : BOOLEAN, over : BOOLEAN]

Controllers == [enabled : BOOLEAN, params : Number, scan : Number, data : Number]

\* A controller that was reset: it does not advertise and has its defaults.
Reset == [enabled |-> FALSE, params |-> 0, scan |-> 0, data |-> 0]

TypeOK ==
  /\ hciSocket \in {"none", "open", "dead"}
  /\ socketClosed \in BOOLEAN
  /\ descriptors \in Nat
  /\ isAdvertising \in BOOLEAN
  /\ call \in CallType
  /\ todo \in Seq(Commands)
  /\ thrown \in BOOLEAN
  /\ disturbed \in BOOLEAN
  /\ adapter \in {"absent", "down", "up"}
  /\ controller \in Controllers

Init ==
  /\ hciSocket = "none"
  /\ socketClosed = TRUE
  /\ descriptors = 0
  /\ isAdvertising = FALSE
  /\ call = [number |-> 0, starts |-> FALSE, params |-> FALSE, valid |-> TRUE,
             scan |-> FALSE, over |-> FALSE]
  /\ todo = <<>>
  /\ thrown = FALSE
  /\ disturbed = FALSE
  /\ adapter \in {"absent", "down", "up"}
  /\ controller = Reset

----------------------------------------------------------------------------
(* Calls                                                                   *)

\* Seeded fault: the parameters go last.
StepsParamsLast(params, scan) ==
  (IF scan THEN <<"scan">> ELSE <<>>) \o <<"disable", "enable", "data">>
    \o (IF params THEN <<"params">> ELSE <<>>)

\* What StartAdvertising sends, given advertising parameters and scan data.
Steps(params, scan) ==
  (IF params THEN <<"params">> ELSE <<>>) \o (IF scan THEN <<"scan">> ELSE <<>>)
    \o <<"disable", "enable", "data">>

Called(starts, params, valid, scan, commands) ==
  /\ todo = <<>>
  /\ call.number < MaxCalls
  /\ call' = [number |-> call.number + 1, starts |-> starts, params |-> params,
              valid |-> valid, scan |-> scan, over |-> controller.enabled]
  /\ todo' = commands
  /\ disturbed' = FALSE
  /\ UNCHANGED <<hciSocket, socketClosed, descriptors, isAdvertising, adapter, controller>>

\* An option may be of the wrong type or out of range, which throws and does not
\* keep the parameters from being sent.  Whether these are valid is another
\* matter: the value that is sent in its place may be, and what throws nothing
\* need not be, such as the empty channel map where chanMap is not given.
\* (A call with the wrong arguments throws, returns and changes nothing.)
StartAdvertising ==
  \E params, valid, scan, throws \in BOOLEAN :
    /\ params \/ (valid /\ ~throws)
    /\ Called(TRUE, params, valid, scan, Steps(params, scan))
    /\ thrown' = throws

StopAdvertising == Called(FALSE, FALSE, TRUE, FALSE, <<"disable">>) /\ thrown' = FALSE

----------------------------------------------------------------------------
(* getHCISocket                                                            *)

Socket(fd, closed, open, throws) ==
  [fd |-> fd, closed |-> closed, open |-> open, throws |-> throws]

\* Seeded faults: the flag is not looked at; a closed socket is not forgotten.
SocketsAnew ==
  {Socket("none", FALSE, descriptors, TRUE)}
    \cup (IF adapter = "up" THEN {Socket("open", FALSE, descriptors + 1, FALSE)} ELSE {})
SocketsStale ==
  IF ~socketClosed THEN {Socket(hciSocket, FALSE, descriptors, FALSE)}
  ELSE {Socket("closed", TRUE, descriptors, TRUE)}

\* The socket as it is while the flag says it is not closed.  Otherwise the
\* open fails, which clears the flag nonetheless; or the adapter is not up, and
\* the socket is closed again; or all is well.
Sockets ==
  IF ~socketClosed THEN {Socket(hciSocket, FALSE, descriptors, FALSE)}
  ELSE {Socket("none", FALSE, descriptors, TRUE)}
         \cup (IF adapter = "up" THEN {Socket("open", FALSE, descriptors + 1, FALSE)}
                                 ELSE {Socket("none", TRUE, descriptors, TRUE)})

----------------------------------------------------------------------------
(* Commands                                                                *)

\* A controller refuses parameters that are not valid, and any while it advertises.
Accepts(cmd) == cmd = "params" => call.valid /\ ~controller.enabled

\* How a command ends: accepted, refused with a status, or failed, which after
\* a timeout may come late.
Outcomes(cmd, socket) ==
  IF socket.fd # "open" \/ adapter # "up" THEN {"failed"}
  ELSE {"failed"} \cup (IF Accepts(cmd) THEN {"done", "late"} ELSE {"refused"})
         \cup (IF cmd # "params" THEN {"refused"} ELSE {})

Applied(cmd) ==
  CASE cmd = "params"  -> [controller EXCEPT !.params = call.number]
    [] cmd = "scan"    -> [controller EXCEPT !.scan = call.number]
    [] cmd = "data"    -> [controller EXCEPT !.data = call.number]
    [] cmd = "enable"  -> [controller EXCEPT !.enabled = TRUE]
    [] cmd = "disable" -> [controller EXCEPT !.enabled = FALSE]

\* Seeded fault: the status of a command is never looked at.
ThrowsOnFailure(cmd, outcome) == outcome \in {"failed", "late"} /\ cmd # "disable"

\* Disabling is not checked at all; of the parameters, the status is not.
Throws(cmd, outcome) ==
  \/ outcome \in {"failed", "late"} /\ cmd # "disable"
  \/ outcome = "refused" /\ cmd \in {"scan", "enable", "data"}

Send(cmd) ==
  /\ todo # <<>>
  /\ Head(todo) = cmd
  /\ todo' = Tail(todo)
  /\ \E socket \in Sockets : \E outcome \in Outcomes(cmd, socket) :
       /\ hciSocket' = socket.fd
       /\ socketClosed' = socket.closed
       /\ descriptors' = socket.open
       /\ thrown' = (thrown \/ socket.throws \/ Throws(cmd, outcome))
       /\ controller' = IF outcome \in {"done", "late"} THEN Applied(cmd) ELSE controller
  /\ UNCHANGED <<call, disturbed, adapter>>

SetAdvertisingParameters == Send("params") /\ UNCHANGED isAdvertising
SetScanResponseData      == Send("scan") /\ UNCHANGED isAdvertising
Disable                  == Send("disable") /\ isAdvertising' = FALSE
Enable                   == Send("enable") /\ UNCHANGED isAdvertising
SetAdvertisingData       == Send("data") /\ isAdvertising' = TRUE

----------------------------------------------------------------------------
(* The adapter                                                             *)

\* A central connects: the controller stops advertising by itself.
Connected ==
  /\ adapter = "up"
  /\ controller.enabled
  /\ controller' = [controller EXCEPT !.enabled = FALSE]
  /\ disturbed' = TRUE
  /\ UNCHANGED <<hciVars, adapter>>

PowerDown ==
  /\ adapter = "up"
  /\ adapter' = "down"
  /\ controller' = Reset
  /\ disturbed' = TRUE
  /\ UNCHANGED hciVars

PowerUp ==
  /\ adapter = "down"
  /\ adapter' = "up"
  /\ disturbed' = TRUE
  /\ UNCHANGED <<hciVars, controller>>

\* An open socket is of no use any more once its adapter is gone.
Unplug ==
  /\ adapter # "absent"
  /\ adapter' = "absent"
  /\ controller' = Reset
  /\ hciSocket' = IF hciSocket = "open" THEN "dead" ELSE hciSocket
  /\ disturbed' = TRUE
  /\ UNCHANGED <<socketClosed, descriptors, isAdvertising, call, todo, thrown>>

Plug ==
  /\ adapter = "absent"
  /\ adapter' = "down"
  /\ disturbed' = TRUE
  /\ UNCHANGED <<hciVars, controller>>

----------------------------------------------------------------------------

Program == StartAdvertising \/ StopAdvertising

Command == SetAdvertisingParameters \/ SetScanResponseData \/ Disable \/ Enable
             \/ SetAdvertisingData

Adapter == Connected \/ PowerDown \/ PowerUp \/ Unplug \/ Plug

Next == Program \/ Command \/ Adapter

Spec == Init /\ [][Next]_vars

----------------------------------------------------------------------------
(* Properties                                                              *)

\* hciSocket and socketClosed account for the sockets of the process: none is
\* opened over another that is still open, none is given up without being
\* closed, however opening it fails.
OneDescriptor == descriptors = IF hciSocket = "none" THEN 0 ELSE 1

\* startAdvertising has returned without an exception, and nobody else has
\* touched the adapter since it was called.
Returned == todo = <<>> /\ call.starts /\ ~thrown /\ ~disturbed

\* No exception means success: the controller advertises, with the data of this
\* call and not of an earlier one, whatever earlier calls have failed at.
SilenceIsSuccess ==
  Returned => /\ controller.enabled
              /\ controller.data = call.number
              /\ call.scan => controller.scan = call.number

\* No exception does not mean that the parameters of the call are in force: they
\* are exactly when they were valid and the controller was not advertising when
\* the call began.  Otherwise it goes on with those of an earlier call.
ParametersTaken ==
  Returned /\ call.params =>
    (controller.params = call.number <=> call.valid /\ ~call.over)

=============================================================================
