-------------------------------- MODULE Btio --------------------------------
(***************************************************************************)
(* The life of a Bluetooth socket: bt_io_connect, bt_io_listen and         *)
(* bt_io_get of src/src/btio.c, called by Connection and Central with the  *)
(* options of setOpts in src/src/util.cc, and what the kernel makes of     *)
(* them.                                                                   *)
(*                                                                         *)
(* create_handle opens a socket, binds it, gives it its options one by one *)
(* and makes it nonblocking; bt_io_connect and bt_io_listen then connect   *)
(* it or listen on it.  Each of these is a system call, an action here,    *)
(* and each may fail, upon which the function that made it has to close    *)
(* the socket.                                                             *)
(***************************************************************************)
EXTENDS Integers, Sequences

CONSTANTS
  Owners,   \* who opens the socket: among "Connection" and "Central"
  Options   \* the options it may be opened with

Types  == {"L2CAP", "RFCOMM", "SCO"}
Level  == 0 .. 3  \* BT_SECURITY_SDP to BT_SECURITY_HIGH
Choice == {-1, 0, 1}  \* not given, no, yes

\* The members of set_opts that the calls depend on.  sizes: imtu, omtu or mode
\* (for SCO: mtu) is not zero; fixed: the channel is that of ATT, not one the
\* peer allots.
SetOpts == [type : Types, sec_level : Level, sizes : BOOLEAN, master : Choice,
            flushable : Choice, priority : BOOLEAN, fixed : BOOLEAN]

ASSUME BtioAssumption ==
  /\ Owners \subseteq {"Connection", "Central"}
  /\ Options \subseteq SetOpts

VARIABLES
  owner,     \* who called
  opts,      \* with what
  todo,      \* the system calls still to make
  fd,        \* the descriptor: "none", "open", "closed" or "closedTwice"
  sock,      \* what create_handle returns: "none" for -1, or "fd"
  stage,     \* how far the socket has come
  socket,    \* what the kernel holds for it
  security,  \* the kernel knows BT_SECURITY
  stored     \* the variables of the caller bt_io_get has set

vars == <<owner, opts, todo, fd, sock, stage, socket, security, stored>>

given == <<owner, opts, security>>
descriptor == <<fd, sock>>

----------------------------------------------------------------------------
(* The system calls, in their order                                        *)

If(condition, calls) == IF condition THEN calls ELSE <<>>

\* l2cap_set.
L2capSettings(o) ==
  If(o.sizes, <<"getOptions", "setOptions">>)
    \o If(o.master >= 0, <<"getLinkMode", "setMaster">>)
    \o If(o.flushable >= 0, <<"setFlushable">>)
    \o If(o.priority, <<"setPriority">>)
    \o If(o.sec_level > 0, <<"setSecurity">>)

\* Seeded fault: the order of l2cap_set.
RfcommMasterFirst(o) ==
  If(o.master >= 0, <<"getLinkMode", "setMaster">>)
    \o If(o.sec_level > 0, <<"setSecurity">>)

\* rfcomm_set.
RfcommSettings(o) ==
  If(o.sec_level > 0, <<"setSecurity">>)
    \o If(o.master >= 0, <<"getLinkMode", "setMaster">>)

\* sco_set.
ScoSettings(o) == If(o.sizes, <<"getOptions", "setOptions">>)

Settings(o) ==
  CASE o.type = "L2CAP"  -> L2capSettings(o)
    [] o.type = "RFCOMM" -> RfcommSettings(o)
    [] o.type = "SCO"    -> ScoSettings(o)

\* create_handle, and the call that follows it in bt_io_connect and bt_io_listen.
Opening(who, o) ==
  <<"socket", "bind">> \o Settings(o) \o <<"getFlags", "setNonblocking">>
    \o (IF who = "Connection" THEN <<"connect">> ELSE <<"listen">>)

\* Seeded faults: Connection asks for another size; for the channel first.
AskedOmtu(who) ==
  IF who = "Connection" THEN <<"omtu", "cid">> ELSE <<"source", "dest", "cid", "imtu">>
AskedCidFirst(who) ==
  IF who = "Connection" THEN <<"cid", "imtu">> ELSE <<"source", "dest", "cid", "imtu">>

\* The options each caller asks bt_io_get for, once connected.
Asked(who) ==
  IF who = "Connection" THEN <<"imtu", "cid">> ELSE <<"source", "dest", "cid", "imtu">>

\* bt_io_get_type and the calls at the head of l2cap_get, rfcomm_get, sco_get.
Getting(who, o) ==
  <<"getDomain", "getProtocol">> \o If(o.type # "RFCOMM", <<"getOptions">>)
    \o <<"getPeers">> \o Asked(who)

Supported(type) ==
  CASE type = "L2CAP"  -> {"source", "dest", "cid", "imtu"}
    [] type = "RFCOMM" -> {"source", "dest"}
    [] type = "SCO"    -> {"source", "dest", "imtu"}

Wanted == {"source", "dest", "cid", "imtu"}

SystemCalls ==
  {"socket", "bind", "getOptions", "setOptions", "getLinkMode", "setMaster",
   "setFlushable", "setPriority", "setSecurity", "setLevel", "getFlags",
   "setNonblocking", "connect", "listen", "getDomain", "getProtocol", "getPeers"}

----------------------------------------------------------------------------
(* The kernel                                                              *)

Sockets == [bound : BOOLEAN, sizes : BOOLEAN, master : BOOLEAN, flushable : Choice,
            priority : BOOLEAN, level : Level, nonblocking : BOOLEAN, live : BOOLEAN]

Fresh == [bound |-> FALSE, sizes |-> FALSE, master |-> FALSE, flushable |-> -1,
          priority |-> FALSE, level |-> 1, nonblocking |-> FALSE, live |-> FALSE]

\* What a call that succeeds does to the socket.  The link mode holds the level
\* and the flag of the master: l2cap_set_lm and rfcomm_set_lm, which set the
\* level through it, clear the flag.
Applied(call) ==
  CASE call = "bind"           -> [socket EXCEPT !.bound = TRUE]
    [] call = "setOptions"     -> [socket EXCEPT !.sizes = TRUE]
    [] call = "setMaster"      -> [socket EXCEPT !.master = (opts.master = 1)]
    [] call = "setFlushable"   -> [socket EXCEPT !.flushable = opts.flushable]
    [] call = "setPriority"    -> [socket EXCEPT !.priority = TRUE]
    [] call = "setSecurity"    -> [socket EXCEPT !.level = opts.sec_level]
    [] call = "setLevel"       -> [socket EXCEPT !.level = opts.sec_level, !.master = FALSE]
    [] call = "setNonblocking" -> [socket EXCEPT !.nonblocking = TRUE]
    [] call \in {"connect", "listen"} -> [socket EXCEPT !.live = TRUE]
    [] OTHER -> socket

----------------------------------------------------------------------------
(* bt_io_connect and bt_io_listen                                          *)

\* In "created" create_handle has returned to the two.  "failed" is their -1,
\* "socket" the descriptor they return; then bt_io_get asks, and has its answer, or
\* has not because a system call failed.
Stages == {"creating", "created", "failed", "socket", "asking", "answered", "unanswered"}

TypeOK ==
  /\ owner \in Owners
  /\ opts \in Options
  /\ todo \in Seq(SystemCalls \cup Wanted)
  /\ fd \in {"none", "open", "closed", "closedTwice"}
  /\ sock \in {"none", "fd"}
  /\ stage \in Stages
  /\ socket \in Sockets
  /\ security \in BOOLEAN
  /\ stored \subseteq Wanted

Init ==
  /\ owner \in Owners
  /\ opts \in Options
  /\ todo = Opening(owner, opts)
  /\ fd = "none"
  /\ sock = "none"
  /\ stage = "creating"
  /\ socket = Fresh
  /\ security \in BOOLEAN
  /\ stored = {}

IsNext(call) == todo # <<>> /\ Head(todo) = call

\* close.
Close == IF fd = "open" THEN "closed" ELSE "closedTwice"

\* socket.
Open ==
  /\ IsNext("socket")
  /\ fd' = "open"
  /\ sock' = "fd"
  /\ todo' = Tail(todo)
  /\ UNCHANGED <<given, stage, socket, stored>>

OpenFails ==
  /\ IsNext("socket")
  /\ stage' = "created"
  /\ todo' = <<>>
  /\ UNCHANGED <<given, descriptor, socket, stored>>

\* set_sec_level, on a kernel that does not know BT_SECURITY, sets the link mode.
SecurityUnknown ==
  /\ IsNext("setSecurity")
  /\ ~security
  /\ todo' = <<"setLevel">> \o Tail(todo)
  /\ UNCHANGED <<given, descriptor, stage, socket, stored>>

\* l2cap_set_master and rfcomm_set_master leave the flag that is as it should be.
MasterAlready ==
  /\ IsNext("getLinkMode")
  /\ socket.master = (opts.master = 1)
  /\ todo' = Tail(Tail(todo))
  /\ UNCHANGED <<given, descriptor, stage, socket, stored>>

Skipped(call) ==
  \/ call = "setSecurity" /\ ~security
  \/ call = "getLinkMode" /\ socket.master = (opts.master = 1)

Last == {"connect", "listen"}

\* A call of create_handle other than the first, and the one that follows it.
Setting == stage = "creating" /\ todo # <<>> /\ Head(todo) \notin Last \cup {"socket"}
Ending  == stage = "created" /\ sock = "fd" /\ todo # <<>> /\ Head(todo) \in Last

\* Such a call succeeds; connect does, too, when it cannot be completed at once.
Succeeds ==
  /\ Setting \/ Ending
  /\ fd = "open"
  /\ ~Skipped(Head(todo))
  /\ socket' = Applied(Head(todo))
  /\ todo' = Tail(todo)
  /\ UNCHANGED <<given, descriptor, stage, stored>>

\* Seeded fault: create_handle closes the socket and returns it.
SettingFailsReturned ==
  /\ Setting
  /\ fd' = Close
  /\ stage' = "created"
  /\ todo' = <<todo[Len(todo)]>>
  /\ UNCHANGED <<given, sock, socket, stored>>

\* A call of create_handle fails: it closes the socket and returns -1.
SettingFails ==
  /\ Setting
  /\ fd' = Close
  /\ sock' = "none"
  /\ stage' = "created"
  /\ todo' = <<>>
  /\ UNCHANGED <<given, socket, stored>>

Created ==
  /\ stage = "creating"
  /\ todo # <<>> /\ Head(todo) \in Last
  /\ stage' = "created"
  /\ UNCHANGED <<given, todo, descriptor, socket, stored>>

\* bt_io_connect and bt_io_listen hand on the -1 of create_handle.
NotCreated ==
  /\ stage = "created"
  /\ sock = "none"
  /\ stage' = "failed"
  /\ UNCHANGED <<given, todo, descriptor, socket, stored>>

\* bt_io_connect closes the socket it cannot connect.
ConnectFails ==
  /\ Ending
  /\ Head(todo) = "connect"
  /\ fd' = Close
  /\ stage' = "failed"
  /\ todo' = <<>>
  /\ UNCHANGED <<given, sock, socket, stored>>

\* bt_io_listen closes the socket it cannot listen on.
ListenFails ==
  /\ Ending
  /\ Head(todo) = "listen"
  /\ fd' = Close
  /\ stage' = "failed"
  /\ todo' = <<>>
  /\ UNCHANGED <<given, sock, socket, stored>>

Returns ==
  /\ stage = "created"
  /\ sock = "fd"
  /\ todo = <<>>
  /\ stage' = "socket"
  /\ UNCHANGED <<given, todo, descriptor, socket, stored>>

----------------------------------------------------------------------------
(* bt_io_get                                                               *)

\* The connection is up, or accepted: onConnect asks for what it needs to know.
Connected ==
  /\ stage = "socket"
  /\ stage' = "asking"
  /\ todo' = Getting(owner, opts)
  /\ UNCHANGED <<given, descriptor, socket, stored>>

Asking(calls) == stage = "asking" /\ todo # <<>> /\ Head(todo) \in calls

GetSucceeds ==
  /\ Asking(SystemCalls)
  /\ todo' = Tail(todo)
  /\ UNCHANGED <<given, descriptor, stage, socket, stored>>

\* bt_io_get returns false, at which nobody looks.
GetFails ==
  /\ Asking(SystemCalls)
  /\ stage' = "unanswered"
  /\ todo' = <<>>
  /\ UNCHANGED <<given, descriptor, socket, stored>>

\* The options are stored one by one, up to the first the type does not have.
Store ==
  /\ Asking(Supported(opts.type))
  /\ stored' = stored \cup {Head(todo)}
  /\ todo' = Tail(todo)
  /\ UNCHANGED <<given, descriptor, stage, socket>>

Unsupported ==
  /\ Asking(Wanted \ Supported(opts.type))
  /\ todo' = <<>>
  /\ UNCHANGED <<given, descriptor, stage, socket, stored>>

Answered ==
  /\ stage = "asking"
  /\ todo = <<>>
  /\ stage' = "answered"
  /\ UNCHANGED <<given, todo, descriptor, socket, stored>>

----------------------------------------------------------------------------

Next ==
  \/ Open \/ OpenFails \/ SecurityUnknown \/ MasterAlready \/ Succeeds \/ SettingFails
  \/ Created \/ NotCreated \/ ConnectFails \/ ListenFails \/ Returns
  \/ Connected \/ GetSucceeds \/ GetFails \/ Store \/ Unsupported \/ Answered

Spec == Init /\ [][Next]_vars

----------------------------------------------------------------------------
(* Properties                                                              *)

\* create_handle, bt_io_connect and bt_io_listen share the duty to close.
\* Whichever call of whichever of them fails, none closes what another has closed,
\* a socket that is not returned is closed, and one that is returned is open.
NoDescriptorLeft ==
  /\ fd # "closedTwice"
  /\ stage = "failed" => fd # "open"
  /\ stage \in Stages \ {"creating", "created", "failed"} => fd = "open"

\* On a kernel without BT_SECURITY the level goes into the link mode of an L2CAP
\* socket after the flag of the master, which it clears.
MasterLost == opts.type = "L2CAP" /\ opts.sec_level > 0 /\ ~security

\* A socket is connected or listened on only when it is bound, does not block
\* and has every option that was asked for and that its type has, but a master
\* that is lost.
LiveAsAsked ==
  socket.live =>
    /\ socket.bound /\ socket.nonblocking
    /\ opts.sizes /\ opts.type # "RFCOMM" => socket.sizes
    /\ opts.type = "L2CAP" =>
         socket.flushable = opts.flushable /\ socket.priority = opts.priority
    /\ opts.type # "SCO" =>
         /\ opts.sec_level > 0 => socket.level = opts.sec_level
         /\ opts.master >= 0 /\ ~MasterLost => socket.master = (opts.master = 1)

\* The size of the buffer Connection::getBuffer makes: the MTU of ATT, the one
\* the socket has, or nothing, which the requests would overrun.
BufferSize ==
  IF "cid" \in stored /\ opts.fixed THEN "att" ELSE IF "imtu" \in stored THEN "imtu" ELSE "empty"

\* A system call has failed; the socket has no MTU to tell; or Central asked it for
\* the channel, which it has not, before the MTU.
NotTold ==
  \/ stage = "unanswered"
  \/ opts.type = "RFCOMM"
  \/ opts.type = "SCO" /\ owner = "Central"

\* Nobody looks at what bt_io_get returns.  However it ends, the buffers of its
\* caller are of no size in these cases, and in no other.
SizeIsKnown ==
  stage \in {"answered", "unanswered"} => (BufferSize = "empty" <=> NotTold)

=============================================================================
