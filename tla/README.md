# btle.js in TLA+

btle.js is a Node.js addon that speaks Bluetooth Low Energy: as a *client* it
connects to a device and reads and writes its attributes, as a *server* it
advertises, accepts a connection and answers for its own attributes. This
directory holds TLA+ modules of it, configurations that check them with TLC,
and proofs checked by TLAPS. Paths below are those of the repository.

- [Inventory](#inventory): the parts of the system, their state, what is hard
- [Modules](#modules): which module models which part, and how to read it
- [Runs](#runs): what TLC checks, within which bounds and why they suffice
- [Fairness](#fairness)
- [Theorems](#theorems): what is proved for all values of the constants, and how
- [Deviations found](#deviations-found)
- [What is not modelled](#what-is-not-modelled)
- [Plan](#plan)

## Inventory

| Part | Source | State it keeps | Operations | Talks to |
|---|---|---|---|---|
| ATT client | `src/att.cc` | `currentRequest`; the cached lists `attributeList`, `handlesInfoList`, `groupAttributeDataList`; `notificationMap` | five requests, writes, `listenForNotifications`, `handleRead`, `close` | Connection below; Peripheral's C++ callbacks above |
| Peripheral addon | `src/peripheral.cc` | `att`, `connectionCallback`, `closeCallback` | one JavaScript function per ATT operation, `connect`, `close` | ATT client; JavaScript callbacks and events |
| Connection | `src/connection.cc` | `sock`, `poll_handle`, `tcp`, `tcp->data` | `connect`, `write`, `close`; callbacks from libuv | libuv, Bluetooth sockets |
| Central addon | `src/central.cc` | `sock`, `poll_handle`, `tcp`, `mtu` | `listen`, `write`, `close`; callbacks from libuv | libuv; emits `connect`, `data`, `close`, `error` |
| HCI addon | `src/hci.cc` | `hciSocket`, `socketClosed`, `state`, `isAdvertising` | `startAdvertising`, `stopAdvertising` | the Bluetooth controller, synchronously |
| Peripheral | `lib/peripheral.js` | `services`, one Central, one HCI | `listen`, `close`, `advertise`, `stopAdvertising` | Central, HCI, ATT server |
| ATT server | `lib/att.js` | `attributes`, `handles`, `mtuSize`, notification listeners | one handler per request opcode | Central; services |
| Services | `lib/service.js`, `lib/characteristic.js`, `lib/gap.js`, `lib/gatt.js` | handles of declarations and values | `setHandle`, `findCharacteristics`, value access | ATT server; a client's `readByType` |
| UUIDs | `lib/uuid.js`, `src/uuid.h` | `uuids`, a cache from long strings to objects | `getUUID` | services, ATT server, clients |
| Client JavaScript | `lib/peripheralInterface.js`, `lib/btle.js`, `index.js` | none | forwarding | Peripheral addon |
| Bluetooth sockets | `src/btio.c` | none of its own; a socket in the kernel | `bt_io_connect`, `bt_io_listen`, `bt_io_get` | the kernel; Connection, Central |
| Helpers | `src/util.cc`, `src/debug.cc`, `src/btleException.cc` | the debug flag | option parsing, errors | everything |

All of it runs on the one thread of the event loop, so a handler is atomic.
The difficulty lies between handlers:

- **ATT client.** One outstanding request; a list collected over several
  exchanges whose state lives in the object between two handlers; a device that
  may answer, refuse, answer late, send something nobody asked for, or vanish.
  Correct: the pending call owns the slot and the cached list; a call is
  answered once; an answer is the complete list.
- **Connection.** `uv_close` is asynchronous; `tcp->data` changes owner; writes
  are queued; a second `connect` leaves the handles of the first in the loop.
  Correct: no callback is given another's data, and every callback owed is made.
- **Central.** One `sock`, one `poll_handle` and one `tcp` for any number of
  listens and connections, overwritten in callbacks, and a program that
  reacts to events by listening again. Correct: no socket is closed under its
  watcher, replies go where the request came from, the server never goes deaf.
- **HCI.** A sequence of commands that an exception does not stop; an adapter
  that changes under it; a socket kept across calls. Correct: a call that
  throws nothing has done what it was asked, and sockets are accounted for.
- **Services and the registry.** A registry indexed by handle, filled by
  constructors that disagree with it on the order of arguments, and a numbering
  that writes into buffers earlier calls have made. Correct: services can be
  built of characteristics. They cannot.
- **UUIDs.** One cache filled from five kinds of spelling, each with its own way
  to the key. Correct: a look-up gives the UUID that was spelled, and spellings
  that are compared give the same object, whatever was looked up before.
- **Bluetooth sockets.** A dozen system calls in a row, any of which may fail,
  some of which undo what others did, and a duty to close that three functions
  share. Correct: no descriptor leaks, a socket goes live as it was asked
  to be, and its owner knows the MTU its buffers are made of.

`PROJECT.json` lists the hazards one by one, each at its line and with the
properties that would catch it.

## Modules

| Module | Models | Kind |
|---|---|---|
| `Att` | handles, operations, what a device reports, what a request must deliver | vocabulary |
| `AttRequests` | what the ATT client promises its program | abstract specification |
| `AttClient` | `src/att.cc` with the answer callbacks of `src/peripheral.cc`, the device and the link | specification |
| `MCAttClient` | two devices and sets of calls for TLC | instance |
| `AttClient_proofs` | theorems about `AttClient` with any device | proofs |
| `AttResults_proofs` | theorems about `AttClient` with a device that keeps to the protocol | proofs |
| `Connection` | `src/connection.cc`, `connect`, `write` and `close` of `src/peripheral.cc`, the slot for a request of `src/att.cc`, libuv's part | specification |
| `Sessions` | what the connections of a Peripheral are to a program: sessions that have the callbacks in common and nothing else | abstract specification |
| `Connection_proofs` | theorems about `Connection` | proofs |
| `Central` | `src/central.cc`, `listen` and `close` of `lib/peripheral.js`, the reacting program | specification |
| `CentralServer` | what a Central is to a program: a server of one client at a time | abstract specification |
| `MCCentral` | two programs for TLC | instance |
| `Central_proofs` | theorems about `Central` | proofs |
| `Uuid` | `getUUID` and the cache of `lib/uuid.js` | specification |
| `Uuid_proofs` | theorems about `Uuid` | proofs |
| `Gatt` | the registry of `lib/att.js` and the constructors of `lib/characteristic.js`, `lib/service.js`, `lib/gatt.js`, `lib/gap.js`, `lib/peripheral.js` | specification |
| `Btio` | `bt_io_connect`, `bt_io_listen`, `bt_io_get` of `src/btio.c`, the options of `src/util.cc`, the kernel's part | specification |
| `Btio_proofs` | theorems about `Btio` | proofs |
| `Hci` | `src/hci.cc` and the adapter | specification |
| `Hci_proofs` | theorems about `Hci` | proofs |

Common conventions. Variables carry the names of the C++ members where there is
one; others (`link`, `queue`, `controller`) are the environment. A handler is one
action. JavaScript called back from native code may call back into it: every
handler modelled does so as its last deed, so what the program then does is the
next action. Undefined behaviour that ends the process (a NULL dereference, an
assertion of libuv, an exception nobody catches) sets `crash` and nothing is
enabled afterwards. Operators marked "Seeded fault" are not part of the
specification: each is a plausible bug against which one property is tested.

### AttClient

`Issue` and `Busy` are a request function that gets, or does not get, the slot.
`ReadAnswer`, `ReadError`, `ReadNothingFound`, `ReadEmptyPage`,
`ReadNotification` and `ReadUnexpected` are the branches of `handleRead` on a
PDU; `BreakPending`, `BreakIdle`, `BreakParsing` and `BreakFirstPage` those on a
read error. `Accumulate`, `Single`, `EndOfList` and `Failure` are the operation's
own handler: parse onto the cached list, then ask on or finish.

A list is a sequence of handles. Types, values and group end handles are
dropped: nothing in the client depends on them. So are encodings; the only
arithmetic kept is the follow-up's start handle, a `uint16_t` that wraps. The
three cached lists are one function `lists` over the three paged operations.
`toDevice` and `toClient` are the two directions of the link, in order, as L2CAP
delivers; when the link is lost, what the client has already received is still
read before the error. `listening` is no member of the client: it records the
registrations in their order, so that a property can say which of two came first.

The device (`Answers`) keeps to the protocol: it refuses ill-formed ranges, may
refuse anything, and otherwise reports in order some of the smallest handles
in range, as many as it likes up to a page. `DevicePushes` is a device that
also sends notifications and opcodes that answer nothing.

`AttRequests` has four steps for a call: accepted, refused, answered with the
complete list, failed. `AttClient` implements it under the mapping
`dead <- crash # "none"`.

### Connection

Every `Connect` makes a new Connection, and `att` names the current one; the
handles of the others go on. `poll_handle` and `tcp` hold the state of a libuv
handle: `active`, `closing` between `uv_close` and its callback, `closed`.
`Loop` is what libuv does: the poll fires, a write completes, a close is called
back and cancels queued writes. A read error leaves the stream open, as the
code does.

Each Connection belongs to an Att of its own, which has the one slot for a
request that `AttClient` follows in detail. Here it is composed with what is below:
`Issue` takes the slot of the Att in use and writes, `OnRead` hands what was read to
the Att of *its* connection, so that an answer, a notification or a read error
may arrive on a connection that was replaced, while the one in use has a request
of its own, or is closing. What differs between requests, lists and pages, is
left to `AttClient`; an answer is one PDU. A message is either a command
(`Write`) or a request. `open` are the sockets that are open in the kernel.

`Sessions` is what is left of this for a program that does not look into the addon: each
session comes up or fails, calls back what was written in the order of writing, has
one request waiting at most, and ends. `Session` reads how far a session has come
from the poll handle and the stream of its connection. The sessions have in common what the
connections of a Peripheral have, and `Sessions` says how: the outcome of any
connect is handed to the callback of the latest (`told`, of `latest`), for
`connectionCallback` is overwritten; one close with an argument silences every session that
ends from then on (`silenced`), for nothing resets `closeCallback`; and only the latest is
written to and closed. The data of the handles and the descriptors are not in it. To
implement it means that nothing else lets one connection's step change what the program
sees of another.

### Central

The *n*-th listen, its socket and its poll handle, and the one client that can be
accepted through it share the number *n*. `event` holds the event the program has
still to react to. A program is a record: `reactions`, the deeds it may choose from, and
`listener`, what its `data` listener does. `Programs` is the set of programs the
server may be run by, of which each behaviour takes one. Two are checked
(`MCCentral`):

- a *careful* one, that listens again exactly when it has neither a connection
  nor a listen, and replies to requests itself;
- one with the *listeners of `startAdv.js`*, that listen again on `close` and
  on every `error`, with the handler of `lib/att.js`.

That handler throws on each PDU: `lib/att.js:518` uses `btle`, which the module
does not declare. And `startAdv.js` as it stands does not get to its listeners, for its
services cannot be built (see `Gatt`). The model of its listeners is over a
Peripheral whose services can.

### Hci

A call is a list `todo` of commands, sent one action each, because the adapter
may change between two of them even though the process is blocked. `Sockets` are
the outcomes of `getHCISocket`, with the quirk that a failed open clears
`socketClosed`; `Outcomes` those of a command, a late success after a timeout
included; `Throws` says which outcomes raise an exception. The exception does not
stop the commands behind it. The options of a call are abstracted to three questions: are
there parameters, does reading them throw, and are they such as a controller accepts? The
last two are independent of each other, because `StartAdvertising` goes on after an
exception, with whatever value it has by then, and because an option that is not given
throws nothing and may still spoil the parameters: without `chanMap` the channel map is
empty. `Accepts` is the controller's side: it refuses parameters that are not valid,
and any while it advertises. `controller` records which call last set the
parameters, the scan data and the advertising data.

### Uuid

A long string is its digits, its base, and the case of each: `uuids` compares
strings as they are written, so `KeyOf` says in which case each branch of
`getUUID` writes the key, and that a number lacks its leading zeros. `New` is
the object made for a spelling that is not cached; `GetAgain` is `getUUID` of an
object. The program keeps two answers, `uuid1` and `uuid2`, in any order, and
compares them. What spells no UUID is left out: it gives `null`, or an
exception, and does not touch the cache. `src/uuid.h`, which parses UUIDs for
the client, keeps nothing, so that there a UUID is a value in `Att`.

### Gatt

`createAttribute` is defined as `(type, value, handle, endHandle)` and called as
`(handle, type, value, endHandle)`. What the registry takes for the handle of an
attribute is therefore its value, turned into the name of a property of the array
`handles`. `NamesOf` and `ServiceName` are the names a constructor uses,
`Construct` registers them one by one until one is taken. The declaration of a
characteristic gets the buffer of its type's UUID for a value, two bytes long,
into which `setHandle` writes two bytes from the second on: `Numbering` throws
for every service that has a characteristic. The two bytes of a declaration's
own value that are never written without a handle are `Garbage`.

### Btio

`todo` is the list of system calls still to make, in the order of the code, one
action each. Each function that closes the socket does so in an action of its own:
`create_handle` when a call it has made fails (`SettingFails`, its label `failed`),
`bt_io_connect` in `ConnectFails`, `bt_io_listen` in `ListenFails`; `Close` tells a first close of
the descriptor from a second. `sock` is what `create_handle` returns, -1 or the descriptor, by
which its callers know whether the duty to close is theirs; on -1 they return
(`NotCreated`).
`SecurityUnknown` is a kernel that does not know `BT_SECURITY`: the level then
goes into the link mode, which clears the flag of the master. `socket` is what
the kernel holds for the socket; `Applied` is the effect of a call on it.
`Connected` is the `onConnect` of either owner, which asks for options: they are
stored one by one, up to the first that the socket's type does not have.

## Runs

| Run | Question | Bounds |
|---|---|---|
| `att_client` | Are results complete and calls answered, is `AttRequests` implemented, when does the process die? | 3 handles, pages of 2, 2 calls of any operation and range |
| `att_client_pushed` | Do the slot, the lists and the listeners survive a device that sends more than answers? | 2 handles, pages of 1, 2 calls, 2 listeners, 2 pushed PDUs |
| `att_client_idle_break` | Does an idle client survive the loss of the link? **No** | 1 call |
| `connection` | Do handles have one owner at a time, is every callback made, and once, are the requests and writes of different connections kept apart, are descriptors accounted for, is `Sessions` implemented? | 2 connections, 2 messages, each a command or a request |
| `connection_close_twice` | May the program close twice? **No** | 1 connection |
| `central` | Is a server sound and always back, careful or with the listeners of `startAdv.js`, and does it implement `CentralServer`? | 4 listens, 2 replies waiting, both programs |
| `central_reconnect` | Has the Central one `data` listener for the client after a reconnection? **No** | 2 listens |
| `hci` | Are sockets accounted for, does silence mean success, and when does it not mean that the parameters were taken? | 3 calls |
| `uuid` | Does a look-up give what was spelled, and when the same object? | 2 digit strings, one with letters, one with a leading zero; 3 objects |
| `uuid_singletons` | Is there one object for a UUID? **No** | the same |
| `gatt_services` | Can services be built of characteristics? **No** | 2 UUIDs, 3 values |
| `btio` | Is a socket closed by one of three functions, and once; does it go live as asked; does its owner know its MTU? | none: every combination of options |

Why these bounds are enough to meet the interesting cases. *att_client*: with
three handles and pages of at most two, a request takes one, two or three
exchanges; `FIND_INFO` fills the handle space to its last handle, so that the
boundary at which the start handle would wrap is reached; `FIND_BY_TYPE` has a
gap and `READ_BY_GROUP` ends early, so that the last page is followed by "not
found"; some ranges match nothing and some are ill-formed. Two calls are what it
takes for one to be refused, and for one to find what the other left behind.
*att_client_pushed*: two pushed PDUs can both precede and follow an answer; two
listeners can share a handle. Permuting calls and listeners is a symmetry, and
the run has no liveness property. *connection*: two connections show a second
connect during each stage of the first; two messages make a write completed and
one cancelled, a request refused because another waits, and a request on either
connection at once. *central*: a listen, its connection, the listen after it and one more
make every pairing of old and new handles; the queue lets a stream close with
writes outstanding. *hci*: the third call sees the socket, the flag and the data
that two earlier ones, failed or not, have left. *uuid*: case matters only to digits
with letters, zeros only to digits that begin with one, so there is one of each;
two answers are compared, and the third object lets the cache fill behind them.
*btio*: options that the code treats alike (`imtu`, `omtu` and `mode`; the
addresses) are one, and of the rest every value is taken, by either owner and
on either kind of kernel. The run is exhaustive.

`CHECK_DEADLOCK FALSE` is said where the system stops: when the calls are used up
and the link is closed, or the process is dead (`Central`, `Gatt`), or
the socket has been returned and asked (`Btio`). In `uuid` the program can always look
up again what is cached, and `hci` never stops, for the
adapter does not: both are checked for deadlock.

Each property is tested against a seeded fault (`mutants` in `PROJECT.json`): a
dropped comparison, a missing reset, an off-by-one, a callback on success alone.

The properties:

- `ResultIsComplete`, `OneExchangeOnWire`, `EventuallyAnswered` and the refinement
  `KeepsPromise` are about whole requests. `DeathIsExplained` names the only ways
  the client dies with a device that keeps to the protocol; it is a warning as
  much as a promise.
- `PendingIsCurrent`, `ListBelongsToRequest` and `AnswersAreFinal` are the bookkeeping.
  `OnlyFirstHears` says which of several listeners of a handle is called: the one that was
  registered first, and no other, before and after any notification.
- `NoStaleData`, `OneWatcher`, `WritesAnswered`, `ConnectsAnswered` and
  `CloseReported` are about Connection. The outcome of every connect reaches some
  callback; which one is part of `SessionsShareCallbacks`. `CloseReported` has its
  exception in the formula: no `close` is emitted once `Close` was given an argument.
- `RequestHasOneSlot` and `RequestsAnswered` are about Connection and the Atts over
  the connections together: no connect, close or late answer mixes up the requests of
  two connections. A request may wait for ever, and the formula says when: its
  message was refused by a stream that is closing, or has failed, of which nobody
  is told; its connection was closed; or a read error had come before it, after which
  the stream delivers nothing more.
- `WriteHasOneQueue` says where the callbacks of writes are still to come from: each write
  libuv has accepted and not called back stands in one queue, of a stream that has
  not closed. `SessionsShareCallbacks` is the refinement of `Sessions`: the connections share the
  callbacks of connect and close, in the way described above, and nothing else. An outcome is
  handed over once and to the latest callback, an end is reported or silenced as the closes
  so far say, writes are called back in the order in which they were written, and a request
  is answered while its session is up and only if it waits. That a session
  is called back by its own streams is what two connections at different stages put to
  the test.
- `DescriptorsAccountedFor` says that the one way to leak a socket is the connect
  whose poll fails.
- `WatchedIsOpen`, `ReaderIsCurrent`, `NeverDeaf`, `DiesOfExceptionsOnly` and
  `ServesAgain` are about Central *and* the program: for a program that listens
  while it is connected the first three are false. `ServesOneByOne` is the
  refinement of `CentralServer`: a program that waits with its next listen need not know
  of `sock`, `tcp` and `poll_handle`, nor that closing takes time.
- `OneDescriptor`, `SilenceIsSuccess` and `ParametersTaken` are about HCI. The last
  says exactly when a start that throws nothing has had its parameters taken: when they
  were valid and the controller did not advertise before. In the other cases the controller
  goes on with those of an earlier call, because parameters are sent before
  advertising is stopped and the status of the command is not looked at.
- `DenotesWhatIsSpelled`, `SpellingKeepsObject` and `TestedSpellingsAgree` are about
  UUIDs. The last is what is left of `Singletons`, which the comment in
  `lib/uuid.js` states: the spellings the repository's test compares agree, whatever
  the order of look-ups, because each makes its key with upper-case digits over
  the base as the source writes it.
- `NoDescriptorLeft`, `LiveAsAsked` and `SizeIsKnown` are about sockets. The first is about
  the three functions together: whichever call of whichever of them fails, the socket is
  closed, and not twice. `LiveAsAsked` has its exception in the formula: the flag of the master
  is lost on an L2CAP socket whose level has to go through the link mode (`MasterLost`).
  `SizeIsKnown` says exactly when the buffers of an owner would be empty (`NotTold`): when a
  system call of `bt_io_get` has failed, on an RFCOMM socket, and on a SCO socket of
  Central, which asks for the channel first. The code never looks at its result; its buffers
  are sized by the `imtu`, which is what it may receive, and the property says no more.

## Fairness

Weak fairness is assumed of what the event loop does and nothing else.
`AttClient`: what has arrived is read, a read error is delivered, and the device
answers while the link is up (the code has no timeout: without this a call may
wait for ever). `Connection`: libuv completes a poll, a write, a close, and the device
answers a request that has been written, while the client still reads; nothing is
assumed of other reads, nor of the program. `Central`: closes and writes are called
back, and the program reacts to the event it was given, which is no assumption
about scheduling but says that its listeners return. `Hci`, `Uuid`, `Gatt` and
`Btio` are sequential and state no liveness.

## Theorems

All are proved for every value of the constants allowed by the `ASSUME`s: any
number of handles, calls, connections, messages and listens, any page size, any device.
The theorems of `AttResults_proofs` assume a device that keeps to the protocol
(`PushKinds = {}`), those of `Central_proofs` programs that are prudent (`Prudent`),
except `EveryReconnectionMultiplies`, which is about any program.
`AttClient` also assumes that a read asks for one handle, as `readAttribute` does, and
that NULL is no handle.

| Theorem | Module | Says |
|---|---|---|
| `TypeCorrect` | `AttClient_proofs` | `Spec => []TypeOK` |
| `SlotHoldsThePendingCall` | `AttClient_proofs` | `Spec => []PendingIsCurrent` |
| `NoListLeftBehind` | `AttClient_proofs` | `Spec => []ListBelongsToRequest` |
| `CalledBackOnce` | `AttClient_proofs` | `Spec => AnswersAreFinal` |
| `FirstListenerOnly` | `AttClient_proofs` | `Spec => []OnlyFirstHears` |
| `ResultsAreComplete` | `AttResults_proofs` | `Spec => []ResultIsComplete` |
| `DeathsAreExplained` | `AttResults_proofs` | `Spec => []DeathIsExplained` |
| `OneExchange` | `AttResults_proofs` | `Spec => []OneExchangeOnWire` |
| `ClientKeepsPromise` | `AttResults_proofs` | `Spec => KeepsPromise`, the refinement of `AttRequests` |
| `ConnectionTypeCorrect` | `Connection_proofs` | `Spec => []TypeOK` |
| `DataHasOneOwner` | `Connection_proofs` | `Spec => []NoStaleData` |
| `SocketHasOneWatcher` | `Connection_proofs` | `Spec => []OneWatcher` |
| `DescriptorsKept` | `Connection_proofs` | `Spec => []DescriptorsAccountedFor` |
| `RequestsKeptApart` | `Connection_proofs` | `Spec => []RequestHasOneSlot` |
| `WritesKeptApart` | `Connection_proofs` | `Spec => []WriteHasOneQueue` |
| `CallbacksRunOnce` | `Connection_proofs` | `Spec => CalledBackOnce` |
| `ConnectionsAreSessions` | `Connection_proofs` | `Spec => SessionsShareCallbacks`, the refinement of `Sessions` |
| `TypeCorrect` | `Central_proofs` | `Spec => []TypeOK` |
| `SocketsStayOpen` | `Central_proofs` | `Spec => []WatchedIsOpen` |
| `RepliesGoToTheReader` | `Central_proofs` | `Spec => []ReaderIsCurrent` |
| `ServerIsAttentive` | `Central_proofs` | `Spec => []NeverDeaf` |
| `NoHandleClosedTwice` | `Central_proofs` | `Spec => []DiesOfExceptionsOnly` |
| `CentralServesOneByOne` | `Central_proofs` | `Spec => ServesOneByOne`, the refinement of `CentralServer` |
| `EveryReconnectionMultiplies` | `Central_proofs` | `Spec => []ListenersPileUp` |
| `HciTypeCorrect` | `Hci_proofs` | `Spec => []TypeOK` |
| `SocketsAccountedFor` | `Hci_proofs` | `Spec => []OneDescriptor` |
| `SilenceMeansSuccess` | `Hci_proofs` | `Spec => []SilenceIsSuccess` |
| `ParametersAreTaken` | `Hci_proofs` | `Spec => []ParametersTaken` |
| `UuidTypeCorrect` | `Uuid_proofs` | `UuidSpec => []UuidTypeOK` |
| `SpellingsDenoted` | `Uuid_proofs` | `UuidSpec => []DenotesWhatIsSpelled` |
| `SpellingKept` | `Uuid_proofs` | `UuidSpec => []SpellingKeepsObject` |
| `TestedAgree` | `Uuid_proofs` | `UuidSpec => []TestedSpellingsAgree` |
| `BtioTypeCorrect` | `Btio_proofs` | `Spec => []TypeOK` |
| `NoDescriptorLeaks` | `Btio_proofs` | `Spec => []NoDescriptorLeft` |
| `LiveSocketsAsAsked` | `Btio_proofs` | `Spec => []LiveAsAsked` |
| `SizesAreKnown` | `Btio_proofs` | `Spec => []SizeIsKnown` |

*AttClient.* `SlotInv` is the conjunction of `TypeOK`, `PendingIsCurrent` and
`ListBelongsToRequest`. `PendingIsCurrent` is inductive with the types alone.
`ListBelongsToRequest` needs it: a handler drops the list of the call in
`currentRequest`, and only because that is the one call pending does nothing
else stay behind. `CalledBackOnce` follows from the same invariant, since every
action that changes an answered call would have to find it in the slot.
`ListenerInv` says that the entry of a handle is the first that was registered for it, and that
who was ever called is such an entry. The first holds because `insert` replaces nothing, which
with `listening` at hand is a statement about every registration before; that a later listener
was never called then follows, since no listener is registered twice.

*Results.* That a list is complete when it is delivered depends on every page
before. `ResultInv` adds to `SlotInv` what relates the client to the device: `Wire`,
that on the link is the request outstanding or one answer to it and nothing else;
`CachedIsBeginning`, that what is cached is what matches up to the last
handle of the list, so that a page from there on makes it longer and "not found"
makes it complete; and `CallsInTurn`, that a call that waits has delivered
nothing. The lemmas about lists (`BeginningExtended`, `BeginningDelivers`) come first.
The refinement is
then proved step by step: every action of `AttClient` is one of the four steps of
`AttRequests`, or changes neither `call` nor whether the process lives.

*Connection.* `NoStaleData` is not inductive: whether a callback finds the wrong
data depends on the state of the handle. `ConnInv` adds `DataFollowsTcp`, that
`tcp->data` is the Connection's while the stream is active and the close's
from `uv_close` to its callback, and `HandlesInTurn`, that there is no handle before
`connect` and no stream before the poll handle is closed, from which `OneWatcher` follows.
With `HandlesInTurn` known, `DescriptorsAccountedFor` is inductive, and `RequestHasOneSlot`
is with the types and the fact that a stream once made is never unmade
(`StreamsStay`). `WriteHasOneQueue` is inductive once a write is known to be queued
only by the call that submits it; the lemmas about it say what taking the first
write from a queue, adding a last one and cancelling all of them do to the set of
queued writes. `CallbacksRunOnce` then needs both: a completed write was the
first of its queue, a called back request was in its slot, and so neither had been
called back before. For `close` it needs that one is reported only when the stream
closes for good (`ReportedWhenClosed`). `CalledBackOnce` is a property of no run: TLC checks
the refinement in its place.

`ConnectionsAreSessions` maps `tcp` and `connecting` to how far a session has come, `att` to the
latest, `called` to what its callback was told and `closeCallback` to `silenced`; queues, writes,
slots and requests are those of the code. Every step is one of `Sessions`, or a stutter: the
callback of a poll handle's close, a notification. A close before there is a stream is a
step that changes no session, though it may silence all of them. `HandlesInTurn`
says that a poll handle is active only while its connect waits and before there is a
stream, so that a poll that fires is the session coming up and never one that has been
up before; `DataFollowsTcp` that the last callback of a stream finds the close it has to
report, so that a session that closes ends; `UsedWasConnected` that `att` never names a session
that has not begun.

*Central.* The properties hold of some programs and fail of others, so the theorems
say of which: `Prudent` lists what a program may do about each event, and includes both
programs of `MCCentral`. `CentralInv` says that a listen that waits is alone
(`ListenIsAlone`), that the poll handle and the stream pointed to are those of the last
listen (`PollHandleIsLast`, `StreamsInTurn`), that a usable connection is
superseded only by a listen (`SupersededByListen`), and what the program may rely on
when each event reaches it (`EventsInTurn`). Each part needs the others: a close
that is reported too early would put two listens side by side, and two listens
would close each other's socket. `CentralServesOneByOne` maps the handles to a phase:
`waiting` while a poll handle is active, `serving` while a stream is read, `idle` otherwise
(`Phase`). Every step is one of `CentralServer`, or a stutter: a close that finds the
stream stopped already, a reply of no PDU, the callback of a `uv_close`. That a
new listen finds the server idle and that a reply goes to the client of the last
listen are `EventsInTurn` and `StreamsInTurn`.

`ListenersPileUp` needs no assumption on the program. Its invariant `PileInv` counts: as
many 'connect' listeners as there were listens, and no poll handle before its
listen, so that the connection accepted through the *n*-th one adds *n* 'data' listeners at
least. It is a property of no run: a run shows that `OneListenerAfterReconnect` fails in some
behaviour, the theorem that it fails in every one that gets as far.

*Hci.* `HciInv` adds `ClosedIsNone`: the flag `socketClosed` is set only when there
is no socket, so that opening never overwrites one. What a start has achieved
when it returns cannot be seen from its last command alone: `SoFar` says of every
list of commands that may remain what the controller holds by then, for as long
as the call has thrown nothing and nobody else has touched the adapter. Both
`SilenceIsSuccess` and `ParametersTaken` are its last case, where nothing remains. That the
latter is an equivalence needs one thing more, `ParamsOfPast`: what the controller
holds is of a call made so far, so that a new call never finds its own number there, and
refused parameters are not in force by accident.

*Uuid.* The properties speak of the two objects the program keeps, and hold
because of the whole cache. `UuidInv` adds `CacheDenotes` (what is cached under a
string is what the string spells), `LongStringsDenote` (so does an object's own
`longString`, under which `getUUID` of the object may cache it once more) and
`AnswersCached` (an answer still is what is cached for its spelling, since no
entry is ever replaced). `TestedAgree` then needs only that the tested spellings
of a UUID have one key, `TestedKeysAgree`.

*Btio.* The run takes every combination of options, so that the theorems add no case
to it; what they add is the reason. `Rank` numbers the system calls, and every list of
calls the code can have ahead is in that order (`CallsInOrder`), whatever the options,
the type of the socket and the kernel: so each call is made at most once, and
what comes after it is known. `DescriptorInTurn` then says that from `socket` on the descriptor
is open and `sock` is to be returned, as long as the socket is being made or was returned by
`create_handle` (`Opens`); once `create_handle` has given up, it is not open, and its
callers, who see -1, do not close it again. That no descriptor is left open or closed twice is
the sum of the two, over the three functions. `LeftOrDone` says that each option that was asked
for is still to be set or set; a call preserves it because no call of a higher rank undoes an
option, but the link mode that stands for the level undoes the flag of the master
(`MasterLost`). Of the questions of `bt_io_get`, `SizeAhead` says that the MTU comes before any
option the type does not have, `SizeBarred` that it does not; which of the two holds
follows from the type and the owner, and with `OptionsLast` (a system call that fails
does so before anything is stored) gives both directions of `SizeIsKnown`.

Only model-checked: liveness (`EventuallyAnswered`, `WritesAnswered`,
`RequestsAnswered`, `ConnectsAnswered`, `CloseReported`, `ServesAgain`), which is out of the
prover's reach, as is anything about fairness and ENABLED. The deviations below are
shown by TLC's counterexamples, which need no proof.

## Deviations found

Five runs are expected to find a violation, because the code does not do what
the repository says or shows:

- `att_client_idle_break`: a read error while no request is pending dereferences
  NULL (`src/att.cc:570`), where the README has the program wait for an `error`
  event.
- `connection_close_twice`: a second `close` closes the handle again
  (`src/connection.cc:114`), and the README's example closes from two handlers.
- `central_reconnect`: each `listen` adds listeners to the same Central
  (`lib/peripheral.js:129`) and none is removed, so that after a reconnection what the
  client sends goes to several 'data' listeners; `todo.md` has "Fix reconnect" struck out,
  and `startAdv.js` listens again on `close`. This is no matter of an unlucky order:
  `EveryReconnectionMultiplies` proves that with the client of the *n*-th listen there are *n*
  listeners or more, in any program. As the code stands the first of them throws at
  the first PDU (`lib/att.js:518`), so that the others do not get to answer it.
- `uuid_singletons`: the head of `lib/uuid.js` promises one object for a UUID however it
  is specified; the cache is keyed by strings in the case in which they were
  written, and a number below 0x1000 by a string without its zeros.
- `gatt_services`: the arguments of `createAttribute` are in the wrong order
  (`lib/characteristic.js:38`), so that a service of a characteristic cannot be
  constructed, nor a Peripheral that has to make the GAP or the GATT service itself:
  it would have to be given both, without a characteristic.

Met on the way, and part of the models without a run of their own: two attributes
of equal value collide in the registry; a Peripheral rejects every options object
(`typeof options != 'Object'`, `lib/peripheral.js:65`); on a kernel without
`BT_SECURITY` an L2CAP socket loses the flag of the master (`src/btio.c:395`);
`opts.defer` is set and never applied; advertising parameters without a `chanMap` ask for no
channel at all (`src/hci.cc:122`, `167-171`), which a controller refuses and nobody notices,
for the status is not looked at (`:263`); and parameters that were found out of range are
sent all the same, beside the exception (`:126-159`).

## What is not modelled

- Encoding and parsing of PDUs, contents of attributes, error texts and debug
  output; of options, what does not decide a system call.
- Memory: buffers owned by the garbage collector and handed to libuv, and
  objects read after they are deleted (`src/att.cc:256`), whose old contents the
  model takes for granted.
- Timeouts, of which the client has none.
- The request handlers, notifications and MTU exchange of `lib/att.js`. They cannot
  run: the listener `createHandler` returns throws before it looks at a request
  (`lib/att.js:518`, `btle` is not declared), and behind it the handlers use `att`,
  `UUID`, `characteristic` and `value`, which are not declared either. There is
  no behaviour to model faithfully.
- `findCharacteristics` of `lib/service.js`, which throws on the undefined
  `gatt.Attributes`, and the renumbering of a service that is already built, with
  the `splice` in the setter of a handle: nobody calls it.
- `bt_io_accept` and `bt_io_set`, which nobody calls, and the encoding of advertising
  data in `lib/peripheral.js`, a conversion without state.
- `lib/peripheralInterface.js`, which no file loads, and `index.js`, which requires a
  `lib/device` that is not in the repository.

## Plan

1. `AttClient`, `Connection`, `Central`, `Hci` with their runs and first theorems:
   done.
2. `Uuid`, `Gatt`, `Btio`: done. A model of the ATT server and of the discovery of
   characteristics was planned and dropped, for the reasons above.
3. Proofs: the refinement of `AttRequests`, `ResultIsComplete` and what they rest on;
   the handles of `Central` under prudent programs: done.
   Then the invariants of `Btio`, the queue of writes and the single callback of
   `Connection`, and the refinement of `CentralServer`: done.
4. A composition of the requests of the client with `Connection`, so that a close, a
   second connect and a pending request meet in one state: done with requests
   answered by one PDU. The paged requests of `AttClient` over several connections
   would multiply two large state spaces to show what each shows alone.
5. The abstract specification `Sessions` behind `Connection`, its refinement, and the
   growth of the listeners of `Central` under every program: done. Every safety property a
   run checks and no deviation refutes is proved; what is left to TLC is liveness.
6. Models left: nothing that the code does and that the modules above do not have, but for
   what "What is not modelled" lists with its reasons.
