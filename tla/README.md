# FreeRIL: models, checks and proofs

FreeRIL is a replacement radio interface layer for the Samsung Galaxy S II: a
vendor RIL library loaded by Android's `rild`, the library that talks to the
modem over USB, and the services through which audio and other clients send
OEM requests.  This directory models its core in TLA+, checks the models with
TLC and proves all of their safety properties with TLAPS, for instances of any
size.

## The system

| part | state | operations | interacts with |
|---|---|---|---|
| IPC request table (`libsamsung-ipc/IPCSocketHandler.cpp`) | free sequence numbers and an iterator into them, requests in the air, a queue | `submit`, `handleMessage` | modem; completion callbacks |
| Stream reassembly (`SocketHandler.cpp`) | buffer, its size and use | `readable` | socket; both handlers |
| IPC worker thread (`IPCWorkerThread.cpp`, `SamsungModem::initialize`) | control pipe, list of handlers, fd_sets | `dispatchEvents`, `submit` | all threads that submit; the descriptors of the process |
| RIL request path (`ril/RIL.cpp`, `RequestHandler.cpp` and the per-group files) | mutex, execute semaphore, radio state | about fifty requests; completions; notifications | `rild`, worker thread |
| Call list (`ril/call.cpp`) | identifiers of the last list, last fail cause | list, dial, answer, hang-up and separation; two notifications | `rild`, worker thread, modem |
| Message cache (`ril/MessageCache.cpp`) | last reply or notification by key | `get`, `put`, `invalidate`, `flush` | both threads, under the mutex |
| NV storage (`libandroidhal/AndroidFileSystem.cpp`) | `nv_data.bin`, two backups, digests, a marker | recovery at start, `writeNVData`, backup | `/efs`; kills and power losses |
| Remote file system (`RFSSocketHandler.cpp`, `AndroidFileSystem.cpp`) | tables of descriptors and directories | twenty file requests | modem; the file system |
| Modem boot (`SamsungModem.cpp`, `USBIPCTransport.cpp`) | boot socket, link state | `boot`, `dump` | modem's loaders; `tools/dumpmodem` |
| secril client (`secril-client-compat/client.cpp`) | proxy, completion handlers | connect, requests, settings | Binder service |
| OEM marshalling (`ICrossClientService.cpp`, `OEMRequestBuilder.java`, `ril/oem.cpp`, `OemRequestHandler.cpp`) | none | encode and decode parcels, permission checks | client, Java service, RIL |
| OEM calls (`oemservice`, `RilInterface.java`) | call counter, locks, results | `synchronousOemCall`, `onCallComplete` | Binder threads, RIL |
| OEM services (`I9100OemService.java`, `PhoneService.java`) | life of the service, list of event handlers | start, destroy; register, unregister; events | clients' processes, RIL |

What is hard in it: `rild`'s request thread and the IPC worker meet in a mutex
that `RIL::execute` gives up while it waits, so a handler's two halves are
separated by arbitrary callbacks and notifications; both threads write to a pipe
that only one reads; sequence numbers are a limited resource; the NV data must
survive a kill at any point; the modem may be late, wrong or dead while it is
loaded; calls come and go while Android acts on a list of them; an OEM setting
passes four processes; boxed integers serve as monitors in Java.  `PROJECT.json`
lists these hazards at their lines, with the property that covers each.

What makes each part correct:

- request table: a response completes its own request, once; numbers are neither
  lost nor shared; every request has one owner; every request completes.
- reassembly and worker: messages come out as they went in; none is held back;
  every message and every submission is served.
- request path: exactly one completion per request; `execute` returns its own
  reply; no deadlock; the cache and the radio state agree with the modem.
- calls: a command reaches the call that Android named; the cause reported is
  that of the call that ended.
- NV storage: the last usable backup is never destroyed; data survive a restart.
- remote file system: the modem touches only what it opened; a failure loses
  nothing but what a put has begun to replace; NV accesses stay inside the file.
- boot: success means that the modem runs what was loaded; every call returns;
  the link and the boot socket are left in order.
- clients: success means done; only the callers allowed get through; a call gets
  its own result.
- event handlers: each gets each event; who dies is gone, and nobody else is.

## Modules

Each module's header says which code it models.  Variables carry the names of
the members they stand for without `m_`; actions carry the names of functions.
Operators introduced by "As a bug would have it" are plausible mistakes; nothing
in a specification uses them.  They exist to show that each property can fail.

### RequestChannel, IPCSocketHandler

`RequestChannel` is the abstract promise of the IPC layer: a request is pending
until it is completed, once, with the reply to that request.  `IPCSocketHandler`
is the code.  The handler runs in one thread, so `submit` and `handleMessage`
are atomic.  A message is a heap identity that may be allocated again after it
is deleted, so `Messages` bounds what is outstanding at once and not the length
of a behaviour.  `std::set` is a set; its iterator is the element it points at,
`End`, or `Dangling` once the node is erased.  An insertion may give the node's
address out again and revive such an iterator, hence the choice in `AfterInsert`;
dereferencing a dangling iterator sets `undefined` and the model stops.  The
error return after `writeToStream` is not in the model: no stream opened for
writing can fail.

### RILCore

The requests are grouped by what their handlers do to shared state, and one
table per source file gives the kinds of every request.  A handler is one action
between two points at which it blocks: `HandleRequest` up to the write to the
pipe, `AsyncWrite` or `SyncWrite`, `Take`, and `Resume` for what follows
`execute`.  `rild` calls `onRequest` from one thread, so there is one request
thread.  The worker is `ReadFrame` (what it does before a lock), `HandleFrame`,
`WorkerWrite` and `DispatchControl`.  The request table below is used at the
level of `RequestChannel`.  A cached value is a version number, so that "stale"
means "older than the modem's".  The modem is `mode`, `value` (its versions), the
messages it has `received`, the frames it has `sent`, and a `budget` of
notifications; it may notify its SIM state in any mode.  `overtaken` and `latePin`
are ghosts for what the coherence properties except: a put after a notification
that overtook it; a SIM state that was asked for before the change to low power
mode, or is notified after it.  The properties would be violated without these
exceptions.

### NVStorage

An operation is a program of file operations, executed one per step.  Kills keep
what was written; a loss of power leaves each unsynced file with its old content,
its new content, a part of either or a mixture.  NV data are two values, for the
part that `.nv_core.bak` holds and the rest.  A file operation that fails makes
the code panic, which is a kill.

### Calls, MCCalls

`m_callIds` and `m_lastCallFailCause`, with the two halves of each handler as
steps and the worker's notification handlers between them.  The modem keeps real
calls, each with an identifier that is given out again after it ends, and lists
them in any order.  Ghosts keep what Android was shown (`listed`), which calls a
command reached (`outcome`) and the latest change at the modem (`lastChange`).
`MCCalls` gives the pairs of release causes.  When the modem ends several calls
at once, `last` is the one whose end it reports last.

### Reassembly, WorkerLoop

`Reassembly` is `SocketHandler::readable`.  Bytes are counted, not kept: the
state is where in the stream the buffer begins, and a stream is the list of the
places where its messages end (`ends`), so "unchanged" is a matter of lengths.
Each pass of the loop in `readable` is a step.  The rest of the buffer is moved down
by `memcpy`; when the rest is longer than the message the regions overlap, which is
undefined behaviour, and the model takes the move to be right, as it is where
`memcpy` copies upwards.  `WorkerLoop` extends it with the loop around it: the order
in which pipe and sockets get their descriptors, `select` with the sets the
code gives it, the handlers in their order, one message of the pipe per pass.
The fd_sets are locals that are never cleared, so at each pass a stray bit may be
set; a bit of a closed descriptor makes `select` fail and the worker panics.
`maxfd` leaves the pipe out: a descriptor above it is either ignored by `select`
or, in a word that `select` does not look at, left set, so that `read` may block.
Descriptors are the lowest free ones, and other threads may close theirs
(`disturbed` records that they did so during `initialize`).

### RFS, MCRFS

All twenty handlers.  Handles are descriptors (the lowest free number, as the
kernel gives them) and `DIR` pointers seen as ints, one of which is negative. The
rest of `rild` opens and closes files meanwhile.  The operators named after
methods of `AndroidFileSystem` give the outcomes an operation may have, and the
`Handle` actions apply one and reply.  A name is a sequence of components below
`/efs`, a name outside, which is refused, or one that leaves `/efs` by `..`
(`Above`), which the validation means to refuse and lets pass.  Of file contents
the model keeps which file of `/efs` a request wrote or emptied (`changed`), so
that the modem's flags of `open`, `O_TRUNC` among them, have their effect.  The
int of an offset has `2 * Half` values, and the lengths of accesses are any below
`Half`.  Any system call may fail, and `close` that fails has closed all the same.

### ModemBoot

`boot` and `dump` are scripts of exchanges; one action per kind of exchange,
plus the polls of `toggleTransport`.  A call in progress is `call`, its `phase`,
the `step` of its script, the `offset` in an image or area and the `tries`
left.  The modem (`stage`, `image`, `flash`, `say`, `awake`, `connected`) is
written from what `boot` waits for; it may answer nonsense, stay silent or
die.  `recv` with nothing to read may always time out.

### OemMarshalling, SecrilClient

`OemMarshalling` is the way of a setting through the encoders: the client's
proxy, the Java stub with its permission check, `OEMRequestBuilder`,
`handleOemHookRaw` and the handlers of `OemRequestHandler`, word by word.  These
are operators; `SecrilClient` is the state around them: one client of any user,
a phone process that dies and returns while a call is on its way, the RIL with
its radio state, and the modem with the latest message that it carried out.

### OemCalls, OemService

`OemCalls` has Binder threads, the completion thread and the monitors of the
boxed counter; an interrupt may end a wait, a wait may end without `notify` (it
stands in no loop, and the null result that the call then finds is an exception),
and a call may come before the completion thread's Looper is ready.  The counter
stops at `MaxCalls`, the bound on identifiers.  Ghosts record that a thread entered
the monitor of an Integer that was no longer the counter (`stale`), that two threads
were in the increment at once (`raced`), and which calls ended in between the two
halves of `onCallComplete` (`abandoned`).  `OemService` has the life of the service and
the way of the modem's service mode screens to the registered event handlers:
the main thread, which holds the list's monitor while it calls each handler,
handlers that call back, throw or die, Binder threads that register and hear of
deaths, and the iterator of `ArrayList` with its check for modification (OpenJDK's;
the one of Android in 2012 ends by a count of what remains, and no property depends
on the difference).  `ensureSafe` refuses programs without the permission, and code
of the phone process itself outside of a call; so all handlers are those of other
programs, and each call that passes one brings a new proxy object.

## Runs

| run | checks | instance |
|---|---|---|
| `IPC_ample` | `SafeAllocation`, `EveryRequestCompletes`, `ImplementsChannel` | 3 requests, an event, 4 numbers |
| `IPC_faulty` | `TypeOK`, `SequencePartition`, `Ownership`, `QueuedForEver` | the same with 2 numbers and any frame at any time: the set is emptied, the iterator dangles, the queue fills |
| `RIL` | `OneCompleter`, `WakesWithOwnReply`, `HangNeedsFullPipe`, `CacheCoherent`, `RadioOffInLowPower`, `EveryRequestCompletes` | 2 tokens, a notified and a settable cache entry, 3 notifications, a pipe of two messages, which the two threads can fill |
| `NVStorage` | `DataSurvivesRestart`, `NeverDoomed` | two values per part, two starts, from every combination of good and bad copies |
| `ModemBoot` | `BootedOnlyIfComplete`, `LinkLeftActive`, `BootSocketValid`, `EveryCallReturns` | two calls, images of two pieces |
| `WorkerLoop` | `DeliveredInOrder`, `NothingHeldBack`, `PanicOnlyAtEnd`, `EveryMessageDelivered`, `EverySubmissionServed` | two messages of the header's size or more than the buffer's, two submissions, six descriptors in words of two bits, two of them open before |
| `Calls` (module `MCCalls`) | `RightCallAddressed`, `FailCauseOfEndedCall` | three identifiers, three calls, one other change, two causes |
| `Secril` | `SuccessMeansSet`, `OnlyAllowedUsers` | four users, arguments 1, 4 and 260, two settings, an outage of the radio, two phone processes |
| `Secril_mute` | `MuteStateReported` is violated | two settings, one user |
| `OemCalls` | `IdsDistinct`, `OwnResult`, `NoResultLeft`, `EveryCallReturns` | two threads, three calls: enough for both to be in the increment at once, with interrupts and wake-ups without `notify` |
| `OemService` | `EveryHandlerCalled`, `OnlyDeathEnds`, `DeadHandlersLeave`, `EveryEventDelivered` | three handlers, two of programs with the permission, three registrations, two screens |
| `RFS` (module `MCRFS`) | `OnlyOwnHandles`, `TablesMatchReplies`, `NVInBounds`, `FailureLosesNothing` | three descriptors, two places for a `DIR`, names on two levels and two outside, all flags, every offset of an integer of six values, NV data of length 1 and accesses of 1 and 2 |

Why these bounds are enough.  The request table treats numbers and messages
alike but for their order, so one or two beyond exhaustion is as good as 255.
The threads of the RIL hold at most one message each, so two tokens give every
pair of requests and three notifications give boot, change of mode and one more.
A pipe of two messages is the least that both fills up and empties in part.
NV storage has two starts: the second meets whatever the first, cut short
anywhere, has left.  With a buffer of three bytes, messages of 2 and 5 bytes are
shorter than a read, cut by one, and longer than the buffer.  Six descriptors in
three words put the pipe below the sockets, between them, and above them in a
word of its own.  Three calls are the least that leave
a gap with two calls after it, where position and identifier differ.  Values 1,
4 and 260 are a valid device, the one just past the table, and one wider than a
byte.  Two settings let a late one meet its successor.  Three registrations let
a handler in the middle leave while another is to be called.  The narrow
integer of `RFS` wraps around as the 32-bit one does; an access as long as the file
and one longer than it are both tried at every offset, which is what the range
check tells apart.

Fairness.  The worker thread loops over its sockets and its pipe, and the
request thread runs until it blocks: weak fairness of their steps (in `RILCore` of
each thread's steps together, since at most one of them is possible at a time).  The
modem is
assumed to answer every message in `IPC_ample` and `RIL` (there: its oldest one,
so that none waits for ever) and nothing is assumed of it in `ModemBoot`, where
the code has time limits.  In `WorkerLoop` the worker goes on and `initialize`
runs to its end; the peers owe nothing.  In `OemService` the main thread and the
Binder threads go on, and a handler that is called returns or its process
dies.  In `OemCalls` the RIL answers and threads go on.  Nobody is ever obliged
to make a request.

Deadlock checking is on wherever a model can always go on.  It is off where the
process may exit (RILCore, WorkerLoop), where undefined behaviour ends the model
or every message is queued for good (`IPC_faulty`), and where a bound on
calls or starts is used up.

## What the checks show

- While fewer requests are outstanding than there are numbers (255), the request
  table is correct.  At exhaustion the allocation iterator dangles and queued
  messages are never sent: the branch meant to send them is dead, because the
  iterator never stands at `end()` between two calls.  With one request thread
  and callbacks this many outstanding requests are unlikely, and
  `SafeAllocation` says exactly when it cannot happen.
- Requests are completed exactly once, and `execute` wakes with its own reply
  although all of them share a semaphore.  The threads can deadlock, only on a
  full control pipe (16384 messages on Linux).  Every request completes unless the
  process exits or that deadlock is reached.
- The cache may keep an older value: a reply that the worker has handed over is
  put after a notification that overtook it.  In low power mode a reply with the SIM
  state that was asked for before, or a notification of it, turns the radio state back
  on, since `handle(SecGetPinStatusReply *)` looks at no mode.  These cases are outside
  `CacheCoherent` and `RadioOffInLowPower` by name, and nothing else is.
- A SIM_IO request that updates EF 0x6F3B is never completed.
- No sequence of kills and power losses destroys the last backup with a digest.
  After recovery from `.nv_core.bak` the digest of `nv_data.bin` is written to a
  file that nothing reads; the data still survive a restart because the rebuilt
  primary backup is the same.
- Java calls can share an identifier, because the monitor is the boxed counter
  that the increment replaces: a thread that saw the counter and had to wait enters
  a monitor that guards nothing any more.  `IdsDistinct` says that this is the only
  way.  Results then get mixed up; `OwnResult` and `NoResultLeft` hold unless it
  happened.  A call that is interrupted, or wakes without `notify`, while the
  completion thread holds its lock leaves its result in `mResultMap` for good.
- If no descriptor is closed while `initialize` runs, the worker serves everything,
  because the constructor makes the pipe before the sockets are opened.  If one is
  closed in between, a socket can get a lower number than the pipe, which may then
  never be looked at or may block the worker.  A stray bit of a closed descriptor
  ends the process.
- HANGUP and SEPARATE_CONNECTION use Android's call index, which is the modem's
  call identifier, as a position in the list.  With calls 2 and 3 left, hanging up
  call 2 hangs up call 3, and hanging up call 3 is refused.  `RightCallAddressed`
  holds exactly where positions and identifiers agree and nothing has changed
  since the list.
- The fail cause is that of the last state change of any call, so it is the right
  one only until another call changes.
- A setting that returns success is in force at the modem, with its values in
  place.  For SET_LOOPBACK_TEST Java writes loopback and path, while the RIL
  (`oem.cpp`, as `oem.h` says) reads path and loopback and sends what it takes for
  the path: the two mistakes cancel.  Device 4 passes the check of
  `handleSetCallVolume` and reads past its table of four; `SuccessMeansSet`
  excludes it by name.  The result of `transact` is ignored everywhere in
  the proxy, which is harmless: an empty reply reads as a failure.  The raw OEM
  request is always refused by the RIL.  The header promises less than this: of each
  of these setters `include/secril-client-compat.h` (lines 177, 191, 203, 224 and on)
  says "Request will be run asynchronously without any indication of completion",
  while `client.cpp` waits for the service and returns what it says; the property
  states what the code does.
- `unregisterEventHandler` compares objects, and a handler is a new proxy with each
  call: it is never found, and nothing is removed.  Code of the phone process, whose
  handler would be the same object, is refused by `ensureSafe`.  A registration ends
  with the handler's process and in no other way (`OnlyDeathEnds`).
- A put that opens a file with `O_TRUNC` or `O_CREAT` and then fails to write has
  emptied or made the file and is answered with an error; any other request that
  fails leaves at most new directories (`FailureLosesNothing`).  NV accesses are within
  the file for every offset and length.
- When a handler turns out to be dead during an event its record is removed and
  the iterator throws: handlers after it miss that event (`EveryHandlerCalled`
  allows it by name).  A death notice between `linkToDeath` and the addition is
  lost, and the record stays until an event finds it.
- `dispose` joins a thread that does not end, so the RIL is never told that the
  service has gone.
- A second registration of a completion handler for a code is ignored
  (`std::map::insert` keeps the first); `SecrilClient` models it so.
- One place where the program does not do what its own text says is shown by a
  run that violates the property: `GetMute` always reports muted.

Met while modelling and not the subject of a run: `dumpmodem` prints "Modem dump
failed" when `dump` has succeeded (`tools/dumpmodem/main.cpp:141`); the maps of
setting and reading the preferred network type differ (GSM_ONLY is sent as 2, and
2 is read as GSM_WCDMA); the destructor of `SamsungModem` waits for a worker that
nobody stops; `expandAndValidateFilename` compares each component with `"/.."`
although a component begins behind the slash, so that `/efs/../x` passes
(`AndroidFileSystem.cpp:646`); the file information replied for a file that could
not be opened is uninitialised.

## Proofs

The theorems hold for every value of the constants that the module's assumptions
allow: any number of requests, tokens, threads, calls, files, blocks and bytes,
and any value of the bounds that keep TLC's instances finite.

| module | theorem | property |
|---|---|---|
| `IPCSocketHandler_proofs` | `TypeCorrect` | `TypeOK` |
| | `PartitionHolds` | `SequencePartition` |
| | `QueueNeverDrained` | `QueuedForEver` |
| | `OwnershipHolds` | `Ownership` |
| | `AllocationIsSafe` | `SafeAllocation` |
| | `RepliesAreCorrect` | `CorrectReply` |
| | `ChannelImplemented` | `ImplementsChannel`, if the modem is not faulty |
| `RILCore_proofs` | `RequestsCompletedOnce` | `OneCompleter` |
| | `ExecuteReturnsOwnReply` | `WakesWithOwnReply` |
| | `DeadlockNeedsFullPipe` | `HangNeedsFullPipe` |
| | `CacheFollowsModem` | `CacheCoherent` |
| | `RadioStaysOff` | `RadioOffInLowPower` |
| `Calls_proofs` | `FailCauseIsOfEndedCall` | `FailCauseOfEndedCall` |
| | `RightCallIsAddressed` | `RightCallAddressed` |
| `ModemBoot_proofs` | `BootIsComplete` | `BootedOnlyIfComplete` |
| | `LinkStaysActive` | `LinkLeftActive` |
| | `BootSocketIsValid` | `BootSocketValid` |
| `WorkerLoop_proofs` | `LoopReassembles` | `SpecLoop => Spec`: the loop implements the reassembly |
| | `InOrder` | `DeliveredInOrder` |
| | `NoneHeldBack` | `NothingHeldBack` |
| | `PanicMeansEnd` | `PanicOnlyAtEnd` |
| `AndroidFileSystem_proofs` | `HandlesAreOwn` | `OnlyOwnHandles` |
| | `TablesAreTold` | `TablesMatchReplies` |
| | `NVAccessInBounds` | `NVInBounds` |
| | `FailuresLoseNothing` | `FailureLosesNothing` |
| | `NVTypeCorrect` | `NVTypeOK` |
| | `RestartFindsData` | `DataSurvivesRestart` |
| | `LastBackupSurvives` | `NeverDoomed` |
| `OemCalls_proofs` | `IdentifiersDistinct` | `IdsDistinct` |
| | `ResultsAreOwn` | `OwnResult` |
| | `ResultsAreTaken` | `NoResultLeft` |
| `PhoneServices_proofs` | `RegistrationsLast` | `OnlyDeathEnds` |
| | `EventsReachHandlers` | `EveryHandlerCalled` |
| | `SuccessIsSet` | `SuccessMeansSet` |
| | `OnlyAllowedReach` | `OnlyAllowedUsers` |

Two of these modules speak of two components each: `AndroidFileSystem_proofs` of
`RFS` and `NVStorage`, which are the two halves of one class, and
`PhoneServices_proofs` of `OemService` and `SecrilClient`, which meet in the phone
process.  Each module also proves its inductive invariants (`Invariance`;
`Reassembles` for the reassembly, `SettingsInvariance` for `SecrilClient`), and
those with a `TypeOK` prove it (`TypeCorrect`).  Every
invariant below was first checked by TLC as an invariant of the module's run.

### Assumptions

Nothing is assumed but the `ASSUME`s of the modules: sizes and bounds are natural
numbers, positive where the code has at least one of the thing; the sets of
tokens, keys, threads and handlers do not contain the value that stands for
"none"; every message is at least as long as its header; the directories above a
name are names; the NV data and the length of an access fit a signed int; modem call
identifiers are 1, 2, ... up to some number; clients give integers as
arguments.

### Request table

1. `TypeOK` is not inductive: that `submit` stores a number of the right range
   rests on the iterator being at a free number.  `TableInv` adds that
   (`IteratorAtFree`) and that the two tables are complementary.  From it follow
   `TypeCorrect` and `PartitionHolds`, and, since the iterator is then never at
   `end()`, `QueueNeverDrained`.
2. `OwnerInv` states ownership pointwise, the form that a step preserves; it
   yields `Ownership` under `TypeOK`.
3. `AllocInv` adds that no event is in the air.  By ownership distinct numbers
   hold distinct messages, so with at most `MaxSeq` requests two numbers are free
   before each allocation that matters (`TwoNumbersFree`, by cardinality), and
   the iterator moves to another element than the one that is erased
   (`AdvanceMoves`).
4. `ChannelInv` adds `ReplyInv`: every answer that is owed or on its way is for
   the request that holds its number, and no number is answered twice.  This is
   why numbers can be reused.  It yields `RepliesAreCorrect`, and each step maps
   to a step of the channel or to none.

`IPC_ample` checks `ImplementsChannel` where numbers do not run out; the theorem
covers exhaustion as well.  `CorrectReply` has no run of its own: it is a part of
what the channel promises.

### Request path

The properties speak of one place each (a count of completers, the semaphore, a
cache entry), and a step moves a message from one place to the next.  `PathInv`
follows the message of a pending request through all of them: thread, pipe,
modem, frame, worker, reply.  It says that it is in exactly one, that the thread
waits for the message that its `execute` made, and who has the mutex; it carries
`OneCompleter`, whose count of places is a cardinality of disjoint sets, and
`WakesWithOwnReply`.  `HangNeedsFullPipe` needs no more than that: who does not
wait for the pipe can go on.  `CacheInv` says of every value on its way (in a
frame, in the worker, in `ExecutionData`) that it is out of date only if a
change of it comes behind; without the order of the frames `CacheCoherent` is
not preserved when a reply is put.  `RadioInv` is about the same order: what
turns the radio on in low power mode is followed by what turns it off, or is a SIM
state that `latePin` has noted.

### Calls

The fail cause is right because of an order: the modem announces an end before it
makes a list without the call, both go through one queue, and the worker handles
the first before it delivers the second.  `CauseInv` says so for a list wherever
it is.  The right call is addressed because `m_callIds` and the list that Android
has were made together (`ListInv`) and stay as they are while a command is on its
way (`FlightInv`, `CommandInv`).

### Boot

`boot` waits for an answer only here and there, and the answers may be wrong.
What makes a boot complete is that the script sends each item in the one stage in
which the modem accepts it.  `InStep` says which stage, image and blocks a modem
that lives has when the script has come to a given exchange and offset; `Complete`
that after the script nothing is missing, and that only a modem that runs goes on
to the second half of `redetect`.  `Listed` spells out the 28 exchanges from the
parts that `boot` puts together, and `PostDoes` shows for each of the ten items
posted that a modem in step accepts it and stays in step.  `LinkInv`, `SocketInv`
and `OffsetInv` speak of the host alone.

### Reassembly and worker

A message is cut out at its start because the buffer begins at the end of the
last one delivered, what has been received has been sent, and the ends of the
messages are in order.  `recv` is given room because every `readable` ends with a
`realloc` to the use plus the buffer's size, which is what `PanicOnlyAtEnd` needs.
Every step of the worker's loop is a step of the reassembly or leaves it alone, so
the theorems carry over to the loop with its descriptors and its pipe.

### Remote file system

`TablesMatchReplies` is not inductive: a `closedir` frees the descriptor of its
`DIR`, so two `DIR`s must not share one, and a `DIR` outside of the table must hold
none (`TableInv`).  `FailuresLoseNothing` is an action property; it rests on
lemmas about what `makePath`, `open` and `rename` do to the tree: each keeps what is
there (`Keeps`), `open` but for the file it is given, and a reply of success is
needed for anything more (`LosesNothing`).

### Java

`OemCalls`: distinct identifiers rest on the monitor: as long as no thread has
entered a stale one, who is in the increment holds the monitor of the current
counter (`MonitorInv`), so that nobody else is; and as long as nobody else is,
what it has read is the counter (`IdInv`); own results on where a request has
been, with the RIL, in the queue or in the completion thread's hands (`MapInv`);
that no result is left over needs, besides, one completion per call and a caller
that still waits for it, has just woken, or is `abandoned` (`AnswerInv`).
`OemService`: the invariant speaks of records in the list and of those between
`linkToDeath` and the addition (`ListInv`), each of which has an owner, and of
those that a death notice is on its way to, which are of dead processes: this is
what `RegistrationsLast` needs of `binderDied`; and of the handlers called so far
as a prefix of the list at the start of the delivery (`DeliveryInv`), which the
action property `EveryHandlerCalled` needs at its end.

### NV storage

A program of file operations may be cut short anywhere, so the invariants speak
of what a file will hold when the program that is running has run to its end
(`Settles`): a step does not change that, and between two calls it is what the
file holds.  Predicates on programs that are kept by taking the first operation
away and by joining two programs (`NoPut`, `Ends`, `Ordered` and the like) let the
programs of recovery, write and backup be looked at once, part by part.

1. `DataInv`: while the process runs, `nv_data.bin` settles for `want`, and if
   digests count then so does its digest, or else the primary backup with its
   own digest (`SettledFor`); while it does not run and the history is `clean`, the
   files themselves are so (`Restartable`).  The second alternative is what recovery
   from `.nv_core.bak` leaves, after which the digest of `nv_data.bin` is stale.  It
   yields `RestartFindsData`.
2. `BackupInv` has three parts.  `CoreInv`: only the blank start writes the files of
   `.nv_core.bak`, when no backup is sound; a sound one is on the disk.
   `PrimaryInv`: the primary backup is rewritten only when `.nv_core.bak` is sound,
   or when the primary one is not sound itself or has no digest yet; and its
   digest is written after it is synced.  `MarkerInv`: as long as a start may find
   digests switched off, the primary backup has no digest, or is whole and left
   alone, so that no new backup is ever found beside an old digest.  Without the
   last, `PrimaryInv` is not preserved by a start that does not look at digests.
   Together they yield `LastBackupSurvives`.

### Settings

What a request becomes is a matter of the encoders and decoders alone:
`RequestDecoded` says, for every method and any arguments, that
`handleOemHookRaw` refuses the parcel that `OEMRequestBuilder` made for it or
sends the message of that method with the fields that the client meant, but for
the device past the table.  `SettingInv` follows the requests.  `RequestInv`: what
is with rild is an attachment or a request that was let through for the client's
user, and what is at the modem is the message of such a request; this yields
`OnlyAllowedReach`.  `OwnInv`: the request of a waiting call is the only one of its
phone process, and only attachments are behind it; requests of dead processes may
be before it.  `SuccessMeansSet` is not inductive without it, since a request that
was given up could be carried out after the success of a later one.  `DoneInv`: a
success that is on its way, or was the last to return, is in force and nothing
else is under way.

### Model-checked only

All liveness properties, `DeadHandlersLeave` and `EveryEventDelivered` among them:
the prover treats neither fairness nor ENABLED.  `MuteStateReported`, which is
violated.

## Not modelled

- Message bodies other than those of calls and OEM requests (a body that does not
  decode is a frame type of `IPCSocketHandler`); the notifications of the RIL that
  only forward a value to Android.
- A header whose length is below the header's own size, which the link driver does
  not produce; `readable` would loop or misread it.
- `sendData` and the boot commands, which write once and do not look at the result.
- The stop of the worker: its NULL message is sent by nobody.
- What files contain (only whether a request changes it), offsets within files,
  what is outside of `/efs`, and the encoding of names and times in the remote file
  system.
- `StartupReceiver` and `RegistrationService`, which only forward to Android.
- The operator database (read-only lookups) and the tool that extracts it at build
  time, the protocol compiler (a code generator), byte-level data streams, logging,
  the assembly of the HAL and its sysfs accesses.

## Plan

Done, in this order: request channel and table with proofs; request path; NV
storage; boot; reassembly; secril client; Java calls; remote file system; calls;
worker loop; OEM marshalling from client to modem; OEM services.

Possible as models: a composition of the request table with the request path, in
which exhaustion of the numbers meets the waiting request thread; an abstract
cache (one register per key) that `RILCore` implements when nothing is overtaken.

Proved: the request table; then OEM calls, remote file system, reassembly and
worker, OEM services, request path, calls and boot; then NV storage and the
settings of the secril client.

Next, as proofs: the abstract cache as a refinement, once it is modelled.
