----------------------------- MODULE WorkerLoop -----------------------------
(***************************************************************************)
(* libsamsung-ipc/IPCWorkerThread.cpp: the thread that serves the sockets  *)
(* of the modem and the pipe through which messages are submitted to it,   *)
(* from SamsungModem::initialize() on, together with the reassembly of the *)
(* stream of one of the sockets (module Reassembly, the handler "ipc").    *)
(* The other socket's handler is the same code: of its stream only whether *)
(* there is something to read is kept.                                     *)
(*                                                                         *)
(* Descriptors are numbers, because select() is given the highest one and  *)
(* the rest of the process opens and closes files of its own.  The fd_sets *)
(* are not cleared: at each pass they may hold any stray bits.             *)
(***************************************************************************)
EXTENDS Reassembly, SequencesExt

CONSTANTS
    MaxFd,            \* bound on the descriptors of the process
    OpenAtStart,      \* descriptors that rild has open before initialize()
    WordBits,         \* bits of a word of an fd_set: 32
    MaxSubmissions    \* bound on the messages submitted

ASSUME LoopAssumption ==
    /\ {MaxFd, MaxSubmissions} \subseteq Nat
    /\ OpenAtStart \subseteq 0 .. MaxFd
    /\ WordBits \in Nat \ {0}

VARIABLES
    fds,         \* descriptors of m_controlPipe and of the handlers' sockets
    foreign,     \* descriptors that other threads of rild have open
    disturbed,   \* a descriptor was closed while initialize() was at work
    wpc,         \* where the worker is; before start(), where initialize() is
    ready,       \* which descriptors of its own select() left in read_set
    submitted,   \* messages written to the pipe
    served,      \* messages read from it and given to the IPC handler
    unread       \* something has arrived at the other socket

loopVars == << fds, foreign, disturbed, wpc, ready, submitted, served, unread >>

allVars == << vars, loopVars >>

-----------------------------------------------------------------------------
None == -1
Parts == {"pipe", "pipeWrite", "ipc", "rfs"}
Handlers == << "ipc", "rfs" >>   \* m_handlers, in its order

Own == {fds[p] : p \in Parts} \ {None}
FreeFds == (0 .. MaxFd) \ (Own \cup foreign)

TypeOKLoop ==
    /\ TypeOK
    /\ fds \in [Parts -> 0 .. MaxFd \cup {None}]
    /\ foreign \subseteq 0 .. MaxFd
    /\ disturbed \in BOOLEAN
    /\ wpc \in {"createPipe", "createIpc", "createRfs", "select", "ipc", "rfs", "pipe", "badfd"}
    /\ ready \subseteq {"ipc", "rfs", "pipe"}
    /\ submitted \in 0 .. MaxSubmissions /\ served \in 0 .. submitted
    /\ unread \in BOOLEAN

InitLoop ==
    /\ Init
    /\ fds = [p \in Parts |-> None]
    /\ foreign = OpenAtStart
    /\ disturbed = FALSE
    /\ wpc = "createPipe"
    /\ ready = {}
    /\ submitted = 0 /\ served = 0
    /\ unread = FALSE

Running == wpc \in {"select", "ipc", "rfs", "pipe"} /\ pc # "panic"

-----------------------------------------------------------------------------
\* SamsungModem::initialize(): the worker's constructor makes the pipe, the
\* sockets are opened and their handlers added, and the thread is started.
InitializeStep ==
    /\ \/ /\ wpc = "createPipe" /\ Cardinality(FreeFds) >= 2
          /\ fds' = [fds EXCEPT !["pipe"] = Min(FreeFds), !["pipeWrite"] = Min(FreeFds \ {Min(FreeFds)})]
          /\ wpc' = "createIpc"
       \/ /\ wpc = "createIpc" /\ FreeFds # {}
          /\ fds' = [fds EXCEPT !["ipc"] = Min(FreeFds)]
          /\ wpc' = "createRfs"
       \/ /\ wpc = "createRfs" /\ FreeFds # {}
          /\ fds' = [fds EXCEPT !["rfs"] = Min(FreeFds)]
          /\ wpc' = "select"
    /\ UNCHANGED << vars, foreign, disturbed, ready, submitted, served, unread >>

\* Other threads of rild (external) close files.  What they open takes no
\* descriptor that the worker has, and is not followed.
RildCloses(d) ==
    /\ d \in foreign
    /\ foreign' = foreign \ {d}
    /\ disturbed' = (disturbed \/ wpc \in {"createIpc", "createRfs"})
    /\ UNCHANGED << vars, fds, wpc, ready, submitted, served, unread >>

\* submit(): the request thread writes a pointer to the pipe.  The pipe is
\* never full here; module RILCore has the full pipe.
Submit ==
    /\ Running
    /\ submitted < MaxSubmissions
    /\ submitted' = submitted + 1
    /\ UNCHANGED << vars, fds, foreign, disturbed, wpc, ready, served, unread >>

\* The peer (external) of either socket.
PeerSends(n) == Running /\ Send(n) /\ UNCHANGED loopVars

PeerCloses == Running /\ Close /\ UNCHANGED loopVars

OtherPeerSends ==
    /\ Running
    /\ unread' = TRUE
    /\ UNCHANGED << vars, fds, foreign, disturbed, wpc, ready, submitted, served >>

-----------------------------------------------------------------------------
\* dispatchEvents(), first half.

\* As a bug would have it: maxfd is that of the first handler.
HighestFirst == fds["ipc"]

\* maxfd: the pipe does not count.
Highest == Max({0} \cup {fds[Handlers[i]] : i \in DOMAIN Handlers})

\* As a bug would have it: the pipe is not put into read_set.
WatchedHandlers == Range(Handlers)

\* What is put into read_set: wantRead() is always true, wantWrite() false.
Watched == Range(Handlers) \cup {"pipe"}

\* Whether a read() of it would return at once.
Readable(p) ==
    CASE p = "ipc" -> received < Sent \/ closed
      [] p = "rfs" -> unread
      [] p = "pipe" -> served < submitted

\* Bits that select() looks at, and those of its own set that it leaves alone
\* because they lie in a word past the last that it was given.
LookedAt(d) == d <= Highest
LeftAlone(d) == d \div WordBits > Highest \div WordBits

Reported ==
    {p \in Watched : \/ LookedAt(fds[p]) /\ Readable(p)
                     \/ LeftAlone(fds[p])}

\* select() with a stray bit in the sets, or none (more of them add no other
\* outcome): one of a descriptor that is not open is an error, and the panic;
\* one of an open descriptor may end the wait, but sets nothing for the
\* worker's own (a stray bit of write_set leads to writable(), which is empty).
Select(stray) ==
    /\ wpc = "select" /\ pc = "recv"
    /\ IF stray \subseteq Own \cup foreign
       THEN /\ stray # {} \/ \E p \in Watched : LookedAt(fds[p]) /\ Readable(p)
            /\ ready' = Reported
            /\ wpc' = "ipc"
       ELSE /\ wpc' = "badfd"
            /\ UNCHANGED ready
    /\ UNCHANGED << vars, fds, foreign, disturbed, submitted, served, unread >>

\* Its second half, in the order of m_handlers.  readable() of the IPC socket
\* is Reassembly's Recv, then Deliver as often as there are messages.
PassIpc ==
    /\ wpc = "ipc" /\ "ipc" \notin ready
    /\ wpc' = "rfs"
    /\ UNCHANGED << vars, fds, foreign, disturbed, ready, submitted, served, unread >>

ReadableIpc ==
    /\ wpc = "ipc" /\ "ipc" \in ready
    /\ \/ /\ RecvNothing \/ Deliver \/ \E n \in 1 .. bufSize : Recv(n)
          /\ UNCHANGED wpc
       \/ LeaveLoop /\ wpc' = "rfs"
    /\ UNCHANGED << fds, foreign, disturbed, ready, submitted, served, unread >>

ReadableRfs ==
    /\ wpc = "rfs"
    /\ IF "rfs" \in ready THEN unread /\ unread' \in BOOLEAN ELSE UNCHANGED unread
    /\ wpc' = "pipe"
    /\ UNCHANGED << vars, fds, foreign, disturbed, ready, submitted, served >>

\* At most one message per pass is read from the pipe; read() waits for one.
\* The shutdown message, NULL, is sent by nobody.
ReadPipe ==
    /\ wpc = "pipe"
    /\ IF "pipe" \in ready THEN served < submitted /\ served' = served + 1 ELSE UNCHANGED served
    /\ wpc' = "select"
    /\ UNCHANGED << vars, fds, foreign, disturbed, ready, submitted, unread >>

DispatchEvents == Select({}) \/ PassIpc \/ ReadableIpc \/ ReadableRfs \/ ReadPipe

NextLoop ==
    \/ InitializeStep
    \/ \E d \in foreign : RildCloses(d)
    \/ Submit
    \/ \E n \in Lengths : PeerSends(n)
    \/ PeerCloses
    \/ OtherPeerSends
    \/ Select({})
    \/ \E d \in 0 .. Highest : Select({d})
    \/ PassIpc
    \/ ReadableIpc
    \/ ReadableRfs
    \/ ReadPipe

\* The worker is scheduled and select() returns when there is something to
\* return; nobody else owes anything.
SpecLoop ==
    /\ InitLoop /\ [][NextLoop]_allVars
    /\ WF_allVars(DispatchEvents) /\ WF_allVars(InitializeStep)

-----------------------------------------------------------------------------
Over == pc = "panic" \/ wpc = "badfd"

\* When nobody closes a descriptor while initialize() is at work, every message
\* that is sent is handled, even one longer than IOBufSize, whatever the other
\* socket and the pipe bring, unless the process has panicked.
EveryMessageDelivered ==
    \A i \in 1 .. MaxMessages :
        (Len(ends) = i /\ ~disturbed) ~> (Len(delivered) >= i \/ Over)

\* Likewise every submission reaches the IPC handler: although maxfd leaves out
\* the pipe, the pipe was made before the sockets and lies below them.
EverySubmissionServed ==
    \A i \in 1 .. MaxSubmissions : (submitted = i /\ ~disturbed) ~> (served >= i \/ Over)
=============================================================================
