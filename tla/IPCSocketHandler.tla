-------------------------- MODULE IPCSocketHandler --------------------------
(***************************************************************************)
(* libsamsung-ipc/IPCSocketHandler.cpp: the table that matches the modem's *)
(* responses with the requests in flight.  Every request that is not an    *)
(* IPC_CMD_EVENT borrows a one-byte sequence number from                   *)
(* m_freeSequenceNumbers (a std::set) until its response arrives.          *)
(*                                                                         *)
(* The handler runs in one thread (IPCWorkerThread), so submit and         *)
(* handleMessage are atomic steps.  A message is a heap object: `live` is  *)
(* the set of those allocated and not yet deleted, and a deleted object's  *)
(* identity may be allocated again, so |Messages| bounds how many requests *)
(* are outstanding at once and not how many are ever made.                 *)
(***************************************************************************)
EXTENDS Integers, Sequences, FiniteSets

CONSTANTS
    Messages,      \* heap identities of request messages
    Events,        \* those whose requestType() is IPC_CMD_EVENT (no response)
    NoMessage,     \* an empty slot, or a frame that answers no request
    MaxSeq,        \* the highest sequence number: 0xFE in the code
    FaultyModem,   \* whether the modem may send frames nobody asked for
    MaxFrames      \* bound: frames from the modem that are not yet read

ASSUME ConstantsAssumption ==
    /\ Events \subseteq Messages
    /\ NoMessage \notin Messages
    /\ MaxSeq \in Nat
    /\ FaultyModem \in BOOLEAN
    /\ MaxFrames \in Nat

VARIABLES
    freeSequenceNumbers,   \* m_freeSequenceNumbers
    allocationIterator,    \* m_allocationIterator: the element it points at
    messagesInAir,         \* m_messagesInAir; NoMessage where there is no entry
    messageQueue,          \* m_messageQueue
    live,                  \* requests allocated and not deleted
    undefined,             \* a dangling m_allocationIterator was dereferenced
    modem,                 \* requests the modem has received and not answered
    fromModem,             \* frames on the socket towards the handler
    lastDone               \* the latest complete(): which request, whose reply

handlerVars == << freeSequenceNumbers, allocationIterator, messagesInAir,
                  messageQueue, live, undefined >>
vars == << handlerVars, modem, fromModem, lastDone >>

-----------------------------------------------------------------------------
SequenceNumbers == 0 .. MaxSeq

\* Two iterator values that are no element: end(), and the address of a set
\* node that erase() has freed.
End      == -1
Dangling == -2

\* What the handler tells apart in a frame: a body the factory cannot name or
\* readFromStream refuses, an indication or notification, a response, and any
\* other response type.  `body` is the request that a response answers.
FrameTypes == {"UNREADABLE", "NOTI", "RESP", "OTHER"}
Frames == [type : FrameTypes, aseq : SequenceNumbers,
           body : Messages \cup {NoMessage}]

\* The types of the variables; between two calls m_allocationIterator is at an
\* element or dangles, and never at end().
TypeOK ==
    /\ freeSequenceNumbers \in SUBSET SequenceNumbers
    /\ allocationIterator \in SequenceNumbers \cup {Dangling}
    /\ messagesInAir \in [SequenceNumbers -> Messages \cup {NoMessage}]
    /\ messageQueue \in Seq(Messages)
    /\ live \in SUBSET Messages
    /\ undefined \in BOOLEAN
    /\ modem \in SUBSET [mseq : SequenceNumbers, body : Messages]
    /\ fromModem \in Seq(Frames)
    /\ lastDone \in [request : Messages \cup {NoMessage},
                     reply   : Messages \cup {NoMessage}]

\* begin() of a std::set, and where ++ takes an iterator at element n: to the
\* next greater element, else to end().  Written as sets of outcomes.
Begin(S) == {k \in S : \A j \in S : k <= j}

Increment(S, n) ==
    LET greater == {k \in S : k > n}
    IN  IF greater = {} THEN {End} ELSE Begin(greater)

\* As a bug would have it: the iterator is left at end().
AdvanceNoWrap(S, n) == Increment(S, n)

\* m_allocationIterator after `val = it++; if(it == end()) it = begin();`.
Advance(S, n) ==
    IF Increment(S, n) = {End} THEN Begin(S) ELSE Increment(S, n)

\* erase() frees the node of `val`: an iterator that still points at it dangles.
AfterErase(it, val) == IF it = val THEN Dangling ELSE it

\* The node that insert() allocates may be the one a dangling iterator still
\* addresses (the allocator reuses it), which makes that iterator good again.
AfterInsert(it, n) == IF it = Dangling THEN {Dangling, n} ELSE {it}

NewMessageTable == [n \in SequenceNumbers |-> NoMessage]

-----------------------------------------------------------------------------
\* IPCSocketHandler::IPCSocketHandler.
Init ==
    /\ freeSequenceNumbers = SequenceNumbers
    /\ allocationIterator \in Begin(SequenceNumbers)
    /\ messagesInAir = NewMessageTable
    /\ messageQueue = << >>
    /\ live = {}
    /\ undefined = FALSE
    /\ modem = {}
    /\ fromModem = << >>
    /\ lastDone = [request |-> NoMessage, reply |-> NoMessage]

\* As a bug would have it: an event keeps the number that it was sent with.
SendWithEventKeepsNumber(m, val, next, free, inAir, alive) ==
    /\ freeSequenceNumbers' = free \ {val}
    /\ allocationIterator' = AfterErase(next, val)
    /\ messagesInAir' = [inAir EXCEPT ![val] = m]
    /\ live' = IF m \in Events THEN alive \ {m} ELSE alive
    /\ modem' = IF m \in Events THEN modem
                ELSE modem \cup {[mseq |-> val, body |-> m]}

\* The part of submit() after the number is chosen: the frame is sent, and only
\* a request that will be answered keeps its number.
SendWith(m, val, next, free, inAir, alive) ==
    IF m \notin Events
    THEN /\ freeSequenceNumbers' = free \ {val}
         /\ allocationIterator' = AfterErase(next, val)
         /\ messagesInAir' = [inAir EXCEPT ![val] = m]
         /\ live' = alive
         /\ modem' = modem \cup {[mseq |-> val, body |-> m]}
    ELSE /\ freeSequenceNumbers' = free
         /\ allocationIterator' = next
         /\ messagesInAir' = inAir
         /\ live' = alive \ {m}
         /\ UNCHANGED modem

\* As a bug would have it: submit() does not test for an empty set.
SubmitOnNoEmptyTest(m, free, it, inAir, queue, alive) ==
    /\ messageQueue' = queue
    /\ \E next \in IF free = {} THEN {it} ELSE Advance(free, it) :
           SendWith(m, IF it = Dangling THEN 0 ELSE it, next, free, inAir, alive)
    /\ UNCHANGED undefined

\* IPCSocketHandler::submit on the tables given as arguments (handleMessage
\* calls it with tables it has already changed).  Taking the value of a
\* dangling iterator is undefined behaviour, after which the model stops.
\* writeToStream fails on no stream opened for writing, so the error return
\* after it is never taken.
SubmitOn(m, free, it, inAir, queue, alive) ==
    \/ /\ free = {}
       /\ messageQueue' = Append(queue, m)
       /\ freeSequenceNumbers' = free
       /\ allocationIterator' = it
       /\ messagesInAir' = inAir
       /\ live' = alive
       /\ UNCHANGED << undefined, modem >>
    \/ /\ free # {}
       /\ it = Dangling
       /\ undefined' = TRUE
       /\ UNCHANGED << freeSequenceNumbers, allocationIterator, messagesInAir,
                       messageQueue, live, modem >>
    \/ /\ free # {}
       /\ it # Dangling
       /\ messageQueue' = queue
       /\ \E next \in Advance(free, it) :
              SendWith(m, it, next, free, inAir, alive)
       /\ UNCHANGED undefined

\* A caller's new message reaches submit().
Submit(m) ==
    /\ ~undefined
    /\ m \notin live
    /\ SubmitOn(m, freeSequenceNumbers, allocationIterator, messagesInAir,
                messageQueue, live \cup {m})
    /\ UNCHANGED << fromModem, lastDone >>

-----------------------------------------------------------------------------
\* As bugs would have it: the number is never returned; the queue is drained
\* whenever it can be; a response completes any request.
HandleResponseLeaksNumber(aseq, reply) ==
    /\ messagesInAir[aseq] # NoMessage
    /\ messagesInAir' = [messagesInAir EXCEPT ![aseq] = NoMessage]
    /\ live' = live \ {messagesInAir[aseq]}
    /\ lastDone' = [request |-> messagesInAir[aseq], reply |-> reply]
    /\ UNCHANGED << freeSequenceNumbers, allocationIterator, messageQueue,
                    undefined, modem >>

HandleResponseDrainsQueue(aseq, reply) ==
    LET free  == freeSequenceNumbers \cup {aseq}
        inAir == [messagesInAir EXCEPT ![aseq] = NoMessage]
        alive == live \ {messagesInAir[aseq]}
    IN  /\ messagesInAir[aseq] # NoMessage
        /\ \E first \in Begin(free) :
               IF messageQueue # << >>
               THEN SubmitOn(Head(messageQueue), free, first, inAir,
                             Tail(messageQueue), alive)
               ELSE /\ freeSequenceNumbers' = free
                    /\ allocationIterator' = first
                    /\ messagesInAir' = inAir
                    /\ live' = alive
                    /\ UNCHANGED << messageQueue, undefined, modem >>
        /\ lastDone' = [request |-> messagesInAir[aseq], reply |-> reply]

HandleResponseFIFO(aseq, reply) ==
    \E n \in SequenceNumbers :
        /\ messagesInAir[n] # NoMessage
        /\ freeSequenceNumbers' = freeSequenceNumbers \cup {n}
        /\ messagesInAir' = [messagesInAir EXCEPT ![n] = NoMessage]
        /\ live' = live \ {messagesInAir[n]}
        /\ lastDone' = [request |-> messagesInAir[n], reply |-> reply]
        /\ allocationIterator' \in AfterInsert(allocationIterator, n)
        /\ UNCHANGED << messageQueue, undefined, modem >>

\* handleMessage on a response: the number is released, then the queue is
\* tried (only if the iterator stood at end()), then the request completes
\* and is deleted.
HandleResponse(aseq, reply) ==
    LET request == messagesInAir[aseq]
        free    == freeSequenceNumbers \cup {aseq}
        inAir   == [messagesInAir EXCEPT ![aseq] = NoMessage]
        alive   == live \ {request}
    IN  /\ request # NoMessage
        /\ \E it \in AfterInsert(allocationIterator, aseq) :
               IF it = End
               THEN \E first \in Begin(free) :
                        IF messageQueue # << >>
                        THEN SubmitOn(Head(messageQueue), free, first, inAir,
                                      Tail(messageQueue), alive)
                        ELSE /\ freeSequenceNumbers' = free
                             /\ allocationIterator' = first
                             /\ messagesInAir' = inAir
                             /\ live' = alive
                             /\ UNCHANGED << messageQueue, undefined, modem >>
               ELSE /\ freeSequenceNumbers' = free
                    /\ allocationIterator' = it
                    /\ messagesInAir' = inAir
                    /\ live' = alive
                    /\ UNCHANGED << messageQueue, undefined, modem >>
        /\ lastDone' = [request |-> request, reply |-> reply]

\* handleMessage on every frame that completes nothing: an unknown or
\* undecodable message, an unsolicited one (given to the unsolicited handler,
\* which has no access to these tables), a response nobody waits for, an
\* unexpected response type.  The reply object is deleted.
DropFrame(f) ==
    /\ \/ f.type # "RESP"
       \/ messagesInAir[f.aseq] = NoMessage
    /\ UNCHANGED << handlerVars, modem, lastDone >>

\* IPCSocketHandler::handleMessage.
HandleMessage ==
    /\ ~undefined
    /\ fromModem # << >>
    /\ fromModem' = Tail(fromModem)
    /\ LET f == Head(fromModem)
       IN  \/ f.type = "RESP" /\ HandleResponse(f.aseq, f.body)
           \/ DropFrame(f)

-----------------------------------------------------------------------------
\* The modem (external) answers a request it has received, in any order.
Answer(m) ==
    /\ Len(fromModem) < MaxFrames
    /\ \E r \in modem :
           /\ r.body = m
           /\ modem' = modem \ {r}
           /\ fromModem' = Append(fromModem, [type |-> "RESP",
                                              aseq |-> r.mseq, body |-> m])
    /\ UNCHANGED << handlerVars, lastDone >>

\* A modem that misbehaves, or whose notifications share the socket: any frame
\* at any time, repeated and unexpected responses included.
Stray ==
    /\ FaultyModem
    /\ Len(fromModem) < MaxFrames
    /\ \E t \in FrameTypes, n \in SequenceNumbers :
           fromModem' = Append(fromModem, [type |-> t, aseq |-> n,
                                           body |-> NoMessage])
    /\ UNCHANGED << handlerVars, modem, lastDone >>

\* An answer that arrives undecodable.
GarbledAnswer ==
    /\ FaultyModem
    /\ Len(fromModem) < MaxFrames
    /\ \E r \in modem :
           /\ modem' = modem \ {r}
           /\ fromModem' = Append(fromModem, [type |-> "UNREADABLE",
                                              aseq |-> r.mseq, body |-> r.body])
    /\ UNCHANGED << handlerVars, lastDone >>

Next ==
    \/ \E m \in Messages : Submit(m)
    \/ HandleMessage
    \/ \E m \in Messages : Answer(m)
    \/ Stray
    \/ GarbledAnswer

Spec == Init /\ [][Next]_vars

\* The worker thread keeps reading its socket, and the modem answers each
\* request in the end.  Callers owe nothing.
FairSpec ==
    /\ Spec
    /\ WF_vars(HandleMessage)
    /\ \A m \in Messages : WF_vars(Answer(m))

-----------------------------------------------------------------------------
InAir  == {messagesInAir[n] : n \in SequenceNumbers} \ {NoMessage}
Queued == {messageQueue[i] : i \in 1 .. Len(messageQueue)}

\* Fewer requests can be outstanding at once than there are numbers.
Ample == /\ IsFiniteSet(Messages \ Events)
         /\ Cardinality(Messages \ Events) <= MaxSeq

\* Every number is either free or carries a request, never both and never
\* neither, whatever the modem sends (submit and handleMessage keep
\* m_freeSequenceNumbers and m_messagesInAir complementary, events included).
SequencePartition ==
    \A n \in SequenceNumbers :
        n \in freeSequenceNumbers <=> messagesInAir[n] = NoMessage

\* Every undeleted request has exactly one owner: one slot of m_messagesInAir
\* or one place in m_messageQueue.  Nothing deleted is still reachable (no
\* use after free, no second completion) and nothing reachable from nowhere
\* is left undeleted (no leak).
Ownership ==
    /\ live = InAir \cup Queued
    /\ InAir \cap Queued = {}
    /\ \A i, j \in SequenceNumbers :
           messagesInAir[i] = messagesInAir[j] /\ messagesInAir[i] # NoMessage
               => i = j
    /\ \A i, j \in 1 .. Len(messageQueue) :
           messageQueue[i] = messageQueue[j] => i = j

\* While at most MaxSeq requests (254 in the code) are outstanding at once,
\* m_allocationIterator always points at a free number, so nothing is queued
\* and the iterator that submit() dereferences is never dangling.
SafeAllocation ==
    Ample => /\ ~undefined
             /\ messageQueue = << >>
             /\ allocationIterator \in freeSequenceNumbers

\* With a modem that answers each request once, complete() is called with the
\* reply to the request it is called on, although numbers are reused.
CorrectReply == ~FaultyModem => lastDone.request = lastDone.reply

\* handleMessage never resubmits a queued message: it does so only when the
\* iterator stands at end(), where submit() never leaves it.  A request that
\* is queued once therefore stays queued for ever.
QueuedForEver ==
    [][\E added \in {<< >>} \cup {<< m >> : m \in Messages} :
           messageQueue' = messageQueue \o added]_vars

\* While numbers are ample, every request handed to submit() is completed (or
\* sent and deleted, if it is an event).
EveryRequestCompletes ==
    Ample => \A m \in Messages : (m \in live) ~> (m \notin live)

Channel == INSTANCE RequestChannel WITH pending <- live

\* submit() and handleMessage() implement the request channel, as long as the
\* modem answers each request once; exhaustion of the numbers included.
ImplementsChannel == Channel!ChannelSpec
=============================================================================
