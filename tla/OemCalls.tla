------------------------------ MODULE OemCalls ------------------------------
(***************************************************************************)
(* oemservice/.../RilInterface.java: synchronousOemCall, by which Binder   *)
(* threads send OEM requests to the RIL and wait, and onCallComplete, by   *)
(* which the RilRequestCompletionThread wakes them.                        *)
(*                                                                         *)
(* A call takes its identifier from mCallIdCounter, a boxed Integer that   *)
(* is also the monitor: ++ puts another Integer in its place, so that a    *)
(* thread may hold the monitor of an old value while another holds that of *)
(* the new one.  Small boxed Integers are shared, so the value names the   *)
(* monitor.                                                                *)
(***************************************************************************)
EXTENDS Integers, Sequences, FiniteSets

CONSTANTS
    Threads,      \* Binder threads
    MaxCalls,     \* bound on the identifiers handed out
    MayInterrupt, \* whether a waiting thread may be interrupted
    NoThread

ASSUME ConstantsAssumption ==
    /\ NoThread \notin Threads
    /\ IsFiniteSet(Threads)
    /\ MaxCalls \in Nat
    /\ MayInterrupt \in BOOLEAN

Ids  == 1 .. MaxCalls
NoId == 0

VARIABLES
    counter,      \* mCallIdCounter, as a value and as a monitor
    monitors,     \* which thread holds the monitor of each Integer
    call,         \* each Binder thread's call: where it is, its identifier
    lockMap,      \* mLockMap: the thread whose `lock` object is held
    resultMap,    \* mResultMap: the thread whose request the result is of
    completer,    \* RilRequestCompletionThread: where it is, what it holds
    ready,        \* its Looper has been prepared
    ril,          \* requests the RIL has not answered: identifier and caller
    queue,        \* completions posted to the completion thread
    returned,     \* each thread's latest result: of whose request, or an error
    stale,        \* ghost: a thread entered the monitor of a replaced Integer
    raced,        \* ghost: two threads were in the increment at once
    abandoned     \* ghost: the calls that ended while the completion thread,
                  \* having found their lock, was still to use it

ghosts == << stale, raced, abandoned >>

vars == << counter, monitors, call, lockMap, resultMap, completer, ready, ril,
           queue, returned, stale, raced, abandoned >>

-----------------------------------------------------------------------------
Pcs == {"idle", "enter", "read", "write", "invoke", "wait", "woken", "roused", "took"}

\* The types of the variables; an identifier is never used beyond the bound.
TypeOK ==
    /\ counter \in 0 .. MaxCalls
    /\ monitors \in [0 .. MaxCalls -> Threads \cup {NoThread}]
    /\ call \in [Threads -> [pc : Pcs, id : 0 .. MaxCalls, monitor : 0 .. MaxCalls]]
    /\ lockMap \in [Ids -> Threads \cup {NoThread}]
    /\ resultMap \in [Ids -> Threads \cup {NoThread}]
    /\ completer \in [pc : {"idle", "put", "notify"}, id : 0 .. MaxCalls,
                      lock : Threads \cup {NoThread}, of : Threads \cup {NoThread}]
    /\ ready \in BOOLEAN
    /\ ril \in SUBSET [id : Ids, of : Threads]
    /\ queue \in Seq([id : Ids, of : Threads])
    /\ returned \in [Threads -> Threads \cup {NoThread, "false", "exception"}]
    /\ stale \in BOOLEAN
    /\ raced \in BOOLEAN
    /\ abandoned \subseteq Ids

IdleCall == [pc |-> "idle", id |-> NoId, monitor |-> 0]
IdleCompleter == [pc |-> "idle", id |-> NoId, lock |-> NoThread, of |-> NoThread]

\* RilInterface's constructor has started the completion thread.
Init ==
    /\ counter = 0
    /\ monitors = [i \in 0 .. MaxCalls |-> NoThread]
    /\ call = [t \in Threads |-> IdleCall]
    /\ lockMap = [i \in Ids |-> NoThread]
    /\ resultMap = [i \in Ids |-> NoThread]
    /\ completer = IdleCompleter
    /\ ready = FALSE
    /\ ril = {}
    /\ queue = << >>
    /\ returned = [t \in Threads |-> NoThread]
    /\ stale = FALSE
    /\ raced = FALSE
    /\ abandoned = {}

\* onLooperPrepared.
LooperPrepared ==
    /\ ~ready
    /\ ready' = TRUE
    /\ UNCHANGED << counter, monitors, call, lockMap, resultMap, completer, ril,
                    queue, returned, ghosts >>

-----------------------------------------------------------------------------
(* synchronousOemCall.                                                     *)

unchangedByCall == << completer, ready, queue >>

\* The call starts; `synchronized` evaluates mCallIdCounter.
Begin(t) ==
    /\ call[t].pc = "idle"
    /\ counter + Cardinality({u \in Threads : call[u].pc \in {"enter", "read", "write"}})
           < MaxCalls
    /\ call' = [call EXCEPT ![t] = [pc |-> "enter", id |-> NoId, monitor |-> counter]]
    /\ returned' = [returned EXCEPT ![t] = NoThread]
    /\ UNCHANGED << unchangedByCall, counter, monitors, lockMap, resultMap, ril,
                    ghosts >>

\* What the ghosts note of a thread that starts to increment.
NoteIncrement(t) ==
    /\ stale' = (stale \/ call[t].monitor # counter)
    /\ raced' = (raced \/ \E u \in Threads : call[u].pc \in {"read", "write"})

\* As a bug would have it: there is no monitor.
EnterMonitorUnguarded(t) ==
    /\ call[t].pc = "enter"
    /\ call' = [call EXCEPT ![t].pc = "read"]
    /\ NoteIncrement(t)
    /\ UNCHANGED << unchangedByCall, counter, monitors, lockMap, resultMap, ril,
                    returned, abandoned >>

\* It enters the monitor of the Integer it saw, which may no longer be the
\* counter.
EnterMonitor(t) ==
    /\ call[t].pc = "enter"
    /\ monitors[call[t].monitor] = NoThread
    /\ monitors' = [monitors EXCEPT ![call[t].monitor] = t]
    /\ call' = [call EXCEPT ![t].pc = "read"]
    /\ NoteIncrement(t)
    /\ UNCHANGED << unchangedByCall, counter, lockMap, resultMap, ril, returned,
                    abandoned >>

\* ++mCallIdCounter reads the counter ...  (The bound of Begin does not cover
\* threads that race: a late write may set the counter back.)
ReadCounter(t) ==
    /\ call[t].pc = "read"
    /\ counter < MaxCalls
    /\ call' = [call EXCEPT ![t].pc = "write", ![t].id = counter + 1]
    /\ UNCHANGED << unchangedByCall, counter, monitors, lockMap, resultMap, ril,
                    returned, ghosts >>

\* ... and writes it; the monitor is left and the new lock registered.
WriteCounter(t) ==
    /\ call[t].pc = "write"
    /\ counter' = call[t].id
    /\ monitors' = [i \in DOMAIN monitors |->
                        IF monitors[i] = t THEN NoThread ELSE monitors[i]]
    /\ lockMap' = [lockMap EXCEPT ![call[t].id] = t]
    /\ call' = [call EXCEPT ![t].pc = "invoke"]
    /\ UNCHANGED << unchangedByCall, resultMap, ril, returned, ghosts >>

\* Under the call's own lock: the request is sent and the thread waits.  Before
\* the completion thread's Looper is prepared obtainCompletion throws, and the
\* entry in mLockMap stays.
Invoke(t) ==
    /\ call[t].pc = "invoke"
    /\ \/ /\ ready
          /\ ril' = ril \cup {[id |-> call[t].id, of |-> t]}
          /\ call' = [call EXCEPT ![t].pc = "wait"]
          /\ UNCHANGED returned
       \/ /\ ~ready
          /\ call' = [call EXCEPT ![t] = IdleCall]
          /\ returned' = [returned EXCEPT ![t] = "exception"]
          /\ UNCHANGED ril
    /\ UNCHANGED << unchangedByCall, counter, monitors, lockMap, resultMap,
                    ghosts >>

\* The completion thread has found the lock of this call and is at one of pcs.
InHand(id, pcs) == completer.id = id /\ completer.pc \in pcs

\* wait() throws InterruptedException; a result already there is not taken.
Interrupt(t) ==
    LET id == call[t].id
    IN  /\ MayInterrupt
        /\ call[t].pc = "wait"
        /\ lockMap' = [lockMap EXCEPT ![id] = NoThread]
        /\ call' = [call EXCEPT ![t] = IdleCall]
        /\ returned' = [returned EXCEPT ![t] = "false"]
        /\ abandoned' = abandoned \cup (IF InHand(id, {"put", "notify"}) THEN {id} ELSE {})
        /\ UNCHANGED << unchangedByCall, counter, monitors, resultMap, ril, stale, raced >>

\* wait() stands in no loop: the thread goes on when it wakes up without a
\* notify(), as the language allows.
WakeSpuriously(t) ==
    /\ call[t].pc = "wait"
    /\ call' = [call EXCEPT ![t].pc = "roused"]
    /\ UNCHANGED << unchangedByCall, counter, monitors, lockMap, resultMap, ril,
                    returned, ghosts >>

\* After wait(): mLockMap.remove and mResultMap.get.  (Nothing the completion
\* thread does between the two makes a difference.)  A null result will throw.
TakeResult(t) ==
    LET id == call[t].id
    IN  /\ call[t].pc \in {"woken", "roused"}
        /\ lockMap' = [lockMap EXCEPT ![id] = NoThread]
        /\ returned' = [returned EXCEPT ![t] =
                           IF resultMap[id] = NoThread THEN "exception" ELSE resultMap[id]]
        /\ call' = [call EXCEPT ![t].pc = "took"]
        /\ UNCHANGED << unchangedByCall, counter, monitors, resultMap, ril, ghosts >>

NoteReturn(t) ==
    abandoned' = abandoned \cup (IF InHand(call[t].id, {"put"}) THEN {call[t].id} ELSE {})

\* As a bug would have it: the result stays in mResultMap.
ReturnKeepsEntries(t) ==
    /\ call[t].pc = "took"
    /\ call' = [call EXCEPT ![t] = IdleCall]
    /\ NoteReturn(t)
    /\ UNCHANGED << unchangedByCall, counter, monitors, lockMap, resultMap, ril,
                    returned, stale, raced >>

\* mResultMap.remove and the rest of the call.
Return(t) ==
    /\ call[t].pc = "took"
    /\ resultMap' = [resultMap EXCEPT ![call[t].id] = NoThread]
    /\ call' = [call EXCEPT ![t] = IdleCall]
    /\ NoteReturn(t)
    /\ UNCHANGED << unchangedByCall, counter, monitors, lockMap, ril, returned,
                    stale, raced >>

-----------------------------------------------------------------------------
\* The RIL (external) answers, in any order, and posts the completion.
RilAnswers ==
    /\ \E r \in ril :
          /\ ril' = ril \ {r}
          /\ queue' = Append(queue, r)
    /\ UNCHANGED << counter, monitors, call, lockMap, resultMap, completer, ready,
                    returned, ghosts >>

unchangedByCompleter == << counter, monitors, ready, ril, returned, ghosts >>

\* As a bug would have it: any waiting call is completed.
LookupAnyWaiter ==
    /\ ready
    /\ completer.pc = "idle"
    /\ queue # << >>
    /\ queue' = Tail(queue)
    /\ \E t \in Threads :
          /\ call[t].pc = "wait"
          /\ completer' = [pc |-> "put", id |-> call[t].id, lock |-> t, of |-> Head(queue).of]
    /\ UNCHANGED << unchangedByCompleter, call, lockMap, resultMap >>

\* onCallComplete: mLockMap.get.
Lookup ==
    /\ ready
    /\ completer.pc = "idle"
    /\ queue # << >>
    /\ queue' = Tail(queue)
    /\ LET m == Head(queue)
       IN  completer' = IF lockMap[m.id] = NoThread THEN IdleCompleter
                        ELSE [pc |-> "put", id |-> m.id, lock |-> lockMap[m.id], of |-> m.of]
    /\ UNCHANGED << unchangedByCompleter, call, lockMap, resultMap >>

\* mResultMap.put.
PutResult ==
    /\ completer.pc = "put"
    /\ resultMap' = [resultMap EXCEPT ![completer.id] = completer.of]
    /\ completer' = [completer EXCEPT !.pc = "notify"]
    /\ UNCHANGED << unchangedByCompleter, call, lockMap, queue >>

\* As a bug would have it: nobody is woken.
NotifyLockNever ==
    /\ completer.pc = "notify"
    /\ completer' = IdleCompleter
    /\ UNCHANGED << unchangedByCompleter, call, lockMap, resultMap, queue >>

\* lock.notify() wakes the lock's thread if it waits.
NotifyLock ==
    /\ completer.pc = "notify"
    /\ call' = [call EXCEPT ![completer.lock].pc =
                    IF @ = "wait" /\ call[completer.lock].id = completer.id
                    THEN "woken" ELSE @]
    /\ completer' = IdleCompleter
    /\ UNCHANGED << unchangedByCompleter, lockMap, resultMap, queue >>

Next ==
    \/ LooperPrepared
    \/ \E t \in Threads : Begin(t) \/ EnterMonitor(t) \/ ReadCounter(t)
                          \/ WriteCounter(t) \/ Invoke(t) \/ Interrupt(t)
                          \/ WakeSpuriously(t) \/ TakeResult(t) \/ Return(t)
    \/ RilAnswers \/ Lookup \/ PutResult \/ NotifyLock

Spec == Init /\ [][Next]_vars

\* Threads that can go on do; the RIL answers each request; nobody is obliged
\* to make calls.
FairSpec ==
    /\ Spec
    /\ WF_vars(LooperPrepared)
    /\ \A t \in Threads : /\ WF_vars(EnterMonitor(t)) /\ WF_vars(ReadCounter(t))
                          /\ WF_vars(WriteCounter(t)) /\ WF_vars(Invoke(t))
                          /\ WF_vars(TakeResult(t)) /\ WF_vars(Return(t))
    /\ WF_vars(RilAnswers) /\ WF_vars(Lookup) /\ WF_vars(PutResult)
    /\ WF_vars(NotifyLock)

-----------------------------------------------------------------------------
\* Calls that have their identifier.
Outstanding == {t \in Threads : call[t].pc \in {"invoke", "wait", "woken", "roused", "took"}}

\* What the monitor buys although its object changes under it: two calls share
\* an identifier only if some thread saw mCallIdCounter, had to wait for the
\* monitor of that Integer or was delayed before it, and entered it when another
\* call had put a new Integer in its place.
IdsDistinct ==
    ~stale => \A t, u \in Outstanding : call[t].id = call[u].id => t = u

\* A thread that notify() wakes finds in mResultMap the result of its own
\* request, although the completion thread puts it there without the caller's
\* lock, and no thread, however its wait ended, returns the result of another's;
\* unless identifiers were shared.
OwnResult ==
    ~raced => \A t \in Threads :
        /\ call[t].pc = "woken" => resultMap[call[t].id] = t
        /\ returned[t] \in {NoThread, t, "false", "exception"}

\* A result outlives its call in mResultMap, unless identifiers were shared, only
\* if the call ended (interrupted, or after a wake-up without notify()) when the
\* completion thread had already found its lock: before mResultMap.put, or, for an
\* interrupted call, before the notify.  A result that comes later than that finds
\* no lock and is dropped.
NoResultLeft ==
    \A i \in Ids : resultMap[i] # NoThread /\ ~raced =>
        call[resultMap[i]].id = i \/ i \in abandoned

\* Every call returns, unless identifiers were shared.
EveryCallReturns ==
    \A t \in Threads : (call[t].pc # "idle") ~> (call[t].pc = "idle" \/ raced)
=============================================================================
