-------------------------- MODULE OemCalls_proofs ---------------------------
(***************************************************************************)
(* Theorems about OemCalls, for any set of Binder threads and any number   *)
(* of calls.                                                               *)
(*                                                                         *)
(* None of the properties is inductive.  That two calls have different     *)
(* identifiers rests on who holds the monitor of the current Integer       *)
(* (MonitorInv) and on what a thread inside ++mCallIdCounter has read      *)
(* (IdInv).  That a call gets its own result rests on where its request    *)
(* has been: with the RIL, in the completion thread's queue, or in that    *)
(* thread's hands between mLockMap.get, mResultMap.put and notify          *)
(* (MapInv).  That results are left over in two windows only needs,        *)
(* besides, that a lock still in mLockMap means a call still under way,    *)
(* and that a waiting call whose result is there is about to be notified   *)
(* (AnswerInv).                                                            *)
(***************************************************************************)
EXTENDS OemCalls, TLAPS

InIncrement(t) == call[t].pc \in {"read", "write"}

\* Where a call has an identifier.
Numbered == {"write", "invoke", "wait", "woken", "roused", "took"}

\* Identifiers and completions are well formed where they are used.
TypeInv ==
    /\ TypeOK
    /\ \A t \in Threads :
          call[t].pc \in Numbered => call[t].id \in Ids
    /\ completer.pc # "idle" =>
           completer.id \in Ids /\ completer.lock \in Threads /\ completer.of \in Threads

\* As long as nobody enters the monitor of a replaced Integer, the thread in the
\* increment holds the monitor of the present one.
MonitorInv == \A t \in Threads : InIncrement(t) => monitors[counter] = t

\* Without a race one thread at a time is in the increment, and what it has
\* read is still the counter when it writes.
IdInv ==
    /\ \A t, u \in Threads : InIncrement(t) /\ InIncrement(u) => t = u
    /\ \A t \in Threads : call[t].pc = "write" => call[t].id = counter + 1
    /\ \A t \in Outstanding : call[t].id <= counter
    /\ \A t, u \in Outstanding : call[t].id = call[u].id => t = u

\* A request r was made under its identifier, by the thread whose lock is, or
\* was, in mLockMap; that call is past the invoke.
Genuine(r) ==
    /\ r.id <= counter /\ lockMap[r.id] \in {NoThread, r.of}
    /\ call[r.of].pc = "invoke" => call[r.of].id # r.id

Answer == [id |-> completer.id, of |-> completer.of]

\* Calls whose lock is in mLockMap.
Locked == {t \in Threads : call[t].pc \in {"invoke", "wait", "woken", "roused"}}

LocksHeld == \A t \in Locked : lockMap[call[t].id] = t

ResultsOld == \A i \in Ids : i > counter => resultMap[i] = NoThread

RequestsGenuine ==
    /\ \A r \in ril : Genuine(r)
    /\ \A k \in 1 .. Len(queue) : Genuine(queue[k])
    /\ completer.pc # "idle" => Genuine(Answer) /\ completer.lock = completer.of

ResultsGenuine ==
    \A i \in Ids : resultMap[i] # NoThread => lockMap[i] \in {NoThread, resultMap[i]}

ResultBeforeNotify ==
    completer.pc = "notify" =>
        \A t \in Threads : call[t].pc = "wait" /\ call[t].id = completer.id
                               => resultMap[completer.id] = t

OwnResults ==
    \A t \in Threads :
        /\ call[t].pc = "woken" => resultMap[call[t].id] = t
        /\ returned[t] \in {NoThread, t, "false", "exception"}

\* Without a race the maps say whose call and whose result an identifier means.
MapInv ==
    /\ LocksHeld /\ ResultsOld
    /\ RequestsGenuine /\ ResultsGenuine
    /\ ResultBeforeNotify /\ OwnResults

\* The call of t with identifier i is not over.
Current(t, i) == call[t].id = i /\ call[t].pc \in {"wait", "woken", "roused", "took"}

\* The caller of r has not looked for its result yet.
Pending(r) == call[r.of].id = r.id /\ call[r.of].pc \in {"wait", "woken", "roused"}

RequestsPending == \A r \in ril : lockMap[r.id] # NoThread => Pending(r)

CompletionsPending ==
    \A k \in 1 .. Len(queue) : lockMap[queue[k].id] # NoThread => Pending(queue[k])

AnswerCurrent ==
    completer.pc = "put" =>
        Current(completer.of, completer.id) \/ completer.id \in abandoned

\* A waiting call whose result is there is the one about to be notified.
WaitingNotified ==
    \A t \in Threads : call[t].pc = "wait" /\ resultMap[call[t].id] # NoThread =>
        completer.pc = "notify" /\ completer.id = call[t].id

InvokedAfresh ==
    \A t \in Threads : call[t].pc = "invoke" => resultMap[call[t].id] = NoThread

ResultsCurrent ==
    \A i \in Ids : resultMap[i] # NoThread =>
        Current(resultMap[i], i) \/ i \in abandoned

\* Without a race, a lock or a result that is there belongs to a call under way,
\* or to one that ended in the windows the ghost notes.
AnswerInv ==
    /\ RequestsPending /\ CompletionsPending /\ AnswerCurrent
    /\ WaitingNotified /\ InvokedAfresh /\ ResultsCurrent

Inv ==
    /\ TypeInv
    /\ ~stale => ~raced /\ MonitorInv
    /\ ~raced => IdInv /\ MapInv /\ AnswerInv
USE DEF Numbered
-----------------------------------------------------------------------------
\* What a step does to the calls: at most that of t changes.
OnlyCall(t, pc, id) ==
    /\ call'[t].pc = pc /\ call'[t].id = id
    /\ \A u \in Threads : u # t => call'[u] = call[u]
    /\ call' \in [Threads -> [pc : Pcs, id : 0 .. MaxCalls, monitor : 0 .. MaxCalls]]

CallRecords == [pc : Pcs, id : 0 .. MaxCalls, monitor : 0 .. MaxCalls]

LEMMA SetCall ==
    ASSUME TypeInv, NEW t \in Threads, NEW c \in CallRecords,
           call' = [call EXCEPT ![t] = c]
    PROVE  OnlyCall(t, c.pc, c.id)
BY DEF TypeInv, TypeOK, OnlyCall, CallRecords

LEMMA SetPc ==
    ASSUME TypeInv, NEW t \in Threads, NEW pc \in Pcs,
           call' = [call EXCEPT ![t] = [call[t] EXCEPT !.pc = pc]]
    PROVE  OnlyCall(t, pc, call[t].id)
<1> DEFINE c == [call[t] EXCEPT !.pc = pc]
<1>1. call[t] \in CallRecords
  BY DEF TypeInv, TypeOK, CallRecords
<1>2. c \in CallRecords /\ c.pc = pc /\ c.id = call[t].id
  BY <1>1 DEF CallRecords
<1> HIDE DEF c
<1>3. call' = [call EXCEPT ![t] = c]
  BY DEF c
<1> QED BY <1>2, <1>3, SetCall

\* What each step of synchronousOemCall does.
BeginEffect(t) ==
    /\ call[t].pc = "idle"
    /\ OnlyCall(t, "enter", NoId)
    /\ returned' = [returned EXCEPT ![t] = NoThread]
    /\ UNCHANGED << counter, monitors, lockMap, resultMap, completer, ready, ril,
                    queue, stale, raced, abandoned >>

LEMMA BeginDoes ==
    ASSUME TypeInv, NEW t \in Threads, Begin(t)
    PROVE  BeginEffect(t)
<1> DEFINE c == [pc |-> "enter", id |-> NoId, monitor |-> counter]
<1>1. c \in CallRecords /\ c.pc = "enter" /\ c.id = NoId
  BY ConstantsAssumption DEF TypeInv, TypeOK, CallRecords, Pcs, NoId
<1>2. call' = [call EXCEPT ![t] = c]
  BY DEF Begin
<1> HIDE DEF c
<1>3. OnlyCall(t, "enter", NoId)
  BY <1>1, <1>2, SetCall
<1> QED BY <1>3 DEF Begin, ghosts, unchangedByCall, BeginEffect

EnterMonitorEffect(t) ==
    /\ call[t].pc = "enter"
    /\ OnlyCall(t, "read", call[t].id)
    /\ monitors[call[t].monitor] = NoThread
    /\ monitors' = [monitors EXCEPT ![call[t].monitor] = t]
    /\ stale' = (stale \/ call[t].monitor # counter)
    /\ raced' = (raced \/ \E u \in Threads : InIncrement(u))
    /\ UNCHANGED << counter, lockMap, resultMap, completer, ready, ril, queue,
                    returned, abandoned >>

LEMMA EnterMonitorDoes ==
    ASSUME TypeInv, NEW t \in Threads, EnterMonitor(t)
    PROVE  EnterMonitorEffect(t)
<1>1. OnlyCall(t, "read", call[t].id)
  BY SetPc DEF EnterMonitor, Pcs
<1> QED BY <1>1 DEF EnterMonitor, NoteIncrement, unchangedByCall, InIncrement, EnterMonitorEffect

ReadCounterEffect(t) ==
    /\ call[t].pc = "read"
    /\ counter + 1 \in Ids
    /\ OnlyCall(t, "write", counter + 1)
    /\ UNCHANGED << counter, monitors, lockMap, resultMap, completer, ready, ril,
                    queue, returned, stale, raced, abandoned >>

LEMMA ReadCounterDoes ==
    ASSUME TypeInv, NEW t \in Threads, ReadCounter(t)
    PROVE  ReadCounterEffect(t)
<1> DEFINE c == [call[t] EXCEPT !.pc = "write", !.id = counter + 1]
<1>1. call[t] \in CallRecords /\ counter + 1 \in Ids
  BY ConstantsAssumption DEF ReadCounter, TypeInv, TypeOK, CallRecords, Ids
<1> DEFINE b == [call[t] EXCEPT !.pc = "write"]
<1>2. b \in CallRecords /\ b.pc = "write"
  BY <1>1 DEF CallRecords, Pcs
<1>3. c \in CallRecords /\ c.pc = "write" /\ c.id = counter + 1
  <2> HIDE DEF b
  <2>1. c = [b EXCEPT !.id = counter + 1]
    BY DEF b
  <2>2. counter + 1 \in 0 .. MaxCalls
    BY <1>1 DEF Ids
  <2> QED BY <1>2, <2>1, <2>2 DEF CallRecords
<1>4. call' = [call EXCEPT ![t] = c]
  BY DEF ReadCounter, TypeInv, TypeOK
<1> HIDE DEF c
<1>5. OnlyCall(t, "write", counter + 1)
  BY <1>3, <1>4, SetCall
<1> QED BY <1>1, <1>5 DEF ReadCounter, ghosts, unchangedByCall, ReadCounterEffect

WriteCounterEffect(t) ==
    /\ call[t].pc = "write"
    /\ OnlyCall(t, "invoke", call[t].id)
    /\ counter' = call[t].id
    /\ monitors' \in [0 .. MaxCalls -> Threads \cup {NoThread}]
    /\ lockMap' = [lockMap EXCEPT ![call[t].id] = t]
    /\ UNCHANGED << resultMap, completer, ready, ril, queue, returned, stale,
                    raced, abandoned >>

LEMMA WriteCounterDoes ==
    ASSUME TypeInv, NEW t \in Threads, WriteCounter(t)
    PROVE  WriteCounterEffect(t)
<1>1. OnlyCall(t, "invoke", call[t].id)
  BY SetPc DEF WriteCounter, Pcs
<1>2. monitors' \in [0 .. MaxCalls -> Threads \cup {NoThread}]
  BY DEF WriteCounter, TypeInv, TypeOK
<1> QED BY <1>1, <1>2 DEF WriteCounter, ghosts, unchangedByCall, WriteCounterEffect

LEMMA IdleRecord == IdleCall \in CallRecords /\ IdleCall.pc = "idle" /\ IdleCall.id = NoId
BY ConstantsAssumption DEF IdleCall, CallRecords, Pcs, NoId

InvokeEffect(t) ==
    /\ call[t].pc = "invoke"
    /\ \/ /\ OnlyCall(t, "wait", call[t].id)
          /\ ril' = ril \cup {[id |-> call[t].id, of |-> t]}
          /\ returned' = returned
       \/ /\ OnlyCall(t, "idle", NoId)
          /\ returned' = [returned EXCEPT ![t] = "exception"]
          /\ ril' = ril
    /\ UNCHANGED << counter, monitors, lockMap, resultMap, completer, ready, queue,
                    stale, raced, abandoned >>

LEMMA InvokeDoes ==
    ASSUME TypeInv, NEW t \in Threads, Invoke(t)
    PROVE  InvokeEffect(t)
<1>1. CASE ready
  <2>1. OnlyCall(t, "wait", call[t].id)
    BY <1>1, SetPc DEF Invoke, Pcs
  <2> QED BY <1>1, <2>1 DEF Invoke, ghosts, unchangedByCall, InvokeEffect
<1>2. CASE ~ready
  <2>1. OnlyCall(t, "idle", NoId)
    BY <1>2, SetCall, IdleRecord DEF Invoke
  <2> QED BY <1>2, <2>1 DEF Invoke, ghosts, unchangedByCall, InvokeEffect
<1> QED BY <1>1, <1>2

InterruptEffect(t) ==
    /\ call[t].pc = "wait"
    /\ OnlyCall(t, "idle", NoId)
    /\ lockMap' = [lockMap EXCEPT ![call[t].id] = NoThread]
    /\ returned' = [returned EXCEPT ![t] = "false"]
    /\ abandoned \subseteq abandoned' /\ abandoned' \subseteq abandoned \cup {call[t].id}
    /\ completer.id = call[t].id /\ completer.pc \in {"put", "notify"}
           => call[t].id \in abandoned'
    /\ UNCHANGED << counter, monitors, resultMap, completer, ready, ril, queue, stale,
                    raced >>

LEMMA InterruptDoes ==
    ASSUME TypeInv, NEW t \in Threads, Interrupt(t)
    PROVE  InterruptEffect(t)
<1>1. OnlyCall(t, "idle", NoId)
  BY SetCall, IdleRecord DEF Interrupt
<1> QED BY <1>1 DEF Interrupt, InHand, unchangedByCall, InterruptEffect

WakeEffect(t) ==
    /\ call[t].pc = "wait"
    /\ OnlyCall(t, "roused", call[t].id)
    /\ UNCHANGED << counter, monitors, lockMap, resultMap, completer, ready, ril,
                    queue, returned, stale, raced, abandoned >>

LEMMA WakeDoes ==
    ASSUME TypeInv, NEW t \in Threads, WakeSpuriously(t)
    PROVE  WakeEffect(t)
<1>1. OnlyCall(t, "roused", call[t].id)
  BY SetPc DEF WakeSpuriously, Pcs
<1> QED BY <1>1 DEF WakeSpuriously, ghosts, unchangedByCall, WakeEffect

TakeEffect(t) ==
    /\ call[t].pc \in {"woken", "roused"}
    /\ OnlyCall(t, "took", call[t].id)
    /\ lockMap' = [lockMap EXCEPT ![call[t].id] = NoThread]
    /\ returned' = [returned EXCEPT ![t] =
           IF resultMap[call[t].id] = NoThread THEN "exception" ELSE resultMap[call[t].id]]
    /\ UNCHANGED << counter, monitors, resultMap, completer, ready, ril, queue, stale,
                    raced, abandoned >>

LEMMA TakeDoes ==
    ASSUME TypeInv, NEW t \in Threads, TakeResult(t)
    PROVE  TakeEffect(t)
<1>1. OnlyCall(t, "took", call[t].id)
  BY SetPc DEF TakeResult, Pcs
<1> QED BY <1>1 DEF TakeResult, ghosts, unchangedByCall, TakeEffect

ReturnEffect(t) ==
    /\ call[t].pc = "took"
    /\ OnlyCall(t, "idle", NoId)
    /\ resultMap' = [resultMap EXCEPT ![call[t].id] = NoThread]
    /\ abandoned \subseteq abandoned' /\ abandoned' \subseteq abandoned \cup {call[t].id}
    /\ completer.id = call[t].id /\ completer.pc = "put" => call[t].id \in abandoned'
    /\ UNCHANGED << counter, monitors, lockMap, completer, ready, ril, queue, returned,
                    stale, raced >>

LEMMA ReturnDoes ==
    ASSUME TypeInv, NEW t \in Threads, Return(t)
    PROVE  ReturnEffect(t)
<1>1. call' = [call EXCEPT ![t] = IdleCall]
  BY DEF Return
<1>2. OnlyCall(t, "idle", NoId)
  BY <1>1, SetCall, IdleRecord
<1> QED BY <1>2 DEF Return, NoteReturn, InHand, unchangedByCall, ReturnEffect

Requests == [id : Ids, of : Threads]

\* What the completion thread does.  The lookup takes the first completion and
\* keeps it if there is a lock for it.
LookupEffect ==
    /\ queue # << >> /\ queue' = Tail(queue)
    /\ Head(queue) \in Requests /\ queue' \in Seq(Requests)
    /\ completer.pc = "idle"
    /\ \/ completer' = IdleCompleter
       \/ /\ lockMap[Head(queue).id] \in Threads
          /\ completer' = [pc |-> "put", id |-> Head(queue).id,
                           lock |-> lockMap[Head(queue).id], of |-> Head(queue).of]
    /\ UNCHANGED << counter, monitors, call, lockMap, resultMap, ready, ril,
                    returned, stale, raced, abandoned >>

LEMMA LookupDoes ==
    ASSUME TypeInv, Lookup
    PROVE  LookupEffect
<1>1. queue # << >> /\ queue' = Tail(queue) /\ completer.pc = "idle"
  BY DEF Lookup
<1>2. queue \in Seq(Requests)
  BY DEF TypeInv, TypeOK, Requests
<1>3. Head(queue) \in Requests /\ queue' \in Seq(Requests)
  BY <1>1, <1>2
<1>4. lockMap[Head(queue).id] \in Threads \cup {NoThread}
  BY <1>3 DEF TypeInv, TypeOK, Requests
<1> QED BY <1>1, <1>3, <1>4 DEF Lookup, unchangedByCompleter, ghosts, LookupEffect

PutResultEffect ==
    /\ completer.pc = "put"
    /\ resultMap' = [resultMap EXCEPT ![completer.id] = completer.of]
    /\ completer' = [pc |-> "notify", id |-> completer.id,
                     lock |-> completer.lock, of |-> completer.of]
    /\ UNCHANGED << counter, monitors, call, lockMap, ready, ril, queue,
                    returned, stale, raced, abandoned >>

LEMMA PutResultDoes ==
    ASSUME TypeInv, PutResult
    PROVE  PutResultEffect
BY DEF PutResult, unchangedByCompleter, ghosts, TypeInv, TypeOK, PutResultEffect

\* notify() wakes the lock's thread if that waits for this answer.
NotifyLockEffect ==
    /\ completer.pc = "notify"
    /\ completer.lock \in Threads
    /\ OnlyCall(completer.lock,
                IF call[completer.lock].pc = "wait" /\ call[completer.lock].id = completer.id
                THEN "woken" ELSE call[completer.lock].pc,
                call[completer.lock].id)
    /\ completer' = IdleCompleter
    /\ UNCHANGED << counter, monitors, lockMap, resultMap, ready, ril, queue,
                    returned, stale, raced, abandoned >>

LEMMA NotifyLockDoes ==
    ASSUME TypeInv, NotifyLock
    PROVE  NotifyLockEffect
<1> DEFINE t == completer.lock
           pc == IF call[t].pc = "wait" /\ call[t].id = completer.id THEN "woken" ELSE call[t].pc
<1>1. t \in Threads
  BY DEF NotifyLock, TypeInv
<1>2. pc \in Pcs
  BY <1>1 DEF TypeInv, TypeOK, Pcs
<1>3. call' = [call EXCEPT ![t] = [call[t] EXCEPT !.pc = pc]]
  BY DEF NotifyLock
<1> HIDE DEF pc
<1>4. OnlyCall(t, pc, call[t].id)
  BY <1>1, <1>2, <1>3, SetPc
<1> QED BY <1>1, <1>4 DEF pc, NotifyLock, unchangedByCompleter, ghosts, NotifyLockEffect

\* The RIL's answer moves a request to the queue.
RilAnswersEffect ==
    \E r \in ril :
        /\ r \in Requests
        /\ ril' = ril \ {r}
        /\ queue' = Append(queue, r)
        /\ UNCHANGED << counter, monitors, call, lockMap, resultMap, completer, ready,
                        returned, stale, raced, abandoned >>

LEMMA RilAnswersDoes ==
    ASSUME TypeInv, RilAnswers
    PROVE  RilAnswersEffect
BY DEF RilAnswers, ghosts, TypeInv, TypeOK, Requests, RilAnswersEffect

-----------------------------------------------------------------------------
\* Types and well-formed identifiers are preserved, races or not.
LEMMA TypeStep ==
    ASSUME TypeInv, Next
    PROVE  TypeInv'
<1>1. CASE LooperPrepared
  BY <1>1 DEF LooperPrepared, ghosts, TypeInv, TypeOK, Ids
<1>2. CASE RilAnswers
  <2>1. RilAnswersEffect
    BY <1>2, RilAnswersDoes
  <2> QED BY <2>1, ConstantsAssumption
    DEF RilAnswersEffect, Requests, TypeInv, TypeOK, Ids
<1>3. CASE Lookup
  <2>1. LookupEffect
    BY <1>3, LookupDoes
  <2>2. /\ completer' \in [pc : {"idle", "put", "notify"}, id : 0 .. MaxCalls,
                           lock : Threads \cup {NoThread}, of : Threads \cup {NoThread}]
        /\ completer'.pc # "idle" => /\ completer'.id \in Ids /\ completer'.lock \in Threads
                                     /\ completer'.of \in Threads
    BY <2>1, ConstantsAssumption DEF LookupEffect, Requests, IdleCompleter, NoId, Ids
  <2>3. queue' \in Seq([id : Ids, of : Threads])
    BY <2>1 DEF LookupEffect, Requests
  <2> QED BY <2>1, <2>2, <2>3 DEF LookupEffect, TypeInv, TypeOK
<1>4. CASE PutResult
  <2>1. PutResultEffect
    BY <1>4, PutResultDoes
  <2> QED BY <2>1, ConstantsAssumption
    DEF PutResultEffect, TypeInv, TypeOK, Ids
<1>5. CASE NotifyLock
  <2>1. NotifyLockEffect
    BY <1>5, NotifyLockDoes
  <2> DEFINE t == completer.lock
             pc == IF call[t].pc = "wait" /\ call[t].id = completer.id THEN "woken" ELSE call[t].pc
  <2>2. OnlyCall(t, pc, call[t].id) /\ t \in Threads
    BY <2>1 DEF NotifyLockEffect
  <2>3. pc \in Numbered => call[t].id \in Ids
    BY <2>2 DEF TypeInv
  <2> HIDE DEF pc
  <2>4. \A u \in Threads : call'[u].pc \in Numbered
                                => call'[u].id \in Ids
    BY <2>2, <2>3 DEF OnlyCall, TypeInv
  <2>5. completer' = IdleCompleter /\ TypeOK'
    BY <2>1, <2>2, ConstantsAssumption
    DEF NotifyLockEffect, OnlyCall, IdleCompleter, NoId, TypeInv, TypeOK
  <2> QED BY <2>4, <2>5 DEF TypeInv, IdleCompleter
<1>6. ASSUME NEW t \in Threads, Begin(t)
      PROVE  TypeInv'
  <2>1. BeginEffect(t)
    BY <1>6, BeginDoes
  <2> QED BY <2>1, ConstantsAssumption
    DEF BeginEffect, OnlyCall, NoId, TypeInv, TypeOK, Ids
<1>7. ASSUME NEW t \in Threads, EnterMonitor(t)
      PROVE  TypeInv'
  <2>1. EnterMonitorEffect(t)
    BY <1>7, EnterMonitorDoes
  <2> QED BY <2>1, ConstantsAssumption
    DEF EnterMonitorEffect, OnlyCall, NoId, TypeInv, TypeOK, Ids
<1>8. ASSUME NEW t \in Threads, ReadCounter(t)
      PROVE  TypeInv'
  <2>1. ReadCounterEffect(t)
    BY <1>8, ReadCounterDoes
  <2> QED BY <2>1, ConstantsAssumption
    DEF ReadCounterEffect, OnlyCall, NoId, TypeInv, TypeOK, Ids
<1>9. ASSUME NEW t \in Threads, WriteCounter(t)
      PROVE  TypeInv'
  <2>1. WriteCounterEffect(t)
    BY <1>9, WriteCounterDoes
  <2> QED BY <2>1, ConstantsAssumption
    DEF WriteCounterEffect, OnlyCall, NoId, TypeInv, TypeOK, Ids
<1>10. ASSUME NEW t \in Threads, Invoke(t)
      PROVE  TypeInv'
  <2>1. InvokeEffect(t)
    BY <1>10, InvokeDoes
  <2>2. CASE returned' = returned
    <3>1. OnlyCall(t, "wait", call[t].id) \/ OnlyCall(t, "idle", NoId)
      BY <2>1 DEF InvokeEffect
    <3>2. call[t].id \in Ids
      BY <2>1 DEF InvokeEffect, TypeInv
    <3>3. ril' \subseteq Requests
      BY <2>1, <3>2 DEF InvokeEffect, TypeInv, TypeOK, Requests
    <3>4. TypeOK'
      BY <2>1, <2>2, <3>1, <3>3 DEF InvokeEffect, OnlyCall, TypeInv, TypeOK, Requests
    <3> QED BY <2>1, <3>1, <3>2, <3>4 DEF InvokeEffect, OnlyCall, TypeInv
  <2>3. CASE ril' = ril
    BY <2>1, <2>3, ConstantsAssumption
    DEF InvokeEffect, OnlyCall, NoId, TypeInv, TypeOK, Ids
  <2> QED BY <2>1, <2>2, <2>3 DEF InvokeEffect
<1>11. ASSUME NEW t \in Threads, Interrupt(t)
      PROVE  TypeInv'
  <2>1. InterruptEffect(t)
    BY <1>11, InterruptDoes
  <2> QED BY <2>1, ConstantsAssumption
    DEF InterruptEffect, OnlyCall, NoId, TypeInv, TypeOK, Ids
<1>12. ASSUME NEW t \in Threads, Return(t)
      PROVE  TypeInv'
  <2>1. ReturnEffect(t)
    BY <1>12, ReturnDoes
  <2> QED BY <2>1, ConstantsAssumption
    DEF ReturnEffect, OnlyCall, NoId, TypeInv, TypeOK, Ids
<1>13. ASSUME NEW t \in Threads, WakeSpuriously(t)
      PROVE  TypeInv'
  <2>1. WakeEffect(t)
    BY <1>13, WakeDoes
  <2> QED BY <2>1, ConstantsAssumption
    DEF WakeEffect, OnlyCall, NoId, TypeInv, TypeOK, Ids
<1>14. ASSUME NEW t \in Threads, TakeResult(t)
      PROVE  TypeInv'
  <2>1. TakeEffect(t)
    BY <1>14, TakeDoes
  <2> QED BY <2>1, ConstantsAssumption
    DEF TakeEffect, OnlyCall, NoId, TypeInv, TypeOK, Ids
<1> QED
  BY <1>1, <1>2, <1>3, <1>4, <1>5, <1>6, <1>7,
     <1>8, <1>9, <1>10, <1>11, <1>12, <1>13, <1>14 DEF Next

\* Identifiers stay distinct as long as no two threads are in the increment.
LEMMA IdStep ==
    ASSUME TypeInv, IdInv, ~raced', Next
    PROVE  IdInv'
<1> counter \in Int /\ \A u \in Threads : call[u].id \in Int
  BY ConstantsAssumption DEF TypeInv, TypeOK
<1>1. CASE LooperPrepared
  BY <1>1 DEF LooperPrepared, ghosts, IdInv, InIncrement, Outstanding
<1>2. CASE RilAnswers
  <2>1. RilAnswersEffect
    BY <1>2, RilAnswersDoes
  <2> QED BY <2>1, ConstantsAssumption
    DEF RilAnswersEffect, Requests, IdInv, InIncrement, Outstanding
<1>3. CASE Lookup
  <2>1. LookupEffect
    BY <1>3, LookupDoes
  <2> QED BY <2>1, ConstantsAssumption
    DEF LookupEffect, Requests, IdleCompleter, NoId, IdInv, InIncrement, Outstanding
<1>4. CASE PutResult
  <2>1. PutResultEffect
    BY <1>4, PutResultDoes
  <2> QED BY <2>1, ConstantsAssumption
    DEF PutResultEffect, IdInv, InIncrement, Outstanding
<1>5. CASE NotifyLock
  <2>1. NotifyLockEffect
    BY <1>5, NotifyLockDoes
  <2> QED BY <2>1, ConstantsAssumption
    DEF NotifyLockEffect, OnlyCall, IdleCompleter, NoId, IdInv, InIncrement, Outstanding
<1>6. ASSUME NEW t \in Threads, Begin(t)
      PROVE  IdInv'
  <2>1. BeginEffect(t)
    BY <1>6, BeginDoes
  <2>2. OnlyCall(t, "enter", NoId) /\ counter' = counter
    BY <2>1 DEF BeginEffect
  <2> QED BY <2>2 DEF OnlyCall, IdInv, InIncrement, Outstanding
<1>7. ASSUME NEW t \in Threads, EnterMonitor(t)
      PROVE  IdInv'
  <2>1. EnterMonitorEffect(t)
    BY <1>7, EnterMonitorDoes
  <2>2. \A u \in Threads : ~InIncrement(u)
    BY <2>1, Zenon DEF EnterMonitorEffect
  <2>3. OnlyCall(t, "read", call[t].id) /\ counter' = counter /\ call[t].pc = "enter"
    BY <2>1 DEF EnterMonitorEffect
  <2> QED BY <2>2, <2>3 DEF OnlyCall, IdInv, InIncrement, Outstanding
<1>8. ASSUME NEW t \in Threads, ReadCounter(t)
      PROVE  IdInv'
  <2>1. ReadCounterEffect(t)
    BY <1>8, ReadCounterDoes
  <2> QED BY <2>1, ConstantsAssumption
    DEF ReadCounterEffect, OnlyCall, NoId, IdInv, InIncrement, Outstanding
<1>9. ASSUME NEW t \in Threads, WriteCounter(t)
      PROVE  IdInv'
  <2>1. WriteCounterEffect(t)
    BY <1>9, WriteCounterDoes
  <2>2. OnlyCall(t, "invoke", counter + 1) /\ counter' = counter + 1 /\ call[t].pc = "write"
    BY <2>1 DEF WriteCounterEffect, IdInv
  <2>3. \A u \in Outstanding' : u = t \/ (u \in Outstanding /\ call'[u] = call[u])
    BY <2>2 DEF OnlyCall, Outstanding
  <2>4. \A u \in Outstanding' : call'[u].id <= counter'
    BY <2>2, <2>3 DEF OnlyCall, Outstanding, IdInv
  <2>5. \A u, v \in Outstanding' : call'[u].id = call'[v].id => u = v
    BY <2>2, <2>3 DEF OnlyCall, Outstanding, IdInv
  <2>6. \A u \in Threads : ~InIncrement(u)'
    BY <2>2 DEF OnlyCall, InIncrement, IdInv
  <2> QED BY <2>4, <2>5, <2>6 DEF IdInv, InIncrement
<1>10. ASSUME NEW t \in Threads, Invoke(t)
      PROVE  IdInv'
  <2>1. InvokeEffect(t)
    BY <1>10, InvokeDoes
  <2> QED BY <2>1, ConstantsAssumption
    DEF InvokeEffect, OnlyCall, NoId, IdInv, InIncrement, Outstanding
<1>11. ASSUME NEW t \in Threads, Interrupt(t)
      PROVE  IdInv'
  <2>1. InterruptEffect(t)
    BY <1>11, InterruptDoes
  <2> QED BY <2>1, ConstantsAssumption
    DEF InterruptEffect, OnlyCall, NoId, IdInv, InIncrement, Outstanding
<1>12. ASSUME NEW t \in Threads, Return(t)
      PROVE  IdInv'
  <2>1. ReturnEffect(t)
    BY <1>12, ReturnDoes
  <2> QED BY <2>1, ConstantsAssumption
    DEF ReturnEffect, OnlyCall, NoId, IdInv, InIncrement, Outstanding
<1>13. ASSUME NEW t \in Threads, WakeSpuriously(t)
      PROVE  IdInv'
  <2>1. WakeEffect(t)
    BY <1>13, WakeDoes
  <2> QED BY <2>1, ConstantsAssumption
    DEF WakeEffect, OnlyCall, NoId, IdInv, InIncrement, Outstanding
<1>14. ASSUME NEW t \in Threads, TakeResult(t)
      PROVE  IdInv'
  <2>1. TakeEffect(t)
    BY <1>14, TakeDoes
  <2> QED BY <2>1, ConstantsAssumption
    DEF TakeEffect, OnlyCall, NoId, IdInv, InIncrement, Outstanding
<1> QED
  BY <1>1, <1>2, <1>3, <1>4, <1>5, <1>6, <1>7,
     <1>8, <1>9, <1>10, <1>11, <1>12, <1>13, <1>14 DEF Next

\* Requests that stay where they are, or are new, stay genuine.
LEMMA RequestsStay ==
    ASSUME TypeInv, RequestsGenuine, UNCHANGED << queue, completer >>,
           \A r \in Requests : Genuine(r) => Genuine(r)',
           \A r \in ril' : r \in ril \/ Genuine(r)'
    PROVE  RequestsGenuine'
<1>1. ril \subseteq Requests /\ queue \in Seq(Requests)
  BY DEF TypeInv, TypeOK, Requests
<1>2. \A k \in 1 .. Len(queue) : queue[k] \in Requests
  BY <1>1
<1>3. completer.pc # "idle" => Answer \in Requests
  BY DEF TypeInv, Answer, Requests
<1>4. Answer' = Answer
  BY DEF Answer
<1> QED BY <1>1, <1>2, <1>3, <1>4 DEF RequestsGenuine

\* Whose call and whose result an identifier means does not change under a step.
LEMMA MapStep ==
    ASSUME TypeInv, TypeInv', IdInv, IdInv', MapInv, ~raced', Next
    PROVE  MapInv'
<1> counter \in Int /\ \A u \in Threads : call[u].id \in Int
  BY ConstantsAssumption DEF TypeInv, TypeOK
<1> /\ NoThread \notin Threads
    /\ lockMap \in [Ids -> Threads \cup {NoThread}]
    /\ resultMap \in [Ids -> Threads \cup {NoThread}]
    /\ returned \in [Threads -> Threads \cup {NoThread, "false", "exception"}]
  BY ConstantsAssumption DEF TypeInv, TypeOK
<1>1. CASE LooperPrepared
  BY <1>1 DEF LooperPrepared, ghosts, MapInv, LocksHeld, Locked, ResultsOld,
              RequestsGenuine, ResultsGenuine, ResultBeforeNotify, OwnResults,
              Outstanding, Genuine, Answer
<1>2. CASE RilAnswers
  <2>1. RilAnswersEffect
    BY <1>2, RilAnswersDoes
  <2>2. LocksHeld'
    BY <2>1 DEF RilAnswersEffect, MapInv, LocksHeld, Locked, Outstanding
  <2>3. ResultsOld'
    BY <2>1 DEF RilAnswersEffect, MapInv, ResultsOld
  <2>4. RequestsGenuine'
    BY <2>1 DEF RilAnswersEffect, MapInv, RequestsGenuine, Genuine, Answer, Requests
  <2>5. ResultsGenuine'
    BY <2>1 DEF RilAnswersEffect, MapInv, ResultsGenuine
  <2>6. ResultBeforeNotify'
    BY <2>1 DEF RilAnswersEffect, MapInv, ResultBeforeNotify
  <2>7. OwnResults'
    BY <2>1 DEF RilAnswersEffect, MapInv, OwnResults
  <2> QED BY <2>2, <2>3, <2>4, <2>5, <2>6, <2>7 DEF MapInv
<1>3. CASE Lookup
  <2>1. LookupEffect
    BY <1>3, LookupDoes
  <2>2. LocksHeld'
    BY <2>1 DEF LookupEffect, MapInv, LocksHeld, Locked, Outstanding
  <2>3. ResultsOld'
    BY <2>1 DEF LookupEffect, MapInv, ResultsOld
  <2>4. RequestsGenuine'
    BY <2>1 DEF LookupEffect, MapInv, RequestsGenuine, IdleCompleter, Genuine, Answer
  <2>5. ResultsGenuine'
    BY <2>1 DEF LookupEffect, MapInv, ResultsGenuine
  <2>6. ResultBeforeNotify'
    BY <2>1 DEF LookupEffect, MapInv, ResultBeforeNotify, IdleCompleter
  <2>7. OwnResults'
    BY <2>1 DEF LookupEffect, MapInv, OwnResults
  <2> QED BY <2>2, <2>3, <2>4, <2>5, <2>6, <2>7 DEF MapInv
<1>4. CASE PutResult
  <2>1. PutResultEffect
    BY <1>4, PutResultDoes
  <2>2. /\ completer.id \in Ids /\ completer.of \in Threads /\ completer.id <= counter
        /\ lockMap[completer.id] \in {NoThread, completer.of}
        /\ completer.id \in Int
    BY <2>1 DEF PutResultEffect, TypeInv, MapInv, RequestsGenuine, Genuine, Answer, Ids
  <2>3. \A u \in Locked : call[u].id = completer.id => u = completer.of
    BY <2>2, ConstantsAssumption DEF MapInv, LocksHeld, Locked, Outstanding
  <2>4. LocksHeld' /\ RequestsGenuine'
    BY <2>1 DEF PutResultEffect, MapInv, LocksHeld, Locked, RequestsGenuine, Outstanding, Genuine,
       Answer
  <2>5. ResultsOld'
    BY <2>1, <2>2 DEF PutResultEffect, MapInv, ResultsOld
  <2>6. ResultsGenuine'
    BY <2>1, <2>2, ConstantsAssumption DEF PutResultEffect, MapInv, ResultsGenuine
  <2>7. ResultBeforeNotify'
    BY <2>1, <2>2, <2>3 DEF PutResultEffect, ResultBeforeNotify, Locked
  <2>8. OwnResults'
    BY <2>1, <2>2, <2>3 DEF PutResultEffect, MapInv, OwnResults, Locked
  <2> QED BY <2>4, <2>5, <2>6, <2>7, <2>8 DEF MapInv
<1>5. CASE NotifyLock
  <2>1. NotifyLockEffect
    BY <1>5, NotifyLockDoes
  <2>2. LocksHeld' /\ ResultsOld' /\ ResultsGenuine' /\ ResultBeforeNotify'
    BY <2>1 DEF NotifyLockEffect, OnlyCall, IdleCompleter, Outstanding, MapInv, LocksHeld, Locked,
                ResultsOld, ResultsGenuine, ResultBeforeNotify
  <2>3. RequestsGenuine'
    <3>1. queue \in Seq(Requests)
      BY DEF TypeInv, TypeOK, Requests
    <3>2. \A k \in 1 .. Len(queue) : queue[k] \in Requests
      BY <3>1
    <3>3. \A r \in Requests : Genuine(r) => Genuine(r)'
      BY <2>1 DEF NotifyLockEffect, OnlyCall, Genuine, Requests
    <3>4. ril \subseteq Requests
      BY DEF TypeInv, TypeOK, Requests
    <3>5. ril' = ril /\ queue' = queue /\ completer' = IdleCompleter
      BY <2>1 DEF NotifyLockEffect
    <3> QED BY <3>2, <3>3, <3>4, <3>5 DEF MapInv, RequestsGenuine, IdleCompleter
  <2>4. ASSUME NEW u \in Threads, call'[u].pc = "woken"
        PROVE  resultMap'[call'[u].id] = u
    <3>1. CASE call[u].pc = "woken" /\ call'[u].id = call[u].id
      BY <2>1, <3>1 DEF NotifyLockEffect, MapInv, OwnResults
    <3>2. CASE call[u].pc = "wait" /\ call[u].id = completer.id /\ call'[u].id = call[u].id
      BY <2>1, <3>2 DEF NotifyLockEffect, MapInv, ResultBeforeNotify
    <3> QED BY <2>1, <2>4, <3>1, <3>2 DEF NotifyLockEffect, OnlyCall
  <2>5. OwnResults'
    BY <2>1, <2>4 DEF NotifyLockEffect, MapInv, OwnResults
  <2> QED BY <2>2, <2>3, <2>5 DEF MapInv
<1>6. ASSUME NEW t \in Threads, Begin(t)
      PROVE  MapInv'
  <2>1. BeginEffect(t)
    BY <1>6, BeginDoes
  <2>2. LocksHeld'
    BY <2>1 DEF BeginEffect, OnlyCall, MapInv, LocksHeld, Locked, Outstanding
  <2>3. ResultsOld'
    BY <2>1 DEF BeginEffect, MapInv, ResultsOld
  <2>4. RequestsGenuine'
    <3>1. RequestsGenuine /\ ril' = ril /\ UNCHANGED << queue, completer >>
      BY <2>1 DEF BeginEffect, MapInv
    <3>2. \A r \in Requests : Genuine(r) => Genuine(r)'
      BY <2>1 DEF BeginEffect, OnlyCall, Genuine, Requests
    <3> QED BY <3>1, <3>2, RequestsStay
  <2>5. ResultsGenuine'
    BY <2>1 DEF BeginEffect, MapInv, ResultsGenuine
  <2>6. ResultBeforeNotify'
    BY <2>1 DEF BeginEffect, OnlyCall, MapInv, ResultBeforeNotify
  <2>7. OwnResults'
    BY <2>1 DEF BeginEffect, OnlyCall, MapInv, OwnResults
  <2> QED BY <2>2, <2>3, <2>4, <2>5, <2>6, <2>7 DEF MapInv
<1>7. ASSUME NEW t \in Threads, EnterMonitor(t)
      PROVE  MapInv'
  <2>1. EnterMonitorEffect(t)
    BY <1>7, EnterMonitorDoes
  <2>2. LocksHeld'
    BY <2>1 DEF EnterMonitorEffect, OnlyCall, MapInv, LocksHeld, Locked, Outstanding
  <2>3. ResultsOld'
    BY <2>1 DEF EnterMonitorEffect, MapInv, ResultsOld
  <2>4. RequestsGenuine'
    <3>1. RequestsGenuine /\ ril' = ril /\ UNCHANGED << queue, completer >>
      BY <2>1 DEF EnterMonitorEffect, MapInv
    <3>2. \A r \in Requests : Genuine(r) => Genuine(r)'
      BY <2>1 DEF EnterMonitorEffect, OnlyCall, Genuine, Requests
    <3> QED BY <3>1, <3>2, RequestsStay
  <2>5. ResultsGenuine'
    BY <2>1 DEF EnterMonitorEffect, MapInv, ResultsGenuine
  <2>6. ResultBeforeNotify'
    BY <2>1 DEF EnterMonitorEffect, OnlyCall, MapInv, ResultBeforeNotify
  <2>7. OwnResults'
    BY <2>1 DEF EnterMonitorEffect, OnlyCall, MapInv, OwnResults
  <2> QED BY <2>2, <2>3, <2>4, <2>5, <2>6, <2>7 DEF MapInv
<1>8. ASSUME NEW t \in Threads, ReadCounter(t)
      PROVE  MapInv'
  <2>1. ReadCounterEffect(t)
    BY <1>8, ReadCounterDoes
  <2>2. LocksHeld'
    BY <2>1 DEF ReadCounterEffect, OnlyCall, MapInv, LocksHeld, Locked, Outstanding
  <2>3. ResultsOld'
    BY <2>1 DEF ReadCounterEffect, MapInv, ResultsOld
  <2>4. RequestsGenuine'
    <3>1. RequestsGenuine /\ ril' = ril /\ UNCHANGED << queue, completer >>
      BY <2>1 DEF ReadCounterEffect, MapInv
    <3>2. \A r \in Requests : Genuine(r) => Genuine(r)'
      BY <2>1 DEF ReadCounterEffect, OnlyCall, Genuine, Requests
    <3> QED BY <3>1, <3>2, RequestsStay
  <2>5. ResultsGenuine'
    BY <2>1 DEF ReadCounterEffect, MapInv, ResultsGenuine
  <2>6. ResultBeforeNotify'
    BY <2>1 DEF ReadCounterEffect, OnlyCall, MapInv, ResultBeforeNotify
  <2>7. OwnResults'
    BY <2>1 DEF ReadCounterEffect, OnlyCall, MapInv, OwnResults
  <2> QED BY <2>2, <2>3, <2>4, <2>5, <2>6, <2>7 DEF MapInv
<1>9. ASSUME NEW t \in Threads, WriteCounter(t)
      PROVE  MapInv'
  <2>1. WriteCounterEffect(t)
    BY <1>9, WriteCounterDoes
  <2>2. call[t].pc = "write" /\ call[t].id = counter + 1 /\ counter + 1 \in Ids
    BY <2>1 DEF WriteCounterEffect, IdInv, TypeInv
  <2>3. /\ OnlyCall(t, "invoke", counter + 1) /\ counter' = counter + 1
        /\ lockMap' = [lockMap EXCEPT ![counter + 1] = t]
        /\ UNCHANGED << resultMap, completer, ril, queue, returned >>
    BY <2>1, <2>2 DEF WriteCounterEffect
  <2>4. LocksHeld'
    BY <2>2, <2>3 DEF OnlyCall, MapInv, LocksHeld, Locked, IdInv, Outstanding
  <2>5. ResultsOld' /\ ResultsGenuine'
    BY <2>2, <2>3 DEF MapInv, ResultsOld, ResultsGenuine, Ids
  <2>6. \A r \in Requests : Genuine(r) => Genuine(r)'
    BY <2>2, <2>3, ConstantsAssumption DEF Genuine, Requests, Ids, OnlyCall
  <2>7. RequestsGenuine'
    <3>1. RequestsGenuine /\ ril' = ril /\ UNCHANGED << queue, completer >>
      BY <2>3 DEF MapInv
    <3> QED BY <2>6, <3>1, RequestsStay
  <2>8. ResultBeforeNotify' /\ OwnResults'
    BY <2>2, <2>3 DEF OnlyCall, MapInv, ResultBeforeNotify, OwnResults
  <2> QED BY <2>4, <2>5, <2>7, <2>8 DEF MapInv
<1>10. ASSUME NEW t \in Threads, Invoke(t)
      PROVE  MapInv'
  <2>1. InvokeEffect(t)
    BY <1>10, InvokeDoes
  <2>2. call[t].pc = "invoke" /\ t \in Outstanding /\ call[t].id \in Ids
    BY <2>1 DEF InvokeEffect, TypeInv, Outstanding
  <2>3. LocksHeld' /\ ResultsOld' /\ ResultsGenuine'
    BY <2>1 DEF InvokeEffect, OnlyCall, NoId, IdInv, MapInv, Outstanding, Genuine, Answer,
       LocksHeld, Locked, ResultsOld, ResultsGenuine
  <2>4. RequestsGenuine'
    <3>1. PICK r : r = [id |-> call[t].id, of |-> t]
      OBVIOUS
    <3>2. ril' = ril \/ (Genuine(r)' /\ ril' = ril \cup {r})
      BY <2>1, <2>2, <3>1 DEF InvokeEffect, OnlyCall, Genuine, IdInv, MapInv, LocksHeld, Locked
    <3>3. RequestsGenuine /\ UNCHANGED << queue, completer >>
      BY <2>1 DEF InvokeEffect, MapInv
    <3>4. \A q \in Requests : Genuine(q) => Genuine(q)'
      BY <2>1 DEF InvokeEffect, OnlyCall, Genuine, Requests
    <3>5. \A q \in ril' : q \in ril \/ Genuine(q)'
      BY <3>2 DEF Genuine
    <3> QED BY <3>3, <3>4, <3>5, RequestsStay
  <2>5. ResultBeforeNotify'
    <3>1. SUFFICES ASSUME completer.pc = "notify",
                          OnlyCall(t, "wait", call[t].id), call[t].id = completer.id
                   PROVE  resultMap[completer.id] = t
      BY <2>1 DEF InvokeEffect, OnlyCall, NoId, MapInv, ResultBeforeNotify
    <3>2. Genuine(Answer) /\ Answer.id = completer.id /\ Answer.of = completer.of
      BY <3>1 DEF MapInv, RequestsGenuine, Answer
    <3>3. lockMap[call[t].id] = t
      BY <2>2 DEF MapInv, LocksHeld, Locked
    <3> QED BY <2>2, <3>1, <3>2, <3>3 DEF Genuine
  <2>6. OwnResults'
    BY <2>1, <2>2 DEF InvokeEffect, OnlyCall, NoId, MapInv, OwnResults
  <2> QED BY <2>3, <2>4, <2>5, <2>6 DEF MapInv
<1>11. ASSUME NEW t \in Threads, Interrupt(t)
      PROVE  MapInv'
  <2>1. InterruptEffect(t)
    BY <1>11, InterruptDoes
  <2>2. LocksHeld'
    BY <2>1 DEF InterruptEffect, OnlyCall, MapInv, LocksHeld, Locked, Outstanding, IdInv, NoId
  <2>3. ResultsOld'
    BY <2>1 DEF InterruptEffect, MapInv, ResultsOld
  <2>4. RequestsGenuine'
    <3>1. RequestsGenuine /\ ril' = ril /\ UNCHANGED << queue, completer >>
      BY <2>1 DEF InterruptEffect, MapInv
    <3>2. \A r \in Requests : Genuine(r) => Genuine(r)'
      BY <2>1 DEF InterruptEffect, OnlyCall, Genuine, Requests
    <3> QED BY <3>1, <3>2, RequestsStay
  <2>5. ResultsGenuine'
    BY <2>1 DEF InterruptEffect, MapInv, ResultsGenuine
  <2>6. ResultBeforeNotify'
    BY <2>1 DEF InterruptEffect, OnlyCall, MapInv, ResultBeforeNotify, IdInv, Outstanding
  <2>7. OwnResults'
    BY <2>1 DEF InterruptEffect, OnlyCall, MapInv, OwnResults, IdInv, Outstanding
  <2> QED BY <2>2, <2>3, <2>4, <2>5, <2>6, <2>7 DEF MapInv
<1>12. ASSUME NEW t \in Threads, Return(t)
      PROVE  MapInv'
  <2>1. ReturnEffect(t)
    BY <1>12, ReturnDoes
  <2>2. LocksHeld'
    BY <2>1 DEF ReturnEffect, OnlyCall, MapInv, LocksHeld, Locked, Outstanding, IdInv, NoId
  <2>3. ResultsOld'
    BY <2>1 DEF ReturnEffect, MapInv, ResultsOld
  <2>4. RequestsGenuine'
    <3>1. RequestsGenuine /\ ril' = ril /\ UNCHANGED << queue, completer >>
      BY <2>1 DEF ReturnEffect, MapInv
    <3>2. \A r \in Requests : Genuine(r) => Genuine(r)'
      BY <2>1 DEF ReturnEffect, OnlyCall, Genuine, Requests
    <3> QED BY <3>1, <3>2, RequestsStay
  <2>5. ResultsGenuine'
    BY <2>1 DEF ReturnEffect, MapInv, ResultsGenuine
  <2>6. ResultBeforeNotify'
    BY <2>1 DEF ReturnEffect, OnlyCall, MapInv, ResultBeforeNotify, IdInv, Outstanding
  <2>7. OwnResults'
    BY <2>1 DEF ReturnEffect, OnlyCall, MapInv, OwnResults, IdInv, Outstanding
  <2> QED BY <2>2, <2>3, <2>4, <2>5, <2>6, <2>7 DEF MapInv
<1>13. ASSUME NEW t \in Threads, WakeSpuriously(t)
      PROVE  MapInv'
  <2>1. WakeEffect(t)
    BY <1>13, WakeDoes
  <2>2. LocksHeld'
    BY <2>1 DEF WakeEffect, OnlyCall, MapInv, LocksHeld, Locked, Outstanding, IdInv, NoId
  <2>3. ResultsOld'
    BY <2>1 DEF WakeEffect, MapInv, ResultsOld
  <2>4. RequestsGenuine'
    <3>1. RequestsGenuine /\ ril' = ril /\ UNCHANGED << queue, completer >>
      BY <2>1 DEF WakeEffect, MapInv
    <3>2. \A r \in Requests : Genuine(r) => Genuine(r)'
      BY <2>1 DEF WakeEffect, OnlyCall, Genuine, Requests
    <3> QED BY <3>1, <3>2, RequestsStay
  <2>5. ResultsGenuine'
    BY <2>1 DEF WakeEffect, MapInv, ResultsGenuine
  <2>6. ResultBeforeNotify'
    BY <2>1 DEF WakeEffect, OnlyCall, MapInv, ResultBeforeNotify, IdInv, Outstanding
  <2>7. OwnResults'
    BY <2>1 DEF WakeEffect, OnlyCall, MapInv, OwnResults, IdInv, Outstanding
  <2> QED BY <2>2, <2>3, <2>4, <2>5, <2>6, <2>7 DEF MapInv
<1>14. ASSUME NEW t \in Threads, TakeResult(t)
      PROVE  MapInv'
  <2>1. TakeEffect(t)
    BY <1>14, TakeDoes
  <2>2. LocksHeld'
    BY <2>1 DEF TakeEffect, OnlyCall, MapInv, LocksHeld, Locked, Outstanding, IdInv, NoId
  <2>3. ResultsOld'
    BY <2>1 DEF TakeEffect, MapInv, ResultsOld
  <2>4. RequestsGenuine'
    <3>1. RequestsGenuine /\ ril' = ril /\ UNCHANGED << queue, completer >>
      BY <2>1 DEF TakeEffect, MapInv
    <3>2. \A r \in Requests : Genuine(r) => Genuine(r)'
      BY <2>1 DEF TakeEffect, OnlyCall, Genuine, Requests
    <3> QED BY <3>1, <3>2, RequestsStay
  <2>5. ResultsGenuine'
    BY <2>1 DEF TakeEffect, MapInv, ResultsGenuine
  <2>6. ResultBeforeNotify'
    BY <2>1 DEF TakeEffect, OnlyCall, MapInv, ResultBeforeNotify, IdInv, Outstanding
  <2>7. resultMap[call[t].id] \in {NoThread, t}
    <3>1. t \in Locked /\ call[t].id \in Ids
      BY <2>1 DEF TakeEffect, Locked, TypeInv
    <3>2. lockMap[call[t].id] = t
      BY <3>1 DEF MapInv, LocksHeld
    <3> QED BY <3>1, <3>2 DEF MapInv, ResultsGenuine
  <2>8. OwnResults'
    BY <2>1, <2>7 DEF TakeEffect, OnlyCall, MapInv, OwnResults
  <2> QED BY <2>2, <2>3, <2>4, <2>5, <2>6, <2>8 DEF MapInv
<1> QED
  BY <1>1, <1>2, <1>3, <1>4, <1>5, <1>6, <1>7,
     <1>8, <1>9, <1>10, <1>11, <1>12, <1>13, <1>14 DEF Next

-----------------------------------------------------------------------------
\* The monitor of the present Integer keeps all but one thread out of the
\* increment.
LEMMA MonitorStep ==
    ASSUME TypeInv, MonitorInv, ~raced, ~stale', Next
    PROVE  MonitorInv' /\ ~raced'
<1> monitors \in [0 .. MaxCalls -> Threads \cup {NoThread}] /\ counter \in 0 .. MaxCalls
  BY DEF TypeInv, TypeOK
<1> NoThread \notin Threads
  BY ConstantsAssumption
<1>1. CASE LooperPrepared \/ RilAnswers \/ Lookup \/ PutResult
  <2>1. call' = call /\ counter' = counter /\ monitors' = monitors /\ raced' = raced
    BY <1>1 DEF LooperPrepared, RilAnswers, Lookup, PutResult, unchangedByCompleter, ghosts
  <2>2. MonitorInv'
    BY <2>1 DEF MonitorInv, InIncrement
  <2> QED BY <2>1, <2>2, Zenon
<1>2. CASE NotifyLock
  <2>1. NotifyLockEffect
    BY <1>2, NotifyLockDoes
  <2> QED BY <2>1 DEF NotifyLockEffect, OnlyCall, MonitorInv, InIncrement
<1>3. ASSUME NEW t \in Threads, EnterMonitor(t)
      PROVE  MonitorInv' /\ ~raced'
  <2>1. EnterMonitorEffect(t)
    BY <1>3, EnterMonitorDoes
  <2>2. call[t].monitor = counter
    BY <2>1, Zenon DEF EnterMonitorEffect
  <2>3. /\ OnlyCall(t, "read", call[t].id) /\ counter' = counter
        /\ monitors[counter] = NoThread /\ monitors' = [monitors EXCEPT ![counter] = t]
    BY <2>1, <2>2 DEF EnterMonitorEffect
  <2>4. \A u \in Threads : ~InIncrement(u)
    BY <2>3 DEF MonitorInv
  <2>5. ~raced'
    BY <2>1, <2>4, Zenon DEF EnterMonitorEffect
  <2>6. MonitorInv'
    BY <2>3, <2>4 DEF MonitorInv, InIncrement, OnlyCall
  <2> QED BY <2>5, <2>6
<1>4. ASSUME NEW t \in Threads, WriteCounter(t)
      PROVE  MonitorInv' /\ ~raced'
  <2>1. WriteCounterEffect(t)
    BY <1>4, WriteCounterDoes
  <2>2. OnlyCall(t, "invoke", call[t].id) /\ call[t].pc = "write" /\ ~raced'
    BY <2>1 DEF WriteCounterEffect
  <2>3. \A u \in Threads : InIncrement(u) => u = t
    BY <2>2 DEF MonitorInv, InIncrement
  <2> QED BY <2>2, <2>3 DEF MonitorInv, InIncrement, OnlyCall
<1>5. ASSUME NEW t \in Threads,
             \/ Begin(t) \/ ReadCounter(t) \/ Invoke(t) \/ Interrupt(t)
             \/ WakeSpuriously(t) \/ TakeResult(t) \/ Return(t)
      PROVE  MonitorInv' /\ ~raced'
  <2>1. /\ UNCHANGED << counter, monitors, raced >>
        /\ \A u \in Threads : u # t => call'[u] = call[u]
        /\ InIncrement(t)' => InIncrement(t)
    <3>1. CASE Begin(t)
      BY <3>1, BeginDoes DEF BeginEffect, OnlyCall, InIncrement
    <3>2. CASE ReadCounter(t)
      BY <3>2, ReadCounterDoes DEF ReadCounterEffect, OnlyCall, InIncrement
    <3>3. CASE Invoke(t)
      BY <3>3, InvokeDoes DEF InvokeEffect, OnlyCall, InIncrement
    <3>4. CASE Interrupt(t)
      BY <3>4, InterruptDoes DEF InterruptEffect, OnlyCall, InIncrement
    <3>5. CASE WakeSpuriously(t)
      BY <3>5, WakeDoes DEF WakeEffect, OnlyCall, InIncrement
    <3>6. CASE TakeResult(t)
      BY <3>6, TakeDoes DEF TakeEffect, OnlyCall, InIncrement
    <3>7. CASE Return(t)
      BY <3>7, ReturnDoes DEF ReturnEffect, OnlyCall, InIncrement
    <3> QED BY <1>5, <3>1, <3>2, <3>3, <3>4, <3>5, <3>6, <3>7
  <2> QED BY <2>1 DEF MonitorInv, InIncrement
<1> QED BY <1>1, <1>2, <1>3, <1>4, <1>5 DEF Next

\* Requests that stay where they are, with no lock put in mLockMap for them,
\* stay pending.
LEMMA AnswersStay ==
    ASSUME TypeInv, RequestsPending, CompletionsPending, UNCHANGED << ril, queue >>,
           \A r \in Requests : (r \in ril \/ \E k \in 1 .. Len(queue) : r = queue[k])
               /\ lockMap'[r.id] # NoThread /\ (lockMap[r.id] # NoThread => Pending(r))
               => Pending(r)'
    PROVE  RequestsPending' /\ CompletionsPending'
<1>1. ril \subseteq Requests /\ queue \in Seq(Requests)
  BY DEF TypeInv, TypeOK, Requests
<1>2. \A k \in 1 .. Len(queue) : queue[k] \in Requests
  BY <1>1
<1>3. RequestsPending'
  BY <1>1 DEF RequestsPending
<1>4. CompletionsPending'
  BY <1>2 DEF CompletionsPending
<1> QED BY <1>3, <1>4

\* A step of a thread whose call has no request yet or no lock any more.
LEMMA BusyCall ==
    ASSUME TypeInv, AnswerInv, NEW t \in Threads, NEW pc, NEW id, OnlyCall(t, pc, id),
           call[t].pc \notin {"wait", "woken", "roused", "took"}, pc \notin {"wait", "invoke"},
           UNCHANGED << lockMap, ril, queue, completer, resultMap, abandoned >>
    PROVE  AnswerInv'
<1>1. \A r \in Requests : Pending(r) => Pending(r)'
  BY DEF Pending, Requests, OnlyCall
<1>2. RequestsPending' /\ CompletionsPending'
  BY <1>1, AnswersStay DEF AnswerInv
<1>3. \A i \in Ids : resultMap[i] \in Threads \cup {NoThread}
  BY DEF TypeInv, TypeOK
<1>4. \A u \in Threads, i \in Ids : Current(u, i) => Current(u, i)'
  BY DEF Current, OnlyCall
<1>5. ResultsCurrent'
  BY <1>3, <1>4 DEF AnswerInv, ResultsCurrent
<1>6. AnswerCurrent'
  BY <1>4 DEF AnswerInv, AnswerCurrent, TypeInv
<1>7. WaitingNotified' /\ InvokedAfresh'
  BY DEF AnswerInv, WaitingNotified, InvokedAfresh, OnlyCall
<1> QED BY <1>2, <1>5, <1>6, <1>7 DEF AnswerInv

\* Results and locks stay those of calls under way, or of the calls the ghost
\* notes, as long as no identifiers are shared.
LEMMA AnswerStep ==
    ASSUME TypeInv, TypeInv', IdInv, MapInv, AnswerInv, Next
    PROVE  AnswerInv'
<1> /\ NoThread \notin Threads
    /\ resultMap \in [Ids -> Threads \cup {NoThread}]
    /\ lockMap \in [Ids -> Threads \cup {NoThread}]
  BY ConstantsAssumption DEF TypeInv, TypeOK
<1> \A t \in Threads : call[t].pc \in Numbered => call[t].id \in Ids
  BY DEF TypeInv
<1>1. CASE LooperPrepared
  <2>1. UNCHANGED << call, lockMap, ril, queue, completer, resultMap, abandoned >>
    BY <1>1 DEF LooperPrepared, ghosts
  <2> QED BY <2>1 DEF AnswerInv, RequestsPending, CompletionsPending, AnswerCurrent,
          WaitingNotified, InvokedAfresh, ResultsCurrent, Pending, Current
<1>2. CASE RilAnswers
  <2>1. RilAnswersEffect
    BY <1>2, RilAnswersDoes
  <2>2. PICK r \in ril : /\ r \in Requests /\ ril' = ril \ {r}
                        /\ queue' = Append(queue, r)
                        /\ UNCHANGED << call, lockMap, completer, resultMap, abandoned >>
    BY <2>1 DEF RilAnswersEffect
  <2>3. queue \in Seq(Requests)
    BY DEF TypeInv, TypeOK, Requests
  <2>4. /\ Len(queue') = Len(queue) + 1 /\ queue'[Len(queue) + 1] = r
        /\ \A k \in 1 .. Len(queue) : queue'[k] = queue[k]
        /\ Len(queue) \in Nat
    BY <2>2, <2>3
  <2>5. \A k \in 1 .. Len(queue') : k = Len(queue) + 1 \/ k \in 1 .. Len(queue)
    BY <2>4
  <2>6. RequestsPending' /\ CompletionsPending'
    BY <2>2, <2>4, <2>5 DEF AnswerInv, RequestsPending, CompletionsPending, Pending
  <2>7. AnswerCurrent' /\ WaitingNotified' /\ InvokedAfresh' /\ ResultsCurrent'
    BY <2>2 DEF AnswerInv, AnswerCurrent, WaitingNotified, InvokedAfresh, ResultsCurrent,
                Current
  <2> QED BY <2>6, <2>7 DEF AnswerInv
<1>3. CASE Lookup
  <2>1. LookupEffect
    BY <1>3, LookupDoes
  <2>2. UNCHANGED << call, lockMap, ril, resultMap, abandoned >> /\ completer.pc = "idle"
    BY <2>1 DEF LookupEffect
  <2>3. /\ queue \in Seq(Requests) /\ queue # << >> /\ queue' = Tail(queue)
        /\ Head(queue) \in Requests
    BY <2>1 DEF LookupEffect, TypeInv, TypeOK, Requests
  <2>4. /\ Head(queue) = queue[1] /\ 1 \in 1 .. Len(queue)
        /\ \A k \in 1 .. Len(queue') : queue'[k] = queue[k + 1] /\ k + 1 \in 1 .. Len(queue)
    BY <2>3
  <2>5. RequestsPending' /\ CompletionsPending'
    BY <2>2, <2>4 DEF AnswerInv, RequestsPending, CompletionsPending, Pending
  <2>6. completer'.pc = "put" =>
            /\ lockMap[Head(queue).id] \in Threads
            /\ completer'.id = Head(queue).id /\ completer'.of = Head(queue).of
    BY <2>1 DEF LookupEffect, IdleCompleter
  <2>7. lockMap[Head(queue).id] # NoThread => Pending(Head(queue))
    BY <2>4 DEF AnswerInv, CompletionsPending
  <2>8. AnswerCurrent'
    BY <2>2, <2>6, <2>7 DEF AnswerCurrent, Current, Pending
  <2>9. WaitingNotified' /\ InvokedAfresh' /\ ResultsCurrent'
    BY <2>2 DEF AnswerInv, WaitingNotified, InvokedAfresh, ResultsCurrent, Current
  <2> QED BY <2>5, <2>8, <2>9 DEF AnswerInv
<1>4. CASE PutResult
  <2>1. PutResultEffect
    BY <1>4, PutResultDoes
  <2>2. /\ completer.pc = "put" /\ completer.id \in Ids /\ completer.of \in Threads
        /\ completer'.pc = "notify" /\ completer'.id = completer.id
        /\ resultMap' = [resultMap EXCEPT ![completer.id] = completer.of]
        /\ UNCHANGED << call, lockMap, ril, queue, abandoned >>
    BY <2>1 DEF PutResultEffect, TypeInv
  <2>3. Current(completer.of, completer.id) \/ completer.id \in abandoned
    BY <2>2 DEF AnswerInv, AnswerCurrent
  <2>4. RequestsPending' /\ CompletionsPending' /\ AnswerCurrent'
    BY <2>2 DEF AnswerInv, RequestsPending, CompletionsPending, AnswerCurrent, Pending
  <2>5. ResultsCurrent'
    BY <2>2, <2>3 DEF AnswerInv, ResultsCurrent, Current
  <2>6. ASSUME NEW t \in Threads, call[t].pc = "wait", resultMap'[call[t].id] # NoThread
        PROVE  call[t].id = completer.id
    <3>1. resultMap[call[t].id] = NoThread
      BY <2>2, <2>6 DEF AnswerInv, WaitingNotified
    <3> QED BY <2>2, <2>6, <3>1
  <2>7. WaitingNotified'
    BY <2>2, <2>6 DEF WaitingNotified
  <2>8. ASSUME NEW t \in Threads, call[t].pc = "invoke"
        PROVE  call[t].id # completer.id
    <3>1. lockMap[call[t].id] = t
      BY <2>8 DEF MapInv, LocksHeld, Locked
    <3>2. Genuine(Answer) /\ Answer.id = completer.id /\ Answer.of = completer.of
      BY <2>2 DEF MapInv, RequestsGenuine, Answer
    <3> QED BY <2>8, <3>1, <3>2 DEF Genuine
  <2>9. InvokedAfresh'
    BY <2>2, <2>8 DEF AnswerInv, InvokedAfresh
  <2> QED BY <2>4, <2>5, <2>7, <2>9 DEF AnswerInv
<1>5. CASE NotifyLock
  <2>1. NotifyLockEffect
    BY <1>5, NotifyLockDoes
  <2> DEFINE u == completer.lock
             pc == IF call[u].pc = "wait" /\ call[u].id = completer.id THEN "woken" ELSE call[u].pc
  <2>2. /\ u \in Threads /\ completer.pc = "notify" /\ completer'.pc = "idle"
        /\ OnlyCall(u, pc, call[u].id)
        /\ UNCHANGED << lockMap, ril, queue, resultMap, abandoned >>
    BY <2>1 DEF NotifyLockEffect, IdleCompleter
  <2>3. /\ call[u].pc \in {"wait", "woken", "roused"} => pc \in {"wait", "woken", "roused"}
        /\ call[u].pc = "took" => pc = "took"
        /\ pc = "invoke" => call[u].pc = "invoke"
        /\ pc = "wait" => call[u].pc = "wait" /\ call[u].id # completer.id
    OBVIOUS
  <2> HIDE DEF pc
  <2>4. \A r \in Requests : Pending(r) => Pending(r)'
    BY <2>2, <2>3 DEF Pending, Requests, OnlyCall
  <2>5. RequestsPending' /\ CompletionsPending'
    BY <2>2, <2>4, AnswersStay DEF AnswerInv
  <2>6. \A t \in Threads, i \in Ids : Current(t, i) => Current(t, i)'
    BY <2>2, <2>3 DEF Current, OnlyCall
  <2>7. AnswerCurrent' /\ ResultsCurrent'
    BY <2>2, <2>6 DEF AnswerInv, AnswerCurrent, ResultsCurrent
  <2>8. InvokedAfresh'
    BY <2>2, <2>3 DEF AnswerInv, InvokedAfresh, OnlyCall
  <2>9. ASSUME NEW t \in Threads, call'[t].pc = "wait", resultMap[call'[t].id] # NoThread
        PROVE  FALSE
    <3>1. call[t].pc = "wait" /\ call'[t].id = call[t].id
      BY <2>2, <2>3, <2>9 DEF OnlyCall
    <3>2. call[t].id = completer.id
      BY <2>9, <3>1 DEF AnswerInv, WaitingNotified
    <3>3. lockMap[call[t].id] = t
      BY <3>1 DEF MapInv, LocksHeld, Locked
    <3>4. Genuine(Answer) /\ Answer.id = completer.id /\ completer.lock = Answer.of
      BY <2>2 DEF MapInv, RequestsGenuine, Answer
    <3>5. t = u
      BY <3>2, <3>3, <3>4 DEF Genuine
    <3> QED BY <2>2, <2>3, <2>9, <3>2, <3>5 DEF OnlyCall
  <2>10. WaitingNotified'
    BY <2>2, <2>9 DEF WaitingNotified
  <2> QED BY <2>5, <2>7, <2>8, <2>10 DEF AnswerInv
<1>6. ASSUME NEW t \in Threads, Begin(t)
      PROVE  AnswerInv'
  <2>1. BeginEffect(t)
    BY <1>6, BeginDoes
  <2>2. /\ call[t].pc \notin {"wait", "woken", "roused", "took"}
        /\ OnlyCall(t, "enter", NoId)
        /\ UNCHANGED << lockMap, ril, queue, completer, resultMap, abandoned >>
    BY <2>1 DEF BeginEffect
  <2> QED BY <2>2, BusyCall
<1>7. ASSUME NEW t \in Threads, EnterMonitor(t)
      PROVE  AnswerInv'
  <2>1. EnterMonitorEffect(t)
    BY <1>7, EnterMonitorDoes
  <2>2. /\ call[t].pc \notin {"wait", "woken", "roused", "took"}
        /\ OnlyCall(t, "read", call[t].id)
        /\ UNCHANGED << lockMap, ril, queue, completer, resultMap, abandoned >>
    BY <2>1 DEF EnterMonitorEffect
  <2> QED BY <2>2, BusyCall
<1>8. ASSUME NEW t \in Threads, ReadCounter(t)
      PROVE  AnswerInv'
  <2>1. ReadCounterEffect(t)
    BY <1>8, ReadCounterDoes
  <2>2. /\ call[t].pc \notin {"wait", "woken", "roused", "took"}
        /\ OnlyCall(t, "write", counter + 1)
        /\ UNCHANGED << lockMap, ril, queue, completer, resultMap, abandoned >>
    BY <2>1 DEF ReadCounterEffect
  <2> QED BY <2>2, BusyCall
<1>9. ASSUME NEW t \in Threads, WriteCounter(t)
      PROVE  AnswerInv'
  <2>1. WriteCounterEffect(t)
    BY <1>9, WriteCounterDoes
  <2>2. /\ call[t].pc = "write" /\ call[t].id = counter + 1 /\ counter + 1 \in Ids
        /\ OnlyCall(t, "invoke", counter + 1)
        /\ lockMap' = [lockMap EXCEPT ![counter + 1] = t]
        /\ UNCHANGED << ril, queue, completer, resultMap, abandoned >>
    BY <2>1 DEF WriteCounterEffect, IdInv, TypeInv
  <2>3. \A r \in Requests : Pending(r) => Pending(r)'
    BY <2>2 DEF Pending, Requests, OnlyCall
  <2>4. \A r \in Requests : (r \in ril \/ \E k \in 1 .. Len(queue) : r = queue[k])
                => lockMap'[r.id] = lockMap[r.id]
    <3>1. counter \in Nat
      BY ConstantsAssumption DEF TypeInv, TypeOK
    <3> QED BY <2>2, <3>1 DEF MapInv, RequestsGenuine, Genuine, Requests, Ids
  <2>5. RequestsPending' /\ CompletionsPending'
    BY <2>2, <2>3, <2>4, AnswersStay DEF AnswerInv
  <2>6. \A u \in Threads, i \in Ids : Current(u, i) => Current(u, i)'
    BY <2>2 DEF Current, OnlyCall
  <2>7. AnswerCurrent' /\ ResultsCurrent'
    BY <2>2, <2>6 DEF AnswerInv, AnswerCurrent, ResultsCurrent, TypeInv
  <2>8. resultMap[counter + 1] = NoThread
    <3>1. counter \in Nat
      BY ConstantsAssumption DEF TypeInv, TypeOK
    <3> QED BY <2>2, <3>1 DEF MapInv, ResultsOld, Ids
  <2>9. WaitingNotified' /\ InvokedAfresh'
    BY <2>2, <2>8 DEF AnswerInv, WaitingNotified, InvokedAfresh, OnlyCall
  <2> QED BY <2>5, <2>7, <2>9 DEF AnswerInv
<1>10. ASSUME NEW t \in Threads, Invoke(t)
      PROVE  AnswerInv'
  <2>1. InvokeEffect(t)
    BY <1>10, InvokeDoes
  <2>2. /\ call[t].pc = "invoke"
        /\ UNCHANGED << lockMap, queue, completer, resultMap, abandoned >>
    BY <2>1 DEF InvokeEffect
  <2>3. CASE OnlyCall(t, "idle", NoId) /\ ril' = ril
    BY <2>2, <2>3, BusyCall
  <2>4. CASE OnlyCall(t, "wait", call[t].id) /\ ril' = ril \cup {[id |-> call[t].id, of |-> t]}
    <3>1. PICK r : r = [id |-> call[t].id, of |-> t]
      OBVIOUS
    <3>2. Pending(r)' /\ ril' = ril \cup {r}
      BY <2>2, <2>4, <3>1 DEF Pending, OnlyCall
    <3>3. \A q \in Requests : Pending(q) => Pending(q)'
      BY <2>2, <2>4 DEF Pending, Requests, OnlyCall
    <3>4. ril \subseteq Requests /\ queue \in Seq(Requests)
      BY DEF TypeInv, TypeOK, Requests
    <3>5. \A k \in 1 .. Len(queue) : queue[k] \in Requests
      BY <3>4
    <3>6. RequestsPending'
      BY <2>2, <3>2, <3>3, <3>4 DEF AnswerInv, RequestsPending, Pending
    <3>7. CompletionsPending'
      BY <2>2, <3>3, <3>5 DEF AnswerInv, CompletionsPending
    <3>8. \A u \in Threads, i \in Ids : Current(u, i) => Current(u, i)'
      BY <2>2, <2>4 DEF Current, OnlyCall
    <3>9. AnswerCurrent' /\ ResultsCurrent'
      BY <2>2, <3>8 DEF AnswerInv, AnswerCurrent, ResultsCurrent, TypeInv
    <3>10. resultMap[call[t].id] = NoThread
      BY <2>2 DEF AnswerInv, InvokedAfresh
    <3>11. WaitingNotified' /\ InvokedAfresh'
      BY <2>2, <2>4, <3>10 DEF AnswerInv, WaitingNotified, InvokedAfresh, OnlyCall
    <3> QED BY <3>6, <3>7, <3>9, <3>11 DEF AnswerInv
  <2> QED BY <2>1, <2>3, <2>4 DEF InvokeEffect
<1>11. ASSUME NEW t \in Threads, Interrupt(t)
      PROVE  AnswerInv'
  <2>1. InterruptEffect(t)
    BY <1>11, InterruptDoes
  <2>2. /\ call[t].pc = "wait" /\ OnlyCall(t, "idle", NoId) /\ call[t].id \in Ids
        /\ lockMap' = [lockMap EXCEPT ![call[t].id] = NoThread]
        /\ abandoned \subseteq abandoned'
        /\ completer.id = call[t].id /\ completer.pc \in {"put", "notify"}
               => call[t].id \in abandoned'
        /\ UNCHANGED << ril, queue, completer, resultMap >>
    BY <2>1 DEF InterruptEffect
  <2>3. \A r \in Requests : Pending(r) /\ lockMap'[r.id] # NoThread => Pending(r)'
    BY <2>2 DEF Pending, Requests, OnlyCall
  <2>4. \A r \in Requests : lockMap'[r.id] # NoThread => lockMap[r.id] # NoThread
    BY <2>2 DEF Requests
  <2>5. RequestsPending' /\ CompletionsPending'
    BY <2>2, <2>3, <2>4, AnswersStay DEF AnswerInv
  <2>6. \A u \in Threads, i \in Ids : Current(u, i) =>
            Current(u, i)' \/ (u = t /\ i = call[t].id)
    BY <2>2 DEF Current, OnlyCall
  <2>7. AnswerCurrent'
    BY <2>2, <2>6 DEF AnswerInv, AnswerCurrent, TypeInv
  <2>8. resultMap[call[t].id] # NoThread => call[t].id \in abandoned'
    BY <2>2 DEF AnswerInv, WaitingNotified
  <2>9. ResultsCurrent'
    BY <2>2, <2>6, <2>8 DEF AnswerInv, ResultsCurrent
  <2>10. WaitingNotified' /\ InvokedAfresh'
    BY <2>2 DEF AnswerInv, WaitingNotified, InvokedAfresh, OnlyCall
  <2> QED BY <2>5, <2>7, <2>9, <2>10 DEF AnswerInv
<1>12. ASSUME NEW t \in Threads, Return(t)
      PROVE  AnswerInv'
  <2>1. ReturnEffect(t)
    BY <1>12, ReturnDoes
  <2>2. /\ call[t].pc = "took" /\ OnlyCall(t, "idle", NoId) /\ call[t].id \in Ids
        /\ resultMap' = [resultMap EXCEPT ![call[t].id] = NoThread]
        /\ abandoned \subseteq abandoned'
        /\ completer.id = call[t].id /\ completer.pc = "put" => call[t].id \in abandoned'
        /\ UNCHANGED << lockMap, ril, queue, completer >>
    BY <2>1 DEF ReturnEffect
  <2>3. \A r \in Requests : Pending(r) => Pending(r)'
    BY <2>2 DEF Pending, Requests, OnlyCall
  <2>4. RequestsPending' /\ CompletionsPending'
    BY <2>2, <2>3, AnswersStay DEF AnswerInv
  <2>5. \A u \in Threads, i \in Ids : Current(u, i) =>
            Current(u, i)' \/ (u = t /\ i = call[t].id)
    BY <2>2 DEF Current, OnlyCall
  <2>6. AnswerCurrent'
    BY <2>2, <2>5 DEF AnswerInv, AnswerCurrent, TypeInv
  <2>7. ResultsCurrent'
    BY <2>2, <2>5 DEF AnswerInv, ResultsCurrent
  <2>8. WaitingNotified' /\ InvokedAfresh'
    BY <2>2 DEF AnswerInv, WaitingNotified, InvokedAfresh, OnlyCall
  <2> QED BY <2>4, <2>6, <2>7, <2>8 DEF AnswerInv
<1>13. ASSUME NEW t \in Threads, WakeSpuriously(t)
      PROVE  AnswerInv'
  <2>1. WakeEffect(t)
    BY <1>13, WakeDoes
  <2>2. /\ call[t].pc = "wait" /\ OnlyCall(t, "roused", call[t].id)
        /\ UNCHANGED << lockMap, ril, queue, completer, resultMap, abandoned >>
    BY <2>1 DEF WakeEffect
  <2>3. \A r \in Requests : Pending(r) => Pending(r)'
    BY <2>2 DEF Pending, Requests, OnlyCall
  <2>4. RequestsPending' /\ CompletionsPending'
    BY <2>2, <2>3, AnswersStay DEF AnswerInv
  <2>5. \A u \in Threads, i \in Ids : Current(u, i) => Current(u, i)'
    BY <2>2 DEF Current, OnlyCall
  <2>6. AnswerCurrent' /\ ResultsCurrent'
    BY <2>2, <2>5 DEF AnswerInv, AnswerCurrent, ResultsCurrent, TypeInv
  <2>7. WaitingNotified' /\ InvokedAfresh'
    BY <2>2 DEF AnswerInv, WaitingNotified, InvokedAfresh, OnlyCall
  <2> QED BY <2>4, <2>6, <2>7 DEF AnswerInv
<1>14. ASSUME NEW t \in Threads, TakeResult(t)
      PROVE  AnswerInv'
  <2>1. TakeEffect(t)
    BY <1>14, TakeDoes
  <2>2. /\ call[t].pc \in {"woken", "roused"} /\ OnlyCall(t, "took", call[t].id)
        /\ call[t].id \in Ids /\ lockMap' = [lockMap EXCEPT ![call[t].id] = NoThread]
        /\ UNCHANGED << ril, queue, completer, resultMap, abandoned >>
    BY <2>1 DEF TakeEffect
  <2>3. \A r \in Requests : Pending(r) /\ lockMap'[r.id] # NoThread => Pending(r)'
    BY <2>2 DEF Pending, Requests, OnlyCall
  <2>4. \A r \in Requests : lockMap'[r.id] # NoThread => lockMap[r.id] # NoThread
    BY <2>2 DEF Requests
  <2>5. RequestsPending' /\ CompletionsPending'
    BY <2>2, <2>3, <2>4, AnswersStay DEF AnswerInv
  <2>6. \A u \in Threads, i \in Ids : Current(u, i) => Current(u, i)'
    BY <2>2 DEF Current, OnlyCall
  <2>7. AnswerCurrent' /\ ResultsCurrent'
    BY <2>2, <2>6 DEF AnswerInv, AnswerCurrent, ResultsCurrent, TypeInv
  <2>8. WaitingNotified' /\ InvokedAfresh'
    BY <2>2 DEF AnswerInv, WaitingNotified, InvokedAfresh, OnlyCall
  <2> QED BY <2>5, <2>7, <2>8 DEF AnswerInv
<1> QED
  BY <1>1, <1>2, <1>3, <1>4, <1>5, <1>6, <1>7,
     <1>8, <1>9, <1>10, <1>11, <1>12, <1>13, <1>14 DEF Next

-----------------------------------------------------------------------------
\* Stale entries and races are remembered.
LEMMA GhostsStep ==
    ASSUME TypeInv, Next
    PROVE  (raced => raced') /\ (stale => stale')
<1>1. CASE LooperPrepared \/ RilAnswers \/ Lookup \/ PutResult \/ NotifyLock
  BY <1>1 DEF LooperPrepared, RilAnswers, Lookup, PutResult, NotifyLock,
              unchangedByCompleter, ghosts
<1>2. ASSUME NEW t \in Threads, EnterMonitor(t)
      PROVE  (raced => raced') /\ (stale => stale')
  BY <1>2, Zenon DEF EnterMonitor, NoteIncrement
<1>3. ASSUME NEW t \in Threads,
             \/ Begin(t) \/ ReadCounter(t) \/ WriteCounter(t) \/ Invoke(t) \/ Interrupt(t)
             \/ WakeSpuriously(t) \/ TakeResult(t) \/ Return(t)
      PROVE  (raced => raced') /\ (stale => stale')
  BY <1>3 DEF Begin, ReadCounter, WriteCounter, Invoke, Interrupt, WakeSpuriously,
              TakeResult, Return, ghosts
<1> QED BY <1>1, <1>2, <1>3 DEF Next

LEMMA InitInv == Init => Inv
<1> SUFFICES ASSUME Init PROVE Inv
  OBVIOUS
<1>1. TypeOK
  <2>1. call \in [Threads -> CallRecords]
    BY IdleRecord DEF Init
  <2>2. completer \in [pc : {"idle", "put", "notify"}, id : 0 .. MaxCalls,
                        lock : Threads \cup {NoThread}, of : Threads \cup {NoThread}]
    BY ConstantsAssumption DEF Init, IdleCompleter, NoId
  <2>3. /\ counter \in 0 .. MaxCalls
        /\ monitors \in [0 .. MaxCalls -> Threads \cup {NoThread}]
        /\ lockMap \in [Ids -> Threads \cup {NoThread}]
        /\ resultMap \in [Ids -> Threads \cup {NoThread}]
    BY ConstantsAssumption DEF Init
  <2>4. /\ returned \in [Threads -> Threads \cup {NoThread, "false", "exception"}]
        /\ ril \in SUBSET [id : Ids, of : Threads] /\ queue \in Seq([id : Ids, of : Threads])
    BY SMT DEF Init
  <2>5. /\ ready \in BOOLEAN /\ raced \in BOOLEAN /\ stale \in BOOLEAN
        /\ abandoned \subseteq Ids
    BY Zenon DEF Init
  <2> QED BY <2>1, <2>2, <2>3, <2>4, <2>5 DEF TypeOK, CallRecords
<1>2. \A t \in Threads : call[t].pc = "idle" /\ returned[t] = NoThread
  BY DEF Init, IdleCall
<1>3. completer.pc = "idle" /\ ril = {} /\ queue = << >> /\ \A i \in Ids : resultMap[i] = NoThread
  BY DEF Init, IdleCompleter
<1>4. TypeInv
  BY <1>1, <1>2, <1>3 DEF TypeInv
<1>5. IdInv
  BY <1>2 DEF IdInv, InIncrement, Outstanding
<1>6. MapInv
  BY <1>2, <1>3 DEF MapInv, LocksHeld, ResultsOld, RequestsGenuine, ResultsGenuine,
                    ResultBeforeNotify, OwnResults, Locked
<1>7. AnswerInv
  BY <1>2, <1>3 DEF AnswerInv, RequestsPending, CompletionsPending, AnswerCurrent,
                    WaitingNotified, InvokedAfresh, ResultsCurrent
<1>8. MonitorInv /\ ~raced
  BY <1>2, Zenon DEF Init, MonitorInv, InIncrement
<1> QED BY <1>4, <1>5, <1>6, <1>7, <1>8 DEF Inv

LEMMA StepInv ==
    ASSUME Inv, [Next]_vars
    PROVE  Inv'
<1>1. CASE Next
  <2>1. TypeInv /\ TypeInv' /\ (raced => raced') /\ (stale => stale')
    BY <1>1, TypeStep, GhostsStep DEF Inv
  <2>2. ~stale' => ~raced' /\ MonitorInv'
    BY <1>1, <2>1, MonitorStep DEF Inv
  <2>3. ~raced' => IdInv'
    BY <1>1, <2>1, IdStep DEF Inv
  <2>4. ~raced' => MapInv'
    BY <1>1, <2>1, <2>3, MapStep DEF Inv
  <2>5. ~raced' => AnswerInv'
    BY <1>1, <2>1, AnswerStep DEF Inv
  <2> QED BY <2>1, <2>2, <2>3, <2>4, <2>5 DEF Inv
<1>2. CASE UNCHANGED vars
  <2>1. UNCHANGED << counter, monitors, call, lockMap, resultMap, completer, ready, ril,
                     queue, returned, stale, raced, abandoned >>
    BY <1>2 DEF vars
  <2>2. TypeInv' /\ (~stale => ~raced /\ MonitorInv)'
    BY <2>1 DEF Inv, TypeInv, TypeOK, MonitorInv, InIncrement
  <2>3. ~raced' => IdInv' /\ MapInv'
    BY <2>1 DEF Inv, IdInv, InIncrement, Outstanding, MapInv, LocksHeld, Locked, ResultsOld,
                RequestsGenuine, ResultsGenuine, ResultBeforeNotify, OwnResults, Genuine,
                Answer
  <2>4. ~raced' => AnswerInv'
    BY <2>1 DEF Inv, AnswerInv, RequestsPending, CompletionsPending, AnswerCurrent,
                WaitingNotified, InvokedAfresh, ResultsCurrent, Pending, Current
  <2> QED BY <2>2, <2>3, <2>4 DEF Inv
<1> QED BY <1>1, <1>2

\* In every behaviour of synchronousOemCall and onCallComplete.
THEOREM Invariance == Spec => []Inv
BY InitInv, StepInv, PTL DEF Spec

\* The variables have their types: no identifier beyond the bound is used,
\* even when two threads race in ++mCallIdCounter.
THEOREM TypeCorrect == Spec => []TypeOK
<1>1. Inv => TypeOK
  BY DEF Inv, TypeInv
<1> QED BY <1>1, Invariance, PTL

\* Outstanding calls have different identifiers as long as no thread enters the
\* monitor of an Integer that is no longer mCallIdCounter: the monitor of the
\* present Integer then excludes all others from the increment.
THEOREM IdentifiersDistinct == Spec => []IdsDistinct
<1>1. Inv => IdsDistinct
  BY DEF Inv, IdInv, IdsDistinct
<1> QED BY <1>1, Invariance, PTL

\* A thread woken by notify() finds, and returns, the result of its own request,
\* in whatever order the RIL answers, unless identifiers were shared.
THEOREM ResultsAreOwn == Spec => []OwnResult
<1>1. Inv => OwnResult
  BY DEF Inv, MapInv, OwnResults, OwnResult
<1> QED BY <1>1, Invariance, PTL

\* Unless identifiers were shared, a result in mResultMap is that of a call in
\* progress, or of one that ended between the completion thread's mLockMap.get
\* and its mResultMap.put (interrupted: its notify), spurious wake-ups included.
THEOREM ResultsAreTaken == Spec => []NoResultLeft
<1>1. Inv => NoResultLeft
  BY DEF Inv, AnswerInv, ResultsCurrent, Current, NoResultLeft
<1> QED BY <1>1, Invariance, PTL
=============================================================================
