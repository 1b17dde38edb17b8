----------------------- MODULE IPCSocketHandler_proofs -----------------------
(***************************************************************************)
(* Theorems about IPCSocketHandler, for every set of messages, every       *)
(* number of sequence numbers and every behaviour of the modem.            *)
(*                                                                         *)
(* TypeOK is not inductive: that submit() stores a number in the range of  *)
(* m_messagesInAir rests on the iterator pointing at a free number.  The   *)
(* inductive invariant adds that fact, and the complementarity of the two  *)
(* tables that it rests on.                                                *)
(***************************************************************************)
EXTENDS IPCSocketHandler, FiniteSetTheorems, TLAPS

\* Between two calls the iterator is at a free number, or dangles.
IteratorAtFree ==
    allocationIterator # Dangling => allocationIterator \in freeSequenceNumbers

TableInv == TypeOK /\ IteratorAtFree /\ SequencePartition

-----------------------------------------------------------------------------
\* Where the iterator goes after submit() has taken the element it was at:
\* to an element of the set.
LEMMA AdvanceInSet ==
    ASSUME NEW S \in SUBSET SequenceNumbers, NEW n, NEW k \in Advance(S, n)
    PROVE  k \in S
BY DEF Advance, Increment, Begin, End, SequenceNumbers

\* The element submit() leaves the iterator at is still in the set after
\* erase(), unless it was the one erased.
LEMMA AfterEraseInSet ==
    ASSUME NEW S \in SUBSET SequenceNumbers, NEW n \in S,
           NEW k \in Advance(S, n)
    PROVE  /\ AfterErase(k, n) \in SequenceNumbers \cup {Dangling}
           /\ AfterErase(k, n) # Dangling => AfterErase(k, n) \in S \ {n}
BY AdvanceInSet DEF AfterErase, Dangling, SequenceNumbers

LEMMA InitTableInv == Init => TableInv
BY ConstantsAssumption
   DEF Init, TableInv, TypeOK, IteratorAtFree, SequencePartition, Begin,
       NewMessageTable, SequenceNumbers, Dangling

\* submit() preserves the invariant.
LEMMA SubmitTableInv ==
    ASSUME TableInv, NEW m \in Messages, Submit(m)
    PROVE  TableInv'
<1> USE ConstantsAssumption DEF TableInv, TypeOK, IteratorAtFree, SequencePartition
<1>1. fromModem' = fromModem /\ lastDone' = lastDone
  BY DEF Submit
<1>2. CASE freeSequenceNumbers = {}
  <2>1. /\ messageQueue' = Append(messageQueue, m)
        /\ live' = live \cup {m}
        /\ UNCHANGED << freeSequenceNumbers, allocationIterator, messagesInAir,
                        undefined, modem >>
    BY <1>2 DEF Submit, SubmitOn
  <2> QED BY <1>1, <2>1
<1>3. CASE freeSequenceNumbers # {} /\ allocationIterator = Dangling
  BY <1>1, <1>3 DEF Submit, SubmitOn
<1>4. CASE freeSequenceNumbers # {} /\ allocationIterator # Dangling
  <2>1. PICK next \in Advance(freeSequenceNumbers, allocationIterator) :
            SendWith(m, allocationIterator, next, freeSequenceNumbers,
                     messagesInAir, live \cup {m})
    BY <1>4 DEF Submit, SubmitOn
  <2>2. messageQueue' = messageQueue /\ undefined' = undefined
    BY <1>4 DEF Submit, SubmitOn
  <2>3. allocationIterator \in freeSequenceNumbers
    BY <1>4
  <2>4. next \in freeSequenceNumbers /\ next # Dangling
    BY AdvanceInSet DEF SequenceNumbers, Dangling
  <2>5. CASE m \in Events
    BY <1>1, <2>1, <2>2, <2>4, <2>5 DEF SendWith
  <2>6. CASE m \notin Events
    <3>1. /\ freeSequenceNumbers' = freeSequenceNumbers \ {allocationIterator}
          /\ allocationIterator' = AfterErase(next, allocationIterator)
          /\ messagesInAir' = [messagesInAir EXCEPT ![allocationIterator] = m]
          /\ live' = live \cup {m}
          /\ modem' = modem \cup {[mseq |-> allocationIterator, body |-> m]}
      BY <2>1, <2>6 DEF SendWith
    <3>2. IteratorAtFree' /\ allocationIterator' \in SequenceNumbers \cup {Dangling}
      BY <2>3, <3>1, AfterEraseInSet
    <3>3. SequencePartition'
      BY <2>3, <3>1
    <3>4. modem' \in SUBSET [mseq : SequenceNumbers, body : Messages]
      BY <2>3, <3>1
    <3> QED BY <1>1, <2>2, <2>3, <3>1, <3>2, <3>3, <3>4
  <2> QED BY <2>5, <2>6
<1> QED BY <1>2, <1>3, <1>4

\* handleMessage() preserves the invariant.  The branch that resubmits a queued
\* message needs the iterator at end(), which TypeOK excludes.
LEMMA HandleMessageTableInv ==
    ASSUME TableInv, HandleMessage
    PROVE  TableInv'
<1> USE ConstantsAssumption DEF TableInv, TypeOK, IteratorAtFree, SequencePartition
<1> DEFINE f == Head(fromModem)
<1>1. f \in Frames /\ fromModem' \in Seq(Frames)
  BY DEF HandleMessage
<1>2. CASE DropFrame(f)
  BY <1>1, <1>2 DEF DropFrame, handlerVars
<1>3. CASE f.type = "RESP" /\ HandleResponse(f.aseq, f.body)
  <2>1. f.aseq \in SequenceNumbers /\ f.body \in Messages \cup {NoMessage}
    BY <1>1 DEF Frames
  <2>2. PICK it \in AfterInsert(allocationIterator, f.aseq) :
          it # End =>
            /\ freeSequenceNumbers' = freeSequenceNumbers \cup {f.aseq}
            /\ allocationIterator' = it
            /\ messagesInAir' = [messagesInAir EXCEPT ![f.aseq] = NoMessage]
            /\ live' = live \ {messagesInAir[f.aseq]}
            /\ UNCHANGED << messageQueue, undefined, modem >>
    BY <1>3 DEF HandleResponse
  <2>3. it # End
    BY <2>1 DEF AfterInsert, End, Dangling, SequenceNumbers
  <2>4. it \in SequenceNumbers \cup {Dangling} /\ (it # Dangling => it \in freeSequenceNumbers \cup {f.aseq})
    BY <2>1 DEF AfterInsert
  <2>5. lastDone' = [request |-> messagesInAir[f.aseq], reply |-> f.body]
    BY <1>3 DEF HandleResponse
  <2> QED BY <1>1, <2>1, <2>2, <2>3, <2>4, <2>5
<1> QED BY <1>2, <1>3 DEF HandleMessage

\* The modem's own steps only touch the socket and its own state.
LEMMA ModemTableInv ==
    ASSUME TableInv,
           (\E m \in Messages : Answer(m)) \/ Stray \/ GarbledAnswer
    PROVE  TableInv'
<1> USE ConstantsAssumption DEF TableInv, TypeOK, IteratorAtFree, SequencePartition
<1>1. ASSUME NEW m \in Messages, Answer(m) PROVE TableInv'
  <2>1. PICK r \in modem : /\ modem' = modem \ {r}
                           /\ fromModem' = Append(fromModem, [type |-> "RESP",
                                             aseq |-> r.mseq, body |-> m])
    BY <1>1 DEF Answer
  <2>2. [type |-> "RESP", aseq |-> r.mseq, body |-> m] \in Frames
    BY DEF Frames, FrameTypes
  <2>3. fromModem' \in Seq(Frames)
    BY <2>1, <2>2
  <2> QED BY <1>1, <2>1, <2>3 DEF Answer, handlerVars
<1>2. CASE Stray
  <2>1. PICK t \in FrameTypes, n \in SequenceNumbers :
            fromModem' = Append(fromModem, [type |-> t, aseq |-> n, body |-> NoMessage])
    BY <1>2 DEF Stray
  <2>2. [type |-> t, aseq |-> n, body |-> NoMessage] \in Frames
    BY DEF Frames
  <2>3. fromModem' \in Seq(Frames)
    BY <2>1, <2>2
  <2> QED BY <1>2, <2>3 DEF Stray, handlerVars
<1>3. CASE GarbledAnswer
  <2>1. PICK r \in modem : /\ modem' = modem \ {r}
                           /\ fromModem' = Append(fromModem, [type |-> "UNREADABLE",
                                             aseq |-> r.mseq, body |-> r.body])
    BY <1>3 DEF GarbledAnswer
  <2>2. [type |-> "UNREADABLE", aseq |-> r.mseq, body |-> r.body] \in Frames
    BY DEF Frames, FrameTypes
  <2>3. fromModem' \in Seq(Frames)
    BY <2>1, <2>2
  <2> QED BY <1>3, <2>1, <2>3 DEF GarbledAnswer, handlerVars
<1> QED BY <1>1, <1>2, <1>3

LEMMA NextTableInv == TableInv /\ [Next]_vars => TableInv'
<1> SUFFICES ASSUME TableInv, [Next]_vars PROVE TableInv'
  OBVIOUS
<1>1. CASE UNCHANGED vars
  BY <1>1 DEF TableInv, TypeOK, IteratorAtFree, SequencePartition, vars, handlerVars
<1>2. CASE Next
  BY <1>2, SubmitTableInv, HandleMessageTableInv, ModemTableInv DEF Next
<1> QED BY <1>1, <1>2

\* The tables keep their types and m_allocationIterator is never at end() when
\* handleMessage or submit is entered, for every number of messages.
THEOREM TypeCorrect == Spec => []TypeOK
<1>1. Spec => []TableInv
  BY InitTableInv, NextTableInv, PTL DEF Spec
<1> QED BY <1>1, PTL DEF TableInv

\* m_freeSequenceNumbers and m_messagesInAir stay complementary, whatever
\* frames the modem sends.
THEOREM PartitionHolds == Spec => []SequencePartition
<1>1. Spec => []TableInv
  BY InitTableInv, NextTableInv, PTL DEF Spec
<1> QED BY <1>1, PTL DEF TableInv

-----------------------------------------------------------------------------
(***************************************************************************)
(* The three effects a step of the handler can have on the tables, in the  *)
(* form that the remaining proofs use.                                     *)
(***************************************************************************)
Queues(m) ==
    /\ freeSequenceNumbers = {}
    /\ m \notin live
    /\ live' = live \cup {m}
    /\ messageQueue' = Append(messageQueue, m)
    /\ UNCHANGED << freeSequenceNumbers, allocationIterator, messagesInAir,
                    undefined, modem, fromModem, lastDone >>

Sends(m) ==
    /\ allocationIterator \in freeSequenceNumbers
    /\ m \notin live
    /\ m \notin Events
    /\ live' = live \cup {m}
    /\ messagesInAir' = [messagesInAir EXCEPT ![allocationIterator] = m]
    /\ modem' = modem \cup {[mseq |-> allocationIterator, body |-> m]}
    /\ freeSequenceNumbers' = freeSequenceNumbers \ {allocationIterator}
    /\ \E next \in Advance(freeSequenceNumbers, allocationIterator) :
           allocationIterator' = AfterErase(next, allocationIterator)
    /\ UNCHANGED << messageQueue, undefined, fromModem, lastDone >>

SendsEvent(m) ==
    /\ m \notin live
    /\ allocationIterator' \in freeSequenceNumbers
    /\ live' = live
    /\ UNCHANGED << freeSequenceNumbers, messagesInAir, messageQueue,
                    undefined, modem, fromModem, lastDone >>

Breaks ==
    /\ allocationIterator = Dangling
    /\ undefined' = TRUE
    /\ UNCHANGED << freeSequenceNumbers, allocationIterator, messagesInAir,
                    messageQueue, live, modem, fromModem, lastDone >>

Completes(f) ==
    /\ fromModem # << >>
    /\ f = Head(fromModem)
    /\ f \in Frames
    /\ f.type = "RESP"
    /\ messagesInAir[f.aseq] # NoMessage
    /\ fromModem' = Tail(fromModem)
    /\ freeSequenceNumbers' = freeSequenceNumbers \cup {f.aseq}
    /\ allocationIterator' \in AfterInsert(allocationIterator, f.aseq)
    /\ messagesInAir' = [messagesInAir EXCEPT ![f.aseq] = NoMessage]
    /\ live' = live \ {messagesInAir[f.aseq]}
    /\ lastDone' = [request |-> messagesInAir[f.aseq], reply |-> f.body]
    /\ UNCHANGED << messageQueue, undefined, modem >>

\* submit() queues, sends, sends an event or runs into the dangling iterator.
LEMMA SubmitEffects ==
    ASSUME TableInv, NEW m \in Messages, Submit(m)
    PROVE  Queues(m) \/ Sends(m) \/ SendsEvent(m) \/ Breaks
<1> USE DEF TableInv, TypeOK, IteratorAtFree
<1>1. /\ fromModem' = fromModem /\ lastDone' = lastDone /\ m \notin live
      /\ SubmitOn(m, freeSequenceNumbers, allocationIterator, messagesInAir,
                  messageQueue, live \cup {m})
  BY DEF Submit
<1>2. CASE freeSequenceNumbers = {}
  BY <1>1, <1>2 DEF SubmitOn, Queues
<1>3. CASE freeSequenceNumbers # {} /\ allocationIterator = Dangling
  BY <1>1, <1>3 DEF SubmitOn, Breaks
<1>4. CASE freeSequenceNumbers # {} /\ allocationIterator # Dangling
  <2>1. PICK next \in Advance(freeSequenceNumbers, allocationIterator) :
            SendWith(m, allocationIterator, next, freeSequenceNumbers,
                     messagesInAir, live \cup {m})
    BY <1>1, <1>4 DEF SubmitOn
  <2>2. messageQueue' = messageQueue /\ undefined' = undefined
    BY <1>1, <1>4 DEF SubmitOn
  <2>3. next \in freeSequenceNumbers
    BY AdvanceInSet
  <2>4. CASE m \in Events
    <3>1. live' = live
      BY <1>1, <2>1, <2>4 DEF SendWith
    <3> QED BY <1>1, <2>1, <2>2, <2>3, <2>4, <3>1 DEF SendWith, SendsEvent
  <2>5. CASE m \notin Events
    BY <1>1, <1>4, <2>1, <2>2, <2>5 DEF SendWith, Sends
  <2> QED BY <2>4, <2>5
<1> QED BY <1>2, <1>3, <1>4

\* handleMessage() completes the request that the response names, or changes
\* nothing but the socket.
LEMMA HandleMessageEffects ==
    ASSUME TableInv, HandleMessage
    PROVE  \/ \E f \in Frames : Completes(f)
           \/ /\ fromModem # << >>
              /\ fromModem' = Tail(fromModem)
              /\ UNCHANGED << handlerVars, modem, lastDone >>
<1> USE DEF TableInv, TypeOK
<1> DEFINE f == Head(fromModem)
<1>1. /\ fromModem # << >> /\ fromModem' = Tail(fromModem) /\ f \in Frames
  BY DEF HandleMessage
<1>2. CASE DropFrame(f)
  BY <1>1, <1>2 DEF DropFrame
<1>3. CASE f.type = "RESP" /\ HandleResponse(f.aseq, f.body)
  <2>1. f.aseq \in SequenceNumbers
    BY <1>1 DEF Frames
  <2>2. PICK it \in AfterInsert(allocationIterator, f.aseq) :
          it # End =>
            /\ freeSequenceNumbers' = freeSequenceNumbers \cup {f.aseq}
            /\ allocationIterator' = it
            /\ messagesInAir' = [messagesInAir EXCEPT ![f.aseq] = NoMessage]
            /\ live' = live \ {messagesInAir[f.aseq]}
            /\ UNCHANGED << messageQueue, undefined, modem >>
    BY <1>3 DEF HandleResponse
  <2>3. it # End
    BY <2>1 DEF AfterInsert, End, Dangling, SequenceNumbers
  <2>4. /\ lastDone' = [request |-> messagesInAir[f.aseq], reply |-> f.body]
        /\ messagesInAir[f.aseq] # NoMessage
    BY <1>3 DEF HandleResponse
  <2>5. Completes(f)
    BY <1>1, <1>3, <2>2, <2>3, <2>4 DEF Completes
  <2> QED BY <1>1, <2>5
<1> QED BY <1>2, <1>3 DEF HandleMessage

\* Nobody but the handler touches the handler's tables.
LEMMA ModemEffects ==
    (\E m \in Messages : Answer(m)) \/ Stray \/ GarbledAnswer
        => UNCHANGED << handlerVars, lastDone >>
BY DEF Answer, Stray, GarbledAnswer

-----------------------------------------------------------------------------
\* m_messageQueue only ever grows: no step takes a message from it.
THEOREM QueueNeverDrained == Spec => QueuedForEver
<1>1. TableInv /\ [Next]_vars
          => [\E added \in {<< >>} \cup {<< m >> : m \in Messages} :
                  messageQueue' = messageQueue \o added]_vars
  <2> SUFFICES ASSUME TableInv, Next
               PROVE  \E added \in {<< >>} \cup {<< m >> : m \in Messages} :
                          messageQueue' = messageQueue \o added
    OBVIOUS
  <2>1. messageQueue \in Seq(Messages)
    BY DEF TableInv, TypeOK
  <2>2. ASSUME messageQueue' = messageQueue
        PROVE  messageQueue' = messageQueue \o << >>
    BY <2>1, <2>2
  <2>3. ASSUME NEW m \in Messages, Submit(m)
        PROVE  \/ messageQueue' = messageQueue
               \/ messageQueue' = messageQueue \o << m >>
    <3>1. \/ messageQueue' = messageQueue
          \/ messageQueue' = Append(messageQueue, m)
      BY <2>3, SubmitEffects DEF Queues, Sends, SendsEvent, Breaks
    <3>2. Append(messageQueue, m) = messageQueue \o << m >>
      BY <2>1
    <3> QED BY <3>1, <3>2
  <2>4. ASSUME HandleMessage PROVE messageQueue' = messageQueue
    BY <2>4, HandleMessageEffects DEF Completes, handlerVars
  <2>5. ASSUME (\E m \in Messages : Answer(m)) \/ Stray \/ GarbledAnswer
        PROVE  messageQueue' = messageQueue
    BY <2>5, ModemEffects DEF handlerVars
  <2> QED BY <2>2, <2>3, <2>4, <2>5 DEF Next
<1>2. Spec => []TableInv
  BY InitTableInv, NextTableInv, PTL DEF Spec
<1> QED BY <1>1, <1>2, PTL DEF Spec, QueuedForEver

-----------------------------------------------------------------------------
(***************************************************************************)
(* Ownership, stated pointwise: the form in which a step preserves it.     *)
(***************************************************************************)
OwnerInv ==
    /\ \A m \in live : \/ \E n \in SequenceNumbers : messagesInAir[n] = m
                       \/ \E i \in 1 .. Len(messageQueue) : messageQueue[i] = m
    /\ \A n \in SequenceNumbers :
           messagesInAir[n] # NoMessage => messagesInAir[n] \in live
    /\ \A i \in 1 .. Len(messageQueue) : messageQueue[i] \in live
    /\ \A n \in SequenceNumbers, i \in 1 .. Len(messageQueue) :
           messagesInAir[n] # messageQueue[i]
    /\ \A i, j \in SequenceNumbers :
           messagesInAir[i] = messagesInAir[j] /\ messagesInAir[i] # NoMessage
               => i = j
    /\ \A i, j \in 1 .. Len(messageQueue) :
           messageQueue[i] = messageQueue[j] => i = j

LEMMA OwnerInvIsOwnership == TypeOK /\ OwnerInv => Ownership
<1> SUFFICES ASSUME TypeOK, OwnerInv PROVE Ownership
  OBVIOUS
<1> USE ConstantsAssumption DEF TypeOK, OwnerInv
<1>1. live = InAir \cup Queued
  <2>1. ASSUME NEW m \in live PROVE m \in InAir \cup Queued
    BY <2>1 DEF InAir, Queued
  <2>2. ASSUME NEW m \in InAir \cup Queued PROVE m \in live
    BY <2>2 DEF InAir, Queued
  <2> QED BY <2>1, <2>2
<1>2. InAir \cap Queued = {}
  BY DEF InAir, Queued
<1> QED BY <1>1, <1>2 DEF Ownership

LEMMA NextOwnerInv ==
    ASSUME TableInv, OwnerInv, [Next]_vars
    PROVE  OwnerInv'
<1> USE ConstantsAssumption
<1>1. messagesInAir \in [SequenceNumbers -> Messages \cup {NoMessage}]
  BY DEF TableInv, TypeOK
<1>2. messageQueue \in Seq(Messages) /\ live \subseteq Messages
  BY DEF TableInv, TypeOK
<1>3. ASSUME UNCHANGED << live, messagesInAir, messageQueue >>
      PROVE  OwnerInv'
  BY <1>3 DEF OwnerInv
<1>4. ASSUME NEW m \in Messages, Queues(m) PROVE OwnerInv'
  <2>1. /\ messagesInAir' = messagesInAir
        /\ live' = live \cup {m} /\ m \notin live
        /\ messageQueue' = Append(messageQueue, m)
    BY <1>4 DEF Queues
  <2>2. /\ Len(messageQueue') = Len(messageQueue) + 1
        /\ messageQueue'[Len(messageQueue) + 1] = m
        /\ \A i \in 1 .. Len(messageQueue) : messageQueue'[i] = messageQueue[i]
    BY <1>2, <2>1
  <2>3. Len(messageQueue) \in Nat
    BY <1>2
  <2>4. 1 .. Len(messageQueue') = (1 .. Len(messageQueue)) \cup {Len(messageQueue) + 1}
    BY <2>2, <2>3
  <2> QED BY <1>1, <1>2, <2>1, <2>2, <2>3, <2>4 DEF OwnerInv
<1>5. ASSUME NEW m \in Messages, Sends(m) PROVE OwnerInv'
  <2>1. /\ allocationIterator \in SequenceNumbers
        /\ messagesInAir[allocationIterator] = NoMessage
    BY <1>5 DEF Sends, TableInv, TypeOK, SequencePartition
  <2>2. /\ messagesInAir' = [messagesInAir EXCEPT ![allocationIterator] = m]
        /\ live' = live \cup {m} /\ m \notin live
        /\ messageQueue' = messageQueue
    BY <1>5 DEF Sends
  <2> QED BY <1>1, <1>2, <2>1, <2>2 DEF OwnerInv
<1>6. ASSUME NEW f \in Frames, Completes(f) PROVE OwnerInv'
  <2>1. /\ f.aseq \in SequenceNumbers
        /\ messagesInAir[f.aseq] # NoMessage
        /\ messagesInAir' = [messagesInAir EXCEPT ![f.aseq] = NoMessage]
        /\ live' = live \ {messagesInAir[f.aseq]}
        /\ messageQueue' = messageQueue
    BY <1>6 DEF Completes, Frames
  <2> QED BY <1>1, <1>2, <2>1 DEF OwnerInv
<1>7. ASSUME NEW m \in Messages, Submit(m) PROVE OwnerInv'
  <2>1. CASE Queues(m) BY <1>4, <2>1
  <2>2. CASE Sends(m)  BY <1>5, <2>2
  <2>3. CASE SendsEvent(m) BY <1>3, <2>3 DEF SendsEvent
  <2>4. CASE Breaks BY <1>3, <2>4 DEF Breaks
  <2> QED BY <1>7, <2>1, <2>2, <2>3, <2>4, SubmitEffects
<1>8. ASSUME HandleMessage PROVE OwnerInv'
  BY <1>3, <1>6, <1>8, HandleMessageEffects DEF handlerVars
<1>9. ASSUME (\E m \in Messages : Answer(m)) \/ Stray \/ GarbledAnswer
      PROVE  OwnerInv'
  BY <1>3, <1>9, ModemEffects DEF handlerVars
<1>10. CASE UNCHANGED vars
  BY <1>3, <1>10 DEF vars, handlerVars
<1> QED BY <1>7, <1>8, <1>9, <1>10 DEF Next

LEMMA InitOwnerInv == Init => OwnerInv
BY DEF Init, OwnerInv, NewMessageTable

\* Every undeleted request has exactly one owner, so nothing is completed or
\* deleted twice and nothing leaks, for every number of messages and every
\* sequence of frames.
THEOREM OwnershipHolds == Spec => []Ownership
<1>1. TableInv /\ OwnerInv /\ [Next]_vars => (TableInv /\ OwnerInv)'
  BY NextTableInv, NextOwnerInv
<1>2. Init => TableInv /\ OwnerInv
  BY InitTableInv, InitOwnerInv
<1>3. TableInv /\ OwnerInv => Ownership
  BY OwnerInvIsOwnership DEF TableInv
<1> QED BY <1>1, <1>2, <1>3, PTL DEF Spec

-----------------------------------------------------------------------------
(***************************************************************************)
(* SafeAllocation: with at most MaxSeq requests outstanding the set of     *)
(* free numbers never shrinks to nothing, so the iterator never dangles.   *)
(***************************************************************************)
NoEventInAir ==
    \A n \in SequenceNumbers :
        messagesInAir[n] # NoMessage => messagesInAir[n] \notin Events

AllocInv == TableInv /\ OwnerInv /\ NoEventInAir /\ SafeAllocation

\* ++ followed by the wrap to begin() returns to the same element only if it
\* is the only one.
LEMMA AdvanceMoves ==
    ASSUME NEW S \in SUBSET SequenceNumbers, NEW n \in S,
           n \in Advance(S, n)
    PROVE  S = {n}
<1> USE ConstantsAssumption DEF SequenceNumbers
<1>1. CASE {k \in S : k > n} = {}
  <2>1. \A j \in S : n <= j
    BY <1>1 DEF Advance, Increment, Begin, End
  <2>2. \A j \in S : ~(j > n)
    BY <1>1
  <2>3. \A j \in S : j = n
    BY <2>1, <2>2
  <2> QED BY <2>3
<1>2. CASE {k \in S : k > n} # {}
  <2>1. End \notin Begin({k \in S : k > n})
    BY DEF Begin, End
  <2>2. n \in Begin({k \in S : k > n})
    BY <1>2, <2>1 DEF Advance, Increment
  <2> QED BY <2>2 DEF Begin
<1> QED BY <1>1, <1>2

\* The pigeonhole step: a request that is about to be sent, and is therefore
\* not in flight, leaves at most MaxSeq - 1 others, so two numbers are free.
LEMMA TwoNumbersFree ==
    ASSUME TableInv, OwnerInv, NoEventInAir, Ample,
           NEW m \in Messages \ Events, m \notin live,
           NEW n \in SequenceNumbers
    PROVE  freeSequenceNumbers # {n}
<1> USE ConstantsAssumption
<1> SUFFICES ASSUME freeSequenceNumbers = {n} PROVE FALSE
  OBVIOUS
<1> DEFINE S == SequenceNumbers \ {n}
           T == (Messages \ Events) \ {m}
           g == [k \in S |-> messagesInAir[k]]
<1>1. \A k \in S : messagesInAir[k] # NoMessage
  BY DEF TableInv, SequencePartition
<1>2. \A k \in S : messagesInAir[k] \in T
  BY <1>1 DEF TableInv, TypeOK, OwnerInv, NoEventInAir
<1>3. g \in [S -> T]
  BY <1>2
<1>4. IsFiniteSet(SequenceNumbers) /\ Cardinality(SequenceNumbers) = MaxSeq + 1
  BY FS_Interval DEF SequenceNumbers
<1>5. IsFiniteSet(S) /\ Cardinality(S) = MaxSeq
  <2>1. /\ IsFiniteSet(SequenceNumbers \ {n})
        /\ Cardinality(SequenceNumbers \ {n}) = Cardinality(SequenceNumbers) - 1
    BY <1>4, FS_RemoveElement
  <2> QED BY <1>4, <2>1
<1>6. /\ IsFiniteSet(T) /\ Cardinality(T) = Cardinality(Messages \ Events) - 1
      /\ Cardinality(Messages \ Events) \in Nat
  BY FS_RemoveElement, FS_CardinalityType DEF Ample
<1>7. Cardinality(T) < Cardinality(S)
  BY <1>5, <1>6 DEF Ample
<1> HIDE DEF S, T, g
<1>8. PICK x, y \in S : x # y /\ g[x] = g[y]
  BY <1>3, <1>5, <1>6, <1>7, FS_PigeonHole
<1>9. messagesInAir[x] = messagesInAir[y] /\ x \in SequenceNumbers /\ y \in SequenceNumbers
  BY <1>8 DEF g, S
<1> QED BY <1>1, <1>8, <1>9 DEF OwnerInv

LEMMA NextAllocInv ==
    ASSUME AllocInv, [Next]_vars
    PROVE  AllocInv'
<1> USE ConstantsAssumption
<1>1. TableInv' /\ OwnerInv'
  BY NextTableInv, NextOwnerInv DEF AllocInv
<1> SUFFICES NoEventInAir' /\ SafeAllocation'
  BY <1>1 DEF AllocInv
<1>2. Ample' = Ample
  BY DEF Ample
<1>3. ASSUME UNCHANGED handlerVars PROVE NoEventInAir' /\ SafeAllocation'
  BY <1>2, <1>3 DEF AllocInv, NoEventInAir, SafeAllocation, handlerVars
<1>4. ASSUME NEW m \in Messages, Queues(m) PROVE NoEventInAir' /\ SafeAllocation'
  <2>1. ~Ample
    BY <1>4 DEF Queues, AllocInv, SafeAllocation
  <2>2. NoEventInAir'
    BY <1>4 DEF Queues, AllocInv, NoEventInAir
  <2> QED BY <1>2, <2>1, <2>2 DEF SafeAllocation
<1>5. ASSUME NEW m \in Messages, Sends(m) PROVE NoEventInAir' /\ SafeAllocation'
  <2>1. NoEventInAir'
    BY <1>5 DEF Sends, AllocInv, NoEventInAir, TableInv, TypeOK
  <2>2. ASSUME Ample
        PROVE  ~undefined' /\ messageQueue' = << >>
                 /\ allocationIterator' \in freeSequenceNumbers'
    <3>1. PICK next \in Advance(freeSequenceNumbers, allocationIterator) :
              allocationIterator' = AfterErase(next, allocationIterator)
      BY <1>5 DEF Sends
    <3>2. freeSequenceNumbers # {allocationIterator}
      BY <1>5, <2>2, TwoNumbersFree DEF Sends, AllocInv, TableInv, TypeOK
    <3>3. next \in freeSequenceNumbers /\ next # allocationIterator
      BY <1>5, <3>2, AdvanceInSet, AdvanceMoves
         DEF Sends, AllocInv, TableInv, TypeOK
    <3>4. allocationIterator' \in freeSequenceNumbers'
      BY <1>5, <3>1, <3>3 DEF Sends, AfterErase
    <3> QED BY <1>5, <2>2, <3>4 DEF Sends, AllocInv, SafeAllocation
  <2> QED BY <1>2, <2>1, <2>2 DEF SafeAllocation
<1>6. ASSUME NEW m \in Messages, SendsEvent(m)
      PROVE  NoEventInAir' /\ SafeAllocation'
  BY <1>2, <1>6 DEF SendsEvent, AllocInv, NoEventInAir, SafeAllocation
<1>7. ASSUME Breaks PROVE NoEventInAir' /\ SafeAllocation'
  <2>1. ~Ample
    BY <1>7 DEF Breaks, AllocInv, SafeAllocation, TableInv, TypeOK,
                SequenceNumbers, Dangling
  <2> QED BY <1>2, <1>7, <2>1 DEF Breaks, AllocInv, NoEventInAir, SafeAllocation
<1>8. ASSUME NEW f \in Frames, Completes(f) PROVE NoEventInAir' /\ SafeAllocation'
  <2>1. NoEventInAir'
    BY <1>8 DEF Completes, Frames, AllocInv, NoEventInAir, TableInv, TypeOK
  <2>2. ASSUME Ample
        PROVE  ~undefined' /\ messageQueue' = << >>
                 /\ allocationIterator' \in freeSequenceNumbers'
    <3>1. allocationIterator # Dangling /\ allocationIterator \in freeSequenceNumbers
      BY <2>2 DEF AllocInv, SafeAllocation, TableInv, TypeOK, SequenceNumbers, Dangling
    <3> QED BY <1>8, <2>2, <3>1 DEF Completes, AfterInsert, AllocInv, SafeAllocation
  <2> QED BY <1>2, <2>1, <2>2 DEF SafeAllocation
<1>9. ASSUME NEW m \in Messages, Submit(m) PROVE NoEventInAir' /\ SafeAllocation'
  BY <1>4, <1>5, <1>6, <1>7, <1>9, SubmitEffects DEF AllocInv
<1>10. ASSUME HandleMessage PROVE NoEventInAir' /\ SafeAllocation'
  BY <1>3, <1>8, <1>10, HandleMessageEffects DEF AllocInv
<1>11. ASSUME (\E m \in Messages : Answer(m)) \/ Stray \/ GarbledAnswer
       PROVE  NoEventInAir' /\ SafeAllocation'
  BY <1>3, <1>11, ModemEffects
<1>12. CASE UNCHANGED vars
  BY <1>3, <1>12 DEF vars
<1> QED BY <1>9, <1>10, <1>11, <1>12 DEF Next

LEMMA InitAllocInv == Init => AllocInv
<1> SUFFICES ASSUME Init PROVE NoEventInAir /\ SafeAllocation
  BY InitTableInv, InitOwnerInv DEF AllocInv
<1> QED BY ConstantsAssumption
        DEF Init, NoEventInAir, SafeAllocation, NewMessageTable, Begin

\* While at most MaxSeq requests are outstanding at once, submit() never
\* queues and never dereferences a dangling iterator, whatever the modem
\* sends: in the code, 254 outstanding requests are safe.
THEOREM AllocationIsSafe == Spec => []SafeAllocation
<1>1. AllocInv => SafeAllocation
  BY DEF AllocInv
<1> QED BY <1>1, InitAllocInv, NextAllocInv, PTL DEF Spec

-----------------------------------------------------------------------------
(***************************************************************************)
(* The request channel.  Every answer that is still owed or on its way is  *)
(* for the request that holds its number, and no number is answered twice; *)
(* so a number is not reused while an answer to its former holder can      *)
(* still arrive.                                                           *)
(***************************************************************************)
ReplyInv ==
    /\ \A r \in modem : messagesInAir[r.mseq] = r.body
    /\ \A i \in 1 .. Len(fromModem) :
           /\ fromModem[i].body \in Messages
           /\ messagesInAir[fromModem[i].aseq] = fromModem[i].body
    /\ \A r \in modem, i \in 1 .. Len(fromModem) :
           r.mseq # fromModem[i].aseq
    /\ \A i, j \in 1 .. Len(fromModem) :
           fromModem[i].aseq = fromModem[j].aseq => i = j
    /\ lastDone.request = lastDone.reply

ChannelInv == TableInv /\ OwnerInv /\ ReplyInv

LEMMA InitReplyInv == Init => ReplyInv
BY DEF Init, ReplyInv

\* Taking the first frame from the socket leaves the others in order.
LEMMA TailFacts ==
    ASSUME NEW s \in Seq(Frames), s # << >>
    PROVE  /\ Len(Tail(s)) = Len(s) - 1
           /\ Len(s) \in Nat \ {0}
           /\ \A i \in 1 .. Len(Tail(s)) :
                  Tail(s)[i] = s[i + 1] /\ i + 1 \in 1 .. Len(s)
           /\ Head(s) = s[1]
OBVIOUS

LEMMA NextReplyInv ==
    ASSUME ~FaultyModem, ChannelInv, Next
    PROVE  ReplyInv'
<1> USE ConstantsAssumption
<1>1. messagesInAir \in [SequenceNumbers -> Messages \cup {NoMessage}]
  BY DEF ChannelInv, TableInv, TypeOK
<1>2. modem \subseteq [mseq : SequenceNumbers, body : Messages]
  BY DEF ChannelInv, TableInv, TypeOK
<1>3. fromModem \in Seq(Frames)
  BY DEF ChannelInv, TableInv, TypeOK
<1>4. \A i \in 1 .. Len(fromModem) : fromModem[i].aseq \in SequenceNumbers
  <2>1. \A i \in 1 .. Len(fromModem) : fromModem[i] \in Frames
    BY <1>3
  <2> QED BY <2>1 DEF Frames
<1>5. ASSUME UNCHANGED << messagesInAir, modem, fromModem, lastDone >>
      PROVE  ReplyInv'
  BY <1>5 DEF ChannelInv, ReplyInv
<1>6. ASSUME NEW m \in Messages, Sends(m) PROVE ReplyInv'
  <2> DEFINE val == allocationIterator
  <2>1. val \in SequenceNumbers /\ messagesInAir[val] = NoMessage
    BY <1>6 DEF Sends, ChannelInv, TableInv, TypeOK, SequencePartition
  <2>2. /\ messagesInAir' = [messagesInAir EXCEPT ![val] = m]
        /\ modem' = modem \cup {[mseq |-> val, body |-> m]}
        /\ fromModem' = fromModem /\ lastDone' = lastDone
    BY <1>6 DEF Sends
  <2>3. \A r \in modem : r.mseq # val
    BY <1>2, <2>1 DEF ChannelInv, ReplyInv
  <2>4. \A i \in 1 .. Len(fromModem) : fromModem[i].aseq # val
    BY <2>1 DEF ChannelInv, ReplyInv
  <2>5. \A r \in modem' : messagesInAir'[r.mseq] = r.body
    BY <1>1, <1>2, <2>1, <2>2, <2>3 DEF ChannelInv, ReplyInv
  <2>6. \A i \in 1 .. Len(fromModem) :
            messagesInAir'[fromModem[i].aseq] = fromModem[i].body
    BY <1>1, <1>4, <2>1, <2>2, <2>4 DEF ChannelInv, ReplyInv
  <2>7. \A r \in modem', i \in 1 .. Len(fromModem) : r.mseq # fromModem[i].aseq
    BY <2>2, <2>4 DEF ChannelInv, ReplyInv
  <2> QED BY <2>2, <2>5, <2>6, <2>7 DEF ChannelInv, ReplyInv
<1>7. ASSUME NEW f \in Frames, Completes(f) PROVE ReplyInv'
  <2>1. /\ fromModem # << >> /\ f = Head(fromModem) /\ fromModem' = Tail(fromModem)
        /\ messagesInAir' = [messagesInAir EXCEPT ![f.aseq] = NoMessage]
        /\ lastDone' = [request |-> messagesInAir[f.aseq], reply |-> f.body]
        /\ modem' = modem
    BY <1>7 DEF Completes
  <2>2. /\ f = fromModem[1] /\ 1 \in 1 .. Len(fromModem)
    BY <1>3, <2>1, TailFacts
  <2>3. lastDone'.request = lastDone'.reply
    BY <2>1, <2>2 DEF ChannelInv, ReplyInv
  <2>4. \A r \in modem' : messagesInAir'[r.mseq] = r.body
    BY <1>1, <1>2, <2>1, <2>2 DEF ChannelInv, ReplyInv
  <2>5. \A i \in 1 .. Len(fromModem') :
            fromModem'[i] = fromModem[i + 1] /\ i + 1 \in 1 .. Len(fromModem)
    BY <1>3, <2>1, TailFacts
  <2>6. Len(fromModem') = Len(fromModem) - 1 /\ Len(fromModem) \in Nat
    BY <1>3, <2>1, TailFacts
  <2>7. \A i \in 1 .. Len(fromModem') : fromModem[i + 1].aseq # f.aseq
    <3> SUFFICES ASSUME NEW i \in 1 .. Len(fromModem') PROVE fromModem[i + 1].aseq # f.aseq
      OBVIOUS
    <3>1. i + 1 # 1 /\ i + 1 \in 1 .. Len(fromModem)
      BY <2>5, <2>6
    <3> QED BY <2>2, <3>1 DEF ChannelInv, ReplyInv
  <2>8. \A i \in 1 .. Len(fromModem') :
            /\ fromModem'[i].body \in Messages
            /\ messagesInAir'[fromModem'[i].aseq] = fromModem'[i].body
    BY <1>1, <1>4, <2>1, <2>5, <2>7 DEF ChannelInv, ReplyInv
  <2>9. \A r \in modem', i \in 1 .. Len(fromModem') : r.mseq # fromModem'[i].aseq
    BY <2>1, <2>5 DEF ChannelInv, ReplyInv
  <2>10. \A i, j \in 1 .. Len(fromModem') :
            fromModem'[i].aseq = fromModem'[j].aseq => i = j
    <3> SUFFICES ASSUME NEW i \in 1 .. Len(fromModem'), NEW j \in 1 .. Len(fromModem'),
                        fromModem'[i].aseq = fromModem'[j].aseq
                 PROVE  i = j
      OBVIOUS
    <3>1. i + 1 = j + 1
      BY <2>5 DEF ChannelInv, ReplyInv
    <3> QED BY <2>6, <3>1
  <2> QED BY <2>3, <2>4, <2>8, <2>9, <2>10 DEF ReplyInv
<1>8. ASSUME fromModem # << >>, fromModem' = Tail(fromModem),
             UNCHANGED << handlerVars, modem, lastDone >>
      PROVE  ReplyInv'
  <2>1. \A i \in 1 .. Len(fromModem') :
            fromModem'[i] = fromModem[i + 1] /\ i + 1 \in 1 .. Len(fromModem)
    BY <1>3, <1>8, TailFacts
  <2>2. Len(fromModem') = Len(fromModem) - 1 /\ Len(fromModem) \in Nat
    BY <1>3, <1>8, TailFacts
  <2>3. \A i, j \in 1 .. Len(fromModem') :
            fromModem'[i].aseq = fromModem'[j].aseq => i = j
    <3> SUFFICES ASSUME NEW i \in 1 .. Len(fromModem'), NEW j \in 1 .. Len(fromModem'),
                        fromModem'[i].aseq = fromModem'[j].aseq
                 PROVE  i = j
      OBVIOUS
    <3>1. i + 1 = j + 1
      BY <2>1 DEF ChannelInv, ReplyInv
    <3> QED BY <2>2, <3>1
  <2>4. messagesInAir' = messagesInAir /\ modem' = modem /\ lastDone' = lastDone
    BY <1>8 DEF handlerVars
  <2>5. \A i \in 1 .. Len(fromModem') :
            /\ fromModem'[i].body \in Messages
            /\ messagesInAir'[fromModem'[i].aseq] = fromModem'[i].body
    BY <2>1, <2>4 DEF ChannelInv, ReplyInv
  <2>6. \A r \in modem', i \in 1 .. Len(fromModem') : r.mseq # fromModem'[i].aseq
    BY <2>1, <2>4 DEF ChannelInv, ReplyInv
  <2> QED BY <2>3, <2>4, <2>5, <2>6 DEF ChannelInv, ReplyInv
<1>9. ASSUME NEW m \in Messages, Answer(m) PROVE ReplyInv'
  <2>1. PICK r \in modem :
            /\ r.body = m
            /\ modem' = modem \ {r}
            /\ fromModem' = Append(fromModem, [type |-> "RESP",
                                               aseq |-> r.mseq, body |-> m])
    BY <1>9 DEF Answer
  <2>2. messagesInAir' = messagesInAir /\ lastDone' = lastDone
    BY <1>9 DEF Answer, handlerVars
  <2> DEFINE g == [type |-> "RESP", aseq |-> r.mseq, body |-> m]
  <2>3. /\ Len(fromModem) \in Nat
        /\ 1 .. Len(fromModem') = 1 .. Len(fromModem) \cup {Len(fromModem) + 1}
        /\ fromModem'[Len(fromModem) + 1] = g
        /\ \A i \in 1 .. Len(fromModem) : fromModem'[i] = fromModem[i]
    <3>1. g \in Frames
      BY <1>2 DEF Frames, FrameTypes
    <3> QED BY <1>3, <2>1, <3>1
  <2>4. g.aseq = r.mseq /\ g.body = m /\ messagesInAir[r.mseq] = m
    BY <2>1 DEF ChannelInv, ReplyInv
  <2> HIDE DEF g
  <2>5. \A i \in 1 .. Len(fromModem') :
            /\ fromModem'[i].body \in Messages
            /\ messagesInAir'[fromModem'[i].aseq] = fromModem'[i].body
    BY <2>2, <2>3, <2>4 DEF ChannelInv, ReplyInv
  <2>6. \A q \in modem' : q.mseq # r.mseq
    <3> SUFFICES ASSUME NEW q \in modem, q # r, q.mseq = r.mseq PROVE FALSE
      BY <2>1
    <3>1. q.body = r.body
      BY DEF ChannelInv, ReplyInv
    <3>2. q = [mseq |-> q.mseq, body |-> q.body] /\ r = [mseq |-> r.mseq, body |-> r.body]
      BY <1>2
    <3> QED BY <3>1, <3>2
  <2>7. \A q \in modem', i \in 1 .. Len(fromModem') : q.mseq # fromModem'[i].aseq
    BY <2>1, <2>3, <2>4, <2>6 DEF ChannelInv, ReplyInv
  <2>8. \A i, j \in 1 .. Len(fromModem') :
            fromModem'[i].aseq = fromModem'[j].aseq => i = j
    BY <2>3, <2>4 DEF ChannelInv, ReplyInv
  <2>9. \A q \in modem' : messagesInAir'[q.mseq] = q.body
    BY <2>1, <2>2 DEF ChannelInv, ReplyInv
  <2> QED BY <2>2, <2>5, <2>7, <2>8, <2>9 DEF ChannelInv, ReplyInv
<1>10. ASSUME NEW m \in Messages, Submit(m) PROVE ReplyInv'
  <2>1. ASSUME Queues(m) \/ SendsEvent(m) \/ Breaks PROVE ReplyInv'
    BY <1>5, <2>1 DEF Queues, SendsEvent, Breaks
  <2> QED BY <1>6, <1>10, <2>1, SubmitEffects DEF ChannelInv
<1>11. ASSUME HandleMessage PROVE ReplyInv'
  BY <1>7, <1>8, <1>11, HandleMessageEffects DEF ChannelInv
<1>12. ~Stray /\ ~GarbledAnswer
  BY DEF Stray, GarbledAnswer
<1> QED BY <1>9, <1>10, <1>11, <1>12 DEF Next

LEMMA NextChannelInv ==
    ASSUME ~FaultyModem, ChannelInv, [Next]_vars
    PROVE  ChannelInv'
<1>1. TableInv' /\ OwnerInv'
  BY NextTableInv, NextOwnerInv DEF ChannelInv
<1>2. CASE UNCHANGED vars
  BY <1>1, <1>2 DEF ChannelInv, ReplyInv, vars, handlerVars
<1>3. CASE Next
  BY <1>1, <1>3, NextReplyInv DEF ChannelInv
<1> QED BY <1>2, <1>3

\* complete() is called with the reply to the request it is called on, for
\* every number of messages and of sequence numbers, when the modem answers
\* each request once.
THEOREM RepliesAreCorrect == Spec => []CorrectReply
<1>1. CASE FaultyModem
  <2>1. CorrectReply
    BY <1>1 DEF CorrectReply
  <2> QED BY <2>1, PTL
<1>2. CASE ~FaultyModem
  <2>1. ChannelInv => CorrectReply
    BY DEF ChannelInv, ReplyInv, CorrectReply
  <2>2. Init => ChannelInv
    BY InitTableInv, InitOwnerInv, InitReplyInv DEF ChannelInv
  <2>3. ChannelInv /\ [Next]_vars => ChannelInv'
    BY <1>2, NextChannelInv
  <2> QED BY <2>1, <2>2, <2>3, PTL DEF Spec
<1> QED BY <1>1, <1>2, ConstantsAssumption

\* submit() and handleMessage() implement the request channel when the modem
\* answers each request once: a step that completes a request completes it
\* with its own reply, and every other step accepts one request or none.
THEOREM ChannelImplemented == ~FaultyModem => (Spec => ImplementsChannel)
<1> SUFFICES ASSUME ~FaultyModem PROVE Spec => ImplementsChannel
  OBVIOUS
<1>1. Init => Channel!ChannelInit
  BY DEF Init, Channel!ChannelInit
<1>2. ChannelInv /\ [Next]_vars => [Channel!ChannelNext]_(Channel!channelVars)
  <2> SUFFICES ASSUME ChannelInv, Next
               PROVE  Channel!ChannelNext \/ UNCHANGED << live, lastDone >>
    BY DEF vars, handlerVars, Channel!channelVars
  <2>1. ASSUME NEW m \in Messages, Submit(m)
        PROVE  Channel!Accept(m) \/ UNCHANGED << live, lastDone >>
    BY <2>1, SubmitEffects
       DEF ChannelInv, Queues, Sends, SendsEvent, Breaks, Channel!Accept
  <2>2. ASSUME NEW f \in Frames, Completes(f)
        PROVE  \E m \in Messages : Channel!Complete(m)
    <3> DEFINE m == messagesInAir[f.aseq]
    <3>1. f.aseq \in SequenceNumbers /\ m \in Messages /\ m \in live
      BY <2>2 DEF Completes, Frames, ChannelInv, TableInv, TypeOK, OwnerInv
    <3>2. f = fromModem[1] /\ 1 \in 1 .. Len(fromModem)
      BY <2>2, TailFacts DEF Completes, ChannelInv, TableInv, TypeOK
    <3>3. f.body = m
      BY <3>2 DEF ChannelInv, ReplyInv
    <3>4. Channel!Complete(m)
      BY <2>2, <3>1, <3>3 DEF Completes, Channel!Complete
    <3> QED BY <3>1, <3>4
  <2>3. ASSUME HandleMessage
        PROVE  (\E m \in Messages : Channel!Complete(m)) \/ UNCHANGED << live, lastDone >>
    BY <2>2, <2>3, HandleMessageEffects DEF ChannelInv, handlerVars
  <2>4. ASSUME (\E m \in Messages : Answer(m)) \/ Stray \/ GarbledAnswer
        PROVE  UNCHANGED << live, lastDone >>
    BY <2>4, ModemEffects DEF handlerVars
  <2> QED BY <2>1, <2>3, <2>4 DEF Next, Channel!ChannelNext
<1>3. Init => ChannelInv
  BY InitTableInv, InitOwnerInv, InitReplyInv DEF ChannelInv
<1>4. ChannelInv /\ [Next]_vars => ChannelInv'
  BY NextChannelInv
<1> QED BY <1>1, <1>2, <1>3, <1>4, PTL
        DEF Spec, ImplementsChannel, Channel!ChannelSpec
=============================================================================
