-------------------------- MODULE WorkerLoop_proofs --------------------------
(***************************************************************************)
(* Theorems about Reassembly and WorkerLoop, for any header size, buffer   *)
(* size and message lengths.                                               *)
(*                                                                         *)
(* The properties of the reassembly are proved together: that a message is *)
(* cut out at its start rests on the buffer's beginning at the end of the  *)
(* last one delivered, on what has been received having been sent, and on  *)
(* the ends of the messages being in order (Inv); that recv() is given     *)
(* room rests on the realloc that every readable() ends with.  The worker's*)
(* loop takes only steps of the reassembly, so that what is proved of it   *)
(* carries over to the loop.                                               *)
(***************************************************************************)
EXTENDS WorkerLoop, TLAPS

Types ==
    /\ ends \in Seq(Nat) /\ delivered \in Seq(Nat)
    /\ received \in Nat /\ used \in Nat /\ bufSize \in Nat /\ used <= bufSize
    /\ pc \in {"recv", "loop", "panic"} /\ closed \in BOOLEAN
    /\ Len(ends) <= MaxMessages

\* Messages follow one another and none is shorter than a header.
EndsInOrder ==
    /\ \A i \in 1 .. Len(ends) : LengthOf(i) \in Nat /\ LengthOf(i) >= HeaderSize
    /\ \A i, j \in 1 .. Len(ends) : i < j => ends[i] < ends[j]

Inv ==
    /\ Types
    /\ EndsInOrder
    /\ received <= Sent
    /\ DeliveredInOrder
    /\ NothingHeldBack
    /\ pc = "recv" => bufSize - used = IOBufSize
    /\ PanicOnlyAtEnd

Delivered == Len(delivered)
-----------------------------------------------------------------------------
LEMMA EndsAreNat ==
    ASSUME Types
    PROVE  /\ Len(ends) \in Nat /\ Len(delivered) \in Nat
           /\ \A i \in 0 .. Len(ends) : EndOf(i) \in Nat
           /\ Sent \in Nat
<1>1. Len(ends) \in Nat /\ Len(delivered) \in Nat /\ \A i \in 1 .. Len(ends) : ends[i] \in Nat
  BY DEF Types
<1>2. \A i \in 0 .. Len(ends) : EndOf(i) \in Nat
  BY <1>1 DEF EndOf
<1> QED BY <1>1, <1>2 DEF Sent

\* Different messages start at different offsets.
LEMMA StartsDiffer ==
    ASSUME Types, EndsInOrder, NEW i \in 1 .. Len(ends), NEW j \in 1 .. Len(ends),
           EndOf(i - 1) = EndOf(j - 1)
    PROVE  i = j
<1>1. Len(ends) \in Nat /\ \A k \in 1 .. Len(ends) : ends[k] \in Nat
  BY DEF Types
<1>2. ends[1] > 0
  BY <1>1, ConstantsAssumption DEF EndsInOrder, LengthOf, EndOf
<1>3. \A k \in 1 .. Len(ends) : ends[k] > 0
  BY <1>1, <1>2 DEF EndsInOrder
<1>4. CASE i - 1 \in 1 .. Len(ends) /\ j - 1 \in 1 .. Len(ends)
  BY <1>1, <1>4 DEF EndsInOrder, EndOf
<1>5. CASE i = 1 \/ j = 1
  BY <1>1, <1>3, <1>5 DEF EndOf
<1> QED BY <1>1, <1>4, <1>5

\* The header at the start of a message gives that message's length.
LEMMA SizeOfMessage ==
    ASSUME Types, EndsInOrder, NEW i \in 1 .. Len(ends)
    PROVE  MessageSizeAt(EndOf(i - 1)) = LengthOf(i)
<1> DEFINE k == CHOOSE j \in DOMAIN ends : EndOf(j - 1) = EndOf(i - 1)
<1>1. DOMAIN ends = 1 .. Len(ends)
  BY DEF Types
<1>2. k \in 1 .. Len(ends) /\ EndOf(k - 1) = EndOf(i - 1)
  BY <1>1
<1> HIDE DEF k
<1>3. k = i
  BY <1>2, StartsDiffer
<1> QED BY <1>1, <1>3 DEF MessageSizeAt, k

\* A whole message in the buffer is the next one of the stream.
LEMMA NextMessage ==
    ASSUME Inv, Delivered < Len(ends)
    PROVE  /\ MessageSizeAt(Start) = LengthOf(Delivered + 1)
           /\ LengthOf(Delivered + 1) \in Nat /\ LengthOf(Delivered + 1) >= HeaderSize
           /\ EndOf(Delivered + 1) = Start + LengthOf(Delivered + 1)
           /\ Start \in Nat
<1>1. Types /\ EndsInOrder /\ Start = EndOf(Delivered) /\ Delivered <= Len(ends)
  BY DEF Inv, DeliveredInOrder, Delivered
<1>2. Len(ends) \in Nat /\ Delivered \in Nat /\ \A i \in 0 .. Len(ends) : EndOf(i) \in Nat
  BY <1>1, EndsAreNat DEF Delivered
<1>3. Delivered + 1 \in 1 .. Len(ends) /\ (Delivered + 1) - 1 = Delivered
  BY <1>2
<1>4. MessageSizeAt(Start) = LengthOf(Delivered + 1)
  BY <1>1, <1>3, SizeOfMessage
<1>5. LengthOf(Delivered + 1) = EndOf(Delivered + 1) - EndOf(Delivered)
  BY <1>2, <1>3 DEF LengthOf, EndOf
<1>6. LengthOf(Delivered + 1) \in Nat /\ LengthOf(Delivered + 1) >= HeaderSize
  BY <1>1, <1>3 DEF EndsInOrder
<1> QED BY <1>1, <1>2, <1>3, <1>4, <1>5, <1>6

LEMMA NothingToDeliver ==
    ASSUME Inv, Delivered = Len(ends)
    PROVE  used = 0 /\ received = Sent /\ ~HasMessage
<1>1. Types /\ Start = Sent /\ received <= Sent /\ Sent \in Nat
  BY EndsAreNat DEF Inv, DeliveredInOrder, Delivered, Sent
<1> QED BY <1>1, ConstantsAssumption DEF Types, Start, HasMessage
-----------------------------------------------------------------------------
(* Steps.                                                                  *)

LEMMA SendInv ==
    ASSUME Inv, NEW n \in Lengths, Send(n)
    PROVE  Inv'
<1>1. /\ Types /\ EndsInOrder /\ DeliveredInOrder /\ ends' = Append(ends, Sent + n)
      /\ UNCHANGED << received, used, bufSize, pc, delivered,
                      closed >> /\ Len(ends) < MaxMessages
  BY DEF Inv, Send
<1>2. n \in Nat /\ n >= HeaderSize /\ n > 0
  BY ConstantsAssumption
<1>3. PICK N \in Nat : N = Len(ends)
  BY <1>1, EndsAreNat
<1>4. PICK S \in Nat : S = Sent
  BY <1>1, EndsAreNat
<1>5. /\ ends' \in Seq(Nat) /\ Len(ends') = N + 1
      /\ \A i \in 1 .. N : ends'[i] = ends[i]
      /\ ends'[N + 1] = S + n
  BY <1>1, <1>2, <1>3, <1>4 DEF Types
<1>6. Types'
  BY <1>1, <1>3, <1>5, ConstantsAssumption DEF Types
<1>7. \A i \in 0 .. N : EndOf(i)' = EndOf(i) /\ EndOf(i) \in Nat
  <2>1. \A i \in 0 .. N : EndOf(i) \in Nat
    BY <1>1, <1>3, EndsAreNat
  <2> QED BY <1>5, <2>1 DEF EndOf
<1>8. EndOf(N) = S /\ EndOf(N + 1)' = S + n /\ Sent' = S + n
  BY <1>3, <1>4, <1>5 DEF EndOf, Sent
<1>9. \A i \in 1 .. N : LengthOf(i)' = LengthOf(i)
  BY <1>5, <1>7 DEF LengthOf
<1>10. LengthOf(N + 1)' = n
  <2>1. (N + 1) - 1 = N /\ EndOf(N)' = S
    BY <1>7, <1>8
  <2>2. LengthOf(N + 1)' = (S + n) - S
    BY <1>5, <2>1 DEF LengthOf
  <2> QED BY <1>2, <2>2
<1>11. EndsInOrder'
  <2>1. \A i \in 1 .. N + 1 : LengthOf(i)' \in Nat /\ LengthOf(i)' >= HeaderSize
    BY <1>1, <1>2, <1>3, <1>9, <1>10 DEF EndsInOrder
  <2>2. \A i \in 1 .. N : ends[i] <= S
    BY <1>1, <1>3, <1>8 DEF EndsInOrder, EndOf, Types
  <2>3. ASSUME NEW i \in 1 .. N + 1, NEW j \in 1 .. N + 1, i < j
        PROVE  ends'[i] < ends'[j]
    <3>1. i \in 1 .. N /\ ends[i] \in Nat
      BY <1>1, <1>3, <2>3 DEF Types
    <3>2. CASE j \in 1 .. N
      BY <1>1, <1>3, <1>5, <2>3, <3>1, <3>2 DEF EndsInOrder
    <3>3. CASE j = N + 1
      BY <1>2, <1>5, <2>2, <3>1, <3>3
    <3> QED BY <3>2, <3>3
  <2> QED BY <1>5, <2>1, <2>3 DEF EndsInOrder
<1>12. Delivered \in 0 .. N /\ DOMAIN delivered = 1 .. Delivered
  BY <1>1, <1>3 DEF DeliveredInOrder, Delivered, Types
<1>13. DeliveredInOrder'
  <2>1. EndOf(Len(delivered))' = EndOf(Len(delivered))
    BY <1>1, <1>7, <1>12 DEF Delivered, EndOf
  <2>2. \A i \in DOMAIN delivered : delivered[i] = LengthOf(i)'
    BY <1>1, <1>9, <1>12 DEF DeliveredInOrder
  <2> QED BY <1>1, <1>3, <1>5, <1>12, <2>1, <2>2 DEF DeliveredInOrder, Start, Delivered
<1>14. received' <= Sent'
  BY <1>1, <1>2, <1>4, <1>8 DEF Inv, Types
<1>15. NothingHeldBack'
  <2>1. CASE Delivered = N
    <3>1. received = S
      BY <1>3, <1>4, <2>1, NothingToDeliver
    <3>2. EndOf(Delivered + 1)' = S + n
      BY <1>1, <1>8, <2>1 DEF Delivered, EndOf
    <3> QED BY <1>1, <1>2, <3>1, <3>2 DEF NothingHeldBack, Delivered
  <2>2. CASE Delivered < N
    <3>1. Delivered + 1 \in 0 .. N
      BY <1>12, <2>2
    <3>2. EndOf(Delivered + 1)' = EndOf(Delivered + 1)
      BY <1>1, <1>7, <3>1 DEF Delivered, EndOf
    <3> QED BY <1>1, <1>3, <2>2, <3>2 DEF Inv, NothingHeldBack, Delivered
  <2> QED BY <1>12, <2>1, <2>2
<1> QED BY <1>1, <1>6, <1>11, <1>13, <1>14, <1>15 DEF Inv, PanicOnlyAtEnd

LEMMA RecvInv ==
    ASSUME Inv, NEW n \in 1 .. bufSize, Recv(n)
    PROVE  Inv'
<1>1. Types /\ Sent \in Nat
  BY EndsAreNat DEF Inv
<1>2. /\ n <= Sent - received /\ n <= bufSize - used
      /\ received' = received + n /\ used' = used + n /\ pc' = "loop"
      /\ UNCHANGED << ends, bufSize, delivered, closed >>
  BY DEF Recv
<1>3. Types' /\ Start' = Start /\ Sent' = Sent
  BY <1>1, <1>2 DEF Types, Start, Sent, EndOf
<1>4. EndsInOrder' /\ DeliveredInOrder'
  BY <1>2, <1>3 DEF Inv, EndsInOrder, DeliveredInOrder, LengthOf, EndOf
<1>5. received' <= Sent'
  BY <1>1, <1>2, <1>3 DEF Types
<1> QED BY <1>2, <1>3, <1>4, <1>5 DEF Inv, NothingHeldBack, PanicOnlyAtEnd

LEMMA DeliverInv ==
    ASSUME Inv, Deliver
    PROVE  Inv'
<1> DEFINE size == LengthOf(Delivered + 1)
<1>1. Types /\ Delivered <= Len(ends) /\ Len(ends) \in Nat /\ Delivered \in Nat
  BY EndsAreNat DEF Inv, DeliveredInOrder, Delivered
<1>2. Delivered < Len(ends)
  BY <1>1, NothingToDeliver DEF Deliver
<1>3. /\ MessageSizeAt(Start) = size /\ size \in Nat /\ size >= HeaderSize
      /\ EndOf(Delivered + 1) = Start + size /\ Start \in Nat
  BY <1>2, NextMessage
<1>4. /\ pc = "loop" /\ used >= size /\ delivered' = Append(delivered, size)
      /\ used' = used - size
      /\ UNCHANGED << ends, received, bufSize, pc, closed >>
  BY <1>3 DEF Deliver, HasMessage
<1> HIDE DEF size
<1>5. /\ delivered' \in Seq(Nat) /\ Len(delivered') = Delivered + 1
      /\ DOMAIN delivered' = 1 .. Delivered + 1 /\ DOMAIN delivered = 1 .. Delivered
      /\ \A i \in 1 .. Delivered : delivered'[i] = delivered[i]
      /\ delivered'[Delivered + 1] = size
  BY <1>1, <1>3, <1>4 DEF Types, Delivered
<1>6. Types'
  BY <1>1, <1>3, <1>4, <1>5 DEF Types
<1>7. Start' = Start + size
  BY <1>1, <1>3, <1>4 DEF Types, Start
<1>8. \A i : LengthOf(i)' = LengthOf(i) /\ EndOf(i)' = EndOf(i)
  BY <1>4 DEF LengthOf, EndOf
<1>9. \A i \in DOMAIN delivered' : delivered'[i] = LengthOf(i)
  <2>1. ASSUME NEW i \in 1 .. Delivered
        PROVE  delivered'[i] = LengthOf(i)
    BY <1>5 DEF Inv, DeliveredInOrder
  <2>2. delivered'[Delivered + 1] = LengthOf(Delivered + 1)
    BY <1>5 DEF size
  <2> QED BY <1>1, <1>5, <2>1, <2>2
<1>10. DeliveredInOrder'
  BY <1>1, <1>2, <1>3, <1>4, <1>5, <1>7, <1>8, <1>9 DEF DeliveredInOrder
<1>11. EndsInOrder' /\ Sent' = Sent
  BY <1>4 DEF Inv, EndsInOrder, LengthOf, EndOf, Sent
<1> QED BY <1>4, <1>6, <1>10, <1>11 DEF Inv, NothingHeldBack, PanicOnlyAtEnd

LEMMA LeaveLoopInv ==
    ASSUME Inv, LeaveLoop
    PROVE  Inv'
<1>1. Types /\ DeliveredInOrder /\ Len(ends) \in Nat /\ Delivered \in Nat /\ Delivered <= Len(ends)
  BY EndsAreNat DEF Inv, DeliveredInOrder, Delivered
<1>2. /\ ~HasMessage /\ bufSize' = NewBufSize /\ pc' = "recv"
      /\ UNCHANGED << ends, received, used, delivered, closed >>
  BY DEF LeaveLoop
<1>3. bufSize' \in Nat /\ bufSize' - used = IOBufSize
  BY <1>1, <1>2, ConstantsAssumption DEF NewBufSize, Types
<1>4. Types'
  BY <1>1, <1>2, <1>3, ConstantsAssumption DEF Types
<1>5. Delivered < Len(ends) => received < EndOf(Delivered + 1)
  <2> SUFFICES ASSUME Delivered < Len(ends)
               PROVE  received < EndOf(Delivered + 1)
    OBVIOUS
  <2>1. /\ MessageSizeAt(Start) = LengthOf(Delivered + 1)
        /\ LengthOf(Delivered + 1) \in Nat /\ LengthOf(Delivered + 1) >= HeaderSize
        /\ EndOf(Delivered + 1) = Start + LengthOf(Delivered + 1)
    BY NextMessage
  <2>2. used < LengthOf(Delivered + 1)
    BY <1>1, <1>2, <2>1, ConstantsAssumption DEF HasMessage, Types
  <2> QED BY <1>1, <2>1, <2>2 DEF Start, Types
<1>6. NothingHeldBack'
  BY <1>2, <1>5 DEF NothingHeldBack, EndOf, Delivered
<1>7. EndsInOrder' /\ DeliveredInOrder' /\ Sent' = Sent
  BY <1>2 DEF Inv, EndsInOrder, DeliveredInOrder, LengthOf, EndOf, Sent, Start
<1> QED BY <1>2, <1>3, <1>4, <1>6, <1>7 DEF Inv, PanicOnlyAtEnd

\* recv() has room whenever it is called, so a result of 0 means the end.
LEMMA RecvNothingInv ==
    ASSUME Inv, RecvNothing
    PROVE  Inv'
<1>1. pc = "recv" /\ pc' = "panic" /\ UNCHANGED << ends, received, used, bufSize, delivered,
                                                   closed >>
  BY DEF RecvNothing
<1>2. Types /\ bufSize - used = IOBufSize
  BY <1>1 DEF Inv
<1>3. bufSize # used
  BY <1>2, ConstantsAssumption DEF Types
<1>4. closed
  BY <1>3 DEF RecvNothing
<1>5. Types'
  BY <1>1, <1>2 DEF Types
<1>6. EndsInOrder' /\ DeliveredInOrder' /\ Sent' = Sent
  BY <1>1 DEF Inv, EndsInOrder, DeliveredInOrder, LengthOf, EndOf, Sent, Start
<1> QED BY <1>1, <1>4, <1>5, <1>6 DEF Inv, NothingHeldBack, PanicOnlyAtEnd

LEMMA CloseInv ==
    ASSUME Inv, Close
    PROVE  Inv'
<1>1. closed' = TRUE /\ UNCHANGED << ends, received, used, bufSize, pc, delivered >>
  BY DEF Close
<1>2. Types'
  BY <1>1 DEF Inv, Types
<1>3. /\ EndsInOrder' /\ DeliveredInOrder' /\ NothingHeldBack' /\ Sent' = Sent
      /\ PanicOnlyAtEnd'
  BY <1>1 DEF Inv, EndsInOrder, DeliveredInOrder, NothingHeldBack, LengthOf, EndOf, Sent, Start,
              PanicOnlyAtEnd
<1> QED BY <1>1, <1>2, <1>3 DEF Inv
-----------------------------------------------------------------------------
LEMMA InitInv == Init => Inv
<1> SUFFICES ASSUME Init PROVE Inv
  OBVIOUS
<1>1. Types
  <2>1. closed \in BOOLEAN
    BY Zenon DEF Init
  <2> QED BY <2>1, ConstantsAssumption DEF Init, Types
<1>2. Len(ends) = 0 /\ Len(delivered) = 0 /\ DOMAIN delivered = {}
  BY DEF Init
<1>3. EndsInOrder /\ Sent = 0
  BY <1>2 DEF EndsInOrder, Sent, EndOf
<1>4. DeliveredInOrder
  BY <1>2 DEF Init, DeliveredInOrder, EndOf, Start
<1> QED BY <1>1, <1>2, <1>3, <1>4, ConstantsAssumption
        DEF Inv, Init, NothingHeldBack, PanicOnlyAtEnd

LEMMA StepInv ==
    ASSUME Inv, [Next]_vars
    PROVE  Inv'
<1>1. CASE Next
  BY <1>1, SendInv, CloseInv, RecvInv, RecvNothingInv, DeliverInv, LeaveLoopInv DEF Next
<1>2. CASE UNCHANGED vars
  BY <1>2 DEF vars, Inv, Types, EndsInOrder, DeliveredInOrder, NothingHeldBack, PanicOnlyAtEnd,
              LengthOf, EndOf, Sent, Start
<1> QED BY <1>1, <1>2

\* In every behaviour of SocketHandler::readable() and its peer.
THEOREM Reassembles == Spec => []Inv
BY InitInv, StepInv, PTL DEF Spec

\* The buffer is never used beyond its size, however long the messages are.
THEOREM TypeCorrect == Spec => []TypeOK
<1>1. Inv => TypeOK
  BY DEF Inv, Types, TypeOK
<1> QED BY <1>1, Reassembles, PTL

\* Every step of the worker is a step of the reassembly, or leaves it alone:
\* the loop implements the reassembly.
THEOREM LoopReassembles == SpecLoop => Spec
<1>1. InitLoop => Init
  BY DEF InitLoop
<1>2. [NextLoop]_allVars => [Next]_vars
  <2> SUFFICES ASSUME [NextLoop]_allVars PROVE [Next]_vars
    OBVIOUS
  <2>1. CASE \/ InitializeStep \/ Submit \/ OtherPeerSends \/ PassIpc \/ ReadableRfs \/ ReadPipe
             \/ \E d \in foreign : RildCloses(d)
    BY <2>1 DEF InitializeStep, Submit, OtherPeerSends, PassIpc, ReadableRfs, ReadPipe,
       RildCloses
  <2>2. CASE \/ Select({}) \/ \E d \in 0 .. Highest : Select({d})
    BY <2>2 DEF Select
  <2>3. CASE PeerCloses \/ \E n \in Lengths : PeerSends(n)
    BY <2>3 DEF PeerCloses, PeerSends, Next
  <2>4. CASE ReadableIpc
    BY <2>4 DEF ReadableIpc, Next
  <2>5. CASE UNCHANGED allVars
    BY <2>5 DEF allVars
  <2> QED BY <2>1, <2>2, <2>3, <2>4, <2>5 DEF NextLoop
<1> QED BY <1>1, <1>2, PTL DEF Spec, SpecLoop

\* The messages handled are the messages sent, in order and unchanged, however
\* recv() cuts the stream and whatever else the worker serves.
THEOREM InOrder == SpecLoop => []DeliveredInOrder
<1>1. Inv => DeliveredInOrder
  BY DEF Inv
<1> QED BY <1>1, Reassembles, LoopReassembles, PTL

\* When the worker goes back to select() no whole message waits in its buffer.
THEOREM NoneHeldBack == SpecLoop => []NothingHeldBack
<1>1. Inv => NothingHeldBack
  BY DEF Inv
<1> QED BY <1>1, Reassembles, LoopReassembles, PTL

\* handleEOF's panic means that the peer has closed the stream.
THEOREM PanicMeansEnd == SpecLoop => []PanicOnlyAtEnd
<1>1. Inv => PanicOnlyAtEnd
  BY DEF Inv
<1> QED BY <1>1, Reassembles, LoopReassembles, PTL
=============================================================================
