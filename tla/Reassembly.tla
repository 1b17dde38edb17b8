----------------------------- MODULE Reassembly -----------------------------
(***************************************************************************)
(* libsamsung-ipc/SocketHandler.cpp: IPC and RFS messages are cut out of   *)
(* a byte stream.  A message starts with a header of HeaderSize bytes that *)
(* holds its length, header included.                                      *)
(*                                                                         *)
(* Bytes are counted, not kept: what matters is at which offset of the     *)
(* stream the reassembly buffer begins.  Each pass of the loop is a step.  *)
(***************************************************************************)
EXTENDS Integers, Sequences

CONSTANTS
    HeaderSize,   \* headerSize(): 7 for IPC, 6 for RFS
    IOBufSize,    \* room that each recv() is given: 4096
    Lengths,      \* lengths that the peer's messages have
    MaxMessages   \* bound on the messages of a behaviour

ASSUME ConstantsAssumption ==
    /\ HeaderSize \in Nat \ {0}
    /\ IOBufSize \in Nat \ {0}
    /\ Lengths \subseteq {n \in Nat : n >= HeaderSize}
    /\ MaxMessages \in Nat

VARIABLES
    ends,        \* the stream: the offset at which each message ends
    received,    \* bytes taken from the socket so far
    used,        \* m_reassemblyBufUsed
    bufSize,     \* m_reassemblyBufSize
    pc,          \* in readable(): "recv", "loop"; "panic" after end of stream
    delivered,   \* lengths given to handleReassembledMessage, in order
    closed       \* the peer has closed the stream

vars == << ends, received, used, bufSize, pc, delivered, closed >>

-----------------------------------------------------------------------------
EndOf(i) == IF i = 0 THEN 0 ELSE ends[i]
LengthOf(i) == ends[i] - EndOf(i - 1)

Sent == EndOf(Len(ends))

\* messageSize() of the header at offset o of the stream; bytes that are no
\* header read as the shortest message.
MessageSizeAt(o) ==
    IF \E i \in DOMAIN ends : EndOf(i - 1) = o
    THEN LengthOf(CHOOSE i \in DOMAIN ends : EndOf(i - 1) = o)
    ELSE HeaderSize

\* The stream offset of m_reassemblyBuf[0].
Start == received - used

TypeOK ==
    /\ ends \in Seq(Nat) /\ Len(ends) <= MaxMessages
    /\ received \in Nat
    /\ used \in 0 .. bufSize
    /\ bufSize \in Nat
    /\ pc \in {"recv", "loop", "panic"}
    /\ delivered \in Seq(Nat)
    /\ closed \in BOOLEAN

Init ==
    /\ ends = << >>
    /\ received = 0
    /\ used = 0
    /\ bufSize = IOBufSize
    /\ pc = "recv"
    /\ delivered = << >>
    /\ closed = FALSE

\* The peer (external) sends a message, or closes.
Send(n) ==
    /\ ~closed
    /\ Len(ends) < MaxMessages
    /\ ends' = Append(ends, Sent + n)
    /\ UNCHANGED << received, used, bufSize, pc, delivered, closed >>

Close ==
    /\ ~closed
    /\ closed' = TRUE
    /\ UNCHANGED << ends, received, used, bufSize, pc, delivered >>

\* readable() up to its loop: recv() returns some of what has arrived.
Recv(n) ==
    /\ pc = "recv"
    /\ n <= Sent - received
    /\ n <= bufSize - used
    /\ received' = received + n
    /\ used' = used + n
    /\ pc' = "loop"
    /\ UNCHANGED << ends, bufSize, delivered, closed >>

\* recv() returns 0, at the end of the stream or because it was given no room:
\* handleEOF panics.
RecvNothing ==
    /\ pc = "recv"
    /\ \/ closed /\ received = Sent
       \/ bufSize = used /\ received < Sent
    /\ pc' = "panic"
    /\ UNCHANGED << ends, received, used, bufSize, delivered, closed >>

\* The conditions of the loop.
HasMessage == used >= HeaderSize /\ used >= MessageSizeAt(Start)

\* As a bug would have it: what follows the message is thrown away.
DeliverDropsRest ==
    /\ pc = "loop"
    /\ HasMessage
    /\ delivered' = Append(delivered, MessageSizeAt(Start))
    /\ used' = 0
    /\ UNCHANGED << ends, received, bufSize, pc, closed >>

\* One pass: the message is handled and the rest of the buffer moved down.  The
\* code moves it with memcpy, whose behaviour is undefined when the rest is longer
\* than the message, for then the two regions overlap; the move is taken to be
\* right, as it is where memcpy copies upwards.
Deliver ==
    /\ pc = "loop"
    /\ HasMessage
    /\ delivered' = Append(delivered, MessageSizeAt(Start))
    /\ used' = used - MessageSizeAt(Start)
    /\ UNCHANGED << ends, received, bufSize, pc, closed >>

\* As bugs would have it: the buffer never grows; readable() handles one
\* message per call.
NewBufSizeFixed == bufSize

LeaveLoopAtOnce ==
    /\ pc = "loop"
    /\ bufSize' = used + IOBufSize
    /\ pc' = "recv"
    /\ UNCHANGED << ends, received, used, delivered, closed >>

\* m_reassemblyBufSize after the realloc that restores the room.
NewBufSize == IF bufSize - used # IOBufSize THEN used + IOBufSize ELSE bufSize

LeaveLoop ==
    /\ pc = "loop"
    /\ ~HasMessage
    /\ bufSize' = NewBufSize
    /\ pc' = "recv"
    /\ UNCHANGED << ends, received, used, delivered, closed >>

Next ==
    \/ \E n \in Lengths : Send(n)
    \/ Close
    \/ \E n \in 1 .. bufSize : Recv(n)
    \/ RecvNothing
    \/ Deliver
    \/ LeaveLoop

Spec == Init /\ [][Next]_vars

-----------------------------------------------------------------------------
\* However recv() cuts the stream, the messages handled are the messages sent,
\* in order and of their lengths, and the buffer always begins at the start of one.
DeliveredInOrder ==
    /\ Len(delivered) <= Len(ends)
    /\ \A i \in DOMAIN delivered : delivered[i] = LengthOf(i)
    /\ Start = EndOf(Len(delivered))

\* No whole message is left waiting in the buffer when the worker goes back to
\* select(), which would not report it.
NothingHeldBack ==
    pc = "recv" /\ Len(delivered) < Len(ends) => received < EndOf(Len(delivered) + 1)

\* recv() is never given an empty buffer, whose result of 0 would be taken for
\* the end of the stream: only a peer that closed can cause the panic.
PanicOnlyAtEnd == pc = "panic" => closed
=============================================================================
