--------------------------- MODULE RILCore_proofs ----------------------------
(***************************************************************************)
(* Theorems about RILCore, for any tokens, cache keys, pipe size and number*)
(* of notifications.                                                       *)
(*                                                                         *)
(* None of the properties is inductive alone.  The invariant Inv adds      *)
(*   PathInv   the message of a pending request is in exactly one place    *)
(*             (the thread, the pipe, the modem, a frame, the worker, the  *)
(*             reply), the thread waits for the one that execute() made,   *)
(*             and the mutex belongs to whoever is writing under it;       *)
(*   CacheInv  a value on its way, in the worker or in ExecutionData is out*)
(*             of date only if a change of it comes behind;                *)
(*   RadioInv  nothing is asked before the modem has come up, a change to  *)
(*             normal mode is followed by what turns the radio off if the  *)
(*             mode is low power, and afterwards, as long as the SIM state *)
(*             is not notified, no reply about it is to come.              *)
(* Each has one lemma per action; "Does" lemmas say once what an action    *)
(* does to the state.                                                      *)
(***************************************************************************)
EXTENDS RILCore, FiniteSetTheorems, SequenceTheorems, TLAPS

-----------------------------------------------------------------------------
(* Sequences: u is s without its k-th element; none or one of the elements *)
(* of s is in G.                                                           *)

IsRemoval(s, u, k) ==
    /\ Len(u) = Len(s) - 1
    /\ \A i \in 1 .. Len(u) : u[i] = IF i < k THEN s[i] ELSE s[i + 1]

In(s, x) == \E i \in 1 .. Len(s) : s[i] = x
None(s, G) == \A i \in 1 .. Len(s) : s[i] \notin G
One(s, G) == \E i \in 1 .. Len(s) :
                s[i] \in G /\ \A j \in 1 .. Len(s) : s[j] \in G => j = i

LEMMA TailRemoves ==
    ASSUME NEW S, NEW s \in Seq(S), s # << >>
    PROVE  /\ Tail(s) \in Seq(S) /\ IsRemoval(s, Tail(s), 1)
           /\ 1 \in 1 .. Len(s) /\ Head(s) = s[1] /\ Head(s) \in S
BY DEF IsRemoval

LEMMA RemoveAtRemoves ==
    ASSUME NEW S, NEW s \in Seq(S), NEW k \in 1 .. Len(s)
    PROVE  RemoveAt(s, k) \in Seq(S) /\ IsRemoval(s, RemoveAt(s, k), k)
<1> DEFINE a == SubSeq(s, 1, k - 1)
           b == SubSeq(s, k + 1, Len(s))
<1>1. Len(s) \in Nat /\ k \in Nat
  OBVIOUS
<1>2. /\ a \in Seq(S) /\ Len(a) = k - 1
      /\ \A i \in 1 .. k - 1 : a[i] = s[i]
  BY <1>1
<1>3. /\ b \in Seq(S) /\ Len(b) = Len(s) - k
      /\ \A i \in 1 .. Len(s) - k : b[i] = s[k + i]
  BY <1>1
<1> HIDE DEF a, b
<1>4. RemoveAt(s, k) = a \o b
  BY DEF RemoveAt, a, b
<1>5. /\ a \o b \in Seq(S) /\ Len(a \o b) = Len(a) + Len(b)
      /\ \A i \in 1 .. Len(a) + Len(b) :
           (a \o b)[i] = IF i <= Len(a) THEN a[i] ELSE b[i - Len(a)]
  BY <1>2, <1>3, ConcatProperties, Zenon
<1>6. Len(a) + Len(b) = Len(s) - 1
  BY <1>1, <1>2, <1>3
<1>7. ASSUME NEW i \in 1 .. Len(s) - 1
      PROVE  (a \o b)[i] = IF i < k THEN s[i] ELSE s[i + 1]
  <2>1. (a \o b)[i] = IF i <= k - 1 THEN a[i] ELSE b[i - (k - 1)]
    BY <1>2, <1>5, <1>6
  <2>2. CASE i < k
    BY <1>1, <1>2, <2>1, <2>2
  <2>3. CASE ~ (i < k)
    <3>1. i - (k - 1) \in 1 .. Len(s) - k /\ k + (i - (k - 1)) = i + 1
      BY <1>1, <2>3
    <3>2. b[i - (k - 1)] = s[i + 1]
      BY <1>3, <3>1
    <3> QED BY <1>1, <2>1, <2>3, <3>2
  <2> QED BY <2>2, <2>3
<1> QED BY <1>4, <1>5, <1>6, <1>7 DEF IsRemoval

LEMMA Removal ==
    ASSUME NEW S, NEW s \in Seq(S), NEW u \in Seq(S), NEW k \in 1 .. Len(s),
           IsRemoval(s, u, k), NEW G
    PROVE  /\ \A x : In(u, x) => In(s, x)
           /\ None(s, G) => None(u, G)
           /\ One(s, G) /\ s[k] \in G => None(u, G)
           /\ One(s, G) /\ s[k] \notin G => One(u, G)
<1>1. /\ Len(s) \in Nat /\ Len(u) = Len(s) - 1
      /\ \A i \in 1 .. Len(u) : u[i] = IF i < k THEN s[i] ELSE s[i + 1]
  BY DEF IsRemoval
<1>2. ASSUME NEW i \in 1 .. Len(u)
      PROVE  \E j \in (1 .. Len(s)) \ {k} : u[i] = s[j]
  <2>1. CASE i < k
    <3>1. i \in (1 .. Len(s)) \ {k} /\ u[i] = s[i]
      BY <1>1, <2>1
    <3> QED BY <3>1
  <2>2. CASE ~ (i < k)
    <3>1. i + 1 \in (1 .. Len(s)) \ {k} /\ u[i] = s[i + 1]
      BY <1>1, <2>2
    <3> QED BY <3>1
  <2> QED BY <2>1, <2>2
<1>3. \A x : In(u, x) => In(s, x)
  BY <1>2 DEF In
<1>4. None(s, G) => None(u, G)
  BY <1>2 DEF None
<1>5. One(s, G) /\ s[k] \in G => None(u, G)
  BY <1>2 DEF None, One
<1>6. ASSUME One(s, G), s[k] \notin G
      PROVE  One(u, G)
  <2>1. PICK i \in 1 .. Len(s) : s[i] \in G /\ \A j \in 1 .. Len(s) : s[j] \in G => j = i
    BY <1>6 DEF One
  <2>2. CASE i < k
    <3>1. i \in 1 .. Len(u) /\ u[i] = s[i]
      BY <1>1, <2>2
    <3>2. ASSUME NEW j \in 1 .. Len(u), u[j] \in G
          PROVE  j = i
      <4>1. CASE j < k
        BY <1>1, <2>1, <3>2, <4>1
      <4>2. CASE ~ (j < k)
        <5>1. j + 1 \in 1 .. Len(s) /\ s[j + 1] \in G
          BY <1>1, <3>2, <4>2
        <5>2. j + 1 = i
          BY <2>1, <5>1
        <5> QED BY <2>2, <4>2, <5>2
      <4> QED BY <4>1, <4>2
    <3> QED BY <2>1, <3>1, <3>2 DEF One
  <2>3. CASE i > k
    <3>1. i - 1 \in 1 .. Len(u) /\ ~ (i - 1 < k) /\ (i - 1) + 1 = i
      BY <1>1, <2>3
    <3>2. u[i - 1] = s[i]
      BY <1>1, <3>1
    <3>3. ASSUME NEW j \in 1 .. Len(u), u[j] \in G
          PROVE  j = i - 1
      <4>1. CASE j < k
        <5>1. j \in 1 .. Len(s) /\ s[j] \in G
          BY <1>1, <3>3, <4>1
        <5>2. j = i
          BY <2>1, <5>1
        <5> QED BY <2>3, <4>1, <5>2
      <4>2. CASE ~ (j < k)
        <5>1. j + 1 \in 1 .. Len(s) /\ s[j + 1] \in G
          BY <1>1, <3>3, <4>2
        <5>2. j + 1 = i
          BY <2>1, <5>1
        <5> QED BY <5>2
      <4> QED BY <4>1, <4>2
    <3> QED BY <2>1, <3>1, <3>2, <3>3 DEF One
  <2>4. i # k
    BY <1>6, <2>1
  <2> QED BY <2>2, <2>3, <2>4
<1> QED BY <1>3, <1>4, <1>5, <1>6

LEMMA Appending ==
    ASSUME NEW S, NEW s \in Seq(S), NEW x \in S, NEW G
    PROVE  /\ Append(s, x) \in Seq(S)
           /\ \A y : In(Append(s, x), y) => In(s, y) \/ y = x
           /\ None(s, G) /\ x \notin G => None(Append(s, x), G)
           /\ None(s, G) /\ x \in G => One(Append(s, x), G)
           /\ One(s, G) /\ x \notin G => One(Append(s, x), G)
<1>1. /\ Append(s, x) \in Seq(S) /\ Len(s) \in Nat
      /\ Len(Append(s, x)) = Len(s) + 1
      /\ \A i \in 1 .. Len(s) : Append(s, x)[i] = s[i]
      /\ Append(s, x)[Len(s) + 1] = x
  OBVIOUS
<1>2. \A i \in 1 .. Len(s) + 1 : i \in 1 .. Len(s) \/ i = Len(s) + 1
  BY <1>1
<1>3. 1 .. Len(s) \subseteq 1 .. Len(s) + 1 /\ Len(s) + 1 \in 1 .. Len(s) + 1
  BY <1>1
<1>4. \A y : In(Append(s, x), y) => In(s, y) \/ y = x
  BY <1>1, <1>2 DEF In
<1>5. None(s, G) /\ x \notin G => None(Append(s, x), G)
  BY <1>1, <1>2 DEF None
<1>6. None(s, G) /\ x \in G => One(Append(s, x), G)
  BY <1>1, <1>2, <1>3 DEF None, One
<1>7. One(s, G) /\ x \notin G => One(Append(s, x), G)
  BY <1>1, <1>2, <1>3 DEF One
<1> QED BY <1>1, <1>4, <1>5, <1>6, <1>7

-----------------------------------------------------------------------------
(* Messages and frames. *)

\* A message belongs to a request exactly if it asks what a handler asks, and
\* one that reads or sets a value says which.
WellFormed(m) ==
    /\ m.token \in Tokens <=> m.op \in ExecutedOps \cup CallbackOps
    /\ m.op \in {"query", "set"} => m.key \in Keys

\* A notification carries no message of ours.
FrameOK(f) ==
    /\ WellFormed(f.to)
    /\ f.type = "RESP" <=> f.to.op # "event"
    /\ f.type = "VALUE" => f.to.key \in Keys

GoodMessages == {m \in Messages : WellFormed(m)}
GoodFrames == {f \in Frames : FrameOK(f)}

Types ==
    /\ TypeOK
    /\ pipe \in Seq(GoodMessages)
    /\ received \in Seq(GoodMessages)
    /\ \A i \in 1 .. Len(received) : received[i].op # "event"
    /\ sent \in Seq(GoodFrames)
    /\ thread.message \in GoodMessages
    /\ worker.frame \in GoodFrames
    /\ worker.message \in GoodMessages
    /\ reply \in GoodFrames
    /\ worker.pc = "write" => worker.message.token = NoToken

LEMMA NoMessageOK == NoMessage \in GoodMessages /\ NoFrame \in GoodFrames
<1>1. NoMessage \in Messages /\ NoMessage.op = "event" /\ NoMessage.token = NoToken
  BY DEF NoMessage, Messages, Ops
<1>2. WellFormed(NoMessage)
  BY <1>1, ConstantsAssumption DEF WellFormed, ExecutedOps, CallbackOps
<1>3. /\ NoFrame \in Frames /\ NoFrame.to = NoMessage /\ NoFrame.type = "BOOT"
  BY <1>1 DEF NoFrame, Frame, Frames, FrameTypes, PinStates
<1> QED BY <1>1, <1>2, <1>3 DEF GoodMessages, GoodFrames, FrameOK

\* What a handler asks.
LEMMA AskedOK ==
    ASSUME NEW t \in Tokens, NEW kind, NEW key \in KeysOf(kind)
    PROVE  /\ [op |-> OpOf(kind), token |-> t, key |-> key] \in GoodMessages
           /\ OpOf(kind) \in ExecutedOps \cup CallbackOps
           /\ OpOf(kind) = "pin" => kind = "simStatus"
<1>1. /\ OpOf(kind) \in ExecutedOps \cup CallbackOps
      /\ OpOf(kind) = "pin" => kind = "simStatus"
      /\ OpOf(kind) \in {"query", "set"} => kind \in {"cached", "set"}
  BY DEF OpOf, ExecutedOps, CallbackOps
<1>2. key \in Keys \cup {NoKey} /\ (kind \in {"cached", "set"} => key \in Keys)
  BY DEF KeysOf, Keys
<1>3. ExecutedOps \cup CallbackOps \subseteq Ops
  BY DEF ExecutedOps, CallbackOps, Ops
<1> DEFINE m == [op |-> OpOf(kind), token |-> t, key |-> key]
<1>4. m \in Messages /\ m.op = OpOf(kind) /\ m.token = t /\ m.key = key
  BY <1>1, <1>2, <1>3 DEF Messages
<1> HIDE DEF m
<1>5. WellFormed(m)
  BY <1>1, <1>2, <1>4 DEF WellFormed
<1>6. m \in GoodMessages
  BY <1>4, <1>5 DEF GoodMessages
<1> QED BY <1>1, <1>6 DEF m

LEMMA InitTypes == Init => Types
<1> SUFFICES ASSUME Init PROVE Types
  OBVIOUS
<1>1. NoMessage \in Messages /\ NoFrame \in Frames
  BY NoMessageOK DEF GoodMessages, GoodFrames
<1>2. exited \in BOOLEAN /\ latePin \in BOOLEAN
  BY Zenon DEF Init
<1>3. /\ pipe \in Seq(Messages) /\ Len(pipe) <= PipeCapacity
      /\ received \in Seq(Messages) /\ sent \in Seq(Frames)
  BY ConstantsAssumption DEF Init
<1>4. thread \in [pc : {"idle", "asyncWrite", "syncWrite", "take", "relock"},
                  message : Messages]
  BY <1>1 DEF Init
<1>5. worker \in [pc : {"idle", "handle", "write"}, frame : Frames, message : Messages]
  BY <1>1 DEF Init
<1>6. /\ cache \in [Keys -> Int] /\ value \in [Keys -> Int]
      /\ tokens \in [Tokens -> {"free", "pending", "lost"}]
  BY DEF Init, Absent
<1>7. /\ mutex \in {"none", "request", "worker"} /\ semaphore \in Nat /\ reply \in Frames
      /\ radio \in RadioStates /\ mode \in {"off", "lpm", "normal"} /\ budget \in Nat
      /\ touched \in SUBSET Keys /\ overtaken \in SUBSET Keys
  BY <1>1, ConstantsAssumption DEF Init, RadioStates
<1>8. TypeOK
  BY <1>2, <1>3, <1>4, <1>5, <1>6, <1>7 DEF TypeOK
<1> QED BY <1>8, NoMessageOK DEF Init, Types

\* What HandleRequest can do.
LEMMA HandleRequestDoes ==
    ASSUME NEW t \in Tokens, NEW kind, NEW key \in KeysOf(kind), HandleRequest(t, kind, key)
    PROVE  /\ thread.pc = "idle" /\ mutex = "none" /\ tokens[t] = "free" /\ ~exited
           /\ UNCHANGED << semaphore, reply, radio, cache, pipe, worker, exited, touched,
                           overtaken, latePin, mode, value, received, sent, budget >>
           /\ \/ UNCHANGED << thread, mutex, tokens >>
              \/ /\ tokens' = [tokens EXCEPT ![t] = "lost"]
                 /\ UNCHANGED << thread, mutex >>
              \/ \E m \in GoodMessages :
                   /\ m.token = t
                   /\ m.op = "pin" => radio \notin {"UNAVAILABLE", "OFF"}
                   /\ radio # "UNAVAILABLE"
                   /\ tokens' = [tokens EXCEPT ![t] = "pending"]
                   /\ \/ /\ m.op \in ExecutedOps /\ mutex' = mutex
                         /\ thread' = [pc |-> "syncWrite", message |-> m]
                      \/ /\ m.op \in CallbackOps /\ mutex' = "request"
                         /\ thread' = [pc |-> "asyncWrite", message |-> m]
<1> DEFINE m == [op |-> OpOf(kind), token |-> t, key |-> key]
<1>1. /\ thread.pc = "idle" /\ mutex = "none" /\ tokens[t] = "free" /\ ~exited
      /\ UNCHANGED << semaphore, reply, radio, cache, pipe, worker, exited, touched,
                      overtaken, latePin, mode, value, received, sent, budget >>
  BY DEF HandleRequest, modemVars
<1>2. \/ UNCHANGED << thread, mutex, tokens >>
      \/ /\ tokens' = [tokens EXCEPT ![t] = "lost"]
         /\ UNCHANGED << thread, mutex >>
      \/ /\ ~CompletesAtOnce(kind, key)
         /\ \/ m.op \in ExecutedOps /\ BeginExecute(t, m)
            \/ m.op \in CallbackOps /\ BeginSubmit(t, m)
  BY DEF HandleRequest
<1>3. m \in GoodMessages /\ m.token = t /\ (m.op = "pin" => kind = "simStatus")
  BY AskedOK
<1>4. ~CompletesAtOnce(kind, key) =>
        /\ radio # "UNAVAILABLE"
        /\ kind = "simStatus" => radio \notin {"UNAVAILABLE", "OFF"}
  BY DEF CompletesAtOnce, RefusedByRadio, NeedsRadio
<1> HIDE DEF m
<1> QED BY <1>1, <1>2, <1>3, <1>4 DEF BeginExecute, BeginSubmit

LEMMA HandleRequestTypes ==
    ASSUME Types, NEW t \in Tokens, NEW kind, NEW key \in KeysOf(kind),
           HandleRequest(t, kind, key)
    PROVE  Types'
<1>1. UNCHANGED << semaphore, reply, radio, cache, pipe, worker, exited, touched,
                   overtaken, latePin, mode, value, received, sent, budget >>
  BY HandleRequestDoes
<1> DEFINE ThreadOK ==
             /\ tokens \in [Tokens -> {"free", "pending", "lost"}]
             /\ mutex \in {"none", "request", "worker"}
             /\ thread \in [pc : {"idle", "asyncWrite", "syncWrite", "take", "relock"},
                            message : Messages]
             /\ thread.message \in GoodMessages
<1>2. ThreadOK
  BY DEF Types, TypeOK
<1>3. CASE UNCHANGED << thread, mutex, tokens >>
  BY <1>1, <1>3 DEF Types, TypeOK
<1>4. CASE tokens' = [tokens EXCEPT ![t] = "lost"] /\ UNCHANGED << thread, mutex >>
  <2>1. ThreadOK'
    BY <1>2, <1>4
  <2> HIDE DEF ThreadOK
  <2> QED BY <1>1, <2>1 DEF Types, TypeOK, ThreadOK
<1>5. ASSUME NEW m \in GoodMessages, tokens' = [tokens EXCEPT ![t] = "pending"],
             \/ mutex' = mutex /\ thread' = [pc |-> "syncWrite", message |-> m]
             \/ mutex' = "request" /\ thread' = [pc |-> "asyncWrite", message |-> m]
      PROVE  Types'
  <2>1. m \in Messages
    BY DEF GoodMessages
  <2>2. ThreadOK'
    BY <1>2, <1>5, <2>1
  <2> HIDE DEF ThreadOK
  <2> QED BY <1>1, <2>2 DEF Types, TypeOK, ThreadOK
<1> HIDE DEF ThreadOK
<1> QED BY <1>3, <1>4, <1>5, HandleRequestDoes

LEMMA WriteTypes ==
    ASSUME Types, AsyncWrite \/ SyncWrite
    PROVE  Types'
<1>1. /\ thread.message \in GoodMessages /\ thread.message \in Messages
      /\ pipe \in Seq(GoodMessages) /\ pipe \in Seq(Messages)
      /\ Len(pipe) < PipeCapacity /\ PipeCapacity \in Nat
  BY ConstantsAssumption DEF Types, TypeOK, AsyncWrite, SyncWrite
<1>2. pipe' = Append(pipe, thread.message)
  BY DEF AsyncWrite, SyncWrite
<1>3. pipe' \in Seq(GoodMessages) /\ pipe' \in Seq(Messages) /\ Len(pipe') <= PipeCapacity
  BY <1>1, <1>2
<1>4. /\ mutex' \in {"none", "request", "worker"}
      /\ thread' \in [pc : {"idle", "asyncWrite", "syncWrite", "take", "relock"},
                       message : Messages]
      /\ thread'.message \in GoodMessages
  BY <1>1, NoMessageOK DEF AsyncWrite, SyncWrite, Idle, GoodMessages, Types, TypeOK
<1>5. UNCHANGED << semaphore, reply, radio, cache, worker, tokens, exited, touched,
                   overtaken, latePin, mode, value, received, sent, budget >>
  BY DEF AsyncWrite, SyncWrite, modemVars
<1> QED BY <1>3, <1>4, <1>5 DEF Types, TypeOK

LEMMA TakeTypes ==
    ASSUME Types, Take
    PROVE  Types'
<1>1. UNCHANGED << mutex, reply, radio, cache, pipe, worker, tokens, exited, touched,
                   overtaken, latePin, mode, value, received, sent, budget >>
  BY DEF Take, modemVars
<1>2. semaphore' \in Nat
  BY DEF Take, Types, TypeOK
<1>3. /\ thread' \in [pc : {"idle", "asyncWrite", "syncWrite", "take", "relock"},
                       message : Messages]
      /\ thread'.message \in GoodMessages
  BY DEF Take, Types, TypeOK, GoodMessages
<1> QED BY <1>1, <1>2, <1>3 DEF Types, TypeOK

LEMMA ResumeTypes ==
    ASSUME Types, Resume
    PROVE  Types'
<1> DEFINE m == thread.message
<1>1. UNCHANGED << mutex, semaphore, pipe, worker, exited, latePin, mode, value, received,
                   sent, budget >>
  BY DEF Resume, modemVars
<1>2. /\ thread' = Idle /\ reply' = NoFrame /\ touched' = {}
      /\ tokens' = [tokens EXCEPT ![m.token] = "free"]
      /\ ApplyReply(m, reply)
      /\ overtaken' \in {overtaken, overtaken \cup {m.key}, overtaken \ {m.key}}
      /\ overtaken' # overtaken => m.op = "query"
  BY DEF Resume
<1>3. /\ m \in GoodMessages /\ reply \in Frames /\ overtaken \in SUBSET Keys
      /\ cache \in [Keys -> Int] /\ radio \in RadioStates
      /\ tokens \in [Tokens -> {"free", "pending", "lost"}]
  BY DEF Types, TypeOK
<1>4. m.op = "query" => m.key \in Keys
  BY <1>3 DEF GoodMessages, WellFormed
<1>5. reply.version \in Int /\ RadioStateOf(reply.pin) \in RadioStates
  BY <1>3 DEF Frames, RadioStateOf, RadioStates
<1> HIDE DEF m
<1>6. cache' \in [Keys -> Int] /\ radio' \in RadioStates
  BY <1>2, <1>3, <1>4, <1>5 DEF ApplyReply, RadioStates
<1>7. overtaken' \in SUBSET Keys /\ touched' \in SUBSET Keys
  BY <1>2, <1>3, <1>4
<1>8. tokens' \in [Tokens -> {"free", "pending", "lost"}]
  BY <1>2, <1>3
<1>9. /\ thread' \in [pc : {"idle", "asyncWrite", "syncWrite", "take", "relock"},
                       message : Messages]
      /\ thread'.message \in GoodMessages /\ reply' \in GoodFrames /\ reply' \in Frames
  BY <1>2, NoMessageOK DEF Idle, GoodMessages, GoodFrames
<1> QED BY <1>1, <1>6, <1>7, <1>8, <1>9 DEF Types, TypeOK

\* What the worker does with the frame it reads.
LEMMA ReadFrameDoes ==
    ASSUME Types, ReadFrame
    PROVE  \E f \in GoodFrames :
             /\ ~exited /\ worker.pc = "idle"
             /\ 1 \in 1 .. Len(sent) /\ f = sent[1] /\ IsRemoval(sent, sent', 1)
             /\ sent' \in Seq(GoodFrames)
             /\ UNCHANGED << mutex, thread, radio, cache, pipe, tokens, overtaken, latePin,
                             mode, value, received, budget >>
             /\ \/ /\ f.type = "RESP" /\ f.to.op \in ExecutedOps
                   /\ reply' = f /\ semaphore' = semaphore + 1 /\ touched' = {}
                   /\ UNCHANGED << worker, exited >>
                \/ /\ f.type = "RESP" => f.to.op = "refresh"
                   /\ f.type \in {"RESP", "RESET"}
                   /\ exited' \in BOOLEAN
                   /\ UNCHANGED << worker, reply, semaphore, touched >>
                \/ /\ f.type # "RESET"
                   /\ f.type = "RESP" => f.to.op \in CallbackOps \cup {"refresh"}
                   /\ worker' = [pc |-> "handle", frame |-> f, message |-> NoMessage]
                   /\ UNCHANGED << reply, semaphore, touched, exited >>
<1> DEFINE f == Head(sent)
<1>1. sent \in Seq(GoodFrames) /\ exited \in BOOLEAN
  BY DEF Types, TypeOK
<1>2. /\ ~exited /\ worker.pc = "idle" /\ sent # << >> /\ sent' = Tail(sent)
      /\ UNCHANGED << mutex, thread, radio, cache, pipe, tokens, overtaken, latePin,
                      mode, value, received, budget >>
  BY DEF ReadFrame
<1>3. /\ f \in GoodFrames /\ 1 \in 1 .. Len(sent) /\ f = sent[1]
      /\ IsRemoval(sent, sent', 1) /\ sent' \in Seq(GoodFrames)
  BY <1>1, <1>2, TailRemoves
<1>4. \/ f.type = "RESP" /\ f.to.op \in ExecutedOps /\ OnExecutionComplete(f)
      \/ /\ f.type = "RESP" /\ f.to.op = "refresh"
         /\ UNCHANGED << worker, reply, semaphore, touched, exited >>
      \/ /\ f.type = "RESET" /\ exited' = TRUE
         /\ UNCHANGED << worker, reply, semaphore, touched >>
      \/ /\ \/ f.type \notin {"RESP", "RESET"}
            \/ f.type = "RESP" /\ f.to.op \in CallbackOps \cup {"refresh"}
         /\ worker' = [pc |-> "handle", frame |-> f, message |-> NoMessage]
         /\ UNCHANGED << reply, semaphore, touched, exited >>
  BY DEF ReadFrame
<1> HIDE DEF f
<1>5. CASE f.type = "RESP" /\ f.to.op \in ExecutedOps /\ OnExecutionComplete(f)
  BY <1>2, <1>3, <1>5 DEF OnExecutionComplete
<1>6. CASE /\ f.type = "RESP" /\ f.to.op = "refresh"
           /\ UNCHANGED << worker, reply, semaphore, touched, exited >>
  <2>1. exited' \in BOOLEAN
    BY <1>1, <1>6
  <2> QED BY <1>2, <1>3, <1>6, <2>1
<1>7. CASE /\ f.type = "RESET" /\ exited' = TRUE
           /\ UNCHANGED << worker, reply, semaphore, touched >>
  <2>1. exited' \in BOOLEAN
    BY <1>7
  <2> QED BY <1>2, <1>3, <1>7, <2>1
<1>8. CASE /\ \/ f.type \notin {"RESP", "RESET"}
              \/ f.type = "RESP" /\ f.to.op \in CallbackOps \cup {"refresh"}
           /\ worker' = [pc |-> "handle", frame |-> f, message |-> NoMessage]
           /\ UNCHANGED << reply, semaphore, touched, exited >>
  BY <1>2, <1>3, <1>8
<1> QED BY <1>4, <1>5, <1>6, <1>7, <1>8

LEMMA GoodFrameSeq ==
    ASSUME NEW s \in Seq(GoodFrames)
    PROVE  s \in Seq(Frames)
BY DEF GoodFrames

LEMMA GoodMessageSeq ==
    ASSUME NEW s \in Seq(GoodMessages)
    PROVE  s \in Seq(Messages)
BY DEF GoodMessages

LEMMA ReadFrameTypes ==
    ASSUME Types, ReadFrame
    PROVE  Types'
<1>1. PICK f \in GoodFrames :
             /\ worker.pc = "idle"
             /\ sent' \in Seq(GoodFrames)
             /\ UNCHANGED << mutex, thread, radio, cache, pipe, tokens, overtaken, latePin,
                             mode, value, received, budget >>
             /\ \/ /\ reply' = f /\ semaphore' = semaphore + 1 /\ touched' = {}
                   /\ UNCHANGED << worker, exited >>
                \/ /\ exited' \in BOOLEAN
                   /\ UNCHANGED << worker, reply, semaphore, touched >>
                \/ /\ worker' = [pc |-> "handle", frame |-> f, message |-> NoMessage]
                   /\ UNCHANGED << reply, semaphore, touched, exited >>
  BY ReadFrameDoes
<1>2. /\ reply \in GoodFrames /\ semaphore \in Nat /\ touched \in SUBSET Keys
      /\ exited \in BOOLEAN
  BY DEF Types, TypeOK
<1>3. exited' \in BOOLEAN
  BY <1>1, <1>2
<1>4. reply' \in GoodFrames /\ semaphore' \in Nat /\ touched' \in SUBSET Keys
  BY <1>1, <1>2
<1>5. /\ worker' \in [pc : {"idle", "handle", "write"}, frame : Frames, message : Messages]
      /\ worker'.frame \in GoodFrames /\ worker'.message \in GoodMessages
      /\ worker'.pc # "write"
  BY <1>1, NoMessageOK DEF GoodFrames, GoodMessages, Types, TypeOK
<1>6. reply' \in Frames /\ sent' \in Seq(Frames)
  BY <1>1, <1>4, GoodFrameSeq DEF GoodFrames
<1>7. UNCHANGED << mutex, thread, radio, cache, pipe, tokens, overtaken, latePin, mode,
                   value, received, budget >> /\ sent' \in Seq(GoodFrames)
  BY <1>1
<1> QED BY <1>3, <1>4, <1>5, <1>6, <1>7 DEF Types, TypeOK

LEMMA WorkerIdleOK ==
    /\ WorkerIdle \in [pc : {"idle", "handle", "write"}, frame : Frames, message : Messages]
    /\ WorkerIdle.pc = "idle" /\ WorkerIdle.frame = NoFrame
    /\ WorkerIdle.message \in GoodMessages
BY NoMessageOK DEF WorkerIdle, GoodFrames, GoodMessages

\* What ChangeCache does to the host's types.
LEMMA ChangeCacheTypes ==
    ASSUME Types, NEW ks \in SUBSET Keys, NEW newest \in Int, ChangeCache(ks, newest)
    PROVE  /\ cache' \in [Keys -> Int] /\ touched' \in SUBSET Keys
           /\ overtaken' \in SUBSET Keys
BY DEF Types, TypeOK, ChangeCache

LEMMA HandleFrameTypes ==
    ASSUME Types, HandleFrame
    PROVE  Types'
<1> DEFINE f == worker.frame
           CacheOK == /\ cache \in [Keys -> Int] /\ touched \in SUBSET Keys
                      /\ overtaken \in SUBSET Keys
           RestOK == /\ tokens \in [Tokens -> {"free", "pending", "lost"}]
                     /\ radio \in RadioStates /\ latePin \in BOOLEAN
                     /\ mutex \in {"none", "request", "worker"}
           WorkerOK == /\ worker \in [pc : {"idle", "handle", "write"}, frame : Frames,
                                       message : Messages]
                       /\ worker.frame \in GoodFrames /\ worker.message \in GoodMessages
                       /\ worker.pc = "write" => worker.message.token = NoToken
<1>1. UNCHANGED << thread, semaphore, reply, pipe, exited, mode, value, received, sent,
                   budget >>
  BY DEF HandleFrame, modemVars
<1>2. CacheOK /\ RestOK /\ f \in GoodFrames /\ f \in Frames
  BY DEF Types, TypeOK, GoodFrames
<1>3. /\ f.to.op = "set" => f.to.key \in Keys
      /\ f.type = "VALUE" => f.to.key \in Keys
      /\ f.version \in Int /\ RadioStateOf(f.pin) \in RadioStates
  BY <1>2 DEF GoodFrames, FrameOK, WellFormed, Frames, RadioStateOf, RadioStates
<1>4. Absent \in Int
  BY DEF Absent
<1>5. worker' = WorkerIdle => WorkerOK'
  BY WorkerIdleOK, NoMessageOK
<1>6. ASSUME CacheOK', RestOK', WorkerOK'
      PROVE  Types'
  <2> HIDE DEF f
  <2> QED BY <1>1, <1>6 DEF Types, TypeOK
<1>7. CASE CallbackComplete(f)
  <2>1. CacheOK'
    BY <1>2, <1>3, <1>4, <1>7, ChangeCacheTypes DEF CallbackComplete
  <2>2. worker' = WorkerIdle
    BY <1>7 DEF CallbackComplete
  <2>3. UNCHANGED << mutex, radio, latePin >>
        /\ tokens' = [tokens EXCEPT ![f.to.token] = "free"]
    BY <1>7 DEF CallbackComplete
  <2>4. RestOK'
    <3> HIDE DEF f
    <3> QED BY <1>2, <2>3
  <2> QED BY <1>5, <1>6, <2>1, <2>2, <2>4
<1>8. CASE PinStatusReported(f)
  <2>1. CacheOK' /\ worker' = WorkerIdle
    BY <1>2, <1>8 DEF PinStatusReported
  <2>2. RestOK'
    BY <1>2, <1>3, <1>8 DEF PinStatusReported
  <2> QED BY <1>5, <1>6, <2>1, <2>2
<1>9. CASE BeginWorkerSubmit(f)
  <2>1. CacheOK' /\ RestOK'
    BY <1>2, <1>9 DEF BeginWorkerSubmit
  <2> DEFINE m == [op |-> IF f.type = "BOOT" THEN "event" ELSE "refresh",
                   token |-> NoToken, key |-> NoKey]
  <2>2. m \in Messages /\ m.op \in {"event", "refresh"} /\ m.token = NoToken
    BY DEF Messages, Ops
  <2>3. worker' = [pc |-> "write", frame |-> f, message |-> m]
    BY <1>9 DEF BeginWorkerSubmit
  <2> HIDE DEF m, f
  <2>4. m \in GoodMessages
    BY <2>2, ConstantsAssumption DEF GoodMessages, WellFormed, ExecutedOps, CallbackOps
  <2>5. WorkerOK'
    BY <1>2, <2>2, <2>3, <2>4
  <2> QED BY <1>6, <2>1, <2>5
<1>10. CASE LowPowerMode(f)
  <2>1. CacheOK'
    BY <1>4, <1>10, ChangeCacheTypes DEF LowPowerMode
  <2>2. latePin' \in BOOLEAN
    BY <1>10, Zenon DEF LowPowerMode, PinOutstanding
  <2>3. radio' = "OFF" /\ worker' = WorkerIdle /\ UNCHANGED << mutex, tokens >>
    BY <1>10 DEF LowPowerMode
  <2>4. RestOK'
    BY <1>2, <2>2, <2>3 DEF RadioStates
  <2> QED BY <1>5, <1>6, <2>1, <2>3, <2>4
<1>11. CASE ValueNotified(f)
  <2>1. CacheOK'
    BY <1>3, <1>11, ChangeCacheTypes DEF ValueNotified
  <2>2. RestOK' /\ worker' = WorkerIdle
    BY <1>2, <1>11 DEF ValueNotified
  <2> QED BY <1>5, <1>6, <2>1, <2>2
<1> QED BY <1>7, <1>8, <1>9, <1>10, <1>11 DEF HandleFrame

LEMMA WorkerWriteTypes ==
    ASSUME Types, WorkerWrite
    PROVE  Types'
<1>1. /\ worker.message \in GoodMessages /\ worker.message \in Messages
      /\ pipe \in Seq(GoodMessages) /\ pipe \in Seq(Messages)
      /\ Len(pipe) < PipeCapacity /\ PipeCapacity \in Nat
  BY ConstantsAssumption DEF Types, TypeOK, WorkerWrite
<1>2. /\ pipe' = Append(pipe, worker.message) /\ worker' = WorkerIdle /\ mutex' = "none"
      /\ radio' \in {"OFF", radio}
      /\ UNCHANGED << thread, semaphore, reply, cache, tokens, exited, touched,
                      overtaken, latePin, mode, value, received, sent, budget >>
  BY DEF WorkerWrite, modemVars
<1>3. pipe' \in Seq(GoodMessages) /\ pipe' \in Seq(Messages) /\ Len(pipe') <= PipeCapacity
  BY <1>1, <1>2
<1>4. /\ worker' \in [pc : {"idle", "handle", "write"}, frame : Frames, message : Messages]
      /\ worker'.frame \in GoodFrames /\ worker'.message \in GoodMessages
      /\ worker'.pc # "write"
  BY <1>2, WorkerIdleOK, NoMessageOK
<1>5. radio' \in RadioStates /\ mutex' \in {"none", "request", "worker"}
  BY <1>2 DEF Types, TypeOK, RadioStates
<1> QED BY <1>2, <1>3, <1>4, <1>5 DEF Types, TypeOK

\* The message that the worker takes from the pipe.
LEMMA DispatchControlDoes ==
    ASSUME Types, DispatchControl
    PROVE  \E m \in GoodMessages :
             /\ 1 \in 1 .. Len(pipe) /\ m = pipe[1] /\ IsRemoval(pipe, pipe', 1)
             /\ pipe' \in Seq(GoodMessages) /\ worker.pc = "idle" /\ ~exited
             /\ received' = IF m.op = "event" THEN received ELSE Append(received, m)
             /\ UNCHANGED << mutex, thread, semaphore, reply, radio, cache, worker, tokens,
                             exited, touched, overtaken, latePin, mode, value, sent, budget >>
<1>1. pipe \in Seq(GoodMessages)
  BY DEF Types
<1>2. /\ pipe # << >> /\ pipe' = Tail(pipe) /\ worker.pc = "idle" /\ ~exited
      /\ received' = IF Head(pipe).op = "event" THEN received ELSE Append(received, Head(pipe))
      /\ UNCHANGED << mutex, thread, semaphore, reply, radio, cache, worker, tokens,
                      exited, touched, overtaken, latePin, mode, value, sent, budget >>
  BY DEF DispatchControl
<1>3. /\ 1 \in 1 .. Len(pipe) /\ Head(pipe) = pipe[1] /\ Head(pipe) \in GoodMessages
      /\ IsRemoval(pipe, pipe', 1) /\ pipe' \in Seq(GoodMessages)
  BY <1>1, <1>2, TailRemoves
<1> QED BY <1>2, <1>3

LEMMA DispatchControlTypes ==
    ASSUME Types, DispatchControl
    PROVE  Types'
<1>1. PICK m \in GoodMessages :
        /\ IsRemoval(pipe, pipe', 1) /\ pipe' \in Seq(GoodMessages)
        /\ received' = IF m.op = "event" THEN received ELSE Append(received, m)
        /\ UNCHANGED << mutex, thread, semaphore, reply, radio, cache, worker, tokens,
                        exited, touched, overtaken, latePin, mode, value, sent, budget >>
  BY DispatchControlDoes
<1>2. /\ received \in Seq(GoodMessages) /\ pipe \in Seq(GoodMessages)
      /\ \A i \in 1 .. Len(received) : received[i].op # "event"
      /\ Len(pipe) <= PipeCapacity /\ PipeCapacity \in Nat
  BY ConstantsAssumption DEF Types, TypeOK
<1>3. received' \in Seq(GoodMessages)
  BY <1>1, <1>2
<1>4. \A i \in 1 .. Len(received') : received'[i].op # "event"
  BY <1>1, <1>2
<1>5. Len(pipe') <= PipeCapacity
  BY <1>1, <1>2 DEF IsRemoval
<1>6. pipe' \in Seq(Messages) /\ received' \in Seq(Messages)
  BY <1>1, <1>3, GoodMessageSeq
<1>7. /\ pipe' \in Seq(GoodMessages)
      /\ UNCHANGED << mutex, thread, semaphore, reply, radio, cache, worker, tokens,
                      exited, touched, overtaken, latePin, mode, value, sent, budget >>
  BY <1>1
<1> QED BY <1>3, <1>4, <1>5, <1>6, <1>7 DEF Types, TypeOK

\* The modem's answer.
LEMMA AnswerDoes ==
    ASSUME Types, NEW i \in DOMAIN received, Answer(i)
    PROVE  \E f \in GoodFrames :
             /\ i \in 1 .. Len(received) /\ IsRemoval(received, received', i)
             /\ received' \in Seq(GoodMessages)
             /\ f.to = received[i] /\ f.type = "RESP" /\ sent' = Append(sent, f)
             /\ f.to.op = "query" => f.version = value[f.to.key]
             /\ value' \in [Keys -> Int] /\ budget' \in Nat
             /\ \A k \in Keys : value'[k] # value[k] => f.to.op = "set" /\ f.to.key = k
             /\ UNCHANGED << mutex, thread, semaphore, reply, radio, cache, pipe, worker,
                             tokens, exited, touched, overtaken, latePin, mode >>
<1>1. /\ received \in Seq(GoodMessages) /\ i \in 1 .. Len(received)
      /\ received[i] \in GoodMessages /\ received[i].op # "event"
      /\ value \in [Keys -> Int] /\ budget \in Nat
  BY DEF Types, TypeOK
<1>2. PICK m \in GoodMessages : m = received[i]
  BY <1>1
<1>3. m \in Messages /\ WellFormed(m) /\ m.op # "event"
  BY <1>1, <1>2 DEF GoodMessages
<1>4. IsRemoval(received, received', i) /\ received' \in Seq(GoodMessages)
  BY <1>1, RemoveAtRemoves DEF Answer
<1>5. PICK ok \in BOOLEAN, pin \in PinStates :
        sent' = Append(sent, Frame("RESP", m, ok, pin,
                                   IF m.op = "query" THEN value[m.key] ELSE 0))
  <2>1. {"Ready"} \subseteq PinStates /\ {TRUE} \subseteq BOOLEAN
    BY DEF PinStates
  <2> QED BY <1>2, <2>1 DEF Answer
<1> DEFINE v == IF m.op = "query" THEN value[m.key] ELSE 0
           f == Frame("RESP", m, ok, pin, v)
<1>6. v \in Int /\ (m.op = "query" => v = value[m.key])
  BY <1>1, <1>3 DEF WellFormed
<1> HIDE DEF v
<1>7. f \in Frames /\ f.to = m /\ f.type = "RESP" /\ f.version = v
  BY <1>3, <1>6 DEF Frames, Frame, FrameTypes
<1>8. sent' = Append(sent, f)
  BY <1>5 DEF v
<1> HIDE DEF f
<1>9. f \in GoodFrames
  BY <1>3, <1>7 DEF GoodFrames, FrameOK
<1>10. \/ UNCHANGED << value, budget >>
       \/ /\ m.op = "set" /\ budget > 0 /\ budget' = budget - 1
          /\ value' = [value EXCEPT ![m.key] = @ + 1]
  BY <1>2 DEF Answer
<1>11. m.op = "set" => m.key \in Keys
  BY <1>3 DEF WellFormed
<1>12. /\ value' \in [Keys -> Int] /\ budget' \in Nat
       /\ \A k \in Keys : value'[k] # value[k] => m.op = "set" /\ m.key = k
  BY <1>1, <1>10, <1>11
<1>13. UNCHANGED << mutex, thread, semaphore, reply, radio, cache, pipe, worker, tokens,
                    exited, touched, overtaken, latePin, mode >>
  BY DEF Answer, hostVars
<1> QED BY <1>1, <1>2, <1>4, <1>6, <1>7, <1>8, <1>9, <1>12, <1>13

LEMMA AnswerTypes ==
    ASSUME Types, NEW i \in DOMAIN received, Answer(i)
    PROVE  Types'
<1>1. PICK f \in GoodFrames :
        /\ i \in 1 .. Len(received) /\ IsRemoval(received, received', i)
        /\ received' \in Seq(GoodMessages) /\ sent' = Append(sent, f)
        /\ value' \in [Keys -> Int] /\ budget' \in Nat
        /\ UNCHANGED << mutex, thread, semaphore, reply, radio, cache, pipe, worker,
                        tokens, exited, touched, overtaken, latePin, mode >>
  BY AnswerDoes
<1>2. /\ received \in Seq(GoodMessages) /\ sent \in Seq(GoodFrames)
      /\ \A j \in 1 .. Len(received) : received[j].op # "event"
  BY DEF Types
<1>3. sent' \in Seq(GoodFrames)
  BY <1>1, <1>2
<1>4. \A j \in 1 .. Len(received') : received'[j].op # "event"
  BY <1>1, <1>2 DEF IsRemoval
<1>5. sent' \in Seq(Frames) /\ received' \in Seq(Messages)
  BY <1>1, <1>3, GoodFrameSeq, GoodMessageSeq
<1>6. /\ received' \in Seq(GoodMessages) /\ value' \in [Keys -> Int] /\ budget' \in Nat
      /\ UNCHANGED << mutex, thread, semaphore, reply, radio, cache, pipe, worker, tokens,
                      exited, touched, overtaken, latePin, mode >>
  BY <1>1
<1> QED BY <1>3, <1>4, <1>5, <1>6 DEF Types, TypeOK

\* The modem's notifications.
NotifyStep ==
    \/ \E type \in {"BOOT", "NORMAL", "LPM", "RESET"} : Notify(type, NoKey, "Ready")
    \/ \E key \in NotifiedKeys : Notify("VALUE", key, "Ready")
    \/ \E pin \in PinStates : Notify("PIN", NoKey, pin)

LEMMA NotifyDoes ==
    ASSUME Types, NotifyStep
    PROVE  \E f \in GoodFrames :
             /\ f.type # "RESP" /\ sent' = Append(sent, f)
             /\ value' \in [Keys -> Int] /\ budget' \in Nat
             /\ f.type = "BOOT" <=> mode = "off"
             /\ mode' = IF f.type \in {"BOOT", "LPM"} THEN "lpm"
                        ELSE IF f.type = "NORMAL" THEN "normal" ELSE mode
             /\ f.type = "VALUE" => f.version = value'[f.to.key]
             /\ \A k \in Keys : value'[k] # value[k] =>
                    f.type = "LPM" \/ (f.type = "VALUE" /\ f.to.key = k)
             /\ UNCHANGED << mutex, thread, semaphore, reply, radio, cache, pipe, worker,
                             tokens, exited, touched, overtaken, latePin, received >>
<1>1. PICK type \in FrameTypes \ {"RESP"}, key \in Keys \cup {NoKey}, pin \in PinStates :
        Notify(type, key, pin) /\ (type = "VALUE" => key \in Keys)
  BY DEF NotifyStep, FrameTypes, Keys, PinStates
<1>2. value \in [Keys -> Int] /\ budget \in Nat
  BY DEF Types, TypeOK
<1>3. /\ budget > 0 /\ budget' = budget - 1
      /\ type = "BOOT" <=> mode = "off"
      /\ mode' = IF type \in {"BOOT", "LPM"} THEN "lpm"
                 ELSE IF type = "NORMAL" THEN "normal" ELSE mode
      /\ value' = CASE type = "LPM"   -> [k \in Keys |-> value[k] + 1]
                    [] type = "VALUE" -> [value EXCEPT ![key] = @ + 1]
                    [] OTHER          -> value
      /\ UNCHANGED << mutex, thread, semaphore, reply, radio, cache, pipe, worker,
                      tokens, exited, touched, overtaken, latePin, received >>
  BY <1>1 DEF Notify, hostVars
<1>4. /\ value' \in [Keys -> Int] /\ budget' \in Nat
      /\ \A k \in Keys : value'[k] # value[k] => type = "LPM" \/ (type = "VALUE" /\ key = k)
  <2>1. budget' \in Nat
    BY <1>2, <1>3
  <2>2. CASE type = "LPM"
    <3>1. value' = [k \in Keys |-> value[k] + 1]
      BY <1>3, <2>2
    <3>2. \A k \in Keys : value[k] + 1 \in Int
      BY <1>2
    <3>3. value' \in [Keys -> Int]
      BY <3>1, <3>2
    <3> QED BY <2>1, <2>2, <3>3
  <2>3. CASE type = "VALUE"
    <3>1. value' = [value EXCEPT ![key] = @ + 1] /\ key \in Keys
      BY <1>1, <1>3, <2>3
    <3> QED BY <1>2, <2>1, <2>3, <3>1
  <2>4. CASE type \notin {"LPM", "VALUE"}
    <3>1. value' = value
      BY <1>3, <2>4
    <3> QED BY <1>2, <2>1, <3>1
  <2> QED BY <2>2, <2>3, <2>4
<1> DEFINE m == [NoMessage EXCEPT !.key = key]
<1>5. m = [op |-> "event", token |-> NoToken, key |-> key]
  BY DEF NoMessage
<1> HIDE DEF m
<1>6. m \in GoodMessages /\ m.op = "event" /\ m.key = key
  BY <1>1, <1>5, ConstantsAssumption
     DEF GoodMessages, Messages, Ops, WellFormed, ExecutedOps, CallbackOps
<1>7. PICK v \in Int : /\ sent' = Append(sent, Frame(type, m, TRUE, pin, v))
                       /\ type = "VALUE" => v = value'[key]
  <2> DEFINE w == IF type = "VALUE" THEN value'[key] ELSE 0
  <2>1. w \in Int
    BY <1>1, <1>4
  <2>2. sent' = Append(sent, Frame(type, m, TRUE, pin, w))
    BY <1>1 DEF Notify, m
  <2> QED BY <2>1, <2>2
<1>8. PICK b \in BOOLEAN : b = TRUE
  OBVIOUS
<1> DEFINE f == Frame(type, m, b, pin, v)
<1>9. f \in Frames /\ f.to = m /\ f.type = type /\ f.version = v
  BY <1>1, <1>6 DEF Frames, Frame, GoodMessages
<1>10. sent' = Append(sent, f)
  BY <1>7, <1>8
<1> HIDE DEF f
<1>11. f \in GoodFrames
  BY <1>1, <1>6, <1>9 DEF GoodFrames, GoodMessages, FrameOK
<1> QED BY <1>1, <1>3, <1>4, <1>6, <1>7, <1>9, <1>10, <1>11

LEMMA NotifyTypes ==
    ASSUME Types, NotifyStep
    PROVE  Types'
<1>1. PICK f \in GoodFrames :
        /\ sent' = Append(sent, f) /\ value' \in [Keys -> Int] /\ budget' \in Nat
        /\ mode' \in {"lpm", "normal", mode}
        /\ UNCHANGED << mutex, thread, semaphore, reply, radio, cache, pipe, worker,
                        tokens, exited, touched, overtaken, latePin, received >>
  BY NotifyDoes
<1>2. sent \in Seq(GoodFrames) /\ mode \in {"off", "lpm", "normal"}
  BY DEF Types, TypeOK
<1>3. sent' \in Seq(GoodFrames) /\ mode' \in {"off", "lpm", "normal"}
  BY <1>1, <1>2
<1>4. sent' \in Seq(Frames)
  BY <1>3, GoodFrameSeq
<1>5. /\ value' \in [Keys -> Int] /\ budget' \in Nat
      /\ UNCHANGED << mutex, thread, semaphore, reply, radio, cache, pipe, worker,
                      tokens, exited, touched, overtaken, latePin, received >>
  BY <1>1
<1> QED BY <1>3, <1>4, <1>5 DEF Types, TypeOK

\* The steps, each named by its action.
LEMMA Steps ==
    ASSUME [Next]_vars
    PROVE  \/ \E t \in Tokens, kind \in Kinds : \E key \in KeysOf(kind) :
                 HandleRequest(t, kind, key)
           \/ AsyncWrite \/ SyncWrite \/ Take \/ Resume
           \/ ReadFrame \/ HandleFrame \/ WorkerWrite \/ DispatchControl
           \/ \E i \in DOMAIN received : Answer(i)
           \/ NotifyStep
           \/ UNCHANGED << mutex, thread, semaphore, reply, radio, cache, pipe, worker,
                           tokens, exited, touched, overtaken, latePin, mode, value,
                           received, sent, budget >>
BY DEF Next, NotifyStep, vars, hostVars, modemVars

LEMMA NextTypes ==
    ASSUME Types, [Next]_vars
    PROVE  Types'
<1>1. CASE UNCHANGED << mutex, thread, semaphore, reply, radio, cache, pipe, worker,
                        tokens, exited, touched, overtaken, latePin, mode, value,
                           received, sent, budget >>
  BY <1>1 DEF Types, TypeOK
<1> QED BY <1>1, Steps, HandleRequestTypes, WriteTypes, TakeTypes, ResumeTypes,
           ReadFrameTypes, HandleFrameTypes, WorkerWriteTypes, DispatchControlTypes,
           AnswerTypes, NotifyTypes

-----------------------------------------------------------------------------
(* Where the message of a request is.                                      *)

\* The messages and the frames of request t.
MessagesOf(t) == {m \in GoodMessages : m.token = t}
FramesOf(t) == {f \in GoodFrames : f.to.token = t}

\* The thread is about to write t's message, or has the reply to it.
Writing(t) == thread.pc \in {"asyncWrite", "syncWrite"} /\ thread.message.token = t
Returned(t) ==
    thread.pc \in {"take", "relock"} /\ reply # NoFrame /\ thread.message.token = t

\* The worker is about to run the callback of t.
Handling(t) == worker.pc = "handle" /\ worker.frame.to.token = t

Homes == {"none", "thread", "pipe", "received", "sent", "worker", "reply"}

\* p is the one place where t's message is.
HomeIs(t, p) ==
    /\ p = "thread" <=> Writing(t)
    /\ IF p = "pipe" THEN One(pipe, MessagesOf(t)) ELSE None(pipe, MessagesOf(t))
    /\ IF p = "received" THEN One(received, MessagesOf(t)) ELSE None(received, MessagesOf(t))
    /\ IF p = "sent" THEN One(sent, FramesOf(t)) ELSE None(sent, FramesOf(t))
    /\ p = "worker" <=> Handling(t)
    /\ p = "reply" <=> Returned(t)

\* A request has a message, and only one, as long as it is pending.
OneHome ==
    \A t \in Tokens : \E p \in Homes : HomeIs(t, p) /\ (tokens[t] = "pending" <=> p # "none")

\* A message is on its way to the modem or back.
InFlight(m) ==
    \/ In(pipe, m)
    \/ In(received, m)
    \/ \E f \in GoodFrames : In(sent, f) /\ f.to = m
    \/ worker.pc = "handle" /\ worker.frame.to = m

\* The thread waits for the message of execute() that is on its way, and for no
\* other; the messages with a callback are not the thread's.
FlightInv ==
    \A m \in GoodMessages : InFlight(m) =>
        /\ m.op \in ExecutedOps =>
              thread.pc = "take" /\ reply = NoFrame /\ m = thread.message
        /\ m.op \in CallbackOps => ~ ThreadOwns(m.token)

\* What the thread is at fits the message it has made.
ThreadInv ==
    /\ thread.pc = "asyncWrite" => thread.message.op \in CallbackOps
    /\ thread.pc \in {"syncWrite", "take", "relock"} => thread.message.op \in ExecutedOps
    /\ thread.pc # "idle" => tokens[thread.message.token] = "pending"
    /\ thread.pc \notin {"take", "relock"} => reply = NoFrame
    /\ WakesWithOwnReply

\* A callback is all that the worker handles for a request.
WorkerInv ==
    worker.pc # "idle" =>
        /\ worker.frame.to.op \notin ExecutedOps
        /\ worker.pc = "write" => worker.frame.type \in {"BOOT", "NORMAL"}

MutexInv ==
    /\ mutex = "request" <=> thread.pc = "asyncWrite"
    /\ mutex = "worker" <=> worker.pc = "write"

PathInv == OneHome /\ FlightInv /\ ThreadInv /\ WorkerInv /\ MutexInv

LEMMA InitPath == Init => PathInv
<1> SUFFICES ASSUME Init PROVE PathInv
  OBVIOUS
<1>1. /\ pipe = << >> /\ received = << >> /\ sent = << >>
      /\ Len(pipe) = 0 /\ Len(received) = 0 /\ Len(sent) = 0
      /\ thread.pc = "idle" /\ worker.pc = "idle" /\ reply = NoFrame /\ semaphore = 0
      /\ mutex = "none"
  BY DEF Init
<1>2. \A m : ~ InFlight(m)
  BY <1>1 DEF InFlight, In
<1>3. ASSUME NEW t \in Tokens
      PROVE  HomeIs(t, "none") /\ tokens[t] # "pending"
  BY <1>1 DEF Init, HomeIs, None, Writing, Returned, Handling
<1>4. OneHome
  BY <1>3 DEF OneHome, Homes
<1>5. FlightInv
  BY <1>2 DEF FlightInv
<1>6. ThreadInv
  BY <1>1 DEF ThreadInv, WakesWithOwnReply
<1>7. WorkerInv /\ MutexInv
  BY <1>1 DEF WorkerInv, MutexInv
<1> QED BY <1>4, <1>5, <1>6, <1>7 DEF PathInv

\* A request whose message is on its way is pending, and has one home there.
LEMMA FlightHome ==
    ASSUME Types, NEW m \in GoodMessages, InFlight(m), m.token \in Tokens, NEW p \in Homes,
           HomeIs(m.token, p)
    PROVE  p \in {"pipe", "received", "sent", "worker"}
<1>1. CASE In(pipe, m)
  <2>1. ~ None(pipe, MessagesOf(m.token))
    BY <1>1 DEF In, None, MessagesOf
  <2> QED BY <2>1 DEF HomeIs
<1>2. CASE In(received, m)
  <2>1. ~ None(received, MessagesOf(m.token))
    BY <1>2 DEF In, None, MessagesOf
  <2> QED BY <2>1 DEF HomeIs
<1>3. CASE \E f \in GoodFrames : In(sent, f) /\ f.to = m
  <2>1. ~ None(sent, FramesOf(m.token))
    BY <1>3 DEF In, None, FramesOf
  <2> QED BY <2>1 DEF HomeIs
<1>4. CASE worker.pc = "handle" /\ worker.frame.to = m
  BY <1>4 DEF HomeIs, Handling
<1> QED BY <1>1, <1>2, <1>3, <1>4 DEF InFlight

\* ... and conversely.
LEMMA HomeFlight ==
    ASSUME Types, NEW t \in Tokens, NEW p \in {"pipe", "received", "sent", "worker"},
           HomeIs(t, p)
    PROVE  \E m \in GoodMessages : m.token = t /\ InFlight(m)
<1>1. CASE p = "pipe"
  <2>1. One(pipe, MessagesOf(t))
    BY <1>1 DEF HomeIs
  <2> QED BY <2>1 DEF One, MessagesOf, InFlight, In
<1>2. CASE p = "received"
  <2>1. One(received, MessagesOf(t))
    BY <1>2 DEF HomeIs
  <2> QED BY <2>1 DEF One, MessagesOf, InFlight, In
<1>3. CASE p = "sent"
  <2>1. One(sent, FramesOf(t))
    BY <1>3 DEF HomeIs
  <2>2. PICK f \in GoodFrames : In(sent, f) /\ f.to.token = t
    BY <2>1 DEF One, FramesOf, In
  <2>3. f.to \in GoodMessages
    BY DEF GoodFrames, Frames, FrameOK, GoodMessages
  <2> QED BY <2>2, <2>3 DEF InFlight
<1>4. CASE p = "worker"
  <2>1. worker.pc = "handle" /\ worker.frame.to.token = t
    BY <1>4 DEF HomeIs, Handling
  <2>2. worker.frame.to \in GoodMessages
    BY DEF Types, GoodFrames, Frames, FrameOK, GoodMessages
  <2> QED BY <2>1, <2>2 DEF InFlight
<1> QED BY <1>1, <1>2, <1>3, <1>4

\* A free request has no message anywhere.
LEMMA FreeHasNone ==
    ASSUME Types, PathInv, NEW t \in Tokens, tokens[t] # "pending"
    PROVE  HomeIs(t, "none") /\ \A m \in GoodMessages : InFlight(m) => m.token # t
<1>1. HomeIs(t, "none")
  BY DEF PathInv, OneHome
<1> QED BY <1>1, FlightHome DEF Homes

LEMMA HandleRequestPath ==
    ASSUME Types, PathInv, NEW t \in Tokens, NEW kind, NEW key \in KeysOf(kind),
           HandleRequest(t, kind, key)
    PROVE  PathInv'
<1>1. /\ thread.pc = "idle" /\ mutex = "none" /\ tokens[t] = "free"
      /\ UNCHANGED << semaphore, reply, pipe, worker, received, sent >>
  BY HandleRequestDoes
<1>2. /\ tokens \in [Tokens -> {"free", "pending", "lost"}]
      /\ OneHome /\ FlightInv /\ ThreadInv /\ WorkerInv /\ MutexInv
  BY DEF Types, TypeOK, PathInv
<1>3. CASE UNCHANGED << thread, mutex, tokens >>
  BY <1>1, <1>2, <1>3
     DEF PathInv, OneHome, HomeIs, Writing, Returned, Handling, FlightInv, InFlight, ThreadOwns,
         ThreadInv, WakesWithOwnReply, WorkerInv, MutexInv
<1>4. CASE tokens' = [tokens EXCEPT ![t] = "lost"] /\ UNCHANGED << thread, mutex >>
  <2>1. OneHome'
    <3>1. ASSUME NEW u \in Tokens, NEW p \in Homes, HomeIs(u, p)
          PROVE  HomeIs(u, p)'
      BY <1>1, <1>4, <3>1 DEF HomeIs, Writing, Returned, Handling
    <3>2. ASSUME NEW u \in Tokens
          PROVE  tokens'[u] = "pending" <=> tokens[u] = "pending"
      BY <1>1, <1>2, <1>4
    <3> QED BY <1>2, <3>1, <3>2 DEF OneHome
  <2>2. FlightInv' /\ ThreadInv' /\ WorkerInv' /\ MutexInv'
    BY <1>1, <1>2, <1>4 DEF FlightInv, InFlight, ThreadOwns, ThreadInv, WakesWithOwnReply,
                            WorkerInv, MutexInv
  <2> QED BY <2>1, <2>2 DEF PathInv
<1>5. ASSUME NEW m \in GoodMessages, m.token = t,
             tokens' = [tokens EXCEPT ![t] = "pending"],
             \/ /\ m.op \in ExecutedOps /\ mutex' = mutex
                /\ thread' = [pc |-> "syncWrite", message |-> m]
             \/ /\ m.op \in CallbackOps /\ mutex' = "request"
                /\ thread' = [pc |-> "asyncWrite", message |-> m]
      PROVE  PathInv'
  <2>1. HomeIs(t, "none") /\ \A n \in GoodMessages : InFlight(n) => n.token # t
    BY <1>1, FreeHasNone
  <2>2. /\ thread'.message = m /\ thread'.pc \in {"syncWrite", "asyncWrite"}
        /\ thread'.pc = "syncWrite" => m.op \in ExecutedOps /\ mutex' = "none"
        /\ thread'.pc = "asyncWrite" => m.op \in CallbackOps /\ mutex' = "request"
    BY <1>1, <1>5
  <2>3. reply = NoFrame /\ semaphore = 0
    BY <1>1, <1>2 DEF ThreadInv, WakesWithOwnReply
  <2>4. OneHome'
    <3>1. HomeIs(t, "thread")'
      BY <1>1, <1>5, <2>1, <2>2, <2>3 DEF HomeIs, Writing, Returned, Handling
    <3>2. ASSUME NEW u \in Tokens \ {t}, NEW p \in Homes, HomeIs(u, p)
          PROVE  HomeIs(u, p)'
      BY <1>1, <1>5, <2>2, <2>3, <3>2 DEF HomeIs, Writing, Returned, Handling
    <3>3. /\ tokens'[t] = "pending"
          /\ \A u \in Tokens \ {t} : tokens'[u] = tokens[u]
      BY <1>2, <1>5
    <3> QED BY <1>2, <3>1, <3>2, <3>3 DEF OneHome, Homes
  <2>5. FlightInv'
    <3>1. ASSUME NEW n \in GoodMessages, InFlight(n)'
          PROVE  n.op \notin ExecutedOps /\ n.token # t
      <4>1. InFlight(n)
        BY <1>1, <3>1 DEF InFlight
      <4> QED BY <1>1, <1>2, <2>1, <4>1 DEF FlightInv
    <3> QED BY <1>5, <2>2, <3>1 DEF FlightInv, ThreadOwns
  <2>6. ThreadInv'
    <3>1. tokens'[t] = "pending"
      BY <1>2, <1>5
    <3> QED BY <1>1, <1>5, <2>2, <2>3, <3>1 DEF ThreadInv, WakesWithOwnReply
  <2>7. WorkerInv'
    BY <1>1, <1>2 DEF WorkerInv
  <2>8. MutexInv'
    BY <1>1, <1>2, <2>2 DEF MutexInv
  <2> QED BY <2>4, <2>5, <2>6, <2>7, <2>8 DEF PathInv
<1> QED BY <1>3, <1>4, <1>5, HandleRequestDoes

\* A message enters the pipe.
LEMMA PipeGrows ==
    ASSUME Types, NEW m \in GoodMessages, pipe' = Append(pipe, m), NEW u
    PROVE  /\ \A n : In(pipe', n) => In(pipe, n) \/ n = m
           /\ m.token # u /\ None(pipe, MessagesOf(u)) => None(pipe', MessagesOf(u))
           /\ m.token # u /\ One(pipe, MessagesOf(u)) => One(pipe', MessagesOf(u))
           /\ m.token = u /\ None(pipe, MessagesOf(u)) => One(pipe', MessagesOf(u))
<1>1. pipe \in Seq(GoodMessages)
  BY DEF Types
<1>2. m \in MessagesOf(u) <=> m.token = u
  BY DEF MessagesOf
<1> HIDE DEF MessagesOf
<1> QED BY <1>1, <1>2, Appending

LEMMA WritePath ==
    ASSUME Types, PathInv, AsyncWrite \/ SyncWrite
    PROVE  PathInv'
<1> DEFINE m == thread.message
<1>1. /\ thread.pc \in {"asyncWrite", "syncWrite"} /\ pipe' = Append(pipe, m)
      /\ UNCHANGED << semaphore, reply, worker, tokens, received, sent >>
      /\ thread.pc = "asyncWrite" => thread' = Idle /\ mutex' = "none"
      /\ thread.pc = "syncWrite" =>
            thread' = [pc |-> "take", message |-> m] /\ mutex' = mutex
  BY DEF AsyncWrite, SyncWrite, modemVars
<1>2. m \in GoodMessages /\ OneHome /\ FlightInv /\ ThreadInv /\ WorkerInv /\ MutexInv
  BY DEF Types, PathInv
<1>3. /\ reply = NoFrame /\ semaphore = 0 /\ tokens[m.token] = "pending"
      /\ thread.pc = "asyncWrite" => m.op \in CallbackOps
      /\ thread.pc = "syncWrite" => m.op \in ExecutedOps
  BY <1>1, <1>2 DEF ThreadInv, WakesWithOwnReply
<1>4. PICK t \in Tokens : t = m.token
  BY <1>1, <1>2, <1>3 DEF GoodMessages, WellFormed
<1>5. /\ thread.pc = "asyncWrite" => thread'.pc = "idle"
      /\ thread.pc = "syncWrite" => thread'.pc = "take" /\ thread'.message = m
  BY <1>1 DEF Idle
<1>6. ASSUME NEW p \in Homes, HomeIs(t, p)
      PROVE  p = "thread"
  BY <1>1, <1>4, <1>6 DEF HomeIs, Writing
<1>7. HomeIs(t, "thread")
  BY <1>2, <1>4, <1>6 DEF OneHome
<1>8. ASSUME NEW n \in GoodMessages, InFlight(n)
      PROVE  n.token # t
  BY <1>4, <1>7, <1>8, FlightHome DEF Homes
<1>9. ASSUME NEW n, InFlight(n)'
      PROVE  InFlight(n) \/ n = m
  <2>1. In(pipe', n) => In(pipe, n) \/ n = m
    BY <1>1, <1>2, PipeGrows
  <2> QED BY <1>1, <1>9, <2>1 DEF InFlight
<1> HIDE DEF m
<1>10. OneHome'
  <2>1. One(pipe', MessagesOf(t))
    BY <1>1, <1>2, <1>7, <1>4, PipeGrows DEF HomeIs
  <2>2. HomeIs(t, "pipe")'
    BY <1>1, <1>3, <1>4, <1>5, <1>7, <2>1 DEF HomeIs, Writing, Returned, Handling
  <2>3. ASSUME NEW u \in Tokens \ {t}, NEW p \in Homes, HomeIs(u, p)
        PROVE  HomeIs(u, p)'
    <3>1. m.token # u
      BY <1>4
    <3>2. /\ None(pipe, MessagesOf(u)) => None(pipe', MessagesOf(u))
          /\ One(pipe, MessagesOf(u)) => One(pipe', MessagesOf(u))
      BY <1>1, <1>2, <3>1, PipeGrows
    <3>3. ~ Writing(u) /\ ~ Writing(u)' /\ ~ Returned(u) /\ ~ Returned(u)'
      BY <1>1, <1>3, <1>5, <3>1 DEF Writing, Returned, m
    <3> QED BY <1>1, <2>3, <3>2, <3>3 DEF HomeIs, Handling
  <2> QED BY <1>1, <1>2, <1>3, <1>4, <2>2, <2>3 DEF OneHome, Homes
<1>11. FlightInv'
  <2> SUFFICES ASSUME NEW n \in GoodMessages, InFlight(n)'
               PROVE  /\ n.op \in ExecutedOps =>
                           thread'.pc = "take" /\ reply' = NoFrame /\ n = thread'.message
                      /\ n.op \in CallbackOps => ~ ThreadOwns(n.token)'
    BY DEF FlightInv
  <2>1. CASE InFlight(n)
    <3>1. n.token # t /\ n.op \notin ExecutedOps
      BY <1>1, <1>2, <1>8, <2>1 DEF FlightInv
    <3> QED BY <1>1, <1>4, <1>5, <3>1 DEF ThreadOwns
  <2>2. CASE n = m
    <3>1. m.op \in CallbackOps => m.op \notin ExecutedOps
      BY DEF CallbackOps, ExecutedOps
    <3> QED BY <1>1, <1>3, <1>5, <2>2, <3>1 DEF ThreadOwns
  <2> QED BY <1>9, <2>1, <2>2
<1>12. ThreadInv'
  BY <1>1, <1>3, <1>5 DEF ThreadInv, WakesWithOwnReply, m
<1>13. WorkerInv'
  BY <1>1, <1>2 DEF WorkerInv
<1>14. MutexInv'
  BY <1>1, <1>2, <1>5 DEF MutexInv
<1> QED BY <1>10, <1>11, <1>12, <1>13, <1>14 DEF PathInv

LEMMA TakePath ==
    ASSUME Types, PathInv, Take
    PROVE  PathInv'
<1>1. /\ thread.pc = "take" /\ semaphore > 0 /\ semaphore' = semaphore - 1
      /\ thread' = [pc |-> "relock", message |-> thread.message]
      /\ UNCHANGED << mutex, reply, pipe, worker, tokens, received, sent >>
  BY DEF Take, modemVars
<1>2. OneHome /\ FlightInv /\ ThreadInv /\ WorkerInv /\ MutexInv
  BY DEF PathInv
<1>3. reply # NoFrame /\ semaphore' = 0 /\ reply.to = thread.message
  BY <1>1, <1>2 DEF ThreadInv, WakesWithOwnReply
<1>4. thread'.pc = "relock" /\ thread'.message = thread.message
  BY <1>1
<1>5. OneHome'
  <2>1. ASSUME NEW u \in Tokens, NEW p \in Homes, HomeIs(u, p)
        PROVE  HomeIs(u, p)'
    BY <1>1, <1>3, <1>4, <2>1 DEF HomeIs, Writing, Returned, Handling
  <2> QED BY <1>1, <1>2, <2>1 DEF OneHome
<1>6. FlightInv'
  BY <1>1, <1>2, <1>3, <1>4 DEF FlightInv, InFlight, ThreadOwns
<1>7. ThreadInv'
  BY <1>1, <1>2, <1>3, <1>4 DEF ThreadInv, WakesWithOwnReply
<1>8. WorkerInv' /\ MutexInv'
  BY <1>1, <1>2, <1>4 DEF WorkerInv, MutexInv
<1> QED BY <1>5, <1>6, <1>7, <1>8 DEF PathInv

LEMMA ResumePath ==
    ASSUME Types, PathInv, Resume
    PROVE  PathInv'
<1>1. /\ thread.pc = "relock" /\ mutex = "none" /\ thread' = Idle /\ reply' = NoFrame
      /\ tokens' = [tokens EXCEPT ![thread.message.token] = "free"]
      /\ UNCHANGED << mutex, semaphore, pipe, worker, received, sent >>
  BY DEF Resume, modemVars
<1>2. /\ OneHome /\ FlightInv /\ ThreadInv /\ WorkerInv /\ MutexInv
      /\ tokens \in [Tokens -> {"free", "pending", "lost"}]
      /\ thread.message \in GoodMessages
  BY DEF PathInv, Types, TypeOK
<1>3. reply # NoFrame /\ semaphore = 0 /\ thread.message.op \in ExecutedOps
  BY <1>1, <1>2 DEF ThreadInv, WakesWithOwnReply
<1>4. PICK t \in Tokens : t = thread.message.token
  BY <1>2, <1>3 DEF GoodMessages, WellFormed
<1>5. thread'.pc = "idle"
  BY <1>1 DEF Idle
<1>6. HomeIs(t, "reply")
  BY <1>1, <1>2, <1>3, <1>4 DEF OneHome, HomeIs, Returned
<1>7. OneHome'
  <2>1. HomeIs(t, "none")'
    BY <1>1, <1>5, <1>6 DEF HomeIs, Writing, Returned, Handling
  <2>2. ASSUME NEW u \in Tokens \ {t}, NEW p \in Homes, HomeIs(u, p)
        PROVE  HomeIs(u, p)'
    <3>1. ~ Writing(u) /\ ~ Writing(u)' /\ ~ Returned(u) /\ ~ Returned(u)'
      BY <1>1, <1>4, <1>5 DEF Writing, Returned
    <3> QED BY <1>1, <2>2, <3>1 DEF HomeIs, Handling
  <2>3. tokens'[t] = "free" /\ \A u \in Tokens \ {t} : tokens'[u] = tokens[u]
    BY <1>1, <1>2, <1>4
  <2> QED BY <1>2, <2>1, <2>2, <2>3 DEF OneHome, Homes
<1>8. FlightInv'
  BY <1>1, <1>2, <1>3, <1>5 DEF FlightInv, InFlight, ThreadOwns
<1>9. ThreadInv'
  BY <1>1, <1>3, <1>5 DEF ThreadInv, WakesWithOwnReply
<1>10. WorkerInv' /\ MutexInv'
  BY <1>1, <1>2, <1>5 DEF WorkerInv, MutexInv
<1> QED BY <1>7, <1>8, <1>9, <1>10 DEF PathInv

\* A frame leaves the modem's queue, a frame or a message enters a queue.
LEMMA SentShrinks ==
    ASSUME Types, 1 \in 1 .. Len(sent), sent' \in Seq(GoodFrames),
           IsRemoval(sent, sent', 1), NEW u
    PROVE  /\ \A g : In(sent', g) => In(sent, g)
           /\ None(sent, FramesOf(u)) => None(sent', FramesOf(u))
           /\ sent[1].to.token = u => ~ None(sent, FramesOf(u))
           /\ sent[1].to.token # u /\ One(sent, FramesOf(u)) => One(sent', FramesOf(u))
           /\ sent[1].to.token = u /\ One(sent, FramesOf(u)) => None(sent', FramesOf(u))
<1>1. sent \in Seq(GoodFrames) /\ sent[1] \in GoodFrames
  BY DEF Types
<1>2. sent[1] \in FramesOf(u) <=> sent[1].to.token = u
  BY <1>1 DEF FramesOf
<1>3. sent[1] \in FramesOf(u) => ~ None(sent, FramesOf(u))
  BY DEF None
<1> HIDE DEF FramesOf
<1> QED BY <1>1, <1>2, <1>3, Removal

LEMMA SentGrows ==
    ASSUME Types, NEW f \in GoodFrames, sent' = Append(sent, f), NEW u
    PROVE  /\ \A g : In(sent', g) => In(sent, g) \/ g = f
           /\ f.to.token # u /\ None(sent, FramesOf(u)) => None(sent', FramesOf(u))
           /\ f.to.token # u /\ One(sent, FramesOf(u)) => One(sent', FramesOf(u))
           /\ f.to.token = u /\ None(sent, FramesOf(u)) => One(sent', FramesOf(u))
<1>1. sent \in Seq(GoodFrames)
  BY DEF Types
<1>2. f \in FramesOf(u) <=> f.to.token = u
  BY DEF FramesOf
<1> HIDE DEF FramesOf
<1> QED BY <1>1, <1>2, Appending

LEMMA ReceivedGrows ==
    ASSUME Types, NEW m \in GoodMessages, received' = Append(received, m), NEW u
    PROVE  /\ \A n : In(received', n) => In(received, n) \/ n = m
           /\ m.token # u /\ None(received, MessagesOf(u)) => None(received', MessagesOf(u))
           /\ m.token # u /\ One(received, MessagesOf(u)) => One(received', MessagesOf(u))
           /\ m.token = u /\ None(received, MessagesOf(u)) => One(received', MessagesOf(u))
<1>1. received \in Seq(GoodMessages)
  BY DEF Types
<1>2. m \in MessagesOf(u) <=> m.token = u
  BY DEF MessagesOf
<1> HIDE DEF MessagesOf
<1> QED BY <1>1, <1>2, Appending

\* The k-th message of s, the pipe or the modem's queue, leaves it.
LEMMA MessagesShrink ==
    ASSUME NEW s \in Seq(GoodMessages), NEW r \in Seq(GoodMessages), NEW k \in 1 .. Len(s),
           IsRemoval(s, r, k), NEW u
    PROVE  /\ \A n : In(r, n) => In(s, n)
           /\ None(s, MessagesOf(u)) => None(r, MessagesOf(u))
           /\ s[k].token = u => ~ None(s, MessagesOf(u))
           /\ s[k].token # u /\ One(s, MessagesOf(u)) => One(r, MessagesOf(u))
           /\ s[k].token = u /\ One(s, MessagesOf(u)) => None(r, MessagesOf(u))
<1>1. s[k] \in GoodMessages
  OBVIOUS
<1>2. s[k] \in MessagesOf(u) <=> s[k].token = u
  BY <1>1 DEF MessagesOf
<1>3. s[k] \in MessagesOf(u) => ~ None(s, MessagesOf(u))
  BY DEF None
<1> HIDE DEF MessagesOf
<1> QED BY <1>2, <1>3, Removal

\* The worker reads the response to execute()'s message: the thread's reply.
LEMMA ReplyPath ==
    ASSUME Types, PathInv, NEW f \in GoodFrames,
           worker.pc = "idle", 1 \in 1 .. Len(sent), f = sent[1],
           IsRemoval(sent, sent', 1), sent' \in Seq(GoodFrames),
           f.type = "RESP", f.to.op \in ExecutedOps,
           reply' = f, semaphore' = semaphore + 1,
           UNCHANGED << mutex, thread, pipe, tokens, received, worker >>
    PROVE  PathInv'
<1>1. OneHome /\ FlightInv /\ ThreadInv /\ WorkerInv /\ MutexInv
  BY DEF PathInv
<1>2. f.to \in GoodMessages /\ InFlight(f.to)
  <2>1. f.to \in GoodMessages
    BY DEF GoodFrames, Frames, FrameOK, GoodMessages
  <2>2. In(sent, f)
    BY DEF In
  <2> QED BY <2>1, <2>2 DEF InFlight
<1>3. PICK t \in Tokens : t = f.to.token
  BY <1>2 DEF GoodMessages, WellFormed
<1>4. thread.pc = "take" /\ reply = NoFrame /\ f.to = thread.message /\ semaphore = 0
  BY <1>1, <1>2 DEF FlightInv, ThreadInv, WakesWithOwnReply
<1>5. f # NoFrame
  BY DEF NoFrame, Frame
<1>6. PICK p \in Homes : HomeIs(t, p) /\ tokens[t] = "pending"
  BY <1>1, <1>3, <1>4 DEF OneHome, ThreadInv
<1>7. p = "sent" /\ One(sent, FramesOf(t))
  <2>1. ~ None(sent, FramesOf(t))
    BY <1>3, SentShrinks
  <2> QED BY <1>6, <2>1 DEF HomeIs
<1>8. None(sent', FramesOf(t))
  BY <1>3, <1>7, SentShrinks
<1>9. HomeIs(t, "reply")'
  BY <1>3, <1>4, <1>5, <1>6, <1>7, <1>8 DEF HomeIs, Writing, Returned, Handling
<1>10. ASSUME NEW u \in Tokens \ {t}, NEW q \in Homes, HomeIs(u, q)
       PROVE  HomeIs(u, q)'
  <2>1. /\ None(sent, FramesOf(u)) => None(sent', FramesOf(u))
        /\ One(sent, FramesOf(u)) => One(sent', FramesOf(u))
    BY <1>3, SentShrinks
  <2>2. ~ Writing(u) /\ ~ Writing(u)' /\ ~ Returned(u) /\ ~ Returned(u)'
    BY <1>3, <1>4 DEF Writing, Returned
  <2> QED BY <1>10, <2>1, <2>2 DEF HomeIs, Handling
<1>11. OneHome'
  BY <1>1, <1>6, <1>9, <1>10 DEF OneHome, Homes
<1>12. ASSUME NEW n \in GoodMessages, InFlight(n)'
       PROVE  InFlight(n) /\ n.token # t
  <2>1. \A g : In(sent', g) => In(sent, g)
    BY SentShrinks
  <2>2. InFlight(n)
    BY <1>12, <2>1 DEF InFlight
  <2>3. ~ (In(pipe', n) /\ n.token = t) /\ ~ (In(received', n) /\ n.token = t)
    BY <1>9 DEF HomeIs, In, None, MessagesOf
  <2>4. \A g \in GoodFrames : ~ (In(sent', g) /\ g.to = n /\ n.token = t)
    BY <1>8 DEF In, None, FramesOf
  <2> QED BY <1>12, <2>2, <2>3, <2>4 DEF InFlight
<1>13. FlightInv'
  <2>1. ASSUME NEW n \in GoodMessages, InFlight(n)'
        PROVE  n.op \notin ExecutedOps
    BY <1>1, <1>3, <1>4, <1>12, <2>1 DEF FlightInv
  <2> QED BY <1>1, <1>12, <2>1 DEF FlightInv, ThreadOwns
<1>14. ThreadInv'
  BY <1>1, <1>4, <1>5 DEF ThreadInv, WakesWithOwnReply
<1>15. WorkerInv' /\ MutexInv'
  BY <1>1 DEF WorkerInv, MutexInv
<1> QED BY <1>11, <1>13, <1>14, <1>15 DEF PathInv

\* The worker reads any other frame: it drops it, or handles it.
LEMMA FramePath ==
    ASSUME Types, PathInv, NEW f \in GoodFrames,
           worker.pc = "idle", 1 \in 1 .. Len(sent), f = sent[1],
           IsRemoval(sent, sent', 1), sent' \in Seq(GoodFrames),
           f.to.op \notin ExecutedOps,
           \/ worker' = worker /\ f.to.op \notin CallbackOps
           \/ worker' = [pc |-> "handle", frame |-> f, message |-> NoMessage],
           UNCHANGED << mutex, thread, pipe, tokens, received, reply, semaphore >>
    PROVE  PathInv'
<1>1. OneHome /\ FlightInv /\ ThreadInv /\ WorkerInv /\ MutexInv
  BY DEF PathInv
<1>2. \/ worker'.pc = "idle" /\ f.to.token \notin Tokens
      \/ worker'.pc = "handle" /\ worker'.frame = f
  <2>1. f.to.op \notin CallbackOps => f.to.token \notin Tokens
    BY DEF GoodFrames, FrameOK, WellFormed
  <2> QED BY <2>1
<1>3. ASSUME NEW u \in Tokens, NEW p \in Homes, HomeIs(u, p)
      PROVE  \E q \in Homes : HomeIs(u, q)' /\ (q = "none" <=> p = "none")
  <2>1. CASE f.to.token # u
    <3>1. /\ None(sent, FramesOf(u)) => None(sent', FramesOf(u))
          /\ One(sent, FramesOf(u)) => One(sent', FramesOf(u))
      BY <2>1, SentShrinks
    <3>2. ~ Handling(u) /\ ~ Handling(u)'
      BY <1>2, <2>1 DEF Handling
    <3>3. HomeIs(u, p)'
      BY <1>3, <3>1, <3>2 DEF HomeIs, Writing, Returned
    <3> QED BY <3>3
  <2>2. CASE f.to.token = u
    <3>1. p = "sent" /\ One(sent, FramesOf(u))
      <4>1. ~ None(sent, FramesOf(u))
        BY <2>2, SentShrinks
      <4> QED BY <1>3, <4>1 DEF HomeIs
    <3>2. None(sent', FramesOf(u))
      BY <2>2, <3>1, SentShrinks
    <3>3. Handling(u)'
      BY <1>2, <2>2 DEF Handling
    <3>4. HomeIs(u, "worker")'
      BY <1>3, <3>1, <3>2, <3>3 DEF HomeIs, Writing, Returned
    <3> QED BY <3>1, <3>4 DEF Homes
  <2> QED BY <2>1, <2>2
<1>4. OneHome'
  BY <1>1, <1>3 DEF OneHome
<1>5. ASSUME NEW n \in GoodMessages, InFlight(n)'
      PROVE  InFlight(n)
  <2>1. \A g : In(sent', g) => In(sent, g)
    BY SentShrinks
  <2>2. In(sent, f)
    BY DEF In
  <2> QED BY <1>2, <1>5, <2>1, <2>2 DEF InFlight
<1>6. FlightInv'
  BY <1>1, <1>5 DEF FlightInv, ThreadOwns
<1>7. ThreadInv' /\ WorkerInv' /\ MutexInv'
  BY <1>1, <1>2 DEF ThreadInv, WakesWithOwnReply, WorkerInv, MutexInv
<1> QED BY <1>4, <1>6, <1>7 DEF PathInv

LEMMA ReadFramePath ==
    ASSUME Types, PathInv, ReadFrame
    PROVE  PathInv'
<1>1. PICK f \in GoodFrames :
        /\ worker.pc = "idle"
        /\ 1 \in 1 .. Len(sent) /\ f = sent[1] /\ IsRemoval(sent, sent', 1)
        /\ sent' \in Seq(GoodFrames)
        /\ UNCHANGED << mutex, thread, pipe, tokens, received >>
        /\ \/ /\ f.type = "RESP" /\ f.to.op \in ExecutedOps
              /\ reply' = f /\ semaphore' = semaphore + 1
              /\ worker' = worker
           \/ /\ f.type = "RESP" => f.to.op = "refresh"
              /\ UNCHANGED << worker, reply, semaphore >>
           \/ /\ f.type = "RESP" => f.to.op \in CallbackOps \cup {"refresh"}
              /\ worker' = [pc |-> "handle", frame |-> f, message |-> NoMessage]
              /\ UNCHANGED << reply, semaphore >>
  BY ReadFrameDoes
<1>2. f.type # "RESP" => f.to.op = "event"
  BY DEF GoodFrames, FrameOK
<1>3. CASE /\ f.type = "RESP" /\ f.to.op \in ExecutedOps
           /\ reply' = f /\ semaphore' = semaphore + 1 /\ worker' = worker
  BY <1>1, <1>3, ReplyPath
<1>4. CASE /\ f.type = "RESP" => f.to.op = "refresh"
           /\ UNCHANGED << worker, reply, semaphore >>
  <2>1. f.to.op \notin ExecutedOps /\ f.to.op \notin CallbackOps
    BY <1>2, <1>4 DEF ExecutedOps, CallbackOps
  <2> QED BY <1>1, <1>4, <2>1, FramePath
<1>5. CASE /\ f.type = "RESP" => f.to.op \in CallbackOps \cup {"refresh"}
           /\ worker' = [pc |-> "handle", frame |-> f, message |-> NoMessage]
           /\ UNCHANGED << reply, semaphore >>
  <2>1. f.to.op \notin ExecutedOps
    BY <1>2, <1>5 DEF ExecutedOps, CallbackOps
  <2> QED BY <1>1, <1>5, <2>1, FramePath
<1> QED BY <1>1, <1>3, <1>4, <1>5

LEMMA CallbackPath ==
    ASSUME Types, PathInv, HandleFrame, CallbackComplete(worker.frame)
    PROVE  PathInv'
<1>1. /\ worker.pc = "handle" /\ mutex = "none" /\ worker' = WorkerIdle
      /\ worker.frame.to.op \in CallbackOps
      /\ tokens' = [tokens EXCEPT ![worker.frame.to.token] = "free"]
      /\ UNCHANGED << mutex, thread, semaphore, reply, pipe, received, sent >>
  BY DEF HandleFrame, CallbackComplete, modemVars
<1>2. /\ OneHome /\ FlightInv /\ ThreadInv /\ WorkerInv /\ MutexInv
      /\ tokens \in [Tokens -> {"free", "pending", "lost"}]
  BY DEF PathInv, Types, TypeOK
<1>3. PICK m \in GoodMessages : m = worker.frame.to
  BY DEF Types, GoodFrames, Frames, FrameOK, GoodMessages
<1>4. PICK t \in Tokens : t = m.token
  BY <1>1, <1>3 DEF GoodMessages, WellFormed
<1>5. worker'.pc = "idle"
  BY <1>1, WorkerIdleOK
<1>6. HomeIs(t, "worker")
  BY <1>1, <1>2, <1>3, <1>4 DEF OneHome, HomeIs, Handling
<1>7. InFlight(m) /\ ~ ThreadOwns(t)
  BY <1>1, <1>2, <1>3, <1>4 DEF InFlight, FlightInv
<1>8. thread.pc = "idle" \/ thread.message.token # t
  <2>1. ~ Writing(t)
    BY <1>6 DEF HomeIs
  <2>2. thread.pc \in {"idle", "asyncWrite", "syncWrite", "take", "relock"}
    BY DEF Types, TypeOK
  <2> QED BY <1>7, <2>1, <2>2 DEF Writing, ThreadOwns
<1>9. OneHome'
  <2>1. HomeIs(t, "none")'
    BY <1>1, <1>5, <1>6 DEF HomeIs, Writing, Returned, Handling
  <2>2. ASSUME NEW u \in Tokens \ {t}, NEW p \in Homes, HomeIs(u, p)
        PROVE  HomeIs(u, p)'
    <3>1. ~ Handling(u) /\ ~ Handling(u)'
      BY <1>3, <1>4, <1>5 DEF Handling
    <3> QED BY <1>1, <2>2, <3>1 DEF HomeIs, Writing, Returned
  <2>3. tokens'[t] = "free" /\ \A u \in Tokens \ {t} : tokens'[u] = tokens[u]
    BY <1>1, <1>2, <1>3, <1>4
  <2> QED BY <1>2, <2>1, <2>2, <2>3 DEF OneHome, Homes
<1>10. FlightInv'
  BY <1>1, <1>2, <1>5 DEF FlightInv, InFlight, ThreadOwns
<1>11. ThreadInv'
  <2>1. thread.pc # "idle" => tokens'[thread.message.token] = "pending"
    BY <1>1, <1>2, <1>3, <1>4, <1>8 DEF ThreadInv
  <2> QED BY <1>1, <1>2, <2>1 DEF ThreadInv, WakesWithOwnReply
<1>12. WorkerInv' /\ MutexInv'
  BY <1>1, <1>2, <1>5 DEF WorkerInv, MutexInv
<1> QED BY <1>9, <1>10, <1>11, <1>12 DEF PathInv

LEMMA HandlerPath ==
    ASSUME Types, PathInv, HandleFrame, ~ CallbackComplete(worker.frame)
    PROVE  PathInv'
<1> DEFINE f == worker.frame
<1>1. /\ worker.pc = "handle" /\ mutex = "none"
      /\ UNCHANGED << thread, semaphore, reply, pipe, received, sent, tokens >>
      /\ \/ worker' = WorkerIdle /\ mutex' = mutex
         \/ /\ f.type \in {"BOOT", "NORMAL"} /\ mutex' = "worker"
            /\ worker'.pc = "write" /\ worker'.frame = f
      /\ f.type # "RESP" \/ f.to.op = "refresh"
  BY DEF HandleFrame, PinStatusReported, BeginWorkerSubmit, LowPowerMode, ValueNotified,
         modemVars
<1>2. OneHome /\ FlightInv /\ ThreadInv /\ WorkerInv /\ MutexInv
  BY DEF PathInv
<1>3. f.to.op \notin ExecutedOps \cup CallbackOps /\ f.to.token \notin Tokens
  <2>1. f \in GoodFrames
    BY DEF Types
  <2>2. f.to.op \in {"event", "refresh"}
    BY <1>1, <2>1 DEF GoodFrames, FrameOK
  <2> QED BY <2>1, <2>2 DEF GoodFrames, FrameOK, WellFormed, ExecutedOps, CallbackOps
<1>4. worker'.pc \in {"idle", "write"} /\ (worker'.pc = "write" => worker'.frame = f)
  BY <1>1, WorkerIdleOK
<1>5. ASSUME NEW u \in Tokens, NEW p \in Homes, HomeIs(u, p)
      PROVE  HomeIs(u, p)'
  <2>1. ~ Handling(u) /\ ~ Handling(u)'
    BY <1>3, <1>4 DEF Handling
  <2> QED BY <1>1, <1>5, <2>1 DEF HomeIs, Writing, Returned
<1>6. OneHome'
  BY <1>1, <1>2, <1>5 DEF OneHome
<1>7. FlightInv'
  BY <1>1, <1>2, <1>4 DEF FlightInv, InFlight, ThreadOwns
<1>8. ThreadInv'
  BY <1>1, <1>2 DEF ThreadInv, WakesWithOwnReply
<1>9. WorkerInv'
  BY <1>1, <1>3, <1>4, WorkerIdleOK DEF WorkerInv
<1>10. MutexInv'
  BY <1>1, <1>2, WorkerIdleOK DEF MutexInv
<1> QED BY <1>6, <1>7, <1>8, <1>9, <1>10 DEF PathInv

LEMMA WorkerWritePath ==
    ASSUME Types, PathInv, WorkerWrite
    PROVE  PathInv'
<1>1. /\ worker.pc = "write" /\ pipe' = Append(pipe, worker.message)
      /\ mutex' = "none" /\ worker' = WorkerIdle
      /\ UNCHANGED << thread, semaphore, reply, tokens, received, sent >>
  BY DEF WorkerWrite, modemVars
<1>2. OneHome /\ FlightInv /\ ThreadInv /\ WorkerInv /\ MutexInv
  BY DEF PathInv
<1>3. PICK m \in GoodMessages : m = worker.message /\ m.token = NoToken
  BY <1>1 DEF Types
<1>4. m.op \notin ExecutedOps \cup CallbackOps /\ m.token \notin Tokens
  BY <1>3, ConstantsAssumption DEF GoodMessages, WellFormed
<1>5. worker'.pc = "idle"
  BY <1>1, WorkerIdleOK
<1>6. ASSUME NEW u \in Tokens, NEW p \in Homes, HomeIs(u, p)
      PROVE  HomeIs(u, p)'
  <2>1. /\ None(pipe, MessagesOf(u)) => None(pipe', MessagesOf(u))
        /\ One(pipe, MessagesOf(u)) => One(pipe', MessagesOf(u))
    BY <1>1, <1>3, <1>4, PipeGrows
  <2>2. ~ Handling(u) /\ ~ Handling(u)'
    BY <1>1, <1>5 DEF Handling
  <2> QED BY <1>1, <1>6, <2>1, <2>2 DEF HomeIs, Writing, Returned
<1>7. OneHome'
  BY <1>1, <1>2, <1>6 DEF OneHome
<1>8. ASSUME NEW n \in GoodMessages, InFlight(n)'
      PROVE  InFlight(n) \/ n = m
  <2>1. In(pipe', n) => In(pipe, n) \/ n = m
    BY <1>1, <1>3, PipeGrows
  <2> QED BY <1>1, <1>5, <1>8, <2>1 DEF InFlight
<1>9. FlightInv'
  BY <1>1, <1>2, <1>4, <1>8 DEF FlightInv, ThreadOwns
<1>10. ThreadInv' /\ WorkerInv' /\ MutexInv'
  BY <1>1, <1>2, <1>5 DEF ThreadInv, WakesWithOwnReply, WorkerInv, MutexInv
<1> QED BY <1>7, <1>9, <1>10 DEF PathInv

LEMMA DispatchControlPath ==
    ASSUME Types, PathInv, DispatchControl
    PROVE  PathInv'
<1>1. PICK m \in GoodMessages :
        /\ 1 \in 1 .. Len(pipe) /\ m = pipe[1] /\ IsRemoval(pipe, pipe', 1)
        /\ pipe' \in Seq(GoodMessages)
        /\ received' = IF m.op = "event" THEN received ELSE Append(received, m)
        /\ UNCHANGED << mutex, thread, semaphore, reply, worker, tokens, sent >>
  BY DispatchControlDoes
<1>2. /\ OneHome /\ FlightInv /\ ThreadInv /\ WorkerInv /\ MutexInv
      /\ pipe \in Seq(GoodMessages)
  BY DEF PathInv, Types
<1>3. m.op = "event" => m.token \notin Tokens
  BY DEF GoodMessages, WellFormed, ExecutedOps, CallbackOps
<1>4. ASSUME NEW u \in Tokens, NEW p \in Homes, HomeIs(u, p)
      PROVE  \E q \in Homes : HomeIs(u, q)' /\ (q = "none" <=> p = "none")
  <2>1. CASE m.token # u
    <3>1. /\ None(pipe, MessagesOf(u)) => None(pipe', MessagesOf(u))
          /\ One(pipe, MessagesOf(u)) => One(pipe', MessagesOf(u))
      BY <1>1, <1>2, <2>1, MessagesShrink
    <3>2. /\ None(received, MessagesOf(u)) => None(received', MessagesOf(u))
          /\ One(received, MessagesOf(u)) => One(received', MessagesOf(u))
      BY <1>1, <2>1, ReceivedGrows
    <3>3. HomeIs(u, p)'
      BY <1>1, <1>4, <3>1, <3>2 DEF HomeIs, Writing, Returned, Handling
    <3> QED BY <3>3
  <2>2. CASE m.token = u
    <3>1. p = "pipe" /\ One(pipe, MessagesOf(u)) /\ None(received, MessagesOf(u))
      <4>1. ~ None(pipe, MessagesOf(u))
        BY <1>1, <1>2, <2>2, MessagesShrink
      <4> QED BY <1>4, <4>1 DEF HomeIs
    <3>2. None(pipe', MessagesOf(u))
      BY <1>1, <1>2, <2>2, <3>1, MessagesShrink
    <3>3. One(received', MessagesOf(u))
      BY <1>1, <1>3, <2>2, <3>1, ReceivedGrows
    <3>4. HomeIs(u, "received")'
      BY <1>1, <1>4, <3>1, <3>2, <3>3 DEF HomeIs, Writing, Returned, Handling
    <3> QED BY <3>1, <3>4 DEF Homes
  <2> QED BY <2>1, <2>2
<1>5. OneHome'
  BY <1>1, <1>2, <1>4 DEF OneHome
<1>6. ASSUME NEW n \in GoodMessages, InFlight(n)'
      PROVE  InFlight(n)
  <2>1. In(pipe', n) => In(pipe, n)
    BY <1>1, <1>2, MessagesShrink
  <2>2. In(received', n) => In(received, n) \/ n = m
    BY <1>1, ReceivedGrows
  <2>3. In(pipe, m)
    BY <1>1 DEF In
  <2> QED BY <1>1, <1>6, <2>1, <2>2, <2>3 DEF InFlight
<1>7. FlightInv'
  BY <1>1, <1>2, <1>6 DEF FlightInv, ThreadOwns
<1>8. ThreadInv' /\ WorkerInv' /\ MutexInv'
  BY <1>1, <1>2 DEF ThreadInv, WakesWithOwnReply, WorkerInv, MutexInv
<1> QED BY <1>5, <1>7, <1>8 DEF PathInv

LEMMA AnswerPath ==
    ASSUME Types, PathInv, NEW i \in DOMAIN received, Answer(i)
    PROVE  PathInv'
<1>1. PICK f \in GoodFrames :
        /\ i \in 1 .. Len(received) /\ IsRemoval(received, received', i)
        /\ received' \in Seq(GoodMessages)
        /\ f.to = received[i] /\ sent' = Append(sent, f)
        /\ UNCHANGED << mutex, thread, semaphore, reply, pipe, worker, tokens >>
  BY AnswerDoes
<1>2. /\ OneHome /\ FlightInv /\ ThreadInv /\ WorkerInv /\ MutexInv
      /\ received \in Seq(GoodMessages)
  BY DEF PathInv, Types
<1>3. ASSUME NEW u \in Tokens, NEW p \in Homes, HomeIs(u, p)
      PROVE  \E q \in Homes : HomeIs(u, q)' /\ (q = "none" <=> p = "none")
  <2>1. CASE f.to.token # u
    <3>1. /\ None(received, MessagesOf(u)) => None(received', MessagesOf(u))
          /\ One(received, MessagesOf(u)) => One(received', MessagesOf(u))
      BY <1>1, <1>2, <2>1, MessagesShrink
    <3>2. /\ None(sent, FramesOf(u)) => None(sent', FramesOf(u))
          /\ One(sent, FramesOf(u)) => One(sent', FramesOf(u))
      BY <1>1, <2>1, SentGrows
    <3>3. HomeIs(u, p)'
      BY <1>1, <1>3, <3>1, <3>2 DEF HomeIs, Writing, Returned, Handling
    <3> QED BY <3>3
  <2>2. CASE f.to.token = u
    <3>1. p = "received" /\ One(received, MessagesOf(u)) /\ None(sent, FramesOf(u))
      <4>1. ~ None(received, MessagesOf(u))
        BY <1>1, <1>2, <2>2, MessagesShrink
      <4> QED BY <1>3, <4>1 DEF HomeIs
    <3>2. None(received', MessagesOf(u))
      BY <1>1, <1>2, <2>2, <3>1, MessagesShrink
    <3>3. One(sent', FramesOf(u))
      BY <1>1, <2>2, <3>1, SentGrows
    <3>4. HomeIs(u, "sent")'
      BY <1>1, <1>3, <3>1, <3>2, <3>3 DEF HomeIs, Writing, Returned, Handling
    <3> QED BY <3>1, <3>4 DEF Homes
  <2> QED BY <2>1, <2>2
<1>4. OneHome'
  BY <1>1, <1>2, <1>3 DEF OneHome
<1>5. ASSUME NEW n \in GoodMessages, InFlight(n)'
      PROVE  InFlight(n)
  <2>1. In(received', n) => In(received, n)
    BY <1>1, <1>2, MessagesShrink
  <2>2. \A g : In(sent', g) => In(sent, g) \/ g = f
    BY <1>1, SentGrows
  <2>3. In(received, f.to)
    BY <1>1 DEF In
  <2> QED BY <1>1, <1>5, <2>1, <2>2, <2>3 DEF InFlight
<1>6. FlightInv'
  BY <1>1, <1>2, <1>5 DEF FlightInv, ThreadOwns
<1>7. ThreadInv' /\ WorkerInv' /\ MutexInv'
  BY <1>1, <1>2 DEF ThreadInv, WakesWithOwnReply, WorkerInv, MutexInv
<1> QED BY <1>4, <1>6, <1>7 DEF PathInv

LEMMA NotifyPath ==
    ASSUME Types, PathInv, NotifyStep
    PROVE  PathInv'
<1>1. PICK f \in GoodFrames :
        /\ f.type # "RESP" /\ sent' = Append(sent, f)
        /\ UNCHANGED << mutex, thread, semaphore, reply, pipe, worker, tokens, received >>
  BY NotifyDoes
<1>2. OneHome /\ FlightInv /\ ThreadInv /\ WorkerInv /\ MutexInv
  BY DEF PathInv
<1>3. f.to.op \notin ExecutedOps \cup CallbackOps /\ f.to.token \notin Tokens
  BY <1>1 DEF GoodFrames, FrameOK, WellFormed, ExecutedOps, CallbackOps
<1>4. ASSUME NEW u \in Tokens, NEW p \in Homes, HomeIs(u, p)
      PROVE  HomeIs(u, p)'
  <2>1. /\ None(sent, FramesOf(u)) => None(sent', FramesOf(u))
        /\ One(sent, FramesOf(u)) => One(sent', FramesOf(u))
    BY <1>1, <1>3, SentGrows
  <2> QED BY <1>1, <1>4, <2>1 DEF HomeIs, Writing, Returned, Handling
<1>5. OneHome'
  BY <1>1, <1>2, <1>4 DEF OneHome
<1>6. ASSUME NEW n \in GoodMessages, InFlight(n)'
      PROVE  InFlight(n) \/ n = f.to
  <2>1. \A g : In(sent', g) => In(sent, g) \/ g = f
    BY <1>1, SentGrows
  <2> QED BY <1>1, <1>6, <2>1 DEF InFlight
<1>7. FlightInv'
  BY <1>1, <1>2, <1>3, <1>6 DEF FlightInv, ThreadOwns
<1>8. ThreadInv' /\ WorkerInv' /\ MutexInv'
  BY <1>1, <1>2 DEF ThreadInv, WakesWithOwnReply, WorkerInv, MutexInv
<1> QED BY <1>5, <1>7, <1>8 DEF PathInv

LEMMA NextPath ==
    ASSUME Types, PathInv, [Next]_vars
    PROVE  PathInv'
<1>1. CASE UNCHANGED << mutex, thread, semaphore, reply, pipe, worker, tokens, received, sent >>
  BY <1>1 DEF PathInv, OneHome, HomeIs, Writing, Returned, Handling, FlightInv, InFlight,
              ThreadOwns, ThreadInv, WakesWithOwnReply, WorkerInv, MutexInv
<1>2. CASE HandleFrame
  BY <1>2, CallbackPath, HandlerPath
<1> QED BY <1>1, <1>2, Steps, HandleRequestPath, WritePath, TakePath, ResumePath,
           ReadFramePath, WorkerWritePath, DispatchControlPath, AnswerPath, NotifyPath

-----------------------------------------------------------------------------
(* Who completes a request, and when both threads wait.                    *)

\* Counting the callback messages of a request in a queue.
LEMMA CountNone ==
    ASSUME NEW S, NEW s \in Seq(S), NEW G, None(s, G),
           NEW C, C \subseteq {i \in 1 .. Len(s) : s[i] \in G}
    PROVE  Cardinality(C) = 0
<1>1. C = {}
  BY DEF None
<1> QED BY <1>1, FS_EmptySet

LEMMA CountOne ==
    ASSUME NEW S, NEW s \in Seq(S), NEW G, One(s, G),
           NEW C, C = {i \in 1 .. Len(s) : s[i] \in G}
    PROVE  Cardinality(C) = 1
<1>1. PICK i \in 1 .. Len(s) : s[i] \in G /\ \A j \in 1 .. Len(s) : s[j] \in G => j = i
  BY DEF One
<1>2. C = {i}
  BY <1>1
<1> QED BY <1>2, FS_Singleton

\* The parts of CallbackPlaces.
InPipe(t) == {i \in DOMAIN pipe : pipe[i].token = t /\ pipe[i].op \in CallbackOps}
InReceived(t) == {i \in DOMAIN received : received[i].token = t /\ received[i].op \in CallbackOps}
InSent(t) == {i \in DOMAIN sent : sent[i].to.token = t /\ sent[i].to.op \in CallbackOps}

LEMMA PlacesAre ==
    ASSUME NEW t
    PROVE  CallbackPlaces(t) =
             Cardinality(InPipe(t)) + Cardinality(InReceived(t)) + Cardinality(InSent(t))
             + (IF /\ worker.pc = "handle"
                   /\ worker.frame.to.token = t /\ worker.frame.to.op \in CallbackOps
                THEN 1 ELSE 0)
             + (IF /\ thread.pc = "asyncWrite"
                   /\ thread.message.token = t /\ thread.message.op \in CallbackOps
                THEN 1 ELSE 0)
BY DEF CallbackPlaces, InPipe, InReceived, InSent

\* A message with a callback is counted once where it is, one of execute() not
\* at all.
LEMMA PlacesOfHome ==
    ASSUME Types, PathInv, NEW t \in Tokens, NEW p \in Homes, HomeIs(t, p)
    PROVE  /\ Cardinality(InPipe(t)) = IF p = "pipe" /\ ~ ThreadOwns(t) THEN 1 ELSE 0
           /\ Cardinality(InReceived(t)) = IF p = "received" /\ ~ ThreadOwns(t) THEN 1 ELSE 0
           /\ Cardinality(InSent(t)) = IF p = "sent" /\ ~ ThreadOwns(t) THEN 1 ELSE 0
<1>1. /\ pipe \in Seq(GoodMessages) /\ received \in Seq(GoodMessages)
      /\ sent \in Seq(GoodFrames)
      /\ DOMAIN pipe = 1 .. Len(pipe) /\ DOMAIN received = 1 .. Len(received)
      /\ DOMAIN sent = 1 .. Len(sent)
  BY DEF Types
<1>2. ASSUME NEW m \in GoodMessages, InFlight(m), m.token = t
      PROVE  m.op \in CallbackOps <=> ~ ThreadOwns(t)
  <2>1. m.op \in CallbackOps => ~ ThreadOwns(t)
    BY <1>2 DEF PathInv, FlightInv
  <2>2. m.op \in ExecutedOps \cup CallbackOps
    BY <1>2 DEF GoodMessages, WellFormed
  <2>3. m.op \in ExecutedOps => ThreadOwns(t)
    BY <1>2 DEF PathInv, FlightInv, ThreadOwns
  <2> QED BY <2>1, <2>2, <2>3
<1>3. \A i \in 1 .. Len(pipe) : pipe[i] \in GoodMessages /\ InFlight(pipe[i])
  BY <1>1 DEF InFlight, In
<1>4. \A i \in 1 .. Len(received) : received[i] \in GoodMessages /\ InFlight(received[i])
  BY <1>1 DEF InFlight, In
<1>5. ASSUME NEW i \in 1 .. Len(sent)
      PROVE  sent[i] \in GoodFrames /\ sent[i].to \in GoodMessages /\ InFlight(sent[i].to)
  <2>1. sent[i] \in GoodFrames
    BY <1>1
  <2>2. sent[i].to \in GoodMessages
    BY <2>1 DEF GoodFrames, Frames, FrameOK, GoodMessages
  <2> QED BY <2>1, <2>2 DEF InFlight, In
<1>6. InPipe(t) = IF ThreadOwns(t) THEN {} ELSE {i \in 1 .. Len(pipe) : pipe[i] \in MessagesOf(t)}
  BY <1>1, <1>2, <1>3 DEF InPipe, MessagesOf
<1>7. InReceived(t) = IF ThreadOwns(t) THEN {}
                      ELSE {i \in 1 .. Len(received) : received[i] \in MessagesOf(t)}
  BY <1>1, <1>2, <1>4 DEF InReceived, MessagesOf
<1>8. InSent(t) = IF ThreadOwns(t) THEN {} ELSE {i \in 1 .. Len(sent) : sent[i] \in FramesOf(t)}
  BY <1>1, <1>2, <1>5 DEF InSent, FramesOf
<1>9. CASE ThreadOwns(t)
  BY <1>6, <1>7, <1>8, <1>9, FS_EmptySet
<1>10. CASE ~ ThreadOwns(t)
  <2>1. /\ p # "pipe" => Cardinality(InPipe(t)) = 0
        /\ p = "pipe" => Cardinality(InPipe(t)) = 1
    <3>1. p # "pipe" => None(pipe, MessagesOf(t))
      BY DEF HomeIs
    <3>2. p = "pipe" => One(pipe, MessagesOf(t))
      BY DEF HomeIs
    <3> QED BY <1>1, <1>6, <1>10, <3>1, <3>2, CountNone, CountOne
  <2>2. /\ p # "received" => Cardinality(InReceived(t)) = 0
        /\ p = "received" => Cardinality(InReceived(t)) = 1
    <3>1. p # "received" => None(received, MessagesOf(t))
      BY DEF HomeIs
    <3>2. p = "received" => One(received, MessagesOf(t))
      BY DEF HomeIs
    <3> QED BY <1>1, <1>7, <1>10, <3>1, <3>2, CountNone, CountOne
  <2>3. /\ p # "sent" => Cardinality(InSent(t)) = 0
        /\ p = "sent" => Cardinality(InSent(t)) = 1
    <3>1. p # "sent" => None(sent, FramesOf(t))
      BY DEF HomeIs
    <3>2. p = "sent" => One(sent, FramesOf(t))
      BY DEF HomeIs
    <3> QED BY <1>1, <1>8, <1>10, <3>1, <3>2, CountNone, CountOne
  <2> QED BY <1>10, <2>1, <2>2, <2>3
<1> QED BY <1>9, <1>10

LEMMA PathCompletes ==
    ASSUME Types, PathInv
    PROVE  OneCompleter
<1> SUFFICES ASSUME NEW t \in Tokens
             PROVE  CallbackPlaces(t) + (IF ThreadOwns(t) THEN 1 ELSE 0)
                      = (IF tokens[t] = "pending" THEN 1 ELSE 0)
  BY DEF OneCompleter
<1>1. PICK p \in Homes : HomeIs(t, p) /\ (tokens[t] = "pending" <=> p # "none")
  BY DEF PathInv, OneHome
<1>2. thread.pc \in {"idle", "asyncWrite", "syncWrite", "take", "relock"}
  BY DEF Types, TypeOK
<1>3. ThreadOwns(t) => /\ thread.pc \in {"syncWrite", "take", "relock"}
                       /\ p # "none" /\ p # "worker"
  <2>1. ASSUME ThreadOwns(t)
        PROVE  p # "none"
    BY <1>1, <2>1 DEF ThreadOwns, PathInv, ThreadInv
  <2>2. ASSUME ThreadOwns(t), p = "worker"
        PROVE  FALSE
    <3>1. worker.pc = "handle" /\ worker.frame.to.token = t
      BY <1>1, <2>2 DEF HomeIs, Handling
    <3>2. PICK m \in GoodMessages : m = worker.frame.to
      BY DEF Types, GoodFrames, Frames, FrameOK, GoodMessages
    <3>3. InFlight(m) /\ m.token = t
      BY <3>1, <3>2 DEF InFlight
    <3>4. m.op \in CallbackOps
      BY <3>1, <3>2 DEF PathInv, WorkerInv, GoodMessages, WellFormed
    <3> QED BY <2>2, <3>3, <3>4 DEF PathInv, FlightInv
  <2> QED BY <2>1, <2>2 DEF ThreadOwns
<1>4. (/\ worker.pc = "handle"
       /\ worker.frame.to.token = t /\ worker.frame.to.op \in CallbackOps) <=> p = "worker"
  <2>1. Handling(t) => worker.frame.to.op \in CallbackOps
    <3>1. worker.frame.to \in GoodMessages
      BY DEF Types, GoodFrames, Frames, FrameOK, GoodMessages
    <3> QED BY <3>1 DEF Handling, PathInv, WorkerInv, GoodMessages, WellFormed
  <2> QED BY <1>1, <2>1 DEF HomeIs, Handling
<1>5. (/\ thread.pc = "asyncWrite"
       /\ thread.message.token = t /\ thread.message.op \in CallbackOps)
        <=> p = "thread" /\ ~ ThreadOwns(t)
  BY <1>1, <1>2 DEF HomeIs, Writing, ThreadOwns, PathInv, ThreadInv
<1>6. p = "reply" => ThreadOwns(t)
  BY <1>1 DEF HomeIs, Returned, ThreadOwns
<1>7. CallbackPlaces(t) =
        (IF p = "pipe" /\ ~ ThreadOwns(t) THEN 1 ELSE 0)
        + (IF p = "received" /\ ~ ThreadOwns(t) THEN 1 ELSE 0)
        + (IF p = "sent" /\ ~ ThreadOwns(t) THEN 1 ELSE 0)
        + (IF p = "worker" THEN 1 ELSE 0)
        + (IF p = "thread" /\ ~ ThreadOwns(t) THEN 1 ELSE 0)
  BY <1>1, <1>4, <1>5, PlacesAre, PlacesOfHome
<1> QED BY <1>1, <1>3, <1>6, <1>7 DEF Homes

LEMMA PathHangs ==
    ASSUME Types, PathInv
    PROVE  HangNeedsFullPipe
<1> SUFFICES ASSUME Hung, Len(pipe) # PipeCapacity
             PROVE  FALSE
  BY DEF HangNeedsFullPipe
<1>1. /\ mutex \in {"none", "request", "worker"}
      /\ mutex = "request" => thread.pc = "asyncWrite"
      /\ mutex = "worker" => worker.pc = "write"
  BY DEF Types, TypeOK, PathInv, MutexInv
<1>2. /\ thread.pc = "take" /\ semaphore = 0 /\ worker.pc = "idle"
      /\ pipe = << >> /\ sent = << >> /\ received = << >>
  BY <1>1 DEF Hung
<1>3. /\ reply = NoFrame /\ thread.message.op \in ExecutedOps
      /\ tokens[thread.message.token] = "pending"
  BY <1>2 DEF PathInv, ThreadInv, WakesWithOwnReply
<1>4. PICK t \in Tokens : t = thread.message.token
  BY <1>3 DEF Types, GoodMessages, WellFormed
<1>5. PICK p \in Homes : HomeIs(t, p) /\ p # "none"
  BY <1>3, <1>4 DEF PathInv, OneHome
<1>6. p \in {"pipe", "received", "sent", "worker"}
  BY <1>2, <1>3, <1>5 DEF HomeIs, Writing, Returned, Homes
<1>7. PICK m : InFlight(m)
  BY <1>5, <1>6, HomeFlight
<1> QED BY <1>2, <1>7 DEF InFlight, In

-----------------------------------------------------------------------------
(* How current a value is.                                                 *)

\* A frame that voids or replaces entry k, and one that carries its value.
Changes(f, k) == \/ f.type = "LPM"
                 \/ f.type = "VALUE" /\ f.to.key = k
                 \/ f.type = "RESP" /\ f.to.op = "set" /\ f.to.key = k
Reports(f, k) == f.to.key = k /\ (f.type = "VALUE" \/ (f.type = "RESP" /\ f.to.op = "query"))

\* A change of entry k comes after the i-th frame; v is the value of entry k or
\* a change of it is still to be read.
ChangeAfter(i, k) == \E j \in 1 .. Len(sent) : j > i /\ Changes(sent[j], k)
Current(v, k) == v = value[k] \/ ChangeAfter(0, k)

\* A value that is on its way, or in the worker's hands, or returned to
\* execute(), is out of date only if the change is behind it.
SentCurrent ==
    \A k \in Keys : \A i \in 1 .. Len(sent) :
        Reports(sent[i], k) => sent[i].version = value[k] \/ ChangeAfter(i, k)
WorkerCurrent ==
    \A k \in Keys : worker.pc = "handle" /\ Reports(worker.frame, k) =>
        Current(worker.frame.version, k)
ReplyCurrent ==
    \A k \in Keys : Reports(reply, k) =>
        reply.version = value[k] \/ k \in touched \/ ChangeInFlight(k)

CacheInv == SentCurrent /\ WorkerCurrent /\ ReplyCurrent /\ CacheCoherent

LEMMA InFlightIs ==
    ASSUME Types, NEW k
    PROVE  ChangeInFlight(k) <=>
             ChangeAfter(0, k) \/ (worker.pc = "handle" /\ Changes(worker.frame, k))
<1>1. DOMAIN sent = 1 .. Len(sent) /\ \A j \in 1 .. Len(sent) : j > 0
  BY DEF Types
<1> QED BY <1>1 DEF ChangeInFlight, ChangeAfter, Changes

LEMMA InFlightIsNext ==
    ASSUME Types', NEW k
    PROVE  ChangeInFlight(k)' <=>
             ChangeAfter(0, k)' \/ (worker'.pc = "handle" /\ Changes(worker'.frame, k))
<1>1. DOMAIN sent' = 1 .. Len(sent') /\ \A j \in 1 .. Len(sent') : j > 0
  BY DEF Types
<1> QED BY <1>1 DEF ChangeInFlight, ChangeAfter, Changes

LEMMA InitCache == Init => CacheInv
<1> SUFFICES ASSUME Init PROVE CacheInv
  OBVIOUS
<1>1. Len(sent) = 0 /\ worker.pc = "idle" /\ reply = NoFrame
  BY DEF Init
<1>2. \A k : ~ Reports(reply, k)
  BY <1>1 DEF NoFrame, Frame, Reports
<1>3. CacheCoherent
  BY DEF Init, CacheCoherent
<1> QED BY <1>1, <1>2, <1>3 DEF CacheInv, SentCurrent, WorkerCurrent, ReplyCurrent

\* The modem changes a value only in a frame that says so, and says what it has.
LEMMA SentCache ==
    ASSUME Types, Types', CacheInv, NEW f \in GoodFrames, sent' = Append(sent, f),
           \A k \in Keys : value'[k] # value[k] => Changes(f, k),
           \A k \in Keys : Reports(f, k) => f.version = value'[k],
           UNCHANGED << reply, cache, worker, touched, overtaken >>
    PROVE  CacheInv'
<1> DEFINE n == Len(sent) + 1
<1>1. /\ Len(sent) \in Nat /\ Len(sent') = n /\ sent'[n] = f
      /\ \A i \in 1 .. Len(sent) : sent'[i] = sent[i]
  BY DEF Types
<1>2. \A i \in 1 .. n : i \in 1 .. Len(sent) \/ i = n
  BY <1>1
<1>3. n \in 1 .. n /\ (\A i \in 1 .. Len(sent) : n > i /\ i \in 1 .. n) /\ n > 0
  BY <1>1
<1> HIDE DEF n
<1>4. \A k \in Keys : \A i : ChangeAfter(i, k) => ChangeAfter(i, k)'
  BY <1>1, <1>3 DEF ChangeAfter
<1>5. \A k \in Keys : \A i \in 1 .. Len(sent) : Changes(f, k) => ChangeAfter(i, k)'
  BY <1>1, <1>3 DEF ChangeAfter
<1>6. \A k \in Keys : Changes(f, k) => ChangeAfter(0, k)'
  BY <1>1, <1>3 DEF ChangeAfter
<1>7. \A k \in Keys : /\ ChangeInFlight(k) => ChangeInFlight(k)'
                      /\ Changes(f, k) => ChangeInFlight(k)'
  <2> SUFFICES ASSUME NEW k \in Keys
               PROVE  /\ ChangeInFlight(k) => ChangeInFlight(k)'
                      /\ Changes(f, k) => ChangeInFlight(k)'
    OBVIOUS
  <2>1. ChangeInFlight(k) <=> ChangeAfter(0,
  k) \/ (worker.pc = "handle" /\ Changes(worker.frame, k))
    BY InFlightIs
  <2>2. ChangeInFlight(k)' <=>
          ChangeAfter(0, k)' \/ (worker.pc = "handle" /\ Changes(worker.frame, k))
    BY InFlightIsNext DEF Changes
  <2> QED BY <1>4, <1>6, <2>1, <2>2
<1>8. SentCurrent'
  <2> SUFFICES ASSUME NEW k \in Keys, NEW i \in 1 .. Len(sent'), Reports(sent'[i], k)
               PROVE  sent'[i].version = value'[k] \/ ChangeAfter(i, k)'
    BY DEF SentCurrent, Reports
  <2>1. CASE i = n
    BY <1>1, <2>1
  <2>2. CASE i \in 1 .. Len(sent)
    BY <1>1, <1>4, <1>5, <2>2 DEF CacheInv, SentCurrent
  <2> QED BY <1>1, <1>2, <2>1, <2>2
<1>9. WorkerCurrent'
  BY <1>4, <1>6 DEF CacheInv, WorkerCurrent, Current, Reports
<1>10. ReplyCurrent'
  BY <1>7 DEF CacheInv, ReplyCurrent, Reports
<1>11. CacheCoherent'
  BY <1>7 DEF CacheInv, CacheCoherent
<1> QED BY <1>8, <1>9, <1>10, <1>11 DEF CacheInv

LEMMA AnswerCache ==
    ASSUME Types, Types', CacheInv, NEW i \in DOMAIN received, Answer(i)
    PROVE  CacheInv'
<1>1. PICK f \in GoodFrames :
        /\ f.type = "RESP" /\ sent' = Append(sent, f)
        /\ f.to.op = "query" => f.version = value[f.to.key]
        /\ \A k \in Keys : value'[k] # value[k] => f.to.op = "set" /\ f.to.key = k
        /\ UNCHANGED << reply, cache, worker, touched, overtaken >>
  BY AnswerDoes
<1>2. \A k \in Keys : value'[k] # value[k] => Changes(f, k)
  BY <1>1 DEF Changes
<1>3. \A k \in Keys : Reports(f, k) => f.version = value'[k]
  BY <1>1 DEF Reports
<1> QED BY <1>1, <1>2, <1>3, SentCache

LEMMA NotifyCache ==
    ASSUME Types, Types', CacheInv, NotifyStep
    PROVE  CacheInv'
<1>1. PICK f \in GoodFrames :
        /\ f.type # "RESP" /\ sent' = Append(sent, f)
        /\ f.type = "VALUE" => f.version = value'[f.to.key]
        /\ \A k \in Keys : value'[k] # value[k] =>
               f.type = "LPM" \/ (f.type = "VALUE" /\ f.to.key = k)
        /\ UNCHANGED << reply, cache, worker, touched, overtaken >>
  BY NotifyDoes
<1>2. \A k \in Keys : value'[k] # value[k] => Changes(f, k)
  BY <1>1 DEF Changes
<1>3. \A k \in Keys : Reports(f, k) => f.version = value'[k]
  BY <1>1 DEF Reports
<1> QED BY <1>1, <1>2, <1>3, SentCache

LEMMA ReadFrameCache ==
    ASSUME Types, Types', CacheInv, ReadFrame
    PROVE  CacheInv'
<1>1. PICK f \in GoodFrames :
        /\ worker.pc = "idle" /\ 1 \in 1 .. Len(sent) /\ f = sent[1]
        /\ IsRemoval(sent, sent', 1) /\ sent' \in Seq(GoodFrames)
        /\ UNCHANGED << cache, overtaken, value >>
        /\ \/ /\ f.type = "RESP" /\ f.to.op \in ExecutedOps
              /\ reply' = f /\ touched' = {}
              /\ UNCHANGED worker
           \/ /\ f.type = "RESP" => f.to.op = "refresh"
              /\ f.type \in {"RESP", "RESET"}
              /\ UNCHANGED << worker, reply, touched >>
           \/ /\ worker' = [pc |-> "handle", frame |-> f, message |-> NoMessage]
              /\ UNCHANGED << reply, touched >>
  BY ReadFrameDoes
<1>2. /\ Len(sent) \in Nat /\ Len(sent') = Len(sent) - 1
      /\ \A i \in 1 .. Len(sent') : sent'[i] = sent[i + 1] /\ i + 1 \in 1 .. Len(sent)
  BY <1>1 DEF IsRemoval, Types
<1>3. ASSUME NEW k \in Keys, NEW i \in Nat, ChangeAfter(i + 1, k)
      PROVE  ChangeAfter(i, k)'
  <2>1. PICK j \in 1 .. Len(sent) : j > i + 1 /\ Changes(sent[j], k)
    BY <1>3 DEF ChangeAfter
  <2>2. j - 1 \in 1 .. Len(sent') /\ j - 1 > i /\ sent'[j - 1] = sent[j]
    BY <1>2, <2>1
  <2> QED BY <2>1, <2>2 DEF ChangeAfter
<1>4. \A k \in Keys : ChangeAfter(0, k) => ChangeAfter(1, k) \/ Changes(f, k)
  <2>1. \A j \in 1 .. Len(sent) : j > 1 \/ j = 1
    OBVIOUS
  <2> QED BY <1>1, <2>1 DEF ChangeAfter
<1>5. SentCurrent'
  <2> SUFFICES ASSUME NEW k \in Keys, NEW i \in 1 .. Len(sent'), Reports(sent'[i], k)
               PROVE  sent'[i].version = value'[k] \/ ChangeAfter(i, k)'
    BY DEF SentCurrent, Reports
  <2>1. sent[i + 1].version = value[k] \/ ChangeAfter(i + 1, k)
    BY <1>2 DEF CacheInv, SentCurrent
  <2> QED BY <1>1, <1>2, <1>3, <2>1
<1>6. \A k \in Keys : Reports(f, k) => f.version = value[k] \/ ChangeAfter(0, k)'
  <2> SUFFICES ASSUME NEW k \in Keys, Reports(f, k)
               PROVE  f.version = value[k] \/ ChangeAfter(0, k)'
    OBVIOUS
  <2>1. f.version = value[k] \/ ChangeAfter(0 + 1, k)
    BY <1>1 DEF CacheInv, SentCurrent
  <2> QED BY <1>3, <2>1
<1>7. \A k \in Keys : ChangeAfter(0, k) => ChangeAfter(0, k)' \/ Changes(f, k)
  <2> SUFFICES ASSUME NEW k \in Keys, ChangeAfter(0, k), ~ Changes(f, k)
               PROVE  ChangeAfter(0, k)'
    OBVIOUS
  <2>1. ChangeAfter(0 + 1, k)
    BY <1>4
  <2> QED BY <1>3, <2>1
<1>8. ASSUME NEW k \in Keys
      PROVE  ChangeInFlight(k) => ChangeInFlight(k)'
  <2>1. ChangeInFlight(k) => ChangeAfter(0, k)
    BY <1>1, InFlightIs
  <2>2. ChangeInFlight(k)' <=>
          ChangeAfter(0, k)' \/ (worker'.pc = "handle" /\ Changes(worker'.frame, k))
    BY InFlightIsNext
  <2>3. Changes(f, k) => worker'.pc = "handle" /\ worker'.frame = f
    BY <1>1 DEF Changes, ExecutedOps
  <2> QED BY <1>7, <2>1, <2>2, <2>3
<1>9. \A k \in Keys : ChangeAfter(0, k)' => ChangeInFlight(k)'
  BY InFlightIsNext
<1>10. WorkerCurrent'
  <2>1. worker'.pc = "handle" => worker'.frame = f
    BY <1>1
  <2> QED BY <1>1, <1>6, <2>1 DEF WorkerCurrent, Current, Reports
<1>11. ReplyCurrent'
  <2>1. CASE reply' = f
    BY <1>1, <1>6, <1>9, <2>1 DEF ReplyCurrent, Reports
  <2>2. CASE UNCHANGED << reply, touched >>
    BY <1>1, <1>8, <2>2 DEF CacheInv, ReplyCurrent, Reports
  <2> QED BY <1>1, <2>1, <2>2
<1>12. CacheCoherent'
  BY <1>1, <1>8 DEF CacheInv, CacheCoherent
<1> QED BY <1>5, <1>10, <1>11, <1>12 DEF CacheInv

LEMMA HandleFrameCache ==
    ASSUME Types, Types', CacheInv, HandleFrame
    PROVE  CacheInv'
<1> DEFINE f == worker.frame
<1>1. worker.pc = "handle" /\ UNCHANGED << reply, sent, value >>
  BY DEF HandleFrame, modemVars
<1>2. f \in GoodFrames /\ cache \in [Keys -> Int]
  BY DEF Types, TypeOK
<1>3. /\ worker'.pc # "handle"
      /\ \A k \in Keys :
           IF Changes(f, k)
           THEN k \in touched' /\ (cache'[k] = Absent \/ (cache'[k] = f.version /\ Reports(f,
           k)))
           ELSE cache'[k] = cache[k] /\ (k \in overtaken => k \in overtaken')
      /\ touched \subseteq touched'
  <2>1. CASE CallbackComplete(f)
    <3>1. worker'.pc # "handle"
      BY <2>1, WorkerIdleOK DEF CallbackComplete
    <3>2. CASE f.to.op = "set"
      BY <1>2, <2>1, <3>1, <3>2 DEF CallbackComplete, ChangeCache, Changes
    <3>3. CASE f.to.op # "set"
      BY <2>1, <3>1, <3>3 DEF CallbackComplete, Changes
    <3> QED BY <3>2, <3>3
  <2>2. CASE PinStatusReported(f)
    BY <2>2, WorkerIdleOK DEF PinStatusReported, Changes
  <2>3. CASE BeginWorkerSubmit(f)
    BY <2>3 DEF BeginWorkerSubmit, Changes
  <2>4. CASE LowPowerMode(f)
    <3>1. worker'.pc # "handle" /\ ChangeCache(Keys, Absent) /\ f.type = "LPM"
      BY <2>4, WorkerIdleOK DEF LowPowerMode
    <3> QED BY <3>1 DEF ChangeCache, Changes
  <2>5. CASE ValueNotified(f)
    <3>1. /\ worker'.pc # "handle" /\ ChangeCache({f.to.key}, f.version)
          /\ f.type = "VALUE"
      BY <2>5, WorkerIdleOK DEF ValueNotified
    <3> HIDE DEF f
    <3> QED BY <3>1 DEF ChangeCache, Changes, Reports
  <2> QED BY <2>1, <2>2, <2>3, <2>4, <2>5 DEF HandleFrame
<1>4. \A k \in Keys : \A i : ChangeAfter(i, k)' <=> ChangeAfter(i, k)
  BY <1>1 DEF ChangeAfter
<1>5. ASSUME NEW k \in Keys
      PROVE  /\ ChangeInFlight(k) <=> ChangeAfter(0, k) \/ Changes(f, k)
             /\ ChangeInFlight(k)' <=> ChangeAfter(0, k)
  BY <1>1, <1>3, <1>4, InFlightIs, InFlightIsNext
<1>6. SentCurrent'
  BY <1>1, <1>4 DEF CacheInv, SentCurrent, Reports
<1>7. WorkerCurrent'
  BY <1>3 DEF WorkerCurrent
<1>8. ReplyCurrent'
  <2> SUFFICES ASSUME NEW k \in Keys, Reports(reply, k)
               PROVE  reply.version = value[k] \/ k \in touched' \/ ChangeInFlight(k)'
    BY <1>1 DEF ReplyCurrent, Reports
  <2>1. reply.version = value[k] \/ k \in touched \/ ChangeInFlight(k)
    BY DEF CacheInv, ReplyCurrent
  <2> HIDE DEF f
  <2> QED BY <1>3, <1>5, <2>1
<1>9. CacheCoherent'
  <2> SUFFICES ASSUME NEW k \in Keys
               PROVE  \/ cache'[k] = Absent \/ cache'[k] = value[k]
                      \/ ChangeInFlight(k)' \/ k \in overtaken'
    BY <1>1 DEF CacheCoherent
  <2>1. CASE Changes(f, k)
    <3>1. Reports(f, k) => f.version = value[k] \/ ChangeAfter(0, k)
      BY <1>1 DEF CacheInv, WorkerCurrent, Current
    <3> HIDE DEF f
    <3> QED BY <1>3, <1>5, <2>1, <3>1
  <2>2. CASE ~ Changes(f, k)
    <3>1. cache[k] = Absent \/ cache[k] = value[k] \/ ChangeInFlight(k) \/ k \in overtaken
      BY DEF CacheInv, CacheCoherent
    <3> HIDE DEF f
    <3> QED BY <1>3, <1>5, <2>2, <3>1
  <2> QED BY <2>1, <2>2
<1> QED BY <1>6, <1>7, <1>8, <1>9 DEF CacheInv

LEMMA ResumeCache ==
    ASSUME Types, Types', PathInv, CacheInv, Resume
    PROVE  CacheInv'
<1> DEFINE m == thread.message
<1>1. UNCHANGED << worker, sent, value >> /\ reply' = NoFrame /\ thread.pc = "relock"
  BY DEF Resume, modemVars
<1>2. m.op \in ExecutedOps /\ reply.to = m /\ reply # NoFrame
  BY <1>1 DEF PathInv, ThreadInv, WakesWithOwnReply
<1>3. m.op = "query" => Reports(reply, m.key) /\ m.key \in Keys
  <2>1. FrameOK(reply)
    BY DEF Types, GoodFrames
  <2> QED BY <1>2, <2>1 DEF FrameOK, WellFormed, Reports
<1>4. /\ cache' = IF reply.ok /\ m.op = "query"
                  THEN [cache EXCEPT ![m.key] = reply.version] ELSE cache
      /\ overtaken' = IF ~ reply.ok \/ m.op # "query" THEN overtaken
                      ELSE IF m.key \in touched THEN overtaken \cup {m.key}
                      ELSE overtaken \ {m.key}
  BY DEF Resume, ApplyReply
<1> HIDE DEF m
<1>5. \A k \in Keys : \A i : ChangeAfter(i, k)' <=> ChangeAfter(i, k)
  BY <1>1 DEF ChangeAfter
<1>6. \A k \in Keys : ChangeInFlight(k)' <=> ChangeInFlight(k)
  BY <1>1 DEF ChangeInFlight
<1>7. SentCurrent' /\ WorkerCurrent'
  BY <1>1, <1>5 DEF CacheInv, SentCurrent, WorkerCurrent, Current, Reports
<1>8. ReplyCurrent'
  BY <1>1 DEF ReplyCurrent, Reports, NoFrame, Frame
<1>9. CacheCoherent'
  <2> SUFFICES ASSUME NEW k \in Keys
               PROVE  \/ cache'[k] = Absent \/ cache'[k] = value[k]
                      \/ ChangeInFlight(k) \/ k \in overtaken'
    BY <1>1, <1>6 DEF CacheCoherent
  <2>1. cache[k] = Absent \/ cache[k] = value[k] \/ ChangeInFlight(k) \/ k \in overtaken
    BY DEF CacheInv, CacheCoherent
  <2>2. CASE reply.ok /\ m.op = "query" /\ m.key = k
    <3>1. reply.version = value[k] \/ k \in touched \/ ChangeInFlight(k)
      BY <1>3, <2>2 DEF CacheInv, ReplyCurrent
    <3>2. cache'[k] = reply.version
      BY <1>4, <2>2 DEF Types, TypeOK
    <3>3. k \in touched => k \in overtaken'
      BY <1>4, <2>2
    <3> QED BY <3>1, <3>2, <3>3
  <2>3. CASE ~ (reply.ok /\ m.op = "query" /\ m.key = k)
    <3>1. cache'[k] = cache[k] /\ (k \in overtaken => k \in overtaken')
      BY <1>4, <2>3 DEF Types, TypeOK
    <3> QED BY <2>1, <3>1
  <2> QED BY <2>2, <2>3
<1> QED BY <1>7, <1>8, <1>9 DEF CacheInv

\* The other steps leave the values alone.
LEMMA OtherCache ==
    ASSUME Types, CacheInv, UNCHANGED << reply, cache, touched, overtaken, sent, value >>,
           \/ worker' = worker
           \/ worker.pc = "write" /\ worker'.pc = "idle"
    PROVE  CacheInv'
<1>1. \A k \in Keys : \A i : ChangeAfter(i, k)' <=> ChangeAfter(i, k)
  BY DEF ChangeAfter
<1>2. \A k \in Keys : ChangeInFlight(k)' <=> ChangeInFlight(k)
  <2>1. (worker'.pc = "handle" /\ worker' = worker) \/ (worker'.pc # "handle" /\ worker.pc # "handle")
    OBVIOUS
  <2> QED BY <2>1 DEF ChangeInFlight
<1>3. SentCurrent' /\ ReplyCurrent' /\ CacheCoherent'
  BY <1>1, <1>2 DEF CacheInv, SentCurrent, ReplyCurrent, CacheCoherent, Reports
<1>4. WorkerCurrent'
  BY <1>1 DEF CacheInv, WorkerCurrent, Current, Reports
<1> QED BY <1>3, <1>4 DEF CacheInv

LEMMA NextCache ==
    ASSUME Types, PathInv, CacheInv, [Next]_vars
    PROVE  CacheInv'
<1>1. Types'
  BY NextTypes
<1>2. ASSUME NEW t \in Tokens, NEW kind \in Kinds, NEW key \in KeysOf(kind),
             HandleRequest(t, kind, key)
      PROVE  CacheInv'
  BY <1>2, HandleRequestDoes, OtherCache
<1>3. CASE AsyncWrite \/ SyncWrite \/ Take
  BY <1>3, OtherCache DEF AsyncWrite, SyncWrite, Take, modemVars
<1>4. CASE WorkerWrite
  <2>1. UNCHANGED << reply, cache, touched, overtaken, sent, value >> /\ worker.pc = "write"
        /\ worker'.pc = "idle"
    BY <1>4, WorkerIdleOK DEF WorkerWrite, modemVars
  <2> QED BY <2>1, OtherCache
<1>5. CASE DispatchControl
  BY <1>5, OtherCache DEF DispatchControl
<1>6. CASE UNCHANGED << reply, cache, touched, overtaken, sent, value, worker >>
  BY <1>6, OtherCache
<1> QED BY <1>1, <1>2, <1>3, <1>4, <1>5, <1>6, Steps, ResumeCache, ReadFrameCache,
           HandleFrameCache, AnswerCache, NotifyCache

-----------------------------------------------------------------------------
(* The radio in low power mode.                                            *)

\* The frames that turn the radio off, those that turn it on, the responses;
\* the messages that ask for the SIM state and the responses to them.
OffFrames == {f \in GoodFrames : f.type \in {"BOOT", "LPM"}}
OnFrames == {f \in GoodFrames : f.type = "NORMAL"}
Responses == {f \in GoodFrames : f.type = "RESP"}
PinMessages == {m \in GoodMessages : m.op \in {"pin", "refresh"}}
PinResponses == {f \in Responses : f.to.op \in {"pin", "refresh"}}

\* Nothing has been asked yet: requests are refused until the modem is up.
Quiet ==
    /\ radio = "UNAVAILABLE" /\ thread.pc = "idle"
    /\ pipe = << >> /\ received = << >> /\ None(sent, Responses)

\* The modem comes up once, before anything is asked of it.
BootInv ==
    /\ mode = "off" => Quiet /\ sent = << >> /\ worker.pc = "idle"
    /\ \A i \in 1 .. Len(sent) :
         sent[i].type = "BOOT" => i = 1 /\ Quiet /\ worker.pc = "idle"
    /\ worker.pc # "idle" /\ worker.frame.type = "BOOT" => Quiet
    /\ worker.pc = "write" /\ worker.frame.type = "BOOT" => worker.message.op = "event"

\* In low power mode what turns the radio on is followed by what turns it off.
OrderInv ==
    mode = "lpm" =>
        /\ \A i \in 1 .. Len(sent) :
             sent[i] \in OnFrames => \E j \in 1 .. Len(sent) : j > i /\ sent[j] \in OffFrames
        /\ worker.pc # "idle" /\ worker.frame \in OnFrames => ~ None(sent, OffFrames)

\* The change to low power mode has been handled, with no request for the SIM
\* state outstanding.
Settled ==
    /\ mode = "lpm" /\ ~ latePin
    /\ worker.pc = "idle" \/ worker.frame \notin OffFrames
    /\ None(sent, OffFrames)

\* No reply about the SIM state is to come.
NoPin ==
    /\ thread.pc # "idle" => thread.message \notin PinMessages
    /\ None(pipe, PinMessages) /\ None(received, PinMessages) /\ None(sent, PinResponses)

SettledInv ==
    Settled =>
        /\ radio \in {"OFF", "UNAVAILABLE"} /\ NoPin
        /\ worker.pc # "idle" => worker.frame \notin PinResponses

RadioInv == BootInv /\ OrderInv /\ SettledInv

LEMMA InitRadio == Init => RadioInv
<1> SUFFICES ASSUME Init PROVE RadioInv
  OBVIOUS
<1>1. /\ mode = "off" /\ radio = "UNAVAILABLE" /\ thread.pc = "idle" /\ pipe = << >>
      /\ received = << >> /\ sent = << >> /\ worker.pc = "idle" /\ Len(sent) = 0
  BY DEF Init
<1>2. Quiet
  BY <1>1 DEF Quiet, None
<1> QED BY <1>1, <1>2 DEF RadioInv, BootInv, OrderInv, SettledInv, Settled

\* The settled state in the words of the property.
LEMMA RadioIs ==
    ASSUME Types, RadioInv
    PROVE  RadioOffInLowPower
<1>1. DOMAIN sent = 1 .. Len(sent) /\ \A i \in 1 .. Len(sent) : sent[i] \in GoodFrames
  BY DEF Types
<1>2. worker.frame \in GoodFrames
  BY DEF Types
<1> QED BY <1>1, <1>2 DEF RadioOffInLowPower, RadioInv, SettledInv, Settled, None, OffFrames

LEMMA PinIs ==
    ASSUME Types
    PROVE  ~ PinOutstanding <=> NoPin
<1>1. /\ DOMAIN sent = 1 .. Len(sent) /\ \A i \in 1 .. Len(sent) : sent[i] \in GoodFrames
      /\ DOMAIN pipe = 1 .. Len(pipe) /\ \A i \in 1 .. Len(pipe) : pipe[i] \in GoodMessages
      /\ DOMAIN received = 1 .. Len(received)
      /\ \A i \in 1 .. Len(received) : received[i] \in GoodMessages
      /\ thread.message \in GoodMessages
  BY DEF Types
<1> QED BY <1>1 DEF PinOutstanding, NoPin, None, PinMessages, PinResponses, Responses

\* A frame that is read: what is said of all frames is said of the others.
LEMMA FramesShrink ==
    ASSUME Types, NEW f \in GoodFrames, 1 \in 1 .. Len(sent), f = sent[1],
           IsRemoval(sent, sent', 1), sent' \in Seq(GoodFrames), NEW G
    PROVE  /\ None(sent, G) => None(sent', G) /\ f \notin G
           /\ f \notin G /\ None(sent', G) => None(sent, G)
<1>1. /\ Len(sent) \in Nat /\ Len(sent') = Len(sent) - 1
      /\ \A i \in 1 .. Len(sent') : sent'[i] = sent[i + 1] /\ i + 1 \in 1 .. Len(sent)
  BY DEF IsRemoval, Types
<1>2. \A i \in 1 .. Len(sent) : i = 1 \/ (i - 1 \in 1 .. Len(sent') /\ (i - 1) + 1 = i)
  BY <1>1
<1>3. \A i \in 1 .. Len(sent) : i = 1 \/ sent'[i - 1] = sent[i]
  BY <1>1, <1>2
<1> QED BY <1>1, <1>2, <1>3 DEF None

\* A frame that is sent.
LEMMA FramesGrow ==
    ASSUME Types, NEW f \in GoodFrames, sent' = Append(sent, f), NEW G
    PROVE  None(sent', G) <=> None(sent, G) /\ f \notin G
<1>1. /\ Len(sent) \in Nat /\ Len(sent') = Len(sent) + 1 /\ sent'[Len(sent) + 1] = f
      /\ \A i \in 1 .. Len(sent) : sent'[i] = sent[i]
  BY DEF Types
<1>2. /\ \A i \in 1 .. Len(sent') : i \in 1 .. Len(sent) \/ i = Len(sent) + 1
      /\ 1 .. Len(sent) \subseteq 1 .. Len(sent') /\ Len(sent) + 1 \in 1 .. Len(sent')
  BY <1>1
<1> QED BY <1>1, <1>2 DEF None

\* The request thread, before the modem is up and afterwards.
LEMMA HandleRequestRadio ==
    ASSUME Types, RadioInv, NEW t \in Tokens, NEW kind, NEW key \in KeysOf(kind),
           HandleRequest(t, kind, key)
    PROVE  RadioInv'
<1>1. UNCHANGED << radio, pipe, worker, latePin, mode, received, sent >>
  BY HandleRequestDoes
<1>2. \/ thread' = thread
      \/ \E m \in GoodMessages :
           /\ m.op \in ExecutedOps \cup CallbackOps
           /\ m.op = "pin" => radio \notin {"UNAVAILABLE", "OFF"}
           /\ radio # "UNAVAILABLE" /\ thread'.message = m
  BY HandleRequestDoes
<1>3. Quiet => Quiet'
  BY <1>1, <1>2 DEF Quiet
<1>4. BootInv'
  BY <1>1, <1>3 DEF RadioInv, BootInv
<1>5. OrderInv' /\ (Settled' <=> Settled)
  BY <1>1 DEF RadioInv, OrderInv, Settled
<1>6. Settled /\ radio \in {"OFF", "UNAVAILABLE"} /\ NoPin => NoPin'
  <2>1. CASE thread' = thread
    BY <1>1, <2>1 DEF NoPin
  <2>2. ASSUME NEW m \in GoodMessages, m.op \in ExecutedOps \cup CallbackOps,
               m.op = "pin" => radio \notin {"UNAVAILABLE", "OFF"}, thread'.message = m
        PROVE  radio \in {"OFF", "UNAVAILABLE"} /\ NoPin => NoPin'
    BY <1>1, <2>2 DEF NoPin, PinMessages, ExecutedOps, CallbackOps
  <2> QED BY <1>2, <2>1, <2>2
<1>7. SettledInv'
  BY <1>1, <1>5, <1>6 DEF RadioInv, SettledInv
<1> QED BY <1>4, <1>5, <1>7 DEF RadioInv

LEMMA ThreadRadio ==
    ASSUME Types, RadioInv, AsyncWrite \/ SyncWrite \/ Take \/ Resume
    PROVE  RadioInv'
<1>1. /\ UNCHANGED << worker, latePin, mode, received, sent >> /\ thread.pc # "idle"
      /\ thread'.pc # "idle" => thread'.message = thread.message
      /\ pipe' \in {pipe, Append(pipe, thread.message)}
      /\ radio' # radio => radio' = "UNAVAILABLE" \/ thread.message.op = "pin"
  <2>1. CASE AsyncWrite
    BY <2>1 DEF AsyncWrite, modemVars, Idle
  <2>2. CASE SyncWrite
    BY <2>2 DEF SyncWrite, modemVars
  <2>3. CASE Take
    BY <2>3 DEF Take, modemVars
  <2>4. CASE Resume
    BY <2>4 DEF Resume, ApplyReply, modemVars, Idle
  <2> QED BY <2>1, <2>2, <2>3, <2>4
<1>2. ~ Quiet
  BY <1>1 DEF Quiet
<1>3. BootInv'
  BY <1>1, <1>2 DEF RadioInv, BootInv
<1>4. OrderInv' /\ (Settled' <=> Settled)
  BY <1>1 DEF RadioInv, OrderInv, Settled
<1>5. NoPin => NoPin' /\ thread.message.op # "pin"
  <2>1. pipe \in Seq(GoodMessages) /\ thread.message \in GoodMessages
    BY DEF Types
  <2>2. thread.message \notin PinMessages /\ None(pipe, PinMessages) => None(pipe', PinMessages)
    <3>1. PICK m \in GoodMessages : m = thread.message
      BY <2>1
    <3>2. m \notin PinMessages /\ None(pipe, PinMessages) => None(Append(pipe, m), PinMessages)
      BY <2>1, Appending
    <3> QED BY <1>1, <3>1, <3>2
  <2>3. thread.message \notin PinMessages => thread.message.op # "pin"
    BY <2>1 DEF PinMessages
  <2> QED BY <1>1, <2>2, <2>3 DEF NoPin
<1>6. SettledInv'
  BY <1>1, <1>4, <1>5 DEF RadioInv, SettledInv
<1> QED BY <1>3, <1>4, <1>6 DEF RadioInv

LEMMA ReadFrameRadio ==
    ASSUME Types, RadioInv, ReadFrame
    PROVE  RadioInv'
<1>1. PICK f \in GoodFrames :
        /\ worker.pc = "idle" /\ 1 \in 1 .. Len(sent) /\ f = sent[1]
        /\ IsRemoval(sent, sent', 1) /\ sent' \in Seq(GoodFrames)
        /\ UNCHANGED << thread, radio, pipe, latePin, mode, received >>
        /\ \/ worker' = worker /\ f.type \in {"RESP", "RESET"}
           \/ worker' = [pc |-> "handle", frame |-> f, message |-> NoMessage]
  BY ReadFrameDoes
<1>2. /\ Len(sent) \in Nat /\ Len(sent') = Len(sent) - 1
      /\ \A i \in 1 .. Len(sent') : sent'[i] = sent[i + 1] /\ i + 1 \in 1 .. Len(sent)
  BY <1>1 DEF IsRemoval, Types
<1>3. Quiet => Quiet'
  BY <1>1, FramesShrink DEF Quiet
<1>4. f.type = "BOOT" => Quiet
  BY <1>1 DEF RadioInv, BootInv
<1>5. BootInv'
  <2>1. mode # "off"
    BY <1>1 DEF RadioInv, BootInv
  <2>2. \A i \in 1 .. Len(sent') : sent'[i].type # "BOOT"
    <3>1. \A i \in 1 .. Len(sent') : i + 1 # 1
      OBVIOUS
    <3> QED BY <1>2, <3>1 DEF RadioInv, BootInv
  <2>3. worker'.pc # "idle" => worker'.pc # "write" /\ worker'.frame = f
    BY <1>1
  <2> QED BY <1>1, <1>3, <1>4, <2>1, <2>2, <2>3 DEF BootInv
<1>6. OrderInv'
  <2> SUFFICES ASSUME mode = "lpm"
               PROVE  /\ \A i \in 1 .. Len(sent') : sent'[i] \in OnFrames =>
                           \E j \in 1 .. Len(sent') : j > i /\ sent'[j] \in OffFrames
                      /\ worker'.pc # "idle" /\ worker'.frame \in OnFrames =>
                           ~ None(sent', OffFrames)
    BY <1>1 DEF OrderInv
  <2>1. ASSUME NEW i \in 1 .. Len(sent), sent[i] \in OnFrames
        PROVE  \E j \in 1 .. Len(sent') : j + 1 > i /\ sent'[j] \in OffFrames
    <3>1. PICK j \in 1 .. Len(sent) : j > i /\ sent[j] \in OffFrames
      BY <2>1 DEF RadioInv, OrderInv
    <3>2. j - 1 \in 1 .. Len(sent') /\ (j - 1) + 1 = j /\ (j - 1) + 1 > i
      BY <1>2, <3>1
    <3>3. sent'[j - 1] = sent[j]
      BY <1>2, <3>2
    <3> QED BY <3>1, <3>2, <3>3
  <2>2. ASSUME NEW i \in 1 .. Len(sent'), sent'[i] \in OnFrames
        PROVE  \E j \in 1 .. Len(sent') : j > i /\ sent'[j] \in OffFrames
    <3>1. PICK j \in 1 .. Len(sent') : j + 1 > i + 1 /\ sent'[j] \in OffFrames
      BY <1>2, <2>1, <2>2
    <3> QED BY <3>1
  <2>3. f \in OnFrames => ~ None(sent', OffFrames)
    BY <1>1, <2>1 DEF None
  <2> QED BY <1>1, <2>2, <2>3
<1>7. Settled' => Settled
  <2>1. f \in OffFrames => worker'.pc # "idle" /\ worker'.frame = f
    BY <1>1 DEF OffFrames
  <2>2. f \notin OffFrames /\ None(sent', OffFrames) => None(sent, OffFrames)
    BY <1>1, FramesShrink
  <2> QED BY <1>1, <2>1, <2>2 DEF Settled
<1>8. NoPin => NoPin' /\ f \notin PinResponses
  BY <1>1, FramesShrink DEF NoPin
<1>9. SettledInv'
  BY <1>1, <1>7, <1>8 DEF RadioInv, SettledInv
<1> QED BY <1>5, <1>6, <1>9 DEF RadioInv

LEMMA HandleFrameRadio ==
    ASSUME Types, Types', RadioInv, HandleFrame
    PROVE  RadioInv'
<1> DEFINE f == worker.frame
<1>1. /\ UNCHANGED << thread, pipe, mode, received, sent >> /\ worker.pc = "handle"
      /\ f \in GoodFrames
  BY DEF HandleFrame, modemVars, Types
<1>2. /\ \A i \in 1 .. Len(sent) : sent[i].type # "BOOT"
      /\ mode # "off"
  BY <1>1 DEF RadioInv, BootInv
<1>3. NoPin' <=> NoPin
  BY <1>1 DEF NoPin
<1>4. f \in OnFrames /\ mode = "lpm" => ~ None(sent, OffFrames)
  BY <1>1 DEF RadioInv, OrderInv
<1>5. ASSUME worker'.pc = "idle",
             \/ f.type \in {"RESP", "VALUE"} /\ UNCHANGED << radio, latePin >>
             \/ f \in PinResponses /\ (~ latePin' => ~ latePin)
             \/ f.type = "PIN" /\ latePin'
             \/ radio' = "OFF" /\ (~ latePin' => NoPin)
      PROVE  RadioInv'
  <2>1. BootInv'
    BY <1>1, <1>2, <1>5 DEF BootInv
  <2>2. OrderInv'
    BY <1>1, <1>5 DEF RadioInv, OrderInv
  <2>3. CASE f.type \in {"RESP", "VALUE"} /\ UNCHANGED << radio, latePin >>
    <3>1. Settled' => Settled
      BY <1>1, <2>3 DEF Settled, OffFrames
    <3>2. SettledInv'
      BY <1>3, <1>5, <2>3, <3>1 DEF RadioInv, SettledInv
    <3> QED BY <2>1, <2>2, <3>2 DEF RadioInv
  <2>4. CASE f \in PinResponses /\ (~ latePin' => ~ latePin)
    <3>1. f \notin OffFrames
      BY <2>4 DEF PinResponses, OffFrames, Responses
    <3>2. Settled' => Settled
      BY <1>1, <2>4, <3>1 DEF Settled
    <3>3. ~ Settled
      BY <1>1, <2>4 DEF RadioInv, SettledInv, Settled
    <3>4. SettledInv'
      BY <3>2, <3>3 DEF SettledInv
    <3> QED BY <2>1, <2>2, <3>4 DEF RadioInv
  <2>5. CASE radio' = "OFF" /\ (~ latePin' => NoPin)
    <3>1. SettledInv'
      BY <1>3, <1>5, <2>5 DEF SettledInv, Settled
    <3> QED BY <2>1, <2>2, <3>1 DEF RadioInv
  <2>6. CASE f.type = "PIN" /\ latePin'
    BY <2>1, <2>2, <2>6 DEF RadioInv, SettledInv, Settled
  <2> QED BY <1>5, <2>3, <2>4, <2>5, <2>6
<1>6. CASE CallbackComplete(f)
  BY <1>5, <1>6, WorkerIdleOK DEF CallbackComplete
<1>7. CASE PinStatusReported(f)
  <2>1. worker'.pc = "idle" /\ (f \in PinResponses \/ f.type = "PIN")
    BY <1>1, <1>7, WorkerIdleOK DEF PinStatusReported, PinResponses, Responses
  <2>2. (~ latePin' => ~ latePin) /\ (f.type = "PIN" => latePin')
    BY <1>7, Zenon DEF PinStatusReported
  <2> QED BY <1>5, <2>1, <2>2
<1>8. CASE BeginWorkerSubmit(f)
  <2>1. /\ worker'.pc = "write" /\ worker'.frame = f /\ UNCHANGED << radio, latePin >>
        /\ f.type = "BOOT" => worker'.message.op = "event"
        /\ f.type \in {"BOOT", "NORMAL"}
    BY <1>8 DEF BeginWorkerSubmit
  <2>2. Quiet => Quiet'
    BY <1>1, <2>1 DEF Quiet
  <2>3. BootInv'
    BY <1>1, <1>2, <2>1, <2>2 DEF RadioInv, BootInv
  <2>4. OrderInv'
    BY <1>1, <2>1 DEF RadioInv, OrderInv
  <2>5. ~ Settled'
    BY <1>1, <1>4, <2>1 DEF Settled, OffFrames, OnFrames
  <2> QED BY <2>3, <2>4, <2>5 DEF RadioInv, SettledInv
<1>9. CASE LowPowerMode(f)
  <2>1. worker'.pc = "idle" /\ radio' = "OFF"
    BY <1>9, WorkerIdleOK DEF LowPowerMode
  <2>2. ~ latePin' => ~ PinOutstanding
    BY <1>9, Zenon DEF LowPowerMode
  <2> QED BY <1>5, <2>1, <2>2, PinIs
<1>10. CASE ValueNotified(f)
  BY <1>5, <1>10, WorkerIdleOK DEF ValueNotified
<1> QED BY <1>6, <1>7, <1>8, <1>9, <1>10 DEF HandleFrame

LEMMA WorkerWriteRadio ==
    ASSUME Types, PathInv, RadioInv, WorkerWrite
    PROVE  RadioInv'
<1>1. /\ UNCHANGED << thread, latePin, mode, received, sent >> /\ worker.pc = "write"
      /\ pipe' = Append(pipe, worker.message) /\ worker'.pc = "idle"
      /\ radio' = IF worker.frame.type = "BOOT" THEN "OFF" ELSE radio
      /\ worker.frame \in GoodFrames /\ worker.frame.type \in {"BOOT", "NORMAL"}
      /\ pipe \in Seq(GoodMessages) /\ worker.message \in GoodMessages
  BY WorkerIdleOK DEF WorkerWrite, modemVars, Types, PathInv, WorkerInv
<1>2. BootInv'
  BY <1>1 DEF RadioInv, BootInv
<1>3. OrderInv'
  BY <1>1 DEF RadioInv, OrderInv
<1>4. CASE worker.frame.type = "BOOT"
  <2>1. Quiet /\ worker.message.op = "event"
    BY <1>1, <1>4 DEF RadioInv, BootInv
  <2>2. None(pipe, PinMessages) /\ worker.message \notin PinMessages
    BY <2>1 DEF Quiet, None, PinMessages
  <2>3. None(pipe', PinMessages)
    BY <1>1, <2>2, Appending
  <2>4. None(received, PinMessages) /\ None(sent, PinResponses)
    BY <2>1 DEF Quiet, None, PinResponses
  <2>5. NoPin'
    BY <1>1, <2>1, <2>3, <2>4 DEF NoPin, Quiet
  <2> QED BY <1>1, <1>2, <1>3, <1>4, <2>5 DEF RadioInv, SettledInv
<1>5. CASE worker.frame.type = "NORMAL"
  <2>1. mode = "lpm" => ~ None(sent, OffFrames)
    BY <1>1, <1>5 DEF RadioInv, OrderInv, OnFrames
  <2> QED BY <1>1, <1>2, <1>3, <2>1 DEF RadioInv, SettledInv, Settled
<1> QED BY <1>1, <1>4, <1>5

LEMMA DispatchControlRadio ==
    ASSUME Types, RadioInv, DispatchControl
    PROVE  RadioInv'
<1>1. PICK m \in GoodMessages :
        /\ 1 \in 1 .. Len(pipe) /\ m = pipe[1] /\ IsRemoval(pipe, pipe', 1)
        /\ pipe' \in Seq(GoodMessages)
        /\ received' = IF m.op = "event" THEN received ELSE Append(received, m)
        /\ UNCHANGED << thread, radio, worker, latePin, mode, sent >>
  BY DispatchControlDoes
<1>2. ~ Quiet
  BY <1>1 DEF Quiet
<1>3. BootInv'
  BY <1>1, <1>2 DEF RadioInv, BootInv
<1>4. OrderInv' /\ (Settled' <=> Settled)
  BY <1>1 DEF RadioInv, OrderInv, Settled
<1>5. NoPin => NoPin'
  <2> SUFFICES ASSUME NoPin PROVE NoPin'
    OBVIOUS
  <2>1. pipe \in Seq(GoodMessages) /\ received \in Seq(GoodMessages)
    BY DEF Types
  <2>2. None(pipe', PinMessages) /\ m \notin PinMessages
    BY <1>1, <2>1, Removal DEF NoPin, None
  <2>3. None(received', PinMessages)
    BY <1>1, <2>1, <2>2, Appending DEF NoPin
  <2> QED BY <1>1, <2>2, <2>3 DEF NoPin
<1>6. SettledInv'
  BY <1>1, <1>4, <1>5 DEF RadioInv, SettledInv
<1> QED BY <1>3, <1>4, <1>6 DEF RadioInv

\* In a mode that a frame does not change, what turns the radio on is followed
\* as before.
LEMMA SentOrder ==
    ASSUME Types, RadioInv, NEW f \in GoodFrames, sent' = Append(sent, f),
           UNCHANGED worker,
           mode' = "lpm" => f \in OffFrames \/ (mode = "lpm" /\ f \notin OnFrames)
    PROVE  OrderInv'
<1>1. /\ Len(sent) \in Nat /\ Len(sent') = Len(sent) + 1 /\ sent'[Len(sent) + 1] = f
      /\ \A i \in 1 .. Len(sent) : sent'[i] = sent[i]
  BY DEF Types
<1>2. /\ \A i \in 1 .. Len(sent') : i \in 1 .. Len(sent) \/ i = Len(sent) + 1
      /\ 1 .. Len(sent) \subseteq 1 .. Len(sent') /\ Len(sent) + 1 \in 1 .. Len(sent')
      /\ \A i \in 1 .. Len(sent) : Len(sent) + 1 > i
  BY <1>1
<1>3. None(sent', OffFrames) <=> None(sent, OffFrames) /\ f \notin OffFrames
  BY FramesGrow
<1>4. f \in OffFrames => f \notin OnFrames
  BY DEF OnFrames, OffFrames
<1> SUFFICES ASSUME mode' = "lpm"
             PROVE  /\ \A i \in 1 .. Len(sent') : sent'[i] \in OnFrames =>
                         \E j \in 1 .. Len(sent') : j > i /\ sent'[j] \in OffFrames
                    /\ worker.pc # "idle" /\ worker.frame \in OnFrames =>
                         ~ None(sent', OffFrames)
  BY DEF OrderInv
<1>5. CASE f \in OffFrames
  BY <1>1, <1>2, <1>3, <1>4, <1>5
<1>6. CASE mode = "lpm" /\ f \notin OnFrames
  BY <1>1, <1>2, <1>3, <1>6 DEF RadioInv, OrderInv
<1> QED BY <1>5, <1>6

LEMMA AnswerRadio ==
    ASSUME Types, RadioInv, NEW i \in DOMAIN received, Answer(i)
    PROVE  RadioInv'
<1>1. PICK f \in GoodFrames :
        /\ i \in 1 .. Len(received) /\ IsRemoval(received, received', i)
        /\ received' \in Seq(GoodMessages)
        /\ f.to = received[i] /\ f.type = "RESP" /\ sent' = Append(sent, f)
        /\ UNCHANGED << thread, radio, pipe, worker, latePin, mode >>
  BY AnswerDoes
<1>2. ~ Quiet
  BY <1>1 DEF Quiet
<1>3. f \notin OffFrames /\ f \notin OnFrames
  BY <1>1 DEF OffFrames, OnFrames
<1>4. BootInv'
  <2>1. mode # "off" /\ \A j \in 1 .. Len(sent) : sent[j].type # "BOOT"
    BY <1>2 DEF RadioInv, BootInv
  <2>2. None(sent, {g \in GoodFrames : g.type = "BOOT"})
    BY <2>1 DEF None
  <2>3. None(sent', {g \in GoodFrames : g.type = "BOOT"})
    BY <1>1, <2>2, FramesGrow
  <2>4. sent' \in Seq(GoodFrames)
    BY <1>1 DEF Types
  <2>5. \A j \in 1 .. Len(sent') : sent'[j].type # "BOOT"
    BY <2>3, <2>4 DEF None
  <2> QED BY <1>1, <1>2, <2>1, <2>5 DEF RadioInv, BootInv
<1>5. OrderInv'
  BY <1>1, <1>3, SentOrder
<1>6. Settled' <=> Settled
  BY <1>1, <1>3, FramesGrow DEF Settled
<1>7. NoPin => NoPin'
  <2> SUFFICES ASSUME NoPin PROVE NoPin'
    OBVIOUS
  <2>1. received \in Seq(GoodMessages) /\ received[i] \in GoodMessages
    BY <1>1 DEF Types
  <2>2. None(received', PinMessages) /\ f.to \notin PinMessages
    BY <1>1, <2>1, Removal DEF NoPin, None
  <2>3. f \notin PinResponses
    BY <1>1, <2>1, <2>2 DEF PinResponses, PinMessages
  <2>4. None(sent', PinResponses)
    BY <1>1, <2>3, FramesGrow DEF NoPin
  <2> QED BY <1>1, <2>2, <2>4 DEF NoPin
<1>8. SettledInv'
  BY <1>1, <1>6, <1>7 DEF RadioInv, SettledInv
<1> QED BY <1>4, <1>5, <1>8 DEF RadioInv

LEMMA NotifyRadio ==
    ASSUME Types, RadioInv, NotifyStep
    PROVE  RadioInv'
<1>1. PICK f \in GoodFrames :
        /\ f.type # "RESP" /\ sent' = Append(sent, f)
        /\ f.type = "BOOT" <=> mode = "off"
        /\ mode' = IF f.type \in {"BOOT", "LPM"} THEN "lpm"
                   ELSE IF f.type = "NORMAL" THEN "normal" ELSE mode
        /\ UNCHANGED << thread, radio, pipe, worker, latePin, received >>
  BY NotifyDoes
<1>2. f \notin Responses /\ f \notin PinResponses
  BY <1>1 DEF Responses, PinResponses
<1>3. Quiet => Quiet'
  BY <1>1, <1>2, FramesGrow DEF Quiet
<1>4. mode' # "off"
  BY <1>1
<1>5. BootInv'
  <2>1. /\ Len(sent) \in Nat /\ Len(sent') = Len(sent) + 1 /\ sent'[Len(sent) + 1] = f
        /\ \A i \in 1 .. Len(sent) : sent'[i] = sent[i]
        /\ \A i \in 1 .. Len(sent') : i \in 1 .. Len(sent) \/ i = Len(sent) + 1
    BY <1>1 DEF Types
  <2>2. f.type = "BOOT" => Len(sent) + 1 = 1 /\ Quiet /\ worker.pc = "idle"
    <3>1. mode = "off" => sent = << >> /\ Quiet /\ worker.pc = "idle"
      BY DEF RadioInv, BootInv
    <3> QED BY <1>1, <3>1
  <2>3. ASSUME NEW i \in 1 .. Len(sent'), sent'[i].type = "BOOT"
        PROVE  i = 1 /\ Quiet' /\ worker'.pc = "idle"
    BY <1>1, <1>3, <2>1, <2>2, <2>3 DEF RadioInv, BootInv
  <2> QED BY <1>1, <1>3, <1>4, <2>3 DEF RadioInv, BootInv
<1>6. mode' = "lpm" => f \in OffFrames \/ (mode = "lpm" /\ f \notin OnFrames)
  BY <1>1 DEF OffFrames, OnFrames
<1>7. OrderInv'
  BY <1>1, <1>6, SentOrder
<1>8. Settled' => Settled
  BY <1>1, <1>6, FramesGrow DEF Settled
<1>9. NoPin => NoPin'
  BY <1>1, <1>2, FramesGrow DEF NoPin
<1>10. SettledInv'
  BY <1>1, <1>8, <1>9 DEF RadioInv, SettledInv
<1> QED BY <1>5, <1>7, <1>10 DEF RadioInv

LEMMA NextRadio ==
    ASSUME Types, PathInv, RadioInv, [Next]_vars
    PROVE  RadioInv'
<1>1. Types'
  BY NextTypes
<1>2. CASE UNCHANGED << thread, radio, pipe, worker, latePin, mode, received, sent >>
  BY <1>2 DEF RadioInv, BootInv, OrderInv, SettledInv, Settled, NoPin, Quiet
<1> QED BY <1>1, <1>2, Steps, HandleRequestRadio, ThreadRadio, ReadFrameRadio,
           HandleFrameRadio, WorkerWriteRadio, DispatchControlRadio, AnswerRadio,
           NotifyRadio

-----------------------------------------------------------------------------
(* The theorems.                                                           *)

Inv == Types /\ PathInv /\ CacheInv /\ RadioInv

\* The inductive invariant of the request path: where the message of a pending
\* request is (PathInv), how current the values on their way are (CacheInv) and
\* in which order the frames about the radio come (RadioInv).
THEOREM Invariance == Spec => []Inv
<1>1. Init => Inv
  BY InitTypes, InitPath, InitCache, InitRadio DEF Inv
<1>2. Inv /\ [Next]_vars => Inv'
  BY NextTypes, NextPath, NextCache, NextRadio DEF Inv
<1> QED BY <1>1, <1>2, PTL DEF Spec

\* Type correctness: the control pipe never holds more than it can, messages and
\* frames are of the sets the handlers expect.
THEOREM TypeCorrect == Spec => []TypeOK
<1>1. Inv => TypeOK
  BY DEF Inv, Types
<1> QED BY <1>1, Invariance, PTL

\* Request::complete, which deletes the request, is called once for each
\* accepted request: a pending request has exactly one future completer.
THEOREM RequestsCompletedOnce == Spec => []OneCompleter
<1>1. Inv => OneCompleter
  BY PathCompletes DEF Inv
<1> QED BY <1>1, Invariance, PTL

\* RIL::execute returns with the reply to the message it submitted, although
\* one semaphore serves every execute() and the completion takes no mutex.
THEOREM ExecuteReturnsOwnReply == Spec => []WakesWithOwnReply
<1>1. Inv => WakesWithOwnReply
  BY DEF Inv, PathInv, ThreadInv
<1> QED BY <1>1, Invariance, PTL

\* The request thread and the worker wait for each other only when the control
\* pipe is full, however many messages it holds.
THEOREM DeadlockNeedsFullPipe == Spec => []HangNeedsFullPipe
<1>1. Inv => HangNeedsFullPipe
  BY PathHangs DEF Inv
<1> QED BY <1>1, Invariance, PTL

\* The message cache: an entry is out of date only while its change is on its
\* way to the worker, or if the put at the end of execute() was overtaken.
THEOREM CacheFollowsModem == Spec => []CacheCoherent
<1>1. Inv => CacheCoherent
  BY DEF Inv, CacheInv
<1> QED BY <1>1, Invariance, PTL

\* m_radioState: once PwrPhoneModeChanged(LPM) has been handled the radio stays
\* off, unless a request for the SIM state was outstanding then.
THEOREM RadioStaysOff == Spec => []RadioOffInLowPower
<1>1. Inv => RadioOffInLowPower
  BY RadioIs DEF Inv
<1> QED BY <1>1, Invariance, PTL

=============================================================================
