---------------------------- MODULE Calls_proofs -----------------------------
(***************************************************************************)
(* Theorems about Calls, for any set of identifiers, any causes and any    *)
(* bounds.                                                                 *)
(*                                                                         *)
(* The cause of an ended call is right because of an order: the modem      *)
(* announces the end before it makes a list without the call, both go      *)
(* through one queue, and the worker handles the first before it delivers  *)
(* the second.  The invariant says so for a list wherever it is (Listing). *)
(* The right call is addressed because the list of identifiers and the     *)
(* list Android has were made together (ListInv) and do not change while a *)
(* command is on its way (FlightInv, CommandInv).                          *)
(***************************************************************************)
EXTENDS Calls, FiniteSetTheorems, SequenceTheorems, TLAPS

-----------------------------------------------------------------------------
(* The invariant.                                                          *)

\* What the modem holds under its identifiers, and the calls of a list.
Books == [Ids -> Calls \cup {None}]
LiveIn(book) == {i \in Ids : book[i] # None}
Below(book) == \A i \in Ids : book[i] # None => book[i] \in 1 .. born

\* The calls that Android was told of and that are not in a newer book; a set of
\* calls that have ended.
Vanished(book) == (Range(listed) \ Range(book)) \ {None}
Past(ended) == \A c \in ended : c \in 1 .. born /\ c \notin Range(calls)

\* No state change is announced behind the p-th message.
NoChangeAfter(p) == \A q \in 1 .. Len(up) : q > p => up[q].type # "change"
NoReply == \A q \in 1 .. Len(up) : up[q].type # "reply"

\* One reply to each request, and none without.
FlightInv ==
    /\ request = None => down = None /\ NoReply
    /\ down # None => request # None /\ request.reply = None /\ NoReply
    /\ request # None /\ request.reply # None => NoReply
    /\ \A p, q \in 1 .. Len(up) : up[p].type = "reply" /\ up[q].type = "reply" => p = q
    /\ down # None /\ request.name = "CurrentCalls" => down.name = "GetCallList"

\* A list that is behind p messages: it was true when it was made, and the end of
\* a call that it no longer has was announced before it.
Listing(list, p) ==
    list.ok /\ request.name = "CurrentCalls" =>
        /\ list.ids \in Seq(Ids) /\ list.calls \in Books
        /\ Range(list.ids) = LiveIn(list.calls)
        /\ Below(list.calls) /\ Past(Vanished(list.calls))
        /\ lastChange.ends /\ lastChange.call \in Vanished(list.calls) => NoChangeAfter(p)

ListInv ==
    /\ \A p \in 1 .. Len(up) : up[p].type = "reply" => Listing(up[p], p)
    /\ request # None /\ request.reply # None => Listing(request.reply, 0)
    /\ Range(callIds) = LiveIn(listed)
    /\ Below(listed) /\ Below(calls)

\* The cause that the worker has, or will have when it has caught up.
CauseInv ==
    /\ Past(gone)
    /\ lastChange.ends /\ lastChange.call \in gone => NoChangeAfter(0)
    /\ lastChange.ends =>
         \/ /\ NoChangeAfter(0)
            /\ failCause = MapCallFail(lastChange.cause[1], lastChange.cause[2])
         \/ \E p \in 1 .. Len(up) : /\ up[p].type = "change" /\ up[p].cause = lastChange.cause
                                    /\ NoChangeAfter(p)

\* The command that addresses the call Android asked for.
Addresses ==
    \/ /\ request.name = "Hangup" /\ down.name = "Release"
       /\ Len(callIds) = 1 /\ request.asked \in Range(listed)
    \/ \E line \in 1 .. Len(callIds) :
         /\ line \in Ids /\ request.asked = listed[line] /\ down.callId = callIds[line]
         /\ \/ request.name = "Hangup" /\ down.name = "HangupSpecificCall" /\ Len(callIds) # 1
            \/ request.name = "Separate" /\ down.name = "SeparateConnection"

CommandInv == down # None /\ request.asked # None => Addresses

Incoming == [type |-> "incoming"]
Messages == {Incoming} \cup [type : {"change"}, cause : Causes \cup {NoCause}]
            \cup [type : {"reply"}, ok : BOOLEAN, ids : Seq(Ids), calls : Books \cup {None}]

Types ==
    /\ callIds \in Seq(Ids)
    /\ listed \in Books /\ calls \in Books
    /\ born \in 0 .. MaxCalls
    /\ request # None => request \in [name : RequestNames, asked : Calls \cup {None},
                                      reply : {None} \cup Messages]
    /\ up \in Seq(Messages)

Inv ==
    /\ Types /\ FlightInv /\ ListInv /\ CauseInv /\ CommandInv
    /\ RightCallAddressed

LEMMA InitInv == Init => Inv
<1> SUFFICES ASSUME Init PROVE Inv
  OBVIOUS
<1>1. /\ callIds = << >> /\ request = None /\ listed = [i \in Ids |-> None] /\ gone = {}
      /\ down = None /\ up = << >> /\ calls = [i \in Ids |-> None] /\ born = 0
      /\ ~ lastChange.ends /\ outcome = None
  BY DEF Init
<1>2. Types
  BY <1>1, ConstantsAssumption DEF Types, Books
<1>3. FlightInv
  BY <1>1 DEF FlightInv, NoReply
<1>4. Range(callIds) = {} /\ LiveIn(listed) = {}
  BY <1>1 DEF Range, LiveIn
<1>5. ListInv
  <2>1. Len(up) = 0 /\ request = None /\ Below(listed) /\ Below(calls)
    BY <1>1 DEF Below
  <2> QED BY <1>4, <2>1 DEF ListInv
<1>6. CauseInv
  BY <1>1 DEF CauseInv, Past
<1>7. CommandInv /\ RightCallAddressed
  BY <1>1 DEF CommandInv, RightCallAddressed
<1> QED BY <1>2, <1>3, <1>5, <1>6, <1>7 DEF Inv

-----------------------------------------------------------------------------
(* The request thread.                                                     *)

PlainStep ==
    \/ HandleCurrentCalls \/ HandleDial \/ HandleAnswer
    \/ HandleSwitchWaitingOrHoldingAndActive \/ HandleConference \/ HandleUDUB
    \/ HandleExplicitCallTransfer
    \/ HandleDTMF \/ HandleDTMFStart \/ HandleDTMFStop
    \/ HandleHangupWaitingOrBackground \/ HandleHangupForegroundResumeBackground

\* What a handler that names no call does.
LEMMA PlainDoes ==
    ASSUME PlainStep
    PROVE  /\ request = None /\ outcome' = None
           /\ \/ Refuse
              \/ \E name \in RequestNames : \E c :
                   /\ Execute(name, c, None)
                   /\ name = "CurrentCalls" => c.name = "GetCallList"
<1>1. CASE HandleCurrentCalls
  BY <1>1 DEF HandleCurrentCalls, Idle, RequestNames, Command
<1>2. CASE HandleDial \/ HandleDTMF \/ HandleDTMFStart \/ HandleDTMFStop
  BY <1>2 DEF HandleDial, HandleDTMF, HandleDTMFStart, HandleDTMFStop, ContinuousDTMF, Idle,
              RequestNames
<1>3. CASE HandleAnswer
  BY <1>3 DEF HandleAnswer, Idle, RequestNames
<1>4. CASE \/ HandleSwitchWaitingOrHoldingAndActive \/ HandleConference \/ HandleUDUB
           \/ HandleExplicitCallTransfer
  BY <1>4 DEF HandleSwitchWaitingOrHoldingAndActive, HandleConference, HandleUDUB,
              HandleExplicitCallTransfer, ManageCalls, Idle, RequestNames
<1>5. CASE HandleHangupWaitingOrBackground \/ HandleHangupForegroundResumeBackground
  BY <1>5 DEF HandleHangupWaitingOrBackground, HandleHangupForegroundResumeBackground,
              HangupSome, Idle, RequestNames
<1> QED BY <1>1, <1>2, <1>3, <1>4, <1>5 DEF PlainStep

\* The command c of a request for the call on a line.
AddressedBy(name, c, line) ==
    \/ name = "Hangup" /\ c.name = "Release" /\ Len(callIds) = 1
    \/ /\ line \in 1 .. Len(callIds) /\ c.callId = callIds[line]
       /\ \/ name = "Hangup" /\ c.name = "HangupSpecificCall" /\ Len(callIds) # 1
          \/ name = "Separate" /\ c.name = "SeparateConnection"

LEMMA OnLineDoes ==
    ASSUME Types, NEW line \in Ids, NEW name, NEW command, OnLine(name, command, line),
           \/ name = "Hangup" /\ command = "HangupSpecificCall" /\ Len(callIds) # 1
           \/ name = "Separate" /\ command = "SeparateConnection"
    PROVE  \/ /\ Refuse /\ outcome' = Outcome(name, listed[line], {}, FALSE)
              /\ line > Len(callIds) /\ ~ (name = "Hangup" /\ Len(callIds) = 1)
           \/ \E c : /\ Execute(name, c, listed[line]) /\ outcome' = None
                     /\ AddressedBy(name, c, line)
<1>1. line \in Nat /\ line >= 1 /\ Len(callIds) \in Nat
  BY ConstantsAssumption, FS_CardinalityType DEF Types
<1>2. CASE line > Len(callIds)
  BY <1>2 DEF OnLine
<1>3. CASE ~ (line > Len(callIds))
  <2>1. line \in 1 .. Len(callIds)
    BY <1>1, <1>3
  <2> DEFINE c == Command(command, callIds[line])
  <2>2. Execute(name, c, listed[line]) /\ outcome' = None
    BY <1>3 DEF OnLine
  <2>3. c.name = command /\ c.callId = callIds[line]
    BY DEF Command
  <2> HIDE DEF c
  <2>4. AddressedBy(name, c, line)
    BY <2>1, <2>3 DEF AddressedBy
  <2> QED BY <2>2, <2>4
<1> QED BY <1>2, <1>3

\* What a handler that names a call does.
LEMMA LineDoes ==
    ASSUME Types, NEW line \in Ids, HandleHangup(line) \/ HandleSeparateConnection(line)
    PROVE  /\ request = None
           /\ \E name \in {"Hangup", "Separate"} :
                \/ /\ Refuse /\ outcome' = Outcome(name, listed[line], {}, FALSE)
                   /\ line > Len(callIds) /\ ~ (name = "Hangup" /\ Len(callIds) = 1)
                \/ \E c : /\ Execute(name, c, listed[line]) /\ outcome' = None
                          /\ AddressedBy(name, c, line)
<1>1. request = None
  BY DEF HandleHangup, HandleSeparateConnection, Idle
<1>2. CASE HandleSeparateConnection(line)
  BY <1>1, <1>2, OnLineDoes DEF HandleSeparateConnection
<1>3. CASE HandleHangup(line) /\ callIds = << >>
  <2>1. Refuse /\ outcome' = Outcome("Hangup", listed[line], {}, FALSE)
    BY <1>3 DEF HandleHangup
  <2>2. line > Len(callIds) /\ Len(callIds) # 1
    BY <1>3, ConstantsAssumption, FS_CardinalityType
  <2> QED BY <1>1, <2>1, <2>2
<1>4. CASE HandleHangup(line) /\ callIds # << >> /\ Len(callIds) = 1
  <2> DEFINE c == Command("Release", 0)
  <2>1. Execute("Hangup", c, listed[line]) /\ outcome' = None
    BY <1>4 DEF HandleHangup
  <2>2. AddressedBy("Hangup", c, line)
    BY <1>4 DEF AddressedBy, Command
  <2> HIDE DEF c
  <2> QED BY <1>1, <2>1, <2>2
<1>5. CASE HandleHangup(line) /\ callIds # << >> /\ Len(callIds) # 1
  <2>1. OnLine("Hangup", "HangupSpecificCall", line)
    BY <1>5 DEF HandleHangup
  <2> QED BY <1>1, <1>5, <2>1, OnLineDoes
<1> QED BY <1>2, <1>3, <1>4, <1>5

\* What does not depend on the request that waits.
LEMMA QueueKept ==
    ASSUME Inv, UNCHANGED << callIds, failCause, listed, gone, up, calls, born, lastChange >>
    PROVE  /\ CauseInv' /\ Range(callIds)' = LiveIn(listed)' /\ Below(listed)' /\ Below(calls)'
           /\ NoReply => NoReply'
BY DEF Inv, CauseInv, ListInv, Past, NoChangeAfter, Below, LiveIn, NoReply

LEMMA ExecuteInv ==
    ASSUME Inv, request = None, NEW name \in RequestNames, NEW c,
           NEW asked \in Calls \cup {None}, Execute(name, c, asked), outcome' = None,
           name = "CurrentCalls" => c.name = "GetCallList",
           asked # None => \E line \in Ids : asked = listed[line] /\ AddressedBy(name, c, line)
    PROVE  Inv'
<1>1. /\ UNCHANGED << callIds, failCause, listed, gone, up, calls, born, lastChange >>
      /\ request' = [name |-> name, asked |-> asked, reply |-> None] /\ down' = c
  BY DEF Execute, modemVars
<1>2. /\ request' \in Requests /\ request' # None
      /\ request'.name = name /\ request'.asked = asked /\ request'.reply = None
  BY <1>1, ConstantsAssumption DEF Requests
<1>3. NoReply /\ NoReply'
  BY <1>1 DEF Inv, FlightInv, NoReply
<1>4. Types'
  BY <1>1, <1>2 DEF Inv, Types, Requests
<1>5. FlightInv'
  BY <1>1, <1>2, <1>3 DEF FlightInv, NoReply
<1>6. CauseInv' /\ Range(callIds)' = LiveIn(listed)' /\ Below(listed)' /\ Below(calls)'
  BY <1>1, QueueKept
<1>7. ListInv'
  BY <1>2, <1>3, <1>6 DEF ListInv, NoReply
<1>8. CommandInv'
  <2> SUFFICES ASSUME asked # None PROVE Addresses'
    BY <1>2 DEF CommandInv
  <2>1. PICK line \in Ids : asked = listed[line] /\ AddressedBy(name, c, line)
    OBVIOUS
  <2>2. asked \in Range(listed)
    BY <2>1 DEF Inv, Types, Books, Range
  <2> QED BY <1>1, <1>2, <2>1, <2>2 DEF AddressedBy, Addresses
<1>9. RightCallAddressed'
  BY DEF RightCallAddressed
<1> QED BY <1>4, <1>5, <1>6, <1>7, <1>8, <1>9 DEF Inv

LEMMA RefuseInv ==
    ASSUME Inv, Refuse, RightCallAddressed'
    PROVE  Inv'
<1>1. UNCHANGED << callIds, failCause, request, listed, gone, down, up, calls, born,
                   lastChange >>
  BY DEF Refuse, hostVars, modemVars
<1>2. CauseInv' /\ Range(callIds)' = LiveIn(listed)' /\ Below(listed)' /\ Below(calls)'
  BY <1>1, QueueKept
<1>3. Types' /\ FlightInv'
  BY <1>1 DEF Inv, Types, FlightInv, NoReply
<1>4. ListInv'
  BY <1>1, <1>2 DEF Inv, ListInv, Listing, Below, Past, Vanished, NoChangeAfter, LiveIn
<1>5. CommandInv'
  BY <1>1 DEF Inv, CommandInv, Addresses
<1> QED BY <1>2, <1>3, <1>4, <1>5 DEF Inv

LEMMA PlainInv ==
    ASSUME Inv, PlainStep
    PROVE  Inv'
<1>1. RightCallAddressed'
  BY PlainDoes DEF RightCallAddressed
<1> QED BY <1>1, PlainDoes, ExecuteInv, RefuseInv

LEMMA LineInv ==
    ASSUME Inv, NEW line \in Ids, HandleHangup(line) \/ HandleSeparateConnection(line)
    PROVE  Inv'
<1>1. Types /\ callIds \in Seq(Ids) /\ listed \in Books
  BY DEF Inv, Types
<1>2. PICK name \in {"Hangup", "Separate"} :
        \/ /\ Refuse /\ outcome' = Outcome(name, listed[line], {}, FALSE)
           /\ line > Len(callIds) /\ ~ (name = "Hangup" /\ Len(callIds) = 1)
        \/ \E c : /\ Execute(name, c, listed[line]) /\ outcome' = None
                  /\ AddressedBy(name, c, line)
  BY <1>1, LineDoes
<1>3. request = None
  BY <1>1, LineDoes
<1>4. ASSUME NEW c, Execute(name, c, listed[line]), outcome' = None,
             AddressedBy(name, c, line)
      PROVE  Inv'
  <2>1. PICK asked \in Calls \cup {None} : asked = listed[line]
    BY <1>1 DEF Books
  <2> QED BY <1>3, <1>4, <2>1, ExecuteInv DEF RequestNames
<1>5. ASSUME Refuse, outcome' = Outcome(name, listed[line], {}, FALSE),
             line > Len(callIds), ~ (name = "Hangup" /\ Len(callIds) = 1)
      PROVE  Inv'
  <2>1. /\ outcome'.asked = listed[line]
        /\ outcome'.inOrder = (InLineOrder \/ (name = "Hangup" /\ Len(callIds) = 1))
    BY <1>5 DEF Outcome
  <2>2. outcome'.inOrder => InLineOrder
    BY <1>5, <2>1
  <2>3. ASSUME InLineOrder, listed[line] # None
        PROVE  FALSE
    <3>1. line \in Range(callIds)
      BY <2>3 DEF Inv, ListInv, LiveIn
    <3>2. PICK k \in DOMAIN callIds : callIds[k] = line
      BY <3>1 DEF Range
    <3>3. k = line /\ k \in 1 .. Len(callIds)
      BY <1>1, <2>3, <3>2 DEF InLineOrder
    <3> QED BY <1>1, <1>5, <3>3
  <2>4. RightCallAddressed'
    BY <2>1, <2>2, <2>3 DEF RightCallAddressed
  <2> QED BY <1>5, <2>4, RefuseInv
<1> QED BY <1>2, <1>4, <1>5

LEMMA CompleteRequestInv ==
    ASSUME Inv, CompleteRequest
    PROVE  Inv'
<1>1. /\ request # None /\ request.reply # None /\ request' = None /\ outcome' = None
      /\ UNCHANGED << failCause, down, up, calls, born, lastChange >>
  BY DEF CompleteRequest, modemVars
<1>2. NoReply /\ down = None
  BY <1>1 DEF Inv, FlightInv
<1>3. FlightInv' /\ CommandInv' /\ RightCallAddressed'
  BY <1>1, <1>2 DEF FlightInv, NoReply, CommandInv, RightCallAddressed
<1>4. CASE request.name = "CurrentCalls" /\ request.reply.ok
  <2> DEFINE list == request.reply
  <2>1. /\ callIds' = list.ids /\ listed' = list.calls
        /\ gone' = (Range(listed) \ Range(list.calls)) \ {None}
    BY <1>4 DEF CompleteRequest
  <2>2. /\ list.ids \in Seq(Ids) /\ list.calls \in Books
        /\ Range(list.ids) = LiveIn(list.calls)
        /\ Below(list.calls) /\ Past(Vanished(list.calls))
        /\ lastChange.ends /\ lastChange.call \in Vanished(list.calls) => NoChangeAfter(0)
    BY <1>1, <1>4 DEF Inv, ListInv, Listing
  <2> HIDE DEF list
  <2>3. gone' = Vanished(list.calls)
    BY <2>1 DEF Vanished
  <2>4. Types'
    BY <1>1, <2>1, <2>2 DEF Inv, Types
  <2>5. ListInv'
    BY <1>1, <1>2, <2>1, <2>2 DEF Inv, ListInv, NoReply, Below, LiveIn
  <2>6. Past(gone)' /\ (NoChangeAfter(0)' <=> NoChangeAfter(0))
    BY <1>1, <2>2, <2>3 DEF Past, NoChangeAfter
  <2>7. CauseInv'
    BY <1>1, <2>2, <2>3, <2>6 DEF Inv, CauseInv, NoChangeAfter
  <2> QED BY <1>3, <2>4, <2>5, <2>7 DEF Inv
<1>5. CASE ~ (request.name = "CurrentCalls" /\ request.reply.ok)
  <2>1. UNCHANGED << callIds, listed, gone >>
    BY <1>5 DEF CompleteRequest
  <2>2. CauseInv' /\ Range(callIds)' = LiveIn(listed)' /\ Below(listed)' /\ Below(calls)'
    BY <1>1, <2>1, QueueKept
  <2>3. ListInv'
    BY <1>1, <1>2, <2>2 DEF ListInv, NoReply
  <2>4. Types'
    BY <1>1, <2>1 DEF Inv, Types
  <2> QED BY <1>3, <2>2, <2>3, <2>4 DEF Inv
<1> QED BY <1>4, <1>5

-----------------------------------------------------------------------------
(* The worker thread.                                                      *)

\* The first message is taken: the others move up by one.
LEMMA Taken ==
    ASSUME Inv, up # << >>, up' = Tail(up), UNCHANGED << listed, calls, born, lastChange >>,
           request' # None /\ request # None => request'.name = request.name
    PROVE  /\ up' \in Seq(Messages) /\ Head(up) = up[1] /\ 1 \in 1 .. Len(up)
           /\ Head(up) \in Messages
           /\ \A q \in 1 .. Len(up') : up'[q] = up[q + 1] /\ q + 1 \in 1 .. Len(up) /\ q + 1 > 1
           /\ NoChangeAfter(0) => NoChangeAfter(0)'
           /\ \A p \in Nat : NoChangeAfter(p + 1) => NoChangeAfter(p)'
           /\ NoReply => NoReply'
           /\ up[1].type = "reply" => NoReply'
           /\ request # None /\ request' # None =>
                \A q \in 1 .. Len(up') : up'[q].type = "reply" => Listing(up[q], q)'
<1>1. up \in Seq(Messages) /\ Len(up) \in Nat
  BY DEF Inv, Types
<1>2. /\ up' \in Seq(Messages) /\ Head(up) = up[1] /\ 1 \in 1 .. Len(up)
      /\ Head(up) \in Messages
      /\ \A q \in 1 .. Len(up') : up'[q] = up[q + 1] /\ q + 1 \in 1 .. Len(up) /\ q + 1 > 1
  BY <1>1
<1>3. NoChangeAfter(0) => NoChangeAfter(0)'
  BY <1>2 DEF NoChangeAfter
<1>4. ASSUME NEW p \in Nat, NoChangeAfter(p + 1)
      PROVE  NoChangeAfter(p)'
  <2>1. \A q \in 1 .. Len(up') : q > p => q + 1 > p + 1
    OBVIOUS
  <2> QED BY <1>2, <1>4, <2>1 DEF NoChangeAfter
<1>5. NoReply => NoReply'
  BY <1>2 DEF NoReply
<1>6. up[1].type = "reply" => NoReply'
  <2>1. \A q \in 1 .. Len(up') : q + 1 # 1
    OBVIOUS
  <2> QED BY <1>2, <2>1 DEF Inv, FlightInv, NoReply
<1>7. ASSUME request # None, request' # None, NEW q \in 1 .. Len(up'), up'[q].type = "reply"
      PROVE  Listing(up[q], q)'
  <2>1. PICK list \in Messages : list = up'[q] /\ list = up[q + 1] /\ list.type = "reply"
    BY <1>1, <1>2, <1>7
  <2>2. Listing(list, q + 1)
    BY <1>2, <2>1 DEF Inv, ListInv
  <2>3. q \in Nat /\ (NoChangeAfter(q + 1) => NoChangeAfter(q)')
    BY <1>4
  <2>4. Vanished(list.calls)' = Vanished(list.calls)
    BY DEF Vanished
  <2>5. Listing(list, q)'
    BY <1>7, <2>2, <2>3, <2>4 DEF Listing, Below, Past, LiveIn
  <2> QED BY <2>1, <2>5
<1> QED BY <1>2, <1>3, <1>4, <1>5, <1>6, <1>7

LEMMA TakenListing ==
    ASSUME Inv, up # << >>, up' = Tail(up), UNCHANGED << listed, calls, born, lastChange >>,
           request' = request, request # None, request.reply # None
    PROVE  Listing(request.reply, 0)'
<1>1. Listing(request.reply, 0)
  BY DEF Inv, ListInv
<1>2. NoChangeAfter(0) => NoChangeAfter(0)'
  BY Taken
<1> QED BY <1>1, <1>2 DEF Listing, Below, Past, LiveIn, Vanished

\* What is left of FlightInv.
LEMMA TakenFlight ==
    ASSUME Inv, up # << >>, up' = Tail(up), UNCHANGED << listed, calls, born, lastChange >>,
           UNCHANGED << request, down >>
    PROVE  FlightInv'
<1>1. NoReply => NoReply'
  BY Taken
<1>2. ASSUME NEW p \in 1 .. Len(up'), NEW q \in 1 .. Len(up'),
             up'[p].type = "reply", up'[q].type = "reply"
      PROVE  p = q
  <2>1. /\ p + 1 \in 1 .. Len(up) /\ up'[p] = up[p + 1]
        /\ q + 1 \in 1 .. Len(up) /\ up'[q] = up[q + 1]
    BY Taken
  <2>2. p + 1 = q + 1
    BY <1>2, <2>1 DEF Inv, FlightInv
  <2> QED BY <2>2
<1>3. /\ request = None => down = None /\ NoReply
      /\ down # None => request # None /\ request.reply = None /\ NoReply
      /\ request # None /\ request.reply # None => NoReply
      /\ down # None /\ request.name = "CurrentCalls" => down.name = "GetCallList"
  BY DEF Inv, FlightInv
<1> QED BY <1>1, <1>2, <1>3 DEF FlightInv

LEMMA IncomingInv ==
    ASSUME Inv, HandleCallIncoming
    PROVE  Inv'
<1>1. /\ up # << >> /\ up' = Tail(up) /\ Head(up).type = "incoming"
      /\ UNCHANGED << callIds, failCause, request, listed, gone, down, calls, born,
                      lastChange, outcome >>
  BY DEF HandleCallIncoming, Received, hostVars, modemVars
<1>2. /\ up' \in Seq(Messages) /\ Head(up) = up[1]
      /\ \A q \in 1 .. Len(up') : up'[q] = up[q + 1] /\ q + 1 \in 1 .. Len(up)
      /\ NoChangeAfter(0) => NoChangeAfter(0)'
      /\ NoReply => NoReply'
      /\ request # None =>
           \A q \in 1 .. Len(up') : up'[q].type = "reply" => Listing(up[q], q)'
  BY <1>1, Taken
<1>3. Types' /\ RightCallAddressed'
  BY <1>1, <1>2 DEF Inv, Types, RightCallAddressed
<1>4. FlightInv'
  BY <1>1, TakenFlight
<1>5. ListInv'
  <2>1. request = None => NoReply'
    BY <1>2 DEF Inv, FlightInv
  <2>2. /\ Range(callIds)' = LiveIn(listed)' /\ Below(listed)' /\ Below(calls)'
    BY <1>1 DEF Inv, ListInv, LiveIn, Below
  <2>3. request # None /\ request.reply # None => Listing(request.reply, 0)'
    BY <1>1, TakenListing
  <2>4. \A q \in 1 .. Len(up') : up'[q].type = "reply" => Listing(up[q], q)'
    BY <1>2, <2>1 DEF NoReply
  <2> QED BY <1>1, <2>2, <2>3, <2>4 DEF ListInv
<1>6. CauseInv'
  <2>1. Past(gone)'
    BY <1>1 DEF Inv, CauseInv, Past
  <2>2. ASSUME NEW p \in 1 .. Len(up), up[p].type = "change",
               up[p].cause = lastChange.cause, NoChangeAfter(p)
        PROVE  \E q \in 1 .. Len(up') : /\ up'[q].type = "change"
                                        /\ up'[q].cause = lastChange.cause
                                        /\ NoChangeAfter(q)'
    <3>1. p # 1
      BY <1>1, <1>2, <2>2
    <3>2. up \in Seq(Messages)
      BY DEF Inv, Types
    <3>3. p - 1 \in 1 .. Len(up') /\ (p - 1) + 1 = p /\ p - 1 \in Nat
      BY <1>1, <3>1, <3>2
    <3>4. up'[p - 1] = up[p]
      BY <1>2, <3>3
    <3>5. NoChangeAfter(p - 1)'
      BY <1>1, <2>2, <3>3, Taken
    <3> QED BY <2>2, <3>3, <3>4, <3>5
  <2>3. CASE NoChangeAfter(0)
    BY <1>1, <1>2, <2>1, <2>2, <2>3 DEF Inv, CauseInv
  <2>4. CASE ~ NoChangeAfter(0)
    <3>1. lastChange.ends => lastChange.call \notin gone
      BY <2>4 DEF Inv, CauseInv
    <3>2. lastChange.ends =>
            \E p \in 1 .. Len(up) : /\ up[p].type = "change" /\ up[p].cause = lastChange.cause
                                    /\ NoChangeAfter(p)
      BY <2>4 DEF Inv, CauseInv
    <3> QED BY <1>1, <2>1, <2>2, <3>1, <3>2 DEF CauseInv
  <2> QED BY <2>3, <2>4
<1>7. CommandInv'
  BY <1>1 DEF Inv, CommandInv, Addresses
<1> QED BY <1>3, <1>4, <1>5, <1>6, <1>7 DEF Inv

LEMMA StateChangedInv ==
    ASSUME Inv, HandleCallStateChanged
    PROVE  Inv'
<1>1. /\ up # << >> /\ up' = Tail(up) /\ Head(up).type = "change"
      /\ failCause' = MapCallFail(Head(up).cause[1], Head(up).cause[2])
      /\ UNCHANGED << callIds, request, listed, gone, down, calls, born, lastChange, outcome >>
  BY DEF HandleCallStateChanged, Received, hostVars, modemVars
<1>2. /\ up' \in Seq(Messages) /\ Head(up) = up[1] /\ 1 \in 1 .. Len(up)
      /\ \A q \in 1 .. Len(up') : up'[q] = up[q + 1] /\ q + 1 \in 1 .. Len(up)
      /\ NoReply => NoReply'
      /\ request # None =>
           \A q \in 1 .. Len(up') : up'[q].type = "reply" => Listing(up[q], q)'
  BY <1>1, Taken
<1>3. ~ NoChangeAfter(0)
  BY <1>1, <1>2 DEF NoChangeAfter
<1>4. Types' /\ RightCallAddressed'
  BY <1>1, <1>2 DEF Inv, Types, RightCallAddressed
<1>5. FlightInv'
  BY <1>1, TakenFlight
<1>6. ListInv'
  <2>1. request = None => NoReply'
    BY <1>2 DEF Inv, FlightInv
  <2>2. /\ Range(callIds)' = LiveIn(listed)' /\ Below(listed)' /\ Below(calls)'
    BY <1>1 DEF Inv, ListInv, LiveIn, Below
  <2>3. request # None /\ request.reply # None => Listing(request.reply, 0)'
    BY <1>1, TakenListing
  <2>4. \A q \in 1 .. Len(up') : up'[q].type = "reply" => Listing(up[q], q)'
    BY <1>2, <2>1 DEF NoReply
  <2> QED BY <1>1, <2>2, <2>3, <2>4 DEF ListInv
<1>7. CauseInv'
  <2>1. Past(gone)' /\ (lastChange.ends => lastChange.call \notin gone)
    BY <1>1, <1>3 DEF Inv, CauseInv, Past
  <2>2. ASSUME lastChange.ends
        PROVE  \/ /\ NoChangeAfter(0)'
                  /\ failCause' = MapCallFail(lastChange.cause[1], lastChange.cause[2])
               \/ \E q \in 1 .. Len(up') : /\ up'[q].type = "change"
                                           /\ up'[q].cause = lastChange.cause
                                           /\ NoChangeAfter(q)'
    <3>1. PICK p \in 1 .. Len(up) : /\ up[p].type = "change" /\ up[p].cause = lastChange.cause
                                    /\ NoChangeAfter(p)
      BY <1>3, <2>2 DEF Inv, CauseInv
    <3>2. CASE p = 1
      <4>1. NoChangeAfter(0 + 1)
        BY <3>1, <3>2
      <4>2. NoChangeAfter(0)'
        BY <1>1, <4>1, Taken
      <4> QED BY <1>1, <1>2, <3>1, <3>2, <4>2
    <3>3. CASE p # 1
      <4>1. up \in Seq(Messages)
        BY DEF Inv, Types
      <4>2. p - 1 \in 1 .. Len(up') /\ (p - 1) + 1 = p /\ p - 1 \in Nat
        BY <1>1, <3>3, <4>1
      <4>3. up'[p - 1] = up[p]
        BY <1>2, <4>2
      <4>4. NoChangeAfter(p - 1)'
        BY <1>1, <3>1, <4>2, Taken
      <4> QED BY <3>1, <4>2, <4>3, <4>4
    <3> QED BY <3>2, <3>3
  <2> QED BY <1>1, <2>1, <2>2 DEF CauseInv
<1>8. CommandInv'
  BY <1>1 DEF Inv, CommandInv, Addresses
<1> QED BY <1>4, <1>5, <1>6, <1>7, <1>8 DEF Inv

LEMMA ReplyInv ==
    ASSUME Inv, HandleReply
    PROVE  Inv'
<1>1. /\ up # << >> /\ up' = Tail(up) /\ Head(up).type = "reply"
      /\ request' = [request EXCEPT !.reply = Head(up)]
      /\ UNCHANGED << callIds, failCause, listed, gone, down, calls, born, lastChange,
                      outcome >>
  BY DEF HandleReply, Received, modemVars
<1>2. up[1] = Head(up) /\ 1 \in 1 .. Len(up) /\ up[1].type = "reply" /\ Head(up) \in Messages
  <2>1. up \in Seq(Messages)
    BY DEF Inv, Types
  <2> QED BY <1>1, <2>1
<1>3. ~ NoReply
  BY <1>2 DEF NoReply
<1>4. request # None /\ down = None
  BY <1>3 DEF Inv, FlightInv
<1>5. /\ request' \in [name : RequestNames, asked : Calls \cup {None},
                       reply : {None} \cup Messages]
      /\ request'.name = request.name /\ request'.reply = up[1]
  <2>1. request \in [name : RequestNames, asked : Calls \cup {None},
                     reply : {None} \cup Messages]
    BY <1>4 DEF Inv, Types
  <2> QED BY <1>1, <1>2, <2>1
<1>6. /\ up' \in Seq(Messages) /\ NoReply'
      /\ \A q \in 1 .. Len(up') : up'[q] = up[q + 1] /\ q + 1 \in 1 .. Len(up)
      /\ NoChangeAfter(0) => NoChangeAfter(0)'
      /\ NoChangeAfter(0 + 1) => NoChangeAfter(0)'
  BY <1>1, <1>2, <1>5, Taken
<1>7. Types' /\ RightCallAddressed'
  BY <1>1, <1>5, <1>6 DEF Inv, Types, RightCallAddressed
<1>8. FlightInv'
  BY <1>1, <1>4, <1>6 DEF FlightInv, NoReply
<1>9. ListInv'
  <2>1. /\ Range(callIds)' = LiveIn(listed)' /\ Below(listed)' /\ Below(calls)'
    BY <1>1 DEF Inv, ListInv, LiveIn, Below
  <2>2. PICK list \in Messages : list = up[1]
    BY <1>2
  <2>3. Listing(list, 1)
    BY <1>2, <2>2 DEF Inv, ListInv
  <2>4. Vanished(list.calls)' = Vanished(list.calls)
    BY <1>1 DEF Vanished
  <2>5. Listing(list, 0)'
    BY <1>1, <1>5, <1>6, <2>3, <2>4 DEF Listing, Below, Past, LiveIn
  <2>6. Listing(request.reply, 0)'
    BY <1>5, <2>2, <2>5
  <2> QED BY <1>6, <2>1, <2>6 DEF ListInv, NoReply
<1>10. CauseInv'
  <2>1. Past(gone)'
    BY <1>1 DEF Inv, CauseInv, Past
  <2>2. ASSUME NEW p \in 1 .. Len(up), up[p].type = "change",
               up[p].cause = lastChange.cause, NoChangeAfter(p)
        PROVE  \E q \in 1 .. Len(up') : /\ up'[q].type = "change"
                                        /\ up'[q].cause = lastChange.cause
                                        /\ NoChangeAfter(q)'
    <3>1. p # 1
      BY <1>2, <2>2
    <3>2. up \in Seq(Messages)
      BY DEF Inv, Types
    <3>3. p - 1 \in 1 .. Len(up') /\ (p - 1) + 1 = p /\ p - 1 \in Nat
      BY <1>1, <3>1, <3>2
    <3>4. up'[p - 1] = up[p]
      BY <1>6, <3>3
    <3>5. NoChangeAfter(p - 1)'
      BY <1>1, <1>5, <2>2, <3>3, Taken
    <3> QED BY <2>2, <3>3, <3>4, <3>5
  <2>3. CASE NoChangeAfter(0)
    BY <1>1, <1>6, <2>1, <2>2, <2>3 DEF Inv, CauseInv
  <2>4. CASE ~ NoChangeAfter(0)
    <3>1. lastChange.ends => lastChange.call \notin gone
      BY <2>4 DEF Inv, CauseInv
    <3>2. lastChange.ends =>
            \E p \in 1 .. Len(up) : /\ up[p].type = "change" /\ up[p].cause = lastChange.cause
                                    /\ NoChangeAfter(p)
      BY <2>4 DEF Inv, CauseInv
    <3> QED BY <1>1, <2>1, <2>2, <3>1, <3>2 DEF CauseInv
  <2> QED BY <2>3, <2>4
<1>11. CommandInv'
  BY <1>1, <1>4 DEF CommandInv
<1> QED BY <1>7, <1>8, <1>9, <1>10, <1>11 DEF Inv

-----------------------------------------------------------------------------
(* The modem and the network.                                              *)

\* New messages e come behind those that are there.
LEMMA Sent ==
    ASSUME Inv, NEW e \in Seq(Messages), up' = up \o e
    PROVE  /\ up' \in Seq(Messages) /\ Len(up) \in Nat /\ Len(e) \in Nat
           /\ Len(up') = Len(up) + Len(e)
           /\ \A q \in 1 .. Len(up) : up'[q] = up[q] /\ q \in 1 .. Len(up')
           /\ \A k \in 1 .. Len(e) : /\ up'[Len(up) + k] = e[k]
                                     /\ Len(up) + k \in 1 .. Len(up')
           /\ \A q \in 1 .. Len(up') : \/ q \in 1 .. Len(up)
                                       \/ \E k \in 1 .. Len(e) : q = Len(up) + k
<1>1. up \in Seq(Messages) /\ Len(up) \in Nat /\ Len(e) \in Nat
  BY DEF Inv, Types
<1>2. /\ up' \in Seq(Messages) /\ Len(up') = Len(up) + Len(e)
      /\ \A q \in 1 .. Len(up) + Len(e) :
           up'[q] = IF q <= Len(up) THEN up[q] ELSE e[q - Len(up)]
  BY <1>1, ConcatProperties, Zenon
<1>3. \A q \in 1 .. Len(up) : up'[q] = up[q] /\ q \in 1 .. Len(up')
  BY <1>1, <1>2
<1>4. ASSUME NEW k \in 1 .. Len(e)
      PROVE  up'[Len(up) + k] = e[k] /\ Len(up) + k \in 1 .. Len(up')
  <2>1. /\ Len(up) + k \in 1 .. Len(up) + Len(e) /\ ~ (Len(up) + k <= Len(up))
        /\ (Len(up) + k) - Len(up) = k
    BY <1>1
  <2> QED BY <1>2, <2>1
<1>5. ASSUME NEW q \in 1 .. Len(up'), q \notin 1 .. Len(up)
      PROVE  \E k \in 1 .. Len(e) : q = Len(up) + k
  <2>1. q - Len(up) \in 1 .. Len(e) /\ q = Len(up) + (q - Len(up))
    BY <1>1, <1>2, <1>5
  <2> QED BY <2>1
<1> QED BY <1>1, <1>2, <1>3, <1>4, <1>5

NoneOf(e, type) == \A k \in 1 .. Len(e) : e[k].type # type

\* What the steps of the modem have in common.  Calls keep their numbers and new
\* ones have new numbers; the latest change is that of a call which is there, or
\* ends none, and is the last to be announced; the one command has one reply, and
\* a list is what the modem has.
LEMMA ModemKeeps ==
    ASSUME Inv, NEW e \in Seq(Messages), up' = up \o e,
           UNCHANGED << callIds, failCause, request, listed, gone >>,
           calls' \in Books, born' \in 0 .. MaxCalls, born' = born \/ born' = born + 1,
           \A c \in Range(calls') : \/ c \in Range(calls) \/ c = None
                                    \/ c = born + 1 /\ born' = born + 1,
           \/ NoneOf(e, "change") /\ lastChange' = lastChange
           \/ /\ lastChange'.ends => lastChange'.call \in Range(calls)
              /\ \E k \in 1 .. Len(e) :
                   /\ e[k].type = "change" /\ e[k].cause = lastChange'.cause
                   /\ \A j \in 1 .. Len(e) : j > k => e[j].type # "change",
           \/ NoneOf(e, "reply") /\ down' = down
           \/ /\ down # None /\ down' = None
              /\ \E k \in 1 .. Len(e) :
                   /\ \A j \in 1 .. Len(e) : e[j].type = "reply" => j = k
                   /\ e[k].ok /\ request.name = "CurrentCalls" =>
                        /\ e[k].ids \in Seq(Ids) /\ Range(e[k].ids) = LiveIn(calls)
                        /\ e[k].calls = calls /\ calls' = calls /\ Len(e) = 1
    PROVE  Types' /\ FlightInv' /\ ListInv' /\ CauseInv' /\ CommandInv'
<1> DEFINE n == Len(up)
<1>1. /\ up' \in Seq(Messages) /\ n \in Nat /\ Len(e) \in Nat
      /\ Len(up') = n + Len(e)
      /\ \A q \in 1 .. n : up'[q] = up[q] /\ q \in 1 .. Len(up')
      /\ \A k \in 1 .. Len(e) : up'[n + k] = e[k] /\ n + k \in 1 .. Len(up')
      /\ \A q \in 1 .. Len(up') : q \in 1 .. n \/ \E k \in 1 .. Len(e) : q = n + k
  BY Sent
<1>2. /\ Types /\ FlightInv /\ ListInv /\ CauseInv /\ CommandInv
      /\ born \in Nat /\ calls \in Books /\ listed \in Books
  BY DEF Inv, Types
<1> HIDE DEF n
<1>3. Types'
  BY <1>1, <1>2 DEF Types
\* Calls.
<1>4. \A c : Past({c}) => Past({c})'
  <2> SUFFICES ASSUME NEW c, c \in 1 .. born, c \notin Range(calls)
               PROVE  c \in 1 .. born' /\ c \notin Range(calls')
    BY DEF Past
  <2>1. c # None /\ c # born + 1
    BY <1>2, ConstantsAssumption
  <2>2. c \in 1 .. born'
    BY <1>2
  <2> QED BY <2>1, <2>2
<1>5. \A X : Past(X) => Past(X)'
  <2> SUFFICES ASSUME NEW X, Past(X), NEW c \in X
               PROVE  c \in 1 .. born' /\ c \notin Range(calls')
    BY DEF Past
  <2>1. Past({c})
    BY DEF Past
  <2> QED BY <1>4, <2>1 DEF Past
<1>6. \A book : Below(book) => Below(book)'
  BY <1>2 DEF Below
<1>7. Below(listed)' /\ Range(callIds)' = LiveIn(listed)'
  BY <1>2, <1>6 DEF ListInv, LiveIn, Below
<1>8. Below(calls)'
  <2> SUFFICES ASSUME NEW i \in Ids, calls'[i] # None
               PROVE  calls'[i] \in 1 .. born'
    BY DEF Below
  <2>1. calls'[i] \in Range(calls')
    BY DEF Books, Range
  <2>2. CASE calls'[i] \in Range(calls)
    <3>1. PICK j \in Ids : calls[j] = calls'[i]
      BY <1>2, <2>2 DEF Books, Range
    <3>2. calls[j] \in 1 .. born
      BY <1>2, <3>1 DEF ListInv, Below
    <3> QED BY <1>2, <3>1, <3>2
  <2>3. CASE calls'[i] = born + 1 /\ born' = born + 1
    BY <1>2, <2>3
  <2> QED BY <2>1, <2>2, <2>3
\* Replies.
<1>9. ASSUME NEW k \in 1 .. Len(e), e[k].type = "reply"
      PROVE  /\ down # None /\ down' = None /\ NoReply
             /\ request # None /\ request.reply = None
             /\ \A j \in 1 .. Len(e) : e[j].type = "reply" => j = k
             /\ e[k].ok /\ request.name = "CurrentCalls" =>
                  /\ e[k].ids \in Seq(Ids) /\ Range(e[k].ids) = LiveIn(calls)
                  /\ e[k].calls = calls /\ calls' = calls /\ Len(e) = 1
  <2>1. ~ NoneOf(e, "reply")
    BY <1>9 DEF NoneOf
  <2>2. down # None /\ down' = None
    BY <2>1
  <2>3. NoReply /\ request # None /\ request.reply = None
    BY <1>2, <2>2 DEF FlightInv
  <2>4. PICK r \in 1 .. Len(e) :
          /\ \A j \in 1 .. Len(e) : e[j].type = "reply" => j = r
          /\ e[r].ok /\ request.name = "CurrentCalls" =>
               /\ e[r].ids \in Seq(Ids) /\ Range(e[r].ids) = LiveIn(calls)
               /\ e[r].calls = calls /\ calls' = calls /\ Len(e) = 1
    BY <2>1
  <2>5. r = k
    BY <1>9, <2>4
  <2> QED BY <2>2, <2>3, <2>4, <2>5
<1>10. NoReply /\ NoneOf(e, "reply") => NoReply'
  BY <1>1 DEF NoReply, NoneOf
<1>11. FlightInv'
  <2>1. ASSUME NEW p \in 1 .. Len(up'), NEW q \in 1 .. Len(up'),
               up'[p].type = "reply", up'[q].type = "reply"
        PROVE  p = q
    <3>1. CASE p \in 1 .. n /\ q \in 1 .. n
      BY <1>1, <1>2, <2>1, <3>1 DEF FlightInv, n
    <3>2. ASSUME NEW k \in 1 .. Len(e), q = n + k
          PROVE  p = q
      <4>1. e[k].type = "reply"
        BY <1>1, <2>1, <3>2
      <4>2. p \notin 1 .. n
        BY <1>1, <1>9, <2>1, <4>1 DEF NoReply, n
      <4>3. PICK j \in 1 .. Len(e) : p = n + j
        BY <1>1, <4>2
      <4>4. e[j].type = "reply"
        BY <1>1, <2>1, <4>3
      <4> QED BY <1>9, <3>2, <4>1, <4>3, <4>4
    <3>3. ASSUME NEW k \in 1 .. Len(e), p = n + k
          PROVE  p = q
      <4>1. e[k].type = "reply"
        BY <1>1, <2>1, <3>3
      <4>2. q \notin 1 .. n
        BY <1>1, <1>9, <2>1, <4>1 DEF NoReply, n
      <4>3. PICK j \in 1 .. Len(e) : q = n + j
        BY <1>1, <4>2
      <4>4. e[j].type = "reply"
        BY <1>1, <2>1, <4>3
      <4> QED BY <1>9, <3>3, <4>1, <4>3, <4>4
    <3> QED BY <1>1, <3>1, <3>2, <3>3
  <2>2. CASE NoneOf(e, "reply") /\ down' = down
    BY <1>2, <1>10, <2>1, <2>2 DEF FlightInv
  <2>3. CASE down # None /\ down' = None
    BY <1>2, <2>1, <2>3 DEF FlightInv
  <2> QED BY <2>2, <2>3
\* Changes.
<1>12. \A q : NoneOf(e, "change") /\ NoChangeAfter(q) => NoChangeAfter(q)'
  BY <1>1 DEF NoChangeAfter, NoneOf, n
<1>13. ASSUME NEW ended, Past(ended), lastChange'.ends, lastChange'.call \in ended,
              NEW p, lastChange.ends /\ lastChange.call \in ended => NoChangeAfter(p)
       PROVE  NoChangeAfter(p)'
  <2>1. lastChange'.call \notin Range(calls)
    BY <1>13 DEF Past
  <2>2. NoneOf(e, "change") /\ lastChange' = lastChange
    BY <1>13, <2>1
  <2> QED BY <1>12, <1>13, <2>2
<1>14. ASSUME NEW list, NEW p, Listing(list, p)
       PROVE  Listing(list, p)'
  <2> SUFFICES ASSUME list.ok, request.name = "CurrentCalls"
               PROVE  /\ list.ids \in Seq(Ids) /\ list.calls \in Books
                      /\ Range(list.ids) = LiveIn(list.calls)
                      /\ Below(list.calls)' /\ Past(Vanished(list.calls))'
                      /\ lastChange'.ends /\ lastChange'.call \in Vanished(list.calls) =>
                           NoChangeAfter(p)'
    BY DEF Listing, LiveIn, Vanished
  <2>1. /\ list.ids \in Seq(Ids) /\ list.calls \in Books
        /\ Range(list.ids) = LiveIn(list.calls)
        /\ Below(list.calls) /\ Past(Vanished(list.calls))
        /\ lastChange.ends /\ lastChange.call \in Vanished(list.calls) => NoChangeAfter(p)
    BY <1>14 DEF Listing
  <2>2. PICK ended : ended = Vanished(list.calls)
    OBVIOUS
  <2>3. Vanished(list.calls)' = ended
    BY <2>2 DEF Vanished
  <2>4. Past(ended)'
    BY <1>5, <2>1, <2>2
  <2>5. Past(Vanished(list.calls))'
    BY <2>3, <2>4 DEF Past
  <2> QED BY <1>6, <1>13, <2>1, <2>2, <2>5
<1>15. ListInv'
  <2>1. ASSUME NEW q \in 1 .. Len(up'), up'[q].type = "reply"
        PROVE  Listing(up[q], q)'
    <3>1. CASE q \in 1 .. n
      <4>1. PICK list \in Messages : list = up[q] /\ list = up'[q]
        BY <1>1, <1>2, <3>1 DEF Types, n
      <4>2. Listing(list, q)
        BY <1>2, <2>1, <3>1, <4>1 DEF ListInv, n
      <4>3. Listing(list, q)'
        BY <1>14, <4>2
      <4> QED BY <4>1, <4>3
    <3>2. ASSUME NEW k \in 1 .. Len(e), q = n + k
          PROVE  Listing(up[q], q)'
      <4>1. PICK list \in Messages : list = e[k] /\ list = up'[q] /\ list.type = "reply"
        BY <1>1, <2>1, <3>2
      <4>2. list.ok /\ request.name = "CurrentCalls" =>
              /\ list.ids \in Seq(Ids) /\ Range(list.ids) = LiveIn(calls)
              /\ list.calls = calls /\ calls' = calls /\ Len(e) = 1
        BY <1>9, <4>1
      <4>3. Past(Vanished(calls))
        <5> SUFFICES ASSUME NEW c, c \in Range(listed), c \notin Range(calls), c # None
                     PROVE  c \in 1 .. born
          BY DEF Past, Vanished
        <5>1. PICK i \in Ids : listed[i] = c
          BY <1>2 DEF Books, Range
        <5> QED BY <1>2, <5>1 DEF ListInv, Below
      <4>4. Len(e) = 1 => NoChangeAfter(q)'
        <5>1. Len(e) = 1 => q = Len(up')
          BY <1>1, <3>2
        <5> QED BY <1>1, <5>1 DEF NoChangeAfter
      <4>5. PICK book : book = calls
        OBVIOUS
      <4>6. Past(Vanished(book))'
        <5>1. PICK ended : ended = Vanished(calls)
          OBVIOUS
        <5>2. Vanished(book)' = ended
          BY <4>5, <5>1 DEF Vanished
        <5>3. Past(ended)'
          BY <1>5, <4>3, <5>1
        <5> QED BY <5>2, <5>3 DEF Past
      <4>7. Below(book)'
        BY <1>2, <1>6, <4>5 DEF ListInv
      <4>8. Listing(list, q)'
        BY <1>2, <4>2, <4>4, <4>5, <4>6, <4>7 DEF Listing, LiveIn
      <4> QED BY <4>1, <4>8
    <3> QED BY <1>1, <3>1, <3>2
  <2>2. ASSUME request # None, request.reply # None
        PROVE  Listing(request.reply, 0)'
    <3>1. PICK list : list = request.reply
      OBVIOUS
    <3>2. Listing(list, 0)
      BY <1>2, <2>2, <3>1 DEF ListInv
    <3>3. Listing(list, 0)'
      BY <1>14, <3>2
    <3> QED BY <3>1, <3>3
  <2> QED BY <1>7, <1>8, <2>1, <2>2 DEF ListInv
<1>16. CauseInv'
  <2>1. Past(gone)'
    <3>1. PICK ended : ended = gone
      OBVIOUS
    <3>2. Past(ended)'
      BY <1>2, <1>5, <3>1 DEF CauseInv
    <3> QED BY <3>1, <3>2 DEF Past
  <2>2. lastChange'.ends /\ lastChange'.call \in gone => NoChangeAfter(0)'
    BY <1>2, <1>13 DEF CauseInv
  <2>3. ASSUME lastChange'.ends
        PROVE  \/ /\ NoChangeAfter(0)'
                  /\ failCause = MapCallFail(lastChange'.cause[1], lastChange'.cause[2])
               \/ \E q \in 1 .. Len(up') : /\ up'[q].type = "change"
                                           /\ up'[q].cause = lastChange'.cause
                                           /\ NoChangeAfter(q)'
    <3>1. CASE NoneOf(e, "change") /\ lastChange' = lastChange
      BY <1>1, <1>2, <1>12, <2>3, <3>1 DEF CauseInv, n
    <3>2. ASSUME NEW k \in 1 .. Len(e), e[k].type = "change", e[k].cause = lastChange'.cause,
                 \A j \in 1 .. Len(e) : j > k => e[j].type # "change"
          PROVE  \E q \in 1 .. Len(up') : /\ up'[q].type = "change"
                                          /\ up'[q].cause = lastChange'.cause
                                          /\ NoChangeAfter(q)'
      <4>1. PICK m \in Nat : m = n + k
        BY <1>1
      <4>2. m \in 1 .. Len(up') /\ up'[m] = e[k]
        BY <1>1, <4>1
      <4>3. ASSUME NEW q \in 1 .. Len(up'), q > m
            PROVE  up'[q].type # "change"
        <5>1. q \notin 1 .. n
          BY <1>1, <4>1, <4>3
        <5>2. PICK j \in 1 .. Len(e) : q = n + j
          BY <1>1, <5>1
        <5>3. j > k
          BY <1>1, <4>1, <4>3, <5>2
        <5> QED BY <1>1, <3>2, <5>2, <5>3
      <4>4. NoChangeAfter(m)'
        BY <4>3 DEF NoChangeAfter
      <4> QED BY <3>2, <4>2, <4>4
    <3> QED BY <3>1, <3>2
  <2> QED BY <2>1, <2>2, <2>3 DEF CauseInv
<1>17. CommandInv'
  BY <1>2 DEF CommandInv, Addresses
<1> QED BY <1>3, <1>11, <1>15, <1>16, <1>17

LEMMA MessageTypes ==
    /\ \A ok \in BOOLEAN : /\ GenReply(ok) \in Messages
                           /\ GenReply(ok).type = "reply" /\ GenReply(ok).ok = ok
    /\ \A cause \in Causes \cup {NoCause} :
         /\ Change(cause) \in Messages
         /\ Change(cause).type = "change" /\ Change(cause).cause = cause
    /\ Incoming \in Messages /\ Incoming.type = "incoming"
<1>1. \A ok \in BOOLEAN : /\ GenReply(ok) \in Messages
                          /\ GenReply(ok).type = "reply" /\ GenReply(ok).ok = ok
  <2> SUFFICES ASSUME NEW ok \in BOOLEAN
               PROVE  /\ GenReply(ok) \in Messages
                      /\ GenReply(ok).type = "reply" /\ GenReply(ok).ok = ok
    OBVIOUS
  <2>1. << >> \in Seq(Ids) /\ None \in Books \cup {None}
    OBVIOUS
  <2>2. GenReply(ok) \in Messages
    BY <2>1 DEF GenReply, Reply, Messages
  <2>3. GenReply(ok).type = "reply" /\ GenReply(ok).ok = ok
    BY DEF GenReply, Reply
  <2> QED BY <2>2, <2>3
<1>2. \A cause \in Causes \cup {NoCause} :
        /\ Change(cause) \in Messages
        /\ Change(cause).type = "change" /\ Change(cause).cause = cause
  BY DEF Messages, Change
<1>3. Incoming \in Messages /\ Incoming.type = "incoming"
  BY DEF Messages, Incoming
<1> QED BY <1>1, <1>2, <1>3

LEMMA ListMessage ==
    ASSUME NEW ids \in Seq(Ids), NEW book \in Books
    PROVE  \E m \in Messages : /\ m = Reply(TRUE, ids, book) /\ m.type = "reply"
                               /\ m.ids = ids /\ m.calls = book
<1>1. Reply(TRUE, ids, book) \in Messages
  BY DEF Reply, Messages
<1>2. /\ Reply(TRUE, ids, book).type = "reply"
      /\ Reply(TRUE, ids, book).ids = ids /\ Reply(TRUE, ids, book).calls = book
  BY DEF Reply
<1> QED BY <1>1, <1>2

LEMMA OneMore ==
    ASSUME Inv, NEW m \in Messages, up' = Append(up, m)
    PROVE  /\ << m >> \in Seq(Messages) /\ up' = up \o << m >>
           /\ Len(<< m >>) = 1 /\ << m >>[1] = m /\ 1 .. Len(<< m >>) = {1}
<1>1. up \in Seq(Messages)
  BY DEF Inv, Types
<1>2. up' = up \o << m >>
  BY <1>1, AppendIsConcat
<1> QED BY <1>2

\* The reply to a command that leaves the calls as they are.
LEMMA RepliesKeep ==
    ASSUME Inv, NEW m \in Messages, m.type = "reply", up' = Append(up, m),
           down # None, down' = None, UNCHANGED << hostVars, modemVars >>,
           m.ok /\ request.name = "CurrentCalls" =>
             /\ m.ids \in Seq(Ids) /\ Range(m.ids) = LiveIn(calls) /\ m.calls = calls
    PROVE  Types' /\ FlightInv' /\ ListInv' /\ CauseInv' /\ CommandInv'
<1>1. PICK e \in Seq(Messages) : /\ e = << m >> /\ up' = up \o e
                                 /\ Len(e) = 1 /\ e[1] = m /\ 1 .. Len(e) = {1}
  BY OneMore
<1>2. /\ UNCHANGED << callIds, failCause, request, listed, gone >>
      /\ UNCHANGED << calls, born, lastChange >>
  BY DEF hostVars, modemVars
<1>3. /\ calls' \in Books /\ born' \in 0 .. MaxCalls
      /\ \A c \in Range(calls') : c \in Range(calls)
  BY <1>2 DEF Inv, Types
<1>4. NoneOf(e, "change") /\ lastChange' = lastChange
  BY <1>1, <1>2 DEF NoneOf
<1>5. \E k \in 1 .. Len(e) :
        /\ \A j \in 1 .. Len(e) : e[j].type = "reply" => j = k
        /\ e[k].ok /\ request.name = "CurrentCalls" =>
             /\ e[k].ids \in Seq(Ids) /\ Range(e[k].ids) = LiveIn(calls)
             /\ e[k].calls = calls /\ calls' = calls /\ Len(e) = 1
  BY <1>1, <1>2
<1> QED BY <1>1, <1>2, <1>3, <1>4, <1>5, ModemKeeps

\* What Addresses says at the moment the modem acts on the command.
LEMMA AddressedCall ==
    ASSUME Inv, down # None, request.asked # None, listed = calls,
           InLineOrder \/ (request.name = "Hangup" /\ Len(callIds) = 1)
    PROVE  \/ /\ down.name = "Release"
              /\ \E i \in Ids : Live = {i} /\ calls[i] = request.asked
           \/ /\ down.name \in {"HangupSpecificCall", "SeparateConnection"}
              /\ down.callId \in Ids /\ calls[down.callId] = request.asked
<1>1. callIds \in Seq(Ids) /\ calls \in Books /\ Range(callIds) = LiveIn(calls) /\ Addresses
  BY DEF Inv, Types, ListInv, CommandInv
<1>2. CASE /\ request.name = "Hangup" /\ down.name = "Release"
           /\ Len(callIds) = 1 /\ request.asked \in Range(listed)
  <2>1. PICK i \in Ids : calls[i] = request.asked
    BY <1>1, <1>2 DEF Books, Range
  <2>2. Range(callIds) = {callIds[1]}
    BY <1>1, <1>2 DEF Range
  <2>3. i \in LiveIn(calls) /\ LiveIn(calls) = Live
    BY <2>1 DEF LiveIn, Live
  <2>4. Live = {i}
    BY <1>1, <2>2, <2>3
  <2> QED BY <1>2, <2>1, <2>4
<1>3. ASSUME NEW line \in 1 .. Len(callIds), line \in Ids,
             request.asked = listed[line], down.callId = callIds[line],
             \/ request.name = "Hangup" /\ down.name = "HangupSpecificCall" /\ Len(callIds) # 1
             \/ request.name = "Separate" /\ down.name = "SeparateConnection"
      PROVE  /\ down.name \in {"HangupSpecificCall", "SeparateConnection"}
             /\ down.callId \in Ids /\ calls[down.callId] = request.asked
  <2>1. InLineOrder
    BY <1>3
  <2>2. callIds[line] = line
    BY <1>1, <1>3, <2>1 DEF InLineOrder
  <2> QED BY <1>3, <2>2
<1> QED BY <1>1, <1>2, <1>3 DEF Addresses

LEMMA ModemListsInv ==
    ASSUME Inv, ModemLists
    PROVE  Inv'
<1>1. PICK ids \in Orders(Live) : up' = Append(up, Reply(TRUE, ids, calls))
  BY DEF ModemLists
<1>2. down # None /\ down' = None /\ UNCHANGED << hostVars, modemVars >> /\ outcome' = outcome
  BY DEF ModemLists
<1>3. IsFiniteSet(Live)
  BY ConstantsAssumption, FS_Subset DEF Live
<1>4. Cardinality(Live) \in Nat
  BY <1>3, FS_CardinalityType
<1>5. ids \in Seq(Ids) /\ Range(ids) = LiveIn(calls)
  <2>1. /\ ids \in [1 .. Cardinality(Live) -> Live] /\ Range(ids) = Live
        /\ Live \subseteq Ids /\ Live = LiveIn(calls)
    BY DEF Orders, Live, LiveIn
  <2>2. ids \in [1 .. Cardinality(Live) -> Ids]
    BY <2>1
  <2> QED BY <1>4, <2>1, <2>2
<1>6. calls \in Books
  BY DEF Inv, Types
<1>7. PICK m \in Messages : /\ m = Reply(TRUE, ids, calls) /\ m.type = "reply"
                            /\ m.ids = ids /\ m.calls = calls
  BY <1>5, <1>6, ListMessage
<1>8. Types' /\ FlightInv' /\ ListInv' /\ CauseInv' /\ CommandInv'
  BY <1>1, <1>2, <1>5, <1>7, RepliesKeep
<1>9. RightCallAddressed'
  BY <1>2 DEF Inv, RightCallAddressed
<1> QED BY <1>8, <1>9 DEF Inv

LEMMA GenReplyKeeps ==
    ASSUME Inv, NEW ok \in BOOLEAN, up' = Append(up, GenReply(ok)),
           ok => down.name # "GetCallList",
           down # None, down' = None, UNCHANGED << hostVars, modemVars >>
    PROVE  Types' /\ FlightInv' /\ ListInv' /\ CauseInv' /\ CommandInv'
<1>1. PICK m \in Messages : m = GenReply(ok) /\ m.type = "reply" /\ m.ok = ok
  BY MessageTypes
<1>2. ~ (m.ok /\ request.name = "CurrentCalls")
  BY <1>1 DEF Inv, FlightInv
<1> QED BY <1>1, <1>2, RepliesKeep

LEMMA ModemObeysInv ==
    ASSUME Inv, ModemObeys
    PROVE  Inv'
<1>1. /\ up' = Append(up, GenReply(TRUE)) /\ down.name # "GetCallList"
      /\ down # None /\ down' = None /\ UNCHANGED << hostVars, modemVars >>
      /\ outcome' = outcome
  BY DEF ModemObeys
<1>2. Types' /\ FlightInv' /\ ListInv' /\ CauseInv' /\ CommandInv'
  BY <1>1, GenReplyKeeps
<1>3. RightCallAddressed'
  BY <1>1 DEF Inv, RightCallAddressed
<1> QED BY <1>2, <1>3 DEF Inv

LEMMA ModemRefusesInv ==
    ASSUME Inv, ModemRefuses
    PROVE  Inv'
<1>1. /\ up' = Append(up, GenReply(FALSE))
      /\ down # None /\ down' = None /\ UNCHANGED << hostVars, modemVars >>
      /\ outcome' = outcome \/ outcome' = Outcome(request.name, request.asked, {}, TRUE)
  BY DEF ModemRefuses
<1>2. Types' /\ FlightInv' /\ ListInv' /\ CauseInv' /\ CommandInv'
  BY <1>1, GenReplyKeeps
<1>3. RightCallAddressed'
  BY <1>1 DEF Inv, RightCallAddressed, Outcome
<1> QED BY <1>2, <1>3 DEF Inv

LEMMA ModemSeparatesInv ==
    ASSUME Inv, ModemSeparates
    PROVE  Inv'
<1>1. /\ up' = Append(up, GenReply(TRUE)) /\ down.name = "SeparateConnection"
      /\ down # None /\ down' = None /\ UNCHANGED << hostVars, modemVars >>
      /\ outcome' = Outcome(request.name, request.asked, {calls[down.callId]}, FALSE)
  BY DEF ModemSeparates
<1>2. Types' /\ FlightInv' /\ ListInv' /\ CauseInv' /\ CommandInv'
  BY <1>1, GenReplyKeeps
<1>3. RightCallAddressed'
  <2>1. /\ outcome'.asked = request.asked /\ outcome'.fresh = (listed = calls)
        /\ outcome'.hit = {calls[down.callId]}
        /\ outcome'.inOrder =
             (InLineOrder \/ (request.name = "Hangup" /\ Len(callIds) = 1))
    BY <1>1 DEF Outcome, Fresh
  <2>2. ASSUME outcome'.asked # None, outcome'.fresh, outcome'.inOrder
        PROVE  calls[down.callId] = request.asked
    BY <1>1, <2>1, <2>2, AddressedCall
  <2> QED BY <2>1, <2>2 DEF RightCallAddressed
<1> QED BY <1>2, <1>3 DEF Inv

LEMMA BeginDoes ==
    ASSUME Inv, Begin
    PROVE  /\ calls' \in Books /\ born' \in 0 .. MaxCalls /\ born' = born + 1
           /\ \A c \in Range(calls') : c \in Range(calls) \/ c = born + 1
<1>1. calls \in [Ids -> Calls \cup {None}] /\ born \in 0 .. MaxCalls /\ MaxCalls \in Nat
  BY ConstantsAssumption DEF Inv, Types, Books
<1>2. PICK x : calls' = [calls EXCEPT ![x] = born + 1]
  BY DEF Begin
<1>3. born' = born + 1 /\ born' \in 0 .. MaxCalls /\ born + 1 \in Calls
  BY <1>1 DEF Begin, Calls
<1>4. calls' \in [Ids -> Calls \cup {None}]
  BY <1>1, <1>2, <1>3
<1>5. \A i \in Ids : calls'[i] = calls[i] \/ calls'[i] = born + 1
  BY <1>1, <1>2
<1>6. \A c \in Range(calls') : c \in Range(calls) \/ c = born + 1
  BY <1>1, <1>4, <1>5 DEF Range
<1> QED BY <1>3, <1>4, <1>6 DEF Books

LEMMA IncomingCallInv ==
    ASSUME Inv, IncomingCall
    PROVE  Inv'
<1>1. /\ Begin /\ up' = Append(up, Incoming)
      /\ UNCHANGED << callIds, failCause, request, listed, gone >>
      /\ down' = down /\ lastChange' = lastChange /\ outcome' = outcome
  BY DEF IncomingCall, hostVars, Incoming
<1>2. PICK e \in Seq(Messages) : /\ e = << Incoming >> /\ up' = up \o e
                                 /\ Len(e) = 1 /\ e[1] = Incoming /\ 1 .. Len(e) = {1}
  BY <1>1, OneMore, MessageTypes
<1>3. NoneOf(e, "change") /\ NoneOf(e, "reply")
  BY <1>2, MessageTypes DEF NoneOf
<1>4. Types' /\ FlightInv' /\ ListInv' /\ CauseInv' /\ CommandInv'
  BY <1>1, <1>2, <1>3, BeginDoes, ModemKeeps
<1>5. RightCallAddressed'
  BY <1>1 DEF Inv, RightCallAddressed
<1> QED BY <1>4, <1>5 DEF Inv

\* The network changes a call that is there, or ends it.
LEMMA NetworkKeeps ==
    ASSUME Inv, NEW i \in Ids, NEW cause \in Causes \cup {NoCause},
           up' = Append(up, Change(cause)),
           lastChange'.cause = cause,
           lastChange'.ends => lastChange'.call = calls[i],
           calls' = calls \/ calls' = [calls EXCEPT ![i] = None],
           UNCHANGED << hostVars, down, born, outcome >>
    PROVE  Inv'
<1>1. UNCHANGED << callIds, failCause, request, listed, gone >>
  BY DEF hostVars
<1>2. PICK m \in Messages : m = Change(cause) /\ m.type = "change" /\ m.cause = cause
  BY MessageTypes
<1>3. PICK e \in Seq(Messages) : /\ e = << m >> /\ up' = up \o e
                                 /\ Len(e) = 1 /\ e[1] = m /\ 1 .. Len(e) = {1}
  BY <1>2, OneMore
<1>4. calls \in [Ids -> Calls \cup {None}] /\ born \in 0 .. MaxCalls
  BY DEF Inv, Types, Books
<1>5. calls' \in Books /\ \A j \in Ids : calls'[j] = calls[j] \/ calls'[j] = None
  BY <1>4 DEF Books
<1>6. \A c \in Range(calls') : c \in Range(calls) \/ c = None
  BY <1>4, <1>5 DEF Range, Books
<1>7. lastChange'.ends => lastChange'.call \in Range(calls)
  BY <1>4 DEF Range
<1>8. NoneOf(e, "reply")
  BY <1>2, <1>3 DEF NoneOf
<1>9. \E k \in 1 .. Len(e) :
        /\ e[k].type = "change" /\ e[k].cause = lastChange'.cause
        /\ \A j \in 1 .. Len(e) : j > k => e[j].type # "change"
  BY <1>2, <1>3
<1>10. Types' /\ FlightInv' /\ ListInv' /\ CauseInv' /\ CommandInv'
  BY <1>1, <1>3, <1>4, <1>5, <1>6, <1>7, <1>8, <1>9, ModemKeeps
<1>11. RightCallAddressed'
  BY DEF Inv, RightCallAddressed
<1> QED BY <1>10, <1>11 DEF Inv

LEMMA CallEndsInv ==
    ASSUME Inv, NEW i \in Ids, NEW cause \in Causes, CallEnds(i, cause)
    PROVE  Inv'
<1>1. lastChange'.cause = cause /\ lastChange'.call = calls[i]
  BY DEF CallEnds
<1> QED BY <1>1, NetworkKeeps DEF CallEnds

LEMMA CallChangesInv ==
    ASSUME Inv, NEW i \in Ids, CallChanges(i)
    PROVE  Inv'
<1>1. lastChange'.cause = NoCause /\ lastChange'.call = calls[i]
  BY DEF CallChanges
<1> QED BY <1>1, NetworkKeeps DEF CallChanges

LEMMA ModemOriginatesInv ==
    ASSUME Inv, ModemOriginates
    PROVE  Inv'
<1>1. /\ Begin /\ up' = up \o << GenReply(TRUE), Change(NoCause) >>
      /\ UNCHANGED << callIds, failCause, request, listed, gone >>
      /\ down # None /\ down.name = "Originate" /\ down' = None /\ outcome' = outcome
      /\ ~ lastChange'.ends /\ lastChange'.cause = NoCause
  BY DEF ModemOriginates, hostVars
<1>2. PICK a \in Messages : a = GenReply(TRUE) /\ a.type = "reply"
  BY MessageTypes
<1>3. PICK b \in Messages : b = Change(NoCause) /\ b.type = "change" /\ b.cause = NoCause
  BY MessageTypes
<1>4. PICK e \in Seq(Messages) : /\ e = << a, b >> /\ Len(e) = 2 /\ 1 .. Len(e) = {1, 2}
                                 /\ e[1] = a /\ e[2] = b
  <2>1. /\ << a, b >> \in Seq(Messages) /\ Len(<< a, b >>) = 2
        /\ << a, b >>[1] = a /\ << a, b >>[2] = b
    OBVIOUS
  <2>2. 1 .. 2 = {1, 2}
    OBVIOUS
  <2> QED BY <2>1, <2>2
<1>5. request.name # "CurrentCalls" /\ up' = up \o e
  BY <1>1, <1>2, <1>3, <1>4 DEF Inv, FlightInv
<1>6. \E k \in 1 .. Len(e) :
        /\ e[k].type = "change" /\ e[k].cause = lastChange'.cause
        /\ \A j \in 1 .. Len(e) : j > k => e[j].type # "change"
  <2>1. /\ e[2].type = "change" /\ e[2].cause = lastChange'.cause
        /\ \A j \in 1 .. Len(e) : j > 2 => e[j].type # "change"
    BY <1>1, <1>3, <1>4
  <2> QED BY <1>4, <2>1
<1>7. \E k \in 1 .. Len(e) : \A j \in 1 .. Len(e) : e[j].type = "reply" => j = k
  <2>1. \A j \in 1 .. Len(e) : e[j].type = "reply" => j = 1
    BY <1>3, <1>4
  <2> QED BY <1>4, <2>1
<1>8. /\ calls' \in Books /\ born' \in 0 .. MaxCalls /\ born' = born + 1
      /\ \A c \in Range(calls') : c \in Range(calls) \/ c = born + 1
  BY <1>1, BeginDoes
<1>9. Types' /\ FlightInv' /\ ListInv' /\ CauseInv' /\ CommandInv'
  BY <1>1, <1>5, <1>6, <1>7, <1>8, ModemKeeps
<1>10. RightCallAddressed'
  BY <1>1 DEF Inv, RightCallAddressed
<1> QED BY <1>9, <1>10 DEF Inv

\* What a command that ends calls announces: n changes, before or after the reply.
Announcement(n, c, a, first) ==
    IF first THEN [k \in 1 .. n |-> c] \o << a >> ELSE << a >> \o [k \in 1 .. n |-> c]

\* The last change in e is c, and there is one reply.
Announces(e, c) ==
    /\ \E k \in 1 .. Len(e) :
         e[k] = c /\ \A j \in 1 .. Len(e) : j > k => e[j].type # "change"
    /\ \E k \in 1 .. Len(e) : \A j \in 1 .. Len(e) : e[j].type = "reply" => j = k

LEMMA Announced ==
    ASSUME NEW n \in Nat \ {0}, NEW c \in Messages, NEW a \in Messages,
           c.type = "change", a.type = "reply", NEW first
    PROVE  /\ Announcement(n, c, a, first) \in Seq(Messages)
           /\ Announces(Announcement(n, c, a, first), c)
<1>1. PICK s \in Seq(Messages) : /\ s = [k \in 1 .. n |-> c] /\ Len(s) = n
                                 /\ \A k \in 1 .. n : s[k] = c
  <2>1. [k \in 1 .. n |-> c] \in Seq(Messages) /\ Len([k \in 1 .. n |-> c]) = n
    OBVIOUS
  <2> QED BY <2>1
<1>2. PICK t \in Seq(Messages) : t = << a >> /\ Len(t) = 1 /\ t[1] = a
  <2>1. << a >> \in Seq(Messages) /\ Len(<< a >>) = 1 /\ << a >>[1] = a
    OBVIOUS
  <2> QED BY <2>1
<1>3. CASE first
  <2>1. PICK e : e = s \o t
    OBVIOUS
  <2>2. /\ e \in Seq(Messages) /\ Len(e) = Len(s) + Len(t)
        /\ \A k \in 1 .. Len(s) + Len(t) : e[k] = IF k <= Len(s) THEN s[k] ELSE t[k - Len(s)]
    BY <2>1, ConcatProperties, Zenon
  <2>3. /\ Len(e) = n + 1 /\ n \in 1 .. Len(e) /\ n + 1 \in 1 .. Len(e)
        /\ \A j \in 1 .. Len(e) : j # n + 1 => e[j] = c
        /\ e[n + 1] = a
    <3>1. Len(e) = n + 1 /\ n \in 1 .. Len(e) /\ n + 1 \in 1 .. Len(e)
      BY <1>1, <1>2, <2>2
    <3>2. \A j \in 1 .. Len(e) : j # n + 1 => j <= n /\ j \in 1 .. n
      BY <3>1
    <3>3. ~ (n + 1 <= n) /\ (n + 1) - n = 1
      OBVIOUS
    <3> QED BY <1>1, <1>2, <2>2, <3>1, <3>2, <3>3
  <2>4. e[n] = c /\ \A j \in 1 .. Len(e) : j > n => e[j].type # "change"
    BY <2>3
  <2>5. \A j \in 1 .. Len(e) : e[j].type = "reply" => j = n + 1
    BY <2>3
  <2>6. e = Announcement(n, c, a, first)
    BY <1>1, <1>2, <1>3, <2>1 DEF Announcement
  <2> QED BY <2>2, <2>3, <2>4, <2>5, <2>6 DEF Announces
<1>4. CASE ~ first
  <2>1. PICK e : e = t \o s
    OBVIOUS
  <2>2. /\ e \in Seq(Messages) /\ Len(e) = Len(t) + Len(s)
        /\ \A k \in 1 .. Len(t) + Len(s) : e[k] = IF k <= Len(t) THEN t[k] ELSE s[k - Len(t)]
    BY <2>1, ConcatProperties, Zenon
  <2>3. /\ Len(e) = n + 1 /\ 1 \in 1 .. Len(e) /\ n + 1 \in 1 .. Len(e)
        /\ \A j \in 1 .. Len(e) : j # 1 => e[j] = c
        /\ e[1] = a
    <3>1. Len(e) = n + 1 /\ 1 \in 1 .. Len(e) /\ n + 1 \in 1 .. Len(e)
      BY <1>1, <1>2, <2>2
    <3>2. \A j \in 1 .. Len(e) : j # 1 => ~ (j <= 1) /\ j - 1 \in 1 .. n
      BY <3>1
    <3> QED BY <1>1, <1>2, <2>2, <3>1, <3>2
  <2>4. e[n + 1] = c /\ \A j \in 1 .. Len(e) : j > n + 1 => e[j].type # "change"
    BY <2>3
  <2>5. \A j \in 1 .. Len(e) : e[j].type = "reply" => j = 1
    BY <2>3
  <2>6. e = Announcement(n, c, a, first)
    BY <1>1, <1>2, <1>4, <2>1 DEF Announcement
  <2> QED BY <2>2, <2>3, <2>4, <2>5, <2>6 DEF Announces
<1> QED BY <1>3, <1>4

LEMMA ModemEndsInv ==
    ASSUME Inv, ModemEnds
    PROVE  Inv'
<1>1. PICK S \in MayEnd(down), cause \in Causes, first \in BOOLEAN :
        /\ up' = up \o (IF first
                        THEN [k \in 1 .. Cardinality(S) |-> Change(cause)] \o << GenReply(TRUE) >>
                        ELSE << GenReply(TRUE) >> \o [k \in 1 .. Cardinality(S) |-> Change(cause)])
        /\ calls' = [i \in Ids |-> IF i \in S THEN None ELSE calls[i]]
        /\ \E last \in S :
             lastChange' = [call |-> calls[last], cause |-> cause, ends |-> TRUE]
        /\ outcome' = IF request.asked = None THEN outcome
                      ELSE Outcome(request.name, request.asked, {calls[i] : i \in S}, FALSE)
  BY DEF ModemEnds
<1>2. /\ UNCHANGED << callIds, failCause, request, listed, gone >> /\ born' = born
      /\ down # None /\ down' = None
  BY DEF ModemEnds, hostVars
<1>3. S \subseteq Live /\ S # {} /\ down.name # "GetCallList"
  <2>1. CASE down.name \in {"Release", "HangupWaitingOrBackground",
                            "HangupForegroundResumeBackground", "ExplicitCallTransfer"}
    <3>1. S \in (SUBSET Live) \ {{}}
      BY <2>1 DEF MayEnd
    <3>2. S \subseteq Live /\ S # {}
      BY <3>1, Zenon
    <3> QED BY <2>1, <3>2
  <2>2. CASE down.name = "HangupSpecificCall"
    <3>1. S = {down.callId} /\ S \in SUBSET Live
      BY <2>2 DEF MayEnd
    <3> QED BY <2>2, <3>1
  <2>3. CASE down.name \notin {"Release", "HangupWaitingOrBackground",
                               "HangupForegroundResumeBackground", "ExplicitCallTransfer",
                               "HangupSpecificCall"}
    BY <2>3 DEF MayEnd
  <2> QED BY <2>1, <2>2, <2>3
<1>4. PICK n \in Nat \ {0} : n = Cardinality(S)
  <2>1. IsFiniteSet(S)
    BY <1>3, ConstantsAssumption, FS_Subset DEF Live
  <2> QED BY <1>3, <2>1, FS_CardinalityType, FS_EmptySet
<1>5. PICK c \in Messages : c = Change(cause) /\ c.type = "change" /\ c.cause = cause
  BY MessageTypes
<1>6. PICK a \in Messages : a = GenReply(TRUE) /\ a.type = "reply"
  BY MessageTypes
<1>7. PICK e \in Seq(Messages) :
        e = Announcement(n, c, a, first) /\ Announces(e, c)
  BY <1>5, <1>6, Announced
<1>8. up' = up \o e
  BY <1>1, <1>4, <1>5, <1>6, <1>7 DEF Announcement
<1>9. calls \in [Ids -> Calls \cup {None}] /\ born \in 0 .. MaxCalls
  BY DEF Inv, Types, Books
<1>10. calls' \in Books /\ \A c2 \in Range(calls') : c2 \in Range(calls) \/ c2 = None
  BY <1>1, <1>9 DEF Books, Range
<1>11. lastChange'.cause = cause /\ lastChange'.call \in Range(calls)
  BY <1>1, <1>3, <1>9 DEF Range, Live
<1>12. request.name # "CurrentCalls"
  BY <1>2, <1>3 DEF Inv, FlightInv
<1>13. \E k \in 1 .. Len(e) :
         /\ e[k].type = "change" /\ e[k].cause = lastChange'.cause
         /\ \A j \in 1 .. Len(e) : j > k => e[j].type # "change"
  BY <1>5, <1>7, <1>11 DEF Announces
<1>14. Types' /\ FlightInv' /\ ListInv' /\ CauseInv' /\ CommandInv'
  BY <1>2, <1>7, <1>8, <1>9, <1>10, <1>11, <1>12, <1>13, ModemKeeps DEF Announces
<1>15. RightCallAddressed'
  <2>1. CASE request.asked = None
    BY <1>1, <2>1 DEF Inv, RightCallAddressed
  <2>2. CASE request.asked # None
    <3>1. /\ outcome'.asked = request.asked /\ outcome'.fresh = (listed = calls)
          /\ outcome'.hit = {calls[i] : i \in S}
          /\ outcome'.inOrder =
               (InLineOrder \/ (request.name = "Hangup" /\ Len(callIds) = 1))
      BY <1>1, <2>2 DEF Outcome, Fresh
    <3>2. ASSUME outcome'.fresh, outcome'.inOrder
          PROVE  outcome'.hit = {request.asked}
      <4>1. \/ /\ down.name = "Release"
               /\ \E i \in Ids : Live = {i} /\ calls[i] = request.asked
            \/ /\ down.name \in {"HangupSpecificCall", "SeparateConnection"}
               /\ down.callId \in Ids /\ calls[down.callId] = request.asked
        BY <1>2, <2>2, <3>1, <3>2, AddressedCall
      <4>2. ASSUME NEW i \in Ids, Live = {i}, calls[i] = request.asked
            PROVE  outcome'.hit = {request.asked}
        <5>1. S = {i}
          BY <1>3, <4>2
        <5> QED BY <3>1, <4>2, <5>1
      <4>3. ASSUME down.name \in {"HangupSpecificCall", "SeparateConnection"},
                   calls[down.callId] = request.asked
            PROVE  outcome'.hit = {request.asked}
        <5>1. S = {down.callId}
          BY <4>3 DEF MayEnd
        <5> QED BY <3>1, <4>3, <5>1
      <4> QED BY <4>1, <4>2, <4>3
    <3> QED BY <3>1, <3>2 DEF RightCallAddressed
  <2> QED BY <2>1, <2>2
<1> QED BY <1>14, <1>15 DEF Inv

-----------------------------------------------------------------------------
LEMMA NextInv == Inv /\ [Next]_vars => Inv'
<1> SUFFICES ASSUME Inv, [Next]_vars PROVE Inv'
  OBVIOUS
<1>1. CASE UNCHANGED vars
  <2>1. Refuse /\ RightCallAddressed'
    BY <1>1 DEF vars, Refuse, Inv, RightCallAddressed
  <2> QED BY <2>1, RefuseInv
<1>2. CASE PlainStep
  BY <1>2, PlainInv
<1>3. CASE \E line \in Ids : HandleHangup(line) \/ HandleSeparateConnection(line)
  BY <1>3, LineInv
<1>4. CASE CompleteRequest
  BY <1>4, CompleteRequestInv
<1>5. CASE HandleCallIncoming \/ HandleCallStateChanged \/ HandleReply
  BY <1>5, IncomingInv, StateChangedInv, ReplyInv
<1>6. CASE ModemLists \/ ModemEnds \/ ModemSeparates
  BY <1>6, ModemListsInv, ModemEndsInv, ModemSeparatesInv
<1>7. CASE ModemOriginates \/ ModemObeys \/ ModemRefuses
  BY <1>7, ModemOriginatesInv, ModemObeysInv, ModemRefusesInv
<1>8. CASE IncomingCall
  BY <1>8, IncomingCallInv
<1>9. CASE \E i \in Ids : CallChanges(i) \/ \E cause \in Causes : CallEnds(i, cause)
  BY <1>9, CallChangesInv, CallEndsInv
<1> QED BY <1>1, <1>2, <1>3, <1>4, <1>5, <1>6, <1>7, <1>8, <1>9 DEF Next, PlainStep

\* The parts of the invariant hold together in every state of call.cpp, the
\* queue and the modem.
THEOREM Invariance == Spec => []Inv
<1> QED BY InitInv, NextInv, PTL DEF Spec

\* handleHangup and handleSeparateConnection address the call that Android
\* picked, when the list it picked from is current and in line order: whatever
\* the worker and the network do between the handler and the modem.
THEOREM RightCallIsAddressed == Spec => []RightCallAddressed
<1>1. Inv => RightCallAddressed
  BY DEF Inv
<1> QED BY <1>1, Invariance, PTL

\* handleLastCallFailCause answers with the cause of the call whose end
\* handleCurrentCalls has just shown, when that end is the latest change.
THEOREM FailCauseIsOfEndedCall == Spec => []FailCauseOfEndedCall
<1>1. Inv => FailCauseOfEndedCall
  <2> SUFFICES ASSUME Inv, lastChange.ends, lastChange.call \in gone
               PROVE  failCause = MapCallFail(lastChange.cause[1], lastChange.cause[2])
    BY DEF FailCauseOfEndedCall, LastCallFailCause
  <2>1. NoChangeAfter(0)
    BY DEF Inv, CauseInv
  <2>2. \A p \in 1 .. Len(up) : up[p].type # "change"
    BY <2>1 DEF NoChangeAfter
  <2> QED BY <2>2 DEF Inv, CauseInv
<1> QED BY <1>1, Invariance, PTL
=============================================================================
