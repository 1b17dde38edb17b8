------------------------------- MODULE Calls --------------------------------
(***************************************************************************)
(* ril/call.cpp: the list of calls that the RIL keeps from one             *)
(* GET_CURRENT_CALLS to the next (m_callIds), the requests that pick a     *)
(* call from it, and the cause of the last failed call                     *)
(* (m_lastCallFailCause), against a modem whose calls begin and end on     *)
(* their own.                                                              *)
(*                                                                         *)
(* The request thread runs one request at a time and holds m_rilMutex      *)
(* except while it waits in execute(), so that the two halves of a handler *)
(* are one step each and the worker's notification handlers run between    *)
(* them.  Modem and RIL exchange messages in order.  The gate on the radio *)
(* state and the threads themselves are modelled in RILCore.               *)
(***************************************************************************)
EXTENDS Integers, Sequences, FiniteSets, Functions

CONSTANTS
    Ids,        \* call identifiers of the modem, from 1
    MaxCalls,   \* bound: calls during a behaviour
    MaxChanges, \* bound: state changes of a call that do not end it
    MaxQueue,   \* bound: messages the worker is behind when the network acts
    Causes,     \* pairs of release causes the network gives
    None        \* no call, no request, no command

Calls == 1 .. MaxCalls

\* The requests whose handlers wait in execute(), before the reply has come.
RequestNames == {"CurrentCalls", "Dial", "Answer", "ManageCalls", "DTMF", "Hangup", "Separate"}
Requests == [name : RequestNames, asked : Calls \cup {None}, reply : {None}]

ASSUME ConstantsAssumption ==
    /\ IsFiniteSet(Ids) /\ Ids = 1 .. Cardinality(Ids)
    /\ MaxCalls \in Nat /\ MaxChanges \in Nat /\ MaxQueue \in Nat
    /\ Causes \subseteq (0 .. 255) \X (0 .. 255)
    /\ None \notin Nat /\ None \notin Requests

VARIABLES
    callIds,    \* m_callIds
    failCause,  \* m_lastCallFailCause
    request,    \* the request whose handler waits in execute(), or None
    listed,     \* Android: the call it was last told of under each identifier
    gone,       \* Android: calls of the list before that are not in the last one
    down,       \* the command on its way to the modem, or None
    up,         \* messages on their way to the worker
    calls,      \* external: the call that has each identifier, or None
    born,       \* external: number of calls so far
    changes,    \* external: number of other state changes so far
    lastChange, \* ghost: the latest state change of the modem
    outcome     \* ghost: what became of the latest request that names a call

hostVars == << callIds, failCause, request, listed, gone >>
modemVars == << calls, born, changes, lastChange >>
vars == << hostVars, down, up, modemVars, outcome >>

-----------------------------------------------------------------------------
(* Causes. *)

\* mapCallFail, whose names are those of RIL_LastCallFailCause.
MapCallFail(cause1, cause2) ==
    CASE cause1 \in {2, 4, 5, 8} -> "ERROR_UNSPECIFIED"
      [] cause1 = 3 -> "CONGESTION"
      [] cause1 = 6 -> "ACM_LIMIT_EXCEEDED"
      [] cause1 = 10 -> "CALL_BARRED"
      [] OTHER ->
           CASE cause2 = 1 -> "UNOBTAINABLE_NUMBER"
             [] cause2 = 4 -> "CALL_BARRED"
             [] cause2 = 6 -> "BUSY"
             [] cause2 = 7 -> "18"
             [] cause2 = 8 -> "19"
             [] cause2 \in {9, 16} -> "ERROR_UNSPECIFIED"
             [] cause2 = 20 -> "CONGESTION"
             [] cause2 = 27 -> "57"
             [] cause2 = 31 -> "ACM_LIMIT_EXCEEDED"
             [] cause2 = 32 -> "69"
             [] cause2 = 37 -> "88"
             [] OTHER -> "NORMAL"

NoCause == << 0, 0 >>

Init ==
    /\ callIds = << >>
    /\ failCause = "ERROR_UNSPECIFIED"
    /\ request = None
    /\ listed = [i \in Ids |-> None]
    /\ gone = {}
    /\ down = None
    /\ up = << >>
    /\ calls = [i \in Ids |-> None]
    /\ born = 0
    /\ changes = 0
    /\ lastChange = [call |-> None, cause |-> NoCause, ends |-> FALSE]
    /\ outcome = None

-----------------------------------------------------------------------------
(* The request thread.  A handler either completes its request at once or  *)
(* sends a command and waits; CompleteRequest is its second half.          *)

Idle == request = None

Command(name, callId) == [name |-> name, callId |-> callId]

\* RIL::execute.
Execute(name, command, asked) ==
    /\ request' = [name |-> name, asked |-> asked, reply |-> None]
    /\ down' = command
    /\ UNCHANGED << callIds, failCause, listed, gone, up, modemVars >>

\* Completed without a word to the modem.
Refuse == UNCHANGED << hostVars, down, up, modemVars >>

Fresh == listed = calls
InLineOrder == \A k \in DOMAIN callIds : callIds[k] = k

\* What became of a request for one call: `hit` are the calls it changed.
Outcome(name, asked, hit, failed) ==
    [asked |-> asked, hit |-> hit, failed |-> failed, fresh |-> Fresh,
     inOrder |-> InLineOrder \/ (name = "Hangup" /\ Len(callIds) = 1)]

\* handleCurrentCalls, up to the wait.
HandleCurrentCalls ==
    /\ Idle
    /\ Execute("CurrentCalls", Command("GetCallList", 0), None)
    /\ outcome' = None

\* handleDial: the number is cut to 82 bytes and the command is built from it.
HandleDial ==
    /\ Idle
    /\ Execute("Dial", Command("Originate", 0), None)
    /\ outcome' = None

\* handleAnswer.
HandleAnswer ==
    /\ Idle
    /\ IF callIds # << >>
       THEN Execute("Answer", Command("Answer", 0), None)
       ELSE Refuse
    /\ outcome' = None

\* handleSwitchWaitingOrHoldingAndActive, handleConference,
\* handleExplicitCallTransfer, handleUDUB: SsManageCall without a call.
ManageCalls(command) ==
    /\ Idle
    /\ Execute("ManageCalls", Command(command, 0), None)
    /\ outcome' = None

HandleSwitchWaitingOrHoldingAndActive == ManageCalls("SwitchWaitingOrHoldingAndActive")
HandleConference == ManageCalls("Conference")
HandleUDUB == ManageCalls("HangupWaitingOrBackground")
HandleExplicitCallTransfer == ManageCalls("ExplicitCallTransfer")

\* handleDTMF: at most 82 digits.
HandleDTMF ==
    /\ Idle
    /\ Execute("DTMF", Command("SendBurstDtmf", 0), None)
    /\ outcome' = None

\* continuousDTMF, for handleDTMFStart and handleDTMFStop.
ContinuousDTMF(action) ==
    /\ Idle
    /\ Execute("DTMF", Command(action, 0), None)
    /\ outcome' = None

HandleDTMFStart == ContinuousDTMF("StartDtmf")
HandleDTMFStop == ContinuousDTMF("StopDtmf")

\* As a bug would have it: lineIndex is the line itself.
OnLineFromZero(name, command, line) ==
    IF line >= Len(callIds)
    THEN Refuse /\ outcome' = Outcome(name, listed[line], {}, FALSE)
    ELSE /\ Execute(name, Command(command, callIds[line + 1]), listed[line])
         /\ outcome' = None

\* The command that addresses a line of m_callIds: the line is a position in
\* the list, not an identifier.
OnLine(name, command, line) ==
    IF line > Len(callIds)
    THEN Refuse /\ outcome' = Outcome(name, listed[line], {}, FALSE)
    ELSE /\ Execute(name, Command(command, callIds[line]), listed[line])
         /\ outcome' = None

\* genericHangup with a call: one call is released without looking at which
\* it is.
HandleHangup(line) ==
    /\ Idle
    /\ CASE callIds = << >> ->
              Refuse /\ outcome' = Outcome("Hangup", listed[line], {}, FALSE)
         [] Len(callIds) = 1 ->
              /\ Execute("Hangup", Command("Release", 0), listed[line])
              /\ outcome' = None
         [] OTHER -> OnLine("Hangup", "HangupSpecificCall", line)

\* genericHangup without a call, for handleHangupWaitingOrBackground and
\* handleHangupForegroundResumeBackground.
HangupSome(command) ==
    /\ Idle
    /\ CASE callIds = << >> -> Refuse
         [] Len(callIds) = 1 -> Execute("Hangup", Command("Release", 0), None)
         [] OTHER -> Execute("Hangup", Command(command, 0), None)
    /\ outcome' = None

HandleHangupWaitingOrBackground == HangupSome("HangupWaitingOrBackground")
HandleHangupForegroundResumeBackground == HangupSome("HangupForegroundResumeBackground")

\* handleSeparateConnection.
HandleSeparateConnection(line) ==
    /\ Idle
    /\ OnLine("Separate", "SeparateConnection", line)

Reply(ok, ids, who) == [type |-> "reply", ok |-> ok, ids |-> ids, calls |-> who]
GenReply(ok) == Reply(ok, << >>, None)

\* The request thread after execute(): completeGenCommand, which tells Android
\* the result and changes nothing, or the second half of handleCurrentCalls,
\* which keeps the old list unless the reply is a list.
CompleteRequest ==
    /\ request # None /\ request.reply # None
    /\ IF request.name = "CurrentCalls" /\ request.reply.ok
       THEN /\ callIds' = request.reply.ids
            /\ listed' = request.reply.calls
            /\ gone' = (Range(listed) \ Range(listed')) \ {None}
       ELSE UNCHANGED << callIds, listed, gone >>
    /\ request' = None
    /\ outcome' = None
    /\ UNCHANGED << failCause, down, up, modemVars >>

\* What handleLastCallFailCause completes its request with.
LastCallFailCause == failCause

-----------------------------------------------------------------------------
(* The worker thread takes the modem's messages in order.                   *)

Received(type) == up # << >> /\ Head(up).type = type

\* handle(CallIncoming *): Android is told, nothing is kept.
HandleCallIncoming ==
    /\ Received("incoming")
    /\ up' = Tail(up)
    /\ UNCHANGED << hostVars, down, modemVars, outcome >>

\* As a bug would have it: the first cause is kept until a call ends normally.
HandleCallStateChangedOnce ==
    /\ Received("change")
    /\ LET cause == MapCallFail(Head(up).cause[1], Head(up).cause[2])
       IN  failCause' = IF failCause \in {"ERROR_UNSPECIFIED", "NORMAL"}
                        THEN cause ELSE failCause
    /\ up' = Tail(up)
    /\ UNCHANGED << callIds, request, listed, gone, down, modemVars, outcome >>

\* handle(CallStateChanged *): every state change sets the cause, whichever
\* call it is about and whether or not the call ended.
HandleCallStateChanged ==
    /\ Received("change")
    /\ failCause' = MapCallFail(Head(up).cause[1], Head(up).cause[2])
    /\ up' = Tail(up)
    /\ UNCHANGED << callIds, request, listed, gone, down, modemVars, outcome >>

\* RIL::onExecutionComplete: the reply wakes the request thread.
HandleReply ==
    /\ Received("reply")
    /\ request' = [request EXCEPT !.reply = Head(up)]
    /\ up' = Tail(up)
    /\ UNCHANGED << callIds, failCause, listed, gone, down, modemVars, outcome >>

-----------------------------------------------------------------------------
(* The modem and the network (external).                                   *)

Live == {i \in Ids : calls[i] # None}
Free == Ids \ Live
Lowest(S) == CHOOSE i \in S : \A j \in S : i <= j

Change(cause) == [type |-> "change", cause |-> cause]

\* The orders in which a set of identifiers can be listed.
Orders(S) == {s \in [1 .. Cardinality(S) -> S] : Range(s) = S}

\* The sets of calls that a command may end.
MayEnd(command) ==
    CASE command.name \in {"Release", "HangupWaitingOrBackground",
                           "HangupForegroundResumeBackground", "ExplicitCallTransfer"} ->
           (SUBSET Live) \ {{}}
      [] command.name = "HangupSpecificCall" -> {{command.callId}} \cap (SUBSET Live)
      [] OTHER -> {}

\* The call list, in an order of the modem's own.
ModemLists ==
    /\ down # None /\ down.name = "GetCallList"
    /\ \E ids \in Orders(Live) : up' = Append(up, Reply(TRUE, ids, calls))
    /\ down' = None
    /\ UNCHANGED << hostVars, modemVars, outcome >>

\* A command that ends calls: each end is announced, before the reply or
\* after it, and the calls may end in any order.
ModemEnds ==
    /\ down # None
    /\ \E S \in MayEnd(down), cause \in Causes, first \in BOOLEAN :
         LET ends == [k \in 1 .. Cardinality(S) |-> Change(cause)]
             ok == << GenReply(TRUE) >>
         IN  /\ up' = up \o (IF first THEN ends \o ok ELSE ok \o ends)
             /\ calls' = [i \in Ids |-> IF i \in S THEN None ELSE calls[i]]
             /\ \E last \in S :
                  lastChange' = [call |-> calls[last], cause |-> cause, ends |-> TRUE]
             /\ outcome' = IF request.asked = None THEN outcome
                           ELSE Outcome(request.name, request.asked, {calls[i] : i \in S}, FALSE)
    /\ down' = None
    /\ UNCHANGED << hostVars, born, changes >>

\* A call is taken out of a conference.
ModemSeparates ==
    /\ down # None /\ down.name = "SeparateConnection" /\ down.callId \in Live
    /\ up' = Append(up, GenReply(TRUE))
    /\ outcome' = Outcome(request.name, request.asked, {calls[down.callId]}, FALSE)
    /\ down' = None
    /\ UNCHANGED << hostVars, modemVars >>

\* A new call takes the lowest identifier that is free.
Begin ==
    /\ Free # {} /\ born < MaxCalls
    /\ born' = born + 1
    /\ calls' = [calls EXCEPT ![Lowest(Free)] = born + 1]

ModemOriginates ==
    /\ down # None /\ down.name = "Originate"
    /\ Begin
    /\ up' = up \o << GenReply(TRUE), Change(NoCause) >>
    /\ lastChange' = [call |-> born + 1, cause |-> NoCause, ends |-> FALSE]
    /\ down' = None
    /\ UNCHANGED << hostVars, changes, outcome >>

\* The remaining commands neither begin nor end a call.
ModemObeys ==
    /\ down # None
    /\ down.name \in {"Answer", "SwitchWaitingOrHoldingAndActive", "Conference",
                      "SendBurstDtmf", "StartDtmf", "StopDtmf"}
    /\ up' = Append(up, GenReply(TRUE))
    /\ down' = None
    /\ UNCHANGED << hostVars, modemVars, outcome >>

\* Any command may fail, or be answered with something else.
ModemRefuses ==
    /\ down # None
    /\ up' = Append(up, GenReply(FALSE))
    /\ outcome' = IF request.asked = None THEN outcome
                  ELSE Outcome(request.name, request.asked, {}, TRUE)
    /\ down' = None
    /\ UNCHANGED << hostVars, modemVars >>

NetworkActs == Len(up) < MaxQueue

IncomingCall ==
    /\ NetworkActs
    /\ Begin
    /\ up' = Append(up, [type |-> "incoming"])
    /\ UNCHANGED << hostVars, down, changes, lastChange, outcome >>

\* The other party hangs up, or the network drops the call.
CallEnds(i, cause) ==
    /\ NetworkActs /\ i \in Live
    /\ calls' = [calls EXCEPT ![i] = None]
    /\ up' = Append(up, Change(cause))
    /\ lastChange' = [call |-> calls[i], cause |-> cause, ends |-> TRUE]
    /\ UNCHANGED << hostVars, down, born, changes, outcome >>

\* A call is connected, held, ...
CallChanges(i) ==
    /\ NetworkActs /\ i \in Live
    /\ changes < MaxChanges
    /\ changes' = changes + 1
    /\ up' = Append(up, Change(NoCause))
    /\ lastChange' = [call |-> calls[i], cause |-> NoCause, ends |-> FALSE]
    /\ UNCHANGED << hostVars, down, calls, born, outcome >>

-----------------------------------------------------------------------------
Next ==
    \/ HandleCurrentCalls \/ HandleDial \/ HandleAnswer
    \/ HandleSwitchWaitingOrHoldingAndActive \/ HandleConference \/ HandleUDUB
    \/ HandleExplicitCallTransfer
    \/ HandleDTMF \/ HandleDTMFStart \/ HandleDTMFStop
    \/ HandleHangupWaitingOrBackground \/ HandleHangupForegroundResumeBackground
    \/ \E line \in Ids : HandleHangup(line) \/ HandleSeparateConnection(line)
    \/ CompleteRequest
    \/ HandleCallIncoming \/ HandleCallStateChanged \/ HandleReply
    \/ ModemLists \/ ModemEnds \/ ModemSeparates \/ ModemOriginates \/ ModemObeys
    \/ ModemRefuses
    \/ IncomingCall
    \/ \E i \in Ids : CallChanges(i) \/ \E cause \in Causes : CallEnds(i, cause)

Spec == Init /\ [][Next]_vars

-----------------------------------------------------------------------------
\* HANGUP and SEPARATE_CONNECTION act on the call that Android picked from the
\* list it was given, and on no other, and are not refused by the RIL, in two
\* circumstances that the code relies on: no call has begun or ended between
\* that list and the command's arrival at the modem, and the modem listed the
\* calls by their identifiers 1, 2, ... without a gap (a single call is
\* released whatever its identifier).  genericHangup takes the identifier for
\* a position: when call 1 of three has ended, it hangs up the wrong call.
RightCallAddressed ==
    outcome # None /\ outcome.asked # None /\ outcome.fresh /\ outcome.inOrder
        => outcome.failed \/ outcome.hit = {outcome.asked}

\* When a list shows Android that a call has ended, and nothing has happened
\* to any call since it ended, LAST_CALL_FAIL_CAUSE gives that call's cause:
\* the worker has handled the state change before the list was delivered, and
\* no earlier cause is left over.
FailCauseOfEndedCall ==
    lastChange.ends /\ lastChange.call \in gone
        => LastCallFailCause = MapCallFail(lastChange.cause[1], lastChange.cause[2])
=============================================================================
