------------------------------- MODULE RILCore -------------------------------
(***************************************************************************)
(* The request path of ril/: rild's request thread (RequestHandler::handle *)
(* and the handlers it calls), the IPC worker thread (completion callbacks *)
(* and unsolicited handlers), the mutex and the semaphore between them,    *)
(* the control pipe, the radio state and the message cache.                *)
(*                                                                         *)
(* A handler runs under m_rilMutex; RIL::execute gives the mutex up while  *)
(* it waits for the modem, and that is where the two threads interleave.   *)
(* The steps of a handler between two such points are one action.          *)
(*                                                                         *)
(* The RIL requests are grouped by what their handlers do, their kind:     *)
(*   local      completed without the modem                                *)
(*   sync       execute(), then complete                                   *)
(*   oem        OEM_HOOK_RAW: sync, with a radio gate of its own           *)
(*   cached     the cache, else execute() and put                          *)
(*   async      submit() with a callback that completes the request        *)
(*   set        async, and the callback invalidates a cache entry          *)
(*   radioOn, radioOff, shutdown   RADIO_POWER                             *)
(*   simStatus  GET_SIM_STATUS                                             *)
(*   simWrite   SIM_IO that updates EF 0x6F3B                              *)
(* The tables below give the kinds of each request, file by file.          *)
(*                                                                         *)
(* The IPC layer below is used as RequestChannel promises it: each message *)
(* is answered once, in any order.                                         *)
(***************************************************************************)
EXTENDS Integers, Sequences, FiniteSets, SequencesExt

CONSTANTS
    Tokens,            \* RIL_Tokens outstanding at once
    NotifiedKeys,      \* cache entries replaced by notifications (imsi, ...)
    SettableKeys,      \* cache entries that a set request invalidates
    SimKeys,           \* those whose handler needs RADIO_STATE_SIM_READY
    PipeCapacity,      \* messages the control pipe holds (16384 on Linux)
    MaxNotifications,  \* bound: notifications in a behaviour
    NoToken, NoKey

ASSUME ConstantsAssumption ==
    /\ NoToken \notin Tokens
    /\ NoKey \notin NotifiedKeys \cup SettableKeys
    /\ SimKeys \subseteq NotifiedKeys \cup SettableKeys
    /\ PipeCapacity \in Nat \ {0}
    /\ MaxNotifications \in Nat

Keys   == NotifiedKeys \cup SettableKeys
Absent == -1

VARIABLES
    mutex,        \* owner of m_rilMutex
    thread,       \* the request thread: where it is and the message it made
    semaphore,    \* m_executeSemaphore
    reply,        \* ExecutionData::reply on the request thread's stack
    radio,        \* m_radioState
    cache,        \* m_cache: the version of the value held, or Absent
    pipe,         \* the worker's control pipe
    worker,       \* the worker thread: where it is and the frame it handles
    mode,         \* external: the modem's power mode
    value,        \* external: the version of each value the modem has
    received,     \* external: messages the modem has not answered yet
    sent,         \* external: frames the worker has not read yet
    budget,       \* external: notifications the modem may still send
    tokens,       \* rild's view of a token: pending until OnRequestComplete
    exited,       \* exit(0) was called
    touched,      \* ghost: keys changed since the semaphore was given
    overtaken,    \* ghost: keys whose entry was put after a newer change
    latePin       \* ghost: since LPM was handled the SIM state was notified, or
                  \* it was being asked for then

hostVars == << mutex, thread, semaphore, reply, radio, cache, pipe, worker, tokens,
               exited, touched, overtaken, latePin >>
modemVars == << mode, value, received, sent, budget >>
vars == << hostVars, modemVars >>

-----------------------------------------------------------------------------
RadioStates == {"UNAVAILABLE", "OFF", "SIM_NOT_READY", "SIM_LOCKED_OR_ABSENT",
                "SIM_READY"}

\* A message: what it asks, the request it is for, the cache entry concerned.
Ops == {"query", "sync", "async", "set", "powerOff", "pin", "refresh", "event"}
Messages == [op : Ops, token : Tokens \cup {NoToken}, key : Keys \cup {NoKey}]
NoMessage == [op |-> "event", token |-> NoToken, key |-> NoKey]

\* A response or notification: `ok` says that a response has the expected type
\* and status, `pin` the SIM state it reports, `version` the value it carries.
FrameTypes == {"RESP", "BOOT", "NORMAL", "LPM", "RESET", "VALUE", "PIN"}
PinStates  == {"Ready", "SimUnavailable", "PINLock"}
Frame(type, m, ok, pin, version) ==
    [type |-> type, to |-> m, ok |-> ok, pin |-> pin, version |-> version]
NoFrame == Frame("BOOT", NoMessage, FALSE, "Ready", 0)

ExecutedOps  == {"query", "sync", "powerOff", "pin"}
CallbackOps  == {"async", "set"}

\* RequestHandler::handle(SecGetPinStatusReply *).
RadioStateOf(pin) ==
    CASE pin = "Ready"          -> "SIM_READY"
      [] pin = "SimUnavailable" -> "SIM_NOT_READY"
      [] OTHER                  -> "SIM_LOCKED_OR_ABSENT"

Frames == [type : FrameTypes, to : Messages, ok : BOOLEAN, pin : PinStates,
           version : Int]

TypeOK ==
    /\ mutex \in {"none", "request", "worker"}
    /\ thread \in [pc : {"idle", "asyncWrite", "syncWrite", "take", "relock"},
                   message : Messages]
    /\ semaphore \in Nat
    /\ reply \in Frames
    /\ radio \in RadioStates
    /\ cache \in [Keys -> Int]
    /\ pipe \in Seq(Messages) /\ Len(pipe) <= PipeCapacity
    /\ worker \in [pc : {"idle", "handle", "write"}, frame : Frames,
                   message : Messages]
    /\ mode \in {"off", "lpm", "normal"}
    /\ value \in [Keys -> Int]
    /\ received \in Seq(Messages)
    /\ sent \in Seq(Frames)
    /\ budget \in Nat
    /\ tokens \in [Tokens -> {"free", "pending", "lost"}]
    /\ exited \in BOOLEAN
    /\ touched \in SUBSET Keys
    /\ overtaken \in SUBSET Keys
    /\ latePin \in BOOLEAN

\* RIL_onRequest is registered, m_radioState is UNAVAILABLE, the worker runs.
Init ==
    /\ mutex = "none"
    /\ thread = [pc |-> "idle", message |-> NoMessage]
    /\ semaphore = 0
    /\ reply = NoFrame
    /\ radio = "UNAVAILABLE"
    /\ cache = [k \in Keys |-> Absent]
    /\ pipe = << >>
    /\ worker = [pc |-> "idle", frame |-> NoFrame, message |-> NoMessage]
    /\ mode = "off"
    /\ value = [k \in Keys |-> 0]
    /\ received = << >>
    /\ sent = << >>
    /\ budget = MaxNotifications
    /\ tokens = [t \in Tokens |-> "free"]
    /\ exited = FALSE
    /\ touched = {}
    /\ overtaken = {}
    /\ latePin = FALSE

-----------------------------------------------------------------------------
(* The request thread: RequestHandler::handle and RIL::execute.            *)

\* call.cpp.  A handler that finds no call or no such line completes locally.
CallHandlers ==
    [r \in {"HANGUP", "HANGUP_WAITING_OR_BACKGROUND", "ANSWER",
            "HANGUP_FOREGROUND_RESUME_BACKGROUND", "SEPARATE_CONNECTION"} |->
        {"local", "sync"}] @@
    [r \in {"GET_CURRENT_CALLS", "DIAL", "CONFERENCE", "UDUB", "DTMF", "DTMF_START",
            "DTMF_STOP", "SWITCH_WAITING_OR_HOLDING_AND_ACTIVE",
            "EXPLICIT_CALL_TRANSFER"} |-> {"sync"}] @@
    [r \in {"LAST_CALL_FAIL_CAUSE"} |-> {"local"}]

\* network.cpp.  A PLMN of more than six digits is refused locally.
SelectionHandlers ==
    [r \in {"QUERY_NETWORK_SELECTION_MODE"} |-> {"cached"}] @@
    [r \in {"SET_NETWORK_SELECTION_AUTOMATIC", "SET_NETWORK_SELECTION_MANUAL"} |->
        {"local", "set"}]

NetworkHandlers ==
    [r \in {"QUERY_AVAILABLE_NETWORKS", "SET_BAND_MODE"} |-> {"async"}] @@
    [r \in {"OPERATOR"} |-> {"cached"}] @@
    [r \in {"QUERY_AVAILABLE_BAND_MODE"} |-> {"local"}]

PreferredTypeHandlers ==
    [r \in {"SET_PREFERRED_NETWORK_TYPE"} |-> {"set"}] @@
    [r \in {"GET_PREFERRED_NETWORK_TYPE"} |-> {"cached"}]

RegistrationHandlers ==
    [r \in {"VOICE_REGISTRATION_STATE", "DATA_REGISTRATION_STATE"} |-> {"cached"}]

\* security.cpp.  A PIN that is too long or data that is not hexadecimal is
\* refused locally.
PinRequests == {"ENTER_SIM_PIN", "ENTER_SIM_PUK", "ENTER_SIM_PIN2", "ENTER_SIM_PUK2",
                "CHANGE_SIM_PIN", "CHANGE_SIM_PIN2"}

PinHandlers == [r \in PinRequests |-> {"local", "sync"}]

SimHandlers ==
    [r \in {"SIM_IO"} |-> {"local", "sync", "simWrite"}] @@
    [r \in {"GET_SIM_STATUS"} |-> {"simStatus"}]

\* misc.cpp.
MiscHandlers ==
    [r \in {"BASEBAND_VERSION", "GET_IMEI", "GET_IMSI"} |-> {"cached"}] @@
    [r \in {"GET_IMEISV"} |-> {"local"}]

\* display.cpp.
DisplayHandlers ==
    [r \in {"SCREEN_STATE"} |-> {"local"}] @@
    [r \in {"SIGNAL_STRENGTH"} |-> {"sync"}]

\* snd.cpp.
SoundHandlers == [r \in {"SET_MUTE", "GET_MUTE"} |-> {"sync"}]

\* power.cpp.
PowerHandlers ==
    [r \in {"RADIO_POWER"} |-> {"local", "radioOn", "radioOff", "shutdown"}]

\* oem.cpp.  Attaching the service, a malformed request and one that is not
\* supported need no modem; the others are what OemRequestHandler executes.
OemHandlers == [r \in {"OEM_HOOK_RAW"} |-> {"local", "oem"}]

\* RequestHandler::m_requestHandlers.
Handlers == CallHandlers @@ SelectionHandlers @@ NetworkHandlers @@ PreferredTypeHandlers
            @@ RegistrationHandlers @@ PinHandlers @@ SimHandlers @@ MiscHandlers
            @@ DisplayHandlers @@ SoundHandlers @@ PowerHandlers @@ OemHandlers

\* What handle() may have to do: what some handler does, or refuse a request
\* that supports() knows no handler of.
Kinds == UNION Range(Handlers) \cup {"local"}

\* The cache entry that a request of each kind is about.
KeysOf(kind) == CASE kind = "cached" -> Keys
                  [] kind = "set"    -> SettableKeys
                  [] OTHER           -> {NoKey}

RefusedByRadio(kind) ==
    /\ \/ radio = "UNAVAILABLE"
       \/ radio = "OFF" /\ kind \notin {"radioOn", "radioOff", "shutdown"}
    /\ kind \notin {"simStatus", "oem"}   \* these test it themselves

\* handleRadioPower: the radio is already as it is asked to be.
PowerAlreadySet(kind) ==
    \/ kind = "radioOn" /\ radio # "OFF"
    \/ kind \in {"radioOff", "shutdown"} /\ radio = "OFF"

\* handleOemHookRaw and handleSIMStatus test the radio state themselves.
NeedsRadio(kind) == kind \in {"oem", "simStatus"} /\ radio \in {"UNAVAILABLE", "OFF"}

\* handleIMSI refuses before it looks at the cache.
NeedsSim(kind, key) == kind = "cached" /\ key \in SimKeys /\ radio # "SIM_READY"

\* MessageCache::get.
CacheHit(kind, key) == kind = "cached" /\ cache[key] # Absent

\* The request is completed before the handler needs the modem.
CompletesAtOnce(kind, key) ==
    \/ RefusedByRadio(kind)
    \/ kind = "local"
    \/ PowerAlreadySet(kind)
    \/ NeedsRadio(kind)
    \/ NeedsSim(kind, key)
    \/ CacheHit(kind, key)

\* What the handler asks the modem.  PwrPhoneSetMode is submitted with a callback
\* that completes the request, as the asynchronous requests are.
OpOf(kind) == CASE kind = "cached"          -> "query"
                [] kind \in {"sync", "oem"} -> "sync"
                [] kind = "simStatus"       -> "pin"
                [] kind = "shutdown"        -> "powerOff"
                [] kind = "set"             -> "set"
                [] OTHER                    -> "async"

Idle == [pc |-> "idle", message |-> NoMessage]

\* As bugs would have it: execute() keeps the mutex; a handler completes the
\* request it has also handed to a callback.
BeginExecuteHoldingMutex(t, m) ==
    /\ thread' = [pc |-> "syncWrite", message |-> m]
    /\ mutex' = "request"
    /\ tokens' = [tokens EXCEPT ![t] = "pending"]

BeginSubmitCompleting(t, m) ==
    /\ thread' = [pc |-> "asyncWrite", message |-> m]
    /\ mutex' = "request"
    /\ UNCHANGED tokens

\* RIL::execute up to the write to the pipe: the mutex is given up.
BeginExecute(t, m) ==
    /\ thread' = [pc |-> "syncWrite", message |-> m]
    /\ tokens' = [tokens EXCEPT ![t] = "pending"]
    /\ UNCHANGED mutex

\* RIL::submit up to the write to the pipe: the handler still owns the mutex.
BeginSubmit(t, m) ==
    /\ thread' = [pc |-> "asyncWrite", message |-> m]
    /\ tokens' = [tokens EXCEPT ![t] = "pending"]
    /\ mutex' = "request"

\* RequestHandler::handle, from lock() to the first point where the handler
\* blocks or returns.
HandleRequest(t, kind, key) ==
    LET m == [op |-> OpOf(kind), token |-> t, key |-> key]
    IN  /\ ~exited
        /\ thread.pc = "idle"
        /\ mutex = "none"
        /\ tokens[t] = "free"
        /\ \/ /\ CompletesAtOnce(kind, key)
              /\ UNCHANGED << thread, mutex, tokens >>
           \/ /\ ~CompletesAtOnce(kind, key)
              /\ kind = "simWrite"     \* handleSIM_IO returns without completing
              /\ tokens' = [tokens EXCEPT ![t] = "lost"]
              /\ UNCHANGED << thread, mutex >>
           \/ /\ ~CompletesAtOnce(kind, key)
              /\ kind # "simWrite"
              /\ m.op \in ExecutedOps
              /\ BeginExecute(t, m)
           \/ /\ ~CompletesAtOnce(kind, key)
              /\ kind # "simWrite"
              /\ m.op \in CallbackOps
              /\ BeginSubmit(t, m)
        /\ UNCHANGED << semaphore, reply, radio, cache, pipe, worker, exited, touched,
                        overtaken, latePin, modemVars >>

\* IPCWorkerThread::submit called by an asynchronous handler; it then returns.
AsyncWrite ==
    /\ ~exited
    /\ thread.pc = "asyncWrite"
    /\ Len(pipe) < PipeCapacity
    /\ pipe' = Append(pipe, thread.message)
    /\ thread' = Idle
    /\ mutex' = "none"
    /\ UNCHANGED << semaphore, reply, radio, cache, worker, tokens, exited, touched,
                    overtaken, latePin, modemVars >>

\* IPCWorkerThread::submit called by RIL::execute.
SyncWrite ==
    /\ ~exited
    /\ thread.pc = "syncWrite"
    /\ Len(pipe) < PipeCapacity
    /\ pipe' = Append(pipe, thread.message)
    /\ thread' = [pc |-> "take", message |-> thread.message]
    /\ UNCHANGED << mutex, semaphore, reply, radio, cache, worker, tokens, exited,
                    touched, overtaken, latePin, modemVars >>

\* m_executeSemaphore.take().
Take ==
    /\ ~exited
    /\ thread.pc = "take"
    /\ semaphore > 0
    /\ semaphore' = semaphore - 1
    /\ thread' = [pc |-> "relock", message |-> thread.message]
    /\ UNCHANGED << mutex, reply, radio, cache, pipe, worker, tokens, exited, touched,
                    overtaken, latePin, modemVars >>

\* The rest of the handler, once execute() has returned reply f to message m.
\* An unexpected reply changes nothing.
ApplyReply(m, f) ==
    /\ cache' = IF f.ok /\ m.op = "query"
                THEN [cache EXCEPT ![m.key] = f.version]
                ELSE cache
    /\ radio' = IF ~f.ok THEN radio
                ELSE CASE m.op = "pin"      -> RadioStateOf(f.pin)
                       [] m.op = "powerOff" -> "UNAVAILABLE"
                       [] OTHER             -> radio

\* lockRIL() at the end of RIL::execute, the rest of the handler, and unlock.
Resume ==
    LET m == thread.message
    IN  /\ ~exited
        /\ thread.pc = "relock"
        /\ mutex = "none"
        /\ ApplyReply(m, reply)
        /\ overtaken' = IF ~reply.ok \/ m.op # "query" THEN overtaken
                        ELSE IF m.key \in touched THEN overtaken \cup {m.key}
                        ELSE overtaken \ {m.key}
        /\ tokens' = [tokens EXCEPT ![m.token] = "free"]
        /\ thread' = Idle
        /\ reply' = NoFrame
        /\ touched' = {}
        /\ UNCHANGED << mutex, semaphore, pipe, worker, exited, latePin, modemVars >>

-----------------------------------------------------------------------------
(* The worker thread: completion callbacks, unsolicited handlers, the pipe. *)

WorkerIdle == [pc |-> "idle", frame |-> NoFrame, message |-> NoMessage]

\* As a bug would have it: the semaphore is given twice.
OnExecutionCompleteTwice(f) ==
    /\ reply' = f
    /\ semaphore' = semaphore + 2
    /\ touched' = {}
    /\ UNCHANGED << worker, exited >>

\* RIL::onExecutionComplete: the reply goes to the waiting thread's stack.  No
\* mutex is taken.
OnExecutionComplete(f) ==
    /\ reply' = f
    /\ semaphore' = semaphore + 1
    /\ touched' = {}
    /\ UNCHANGED << worker, exited >>

\* IPCSocketHandler::handleMessage as far as a lock: the callback of the message
\* that a response answers, or the unsolicited handler of a notification.
ReadFrame ==
    /\ ~exited
    /\ worker.pc = "idle"
    /\ sent # << >>
    /\ sent' = Tail(sent)
    /\ LET f == Head(sent)
       IN  \/ /\ f.type = "RESP" /\ f.to.op \in ExecutedOps
              /\ OnExecutionComplete(f)
           \/ /\ f.type = "RESP" /\ f.to.op = "refresh" /\ ~f.ok
              /\ UNCHANGED << worker, reply, semaphore, touched, exited >>
           \/ /\ f.type = "RESET"            \* PwrPhoneReset: exit(0)
              /\ exited' = TRUE
              /\ UNCHANGED << worker, reply, semaphore, touched >>
           \/ /\ \/ f.type \notin {"RESP", "RESET"}
                 \/ f.type = "RESP" /\ f.to.op \in CallbackOps
                 \/ f.type = "RESP" /\ f.to.op = "refresh" /\ f.ok
              /\ worker' = [pc |-> "handle", frame |-> f, message |-> NoMessage]
              /\ UNCHANGED << reply, semaphore, touched, exited >>
    /\ UNCHANGED << mutex, thread, radio, cache, pipe, tokens, overtaken, latePin,
                    mode, value, received, budget >>

\* Messages that ask for the SIM state and whose reply is not applied yet.
PinOutstanding ==
    LET asks(m) == m.op \in {"pin", "refresh"}
    IN  \/ thread.pc # "idle" /\ asks(thread.message)
        \/ \E i \in DOMAIN pipe : asks(pipe[i])
        \/ \E i \in DOMAIN received : asks(received[i])
        \/ \E i \in DOMAIN sent : sent[i].type = "RESP" /\ asks(sent[i].to)

\* As a bug would have it: a put does not replace what is there (insert() of
\* an existing key).
ChangeCacheNoReplace(ks, newest) ==
    /\ cache' = [k \in Keys |-> IF k \in ks /\ (cache[k] = Absent \/ newest = Absent)
                                THEN newest ELSE cache[k]]
    /\ touched' = touched \cup ks
    /\ overtaken' = overtaken \ ks

\* A change of the cache by the worker: newest[k] for the keys in ks.
ChangeCache(ks, newest) ==
    /\ cache' = [k \in Keys |-> IF k \in ks THEN newest ELSE cache[k]]
    /\ touched' = touched \cup ks
    /\ overtaken' = overtaken \ ks

\* The callback of an asynchronous request: lock, invalidate, complete, unlock.
CallbackComplete(f) ==
    /\ f.type = "RESP" /\ f.to.op \in CallbackOps
    /\ IF f.to.op = "set" THEN ChangeCache({f.to.key}, Absent)
                          ELSE UNCHANGED << cache, touched, overtaken >>
    /\ tokens' = [tokens EXCEPT ![f.to.token] = "free"]
    /\ worker' = WorkerIdle
    /\ UNCHANGED << mutex, radio, latePin >>

\* RequestHandler::handle(SecGetPinStatusReply *), called by the completion of
\* the refresh or as the handler of a notification.
PinStatusReported(f) ==
    /\ \/ f.type = "RESP" /\ f.to.op = "refresh"
       \/ f.type = "PIN"
    /\ radio' = RadioStateOf(f.pin)
    /\ latePin' = (latePin \/ f.type = "PIN")
    /\ worker' = WorkerIdle
    /\ UNCHANGED << mutex, cache, touched, overtaken, tokens >>

\* PwrPhoneBootComplete and PwrPhoneModeChanged(Normal) up to their submit().
BeginWorkerSubmit(f) ==
    /\ f.type \in {"BOOT", "NORMAL"}
    /\ mutex' = "worker"
    /\ worker' = [pc |-> "write", frame |-> f,
                  message |-> [op |-> IF f.type = "BOOT" THEN "event" ELSE "refresh",
                               token |-> NoToken, key |-> NoKey]]
    /\ UNCHANGED << radio, cache, touched, overtaken, tokens, latePin >>

\* As a bug would have it: the radio state is left alone.
LowPowerModeKeepsRadio(f) ==
    /\ f.type = "LPM"
    /\ ChangeCache(Keys, Absent)
    /\ latePin' = PinOutstanding
    /\ worker' = WorkerIdle
    /\ UNCHANGED << radio, mutex, tokens >>

\* PwrPhoneModeChanged(LPM): radio off, then m_cache.flush().
LowPowerMode(f) ==
    /\ f.type = "LPM"
    /\ radio' = "OFF"
    /\ ChangeCache(Keys, Absent)
    /\ latePin' = PinOutstanding
    /\ worker' = WorkerIdle
    /\ UNCHANGED << mutex, tokens >>

\* A notification that carries a value: m_cache.put of a copy.
ValueNotified(f) ==
    /\ f.type = "VALUE"
    /\ ChangeCache({f.to.key}, f.version)
    /\ worker' = WorkerIdle
    /\ UNCHANGED << mutex, radio, tokens, latePin >>

HandleFrame ==
    /\ ~exited
    /\ worker.pc = "handle"
    /\ mutex = "none"
    /\ LET f == worker.frame
       IN  \/ CallbackComplete(f)
           \/ PinStatusReported(f)
           \/ BeginWorkerSubmit(f)
           \/ LowPowerMode(f)
           \/ ValueNotified(f)
    /\ UNCHANGED << thread, semaphore, reply, pipe, exited, modemVars >>

\* The worker writes to the pipe that only it reads, then finishes the handler.
WorkerWrite ==
    /\ ~exited
    /\ worker.pc = "write"
    /\ Len(pipe) < PipeCapacity
    /\ pipe' = Append(pipe, worker.message)
    /\ radio' = IF worker.frame.type = "BOOT" THEN "OFF" ELSE radio
    /\ mutex' = "none"
    /\ worker' = WorkerIdle
    /\ UNCHANGED << thread, semaphore, reply, cache, tokens, exited, touched,
                    overtaken, latePin, modemVars >>

\* IPCWorkerThread::dispatchEvents takes one message from the pipe and submits
\* it; an event is deleted once sent.
DispatchControl ==
    /\ ~exited
    /\ worker.pc = "idle"
    /\ pipe # << >>
    /\ pipe' = Tail(pipe)
    /\ received' = IF Head(pipe).op = "event" THEN received ELSE Append(received, Head(pipe))
    /\ UNCHANGED << mutex, thread, semaphore, reply, radio, cache, worker, tokens,
                    exited, touched, overtaken, latePin, mode, value, sent, budget >>

-----------------------------------------------------------------------------
(* The modem (external).                                                   *)

\* It answers the i-th message that it holds.  A set request may change the
\* value it sets; a query reports the value at this moment.
Answer(i) ==
    /\ i \in DOMAIN received
    /\ received' = RemoveAt(received, i)
    /\ LET m == received[i]
       IN  /\ IF m.op = "set" /\ budget > 0
              THEN /\ value' = [value EXCEPT ![m.key] = @ + 1]
                   /\ budget' = budget - 1
              ELSE UNCHANGED << value, budget >>
           /\ \E ok \in IF m.op \in {"query", "pin", "refresh", "powerOff"}
                         THEN BOOLEAN ELSE {TRUE},
                 pin \in IF m.op \in {"pin", "refresh"} THEN PinStates ELSE {"Ready"} :
                 sent' = Append(sent, Frame("RESP", m, ok, pin,
                                   IF m.op = "query" THEN value[m.key] ELSE 0))
    /\ UNCHANGED << hostVars, mode >>

\* It sends a notification, the first of which says that it is up.  Entering low
\* power voids every value.
Notify(type, key, pin) ==
    /\ budget > 0
    /\ (type = "BOOT") <=> (mode = "off")
    /\ budget' = budget - 1
    /\ mode' = CASE type \in {"BOOT", "LPM"} -> "lpm"
                 [] type = "NORMAL"          -> "normal"
                 [] OTHER                    -> mode
    /\ value' = CASE type = "LPM"   -> [k \in Keys |-> value[k] + 1]
                  [] type = "VALUE" -> [value EXCEPT ![key] = @ + 1]
                  [] OTHER          -> value
    /\ sent' = Append(sent, Frame(type, [NoMessage EXCEPT !.key = key], TRUE, pin,
                                  IF type = "VALUE" THEN value'[key] ELSE 0))
    /\ UNCHANGED << hostVars, received >>

Next ==
    \/ \E t \in Tokens, kind \in Kinds : \E key \in KeysOf(kind) :
           HandleRequest(t, kind, key)
    \/ AsyncWrite \/ SyncWrite \/ Take \/ Resume
    \/ ReadFrame \/ HandleFrame \/ WorkerWrite \/ DispatchControl
    \/ \E i \in DOMAIN received : Answer(i)
    \/ \E type \in {"BOOT", "NORMAL", "LPM", "RESET"} : Notify(type, NoKey, "Ready")
    \/ \E key \in NotifiedKeys : Notify("VALUE", key, "Ready")
    \/ \E pin \in PinStates : Notify("PIN", NoKey, pin)

Spec == Init /\ [][Next]_vars

\* Both threads keep running, the worker's select() neglects neither the socket
\* nor the pipe, and the modem answers its oldest message in the end.  rild owes
\* no request and the modem no notification.
FairSpec ==
    /\ Spec
    /\ WF_vars(AsyncWrite \/ SyncWrite \/ Take \/ Resume)
    /\ WF_vars(HandleFrame \/ WorkerWrite)
    /\ WF_vars(ReadFrame) /\ WF_vars(DispatchControl)
    /\ WF_vars(Answer(1))

-----------------------------------------------------------------------------
\* Places where a message of request t that a callback completes can be.
CallbackPlaces(t) ==
    LET for(m) == m.token = t /\ m.op \in CallbackOps
    IN  Cardinality({i \in DOMAIN pipe : for(pipe[i])})
        + Cardinality({i \in DOMAIN received : for(received[i])})
        + Cardinality({i \in DOMAIN sent : for(sent[i].to)})
        + (IF worker.pc = "handle" /\ for(worker.frame.to) THEN 1 ELSE 0)
        + (IF thread.pc = "asyncWrite" /\ for(thread.message) THEN 1 ELSE 0)

\* Whether the request thread itself will complete request t.
ThreadOwns(t) ==
    thread.pc \in {"syncWrite", "take", "relock"} /\ thread.message.token = t

\* Every pending request has exactly one future completer, either the thread
\* that is in execute() for it or one message with a callback, and a request
\* that is not pending has none: Request::complete, which deletes the request,
\* is called once and not again.
OneCompleter ==
    \A t \in Tokens :
        CallbackPlaces(t) + (IF ThreadOwns(t) THEN 1 ELSE 0)
            = (IF tokens[t] = "pending" THEN 1 ELSE 0)

\* execute() returns the reply to its own message: the one semaphore is given
\* once per execute(), by the completion of the message the thread waits for,
\* and never before ExecutionData::reply is set.
WakesWithOwnReply ==
    /\ semaphore = (IF thread.pc = "take" /\ reply # NoFrame THEN 1 ELSE 0)
    /\ thread.pc = "relock" => reply # NoFrame
    /\ reply # NoFrame => reply.to = thread.message

\* A change of entry k that the modem has sent and the worker has not applied.
ChangeInFlight(k) ==
    LET changes(f) == \/ f.type = "LPM"
                      \/ f.type = "VALUE" /\ f.to.key = k
                      \/ f.type = "RESP" /\ f.to.op = "set" /\ f.to.key = k
    IN  \/ \E i \in DOMAIN sent : changes(sent[i])
        \/ worker.pc = "handle" /\ changes(worker.frame)

\* A cached value is out of date only while its change is on its way, or if the
\* put at the end of execute() was overtaken: the worker changed the entry
\* after it gave the semaphore and before the request thread had the mutex.
CacheCoherent ==
    \A k \in Keys :
        \/ cache[k] = Absent
        \/ cache[k] = value[k]
        \/ ChangeInFlight(k)
        \/ k \in overtaken

\* Once the modem's change to low power mode has been handled the radio is off
\* and stays off, whatever was on its way and is requested then.  The exceptions
\* are those of the code: a report of the SIM state sets the radio state in any
\* mode, whether it replies to a request that was outstanding at the change or
\* the modem notifies it later.
RadioOffInLowPower ==
    LET turnsOff(f) == f.type \in {"BOOT", "LPM"}
        handled == /\ worker.pc = "idle" \/ ~turnsOff(worker.frame)
                   /\ \A i \in DOMAIN sent : ~turnsOff(sent[i])
    IN  mode = "lpm" /\ handled /\ ~latePin /\ ~exited
            => radio \in {"OFF", "UNAVAILABLE"}

\* Both threads wait for each other: neither can go on, and nothing the modem
\* still has to say would wake either.
Hung ==
    /\ ~exited
    /\ \/ /\ thread.pc \in {"asyncWrite", "syncWrite"}
          /\ Len(pipe) = PipeCapacity
       \/ thread.pc = "take" /\ semaphore = 0
       \/ thread.pc = "relock" /\ mutex # "none"
    /\ \/ worker.pc = "handle" /\ mutex # "none"
       \/ worker.pc = "write" /\ Len(pipe) = PipeCapacity
       \/ /\ worker.pc = "idle"
          /\ pipe = << >> /\ sent = << >> /\ received = << >>

\* The mutex, the semaphore and the pipe deadlock the two threads only when the
\* control pipe is full: a blocking write() under m_rilMutex, or by the worker
\* that is the pipe's only reader.
HangNeedsFullPipe == Hung => Len(pipe) = PipeCapacity

\* The worker waits for the pipe that only it empties, or for a mutex whose owner
\* waits for that pipe.
WorkerStuck ==
    /\ Len(pipe) = PipeCapacity
    /\ \/ worker.pc = "write"
       \/ worker.pc = "handle" /\ mutex = "request" /\ thread.pc = "asyncWrite"

\* Every request that is accepted is completed, unless the modem resets or the
\* worker is stuck on a full pipe.  (simWrite requests are never completed and
\* are not counted here.)
EveryRequestCompletes ==
    \A t \in Tokens : (tokens[t] = "pending") ~>
                         (tokens[t] # "pending" \/ exited \/ WorkerStuck)
=============================================================================
