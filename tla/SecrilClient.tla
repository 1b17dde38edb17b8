---------------------------- MODULE SecrilClient ----------------------------
(***************************************************************************)
(* The way of a client's settings to the modem: secril-client-compat       *)
(* (client.cpp, ICrossClientService.cpp) in the client's process, the Java *)
(* services in the phone process, which may die and be started again while *)
(* a call is under way, and the OEM requests of the RIL in rild, which     *)
(* lives on.  The forms of the messages are in OemMarshalling; how the     *)
(* service matches results to its callers is the subject of OemCalls.      *)
(*                                                                         *)
(* One thread uses one client context.  rild runs one request at a time,   *)
(* in the order in which they came.                                        *)
(***************************************************************************)
EXTENDS OemMarshalling, FiniteSets

CONSTANTS
    Uids,        \* the users that the client may run as
    Values,      \* integers the client gives as arguments
    Callbacks,   \* completion handlers the client program has
    MaxCalls,    \* bound: settings made
    MaxOutages,  \* bound: times the radio goes off
    MaxServices, \* bound: times the phone process is started
    Null         \* no handler, no service, no call

Methods == AudioMethods \cup ServiceModeMethods \cup {"samsungOemRequest"}

\* A call in progress: its method and arguments, the service it goes to, the
\* handler for its result, and its reply once it has come.
ClientCalls == [method : Methods, arguments : Seq(Int), to : Nat, handler : Callbacks \cup {Null},
                stage : {"sent", "waiting", "replied"}, reply : Seq(Int)]

ASSUME SecrilAssumption ==
    /\ Values \subseteq Int
    /\ Null \notin Callbacks /\ Null \notin Nat /\ Null \notin ClientCalls
    /\ MaxCalls \in Nat /\ MaxServices \in Nat /\ MaxOutages \in Nat

VARIABLES
    uid,        \* the user that the client runs as
    interface,  \* client->interface: the service it is a proxy of, or Null
    callback,   \* client->callbacks, at RIL_REQUEST_OEM_HOOK_RAW
    call,       \* the call in progress, or Null
    made,       \* number of calls made
    last,       \* the latest call that returned
    service,    \* external: the phone process now running, or Null
    started,    \* external: number of phone processes so far
    rild,       \* the RIL: requests that have come, in order
    executing,  \* the RIL: the request whose message is at the modem, or Null
    radioOn,    \* the RIL: radio state other than off and unavailable
    outages,    \* external: number of times the radio went off
    modem       \* external: the latest message carried out, and the mute state

clientVars == << uid, interface, callback, call, made, last >>
phoneVars == << service, started >>
rilVars == << rild, executing, radioOn, outages >>
secrilVars == << clientVars, phoneVars, rilVars, modem >>

-----------------------------------------------------------------------------
\* The message that carries each setting.
MessageOf(method) ==
    CASE method = "setLoopbackTest" -> "SndSetLoopbackCtrl"
      [] method = "setDhaSolution" -> "SndSetDhaCtrl"
      [] method = "setTwoMicControl" -> "SndSetTwoMicCtrl"
      [] method = "setMute" -> "SndSetMicMute"
      [] method = "setCallRecord" -> "SndSetVoiceRecordingCtrl"
      [] method = "setCallClockSync" -> "SndExecClockCtrl"
      [] method = "setVideoCallClockSync" -> "SndSetVideoCallCtrl"
      [] method = "setCallAudioPath" -> "SndSetAudioPath"
      [] method = "setCallVolume" -> "SndSetVolumeCtrl"
      [] method = "enterServiceMode" -> "SvcEnterServiceMode"
      [] method = "exitServiceMode" -> "SvcExitServiceMode"
      [] method = "sendServiceKeyCode" -> "SvcProcessKeyCode"

Setters == (AudioMethods \cup ServiceModeMethods) \ {"getMute"}

Outcome(method, arguments, status) ==
    [method |-> method, arguments |-> arguments, status |-> status,
     handler |-> Null, value |-> FALSE]

\* OpenClient_RILD; the service may not be there yet.
SecrilInit ==
    /\ uid \in Uids
    /\ interface = Null
    /\ callback = Null
    /\ call = Null
    /\ made = 0
    /\ last = Outcome("open", << >>, "SUCCESS")
    /\ service = Null
    /\ started = 0
    /\ rild = << >>
    /\ executing = Null
    /\ radioOn = TRUE
    /\ outages = 0
    /\ modem = [message |-> NoMessage, muted |-> FALSE]

-----------------------------------------------------------------------------
(* The client library: connection and handlers.                            *)

Idle == call = Null

Returned(status) ==
    /\ last' = Outcome("connection", << >>, status)
    /\ UNCHANGED << uid, call, made, phoneVars, rilVars, modem >>

\* Connect_RILD: an open connection is dropped first.
Connect ==
    /\ Idle
    /\ interface' = service
    /\ Returned(IF service # Null THEN "SUCCESS" ELSE "REFUSED")
    /\ UNCHANGED callback

\* Disconnect_RILD; CloseClient_RILD does the same to an open connection and
\* keeps the context.
Disconnect ==
    /\ Idle
    /\ interface' = Null
    /\ Returned(IF interface # Null THEN "SUCCESS" ELSE "UNKNOWN")
    /\ UNCHANGED callback

CloseClient ==
    /\ Idle
    /\ interface' = Null
    /\ Returned("SUCCESS")
    /\ UNCHANGED callback

\* isConnected_RILD: pingBinder() answers only if the service still lives.
IsConnected ==
    /\ Idle
    /\ LET alive == interface # Null /\ interface = service
       IN  /\ interface' = IF alive THEN interface ELSE Null
           /\ Returned(IF alive THEN "1" ELSE "0")
    /\ UNCHANGED callback

\* RegisterRequestCompleteHandler: std::map::insert does not replace an entry
\* that is there; NULL erases it.
RegisterRequestCompleteHandler(cb) ==
    /\ Idle
    /\ callback' = IF cb = Null \/ callback = Null THEN cb ELSE callback
    /\ Returned("SUCCESS")
    /\ UNCHANGED interface

-----------------------------------------------------------------------------
(* The client library: calls.                                              *)

\* remote()->transact: the arguments are on their way.
Transact(method, arguments, to, cb) ==
    /\ call' = [method |-> method, arguments |-> arguments, to |-> to, handler |-> cb,
                stage |-> "sent", reply |-> << >>]
    /\ made' = made + 1
    /\ UNCHANGED << uid, interface, callback, last, phoneVars, rilVars, modem >>

Refused(method) ==
    /\ last' = Outcome(method, << >>, "REFUSED")
    /\ made' = made + 1
    /\ UNCHANGED << uid, interface, callback, call, phoneVars, rilVars, modem >>

\* The setters have the same body around another transaction.
Setter(method, arguments) ==
    /\ Idle /\ made < MaxCalls
    /\ IF interface = Null THEN Refused(method)
       ELSE Transact(method, Transaction(method, arguments), interface, Null)

SetLoopbackTest(loopback, path) == Setter("setLoopbackTest", << loopback, path >>)
SetDhaSolution(mode, select, extra) == Setter("setDhaSolution", << mode, select, extra >>)
SetTwoMicControl(param1, param2) == Setter("setTwoMicControl", << param1, param2 >>)
SetMute(mute) == Setter("setMute", << mute >>)
SetCallRecord(record) == Setter("setCallRecord", << record >>)
SetCallClockSync(sync) == Setter("setCallClockSync", << sync >>)
SetVideoCallClockSync(sync) == Setter("setVideoCallClockSync", << sync >>)
SetCallAudioPath(path, extraVolume) == Setter("setCallAudioPath", << path, extraVolume >>)
SetCallVolume(device, volume) == Setter("setCallVolume", << device, volume >>)

\* GetMute.
GetMute(cb) ==
    /\ Idle /\ made < MaxCalls
    /\ IF interface = Null THEN Refused("getMute")
       ELSE Transact("getMute", << >>, interface, cb)

\* InvokeOemRequestHookRaw.
InvokeOemRequestHookRaw ==
    /\ Idle /\ made < MaxCalls
    /\ CASE interface = Null -> Refused("samsungOemRequest")
         [] interface # Null /\ callback = Null ->
              /\ last' = Outcome("samsungOemRequest", << >>, "UNKNOWN")
              /\ made' = made + 1
              /\ UNCHANGED << uid, interface, callback, call, phoneVars, rilVars, modem >>
         [] OTHER -> Transact("samsungOemRequest", << 0 >>, interface, callback)

\* A program calls enterServiceMode, exitServiceMode or sendServiceKeyCode of
\* PhoneService.
ServiceModeCall(method, arguments) ==
    /\ Idle /\ made < MaxCalls
    /\ service # Null
    /\ Transact(method, arguments, service, Null)

\* What a proxy makes of the reply, for each kind of method.
Succeeded ==
    CASE call.method = "getMute" -> ProxyMuteResult(call.reply)
      [] call.method = "samsungOemRequest" -> ProxyOemResult(call.reply)
      [] OTHER -> ProxyResult(call.reply)

\* As a bug would have it: only the exception code of the reply is looked at.
ReturnUnlessException ==
    /\ call # Null /\ call.stage = "replied"
    /\ last' = [Outcome(call.method, call.arguments,
                        IF ReadInt32(call.reply, 1) = 0 THEN "SUCCESS" ELSE "IO_ERROR")
                   EXCEPT !.handler = call.handler, !.value = TRUE]
    /\ call' = Null
    /\ UNCHANGED << uid, interface, callback, made, phoneVars, rilVars, modem >>

\* The call returns.  The byte that GetMute gives its handler is made from
\* `ret`, which is true, and not from the state that was read.
Return ==
    /\ call # Null /\ call.stage = "replied"
    /\ last' = IF Succeeded
               THEN [Outcome(call.method, call.arguments, "SUCCESS")
                        EXCEPT !.handler = call.handler, !.value = TRUE]
               ELSE Outcome(call.method, << >>, "IO_ERROR")
    /\ call' = Null
    /\ UNCHANGED << uid, interface, callback, made, phoneVars, rilVars, modem >>

-----------------------------------------------------------------------------
(* The phone process (Java) and rild.                                      *)

Replied(reply) == [call EXCEPT !.stage = "replied", !.reply = reply]

\* CrossClientService or PhoneService takes the call: refused, or built into a
\* request that synchronousOemCall hands to the RIL.
ServiceTakes ==
    /\ call # Null /\ call.stage = "sent" /\ call.to = service
    /\ IF Permitted(uid, call.method)
       THEN /\ call' = [call EXCEPT !.stage = "waiting"]
            /\ rild' = Append(rild, [from |-> service, method |-> call.method,
                                     parcel |-> Build(call.method, call.arguments)])
       ELSE call' = Replied(StubReply(FALSE)) /\ UNCHANGED rild
    /\ UNCHANGED << uid, interface, callback, made, last, phoneVars, executing, radioOn, outages,
                    modem >>

\* transact() on a service that is dead, or dies: the reply stays empty.
ServiceGone ==
    /\ call # Null /\ call.stage \in {"sent", "waiting"} /\ call.to # service
    /\ call' = Replied(<< >>)
    /\ UNCHANGED << uid, interface, callback, made, last, phoneVars, rilVars, modem >>

\* The result of a request goes to the call that made it, if that one's
\* process still lives.
Answer(request, reply) ==
    call' = IF call # Null /\ call.stage = "waiting" /\ request.from = service /\ call.to = service
            THEN Replied(reply) ELSE call

\* The byte after device_map is any byte.
RildTakes ==
    /\ rild # << >> /\ executing = Null
    /\ rild' = Tail(rild)
    /\ \E beyond \in {0, 17} :
         LET request == Head(rild)
             outcome == HandleOemHookRaw(request.parcel, radioOn, beyond)
         IN  IF outcome.status = "EXECUTE"
             THEN /\ executing' = [request |-> request, message |-> outcome.message]
                  /\ UNCHANGED call
             ELSE /\ Answer(request, StubReply(outcome.status = "SUCCESS"))
                  /\ UNCHANGED executing
    /\ UNCHANGED << uid, interface, callback, made, last, phoneVars, radioOn, outages, modem >>

\* OnRilAvailable: the service tells the RIL that it runs; nobody waits for
\* the result.
RadioBack ==
    /\ ~ radioOn
    /\ radioOn' = TRUE
    /\ rild' = IF service = Null THEN rild
               ELSE Append(rild, [from |-> Null, method |-> "attach",
                                  parcel |-> BuildAttach(TRUE)])
    /\ UNCHANGED << clientVars, phoneVars, executing, outages, modem >>

RadioOff ==
    /\ radioOn /\ outages < MaxOutages
    /\ radioOn' = FALSE
    /\ outages' = outages + 1
    /\ UNCHANGED << clientVars, phoneVars, rild, executing, modem >>

\* The modem carries the message out, or fails (external).
ModemObeys ==
    /\ executing # Null
    /\ LET message == executing.message
       IN  IF message[1] = "SndGetMicMute"
           THEN /\ Answer(executing.request, StubMuteReply(TRUE, modem.muted))
                /\ UNCHANGED modem
           ELSE /\ modem' = [message |-> message,
                             muted |-> IF message[1] = "SndSetMicMute"
                                       THEN message[2] = 1 ELSE modem.muted]
                /\ Answer(executing.request, StubReply(TRUE))
    /\ executing' = Null
    /\ UNCHANGED << uid, interface, callback, made, last, phoneVars, rild, radioOn, outages >>

ModemFails ==
    /\ executing # Null
    /\ Answer(executing.request, StubReply(FALSE))
    /\ executing' = Null
    /\ UNCHANGED << uid, interface, callback, made, last, phoneVars, rild, radioOn, outages, modem >>

PhoneStarts ==
    /\ service = Null /\ started < MaxServices
    /\ started' = started + 1
    /\ service' = started + 1
    /\ UNCHANGED << clientVars, rilVars, modem >>

\* What the process has not yet written to rild is lost with it.
PhoneDies ==
    /\ service # Null
    /\ service' = Null
    /\ \E k \in 0 .. Len(rild) : rild' = SubSeq(rild, 1, k)
    /\ UNCHANGED << clientVars, started, executing, radioOn, outages, modem >>

\* A second argument, which differs from the first as a byte too; a string, as
\* far as anybody looks at it.
Other(a) == a + 1
Extra == 7

SecrilNext ==
    \/ Connect \/ Disconnect \/ CloseClient \/ IsConnected
    \/ \E cb \in Callbacks \cup {Null} : RegisterRequestCompleteHandler(cb)
    \/ \E a \in Values :
         \/ SetLoopbackTest(a, Other(a)) \/ SetDhaSolution(a, Other(a), Extra)
         \/ SetTwoMicControl(a, Other(a))
         \/ SetCallAudioPath(a, Other(a)) \/ SetCallVolume(a, Other(a))
         \/ SetMute(a) \/ SetCallRecord(a) \/ SetCallClockSync(a) \/ SetVideoCallClockSync(a)
         \/ ServiceModeCall("enterServiceMode", << a, Other(a) >>)
         \/ ServiceModeCall("exitServiceMode", << a >>)
         \/ ServiceModeCall("sendServiceKeyCode", << a >>)
    \/ \E cb \in Callbacks : GetMute(cb)
    \/ InvokeOemRequestHookRaw \/ Return
    \/ ServiceTakes \/ ServiceGone
    \/ RildTakes \/ RadioBack \/ RadioOff
    \/ ModemObeys \/ ModemFails
    \/ PhoneStarts \/ PhoneDies

SecrilSpec == SecrilInit /\ [][SecrilNext]_secrilVars

-----------------------------------------------------------------------------
\* The fields that a client means to set: bytes of its arguments, a Boolean
\* for the microphone, the codes of the path and the device it names.
Meant(method, a) ==
    CASE method = "setLoopbackTest" -> {<< a[1] % 256 >>}
      [] method = "setDhaSolution" -> {<< a[1] % 256, a[2] % 256, a[3] >>}
      [] method = "setTwoMicControl" -> {<< a[1] % 256, a[2] % 256 >>}
      [] method = "setMute" -> {<< IF a[1] = 0 THEN 0 ELSE 1 >>}
      [] method = "setCallAudioPath" -> {<< PathMap[p] >> : p \in {a[1] + 1} \cap (1 .. 8)}
      [] method = "setCallVolume" ->
           {<< DeviceMap[d], a[2] % 256 >> : d \in {a[1] + 1} \cap (1 .. 4)}
      [] method = "enterServiceMode" ->
           {<< a[1] % 256, IF a[1] = 1 THEN (a[2] + 4096) % 65536 ELSE 0 >>}
      [] OTHER -> {<< a[1] % 256 >>}

\* When a setting has returned success the modem has it, with the client's own
\* values in their places, and keeps it until the next call: not even a request
\* of an earlier call, given up because the phone process died, comes after it.
\* An argument that names no path or device is never a success, but for device
\* 4, which handleSetCallVolume lets pass.  This is what client.cpp does: it waits
\* for the service and returns what the service says.  The header promises less:
\* of each of these setters include/secril-client-compat.h (177, 191, 203, 224 and
\* on) says that it is run asynchronously "without any indication of completion".
SuccessMeansSet ==
    ( /\ call = Null /\ last.method \in Setters /\ last.status = "SUCCESS"
      /\ ~ (last.method = "setCallVolume" /\ last.arguments[1] = Len(DeviceMap)) )
        => /\ modem.message[1] = MessageOf(last.method)
           /\ Tail(modem.message) \in Meant(last.method, last.arguments)

\* Only requests of the users that ICrossClientService.aidl names for the audio
\* interface, and of holders of CALL_PHONE_SERVICE for service mode, ever reach
\* the modem.
OnlyAllowedUsers ==
    [][modem' # modem =>
         uid \in IF modem'.message[1] \in {MessageOf(method) : method \in ServiceModeMethods}
                 THEN {"root", "system", "signed"}
                 ELSE {"root", "phone", "media"}]_secrilVars

\* GetMute gives its handler the mute state.
MuteStateReported ==
    [][last'.method = "getMute" /\ last'.status = "SUCCESS" =>
         last'.value = modem.muted]_secrilVars
=============================================================================
