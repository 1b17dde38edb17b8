--------------------------- MODULE OemMarshalling ---------------------------
(***************************************************************************)
(* The forms that an OEM request takes on its way from a client to the     *)
(* modem: a Binder transaction (ICrossClientService), a parcel for the RIL *)
(* (OEMRequestBuilder.java), its decoding (handleOemHookRaw in oem.cpp)    *)
(* and the message to the modem (OemRequestHandler.cpp).  Operators        *)
(* without state, used by SecrilClient.                                    *)
(*                                                                         *)
(* A parcel is a sequence of words.  An integer of the interfaces is an    *)
(* integer here; a message's fields are bytes.                             *)
(***************************************************************************)
EXTENDS Integers, Sequences

\* Parcel::readInt32: a word that is not there is read as 0, and an error is
\* noted, which only some readers look at.
ReadInt32(parcel, k) == IF k <= Len(parcel) THEN parcel[k] ELSE 0

-----------------------------------------------------------------------------
(* Binder: the client's proxy and the Java stub.                           *)

\* The proxies write their arguments in the order of ICrossClientService.aidl,
\* in which the stub reads them.  setMute has made a Boolean of its argument.
Transaction(method, arguments) ==
    IF method = "setMute" THEN << IF arguments[1] # 0 THEN 1 ELSE 0 >> ELSE arguments

\* The reply of the stub: no exception, and the result.
StubReply(result) == << 0, IF result THEN 1 ELSE 0 >>

\* What a proxy makes of a reply.  The result of transact() is not looked at:
\* if the service is dead the reply is empty, and reads as no exception and 0.
ProxyResult(reply) == ReadInt32(reply, 1) = 0 /\ ReadInt32(reply, 2) # 0

\* getMute: the reply holds an array of one Boolean too.
StubMuteReply(result, muted) == StubReply(result) \o << 1, IF muted THEN 1 ELSE 0 >>

ProxyMuteResult(reply) == ProxyResult(reply) /\ ReadInt32(reply, 3) = 1

\* samsungOemRequest: nothing more is read unless the result is true.
ProxyOemResult(reply) == ProxyResult(reply)

-----------------------------------------------------------------------------
(* Who may call: CrossClientService.java and PhoneService.java.            *)

AudioMethods ==
    {"setLoopbackTest", "setDhaSolution", "setTwoMicControl", "getMute", "setMute",
     "setCallRecord", "setCallClockSync", "setVideoCallClockSync",
     "setCallAudioPath", "setCallVolume"}

ServiceModeMethods == {"enterServiceMode", "exitServiceMode", "sendServiceKeyCode"}

\* callerPermissions.
CallerPermissions(uid) ==
    CASE uid \in {"root", "phone"} -> {"CALL_AUDIO", "CALL_GPS"}
      [] uid = "system" -> {"CALL_GPS"}
      [] uid = "media" -> {"CALL_AUDIO"}
      [] OTHER -> {}

\* checkCallingPermission for CALL_PHONE_SERVICE (external): held by programs
\* signed as the service is, and by root and the system.
HoldsCallPhoneService(uid) == uid \in {"root", "system", "signed"}

\* As a bug would have it: one permission is as good as the other.
PermittedIfAny(uid, method) ==
    IF method \in ServiceModeMethods THEN HoldsCallPhoneService(uid)
    ELSE CallerPermissions(uid) # {}

\* hasPermission in the methods of CrossClientService, ensureSafe in those of
\* PhoneService.
Permitted(uid, method) ==
    CASE method \in AudioMethods -> "CALL_AUDIO" \in CallerPermissions(uid)
      [] method = "samsungOemRequest" -> "CALL_GPS" \in CallerPermissions(uid)
      [] OTHER -> HoldsCallPhoneService(uid)

-----------------------------------------------------------------------------
(* OEMRequestBuilder.java.                                                 *)

SignatureLow == 1701147206
SignatureHigh == 558647634

\* The header that every request begins with.
Header(code) == << SignatureLow, SignatureHigh, code >>

BuildSetLoopbackTest(loopback, path) == Header(2) \o << loopback, path >>
BuildSetDhaSolution(mode, select, extra) == Header(3) \o << mode, select, extra >>
BuildSetTwoMicControl(device, report) == Header(4) \o << device, report >>
BuildGetMute == Header(5)
BuildSetMute(mute) == Header(6) \o << mute >>
BuildSetCallRecord(record) == Header(7) \o << record >>
BuildSetCallClockSync(sync) == Header(8) \o << sync >>
BuildSetVideoCallClockSync(sync) == Header(9) \o << sync >>
BuildSetCallAudioPath(path, extraVolume) == Header(10) \o << path, extraVolume >>
BuildSetCallVolume(device, volume) == Header(11) \o << device, volume >>
BuildSamsungOemRequest(data) == Header(12) \o << data >>
BuildEnterServiceMode(modeType, subType) == Header(13) \o << modeType, subType >>
BuildExitServiceMode(modeType) == Header(14) \o << modeType >>
BuildSendServiceKeyCode(keyCode) == Header(15) \o << keyCode >>

\* The methods of RilInterface: each builds its request from its arguments.
Build(method, a) ==
    CASE method = "setLoopbackTest" -> BuildSetLoopbackTest(a[1], a[2])
      [] method = "setDhaSolution" -> BuildSetDhaSolution(a[1], a[2], a[3])
      [] method = "setTwoMicControl" -> BuildSetTwoMicControl(a[1], a[2])
      [] method = "getMute" -> BuildGetMute
      [] method = "setMute" -> BuildSetMute(a[1])
      [] method = "setCallRecord" -> BuildSetCallRecord(a[1])
      [] method = "setCallClockSync" -> BuildSetCallClockSync(a[1])
      [] method = "setVideoCallClockSync" -> BuildSetVideoCallClockSync(a[1])
      [] method = "setCallAudioPath" -> BuildSetCallAudioPath(a[1], a[2])
      [] method = "setCallVolume" -> BuildSetCallVolume(a[1], a[2])
      [] method = "samsungOemRequest" -> BuildSamsungOemRequest(a[1])
      [] method = "enterServiceMode" -> BuildEnterServiceMode(a[1], a[2])
      [] method = "exitServiceMode" -> BuildExitServiceMode(a[1])
      [] method = "sendServiceKeyCode" -> BuildSendServiceKeyCode(a[1])

BuildAttach(attach) == Header(1) \o << IF attach THEN 1 ELSE 0 >>

-----------------------------------------------------------------------------
(* The RIL: oem.cpp decodes a request, OemRequestHandler.cpp makes the     *)
(* message.  The outcome is the completion of the request, or a message to *)
(* execute, whose result completes it.                                     *)

NoMessage == << "none" >>
Complete(status) == [status |-> status, message |-> NoMessage]
Send(name, fields) == [status |-> "EXECUTE", message |-> << name >> \o fields]

U8(x) == x % 256
U16(x) == x % 65536

\* OemRequestHandler, one definition per request.
HandleSetLoopbackTest(path, loopback) == Send("SndSetLoopbackCtrl", << U8(path) >>)

HandleSetDhaSolution(mode, select, extra) ==
    Send("SndSetDhaCtrl", << U8(mode), U8(select), extra >>)

HandleSetTwoMicControl(param1, param2) ==
    Send("SndSetTwoMicCtrl", << U8(param1), U8(param2) >>)

HandleGetMute == Send("SndGetMicMute", << >>)

HandleSetMute(muted) == Send("SndSetMicMute", << IF muted THEN 1 ELSE 0 >>)

HandleSetCallRecord(record) == Send("SndSetVoiceRecordingCtrl", << U8(record) >>)

HandleSetCallClockSync(sync) == Send("SndExecClockCtrl", << U8(sync) >>)

HandleSetVideoCallClockSync(sync) == Send("SndSetVideoCallCtrl", << U8(sync) >>)

PathMap == << 1, 2, 6, 4, 5, 7, 8, 0 >>

HandleSetCallAudioPath(path, extraVolume) ==
    IF path < 0 \/ path >= Len(PathMap) THEN Complete("GENERIC_FAILURE")
    ELSE Send("SndSetAudioPath", << PathMap[path + 1] >>)

DeviceMap == << 1, 17, 49, 65 >>

\* The bound is one too large: device 4 passes, and is mapped to `beyond`, the
\* byte that follows the table.
HandleSetCallVolume(device, volume, beyond) ==
    IF device < 0 \/ device > Len(DeviceMap) THEN Complete("GENERIC_FAILURE")
    ELSE Send("SndSetVolumeCtrl",
              << IF device < Len(DeviceMap) THEN DeviceMap[device + 1] ELSE beyond,
                 U8(volume) >>)

\* handleSamsungOemRequest does nothing and fails.
HandleSamsungOemRequest == Complete("GENERIC_FAILURE")

HandleEnterServiceMode(modeType, subType) ==
    Send("SvcEnterServiceMode",
         << U8(modeType), IF modeType = 1 THEN U16(subType + 4096) ELSE 0 >>)

HandleExitServiceMode(modeType) == Send("SvcExitServiceMode", << U8(modeType) >>)

HandleSendServiceKeyCode(keyCode) == Send("SvcProcessKeyCode", << U8(keyCode) >>)

\* enum OemRequest of oem.h: a request's code is its position.
OemRequests ==
    << "ATTACH_SERVICE", "SET_LOOPBACK_TEST", "SET_DHA_SOLUTION", "SET_TWO_MIC_CONTROL",
       "GET_MUTE", "SET_MUTE", "SET_CALL_RECORD", "SET_CALL_CLOCK_SYNC",
       "SET_VIDEO_CALL_CLOCK_SYNC", "SET_CALL_AUDIO_PATH", "SET_CALL_VOLUME",
       "SAMSUNG_OEM_REQUEST", "ENTER_SERVICE_MODE", "EXIT_SERVICE_MODE",
       "SEND_SERVICE_KEY_CODE" >>

\* The audio requests of handleOemHookRaw: the words of `p` are read in this
\* order.
DecodeAudio(request, p, beyond) ==
    CASE request = "SET_LOOPBACK_TEST" -> HandleSetLoopbackTest(p[1], p[2])
      [] request = "SET_DHA_SOLUTION" -> HandleSetDhaSolution(p[1], p[2], p[3])
      [] request = "SET_TWO_MIC_CONTROL" -> HandleSetTwoMicControl(p[1], p[2])
      [] request = "GET_MUTE" -> HandleGetMute
      [] request = "SET_MUTE" -> HandleSetMute(p[1] # 0)
      [] request = "SET_CALL_RECORD" -> HandleSetCallRecord(p[1])
      [] request = "SET_CALL_CLOCK_SYNC" -> HandleSetCallClockSync(p[1])
      [] request = "SET_VIDEO_CALL_CLOCK_SYNC" -> HandleSetVideoCallClockSync(p[1])
      [] request = "SET_CALL_AUDIO_PATH" -> HandleSetCallAudioPath(p[1], p[2])
      [] request = "SET_CALL_VOLUME" -> HandleSetCallVolume(p[1], p[2], beyond)

\* The other requests.
DecodeOther(request, p) ==
    CASE request = "ATTACH_SERVICE" -> Complete("SUCCESS")
      [] request = "SAMSUNG_OEM_REQUEST" -> HandleSamsungOemRequest
      [] request = "ENTER_SERVICE_MODE" -> HandleEnterServiceMode(p[1], p[2])
      [] request = "EXIT_SERVICE_MODE" -> HandleExitServiceMode(p[1])
      [] request = "SEND_SERVICE_KEY_CODE" -> HandleSendServiceKeyCode(p[1])

\* handleOemHookRaw: the signature, the radio, the request.
HandleOemHookRaw(parcel, radioOn, beyond) ==
    LET code == parcel[3]
        p == SubSeq(parcel, 4, Len(parcel))
    IN  IF Len(parcel) < 3 \/ SubSeq(parcel, 1, 2) # << SignatureLow, SignatureHigh >>
        THEN Complete("GENERIC_FAILURE")
        ELSE IF code # 1 /\ ~ radioOn THEN Complete("RADIO_NOT_AVAILABLE")
        ELSE IF code \in 2 .. 11 THEN DecodeAudio(OemRequests[code], p, beyond)
        ELSE IF code \in DOMAIN OemRequests THEN DecodeOther(OemRequests[code], p)
        ELSE Complete("REQUEST_NOT_SUPPORTED")
=============================================================================
