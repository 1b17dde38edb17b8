------------------------------ MODULE ModemBoot ------------------------------
(***************************************************************************)
(* libsamsung-ipc/SamsungModem.cpp (boot and dump) over                    *)
(* libandroidhal/USBIPCTransport.cpp: the modem is switched on through the *)
(* boot socket, is fed its two boot loaders, its firmware and the NV data, *)
(* is reset, and must then come back on the USB link.                      *)
(*                                                                         *)
(* The protocol is a script of exchanges.  The modem is external: a state  *)
(* machine that accepts what its boot ROM and loaders accept, answers in   *)
(* its own time, may answer nonsense and may die.  A recv() with nothing   *)
(* to read may always time out.  A write takes all it is given, except for *)
(* the two images, which the code sends in a loop.                         *)
(***************************************************************************)
EXTENDS Integers, Sequences

CONSTANTS
    ImageSize,   \* pieces of a boot loader image that send() may split
    Blocks,      \* 16 KiB blocks of the firmware and of the NV data
    LinkTries,   \* polls of isLinkUp: 4
    WakeTries,   \* polls of isWokenUp: 10
    DumpSize,    \* pieces of memory that the modem uploads
    MaxCalls     \* bound on the calls of boot() and dump()

ASSUME ConstantsAssumption ==
    /\ ImageSize \in Nat \ {0} /\ Blocks \in Nat \ {0} /\ DumpSize \in Nat
    /\ LinkTries \in Nat \ {0} /\ WakeTries \in Nat \ {0} /\ MaxCalls \in Nat

VARIABLES
    call,      \* the call in progress: "boot", "dump" or "none"
    phase,     \* where in it
    step,      \* the exchange of its script
    offset,    \* what has been sent of an image or a flash area
    tries,     \* polls that are left
    socket,    \* the boot socket object: "none", "open", "closed"
    bootSocket,\* USBIPCTransport::m_bootSocket: "null", "live", "dangling"
    link,      \* IOCTL_LINK_CONTROL_ACTIVE, the last value set
    wire,      \* bytes from the modem to the boot socket
    calls,     \* calls made so far
    result,    \* what the latest call returned
    report,    \* what tools/dumpmodem said of it
    stage,     \* external: what the modem runs, or is being loaded with
    image,     \* external: pieces of a boot loader image received
    flash,     \* external: blocks written to each flash area
    say,       \* external: answers the modem owes
    awake,     \* external: the wake-up line
    connected  \* external: the modem is on the link

callVars == << call, phase, step, offset, tries >>
socketVars == << socket, bootSocket, result >>
hostVars == << callVars, socketVars, link, calls, report >>
modemVars == << stage, image, flash, say, awake, connected >>
vars == << hostVars, wire, modemVars >>

-----------------------------------------------------------------------------
\* Exchanges: send one item; send an image or the blocks of a flash area; wait
\* for one particular answer ("any" is one whose value is not looked at).
Post(item)      == [op |-> "post", item |-> item]
Image(item)     == [op |-> "image", item |-> item]
Flash(area)     == [op |-> "flash", item |-> area]
Hear(answer)    == [op |-> "hear", item |-> answer]
Upload          == [op |-> "upload", item |-> "memory"]
\* bootloaderCommand: the header and the data go out as one block; every
\* command but ReqForceHwReset and ReqFlashWriteBlock is echoed.
Command(item)   == << Post(item), Hear(item) >>

\* sendPSI.  The 22 bytes that are read and ignored count as one.
SendPSI == << Post("ATAT"), Hear("any"), Hear("any"), Image("PSI"), Post("PSI crc"),
              Hear("any"), Hear("01"), Hear("01"), Hear("00AA") >>

SendEBL == << Post("EBL length"), Hear("CCCC"), Image("EBL"), Post("EBL crc"),
              Hear("51A5") >>

ReadBootInfo == << Hear("info") >> \o Command("SetPortConf")

\* As a bug would have it: the second area is written where the first was.
SendSecureImageOneAddress ==
    Command("SecStart") \o Command("SetAddress firmware") \o << Flash("firmware") >>
    \o << Flash("nvdata") >> \o Command("SecEnd")

\* sendSecureImage with its two calls of loadFlashImage.
SendSecureImage ==
    Command("SecStart") \o Command("SetAddress firmware") \o << Flash("firmware") >>
    \o Command("SetAddress nvdata") \o << Flash("nvdata") >> \o Command("SecEnd")

Script(c) ==
    IF c = "boot"
    THEN SendPSI \o SendEBL \o ReadBootInfo \o SendSecureImage \o << Post("ForceHwReset") >>
    ELSE SendPSI \o << Post("upload key"), Hear("error"), Post("PASS"), Upload >>

\* The answers that the modem owes to an item it accepts at a stage, and the
\* stage that it then is in (external; written from what boot() waits for).
Stages == {"off", "rom", "greeted", "PSI", "EBL wanted", "EBL", "configured",
           "secure", "firmware", "nvdata", "loaded", "reset", "running",
           "key", "upload", "dead"}

Accepts(item) ==
    \/ stage = "rom" /\ item = "ATAT"
    \/ stage = "greeted" /\ item = "PSI crc" /\ image = ImageSize
    \/ stage = "PSI" /\ item \in {"EBL length", "upload key"}
    \/ stage = "EBL wanted" /\ item = "EBL crc" /\ image = ImageSize
    \/ stage = "EBL" /\ item = "SetPortConf"
    \/ stage = "configured" /\ item = "SecStart"
    \/ stage \in {"secure", "nvdata"} /\ item = "SetAddress firmware"
    \/ stage \in {"secure", "firmware"} /\ item = "SetAddress nvdata"
    \/ stage \in {"firmware", "nvdata"} /\ item = "SecEnd"
    \/ stage = "loaded" /\ item = "ForceHwReset"
    \/ stage = "key" /\ item = "PASS"

Effect(item) ==
    CASE item = "ATAT"                -> [to |-> "greeted", say |-> << "any", "any" >>]
      [] item = "PSI crc"             -> [to |-> "PSI", say |-> << "any", "01", "01", "00AA" >>]
      [] item = "EBL length"          -> [to |-> "EBL wanted", say |-> << "CCCC" >>]
      [] item = "EBL crc"             -> [to |-> "EBL", say |-> << "51A5", "info" >>]
      [] item = "SetPortConf"         -> [to |-> "configured", say |-> << item >>]
      [] item = "SecStart"            -> [to |-> "secure", say |-> << item >>]
      [] item = "SetAddress firmware" -> [to |-> "firmware", say |-> << item >>]
      [] item = "SetAddress nvdata"   -> [to |-> "nvdata", say |-> << item >>]
      [] item = "SecEnd"              -> [to |-> "loaded", say |-> << item >>]
      [] item = "ForceHwReset"        -> [to |-> "reset", say |-> << >>]
      [] item = "upload key"          -> [to |-> "key", say |-> << "error" >>]
      [] item = "PASS"                -> [to |-> "upload",
                                          say |-> [i \in 1 .. DumpSize |-> "memory"]]

Areas == {"firmware", "nvdata"}
Phases == {"idle", "connect", "script", "wakeUp", "wakeDown", "relink", "returned"}

TypeOK ==
    /\ call \in {"none", "boot", "dump"} /\ phase \in Phases
    /\ offset \in 0 .. ImageSize + Blocks /\ tries \in 0 .. LinkTries + WakeTries
    /\ phase = "script" => step \in DOMAIN Script(call)
    /\ socket \in {"none", "open", "closed"}
    /\ bootSocket \in {"null", "live", "dangling"}
    /\ link \in BOOLEAN
    /\ stage \in Stages
    /\ flash \in [Areas -> Nat]
    /\ awake \in BOOLEAN /\ connected \in BOOLEAN
    /\ calls \in 0 .. MaxCalls
    /\ result \in {"none", "true", "false"}
    /\ report \in {"none", "dumped", "failed"}

Init ==
    /\ call = "none" /\ phase = "idle" /\ step = 1 /\ offset = 0 /\ tries = 0
    /\ socket = "none" /\ bootSocket = "null" /\ link = FALSE
    /\ wire = << >>
    /\ calls = 0 /\ result = "none" /\ report = "none"
    /\ stage = "off" /\ image = 0 /\ flash = [a \in Areas |-> 0] /\ say = << >>
    /\ awake = FALSE /\ connected = FALSE

\* The modem begins anew in a stage, with nothing loaded (external).
Reset(to) ==
    /\ stage' = to
    /\ image' = 0 /\ flash' = [a \in Areas |-> 0] /\ say' = << >> /\ awake' = FALSE

-----------------------------------------------------------------------------
\* boot() or dump() up to connect(): createSocket(Boot), then setLink(false) and
\* setLink(true) with the modem's power, which needs the boot socket.
Begin(c) ==
    /\ phase = "idle"
    /\ calls < MaxCalls
    /\ calls' = calls + 1
    /\ socket' = "open"
    /\ bootSocket' = IF bootSocket = "null" THEN "live" ELSE bootSocket
    /\ link' = TRUE
    /\ Reset("rom") /\ connected' = FALSE
    /\ wire' = << >>
    /\ call' = c /\ phase' = "connect" /\ step' = 1 /\ offset' = 0 /\ tries' = LinkTries
    /\ result' = "none"
    /\ report' = "none"

\* As a bug would have it: m_bootSocket outlives the socket.
DestroySocketKeepsPointer ==
    /\ socket' = "none"
    /\ bootSocket' = IF bootSocket = "live" THEN "dangling" ELSE bootSocket

\* The auto_ptr's destructor, ~USBIPCSocket and socketDestroyed.
DestroySocket ==
    /\ socket' = "none"
    /\ bootSocket' = IF bootSocket = "live" THEN "null" ELSE bootSocket

Return(value) ==
    /\ DestroySocket
    /\ result' = value
    /\ phase' = "returned"
    /\ UNCHANGED << call, step, offset, tries >>

Turn(to, left) ==
    /\ phase' = to /\ tries' = left
    /\ UNCHANGED << call, step, offset >>

\* As a bug would have it: the tries are not counted.
PollLinkForEver ==
    /\ phase \in {"connect", "relink"}
    /\ connected
    /\ IF phase = "relink" THEN Return("true")
       ELSE Turn("script", tries) /\ UNCHANGED socketVars
    /\ UNCHANGED << link, modemVars, wire, calls, report >>

\* The end of toggleTransport: poll isLinkUp().  dump() does not look at what
\* connect() returns.
PollLink ==
    /\ phase \in {"connect", "relink"}
    /\ \/ connected /\ phase = "connect" /\ Turn("script", tries) /\ UNCHANGED socketVars
       \/ connected /\ phase = "relink" /\ Return("true")
       \/ ~connected /\ tries > 1 /\ Turn(phase, tries - 1) /\ UNCHANGED socketVars
       \/ ~connected /\ tries = 1 /\ call = "boot" /\ Return("false")
       \/ ~connected /\ tries = 1 /\ call = "dump" /\ Turn("script", tries) /\ UNCHANGED socketVars
    /\ UNCHANGED << link, modemVars, wire, calls, report >>

-----------------------------------------------------------------------------
(* The script.                                                             *)

Exchange == Script(call)[step]

\* On to the next exchange.  After its last one boot() closes the socket and
\* calls redetect(); dump() ends inside its last one.
Advance ==
    IF step < Len(Script(call))
    THEN /\ step' = step + 1 /\ offset' = 0
         /\ UNCHANGED << call, phase, tries, socket >>
    ELSE Turn("wakeUp", WakeTries) /\ socket' = "closed"

\* More of the same image or area.
Proceed(n) ==
    /\ offset' = offset + n
    /\ UNCHANGED << call, phase, step, tries, socket >>

SendItem ==
    /\ phase = "script" /\ Exchange.op = "post"
    /\ IF Accepts(Exchange.item)
       THEN /\ stage' = Effect(Exchange.item).to
            /\ say' = say \o Effect(Exchange.item).say
            /\ image' = 0
       ELSE UNCHANGED << stage, say, image >>
    /\ Advance
    /\ UNCHANGED << bootSocket, link, wire, calls, result, report, flash, awake, connected >>

\* while(offset < image.size()): send() takes some of what is left.
SendImage ==
    /\ phase = "script" /\ Exchange.op = "image"
    /\ \E n \in 1 .. ImageSize - offset :
          /\ image' = image + n
          /\ IF offset + n < ImageSize THEN Proceed(n) ELSE Advance
    /\ UNCHANGED << bootSocket, link, wire, calls, result, report, stage, flash, say, awake,
                    connected >>

\* One ReqFlashWriteBlock, which goes to the address set before.
SendBlock ==
    /\ phase = "script" /\ Exchange.op = "flash"
    /\ flash' = IF stage \in Areas THEN [flash EXCEPT ![stage] = @ + 1] ELSE flash
    /\ IF offset + 1 < Blocks THEN Proceed(1) ELSE Advance
    /\ UNCHANGED << bootSocket, link, wire, calls, result, report, stage, image, say, awake,
                    connected >>

\* expectAck and the test of reply.cmd.
AnswerFits(expected, answer) == expected \in {"any", "info", "error", answer}

\* recv() with an answer to read.
Receive ==
    /\ phase = "script" /\ Exchange.op = "hear"
    /\ wire # << >>
    /\ wire' = Tail(wire)
    /\ IF AnswerFits(Exchange.item, Head(wire))
       THEN Advance /\ UNCHANGED << bootSocket, result >>
       ELSE Return("false")
    /\ UNCHANGED << link, modemVars, calls, report >>

\* recv() returns 0: the answer is late, or will never come.
Timeout ==
    /\ phase = "script" /\ Exchange.op = "hear"
    /\ wire = << >>
    /\ Return("false")
    /\ UNCHANGED << link, modemVars, wire, calls, report >>

\* The loop at the end of dump(): it ends at the first recv() of nothing.
ReceiveDump ==
    /\ phase = "script" /\ Exchange.op = "upload"
    /\ \/ wire # << >> /\ wire' = Tail(wire) /\ UNCHANGED << callVars, socketVars >>
       \/ wire = << >> /\ Return("true") /\ UNCHANGED wire
    /\ UNCHANGED << link, modemVars, calls, report >>

-----------------------------------------------------------------------------
\* As a bug would have it: redetect() gives up with the link down.
LinkAfterFailedWakeDownDown == FALSE

\* setLink(true, true) when the modem's wake-up line does not fall.
LinkAfterFailedWakeDown == TRUE

\* redetect(): wait for the wake-up line, drop the link, wait for the line to
\* fall, raise the link, poll it.
PollWake ==
    LET wanted == phase = "wakeUp"
    IN  /\ phase \in {"wakeUp", "wakeDown"}
        /\ \/ /\ awake = wanted /\ wanted       \* setLink(false, true)
              /\ Turn("wakeDown", WakeTries)
              /\ link' = FALSE
              /\ connected' = FALSE
              /\ UNCHANGED socketVars
           \/ /\ awake = wanted /\ ~wanted      \* setLink(true, true)
              /\ Turn("relink", LinkTries)
              /\ link' = TRUE
              /\ UNCHANGED << socketVars, connected >>
           \/ /\ awake # wanted /\ tries > 1
              /\ Turn(phase, tries - 1)
              /\ UNCHANGED << socketVars, link, connected >>
           \/ /\ awake # wanted /\ tries = 1
              /\ link' = IF wanted THEN link ELSE LinkAfterFailedWakeDown
              /\ Return("false")
              /\ UNCHANGED connected
        /\ UNCHANGED << wire, calls, report, stage, image, flash, say, awake >>

\* The caller has the result; tools/dumpmodem reports what dump() returned.
CallerContinues ==
    /\ phase = "returned"
    /\ report' = CASE call = "boot"     -> report
                   [] call # "boot" /\ result = "true" -> "failed"
                   [] OTHER             -> "dumped"
    /\ call' = "none" /\ phase' = "idle" /\ step' = 1 /\ offset' = 0 /\ tries' = 0
    /\ UNCHANGED << socketVars, link, modemVars, wire, calls >>

-----------------------------------------------------------------------------
(* The modem and the kernel's link driver (external).                      *)

Speak ==
    /\ say # << >> /\ stage # "dead"
    /\ say' = Tail(say)
    /\ \E answer \in {Head(say), "junk"} : wire' = Append(wire, answer)
    /\ UNCHANGED << hostVars, stage, image, flash, awake, connected >>

LinkConnects ==
    /\ link /\ ~connected /\ stage \notin {"off", "dead"}
    /\ connected' = TRUE
    /\ UNCHANGED << hostVars, wire, stage, image, flash, say, awake >>

Restart ==
    /\ stage = "reset"
    /\ stage' = "running" /\ awake' = TRUE
    /\ UNCHANGED << hostVars, wire, image, flash, say, connected >>

WakeLineFalls ==
    /\ ~link /\ awake
    /\ awake' = FALSE
    /\ UNCHANGED << hostVars, wire, stage, image, flash, say, connected >>

\* It may die while it is being loaded.  (One that dies later is the business
\* of the IPC layer, where the end of the stream is a panic.)
Die ==
    /\ stage \notin {"off", "dead", "running"}
    /\ Reset("dead")
    /\ UNCHANGED << hostVars, wire, connected >>

Next ==
    \/ \E c \in {"boot", "dump"} : Begin(c)
    \/ PollLink \/ SendItem \/ SendImage \/ SendBlock \/ Receive \/ Timeout
    \/ ReceiveDump \/ PollWake \/ CallerContinues
    \/ Speak \/ LinkConnects \/ Restart \/ WakeLineFalls \/ Die

Spec == Init /\ [][Next]_vars

\* The calling thread keeps running; the modem owes nothing.
HostStep == PollLink \/ SendItem \/ SendImage \/ SendBlock \/ Receive \/ Timeout
            \/ ReceiveDump \/ PollWake \/ CallerContinues
FairSpec == Spec /\ WF_vars(HostStep)

-----------------------------------------------------------------------------
\* boot() returns true only if the modem took every image whole and in order,
\* left its loaders and runs what was loaded, and is connected: no answer that
\* is missing, late or wrong lets it pass, although the blocks of the flash
\* image and the reset are sent without waiting for an answer.
BootedOnlyIfComplete ==
    phase = "returned" /\ call = "boot" /\ result = "true" =>
        /\ stage = "running"
        /\ flash = [a \in Areas |-> Blocks]
        /\ link /\ connected

\* However a call ends, it leaves the link active, so that the next attempt or
\* the kernel can see the modem (the reason for the setLink(true, true) in the
\* failure path of toggleTransport).
LinkLeftActive == phase \in {"returned", "idle"} /\ calls > 0 => link

\* m_bootSocket, whose descriptor switches the modem's power, is the socket of
\* the call in progress and is null between calls.
BootSocketValid ==
    /\ bootSocket = "live" <=> socket # "none"
    /\ bootSocket # "dangling"

\* Every call of boot() and dump() returns, whatever the modem does.
EveryCallReturns == [](phase # "idle" => <>(phase = "idle"))
=============================================================================
