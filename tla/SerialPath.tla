----------------------------- MODULE SerialPath -----------------------------
(***************************************************************************)
(* The USB side of one modem: the host, the line, the two serial tasks of  *)
(* main.cpp, the control commands with the settings they change, and the   *)
(* part of macTask that answers them (firmware/src/mac/Mac.cpp,            *)
(* radio/Radio.cpp, config/ModemConfig.cpp).                               *)
(*                                                                         *)
(*   host -> usbRx -> decoder -> backlog -> txQueue -> taken (the engine)  *)
(*   arrived (the engine) -> rxQueue -> outgoing -> usbTx -> heard (host)  *)
(*                                                                         *)
(* Abstractions: the settings are the transport mode, which also decides   *)
(* how frames are wrapped; a command line is one symbol; a frame to the    *)
(* host is written in Parts pieces, each a Serial.write that got through;  *)
(* bytes are read up to a FEND at a time; counters of Stats that no        *)
(* property reads are left out.  An engine slot is free, a radio call      *)
(* fails and a save fails whenever they like.                              *)
(***************************************************************************)
EXTENDS Kiss

CONSTANTS
    Payload,       \* the payloads of the host's data frames, in order
    Lines,         \* the command lines the host may write
    Noise,         \* other symbols the host may write between frames
    BacklogDepth,  \* SERIAL_RX_BACKLOG_DEPTH
    TxQueueDepth,  \* TX_QUEUE_DEPTH
    RxQueueDepth,  \* RX_QUEUE_DEPTH
    Parts,         \* writes a frame to the host takes
    UsbRxSize,     \* symbols the USB driver holds for the modem
    UsbTxSize,     \* pieces the USB driver holds for the host
    SharedFend,    \* the host ends a frame and begins the next with one FEND
    MaxFrames,     \* bound: frames the host writes in one session
    MaxCommands,   \* bound: how many of them are commands
    MaxDisturbed,  \* bound: writes of noise, and data frames broken off
    MaxArrivals,   \* bound: frames the engine delivers in one session
    MaxReboots     \* bound: power cycles

ASSUME SerialAssumption ==
    /\ Payload \in Seq(Seq(0 .. 255))
    /\ Lines \subseteq 32 .. 127 /\ Noise \subseteq Seq(Nat)
    /\ BacklogDepth \in Nat \ {0} /\ TxQueueDepth \in Nat \ {0} /\ RxQueueDepth \in Nat \ {0}
    /\ Parts \in Nat \ {0} /\ UsbRxSize \in Nat \ {0} /\ UsbTxSize \in Nat \ {0}
    /\ SharedFend \in BOOLEAN
    /\ MaxFrames \in Nat /\ MaxCommands \in Nat /\ MaxDisturbed \in Nat
    /\ MaxArrivals \in Nat /\ MaxReboots \in Nat

Mode == {"generic", "native"}
DefaultMode == "generic"

\* Command lines, one for each way handleControlCommand can go.
GET == 71
STATS == 83
BLOCK == 66     \* DIAG egress=blocked
UNBLOCK == 79   \* DIAG egress=open
DEFAULTS == 68
SCAN == 67
SET_GENERIC == 103
SET_NATIVE == 110
BAD == 63       \* no known verb, key or value: ERR
NewMode(line) == IF line = SET_NATIVE THEN "native" ELSE "generic"

VARIABLES
    usbRx,       \* symbols from the host not read yet
    decoder,     \* the KISS decoder of serialRxTask
    backlog,     \* its ring of decoded frames
    txQueue,     \* frames for the engine
    taken,       \* history: frames the engine took, with the mode they were read in
    rxPc,        \* serialRxTask: "loop", "apply", "save", "reply", "write"
    line,        \* the command it is handling
    reply,       \* what it answers
    asked,       \* history: commands it began to handle
    command,     \* s_cmdQueue, s_stagedCmd, s_cmdDone: "none", "queued", "staged", "done"
    applied,     \* s_cmd.result: the radio accepted the settings
    chip,        \* the mode the radio is set up for, or "torn"
    modemConfig, \* the settings the serial tasks and GET use
    nvs,         \* the stored settings, or "none"
    source,      \* modemConfigSource
    shown,       \* the settings in Stats: STATS, display
    blocked,     \* g_diagnostic_egress_mode
    promised,    \* history: the settings an "OK saved" answered, or "none"
    rxQueue,     \* frames for the host
    arrived,     \* history: frames the engine put in rxQueue
    outgoing,    \* the frame serialTxTask is writing, or NoFrame
    owner,       \* serialWriteMutex: "none", "rx", "tx"
    part,        \* pieces its owner has written
    usbTx,       \* pieces on their way to the host
    heard,       \* history: data frames the host read, damaged ones included
    answers,     \* history: the answers it read
    hearing,     \* the frame the host is reading, or NoFrame
    hostMode,    \* the mode the host knows the modem is in, or "unknown"
    sent,        \* data frames the host wrote in this session
    ordered,     \* commands it wrote
    noisy,       \* history: times it wrote noise
    torn,        \* history: data frames broken off
    reboots      \* history: power cycles

host == <<heard, answers, hearing, hostMode, sent, ordered, noisy, torn>>
settings == <<modemConfig, nvs, source, shown, blocked, promised>>
down == <<usbRx, decoder, backlog, txQueue, taken>>
up == <<rxQueue, arrived, outgoing, owner, part, usbTx>>
task == <<rxPc, line, reply, asked>>
mac == <<command, applied, chip>>
vars == <<down, task, mac, settings, up, host, reboots>>

NoFrame == [type |-> "none", number |-> 0, line |-> 0, ok |-> FALSE, mode |-> "none"]
DataFrame(k, mode) ==
    [type |-> "data", number |-> k, line |-> 0, ok |-> FALSE, mode |-> mode]
Answer(ok, mode) ==
    [type |-> "reply", number |-> asked', line |-> line', ok |-> ok, mode |-> mode]

----------------------------------------------------------------------------
\* The host writes.  It sends data only when it knows how to wrap it: no
\* command of its own is unanswered.

Answered == Len(answers)

Encoded(command_, payload) ==
    LET frame == EncodeFrame(command_, payload)
    IN  IF SharedFend /\ sent + ordered > 0 THEN Tail(frame) ELSE frame

Write(symbols) ==
    /\ Len(usbRx) + Len(symbols) <= UsbRxSize
    /\ usbRx' = usbRx \o symbols
    /\ UNCHANGED <<decoder, backlog, txQueue, taken, task, mac, settings, up,
                   heard, answers, hearing, hostMode, reboots>>

NextData ==
    LET p == Payload[sent + 1]
    IN  Encoded(DATA_FRAME, IF hostMode = "generic" THEN Wrap(p) ELSE p)

MayWrite == sent + ordered < MaxFrames
MaySendData == MayWrite /\ sent < Len(Payload) /\ hostMode \in Mode /\ ordered = Answered

SendData ==
    /\ MaySendData
    /\ Write(NextData)
    /\ sent' = sent + 1
    /\ UNCHANGED <<ordered, noisy, torn>>

\* The host is killed, or its write times out, inside a frame.
TearData ==
    /\ MaySendData /\ noisy + torn < MaxDisturbed
    /\ \E n \in 1 .. Len(NextData) - 1 : Write(SubSeq(NextData, 1, n))
    /\ sent' = sent + 1 /\ torn' = torn + 1
    /\ UNCHANGED <<ordered, noisy>>

SendCommand ==
    /\ MayWrite /\ ordered < MaxCommands
    /\ \E c \in Lines : Write(Encoded(CONTROL_FRAME, <<c>>))
    /\ ordered' = ordered + 1
    /\ UNCHANGED <<sent, noisy, torn>>

SendNoise ==
    /\ noisy + torn < MaxDisturbed
    /\ \E s \in Noise : Write(s)
    /\ noisy' = noisy + 1
    /\ UNCHANGED <<sent, ordered, torn>>

----------------------------------------------------------------------------
\* serialRxTask

\* A mutant: the ring empties without asking for room.
QueueFrameAlways ==
    /\ rxPc = "loop"
    /\ backlog # <<>>
    /\ txQueue' = Append(txQueue, Head(backlog))
    /\ backlog' = Tail(backlog)
    /\ UNCHANGED <<usbRx, decoder, taken, task, mac, settings, up, host, reboots>>

\* The head of a pass: the ring empties into txQueue while there is room.
QueueFrame ==
    /\ rxPc = "loop"
    /\ backlog # <<>>
    /\ Len(txQueue) < TxQueueDepth
    /\ txQueue' = Append(txQueue, Head(backlog))
    /\ backlog' = Tail(backlog)
    /\ UNCHANGED <<usbRx, decoder, taken, task, mac, settings, up, host, reboots>>

\* A mutant: the envelope is taken off unchecked.
ReceivedUnchecked(data) ==
    IF modemConfig = "native" THEN {[data |-> data, mode |-> "native"]}
    ELSE IF data # <<>> THEN {[data |-> Unwrap(data), mode |-> "generic"]}
    ELSE {}

\* What a decoded data frame becomes: nothing, or a frame for the ring.
Received(data) ==
    IF modemConfig = "native" THEN {[data |-> data, mode |-> "native"]}
    ELSE IF Genuine(data) THEN {[data |-> Unwrap(data), mode |-> "generic"]}
    ELSE {}

\* DIAG egress=...; the one-shot mode, an aid of bench tests, is left out.
SetEgress == blocked' = CASE line' = BLOCK   -> TRUE
                          [] line' = UNBLOCK -> FALSE
                          [] OTHER           -> blocked

\* GET, STATS, DIAG, and ERR to anything that is no command.
AnswerAtOnce ==
    /\ line' \notin {DEFAULTS, SCAN, SET_GENERIC, SET_NATIVE}
    /\ rxPc' = "reply"
    /\ reply' = Answer(line' \in {GET, STATS, BLOCK, UNBLOCK},
                       IF line' = STATS THEN shown ELSE modemConfig)
    /\ SetEgress
    /\ UNCHANGED <<command, promised>>

\* DEFAULTS, SCAN and a valid SET ask the MAC task and wait.
AskMac ==
    /\ line' \in {DEFAULTS, SCAN, SET_GENERIC, SET_NATIVE}
    /\ rxPc' = "apply"
    /\ command' = "queued"
    /\ promised' = IF line' = SCAN THEN promised ELSE "none"
    /\ UNCHANGED <<reply, blocked>>

\* handleControlCommand up to its first wait.  An empty line is answered ERR.
BeginCommand(payload) ==
    /\ line' = IF payload = <<>> THEN BAD ELSE Head(payload)
    /\ asked' = asked + 1
    /\ AnswerAtOnce \/ AskMac
    /\ UNCHANGED <<applied, chip, modemConfig, nvs, source, shown>>

\* A mutant: reading goes on with a full ring, which overwrites a frame.
NoRoomNeeded == TRUE

RoomInBacklog == Len(backlog) < BacklogDepth

Push(frame) == Append(IF Len(backlog) < BacklogDepth THEN backlog ELSE Tail(backlog), frame)

\* How far reading can go before it may complete a frame.
ToFend == IF FEND \in ToSet(usbRx) THEN SelectInSeq(usbRx, LAMBDA b : b = FEND) ELSE Len(usbRx)

\* Part of a read batch: the symbols up to a FEND, or all there are.  The
\* frame it may complete is a command, data, or of a type that is ignored.
ReadFrame ==
    /\ rxPc = "loop"
    /\ RoomInBacklog
    /\ usbRx # <<>>
    /\ LET before == FeedAll(decoder, SubSeq(usbRx, 1, ToFend - 1))
           frames == Completed(before, usbRx[ToFend])
           commands == {f \in frames : f.command = CONTROL_FRAME}
           data == UNION {Received(f.payload) : f \in {g \in frames : g.command = DATA_FRAME}}
       IN  /\ usbRx' = SubSeq(usbRx, ToFend + 1, Len(usbRx))
           /\ decoder' = Feed(before, usbRx[ToFend])
           /\ backlog' \in IF data = {} THEN {backlog} ELSE {Push(f) : f \in data}
           /\ IF commands = {}
              THEN UNCHANGED <<task, mac, modemConfig, nvs, source, shown, blocked, promised>>
              ELSE \E f \in commands : BeginCommand(f.payload)
    /\ UNCHANGED <<txQueue, taken, up, host, reboots>>

----------------------------------------------------------------------------
\* The commands that wait for the MAC task

EndCommand(ok) ==
    /\ UNCHANGED <<line, asked>>
    /\ reply' = Answer(ok, modemConfig')
    /\ rxPc' = "reply"

\* requestScanBand returns; no sample means an ERR.
ResumeScan ==
    /\ rxPc = "apply" /\ command = "done" /\ line = SCAN
    /\ command' = "none"
    /\ UNCHANGED modemConfig
    /\ EndCommand(applied)
    /\ UNCHANGED <<applied, chip, nvs, source, shown, blocked, promised, down, up, host, reboots>>

\* A mutant: DEFAULTS sets up the radio and forgets the serial tasks.
ResumeForgetful ==
    /\ rxPc = "apply" /\ command = "done" /\ line # SCAN
    /\ command' = "none"
    /\ modemConfig' = IF applied /\ line # DEFAULTS THEN NewMode(line) ELSE modemConfig
    /\ IF applied THEN rxPc' = "save" /\ UNCHANGED <<line, reply, asked>> ELSE EndCommand(FALSE)
    /\ UNCHANGED <<applied, chip, nvs, source, shown, blocked, promised, down, up, host, reboots>>

\* requestApplyConfig returns, in DEFAULTS or SET.
Resume ==
    /\ rxPc = "apply" /\ command = "done" /\ line # SCAN
    /\ command' = "none"
    /\ modemConfig' = IF applied THEN NewMode(line) ELSE modemConfig
    /\ IF applied THEN rxPc' = "save" /\ UNCHANGED <<line, reply, asked>> ELSE EndCommand(FALSE)
    /\ UNCHANGED <<applied, chip, nvs, source, shown, blocked, promised, down, up, host, reboots>>

\* A mutant: SET, too, ignores a failed save.
SaveSetIgnored ==
    /\ rxPc = "save" /\ line # DEFAULTS
    /\ nvs' \in {nvs, modemConfig}
    /\ source' = "nvs" /\ shown' = modemConfig /\ promised' = modemConfig
    /\ UNCHANGED modemConfig
    /\ EndCommand(TRUE)
    /\ UNCHANGED <<blocked, mac, down, up, host, reboots>>

\* modemSaveConfig and what follows.  SET reports a failed save and leaves
\* source and Stats as they were; DEFAULTS ignores it.
SaveSet ==
    /\ rxPc = "save" /\ line # DEFAULTS
    /\ \/ /\ nvs' = modemConfig
          /\ source' = "nvs"
          /\ shown' = modemConfig
          /\ promised' = modemConfig
          /\ UNCHANGED modemConfig
          /\ EndCommand(TRUE)
       \/ /\ UNCHANGED <<nvs, source, shown, promised, modemConfig>>
          /\ EndCommand(FALSE)
    /\ UNCHANGED <<blocked, mac, down, up, host, reboots>>

SaveDefaults ==
    /\ rxPc = "save" /\ line = DEFAULTS
    /\ nvs' \in {nvs, modemConfig}
    /\ source' = "defaults"
    /\ shown' = modemConfig
    /\ UNCHANGED <<modemConfig, promised>>
    /\ EndCommand(TRUE)
    /\ UNCHANGED <<blocked, mac, down, up, host, reboots>>

----------------------------------------------------------------------------
\* The MAC task, as far as the serial path sees it

\* xQueueReceive(s_cmdQueue): staged until the phase is IDLE.
StageCommand ==
    /\ command = "queued"
    /\ command' = "staged"
    /\ UNCHANGED <<applied, chip, down, task, settings, up, host, reboots>>

\* A mutant: a refused command is executed while a frame is in flight and
\* its completion is signalled before the radio is set up.
ApplyConfigEarly ==
    /\ command = "staged" /\ line # SCAN
    /\ command' = "done" /\ applied' = TRUE
    /\ UNCHANGED <<chip, down, task, settings, up, host, reboots>>

\* executeStagedCommand with Radio::applyConfig.
ApplyConfig ==
    /\ command = "staged" /\ line # SCAN
    /\ command' = "done"
    /\ applied' \in BOOLEAN
    /\ chip' = IF applied' THEN NewMode(line) ELSE "torn"
    /\ UNCHANGED <<down, task, settings, up, host, reboots>>

\* executeStagedCommand with Radio::scanBand, which tries to restore the
\* settings and ignores the outcome.
ScanBand ==
    /\ command = "staged" /\ line = SCAN
    /\ command' = "done"
    /\ applied' \in BOOLEAN
    /\ chip' \in {modemConfig, "torn"}
    /\ UNCHANGED <<down, task, settings, up, host, reboots>>

\* A mutant: an empty or overlong frame is refused but stays where it is.
TakeFrameLeaving ==
    /\ command # "staged"
    /\ txQueue # <<>>
    /\ Len(Head(txQueue).data) \in 1 .. MaxLen - 1
    /\ txQueue' = Tail(txQueue)
    /\ taken' = Append(taken, Head(txQueue))
    /\ UNCHANGED <<usbRx, decoder, backlog, task, mac, settings, up, host, reboots>>

\* serviceIdle: an empty or overlong frame is discarded.
TakeFrame ==
    /\ command # "staged"
    /\ txQueue # <<>>
    /\ txQueue' = Tail(txQueue)
    /\ LET f == Head(txQueue)
       IN  taken' = IF Len(f.data) \in 1 .. MaxLen - 1 THEN Append(taken, f) ELSE taken
    /\ UNCHANGED <<usbRx, decoder, backlog, task, mac, settings, up, host, reboots>>

\* deliverArqDatagram, or handleRadioEvent in native mode.
Deliver ==
    /\ arrived < MaxArrivals
    /\ Len(rxQueue) < RxQueueDepth
    /\ chip = "generic" => ~blocked
    /\ arrived' = arrived + 1
    /\ rxQueue' = Append(rxQueue, arrived')
    /\ UNCHANGED <<outgoing, owner, part, usbTx, down, task, mac, settings, host, reboots>>

----------------------------------------------------------------------------
\* serialTxTask and sendControlResponse share serialWriteMutex

\* xQueueReceive and the encoding: the frame is wrapped as modemConfig says now.
TakeOutgoing ==
    /\ outgoing = NoFrame /\ rxQueue # <<>>
    /\ outgoing' = DataFrame(Head(rxQueue), modemConfig)
    /\ rxQueue' = Tail(rxQueue)
    /\ UNCHANGED <<arrived, owner, part, usbTx, down, task, mac, settings, host, reboots>>

LockTx ==
    /\ owner = "none" /\ outgoing # NoFrame
    /\ owner' = "tx" /\ part' = 0
    /\ UNCHANGED <<rxQueue, arrived, outgoing, usbTx, down, task, mac, settings, host, reboots>>

\* A mutant: the response does not wait for the mutex.
LockRxUnheld ==
    /\ rxPc = "reply"
    /\ owner' = "rx" /\ part' = 0 /\ rxPc' = "write"
    /\ UNCHANGED <<rxQueue, arrived, outgoing, usbTx, line, reply, asked,
                   down, mac, settings, host, reboots>>

LockRx ==
    /\ owner = "none" /\ rxPc = "reply"
    /\ owner' = "rx" /\ part' = 0 /\ rxPc' = "write"
    /\ UNCHANGED <<rxQueue, arrived, outgoing, usbTx, line, reply, asked,
                   down, mac, settings, host, reboots>>

\* A Serial.write that makes progress; the last one also gives the mutex
\* back and returns to the loop.
Piece(frame) ==
    /\ Len(usbTx) < UsbTxSize
    /\ usbTx' = Append(usbTx, [frame |-> frame, part |-> part + 1])
    /\ part' = part + 1
    /\ owner' = IF part' = Parts THEN "none" ELSE owner

\* A mutant: the mutex is not given back.
WriteFrameHolding ==
    /\ owner = "tx" /\ outgoing # NoFrame
    /\ Len(usbTx) < UsbTxSize
    /\ usbTx' = Append(usbTx, [frame |-> outgoing, part |-> part + 1])
    /\ part' = part + 1
    /\ outgoing' = IF part' = Parts THEN NoFrame ELSE outgoing
    /\ UNCHANGED <<owner, rxQueue, arrived, down, task, mac, settings, host, reboots>>

WriteFrame ==
    /\ owner = "tx"
    /\ Piece(outgoing)
    /\ outgoing' = IF part' = Parts THEN NoFrame ELSE outgoing
    /\ UNCHANGED <<rxQueue, arrived, down, task, mac, settings, host, reboots>>

\* A mutant: a short write counts as the whole response.
WriteReplyShort ==
    /\ owner = "rx"
    /\ Len(usbTx) < UsbTxSize
    /\ \E n \in 1 .. Parts :
          usbTx' = usbTx \o [i \in 1 .. n |-> [frame |-> reply, part |-> i]]
    /\ owner' = "none" /\ rxPc' = "loop"
    /\ UNCHANGED <<rxQueue, arrived, outgoing, part, line, reply, asked,
                   down, mac, settings, host, reboots>>

WriteReply ==
    /\ owner = "rx"
    /\ Piece(reply)
    /\ rxPc' = IF part' = Parts THEN "loop" ELSE "write"
    /\ UNCHANGED <<rxQueue, arrived, outgoing, line, reply, asked,
                   down, mac, settings, host, reboots>>

\* The host reads.  Pieces that do not belong together are a damaged frame,
\* type "none".  An answer to GET and an OK to a change tell it the mode; a
\* refused change leaves it in doubt until it asks again.
Learned(frame) ==
    IF frame.type # "reply" \/ frame.line \notin {GET, DEFAULTS, SET_GENERIC, SET_NATIVE}
    THEN hostMode
    ELSE CASE ~frame.ok                           -> "unknown"
           [] frame.ok /\ frame.line = GET        -> frame.mode
           [] frame.ok /\ frame.line # GET        -> NewMode(frame.line)

HostRead ==
    /\ usbTx # <<>>
    /\ usbTx' = Tail(usbTx)
    /\ LET piece == Head(usbTx)
           whole == IF piece.part = 1 THEN hearing = NoFrame ELSE hearing = piece.frame
           frame == IF whole THEN piece.frame ELSE NoFrame
       IN  IF piece.part = Parts
           THEN /\ IF frame.type = "reply"
                   THEN answers' = Append(answers, frame) /\ UNCHANGED heard
                   ELSE heard' = Append(heard, frame) /\ UNCHANGED answers
                /\ hearing' = NoFrame
                /\ hostMode' = Learned(frame)
           ELSE /\ hearing' = frame
                /\ UNCHANGED <<heard, answers, hostMode>>
    /\ UNCHANGED <<sent, ordered, noisy, torn>>
    /\ UNCHANGED <<rxQueue, arrived, outgoing, owner, part, down, task, mac, settings, reboots>>

----------------------------------------------------------------------------
\* setup(): all tasks start afresh with what modemLoadConfig finds; the
\* button clears the stored settings.  The host opens the line again.

Boot(mode, origin) ==
    /\ usbRx' = <<>> /\ decoder' = IdleDecoder /\ backlog' = <<>> /\ txQueue' = <<>>
    /\ taken' = <<>>
    /\ rxPc' = "loop" /\ line' = 0 /\ reply' = NoFrame /\ asked' = 0
    /\ command' = "none" /\ applied' = FALSE /\ chip' = mode
    /\ modemConfig' = mode /\ source' = origin /\ shown' = mode /\ blocked' = FALSE
    /\ rxQueue' = <<>> /\ arrived' = 0 /\ outgoing' = NoFrame
    /\ owner' = "none" /\ part' = 0 /\ usbTx' = <<>>
    /\ heard' = <<>> /\ answers' = <<>> /\ hearing' = NoFrame /\ hostMode' = "unknown"
    /\ sent' = 0 /\ ordered' = 0

Reboot ==
    /\ reboots < MaxReboots
    /\ reboots' = reboots + 1
    /\ \/ /\ Boot(IF nvs = "none" THEN DefaultMode ELSE nvs,
                  IF nvs = "none" THEN "defaults" ELSE "nvs")
          /\ UNCHANGED <<nvs, promised>>
       \/ /\ Boot(DefaultMode, "reset-held")
          /\ nvs' = "none" /\ promised' = "none"
    /\ UNCHANGED <<noisy, torn>>

Init ==
    /\ usbRx = <<>> /\ decoder = IdleDecoder /\ backlog = <<>> /\ txQueue = <<>>
    /\ taken = <<>>
    /\ rxPc = "loop" /\ line = 0 /\ reply = NoFrame /\ asked = 0
    /\ command = "none" /\ applied = FALSE /\ chip = DefaultMode
    /\ modemConfig = DefaultMode /\ nvs = "none" /\ source = "defaults" /\ shown = DefaultMode
    /\ blocked = FALSE /\ promised = "none"
    /\ rxQueue = <<>> /\ arrived = 0 /\ outgoing = NoFrame
    /\ owner = "none" /\ part = 0 /\ usbTx = <<>>
    /\ heard = <<>> /\ answers = <<>> /\ hearing = NoFrame /\ hostMode = DefaultMode
    /\ sent = 0 /\ ordered = 0 /\ noisy = 0 /\ torn = 0 /\ reboots = 0

HostStep == SendData \/ TearData \/ SendCommand \/ SendNoise \/ HostRead
RxTaskStep ==
    QueueFrame \/ ReadFrame \/ ResumeScan \/ Resume \/ SaveSet \/ SaveDefaults \/ LockRx \/ WriteReply
TxTaskStep == TakeOutgoing \/ LockTx \/ WriteFrame
MacWork == StageCommand \/ ApplyConfig \/ ScanBand \/ TakeFrame
MacStep == MacWork \/ Deliver
Next == HostStep \/ RxTaskStep \/ TxTaskStep \/ MacStep \/ Reboot

Spec == Init /\ [][Next]_vars

\* Every task is scheduled: one that can go on does; the MAC task's waits
\* (heartbeats, back-offs: see MacTask) end.  The host reads.  Whether it
\* writes, and what the engine delivers, is open.
Fairness ==
    /\ WF_vars(RxTaskStep) /\ WF_vars(TxTaskStep)
    /\ WF_vars(MacWork) /\ WF_vars(HostRead)
LiveSpec == Spec /\ Fairness

----------------------------------------------------------------------------
\* Properties

Frame == [type : {"data", "reply"}, number : Nat, line : Nat, ok : BOOLEAN,
          mode : Mode] \cup {NoFrame}

\* Every variable has its type; serialWriteMutex is held by the task that is
\* writing and the MAC task works only on the command that is waited for.
TypeOK ==
    /\ usbRx \in Seq(Nat) /\ Len(usbRx) <= UsbRxSize
    /\ decoder \in Decoder /\ Len(decoder.buf) <= MaxLen + 1
    /\ backlog \in Seq([data : Seq(Nat), mode : Mode]) /\ Len(backlog) <= BacklogDepth
    /\ txQueue \in Seq([data : Seq(Nat), mode : Mode]) /\ Len(txQueue) <= TxQueueDepth
    /\ taken \in Seq([data : Seq(Nat), mode : Mode])
    /\ rxPc \in {"loop", "apply", "save", "reply", "write"}
    /\ line \in Nat /\ reply \in Frame /\ asked \in Nat
    /\ command \in {"none", "queued", "staged", "done"} /\ applied \in BOOLEAN
    /\ chip \in Mode \cup {"torn"}
    /\ modemConfig \in Mode /\ nvs \in Mode \cup {"none"} /\ shown \in Mode
    /\ source \in {"nvs", "defaults", "reset-held"}
    /\ blocked \in BOOLEAN /\ promised \in Mode \cup {"none"}
    /\ rxQueue \in Seq(Nat) /\ Len(rxQueue) <= RxQueueDepth /\ arrived \in Nat
    /\ outgoing \in Frame /\ owner \in {"none", "rx", "tx"} /\ part \in 0 .. Parts
    /\ usbTx \in Seq([frame : Frame, part : 1 .. Parts]) /\ Len(usbTx) <= UsbTxSize
    /\ heard \in Seq(Frame) /\ answers \in Seq(Frame) /\ hearing \in Frame
    /\ hostMode \in Mode \cup {"unknown"}
    /\ sent \in Nat /\ ordered \in Nat /\ noisy \in Nat /\ torn \in Nat /\ reboots \in Nat
    /\ (rxPc = "write") <=> (owner = "rx")
    /\ owner = "tx" => outgoing # NoFrame
    /\ (rxPc = "apply") <=> (command # "none")

\* Which of the host's payloads a frame is; 0 is none of them.
Number(data) ==
    IF \E k \in DOMAIN Payload : Payload[k] = data
    THEN CHOOSE k \in DOMAIN Payload : Payload[k] = data ELSE 0
Numbers(frames) == [i \in DOMAIN frames |-> Number(frames[i].data)]

\* No noise and no part of a data frame is read as a command.
CommandsWereOrdered == asked <= ordered

\* The way from the host to the engine and to the commands loses nothing,
\* repeats nothing and keeps the order, through resets of the decoder, a full
\* ring, a full queue and changes of mode, if the host writes its frames whole
\* and opens each with a FEND of its own: with SharedFend it is false.
\* (docs/hwcdc_serial_stability_20260709.md:42, "the serial path is lossless
\* again".)
NothingSkipped ==
    LET accepted == Numbers(taken \o txQueue \o backlog)
    IN  /\ CommandsWereOrdered
        /\ torn = 0 => /\ accepted = [k \in 1 .. Len(accepted) |-> k]
                       /\ usbRx = <<>> => Len(accepted) = sent /\ asked = ordered

\* Frames broken off included, what the engine takes in generic mode are
\* frames the host wrote, each once and in order: the envelope lets no
\* part of a frame and no mixture of two through.
ToEngine == INSTANCE FrameFifo WITH
    Lossy <- TRUE, offered <- sent,
    taken <- Numbers(SelectSeq(taken, LAMBDA f : f.mode = "generic"))
EngineIsServed == ToEngine!Spec

\* What the engine delivers reaches the host once, whole and in order,
\* whatever commands are answered in between (serialWriteMutex).
ToHost == INSTANCE FrameFifo WITH
    Lossy <- FALSE, offered <- arrived,
    taken <- [i \in DOMAIN heard |-> heard[i].number]
HostIsServed == ToHost!Spec

\* Every command is answered at most once, in order, and no answer is lost.
Answers == INSTANCE FrameFifo WITH
    Lossy <- FALSE, offered <- asked,
    taken <- [i \in DOMAIN answers |-> answers[i].number]
CommandsAreAnswered == Answers!Spec

\* "OK saved" is kept: until the next change is ordered, the settings
\* answered are stored and in use, also after power cycles.
SavedIsKept == promised # "none" => nvs = promised /\ modemConfig = promised

\* Between commands the serial tasks and the radio agree on the mode, unless
\* a radio call failed halfway.
RadioAgrees == rxPc = "loop" /\ chip # "torn" => chip = modemConfig

\* A host that has heard every answer wraps its frames as the modem expects.
HostKnows == ordered = Answered /\ hostMode # "unknown" => hostMode = modemConfig

\* serialRxTask always comes back to its loop, which feeds its watchdog:
\* neither the MAC task, nor the mutex, nor a slow host holds it for ever.
RxTaskReturns == []<>(rxPc = "loop")

\* Everything accepted gets through once the host stops writing.
Settles == <>[](/\ backlog = <<>> /\ txQueue = <<>> /\ rxQueue = <<>>
                /\ usbTx = <<>> /\ Answered = asked)

=============================================================================
