------------------------------ MODULE MacTask ------------------------------
(***************************************************************************)
(* The MAC task of one modem: its loop over the wait set, the radio chip   *)
(* with the interrupt that announces a packet, the heartbeats, the link    *)
(* state they keep up to date, and the commands it executes                *)
(* (firmware/src/mac/Mac.cpp, radio/Radio.cpp), with a peer and a host     *)
(* that do what they like.                                                 *)
(*                                                                         *)
(* Abstractions: the ARQ engine is one datagram of ours, one               *)
(* incomplete one of the peer's and an ACK that is due (ArqLink has the    *)
(* rest); rxQueue has room (SerialPath); a tick is MAC_MAX_WAIT_MS, which  *)
(* is also the housekeeping period, everything shorter fits between two    *)
(* ticks; clocks are ages with a cap; LBT of generic mode, which blocks    *)
(* and changes nothing, is left out, as are counters of Stats.             *)
(***************************************************************************)
EXTENDS Naturals, FiniteSets, Sequences

CONSTANTS
    Modes,        \* transport modes the settings may choose
    Kinds,        \* packets the peer may send, see Kind
    Lockouts,     \* the chip may stop receiving although it is set to
    Lbt,          \* lbtRssiThresholdDbm # 0
    LbtTries,     \* RADIO_LBT_MAX_RETRIES
    TxQueueDepth, \* TX_QUEUE_DEPTH
    RxTokens,     \* capacity of rxSemaphore
    MaxAttempts,  \* ArqConfig.max_attempts
    Idle,         \* RADIO_LINK_IDLE_MS, in ticks as all that follow
    Intervals,    \* what hbIntervalMs may return
    ReadyTtl,     \* RADIO_LINK_READY_TTL_MS
    ProbeTtl,     \* RADIO_LINK_PROBE_TTL_MS
    RearmIdle,    \* RADIO_REARM_IDLE_MS
    MaxEvents,    \* bound: what peer, chip and host do in one tick
    MaxRefusals   \* bound: radio operations that fail

Mode == {"generic", "native"}

\* "data" is a datagram, or a native packet; "part" and "rest" belong to a
\* datagram of two fragments; "oldAck" answers an earlier heartbeat; "bad"
\* is anything readPacket or the parsers refuse.
Kind == {"beat", "beatAck", "oldAck", "state", "pending", "data", "part", "rest", "ack", "bad"}

ASSUME MacAssumption ==
    /\ Modes \subseteq Mode /\ Modes # {} /\ Kinds \subseteq Kind
    /\ Lockouts \in BOOLEAN /\ Lbt \in BOOLEAN
    /\ LbtTries \in Nat \ {0} /\ TxQueueDepth \in Nat \ {0}
    /\ RxTokens \in Nat \ {0} /\ MaxAttempts \in Nat \ {0}
    /\ Idle \in Nat \ {0} /\ Intervals \subseteq Nat \ {0} /\ Intervals # {}
    /\ ReadyTtl \in Nat /\ ReadyTtl > 0 /\ ProbeTtl \in Nat /\ ProbeTtl > ReadyTtl
    /\ RearmIdle \in Nat \ {0} /\ MaxEvents \in Nat /\ MaxRefusals \in Nat

VARIABLES
    chip,         \* "rx", "tx", "standby", or "locked": set to receive, but deaf
    inbox,        \* the packet whose RX_DONE keeps DIO1 high, or "none"
    late,         \* history: that packet ended while the ISR was suppressed
    edge,         \* a rising edge of DIO1 the ISR has not served
    txActive,     \* _txActive
    waitSet,      \* s_waitSet: "radio", "tx" and "cmd" events, in order
    pc,           \* macTask: "wait", "event", "service", "idle", or in a radio
                  \* operation "key", "air", "release"
    op,           \* that operation, or "none"
    result,       \* its result
    then,         \* where macTask goes on after it
    mode,         \* transportMode of the radio's settings
    phase,        \* s_tx.phase
    deadline,     \* ticks to s_tx.deadline_ms
    tries,        \* s_tx.lbt_tries; 0 while it does not matter
    command,      \* as in SerialPath: "none", "queued", "staged", "done"
    txQueue,      \* number of frames in txQueue
    own,          \* one more than the rounds left to our datagram, or 0
    retry,        \* its next round is due
    ackDue,       \* pending_ack_count_ > 0
    inward,       \* a reassembly slot is active
    hbIn,         \* ticks to s_nextHbMs
    sincePayload, \* age of g_last_payload_activity_ms
    sinceConfirm, \* age of g_last_bidirectional_ctrl_ms, capped; never is the cap
    sinceRadio,   \* age of s_lastRadioEventMs
    slept,        \* a tick passed since the last pass of the loop
    link,         \* Stats.linkState
    events,       \* bound: events in this tick
    refusals      \* bound: failed operations

radio == <<chip, inbox, late, edge, txActive>>
operation == <<op, result, then>>
engine == <<own, retry, ackDue, inward>>
tx == <<phase, deadline, tries>>
confirmation == <<sinceConfirm, link>>
queues == <<command, txQueue>>
bounds == <<events, refusals>>
vars == <<radio, waitSet, pc, operation, mode, tx, queues, engine, hbIn,
          sincePayload, confirmation, sinceRadio, slept, bounds>>

Generic == mode = "generic"
Never == ProbeTtl + 2

----------------------------------------------------------------------------
\* What the peer, the chip and the host do

\* A packet ends.  One that is not read yet is replaced, without an edge.
Arrive ==
    /\ events < MaxEvents
    /\ chip = "rx"
    /\ inbox' \in Kinds
    /\ edge' = (edge \/ inbox = "none")
    /\ late' = IF inbox = "none" THEN txActive ELSE late
    /\ events' = events + 1
    /\ UNCHANGED <<chip, txActive, waitSet, pc, operation, mode, tx, queues, engine, hbIn,
                   sincePayload, confirmation, sinceRadio, slept, refusals>>

Lockout ==
    /\ Lockouts /\ events < MaxEvents
    /\ chip = "rx"
    /\ chip' = "locked"
    /\ events' = events + 1
    /\ UNCHANGED <<inbox, late, edge, txActive, waitSet, pc, operation, mode, tx, queues,
                   engine, hbIn, sincePayload, confirmation, sinceRadio, slept, refusals>>

\* A mutant: the level of DIO1 is not looked at.
Dio1IsrBlind ==
    /\ edge
    /\ edge' = FALSE
    /\ waitSet' = IF ~txActive THEN Append(waitSet, "radio") ELSE waitSet
    /\ UNCHANGED <<chip, inbox, late, txActive, pc, operation, mode, tx, queues, engine,
                   hbIn, sincePayload, confirmation, sinceRadio, slept, bounds>>

RadioEvents == {i \in DOMAIN waitSet : waitSet[i] = "radio"}

\* _dio1Isr, some time after the edge.
Dio1Isr ==
    /\ edge
    /\ edge' = FALSE
    /\ waitSet' = IF ~txActive /\ inbox # "none" /\ Cardinality(RadioEvents) < RxTokens
                  THEN Append(waitSet, "radio") ELSE waitSet
    /\ UNCHANGED <<chip, inbox, late, txActive, pc, operation, mode, tx, queues, engine,
                   hbIn, sincePayload, confirmation, sinceRadio, slept, bounds>>

\* serialRxTask: xQueueSend to txQueue and notifyTxWork.
QueueFrame ==
    /\ events < MaxEvents
    /\ txQueue < TxQueueDepth
    /\ txQueue' = txQueue + 1
    /\ waitSet' = Append(waitSet, "tx")
    /\ events' = events + 1
    /\ UNCHANGED <<radio, pc, operation, mode, tx, command, engine, hbIn, sincePayload,
                   confirmation, sinceRadio, slept, refusals>>

\* requestApplyConfig and requestScanBand up to the wait for s_cmdDone.
Request ==
    /\ events < MaxEvents
    /\ command \in {"none", "done"}
    /\ command' = "queued"
    /\ waitSet' = Append(waitSet, "cmd")
    /\ events' = events + 1
    /\ UNCHANGED <<radio, pc, operation, mode, tx, txQueue, engine, hbIn, sincePayload,
                   confirmation, sinceRadio, slept, refusals>>

Report ==
    IF sinceConfirm <= ReadyTtl THEN "READY"
    ELSE IF sinceConfirm <= ProbeTtl THEN "PROBING" ELSE "DOWN"

\* STATS: refreshLinkStats, here in serialRxTask and with no lock.  A
\* confirmation noted while it reads the clock makes an age wrap around.
PollStats ==
    /\ events < MaxEvents
    /\ link' \in IF sinceConfirm = 0 THEN {"READY", "PROBING", "DOWN"} ELSE {Report}
    /\ events' = events + 1
    /\ UNCHANGED <<radio, waitSet, pc, operation, mode, tx, queues, engine, hbIn, sincePayload,
                   sinceConfirm, sinceRadio, slept, refusals>>

----------------------------------------------------------------------------
\* The loop sleeps: computeWaitMs and xQueueSelectFromSet

Working == own > 0 \/ ackDue \/ inward
MayTake == txQueue > 0 /\ (Generic => own = 0)

Due ==
    \/ slept
    \/ Generic /\ (ackDue \/ retry)
    \/ phase # "IDLE" /\ deadline = 0
    \/ phase = "IDLE" /\ (command = "staged" \/ MayTake)
    \/ phase = "IDLE" /\ hbIn = 0 /\ (Generic => ~Working)

Older(age, cap) == IF age < cap THEN age + 1 ELSE age
Less(n) == IF n > 0 THEN n - 1 ELSE 0

Tick ==
    /\ pc = "wait" /\ waitSet = <<>> /\ ~edge /\ ~Due
    /\ slept' = TRUE /\ retry' = (own > 0)
    /\ deadline' = Less(deadline) /\ hbIn' = Less(hbIn)
    /\ sincePayload' = Older(sincePayload, Idle)
    /\ sinceConfirm' = Older(sinceConfirm, Never)
    /\ sinceRadio' = Older(sinceRadio, RearmIdle)
    /\ events' = 0
    /\ UNCHANGED <<radio, waitSet, pc, operation, mode, phase, tries, queues, own, ackDue, inward,
                   link, refusals>>

\* A mutant: a command that finds a frame in flight is forgotten.
WakeForgetful ==
    /\ pc = "wait"
    /\ waitSet # <<>> \/ Due
    /\ IF waitSet = <<>>
       THEN pc' = "service" /\ UNCHANGED <<waitSet, command>>
       ELSE /\ waitSet' = Tail(waitSet)
            /\ pc' = IF Head(waitSet) = "radio" THEN "event" ELSE "service"
            /\ command' = IF Head(waitSet) = "cmd" /\ phase = "IDLE" THEN "staged" ELSE command
    /\ UNCHANGED <<radio, operation, mode, tx, txQueue, engine, hbIn, sincePayload,
                   confirmation, sinceRadio, slept, bounds>>

Wake ==
    /\ pc = "wait"
    /\ waitSet # <<>> \/ Due
    /\ IF waitSet = <<>>
       THEN pc' = "service" /\ UNCHANGED <<waitSet, command>>
       ELSE /\ waitSet' = Tail(waitSet)
            /\ pc' = IF Head(waitSet) = "radio" THEN "event" ELSE "service"
            /\ command' = IF Head(waitSet) = "cmd" THEN "staged" ELSE command
    /\ UNCHANGED <<radio, operation, mode, tx, txQueue, engine, hbIn, sincePayload,
                   confirmation, sinceRadio, slept, bounds>>

----------------------------------------------------------------------------
\* Radio operations.  Each holds _txActive until the chip receives again.

Operate(o, next) == op' = o /\ then' = next /\ pc' = "key" /\ UNCHANGED result
GoTo(next) == pc' = next /\ UNCHANGED operation

Key ==
    /\ pc = "key"
    /\ txActive' = TRUE
    /\ chip' = IF op \in {"apply", "scan"} THEN "standby" ELSE "tx"
    /\ inbox' = "none" /\ late' = FALSE
    /\ pc' = "air"
    /\ UNCHANGED <<edge, waitSet, operation, mode, tx, queues, engine, hbIn, sincePayload,
                   confirmation, sinceRadio, slept, bounds>>

\* TX_DONE leaves an edge behind.  Only a failed applyConfig does not set the
\* chip to receive again.
Air ==
    /\ pc = "air"
    /\ result' \in BOOLEAN
    /\ ~result' => op # "scan" /\ refusals < MaxRefusals
    /\ refusals' = IF result' THEN refusals ELSE refusals + 1
    /\ edge' = (edge \/ (result' /\ op \notin {"apply", "scan"}))
    /\ chip' = IF op = "apply" /\ ~result' THEN "standby" ELSE "rx"
    /\ pc' = "release"
    /\ UNCHANGED <<inbox, late, txActive, waitSet, op, then, mode, tx, queues, engine, hbIn,
                   sincePayload, confirmation, sinceRadio, slept, events>>

\* A mutant: every packet we send counts, as it once did.
NotesPayloadAlways(o) == TRUE

\* The operations that count as payload activity.
NotesPayload(o) == o \in {"data", "ack", "native"}

\* A mutant: only a successful operation opens the interrupt again.
EndSuppressionOnSuccess == txActive' = ~result

EndSuppression == txActive' = FALSE

ResetArqEngine == own' = 0 /\ retry' = FALSE /\ ackDue' = FALSE /\ inward' = FALSE

\* What the end of each operation does.
Release ==
    /\ pc = "release"
    /\ pc' = then
    /\ op' = "none" /\ then' = "wait" /\ result' = FALSE
    /\ EndSuppression
    /\ sincePayload' = IF result /\ NotesPayload(op) THEN 0 ELSE sincePayload
    /\ hbIn' \in IF op = "native" \/ (op = "beat" /\ ~result) THEN Intervals ELSE {hbIn}
    /\ phase' = IF op = "beat" /\ result THEN "HB_WAIT"
                ELSE IF op = "native" \/ (op = "apply" /\ result) THEN "IDLE" ELSE phase
    /\ deadline' = IF op = "beat" /\ result THEN 1 ELSE deadline
    /\ tries' = IF op = "native" THEN 0 ELSE tries
    /\ IF op = "apply" /\ result
       THEN mode' \in Modes /\ ResetArqEngine
       ELSE /\ own' = IF op = "data" /\ result THEN own - 1 ELSE own
            /\ retry' = (retry /\ ~(op = "data" /\ result))
            /\ ackDue' = (ackDue /\ ~(op = "ack" /\ result))
            /\ UNCHANGED <<mode, inward>>
    /\ command' = IF op \in {"apply", "scan"} THEN "done" ELSE command
    /\ UNCHANGED <<chip, inbox, late, edge, waitSet, txQueue, confirmation, sinceRadio,
                   slept, bounds>>

----------------------------------------------------------------------------
\* handleRadioEvent

Answers(kind) ==
    phase = "HB_WAIT" /\ kind \in IF Generic THEN {"beatAck", "oldAck"} ELSE {"beatAck"}
Confirms(kind) == Answers(kind) \/ (Generic /\ kind \in {"ack", "state", "data", "rest"})
IsPayload(kind) == kind \in IF Generic THEN {"data", "part", "rest", "ack"} ELSE {"data", "ack"}

\* A mutant: a packet is read, and the chip left as it is.
ReadPacketOnly == UNCHANGED <<chip, inbox, late>>

\* readPacket, also one that finds nothing, sets the chip to receive again.
StartReceive == chip' = "rx" /\ inbox' = "none" /\ late' = FALSE

HandleRadioEvent ==
    /\ pc = "event"
    /\ StartReceive
    /\ sinceRadio' = 0
    /\ sincePayload' = IF IsPayload(inbox) THEN 0 ELSE sincePayload
    /\ sinceConfirm' = IF Confirms(inbox) THEN 0 ELSE sinceConfirm
    /\ IF Answers(inbox)
       THEN link' = "READY" /\ phase' = "IDLE" /\ hbIn' \in Intervals
       ELSE UNCHANGED <<link, phase, hbIn>>
    /\ IF Generic
       THEN /\ own' \in IF inbox = "ack" /\ own \in 1 .. MaxAttempts THEN {0, own} ELSE {own}
            /\ retry' = (retry /\ own' > 0)
            /\ ackDue' \in IF inbox = "part" THEN {ackDue, TRUE}
                          ELSE {ackDue \/ inbox \in {"data", "rest"}}
            /\ inward' = ((inward \/ inbox = "part") /\ inbox # "rest")
       ELSE UNCHANGED engine
    /\ IF inbox = "beat" THEN Operate("beatAck", "service")
       ELSE IF inbox = "pending" /\ ~Generic THEN Operate("ready", "service")
       ELSE GoTo("service")
    /\ UNCHANGED <<edge, txActive, waitSet, mode, deadline, tries, queues, slept, bounds>>

----------------------------------------------------------------------------
\* serviceTx

\* A heartbeat nobody answered.
Expire ==
    IF phase = "HB_WAIT" /\ deadline = 0
    THEN link' = Report /\ phase' = "IDLE" /\ hbIn' \in Intervals
    ELSE UNCHANGED <<link, phase, hbIn>>

\* A mutant: a datagram out of rounds is kept.
EngineTickKeeping ==
    \/ ackDue /\ Operate("ack", "idle") /\ UNCHANGED <<own, retry>>
    \/ ~ackDue /\ retry /\ own > 1 /\ Operate("data", "idle") /\ UNCHANGED <<own, retry>>
    \/ ~ackDue /\ retry /\ own = 1 /\ GoTo("idle") /\ retry' = FALSE /\ UNCHANGED own
    \/ ~ackDue /\ ~retry /\ GoTo("idle") /\ UNCHANGED <<own, retry>>

\* ArqEngine::onTick: an ACK first, else the round of our datagram that is due.
EngineTick ==
    \/ ackDue /\ Operate("ack", "idle") /\ UNCHANGED <<own, retry>>
    \/ ~ackDue /\ retry /\ own > 1 /\ Operate("data", "idle") /\ UNCHANGED <<own, retry>>
    \/ ~ackDue /\ retry /\ own = 1 /\ GoTo("idle") /\ retry' = FALSE /\ own' = 0
    \/ ~ackDue /\ ~retry /\ GoTo("idle") /\ UNCHANGED <<own, retry>>

ServiceTx ==
    /\ pc = "service" /\ Generic
    /\ Expire
    /\ EngineTick
    /\ UNCHANGED <<radio, waitSet, mode, deadline, tries, queues, ackDue, inward, sincePayload,
                   sinceConfirm, sinceRadio, slept, bounds>>

\* A mutant: sensing starts over after every back-off.
TryAgain == tries' = 0

CountTry == tries' = tries + 1

\* LBT_BACKOFF: sense again, up to LbtTries times.
ServiceNative ==
    /\ pc = "service" /\ ~Generic
    /\ Expire
    /\ IF phase = "LBT_BACKOFF" /\ deadline = 0
       THEN /\ CountTry
            /\ \/ Operate("native", "idle") /\ UNCHANGED deadline
               \/ tries' < LbtTries /\ GoTo("idle") /\ deadline' = 1
       ELSE GoTo("idle") /\ UNCHANGED <<tries, deadline>>
    /\ UNCHANGED <<radio, waitSet, mode, queues, engine, sincePayload, sinceConfirm, sinceRadio,
                   slept, bounds>>

----------------------------------------------------------------------------
\* serviceIdle

\* A mutant: only heartbeats refresh the link state.
HousekeepSilent == slept' = FALSE /\ UNCHANGED link

Housekeep == link' = (IF slept THEN Report ELSE link) /\ slept' = FALSE

Free == pc = "idle" /\ phase = "IDLE" /\ command # "staged"
Quiet == Free /\ ~MayTake /\ (Generic => ~Working)

ExecuteCommand ==
    /\ pc = "idle" /\ phase = "IDLE" /\ command = "staged"
    /\ Housekeep
    /\ \E o \in {"apply", "scan"} : Operate(o, "wait")
    /\ UNCHANGED <<radio, waitSet, mode, tx, queues, engine, hbIn, sincePayload, sinceConfirm,
                   sinceRadio, bounds>>

\* onTxDatagram: the first round is due.
SubmitDatagram ==
    /\ GoTo("wait")
    /\ own' = MaxAttempts + 1 /\ retry' = TRUE
    /\ UNCHANGED tx

\* startFrame: a native packet goes now, or after a back-off.  (One that is
\* too long is one the radio refuses.)
StartFrame ==
    /\ UNCHANGED <<own, retry, tries>>
    /\ \/ Operate("native", "wait") /\ UNCHANGED <<phase, deadline>>
       \/ Lbt /\ GoTo("wait") /\ phase' = "LBT_BACKOFF" /\ deadline' = 1

\* An empty frame, or one of the wrong length, is dropped.
DropFrame == GoTo("wait") /\ UNCHANGED <<own, retry, tx>>

TakeFrame ==
    /\ Free /\ MayTake
    /\ Housekeep
    /\ txQueue' = txQueue - 1
    /\ \/ DropFrame
       \/ Generic /\ SubmitDatagram
       \/ ~Generic /\ StartFrame
    /\ UNCHANGED <<radio, waitSet, mode, command, ackDue, inward, hbIn, sincePayload,
                   sinceConfirm, sinceRadio, bounds>>

StartHeartbeat ==
    /\ Quiet /\ hbIn = 0 /\ sincePayload >= Idle
    /\ Housekeep
    /\ Operate("beat", "wait")
    /\ UNCHANGED <<radio, waitSet, mode, tx, queues, engine, hbIn, sincePayload, sinceConfirm,
                   sinceRadio, bounds>>

PutOffHeartbeat ==
    /\ Quiet /\ hbIn = 0 /\ sincePayload < Idle
    /\ Housekeep
    /\ hbIn' \in Intervals
    /\ GoTo("wait")
    /\ UNCHANGED <<radio, waitSet, mode, tx, queues, engine, sincePayload, sinceConfirm,
                   sinceRadio, bounds>>

Rearm ==
    /\ Quiet /\ hbIn > 0 /\ sinceRadio >= RearmIdle
    /\ Housekeep
    /\ StartReceive
    /\ sinceRadio' = 0
    /\ GoTo("wait")
    /\ UNCHANGED <<edge, txActive, waitSet, mode, tx, queues, engine, hbIn, sincePayload,
                   sinceConfirm, bounds>>

\* Nothing to do, or nothing that may be done now.
Rest ==
    /\ \/ pc = "idle" /\ phase # "IDLE"
       \/ Free /\ ~MayTake /\ Generic /\ Working
       \/ Quiet /\ hbIn > 0 /\ sinceRadio < RearmIdle
    /\ Housekeep
    /\ GoTo("wait")
    /\ UNCHANGED <<radio, waitSet, mode, tx, queues, engine, hbIn, sincePayload, sinceConfirm,
                   sinceRadio, bounds>>

----------------------------------------------------------------------------

\* macTask after its first startReceive.
Init ==
    /\ chip = "rx" /\ inbox = "none" /\ late = FALSE /\ edge = FALSE /\ txActive = FALSE
    /\ waitSet = <<>>
    /\ pc = "wait" /\ op = "none" /\ result = FALSE /\ then = "wait"
    /\ mode \in Modes
    /\ phase = "IDLE" /\ deadline = 0 /\ tries = 0
    /\ command = "none" /\ txQueue = 0
    /\ own = 0 /\ retry = FALSE /\ ackDue = FALSE /\ inward = FALSE
    /\ hbIn \in Intervals
    /\ sincePayload = Idle /\ sinceConfirm = Never /\ sinceRadio = 0
    /\ slept = FALSE /\ link = "DOWN" /\ events = 0 /\ refusals = 0

Environment == Arrive \/ Lockout \/ QueueFrame \/ Request \/ PollStats
ServiceIdle ==
    ExecuteCommand \/ TakeFrame \/ StartHeartbeat \/ PutOffHeartbeat \/ Rearm \/ Rest
MacStep ==
    Wake \/ Key \/ Air \/ Release \/ HandleRadioEvent \/ ServiceTx \/ ServiceNative
    \/ ServiceIdle
Next == Environment \/ Dio1Isr \/ MacStep \/ Tick

Spec == Init /\ [][Next]_vars

\* The task and the interrupt run and time goes on.
Fairness == WF_vars(MacStep) /\ WF_vars(Dio1Isr) /\ WF_vars(Tick)
LiveSpec == Spec /\ Fairness

----------------------------------------------------------------------------
\* Properties

RadioOperation == {"apply", "scan", "data", "ack", "native", "beat", "beatAck", "ready"}

RadioTyped ==
    /\ chip \in {"rx", "tx", "standby", "locked"} /\ inbox \in Kinds \cup {"none"}
    /\ events \in 0 .. MaxEvents /\ refusals \in 0 .. MaxRefusals

QueuesTyped ==
    /\ waitSet \in Seq({"radio", "tx", "cmd"})
    /\ command \in {"none", "queued", "staged", "done"} /\ txQueue \in 0 .. TxQueueDepth

\* An operation is under way exactly while macTask is in one.
StepTyped ==
    /\ pc \in {"wait", "event", "service", "idle", "key", "air", "release"}
    /\ op \in RadioOperation \cup {"none"}
    /\ then \in {"wait", "service", "idle"}
    /\ op # "none" <=> pc \in {"key", "air", "release"}

Suppression == IF pc \in {"air", "release"} THEN txActive = TRUE ELSE txActive = FALSE

TxTyped ==
    /\ mode \in Modes
    /\ phase \in {"IDLE", "HB_WAIT", "LBT_BACKOFF"} /\ deadline \in 0 .. 1
    /\ tries \in 0 .. LbtTries /\ own \in 0 .. MaxAttempts + 1

FlagsTyped ==
    /\ late \in BOOLEAN /\ edge \in BOOLEAN /\ result \in BOOLEAN /\ slept \in BOOLEAN
    /\ retry \in BOOLEAN /\ ackDue \in BOOLEAN /\ inward \in BOOLEAN

ClockTyped ==
    /\ hbIn \in Nat /\ sincePayload \in 0 .. Idle /\ sinceConfirm \in 0 .. Never
    /\ sinceRadio \in 0 .. RearmIdle
    /\ link \in {"DOWN", "PROBING", "READY"}

\* Every variable has its type; the interrupt is suppressed exactly while an
\* operation is on the air.
TypeOK ==
    RadioTyped /\ QueuesTyped /\ StepTyped /\ Suppression /\ FlagsTyped /\ TxTyped /\ ClockTyped

\* A packet that ends while the interrupt is open always reaches the task:
\* whatever is transmitted, read and re-armed in between, an edge, a token
\* or the reading of it is outstanding until the chip has discarded it.
NoPacketForgotten ==
    ~txActive /\ inbox # "none" /\ ~late => edge \/ RadioEvents # {} \/ pc = "event"

\* The interrupt is for packets only: while nothing comes from outside, the
\* task is not woken by what it transmits (Radio.cpp:105, "so that the ISR
\* completely ignores any late TX_DONE edges").
OwnTransmissionsAreSilent == RadioEvents # {} => events > 0

\* The published link state follows the last confirmation, in both
\* directions and within one tick: it is never READY or PROBING for longer
\* than the peer was heard, and never anything but READY while it is.
LinkFollows ==
    /\ link = "READY" => sinceConfirm <= ReadyTtl + 1
    /\ link # "DOWN" => sinceConfirm <= ProbeTtl + 1
    /\ link # "READY" => sinceConfirm <= 1 \/ sinceConfirm > ReadyTtl

\* The receiver is never deaf for good: a chip locked up, in standby after
\* settings it refused, or with an interrupt that was suppressed, is set to
\* receive again (Mac.cpp:69-70, "defends against SX1280 deaf states").
Listening == chip = "rx" /\ (inbox = "none" \/ edge \/ RadioEvents # {})
DeafnessEnds == []<>Listening

\* Payload traffic: what the peer sends, what we send, what waits.
Traffic ==
    \/ inbox # "none" /\ IsPayload(inbox)
    \/ op \in {"data", "ack", "native", "apply", "scan"}
    \/ txQueue > 0 \/ Working

\* Without payload traffic heartbeats go on, however many heartbeats and
\* other control packets the peer sends (docs/link_state_stability_20260708.md:39,
\* "Control chatter can no longer defer the heartbeat schedule").
HeartbeatsContinue == <>[]~Traffic => []<>(op = "beat")

\* A command is executed, whatever is in flight when it comes.
CommandsComplete == command \in {"queued", "staged"} ~> command = "done"

\* The host's frames are taken: the queue does not stay full.
FramesAreTaken == []<>(txQueue < TxQueueDepth)

=============================================================================
