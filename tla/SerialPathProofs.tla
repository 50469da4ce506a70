-------------------------- MODULE SerialPathProofs --------------------------
(***************************************************************************)
(* Theorems about SerialPath for every queue depth, host, noise and        *)
(* number of power cycles: the settings and who agrees on them; the line   *)
(* to the host; the KISS codec; the types; the line from the host.         *)
(***************************************************************************)
EXTENDS SerialPath, TLAPS, WellFoundedInduction

----------------------------------------------------------------------------
\* The settings live in four places: the radio, modemConfig, NVS and the
\* host's head.  The first two part while a command waits for the MAC task,
\* the third follows, and "OK saved" is said when they are one.

Handshake ==
    /\ rxPc \in {"loop", "apply", "save", "reply", "write"}
    /\ command \in {"none", "queued", "staged", "done"}
    /\ (rxPc = "apply") <=> (command # "none")
    /\ (rxPc = "write") <=> (owner = "rx")

SetUp == chip # "torn" => chip = modemConfig
Accepted == line # SCAN /\ applied = TRUE

\* A command that was accepted and not yet written to modemConfig is the only
\* way for the radio to be ahead of it.
Ahead == IF command = "done" /\ Accepted THEN chip = NewMode(line) ELSE SetUp

Changing == rxPc \in {"apply", "save"} /\ line # SCAN
Promise == /\ SavedIsKept
           /\ Changing => promised = "none"

SettingsInv == Handshake /\ Ahead /\ Promise

LEMMA InitSettings == Init => SettingsInv
    BY DEF Init, SettingsInv, Handshake, Ahead, SetUp, Promise, SavedIsKept, Changing

\* Most steps change neither settings nor the command.
Aside == UNCHANGED <<rxPc, line, command, applied, chip, modemConfig, nvs, promised>>

LEMMA AsideKeeps == SettingsInv /\ Aside /\ UNCHANGED owner => SettingsInv'
    BY DEF SettingsInv, Handshake, Ahead, Accepted, SetUp, Promise, SavedIsKept, Changing, Aside

LEMMA BeginKeeps ==
    ASSUME SettingsInv, rxPc = "loop", UNCHANGED owner, NEW payload, BeginCommand(payload)
    PROVE  SettingsInv'
<1> DEFINE waits == line' \in {DEFAULTS, SCAN, SET_GENERIC, SET_NATIVE}
<1>1. command = "none" /\ owner # "rx" /\ SetUp
    BY DEF SettingsInv, Handshake, Ahead
<1>2. UNCHANGED <<chip, modemConfig, nvs, applied>>
    BY DEF BeginCommand
<1>3. IF waits THEN rxPc' = "apply" /\ command' = "queued" ELSE rxPc' = "reply" /\ command' = command
    BY DEF BeginCommand, AnswerAtOnce, AskMac
<1>4. promised' = promised \/ promised' = "none"
    BY DEF BeginCommand, AnswerAtOnce, AskMac
<1>5. waits /\ line' # SCAN => promised' = "none"
    BY DEF BeginCommand, AnswerAtOnce, AskMac
<1>6. Handshake'
    BY <1>1, <1>3 DEF SettingsInv, Handshake
<1>7. Ahead'
    BY <1>1, <1>2, <1>3 DEF Ahead, SetUp
<1>8. Promise'
    BY <1>2, <1>3, <1>4, <1>5 DEF SettingsInv, Promise, SavedIsKept, Changing
<1> QED
    BY <1>6, <1>7, <1>8 DEF SettingsInv

LEMMA StepSettings == SettingsInv /\ [Next]_vars => SettingsInv'
<1> SUFFICES ASSUME SettingsInv, [Next]_vars PROVE SettingsInv'
    OBVIOUS
<1>1. CASE ReadFrame
  <2>1. rxPc = "loop" /\ UNCHANGED owner
    BY <1>1 DEF ReadFrame, up
  <2>2. CASE Aside
    BY <2>1, <2>2, AsideKeeps
  <2>3. CASE \E payload : BeginCommand(payload)
    BY <2>1, <2>3, BeginKeeps
  <2>4. Aside \/ \E payload : BeginCommand(payload)
    BY <1>1 DEF ReadFrame, Aside, task, mac
  <2> QED
    BY <2>2, <2>3, <2>4
<1>2. CASE Resume
  <2>1. command = "done" /\ command' = "none" /\ rxPc = "apply" /\ owner' = owner /\ line' = line
        /\ UNCHANGED <<applied, chip, nvs, promised>>
    BY <1>2 DEF Resume, EndCommand, up
  <2>2. CASE applied = TRUE
    <3>1. modemConfig' = NewMode(line) /\ rxPc' = "save" /\ line # SCAN
        BY <1>2, <2>2 DEF Resume
    <3> QED
        BY <2>1, <2>2, <3>1
        DEF SettingsInv, Handshake, Ahead, Accepted, SetUp, Promise, SavedIsKept, Changing
  <2>3. CASE applied # TRUE
    <3>1. modemConfig' = modemConfig /\ rxPc' = "reply"
        BY <1>2, <2>3 DEF Resume, EndCommand
    <3> QED
        BY <2>1, <2>3, <3>1
        DEF SettingsInv, Handshake, Ahead, Accepted, SetUp, Promise, SavedIsKept, Changing
  <2> QED
    BY <2>2, <2>3
<1>3. CASE SaveSet
    BY <1>3 DEF SaveSet, EndCommand, up, mac, SettingsInv, Handshake, Ahead, SetUp, Promise, SavedIsKept,
        Changing
<1>4. CASE SaveDefaults
    BY <1>4 DEF SaveDefaults, EndCommand, up, mac, SettingsInv, Handshake, Ahead, SetUp, Promise,
        SavedIsKept, Changing, DEFAULTS, SCAN
<1>5. CASE StageCommand
    BY <1>5 DEF StageCommand, up, task, settings, SettingsInv, Handshake, Ahead, Accepted, SetUp,
        Promise, SavedIsKept, Changing
<1>6. CASE ApplyConfig
    BY <1>6 DEF ApplyConfig, up, task, settings, SettingsInv, Handshake, Ahead, Accepted, SetUp,
        Promise, SavedIsKept, Changing
<1>7. CASE ScanBand
    BY <1>7 DEF ScanBand, up, task, settings, SettingsInv, Handshake, Ahead, Accepted, SetUp,
        Promise, SavedIsKept, Changing
<1>8. CASE LockRx \/ WriteReply
    BY <1>8 DEF LockRx, WriteReply, Piece, mac, settings, SettingsInv, Handshake, Ahead, Accepted,
        SetUp, Promise, SavedIsKept, Changing
<1>9. CASE LockTx \/ WriteFrame
    BY <1>9 DEF LockTx, WriteFrame, Piece, task, mac, settings, SettingsInv, Handshake, Ahead, Accepted,
        SetUp, Promise, SavedIsKept, Changing
<1>10. CASE HostStep
    BY <1>10, AsideKeeps DEF HostStep, SendData, TearData, SendCommand, SendNoise, HostRead, Write,
        Aside, task, mac, settings, up
<1>11. CASE QueueFrame \/ TakeOutgoing \/ TakeFrame \/ Deliver
    BY <1>11, AsideKeeps DEF QueueFrame, TakeOutgoing, TakeFrame, Deliver, Aside, task, mac, settings, up
<1>12. CASE Reboot
    BY <1>12 DEF Reboot, Boot, SettingsInv, Handshake, Ahead, SetUp, Promise, SavedIsKept, Changing
<1>13. CASE ResumeScan
    BY <1>13 DEF ResumeScan, EndCommand, up, SettingsInv, Handshake, Ahead, Accepted, SetUp, Promise,
        SavedIsKept, Changing
<1>14. CASE UNCHANGED vars
    BY <1>14, AsideKeeps DEF vars, Aside, task, mac, settings, up
<1> QED
    BY <1>1, <1>2, <1>3, <1>4, <1>5, <1>6, <1>7, <1>8, <1>9, <1>10, <1>11, <1>12, <1>13,
       <1>14
    DEF Next, RxTaskStep, TxTaskStep, MacStep, MacWork

\* Between commands the radio is set up as the serial tasks wrap, or torn.
THEOREM RadioAndTasksAgree == Spec => []RadioAgrees
<1>1. SettingsInv => RadioAgrees
    BY DEF SettingsInv, Handshake, Ahead, SetUp, RadioAgrees
<1> QED
    BY <1>1, InitSettings, StepSettings, PTL DEF Spec

\* Settings answered "OK saved" are stored and in use until the next change,
\* whatever power cycles come between.
THEOREM PromisesAreKept == Spec => []SavedIsKept
<1>1. SettingsInv => SavedIsKept
    BY DEF SettingsInv, Promise
<1> QED
    BY <1>1, InitSettings, StepSettings, PTL DEF Spec

----------------------------------------------------------------------------
\* The line to the host.  A view is where the host stands: the data frames and
\* answers it has read, the frame it is in, how many pieces of it, and the mode
\* it knows.  Along the pieces in usbTx its view goes, frame by whole frame,
\* from what it has read to what the two tasks have written.

LearnedFrom(mode, frame) ==
    IF frame.type # "reply" \/ frame.line \notin {GET, DEFAULTS, SET_GENERIC, SET_NATIVE}
    THEN mode
    ELSE CASE ~frame.ok                           -> "unknown"
           [] frame.ok /\ frame.line = GET        -> frame.mode
           [] frame.ok /\ frame.line # GET        -> NewMode(frame.line)

IsView(v) ==
    /\ v.data \in Nat /\ v.answered \in Nat /\ v.part \in 0 .. Parts - 1
    /\ v.part = 0 <=> v.frame = NoFrame

Completes(v, frame, w) ==
    /\ w.frame = NoFrame /\ w.part = 0 /\ w.mode = LearnedFrom(v.mode, frame)
    /\ IF frame.type = "reply"
       THEN frame.number = v.answered + 1 /\ w.answered = v.answered + 1 /\ w.data = v.data
       ELSE frame.number = v.data + 1 /\ w.data = v.data + 1 /\ w.answered = v.answered

Continues(v, piece, w) ==
    /\ w.frame = piece.frame /\ w.part = piece.part /\ w.mode = v.mode
    /\ w.data = v.data /\ w.answered = v.answered

Reads(v, piece, w) ==
    /\ piece.part = v.part + 1 /\ piece.frame # NoFrame
    /\ v.part # 0 => piece.frame = v.frame
    /\ IF piece.part = Parts THEN Completes(v, piece.frame, w) ELSE Continues(v, piece, w)

\* Without an answer the host learns nothing.
Later(v, w) ==
    /\ v.data <= w.data /\ v.answered <= w.answered
    /\ v.answered = w.answered => v.mode = w.mode

Views(s) ==
    /\ \A i \in 0 .. Len(usbTx) : IsView(s[i])
    /\ \A i \in 1 .. Len(usbTx) : Reads(s[i - 1], usbTx[i], s[i])
    /\ \A i, j \in 0 .. Len(usbTx) : i <= j => Later(s[i], s[j])

HostAt(v) ==
    /\ v.data = Len(heard) /\ v.answered = Len(answers)
    /\ v.frame = hearing /\ v.mode = hostMode

\* What the command that is being handled will make of what the host knows.
Right(mode) == mode \in {"unknown", modemConfig}
Informed(mode) ==
    /\ rxPc = "loop" => Right(mode)
    /\ rxPc = "apply" => /\ Right(mode)
                         /\ line \in {DEFAULTS, SCAN, SET_GENERIC, SET_NATIVE}
    /\ rxPc = "save" => /\ modemConfig = NewMode(line)
                        /\ line \in {DEFAULTS, SET_GENERIC, SET_NATIVE}
    /\ rxPc \in {"reply", "write"} => Right(LearnedFrom(mode, reply))

Unwritten == IF outgoing = NoFrame THEN 0 ELSE 1
Unanswered == IF rxPc = "loop" THEN 0 ELSE 1

TasksAt(v) ==
    /\ v.part = IF owner = "none" THEN 0 ELSE part
    /\ v.part # 0 => v.frame = IF owner = "rx" THEN reply ELSE outgoing
    /\ v.data + Unwritten + Len(rxQueue) = arrived
    /\ v.answered + Unanswered = asked
    /\ Informed(v.mode)

Line(s) == Views(s) /\ HostAt(s[0]) /\ TasksAt(s[Len(usbTx)])

IsSeq(q) == \E S : q \in Seq(S)

Upwards ==
    /\ IsSeq(usbTx) /\ rxQueue \in Seq(Nat) /\ arrived \in Nat /\ asked \in Nat
    /\ owner \in {"none", "rx", "tx"} /\ part \in 0 .. Parts
    /\ owner # "none" => part < Parts
    /\ \A i \in 1 .. Len(rxQueue) : rxQueue[i] = arrived - Len(rxQueue) + i
    /\ outgoing # NoFrame =>
           outgoing.type = "data" /\ outgoing.number = arrived - Len(rxQueue)
    /\ owner = "tx" => outgoing # NoFrame
    /\ rxPc \in {"reply", "write"} => reply.type = "reply" /\ reply.number = asked

Numbered(q) == IsSeq(q) /\ \A i \in 1 .. Len(q) : q[i].number = i

LineInv == Upwards /\ Numbered(heard) /\ Numbered(answers) /\ \E s : Line(s)

LEMMA SeqFacts ==
    ASSUME NEW q, IsSeq(q)
    PROVE  /\ Len(q) \in Nat
           /\ \A e : /\ IsSeq(Append(q, e)) /\ Len(Append(q, e)) = Len(q) + 1
                     /\ \A i \in 1 .. Len(q) : Append(q, e)[i] = q[i]
                     /\ Append(q, e)[Len(q) + 1] = e
           /\ q # <<>> => /\ IsSeq(Tail(q)) /\ Len(q) >= 1 /\ Len(Tail(q)) = Len(q) - 1
                          /\ \A i \in 1 .. Len(q) - 1 : Tail(q)[i] = q[i + 1]
                          /\ Head(q) = q[1]
<1>1. PICK S : q \in Seq(S)
    BY DEF IsSeq
<1>2. Len(q) \in Nat
    BY <1>1
<1>3. ASSUME NEW e
      PROVE  /\ IsSeq(Append(q, e)) /\ Len(Append(q, e)) = Len(q) + 1
             /\ \A i \in 1 .. Len(q) : Append(q, e)[i] = q[i]
             /\ Append(q, e)[Len(q) + 1] = e
  <2>1. q \in Seq(S \cup {e})
      BY <1>1
  <2>2. Append(q, e) \in Seq(S \cup {e})
      BY <2>1
  <2> QED
      BY <2>1, <2>2 DEF IsSeq
<1>4. ASSUME q # <<>>
      PROVE  /\ IsSeq(Tail(q)) /\ Len(q) >= 1 /\ Len(Tail(q)) = Len(q) - 1
             /\ \A i \in 1 .. Len(q) - 1 : Tail(q)[i] = q[i + 1]
             /\ Head(q) = q[1]
  <2>1. Tail(q) \in Seq(S) /\ Len(q) >= 1
      BY <1>1, <1>4
  <2> QED
      BY <1>1, <1>4, <2>1 DEF IsSeq
<1> QED
    BY <1>2, <1>3, <1>4

LEMMA ReadsIsLater ==
    ASSUME NEW v, NEW w, NEW piece, IsView(v), Reads(v, piece, w)
    PROVE  IsView(w) /\ Later(v, w)
<1>1. CASE piece.part = Parts
  <2>1. Completes(v, piece.frame, w)
      BY <1>1 DEF Reads
  <2>2. IsView(w)
      BY <2>1, SerialAssumption DEF IsView, Completes
  <2>3. CASE piece.frame.type = "reply"
    <3>1. w.answered = v.answered + 1 /\ w.data = v.data
        BY <2>1, <2>3 DEF Completes
    <3>2. v.data <= w.data /\ v.answered <= w.answered /\ v.answered # w.answered
        BY <3>1 DEF IsView
    <3> QED
        BY <2>2, <3>2 DEF Later
  <2>4. CASE piece.frame.type # "reply"
    <3>1. w.answered = v.answered /\ w.data = v.data + 1
        BY <2>1, <2>4 DEF Completes
    <3>2. w.mode = v.mode
        BY <2>1, <2>4 DEF Completes, LearnedFrom
    <3>3. v.data <= w.data /\ v.answered <= w.answered
        BY <3>1 DEF IsView
    <3> QED
        BY <2>2, <3>2, <3>3 DEF Later
  <2> QED
      BY <2>3, <2>4
<1>2. CASE piece.part # Parts
    BY <1>2, SerialAssumption DEF IsView, Reads, Continues, Later
<1> QED
    BY <1>1, <1>2

LEMMA LaterIsTransitive ==
    ASSUME NEW u, NEW v, NEW w, IsView(u), IsView(v), IsView(w), Later(u, v), Later(v, w)
    PROVE  Later(u, w)
    BY DEF Later, IsView

\* One more piece in usbTx: one more view.
LEMMA PieceAppended ==
    ASSUME IsSeq(usbTx), NEW s, Views(s), NEW piece, NEW w,
           usbTx' = Append(usbTx, piece), Reads(s[Len(usbTx)], piece, w)
    PROVE  \E t : Views(t)' /\ t[0] = s[0] /\ t[Len(usbTx')] = w
<1> DEFINE n == Len(usbTx)
<1>0. PICK t : t = [i \in 0 .. n + 1 |-> IF i <= n THEN s[i] ELSE w]
    OBVIOUS
<1>1. /\ n \in Nat /\ Len(usbTx') = n + 1
      /\ \A i \in 1 .. n : usbTx'[i] = usbTx[i]
      /\ usbTx'[n + 1] = piece
    BY SeqFacts
<1>2. IsView(s[n])
    BY <1>1 DEF Views
<1>3. IsView(w) /\ Later(s[n], w)
    BY <1>2, ReadsIsLater
<1>4. \A i \in 0 .. n : t[i] = s[i]
    BY <1>0, <1>1
<1>5. t[n + 1] = w /\ n \in 0 .. n
    BY <1>0, <1>1
<1>6. \A i \in 0 .. n + 1 : IsView(t[i])
  <2> TAKE i \in 0 .. n + 1
  <2>1. i \in 0 .. n \/ i = n + 1
      BY <1>1
  <2> QED
      BY <1>3, <1>4, <1>5, <2>1 DEF Views
<1>7. \A i \in 1 .. n + 1 : Reads(t[i - 1], usbTx'[i], t[i])
  <2> TAKE i \in 1 .. n + 1
  <2>1. CASE i \in 1 .. n
    <3>1. i - 1 \in 0 .. n /\ i \in 0 .. n
        BY <1>1, <2>1
    <3> QED
        BY <1>1, <1>4, <2>1, <3>1 DEF Views
  <2>2. CASE i = n + 1
    <3>1. i - 1 = n
        BY <1>1, <2>2
    <3> QED
        BY <1>1, <1>4, <1>5, <2>2, <3>1
  <2> QED
      BY <1>1, <2>1, <2>2
<1>8. \A i, j \in 0 .. n + 1 : i <= j => Later(t[i], t[j])
  <2> SUFFICES ASSUME NEW i \in 0 .. n + 1, NEW j \in 0 .. n + 1, i <= j PROVE Later(t[i], t[j])
      OBVIOUS
  <2>1. CASE i \in 0 .. n /\ j \in 0 .. n
      BY <1>4, <2>1 DEF Views
  <2>2. CASE i \in 0 .. n /\ j = n + 1
    <3>1. IsView(s[i]) /\ i <= n
        BY <1>1, <2>2 DEF Views
    <3>2. Later(s[i], s[n])
        BY <1>5, <2>2, <3>1 DEF Views
    <3> QED
        BY <1>2, <1>3, <1>4, <1>5, <2>2, <3>1, <3>2, LaterIsTransitive
  <2>3. CASE i = n + 1 /\ j = n + 1
      BY <1>3, <1>5, <2>3 DEF Later, IsView
  <2>4. (i \in 0 .. n \/ i = n + 1) /\ (j \in 0 .. n \/ j = n + 1) /\ ~(i = n + 1 /\ j \in 0 .. n)
      BY <1>1
  <2> QED
      BY <2>1, <2>2, <2>3, <2>4
<1>9. Views(t)'
    BY <1>1, <1>6, <1>7, <1>8 DEF Views
<1>10. t[0] = s[0] /\ t[Len(usbTx')] = w
    BY <1>1, <1>4, <1>5
<1> QED
    BY <1>9, <1>10

\* One piece less: the first view is gone.
LEMMA PieceRead ==
    ASSUME IsSeq(usbTx), usbTx # <<>>, NEW s, Views(s), usbTx' = Tail(usbTx)
    PROVE  \E t : Views(t)' /\ t[0] = s[1] /\ t[Len(usbTx')] = s[Len(usbTx)]
<1> DEFINE n == Len(usbTx)
<1>0. PICK t : t = [i \in 0 .. n - 1 |-> s[i + 1]]
    OBVIOUS
<1>1. /\ n \in Nat /\ n >= 1 /\ Len(usbTx') = n - 1
      /\ \A i \in 1 .. n - 1 : usbTx'[i] = usbTx[i + 1]
    BY SeqFacts
<1>2. \A i \in 0 .. n - 1 : t[i] = s[i + 1] /\ i + 1 \in 0 .. n /\ i + 1 \in 1 .. n
    BY <1>0, <1>1
<1>3. \A i \in 0 .. n - 1 : IsView(t[i])
    BY <1>2 DEF Views
<1>4. \A i \in 1 .. n - 1 : Reads(t[i - 1], usbTx'[i], t[i])
  <2> TAKE i \in 1 .. n - 1
  <2>1. i - 1 \in 0 .. n - 1 /\ i \in 0 .. n - 1 /\ (i - 1) + 1 = i /\ (i + 1) - 1 = i
      BY <1>1
  <2>2. t[i - 1] = s[i] /\ t[i] = s[i + 1] /\ i + 1 \in 1 .. n
      BY <1>2, <2>1
  <2>3. Reads(s[(i + 1) - 1], usbTx[i + 1], s[i + 1])
      BY <2>2 DEF Views
  <2> QED
      BY <1>1, <2>1, <2>2, <2>3
<1>5. \A i, j \in 0 .. n - 1 : i <= j => Later(t[i], t[j])
  <2> SUFFICES ASSUME NEW i \in 0 .. n - 1, NEW j \in 0 .. n - 1, i <= j PROVE Later(t[i], t[j])
      OBVIOUS
  <2>1. i + 1 <= j + 1 /\ i + 1 \in 0 .. n /\ j + 1 \in 0 .. n
      BY <1>1
  <2>2. Later(s[i + 1], s[j + 1])
      BY <2>1 DEF Views
  <2> QED
      BY <1>2, <2>2
<1>6. Views(t)'
    BY <1>1, <1>3, <1>4, <1>5 DEF Views
<1>7. 0 \in 0 .. n - 1 /\ n - 1 \in 0 .. n - 1 /\ 0 + 1 = 1 /\ (n - 1) + 1 = n
    BY <1>1
<1>8. t[0] = s[1] /\ t[Len(usbTx')] = s[n]
    BY <1>1, <1>2, <1>7
<1> QED
    BY <1>6, <1>8

\* The host reads nothing and nothing is written.
Offline == UNCHANGED <<usbTx, heard, answers, hearing, hostMode>>

LEMMA OfflineKeeps ==
    ASSUME LineInv, Offline, Upwards', \A v : IsView(v) /\ TasksAt(v) => TasksAt(v)'
    PROVE  LineInv'
<1>1. PICK s : Line(s)
    BY DEF LineInv
<1>2. Views(s)'
    BY <1>1 DEF Line, Views, Offline
<1>3. HostAt(s[0])'
    BY <1>1 DEF Line, HostAt, Offline
<1>4. Len(usbTx) \in 0 .. Len(usbTx)
    BY SeqFacts DEF LineInv, Upwards
<1>5. IsView(s[Len(usbTx)])
    BY <1>1, <1>4 DEF Line, Views
<1>6. TasksAt(s[Len(usbTx)])'
    BY <1>1, <1>5 DEF Line, Offline
<1>7. Line(s)'
    BY <1>2, <1>3, <1>6 DEF Line, Offline
<1>8. Numbered(heard)' /\ Numbered(answers)'
    BY DEF LineInv, Offline, Numbered
<1> QED
    BY <1>7, <1>8 DEF LineInv

LEMMA StillKeeps ==
    ASSUME LineInv, Offline,
           UNCHANGED <<owner, part, outgoing, rxQueue, arrived, rxPc, asked, reply, line, modemConfig>>
    PROVE  LineInv'
<1>1. Upwards'
    BY DEF LineInv, Upwards, Offline
<1>2. ASSUME NEW v, TasksAt(v) PROVE TasksAt(v)'
    BY <1>2 DEF TasksAt, Unwritten, Unanswered, Informed, Right
<1> QED
    BY <1>1, <1>2, OfflineKeeps

LEMMA DeliverKeeps == ASSUME LineInv, Deliver PROVE LineInv'
<1> USE DEF down, task, mac, settings, host
<1>1. Upwards
    BY DEF LineInv
<1>2. Offline /\ UNCHANGED <<owner, part, outgoing, rxPc, asked, reply, line, modemConfig>>
    BY DEF Deliver, Offline
<1>3. arrived' = arrived + 1 /\ rxQueue' = Append(rxQueue, arrived + 1)
    BY DEF Deliver
<1>4. /\ rxQueue' \in Seq(Nat) /\ Len(rxQueue') = Len(rxQueue) + 1 /\ Len(rxQueue) \in Nat
      /\ arrived' \in Nat /\ arrived' - Len(rxQueue') = arrived - Len(rxQueue)
    BY <1>1, <1>3 DEF Upwards
<1>5. \A i \in 1 .. Len(rxQueue') : rxQueue'[i] = arrived' - Len(rxQueue') + i
  <2> TAKE i \in 1 .. Len(rxQueue')
  <2>1. CASE i \in 1 .. Len(rxQueue)
    <3>1. rxQueue'[i] = rxQueue[i]
        BY <1>1, <1>3, <2>1, SeqFacts DEF Upwards, IsSeq
    <3>2. rxQueue[i] = arrived - Len(rxQueue) + i
        BY <1>1, <2>1 DEF Upwards
    <3> QED
        BY <1>4, <3>1, <3>2
  <2>2. CASE i = Len(rxQueue) + 1
    <3>1. rxQueue'[i] = arrived + 1
        BY <1>1, <1>3, <2>2 DEF Upwards
    <3>2. arrived - Len(rxQueue) + i = arrived + 1
        BY <1>1, <1>4, <2>2 DEF Upwards
    <3> QED
        BY <1>4, <3>1, <3>2
  <2> QED
      BY <1>4, <2>1, <2>2
<1>6. Upwards'
    BY <1>1, <1>2, <1>4, <1>5 DEF Upwards, Offline
<1>7. ASSUME NEW v, IsView(v), TasksAt(v) PROVE TasksAt(v)'
  <2>1. v.data + Unwritten + Len(rxQueue) = arrived /\ v.data \in Nat /\ Unwritten \in Nat
      BY <1>7 DEF TasksAt, Unwritten, IsView
  <2>2. Unwritten' = Unwritten
      BY <1>2 DEF Unwritten
  <2>3. v.data + Unwritten + (Len(rxQueue) + 1) = arrived + 1
    <3>1. PICK a \in Nat, b \in Nat, c \in Nat :
             a = v.data /\ b = Unwritten /\ c = Len(rxQueue)
        BY <1>4, <2>1
    <3>2. a + b + (c + 1) = (a + b + c) + 1
        OBVIOUS
    <3> QED
        BY <2>1, <3>1, <3>2
  <2>4. v.data + Unwritten + Len(rxQueue') = arrived'
      BY <1>3, <1>4, <2>3
  <2> QED
      BY <1>2, <1>7, <2>2, <2>4 DEF TasksAt, Unanswered, Informed, Right
<1> QED
    BY <1>2, <1>6, <1>7, OfflineKeeps

LEMMA TakeOutgoingKeeps == ASSUME LineInv, TakeOutgoing PROVE LineInv'
<1> USE DEF down, task, mac, settings, host
<1>1. Upwards /\ Len(rxQueue) \in Nat
    BY DEF LineInv, Upwards
<1>2. Offline /\ UNCHANGED <<owner, part, arrived, rxPc, asked, reply, line, modemConfig>>
    BY DEF TakeOutgoing, Offline
<1>3. outgoing = NoFrame /\ rxQueue # <<>> /\ rxQueue' = Tail(rxQueue)
    BY DEF TakeOutgoing
<1>4. /\ outgoing'.type = "data" /\ outgoing'.number = rxQueue[1]
      /\ outgoing' # NoFrame
  <2>1. outgoing'.type = "data" /\ outgoing'.number = Head(rxQueue) /\ NoFrame.type = "none"
      BY DEF TakeOutgoing, DataFrame, NoFrame
  <2>2. Head(rxQueue) = rxQueue[1]
      BY <1>1, <1>3, SeqFacts DEF Upwards, IsSeq
  <2> QED
      BY <2>1, <2>2
<1>5. rxQueue' \in Seq(Nat) /\ Len(rxQueue') = Len(rxQueue) - 1 /\ Len(rxQueue) >= 1
    BY <1>1, <1>3 DEF Upwards
<1>6. rxQueue[1] = arrived - Len(rxQueue) + 1
    BY <1>1, <1>5 DEF Upwards
<1>7. outgoing'.number = arrived - Len(rxQueue')
    BY <1>1, <1>4, <1>5, <1>6 DEF Upwards
<1>8. \A i \in 1 .. Len(rxQueue') : rxQueue'[i] = arrived - Len(rxQueue') + i
  <2> TAKE i \in 1 .. Len(rxQueue')
  <2>1. rxQueue'[i] = rxQueue[i + 1] /\ i + 1 \in 1 .. Len(rxQueue)
      BY <1>1, <1>3, <1>5 DEF Upwards
  <2>2. rxQueue[i + 1] = arrived - Len(rxQueue) + (i + 1)
      BY <1>1, <2>1 DEF Upwards
  <2>3. arrived - Len(rxQueue) + (i + 1) = arrived - Len(rxQueue') + i
      BY <1>1, <1>5 DEF Upwards
  <2> QED
      BY <2>1, <2>2, <2>3
<1>9. owner # "tx"
    BY <1>1, <1>3 DEF Upwards
<1>10. Upwards'
    BY <1>1, <1>2, <1>4, <1>5, <1>7, <1>8, <1>9 DEF Upwards, Offline
<1>11. ASSUME NEW v, IsView(v), TasksAt(v) PROVE TasksAt(v)'
  <2>1. Unwritten = 0 /\ Unwritten' = 1
      BY <1>3, <1>4 DEF Unwritten
  <2>2. v.data + 0 + Len(rxQueue) = arrived /\ v.data \in Nat
      BY <1>11, <2>1 DEF TasksAt, IsView
  <2>3. v.data + 1 + Len(rxQueue') = arrived'
      BY <1>1, <1>2, <1>5, <2>2 DEF Upwards
  <2>4. v.part' = v.part /\ (v.part # 0 => owner = "rx")
      BY <1>1, <1>9, <1>11 DEF TasksAt, Upwards
  <2> QED
      BY <1>2, <1>11, <2>1, <2>3, <2>4 DEF TasksAt, Unanswered, Informed, Right
<1> QED
    BY <1>2, <1>10, <1>11, OfflineKeeps

LEMMA LockKeeps == ASSUME SettingsInv, LineInv, LockTx \/ LockRx PROVE LineInv'
<1> USE DEF down, task, mac, settings, host
<1>1. Upwards
    BY DEF LineInv
<1>2. /\ Offline /\ UNCHANGED <<outgoing, rxQueue, arrived, asked, reply, line, modemConfig>>
      /\ owner = "none" /\ part' = 0
    BY DEF LockTx, LockRx, Offline
<1>3. \/ owner' = "tx" /\ outgoing # NoFrame /\ rxPc' = rxPc
      \/ owner' = "rx" /\ rxPc = "reply" /\ rxPc' = "write"
    BY DEF LockTx, LockRx
<1>4. Upwards'
    BY <1>1, <1>2, <1>3, SerialAssumption DEF Upwards, Offline
<1>5. ASSUME NEW v, IsView(v), TasksAt(v) PROVE TasksAt(v)'
  <2>1. v.part = 0 /\ Unwritten' = Unwritten /\ Unanswered' = Unanswered
      BY <1>2, <1>3, <1>5 DEF TasksAt, Unwritten, Unanswered
  <2>2. Informed(v.mode)'
      BY <1>2, <1>3, <1>5 DEF TasksAt, Informed, Right
  <2> QED
      BY <1>2, <1>3, <1>5, <2>1, <2>2 DEF TasksAt
<1> QED
    BY <1>2, <1>4, <1>5, OfflineKeeps

LEMMA AppendKeeps ==
    ASSUME LineInv, NEW s, Line(s), NEW piece, NEW w,
           usbTx' = Append(usbTx, piece), Reads(s[Len(usbTx)], piece, w),
           TasksAt(w)', Upwards', UNCHANGED <<heard, answers, hearing, hostMode>>
    PROVE  LineInv'
<1>1. IsSeq(usbTx) /\ Views(s)
    BY DEF LineInv, Upwards, Line
<1>2. PICK t : Views(t)' /\ t[0] = s[0] /\ t[Len(usbTx')] = w
    BY <1>1, PieceAppended
<1>3. HostAt(t[0])'
    BY <1>2 DEF Line, HostAt
<1>4. Line(t)'
    BY <1>2, <1>3 DEF Line
<1>5. Numbered(heard)' /\ Numbered(answers)'
    BY DEF LineInv, Numbered
<1> QED
    BY <1>4, <1>5 DEF LineInv

\* A view on the way of a frame that is not done after this piece.
LEMMA MidFrame ==
    ASSUME NEW v, IsView(v), NEW frame, frame # NoFrame, NEW p \in Nat, p + 1 # Parts,
           v.part = p, v.part # 0 => v.frame = frame
    PROVE  Reads(v, [frame |-> frame, part |-> p + 1],
                 [data |-> v.data, answered |-> v.answered, frame |-> frame, part |-> p + 1,
                  mode |-> v.mode])
    BY DEF Reads, Continues

LEMMA WriteFrameKeeps == ASSUME SettingsInv, LineInv, WriteFrame PROVE LineInv'
<1> USE DEF down, task, mac, settings, host
<1>1. Upwards /\ Len(rxQueue) \in Nat
    BY DEF LineInv, Upwards
<1>2. /\ UNCHANGED <<heard, answers, hearing, hostMode>>
      /\ UNCHANGED <<rxQueue, arrived, rxPc, asked, reply, line, modemConfig>>
      /\ owner = "tx" /\ part' = part + 1
      /\ usbTx' = Append(usbTx, [frame |-> outgoing, part |-> part + 1])
    BY DEF WriteFrame, Piece
<1>3. PICK s : Line(s)
    BY DEF LineInv
<1> DEFINE v == s[Len(usbTx)]
<1>4. IsView(v) /\ TasksAt(v)
    BY <1>1, <1>3, SeqFacts DEF Line, Views, Upwards
<1>5. /\ v.part = part /\ (v.part # 0 => v.frame = outgoing) /\ outgoing # NoFrame
      /\ outgoing.type = "data" /\ outgoing.number = arrived - Len(rxQueue)
      /\ part \in Nat /\ part < Parts
    BY <1>1, <1>2, <1>4 DEF TasksAt, Upwards
<1>6. v.data + 1 + Len(rxQueue) = arrived /\ v.data \in Nat
    BY <1>4, <1>5 DEF TasksAt, Unwritten, IsView
<1>7. outgoing.number = v.data + 1
    BY <1>1, <1>5, <1>6
<1>8. IsSeq(usbTx')
    BY <1>1, <1>2, SeqFacts DEF Upwards
<1>9. Unanswered' = Unanswered
    BY <1>2 DEF Unanswered
<1>10. CASE part + 1 = Parts
  <2> DEFINE w == [data |-> v.data + 1, answered |-> v.answered, frame |-> NoFrame,
                   part |-> 0, mode |-> v.mode]
  <2>1. Reads(v, [frame |-> outgoing, part |-> part + 1], w)
      BY <1>5, <1>7, <1>10 DEF Reads, Completes, LearnedFrom
  <2>2. owner' = "none" /\ outgoing' = NoFrame
      BY <1>2, <1>10 DEF WriteFrame, Piece
  <2>3. Upwards'
      BY <1>1, <1>2, <1>8, <1>10, <2>2, SerialAssumption DEF Upwards
  <2>4. w.data + 0 + Len(rxQueue) = arrived
      BY <1>1, <1>6
  <2>5. PICK u : u = w
      OBVIOUS
  <2>6. TasksAt(u)'
      BY <1>2, <1>4, <1>9, <2>2, <2>4, <2>5 DEF TasksAt, Unwritten, Informed, Right
  <2> QED
      BY <1>2, <1>3, <2>1, <2>3, <2>5, <2>6, AppendKeeps
<1>11. CASE part + 1 # Parts
  <2> DEFINE w == [data |-> v.data, answered |-> v.answered, frame |-> outgoing,
                   part |-> part + 1, mode |-> v.mode]
  <2>1. Reads(v, [frame |-> outgoing, part |-> part + 1], w)
      BY <1>4, <1>5, <1>11, MidFrame
  <2>2. owner' = "tx" /\ outgoing' = outgoing
      BY <1>2, <1>11 DEF WriteFrame, Piece
  <2>3. part + 1 \in 0 .. Parts /\ part + 1 < Parts
      BY <1>5, <1>11, SerialAssumption
  <2>4. Upwards'
      BY <1>1, <1>2, <1>8, <2>2, <2>3 DEF Upwards
  <2>5. PICK u : u = w
      OBVIOUS
  <2>6. TasksAt(u)'
      BY <1>2, <1>4, <1>9, <2>2, <2>5 DEF TasksAt, Unwritten, Informed, Right
  <2> QED
      BY <1>2, <1>3, <2>1, <2>4, <2>5, <2>6, AppendKeeps
<1> QED
    BY <1>10, <1>11

LEMMA WriteReplyKeeps == ASSUME SettingsInv, LineInv, WriteReply PROVE LineInv'
<1> USE DEF down, task, mac, settings, host
<1>1. Upwards /\ rxPc = "write"
    BY DEF LineInv, SettingsInv, Handshake, WriteReply
<1>2. /\ UNCHANGED <<heard, answers, hearing, hostMode>>
      /\ UNCHANGED <<rxQueue, arrived, outgoing, asked, reply, line, modemConfig>>
      /\ owner = "rx" /\ part' = part + 1
      /\ usbTx' = Append(usbTx, [frame |-> reply, part |-> part + 1])
    BY DEF WriteReply, Piece
<1>3. PICK s : Line(s)
    BY DEF LineInv
<1> DEFINE v == s[Len(usbTx)]
<1>4. IsView(v) /\ TasksAt(v)
    BY <1>1, <1>3, SeqFacts DEF Line, Views, Upwards
<1>5. reply.type = "reply" /\ reply.number = asked /\ reply # NoFrame
    BY <1>1 DEF Upwards, NoFrame
<1>6. /\ v.part = part /\ (v.part # 0 => v.frame = reply)
      /\ part \in Nat /\ part < Parts
    BY <1>1, <1>2, <1>4 DEF TasksAt, Upwards
<1>7. v.answered + 1 = asked /\ v.answered \in Nat /\ Right(LearnedFrom(v.mode, reply))
    BY <1>1, <1>4 DEF TasksAt, Unanswered, IsView, Informed
<1>8. IsSeq(usbTx')
    BY <1>1, <1>2, SeqFacts DEF Upwards
<1>9. Unwritten' = Unwritten
    BY <1>2 DEF Unwritten
<1>10. CASE part + 1 = Parts
  <2> DEFINE w == [data |-> v.data, answered |-> v.answered + 1, frame |-> NoFrame,
                   part |-> 0, mode |-> LearnedFrom(v.mode, reply)]
  <2>1. Reads(v, [frame |-> reply, part |-> part + 1], w)
      BY <1>5, <1>6, <1>7, <1>10 DEF Reads, Completes
  <2>2. owner' = "none" /\ rxPc' = "loop"
      BY <1>2, <1>10 DEF WriteReply, Piece
  <2>3. Upwards'
      BY <1>1, <1>2, <1>8, <1>10, <2>2, SerialAssumption DEF Upwards
  <2>4. w.answered + 0 = asked
      BY <1>7
  <2>5. PICK u : u = w
      OBVIOUS
  <2>6. TasksAt(u)'
      BY <1>2, <1>4, <1>7, <1>9, <2>2, <2>4, <2>5 DEF TasksAt, Unanswered, Informed, Right
  <2> QED
      BY <1>2, <1>3, <2>1, <2>3, <2>5, <2>6, AppendKeeps
<1>11. CASE part + 1 # Parts
  <2> DEFINE w == [data |-> v.data, answered |-> v.answered, frame |-> reply,
                   part |-> part + 1, mode |-> v.mode]
  <2>1. Reads(v, [frame |-> reply, part |-> part + 1], w)
      BY <1>4, <1>5, <1>6, <1>11, MidFrame
  <2>2. owner' = "rx" /\ rxPc' = "write"
      BY <1>2, <1>11 DEF WriteReply, Piece
  <2>3. part + 1 \in 0 .. Parts /\ part + 1 < Parts
      BY <1>6, <1>11, SerialAssumption
  <2>4. Upwards'
      BY <1>1, <1>2, <1>8, <2>2, <2>3 DEF Upwards
  <2>5. PICK u : u = w
      OBVIOUS
  <2>6. TasksAt(u)'
      BY <1>1, <1>2, <1>4, <1>9, <2>2, <2>5 DEF TasksAt, Unanswered, Informed, Right
  <2> QED
      BY <1>2, <1>3, <2>1, <2>4, <2>5, <2>6, AppendKeeps
<1> QED
    BY <1>10, <1>11

LEMMA SameLearned == \A frame : Learned(frame) = LearnedFrom(hostMode, frame)
    BY DEF Learned, LearnedFrom

LEMMA NumberedAppend ==
    ASSUME NEW q, Numbered(q), NEW e, e.number = Len(q) + 1
    PROVE  Numbered(Append(q, e)) /\ Len(Append(q, e)) = Len(q) + 1
<1>1. /\ Len(q) \in Nat /\ IsSeq(Append(q, e)) /\ Len(Append(q, e)) = Len(q) + 1
      /\ \A i \in 1 .. Len(q) : Append(q, e)[i] = q[i]
      /\ Append(q, e)[Len(q) + 1] = e
    BY SeqFacts DEF Numbered
<1>2. \A i \in 1 .. Len(q) + 1 : i \in 1 .. Len(q) \/ i = Len(q) + 1
    BY <1>1
<1>3. ASSUME NEW i \in 1 .. Len(q) + 1 PROVE Append(q, e)[i].number = i
  <2>1. CASE i \in 1 .. Len(q)
      BY <1>1, <2>1 DEF Numbered
  <2>2. CASE i = Len(q) + 1
      BY <1>1, <2>2
  <2> QED
      BY <1>2, <2>1, <2>2
<1> QED
    BY <1>1, <1>3 DEF Numbered

\* What a read does: the next piece fits, and is the next in its direction
\* if it ends a frame.
Consumes(v, w) ==
    /\ hearing' = w.frame /\ hostMode' = w.mode
    /\ \/ /\ UNCHANGED <<heard, answers>>
          /\ w.data = v.data /\ w.answered = v.answered
       \/ \E f : /\ heard' = Append(heard, f) /\ UNCHANGED answers
                 /\ f.number = v.data + 1
                 /\ w.data = v.data + 1 /\ w.answered = v.answered
       \/ \E f : /\ answers' = Append(answers, f) /\ UNCHANGED heard
                 /\ f.number = v.answered + 1
                 /\ w.data = v.data /\ w.answered = v.answered + 1

LEMMA HostReadConsumes ==
    ASSUME HostRead, NEW s, Line(s), IsSeq(usbTx)
    PROVE  Consumes(s[0], s[1])
<1> DEFINE piece == usbTx[1]
           v == s[0]
           w == s[1]
<1>1. usbTx # <<>> /\ Head(usbTx) = piece /\ Len(usbTx) >= 1 /\ Len(usbTx) \in Nat
    BY SeqFacts DEF HostRead
<1>2. 0 \in 0 .. Len(usbTx) /\ 1 \in 1 .. Len(usbTx) /\ 1 - 1 = 0
    BY <1>1
<1>3. Reads(v, piece, w) /\ IsView(v) /\ HostAt(v)
    BY <1>2 DEF Line, Views
<1>4. IF piece.part = 1 THEN hearing = NoFrame ELSE hearing = piece.frame
  <2>1. piece.part = 1 <=> v.part = 0
      BY <1>3 DEF Reads, IsView
  <2> QED
      BY <1>3, <2>1 DEF Reads, IsView, HostAt
<1>5. CASE piece.part # Parts
  <2>1. hearing' = piece.frame /\ UNCHANGED <<heard, answers, hostMode>>
      BY <1>1, <1>4, <1>5 DEF HostRead
  <2>2. Continues(v, piece, w)
      BY <1>3, <1>5 DEF Reads
  <2> QED
      BY <1>3, <2>1, <2>2 DEF Continues, Consumes, HostAt
<1>6. CASE piece.part = Parts
  <2>1. /\ hearing' = NoFrame /\ hostMode' = Learned(piece.frame)
        /\ IF piece.frame.type = "reply"
           THEN answers' = Append(answers, piece.frame) /\ UNCHANGED heard
           ELSE heard' = Append(heard, piece.frame) /\ UNCHANGED answers
      BY <1>1, <1>4, <1>6 DEF HostRead
  <2>2. Completes(v, piece.frame, w)
      BY <1>3, <1>6 DEF Reads
  <2>3. hostMode' = w.mode /\ hearing' = w.frame
      BY <1>3, <2>1, <2>2, SameLearned DEF Completes, HostAt
  <2>4. CASE piece.frame.type = "reply"
      BY <2>1, <2>2, <2>3, <2>4 DEF Completes, Consumes
  <2>5. CASE piece.frame.type # "reply"
      BY <2>1, <2>2, <2>3, <2>5 DEF Completes, Consumes
  <2> QED
      BY <2>4, <2>5
<1> QED
    BY <1>5, <1>6

LEMMA HostReadKeeps == ASSUME LineInv, HostRead PROVE LineInv'
<1> USE DEF down, task, mac, settings
<1>1. Upwards /\ Numbered(heard) /\ Numbered(answers)
    BY DEF LineInv
<1>2. usbTx # <<>> /\ usbTx' = Tail(usbTx)
      /\ UNCHANGED <<owner, part, outgoing, rxQueue, arrived, rxPc, asked, reply, line, modemConfig>>
    BY DEF HostRead
<1>3. PICK s : Line(s)
    BY DEF LineInv
<1>4. PICK t : Views(t)' /\ t[0] = s[1] /\ t[Len(usbTx')] = s[Len(usbTx)]
    BY <1>1, <1>2, <1>3, PieceRead DEF Line, Upwards
<1>5. Consumes(s[0], s[1])
    BY <1>1, <1>3, HostReadConsumes DEF Upwards
<1>6. s[0].data = Len(heard) /\ s[0].answered = Len(answers)
    BY <1>3 DEF Line, HostAt
<1>7. /\ Numbered(heard)' /\ Numbered(answers)'
      /\ s[1].data = Len(heard') /\ s[1].answered = Len(answers')
  <2>1. CASE UNCHANGED <<heard, answers>> /\ s[1].data = s[0].data /\ s[1].answered = s[0].answered
      BY <1>1, <1>6, <2>1 DEF Numbered
  <2>2. ASSUME NEW f, heard' = Append(heard, f), UNCHANGED answers, f.number = s[0].data + 1,
               s[1].data = s[0].data + 1, s[1].answered = s[0].answered
        PROVE  /\ Numbered(heard)' /\ Numbered(answers)'
               /\ s[1].data = Len(heard') /\ s[1].answered = Len(answers')
    <3>1. Numbered(heard') /\ Len(heard') = Len(heard) + 1
        BY <1>1, <1>6, <2>2, NumberedAppend
    <3>2. Numbered(answers')
        BY <1>1, <2>2
    <3> QED
        BY <1>6, <2>2, <3>1, <3>2 DEF Numbered
  <2>3. ASSUME NEW f, answers' = Append(answers, f), UNCHANGED heard, f.number = s[0].answered + 1,
               s[1].data = s[0].data, s[1].answered = s[0].answered + 1
        PROVE  /\ Numbered(heard)' /\ Numbered(answers)'
               /\ s[1].data = Len(heard') /\ s[1].answered = Len(answers')
    <3>1. Numbered(answers') /\ Len(answers') = Len(answers) + 1
        BY <1>1, <1>6, <2>3, NumberedAppend
    <3>2. Numbered(heard')
        BY <1>1, <2>3
    <3> QED
        BY <1>6, <2>3, <3>1, <3>2 DEF Numbered
  <2> QED
      BY <1>5, <2>1, <2>2, <2>3 DEF Consumes
<1>8. HostAt(t[0])'
    BY <1>4, <1>5, <1>7 DEF HostAt, Consumes
<1>9. TasksAt(t[Len(usbTx)])'
    BY <1>2, <1>3, <1>4 DEF Line, TasksAt, Unwritten, Unanswered, Informed, Right
<1>10. Line(t)'
    BY <1>4, <1>8, <1>9 DEF Line
<1>11. Upwards'
  <2>1. IsSeq(usbTx')
      BY <1>1, <1>2, SeqFacts DEF Upwards
  <2> QED
      BY <1>1, <1>2, <2>1 DEF Upwards
<1> QED
    BY <1>7, <1>10, <1>11 DEF LineInv

\* The steps of a command.  While serialRxTask handles it the mutex is not its
\* own, so whatever frame is half written is serialTxTask's.
Unlocked == UNCHANGED <<owner, part, outgoing, rxQueue, arrived>>

LEMMA UnlockedUpwards ==
    ASSUME Upwards, Offline, Unlocked, asked' \in Nat,
           rxPc' \in {"reply", "write"} => reply'.type = "reply" /\ reply'.number = asked'
    PROVE  Upwards'
    BY DEF Upwards, Offline, Unlocked

LEMMA UnlockedAt ==
    ASSUME NEW v, TasksAt(v), Unlocked, owner # "rx",
           v.answered + Unanswered' = asked', Informed(v.mode)'
    PROVE  TasksAt(v)'
<1>1. Unwritten' = Unwritten
    BY DEF Unlocked, Unwritten
<1>2. v.part # 0 => v.frame = outgoing
    BY DEF TasksAt
<1> QED
    BY <1>1, <1>2 DEF TasksAt, Unlocked

LEMMA AnswerFields ==
    ASSUME NEW ok, NEW mode, reply' = Answer(ok, mode)
    PROVE  /\ reply'.type = "reply" /\ reply'.number = asked' /\ reply'.line = line'
           /\ reply'.ok = ok /\ reply'.mode = mode
    BY DEF Answer

LEMMA BeginKeepsLine ==
    ASSUME SettingsInv, LineInv, rxPc = "loop", Offline, Unlocked, NEW payload, BeginCommand(payload)
    PROVE  LineInv'
<1>1. Upwards /\ owner # "rx" /\ asked' = asked + 1 /\ asked \in Nat /\ modemConfig' = modemConfig
    BY DEF LineInv, Upwards, SettingsInv, Handshake, BeginCommand
<1>2. CASE AnswerAtOnce
  <2>1. /\ rxPc' = "reply" /\ line' \notin {DEFAULTS, SCAN, SET_GENERIC, SET_NATIVE}
        /\ reply' = Answer(line' \in {GET, STATS, BLOCK, UNBLOCK},
                           IF line' = STATS THEN shown ELSE modemConfig)
      BY <1>2 DEF AnswerAtOnce
  <2>2. /\ reply'.type = "reply" /\ reply'.number = asked' /\ reply'.line = line'
        /\ reply'.ok = (line' \in {GET, STATS, BLOCK, UNBLOCK})
        /\ reply'.mode = IF line' = STATS THEN shown ELSE modemConfig
      BY <2>1, AnswerFields
  <2>3. Upwards'
      BY <1>1, <2>2, UnlockedUpwards
  <2>4. ASSUME NEW v, IsView(v), TasksAt(v) PROVE TasksAt(v)'
    <3>1. v.answered + 0 = asked /\ Right(v.mode) /\ v.answered \in Nat
        BY <2>4 DEF TasksAt, Unanswered, Informed, IsView
    <3>2. v.answered + Unanswered' = asked'
        BY <1>1, <2>1, <3>1 DEF Unanswered
    <3>3. LearnedFrom(v.mode, reply') \in {v.mode, modemConfig}
      <4>1. CASE line' = GET
        <5>1. (line' \in {GET, STATS, BLOCK, UNBLOCK}) = TRUE
            BY <4>1, Zenon
        <5>2. reply'.ok = TRUE
            BY <2>2, <5>1, Zenon
        <5>3. reply'.mode = modemConfig
            BY <2>2, <4>1 DEF GET, STATS
        <5> QED
            BY <2>2, <4>1, <5>2, <5>3 DEF LearnedFrom
      <4>2. CASE line' # GET
          BY <2>1, <2>2, <4>2 DEF LearnedFrom
      <4> QED
          BY <4>1, <4>2
    <3>4. Informed(v.mode)'
        BY <1>1, <2>1, <3>1, <3>3 DEF Informed, Right
    <3> QED
        BY <1>1, <2>4, <3>2, <3>4, UnlockedAt
  <2> QED
      BY <2>3, <2>4, OfflineKeeps
<1>3. CASE AskMac
  <2>1. rxPc' = "apply" /\ line' \in {DEFAULTS, SCAN, SET_GENERIC, SET_NATIVE}
      BY <1>3 DEF AskMac
  <2>2. Upwards'
      BY <1>1, <2>1, UnlockedUpwards
  <2>3. ASSUME NEW v, IsView(v), TasksAt(v) PROVE TasksAt(v)'
    <3>1. v.answered + 0 = asked /\ Right(v.mode) /\ v.answered \in Nat
        BY <2>3 DEF TasksAt, Unanswered, Informed, IsView
    <3>2. v.answered + Unanswered' = asked'
        BY <1>1, <2>1, <3>1 DEF Unanswered
    <3>3. Informed(v.mode)'
        BY <1>1, <2>1, <3>1 DEF Informed, Right
    <3> QED
        BY <1>1, <2>3, <3>2, <3>3, UnlockedAt
  <2> QED
      BY <2>2, <2>3, OfflineKeeps
<1> QED
    BY <1>2, <1>3 DEF BeginCommand

\* The steps that go on with a command, towards its answer.
LEMMA GoesOnKeeps ==
    ASSUME SettingsInv, LineInv, Offline, Unlocked, UNCHANGED <<asked, line>>,
           rxPc \in {"apply", "save"}, rxPc' \in {"save", "reply"},
           rxPc' = "reply" => reply'.type = "reply" /\ reply'.number = asked',
           \A mode : Informed(mode) => Informed(mode)'
    PROVE  LineInv'
<1>1. Upwards /\ owner # "rx" /\ asked' = asked /\ asked \in Nat
    BY DEF LineInv, Upwards, SettingsInv, Handshake
<1>2. Upwards'
    BY <1>1, UnlockedUpwards
<1>3. Unanswered = 1 /\ Unanswered' = 1
    BY DEF Unanswered
<1>4. ASSUME NEW v, IsView(v), TasksAt(v) PROVE TasksAt(v)'
  <2>1. v.answered + Unanswered' = asked' /\ Informed(v.mode)'
      BY <1>1, <1>3, <1>4 DEF TasksAt
  <2> QED
      BY <1>1, <1>4, <2>1, UnlockedAt
<1> QED
    BY <1>2, <1>4, OfflineKeeps

LEMMA ResumeKeeps == ASSUME SettingsInv, LineInv, ResumeScan \/ Resume PROVE LineInv'
<1> USE DEF down, up, host
<1>1. Offline /\ Unlocked /\ UNCHANGED <<asked, line>> /\ rxPc = "apply"
    BY DEF ResumeScan, Resume, EndCommand, Offline, Unlocked
<1>2. CASE ResumeScan
  <2>1. line = SCAN /\ rxPc' = "reply" /\ modemConfig' = modemConfig
        /\ reply' = Answer(applied, modemConfig')
      BY <1>2 DEF ResumeScan, EndCommand
  <2>2. reply'.type = "reply" /\ reply'.number = asked' /\ reply'.line = SCAN
      BY <1>1, <2>1, AnswerFields
  <2>3. \A mode : LearnedFrom(mode, reply') = mode
      BY <2>2 DEF LearnedFrom, SCAN, GET, DEFAULTS, SET_GENERIC, SET_NATIVE
  <2>4. \A mode : Informed(mode) => Informed(mode)'
      BY <1>1, <2>1, <2>3 DEF Informed, Right
  <2> QED
      BY <1>1, <2>1, <2>2, <2>4, GoesOnKeeps
<1>3. CASE Resume /\ applied
  <2>1. line # SCAN /\ rxPc' = "save" /\ modemConfig' = NewMode(line)
      BY <1>3 DEF Resume
  <2>2. \A mode : Informed(mode) => Informed(mode)'
      BY <1>1, <2>1 DEF Informed
  <2> QED
      BY <1>1, <2>1, <2>2, GoesOnKeeps
<1>4. CASE Resume /\ ~applied
  <2>1. line # SCAN /\ rxPc' = "reply" /\ reply' = Answer(FALSE, modemConfig')
      BY <1>4 DEF Resume, EndCommand
  <2>2. reply'.type = "reply" /\ reply'.number = asked' /\ reply'.line = line /\ reply'.ok = FALSE
      BY <1>1, <2>1, AnswerFields
  <2>3. line \in {DEFAULTS, SET_GENERIC, SET_NATIVE} =>
            \A mode : LearnedFrom(mode, reply') = "unknown"
      BY <2>2 DEF LearnedFrom
  <2>4. \A mode : Informed(mode) => Informed(mode)'
      BY <1>1, <2>1, <2>3 DEF Informed, Right
  <2> QED
      BY <1>1, <2>1, <2>2, <2>4, GoesOnKeeps
<1> QED
    BY <1>2, <1>3, <1>4

LEMMA SaveKeeps == ASSUME SettingsInv, LineInv, SaveSet \/ SaveDefaults PROVE LineInv'
<1> USE DEF down, up, host, mac
<1>1. Offline /\ Unlocked /\ UNCHANGED <<asked, line, modemConfig>> /\ rxPc = "save" /\ rxPc' = "reply"
    BY DEF SaveSet, SaveDefaults, EndCommand, Offline, Unlocked
<1>2. reply' = Answer(TRUE, modemConfig') \/ reply' = Answer(FALSE, modemConfig')
    BY DEF SaveSet, SaveDefaults, EndCommand
<1>3. /\ reply'.type = "reply" /\ reply'.number = asked' /\ reply'.line = line
      /\ reply'.ok = TRUE \/ reply'.ok = FALSE
    BY <1>1, <1>2, AnswerFields
<1>4. line \in {DEFAULTS, SET_GENERIC, SET_NATIVE} =>
          \A mode : LearnedFrom(mode, reply') \in {"unknown", NewMode(line)}
    BY <1>3 DEF LearnedFrom, GET, DEFAULTS, SET_GENERIC, SET_NATIVE
<1>5. \A mode : Informed(mode) => Informed(mode)'
    BY <1>1, <1>4 DEF Informed, Right
<1> QED
    BY <1>1, <1>3, <1>5, GoesOnKeeps

\* A new session: nothing written, nothing heard.
Fresh ==
    /\ usbTx = <<>> /\ heard = <<>> /\ answers = <<>> /\ rxQueue = <<>>
    /\ hearing = NoFrame /\ hostMode \in {"unknown", modemConfig}
    /\ rxPc = "loop" /\ asked = 0 /\ arrived = 0
    /\ outgoing = NoFrame /\ owner = "none" /\ part = 0

LEMMA FreshLine == Fresh => LineInv
<1> SUFFICES ASSUME Fresh PROVE LineInv
    OBVIOUS
<1>1. /\ usbTx = <<>> /\ heard = <<>> /\ answers = <<>> /\ rxQueue = <<>>
      /\ \A S : <<>> \in Seq(S)
      /\ Len(<<>>) = 0
    BY DEF Fresh
<1>2. IsSeq(usbTx) /\ IsSeq(heard) /\ IsSeq(answers) /\ rxQueue \in Seq(Nat)
    BY <1>1 DEF IsSeq
<1>3. Upwards
    BY <1>1, <1>2, SerialAssumption DEF Fresh, Upwards
<1>4. Numbered(heard) /\ Numbered(answers)
    BY <1>1, <1>2 DEF Numbered
<1> DEFINE v == [data |-> 0, answered |-> 0, frame |-> NoFrame, part |-> 0, mode |-> hostMode]
           s == [i \in {0} |-> v]
<1>5. IsView(v) /\ Later(v, v) /\ HostAt(v)
    BY <1>1, SerialAssumption DEF IsView, Later, HostAt, Fresh
<1>6. v.data + 0 + Len(rxQueue) = arrived /\ v.answered + 0 = asked
    BY <1>1 DEF Fresh
<1>7. TasksAt(v)
    BY <1>6 DEF TasksAt, Unwritten, Unanswered, Informed, Right, Fresh
<1>8. s[0] = v /\ Len(usbTx) = 0 /\ (\A i \in 0 .. 0 : i = 0) /\ 1 .. 0 = {}
    BY <1>1
<1> HIDE DEF v, s
<1>9. Views(s)
    BY <1>5, <1>8 DEF Views
<1>10. Line(s)
    BY <1>5, <1>7, <1>8, <1>9 DEF Line
<1> QED
    BY <1>3, <1>4, <1>10 DEF LineInv

LEMMA FreshLinePrimed == Fresh' => LineInv'
    BY FreshLine, PTL

LEMMA RebootIsFresh == Reboot => Fresh'
    BY DEF Reboot, Boot, Fresh

LEMMA InitLine == Init => LineInv
    BY FreshLine DEF Init, Fresh

\* What each step does on this side of the modem.
Reading == \E payload : BeginCommand(payload)
ReadsOn == rxPc = "loop" /\ Offline /\ Unlocked /\ Reading

LEMMA ReadFrameReads ==
    ReadFrame => ReadsOn \/ (Offline /\ Unlocked /\ UNCHANGED <<rxPc, asked, reply, line, modemConfig>>)
<1> SUFFICES ASSUME ReadFrame
             PROVE  ReadsOn \/ (Offline /\ Unlocked /\ UNCHANGED <<rxPc, asked, reply, line, modemConfig>>)
    OBVIOUS
<1>1. rxPc = "loop" /\ Offline /\ Unlocked
    BY DEF ReadFrame, up, host, Offline, Unlocked
<1>2. Reading \/ UNCHANGED <<rxPc, asked, reply, line, modemConfig>>
    BY DEF ReadFrame, task, Reading
<1> QED
    BY <1>1, <1>2 DEF ReadsOn

Quiet == SendData \/ TearData \/ SendCommand \/ SendNoise \/ QueueFrame \/ StageCommand
         \/ ApplyConfig \/ ScanBand \/ TakeFrame \/ UNCHANGED vars

LEMMA QuietIsOffline ==
    Quiet => Offline /\ Unlocked /\ UNCHANGED <<rxPc, asked, reply, line, modemConfig>>
    BY DEF Quiet, SendData, TearData, SendCommand, SendNoise, Write, QueueFrame, StageCommand,
        ApplyConfig, ScanBand, TakeFrame, vars, down, up, task, mac, settings, host, Offline, Unlocked

LEMMA StepLine == SettingsInv /\ LineInv /\ [Next]_vars => LineInv'
<1> SUFFICES ASSUME SettingsInv, LineInv, [Next]_vars PROVE LineInv'
    OBVIOUS
<1>1. CASE Offline /\ Unlocked /\ UNCHANGED <<rxPc, asked, reply, line, modemConfig>>
    BY <1>1, StillKeeps DEF Unlocked
<1>2. CASE Quiet
    BY <1>1, <1>2, QuietIsOffline
<1>3. CASE ReadFrame
  <2>1. CASE ReadsOn
      BY <2>1, BeginKeepsLine DEF ReadsOn, Reading
  <2> QED
      BY <1>1, <1>3, <2>1, ReadFrameReads
<1>4. CASE Reboot
    BY <1>4, RebootIsFresh, FreshLinePrimed
<1> QED
    BY <1>2, <1>3, <1>4, HostReadKeeps, ResumeKeeps, SaveKeeps, LockKeeps, WriteFrameKeeps,
       WriteReplyKeeps, TakeOutgoingKeeps, DeliverKeeps
    DEF Next, HostStep, RxTaskStep, TxTaskStep, MacStep, MacWork, Quiet

\* If nothing but the host's commands is read as a command, a host that has
\* heard every answer knows the mode the modem wraps for: each answer reaches
\* it whole, once and in order, and says what is in use.
THEOREM AnswersTellTheMode == Spec => [](CommandsWereOrdered => HostKnows)
<1>1. LineInv => (CommandsWereOrdered => HostKnows)
  <2> SUFFICES ASSUME LineInv, asked <= ordered, ordered = Answered, hostMode # "unknown"
               PROVE  hostMode = modemConfig
      BY DEF CommandsWereOrdered, HostKnows
  <2>1. PICK s : Line(s)
      BY DEF LineInv
  <2> DEFINE n == Len(usbTx)
             v == s[0]
             w == s[n]
  <2>2. n \in Nat
      BY SeqFacts DEF LineInv, Upwards
  <2>3. 0 \in 0 .. n /\ n \in 0 .. n /\ 0 <= n
      BY <2>2
  <2>4. IsView(v) /\ IsView(w) /\ Later(v, w) /\ HostAt(v) /\ TasksAt(w)
      BY <2>1, <2>3 DEF Line, Views
  <2>5. v.answered = ordered /\ w.answered + Unanswered = asked /\ Unanswered \in {0, 1}
      BY <2>4 DEF HostAt, TasksAt, Answered, Unanswered
  <2>6. w.answered = v.answered /\ Unanswered = 0
      BY <2>4, <2>5 DEF Later, IsView
  <2>7. rxPc = "loop" /\ w.mode = v.mode /\ v.mode = hostMode
      BY <2>4, <2>6 DEF Later, HostAt, Unanswered
  <2> QED
      BY <2>4, <2>7 DEF TasksAt, Informed, Right
<1>2. Init => SettingsInv /\ LineInv
    BY InitSettings, InitLine
<1>3. SettingsInv /\ LineInv /\ [Next]_vars => (SettingsInv /\ LineInv)'
    BY StepSettings, StepLine
<1> QED
    BY <1>1, <1>2, <1>3, PTL DEF Spec

----------------------------------------------------------------------------
\* Each direction is a FrameFifo.

Ups(n) == [i \in 1 .. n |-> i]

LEMMA NumbersAreUps ==
    ASSUME NEW q, Numbered(q)
    PROVE  Len(q) \in Nat /\ [i \in DOMAIN q |-> q[i].number] = Ups(Len(q))
<1>1. Len(q) \in Nat /\ DOMAIN q = 1 .. Len(q)
    BY DEF Numbered, IsSeq
<1> QED
    BY <1>1 DEF Numbered, Ups

LEMMA UpsFacts ==
    ASSUME NEW n \in Nat
    PROVE  /\ Append(Ups(n), n + 1) = Ups(n + 1)
           /\ (IF Ups(n) = <<>> THEN 0 ELSE Ups(n)[Len(Ups(n))]) = n
           /\ Ups(0) = <<>>
<1>1. Ups(n) \in Seq(Nat) /\ Len(Ups(n)) = n /\ \A i \in 1 .. n : Ups(n)[i] = i
    BY DEF Ups
<1>2. Ups(n + 1) \in Seq(Nat) /\ Len(Ups(n + 1)) = n + 1 /\ \A i \in 1 .. n + 1 : Ups(n + 1)[i] = i
    BY DEF Ups
<1>3. Append(Ups(n), n + 1) = Ups(n + 1)
  <2>1. Append(Ups(n), n + 1) \in Seq(Nat) /\ Len(Append(Ups(n), n + 1)) = n + 1
      BY <1>1
  <2>2. ASSUME NEW i \in 1 .. n + 1 PROVE Append(Ups(n), n + 1)[i] = Ups(n + 1)[i]
    <3>1. CASE i \in 1 .. n
        BY <1>1, <1>2, <3>1
    <3>2. CASE i = n + 1
        BY <1>1, <1>2, <3>2
    <3>3. i \in 1 .. n \/ i = n + 1
        OBVIOUS
    <3> QED
        BY <3>1, <3>2, <3>3
  <2> QED
      BY <1>2, <2>1, <2>2
<1>4. (IF Ups(n) = <<>> THEN 0 ELSE Ups(n)[Len(Ups(n))]) = n
  <2>1. CASE n = 0
      BY <1>1, <2>1
  <2>2. CASE n # 0
      BY <1>1, <2>2
  <2> QED
      BY <2>1, <2>2
<1>5. Ups(0) = <<>>
  <2>1. Ups(0) \in Seq(Nat) /\ Len(Ups(0)) = 0
      BY DEF Ups
  <2> QED
      BY <2>1
<1> QED
    BY <1>3, <1>4, <1>5

\* What the host has read was offered.
LEMMA ReadWasOffered ==
    ASSUME LineInv, HostRead, NEW s, Line(s)
    PROVE  s[1].data <= arrived /\ s[1].answered <= asked
<1> DEFINE n == Len(usbTx)
           u == s[1]
           w == s[n]
<1>1. n \in Nat /\ n >= 1
    BY SeqFacts DEF LineInv, Upwards, HostRead
<1>2. 1 \in 0 .. n /\ n \in 0 .. n /\ 1 <= n
    BY <1>1
<1>3. IsView(u) /\ IsView(w) /\ Later(u, w) /\ TasksAt(w)
    BY <1>2 DEF Line, Views
<1>4. /\ w.data + Unwritten + Len(rxQueue) = arrived /\ Unwritten \in Nat /\ Len(rxQueue) \in Nat
      /\ w.answered + Unanswered = asked /\ Unanswered \in Nat
    BY <1>3 DEF TasksAt, Unwritten, Unanswered, LineInv, Upwards
<1>5. w.data <= arrived /\ w.answered <= asked
    BY <1>3, <1>4 DEF IsView
<1> QED
    BY <1>3, <1>5 DEF Later, IsView, LineInv, Upwards

\* A step that is none of the host's reads.
LEMMA OtherSteps ==
    ASSUME SettingsInv, LineInv, [Next]_vars, ~HostRead, ~Reboot
    PROVE  /\ UNCHANGED <<heard, answers>>
           /\ arrived' = arrived \/ arrived' = arrived + 1
           /\ asked' = asked \/ asked' = asked + 1
<1>1. CASE Quiet
    BY <1>1, QuietIsOffline DEF Offline, Unlocked
<1>2. CASE ReadFrame
    BY <1>2, ReadFrameReads DEF ReadsOn, Reading, BeginCommand, Offline, Unlocked
<1>3. CASE ResumeScan \/ Resume \/ SaveSet \/ SaveDefaults
    BY <1>3 DEF ResumeScan, Resume, SaveSet, SaveDefaults, EndCommand, up, host
<1>4. CASE LockTx \/ LockRx \/ WriteFrame \/ WriteReply \/ TakeOutgoing \/ Deliver
    BY <1>4 DEF LockTx, LockRx, WriteFrame, WriteReply, Piece, TakeOutgoing, Deliver, task, host
<1> QED
    BY <1>1, <1>2, <1>3, <1>4
    DEF Next, HostStep, RxTaskStep, TxTaskStep, MacStep, MacWork, Quiet

LEMMA StepToHost ==
    ASSUME SettingsInv, LineInv, LineInv', [Next]_vars
    PROVE  [ToHost!Next]_(ToHost!vars)
<1> DEFINE n == Len(heard)
<1>1. n \in Nat /\ [i \in DOMAIN heard |-> heard[i].number] = Ups(n) /\ arrived \in Nat
    BY NumbersAreUps DEF LineInv, Upwards
<1>2. /\ Len(heard') \in Nat
      /\ [i \in DOMAIN heard' |-> heard'[i].number] = Ups(Len(heard'))
    BY NumbersAreUps DEF LineInv, Numbered
<1>3. CASE UNCHANGED <<heard, arrived>>
    BY <1>3 DEF ToHost!vars
<1>4. CASE arrived' = arrived + 1 /\ UNCHANGED heard
    BY <1>4 DEF ToHost!Next, ToHost!Offer
<1>5. CASE Reboot
    BY <1>5 DEF Reboot, Boot, ToHost!Next, ToHost!Restart
<1>6. CASE HostRead
  <2>1. PICK s : Line(s)
      BY DEF LineInv
  <2>2. Consumes(s[0], s[1]) /\ s[1].data <= arrived /\ s[0].data = n /\ arrived' = arrived
      BY <1>6, <2>1, HostReadConsumes, ReadWasOffered DEF Line, HostAt, LineInv, Upwards, HostRead
  <2>3. CASE s[1].data = n + 1
    <3>1. PICK f : heard' = Append(heard, f)
        BY <1>1, <2>2, <2>3 DEF Consumes
    <3>2. Len(heard') = n + 1
        BY <3>1, SeqFacts DEF LineInv, Numbered
    <3>3. [i \in DOMAIN heard' |-> heard'[i].number] = Append(Ups(n), n + 1)
        BY <1>1, <1>2, <3>2, UpsFacts
    <3>4. ToHost!Newest = n
        BY <1>1, UpsFacts DEF ToHost!Newest
    <3>5. n + 1 \in n + 1 .. arrived
        BY <1>1, <2>2, <2>3
    <3>6. ToHost!Take
        BY <1>1, <2>2, <3>3, <3>4, <3>5 DEF ToHost!Take
    <3> QED
        BY <3>6 DEF ToHost!Next
  <2>4. CASE s[1].data # n + 1
      BY <1>3, <2>2, <2>4 DEF Consumes
  <2> QED
      BY <2>3, <2>4
<1> QED
    BY <1>3, <1>4, <1>5, <1>6, OtherSteps

LEMMA StepAnswers ==
    ASSUME SettingsInv, LineInv, LineInv', [Next]_vars
    PROVE  [Answers!Next]_(Answers!vars)
<1> DEFINE n == Len(answers)
<1>1. n \in Nat /\ [i \in DOMAIN answers |-> answers[i].number] = Ups(n) /\ asked \in Nat
    BY NumbersAreUps DEF LineInv, Upwards
<1>2. /\ Len(answers') \in Nat
      /\ [i \in DOMAIN answers' |-> answers'[i].number] = Ups(Len(answers'))
    BY NumbersAreUps DEF LineInv, Numbered
<1>3. CASE UNCHANGED <<answers, asked>>
    BY <1>3 DEF Answers!vars
<1>4. CASE asked' = asked + 1 /\ UNCHANGED answers
    BY <1>4 DEF Answers!Next, Answers!Offer
<1>5. CASE Reboot
    BY <1>5 DEF Reboot, Boot, Answers!Next, Answers!Restart
<1>6. CASE HostRead
  <2>1. PICK s : Line(s)
      BY DEF LineInv
  <2>2. Consumes(s[0], s[1]) /\ s[1].answered <= asked /\ s[0].answered = n /\ asked' = asked
      BY <1>6, <2>1, HostReadConsumes, ReadWasOffered
      DEF Line, HostAt, LineInv, Upwards, HostRead, task
  <2>3. CASE s[1].answered = n + 1
    <3>1. PICK f : answers' = Append(answers, f)
        BY <1>1, <2>2, <2>3 DEF Consumes
    <3>2. Len(answers') = n + 1
        BY <3>1, SeqFacts DEF LineInv, Numbered
    <3>3. [i \in DOMAIN answers' |-> answers'[i].number] = Append(Ups(n), n + 1)
        BY <1>1, <1>2, <3>2, UpsFacts
    <3>4. Answers!Newest = n
        BY <1>1, UpsFacts DEF Answers!Newest
    <3>5. n + 1 \in n + 1 .. asked
        BY <1>1, <2>2, <2>3
    <3>6. Answers!Take
        BY <1>1, <2>2, <3>3, <3>4, <3>5 DEF Answers!Take
    <3> QED
        BY <3>6 DEF Answers!Next
  <2>4. CASE s[1].answered # n + 1
      BY <1>3, <2>2, <2>4 DEF Consumes
  <2> QED
      BY <2>3, <2>4
<1> QED
    BY <1>3, <1>4, <1>5, <1>6, OtherSteps

LEMMA InitFifos == Init => ToHost!Init /\ Answers!Init
    BY DEF Init, ToHost!Init, Answers!Init

\* What the engine delivers reaches the host once, whole and in order,
\* whatever the host asks, however long the queues and the pieces, and through
\* any number of power cycles.
THEOREM DeliveriesReachTheHost == Spec => HostIsServed
<1>1. Init => SettingsInv /\ LineInv /\ ToHost!Init
    BY InitSettings, InitLine, InitFifos
<1>2. SettingsInv /\ LineInv /\ [Next]_vars => (SettingsInv /\ LineInv)'
    BY StepSettings, StepLine
<1>3. SettingsInv /\ LineInv /\ (SettingsInv /\ LineInv)' /\ [Next]_vars
          => [ToHost!Next]_(ToHost!vars)
    BY StepToHost
<1> QED
    BY <1>1, <1>2, <1>3, PTL DEF Spec, HostIsServed, ToHost!Spec

\* So does the answer to each command.
THEOREM AnswersReachTheHost == Spec => CommandsAreAnswered
<1>1. Init => SettingsInv /\ LineInv /\ Answers!Init
    BY InitSettings, InitLine, InitFifos
<1>2. SettingsInv /\ LineInv /\ [Next]_vars => (SettingsInv /\ LineInv)'
    BY StepSettings, StepLine
<1>3. SettingsInv /\ LineInv /\ (SettingsInv /\ LineInv)' /\ [Next]_vars
          => [Answers!Next]_(Answers!vars)
    BY StepAnswers
<1> QED
    BY <1>1, <1>2, <1>3, PTL DEF Spec, CommandsAreAnswered, Answers!Spec

----------------------------------------------------------------------------
\* The codec.

\* Induction and recursion over the naturals, as facts about sets and
\* functions: the library states them for operators, which no backend can
\* instantiate.
LEMMA Induction ==
    ASSUME NEW S, 0 \in S, \A n \in Nat : n \in S => n + 1 \in S
    PROVE  Nat \subseteq S
<1> SUFFICES ASSUME Nat \ S # {} PROVE FALSE
    OBVIOUS
<1> DEFINE R == {ss \in Nat \X Nat : ss[1] < ss[2]}
<1>1. IsWellFoundedOn(R, Nat)
    BY NatLessThanWellFounded DEF OpToRel
<1> DEFINE T == Nat \ S
<1>2. PICK n \in T : \A m \in T : ~(<<m, n>> \in R)
    BY <1>1, WFMin
<1>3. n # 0 /\ n - 1 \in Nat
    BY <1>2
<1>4. <<n - 1, n>> \in R
    BY <1>2, <1>3
<1>5. n - 1 \in S
    BY <1>2, <1>3, <1>4
<1> QED
    BY <1>2, <1>3, <1>5

\* A function may be defined by recursion over an initial segment of the
\* naturals.
LEMMA Recursion ==
    ASSUME NEW n \in Nat, NEW A, NEW a \in A, NEW g \in [1 .. n -> [A -> A]]
    PROVE  \E f \in [0 .. n -> A] : f[0] = a /\ \A i \in 1 .. n : f[i] = g[i][f[i - 1]]
<1> DEFINE Ok(m, f) == f[0] = a /\ \A i \in 1 .. m : f[i] = g[i][f[i - 1]]
           S == {m \in Nat : m <= n => \E f \in [0 .. m -> A] : Ok(m, f)}
<1>1. 0 \in S
    <2> DEFINE f == [i \in 0 .. 0 |-> a]
    <2>1. f \in [0 .. 0 -> A] /\ Ok(0, f)
        OBVIOUS
    <2> QED
        BY <2>1
<1>2. ASSUME NEW m \in Nat, m \in S PROVE m + 1 \in S
    <2> SUFFICES ASSUME m + 1 <= n PROVE \E f \in [0 .. m + 1 -> A] : Ok(m + 1, f)
        OBVIOUS
    <2>1. PICK f \in [0 .. m -> A] : Ok(m, f)
        BY <1>2
    <2> DEFINE h == [i \in 0 .. m + 1 |-> IF i = m + 1 THEN g[m + 1][f[m]] ELSE f[i]]
    <2>2. g[m + 1][f[m]] \in A
        BY <2>1
    <2>3. h \in [0 .. m + 1 -> A]
        BY <2>2
    <2>4. h[0] = a
        BY <2>1
    <2>5. ASSUME NEW i \in 1 .. m + 1 PROVE h[i] = g[i][h[i - 1]]
        <3>1. h[i - 1] = f[i - 1]
            OBVIOUS
        <3>2. CASE i = m + 1
            BY <3>1, <3>2
        <3>3. CASE i # m + 1
            BY <2>1, <3>1, <3>3
        <3> QED
            BY <3>2, <3>3
    <2> QED
        BY <2>3, <2>4, <2>5
<1>3. n \in S
    <2> HIDE DEF S
    <2> QED
        BY <1>1, <1>2, Induction
<1> QED
    BY <1>3

\* The decoders there are: _buf has room for MaxLen + 1 bytes.
Fit == {d \in Decoder : Len(d.buf) <= MaxLen + 1}

LEMMA FitIs ==
    \A d : d \in Fit <=> /\ d = [state |-> d.state, buf |-> d.buf, overflow |-> d.overflow]
                        /\ d.state \in {"IDLE", "IN_FRAME", "ESCAPE"}
                        /\ d.buf \in Seq(Nat) /\ Len(d.buf) <= MaxLen + 1
                        /\ d.overflow \in BOOLEAN
    BY DEF Fit, Decoder

LEMMA StoreType ==
    ASSUME NEW d \in Fit, NEW b \in Nat
    PROVE  Store(d, b) \in Fit /\ Store(d, b).buf # <<>>
<1>1. d.buf \in Seq(Nat) /\ Len(d.buf) \in Nat /\ Len(d.buf) <= MaxLen + 1 /\ d.overflow \in BOOLEAN
    BY FitIs
<1>2. CASE Len(d.buf) < MaxLen + 1
    <2>1. Append(d.buf, b) \in Seq(Nat) /\ Len(Append(d.buf, b)) = Len(d.buf) + 1
        BY <1>1
    <2>2. Store(d, b) = [state |-> "IN_FRAME", buf |-> Append(d.buf, b), overflow |-> d.overflow]
        BY <1>2 DEF Store, InFrame
    <2>3. Len(Append(d.buf, b)) <= MaxLen + 1 /\ Append(d.buf, b) # <<>>
        BY <1>1, <1>2, <2>1, MaxLenAssumption
    <2> QED
        BY <1>1, <2>1, <2>2, <2>3 DEF Fit, Decoder
<1>3. CASE ~(Len(d.buf) < MaxLen + 1)
    <2>1. Store(d, b) = [state |-> "IN_FRAME", buf |-> d.buf, overflow |-> TRUE]
        BY <1>3 DEF Store, InFrame
    <2>2. d.buf # <<>>
        BY <1>1, <1>3, MaxLenAssumption
    <2> QED
        BY <1>1, <2>1, <2>2 DEF Fit, Decoder
<1> QED
    BY <1>2, <1>3

LEMMA BasicFit ==
    /\ IdleDecoder \in Fit /\ InFrame(<<>>, FALSE) \in Fit
    /\ \A d \in Fit : Escaping(d) \in Fit
<1>1. IdleDecoder \in Fit /\ InFrame(<<>>, FALSE) \in Fit
    BY MaxLenAssumption DEF Fit, IdleDecoder, InFrame, Decoder
<1>2. ASSUME NEW d \in Fit PROVE Escaping(d) \in Fit
    BY FitIs DEF Escaping, Fit, Decoder
<1> QED
    BY <1>1, <1>2

LEMMA FeedType ==
    ASSUME NEW d \in Fit, NEW b \in Nat
    PROVE  Feed(d, b) \in Fit
<1>1. IdleDecoder \in Fit /\ InFrame(<<>>, FALSE) \in Fit /\ Escaping(d) \in Fit
    BY BasicFit
<1>2. Store(d, b) \in Fit /\ Store(d, FEND) \in Fit /\ Store(d, FESC) \in Fit
    BY StoreType DEF FEND, FESC
<1>3. d.state \in {"IDLE", "IN_FRAME", "ESCAPE"}
    BY FitIs
<1> QED
    BY <1>1, <1>2, <1>3 DEF Feed

\* s is the way of the decoder through bytes.
Way(d, bytes, s) ==
    /\ s \in [0 .. Len(bytes) -> Fit]
    /\ s[0] = d
    /\ \A i \in 1 .. Len(bytes) : s[i] = Feed(s[i - 1], bytes[i])

LEMMA WayExists ==
    ASSUME NEW d \in Fit, NEW bytes \in Seq(Nat)
    PROVE  \E s : Way(d, bytes, s)
<1> DEFINE h(i) == [e \in Fit |-> Feed(e, bytes[i])]
           g == [i \in 1 .. Len(bytes) |-> h(i)]
<1>1. g \in [1 .. Len(bytes) -> [Fit -> Fit]]
    <2>1. ASSUME NEW i \in 1 .. Len(bytes) PROVE h(i) \in [Fit -> Fit]
        <3>1. bytes[i] \in Nat
            OBVIOUS
        <3> QED
            BY <3>1, FeedType
    <2> HIDE DEF h
    <2> QED
        BY <2>1
<1>2. PICK s \in [0 .. Len(bytes) -> Fit] :
          s[0] = d /\ \A i \in 1 .. Len(bytes) : s[i] = g[i][s[i - 1]]
    <2> HIDE DEF g
    <2>1. Len(bytes) \in Nat
        OBVIOUS
    <2> DEFINE Ways(n, A, a, q) ==
                   \E f \in [0 .. n -> A] : f[0] = a /\ \A i \in 1 .. n : f[i] = q[i][f[i - 1]]
    <2>2. \A n \in Nat : \A A : \A a \in A : \A q \in [1 .. n -> [A -> A]] : Ways(n, A, a, q)
        BY Recursion
    <2>3. Ways(Len(bytes), Fit, d, g)
        <3> HIDE DEF Ways
        <3> QED
            BY <1>1, <2>1, <2>2
    <2> QED
        BY <2>3
<1>3. ASSUME NEW i \in 1 .. Len(bytes) PROVE s[i] = Feed(s[i - 1], bytes[i])
    <2>1. s[i - 1] \in Fit
        BY <1>2
    <2> QED
        BY <1>2, <2>1
<1> QED
    BY <1>2, <1>3 DEF Way

\* FeedAll is where it leads to.
LEMMA FeedAllIsWay ==
    ASSUME NEW d \in Fit, NEW bytes \in Seq(Nat), NEW s, Way(d, bytes, s)
    PROVE  FeedAll(d, bytes) = s[Len(bytes)]
<1> DEFINE feed(byte) == [e \in Decoder |-> Feed(e, byte)]
           F(f) == [i \in 0 .. Len(bytes) |-> IF i = 0 THEN d ELSE feed(bytes[i])[f[i - 1]]]
           after == CHOOSE f : f = F(f)
<1>0. \A e \in Fit : \A byte : feed(byte)[e] = Feed(e, byte)
    BY DEF Fit
<1>a. FeedAll(d, bytes) = after[Len(bytes)]
    BY DEF FeedAll
<1> HIDE DEF feed
<1>b. /\ s \in [0 .. Len(bytes) -> Fit] /\ s[0] = d /\ Len(bytes) \in Nat
      /\ \A i \in 1 .. Len(bytes) : s[i] = feed(bytes[i])[s[i - 1]]
    <2>1. s \in [0 .. Len(bytes) -> Fit] /\ s[0] = d /\ Len(bytes) \in Nat
        BY DEF Way
    <2>2. ASSUME NEW i \in 1 .. Len(bytes) PROVE s[i] = feed(bytes[i])[s[i - 1]]
        <3>1. s[i - 1] \in Fit
            BY <2>1
        <3> QED
            BY <1>0, <3>1 DEF Way
    <2> QED
        BY <2>1, <2>2
<1>1. s = F(s)
    BY <1>b
<1>2. after = F(after)
    <2> HIDE DEF F
    <2> QED
        BY <1>1
<1> HIDE DEF after
<1> DEFINE S == {i \in Nat : i <= Len(bytes) => after[i] = s[i]}
<1>4. 0 \in S
    BY <1>2, <1>b
<1>5. ASSUME NEW i \in Nat, i \in S PROVE i + 1 \in S
    BY <1>2, <1>5, <1>b
<1>6. Len(bytes) \in S
    <2> HIDE DEF S
    <2> QED
        BY <1>4, <1>5, Induction
<1> QED
    BY <1>a, <1>6

LEMMA CatFacts ==
    ASSUME NEW p \in Seq(Nat), NEW q \in Seq(Nat)
    PROVE  /\ p \o q \in Seq(Nat) /\ Len(p) \in Nat /\ Len(q) \in Nat
           /\ Len(p \o q) = Len(p) + Len(q)
           /\ \A i \in 1 .. Len(p) : (p \o q)[i] = p[i]
           /\ \A i \in 1 .. Len(q) : (p \o q)[Len(p) + i] = q[i]
    OBVIOUS

\* A way through two pieces, and the pieces of a way.
Joined(p, q, s, t) == [i \in 0 .. Len(p) + Len(q) |-> IF i <= Len(p) THEN s[i] ELSE t[i - Len(p)]]

LEMMA WayJoin ==
    ASSUME NEW d \in Fit, NEW p \in Seq(Nat), NEW q \in Seq(Nat), NEW s, NEW t,
           Way(d, p, s), Way(s[Len(p)], q, t)
    PROVE  Way(d, p \o q, Joined(p, q, s, t))
<1> DEFINE m == Len(p)
           n == Len(q)
           w == [i \in 0 .. m + n |-> IF i <= m THEN s[i] ELSE t[i - m]]
<1>1. /\ m \in Nat /\ n \in Nat /\ Len(p \o q) = m + n /\ p \o q \in Seq(Nat)
      /\ \A i \in 1 .. m : (p \o q)[i] = p[i]
      /\ \A i \in m + 1 .. m + n : (p \o q)[i] = q[i - m]
    OBVIOUS
<1>2. /\ s \in [0 .. m -> Fit] /\ s[0] = d /\ \A i \in 1 .. m : s[i] = Feed(s[i - 1], p[i])
      /\ t \in [0 .. n -> Fit] /\ t[0] = s[m] /\ \A i \in 1 .. n : t[i] = Feed(t[i - 1], q[i])
    BY DEF Way
<1>3. w \in [0 .. m + n -> Fit] /\ w[0] = d
    <2>1. ASSUME NEW i \in 0 .. m + n PROVE (IF i <= m THEN s[i] ELSE t[i - m]) \in Fit
        <3>1. CASE i <= m
            BY <1>1, <1>2, <3>1
        <3>2. CASE ~(i <= m)
            <4>1. i - m \in 0 .. n
                BY <1>1, <3>2
            <4> QED
                BY <1>2, <3>2, <4>1
        <3> QED
            BY <3>1, <3>2
    <2> QED
        BY <1>1, <1>2, <2>1
<1>4. ASSUME NEW i \in 1 .. m + n PROVE w[i] = Feed(w[i - 1], (p \o q)[i])
    <2>1. CASE i <= m
        <3>1. w[i] = s[i] /\ w[i - 1] = s[i - 1] /\ i \in 1 .. m
            BY <1>1, <2>1
        <3> QED
            BY <1>1, <1>2, <3>1
    <2>2. CASE i > m
        <3> DEFINE j == i - m
        <3>1. j \in 1 .. n /\ w[i] = t[j] /\ (p \o q)[i] = q[j]
            BY <1>1, <2>2
        <3>2. w[i - 1] = t[j - 1]
            <4>1. CASE i = m + 1
                BY <1>1, <1>2, <4>1
            <4>2. CASE i > m + 1
                BY <1>1, <2>2, <4>2
            <4> QED
                BY <1>1, <2>2, <4>1, <4>2
        <3> HIDE DEF j, w
        <3> QED
            BY <1>2, <3>1, <3>2
    <2> QED
        BY <1>1, <2>1, <2>2
<1> HIDE DEF m, n
<1> QED
    BY <1>1, <1>3, <1>4 DEF Way, m, n, Joined

LEMMA WayCut ==
    ASSUME NEW d \in Fit, NEW p \in Seq(Nat), NEW s, Way(d, p, s), NEW m \in 0 .. Len(p)
    PROVE  /\ Way(d, SubSeq(p, 1, m), [i \in 0 .. m |-> s[i]])
           /\ Way(s[m], SubSeq(p, m + 1, Len(p)), [i \in 0 .. Len(p) - m |-> s[i + m]])
<1> DEFINE n == Len(p)
           front == SubSeq(p, 1, m)
           back == SubSeq(p, m + 1, n)
           s1 == [i \in 0 .. m |-> s[i]]
           s2 == [i \in 0 .. n - m |-> s[i + m]]
<1>1. /\ m \in Nat /\ n \in Nat /\ m <= n
      /\ front \in Seq(Nat) /\ Len(front) = m /\ \A i \in 1 .. m : front[i] = p[i]
      /\ back \in Seq(Nat) /\ Len(back) = n - m /\ \A i \in 1 .. n - m : back[i] = p[i + m]
    <2>1. m \in Nat /\ n \in Nat /\ m <= n
        OBVIOUS
    <2>2. front \in Seq(Nat) /\ Len(front) = m /\ \A i \in 1 .. m : front[i] = p[i]
        BY <2>1
    <2>3. back \in Seq(Nat) /\ Len(back) = n - m /\ \A i \in 1 .. n - m : back[i] = p[i + m]
        BY <2>1
    <2> QED
        BY <2>1, <2>2, <2>3
<1>2. s \in [0 .. n -> Fit] /\ s[0] = d /\ \A i \in 1 .. n : s[i] = Feed(s[i - 1], p[i])
    BY DEF Way
<1> HIDE DEF front, back, n
<1>3. s1 \in [0 .. m -> Fit] /\ s1[0] = d /\ \A i \in 1 .. m : s1[i] = Feed(s1[i - 1], front[i])
    <2>1. s1 \in [0 .. m -> Fit] /\ s1[0] = d
        BY <1>1, <1>2
    <2>2. ASSUME NEW i \in 1 .. m PROVE s1[i] = Feed(s1[i - 1], front[i])
        <3>1. i \in 1 .. n /\ s1[i] = s[i] /\ s1[i - 1] = s[i - 1]
            BY <1>1
        <3> HIDE DEF s1
        <3> QED
            BY <1>1, <1>2, <3>1
    <2> QED
        BY <2>1, <2>2
<1>4. /\ s2 \in [0 .. n - m -> Fit] /\ s2[0] = s[m]
      /\ \A i \in 1 .. n - m : s2[i] = Feed(s2[i - 1], back[i])
    <2>1. s2 \in [0 .. n - m -> Fit] /\ s2[0] = s[m]
        BY <1>1, <1>2
    <2>2. ASSUME NEW i \in 1 .. n - m PROVE s2[i] = Feed(s2[i - 1], back[i])
        <3>1. i + m \in 1 .. n /\ (i + m) - 1 = (i - 1) + m /\ i - 1 \in 0 .. n - m
            BY <1>1
        <3>2. s2[i] = s[i + m] /\ s2[i - 1] = s[(i - 1) + m]
            BY <1>1, <3>1
        <3>3. s[i + m] = Feed(s[(i + m) - 1], p[i + m])
            BY <1>2, <3>1
        <3> HIDE DEF s2
        <3> QED
            BY <1>1, <3>1, <3>2, <3>3
    <2> QED
        BY <2>1, <2>2
<1> HIDE DEF s1, s2
<1> QED
    BY <1>1, <1>3, <1>4 DEF Way, s1, s2, front, back, n

LEMMA WayOfNothing == ASSUME NEW d \in Fit PROVE Way(d, <<>>, [i \in 0 .. 0 |-> d])
    BY DEF Way

LEMMA WayOfOne ==
    ASSUME NEW d \in Fit, NEW b \in Nat
    PROVE  Way(d, <<b>>, [i \in 0 .. 1 |-> IF i = 0 THEN d ELSE Feed(d, b)])
<1> DEFINE s == [i \in 0 .. 1 |-> IF i = 0 THEN d ELSE Feed(d, b)]
<1>1. <<b>> \in Seq(Nat) /\ Len(<<b>>) = 1 /\ <<b>>[1] = b
    OBVIOUS
<1>2. s \in [0 .. 1 -> Fit]
    BY FeedType
<1>3. s[0] = d /\ s[1] = Feed(d, b)
    OBVIOUS
<1> HIDE DEF s
<1>4. ASSUME NEW i \in 1 .. 1 PROVE s[i] = Feed(s[i - 1], <<b>>[i])
    <2>1. i = 1
        OBVIOUS
    <2> QED
        BY <1>1, <1>3, <2>1
<1>5. Way(d, <<b>>, s)
    BY <1>1, <1>2, <1>3, <1>4 DEF Way
<1> QED
    BY <1>5 DEF s

\* FlattenSeq as a recursion that begins with nothing.
LEMMA Flattened ==
    ASSUME NEW n \in Nat, NEW q \in [1 .. n -> Seq(Nat)]
    PROVE  \E f \in [0 .. n -> Seq(Nat)] :
              /\ f[0] = <<>> /\ \A i \in 1 .. n : f[i] = f[i - 1] \o q[i]
              /\ FlattenSeq(q) = f[n]
<1> DEFINE h(i) == [e \in Seq(Nat) |-> e \o q[i]]
           g == [i \in 1 .. n |-> h(i)]
<1>1. g \in [1 .. n -> [Seq(Nat) -> Seq(Nat)]]
    <2>1. ASSUME NEW i \in 1 .. n PROVE h(i) \in [Seq(Nat) -> Seq(Nat)]
        OBVIOUS
    <2> HIDE DEF h
    <2> QED
        BY <2>1
<1> DEFINE Folds(A, a, r) ==
               \E f \in [0 .. n -> A] : f[0] = a /\ \A i \in 1 .. n : f[i] = r[i][f[i - 1]]
<1>2. \A A : \A a \in A : \A r \in [1 .. n -> [A -> A]] : Folds(A, a, r)
    BY Recursion
<1>3. Folds(Seq(Nat), <<>>, g)
    <2> HIDE DEF Folds, g
    <2>1. <<>> \in Seq(Nat)
        OBVIOUS
    <2> QED
        BY <1>1, <1>2, <2>1
<1>4. PICK f \in [0 .. n -> Seq(Nat)] : f[0] = <<>> /\ \A i \in 1 .. n : f[i] = g[i][f[i - 1]]
    BY <1>3
<1>5. ASSUME NEW i \in 1 .. n PROVE f[i] = f[i - 1] \o q[i]
    <2>1. f[i - 1] \in Seq(Nat)
        OBVIOUS
    <2> QED
        BY <1>4, <2>1
<1>6. Len(q) = n
    OBVIOUS
<1> HIDE DEF h, g
<1> DEFINE Cat(a, b) == a \o b
<1>c. \A i \in 1 .. n : f[i] = Cat(f[i - 1], q[i])
    BY <1>5
<1>7. FlattenSeq(q) = f[n]
    <2>1. CASE n = 0
        <3>1. q = <<>>
            BY <2>1
        <3>2. FlattenSeq(q) = q
            BY <1>6, <2>1 DEF FlattenSeq
        <3> QED
            BY <1>4, <2>1, <3>1, <3>2
    <2>2. CASE n # 0
        <3> DEFINE F(e) == [i \in 1 .. n |-> IF i = 1 THEN q[i] ELSE e[i - 1] \o q[i]]
                   flatten == CHOOSE e : e = F(e)
                   e0 == [i \in 1 .. n |-> f[i]]
        <3>0. f[1] = q[1]
            <4>1. 1 \in 1 .. n /\ f[0] = <<>> /\ q[1] \in Seq(Nat)
                BY <1>4, <2>2
            <4>2. Cat(<<>>, q[1]) = q[1]
                BY <4>1
            <4> HIDE DEF Cat
            <4>3. f[1] = Cat(f[1 - 1], q[1])
                BY <1>c, <4>1
            <4> QED
                BY <4>1, <4>2, <4>3
        <3>1. e0 = F(e0)
            <4>1. ASSUME NEW i \in 1 .. n PROVE f[i] = IF i = 1 THEN q[i] ELSE Cat(e0[i - 1], q[i])
                <5>1. CASE i = 1
                    BY <3>0, <5>1
                <5>2. CASE i # 1
                    <6>1. e0[i - 1] = f[i - 1]
                        BY <5>2
                    <6> HIDE DEF Cat, e0
                    <6> QED
                        BY <1>c, <5>2, <6>1
                <5> QED
                    BY <5>1, <5>2
            <4> QED
                BY <4>1
        <3>2. flatten = F(flatten)
            <4> HIDE DEF F, e0
            <4> QED
                BY <3>1
        <3>3. FlattenSeq(q) = flatten[n]
            BY <1>6, <2>2 DEF FlattenSeq
        <3> HIDE DEF flatten
        <3> DEFINE S == {i \in Nat : i < n => flatten[i + 1] = f[i + 1]}
        <3>4. 0 \in S
            BY <2>2, <3>0, <3>2
        <3>5. ASSUME NEW i \in Nat, i \in S PROVE i + 1 \in S
            <4> SUFFICES ASSUME i + 1 < n PROVE flatten[(i + 1) + 1] = f[(i + 1) + 1]
                OBVIOUS
            <4>1. flatten[i + 1] = f[i + 1]
                BY <3>5
            <4>2. flatten[(i + 1) + 1] = Cat(flatten[i + 1], q[(i + 1) + 1])
                <5>1. (i + 1) + 1 \in 1 .. n /\ (i + 1) + 1 # 1 /\ ((i + 1) + 1) - 1 = i + 1
                    OBVIOUS
                <5>2. \A j \in 1 .. n : flatten[j] = IF j = 1 THEN q[j] ELSE Cat(flatten[j - 1], q[j])
                    BY <3>2
                <5> HIDE DEF Cat
                <5> QED
                    BY <5>1, <5>2
            <4>3. f[(i + 1) + 1] = Cat(f[i + 1], q[(i + 1) + 1])
                <5>1. (i + 1) + 1 \in 1 .. n /\ ((i + 1) + 1) - 1 = i + 1
                    OBVIOUS
                <5> HIDE DEF Cat
                <5> QED
                    BY <1>c, <5>1
            <4> HIDE DEF Cat
            <4> QED
                BY <4>1, <4>2, <4>3
        <3>6. n - 1 \in S
            <4>1. n - 1 \in Nat
                BY <2>2
            <4> HIDE DEF S
            <4> QED
                BY <3>4, <3>5, <4>1, Induction
        <3> QED
            BY <2>2, <3>3, <3>6
    <2> QED
        BY <2>1, <2>2
<1> QED
    BY <1>4, <1>5, <1>7

----------------------------------------------------------------------------
\* What encodeFrame writes, decodeFrameEx reads.

Leads(d, bytes, e) == \E s : Way(d, bytes, s) /\ s[Len(bytes)] = e
FendFree(bytes) == \A i \in 1 .. Len(bytes) : bytes[i] # FEND

LEMMA LeadsOn ==
    ASSUME NEW d \in Fit, NEW p \in Seq(Nat), NEW q \in Seq(Nat), NEW e, NEW g,
           Leads(d, p, e), Leads(e, q, g)
    PROVE  Leads(d, p \o q, g)
<1>1. PICK s : Way(d, p, s) /\ s[Len(p)] = e
    BY DEF Leads
<1>2. PICK t : Way(e, q, t) /\ t[Len(q)] = g
    BY DEF Leads
<1> DEFINE w == [i \in 0 .. Len(p) + Len(q) |-> IF i <= Len(p) THEN s[i] ELSE t[i - Len(p)]]
<1>3. Way(d, p \o q, w)
    BY <1>1, <1>2, WayJoin DEF Joined
<1>4. w[Len(p \o q)] = g
    <2>1. Len(p) \in Nat /\ Len(q) \in Nat /\ Len(p \o q) = Len(p) + Len(q)
        OBVIOUS
    <2>2. CASE Len(q) = 0
        <3>1. t[0] = e
            BY <1>2 DEF Way
        <3> QED
            BY <1>1, <1>2, <2>1, <2>2, <3>1
    <2>3. CASE Len(q) # 0
        BY <1>2, <2>1, <2>3
    <2> QED
        BY <2>2, <2>3
<1> HIDE DEF w
<1> QED
    BY <1>3, <1>4 DEF Leads

LEMMA LeadsByOne ==
    ASSUME NEW d \in Fit, NEW b \in Nat
    PROVE  Leads(d, <<b>>, Feed(d, b))
<1> DEFINE s == [i \in 0 .. 1 |-> IF i = 0 THEN d ELSE Feed(d, b)]
<1>1. Way(d, <<b>>, s)
    BY WayOfOne
<1>2. s[Len(<<b>>)] = Feed(d, b)
    OBVIOUS
<1> HIDE DEF s
<1> QED
    BY <1>1, <1>2 DEF Leads

LEMMA JoinedFendFree ==
    ASSUME NEW p \in Seq(Nat), NEW q \in Seq(Nat), FendFree(p), FendFree(q)
    PROVE  FendFree(p \o q)
<1> SUFFICES ASSUME NEW i \in 1 .. Len(p \o q) PROVE (p \o q)[i] # FEND
    BY DEF FendFree
<1>1. CASE i <= Len(p)
    BY <1>1 DEF FendFree
<1>2. CASE i > Len(p)
    <2>1. i - Len(p) \in 1 .. Len(q) /\ (p \o q)[i] = q[i - Len(p)]
        BY <1>2
    <2> QED
        BY <2>1 DEF FendFree
<1> QED
    BY <1>1, <1>2

LEMMA TwoSymbols ==
    ASSUME NEW a \in Nat, NEW b \in Nat
    PROVE  <<a>> \in Seq(Nat) /\ <<b>> \in Seq(Nat) /\ <<a, b>> \in Seq(Nat)
           /\ <<a>> \o <<b>> = <<a, b>>
<1>1. <<a>> \in Seq(Nat) /\ <<b>> \in Seq(Nat) /\ <<a, b>> \in Seq(Nat)
    OBVIOUS
<1> DEFINE c == <<a>> \o <<b>>
<1>2. c \in Seq(Nat) /\ Len(c) = 2 /\ c[1] = a /\ c[2] = b
    OBVIOUS
<1> HIDE DEF c
<1>3. c = <<a, b>>
    BY <1>2
<1> QED
    BY <1>1, <1>3 DEF c

LEMMA EscapeIsRead ==
    ASSUME NEW buf \in Seq(Nat), Len(buf) <= MaxLen, NEW b \in Nat
    PROVE  /\ Escape(b) \in Seq(Nat) /\ FendFree(Escape(b))
           /\ InFrame(buf, FALSE) \in Fit
           /\ Leads(InFrame(buf, FALSE), Escape(b), InFrame(Append(buf, b), FALSE))
<1> DEFINE d == InFrame(buf, FALSE)
<1>1. d \in Fit /\ d.state = "IN_FRAME" /\ d.buf = buf /\ d.overflow = FALSE
    BY MaxLenAssumption DEF Fit, Decoder, InFrame
<1>2. Escaping(d) \in Fit /\ Escaping(d).state = "ESCAPE" /\ Escaping(d).buf = buf
      /\ Escaping(d).overflow = FALSE
    BY <1>1, BasicFit DEF Escaping
<1> HIDE DEF d
<1>3. Len(buf) < MaxLen + 1
    BY MaxLenAssumption
<1>4. \A c \in Nat : /\ Store(d, c) = InFrame(Append(buf, c), FALSE)
                     /\ Store(Escaping(d), c) = InFrame(Append(buf, c), FALSE)
    BY <1>1, <1>2, <1>3 DEF Store
<1>5. ASSUME NEW c \in Nat, NEW t \in Nat, NEW e, Escape(b) = <<FESC, t>>,
             Feed(Escaping(d), t) = e, t # FEND
      PROVE  Escape(b) \in Seq(Nat) /\ FendFree(Escape(b)) /\ Leads(d, Escape(b), e)
    <2>1. Feed(d, FESC) = Escaping(d)
        BY <1>1 DEF Feed, FEND, FESC
    <2>2. FESC \in Nat /\ FESC # FEND
        BY DEF FESC, FEND
    <2>3. Leads(d, <<FESC>>, Escaping(d)) /\ Leads(Escaping(d), <<t>>, e)
        BY <1>1, <1>2, <1>5, <2>1, <2>2, LeadsByOne
    <2>4. <<FESC>> \in Seq(Nat) /\ <<t>> \in Seq(Nat) /\ <<FESC>> \o <<t>> = <<FESC, t>>
        BY <2>2, TwoSymbols
    <2>5. Leads(d, <<FESC, t>>, e)
        BY <1>1, <2>3, <2>4, LeadsOn
    <2>6. <<FESC, t>> \in Seq(Nat) /\ FendFree(<<FESC, t>>)
        BY <1>5, <2>2 DEF FendFree
    <2> QED
        BY <1>5, <2>5, <2>6
<1>6. CASE b = FEND
    <2>1. Escape(b) = <<FESC, TFEND>> /\ TFEND \in Nat /\ TFEND # FEND /\ FEND \in Nat
        BY <1>6 DEF Escape, FEND, FESC, TFEND
    <2>2. Feed(Escaping(d), TFEND) = InFrame(Append(buf, b), FALSE)
        <3>1. Feed(Escaping(d), TFEND) = Store(Escaping(d), FEND)
            BY <1>2 DEF Feed, TFEND, TFESC
        <3> QED
            BY <1>4, <1>6, <2>1, <3>1
    <2> QED
        BY <1>1, <1>5, <2>1, <2>2 DEF d
<1>7. CASE b = FESC
    <2>1. Escape(b) = <<FESC, TFESC>> /\ TFESC \in Nat /\ TFESC # FEND /\ FESC \in Nat
        BY <1>7 DEF Escape, FEND, FESC, TFESC
    <2>2. Feed(Escaping(d), TFESC) = InFrame(Append(buf, b), FALSE)
        <3>1. Feed(Escaping(d), TFESC) = Store(Escaping(d), FESC)
            BY <1>2 DEF Feed, TFESC, TFEND
        <3> QED
            BY <1>4, <1>7, <2>1, <3>1
    <2> QED
        BY <1>1, <1>5, <2>1, <2>2 DEF d
<1>8. CASE b \notin {FEND, FESC}
    <2>1. Escape(b) = <<b>>
        BY <1>8 DEF Escape
    <2>2. Feed(d, b) = InFrame(Append(buf, b), FALSE)
        <3>1. Feed(d, b) = Store(d, b)
            BY <1>1, <1>8 DEF Feed
        <3> QED
            BY <1>4, <3>1
    <2>3. Leads(d, <<b>>, InFrame(Append(buf, b), FALSE))
        BY <1>1, <2>2, LeadsByOne
    <2>4. <<b>> \in Seq(Nat) /\ FendFree(<<b>>)
        BY <1>8 DEF FendFree
    <2> QED
        BY <1>1, <2>1, <2>3, <2>4 DEF d
<1> QED
    BY <1>6, <1>7, <1>8

\* The first m payload bytes behind the type byte.
Filled(cmd, p, m) == [i \in 1 .. m + 1 |-> IF i = 1 THEN cmd ELSE p[i - 1]]

LEMMA FilledGrows ==
    ASSUME NEW cmd \in Nat, NEW p \in Seq(Nat), NEW m \in Nat, m <= Len(p)
    PROVE  /\ Filled(cmd, p, m) \in Seq(Nat) /\ Len(Filled(cmd, p, m)) = m + 1
           /\ m < Len(p) => Append(Filled(cmd, p, m), p[m + 1]) = Filled(cmd, p, m + 1)
           /\ Filled(cmd, p, 0) = <<cmd>>
           /\ Head(Filled(cmd, p, Len(p))) = cmd /\ Tail(Filled(cmd, p, Len(p))) = p
<1>1. ASSUME NEW k \in Nat, k <= Len(p)
      PROVE  /\ Filled(cmd, p, k) \in Seq(Nat) /\ Len(Filled(cmd, p, k)) = k + 1
             /\ Filled(cmd, p, k)[1] = cmd
             /\ \A i \in 1 .. k : Filled(cmd, p, k)[i + 1] = p[i]
    BY <1>1 DEF Filled
<1>2. ASSUME m < Len(p) PROVE Append(Filled(cmd, p, m), p[m + 1]) = Filled(cmd, p, m + 1)
    <2> DEFINE a == Filled(cmd, p, m)
               b == Filled(cmd, p, m + 1)
    <2>1. /\ a \in Seq(Nat) /\ Len(a) = m + 1 /\ a[1] = cmd /\ \A i \in 1 .. m : a[i + 1] = p[i]
          /\ b \in Seq(Nat) /\ Len(b) = m + 2 /\ b[1] = cmd /\ \A i \in 1 .. m + 1 : b[i + 1] = p[i]
        BY <1>1, <1>2
    <2>2. p[m + 1] \in Nat
        BY <1>2
    <2> HIDE DEF a, b
    <2>3. Append(a, p[m + 1]) \in Seq(Nat) /\ Len(Append(a, p[m + 1])) = m + 2
        BY <2>1, <2>2
    <2>4. ASSUME NEW i \in 1 .. m + 2 PROVE Append(a, p[m + 1])[i] = b[i]
        <3>1. CASE i = 1
            BY <2>1, <3>1
        <3>2. CASE i \in 2 .. m + 1
            <4>1. i - 1 \in 1 .. m /\ i - 1 \in 1 .. m + 1 /\ (i - 1) + 1 = i
                BY <3>2
            <4>2. a[(i - 1) + 1] = p[i - 1] /\ b[(i - 1) + 1] = p[i - 1]
                BY <2>1, <4>1
            <4>3. Append(a, p[m + 1])[i] = a[i]
                BY <2>1, <3>2
            <4> QED
                BY <4>1, <4>2, <4>3
        <3>3. CASE i = m + 2
            BY <2>1, <3>3
        <3>4. i = 1 \/ i \in 2 .. m + 1 \/ i = m + 2
            OBVIOUS
        <3> QED
            BY <3>1, <3>2, <3>3, <3>4
    <2>5. Append(a, p[m + 1]) = b
        BY <2>1, <2>3, <2>4
    <2> QED
        BY <2>5 DEF a, b
<1>3. Filled(cmd, p, 0) = <<cmd>>
    BY DEF Filled
<1>4. Head(Filled(cmd, p, Len(p))) = cmd /\ Tail(Filled(cmd, p, Len(p))) = p
    <2> DEFINE a == Filled(cmd, p, Len(p))
    <2>1. a \in Seq(Nat) /\ Len(a) = Len(p) + 1 /\ a[1] = cmd /\ \A i \in 1 .. Len(p) : a[i + 1] = p[i]
        BY <1>1
    <2> HIDE DEF a
    <2>2. Head(a) = cmd /\ Tail(a) = p
        BY <2>1
    <2> QED
        BY <2>2 DEF a
<1> QED
    BY <1>1, <1>2, <1>3, <1>4

FrameOf(cmd, body) == (<<FEND, cmd>> \o body) \o <<FEND>>

\* A frame is FEND, type, a body without FEND, FEND; and the body of a payload
\* that fits is read as that payload.
LEMMA Coding ==
    ASSUME NEW cmd \in Nat, NEW p \in Seq(Nat)
    PROVE  \E body \in Seq(Nat) :
              /\ EncodeFrame(cmd, p) = FrameOf(cmd, body)
              /\ FendFree(body)
              /\ Len(p) <= MaxLen =>
                     Leads(InFrame(<<cmd>>, FALSE), body, InFrame(Filled(cmd, p, Len(p)), FALSE))
<1> DEFINE n == Len(p)
           q == [i \in 1 .. n |-> Escape(p[i])]
<1>1. n \in Nat /\ DOMAIN p = 1 .. n /\ \A i \in 1 .. n : p[i] \in Nat
    OBVIOUS
<1>2. \A b \in Nat : Escape(b) \in Seq(Nat) /\ FendFree(Escape(b))
    <2>1. <<>> \in Seq(Nat) /\ Len(<<>>) <= MaxLen
        BY MaxLenAssumption
    <2> QED
        BY <2>1, EscapeIsRead
<1>3. q \in [1 .. n -> Seq(Nat)] /\ \A i \in 1 .. n : q[i] = Escape(p[i])
    BY <1>1, <1>2
<1>4. EncodeFrame(cmd, p) = FrameOf(cmd, FlattenSeq(q))
    BY <1>1 DEF EncodeFrame, FrameOf
<1> HIDE DEF n, q
<1>5. PICK f \in [0 .. n -> Seq(Nat)] :
          /\ f[0] = <<>> /\ \A i \in 1 .. n : f[i] = f[i - 1] \o q[i]
          /\ FlattenSeq(q) = f[n]
    BY <1>1, <1>3, Flattened
<1> DEFINE Read(m) == Leads(InFrame(<<cmd>>, FALSE), f[m], InFrame(Filled(cmd, p, m), FALSE))
           S == {m \in Nat : m <= n => FendFree(f[m]) /\ (n <= MaxLen => Read(m))}
<1>6. InFrame(<<cmd>>, FALSE) \in Fit
    <2>1. <<cmd>> \in Seq(Nat) /\ Len(<<cmd>>) <= MaxLen + 1
        BY MaxLenAssumption
    <2> QED
        BY <2>1 DEF Fit, Decoder, InFrame
<1>7. 0 \in S
    <2>1. FendFree(f[0])
        BY <1>5 DEF FendFree
    <2>2. Read(0)
        <3>1. Filled(cmd, p, 0) = <<cmd>>
            BY FilledGrows DEF Filled
        <3> DEFINE d == InFrame(<<cmd>>, FALSE)
                   s == [i \in 0 .. 0 |-> d]
        <3>2. Way(d, <<>>, s) /\ s[0] = d /\ Len(<<>>) = 0
            <4>1. s[0] = d /\ Len(<<>>) = 0
                OBVIOUS
            <4> HIDE DEF d
            <4>2. Way(d, <<>>, s)
                BY <1>6, WayOfNothing DEF d
            <4> QED
                BY <4>1, <4>2
        <3> HIDE DEF d, s
        <3>3. Leads(d, <<>>, d)
            BY <3>2 DEF Leads
        <3> QED
            BY <1>5, <3>1, <3>3 DEF d
    <2> QED
        BY <2>1, <2>2
<1>8. ASSUME NEW m \in Nat, m \in S PROVE m + 1 \in S
    <2> HIDE DEF Read
    <2> SUFFICES ASSUME m + 1 <= n PROVE FendFree(f[m + 1]) /\ (n <= MaxLen => Read(m + 1))
        OBVIOUS
    <2> DEFINE b == p[m + 1]
               buf == Filled(cmd, p, m)
               old == f[m]
               new == f[m + 1]
    <2>1. b \in Nat /\ m < n /\ m <= n /\ m + 1 \in 1 .. n /\ m \in 0 .. n /\ m + 1 \in 0 .. n
        BY <1>1
    <2>2. new = old \o Escape(b)
        <3>1. f[m + 1] = f[(m + 1) - 1] \o q[m + 1]
            BY <1>5, <2>1
        <3>2. (m + 1) - 1 = m /\ q[m + 1] = Escape(b)
            BY <1>3, <2>1
        <3> QED
            BY <3>1, <3>2
    <2>3. FendFree(old) /\ (n <= MaxLen => Read(m)) /\ old \in Seq(Nat)
        BY <1>5, <1>8, <2>1
    <2>4. Escape(b) \in Seq(Nat) /\ FendFree(Escape(b))
        BY <1>2, <2>1
    <2> HIDE DEF old, new
    <2>5. FendFree(new)
        <3> DEFINE e == Escape(b)
        <3> HIDE DEF e
        <3>1. old \in Seq(Nat) /\ e \in Seq(Nat) /\ FendFree(old) /\ FendFree(e) /\ new = old \o e
            BY <2>2, <2>3, <2>4 DEF e
        <3> QED
            BY <3>1, JoinedFendFree
    <2>6. ASSUME n <= MaxLen PROVE Read(m + 1)
        <3>1. buf \in Seq(Nat) /\ Len(buf) = m + 1 /\ Append(buf, b) = Filled(cmd, p, m + 1)
            BY <2>1, FilledGrows DEF n
        <3>2. Leads(InFrame(<<cmd>>, FALSE), old, InFrame(buf, FALSE))
            BY <2>3, <2>6 DEF old, Read
        <3> HIDE DEF b, buf
        <3>3. Len(buf) <= MaxLen
            BY <2>1, <2>6, <3>1, <1>1, MaxLenAssumption
        <3>4. Leads(InFrame(buf, FALSE), Escape(b), InFrame(Append(buf, b), FALSE))
            BY <2>1, <3>1, <3>3, EscapeIsRead
        <3>5. Leads(InFrame(<<cmd>>, FALSE), old \o Escape(b), InFrame(Append(buf, b), FALSE))
            BY <1>6, <2>3, <2>4, <3>2, <3>4, LeadsOn
        <3> QED
            BY <2>2, <3>1, <3>5 DEF new, Read
    <2> QED
        BY <2>5, <2>6 DEF new
<1>9. n \in S
    <2> HIDE DEF S
    <2> QED
        BY <1>1, <1>7, <1>8, Induction
<1>10. f[n] \in Seq(Nat) /\ FendFree(f[n]) /\ (n <= MaxLen => Read(n))
    <2> HIDE DEF Read
    <2> QED
        BY <1>1, <1>5, <1>9
<1> QED
    BY <1>4, <1>5, <1>10 DEF n

LEMMA FrameShape ==
    ASSUME NEW cmd \in Nat, NEW body \in Seq(Nat), FendFree(body)
    PROVE  /\ FrameOf(cmd, body) \in Seq(Nat) /\ Len(body) \in Nat
           /\ Len(FrameOf(cmd, body)) = Len(body) + 3
           /\ FrameOf(cmd, body)[1] = FEND /\ FrameOf(cmd, body)[2] = cmd
           /\ FrameOf(cmd, body)[Len(body) + 3] = FEND
           /\ \A i \in 3 .. Len(body) + 2 : FrameOf(cmd, body)[i] # FEND
<1> DEFINE a == <<FEND, cmd>>
           z == <<FEND>>
           n == Len(body)
           ab == a \o body
           e == ab \o z
<1>0. FEND \in Nat
    BY DEF FEND
<1>1. a \in Seq(Nat) /\ Len(a) = 2 /\ a[1] = FEND /\ a[2] = cmd
    BY <1>0
<1>2. z \in Seq(Nat) /\ Len(z) = 1 /\ z[1] = FEND
    BY <1>0
<1> HIDE DEF a, z
<1>3. /\ ab \in Seq(Nat) /\ n \in Nat /\ Len(ab) = 2 + n
      /\ \A i \in 1 .. 2 : ab[i] = a[i]
      /\ \A i \in 1 .. n : ab[2 + i] = body[i]
    <2>1. /\ a \o body \in Seq(Nat) /\ Len(a) \in Nat /\ Len(body) \in Nat
          /\ Len(a \o body) = Len(a) + Len(body)
          /\ \A i \in 1 .. Len(a) : (a \o body)[i] = a[i]
          /\ \A i \in 1 .. Len(body) : (a \o body)[Len(a) + i] = body[i]
        BY <1>1, CatFacts, Zenon
    <2> HIDE DEF n, ab
    <2> QED
        BY <1>1, <2>1 DEF n, ab
<1> HIDE DEF ab
<1>4. /\ e \in Seq(Nat) /\ Len(e) = Len(ab) + 1
      /\ \A i \in 1 .. Len(ab) : e[i] = ab[i]
      /\ \A i \in 1 .. 1 : e[Len(ab) + i] = z[i]
    <2>1. /\ ab \o z \in Seq(Nat) /\ Len(ab) \in Nat /\ Len(z) \in Nat
          /\ Len(ab \o z) = Len(ab) + Len(z)
          /\ \A i \in 1 .. Len(ab) : (ab \o z)[i] = ab[i]
          /\ \A i \in 1 .. Len(z) : (ab \o z)[Len(ab) + i] = z[i]
        BY <1>2, <1>3, CatFacts, Zenon
    <2> QED
        BY <1>2, <2>1
<1> HIDE DEF e, n
<1>5. ASSUME NEW i \in 3 .. n + 2 PROVE e[i] # FEND
    <2>1. i - 2 \in 1 .. n /\ i \in 1 .. Len(ab) /\ 2 + (i - 2) = i
        BY <1>3
    <2>2. e[i] = body[i - 2]
        BY <1>3, <1>4, <2>1
    <2> QED
        BY <2>1, <2>2 DEF FendFree, n
<1>6. e[1] = FEND /\ e[2] = cmd
    BY <1>1, <1>3, <1>4
<1>7. e[n + 3] = FEND
    <2>1. n + 3 = Len(ab) + 1 /\ 1 \in 1 .. 1
        BY <1>3
    <2> QED
        BY <1>2, <1>4, <2>1
<1>8. e \in Seq(Nat) /\ Len(e) = n + 3 /\ n \in Nat
    BY <1>3, <1>4
<1> QED
    BY <1>5, <1>6, <1>7, <1>8 DEF FrameOf, e, ab, a, z, n

LEMMA OnlyFendCompletes == ASSUME NEW d, NEW b, b # FEND PROVE Completed(d, b) = {}
    BY DEF Completed

\* A whole frame takes an idle decoder through one completion and back.
LEMMA FrameIsRead ==
    ASSUME NEW cmd \in Nat \ {FEND, FESC}, NEW p \in Seq(Nat), Len(p) <= MaxLen,
           NEW e, e = EncodeFrame(cmd, p)
    PROVE  /\ e \in Seq(Nat) /\ Len(e) \in Nat /\ Len(e) >= 3
           /\ \E s : /\ Way(IdleDecoder, e, s) /\ s[Len(e)] = IdleDecoder
                     /\ \A i \in 1 .. Len(e) - 1 : Completed(s[i - 1], e[i]) = {}
                     /\ Completed(s[Len(e) - 1], e[Len(e)]) = {[command |-> cmd, payload |-> p]}
<1>1. PICK body \in Seq(Nat) :
          /\ e = FrameOf(cmd, body) /\ FendFree(body)
          /\ Leads(InFrame(<<cmd>>, FALSE), body, InFrame(Filled(cmd, p, Len(p)), FALSE))
    BY Coding
<1> DEFINE L == Len(e)
           open == InFrame(<<>>, FALSE)
           typed == InFrame(<<cmd>>, FALSE)
           full == InFrame(Filled(cmd, p, Len(p)), FALSE)
           front == <<FEND, cmd>> \o body
<1>2. /\ e \in Seq(Nat) /\ L \in Nat /\ L >= 3 /\ e[1] = FEND /\ e[2] = cmd /\ e[L] = FEND
      /\ \A i \in 3 .. L - 1 : e[i] # FEND
    <2>1. cmd \in Nat
        OBVIOUS
    <2>2. /\ e \in Seq(Nat) /\ Len(body) \in Nat /\ L = Len(body) + 3
          /\ e[1] = FEND /\ e[2] = cmd /\ e[Len(body) + 3] = FEND
          /\ \A i \in 3 .. Len(body) + 2 : e[i] # FEND
        <3> DEFINE Shape(c, b, f) ==
                /\ f \in Seq(Nat) /\ Len(b) \in Nat /\ Len(f) = Len(b) + 3
                /\ f[1] = FEND /\ f[2] = c /\ f[Len(b) + 3] = FEND
                /\ \A i \in 3 .. Len(b) + 2 : f[i] # FEND
        <3>1. \A c \in Nat : \A b \in Seq(Nat) : FendFree(b) => Shape(c, b, FrameOf(c, b))
            BY FrameShape
        <3>2. Shape(cmd, body, e)
            <4> HIDE DEF Shape
            <4> QED
                BY <1>1, <2>1, <3>1
        <3> QED
            BY <3>2
    <2> HIDE DEF L
    <2> QED
        BY <2>2
<1>3. FEND \in Nat /\ IdleDecoder \in Fit /\ open \in Fit
    BY BasicFit DEF FEND
<1>4. Feed(IdleDecoder, FEND) = open
    BY DEF Feed, IdleDecoder
<1>5. Feed(open, cmd) = typed
    <2>1. open.state = "IN_FRAME" /\ open.buf = <<>> /\ open.overflow = FALSE
        BY DEF InFrame
    <2>2. Store(open, cmd) = typed
        <3>1. Len(<<>>) < MaxLen + 1 /\ Append(<<>>, cmd) = <<cmd>>
            BY MaxLenAssumption
        <3> HIDE DEF open
        <3> QED
            BY <2>1, <3>1 DEF Store
    <2> HIDE DEF open
    <2> QED
        BY <2>1, <2>2 DEF Feed
<1>6. typed \in Fit
    BY <1>3, <1>5, FeedType
<1>7. Filled(cmd, p, Len(p)) \in Seq(Nat) /\ Len(Filled(cmd, p, Len(p))) = Len(p) + 1
      /\ Head(Filled(cmd, p, Len(p))) = cmd /\ Tail(Filled(cmd, p, Len(p))) = p /\ Len(p) \in Nat
    BY FilledGrows
<1>8. /\ full \in Fit /\ full.state = "IN_FRAME" /\ full.overflow = FALSE
      /\ full.buf = Filled(cmd, p, Len(p)) /\ full.buf # <<>>
    <2> DEFINE buf == Filled(cmd, p, Len(p))
    <2>1. buf \in Seq(Nat) /\ Len(buf) <= MaxLen + 1 /\ buf # <<>>
        BY <1>7, MaxLenAssumption
    <2> HIDE DEF buf
    <2>2. /\ InFrame(buf, FALSE) \in Fit /\ InFrame(buf, FALSE).state = "IN_FRAME"
          /\ InFrame(buf, FALSE).overflow = FALSE /\ InFrame(buf, FALSE).buf = buf
        BY <2>1 DEF Fit, Decoder, InFrame
    <2> QED
        BY <2>1, <2>2 DEF buf
<1>9. Feed(full, FEND) = IdleDecoder
    <2> HIDE DEF full
    <2> QED
        BY <1>8 DEF Feed, FEND, FESC
<1>10. Completed(full, FEND) = {[command |-> cmd, payload |-> p]}
    <2> HIDE DEF full
    <2> QED
        BY <1>7, <1>8 DEF Completed
<1> HIDE DEF open, typed, full
<1>11. Leads(IdleDecoder, front, full)
    <2>1. /\ <<FEND>> \in Seq(Nat) /\ <<cmd>> \in Seq(Nat) /\ <<FEND, cmd>> \in Seq(Nat)
          /\ <<FEND>> \o <<cmd>> = <<FEND, cmd>>
        BY <1>3, TwoSymbols
    <2>2. Leads(IdleDecoder, <<FEND>>, open) /\ Leads(open, <<cmd>>, typed)
        BY <1>3, <1>4, <1>5, LeadsByOne
    <2>3. Leads(IdleDecoder, <<FEND, cmd>>, typed)
        BY <1>3, <2>1, <2>2, LeadsOn
    <2>4. Leads(typed, body, full)
        BY <1>1 DEF typed, full
    <2> QED
        BY <1>3, <2>1, <2>3, <2>4, LeadsOn
<1>12. PICK s1 : Way(IdleDecoder, front, s1) /\ s1[Len(front)] = full
    BY <1>11 DEF Leads
<1>13. front \in Seq(Nat) /\ e = front \o <<FEND>> /\ <<FEND>> \in Seq(Nat) /\ Len(<<FEND>>) = 1
    <2>1. <<FEND, cmd>> \in Seq(Nat) /\ <<FEND>> \in Seq(Nat) /\ Len(<<FEND>>) = 1
        BY <1>3
    <2> DEFINE a == <<FEND, cmd>>
    <2> HIDE DEF a
    <2>2. a \o body \in Seq(Nat)
        BY <2>1 DEF a
    <2> QED
        BY <1>1, <2>1, <2>2 DEF a, FrameOf
<1> HIDE DEF front
<1> DEFINE z == <<FEND>>
           s2 == [i \in 0 .. 1 |-> IF i = 0 THEN full ELSE Feed(full, FEND)]
           s == Joined(front, z, s1, s2)
<1>14. Way(full, z, s2)
    BY <1>3, <1>8, WayOfOne
<1>15. z \in Seq(Nat) /\ Len(z) = 1 /\ e = front \o z
    BY <1>13
<1>16. s2[1] = IdleDecoder
    BY <1>9
<1> HIDE DEF z, s2
<1>17. Way(IdleDecoder, e, s)
    <2>1. Way(s1[Len(front)], z, s2)
        BY <1>12, <1>14
    <2>2. Way(IdleDecoder, front \o z, s)
        BY <1>3, <1>12, <1>13, <1>15, <2>1, WayJoin
    <2> HIDE DEF s
    <2> QED
        BY <1>15, <2>2
<1>18. Len(front) = L - 1 /\ Len(front) \in Nat
    BY <1>13, <1>15
<1>19. s[L] = IdleDecoder /\ s[L - 1] = full
    BY <1>2, <1>12, <1>15, <1>16, <1>18 DEF Joined
<1>20. s[0] = IdleDecoder
    BY <1>17 DEF Way
<1> HIDE DEF s
<1>21. ASSUME NEW i \in 1 .. L - 1 PROVE Completed(s[i - 1], e[i]) = {}
    <2>1. CASE i = 1
        BY <1>20, <2>1 DEF Completed, IdleDecoder
    <2>2. CASE i # 1
        <3>1. e[i] # FEND
            <4>1. CASE i = 2
                BY <1>2, <4>1
            <4>2. CASE i # 2
                <5>1. i \in 3 .. L - 1
                    BY <1>2, <2>2, <4>2
                <5> QED
                    BY <1>2, <5>1
            <4> QED
                BY <4>1, <4>2
        <3> QED
            BY <3>1, OnlyFendCompletes
    <2> QED
        BY <2>1, <2>2
<1>22. Completed(s[L - 1], e[L]) = {[command |-> cmd, payload |-> p]}
    BY <1>2, <1>10, <1>19
<1> QED
    BY <1>2, <1>17, <1>19, <1>21, <1>22

----------------------------------------------------------------------------
\* Which bytes can be taken for a command.

\* What is being read, if anything, is not a command; and: the next byte is a type.
Calm(d) == d.state # "IDLE" /\ d.buf # <<>> => Head(d.buf) # CONTROL_FRAME
Opened(d) == d.state = "IN_FRAME" /\ d.buf = <<>>

LEMMA FendCalms ==
    ASSUME NEW d \in Fit
    PROVE  Calm(Feed(d, FEND))
<1>1. Feed(d, FEND) \in {IdleDecoder, InFrame(<<>>, FALSE)}
    <2>1. d.state \in {"IDLE", "IN_FRAME", "ESCAPE"}
        BY FitIs
    <2>2. FEND \notin {FESC, TFEND, TFESC}
        BY DEF FEND, FESC, TFEND, TFESC
    <2>3. CASE d.state = "IDLE"
        BY <2>3 DEF Feed
    <2>4. CASE d.state = "IN_FRAME"
        BY <2>2, <2>4 DEF Feed
    <2>5. CASE d.state = "ESCAPE"
        BY <2>2, <2>5 DEF Feed
    <2> QED
        BY <2>1, <2>3, <2>4, <2>5
<1>2. Calm(IdleDecoder) /\ Calm(InFrame(<<>>, FALSE))
    BY DEF Calm, IdleDecoder, InFrame
<1> QED
    BY <1>1, <1>2

LEMMA CalmStep ==
    ASSUME NEW d \in Fit, Calm(d), NEW b \in Nat, b = CONTROL_FRAME => ~Opened(d)
    PROVE  Calm(Feed(d, b)) /\ \A f \in Completed(d, b) : f.command # CONTROL_FRAME
<1>1. /\ d.state \in {"IDLE", "IN_FRAME", "ESCAPE"} /\ d.buf \in Seq(Nat) /\ Len(d.buf) \in Nat
    BY FitIs
<1>2. ASSUME NEW c \in Nat, d.state # "IDLE", c = CONTROL_FRAME => d.buf # <<>>
      PROVE  Calm(Store(d, c))
    <2>1. CASE Len(d.buf) < MaxLen + 1
        <3>1. Store(d, c).buf = Append(d.buf, c)
            BY <2>1 DEF Store, InFrame
        <3>2. CASE d.buf = <<>>
            <4>1. Head(Append(d.buf, c)) = c
                BY <3>2
            <4> QED
                BY <1>2, <3>1, <3>2, <4>1 DEF Calm
        <3>3. CASE d.buf # <<>>
            <4>1. Head(Append(d.buf, c)) = Head(d.buf)
                BY <1>1, <3>3
            <4> QED
                BY <1>2, <3>1, <3>3, <4>1 DEF Calm
        <3> QED
            BY <3>2, <3>3
    <2>2. CASE ~(Len(d.buf) < MaxLen + 1)
        BY <1>2, <2>2 DEF Calm, Store, InFrame
    <2> QED
        BY <2>1, <2>2
<1>3. FEND \in Nat /\ FESC \in Nat /\ FEND # CONTROL_FRAME /\ FESC # CONTROL_FRAME
    BY DEF FEND, FESC, CONTROL_FRAME
<1>4. Calm(IdleDecoder) /\ Calm(InFrame(<<>>, FALSE))
    BY DEF Calm, IdleDecoder, InFrame
<1>5. Calm(Escaping(d)) \/ d.state = "IDLE"
    BY DEF Calm, Escaping
<1>6. Calm(Feed(d, b))
    <2>1. CASE d.state = "IDLE"
        <3>1. Feed(d, b) \in {InFrame(<<>>, FALSE), d}
            BY <2>1 DEF Feed
        <3> QED
            BY <1>4, <3>1
    <2>2. CASE d.state = "IN_FRAME"
        <3>1. CASE b \in {FEND, FESC}
            BY <1>4, <1>5, <2>2, <3>1 DEF Feed
        <3>2. CASE b \notin {FEND, FESC}
            <4>1. Feed(d, b) = Store(d, b)
                BY <2>2, <3>2 DEF Feed
            <4> QED
                BY <1>2, <2>2, <4>1 DEF Opened
        <3> QED
            BY <3>1, <3>2
    <2>3. CASE d.state = "ESCAPE"
        <3>1. Feed(d, b) \in {Store(d, FEND), Store(d, FESC), IdleDecoder}
            BY <2>3 DEF Feed
        <3>2. Calm(Store(d, FEND)) /\ Calm(Store(d, FESC))
            BY <1>2, <1>3, <2>3
        <3> QED
            BY <1>4, <3>1, <3>2
    <2> QED
        BY <1>1, <2>1, <2>2, <2>3
<1>7. ASSUME NEW f \in Completed(d, b) PROVE f.command # CONTROL_FRAME
    <2>1. d.state = "IN_FRAME" /\ d.buf # <<>> /\ f.command = Head(d.buf)
        BY DEF Completed
    <2> QED
        BY <2>1 DEF Calm
<1> QED
    BY <1>6, <1>7

LEMMA OnlyFendOpens ==
    ASSUME NEW d \in Fit, NEW b \in Nat, b # FEND
    PROVE  ~Opened(Feed(d, b))
<1>1. d.state \in {"IDLE", "IN_FRAME", "ESCAPE"}
    BY FitIs
<1>2. FEND \in Nat /\ FESC \in Nat
    BY DEF FEND, FESC
<1>3. \A c \in Nat : ~Opened(Store(d, c))
    BY StoreType DEF Opened
<1>4. ~Opened(IdleDecoder) /\ ~Opened(Escaping(d))
    BY DEF Opened, IdleDecoder, Escaping
<1>5. CASE d.state = "IDLE"
    BY <1>5 DEF Feed, Opened
<1>6. CASE d.state = "IN_FRAME"
    <2>1. Feed(d, b) \in {Escaping(d), Store(d, b)}
        BY <1>6 DEF Feed
    <2> QED
        BY <1>3, <1>4, <2>1
<1>7. CASE d.state = "ESCAPE"
    <2>1. Feed(d, b) \in {Store(d, FEND), Store(d, FESC), IdleDecoder}
        BY <1>7 DEF Feed
    <2> QED
        BY <1>2, <1>3, <1>4, <2>1
<1> QED
    BY <1>1, <1>5, <1>6, <1>7

\* Symbols in which no type byte of a command is preceded by a FEND: noise,
\* data frames, whole or broken off.
NoCommandIn(bytes) ==
    \A i \in 1 .. Len(bytes) : bytes[i] = CONTROL_FRAME => i # 1 /\ bytes[i - 1] # FEND

LEMMA CalmWay ==
    ASSUME NEW d \in Fit, NEW bytes \in Seq(Nat), NEW s, Way(d, bytes, s), Calm(d),
           NoCommandIn(bytes)
    PROVE  /\ Calm(s[Len(bytes)])
           /\ \A i \in 1 .. Len(bytes) :
                 \A f \in Completed(s[i - 1], bytes[i]) : f.command # CONTROL_FRAME
<1>1. /\ s \in [0 .. Len(bytes) -> Fit] /\ s[0] = d /\ Len(bytes) \in Nat
      /\ \A i \in 1 .. Len(bytes) : s[i] = Feed(s[i - 1], bytes[i]) /\ bytes[i] \in Nat
    BY DEF Way
<1>2. ASSUME NEW i \in 1 .. Len(bytes), bytes[i] = CONTROL_FRAME PROVE ~Opened(s[i - 1])
    <2>1. i # 1 /\ bytes[i - 1] # FEND
        BY <1>2 DEF NoCommandIn
    <2>2. i - 1 \in 1 .. Len(bytes) /\ (i - 1) - 1 \in 0 .. Len(bytes)
        BY <1>1, <2>1
    <2>3. s[i - 1] = Feed(s[(i - 1) - 1], bytes[i - 1]) /\ bytes[i - 1] \in Nat
          /\ s[(i - 1) - 1] \in Fit
        BY <1>1, <2>2
    <2> QED
        BY <2>1, <2>3, OnlyFendOpens
<1>3. ASSUME NEW i \in 1 .. Len(bytes), Calm(s[i - 1])
      PROVE  Calm(s[i]) /\ \A f \in Completed(s[i - 1], bytes[i]) : f.command # CONTROL_FRAME
    <2>1. s[i] = Feed(s[i - 1], bytes[i]) /\ bytes[i] \in Nat
        BY <1>1
    <2>2. s[i - 1] \in Fit
        <3>1. i - 1 \in 0 .. Len(bytes)
            BY <1>1
        <3> QED
            BY <1>1, <3>1
    <2> DEFINE e == s[i - 1]
               b == bytes[i]
    <2>3. b = CONTROL_FRAME => ~Opened(e)
        BY <1>2
    <2>4. Calm(e) /\ e \in Fit /\ b \in Nat
        BY <1>3, <2>1, <2>2
    <2> HIDE DEF e, b
    <2>5. Calm(Feed(e, b)) /\ \A f \in Completed(e, b) : f.command # CONTROL_FRAME
        BY <2>3, <2>4, CalmStep
    <2> QED
        BY <2>1, <2>5 DEF e, b
<1> DEFINE S == {i \in Nat : i <= Len(bytes) => Calm(s[i])}
<1>4. 0 \in S
    BY <1>1
<1>5. ASSUME NEW i \in Nat, i \in S PROVE i + 1 \in S
    <2> SUFFICES ASSUME i + 1 <= Len(bytes) PROVE Calm(s[i + 1])
        OBVIOUS
    <2>1. i + 1 \in 1 .. Len(bytes) /\ (i + 1) - 1 = i /\ Calm(s[i])
        BY <1>1, <1>5
    <2> QED
        BY <1>3, <2>1
<1>6. \A i \in 0 .. Len(bytes) : Calm(s[i])
    <2>1. Nat \subseteq S
        <3> HIDE DEF S
        <3> QED
            BY <1>4, <1>5, Induction
    <2> QED
        BY <1>1, <2>1
<1> QED
    BY <1>1, <1>3, <1>6

\* What encodeFrame writes, decodeFrameEx reads: its last byte, and no other,
\* completes a frame, the one that was encoded, and leaves the decoder idle.
\* This is so for every type byte that needs no escape and every payload that
\* fits, whatever escapes are in it.
THEOREM EncodedIsDecoded ==
    ASSUME NEW cmd \in Nat \ {FEND, FESC}, NEW p \in Seq(Nat), Len(p) <= MaxLen,
           NEW e, e = EncodeFrame(cmd, p)
    PROVE  /\ \A i \in 1 .. Len(e) :
                  Completed(FeedAll(IdleDecoder, SubSeq(e, 1, i - 1)), e[i])
                      = IF i = Len(e) THEN {[command |-> cmd, payload |-> p]} ELSE {}
           /\ FeedAll(IdleDecoder, e) = IdleDecoder
<1> DEFINE n == Len(e)
<1>1. /\ e \in Seq(Nat) /\ n \in Nat
      /\ \E s : /\ Way(IdleDecoder, e, s) /\ s[n] = IdleDecoder
                /\ \A i \in 1 .. n - 1 : Completed(s[i - 1], e[i]) = {}
                /\ Completed(s[n - 1], e[n]) = {[command |-> cmd, payload |-> p]}
    BY FrameIsRead
<1>2. PICK s : /\ Way(IdleDecoder, e, s) /\ s[n] = IdleDecoder
               /\ \A i \in 1 .. n - 1 : Completed(s[i - 1], e[i]) = {}
               /\ Completed(s[n - 1], e[n]) = {[command |-> cmd, payload |-> p]}
    BY <1>1
<1>3. IdleDecoder \in Fit
    BY BasicFit
<1> HIDE DEF n
<1>4. ASSUME NEW m \in 0 .. n PROVE FeedAll(IdleDecoder, SubSeq(e, 1, m)) = s[m]
    <2> DEFINE front == SubSeq(e, 1, m)
               fore == [i \in 0 .. m |-> s[i]]
    <2>1. Way(IdleDecoder, front, fore)
        BY <1>1, <1>2, <1>3, WayCut DEF n
    <2>2. front \in Seq(Nat) /\ Len(front) = m
        BY <1>1 DEF n
    <2>3. fore[m] = s[m]
        BY <1>1
    <2> HIDE DEF front, fore
    <2> QED
        BY <1>3, <2>1, <2>2, <2>3, FeedAllIsWay DEF front
<1>5. \A i \in 1 .. n : i - 1 \in 0 .. n /\ (i # n => i \in 1 .. n - 1)
    BY <1>1
<1>6. FeedAll(IdleDecoder, e) = IdleDecoder
    BY <1>1, <1>2, <1>3, FeedAllIsWay DEF n
<1>7. \A i \in 1 .. n : Completed(FeedAll(IdleDecoder, SubSeq(e, 1, i - 1)), e[i])
                            = IF i = n THEN {[command |-> cmd, payload |-> p]} ELSE {}
    <2> TAKE i \in 1 .. n
    <2>1. FeedAll(IdleDecoder, SubSeq(e, 1, i - 1)) = s[i - 1]
        BY <1>4, <1>5
    <2> QED
        BY <1>2, <1>5, <2>1
<1> QED
    BY <1>6, <1>7 DEF n

----------------------------------------------------------------------------
\* What the host writes.

LEMMA HeaderIsNat == ASSUME NEW p \in Seq(Nat) PROVE Header(p) \in Nat
<1> DEFINE n == Len(p)
           h(i) == [e \in Nat |-> 512 * e + p[i] + 1]
           g == [i \in 1 .. n |-> h(i)]
           Sum(x, i) == 512 * x + p[i] + 1
           F(f) == [i \in 0 .. n |-> IF i = 0 THEN 0 ELSE Sum(f[i - 1], i)]
           sum == CHOOSE f : f = F(f)
<1>0. n \in Nat /\ \A i \in 1 .. n : p[i] \in Nat
    OBVIOUS
<1>1. g \in [1 .. n -> [Nat -> Nat]]
    <2>1. ASSUME NEW i \in 1 .. n PROVE h(i) \in [Nat -> Nat]
        <3>1. p[i] \in Nat
            BY <1>0
        <3> QED
            BY <3>1
    <2> HIDE DEF h
    <2> QED
        BY <2>1
<1> DEFINE Folds(m, A, a, r) ==
               \E f \in [0 .. m -> A] : f[0] = a /\ \A i \in 1 .. m : f[i] = r[i][f[i - 1]]
<1>2. \A m \in Nat : \A A : \A a \in A : \A r \in [1 .. m -> [A -> A]] : Folds(m, A, a, r)
    BY Recursion
<1>3. Folds(n, Nat, 0, g)
    <2> HIDE DEF Folds, g, n
    <2>1. 0 \in Nat
        OBVIOUS
    <2> QED
        BY <1>0, <1>1, <1>2, <2>1
<1>4. PICK f \in [0 .. n -> Nat] : f[0] = 0 /\ \A i \in 1 .. n : f[i] = g[i][f[i - 1]]
    BY <1>3
<1>5. ASSUME NEW i \in 1 .. n PROVE f[i] = Sum(f[i - 1], i)
    <2>1. f[i - 1] \in Nat
        BY <1>0
    <2> QED
        BY <1>4, <2>1
<1>8. Header(p) = 256 + sum[n]
    BY DEF Header
<1> HIDE DEF n, Sum
<1>6. f = F(f)
    BY <1>4, <1>5
<1>7. sum = F(sum)
    <2> HIDE DEF F
    <2> QED
        BY <1>6
<1> HIDE DEF sum
<1> DEFINE S == {i \in Nat : i <= n => sum[i] = f[i]}
<1>9. 0 \in S
    BY <1>0, <1>4, <1>7
<1>10. ASSUME NEW i \in Nat, i \in S PROVE i + 1 \in S
    <2> SUFFICES ASSUME i + 1 <= n PROVE sum[i + 1] = f[i + 1]
        OBVIOUS
    <2>1. i + 1 \in 1 .. n /\ (i + 1) - 1 = i /\ sum[i] = f[i]
        BY <1>0, <1>10
    <2>2. sum[i + 1] = Sum(sum[i], i + 1)
        <3>1. \A j \in 0 .. n : sum[j] = IF j = 0 THEN 0 ELSE Sum(sum[j - 1], j)
            BY <1>7
        <3>2. i + 1 \in 0 .. n /\ i + 1 # 0
            BY <1>0, <2>1
        <3> HIDE DEF F
        <3> QED
            BY <2>1, <3>1, <3>2
    <2>3. f[i + 1] = Sum(f[i], i + 1)
        BY <1>5, <2>1
    <2> QED
        BY <2>1, <2>2, <2>3
<1>11. n \in S
    <2> HIDE DEF S
    <2> QED
        BY <1>0, <1>9, <1>10, Induction
<1> QED
    BY <1>0, <1>8, <1>11

\* How the host wraps a payload.
Sealed(p, mode) == IF mode = "generic" THEN Wrap(p) ELSE p

LEMMA SealedType ==
    ASSUME NEW p \in Seq(Nat), NEW mode
    PROVE  /\ Sealed(p, mode) \in Seq(Nat)
           /\ Wrap(p) \in Seq(Nat) /\ Len(Wrap(p)) = Len(p) + 1 /\ Wrap(p) # <<>>
           /\ Head(Wrap(p)) = Header(p) /\ Tail(Wrap(p)) = p
<1> DEFINE h == Header(p)
           a == <<h>>
           w == a \o p
<1>1. a \in Seq(Nat) /\ Len(a) = 1 /\ a[1] = h
    <2>1. h \in Nat
        BY HeaderIsNat
    <2> HIDE DEF h
    <2> QED
        BY <2>1
<1> HIDE DEF a
<1>2. /\ w \in Seq(Nat) /\ Len(w) = Len(p) + 1 /\ w[1] = h
      /\ \A i \in 1 .. Len(p) : w[i + 1] = p[i]
    <2>1. /\ w \in Seq(Nat) /\ Len(p) \in Nat /\ Len(w) = Len(a) + Len(p)
          /\ \A i \in 1 .. Len(a) : w[i] = a[i]
          /\ \A i \in 1 .. Len(p) : w[Len(a) + i] = p[i]
        BY <1>1, CatFacts, Zenon
    <2> HIDE DEF w
    <2>2. 1 \in 1 .. Len(a) /\ \A i \in 1 .. Len(p) : i + 1 = Len(a) + i
        BY <1>1, <2>1
    <2> QED
        BY <1>1, <2>1, <2>2
<1> HIDE DEF w, h
<1>3. w # <<>> /\ Head(w) = h /\ Tail(w) = p
    <2>1. Tail(w) \in Seq(Nat) /\ Len(Tail(w)) = Len(p) /\ \A i \in 1 .. Len(p) : Tail(w)[i] = p[i]
        BY <1>2
    <2> QED
        BY <1>2, <2>1
<1>4. Wrap(p) = w
    BY DEF Wrap, w, a, h
<1> QED
    BY <1>2, <1>3, <1>4 DEF Sealed, h

\* What the host writes for a frame.
LEMMA EncodedIs ==
    ASSUME NEW cmd \in Nat, NEW p \in Seq(Nat)
    PROVE  \E body \in Seq(Nat) :
              /\ FendFree(body)
              /\ Encoded(cmd, p) \in {FrameOf(cmd, body), Tail(FrameOf(cmd, body))}
<1>1. PICK body \in Seq(Nat) : EncodeFrame(cmd, p) = FrameOf(cmd, body) /\ FendFree(body)
    BY Coding
<1> QED
    BY <1>1 DEF Encoded

LEMMA EncodedType ==
    ASSUME NEW cmd \in Nat, NEW p \in Seq(Nat)
    PROVE  Encoded(cmd, p) \in Seq(Nat) /\ Len(Encoded(cmd, p)) >= 2
<1>1. PICK body \in Seq(Nat) :
          FendFree(body) /\ Encoded(cmd, p) \in {FrameOf(cmd, body), Tail(FrameOf(cmd, body))}
    BY EncodedIs
<1> DEFINE f == FrameOf(cmd, body)
<1>2. f \in Seq(Nat) /\ Len(f) = Len(body) + 3 /\ Len(body) \in Nat
    <2> DEFINE Shape(c, b) ==
            FrameOf(c, b) \in Seq(Nat) /\ Len(FrameOf(c, b)) = Len(b) + 3 /\ Len(b) \in Nat
    <2>1. \A c \in Nat : \A b \in Seq(Nat) : FendFree(b) => Shape(c, b)
        BY FrameShape
    <2> HIDE DEF Shape
    <2>2. Shape(cmd, body)
        BY <1>1, <2>1
    <2> QED
        BY <2>2 DEF Shape
<1> HIDE DEF f
<1>3. Encoded(cmd, p) \in {f, Tail(f)}
    BY <1>1 DEF f
<1>4. f # <<>> /\ Tail(f) \in Seq(Nat) /\ Len(Tail(f)) = Len(f) - 1
    BY <1>2
<1>5. f \in Seq(Nat) /\ Len(f) >= 2 /\ Tail(f) \in Seq(Nat) /\ Len(Tail(f)) >= 2
    BY <1>2, <1>4
<1> QED
    BY <1>3, <1>5

----------------------------------------------------------------------------
\* Types, in groups that change together.

Read == [data : Seq(Nat), mode : Mode]
DownType ==
    /\ usbRx \in Seq(Nat) /\ Len(usbRx) <= UsbRxSize
    /\ decoder \in Fit
    /\ backlog \in Seq(Read) /\ Len(backlog) <= BacklogDepth
    /\ txQueue \in Seq(Read) /\ Len(txQueue) <= TxQueueDepth
    /\ taken \in Seq(Read)
TaskType ==
    /\ rxPc \in {"loop", "apply", "save", "reply", "write"}
    /\ line \in Nat /\ reply \in Frame /\ asked \in Nat
    /\ command \in {"none", "queued", "staged", "done"} /\ applied \in BOOLEAN
SettingsType ==
    /\ chip \in Mode \cup {"torn"}
    /\ modemConfig \in Mode /\ nvs \in Mode \cup {"none"} /\ shown \in Mode
    /\ source \in {"nvs", "defaults", "reset-held"}
    /\ blocked \in BOOLEAN /\ promised \in Mode \cup {"none"}
UpType ==
    /\ rxQueue \in Seq(Nat) /\ Len(rxQueue) <= RxQueueDepth /\ arrived \in Nat
    /\ outgoing \in Frame /\ owner \in {"none", "rx", "tx"} /\ part \in 0 .. Parts
    /\ usbTx \in Seq([frame : Frame, part : 1 .. Parts]) /\ Len(usbTx) <= UsbTxSize
HostType ==
    /\ heard \in Seq(Frame) /\ answers \in Seq(Frame) /\ hearing \in Frame
    /\ hostMode \in Mode \cup {"unknown"}
    /\ sent \in Nat /\ ordered \in Nat /\ noisy \in Nat /\ torn \in Nat /\ reboots \in Nat
Holders ==
    /\ (rxPc = "write") <=> (owner = "rx")
    /\ owner = "tx" => outgoing # NoFrame
    /\ (rxPc = "apply") <=> (command # "none")
AllTypes == DownType /\ TaskType /\ SettingsType /\ UpType /\ HostType

LEMMA TypeIs == TypeOK <=> AllTypes /\ Holders
    BY DEF TypeOK, AllTypes, DownType, TaskType, SettingsType, UpType, HostType, Holders, Fit, Read

LEMMA TypePrimed == AllTypes' /\ Holders' => TypeOK'
    BY TypeIs, PTL

LEMMA HoldersHold == SettingsInv /\ LineInv => Holders
    BY DEF SettingsInv, Handshake, LineInv, Upwards, Holders

LEMMA PayloadType ==
    ASSUME NEW k \in 1 .. Len(Payload)
    PROVE  Payload[k] \in Seq(Nat)
<1> DEFINE p == Payload[k]
           Byte == 0 .. 255
<1>1. p \in Seq(Byte) /\ \A b \in Byte : b \in Nat
    BY SerialAssumption
<1> HIDE DEF p, Byte
<1>2. Len(p) \in Nat /\ p \in [1 .. Len(p) -> Byte]
    BY <1>1
<1>3. p \in [1 .. Len(p) -> Nat]
    BY <1>1, <1>2
<1>4. p \in Seq(Nat)
    BY <1>2, <1>3
<1> QED
    BY <1>4 DEF p

\* A symbol sequence the host may write.
LEMMA NextDataType ==
    ASSUME HostType, MaySendData
    PROVE  /\ Payload[sent + 1] \in Seq(Nat) /\ sent + 1 \in DOMAIN Payload
           /\ NextData = Encoded(DATA_FRAME, Sealed(Payload[sent + 1], hostMode))
           /\ NextData \in Seq(Nat) /\ Len(NextData) >= 2
<1>1. sent + 1 \in 1 .. Len(Payload) /\ DOMAIN Payload = 1 .. Len(Payload)
    BY SerialAssumption DEF MaySendData, HostType
<1>3. Payload[sent + 1] \in Seq(Nat)
    BY <1>1, PayloadType
<1>4. NextData = Encoded(DATA_FRAME, Sealed(Payload[sent + 1], hostMode))
    BY DEF NextData, Sealed
<1> DEFINE q == Sealed(Payload[sent + 1], hostMode)
<1>5. q \in Seq(Nat) /\ DATA_FRAME \in Nat
    BY <1>3, SealedType DEF DATA_FRAME
<1> HIDE DEF q
<1>6. Encoded(DATA_FRAME, q) \in Seq(Nat) /\ Len(Encoded(DATA_FRAME, q)) >= 2
    BY <1>5, EncodedType
<1> QED
    BY <1>1, <1>3, <1>4, <1>6 DEF q

LEMMA CommandType ==
    ASSUME NEW c \in Lines
    PROVE  /\ CONTROL_FRAME \in Nat /\ <<c>> \in Seq(Nat)
           /\ Encoded(CONTROL_FRAME, <<c>>) \in Seq(Nat)
<1>1. CONTROL_FRAME \in Nat /\ <<c>> \in Seq(Nat)
    BY SerialAssumption DEF CONTROL_FRAME
<1> QED
    BY <1>1, EncodedType

\* What a host step puts on the line.
LEMMA WrittenType ==
    ASSUME HostType, SendData \/ TearData \/ SendCommand \/ SendNoise
    PROVE  \E e \in Seq(Nat) : Write(e)
<1>1. CASE SendData
    BY <1>1, NextDataType DEF SendData
<1>2. CASE TearData
    <2>1. PICK n \in 1 .. Len(NextData) - 1 : Write(SubSeq(NextData, 1, n))
        BY <1>2 DEF TearData
    <2>2. NextData \in Seq(Nat)
        BY <1>2, NextDataType DEF TearData
    <2> DEFINE e == NextData
    <2> HIDE DEF e
    <2>3. SubSeq(e, 1, n) \in Seq(Nat)
        BY <2>1, <2>2 DEF e
    <2> QED
        BY <2>1, <2>3 DEF e
<1>3. CASE SendCommand
    BY <1>3, CommandType DEF SendCommand
<1>4. CASE SendNoise
    BY <1>4, SerialAssumption DEF SendNoise
<1> QED
    BY <1>1, <1>2, <1>3, <1>4

LEMMA LeastIs ==
    ASSUME NEW S \in SUBSET Nat, S # {}
    PROVE  Min(S) \in S /\ \A i \in S : Min(S) <= i
<1> DEFINE R == {ss \in Nat \X Nat : ss[1] < ss[2]}
<1>1. IsWellFoundedOn(R, Nat)
    BY NatLessThanWellFounded DEF OpToRel
<1>2. PICK n \in S : \A m \in S : ~(<<m, n>> \in R)
    BY <1>1, WFMin
<1>3. ASSUME NEW m \in S PROVE n <= m
    <2>1. m \in Nat /\ n \in Nat /\ ~(<<m, n>> \in R)
        BY <1>2
    <2>2. m < n => <<m, n>> \in R
        BY <2>1
    <2> QED
        BY <2>1, <2>2
<1> QED
    BY <1>2, <1>3 DEF Min

LEMMA ToFendIs ==
    ASSUME usbRx \in Seq(Nat), usbRx # <<>>
    PROVE  ToFend \in 1 .. Len(usbRx) /\ \A i \in 1 .. ToFend - 1 : usbRx[i] # FEND
<1> DEFINE I == {i \in 1 .. Len(usbRx) : usbRx[i] = FEND}
<1>1. CASE FEND \in ToSet(usbRx)
    <2>1. I # {}
        BY <1>1 DEF ToSet
    <2>2. ToFend = Min(I)
        BY <1>1, <2>1 DEF ToFend, SelectInSeq
    <2>3. I \in SUBSET Nat
        OBVIOUS
    <2>4. Min(I) \in I /\ \A i \in I : Min(I) <= i
        <3> HIDE DEF I
        <3> QED
            BY <2>1, <2>3, LeastIs
    <2> DEFINE k == Min(I)
    <2>5. k \in 1 .. Len(usbRx)
        BY <2>4
    <2>6. ASSUME NEW i \in 1 .. k - 1 PROVE usbRx[i] # FEND
        <3>1. i \in 1 .. Len(usbRx) /\ ~(k <= i)
            BY <2>5
        <3>2. i \notin I
            BY <2>4, <3>1
        <3> QED
            BY <3>1, <3>2
    <2> HIDE DEF k
    <2> QED
        BY <2>2, <2>5, <2>6 DEF k
<1>2. CASE FEND \notin ToSet(usbRx)
    <2>1. \A i \in 1 .. Len(usbRx) : usbRx[i] # FEND
        BY <1>2 DEF ToSet
    <2>2. ToFend = Len(usbRx)
        BY <1>2 DEF ToFend
    <2>3. Len(usbRx) \in Nat /\ Len(usbRx) >= 1
        OBVIOUS
    <2> QED
        BY <2>1, <2>2, <2>3
<1> QED
    BY <1>1, <1>2

\* How far one read goes, along any way of the decoder.
LEMMA ReadAt ==
    ASSUME DownType, ReadFrame, NEW s, Way(decoder, usbRx, s)
    PROVE  /\ ToFend \in 1 .. Len(usbRx) /\ \A i \in 1 .. ToFend - 1 : usbRx[i] # FEND
           /\ FeedAll(decoder, SubSeq(usbRx, 1, ToFend - 1)) = s[ToFend - 1]
           /\ decoder' = s[ToFend] /\ usbRx' = SubSeq(usbRx, ToFend + 1, Len(usbRx))
           /\ Way(decoder', usbRx', [i \in 0 .. Len(usbRx) - ToFend |-> s[i + ToFend]])
<1> DEFINE k == ToFend
           n == Len(usbRx)
           front == SubSeq(usbRx, 1, k - 1)
           fore == [i \in 0 .. k - 1 |-> s[i]]
<1>1. /\ usbRx \in Seq(Nat) /\ usbRx # <<>> /\ n \in Nat /\ decoder \in Fit
      /\ usbRx' = SubSeq(usbRx, k + 1, n)
    BY DEF DownType, ReadFrame
<1>2. k \in 1 .. n /\ \A i \in 1 .. k - 1 : usbRx[i] # FEND
    BY <1>1, ToFendIs
<1>3. decoder' = Feed(FeedAll(decoder, front), usbRx[k])
    BY DEF ReadFrame
<1>4. Way(decoder, usbRx, s) => s[k] = Feed(s[k - 1], usbRx[k])
    <2> HIDE DEF k
    <2> QED
        BY <1>2 DEF Way
<1> HIDE DEF k, front, fore
<1>5. k - 1 \in 0 .. n /\ k \in 0 .. n /\ k - 1 \in Nat
    BY <1>1, <1>2
<1> DEFINE Cut(d, p, w, m) ==
        /\ Way(d, SubSeq(p, 1, m), [i \in 0 .. m |-> w[i]])
        /\ Way(w[m], SubSeq(p, m + 1, Len(p)), [i \in 0 .. Len(p) - m |-> w[i + m]])
<1>6. \A d \in Fit : \A p \in Seq(Nat) : \A w : Way(d, p, w) => \A m \in 0 .. Len(p) : Cut(d, p, w, m)
    BY WayCut
<1>7. Cut(decoder, usbRx, s, k) /\ Cut(decoder, usbRx, s, k - 1)
    <2> HIDE DEF Cut
    <2> QED
        BY <1>1, <1>5, <1>6 DEF n
<1>8. Way(decoder, front, fore)
    BY <1>7 DEF front, fore
<1>9. front \in Seq(Nat) /\ Len(front) = k - 1
    BY <1>1, <1>2, <1>5 DEF front, n
<1>10. FeedAll(decoder, front) = fore[Len(front)]
    BY <1>1, <1>8, <1>9, FeedAllIsWay
<1>11. fore[k - 1] = s[k - 1]
    BY <1>5 DEF fore
<1>12. FeedAll(decoder, front) = s[k - 1]
    BY <1>9, <1>10, <1>11
<1>13. decoder' = s[k]
    BY <1>3, <1>4, <1>12
<1>14. Way(decoder', usbRx', [i \in 0 .. n - k |-> s[i + k]])
    BY <1>1, <1>7, <1>13 DEF n
<1> QED
    BY <1>1, <1>2, <1>12, <1>13, <1>14 DEF k, n, front

LEMMA CompletedType ==
    ASSUME NEW d \in Fit, NEW b, NEW f \in Completed(d, b)
    PROVE  f.command \in Nat /\ f.payload \in Seq(Nat) /\ Completed(d, b) = {f}
<1>1. d.buf \in Seq(Nat) /\ d.buf # <<>> /\ f = [command |-> Head(d.buf), payload |-> Tail(d.buf)]
    BY FitIs DEF Completed
<1>2. Head(d.buf) \in Nat /\ Tail(d.buf) \in Seq(Nat)
    BY <1>1
<1>3. Completed(d, b) = {f}
    BY <1>1 DEF Completed
<1> QED
    BY <1>1, <1>2, <1>3

\* What serialRxTask does with the frame it may read.
Commands(frames) == {f \in frames : f.command = CONTROL_FRAME}
Data(frames) == UNION {Received(f.payload) : f \in {g \in frames : g.command = DATA_FRAME}}

LEMMA ReadFrameIs ==
    ASSUME DownType, ReadFrame
    PROVE  \E d \in Fit, b \in Nat :
              /\ decoder' = Feed(d, b)
              /\ backlog' \in IF Data(Completed(d, b)) = {} THEN {backlog}
                              ELSE {Push(f) : f \in Data(Completed(d, b))}
              /\ IF Commands(Completed(d, b)) = {}
                 THEN UNCHANGED <<task, mac, modemConfig, nvs, source, shown, blocked, promised>>
                 ELSE \E f \in Commands(Completed(d, b)) : BeginCommand(f.payload)
<1>1. usbRx \in Seq(Nat) /\ decoder \in Fit /\ usbRx # <<>>
    BY DEF DownType, ReadFrame
<1>2. PICK s : Way(decoder, usbRx, s)
    BY <1>1, WayExists
<1> DEFINE k == ToFend
           d == FeedAll(decoder, SubSeq(usbRx, 1, k - 1))
           b == usbRx[k]
<1>3. k \in 1 .. Len(usbRx) /\ d = s[k - 1]
    BY <1>2, ReadAt
<1>4. b \in Nat /\ k - 1 \in 0 .. Len(usbRx)
    <2> HIDE DEF k
    <2> QED
        BY <1>1, <1>3
<1>5. d \in Fit
    BY <1>2, <1>3, <1>4 DEF Way
<1>6. /\ decoder' = Feed(d, b)
      /\ backlog' \in IF Data(Completed(d, b)) = {} THEN {backlog}
                      ELSE {Push(f) : f \in Data(Completed(d, b))}
      /\ IF Commands(Completed(d, b)) = {}
         THEN UNCHANGED <<task, mac, modemConfig, nvs, source, shown, blocked, promised>>
         ELSE \E f \in Commands(Completed(d, b)) : BeginCommand(f.payload)
    BY DEF ReadFrame, Data, Commands
<1> HIDE DEF d, b, k
<1> QED
    BY <1>4, <1>5, <1>6

LEMMA ReceivedType ==
    ASSUME NEW data \in Seq(Nat), NEW f \in Received(data)
    PROVE  f \in Read
<1>1. CASE modemConfig = "native"
    BY <1>1 DEF Received, Read, Mode
<1>2. CASE modemConfig # "native"
    <2>1. Genuine(data) /\ f = [data |-> Unwrap(data), mode |-> "generic"]
        BY <1>2 DEF Received
    <2>2. Unwrap(data) \in Seq(Nat)
        BY <2>1 DEF Genuine, Unwrap
    <2> QED
        BY <2>1, <2>2 DEF Read, Mode
<1> QED
    BY <1>1, <1>2

LEMMA StepDown ==
    ASSUME AllTypes, [Next]_vars
    PROVE  DownType'
<1>1. CASE SendData \/ TearData \/ SendCommand \/ SendNoise
    <2>1. PICK e \in Seq(Nat) : Write(e)
        BY <1>1, WrittenType DEF AllTypes
    <2>2. usbRx' \in Seq(Nat) /\ Len(usbRx') <= UsbRxSize
        BY <2>1 DEF Write, AllTypes, DownType
    <2> QED
        BY <2>1, <2>2 DEF Write, AllTypes, DownType
<1>2. CASE QueueFrame
    <2>1. Head(backlog) \in Read /\ Tail(backlog) \in Seq(Read) /\ Len(Tail(backlog)) <= BacklogDepth
        BY <1>2, SerialAssumption DEF QueueFrame, AllTypes, DownType
    <2>2. Append(txQueue, Head(backlog)) \in Seq(Read) /\ Len(Append(txQueue, Head(backlog))) <= TxQueueDepth
        BY <1>2, <2>1, SerialAssumption DEF QueueFrame, AllTypes, DownType
    <2> QED
        BY <1>2, <2>1, <2>2 DEF QueueFrame, AllTypes, DownType
<1>3. CASE TakeFrame
    <2>1. Head(txQueue) \in Read /\ Tail(txQueue) \in Seq(Read) /\ Len(Tail(txQueue)) <= TxQueueDepth
        BY <1>3, SerialAssumption DEF TakeFrame, AllTypes, DownType
    <2>2. taken' \in {taken, Append(taken, Head(txQueue))}
        BY <1>3 DEF TakeFrame
    <2>3. taken' \in Seq(Read)
        <3>1. taken \in Seq(Read)
            BY DEF AllTypes, DownType
        <3>2. Append(taken, Head(txQueue)) \in Seq(Read)
            BY <2>1, <3>1
        <3> QED
            BY <2>2, <3>1, <3>2
    <2> QED
        BY <1>3, <2>1, <2>3 DEF TakeFrame, AllTypes, DownType
<1>4. CASE ReadFrame
    <2>1. PICK d \in Fit, b \in Nat :
              /\ decoder' = Feed(d, b)
              /\ backlog' \in IF Data(Completed(d, b)) = {} THEN {backlog}
                              ELSE {Push(f) : f \in Data(Completed(d, b))}
        BY <1>4, ReadFrameIs DEF AllTypes
    <2>2. decoder' \in Fit
        BY <2>1, FeedType
    <2>3. \A f \in Data(Completed(d, b)) : f \in Read
        BY CompletedType, ReceivedType DEF Data
    <2>4. backlog' = backlog \/ \E f \in Read : backlog' = Append(backlog, f)
        BY <1>4, <2>1, <2>3 DEF Push, ReadFrame, RoomInBacklog
    <2>5. backlog' \in Seq(Read) /\ Len(backlog') <= BacklogDepth
        <3>1. backlog \in Seq(Read) /\ Len(backlog) < BacklogDepth /\ BacklogDepth \in Nat
            BY <1>4, SerialAssumption DEF ReadFrame, RoomInBacklog, AllTypes, DownType
        <3>2. CASE backlog' = backlog
            BY <3>1, <3>2
        <3>3. ASSUME NEW f \in Read, backlog' = Append(backlog, f)
              PROVE  backlog' \in Seq(Read) /\ Len(backlog') <= BacklogDepth
            BY <3>1, <3>3
        <3> QED
            BY <2>4, <3>2, <3>3
    <2>6. usbRx' \in Seq(Nat) /\ Len(usbRx') <= UsbRxSize
        <3>1. usbRx \in Seq(Nat) /\ Len(usbRx) <= UsbRxSize /\ usbRx' = SubSeq(usbRx, ToFend + 1, Len(usbRx))
            BY <1>4 DEF ReadFrame, AllTypes, DownType
        <3>2. ToFend \in 1 .. Len(usbRx)
            BY <1>4, ToFendIs DEF ReadFrame, AllTypes, DownType
        <3> DEFINE k == ToFend
        <3> HIDE DEF k
        <3>3. SubSeq(usbRx, k + 1, Len(usbRx)) \in Seq(Nat) /\ Len(SubSeq(usbRx, k + 1, Len(usbRx))) <= Len(usbRx)
            BY <3>1, <3>2 DEF k
        <3> QED
            BY <3>1, <3>3, SerialAssumption DEF k
    <2> QED
        BY <1>4, <2>2, <2>5, <2>6 DEF ReadFrame, AllTypes, DownType
<1>5. CASE Reboot
    <2>1. /\ usbRx' = <<>> /\ decoder' = IdleDecoder /\ backlog' = <<>> /\ txQueue' = <<>>
          /\ taken' = <<>>
        BY <1>5 DEF Reboot, Boot
    <2>2. \A S : <<>> \in Seq(S) /\ Len(<<>>) = 0
        OBVIOUS
    <2>3. 0 <= UsbRxSize /\ 0 <= BacklogDepth /\ 0 <= TxQueueDepth
        BY SerialAssumption
    <2> QED
        BY <2>1, <2>2, <2>3, BasicFit DEF DownType
<1>6. CASE UNCHANGED down
    BY <1>6 DEF down, AllTypes, DownType
<1>7. CASE HostRead \/ ResumeScan \/ Resume \/ SaveSet \/ SaveDefaults \/ LockRx \/ WriteReply
    BY <1>7, <1>6 DEF HostRead, ResumeScan, Resume, SaveSet, SaveDefaults, LockRx, WriteReply
<1>8. CASE TakeOutgoing \/ LockTx \/ WriteFrame \/ StageCommand \/ ApplyConfig \/ ScanBand \/ Deliver
    BY <1>8, <1>6 DEF TakeOutgoing, LockTx, WriteFrame, StageCommand, ApplyConfig, ScanBand, Deliver
<1> QED
    BY <1>1, <1>2, <1>3, <1>4, <1>5, <1>6, <1>7, <1>8
    DEF Next, HostStep, RxTaskStep, TxTaskStep, MacStep, MacWork, vars

LEMMA FrameTypes ==
    /\ NoFrame \in Frame
    /\ \A k \in Nat : \A m \in Mode : DataFrame(k, m) \in Frame
    /\ \A f \in Frame : f.ok \in BOOLEAN /\ (f.type = "reply" => f.mode \in Mode)
    /\ \A l : NewMode(l) \in Mode
<1>1. NoFrame \in Frame
    BY DEF Frame
<1>2. \A k \in Nat : \A m \in Mode : DataFrame(k, m) \in Frame
    BY DEF DataFrame, Frame
<1>3. \A f \in Frame : f.ok \in BOOLEAN /\ (f.type = "reply" => f.mode \in Mode)
    <2> TAKE f \in Frame
    <2>1. CASE f = NoFrame
        BY <2>1 DEF NoFrame
    <2>2. CASE f # NoFrame
        BY <2>2 DEF Frame
    <2> QED
        BY <2>1, <2>2
<1>4. \A l : NewMode(l) \in Mode
    BY DEF NewMode, Mode
<1> QED
    BY <1>1, <1>2, <1>3, <1>4

LEMMA AnswerType ==
    ASSUME asked' \in Nat, line' \in Nat, NEW ok \in BOOLEAN, NEW m \in Mode
    PROVE  Answer(ok, m) \in Frame
    BY DEF Answer, Frame

LEMMA BeginTypes ==
    ASSUME AllTypes, NEW payload \in Seq(Nat), BeginCommand(payload)
    PROVE  TaskType' /\ SettingsType'
<1>1. line' \in Nat /\ asked' \in Nat
    <2>1. payload # <<>> => Head(payload) \in Nat
        OBVIOUS
    <2> QED
        BY <2>1 DEF BeginCommand, BAD, AllTypes, TaskType
<1>2. CASE AnswerAtOnce
    <2> DEFINE ok == line' \in {GET, STATS, BLOCK, UNBLOCK}
               m == IF line' = STATS THEN shown ELSE modemConfig
    <2>1. ok \in BOOLEAN /\ m \in Mode
        BY DEF AllTypes, SettingsType
    <2>2. reply' = Answer(ok, m)
        BY <1>2 DEF AnswerAtOnce
    <2> HIDE DEF ok, m
    <2>3. reply' \in Frame
        BY <1>1, <2>1, <2>2, AnswerType
    <2>4. blocked' \in BOOLEAN
        BY <1>2 DEF AnswerAtOnce, SetEgress, AllTypes, SettingsType
    <2> QED
        BY <1>1, <1>2, <2>3, <2>4 DEF BeginCommand, AnswerAtOnce, AllTypes, TaskType, SettingsType
<1>3. CASE AskMac
    BY <1>1, <1>3 DEF BeginCommand, AskMac, AllTypes, TaskType, SettingsType
<1> QED
    BY <1>2, <1>3 DEF BeginCommand

LEMMA EndType ==
    ASSUME AllTypes, NEW ok \in BOOLEAN, modemConfig' \in Mode, EndCommand(ok)
    PROVE  line' \in Nat /\ asked' \in Nat /\ reply' \in Frame /\ rxPc' = "reply"
<1>1. line' \in Nat /\ asked' \in Nat
    BY DEF EndCommand, AllTypes, TaskType
<1> QED
    BY <1>1, AnswerType DEF EndCommand

LEMMA StepTask ==
    ASSUME AllTypes, [Next]_vars
    PROVE  TaskType' /\ SettingsType'
<1>1. CASE ReadFrame
    <2>1. PICK d \in Fit, b \in Nat :
              IF Commands(Completed(d, b)) = {}
              THEN UNCHANGED <<task, mac, modemConfig, nvs, source, shown, blocked, promised>>
              ELSE \E f \in Commands(Completed(d, b)) : BeginCommand(f.payload)
        BY <1>1, ReadFrameIs DEF AllTypes
    <2>2. CASE UNCHANGED <<task, mac, modemConfig, nvs, source, shown, blocked, promised>>
        BY <2>2 DEF task, mac, AllTypes, TaskType, SettingsType
    <2>3. ASSUME NEW f \in Commands(Completed(d, b)), BeginCommand(f.payload)
          PROVE  TaskType' /\ SettingsType'
        <3>1. f.payload \in Seq(Nat)
            BY CompletedType DEF Commands
        <3> QED
            BY <2>3, <3>1, BeginTypes
    <2> QED
        BY <2>1, <2>2, <2>3
<1>2. CASE ResumeScan
    <2>1. EndCommand(applied) /\ applied \in BOOLEAN /\ modemConfig' \in Mode
        BY <1>2 DEF ResumeScan, AllTypes, TaskType, SettingsType
    <2> QED
        BY <1>2, <2>1, EndType DEF ResumeScan, AllTypes, TaskType, SettingsType
<1>3. CASE Resume
    <2>1. modemConfig' \in Mode
        BY <1>3, FrameTypes DEF Resume, AllTypes, SettingsType
    <2>2. rxPc' \in {"save", "reply"} /\ line' \in Nat /\ reply' \in Frame /\ asked' \in Nat
        BY <1>3, <2>1, EndType DEF Resume, AllTypes, TaskType
    <2> QED
        BY <1>3, <2>1, <2>2 DEF Resume, AllTypes, TaskType, SettingsType
<1>4. CASE SaveSet
    <2>1. modemConfig' \in Mode /\ \E ok \in BOOLEAN : EndCommand(ok)
        BY <1>4 DEF SaveSet, AllTypes, SettingsType
    <2>2. rxPc' = "reply" /\ line' \in Nat /\ reply' \in Frame /\ asked' \in Nat
        BY <2>1, EndType
    <2> QED
        BY <1>4, <2>2 DEF SaveSet, mac, AllTypes, TaskType, SettingsType
<1>5. CASE SaveDefaults
    <2>1. modemConfig' \in Mode /\ EndCommand(TRUE)
        BY <1>5 DEF SaveDefaults, AllTypes, SettingsType
    <2>2. rxPc' = "reply" /\ line' \in Nat /\ reply' \in Frame /\ asked' \in Nat
        BY <2>1, EndType
    <2> QED
        BY <1>5, <2>2 DEF SaveDefaults, mac, AllTypes, TaskType, SettingsType
<1>6. CASE LockRx \/ WriteReply
    BY <1>6 DEF LockRx, WriteReply, mac, settings, AllTypes, TaskType, SettingsType
<1>7. CASE StageCommand
    BY <1>7 DEF StageCommand, task, settings, AllTypes, TaskType, SettingsType
<1>8. CASE ApplyConfig \/ ScanBand
    BY <1>8, FrameTypes DEF ApplyConfig, ScanBand, task, settings, AllTypes, TaskType, SettingsType
<1>9. CASE Reboot
    <2>1. PICK mode \in Mode, origin \in {"nvs", "defaults", "reset-held"} : Boot(mode, origin)
        BY <1>9 DEF Reboot, DefaultMode, Mode, AllTypes, SettingsType
    <2>2. nvs' \in Mode \cup {"none"} /\ promised' \in Mode \cup {"none"}
        BY <1>9 DEF Reboot, AllTypes, SettingsType
    <2>3. TaskType'
        BY <2>1, FrameTypes DEF Boot, TaskType
    <2>4. SettingsType'
        BY <2>1, <2>2 DEF Boot, SettingsType
    <2> QED
        BY <2>3, <2>4
<1>10. CASE UNCHANGED <<task, mac, settings>>
    BY <1>10 DEF task, mac, settings, AllTypes, TaskType, SettingsType
<1>11. CASE SendData \/ TearData \/ SendCommand \/ SendNoise \/ HostRead \/ QueueFrame
    BY <1>10, <1>11 DEF SendData, TearData, SendCommand, SendNoise, Write, HostRead, QueueFrame
<1>12. CASE TakeOutgoing \/ LockTx \/ WriteFrame \/ TakeFrame \/ Deliver
    BY <1>10, <1>12 DEF TakeOutgoing, LockTx, WriteFrame, TakeFrame, Deliver
<1> QED
    BY <1>1, <1>2, <1>3, <1>4, <1>5, <1>6, <1>7, <1>8, <1>9, <1>10, <1>11, <1>12
    DEF Next, HostStep, RxTaskStep, TxTaskStep, MacStep, MacWork, vars

LEMMA PieceType ==
    ASSUME UpType, NEW f \in Frame, Piece(f), part < Parts
    PROVE  /\ usbTx' \in Seq([frame : Frame, part : 1 .. Parts]) /\ Len(usbTx') <= UsbTxSize
           /\ part' \in 0 .. Parts /\ owner' \in {"none", "rx", "tx"}
<1> DEFINE Pieces == [frame : Frame, part : 1 .. Parts]
           p == [frame |-> f, part |-> part + 1]
<1>1. part + 1 \in 1 .. Parts /\ part' = part + 1
    BY SerialAssumption DEF UpType, Piece
<1>2. p \in Pieces
    BY <1>1
<1>3. usbTx \in Seq(Pieces) /\ usbTx' = Append(usbTx, p) /\ Len(usbTx) < UsbTxSize
    BY DEF UpType, Piece
<1> HIDE DEF p, Pieces
<1>4. usbTx' \in Seq(Pieces) /\ Len(usbTx') <= UsbTxSize
    BY <1>2, <1>3, SerialAssumption
<1>5. owner' \in {"none", "rx", "tx"}
    BY DEF UpType, Piece
<1> QED
    BY <1>1, <1>4, <1>5, SerialAssumption DEF Pieces

LEMMA StepUp ==
    ASSUME AllTypes, SettingsInv, LineInv, [Next]_vars
    PROVE  UpType'
<1>1. UpType /\ modemConfig \in Mode /\ reply \in Frame
    BY DEF AllTypes, TaskType, SettingsType
<1>2. owner # "none" => part < Parts
    BY DEF LineInv, Upwards
<1>3. CASE Deliver
    <2>1. arrived' \in Nat /\ rxQueue' \in Seq(Nat) /\ Len(rxQueue') <= RxQueueDepth
        BY <1>1, <1>3, SerialAssumption DEF Deliver, UpType
    <2> QED
        BY <1>1, <1>3, <2>1 DEF Deliver, UpType
<1>4. CASE TakeOutgoing
    <2>1. Head(rxQueue) \in Nat /\ rxQueue' \in Seq(Nat) /\ Len(rxQueue') <= RxQueueDepth
        BY <1>1, <1>4, SerialAssumption DEF TakeOutgoing, UpType
    <2>2. outgoing' \in Frame
        BY <1>1, <1>4, <2>1, FrameTypes DEF TakeOutgoing
    <2> QED
        BY <1>1, <1>4, <2>1, <2>2 DEF TakeOutgoing, UpType
<1>5. CASE LockTx \/ LockRx
    BY <1>1, <1>5, SerialAssumption DEF LockTx, LockRx, UpType
<1>6. CASE WriteFrame
    <2>1. Piece(outgoing) /\ outgoing \in Frame /\ part < Parts
        BY <1>1, <1>2, <1>6 DEF WriteFrame, UpType
    <2>2. outgoing' \in Frame
        BY <1>6, <2>1, FrameTypes DEF WriteFrame
    <2> QED
        BY <1>1, <1>6, <2>1, <2>2, PieceType DEF WriteFrame, UpType
<1>7. CASE WriteReply
    <2>1. Piece(reply) /\ part < Parts
        BY <1>2, <1>7 DEF WriteReply
    <2> QED
        BY <1>1, <1>7, <2>1, PieceType DEF WriteReply, UpType
<1>8. CASE HostRead
    <2>1. usbTx' \in Seq([frame : Frame, part : 1 .. Parts]) /\ Len(usbTx') <= UsbTxSize
        <3> DEFINE Pieces == [frame : Frame, part : 1 .. Parts]
        <3>1. usbTx \in Seq(Pieces) /\ usbTx # <<>> /\ usbTx' = Tail(usbTx) /\ Len(usbTx) <= UsbTxSize
            BY <1>1, <1>8 DEF HostRead, UpType
        <3> HIDE DEF Pieces
        <3>2. usbTx' \in Seq(Pieces) /\ Len(usbTx') <= UsbTxSize
            BY <3>1, SerialAssumption
        <3> QED
            BY <3>2 DEF Pieces
    <2> QED
        BY <1>1, <1>8, <2>1 DEF HostRead, UpType
<1>9. CASE Reboot
    <2>1. /\ rxQueue' = <<>> /\ arrived' = 0 /\ outgoing' = NoFrame
          /\ owner' = "none" /\ part' = 0 /\ usbTx' = <<>>
        BY <1>9 DEF Reboot, Boot
    <2>2. \A S : <<>> \in Seq(S) /\ Len(<<>>) = 0
        OBVIOUS
    <2>3. 0 <= RxQueueDepth /\ 0 <= UsbTxSize /\ 0 \in 0 .. Parts
        BY SerialAssumption
    <2> QED
        BY <2>1, <2>2, <2>3, FrameTypes DEF UpType
<1>10. CASE UNCHANGED up
    BY <1>1, <1>10 DEF up, UpType
<1>11. CASE SendData \/ TearData \/ SendCommand \/ SendNoise \/ QueueFrame \/ ReadFrame
    BY <1>10, <1>11 DEF SendData, TearData, SendCommand, SendNoise, Write, QueueFrame, ReadFrame
<1>12. CASE ResumeScan \/ Resume \/ SaveSet \/ SaveDefaults
    BY <1>10, <1>12 DEF ResumeScan, Resume, SaveSet, SaveDefaults
<1>13. CASE StageCommand \/ ApplyConfig \/ ScanBand \/ TakeFrame
    BY <1>10, <1>13 DEF StageCommand, ApplyConfig, ScanBand, TakeFrame
<1> QED
    BY <1>3, <1>4, <1>5, <1>6, <1>7, <1>8, <1>9, <1>10, <1>11, <1>12, <1>13
    DEF Next, HostStep, RxTaskStep, TxTaskStep, MacStep, MacWork, vars

LEMMA StepHost ==
    ASSUME AllTypes, [Next]_vars
    PROVE  HostType'
<1>1. HostType
    BY DEF AllTypes
<1>2. CASE SendData \/ TearData \/ SendCommand \/ SendNoise
    <2>1. /\ sent' \in {sent, sent + 1} /\ ordered' \in {ordered, ordered + 1}
          /\ noisy' \in {noisy, noisy + 1} /\ torn' \in {torn, torn + 1}
        BY <1>2 DEF SendData, TearData, SendCommand, SendNoise
    <2>2. UNCHANGED <<heard, answers, hearing, hostMode, reboots>>
        BY <1>2 DEF SendData, TearData, SendCommand, SendNoise, Write
    <2>3. sent' \in Nat /\ ordered' \in Nat /\ noisy' \in Nat /\ torn' \in Nat
        BY <1>1, <2>1 DEF HostType
    <2> QED
        BY <1>1, <2>2, <2>3 DEF HostType
<1>3. CASE HostRead
    <2> DEFINE piece == Head(usbTx)
               Pieces == [frame : Frame, part : 1 .. Parts]
               whole == IF piece.part = 1 THEN hearing = NoFrame ELSE hearing = piece.frame
               frame == IF whole THEN piece.frame ELSE NoFrame
    <2>1. piece.frame \in Frame
        <3>1. usbTx \in Seq(Pieces) /\ usbTx # <<>>
            BY <1>3 DEF HostRead, AllTypes, UpType
        <3>2. piece \in Pieces
            <4> HIDE DEF Pieces
            <4> QED
                BY <3>1
        <3> QED
            BY <3>2
    <2>2. frame \in Frame
        BY <2>1, FrameTypes
    <2>3. heard' \in {heard, Append(heard, frame)} /\ answers' \in {answers, Append(answers, frame)}
          /\ hearing' \in {NoFrame, frame} /\ hostMode' \in {hostMode, Learned(frame)}
          /\ UNCHANGED <<sent, ordered, noisy, torn, reboots>>
        BY <1>3 DEF HostRead
    <2> HIDE DEF frame
    <2>4. Learned(frame) \in Mode \cup {"unknown"}
        <3>1. hostMode \in Mode \cup {"unknown"} /\ frame.ok \in BOOLEAN
            BY <1>1, <2>2, FrameTypes DEF HostType
        <3> QED
            BY <2>2, <3>1, FrameTypes DEF Learned
    <2>5. heard' \in Seq(Frame) /\ answers' \in Seq(Frame)
        <3>1. heard \in Seq(Frame) /\ answers \in Seq(Frame)
            BY <1>1 DEF HostType
        <3>2. Append(heard, frame) \in Seq(Frame) /\ Append(answers, frame) \in Seq(Frame)
            BY <2>2, <3>1
        <3> QED
            BY <2>3, <3>1, <3>2
    <2> QED
        BY <1>1, <2>2, <2>3, <2>4, <2>5, FrameTypes DEF HostType
<1>4. CASE Reboot
    <2>1. /\ heard' = <<>> /\ answers' = <<>> /\ hearing' = NoFrame /\ hostMode' = "unknown"
          /\ sent' = 0 /\ ordered' = 0 /\ reboots' = reboots + 1 /\ UNCHANGED <<noisy, torn>>
        BY <1>4 DEF Reboot, Boot
    <2> QED
        BY <1>1, <2>1, FrameTypes DEF HostType
<1>5. CASE UNCHANGED <<host, reboots>>
    BY <1>1, <1>5 DEF host, HostType
<1>6. CASE QueueFrame \/ ReadFrame \/ ResumeScan \/ Resume \/ SaveSet \/ SaveDefaults
    BY <1>5, <1>6 DEF QueueFrame, ReadFrame, ResumeScan, Resume, SaveSet, SaveDefaults
<1>7. CASE LockRx \/ WriteReply \/ TakeOutgoing \/ LockTx \/ WriteFrame
    BY <1>5, <1>7 DEF LockRx, WriteReply, TakeOutgoing, LockTx, WriteFrame
<1>8. CASE StageCommand \/ ApplyConfig \/ ScanBand \/ TakeFrame \/ Deliver
    BY <1>5, <1>8 DEF StageCommand, ApplyConfig, ScanBand, TakeFrame, Deliver
<1> QED
    BY <1>2, <1>3, <1>4, <1>5, <1>6, <1>7, <1>8
    DEF Next, HostStep, RxTaskStep, TxTaskStep, MacStep, MacWork, vars

LEMMA InitTypes == Init => AllTypes
<1> SUFFICES ASSUME Init PROVE AllTypes
    OBVIOUS
<1>1. \A S : <<>> \in Seq(S) /\ Len(<<>>) = 0
    OBVIOUS
<1>2. /\ 0 <= UsbRxSize /\ 0 <= BacklogDepth /\ 0 <= TxQueueDepth /\ 0 <= RxQueueDepth
      /\ 0 <= UsbTxSize /\ 0 \in 0 .. Parts
    BY SerialAssumption
<1>3. DownType
    BY <1>1, <1>2, BasicFit DEF Init, DownType
<1>4. TaskType /\ SettingsType
    BY FrameTypes DEF Init, TaskType, SettingsType, DefaultMode, Mode
<1>5. UpType
    BY <1>1, <1>2, FrameTypes DEF Init, UpType
<1>6. HostType
    BY <1>1, FrameTypes DEF Init, HostType, DefaultMode, Mode
<1> QED
    BY <1>3, <1>4, <1>5, <1>6 DEF AllTypes

Sound == AllTypes /\ SettingsInv /\ LineInv

LEMMA InitSound == Init => Sound
    BY InitTypes, InitSettings, InitLine DEF Sound

LEMMA StepSound == Sound /\ [Next]_vars => Sound'
    BY StepDown, StepTask, StepUp, StepHost, StepSettings, StepLine DEF Sound, AllTypes

\* Every variable keeps its type, the mutex is held by the task that writes,
\* and the MAC task works on the command that is waited for.
THEOREM TypeCorrect == Spec => []TypeOK
<1>1. Sound => TypeOK
    BY TypeIs, HoldersHold DEF Sound
<1> QED
    BY <1>1, InitSound, StepSound, PTL DEF Spec

----------------------------------------------------------------------------
\* Counting along the line.

LEMMA Rises ==
    ASSUME NEW n \in Nat, NEW f \in [0 .. n -> Nat], \A i \in 1 .. n : f[i - 1] <= f[i]
    PROVE  \A i, j \in 0 .. n : i <= j => f[i] <= f[j]
<1> DEFINE S == {j \in Nat : j <= n => \A i \in 0 .. j : f[i] <= f[j]}
<1>1. 0 \in S
    OBVIOUS
<1>2. ASSUME NEW j \in Nat, j \in S PROVE j + 1 \in S
    <2> SUFFICES ASSUME j + 1 <= n, NEW i \in 0 .. j + 1 PROVE f[i] <= f[j + 1]
        OBVIOUS
    <2>1. j + 1 \in 1 .. n /\ (j + 1) - 1 = j /\ j \in 0 .. n /\ j + 1 \in 0 .. n
        OBVIOUS
    <2>2. f[j] <= f[j + 1] /\ f[j] \in Nat /\ f[j + 1] \in Nat
        BY <2>1
    <2>3. CASE i = j + 1
        BY <2>2, <2>3
    <2>4. CASE i # j + 1
        <3>1. i \in 0 .. j /\ i \in 0 .. n
            BY <2>1, <2>4
        <3>2. f[i] <= f[j] /\ f[i] \in Nat
            BY <1>2, <2>1, <3>1
        <3> QED
            BY <2>2, <3>2
    <2> QED
        BY <2>3, <2>4
<1>3. Nat \subseteq S
    <2> HIDE DEF S
    <2> QED
        BY <1>1, <1>2, Induction
<1> QED
    BY <1>3

LEMMA Stays ==
    ASSUME NEW n \in Nat, NEW f, \A i \in 1 .. n : f[i] = f[i - 1]
    PROVE  f[n] = f[0]
<1> DEFINE S == {j \in Nat : j <= n => f[j] = f[0]}
<1>1. 0 \in S
    OBVIOUS
<1>2. ASSUME NEW j \in Nat, j \in S PROVE j + 1 \in S
    <2> SUFFICES ASSUME j + 1 <= n PROVE f[j + 1] = f[0]
        OBVIOUS
    <2>1. j + 1 \in 1 .. n /\ (j + 1) - 1 = j
        OBVIOUS
    <2> QED
        BY <1>2, <2>1
<1>3. Nat \subseteq S
    <2> HIDE DEF S
    <2> QED
        BY <1>1, <1>2, Induction
<1> QED
    BY <1>3

LEMMA JoinedAt ==
    ASSUME NEW p \in Seq(Nat), NEW q \in Seq(Nat), NEW s, NEW t, s[Len(p)] = t[0]
    PROVE  /\ \A i \in 0 .. Len(p) : Joined(p, q, s, t)[i] = s[i]
           /\ \A i \in 0 .. Len(q) : Joined(p, q, s, t)[Len(p) + i] = t[i]
           /\ \A A : s \in [0 .. Len(p) -> A] /\ t \in [0 .. Len(q) -> A]
                         => Joined(p, q, s, t) \in [0 .. Len(p) + Len(q) -> A]
<1> DEFINE m == Len(p)
           n == Len(q)
           w == Joined(p, q, s, t)
<1>1. m \in Nat /\ n \in Nat /\ w = [i \in 0 .. m + n |-> IF i <= m THEN s[i] ELSE t[i - m]]
    BY DEF Joined
<1>2. s[m] = t[0]
    OBVIOUS
<1> HIDE DEF m, n, w
<1>3. \A i \in 0 .. m : w[i] = s[i]
    BY <1>1
<1>4. ASSUME NEW i \in 0 .. n PROVE w[m + i] = t[i]
    <2>1. CASE i = 0
        BY <1>1, <1>2, <1>3, <2>1
    <2>2. CASE i # 0
        <3>1. m + i \in 0 .. m + n /\ ~(m + i <= m) /\ (m + i) - m = i
            BY <1>1, <2>2
        <3> QED
            BY <1>1, <3>1
    <2> QED
        BY <2>1, <2>2
<1>5. ASSUME NEW A, s \in [0 .. m -> A], t \in [0 .. n -> A] PROVE w \in [0 .. m + n -> A]
    <2>1. ASSUME NEW i \in 0 .. m + n PROVE w[i] \in A
        <3>1. CASE i <= m
            BY <1>1, <1>5, <3>1
        <3>2. CASE ~(i <= m)
            <4>1. i - m \in 0 .. n
                BY <1>1, <3>2
            <4> QED
                BY <1>1, <1>5, <3>2, <4>1
        <3> QED
            BY <3>1, <3>2
    <2> QED
        BY <1>1, <2>1
<1> QED
    BY <1>3, <1>4, <1>5 DEF m, n, w

\* The commands completed along the way of the decoder.
Cost(d, b) == IF Commands(Completed(d, b)) = {} THEN 0 ELSE 1
Tally(d, bytes, s, C) ==
    /\ Way(d, bytes, s)
    /\ C \in [0 .. Len(bytes) -> Nat]
    /\ \A i \in 1 .. Len(bytes) : C[i] = C[i - 1] + Cost(s[i - 1], bytes[i])

LEMMA TallyJoin ==
    ASSUME NEW d \in Fit, NEW p \in Seq(Nat), NEW q \in Seq(Nat), NEW s, NEW t, NEW C, NEW E,
           Tally(d, p, s, C), Tally(s[Len(p)], q, t, E), E[0] = C[Len(p)]
    PROVE  Tally(d, p \o q, Joined(p, q, s, t), Joined(p, q, C, E))
<1> DEFINE m == Len(p)
           n == Len(q)
           w == Joined(p, q, s, t)
           W == Joined(p, q, C, E)
<1>1. /\ m \in Nat /\ n \in Nat /\ Len(p \o q) = m + n
      /\ \A i \in 1 .. m : (p \o q)[i] = p[i]
      /\ \A i \in 1 .. n : (p \o q)[m + i] = q[i]
    OBVIOUS
<1>2. Way(d, p \o q, w)
    BY WayJoin DEF Tally
<1>3. t[0] = s[m]
    BY DEF Tally, Way
<1>4. /\ \A i \in 0 .. m : w[i] = s[i] /\ W[i] = C[i]
      /\ \A i \in 0 .. n : w[m + i] = t[i] /\ W[m + i] = E[i]
      /\ W \in [0 .. m + n -> Nat]
    <2>1. s[Len(p)] = t[0] /\ C[Len(p)] = E[0]
        BY <1>3
    <2>2. /\ \A i \in 0 .. m : w[i] = s[i]
          /\ \A i \in 0 .. n : w[m + i] = t[i]
        BY <2>1, JoinedAt
    <2>3. /\ \A i \in 0 .. m : W[i] = C[i]
          /\ \A i \in 0 .. n : W[m + i] = E[i]
          /\ \A A : C \in [0 .. m -> A] /\ E \in [0 .. n -> A] => W \in [0 .. m + n -> A]
        BY <2>1, JoinedAt
    <2>4. C \in [0 .. m -> Nat] /\ E \in [0 .. n -> Nat]
        BY DEF Tally
    <2> HIDE DEF w, W
    <2> QED
        BY <2>2, <2>3, <2>4
<1>5. /\ \A i \in 1 .. m : C[i] = C[i - 1] + Cost(s[i - 1], p[i])
      /\ \A i \in 1 .. n : E[i] = E[i - 1] + Cost(t[i - 1], q[i])
    BY DEF Tally
<1> DEFINE cat == p \o q
<1>6. cat = p \o q
    OBVIOUS
<1> HIDE DEF m, n, w, W, cat
<1>7. ASSUME NEW i \in 1 .. m + n PROVE W[i] = W[i - 1] + Cost(w[i - 1], cat[i])
    <2>1. CASE i <= m
        <3>1. i \in 1 .. m /\ i \in 0 .. m /\ i - 1 \in 0 .. m
            BY <1>1, <2>1
        <3>2. W[i] = C[i] /\ W[i - 1] = C[i - 1] /\ w[i - 1] = s[i - 1] /\ cat[i] = p[i]
            BY <1>1, <1>4, <1>6, <3>1
        <3> QED
            BY <1>5, <3>1, <3>2
    <2>2. CASE i > m
        <3> DEFINE j == i - m
        <3>1. j \in 1 .. n /\ j \in 0 .. n /\ j - 1 \in 0 .. n /\ m + j = i /\ m + (j - 1) = i - 1
            BY <1>1, <2>2
        <3> HIDE DEF j
        <3>2. W[m + j] = E[j] /\ W[m + (j - 1)] = E[j - 1] /\ w[m + (j - 1)] = t[j - 1]
              /\ cat[m + j] = q[j]
            BY <1>1, <1>4, <1>6, <3>1
        <3>3. E[j] = E[j - 1] + Cost(t[j - 1], q[j])
            BY <1>5, <3>1
        <3> QED
            BY <3>1, <3>2, <3>3
    <2> QED
        BY <1>1, <2>1, <2>2
<1> QED
    BY <1>1, <1>2, <1>4, <1>7 DEF Tally, m, n, w, W, cat

\* Symbols that add at most k commands to a line that is calm, and leave it so.
Adds(bytes, k) ==
    \A d \in Fit : \A c \in Nat : Calm(d) =>
        \E s, C : /\ Tally(d, bytes, s, C) /\ C[0] = c /\ C[Len(bytes)] <= c + k
                  /\ Calm(s[Len(bytes)])

LEMMA QuietAdds ==
    ASSUME NEW bytes \in Seq(Nat), NoCommandIn(bytes)
    PROVE  Adds(bytes, 0)
<1> SUFFICES ASSUME NEW d \in Fit, NEW c \in Nat, Calm(d)
             PROVE  \E s, C : /\ Tally(d, bytes, s, C) /\ C[0] = c /\ C[Len(bytes)] <= c + 0
                              /\ Calm(s[Len(bytes)])
    BY DEF Adds
<1>1. PICK s : Way(d, bytes, s)
    BY WayExists
<1>2. Calm(s[Len(bytes)])
      /\ \A i \in 1 .. Len(bytes) :
            \A f \in Completed(s[i - 1], bytes[i]) : f.command # CONTROL_FRAME
    BY <1>1, CalmWay
<1> DEFINE C == [i \in 0 .. Len(bytes) |-> c]
<1>3. \A i \in 1 .. Len(bytes) : Cost(s[i - 1], bytes[i]) = 0
    BY <1>2 DEF Cost, Commands
<1>4. Tally(d, bytes, s, C)
    <2>1. \A i \in 1 .. Len(bytes) : C[i] = C[i - 1] + 0
        OBVIOUS
    <2>2. C \in [0 .. Len(bytes) -> Nat]
        OBVIOUS
    <2> HIDE DEF C
    <2> QED
        BY <1>1, <1>3, <2>1, <2>2 DEF Tally
<1>5. C[0] = c /\ C[Len(bytes)] <= c + 0
    OBVIOUS
<1> HIDE DEF C
<1> QED
    BY <1>2, <1>4, <1>5

\* A command is completed by its last FEND alone, and its first, if it has
\* one, completes no other.
LEMMA CommandAdds ==
    ASSUME NEW p \in Seq(Nat)
    PROVE  Adds(Encoded(CONTROL_FRAME, p), 1)
<1> DEFINE e == Encoded(CONTROL_FRAME, p)
           n == Len(e)
<1>1. /\ e \in Seq(Nat) /\ n \in Nat /\ n >= 2 /\ e[n] = FEND
      /\ \A i \in 2 .. n - 1 : e[i] # FEND
      /\ e[1] = CONTROL_FRAME \/ e[1] = FEND
    <2>1. CONTROL_FRAME \in Nat
        BY DEF CONTROL_FRAME
    <2>2. PICK body \in Seq(Nat) :
              /\ FendFree(body)
              /\ e \in {FrameOf(CONTROL_FRAME, body), Tail(FrameOf(CONTROL_FRAME, body))}
        BY <2>1, EncodedIs
    <2> DEFINE f == FrameOf(CONTROL_FRAME, body)
               k == Len(body) + 3
    <2>3. /\ f \in Seq(Nat) /\ Len(f) = k /\ k \in Nat /\ k >= 3
          /\ f[1] = FEND /\ f[2] = CONTROL_FRAME /\ f[k] = FEND
          /\ \A i \in 3 .. k - 1 : f[i] # FEND
        <3> DEFINE Shape(c, b, g) ==
                /\ g \in Seq(Nat) /\ Len(b) \in Nat /\ Len(g) = Len(b) + 3
                /\ g[1] = FEND /\ g[2] = c /\ g[Len(b) + 3] = FEND
                /\ \A i \in 3 .. Len(b) + 2 : g[i] # FEND
        <3>1. \A c \in Nat : \A b \in Seq(Nat) : FendFree(b) => Shape(c, b, FrameOf(c, b))
            BY FrameShape
        <3>2. Shape(CONTROL_FRAME, body, f)
            <4> HIDE DEF Shape
            <4> QED
                BY <2>1, <2>2, <3>1
        <3> HIDE DEF f
        <3> QED
            BY <3>2
    <2> HIDE DEF f, k, e
    <2>4. CASE e = f
        <3>1. f[2] # FEND
            BY <2>3 DEF FEND, CONTROL_FRAME
        <3> QED
            BY <2>3, <2>4, <3>1
    <2>5. CASE e = Tail(f)
        <3>1. e \in Seq(Nat) /\ Len(e) = k - 1 /\ \A i \in 1 .. k - 1 : e[i] = f[i + 1]
            BY <2>3, <2>5
        <3>2. ASSUME NEW i \in 2 .. k - 2 PROVE e[i] # FEND
            <4>1. i + 1 \in 3 .. k - 1 /\ i \in 1 .. k - 1
                BY <2>3
            <4> QED
                BY <2>3, <3>1, <4>1
        <3>3. e[1] = CONTROL_FRAME /\ e[k - 1] = FEND
            BY <2>3, <3>1
        <3> QED
            BY <2>3, <3>1, <3>2, <3>3
    <2> QED
        BY <2>2, <2>4, <2>5 DEF f
<1> HIDE DEF e, n
<1> SUFFICES ASSUME NEW d \in Fit, NEW c \in Nat, Calm(d)
             PROVE  \E s, C : /\ Tally(d, e, s, C) /\ C[0] = c /\ C[Len(e)] <= c + 1
                              /\ Calm(s[Len(e)])
    BY DEF Adds, e
<1>2. PICK s : Way(d, e, s)
    BY <1>1, WayExists
<1>3. /\ s \in [0 .. n -> Fit] /\ s[0] = d
      /\ \A i \in 1 .. n : s[i] = Feed(s[i - 1], e[i])
    BY <1>2 DEF Way, n
<1>4. \A i \in 1 .. n - 1 : Cost(s[i - 1], e[i]) = 0
    <2> TAKE i \in 1 .. n - 1
    <2>1. CASE e[i] # FEND
        BY <2>1, OnlyFendCompletes DEF Cost, Commands
    <2>2. CASE e[i] = FEND
        <3>1. i = 1
            BY <1>1, <2>2
        <3>2. FEND \in Nat /\ (FEND = CONTROL_FRAME => ~Opened(d))
            BY DEF FEND, CONTROL_FRAME
        <3>3. \A f \in Completed(d, FEND) : f.command # CONTROL_FRAME
            BY <3>2, CalmStep
        <3>4. s[i - 1] = d
            BY <1>3, <3>1
        <3> QED
            BY <2>2, <3>3, <3>4 DEF Cost, Commands
    <2> QED
        BY <2>1, <2>2
<1>5. Calm(s[n])
    <2>1. s[n] = Feed(s[n - 1], FEND) /\ s[n - 1] \in Fit
        BY <1>1, <1>3
    <2> QED
        BY <2>1, FendCalms
<1> DEFINE last == Cost(s[n - 1], e[n])
           C == [i \in 0 .. n |-> IF i = n THEN c + last ELSE c]
<1>6. last \in {0, 1}
    BY DEF Cost
<1>7. C \in [0 .. n -> Nat] /\ C[0] = c /\ C[n] <= c + 1
    <2> HIDE DEF last
    <2> QED
        BY <1>1, <1>6
<1>8. ASSUME NEW i \in 1 .. n PROVE C[i] = C[i - 1] + Cost(s[i - 1], e[i])
    <2>1. CASE i = n
        <3>1. C[n] = c + last /\ C[n - 1] = c
            BY <1>1
        <3> QED
            BY <2>1, <3>1
    <2>2. CASE i # n
        <3>1. i \in 1 .. n - 1 /\ C[i] = c /\ C[i - 1] = c
            BY <1>1, <2>2
        <3> HIDE DEF C
        <3> QED
            BY <1>4, <3>1
    <2> QED
        BY <2>1, <2>2
<1> HIDE DEF C
<1>9. Tally(d, e, s, C)
    BY <1>2, <1>7, <1>8 DEF Tally, n
<1> QED
    BY <1>5, <1>7, <1>9 DEF n

\* A data frame holds no type byte of a command behind a FEND, and none at its
\* start; nor does any part of it from there.
LEMMA DataIsQuiet ==
    ASSUME NEW p \in Seq(Nat)
    PROVE  NoCommandIn(Encoded(DATA_FRAME, p))
<1> DEFINE e == Encoded(DATA_FRAME, p)
<1>1. DATA_FRAME \in Nat /\ DATA_FRAME # CONTROL_FRAME /\ DATA_FRAME # FEND /\ FEND # CONTROL_FRAME
    BY DEF DATA_FRAME, CONTROL_FRAME, FEND
<1>2. PICK body \in Seq(Nat) :
          FendFree(body) /\ e \in {FrameOf(DATA_FRAME, body), Tail(FrameOf(DATA_FRAME, body))}
    BY <1>1, EncodedIs
<1> DEFINE f == FrameOf(DATA_FRAME, body)
           k == Len(body) + 3
<1>3. /\ f \in Seq(Nat) /\ Len(f) = k /\ k \in Nat /\ k >= 3
      /\ f[1] = FEND /\ f[2] = DATA_FRAME /\ f[k] = FEND
      /\ \A i \in 3 .. k - 1 : f[i] # FEND
    <2> DEFINE Shape(c, b, g) ==
            /\ g \in Seq(Nat) /\ Len(b) \in Nat /\ Len(g) = Len(b) + 3
            /\ g[1] = FEND /\ g[2] = c /\ g[Len(b) + 3] = FEND
            /\ \A i \in 3 .. Len(b) + 2 : g[i] # FEND
    <2>1. \A c \in Nat : \A b \in Seq(Nat) : FendFree(b) => Shape(c, b, FrameOf(c, b))
        BY FrameShape
    <2>2. Shape(DATA_FRAME, body, f)
        <3> HIDE DEF Shape
        <3> QED
            BY <1>1, <1>2, <2>1
    <2> HIDE DEF f
    <2> QED
        BY <2>2
<1> HIDE DEF f, k, e
<1>4. ASSUME NEW i \in 1 .. k, f[i] = CONTROL_FRAME PROVE i >= 3 /\ f[i - 1] # FEND
    <2>1. i # 1 /\ i # 2 /\ i # k
        BY <1>1, <1>3, <1>4
    <2>2. i \in 3 .. k - 1
        BY <1>3, <2>1
    <2>3. CASE i = 3
        BY <1>1, <1>3, <2>3
    <2>4. CASE i # 3
        <3>1. i - 1 \in 3 .. k - 1
            BY <1>3, <2>2, <2>4
        <3> QED
            BY <1>3, <2>2, <3>1
    <2> QED
        BY <2>2, <2>3, <2>4
<1>5. CASE e = f
    <2>1. ASSUME NEW i \in 1 .. Len(e), e[i] = CONTROL_FRAME PROVE i # 1 /\ e[i - 1] # FEND
        BY <1>3, <1>4, <1>5, <2>1
    <2> QED
        BY <2>1 DEF NoCommandIn, e
<1>6. CASE e = Tail(f)
    <2>1. Len(e) = k - 1 /\ \A i \in 1 .. k - 1 : e[i] = f[i + 1]
        BY <1>3, <1>6
    <2>2. ASSUME NEW i \in 1 .. Len(e), e[i] = CONTROL_FRAME PROVE i # 1 /\ e[i - 1] # FEND
        <3>1. i + 1 \in 1 .. k /\ f[i + 1] = CONTROL_FRAME /\ (i + 1) - 1 = i
            BY <1>3, <2>1, <2>2
        <3>2. i + 1 >= 3 /\ f[i] # FEND
            <4>1. i + 1 >= 3 /\ f[(i + 1) - 1] # FEND
                BY <1>4, <3>1
            <4> QED
                BY <3>1, <4>1
        <3>3. i - 1 \in 1 .. k - 1 /\ (i - 1) + 1 = i
            BY <1>3, <2>1, <3>2
        <3>4. e[i - 1] = f[i]
            BY <2>1, <3>3
        <3> QED
            BY <3>2, <3>4, <2>1
    <2> QED
        BY <2>2 DEF NoCommandIn, e
<1> QED
    BY <1>2, <1>5, <1>6 DEF f, e

LEMMA PrefixIsQuiet ==
    ASSUME NEW e \in Seq(Nat), NoCommandIn(e), NEW n \in 1 .. Len(e)
    PROVE  SubSeq(e, 1, n) \in Seq(Nat) /\ NoCommandIn(SubSeq(e, 1, n))
<1> DEFINE a == SubSeq(e, 1, n)
<1>1. a \in Seq(Nat) /\ Len(a) = n /\ \A i \in 1 .. n : a[i] = e[i]
    OBVIOUS
<1> HIDE DEF a
<1>2. ASSUME NEW i \in 1 .. Len(a), a[i] = CONTROL_FRAME PROVE i # 1 /\ a[i - 1] # FEND
    <2>1. i \in 1 .. Len(e) /\ e[i] = CONTROL_FRAME
        BY <1>1, <1>2
    <2>2. i # 1 /\ e[i - 1] # FEND
        BY <2>1 DEF NoCommandIn
    <2>3. i - 1 \in 1 .. n
        BY <1>1, <2>2
    <2> QED
        BY <1>1, <2>2, <2>3
<1>3. NoCommandIn(a)
    BY <1>2 DEF NoCommandIn
<1> QED
    BY <1>1, <1>3 DEF a

----------------------------------------------------------------------------
\* The commands the modem began, and those that are still on the line, are
\* commands the host wrote.  Calm: what is on the line ends in no half of a
\* command.

Ordered(s, C) ==
    /\ Tally(decoder, usbRx, s, C) /\ C[0] = asked /\ C[Len(usbRx)] <= ordered
    /\ Calm(s[Len(usbRx)])
OrderInv == \E s, C : Ordered(s, C)

\* What is asked of the noise.
QuietNoise == \A s \in Noise : NoCommandIn(s)

LEMMA TallyEnds ==
    ASSUME DownType, NEW s, NEW C, Tally(decoder, usbRx, s, C)
    PROVE  C[0] <= C[Len(usbRx)] /\ C[0] \in Nat /\ C[Len(usbRx)] \in Nat
<1>1. Len(usbRx) \in Nat /\ C \in [0 .. Len(usbRx) -> Nat]
    BY DEF DownType, Tally
<1>2. \A i \in 1 .. Len(usbRx) : C[i - 1] <= C[i]
    <2> TAKE i \in 1 .. Len(usbRx)
    <2>1. C[i] = C[i - 1] + Cost(s[i - 1], usbRx[i]) /\ C[i - 1] \in Nat
        BY <1>1 DEF Tally
    <2>2. Cost(s[i - 1], usbRx[i]) \in {0, 1}
        BY DEF Cost
    <2> QED
        BY <2>1, <2>2
<1>3. \A i, j \in 0 .. Len(usbRx) : i <= j => C[i] <= C[j]
    BY <1>1, <1>2, Rises
<1> QED
    BY <1>1, <1>3

LEMMA OrderHolds == ASSUME DownType, HostType, OrderInv PROVE CommandsWereOrdered
    BY TallyEnds DEF OrderInv, Ordered, CommandsWereOrdered, HostType

LEMMA WriteKeepsOrder ==
    ASSUME DownType, HostType, OrderInv, NEW e \in Seq(Nat), Write(e),
           NEW k \in {0, 1}, Adds(e, k), ordered' = ordered + k
    PROVE  OrderInv'
<1>1. PICK s, C : Ordered(s, C)
    BY DEF OrderInv
<1> DEFINE n == Len(usbRx)
           d == s[n]
           c == C[n]
<1>2. n \in Nat /\ d \in Fit /\ c \in Nat /\ Calm(d) /\ c <= ordered /\ ordered \in Nat
    <2>1. n \in Nat /\ c <= ordered /\ ordered \in Nat /\ Calm(d)
        BY <1>1 DEF Ordered, DownType, HostType
    <2>2. s \in [0 .. n -> Fit] /\ C \in [0 .. n -> Nat]
        BY <1>1 DEF Ordered, Tally, Way
    <2>3. n \in 0 .. n
        BY <2>1
    <2> HIDE DEF n
    <2> QED
        BY <2>1, <2>2, <2>3
<1>3. PICK t, E : /\ Tally(d, e, t, E) /\ E[0] = c /\ E[Len(e)] <= c + k
                  /\ Calm(t[Len(e)])
    <2> HIDE DEF d, c
    <2> QED
        BY <1>2 DEF Adds
<1>a. PICK w, W : w = Joined(usbRx, e, s, t) /\ W = Joined(usbRx, e, C, E)
    OBVIOUS
<1>4. usbRx' = usbRx \o e /\ decoder' = decoder /\ asked' = asked
    BY DEF Write, task
<1>5. usbRx \in Seq(Nat) /\ decoder \in Fit /\ Len(e) \in Nat /\ Len(usbRx') = n + Len(e)
    BY <1>4 DEF DownType
<1>6. Tally(decoder, usbRx \o e, w, W)
    <2>1. Tally(decoder, usbRx, s, C) /\ Tally(s[Len(usbRx)], e, t, E) /\ E[0] = C[Len(usbRx)]
        BY <1>1, <1>3 DEF Ordered
    <2>2. Tally(decoder, usbRx \o e, Joined(usbRx, e, s, t), Joined(usbRx, e, C, E))
        BY <1>5, <2>1, TallyJoin
    <2> QED
        BY <1>a, <2>2
<1>7. s[n] = t[0] /\ C[n] = E[0]
    BY <1>3 DEF Tally, Way
<1>8. w[n + Len(e)] = t[Len(e)] /\ W[n + Len(e)] = E[Len(e)] /\ W[0] = C[0]
    <2>1. Len(e) \in 0 .. Len(e) /\ 0 \in 0 .. n
        BY <1>2, <1>5
    <2>2. /\ \A i \in 0 .. Len(e) : w[n + i] = t[i]
          /\ \A i \in 0 .. Len(e) : W[n + i] = E[i]
          /\ \A i \in 0 .. n : W[i] = C[i]
        BY <1>a, <1>5, <1>7, JoinedAt
    <2> HIDE DEF n
    <2> QED
        BY <2>1, <2>2
<1>9. E[Len(e)] <= ordered + k
    <2>1. E[Len(e)] \in Nat
        BY <1>3, <1>5 DEF Tally
    <2> HIDE DEF c
    <2> QED
        BY <1>2, <1>3, <2>1
<1> HIDE DEF n
<1>10. Ordered(w, W)'
    <2>1. Tally(decoder', usbRx', w, W)
        BY <1>4, <1>6
    <2>2. W[0] = asked'
        BY <1>1, <1>4, <1>8 DEF Ordered
    <2>3. W[Len(usbRx')] <= ordered' /\ Calm(w[Len(usbRx')])
        BY <1>3, <1>5, <1>8, <1>9
    <2> QED
        BY <2>1, <2>2, <2>3 DEF Ordered
<1> QED
    BY <1>10 DEF OrderInv

LEMMA ReadAsks ==
    ASSUME DownType, TaskType, ReadFrame, NEW s, Way(decoder, usbRx, s)
    PROVE  asked' = asked + Cost(s[ToFend - 1], usbRx[ToFend])
<1> DEFINE d == FeedAll(decoder, SubSeq(usbRx, 1, ToFend - 1))
           frames == Completed(d, usbRx[ToFend])
<1>1. d = s[ToFend - 1]
    BY ReadAt
<1>2. IF Commands(frames) = {} THEN UNCHANGED <<task, mac, modemConfig, nvs, source, shown, blocked, promised>>
                               ELSE \E f \in Commands(frames) : BeginCommand(f.payload)
    BY DEF ReadFrame, Commands
<1> HIDE DEF d
<1>3. asked' = asked + Cost(d, usbRx[ToFend])
    BY <1>2 DEF Cost, task, BeginCommand, TaskType
<1> QED
    BY <1>1, <1>3

\* Reading goes some way along the line; the rest of the way is what was left.
Rest(k, f) == [i \in 0 .. Len(usbRx) - k |-> f[i + k]]

LEMMA ReadTally ==
    ASSUME DownType, TaskType, ReadFrame, NEW s, NEW C, Tally(decoder, usbRx, s, C), C[0] = asked,
           NEW s2, NEW C2, s2 = Rest(ToFend, s), C2 = Rest(ToFend, C)
    PROVE  /\ Tally(decoder', usbRx', s2, C2) /\ C2[0] = asked'
           /\ C2[Len(usbRx')] = C[Len(usbRx)] /\ s2[Len(usbRx')] = s[Len(usbRx)]
<1> DEFINE n == Len(usbRx)
           k == ToFend
<1>a. s2 = [i \in 0 .. n - k |-> s[i + k]] /\ C2 = [i \in 0 .. n - k |-> C[i + k]]
    BY DEF Rest
<1>2. Way(decoder, usbRx, s) /\ C \in [0 .. n -> Nat] /\ usbRx \in Seq(Nat) /\ n \in Nat
      /\ \A i \in 1 .. n : C[i] = C[i - 1] + Cost(s[i - 1], usbRx[i])
    BY DEF Tally, DownType
<1>3. /\ k \in 1 .. n /\ \A i \in 1 .. k - 1 : usbRx[i] # FEND
      /\ usbRx' = SubSeq(usbRx, k + 1, n)
      /\ Way(decoder', usbRx', s2)
    BY <1>a, <1>2, ReadAt
<1>4. asked' = asked + Cost(s[k - 1], usbRx[k])
    BY <1>2, ReadAsks
<1> HIDE DEF n, k
<1>6. C[k - 1] = C[0]
    <2>1. \A i \in 1 .. k - 1 : C[i] = C[i - 1]
        <3> TAKE i \in 1 .. k - 1
        <3>1. i \in 1 .. n /\ usbRx[i] # FEND /\ C[i - 1] \in Nat
            BY <1>2, <1>3
        <3>2. Cost(s[i - 1], usbRx[i]) = 0
            BY <3>1, OnlyFendCompletes DEF Cost, Commands
        <3> QED
            BY <1>2, <3>1, <3>2
    <2>2. k - 1 \in Nat
        BY <1>3
    <2> QED
        BY <2>1, <2>2, Stays
<1>7. C[k] = asked'
    BY <1>2, <1>3, <1>4, <1>6
<1>8. usbRx' \in Seq(Nat) /\ Len(usbRx') = n - k /\ \A i \in 1 .. n - k : usbRx'[i] = usbRx[i + k]
    BY <1>2, <1>3 DEF n
<1>9. C2 \in [0 .. n - k -> Nat] /\ C2[0] = C[k] /\ C2[n - k] = C[n]
    BY <1>a, <1>2, <1>3
<1>10. s2[n - k] = s[n]
    <2>1. n - k \in 0 .. n - k /\ (n - k) + k = n
        BY <1>2, <1>3
    <2>2. s2[n - k] = s[(n - k) + k]
        BY <1>a, <2>1
    <2> QED
        BY <2>1, <2>2
<1>11. ASSUME NEW i \in 1 .. n - k PROVE C2[i] = C2[i - 1] + Cost(s2[i - 1], usbRx'[i])
    <2>1. i + k \in 1 .. n /\ (i + k) - 1 = (i - 1) + k /\ i - 1 \in 0 .. n - k
        BY <1>2, <1>3
    <2>2. C2[i] = C[i + k] /\ C2[i - 1] = C[(i - 1) + k] /\ s2[i - 1] = s[(i - 1) + k]
        BY <1>a, <2>1
    <2>3. C[i + k] = C[(i + k) - 1] + Cost(s[(i + k) - 1], usbRx[i + k])
        BY <1>2, <2>1
    <2>4. usbRx'[i] = usbRx[i + k]
        BY <1>8
    <2> QED
        BY <2>1, <2>2, <2>3, <2>4
<1>12. Tally(decoder', usbRx', s2, C2)
    BY <1>3, <1>8, <1>9, <1>11 DEF Tally
<1> QED
    BY <1>7, <1>8, <1>9, <1>10, <1>12 DEF n

LEMMA ReadKeepsOrder ==
    ASSUME DownType, TaskType, OrderInv, ReadFrame
    PROVE  OrderInv'
<1>1. PICK s, C : Ordered(s, C)
    BY DEF OrderInv
<1>2. PICK s2, C2 : s2 = Rest(ToFend, s) /\ C2 = Rest(ToFend, C)
    OBVIOUS
<1>3. Tally(decoder, usbRx, s, C) /\ C[0] = asked /\ C[Len(usbRx)] <= ordered /\ Calm(s[Len(usbRx)])
    BY <1>1 DEF Ordered
<1>4. /\ Tally(decoder', usbRx', s2, C2) /\ C2[0] = asked'
      /\ C2[Len(usbRx')] = C[Len(usbRx)] /\ s2[Len(usbRx')] = s[Len(usbRx)]
    BY <1>2, <1>3, ReadTally
<1>5. ordered' = ordered
    BY DEF ReadFrame, host
<1>6. Ordered(s2, C2)'
    BY <1>3, <1>4, <1>5 DEF Ordered
<1> QED
    BY <1>6 DEF OrderInv

Silence == usbRx = <<>> /\ decoder = IdleDecoder /\ asked = 0 /\ ordered = 0

LEMMA FreshOrder == Silence => OrderInv
<1> SUFFICES ASSUME usbRx = <<>>, decoder = IdleDecoder, asked = 0, ordered = 0 PROVE OrderInv
    BY DEF Silence
<1>1. PICK s, C : s = [i \in 0 .. 0 |-> IdleDecoder] /\ C = [i \in 0 .. 0 |-> 0]
    OBVIOUS
<1>2. Way(IdleDecoder, <<>>, s)
    BY <1>1, BasicFit, WayOfNothing
<1>3. Len(<<>>) = 0 /\ s[0] = IdleDecoder /\ C[0] = 0 /\ C \in [0 .. 0 -> Nat]
    BY <1>1
<1>4. Calm(IdleDecoder)
    BY DEF Calm, IdleDecoder
<1>5. Ordered(s, C)
    BY <1>2, <1>3, <1>4 DEF Ordered, Tally
<1> QED
    BY <1>5 DEF OrderInv

LEMMA FreshOrderPrimed == Silence' => OrderInv'
    BY FreshOrder, PTL

LEMMA OrderAside ==
    ASSUME OrderInv, UNCHANGED <<usbRx, decoder, asked, ordered>>
    PROVE  OrderInv'
    BY DEF OrderInv, Ordered

LEMMA StepOrder ==
    ASSUME QuietNoise, Sound, OrderInv, [Next]_vars
    PROVE  OrderInv'
<1>1. DownType /\ HostType /\ TaskType
    BY DEF Sound, AllTypes
<1>2. CASE SendData
    <2>1. NextData \in Seq(Nat) /\ NoCommandIn(NextData)
        <3>1. /\ Payload[sent + 1] \in Seq(Nat)
              /\ NextData = Encoded(DATA_FRAME, Sealed(Payload[sent + 1], hostMode))
              /\ NextData \in Seq(Nat)
            BY <1>1, <1>2, NextDataType DEF SendData
        <3>2. Sealed(Payload[sent + 1], hostMode) \in Seq(Nat)
            BY <3>1, SealedType
        <3> QED
            BY <3>1, <3>2, DataIsQuiet
    <2>2. Adds(NextData, 0) /\ ordered' = ordered + 0
        BY <1>1, <1>2, <2>1, QuietAdds DEF SendData, HostType
    <2> QED
        BY <1>1, <1>2, <2>1, <2>2, WriteKeepsOrder DEF SendData
<1>3. CASE TearData
    <2>1. NextData \in Seq(Nat) /\ NoCommandIn(NextData)
        <3>1. /\ Payload[sent + 1] \in Seq(Nat)
              /\ NextData = Encoded(DATA_FRAME, Sealed(Payload[sent + 1], hostMode))
              /\ NextData \in Seq(Nat)
            BY <1>1, <1>3, NextDataType DEF TearData
        <3>2. Sealed(Payload[sent + 1], hostMode) \in Seq(Nat)
            BY <3>1, SealedType
        <3> QED
            BY <3>1, <3>2, DataIsQuiet
    <2>2. PICK n \in 1 .. Len(NextData) - 1 : Write(SubSeq(NextData, 1, n))
        BY <1>3 DEF TearData
    <2> DEFINE e == NextData
               a == SubSeq(e, 1, n)
    <2>3. n \in 1 .. Len(e) /\ e \in Seq(Nat) /\ NoCommandIn(e)
        BY <2>1
    <2> HIDE DEF e
    <2>4. a \in Seq(Nat) /\ NoCommandIn(a)
        BY <2>3, PrefixIsQuiet
    <2>5. Write(a)
        BY <2>2 DEF e
    <2> HIDE DEF a
    <2>6. Adds(a, 0) /\ ordered' = ordered + 0
        BY <1>1, <1>3, <2>4, QuietAdds DEF TearData, HostType
    <2> QED
        BY <1>1, <2>4, <2>5, <2>6, WriteKeepsOrder
<1>4. CASE SendCommand
    <2>1. PICK c \in Lines : Write(Encoded(CONTROL_FRAME, <<c>>))
        BY <1>4 DEF SendCommand
    <2>2. <<c>> \in Seq(Nat) /\ Encoded(CONTROL_FRAME, <<c>>) \in Seq(Nat)
        BY CommandType
    <2>3. Adds(Encoded(CONTROL_FRAME, <<c>>), 1) /\ ordered' = ordered + 1
        BY <1>4, <2>2, CommandAdds DEF SendCommand
    <2> QED
        BY <1>1, <2>1, <2>2, <2>3, WriteKeepsOrder
<1>5. CASE SendNoise
    <2>1. PICK e \in Noise : Write(e)
        BY <1>5 DEF SendNoise
    <2>2. e \in Seq(Nat) /\ NoCommandIn(e)
        BY <2>1, SerialAssumption DEF QuietNoise
    <2>3. Adds(e, 0) /\ ordered' = ordered + 0
        BY <1>1, <1>5, <2>2, QuietAdds DEF SendNoise, HostType
    <2> QED
        BY <1>1, <2>1, <2>2, <2>3, WriteKeepsOrder
<1>6. CASE ReadFrame
    BY <1>1, <1>6, ReadKeepsOrder
<1>7. CASE Reboot
    BY <1>7, FreshOrderPrimed DEF Reboot, Boot, Silence
<1>8. CASE UNCHANGED <<usbRx, decoder, asked, ordered>>
    BY <1>8, OrderAside
<1>9. CASE HostRead \/ QueueFrame \/ LockRx \/ WriteReply \/ TakeOutgoing \/ LockTx \/ WriteFrame
    BY <1>8, <1>9 DEF HostRead, QueueFrame, LockRx, WriteReply, TakeOutgoing, LockTx, WriteFrame,
        down, task, host
<1>10. CASE ResumeScan \/ Resume \/ SaveSet \/ SaveDefaults
    BY <1>8, <1>10 DEF ResumeScan, Resume, SaveSet, SaveDefaults, EndCommand, down, host
<1>11. CASE StageCommand \/ ApplyConfig \/ ScanBand \/ TakeFrame \/ Deliver
    BY <1>8, <1>11 DEF StageCommand, ApplyConfig, ScanBand, TakeFrame, Deliver, down, task, host
<1>12. CASE UNCHANGED vars
    BY <1>8, <1>12 DEF vars, down, task, host
<1> QED
    BY <1>2, <1>3, <1>4, <1>5, <1>6, <1>7, <1>9, <1>10, <1>11, <1>12
    DEF Next, HostStep, RxTaskStep, TxTaskStep, MacStep, MacWork

LEMMA InitOrder == Init => OrderInv
    BY FreshOrder DEF Init, Silence

\* No part of a data frame, whole or broken off, is read as a command, and no
\* command twice, whatever the decoder has to resynchronise on; so a host that
\* has heard every answer knows the mode.  The noise must hold no type byte of
\* a command behind a FEND or at its start: such noise is a command.
THEOREM NoCommandIsInvented ==
    ASSUME QuietNoise
    PROVE  Spec => [](CommandsWereOrdered /\ HostKnows)
<1>1. Sound /\ OrderInv => CommandsWereOrdered
    BY OrderHolds DEF Sound, AllTypes
<1>2. Init => Sound /\ OrderInv
    BY InitSound, InitOrder
<1>3. Sound /\ OrderInv /\ [Next]_vars => (Sound /\ OrderInv)'
    BY QuietNoise, StepSound, StepOrder
<1> QED
    BY <1>1, <1>2, <1>3, AnswersTellTheMode, PTL DEF Spec

----------------------------------------------------------------------------
\* While no data frame was broken off, everything the host wrote is either
\* accepted or still on the line, in order: s is the way of the decoder along
\* the line, C the commands begun and D the data frames accepted, as they will
\* be when the line is read so far.  A data frame is only written when no
\* command is on the line or being handled, and commands are written behind
\* it: when it is read, the mode is the one it is wrapped for.

AcceptedFrames == taken \o txQueue \o backlog

Carries(frames, c, k, l) ==
    \/ frames = {} /\ l = k
    \/ l = k /\ \E p : frames = {[command |-> CONTROL_FRAME, payload |-> p]}
    \/ /\ l = k + 1 /\ c = asked /\ rxPc = "loop"
       /\ frames = {[command |-> DATA_FRAME, payload |-> Sealed(Payload[l], modemConfig)]}

Carried(bytes, s, C, D) ==
    /\ D \in [0 .. Len(bytes) -> Nat]
    /\ \A i \in 1 .. Len(bytes) : Carries(Completed(s[i - 1], bytes[i]), C[i], D[i - 1], D[i])

Story(s, C, D) ==
    /\ Tally(decoder, usbRx, s, C) /\ C[0] = asked /\ C[Len(usbRx)] = ordered
    /\ s[Len(usbRx)] = IdleDecoder
    /\ Carried(usbRx, s, C, D) /\ D[0] = Len(AcceptedFrames) /\ D[Len(usbRx)] = sent
StoryInv ==
    torn = 0 => /\ sent <= Len(Payload)
                /\ \A j \in 1 .. Len(AcceptedFrames) : AcceptedFrames[j].data = Payload[j]
                /\ \E s, C, D : Story(s, C, D)

\* What is asked of the noise and of the payloads: noise between frames leaves
\* the decoder as it was and completes nothing; payloads are legal, and
\* different, so that a frame can be told from another.
Neutral(e) ==
    \E t : /\ Way(IdleDecoder, e, t) /\ t[Len(e)] = IdleDecoder
           /\ \A i \in 1 .. Len(e) : Completed(t[i - 1], e[i]) = {}
NeutralNoise == \A e \in Noise : NoCommandIn(e) /\ Neutral(e)
LegalPayloads ==
    /\ \A k \in DOMAIN Payload : Len(Payload[k]) \in 1 .. MaxLen - 1
    /\ \A j, k \in DOMAIN Payload : Payload[j] = Payload[k] => j = k

LEMMA CatSeq ==
    ASSUME NEW S, NEW a \in Seq(S), NEW b \in Seq(S)
    PROVE  /\ a \o b \in Seq(S) /\ Len(a) \in Nat /\ Len(b) \in Nat /\ Len(a \o b) = Len(a) + Len(b)
           /\ \A i \in 1 .. Len(a) : (a \o b)[i] = a[i]
           /\ \A i \in 1 .. Len(b) : (a \o b)[Len(a) + i] = b[i]
    OBVIOUS

LEMMA SameSeq ==
    ASSUME NEW S, NEW a \in Seq(S), NEW b \in Seq(S), Len(a) = Len(b),
           \A i \in 1 .. Len(a) : a[i] = b[i]
    PROVE  a = b
    OBVIOUS

LEMMA AppendCat ==
    ASSUME NEW S, NEW a \in Seq(S), NEW b \in Seq(S), NEW x \in S
    PROVE  a \o Append(b, x) = Append(a \o b, x)
<1> DEFINE m == Len(a)
           n == Len(b)
           bx == Append(b, x)
           ab == a \o b
           l == a \o bx
           r == Append(ab, x)
<1>1. m \in Nat /\ n \in Nat
    OBVIOUS
<1>2. bx \in Seq(S) /\ Len(bx) = n + 1 /\ bx[n + 1] = x /\ \A i \in 1 .. n : bx[i] = b[i]
    OBVIOUS
<1>3. /\ ab \in Seq(S) /\ Len(ab) = m + n /\ \A i \in 1 .. m : ab[i] = a[i]
      /\ \A i \in 1 .. n : ab[m + i] = b[i]
    BY CatSeq
<1> HIDE DEF bx, ab
<1>4. /\ l \in Seq(S) /\ Len(l) = m + (n + 1) /\ \A i \in 1 .. m : l[i] = a[i]
      /\ \A i \in 1 .. n + 1 : l[m + i] = bx[i]
    <2> DEFINE Cat(u, v) ==
            /\ u \o v \in Seq(S) /\ Len(u \o v) = Len(u) + Len(v)
            /\ \A i \in 1 .. Len(u) : (u \o v)[i] = u[i]
            /\ \A i \in 1 .. Len(v) : (u \o v)[Len(u) + i] = v[i]
    <2>1. \A u, v \in Seq(S) : Cat(u, v)
        BY CatSeq
    <2>2. Cat(a, bx)
        <3> HIDE DEF Cat
        <3> QED
            BY <1>2, <2>1
    <2>3. /\ l \in Seq(S) /\ Len(l) = Len(a) + Len(bx) /\ \A i \in 1 .. Len(a) : l[i] = a[i]
          /\ \A i \in 1 .. Len(bx) : l[Len(a) + i] = bx[i]
        BY <2>2
    <2> HIDE DEF l
    <2> QED
        BY <1>2, <2>3
<1>5. /\ r \in Seq(S) /\ Len(r) = (m + n) + 1 /\ r[(m + n) + 1] = x
      /\ \A i \in 1 .. m + n : r[i] = ab[i]
    <2> HIDE DEF m, n
    <2> QED
        BY <1>1, <1>3
<1> HIDE DEF l, r, m, n
<1>6. ASSUME NEW i \in 1 .. m + (n + 1) PROVE l[i] = r[i]
    <2>1. CASE i <= m
        <3>1. i \in 1 .. m /\ i \in 1 .. m + n
            BY <1>1, <2>1
        <3> QED
            BY <1>3, <1>4, <1>5, <3>1
    <2>2. CASE i > m /\ i <= m + n
        <3>1. i - m \in 1 .. n /\ i - m \in 1 .. n + 1 /\ m + (i - m) = i /\ i \in 1 .. m + n
            BY <1>1, <2>2
        <3>2. l[m + (i - m)] = bx[i - m] /\ ab[m + (i - m)] = b[i - m] /\ bx[i - m] = b[i - m]
            BY <1>2, <1>3, <1>4, <3>1
        <3> QED
            BY <1>5, <3>1, <3>2
    <2>3. CASE i = (m + n) + 1
        <3>1. m + (n + 1) = i /\ n + 1 \in 1 .. n + 1
            BY <1>1, <2>3
        <3>2. l[m + (n + 1)] = bx[n + 1]
            BY <1>4, <3>1
        <3> QED
            BY <1>2, <1>5, <2>3, <3>1, <3>2
    <2> QED
        BY <1>1, <2>1, <2>2, <2>3
<1>7. l = r
    BY <1>1, <1>4, <1>5, <1>6, SameSeq
<1> QED
    BY <1>7 DEF l, r, bx, ab

LEMMA HeadMoves ==
    ASSUME NEW S, NEW a \in Seq(S), NEW b \in Seq(S), b # <<>>
    PROVE  Append(a, Head(b)) \o Tail(b) = a \o b
<1> DEFINE m == Len(a)
           n == Len(b)
           h == Append(a, Head(b))
           t == Tail(b)
           l == h \o t
           r == a \o b
<1>1. m \in Nat /\ n \in Nat /\ n >= 1 /\ Head(b) = b[1] /\ Head(b) \in S
    OBVIOUS
<1>2. h \in Seq(S) /\ Len(h) = m + 1 /\ h[m + 1] = b[1] /\ \A i \in 1 .. m : h[i] = a[i]
    BY <1>1
<1>3. t \in Seq(S) /\ Len(t) = n - 1 /\ \A i \in 1 .. n - 1 : t[i] = b[i + 1]
    BY <1>1
<1>4. /\ r \in Seq(S) /\ Len(r) = m + n /\ \A i \in 1 .. m : r[i] = a[i]
      /\ \A i \in 1 .. n : r[m + i] = b[i]
    BY CatSeq
<1> HIDE DEF h, t
<1>5. /\ l \in Seq(S) /\ Len(l) = (m + 1) + (n - 1) /\ \A i \in 1 .. m + 1 : l[i] = h[i]
      /\ \A i \in 1 .. n - 1 : l[(m + 1) + i] = t[i]
    <2> DEFINE Cat(u, v) ==
            /\ u \o v \in Seq(S) /\ Len(u \o v) = Len(u) + Len(v)
            /\ \A i \in 1 .. Len(u) : (u \o v)[i] = u[i]
            /\ \A i \in 1 .. Len(v) : (u \o v)[Len(u) + i] = v[i]
    <2>1. \A u, v \in Seq(S) : Cat(u, v)
        BY CatSeq
    <2>2. Cat(h, t)
        <3> HIDE DEF Cat
        <3> QED
            BY <1>2, <1>3, <2>1
    <2>3. /\ l \in Seq(S) /\ Len(l) = Len(h) + Len(t) /\ \A i \in 1 .. Len(h) : l[i] = h[i]
          /\ \A i \in 1 .. Len(t) : l[Len(h) + i] = t[i]
        BY <2>2
    <2> HIDE DEF l
    <2> QED
        BY <1>2, <1>3, <2>3
<1> HIDE DEF l, r, m, n
<1>6. ASSUME NEW i \in 1 .. m + n PROVE l[i] = r[i]
    <2>1. CASE i <= m
        <3>1. i \in 1 .. m /\ i \in 1 .. m + 1
            BY <1>1, <2>1
        <3> QED
            BY <1>2, <1>4, <1>5, <3>1
    <2>2. CASE i = m + 1
        <3>1. m + 1 \in 1 .. m + 1 /\ 1 \in 1 .. n
            BY <1>1
        <3> QED
            BY <1>2, <1>4, <1>5, <2>2, <3>1
    <2>3. CASE i > m + 1
        <3> DEFINE j == i - (m + 1)
        <3>1. j \in 1 .. n - 1 /\ (m + 1) + j = i /\ m + (j + 1) = i /\ j + 1 \in 1 .. n
            BY <1>1, <2>3
        <3> HIDE DEF j
        <3>2. l[(m + 1) + j] = t[j] /\ t[j] = b[j + 1] /\ r[m + (j + 1)] = b[j + 1]
            BY <1>3, <1>4, <1>5, <3>1
        <3> QED
            BY <3>1, <3>2
    <2> QED
        BY <1>1, <2>1, <2>2, <2>3
<1>7. Len(l) = Len(r) /\ Len(l) = m + n
    BY <1>1, <1>4, <1>5
<1>8. l = r
    BY <1>4, <1>5, <1>6, <1>7, SameSeq
<1> QED
    BY <1>8 DEF l, r, h, t

\* Frames move from queue to queue and none is left out.
LEMMA QueuesMove ==
    ASSUME DownType, LegalPayloads, QueueFrame \/ TakeFrame,
           TakeFrame => Len(Head(txQueue).data) \in 1 .. MaxLen - 1
    PROVE  AcceptedFrames' = AcceptedFrames
<1>1. taken \in Seq(Read) /\ txQueue \in Seq(Read) /\ backlog \in Seq(Read)
    BY DEF DownType
<1>2. CASE QueueFrame
    <2>1. /\ backlog # <<>> /\ txQueue' = Append(txQueue, Head(backlog)) /\ backlog' = Tail(backlog)
          /\ taken' = taken
        BY <1>2 DEF QueueFrame
    <2>2. Head(backlog) \in Read
        BY <1>1, <2>1
    <2> DEFINE h == Head(backlog)
               both == taken \o txQueue
    <2>3. taken \o Append(txQueue, h) = Append(both, h)
        BY <1>1, <2>2, AppendCat
    <2>4. both \in Seq(Read)
        BY <1>1, CatSeq
    <2> HIDE DEF both
    <2>5. Append(both, h) \o Tail(backlog) = both \o backlog
        BY <1>1, <2>1, <2>4, HeadMoves
    <2> QED
        BY <2>1, <2>3, <2>5 DEF AcceptedFrames, both
<1>3. CASE TakeFrame
    <2>1. /\ txQueue # <<>> /\ taken' = Append(taken, Head(txQueue)) /\ txQueue' = Tail(txQueue)
          /\ backlog' = backlog
        BY <1>3 DEF TakeFrame
    <2>2. Append(taken, Head(txQueue)) \o Tail(txQueue) = taken \o txQueue
        BY <1>1, <2>1, HeadMoves
    <2> QED
        BY <2>1, <2>2 DEF AcceptedFrames
<1> QED
    BY <1>2, <1>3

LEMMA CarriedJoin ==
    ASSUME NEW p \in Seq(Nat), NEW q \in Seq(Nat), NEW s, NEW t, NEW C, NEW E, NEW D, NEW F,
           Carried(p, s, C, D), Carried(q, t, E, F),
           s[Len(p)] = t[0], C[Len(p)] = E[0], D[Len(p)] = F[0]
    PROVE  Carried(p \o q, Joined(p, q, s, t), Joined(p, q, C, E), Joined(p, q, D, F))
<1> DEFINE m == Len(p)
           n == Len(q)
           cat == p \o q
           At(f, g, h) == /\ \A i \in 0 .. m : h[i] = f[i]
                          /\ \A i \in 0 .. n : h[m + i] = g[i]
<1>1. /\ m \in Nat /\ n \in Nat /\ Len(cat) = m + n
      /\ \A i \in 1 .. m : cat[i] = p[i]
      /\ \A i \in 1 .. n : cat[m + i] = q[i]
    OBVIOUS
<1>a. \A f, g : f[m] = g[0] => At(f, g, Joined(p, q, f, g))
    BY JoinedAt
<1>b. PICK w, W, V : w = Joined(p, q, s, t) /\ W = Joined(p, q, C, E) /\ V = Joined(p, q, D, F)
    OBVIOUS
<1>2. At(s, t, w) /\ At(C, E, W) /\ At(D, F, V)
    <2> HIDE DEF At
    <2> QED
        BY <1>a, <1>b
<1>3. V \in [0 .. m + n -> Nat]
    <2>1. D \in [0 .. m -> Nat] /\ F \in [0 .. n -> Nat]
        BY DEF Carried
    <2>2. \A A : D \in [0 .. m -> A] /\ F \in [0 .. n -> A] => Joined(p, q, D, F) \in [0 .. m + n -> A]
        BY JoinedAt
    <2> QED
        BY <1>b, <2>1, <2>2
<1>4. /\ \A i \in 1 .. m : Carries(Completed(s[i - 1], p[i]), C[i], D[i - 1], D[i])
      /\ \A i \in 1 .. n : Carries(Completed(t[i - 1], q[i]), E[i], F[i - 1], F[i])
    BY DEF Carried
<1> HIDE DEF m, n, cat
<1>5. ASSUME NEW i \in 1 .. m + n
      PROVE  Carries(Completed(w[i - 1], cat[i]), W[i], V[i - 1], V[i])
    <2>1. CASE i <= m
        <3>1. i \in 1 .. m /\ i \in 0 .. m /\ i - 1 \in 0 .. m
            BY <1>1, <2>1
        <3>2. W[i] = C[i] /\ V[i] = D[i] /\ V[i - 1] = D[i - 1] /\ w[i - 1] = s[i - 1] /\ cat[i] = p[i]
            BY <1>1, <1>2, <3>1
        <3> QED
            BY <1>4, <3>1, <3>2
    <2>2. CASE i > m
        <3> DEFINE j == i - m
        <3>1. j \in 1 .. n /\ j \in 0 .. n /\ j - 1 \in 0 .. n /\ m + j = i /\ m + (j - 1) = i - 1
            BY <1>1, <2>2
        <3> HIDE DEF j
        <3>2. W[m + j] = E[j] /\ V[m + j] = F[j] /\ V[m + (j - 1)] = F[j - 1]
              /\ w[m + (j - 1)] = t[j - 1] /\ cat[m + j] = q[j]
            BY <1>1, <1>2, <3>1
        <3>3. Carries(Completed(t[j - 1], q[j]), E[j], F[j - 1], F[j])
            BY <1>4, <3>1
        <3>4. W[i] = E[j] /\ V[i] = F[j] /\ V[i - 1] = F[j - 1] /\ w[i - 1] = t[j - 1] /\ cat[i] = q[j]
            BY <3>1, <3>2
        <3> QED
            BY <3>3, <3>4
    <2> QED
        BY <1>1, <2>1, <2>2
<1>6. Carried(cat, w, W, V)
    BY <1>1, <1>3, <1>5 DEF Carried
<1> QED
    BY <1>b, <1>6 DEF cat

\* Symbols that add k commands and l data frames to the line.
Sends(e, k, l) ==
    \E t, E, F :
        /\ Tally(IdleDecoder, e, t, E) /\ E[0] = ordered /\ E[Len(e)] = ordered + k
        /\ t[Len(e)] = IdleDecoder
        /\ Carried(e, t, E, F) /\ F[0] = sent /\ F[Len(e)] = sent + l

LEMMA WriteKeepsStory ==
    ASSUME DownType, HostType, StoryInv, torn = 0, torn' = 0, NEW e \in Seq(Nat), Write(e),
           NEW k \in {0, 1}, NEW l \in {0, 1}, Sends(e, k, l),
           ordered' = ordered + k, sent' = sent + l, sent' <= Len(Payload)
    PROVE  StoryInv'
<1>1. PICK s, C, D : Story(s, C, D)
    BY DEF StoryInv
<1>2. PICK t, E, F :
        /\ Tally(IdleDecoder, e, t, E) /\ E[0] = ordered /\ E[Len(e)] = ordered + k
        /\ t[Len(e)] = IdleDecoder
        /\ Carried(e, t, E, F) /\ F[0] = sent /\ F[Len(e)] = sent + l
    BY DEF Sends
<1>3. PICK w, W, V : /\ w = Joined(usbRx, e, s, t) /\ W = Joined(usbRx, e, C, E)
                     /\ V = Joined(usbRx, e, D, F)
    OBVIOUS
<1> DEFINE n == Len(usbRx)
<1>4. /\ usbRx' = usbRx \o e /\ UNCHANGED <<decoder, asked, rxPc, modemConfig>>
      /\ AcceptedFrames' = AcceptedFrames
    BY DEF Write, task, settings, AcceptedFrames
<1>5. /\ usbRx \in Seq(Nat) /\ decoder \in Fit /\ n \in Nat /\ Len(e) \in Nat
      /\ Len(usbRx') = n + Len(e)
    BY <1>4 DEF DownType
<1>6. s[n] = IdleDecoder /\ C[n] = ordered /\ D[n] = sent /\ t[0] = IdleDecoder
    BY <1>1, <1>2 DEF Story, Tally, Way
<1>7. Tally(decoder, usbRx', w, W)
    <2>1. Tally(decoder, usbRx, s, C) /\ Tally(s[Len(usbRx)], e, t, E) /\ E[0] = C[Len(usbRx)]
        BY <1>1, <1>2, <1>6 DEF Story
    <2>2. Tally(decoder, usbRx \o e, Joined(usbRx, e, s, t), Joined(usbRx, e, C, E))
        BY <1>5, <2>1, TallyJoin
    <2> QED
        BY <1>3, <1>4, <2>2
<1>8. Carried(usbRx', w, W, V)
    <2>1. /\ Carried(usbRx, s, C, D) /\ Carried(e, t, E, F)
          /\ s[Len(usbRx)] = t[0] /\ C[Len(usbRx)] = E[0] /\ D[Len(usbRx)] = F[0]
        BY <1>1, <1>2, <1>6 DEF Story
    <2>2. Carried(usbRx \o e, Joined(usbRx, e, s, t), Joined(usbRx, e, C, E), Joined(usbRx, e, D, F))
        BY <1>5, <2>1, CarriedJoin
    <2> QED
        BY <1>3, <1>4, <2>2
<1>9. /\ w[n + Len(e)] = t[Len(e)] /\ W[n + Len(e)] = E[Len(e)] /\ V[n + Len(e)] = F[Len(e)]
      /\ W[0] = C[0] /\ V[0] = D[0]
    <2> DEFINE At(f, g, h) == /\ \A i \in 0 .. n : h[i] = f[i]
                              /\ \A i \in 0 .. Len(e) : h[n + i] = g[i]
    <2>1. \A f, g : f[n] = g[0] => At(f, g, Joined(usbRx, e, f, g))
        BY <1>5, JoinedAt
    <2>2. At(s, t, w) /\ At(C, E, W) /\ At(D, F, V)
        <3> HIDE DEF At
        <3> QED
            BY <1>2, <1>3, <1>6, <2>1
    <2>3. 0 \in 0 .. n /\ Len(e) \in 0 .. Len(e)
        BY <1>5
    <2> HIDE DEF n
    <2> QED
        BY <2>2, <2>3
<1> HIDE DEF n
<1>10. Carried(usbRx, w, W, V)'
    BY <1>4, <1>8 DEF Carried, Carries
<1>11. Story(w, W, V)'
    <2>1. Tally(decoder', usbRx', w, W) /\ W[0] = asked' /\ W[Len(usbRx')] = ordered'
        BY <1>1, <1>2, <1>4, <1>5, <1>7, <1>9 DEF Story
    <2>2. w[Len(usbRx')] = IdleDecoder /\ V[0] = Len(AcceptedFrames') /\ V[Len(usbRx')] = sent'
        BY <1>1, <1>2, <1>4, <1>5, <1>9 DEF Story
    <2> QED
        BY <1>10, <2>1, <2>2 DEF Story
<1>12. \A j \in 1 .. Len(AcceptedFrames') : AcceptedFrames'[j].data = Payload[j]
    BY <1>4 DEF StoryInv
<1> QED
    BY <1>11, <1>12 DEF StoryInv

LEMMA NoiseSends ==
    ASSUME HostType, NEW e \in Seq(Nat), Neutral(e)
    PROVE  Sends(e, 0, 0)
<1>1. PICK t : /\ Way(IdleDecoder, e, t) /\ t[Len(e)] = IdleDecoder
               /\ \A i \in 1 .. Len(e) : Completed(t[i - 1], e[i]) = {}
    BY DEF Neutral
<1> DEFINE n == Len(e)
<1>2. PICK E, F : E = [i \in 0 .. n |-> ordered] /\ F = [i \in 0 .. n |-> sent]
    OBVIOUS
<1>3. n \in Nat /\ ordered \in Nat /\ sent \in Nat
    BY DEF HostType
<1> HIDE DEF n
<1>4. /\ E \in [0 .. n -> Nat] /\ F \in [0 .. n -> Nat]
      /\ \A i \in 0 .. n : E[i] = ordered /\ F[i] = sent
    BY <1>2, <1>3
<1>5. Tally(IdleDecoder, e, t, E)
    <2>1. \A i \in 1 .. n : Cost(t[i - 1], e[i]) = 0
        BY <1>1 DEF Cost, Commands, n
    <2>2. \A i \in 1 .. n : i \in 0 .. n /\ i - 1 \in 0 .. n
        BY <1>3
    <2>3. \A i \in 1 .. n : E[i] = E[i - 1] + Cost(t[i - 1], e[i])
        BY <1>3, <1>4, <2>1, <2>2
    <2> QED
        BY <1>1, <1>4, <2>3 DEF Tally, n
<1>6. Carried(e, t, E, F)
    <2>1. \A i \in 1 .. n : F[i] = F[i - 1]
        BY <1>3, <1>4
    <2> QED
        BY <1>1, <1>4, <2>1 DEF Carried, Carries, n
<1>7. E[0] = ordered /\ E[n] = ordered + 0 /\ F[0] = sent /\ F[n] = sent + 0
    BY <1>3, <1>4
<1> QED
    BY <1>1, <1>5, <1>6, <1>7 DEF Sends, n

LEMMA FrameSends ==
    ASSUME HostType, NEW cmd \in {DATA_FRAME, CONTROL_FRAME}, NEW p \in Seq(Nat), Len(p) <= MaxLen,
           cmd = DATA_FRAME => /\ p = Sealed(Payload[sent + 1], modemConfig)
                               /\ ordered = asked /\ rxPc = "loop"
    PROVE  /\ EncodeFrame(cmd, p) \in Seq(Nat)
           /\ cmd = DATA_FRAME => Sends(EncodeFrame(cmd, p), 0, 1)
           /\ cmd = CONTROL_FRAME => Sends(EncodeFrame(cmd, p), 1, 0)
<1>1. PICK e : e = EncodeFrame(cmd, p)
    OBVIOUS
<1> DEFINE n == Len(e)
           frame == [command |-> cmd, payload |-> p]
<1>2. cmd \in Nat \ {FEND, FESC} /\ DATA_FRAME # CONTROL_FRAME
    BY DEF FEND, FESC, DATA_FRAME, CONTROL_FRAME
<1>3. /\ e \in Seq(Nat) /\ n \in Nat /\ n >= 3
      /\ \E s : /\ Way(IdleDecoder, e, s) /\ s[n] = IdleDecoder
                /\ \A i \in 1 .. n - 1 : Completed(s[i - 1], e[i]) = {}
                /\ Completed(s[n - 1], e[n]) = {frame}
    <2> DEFINE Done(c, q, f) ==
            /\ f \in Seq(Nat) /\ Len(f) \in Nat /\ Len(f) >= 3
            /\ \E s : /\ Way(IdleDecoder, f, s) /\ s[Len(f)] = IdleDecoder
                      /\ \A i \in 1 .. Len(f) - 1 : Completed(s[i - 1], f[i]) = {}
                      /\ Completed(s[Len(f) - 1], f[Len(f)]) = {[command |-> c, payload |-> q]}
    <2>1. \A c \in Nat \ {FEND, FESC} : \A q \in Seq(Nat) : Len(q) <= MaxLen =>
              \A f : f = EncodeFrame(c, q) => Done(c, q, f)
        BY FrameIsRead
    <2>2. Done(cmd, p, e)
        <3> HIDE DEF Done
        <3> QED
            BY <1>1, <1>2, <2>1
    <2> QED
        BY <2>2
<1>4. PICK t : /\ Way(IdleDecoder, e, t) /\ t[n] = IdleDecoder
               /\ \A i \in 1 .. n - 1 : Completed(t[i - 1], e[i]) = {}
               /\ Completed(t[n - 1], e[n]) = {frame}
    BY <1>3
<1>5. ordered \in Nat /\ sent \in Nat
    BY DEF HostType
<1>6. PICK k, l : /\ k = IF cmd = CONTROL_FRAME THEN 1 ELSE 0
                  /\ l = IF cmd = DATA_FRAME THEN 1 ELSE 0
    OBVIOUS
<1>7. PICK E, F : /\ E = [i \in 0 .. n |-> IF i = n THEN ordered + k ELSE ordered]
                  /\ F = [i \in 0 .. n |-> IF i = n THEN sent + l ELSE sent]
    OBVIOUS
<1> HIDE DEF n
<1>8. /\ E \in [0 .. n -> Nat] /\ F \in [0 .. n -> Nat]
      /\ \A i \in 1 .. n - 1 : E[i] = ordered /\ E[i - 1] = ordered /\ F[i] = sent /\ F[i - 1] = sent
      /\ E[0] = ordered /\ F[0] = sent /\ E[n] = ordered + k /\ F[n] = sent + l
      /\ E[n - 1] = ordered /\ F[n - 1] = sent
    BY <1>3, <1>5, <1>6, <1>7
<1>9. Tally(IdleDecoder, e, t, E)
    <2>1. \A i \in 1 .. n - 1 : Cost(t[i - 1], e[i]) = 0
        BY <1>4 DEF Cost, Commands
    <2>2. Cost(t[n - 1], e[n]) = k
        <3>1. Commands({frame}) = IF cmd = CONTROL_FRAME THEN {frame} ELSE {}
            BY DEF Commands
        <3> HIDE DEF frame
        <3>2. Cost(t[n - 1], e[n]) = IF cmd = CONTROL_FRAME THEN 1 ELSE 0
            BY <1>4, <3>1 DEF Cost
        <3> QED
            BY <1>6, <3>2
    <2>3. \A i \in 1 .. n : E[i] = E[i - 1] + Cost(t[i - 1], e[i])
        <3> TAKE i \in 1 .. n
        <3>1. CASE i = n
            BY <1>8, <2>2, <3>1
        <3>2. CASE i # n
            <4>1. i \in 1 .. n - 1
                BY <1>3, <3>2
            <4>2. E[i] = ordered /\ E[i - 1] = ordered /\ Cost(t[i - 1], e[i]) = 0
                BY <1>8, <2>1, <4>1
            <4> QED
                BY <1>5, <4>2
        <3> QED
            BY <3>1, <3>2
    <2> QED
        BY <1>4, <1>8, <2>3 DEF Tally, n
<1>10. Carried(e, t, E, F)
    <2>1. Carries(Completed(t[n - 1], e[n]), E[n], F[n - 1], F[n])
        <3>1. CASE cmd = CONTROL_FRAME
            <4>1. l = 0 /\ F[n] = F[n - 1]
                BY <1>2, <1>5, <1>6, <1>8, <3>1
            <4>2. Completed(t[n - 1], e[n]) = {[command |-> CONTROL_FRAME, payload |-> p]}
                BY <1>4, <3>1
            <4> QED
                BY <4>1, <4>2 DEF Carries
        <3>2. CASE cmd = DATA_FRAME
            <4>1. k = 0 /\ l = 1 /\ E[n] = asked /\ F[n] = F[n - 1] + 1 /\ F[n] = sent + 1
                BY <1>2, <1>5, <1>6, <1>8, <3>2
            <4>2. Completed(t[n - 1], e[n]) = {[command |-> DATA_FRAME, payload |-> p]}
                BY <1>4, <3>2
            <4>3. p = Sealed(Payload[F[n]], modemConfig) /\ rxPc = "loop"
                BY <3>2, <4>1
            <4> QED
                BY <4>1, <4>2, <4>3 DEF Carries
        <3> QED
            BY <3>1, <3>2
    <2>2. \A i \in 1 .. n : Carries(Completed(t[i - 1], e[i]), E[i], F[i - 1], F[i])
        <3> TAKE i \in 1 .. n
        <3>1. CASE i = n
            BY <2>1, <3>1
        <3>2. CASE i # n
            <4>1. i \in 1 .. n - 1
                BY <1>3, <3>2
            <4>2. F[i] = F[i - 1] /\ Completed(t[i - 1], e[i]) = {}
                BY <1>4, <1>8, <4>1
            <4> QED
                BY <4>2 DEF Carries
        <3> QED
            BY <3>1, <3>2
    <2> QED
        BY <1>8, <2>2 DEF Carried, n
<1>11. Sends(e, k, l)
    BY <1>4, <1>8, <1>9, <1>10 DEF Sends, n
<1> QED
    BY <1>1, <1>2, <1>3, <1>6, <1>11

\* A host that may write a data frame has no command on the line or with the
\* modem, and knows the mode.
LEMMA Ready ==
    ASSUME Sound, CommandsWereOrdered, MaySendData
    PROVE  asked = ordered /\ rxPc = "loop" /\ hostMode = modemConfig
<1>1. PICK s : Line(s)
    BY DEF Sound, LineInv
<1> DEFINE n == Len(usbTx)
           v == s[0]
           w == s[n]
<1>2. n \in Nat /\ asked \in Nat /\ ordered \in Nat
    BY DEF Sound, AllTypes, UpType, TaskType, HostType
<1>3. 0 \in 0 .. n /\ n \in 0 .. n /\ 0 <= n
    BY <1>2
<1> HIDE DEF n
<1>4. IsView(v) /\ IsView(w) /\ Later(v, w)
    BY <1>1, <1>3 DEF Line, Views, n
<1>5. v.answered = Len(answers) /\ v.mode = hostMode
    BY <1>1 DEF Line, HostAt
<1>6. w.answered + Unanswered = asked /\ Informed(w.mode)
    BY <1>1 DEF Line, TasksAt, n
<1>7. Len(answers) = ordered /\ hostMode \in Mode
    BY DEF MaySendData, Answered
<1>8. v.answered \in Nat /\ w.answered \in Nat /\ v.answered <= w.answered
    BY <1>4 DEF IsView, Later
<1> HIDE DEF v, w
<1>9. asked = ordered /\ w.answered = v.answered /\ Unanswered = 0
    BY <1>2, <1>5, <1>6, <1>7, <1>8 DEF CommandsWereOrdered, Unanswered
<1>10. rxPc = "loop"
    BY <1>9 DEF Unanswered
<1>11. hostMode = w.mode
    BY <1>4, <1>5, <1>9 DEF Later
<1> QED
    BY <1>6, <1>7, <1>9, <1>10, <1>11 DEF Informed, Right, Mode

\* What is read of a data frame is what was put into it.
LEMMA SealedIsReceived ==
    ASSUME NEW p \in Seq(Nat), modemConfig \in Mode
    PROVE  Received(Sealed(p, modemConfig)) = {[data |-> p, mode |-> modemConfig]}
<1>1. /\ Wrap(p) # <<>> /\ Head(Wrap(p)) = Header(p) /\ Tail(Wrap(p)) = p
    BY SealedType
<1>2. CASE modemConfig = "generic"
    BY <1>1, <1>2 DEF Received, Sealed, Genuine, Unwrap
<1>3. CASE modemConfig = "native"
    BY <1>3 DEF Received, Sealed
<1> QED
    BY <1>2, <1>3 DEF Mode

LEMMA AcceptedType ==
    ASSUME DownType
    PROVE  AcceptedFrames \in Seq(Read) /\ taken \o txQueue \in Seq(Read) /\ Len(AcceptedFrames) \in Nat
<1>1. taken \in Seq(Read) /\ txQueue \in Seq(Read) /\ backlog \in Seq(Read)
    BY DEF DownType
<1>2. taken \o txQueue \in Seq(Read)
    BY <1>1, CatSeq
<1> DEFINE a == taken \o txQueue
<1> HIDE DEF a
<1>3. a \o backlog \in Seq(Read)
    BY <1>1, <1>2, CatSeq DEF a
<1> DEFINE b == a \o backlog
<1> HIDE DEF b
<1>4. Len(b) \in Nat
    BY <1>3 DEF b
<1> QED
    BY <1>2, <1>3, <1>4 DEF a, b, AcceptedFrames

\* Along the line the count of data frames never falls.
LEMMA StoryRises ==
    ASSUME Sound, NEW s, NEW C, NEW D, Story(s, C, D)
    PROVE  /\ \A i, j \in 0 .. Len(usbRx) : i <= j => C[i] <= C[j] /\ D[i] <= D[j]
           /\ \A i \in 0 .. Len(usbRx) : C[i] \in Nat /\ D[i] \in Nat
<1> DEFINE n == Len(usbRx)
<1>1. n \in Nat
    BY DEF Sound, AllTypes, DownType
<1>2. C \in [0 .. n -> Nat] /\ D \in [0 .. n -> Nat]
    BY DEF Story, Tally, Carried
<1>3. \A i \in 1 .. n : C[i] = C[i - 1] + Cost(s[i - 1], usbRx[i])
    BY DEF Story, Tally
<1>4. \A i \in 1 .. n : D[i] = D[i - 1] \/ D[i] = D[i - 1] + 1
    BY DEF Story, Carried, Carries
<1> HIDE DEF n
<1>5. \A i \in 1 .. n : C[i - 1] <= C[i]
    <2> TAKE i \in 1 .. n
    <2>1. C[i - 1] \in Nat /\ Cost(s[i - 1], usbRx[i]) \in {0, 1}
        BY <1>1, <1>2 DEF Cost
    <2> QED
        BY <1>3, <2>1
<1>6. \A i \in 1 .. n : D[i - 1] <= D[i]
    <2> TAKE i \in 1 .. n
    <2>1. D[i - 1] \in Nat
        BY <1>1, <1>2
    <2> QED
        BY <1>4, <2>1
<1>7. \A i, j \in 0 .. n : i <= j => C[i] <= C[j]
    BY <1>1, <1>2, <1>5, Rises
<1>8. \A i, j \in 0 .. n : i <= j => D[i] <= D[j]
    BY <1>1, <1>2, <1>6, Rises
<1> QED
    BY <1>2, <1>7, <1>8 DEF n

LEMMA ReadKeepsStory ==
    ASSUME Sound, StoryInv, ReadFrame
    PROVE  StoryInv'
<1> SUFFICES ASSUME torn' = 0
             PROVE  /\ sent' <= Len(Payload)
                    /\ \A j \in 1 .. Len(AcceptedFrames') : AcceptedFrames'[j].data = Payload[j]
                    /\ \E s, C, D : Story(s, C, D)'
    BY DEF StoryInv
<1>1. /\ torn = 0 /\ sent' = sent /\ ordered' = ordered /\ rxPc = "loop" /\ RoomInBacklog
      /\ UNCHANGED <<taken, txQueue>>
    BY DEF ReadFrame, host
<1>2. DownType /\ TaskType /\ HostType /\ modemConfig \in Mode /\ decoder \in Fit
    BY DEF Sound, AllTypes, SettingsType, DownType
<1>3. PICK s, C, D : Story(s, C, D)
    BY <1>1 DEF StoryInv
<1> DEFINE n == Len(usbRx)
           k == ToFend
<1>4. PICK s2, C2, D2 : s2 = Rest(ToFend, s) /\ C2 = Rest(ToFend, C) /\ D2 = Rest(ToFend, D)
    OBVIOUS
<1>5. Tally(decoder, usbRx, s, C) /\ Way(decoder, usbRx, s) /\ C[0] = asked
    BY <1>3 DEF Story, Tally
<1>6. /\ Tally(decoder', usbRx', s2, C2) /\ C2[0] = asked'
      /\ C2[Len(usbRx')] = C[n] /\ s2[Len(usbRx')] = s[n]
    BY <1>2, <1>4, <1>5, ReadTally
<1>7. /\ n \in Nat /\ k \in 1 .. n /\ \A i \in 1 .. k - 1 : usbRx[i] # FEND
      /\ FeedAll(decoder, SubSeq(usbRx, 1, k - 1)) = s[k - 1] /\ usbRx' = SubSeq(usbRx, k + 1, n)
    <2>1. n \in Nat
        BY <1>2 DEF DownType
    <2>2. /\ k \in 1 .. n /\ \A i \in 1 .. k - 1 : usbRx[i] # FEND
          /\ FeedAll(decoder, SubSeq(usbRx, 1, k - 1)) = s[k - 1] /\ usbRx' = SubSeq(usbRx, k + 1, n)
        BY <1>2, <1>5, ReadAt
    <2> QED
        BY <2>1, <2>2
<1> DEFINE frames == Completed(s[k - 1], usbRx[k])
<1>8. /\ backlog' \in IF Data(frames) = {} THEN {backlog} ELSE {Push(f) : f \in Data(frames)}
      /\ IF Commands(frames) = {}
         THEN UNCHANGED <<task, mac, modemConfig, nvs, source, shown, blocked, promised>>
         ELSE \E f \in Commands(frames) : BeginCommand(f.payload)
    BY <1>7 DEF ReadFrame, Data, Commands
<1> HIDE DEF n, k, frames
<1>9. usbRx \in Seq(Nat) /\ Len(usbRx') = n - k /\ \A i \in 1 .. n - k : usbRx'[i] = usbRx[i + k]
    BY <1>2, <1>7 DEF n, DownType
<1>10. /\ \A i, j \in 0 .. n : i <= j => C[i] <= C[j] /\ D[i] <= D[j]
       /\ \A i \in 0 .. n : C[i] \in Nat /\ D[i] \in Nat
       /\ D \in [0 .. n -> Nat] /\ D[0] = Len(AcceptedFrames) /\ D[n] = sent
       /\ \A i \in 1 .. n : Carries(Completed(s[i - 1], usbRx[i]), C[i], D[i - 1], D[i])
    BY <1>3, StoryRises DEF n, Story, Carried
<1>11. D[k - 1] = D[0]
    <2>1. \A i \in 1 .. k - 1 : D[i] = D[i - 1]
        <3> TAKE i \in 1 .. k - 1
        <3>1. i \in 1 .. n /\ Completed(s[i - 1], usbRx[i]) = {}
            BY <1>7, OnlyFendCompletes
        <3> QED
            BY <1>10, <3>1 DEF Carries
    <2>2. k - 1 \in Nat
        BY <1>7
    <2> QED
        BY <2>1, <2>2, Stays
<1>12. Carries(frames, C[k], D[0], D[k]) /\ C[k] = asked'
    <2>1. k \in 1 .. n
        BY <1>7
    <2>2. C2[0] = C[k]
        BY <1>4, <1>7 DEF Rest, n, k
    <2> QED
        BY <1>6, <1>10, <1>11, <2>1, <2>2 DEF frames
<1>13. /\ D2 = [i \in 0 .. n - k |-> D[i + k]] /\ C2 = [i \in 0 .. n - k |-> C[i + k]]
       /\ s2 = [i \in 0 .. n - k |-> s[i + k]]
    BY <1>4 DEF Rest, n, k
<1>14. D2 \in [0 .. n - k -> Nat] /\ D2[0] = D[k] /\ D2[n - k] = sent
    BY <1>7, <1>10, <1>13
<1>15. \A i \in 1 .. n - k :
          /\ Carries(Completed(s2[i - 1], usbRx'[i]), C2[i], D2[i - 1], D2[i])
          /\ C2[i] >= C[k] /\ C2[i] \in Nat
    <2> TAKE i \in 1 .. n - k
    <2>1. /\ i + k \in 1 .. n /\ (i + k) - 1 = (i - 1) + k /\ i - 1 \in 0 .. n - k /\ i \in 0 .. n - k
          /\ k \in 0 .. n /\ i + k \in 0 .. n /\ k <= i + k
        BY <1>7
    <2>2. /\ C2[i] = C[i + k] /\ s2[i - 1] = s[(i - 1) + k]
          /\ D2[i] = D[i + k] /\ D2[i - 1] = D[(i - 1) + k] /\ usbRx'[i] = usbRx[i + k]
        BY <1>9, <1>13, <2>1
    <2>3. Carries(Completed(s[(i + k) - 1], usbRx[i + k]), C[i + k], D[(i + k) - 1], D[i + k])
        BY <1>10, <2>1
    <2>4. C[k] <= C[i + k] /\ C[k] \in Nat /\ C[i + k] \in Nat
        BY <1>10, <2>1
    <2> QED
        BY <2>1, <2>2, <2>3, <2>4
<1>16. ASSUME D[k] = Len(AcceptedFrames'),
              \A i \in 1 .. n - k : Carries(Completed(s2[i - 1], usbRx[i]), C2[i], D2[i - 1], D2[i])'
       PROVE  Story(s2, C2, D2)'
    <2>1. Carried(usbRx, s2, C2, D2)'
        BY <1>9, <1>14, <1>16 DEF Carried
    <2>2. C2[Len(usbRx')] = ordered' /\ s2[Len(usbRx')] = IdleDecoder
        BY <1>1, <1>3, <1>6 DEF Story, n
    <2>3. D2[0] = Len(AcceptedFrames') /\ D2[Len(usbRx')] = sent'
        BY <1>1, <1>9, <1>14, <1>16
    <2> QED
        BY <1>6, <2>1, <2>2, <2>3 DEF Story
<1>17. /\ AcceptedFrames \in Seq(Read) /\ taken \o txQueue \in Seq(Read) /\ Len(AcceptedFrames) \in Nat
       /\ \A j \in 1 .. Len(AcceptedFrames) : AcceptedFrames[j].data = Payload[j]
       /\ sent <= Len(Payload)
    BY <1>1, <1>2, AcceptedType DEF StoryInv
<1>18. CASE frames = {}
    <2>1. Data(frames) = {} /\ Commands(frames) = {}
        BY <1>18 DEF Data, Commands
    <2>2. UNCHANGED <<asked, rxPc, modemConfig, backlog>>
        BY <1>8, <2>1 DEF task
    <2>3. AcceptedFrames' = AcceptedFrames
        BY <1>1, <2>2 DEF AcceptedFrames
    <2>4. D[k] = D[0]
        BY <1>12, <1>18 DEF Carries
    <2>5. \A i \in 1 .. n - k : Carries(Completed(s2[i - 1], usbRx[i]), C2[i], D2[i - 1], D2[i])'
        BY <1>15, <2>2 DEF Carries
    <2>6. Story(s2, C2, D2)'
        BY <1>10, <1>16, <2>3, <2>4, <2>5
    <2> QED
        BY <1>1, <1>17, <2>3, <2>6
<1>19. CASE \E p : frames = {[command |-> CONTROL_FRAME, payload |-> p]}
    <2>1. PICK p : frames = {[command |-> CONTROL_FRAME, payload |-> p]}
        BY <1>19
    <2>2. CONTROL_FRAME # DATA_FRAME
        BY DEF CONTROL_FRAME, DATA_FRAME
    <2>3. Data(frames) = {} /\ Commands(frames) # {}
        <3>1. \A g \in frames : g.command = CONTROL_FRAME
            BY <2>1
        <3>2. {g \in frames : g.command = DATA_FRAME} = {}
            BY <2>2, <3>1
        <3>3. [command |-> CONTROL_FRAME, payload |-> p] \in Commands(frames)
            BY <2>1 DEF Commands
        <3> QED
            BY <3>2, <3>3 DEF Data
    <2>4. backlog' = backlog
        BY <1>8, <2>3
    <2>5. asked' = asked + 1 /\ asked \in Nat
        BY <1>2, <1>8, <2>3 DEF BeginCommand, TaskType
    <2>6. AcceptedFrames' = AcceptedFrames
        BY <1>1, <2>4 DEF AcceptedFrames
    <2>7. D[k] = D[0]
        <3>1. \A l : frames # {[command |-> DATA_FRAME, payload |-> Sealed(Payload[l], modemConfig)]}
            <4> TAKE l
            <4> DEFINE g == [command |-> DATA_FRAME, payload |-> Sealed(Payload[l], modemConfig)]
            <4>1. g.command = DATA_FRAME
                OBVIOUS
            <4>2. \A h \in frames : h.command = CONTROL_FRAME
                BY <2>1
            <4> HIDE DEF g
            <4>3. g \notin frames
                BY <2>2, <4>1, <4>2
            <4> QED
                BY <4>3 DEF g
        <3> QED
            BY <1>12, <3>1 DEF Carries
    <2>8. \A i \in 1 .. n - k : Carries(Completed(s2[i - 1], usbRx[i]), C2[i], D2[i - 1], D2[i])'
        <3> TAKE i \in 1 .. n - k
        <3>1. C2[i] # asked
            BY <1>12, <1>15, <2>5
        <3> QED
            BY <1>15, <3>1 DEF Carries
    <2>9. Story(s2, C2, D2)'
        BY <1>10, <1>16, <2>6, <2>7, <2>8
    <2> QED
        BY <1>1, <1>17, <2>6, <2>9
<1>20. CASE /\ D[k] = D[0] + 1
            /\ frames = {[command |-> DATA_FRAME, payload |-> Sealed(Payload[D[k]], modemConfig)]}
    <2>1. CONTROL_FRAME # DATA_FRAME
        BY DEF CONTROL_FRAME, DATA_FRAME
    <2>2. D[k] \in 1 .. Len(Payload)
        <3>1. 0 \in 0 .. n /\ k \in 0 .. n /\ n \in 0 .. n /\ k <= n
            BY <1>7
        <3>2. D[0] \in Nat /\ D[k] <= sent
            BY <1>10, <3>1
        <3>3. Len(Payload) \in Nat /\ sent \in Nat
            BY <1>2, SerialAssumption DEF HostType
        <3> QED
            BY <1>17, <1>20, <3>2, <3>3
    <2> DEFINE p == Payload[D[k]]
               f == [data |-> p, mode |-> modemConfig]
    <2>3. p \in Seq(Nat)
        BY <2>2, PayloadType
    <2>4. Received(Sealed(p, modemConfig)) = {f}
        BY <1>2, <2>3, SealedIsReceived
    <2>5. Data(frames) = {f} /\ Commands(frames) = {}
        <3>1. frames = {[command |-> DATA_FRAME, payload |-> Sealed(p, modemConfig)]}
            BY <1>20
        <3> HIDE DEF p, f
        <3>2. Commands(frames) = {}
            BY <2>1, <3>1 DEF Commands
        <3>3. {g \in frames : g.command = DATA_FRAME} = frames
            BY <3>1
        <3>4. {Received(g.payload) : g \in frames} = {{f}}
            BY <2>4, <3>1
        <3> QED
            BY <3>2, <3>3, <3>4 DEF Data
    <2>6. f \in Read /\ f.data = p
        BY <1>2, <2>3 DEF Read
    <2> HIDE DEF f
    <2>7. UNCHANGED <<asked, rxPc, modemConfig>> /\ backlog' = Append(backlog, f)
        BY <1>1, <1>8, <2>5 DEF task, Push, RoomInBacklog
    <2>8. AcceptedFrames' = Append(AcceptedFrames, f)
        <3> DEFINE a == taken \o txQueue
        <3>1. a \in Seq(Read) /\ backlog \in Seq(Read)
            BY <1>2, <1>17 DEF DownType
        <3>2. AcceptedFrames' = a \o backlog'
            BY <1>1 DEF AcceptedFrames
        <3> HIDE DEF a
        <3>3. a \o Append(backlog, f) = Append(a \o backlog, f)
            BY <2>6, <3>1, AppendCat
        <3> QED
            BY <2>7, <3>2, <3>3 DEF a, AcceptedFrames
    <2>9. PICK old : old = AcceptedFrames
        OBVIOUS
    <2>10. /\ Len(AcceptedFrames') = Len(AcceptedFrames) + 1
           /\ AcceptedFrames'[Len(AcceptedFrames) + 1] = f
           /\ \A j \in 1 .. Len(AcceptedFrames) : AcceptedFrames'[j] = AcceptedFrames[j]
        <3>1. old \in Seq(Read) /\ Len(old) \in Nat
            BY <1>17, <2>9
        <3>2. /\ Len(Append(old, f)) = Len(old) + 1 /\ Append(old, f)[Len(old) + 1] = f
              /\ \A j \in 1 .. Len(old) : Append(old, f)[j] = old[j]
            BY <2>6, <3>1
        <3> QED
            BY <2>8, <2>9, <3>2
    <2>11. D[k] = Len(AcceptedFrames')
        BY <1>10, <1>20, <2>10
    <2>12. ASSUME NEW j \in 1 .. Len(AcceptedFrames') PROVE AcceptedFrames'[j].data = Payload[j]
        <3>1. CASE j = Len(AcceptedFrames) + 1
            BY <2>6, <2>10, <2>11, <3>1
        <3>2. CASE j # Len(AcceptedFrames) + 1
            <4>1. j \in 1 .. Len(AcceptedFrames)
                BY <1>17, <2>10, <3>2
            <4> QED
                BY <1>17, <2>10, <4>1
        <3> QED
            BY <3>1, <3>2
    <2>13. \A i \in 1 .. n - k : Carries(Completed(s2[i - 1], usbRx[i]), C2[i], D2[i - 1], D2[i])'
        BY <1>15, <2>7 DEF Carries
    <2>14. Story(s2, C2, D2)'
        BY <1>16, <2>11, <2>13
    <2> QED
        BY <1>1, <1>17, <2>12, <2>14
<1> QED
    BY <1>12, <1>18, <1>19, <1>20 DEF Carries

\* Most steps touch neither the line nor what was accepted, and change the
\* mode only while a command is handled, when no data frame is on the line.
LEMMA ElsewhereKeepsStory ==
    ASSUME StoryInv, UNCHANGED <<usbRx, decoder, asked, ordered, sent, torn>>,
           AcceptedFrames' = AcceptedFrames, rxPc # "loop" \/ UNCHANGED <<rxPc, modemConfig>>
    PROVE  StoryInv'
<1> SUFFICES ASSUME torn' = 0
             PROVE  /\ sent' <= Len(Payload)
                    /\ \A j \in 1 .. Len(AcceptedFrames') : AcceptedFrames'[j].data = Payload[j]
                    /\ \E s, C, D : Story(s, C, D)'
    BY DEF StoryInv
<1>1. torn = 0
    OBVIOUS
<1>2. PICK s, C, D : Story(s, C, D)
    BY <1>1 DEF StoryInv
<1>3. \A fs, c, k, l : Carries(fs, c, k, l) => Carries(fs, c, k, l)'
    BY DEF Carries
<1>4. Carried(usbRx, s, C, D)'
    BY <1>2, <1>3 DEF Story, Carried
<1>5. Story(s, C, D)'
    BY <1>2, <1>4 DEF Story
<1> QED
    BY <1>1, <1>5 DEF StoryInv

Clean == /\ Silence /\ backlog = <<>> /\ txQueue = <<>> /\ taken = <<>> /\ sent = 0

LEMMA FreshStory == Clean => StoryInv
<1> SUFFICES ASSUME Clean PROVE StoryInv
    OBVIOUS
<1>0. usbRx = <<>> /\ decoder = IdleDecoder /\ asked = 0 /\ ordered = 0 /\ sent = 0
    BY DEF Clean, Silence
<1>1. PICK s, C, D : s = [i \in 0 .. 0 |-> IdleDecoder] /\ C = [i \in 0 .. 0 |-> 0]
                     /\ D = [i \in 0 .. 0 |-> 0]
    OBVIOUS
<1>2. Way(IdleDecoder, <<>>, s)
    BY <1>1, BasicFit, WayOfNothing
<1>3. Len(<<>>) = 0 /\ s[0] = IdleDecoder /\ C[0] = 0 /\ C \in [0 .. 0 -> Nat]
      /\ D[0] = 0 /\ D \in [0 .. 0 -> Nat]
    BY <1>1
<1>4. AcceptedFrames = <<>>
    BY DEF Clean, AcceptedFrames
<1>5. Tally(IdleDecoder, <<>>, s, C)
    BY <1>2, <1>3 DEF Tally
<1>6. Carried(<<>>, s, C, D)
    BY <1>3 DEF Carried
<1>7. Story(s, C, D)
    BY <1>0, <1>3, <1>4, <1>5, <1>6 DEF Story
<1>8. 0 <= Len(Payload)
    BY SerialAssumption
<1>9. Len(AcceptedFrames) = 0
    BY <1>3, <1>4
<1>10. \A j \in 1 .. Len(AcceptedFrames) : AcceptedFrames[j].data = Payload[j]
    BY <1>9
<1> QED
    BY <1>0, <1>7, <1>8, <1>10 DEF StoryInv

LEMMA FreshStoryPrimed == Clean' => StoryInv'
    BY FreshStory, PTL

\* No more is accepted than was sent.
LEMMA AcceptedIsSent ==
    ASSUME Sound, StoryInv, torn = 0
    PROVE  Len(AcceptedFrames) \in Nat /\ Len(AcceptedFrames) <= sent /\ sent <= Len(Payload)
<1>1. PICK s, C, D : Story(s, C, D)
    BY DEF StoryInv
<1>2. Len(usbRx) \in Nat /\ Len(AcceptedFrames) \in Nat
    BY AcceptedType DEF Sound, AllTypes, DownType
<1>3. D[0] <= D[Len(usbRx)]
    BY <1>1, <1>2, StoryRises
<1> QED
    BY <1>1, <1>2, <1>3 DEF Story, StoryInv

LEMMA QueuedIsLegal ==
    ASSUME Sound, StoryInv, torn = 0, LegalPayloads, txQueue # <<>>
    PROVE  Len(Head(txQueue).data) \in 1 .. MaxLen - 1
<1>1. taken \in Seq(Read) /\ txQueue \in Seq(Read) /\ backlog \in Seq(Read)
    BY DEF Sound, AllTypes, DownType
<1> DEFINE m == Len(taken)
           both == taken \o txQueue
           all == both \o backlog
<1>2. m \in Nat /\ Len(txQueue) \in Nat /\ Len(txQueue) >= 1 /\ Head(txQueue) = txQueue[1]
    BY <1>1
<1>3. /\ both \in Seq(Read) /\ Len(both) = m + Len(txQueue)
      /\ \A i \in 1 .. Len(txQueue) : both[m + i] = txQueue[i]
    BY <1>1, CatSeq
<1> HIDE DEF both
<1>4. /\ Len(all) = Len(both) + Len(backlog) /\ Len(backlog) \in Nat
      /\ \A i \in 1 .. Len(both) : all[i] = both[i]
    <2> DEFINE Cat(u, v) == /\ Len(u \o v) = Len(u) + Len(v) /\ Len(v) \in Nat
                            /\ \A i \in 1 .. Len(u) : (u \o v)[i] = u[i]
    <2>1. \A u, v \in Seq(Read) : Cat(u, v)
        BY CatSeq
    <2>2. Cat(both, backlog)
        <3> HIDE DEF Cat
        <3> QED
            BY <1>1, <1>3, <2>1
    <2> QED
        BY <2>2
<1>5. all = AcceptedFrames
    BY DEF AcceptedFrames, both
<1> HIDE DEF all, m
<1>6. m + 1 \in 1 .. Len(both) /\ m + 1 \in 1 .. Len(all) /\ 1 \in 1 .. Len(txQueue)
    BY <1>2, <1>3, <1>4
<1>7. all[m + 1] = Head(txQueue)
    BY <1>2, <1>3, <1>4, <1>6
<1>8. all[m + 1].data = Payload[m + 1]
    BY <1>5, <1>6 DEF StoryInv
<1>9. m + 1 \in 1 .. Len(Payload)
    <2>1. Len(all) \in Nat /\ Len(all) <= sent /\ sent <= Len(Payload)
        BY <1>5, AcceptedIsSent
    <2>2. sent \in Nat /\ Len(Payload) \in Nat
        BY SerialAssumption DEF Sound, AllTypes, HostType
    <2> QED
        BY <1>2, <1>6, <2>1, <2>2
<1>10. DOMAIN Payload = 1 .. Len(Payload)
    BY SerialAssumption
<1> QED
    BY <1>7, <1>8, <1>9, <1>10 DEF LegalPayloads

LEMMA StepStory ==
    ASSUME ~SharedFend, NeutralNoise, LegalPayloads, Sound, OrderInv, StoryInv, [Next]_vars
    PROVE  StoryInv'
<1>1. DownType /\ HostType /\ TaskType /\ SettingsType
    BY DEF Sound, AllTypes
<1>2. CommandsWereOrdered
    BY <1>1, OrderHolds
<1>3. CASE torn' # 0
    BY <1>3 DEF StoryInv
<1>4. CASE SendData /\ torn' = 0
    <2>1. MaySendData /\ Write(NextData) /\ sent' = sent + 1 /\ ordered' = ordered /\ torn = 0
        BY <1>4 DEF SendData
    <2>2. asked = ordered /\ rxPc = "loop" /\ hostMode = modemConfig
        BY <1>2, <2>1, Ready
    <2> DEFINE p == Sealed(Payload[sent + 1], modemConfig)
               e == EncodeFrame(DATA_FRAME, p)
    <2>3. /\ Payload[sent + 1] \in Seq(Nat) /\ sent + 1 \in DOMAIN Payload
          /\ NextData = Encoded(DATA_FRAME, Sealed(Payload[sent + 1], hostMode))
        BY <1>1, <2>1, NextDataType
    <2>4. NextData = e
        BY <2>2, <2>3 DEF Encoded
    <2>5. p \in Seq(Nat) /\ Len(p) <= MaxLen
        <3>1. Len(Payload[sent + 1]) \in 1 .. MaxLen - 1
            BY <2>3 DEF LegalPayloads
        <3>2. p \in Seq(Nat) /\ (Len(p) = Len(Payload[sent + 1]) + 1 \/ p = Payload[sent + 1])
            BY <2>3, SealedType DEF Sealed
        <3> QED
            BY <3>1, <3>2, MaxLenAssumption
    <2> HIDE DEF p
    <2>6. e \in Seq(Nat) /\ Sends(e, 0, 1)
        BY <1>1, <2>2, <2>5, FrameSends DEF p
    <2> HIDE DEF e
    <2>7. ordered' = ordered + 0 /\ sent' <= Len(Payload)
        BY <1>1, <2>1, SerialAssumption DEF HostType, MaySendData
    <2>8. Write(e)
        BY <2>1, <2>4
    <2> QED
        BY <1>1, <1>4, <2>1, <2>6, <2>7, <2>8, WriteKeepsStory
<1>5. CASE TearData
    <2>1. torn' = torn + 1 /\ torn \in Nat
        BY <1>1, <1>5 DEF TearData, HostType
    <2> QED
        BY <1>3, <2>1
<1>6. CASE SendCommand /\ torn' = 0
    <2>1. PICK c \in Lines : Write(Encoded(CONTROL_FRAME, <<c>>))
        BY <1>6 DEF SendCommand
    <2>2. ordered' = ordered + 1 /\ sent' = sent + 0 /\ torn = 0 /\ sent' <= Len(Payload)
        BY <1>1, <1>6 DEF SendCommand, HostType, StoryInv
    <2> DEFINE p == <<c>>
               e == EncodeFrame(CONTROL_FRAME, p)
    <2>3. p \in Seq(Nat) /\ Len(p) <= MaxLen
        <3>1. p \in Seq(Nat)
            BY CommandType
        <3>2. Len(p) = 1
            OBVIOUS
        <3> QED
            BY <3>1, <3>2, MaxLenAssumption
    <2> HIDE DEF p
    <2>4. e \in Seq(Nat) /\ Sends(e, 1, 0)
        <3>1. CONTROL_FRAME # DATA_FRAME
            BY DEF CONTROL_FRAME, DATA_FRAME
        <3> QED
            BY <1>1, <2>3, <3>1, FrameSends
    <2>5. Write(e)
        BY <2>1 DEF Encoded, e, p
    <2> HIDE DEF e
    <2> QED
        BY <1>1, <1>6, <2>2, <2>4, <2>5, WriteKeepsStory
<1>7. CASE SendNoise /\ torn' = 0
    <2>1. PICK e \in Noise : Write(e)
        BY <1>7 DEF SendNoise
    <2>2. ordered' = ordered + 0 /\ sent' = sent + 0 /\ torn = 0 /\ sent' <= Len(Payload)
        BY <1>1, <1>7 DEF SendNoise, HostType, StoryInv
    <2>3. e \in Seq(Nat) /\ Neutral(e)
        BY <2>1, SerialAssumption DEF NeutralNoise
    <2>4. Sends(e, 0, 0)
        BY <1>1, <2>3, NoiseSends
    <2> QED
        BY <1>1, <1>7, <2>1, <2>2, <2>3, <2>4, WriteKeepsStory
<1>8. CASE ReadFrame
    BY <1>8, ReadKeepsStory
<1>9. CASE Reboot
    BY <1>9, FreshStoryPrimed DEF Reboot, Boot, Clean, Silence
<1>10. CASE (QueueFrame \/ TakeFrame) /\ torn' = 0
    <2>1. UNCHANGED <<usbRx, decoder, asked, ordered, sent, torn, rxPc, modemConfig>>
        BY <1>10 DEF QueueFrame, TakeFrame, task, host, settings
    <2>2. TakeFrame => Len(Head(txQueue).data) \in 1 .. MaxLen - 1
        BY <1>10, <2>1, QueuedIsLegal DEF TakeFrame
    <2>3. AcceptedFrames' = AcceptedFrames
        BY <1>1, <1>10, <2>2, QueuesMove
    <2> QED
        BY <2>1, <2>3, ElsewhereKeepsStory
<1>11. CASE /\ UNCHANGED <<down, asked, ordered, sent, torn>>
            /\ rxPc # "loop" \/ UNCHANGED <<rxPc, modemConfig>>
    <2>1. AcceptedFrames' = AcceptedFrames
        BY <1>11 DEF down, AcceptedFrames
    <2> QED
        BY <1>11, <2>1, ElsewhereKeepsStory DEF down
<1>12. CASE HostRead \/ TakeOutgoing \/ LockTx \/ WriteFrame
    BY <1>11, <1>12 DEF HostRead, TakeOutgoing, LockTx, WriteFrame, down, task, host, settings
<1>13. CASE LockRx \/ ResumeScan \/ Resume \/ SaveSet \/ SaveDefaults
    BY <1>11, <1>13 DEF LockRx, ResumeScan, Resume, SaveSet, SaveDefaults, EndCommand, down, host
<1>14. CASE WriteReply
    <2>1. rxPc = "write"
        BY <1>14 DEF WriteReply, Sound, SettingsInv, Handshake
    <2> QED
        BY <1>11, <1>14, <2>1 DEF WriteReply, down, host
<1>15. CASE StageCommand \/ ApplyConfig \/ ScanBand \/ Deliver
    BY <1>11, <1>15 DEF StageCommand, ApplyConfig, ScanBand, Deliver, down, task, host, settings
<1>16. CASE UNCHANGED vars
    BY <1>11, <1>16 DEF vars, down, task, host, settings
<1> QED
    BY <1>3, <1>4, <1>5, <1>6, <1>7, <1>8, <1>9, <1>10, <1>12, <1>13, <1>14, <1>15, <1>16
    DEF Next, HostStep, RxTaskStep, TxTaskStep, MacStep, MacWork

LEMMA StoryHolds ==
    ASSUME LegalPayloads, Sound, OrderInv, StoryInv
    PROVE  NothingSkipped
<1> DEFINE n == Len(AcceptedFrames)
           accepted == Numbers(AcceptedFrames)
<1>1. CommandsWereOrdered
    BY OrderHolds DEF Sound, AllTypes
<1>2. ASSUME torn = 0
      PROVE  /\ accepted = [k \in 1 .. Len(accepted) |-> k]
             /\ usbRx = <<>> => Len(accepted) = sent /\ asked = ordered
    <2>1. /\ AcceptedFrames \in Seq(Read) /\ n \in Nat /\ n <= sent /\ sent <= Len(Payload)
          /\ DOMAIN AcceptedFrames = 1 .. n
        BY <1>2, AcceptedType, AcceptedIsSent DEF Sound, AllTypes
    <2>2. sent \in Nat /\ Len(Payload) \in Nat /\ DOMAIN Payload = 1 .. Len(Payload)
        BY SerialAssumption DEF Sound, AllTypes, HostType
    <2>3. accepted = [i \in DOMAIN AcceptedFrames |-> Number(AcceptedFrames[i].data)]
        BY DEF Numbers
    <2> HIDE DEF n
    <2>4. ASSUME NEW j \in 1 .. n PROVE Number(AcceptedFrames[j].data) = j
        <3>1. AcceptedFrames[j].data = Payload[j]
            BY <1>2, <2>4 DEF StoryInv, n
        <3>2. j \in DOMAIN Payload
            BY <2>1, <2>2, <2>4
        <3>3. \A k \in DOMAIN Payload : Payload[k] = Payload[j] => k = j
            BY <3>2 DEF LegalPayloads
        <3>4. Number(Payload[j]) = CHOOSE k \in DOMAIN Payload : Payload[k] = Payload[j]
            BY <3>2 DEF Number
        <3>5. (CHOOSE k \in DOMAIN Payload : Payload[k] = Payload[j]) = j
            BY <3>2, <3>3
        <3> QED
            BY <3>1, <3>4, <3>5
    <2>5. accepted = [k \in 1 .. n |-> k]
        BY <2>1, <2>3, <2>4
    <2>6. Len(accepted) = n
        BY <2>1, <2>5
    <2>7. ASSUME usbRx = <<>> PROVE n = sent /\ asked = ordered
        <3>1. PICK s, C, D : Story(s, C, D)
            BY <1>2 DEF StoryInv
        <3>2. Len(usbRx) = 0
            BY <2>7
        <3> QED
            BY <3>1, <3>2 DEF Story, n
    <2> QED
        BY <2>5, <2>6, <2>7
<1>3. AcceptedFrames = taken \o txQueue \o backlog
    BY DEF AcceptedFrames
<1> QED
    BY <1>1, <1>2, <1>3 DEF NothingSkipped

\* What a host writes reaches the engine and handleControlCommand whole, once
\* and in order, through a full ring, a full queue and changes of mode, if it
\* opens every frame with a FEND of its own.  The noise between frames must
\* not leave the decoder inside a frame, and the payloads must be of a length
\* the engine takes and each another, so that they can be told apart.
THEOREM NothingIsSkipped ==
    ASSUME ~SharedFend, NeutralNoise, LegalPayloads
    PROVE  Spec => []NothingSkipped
<1> DEFINE I == Sound /\ OrderInv /\ StoryInv
<1>1. I => NothingSkipped
    BY LegalPayloads, StoryHolds
<1>2. Init => I
    <2>1. Init => StoryInv
        BY FreshStory DEF Init, Clean, Silence
    <2> QED
        BY <2>1, InitSound, InitOrder
<1>3. I /\ [Next]_vars => I'
    <2>1. QuietNoise
        BY NeutralNoise DEF NeutralNoise, QuietNoise
    <2> QED
        BY <2>1, ~SharedFend, NeutralNoise, LegalPayloads, StepSound, StepOrder, StepStory
<1> QED
    BY <1>1, <1>2, <1>3, PTL DEF Spec

=============================================================================
