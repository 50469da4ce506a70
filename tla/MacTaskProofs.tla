--------------------------- MODULE MacTaskProofs ---------------------------
(***************************************************************************)
(* Theorems about MacTask for every mode, time limit, queue depth and      *)
(* number of events.                                                       *)
(***************************************************************************)
EXTENDS MacTask, FiniteSetTheorems, TLAPS

----------------------------------------------------------------------------
\* Types.  A round is sent only while there is one, the back-offs of a frame
\* are counted from its first, and settings and heartbeats find the task idle.

Rounds == op = "data" => own > 1
Backoffs ==
    op # "native" => IF phase = "LBT_BACKOFF" THEN tries < LbtTries ELSE tries = 0
Undisturbed == op \in {"apply", "scan", "beat"} => phase = "IDLE"
TypeInv == TypeOK /\ Rounds /\ Backoffs /\ Undisturbed

LEMMA InitType == Init => TypeInv
<1> SUFFICES ASSUME Init PROVE TypeInv
    OBVIOUS
<1>1. RadioTyped
    BY MacAssumption DEF Init, RadioTyped
<1>2. QueuesTyped
    BY MacAssumption DEF Init, QueuesTyped
<1>3. StepTyped
    BY DEF Init, StepTyped
<1>8. Suppression
    BY DEF Init, Suppression
<1>4. TxTyped
    BY MacAssumption DEF Init, TxTyped
<1>5. FlagsTyped
    BY DEF Init, FlagsTyped
<1>6. ClockTyped
    BY MacAssumption DEF Init, ClockTyped, Never
<1>7. Rounds /\ Backoffs /\ Undisturbed
    BY DEF Init, Rounds, Backoffs, Undisturbed
<1> QED
    BY <1>1, <1>2, <1>3, <1>4, <1>5, <1>6, <1>7, <1>8 DEF TypeInv, TypeOK

LEMMA StepRadio == RadioTyped /\ Next => RadioTyped'
<1> SUFFICES ASSUME RadioTyped, Next PROVE RadioTyped'
    OBVIOUS
<1> USE DEF RadioTyped
<1>1. CASE Environment
    BY <1>1, MacAssumption DEF Environment, Arrive, Lockout, QueueFrame, Request,
        PollStats, radio
<1>2. CASE Dio1Isr \/ Wake \/ Key \/ Tick
    BY <1>2, MacAssumption DEF Dio1Isr, Wake, Key, Tick, radio, bounds
<1>3. CASE Air
    BY <1>3, MacAssumption DEF Air
<1>4. CASE Release \/ ServiceTx \/ ServiceNative
    BY <1>4 DEF Release, ServiceTx, ServiceNative, radio, bounds
<1>5. CASE HandleRadioEvent
    BY <1>5 DEF HandleRadioEvent, StartReceive, bounds
<1>6. CASE ServiceIdle
    BY <1>6 DEF ServiceIdle, ExecuteCommand, TakeFrame, StartHeartbeat, PutOffHeartbeat, Rearm,
        Rest, StartReceive, radio, bounds
<1> QED
    BY <1>1, <1>2, <1>3, <1>4, <1>5, <1>6 DEF Next, MacStep

LEMMA StepQueues == QueuesTyped /\ Next => QueuesTyped'
<1> SUFFICES ASSUME QueuesTyped, Next PROVE QueuesTyped'
    OBVIOUS
<1> USE DEF QueuesTyped
<1>1. CASE Environment
    BY <1>1, MacAssumption DEF Environment, Arrive, Lockout, QueueFrame, Request,
        PollStats, queues
<1>2. CASE Dio1Isr
    BY <1>2 DEF Dio1Isr, queues
<1>3. CASE Wake
    BY <1>3 DEF Wake
<1>4. CASE Release
    BY <1>4 DEF Release
<1>5. CASE TakeFrame
    BY <1>5, MacAssumption DEF TakeFrame, Free, MayTake
<1>6. CASE Key \/ Air \/ Tick \/ HandleRadioEvent \/ ServiceTx \/ ServiceNative
    BY <1>6 DEF Key, Air, Tick, HandleRadioEvent, ServiceTx, ServiceNative, queues
<1>7. CASE ExecuteCommand \/ StartHeartbeat \/ PutOffHeartbeat \/ Rearm \/ Rest
    BY <1>7 DEF ExecuteCommand, StartHeartbeat, PutOffHeartbeat, Rearm, Rest, queues
<1> QED
    BY <1>1, <1>2, <1>3, <1>4, <1>5, <1>6, <1>7 DEF Next, MacStep, ServiceIdle

LEMMA StepSteps == StepTyped /\ Next => StepTyped'
<1> SUFFICES ASSUME StepTyped, Next PROVE StepTyped'
    OBVIOUS
<1> USE DEF StepTyped
<1>1. CASE Environment \/ Dio1Isr \/ Tick
    BY <1>1 DEF Environment, Arrive, Lockout, QueueFrame, Request, PollStats, Dio1Isr, Tick,
        radio, operation
<1>2. CASE Wake
    BY <1>2 DEF Wake, radio, operation
<1>3. CASE Key
    BY <1>3 DEF Key, operation
<1>4. CASE Air
    BY <1>4 DEF Air
<1>5. CASE Release
    BY <1>5 DEF Release, EndSuppression
<1> USE DEF Operate, GoTo, RadioOperation
<1>6. CASE HandleRadioEvent
    BY <1>6 DEF HandleRadioEvent, operation
<1>7. CASE ServiceTx
    BY <1>7 DEF ServiceTx, EngineTick, radio, operation
<1>8. CASE ServiceNative
    BY <1>8 DEF ServiceNative, radio, operation
<1>9. CASE ExecuteCommand
    BY <1>9 DEF ExecuteCommand, radio
<1>10. CASE TakeFrame
    BY <1>10 DEF TakeFrame, SubmitDatagram, StartFrame, DropFrame, Free, radio, operation
<1>11. CASE StartHeartbeat
    BY <1>11 DEF StartHeartbeat, Quiet, Free, radio
<1>12. CASE PutOffHeartbeat \/ Rearm \/ Rest
    BY <1>12 DEF PutOffHeartbeat, Rearm, Rest, Quiet, Free, radio, operation
<1> QED
    BY <1>1, <1>2, <1>3, <1>4, <1>5, <1>6, <1>7, <1>8, <1>9, <1>10, <1>11, <1>12
    DEF Next, MacStep, ServiceIdle

LEMMA StepSuppression == StepTyped /\ Suppression /\ Next => Suppression'
<1> SUFFICES ASSUME StepTyped, Suppression, Next PROVE Suppression'
    OBVIOUS
<1> USE DEF Suppression
<1>1. CASE Environment \/ Dio1Isr \/ Tick
    BY <1>1 DEF Environment, Arrive, Lockout, QueueFrame, Request, PollStats, Dio1Isr, Tick,
        radio, operation
<1>2. CASE Wake \/ Key \/ Air
    BY <1>2 DEF Wake, Key, Air, radio, operation
<1>5. CASE Release
    BY <1>5 DEF Release, EndSuppression, StepTyped
<1> USE DEF Operate, GoTo
<1>6. CASE HandleRadioEvent
    BY <1>6 DEF HandleRadioEvent
<1>7. CASE ServiceTx \/ ServiceNative
    BY <1>7 DEF ServiceTx, EngineTick, ServiceNative, radio
<1>8. CASE ServiceIdle
    BY <1>8 DEF ServiceIdle, ExecuteCommand, TakeFrame, SubmitDatagram, StartFrame,
        DropFrame, StartHeartbeat, PutOffHeartbeat, Rearm,
        Rest, Quiet, Free, radio
<1> QED
    BY <1>1, <1>2, <1>5, <1>6, <1>7, <1>8 DEF Next, MacStep

LEMMA StepTx == TypeInv /\ Next => TxTyped' /\ Rounds' /\ Backoffs' /\ Undisturbed'
<1> SUFFICES ASSUME TypeInv, Next PROVE TxTyped' /\ Rounds' /\ Backoffs' /\ Undisturbed'
    OBVIOUS
<1> TxTyped /\ StepTyped /\ Rounds /\ Backoffs /\ Undisturbed
    BY DEF TypeInv, TypeOK
<1> USE MacAssumption DEF TxTyped, Rounds, Backoffs, Undisturbed
<1>1. CASE Environment \/ Dio1Isr \/ Wake \/ Key
    BY <1>1 DEF Environment, Arrive, Lockout, QueueFrame, Request, PollStats, Dio1Isr,
        Wake, Key,
        operation, tx, engine
<1>2. CASE Tick
    BY <1>2 DEF Tick, Less, operation
<1>3. CASE Air
    BY <1>3 DEF Air, tx, engine
<1>4. CASE Release
    BY <1>4 DEF Release, ResetArqEngine
<1>5. CASE HandleRadioEvent
  <2>1. own' \in {0, own} /\ op # "data" /\ op' # "data"
    BY <1>5 DEF HandleRadioEvent, Operate, GoTo, operation, engine, StepTyped
  <2>2. op # "native" /\ op' \in {"none", "beatAck", "ready"}
    BY <1>5 DEF HandleRadioEvent, Operate, GoTo, operation, StepTyped
  <2>3. IF Answers(inbox) THEN phase' = "IDLE" ELSE phase' = phase
    BY <1>5 DEF HandleRadioEvent
  <2>4. mode' = mode /\ deadline' = deadline /\ tries' = tries
    BY <1>5 DEF HandleRadioEvent
  <2> QED
    BY <2>1, <2>2, <2>3, <2>4 DEF Answers
<1>6. CASE ServiceTx
    BY <1>6 DEF ServiceTx, Expire, EngineTick, Operate, GoTo, operation, StepTyped
<1>7. CASE ServiceNative
    BY <1>7 DEF ServiceNative, Expire, CountTry, Operate, GoTo, operation, engine, StepTyped
<1>8. CASE ExecuteCommand
    BY <1>8 DEF ExecuteCommand, Operate, tx, engine, StepTyped
<1>9. CASE StartHeartbeat
    BY <1>9 DEF StartHeartbeat, Quiet, Free, Operate, tx, engine, StepTyped
<1>10. CASE TakeFrame
    BY <1>10 DEF TakeFrame, SubmitDatagram, StartFrame, DropFrame, Free, Operate, GoTo,
        operation, tx, StepTyped
<1>11. CASE PutOffHeartbeat \/ Rearm \/ Rest
    BY <1>11 DEF PutOffHeartbeat, Rearm, Rest, GoTo, operation, tx, engine
<1> QED
    BY <1>1, <1>2, <1>3, <1>4, <1>5, <1>6, <1>7, <1>8, <1>9, <1>10, <1>11
    DEF Next, MacStep, ServiceIdle

LEMMA StepFlags == Suppression /\ FlagsTyped /\ Next => FlagsTyped'
<1> SUFFICES ASSUME Suppression, FlagsTyped, Next PROVE FlagsTyped'
    OBVIOUS
<1> USE DEF FlagsTyped
<1>1. CASE Environment
  <2>1. CASE Arrive
    BY <2>1 DEF Arrive, operation, engine, Suppression
  <2>2. CASE Lockout \/ QueueFrame \/ Request \/ PollStats
    BY <2>2 DEF Lockout, QueueFrame, Request, PollStats, operation, engine, radio
  <2> QED
    BY <1>1, <2>1, <2>2 DEF Environment
<1>2. CASE Tick
  <2>1. retry' \in BOOLEAN /\ slept' \in BOOLEAN
    BY <1>2 DEF Tick
  <2> QED
    BY <1>2, <2>1 DEF Tick, operation, radio
<1>9. CASE Dio1Isr \/ Wake \/ Key \/ Air
    BY <1>9, Zenon DEF Dio1Isr, Wake, Key, Air, operation, engine, radio
<1>3. CASE Release
    BY <1>3 DEF Release, ResetArqEngine
<1>4. CASE HandleRadioEvent
    BY <1>4 DEF HandleRadioEvent, StartReceive, Operate, GoTo, operation, engine
<1>5. CASE ServiceTx
    BY <1>5 DEF ServiceTx, EngineTick, Operate, GoTo, operation, radio
<1>6. CASE ServiceNative
    BY <1>6 DEF ServiceNative, Operate, GoTo, operation, engine, radio
<1>7. CASE TakeFrame
    BY <1>7 DEF TakeFrame, SubmitDatagram, StartFrame, DropFrame, Housekeep, Operate,
        GoTo, operation, radio
<1>8. CASE ExecuteCommand \/ StartHeartbeat \/ PutOffHeartbeat \/ Rearm \/ Rest
    BY <1>8 DEF ExecuteCommand, StartHeartbeat, PutOffHeartbeat, Rearm, Rest, StartReceive,
        Housekeep, Operate, GoTo, operation, engine, radio
<1> QED
    BY <1>1, <1>2, <1>3, <1>4, <1>5, <1>6, <1>7, <1>8, <1>9 DEF Next, MacStep, ServiceIdle

LEMMA StepClock == ClockTyped /\ Next => ClockTyped'
<1> SUFFICES ASSUME ClockTyped, Next PROVE ClockTyped'
    OBVIOUS
<1> Idle \in Nat /\ RearmIdle \in Nat /\ ProbeTtl \in Nat /\ Intervals \subseteq Nat
    BY MacAssumption
<1> USE DEF ClockTyped, Never
<1>1. CASE Environment \/ Dio1Isr \/ Wake \/ Key \/ Air
    BY <1>1 DEF Environment, Arrive, Lockout, QueueFrame, Request, PollStats, Report, Dio1Isr,
        Wake, Key, Air, confirmation
<1>2. CASE Tick
    BY <1>2 DEF Tick, Less, Older
<1>3. CASE Release
    BY <1>3 DEF Release, confirmation
<1>4. CASE HandleRadioEvent
  <2>1. (sincePayload' = 0 \/ sincePayload' = sincePayload)
        /\ (sinceConfirm' = 0 \/ sinceConfirm' = sinceConfirm) /\ sinceRadio' = 0
    BY <1>4 DEF HandleRadioEvent
  <2>2. hbIn' = hbIn \/ hbIn' \in Intervals
    BY <1>4 DEF HandleRadioEvent
  <2>3. link' \in {"READY", link}
    BY <1>4 DEF HandleRadioEvent
  <2>4. hbIn' \in Nat
    BY <2>2
  <2>5. sincePayload' \in 0 .. Idle /\ sinceConfirm' \in 0 .. Never /\ sinceRadio' \in 0 .. RearmIdle
    BY <2>1
  <2> QED
    BY <2>3, <2>4, <2>5
<1>5. CASE ServiceTx \/ ServiceNative
    BY <1>5 DEF ServiceTx, ServiceNative, Expire, Report
<1>6. ServiceIdle => link' \in {"DOWN", "PROBING", "READY"}
    BY DEF ServiceIdle, ExecuteCommand, TakeFrame, StartHeartbeat, PutOffHeartbeat, Rearm, Rest,
       Housekeep, Report
<1>7. CASE ExecuteCommand \/ TakeFrame \/ StartHeartbeat
    BY <1>6, <1>7 DEF ServiceIdle, ExecuteCommand, TakeFrame, StartHeartbeat
<1>8. CASE PutOffHeartbeat
    BY <1>6, <1>8 DEF ServiceIdle, PutOffHeartbeat
<1>9. CASE Rearm \/ Rest
    BY <1>6, <1>9 DEF ServiceIdle, Rearm, Rest
<1> QED
    BY <1>1, <1>2, <1>3, <1>4, <1>5, <1>7, <1>8, <1>9 DEF Next, MacStep, ServiceIdle

LEMMA StepType == TypeInv /\ [Next]_vars => TypeInv'
<1> SUFFICES ASSUME TypeInv, [Next]_vars PROVE TypeInv'
    OBVIOUS
<1>1. CASE Next
    BY <1>1, StepRadio, StepQueues, StepSteps, StepSuppression, StepTx, StepFlags,
        StepClock DEF TypeInv, TypeOK
<1>2. CASE UNCHANGED vars
  <2> USE <1>2 DEF TypeInv, TypeOK, vars
  <2>1. RadioTyped' /\ StepTyped' /\ Suppression'
    BY DEF RadioTyped, StepTyped, Suppression, radio, operation, bounds
  <2>2. QueuesTyped'
    BY DEF QueuesTyped, queues
  <2>3. TxTyped' /\ Rounds' /\ Backoffs' /\ Undisturbed'
    BY DEF TxTyped, Rounds, Backoffs, Undisturbed, tx, engine, operation
  <2>4. ClockTyped'
    BY DEF ClockTyped, confirmation
  <2>5. FlagsTyped'
    BY DEF FlagsTyped, radio, operation, engine
  <2> QED
    BY <2>1, <2>2, <2>3, <2>4, <2>5
<1> QED
    BY <1>1, <1>2

\* Every reachable state is typed; the interrupt is suppressed exactly while
\* a radio operation is on the air.
THEOREM TypeCorrect == Spec => []TypeOK
<1>1. Spec => []TypeInv
    BY InitType, StepType, PTL DEF Spec
<1> QED
    BY <1>1, PTL DEF TypeInv

----------------------------------------------------------------------------
\* The interrupt.  While it is suppressed the DIO1 line of a packet is late;
\* an operation begins by clearing the line, and nothing raises it before the
\* chip receives again.

Marked == txActive = TRUE /\ inbox # "none" => late = TRUE
Outstanding == edge = TRUE \/ RadioEvents # {} \/ pc = "event"
Remembered == txActive = FALSE /\ inbox # "none" /\ late = FALSE => Outstanding
Cleared == pc = "air" => inbox = "none" /\ chip # "rx"
Caused == /\ RadioEvents # {} => events > 0
          /\ edge = TRUE /\ inbox # "none" => events > 0
Interrupt == Marked /\ Remembered /\ Cleared /\ Caused

LEMMA Tokens == QueuesTyped /\ Cardinality(RadioEvents) >= RxTokens => RadioEvents # {}
<1> SUFFICES ASSUME RadioEvents = {}, Cardinality(RadioEvents) >= RxTokens PROVE FALSE
    OBVIOUS
<1>1. Cardinality(RadioEvents) = 0
    BY FS_EmptySet
<1> QED
    BY <1>1, MacAssumption

\* What an event appended to the wait set, or taken from it, changes.
LEMMA Appended ==
    ASSUME QueuesTyped, NEW e \in {"radio", "tx", "cmd"}, waitSet' = Append(waitSet, e)
    PROVE  (RadioEvents # {})' <=> (RadioEvents # {} \/ e = "radio")
<1>1. DOMAIN waitSet' = 1 .. Len(waitSet) + 1 /\ DOMAIN waitSet = 1 .. Len(waitSet)
      /\ Len(waitSet) \in Nat
    BY DEF QueuesTyped
<1>2. \A i \in 1 .. Len(waitSet) : waitSet'[i] = waitSet[i]
    BY DEF QueuesTyped
<1>3. waitSet'[Len(waitSet) + 1] = e
    BY DEF QueuesTyped
<1> QED
    BY <1>1, <1>2, <1>3 DEF RadioEvents

LEMMA Taken ==
    ASSUME QueuesTyped, waitSet # <<>>, waitSet' = Tail(waitSet)
    PROVE  RadioEvents # {} <=> ((RadioEvents # {})' \/ Head(waitSet) = "radio")
<1>1. DOMAIN waitSet' = 1 .. Len(waitSet) - 1 /\ DOMAIN waitSet = 1 .. Len(waitSet)
      /\ Len(waitSet) \in Nat \ {0}
    BY DEF QueuesTyped
<1>2. \A i \in 1 .. Len(waitSet) - 1 : waitSet'[i] = waitSet[i + 1]
    BY DEF QueuesTyped
<1>3. Head(waitSet) = waitSet[1]
    BY DEF QueuesTyped
<1>4. ASSUME NEW i \in 1 .. Len(waitSet), waitSet[i] = "radio"
      PROVE  (RadioEvents # {})' \/ Head(waitSet) = "radio"
  <2>1. CASE i = 1
    BY <1>3, <1>4, <2>1
  <2>2. CASE i # 1
    <3>1. i - 1 \in 1 .. Len(waitSet) - 1 /\ waitSet'[i - 1] = "radio"
        BY <1>1, <1>2, <1>4, <2>2
    <3> QED
        BY <1>1, <3>1 DEF RadioEvents
  <2> QED
    BY <2>1, <2>2
<1>5. ASSUME NEW i \in 1 .. Len(waitSet) - 1, waitSet'[i] = "radio"
      PROVE  RadioEvents # {}
  <2>1. i + 1 \in 1 .. Len(waitSet) /\ waitSet[i + 1] = "radio"
    BY <1>1, <1>2, <1>5
  <2> QED
    BY <1>1, <2>1 DEF RadioEvents
<1>6. Head(waitSet) = "radio" => RadioEvents # {}
    BY <1>1, <1>3 DEF RadioEvents
<1> QED
    BY <1>1, <1>4, <1>5, <1>6 DEF RadioEvents

LEMMA Kept == waitSet' = waitSet => RadioEvents' = RadioEvents
    BY DEF RadioEvents

LEMMA InitInterrupt == Init => Interrupt
<1> SUFFICES ASSUME Init PROVE Interrupt
    OBVIOUS
<1>1. RadioEvents = {}
    BY DEF Init, RadioEvents
<1> QED
    BY <1>1 DEF Init, Interrupt, Marked, Remembered, Cleared, Caused

LEMMA StepInterrupt == TypeInv /\ Interrupt /\ [Next]_vars => Interrupt'
<1> SUFFICES ASSUME TypeInv, Interrupt, [Next]_vars PROVE Interrupt'
    OBVIOUS
<1> RadioTyped /\ QueuesTyped /\ StepTyped /\ Suppression /\ FlagsTyped
    BY DEF TypeInv, TypeOK
<1>0. events \in Nat
    BY MacAssumption DEF RadioTyped
<1> USE DEF Interrupt, Marked, Remembered, Outstanding, Cleared, Caused
<1>1. CASE Arrive
  <2>1. RadioEvents' = RadioEvents /\ events' > 0
    BY <1>0, <1>1, Kept DEF Arrive
  <2>2. pc # "air"
    BY <1>1 DEF Arrive
  <2> QED
    BY <1>1, <2>1, <2>2 DEF Arrive, operation, Suppression, FlagsTyped
<1>2. CASE Lockout \/ PollStats
    BY <1>0, <1>2, Kept DEF Lockout, PollStats, radio, operation
<1>3. CASE Dio1Isr
  <2>1. CASE ~txActive /\ inbox # "none" /\ Cardinality(RadioEvents) < RxTokens
    <3>1. (RadioEvents # {})'
        BY <1>3, <2>1, Appended DEF Dio1Isr
    <3> QED
        BY <1>3, <2>1, <3>1 DEF Dio1Isr, operation, bounds, Suppression
  <2>2. CASE ~(~txActive /\ inbox # "none" /\ Cardinality(RadioEvents) < RxTokens)
    <3>1. RadioEvents' = RadioEvents
        BY <1>3, <2>2, Kept DEF Dio1Isr
    <3>2. txActive = FALSE /\ inbox # "none" => RadioEvents # {}
        <4>1. Len(waitSet) \in Nat /\ RadioEvents \subseteq 1 .. Len(waitSet)
            BY DEF QueuesTyped, RadioEvents
        <4>2. Cardinality(RadioEvents) \in Nat
            <5>1. IsFiniteSet(1 .. Len(waitSet))
                BY <4>1, FS_Interval
            <5>2. IsFiniteSet(RadioEvents)
                BY <4>1, <5>1, FS_Subset
            <5> QED
                BY <5>2, FS_CardinalityType
        <4>3. Cardinality(RadioEvents) >= RxTokens \/ Cardinality(RadioEvents) < RxTokens
            BY <4>2, MacAssumption
        <4> QED
            BY <2>2, <4>3, Tokens
    <3> QED
        BY <1>3, <2>2, <3>1, <3>2 DEF Dio1Isr, operation, bounds
  <2> QED
    BY <2>1, <2>2
<1>4. CASE QueueFrame \/ Request
  <2>1. (RadioEvents # {})' <=> RadioEvents # {}
    BY <1>4, Appended DEF QueueFrame, Request
  <2> QED
    BY <1>0, <1>4, <2>1 DEF QueueFrame, Request, radio, operation
<1>5. CASE Tick
  <2>1. RadioEvents = {} /\ RadioEvents' = {}
    BY <1>5, Kept DEF Tick, RadioEvents
  <2> QED
    BY <1>5, <2>1 DEF Tick, radio, operation, FlagsTyped
<1>6. CASE Wake
  <2>1. CASE waitSet = <<>>
    BY <1>6, <2>1, Kept DEF Wake, radio, operation, bounds
  <2>2. CASE waitSet # <<>>
    <3>1. RadioEvents # {} <=> ((RadioEvents # {})' \/ Head(waitSet) = "radio")
        BY <1>6, <2>2, Taken DEF Wake
    <3>2. Head(waitSet) = "radio" => pc' = "event"
        BY <1>6, <2>2 DEF Wake
    <3>3. pc' # "air" /\ pc # "event"
        BY <1>6, <2>2 DEF Wake
    <3> QED
        BY <1>6, <3>1, <3>2, <3>3 DEF Wake, radio, bounds
  <2> QED
    BY <2>1, <2>2
<1>7. CASE Key
    BY <1>7, Kept DEF Key, bounds
<1>8. CASE Air
  <2>1. RadioEvents' = RadioEvents /\ inbox' = "none" /\ pc' = "release" /\ events' = events
    BY <1>8, Kept DEF Air
  <2> QED
    BY <2>1
<1>9. CASE Release
  <2>1. RadioEvents' = RadioEvents
    BY <1>9, Kept DEF Release
  <2>2. pc' # "air" /\ (inbox # "none" => late = TRUE)
    BY <1>9 DEF Release, StepTyped, Suppression
  <2> QED
    BY <1>9, <2>1, <2>2 DEF Release, EndSuppression, bounds
<1>10. CASE HandleRadioEvent
  <2>1. RadioEvents' = RadioEvents
    BY <1>10, Kept DEF HandleRadioEvent
  <2>2. pc' # "air" /\ inbox' = "none"
    BY <1>10 DEF HandleRadioEvent, StartReceive, Operate, GoTo
  <2> QED
    BY <1>10, <2>1, <2>2 DEF HandleRadioEvent, bounds
<1>11. CASE ServiceTx \/ ServiceNative
  <2>1. RadioEvents' = RadioEvents
    BY <1>11, Kept DEF ServiceTx, ServiceNative
  <2>2. pc' # "air" /\ pc # "event"
    BY <1>11 DEF ServiceTx, ServiceNative, EngineTick, Operate, GoTo
  <2> QED
    BY <1>11, <2>1, <2>2 DEF ServiceTx, ServiceNative, radio, bounds
<1>12. CASE Rearm
  <2>1. RadioEvents' = RadioEvents
    BY <1>12, Kept DEF Rearm
  <2> QED
    BY <1>12, <2>1 DEF Rearm, StartReceive, GoTo, bounds
<1>13. CASE ExecuteCommand \/ TakeFrame \/ StartHeartbeat \/ PutOffHeartbeat \/ Rest
  <2>1. RadioEvents' = RadioEvents
    BY <1>13, Kept DEF ExecuteCommand, TakeFrame, StartHeartbeat, PutOffHeartbeat, Rest
  <2>2. pc' # "air" /\ pc # "event"
    BY <1>13 DEF ExecuteCommand, TakeFrame, SubmitDatagram, StartFrame, DropFrame,
        StartHeartbeat, PutOffHeartbeat, Rest, Quiet, Free,
        Operate, GoTo
  <2> QED
    BY <1>13, <2>1, <2>2
    DEF ExecuteCommand, TakeFrame, StartHeartbeat, PutOffHeartbeat, Rest, radio, bounds
<1>14. CASE UNCHANGED vars
    BY <1>14, Kept DEF vars, radio, operation, bounds
<1> QED
    BY <1>1, <1>2, <1>3, <1>4, <1>5, <1>6, <1>7, <1>8, <1>9, <1>10, <1>11, <1>12, <1>13, <1>14
    DEF Next, Environment, MacStep, ServiceIdle

\* A packet that ends while the interrupt is open reaches the task.
THEOREM NothingIsForgotten == Spec => []NoPacketForgotten
<1>1. TypeInv /\ Interrupt => NoPacketForgotten
    BY DEF TypeInv, TypeOK, FlagsTyped, Suppression, Interrupt, Remembered, Outstanding,
        NoPacketForgotten
<1> QED
    BY <1>1, InitType, StepType, InitInterrupt, StepInterrupt, PTL DEF Spec

\* The task is not woken by what it transmits.
THEOREM TransmissionsAreSilent == Spec => []OwnTransmissionsAreSilent
<1>1. Interrupt => OwnTransmissionsAreSilent
    BY DEF Interrupt, Caused, OwnTransmissionsAreSilent
<1> QED
    BY <1>1, InitType, StepType, InitInterrupt, StepInterrupt, PTL DEF Spec

----------------------------------------------------------------------------
\* The link state.  It is exact at the end of a pass of the loop and one tick
\* old at its start; every tick is followed by a pass.

Fresh(slack) ==
    /\ link = "READY" => sinceConfirm <= ReadyTtl + slack
    /\ link # "DOWN" => sinceConfirm <= ProbeTtl + slack
    /\ link # "READY" => sinceConfirm <= slack \/ sinceConfirm > ReadyTtl
Current == IF slept THEN Fresh(1) ELSE Fresh(0)

LEMMA ReportIsFresh == ClockTyped /\ link' = Report /\ sinceConfirm' = sinceConfirm => Fresh(0)'
<1> SUFFICES ASSUME ClockTyped, link' = Report, sinceConfirm' = sinceConfirm PROVE Fresh(0)'
    OBVIOUS
<1>1. sinceConfirm \in Nat /\ ReadyTtl \in Nat /\ ProbeTtl \in Nat /\ ReadyTtl < ProbeTtl
    BY MacAssumption DEF ClockTyped, Never
<1> QED
    BY <1>1 DEF Report, Fresh

LEMMA FreshIsCurrent == ClockTyped /\ Fresh(0) => Fresh(1) /\ Current
<1> SUFFICES ASSUME ClockTyped, Fresh(0) PROVE Fresh(1) /\ Current
    OBVIOUS
<1>1. sinceConfirm \in Nat /\ ReadyTtl \in Nat /\ ProbeTtl \in Nat
    BY MacAssumption DEF ClockTyped, Never
<1> QED
    BY <1>1 DEF Fresh, Current

LEMMA FreshIsCurrentNext == ClockTyped' /\ Fresh(0)' => Current'
<1> SUFFICES ASSUME ClockTyped', Fresh(0)' PROVE Current'
    OBVIOUS
<1>1. sinceConfirm' \in Nat /\ ReadyTtl \in Nat /\ ProbeTtl \in Nat
    BY MacAssumption DEF ClockTyped, Never
<1> QED
    BY <1>1 DEF Fresh, Current

LEMMA InitCurrent == Init => Current
    BY MacAssumption DEF Init, Current, Fresh, Never

LEMMA StepCurrent == TypeInv /\ TypeInv' /\ Current /\ [Next]_vars => Current'
<1> SUFFICES ASSUME TypeInv, TypeInv', Current, [Next]_vars PROVE Current'
    OBVIOUS
<1>0. ClockTyped /\ ClockTyped' /\ slept \in BOOLEAN /\ slept' \in BOOLEAN
    BY DEF TypeInv, TypeOK, FlagsTyped
<1>1. CASE UNCHANGED <<slept, confirmation>>
    BY <1>1 DEF confirmation, Current, Fresh
<1>2. CASE Tick
  <2>1. ~slept /\ slept' = TRUE /\ link' = link /\ sinceConfirm' = Older(sinceConfirm, Never)
    BY <1>2 DEF Tick, Due
  <2>2. sinceConfirm \in Nat /\ ReadyTtl \in Nat /\ ProbeTtl \in Nat
        /\ sinceConfirm <= Never /\ Never \in Nat /\ Never > ReadyTtl
    BY <1>0, MacAssumption DEF ClockTyped, Never
  <2>3. Fresh(0)
    BY <2>1 DEF Current
  <2>4. Fresh(1)'
    BY <2>1, <2>2, <2>3 DEF Fresh, Older
  <2> QED
    BY <2>1, <2>4 DEF Current
<1>3. CASE HandleRadioEvent
  <2>1. CASE Confirms(inbox)
    <3>1. sinceConfirm' = 0
        BY <1>3, <2>1 DEF HandleRadioEvent
    <3>2. Fresh(0)'
        BY <3>1, MacAssumption DEF Fresh
    <3> QED
        BY <1>0, <3>2, FreshIsCurrentNext
  <2>2. CASE ~Confirms(inbox)
    BY <1>1, <1>3, <2>2 DEF HandleRadioEvent, Confirms, confirmation
  <2> QED
    BY <2>1, <2>2
<1>4. CASE ServiceTx \/ ServiceNative
  <2>1. slept' = slept /\ sinceConfirm' = sinceConfirm
    BY <1>4 DEF ServiceTx, ServiceNative
  <2>2. CASE link' = link
    BY <1>1, <2>1, <2>2 DEF confirmation
  <2>3. CASE link' = Report
    <3>1. Fresh(0)'
        BY <1>0, <2>1, <2>3, ReportIsFresh
    <3> QED
        BY <1>0, <3>1, FreshIsCurrentNext
  <2> QED
    BY <1>4, <2>2, <2>3 DEF ServiceTx, ServiceNative, Expire
<1>5. CASE ServiceIdle
  <2>1. Housekeep /\ sinceConfirm' = sinceConfirm
    BY <1>5 DEF ServiceIdle, ExecuteCommand, TakeFrame, StartHeartbeat, PutOffHeartbeat,
        Rearm, Rest
  <2>2. slept' = FALSE
    BY <2>1 DEF Housekeep
  <2>3. CASE slept = TRUE
    BY <1>0, <2>1, <2>2, <2>3, ReportIsFresh DEF Housekeep, Current
  <2>4. CASE slept = FALSE
    BY <2>1, <2>2, <2>4 DEF Housekeep, Current, Fresh
  <2> QED
    BY <1>0, <2>3, <2>4
<1>6. CASE PollStats
  <2>1. slept' = slept /\ sinceConfirm' = sinceConfirm
    BY <1>6 DEF PollStats
  <2>2. CASE sinceConfirm = 0
    <3>1. Fresh(0)'
        BY <2>1, <2>2, MacAssumption DEF Fresh
    <3> QED
        BY <1>0, <3>1, FreshIsCurrentNext
  <2>3. CASE sinceConfirm # 0
    <3>1. Fresh(0)'
        BY <1>0, <1>6, <2>1, <2>3, ReportIsFresh DEF PollStats
    <3> QED
        BY <1>0, <3>1, FreshIsCurrentNext
  <2> QED
    BY <2>2, <2>3
<1>7. CASE (Environment /\ ~PollStats) \/ Dio1Isr \/ Wake \/ Key \/ Air \/ Release
    BY <1>1, <1>7
    DEF Environment, Arrive, Lockout, QueueFrame, Request, Dio1Isr, Wake, Key, Air, Release
<1> QED
    BY <1>1, <1>2, <1>3, <1>4, <1>5, <1>6, <1>7 DEF Next, MacStep, vars

\* The published link state is never more than one tick from what the last
\* confirmation makes it.
THEOREM LinkIsCurrent == Spec => []LinkFollows
<1>1. TypeInv /\ Current => LinkFollows
  <2> SUFFICES ASSUME ClockTyped, Current PROVE LinkFollows
    BY DEF TypeInv, TypeOK
  <2>1. Fresh(1)
    BY FreshIsCurrent DEF Current
  <2> QED
    BY <2>1 DEF Fresh, LinkFollows
<1>2. TypeInv /\ Current /\ [Next]_vars => TypeInv' /\ Current'
    BY StepType, StepCurrent
<1> QED
    BY <1>1, <1>2, InitType, InitCurrent, PTL DEF Spec

=============================================================================
