---------------------- MODULE ReticulumInterfaceProofs ----------------------
(***************************************************************************)
(* Theorems about ReticulumInterface for any number of writing threads,    *)
(* length of a frame and number of faults.                                 *)
(***************************************************************************)
EXTENDS ReticulumInterface, TLAPS, FiniteSetTheorems

----------------------------------------------------------------------------
\* tx_lock is held by the writer that writes, or by the reader while it
\* replaces the port; and a writer stops at its last chunk.

Held == /\ \A w \in Writers : pc[w] = "write" <=> lock = w
        /\ reader \in {"opening", "opened"} <=> lock = "reader"
Unfinished == \A w \in Writers : pc[w] = "write" => part[w] < Chunks

Inv == TypeOK /\ Held /\ Unfinished /\ FramesWhole

LEMMA InitInv == Init => Inv
<1> SUFFICES ASSUME Init PROVE Inv
    OBVIOUS
<1>1. PortTyped
    BY DEF Init, PortTyped
<1>2. LockTyped
    BY DEF Init, LockTyped
<1>3. WritersTyped
    BY InterfaceAssumption DEF Init, WritersTyped
<1>4. HistoryTyped
    BY InterfaceAssumption DEF Init, HistoryTyped, Nothing
<1>5. \A w \in Writers : pc[w] # "write" /\ lock # w
    BY InterfaceAssumption DEF Init
<1>6. lock # "reader" /\ reader \notin {"opening", "opened"}
    BY DEF Init
<1> QED
    BY <1>1, <1>2, <1>3, <1>4, <1>5, <1>6 DEF Inv, TypeOK, Held, Unfinished, FramesWhole

LEMMA StepPort == ASSUME Inv, Next PROVE PortTyped'
<1> USE DEF writer, shared, history, PortTyped
<1>1. PortTyped
    BY DEF Inv, TypeOK
<1>2. CASE Unplug \/ Plug
    BY <1>1, <1>2 DEF Unplug, Plug
<1>5. CASE Detach
    BY <1>1, <1>5 DEF Detach, IsOpen
<1>3. CASE ReadLoop
    BY <1>1, <1>3 DEF ReadLoop, Loop, Check, CloseOld, Opened, SetOnline, OpenFails, Read,
        ReadFailed
<1>4. ASSUME NEW w \in Writers, ProcessOutgoing(w) PROVE PortTyped'
    BY <1>1, <1>4 DEF ProcessOutgoing, Call, Lock, Finish, WriteChunk, WriteFails,
        WriteTimesOut, TakePort, CloseStalled, GoOffline
<1> QED
    BY <1>2, <1>3, <1>4, <1>5 DEF Next

LEMMA StepLock == ASSUME Inv, Next PROVE LockTyped'
<1> USE DEF writer, shared, history, LockTyped
<1>1. LockTyped
    BY DEF Inv, TypeOK
<1>2. CASE Unplug \/ Plug \/ Detach
    <2>1. UNCHANGED <<lock, reader>>
        BY <1>2 DEF Unplug, Plug, Detach
    <2>2. UNCHANGED detaching \/ (detaching < 3 /\ detaching' = detaching + 1)
        BY <1>2, Zenon DEF Unplug, Plug, Detach
    <2>3. detaching' \in 0 .. 3
        BY <1>1, <2>2
    <2> QED
        BY <1>1, <2>1, <2>3
<1>3. CASE ReadLoop
    BY <1>1, <1>3 DEF ReadLoop, Loop, Check, CloseOld, Opened, SetOnline, OpenFails, Read,
        ReadFailed
<1>4. ASSUME NEW w \in Writers, ProcessOutgoing(w) PROVE LockTyped'
    BY <1>1, <1>4 DEF ProcessOutgoing, Call, Lock, Finish, Leave, WriteChunk, WriteFails,
        WriteTimesOut, TakePort, CloseStalled, GoOffline
<1> QED
    BY <1>2, <1>3, <1>4 DEF Next

LEMMA StepWriters == ASSUME Inv, Next PROVE WritersTyped'
<1> USE DEF writer, shared, history, WritersTyped
<1>1. WritersTyped /\ Unfinished
    BY DEF Inv, TypeOK
<1>2. CASE Unplug \/ Plug \/ Detach \/ ReadLoop
    BY <1>1, <1>2 DEF Unplug, Plug, Detach, ReadLoop, Loop, Check, CloseOld, Opened, SetOnline,
        OpenFails, Read, ReadFailed
<1>3. ASSUME NEW w \in Writers, WriteChunk(w) PROVE WritersTyped'
    <2>1. part[w] + 1 \in 0 .. Chunks
        BY <1>1, <1>3, InterfaceAssumption DEF WriteChunk, Unfinished
    <2> QED
        BY <1>1, <1>3, <2>1 DEF WriteChunk, Leave
<1>4. ASSUME NEW w \in Writers, Lock(w) PROVE WritersTyped'
    <2>1. part' \in [Writers -> 0 .. Chunks]
        BY <1>1, <1>4, InterfaceAssumption DEF Lock
    <2>2. pc' \in [Writers -> {"idle", "wait", "write", "timedOut", "closing", "offline"}]
        BY <1>1, <1>4 DEF Lock
    <2>3. grip' \in [Writers -> BOOLEAN]
        BY <1>1, <1>4 DEF Lock
    <2> QED
        BY <2>1, <2>2, <2>3
<1>5. ASSUME NEW w \in Writers, ProcessOutgoing(w), ~WriteChunk(w), ~Lock(w) PROVE WritersTyped'
    BY <1>1, <1>5 DEF ProcessOutgoing, Call, Finish, Leave, WriteFails, WriteTimesOut, TakePort,
        CloseStalled, GoOffline
<1> QED
    BY <1>2, <1>3, <1>4, <1>5 DEF Next

LEMMA StepHistory == ASSUME Inv, Next, WritersTyped' PROVE HistoryTyped'
<1> USE DEF writer, shared, history, HistoryTyped
<1>1. HistoryTyped
    BY DEF Inv, TypeOK
<1>2. CASE Unplug \/ Opened
    BY <1>1, <1>2, InterfaceAssumption DEF Unplug, Opened
<1>5. CASE Plug \/ Detach \/ (ReadLoop /\ ~Opened)
    <2>1. UNCHANGED <<line, opens, faults>>
        BY <1>5 DEF Plug, Detach, ReadLoop, Loop, Check, CloseOld, SetOnline, OpenFails, Read,
            ReadFailed
    <2> QED
        BY <1>1, <2>1
<1>3. ASSUME NEW w \in Writers, WriteChunk(w) PROVE HistoryTyped'
    BY <1>1, <1>3 DEF WriteChunk, WritersTyped
<1>4. ASSUME NEW w \in Writers, ProcessOutgoing(w), ~WriteChunk(w) PROVE HistoryTyped'
    BY <1>1, <1>4, InterfaceAssumption DEF ProcessOutgoing, Call, Lock, Finish, WriteFails,
        WriteTimesOut, TakePort, CloseStalled, GoOffline
<1> QED
    BY <1>2, <1>3, <1>4, <1>5 DEF Next

LEMMA StepType == Inv /\ [Next]_vars => TypeOK'
<1>1. CASE Next
    BY <1>1, StepPort, StepLock, StepWriters, StepHistory DEF TypeOK
<1>2. CASE UNCHANGED vars
    BY <1>2 DEF vars, shared, writer, history, Inv, TypeOK, PortTyped, LockTyped, WritersTyped,
        HistoryTyped
<1> QED
    BY <1>1, <1>2

\* A step of the reader, the modem or detach leaves the writers alone, and
\* their hold on the port while one of them writes.
LEMMA AsideKeeps ==
    ASSUME Inv, TypeOK', UNCHANGED <<pc, part, line>>,
           reader' \in {"opening", "opened"} <=> lock' = "reader",
           \A w \in Writers : lock' = w <=> lock = w,
           \A w \in Writers : lock = w => grip'[w] = grip[w]
    PROVE  Inv'
    BY DEF Inv, Held, Unfinished, FramesWhole

LEMMA ReadLoopKeeps == ASSUME Inv, TypeOK', ReadLoop PROVE Inv'
<1> USE DEF writer, shared, history
<1>1. Held
    BY DEF Inv
<1>2. CASE Loop \/ Check \/ Read \/ ReadFailed
    <2>1. UNCHANGED <<pc, part, line, lock, grip>>
        BY <1>2 DEF Loop, Check, Read, ReadFailed
    <2>2. {reader, reader'} \cap {"opening", "opened"} = {}
        BY <1>2 DEF Loop, Check, Read, ReadFailed
    <2> QED
        BY <1>1, <2>1, <2>2, AsideKeeps DEF Held
<1>3. CASE CloseOld
    <2>1. \A w \in Writers : lock # w /\ lock' # w
        BY <1>3, InterfaceAssumption DEF CloseOld
    <2> QED
        BY <1>3, <2>1, AsideKeeps DEF CloseOld
<1>4. CASE Opened
    BY <1>1, <1>4, AsideKeeps DEF Opened, Held
<1>5. CASE SetOnline \/ OpenFails
    <2>1. /\ lock = "reader" /\ lock' = "none" /\ reader' = "loop"
          /\ UNCHANGED <<pc, part, line, grip>>
        BY <1>1, <1>5 DEF SetOnline, OpenFails, Held
    <2>2. \A w \in Writers : lock # w /\ lock' # w
        BY <2>1, InterfaceAssumption
    <2> QED
        BY <2>1, <2>2, AsideKeeps
<1> QED
    BY <1>2, <1>3, <1>4, <1>5 DEF ReadLoop

LEMMA WriterKeeps == ASSUME Inv, TypeOK', NEW w \in Writers, ProcessOutgoing(w) PROVE Inv'
<1> USE DEF writer, shared, history
<1>1. WritersTyped /\ WritersTyped' /\ Held /\ Unfinished /\ FramesWhole
    BY DEF Inv, TypeOK
<1>2. CASE Call(w) \/ TakePort(w) \/ CloseStalled(w) \/ GoOffline(w)
    <2>1. UNCHANGED <<lock, reader, part, line>>
        BY <1>2 DEF Call, TakePort, CloseStalled, GoOffline
    <2>2. pc[w] # "write" /\ pc'[w] # "write"
        BY <1>1, <1>2 DEF Call, TakePort, CloseStalled, GoOffline, WritersTyped
    <2>3. \A v \in Writers \ {w} : pc'[v] = pc[v] /\ grip'[v] = grip[v]
        BY <1>1, <1>2 DEF Call, TakePort, CloseStalled, GoOffline, WritersTyped
    <2> QED
        BY <1>1, <2>1, <2>2, <2>3 DEF Inv, Held, Unfinished, FramesWhole
<1>3. CASE Lock(w)
    <2>1. \A v \in Writers \ {w} : pc'[v] = pc[v] /\ pc[v] # "write"
        BY <1>1, <1>3, InterfaceAssumption DEF Lock, WritersTyped, Held
    <2>2. IF pc'[w] = "write"
          THEN lock' = w /\ grip'[w] = TRUE /\ part'[w] = 0
          ELSE lock' = "none"
        BY <1>1, <1>3 DEF Lock, WritersTyped
    <2>3. lock = "none" /\ reader' = reader
        BY <1>3 DEF Lock
    <2> QED
        BY <1>1, <2>1, <2>2, <2>3, InterfaceAssumption DEF Inv, Held, Unfinished, FramesWhole
<1>4. CASE WriteChunk(w) \/ WriteFails(w) \/ WriteTimesOut(w)
    <2>1. lock = w /\ reader' = reader /\ grip' = grip
        BY <1>1, <1>4 DEF WriteChunk, WriteFails, WriteTimesOut, Held
    <2>2. \A v \in Writers \ {w} : pc'[v] = pc[v] /\ pc[v] # "write"
        BY <1>1, <1>4, <2>1 DEF WriteChunk, WriteFails, WriteTimesOut, Leave, WritersTyped, Held
    <2>3. CASE pc'[w] = "write"
        <3>1. WriteChunk(w) /\ UNCHANGED <<lock, pc>> /\ part'[w] # Chunks
            BY <1>1, <1>4, <2>3 DEF WriteChunk, WriteFails, WriteTimesOut, Leave, WritersTyped
        <3>2. part'[w] < Chunks
            BY <1>1, <3>1, InterfaceAssumption DEF WritersTyped
        <3> QED
            BY <1>1, <2>1, <2>2, <2>3, <3>1, <3>2
            DEF Inv, Held, Unfinished, FramesWhole, WriteChunk
    <2>4. CASE pc'[w] # "write"
        <3>1. lock' = "none"
            BY <1>1, <1>4, <2>4 DEF WriteChunk, WriteFails, WriteTimesOut, Leave, WritersTyped
        <3>2. reader \notin {"opening", "opened"}
            BY <1>1, <2>1, InterfaceAssumption DEF Held
        <3> QED
            BY <2>1, <2>2, <2>4, <3>1, <3>2, InterfaceAssumption
            DEF Inv, Held, Unfinished, FramesWhole
    <2> QED
        BY <2>3, <2>4
<1> QED
    BY <1>2, <1>3, <1>4 DEF ProcessOutgoing, Finish

LEMMA StepInv == Inv /\ [Next]_vars => Inv'
<1> SUFFICES ASSUME Inv, [Next]_vars PROVE Inv'
    OBVIOUS
<1> USE DEF writer, shared, history
<1>1. TypeOK'
    BY StepType
<1>2. CASE Unplug \/ Plug \/ Detach \/ UNCHANGED vars
    <2>1. UNCHANGED <<pc, part, line, lock, grip, reader>>
        BY <1>2 DEF Unplug, Plug, Detach, vars
    <2> QED
        BY <1>1, <2>1, AsideKeeps DEF Inv, Held
<1> QED
    BY <1>1, <1>2, ReadLoopKeeps, WriterKeeps DEF Next

\* Every reachable state of the interface is typed.
THEOREM TypeCorrect == Spec => []TypeOK
<1>1. Inv => TypeOK
    BY DEF Inv
<1> QED
    BY <1>1, InitInv, StepInv, PTL DEF Spec

\* A writer's frame is on the line chunk by chunk and on one port, whatever
\* the other writers, the reader, the modem and detach do meanwhile.
THEOREM FramesAreWhole == Spec => []FramesWhole
<1>1. Inv => FramesWhole
    BY DEF Inv
<1> QED
    BY <1>1, InitInv, StepInv, PTL DEF Spec

----------------------------------------------------------------------------
\* How often the port is opened.  What is under way is worth a number of
\* openings still to come: the reader's own way to the next one, a writer that
\* will set online to FALSE, a writer that will close a port and with it the
\* frame another writer is in, and the writers that will find the port dead.
\* Each fault adds to the debt, each opening pays one off, nothing else adds.

Count(S) == Cardinality(S)

MustOpen ==
    \/ reader \in {"open", "opening", "failed"}
    \/ reader = "opened" /\ port # "open"
    \/ reader \in {"loop", "check", "read"} /\ ~(online /\ port = "open")

Condemning == {w \in Writers : pc[w] \in {"timedOut", "closing", "offline"}}
Closing == {w \in Writers : pc[w] \in {"timedOut", "closing"}}
Cutting == IF Count(Writers) = 1 THEN {} ELSE Closing
Failing(w) ==
    \/ pc[w] = "write" /\ port # "open"
    \/ /\ port = "dead"
       /\ reader = "opened" \/ pc[w] = "wait" \/ (pc[w] = "idle" /\ online)
Doomed == {w \in Writers : Failing(w)}

OfWriters == Count(Condemning) + Count(Closing) + Count(Cutting) + Count(Doomed)
LastPass == reader \in {"check", "open", "opening"}
OfReader == IF MustOpen THEN 1 ELSE 0
Owed == IF running THEN OfReader + OfWriters ELSE IF LastPass THEN 1 ELSE 0

Price == Count(Writers) + 1
Allowed == 1 + faults * Price + (IF running THEN 0 ELSE 1)
Budget == opens + Owed <= Allowed

LEMMA Counts == ASSUME NEW S, S \subseteq Writers
                PROVE  Count(S) \in Nat /\ Count(S) <= Count(Writers)
    BY InterfaceAssumption, FS_Subset, FS_CardinalityType DEF Count

LEMMA CountFewer == ASSUME NEW S, NEW T, S \subseteq T, T \subseteq Writers
                    PROVE  Count(S) <= Count(T)
<1>1. IsFiniteSet(T)
    BY InterfaceAssumption, FS_Subset
<1> QED
    BY <1>1, FS_Subset DEF Count

LEMMA CountLess == ASSUME NEW S, NEW T, NEW w \in T, S \subseteq T \ {w}, T \subseteq Writers
                   PROVE  Count(S) + 1 <= Count(T)
<1>1. IsFiniteSet(T) /\ Count(T) \in Nat
    BY InterfaceAssumption, FS_Subset, Counts
<1>2. Count(T \ {w}) = Count(T) - 1
    BY <1>1, FS_RemoveElement DEF Count
<1>3. Count(S) <= Count(T \ {w}) /\ Count(S) \in Nat
    BY CountFewer, Counts
<1> QED
    BY <1>1, <1>2, <1>3

LEMMA CountMore == ASSUME NEW S, NEW T, NEW w \in Writers, S \subseteq T \cup {w}, T \subseteq Writers
                   PROVE  Count(S) <= Count(T) + 1
<1>1. IsFiniteSet(T) /\ Count(T) \in Nat
    BY InterfaceAssumption, FS_Subset, Counts
<1>2. Count(T \cup {w}) \in {Count(T), Count(T) + 1}
    BY <1>1, FS_AddElement DEF Count
<1>3. Count(S) <= Count(T \cup {w}) /\ Count(S) \in Nat
    BY CountFewer, Counts
<1> QED
    BY <1>1, <1>2, <1>3

Sized ==
    /\ Count(Condemning) \in Nat /\ Count(Closing) \in Nat /\ Count(Cutting) \in Nat
    /\ Count(Doomed) \in Nat /\ Count(Writers) \in Nat /\ Price \in Nat
    /\ OfWriters \in Nat /\ Owed \in Nat

LEMMA Sizes == Sized
<1>1. /\ Count(Condemning) \in Nat /\ Count(Closing) \in Nat /\ Count(Cutting) \in Nat
      /\ Count(Doomed) \in Nat /\ Count(Writers) \in Nat
    BY Counts, FS_EmptySet DEF Condemning, Closing, Cutting, Doomed, Count
<1>2. OfWriters \in Nat /\ Price \in Nat
    BY <1>1 DEF OfWriters, Price
<1>3. Owed \in Nat
    BY <1>2 DEF Owed, OfReader
<1> QED
    BY <1>1, <1>2, <1>3 DEF Sized

LEMMA SizesPrimed == Sized'
    BY Sizes, PTL

\* What a step does to the debt of the writers, by what it does to the sets.
LEMMA CuttingFollows ==
    ASSUME Closing' \subseteq Closing
    PROVE  Cutting' \subseteq Cutting
    BY DEF Cutting

LEMMA NoNewDebt ==
    ASSUME Condemning' \subseteq Condemning, Closing' \subseteq Closing, Doomed' \subseteq Doomed
    PROVE  OfWriters' <= OfWriters
<1>1. Count(Condemning') <= Count(Condemning)
    BY CountFewer DEF Condemning
<1>2. Count(Closing') <= Count(Closing)
    BY CountFewer DEF Closing
<1>3. Count(Cutting') <= Count(Cutting)
    BY CuttingFollows, CountFewer DEF Cutting, Closing
<1>4. Count(Doomed') <= Count(Doomed)
    BY CountFewer DEF Doomed
<1> QED
    BY <1>1, <1>2, <1>3, <1>4, Sizes, SizesPrimed DEF OfWriters, Sized

LEMMA Accounts ==
    ASSUME NEW o \in Nat, NEW d \in Nat, NEW f \in Nat, NEW p \in Nat,
           NEW o2 \in Nat, NEW d2 \in Nat, NEW f2 \in Nat,
           o + d <= 1 + f * p,
           \/ f2 = f /\ o2 + d2 <= o + d
           \/ f2 = f + 1 /\ o2 + d2 <= o + d + p
    PROVE  o2 + d2 <= 1 + f2 * p
<1>1. (f + 1) * p = f * p + p /\ f * p \in Nat
    OBVIOUS
<1> QED
    BY <1>1

\* A budget that was kept is kept while the thread runs, if a fault accounts
\* for what the step adds.
LEMMA BudgetFollows ==
    ASSUME Budget, TypeOK, running = TRUE, running' = TRUE,
           NEW o2 \in Nat, NEW f2 \in Nat, NEW d2 \in Nat,
           opens' = o2, faults' = f2, Owed' = d2,
           \/ f2 = faults /\ o2 + d2 <= opens + Owed
           \/ f2 = faults + 1 /\ o2 + d2 <= opens + Owed + Price
    PROVE  Budget'
<1> DEFINE d == Owed
           p == Price
           q == f2 * p
<1>1. opens \in Nat /\ faults \in Nat
    BY InterfaceAssumption DEF TypeOK, HistoryTyped
<1>2. d \in Nat /\ p \in Nat
    BY Sizes DEF Sized
<1>3. opens + d <= 1 + faults * p + 0
    BY DEF Budget, Allowed
<1>4. Price' = p
    BY DEF Price
<1> SUFFICES o2 + d2 <= 1 + q + 0
    BY <1>4 DEF Budget, Allowed
<1> HIDE DEF d, p
<1>5. opens + d <= 1 + faults * p
    BY <1>1, <1>2, <1>3
<1>6. o2 + d2 <= 1 + q /\ q \in Nat
    BY <1>1, <1>2, <1>5, Accounts DEF d, p
<1> HIDE DEF q
<1> QED
    BY <1>6

LEMMA QuietKeeps ==
    ASSUME Budget, TypeOK, running = TRUE, running' = TRUE, UNCHANGED <<opens, faults>>,
           Condemning' \subseteq Condemning, Closing' \subseteq Closing, Doomed' \subseteq Doomed,
           MustOpen' => MustOpen
    PROVE  Budget'
<1>1. OfReader \in Nat /\ OfReader' \in Nat
    BY DEF OfReader
<1>2. OfWriters \in Nat /\ OfWriters' \in Nat
    BY Sizes, SizesPrimed DEF Sized
<1>3. opens \in Nat /\ faults \in Nat
    BY InterfaceAssumption DEF TypeOK, HistoryTyped
<1>4. PICK r \in Nat, w \in Nat, r2 \in Nat, w2 \in Nat :
         r = OfReader /\ w = OfWriters /\ r2 = OfReader' /\ w2 = OfWriters'
    BY <1>1, <1>2
<1>5. r2 <= r
    BY <1>4 DEF OfReader
<1>6. w2 <= w
    BY <1>4, NoNewDebt
<1>7. r2 + w2 \in Nat /\ r + w \in Nat /\ r2 + w2 <= r + w
    BY <1>5, <1>6
<1>8. Owed = r + w /\ Owed' = r2 + w2
    BY <1>4 DEF Owed
<1>9. opens + (r2 + w2) <= opens + (r + w)
    BY <1>3, <1>7
<1> QED
    BY <1>3, <1>7, <1>8, <1>9, BudgetFollows

\* The reader opens the port: one opening fewer to come.
LEMMA OpenedKeeps == ASSUME Inv, Budget, Opened, running = TRUE PROVE Budget'
<1>1. TypeOK /\ opens \in Nat /\ faults \in Nat
    BY InterfaceAssumption DEF Inv, TypeOK, HistoryTyped
<1>2. UNCHANGED <<running, pc, faults>> /\ opens' = opens + 1
    BY <1>1 DEF Opened, writer
<1>3. OfReader = 1 /\ OfReader' = 0
    BY DEF Opened, OfReader, MustOpen
<1>4. Condemning' \subseteq Condemning /\ Closing' \subseteq Closing /\ Doomed' \subseteq Doomed
    BY <1>2 DEF Opened, Condemning, Closing, Doomed, Failing
<1>5. OfWriters' <= OfWriters
    BY <1>4, NoNewDebt
<1>6. PICK w \in Nat, w2 \in Nat : w = OfWriters /\ w2 = OfWriters'
    BY Sizes, SizesPrimed DEF Sized
<1>7. w2 <= w
    BY <1>5, <1>6
<1>8. Owed = 1 + w /\ Owed' = 0 + w2
    BY <1>2, <1>3, <1>6 DEF Owed
<1>9. (opens + 1) + (0 + w2) <= opens + (1 + w) /\ 0 + w2 \in Nat /\ opens + 1 \in Nat
    BY <1>1, <1>7
<1> QED
    BY <1>1, <1>2, <1>8, <1>9, BudgetFollows

\* The modem goes: the reader and every writer may run into the dead port.
LEMMA UnplugKeeps == ASSUME Inv, Budget, Unplug, running = TRUE PROVE Budget'
<1>1. TypeOK /\ opens \in Nat /\ faults \in Nat
    BY InterfaceAssumption DEF Inv, TypeOK, HistoryTyped
<1>2. UNCHANGED <<running, pc, opens>> /\ faults' = faults + 1
    BY <1>1 DEF Unplug, writer
<1>3. OfReader \in Nat /\ OfReader' \in Nat /\ OfReader' <= 1
    BY DEF OfReader
<1>4. Condemning' = Condemning /\ Closing' = Closing /\ Cutting' = Cutting
    BY <1>2 DEF Condemning, Closing, Cutting
<1>5. Count(Doomed') <= Count(Writers)
    BY Counts DEF Doomed
<1>6. PICK n \in Nat, c \in Nat, k \in Nat, x \in Nat, d \in Nat, d2 \in Nat :
         /\ n = Count(Writers) /\ c = Count(Condemning) /\ k = Count(Closing)
         /\ x = Count(Cutting) /\ d = Count(Doomed) /\ d2 = Count(Doomed')
    BY Sizes, SizesPrimed DEF Sized
<1>7. PICK r \in Nat, r2 \in Nat : r = OfReader /\ r2 = OfReader'
    BY <1>3
<1>8. r2 <= 1 /\ d2 <= n
    BY <1>3, <1>5, <1>6, <1>7
<1>9. /\ Owed = r + (c + k + x + d) /\ Price = n + 1
      /\ Owed' = r2 + (c + k + x + d2)
    BY <1>2, <1>4, <1>6, <1>7 DEF Owed, OfWriters, Price
<1>10. /\ opens + (r2 + (c + k + x + d2)) <= opens + (r + (c + k + x + d)) + (n + 1)
       /\ r2 + (c + k + x + d2) \in Nat /\ faults + 1 \in Nat
    BY <1>1, <1>8
<1> QED
    BY <1>1, <1>2, <1>9, <1>10, BudgetFollows

\* The other steps of the reader, and of the modem.
LEMMA ReaderKeeps ==
    ASSUME Inv, Budget, running = TRUE,
           Plug \/ Loop \/ Check \/ CloseOld \/ SetOnline \/ OpenFails \/ Read \/ ReadFailed
    PROVE  Budget'
<1> USE DEF shared, writer, history
<1>1. TypeOK /\ port \in {"none", "open", "dead", "closed"}
    BY DEF Inv, TypeOK, PortTyped
<1>2. UNCHANGED <<running, pc, opens, faults>>
    BY DEF Plug, Loop, Check, CloseOld, SetOnline, OpenFails, Read, ReadFailed
<1>3. Condemning' \subseteq Condemning /\ Closing' \subseteq Closing
    BY <1>2 DEF Condemning, Closing
<1>4. /\ Doomed' \subseteq Doomed
      /\ MustOpen' => MustOpen
  <2> USE DEF Doomed, Failing, MustOpen
  <2>1. CASE Plug \/ Loop
      BY <1>2, <2>1 DEF Plug, Loop
  <2>2. CASE Check
      BY <1>1, <1>2, <2>2 DEF Check, IsOpen
  <2>3. CASE CloseOld
    <3>1. \A w \in Writers : pc[w] # "write"
        BY <2>3, InterfaceAssumption DEF CloseOld, Inv, Held
    <3> QED
        BY <1>2, <2>3, <3>1 DEF CloseOld
  <2>4. CASE SetOnline \/ OpenFails
      BY <1>2, <2>4 DEF SetOnline, OpenFails
  <2>5. CASE Read
      BY <1>2, <2>5 DEF Read
  <2>6. CASE ReadFailed
    <3>1. reader = "failed" /\ reader' = "loop" /\ port' = port /\ pc' = pc
        BY <2>6 DEF ReadFailed
    <3>2. online' => online
        BY <2>6 DEF ReadFailed
    <3> QED
        BY <3>1, <3>2
  <2> QED
      BY <2>1, <2>2, <2>3, <2>4, <2>5, <2>6
<1> QED
    BY <1>1, <1>2, <1>3, <1>4, QuietKeeps

\* A writer that calls, takes the lock, writes or looks up the port.
LEMMA WritingKeeps ==
    ASSUME Inv, Budget, running = TRUE, NEW w \in Writers,
           Call(w) \/ Lock(w) \/ WriteChunk(w) \/ TakePort(w)
    PROVE  Budget'
<1> USE DEF shared, writer, history
<1>1. TypeOK /\ pc \in [Writers -> {"idle", "wait", "write", "timedOut", "closing", "offline"}]
    BY DEF Inv, TypeOK, WritersTyped
<1>2. UNCHANGED <<running, port, online, reader, opens, faults>>
    BY DEF Call, Lock, WriteChunk, TakePort
<1>3. \A v \in Writers \ {w} : pc'[v] = pc[v]
    BY <1>1 DEF Call, Lock, WriteChunk, Leave, TakePort
<1>4. /\ pc'[w] \in {"timedOut", "closing"} <=> pc[w] \in {"timedOut", "closing"}
      /\ pc'[w] = "offline" <=> pc[w] = "offline"
    BY <1>1 DEF Call, Lock, WriteChunk, Leave, TakePort
<1>5. Condemning' \subseteq Condemning /\ Closing' \subseteq Closing
    BY <1>3, <1>4 DEF Condemning, Closing
<1>6. Failing(w)' => Failing(w)
    BY <1>1, <1>2 DEF Failing, Call, Lock, IsOpen, WriteChunk, Leave, TakePort
<1>7. Doomed' \subseteq Doomed
    BY <1>2, <1>3, <1>6 DEF Doomed, Failing
<1>8. MustOpen' => MustOpen
    BY <1>2 DEF MustOpen
<1> QED
    BY <1>1, <1>2, <1>5, <1>7, <1>8, QuietKeeps

\* A writer that finds the port dead or closed will set online to FALSE.
LEMMA WriteFailsKeeps ==
    ASSUME Inv, Budget, running = TRUE, NEW w \in Writers, WriteFails(w)
    PROVE  Budget'
<1> USE DEF shared, writer, history
<1>1. /\ TypeOK /\ opens \in Nat /\ faults \in Nat
      /\ pc \in [Writers -> {"idle", "wait", "write", "timedOut", "closing", "offline"}]
    BY InterfaceAssumption DEF Inv, TypeOK, HistoryTyped, WritersTyped
<1>2. UNCHANGED <<running, port, online, reader, opens, faults>>
    BY DEF WriteFails
<1>3. /\ \A v \in Writers \ {w} : pc'[v] = pc[v]
      /\ pc[w] = "write" /\ pc'[w] = "offline" /\ port # "open"
    BY <1>1 DEF WriteFails, Leave
<1>4. reader # "opened"
    BY <1>3, InterfaceAssumption DEF Inv, Held
<1>5. Condemning' \subseteq Condemning \cup {w} /\ Closing' = Closing
    BY <1>3 DEF Condemning, Closing
<1>6. w \in Doomed /\ Doomed' \subseteq Doomed \ {w}
    BY <1>2, <1>3, <1>4 DEF Doomed, Failing
<1>7. Count(Condemning') <= Count(Condemning) + 1
    BY <1>5, CountMore DEF Condemning
<1>8. Count(Doomed') + 1 <= Count(Doomed)
    BY <1>6, CountLess DEF Doomed
<1>9. Cutting' = Cutting /\ OfReader' = OfReader /\ OfReader \in Nat
    BY <1>2, <1>5 DEF Cutting, OfReader, MustOpen
<1>10. PICK r \in Nat, c \in Nat, c2 \in Nat, k \in Nat, x \in Nat, d \in Nat, d2 \in Nat :
          /\ r = OfReader /\ c = Count(Condemning) /\ c2 = Count(Condemning')
          /\ k = Count(Closing) /\ x = Count(Cutting)
          /\ d = Count(Doomed) /\ d2 = Count(Doomed')
    BY <1>9, Sizes, SizesPrimed DEF Sized
<1>11. c2 <= c + 1 /\ d2 + 1 <= d
    BY <1>7, <1>8, <1>10
<1>12. Owed = r + (c + k + x + d) /\ Owed' = r + (c2 + k + x + d2)
    BY <1>2, <1>5, <1>9, <1>10 DEF Owed, OfWriters
<1>13. /\ opens + (r + (c2 + k + x + d2)) <= opens + (r + (c + k + x + d))
       /\ r + (c2 + k + x + d2) \in Nat
    BY <1>1, <1>11
<1> QED
    BY <1>1, <1>2, <1>12, <1>13, BudgetFollows

\* There is a second writer only if more than one is counted.
LEMMA Alone == ASSUME NEW w \in Writers, Count(Writers) = 1 PROVE Writers = {w}
    BY InterfaceAssumption, FS_Singleton DEF Count

LEMMA SomeWriter == ASSUME NEW w \in Writers PROVE Count(Writers) >= 1
<1>1. Count({w}) <= Count(Writers)
    BY CountFewer
<1> QED
    BY <1>1, FS_Singleton, Sizes DEF Count, Sized

\* A timeout is a fault, and pays for what its writer still does.
LEMMA WriteTimesOutKeeps ==
    ASSUME Inv, Budget, running = TRUE, NEW w \in Writers, WriteTimesOut(w)
    PROVE  Budget'
<1> USE DEF shared, writer, history
<1>1. /\ TypeOK /\ opens \in Nat /\ faults \in Nat
      /\ pc \in [Writers -> {"idle", "wait", "write", "timedOut", "closing", "offline"}]
    BY InterfaceAssumption DEF Inv, TypeOK, HistoryTyped, WritersTyped
<1>2. UNCHANGED <<running, port, online, reader, opens>> /\ faults' = faults + 1
    BY DEF WriteTimesOut
<1>3. /\ \A v \in Writers \ {w} : pc'[v] = pc[v]
      /\ pc'[w] = "timedOut" /\ port = "open"
    BY <1>1 DEF WriteTimesOut, Leave
<1>4. Condemning' \subseteq Condemning \cup {w} /\ Closing' \subseteq Closing \cup {w}
    BY <1>3 DEF Condemning, Closing
<1>5. Doomed' \subseteq Doomed
    BY <1>2, <1>3 DEF Doomed, Failing
<1>6. /\ Count(Condemning') <= Count(Condemning) + 1
      /\ Count(Closing') <= Count(Closing) + 1
      /\ Count(Doomed') <= Count(Doomed)
    BY <1>4, <1>5, CountMore, CountFewer DEF Condemning, Closing, Doomed
<1>7. IF Count(Writers) = 1 THEN Count(Cutting') = 0
      ELSE Count(Writers) >= 2 /\ Count(Cutting') <= Count(Cutting) + 1
    BY <1>6, SomeWriter, Sizes, FS_EmptySet DEF Cutting, Count, Sized
<1>8. OfReader' = OfReader /\ OfReader \in Nat
    BY <1>2 DEF OfReader, MustOpen
<1>9. PICK n \in Nat, r \in Nat, c \in Nat, c2 \in Nat, k \in Nat, k2 \in Nat,
           x \in Nat, x2 \in Nat, d \in Nat, d2 \in Nat :
          /\ n = Count(Writers) /\ r = OfReader
          /\ c = Count(Condemning) /\ c2 = Count(Condemning')
          /\ k = Count(Closing) /\ k2 = Count(Closing')
          /\ x = Count(Cutting) /\ x2 = Count(Cutting')
          /\ d = Count(Doomed) /\ d2 = Count(Doomed')
    BY <1>8, Sizes, SizesPrimed DEF Sized
<1>10. c2 <= c + 1 /\ k2 <= k + 1 /\ d2 <= d
    BY <1>6, <1>9
<1>11. IF n = 1 THEN x2 = 0 ELSE n >= 2 /\ x2 <= x + 1
    BY <1>7, <1>9
<1>12. Owed = r + (c + k + x + d) /\ Owed' = r + (c2 + k2 + x2 + d2) /\ Price = n + 1
    BY <1>2, <1>8, <1>9 DEF Owed, OfWriters, Price
<1>13. /\ opens + (r + (c2 + k2 + x2 + d2)) <= opens + (r + (c + k + x + d)) + (n + 1)
       /\ r + (c2 + k2 + x2 + d2) \in Nat /\ faults + 1 \in Nat
    BY <1>1, <1>10, <1>11
<1> QED
    BY <1>1, <1>2, <1>12, <1>13, BudgetFollows

\* A late close of an open port: the writer has closed once, the reader will
\* reopen, and the frame another writer is in will fail.
LEMMA CloseOpenKeeps ==
    ASSUME Inv, Budget, running = TRUE, NEW w \in Writers, CloseStalled(w), grip[w], port = "open"
    PROVE  Budget'
<1> USE DEF shared, writer, history
<1>1. /\ TypeOK /\ opens \in Nat /\ faults \in Nat
      /\ pc \in [Writers -> {"idle", "wait", "write", "timedOut", "closing", "offline"}]
    BY InterfaceAssumption DEF Inv, TypeOK, HistoryTyped, WritersTyped
<1>2. UNCHANGED <<running, online, reader, opens, faults, lock>> /\ port' = "closed"
    BY DEF CloseStalled
<1>3. /\ \A v \in Writers \ {w} : pc'[v] = pc[v]
      /\ pc[w] = "closing" /\ pc'[w] = "offline"
    BY <1>1 DEF CloseStalled
<1>4. Condemning' = Condemning /\ Closing' \subseteq Closing \ {w} /\ w \in Closing
    BY <1>3 DEF Condemning, Closing
<1>5. Doomed' \subseteq {lock} \ {w} /\ Doomed' \subseteq Writers
    BY <1>2, <1>3 DEF Doomed, Failing, Inv, Held
<1>6. Count(Closing') + 1 <= Count(Closing)
    BY <1>4, CountLess DEF Closing
<1>7. IF Count(Writers) = 1 THEN Count(Doomed') = 0 ELSE Count(Doomed') <= 1
  <2>1. CASE Count(Writers) = 1
    <3>1. Doomed' = {}
        BY <1>5, <2>1, Alone
    <3> QED
        BY <2>1, <3>1, FS_EmptySet DEF Count
  <2>2. CASE Count(Writers) # 1
    <3>1. IsFiniteSet({lock}) /\ Count({lock}) = 1
        BY FS_Singleton DEF Count
    <3>2. Doomed' \in SUBSET {lock}
        BY <1>5
    <3>3. Count(Doomed') <= Count({lock})
        BY <3>1, <3>2, FS_Subset DEF Count
    <3> QED
        BY <2>2, <3>1, <3>3
  <2> QED
      BY <2>1, <2>2
<1>8. IF Count(Writers) = 1 THEN Cutting = {} /\ Cutting' = {}
      ELSE Cutting = Closing /\ Cutting' = Closing'
    BY DEF Cutting
<1>9. IF Count(Writers) = 1 THEN Count(Cutting') = Count(Cutting)
      ELSE Count(Cutting') + 1 <= Count(Cutting)
    BY <1>6, <1>8
<1>10. OfReader' \in Nat /\ OfReader \in Nat /\ OfReader' <= 1
    BY DEF OfReader
<1>11. PICK r \in Nat, r2 \in Nat, c \in Nat, k \in Nat, k2 \in Nat,
            x \in Nat, x2 \in Nat, d \in Nat, d2 \in Nat :
          /\ r = OfReader /\ r2 = OfReader' /\ c = Count(Condemning)
          /\ k = Count(Closing) /\ k2 = Count(Closing')
          /\ x = Count(Cutting) /\ x2 = Count(Cutting')
          /\ d = Count(Doomed) /\ d2 = Count(Doomed')
    BY <1>10, Sizes, SizesPrimed DEF Sized
<1>12. r2 <= 1 /\ k2 + 1 <= k
    BY <1>6, <1>10, <1>11
<1>13. (x2 = x /\ d2 = 0) \/ (x2 + 1 <= x /\ d2 <= 1)
    BY <1>7, <1>9, <1>11
<1>14. Owed = r + (c + k + x + d) /\ Owed' = r2 + (c + k2 + x2 + d2)
    BY <1>2, <1>4, <1>11 DEF Owed, OfWriters
<1>15. /\ opens + (r2 + (c + k2 + x2 + d2)) <= opens + (r + (c + k + x + d))
       /\ r2 + (c + k2 + x2 + d2) \in Nat
    BY <1>1, <1>12, <1>13
<1> QED
    BY <1>1, <1>2, <1>14, <1>15, BudgetFollows

LEMMA CloseKeeps ==
    ASSUME Inv, Budget, running = TRUE, NEW w \in Writers, CloseStalled(w)
    PROVE  Budget'
<1> USE DEF shared, writer, history
<1>1. CASE grip[w] /\ port = "open"
    BY <1>1, CloseOpenKeeps
<1>2. CASE ~(grip[w] /\ port = "open")
  <2>1. /\ TypeOK
        /\ pc \in [Writers -> {"idle", "wait", "write", "timedOut", "closing", "offline"}]
      BY DEF Inv, TypeOK, WritersTyped
  <2>2. UNCHANGED <<running, online, reader, opens, faults>>
      BY DEF CloseStalled
  <2>3. port' = port \/ (port # "open" /\ port' = "closed")
      BY <1>2 DEF CloseStalled
  <2>4. /\ \A v \in Writers \ {w} : pc'[v] = pc[v]
        /\ pc[w] = "closing" /\ pc'[w] = "offline"
      BY <2>1 DEF CloseStalled
  <2>5. Condemning' \subseteq Condemning /\ Closing' \subseteq Closing
      BY <2>4 DEF Condemning, Closing
  <2>6. Doomed' \subseteq Doomed
      BY <2>2, <2>3, <2>4 DEF Doomed, Failing
  <2>7. MustOpen' => MustOpen
      BY <2>2, <2>3 DEF MustOpen
  <2> QED
      BY <2>1, <2>2, <2>5, <2>6, <2>7, QuietKeeps
<1> QED
    BY <1>1, <1>2

\* A writer that sets online to FALSE has the reader reopen.
LEMMA GoOfflineKeeps ==
    ASSUME Inv, Budget, running = TRUE, NEW w \in Writers, GoOffline(w)
    PROVE  Budget'
<1> USE DEF shared, writer, history
<1>1. /\ TypeOK /\ opens \in Nat /\ faults \in Nat
      /\ pc \in [Writers -> {"idle", "wait", "write", "timedOut", "closing", "offline"}]
    BY InterfaceAssumption DEF Inv, TypeOK, HistoryTyped, WritersTyped
<1>2. UNCHANGED <<running, port, reader, opens, faults>> /\ online' = FALSE
    BY DEF GoOffline
<1>3. /\ \A v \in Writers \ {w} : pc'[v] = pc[v]
      /\ pc[w] = "offline" /\ pc'[w] = "idle"
    BY <1>1 DEF GoOffline
<1>4. w \in Condemning /\ Condemning' \subseteq Condemning \ {w} /\ Closing' = Closing
    BY <1>3 DEF Condemning, Closing
<1>5. Doomed' \subseteq Doomed
    BY <1>2, <1>3 DEF Doomed, Failing
<1>6. Count(Condemning') + 1 <= Count(Condemning) /\ Count(Doomed') <= Count(Doomed)
    BY <1>4, <1>5, CountLess, CountFewer DEF Condemning, Doomed
<1>7. Cutting' = Cutting
    BY <1>4 DEF Cutting
<1>8. OfReader' \in Nat /\ OfReader \in Nat /\ OfReader' <= 1
    BY DEF OfReader
<1>9. PICK r \in Nat, r2 \in Nat, c \in Nat, c2 \in Nat, k \in Nat, x \in Nat,
           d \in Nat, d2 \in Nat :
          /\ r = OfReader /\ r2 = OfReader'
          /\ c = Count(Condemning) /\ c2 = Count(Condemning')
          /\ k = Count(Closing) /\ x = Count(Cutting)
          /\ d = Count(Doomed) /\ d2 = Count(Doomed')
    BY <1>8, Sizes, SizesPrimed DEF Sized
<1>10. r2 <= 1 /\ c2 + 1 <= c /\ d2 <= d
    BY <1>6, <1>8, <1>9
<1>11. Owed = r + (c + k + x + d) /\ Owed' = r2 + (c2 + k + x + d2)
    BY <1>2, <1>4, <1>7, <1>9 DEF Owed, OfWriters
<1>12. /\ opens + (r2 + (c2 + k + x + d2)) <= opens + (r + (c + k + x + d))
       /\ r2 + (c2 + k + x + d2) \in Nat
    BY <1>1, <1>10
<1> QED
    BY <1>1, <1>2, <1>11, <1>12, BudgetFollows

\* Once detached, the reader may make one more pass.
LEMMA EndBudget ==
    ASSUME running' = FALSE, NEW o2 \in Nat, NEW f2 \in Nat, opens' = o2, faults' = f2,
           NEW f \in Nat, f <= f2,
           o2 + (IF LastPass' THEN 1 ELSE 0) <= 2 + f * Price
    PROVE  Budget'
<1> DEFINE e == IF LastPass' THEN 1 ELSE 0
           p == Price
           q == f * p
           q2 == f2 * p
<1>1. p \in Nat /\ e \in Nat /\ Price' = p
    BY Sizes DEF Sized, Price
<1>2. o2 + e <= 2 + q
    OBVIOUS
<1>3. q <= q2 /\ q \in Nat /\ q2 \in Nat
  <2> HIDE DEF p
  <2>1. PICK g \in Nat : f2 = f + g
      <3>1. f2 - f \in Nat /\ f2 = f + (f2 - f)
          OBVIOUS
      <3> QED
          BY <3>1
  <2>2. (f + g) * p = f * p + g * p /\ f * p \in Nat /\ g * p \in Nat
      BY <1>1
  <2> QED
      BY <2>1, <2>2
<1>4. Owed' = e
    BY DEF Owed
<1>5. Allowed' = 1 + q2 + 1
    BY <1>1 DEF Allowed
<1> HIDE DEF e, q, q2
<1>6. o2 + e <= 1 + q2 + 1
    BY <1>1, <1>2, <1>3
<1> QED
    BY <1>4, <1>5, <1>6 DEF Budget

LEMMA DetachKeeps == ASSUME Inv, Budget, running = TRUE, Detach PROVE Budget'
<1>1. opens \in Nat /\ faults \in Nat
    BY InterfaceAssumption DEF Inv, TypeOK, HistoryTyped
<1>2. UNCHANGED <<reader, opens, faults>> /\ running' = FALSE
    BY DEF Detach, history
<1> DEFINE q == faults * Price
           e == IF LastPass' THEN 1 ELSE 0
<1>3. e \in Nat /\ e <= 1 /\ q \in Nat /\ Owed \in Nat
    BY <1>1, Sizes DEF Sized
<1>4. opens + Owed <= 1 + q + 0
    BY DEF Budget, Allowed
<1> HIDE DEF q, e
<1>5. opens + e <= 2 + q /\ faults <= faults
    BY <1>1, <1>3, <1>4
<1> QED
    BY <1>1, <1>2, <1>5, EndBudget DEF q, e

LEMMA EndingKeeps == ASSUME Inv, Budget, running = FALSE, [Next]_vars PROVE Budget'
<1> USE DEF shared, writer, history
<1>1. opens \in Nat /\ faults \in Nat
    BY InterfaceAssumption DEF Inv, TypeOK, HistoryTyped
<1>2. running' = FALSE
  <2>1. CASE ReadLoop
      BY <2>1 DEF ReadLoop, Loop, Check, CloseOld, Opened, SetOnline, OpenFails, Read, ReadFailed
  <2>2. ASSUME NEW w \in Writers, ProcessOutgoing(w) PROVE running' = FALSE
      BY <2>2 DEF ProcessOutgoing, Call, Lock, Finish, WriteChunk, WriteFails, WriteTimesOut,
          TakePort, CloseStalled, GoOffline
  <2> QED
      BY <2>1, <2>2 DEF Next, Unplug, Plug, Detach, vars
<1> DEFINE q == faults * Price
           e == IF LastPass THEN 1 ELSE 0
           e2 == IF LastPass' THEN 1 ELSE 0
<1>3. q \in Nat /\ e \in Nat /\ e2 \in Nat
    BY <1>1, Sizes DEF Sized
<1>4. opens + e <= 1 + q + 1
    BY DEF Budget, Owed, Allowed
<1>5. CASE Opened
  <2>1. e = 1 /\ e2 = 0
      BY <1>5 DEF Opened, LastPass
  <2>2. opens' = opens + 1 /\ faults' = faults
      BY <1>5 DEF Opened
  <2> HIDE DEF q, e, e2
  <2>3. (opens + 1) + e2 <= 2 + q /\ opens + 1 \in Nat /\ faults <= faults
      BY <1>1, <1>3, <1>4, <2>1
  <2> QED
      BY <1>1, <1>2, <2>2, <2>3, EndBudget DEF q, e2
<1>6. CASE ~Opened
  <2>1. UNCHANGED opens /\ (faults' = faults \/ faults' = faults + 1) /\ (LastPass' => LastPass)
    <3>1. CASE Unplug \/ Plug \/ Detach \/ UNCHANGED vars
        BY <3>1 DEF Unplug, Plug, Detach, vars, LastPass
    <3>2. CASE ReadLoop
        BY <1>6, <3>2 DEF ReadLoop, Loop, Check, CloseOld, SetOnline, OpenFails, Read,
            ReadFailed, LastPass
    <3>3. ASSUME NEW w \in Writers, ProcessOutgoing(w)
          PROVE  /\ UNCHANGED opens /\ (faults' = faults \/ faults' = faults + 1)
                 /\ LastPass' => LastPass
        BY <3>3 DEF ProcessOutgoing, Call, Lock, Finish, WriteChunk, WriteFails, WriteTimesOut,
            TakePort, CloseStalled, GoOffline, LastPass
    <3> QED
        BY <3>1, <3>2, <3>3 DEF Next
  <2>2. e2 <= e
      BY <2>1
  <2> HIDE DEF q, e, e2
  <2>3. opens + e2 <= 2 + q
      BY <1>1, <1>3, <1>4, <2>2
  <2>4. faults <= faults + 1 /\ faults <= faults /\ faults + 1 \in Nat
      BY <1>1
  <2>5. CASE faults' = faults
      BY <1>1, <1>2, <2>1, <2>3, <2>4, <2>5, EndBudget DEF q, e2
  <2>6. CASE faults' = faults + 1
      BY <1>1, <1>2, <2>1, <2>3, <2>4, <2>6, EndBudget DEF q, e2
  <2> QED
      BY <2>1, <2>5, <2>6
<1> QED
    BY <1>5, <1>6

LEMMA InitBudget == Init => Budget
<1> SUFFICES ASSUME Init PROVE Budget
    OBVIOUS
<1>1. Condemning = {} /\ Closing = {} /\ Cutting = {} /\ Doomed = {}
    BY DEF Init, Condemning, Closing, Cutting, Doomed, Failing
<1>2. OfWriters = 0
    BY <1>1, FS_EmptySet DEF OfWriters, Count
<1>3. Owed = 1
    BY <1>2 DEF Init, Owed, OfReader, MustOpen
<1>4. Allowed = 1
    BY Sizes DEF Init, Allowed, Sized
<1> QED
    BY <1>3, <1>4 DEF Init, Budget

LEMMA StepBudget == Inv /\ Budget /\ [Next]_vars => Budget'
<1> SUFFICES ASSUME Inv, Budget, [Next]_vars PROVE Budget'
    OBVIOUS
<1>1. running \in BOOLEAN
    BY DEF Inv, TypeOK, PortTyped
<1>2. CASE running = FALSE
    BY <1>2, EndingKeeps
<1>3. CASE running = TRUE
  <2>1. CASE UNCHANGED vars
      BY <1>3, <2>1, QuietKeeps
      DEF vars, shared, writer, history, Inv, Condemning, Closing, Doomed, Failing, MustOpen
  <2>2. CASE Next
      BY <1>3, <2>2, UnplugKeeps, OpenedKeeps, ReaderKeeps, DetachKeeps, WritingKeeps,
         WriteFailsKeeps, WriteTimesOutKeeps, CloseKeeps, GoOfflineKeeps
      DEF Next, ReadLoop, ProcessOutgoing, Finish
  <2> QED
      BY <2>1, <2>2
<1> QED
    BY <1>1, <1>2, <1>3

\* However many threads write: a fault costs at most one opening of the port
\* for each of them and one more, and detach at most one.
THEOREM FaultsCostLittle == Spec => []ReopensAreBounded
<1>1. Inv /\ Budget => ReopensAreBounded
  <2> SUFFICES ASSUME Inv, Budget PROVE ReopensAreBounded
      OBVIOUS
  <2>1. opens \in Nat /\ faults \in Nat
      BY InterfaceAssumption DEF Inv, TypeOK, HistoryTyped
  <2> DEFINE q == faults * (Cardinality(Writers) + 1)
             last == IF running THEN 0 ELSE 1
             o == Owed
  <2>2. q \in Nat /\ last \in Nat /\ o \in Nat
      BY <2>1, Sizes DEF Sized, Count
  <2>3. opens + o <= 1 + q + last
      BY DEF Budget, Allowed, Price, Count
  <2> SUFFICES opens <= 1 + q + last
      BY DEF ReopensAreBounded
  <2> HIDE DEF q, last, o
  <2> QED
      BY <2>1, <2>2, <2>3
<1>2. Init => Inv /\ Budget
    BY InitInv, InitBudget
<1>3. Inv /\ Budget /\ [Next]_vars => (Inv /\ Budget)'
    BY StepInv, StepBudget
<1> QED
    BY <1>1, <1>2, <1>3, PTL DEF Spec

=============================================================================
