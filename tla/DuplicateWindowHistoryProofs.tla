-------------------- MODULE DuplicateWindowHistoryProofs --------------------
(***************************************************************************)
(* The duplicate window, for every id space, every window size and every   *)
(* number of datagrams: it remembers exactly the last WindowSize numbers,  *)
(* and never mistakes a datagram for one of an earlier lap.                *)
(***************************************************************************)
EXTENDS DuplicateWindowHistory, DuplicateWindowProofs

\* The entry a completed datagram leaves.
Entry(k) == [id |-> IdOf(k), bitmap |-> {k}]

\* The completed datagrams within the window, and what the window then holds.
Recent == {k \in done : top - k < WindowSize}

HistoryInv ==
    /\ top \in -1 .. Last
    /\ \A k \in done : k \in 0 .. top
    /\ w = [newest |-> IF top = -1 THEN NoId ELSE IdOf(top),
            acks   |-> {Entry(k) : k \in Recent}]

LEMMA HistoryConstants ==
    /\ IdSpace = 2 * Half /\ IdSpace \in Nat \ {0} /\ Half \in Nat \ {0}
    /\ WindowSize \in Nat \ {0} /\ WindowSize <= Half
    /\ MaxGap \in 1 .. Half - 1 /\ MaxLag \in 0 .. WindowSize - 1 /\ Last \in Nat
    BY IdSpaceIsEven, HistoryAssumption DEF Half

LEMMA IdOfType == ASSUME NEW k \in Int PROVE IdOf(k) \in Id
    BY Turns DEF IdOf

\* Within one turn of the id space an id names one datagram.
LEMMA IdNamesOne ==
    ASSUME NEW a \in Int, NEW b \in Int, IdOf(a) = IdOf(b),
           a - b \in -(IdSpace - 1) .. IdSpace - 1
    PROVE  a = b
    BY SameIdSameNumber DEF IdOf

\* A remembered id is that of a recent datagram.
LEMMA RememberedIsRecent ==
    ASSUME HistoryInv, NEW k \in Int
    PROVE  Remembered(w, IdOf(k)) <=> \E j \in Recent : IdOf(j) = IdOf(k)
<1>1. w.acks = {Entry(j) : j \in Recent}
    BY DEF HistoryInv
<1>2. \A j \in Recent : Entry(j).id = IdOf(j)
    BY DEF Entry
<1> QED
    BY <1>1, <1>2 DEF Remembered

\* An arriving datagram and the recent ones are less than one turn apart.
LEMMA ArrivingIsClose ==
    ASSUME HistoryInv, NEW k \in Arriving, NEW j \in Recent
    PROVE  k - j \in -(IdSpace - 1) .. IdSpace - 1
<1>1. k \in 0 .. Last /\ top - MaxLag <= k /\ k <= top + MaxGap
    BY DEF Arriving
<1>2. top \in -1 .. Last /\ j \in 0 .. top /\ top - j < WindowSize
    BY DEF HistoryInv, Recent
<1> QED
    BY <1>1, <1>2, HistoryConstants

\* What Prune keeps of the recent datagrams' entries when datagram t, which is
\* not more than half a turn ahead, becomes the newest.
LEMMA PruneKeepsRecent ==
    ASSUME NEW D, NEW u \in Int, NEW t \in Int, t - u \in 0 .. Half - 1,
           \A j \in D : j \in Int /\ u - j \in 0 .. WindowSize - 1
    PROVE  Prune(IdOf(t), {Entry(j) : j \in D})
               = {Entry(j) : j \in {i \in D : t - i < WindowSize}}
<1>1. ASSUME NEW j \in D
      PROVE  SerialWithinWindow(IdOf(t), IdOf(j)) <=> t - j < WindowSize
    <2>1. t - j \in 0 .. IdSpace - 1
        BY HistoryConstants
    <2>2. CASE t - j \in 0 .. Half - 1
        <3>1. SerialDistance(IdOf(t), IdOf(j)) = t - j
            BY <2>2, DistanceOfClose, HistoryConstants DEF IdOf
        <3> QED
            BY <2>2, <3>1, HistoryConstants DEF SerialWithinWindow
    <2>3. CASE t - j \in Half .. IdSpace - 1
        <3>1. SerialDistance(IdOf(t), IdOf(j)) = t - j - IdSpace
            BY <2>3, DistanceOfClose, HistoryConstants DEF IdOf
        <3>2. SerialDistance(IdOf(t), IdOf(j)) < 0 /\ ~(t - j < WindowSize)
            BY <2>3, <3>1, HistoryConstants
        <3>3. SerialDistance(IdOf(t), IdOf(j)) \notin 0 .. WindowSize - 1
            BY <3>2, HistoryConstants
        <3> QED
            BY <3>2, <3>3 DEF SerialWithinWindow
    <2> QED
        BY <2>1, <2>2, <2>3, HistoryConstants
<1>2. \A j \in D : Entry(j).id = IdOf(j)
    BY DEF Entry
<1> QED
    BY <1>1, <1>2 DEF Prune

\* What the invariant says of the window.
LEMMA WindowOfHistory ==
    ASSUME HistoryInv
    PROVE  /\ w \in Window(0 .. Last)
           /\ Distinct(w.acks)
           /\ Cardinality(w.acks) <= WindowSize
<1>1. top \in -1 .. Last /\ \A j \in Recent : j \in 0 .. top /\ top - j \in 0 .. WindowSize - 1
    BY HistoryConstants DEF HistoryInv, Recent
<1>2. /\ w.newest = IF top = -1 THEN NoId ELSE IdOf(top)
      /\ w.acks = {Entry(j) : j \in Recent}
      /\ w = [newest |-> w.newest, acks |-> w.acks]
    BY DEF HistoryInv
<1>3. ASSUME NEW e \in w.acks
      PROVE  \E j \in Recent : e = Entry(j)
    BY <1>2
<1>4. Distinct(w.acks)
    <2> SUFFICES ASSUME NEW e \in w.acks, NEW o \in w.acks, e.id = o.id PROVE e = o
        BY DEF Distinct
    <2>1. PICK i \in Recent : e = Entry(i)
        BY <1>3
    <2>2. PICK j \in Recent : o = Entry(j)
        BY <1>3
    <2>3. IdOf(i) = IdOf(j)
        BY <2>1, <2>2 DEF Entry
    <2>4. i \in Int /\ j \in Int /\ i - j \in -(IdSpace - 1) .. IdSpace - 1
        BY <1>1, HistoryConstants
    <2>5. i = j
        BY <2>3, <2>4, IdNamesOne
    <2> QED
        BY <2>1, <2>2, <2>5
<1>5. w \in Window(0 .. Last)
    <2>1. \A j \in Recent : Entry(j) \in [id : Id, bitmap : SUBSET (0 .. Last)]
        <3> SUFFICES ASSUME NEW j \in Recent
                     PROVE  Entry(j) \in [id : Id, bitmap : SUBSET (0 .. Last)]
            OBVIOUS
        <3>1. j \in 0 .. Last /\ j \in Int
            BY <1>1, HistoryConstants
        <3> QED
            BY <3>1, IdOfType DEF Entry
    <2>2. w.newest \in Id \cup {NoId}
        BY <1>1, <1>2, IdOfType, HistoryConstants
    <2>3. w.acks \in SUBSET [id : Id, bitmap : SUBSET (0 .. Last)]
        BY <1>2, <2>1
    <2> QED
        BY <1>2, <2>2, <2>3 DEF Window
<1>6. Cardinality(w.acks) <= WindowSize
    <2>1. CASE Recent = {}
        <3>1. Cardinality(w.acks) = 0
            BY <1>2, <2>1, FS_EmptySet
        <3> QED
            BY <3>1, HistoryConstants
    <2>2. CASE Recent # {}
        <3>1. top \in Int /\ IdOf(top) \in Id
            BY <1>1, IdOfType, HistoryConstants
        <3>2. ASSUME NEW e \in w.acks
              PROVE  /\ e.id \in Id
                     /\ SerialDistance(IdOf(top), e.id) \in 0 .. WindowSize - 1
            <4>1. PICK j \in Recent : e = Entry(j)
                BY <1>3
            <4>2. j \in Int /\ top - j \in 0 .. WindowSize - 1 /\ top - j \in -Half .. Half - 1
                BY <1>1, HistoryConstants
            <4>3. e.id = IdOf(j) /\ e.id \in Id
                BY <4>1, <4>2, IdOfType DEF Entry
            <4>4. SerialDistance(IdOf(top), IdOf(j)) = top - j
                BY <3>1, <4>2, DistanceOfClose DEF IdOf
            <4> QED
                BY <4>2, <4>3, <4>4
        <3> QED
            BY <1>4, <3>1, <3>2, WindowBound
    <2> QED
        BY <2>1, <2>2
<1> QED
    BY <1>4, <1>5, <1>6

----------------------------------------------------------------------------
\* The invariant is inductive

LEMMA InitHistory == Init => HistoryInv
<1> SUFFICES ASSUME Init PROVE HistoryInv
    OBVIOUS
<1>1. top = -1 /\ done = {} /\ w = [newest |-> NoId, acks |-> {}]
    BY DEF Init, EmptyWindow
<1>2. Recent = {}
    BY <1>1 DEF Recent
<1> QED
    BY <1>1, <1>2, HistoryConstants DEF HistoryInv

\* A delivered datagram becomes the newest, or is stored behind it: the window
\* then covers the last WindowSize numbers up to the new top.
LEMMA DeliverHistory ==
    ASSUME HistoryInv, NEW k \in Arriving, Deliver(k)
    PROVE  HistoryInv'
<1> DEFINE t == Greater(top, k)
           D == {j \in Recent : t - j < WindowSize}
<1>1. k \in 0 .. Last /\ k \in Int /\ top - MaxLag <= k /\ k <= top + MaxGap
    BY HistoryConstants DEF Arriving
<1>2. top \in -1 .. Last /\ top \in Int /\ \A j \in done : j \in 0 .. top
    BY HistoryConstants DEF HistoryInv
<1>3. t \in 0 .. Last /\ t \in Int /\ t - k \in 0 .. WindowSize - 1
      /\ t - top \in 0 .. Half - 1 /\ t >= top /\ t >= k
    BY <1>1, <1>2, HistoryConstants DEF Greater
<1>4. \A j \in Recent : j \in Int /\ j \in 0 .. top /\ top - j \in 0 .. WindowSize - 1
    BY <1>2, HistoryConstants DEF Recent
<1>5. /\ ~Remembered(w, IdOf(k))
      /\ w' = Store(w, IdOf(k), {k})
      /\ top' = t
      /\ done' = {j \in done \cup {k} : t - j < IdSpace}
    BY DEF Deliver
<1>6. /\ w.newest = IF top = -1 THEN NoId ELSE IdOf(top)
      /\ w.acks = {Entry(j) : j \in Recent}
    BY DEF HistoryInv
<1>7. NewestAfter(w, IdOf(k)) = IdOf(t)
    <2>1. CASE top = -1
        <3>1. t = k
            BY <1>1, <2>1 DEF Greater
        <3> QED
            BY <1>6, <2>1, <3>1 DEF NewestAfter
    <2>2. CASE top # -1
        <3>1. w.newest = IdOf(top) /\ IdOf(top) \in Id
            BY <1>2, <1>6, <2>2, IdOfType
        <3>2. w.newest # NoId
            BY <3>1 DEF Id, NoId
        <3>3. k - top \in -Half .. Half - 1
            BY <1>1, <1>2, HistoryConstants
        <3>4. SerialDistance(IdOf(k), IdOf(top)) = k - top
            BY <1>1, <1>2, <3>3, DistanceOfClose DEF IdOf
        <3>5. SerialAfter(IdOf(k), w.newest) <=> k > top
            BY <1>1, <1>2, <3>1, <3>4 DEF SerialAfter
        <3> QED
            BY <1>1, <1>2, <3>1, <3>2, <3>5 DEF NewestAfter, Greater
    <2> QED
        BY <2>1, <2>2
<1> HIDE DEF t
<1>8. SerialWithinWindow(IdOf(t), IdOf(k))
    <2>1. t - k \in -Half .. Half - 1
        BY <1>3, HistoryConstants
    <2>2. SerialDistance(IdOf(t), IdOf(k)) = t - k
        BY <1>1, <1>3, <2>1, DistanceOfClose DEF IdOf
    <2> QED
        BY <1>3, <2>2 DEF SerialWithinWindow
<1>9. Prune(IdOf(t), w.acks) = {Entry(j) : j \in D}
    BY <1>2, <1>3, <1>4, <1>6, PruneKeepsRecent
<1>10. w' = [newest |-> IdOf(t), acks |-> {Entry(j) : j \in D} \cup {Entry(k)}]
    <2>1. w \in Window(0 .. Last) /\ Distinct(w.acks)
        BY WindowOfHistory
    <2>2. IdOf(k) \in Id /\ {k} \in SUBSET (0 .. Last)
        BY <1>1, IdOfType
    <2>3. /\ Store(w, IdOf(k), {k}).newest = IdOf(t)
          /\ Store(w, IdOf(k), {k}).acks = {Entry(j) : j \in D} \cup {Entry(k)}
        <3>1. SerialWithinWindow(NewestAfter(w, IdOf(k)), IdOf(k))
            BY <1>7, <1>8
        <3>2. /\ Store(w, IdOf(k), {k}).newest = NewestAfter(w, IdOf(k))
              /\ Store(w, IdOf(k), {k}).acks
                     = Prune(NewestAfter(w, IdOf(k)), w.acks) \cup {[id |-> IdOf(k), bitmap |-> {k}]}
            <4> DEFINE F == 0 .. Last
                       i == IdOf(k)
                       b == {k}
            <4>1. /\ w \in Window(F) /\ i \in Id /\ b \in SUBSET F /\ Distinct(w.acks)
                  /\ ~Remembered(w, i) /\ SerialWithinWindow(NewestAfter(w, i), i)
                BY <1>5, <2>1, <2>2, <3>1
            <4> HIDE DEF F, i, b
            <4>2. /\ Store(w, i, b).newest = NewestAfter(w, i)
                  /\ Store(w, i, b).acks
                         = Prune(NewestAfter(w, i), w.acks) \cup {[id |-> i, bitmap |-> b]}
                BY <4>1, StoreRecent
            <4> QED
                BY <4>2 DEF i, b
        <3>3. Entry(k) = [id |-> IdOf(k), bitmap |-> {k}]
            BY DEF Entry
        <3> QED
            BY <1>7, <1>9, <3>2, <3>3
    <2>4. Store(w, IdOf(k), {k}) =
              [newest |-> Store(w, IdOf(k), {k}).newest, acks |-> Store(w, IdOf(k), {k}).acks]
        BY DEF Store
    <2> QED
        BY <1>5, <2>3, <2>4
<1>11. Recent' = D \cup {k}
    <2>1. Recent' = {j \in done' : t - j < WindowSize}
        BY <1>5 DEF Recent
    <2>2. {j \in done' : t - j < WindowSize} \subseteq D \cup {k}
        <3> SUFFICES ASSUME NEW j \in done', t - j < WindowSize, j # k PROVE j \in D
            OBVIOUS
        <3>1. j \in done
            BY <1>5
        <3>2. top - j < WindowSize
            BY <1>2, <1>3, <3>1, HistoryConstants
        <3> QED
            BY <3>1, <3>2 DEF Recent
    <2>3. D \cup {k} \subseteq {j \in done' : t - j < WindowSize}
        <3>1. \A j \in D \cup {k} : j \in done \cup {k} /\ j \in Int /\ t - j < WindowSize
            BY <1>1, <1>3, <1>4, HistoryConstants DEF Recent
        <3>2. \A j \in D \cup {k} : t - j < IdSpace
            BY <1>3, <3>1, HistoryConstants
        <3> QED
            BY <1>5, <3>1, <3>2
    <2> QED
        BY <2>1, <2>2, <2>3
<1> HIDE DEF D
<1>12. top' \in -1 .. Last /\ top' # -1
    BY <1>3, <1>5, HistoryConstants
<1>13. \A j \in done' : j \in 0 .. top'
    <2> SUFFICES ASSUME NEW j \in done' PROVE j \in 0 .. t
        BY <1>5
    <2>1. j \in done \/ j = k
        BY <1>5
    <2> QED
        BY <1>1, <1>2, <1>3, <2>1, HistoryConstants
<1>14. {Entry(j) : j \in D} \cup {Entry(k)} = {Entry(j) : j \in D \cup {k}}
    OBVIOUS
<1>15. w' = [newest |-> IdOf(top'), acks |-> {Entry(j) : j \in Recent'}]
    BY <1>5, <1>10, <1>11, <1>14
<1>16. w' = [newest |-> IF top' = -1 THEN NoId ELSE IdOf(top'),
             acks   |-> {Entry(j) : j \in Recent'}]
    BY <1>12, <1>15
<1> QED
    BY <1>12, <1>13, <1>16 DEF HistoryInv

LEMMA NextHistory == HistoryInv /\ [Next]_vars => HistoryInv'
<1> SUFFICES ASSUME HistoryInv, [Next]_vars PROVE HistoryInv'
    OBVIOUS
<1>1. CASE \E k \in Arriving : Deliver(k)
    BY <1>1, DeliverHistory
<1>2. CASE UNCHANGED vars
    <2>1. Recent' = Recent
        BY <1>2 DEF Recent, vars
    <2> QED
        BY <1>2, <2>1 DEF HistoryInv, vars
<1> QED
    BY <1>1, <1>2 DEF Next, Suppress

LEMMA HistoryInvariant == Spec => []HistoryInv
    BY InitHistory, NextHistory, PTL DEF Spec

----------------------------------------------------------------------------
\* Theorems

\* The window holds ids with their bitmaps, and never more than WindowSize of
\* them: the array of duplicateWindowStore does not overflow.
THEOREM TypeCorrect == Spec => []TypeOK
<1>1. HistoryInv => TypeOK
    <2> SUFFICES ASSUME HistoryInv PROVE TypeOK
        OBVIOUS
    <2>1. top \in -1 .. Last /\ done \subseteq 0 .. Last
        BY HistoryConstants DEF HistoryInv
    <2> QED
        BY <2>1, WindowOfHistory DEF TypeOK
<1> QED
    BY <1>1, HistoryInvariant, PTL

\* The last WindowSize datagrams are remembered with the ACK they were given,
\* whatever the order they completed in and wherever the id space wraps.
THEOREM NothingIsForgotten == Spec => []NothingForgotten
<1>1. HistoryInv => NothingForgotten
    <2> SUFFICES ASSUME HistoryInv, NEW k \in done, top - k < WindowSize
                 PROVE  Remembered(w, IdOf(k)) /\ StoredBitmap(w, IdOf(k)) = {k}
        BY DEF NothingForgotten
    <2>1. Entry(k) \in w.acks /\ Entry(k).id = IdOf(k) /\ Entry(k).bitmap = {k}
        BY DEF HistoryInv, Recent, Entry
    <2>2. \A e \in w.acks : e.id = IdOf(k) => e = Entry(k)
        BY <2>1, WindowOfHistory DEF Distinct
    <2>3. (CHOOSE e \in w.acks : e.id = IdOf(k)) = Entry(k)
        BY <2>1, <2>2
    <2> QED
        BY <2>1, <2>3 DEF Remembered, StoredBitmap
<1> QED
    BY <1>1, HistoryInvariant, PTL

\* A datagram that has not completed is never taken for a duplicate: its id is
\* not that of a datagram the window still holds from a lap earlier.
THEOREM NoDuplicateIsFalse == Spec => []NoFalseDuplicate
<1>1. HistoryInv => NoFalseDuplicate
    <2> SUFFICES ASSUME HistoryInv, NEW k \in Arriving, Remembered(w, IdOf(k))
                 PROVE  k \in done
        BY DEF NoFalseDuplicate
    <2>1. k \in Int
        BY DEF Arriving
    <2>2. PICK j \in Recent : IdOf(j) = IdOf(k)
        BY <2>1, RememberedIsRecent
    <2>3. j \in Int /\ j \in done
        BY HistoryConstants DEF Recent, HistoryInv
    <2>4. k - j \in -(IdSpace - 1) .. IdSpace - 1
        BY ArrivingIsClose
    <2>5. k = j
        BY <2>1, <2>2, <2>3, <2>4, IdNamesOne
    <2> QED
        BY <2>3, <2>5
<1> QED
    BY <1>1, HistoryInvariant, PTL

==============================================================================
