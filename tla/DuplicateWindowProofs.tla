------------------------ MODULE DuplicateWindowProofs ------------------------
(***************************************************************************)
(* Facts about the operators of DuplicateWindow, for every id space and    *)
(* every window size: what the serial distance of two ids is, and what     *)
(* duplicateWindowStore keeps.                                             *)
(***************************************************************************)
EXTENDS DuplicateWindow, TLAPS, FiniteSetTheorems, FunctionTheorems

----------------------------------------------------------------------------
\* Serial-number arithmetic

Half == IdSpace \div 2

LEMMA IdSpaceIsEven ==
    /\ IdSpace \in Nat \ {0} /\ Half \in Nat \ {0} /\ IdSpace = 2 * Half
    /\ WindowSize \in Nat \ {0} /\ WindowSize <= Half
    BY WindowAssumption DEF Half

\* The distance of two ids is their difference, up to one turn of the id space,
\* read in -Half .. Half - 1: which turn is thereby determined.
LEMMA IdDistance ==
    ASSUME NEW x \in Id, NEW y \in Id
    PROVE  /\ SerialDistance(x, y) \in -Half .. Half - 1
           /\ SerialDistance(x, y) \in {x - y - IdSpace, x - y, x - y + IdSpace}
<1> DEFINE d == (x - y) % IdSpace
<1>1. x \in 0 .. IdSpace - 1 /\ y \in 0 .. IdSpace - 1
    BY DEF Id
<1>2. d \in 0 .. IdSpace - 1 /\ d \in {x - y, x - y + IdSpace}
    <2>1. CASE x - y \in 0 .. IdSpace - 1
        BY <2>1, IdSpaceIsEven
    <2>2. CASE x - y \in -IdSpace .. -1
        BY <2>2, IdSpaceIsEven
    <2> QED
        BY <1>1, <2>1, <2>2, IdSpaceIsEven
<1>3. SerialDistance(x, y) = IF d < Half THEN d ELSE d - IdSpace
    BY DEF SerialDistance, Half
<1> HIDE DEF d
<1> QED
    BY <1>1, <1>2, <1>3, IdSpaceIsEven

\* Different ids are at different distances.
LEMMA DistanceInjective ==
    ASSUME NEW n \in Id, NEW x \in Id, NEW y \in Id,
           SerialDistance(n, x) = SerialDistance(n, y)
    PROVE  x = y
<1>1. x \in 0 .. IdSpace - 1 /\ y \in 0 .. IdSpace - 1 /\ n \in Int
    BY IdSpaceIsEven DEF Id
<1>2. /\ SerialDistance(n, x) \in {n - x - IdSpace, n - x, n - x + IdSpace}
      /\ SerialDistance(n, x) \in {n - y - IdSpace, n - y, n - y + IdSpace}
    BY IdDistance
<1> QED
    BY <1>1, <1>2, IdSpaceIsEven

\* No multiple of the id space but 0 lies within one turn.
LEMMA SmallMultiple ==
    ASSUME NEW m \in Int
    PROVE  /\ IdSpace * m \in -(IdSpace - 1) .. IdSpace - 1 => m = 0
           /\ IdSpace * m \in -(2 * IdSpace - 1) .. -1 => m = -1
<1>1. IdSpace \in Nat \ {0}
    BY IdSpaceIsEven
<1>2. m >= 1 => IdSpace * m >= IdSpace
    BY <1>1
<1>3. m <= -1 => IdSpace * m <= -IdSpace
    BY <1>1
<1>4. m <= -2 => IdSpace * m <= -(2 * IdSpace)
    BY <1>1
<1>5. m = 0 => IdSpace * m = 0
    BY <1>1
<1>6. IdSpace * m \in Int
    BY <1>1
<1> DEFINE p == IdSpace * m
<1> HIDE DEF p
<1> QED
    BY <1>1, <1>2, <1>3, <1>4, <1>5, <1>6 DEF p

\* The id of a datagram, and the whole turns its number made.
LEMMA Turns ==
    ASSUME NEW a \in Int
    PROVE  (a % IdSpace) \in Id /\ \E p \in Int : a = IdSpace * p + (a % IdSpace)
<1>1. IdSpace \in Nat \ {0}
    BY IdSpaceIsEven
<1>2. a = IdSpace * (a \div IdSpace) + (a % IdSpace) /\ (a % IdSpace) \in 0 .. IdSpace - 1
      /\ a \div IdSpace \in Int
    BY <1>1
<1> QED
    BY <1>2 DEF Id

\* The distance of two datagrams' ids is the difference of their numbers, up to
\* whole turns.
LEMMA DistanceOfNumbers ==
    ASSUME NEW a \in Int, NEW b \in Int
    PROVE  \E m \in Int :
               SerialDistance((a % IdSpace), (b % IdSpace)) = a - b + IdSpace * m
<1> DEFINE x == (a % IdSpace)
           y == (b % IdSpace)
<1>1. PICK p \in Int : a = IdSpace * p + x
    BY Turns
<1>2. PICK q \in Int : b = IdSpace * q + y
    BY Turns
<1>3. x \in Id /\ y \in Id
    BY Turns
<1>0. IdSpace \in Nat \ {0} /\ x \in Int /\ y \in Int
    BY <1>3, IdSpaceIsEven DEF Id
<1> HIDE DEF x, y
<1>4. PICK c \in {-1, 0, 1} : SerialDistance(x, y) = x - y + IdSpace * c
    <2>1. IdSpace * (-1) = -IdSpace /\ IdSpace * 0 = 0 /\ IdSpace * 1 = IdSpace
        BY <1>0
    <2>2. SerialDistance(x, y) \in {x - y - IdSpace, x - y, x - y + IdSpace}
        BY <1>3, IdDistance
    <2>3. CASE SerialDistance(x, y) = x - y - IdSpace
        BY <1>0, <2>1, <2>3
    <2>4. CASE SerialDistance(x, y) = x - y
        BY <1>0, <2>1, <2>4
    <2>5. CASE SerialDistance(x, y) = x - y + IdSpace
        BY <1>0, <2>1, <2>5
    <2> QED
        BY <2>2, <2>3, <2>4, <2>5
<1>5. IdSpace * (q - p + c) = IdSpace * q - IdSpace * p + IdSpace * c
    BY <1>0
<1>6. /\ IdSpace * q \in Int /\ IdSpace * p \in Int /\ IdSpace * c \in Int
      /\ q - p + c \in Int
    BY <1>0
<1>7. x - y + IdSpace * c = a - b + IdSpace * (q - p + c)
    <2> DEFINE Q == IdSpace * q
               P == IdSpace * p
               C == IdSpace * c
               S == IdSpace * (q - p + c)
    <2>1. Q \in Int /\ P \in Int /\ C \in Int /\ S = Q - P + C /\ a = P + x /\ b = Q + y
        BY <1>1, <1>2, <1>5, <1>6
    <2> HIDE DEF Q, P, C, S
    <2>2. x - y + C = a - b + S
        BY <1>0, <2>1
    <2> QED
        BY <2>2 DEF C, S
<1> QED
    BY <1>4, <1>6, <1>7 DEF x, y

\* Datagrams less than half a turn apart: their ids' distance is theirs.  Those
\* up to a turn behind look as if they were ahead.
LEMMA DistanceOfClose ==
    ASSUME NEW a \in Int, NEW b \in Int
    PROVE  /\ a - b \in -Half .. Half - 1 =>
                  SerialDistance((a % IdSpace), (b % IdSpace)) = a - b
           /\ a - b \in Half .. IdSpace - 1 =>
                  SerialDistance((a % IdSpace), (b % IdSpace)) = a - b - IdSpace
<1> DEFINE d == SerialDistance((a % IdSpace), (b % IdSpace))
<1>1. PICK m \in Int : d = a - b + IdSpace * m
    BY DistanceOfNumbers
<1>2. d \in -Half .. Half - 1
    BY Turns, IdDistance
<1> HIDE DEF d
<1> DEFINE p == IdSpace * m
<1>3. p \in Int
    BY IdSpaceIsEven
<1>4. /\ p \in -(IdSpace - 1) .. IdSpace - 1 => p = 0
      /\ p \in -(2 * IdSpace - 1) .. -1 => p = -IdSpace
    <2>1. /\ p \in -(IdSpace - 1) .. IdSpace - 1 => m = 0
          /\ p \in -(2 * IdSpace - 1) .. -1 => m = -1
        BY SmallMultiple
    <2>2. IdSpace * 0 = 0 /\ IdSpace * (-1) = -IdSpace
        BY IdSpaceIsEven
    <2> QED
        BY <2>1, <2>2
<1> HIDE DEF p
<1>5. d = a - b + p
    BY <1>1 DEF p
<1>6. a - b \in -Half .. Half - 1 => d = a - b
    BY <1>2, <1>3, <1>4, <1>5, IdSpaceIsEven
<1>7. a - b \in Half .. IdSpace - 1 => d = a - b - IdSpace
    BY <1>2, <1>3, <1>4, <1>5, IdSpaceIsEven
<1> QED
    BY <1>6, <1>7 DEF d

\* Two datagrams less than a turn apart do not share an id.
LEMMA SameIdSameNumber ==
    ASSUME NEW a \in Int, NEW b \in Int, (a % IdSpace) = (b % IdSpace),
           a - b \in -(IdSpace - 1) .. IdSpace - 1
    PROVE  a = b
<1> DEFINE x == (a % IdSpace)
<1>1. PICK p \in Int : a = IdSpace * p + x
    BY Turns
<1>2. PICK q \in Int : b = IdSpace * q + x
    BY Turns
<1>0. IdSpace \in Nat \ {0} /\ x \in Int
    BY Turns, IdSpaceIsEven DEF Id
<1> HIDE DEF x
<1>3. IdSpace * (p - q) = IdSpace * p - IdSpace * q
    BY <1>0
<1>4. IdSpace * p \in Int /\ IdSpace * q \in Int
    BY <1>0
<1>5. a - b = IdSpace * (p - q)
    BY <1>0, <1>1, <1>2, <1>3, <1>4
<1>6. p - q = 0
    <2>1. p - q \in Int /\ IdSpace * (p - q) \in -(IdSpace - 1) .. IdSpace - 1
        BY <1>5
    <2> QED
        BY <2>1, SmallMultiple
<1>7. p = q
    BY <1>6
<1> QED
    BY <1>1, <1>2, <1>7

\* An id within half a turn is its own number.
LEMMA IdIsItsNumber == ASSUME NEW x \in Id PROVE (x % IdSpace) = x
    BY IdSpaceIsEven DEF Id

----------------------------------------------------------------------------
\* The window

Distinct(acks) == \A e, o \in acks : e.id = o.id => e = o

\* Entries of different ids are no more than the distances they may be at.
LEMMA EntriesBound ==
    ASSUME NEW n \in Id, NEW acks, \A e \in acks : e.id \in Id, Distinct(acks),
           NEW D, IsFiniteSet(D), \A e \in acks : SerialDistance(n, e.id) \in D
    PROVE  IsFiniteSet(acks) /\ Cardinality(acks) <= Cardinality(D)
<1> DEFINE f == [e \in acks |-> SerialDistance(n, e.id)]
<1>1. f \in [acks -> D]
    OBVIOUS
<1>2. ASSUME NEW e \in acks, NEW o \in acks, f[e] = f[o] PROVE e = o
    <2>1. SerialDistance(n, e.id) = SerialDistance(n, o.id)
        BY <1>2
    <2>2. e.id = o.id
        BY <2>1, DistanceInjective
    <2> QED
        BY <2>2 DEF Distinct
<1> HIDE DEF f
<1>3. f \in Injection(acks, D)
    BY <1>1, <1>2, Fun_IsInj
<1> QED
    BY <1>3, FS_Injection

\* A window holds at most WindowSize entries, and fewer when one of the distances
\* it covers is free.
LEMMA WindowBound ==
    ASSUME NEW n \in Id, NEW acks, \A e \in acks : e.id \in Id, Distinct(acks),
           \A e \in acks : SerialDistance(n, e.id) \in 0 .. WindowSize - 1
    PROVE  /\ IsFiniteSet(acks) /\ Cardinality(acks) \in Nat
           /\ Cardinality(acks) <= WindowSize
           /\ \A d \in 0 .. WindowSize - 1 :
                  (\A e \in acks : SerialDistance(n, e.id) # d) =>
                      Cardinality(acks) < WindowSize
<1> DEFINE D == 0 .. WindowSize - 1
<1>1. IsFiniteSet(D) /\ Cardinality(D) = WindowSize
    BY FS_Interval, IdSpaceIsEven
<1>2. \A e \in acks : SerialDistance(n, e.id) \in D
    OBVIOUS
<1> HIDE DEF D
<1>3. IsFiniteSet(acks) /\ Cardinality(acks) <= Cardinality(D)
    BY <1>1, <1>2, EntriesBound
<1>4. Cardinality(acks) \in Nat
    BY <1>3, FS_CardinalityType
<1>5. ASSUME NEW d \in D, \A e \in acks : SerialDistance(n, e.id) # d
      PROVE  Cardinality(acks) < WindowSize
    <2> DEFINE E == D \ {d}
    <2>1. IsFiniteSet(E) /\ Cardinality(E) = WindowSize - 1
        BY <1>1, FS_RemoveElement
    <2>2. \A e \in acks : SerialDistance(n, e.id) \in E
        BY <1>2, <1>5
    <2> HIDE DEF E
    <2>3. Cardinality(acks) <= Cardinality(E)
        BY <2>1, <2>2, EntriesBound
    <2> QED
        BY <1>4, <2>1, <2>3, IdSpaceIsEven
<1> QED
    BY <1>1, <1>3, <1>4, <1>5 DEF D

\* The newest id is an id, before the store and after.
LEMMA NewestAfterType ==
    ASSUME NEW w, w.newest \in Id \cup {NoId}, NEW id \in Id
    PROVE  NewestAfter(w, id) \in Id
    BY DEF NewestAfter

\* Storing an id within the window: nothing is evicted that the window still
\* covers, and the id is remembered.
LEMMA StoreRecent ==
    ASSUME NEW F, NEW w \in Window(F), NEW id \in Id, NEW bitmap \in SUBSET F,
           Distinct(w.acks), ~Remembered(w, id),
           SerialWithinWindow(NewestAfter(w, id), id)
    PROVE  /\ Store(w, id, bitmap).newest = NewestAfter(w, id)
           /\ Store(w, id, bitmap).acks =
                  Prune(NewestAfter(w, id), w.acks) \cup {[id |-> id, bitmap |-> bitmap]}
<1> DEFINE newest == NewestAfter(w, id)
           new == [id |-> id, bitmap |-> bitmap]
           others == Prune(newest, {e \in w.acks : e.id # id})
           kept == IF Cardinality(others) = WindowSize
                   THEN others \ Oldest(newest, others)
                   ELSE others
<1>1. newest \in Id /\ \A e \in w.acks : e.id \in Id
    BY NewestAfterType DEF Window
<1>2. {e \in w.acks : e.id # id} = w.acks
    BY DEF Remembered
<1>3. others = Prune(newest, w.acks)
    BY <1>2
<1>4. Store(w, id, bitmap) = [newest |-> newest, acks |-> Prune(newest, kept \cup {new})]
    BY DEF Store
<1> HIDE DEF newest, others, kept
<1>5. /\ \A e \in others : e \in w.acks /\ SerialDistance(newest, e.id) \in 0 .. WindowSize - 1
      /\ Prune(newest, others) = others
    BY <1>3 DEF Prune, SerialWithinWindow
<1>6. SerialDistance(newest, id) \in 0 .. WindowSize - 1
    BY DEF SerialWithinWindow, newest
<1>7. \A e \in others : SerialDistance(newest, e.id) # SerialDistance(newest, id)
    BY <1>1, <1>5, DistanceInjective DEF Remembered
<1>8. Cardinality(others) < WindowSize /\ Cardinality(others) \in Nat
    <2>1. Distinct(others)
        BY <1>5 DEF Distinct
    <2>2. \A e \in others : e.id \in Id /\ SerialDistance(newest, e.id) \in 0 .. WindowSize - 1
        BY <1>1, <1>5
    <2> QED
        BY <1>1, <1>6, <1>7, <2>1, <2>2, WindowBound
<1>9. kept = others
    BY <1>8, IdSpaceIsEven DEF kept
<1>10. Prune(newest, kept \cup {new}) = others \cup {new}
    BY <1>5, <1>6, <1>9 DEF Prune, SerialWithinWindow
<1> QED
    BY <1>3, <1>4, <1>10 DEF newest

\* Storing an id that the window no longer covers: it is not remembered, and it
\* may still evict an entry, which is then the one at the window's far edge.
LEMMA StoreLate ==
    ASSUME NEW F, NEW w \in Window(F), NEW id \in Id, NEW bitmap \in SUBSET F,
           Distinct(w.acks), ~Remembered(w, id),
           ~SerialWithinWindow(NewestAfter(w, id), id)
    PROVE  /\ Store(w, id, bitmap).newest = NewestAfter(w, id)
           /\ Store(w, id, bitmap).acks \subseteq Prune(NewestAfter(w, id), w.acks)
           /\ \A e \in w.acks :
                  SerialDistance(NewestAfter(w, id), e.id) \in 0 .. WindowSize - 2
                      => e \in Store(w, id, bitmap).acks
<1> DEFINE newest == NewestAfter(w, id)
           new == [id |-> id, bitmap |-> bitmap]
           others == Prune(newest, {e \in w.acks : e.id # id})
           kept == IF Cardinality(others) = WindowSize
                   THEN others \ Oldest(newest, others)
                   ELSE others
<1>1. newest \in Id /\ \A e \in w.acks : e.id \in Id
    BY NewestAfterType DEF Window
<1>2. {e \in w.acks : e.id # id} = w.acks
    BY DEF Remembered
<1>3. others = Prune(newest, w.acks)
    BY <1>2
<1>4. Store(w, id, bitmap) = [newest |-> newest, acks |-> Prune(newest, kept \cup {new})]
    BY DEF Store
<1> HIDE DEF newest, others
<1>5. \A e \in others : e \in w.acks /\ SerialDistance(newest, e.id) \in 0 .. WindowSize - 1
    BY <1>3 DEF Prune, SerialWithinWindow
<1>6. kept \subseteq others
    OBVIOUS
<1>7. ASSUME NEW e \in w.acks, SerialDistance(newest, e.id) \in 0 .. WindowSize - 2
      PROVE  e \in kept
    <2>1. e \in others
        BY <1>3, <1>7, IdSpaceIsEven DEF Prune, SerialWithinWindow
    <2>2. CASE e \in Oldest(newest, others)
        <3>1. \A o \in others : SerialDistance(newest, o.id) <= SerialDistance(newest, e.id)
            BY <2>2 DEF Oldest
        <3>2. \A o \in others : SerialDistance(newest, o.id) # WindowSize - 1
            BY <1>5, <1>7, <3>1, IdSpaceIsEven
        <3>3. WindowSize - 1 \in 0 .. WindowSize - 1
            BY IdSpaceIsEven
        <3>4. Distinct(others) /\ \A o \in others : o.id \in Id
            BY <1>1, <1>5 DEF Distinct
        <3>5. Cardinality(others) < WindowSize /\ Cardinality(others) \in Nat
            BY <1>1, <1>5, <3>2, <3>3, <3>4, WindowBound
        <3>6. Cardinality(others) # WindowSize
            BY <3>5, IdSpaceIsEven
        <3> QED
            BY <2>1, <3>6
    <2>3. CASE e \notin Oldest(newest, others)
        BY <2>1, <2>3
    <2> QED
        BY <2>2, <2>3
<1> HIDE DEF kept
<1>8. Prune(newest, kept \cup {new}) = kept
    <2>1. ~SerialWithinWindow(newest, new.id)
        BY DEF newest
    <2>2. \A e \in kept : SerialWithinWindow(newest, e.id)
        BY <1>5, <1>6 DEF SerialWithinWindow
    <2> QED
        BY <2>1, <2>2 DEF Prune
<1>9. kept \subseteq Prune(newest, w.acks)
    BY <1>3, <1>6
<1>10. Store(w, id, bitmap).newest = newest /\ Store(w, id, bitmap).acks = kept
    BY <1>4, <1>8
<1>11. \A e \in w.acks : SerialDistance(newest, e.id) \in 0 .. WindowSize - 2 => e \in kept
    BY <1>7
<1> QED
    BY <1>9, <1>10, <1>11 DEF newest

----------------------------------------------------------------------------
\* The window while ids have not wrapped: an id is then its own number

\* Ids compared as numbers, where their distance allows it.
LEMMA DistanceOfIds ==
    ASSUME NEW x \in Id, NEW y \in Id
    PROVE  /\ x - y \in -Half .. Half - 1 => SerialDistance(x, y) = x - y
           /\ x - y \in Half .. IdSpace - 1 => SerialDistance(x, y) = x - y - IdSpace
<1>1. (x % IdSpace) = x /\ (y % IdSpace) = y /\ x \in Int /\ y \in Int
    BY IdIsItsNumber, IdSpaceIsEven DEF Id
<1>2. /\ x - y \in -Half .. Half - 1 =>
             SerialDistance((x % IdSpace), (y % IdSpace)) = x - y
      /\ x - y \in Half .. IdSpace - 1 =>
             SerialDistance((x % IdSpace), (y % IdSpace)) = x - y - IdSpace
    BY <1>1, DistanceOfClose
<1> QED
    BY <1>1, <1>2

\* The entries are of different ids, each among the WindowSize numbers up to the
\* newest.
Numbers(w) ==
    /\ w.newest \in Id \cup {NoId}
    /\ Distinct(w.acks)
    /\ \A e \in w.acks : e.id \in Id /\ w.newest - e.id \in 0 .. WindowSize - 1

\* An id is less than half the id space from the newest one.
NearNewest(w, id) == w.newest # NoId => id - w.newest \in -(Half - 1) .. Half - 1

LEMMA NewestOfNumbers ==
    ASSUME NEW w, w.newest \in Id \cup {NoId}, NEW id \in Id, NearNewest(w, id)
    PROVE  NewestAfter(w, id) = IF id > w.newest THEN id ELSE w.newest
<1>1. id \in Nat /\ NoId = -1
    BY IdSpaceIsEven DEF Id, NoId
<1>2. CASE w.newest = NoId
    BY <1>1, <1>2 DEF NewestAfter
<1>3. CASE w.newest # NoId
    <2>1. w.newest \in Id /\ w.newest \in Int /\ id - w.newest \in -(Half - 1) .. Half - 1
        BY <1>3, IdSpaceIsEven DEF NearNewest, Id
    <2>2. id - w.newest \in -Half .. Half - 1
        BY <2>1, IdSpaceIsEven
    <2>3. SerialDistance(id, w.newest) = id - w.newest
        BY <2>1, <2>2, DistanceOfIds
    <2>4. SerialAfter(id, w.newest) <=> id > w.newest
        BY <1>1, <2>1, <2>3 DEF SerialAfter
    <2> QED
        BY <1>3, <2>4 DEF NewestAfter
<1> QED
    BY <1>2, <1>3

\* Storing an id that the window does not remember: the newest id never goes
\* back, the window still covers only numbers, what it remembered within
\* WindowSize - 1 of the newest it still remembers, and the id too unless it is
\* already out of reach.
LEMMA StoreNumbers ==
    ASSUME NEW F, NEW w \in Window(F), Numbers(w), NEW id \in Id, NEW bitmap \in SUBSET F,
           ~Remembered(w, id), NearNewest(w, id)
    PROVE  /\ Store(w, id, bitmap).newest = IF id > w.newest THEN id ELSE w.newest
           /\ Numbers(Store(w, id, bitmap))
           /\ \A k \in Id : /\ Remembered(w, k)
                            /\ Store(w, id, bitmap).newest - k < WindowSize - 1
                            => Remembered(Store(w, id, bitmap), k)
           /\ Store(w, id, bitmap).newest - id < WindowSize =>
                  Remembered(Store(w, id, bitmap), id)
<1> DEFINE v == Store(w, id, bitmap)
           t == IF id > w.newest THEN id ELSE w.newest
           new == [id |-> id, bitmap |-> bitmap]
<1>1. /\ id \in 0 .. IdSpace - 1
      /\ w.newest \in -1 .. IdSpace - 1
      /\ w.newest # -1 => id - w.newest \in -(Half - 1) .. Half - 1
      /\ \A e \in w.acks : e.id \in 0 .. IdSpace - 1 /\ w.newest - e.id \in 0 .. WindowSize - 1
    BY IdSpaceIsEven DEF Numbers, NearNewest, Id, NoId
<1>2. t \in Id /\ t \in Int /\ t - id \in 0 .. Half - 1 /\ t >= w.newest
    BY <1>1, IdSpaceIsEven DEF Id
<1>3. NewestAfter(w, id) = t /\ w.newest \in Id \cup {NoId} /\ Distinct(w.acks)
    BY NewestOfNumbers DEF Numbers
<1>4. SerialDistance(t, id) = t - id
    <2>1. t - id \in -Half .. Half - 1
        BY <1>2, IdSpaceIsEven
    <2> QED
        BY <1>2, <2>1, DistanceOfIds
<1>5. ASSUME NEW e \in w.acks
      PROVE  /\ e.id \in Id
             /\ t - e.id \in 0 .. IdSpace - 1
             /\ t - e.id \in 0 .. WindowSize - 1 => SerialDistance(t, e.id) = t - e.id
             /\ SerialWithinWindow(t, e.id) => t - e.id \in 0 .. WindowSize - 1
    <2>1. e.id \in Id /\ e.id \in Int
        BY <1>1 DEF Id
    <2>2. t - e.id \in 0 .. IdSpace - 1
        BY <1>1, <1>2, IdSpaceIsEven
    <2>3. CASE t - e.id \in -Half .. Half - 1
        <3>1. SerialDistance(t, e.id) = t - e.id
            BY <1>2, <2>1, <2>3, DistanceOfIds
        <3> QED
            BY <2>1, <2>2, <3>1 DEF SerialWithinWindow
    <2>4. CASE t - e.id \in Half .. IdSpace - 1
        <3>1. SerialDistance(t, e.id) = t - e.id - IdSpace
            BY <1>2, <2>1, <2>4, DistanceOfIds
        <3>2. SerialDistance(t, e.id) < 0 /\ t - e.id \notin 0 .. WindowSize - 1
            BY <2>4, <3>1, <1>2, <2>1, IdSpaceIsEven
        <3>3. SerialDistance(t, e.id) \notin 0 .. WindowSize - 1
            BY <3>2
        <3> QED
            BY <2>1, <2>2, <3>2, <3>3 DEF SerialWithinWindow
    <2> QED
        BY <2>2, <2>3, <2>4, IdSpaceIsEven
<1>6. /\ v.newest = t
      /\ v.acks \subseteq Prune(t, w.acks) \cup {new}
      /\ new \in v.acks => t - id \in 0 .. WindowSize - 1
      /\ t - id < WindowSize => new \in v.acks
      /\ \A e \in w.acks : SerialDistance(t, e.id) \in 0 .. WindowSize - 2 => e \in v.acks
    <2>1. CASE SerialWithinWindow(t, id)
        <3>1. v.newest = t /\ v.acks = Prune(t, w.acks) \cup {new}
            BY <1>3, <2>1, StoreRecent
        <3>2. \A e \in w.acks : SerialDistance(t, e.id) \in 0 .. WindowSize - 2
                  => SerialWithinWindow(t, e.id)
            BY IdSpaceIsEven DEF SerialWithinWindow
        <3>3. \A e \in w.acks : SerialDistance(t, e.id) \in 0 .. WindowSize - 2 => e \in v.acks
            BY <3>1, <3>2 DEF Prune
        <3>4. t - id \in 0 .. WindowSize - 1
            BY <1>4, <2>1 DEF SerialWithinWindow
        <3> HIDE DEF v, t, new
        <3> QED
            BY <3>1, <3>3, <3>4
    <2>2. CASE ~SerialWithinWindow(t, id)
        <3>1. /\ v.newest = t /\ v.acks \subseteq Prune(t, w.acks)
              /\ \A e \in w.acks : SerialDistance(t, e.id) \in 0 .. WindowSize - 2 => e \in v.acks
            BY <1>3, <2>2, StoreLate
        <3>2. t - id \notin 0 .. WindowSize - 1
            BY <1>4, <2>2 DEF SerialWithinWindow
        <3>3. ~(t - id < WindowSize)
            BY <1>2, <3>2, IdSpaceIsEven
        <3>4. new \notin Prune(t, w.acks)
            BY DEF Prune, Remembered
        <3> HIDE DEF v, t, new
        <3> QED
            BY <3>1, <3>3, <3>4
    <2> QED
        BY <2>1, <2>2
<1> HIDE DEF v, t
<1>7. \A e \in v.acks : e = new \/ (e \in w.acks /\ SerialWithinWindow(t, e.id))
    BY <1>6 DEF Prune
<1>8. Numbers(v)
    <2>1. Distinct(v.acks)
        <3> SUFFICES ASSUME NEW e \in v.acks, NEW o \in v.acks, e.id = o.id PROVE e = o
            BY DEF Distinct
        <3>1. \A a \in w.acks : a.id # new.id
            BY DEF Remembered
        <3> QED
            BY <1>3, <1>7, <3>1 DEF Distinct
    <2>2. ASSUME NEW e \in v.acks PROVE e.id \in Id /\ t - e.id \in 0 .. WindowSize - 1
        <3>1. CASE e = new
            BY <1>6, <3>1
        <3>2. CASE e \in w.acks /\ SerialWithinWindow(t, e.id)
            BY <1>5, <3>2
        <3> QED
            BY <1>7, <3>1, <3>2
    <2> QED
        BY <1>2, <1>6, <2>1, <2>2 DEF Numbers
<1>9. ASSUME NEW k \in Id, Remembered(w, k), v.newest - k < WindowSize - 1
      PROVE  Remembered(v, k)
    <2>1. PICK e \in w.acks : e.id = k
        BY <1>9 DEF Remembered
    <2>2. t - e.id \in 0 .. IdSpace - 1 /\ t - e.id < WindowSize - 1
        BY <1>5, <1>6, <1>9, <2>1
    <2>3. t - e.id \in 0 .. WindowSize - 2 /\ t - e.id \in 0 .. WindowSize - 1
        BY <2>2, IdSpaceIsEven
    <2>4. SerialDistance(t, e.id) = t - e.id
        BY <1>5, <2>3
    <2>5. e \in v.acks
        BY <1>6, <2>3, <2>4
    <2> QED
        BY <2>1, <2>5 DEF Remembered
<1>10. v.newest - id < WindowSize => Remembered(v, id)
    BY <1>6 DEF Remembered
<1> QED
    BY <1>6, <1>8, <1>9, <1>10 DEF v, t

==============================================================================
