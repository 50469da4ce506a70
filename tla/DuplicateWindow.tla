-------------------------- MODULE DuplicateWindow --------------------------
(***************************************************************************)
(* The receiver's history of completed datagram ids (arq/DatagramPool.h):  *)
(* a bounded set of (id, final ACK bitmap) entries around the newest id    *)
(* delivered, ordered by 16-bit serial-number arithmetic.  Pure operators; *)
(* DuplicateWindowHistory drives them and ArqLink keeps one per modem.     *)
(*                                                                         *)
(* The 64-element array is a set of entries: no code observes which array  *)
(* slot holds an entry.  The stored failure status is always NONE and the  *)
(* stored credits are replaced by current ones when a duplicate is re-ACKed*)
(* (ArqEngine.cpp:523), so an entry keeps only the id and the bitmap.      *)
(***************************************************************************)
EXTENDS Integers, FiniteSets

CONSTANTS IdSpace,     \* number of datagram ids: 2^16 in the code
          WindowSize   \* DUPLICATE_WINDOW_CAPACITY: 64 in the code

ASSUME WindowAssumption ==
    /\ WindowSize \in Nat \ {0}
    /\ IdSpace \in Nat
    /\ 2 * WindowSize <= IdSpace
    /\ IdSpace % 2 = 0

Id == 0 .. IdSpace - 1
NoId == -1

\* (newer - older) read as a signed integer of the id's width.
SerialDistance(newer, older) ==
    LET d == (newer - older) % IdSpace
    IN  IF d < IdSpace \div 2 THEN d ELSE d - IdSpace

SerialAfter(lhs, rhs) == SerialDistance(lhs, rhs) > 0

\* A mutant: an off-by-one at the window's far edge.
WithinShortWindow(newest, candidate) ==
    SerialDistance(newest, candidate) \in 0 .. WindowSize - 2

\* A mutant: the distance taken without the sign, so an id from the future
\* half of the id space passes for an old one and every id is recent.
WithinUnsignedWindow(newest, candidate) ==
    (candidate - newest) % IdSpace < IdSpace

SerialWithinWindow(newest, candidate) ==
    SerialDistance(newest, candidate) \in 0 .. WindowSize - 1

\* The windows whose entries acknowledge some of `fragments`.
Window(fragments) == [newest : Id \cup {NoId},
                      acks : SUBSET [id : Id, bitmap : SUBSET fragments]]

EmptyWindow == [newest |-> NoId, acks |-> {}]

\* A mutant: the newest id is not looked up among the entries.
RememberedOlder(w, id) == id # w.newest /\ \E e \in w.acks : e.id = id

\* duplicateWindowFind: any valid entry of that id, whatever its distance.
Remembered(w, id) == \E e \in w.acks : e.id = id
StoredBitmap(w, id) == (CHOOSE e \in w.acks : e.id = id).bitmap

Prune(newest, acks) == {e \in acks : SerialWithinWindow(newest, e.id)}

\* A mutant: the newest id follows every store, also one of an older id.
NewestAlways(w, id) == id

NewestAfter(w, id) ==
    IF w.newest = NoId \/ SerialAfter(id, w.newest) THEN id ELSE w.newest

\* The entries that make room: the one furthest behind the newest id.
Oldest(newest, acks) ==
    {e \in acks : \A o \in acks :
        SerialDistance(newest, o.id) <= SerialDistance(newest, e.id)}

\* A mutant: entries are added and never make room.
StoreUnbounded(w, id, bitmap) ==
    [newest |-> NewestAfter(w, id),
     acks   |-> w.acks \cup {[id |-> id, bitmap |-> bitmap]}]

\* duplicateWindowStore.
Store(w, id, bitmap) ==
    LET newest == NewestAfter(w, id)
        others == Prune(newest, {e \in w.acks : e.id # id})
        kept   == IF Cardinality(others) = WindowSize
                  THEN others \ Oldest(newest, others)
                  ELSE others
    IN  [newest |-> newest,
         acks   |-> Prune(newest, kept \cup {[id |-> id, bitmap |-> bitmap]})]

============================================================================
