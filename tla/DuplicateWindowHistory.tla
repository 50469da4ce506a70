----------------------- MODULE DuplicateWindowHistory -----------------------
(***************************************************************************)
(* The duplicate window in use: datagrams of one sender complete at the    *)
(* receiver in an order of the sender's and the channel's choosing, and    *)
(* handleData asks the window about every arrival.  The history counts the *)
(* sender's datagrams without wrapping, so that what the 16-bit ids mean   *)
(* can be compared with what they say.                                     *)
(***************************************************************************)
EXTENDS DuplicateWindow

CONSTANTS MaxGap,   \* how far past the newest a completing datagram may be:
                    \* datagrams between them failed at the sender
          MaxLag,   \* how far behind the newest one may complete
          Last      \* bound: the sender's last datagram

ASSUME HistoryAssumption ==
    /\ MaxGap \in 1 .. IdSpace \div 2 - 1
    /\ MaxLag \in 0 .. WindowSize - 1
    /\ Last \in Nat

VARIABLES w,     \* duplicate_window_
          top,   \* the newest datagram completed, -1 before the first
          done   \* the datagrams completed, as far back as an id reaches

vars == <<w, top, done>>

IdOf(k) == k % IdSpace
Greater(x, y) == IF x > y THEN x ELSE y
Arriving == {k \in 0 .. Last : top - MaxLag <= k /\ k <= top + MaxGap}

Init ==
    /\ w = EmptyWindow
    /\ top = -1
    /\ done = {}

\* handleData on the last missing fragment of datagram k: the window does not
\* know it, so it is delivered and stored.
Deliver(k) ==
    /\ ~Remembered(w, IdOf(k))
    /\ w' = Store(w, IdOf(k), {k})
    /\ top' = Greater(top, k)
    /\ done' = {j \in done \cup {k} : top' - j < IdSpace}

\* handleData on a fragment of a datagram the window knows.
Suppress(k) ==
    /\ Remembered(w, IdOf(k))
    /\ UNCHANGED vars

Next == \E k \in Arriving : Deliver(k) \/ Suppress(k)
Spec == Init /\ [][Next]_vars

----------------------------------------------------------------------------
\* Properties

\* The window is bounded and holds distinct ids.
TypeOK ==
    /\ w \in Window(0 .. Last)
    /\ top \in -1 .. Last
    /\ done \subseteq 0 .. Last
    /\ Cardinality(w.acks) <= WindowSize

\* Every datagram completed among the last WindowSize ids is remembered, with
\* the ACK it was given, across the wrap of the id space: its retransmissions
\* are never delivered again.
NothingForgotten ==
    \A k \in done : top - k < WindowSize =>
        /\ Remembered(w, IdOf(k))
        /\ StoredBitmap(w, IdOf(k)) = {k}

\* A datagram that has not completed is never taken for a duplicate, also when
\* its id was used a lap earlier: re-ACKing it would lose it.
NoFalseDuplicate ==
    \A k \in Arriving : Remembered(w, IdOf(k)) => k \in done

============================================================================
