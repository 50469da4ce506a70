----------------------------- MODULE FrameFifo -----------------------------
(***************************************************************************)
(* What a direction of the serial line promises: of the frames offered at  *)
(* one end, numbered from 1, those taken at the other end are taken once,  *)
(* whole and in order; none is skipped unless the line is Lossy.  Turning  *)
(* the modem off and on begins a new session.                              *)
(***************************************************************************)
EXTENDS Integers, Sequences

CONSTANT Lossy

VARIABLES offered, \* how many frames were offered
          taken    \* the numbers of those taken, in order

vars == <<offered, taken>>

Newest == IF taken = <<>> THEN 0 ELSE taken[Len(taken)]

Init == offered = 0 /\ taken = <<>>

Offer == offered' = offered + 1 /\ UNCHANGED taken

Take ==
    /\ \E k \in Newest + 1 .. offered :
          /\ ~Lossy => k = Newest + 1
          /\ taken' = Append(taken, k)
    /\ UNCHANGED offered

Restart == offered' = 0 /\ taken' = <<>>

Next == Offer \/ Take \/ Restart
Spec == Init /\ [][Next]_vars

============================================================================
