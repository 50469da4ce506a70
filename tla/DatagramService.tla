-------------------------- MODULE DatagramService --------------------------
(***************************************************************************)
(* What the v3 link promises its two hosts, with no radio, slots or rounds:*)
(* every datagram a host submits is delivered to the other host at most    *)
(* once and whole, gets at most one verdict, and is confirmed only after   *)
(* it was delivered.  A datagram may be delivered and still be reported    *)
(* failed: all of its final ACKs may be lost.                              *)
(*                                                                         *)
(* Hosts are 0 and 1; a datagram is its position in its host's stream.     *)
(***************************************************************************)
EXTENDS Integers, Sequences

VARIABLES submitted,  \* datagrams each host submitted so far
          completed,  \* those its modem confirmed
          failed,     \* those its modem gave up
          delivered   \* what each host was given, in order

Node == {0, 1}
Peer(n) == 1 - n
vars == <<submitted, completed, failed, delivered>>

DeliveredAt(n) == {delivered[n][i] : i \in DOMAIN delivered[n]}
Undecided(n) == 0 .. submitted[n] - 1 \ (completed[n] \cup failed[n])

Init ==
    /\ submitted = [n \in Node |-> 0]
    /\ completed = [n \in Node |-> {}]
    /\ failed = [n \in Node |-> {}]
    /\ delivered = [n \in Node |-> <<>>]

Offer(n) ==
    /\ submitted' = [submitted EXCEPT ![n] = @ + 1]
    /\ UNCHANGED <<completed, failed, delivered>>

Deliver(n) ==
    /\ \E k \in 0 .. submitted[Peer(n)] - 1 :
          /\ {k} \notin DeliveredAt(n)
          /\ delivered' = [delivered EXCEPT ![n] = Append(@, {k})]
    /\ UNCHANGED <<submitted, completed, failed>>

Confirm(n) ==
    /\ \E k \in Undecided(n) :
          /\ {k} \in DeliveredAt(Peer(n))
          /\ completed' = [completed EXCEPT ![n] = @ \cup {k}]
    /\ UNCHANGED <<submitted, failed, delivered>>

Abandon(n) ==
    /\ \E k \in Undecided(n) : failed' = [failed EXCEPT ![n] = @ \cup {k}]
    /\ UNCHANGED <<submitted, completed, delivered>>

Next == \E n \in Node : Offer(n) \/ Deliver(n) \/ Confirm(n) \/ Abandon(n)
Spec == Init /\ [][Next]_vars

============================================================================
