----------------------------- MODULE MCArqLink -----------------------------
(***************************************************************************)
(* Small instances of ArqLink.  Datagram lengths alternate between one and *)
(* two fragments so that single-fragment rounds, partial rounds and        *)
(* withdrawals all occur.                                                  *)
(***************************************************************************)
EXTENDS ArqLink

CONSTANTS SubmitsA, SubmitsB

MCSubmits == [n \in Node |-> IF n = 0 THEN SubmitsA ELSE SubmitsB]

\* Either all of the traffic goes one way, or at most a datagram goes each way.
Traffic == submitted[1] = 0 \/ submitted[0] <= 1
TrafficSpec == Init /\ [][Next /\ Traffic']_vars

\* With FragmentPayload = 2: two fragments, then one, two, one ...
MCLength == [k \in Payload |-> IF k % 2 = 0 THEN 4 ELSE 1]

\* One fragment, then three: with egress held by the first datagram, the second
\* is acknowledged with a hole, filled and withdrawn.
MCHoled == [k \in Payload |-> IF k = 0 THEN 1 ELSE 5]

\* Two fragments, then one each: the datagram that comes back to an old id is
\* shorter than the one that had it.
MCShrunk == [k \in Payload |-> IF k = 0 THEN 4 ELSE 1]

\* One fragment each: for the runs about the order of datagrams.
MCShort == [k \in Payload |-> 1]

============================================================================
