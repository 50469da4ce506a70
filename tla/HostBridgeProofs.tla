-------------------------- MODULE HostBridgeProofs --------------------------
(***************************************************************************)
(* Theorems about HostBridge for both bridges, any number of faults and    *)
(* any depth of the TUN device's queue.                                    *)
(***************************************************************************)
EXTENDS HostBridge, TLAPS

----------------------------------------------------------------------------
\* A session opens its port once and never gets another one: if the port is
\* not open any more, something happened to it.

LostForCause == main = "join" /\ port # "open" => cause

Inv == TypeOK /\ LostForCause /\ SessionsEndForCause

LEMMA InitInv == Init => Inv
<1> SUFFICES ASSUME Init PROVE Inv
    OBVIOUS
<1>1. tun \in 0 .. TunQueue /\ faults \in 0 .. MaxFaults
    BY BridgeAssumption DEF Init
<1>2. TypeOK
    BY <1>1 DEF Init, TypeOK
<1> QED
    BY <1>2 DEF Init, Inv, LostForCause, SessionsEndForCause

\* The bounded counters by themselves: the rest of the type is Boolean.
LEMMA StepCounters ==
    ASSUME tun \in 0 .. TunQueue, faults \in 0 .. MaxFaults, Next
    PROVE  tun' \in 0 .. TunQueue /\ faults' \in 0 .. MaxFaults
<1>1. \/ UNCHANGED tun
      \/ tun < TunQueue /\ tun' = tun + 1
      \/ tun > 0 /\ tun' = tun - 1
    BY Zenon DEF Next, Unplug, Plug, Packet, Main, Connect, Join, Tx, TxCheck, TxTimeout, TxRead,
        TxReadEmpty, TunFails, TxWrite, TxStalls, TxWriteFails, Rx, RxCheck, RxRead, RxInject, RxInjectFails,
        RxReadFails
<1>2. \/ UNCHANGED faults
      \/ faults < MaxFaults /\ faults' = faults + 1
    BY Zenon DEF Next, Unplug, Plug, Packet, Main, Connect, Join, Tx, TxCheck, TxTimeout, TxRead,
        TxReadEmpty, TunFails, TxWrite, TxStalls, TxWriteFails, Rx, RxCheck, RxRead, RxInject, RxInjectFails,
        RxReadFails
<1> QED
    BY <1>1, <1>2, BridgeAssumption

LEMMA StepType == ASSUME TypeOK, Next PROVE TypeOK'
<1>1. tun' \in 0 .. TunQueue /\ faults' \in 0 .. MaxFaults
    BY StepCounters DEF TypeOK
<1>2. CASE Unplug \/ Plug \/ Packet
    BY <1>1, <1>2 DEF Unplug, Plug, Packet, TypeOK
<1>3. CASE Main
    BY <1>1, <1>3 DEF Main, Connect, Join, TypeOK
<1>4. CASE Tx
    BY <1>1, <1>4 DEF Tx, TxCheck, TxTimeout, TxRead, TxReadEmpty, TunFails, TxWrite, TxStalls,
        TxWriteFails, GiveUp, TypeOK
<1>5. CASE Rx
    BY <1>1, <1>5 DEF Rx, RxCheck, RxRead, RxInject, RxInjectFails, RxReadFails, GiveUp, TypeOK
<1> QED
    BY <1>2, <1>3, <1>4, <1>5 DEF Next

LEMMA StepCause == ASSUME Inv, Next PROVE LostForCause' /\ SessionsEndForCause'
<1> USE DEF Inv, LostForCause, SessionsEndForCause
<1>1. CASE Unplug \/ Plug \/ Packet
    <2>1. UNCHANGED <<main, stop>>
        BY <1>1 DEF Unplug, Plug, Packet
    <2>2. cause => cause'
        BY <1>1, Zenon DEF Unplug, Plug, Packet
    <2>3. port # "open" \/ cause' \/ port' = port
        BY <1>1, Zenon DEF Unplug, Plug, Packet
    <2> QED
        BY <2>1, <2>2, <2>3
<1>2. CASE Main
    BY <1>2 DEF Main, Connect, Join
<1>3. CASE Tx
    <2>1. main = "join"
        BY <1>3 DEF TypeOK, Tx, TxCheck, TxTimeout, TxRead, TxReadEmpty, TunFails, TxWrite, TxStalls,
            TxWriteFails
    <2> QED
        BY <1>3, <2>1 DEF Tx, TxCheck, TxTimeout, TxRead, TxReadEmpty, TunFails, TxWrite, TxStalls,
            TxWriteFails, GiveUp
<1>4. CASE Rx
    <2>1. main = "join"
        BY <1>4 DEF TypeOK, Rx, RxCheck, RxRead, RxInject, RxInjectFails, RxReadFails
    <2> QED
        BY <1>4, <2>1 DEF Rx, RxCheck, RxRead, RxInject, RxInjectFails, RxReadFails, GiveUp
<1> QED
    BY <1>1, <1>2, <1>3, <1>4 DEF Next

LEMMA StepInv == Inv /\ [Next]_vars => Inv'
<1>1. CASE Next
    BY <1>1, StepType, StepCause DEF Inv
<1>2. CASE UNCHANGED vars
    BY <1>2 DEF vars, Inv, TypeOK, LostForCause, SessionsEndForCause
<1> QED
    BY <1>1, <1>2

\* Every reachable state of the bridge is typed.
THEOREM TypeCorrect == Spec => []TypeOK
<1>1. Inv => TypeOK
    BY DEF Inv
<1> QED
    BY <1>1, InitInv, StepInv, PTL DEF Spec

\* A bridge gives a session up only for a fault of that session's own port or
\* device, never for one that the session before met.
THEOREM SessionsEndWithCause == Spec => []SessionsEndForCause
<1>1. Inv => SessionsEndForCause
    BY DEF Inv
<1> QED
    BY <1>1, InitInv, StepInv, PTL DEF Spec

=============================================================================
