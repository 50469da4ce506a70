------------------------------ MODULE ArqLink ------------------------------
(***************************************************************************)
(* Two modems joined by one half-duplex radio hop, each running the v3     *)
(* selective-repeat engine (firmware/src/arq/ArqEngine.cpp) inside its MAC *)
(* task.  A step of a modem is one phase of one pass of macTask's loop:    *)
(* "wait" handles at most one radio event, "tick" is ArqEngine::onTick,    *)
(* "idle" is serviceIdle, which feeds the engine from the host's queue.    *)
(*                                                                         *)
(* Abstractions, each an over-approximation of the code:                   *)
(*   - the clock: a deadline may be found passed, or not, at any tick;     *)
(*   - the hop: a transmitted packet reaches the peer's receive buffer,    *)
(*     where it replaces an unread one, or is lost;                        *)
(*   - a datagram's bytes are its sequence number in the host's stream     *)
(*     ("data"), which no packet header carries: the receiver records      *)
(*     which datagram each fragment's bytes came from;                     *)
(*   - the datagram pools hold 8 buffers for 4 slots a direction, and every*)
(*     live slot holds exactly one lease: they are never the scarce        *)
(*     resource and are left out.                                          *)
(***************************************************************************)
EXTENDS DuplicateWindow, Sequences

CONSTANTS Submits,         \* bound: datagrams each host submits, [Node -> Nat]
          Length,          \* length of the k-th datagram, [Payload -> 1..]
          FragmentPayload, \* V3_FRAGMENT_PAYLOAD_MAX
          MaxFrags,        \* V3_MAX_FRAGS
          TxSlots,         \* ARQ_MAX_OUTSTANDING
          RxSlots,         \* ARQ_MAX_RX_DATAGRAMS
          AckCapacity,     \* ARQ_PENDING_ACK_CAPACITY
          MaxAttempts,     \* ArqConfig.max_attempts
          RxQueueDepth,    \* RX_QUEUE_DEPTH
          MaxResets        \* bound: engine resets a modem goes through

Node == {0, 1}
Peer(n) == 1 - n
TxSlot == 1 .. TxSlots
RxSlot == 1 .. RxSlots
Frag == 0 .. MaxFrags - 1
Payload == UNION {0 .. Submits[n] - 1 : n \in Node}
DatagramLength == {Length[k] : k \in Payload}
FragmentCount(length) == (length + FragmentPayload - 1) \div FragmentPayload

ASSUME LinkAssumption ==
    /\ Submits \in [Node -> Nat]
    /\ MaxFrags \in Nat \ {0}
    /\ FragmentPayload \in Nat \ {0}
    /\ Length \in [Payload -> Nat \ {0}]
    /\ \A k \in Payload : FragmentCount(Length[k]) \in 1 .. MaxFrags
    /\ TxSlots \in Nat \ {0}
    /\ RxSlots \in Nat \ {0}
    /\ AckCapacity \in Nat \ {0}
    /\ MaxAttempts \in Nat \ {0}
    /\ RxQueueDepth \in Nat \ {0}
    /\ MaxResets \in Nat

VARIABLES
    pc,         \* phase of each MAC task: "wait", "tick" or "idle"
    tx,         \* tx_slots_
    rx,         \* rx_slots_
    pending,    \* pending_acks_, the first pending_ack_count_ of them
    window,     \* duplicate_window_
    credits,    \* remote_credits_
    nextId,     \* next_datagram_id_
    armed,      \* credit_probe_armed_
    air,        \* the packet in each radio's receive buffer, or NoPacket
    rxQueue,    \* frames waiting in rxQueue for the serial TX task
    submitted,  \* history: datagrams the engine accepted from its host
    completed,  \* history: datagrams completeTxSlot was called on
    failed,     \* history: datagrams failTxSlot was called on
    delivered,  \* history: what went to rxQueue, in order; each item is the
                \* set of datagrams the bytes came from
    resets      \* history: engine resets so far

sender == <<tx, credits, nextId, armed, submitted, completed, failed>>
receiver == <<rx, window, rxQueue, delivered>>
vars == <<pc, sender, receiver, pending, air, resets>>

----------------------------------------------------------------------------
\* Packets, slots and their contents

Failure == {"NONE", "MALFORMED_INPUT", "CREDIT_WITHDRAWAL", "ALLOCATION_FAILURE"}
Ack == [id : Id, bitmap : SUBSET Frag, credits : 0 .. TxSlots, failure : Failure]
NoPacket == [type |-> "NONE"]
DataPacket == [type : {"DATA"}, id : Id, index : Frag, length : DatagramLength,
               roundEnd : BOOLEAN, data : Payload]
AckPacket == [type : {"ACK"}, ack : Ack]

Packet == {NoPacket} \cup DataPacket \cup AckPacket

\* fragmentExpectedBitmap of a datagram of this length.
Full(length) == 0 .. FragmentCount(length) - 1

NoData == -1
EmptyTx == [state |-> "EMPTY", data |-> NoData, id |-> 0, acked |-> {},
            round |-> {}, next |-> 0, attempts |-> 0]
EmptyRx == [active |-> FALSE, waiting |-> FALSE, id |-> 0, length |-> 0,
            got |-> [f \in Frag |-> NoData]]

TxDatagram == [state : {"EMPTY", "QUEUED", "OPEN"}, data : Payload \cup {NoData},
               id : Id, acked : SUBSET Frag, round : SUBSET Frag,
               next : 0 .. MaxFrags, attempts : 0 .. MaxAttempts]
RxDatagram == [active : BOOLEAN, waiting : BOOLEAN, id : Id,
               length : DatagramLength \cup {0},
               got : [Frag -> Payload \cup {NoData}]]

Least(S) == CHOOSE x \in S : \A y \in S : x <= y
Lesser(x, y) == IF x < y THEN x ELSE y

TxIn(slots, state) == {s \in TxSlot : slots[s].state = state}
Received(slot) == {f \in Frag : slot.got[f] # NoData}

\* A mutant: the last fragments are not waited for.
CompletePartly(slot) == slot.active /\ Received(slot) # {}

\* reassemblyIsComplete.
Complete(slot) == slot.active /\ Full(slot.length) \subseteq Received(slot)
Sources(slot) == {slot.got[f] : f \in Full(slot.length)}

Egress(n) == RxQueueDepth - rxQueue[n]

\* currentCredits: what the receiver could take on, before a slot it is
\* completing is released.
CurrentCredits(slots, egress) ==
    LET free == Cardinality({s \in RxSlot : ~slots[s].active})
    IN  Lesser(Lesser(free, egress), TxSlots)

\* enqueueAck: a later ACK of the same datagram replaces the queued one in
\* place (ids are unique in the queue); a full queue drops it.
EnqueueAck(queue, ack) ==
    IF \E i \in DOMAIN queue : queue[i].id = ack.id
    THEN [i \in DOMAIN queue |-> IF queue[i].id = ack.id THEN ack ELSE queue[i]]
    ELSE IF Len(queue) < AckCapacity THEN Append(queue, ack) ELSE queue

----------------------------------------------------------------------------
\* The radio hop

\* sendArqRadioPacket succeeded: the peer's receive buffer holds the packet,
\* or the peer was deaf (itself transmitting, noise, a CRC error).
Transmit(n, buffers, packet) ==
    \/ air' = [buffers EXCEPT ![Peer(n)] = packet]
    \/ air' = buffers

\* sendPendingAck on the queue `queue`: the head is sent, or it is not due,
\* or the radio refused it, or there is none.
SendPendingAck(n, buffers, queue) ==
    \/ /\ queue # <<>>
       /\ Transmit(n, buffers, [type |-> "ACK", ack |-> Head(queue)])
       /\ pending' = [pending EXCEPT ![n] = Tail(queue)]
    \/ /\ air' = buffers
       /\ pending' = [pending EXCEPT ![n] = queue]

Taken(n) == [air EXCEPT ![n] = NoPacket]

----------------------------------------------------------------------------
\* The receiving side

AckOf(id, bitmap, credit, failure) ==
    [id |-> id, bitmap |-> bitmap, credits |-> credit, failure |-> failure]

\* The ACK queueRxAck builds when egress is blocked: never a full bitmap.
WithdrawalAck(slot) ==
    AckOf(slot.id, Received(slot) \ {0}, 0, "CREDIT_WITHDRAWAL")

\* A mutant: the final bitmap is acknowledged although egress is blocked.
PrematureAck(slot) == AckOf(slot.id, Received(slot), 0, "NONE")

BlockedAck(slot) == WithdrawalAck(slot)

\* tryCompleteRxSlot with egress available: hand the datagram to rxQueue,
\* remember its id, queue the final ACK, free the slot.
CompleteRxSlot(n, s, slots, buffers) ==
    LET slot == slots[s]
        ack  == AckOf(slot.id, Full(slot.length),
                      CurrentCredits(slots, Egress(n) - 1), "NONE")
    IN  /\ rxQueue' = [rxQueue EXCEPT ![n] = @ + 1]
        /\ delivered' = [delivered EXCEPT ![n] = Append(@, Sources(slot))]
        /\ window' = [window EXCEPT ![n] = Store(@, slot.id, Full(slot.length))]
        /\ rx' = [rx EXCEPT ![n] = [slots EXCEPT ![s] = EmptyRx]]
        /\ SendPendingAck(n, buffers, EnqueueAck(pending[n], ack))

\* allocateRxSlot then acceptFragment on a fresh reassembly, or acceptFragment
\* on a running one; a fragment already held is left as it is.
Accept(slot, p) ==
    IF ~slot.active
    THEN [EmptyRx EXCEPT !.active = TRUE, !.id = p.id, !.length = p.length,
                         !.got = [@ EXCEPT ![p.index] = p.data]]
    ELSE IF slot.got[p.index] # NoData THEN slot
    ELSE [slot EXCEPT !.got = [@ EXCEPT ![p.index] = p.data]]

SlotsFor(n, id) ==
    LET running == {s \in RxSlot : rx[n][s].active /\ rx[n][s].id = id}
    IN  IF running # {} THEN running ELSE {s \in RxSlot : ~rx[n][s].active}

QueueAck(n, ack) ==
    SendPendingAck(n, Taken(n), EnqueueAck(pending[n], ack))

ReceiveDuplicate(n, p) ==
    /\ Remembered(window[n], p.id)
    /\ QueueAck(n, AckOf(p.id, StoredBitmap(window[n], p.id),
                         CurrentCredits(rx[n], Egress(n)), "NONE"))
    /\ UNCHANGED receiver

RefuseFragment(n, p) ==
    /\ ~Remembered(window[n], p.id)
    /\ SlotsFor(n, p.id) = {}
    /\ QueueAck(n, AckOf(p.id, {}, CurrentCredits(rx[n], Egress(n)),
                         "ALLOCATION_FAILURE"))
    /\ UNCHANGED receiver

\* The fragment's header contradicts the running reassembly.
Mismatched(slot, p) == slot.active /\ slot.length # p.length

RejectFragment(n, p) ==
    /\ ~Remembered(window[n], p.id)
    /\ SlotsFor(n, p.id) # {}
    /\ LET slot == rx[n][Least(SlotsFor(n, p.id))]
       IN  /\ Mismatched(slot, p)
           /\ QueueAck(n, AckOf(p.id, Received(slot),
                                CurrentCredits(rx[n], Egress(n)),
                                "MALFORMED_INPUT"))
    /\ UNCHANGED receiver

StoreFragment(n, p) ==
    LET s     == Least(SlotsFor(n, p.id))
        slots == [rx[n] EXCEPT ![s] = Accept(@, p)]
    IN  /\ ~Remembered(window[n], p.id)
        /\ SlotsFor(n, p.id) # {}
        /\ ~Mismatched(rx[n][s], p)
        /\ \/ /\ Complete(slots[s])
              /\ Egress(n) > 0
              /\ CompleteRxSlot(n, s, slots, Taken(n))
           \/ /\ Complete(slots[s])
              /\ Egress(n) = 0
              /\ rx' = [rx EXCEPT ![n] = [slots EXCEPT ![s].waiting = TRUE]]
              /\ QueueAck(n, BlockedAck(slots[s]))
              /\ UNCHANGED <<window, rxQueue, delivered>>
           \/ /\ ~Complete(slots[s])
              /\ rx' = [rx EXCEPT ![n] = slots]
              /\ IF p.roundEnd
                 THEN QueueAck(n, AckOf(p.id, Received(slots[s]),
                                        CurrentCredits(slots, Egress(n)), "NONE"))
                 ELSE SendPendingAck(n, Taken(n), pending[n])
              /\ UNCHANGED <<window, rxQueue, delivered>>

\* handleV3RadioPacket on a DATA packet: ArqEngine::handleData, then
\* flushPendingAck.
HandleData(n) ==
    /\ pc[n] = "wait"
    /\ air[n].type = "DATA"
    /\ \/ ReceiveDuplicate(n, air[n])
       \/ RefuseFragment(n, air[n])
       \/ RejectFragment(n, air[n])
       \/ StoreFragment(n, air[n])
    /\ pc' = [pc EXCEPT ![n] = "tick"]
    /\ UNCHANGED <<sender, resets>>

----------------------------------------------------------------------------
\* The sending side: replies

\* A mutant: any ACK is taken for the open datagram's.
MatchingAnyId(n, ack) == TxIn(tx[n], "OPEN")

Matching(n, ack) == {s \in TxIn(tx[n], "OPEN") : tx[n][s].id = ack.id}

\* A mutant: a withdrawal adds its bitmap to what is acknowledged.
WithdrawAdding(slot, ack) ==
    [slot EXCEPT !.acked = @ \cup ack.bitmap, !.round = {}, !.next = 0,
                 !.attempts = 1]

Withdraw(slot, ack) ==
    [slot EXCEPT !.acked = @ \cap ack.bitmap, !.round = {}, !.next = 0,
                 !.attempts = 1]

Finished(slot, ack) ==
    /\ Full(Length[slot.data]) \subseteq slot.acked \cup ack.bitmap
    /\ ack.failure = "NONE"

\* ArqEngine::handleAck on the one matching open slot.
ApplyAck(n, s, ack) ==
    IF ack.failure = "CREDIT_WITHDRAWAL"
    THEN /\ tx' = [tx EXCEPT ![n][s] = Withdraw(@, ack)]
         /\ UNCHANGED completed
    ELSE IF Finished(tx[n][s], ack)
    THEN /\ tx' = [tx EXCEPT ![n][s] = EmptyTx]
         /\ completed' = [completed EXCEPT ![n] = @ \cup {tx[n][s].data}]
    ELSE /\ tx' = [tx EXCEPT ![n][s].acked = @ \cup ack.bitmap]
         /\ UNCHANGED completed

HandleAck(n) ==
    /\ pc[n] = "wait"
    /\ air[n].type = "ACK"
    /\ LET ack == air[n].ack
       IN  /\ credits' = [credits EXCEPT ![n] = ack.credits]
           /\ \/ \E s \in Matching(n, ack) : ApplyAck(n, s, ack)
              \/ Matching(n, ack) = {} /\ UNCHANGED <<tx, completed>>
    /\ air' = Taken(n)
    /\ pc' = [pc EXCEPT ![n] = "tick"]
    /\ UNCHANGED <<nextId, armed, submitted, failed, receiver, pending, resets>>

\* The wait ends with no packet for the engine: a wake-up, a timeout, or a
\* radio event readPacket rejects, which discards what the buffer held.
NoPacketEvent(n) ==
    /\ pc[n] = "wait"
    /\ air' \in {air, Taken(n)}
    /\ pc' = [pc EXCEPT ![n] = "tick"]
    /\ UNCHANGED <<sender, receiver, pending, resets>>

----------------------------------------------------------------------------
\* The sending side: ArqEngine::onTick below the ACK priority

FragmentPacket(slot, f) ==
    [type |-> "DATA", id |-> slot.id, index |-> f, length |-> Length[slot.data],
     roundEnd |-> slot.round = {f}, data |-> slot.data]

\* trySendOpenData on slot s of `slots`: the next fragment of the round is
\* sent, or the radio refuses it.
SendRound(n, slots, s) ==
    LET left == {f \in slots[s].round : f >= slots[s].next}
        f    == Least(left)
    IN  IF left = {}
        THEN /\ tx' = [tx EXCEPT ![n] = [slots EXCEPT ![s].round = {}]]
             /\ UNCHANGED air
        ELSE \/ /\ tx' = [tx EXCEPT ![n] =
                            [slots EXCEPT ![s].round = @ \ {f}, ![s].next = f + 1]]
                /\ Transmit(n, air, FragmentPacket(slots[s], f))
             \/ /\ tx' = [tx EXCEPT ![n] = [slots EXCEPT ![s].next = f]]
                /\ UNCHANGED air

Opened(slot) ==
    [slot EXCEPT !.state = "OPEN", !.acked = {}, !.round = Full(Length[slot.data]),
                 !.next = 0, !.attempts = 1]

\* tryOpenQueued with no slot open: a queued datagram is opened on a credit,
\* or, with none, once the armed credit-stall probe is due.
OpenQueued(n, slots) ==
    LET queued == TxIn(slots, "QUEUED")
        s      == Least(queued)
    IN  /\ queued # {}
        /\ credits[n] > 0 \/ armed[n]
        /\ SendRound(n, [slots EXCEPT ![s] = Opened(@)], s)
        /\ credits' = [credits EXCEPT ![n] = IF @ > 0 THEN @ - 1 ELSE 0]
        /\ armed' = [armed EXCEPT ![n] = FALSE]

\* A mutant: the engine before the credit-stall probe was added.
NeverArmed(n, slots) ==
    /\ credits[n] = 0 \/ TxIn(slots, "QUEUED") = {}
    /\ tx' = [tx EXCEPT ![n] = slots]
    /\ armed' = [armed EXCEPT ![n] = FALSE]
    /\ UNCHANGED <<credits, air>>

\* tryOpenQueued opens nothing: no queued datagram, or a stall whose probe is
\* armed now or not due yet.
KeepQueued(n, slots) ==
    LET stalled == credits[n] = 0 /\ TxIn(slots, "QUEUED") # {}
    IN  /\ stalled \/ TxIn(slots, "QUEUED") = {}
        /\ tx' = [tx EXCEPT ![n] = slots]
        /\ armed' = [armed EXCEPT ![n] = stalled]
        /\ UNCHANGED <<credits, air>>

TryOpenQueued(n, slots) == OpenQueued(n, slots) \/ KeepQueued(n, slots)

Missing(slot) == Full(Length[slot.data]) \ slot.acked

\* A mutant: one attempt too many.
RetransmitOnceMore(n) ==
    \E s \in TxIn(tx[n], "OPEN") :
        LET slot == tx[n][s]
        IN  /\ slot.round = {}
            /\ Missing(slot) # {}
            /\ slot.attempts <= MaxAttempts
            /\ SendRound(n, [tx[n] EXCEPT ![s].attempts = @ + 1,
                                          ![s].round = Missing(slot),
                                          ![s].next = 0], s)
            /\ UNCHANGED <<credits, armed, failed>>

\* trySendRetransmit found a slot whose round is over and whose deadline has
\* passed: a new round of the fragments not acknowledged.
Retransmit(n) ==
    \E s \in TxIn(tx[n], "OPEN") :
        LET slot == tx[n][s]
        IN  /\ slot.round = {}
            /\ Missing(slot) # {}
            /\ slot.attempts < MaxAttempts
            /\ SendRound(n, [tx[n] EXCEPT ![s].attempts = @ + 1,
                                          ![s].round = Missing(slot),
                                          ![s].next = 0], s)
            /\ UNCHANGED <<credits, armed, failed>>

\* A mutant: the failure is counted and the slot is kept.
GiveUpKeepingSlot(n) ==
    \E s \in TxIn(tx[n], "OPEN") :
        LET slot == tx[n][s]
        IN  /\ slot.round = {}
            /\ Missing(slot) # {}
            /\ slot.attempts >= MaxAttempts
            /\ failed' = [failed EXCEPT ![n] = @ \cup {slot.data}]
            /\ TryOpenQueued(n, [tx[n] EXCEPT ![s].attempts = 0])

\* The same, out of attempts: failTxSlot, and the tick goes on to open the
\* next queued datagram.
GiveUp(n) ==
    \E s \in TxIn(tx[n], "OPEN") :
        LET slot == tx[n][s]
        IN  /\ slot.round = {}
            /\ Missing(slot) # {}
            /\ slot.attempts >= MaxAttempts
            /\ failed' = [failed EXCEPT ![n] = @ \cup {slot.data}]
            /\ TryOpenQueued(n, [tx[n] EXCEPT ![s] = EmptyTx])

SendOpenData(n) ==
    /\ \E s \in TxIn(tx[n], "OPEN") :
          tx[n][s].round # {} /\ SendRound(n, tx[n], s)
    /\ UNCHANGED <<credits, armed, failed>>

OpenNext(n) ==
    /\ TxIn(tx[n], "OPEN") = {}
    /\ TryOpenQueued(n, tx[n])
    /\ UNCHANGED failed

\* The open datagram waits for an ACK or for its deadline.
AwaitAck(n) ==
    /\ \E s \in TxIn(tx[n], "OPEN") : tx[n][s].round = {}
    /\ UNCHANGED <<tx, credits, armed, failed, air>>

----------------------------------------------------------------------------
\* ArqEngine::onTick

\* A mutant: a held-back datagram is tried again only when its sender
\* retransmits.
DeliverableOnArrival(n) == {}

Deliverable(n) ==
    {s \in RxSlot : rx[n][s].active /\ rx[n][s].waiting /\ Egress(n) > 0}

\* tryCompleteRxSlots, then sendPendingAck.
TickDeliver(n) ==
    /\ pc[n] = "tick"
    /\ Deliverable(n) # {}
    /\ CompleteRxSlot(n, Least(Deliverable(n)), rx[n], air)
    /\ pc' = [pc EXCEPT ![n] = "idle"]
    /\ UNCHANGED <<sender, resets>>

TickAck(n) ==
    /\ pc[n] = "tick"
    /\ Deliverable(n) = {}
    /\ pending[n] # <<>>
    /\ Transmit(n, air, [type |-> "ACK", ack |-> Head(pending[n])])
    /\ pending' = [pending EXCEPT ![n] = Tail(@)]
    /\ pc' = [pc EXCEPT ![n] = "idle"]
    /\ UNCHANGED <<sender, receiver, resets>>

\* No ACK is due, or the radio refused it: the data path.
TickData(n) ==
    /\ pc[n] = "tick"
    /\ Deliverable(n) = {}
    /\ Retransmit(n) \/ GiveUp(n) \/ SendOpenData(n) \/ OpenNext(n) \/ AwaitAck(n)
    /\ pc' = [pc EXCEPT ![n] = "idle"]
    /\ UNCHANGED <<nextId, submitted, completed, receiver, pending, resets>>

----------------------------------------------------------------------------
\* serviceIdle, the hosts, and reconfiguration

\* A mutant: next_datagram_id_ is not advanced.
SubmitSameId(n) ==
    LET empty == TxIn(tx[n], "EMPTY")
    IN  /\ pc[n] = "idle"
        /\ submitted[n] < Submits[n]
        /\ empty # {}
        /\ tx' = [tx EXCEPT ![n][Least(empty)] =
                    [EmptyTx EXCEPT !.state = "QUEUED", !.data = submitted[n],
                                    !.id = nextId[n]]]
        /\ submitted' = [submitted EXCEPT ![n] = @ + 1]
        /\ pc' = [pc EXCEPT ![n] = "wait"]
        /\ UNCHANGED <<credits, nextId, armed, completed, failed, receiver, pending,
                       air, resets>>

\* serviceIdle moves one datagram from the host's queue to the first empty
\* slot (ArqEngine::onTxDatagram).
Submit(n) ==
    LET empty == TxIn(tx[n], "EMPTY")
    IN  /\ pc[n] = "idle"
        /\ submitted[n] < Submits[n]
        /\ empty # {}
        /\ tx' = [tx EXCEPT ![n][Least(empty)] =
                    [EmptyTx EXCEPT !.state = "QUEUED", !.data = submitted[n],
                                    !.id = nextId[n]]]
        /\ nextId' = [nextId EXCEPT ![n] = (@ + 1) % IdSpace]
        /\ submitted' = [submitted EXCEPT ![n] = @ + 1]
        /\ pc' = [pc EXCEPT ![n] = "wait"]
        /\ UNCHANGED <<credits, armed, completed, failed, receiver, pending, air,
                       resets>>

\* serviceIdle finds no datagram to take, or no free slot.
Idle(n) ==
    /\ pc[n] = "idle"
    /\ pc' = [pc EXCEPT ![n] = "wait"]
    /\ UNCHANGED <<sender, receiver, pending, air, resets>>

\* The serial TX task takes a frame from rxQueue for the host.
Drain(n) ==
    /\ rxQueue[n] > 0
    /\ rxQueue' = [rxQueue EXCEPT ![n] = @ - 1]
    /\ UNCHANGED <<pc, sender, rx, window, delivered, pending, air, resets>>

\* executeStagedCommand, APPLY_CONFIG: a configuration the radio accepted
\* rebuilds the engine of this modem and of this modem only.
ApplyConfig(n) ==
    /\ pc[n] = "idle"
    /\ resets[n] < MaxResets
    /\ tx' = [tx EXCEPT ![n] = [s \in TxSlot |-> EmptyTx]]
    /\ rx' = [rx EXCEPT ![n] = [s \in RxSlot |-> EmptyRx]]
    /\ pending' = [pending EXCEPT ![n] = <<>>]
    /\ window' = [window EXCEPT ![n] = EmptyWindow]
    /\ credits' = [credits EXCEPT ![n] = TxSlots]
    /\ nextId' = [nextId EXCEPT ![n] = 0]
    /\ armed' = [armed EXCEPT ![n] = FALSE]
    /\ pc' = [pc EXCEPT ![n] = "wait"]
    /\ resets' = [resets EXCEPT ![n] = @ + 1]
    /\ UNCHANGED <<air, rxQueue, submitted, completed, failed, delivered>>

----------------------------------------------------------------------------
Init ==
    /\ pc = [n \in Node |-> "wait"]
    /\ tx = [n \in Node |-> [s \in TxSlot |-> EmptyTx]]
    /\ rx = [n \in Node |-> [s \in RxSlot |-> EmptyRx]]
    /\ pending = [n \in Node |-> <<>>]
    /\ window = [n \in Node |-> EmptyWindow]
    /\ credits = [n \in Node |-> TxSlots]
    /\ nextId = [n \in Node |-> 0]
    /\ armed = [n \in Node |-> FALSE]
    /\ air = [n \in Node |-> NoPacket]
    /\ rxQueue = [n \in Node |-> 0]
    /\ submitted = [n \in Node |-> 0]
    /\ completed = [n \in Node |-> {}]
    /\ failed = [n \in Node |-> {}]
    /\ delivered = [n \in Node |-> <<>>]
    /\ resets = [n \in Node |-> 0]

Step(n) ==
    \/ HandleData(n) \/ HandleAck(n) \/ NoPacketEvent(n)
    \/ TickDeliver(n) \/ TickAck(n) \/ TickData(n)
    \/ Submit(n) \/ Idle(n) \/ Drain(n)

Next == \E n \in Node : Step(n)
Spec == Init /\ [][Next]_vars

\* The same link when hosts may also reconfigure their modems.
NextWithReset == Next \/ \E n \in Node : ApplyConfig(n)
ResetSpec == Init /\ [][NextWithReset]_vars

\* A MAC task never stops passing through its loop, and the serial TX task
\* goes on emptying rxQueue: the host reads.
LoopFairness ==
    \A n \in Node :
        /\ WF_vars(HandleData(n) \/ HandleAck(n) \/ NoPacketEvent(n))
        /\ WF_vars(TickDeliver(n) \/ TickAck(n) \/ TickData(n))
        /\ WF_vars(Submit(n) \/ Idle(n))
        /\ WF_vars(Drain(n))

\* A tick that finds the data path's deadline passed and the radio willing.
DataProgress(n) == TickData(n) /\ tx'[n] # tx[n]

\* Deadlines pass, since millis() advances between ticks, and the radio does
\* not refuse every transmission: among infinitely many ticks with data work
\* to do, some do it.  Nothing is assumed of the hop, which may lose every
\* packet.
LiveSpec ==
    Spec /\ LoopFairness /\ \A n \in Node : SF_vars(DataProgress(n))

----------------------------------------------------------------------------
\* Properties

\* Every part of the state has its type; history sets hold datagrams the host
\* really submitted.
TypeOK ==
    /\ pc \in [Node -> {"wait", "tick", "idle"}]
    /\ tx \in [Node -> [TxSlot -> TxDatagram]]
    /\ rx \in [Node -> [RxSlot -> RxDatagram]]
    /\ pending \in [Node -> Seq(Ack)]
    /\ window \in [Node -> Window(Frag)]
    /\ credits \in [Node -> 0 .. TxSlots]
    /\ nextId \in [Node -> Id]
    /\ armed \in [Node -> BOOLEAN]
    /\ air \in [Node -> Packet]
    /\ rxQueue \in [Node -> 0 .. RxQueueDepth]
    /\ submitted \in [Node -> Nat]
    /\ completed \in [Node -> SUBSET Payload]
    /\ failed \in [Node -> SUBSET Payload]
    /\ delivered \in [Node -> Seq(SUBSET (Payload \cup {NoData}))]
    /\ resets \in [Node -> Nat]

DeliveredAt(n) == {delivered[n][i] : i \in DOMAIN delivered[n]}

\* No acknowledged loss: a datagram the sender took for acknowledged
\* (completeTxSlot) was handed, whole and unmixed, to the peer's rxQueue.
NoAcknowledgedLoss ==
    \A n \in Node : \A k \in completed[n] : {k} \in DeliveredAt(Peer(n))

\* Integrity: whatever reaches the peer's rxQueue is one datagram's bytes and
\* nothing else's.
DeliveredWhole ==
    \A n \in Node : \A i \in DOMAIN delivered[n] :
        \E k \in Payload : delivered[n][i] = {k}

\* Exactly-once delivery: retransmissions, re-ACKs and lost ACKs never put a
\* datagram into the peer's rxQueue a second time.
DeliveredAtMostOnce ==
    \A n \in Node : \A i, j \in DOMAIN delivered[n] :
        delivered[n][i] = delivered[n][j] => i = j

\* The sender never drops a datagram without a verdict: everything submitted
\* is in a slot, acknowledged, or reported failed, and in one of them only.
OneVerdict ==
    \A n \in Node :
        LET live == {tx[n][s].data : s \in TxSlot \ TxIn(tx[n], "EMPTY")}
        IN  /\ 0 .. submitted[n] - 1 = live \cup completed[n] \cup failed[n]
            /\ live \cap (completed[n] \cup failed[n]) = {}
            /\ completed[n] \cap failed[n] = {}

\* Fragment f of datagram k is acknowledged as far as its sender n knows or is
\* about to learn: in the open slot, or in an ACK queued or on its way.
Reports(ack, k, f) ==
    ack.id = k /\ ack.failure # "CREDIT_WITHDRAWAL" /\ f \in ack.bitmap

Reported(n, k, f) ==
    \/ \E s \in TxIn(tx[n], "OPEN") : tx[n][s].data = k /\ f \in tx[n][s].acked
    \/ \E i \in DOMAIN pending[Peer(n)] : Reports(pending[Peer(n)][i], k, f)
    \/ air[n].type = "ACK" /\ Reports(air[n].ack, k, f)

\* The peer of n holds fragment f of datagram k in a running reassembly.
Held(n, k, f) ==
    \E s \in RxSlot : /\ rx[Peer(n)][s].active
                      /\ rx[Peer(n)][s].id = k
                      /\ f \in Received(rx[Peer(n)][s])

\* Selective repeat skips only what arrived, and a datagram that has not
\* reached the peer's rxQueue is never wholly acknowledged, not even by ACKs of
\* different moments put together.
AcknowledgedWasReceived ==
    \A n \in Node : \A k \in Payload :
        \/ {k} \in DeliveredAt(Peer(n))
        \/ /\ \A f \in Frag : Reported(n, k, f) => Held(n, k, f)
           /\ \E f \in Full(Length[k]) : ~Reported(n, k, f)

\* An open datagram is never one the sender can neither retransmit nor
\* complete: every bit acknowledged, no round, the slot still held.  Such a
\* slot would keep its queue, and the heartbeats, waiting for ever.
NeverStuck ==
    \A n \in Node : \A s \in TxIn(tx[n], "OPEN") : Missing(tx[n][s]) # {}

\* The link is a datagram service: at most one delivery, whole, and no
\* confirmation before it.
Service == INSTANCE DatagramService WITH
    submitted <- submitted, completed <- completed,
    failed <- failed, delivered <- delivered
ServiceSpec == Service!Spec

\* Every submitted datagram gets its verdict, however many packets the hop
\* loses and however often egress blocks: no round, credit stall or withdrawal
\* lasts for ever.
VerdictReached ==
    \A n \in Node : \A k \in Payload :
        k < submitted[n] ~> k \in completed[n] \cup failed[n]

\* A whole datagram held back because rxQueue was full is handed over once the
\* host reads again, whatever its sender does meanwhile.
HeldBackIsDelivered ==
    \A n \in Node : \A s \in RxSlot : Complete(rx[n][s]) ~> ~rx[n][s].active

============================================================================
