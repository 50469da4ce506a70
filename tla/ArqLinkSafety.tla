--------------------------- MODULE ArqLinkSafety ---------------------------
(***************************************************************************)
(* Safety of the link for every number of slots, fragments, attempts,      *)
(* losses and egress stalls, as long as no host submits more datagrams     *)
(* than there are ids; and, for runs in which nothing is further behind    *)
(* than the window reaches, that the link is a DatagramService.            *)
(***************************************************************************)
EXTENDS ArqLinkProofs, DuplicateWindowProofs

\* The hypothesis of the safety theorems: an id names one datagram.
NoIdReuse == \A n \in Node : Submits[n] <= IdSpace

----------------------------------------------------------------------------
\* The inductive invariant

\* Ids are given out in submission order, from 0.
Numbered ==
    \A n \in Node : /\ submitted[n] <= Submits[n]
                    /\ submitted[n] < IdSpace => nextId[n] = submitted[n]

\* A sender's slot carries the datagram its id names.
SlotIds ==
    \A n \in Node : \A s \in TxSlot :
        tx[n][s].state # "EMPTY" => tx[n][s].id = tx[n][s].data

\* So does a DATA packet, with that datagram's length.
AirData ==
    \A n \in Node : air[n].type = "DATA" =>
        /\ air[n].id = air[n].data
        /\ air[n].length = Length[air[n].data]

\* A running reassembly holds fragments of one datagram only, and waits for
\* egress only when it has them all.
WholeSlot(slot) ==
    /\ slot.id \in Payload
    /\ slot.length = Length[slot.id]
    /\ \A f \in Frag : slot.got[f] \in {NoData, slot.id}
    /\ slot.waiting => Full(slot.length) \subseteq Received(slot)

RxWhole == \A n \in Node : \A s \in RxSlot : rx[n][s].active => WholeSlot(rx[n][s])

\* No datagram is reassembled in two slots.
RxUnique ==
    \A n \in Node : \A s, t \in RxSlot :
        rx[n][s].active /\ rx[n][t].active /\ rx[n][s].id = rx[n][t].id => s = t

\* What the duplicate window remembers was delivered.
WindowDelivered ==
    \A n \in Node : \A e \in window[n].acks : {e.id} \in DeliveredAt(n)

\* AcknowledgedWasReceived for one datagram k of sender n.
Sound(n, k) ==
    \/ {k} \in DeliveredAt(Peer(n))
    \/ /\ \A f \in Frag : Reported(n, k, f) => Held(n, k, f)
       /\ \E f \in Full(Length[k]) : ~Reported(n, k, f)

Safe ==
    /\ SlotIds
    /\ AirData
    /\ RxWhole
    /\ RxUnique
    /\ WindowDelivered
    /\ AcknowledgedWasReceived
    /\ NoAcknowledgedLoss
    /\ DeliveredWhole

SafetyInv == TypeInv /\ Numbered /\ Safe

\* What an ACK may do to an open datagram: only one without a failure can
\* acknowledge its last fragment, and that one completes it.
Harmless(ack) ==
    /\ ack.failure # "MALFORMED_INPUT"
    /\ ack.failure = "CREDIT_WITHDRAWAL" => 0 \notin ack.bitmap
    /\ ack.failure = "ALLOCATION_FAILURE" => ack.bitmap = {}

AcksHarmless ==
    \A n \in Node : /\ \A i \in DOMAIN pending[n] : Harmless(pending[n][i])
                    /\ air[n].type = "ACK" => Harmless(air[n].ack)

Unstuck == NeverStuck /\ AcksHarmless

LEMMA SoundIsAcknowledgedWasReceived ==
    AcknowledgedWasReceived <=> \A n \in Node : \A k \in Payload : Sound(n, k)
    BY DEF AcknowledgedWasReceived, Sound

LEMMA PeerIsOther == ASSUME NEW n \in Node, NEW m \in Node, m # n
                     PROVE  m = Peer(n)
    BY DEF Node, Peer

----------------------------------------------------------------------------
\* What a step may do to reports and deliveries

\* A step that reports nothing new and keeps what the peer holds keeps Sound.
LEMMA StableSound ==
    ASSUME NEW n \in Node, NEW k \in Payload, Sound(n, k),
           {k} \in DeliveredAt(Peer(n)) => ({k} \in DeliveredAt(Peer(n)))',
           \A f \in Frag : Reported(n, k, f)' => Reported(n, k, f),
           \A f \in Frag : Held(n, k, f) => Held(n, k, f)'
    PROVE  Sound(n, k)'
<1>1. CASE {k} \in DeliveredAt(Peer(n))
    BY <1>1 DEF Sound
<1>2. CASE {k} \notin DeliveredAt(Peer(n))
    <2>1. \A f \in Frag : Reported(n, k, f) => Held(n, k, f)
        BY <1>2 DEF Sound
    <2>2. PICK f \in Full(Length[k]) : ~Reported(n, k, f)
        BY <1>2 DEF Sound
    <2>3. f \in Frag
        BY LengthIsDatagramLength, FullIsFrags
    <2>4. ~Reported(n, k, f)'
        BY <2>2, <2>3
    <2>5. \A g \in Frag : Reported(n, k, g)' => Held(n, k, g)'
        BY <2>1
    <2> QED
        BY <2>4, <2>5 DEF Sound
<1> QED
    BY <1>1, <1>2

\* Handing an item over adds it to what was delivered.
LEMMA DeliveredGrows ==
    ASSUME TypeOK, NEW n \in Node, NEW x,
           delivered' = [delivered EXCEPT ![n] = Append(@, x)]
    PROVE  /\ DeliveredAt(n)' = DeliveredAt(n) \cup {x}
           /\ \A m \in Node : m # n => DeliveredAt(m)' = DeliveredAt(m)
<1> DEFINE d == delivered[n]
           N == Len(d)
<1>1. d \in Seq(SUBSET (Payload \cup {NoData})) /\ delivered'[n] = Append(d, x)
      /\ \A m \in Node : m # n => delivered'[m] = delivered[m]
    BY DEF TypeOK
<1>2. N \in Nat /\ DOMAIN d = 1 .. N /\ DOMAIN Append(d, x) = 1 .. N + 1
    BY <1>1
<1>3. \A i \in 1 .. N : Append(d, x)[i] = d[i]
    BY <1>1
<1>4. Append(d, x)[N + 1] = x
    BY <1>1
<1> HIDE DEF d, N
<1>5. {Append(d, x)[i] : i \in 1 .. N + 1} = {d[i] : i \in 1 .. N} \cup {x}
    <2>1. 1 .. N + 1 = (1 .. N) \cup {N + 1}
        BY <1>2
    <2> QED
        BY <1>3, <1>4, <2>1
<1>6. DeliveredAt(n)' = DeliveredAt(n) \cup {x}
    BY <1>1, <1>2, <1>5 DEF DeliveredAt, d
<1> QED
    BY <1>1, <1>6 DEF DeliveredAt

\* The ACK queue after enqueueAck: the new ACK and some of the old ones.
LEMMA EnqueueAckMembers ==
    ASSUME NEW queue \in Seq(Ack), NEW ack \in Ack
    PROVE  \A i \in DOMAIN EnqueueAck(queue, ack) :
               \/ EnqueueAck(queue, ack)[i] = ack
               \/ \E j \in DOMAIN queue : EnqueueAck(queue, ack)[i] = queue[j]
<1>1. CASE \E i \in DOMAIN queue : queue[i].id = ack.id
    BY <1>1 DEF EnqueueAck
<1>2. CASE ~(\E i \in DOMAIN queue : queue[i].id = ack.id) /\ Len(queue) < AckCapacity
    <2>1. EnqueueAck(queue, ack) = Append(queue, ack)
        BY <1>2 DEF EnqueueAck
    <2>2. DOMAIN Append(queue, ack) = 1 .. Len(queue) + 1 /\ DOMAIN queue = 1 .. Len(queue)
        OBVIOUS
    <2>3. \A i \in 1 .. Len(queue) : Append(queue, ack)[i] = queue[i]
        OBVIOUS
    <2>4. Append(queue, ack)[Len(queue) + 1] = ack
        OBVIOUS
    <2> QED
        BY <2>1, <2>2, <2>3, <2>4
<1>3. CASE ~(\E i \in DOMAIN queue : queue[i].id = ack.id) /\ ~(Len(queue) < AckCapacity)
    BY <1>3 DEF EnqueueAck
<1> QED
    BY <1>1, <1>2, <1>3

\* sendPendingAck moves ACKs of the queue to the hop and loses some.
LEMMA SendPendingAckMembers ==
    ASSUME TypeOK, NEW n \in Node, NEW buffers \in [Node -> Packet],
           NEW queue \in Seq(Ack), SendPendingAck(n, buffers, queue)
    PROVE  /\ \A i \in DOMAIN pending'[n] : \E j \in DOMAIN queue : pending'[n][i] = queue[j]
           /\ pending'[Peer(n)] = pending[Peer(n)]
           /\ air'[n] = buffers[n]
           /\ \/ air'[Peer(n)] = buffers[Peer(n)]
              \/ \E j \in DOMAIN queue :
                    air'[Peer(n)] = [type |-> "ACK", ack |-> queue[j]]
<1>0. Peer(n) \in Node /\ Peer(n) # n /\ pending \in [Node -> Seq(Ack)]
    BY PeerIsNode DEF TypeOK
<1>1. CASE queue # <<>> /\ Transmit(n, buffers, [type |-> "ACK", ack |-> Head(queue)])
           /\ pending' = [pending EXCEPT ![n] = Tail(queue)]
    <2>1. 1 \in DOMAIN queue /\ Head(queue) = queue[1]
        BY <1>1
    <2>2. \A i \in DOMAIN Tail(queue) : i + 1 \in DOMAIN queue /\ Tail(queue)[i] = queue[i + 1]
        BY <1>1
    <2>3. pending'[n] = Tail(queue) /\ pending'[Peer(n)] = pending[Peer(n)]
        BY <1>0, <1>1
    <2>4. air'[n] = buffers[n] /\ (air'[Peer(n)] = buffers[Peer(n)]
              \/ air'[Peer(n)] = [type |-> "ACK", ack |-> Head(queue)])
        BY <1>0, <1>1 DEF Transmit
    <2> QED
        BY <2>1, <2>2, <2>3, <2>4
<1>2. CASE air' = buffers /\ pending' = [pending EXCEPT ![n] = queue]
    BY <1>0, <1>2
<1> QED
    BY <1>1, <1>2 DEF SendPendingAck

\* When a receiver n queues and sends ACKs, its peer can learn no more than
\* before and what the one ACK it may have added reports; nothing else on the hop changes.
LEMMA ReceiverReports ==
    ASSUME TypeOK, NEW n \in Node, NEW buffers \in [Node -> Packet],
           buffers[n] \in {air[n], NoPacket}, buffers[Peer(n)] = air[Peer(n)],
           NEW queue \in Seq(Ack), NEW ack,
           \A j \in DOMAIN queue :
               queue[j] = ack \/ \E i \in DOMAIN pending[n] : queue[j] = pending[n][i],
           SendPendingAck(n, buffers, queue), UNCHANGED tx
    PROVE  /\ \A k \in Payload : \A f \in Frag :
                  Reported(Peer(n), k, f)' =>
                      Reported(Peer(n), k, f) \/ Reports(ack, k, f)
           /\ \A k \in Payload : \A f \in Frag : Reported(n, k, f)' => Reported(n, k, f)
           /\ AirData => AirData'
<1>1. /\ \A i \in DOMAIN pending'[n] : \E j \in DOMAIN queue : pending'[n][i] = queue[j]
      /\ pending'[Peer(n)] = pending[Peer(n)]
      /\ air'[n] = buffers[n]
      /\ \/ air'[Peer(n)] = buffers[Peer(n)]
         \/ \E j \in DOMAIN queue : air'[Peer(n)] = [type |-> "ACK", ack |-> queue[j]]
    BY SendPendingAckMembers
<1>2. Peer(n) \in Node /\ Peer(n) # n /\ Peer(Peer(n)) = n
    BY PeerIsNode
<1>3. ASSUME NEW k \in Payload, NEW f \in Frag, Reported(Peer(n), k, f)'
      PROVE  Reported(Peer(n), k, f) \/ Reports(ack, k, f)
    <2>1. CASE \E s \in TxIn(tx'[Peer(n)], "OPEN") :
                   tx'[Peer(n)][s].data = k /\ f \in tx'[Peer(n)][s].acked
        BY <2>1 DEF Reported
    <2>2. CASE \E i \in DOMAIN pending'[n] : Reports(pending'[n][i], k, f)
        <3>1. PICK j \in DOMAIN queue : Reports(queue[j], k, f)
            BY <1>1, <2>2
        <3> QED
            BY <3>1, <1>2 DEF Reported
    <2>3. CASE air'[Peer(n)].type = "ACK" /\ Reports(air'[Peer(n)].ack, k, f)
        <3>1. CASE air'[Peer(n)] = air[Peer(n)]
            BY <2>3, <3>1 DEF Reported
        <3>2. CASE \E j \in DOMAIN queue : air'[Peer(n)] = [type |-> "ACK", ack |-> queue[j]]
            <4>1. PICK j \in DOMAIN queue : Reports(queue[j], k, f)
                BY <2>3, <3>2
            <4> QED
                BY <4>1, <1>2 DEF Reported
        <3> QED
            BY <1>1, <3>1, <3>2
    <2> QED
        BY <1>2, <1>3, <2>1, <2>2, <2>3 DEF Reported
<1>4. ASSUME NEW k \in Payload, NEW f \in Frag, Reported(n, k, f)'
      PROVE  Reported(n, k, f)
    <2>1. air'[n].type = "ACK" => air'[n] = air[n]
        BY <1>1 DEF NoPacket
    <2> QED
        BY <1>1, <1>4, <2>1 DEF Reported
<1>5. ASSUME AirData PROVE AirData'
    <2>1. ASSUME NEW m \in Node, air'[m].type = "DATA" PROVE air'[m] = air[m]
        <3>1. CASE m = n
            BY <1>1, <2>1, <3>1 DEF NoPacket
        <3>2. CASE m # n
            <4>1. m = Peer(n)
                BY <3>2, PeerIsOther
            <4>2. air'[Peer(n)].type = "DATA"
                BY <2>1, <4>1
            <4>3. \A a : [type |-> "ACK", ack |-> a].type # "DATA"
                OBVIOUS
            <4>4. air'[Peer(n)] = buffers[Peer(n)]
                BY <1>1, <4>2, <4>3
            <4> QED
                BY <4>1, <4>4
        <3> QED
            BY <3>1, <3>2
    <2> QED
        BY <1>5, <2>1 DEF AirData
<1> QED
    BY <1>3, <1>4, <1>5

\* The queue queueAck builds consists of its ACK and of what was queued.
LEMMA QueueAckReports ==
    ASSUME TypeOK, NEW n \in Node, NEW ack \in Ack, QueueAck(n, ack), UNCHANGED tx
    PROVE  /\ \A k \in Payload : \A f \in Frag :
                  Reported(Peer(n), k, f)' => Reported(Peer(n), k, f) \/ Reports(ack, k, f)
           /\ \A k \in Payload : \A f \in Frag : Reported(n, k, f)' => Reported(n, k, f)
           /\ AirData => AirData'
<1> DEFINE queue == EnqueueAck(pending[n], ack)
<1>1. pending[n] \in Seq(Ack) /\ queue \in Seq(Ack)
    BY EnqueueAckType DEF TypeOK
<1>2. \A j \in DOMAIN queue :
          queue[j] = ack \/ \E i \in DOMAIN pending[n] : queue[j] = pending[n][i]
    BY <1>1, EnqueueAckMembers
<1>3. Taken(n) \in [Node -> Packet] /\ Taken(n)[n] = NoPacket /\ Taken(n)[Peer(n)] = air[Peer(n)]
    BY TakenType, PeerIsNode DEF Taken, TypeOK
<1>4. SendPendingAck(n, Taken(n), queue)
    BY DEF QueueAck
<1> HIDE DEF queue
<1>5. /\ \A k \in Payload : \A f \in Frag :
             Reported(Peer(n), k, f)' =>
                 Reported(Peer(n), k, f) \/ Reports(ack, k, f)
      /\ \A k \in Payload : \A f \in Frag : Reported(n, k, f)' => Reported(n, k, f)
      /\ AirData => AirData'
    <2> DEFINE buffers == Taken(n)
    <2>1. buffers \in [Node -> Packet] /\ buffers[n] \in {air[n], NoPacket}
          /\ buffers[Peer(n)] = air[Peer(n)] /\ SendPendingAck(n, buffers, queue)
        BY <1>3, <1>4
    <2> HIDE DEF buffers
    <2> QED
        BY <1>1, <1>2, <2>1, ReceiverReports
<1> QED
    BY <1>5

\* An ACK that reports nothing.
Silent == AckOf(0, {}, 0, "CREDIT_WITHDRAWAL")

\* With no new ACK, no one learns anything.
LEMMA FlushReports ==
    ASSUME TypeOK, NEW n \in Node, NEW buffers \in [Node -> Packet],
           buffers[n] \in {air[n], NoPacket}, buffers[Peer(n)] = air[Peer(n)],
           SendPendingAck(n, buffers, pending[n]), UNCHANGED tx
    PROVE  /\ \A m \in Node : \A k \in Payload : \A f \in Frag :
                  Reported(m, k, f)' => Reported(m, k, f)
           /\ AirData => AirData'
<1>1. pending[n] \in Seq(Ack)
    BY DEF TypeOK
<1>2. \A j \in DOMAIN pending[n] :
          pending[n][j] = Silent \/ \E i \in DOMAIN pending[n] : pending[n][j] = pending[n][i]
    OBVIOUS
<1>3. /\ \A k \in Payload : \A f \in Frag :
             Reported(Peer(n), k, f)' =>
                 Reported(Peer(n), k, f) \/ Reports(Silent, k, f)
      /\ \A k \in Payload : \A f \in Frag : Reported(n, k, f)' => Reported(n, k, f)
      /\ AirData => AirData'
    BY <1>1, <1>2, ReceiverReports
<1>4. \A k, f : ~Reports(Silent, k, f)
    BY DEF Reports, Silent, AckOf
<1> QED
    BY <1>3, <1>4, PeerIsOther

----------------------------------------------------------------------------
\* Steps of the receiving side

LEMMA StoreEntries ==
    ASSUME NEW w \in Window(Frag), NEW id \in Id, NEW bitmap \in SUBSET Frag
    PROVE  \A e \in Store(w, id, bitmap).acks : e.id = id \/ e \in w.acks
    BY DEF Store, Prune

LEMMA WholeByItem ==
    DeliveredWhole <=> \A n \in Node : \A x \in DeliveredAt(n) : \E k \in Payload : x = {k}
<1>1. ASSUME DeliveredWhole, NEW n \in Node, NEW x \in DeliveredAt(n)
      PROVE  \E k \in Payload : x = {k}
    <2>1. PICK i \in DOMAIN delivered[n] : x = delivered[n][i]
        BY <1>1 DEF DeliveredAt
    <2> QED
        BY <1>1, <2>1 DEF DeliveredWhole
<1>2. ASSUME \A n \in Node : \A x \in DeliveredAt(n) : \E k \in Payload : x = {k},
             NEW n \in Node, NEW i \in DOMAIN delivered[n]
      PROVE  \E k \in Payload : delivered[n][i] = {k}
    <2>1. delivered[n][i] \in DeliveredAt(n)
        BY DEF DeliveredAt
    <2> QED
        BY <1>2, <2>1
<1> QED
    BY <1>1, <1>2 DEF DeliveredWhole

\* A complete reassembly holds one datagram's bytes.
LEMMA SourcesOfWhole ==
    ASSUME NEW slot \in RxDatagram, WholeSlot(slot), Complete(slot)
    PROVE  Sources(slot) = {slot.id}
<1>1. slot.length \in DatagramLength
    BY LengthIsDatagramLength DEF WholeSlot
<1>2. Full(slot.length) \subseteq Frag /\ 0 \in Full(slot.length)
    BY <1>1, FullIsFrags
<1>3. \A f \in Full(slot.length) : slot.got[f] = slot.id
    BY <1>2 DEF WholeSlot, Complete, Received
<1> QED
    BY <1>2, <1>3 DEF Sources

\* The room left in the egress queue is a natural number, and so is what remains
\* of it after one more datagram.
LEMMA EgressType ==
    ASSUME TypeOK, NEW n \in Node
    PROVE  Egress(n) \in Nat /\ (Egress(n) > 0 => Egress(n) - 1 \in Nat)
<1>1. rxQueue[n] \in 0 .. RxQueueDepth
    BY DEF TypeOK
<1> QED
    BY <1>1, LinkAssumption DEF Egress

\* Handing a complete datagram over, remembering and acknowledging it.
LEMMA CompleteRxSlotSafe ==
    ASSUME TypeInv, Safe, NEW n \in Node, NEW s \in RxSlot,
           NEW slots \in [RxSlot -> RxDatagram], NEW buffers \in [Node -> Packet],
           buffers[n] \in {air[n], NoPacket}, buffers[Peer(n)] = air[Peer(n)],
           Complete(slots[s]), WholeSlot(slots[s]),
           \A t \in RxSlot : t # s => slots[t] = rx[n][t],
           \A t \in RxSlot : t # s /\ rx[n][t].active => rx[n][t].id # slots[s].id,
           rx[n][s].active => rx[n][s].id = slots[s].id,
           Egress(n) > 0, CompleteRxSlot(n, s, slots, buffers), UNCHANGED sender
    PROVE  Safe'
<1> DEFINE k0 == slots[s].id
           ack == AckOf(k0, Full(slots[s].length),
                        CurrentCredits(slots, Egress(n) - 1), "NONE")
           queue == EnqueueAck(pending[n], ack)
<1>0. UNCHANGED <<tx, completed>> /\ TypeOK /\ k0 \in Payload /\ k0 \in Id
    BY DEF sender, TypeInv, WholeSlot, RxDatagram
<1>1. Sources(slots[s]) = {k0}
    BY SourcesOfWhole
<1>2. DeliveredAt(n)' = DeliveredAt(n) \cup {{k0}}
      /\ \A m \in Node : m # n => DeliveredAt(m)' = DeliveredAt(m)
    <2>1. delivered' = [delivered EXCEPT ![n] = Append(@, {k0})]
        BY <1>1 DEF CompleteRxSlot
    <2> HIDE DEF k0
    <2> QED
        BY <1>0, <2>1, DeliveredGrows
<1>3. ack \in Ack
    <2>1. Full(slots[s].length) \in SUBSET Frag
        BY ReceivedType
    <2>2. Egress(n) - 1 \in Nat
        BY <1>0, EgressType
    <2> QED
        BY <1>0, <2>1, <2>2, CreditsType, AckOfType DEF Failure
<1>4. pending[n] \in Seq(Ack) /\ queue \in Seq(Ack)
    BY <1>0, <1>3, EnqueueAckType DEF TypeOK
<1>5. \A j \in DOMAIN queue :
          queue[j] = ack \/ \E i \in DOMAIN pending[n] : queue[j] = pending[n][i]
    BY <1>3, <1>4, EnqueueAckMembers
<1>6. SendPendingAck(n, buffers, queue)
    BY DEF CompleteRxSlot
<1>7. ack.id = k0
    BY DEF AckOf
<1>8. /\ rx'[n][s] = EmptyRx
      /\ \A t \in RxSlot : t # s => rx'[n][t] = rx[n][t]
      /\ \A m \in Node : m # n => rx'[m] = rx[m]
    BY <1>0 DEF CompleteRxSlot, TypeOK
<1>9. \A e \in window'[n].acks : e.id = k0 \/ e \in window[n].acks
    <2>1. window'[n] = Store(window[n], k0, Full(slots[s].length))
        BY <1>0 DEF CompleteRxSlot, TypeOK
    <2>2. window[n] \in Window(Frag) /\ Full(slots[s].length) \in SUBSET Frag
        BY <1>0, ReceivedType DEF TypeOK
    <2> QED
        BY <1>0, <2>1, <2>2, StoreEntries
<1>10. \A m \in Node : m # n => window'[m] = window[m]
    BY <1>0 DEF CompleteRxSlot, TypeOK
<1>11. ~EmptyRx.active
    BY DEF EmptyRx
<1> HIDE DEF k0, ack, queue
<1>12. /\ \A k \in Payload : \A f \in Frag :
              Reported(Peer(n), k, f)' => Reported(Peer(n), k, f) \/ Reports(ack, k, f)
       /\ \A k \in Payload : \A f \in Frag : Reported(n, k, f)' => Reported(n, k, f)
       /\ AirData => AirData'
    BY <1>0, <1>4, <1>5, <1>6, ReceiverReports
<1>13. SlotIds' /\ AirData'
    BY <1>0, <1>12 DEF Safe, SlotIds
<1>14. RxWhole' /\ RxUnique'
    <2>1. ASSUME NEW m \in Node, NEW t \in RxSlot, rx'[m][t].active
          PROVE  rx'[m][t] = rx[m][t]
        BY <1>8, <1>11, <2>1
    <2> QED
        BY <2>1 DEF Safe, RxWhole, RxUnique, WholeSlot, Received
<1>15. WindowDelivered'
    BY <1>2, <1>9, <1>10 DEF Safe, WindowDelivered
<1>16. NoAcknowledgedLoss' /\ DeliveredWhole'
    <2>1. \A m \in Node : DeliveredAt(m) \subseteq DeliveredAt(m)'
        BY <1>2
    <2>2. NoAcknowledgedLoss'
        BY <1>0, <2>1, PeerIsNode DEF Safe, NoAcknowledgedLoss
    <2>3. \A m \in Node : \A x \in DeliveredAt(m)' : \E k \in Payload : x = {k}
        <3>1. \A m \in Node : \A x \in DeliveredAt(m) : \E k \in Payload : x = {k}
            BY WholeByItem DEF Safe
        <3> QED
            BY <1>0, <1>2, <3>1
    <2>4. DeliveredWhole'
        <3>1. ASSUME NEW m \in Node, NEW i \in DOMAIN delivered'[m]
              PROVE  \E k \in Payload : delivered'[m][i] = {k}
            <4>1. delivered'[m][i] \in DeliveredAt(m)'
                BY DEF DeliveredAt
            <4> QED
                BY <2>3, <4>1
        <3> QED
            BY <3>1 DEF DeliveredWhole
    <2> QED
        BY <2>2, <2>4
<1>17. ASSUME NEW m \in Node, NEW k \in Payload PROVE Sound(m, k)'
    <2>0. Sound(m, k)
        BY SoundIsAcknowledgedWasReceived DEF Safe
    <2>1. CASE m = n
        <3>1. \A f \in Frag : Held(m, k, f) => Held(m, k, f)'
            BY <1>8, <2>1, PeerIsNode DEF Held, Received
        <3>2. {k} \in DeliveredAt(Peer(m)) => ({k} \in DeliveredAt(Peer(m)))'
            BY <1>2, PeerIsNode
        <3> QED
            BY <1>12, <2>0, <2>1, <3>1, <3>2, StableSound
    <2>2. CASE m # n /\ k = k0
        <3>1. Peer(m) = n
            BY <2>2, PeerIsOther
        <3> QED
            BY <1>2, <2>2, <3>1 DEF Sound
    <2>3. CASE m # n /\ k # k0
        <3>1. Peer(m) = n /\ m = Peer(n)
            BY <2>3, PeerIsOther
        <3>2. \A f \in Frag : Held(m, k, f) => Held(m, k, f)'
            <4>1. ASSUME NEW t \in RxSlot, rx[n][t].active, rx[n][t].id = k
                  PROVE  rx'[n][t] = rx[n][t]
                BY <1>8, <2>3, <4>1 DEF k0
            <4> QED
                BY <3>1, <4>1 DEF Held, Received
        <3>3. \A f \in Frag : ~Reports(ack, k, f)
            BY <1>7, <2>3 DEF Reports
        <3>4. \A f \in Frag : Reported(m, k, f)' => Reported(m, k, f)
            BY <1>12, <3>1, <3>3
        <3>5. {k} \in DeliveredAt(Peer(m)) => ({k} \in DeliveredAt(Peer(m)))'
            BY <1>2, PeerIsNode
        <3> QED
            BY <2>0, <3>2, <3>4, <3>5, StableSound
    <2> QED
        BY <2>1, <2>2, <2>3
<1>18. AcknowledgedWasReceived'
    BY <1>17 DEF AcknowledgedWasReceived, Sound
<1> QED
    BY <1>13, <1>14, <1>15, <1>16, <1>18 DEF Safe

\* A fragment put into slot s, acknowledged or not.  The ACK reports nothing, or
\* what the slot holds of a datagram that is not complete.
LEMMA StoredSafe ==
    ASSUME TypeInv, Safe, NEW n \in Node, NEW s \in RxSlot, NEW slot \in RxDatagram, NEW ack,
           slot.active, WholeSlot(slot),
           \A t \in RxSlot : t # s /\ rx[n][t].active => rx[n][t].id # slot.id,
           rx[n][s].active => /\ rx[n][s].id = slot.id
                              /\ Received(rx[n][s]) \subseteq Received(slot),
           rx' = [rx EXCEPT ![n] = [rx[n] EXCEPT ![s] = slot]],
           \A k \in Payload : \A f \in Frag :
               Reported(Peer(n), k, f)' => Reported(Peer(n), k, f) \/ Reports(ack, k, f),
           \A k \in Payload : \A f \in Frag : Reported(n, k, f)' => Reported(n, k, f),
           AirData',
           \/ \A k \in Payload : \A f \in Frag : ~Reports(ack, k, f)
           \/ /\ ack.id = slot.id /\ ack.bitmap = Received(slot)
              /\ ~(Full(slot.length) \subseteq Received(slot)),
           UNCHANGED <<tx, completed, window, delivered>>
    PROVE  Safe'
<1>0. TypeOK /\ rx \in [Node -> [RxSlot -> RxDatagram]] /\ slot.id \in Payload
    BY DEF TypeInv, TypeOK, WholeSlot
<1>1. /\ rx'[n][s] = slot
      /\ \A t \in RxSlot : t # s => rx'[n][t] = rx[n][t]
      /\ \A m \in Node : m # n => rx'[m] = rx[m]
    BY <1>0
<1>2. SlotIds' /\ AirData' /\ WindowDelivered' /\ NoAcknowledgedLoss' /\ DeliveredWhole'
    <2>1. SlotIds' /\ AirData'
        BY DEF Safe, SlotIds
    <2>2. WindowDelivered' /\ NoAcknowledgedLoss'
        <3>1. \A m \in Node : DeliveredAt(m)' = DeliveredAt(m)
            BY DEF DeliveredAt
        <3>2. \A m \in Node : DeliveredAt(Peer(m))' = DeliveredAt(Peer(m))
            BY <3>1, PeerIsNode
        <3> QED
            BY <3>1, <3>2 DEF Safe, WindowDelivered, NoAcknowledgedLoss
    <2>3. DeliveredWhole'
        BY DEF Safe, DeliveredWhole
    <2> QED
        BY <2>1, <2>2, <2>3
<1>3. RxWhole'
    <2>1. ASSUME NEW m \in Node, NEW t \in RxSlot, rx'[m][t].active
          PROVE  WholeSlot(rx'[m][t])
        <3>1. CASE m = n /\ t = s
            BY <1>1, <3>1
        <3>2. CASE ~(m = n /\ t = s)
            <4>1. rx'[m][t] = rx[m][t]
                BY <1>1, <3>2
            <4> QED
                BY <2>1, <4>1 DEF Safe, RxWhole
        <3> QED
            BY <3>1, <3>2
    <2> QED
        BY <2>1 DEF RxWhole, WholeSlot, Received
<1>4. RxUnique'
    <2>1. ASSUME NEW m \in Node, NEW t \in RxSlot, NEW u \in RxSlot,
                 rx'[m][t].active, rx'[m][u].active, rx'[m][t].id = rx'[m][u].id
          PROVE  t = u
        <3>1. CASE m # n \/ (t # s /\ u # s)
            <4>1. rx'[m][t] = rx[m][t] /\ rx'[m][u] = rx[m][u]
                BY <1>1, <3>1
            <4> QED
                BY <2>1, <4>1 DEF Safe, RxUnique
        <3>2. CASE m = n /\ t = s /\ u # s
            BY <1>1, <2>1, <3>2
        <3>3. CASE m = n /\ t # s /\ u = s
            BY <1>1, <2>1, <3>3
        <3>4. CASE m = n /\ t = s /\ u = s
            BY <3>4
        <3> QED
            BY <3>1, <3>2, <3>3, <3>4
    <2> QED
        BY <2>1 DEF RxUnique
<1>5. ASSUME NEW m \in Node, NEW k \in Payload PROVE Sound(m, k)'
    <2>0. Sound(m, k) /\ DeliveredAt(Peer(m))' = DeliveredAt(Peer(m))
        BY SoundIsAcknowledgedWasReceived DEF Safe, DeliveredAt
    <2>1. CASE m = n
        <3>1. \A f \in Frag : Held(m, k, f) => Held(m, k, f)'
            BY <1>1, <2>1, PeerIsNode DEF Held, Received
        <3> QED
            BY <2>0, <2>1, <3>1, StableSound
    <2>2. CASE m # n
        <3>1. Peer(m) = n /\ m = Peer(n)
            BY <2>2, PeerIsOther
        <3>2. \A f \in Frag : Held(m, k, f) => Held(m, k, f)'
            <4>1. ASSUME NEW f \in Frag, NEW t \in RxSlot, rx[n][t].active, rx[n][t].id = k,
                         f \in Received(rx[n][t])
                  PROVE  rx'[n][t].active /\ rx'[n][t].id = k /\ f \in Received(rx'[n][t])
                <5>1. CASE t = s
                    BY <1>1, <4>1, <5>1
                <5>2. CASE t # s
                    BY <1>1, <4>1, <5>2
                <5> QED
                    BY <5>1, <5>2
            <4> QED
                BY <3>1, <4>1 DEF Held, Received
        <3>3. CASE \A f \in Frag : ~Reports(ack, k, f)
            <4>1. \A f \in Frag : Reported(m, k, f)' => Reported(m, k, f)
                BY <3>1, <3>3
            <4> QED
                BY <2>0, <3>2, <4>1, StableSound
        <3>4. CASE {k} \in DeliveredAt(Peer(m))
            BY <2>0, <3>4 DEF Sound
        <3>5. CASE /\ {k} \notin DeliveredAt(Peer(m)) /\ k = slot.id /\ ack.bitmap = Received(slot)
                   /\ ~(Full(slot.length) \subseteq Received(slot))
            <4>1. ASSUME NEW f \in Frag, Reported(m, k, f)' PROVE f \in Received(slot)
                <5>1. CASE Reports(ack, k, f)
                    BY <3>5, <5>1 DEF Reports
                <5>2. CASE Reported(m, k, f)
                    <6>1. Held(m, k, f)
                        BY <2>0, <3>5, <5>2 DEF Sound
                    <6>2. PICK t \in RxSlot : rx[n][t].active /\ rx[n][t].id = k
                                              /\ f \in Received(rx[n][t])
                        BY <3>1, <6>1 DEF Held
                    <6>3. t = s
                        BY <3>5, <6>2
                    <6> QED
                        BY <6>2, <6>3
                <5> QED
                    BY <3>1, <4>1, <5>1, <5>2
            <4>2. \A f \in Received(slot) : Held(m, k, f)'
                <5>1. rx'[n][s].active /\ rx'[n][s].id = k
                    BY <1>1, <3>5
                <5>2. \A f \in Received(slot) : f \in Received(rx[n][s])'
                    BY <1>1 DEF Received
                <5> QED
                    BY <3>1, <5>1, <5>2 DEF Held
            <4>3. \A f \in Full(Length[k]) : f \in Frag
                BY LengthIsDatagramLength, FullIsFrags
            <4>4. \E f \in Full(Length[k]) : ~Reported(m, k, f)'
                BY <3>5, <4>1, <4>3 DEF WholeSlot
            <4> QED
                BY <4>1, <4>2, <4>4 DEF Sound
        <3>6. CASE {k} \notin DeliveredAt(Peer(m)) /\ k # slot.id /\ ack.id = slot.id
            BY <3>3, <3>6 DEF Reports
        <3> QED
            BY <3>3, <3>4, <3>5, <3>6
    <2> QED
        BY <2>1, <2>2
<1>6. AcknowledgedWasReceived'
    BY <1>5 DEF AcknowledgedWasReceived, Sound
<1> QED
    BY <1>2, <1>3, <1>4, <1>6 DEF Safe

\* A reply that changes no reassembly, and reports nothing but a datagram that
\* was delivered.
LEMMA RepliedSafe ==
    ASSUME TypeInv, Safe, NEW n \in Node, NEW ack \in Ack, QueueAck(n, ack),
           \A k \in Payload : \A f \in Frag : Reports(ack, k, f) => {k} \in DeliveredAt(n),
           UNCHANGED <<tx, completed, rx, window, delivered>>
    PROVE  Safe'
<1>0. TypeOK /\ UNCHANGED tx
    BY DEF TypeInv
<1>1. /\ \A k \in Payload : \A f \in Frag :
             Reported(Peer(n), k, f)' => Reported(Peer(n), k, f) \/ Reports(ack, k, f)
      /\ \A k \in Payload : \A f \in Frag : Reported(n, k, f)' => Reported(n, k, f)
      /\ AirData => AirData'
    BY <1>0, QueueAckReports
<1>2. \A m \in Node : DeliveredAt(m)' = DeliveredAt(m) /\ DeliveredAt(Peer(m))' = DeliveredAt(Peer(m))
    BY DEF DeliveredAt
<1>3. SlotIds' /\ AirData' /\ RxWhole' /\ RxUnique'
    <2>1. SlotIds' /\ AirData'
        BY <1>1 DEF Safe, SlotIds
    <2>2. RxWhole' /\ RxUnique'
        BY DEF Safe, RxWhole, RxUnique, WholeSlot, Received
    <2> QED
        BY <2>1, <2>2
<1>4. WindowDelivered' /\ NoAcknowledgedLoss'
    BY <1>2 DEF Safe, WindowDelivered, NoAcknowledgedLoss
<1>5. DeliveredWhole'
    BY DEF Safe, DeliveredWhole
<1>6. ASSUME NEW m \in Node, NEW k \in Payload PROVE Sound(m, k)'
    <2>1. Sound(m, k) /\ \A f \in Frag : Held(m, k, f) => Held(m, k, f)'
        BY SoundIsAcknowledgedWasReceived DEF Safe, Held, Received
    <2>2. CASE {k} \in DeliveredAt(Peer(m))
        BY <1>2, <2>2 DEF Sound
    <2>3. CASE {k} \notin DeliveredAt(Peer(m))
        <3>1. \A f \in Frag : Reported(m, k, f)' => Reported(m, k, f)
            <4>1. CASE m = n
                BY <1>1, <4>1
            <4>2. CASE m # n
                <5>1. m = Peer(n) /\ Peer(m) = n
                    BY <4>2, PeerIsOther
                <5> QED
                    BY <1>1, <2>3, <5>1
            <4> QED
                BY <4>1, <4>2
        <3> QED
            BY <2>1, <2>3, <3>1, StableSound
    <2> QED
        BY <2>2, <2>3
<1>7. AcknowledgedWasReceived'
    BY <1>6 DEF AcknowledgedWasReceived, Sound
<1> QED
    BY <1>3, <1>4, <1>5, <1>7 DEF Safe

\* What acceptFragment makes of a slot and a fragment of its datagram.
LEMMA AcceptWhole ==
    ASSUME NEW slot \in RxDatagram, NEW p \in DataPacket, p.id = p.data, p.length = Length[p.id],
           slot.active => WholeSlot(slot) /\ slot.id = p.id
    PROVE  /\ Accept(slot, p).active /\ Accept(slot, p).id = p.id
           /\ WholeSlot(Accept(slot, p))
           /\ slot.active => Received(slot) \subseteq Received(Accept(slot, p))
<1>1. p.id \in Payload /\ p.index \in Frag /\ slot.got \in [Frag -> Payload \cup {NoData}]
    BY DEF DataPacket, RxDatagram
<1>3. CASE ~slot.active
    <2>1. Accept(slot, p) =
              [active |-> TRUE, waiting |-> FALSE, id |-> p.id, length |-> p.length,
               got |-> [[f \in Frag |-> NoData] EXCEPT ![p.index] = p.data]]
        BY <1>3 DEF Accept, EmptyRx
    <2>2. \A f \in Frag : Accept(slot, p).got[f] \in {NoData, p.id}
        BY <1>1, <2>1
    <2> QED
        BY <1>1, <1>3, <2>1, <2>2 DEF WholeSlot
<1>4. CASE slot.active /\ slot.got[p.index] # NoData
    BY <1>4 DEF Accept
<1>5. CASE slot.active /\ slot.got[p.index] = NoData
    <2>1. Accept(slot, p) = [slot EXCEPT !.got = [slot.got EXCEPT ![p.index] = p.data]]
        BY <1>5 DEF Accept
    <2>2. /\ Accept(slot, p).active /\ Accept(slot, p).id = slot.id
          /\ Accept(slot, p).length = slot.length /\ Accept(slot, p).waiting = slot.waiting
          /\ Accept(slot, p).got = [slot.got EXCEPT ![p.index] = p.data]
        BY <1>5, <2>1 DEF RxDatagram
    <2>3. \A f \in Frag : Accept(slot, p).got[f] \in {NoData, slot.id}
        BY <1>1, <1>5, <2>2 DEF WholeSlot
    <2>4. Received(slot) \subseteq Received(Accept(slot, p))
        BY <1>1, <1>5, <2>2 DEF Received
    <2> QED
        BY <1>5, <2>2, <2>3, <2>4 DEF WholeSlot
<1> QED
    BY <1>3, <1>4, <1>5

\* The slot a fragment goes to runs its datagram, or is free and no slot does: a
\* fragment never contradicts the reassembly it is for.
LEMMA FragmentSlot ==
    ASSUME TypeInv, Safe, NEW n \in Node, NEW p \in DataPacket, p.id \in Id,
           p.length = Length[p.id], SlotsFor(n, p.id) # {}
    PROVE  LET s == Least(SlotsFor(n, p.id))
           IN  /\ s \in RxSlot
               /\ rx[n][s] \in RxDatagram
               /\ rx[n][s].active => WholeSlot(rx[n][s]) /\ rx[n][s].id = p.id
               /\ \A t \in RxSlot : t # s /\ rx[n][t].active => rx[n][t].id # p.id
               /\ ~Mismatched(rx[n][s], p)
<1> DEFINE s == Least(SlotsFor(n, p.id))
           running == {t \in RxSlot : rx[n][t].active /\ rx[n][t].id = p.id}
<1>1. s \in RxSlot /\ s \in SlotsFor(n, p.id)
    BY SlotsForType
<1> HIDE DEF s
<1>2. rx[n][s] \in RxDatagram
    BY <1>1 DEF TypeInv, TypeOK
<1>3. CASE running # {}
    <2>1. rx[n][s].active /\ rx[n][s].id = p.id
        BY <1>1, <1>3 DEF SlotsFor
    <2>2. \A t \in RxSlot : t # s /\ rx[n][t].active => rx[n][t].id # p.id
        BY <1>1, <2>1 DEF Safe, RxUnique
    <2>3. WholeSlot(rx[n][s])
        BY <1>1, <2>1 DEF Safe, RxWhole
    <2>4. ~Mismatched(rx[n][s], p)
        BY <2>1, <2>3 DEF Mismatched, WholeSlot
    <2> QED
        BY <1>1, <1>2, <2>1, <2>2, <2>3, <2>4 DEF s
<1>4. CASE running = {}
    <2>1. ~rx[n][s].active
        BY <1>1, <1>4 DEF SlotsFor
    <2>2. ~Mismatched(rx[n][s], p)
        BY <2>1 DEF Mismatched
    <2> QED
        BY <1>1, <1>2, <1>4, <2>1, <2>2 DEF s
<1> QED
    BY <1>3, <1>4

LEMMA HandleDataSafe ==
    ASSUME TypeInv, Safe, NEW n \in Node, HandleData(n)
    PROVE  Safe'
<1> DEFINE p == air[n]
           s == Least(SlotsFor(n, p.id))
           slot == Accept(rx[n][s], p)
           slots == [rx[n] EXCEPT ![s] = slot]
<1>1. TypeOK /\ p \in DataPacket /\ p.id \in Id /\ p.id \in Payload
      /\ p.id = p.data /\ p.length = Length[p.id]
    <2>1. p \in DataPacket /\ p.type = "DATA"
        BY DEF TypeInv, TypeOK, HandleData, Packet, AckPacket, NoPacket, DataPacket
    <2> QED
        BY <2>1 DEF TypeInv, DataPacket, Safe, AirData
<1>2. UNCHANGED <<tx, completed>> /\ UNCHANGED sender
    BY DEF HandleData, sender
<1>3. Egress(n) \in Nat /\ CurrentCredits(rx[n], Egress(n)) \in 0 .. TxSlots
    <2>1. Egress(n) \in Nat
        BY <1>1, EgressType
    <2> QED
        BY <2>1, CreditsType
<1>4. CASE ReceiveDuplicate(n, p)
    <2> DEFINE ack == AckOf(p.id, StoredBitmap(window[n], p.id),
                            CurrentCredits(rx[n], Egress(n)), "NONE")
    <2>1. PICK e \in window[n].acks : e.id = p.id
        BY <1>4 DEF ReceiveDuplicate, Remembered
    <2>2. {p.id} \in DeliveredAt(n)
        BY <2>1 DEF Safe, WindowDelivered
    <2>3. StoredBitmap(window[n], p.id) \in SUBSET Frag
        BY <1>1, <2>1 DEF StoredBitmap, Window, TypeOK
    <2>4. ack \in Ack /\ ack.id = p.id
        BY <1>1, <1>3, <2>3, AckOfType DEF Failure, AckOf
    <2>5. QueueAck(n, ack) /\ UNCHANGED <<rx, window, delivered>>
        BY <1>4 DEF ReceiveDuplicate, receiver
    <2> HIDE DEF ack, p
    <2>6. \A k \in Payload : \A f \in Frag : Reports(ack, k, f) => {k} \in DeliveredAt(n)
        BY <2>2, <2>4 DEF Reports
    <2> QED
        BY <1>2, <2>4, <2>5, <2>6, RepliedSafe
<1>5. CASE RefuseFragment(n, p)
    <2> DEFINE ack == AckOf(p.id, {}, CurrentCredits(rx[n], Egress(n)), "ALLOCATION_FAILURE")
    <2>1. ack \in Ack /\ ack.bitmap = {}
        BY <1>1, <1>3, AckOfType DEF Failure, AckOf
    <2>2. QueueAck(n, ack) /\ UNCHANGED <<rx, window, delivered>>
        BY <1>5 DEF RefuseFragment, receiver
    <2> HIDE DEF ack, p
    <2>3. \A k \in Payload : \A f \in Frag : Reports(ack, k, f) => {k} \in DeliveredAt(n)
        BY <2>1 DEF Reports
    <2> QED
        BY <1>2, <2>1, <2>2, <2>3, RepliedSafe
<1>6. SlotsFor(n, p.id) # {} =>
          /\ s \in RxSlot
          /\ rx[n][s] \in RxDatagram
          /\ rx[n][s].active => WholeSlot(rx[n][s]) /\ rx[n][s].id = p.id
          /\ \A t \in RxSlot : t # s /\ rx[n][t].active => rx[n][t].id # p.id
          /\ ~Mismatched(rx[n][s], p)
    BY <1>1, FragmentSlot
<1>7. CASE RejectFragment(n, p)
    BY <1>6, <1>7 DEF RejectFragment
<1>8. CASE StoreFragment(n, p)
    <2>1. /\ s \in RxSlot
          /\ rx[n][s] \in RxDatagram
          /\ rx[n][s].active => WholeSlot(rx[n][s]) /\ rx[n][s].id = p.id
          /\ \A t \in RxSlot : t # s /\ rx[n][t].active => rx[n][t].id # p.id
        BY <1>6, <1>8 DEF StoreFragment
    <2> HIDE DEF p, s
    <2>2. /\ slot \in RxDatagram /\ slot.active /\ slot.id = p.id /\ WholeSlot(slot)
          /\ rx[n][s].active => Received(rx[n][s]) \subseteq Received(slot)
        BY <1>1, <2>1, AcceptType, AcceptWhole
    <2> HIDE DEF slot
    <2>3. rx[n] \in [RxSlot -> RxDatagram]
        BY <1>1 DEF TypeOK
    <2>4. slots \in [RxSlot -> RxDatagram] /\ slots[s] = slot
          /\ \A t \in RxSlot : t # s => slots[t] = rx[n][t]
        BY <2>1, <2>2, <2>3
    <2>5. Received(slot) \in SUBSET Frag
        BY <2>2, ReceivedType
    <2>9. /\ \A t \in RxSlot : t # s /\ rx[n][t].active => rx[n][t].id # slot.id
          /\ rx[n][s].active => /\ rx[n][s].id = slot.id
                                /\ Received(rx[n][s]) \subseteq Received(slot)
        BY <2>1, <2>2
    <2>6. CASE Complete(slots[s]) /\ Egress(n) > 0 /\ CompleteRxSlot(n, s, slots, Taken(n))
        <3>1. Taken(n) \in [Node -> Packet] /\ Taken(n)[n] = NoPacket
              /\ Taken(n)[Peer(n)] = air[Peer(n)]
            BY <1>1, TakenType, PeerIsNode DEF Taken, TypeOK
        <3> HIDE DEF slots
        <3> DEFINE buffers == Taken(n)
        <3>2. /\ buffers \in [Node -> Packet] /\ buffers[n] \in {air[n], NoPacket}
              /\ buffers[Peer(n)] = air[Peer(n)] /\ CompleteRxSlot(n, s, slots, buffers)
            BY <2>6, <3>1
        <3> HIDE DEF buffers
        <3>3. WholeSlot(slots[s]) /\ Complete(slots[s]) /\ slots[s].id = p.id
            BY <2>2, <2>4, <2>6
        <3> QED
            BY <1>2, <2>1, <2>4, <2>6, <3>2, <3>3, CompleteRxSlotSafe
    <2>7. CASE /\ Complete(slots[s])
               /\ rx' = [rx EXCEPT ![n] = [slots EXCEPT ![s].waiting = TRUE]]
               /\ QueueAck(n, BlockedAck(slots[s]))
               /\ UNCHANGED <<window, rxQueue, delivered>>
        <3> DEFINE held == [slot EXCEPT !.waiting = TRUE]
                   ack == BlockedAck(slot)
        <3>1. /\ held \in RxDatagram /\ held.active /\ held.id = p.id
              /\ held.got = slot.got /\ held.length = slot.length
            BY <2>2 DEF RxDatagram
        <3>2. Received(held) = Received(slot)
            BY <3>1 DEF Received
        <3>3. WholeSlot(held)
            BY <2>2, <2>4, <2>7, <3>1, <3>2 DEF WholeSlot, Complete
        <3>4. rx' = [rx EXCEPT ![n] = [rx[n] EXCEPT ![s] = held]]
            BY <2>1, <2>3, <2>4, <2>7
        <3>5. ack \in Ack /\ ack.failure = "CREDIT_WITHDRAWAL"
            <4>1. ack = AckOf(slot.id, Received(slot) \ {0}, 0, "CREDIT_WITHDRAWAL")
                BY DEF BlockedAck, WithdrawalAck
            <4>2. slot.id \in Id /\ 0 \in 0 .. TxSlots /\ "CREDIT_WITHDRAWAL" \in Failure
                BY <1>1, <2>2, LinkAssumption DEF Failure
            <4>3. Received(slot) \ {0} \in SUBSET Frag
                BY <2>5
            <4> HIDE DEF ack
            <4>4. ack \in Ack
                BY <4>1, <4>2, <4>3, AckOfType
            <4> QED
                BY <4>1, <4>4 DEF AckOf
        <3>6. QueueAck(n, ack)
            BY <2>4, <2>7
        <3> HIDE DEF held, ack
        <3>7. /\ \A k \in Payload : \A f \in Frag :
                     Reported(Peer(n), k, f)' => Reported(Peer(n), k, f) \/ Reports(ack, k, f)
              /\ \A k \in Payload : \A f \in Frag : Reported(n, k, f)' => Reported(n, k, f)
              /\ AirData => AirData'
            BY <1>1, <1>2, <3>5, <3>6, QueueAckReports
        <3>8. \A k \in Payload : \A f \in Frag : ~Reports(ack, k, f)
            BY <3>5 DEF Reports
        <3>9. AirData'
            BY <3>7 DEF Safe
        <3> QED
            <4>1. /\ \A t \in RxSlot : t # s /\ rx[n][t].active => rx[n][t].id # held.id
                  /\ rx[n][s].active => /\ rx[n][s].id = held.id
                                        /\ Received(rx[n][s]) \subseteq Received(held)
                BY <2>2, <2>9, <3>1, <3>2
            <4>2. UNCHANGED <<tx, completed, window, delivered>>
                BY <1>2, <2>7
            <4> QED
                BY <2>1, <3>1, <3>3, <3>4, <3>7, <3>8, <3>9, <4>1, <4>2, StoredSafe
    <2>8. CASE /\ ~Complete(slots[s])
               /\ rx' = [rx EXCEPT ![n] = slots]
               /\ IF p.roundEnd
                  THEN QueueAck(n, AckOf(p.id, Received(slots[s]),
                                         CurrentCredits(slots, Egress(n)), "NONE"))
                  ELSE SendPendingAck(n, Taken(n), pending[n])
               /\ UNCHANGED <<window, rxQueue, delivered>>
        <3> DEFINE ack == AckOf(p.id, Received(slot), CurrentCredits(slots, Egress(n)), "NONE")
        <3>1. ack \in Ack /\ ack.id = slot.id /\ ack.bitmap = Received(slot)
            BY <1>1, <1>3, <2>2, <2>5, CreditsType, AckOfType DEF Failure, AckOf
        <3>2. rx' = [rx EXCEPT ![n] = [rx[n] EXCEPT ![s] = slot]]
            BY <2>8
        <3>3. ~(Full(slot.length) \subseteq Received(slot))
            BY <2>2, <2>4, <2>8 DEF Complete
        <3>6. UNCHANGED <<tx, completed, window, delivered>>
            BY <1>2, <2>8
        <3>4. CASE p.roundEnd
            <4>1. QueueAck(n, ack)
                BY <2>4, <2>8, <3>4
            <4> HIDE DEF ack
            <4>2. /\ \A k \in Payload : \A f \in Frag :
                         Reported(Peer(n), k, f)' => Reported(Peer(n), k, f) \/ Reports(ack, k, f)
                  /\ \A k \in Payload : \A f \in Frag : Reported(n, k, f)' => Reported(n, k, f)
                  /\ AirData => AirData'
                BY <1>1, <1>2, <3>1, <4>1, QueueAckReports
            <4>3. AirData'
                BY <4>2 DEF Safe
            <4> QED
                BY <2>1, <2>2, <2>9, <3>1, <3>2, <3>3, <3>6, <4>2, <4>3, StoredSafe
        <3>5. CASE ~p.roundEnd
            <4> DEFINE buffers == Taken(n)
            <4>1. buffers \in [Node -> Packet] /\ buffers[n] = NoPacket
                  /\ buffers[Peer(n)] = air[Peer(n)]
                BY <1>1, TakenType, PeerIsNode DEF Taken, TypeOK
            <4>2. SendPendingAck(n, buffers, pending[n])
                BY <2>8, <3>5
            <4> HIDE DEF buffers, ack
            <4>3. /\ \A m \in Node : \A k \in Payload : \A f \in Frag :
                         Reported(m, k, f)' => Reported(m, k, f)
                  /\ AirData => AirData'
                BY <1>1, <1>2, <4>1, <4>2, FlushReports
            <4>4. AirData'
                BY <4>3 DEF Safe
            <4>5. Peer(n) \in Node
                BY PeerIsNode
            <4> QED
                <5>1. /\ \A k \in Payload : \A f \in Frag : Reported(Peer(n), k, f)' =>
                             Reported(Peer(n), k, f) \/ Reports(ack, k, f)
                      /\ \A k \in Payload : \A f \in Frag :
                             Reported(n, k, f)' => Reported(n, k, f)
                    BY <4>3, <4>5
                <5> QED
                    BY <2>1, <2>2, <2>9, <3>1, <3>2, <3>3, <3>6, <4>4, <5>1, StoredSafe
        <3> QED
            BY <3>4, <3>5
    <2> QED
        BY <1>8, <2>6, <2>7, <2>8 DEF StoreFragment, p, s, slot
<1> QED
    BY <1>4, <1>5, <1>7, <1>8 DEF HandleData

\* A held-back datagram is handed over by a tick.
LEMMA TickDeliverSafe ==
    ASSUME TypeInv, Safe, NEW n \in Node, TickDeliver(n)
    PROVE  Safe'
<1> DEFINE s == Least(Deliverable(n))
<1>1. TypeOK /\ rx[n] \in [RxSlot -> RxDatagram] /\ air \in [Node -> Packet]
    BY DEF TypeInv, TypeOK
<1>2. Deliverable(n) \subseteq Nat /\ Deliverable(n) # {}
    BY DEF TickDeliver, Deliverable, RxSlot
<1>3. s \in Deliverable(n)
    BY <1>2, LeastIsMember
<1>4. s \in RxSlot /\ rx[n][s].active /\ rx[n][s].waiting /\ Egress(n) > 0
    BY <1>3 DEF Deliverable
<1>5. CompleteRxSlot(n, s, rx[n], air) /\ UNCHANGED sender
    BY DEF TickDeliver
<1> HIDE DEF s
<1>6. WholeSlot(rx[n][s]) /\ Complete(rx[n][s])
    BY <1>4 DEF Safe, RxWhole, WholeSlot, Complete
<1>7. \A t \in RxSlot : t # s /\ rx[n][t].active => rx[n][t].id # rx[n][s].id
    BY <1>4 DEF Safe, RxUnique
<1> DEFINE slots == rx[n]
<1>8. /\ slots \in [RxSlot -> RxDatagram]
      /\ \A t \in RxSlot : t # s => slots[t] = rx[n][t]
      /\ CompleteRxSlot(n, s, slots, air)
      /\ WholeSlot(slots[s]) /\ Complete(slots[s])
      /\ \A t \in RxSlot : t # s /\ rx[n][t].active => rx[n][t].id # slots[s].id
      /\ rx[n][s].active => rx[n][s].id = slots[s].id
    BY <1>1, <1>5, <1>6, <1>7
<1> HIDE DEF slots
<1> QED
    BY <1>1, <1>4, <1>5, <1>8, CompleteRxSlotSafe

----------------------------------------------------------------------------
\* Steps of the sending side

\* A step that changes no reassembly and reports nothing new.
LEMMA SenderSafe ==
    ASSUME TypeInv, Safe, NEW n \in Node, SlotIds', AirData', NoAcknowledgedLoss',
           \A k \in Payload : \A f \in Frag : Reported(n, k, f)' => Reported(n, k, f),
           \A k \in Payload : \A f \in Frag :
               Reported(Peer(n), k, f)' => Reported(Peer(n), k, f),
           UNCHANGED <<rx, window, delivered>>
    PROVE  Safe'
<1>1. \A m \in Node : DeliveredAt(m)' = DeliveredAt(m) /\ DeliveredAt(Peer(m))' = DeliveredAt(Peer(m))
    BY DEF DeliveredAt
<1>2. RxWhole' /\ RxUnique'
    BY DEF Safe, RxWhole, RxUnique, WholeSlot, Received
<1>3. WindowDelivered' /\ DeliveredWhole'
    <2>1. WindowDelivered'
        BY <1>1 DEF Safe, WindowDelivered
    <2>2. DeliveredWhole'
        BY DEF Safe, DeliveredWhole
    <2> QED
        BY <2>1, <2>2
<1>4. ASSUME NEW m \in Node, NEW k \in Payload PROVE Sound(m, k)'
    <2>1. Sound(m, k) /\ \A f \in Frag : Held(m, k, f) => Held(m, k, f)'
        BY SoundIsAcknowledgedWasReceived DEF Safe, Held, Received
    <2>2. \A f \in Frag : Reported(m, k, f)' => Reported(m, k, f)
        BY PeerIsOther
    <2> QED
        BY <1>1, <2>1, <2>2, StableSound
<1>5. AcknowledgedWasReceived'
    BY <1>4 DEF AcknowledgedWasReceived, Sound
<1> QED
    BY <1>2, <1>3, <1>5 DEF Safe

\* No datagram is completed by a step that changes neither `completed` nor what
\* was delivered.
LEMMA UndecidedSafe ==
    ASSUME Safe, UNCHANGED <<completed, delivered>>
    PROVE  NoAcknowledgedLoss'
<1>1. \A m \in Node : DeliveredAt(Peer(m))' = DeliveredAt(Peer(m))
    BY DEF DeliveredAt
<1> QED
    BY <1>1 DEF Safe, NoAcknowledgedLoss

\* Whoever's buffer is emptied or left alone learns nothing.
LEMMA TakenReports ==
    ASSUME TypeOK, Safe, NEW n \in Node, air' \in {air, Taken(n)}, pending' = pending, tx' = tx
    PROVE  /\ AirData'
           /\ \A m \in Node : \A k \in Payload : \A f \in Frag :
                  Reported(m, k, f)' => Reported(m, k, f)
<1>1. \A m \in Node : air'[m] = air[m] \/ air'[m] = NoPacket
    BY DEF Taken, TypeOK
<1>2. NoPacket.type # "DATA" /\ NoPacket.type # "ACK"
    BY DEF NoPacket
<1>3. AirData'
    BY <1>1, <1>2 DEF Safe, AirData
<1>4. ASSUME NEW m \in Node, NEW k \in Payload, NEW f \in Frag, Reported(m, k, f)'
      PROVE  Reported(m, k, f)
    <2>1. air'[m].type = "ACK" => air'[m] = air[m]
        BY <1>1, <1>2
    <2> QED
        BY <1>4, <2>1 DEF Reported
<1> QED
    BY <1>3, <1>4

LEMMA NoPacketEventSafe ==
    ASSUME TypeInv, Safe, NEW n \in Node, NoPacketEvent(n)
    PROVE  Safe'
<1>1. UNCHANGED <<tx, pending, completed, rx, window, delivered>> /\ air' \in {air, Taken(n)}
    BY DEF NoPacketEvent, sender, receiver
<1>2. TypeOK
    BY DEF TypeInv
<1>3. /\ AirData'
      /\ \A m \in Node : \A k \in Payload : \A f \in Frag :
             Reported(m, k, f)' => Reported(m, k, f)
    BY <1>1, <1>2, TakenReports
<1>4. NoAcknowledgedLoss' /\ SlotIds'
    <2>1. NoAcknowledgedLoss'
        BY <1>1, UndecidedSafe
    <2>2. SlotIds'
        BY <1>1 DEF Safe, SlotIds
    <2> QED
        BY <2>1, <2>2
<1> QED
    BY <1>1, <1>3, <1>4, PeerIsNode, SenderSafe

LEMMA TickAckSafe ==
    ASSUME TypeInv, Safe, NEW n \in Node, TickAck(n)
    PROVE  Safe'
<1>1. UNCHANGED <<tx, completed, rx, window, delivered>>
    BY DEF TickAck, sender, receiver
<1>2. TypeOK /\ air \in [Node -> Packet]
    BY DEF TypeInv, TypeOK
<1>3. SendPendingAck(n, air, pending[n])
    BY <1>2 DEF TickAck, SendPendingAck, TypeOK
<1>4. /\ \A m \in Node : \A k \in Payload : \A f \in Frag :
             Reported(m, k, f)' => Reported(m, k, f)
      /\ AirData'
    BY <1>1, <1>2, <1>3, FlushReports DEF Safe
<1>5. NoAcknowledgedLoss' /\ SlotIds'
    <2>1. NoAcknowledgedLoss'
        BY <1>1, UndecidedSafe
    <2>2. SlotIds'
        BY <1>1 DEF Safe, SlotIds
    <2> QED
        BY <2>1, <2>2
<1> QED
    BY <1>1, <1>4, <1>5, PeerIsNode, SenderSafe

\* An ACK tells its datagram's sender only what its peer reported; the datagram
\* it completes was wholly reported, hence delivered.
LEMMA HandleAckSafe ==
    ASSUME TypeInv, Safe, NEW n \in Node, HandleAck(n)
    PROVE  Safe'
<1> DEFINE ack == air[n].ack
<1>1. /\ TypeOK /\ air[n].type = "ACK"
      /\ air' = Taken(n)
      /\ UNCHANGED <<rx, window, delivered, pending>>
      /\ \/ \E s \in Matching(n, ack) : ApplyAck(n, s, ack)
         \/ Matching(n, ack) = {} /\ UNCHANGED <<tx, completed>>
    BY DEF HandleAck, TypeInv, receiver
<1>2. \A m \in Node : air'[m] = air[m] \/ air'[m] = NoPacket
    BY <1>1 DEF Taken, TypeOK
<1>3. AirData'
    <2>1. NoPacket.type # "DATA"
        BY DEF NoPacket
    <2> QED
        BY <1>2, <2>1 DEF Safe, AirData
<1>4. tx \in [Node -> [TxSlot -> TxDatagram]] /\ completed \in [Node -> SUBSET Payload]
    BY <1>1 DEF TypeOK
<1>5. ASSUME tx' = tx, completed' = completed PROVE Safe'
    <2>1. AirData' /\ \A m \in Node : \A k \in Payload : \A f \in Frag :
                          Reported(m, k, f)' => Reported(m, k, f)
        BY <1>1, <1>5, TakenReports
    <2>2. NoAcknowledgedLoss'
        BY <1>1, <1>5, UndecidedSafe
    <2>3. SlotIds'
        BY <1>5 DEF Safe, SlotIds
    <2> QED
        BY <1>1, <2>1, <2>2, <2>3, PeerIsNode, SenderSafe
<1>6. ASSUME NEW s \in Matching(n, ack), ApplyAck(n, s, ack) PROVE Safe'
    <2> DEFINE slot == tx[n][s]
               k0 == slot.data
    <2>1. /\ s \in TxSlot /\ slot \in TxDatagram /\ slot.state = "OPEN" /\ slot.id = ack.id
          /\ k0 \in Payload /\ slot.id = k0
        BY <1>4, <1>6 DEF Matching, TxIn, TypeInv, Loaded, Safe, SlotIds
    <2>2. PICK new : /\ tx' = [tx EXCEPT ![n] = [tx[n] EXCEPT ![s] = new]]
                     /\ \/ new = EmptyTx
                        \/ /\ new.state = "OPEN" /\ new.data = k0 /\ new.id = slot.id
                           /\ \A f \in new.acked : f \in slot.acked
                                  \/ (ack.failure # "CREDIT_WITHDRAWAL" /\ f \in ack.bitmap)
                     /\ \/ completed' = completed
                        \/ /\ completed' = [completed EXCEPT ![n] = @ \cup {k0}]
                           /\ Finished(slot, ack)
        <3>1. CASE ack.failure = "CREDIT_WITHDRAWAL"
            <4>1. tx' = [tx EXCEPT ![n] = [tx[n] EXCEPT ![s] = Withdraw(slot, ack)]]
                  /\ completed' = completed
                BY <1>6, <3>1 DEF ApplyAck
            <4>2. /\ Withdraw(slot, ack).state = "OPEN" /\ Withdraw(slot, ack).data = k0
                  /\ Withdraw(slot, ack).id = slot.id
                  /\ Withdraw(slot, ack).acked = slot.acked \cap ack.bitmap
                BY <2>1 DEF Withdraw, TxDatagram
            <4> QED
                BY <4>1, <4>2
        <3>2. CASE ack.failure # "CREDIT_WITHDRAWAL" /\ Finished(slot, ack)
            <4>1. /\ tx' = [tx EXCEPT ![n] = [tx[n] EXCEPT ![s] = EmptyTx]]
                  /\ completed' = [completed EXCEPT ![n] = @ \cup {k0}]
                BY <1>6, <3>2 DEF ApplyAck
            <4> QED
                BY <3>2, <4>1
        <3>3. CASE ack.failure # "CREDIT_WITHDRAWAL" /\ ~Finished(slot, ack)
            <4> DEFINE new == [slot EXCEPT !.acked = slot.acked \cup ack.bitmap]
            <4>1. tx' = [tx EXCEPT ![n] = [tx[n] EXCEPT ![s] = new]] /\ completed' = completed
                BY <1>6, <3>3 DEF ApplyAck
            <4>2. /\ new.state = "OPEN" /\ new.data = k0 /\ new.id = slot.id
                  /\ new.acked = slot.acked \cup ack.bitmap
                BY <2>1 DEF TxDatagram
            <4> HIDE DEF new
            <4> QED
                BY <3>3, <4>1, <4>2
        <3> QED
            BY <3>1, <3>2, <3>3
    <2>3. EmptyTx.state = "EMPTY"
        BY DEF EmptyTx
    <2>4. /\ tx'[n][s] = new
          /\ \A t \in TxSlot : t # s => tx'[n][t] = tx[n][t]
          /\ \A m \in Node : m # n => tx'[m] = tx[m]
        BY <1>4, <2>1, <2>2
    <2> HIDE DEF ack, slot, k0
    <2>5. SlotIds'
        <3>1. ASSUME NEW m \in Node, NEW t \in TxSlot, tx'[m][t].state # "EMPTY"
              PROVE  tx'[m][t].id = tx'[m][t].data
            <4>1. CASE m = n /\ t = s
                BY <2>1, <2>2, <2>3, <2>4, <3>1, <4>1
            <4>2. CASE ~(m = n /\ t = s)
                <5>1. tx'[m][t] = tx[m][t]
                    BY <2>4, <4>2
                <5> QED
                    BY <3>1, <5>1 DEF Safe, SlotIds
            <4> QED
                BY <4>1, <4>2
        <3> QED
            BY <3>1 DEF SlotIds
    <2>6. ASSUME NEW k \in Payload, NEW f \in Frag, Reported(n, k, f)' PROVE Reported(n, k, f)
        <3>1. CASE \E t \in TxIn(tx'[n], "OPEN") : tx'[n][t].data = k /\ f \in tx'[n][t].acked
            <4>1. PICK t \in TxSlot : /\ tx'[n][t].state = "OPEN" /\ tx'[n][t].data = k
                                      /\ f \in tx'[n][t].acked
                BY <3>1 DEF TxIn
            <4>2. CASE t # s
                BY <2>4, <4>1, <4>2 DEF Reported, TxIn
            <4>3. CASE t = s
                <5>1. k = k0 /\ (f \in slot.acked
                          \/ (ack.failure # "CREDIT_WITHDRAWAL" /\ f \in ack.bitmap))
                    BY <2>2, <2>3, <2>4, <4>1, <4>3
                <5>2. CASE f \in slot.acked
                    BY <2>1, <5>1, <5>2 DEF Reported, TxIn, slot, k0
                <5>3. CASE ack.failure # "CREDIT_WITHDRAWAL" /\ f \in ack.bitmap
                    BY <1>1, <2>1, <5>1, <5>3 DEF Reported, Reports, ack
                <5> QED
                    BY <5>1, <5>2, <5>3
            <4> QED
                BY <4>2, <4>3
        <3>2. CASE \E i \in DOMAIN pending'[Peer(n)] : Reports(pending'[Peer(n)][i], k, f)
            BY <1>1, <3>2 DEF Reported
        <3>3. ~(air'[n].type = "ACK")
            BY <1>1 DEF Taken, NoPacket, TypeOK
        <3> QED
            BY <2>6, <3>1, <3>2, <3>3 DEF Reported
    <2>7. ASSUME NEW k \in Payload, NEW f \in Frag, Reported(Peer(n), k, f)'
          PROVE  Reported(Peer(n), k, f)
        <3>1. Peer(n) \in Node /\ Peer(n) # n
            BY PeerIsNode
        <3>2. tx'[Peer(n)] = tx[Peer(n)]
              /\ air'[Peer(n)] = air[Peer(n)]
            BY <1>1, <2>4, <3>1 DEF Taken, TypeOK
        <3> QED
            BY <1>1, <2>7, <3>2 DEF Reported
    <2>8. NoAcknowledgedLoss'
        <3>1. CASE completed' = completed
            BY <1>1, <3>1, UndecidedSafe
        <3>2. CASE completed' = [completed EXCEPT ![n] = @ \cup {k0}] /\ Finished(slot, ack)
            <4>1. \A f \in Full(Length[k0]) : Reported(n, k0, f)
                <5>1. ASSUME NEW f \in Full(Length[k0]) PROVE Reported(n, k0, f)
                    <6>1. f \in slot.acked \/ (ack.failure = "NONE" /\ f \in ack.bitmap)
                        BY <3>2 DEF Finished, k0
                    <6>2. CASE f \in slot.acked
                        BY <2>1, <6>2 DEF Reported, TxIn, slot, k0
                    <6>3. CASE ack.failure = "NONE" /\ f \in ack.bitmap
                        BY <1>1, <2>1, <6>3 DEF Reported, Reports, ack
                    <6> QED
                        BY <6>1, <6>2, <6>3
                <5> QED
                    BY <5>1
            <4>2. {k0} \in DeliveredAt(Peer(n))
                BY <2>1, <4>1, SoundIsAcknowledgedWasReceived DEF Safe, Sound
            <4>3. \A m \in Node : DeliveredAt(Peer(m))' = DeliveredAt(Peer(m))
                BY <1>1 DEF DeliveredAt
            <4>4. \A m \in Node : \A k \in completed'[m] :
                      k \in completed[m] \/ (m = n /\ k = k0)
                BY <1>4, <3>2
            <4> QED
                BY <4>2, <4>3, <4>4 DEF Safe, NoAcknowledgedLoss
        <3> QED
            BY <2>2, <3>1, <3>2
    <2> QED
        BY <1>1, <1>3, <2>5, <2>6, <2>7, <2>8, SenderSafe
<1> QED
    BY <1>1, <1>5, <1>6

\* What a tick makes of the slots: every slot carries the datagram its id names
\* and an open one has learned nothing.
Carries(n, slots) ==
    \A t \in TxSlot :
        /\ slots[t].state # "EMPTY" =>
               slots[t].data \in Payload /\ slots[t].id = slots[t].data
        /\ slots[t].state = "OPEN" => \A f \in slots[t].acked :
               tx[n][t].state = "OPEN" /\ tx[n][t].data = slots[t].data /\ f \in tx[n][t].acked

\* A step that leaves such slots and sends at most one fragment.
LEMMA SlotsSafe ==
    ASSUME TypeInv, Safe, NEW n \in Node, NEW slots, Carries(n, slots),
           tx' = [tx EXCEPT ![n] = slots],
           \/ air' = air
           \/ \E p \in DataPacket : /\ p.id = p.data /\ p.length = Length[p.data]
                                    /\ Transmit(n, air, p),
           UNCHANGED <<pending, rx, window, delivered, completed>>
    PROVE  Safe' /\ (Unstuck => Unstuck')
<1>1. TypeOK /\ tx'[n] = slots /\ \A m \in Node : m # n => tx'[m] = tx[m]
    BY DEF TypeInv, TypeOK
<1>2. \A m \in Node : \/ air'[m] = air[m]
                      \/ /\ air'[m].type = "DATA" /\ air'[m].id = air'[m].data
                         /\ air'[m].length = Length[air'[m].data]
    <2>1. CASE air' = air
        BY <2>1
    <2>2. CASE \E p \in DataPacket : /\ p.id = p.data /\ p.length = Length[p.data]
                                     /\ Transmit(n, air, p)
        <3>1. PICK p \in DataPacket : /\ p.id = p.data /\ p.length = Length[p.data]
                                      /\ Transmit(n, air, p)
            BY <2>2
        <3>2. \A m \in Node : air'[m] = air[m] \/ air'[m] = p
            BY <1>1, <3>1 DEF Transmit, TypeOK
        <3>3. p.type = "DATA"
            BY DEF DataPacket
        <3> QED
            BY <3>1, <3>2, <3>3
    <2> QED
        BY <2>1, <2>2
<1>3. AirData'
    BY <1>2 DEF Safe, AirData
<1>4. SlotIds'
    <2>1. ASSUME NEW m \in Node, NEW t \in TxSlot, tx'[m][t].state # "EMPTY"
          PROVE  tx'[m][t].id = tx'[m][t].data
        <3>1. CASE m = n
            BY <1>1, <2>1, <3>1 DEF Carries
        <3>2. CASE m # n
            BY <1>1, <2>1, <3>2 DEF Safe, SlotIds
        <3> QED
            BY <3>1, <3>2
    <2> QED
        BY <2>1 DEF SlotIds
<1>5. ASSUME NEW m \in Node, NEW k \in Payload, NEW f \in Frag, Reported(m, k, f)'
      PROVE  Reported(m, k, f)
    <2>1. CASE \E t \in TxIn(tx'[m], "OPEN") : tx'[m][t].data = k /\ f \in tx'[m][t].acked
        <3>1. PICK t \in TxSlot : tx'[m][t].state = "OPEN" /\ tx'[m][t].data = k
                                  /\ f \in tx'[m][t].acked
            BY <2>1 DEF TxIn
        <3>2. tx[m][t].state = "OPEN" /\ tx[m][t].data = k /\ f \in tx[m][t].acked
            <4>1. CASE m = n
                BY <1>1, <3>1, <4>1 DEF Carries
            <4>2. CASE m # n
                BY <1>1, <3>1, <4>2
            <4> QED
                BY <4>1, <4>2
        <3> QED
            BY <3>2 DEF Reported, TxIn
    <2>2. CASE \E i \in DOMAIN pending'[Peer(m)] : Reports(pending'[Peer(m)][i], k, f)
        BY <2>2 DEF Reported
    <2>3. CASE air'[m].type = "ACK" /\ Reports(air'[m].ack, k, f)
        BY <1>2, <2>3 DEF Reported
    <2> QED
        BY <1>5, <2>1, <2>2, <2>3 DEF Reported
<1>6. NoAcknowledgedLoss'
    BY UndecidedSafe
<1>7. ASSUME Unstuck PROVE NeverStuck'
    <2>1. ASSUME NEW m \in Node, NEW t \in TxSlot, tx'[m][t].state = "OPEN"
          PROVE  \E f \in Full(Length[tx'[m][t].data]) : f \notin tx'[m][t].acked
        <3>1. CASE m # n \/ tx'[m][t].acked # {}
            <4>1. /\ tx[m][t].state = "OPEN" /\ tx[m][t].data = tx'[m][t].data
                  /\ tx'[m][t].acked \subseteq tx[m][t].acked
                <5>1. CASE m # n
                    BY <1>1, <2>1, <5>1
                <5>2. CASE m = n
                    BY <1>1, <2>1, <3>1, <5>2 DEF Carries
                <5> QED
                    BY <5>1, <5>2
            <4>2. Missing(tx[m][t]) # {}
                BY <1>7, <4>1 DEF Unstuck, NeverStuck, TxIn
            <4> QED
                BY <4>1, <4>2 DEF Missing
        <3>2. CASE m = n /\ tx'[m][t].acked = {}
            <4>1. tx'[m][t].data \in Payload
                BY <1>1, <2>1, <3>2 DEF Carries
            <4>2. 0 \in Full(Length[tx'[m][t].data])
                BY <4>1, LengthIsDatagramLength, FullIsFrags
            <4> QED
                BY <3>2, <4>2
        <3> QED
            BY <3>1, <3>2
    <2> QED
        BY <2>1 DEF NeverStuck, TxIn, Missing
<1>8. ASSUME Unstuck PROVE AcksHarmless'
    BY <1>2, <1>8 DEF Unstuck, AcksHarmless, Harmless
<1>9. Safe'
    BY <1>3, <1>4, <1>5, <1>6, PeerIsNode, SenderSafe
<1> QED
    BY <1>7, <1>8, <1>9 DEF Unstuck

LEMMA SendRoundSafe ==
    ASSUME TypeInv, Safe, NEW n \in Node, NEW slots \in [TxSlot -> TxDatagram],
           Carries(n, slots), NEW s \in TxSlot, slots[s].state # "EMPTY",
           SendRound(n, slots, s),
           UNCHANGED <<pending, rx, window, delivered, completed>>
    PROVE  Safe' /\ (Unstuck => Unstuck')
<1> DEFINE left == {f \in slots[s].round : f >= slots[s].next}
           f == Least(left)
<1>0. /\ slots[s] \in TxDatagram /\ slots[s].data \in Payload
      /\ slots[s].id = slots[s].data
    BY DEF Carries
<1>1. ASSUME NEW round, NEW next
      PROVE  Carries(n, [slots EXCEPT ![s] = [slots[s] EXCEPT !.round = round, !.next = next]])
    <2> DEFINE slot == [slots[s] EXCEPT !.round = round, !.next = next]
    <2>1. /\ slot.state = slots[s].state /\ slot.data = slots[s].data /\ slot.id = slots[s].id
          /\ slot.acked = slots[s].acked
        BY <1>0 DEF TxDatagram
    <2> HIDE DEF slot
    <2>2. Carries(n, [slots EXCEPT ![s] = slot])
        BY <2>1 DEF Carries
    <2> QED
        BY <2>2 DEF slot
<1>2. PICK round, next :
          /\ tx' = [tx EXCEPT ![n] = [slots EXCEPT ![s] =
                        [slots[s] EXCEPT !.round = round, !.next = next]]]
          /\ \/ air' = air
             \/ left # {} /\ Transmit(n, air, FragmentPacket(slots[s], f))
    <2>1. CASE left = {}
        <3>1. tx' = [tx EXCEPT ![n] = [slots EXCEPT ![s].round = {}]] /\ air' = air
            BY <2>1 DEF SendRound
        <3>2. [slots EXCEPT ![s].round = {}] =
                  [slots EXCEPT ![s] = [slots[s] EXCEPT !.round = {}, !.next = slots[s].next]]
            BY <1>0 DEF TxDatagram
        <3> QED
            BY <3>1, <3>2
    <2>2. CASE left # {}
        <3>1. CASE /\ tx' = [tx EXCEPT ![n] =
                                [slots EXCEPT ![s].round = @ \ {f}, ![s].next = f + 1]]
                   /\ Transmit(n, air, FragmentPacket(slots[s], f))
            <4>1. [slots EXCEPT ![s].round = @ \ {f}, ![s].next = f + 1] =
                      [slots EXCEPT ![s] =
                          [slots[s] EXCEPT !.round = slots[s].round \ {f}, !.next = f + 1]]
                BY <1>0 DEF TxDatagram
            <4> QED
                BY <2>2, <3>1, <4>1
        <3>2. CASE tx' = [tx EXCEPT ![n] = [slots EXCEPT ![s].next = f]] /\ UNCHANGED air
            <4>1. [slots EXCEPT ![s].next = f] =
                      [slots EXCEPT ![s] =
                          [slots[s] EXCEPT !.round = slots[s].round, !.next = f]]
                BY <1>0 DEF TxDatagram
            <4> QED
                BY <3>2, <4>1
        <3> QED
            BY <2>2, <3>1, <3>2 DEF SendRound
    <2> QED
        BY <2>1, <2>2
<1>3. ASSUME left # {}
      PROVE  LET p == FragmentPacket(slots[s], f)
             IN  p \in DataPacket /\ p.id = p.data /\ p.length = Length[p.data]
    <2>1. f \in Frag
        BY <1>0, <1>3, NextFragment
    <2>2. Length[slots[s].data] \in DatagramLength /\ slots[s].id \in Id
        BY <1>0, LengthIsDatagramLength DEF TxDatagram
    <2> QED
        BY <1>0, <2>1, <2>2 DEF FragmentPacket, DataPacket
<1> HIDE DEF left, f
<1> DEFINE new == [slots EXCEPT ![s] = [slots[s] EXCEPT !.round = round, !.next = next]]
<1>4. Carries(n, new) /\ tx' = [tx EXCEPT ![n] = new]
    BY <1>1, <1>2
<1>5. \/ air' = air
      \/ \E p \in DataPacket : /\ p.id = p.data /\ p.length = Length[p.data]
                               /\ Transmit(n, air, p)
    BY <1>2, <1>3
<1> HIDE DEF new
<1> QED
    BY <1>4, <1>5, SlotsSafe

\* The next queued datagram is opened with nothing acknowledged.
LEMMA TryOpenQueuedSafe ==
    ASSUME TypeInv, Safe, NEW n \in Node, NEW slots \in [TxSlot -> TxDatagram],
           Carries(n, slots), TryOpenQueued(n, slots),
           UNCHANGED <<pending, rx, window, delivered, completed>>
    PROVE  Safe' /\ (Unstuck => Unstuck')
<1>1. CASE OpenQueued(n, slots)
    <2> DEFINE s == Least(TxIn(slots, "QUEUED"))
               slot == Opened(slots[s])
               opened == [slots EXCEPT ![s] = slot]
    <2>1. s \in TxSlot /\ slots[s].state = "QUEUED"
        BY <1>1, LeastSlot DEF OpenQueued
    <2>2. SendRound(n, opened, s)
        BY <1>1 DEF OpenQueued
    <2> HIDE DEF s
    <2>3. slots[s] \in TxDatagram /\ slots[s].data \in Payload /\ slots[s].id = slots[s].data
        BY <2>1 DEF Carries
    <2>4. slot \in TxDatagram
        <3>1. 0 \in 0 .. MaxFrags /\ 1 \in 0 .. MaxAttempts
            BY LinkAssumption
        <3>2. Full(Length[slots[s].data]) \in SUBSET Frag
            BY <2>3, LengthIsDatagramLength, FullIsFrags
        <3> QED
            BY <2>3, <3>1, <3>2 DEF Opened, TxDatagram
    <2>5. /\ slot.state = "OPEN" /\ slot.data = slots[s].data /\ slot.id = slots[s].id
          /\ slot.acked = {}
        BY <2>3 DEF Opened, TxDatagram
    <2> HIDE DEF slot
    <2>6. /\ opened \in [TxSlot -> TxDatagram] /\ opened[s] = slot
          /\ \A t \in TxSlot : t # s => opened[t] = slots[t]
        BY <2>1, <2>4
    <2> HIDE DEF opened
    <2>7. Carries(n, opened)
        <3>1. ASSUME NEW t \in TxSlot
              PROVE  /\ opened[t].state # "EMPTY" =>
                            opened[t].data \in Payload /\ opened[t].id = opened[t].data
                     /\ opened[t].state = "OPEN" => \A f \in opened[t].acked :
                            /\ tx[n][t].state = "OPEN" /\ tx[n][t].data = opened[t].data
                            /\ f \in tx[n][t].acked
            <4>1. CASE t = s
                BY <2>3, <2>5, <2>6, <4>1
            <4>2. CASE t # s
                BY <2>6, <4>2 DEF Carries
            <4> QED
                BY <4>1, <4>2
        <3> QED
            BY <3>1 DEF Carries
    <2>8. opened[s].state # "EMPTY"
        BY <2>5, <2>6
    <2> QED
        BY <2>1, <2>2, <2>6, <2>7, <2>8, SendRoundSafe
<1>2. CASE KeepQueued(n, slots)
    BY <1>2, SlotsSafe DEF KeepQueued
<1> QED
    BY <1>1, <1>2 DEF TryOpenQueued

LEMMA TickDataSafe ==
    ASSUME TypeInv, Safe, NEW n \in Node, TickData(n)
    PROVE  Safe' /\ (Unstuck => Unstuck')
<1>1. /\ UNCHANGED <<pending, rx, window, delivered, completed>>
      /\ tx \in [Node -> [TxSlot -> TxDatagram]] /\ tx[n] \in [TxSlot -> TxDatagram]
    BY DEF TickData, receiver, TypeInv, TypeOK
<1>2. Carries(n, tx[n])
    BY DEF Carries, Safe, SlotIds, TypeInv, Loaded
<1>3. CASE Retransmit(n)
    <2>1. PICK s \in TxIn(tx[n], "OPEN") :
              /\ tx[n][s].attempts < MaxAttempts
              /\ SendRound(n, [tx[n] EXCEPT ![s].attempts = @ + 1,
                                            ![s].round = Missing(tx[n][s]),
                                            ![s].next = 0], s)
        BY <1>3 DEF Retransmit
    <2> DEFINE slot == [tx[n][s] EXCEPT !.attempts = @ + 1, !.round = Missing(tx[n][s]),
                                        !.next = 0]
               slots == [tx[n] EXCEPT ![s] = slot]
    <2>2. /\ s \in TxSlot /\ tx[n][s] \in TxDatagram /\ tx[n][s].state = "OPEN"
          /\ tx[n][s].data \in Payload
        BY <1>1, <1>2, <2>1 DEF TxIn, Carries
    <2>3. slot \in TxDatagram
        <3>1. Missing(tx[n][s]) \in SUBSET Frag
            BY <2>2, LengthIsDatagramLength, FullIsFrags DEF Missing
        <3>2. tx[n][s].attempts + 1 \in 0 .. MaxAttempts /\ 0 \in 0 .. MaxFrags
            BY <2>1, <2>2, LinkAssumption DEF TxDatagram
        <3> QED
            BY <2>2, <3>1, <3>2 DEF TxDatagram
    <2>4. /\ slot.state = tx[n][s].state /\ slot.data = tx[n][s].data
          /\ slot.id = tx[n][s].id /\ slot.acked = tx[n][s].acked
        BY <2>2 DEF TxDatagram
    <2>5. SendRound(n, slots, s)
        BY <2>1
    <2> HIDE DEF slot
    <2>6. slots \in [TxSlot -> TxDatagram] /\ slots[s].state # "EMPTY"
        BY <1>1, <2>2, <2>3, <2>4
    <2>7. Carries(n, slots)
        BY <1>1, <1>2, <2>2, <2>4 DEF Carries
    <2> HIDE DEF slots
    <2> QED
        BY <1>1, <2>2, <2>5, <2>6, <2>7, SendRoundSafe
<1>4. CASE GiveUp(n)
    <2>1. PICK s \in TxIn(tx[n], "OPEN") : TryOpenQueued(n, [tx[n] EXCEPT ![s] = EmptyTx])
        BY <1>4 DEF GiveUp
    <2> DEFINE slots == [tx[n] EXCEPT ![s] = EmptyTx]
    <2>2. EmptyTx \in TxDatagram /\ EmptyTx.state = "EMPTY"
        BY LinkAssumption, WindowAssumption DEF EmptyTx, TxDatagram, Id
    <2>3. slots \in [TxSlot -> TxDatagram] /\ TryOpenQueued(n, slots)
        BY <1>1, <2>1, <2>2
    <2>4. Carries(n, slots)
        BY <1>1, <1>2, <2>2 DEF Carries
    <2> HIDE DEF slots
    <2> QED
        BY <1>1, <2>3, <2>4, TryOpenQueuedSafe
<1>5. CASE SendOpenData(n)
    <2>1. PICK s \in TxIn(tx[n], "OPEN") : SendRound(n, tx[n], s)
        BY <1>5 DEF SendOpenData
    <2>2. s \in TxSlot /\ tx[n][s].state # "EMPTY"
        BY DEF TxIn
    <2> QED
        BY <1>1, <1>2, <2>1, <2>2, SendRoundSafe
<1>6. CASE OpenNext(n)
    BY <1>1, <1>2, <1>6, TryOpenQueuedSafe DEF OpenNext
<1>7. CASE AwaitAck(n)
    <2>1. tx' = [tx EXCEPT ![n] = tx[n]] /\ air' = air
        BY <1>1, <1>7 DEF AwaitAck
    <2> QED
        BY <1>1, <1>2, <2>1, SlotsSafe
<1> QED
    BY <1>3, <1>4, <1>5, <1>6, <1>7 DEF TickData

----------------------------------------------------------------------------
\* The hosts

\* As long as ids are not reused, a datagram's id is its number.
LEMMA SubmitSafe ==
    ASSUME NoIdReuse, TypeInv, Numbered, Safe, NEW n \in Node, Submit(n)
    PROVE  Safe' /\ Numbered' /\ (Unstuck => Unstuck')
<1> DEFINE s == Least(TxIn(tx[n], "EMPTY"))
           slot == [EmptyTx EXCEPT !.state = "QUEUED", !.data = submitted[n], !.id = nextId[n]]
           slots == [tx[n] EXCEPT ![s] = slot]
<1>1. TypeOK /\ tx[n] \in [TxSlot -> TxDatagram]
    BY DEF TypeInv, TypeOK
<1>2. s \in TxSlot
    BY LeastSlot DEF Submit
<1>3. /\ submitted[n] \in Nat /\ Submits[n] \in Nat /\ submitted[n] < Submits[n]
      /\ Submits[n] <= IdSpace /\ IdSpace \in Nat
    BY <1>1, LinkAssumption, WindowAssumption DEF NoIdReuse, Submit, TypeOK
<1>4. submitted[n] < IdSpace /\ nextId[n] = submitted[n]
    BY <1>3 DEF Numbered
<1>5. submitted[n] \in Payload
    <2>1. submitted[n] \in 0 .. Submits[n] - 1
        BY <1>3
    <2> QED
        BY <2>1 DEF Payload
<1>6. slot.state = "QUEUED" /\ slot.data \in Payload /\ slot.id = slot.data
    BY <1>4, <1>5 DEF EmptyTx
<1>7. /\ tx' = [tx EXCEPT ![n] = slots] /\ air' = air
      /\ UNCHANGED <<pending, rx, window, delivered, completed>>
    BY DEF Submit, receiver
<1> HIDE DEF s, slot
<1>8. Carries(n, slots)
    <2>1. Carries(n, tx[n])
        BY DEF Carries, Safe, SlotIds, TypeInv, Loaded
    <2> QED
        BY <1>1, <1>2, <1>6, <2>1 DEF Carries
<1> HIDE DEF slots
<1>9. Safe' /\ (Unstuck => Unstuck')
    BY <1>7, <1>8, SlotsSafe
<1>10. Numbered'
    <2>1. submitted' = [submitted EXCEPT ![n] = submitted[n] + 1]
          /\ nextId' = [nextId EXCEPT ![n] = (nextId[n] + 1) % IdSpace]
        BY DEF Submit
    <2>2. submitted \in [Node -> Nat] /\ nextId \in [Node -> Id]
        BY <1>1 DEF TypeOK
    <2>3. submitted[n] + 1 < IdSpace => (nextId[n] + 1) % IdSpace = submitted[n] + 1
        BY <1>3, <1>4
    <2>4. submitted[n] + 1 <= Submits[n]
        BY <1>3
    <2> QED
        BY <2>1, <2>2, <2>3, <2>4 DEF Numbered
<1> QED
    BY <1>9, <1>10

\* A step that changes nothing Safe speaks of.
LEMMA QuietSafe ==
    ASSUME TypeInv, Safe, UNCHANGED <<tx, pending, air, rx, window, delivered, completed>>
    PROVE  Safe' /\ (Unstuck => Unstuck')
<1>1. 0 \in Node /\ tx \in [Node -> [TxSlot -> TxDatagram]]
    BY DEF Node, TypeInv, TypeOK
<1>2. Carries(0, tx[0]) /\ tx' = [tx EXCEPT ![0] = tx[0]]
    BY <1>1 DEF Carries, Safe, SlotIds, TypeInv, Loaded
<1> QED
    BY <1>1, <1>2, SlotsSafe

LEMMA InitSafe == Init => Numbered /\ Safe
<1> SUFFICES ASSUME Init PROVE Numbered /\ Safe
    OBVIOUS
<1>1. Numbered
    BY LinkAssumption DEF Init, Numbered
<1>2. SlotIds /\ AirData
    BY DEF Init, SlotIds, EmptyTx, AirData, NoPacket
<1>3. RxWhole /\ RxUnique
    BY DEF Init, RxWhole, RxUnique, EmptyRx
<1>4. WindowDelivered /\ NoAcknowledgedLoss
    BY DEF Init, WindowDelivered, EmptyWindow, NoAcknowledgedLoss
<1>5. DeliveredWhole
    BY DEF Init, DeliveredWhole
<1>6. ASSUME NEW n \in Node, NEW k \in Payload, NEW f PROVE ~Reported(n, k, f)
    <2>1. TxIn(tx[n], "OPEN") = {}
        BY DEF Init, TxIn, EmptyTx
    <2>2. pending[Peer(n)] = <<>> /\ air[n].type # "ACK"
        BY PeerIsNode DEF Init, NoPacket
    <2> QED
        BY <2>1, <2>2 DEF Reported
<1>7. AcknowledgedWasReceived
    <2>1. \A k \in Payload : 0 \in Full(Length[k])
        BY LengthIsDatagramLength, FullIsFrags
    <2> QED
        BY <1>6, <2>1 DEF AcknowledgedWasReceived
<1> QED
    BY <1>1, <1>2, <1>3, <1>4, <1>5, <1>7 DEF Safe

LEMMA NextSafe ==
    ASSUME NoIdReuse, TypeInv, Numbered, Safe, [Next]_vars
    PROVE  Numbered' /\ Safe'
<1>1. CASE UNCHANGED vars
    <2>1. UNCHANGED <<tx, pending, air, rx, window, delivered, completed, submitted, nextId>>
        BY <1>1 DEF vars, sender, receiver
    <2> QED
        BY <2>1, QuietSafe DEF Numbered
<1>2. ASSUME NEW n \in Node, Step(n) PROVE Numbered' /\ Safe'
    <2>1. CASE HandleData(n)
        BY <2>1, HandleDataSafe DEF HandleData, sender, Numbered
    <2>2. CASE HandleAck(n)
        BY <2>2, HandleAckSafe DEF HandleAck, Numbered
    <2>3. CASE NoPacketEvent(n)
        BY <2>3, NoPacketEventSafe DEF NoPacketEvent, sender, Numbered
    <2>4. CASE TickDeliver(n)
        BY <2>4, TickDeliverSafe DEF TickDeliver, sender, Numbered
    <2>5. CASE TickAck(n)
        BY <2>5, TickAckSafe DEF TickAck, sender, Numbered
    <2>6. CASE TickData(n)
        BY <2>6, TickDataSafe DEF TickData, Numbered
    <2>7. CASE Submit(n)
        BY <2>7, SubmitSafe
    <2>8. CASE Idle(n)
        BY <2>8, QuietSafe DEF Idle, sender, receiver, Numbered
    <2>9. CASE Drain(n)
        BY <2>9, QuietSafe DEF Drain, sender, Numbered
    <2> QED
        BY <1>2, <2>1, <2>2, <2>3, <2>4, <2>5, <2>6, <2>7, <2>8, <2>9 DEF Step
<1> QED
    BY <1>1, <1>2 DEF Next

----------------------------------------------------------------------------
\* An open datagram always has something left to send

\* The ACKs sent are those queued, and the one that is added.
LEMMA SentHarmless ==
    ASSUME TypeOK, AcksHarmless, NEW n \in Node, NEW buffers \in [Node -> Packet],
           buffers[n] \in {air[n], NoPacket}, buffers[Peer(n)] = air[Peer(n)],
           NEW queue \in Seq(Ack), \A j \in DOMAIN queue : Harmless(queue[j]),
           SendPendingAck(n, buffers, queue)
    PROVE  AcksHarmless'
<1>1. /\ \A i \in DOMAIN pending'[n] : \E j \in DOMAIN queue : pending'[n][i] = queue[j]
      /\ pending'[Peer(n)] = pending[Peer(n)]
      /\ air'[n] = buffers[n]
      /\ \/ air'[Peer(n)] = buffers[Peer(n)]
         \/ \E j \in DOMAIN queue : air'[Peer(n)] = [type |-> "ACK", ack |-> queue[j]]
    BY SendPendingAckMembers
<1>2. \A i \in DOMAIN pending'[n] : Harmless(pending'[n][i])
    BY <1>1
<1>3. air'[n].type = "ACK" => Harmless(air'[n].ack)
    BY <1>1 DEF NoPacket, AcksHarmless
<1>4. /\ \A i \in DOMAIN pending'[Peer(n)] : Harmless(pending'[Peer(n)][i])
      /\ air'[Peer(n)].type = "ACK" => Harmless(air'[Peer(n)].ack)
    <2>1. Peer(n) \in Node
        BY PeerIsNode
    <2>2. air[Peer(n)].type = "ACK" => Harmless(air[Peer(n)].ack)
        BY <2>1 DEF AcksHarmless
    <2>3. CASE \E j \in DOMAIN queue : air'[Peer(n)] = [type |-> "ACK", ack |-> queue[j]]
        <3>1. PICK j \in DOMAIN queue : air'[Peer(n)] = [type |-> "ACK", ack |-> queue[j]]
            BY <2>3
        <3> QED
            BY <1>1, <2>1, <3>1 DEF AcksHarmless
    <2>4. CASE air'[Peer(n)] = buffers[Peer(n)]
        BY <1>1, <2>1, <2>2, <2>4 DEF AcksHarmless
    <2> QED
        BY <1>1, <2>3, <2>4
<1>5. ASSUME NEW m \in Node PROVE m = n \/ m = Peer(n)
    BY PeerIsOther
<1> QED
    BY <1>2, <1>3, <1>4, <1>5 DEF AcksHarmless, Harmless

LEMMA QueuedHarmless ==
    ASSUME TypeOK, AcksHarmless, NEW n \in Node, NEW buffers \in [Node -> Packet],
           buffers[n] \in {air[n], NoPacket}, buffers[Peer(n)] = air[Peer(n)],
           NEW ack \in Ack, Harmless(ack),
           SendPendingAck(n, buffers, EnqueueAck(pending[n], ack))
    PROVE  AcksHarmless'
<1> DEFINE queue == EnqueueAck(pending[n], ack)
<1>1. pending[n] \in Seq(Ack) /\ queue \in Seq(Ack)
    BY EnqueueAckType DEF TypeOK
<1>2. \A j \in DOMAIN queue :
          queue[j] = ack \/ \E i \in DOMAIN pending[n] : queue[j] = pending[n][i]
    BY <1>1, EnqueueAckMembers
<1>3. SendPendingAck(n, buffers, queue)
    OBVIOUS
<1> HIDE DEF queue
<1>4. \A j \in DOMAIN queue : Harmless(queue[j])
    BY <1>2 DEF AcksHarmless
<1> QED
    BY <1>1, <1>3, <1>4, SentHarmless

LEMMA AckOfHarmless ==
    ASSUME NEW id, NEW bitmap, NEW credit,
           NEW failure \in {"NONE", "CREDIT_WITHDRAWAL", "ALLOCATION_FAILURE"},
           failure = "CREDIT_WITHDRAWAL" => 0 \notin bitmap,
           failure = "ALLOCATION_FAILURE" => bitmap = {}
    PROVE  Harmless(AckOf(id, bitmap, credit, failure))
<1> DEFINE ack == AckOf(id, bitmap, credit, failure)
<1>1. ack.failure = failure /\ ack.bitmap = bitmap
    BY DEF AckOf
<1> HIDE DEF ack
<1>2. Harmless(ack)
    BY <1>1 DEF Harmless
<1> QED
    BY <1>2 DEF ack

LEMMA CompletedHarmless ==
    ASSUME TypeOK, AcksHarmless, NEW n \in Node, NEW s \in RxSlot,
           NEW slots \in [RxSlot -> RxDatagram], NEW buffers \in [Node -> Packet],
           buffers[n] \in {air[n], NoPacket}, buffers[Peer(n)] = air[Peer(n)],
           Egress(n) > 0, CompleteRxSlot(n, s, slots, buffers)
    PROVE  AcksHarmless'
<1> DEFINE ack == AckOf(slots[s].id, Full(slots[s].length),
                        CurrentCredits(slots, Egress(n) - 1), "NONE")
<1>1. slots[s].id \in Id /\ Full(slots[s].length) \in SUBSET Frag
    BY ReceivedType DEF RxDatagram
<1>2. Egress(n) - 1 \in Nat
    BY EgressType
<1>3. ack \in Ack /\ Harmless(ack)
    BY <1>1, <1>2, CreditsType, AckOfType, AckOfHarmless DEF Failure
<1>4. SendPendingAck(n, buffers, EnqueueAck(pending[n], ack))
    BY DEF CompleteRxSlot
<1> HIDE DEF ack
<1> QED
    BY <1>3, <1>4, QueuedHarmless

LEMMA HandleDataHarmless ==
    ASSUME TypeInv, Safe, AcksHarmless, NEW n \in Node, HandleData(n)
    PROVE  AcksHarmless'
<1> DEFINE p == air[n]
           s == Least(SlotsFor(n, p.id))
           slots == [rx[n] EXCEPT ![s] = Accept(rx[n][s], p)]
           buffers == Taken(n)
<1>1. TypeOK /\ p \in DataPacket /\ p.id \in Id /\ p.length = Length[p.id]
    <2>1. p \in DataPacket /\ p.type = "DATA"
        BY DEF TypeInv, TypeOK, HandleData, Packet, AckPacket, NoPacket, DataPacket
    <2> QED
        BY <2>1 DEF TypeInv, DataPacket, Safe, AirData
<1>2. Egress(n) \in Nat /\ CurrentCredits(rx[n], Egress(n)) \in 0 .. TxSlots
    <2>1. Egress(n) \in Nat
        BY <1>1, EgressType
    <2> QED
        BY <2>1, CreditsType
<1>3. /\ buffers \in [Node -> Packet] /\ buffers[n] \in {air[n], NoPacket}
      /\ buffers[Peer(n)] = air[Peer(n)]
    BY <1>1, TakenType, PeerIsNode DEF Taken, TypeOK
<1>4. ASSUME NEW ack \in Ack, Harmless(ack), QueueAck(n, ack) PROVE AcksHarmless'
    <2>1. SendPendingAck(n, buffers, EnqueueAck(pending[n], ack))
        BY <1>4 DEF QueueAck
    <2> HIDE DEF buffers
    <2> QED
        BY <1>1, <1>3, <1>4, <2>1, QueuedHarmless
<1>5. CASE ReceiveDuplicate(n, p)
    <2> DEFINE ack == AckOf(p.id, StoredBitmap(window[n], p.id),
                            CurrentCredits(rx[n], Egress(n)), "NONE")
    <2>1. StoredBitmap(window[n], p.id) \in SUBSET Frag
        BY <1>1, <1>5 DEF ReceiveDuplicate, Remembered, StoredBitmap, Window, TypeOK
    <2>2. ack \in Ack /\ Harmless(ack)
        BY <1>1, <1>2, <2>1, AckOfType, AckOfHarmless DEF Failure
    <2>3. QueueAck(n, ack)
        BY <1>5 DEF ReceiveDuplicate
    <2> QED
        BY <1>4, <2>2, <2>3
<1>6. CASE RefuseFragment(n, p)
    <2> DEFINE ack == AckOf(p.id, {}, CurrentCredits(rx[n], Egress(n)), "ALLOCATION_FAILURE")
    <2>1. ack \in Ack /\ Harmless(ack)
        BY <1>1, <1>2, AckOfType, AckOfHarmless DEF Failure
    <2>2. QueueAck(n, ack)
        BY <1>6 DEF RefuseFragment
    <2> QED
        BY <1>4, <2>1, <2>2
<1>7. CASE RejectFragment(n, p)
    BY <1>1, <1>7, FragmentSlot DEF RejectFragment
<1>8. CASE StoreFragment(n, p)
    <2>1. s \in RxSlot /\ rx[n][s] \in RxDatagram
        BY <1>1, <1>8, FragmentSlot DEF StoreFragment
    <2>2. Accept(rx[n][s], p) \in RxDatagram /\ rx[n] \in [RxSlot -> RxDatagram]
        BY <1>1, <2>1, AcceptType DEF TypeOK
    <2>3. slots \in [RxSlot -> RxDatagram] /\ slots[s] \in RxDatagram
        BY <2>1, <2>2
    <2>4. Received(slots[s]) \in SUBSET Frag /\ slots[s].id \in Id
        BY <2>3, ReceivedType DEF RxDatagram
    <2>5. CASE Egress(n) > 0 /\ CompleteRxSlot(n, s, slots, buffers)
        <3> HIDE DEF s, slots, buffers
        <3> QED
            BY <1>1, <1>3, <2>1, <2>3, <2>5, CompletedHarmless
    <2>6. CASE QueueAck(n, BlockedAck(slots[s]))
        <3>1. BlockedAck(slots[s]) \in Ack /\ Harmless(BlockedAck(slots[s]))
            BY <2>4, AckOfType, AckOfHarmless, LinkAssumption
               DEF BlockedAck, WithdrawalAck, Failure
        <3> QED
            BY <1>4, <2>6, <3>1
    <2>7. CASE IF p.roundEnd
               THEN QueueAck(n, AckOf(p.id, Received(slots[s]),
                                      CurrentCredits(slots, Egress(n)), "NONE"))
               ELSE SendPendingAck(n, buffers, pending[n])
        <3> DEFINE ack == AckOf(p.id, Received(slots[s]), CurrentCredits(slots, Egress(n)),
                                "NONE")
        <3>1. ack \in Ack /\ Harmless(ack)
            BY <1>1, <1>2, <2>4, CreditsType, AckOfType, AckOfHarmless DEF Failure
        <3>2. CASE p.roundEnd
            BY <1>4, <2>7, <3>1, <3>2
        <3>3. CASE ~p.roundEnd
            <4>1. pending[n] \in Seq(Ack) /\ \A j \in DOMAIN pending[n] : Harmless(pending[n][j])
                BY <1>1 DEF TypeOK, AcksHarmless
            <4>2. SendPendingAck(n, buffers, pending[n])
                BY <2>7, <3>3
            <4> HIDE DEF buffers
            <4> QED
                BY <1>1, <1>3, <4>1, <4>2, SentHarmless
        <3> QED
            BY <3>2, <3>3
    <2> QED
        BY <1>8, <2>5, <2>6, <2>7 DEF StoreFragment
<1> QED
    BY <1>5, <1>6, <1>7, <1>8 DEF HandleData

\* An ACK that acknowledges the last missing fragment completes the datagram, and
\* a withdrawal takes fragment 0 back.
LEMMA HandleAckUnstuck ==
    ASSUME TypeInv, Unstuck, NEW n \in Node, HandleAck(n)
    PROVE  Unstuck'
<1> DEFINE ack == air[n].ack
<1>1. /\ TypeOK /\ tx[n] \in [TxSlot -> TxDatagram] /\ pending' = pending
      /\ air' = Taken(n) /\ air[n].type = "ACK"
    BY DEF TypeInv, TypeOK, HandleAck
<1>2. Harmless(ack) /\ ack.failure \in Failure
    <2>0. air[n] \in Packet
        BY <1>1 DEF TypeOK
    <2>1. air[n] \in AckPacket
        BY <1>1, <2>0 DEF Packet, NoPacket, DataPacket
    <2>2. ack.failure \in Failure
        BY <2>1 DEF AckPacket, Ack
    <2>3. Harmless(ack)
        BY <1>1 DEF Unstuck, AcksHarmless
    <2> QED
        BY <2>2, <2>3
<1>3. AcksHarmless'
    <2>1. \A m \in Node : air'[m].type = "ACK" => air'[m] = air[m]
        BY <1>1 DEF Taken, NoPacket, TypeOK
    <2> QED
        BY <1>1, <2>1 DEF Unstuck, AcksHarmless, Harmless
<1>4. CASE UNCHANGED tx
    BY <1>3, <1>4 DEF Unstuck, NeverStuck, TxIn, Missing
<1>5. ASSUME NEW s \in Matching(n, ack), ApplyAck(n, s, ack) PROVE NeverStuck'
    <2>1. /\ s \in TxSlot /\ tx[n][s] \in TxDatagram /\ tx[n][s].state = "OPEN"
          /\ tx[n][s].data \in Payload
        BY <1>1 DEF Matching, TxIn, TypeInv, Loaded
    <2>2. \E f \in Full(Length[tx[n][s].data]) : f \notin tx[n][s].acked
        BY <2>1 DEF Unstuck, NeverStuck, TxIn, Missing
    <2> DEFINE Lacking(slot) == slot.state = "OPEN" =>
                   \E f \in Full(Length[slot.data]) : f \notin slot.acked
    <2>3. ASSUME NEW slot, Lacking(slot), tx' = [tx EXCEPT ![n] = [tx[n] EXCEPT ![s] = slot]]
          PROVE  NeverStuck'
        <3>1. /\ tx'[n] = [tx[n] EXCEPT ![s] = slot]
              /\ \A m \in Node : m # n => tx'[m] = tx[m]
            BY <1>1, <2>3 DEF TypeOK
        <3>2. ASSUME NEW m \in Node, NEW t \in TxSlot PROVE Lacking(tx'[m][t])
            <4>1. Lacking(tx[m][t])
                BY DEF Unstuck, NeverStuck, TxIn, Missing
            <4>2. CASE m = n /\ t = s
                BY <1>1, <2>1, <2>3, <3>1, <4>2
            <4>3. CASE ~(m = n /\ t = s)
                <5>1. tx'[m][t] = tx[m][t]
                    BY <1>1, <3>1, <4>3
                <5> QED
                    BY <4>1, <5>1
            <4> QED
                BY <4>2, <4>3
        <3> QED
            BY <3>2 DEF NeverStuck, TxIn, Missing
    <2>4. CASE ack.failure = "CREDIT_WITHDRAWAL"
        <3>1. tx' = [tx EXCEPT ![n] = [tx[n] EXCEPT ![s] = Withdraw(tx[n][s], ack)]]
            BY <1>5, <2>4 DEF ApplyAck
        <3>2. /\ Withdraw(tx[n][s], ack).data = tx[n][s].data
              /\ Withdraw(tx[n][s], ack).acked = tx[n][s].acked \cap ack.bitmap
            BY <2>1 DEF Withdraw, TxDatagram
        <3>3. Lacking(Withdraw(tx[n][s], ack))
            BY <2>2, <3>2
        <3> HIDE DEF Lacking
        <3> QED
            BY <2>3, <3>1, <3>3
    <2>5. CASE ack.failure # "CREDIT_WITHDRAWAL" /\ Finished(tx[n][s], ack)
        <3>1. tx' = [tx EXCEPT ![n] = [tx[n] EXCEPT ![s] = EmptyTx]]
            BY <1>5, <2>5 DEF ApplyAck
        <3>2. Lacking(EmptyTx)
            BY DEF EmptyTx
        <3> HIDE DEF Lacking
        <3> QED
            BY <2>3, <3>1, <3>2
    <2>6. CASE ack.failure # "CREDIT_WITHDRAWAL" /\ ~Finished(tx[n][s], ack)
        <3> DEFINE slot == [tx[n][s] EXCEPT !.acked = @ \cup ack.bitmap]
        <3>1. tx' = [tx EXCEPT ![n] = [tx[n] EXCEPT ![s] = slot]]
            BY <1>5, <2>6 DEF ApplyAck
        <3>2. slot.data = tx[n][s].data /\ slot.acked = tx[n][s].acked \cup ack.bitmap
            BY <2>1 DEF TxDatagram
        <3> HIDE DEF slot
        <3>3. Lacking(slot)
            <4>1. CASE ack.failure = "NONE"
                BY <2>6, <3>2, <4>1 DEF Finished
            <4>2. CASE ack.failure = "ALLOCATION_FAILURE"
                BY <1>2, <2>2, <3>2, <4>2 DEF Harmless
            <4> QED
                BY <1>2, <2>6, <4>1, <4>2 DEF Harmless, Failure
        <3> HIDE DEF Lacking
        <3> QED
            BY <2>3, <3>1, <3>3
    <2> QED
        BY <2>4, <2>5, <2>6
<1> QED
    BY <1>3, <1>4, <1>5 DEF HandleAck, Unstuck

\* A step that leaves the sender's slots alone.
LEMMA SameSlotsUnstuck ==
    ASSUME NeverStuck, UNCHANGED tx
    PROVE  NeverStuck'
    BY DEF NeverStuck, TxIn, Missing

LEMMA NextUnstuck ==
    ASSUME NoIdReuse, TypeInv, Numbered, Safe, Unstuck, [Next]_vars
    PROVE  Unstuck'
<1>1. CASE UNCHANGED vars
    <2>1. UNCHANGED <<tx, pending, air, rx, window, delivered, completed>>
        BY <1>1 DEF vars, sender, receiver
    <2> QED
        BY <2>1, QuietSafe
<1>2. ASSUME NEW n \in Node, Step(n) PROVE Unstuck'
    <2>0. TypeOK /\ air \in [Node -> Packet] /\ pending[n] \in Seq(Ack)
        BY DEF TypeInv, TypeOK
    <2>1. CASE HandleData(n)
        <3>1. UNCHANGED tx
            BY <2>1 DEF HandleData, sender
        <3> QED
            BY <2>1, <3>1, HandleDataHarmless, SameSlotsUnstuck DEF Unstuck
    <2>2. CASE HandleAck(n)
        BY <2>2, HandleAckUnstuck
    <2>3. CASE NoPacketEvent(n)
        <3>1. UNCHANGED <<tx, pending>> /\ air' \in {air, Taken(n)}
            BY <2>3 DEF NoPacketEvent, sender
        <3>2. \A m \in Node : air'[m].type = "ACK" => air'[m] = air[m]
            BY <2>0, <3>1 DEF Taken, NoPacket
        <3>3. AcksHarmless'
            BY <3>1, <3>2 DEF Unstuck, AcksHarmless, Harmless
        <3> QED
            BY <3>1, <3>3, SameSlotsUnstuck DEF Unstuck
    <2>4. CASE TickDeliver(n)
        <3> DEFINE s == Least(Deliverable(n))
                   slots == rx[n]
        <3>1. UNCHANGED tx /\ slots \in [RxSlot -> RxDatagram]
            BY <2>0, <2>4 DEF TickDeliver, sender, TypeOK
        <3>2. Deliverable(n) \subseteq Nat /\ Deliverable(n) # {}
            BY <2>4 DEF TickDeliver, Deliverable, RxSlot
        <3>3. s \in RxSlot /\ Egress(n) > 0
            BY <3>2, LeastIsMember DEF Deliverable
        <3>4. CompleteRxSlot(n, s, slots, air)
            BY <2>4 DEF TickDeliver
        <3> HIDE DEF s, slots
        <3>5. AcksHarmless'
            BY <2>0, <3>1, <3>3, <3>4, CompletedHarmless DEF Unstuck
        <3> QED
            BY <3>1, <3>5, SameSlotsUnstuck DEF Unstuck
    <2>5. CASE TickAck(n)
        <3>1. UNCHANGED tx
            BY <2>5 DEF TickAck, sender
        <3>2. SendPendingAck(n, air, pending[n])
            BY <2>0, <2>5 DEF TickAck, SendPendingAck, TypeOK
        <3>3. \A j \in DOMAIN pending[n] : Harmless(pending[n][j])
            BY DEF Unstuck, AcksHarmless
        <3>4. AcksHarmless'
            BY <2>0, <3>2, <3>3, SentHarmless DEF Unstuck
        <3> QED
            BY <3>1, <3>4, SameSlotsUnstuck DEF Unstuck
    <2>6. CASE TickData(n)
        BY <2>6, TickDataSafe
    <2>7. CASE Submit(n)
        BY <2>7, SubmitSafe
    <2>8. CASE Idle(n) \/ Drain(n)
        <3>1. UNCHANGED <<tx, pending, air, rx, window, delivered, completed>>
              \/ UNCHANGED <<tx, pending, air>>
            BY <2>8 DEF Idle, Drain, sender, receiver
        <3> QED
            BY <3>1, QuietSafe, SameSlotsUnstuck DEF Unstuck, AcksHarmless, Harmless
    <2> QED
        BY <1>2, <2>1, <2>2, <2>3, <2>4, <2>5, <2>6, <2>7, <2>8 DEF Step
<1> QED
    BY <1>1, <1>2 DEF Next

LEMMA InitUnstuck == Init => Unstuck
<1> SUFFICES ASSUME Init PROVE Unstuck
    OBVIOUS
<1>1. NeverStuck
    BY DEF Init, NeverStuck, TxIn, EmptyTx
<1>2. AcksHarmless
    BY DEF Init, AcksHarmless, NoPacket
<1> QED
    BY <1>1, <1>2 DEF Unstuck

----------------------------------------------------------------------------
\* The theorems

\* SafetyInv is inductive, and holds of every run in which ids are not reused.
THEOREM SafetyInvariant ==
    ASSUME NoIdReuse
    PROVE  Spec => []SafetyInv
<1>1. Init => SafetyInv
    BY InitType, InitSafe DEF SafetyInv
<1>2. SafetyInv /\ [Next]_vars => SafetyInv'
    <2> SUFFICES ASSUME SafetyInv, [Next]_vars PROVE SafetyInv'
        OBVIOUS
    <2>1. [NextWithReset]_vars
        BY DEF NextWithReset
    <2> QED
        BY <2>1, NextType, NextSafe DEF SafetyInv
<1> QED
    BY <1>1, <1>2, PTL DEF Spec

\* No acknowledged loss: whatever the hop loses and however egress blocks, a
\* datagram whose slot the sender freed as acknowledged was handed to the peer's
\* host.
THEOREM NothingAcknowledgedIsLost ==
    ASSUME NoIdReuse
    PROVE  Spec => []NoAcknowledgedLoss
<1>1. SafetyInv => NoAcknowledgedLoss
    BY DEF SafetyInv, Safe
<1> QED
    BY <1>1, SafetyInvariant, PTL

\* Integrity: what a host is handed is one datagram's bytes.
THEOREM NothingDeliveredIsMixed ==
    ASSUME NoIdReuse
    PROVE  Spec => []DeliveredWhole
<1>1. SafetyInv => DeliveredWhole
    BY DEF SafetyInv, Safe
<1> QED
    BY <1>1, SafetyInvariant, PTL

\* Selective repeat: the bits a sender puts together from ACKs of different
\* moments are fragments its peer holds, and never all of them before the
\* datagram was delivered.
THEOREM AcknowledgementsAreTrue ==
    ASSUME NoIdReuse
    PROVE  Spec => []AcknowledgedWasReceived
<1>1. SafetyInv => AcknowledgedWasReceived
    BY DEF SafetyInv, Safe
<1> QED
    BY <1>1, SafetyInvariant, PTL

\* The sender is never left with a datagram it can neither retransmit nor
\* complete: no ACK, withdrawal, refusal or reordering of them ever acknowledges
\* the last fragment of an open datagram without freeing its slot.
THEOREM NothingIsStuck ==
    ASSUME NoIdReuse
    PROVE  Spec => []NeverStuck
<1>1. Init => SafetyInv /\ Unstuck
    BY InitType, InitSafe, InitUnstuck DEF SafetyInv
<1>2. SafetyInv /\ Unstuck /\ [Next]_vars => (SafetyInv /\ Unstuck)'
    <2> SUFFICES ASSUME SafetyInv, Unstuck, [Next]_vars PROVE (SafetyInv /\ Unstuck)'
        OBVIOUS
    <2>1. [NextWithReset]_vars
        BY DEF NextWithReset
    <2> QED
        BY <2>1, NextType, NextSafe, NextUnstuck DEF SafetyInv
<1>3. SafetyInv /\ Unstuck => NeverStuck
    BY DEF Unstuck
<1> QED
    BY <1>1, <1>2, <1>3, PTL DEF Spec

----------------------------------------------------------------------------
\* The datagram service.  The link delivers nothing twice, and every step of the
\* two engines is an offer, a delivery, a confirmation or an abandonment, or
\* changes nothing the hosts see, as long as no fragment arrives so late that
\* the duplicate window no longer reaches back to it.

\* The ids of the running reassemblies.
Running(slots) == {slots[s].id : s \in {t \in RxSlot : slots[t].active}}

\* The id of an unread DATA packet that handleData will not take for a duplicate.
Fresh(n) == {k \in Id : /\ air[n].type = "DATA"
                        /\ air[n].id = k
                        /\ ~Remembered(window[n], k)}

\* The hypothesis on a run: at every moment, a fragment in the receive buffer is
\* not further behind the newest datagram completed than the window surely
\* reaches, and no datagram under way is half the id space from it.
Current ==
    \A n \in Node :
        /\ air[n].type = "DATA" =>
               /\ window[n].newest - air[n].id < WindowSize - 1
               /\ NearNewest(window[n], air[n].id)
        /\ \A k \in Running(rx[n]) : NearNewest(window[n], k)

----------------------------------------------------------------------------
\* What a step does to the receiving side

\* Nothing is handed over; reassemblies run on, end, or start with a fresh id.
Holds ==
    /\ UNCHANGED <<window, delivered>>
    /\ \A m \in Node : Running(rx'[m]) \subseteq Running(rx[m]) \cup Fresh(m)

\* Node n hands over a datagram, stores its id and ends its reassembly.
Hands(n) ==
    \E id \in Running(rx[n]) \cup Fresh(n), bitmap \in SUBSET Frag :
        /\ window' = [window EXCEPT ![n] = Store(window[n], id, bitmap)]
        /\ delivered' = [delivered EXCEPT ![n] = Append(delivered[n], {id})]
        /\ Running(rx'[n]) \subseteq Running(rx[n]) \ {id}
        /\ \A m \in Node : m # n => rx'[m] = rx[m]

LEMMA CompleteRxSlotHands ==
    ASSUME TypeInv, NEW n \in Node, NEW s \in RxSlot,
           NEW slots \in [RxSlot -> RxDatagram], NEW buffers,
           Complete(slots[s]), WholeSlot(slots[s]),
           \A t \in RxSlot : t # s => slots[t] = rx[n][t],
           \A t \in RxSlot : t # s /\ rx[n][t].active => rx[n][t].id # slots[s].id,
           slots[s].id \in Running(rx[n]) \cup Fresh(n),
           CompleteRxSlot(n, s, slots, buffers)
    PROVE  Hands(n)
<1> DEFINE id == slots[s].id
           bitmap == Full(slots[s].length)
<1>1. Sources(slots[s]) = {id}
    BY SourcesOfWhole
<1>2. bitmap \in SUBSET Frag
    BY ReceivedType
<1>3. /\ window' = [window EXCEPT ![n] = Store(window[n], id, bitmap)]
      /\ delivered' = [delivered EXCEPT ![n] = Append(delivered[n], {id})]
      /\ rx' = [rx EXCEPT ![n] = [slots EXCEPT ![s] = EmptyRx]]
    BY <1>1 DEF CompleteRxSlot
<1>4. rx \in [Node -> [RxSlot -> RxDatagram]]
    BY DEF TypeInv, TypeOK
<1>5. rx'[n] = [slots EXCEPT ![s] = EmptyRx] /\ \A m \in Node : m # n => rx'[m] = rx[m]
    BY <1>3, <1>4
<1>6. ~EmptyRx.active
    BY DEF EmptyRx
<1>7. \A t \in RxSlot : rx'[n][t].active => t # s /\ rx'[n][t] = rx[n][t]
    BY <1>5, <1>6
<1>8. Running(rx'[n]) \subseteq Running(rx[n]) \ {id}
    BY <1>7 DEF Running
<1> HIDE DEF id, bitmap
<1> QED
    BY <1>2, <1>3, <1>5, <1>8 DEF Hands, id

LEMMA HandleDataHands ==
    ASSUME TypeInv, Safe, NEW n \in Node, HandleData(n)
    PROVE  UNCHANGED sender /\ (Holds \/ Hands(n))
<1> DEFINE p == air[n]
           s == Least(SlotsFor(n, p.id))
           slot == Accept(rx[n][s], p)
           slots == [rx[n] EXCEPT ![s] = slot]
<1>1. p \in DataPacket /\ p.type = "DATA" /\ p.id \in Id
      /\ p.id = p.data /\ p.length = Length[p.id]
    <2>1. p \in DataPacket /\ p.type = "DATA"
        BY DEF TypeInv, TypeOK, HandleData, Packet, AckPacket, NoPacket, DataPacket
    <2> QED
        BY <2>1 DEF DataPacket, Safe, AirData
<1>2. UNCHANGED sender /\ rx \in [Node -> [RxSlot -> RxDatagram]]
    BY DEF HandleData, TypeInv, TypeOK
<1>3. CASE UNCHANGED receiver
    BY <1>2, <1>3 DEF Holds, receiver
<1>4. CASE StoreFragment(n, p)
    <2>1. /\ s \in RxSlot
          /\ rx[n][s] \in RxDatagram
          /\ rx[n][s].active => WholeSlot(rx[n][s]) /\ rx[n][s].id = p.id
          /\ \A t \in RxSlot : t # s /\ rx[n][t].active => rx[n][t].id # p.id
        BY <1>1, <1>4, FragmentSlot DEF StoreFragment
    <2>2. p.id \in Fresh(n)
        BY <1>1, <1>4 DEF StoreFragment, Fresh
    <2> HIDE DEF p, s
    <2>3. slot \in RxDatagram /\ slot.active /\ slot.id = p.id /\ WholeSlot(slot)
        BY <1>1, <2>1, AcceptType, AcceptWhole
    <2> HIDE DEF slot
    <2>4. slots \in [RxSlot -> RxDatagram] /\ slots[s] = slot
          /\ \A t \in RxSlot : t # s => slots[t] = rx[n][t]
        BY <1>2, <2>1, <2>3
    <2>5. CASE Complete(slots[s]) /\ CompleteRxSlot(n, s, slots, Taken(n))
        <3> DEFINE buffers == Taken(n)
        <3>1. /\ WholeSlot(slots[s]) /\ slots[s].id \in Running(rx[n]) \cup Fresh(n)
              /\ \A t \in RxSlot : t # s /\ rx[n][t].active => rx[n][t].id # slots[s].id
            BY <2>1, <2>2, <2>3, <2>4
        <3>2. Complete(slots[s]) /\ CompleteRxSlot(n, s, slots, buffers)
            BY <2>5
        <3> HIDE DEF buffers, slots
        <3> QED
            BY <1>2, <2>1, <2>4, <3>1, <3>2, CompleteRxSlotHands
    <2>6. CASE /\ \/ rx' = [rx EXCEPT ![n] = slots]
                  \/ rx' = [rx EXCEPT ![n] = [slots EXCEPT ![s].waiting = TRUE]]
               /\ UNCHANGED <<window, delivered>>
        <3>1. /\ \A t \in RxSlot : t # s => rx'[n][t] = rx[n][t]
              /\ rx'[n][s].id = p.id
              /\ \A m \in Node : m # n => rx'[m] = rx[m]
            BY <1>2, <2>1, <2>3, <2>4, <2>6 DEF RxDatagram
        <3>2. Running(rx'[n]) \subseteq Running(rx[n]) \cup {p.id}
            BY <3>1 DEF Running
        <3> QED
            BY <1>2, <2>2, <2>6, <3>1, <3>2 DEF Holds
    <2> QED
        BY <1>4, <2>5, <2>6 DEF StoreFragment, p, s, slot
<1> QED
    BY <1>3, <1>4 DEF HandleData, ReceiveDuplicate, RefuseFragment, RejectFragment

LEMMA TickDeliverHands ==
    ASSUME TypeInv, Safe, NEW n \in Node, TickDeliver(n)
    PROVE  UNCHANGED sender /\ Hands(n)
<1> DEFINE s == Least(Deliverable(n))
           slots == rx[n]
<1>1. slots \in [RxSlot -> RxDatagram]
    BY DEF TypeInv, TypeOK
<1>2. Deliverable(n) \subseteq Nat /\ Deliverable(n) # {}
    BY DEF TickDeliver, Deliverable, RxSlot
<1>3. s \in Deliverable(n)
    BY <1>2, LeastIsMember
<1>4. s \in RxSlot /\ slots[s].active /\ slots[s].waiting
    BY <1>3 DEF Deliverable
<1>5. CompleteRxSlot(n, s, slots, air) /\ UNCHANGED sender
    BY DEF TickDeliver
<1> HIDE DEF s
<1>6. WholeSlot(slots[s]) /\ Complete(slots[s])
    BY <1>4 DEF Safe, RxWhole, WholeSlot, Complete
<1>7. \A t \in RxSlot : t # s /\ rx[n][t].active => rx[n][t].id # slots[s].id
    BY <1>4 DEF Safe, RxUnique
<1>8. slots[s].id \in Running(rx[n]) \cup Fresh(n)
    BY <1>4 DEF Running
<1>9. \A t \in RxSlot : t # s => slots[t] = rx[n][t]
    OBVIOUS
<1> HIDE DEF slots
<1> QED
    BY <1>1, <1>4, <1>5, <1>6, <1>7, <1>8, <1>9, CompleteRxSlotHands

\* Every step hands over a datagram or none, and one that hands over leaves the
\* senders alone.
LEMMA StepReceives ==
    ASSUME TypeInv, Safe, [Next]_vars
    PROVE  Holds \/ (UNCHANGED sender /\ \E n \in Node : Hands(n))
<1>1. CASE UNCHANGED vars
    BY <1>1 DEF Holds, vars, receiver
<1>2. ASSUME NEW n \in Node, Step(n)
      PROVE  Holds \/ (UNCHANGED sender /\ Hands(n))
    <2>1. CASE HandleData(n)
        BY <2>1, HandleDataHands
    <2>2. CASE TickDeliver(n)
        BY <2>2, TickDeliverHands
    <2>3. CASE UNCHANGED <<rx, window, delivered>>
        BY <2>3 DEF Holds
    <2>4. \/ HandleAck(n) \/ NoPacketEvent(n) \/ TickAck(n) \/ TickData(n)
          \/ Submit(n) \/ Idle(n) \/ Drain(n)
          => UNCHANGED <<rx, window, delivered>>
        BY DEF HandleAck, NoPacketEvent, TickAck, TickData, Submit, Idle, Drain, receiver
    <2> QED
        BY <1>2, <2>1, <2>2, <2>3, <2>4 DEF Step
<1> QED
    BY <1>1, <1>2 DEF Next

----------------------------------------------------------------------------
\* Nothing is delivered twice

\* A delivered datagram is remembered until the newest has left it behind.
Covered ==
    \A n \in Node : \A k \in Payload : {k} \in DeliveredAt(n) =>
        /\ k <= window[n].newest
        /\ Remembered(window[n], k) \/ window[n].newest - k >= WindowSize - 1

OnceInv ==
    /\ \A n \in Node : Numbers(window[n])
    /\ Covered
    /\ \A n \in Node : \A k \in Running(rx[n]) : {k} \notin DeliveredAt(n)
    /\ DeliveredAtMostOnce

\* What a node reassembles, or is about to, was not delivered.
LEMMA UnderWayIsNew ==
    ASSUME TypeInv, Safe, OnceInv, Current, NEW n \in Node,
           NEW k \in Running(rx[n]) \cup Fresh(n)
    PROVE  /\ k \in Id /\ k \in Payload
           /\ {k} \notin DeliveredAt(n)
           /\ ~Remembered(window[n], k)
           /\ NearNewest(window[n], k)
<1>1. CASE k \in Running(rx[n])
    <2>1. PICK s \in RxSlot : rx[n][s].active /\ rx[n][s].id = k
        BY <1>1 DEF Running
    <2>2. rx[n][s] \in RxDatagram /\ WholeSlot(rx[n][s])
        BY <2>1 DEF TypeInv, TypeOK, Safe, RxWhole
    <2>3. k \in Id /\ k \in Payload
        BY <2>1, <2>2 DEF RxDatagram, WholeSlot
    <2>4. {k} \notin DeliveredAt(n) /\ NearNewest(window[n], k)
        BY <1>1 DEF OnceInv, Current
    <2>5. ~Remembered(window[n], k)
        BY <2>4 DEF Remembered, Safe, WindowDelivered
    <2> QED
        BY <2>3, <2>4, <2>5
<1>2. CASE k \in Fresh(n)
    <2>1. k \in Id /\ air[n].type = "DATA" /\ air[n].id = k /\ ~Remembered(window[n], k)
        BY <1>2 DEF Fresh
    <2>2. air[n] \in DataPacket
        <3>1. air[n] \in Packet
            BY DEF TypeInv, TypeOK
        <3>2. air[n] \notin AckPacket /\ air[n] # NoPacket
            BY <2>1 DEF AckPacket, NoPacket
        <3> QED
            BY <3>1, <3>2 DEF Packet
    <2>3. k \in Payload
        BY <2>1, <2>2 DEF Safe, AirData, DataPacket
    <2>4. window[n].newest - k < WindowSize - 1 /\ NearNewest(window[n], k)
        BY <2>1 DEF Current
    <2>5. window[n].newest \in Int /\ k \in Int
        BY <2>1, IdSpaceIsEven DEF TypeInv, TypeOK, Window, Id, NoId
    <2>6. ~(window[n].newest - k >= WindowSize - 1)
        BY <2>4, <2>5, IdSpaceIsEven
    <2>7. {k} \notin DeliveredAt(n)
        BY <2>1, <2>3, <2>6 DEF OnceInv, Covered
    <2> QED
        BY <2>1, <2>3, <2>4, <2>7
<1> QED
    BY <1>1, <1>2

\* A sequence without repetitions, and a new item.
LEMMA AppendNew ==
    ASSUME NEW T, NEW d \in Seq(T), NEW x,
           \A i, j \in DOMAIN d : d[i] = d[j] => i = j,
           x \notin {d[i] : i \in DOMAIN d}
    PROVE  \A i, j \in DOMAIN Append(d, x) : Append(d, x)[i] = Append(d, x)[j] => i = j
<1> DEFINE N == Len(d)
<1>1. N \in Nat /\ DOMAIN d = 1 .. N /\ DOMAIN Append(d, x) = 1 .. N + 1
    OBVIOUS
<1>2. (\A i \in 1 .. N : Append(d, x)[i] = d[i]) /\ Append(d, x)[N + 1] = x
    OBVIOUS
<1> HIDE DEF N
<1>3. \A i \in 1 .. N + 1 : i \in 1 .. N \/ i = N + 1
    BY <1>1
<1> QED
    BY <1>1, <1>2, <1>3

LEMMA HandsOnce ==
    ASSUME TypeInv, Safe, OnceInv, Current, NEW n \in Node, Hands(n)
    PROVE  OnceInv'
<1>1. PICK id \in Running(rx[n]) \cup Fresh(n), bitmap \in SUBSET Frag :
          /\ window' = [window EXCEPT ![n] = Store(window[n], id, bitmap)]
          /\ delivered' = [delivered EXCEPT ![n] = Append(delivered[n], {id})]
          /\ Running(rx'[n]) \subseteq Running(rx[n]) \ {id}
          /\ \A m \in Node : m # n => rx'[m] = rx[m]
    BY DEF Hands
<1>2. /\ id \in Id /\ id \in Payload /\ {id} \notin DeliveredAt(n)
      /\ ~Remembered(window[n], id) /\ NearNewest(window[n], id)
    BY UnderWayIsNew
<1>3. /\ window \in [Node -> Window(Frag)]
      /\ delivered \in [Node -> Seq(SUBSET (Payload \cup {NoData}))]
    BY DEF TypeInv, TypeOK
<1> DEFINE w == window[n]
           v == Store(w, id, bitmap)
           x == {id}
<1>4. window'[n] = v /\ \A m \in Node : m # n => window'[m] = window[m]
    BY <1>1, <1>3
<1>5. w \in Window(Frag) /\ Numbers(w)
    BY <1>3 DEF OnceInv
<1>6. /\ v.newest = IF id > w.newest THEN id ELSE w.newest
      /\ Numbers(v)
      /\ \A k \in Id : Remembered(w, k) /\ v.newest - k < WindowSize - 1 => Remembered(v, k)
      /\ v.newest - id < WindowSize => Remembered(v, id)
    <2> HIDE DEF w
    <2> QED
        BY <1>2, <1>5, StoreNumbers DEF w
<1>7. /\ DeliveredAt(n)' = DeliveredAt(n) \cup {x}
      /\ \A m \in Node : m # n => DeliveredAt(m)' = DeliveredAt(m)
    <2>1. delivered' = [delivered EXCEPT ![n] = Append(delivered[n], x)] /\ TypeOK
        BY <1>1 DEF TypeInv
    <2> HIDE DEF x
    <2> QED
        BY <2>1, DeliveredGrows
<1> HIDE DEF w, v
<1>8. \A m \in Node : Numbers(window'[m])
    BY <1>4, <1>6 DEF OnceInv
<1>9. w.newest \in Int /\ id \in Int /\ v.newest \in Int /\ Payload \subseteq Int
    BY <1>2, <1>5, <1>6, IdSpaceIsEven, LinkAssumption DEF Window, Id, NoId, Payload
<1>10. Covered'
    <2> SUFFICES ASSUME NEW m \in Node, NEW k \in Payload, {k} \in DeliveredAt(m)'
                 PROVE  /\ k <= window'[m].newest
                        /\ Remembered(window'[m], k) \/ window'[m].newest - k >= WindowSize - 1
        BY DEF Covered
    <2>1. CASE m # n
        BY <1>4, <1>7, <2>1 DEF OnceInv, Covered
    <2>2. CASE m = n /\ k = id
        <3>1. k <= v.newest /\ (v.newest - k < WindowSize \/ v.newest - k >= WindowSize - 1)
            BY <1>6, <1>9, <2>2, IdSpaceIsEven
        <3> QED
            BY <1>4, <1>6, <2>2, <3>1
    <2>3. CASE m = n /\ k # id
        <3>1. {k} \in DeliveredAt(n)
            BY <1>7, <2>3
        <3>2. k <= w.newest /\ (Remembered(w, k) \/ w.newest - k >= WindowSize - 1)
            BY <3>1 DEF OnceInv, Covered, w
        <3>3. k \in Int /\ k <= v.newest
              /\ (w.newest - k >= WindowSize - 1 => v.newest - k >= WindowSize - 1)
            BY <1>6, <1>9, <3>2, IdSpaceIsEven
        <3>4. Remembered(w, k) => k \in Id
            BY <1>5 DEF Remembered, Numbers
        <3>5. CASE v.newest - k < WindowSize - 1
            <4>1. ~(v.newest - k >= WindowSize - 1)
                BY <1>9, <3>3, <3>5, IdSpaceIsEven
            <4>2. Remembered(w, k)
                BY <3>2, <3>3, <4>1
            <4> QED
                BY <1>4, <1>6, <2>3, <3>3, <3>4, <3>5, <4>2
        <3>6. CASE ~(v.newest - k < WindowSize - 1)
            <4>1. v.newest - k >= WindowSize - 1
                BY <1>9, <3>3, <3>6, IdSpaceIsEven
            <4> QED
                BY <1>4, <2>3, <3>3, <4>1
        <3> QED
            BY <3>5, <3>6
    <2> QED
        BY <2>1, <2>2, <2>3
<1>11. \A m \in Node : \A k \in Running(rx'[m]) : {k} \notin DeliveredAt(m)'
    <2> SUFFICES ASSUME NEW m \in Node, NEW k \in Running(rx'[m])
                 PROVE  {k} \notin DeliveredAt(m)'
        OBVIOUS
    <2>1. CASE m = n
        <3>1. k \in Running(rx[n]) /\ k # id
            BY <1>1, <2>1
        <3>2. {k} \notin DeliveredAt(n) /\ {k} # x
            BY <3>1 DEF OnceInv
        <3> QED
            BY <1>7, <2>1, <3>2
    <2>2. CASE m # n
        <3>1. k \in Running(rx[m])
            BY <1>1, <2>2
        <3>2. {k} \notin DeliveredAt(m)
            BY <3>1 DEF OnceInv
        <3> QED
            BY <1>7, <2>2, <3>2
    <2> QED
        BY <2>1, <2>2
<1>12. DeliveredAtMostOnce'
    <2> SUFFICES ASSUME NEW m \in Node
                 PROVE  \A i, j \in DOMAIN delivered'[m] :
                            delivered'[m][i] = delivered'[m][j] => i = j
        BY DEF DeliveredAtMostOnce
    <2>1. CASE m # n
        BY <1>1, <1>3, <2>1 DEF OnceInv, DeliveredAtMostOnce
    <2>2. CASE m = n
        <3> DEFINE d == delivered[n]
        <3>1. d \in Seq(SUBSET (Payload \cup {NoData})) /\ delivered'[m] = Append(d, x)
            BY <1>1, <1>3, <2>2
        <3>2. \A i, j \in DOMAIN d : d[i] = d[j] => i = j
            BY DEF OnceInv, DeliveredAtMostOnce
        <3>3. x \notin {d[i] : i \in DOMAIN d}
            BY <1>2 DEF DeliveredAt
        <3> HIDE DEF d, x
        <3> QED
            BY <3>1, <3>2, <3>3, AppendNew
    <2> QED
        BY <2>1, <2>2
<1> QED
    BY <1>8, <1>10, <1>11, <1>12 DEF OnceInv

LEMMA HoldsOnce ==
    ASSUME TypeInv, Safe, OnceInv, Current, Holds
    PROVE  OnceInv'
<1>1. \A m \in Node : DeliveredAt(m)' = DeliveredAt(m)
    BY DEF Holds, DeliveredAt
<1>2. \A m \in Node : \A k \in Running(rx'[m]) : {k} \notin DeliveredAt(m)'
    <2> SUFFICES ASSUME NEW m \in Node, NEW k \in Running(rx'[m])
                 PROVE  {k} \notin DeliveredAt(m)
        BY <1>1
    <2>1. k \in Running(rx[m]) \cup Fresh(m)
        BY DEF Holds
    <2> QED
        BY <2>1, UnderWayIsNew
<1>3. \A m \in Node : Numbers(window'[m])
    BY DEF Holds, OnceInv
<1>4. Covered' /\ DeliveredAtMostOnce'
    BY <1>1 DEF Holds, OnceInv, Covered, DeliveredAtMostOnce
<1> QED
    BY <1>2, <1>3, <1>4 DEF OnceInv

LEMMA InitOnce == Init => OnceInv
<1> SUFFICES ASSUME Init PROVE OnceInv
    OBVIOUS
<1>1. \A n \in Node : /\ window[n].newest = NoId /\ window[n].acks = {}
                      /\ delivered[n] = <<>>
                      /\ \A s \in RxSlot : ~rx[n][s].active
    BY DEF Init, EmptyWindow, EmptyRx
<1>2. \A n \in Node : DeliveredAt(n) = {} /\ Running(rx[n]) = {} /\ Numbers(window[n])
    BY <1>1 DEF DeliveredAt, Running, Numbers, Distinct
<1> QED
    BY <1>1, <1>2 DEF OnceInv, Covered, DeliveredAtMostOnce

LEMMA StepOnce ==
    ASSUME TypeInv, Safe, OnceInv, Current, [Next]_vars
    PROVE  OnceInv'
    BY StepReceives, HoldsOnce, HandsOnce

\* Exactly-once delivery: no loss, retransmission, repeated ACK or egress stall
\* makes a modem hand a datagram to its host a second time, as long as the
\* duplicate window reaches back to the fragments that still arrive.
THEOREM NothingIsDeliveredTwice ==
    ASSUME NoIdReuse
    PROVE  Spec /\ []Current => []DeliveredAtMostOnce
<1>1. Init => OnceInv
    BY InitOnce
<1>2. SafetyInv /\ OnceInv /\ Current /\ [Next]_vars => OnceInv'
    BY StepOnce DEF SafetyInv
<1>3. OnceInv => DeliveredAtMostOnce
    BY DEF OnceInv
<1>4. Spec => []SafetyInv
    BY SafetyInvariant
<1> QED
    BY <1>1, <1>2, <1>3, <1>4, PTL DEF Spec

\* While the peer's datagrams all fit in the window, nothing can be that late.
NewestIsPayload == \A n \in Node : window[n].newest \in Payload \cup {NoId}

LEMMA StepNewest ==
    ASSUME TypeInv, Safe, NewestIsPayload, [Next]_vars
    PROVE  NewestIsPayload'
<1>1. CASE Holds
    BY <1>1 DEF Holds, NewestIsPayload
<1>2. ASSUME NEW n \in Node, Hands(n) PROVE NewestIsPayload'
    <2>1. PICK id \in Running(rx[n]) \cup Fresh(n), bitmap \in SUBSET Frag :
              window' = [window EXCEPT ![n] = Store(window[n], id, bitmap)]
        BY <1>2 DEF Hands
    <2>2. id \in Payload
        <3>1. CASE id \in Running(rx[n])
            BY <3>1 DEF Running, Safe, RxWhole, WholeSlot
        <3>2. CASE id \in Fresh(n)
            <4>1. air[n].type = "DATA" /\ air[n].id = id
                BY <3>2 DEF Fresh
            <4>2. air[n] \in DataPacket
                <5>1. air[n] \in Packet
                    BY DEF TypeInv, TypeOK
                <5>2. air[n] \notin AckPacket /\ air[n] # NoPacket
                    BY <4>1 DEF AckPacket, NoPacket
                <5> QED
                    BY <5>1, <5>2 DEF Packet
            <4> QED
                BY <4>1, <4>2 DEF Safe, AirData, DataPacket
        <3> QED
            BY <3>1, <3>2
    <2>3. Store(window[n], id, bitmap).newest \in {id, window[n].newest}
        BY DEF Store, NewestAfter
    <2>4. window \in [Node -> Window(Frag)]
        BY DEF TypeInv, TypeOK
    <2> QED
        BY <2>1, <2>2, <2>3, <2>4 DEF NewestIsPayload
<1> QED
    BY <1>1, <1>2, StepReceives

\* In a session of fewer datagrams than the window holds the hypothesis on the
\* run is true by itself: the datagrams under way and the newest are less than
\* WindowSize - 1 apart.
LEMMA FirstWindowIsCurrent ==
    ASSUME \A n \in Node : Submits[n] < WindowSize, TypeInv, Safe, NewestIsPayload
    PROVE  Current
<1>1. \A k \in Payload : k \in 0 .. WindowSize - 2
    BY LinkAssumption, IdSpaceIsEven DEF Payload
<1>2. ASSUME NEW n \in Node, NEW k \in Payload
      PROVE  window[n].newest - k < WindowSize - 1 /\ NearNewest(window[n], k)
    <2>1. window[n].newest \in Payload \/ window[n].newest = NoId
        BY DEF NewestIsPayload
    <2>2. k \in 0 .. WindowSize - 2
        BY <1>1
    <2>3. CASE window[n].newest = NoId
        BY <2>2, <2>3, IdSpaceIsEven DEF NearNewest, NoId
    <2>4. CASE window[n].newest \in Payload
        <3>1. window[n].newest \in 0 .. WindowSize - 2
            BY <1>1, <2>4
        <3>2. /\ window[n].newest - k < WindowSize - 1
              /\ k - window[n].newest \in -(Half - 1) .. Half - 1
            BY <2>2, <3>1, IdSpaceIsEven
        <3> QED
            BY <3>2 DEF NearNewest
    <2> QED
        BY <2>1, <2>3, <2>4
<1>3. ASSUME NEW n \in Node, air[n].type = "DATA" PROVE air[n].id \in Payload
    <2>1. air[n] \in Packet
        BY DEF TypeInv, TypeOK
    <2>2. air[n] \notin AckPacket /\ air[n] # NoPacket
        BY <1>3 DEF AckPacket, NoPacket
    <2>3. air[n] \in DataPacket
        BY <2>1, <2>2 DEF Packet
    <2> QED
        BY <1>3, <2>3 DEF Safe, AirData, DataPacket
<1>4. ASSUME NEW n \in Node, NEW k \in Running(rx[n]) PROVE k \in Payload
    BY DEF Running, Safe, RxWhole, WholeSlot
<1> QED
    BY <1>2, <1>3, <1>4 DEF Current

LEMMA FirstWindowInvariant ==
    ASSUME \A n \in Node : Submits[n] < WindowSize
    PROVE  NoIdReuse /\ (Spec => []Current)
<1>1. NoIdReuse
    BY LinkAssumption, IdSpaceIsEven DEF NoIdReuse
<1>2. Spec => []SafetyInv
    BY <1>1, SafetyInvariant
<1>3. Init => NewestIsPayload
    BY DEF Init, EmptyWindow, NewestIsPayload
<1>4. SafetyInv /\ NewestIsPayload /\ [Next]_vars => NewestIsPayload'
    BY StepNewest DEF SafetyInv
<1>5. SafetyInv /\ NewestIsPayload => Current
    BY FirstWindowIsCurrent DEF SafetyInv
<1>6. Spec => []Current
    BY <1>2, <1>3, <1>4, <1>5, PTL DEF Spec
<1> QED
    BY <1>1, <1>6

\* Exactly-once delivery of the first WindowSize - 1 datagrams each way, with no
\* hypothesis on the run.
THEOREM FirstWindowIsDeliveredOnce ==
    ASSUME \A n \in Node : Submits[n] < WindowSize
    PROVE  Spec => []DeliveredAtMostOnce
<1>1. NoIdReuse /\ (Spec => []Current)
    BY FirstWindowInvariant
<1>2. Spec /\ []Current => []DeliveredAtMostOnce
    BY <1>1, NothingIsDeliveredTwice
<1> QED
    BY <1>1, <1>2, PTL

----------------------------------------------------------------------------
\* Where what is in the air comes from

\* A DATA packet that appears in a receive buffer is of a datagram in one of the
\* peer's slots.
AirFrom(m) ==
    air'[m].type = "DATA" =>
        \/ air'[m] = air[m]
        \/ \E s \in TxSlot : /\ tx[Peer(m)][s].state # "EMPTY"
                             /\ tx[Peer(m)][s].data = air'[m].data

LEMMA AckAir ==
    ASSUME NEW n \in Node, NEW buffers \in [Node -> Packet], NEW queue,
           \A m \in Node : buffers[m] \in {air[m], NoPacket},
           SendPendingAck(n, buffers, queue)
    PROVE  \A m \in Node : AirFrom(m)
<1> SUFFICES ASSUME NEW m \in Node, air'[m].type = "DATA" PROVE air'[m] = air[m]
    BY DEF AirFrom
<1>1. \A a : [type |-> "ACK", ack |-> a].type # "DATA" /\ NoPacket.type # "DATA"
    BY DEF NoPacket
<1>2. CASE air' = buffers
    BY <1>1, <1>2
<1>3. CASE air' = [buffers EXCEPT ![Peer(n)] = [type |-> "ACK", ack |-> Head(queue)]]
    <2>1. m # Peer(n)
        BY <1>1, <1>3
    <2>2. air'[m] = buffers[m]
        BY <1>3, <2>1
    <2> QED
        BY <1>1, <2>2
<1> QED
    BY <1>2, <1>3 DEF SendPendingAck, Transmit

LEMMA SendRoundAir ==
    ASSUME TypeOK, NEW n \in Node, NEW slots, NEW s \in TxSlot,
           tx[n][s].state # "EMPTY", slots[s].data = tx[n][s].data, SendRound(n, slots, s)
    PROVE  \A m \in Node : AirFrom(m)
<1> SUFFICES ASSUME NEW m \in Node, air'[m].type = "DATA", air'[m] # air[m]
             PROVE  tx[Peer(m)][s].state # "EMPTY" /\ tx[Peer(m)][s].data = air'[m].data
    BY DEF AirFrom
<1>1. PICK f : air' = [air EXCEPT ![Peer(n)] = FragmentPacket(slots[s], f)]
    BY DEF SendRound, Transmit
<1>2. air \in [Node -> Packet]
    BY DEF TypeOK
<1>3. m = Peer(n) /\ air'[m] = FragmentPacket(slots[s], f)
    BY <1>1, <1>2
<1>4. Peer(m) = n
    BY <1>3, PeerIsNode
<1>5. air'[m].data = slots[s].data
    BY <1>3 DEF FragmentPacket
<1> QED
    BY <1>4, <1>5

LEMMA TryOpenQueuedAir ==
    ASSUME TypeOK, NEW n \in Node, NEW slots \in [TxSlot -> TxDatagram],
           \A t \in TxSlot : slots[t].state = "QUEUED" => slots[t] = tx[n][t],
           TryOpenQueued(n, slots)
    PROVE  \A m \in Node : AirFrom(m)
<1>1. CASE OpenQueued(n, slots)
    <2> DEFINE s == Least(TxIn(slots, "QUEUED"))
               opened == [slots EXCEPT ![s] = Opened(slots[s])]
    <2>1. s \in TxSlot /\ slots[s].state = "QUEUED"
        BY <1>1, LeastSlot DEF OpenQueued
    <2>2. SendRound(n, opened, s)
        BY <1>1 DEF OpenQueued
    <2> HIDE DEF s
    <2>3. opened[s].data = slots[s].data
        BY <2>1 DEF Opened, TxDatagram
    <2>4. tx[n][s].state # "EMPTY" /\ opened[s].data = tx[n][s].data
        BY <2>1, <2>3
    <2> HIDE DEF opened
    <2> QED
        BY <2>1, <2>2, <2>4, SendRoundAir
<1>2. CASE KeepQueued(n, slots)
    BY <1>2 DEF KeepQueued, AirFrom
<1> QED
    BY <1>1, <1>2 DEF TryOpenQueued

LEMMA TickDataAir ==
    ASSUME TypeInv, NEW n \in Node, TickData(n)
    PROVE  \A m \in Node : AirFrom(m)
<1>1. TypeOK /\ tx[n] \in [TxSlot -> TxDatagram]
    BY DEF TypeInv, TypeOK
<1>2. CASE Retransmit(n)
    <2>1. PICK s \in TxIn(tx[n], "OPEN") :
              SendRound(n, [tx[n] EXCEPT ![s].attempts = @ + 1,
                                         ![s].round = Missing(tx[n][s]),
                                         ![s].next = 0], s)
        BY <1>2 DEF Retransmit
    <2> DEFINE slots == [tx[n] EXCEPT ![s].attempts = @ + 1,
                                      ![s].round = Missing(tx[n][s]),
                                      ![s].next = 0]
    <2>2. s \in TxSlot /\ tx[n][s].state # "EMPTY" /\ slots[s].data = tx[n][s].data
        BY <1>1, <2>1 DEF TxIn, TxDatagram
    <2>3. SendRound(n, slots, s)
        BY <2>1
    <2> HIDE DEF slots
    <2> QED
        BY <1>1, <2>2, <2>3, SendRoundAir
<1>3. CASE GiveUp(n)
    <2>1. PICK s \in TxIn(tx[n], "OPEN") : TryOpenQueued(n, [tx[n] EXCEPT ![s] = EmptyTx])
        BY <1>3 DEF GiveUp
    <2> DEFINE slots == [tx[n] EXCEPT ![s] = EmptyTx]
    <2>2. EmptyTx \in TxDatagram /\ EmptyTx.state = "EMPTY"
        BY LinkAssumption, WindowAssumption DEF EmptyTx, TxDatagram, Id
    <2>3. /\ slots \in [TxSlot -> TxDatagram] /\ TryOpenQueued(n, slots)
          /\ \A t \in TxSlot : slots[t].state = "QUEUED" => slots[t] = tx[n][t]
        BY <1>1, <2>1, <2>2
    <2> HIDE DEF slots
    <2> QED
        BY <1>1, <2>3, TryOpenQueuedAir
<1>4. CASE SendOpenData(n)
    <2>1. PICK s \in TxIn(tx[n], "OPEN") : SendRound(n, tx[n], s)
        BY <1>4 DEF SendOpenData
    <2>2. s \in TxSlot /\ tx[n][s].state # "EMPTY"
        BY DEF TxIn
    <2> QED
        BY <1>1, <2>1, <2>2, SendRoundAir
<1>5. CASE OpenNext(n)
    BY <1>1, <1>5, TryOpenQueuedAir DEF OpenNext
<1>6. CASE AwaitAck(n)
    BY <1>6 DEF AwaitAck, AirFrom
<1> QED
    BY <1>2, <1>3, <1>4, <1>5, <1>6 DEF TickData

LEMMA StepAir ==
    ASSUME TypeInv, [Next]_vars
    PROVE  \A m \in Node : AirFrom(m)
<1>1. air \in [Node -> Packet]
    BY DEF TypeInv, TypeOK
<1>2. CASE UNCHANGED vars
    BY <1>2 DEF vars, AirFrom
<1>3. ASSUME NEW n \in Node, Step(n)
      PROVE  \A m \in Node : AirFrom(m)
    <2>1. Taken(n) \in [Node -> Packet] /\ \A m \in Node : Taken(n)[m] \in {air[m], NoPacket}
        BY <1>1, TakenType DEF Taken, TypeInv
    <2>2. CASE HandleData(n)
        <3>1. \E queue : SendPendingAck(n, Taken(n), queue)
            BY <2>2 DEF HandleData, ReceiveDuplicate, RefuseFragment, RejectFragment,
                        StoreFragment, QueueAck, CompleteRxSlot
        <3> QED
            BY <2>1, <3>1, AckAir
    <2>3. CASE TickDeliver(n)
        <3>1. \E queue : SendPendingAck(n, air, queue)
            BY <2>3 DEF TickDeliver, CompleteRxSlot
        <3> QED
            BY <1>1, <3>1, AckAir
    <2>4. CASE TickAck(n)
        <3>1. SendPendingAck(n, air, pending[n])
            BY <2>4 DEF TickAck, SendPendingAck
        <3> QED
            BY <1>1, <3>1, AckAir
    <2>5. CASE TickData(n)
        BY <2>5, TickDataAir
    <2>6. CASE air' \in {air, Taken(n)}
        <3> SUFFICES ASSUME NEW m \in Node, air'[m].type = "DATA" PROVE air'[m] = air[m]
            BY DEF AirFrom
        <3>1. NoPacket.type # "DATA"
            BY DEF NoPacket
        <3> QED
            BY <2>1, <2>6, <3>1
    <2>7. HandleAck(n) \/ NoPacketEvent(n) \/ Submit(n) \/ Idle(n) \/ Drain(n)
              => air' \in {air, Taken(n)}
        BY DEF HandleAck, NoPacketEvent, Submit, Idle, Drain
    <2> QED
        BY <1>3, <2>2, <2>3, <2>4, <2>5, <2>6, <2>7 DEF Step
<1> QED
    BY <1>2, <1>3 DEF Next

\* Fragments in the air and in reassemblies are of datagrams that the peer's
\* host really submitted.
OriginInv ==
    \A n \in Node :
        /\ air[n].type = "DATA" => air[n].data \in 0 .. submitted[Peer(n)] - 1
        /\ Running(rx[n]) \subseteq 0 .. submitted[Peer(n)] - 1

\* What a node reassembles, or is about to, was submitted.
LEMMA UnderWayWasSubmitted ==
    ASSUME Safe, OriginInv, NEW n \in Node, NEW k \in Running(rx[n]) \cup Fresh(n)
    PROVE  k \in 0 .. submitted[Peer(n)] - 1
<1>1. CASE k \in Running(rx[n])
    BY <1>1 DEF OriginInv
<1>2. CASE k \in Fresh(n)
    BY <1>2 DEF Fresh, OriginInv, Safe, AirData
<1> QED
    BY <1>1, <1>2

\* The hosts' counts never go back.
LEMMA StepSubmitted ==
    ASSUME TypeInv, [Next]_vars
    PROVE  \A n \in Node : submitted'[n] \in Nat /\ submitted[n] <= submitted'[n]
<1>1. submitted \in [Node -> Nat]
    BY DEF TypeInv, TypeOK
<1>2. submitted' = submitted \/ \E n \in Node : submitted' = [submitted EXCEPT ![n] = @ + 1]
    BY StepVerdict DEF Keeps, Offers, Confirms, Abandons
<1> QED
    BY <1>1, <1>2

LEMMA StepOrigin ==
    ASSUME TypeInv, Safe, VerdictInv, OriginInv, [Next]_vars
    PROVE  OriginInv'
<1>1. /\ \A n \in Node : submitted[n] \in Nat /\ submitted'[n] \in Nat
      /\ \A n \in Node : submitted[n] <= submitted'[n]
    BY StepSubmitted DEF TypeInv, TypeOK
<1>2. ASSUME NEW n \in Node, NEW k \in 0 .. submitted[Peer(n)] - 1
      PROVE  k \in 0 .. submitted'[Peer(n)] - 1
    BY <1>1, PeerIsNode
<1>3. ASSUME NEW n \in Node, air'[n].type = "DATA"
      PROVE  air'[n].data \in 0 .. submitted'[Peer(n)] - 1
    <2>1. CASE air'[n] = air[n]
        <3>1. air[n].data \in 0 .. submitted[Peer(n)] - 1
            BY <1>3, <2>1 DEF OriginInv
        <3> QED
            BY <1>2, <2>1, <3>1
    <2>2. ASSUME NEW s \in TxSlot, tx[Peer(n)][s].state # "EMPTY",
                 tx[Peer(n)][s].data = air'[n].data
          PROVE  air'[n].data \in 0 .. submitted'[Peer(n)] - 1
        <3>1. Peer(n) \in Node /\ tx[Peer(n)][s].data \in Payload
            BY <2>2, PeerIsNode DEF TypeInv, Loaded
        <3>2. Load(tx[Peer(n)])[s] = air'[n].data /\ Load(tx[Peer(n)])[s] # NoData
            BY <2>2, <3>1, PayloadIsNat DEF Load
        <3>3. air'[n].data \in 0 .. submitted[Peer(n)] - 1
            BY <3>1, <3>2 DEF VerdictInv, Account
        <3> QED
            BY <1>2, <3>3
    <2> QED
        BY <1>3, <2>1, <2>2, StepAir DEF AirFrom
<1>4. ASSUME NEW n \in Node, NEW k \in Running(rx'[n])
      PROVE  k \in 0 .. submitted'[Peer(n)] - 1
    <2>1. k \in Running(rx[n]) \cup Fresh(n)
        <3>1. CASE Holds
            BY <1>4, <3>1 DEF Holds
        <3>2. ASSUME NEW m \in Node, Hands(m)
              PROVE  k \in Running(rx[n])
            <4>1. CASE m = n
                BY <1>4, <3>2, <4>1 DEF Hands
            <4>2. CASE m # n
                BY <1>4, <3>2, <4>2 DEF Hands
            <4> QED
                BY <4>1, <4>2
        <3> QED
            BY <3>1, <3>2, StepReceives
    <2> QED
        BY <1>2, <2>1, UnderWayWasSubmitted
<1> QED
    BY <1>3, <1>4 DEF OriginInv

LEMMA InitOrigin == Init => OriginInv
<1> SUFFICES ASSUME Init PROVE OriginInv
    OBVIOUS
<1>1. \A n \in Node : air[n].type # "DATA" /\ Running(rx[n]) = {}
    BY DEF Init, NoPacket, EmptyRx, Running
<1> QED
    BY <1>1 DEF OriginInv

----------------------------------------------------------------------------
\* The refinement, step by step

ServiceInv == SafetyInv /\ VerdictInv /\ OnceInv /\ OriginInv

LEMMA SameNodes == Service!Node = Node /\ \A n \in Node : Service!Peer(n) = Peer(n)
    BY DEF Service!Node, Node, Service!Peer, Peer

LEMMA SameDeliveredAt == \A n : Service!DeliveredAt(n) = DeliveredAt(n)
    BY DEF Service!DeliveredAt, DeliveredAt

LEMMA InitService == Init => Service!Init
    BY SameNodes DEF Init, Service!Init

\* A new item in rxQueue is a delivery of the service.
LEMMA HandsDelivers ==
    ASSUME ServiceInv, Current, NEW n \in Node, Hands(n), UNCHANGED sender
    PROVE  Service!Deliver(n)
<1>1. TypeInv /\ Safe /\ OnceInv /\ OriginInv
    BY DEF ServiceInv, SafetyInv
<1>2. PICK id \in Running(rx[n]) \cup Fresh(n), bitmap \in SUBSET Frag :
          delivered' = [delivered EXCEPT ![n] = Append(delivered[n], {id})]
    BY DEF Hands
<1>3. {id} \notin DeliveredAt(n) /\ id \in 0 .. submitted[Peer(n)] - 1
    BY <1>1, UnderWayIsNew, UnderWayWasSubmitted
<1>4. UNCHANGED <<submitted, completed, failed>>
    BY DEF sender
<1>5. id \in 0 .. submitted[Service!Peer(n)] - 1 /\ {id} \notin Service!DeliveredAt(n)
    BY <1>3, SameNodes, SameDeliveredAt
<1> QED
    BY <1>2, <1>4, <1>5 DEF Service!Deliver

\* A datagram taken from the host's queue is an offer.
LEMMA OffersOffers ==
    ASSUME NEW n \in Node, Offers(n), UNCHANGED delivered
    PROVE  Service!Offer(n)
    BY DEF Offers, Service!Offer

\* The datagram in a slot awaits its verdict.
LEMMA SlotIsUndecided ==
    ASSUME TypeInv, VerdictInv, NEW n \in Node, NEW s \in TxSlot, Load(tx[n])[s] # NoData
    PROVE  tx[n][s].data = Load(tx[n])[s] /\ tx[n][s].data \in Service!Undecided(n)
<1>1. tx[n][s].data = Load(tx[n])[s]
    BY DEF Load
<1>2. /\ Load(tx[n])[s] \in 0 .. submitted[n] - 1
      /\ Load(tx[n])[s] \notin completed[n] /\ Load(tx[n])[s] \notin failed[n]
    BY DEF VerdictInv, Account
<1> QED
    BY <1>1, <1>2 DEF Service!Undecided

\* A slot freed as acknowledged is a confirmation: its datagram was delivered.
LEMMA ConfirmsConfirms ==
    ASSUME ServiceInv, ServiceInv', NEW n \in Node, Confirms(n), UNCHANGED delivered
    PROVE  Service!Confirm(n)
<1>1. PICK s \in TxSlot :
          /\ Load(tx[n])[s] # NoData
          /\ completed' = [completed EXCEPT ![n] = @ \cup {tx[n][s].data}]
          /\ UNCHANGED <<submitted, failed>>
    BY DEF Confirms, Empties
<1> DEFINE k == tx[n][s].data
<1>2. k \in Service!Undecided(n)
    BY <1>1, SlotIsUndecided DEF ServiceInv, SafetyInv
<1>3. k \in completed'[n]
    <2>1. completed \in [Node -> SUBSET Payload]
        BY DEF ServiceInv, SafetyInv, TypeInv, TypeOK
    <2> QED
        BY <1>1, <2>1
<1>4. {k} \in DeliveredAt(Peer(n))'
    <2>1. NoAcknowledgedLoss'
        BY DEF ServiceInv, SafetyInv, Safe
    <2> QED
        BY <1>3, <2>1 DEF NoAcknowledgedLoss
<1>5. {k} \in Service!DeliveredAt(Service!Peer(n))
    <2>1. DeliveredAt(Peer(n))' = DeliveredAt(Peer(n))
        BY DEF DeliveredAt
    <2> QED
        BY <1>4, <2>1, SameNodes, SameDeliveredAt
<1> HIDE DEF k
<1> QED
    BY <1>1, <1>2, <1>5 DEF Service!Confirm, k

\* A slot freed for want of attempts is an abandonment.
LEMMA AbandonsAbandons ==
    ASSUME ServiceInv, NEW n \in Node, Abandons(n), UNCHANGED delivered
    PROVE  Service!Abandon(n)
<1>1. PICK s \in TxSlot :
          /\ Load(tx[n])[s] # NoData
          /\ failed' = [failed EXCEPT ![n] = @ \cup {tx[n][s].data}]
          /\ UNCHANGED <<submitted, completed>>
    BY DEF Abandons, Empties
<1>2. tx[n][s].data \in Service!Undecided(n)
    BY <1>1, SlotIsUndecided DEF ServiceInv, SafetyInv
<1> QED
    BY <1>1, <1>2 DEF Service!Abandon

LEMMA StepService ==
    ASSUME ServiceInv, ServiceInv', Current, [Next]_vars
    PROVE  [Service!Next]_(Service!vars)
<1>1. TypeInv /\ Safe
    BY DEF ServiceInv, SafetyInv
<1>2. ASSUME NEW n \in Node, Hands(n), UNCHANGED sender
      PROVE  Service!Next
    BY <1>2, HandsDelivers, SameNodes DEF Service!Next
<1>3. CASE UNCHANGED delivered
    <2>1. CASE Keeps
        BY <1>3, <2>1 DEF Keeps, Service!vars
    <2>2. ASSUME NEW n \in Node, Offers(n) \/ Confirms(n) \/ Abandons(n)
          PROVE  Service!Next
        <3>1. Service!Offer(n) \/ Service!Confirm(n) \/ Service!Abandon(n)
            BY <1>3, <2>2, OffersOffers, ConfirmsConfirms, AbandonsAbandons
        <3> QED
            BY <3>1, SameNodes DEF Service!Next
    <2> QED
        BY <1>1, <2>1, <2>2, StepVerdict
<1> QED
    BY <1>1, <1>2, <1>3, StepReceives DEF Holds

\* Every conjunct of ServiceInv is kept, with what the others say of the step.
LEMMA ServiceInvariant ==
    ASSUME NoIdReuse
    PROVE  Spec /\ []Current => []ServiceInv
<1>1. Init => VerdictInv /\ OnceInv /\ OriginInv
    BY InitVerdict, InitOnce, InitOrigin
<1>2. SafetyInv /\ VerdictInv /\ OnceInv /\ OriginInv /\ Current /\ [Next]_vars
          => (VerdictInv /\ OnceInv /\ OriginInv)'
    <2>1. SafetyInv => TypeInv /\ Safe
        BY DEF SafetyInv
    <2> QED
        BY <2>1, NextVerdict, StepOnce, StepOrigin
<1>3. Spec => []SafetyInv
    BY SafetyInvariant
<1>4. SafetyInv /\ VerdictInv /\ OnceInv /\ OriginInv <=> ServiceInv
    BY DEF ServiceInv
<1> QED
    BY <1>1, <1>2, <1>3, <1>4, PTL DEF Spec

\* The link implements the datagram service: a step of the two engines is one
\* of its four steps, or one that neither host sees.
THEOREM LinkImplementsService ==
    ASSUME NoIdReuse
    PROVE  Spec /\ []Current => ServiceSpec
<1>1. Init => Service!Init
    BY InitService
<1>2. ServiceInv /\ ServiceInv' /\ Current /\ [Next]_vars => [Service!Next]_(Service!vars)
    BY StepService
<1>3. Spec /\ []Current => []ServiceInv
    BY ServiceInvariant
<1> QED
    BY <1>1, <1>2, <1>3, PTL DEF Spec, ServiceSpec, Service!Spec

\* With no hypothesis on the run: the first WindowSize - 1 datagrams each way.
THEOREM FirstWindowIsTheService ==
    ASSUME \A n \in Node : Submits[n] < WindowSize
    PROVE  Spec => ServiceSpec
<1>1. NoIdReuse /\ (Spec => []Current)
    BY FirstWindowInvariant
<1>2. Spec /\ []Current => ServiceSpec
    BY <1>1, LinkImplementsService
<1> QED
    BY <1>1, <1>2, PTL

============================================================================
