--------------------------- MODULE ArqLinkProofs ---------------------------
(***************************************************************************)
(* Theorems about ArqLink for every number of slots, fragments, attempts   *)
(* and datagrams, every window size and every id space.                    *)
(***************************************************************************)
EXTENDS ArqLink, TLAPS, FiniteSetTheorems, WellFoundedInduction

----------------------------------------------------------------------------
\* Helpers of the model

\* Least picks an element: "the lowest slot" and "the next fragment" exist
\* whenever there is one to choose.
LEMMA LeastIsMember ==
    ASSUME NEW S, S \subseteq Nat, S # {}
    PROVE  Least(S) \in S /\ \A y \in S : Least(S) <= y
<1> DEFINE R == {ss \in Nat \X Nat : ss[1] < ss[2]}
<1>1. IsWellFoundedOn(R, Nat)
    BY NatLessThanWellFounded DEF OpToRel
<1>2. PICK x \in S : \A y \in S : ~ (<<y, x>> \in R)
    BY <1>1, WFMin
<1>3. ASSUME NEW y \in S PROVE x <= y
    <2>1. x \in Nat /\ y \in Nat
        OBVIOUS
    <2>2. ~ (<<y, x>> \in R)
        BY <1>2
    <2>3. ~ (y < x)
        BY <2>1, <2>2
    <2> QED
        BY <2>1, <2>3
<1> QED
    BY <1>3 DEF Least

\* The other modem.
LEMMA PeerIsNode == ASSUME NEW n \in Node
                    PROVE  Peer(n) \in Node /\ Peer(n) # n /\ Peer(Peer(n)) = n
    BY DEF Node, Peer

\* Every datagram has at least one fragment, and no fragment number beyond
\* what a bitmap holds.
LEMMA FullIsFrags ==
    ASSUME NEW length \in DatagramLength
    PROVE  Full(length) \subseteq Frag /\ 0 \in Full(length)
<1>1. PICK k \in Payload : length = Length[k]
    BY DEF DatagramLength
<1>2. FragmentCount(length) \in 1 .. MaxFrags
    BY <1>1, LinkAssumption
<1> QED
    BY <1>2, LinkAssumption DEF Full, Frag

LEMMA LengthIsDatagramLength ==
    ASSUME NEW k \in Payload
    PROVE  Length[k] \in DatagramLength
    BY DEF DatagramLength

\* What currentCredits advertises is a number of datagrams.
LEMMA CreditsType ==
    ASSUME NEW slots, NEW egress \in Nat
    PROVE  CurrentCredits(slots, egress) \in 0 .. TxSlots
<1> DEFINE free == {s \in RxSlot : ~slots[s].active}
<1>1. IsFiniteSet(RxSlot)
    BY FS_Interval, LinkAssumption DEF RxSlot
<1>2. IsFiniteSet(free)
    BY <1>1, FS_Subset
<1>3. Cardinality(free) \in Nat
    BY <1>2, FS_CardinalityType
<1> QED
    BY <1>3, LinkAssumption DEF CurrentCredits, Lesser

\* The ACK queue holds ACKs, whether one is coalesced, appended or dropped.
LEMMA EnqueueAckType ==
    ASSUME NEW queue \in Seq(Ack), NEW ack \in Ack
    PROVE  EnqueueAck(queue, ack) \in Seq(Ack)
<1>1. CASE \E i \in DOMAIN queue : queue[i].id = ack.id
    BY <1>1 DEF EnqueueAck
<1>2. CASE ~\E i \in DOMAIN queue : queue[i].id = ack.id
    BY <1>2 DEF EnqueueAck
<1> QED
    BY <1>1, <1>2

LEMMA AckOfType ==
    ASSUME NEW id \in Id, NEW bitmap \in SUBSET Frag, NEW credit \in 0 .. TxSlots,
           NEW failure \in Failure
    PROVE  AckOf(id, bitmap, credit, failure) \in Ack
    BY DEF AckOf, Ack

\* Whatever happens on the hop, the buffers hold packets.
LEMMA TransmitType ==
    ASSUME NEW n \in Node, NEW buffers \in [Node -> Packet], NEW packet \in Packet,
           Transmit(n, buffers, packet)
    PROVE  air' \in [Node -> Packet]
    BY PeerIsNode DEF Transmit

LEMMA SendPendingAckType ==
    ASSUME NEW n \in Node, NEW buffers \in [Node -> Packet], NEW queue \in Seq(Ack),
           pending \in [Node -> Seq(Ack)], SendPendingAck(n, buffers, queue)
    PROVE  air' \in [Node -> Packet] /\ pending' \in [Node -> Seq(Ack)]
<1>1. CASE queue # <<>> /\ Transmit(n, buffers, [type |-> "ACK", ack |-> Head(queue)])
           /\ pending' = [pending EXCEPT ![n] = Tail(queue)]
    <2>1. Head(queue) \in Ack /\ Tail(queue) \in Seq(Ack)
        BY <1>1
    <2>2. [type |-> "ACK", ack |-> Head(queue)] \in Packet
        BY <2>1 DEF Packet, AckPacket
    <2> QED
        BY <1>1, <2>1, <2>2, TransmitType
<1>2. CASE air' = buffers /\ pending' = [pending EXCEPT ![n] = queue]
    BY <1>2
<1> QED
    BY <1>1, <1>2 DEF SendPendingAck

\* The duplicate window holds ids and their bitmaps after any store.
LEMMA StoreType ==
    ASSUME NEW w \in Window(Frag), NEW id \in Id, NEW bitmap \in SUBSET Frag
    PROVE  Store(w, id, bitmap) \in Window(Frag)
    BY DEF Store, Window, Prune, NewestAfter

----------------------------------------------------------------------------
\* Type correctness

\* A slot that is in use holds a datagram of its host.
Loaded == \A n \in Node : \A s \in TxSlot :
              tx[n][s].state # "EMPTY" => tx[n][s].data \in Payload

TypeInv == TypeOK /\ Loaded

LEMMA InitType == Init => TypeInv
<1> SUFFICES ASSUME Init PROVE TypeInv
    OBVIOUS
<1>1. EmptyTx \in TxDatagram
    BY LinkAssumption, WindowAssumption DEF EmptyTx, TxDatagram, Id
<1>2. EmptyRx \in RxDatagram
    BY LinkAssumption, WindowAssumption DEF EmptyRx, RxDatagram, Id
<1>3. EmptyWindow \in Window(Frag)
    BY DEF EmptyWindow, Window
<1>4. TypeOK
    BY <1>1, <1>2, <1>3, LinkAssumption, WindowAssumption DEF TypeOK, Init, Packet, Id
<1>5. Loaded
    BY DEF Init, Loaded, EmptyTx
<1> QED
    BY <1>4, <1>5 DEF TypeInv

\* The receiving side.  A fragment put into a slot leaves a slot.
LEMMA AcceptType ==
    ASSUME NEW slot \in RxDatagram, NEW p \in DataPacket
    PROVE  Accept(slot, p) \in RxDatagram
<1>1. p.id \in Id /\ p.index \in Frag /\ p.length \in DatagramLength /\ p.data \in Payload
    BY DEF DataPacket
<1>2. EmptyRx.got \in [Frag -> Payload \cup {NoData}]
    BY DEF EmptyRx
<1>3. CASE ~slot.active
    BY <1>1, <1>2, <1>3 DEF Accept, RxDatagram, EmptyRx
<1>4. CASE slot.active
    BY <1>1, <1>4 DEF Accept, RxDatagram
<1> QED
    BY <1>3, <1>4 DEF RxDatagram

LEMMA ReceivedType ==
    ASSUME NEW slot \in RxDatagram
    PROVE  /\ Received(slot) \in SUBSET Frag
           /\ Full(slot.length) \in SUBSET Frag
           /\ Sources(slot) \in SUBSET (Payload \cup {NoData})
<1>1. Full(slot.length) \in SUBSET Frag
    <2>1. CASE slot.length = 0
        <3>1. (0 + FragmentPayload - 1) \div FragmentPayload = 0
            BY LinkAssumption
        <3> QED
            BY <2>1, <3>1 DEF Full, FragmentCount
    <2>2. CASE slot.length \in DatagramLength
        BY <2>2, FullIsFrags
    <2> QED
        BY <2>1, <2>2 DEF RxDatagram
<1> QED
    BY <1>1 DEF Received, Sources, RxDatagram

\* The slot a fragment goes to.
LEMMA SlotsForType ==
    ASSUME NEW n \in Node, NEW id \in Id, SlotsFor(n, id) # {}
    PROVE  Least(SlotsFor(n, id)) \in RxSlot /\ Least(SlotsFor(n, id)) \in SlotsFor(n, id)
<1>1. SlotsFor(n, id) \subseteq RxSlot /\ RxSlot \subseteq Nat
    BY DEF SlotsFor, RxSlot
<1> QED
    BY <1>1, LeastIsMember

LEMMA TakenType ==
    ASSUME TypeOK, NEW n \in Node
    PROVE  Taken(n) \in [Node -> Packet]
    BY DEF TypeOK, Taken, Packet

LEMMA QueueAckType ==
    ASSUME TypeOK, NEW n \in Node, NEW ack \in Ack, QueueAck(n, ack)
    PROVE  air' \in [Node -> Packet] /\ pending' \in [Node -> Seq(Ack)]
    BY TakenType, EnqueueAckType, SendPendingAckType DEF QueueAck, TypeOK

LEMMA CompleteRxSlotType ==
    ASSUME TypeOK, NEW n \in Node, NEW s \in RxSlot, NEW slots \in [RxSlot -> RxDatagram],
           NEW buffers \in [Node -> Packet], Egress(n) > 0,
           CompleteRxSlot(n, s, slots, buffers)
    PROVE  /\ rx' \in [Node -> [RxSlot -> RxDatagram]]
           /\ window' \in [Node -> Window(Frag)]
           /\ rxQueue' \in [Node -> 0 .. RxQueueDepth]
           /\ delivered' \in [Node -> Seq(SUBSET (Payload \cup {NoData}))]
           /\ air' \in [Node -> Packet]
           /\ pending' \in [Node -> Seq(Ack)]
<1> DEFINE slot == slots[s]
           ack == AckOf(slot.id, Full(slot.length),
                        CurrentCredits(slots, Egress(n) - 1), "NONE")
<1>1. slot \in RxDatagram /\ slot.id \in Id
    BY DEF RxDatagram
<1>2. Full(slot.length) \in SUBSET Frag /\ Sources(slot) \in SUBSET (Payload \cup {NoData})
    BY <1>1, ReceivedType
<1>3. rxQueue[n] \in 0 .. RxQueueDepth
    BY DEF TypeOK
<1>4. Egress(n) - 1 \in Nat
    BY <1>3, LinkAssumption DEF Egress
<1>5. ack \in Ack
    BY <1>1, <1>2, <1>4, CreditsType, AckOfType DEF Failure
<1>6. EmptyRx \in RxDatagram
    BY LinkAssumption, WindowAssumption DEF EmptyRx, RxDatagram, Id
<1>7. rx' \in [Node -> [RxSlot -> RxDatagram]]
    BY <1>6 DEF CompleteRxSlot, TypeOK
<1>8. window' \in [Node -> Window(Frag)]
    BY <1>1, <1>2, StoreType DEF CompleteRxSlot, TypeOK
<1>9. rxQueue' \in [Node -> 0 .. RxQueueDepth]
    BY <1>3, LinkAssumption DEF CompleteRxSlot, TypeOK, Egress
<1>10. delivered' \in [Node -> Seq(SUBSET (Payload \cup {NoData}))]
    <2>1. delivered[n] \in Seq(SUBSET (Payload \cup {NoData}))
        BY DEF TypeOK
    <2>2. Append(delivered[n], Sources(slot)) \in Seq(SUBSET (Payload \cup {NoData}))
        BY <2>1, <1>2
    <2> QED
        BY <2>2 DEF CompleteRxSlot, TypeOK
<1>11. SendPendingAck(n, buffers, EnqueueAck(pending[n], ack))
    BY DEF CompleteRxSlot
<1>12. pending[n] \in Seq(Ack) /\ pending \in [Node -> Seq(Ack)]
    BY DEF TypeOK
<1>13. air' \in [Node -> Packet] /\ pending' \in [Node -> Seq(Ack)]
    BY <1>5, <1>11, <1>12, EnqueueAckType, SendPendingAckType
<1> QED
    BY <1>7, <1>8, <1>9, <1>10, <1>13

LEMMA HandleDataType ==
    ASSUME TypeInv, NEW n \in Node, HandleData(n)
    PROVE  TypeInv'
<1> DEFINE p == air[n]
<1>1. TypeOK /\ p \in DataPacket /\ p.id \in Id
    BY DEF TypeInv, TypeOK, HandleData, Packet, AckPacket, NoPacket, DataPacket
<1>2. Loaded'
    BY DEF HandleData, sender, TypeInv, Loaded
<1>3. Egress(n) \in Nat
    BY <1>1, LinkAssumption DEF TypeOK, Egress
<1>4. CurrentCredits(rx[n], Egress(n)) \in 0 .. TxSlots
    BY <1>3, CreditsType
<1> SUFFICES TypeOK'
    BY <1>2 DEF TypeInv
<1>5. SUFFICES /\ rx' \in [Node -> [RxSlot -> RxDatagram]]
               /\ window' \in [Node -> Window(Frag)]
               /\ rxQueue' \in [Node -> 0 .. RxQueueDepth]
               /\ delivered' \in [Node -> Seq(SUBSET (Payload \cup {NoData}))]
               /\ air' \in [Node -> Packet]
               /\ pending' \in [Node -> Seq(Ack)]
    BY <1>1 DEF HandleData, TypeOK, sender
<1>6. CASE ReceiveDuplicate(n, p)
    <2>1. window[n] \in Window(Frag)
        BY <1>1 DEF TypeOK
    <2>2. StoredBitmap(window[n], p.id) \in SUBSET Frag
        BY <1>6, <2>1 DEF ReceiveDuplicate, Remembered, StoredBitmap, Window
    <2>3. AckOf(p.id, StoredBitmap(window[n], p.id),
                CurrentCredits(rx[n], Egress(n)), "NONE") \in Ack
        BY <1>1, <1>4, <2>2, AckOfType DEF Failure
    <2> QED
        BY <1>1, <1>6, <2>3, QueueAckType DEF ReceiveDuplicate, receiver, TypeOK
<1>7. CASE RefuseFragment(n, p)
    <2>1. AckOf(p.id, {}, CurrentCredits(rx[n], Egress(n)), "ALLOCATION_FAILURE") \in Ack
        BY <1>1, <1>4, AckOfType DEF Failure
    <2> QED
        BY <1>1, <1>7, <2>1, QueueAckType DEF RefuseFragment, receiver, TypeOK
<1>8. CASE RejectFragment(n, p)
    <2> DEFINE slot == rx[n][Least(SlotsFor(n, p.id))]
    <2>1. slot \in RxDatagram
        BY <1>1, <1>8, SlotsForType DEF RejectFragment, TypeOK
    <2>2. Received(slot) \in SUBSET Frag
        BY <2>1, ReceivedType
    <2>3. AckOf(p.id, Received(slot), CurrentCredits(rx[n], Egress(n)),
                "MALFORMED_INPUT") \in Ack
        BY <1>1, <1>4, <2>2, AckOfType DEF Failure
    <2>4. QueueAck(n, AckOf(p.id, Received(slot), CurrentCredits(rx[n], Egress(n)),
                            "MALFORMED_INPUT"))
        BY <1>8 DEF RejectFragment
    <2> QED
        BY <1>1, <1>8, <2>3, <2>4, QueueAckType DEF RejectFragment, receiver, TypeOK
<1>9. CASE StoreFragment(n, p)
    <2> DEFINE s == Least(SlotsFor(n, p.id))
               slots == [rx[n] EXCEPT ![s] = Accept(@, p)]
    <2>1. s \in RxSlot
        BY <1>1, <1>9, SlotsForType DEF StoreFragment
    <2>2. rx[n] \in [RxSlot -> RxDatagram] /\ rx \in [Node -> [RxSlot -> RxDatagram]]
        BY <1>1 DEF TypeOK
    <2>3. Accept(rx[n][s], p) \in RxDatagram
        BY <1>1, <2>1, <2>2, AcceptType
    <2>4. slots \in [RxSlot -> RxDatagram] /\ slots[s] \in RxDatagram
        BY <2>1, <2>2, <2>3
    <2>5. Received(slots[s]) \in SUBSET Frag /\ slots[s].id \in Id
        BY <2>4, ReceivedType DEF RxDatagram
    <2>6. CASE /\ Egress(n) > 0
               /\ CompleteRxSlot(n, s, slots, Taken(n))
        <3>1. Taken(n) \in [Node -> Packet]
            BY <1>1, TakenType
        <3> HIDE DEF s, slots
        <3> QED
            BY <1>1, <2>1, <2>4, <2>6, <3>1, CompleteRxSlotType
    <2>7. CASE /\ rx' = [rx EXCEPT ![n] = [slots EXCEPT ![s].waiting = TRUE]]
               /\ QueueAck(n, BlockedAck(slots[s]))
               /\ UNCHANGED <<window, rxQueue, delivered>>
        <3>1. BlockedAck(slots[s]) \in Ack
            BY <2>5, AckOfType, LinkAssumption DEF BlockedAck, WithdrawalAck, Failure
        <3>2. [slots[s] EXCEPT !.waiting = TRUE] \in RxDatagram
            BY <2>4 DEF RxDatagram
        <3> HIDE DEF s, slots
        <3>3. [slots EXCEPT ![s].waiting = TRUE] \in [RxSlot -> RxDatagram]
            BY <2>1, <2>4, <3>2
        <3> QED
            BY <1>1, <2>2, <2>7, <3>1, <3>3, QueueAckType DEF TypeOK
    <2>8. CASE /\ rx' = [rx EXCEPT ![n] = slots]
               /\ IF p.roundEnd
                  THEN QueueAck(n, AckOf(p.id, Received(slots[s]),
                                         CurrentCredits(slots, Egress(n)), "NONE"))
                  ELSE SendPendingAck(n, Taken(n), pending[n])
               /\ UNCHANGED <<window, rxQueue, delivered>>
        <3>1. AckOf(p.id, Received(slots[s]), CurrentCredits(slots, Egress(n)), "NONE") \in Ack
            BY <1>1, <1>3, <2>5, CreditsType, AckOfType DEF Failure
        <3>2. Taken(n) \in [Node -> Packet] /\ pending \in [Node -> Seq(Ack)]
            BY <1>1, TakenType DEF TypeOK
        <3>3. air' \in [Node -> Packet] /\ pending' \in [Node -> Seq(Ack)]
            BY <1>1, <2>8, <3>1, <3>2, QueueAckType, SendPendingAckType
        <3> HIDE DEF s, slots
        <3> QED
            BY <1>1, <2>2, <2>4, <2>8, <3>3 DEF TypeOK
    <2> QED
        BY <1>9, <2>6, <2>7, <2>8 DEF StoreFragment
<1> QED
    BY <1>6, <1>7, <1>8, <1>9 DEF HandleData

\* The sending side.  A step that changes one slot leaves slots.
LEMMA SlotUpdateType ==
    ASSUME TypeOK, Loaded, NEW n \in Node, NEW slots \in [TxSlot -> TxDatagram],
           \A t \in TxSlot : slots[t].state # "EMPTY" => slots[t].data \in Payload,
           NEW s \in TxSlot, NEW slot \in TxDatagram,
           slot.state # "EMPTY" => slot.data \in Payload,
           tx' = [tx EXCEPT ![n] = [slots EXCEPT ![s] = slot]]
    PROVE  tx' \in [Node -> [TxSlot -> TxDatagram]] /\ Loaded'
<1>1. tx \in [Node -> [TxSlot -> TxDatagram]]
    BY DEF TypeOK
<1>2. [slots EXCEPT ![s] = slot] \in [TxSlot -> TxDatagram]
    OBVIOUS
<1>3. tx' \in [Node -> [TxSlot -> TxDatagram]]
    BY <1>1, <1>2
<1>4. ASSUME NEW m \in Node, NEW t \in TxSlot
      PROVE  (tx[m][t].state # "EMPTY" => tx[m][t].data \in Payload)'
    <2>1. CASE m = n /\ t = s
        BY <1>1, <2>1
    <2>2. CASE m = n /\ t # s
        BY <1>1, <2>2
    <2>3. CASE m # n
        BY <1>1, <2>3 DEF Loaded
    <2> QED
        BY <2>1, <2>2, <2>3
<1> QED
    BY <1>3, <1>4 DEF Loaded

LEMMA ApplyAckType ==
    ASSUME TypeInv, NEW n \in Node, NEW ack \in Ack, NEW s \in Matching(n, ack),
           ApplyAck(n, s, ack)
    PROVE  /\ tx' \in [Node -> [TxSlot -> TxDatagram]]
           /\ completed' \in [Node -> SUBSET Payload]
           /\ Loaded'
<1>1. /\ s \in TxSlot
      /\ tx[n][s] \in TxDatagram
      /\ tx[n][s].state = "OPEN"
      /\ tx[n][s].data \in Payload
    BY DEF Matching, TxIn, TypeInv, TypeOK, Loaded
<1>2. ack.bitmap \in SUBSET Frag
    BY DEF Ack
<1>3. tx \in [Node -> [TxSlot -> TxDatagram]] /\ completed \in [Node -> SUBSET Payload]
    BY DEF TypeInv, TypeOK
<1>4. EmptyTx \in TxDatagram
    BY LinkAssumption, WindowAssumption DEF EmptyTx, TxDatagram, Id
<1>5. Withdraw(tx[n][s], ack) \in TxDatagram /\ Withdraw(tx[n][s], ack).data = tx[n][s].data
    <2>1. 0 \in 0 .. MaxFrags /\ 1 \in 0 .. MaxAttempts
        BY LinkAssumption
    <2>2. tx[n][s].acked \cap ack.bitmap \in SUBSET Frag
        BY <1>2
    <2> QED
        BY <1>1, <2>1, <2>2 DEF Withdraw, TxDatagram
<1>6. [tx[n][s] EXCEPT !.acked = @ \cup ack.bitmap] \in TxDatagram
    BY <1>1, <1>2 DEF TxDatagram
<1>7. \A t \in TxSlot : tx[n][t].state # "EMPTY" => tx[n][t].data \in Payload
    BY DEF TypeInv, Loaded
<1>8. CASE ack.failure = "CREDIT_WITHDRAWAL"
    <2>1. tx' = [tx EXCEPT ![n] = [tx[n] EXCEPT ![s] = Withdraw(tx[n][s], ack)]]
        BY <1>8 DEF ApplyAck
    <2>2. completed' = completed
        BY <1>8 DEF ApplyAck
    <2> QED
        BY <1>1, <1>3, <1>5, <1>7, <2>1, <2>2, SlotUpdateType DEF TypeInv
<1>9. CASE ack.failure # "CREDIT_WITHDRAWAL" /\ Finished(tx[n][s], ack)
    <2>1. /\ tx' = [tx EXCEPT ![n] = [tx[n] EXCEPT ![s] = EmptyTx]]
          /\ completed' = [completed EXCEPT ![n] = @ \cup {tx[n][s].data}]
        BY <1>9 DEF ApplyAck
    <2>2. EmptyTx.state = "EMPTY"
        BY DEF EmptyTx
    <2> QED
        BY <1>1, <1>3, <1>4, <1>7, <2>1, <2>2, SlotUpdateType DEF TypeInv
<1>10. CASE ack.failure # "CREDIT_WITHDRAWAL" /\ ~Finished(tx[n][s], ack)
    <2>1. tx' = [tx EXCEPT ![n] = [tx[n] EXCEPT
                    ![s] = [tx[n][s] EXCEPT !.acked = @ \cup ack.bitmap]]]
        BY <1>10 DEF ApplyAck
    <2>2. completed' = completed
        BY <1>10 DEF ApplyAck
    <2>3. [tx[n][s] EXCEPT !.acked = @ \cup ack.bitmap].data \in Payload
        BY <1>1 DEF TxDatagram
    <2> QED
        BY <1>1, <1>3, <1>6, <1>7, <2>1, <2>2, <2>3, SlotUpdateType DEF TypeInv
<1> QED
    BY <1>8, <1>9, <1>10

LEMMA HandleAckType ==
    ASSUME TypeInv, NEW n \in Node, HandleAck(n)
    PROVE  TypeInv'
<1> DEFINE ack == air[n].ack
<1>1. ack \in Ack /\ ack.credits \in 0 .. TxSlots
    <2>1. air[n] \in Packet /\ air[n].type = "ACK"
        BY DEF TypeInv, TypeOK, HandleAck
    <2>2. air[n] \in AckPacket
        BY <2>1 DEF Packet, NoPacket, DataPacket
    <2> QED
        BY <2>2 DEF AckPacket, Ack
<1>2. /\ tx' \in [Node -> [TxSlot -> TxDatagram]]
      /\ completed' \in [Node -> SUBSET Payload]
      /\ Loaded'
    <2>1. CASE \E s \in Matching(n, ack) : ApplyAck(n, s, ack)
        BY <1>1, <2>1, ApplyAckType
    <2>2. CASE UNCHANGED <<tx, completed>>
        BY <2>2 DEF TypeInv, TypeOK, Loaded
    <2> QED
        BY <2>1, <2>2 DEF HandleAck
<1>3. air' \in [Node -> Packet]
    BY TakenType DEF HandleAck, TypeInv
<1>4. /\ pc' \in [Node -> {"wait", "tick", "idle"}]
      /\ credits' \in [Node -> 0 .. TxSlots]
    BY <1>1 DEF HandleAck, TypeInv, TypeOK
<1>5. UNCHANGED <<nextId, armed, submitted, failed, receiver, pending, resets>>
    BY DEF HandleAck
<1> QED
    BY <1>2, <1>3, <1>4, <1>5 DEF TypeInv, TypeOK, receiver

LEMMA NoPacketEventType ==
    ASSUME TypeInv, NEW n \in Node, NoPacketEvent(n)
    PROVE  TypeInv'
<1>1. air' \in [Node -> Packet]
    BY TakenType DEF NoPacketEvent, TypeInv, TypeOK
<1> QED
    BY <1>1 DEF NoPacketEvent, TypeInv, TypeOK, Loaded, sender, receiver

\* A round's next fragment is one of the datagram's fragments.
LEMMA NextFragment ==
    ASSUME NEW slot \in TxDatagram, {f \in slot.round : f >= slot.next} # {}
    PROVE  /\ Least({f \in slot.round : f >= slot.next}) \in slot.round
           /\ Least({f \in slot.round : f >= slot.next}) \in Frag
<1>1. {f \in slot.round : f >= slot.next} \subseteq Nat /\ slot.round \subseteq Frag
    BY DEF TxDatagram, Frag
<1> QED
    BY <1>1, LeastIsMember

LEMMA SendRoundType ==
    ASSUME TypeOK, NEW n \in Node, NEW slots \in [TxSlot -> TxDatagram], NEW s \in TxSlot,
           \A t \in TxSlot : slots[t].state # "EMPTY" => slots[t].data \in Payload,
           slots[s].data \in Payload,
           Loaded,
           SendRound(n, slots, s)
    PROVE  tx' \in [Node -> [TxSlot -> TxDatagram]] /\ air' \in [Node -> Packet] /\ Loaded'
<1> DEFINE left == {f \in slots[s].round : f >= slots[s].next}
           f == Least(left)
<1>1. tx \in [Node -> [TxSlot -> TxDatagram]] /\ air \in [Node -> Packet]
    BY DEF TypeOK
<1>2. CASE left = {}
    <2>1. [slots[s] EXCEPT !.round = {}] \in TxDatagram
        BY DEF TxDatagram
    <2>2. [slots[s] EXCEPT !.round = {}].data \in Payload
        BY DEF TxDatagram
    <2>3. tx' = [tx EXCEPT ![n] = [slots EXCEPT ![s] = [slots[s] EXCEPT !.round = {}]]]
          /\ air' = air
        BY <1>2 DEF SendRound
    <2> QED
        BY <1>1, <2>1, <2>2, <2>3, SlotUpdateType
<1>3. CASE left # {}
    <2>1. f \in slots[s].round /\ f \in Frag
        BY <1>3, NextFragment
    <2>2. FragmentPacket(slots[s], f) \in Packet
        <3>1. Length[slots[s].data] \in DatagramLength /\ slots[s].id \in Id
            BY LengthIsDatagramLength DEF TxDatagram
        <3> QED
            BY <2>1, <3>1 DEF FragmentPacket, Packet, DataPacket
    <2>3. f + 1 \in 0 .. MaxFrags /\ f \in 0 .. MaxFrags
        BY <2>1, LinkAssumption DEF Frag
    <2> HIDE DEF left, f
    <2>4. [slots[s] EXCEPT !.round = @ \ {f}, !.next = f + 1] \in TxDatagram
        BY <2>1, <2>3 DEF TxDatagram
    <2>5. [slots[s] EXCEPT !.next = f] \in TxDatagram
        BY <2>1, <2>3 DEF TxDatagram
    <2>6. CASE /\ tx' = [tx EXCEPT ![n] =
                            [slots EXCEPT ![s].round = @ \ {f}, ![s].next = f + 1]]
               /\ Transmit(n, air, FragmentPacket(slots[s], f))
        <3>1. air' \in [Node -> Packet]
            BY <1>1, <2>2, <2>6, TransmitType
        <3>2. tx' = [tx EXCEPT ![n] = [slots EXCEPT ![s] =
                        [slots[s] EXCEPT !.round = @ \ {f}, !.next = f + 1]]]
            BY <2>6
        <3>3. [slots[s] EXCEPT !.round = @ \ {f}, !.next = f + 1].data \in Payload
            BY DEF TxDatagram
        <3> QED
            BY <2>4, <3>1, <3>2, <3>3, SlotUpdateType
    <2>7. CASE tx' = [tx EXCEPT ![n] = [slots EXCEPT ![s].next = f]] /\ UNCHANGED air
        <3>1. tx' = [tx EXCEPT ![n] = [slots EXCEPT ![s] = [slots[s] EXCEPT !.next = f]]]
            BY <2>7
        <3>2. [slots[s] EXCEPT !.next = f].data \in Payload
            BY DEF TxDatagram
        <3> QED
            BY <1>1, <2>5, <2>7, <3>1, <3>2, SlotUpdateType
    <2> QED
        BY <1>3, <2>6, <2>7 DEF SendRound, left, f
<1> QED
    BY <1>2, <1>3

\* The queued slot that is opened, or the open one that is retransmitted.
LEMMA LeastSlot ==
    ASSUME NEW slots, NEW state, TxIn(slots, state) # {}
    PROVE  Least(TxIn(slots, state)) \in TxSlot
           /\ slots[Least(TxIn(slots, state))].state = state
<1>1. TxIn(slots, state) \subseteq Nat
    BY DEF TxIn, TxSlot
<1>2. Least(TxIn(slots, state)) \in TxIn(slots, state)
    BY <1>1, LeastIsMember
<1> QED
    BY <1>2 DEF TxIn

\* One tick of the data path keeps tx, the buffers and the credits typed,
\* whatever slots it starts from.
LEMMA TryOpenQueuedType ==
    ASSUME TypeOK, Loaded, NEW n \in Node, NEW slots \in [TxSlot -> TxDatagram],
           \A t \in TxSlot : slots[t].state # "EMPTY" => slots[t].data \in Payload,
           TryOpenQueued(n, slots)
    PROVE  /\ tx' \in [Node -> [TxSlot -> TxDatagram]] /\ air' \in [Node -> Packet] /\ Loaded'
           /\ credits' \in [Node -> 0 .. TxSlots]
           /\ armed' \in [Node -> BOOLEAN]
<1>1. CASE OpenQueued(n, slots)
    <2> DEFINE s == Least(TxIn(slots, "QUEUED"))
               opened == [slots EXCEPT ![s] = Opened(slots[s])]
    <2>1. s \in TxSlot /\ slots[s].state = "QUEUED"
        BY <1>1, LeastSlot DEF OpenQueued
    <2>2. slots[s] \in TxDatagram /\ slots[s].data \in Payload
        BY <2>1
    <2>3. Full(Length[slots[s].data]) \in SUBSET Frag
        BY <2>2, LengthIsDatagramLength, FullIsFrags
    <2>4. Opened(slots[s]) \in TxDatagram /\ Opened(slots[s]).data \in Payload
        <3>1. 0 \in 0 .. MaxFrags /\ 1 \in 0 .. MaxAttempts
            BY LinkAssumption
        <3> QED
            BY <2>2, <2>3, <3>1 DEF Opened, TxDatagram
    <2>5. SendRound(n, opened, s)
        BY <1>1 DEF OpenQueued
    <2>6. /\ credits' \in [Node -> 0 .. TxSlots]
          /\ armed' \in [Node -> BOOLEAN]
        BY <1>1, LinkAssumption DEF OpenQueued, TypeOK
    <2> HIDE DEF s
    <2>7. opened \in [TxSlot -> TxDatagram] /\ opened[s].data \in Payload
        BY <2>1, <2>4
    <2>8. \A t \in TxSlot : opened[t].state # "EMPTY" => opened[t].data \in Payload
        BY <2>1, <2>4
    <2> HIDE DEF opened
    <2> QED
        BY <2>1, <2>5, <2>6, <2>7, <2>8, SendRoundType
<1>2. CASE KeepQueued(n, slots)
    <2>1. tx' \in [Node -> [TxSlot -> TxDatagram]] /\ Loaded'
        BY <1>2 DEF KeepQueued, TypeOK, Loaded
    <2> QED
        BY <1>2, <2>1 DEF KeepQueued, TypeOK
<1> QED
    BY <1>1, <1>2 DEF TryOpenQueued

LEMMA TickDataType ==
    ASSUME TypeInv, NEW n \in Node, TickData(n)
    PROVE  TypeInv'
<1>1. TypeOK /\ Loaded
    BY DEF TypeInv
<1>2. /\ tx \in [Node -> [TxSlot -> TxDatagram]] /\ tx[n] \in [TxSlot -> TxDatagram]
      /\ \A t \in TxSlot : tx[n][t].state # "EMPTY" => tx[n][t].data \in Payload
    BY <1>1 DEF TypeOK, Loaded
<1> SUFFICES /\ tx' \in [Node -> [TxSlot -> TxDatagram]]
             /\ air' \in [Node -> Packet]
             /\ Loaded'
             /\ credits' \in [Node -> 0 .. TxSlots]
             /\ armed' \in [Node -> BOOLEAN]
             /\ failed' \in [Node -> SUBSET Payload]
    BY <1>1 DEF TickData, TypeInv, TypeOK, receiver
<1>3. CASE Retransmit(n)
    <2>1. PICK s \in TxIn(tx[n], "OPEN") :
              LET slot == tx[n][s]
              IN  /\ slot.attempts < MaxAttempts
                  /\ SendRound(n, [tx[n] EXCEPT ![s].attempts = @ + 1,
                                                ![s].round = Missing(slot),
                                                ![s].next = 0], s)
                  /\ UNCHANGED <<credits, armed, failed>>
        BY <1>3 DEF Retransmit
    <2> DEFINE new == [tx[n][s] EXCEPT !.attempts = @ + 1, !.round = Missing(tx[n][s]),
                                       !.next = 0]
    <2>2. s \in TxSlot /\ tx[n][s] \in TxDatagram /\ tx[n][s].data \in Payload
        BY <1>2 DEF TxIn
    <2>3. Missing(tx[n][s]) \in SUBSET Frag
        BY <2>2, LengthIsDatagramLength, FullIsFrags DEF Missing
    <2>4. tx[n][s].attempts + 1 \in 0 .. MaxAttempts /\ 0 \in 0 .. MaxFrags
        BY <2>1, <2>2, LinkAssumption DEF TxDatagram
    <2>5. new \in TxDatagram /\ new.data \in Payload
        BY <2>2, <2>3, <2>4 DEF TxDatagram
    <2>6. SendRound(n, [tx[n] EXCEPT ![s] = new], s)
        BY <2>1
    <2> HIDE DEF new
    <2>7. /\ [tx[n] EXCEPT ![s] = new] \in [TxSlot -> TxDatagram]
          /\ [tx[n] EXCEPT ![s] = new][s].data \in Payload
          /\ \A t \in TxSlot : [tx[n] EXCEPT ![s] = new][t].state # "EMPTY"
                  => [tx[n] EXCEPT ![s] = new][t].data \in Payload
        BY <1>2, <2>2, <2>5
    <2>8. tx' \in [Node -> [TxSlot -> TxDatagram]] /\ air' \in [Node -> Packet] /\ Loaded'
        BY <1>1, <2>2, <2>6, <2>7, SendRoundType
    <2> QED
        <3>1. UNCHANGED <<credits, armed, failed>>
            BY <2>1
        <3> QED
            BY <1>1, <2>8, <3>1 DEF TypeOK
<1>4. CASE GiveUp(n)
    <2>1. PICK s \in TxIn(tx[n], "OPEN") :
              /\ failed' = [failed EXCEPT ![n] = @ \cup {tx[n][s].data}]
              /\ TryOpenQueued(n, [tx[n] EXCEPT ![s] = EmptyTx])
        BY <1>4 DEF GiveUp
    <2>2. s \in TxSlot /\ tx[n][s].data \in Payload
        BY <1>2 DEF TxIn
    <2>3. EmptyTx \in TxDatagram /\ EmptyTx.state = "EMPTY"
        BY LinkAssumption, WindowAssumption DEF EmptyTx, TxDatagram, Id
    <2>4. /\ [tx[n] EXCEPT ![s] = EmptyTx] \in [TxSlot -> TxDatagram]
          /\ \A t \in TxSlot : [tx[n] EXCEPT ![s] = EmptyTx][t].state # "EMPTY"
                  => [tx[n] EXCEPT ![s] = EmptyTx][t].data \in Payload
        BY <1>2, <2>2, <2>3
    <2>5. failed' \in [Node -> SUBSET Payload]
        BY <1>1, <2>1, <2>2 DEF TypeOK
    <2> QED
        BY <1>1, <2>1, <2>4, <2>5, TryOpenQueuedType
<1>5. CASE SendOpenData(n)
    <2>1. PICK s \in TxIn(tx[n], "OPEN") : SendRound(n, tx[n], s)
        BY <1>5 DEF SendOpenData
    <2>2. s \in TxSlot /\ tx[n][s].data \in Payload
        BY <1>2 DEF TxIn
    <2>3. tx' \in [Node -> [TxSlot -> TxDatagram]] /\ air' \in [Node -> Packet] /\ Loaded'
        BY <1>1, <1>2, <2>1, <2>2, SendRoundType
    <2> QED
        BY <1>1, <1>5, <2>3 DEF SendOpenData, TypeOK
<1>6. CASE OpenNext(n)
    <2>1. TryOpenQueued(n, tx[n]) /\ failed' = failed
        BY <1>6 DEF OpenNext
    <2>2. failed' \in [Node -> SUBSET Payload]
        BY <1>1, <2>1 DEF TypeOK
    <2> QED
        BY <1>1, <1>2, <2>1, <2>2, TryOpenQueuedType
<1>7. CASE AwaitAck(n)
    BY <1>1, <1>7 DEF AwaitAck, TypeOK, Loaded
<1> QED
    BY <1>3, <1>4, <1>5, <1>6, <1>7 DEF TickData

LEMMA TickDeliverType ==
    ASSUME TypeInv, NEW n \in Node, TickDeliver(n)
    PROVE  TypeInv'
<1>1. TypeOK /\ rx[n] \in [RxSlot -> RxDatagram] /\ air \in [Node -> Packet]
    BY DEF TypeInv, TypeOK
<1>2. Deliverable(n) \subseteq RxSlot /\ Deliverable(n) # {} /\ RxSlot \subseteq Nat
    BY DEF TickDeliver, Deliverable, RxSlot
<1>3. Least(Deliverable(n)) \in Deliverable(n)
    BY <1>2, LeastIsMember
<1>4. Least(Deliverable(n)) \in RxSlot /\ Egress(n) > 0
    BY <1>2, <1>3 DEF Deliverable
<1>5. CompleteRxSlot(n, Least(Deliverable(n)), rx[n], air)
    BY DEF TickDeliver
<1>6. /\ rx' \in [Node -> [RxSlot -> RxDatagram]]
      /\ window' \in [Node -> Window(Frag)]
      /\ rxQueue' \in [Node -> 0 .. RxQueueDepth]
      /\ delivered' \in [Node -> Seq(SUBSET (Payload \cup {NoData}))]
      /\ air' \in [Node -> Packet]
      /\ pending' \in [Node -> Seq(Ack)]
    BY <1>1, <1>4, <1>5, CompleteRxSlotType
<1> QED
    BY <1>6 DEF TickDeliver, TypeInv, TypeOK, Loaded, sender

LEMMA TickAckType ==
    ASSUME TypeInv, NEW n \in Node, TickAck(n)
    PROVE  TypeInv'
<1>1. /\ pending[n] \in Seq(Ack) /\ pending[n] # <<>>
      /\ air \in [Node -> Packet] /\ pending \in [Node -> Seq(Ack)]
    BY DEF TickAck, TypeInv, TypeOK
<1>2. Head(pending[n]) \in Ack /\ Tail(pending[n]) \in Seq(Ack)
    BY <1>1
<1>3. [type |-> "ACK", ack |-> Head(pending[n])] \in Packet
    BY <1>2 DEF Packet, AckPacket
<1>4. air' \in [Node -> Packet]
    BY <1>1, <1>3, TransmitType DEF TickAck
<1>5. pending' \in [Node -> Seq(Ack)]
    BY <1>1, <1>2 DEF TickAck
<1> QED
    BY <1>4, <1>5 DEF TickAck, TypeInv, TypeOK, Loaded, sender, receiver

LEMMA SubmitType ==
    ASSUME TypeInv, NEW n \in Node, Submit(n)
    PROVE  TypeInv'
<1> DEFINE s == Least(TxIn(tx[n], "EMPTY"))
           slot == [EmptyTx EXCEPT !.state = "QUEUED", !.data = submitted[n],
                                   !.id = nextId[n]]
<1>1. TypeOK /\ Loaded
    BY DEF TypeInv
<1>2. s \in TxSlot
    BY LeastSlot DEF Submit
<1>3. submitted[n] \in Payload
    <2>1. submitted[n] \in Nat /\ submitted[n] < Submits[n] /\ Submits[n] \in Nat
        BY <1>1, LinkAssumption DEF Submit, TypeOK
    <2>2. submitted[n] \in 0 .. Submits[n] - 1
        BY <2>1
    <2> QED
        BY <2>2 DEF Payload
<1>4. nextId[n] \in Id
    BY <1>1 DEF TypeOK
<1>5. slot \in TxDatagram /\ slot.data \in Payload
    <2>1. EmptyTx \in TxDatagram
        BY LinkAssumption, WindowAssumption DEF EmptyTx, TxDatagram, Id
    <2> QED
        BY <1>3, <1>4, <2>1 DEF TxDatagram
<1>6. tx' = [tx EXCEPT ![n] = [tx[n] EXCEPT ![s] = slot]]
    BY DEF Submit
<1> HIDE DEF s, slot
<1>7. /\ tx[n] \in [TxSlot -> TxDatagram]
      /\ \A t \in TxSlot : tx[n][t].state # "EMPTY" => tx[n][t].data \in Payload
    BY <1>1 DEF TypeOK, Loaded
<1>8. tx' \in [Node -> [TxSlot -> TxDatagram]] /\ Loaded'
    BY <1>1, <1>2, <1>5, <1>6, <1>7, SlotUpdateType
<1>9. nextId' \in [Node -> Id]
    <2>1. (nextId[n] + 1) % IdSpace \in Id
        BY <1>4, WindowAssumption DEF Id
    <2> QED
        BY <1>1, <2>1 DEF Submit, TypeOK
<1>10. submitted' \in [Node -> Nat] /\ pc' \in [Node -> {"wait", "tick", "idle"}]
    BY <1>1 DEF Submit, TypeOK
<1> QED
    BY <1>8, <1>9, <1>10 DEF Submit, TypeInv, TypeOK, receiver

LEMMA IdleType ==
    ASSUME TypeInv, NEW n \in Node, Idle(n)
    PROVE  TypeInv'
    BY DEF Idle, TypeInv, TypeOK, Loaded, sender, receiver

LEMMA DrainType ==
    ASSUME TypeInv, NEW n \in Node, Drain(n)
    PROVE  TypeInv'
<1>1. rxQueue' \in [Node -> 0 .. RxQueueDepth]
    BY LinkAssumption DEF Drain, TypeInv, TypeOK
<1> QED
    BY <1>1 DEF Drain, TypeInv, TypeOK, Loaded, sender

LEMMA ApplyConfigType ==
    ASSUME TypeInv, NEW n \in Node, ApplyConfig(n)
    PROVE  TypeInv'
<1>1. EmptyTx \in TxDatagram /\ EmptyTx.state = "EMPTY"
    BY LinkAssumption, WindowAssumption DEF EmptyTx, TxDatagram, Id
<1>2. EmptyRx \in RxDatagram
    BY LinkAssumption, WindowAssumption DEF EmptyRx, RxDatagram, Id
<1>3. EmptyWindow \in Window(Frag)
    BY DEF EmptyWindow, Window
<1>4. tx' \in [Node -> [TxSlot -> TxDatagram]] /\ Loaded'
    BY <1>1 DEF ApplyConfig, TypeInv, TypeOK, Loaded
<1>5. /\ pc' \in [Node -> {"wait", "tick", "idle"}]
      /\ rx' \in [Node -> [RxSlot -> RxDatagram]]
      /\ pending' \in [Node -> Seq(Ack)]
      /\ window' \in [Node -> Window(Frag)]
      /\ armed' \in [Node -> BOOLEAN]
      /\ resets' \in [Node -> Nat]
    BY <1>2, <1>3 DEF ApplyConfig, TypeInv, TypeOK
<1>6. credits' \in [Node -> 0 .. TxSlots] /\ nextId' \in [Node -> Id]
    BY LinkAssumption, WindowAssumption DEF ApplyConfig, TypeInv, TypeOK, Id
<1> QED
    BY <1>4, <1>5, <1>6 DEF ApplyConfig, TypeInv, TypeOK

LEMMA NextType == TypeInv /\ [NextWithReset]_vars => TypeInv'
<1> SUFFICES ASSUME TypeInv, [NextWithReset]_vars PROVE TypeInv'
    OBVIOUS
<1>1. CASE UNCHANGED vars
    <2>1. UNCHANGED <<pc, tx, rx, pending, window, credits, nextId, armed, air, rxQueue,
                      submitted, completed, failed, delivered, resets>>
        BY <1>1 DEF vars, sender, receiver
    <2> QED
        BY <2>1 DEF TypeInv, TypeOK, Loaded
<1>2. ASSUME NEW n \in Node, Step(n) PROVE TypeInv'
    BY <1>2, HandleDataType, HandleAckType, NoPacketEventType, TickDeliverType,
       TickAckType, TickDataType, SubmitType, IdleType, DrainType DEF Step
<1>3. ASSUME NEW n \in Node, ApplyConfig(n) PROVE TypeInv'
    BY <1>3, ApplyConfigType
<1> QED
    BY <1>1, <1>2, <1>3 DEF NextWithReset, Next

\* Every reachable state of the link is typed, also when modems are
\* reconfigured: no bitmap has a bit beyond the last fragment, no attempt
\* counter passes max_attempts, rxQueue never overflows, credits stay within
\* the number of slots.
THEOREM TypeCorrect == ResetSpec => []TypeOK
<1>1. Init => TypeInv
    BY InitType
<1>2. TypeInv /\ [NextWithReset]_vars => TypeInv'
    BY NextType
<1>3. TypeInv => TypeOK
    BY DEF TypeInv
<1> QED
    BY <1>1, <1>2, <1>3, PTL DEF ResetSpec

----------------------------------------------------------------------------
\* Verdicts

\* What the slots of a sender carry, whatever else is known of them.
Load(slots) ==
    [s \in TxSlot |-> IF slots[s].state = "EMPTY" THEN NoData ELSE slots[s].data]

\* The account of one sender: every datagram it took is carried by one slot, or
\* has one verdict.
Account(load, sub, comp, fail) ==
    /\ \A s \in TxSlot : load[s] # NoData =>
           load[s] \in 0 .. sub - 1 /\ load[s] \notin comp /\ load[s] \notin fail
    /\ \A s, t \in TxSlot : load[s] # NoData /\ load[s] = load[t] => s = t
    /\ \A k \in 0 .. sub - 1 : k \in comp \/ k \in fail \/ \E s \in TxSlot : load[s] = k
    /\ comp \subseteq 0 .. sub - 1 /\ fail \subseteq 0 .. sub - 1
    /\ comp \cap fail = {}

\* OneVerdict, and no datagram in two slots.
VerdictInv ==
    \A n \in Node : Account(Load(tx[n]), submitted[n], completed[n], failed[n])

LEMMA PayloadIsNat == Payload \subseteq Nat /\ NoData \notin Payload
    BY LinkAssumption DEF Payload, NoData

LEMMA VerdictInvIsOneVerdict == TypeInv /\ VerdictInv => OneVerdict
<1> SUFFICES ASSUME TypeInv, VerdictInv, NEW n \in Node
             PROVE  LET live == {tx[n][s].data : s \in TxSlot \ TxIn(tx[n], "EMPTY")}
                    IN  /\ 0 .. submitted[n] - 1 = live \cup completed[n] \cup failed[n]
                        /\ live \cap (completed[n] \cup failed[n]) = {}
                        /\ completed[n] \cap failed[n] = {}
    BY DEF OneVerdict
<1> DEFINE load == Load(tx[n])
           live == {tx[n][s].data : s \in TxSlot \ TxIn(tx[n], "EMPTY")}
<1>1. ASSUME NEW s \in TxSlot
      PROVE  /\ s \in TxIn(tx[n], "EMPTY") => load[s] = NoData
             /\ s \notin TxIn(tx[n], "EMPTY") => load[s] = tx[n][s].data /\ load[s] # NoData
    BY PayloadIsNat DEF TxIn, Load, TypeInv, Loaded
<1>2. live = {load[s] : s \in {t \in TxSlot : load[t] # NoData}}
    BY <1>1
<1>3. Account(load, submitted[n], completed[n], failed[n])
    BY DEF VerdictInv
<1>4. NoData \notin 0 .. submitted[n] - 1
    BY DEF NoData
<1> HIDE DEF load, live
<1>5. live \subseteq 0 .. submitted[n] - 1
      /\ live \cap completed[n] = {} /\ live \cap failed[n] = {}
    BY <1>2, <1>3 DEF Account
<1>6. \A k \in 0 .. submitted[n] - 1 : k \in live \cup completed[n] \cup failed[n]
    BY <1>2, <1>3, <1>4 DEF Account
<1>7. /\ completed[n] \subseteq 0 .. submitted[n] - 1
      /\ failed[n] \subseteq 0 .. submitted[n] - 1
      /\ completed[n] \cap failed[n] = {}
    BY <1>3 DEF Account
<1> QED
    BY <1>5, <1>6, <1>7 DEF live

\* A verdict empties the one slot that carried the datagram.
LEMMA AccountDecided ==
    ASSUME NEW load \in [TxSlot -> Payload \cup {NoData}], NEW sub, NEW comp, NEW fail,
           NEW s \in TxSlot, load[s] # NoData, Account(load, sub, comp, fail)
    PROVE  /\ Account([load EXCEPT ![s] = NoData], sub, comp \cup {load[s]}, fail)
           /\ Account([load EXCEPT ![s] = NoData], sub, comp, fail \cup {load[s]})
<1> DEFINE new == [load EXCEPT ![s] = NoData]
           k0 == load[s]
<1>1. /\ new[s] = NoData
      /\ \A t \in TxSlot : t # s => new[t] = load[t] /\ load[t] # k0
    BY DEF Account
<1>2. k0 \in 0 .. sub - 1 /\ k0 \notin comp /\ k0 \notin fail
    BY DEF Account
<1>3. \A t \in TxSlot : new[t] # NoData => t # s /\ new[t] = load[t]
    BY <1>1
<1>4. \A t \in TxSlot : load[t] # k0 => new[t] = load[t]
    BY <1>1
<1> HIDE DEF new, k0
<1>5. \A t, u \in TxSlot : new[t] # NoData /\ new[t] = new[u] => t = u
    BY <1>3 DEF Account
<1>6. \A k \in 0 .. sub - 1 : k = k0 \/ k \in comp \/ k \in fail \/ \E t \in TxSlot : new[t] = k
    BY <1>4 DEF Account
<1>7. \A t \in TxSlot : new[t] # NoData =>
          new[t] \in 0 .. sub - 1 /\ new[t] \notin comp /\ new[t] \notin fail /\ new[t] # k0
    BY <1>1, <1>3 DEF Account
<1>8. Account(new, sub, comp \cup {k0}, fail)
    BY <1>2, <1>5, <1>6, <1>7 DEF Account
<1>9. Account(new, sub, comp, fail \cup {k0})
    BY <1>2, <1>5, <1>6, <1>7 DEF Account
<1> QED
    BY <1>8, <1>9 DEF new, k0

\* A new datagram goes to a slot that carries none.
LEMMA AccountOffered ==
    ASSUME NEW load \in [TxSlot -> Payload \cup {NoData}], NEW sub \in Nat, NEW comp, NEW fail,
           NEW s \in TxSlot, load[s] = NoData, Account(load, sub, comp, fail)
    PROVE  Account([load EXCEPT ![s] = sub], sub + 1, comp, fail)
<1> DEFINE new == [load EXCEPT ![s] = sub]
<1>1. new[s] = sub /\ \A t \in TxSlot : t # s => new[t] = load[t]
    OBVIOUS
<1>2. /\ 0 .. sub + 1 - 1 = (0 .. sub - 1) \cup {sub}
      /\ sub \notin 0 .. sub - 1
      /\ sub # NoData
    BY DEF NoData
<1>3. sub \notin comp /\ sub \notin fail /\ \A t \in TxSlot : load[t] # sub
    BY <1>2 DEF Account
<1> DEFINE ids == 0 .. sub - 1
           ids1 == 0 .. sub + 1 - 1
<1> HIDE DEF new, ids, ids1
<1>4. ids1 = ids \cup {sub} /\ sub \notin ids
    BY <1>2 DEF ids, ids1
<1>5. /\ \A t \in TxSlot : load[t] # NoData =>
             load[t] \in ids /\ load[t] \notin comp /\ load[t] \notin fail
      /\ \A t, u \in TxSlot : load[t] # NoData /\ load[t] = load[u] => t = u
      /\ \A k \in ids : k \in comp \/ k \in fail \/ \E t \in TxSlot : load[t] = k
      /\ comp \subseteq ids /\ fail \subseteq ids /\ comp \cap fail = {}
    BY DEF Account, ids
<1>6. \A t \in TxSlot : new[t] # NoData =>
          new[t] \in ids1 /\ new[t] \notin comp /\ new[t] \notin fail
    BY <1>1, <1>3, <1>4, <1>5
<1>7. \A t, u \in TxSlot : new[t] # NoData /\ new[t] = new[u] => t = u
    BY <1>1, <1>3, <1>5
<1>8. \A k \in ids1 : k \in comp \/ k \in fail \/ \E t \in TxSlot : new[t] = k
    <2>1. ASSUME NEW t \in TxSlot, load[t] # NoData PROVE new[t] = load[t]
        BY <1>1, <2>1
    <2>2. NoData \notin ids
        BY DEF ids, NoData
    <2> QED
        BY <1>1, <1>4, <1>5, <2>1, <2>2
<1> QED
    BY <1>4, <1>5, <1>6, <1>7, <1>8 DEF Account, ids1, new

\* What one step of a modem does to the four things a host can see.
Keeps == /\ \A m \in Node : Load(tx'[m]) = Load(tx[m])
         /\ UNCHANGED <<submitted, completed, failed>>

Offers(n) == \E s \in TxSlot :
    /\ Load(tx[n])[s] = NoData
    /\ submitted[n] < Submits[n]
    /\ Load(tx'[n]) = [Load(tx[n]) EXCEPT ![s] = submitted[n]]
    /\ \A m \in Node : m # n => Load(tx'[m]) = Load(tx[m])
    /\ submitted' = [submitted EXCEPT ![n] = @ + 1]
    /\ UNCHANGED <<completed, failed>>

Empties(n, s) ==
    /\ s \in TxSlot
    /\ Load(tx[n])[s] # NoData
    /\ Load(tx'[n]) = [Load(tx[n]) EXCEPT ![s] = NoData]
    /\ \A m \in Node : m # n => Load(tx'[m]) = Load(tx[m])

Confirms(n) == \E s \in TxSlot :
    /\ Empties(n, s)
    /\ completed' = [completed EXCEPT ![n] = @ \cup {tx[n][s].data}]
    /\ UNCHANGED <<submitted, failed>>

Abandons(n) == \E s \in TxSlot :
    /\ Empties(n, s)
    /\ failed' = [failed EXCEPT ![n] = @ \cup {tx[n][s].data}]
    /\ UNCHANGED <<submitted, completed>>

LEMMA LoadType ==
    ASSUME TypeInv, NEW n \in Node
    PROVE  Load(tx[n]) \in [TxSlot -> Payload \cup {NoData}]
    BY DEF TypeInv, Loaded, Load

LEMMA LoadOfReplaced ==
    ASSUME NEW slots \in [TxSlot -> TxDatagram], NEW s \in TxSlot, NEW slot
    PROVE  Load([slots EXCEPT ![s] = slot]) =
               [Load(slots) EXCEPT ![s] = IF slot.state = "EMPTY" THEN NoData ELSE slot.data]
<1>1. \A t \in TxSlot : t # s => [slots EXCEPT ![s] = slot][t] = slots[t]
    OBVIOUS
<1>2. [slots EXCEPT ![s] = slot][s] = slot
    OBVIOUS
<1> QED
    BY <1>1, <1>2 DEF Load

\* A slot replaced by one with the same datagram, or none.
LEMMA LoadOfUpdate ==
    ASSUME TypeOK, NEW n \in Node, NEW slots \in [TxSlot -> TxDatagram], NEW s \in TxSlot,
           NEW slot \in TxDatagram, slot.data = slots[s].data,
           slot.state = "EMPTY" <=> slots[s].state = "EMPTY",
           tx' = [tx EXCEPT ![n] = [slots EXCEPT ![s] = slot]]
    PROVE  /\ Load(tx'[n]) = Load(slots)
           /\ \A m \in Node : m # n => Load(tx'[m]) = Load(tx[m])
<1>1. tx'[n] = [slots EXCEPT ![s] = slot] /\ \A m \in Node : m # n => tx'[m] = tx[m]
    BY DEF TypeOK
<1>2. \A t \in TxSlot : t # s => tx'[n][t] = slots[t]
    BY <1>1
<1>3. tx'[n][s] = slot
    BY <1>1
<1> QED
    BY <1>1, <1>2, <1>3 DEF Load

LEMMA SendRoundLoad ==
    ASSUME TypeOK, NEW n \in Node, NEW slots \in [TxSlot -> TxDatagram], NEW s \in TxSlot,
           SendRound(n, slots, s)
    PROVE  /\ Load(tx'[n]) = Load(slots)
           /\ \A m \in Node : m # n => Load(tx'[m]) = Load(tx[m])
<1> DEFINE left == {f \in slots[s].round : f >= slots[s].next}
           f == Least(left)
<1>1. CASE left = {}
    <2>1. [slots[s] EXCEPT !.round = {}] \in TxDatagram
        BY DEF TxDatagram
    <2>2. /\ [slots[s] EXCEPT !.round = {}].data = slots[s].data
          /\ [slots[s] EXCEPT !.round = {}].state = slots[s].state
        BY DEF TxDatagram
    <2>3. tx' = [tx EXCEPT ![n] = [slots EXCEPT ![s] = [slots[s] EXCEPT !.round = {}]]]
        BY <1>1 DEF SendRound
    <2> QED
        BY <2>1, <2>2, <2>3, LoadOfUpdate
<1>2. CASE left # {}
    <2>1. f \in slots[s].round /\ f \in Frag
        BY <1>2, NextFragment
    <2>2. f + 1 \in 0 .. MaxFrags /\ f \in 0 .. MaxFrags
        BY <2>1, LinkAssumption DEF Frag
    <2> HIDE DEF left, f
    <2>3. /\ [slots[s] EXCEPT !.round = @ \ {f}, !.next = f + 1] \in TxDatagram
          /\ [slots[s] EXCEPT !.round = @ \ {f}, !.next = f + 1].data = slots[s].data
          /\ [slots[s] EXCEPT !.round = @ \ {f}, !.next = f + 1].state = slots[s].state
        BY <2>1, <2>2 DEF TxDatagram
    <2>4. /\ [slots[s] EXCEPT !.next = f] \in TxDatagram
          /\ [slots[s] EXCEPT !.next = f].data = slots[s].data
          /\ [slots[s] EXCEPT !.next = f].state = slots[s].state
        BY <2>1, <2>2 DEF TxDatagram
    <2>5. CASE tx' = [tx EXCEPT ![n] =
                        [slots EXCEPT ![s].round = @ \ {f}, ![s].next = f + 1]]
        <3>1. tx' = [tx EXCEPT ![n] = [slots EXCEPT ![s] =
                        [slots[s] EXCEPT !.round = @ \ {f}, !.next = f + 1]]]
            BY <2>5
        <3> QED
            BY <2>3, <3>1, LoadOfUpdate
    <2>6. CASE tx' = [tx EXCEPT ![n] = [slots EXCEPT ![s].next = f]]
        <3>1. tx' = [tx EXCEPT ![n] = [slots EXCEPT ![s] = [slots[s] EXCEPT !.next = f]]]
            BY <2>6
        <3> QED
            BY <2>4, <3>1, LoadOfUpdate
    <2> QED
        BY <1>2, <2>5, <2>6 DEF SendRound, left, f
<1> QED
    BY <1>1, <1>2

\* Opening a datagram, sending it or leaving it queued: the slots carry what
\* they carried.
LEMMA TryOpenQueuedLoad ==
    ASSUME TypeOK, NEW n \in Node, NEW slots \in [TxSlot -> TxDatagram],
           \A t \in TxSlot : slots[t].state # "EMPTY" => slots[t].data \in Payload,
           TryOpenQueued(n, slots)
    PROVE  /\ Load(tx'[n]) = Load(slots)
           /\ \A m \in Node : m # n => Load(tx'[m]) = Load(tx[m])
<1>1. CASE OpenQueued(n, slots)
    <2> DEFINE s == Least(TxIn(slots, "QUEUED"))
               opened == [slots EXCEPT ![s] = Opened(slots[s])]
    <2>1. s \in TxSlot /\ slots[s].state = "QUEUED"
        BY <1>1, LeastSlot DEF OpenQueued
    <2>2. slots[s] \in TxDatagram /\ slots[s].data \in Payload
        BY <2>1
    <2>3. Full(Length[slots[s].data]) \in SUBSET Frag
        BY <2>2, LengthIsDatagramLength, FullIsFrags
    <2>4. /\ Opened(slots[s]) \in TxDatagram /\ Opened(slots[s]).data = slots[s].data
          /\ Opened(slots[s]).state = "OPEN"
        <3>1. 0 \in 0 .. MaxFrags /\ 1 \in 0 .. MaxAttempts
            BY LinkAssumption
        <3> QED
            BY <2>2, <2>3, <3>1 DEF Opened, TxDatagram
    <2>5. SendRound(n, opened, s)
        BY <1>1 DEF OpenQueued
    <2> HIDE DEF s
    <2>6. opened \in [TxSlot -> TxDatagram]
        BY <2>1, <2>4
    <2>7. Load(opened) = Load(slots)
        BY <2>1, <2>4 DEF Load
    <2> HIDE DEF opened
    <2> QED
        BY <2>1, <2>5, <2>6, <2>7, SendRoundLoad
<1>2. CASE KeepQueued(n, slots)
    BY <1>2 DEF KeepQueued, TypeOK
<1> QED
    BY <1>1, <1>2 DEF TryOpenQueued

\* An ACK leaves what the slots carry, or confirms the matching datagram.
LEMMA HandleAckVerdict ==
    ASSUME TypeInv, NEW n \in Node, HandleAck(n)
    PROVE  Keeps \/ Confirms(n)
<1> DEFINE ack == air[n].ack
<1>1. TypeOK /\ tx[n] \in [TxSlot -> TxDatagram] /\ UNCHANGED <<submitted, failed>>
    BY DEF TypeInv, TypeOK, HandleAck
<1>2. ack \in Ack /\ ack.bitmap \in SUBSET Frag
    <2>1. air[n] \in Packet /\ air[n].type = "ACK"
        BY DEF TypeInv, TypeOK, HandleAck
    <2>2. air[n] \in AckPacket
        BY <2>1 DEF Packet, NoPacket, DataPacket
    <2> QED
        BY <2>2 DEF AckPacket, Ack
<1>3. CASE UNCHANGED <<tx, completed>>
    BY <1>1, <1>3 DEF Keeps
<1>4. ASSUME NEW s \in Matching(n, ack), ApplyAck(n, s, ack) PROVE Keeps \/ Confirms(n)
    <2>1. /\ s \in TxSlot /\ tx[n][s] \in TxDatagram /\ tx[n][s].state = "OPEN"
          /\ tx[n][s].data \in Payload
        BY <1>1, <1>4 DEF Matching, TxIn, TypeInv, Loaded
    <2>2. CASE ack.failure = "CREDIT_WITHDRAWAL"
        <3>1. tx' = [tx EXCEPT ![n] = [tx[n] EXCEPT ![s] = Withdraw(tx[n][s], ack)]]
            BY <1>4, <2>2 DEF ApplyAck
        <3>2. /\ Withdraw(tx[n][s], ack) \in TxDatagram
              /\ Withdraw(tx[n][s], ack).data = tx[n][s].data
              /\ Withdraw(tx[n][s], ack).state = tx[n][s].state
            <4>1. 0 \in 0 .. MaxFrags /\ 1 \in 0 .. MaxAttempts
                BY LinkAssumption
            <4>2. tx[n][s].acked \cap ack.bitmap \in SUBSET Frag
                BY <1>2
            <4> QED
                BY <2>1, <4>1, <4>2 DEF Withdraw, TxDatagram
        <3>3. completed' = completed
            BY <1>4, <2>2 DEF ApplyAck
        <3> QED
            BY <1>1, <2>1, <3>1, <3>2, <3>3, LoadOfUpdate DEF Keeps
    <2>3. CASE ack.failure # "CREDIT_WITHDRAWAL" /\ Finished(tx[n][s], ack)
        <3>1. /\ tx' = [tx EXCEPT ![n] = [tx[n] EXCEPT ![s] = EmptyTx]]
              /\ completed' = [completed EXCEPT ![n] = @ \cup {tx[n][s].data}]
            BY <1>4, <2>3 DEF ApplyAck
        <3>2. /\ tx'[n] = [tx[n] EXCEPT ![s] = EmptyTx]
              /\ \A m \in Node : m # n => tx'[m] = tx[m]
            BY <1>1, <3>1 DEF TypeOK
        <3>3. Load(tx[n])[s] # NoData
            BY <2>1, PayloadIsNat DEF Load
        <3>4. Load(tx'[n]) = [Load(tx[n]) EXCEPT ![s] = NoData]
            <4>1. EmptyTx.state = "EMPTY"
                BY DEF EmptyTx
            <4> QED
                BY <1>1, <2>1, <3>2, <4>1, LoadOfReplaced
        <3> QED
            BY <1>1, <2>1, <3>1, <3>2, <3>3, <3>4 DEF Confirms, Empties
    <2>4. CASE ack.failure # "CREDIT_WITHDRAWAL" /\ ~Finished(tx[n][s], ack)
        <3>1. tx' = [tx EXCEPT ![n] = [tx[n] EXCEPT
                        ![s] = [tx[n][s] EXCEPT !.acked = @ \cup ack.bitmap]]]
            BY <1>4, <2>4 DEF ApplyAck
        <3>2. completed' = completed
            BY <1>4, <2>4 DEF ApplyAck
        <3>3. /\ [tx[n][s] EXCEPT !.acked = @ \cup ack.bitmap] \in TxDatagram
              /\ [tx[n][s] EXCEPT !.acked = @ \cup ack.bitmap].data = tx[n][s].data
              /\ [tx[n][s] EXCEPT !.acked = @ \cup ack.bitmap].state = tx[n][s].state
            BY <1>2, <2>1 DEF TxDatagram
        <3> QED
            BY <1>1, <2>1, <3>1, <3>2, <3>3, LoadOfUpdate DEF Keeps
    <2> QED
        BY <2>2, <2>3, <2>4
<1> QED
    BY <1>3, <1>4 DEF HandleAck

\* A tick gives up at most one datagram, and keeps every other.
LEMMA TickDataVerdict ==
    ASSUME TypeInv, NEW n \in Node, TickData(n)
    PROVE  Keeps \/ Abandons(n)
<1>1. /\ TypeOK /\ tx[n] \in [TxSlot -> TxDatagram] /\ UNCHANGED <<submitted, completed>>
      /\ \A t \in TxSlot : tx[n][t].state # "EMPTY" => tx[n][t].data \in Payload
    BY DEF TypeInv, TypeOK, Loaded, TickData
<1>2. CASE Retransmit(n)
    <2>1. PICK s \in TxIn(tx[n], "OPEN") :
              LET slot == tx[n][s]
              IN  /\ slot.attempts < MaxAttempts
                  /\ SendRound(n, [tx[n] EXCEPT ![s].attempts = @ + 1,
                                                ![s].round = Missing(slot),
                                                ![s].next = 0], s)
                  /\ UNCHANGED <<credits, armed, failed>>
        BY <1>2 DEF Retransmit
    <2> DEFINE new == [tx[n][s] EXCEPT !.attempts = @ + 1, !.round = Missing(tx[n][s]),
                                       !.next = 0]
               slots == [tx[n] EXCEPT ![s] = new]
    <2>2. s \in TxSlot /\ tx[n][s] \in TxDatagram /\ tx[n][s].data \in Payload
        BY <1>1 DEF TxIn
    <2>3. Missing(tx[n][s]) \in SUBSET Frag
        BY <2>2, LengthIsDatagramLength, FullIsFrags DEF Missing
    <2>4. tx[n][s].attempts + 1 \in 0 .. MaxAttempts /\ 0 \in 0 .. MaxFrags
        BY <2>1, <2>2, LinkAssumption DEF TxDatagram
    <2>5. new \in TxDatagram /\ new.data = tx[n][s].data /\ new.state = tx[n][s].state
        BY <2>2, <2>3, <2>4 DEF TxDatagram
    <2>6. SendRound(n, slots, s)
        BY <2>1
    <2> HIDE DEF new
    <2>7. slots \in [TxSlot -> TxDatagram] /\ Load(slots) = Load(tx[n])
        BY <1>1, <2>2, <2>5 DEF Load
    <2> HIDE DEF slots
    <2>8. failed' = failed
        BY <2>1
    <2> QED
        BY <1>1, <2>2, <2>6, <2>7, <2>8, SendRoundLoad DEF Keeps
<1>3. CASE GiveUp(n)
    <2>1. PICK s \in TxIn(tx[n], "OPEN") :
              /\ failed' = [failed EXCEPT ![n] = @ \cup {tx[n][s].data}]
              /\ TryOpenQueued(n, [tx[n] EXCEPT ![s] = EmptyTx])
        BY <1>3 DEF GiveUp
    <2> DEFINE slots == [tx[n] EXCEPT ![s] = EmptyTx]
    <2>2. s \in TxSlot /\ tx[n][s].data \in Payload /\ tx[n][s].state = "OPEN"
        BY <1>1 DEF TxIn
    <2>3. EmptyTx \in TxDatagram /\ EmptyTx.state = "EMPTY"
        BY LinkAssumption, WindowAssumption DEF EmptyTx, TxDatagram, Id
    <2>4. /\ slots \in [TxSlot -> TxDatagram]
          /\ \A t \in TxSlot : slots[t].state # "EMPTY" => slots[t].data \in Payload
        BY <1>1, <2>2, <2>3
    <2>5. Load(slots) = [Load(tx[n]) EXCEPT ![s] = NoData] /\ Load(tx[n])[s] # NoData
        BY <1>1, <2>2, <2>3, PayloadIsNat DEF Load
    <2>6. TryOpenQueued(n, slots)
        BY <2>1
    <2> HIDE DEF slots
    <2>7. /\ Load(tx'[n]) = Load(slots)
          /\ \A m \in Node : m # n => Load(tx'[m]) = Load(tx[m])
        BY <1>1, <2>4, <2>6, TryOpenQueuedLoad
    <2> QED
        BY <1>1, <2>1, <2>2, <2>5, <2>7 DEF Abandons, Empties
<1>4. CASE SendOpenData(n)
    <2>1. PICK s \in TxIn(tx[n], "OPEN") : SendRound(n, tx[n], s)
        BY <1>4 DEF SendOpenData
    <2>2. s \in TxSlot /\ failed' = failed
        BY <1>4 DEF TxIn, SendOpenData
    <2> QED
        BY <1>1, <2>1, <2>2, SendRoundLoad DEF Keeps
<1>5. CASE OpenNext(n)
    <2>1. TryOpenQueued(n, tx[n]) /\ failed' = failed
        BY <1>5 DEF OpenNext
    <2> QED
        BY <1>1, <2>1, TryOpenQueuedLoad DEF Keeps
<1>6. CASE AwaitAck(n)
    BY <1>1, <1>6 DEF AwaitAck, Keeps
<1> QED
    BY <1>2, <1>3, <1>4, <1>5, <1>6 DEF TickData

LEMMA SubmitVerdict ==
    ASSUME TypeInv, NEW n \in Node, Submit(n)
    PROVE  Offers(n)
<1> DEFINE s == Least(TxIn(tx[n], "EMPTY"))
           slot == [EmptyTx EXCEPT !.state = "QUEUED", !.data = submitted[n], !.id = nextId[n]]
<1>1. s \in TxSlot /\ tx[n][s].state = "EMPTY"
    BY LeastSlot DEF Submit
<1>2. /\ tx' = [tx EXCEPT ![n] = [tx[n] EXCEPT ![s] = slot]]
      /\ slot.state = "QUEUED" /\ slot.data = submitted[n]
    BY DEF Submit, EmptyTx
<1> HIDE DEF s, slot
<1>3. /\ tx'[n] = [tx[n] EXCEPT ![s] = slot]
      /\ \A m \in Node : m # n => tx'[m] = tx[m]
      /\ tx[n] \in [TxSlot -> TxDatagram]
    BY <1>2 DEF TypeInv, TypeOK
<1>4. Load(tx[n])[s] = NoData
    BY <1>1 DEF Load
<1>5. Load(tx'[n]) = [Load(tx[n]) EXCEPT ![s] = submitted[n]]
    BY <1>1, <1>2, <1>3, LoadOfReplaced
<1>6. submitted' = [submitted EXCEPT ![n] = @ + 1] /\ UNCHANGED <<completed, failed>>
      /\ submitted[n] < Submits[n]
    BY DEF Submit
<1> QED
    BY <1>1, <1>3, <1>4, <1>5, <1>6 DEF Offers

\* The four kinds of step.
LEMMA StepVerdict ==
    ASSUME TypeInv, [Next]_vars
    PROVE  Keeps \/ \E n \in Node : Offers(n) \/ Confirms(n) \/ Abandons(n)
<1>1. CASE UNCHANGED vars
    BY <1>1 DEF vars, sender, Keeps
<1>2. ASSUME NEW n \in Node, Step(n)
      PROVE  Keeps \/ Offers(n) \/ Confirms(n) \/ Abandons(n)
    <2>1. CASE HandleData(n) \/ NoPacketEvent(n) \/ TickDeliver(n) \/ TickAck(n) \/ Idle(n)
               \/ Drain(n)
        <3>1. UNCHANGED sender
            BY <2>1 DEF HandleData, NoPacketEvent, TickDeliver, TickAck, Idle, Drain
        <3> QED
            BY <3>1 DEF sender, Keeps
    <2>2. CASE HandleAck(n)
        BY <2>2, HandleAckVerdict
    <2>3. CASE TickData(n)
        BY <2>3, TickDataVerdict
    <2>4. CASE Submit(n)
        BY <2>4, SubmitVerdict
    <2> QED
        BY <1>2, <2>1, <2>2, <2>3, <2>4 DEF Step
<1> QED
    BY <1>1, <1>2 DEF Next

LEMMA NextVerdict == TypeInv /\ VerdictInv /\ [Next]_vars => VerdictInv'
<1> SUFFICES ASSUME TypeInv, VerdictInv, [Next]_vars, NEW m \in Node
             PROVE  Account(Load(tx[m]), submitted[m], completed[m], failed[m])'
    BY DEF VerdictInv
<1>1. /\ Account(Load(tx[m]), submitted[m], completed[m], failed[m])
      /\ Load(tx[m]) \in [TxSlot -> Payload \cup {NoData}]
      /\ submitted \in [Node -> Nat]
      /\ completed \in [Node -> SUBSET Payload] /\ failed \in [Node -> SUBSET Payload]
    BY LoadType DEF VerdictInv, TypeInv, TypeOK
<1> SUFFICES Account(Load(tx'[m]), submitted'[m], completed'[m], failed'[m])
    BY DEF Account, Load
<1>2. CASE Keeps
    BY <1>1, <1>2 DEF Keeps
<1>3. ASSUME NEW n \in Node, Offers(n)
      PROVE  Account(Load(tx'[m]), submitted'[m], completed'[m], failed'[m])
    <2>1. CASE m = n
        BY <1>1, <1>3, <2>1, AccountOffered DEF Offers
    <2>2. CASE m # n
        BY <1>1, <1>3, <2>2 DEF Offers
    <2> QED
        BY <2>1, <2>2
<1>4. ASSUME NEW n \in Node, Confirms(n) \/ Abandons(n)
      PROVE  Account(Load(tx'[m]), submitted'[m], completed'[m], failed'[m])
    <2>1. PICK s : /\ Empties(n, s) /\ submitted' = submitted
                   /\ \/ /\ completed' = [completed EXCEPT ![n] = @ \cup {tx[n][s].data}]
                         /\ failed' = failed
                      \/ /\ failed' = [failed EXCEPT ![n] = @ \cup {tx[n][s].data}]
                         /\ completed' = completed
        BY <1>4 DEF Confirms, Abandons
    <2>2. s \in TxSlot /\ Load(tx[n])[s] = tx[n][s].data
        BY <2>1 DEF Empties, Load
    <2>3. CASE m = n
        <3>1. /\ Account([Load(tx[n]) EXCEPT ![s] = NoData], submitted[n],
                         completed[n] \cup {tx[n][s].data}, failed[n])
              /\ Account([Load(tx[n]) EXCEPT ![s] = NoData], submitted[n],
                         completed[n], failed[n] \cup {tx[n][s].data})
            <4>1. Load(tx[n])[s] # NoData
                BY <2>1 DEF Empties
            <4> QED
                BY <1>1, <2>2, <2>3, <4>1, AccountDecided
        <3>2. /\ submitted'[n] = submitted[n]
              /\ Load(tx'[n]) = [Load(tx[n]) EXCEPT ![s] = NoData]
              /\ \/ /\ completed'[n] = completed[n] \cup {tx[n][s].data}
                    /\ failed'[n] = failed[n]
                 \/ /\ failed'[n] = failed[n] \cup {tx[n][s].data}
                    /\ completed'[n] = completed[n]
            BY <1>1, <2>1 DEF Empties
        <3> QED
            BY <2>3, <3>1, <3>2
    <2>4. CASE m # n
        BY <1>1, <2>1, <2>4 DEF Empties
    <2> QED
        BY <2>3, <2>4
<1> QED
    BY <1>2, <1>3, <1>4, StepVerdict

LEMMA InitVerdict == Init => VerdictInv
<1> SUFFICES ASSUME Init, NEW n \in Node
             PROVE  Account(Load(tx[n]), submitted[n], completed[n], failed[n])
    BY DEF VerdictInv
<1>1. \A s \in TxSlot : Load(tx[n])[s] = NoData
    BY DEF Init, Load, EmptyTx
<1>2. 0 .. 0 - 1 = {}
    OBVIOUS
<1>3. submitted[n] = 0 /\ completed[n] = {} /\ failed[n] = {}
    BY DEF Init
<1> QED
    BY <1>1, <1>2, <1>3 DEF Account

\* Every datagram the engine accepted has exactly one fate at any moment: it is
\* in one slot, or completeTxSlot was called on it, or failTxSlot was; no slot is
\* freed without one of the two calls, and none is freed twice.  This needs no
\* bound on the ids: the sender never looks a datagram up by its id alone.
THEOREM EveryDatagramHasOneVerdict == Spec => []OneVerdict
<1>1. Init => TypeInv /\ VerdictInv
    BY InitType, InitVerdict
<1>2. TypeInv /\ VerdictInv /\ [Next]_vars => (TypeInv /\ VerdictInv)'
    <2> SUFFICES ASSUME TypeInv, VerdictInv, [Next]_vars PROVE (TypeInv /\ VerdictInv)'
        OBVIOUS
    <2>1. [NextWithReset]_vars
        BY DEF NextWithReset
    <2> QED
        BY <2>1, NextType, NextVerdict
<1>3. TypeInv /\ VerdictInv => OneVerdict
    BY VerdictInvIsOneVerdict
<1> QED
    BY <1>1, <1>2, <1>3, PTL DEF Spec

============================================================================
