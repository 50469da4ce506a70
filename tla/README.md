# TLA+ models of the SX1280 FLRC KISS TNC

The firmware turns two Lilygo T3S3 boards (ESP32-S3 and SX1280) into a point-to-point packet link
for two hosts. This directory holds TLA+ specifications of what decides whether a host's packet
arrives: the v3 selective-repeat engine, the MAC task and radio driver that run it, the serial
path between modem and host with its control commands, and the programs on the host that keep a
serial port open. TLC configurations check them on small instances; TLAPS proofs hold for every
instance.

    tlc -workers 2 -config SerialPath_serial.cfg MCSerialPath.tla
    tlapm MacTaskProofs.tla

`PROJECT.json` is the machine-readable index: runs, source lines of every definition, findings,
hazards and theorems.

## The system

```
 host --USB--> serialRxTask --txQueue--> macTask ---+                      +--- macTask ...
                  |  backlog, KISS,       ArqEngine |--- SX1280 ~~~ hop ---|
                  |  commands             Radio     |                      |
 host <--USB-- serialTxTask <--rxQueue-- macTask ---+                      +--- macTask ...
```

| component | state | operations | talks to | properties it owes |
| --- | --- | --- | --- | --- |
| `arq/ArqEngine` | 4 TX slots, 4 RX slots, 16 pending ACKs, duplicate window, remote credits, next id, credit probe | onTxDatagram, onRxPacket, onTick, reset, nextDeadline | MAC task through callbacks (send, deliver, egress capacity) | no acknowledged loss, at most one delivery, whole datagrams, a verdict for each, no slot that is stuck |
| `arq/DatagramPool.h`, window | 64 entries, newest id | find, store, prune | ArqEngine | forgets nothing recent, accuses nothing new |
| `arq/DatagramPool.h`, pools | 8 generation-tagged buffers a direction | acquire, release | ArqEngine | no double lease, no stale handle |
| `framing/FragmentV3.h` | one reassembly per RX slot | describe, accept, complete | ArqEngine | bytes end where they belong |
| `framing/FramingV3.h` | none | build and parse packets | ArqEngine, MAC | parse inverts build; damage is rejected |
| `mac/Mac.cpp` | task phase, staged command, link ages, diagnostic modes | wait, tick, serviceIdle, heartbeats, LBT, band scan, APPLY_CONFIG | everything in the firmware | a command is answered once; the loop never starves; the link state is true |
| legacy ARQ in `mac/Mac.cpp`, `framing/Framing.h` | v1/v2 rounds and bitmaps | | | unreachable: the transport is GENERIC_FRAGMENTED or NATIVE_PACKET |
| `radio/Radio.cpp` | RX buffer, `_txActive`, chip mode | send, ISR, readPacket, applyConfig, scanBand | MAC task | always returns to receive mode |
| `main.cpp`, serial path | RX backlog, write mutex, watchdog | serialRxTask, serialTxTask, control commands | MAC task, hosts | no byte lost, no task blocked for ever |
| `kiss/` | decoder state; integrity envelope | feed, encode, wrap, unwrap | serial path | resynchronises after damage |
| `config/` | settings in NVS | validate, load, save | MAC task, serial path | what is stored is what runs |
| `stats/`, `display/` | counters | count, draw | all | none that a decision reads, but the link-ready flag |
| `kiss_tun.py`, `pi-daemon-rust/` | serial port, TUN device, stop flag, two threads | connect, forward, give up, join | serial path, kernel | gives up for a fault only; reconnects |
| `ReticulumFLRCInterface.py` | serial port, `online`, `running`, `tx_lock` | reopen, read, write in chunks, detach | serial path, Reticulum | frames whole; reconnects; ends when told to |

What is hard: the two engines see each other only through a hop that loses packets in both
directions; every decision of a sender rests on an ACK that is a snapshot of a receiver which has
moved on; ids wrap; a receiver may complete a datagram it has nowhere to put and must take an
acknowledgement back; engines restart alone; and deliveries, ACKs, retransmissions and the host's
own reading are interleaved by two tasks per modem. Inside a modem an interrupt, three tasks and a
host meet in a wait set, two queues, one mutex and a radio that is deaf while it sends; a control
command crosses from one task to the other and back and leaves four copies of the settings to keep
equal. On the host, threads share a port that any of them may close. `hazards` in `PROJECT.json`
lists these, each at its line, with the properties that watch it or the reason why none does.

## The modules

| module | models | role |
| --- | --- | --- |
| `ArqLink` | `ArqEngine.cpp`, `FragmentV3.h`, and the parts of `Mac.cpp`, `Radio.cpp`, `main.cpp` it runs in | two modems, a hop, two hosts |
| `DuplicateWindow` | `DatagramPool.h:131-235` | operators on windows: serial arithmetic, find, store, prune |
| `DuplicateWindowHistory` | `handleData`'s use of the window | completes datagrams in any order the assumptions allow and compares ids with unwrapped numbers |
| `DatagramService` | | what the link promises its hosts: four actions, no radio |
| `MacTask` | `Mac.cpp`, `Radio.cpp` | one modem's MAC task, its chip and interrupt, with a peer, a chip and a host that do what they like |
| `SerialPath` | `main.cpp`, `ModemConfig.cpp`, the command handshake of `Mac.cpp` | one modem's USB side: host, line, both serial tasks, commands, settings |
| `Kiss` | `Kiss.cpp`, `SerialIntegrity.h` | the decoder byte by byte, the encoder, the envelope, as operators |
| `FrameFifo` | | what a direction of the serial line promises: a numbered stream, in order, lossy or not |
| `HostBridge` | `kiss_tun.py`, `pi-daemon-rust/src/main.rs` | the TUN bridges: main, a thread in each direction, sessions |
| `ReticulumInterface` | `ReticulumFLRCInterface.py` | a reader that owns the port, writers under a lock, detach |
| `MCArqLink`, `MCSerialPath` | | constants for TLC |
| `ArqLinkProofs`, `ArqLinkSafety`, `DuplicateWindowProofs`, `DuplicateWindowHistoryProofs`, `MacTaskProofs`, `SerialPathProofs`, `HostBridgeProofs`, `ReticulumInterfaceProofs` | | theorems; `DuplicateWindowProofs` has the facts about serial arithmetic and pruning that two of the others use |

The three state machines of the firmware meet at queues, and each takes the others as open: `SerialPath` has an
engine that takes a frame and delivers one whenever it likes, `MacTask` has an engine of one
datagram a direction and a serial side that queues frames and requests commands whenever it likes,
`ArqLink` has radio, deadlines and hosts that are willing or not at any time. What one of them
assumes of another is checked there: the fairness of `SerialPath`'s MAC steps is `MacTask`'s
`CommandsComplete` and `FramesAreTaken`; that `ArqLink`'s receiver hears again after a lost packet
is `DeafnessEnds`, and run `deaf` shows where it fails. The host's programs are a user of the line
that `SerialPath` leaves open: what it allows of a host (to write when it likes, to break a frame
off) includes what `HostBridge` and `ReticulumInterface` do.

### ArqLink and the code

A step of a modem is one phase of a pass of `macTask` (`pc`): `wait`, where one radio event is
handled; `tick`, `ArqEngine::onTick`; `idle`, `serviceIdle`.

| action | code |
| --- | --- |
| `HandleData` | `ArqEngine::handleData` in its four outcomes (`ReceiveDuplicate`, `RefuseFragment`, `RejectFragment`, `StoreFragment`), completion and its egress check included, and the `flushPendingAck` that ends `handleV3RadioPacket` |
| `HandleAck` | `ArqEngine::handleAck`: credits from every ACK; withdrawal ANDs, any other ACK ORs; completion |
| `NoPacketEvent` | a wake-up, a timeout, a packet that `readPacket` or the parser rejects |
| `TickDeliver`, `TickAck`, `TickData` | the three priorities of `onTick`; `TickData` is `Retransmit`, `GiveUp`, `SendOpenData`, `OpenNext` or `AwaitAck` |
| `OpenQueued`, `KeepQueued` | `tryOpenQueued` with its credits and the credit-stall probe |
| `Submit`, `Idle` | `serviceIdle` takes a datagram from the host's queue, or finds none or no room |
| `Drain` | `serialTxTask` takes a frame from `rxQueue` |
| `ApplyConfig` | `executeStagedCommand`'s APPLY_CONFIG: the engine is rebuilt, on this modem only (only in `ResetSpec`) |

Abstractions, each allowing at least what the code can do:

- time: a deadline may be found passed or not at any tick. Turnaround delays, probe deadlines and
  the LBT back-off are all of this kind, as is a radio that refuses to send.
- the hop: a packet replaces what is in the peer's receive buffer, unread or not, or is lost. The
  SX1280 driver reads one packet per interrupt, so there is no queue to reorder; delay and
  staleness come from the ACK queue, the slots and the buffer.
- data: a datagram is its position in its host's stream. The receiver's slot records for each
  fragment which datagram the bytes came from, so that a mixture shows, although no packet header
  has that number.
- pools: eight buffers for four slots a direction, one lease per live slot; never scarce, left out.
- CONTROL and MGMT packets only count in the engine; `MacTask` has them.

The histories (`submitted`, `completed`, `failed`, `delivered`, `resets`) are read by properties
only, except that `submitted` and `resets` carry the bounds `Submits` and `MaxResets`.

### MacTask and the code

A step of `macTask` is a part of one pass of its loop (`pc`): `wait` on the wait set, `event`
(`handleRadioEvent`), `service` (`serviceTx`), `idle` (`serviceIdle`). A radio operation takes
three more, during which `_txActive` suppresses the interrupt.

| action | code |
| --- | --- |
| `Arrive`, `Lockout` | the air: a packet ends and raises DIO1; the SX1280 stops receiving |
| `Dio1Isr` | `_dio1Isr`, any time after the edge: looks at `_txActive` and at the level |
| `QueueFrame`, `Request`, `PollStats` | the serial task: `notifyTxWork`; `requestApplyConfig` and `requestScanBand`; `refreshLinkStats` for STATS, without a lock |
| `Tick`, `Wake` | `computeWaitMs` and `xQueueSelectFromSet`: sleeps only while nothing is due; a command is staged |
| `Key`, `Air`, `Release` | `transmit`, `applyConfig`, `scanBand`: suppress, operate with success or not, receive again, and what the caller does with the result |
| `HandleRadioEvent` | `handleRadioEvent` of both modes with its heartbeat answers |
| `ServiceTx`, `ServiceNative` | `serviceTx`: expiry of a heartbeat, the engine's tick, the LBT back-off |
| `ExecuteCommand`, `TakeFrame`, `StartHeartbeat`, `PutOffHeartbeat`, `Rearm`, `Rest` | `serviceIdle`, its exits in the order of the code, each with the housekeeping at its head |

Abstractions: a tick is `MAC_MAX_WAIT_MS`, the longest sleep and the housekeeping period; anything
shorter happens between two ticks; clocks are ages with a cap beyond which nothing distinguishes
them, so the wrap of `millis()` after 49 days is not in the model. The engine is what the loop
asks of it (`hasPendingWork`, `nextDeadline`, one round sent or given up). `rxQueue` has room. LBT
in generic mode only delays; the one-shot diagnostic egress token is a bench aid; both are left out.

### SerialPath and the code

    host -> usbRx -> decoder -> backlog -> txQueue -> taken (the engine)
    arrived (the engine) -> rxQueue -> outgoing -> usbTx -> heard, answers (the host)

| action | code |
| --- | --- |
| `SendData`, `TearData`, `SendCommand`, `SendNoise`, `HostRead` | the host: whole frames, frames broken off, command lines, garbage; reads and puts pieces together |
| `QueueFrame`, `ReadFrame` | a pass of `serialRxTask`: the ring empties into `txQueue`, then bytes are fed to the decoder; a frame is a command, data for the ring, or ignored |
| `AnswerAtOnce`, `AskMac` | `handleControlCommand` up to its first wait |
| `ResumeScan`, `Resume`, `SaveSet`, `SaveDefaults` | what follows when the MAC task is done: `modemConfig`, NVS, source, Stats, in the order of the code and with each failure |
| `StageCommand`, `ApplyConfig`, `ScanBand`, `TakeFrame`, `Deliver` | the MAC task as far as the serial side sees it |
| `TakeOutgoing`, `LockTx`, `WriteFrame` | `serialTxTask` |
| `LockRx`, `WriteReply` | `sendControlResponse` under the same mutex |
| `Reboot` | `setup`, with or without the button that clears the stored settings |

Abstractions: of the settings only the transport mode is kept, which decides how frames are
wrapped; a command line is one symbol, one for each way it can be handled; an envelope's header is
one symbol whose CRC is perfect; a frame to the host is `Parts` writes. A task reads up to the next
FEND at a time, since nothing can happen before. Escapes, oversize frames, broken escapes and
resynchronisation are those of the decoder, byte by byte.

### HostBridge, ReticulumInterface and the code

`HostBridge` is both TUN bridges; `bridge` says which. A session is a connected port and two threads.

| action | code |
| --- | --- |
| `Connect`, `Join` | `main`: open the port and start both threads; wait for both, close, begin again |
| `TxCheck`, `TxTimeout`, `TxRead`, `TxReadEmpty`, `TunFails`, `TxWrite`, `TxStalls`, `TxWriteFails` | `tun_to_radio`, thread t1: `TxTimeout` is Python's `select`, which Rust's `recv` does not have; `TxReadEmpty` is a read of no bytes, which ends t1 in Rust (`main.rs:266`) and nothing in Python |
| `RxCheck`, `RxRead`, `RxInject`, `RxInjectFails`, `RxReadFails` | `radio_to_tun`, thread t2 |

`ReticulumInterface` takes every access to what the threads share as a step: the flags are read and
written outside the lock, and `self.serial` is looked up twice on the path of a write timeout.

| action | code |
| --- | --- |
| `Loop`, `Check`, `Read`, `ReadFailed` | `read_loop` |
| `CloseOld`, `Opened`, `SetOnline`, `OpenFails` | `open_serial` under `tx_lock` |
| `Call`, `Lock`, `WriteChunk`, `WriteFails`, `WriteTimesOut` | `process_outgoing` up to its exception handlers |
| `TakePort`, `CloseStalled`, `GoOffline` | the handlers, after the lock was given back |
| `Detach` | `detach`, a statement at a time |

Abstractions: pauses are delay; packets are counted; `dead` is a port whose modem is gone, on which
every operation fails; what is read is a frame, a bad one or nothing.

## The runs

| run | asks | bounds |
| --- | --- | --- |
| `traffic` | type, no acknowledged loss, integrity, exactly-once, one verdict each, true acknowledgements, refinement of `DatagramService` | 3 datagrams of 2, 1, 2 fragments one way, or 1 each way with the same id (`Traffic`); 2 TX and 2 RX slots; 2 attempts; `rxQueue` of 1 |
| `live` | every datagram gets a verdict, every held-back one is handed over, an acknowledgement that is taken back leaves no slot stuck and no datagram acknowledged that was not received | 2 datagrams, one of 3 fragments; 1 TX and 1 RX slot; fairness below |
| `laps` | the window over more than two laps of the id space | 16 ids, window 4, 37 datagrams |
| `mac` | no packet forgotten between interrupt and task, own transmissions silent, the link state follows, deafness ends, heartbeats go on, commands and frames are served | both modes; 2 events a tick; LBT of 2 tries; lockouts; 1 failed operation; 1 attempt; TTLs 1 and 2 ticks |
| `serial` | nothing lost, repeated, mixed or left waiting in either direction; settings, radio, storage and host agree; the serial task always returns; refinement of `FrameFifo`, three times | 3 frames, of which 2 may be commands; payloads of at most 2 bytes with escapes; every queue of 1; 2 pieces a frame; 1 disturbance; 1 delivery; 1 power cycle |
| `reset` | finding: acknowledged loss after one modem is reconfigured | 2 datagrams, 1 reset |
| `order` | finding: duplicate delivery when a queued datagram is overtaken by a window of others | 5 datagrams, 3 slots, window 2 |
| `wrap` | finding: a reassembly given up is completed by the next datagram with its id | 5 datagrams, 4 ids |
| `stuck` | finding: or answers it with a bitmap that wedges its sender | 5 datagrams, 4 ids |
| `deaf` | finding: and while it is there, the receiver is never re-armed | generic mode, one partial datagram |
| `bridge` | a session ends only for a fault of its own; both bridges reconnect | 1 packet in the TUN device; 3 faults |
| `reticulum` | frames are whole on the line; faults do not multiply into reopenings; the interface reconnects; detach ends the reader | 2 writers, frames of 2 chunks, 2 faults |

Why the bounds are enough for what they ask. *Link*: two datagrams exercise every interaction of a
slot with its reuse, the third one the interaction of an open slot with a queued one and a window
that has already stored; a datagram of two fragments has a partial round, one of three an
acknowledged hole (the withdrawal bitmap keeps all but fragment 0, so two fragments cannot tell it
from an empty one). `rxQueue` of one makes full egress frequent. Two attempts are the first and the
last. `IdSpace` and `WindowSize` are small but keep the code's relation, a window of at most half
the space; `laps` is about their arithmetic alone. *MAC*: two events a tick let a packet replace an
unread one, a command meet a frame in flight, and a confirmation race a second reader; the time
limits keep the order of the code's (ready before probe), and the cap is beyond the last. *Serial*:
queues of one are always full or empty; with three frames one is in the decoder while one is in
the ring and one in `txQueue`; two commands meet as answer and successor, or around a power cycle.
*Host*: three faults are one in each thread and one more in the session that follows; in the
Reticulum interface two faults let one writer's late handler close the port that was opened after
the other's, and two chunks leave one gap in a frame. `ReopensAreBounded` is tight: with one fault
and two writers there are behaviours with exactly that many openings. What the instances cannot
show, the proofs do.

Two runs need a word about their hypotheses. `DuplicateWindowHistory` assumes that a completing
datagram is less than half the id space ahead of the newest one (`MaxGap`), and less than a window
behind it (`MaxLag`); the code guarantees neither: the first fails after 2^15 consecutive failures,
the second in run `order`. `NothingSkipped` is asked of a host that breaks no frame off, with noise
after which the decoder is where it was; it says that the frames accepted are the first ones sent, in
order, that no more commands are begun than were written, and that an empty line leaves none of
either out. A single stray FEND puts it out of phase with frames that
have one at each end, and then it drops frame after frame; `docs/kiss_conformance.md:70-73` accepts
that. That no wrong frame gets in meanwhile is `EngineIsServed`, which has torn frames.

### Fairness

`ArqLink`: weak fairness of each phase of each loop: `macTask` is a loop with a bounded wait
(`nextDeadline`, `Mac.cpp:1450-1495`) and a watchdog, and `serialTxTask` is one that the host lets
run by reading. Strong fairness of `DataProgress` says that among infinitely many ticks with data
work some find the deadline passed and the radio willing: `millis()` advances, and the radio does
not refuse for ever. Nothing is assumed of the hop: `VerdictReached` holds when it loses
everything, by giving up.

`MacTask`: weak fairness of the task, of the interrupt and of time. The peer, the chip's lockouts
and the host owe nothing, except that they do at most `MaxEvents` things a tick.

`SerialPath`: weak fairness of each serial task, of the MAC task's work and of the host's reading;
`USB.write` returns when the host reads. Whether the host writes and the engine delivers is open.

`HostBridge`, `ReticulumInterface`: each thread runs. Reticulum need not write, and the lock need
not be fair to those who wait. A reconnection is promised only if the modem stays plugged in from
some time on (`Steady`); the bounds on faults say that there is a last one.

## Findings

1. `reset`: after APPLY_CONFIG (or a power cycle) ids start again at 0 while the peer's window
   still has them. The next datagrams are acknowledged as duplicates and never delivered. The plan
   promises that there is never acknowledged loss.
2. `order`: `tryOpenQueued` takes the lowest slot, `onTxDatagram` refills the lowest slot. With a
   host that keeps the queue full, slots 2 and 3 starve while slots 0 and 1 alternate; after 64
   ids their datagrams are older than the window, are stored and pruned at once, and a lost final
   ACK delivers them twice. It is not an effect of the small bounds: the same instance with the
   oldest queued datagram opened first has no such behaviour.
3. `wrap`: in generic mode nothing drops a partial reassembly whose sender gave up. One lap of ids
   later (65536 datagrams) it meets another datagram with its id. If the lengths agree, the old and
   the new fragments are delivered as one datagram.
4. `stuck`: if they do not, the MALFORMED_INPUT reply carries the bitmap of the old reassembly.
   The sender ORs it into its own, and when it covers the new datagram the slot is neither
   complete (the reply is a failure) nor retransmitted (nothing is missing): it stays open, and
   with it `tryOpenQueued` is closed for good. `reset` can lead to both without a lap of ids.
5. `deaf`: the same reassembly counts as pending work, and `serviceIdle` neither re-arms the
   receiver nor sends heartbeats while there is some (`Mac.cpp:1358`). A lock-up of the chip then
   lasts for ever, which the re-arm is there to prevent (`Mac.cpp:69-70`). `config.h:96` has a timeout
   for stale partial frames; in generic mode `serviceRx` returns before it (`Mac.cpp:1210`).

Two more divergences have no run of their own; each is a hypothesis of a property that holds, and
dropping the hypothesis shows it.

- The FEND that closes a frame leaves the decoder in IDLE (`Kiss.cpp:96`), so a host that separates
  frames with one FEND loses every other one. `README.md:42` says both styles work, and
  `review_findings_v2.md:21` that the decoder "now transitions directly to `State::IN_FRAME`";
  `docs/kiss_conformance.md` describes what the code does. With `SharedFend = TRUE` run `serial`
  fails `NothingSkipped`.
- The Rust bridge's t1 waits in `recv` without a timeout (`main.rs:264`), and main joins it before
  t2. After a dropout that t2 noticed, the bridge reconnects only when a packet for the link
  arrives; `walkthrough.md:35` and `README.md:43` promise automatic reconnection. That is the
  proviso `[]<>(tun > 0)` of `Reconnects`, and only Rust has it: Python's `select` of 0.1 s makes
  the difference. A session whose t1 ended on a read of no bytes counts as connected: it only
  receives, until t2 finds a fault.

## What is proved

For all values of the constants that satisfy each module's assumptions: positive sizes and depths,
every length at most `MaxFrags` fragments, a window of at most half an even id space, a probe TTL
longer than the ready TTL. Where a theorem needs more, the hypothesis is named and discussed.

### The link: `ArqLinkProofs`, `ArqLinkSafety`

- `TypeCorrect`: `ResetSpec => []TypeOK`, resets included. `TypeOK` is not inductive: a slot in use
  with no datagram would send a fragment of nothing. `TypeInv` adds `Loaded`, that it has one.
- `EveryDatagramHasOneVerdict`: `Spec => []OneVerdict`, with no hypothesis, not even on ids. The
  invariant, `VerdictInv`, is an account of each sender (`Account`): every datagram it took is
  carried by one slot or has one verdict. Each step offers a datagram to an empty slot, confirms one,
  abandons one, or keeps the account as it is.
- `NothingAcknowledgedIsLost`, `NothingDeliveredIsMixed`, `AcknowledgementsAreTrue`:
  `Spec => []NoAcknowledgedLoss`, `[]DeliveredWhole`, `[]AcknowledgedWasReceived`, for any loss, any
  refusal and any egress stall, assuming `NoIdReuse`: no host submits more datagrams than there are
  ids. The hypothesis cannot be dropped: `wrap` is a counterexample without it. Nor can `Spec` be
  replaced by `ResetSpec`: see `reset`.
- `NothingIsStuck`: `Spec => []NeverStuck` under `NoIdReuse`, which `stuck` shows to be needed. Its
  strengthening, `AcksHarmless`, says of the ACKs queued and in the air that only one without a
  failure can acknowledge a last fragment; such a one completes the slot.
- `NothingIsDeliveredTwice`: `Spec /\ []Current => []DeliveredAtMostOnce`, and
  `LinkImplementsService`: `Spec /\ []Current => ServiceSpec`, the refinement of `DatagramService`,
  both under `NoIdReuse`.
- `FirstWindowIsDeliveredOnce`, `FirstWindowIsTheService`: the same two without a hypothesis on the
  run, for sessions of fewer datagrams each way than the window has entries, where `Current` is
  itself an invariant.

The invariant behind acknowledgements is `SafetyInv`. Completion is a purely local decision: a sender
ORs bitmaps of ACKs of different moments until they are all ones. That this implies delivery is
`AcknowledgedWasReceived`, which says of an undelivered datagram that everything reported of it,
in the slot, in the ACK queue or in the air, is held by its receiver, and that something is not
reported. To keep the first half through a new ACK one needs that the reassembly answering holds
this datagram and no other (`RxWhole`, `RxUnique`, `AirData`, `SlotIds`, and `Numbered`, where
`NoIdReuse` enters); to keep the second, that a receiver with every fragment reports only after
delivery or as a withdrawal, which senders AND instead of OR; through a duplicate's re-ACK, that
the window remembers only delivered datagrams (`WindowDelivered`). Each step of the engine then has
one lemma, `HandleDataSafe`, `HandleAckSafe` and so on; those that only answer, only store or only
send share `RepliedSafe`, `StoredSafe`, `CompleteRxSlotSafe` and `SlotsSafe`. `RejectFragment` is
shown impossible on the way.

Exactly-once delivery is a matter of how far the duplicate window reaches. `Current` is what it
needs of a run: a fragment in the receive buffer is less than `WindowSize - 1` ids behind the newest
datagram completed, and nothing under way is half the id space from it. The code enforces neither.
Run `order` breaks the first clause and delivers twice; the second is broken by an outage of 2^15
ids (a hazard at `DatagramPool.h:135`). The `- 1` is exact: a held-back datagram delivered late by
`TickDeliver` may take the last place of the window from the entry at its far edge. The invariant,
`OnceInv`, says that what was delivered is remembered or out of reach (`Covered`) and that no
reassembly is of a delivered datagram. With `OriginInv`, that everything received was submitted, and
the two invariants above, it makes `ServiceInv`, from which each step of the link is a step of the
service or leaves both hosts' view alone.

### The window: `DuplicateWindowProofs`, `DuplicateWindowHistoryProofs`

- `TypeCorrect`, `NothingIsForgotten`, `NoDuplicateIsFalse`: `[]TypeOK`, `[]NothingForgotten`,
  `[]NoFalseDuplicate` over any number of laps of the id space. `HistoryInv` says more than both: the
  window is exactly the entries of the completed datagrams less than a window behind the newest. So
  the store's eviction of the oldest, its overwrite of an entry with the same id and its two prunes
  come to that one thing, as long as `MaxGap` and `MaxLag` hold.

### The MAC task: `MacTaskProofs`

- `TypeCorrect`. The strengthening is `TypeInv`: a round is sent only while there is one (`Rounds`),
  back-offs are counted over one frame (`Backoffs`), and settings and heartbeats find the transmit
  phase idle (`Undisturbed`).
- `NothingIsForgotten` and `TransmissionsAreSilent`: `[]NoPacketForgotten` and
  `[]OwnTransmissionsAreSilent`, from one invariant, `Interrupt`. Its parts: a packet that ended
  while the interrupt was open has an edge, a token or the reading of it outstanding (`Remembered`);
  one that is there while the interrupt is suppressed ended then (`Marked`); while an operation is on
  the air there is none and the chip does not receive (`Cleared`); and a token, or an edge with a
  packet, goes back to an event of this tick (`Caused`), so the edge TX_DONE leaves comes to nothing.
- `LinkIsCurrent`: `[]LinkFollows`. Right after a housekeeping the state is what the last
  confirmation makes it (`Fresh(0)`); a tick later it may be one off (`Fresh(1)`), and no second tick
  passes before the next housekeeping, because the loop does not sleep on.

### The serial path: `SerialPathProofs`

- `RadioAndTasksAgree` and `PromisesAreKept`: `[]RadioAgrees` and `[]SavedIsKept`, for any host,
  noise, failure and power cycle. `SettingsInv` follows a command through its handshake
  (`Handshake`), lets the radio be ahead of `modemConfig` only between the MAC task's success and the
  serial task's return (`Ahead`), and clears a promise when a change is ordered (`Promise`).
- `DeliveriesReachTheHost` and `AnswersReachTheHost`: `Spec => HostIsServed` and
  `Spec => CommandsAreAnswered`, the refinements of `FrameFifo` on the way to the host.
  `AnswersTellTheMode`: `Spec => [](CommandsWereOrdered => HostKnows)`. The invariant, `LineInv`, has
  a view for every piece on the line: what the host will have read, be reading and know of the mode
  when it gets there. The first is where the host is, the last where the two tasks are.
- `EncodedIsDecoded`: `decodeFrameEx` inverts `encodeFrame` for every payload that fits, escapes and
  all, completes nothing before the last byte and ends idle.
- `TypeCorrect`: `Spec => []TypeOK`. The decoder keeps within `_buf` because `Store` does; the bytes
  of a pass are followed by `Way`, the decoder's states from byte to byte.
- `NoCommandIsInvented`: `Spec => [](CommandsWereOrdered /\ HostKnows)`, for any host, with frames
  broken off anywhere and both styles of FEND, assuming `QuietNoise`: noise has no type byte of a
  command first or behind a FEND (else it can be a command). The invariant, `OrderInv`, is a way of
  the decoder along the whole line with a tally of the commands it will complete, from those begun
  to at most those written. It rests on `Calm`: what the decoder is inside of is no command at any
  moment a host begins to write, so a torn frame cannot lend its type byte to what follows.
- `NothingIsSkipped`: `Spec => []NothingSkipped`, assuming that frames do not share FENDs (see the
  findings), that noise leaves the decoder as it was (`NeutralNoise`; a stray FEND does not), and
  that payloads are of a length the engine takes and differ, so that they can be told apart
  (`LegalPayloads`). `StoryInv` adds to the tally a count of the data frames on the line, and that
  each is read in the mode it is wrapped for: it was written when no command was on the line or
  with the modem (`Ready`, from `LineInv`), and one written behind it cannot overtake it.

The instances of run `serial` satisfy all these hypotheses.

### The host's programs: `HostBridgeProofs`, `ReticulumInterfaceProofs`

- `HostBridge`: `TypeCorrect` and `SessionsEndWithCause`: `[]SessionsEndForCause`. A thread gives up
  when its port is not open; the strengthening, `LostForCause`, is that a session whose port is not
  open had a fault, which holds because a session begins with an open port and only faults close it.
- `ReticulumInterface`: `TypeCorrect` and `FramesAreWhole`: `[]FramesWhole`. `Held` says that the
  lock is with the writer that writes or with the reader between closing and publishing a port, so
  the port cannot be replaced under a writer; that a handler closes it outside the lock does not
  replace it. `Unfinished` keeps the chunk count within the frame.
- `ReticulumInterface`: `FaultsCostLittle`: `[]ReopensAreBounded` for any number of writers. `Budget`
  counts what is owed beside what was spent: an opening for a port that is lost, one for each handler
  that will still close one, one for each writer that will still run into a closed port. A fault pays
  for itself and for one of each writer; a handler that races another spends only what was owed.

### Only model-checked

Everything under fairness, which is out of the prover's reach: verdicts, deliveries, deafness,
commands, reconnections, the serial task's return. And `EngineIsServed`, the refinement of `FrameFifo`
with torn frames in it: it needs that no mixture of two frames has the header of one, of which the
model's header, a number made from the payload, is an image and not a proof.

Induction over sequences, which the library states for operators only, is stated for sets here
(`Induction`, `Recursion`), and gives what recursive functions compute, `FeedAll`, `Header` and
`FlattenSeq` among them.

## Not modelled, and the plan

Next:

1. `EngineIsServed` as a theorem: which sequences on the line can carry a genuine header.
2. Runs past `MaxGap` and `MaxLag`, and one with a radio that may refuse for ever.
3. The pools as a data structure of their own.

Left out for good: display and the counters of `Stats` (no decision reads them), byte layout and
CRCs (covered by the firmware's unit and fuzz tests), the legacy ARQ left in `Mac.cpp`
(unreachable: no transport mode selects it), the halts of a failed setup, the settings other than
the transport mode (their ranges are one outcome of a command line), the one-shot diagnostic egress
mode, the consoles and benchmarks in `pi-daemon/`, and the hosts' copies of the decoder and envelope
(the firmware's are in `Kiss`; a host thread takes their result as it comes).

Seen in `ReticulumInterface`, and no property's business: a detach that meets a reader inside
`open_serial` leaves the new port open and `online` true (the reader ends, the port is closed with
the process); after a write timeout a waiting writer may put its frame behind the torn one before
the port is closed, which the modem's envelope check sorts out (`EngineIsServed`).
