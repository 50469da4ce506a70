----------------------------- MODULE HostBridge -----------------------------
(***************************************************************************)
(* The TUN bridges on the host: pi-daemon/kiss_tun.py and                  *)
(* pi-daemon-rust/src/main.rs.  Both open the serial port, run a thread in *)
(* each direction until one of them gives the session up, join both, and   *)
(* begin again.  They differ in how the thread tx waits for a packet.      *)
(*                                                                         *)
(* Abstractions: packets are counted, not told apart; what a thread reads  *)
(* from the port is a whole frame, a bad one, or nothing (Kiss has the     *)
(* decoder); the pauses before another attempt are the attempt's delay.    *)
(***************************************************************************)
EXTENDS Naturals

CONSTANTS
    Bridges,    \* of "python" and "rust", those that run
    TunQueue,   \* packets the TUN device holds
    MaxFaults   \* bound: faults of port and device in all

ASSUME BridgeAssumption ==
    /\ Bridges \subseteq {"python", "rust"} /\ Bridges # {}
    /\ TunQueue \in Nat \ {0}
    /\ MaxFaults \in Nat

VARIABLES
    bridge,   \* the program, fixed
    plugged,  \* the modem is there
    port,     \* "closed", "open", or "dead": open, and its modem gone
    tun,      \* packets waiting in the TUN device
    main,     \* main(): "connect", or "join" while a session runs
    stop,     \* stop_event, stop_signal
    tx,       \* tun_to_radio, t1: "check", "wait", "write", "done"
    rx,       \* radio_to_tun, t2: "check", "read", "inject", "done"
    cause,    \* history: a fault of this session
    faults    \* bound

vars == <<bridge, plugged, port, tun, main, stop, tx, rx, cause, faults>>

----------------------------------------------------------------------------
\* The modem and the network

\* Pulled out, or the board resets and enumerates again.
Unplug ==
    /\ plugged /\ faults < MaxFaults
    /\ plugged' = FALSE
    /\ port' = IF port = "open" THEN "dead" ELSE port
    /\ cause' = (cause \/ port = "open")
    /\ faults' = faults + 1
    /\ UNCHANGED <<bridge, tun, main, stop, tx, rx>>

Plug ==
    /\ ~plugged
    /\ plugged' = TRUE
    /\ UNCHANGED <<bridge, port, tun, main, stop, tx, rx, cause, faults>>

Packet ==
    /\ tun < TunQueue
    /\ tun' = tun + 1
    /\ UNCHANGED <<bridge, plugged, port, main, stop, tx, rx, cause, faults>>

----------------------------------------------------------------------------
\* main()

\* A port that cannot be opened is tried again later.
Connect ==
    /\ main = "connect"
    /\ plugged
    /\ port' = "open"
    /\ stop' = FALSE /\ tx' = "check" /\ rx' = "check" /\ cause' = FALSE
    /\ main' = "join"
    /\ UNCHANGED <<bridge, plugged, tun, faults>>

\* A mutant: only one thread is waited for.
JoinOne ==
    /\ main = "join"
    /\ tx = "done"
    /\ port' = "closed"
    /\ main' = "connect"
    /\ UNCHANGED <<bridge, plugged, tun, stop, tx, rx, cause, faults>>

Join ==
    /\ main = "join"
    /\ tx = "done" /\ rx = "done"
    /\ port' = "closed"
    /\ main' = "connect"
    /\ UNCHANGED <<bridge, plugged, tun, stop, tx, rx, cause, faults>>

----------------------------------------------------------------------------
\* tun_to_radio and t1

GiveUp == stop' = TRUE

TxCheck ==
    /\ tx = "check"
    /\ tx' = IF stop THEN "done" ELSE "wait"
    /\ UNCHANGED <<bridge, plugged, port, tun, main, stop, rx, cause, faults>>

\* select comes back after a tenth of a second; recv does not.
TxTimeout ==
    /\ tx = "wait" /\ tun = 0
    /\ bridge = "python"
    /\ tx' = "check"
    /\ UNCHANGED <<bridge, plugged, port, tun, main, stop, rx, cause, faults>>

\* A packet above the MTU is dropped.
TxRead ==
    /\ tx = "wait" /\ tun > 0
    /\ tun' = tun - 1
    /\ tx' \in {"write", "check"}
    /\ UNCHANGED <<bridge, plugged, port, main, stop, rx, cause, faults>>

\* A packet of no bytes, which Linux never gives.  Python goes on; in Rust t1
\* breaks and tells nobody, and the session lasts until t2 ends it.
TxReadEmpty ==
    /\ tx = "wait" /\ faults < MaxFaults
    /\ tx' = IF bridge = "python" THEN "check" ELSE "done"
    /\ faults' = faults + 1
    /\ UNCHANGED <<bridge, plugged, port, tun, main, stop, rx, cause>>

TunFails ==
    /\ tx = "wait" /\ faults < MaxFaults
    /\ GiveUp
    /\ tx' = "done"
    /\ cause' = TRUE /\ faults' = faults + 1
    /\ UNCHANGED <<bridge, plugged, port, tun, main, rx>>

TxWrite ==
    /\ tx = "write" /\ port = "open"
    /\ tx' = "check"
    /\ UNCHANGED <<bridge, plugged, port, tun, main, stop, rx, cause, faults>>

\* The modem does not read.  Python's close_stalled_serial closes the port.
TxStalls ==
    /\ tx = "write" /\ port = "open" /\ faults < MaxFaults
    /\ GiveUp
    /\ port' = IF bridge = "python" THEN "closed" ELSE port
    /\ tx' = "done"
    /\ cause' = TRUE /\ faults' = faults + 1
    /\ UNCHANGED <<bridge, plugged, tun, main, rx>>

TxWriteFails ==
    /\ tx = "write" /\ port # "open"
    /\ GiveUp
    /\ tx' = "done"
    /\ UNCHANGED <<bridge, plugged, port, tun, main, rx, cause, faults>>

----------------------------------------------------------------------------
\* radio_to_tun and t2

RxCheck ==
    /\ rx = "check"
    /\ rx' = IF stop THEN "done" ELSE "read"
    /\ UNCHANGED <<bridge, plugged, port, tun, main, stop, tx, cause, faults>>

\* Nothing, a frame the decoder or the envelope refuses, or a packet.
RxRead ==
    /\ rx = "read" /\ port = "open"
    /\ rx' \in {"check", "inject"}
    /\ UNCHANGED <<bridge, plugged, port, tun, main, stop, tx, cause, faults>>

\* A mutant: a packet that the kernel refuses raises, as it once did.
RxInjectRaising ==
    /\ rx = "inject"
    /\ \/ rx' = "check" /\ UNCHANGED stop
       \/ rx' = "done" /\ GiveUp
    /\ UNCHANGED <<bridge, plugged, port, tun, main, tx, cause, faults>>

\* A packet that the kernel refuses (EINVAL) is dropped.
RxInject ==
    /\ rx = "inject"
    /\ rx' = "check"
    /\ UNCHANGED <<bridge, plugged, port, tun, main, stop, tx, cause, faults>>

\* Python takes any other error of the TUN device as the session's end.
RxInjectFails ==
    /\ rx = "inject" /\ bridge = "python" /\ faults < MaxFaults
    /\ GiveUp
    /\ rx' = "done"
    /\ cause' = TRUE /\ faults' = faults + 1
    /\ UNCHANGED <<bridge, plugged, port, tun, main, tx>>

\* A mutant: the reader ends, and tells nobody.
RxReadFailsSilently ==
    /\ rx = "read" /\ port # "open"
    /\ rx' = "done"
    /\ UNCHANGED <<bridge, plugged, port, tun, main, stop, tx, cause, faults>>

RxReadFails ==
    /\ rx = "read" /\ port # "open"
    /\ GiveUp
    /\ rx' = "done"
    /\ UNCHANGED <<bridge, plugged, port, tun, main, tx, cause, faults>>

----------------------------------------------------------------------------

Init ==
    /\ bridge \in Bridges
    /\ plugged \in BOOLEAN /\ port = "closed" /\ tun = 0
    /\ main = "connect" /\ stop = FALSE /\ tx = "done" /\ rx = "done"
    /\ cause = FALSE /\ faults = 0

Main == Connect \/ Join
Tx ==
    \/ TxCheck \/ TxTimeout \/ TxRead \/ TxReadEmpty \/ TunFails
    \/ TxWrite \/ TxStalls \/ TxWriteFails
Rx == RxCheck \/ RxRead \/ RxInject \/ RxInjectFails \/ RxReadFails
Next == Unplug \/ Plug \/ Packet \/ Main \/ Tx \/ Rx

Spec == Init /\ [][Next]_vars

\* The three threads run.
Fairness == WF_vars(Main) /\ WF_vars(Tx) /\ WF_vars(Rx)
LiveSpec == Spec /\ Fairness

----------------------------------------------------------------------------
\* Properties

\* Every variable has its type, and threads run only in a session.
TypeOK ==
    /\ bridge \in Bridges /\ plugged \in BOOLEAN /\ port \in {"closed", "open", "dead"}
    /\ tun \in 0 .. TunQueue /\ main \in {"connect", "join"} /\ stop \in BOOLEAN
    /\ tx \in {"check", "wait", "write", "done"} /\ rx \in {"check", "read", "inject", "done"}
    /\ cause \in BOOLEAN /\ faults \in 0 .. MaxFaults
    /\ main = "connect" => tx = "done" /\ rx = "done"

\* A session is given up only for a fault of its own port or device: neither
\* a damaged frame, nor an oversize packet, nor one the kernel refuses, nor
\* the end of the session before ends one (README.md:43).
SessionsEndForCause == main = "join" /\ stop => cause

Connected == main = "join" /\ port = "open" /\ ~stop
Steady == <>[]plugged

\* After a fault the bridge connects again by itself (walkthrough.md:35,
\* "Includes automatic reconnection loops on serial dropout"), provided, in
\* Rust, that packets for the link keep coming: main joins a thread that
\* waits for one.  Connected does not ask for tx: after an empty read Rust's
\* session only receives, until its port fails.
Reconnects == Steady /\ (bridge = "python" \/ []<>(tun > 0)) => <>[]Connected

=============================================================================
