------------------------- MODULE ReticulumInterface -------------------------
(***************************************************************************)
(* pi-daemon/ReticulumFLRCInterface.py: a reader thread that owns the      *)
(* serial port, threads of Reticulum that write frames in chunks under     *)
(* tx_lock, and a detach that ends it all.  online, running and the port   *)
(* are shared without a lock.                                              *)
(*                                                                         *)
(* Abstractions: a frame is Chunks pieces; what is read is left out (Kiss  *)
(* has the decoder; the RNS stack's errors are caught); pauses are delay.  *)
(***************************************************************************)
EXTENDS Naturals, FiniteSets

CONSTANTS
    Writers,   \* threads that call process_outgoing
    Chunks,    \* writes of SERIAL_WRITE_CHUNK a frame takes
    MaxFaults  \* bound: what goes wrong with the port in all

ASSUME InterfaceAssumption ==
    /\ IsFiniteSet(Writers) /\ "reader" \notin Writers /\ "none" \notin Writers
    /\ Chunks \in Nat \ {0} /\ MaxFaults \in Nat

VARIABLES
    plugged,   \* the modem is there
    port,      \* self.serial: "none", "open", "closed", or "dead": open, and
               \* its modem gone
    online,    \* self.online
    running,   \* self.running
    lock,      \* tx_lock: "none", "reader", or a writer
    reader,    \* read_loop: "loop", "check", "open", "opening", "opened",
               \* "read", "failed", "done"
    pc,        \* a writer: "idle", "wait", "write", "timedOut", "closing",
               \* "offline"
    part,      \* chunks of its frame it has written
    grip,      \* the port it took up is still self.serial
    detaching, \* detach(): statements done
    line,      \* history: the last chunk on the line
    opens,     \* history: times the port was opened
    faults     \* bound

shared == <<plugged, port, online, running>>
writer == <<pc, part, grip>>
history == <<line, opens, faults>>
vars == <<shared, lock, reader, writer, detaching, history>>

IsOpen == port \in {"open", "dead"}
Nothing == [by |-> "none", part |-> 0]

----------------------------------------------------------------------------
\* The modem

Unplug ==
    /\ plugged /\ faults < MaxFaults
    /\ plugged' = FALSE
    /\ port' = IF port = "open" THEN "dead" ELSE port
    /\ faults' = faults + 1
    /\ UNCHANGED <<online, running, lock, reader, writer, detaching, line, opens>>

Plug ==
    /\ ~plugged
    /\ plugged' = TRUE
    /\ UNCHANGED <<port, online, running, lock, reader, writer, detaching, history>>

----------------------------------------------------------------------------
\* read_loop and open_serial

\* A mutant: the thread does not look whether it is to end.
LoopForever ==
    /\ reader = "loop"
    /\ reader' = "check"
    /\ UNCHANGED <<shared, lock, writer, detaching, history>>

Loop ==
    /\ reader = "loop"
    /\ reader' = IF running THEN "check" ELSE "done"
    /\ UNCHANGED <<shared, lock, writer, detaching, history>>

Check ==
    /\ reader = "check"
    /\ reader' = IF online /\ IsOpen THEN "read" ELSE "open"
    /\ UNCHANGED <<shared, lock, writer, detaching, history>>

\* A mutant: the port is replaced under the writers.
CloseOldUnlocked ==
    /\ reader = "open"
    /\ lock' = "reader"
    /\ port' = "none"
    /\ grip' = [w \in Writers |-> FALSE]
    /\ reader' = "opening"
    /\ UNCHANGED <<plugged, online, running, pc, part, detaching, history>>

\* The old port is closed; nobody's port is self.serial any more.
CloseOld ==
    /\ reader = "open" /\ lock = "none"
    /\ lock' = "reader"
    /\ port' = "none"
    /\ grip' = [w \in Writers |-> FALSE]
    /\ reader' = "opening"
    /\ UNCHANGED <<plugged, online, running, pc, part, detaching, history>>

Opened ==
    /\ reader = "opening" /\ plugged
    /\ port' = "open"
    /\ opens' = opens + 1
    /\ reader' = "opened"
    /\ UNCHANGED <<plugged, online, running, lock, writer, detaching, line, faults>>

\* A mutant: an open port is not noticed.
SetOnlineForgotten ==
    /\ reader = "opened"
    /\ lock' = "none"
    /\ reader' = "loop"
    /\ UNCHANGED <<shared, writer, detaching, history>>

SetOnline ==
    /\ reader = "opened"
    /\ online' = TRUE
    /\ lock' = "none"
    /\ reader' = "loop"
    /\ UNCHANGED <<plugged, port, running, writer, detaching, history>>

\* A mutant: a port that cannot be opened ends the thread.
OpenFailsFatally ==
    /\ reader = "opening" /\ ~plugged
    /\ online' = FALSE
    /\ lock' = "none"
    /\ reader' = "done"
    /\ UNCHANGED <<plugged, port, running, writer, detaching, history>>

OpenFails ==
    /\ reader = "opening" /\ ~plugged
    /\ online' = FALSE
    /\ lock' = "none"
    /\ reader' = "loop"
    /\ UNCHANGED <<plugged, port, running, writer, detaching, history>>

Read ==
    /\ reader = "read"
    /\ reader' = IF port = "open" THEN "loop" ELSE "failed"
    /\ UNCHANGED <<shared, lock, writer, detaching, history>>

ReadFailed ==
    /\ reader = "failed"
    /\ online' = (online /\ ~running)
    /\ reader' = "loop"
    /\ UNCHANGED <<plugged, port, running, lock, writer, detaching, history>>

----------------------------------------------------------------------------
\* process_outgoing

Call(w) ==
    /\ pc[w] = "idle" /\ online
    /\ pc' = [pc EXCEPT ![w] = "wait"]
    /\ UNCHANGED <<shared, lock, reader, part, grip, detaching, history>>

\* A mutant: a frame goes on where the last one broke off.
LockResuming(w) ==
    /\ pc[w] = "wait" /\ lock = "none"
    /\ IF IsOpen
       THEN /\ lock' = w
            /\ pc' = [pc EXCEPT ![w] = "write"] /\ grip' = [grip EXCEPT ![w] = TRUE]
       ELSE pc' = [pc EXCEPT ![w] = "idle"] /\ UNCHANGED <<lock, grip>>
    /\ UNCHANGED <<shared, reader, part, detaching, history>>

\* A port that is not open is left at once.
Lock(w) ==
    /\ pc[w] = "wait" /\ lock = "none"
    /\ IF IsOpen
       THEN /\ lock' = w
            /\ pc' = [pc EXCEPT ![w] = "write"] /\ grip' = [grip EXCEPT ![w] = TRUE]
       ELSE pc' = [pc EXCEPT ![w] = "idle"] /\ UNCHANGED <<lock, grip>>
    /\ part' = [part EXCEPT ![w] = 0]
    /\ UNCHANGED <<shared, reader, detaching, history>>

Leave(w, next) == lock' = "none" /\ pc' = [pc EXCEPT ![w] = next]

WriteChunk(w) ==
    /\ pc[w] = "write" /\ port = "open"
    /\ part' = [part EXCEPT ![w] = @ + 1]
    /\ line' = [by |-> w, part |-> part'[w]]
    /\ IF part'[w] = Chunks THEN Leave(w, "idle") ELSE UNCHANGED <<lock, pc>>
    /\ UNCHANGED <<shared, reader, grip, detaching, opens, faults>>

\* The exceptions are handled after the lock is given back.
WriteFails(w) ==
    /\ pc[w] = "write" /\ port # "open"
    /\ Leave(w, "offline")
    /\ UNCHANGED <<shared, reader, part, grip, detaching, history>>

WriteTimesOut(w) ==
    /\ pc[w] = "write" /\ port = "open" /\ faults < MaxFaults
    /\ faults' = faults + 1
    /\ Leave(w, "timedOut")
    /\ UNCHANGED <<shared, reader, part, grip, detaching, line, opens>>

\* self.serial is looked up again here, and may be another port by now.
TakePort(w) ==
    /\ pc[w] = "timedOut"
    /\ grip' = [grip EXCEPT ![w] = (port # "none")]
    /\ pc' = [pc EXCEPT ![w] = "closing"]
    /\ UNCHANGED <<shared, lock, reader, part, detaching, history>>

CloseStalled(w) ==
    /\ pc[w] = "closing"
    /\ port' = IF grip[w] THEN "closed" ELSE port
    /\ pc' = [pc EXCEPT ![w] = "offline"]
    /\ UNCHANGED <<plugged, online, running, lock, reader, part, grip, detaching, history>>

GoOffline(w) ==
    /\ pc[w] = "offline"
    /\ online' = FALSE
    /\ pc' = [pc EXCEPT ![w] = "idle"]
    /\ UNCHANGED <<plugged, port, running, lock, reader, part, grip, detaching, history>>

----------------------------------------------------------------------------
\* detach, a statement at a time

Detach ==
    /\ detaching < 3
    /\ detaching' = detaching + 1
    /\ running' = FALSE
    /\ online' = IF detaching' = 2 THEN FALSE ELSE online
    /\ port' = IF detaching' = 3 /\ IsOpen THEN "closed" ELSE port
    /\ UNCHANGED <<plugged, lock, reader, writer, history>>

----------------------------------------------------------------------------

Init ==
    /\ plugged \in BOOLEAN /\ port = "none" /\ online = FALSE /\ running = TRUE
    /\ lock = "none" /\ reader = "loop"
    /\ pc = [w \in Writers |-> "idle"] /\ part = [w \in Writers |-> 0]
    /\ grip = [w \in Writers |-> FALSE]
    /\ detaching = 0
    /\ line = Nothing /\ opens = 0 /\ faults = 0

ReadLoop ==
    Loop \/ Check \/ CloseOld \/ Opened \/ SetOnline \/ OpenFails \/ Read \/ ReadFailed
Finish(w) == WriteChunk(w) \/ WriteFails(w) \/ WriteTimesOut(w) \/ TakePort(w)
             \/ CloseStalled(w) \/ GoOffline(w)
ProcessOutgoing(w) == Call(w) \/ Lock(w) \/ Finish(w)
Next == Unplug \/ Plug \/ ReadLoop \/ Detach \/ \E w \in Writers : ProcessOutgoing(w)

Spec == Init /\ [][Next]_vars

\* The reader runs, and a writer that has begun goes on.  Reticulum need not
\* write, and the lock need not be fair to writers.
Fairness == WF_vars(ReadLoop) /\ \A w \in Writers : WF_vars(Finish(w))
LiveSpec == Spec /\ Fairness

----------------------------------------------------------------------------
\* Properties

PortTyped ==
    /\ plugged \in BOOLEAN /\ port \in {"none", "open", "dead", "closed"}
    /\ online \in BOOLEAN /\ running \in BOOLEAN

LockTyped ==
    /\ detaching \in 0 .. 3
    /\ lock \in Writers \cup {"none", "reader"}
    /\ reader \in {"loop", "check", "open", "opening", "opened", "read", "failed", "done"}

WritersTyped ==
    /\ pc \in [Writers -> {"idle", "wait", "write", "timedOut", "closing", "offline"}]
    /\ part \in [Writers -> 0 .. Chunks]
    /\ grip \in [Writers -> BOOLEAN]

HistoryTyped ==
    /\ line \in [by : Writers \cup {"none"}, part : 0 .. Chunks]
    /\ opens \in Nat /\ faults \in 0 .. MaxFaults

\* Every variable has its type.
TypeOK == PortTyped /\ LockTyped /\ WritersTyped /\ HistoryTyped

\* "A chunk-paced write must not interleave with another frame"
\* (ReticulumFLRCInterface.py:114): between two chunks of a frame nobody else
\* writes and the port is not replaced, whatever stalls, closes or detaches.
FramesWhole ==
    \A w \in Writers : pc[w] = "write" =>
        /\ grip[w]
        /\ part[w] > 0 => line = [by |-> w, part |-> part[w]]

\* Faults do not set off a storm of reopenings, although a writer that comes
\* late closes and condemns a port opened since: each fault costs at most one
\* reopening for every writer and one more, and detach one.
ReopensAreBounded ==
    opens <= 1 + faults * (Cardinality(Writers) + 1) + (IF running THEN 0 ELSE 1)

\* The reader connects, and reconnects after faults, until detached
\* (ReticulumFLRCInterface.py:124, "it retries until the port opens").
Steady == <>[]plugged /\ []running
Reconnects == Steady => <>[](online /\ port = "open")

\* detach ends the reader, also out of its retries.
ReaderEnds == detaching > 0 ~> reader = "done"

=============================================================================
