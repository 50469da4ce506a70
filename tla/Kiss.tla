-------------------------------- MODULE Kiss --------------------------------
(***************************************************************************)
(* The KISS codec of the USB line (firmware/src/kiss/Kiss.cpp) and the     *)
(* integrity envelope of generic mode (SerialIntegrity.h), as operators.   *)
(*                                                                         *)
(* A symbol is a byte, or the eight bytes of an envelope's header as one   *)
(* symbol above 255.  The header carries the payload's length and CRC-32,  *)
(* which are taken to be perfect: no two payloads have the same.           *)
(***************************************************************************)
EXTENDS Integers, SequencesExt

CONSTANT MaxLen  \* KISS_FRAME_PAYLOAD_MAX_LEN

ASSUME MaxLenAssumption == MaxLen \in Nat \ {0}

FEND == 192
FESC == 219
TFEND == 220
TFESC == 221
DATA_FRAME == 0
CONTROL_FRAME == 15

----------------------------------------------------------------------------
\* encodeFrame

Escape(byte) == CASE byte = FEND -> <<FESC, TFEND>>
                  [] byte = FESC -> <<FESC, TFESC>>
                  [] OTHER       -> <<byte>>

EncodeFrame(command, payload) ==
    <<FEND, command>> \o FlattenSeq([i \in DOMAIN payload |-> Escape(payload[i])]) \o <<FEND>>

----------------------------------------------------------------------------
\* decodeFrameEx.  buf is the first _len bytes of _buf.

Decoder == [state : {"IDLE", "IN_FRAME", "ESCAPE"}, buf : Seq(Nat), overflow : BOOLEAN]
IdleDecoder == [state |-> "IDLE", buf |-> <<>>, overflow |-> FALSE]
InFrame(buf, overflow) == [state |-> "IN_FRAME", buf |-> buf, overflow |-> overflow]
Escaping(d) == [state |-> "ESCAPE", buf |-> d.buf, overflow |-> d.overflow]

Store(d, byte) == IF Len(d.buf) < MaxLen + 1 THEN InFrame(Append(d.buf, byte), d.overflow)
                                             ELSE InFrame(d.buf, TRUE)

\* The decoder after one more byte.  A closing FEND does not open a frame.
Feed(d, byte) ==
    CASE d.state = "IDLE" -> IF byte = FEND THEN InFrame(<<>>, FALSE) ELSE d
      [] d.state = "IN_FRAME" /\ byte = FEND -> IdleDecoder
      [] d.state = "IN_FRAME" /\ byte = FESC -> Escaping(d)
      [] d.state = "IN_FRAME" /\ byte \notin {FEND, FESC} -> Store(d, byte)
      [] d.state = "ESCAPE" /\ byte = TFEND -> Store(d, FEND)
      [] d.state = "ESCAPE" /\ byte = TFESC -> Store(d, FESC)
      [] d.state = "ESCAPE" /\ byte \notin {TFEND, TFESC} -> IdleDecoder

\* The frames this byte completes (none or one); an oversize frame, an empty
\* one and a broken escape complete nothing.
Completed(d, byte) ==
    IF d.state = "IN_FRAME" /\ byte = FEND /\ d.buf # <<>> /\ ~d.overflow
    THEN {[command |-> Head(d.buf), payload |-> Tail(d.buf)]}
    ELSE {}

\* The decoder after a sequence of bytes.
FeedAll(d, bytes) ==
    LET feed(byte) == [e \in Decoder |-> Feed(e, byte)]
        after[i \in 0 .. Len(bytes)] == IF i = 0 THEN d ELSE feed(bytes[i])[after[i - 1]]
    IN  after[Len(bytes)]

----------------------------------------------------------------------------
\* The envelope of generic mode

\* buildSerialIntegrityHeader: payloads' lengths and CRCs, numbered.
Header(payload) ==
    LET sum[i \in 0 .. Len(payload)] == IF i = 0 THEN 0 ELSE 512 * sum[i - 1] + payload[i] + 1
    IN  256 + sum[Len(payload)]
Wrap(payload) == <<Header(payload)>> \o payload

\* parseSerialIntegrityHeader and the three comparisons after it.
Genuine(data) == data # <<>> /\ Head(data) = Header(Tail(data))
Unwrap(data) == Tail(data)

=============================================================================
