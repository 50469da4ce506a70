---------------------------- MODULE MCSerialPath ----------------------------
(***************************************************************************)
(* Small instances of SerialPath for TLC.                                  *)
(***************************************************************************)
EXTENDS SerialPath

\* Three payloads; the second needs escapes.
MCPayload == <<<<1>>, <<FEND, FESC>>, <<2>>>>

\* A byte between frames and a broken escape; an oversize frame.
MCNoise == {<<35, FEND, DATA_FRAME, FESC, FEND>>,
            <<FEND, DATA_FRAME, 1, 1, 1, 1, FEND>>}

=============================================================================
