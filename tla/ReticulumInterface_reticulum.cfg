\* Three threads, frames of two chunks, and two faults.
SPECIFICATION LiveSpec
CONSTANTS
    Writers = {w1, w2}
    Chunks = 2
    MaxFaults = 2
CHECK_DEADLOCK FALSE
INVARIANTS
    TypeOK
    FramesWhole
    ReopensAreBounded
PROPERTIES
    Reconnects
    ReaderEnds
