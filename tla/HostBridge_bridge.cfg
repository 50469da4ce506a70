SPECIFICATION LiveSpec
CONSTANTS
    Bridges = {"python", "rust"}
    TunQueue = 1
    MaxFaults = 3
INVARIANTS
    TypeOK
    SessionsEndForCause
PROPERTY Reconnects
