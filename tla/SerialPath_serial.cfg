SPECIFICATION LiveSpec
CONSTANTS
    MaxLen = 3
    Payload <- MCPayload
    Noise <- MCNoise
    Lines = {71, 66, 68, 67, 110}
    BacklogDepth = 1
    TxQueueDepth = 1
    RxQueueDepth = 1
    Parts = 2
    UsbRxSize = 9
    UsbTxSize = 1
    SharedFend = FALSE
    MaxFrames = 3
    MaxCommands = 2
    MaxDisturbed = 1
    MaxArrivals = 1
    MaxReboots = 1
CHECK_DEADLOCK FALSE
INVARIANTS
    TypeOK
    NothingSkipped
    SavedIsKept
    RadioAgrees
    HostKnows
PROPERTIES
    RxTaskReturns
    Settles
    EngineIsServed
    HostIsServed
    CommandsAreAnswered
