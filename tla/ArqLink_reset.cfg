\* The sender's modem accepts a new configuration between two datagrams.
SPECIFICATION ResetSpec
CONSTANTS
    SubmitsA = 2
    SubmitsB = 0
    Submits <- MCSubmits
    Length <- MCShort
    FragmentPayload = 2
    MaxFrags = 2
    TxSlots = 1
    RxSlots = 1
    AckCapacity = 1
    MaxAttempts = 2
    RxQueueDepth = 1
    MaxResets = 1
    IdSpace = 8
    WindowSize = 2
INVARIANT
    NoAcknowledgedLoss
