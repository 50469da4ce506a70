\* Three datagrams of two, one and two fragments in one direction, or one of
\* two fragments each way.
SPECIFICATION TrafficSpec
CONSTANTS
    SubmitsA = 3
    SubmitsB = 1
    Submits <- MCSubmits
    Length <- MCLength
    FragmentPayload = 2
    MaxFrags = 2
    TxSlots = 2
    RxSlots = 2
    AckCapacity = 2
    MaxAttempts = 2
    RxQueueDepth = 1
    MaxResets = 0
    IdSpace = 8
    WindowSize = 2
INVARIANTS
    TypeOK
    NoAcknowledgedLoss
    DeliveredWhole
    DeliveredAtMostOnce
    OneVerdict
    AcknowledgedWasReceived
PROPERTY ServiceSpec
