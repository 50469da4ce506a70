\* The fifth datagram has the id of the first, and is shorter.
SPECIFICATION Spec
CONSTANTS
    SubmitsA = 5
    SubmitsB = 0
    Submits <- MCSubmits
    Length <- MCShrunk
    FragmentPayload = 2
    MaxFrags = 2
    TxSlots = 1
    RxSlots = 2
    AckCapacity = 1
    MaxAttempts = 1
    RxQueueDepth = 1
    MaxResets = 0
    IdSpace = 4
    WindowSize = 2
INVARIANT
    NeverStuck
