\* A datagram of three fragments that meets a full egress queue, fair MAC
\* tasks and a host that reads: credits, withdrawal and liveness.
SPECIFICATION LiveSpec
CONSTANTS
    SubmitsA = 2
    SubmitsB = 0
    Submits <- MCSubmits
    Length <- MCHoled
    FragmentPayload = 2
    MaxFrags = 3
    TxSlots = 1
    RxSlots = 1
    AckCapacity = 2
    MaxAttempts = 2
    RxQueueDepth = 1
    MaxResets = 0
    IdSpace = 8
    WindowSize = 2
INVARIANTS
    NeverStuck
    AcknowledgedWasReceived
PROPERTIES
    VerdictReached
    HeldBackIsDelivered
