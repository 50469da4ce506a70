\* Three slots refilled as they empty: the highest one waits while more than
\* WindowSize younger datagrams overtake it.
SPECIFICATION Spec
CONSTANTS
    SubmitsA = 5
    SubmitsB = 0
    Submits <- MCSubmits
    Length <- MCShort
    FragmentPayload = 2
    MaxFrags = 1
    TxSlots = 3
    RxSlots = 1
    AckCapacity = 1
    MaxAttempts = 2
    RxQueueDepth = 1
    MaxResets = 0
    IdSpace = 16
    WindowSize = 2
INVARIANT
    DeliveredAtMostOnce
