SPECIFICATION LiveSpec
CONSTANTS
    Modes = {"generic", "native"}
    Kinds = {"beat", "beatAck", "oldAck", "pending", "data", "ack"}
    Lockouts = TRUE
    Lbt = TRUE
    LbtTries = 2
    TxQueueDepth = 1
    RxTokens = 16
    MaxAttempts = 1
    Idle = 1
    Intervals = {2}
    ReadyTtl = 1
    ProbeTtl = 2
    RearmIdle = 2
    MaxEvents = 2
    MaxRefusals = 1
CHECK_DEADLOCK FALSE
INVARIANTS
    TypeOK
    NoPacketForgotten
    OwnTransmissionsAreSilent
    LinkFollows
PROPERTIES
    DeafnessEnds
    HeartbeatsContinue
    CommandsComplete
    FramesAreTaken
