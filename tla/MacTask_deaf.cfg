SPECIFICATION LiveSpec
CONSTANTS
    Modes = {"generic"}
    Kinds = {"part", "rest"}
    Lockouts = TRUE
    Lbt = FALSE
    LbtTries = 1
    TxQueueDepth = 1
    RxTokens = 16
    MaxAttempts = 1
    Idle = 1
    Intervals = {2}
    ReadyTtl = 1
    ProbeTtl = 2
    RearmIdle = 2
    MaxEvents = 2
    MaxRefusals = 0
CHECK_DEADLOCK FALSE
PROPERTY DeafnessEnds
