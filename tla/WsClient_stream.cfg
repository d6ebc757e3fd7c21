SPECIFICATION FairSpec
CONSTANTS
    QueueMaxSize = 2
    ConnectMayTimeOut = TRUE
    Frames = {"incomplete", "undecimal"}
    MaxFrames = 4
    MaxFailures = 2
    MaxCancels = 1
INVARIANTS
    TypeOK
    InOrderOnce
    ClockAndCountsAgree
PROPERTIES
    ImplementsMessageStream
    EveryQueuedMessageYielded
    CloseEndsStream
    NeverGivesUp
CHECK_DEADLOCK FALSE
