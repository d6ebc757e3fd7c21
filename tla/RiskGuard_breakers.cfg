SPECIFICATION Spec
CONSTANTS
    None = None
    HasStore = TRUE
    LossLimit = 3
    DrawdownLimit = 4
    MaxOrderNotional = 1
    MinBalance = 1
    MaxOrders = 2
    WindowSeconds = 2
    DayLength = 2
    Pnls <- MCPnls
    Notionals <- MCNotionals
    Balances <- MCBalances
    Stamped = TRUE
    DailyReset = TRUE
    OnHaltMayRaise = TRUE
    SaveMayFail = TRUE
    CrashMidCall = TRUE
    MaxClock = 3
    PnlBound = 5
INVARIANTS
    TypeOK
    StreakEnforced
    DrawdownEnforced
    HaltSurvivesRestart
    ThrottleBound
PROPERTIES
    ThrottleFair
VIEW MCBreakerView
CHECK_DEADLOCK FALSE
