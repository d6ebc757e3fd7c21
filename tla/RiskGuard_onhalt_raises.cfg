SPECIFICATION Spec
CONSTANTS
    None = None
    HasStore = TRUE
    LossLimit = 2
    DrawdownLimit = 2
    MaxOrderNotional = None
    MinBalance = None
    MaxOrders = None
    WindowSeconds = None
    DayLength = 2
    Pnls <- MCLossOrWin
    Notionals <- MCAbsent
    Balances <- MCAbsent
    Stamped = FALSE
    DailyReset = FALSE
    OnHaltMayRaise = TRUE
    SaveMayFail = FALSE
    CrashMidCall = FALSE
    MaxClock = 3
    PnlBound = 3
INVARIANTS
    HaltPersists
VIEW MCLatchView
CHECK_DEADLOCK FALSE
