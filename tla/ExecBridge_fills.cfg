SPECIFICATION BridgeSpec
CONSTANTS
    None = None
    HasStore = TRUE
    LossLimit = 2
    DrawdownLimit = 2
    MaxOrderNotional = None
    MinBalance = None
    MaxOrders = None
    WindowSeconds = None
    DayLength = 2
    Pnls <- MCPnls
    Notionals <- MCNotionals
    Balances <- MCBalances
    Stamped = FALSE
    DailyReset = FALSE
    OnHaltMayRaise = TRUE
    SaveMayFail = TRUE
    CrashMidCall = TRUE
    MaxClock = 0
    PnlBound = 2
    Trades = {1, 2, 3}
    PnlOf <- MCPnlOf
    ForeignFee = {3}
    Extractors = {"pnl", "position"}
    ExtractorMayRaise = TRUE
    PositionMoves <- MCMoves
INVARIANTS
    FedAtMostOnce
    RememberedIsFed
PROPERTIES
    ImplementsKillSwitch
VIEW MCBridgeView
CHECK_DEADLOCK FALSE
