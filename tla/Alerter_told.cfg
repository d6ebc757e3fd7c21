SPECIFICATION FairSpec
CONSTANTS
    None = None
    Threshold = 3
    Prices = {p1, p2}
    SendMayRaise = TRUE
    MaxOutage = 5
INVARIANTS
    OperatorIsTold
PROPERTIES
    SignalEndsRun
CHECK_DEADLOCK FALSE
