SPECIFICATION Spec
CONSTANTS
    None = None
    Prices = {80, 92, 100, 132}
    Atr = 3
    Capital = 1000000
    Lot = 2
    Fee = 100
    Tiers = {40}
    EntryPause = 1
    LossLimit = 2
    LossPause = 2
    MaxBars = 5
INVARIANTS
    TypeOK
    AccountFollows
    EquityIsCash
    PauseEnforced
CHECK_DEADLOCK FALSE
