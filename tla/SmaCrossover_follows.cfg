SPECIFICATION Spec
CONSTANTS
    FastPeriod = 2
    SlowPeriod = 4
    Prices = {1, 2, 4}
    MayRefuse = TRUE
    MaxPending = 3
INVARIANTS
    FollowsCrossings
CHECK_DEADLOCK FALSE
