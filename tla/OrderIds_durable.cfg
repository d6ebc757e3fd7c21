SPECIFICATION FairSpec
CONSTANTS
    Procs = {p, q}
    Ids = {a, b}
    None = None
    HaveFlock = TRUE
    NonceCollides = TRUE
    WriteMayFail = TRUE
INVARIANTS
    RecordedIsStored
    RestartRecognisesIds
PROPERTIES
    AddReturns
CHECK_DEADLOCK FALSE
