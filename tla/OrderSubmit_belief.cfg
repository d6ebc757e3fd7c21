SPECIFICATION FairSubmitSpec
CONSTANTS
    Calls = {c1}
    Kinds = {"public", "signed", "order"}
    DefaultRetries = 2
    Timeout = 20
    RecvWindow = 10
    OwnerMayClose = TRUE
    GarbledMayExecute = TRUE
    MaxConnects = 4
INVARIANTS
    BeliefMatchesVenue
    UnknownOnlyWhenRaised
    OnePlacementPerCall
    OutcomeTellsOrder
    LeakNeedsOverlap
PROPERTIES
    SubmittedSettles
    CallsEnd
CHECK_DEADLOCK FALSE
