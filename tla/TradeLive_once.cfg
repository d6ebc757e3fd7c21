SPECIFICATION FairSpec
CONSTANTS
    None = None
    SafetyMargin = 100
    Requests <- MCRequests
    Instruments <- MCInstruments
    Averages <- MCAverages
INVARIANTS
    BuildsTheBestOrder
    OrderMeetsFilters
    FarOrderInBand
    ExitTells
PROPERTIES
    AnsweredRunEnds
CHECK_DEADLOCK FALSE
