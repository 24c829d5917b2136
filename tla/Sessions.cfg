SPECIFICATION FairSpec

CONSTANTS
    Db         <- MCDb
    Item       <- MCItem
    Fresh      <- MCFresh
    Whole      <- MCWhole
    Configs    <- Sessions
    FaultKinds = {}
    MaxFaults  = 0

INVARIANTS
    TypeOK
    ModesAgree
    AnchorsExchanged
    AppliedOnce
    MappingsComplete

PROPERTIES
    EventuallySaved
    KeepsPromise

CHECK_DEADLOCK FALSE
