SPECIFICATION Spec

CONSTANTS
    Db         <- MCDb
    Item       <- MCItem
    Fresh      <- MCFresh
    Whole      <- MCWhole
    Configs    <- RevertedWithoutInit
    FaultKinds = {}
    MaxFaults  = 0

INVARIANTS
    SlowSendsAll

CHECK_DEADLOCK FALSE
