SPECIFICATION Spec

CONSTANTS
    Db         <- MCDb
    Item       <- MCItem
    Fresh      <- MCFresh
    Whole      <- MCWhole
    Configs    <- Unlucky
    FaultKinds = {"loss", "garbled", "user", "connection", "invalid", "rejected", "sent", "startup"}
    MaxFaults  = 2

INVARIANTS
    HalfDuplex
    EndsOnce
    ClientSavesLast

PROPERTIES
    ClosedIsSilent

CHECK_DEADLOCK FALSE
