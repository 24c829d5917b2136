SPECIFICATION FairSpec
CONSTANTS
    Configs <- Behaviours
INVARIANTS
    SentOnce
    SentWhole
PROPERTIES
    EverythingSent
CHECK_DEADLOCK FALSE
