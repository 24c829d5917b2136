SPECIFICATION FairSpec
CONSTANTS
    Configs <- DevicesConfigs
INVARIANTS
    EachEndsOnce
    InTurn
PROPERTIES
    MessageFetched
    BothEnd
    EndsWell
CHECK_DEADLOCK FALSE
