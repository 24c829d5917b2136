SPECIFICATION FairSpec
CONSTANTS
    Configs <- OpeningConfigs
INVARIANTS
    NoDowngrade
    AcceptedFirst
    RightPasswordOpens
    InitializedOnce
PROPERTIES
    EveryOpeningEnds
CHECK_DEADLOCK FALSE
