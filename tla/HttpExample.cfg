SPECIFICATION FairSpec
CONSTANTS
    Configs <- Example
INVARIANTS
    RightPasswordOpens
CHECK_DEADLOCK FALSE
