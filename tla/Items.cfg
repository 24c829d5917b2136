SPECIFICATION Spec
CONSTANTS
    Configs <- ItemConfigs
    MaxWrites = 3
    MaxSessions = 2
INVARIANTS
    NothingForgotten
    StatusTruthful
    StoredWhole
PROPERTIES
    PolicyRespected
CHECK_DEADLOCK FALSE
