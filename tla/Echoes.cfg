SPECIFICATION Spec
CONSTANTS
    Configs <- EchoConfigs
    MaxWrites = 3
    MaxSessions = 2
INVARIANT
    EchoFree
CHECK_DEADLOCK FALSE
