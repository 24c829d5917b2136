SPECIFICATION FairSpec
CONSTANTS
    Configs <- NotificationConfigs
INVARIANTS
    ReadsAsWritten
    BeginsAsAsked
PROPERTIES
    EveryNotificationEnds
CHECK_DEADLOCK FALSE
