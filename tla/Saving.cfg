SPECIFICATION Spec
CONSTANTS
    Db = {"contacts", "notes"}
    Maps = 2
    Configs <- Behaviours
INVARIANTS
    Whole
    FastMeansAgreed
    SavedIfCalm
PROPERTIES
    KeepsLog
CHECK_DEADLOCK FALSE
