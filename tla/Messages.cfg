CONSTANTS
    Scripts <- MCScripts
    Cuts <- MCCuts
    Stains <- MCStains
    Strange <- MCStrange
SPECIFICATION Spec
PROPERTIES
    ReadsAsWritten
    RefusedWithCause
    EveryMessageEnds
CHECK_DEADLOCK FALSE
