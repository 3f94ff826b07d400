SPECIFICATION Spec
CONSTANTS
    Runners = {"serve", "hand"}
    Keep = 1
    NChunks = 2
    MaxBackups = 3
INVARIANTS
    OnlyWholeGoodBackups
    NewestKeepSurvive
    NoTransactionLeftOpen
    MissingOnlyIfOutlived
PROPERTIES
    KeepsItsPromise
CHECK_DEADLOCK FALSE
