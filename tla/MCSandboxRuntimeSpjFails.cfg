CONSTANTS
    Cases = 1
    Runs <- AnyRun
    SpjRuns <- SpjRun
    MayThrow = FALSE
SPECIFICATION Spec
INVARIANTS SpjFailureIsSE
