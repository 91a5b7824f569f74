CONSTANTS
    Cases = 3
    Runs <- AnyRun
    SpjRuns <- SpjRun
    MayThrow = TRUE
SPECIFICATION Spec
INVARIANTS FirstFailureDecides MessageOfTheDecidingCase MaximaOfAllCases SpjHasTheLastWord
