CONSTANTS
    a = a
    b = b
    c = c
    i = i
    j = j
    NoTask = NoTask
    NoSlot = NoSlot
    Tasks <- Submissions
    SubmitId <- Reused
    Compiles = {a, b, c}
    Interpreted = {c}
    CompilerCount = 1
    Capacity = 2
    EnvFails = FALSE
    MayThrow = FALSE
    Orphans = {}
    Stubborn = {}
    InFlightTwins = TRUE
    KeepBuildDir = FALSE
    KeepRunDir = FALSE
    Leftovers <- NothingLeft
SPECIFICATION Spec
INVARIANTS ResultsNotCrossed
