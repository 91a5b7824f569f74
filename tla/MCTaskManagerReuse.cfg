CONSTANTS
    a = a
    b = b
    c = c
    i = i
    j = j
    NoTask = NoTask
    NoSlot = NoSlot
    Tasks <- Submissions
    SubmitId <- Reused
    Compiles = {a, b}
    Interpreted = {b}
    CompilerCount = 1
    Capacity = 2
    EnvFails = TRUE
    MayThrow = TRUE
    Orphans = {}
    Stubborn = {a, b}
    InFlightTwins = FALSE
    KeepBuildDir = FALSE
    KeepRunDir = FALSE
    Leftovers <- SomethingLeft
SPECIFICATION Spec
INVARIANTS VerdictIsOwn BuildDirReclaimed RunDirReclaimed
PROPERTIES ServiceSpec
