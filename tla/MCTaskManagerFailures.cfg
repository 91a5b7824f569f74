CONSTANTS
    a = a
    b = b
    c = c
    i = i
    j = j
    NoTask = NoTask
    NoSlot = NoSlot
    Tasks <- Submissions
    SubmitId <- Distinct
    Compiles = {a, b, c}
    Interpreted = {b, c}
    CompilerCount = 1
    Capacity = 2
    EnvFails = TRUE
    MayThrow = TRUE
    Orphans = {a}
    Stubborn = {}
    InFlightTwins = FALSE
    KeepBuildDir = TRUE
    KeepRunDir = TRUE
    Leftovers <- NothingLeft
SPECIFICATION FairSpec
INVARIANTS GuardsBalanced SlotsAccounted AcquireNeverBlocks NoStandstill
PROPERTIES EveryTaskAnswered
