CONSTANTS
    a = a
    b = b
    NoThread = NoThread
    Threads = {a, b}
    MaxTime = 1
    MaxEdits = 2
SPECIFICATION FairSpec
INVARIANTS JudgeRuns JudgeIsCurrent BuiltOnce
PROPERTIES EveryThreadPasses
