CONSTANTS
    TimeLimit = 2
    MaxTime = 4
    CgroupRoot = TRUE
    EnvFails = TRUE
    HostReaps = TRUE
SPECIFICATION FairSpec
INVARIANTS ChildReaped ResultIsHonest AcceptedRanToItsEnd NoSurvivors ObservationsCovered
PROPERTIES CallReturns
