SPECIFICATION Spec
CONSTANTS
    Count = 2
    MaxRuns = 3
    MaxStops = 1
INVARIANTS
    ActsReady
    NothingLost
    CleanRelease
CHECK_DEADLOCK FALSE
