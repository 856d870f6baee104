SPECIFICATION Spec
CONSTANT N = 3
INVARIANTS
    ReleasedAfterBranches
    FailureReported
PROPERTY
    StopEnds
CHECK_DEADLOCK FALSE
