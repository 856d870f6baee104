SPECIFICATION FairSpec
CONSTANTS
    near = near
    far = far
    Values <- MCValues
    Between = between
    Limited <- MCLimited
    Sweeps = {sweepOne}
    Rates <- MCRates
    Worker = worker
    Poller = poller
    None = none
INVARIANTS
    NewsHeeded
    ReachedSinceAsked
    RateKept
PROPERTY
    EveryWaitEnds
CHECK_DEADLOCK FALSE
