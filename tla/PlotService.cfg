SPECIFICATION Spec
CONSTANTS
    r1 = r1
    r2 = r2
    r3 = r3
    r4 = r4
    None = None
    Requests <- MCRequests
    Batches <- MCBatches
    MaxPending = 3
    MaxGeneration = 2
CHECK_DEADLOCK FALSE
INVARIANTS
    ReplacementIsolated
    GroupsStopAtFirstFailure
PROPERTIES
    ImplementsPlotTickets
    EveryTicketFinishes
