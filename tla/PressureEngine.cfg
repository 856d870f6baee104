SPECIFICATION Spec
CONSTANTS
    low = low
    high = high
    Flows <- MCFlows
    Panel = panel
    Worker = worker
    Poller = poller
    Readers <- MCReaders
    MaxDeliveries = 1
    Nothing = Nothing
INVARIANTS
    PolledWhileConnected
    FailureShown
    SetpointKept
    ReachedSinceSet
CHECK_DEADLOCK FALSE
SYMMETRY FlowSymmetry
