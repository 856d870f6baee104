SPECIFICATION Spec
CONSTANTS
    gui = gui
    worker = worker
    Gui = gui
    None = None
    Callers <- MCCallers
    MaxOperations = 2
    Steps = 1
CHECK_DEADLOCK FALSE
PROPERTIES
    CancelHeard
    TicketsResolve
