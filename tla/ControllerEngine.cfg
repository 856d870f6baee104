SPECIFICATION Spec
CONSTANTS
    gui = gui
    worker = worker
    Poller = poller
    None = None
    Callers <- MCCallers
    Gui = gui
    Disconnecters <- GuiOnly
    MaxCommands = 1
    MaxReads = 1
    MaxDeliveries = 1
CHECK_DEADLOCK FALSE
INVARIANTS
    StableForTarget
    PollingContinues
    ShutdownIsFinal
PROPERTIES
    ImplementsFreshReads
    ShutdownCompletes
