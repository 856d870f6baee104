SPECIFICATION Spec
CONSTANTS
    gui = gui
    worker = worker
    bus = bus
    Poller = poller
    None = None
    Callers <- GuiOnly
    Ports <- MCPorts
    Gui = gui
    MaxCommands = 1
    MaxReads = 2
CHECK_DEADLOCK FALSE
INVARIANTS
    PrimaryStableOnTarget
    ShutdownReleasesBoth
PROPERTIES
    EveryReadEnds
