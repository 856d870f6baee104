SPECIFICATION Spec
CONSTANTS
    Zero = zeroField
    field = field
    Between = between
    Fields <- MCFields
    Scan = scanThread
    Gui = gui
    Poller = poller
    Faults <- MCFaults
    None = none
INVARIANTS
    FlagsCurrent
    ReachedWhereAsked
PROPERTIES
    NoRampInTransition
    HeaterMatched
