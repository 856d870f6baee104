SPECIFICATION Spec
CONSTANTS
    s1 = s1
    s2 = s2
    c1 = c1
    Quit = Quit
    None = None
    Scripts <- MCScripts
    Selections <- MCSelections
    Commands <- MCCommands
INVARIANT
    OnlySuccessfulDiscarded
