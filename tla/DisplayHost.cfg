SPECIFICATION Spec
CONSTANTS
    cartesian = cartesian
    polar = polar
    plain = plain
    trace = trace
    Displays <- MCDisplays
    Styled <- MCStyled
    Series <- MCSeries
    MaxScripts = 2
    None = None
CHECK_DEADLOCK FALSE
INVARIANTS
    PlotsSurvive
    AnsweredHasDisplay
PROPERTY
    SelectionEnds
