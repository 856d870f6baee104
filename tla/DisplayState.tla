----------------------------- MODULE DisplayState -----------------------------
(***************************************************************************)
(* What the display host keeps, with the plots, the worker and its         *)
(* requests, and what must hold of it.  DisplayHost is how the code        *)
(* changes it.                                                             *)
(***************************************************************************)
EXTENDS Naturals

CONSTANTS
    Displays,      \* factory identifiers
    Styled,        \* those that support the style
    Series,        \* the series the scripts plot
    MaxScripts,    \* bound on the scripts submitted
    None

ASSUME HostAssumption ==
    /\ Styled \subseteq Displays
    /\ MaxScripts \in Nat
    /\ None \notin Displays \cup Series

Scripts == 1 .. MaxScripts

VARIABLES
    factory,     \* factory_id, with the display that is shown
    screen,      \* the data of each series on it, None without the series
    styled,      \* the series it shows with the style
    hidden,      \* _hidden_styles
    canon,       \* _series of the plot service
    asked,       \* history: the series whose last style includes the style
    pend,        \* the outstanding plot request, None without one
    switching,   \* _switching of the plot service
    gui,         \* where the GUI thread is in a replacement
    job,         \* the replacement in progress: who asked, for what, with fresh plots
    dialog,      \* the display the tab dialog offers, None when it is closed
    owner,       \* history: who asked for the display that is shown
    wants,       \* the display each script submitted selects
    taken,       \* the script in hand, or the last one
    worker,      \* where the worker is
    stop,        \* the stop event
    posted,      \* _selection_requested: the requests on their way to the GUI thread
    done,        \* the requests that are done,
    refused,     \* of these, those with an error,
    cancelled    \* and the requests the worker gave up

-----------------------------------------------------------------------------
\* Replacement loses nothing of what is plotted: through any sequence of displays, what
\* is shown is what the service holds, and a style a series was given is on the screen
\* or retained for the display that supports it (docs/plot_display_plugins.rst, "the host
\* retains unsupported style keys for switching back").
PlotsSurvive ==
    gui # "swapped" =>
        /\ screen = canon
        /\ asked \subseteq styled \cup hidden
        /\ factory \in Styled => hidden = {}

\* A script that asked for its display and was answered has it for as long as it runs:
\* neither the menu, whose switch may have begun before the script, nor the request of an
\* earlier script that was stopped and left it to the GUI thread replaces it.  Only the dialog of a tab does, which
\* does not look whether the engine is idle.
AnsweredHasDisplay ==
    worker = "running" /\ taken \in done \ refused => factory = wants[taken] \/ owner = "tab"
=============================================================================
