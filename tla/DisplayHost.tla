------------------------------ MODULE DisplayHost ------------------------------
(***************************************************************************)
(* The plot display of the application and its replacement                 *)
(* (ui/plotting/host.py), which the user asks for from the menu, a dialog  *)
(* asks for when another sequence tab is opened, and a script asks for in  *)
(* its first line and waits for (select_display_plugin).                   *)
(*                                                                         *)
(* The GUI thread replaces: it reserves the plot dispatcher, exports the   *)
(* plots, hydrates a hidden candidate, swaps the widgets and commits.      *)
(* Meanwhile the worker goes on: it takes scripts, reads factory_id,       *)
(* submits plots, and leaves its own request behind when it is stopped.    *)
(* A display is what it is of (its factory) and what it shows of each      *)
(* series: the data, and a style that only some displays support.          *)
(***************************************************************************)
EXTENDS DisplayState, Sequences

plots    == <<screen, styled, hidden, canon, asked>>
shown    == <<factory, owner>>
gui_     == <<gui, job, switching>>
requests == <<posted, done, refused, cancelled>>
work     == <<wants, taken, worker, stop>>
vars     == <<plots, shown, pend, gui_, dialog, requests, work>>

Data == {1, 2}
Ops == [op : {"draw"}, series : Series, style : BOOLEAN] \cup [op : {"remove"}, series : Series]

\* A replacement: who asks, the script if one does, the display, and whether the plots
\* are discarded.
Jobs == [by : {"user", "tab", "script"}, script : {0} \cup Scripts, target : Displays,
         reset : BOOLEAN]

\* is_plot_idle: nothing queued and nothing in hand.
Busy == taken < Len(wants) \/ worker # "idle"

\* _running_script.
Running == worker \notin {"idle", "taken"}

Init ==
    /\ factory \in Displays /\ owner = "user"
    /\ screen = [s \in Series |-> None] /\ canon = screen
    /\ styled = {} /\ hidden = {} /\ asked = {}
    /\ pend = None
    /\ gui = "idle" /\ job = None /\ switching = FALSE /\ dialog = None
    /\ posted = <<>> /\ done = {} /\ refused = {} /\ cancelled = {}
    /\ wants = <<>> /\ taken = 0 /\ worker = "idle" /\ stop = FALSE

-----------------------------------------------------------------------------
(***************************************************************************)
(* The worker.                                                             *)
(***************************************************************************)
\* The script in hand is over, with an error or without.
Over == worker' = "idle"

Take ==
    /\ worker = "idle" /\ taken < Len(wants)
    /\ taken' = taken + 1 /\ worker' = "taken"
    /\ UNCHANGED <<plots, shown, pend, gui_, dialog, requests, wants, stop>>

\* _exec_script: the flags of a script that starts.
Begin ==
    /\ worker = "taken"
    /\ worker' = "selecting" /\ stop' = FALSE
    /\ UNCHANGED <<plots, shown, pend, gui_, dialog, requests, wants, taken>>

\* select_display_plugin: nothing to do if the display is the one it wants.
Compare ==
    /\ worker = "selecting"
    /\ worker' = IF factory = wants[taken] THEN "running" ELSE "draining"
    /\ UNCHANGED <<plots, shown, pend, gui_, dialog, requests, wants, taken, stop>>

\* wait_for_plot_ready, and the request posted to the GUI thread.
Post ==
    /\ worker = "draining" /\ pend = None
    /\ posted' = Append(posted, taken)
    /\ worker' = "waiting"
    /\ UNCHANGED <<plots, shown, pend, gui_, dialog, done, refused, cancelled, wants, taken, stop>>

\* Stop raises at the next line of the selection, wherever it is: the tracer is looked at
\* before the line that would give a request up, so a request on its way stays there and
\* is carried out for a script that is over.
Interrupt ==
    /\ worker \in {"selecting", "draining", "waiting"} /\ stop
    /\ Over
    /\ UNCHANGED <<plots, shown, pend, gui_, dialog, requests, wants, taken, stop>>

Answered ==
    /\ worker = "waiting" /\ taken \in done
    /\ IF taken \in refused THEN Over ELSE worker' = "running"
    /\ UNCHANGED <<plots, shown, pend, gui_, dialog, requests, wants, taken, stop>>

\* Without the tracer, which the interpreter drops once it has raised, the wait itself
\* gives the request up.  It looks at the stop event after it has looked at the answer,
\* which may come in between.
GiveUp ==
    /\ worker = "waiting" /\ stop
    /\ cancelled' = cancelled \cup {taken}
    /\ Over
    /\ UNCHANGED <<plots, shown, pend, gui_, dialog, posted, done, refused, wants, taken, stop>>

\* A plot of the script, which does not wait for it.  submit refuses it, and ends the
\* script, while a replacement has reserved the dispatcher.
Plot ==
    /\ worker = "running" /\ pend = None
    /\ IF switching THEN Over /\ UNCHANGED pend ELSE pend' \in Ops /\ UNCHANGED worker
    /\ UNCHANGED <<plots, shown, gui_, dialog, requests, wants, taken, stop>>

\* The script ends; the tracer ends it when it is stopped.
Finish ==
    /\ worker = "running"
    /\ Over
    /\ UNCHANGED <<plots, shown, pend, gui_, dialog, requests, wants, taken, stop>>

-----------------------------------------------------------------------------
(***************************************************************************)
(* The GUI thread outside a replacement.  A dialog runs its own event      *)
(* loop: plots and requests of the worker are served under it.             *)
(***************************************************************************)
Submit(f) ==
    /\ gui = "idle" /\ dialog = None /\ Len(wants) < MaxScripts
    /\ wants' = Append(wants, f)
    /\ UNCHANGED <<plots, shown, pend, gui_, dialog, requests, taken, worker, stop>>

Stop ==
    /\ gui = "idle" /\ dialog = None /\ Running /\ ~stop
    /\ stop' = TRUE
    /\ UNCHANGED <<plots, shown, pend, gui_, dialog, requests, wants, taken, worker>>

\* Whether the display takes the request: a style it does not support is refused.
Supported == pend.op = "draw" /\ pend.style => factory \in Styled

DrawSeries(s) ==
    \E d \in Data \ {canon[s]} :
        /\ screen' = [screen EXCEPT ![s] = d] /\ canon' = [canon EXCEPT ![s] = d]
        /\ IF pend.style
           THEN styled' = styled \cup {s} /\ asked' = asked \cup {s}
           ELSE UNCHANGED <<styled, asked>>

RemoveSeries(s) ==
    /\ screen' = [screen EXCEPT ![s] = None] /\ canon' = [canon EXCEPT ![s] = None]
    /\ styled' = styled \ {s} /\ asked' = asked \ {s}

\* _apply of a request, which may be refused.  Without a style a series keeps the one it
\* has, and what the host retains for a series outlives it.
Draw ==
    /\ gui = "idle" /\ pend # None
    /\ pend' = None
    /\ \/ UNCHANGED <<screen, canon, styled, asked>>
       \/ Supported /\ pend.op = "draw" /\ DrawSeries(pend.series)
       \/ pend.op = "remove" /\ RemoveSeries(pend.series)
    /\ UNCHANGED <<hidden, shown, gui_, dialog, requests, work>>

\* Mutant: an exception is answered, a replacement that reports FALSE is not.
ConcludeSilently(j, ok) ==
    /\ gui' = "idle" /\ job' = None
    /\ IF j.by = "script" /\ ok THEN done' = done \cup {j.script} ELSE UNCHANGED done
    /\ UNCHANGED refused

\* The outcome of a replacement for who asked: the answer to a script.
Conclude(j, ok) ==
    /\ gui' = "idle" /\ job' = None
    /\ IF j.by = "script"
       THEN /\ done' = done \cup {j.script}
            /\ refused' = IF ok THEN refused ELSE refused \cup {j.script}
       ELSE UNCHANGED <<done, refused>>

\* _switch_display up to the replacement_guard, which wants an idle dispatcher.
Start(j) ==
    IF j.target = factory THEN Conclude(j, TRUE) /\ UNCHANGED switching
    ELSE IF pend # None THEN Conclude(j, FALSE) /\ UNCHANGED switching
    ELSE /\ gui' = "reserved" /\ job' = j /\ switching' = TRUE
         /\ UNCHANGED <<done, refused>>

\* The menu of displays; with fresh plots after the user agreed to lose them.
UserSwitch(f) ==
    /\ gui = "idle" /\ dialog = None
    /\ \E reset \in BOOLEAN : Start([by |-> "user", script |-> 0, target |-> f, reset |-> reset])
    /\ UNCHANGED <<plots, shown, pend, dialog, posted, cancelled, work>>

\* Another sequence tab is opened, which is refused while a script runs: a dialog asks
\* what to do about the display of the sequence.
OpenTab(f) ==
    /\ gui = "idle" /\ dialog = None /\ ~Running /\ f # factory
    /\ dialog' = f
    /\ UNCHANGED <<plots, shown, pend, gui_, requests, work>>

KeepDisplay ==
    /\ gui = "idle" /\ dialog # None
    /\ dialog' = None
    /\ UNCHANGED <<plots, shown, pend, gui_, requests, work>>

\* select_display_plugin in the GUI thread: it does not ask for an idle engine.
SwitchToTab ==
    /\ gui = "idle" /\ dialog # None
    /\ dialog' = None
    /\ Start([by |-> "tab", script |-> 0, target |-> dialog, reset |-> TRUE])
    /\ UNCHANGED <<plots, shown, pend, posted, cancelled, work>>

\* _complete_selection of the request of a script.
HandleRequest ==
    /\ gui = "idle" /\ posted # <<>>
    /\ LET k == Head(posted)
           j == [by |-> "script", script |-> k, target |-> wants[k], reset |-> TRUE]
       IN IF k \in cancelled THEN Conclude(j, TRUE) /\ UNCHANGED switching ELSE Start(j)
    /\ posted' = Tail(posted)
    /\ UNCHANGED <<plots, shown, pend, dialog, cancelled, work>>

-----------------------------------------------------------------------------
(***************************************************************************)
(* A replacement.                                                          *)
(***************************************************************************)
Step(here, next) ==
    /\ gui = here /\ gui' = next
    /\ UNCHANGED <<plots, shown, pend, job, switching, dialog, requests, work>>

\* Mutant: nobody needs an idle engine.
Always == TRUE

\* The engine must be idle, unless the sequence asks.
Ready == job.by = "user" => ~Busy

\* idle_check, then the export of the plots.
Export == Step("reserved", IF Ready THEN "hydrating" ELSE "failed")

\* The candidate is created and imports the plots, or cannot.
Hydrate == Step("hydrating", "hydrated") \/ Step("hydrating", "failed")

CheckAgain == Step("hydrated", IF Ready THEN "checked" ELSE "failed")

\* Mutant: the styles retained from the display before are left out.
ExportShown == styled

\* export_state: the styles shown and those retained.
Exported == styled \cup hidden

\* The widgets are swapped: the candidate shows the exported plots, without the styles
\* it does not support, which the host keeps.
Swap ==
    /\ gui = "checked" /\ gui' = "swapped"
    /\ factory' = job.target /\ owner' = job.by
    /\ IF job.reset
       THEN screen' = [s \in Series |-> None] /\ styled' = {} /\ hidden' = {} /\ asked' = {}
       ELSE /\ styled' = IF job.target \in Styled THEN Exported ELSE {}
            /\ hidden' = IF job.target \in Styled THEN {} ELSE Exported
            /\ UNCHANGED <<screen, asked>>
    /\ UNCHANGED <<canon, pend, job, switching, dialog, requests, work>>

\* commit_replacement: the service takes what the candidate shows.
Commit ==
    /\ gui = "swapped" /\ gui' = "committed"
    /\ canon' = screen
    /\ UNCHANGED <<screen, styled, hidden, asked, shown, pend, job, switching, dialog, requests,
                   work>>

\* The guard is released; a failed candidate is disposed of.
Release ==
    /\ gui \in {"committed", "failed"}
    /\ switching' = FALSE
    /\ Conclude(job, gui = "committed")
    /\ UNCHANGED <<plots, shown, pend, dialog, posted, cancelled, work>>

-----------------------------------------------------------------------------
Select == Compare \/ Post \/ Answered \/ Interrupt \/ GiveUp

Replace == Export \/ Hydrate \/ CheckAgain \/ Swap \/ Commit \/ Release

User ==
    \/ Stop \/ KeepDisplay \/ SwitchToTab
    \/ \E f \in Displays : Submit(f) \/ UserSwitch(f) \/ OpenTab(f)

Next == Take \/ Begin \/ Select \/ Plot \/ Finish \/ Draw \/ HandleRequest \/ Replace \/ User

\* The worker and a replacement go on; the events of the Qt queue come to their turn,
\* whatever the user does in between.
Spec ==
    /\ Init /\ [][Next]_vars
    /\ WF_vars(Select) /\ WF_vars(Replace) /\ SF_vars(Draw) /\ SF_vars(HandleRequest)

-----------------------------------------------------------------------------
(***************************************************************************)
(* Properties.                                                             *)
(***************************************************************************)
PlotTypes ==
    /\ factory \in Displays /\ owner \in {"user", "tab", "script"}
    /\ screen \in [Series -> Data \cup {None}] /\ canon \in [Series -> Data \cup {None}]
    /\ styled \subseteq Series /\ hidden \subseteq Series /\ asked \subseteq Series
    /\ pend \in Ops \cup {None}

ReplacementTypes ==
    /\ gui \in {"idle", "reserved", "hydrating", "hydrated", "checked", "swapped", "committed",
                "failed"}
    /\ switching \in BOOLEAN
    /\ job \in Jobs \cup {None} /\ dialog \in Displays \cup {None}

ScriptTypes ==
    /\ wants \in Seq(Displays) /\ taken \in 0 .. Len(wants)
    /\ worker \in {"idle", "taken", "selecting", "draining", "waiting", "running"}
    /\ stop \in BOOLEAN /\ posted \in Seq(Scripts)
    /\ done \subseteq Scripts /\ refused \subseteq done /\ cancelled \subseteq Scripts

\* The variables keep their types.
TypeOK == PlotTypes /\ ReplacementTypes /\ ScriptTypes

\* The selection of a display ends: the script is not left waiting for the GUI thread,
\* whether the candidate fails, the request is refused or the user plays with the menu.
SelectionEnds ==
    worker \in {"draining", "waiting"} ~> worker \notin {"draining", "waiting"}

\* Claim (docs/plot_displays.rst): "the generated script still selects the sequence's
\* preferred display".  A script runs on the display it selected.
RunsOnItsDisplay == worker = "running" => factory = wants[taken]

\* Claim (docs/plot_displays.rst): "Busy measurements still prevent switching."  The display
\* under a script is replaced only for that script.
BusyKeepsDisplay == [][worker = "running" => factory' = factory]_vars

-----------------------------------------------------------------------------
(***************************************************************************)
(* What the proofs need beside these.                                      *)
(***************************************************************************)
\* The plots at every place of a replacement: between the swap and the commit the service
\* still has those of the display before.
PlotsKept ==
    /\ gui # "swapped" => screen = canon
    /\ asked \subseteq styled \cup hidden
    /\ factory \in Styled => hidden = {}

\* A replacement for a script, which waits for it or has given it up.
ForScript(k) == gui # "idle" /\ job.by = "script" /\ job.script = k

\* Requests are answered in the order of the scripts: those done are before the one in
\* progress, and that is before those on their way.
RequestsInOrder ==
    /\ \A i \in 1 .. Len(posted) :
           /\ posted[i] <= taken
           /\ \A k \in done : k < posted[i]
           /\ \A j \in 1 .. Len(posted) : i < j => posted[i] < posted[j]
    /\ \A k \in Scripts : ForScript(k) =>
           /\ k <= taken /\ k \notin done /\ \A q \in done : q < k
           /\ \A i \in 1 .. Len(posted) : k < posted[i]
    /\ \A k \in done \cup cancelled : k <= taken

\* A script that has not asked has no request anywhere, and one that has given up is over.
RequestsOfTaken ==
    /\ worker \in {"taken", "selecting", "draining"} =>
           /\ taken \notin done /\ ~ForScript(taken)
           /\ \A i \in 1 .. Len(posted) : posted[i] # taken
    /\ taken \in cancelled => worker = "idle"

\* What the worker and a replacement in progress are for, and that one of the user has found the engine idle.
JobInv ==
    /\ Len(wants) <= MaxScripts
    /\ worker # "idle" => taken \in Scripts
    /\ gui # "idle" => job \in Jobs
    /\ \A k \in Scripts : ForScript(k) => job.target = wants[k]
    /\ gui # "idle" /\ job.by = "script" => job.script \in Scripts
    /\ gui \in {"swapped", "committed"} => factory = job.target
    /\ gui \in {"checked", "swapped", "committed"} /\ job.by = "user" => ~Busy

\* From its answer on the script has its display.
AnswerKept ==
    worker \in {"waiting", "running"} /\ taken \in done \ refused
    => factory = wants[taken] \/ owner = "tab"

\* The inductive invariant.
IInv ==
    TypeOK /\ PlotsKept /\ RequestsInOrder /\ RequestsOfTaken /\ JobInv /\ AnswerKept
=============================================================================
