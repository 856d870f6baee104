--------------------------- MODULE SequenceEngine ---------------------------
(***************************************************************************)
(* The sequence engine of src/stoner_measurement/core/sequence_engine.py:  *)
(* the GUI thread that submits work and presses Pause, Stop and Close, the *)
(* persistent worker thread that takes items off one FIFO queue, and the   *)
(* Qt events that carry the worker's signals back to the GUI.              *)
(*                                                                         *)
(* Every shared flag the two threads race on is a variable, and each read  *)
(* or write of one is a step of its own.  Source lines, plugin code and    *)
(* text are abstracted: a script is an identity that may loop for ever,    *)
(* and the body of a line is one step that continues, ends or raises.      *)
(***************************************************************************)
EXTENDS Naturals, Sequences

CONSTANTS
    Scripts,      \* identities of the scripts the user may submit
    Selections,   \* the scripts among them submitted by "Run Selection"
    Commands,     \* identities of the console commands
    Quit,         \* the sentinel shutdown() puts on the queue
    None          \* Python's None: no item in hand, no selection pane

ASSUME ConstantAssumption ==
    /\ Selections \subseteq Scripts
    /\ Scripts \cap Commands = {}
    /\ Quit \notin Scripts \cup Commands
    /\ None \notin Scripts \cup Commands \cup {Quit}

VARIABLES
    queue,        \* _EngineThread._queue
    unfinished,   \* _queue.unfinished_tasks, read by is_plot_idle
    current,      \* the item run() is processing
    pc,           \* where the worker is
    gui,          \* where the GUI thread is inside a click handler
    stopEvent,    \* _stop_event.is_set()
    pauseEvent,   \* _pause_event.is_set(): TRUE means "not paused"
    running,      \* _running_script, read by is_running
    events,       \* worker signals posted to the GUI and not yet delivered
    shown,        \* the last status the GUI displayed
    pane,         \* _selection_script_pane: the script whose pane it is
    fate,         \* what became of each script
    discarded,    \* history: selections whose pane was closed as successful
    stopAsked     \* history: scripts stopped while is_running was TRUE

workerVars == <<current, pc, running, fate>>
guiVars    == <<gui, shown, pane, discarded, stopAsked>>
flags      == <<stopEvent, pauseEvent>>
vars == <<queue, unfinished, current, pc, gui, stopEvent, pauseEvent, running,
          events, shown, pane, fate, discarded, stopAsked>>

Item == Scripts \cup Commands \cup {Quit}

\* Places at which the worker is inside exec() with the tracer installed.
Traced == {"boundary", "pausedCheck", "blocking", "waiting", "stopCheck", "body"}
WorkerPlaces ==
    Traced \cup {"get", "claimed", "clearing", "unpausing", "announcing", "compiling",
                 "unwinding", "completed", "finishing", "closing", "command",
                 "done", "exited", "terminated"}
GuiPlaces ==
    {"free", "pausing", "pauseEmit", "resuming", "stopping",
     "closingStop", "closingQuit", "closingWait", "closed"}
Fates    == {"unsubmitted", "queued", "running", "Idle", "Stopped", "Error", "killed"}
Statuses == {"Idle", "Running", "Paused", "Stopped", "Error"}
Signals  == {"Idle", "Running", "Stopped", "Error", "finished"}

Init ==
    /\ queue = <<>> /\ unfinished = 0 /\ current = None
    /\ pc = "get" /\ gui = "free"
    /\ stopEvent = FALSE /\ pauseEvent = TRUE /\ running = FALSE
    /\ events = <<>> /\ shown = "Idle" /\ pane = None
    /\ fate = [s \in Scripts |-> "unsubmitted"]
    /\ discarded = {} /\ stopAsked = {}

-----------------------------------------------------------------------------
(***************************************************************************)
(* Helpers.  A signal emitted by the worker is a queued Qt delivery.  Two  *)
(* equal statuses in a row leave the GUI as one would, so they are one     *)
(* event here; that keeps a script that loops for ever finite.             *)
(***************************************************************************)
Posted(e) ==
    IF events # <<>> /\ events[Len(events)] = e THEN events ELSE Append(events, e)

\* Event.set() wakes a thread already blocked in wait(), even if the event is
\* cleared again before that thread runs; a thread not yet blocked sees the flag.
WorkerAfterUnpause == IF pc = "waiting" THEN "stopCheck" ELSE pc

Enqueue(i) ==
    /\ queue' = Append(queue, i)
    /\ unfinished' = unfinished + 1

-----------------------------------------------------------------------------
(***************************************************************************)
(* The GUI thread.                                                         *)
(***************************************************************************)
\* Run: _on_run has no is_running guard, so runs queue up behind each other.
RunScript(s) ==
    /\ gui = "free"
    /\ s \in Scripts \ Selections /\ fate[s] = "unsubmitted"
    /\ Enqueue(s)
    /\ fate' = [fate EXCEPT ![s] = "queued"]
    /\ UNCHANGED <<current, pc, running, events, guiVars, flags>>

\* Run Selection: refused while a script executes or a one-off pane is pending.
RunSelection(s) ==
    /\ gui = "free"
    /\ s \in Selections /\ fate[s] = "unsubmitted"
    /\ ~running /\ pane = None
    /\ Enqueue(s)
    /\ pane' = s
    /\ fate' = [fate EXCEPT ![s] = "queued"]
    /\ UNCHANGED <<current, pc, running, events, gui, shown, discarded, stopAsked, flags>>

\* A console line.  One command may be outstanding at a time, which bounds the queue.
RunCommand(c) ==
    /\ gui = "free"
    /\ c \in Commands /\ current # c
    /\ \A i \in 1..Len(queue) : queue[i] # c
    /\ Enqueue(c)
    /\ UNCHANGED <<workerVars, events, guiVars, flags>>

\* _on_pause toggles on is_paused; pause() itself does nothing unless a script runs.
PauseClick ==
    /\ gui = "free" /\ pauseEvent /\ running
    /\ gui' = "pausing"
    /\ UNCHANGED <<queue, unfinished, workerVars, events, shown, pane, discarded, stopAsked, flags>>

PauseClear ==
    /\ gui = "pausing"
    /\ pauseEvent' = FALSE
    /\ gui' = "pauseEmit"
    /\ UNCHANGED <<queue, unfinished, workerVars, events, shown, pane, discarded, stopAsked, stopEvent>>

\* pause() emits in the GUI thread, so its status overtakes the posted ones.
PauseEmit ==
    /\ gui = "pauseEmit"
    /\ shown' = "Paused"
    /\ gui' = "free"
    /\ UNCHANGED <<queue, unfinished, workerVars, events, pane, discarded, stopAsked, flags>>

ResumeClick ==
    /\ gui = "free" /\ ~pauseEvent
    /\ pauseEvent' = TRUE /\ pc' = WorkerAfterUnpause
    /\ gui' = "resuming"
    /\ UNCHANGED <<queue, unfinished, current, running, fate, events, shown, pane,
                   discarded, stopAsked, stopEvent>>

ResumeEmit ==
    /\ gui = "resuming"
    /\ shown' = IF running THEN "Running" ELSE shown
    /\ gui' = "free"
    /\ UNCHANGED <<queue, unfinished, workerVars, events, pane, discarded, stopAsked, flags>>

\* request_stop() first sets the stop event, then releases a paused worker.
SetStop(next) ==
    /\ gui = "free"
    /\ stopEvent' = TRUE
    /\ stopAsked' = IF running THEN stopAsked \cup {current} ELSE stopAsked
    /\ gui' = next
    /\ UNCHANGED <<queue, unfinished, workerVars, events, shown, pane, discarded, pauseEvent>>

\* Mutant: request_stop() forgets to release a paused worker.
KeepPaused(from, next) ==
    /\ gui = from
    /\ gui' = next
    /\ UNCHANGED <<queue, unfinished, workerVars, events, shown, pane, discarded, stopAsked, flags>>

\* Mutant: a plain flag in place of threading.Event, so that no waiter is notified.
ReleaseWithoutNotify(from, next) ==
    /\ gui = from
    /\ pauseEvent' = TRUE
    /\ gui' = next
    /\ UNCHANGED <<queue, unfinished, workerVars, events, shown, pane, discarded, stopAsked, stopEvent>>

ReleasePause(from, next) ==
    /\ gui = from
    /\ pauseEvent' = TRUE /\ pc' = WorkerAfterUnpause
    /\ gui' = next
    /\ UNCHANGED <<queue, unfinished, current, running, fate, events, shown, pane,
                   discarded, stopAsked, stopEvent>>

StopClick   == SetStop("stopping")
StopRelease == ReleasePause("stopping", "free")

\* shutdown(): request_stop(), put the quit sentinel, wait 2 s, then terminate.
ShutdownStop    == SetStop("closingStop")
ShutdownRelease == ReleasePause("closingStop", "closingQuit")

ShutdownQuit ==
    /\ gui = "closingQuit"
    /\ Enqueue(Quit)
    /\ gui' = "closingWait"
    /\ UNCHANGED <<workerVars, events, shown, pane, discarded, stopAsked, flags>>

ShutdownJoined ==
    /\ gui = "closingWait" /\ pc = "exited"
    /\ gui' = "closed"
    /\ UNCHANGED <<queue, unfinished, workerVars, events, shown, pane, discarded, stopAsked, flags>>

\* Mutant: shutdown() returns after the wait without terminating the thread.
ShutdownAbandon ==
    /\ gui = "closingWait" /\ pc # "exited"
    /\ gui' = "closed"
    /\ UNCHANGED <<queue, unfinished, workerVars, events, shown, pane, discarded, stopAsked, flags>>

ShutdownTerminate ==
    /\ gui = "closingWait" /\ pc # "exited"
    /\ pc' = "terminated"
    /\ fate' = [s \in Scripts |-> IF fate[s] \in {"queued", "running"} THEN "killed" ELSE fate[s]]
    /\ gui' = "closed"
    /\ UNCHANGED <<queue, unfinished, current, running, events, shown, pane, discarded, stopAsked, flags>>

\* The event loop delivers the oldest posted signal to _on_engine_status_changed
\* or, for script_finished, to _discard_selection_script.
Deliver ==
    /\ gui = "free" /\ events # <<>>
    /\ events' = Tail(events)
    /\ LET e == Head(events) IN
       /\ shown' = IF e = "finished" THEN shown ELSE e
       /\ pane' = IF e \in {"finished", "Stopped", "Error"} THEN None ELSE pane
       /\ discarded' = IF e = "finished" THEN discarded \cup ({pane} \ {None}) ELSE discarded
    /\ UNCHANGED <<queue, unfinished, workerVars, gui, stopAsked, flags>>

-----------------------------------------------------------------------------
(***************************************************************************)
(* The worker thread: run(), _exec_script() and the tracer.                *)
(***************************************************************************)
Goto(from, to) == pc = from /\ pc' = to

\* Mutant: task_done() straight after get(), before the item is executed.
GetDoneEarly ==
    /\ Goto("get", "claimed") /\ queue # <<>>
    /\ current' = Head(queue)
    /\ queue' = Tail(queue)
    /\ unfinished' = unfinished - 1
    /\ UNCHANGED <<running, fate, events, guiVars, flags>>

Get ==
    /\ Goto("get", "claimed") /\ queue # <<>>
    /\ current' = Head(queue)
    /\ queue' = Tail(queue)
    /\ UNCHANGED <<unfinished, running, fate, events, guiVars, flags>>

\* Mutant: the quit branch breaks out of the loop before task_done().
TakeQuitUncounted ==
    /\ Goto("claimed", "exited") /\ current = Quit
    /\ current' = None
    /\ UNCHANGED <<queue, unfinished, running, fate, events, guiVars, flags>>

TakeQuit ==
    /\ Goto("claimed", "exited") /\ current = Quit
    /\ unfinished' = unfinished - 1
    /\ current' = None
    /\ UNCHANGED <<queue, running, fate, events, guiVars, flags>>

TakeCommand ==
    /\ Goto("claimed", "command") /\ current \in Commands
    /\ UNCHANGED <<queue, unfinished, current, running, fate, events, guiVars, flags>>

MarkRunning ==
    /\ Goto("claimed", "clearing") /\ current \in Scripts
    /\ running' = TRUE
    /\ UNCHANGED <<queue, unfinished, current, fate, events, guiVars, flags>>

\* Mutant: a script starts without clearing the stop event.
ClearStopForgotten ==
    /\ Goto("clearing", "unpausing")
    /\ fate' = [fate EXCEPT ![current] = "running"]
    /\ UNCHANGED <<queue, unfinished, current, running, events, guiVars, flags>>

ClearStop ==
    /\ Goto("clearing", "unpausing")
    /\ stopEvent' = FALSE
    /\ fate' = [fate EXCEPT ![current] = "running"]
    /\ UNCHANGED <<queue, unfinished, current, running, events, guiVars, pauseEvent>>

ClearPause ==
    /\ Goto("unpausing", "announcing")
    /\ pauseEvent' = TRUE
    /\ UNCHANGED <<queue, unfinished, current, running, fate, events, guiVars, stopEvent>>

\* Mutant: the Running status is not emitted when a script starts.
AnnounceSilently ==
    /\ Goto("announcing", "compiling")
    /\ UNCHANGED <<queue, unfinished, current, running, fate, events, guiVars, flags>>

Announce ==
    /\ Goto("announcing", "compiling")
    /\ events' = Posted("Running")
    /\ UNCHANGED <<queue, unfinished, current, running, fate, guiVars, flags>>

Finish(o) ==
    /\ events' = Posted(o)
    /\ fate' = [fate EXCEPT ![current] = o]

CompileFails ==
    /\ Goto("compiling", "closing") /\ Finish("Error")
    /\ UNCHANGED <<queue, unfinished, current, running, guiVars, flags>>

Compiled ==
    /\ Goto("compiling", "boundary")
    /\ UNCHANGED <<queue, unfinished, current, running, fate, events, guiVars, flags>>

\* The tracer at a line boundary: read the pause event first.
Boundary ==
    /\ pc = "boundary"
    /\ pc' = IF pauseEvent THEN "stopCheck" ELSE "pausedCheck"
    /\ UNCHANGED <<queue, unfinished, current, running, fate, events, guiVars, flags>>

PausedCheck ==
    /\ pc = "pausedCheck"
    /\ pc' = IF stopEvent THEN "unwinding" ELSE "blocking"
    /\ UNCHANGED <<queue, unfinished, current, running, fate, events, guiVars, flags>>

\* pause_event.wait(): returns at once when the flag is set, else blocks.
Block ==
    /\ pc = "blocking"
    /\ pc' = IF pauseEvent THEN "stopCheck" ELSE "waiting"
    /\ UNCHANGED <<queue, unfinished, current, running, fate, events, guiVars, flags>>

\* A raising trace function is removed by the interpreter: the script's own
\* except and finally blocks then run untraced.
Interrupt ==
    /\ Goto("stopCheck", "unwinding") /\ stopEvent
    /\ UNCHANGED <<queue, unfinished, current, running, fate, events, guiVars, flags>>

\* The line starts.  execution_progress reports a line of the script, though not
\* one of the library code it calls, to the GUI slot that shows the status.
StartLine ==
    /\ Goto("stopCheck", "body") /\ ~stopEvent
    /\ events' \in {events, Posted("Running")}
    /\ UNCHANGED <<queue, unfinished, current, running, fate, guiVars, flags>>

NextLine ==
    /\ Goto("body", "boundary")
    /\ UNCHANGED <<queue, unfinished, current, running, fate, events, guiVars, flags>>

ScriptEnds ==
    /\ Goto("body", "completed")
    /\ UNCHANGED <<queue, unfinished, current, running, fate, events, guiVars, flags>>

ScriptRaises ==
    /\ Goto("body", "closing") /\ Finish("Error")
    /\ UNCHANGED <<queue, unfinished, current, running, guiVars, flags>>

\* The interrupt leaves the script as KeyboardInterrupt, unless a finally block
\* raised something else on the way out.
Unwound(o) ==
    /\ o \in {"Stopped", "Error"}
    /\ Goto("unwinding", "closing") /\ Finish(o)
    /\ UNCHANGED <<queue, unfinished, current, running, guiVars, flags>>

\* A script may also swallow the interrupt and run to its end, no longer traced.
Swallowed ==
    /\ Goto("unwinding", "completed")
    /\ UNCHANGED <<queue, unfinished, current, running, fate, events, guiVars, flags>>

Complete ==
    /\ Goto("completed", "finishing") /\ Finish("Idle")
    /\ UNCHANGED <<queue, unfinished, current, running, guiVars, flags>>

EmitFinished ==
    /\ Goto("finishing", "closing")
    /\ events' = Posted("finished")
    /\ UNCHANGED <<queue, unfinished, current, running, fate, guiVars, flags>>

Close ==
    /\ Goto("closing", "done")
    /\ running' = FALSE
    /\ UNCHANGED <<queue, unfinished, current, fate, events, guiVars, flags>>

CommandReturns ==
    /\ Goto("command", "done")
    /\ UNCHANGED <<queue, unfinished, current, running, fate, events, guiVars, flags>>

TaskDone ==
    /\ Goto("done", "get")
    /\ unfinished' = unfinished - 1
    /\ current' = None
    /\ UNCHANGED <<queue, running, fate, events, guiVars, flags>>

-----------------------------------------------------------------------------
User ==
    \/ \E s \in Scripts : RunScript(s) \/ RunSelection(s)
    \/ \E c \in Commands : RunCommand(c)
    \/ PauseClick \/ ResumeClick \/ StopClick \/ ShutdownStop

\* The rest of a click handler, and the event loop.
GuiThread ==
    \/ PauseClear \/ PauseEmit \/ ResumeEmit \/ StopRelease
    \/ ShutdownRelease \/ ShutdownQuit \/ ShutdownJoined \/ ShutdownTerminate
    \/ Deliver

Worker ==
    \/ Get \/ TakeQuit \/ TakeCommand
    \/ MarkRunning \/ ClearStop \/ ClearPause \/ Announce
    \/ CompileFails \/ Compiled
    \/ Boundary \/ PausedCheck \/ Block \/ Interrupt \/ StartLine
    \/ NextLine \/ ScriptEnds \/ ScriptRaises
    \/ Unwound("Stopped") \/ Unwound("Error") \/ Swallowed
    \/ Complete \/ EmitFinished \/ Close
    \/ CommandReturns \/ TaskDone

\* The process is gone.
Terminated == gui = "closed" /\ UNCHANGED vars

Next == User \/ GuiThread \/ Worker \/ Terminated

\* Both threads are scheduled and every line of a script returns.  Nothing makes
\* the user click, and a script may go on from line to line for ever.
Spec == Init /\ [][Next]_vars /\ WF_vars(GuiThread) /\ WF_vars(Worker)

-----------------------------------------------------------------------------
(***************************************************************************)
(* Properties.                                                             *)
(***************************************************************************)
\* The variables keep their types: the flags are Boolean, the counters natural,
\* and the thread places, the fates and the displayed status are those of the code.
TypeOK ==
    /\ queue \in Seq(Item) /\ unfinished \in Nat
    /\ current \in Item \cup {None}
    /\ pc \in WorkerPlaces /\ gui \in GuiPlaces
    /\ stopEvent \in BOOLEAN /\ pauseEvent \in BOOLEAN /\ running \in BOOLEAN
    /\ events \in Seq(Signals) /\ shown \in Statuses
    /\ pane \in Selections \cup {None}
    /\ fate \in [Scripts -> Fates]
    /\ discarded \subseteq Selections /\ stopAsked \subseteq Item

\* is_plot_idle may be trusted: when the queue counts no unfinished task, no item
\* is queued, none is in the worker's hands and no submitted script is undecided.
PlotIdleMeansQuiet ==
    unfinished = 0 =>
        /\ queue = <<>> /\ current = None /\ ~running
        /\ \A s \in Scripts : fate[s] \notin {"queued", "running"}

\* No lost wakeup: a worker blocked in pause_event.wait() is blocked because the
\* event is clear, so a later Resume, Stop or shutdown is certain to wake it.
BlockedOnlyWhilePaused == pc = "waiting" => ~pauseEvent

\* While the worker executes a script and every posted signal was delivered, the
\* GUI shows Running or Paused: the sequence tabs the status disables stay
\* disabled for as long as the tree they edit is being executed.
TabsLockedWhileExecuting ==
    (pc \in Traced /\ events = <<>>) => shown \in {"Running", "Paused"}

\* Stop ends a script, paused or not: once the stop event is set under a script
\* inside exec(), the worker leaves exec() unless the user presses Pause again.
StopEndsScript ==
    (gui = "stopping" /\ stopEvent /\ pc \in Traced) ~> (pc \notin Traced \/ gui = "pausing")

\* No submitted script is left undecided by closing the application: shutdown
\* ends with every script that was submitted completed, failed, stopped or killed.
ShutdownDecidesEveryScript ==
    gui = "closingStop" ~>
        (gui = "closed" /\ \A s \in Scripts : fate[s] \notin {"queued", "running"})

-----------------------------------------------------------------------------
(***************************************************************************)
(* How the worker's place, the queue and the fates of the scripts fit      *)
(* together: the invariant the proofs of SequenceEngineProofs rest on.     *)
(***************************************************************************)
Queued(i) == \E k \in 1..Len(queue) : queue[k] = i

\* Places before a taken script counts as started, while it executes, and after.
Held      == pc \in {"claimed", "clearing"}
Executing == pc \in Traced \cup {"unpausing", "announcing", "compiling", "unwinding", "completed"}
Decided   == pc \in {"finishing", "closing"}

\* unfinished_tasks counts the queued items and the one in hand.
TaskAccounting ==
    unfinished = Len(queue) + (IF current = None THEN 0 ELSE 1)

\* What the worker holds, and what is_running says, at each place of its code.
PlaceConsistent ==
    /\ pc \in {"get", "exited"} => current = None
    /\ pc \in WorkerPlaces \ {"get", "exited", "terminated"} => current # None
    /\ pc = "command" => current \in Commands
    /\ pc = "clearing" \/ Executing \/ Decided => current \in Scripts
    /\ pc # "terminated" => running = (pc = "clearing" \/ Executing \/ Decided)
    /\ running => current # None
    /\ pc = "unwinding" => stopEvent
    /\ pc = "terminated" => gui = "closed"

\* A script is queued once, started once and decided once.
FateConsistent ==
    /\ \A j, k \in 1..Len(queue) : queue[j] = queue[k] /\ queue[j] \in Scripts => j = k
    /\ \A s \in Scripts :
        /\ pc # "terminated" => (fate[s] = "queued" <=> Queued(s) \/ (Held /\ current = s))
        /\ Queued(s) => ~(Held /\ current = s)
        /\ fate[s] = "running" <=> Executing /\ current = s
    /\ (pc = "done" /\ current \in Scripts) \/ Decided =>
           fate[current] \in {"Idle", "Stopped", "Error"}
    /\ pc = "terminated" => \A s \in Scripts : fate[s] \notin {"queued", "running"}

\* The inductive invariant: each script is in exactly one of the queue, the worker's
\* hands or its outcome, and the flags the GUI reads agree with the worker's place.
IInv ==
    /\ TypeOK /\ TaskAccounting /\ PlaceConsistent /\ FateConsistent
    /\ BlockedOnlyWhilePaused

\* From the announcement of a script until it leaves exec() the last status on its way to
\* the GUI is Running, and Pause and Resume are all the GUI itself shows after it.
StatusFollows ==
    pc \in Traced \cup {"compiling"} =>
        IF events = <<>> THEN shown \in {"Running", "Paused"} ELSE events[Len(events)] = "Running"

-----------------------------------------------------------------------------
(***************************************************************************)
(* Claims of the repository that the code does not keep.                   *)
(***************************************************************************)
\* stop(): "The stop is honoured at the next Python line boundary."  A script
\* stopped while is_running is TRUE starts no further line.
StopHonouredAtNextLine == [][StartLine => current \notin stopAsked]_vars

\* docs/usage.rst: "On successful completion, the temporary script tab is discarded";
\* "If execution fails or is stopped, the script remains".  A selection whose tab
\* was discarded did complete.
OnlySuccessfulDiscarded == \A s \in discarded : fate[s] = "Idle"

\* pause(): "Has no effect if no script is currently running."  With nothing queued
\* or running, and every signal delivered, the engine is not left paused.
PauseHasNoEffectWhenIdle ==
    (gui = "free" /\ unfinished = 0 /\ events = <<>>) => pauseEvent

-----------------------------------------------------------------------------
(***************************************************************************)
(* What the engine promises: ScriptRuns, a one-at-a-time FIFO of scripts.  *)
(* An item counts as started when _exec_script clears the stop event, or   *)
(* when a command is taken.                                                *)
(***************************************************************************)
\* The items not started: those queued, after the one taken off the queue just now.
Waiting ==
    IF pc = "terminated" THEN <<>> ELSE IF Held THEN <<current>> \o queue ELSE queue

Active == IF Held \/ pc = "terminated" THEN None ELSE current

Promise == INSTANCE ScriptRuns WITH
    waiting <- Waiting, active <- Active, wanted <- stopEvent, outcome <- fate

\* The engine implements ScriptRuns: first come first served, one at a time, one
\* outcome each, and Stopped only when Stop was pressed after the script started.
ImplementsScriptRuns == Promise!Spec
=============================================================================
