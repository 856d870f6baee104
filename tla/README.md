# Verification of stoner_measurement

stoner_measurement builds laboratory procedures from sequence steps, generates a
Python script from them, runs it on one worker thread of a Qt application, and
shares instruments, plots and panels between that worker and the GUI. This
directory holds TLA+ models of the parts where threads, failures and retries meet,
the TLC runs that check them on small instances, and the TLAPS proofs of what holds
for every instance. Paths below are relative to `src/src/stoner_measurement/` unless
they start with `src/`.

- [The system](#the-system): components, state, operations, interactions
- [The modules](#the-modules): how each one corresponds to the code
- [The runs](#the-runs): what is checked, with which bounds and fairness
- [What the code does not keep](#what-the-code-does-not-keep)
- [The proofs](#the-proofs)
- [What is only model-checked, and what is not
  modelled](#what-is-only-model-checked-and-what-is-not-modelled)
- [The plan](#the-plan)

## The system

### Threads

| Thread | What runs on it |
|---|---|
| GUI thread | the Qt event loop: panels, sequence tree, plot dispatcher, timers of the engines, display replacement, closing |
| sequence worker | `core/sequence_engine.py` `_EngineThread`: scripts and console commands, hence plugins, waits, plots and setters of the engines |
| poller of each controller engine | one background read at a time, `core/controller_polling.py` |
| X-ray operation | one thread for each move or count, `xray_control/engine.py` |
| branches of Run Parallel | a thread pool for the children of the container |

They share Python objects. A Qt signal from one thread to another is a posted event;
the rest is protected by the lock of each engine, by the lock of the plot service, by
two `threading.Event`s of the sequence engine, and in some places by nothing.

### Components

**Sequence engine** (`core/sequence_engine.py`, `app.py`). State: a FIFO queue with
its count of unfinished tasks, the stop and pause events, `_running_script`, the
status the GUI shows, the tab of a one-off selection. Operations: submit a script, a
selection or a console line; pause, resume, stop; shut down; the loop of the worker;
the tracer that raises at a line. Hard: the flags are written by both threads without
a lock, the GUI learns of progress by events that arrive late, shutdown gives up after
two seconds. Correct when: work runs in order, one item at a time, with one outcome
each; `is_plot_idle` is true only when nothing is queued or running; Stop and close
end what runs, paused or not; what the GUI locks while a script runs stays locked.

**Generated script and plugin lifecycle** (`core/sequence_engine.py`
`generate_sequence_code`, `plugins/base_plugin.py`, `plugins/command/reconfigure.py`,
`run_again.py`, `make_safe.py`, `core/validation.py`). State: for each plugin the
flags of its lifecycle and the handles it has open. Operations: start, validate,
connect, configure, act, reconfigure, disconnect, and the wrapper that brackets each
lifecycle call. Hard: every call may raise, Stop may raise at any line, instances
survive from run to run, connection may be delayed to a Reconfigure step. Correct
when: no step uses a plugin that this run has not set up, no handle is lost, and the
end of a run releases what the run opened.

**Plot service** (`core/plotting/service.py`, `ui/plotting_bridge.py`). State: the
queue, the outstanding tickets, groups, the wake flag, whether a replacement is in
progress. Operations: submit a request or a group, drain a bounded turn, draw at once
for a synchronous caller, cancel, replace the display, shut down. Hard: producers on
any thread, wakeups by posted event, cancellation of what is queued or drawn, groups
that must stop at the first failure. Correct when: every ticket gets one result, in
order of acceptance, on the display it was accepted for.

**Controller scheduling** (`core/controller_polling.py`) and the **motor engine**
(`motor_control/engine.py`). State: the engine lock, the driver, the last result and
its revision, the pending flag and the timer; the target and the window of stability.
Operations: read (shared between overlapping readers), move, connect, disconnect, set
the polling rate, shut down. Hard: readers share results, the timer belongs to the GUI
thread but any thread starts and stops it, shutdown joins a worker that may wait for
the lock. Correct when: a read never answers with what the device was before the
request, a stable flag is about the last target, polling neither dies nor survives.

**Temperature engine** (`temperature_control/engine.py`, `service.py`). Two sessions,
each with its lock, driver, cached state, targets and stability; one coordinated read
over both under the lock of the primary. Operations: read, set a setpoint, connect and
disconnect a slot, shut down. Hard: the secondary is read and judged without its lock.
Correct when: what is promised of a single engine holds of both slots, and the two
locks never block each other.

**Magnet engine** (`magnet_control/engine.py`). State: the lock, the driver, target and
ramp, the switch heater, the quench, the flags of the target and of stability with the
window they come from. Operations: connect and disconnect, set a target, ramp, hold,
zero, switch the heater, read, shut down. Hard: the supply and the heater move between
any two steps, the heater guard is about a sequence of commands, a command may be
refused where only a log tells. Correct when: the heater is never turned on at a field
the supply was found not to match, no ramp starts while it switches, and no flag
outlives a command that moved the target.

**Pressure engine** (`pressure_control/engine.py`). A gauge and a flow controller on
one lock and one timer; each connects, fails and disconnects on its own. Hard: error
flags and the status are also written without the lock, and the one timer belongs to
both devices. Correct when: what is connected is polled as the rate says, a failure
stays flagged until a read or a connect succeeds, the set point shown is the one sent.

**X-ray engine** (`xray_control/engine.py`, `instruments/xray/`). State: the engine
lock, the driver, the status, one cancel event, the ticket of the operation launched
last. Operations: move and count, in the caller's thread or launched on a thread of
their own; cancel; read; connect, disconnect, set the polling rate, shut down. Hard:
cancel and shutdown take no lock, a connect joins the operation's thread while it holds
the lock that thread waits for. Correct when: one launched operation at a time, each
ticket resolves, no operation loses its driver, cancellation reaches the one it was
meant for, a busy status ends, and shutdown is final.

**Plot display host** (`ui/plotting/host.py`). The display shown, its candidate, the
styles a display could not show. The worker asks for a display and waits; the GUI thread
builds the candidate, replays the plots and commits. Hard: the menu, the dialog of a
sequence tab and a script ask, on two threads, and the engine is idle only when it was
looked at. Correct when: a failed candidate leaves everything as it was, replay loses
nothing, a script has the display it selected. **Plot series and surfaces**
(`core/plotting/state.py`, `surfaces.py`): the canonical copy of what is drawn.

**State scans, sweeps and set commands** (`plugins/state_scan`, `plugins/state_sweep`,
`plugins/command/set_engine_state.py`, `scan`, `sweep`). A scan sets a target, waits with
a timeout and runs its children; a sweep raises the polling rate, ramps from segment to
segment and puts the rate back; a command waits for its engine. Hard: the wait is for
notices of readings that others cause, with a deadline, a Stop and other commands of the
panel in between, and commands may fail, which some engines raise and others log. Correct
when: no arrival is slept through, none is reported from before the command, the rate is
put back and every wait ends.

**Sequence containers** (`plugins/sequence/containers.py`). Run Parallel submits its
children to a thread pool. Hard: only the worker is traced. Correct when: plugins are not
released under a branch, a failure is reported, a Stop ends the script.

**Other commands, traces, monitors, transforms** (`plugins/`). Steps of a script over the
engines and over data. **Instruments** (`instruments/`): transports with a lock for
each endpoint, protocols, drivers. **Metadata, serializer, trace data** (`core/`):
pure conversions. **Dock tree, panels, main window** (`ui/`): views of the GUI thread.

### Interactions

- The sequence worker runs the generated script; its plugins call the engines'
  setters and `read_controller_state`, submit plots and wait for tickets, and ask for
  a display. The tracer raises `KeyboardInterrupt` in whatever Python line runs next.
- The panels call the same engines from the GUI thread and receive states by signal.
- A timer of the GUI thread asks the poller of each engine for a read.
- The plot dispatcher runs in turns of the GUI event loop; the display is replaced
  only while it, and unless the sequence asked for it the engine, are idle.
- Closing shuts down the plot service, then the sequence engine, then the controller
  engines, each whatever became of the one before.

`PROJECT.json` lists the hazards of each part at the line where they bite.

## The modules

| Module | Models | Role |
|---|---|---|
| `ScriptRuns` | what the sequence engine promises | abstract: FIFO, one at a time, one outcome, Stopped only if asked |
| `SequenceEngine` | `core/sequence_engine.py`, the selection pane of `app.py` | GUI thread, worker, events between them |
| `GeneratedScript` | the generated script, `_tracked_lifecycle` | plugins over several runs with failures and Stops |
| `PlotTickets` | what the plot dispatcher promises producers | abstract: answered once and in order, groups in order, nothing waits after a shutdown |
| `PlotService` | `core/plotting/service.py` | producers, dispatcher, cancellation, replacement, shutdown |
| `FreshReads` | what a controller engine promises its readers | abstract: an answer is not older than its request |
| `ControllerEngine` | `core/controller_polling.py` with the session of `motor_control/engine.py` | callers, poller, timer |
| `TemperatureService` | `temperature_control/service.py` over two sessions of `engine.py` | two slots, two locks, one read |
| `XrayEngine` | the operations of `xray_control/engine.py` | callers, threads of launched operations, one cancel event |
| `MagnetEngine` | the session of `magnet_control/engine.py` with a scan over it | panel, scan, polls, supply and heater |
| `StateSteps` | scan points, set commands, sweeps over `ControllerUpdates` | worker, panel, polls of one engine |
| `PressureEngine` | `pressure_control/engine.py`, `plugins/command/pressure_set_flow.py` | two devices, one lock, one timer |
| `ParallelBranches` | `plugins/sequence/containers.py` under the tracer | worker, branches, buttons |
| `DisplayHost` | `ui/plotting/host.py` with the callers in `app.py` and the sequence engine | GUI thread and worker |
| `PressureState`, `BranchState`, `DisplayState` | the state of the three modules above | constants, variables and the invariants required of them, shared with their proofs |
| `MC...` | | instances for TLC |
| `...Proofs` | | theorems and their proofs; `SequenceEngineProofs` also about `ParallelBranches`, `XrayEngineProofs` about `PressureEngine`, `GeneratedScriptProofs` about `DisplayHost` |

A step of a module ends where another thread can see or change what the next step
uses: at a lock, at an unlocked read or write of shared state, at a call into a
device, at a posted event. What happens under one lock with no such point is one step.

**SequenceEngine.** `pc` is the line of the worker (`get`, `claimed`, `clearing`,
`announcing`, ..., `finishing`), `gui` what the GUI thread is in the middle of.
`queue` and `unfinished` are `queue.Queue` with its `unfinished_tasks`; `stopEvent`,
`pauseEvent`, `running` the two events and `_running_script`; `events` the posted
signals and `shown` the status the GUI last received; `pane` the tab of the pending
selection. Scripts and commands are identities; the body of a line is a step that goes
on, ends or raises; a script may loop for ever. `fate`, `discarded` and `stopAsked`
are history: what became of each script, which tabs were discarded, which scripts were
running when Stop was pressed.

**GeneratedScript.** `phase` and `pos` are the statement of the generated script and
the plugin it is about, `call` the lifecycle call in progress with its line in
`tracked` (`enter`, `begin`, `try`, `method`, `leave`, `note`), `nested` whether it is
the `disconnect` that a repeated `connect` makes first. `attempted`, `connected`,
`configured`, `depth` are the `_lifecycle_*` attributes, `delay` is
`delay_configuration`. `held` says that the plugin has a reference to an open handle,
`lost` that an open handle has no reference left, `setUp` the run that last configured
it. A method that raises may have taken effect or not. Loops, conditions and Run Again
are the order in which `Act` and `Reconfigure` choose plugins, which is arbitrary.
`Stop` may come at every step: it unwinds to `finally` or ends the run.

**PlotService.** `queue`, `pending`, `groups`, `active`, `wake`, `switching`, `closed`
are the attributes of the service, `posted` the wake events in the Qt queue, `gui` the
place of the GUI thread in `_drain`, in a replacement or in shutdown, `result` the
result in each ticket. `accepted`, `bornIn`, `drawnIn` are history.

**ControllerEngine.** `lock` is `_engine_lock`, `revision`, `shared`, `pending`,
`closed` the poller, `requested`, `posted`, `running` the timer with its queued
notifications, `settling` and `stable` the window of stability, tagged with the
command it was opened for. The state of the device is the number of commands it
executed, so that "fresh" and "for this target" are comparisons. `rev`, `want`, `got`,
`start` are local variables of each thread, `want` being history: what the device was
when the read was requested. The motor engine stands for the single-device engines:
magnet, pressure and X-ray use the same poller, timer and
coordinated read, and their modules leave those to this one.

**TemperatureService.** The same for two slots: `lock`, `port` (the endpoint a
connected session is on), `target`, `settling`, `stable`, `cache` by slot, and the
steps of `_evaluate_shared_stability`: take the snapshot, take the target, judge the
window, write the flag, store the state. `failed` are the slots whose cleanup failed in a
shutdown, which then overwrites the status of the primary (`EndShutdown`) and raises the
failures to its caller, after which the GUI thread may use the service again. For the
secondary, setters and disconnects
run in between; for the primary the lock of the read excludes setters, and a
disconnect happens under it.

**XrayEngine.** `lock`, `driver`, `status`, `cancel`, `ticket` and `moving` are
`_engine_lock`, `_driver`, `_status`, `_cancel_event`, the number of `_operation_ticket`
and `_latest_state.moving`. Launched operations are threads of their own, `queued` until
they get the lock, `driving` in the driver, `ending` until they get it again to set
`done`. An operation is `left` steps of the driver, each of which looks at the event
first. `aimed` is history: the operations a cancel found unfinished.

**MagnetEngine.** `supply`, `goal` and `ramp` are the power supply behind the driver and
`heater` its switch, which act on their own between any two steps; `target`, the flags
and the window are the attributes of the engine. A flag is kept as the field it was judged
against, `None` for false, so that a flag that outlived its target can be told. A section
under the lock is a sequence of steps (`held`: by whom, where, for which field) where
the driver is called more than once: the heater guard reads the state, compares, and then
commands. A read is two: the status, the target and the window, then the verdict. `Faults`
says what may go wrong, all of it in the run: a connect or a read fails, the driver raises
without or after having done what it was asked, a set point cannot be read (the engine then
takes its own, which a command has stored before its driver raised), a quench. `adrift` is
history: a command that moved the target raised before it had reset the flags, or a read
took a target that is not the one in force.

**StateSteps.** `place` is where the worker is in a step: the limits, the command, the wait
(`ControllerUpdates.wait`), the segments of a sweep. `news` says that the revision the
engine published differs from the one the waiter has. A read is three steps (the device is
sampled, the state is kept, the state is published), so that commands and waits come in
between. `goal` is the set point of the device and `own` the one the engine has; a state is
at its target or not, by either. A command may fail with the set point in the device or not:
the magnet engine only logs that, so that the step goes on with what was known before
(`Balk`, `refused`), the others raise and the step fails (`CommandRaises`). A segment of the
magnet is two locked steps, the target and the ramp. `rate`, `user` and `saved` are the
polling rate, what the panel last asked for (history) and what each sweep has put aside.

**PressureEngine.** `holder` (of the engine lock), `drivers`, `errors` and `stopped` are the
attributes, with the flow set point and the reading; `requested`, `posted` and `running` the
timer as in `ControllerEngine`. The handlers around a connect, which set the error and the
status after the lock is released, are steps of their own.

**ParallelBranches.** `place` and `at` are where the worker is in the container, `held`
whether it is in `pause_event.wait()`, `traced` whether its tracer is still there (one that
has raised is gone), `branch` where each branch is. The thread pool is external: it is
modelled by what its documented interface does for this caller.

**DisplayHost.** `gui` is the place of the GUI thread in `_switch_display`, `job` who asked
for what, `dialog` the modal dialog of a tab, which runs its own event loop. `factory` is
`factory_id`, `screen` and `styled` what the display shows, `hidden` `_hidden_styles`, `canon`
the series of the plot service. `posted`, `done`, `refused` and `cancelled` are the requests of
the scripts and their events. The tracer raises a Stop before the line that would give a
request up (`Interrupt`), so the request stays posted and is carried out for a script that is
over; only a worker whose tracer has already raised gives it up (`GiveUp`). `asked` and
`owner` are history: which series were last given
the style, who asked for the display shown. A candidate fails or refuses at will; disposing
of one cannot fail.

## The runs

`tlc -config X.cfg M` in this directory, where `X` is named after the component and `M` is
`MCX` (for `ParallelBranches`, `ParallelBranches`). Deadlock is not checked
(`CHECK_DEADLOCK FALSE`) where the system stops: the application closes, a script is
over, or the bounded supply of runs, commands and reads is used up.

| Run | Properties | Shows |
|---|---|---|
| `sequence_engine` | `PlotIdleMeansQuiet`, `TabsLockedWhileExecuting`, `ImplementsScriptRuns`, `StopEndsScript`, `ShutdownDecidesEveryScript` | two scripts (one a selection) and a console command, any use of Pause, Resume, Stop, Close |
| `generated_script` | `ActsReady`, `NothingLost`, `CleanRelease` | two plugins, three runs of the same instances, one Stop at any line, any call failing |
| `plot_service` | `ReplacementIsolated`, `GroupsStopAtFirstFailure`, `ImplementsPlotTickets`, `EveryTicketFinishes` | a group of two and two single requests, room for three, one replacement |
| `display_host` | `PlotsSurvive`, `AnsweredHasDisplay`, `SelectionEnds` | two scripts, three displays of which one supports a style, the menu and the tab dialog |
| `controller_engine` | `StableForTarget`, `PollingContinues`, `ShutdownIsFinal`, `ImplementsFreshReads`, `ShutdownCompletes` | GUI, one worker, poller; one command, the reads that overlap and one more of the poller, one timer notification in flight |
| `temperature_service` | `PrimaryStableOnTarget`, `ShutdownReleasesBoth`, `EveryReadEnds` | GUI and poller over both slots |
| `magnet_engine` | `FlagsCurrent`, `ReachedWhereAsked`, `NoRampInTransition`, `HeaterMatched` | panel, scan and polls over zero and one other field, with every kind of fault of the module |
| `pressure_engine` | `PolledWhileConnected`, `FailureShown`, `SetpointKept`, `ReachedSinceSet` | panel, worker and timer over both devices, two flows |
| `xray_engine` | `CancelHeard`, `TicketsResolve` | GUI and a sequence thread, two launched operations beside any number of synchronous ones |
| `state_steps` | `NewsHeeded`, `ReachedSinceAsked`, `RateKept`, `EveryWaitEnds` | any number of points, commands and sweeps in a row, two set points (one out of limits), two rates, commands that fail |
| `parallel_branches` | `ReleasedAfterBranches`, `FailureReported`, `StopEnds` | three branches that succeed, fail or wait for an instrument; Pause, Resume, Stop |
| `discarded_selection` | `OnlySuccessfulDiscarded` (violated) | `SequenceDiscard.cfg`: the statement of the next section that the code does not keep |

**Bounds and why they are enough.** Two scripts and a command are the least with
something queued behind something running, and a selection behind another script. Two
plugins are the least where one fails while another is connected, delayed or already
released; a third run is the first whose plugin was left behind by a run that was
itself started over leftovers. A group of two with two others is the least in which a
member fails before another while foreign requests are queued between, and room for
three makes a group of two meet a full queue. In `ControllerEngine` two
callers may ask for a read until the first one is answered, and the poller may read once
more after it (`MaxReads = 1`): the least that overlap, share, and could share too much;
one command is the least before, between and after them, and its effect on a
reading is a comparison, not an amount. One notification of the timer in flight suffices
for it to be overtaken by a request of the GUI thread, which takes effect at once. Two
launched operations are the least of which one may be refused, or confused with the one
before; with one step a cancel comes before it or after it. Two
fields are the least with a ramp between them, one of them zero because `zero` is a command
of its own; two set points the least of which one is out of limits or another one is
commanded meanwhile, and the steps of `StateSteps`, `MagnetEngine`, `PressureEngine` go on for
ever, without a bound. The two flows are interchangeable, which their symmetry uses. Three
branches are the least with one that failed, one that is awaited and one not yet started.
Two scripts are the least of which one leaves its request for a display behind while the
next one starts, and three displays the least for a style to be kept over two that do not
support it. What does not depend on bounds is proved.

**Fairness and why the code justifies it.** `SequenceEngine` assumes weak fairness of the
GUI thread and of the worker: both are threads of one process, and the steps taken by a user
are not in them. Nothing is assumed about what a script does: it may loop for ever, and
`StopEndsScript` holds because the tracer raises at its next line. `PlotService` assumes
weak fairness of the dispatcher, a callback of the Qt event loop whose renderer calls
return, and strong fairness of `Pop`: a turn ends after 5 ms, and not every turn is
preempted for all of them before it takes its first request. `ControllerEngine`,
`TemperatureService` and `XrayEngine` assume strong fairness of each thread in the middle of
an operation: a thread that waits for a lock which is released again and again acquires it
in the end. A `threading.RLock` is not fair, but its holders release it between operations
that a user or a timer starts, hence the assumption. No operation is assumed to be started.
`StateSteps` assumes strong fairness of what the worker does in the wait of a point or a
command (it competes for the engine lock; a failure is not among it), weak fairness of a
poll in progress and of the deadline: time passes. A command without a timeout whose set
point the device has and the engine has not may wait until a Stop, which `EveryWaitEnds`
leaves out. `ParallelBranches` assumes weak fairness of the worker, strong fairness of the
end of a branch that runs, and weak fairness of a waiting branch that finds the stop event
set. `DisplayHost` assumes weak fairness of the worker in a selection and of a replacement
in progress, strong fairness of the two posted events: the Qt queue is served in order,
whatever the user does in between; a dialog serves it too. `GeneratedScript`, `MagnetEngine`
and `PressureEngine` have safety properties only.

**Assumptions about callers.** In the passing runs of `ControllerEngine` and
`TemperatureService` only the GUI thread disconnects, sets the polling rate and shuts
down: the panels do. Connecting, commanding and reading happen on any thread. A console
line may disconnect too (`Disconnecters`), which only the last table below is about. The
passing run of `TemperatureService` has the GUI thread and the poller only; its theorems
have any number of threads.
In `MagnetEngine`, `StateSteps` and `PressureEngine` the panel, the sequence and the timer
are one thread each, as in the application. In `DisplayHost` a script has at most one plot
outstanding, and the user cannot press a button under a modal dialog.
In `XrayEngine` synchronous moves and counts are called by threads of the sequence, since
the panel launches; everything else except the polling rate and shutdown is called by
any thread. A join with a timeout returns whether or not the thread has ended.
In `TemperatureService` the stability window has a duration above zero, so that a
window opened by a read is not complete in the same read.

## What the code does not keep

The run `discarded_selection` shows one: a script ahead of a selection finishes, and the tab
of the selection is discarded before it ran (`OnlySuccessfulDiscarded`; `PROJECT.json` quotes
the sentence). The others are stated in the modules, in the comment with the sentence of the
repository where there is one, and no run of the project holds them. Each was seen violated
by replacing the properties of the .cfg named here by the claim.

| Claim, with the .cfg | Behaviour |
|---|---|
| `StopHonouredAtNextLine`, `SequenceEngine` | Stop between `_running_script = True` and `_stop_event.clear()` (`core/sequence_engine.py:512`) is erased; the script runs on |
| `PauseHasNoEffectWhenIdle`, `SequenceEngine` | Pause races with the end of a script and leaves the engine paused with nothing running |
| `AllReleased`, `GeneratedScript` | connect and configure are emitted before `try:` (`core/sequence_engine.py:1966`); if one raises, what was connected stays open after the run |
| `ReleasedFirst`, `GeneratedScript` | Stop raised on the `try:` line or on the decrement in the `finally` of `tracked` leaves `_lifecycle_depth` above zero; from then on a repeated connect releases nothing first |
| `RunsOnItsDisplay`, `DisplayHost` | a script finds `factory_id` to be what it wants (`core/sequence_engine.py:822`) while a replacement is past its second idle check, or is done for a script that was stopped: the tracer raises before `host.py:292` cancels the request; it runs on the other display |
| `BusyKeepsDisplay`, `DisplayHost` | the dialog of a tab opens while a script is only queued and replaces the display after it has started (`app.py:1481`): `select_display_plugin` does not ask for an idle engine |
| `WaitsForAll`, `ParallelBranches` | a Stop raised while the pool joins its threads lets the `finally` of the script run under live branches |
| `PauseHolds`, `ParallelBranches` | the branches go on while the script is paused |
| `DisabledMeansQuiet`, `ControllerEngine` | connecting looks at the polling rate under the lock and starts the timer after it; a rate set to zero in between is ignored |
| `StoppedForGood`, `ControllerEngine` with `Disconnecters <- MCCallers` | a disconnect that gets the lock after shutdown turns STOPPED into DISCONNECTED |
| `SecondaryStableOnTarget`, `TemperatureService` with `Callers <- MCCallers` | a setpoint of the secondary commanded while its stability is judged (`service.py:260`) is answered with the stable flag of the old target |
| `SecondaryFresh`, the same | a setter of the secondary does not wait for the read that is past the secondary, and a later read shares that result |
| `SecondaryForgotten`, the same | the state of the secondary taken before a disconnect is stored back after it |
| `NoSharedEndpoint`, the same | two threads connecting the two slots to one endpoint both pass the check |
| `ReleasedStaysClosed`, `TemperatureService` | a shutdown in which one cleanup fails sets the status of the primary to ERROR (`service.py:370`): the primary, though released, is no longer STOPPED and a later connect is accepted |
| `FlagsAlwaysCurrent`, `MagnetEngine` | a driver that raises after it has taken a set point leaves the flags of the old one standing (`engine.py:631-639`), and a target stored before a driver that refused it is judged when the set point cannot be read (`engine.py:1100`) |
| `ReachedOrError`, `MagnetEngine` | a ramp that the check or the driver refuses is logged, not raised (`engine.py:801`); the scan takes the arrival at the old target for its own |
| `DisabledStays`, `PressureEngine` | disconnecting one device restarts the timer for the other, whatever the polling rate |
| `PollingIndependent`, `PressureEngine` | a connect of one device that fails, or finds the engine stopped, ends the polling of the other |
| `FlagsFollow`, `PressureEngine` | the error of a failed connect is flagged after the lock was released, over a connect that succeeded meanwhile |
| `CancelReaches`, `XrayEngine` | a cancel of a launched move still waiting for the lock is cleared by a count or move that takes the lock first (`engine.py:309`) |
| `MotionCompletes`, `XrayEngine` | a launched move that finds no driver leaves `moving` set, which neither reads nor a new connection reset |
| `StoppedForGood`, `XrayEngine` | a connect between the release and the STOPPED of shutdown leaves the engine connected |
| `ReachedIsReached`, `StateSteps` | a set point the magnet engine refuses is logged (`magnet_control/engine.py:801`) and the wait ends on the arrival at the old one; a sweep that gives up at its start timeout announces `state_reached` |

Seen while modelling, without a formula of their own. Sweeps: a Stop inside `_begin_sweep`
leaves the raised polling rate until the next sweep ends; the deadline of a sweep is not
looked at while it waits for its start; a point out of limits or timed out is measured all
the same. Magnet: a failed connect that replaces another keeps the old flags and reading;
the supply may move while the heater switches; `_quench_active` survives a reconnect;
`set_stability_config` resets the window without the lock, under a read that evaluates it.
Pressure: a new flow controller keeps the set point told to the old one. Display: a style
retained for a series that was removed is given to the next series of that name. Plugins:
`SystemExit` ends the worker thread.

The properties that hold in spite of them are stated beside: a Stop that is not erased
ends the script (`StopEndsScript`), without a Stop nothing is lost (`NothingLost`), a
`finally` that completes releases everything (`CleanRelease`), the promises of
the temperature service hold of the primary, a shutdown in which nothing fails leaves both
slots closed (`ShutdownReleasesBoth`), the flags are about the target until a command of the
magnet raises (`FlagsCurrent`), a wait whose set point was taken ends where it was asked
(`ReachedSinceAsked`), and a cancel that finds an operation of the
diffractometer at the driver stops it (`CancelHeard`).

## The proofs

`tlapm M.tla` in this directory. Each rests on the assumption of the module it is about
(`ConstantAssumption`, `ScriptAssumption`, `PlotAssumption`, `EngineAssumption`,
`ServiceAssumption`, `XrayAssumption`, `MagnetAssumption`, `StepsAssumption`,
`BranchesAssumption`, `PressureAssumption`, `HostAssumption`), which only says that
identities differ and bounds are natural numbers; the number of scripts, plugins, requests,
threads, loops and the bounds are arbitrary. In every module `IInv` is the inductive
invariant: `InitInvariant` proves `Init => IInv`, `StepInvariant` proves that every action
keeps it, one step for each action and one below for each part, and the theorems follow. A
property whose invariant is long and stands beside `IInv` has one of its own (`PollingInv`,
`ShutdownInv`, `GroupInv`, `OrderInv`), proved the same way from `IInv`.

`ParallelBranches`, `PressureEngine` and `DisplayHost` are proved about as named instances
(`Pool`, `Pressure`, `Host`) in the module of the component they belong to or resemble. That
module extends their state module, so that the invariants are the ones the runs check; the
lemmas have the instance's copy of the assumption as a hypothesis, which the theorem on the
inductive invariant discharges. Three theorems have a hypothesis:

- `ShutdownStays`: `Disconnecters \subseteq {Gui}`. Only the GUI thread disconnects, as the
  panels do and as the run has it; with a console line that disconnects, it fails (see
  above).
- `GroupsStop` and `TicketsImplemented`: `GroupsDisjoint`. No request is in two groups or
  twice in one: `request_id` is unique for each submission
  (`core/plotting/contracts.py:605`), and the service refuses one it has seen.

- **SequenceEngineProofs.** No property is inductive by itself: that `is_plot_idle` means
  quiet needs the count of tasks (`TaskAccounting`), what the worker holds at each line
  (`PlaceConsistent`), and that a script is in one of the queue, the worker's hands or its
  outcome (`FateConsistent`). `Implements` maps the engine to `ScriptRuns`: an item starts
  when `_exec_script` clears the stop event, so the item in hand before that still counts as
  waiting; every step is a step of the promise or stutters. `TabsStayLocked` needs
  `StatusFollows`: from the announcement of a script on, the last status on its way to the
  GUI is Running.
- **ParallelBranches.** `ReleasedAfter` and `FailuresReported` need each other and what the
  worker knows at its place (`WorkerKnows`): the branches it has collected succeeded, and
  with its tracer in place and no failure kept all of them did.
- **PlotServiceProofs.** A lost wakeup is excluded by `WakeOnTheWay` with the place of the
  GUI thread (`PlaceConsistent`); isolation of a replacement needs `PendingIsCurrent`, that
  what is outstanding was accepted for the current display. `GroupsStop` needs that the
  members of a group are queued and drawn in their order (`GroupQueued`, `GroupInOrder`),
  that those outstanding are known to the service as one group (`GroupKnown`), and that none
  is outstanding behind one that was not drawn (`GroupClosed`). `DrawnInTheirOrder` needs
  that the queue is in the order of acceptance, behind the request being applied
  (`QueueInOrder`), and that each was accepted once (`AcceptedOnce`). `TicketsImplemented`
  maps the dispatcher to `PlotTickets`: a request waits there while it is in `_pending`.
  Accepting is a submission, the status of the renderer an answer to the oldest waiting
  request, each of the cancellations takes the ends of the groups it meets, shutdown leaves
  nothing waiting because nothing is being applied, and all other steps stutter.
- **ControllerEngineProofs.** `FreshAnswers` needs `SharedIsFresh`: a result published since
  a reader took its revision is as new as its request, which needs the lock (`LockHeld`);
  `StableForTarget` needs `WindowForTarget` and that the engine never records more than the
  device executed. `Implementation` is the refinement of `FreshReads`. `PollingSurvives`
  needs `PollingInv`: unless a thread is in the middle of deciding it the timer is requested
  (`PollingWanted`), a connect that does not start it has found it requested or another
  thread about to (`ConnectWanted`), and a stopped session opens nothing (`StoppedBare`).
  `ShutdownStays` needs `ShutdownInv`: which of the stops of shutdown are done at which of
  its places.
- **TemperatureServiceProofs.** The same for the primary slot, with the cycle of the read
  and its local variables; it cannot be proved of the secondary, which the claims above
  show. `ShutdownReleases` needs that a slot shutdown has closed stays closed until it
  returns, the primary until its status is overwritten (`ClosedInOrder`): a STOPPED session
  refuses to open, and the GUI thread, which alone disconnects, is in shutdown.
- **GeneratedScriptProofs.** `ActsReady` needs that a plugin whose flags are set holds its
  handle (`ReadyHolds`); `NothingLost` needs that the depth counts the calls in progress
  (`Balanced`) and that a plugin with a handle knows it (`HandleKnown`), both only until a
  Stop; `CleanRelease` needs that the `finally` has closed what it has passed
  (`PassedReleased`), with any number of Stops.
- **XrayEngineProofs.** That the driver is there while an operation commands it and that a
  busy status ends follow from who holds the lock in which place (`LockHeld`), which
  `OneLaunched` extends to the threads of operations. `CancelIsHeard` is an action property:
  every place where the event is cleared needs the lock, which the operation at the driver
  holds.
- **PressureEngine.** `PressurePolled` needs what the timer was last asked and who is about
  to ask again (`TimerInv`); `PressureSetpointKept` that a read under way carries the set
  point the engine knows (`ReadsCarry`), which only the holder of the lock changes
  (`LockHeld`); `PressureReached` that while the command owes its flow neither the flow nor
  the latest state is the one it asked for (`CommandInv`). The flows and the threads that
  read are arbitrary.
- **DisplayHost.** `PlotsSurviveSwitching` needs the plots at each place of a replacement
  (`PlotsKept`). `AnswerStands` needs that requests are answered in the order of the scripts
  (`RequestsInOrder`), so that the one in progress is that of the script in hand or of one
  that was stopped; that a script which has not asked has no request anywhere
  (`RequestsOfTaken`); and that a replacement of the user which has passed its second check
  found the engine idle (`JobInv`). The displays, styles, series and number of scripts are
  arbitrary.
- **MagnetEngineProofs.** `FlagsCurrent` and `ReachedWhereAsked` need what a section under
  the lock has already found (`SectionOK`: the field it read, the target it compares with)
  and what the scan knows at its place (`ScanOK`: it ramped, and nobody else has commanded
  since); `FlagsCurrent` also that the window is about the target in force, inside a section
  too (`FlagsAimed`). `NoRampInTransition` and `HeaterMatched` are action properties from
  the same invariant. The fields, and which of the kinds of fault occur, are arbitrary.
- **StateStepsProofs.** `NewsHeeded` needs which read the worker may share (`ReadOK`) and
  that what a worker on its way to sleep has not heeded is being published (`NewsOK`);
  `ReachedSinceAsked` that as long as the device is on its way to a set point that was taken
  the engine has that set point too and nobody has found the device there (`OwedOK`);
  `RateKept` that the rate of the panel is the engine's or put aside by the sweep
  (`RateOK`). The set points, sweeps and rates are arbitrary.

Some theorems state properties that no run lists by name because another property of the run
implies them or rests on them: `BlockedOnlyWhilePaused`, `NoneLost`, `WakeOnTheWay`,
`OneResult`, `DrawnInOrder`, `FreshAnswers`, `PrimaryFresh`, `PrimaryForgotten`,
`BusyIsDriving` and each `IInv`. TLC agrees with them: they may be added to the .cfg of
their component.

## What is only model-checked, and what is not modelled

Liveness (`StopEndsScript`, `ShutdownDecidesEveryScript`, `EveryTicketFinishes`,
`ShutdownCompletes`, `EveryReadEnds`, `TicketsResolve`, `EveryWaitEnds`, `StopEnds`,
`SelectionEnds`) is out of the reach of the prover and stays with TLC. Every invariant and
every action property of the passing runs is proved. No `RECURSIVE` operator and no induction
over data is used.

Left out of the modules above: what a line of a script computes, except that it ends,
goes on or raises; `SystemExit`, which ends the worker thread; the interval of timers
and durations of windows (time is "some time"); the values of settings; `super()`
calls inside a lifecycle method; branches of Run Parallel, which run untraced; the
timer of the temperature service; the bookkeeping of series in the plot service; the
monitor-and-filter generator of sweeps; rates, limits and the magnet constant of the magnet;
preferences of displays.
Not modelled at all: rendering, formatting of commands for devices, floating-point
processing, views of the GUI, discovery of plugins and drivers. The reason for each
component is in `PROJECT.json`.

## The plan

Done, in this order: the sequence engine, generated scripts, plot service, controller
scheduling with the motor engine, temperature service, X-ray operations; then the magnet
engine, the steps that wait for an engine, the pressure engine, parallel branches and the
display host. Inductive invariants are proved of all of them.

Left, in order of weight:

1. `DisplayHost` composed with `PlotService`: the reservation of the dispatcher in detail, with
   several plots outstanding.
2. What `DisplayHost` promises a script that selects a display, as an abstract specification,
   with a proof that it implements it.
3. `StabilityWindow`: the window and the hold-off with explicit time, for motor, magnet and
   temperature, against a reference definition over the history of readings.
4. `InstrumentIO`: the lock of an endpoint, query and error queue under it, timeouts.
5. `PlotState`: series, chunks and surfaces under every request.
6. The monitor-and-filter sweep; pure algorithms: scan generators (points, flags and their
   caches), derivation of the delayed configuration, serializer round trip.
