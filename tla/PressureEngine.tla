--------------------------- MODULE PressureEngine ---------------------------
(***************************************************************************)
(* The pressure engine, src/stoner_measurement/pressure_control/engine.py: *)
(* a gauge and a mass-flow controller, connected and lost one without the  *)
(* other, behind one lock and one timer; and the Set Flow command that     *)
(* waits for the flow (plugins/command/pressure_set_flow.py).              *)
(*                                                                         *)
(* The panel and the status bar act in the GUI thread, monitors and        *)
(* commands in the worker of the sequence, the timer's reads in a thread   *)
(* of their own.  The error flags and the status are also written without  *)
(* the lock, by the handlers around a connect and by set_polling_rate.     *)
(* Of the status there is whether it is STOPPED, the rest is shown only.   *)
(* Sharing of overlapping reads is in ControllerEngine: here a read that   *)
(* shares changes nothing.  A reading of the gauge is only that it worked; *)
(* a flow is one of a few values.                                          *)
(***************************************************************************)
EXTENDS PressureState

Threads == Users \cup {Poller}

flags   == <<errors, failed>>
session == <<drivers, stopped, rate, closed>>
timer   == <<requested, posted, running>>
device  == <<flow, programmed>>
flows   == <<known, accepted>>
command == <<news, latest, asked, owed>>
locals  == <<dev, start, derived, carried>>
vars == <<holder, session, flags, timer, starved, device, flows, place, locals, command>>

Init ==
    /\ holder = Nothing /\ drivers = {} /\ errors = {} /\ stopped = FALSE /\ rate = TRUE
    /\ closed = FALSE /\ known = Nothing /\ latest = Nothing
    /\ requested = FALSE /\ posted = 0 /\ running = FALSE /\ starved = FALSE
    /\ flow \in Flows /\ programmed = flow
    /\ place = [t \in Threads |-> "idle"] /\ dev = [t \in Users |-> Nothing]
    /\ start = FALSE /\ derived = [t \in Users |-> FALSE] /\ carried = Nothing
    /\ news = FALSE /\ asked = Nothing /\ owed = FALSE
    /\ accepted = Nothing /\ failed = {}

Goto(t, p) == place' = [place EXCEPT ![t] = p]
Hold(t, d) == dev' = [dev EXCEPT ![t] = d]

\* start and stop of ControllerTimer.
TimerRequest(t, active) ==
    /\ requested' = active
    /\ IF t = Panel THEN running' = active /\ UNCHANGED posted
       ELSE posted' = posted + 1 /\ UNCHANGED running

TimerStart(t) == TimerRequest(t, TRUE) /\ starved' = FALSE
NoTimer == UNCHANGED <<timer, starved>>
RoomForTimer(t) == t = Panel \/ posted < MaxDeliveries

\* _apply_request in the GUI event loop.
DeliverTimer ==
    /\ place[Panel] \in {"idle", "down"} /\ posted > 0
    /\ posted' = posted - 1
    /\ running' = requested
    /\ UNCHANGED <<holder, session, flags, requested, starved, device, flows, place, locals, command>>

-----------------------------------------------------------------------------
(***************************************************************************)
(* Connections.                                                            *)
(***************************************************************************)
\* A user of the engine that may begin something.
Free(t) == t \in Users /\ place[t] = "idle"

Flag(d)   == errors' = errors \cup {d} /\ failed' = failed \cup {d}

\* Mutant: the flag of both devices is cleared.
UnflagAll(d) == errors' = {} /\ failed' = failed \ {d}

Unflag(d) == errors' = errors \ {d} /\ failed' = failed \ {d}

\* connect_instrument and connect_mfc_instrument: the timer is stopped for both devices, an
\* older driver is disconnected ...
Connect(t, d) ==
    /\ Free(t) /\ holder = Nothing /\ ~stopped
    /\ RoomForTimer(t)
    /\ holder' = t
    /\ TimerRequest(t, FALSE)
    /\ Goto(t, "opening") /\ Hold(t, d)
    /\ UNCHANGED <<session, flags, starved, device, flows, start, derived, carried, command>>

\* ... the new one does not answer: the timer stays stopped ...
OpenFails(t) ==
    /\ place[t] = "opening"
    /\ drivers' = drivers \ {dev[t]} /\ Flag(dev[t])
    /\ holder' = Nothing /\ starved' = TRUE
    /\ Goto(t, "blaming")
    /\ UNCHANGED <<stopped, rate, closed, timer, device, flows, locals, command>>

\* ... or it does, and the polling rate decides whether the timer starts.
Opened(t) ==
    /\ place[t] = "opening"
    /\ drivers' = drivers \cup {dev[t]} /\ Unflag(dev[t])
    /\ start' = rate
    /\ Goto(t, "connecting")
    /\ UNCHANGED <<holder, stopped, rate, closed, timer, starved, device, flows, dev, derived, carried,
                   command>>

ConnectDone(t) ==
    /\ place[t] = "connecting"
    /\ IF start THEN TimerStart(t) ELSE NoTimer
    /\ start' = FALSE /\ Hold(t, Nothing)
    /\ holder' = Nothing
    /\ Goto(t, "idle")
    /\ UNCHANGED <<session, flags, device, flows, derived, carried, command>>

\* The handler in connect_driver, without the lock: the flag, and the status it derives, ...
Blame(t, d) ==
    /\ errors' = errors \cup {d}
    /\ derived' = [derived EXCEPT ![t] = stopped] /\ Hold(t, Nothing)
    /\ Goto(t, "setting")
    /\ UNCHANGED <<holder, session, failed, timer, starved, device, flows, start, carried, command>>

\* ... of a connect the engine did not take,
Refused(t) == place[t] = "blaming" /\ Blame(t, dev[t])

\* or that fails before it gets to the engine, or is refused by a stopped one; ...
Misconfigured(t, d) == Free(t) /\ Blame(t, d)

\* ... which it sets, as set_polling_rate does.
SetStatus(t) ==
    /\ place[t] = "setting"
    /\ stopped' = derived[t] /\ derived' = [derived EXCEPT ![t] = FALSE]
    /\ Goto(t, "idle")
    /\ UNCHANGED <<holder, drivers, rate, closed, flags, timer, starved, device, flows, dev, start, carried,
                   command>>

\* disconnect_instrument and disconnect_mfc_instrument: the timer is stopped for both, without
\* the lock ...
Disconnect(d) ==
    /\ Free(Panel)
    /\ TimerRequest(Panel, FALSE)
    /\ Goto(Panel, "closing") /\ Hold(Panel, d)
    /\ UNCHANGED <<holder, session, flags, starved, device, flows, start, derived, carried, command>>

\* What was known of the flow is forgotten.
ForgetFlow == known' = Nothing /\ accepted' = Nothing /\ latest' = Nothing

\* Mutant: the timer is left stopped for the device that stays.
RestartNever == NoTimer

\* For the device that stays the timer starts again, at any rate.
Restart == IF drivers' # {} THEN TimerStart(Panel) ELSE NoTimer

\* ... then the driver is released under it.
DisconnectDone(d) ==
    /\ place[Panel] = "closing" /\ holder = Nothing /\ dev[Panel] = d
    /\ drivers' = drivers \ {d} /\ Unflag(d)
    /\ IF d = "mfc" THEN ForgetFlow ELSE UNCHANGED <<flows, latest>>
    /\ Restart
    /\ Hold(Panel, Nothing)
    /\ Goto(Panel, "idle")
    /\ UNCHANGED <<holder, stopped, rate, closed, device, start, derived, carried, news, asked, owed>>

-----------------------------------------------------------------------------
(***************************************************************************)
(* The polling rate and the end.                                           *)
(***************************************************************************)
\* set_polling_rate, without the lock.
DisablePolling ==
    /\ Free(Panel) /\ rate
    /\ rate' = FALSE
    /\ TimerRequest(Panel, FALSE)
    /\ derived' = [derived EXCEPT ![Panel] = stopped]
    /\ Goto(Panel, "setting")
    /\ UNCHANGED <<holder, drivers, stopped, closed, flags, starved, device, flows, dev, start, carried, command>>

EnablePolling ==
    /\ Free(Panel) /\ ~rate
    /\ rate' = TRUE
    /\ IF drivers # {} /\ ~stopped THEN Goto(Panel, "starting") ELSE UNCHANGED place
    /\ UNCHANGED <<holder, drivers, stopped, closed, flags, timer, starved, device, flows, locals, command>>

StartPolling ==
    /\ place[Panel] = "starting"
    /\ TimerStart(Panel)
    /\ Goto(Panel, "idle")
    /\ UNCHANGED <<holder, session, flags, device, flows, locals, command>>

\* shutdown: no more reads, then everything is released under the lock.
Shutdown ==
    /\ Free(Panel)
    /\ closed' = TRUE
    /\ TimerRequest(Panel, FALSE)
    /\ Goto(Panel, "stopping")
    /\ UNCHANGED <<holder, drivers, stopped, rate, flags, starved, device, flows, locals, command>>

ShutdownRelease ==
    /\ place[Panel] = "stopping" /\ holder = Nothing
    /\ drivers' = {} /\ errors' = {} /\ failed' = {} /\ stopped' = TRUE
    /\ ForgetFlow
    /\ Goto(Panel, "down")
    /\ UNCHANGED <<holder, rate, closed, timer, starved, device, locals, news, asked, owed>>

-----------------------------------------------------------------------------
(***************************************************************************)
(* Reads.                                                                  *)
(***************************************************************************)
\* A read takes the lock and copies the set points.
BeginRead(t, next) ==
    /\ holder = Nothing /\ holder' = t
    /\ carried' = known
    /\ Goto(t, next)
    /\ UNCHANGED <<session, flags, timer, starved, device, flows, dev, start, derived, command>>

\* read_controller_state: of the panel or a monitor, or scheduled by the timer.
Read(t) ==
    /\ t \in Readers /\ place[t] = "idle"
    /\ t = Poller => running /\ ~closed
    /\ drivers # {}
    /\ BeginRead(t, "reading")

\* Mutant: the read of a command does not take the lock.
ReadFlowUnlocked ==
    /\ place[Worker] = "refreshing"
    /\ carried' = known
    /\ Goto(Worker, "answering")
    /\ UNCHANGED <<holder, session, flags, timer, starved, device, flows, dev, start, derived, command>>

\* read_flow_state, of a command.
ReadFlow == place[Worker] = "refreshing" /\ BeginRead(Worker, "answering")

\* _read_mfc_values: the flow it finds.  A set point that is not known is taken from the
\* device, if it tells, and the copy becomes what is known; a failure keeps neither.
MfcValues(good, found) ==
    \/ /\ good /\ found = flow
       /\ known' \in IF carried = Nothing THEN {Nothing, programmed} ELSE {carried}
    \/ ~good /\ found = Nothing /\ UNCHANGED known

\* _latest_state and the revision, for the command that waits.
Publish(found) ==
    IF asked = Nothing THEN UNCHANGED <<news, latest>> ELSE news' = TRUE /\ latest' = found

\* _read_pressure_values and _read_mfc_values: each device that is connected answers or fails,
\* and is flagged or not; then the state and the news, before the lock is released.
ReadDone(t) ==
    /\ place[t] = "reading"
    /\ \E good \in SUBSET drivers, found \in Flows \cup {Nothing} :
         /\ errors' = (errors \ good) \cup (drivers \ good)
         /\ failed' = (failed \ good) \cup (drivers \ good)
         /\ MfcValues("mfc" \in good, found)
         /\ Publish(found)
    /\ carried' = Nothing /\ holder' = Nothing
    /\ Goto(t, "idle")
    /\ UNCHANGED <<session, timer, starved, device, accepted, dev, start, derived, asked, owed>>

-----------------------------------------------------------------------------
(***************************************************************************)
(* The flow.                                                               *)
(***************************************************************************)
Move ==
    /\ flow # programmed
    /\ flow' = programmed
    /\ owed' = (owed /\ programmed # asked)
    /\ UNCHANGED <<holder, session, flags, timer, starved, programmed, flows, place, locals, news, latest, asked>>

\* set_flow_rate: the driver takes the command, and the engine records it; ...
Program(v) ==
    /\ holder = Nothing /\ "mfc" \in drivers
    /\ programmed' = v /\ known' = v /\ accepted' = v

\* ... or the driver raises, before or after the device has taken it.
ProgramFails(v) ==
    /\ holder = Nothing /\ "mfc" \in drivers
    /\ programmed' \in {programmed, v}
    /\ UNCHANGED flows

\* The panel sets a flow, and the one of the command in progress need not come.
PanelFlow(v) ==
    /\ Free(Panel)
    /\ Program(v) \/ ProgramFails(v)
    /\ owed' = FALSE
    /\ UNCHANGED <<holder, session, flags, timer, starved, flow, place, locals, news, latest, asked>>

\* A command that has ended leaves nothing behind.
EndCommand ==
    /\ Goto(Worker, "idle")
    /\ news' = FALSE /\ latest' = Nothing /\ asked' = Nothing /\ owed' = FALSE

\* execute of SetEngineStateCommand with the steps of PressureSetFlowCommand: the MFC is there,
\* or has been connected by Connect(Worker, "mfc").
SetFlow(v) ==
    /\ Free(Worker) /\ "mfc" \in drivers
    /\ asked' = v
    /\ Goto(Worker, "commanding")
    /\ UNCHANGED <<holder, session, flags, timer, starved, device, flows, locals, news, latest, owed>>

\* It may have gone since, then the command fails.
WorkerCommand ==
    /\ place[Worker] = "commanding" /\ holder = Nothing
    /\ \/ /\ Program(asked) /\ owed' = (flow # asked)
          /\ Goto(Worker, "marking") /\ UNCHANGED <<news, latest, asked>>
       \/ ProgramFails(asked) /\ EndCommand
       \/ "mfc" \notin drivers /\ EndCommand /\ UNCHANGED <<programmed, flows>>
    /\ UNCHANGED <<holder, session, flags, timer, starved, flow, locals>>

\* Mutant: the revision is from before the command.
MarkNothing ==
    /\ place[Worker] = "marking"
    /\ Goto(Worker, "refreshing")
    /\ UNCHANGED <<holder, session, flags, timer, starved, device, flows, locals, command>>

\* revision = updates.revision, then a read of its own.
Mark ==
    /\ place[Worker] = "marking"
    /\ news' = FALSE /\ latest' = Nothing
    /\ Goto(Worker, "refreshing")
    /\ UNCHANGED <<holder, session, flags, timer, starved, device, flows, locals, asked, owed>>

\* _target_reached, of the flow the command has seen.
Judge(seen) ==
    /\ Goto(Worker, IF seen = asked THEN "reached" ELSE "waiting")
    /\ UNCHANGED <<asked, owed>>

\* The answer of read_flow_state is for the command alone.  A wait may also end by its timeout
\* or the Stop, or is not asked for.
Answer ==
    /\ place[Worker] = "answering"
    /\ \E good \in BOOLEAN, found \in Flows \cup {Nothing} :
         /\ good => "mfc" \in drivers
         /\ IF "mfc" \notin drivers THEN UNCHANGED flags ELSE IF good THEN Unflag("mfc") ELSE Flag("mfc")
         /\ MfcValues(good, found)
         /\ \/ Judge(found) /\ UNCHANGED <<news, latest>>
            \/ EndCommand
    /\ carried' = Nothing /\ holder' = Nothing
    /\ UNCHANGED <<session, timer, starved, device, accepted, dev, start, derived>>

Reached ==
    /\ place[Worker] = "reached" /\ EndCommand
    /\ UNCHANGED <<holder, session, flags, timer, starved, device, flows, locals>>

\* updates.wait: there is news, and the command takes the latest state; ...
TakeNews ==
    /\ place[Worker] = "waiting" /\ news
    /\ \/ Judge(latest) /\ news' = FALSE /\ latest' = Nothing
       \/ EndCommand
    /\ UNCHANGED <<holder, session, flags, timer, starved, device, flows, locals>>

\* ... or the interval has passed, and it reads again.
ReadAgain ==
    /\ place[Worker] = "waiting" /\ ~news
    /\ Goto(Worker, "marking")
    /\ UNCHANGED <<holder, session, flags, timer, starved, device, flows, locals, command>>

\* The Stop is raised in the worker, wherever it is: a lock it holds is released, a connect
\* it was in is left where it was.
Interrupt ==
    /\ place[Worker] # "idle"
    /\ starved' = (starved \/ place[Worker] \in {"opening", "connecting"})
    /\ IF holder = Worker THEN holder' = Nothing /\ start' = FALSE /\ carried' = Nothing
       ELSE UNCHANGED <<holder, start, carried>>
    /\ Hold(Worker, Nothing) /\ derived' = [derived EXCEPT ![Worker] = FALSE]
    /\ EndCommand
    /\ UNCHANGED <<session, flags, timer, device, flows>>

-----------------------------------------------------------------------------
ConnectStep(t) ==
    \/ \E d \in Devices : Misconfigured(t, d) \/ Connect(t, d)
    \/ OpenFails(t) \/ Opened(t) \/ ConnectDone(t) \/ Refused(t) \/ SetStatus(t)

GuiStep ==
    \/ \E d \in Devices : Disconnect(d) \/ DisconnectDone(d)
    \/ DisablePolling \/ EnablePolling \/ StartPolling \/ Shutdown \/ ShutdownRelease
    \/ \E v \in Flows : PanelFlow(v)

WorkerStep ==
    \/ \E v \in Flows : SetFlow(v)
    \/ WorkerCommand \/ Mark \/ ReadFlow \/ Answer \/ Reached \/ TakeNews \/ ReadAgain \/ Interrupt

Next ==
    \/ Move \/ DeliverTimer
    \/ \E t \in Users : ConnectStep(t)
    \/ \E t \in Threads : Read(t) \/ ReadDone(t)
    \/ GuiStep \/ WorkerStep

Spec == Init /\ [][Next]_vars

-----------------------------------------------------------------------------
(***************************************************************************)
(* Claims of the repository that the code does not keep.                   *)
(***************************************************************************)
\* docs/rig_controls.rst: "Disabled or zero stops automatic reads while retaining the
\* connection".  But the timer starts again for the device that stays.
DisabledStays == Quiet /\ ~rate => ~running

\* docs/pressure_controllers.rst: "Their sessions are independent".  But a connect of one
\* device that fails, or is stopped, ends the polling of the other.
PollingIndependent == Quiet /\ drivers # {} /\ rate => running

\* pressure_has_error: "Whether the pressure-controller connection or latest read failed."
\* But the handler flags a device that has been disconnected, or has answered, since.
FlagsFollow == (\A t \in Users : place[t] # "blaming") => errors \subseteq failed

-----------------------------------------------------------------------------
(***************************************************************************)
(* What the proofs need beside these.                                      *)
(***************************************************************************)
Locking    == {"opening", "connecting", "reading", "answering"}
Commanding == {"commanding", "marking", "refreshing", "answering", "waiting", "reached"}
Places == Locking \cup Commanding
          \cup {"idle", "blaming", "setting", "closing", "starting", "stopping", "down"}

ThreadTypes ==
    /\ holder \in Threads \cup {Nothing}
    /\ place \in [Threads -> Places] /\ dev \in [Users -> Devices \cup {Nothing}]
    /\ derived \in [Users -> BOOLEAN]

FlowTypes ==
    /\ flow \in Flows /\ programmed \in Flows
    /\ {known, latest, carried, asked, accepted} \subseteq Flows \cup {Nothing}

DeviceTypes == drivers \subseteq Devices /\ errors \subseteq Devices /\ failed \subseteq Devices

TimerTypes ==
    /\ requested \in BOOLEAN /\ posted \in Nat /\ running \in BOOLEAN /\ starved \in BOOLEAN
    /\ stopped \in BOOLEAN /\ rate \in BOOLEAN /\ closed \in BOOLEAN /\ start \in BOOLEAN
    /\ news \in BOOLEAN /\ owed \in BOOLEAN

\* The variables keep their types.
TypeOK == ThreadTypes /\ FlowTypes /\ DeviceTypes /\ TimerTypes

\* Who holds the lock, and that a connect knows its device.
LockHeld ==
    /\ \A t \in Threads : holder = t <=> place[t] \in Locking
    /\ \A t \in Users : place[t] \in {"opening", "blaming"} => dev[t] \in Devices

\* A read under way has the set point the engine knows.
ReadsCarry == \A t \in Threads : place[t] \in {"reading", "answering"} => carried = known

\* A command in progress has its set point; as long as the flow has still to come there,
\* neither the device nor the news since the command shows it.
CommandInv ==
    /\ place[Worker] \in Commanding => asked # Nothing
    /\ owed => place[Worker] \in Commanding \ {"commanding", "reached"} /\ flow # asked
    /\ owed /\ place[Worker] # "marking" => latest # asked

\* A timer that should fire is requested, or a thread is on its way to request it.
TimerInv ==
    /\ posted = 0 => running = requested
    /\ stopped \/ (\E t \in Users : derived[t]) => place[Panel] = "down"
    /\ drivers # {} /\ rate /\ ~starved =>
           \/ requested
           \/ place[Panel] \in {"closing", "starting", "stopping"}
           \/ \E t \in Users : place[t] = "opening" \/ (place[t] = "connecting" /\ start)

\* The inductive invariant.
IInv == TypeOK /\ LockHeld /\ ReadsCarry /\ CommandInv /\ TimerInv /\ FailureShown /\ SetpointKept
=============================================================================
