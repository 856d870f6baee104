-------------------------- MODULE ControllerEngine --------------------------
(***************************************************************************)
(* The scheduling every single-device controller engine shares: the poller,*)
(* the coordinated read and the timer of core/controller_polling.py, with  *)
(* the session of src/stoner_measurement/motor_control/engine.py.          *)
(*                                                                         *)
(* Several threads command the device and read its state under one engine  *)
(* lock; a timer of the GUI thread schedules background reads; any thread  *)
(* may connect; the panels of the GUI thread set the polling rate and shut *)
(* the engine down.  A step ends where another thread can observe or       *)
(* change what the next one uses.  Angles, velocities and readings are     *)
(* abstracted to the number of commands the device has executed.           *)
(***************************************************************************)
EXTENDS Naturals

CONSTANTS
    Callers,         \* threads that use the engine, the GUI thread included
    Gui,             \* the owner of the timer
    Disconnecters,   \* the callers that disconnect: the GUI thread in this program
    Poller,          \* the worker of the scheduled reads
    MaxCommands,     \* bound on the commands explored
    MaxReads,        \* bound on the reads explored
    MaxDeliveries,   \* bound on the timer notifications in flight when an operation begins
    None

ASSUME EngineAssumption ==
    /\ Gui \in Callers /\ Poller \notin Callers /\ Disconnecters \subseteq Callers
    /\ None \notin Callers \cup {Poller} /\ None \notin Nat
    /\ MaxCommands \in Nat /\ MaxReads \in Nat /\ MaxDeliveries \in Nat

VARIABLES
    lock,        \* the holder of _engine_lock
    driver,      \* whether a driver is connected
    stopped,     \* status STOPPED
    rate,        \* whether the polling rate is above zero
    device,      \* commands the device has executed
    target,      \* the command the engine last recorded: _target_angle
    settling,    \* _at_target_since, with the target it was set for; None if unset
    stable,      \* _stable, with the target its window was opened for; None if FALSE
    revision,    \* poller.revision
    shared,      \* poller.result
    pending,     \* poller._pending
    closed,      \* poller._closed
    requested,   \* timer._requested_active
    posted,      \* notifications of the timer queued to its owner thread
    running,     \* whether the timer fires
    pc, rev, want, got, start   \* where each thread is, and its local variables

session == <<driver, stopped, rate>>
motion  == <<device, target, settling, stable>>
sharing == <<revision, shared>>
polling == <<pending, closed>>
timer   == <<requested, posted, running>>
locals  == <<rev, want, got, start>>
vars == <<lock, session, motion, sharing, polling, timer, pc, locals>>

Threads == Callers \cup {Poller}
Places  == {"idle", "scheduled", "wait", "reading", "returned", "commanding", "opening",
            "connecting", "closing", "starting", "stopping", "joining", "down"}

Goto(t, place) == pc' = [pc EXCEPT ![t] = place]

Init ==
    /\ lock = None
    /\ driver = FALSE /\ stopped = FALSE /\ rate = TRUE
    /\ device = 0 /\ target = 0 /\ settling = None /\ stable = None
    /\ revision = 0 /\ shared = None
    /\ pending = FALSE /\ closed = FALSE
    /\ requested = FALSE /\ posted = 0 /\ running = FALSE
    /\ pc = [t \in Threads |-> "idle"]
    /\ rev = [t \in Threads |-> 0] /\ want = [t \in Threads |-> 0]
    /\ got = [t \in Threads |-> None] /\ start = [t \in Threads |-> FALSE]

-----------------------------------------------------------------------------
(***************************************************************************)
(* The timer: every thread records the latest request, the owner thread    *)
(* applies it.                                                             *)
(***************************************************************************)
\* Mutant: a queued notification carries the request it was posted for.
TimerRequestBlind(t, active) ==
    /\ requested' = active
    /\ IF t = Gui THEN running' = active /\ UNCHANGED posted
       ELSE running' = (active \/ running) /\ UNCHANGED posted

\* start and stop of ControllerTimer, with their _dispatch.
TimerRequest(t, active) ==
    /\ requested' = active
    /\ IF t = Gui THEN running' = active /\ UNCHANGED posted
       ELSE posted' = posted + 1 /\ UNCHANGED running

\* The bound on the notifications in flight.
RoomForTimer(t) == t = Gui \/ posted < MaxDeliveries

\* _apply_request in the GUI event loop.
DeliverTimer ==
    /\ pc[Gui] \in {"idle", "down"} /\ posted > 0
    /\ posted' = posted - 1
    /\ running' = requested
    /\ UNCHANGED <<lock, session, motion, sharing, polling, requested, pc, locals>>

\* _poll: a timeout schedules a read, unless one is pending.
Tick ==
    /\ running /\ pc[Gui] = "idle"
    /\ ~pending /\ ~closed /\ revision < MaxReads
    /\ pending' = TRUE
    /\ Goto(Poller, "scheduled")
    /\ UNCHANGED <<lock, session, motion, sharing, closed, timer, locals>>

\* Mutant: the pending flag is kept.
SkipReadSilently ==
    /\ pc[Poller] = "scheduled" /\ closed
    /\ Goto(Poller, "idle")
    /\ UNCHANGED <<lock, session, motion, sharing, polling, timer, locals>>

\* _run: a poller closed in the meantime reads nothing.
SkipRead ==
    /\ pc[Poller] = "scheduled" /\ closed
    /\ pending' = FALSE
    /\ Goto(Poller, "idle")
    /\ UNCHANGED <<lock, session, motion, sharing, closed, timer, locals>>

-----------------------------------------------------------------------------
(***************************************************************************)
(* Coordinated reads.                                                      *)
(***************************************************************************)
\* Mutant: the revision is taken when the lock is: an overlapping read is never shared,
\* and the result of the previous one is returned in its place.
RequestLate(t) ==
    /\ \/ t \in Callers /\ pc[t] = "idle" /\ revision < MaxReads
       \/ t = Poller /\ pc[t] = "scheduled" /\ ~closed
    /\ rev' = [rev EXCEPT ![t] = IF revision > 0 THEN revision - 1 ELSE 0]
    /\ want' = [want EXCEPT ![t] = device]
    /\ Goto(t, "wait")
    /\ UNCHANGED <<lock, session, motion, sharing, polling, timer, got, start>>

Request(t) ==
    /\ \/ t \in Callers /\ pc[t] = "idle" /\ revision < MaxReads
       \/ t = Poller /\ pc[t] = "scheduled" /\ ~closed
    /\ rev' = [rev EXCEPT ![t] = revision]
    /\ want' = [want EXCEPT ![t] = device]
    /\ Goto(t, "wait")
    /\ UNCHANGED <<lock, session, motion, sharing, polling, timer, got, start>>

\* Mutant: the revision is not compared, the last result is always good enough.
ShareAlways(t) ==
    /\ pc[t] = "wait" /\ lock = None
    /\ got' = [got EXCEPT ![t] = shared]
    /\ Goto(t, "returned")
    /\ UNCHANGED <<lock, session, motion, sharing, polling, timer, rev, want, start>>

\* A read that completed since the request answers it.
Share(t) ==
    /\ pc[t] = "wait" /\ lock = None /\ revision # rev[t]
    /\ got' = [got EXCEPT ![t] = shared]
    /\ Goto(t, "returned")
    /\ UNCHANGED <<lock, session, motion, sharing, polling, timer, rev, want, start>>

StartRead(t) ==
    /\ pc[t] = "wait" /\ lock = None /\ revision = rev[t]
    /\ lock' = t
    /\ Goto(t, "reading")
    /\ UNCHANGED <<session, motion, sharing, polling, timer, locals>>

Publish(t, answer) ==
    /\ revision' = revision + 1
    /\ shared' = answer
    /\ got' = [got EXCEPT ![t] = answer]
    /\ lock' = None
    /\ Goto(t, "returned")
    /\ UNCHANGED <<session, device, target, polling, timer, rev, want, start>>

\* _evaluate_stability: at rest on the target for the whole window makes it stable; a
\* stable flag survives the holdoff.  A device that reports its target is judged on it.
Judge(at, settled, goal) ==
    /\ settling' = IF ~at THEN None ELSE IF settling = None THEN goal ELSE settling
    /\ IF at /\ settled
       THEN stable' = settling'
       ELSE stable' \in {None, stable}

ReadDevice(t) ==
    /\ pc[t] = "reading" /\ driver
    /\ \E at, settled \in BOOLEAN, goal \in {target, device} : Judge(at, settled, goal)
    /\ Publish(t, device)

\* A driver that failed, or none: the failure is shared too.
ReadFails(t) ==
    /\ pc[t] = "reading"
    /\ IF driver THEN settling' = None /\ stable' = None ELSE UNCHANGED <<settling, stable>>
    /\ Publish(t, None)

\* Mutant: the worker leaves the pending flag set.
ReturnPending(t) ==
    /\ pc[t] = "returned"
    /\ rev' = [rev EXCEPT ![t] = 0]
    /\ want' = [want EXCEPT ![t] = 0]
    /\ got' = [got EXCEPT ![t] = None]
    /\ Goto(t, "idle")
    /\ UNCHANGED <<lock, session, motion, sharing, polling, timer, start>>

\* The reader goes on, its locals gone; the poller's worker clears _pending.
Return(t) ==
    /\ pc[t] = "returned"
    /\ pending' = IF t = Poller THEN FALSE ELSE pending
    /\ rev' = [rev EXCEPT ![t] = 0]
    /\ want' = [want EXCEPT ![t] = 0]
    /\ got' = [got EXCEPT ![t] = None]
    /\ Goto(t, "idle")
    /\ UNCHANGED <<lock, session, motion, sharing, closed, timer, start>>

-----------------------------------------------------------------------------
(***************************************************************************)
(* Commands and the session.                                               *)
(***************************************************************************)
\* move_to_angle up to the driver's call: without a driver nothing happens.
Command(t) ==
    /\ pc[t] = "idle" /\ t \in Callers /\ lock = None /\ driver
    /\ device < MaxCommands
    /\ lock' = t
    /\ device' = device + 1
    /\ Goto(t, "commanding")
    /\ UNCHANGED <<session, target, settling, stable, sharing, polling, timer, locals>>

\* Mutant: the new target does not reset the stability.
CommandDoneUnmarked(t) ==
    /\ pc[t] = "commanding"
    /\ target' = device
    /\ lock' = None
    /\ Goto(t, "idle")
    /\ UNCHANGED <<session, device, settling, stable, sharing, polling, timer, locals>>

\* ... the target is recorded and _mark_target_pending resets the stability.
CommandDone(t) ==
    /\ pc[t] = "commanding"
    /\ target' = device
    /\ settling' = None /\ stable' = None
    /\ lock' = None
    /\ Goto(t, "idle")
    /\ UNCHANGED <<session, device, sharing, polling, timer, locals>>

\* ... or the driver raised after the device took the command.
CommandFails(t) ==
    /\ pc[t] = "commanding"
    /\ lock' = None
    /\ Goto(t, "idle")
    /\ UNCHANGED <<session, motion, sharing, polling, timer, locals>>

\* connect_instrument: the timer is stopped and the old driver disconnected ...
Connect(t) ==
    /\ pc[t] = "idle" /\ t \in Callers /\ lock = None /\ ~stopped
    /\ RoomForTimer(t)
    /\ lock' = t
    /\ TimerRequest(t, FALSE)
    /\ Goto(t, "opening")
    /\ UNCHANGED <<session, motion, sharing, polling, locals>>

\* ... the new one answers; whether polling starts is decided from the rate before
\* timer.start is called ...
Opened(t) ==
    /\ pc[t] = "opening"
    /\ driver' = TRUE /\ stopped' = FALSE
    /\ settling' = None /\ stable' = None
    /\ start' = [start EXCEPT ![t] = rate]
    /\ Goto(t, "connecting")
    /\ UNCHANGED <<lock, rate, device, target, sharing, polling, timer, rev, want, got>>

\* ... or it does not: the engine is left without a driver, its timer stopped.
OpenFails(t) ==
    /\ pc[t] = "opening"
    /\ driver' = FALSE /\ stopped' = FALSE
    /\ lock' = None
    /\ Goto(t, "idle")
    /\ UNCHANGED <<rate, motion, sharing, polling, timer, locals>>

\* Mutant: the timer is left stopped.
ConnectDoneIdle(t) ==
    /\ pc[t] = "connecting"
    /\ UNCHANGED timer
    /\ lock' = None
    /\ Goto(t, "idle")
    /\ UNCHANGED <<session, motion, sharing, polling, locals>>

ConnectDone(t) ==
    /\ pc[t] = "connecting"
    /\ IF start[t] THEN TimerRequest(t, TRUE) ELSE UNCHANGED timer
    /\ start' = [start EXCEPT ![t] = FALSE]
    /\ lock' = None
    /\ Goto(t, "idle")
    /\ UNCHANGED <<session, motion, sharing, polling, rev, want, got>>

\* disconnect_instrument: the timer first, without the lock.
Disconnect(t) ==
    /\ pc[t] = "idle" /\ t \in Disconnecters /\ RoomForTimer(t)
    /\ TimerRequest(t, FALSE)
    /\ Goto(t, "closing")
    /\ UNCHANGED <<lock, session, motion, sharing, polling, locals>>

\* ... then the driver is released, and the status is DISCONNECTED whatever it was.
DisconnectDone(t) ==
    /\ pc[t] = "closing" /\ lock = None
    /\ driver' = FALSE /\ stopped' = FALSE
    /\ settling' = None /\ stable' = None
    /\ Goto(t, "idle")
    /\ UNCHANGED <<lock, rate, device, target, sharing, polling, timer, locals>>

\* set_polling_rate, without the lock; above zero the driver is looked at before
\* timer.start is called.
DisablePolling ==
    /\ pc[Gui] = "idle" /\ rate
    /\ rate' = FALSE
    /\ TimerRequest(Gui, FALSE)
    /\ UNCHANGED <<lock, driver, stopped, motion, sharing, polling, pc, locals>>

EnablePolling ==
    /\ pc[Gui] = "idle" /\ ~rate
    /\ rate' = TRUE
    /\ IF driver /\ ~stopped THEN Goto(Gui, "starting") ELSE UNCHANGED pc
    /\ UNCHANGED <<lock, driver, stopped, motion, sharing, polling, timer, locals>>

StartPolling ==
    /\ pc[Gui] = "starting"
    /\ TimerRequest(Gui, TRUE)
    /\ Goto(Gui, "idle")
    /\ UNCHANGED <<lock, session, motion, sharing, polling, locals>>

\* shutdown: close the poller and stop the timer, release the driver, join the worker.
Shutdown ==
    /\ pc[Gui] = "idle" /\ ~stopped
    /\ closed' = TRUE
    /\ TimerRequest(Gui, FALSE)
    /\ Goto(Gui, "stopping")
    /\ UNCHANGED <<lock, session, motion, sharing, pending, locals>>

\* Mutant: the engine is not marked as stopped.
ShutdownReleaseOnly ==
    /\ pc[Gui] = "stopping" /\ lock = None
    /\ driver' = FALSE
    /\ Goto(Gui, "joining")
    /\ UNCHANGED <<lock, stopped, rate, motion, sharing, polling, timer, locals>>

ShutdownRelease ==
    /\ pc[Gui] = "stopping" /\ lock = None
    /\ driver' = FALSE /\ stopped' = TRUE
    /\ Goto(Gui, "joining")
    /\ UNCHANGED <<lock, rate, motion, sharing, polling, timer, locals>>

\* Mutant: the worker is not joined.
ShutdownUnjoined ==
    /\ pc[Gui] = "joining"
    /\ Goto(Gui, "down")
    /\ UNCHANGED <<lock, session, motion, sharing, polling, timer, locals>>

ShutdownJoin ==
    /\ pc[Gui] = "joining" /\ ~pending
    /\ Goto(Gui, "down")
    /\ UNCHANGED <<lock, session, motion, sharing, polling, timer, locals>>

-----------------------------------------------------------------------------
\* What a thread does to finish an operation it began.
Progress(t) ==
    \/ Share(t) \/ StartRead(t) \/ ReadDevice(t) \/ ReadFails(t) \/ Return(t)
    \/ CommandDone(t) \/ CommandFails(t) \/ Opened(t) \/ OpenFails(t) \/ ConnectDone(t)
    \/ DisconnectDone(t)

Begin(t) == Request(t) \/ Command(t) \/ Connect(t) \/ Disconnect(t)

GuiProgress == DeliverTimer \/ StartPolling \/ ShutdownRelease \/ ShutdownJoin
Poll == SkipRead \/ Request(Poller) \/ Progress(Poller)

Next ==
    \/ \E t \in Callers : Begin(t) \/ Progress(t)
    \/ Tick \/ Poll \/ GuiProgress \/ Shutdown \/ DisablePolling \/ EnablePolling

\* Every thread that began an operation is scheduled, and a thread that waits for the
\* engine lock is not overtaken for ever.
Spec ==
    /\ Init /\ [][Next]_vars
    /\ \A t \in Callers : SF_vars(Progress(t))
    /\ SF_vars(Poll) /\ SF_vars(GuiProgress)

-----------------------------------------------------------------------------
(***************************************************************************)
(* Properties.                                                             *)
(***************************************************************************)
\* The variables keep their types.
TypeOK ==
    /\ lock \in Threads \cup {None}
    /\ driver \in BOOLEAN /\ stopped \in BOOLEAN /\ rate \in BOOLEAN
    /\ device \in Nat /\ target \in Nat
    /\ settling \in Nat \cup {None} /\ stable \in Nat \cup {None}
    /\ revision \in Nat /\ shared \in Nat \cup {None}
    /\ pending \in BOOLEAN /\ closed \in BOOLEAN
    /\ requested \in BOOLEAN /\ posted \in Nat /\ running \in BOOLEAN
    /\ pc \in [Threads -> Places]
    /\ rev \in [Threads -> Nat] /\ want \in [Threads -> Nat]
    /\ got \in [Threads -> Nat \cup {None}] /\ start \in [Threads -> BOOLEAN]

\* A read requested after a command never answers with what the device was before it,
\* even when it shares the result of another thread's read.
FreshAnswers ==
    \A t \in Threads : pc[t] = "returned" /\ got[t] # None => want[t] <= got[t] /\ got[t] <= device

\* A stable flag was earned by a window opened for the last recorded command or a later
\* one: no part of the wait on an older target counts.
StableForTarget == stable # None => stable >= target

\* Commands and reads exclude each other: their steps hold the one engine lock.
LockHeld ==
    \A t \in Threads : lock = t <=> pc[t] \in {"reading", "commanding", "opening", "connecting"}

\* The timer obeys the latest request once its notifications are delivered, whatever the
\* order in which threads asked it to start and stop.
TimerFollows == posted = 0 => running = requested

Quiet == posted = 0 /\ \A t \in Threads : 
                      pc[t] \notin {"opening", "connecting", "closing", "starting", "stopping"}

\* Automatic polling does not silently end: with a driver and a rate, the timer runs.
PollingContinues == Quiet /\ driver /\ rate => running

\* An engine that was shut down owns no driver and has no scheduled read, whatever the
\* other threads were connecting or reading.
ShutdownIsFinal == pc[Gui] = "down" => ~driver /\ ~pending /\ pc[Poller] = "idle"

\* Every scheduled read ends, so that the next timeout can schedule another.
ScheduledReadEnds == pending ~> ~pending

\* shutdown returns: neither the engine lock nor the join keeps it for ever.
ShutdownCompletes == pc[Gui] = "stopping" ~> pc[Gui] = "down"

\* The error of connect_instrument: an engine that has been shut down cannot accept new
\* connections.
StoppedForGood == [][stopped => stopped']_vars

\* The rig documentation: a zero polling rate stops automatic reads.
DisabledMeansQuiet == Quiet /\ ~rate => ~running

-----------------------------------------------------------------------------
(***************************************************************************)
(* The engine implements FreshReads.                                       *)
(***************************************************************************)
Phase(place) == CASE place \in {"wait", "reading"} -> "asked"
                  [] place = "returned" -> "answered"
                  [] OTHER -> "idle"

Phases == [t \in Threads |-> Phase(pc[t])]

Promise == INSTANCE FreshReads WITH
    Readers <- Threads, Nothing <- None, device <- device,
    phase <- Phases, asked <- want, answer <- got

\* Every read answers with a state the device had between the request and the answer.
ImplementsFreshReads == Promise!Spec

-----------------------------------------------------------------------------
(***************************************************************************)
(* What the proofs of ControllerEngineProofs need beside these.            *)
(***************************************************************************)
\* A result published since a reader's request is as new as the request.
SharedIsFresh ==
    /\ shared # None => shared <= device
    /\ \A t \in Threads :
           /\ want[t] <= device
           /\ pc[t] \in {"wait", "reading"} =>
                  /\ rev[t] <= revision
                  /\ revision # rev[t] /\ shared # None => want[t] <= shared
           /\ pc[t] = "reading" => rev[t] = revision

\* The engine never records more commands than the device executed.
TargetBehind == target <= device

\* A window of stability was opened for the recorded target or for a later one.
WindowForTarget == settling # None => settling >= target

\* The poller's worker runs only while a read is pending.
WorkerPending ==
    /\ pc[Poller] \in {"idle", "scheduled", "wait", "reading", "returned"}
    /\ pending <=> pc[Poller] # "idle"
    /\ \A t \in Callers : pc[t] # "scheduled"

\* The operations that will still decide about the timer, or about the driver.
Deciding == {"opening", "connecting", "closing", "starting", "stopping"}

\* With a driver and a rate the latest request is to run, or an operation will still make it.
PollingWanted == driver /\ rate /\ (\A t \in Threads : pc[t] \notin Deciding) => requested

\* A connect that found the rate at zero has nothing to start, unless the rate was set since:
\* then set_polling_rate starts the timer, or has done so.
ConnectWanted ==
    \A t \in Threads : pc[t] = "connecting" =>
        /\ driver
        /\ \/ start[t] \/ ~rate \/ requested
           \/ \E u \in Threads : pc[u] \in {"closing", "starting", "stopping"}

\* A stopped engine has no driver, and nobody is connecting one.
StoppedBare == stopped => ~driver /\ \A t \in Threads : pc[t] \notin {"opening", "connecting"}

PollingInv == PollingWanted /\ ConnectWanted /\ StoppedBare

\* What a shutdown has done stays done, where the GUI thread alone disconnects.
ShutdownInv ==
    /\ \A t \in Threads : pc[t] = "closing" => t = Gui
    /\ pc[Gui] \in {"joining", "down"} => stopped
    /\ pc[Gui] \in {"stopping", "joining", "down"} => closed
    /\ pc[Gui] = "down" => ~pending

\* The inductive invariant.
IInv ==
    /\ TypeOK /\ LockHeld /\ FreshAnswers /\ SharedIsFresh /\ TargetBehind /\ WindowForTarget
    /\ StableForTarget
    /\ WorkerPending /\ TimerFollows
=============================================================================
