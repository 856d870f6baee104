------------------------- MODULE TemperatureService -------------------------
(***************************************************************************)
(* The temperature service: temperature_control/service.py over two        *)
(* controller sessions of temperature_control/engine.py, the primary and   *)
(* the secondary slot, each with a control loop.                           *)
(*                                                                         *)
(* A coordinated read holds the lock of the primary session throughout: it *)
(* reads the primary, reads the secondary under the lock of that session,  *)
(* judges the stability of both and publishes one answer.  Setters,        *)
(* connects and disconnects take the lock of their own slot only, so they  *)
(* may fall between any two steps the read makes on the secondary.         *)
(* Temperatures are abstracted to the number of commands the device of the *)
(* slot has executed; a stability flag carries the command its window was  *)
(* opened for.                                                             *)
(***************************************************************************)
EXTENDS Naturals

CONSTANTS
    Callers,       \* threads that use the service, the GUI thread included
    Gui,           \* the thread that shuts the service down
    Poller,        \* the worker of the scheduled reads
    Ports,         \* the physical endpoints a controller can be on
    MaxCommands,   \* bound on the commands of each slot
    MaxReads,      \* bound on the reads explored
    None

ASSUME ServiceAssumption ==
    /\ Gui \in Callers /\ Poller \notin Callers
    /\ None \notin Callers \cup {Poller} /\ None \notin Nat /\ None \notin Ports
    /\ MaxCommands \in Nat /\ MaxReads \in Nat

VARIABLES
    lock,       \* the holder of each session's _engine_lock
    port,       \* the endpoint of each session's driver
    stopped,    \* status STOPPED of each session
    device,     \* commands the device of each slot has executed
    target,     \* _target_setpoints
    settling,   \* _at_setpoint_since, with the command it was set for
    stable,     \* _stable, with the command its window was opened for
    cache,      \* _latest_state: the command it was read after, and its stable flag
    revision,   \* poller.revision
    shared,     \* poller.result
    closed,     \* poller._closed
    failed,     \* slots whose cleanup failed in the last shutdown
    pc,         \* where each thread is
    rev, want, got,   \* the locals of its read
    job,        \* the slot and the endpoint of its command or connection
    cycle       \* the locals of the read in progress: state, goal, verdict

session == <<port, stopped>>
control == <<device, target, settling, stable, cache>>
sharing == <<revision, shared>>
down    == <<closed, failed>>
locals  == <<rev, want, got>>
vars == <<lock, session, control, sharing, down, pc, locals, job, cycle>>

Slots   == {"primary", "secondary"}
Threads == Callers \cup {Poller}
Places  == {"idle", "wait", "primary", "secondary", "judging", "snapshot", "target", "window",
            "flag", "store", "publish", "returned", "commanding", "opening", "joining",
            "closing secondary", "closing primary", "ending", "down"}
Empty   == [read |-> None, stable |-> None]
Blank   == [s \in Slots |-> None]
NoJob   == [slot |-> "primary", port |-> None]
NoCycle == [state |-> Empty, goal |-> None, verdict |-> None]
Other(s) == IF s = "primary" THEN "secondary" ELSE "primary"

Goto(t, place) == pc' = [pc EXCEPT ![t] = place]

Init ==
    /\ lock = Blank /\ port = Blank
    /\ stopped = [s \in Slots |-> FALSE]
    /\ device = [s \in Slots |-> 0]
    /\ target = Blank /\ settling = Blank /\ stable = Blank
    /\ cache = [s \in Slots |-> Empty]
    /\ revision = 0 /\ shared = Blank
    /\ closed = FALSE /\ failed = {}
    /\ pc = [t \in Threads |-> "idle"]
    /\ rev = [t \in Threads |-> 0]
    /\ want = [t \in Threads |-> [s \in Slots |-> 0]]
    /\ got = [t \in Threads |-> Blank]
    /\ job = [t \in Threads |-> NoJob]
    /\ cycle = NoCycle

\* Mutant: the measurements are discarded, the stability is not.
InvalidateReading(s) ==
    /\ cache' = [cache EXCEPT ![s].read = None]
    /\ UNCHANGED <<settling, stable>>

\* _invalidate_state, and the resets beside it.
Invalidate(s) ==
    /\ settling' = [settling EXCEPT ![s] = None]
    /\ stable' = [stable EXCEPT ![s] = None]
    /\ cache' = [cache EXCEPT ![s] = Empty]

-----------------------------------------------------------------------------
(***************************************************************************)
(* The coordinated read of the service.                                    *)
(***************************************************************************)
Request(t) ==
    /\ pc[t] = "idle" /\ revision < MaxReads
    /\ t = Poller => ~closed
    /\ rev' = [rev EXCEPT ![t] = revision]
    /\ want' = [want EXCEPT ![t] = device]
    /\ Goto(t, "wait")
    /\ UNCHANGED <<lock, session, control, sharing, down, got, job, cycle>>

\* Mutant: the revision is not compared.
ShareAlways(t) ==
    /\ pc[t] = "wait" /\ lock["primary"] = None
    /\ got' = [got EXCEPT ![t] = shared]
    /\ Goto(t, "returned")
    /\ UNCHANGED <<lock, session, control, sharing, down, rev, want, job, cycle>>

\* A read that completed since the request answers it.
Share(t) ==
    /\ pc[t] = "wait" /\ lock["primary"] = None /\ revision # rev[t]
    /\ got' = [got EXCEPT ![t] = shared]
    /\ Goto(t, "returned")
    /\ UNCHANGED <<lock, session, control, sharing, down, rev, want, job, cycle>>

StartCycle(t) ==
    /\ pc[t] = "wait" /\ lock["primary"] = None /\ revision = rev[t]
    /\ lock' = [lock EXCEPT !["primary"] = t]
    /\ cycle' = NoCycle
    /\ \E s \in Slots : port[s] # None
    /\ Goto(t, "primary")
    /\ UNCHANGED <<session, control, sharing, down, locals, job>>

\* Without a driver there is nothing to read, which is an answer too.
ReadNothing(t) ==
    /\ pc[t] = "wait" /\ lock["primary"] = None /\ revision = rev[t]
    /\ \A s \in Slots : port[s] = None
    /\ revision' = revision + 1
    /\ shared' = Blank /\ got' = [got EXCEPT ![t] = Blank]
    /\ Goto(t, "returned")
    /\ UNCHANGED <<lock, session, control, down, rev, want, job, cycle>>

\* read_controller_state of one session, without evaluation: the first read after a
\* connection takes the reported setpoint for the target; a failure invalidates, and so
\* does the age of the state before.
ReadSession(s) ==
    \/ port[s] = None /\ UNCHANGED <<target, settling, stable, cache>>
    \/ /\ port[s] # None
       /\ target' = [target EXCEPT ![s] = IF @ = None THEN device[s] ELSE @]
       /\ cache' = [cache EXCEPT ![s] = [read |-> device[s], stable |-> None]]
       /\ settling' \in {settling, [settling EXCEPT ![s] = None]}
       /\ stable' = IF settling' = settling THEN stable ELSE [stable EXCEPT ![s] = None]
    \/ port[s] # None /\ Invalidate(s) /\ UNCHANGED target

ReadPrimary(t) ==
    /\ pc[t] = "primary"
    /\ ReadSession("primary")
    /\ Goto(t, "secondary")
    /\ UNCHANGED <<lock, session, device, sharing, down, locals, job, cycle>>

ReadSecondary(t) ==
    /\ pc[t] = "secondary" /\ lock["secondary"] = None
    /\ ReadSession("secondary")
    /\ Goto(t, "judging")
    /\ UNCHANGED <<lock, session, device, sharing, down, locals, job, cycle>>

\* The window of _evaluate_stability: closed off the target, else kept, or opened when the
\* loop comes to its target and when the sensors or the band changed.
Windows(s, goal) == {None, goal, settling[s]}

\* The verdict: a whole window on the target is stable, a missing or invalid reading is
\* not, and otherwise a stable flag lasts for the holdoff.
Verdicts(s, window) ==
    {None, stable[s]} \cup (IF window # None /\ window = settling[s] THEN {window} ELSE {})

\* The primary is judged and stored with its own lock held.
JudgePrimary(t) ==
    /\ pc[t] = "judging"
    /\ IF cache["primary"].read = None THEN UNCHANGED control
       ELSE \E window \in Windows("primary", target["primary"]) :
            \E verdict \in Verdicts("primary", window) :
                /\ settling' = [settling EXCEPT !["primary"] = window]
                /\ stable' = [stable EXCEPT !["primary"] = verdict]
                /\ cache' = [cache EXCEPT !["primary"].stable = verdict]
                /\ UNCHANGED <<device, target>>
    /\ Goto(t, "snapshot")
    /\ UNCHANGED <<lock, session, sharing, down, locals, job, cycle>>

\* The secondary is judged and stored without its lock: its state is taken first ...
TakeSnapshot(t) ==
    /\ pc[t] = "snapshot"
    /\ cycle' = [cycle EXCEPT !.state = cache["secondary"]]
    /\ Goto(t, IF cache["secondary"].read = None THEN "store" ELSE "target")
    /\ UNCHANGED <<lock, session, control, sharing, down, locals, job>>

\* ... then its target, a missing one set to the reported setpoint ...
TakeTarget(t) ==
    /\ pc[t] = "target"
    /\ target' = [target EXCEPT !["secondary"] = IF @ = None THEN cycle.state.read ELSE @]
    /\ cycle' = [cycle EXCEPT !.goal = target'["secondary"]]
    /\ Goto(t, "window")
    /\ UNCHANGED <<lock, session, device, settling, stable, cache, sharing, down, locals, job>>

\* ... the window is opened, kept or closed ...
JudgeWindow(t) ==
    /\ pc[t] = "window"
    /\ \E window \in Windows("secondary", cycle.goal) :
       \E verdict \in Verdicts("secondary", window) :
           /\ settling' = [settling EXCEPT !["secondary"] = window]
           /\ cycle' = [cycle EXCEPT !.verdict = verdict]
    /\ Goto(t, "flag")
    /\ UNCHANGED <<lock, session, device, target, stable, cache, sharing, down, locals, job>>

\* ... the flag is written ...
WriteFlag(t) ==
    /\ pc[t] = "flag"
    /\ stable' = [stable EXCEPT !["secondary"] = cycle.verdict]
    /\ Goto(t, "store")
    /\ UNCHANGED <<lock, session, device, target, settling, cache, sharing, down, locals, job,
                   cycle>>

\* ... and the state that was taken is stored back with it.
StoreState(t) ==
    /\ pc[t] = "store"
    /\ cache' = [cache EXCEPT !["secondary"] =
                     IF cycle.state.read = None THEN cycle.state
                     ELSE [cycle.state EXCEPT !.stable = cycle.verdict]]
    /\ Goto(t, "publish")
    /\ UNCHANGED <<lock, session, device, target, settling, stable, sharing, down, locals, job,
                   cycle>>

\* Mutant: the lock of the primary is kept.
PublishHolding(t) ==
    /\ pc[t] = "publish"
    /\ LET answer == [s \in Slots |-> cache[s].read] IN
           shared' = answer /\ got' = [got EXCEPT ![t] = answer]
    /\ revision' = revision + 1
    /\ cycle' = NoCycle
    /\ Goto(t, "returned")
    /\ UNCHANGED <<lock, session, control, down, rev, want, job>>

Publish(t) ==
    /\ pc[t] = "publish"
    /\ LET answer == [s \in Slots |-> cache[s].read] IN
           shared' = answer /\ got' = [got EXCEPT ![t] = answer]
    /\ revision' = revision + 1
    /\ lock' = [lock EXCEPT !["primary"] = None]
    /\ cycle' = NoCycle
    /\ Goto(t, "returned")
    /\ UNCHANGED <<session, control, down, rev, want, job>>

Return(t) ==
    /\ pc[t] = "returned"
    /\ rev' = [rev EXCEPT ![t] = 0]
    /\ want' = [want EXCEPT ![t] = [s \in Slots |-> 0]]
    /\ got' = [got EXCEPT ![t] = Blank]
    /\ Goto(t, "idle")
    /\ UNCHANGED <<lock, session, control, sharing, down, job, cycle>>

-----------------------------------------------------------------------------
(***************************************************************************)
(* Setters and the sessions.                                               *)
(***************************************************************************)
\* set_setpoint: the device takes the setpoint ...
Command(t, s) ==
    /\ pc[t] = "idle" /\ lock[s] = None /\ port[s] # None
    /\ device[s] < MaxCommands
    /\ lock' = [lock EXCEPT ![s] = t]
    /\ device' = [device EXCEPT ![s] = @ + 1]
    /\ job' = [job EXCEPT ![t] = [slot |-> s, port |-> None]]
    /\ Goto(t, "commanding")
    /\ UNCHANGED <<session, target, settling, stable, cache, sharing, down, locals, cycle>>

\* Mutant: the stability is not reset.
CommandDoneUnmarked(t) ==
    /\ pc[t] = "commanding"
    /\ LET s == job[t].slot IN
           /\ target' = [target EXCEPT ![s] = device[s]]
           /\ lock' = [lock EXCEPT ![s] = None]
    /\ job' = [job EXCEPT ![t] = NoJob]
    /\ Goto(t, "idle")
    /\ UNCHANGED <<session, device, settling, stable, cache, sharing, down, locals, cycle>>

\* ... then _mark_setpoint_pending records it and resets the stability ...
CommandDone(t) ==
    /\ pc[t] = "commanding"
    /\ LET s == job[t].slot IN
           /\ target' = [target EXCEPT ![s] = device[s]]
           /\ settling' = [settling EXCEPT ![s] = None]
           /\ stable' = [stable EXCEPT ![s] = None]
           /\ cache' = [cache EXCEPT ![s].stable = None]
           /\ lock' = [lock EXCEPT ![s] = None]
    /\ job' = [job EXCEPT ![t] = NoJob]
    /\ Goto(t, "idle")
    /\ UNCHANGED <<session, device, sharing, down, locals, cycle>>

\* Mutant: an exception leaves the lock held.
CommandFailsHolding(t) ==
    /\ pc[t] = "commanding"
    /\ job' = [job EXCEPT ![t] = NoJob]
    /\ Goto(t, "idle")
    /\ UNCHANGED <<lock, session, control, sharing, down, locals, cycle>>

\* ... or the driver raised after the device took it.
CommandFails(t) ==
    /\ pc[t] = "commanding"
    /\ lock' = [lock EXCEPT ![job[t].slot] = None]
    /\ job' = [job EXCEPT ![t] = NoJob]
    /\ Goto(t, "idle")
    /\ UNCHANGED <<session, control, sharing, down, locals, cycle>>

\* connect_driver: the guards look at the peer before any lock is taken.
Connect(t, s, p) ==
    /\ pc[t] = "idle" /\ port[Other(s)] # p
    /\ job' = [job EXCEPT ![t] = [slot |-> s, port |-> p]]
    /\ Goto(t, "opening")
    /\ UNCHANGED <<lock, session, control, sharing, down, locals, cycle>>

\* The old driver is disconnected and the state of its session discarded; then the new one
\* answers.  Otherwise the slot is left empty, or with the driver that raised when it was
\* cleaned up: the new one or the old.
Open(t) ==
    /\ pc[t] = "opening"
    /\ LET s == job[t].slot IN
           /\ lock[s] = None /\ ~stopped[s]
           /\ \/ /\ port' = [port EXCEPT ![s] = job[t].port]
                 /\ target' = [target EXCEPT ![s] = None]
              \/ /\ \E p \in {None, job[t].port, port[s]} : port' = [port EXCEPT ![s] = p]
                 /\ UNCHANGED target
           /\ Invalidate(s)
    /\ job' = [job EXCEPT ![t] = NoJob]
    /\ Goto(t, "idle")
    /\ UNCHANGED <<lock, stopped, device, sharing, down, locals, cycle>>

\* A session that was shut down refuses.
Refuse(t) ==
    /\ pc[t] = "opening" /\ lock[job[t].slot] = None /\ stopped[job[t].slot]
    /\ job' = [job EXCEPT ![t] = NoJob]
    /\ Goto(t, "idle")
    /\ UNCHANGED <<lock, session, control, sharing, down, locals, cycle>>

\* Mutant: the state of the session is kept.
DisconnectKeeping(s) ==
    /\ pc[Gui] = "idle" /\ lock[s] = None
    /\ port' = [port EXCEPT ![s] = None]
    /\ stopped' = [stopped EXCEPT ![s] = FALSE]
    /\ target' = [target EXCEPT ![s] = None]
    /\ UNCHANGED <<lock, device, settling, stable, cache, sharing, down, pc, locals, job,
                   cycle>>

\* disconnect_instrument, by the GUI: the status becomes DISCONNECTED even after a shutdown.
Disconnect(s) ==
    /\ pc[Gui] = "idle" /\ lock[s] = None
    /\ port' = [port EXCEPT ![s] = None]
    /\ stopped' = [stopped EXCEPT ![s] = FALSE]
    /\ target' = [target EXCEPT ![s] = None]
    /\ Invalidate(s)
    /\ UNCHANGED <<lock, device, sharing, down, pc, locals, job, cycle>>

\* A driver that raises stays connected, its state discarded.
DisconnectFails(s) ==
    /\ pc[Gui] = "idle" /\ lock[s] = None /\ port[s] # None
    /\ Invalidate(s)
    /\ UNCHANGED <<lock, session, device, target, sharing, down, pc, locals, job, cycle>>

\* Mutant: the worker is joined with the lock of the primary held.
ShutdownLocked ==
    /\ pc[Gui] = "idle" /\ lock["primary"] = None
    /\ lock' = [lock EXCEPT !["primary"] = Gui]
    /\ closed' = TRUE
    /\ Goto(Gui, "joining")
    /\ UNCHANGED <<session, control, sharing, failed, locals, job, cycle>>

\* shutdown: close the poller and join its worker, with no lock held ...
Shutdown ==
    /\ pc[Gui] = "idle"
    /\ closed' = TRUE
    /\ Goto(Gui, "joining")
    /\ UNCHANGED <<lock, session, control, sharing, failed, locals, job, cycle>>

JoinPoller ==
    /\ pc[Gui] = "joining" /\ pc[Poller] = "idle"
    /\ Goto(Gui, "closing secondary")
    /\ UNCHANGED <<lock, session, control, sharing, down, locals, job, cycle>>

\* Mutant: a failure ends the shutdown.
CloseSessionOrStop(s, here, next) ==
    /\ pc[Gui] = here /\ lock[s] = None
    /\ \/ /\ port' = [port EXCEPT ![s] = None]
          /\ stopped' = [stopped EXCEPT ![s] = TRUE]
          /\ target' = [target EXCEPT ![s] = None]
          /\ Goto(Gui, next)
          /\ UNCHANGED failed
       \/ /\ port[s] # None
          /\ failed' = failed \cup {s}
          /\ Goto(Gui, "ending")
          /\ UNCHANGED <<port, stopped, target>>
    /\ Invalidate(s)
    /\ UNCHANGED <<lock, device, sharing, closed, locals, job, cycle>>

\* ... then both sessions are shut down, a failure of the first notwithstanding.
CloseSession(s, here, next) ==
    /\ pc[Gui] = here /\ lock[s] = None
    /\ \/ /\ port' = [port EXCEPT ![s] = None]
          /\ stopped' = [stopped EXCEPT ![s] = TRUE]
          /\ target' = [target EXCEPT ![s] = None]
          /\ UNCHANGED failed
       \/ /\ port[s] # None
          /\ failed' = failed \cup {s}
          /\ UNCHANGED <<port, stopped, target>>
    /\ Invalidate(s)
    /\ Goto(Gui, next)
    /\ UNCHANGED <<lock, device, sharing, closed, locals, job, cycle>>

CloseSecondary == CloseSession("secondary", "closing secondary", "closing primary")
ClosePrimary   == CloseSession("primary", "closing primary", "ending")

\* When either failed the service takes the status ERROR, which is that of the primary: a
\* primary that was released is not STOPPED then, and accepts a connection.
EndShutdown ==
    /\ pc[Gui] = "ending"
    /\ stopped' = IF failed = {} THEN stopped ELSE [stopped EXCEPT !["primary"] = FALSE]
    /\ Goto(Gui, "down")
    /\ UNCHANGED <<lock, port, control, sharing, down, locals, job, cycle>>

\* The failures are raised to the caller, which may try again.
ReturnFromShutdown ==
    /\ pc[Gui] = "down"
    /\ failed' = {}
    /\ Goto(Gui, "idle")
    /\ UNCHANGED <<lock, session, control, sharing, closed, locals, job, cycle>>

-----------------------------------------------------------------------------
Progress(t) ==
    \/ Share(t) \/ StartCycle(t) \/ ReadNothing(t) \/ ReadPrimary(t) \/ ReadSecondary(t)
    \/ JudgePrimary(t) \/ TakeSnapshot(t) \/ TakeTarget(t) \/ JudgeWindow(t) \/ WriteFlag(t) \/ StoreState(t)
    \/ Publish(t) \/ Return(t)
    \/ CommandDone(t) \/ CommandFails(t) \/ Open(t) \/ Refuse(t)

Begin(t) == \E s \in Slots : Command(t, s) \/ \E p \in Ports : Connect(t, s, p)

GuiProgress == JoinPoller \/ CloseSecondary \/ ClosePrimary \/ EndShutdown

Next ==
    \/ \E t \in Threads : Request(t) \/ Progress(t)
    \/ \E t \in Callers : Begin(t)
    \/ \E s \in Slots : Disconnect(s) \/ DisconnectFails(s)
    \/ Shutdown \/ GuiProgress \/ ReturnFromShutdown

\* Every thread that began an operation is scheduled, and a thread that waits for a lock
\* is not overtaken for ever.
Spec ==
    /\ Init /\ [][Next]_vars
    /\ \A t \in Threads : SF_vars(Progress(t))
    /\ SF_vars(GuiProgress)

-----------------------------------------------------------------------------
(***************************************************************************)
(* Properties.                                                             *)
(***************************************************************************)
\* The variables keep their types.
TypeOK ==
    /\ lock \in [Slots -> Threads \cup {None}]
    /\ port \in [Slots -> Ports \cup {None}]
    /\ stopped \in [Slots -> BOOLEAN]
    /\ device \in [Slots -> Nat]
    /\ target \in [Slots -> Nat \cup {None}]
    /\ settling \in [Slots -> Nat \cup {None}] /\ stable \in [Slots -> Nat \cup {None}]
    /\ cache \in [Slots -> [read : Nat \cup {None}, stable : Nat \cup {None}]]
    /\ revision \in Nat /\ shared \in [Slots -> Nat \cup {None}]
    /\ closed \in BOOLEAN /\ failed \in SUBSET Slots
    /\ pc \in [Threads -> Places]
    /\ rev \in [Threads -> Nat] /\ want \in [Threads -> [Slots -> Nat]]
    /\ got \in [Threads -> [Slots -> Nat \cup {None}]]
    /\ job \in [Threads -> [slot : Slots, port : Ports \cup {None}]]
    /\ cycle \in [state : [read : Nat \cup {None}, stable : Nat \cup {None}],
                  goal : Nat \cup {None}, verdict : Nat \cup {None}]

FreshFor(s) ==
    \A t \in Threads : pc[t] = "returned" /\ got[t][s] # None => want[t][s] <= got[t][s]

\* A read requested after a primary setter never answers with a reading of the primary from
\* before it, even when it shares the result of another thread.
PrimaryFresh == FreshFor("primary")

\* The same of the secondary: "A read requested after a setter therefore cannot reuse a
\* pre-setter result."
SecondaryFresh == FreshFor("secondary")

StableOnTarget(s) ==
    target[s] # None =>
        /\ stable[s] # None => stable[s] >= target[s]
        /\ cache[s].stable # None => cache[s].stable >= target[s]

\* The primary is never called stable, in the engine or in the state it shows, for a window
\* spent on an older setpoint.
PrimaryStableOnTarget == StableOnTarget("primary")

\* The same of the secondary: _mark_setpoint_pending invalidates cached loop stability.
SecondaryStableOnTarget == StableOnTarget("secondary")

\* A disconnected primary keeps no measurement: _invalidate_state.
PrimaryForgotten == port["primary"] = None => cache["primary"] = Empty

\* The same of the secondary.
SecondaryForgotten == port["secondary"] = None => cache["secondary"] = Empty

\* A session without a successful reading shows no stable loop, whatever was interleaved
\* with the evaluation.
StableHasReading == \A s \in Slots : cache[s].stable # None => cache[s].read # None

\* What shutdown has closed: without a driver, and refusing one.
Closed(s) == port[s] = None /\ stopped[s]

\* Shutdown tries both sessions and has closed those whose cleanup did not fail, whatever
\* the other threads were reading or connecting.  When it returns, the secondary still is;
\* the primary is when neither failed.
ShutdownReleasesBoth ==
    /\ pc[Gui] = "ending" => \A s \in Slots \ failed : Closed(s)
    /\ pc[Gui] = "down" => \A s \in Slots \ failed : s = "secondary" \/ failed = {} => Closed(s)

\* "Engine has been shut down and cannot accept new connections", also when the shutdown
\* of the other session failed.
ReleasedStaysClosed == pc[Gui] = "down" => \A s \in Slots \ failed : Closed(s)

\* The two locks never block a read for ever.
EveryReadEnds == \A t \in Threads : pc[t] = "wait" ~> pc[t] = "idle"

\* Shutdown returns, though it joins the poller's worker.
ShutdownReturns == pc[Gui] = "joining" ~> pc[Gui] = "down"

\* The service rejects using the same physical connection in both slots.
NoSharedEndpoint == port["primary"] # None => port["primary"] # port["secondary"]

-----------------------------------------------------------------------------
(***************************************************************************)
(* What the proofs of TemperatureServiceProofs need beside these.          *)
(***************************************************************************)
Cycling == {"primary", "secondary", "judging", "snapshot", "target", "window", "flag", "store",
            "publish"}

\* The lock of the primary is held by the reader in its cycle or by a setter of the
\* primary, the lock of the secondary by a setter of it.
LockHeld ==
    \A t \in Threads :
        /\ lock["primary"] = t <=> \/ pc[t] \in Cycling
                                   \/ pc[t] = "commanding" /\ job[t].slot = "primary"
        /\ lock["secondary"] = t <=> pc[t] = "commanding" /\ job[t].slot = "secondary"

\* What is shared, stored or about to be stored of the primary is as new as the requests it
\* answers.
PrimarySharedFresh ==
    LET s == "primary" IN
    /\ \A v \in {shared[s], cache[s].read, target[s]} : v # None => v <= device[s]
    /\ \A t \in Threads :
           /\ want[t][s] <= device[s]
           /\ pc[t] = "wait" \/ pc[t] \in Cycling =>
                  /\ rev[t] <= revision
                  /\ revision # rev[t] /\ shared[s] # None => want[t][s] <= shared[s]
           /\ pc[t] \in Cycling => rev[t] = revision
           /\ pc[t] \in Cycling \ {"primary"} /\ cache[s].read # None =>
                  cache[s].read = device[s]

\* A window of the primary was opened for its target.
PrimaryWindow ==
    target["primary"] # None /\ settling["primary"] # None => settling["primary"] >= target["primary"]

\* Without a target, as after a connection, the primary has neither a reading nor a window.
PrimaryTargetKnown ==
    target["primary"] = None =>
        /\ settling["primary"] = None /\ stable["primary"] = None
        /\ cache["primary"] = Empty

\* What shutdown has closed stays closed until it returns, the primary until the status
\* of a shutdown that failed overwrites its own.
Released(s) == s \in failed \/ Closed(s)
ClosedInOrder ==
    /\ pc[Gui] \in {"closing primary", "ending", "down"} => Released("secondary")
    /\ pc[Gui] = "ending" \/ (pc[Gui] = "down" /\ failed = {}) => Released("primary")

\* The inductive invariant.
IInv ==
    /\ TypeOK /\ LockHeld /\ PrimaryFresh /\ PrimarySharedFresh /\ PrimaryWindow
    /\ PrimaryTargetKnown /\ PrimaryStableOnTarget /\ PrimaryForgotten
=============================================================================
