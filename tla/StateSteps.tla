----------------------------- MODULE StateSteps -----------------------------
(***************************************************************************)
(* The steps of a script that set a state of an instrument and wait for    *)
(* it: the points of a scan (ramp_to of plugins/state_scan/base.py), a set *)
(* command (execute of plugins/command/set_engine_state.py) and the        *)
(* segments of a sweep (plugins/state_sweep/base.py with sweep/            *)
(* multisegment_ramp_generator.py), over the notices an engine gives of    *)
(* its readings (ControllerUpdates of core/controller_polling.py) and its  *)
(* polling rate, which a sweep raises and puts back.                       *)
(*                                                                         *)
(* The worker takes one step of the script after another, of any kind and  *)
(* with any targets; the panel and the polls use the same engine.  Of the  *)
(* engine there is its lock, a read in three steps (the device is sampled, *)
(* the state is kept, the state is published) and commands in one, or in   *)
(* two where a plugin sets the target and then starts the ramp; the rest   *)
(* is in MagnetEngine and ControllerEngine.  A command may fail, with the  *)
(* set point in the device or not: the magnet engine only logs that and    *)
(* the step goes on, the motor and the temperature engines raise and the   *)
(* step fails.  The panel's Stop is raised by the tracer at any line,      *)
(* once.                                                                   *)
(*                                                                         *)
(* Of a state there is whether it is at its target.  A revision is         *)
(* compared with the one the waiter has: news says that they differ.       *)
(* Times are "some time": a deadline passes at some moment, and a wait for *)
(* news ends without it at any moment.  Here a read always ends, failed    *)
(* ones are in the modules of the engines.                                 *)
(***************************************************************************)
EXTENDS Naturals

CONSTANTS
    Values,       \* set points
    Between,      \* any other state of the device
    Limited,      \* set points outside the limits of a scan
    Sweeps,       \* the sweep plugins of the script
    Rates,        \* polling rates, 0 for none
    Worker,       \* the thread of the script
    Poller,       \* the thread of the polls
    None

Threads == {Worker, Poller}

ASSUME StepsAssumption ==
    /\ Between \notin Values /\ None \notin Values \cup {Between} \cup Threads \cup Sweeps
    /\ Limited \subseteq Values /\ Rates \subseteq Nat /\ 0 \in Rates
    /\ None \notin Rates /\ Worker # Poller

VARIABLES
    pos,        \* where the device is
    goal,       \* where it is told to go
    own,        \* where the engine takes it to go (_target_field, _target_angle)
    lock,       \* the thread that holds the engine lock, in a read
    kept,       \* whether that read has kept its state, and only publishes it
    sample,     \* whether that read has found the device at its target
    latest,     \* whether _latest_state is at its target
    shared,     \* whether a read has ended since the worker asked for its own
    result,     \* what that read has found
    rate,       \* the polling rate
    news,       \* whether updates.revision differs from that of the waiter; a sweep has none
    place,      \* where the worker is
    kind,       \* the step it is in: scan, set, sweep, none
    asked,      \* the set point of that step
    fallback,   \* whether a command reads the state itself, without news
    gen,        \* how far the generator of the sweep is: new, starting, running
    expired,    \* whether the deadline of a scan has passed
    outcome,    \* how its last wait ended
    plugin,     \* the sweep it is in
    saved,      \* _previous_engine_polling_rate_hz of each sweep
    previous,   \* the rate _end_sweep has in hand
    stop,       \* the stop event
    dying,      \* what unwinds the script: no, failed, stopped
    owed,       \* history: whether the device, once commanded, has still to come to asked
    refused,    \* history: whether that is so because the set point has failed, which was logged
    user        \* history: the polling rate the panel last asked for; None once it has asked
                \* during a sweep, or a Stop has hit the bracket of one

device  == <<pos, goal>>
engine  == <<own, lock, kept, sample, latest>>
overlap == <<shared, result>>
reads   == <<engine, overlap, news>>
sweep   == <<gen, plugin>>
told    == <<owed, refused>>
locals  == <<kind, asked, fallback, sweep, expired, outcome, told>>
run     == <<stop, dying>>
rates   == <<rate, saved, previous, user>>
vars == <<device, reads, place, locals, run, rates>>

ScanPlaces  == {"points", "limits"}
Bracket     == {"saving", "raising", "resetting", "trying"}
Restoring   == {"restoring", "lowering"}
SweepPlaces == {"next", "advancing", "sampling"}
WaitPlaces  == {"commanding", "ramping", "reading", "marking", "looking", "taking", "renewing",
                "checking", "waiting"}
CanRaise    == {"limits", "resetting", "measuring", "looking", "checking"}
                   \cup SweepPlaces
Places == {"idle", "script", "measuring"} \cup ScanPlaces \cup Bracket \cup Restoring
              \cup SweepPlaces \cup WaitPlaces
Outcomes == {"none", "reached", "gave up", "timed out", "outside"}

Init ==
    /\ pos \in Values /\ goal = pos /\ own = pos
    /\ lock = None /\ kept = FALSE /\ sample = FALSE /\ latest = FALSE
    /\ shared = FALSE /\ result = FALSE /\ news = FALSE
    /\ place = "idle" /\ kind = "none" /\ asked = None  /\ fallback = FALSE
    /\ gen = "new" /\ plugin = None /\ expired = FALSE /\ outcome = "none"
    /\ owed = FALSE /\ refused = FALSE
    /\ stop = FALSE /\ dying = "no"
    /\ rate \in Rates /\ saved = [s \in Sweeps |-> None] /\ previous = None /\ user = rate

\* The body of try in a sweep, where an exception puts the rate back.
InTry   == kind = "sweep" /\ place \in SweepPlaces \cup WaitPlaces \cup {"measuring"}
InSweep == InTry \/ place \in Bracket \cup Restoring

At(p)   == place = p /\ lock # Worker
Goto(p) == place' = p
End(o)  == outcome' = o

\* The variables of the wait of a step are gone.
Drop(k, s) ==
    /\ kind' = k /\ plugin' = s
    /\ asked' = None /\ fallback' = FALSE /\ gen' = "new" /\ expired' = FALSE
    /\ outcome' = "none" /\ owed' = FALSE /\ refused' = FALSE

EndStep(p) == Goto(p) /\ Drop("none", None)

\* The finally of a sweep.
LeaveTry == Goto("restoring") /\ Drop(kind, plugin)

\* The code of a plugin raises: a sweep puts its rate back, a scan or a command unwinds the script.
Raise ==
    /\ dying' = "failed"
    /\ IF kind = "sweep" THEN LeaveTry ELSE EndStep("idle")

-----------------------------------------------------------------------------
(***************************************************************************)
(* The device, reads and the panel.                                        *)
(***************************************************************************)
Move ==
    /\ pos # goal
    /\ pos' \in {goal, Between} \ {pos}
    /\ owed' = (owed /\ pos' # asked) /\ refused' = (refused /\ owed')
    /\ UNCHANGED <<goal, reads, place, kind, asked, fallback, sweep, expired, outcome, run, rates>>

\* A thread takes the lock and samples the device.  It compares with the target of the device,
\* or with that of the engine if the device does not tell its own.
Measure(t) ==
    /\ lock = None
    /\ lock' = t
    /\ sample' \in {pos = goal, pos = own}
    /\ UNCHANGED <<device, own, kept, latest, overlap, news, place, locals, run, rates>>

\* The state is kept.
Keep(t) ==
    /\ lock = t /\ ~kept
    /\ kept' = TRUE /\ latest' = sample
    /\ UNCHANGED <<device, own, lock, sample, overlap, news, place, locals, run, rates>>

\* The publication, and the release.
Publish(t) ==
    /\ lock = t /\ kept
    /\ lock' = None /\ kept' = FALSE /\ sample' = FALSE /\ news' = (kind # "sweep")
    /\ UNCHANGED <<device, own, latest, kind, asked, fallback, sweep, expired, run, told, rates>>

Poll == rate > 0 /\ Measure(Poller)

\* The worker that waits for the lock to read finds that this read has ended meanwhile.
PollEnds ==
    /\ Publish(Poller)
    /\ IF place \in {"reading", "renewing"} THEN shared' = TRUE /\ result' = sample
       ELSE UNCHANGED overlap
    /\ UNCHANGED <<place, outcome>>

\* A command may publish, or not.
Publicise == news' \in {news, kind # "sweep"}

\* Mutant: what was known of the old target is kept.
OrderOnly(v) == goal' = v /\ own' = v /\ UNCHANGED latest

\* A command: what was known of the old target is forgotten (_mark_target_pending).
Order(v) == goal' = v /\ own' = v /\ latest' = FALSE

\* A command that fails, with the set point in the device or not: what was known stands.
Balk(v) == goal' \in {goal, v} /\ UNCHANGED latest

\* The panel sends the device elsewhere; some engines publish that.
SetTarget(v) ==
    /\ lock = None /\ v # goal
    /\ owed' = FALSE /\ refused' = FALSE
    /\ \/ Order(v) /\ Publicise
       \/ Balk(v) /\ own' \in {own, v} /\ UNCHANGED news
    /\ UNCHANGED <<pos, lock, kept, sample, overlap, place, kind, asked, fallback, sweep, expired,
                   outcome, run, rates>>

SetPollingRate(r) ==
    /\ rate' = r /\ user' = IF InSweep \/ user = None THEN None ELSE r
    /\ UNCHANGED <<device, reads, place, locals, run, saved, previous>>

\* The deadline of a scan.
Expire ==
    /\ kind = "scan" /\ place \in WaitPlaces /\ ~expired
    /\ expired' = TRUE
    /\ UNCHANGED <<device, reads, place, kind, asked, fallback, sweep, outcome, run, told, rates>>

Stop ==
    /\ place # "idle" /\ ~stop
    /\ stop' = TRUE
    /\ UNCHANGED <<device, reads, place, locals, dying, rates>>

\* The tracer raises, at any line of the worker, once: a finally runs untraced.
Interrupt ==
    /\ stop /\ dying # "stopped" /\ place # "idle"
    /\ IF InTry THEN LeaveTry ELSE EndStep("idle")
    /\ dying' = "stopped"
    /\ user' = IF place \in Bracket \cup Restoring THEN None ELSE user
    /\ IF lock = Worker THEN lock' = None /\ kept' = FALSE /\ sample' = FALSE
       ELSE UNCHANGED <<lock, kept, sample>>
    /\ shared' = FALSE /\ result' = FALSE
    /\ UNCHANGED <<device, own, latest, news, stop, rate, saved, previous>>

-----------------------------------------------------------------------------
(***************************************************************************)
(* The wait.                                                               *)
(***************************************************************************)
\* Where the plugin goes on when the command has returned, whether or not it has failed.
AfterCommand ==
    CASE kind = "scan"                      -> "reading"
      [] kind = "set"                       -> "marking"
      [] kind = "sweep" /\ gen = "starting" -> "looking"
      [] OTHER                              -> "sampling"

\* set_state of a scan and of the start of a sweep, set_target of a segment and of a command.
\* The check or the driver may refuse it, which the engine logs.
Command ==
    /\ place = "commanding" /\ lock = None
    /\ owed' = (pos # asked)
    /\ \/ Order(asked) /\ refused' = FALSE /\ Publicise
       \/ Balk(asked) /\ refused' = owed' /\ UNCHANGED <<own, news>>
    /\ Goto(AfterCommand)
    /\ UNCHANGED <<pos, lock, kept, sample, overlap, kind, asked, fallback, sweep, expired, outcome,
                   run, rates>>

\* The same in an engine that raises.
CommandRaises ==
    /\ place = "commanding" /\ lock = None
    /\ Balk(asked) /\ Raise
    /\ UNCHANGED <<pos, own, lock, kept, sample, overlap, news, stop, rates>>

\* A segment of a magnet: set_target_field, which stores the target before the driver has it ...
SetTargetField ==
    /\ place = "commanding" /\ kind = "sweep" /\ gen = "running" /\ lock = None
    /\ owed' = (pos # asked)
    /\ \/ Order(asked) /\ refused' = FALSE
       \/ Balk(asked) /\ own' = asked /\ refused' = owed'
    /\ Goto("ramping")
    /\ UNCHANGED <<pos, lock, kept, sample, overlap, news, kind, asked, fallback, sweep, expired,
                   outcome, run, rates>>

\* ... and then ramp_to_target, which the check may refuse before what was known is forgotten,
\* and the driver after; the device may stay where it is.
RampToTarget ==
    /\ place = "ramping" /\ lock = None
    /\ latest' \in {latest, FALSE}
    /\ Goto("sampling")
    /\ UNCHANGED <<device, own, lock, kept, sample, overlap, news, locals, run, rates>>

\* A quench, a rate that cannot be set, a step inside a point: the plugin raises.
Fail ==
    /\ place \in CanRaise /\ lock # Worker
    /\ Raise
    /\ UNCHANGED <<device, reads, stop, rates>>

\* After the revision a scan looks; a command reads, or takes the state that is the news.
AfterMark == IF kind = "scan" THEN "looking" ELSE IF fallback THEN "reading" ELSE "taking"

\* revision = updates.revision
Mark ==
    /\ At("marking") /\ Goto(AfterMark) /\ news' = FALSE
    /\ UNCHANGED <<device, engine, overlap, locals, run, rates>>

\* read_controller_state
StartRead == place \in {"reading", "renewing"} /\ ~shared /\ Measure(Worker)

\* Where a step goes on when its wait is over.
AfterWait == IF kind = "sweep" THEN "advancing" ELSE "measuring"

\* The target is reached or not.  A sweep goes on sampling; at its start it looks again, or
\* gives up, and then its generator ends as if it had come to its last target.
Judge(atTarget) ==
    \/ atTarget /\ End("reached") /\ Goto(AfterWait)
    \/ ~atTarget /\ kind # "sweep" /\ Goto("checking") /\ UNCHANGED outcome
    \/ ~atTarget /\ kind = "sweep" /\ gen = "running" /\ Goto("sampling") /\ UNCHANGED outcome
    \/ ~atTarget /\ kind = "sweep" /\ gen = "starting"
         /\ \/ Goto("looking") /\ UNCHANGED outcome
            \/ End("gave up") /\ Goto("restoring")

\* A scan looks at the cache after it has read, a command at what it has read.
Answer(found) ==
    IF place = "reading" /\ kind = "scan" THEN Goto("marking") /\ UNCHANGED outcome ELSE Judge(found)

EndRead ==
    /\ Publish(Worker)
    /\ Answer(sample)
    /\ UNCHANGED overlap

ShareRead ==
    /\ place \in {"reading", "renewing"} /\ lock = None /\ shared
    /\ Answer(result)
    /\ shared' = FALSE /\ result' = FALSE
    /\ UNCHANGED <<device, engine, news, kind, asked, fallback, sweep, expired, run, told, rates>>

\* is_at_target: the cache, or a read if the cache is old; get_engine_state, of a command.
Look ==
    /\ \/ At("looking") \/ At("taking")
    /\ \/ Judge(latest)
       \/ place = "looking" /\ Goto("renewing") /\ UNCHANGED outcome
    /\ UNCHANGED <<device, reads, kind, asked, fallback, sweep, expired, run, told, rates>>

\* Mutant: the revision is taken when the worker goes to wait.
CheckAndMark ==
    /\ At("checking") /\ ~expired
    /\ Goto("waiting") /\ news' = FALSE
    /\ UNCHANGED <<device, engine, overlap, locals, run, rates>>

\* The deadline, if a command has one; the Stop that the tracer has not raised yet.
CheckDeadline ==
    /\ At("checking")
    /\ \/ (expired \/ kind = "set") /\ End("timed out") /\ Goto(AfterWait)
       \/ stop /\ Goto(AfterWait) /\ UNCHANGED outcome
       \/ ~expired /\ Goto("waiting") /\ UNCHANGED outcome
    /\ UNCHANGED <<device, reads, kind, asked, fallback, sweep, expired, run, told, rates>>

\* updates.wait: there is news ...
Woken ==
    /\ At("waiting") /\ news
    /\ Goto("marking") /\ fallback' = FALSE
    /\ UNCHANGED <<device, reads, kind, asked, sweep, expired, outcome, run, told, rates>>

\* Mutant: it waits on.
WaitOn == At("waiting") /\ ~news /\ UNCHANGED vars

\* ... or the interval has passed, and the worker reads itself; or there is the Stop.
Unanswered ==
    /\ At("waiting") /\ ~news
    /\ Goto(IF stop THEN AfterWait ELSE IF kind = "scan" THEN "reading" ELSE "marking")
    /\ fallback' = (kind = "set")
    /\ UNCHANGED <<device, reads, kind, asked, sweep, expired, outcome, run, told, rates>>

-----------------------------------------------------------------------------
(***************************************************************************)
(* The script, the points of a scan, the set command.                      *)
(***************************************************************************)
StartScript ==
    /\ place = "idle"
    /\ Goto("script") /\ stop' = FALSE /\ dying' = "no"
    /\ UNCHANGED <<device, reads, locals, rates>>

Begin(k, p, v) ==
    /\ kind' = k /\ Goto(p) /\ asked' = v
    /\ fallback' = (k = "set")
    /\ outcome' = "none" /\ expired' = FALSE /\ gen' = "new"
    /\ owed' = FALSE /\ refused' = FALSE
    /\ news' = (news /\ k # "sweep")
    /\ UNCHANGED <<device, engine, overlap, run, rates>>

\* ramp_to of the next point: the limits first.
ScanPoint(v) ==
    /\ At("script") \/ At("points")
    /\ Begin("scan", IF v \in Limited THEN "limits" ELSE "commanding", v) /\ UNCHANGED plugin

OutsideLimits ==
    /\ At("limits") /\ End("outside") /\ Goto("measuring")
    /\ UNCHANGED <<device, reads, kind, asked, fallback, sweep, expired, run, told, rates>>

SetCommand(v) == At("script") /\ Begin("set", "commanding", v) /\ UNCHANGED plugin

\* The steps inside a point or a value, or after a command, are done.
Measured ==
    /\ At("measuring")
    /\ \/ kind = "set" /\ EndStep("script")
       \/ kind = "scan" /\ Goto("points") /\ Drop(kind, plugin)
       \/ kind = "sweep" /\ Goto("next") /\ UNCHANGED locals
    /\ UNCHANGED <<device, reads, run, rates>>

Leave ==
    /\ \/ At("points") /\ EndStep("script")
       \/ At("script") /\ EndStep("idle")
    /\ UNCHANGED <<device, reads, run, rates>>

-----------------------------------------------------------------------------
(***************************************************************************)
(* The sweep.                                                              *)
(***************************************************************************)
\* _begin_sweep: a rate that was never put back is kept.
BeginSweep(s, v) ==
    /\ At("script")
    /\ Begin("sweep", IF saved[s] = None THEN "saving" ELSE "resetting", v) /\ plugin' = s

\* A rate of zero or less leaves the engine alone.
SaveRate ==
    /\ At("saving")
    /\ \/ Goto("raising") /\ saved' = [saved EXCEPT ![plugin] = rate]
       \/ Goto("resetting") /\ UNCHANGED saved
    /\ UNCHANGED <<device, reads, locals, run, rate, previous, user>>

RaiseRate(r) ==
    /\ At("raising") /\ r > 0
    /\ rate' = r /\ Goto("resetting")
    /\ UNCHANGED <<device, reads, locals, run, saved, previous, user>>

\* The deadline, the limits and the generator; a failure puts the rate back.  Then the try.
Reset ==
    /\ \/ At("resetting") /\ Goto("trying")
       \/ At("trying") /\ Goto("next")
    /\ UNCHANGED <<device, reads, locals, run, rates>>

\* next(self): the deadline may have passed; if not, the generator moves to its start, or to its
\* first target from where the device is; or it goes on after the value it has yielded.
NextValue ==
    /\ At("next")
    /\ \/ End("timed out") /\ Goto("restoring") /\ UNCHANGED gen
       \/ gen = "new" /\ gen' \in {"starting", "running"} /\ Goto("commanding") /\ UNCHANGED outcome
       \/ gen = "running" /\ Goto("looking") /\ UNCHANGED <<gen, outcome>>
    /\ UNCHANGED <<device, reads, kind, asked, fallback, plugin, expired, run, told, rates>>

\* The next segment, or the end.
Advance(v) ==
    /\ At("advancing")
    /\ \/ /\ Goto("commanding") /\ gen' = "running"
          /\ asked' = v /\ outcome' = "none" /\ owed' = FALSE /\ refused' = FALSE
       \/ /\ gen = "running" /\ Goto("restoring")
          /\ UNCHANGED <<gen, asked, outcome, told>>
    /\ UNCHANGED <<device, reads, kind, fallback, plugin, expired, run, rates>>

\* get_state, which is inside the limits of the sweep or not.
Sample ==
    /\ At("sampling")
    /\ \/ Goto("measuring") /\ UNCHANGED outcome
       \/ Goto("restoring") /\ End("outside")
    /\ UNCHANGED <<device, reads, kind, asked, fallback, sweep, expired, run, told, rates>>

\* Mutant: what was saved stays.
ForgetNothing == UNCHANGED saved

\* _previous_engine_polling_rate_hz = None
ForgetSaved == saved' = [saved EXCEPT ![plugin] = None]

\* _end_sweep: the rate that was saved is taken in hand, and then set.
AfterSweep == IF dying = "no" THEN "script" ELSE "idle"

EndSweep ==
    /\ At("restoring")
    /\ IF saved[plugin] = None
       THEN EndStep(AfterSweep) /\ UNCHANGED <<saved, previous>>
       ELSE Goto("lowering") /\ ForgetSaved /\ previous' = saved[plugin] /\ Drop(kind, plugin)
    /\ UNCHANGED <<device, reads, run, rate, user>>

LowerRate ==
    /\ At("lowering") /\ EndStep(AfterSweep)
    /\ rate' = previous /\ previous' = None
    /\ UNCHANGED <<device, reads, run, saved, user>>

-----------------------------------------------------------------------------
\* What the worker does in the wait of a point or a command.
Wait ==
    /\ place \in WaitPlaces /\ kind # "sweep"
    /\ \/ Command \/ Mark \/ StartRead \/ Keep(Worker) \/ EndRead \/ ShareRead \/ Look
       \/ CheckDeadline \/ Woken \/ Unanswered

\* What the worker does in the middle of a step.
Progress ==
    \/ Command \/ CommandRaises \/ SetTargetField \/ RampToTarget \/ Fail
    \/ Mark \/ StartRead \/ Keep(Worker) \/ EndRead \/ ShareRead \/ Look
    \/ CheckDeadline \/ Woken \/ Unanswered \/ OutsideLimits \/ Measured
    \/ SaveRate \/ \E r \in Rates : RaiseRate(r) \/ Reset \/ NextValue
    \/ \E v \in Values : Advance(v) \/ Sample \/ EndSweep \/ LowerRate

\* What the script chooses.
Choose ==
    \/ StartScript \/ Leave
    \/ \E v \in Values : ScanPoint(v) \/ SetCommand(v) \/ \E s \in Sweeps : BeginSweep(s, v)

Next ==
    \/ Move \/ Poll \/ Keep(Poller) \/ PollEnds
    \/ \E v \in Values : SetTarget(v)
    \/ \E r \in Rates : SetPollingRate(r)
    \/ Expire \/ Stop \/ Interrupt
    \/ Progress \/ Choose

Spec == Init /\ [][Next]_vars

\* Threads go on, one that waits for the lock gets it in the end, and time passes.
FairSpec ==
    /\ Spec
    /\ SF_vars(Wait) /\ WF_vars(Keep(Poller) \/ PollEnds) /\ WF_vars(Expire)

-----------------------------------------------------------------------------
(***************************************************************************)
(* Properties.                                                             *)
(***************************************************************************)
\* The variables keep their types.
TypeOK ==
    /\ pos \in Values \cup {Between} /\ {goal, own} \subseteq Values
    /\ lock \in Threads \cup {None} /\ kept \in BOOLEAN
    /\ {sample, latest, result} \subseteq BOOLEAN
    /\ {shared, news, fallback, expired, stop, owed, refused} \subseteq BOOLEAN
    /\ place \in Places /\ kind \in {"scan", "set", "sweep", "none"}
    /\ asked \in Values \cup {None}
    /\ gen \in {"new", "starting", "running"} /\ outcome \in Outcomes
    /\ plugin \in Sweeps \cup {None} /\ dying \in {"no", "failed", "stopped"}
    /\ rate \in Rates /\ {user, previous} \subseteq Rates \cup {None}
    /\ saved \in [Sweeps -> Rates \cup {None}]

\* A worker that goes to sleep has seen the state that was published last: no publication
\* that says "at target" falls between its look and its wait.
NewsHeeded ==
    place = "waiting" /\ ~news /\ lock = None => ~latest

\* A wait that ends with its target reached was there since it commanded it, whichever of
\* the polls, a shared read, the cache or a read of its own has said so, and whether or not
\* the ramp has failed; unless its set point was refused, which the magnet engine only logs,
\* or the panel has sent the device elsewhere.
ReachedSinceAsked == outcome = "reached" /\ ~refused => ~owed

\* ... even if it was refused, and at the start of a sweep: state_reached is documented as
\* "Emitted once when the target set-point has been reached" (plugins/state/base.py).  The
\* magnet engine logs what it refuses and leaves the arrival at the old target standing; a
\* sweep that gives up at its start emits it when its generator has ended.
ReachedIsReached == outcome \in {"reached", "gave up"} => ~owed

\* Between sweeps the engine is polled at the rate the panel asked for last, however the
\* sweeps before have ended, unless it asked during one or a Stop hit _begin_sweep or
\* _end_sweep.
RateKept == ~InSweep /\ user # None => rate = user

\* A wait that should not go on for ever: that of a scan, and that of a command once the device
\* rests where it was told to go and the engine knows that.
Waits ==
    /\ place \in WaitPlaces
    /\ kind = "scan" \/ (kind = "set" /\ pos = goal /\ own = goal)

\* A scan never waits longer than its timeout; a command without one ends when the device has
\* come to rest where it was told to go, with the polls off, too, and whatever has failed,
\* unless the engine has missed where it was told to go: that wait only a Stop ends.
EveryWaitEnds == []<>~Waits

-----------------------------------------------------------------------------
(***************************************************************************)
(* The inductive invariant.                                                *)
(***************************************************************************)
\* Which step a place belongs to, and what a step has not done at it.
PlaceOK ==
    /\ place \in {"idle", "script"} => kind = "none" /\ ~owed
    /\ place \in ScanPlaces => kind = "scan"
    /\ place \in Bracket \cup Restoring \cup SweepPlaces => kind = "sweep"
    /\ place \in {"measuring"} \cup WaitPlaces => kind # "none"
    /\ place = "ramping" => kind = "sweep" /\ gen = "running"
    /\ place \in {"reading", "marking", "taking", "checking", "waiting"} => kind \in {"scan", "set"}
    /\ place \in Bracket \cup SweepPlaces \cup WaitPlaces \cup {"limits", "measuring"} => asked \in Values
    /\ kind = "sweep" => plugin \in Sweeps
    /\ kind = "sweep" /\ place \in {"advancing", "sampling", "measuring"} \cup WaitPlaces => gen # "new"
    /\ place = "lowering" => previous \in Rates
    /\ place \in Bracket \cup {"limits", "commanding"} => outcome = "none" /\ ~owed
    /\ place = "ramping" => outcome = "none"
    /\ place \in Bracket => gen = "new"
    /\ place = "next" /\ gen = "new" => outcome = "none" /\ ~owed

\* The lock, and a read that the worker may share.
ReadOK ==
    /\ lock = Worker => place \in {"reading", "renewing"} /\ ~shared
    /\ lock = None => ~kept /\ ~sample
    /\ shared => place \in {"reading", "renewing"} /\ (news \/ kind = "sweep")
    /\ ~shared => ~result

\* What a worker on its way to sleep has not heeded is being published.
NewsOK ==
    /\ place \in {"checking", "waiting"} /\ kind # "sweep"
    /\ ~news /\ ~(lock = Poller /\ kept)
    => ~latest

\* As long as the device is on its way nobody has found it there.
OwedOK ==
    owed /\ ~refused =>
        /\ goal = asked /\ own = asked /\ pos # asked
        /\ ~sample /\ ~latest /\ ~result
        /\ outcome # "reached"

\* The rate of the panel is the rate of the engine, or the sweep has it.
RateOK ==
    user # None =>
        /\ \A s \in Sweeps : (s = plugin /\ InSweep) \/ saved[s] = None
        /\ ~InSweep => rate = user
        /\ place # "lowering" => previous = None
        /\ place = "lowering" => previous = user /\ saved[plugin] = None
        /\ InSweep /\ place # "lowering" =>
             /\ saved[plugin] \in {user, None}
             /\ saved[plugin] = None => rate = user
        /\ place = "saving" => saved[plugin] = None
        /\ place = "raising" => saved[plugin] = user

IInv == TypeOK /\ PlaceOK /\ ReadOK /\ NewsOK /\ OwedOK /\ RateOK
=============================================================================
