---------------------------- MODULE MagnetEngine ----------------------------
(***************************************************************************)
(* The magnet controller, src/stoner_measurement/magnet_control/engine.py, *)
(* with the scan that ramps it and waits (ramp_to of plugins/state_scan/   *)
(* base.py) and the power supply behind its driver.                        *)
(*                                                                         *)
(* Commands and reads hold the engine lock; set_stability_config and the   *)
(* observers do not.  The supply and the switch heater move on their own,  *)
(* between any two steps.  A field is a member of Fields or Between: the   *)
(* supply is not at a field anyone has asked for.  The flags are kept as   *)
(* the field they were judged against, None for False.  Timestamps are     *)
(* left out: a window or a hold-off may have passed whenever it is looked  *)
(* at.  The sharing of reads, the timer (ControllerEngine has both), how   *)
(* the scan is woken (StateSteps has that) and the settings that only go    *)
(* through to the driver are left out too.                                 *)
(***************************************************************************)
EXTENDS Naturals

CONSTANTS
    Fields,     \* fields a user asks for
    Zero,       \* zero field
    Between,    \* any other field
    Scan,       \* the thread of the sequence, in a magnet scan
    Gui,        \* the GUI thread: the panel's commands
    Poller,     \* the thread of the polls
    Faults,     \* what may go wrong: see FaultKinds
    None

Threads == {Scan, Gui, Poller}
FaultKinds == {"connect",      \* the driver does not connect
               "read",         \* the driver cannot read the status
               "refused",      \* the driver raises and does nothing
               "unanswered",   \* the driver raises having done what it was asked
               "setpoint",     \* it reads no set point
               "quench"}

ASSUME MagnetAssumption ==
    /\ Zero \in Fields /\ Between \notin Fields /\ None \notin Fields \cup {Between}
    /\ Scan # Gui /\ Gui # Poller /\ Scan # Poller /\ None \notin Threads
    /\ Faults \subseteq FaultKinds

VARIABLES
    supply,    \* the field of the supply
    goal,      \* the set point the supply has
    ramp,      \* what the supply does: hold, or ramp to the goal or to zero
    heater,    \* the switch heater
    trapped,   \* the field the magnet keeps with the heater off, None if it keeps none
    quench,    \* whether the magnet has quenched
    lock,      \* the holder of _engine_lock
    held,      \* what a thread has in hand in a critical section of several steps
    driver,    \* whether a driver is connected
    stopped,   \* whether the engine has been shut down
    target,    \* _target_field
    zero,      \* _zero_target_active
    adrift,    \* history: with a driver, whether a command moved the aim and left the flags,
               \* or a read took a target that is not the aim, since a command reset the flags
    at,        \* _is_at_target
    since,     \* _at_target_since
    stable,    \* _stable
    reading,   \* what _latest_state.reading says, clear without one
    stage,     \* where ramp_to is
    asked,     \* the field ramp_to was asked for
    reached,   \* whether ramp_to has returned and found its field reached
    refused,   \* whether its ramp_to_field raised, which the engine logs
    disturbed  \* whether anyone else has commanded the magnet since its ramp, or it quenched

device  == <<supply, goal, ramp, heater, trapped, quench>>
section == <<lock, held>>
session == <<driver, stopped>>
aim     == <<target, zero, adrift>>
flags   == <<at, since, stable>>
call    == <<stage, asked, reached, refused>>
scan    == <<call, disturbed>>
vars == <<device, section, session, aim, flags, reading, scan>>

Stages  == {"idle", "probing", "asking", "commanding", "refreshing", "looking"}
Checked == {"ramp_to_target", "ramp_to_field", "go_to_zero", "heater_on"}
Places  == {"measured"} \cup Checked
Settled == {"on", "off"}

Empty == [by |-> None, place |-> "measured", field |-> Zero, quench |-> FALSE, rest |-> FALSE]

Init ==
    /\ supply = Zero /\ goal = Zero /\ ramp = "hold"
    /\ heater \in Settled /\ trapped = None /\ quench = FALSE
    /\ lock = None /\ held = Empty /\ driver = FALSE /\ stopped = FALSE
    /\ target = None /\ zero = FALSE /\ adrift = FALSE
    /\ at = None /\ since = None /\ stable = None /\ reading = "clear"
    /\ stage = "idle" /\ asked = Zero
    /\ reached = FALSE /\ refused = FALSE /\ disturbed = FALSE

Outside(t) == held.by # t
Within(t, place) == held.by = t /\ held.place = place
Release == lock' = None /\ held' = Empty

\* What anyone but ramp_to does to the magnet once ramp_to has asked for its field; from
\* then on it is all the same what that was, and whether it was refused.
Disturbed(t) ==
    disturbed' = (disturbed \/ (t # Scan /\ (stage \in {"refreshing", "looking"} \/ reached)))

Asked == asked' = IF disturbed' THEN Zero ELSE asked

Disturb(t) ==
    /\ Disturbed(t) /\ Asked /\ refused' = (refused /\ ~disturbed')
    /\ UNCHANGED <<stage, reached>>

\* The target in force: zero once go_to_zero is done, until another target command
\* supersedes it; else the set point of the supply.
Aim == IF zero THEN Zero ELSE goal

\* A set point command that raises before it has reset the flags: those that are set may
\* be of the aim before.
Stray == adrift' = (adrift \/ (Aim' # Aim /\ {at, since, stable} # {None}))

-----------------------------------------------------------------------------
(***************************************************************************)
(* The supply and the heater, on their own.                                *)
(***************************************************************************)
Bound == CASE ramp = "goal" -> goal
           [] ramp = "zero" -> Zero
           [] OTHER         -> supply

AtRest == supply = Bound

Move ==
    /\ ~AtRest
    /\ supply' \in {Between, Bound} \ {supply}
    /\ UNCHANGED <<goal, ramp, heater, trapped, quench, section, session, aim, flags, reading, scan>>

\* The switch opens and the magnet follows the supply, or it closes and keeps its field.
HeaterSettles ==
    /\ \/ heater = "warming" /\ heater' = "on" /\ trapped' = None
       \/ heater = "cooling" /\ heater' = "off" /\ trapped' = supply
    /\ UNCHANGED <<supply, goal, ramp, quench, section, session, aim, flags, reading, scan>>

Quench ==
    /\ "quench" \in Faults /\ ~quench
    /\ quench' = TRUE /\ supply' = Between /\ ramp' = "hold" /\ trapped' = None
    /\ Disturb(Gui)
    /\ UNCHANGED <<goal, heater, section, session, aim, flags, reading>>

\* The magnet is cold again.
Recover ==
    /\ quench /\ quench' = FALSE
    /\ UNCHANGED <<supply, goal, ramp, heater, trapped, section, session, aim, flags, reading, scan>>

-----------------------------------------------------------------------------
(***************************************************************************)
(* Reads.                                                                  *)
(***************************************************************************)
\* Mutant: the target flag waits for the next read.
MarkUnstable == UNCHANGED at /\ since' = None /\ stable' = None

\* _mark_target_pending
MarkTargetPending == at' = None /\ since' = None /\ stable' = None

\* The target of _build_state: zero while it is in force, else the set point of the driver;
\* without one the engine's own, which a command stored before the driver raised, or the
\* driver before this one left.
Targets ==
    IF zero THEN {Zero} ELSE {goal} \cup (IF "setpoint" \in Faults THEN {target} ELSE {})

\* _build_state: the status, the target, and the window of _evaluate_stability ...
Measure(t) ==
    /\ Outside(t) /\ lock = None /\ driver
    /\ lock' = t
    /\ held' = [by |-> t, place |-> "measured", field |-> supply, quench |-> quench, rest |-> FALSE]
    /\ target' \in Targets
    /\ adrift' = (adrift \/ target' # Aim)
    /\ since' = IF supply # target' THEN None ELSE IF since = None THEN target' ELSE since
    /\ UNCHANGED <<device, session, zero, at, stable, reading>>

\* At the target; without one it is the currents that are compared.
Arrived == IF target = None THEN {None} \cup ({held.field} \cap Fields)
           ELSE IF held.field = target THEN {target} ELSE {None}

\* ... the verdict, at the target only in a healthy state, stable from a window that has
\* passed until a hold-off has; and the publication.
Conclude(t) ==
    /\ Within(t, "measured")
    /\ held.field = target => since # None
    /\ at' \in IF held.quench THEN {None} ELSE Arrived
    /\ stable' \in {stable, None} \cup IF held.field = target THEN {since} ELSE {}
    /\ reading' = IF held.quench THEN "quench" ELSE "clear"
    /\ Release
    /\ UNCHANGED <<device, session, aim, since, scan>>

\* The read raises, because _at_target_since was reset after it was set ...
ReadFails(t) ==
    /\ Within(t, "measured") /\ held.field = target /\ since = None
    /\ MarkTargetPending
    /\ Release
    /\ UNCHANGED <<device, session, aim, reading, scan>>

\* ... or the driver does.
Unread(t) ==
    /\ Outside(t) /\ lock = None /\ driver /\ "read" \in Faults
    /\ MarkTargetPending
    /\ UNCHANGED <<device, section, session, aim, reading>>

Read(t) == Measure(t) \/ Unread(t)

\* A poll, or the read of the panel.
Poll == Read(Poller) /\ UNCHANGED scan

-----------------------------------------------------------------------------
(***************************************************************************)
(* Commands without a check: one critical section.                         *)
(***************************************************************************)
Commanding(t) == Outside(t) /\ lock = None /\ driver

\* How a command of the driver ends: whether it is done, and whether the driver raises.
Ends(done, raised) ==
    \/ done /\ ~raised
    \/ ~done /\ raised /\ "refused" \in Faults
    \/ done /\ raised /\ "unanswered" \in Faults

\* set_target_field, and set_target_current, which leaves _target_field to the next read:
\* the target is stored before the driver is asked, and whatever it answers.
SetTarget(f) ==
    /\ Outside(Gui) /\ lock = None
    /\ target' \in {f, target}
    /\ zero' = FALSE
    /\ \/ ~driver /\ UNCHANGED <<goal, flags, adrift>>
       \/ \E done, raised \in BOOLEAN :
            /\ driver /\ Ends(done, raised)
            /\ goal' = IF done THEN f ELSE goal
            /\ IF raised THEN Stray /\ UNCHANGED flags
               ELSE adrift' = FALSE /\ MarkTargetPending
    /\ Disturb(Gui)
    /\ UNCHANGED <<supply, ramp, heater, trapped, quench, section, session, reading>>

\* pause_ramp, hold and abort_ramp.
Hold ==
    /\ Commanding(Gui)
    /\ ramp' = "hold"
    /\ Disturb(Gui)
    /\ UNCHANGED <<supply, goal, heater, trapped, quench, section, session, aim, flags, reading>>

\* heater_off: allowed at any time.
HeaterOff ==
    /\ Commanding(Gui)
    /\ heater \in {"on", "warming"} /\ heater' = "cooling"
    /\ Disturb(Gui)
    /\ UNCHANGED <<supply, goal, ramp, trapped, quench, section, session, aim, flags, reading>>

-----------------------------------------------------------------------------
(***************************************************************************)
(* Commands with a check: what it has found is true until the command.     *)
(***************************************************************************)
\* Mutant: the trapped field is compared with the set point of the supply, not its output.
AllowedByGoal(name) ==
    /\ heater \in Settled
    /\ name = "heater_on" => trapped \in {None, goal}

\* _validate_ramp_allowed and _validate_heater_on_allowed
Allowed(name) ==
    /\ heater \in Settled
    /\ name = "heater_on" => trapped \in {None, supply}

\* Mutant: the lock is taken for the command only.
CheckUnlocked(t, name, f) ==
    /\ Commanding(t)
    /\ IF Allowed(name)
       THEN held' = [by |-> t, place |-> name, field |-> f, quench |-> FALSE,
                      rest |-> AtRest /\ name = "heater_on"]
       ELSE UNCHANGED held
    /\ UNCHANGED <<device, lock, session, aim, flags, reading>>

Check(t, name, f) ==
    /\ Commanding(t)
    /\ IF Allowed(name)
       THEN /\ lock' = t
            /\ held' = [by |-> t, place |-> name, field |-> f, quench |-> FALSE,
                      rest |-> AtRest /\ name = "heater_on"]
       ELSE UNCHANGED section
    /\ UNCHANGED <<device, session, aim, flags, reading>>

\* ramp_to_target: the flags first, then the driver.
RampToTarget(t) ==
    /\ Within(t, "ramp_to_target")
    /\ zero' = FALSE /\ adrift' = FALSE /\ MarkTargetPending
    /\ \E done, raised \in BOOLEAN : Ends(done, raised) /\ ramp' = IF done THEN "goal" ELSE ramp
    /\ Release /\ Disturb(t)
    /\ UNCHANGED <<supply, goal, heater, trapped, quench, session, target, reading>>

\* Mutant: _zero_target_active is left on.
RetargetOnly == target' = held.field /\ zero' = zero /\ MarkTargetPending

\* What ramp_to_field sets once the driver has taken the set point.
Retarget == target' = held.field /\ zero' = FALSE /\ MarkTargetPending

\* ramp_to_field: the set point, the target and the flags, then the ramp.
RampToField(t) ==
    /\ Within(t, "ramp_to_field") /\ Disturbed(t)
    /\ \/ \E done \in BOOLEAN :                             \* set_target_field raises
            /\ Ends(done, TRUE)
            /\ goal' = IF done THEN held.field ELSE goal
            /\ refused' = ((t = Scan \/ refused) /\ ~disturbed')
            /\ UNCHANGED <<target, zero, flags, ramp>>
            /\ Stray
       \/ \E done, raised \in BOOLEAN :                     \* it has answered
            /\ Ends(done, raised)
            /\ goal' = held.field
            /\ Retarget /\ adrift' = FALSE
            /\ ramp' = IF done THEN "goal" ELSE ramp
            /\ refused' = (~disturbed' /\ IF t = Scan THEN raised ELSE refused)
    /\ Release /\ Asked
    /\ UNCHANGED <<supply, heater, trapped, quench, session, reading, stage, reached>>

\* go_to_zero: the driver first.
GoToZero(t) ==
    /\ Within(t, "go_to_zero")
    /\ \E done, raised \in BOOLEAN :
         /\ Ends(done, raised)
         /\ ramp' = IF done THEN "zero" ELSE ramp
         /\ IF raised THEN adrift' = (adrift \/ (done /\ ~zero)) /\ UNCHANGED <<target, zero, flags>>
            ELSE target' = Zero /\ zero' = TRUE /\ adrift' = FALSE /\ MarkTargetPending
    /\ Release /\ Disturb(t)
    /\ UNCHANGED <<supply, goal, heater, trapped, quench, session, reading>>

HeaterOn(t) ==
    /\ Within(t, "heater_on")
    /\ \E done, raised \in BOOLEAN :
         Ends(done, raised) /\ heater' = IF done THEN "warming" ELSE heater
    /\ Release /\ Disturb(t)
    /\ UNCHANGED <<supply, goal, ramp, trapped, quench, session, aim, flags, reading>>

\* The panel's buttons.
Order(name, f) ==
    /\ name = "ramp_to_field" \/ f = Zero
    /\ Check(Gui, name, f)
    /\ UNCHANGED scan

-----------------------------------------------------------------------------
(***************************************************************************)
(* Connection, configuration and shutdown.                                 *)
(***************************************************************************)
\* connect_instrument: a driver that does not connect leaves the flags of the last one.
Connect(t) ==
    /\ Outside(t) /\ lock = None /\ ~stopped
    /\ \/ /\ driver' = TRUE /\ zero' = FALSE /\ adrift' = FALSE
          /\ MarkTargetPending
       \/ /\ "connect" \in Faults
          /\ driver' = FALSE /\ adrift' = FALSE
          /\ UNCHANGED <<zero, flags>>
    /\ UNCHANGED <<device, section, stopped, target, reading>>

Replace == Connect(Gui) /\ Disturb(Gui)

Disconnect ==
    /\ Outside(Gui) /\ lock = None
    /\ driver' = FALSE /\ reading' = "clear"
    /\ MarkTargetPending /\ adrift' = FALSE
    /\ Disturb(Gui)
    /\ UNCHANGED <<device, section, stopped, target, zero>>

Shutdown ==
    /\ Outside(Gui) /\ lock = None
    /\ driver' = FALSE /\ stopped' = TRUE /\ reading' = "clear"
    /\ adrift' = FALSE
    /\ Disturb(Gui)
    /\ UNCHANGED <<device, section, target, zero, flags>>

\* set_stability_config, without the lock.
SetStabilityConfig ==
    /\ Outside(Gui)
    /\ since' = None /\ stable' = None
    /\ UNCHANGED <<device, section, session, aim, at, reading, scan>>

-----------------------------------------------------------------------------
(***************************************************************************)
(* ramp_to of the scan.                                                    *)
(***************************************************************************)
engine == <<device, section, session, aim, flags, reading>>

Stage(s) == stage = s /\ Outside(Scan)
Step(s)  == stage' = s /\ UNCHANGED <<asked, reached, refused, disturbed>>

Return(found) ==
    /\ stage' = "idle" /\ reached' = found
    /\ IF found THEN UNCHANGED <<asked, refused, disturbed>>
       ELSE asked' = Zero /\ refused' = FALSE /\ disturbed' = FALSE

\* The limits are asked for: a field outside them is an error.
Begin(f) ==
    /\ Stage("idle")
    /\ stage' = "probing" /\ asked' = f
    /\ reached' = FALSE /\ refused' = FALSE /\ disturbed' = FALSE
    /\ UNCHANGED engine

\* The limits, _raise_if_quenched with which every look at the state begins, and the end of
\* a wait without its field: the settle timeout, or Stop.
Leave ==
    /\ \/ Stage("probing") /\ lock = None
       \/ (Stage("commanding") \/ Stage("looking")) /\ reading = "quench"
       \/ Stage("looking") /\ at = None
    /\ Return(FALSE)
    /\ UNCHANGED engine

\* set_state: the preferred driver if none is connected ...
Ensure ==
    /\ Stage("probing") /\ reading # "quench"
    /\ \/ driver /\ Step("asking") /\ UNCHANGED engine
       \/ ~driver /\ stopped /\ Return(FALSE) /\ UNCHANGED engine
       \/ ~driver /\ Connect(Scan) /\ IF driver' THEN Step("asking") ELSE Return(FALSE)

\* ... a read ...
Probe == Stage("asking") /\ Read(Scan) /\ Step("commanding")

\* ... and ramp_to_field, which logs what it is refused.
Ramp ==
    /\ Stage("commanding") /\ reading # "quench"
    /\ Check(Scan, "ramp_to_field", asked)
    /\ stage' = "refreshing" /\ refused' = ~Allowed("ramp_to_field")
    /\ UNCHANGED <<asked, reached, disturbed>>

\* It does nothing if the driver has gone, and nor does a read.
WithoutDriver ==
    /\ lock = None /\ ~driver
    /\ \/ Stage("asking") /\ Step("commanding")
       \/ Stage("refreshing") /\ Step("looking")
       \/ /\ Stage("commanding") /\ reading # "quench"
          /\ stage' = "refreshing" /\ refused' = TRUE
          /\ UNCHANGED <<asked, reached, disturbed>>
    /\ UNCHANGED engine

\* A read, so that there is a state after the ramp.
Refresh == Stage("refreshing") /\ Read(Scan) /\ Step("looking")

\* is_at_target, of the cache; or of a read, if the cache is old or nothing is published.
Found == Stage("looking") /\ reading # "quench" /\ at # None /\ Return(TRUE) /\ UNCHANGED engine

Renew == Stage("looking") /\ Read(Scan) /\ UNCHANGED scan

RampTo == Leave \/ Ensure \/ Probe \/ Ramp \/ WithoutDriver \/ Refresh \/ Found \/ Renew

-----------------------------------------------------------------------------
Finish(t) ==
    \/ Conclude(t) \/ ReadFails(t)
    \/ RampToTarget(t) \/ RampToField(t) \/ GoToZero(t) \/ HeaterOn(t)

Next ==
    \/ Move \/ HeaterSettles \/ Quench \/ Recover
    \/ Poll \/ \E t \in Threads : Finish(t)
    \/ \E f \in Fields :
         \/ Begin(f) \/ SetTarget(f)
         \/ \E name \in Checked : Order(name, f)
    \/ Hold \/ HeaterOff
    \/ Replace \/ Disconnect \/ Shutdown \/ SetStabilityConfig
    \/ RampTo

Spec == Init /\ [][Next]_vars

-----------------------------------------------------------------------------
(***************************************************************************)
(* Properties.                                                             *)
(***************************************************************************)
\* The variables keep their types.
TypeOK ==
    /\ supply \in Fields \cup {Between} /\ goal \in Fields
    /\ ramp \in {"hold", "goal", "zero"}
    /\ heater \in Settled \cup {"warming", "cooling"}
    /\ trapped \in Fields \cup {Between, None} /\ quench \in BOOLEAN
    /\ lock \in Threads \cup {None}
    /\ held \in [by : Threads \cup {None}, place : Places, field : Fields \cup {Between},
                  quench : BOOLEAN, rest : BOOLEAN]
    /\ driver \in BOOLEAN /\ stopped \in BOOLEAN
    /\ target \in Fields \cup {None} /\ zero \in BOOLEAN /\ adrift \in BOOLEAN
    /\ at \in Fields \cup {None} /\ since \in Fields \cup {None} /\ stable \in Fields \cup {None}
    /\ reading \in {"clear", "quench"}
    /\ stage \in Stages /\ asked \in Fields
    /\ reached \in BOOLEAN /\ refused \in BOOLEAN /\ disturbed \in BOOLEAN

\* What an observer is told of the target is about the target in force: no flag outlives a
\* command that moves it, in whatever order commands, reads and failures come.  Two things
\* are not the flags' doing, and last until the next command that resets them: a command
\* that moved the aim and raised, and a read that found no set point and took an old one.
FlagsCurrent ==
    lock = None /\ driver /\ ~adrift => {at, stable} \subseteq {Aim, None}

\* _mark_target_pending: "Invalidate cached target/stability flags after a new target
\* command", one that raised included.
FlagsAlwaysCurrent == lock = None /\ driver => {at, stable} \subseteq {Aim, None}

\* A scan that goes on because its field is reached is at its field, unless someone else
\* has used the magnet or the ramp has been refused.
ReachedWhereAsked == reached /\ ~disturbed /\ ~refused => supply = asked

\* ... or the ramp has been refused or not: ramp_to is documented to emit state_error "if
\* the hardware faults" (plugins/state_scan/base.py, StateStepsPlugin).
ReachedOrError == reached /\ ~disturbed => supply = asked

\* No ramp starts while the switch heater opens or closes, though heater and ramps are
\* commanded by two threads.
NoRampInTransition ==
    [][ramp' # ramp /\ ramp' # "hold" => heater \in Settled]_vars

\* The heater is not turned on over a field that the supply does not match, if the supply
\* was at rest when the two were compared.
HeaterMatched ==
    [][heater' = "warming" /\ heater # "warming" /\ held.rest => trapped \in {None, supply}]_vars

-----------------------------------------------------------------------------
(***************************************************************************)
(* The inductive invariant.                                                *)
(***************************************************************************)
\* Who is in a critical section holds the lock, and what it has found out still holds: the
\* target it has read, the heater it has checked, the fields it has compared.
SectionOK ==
    /\ lock = held.by
    /\ held.by # None => driver
    /\ held.by # None /\ held.place \notin Checked => target = Aim \/ adrift
    /\ held.by = None => held.place \notin Checked
    /\ held.place \in Checked =>
         /\ heater \in Settled /\ held.field \in Fields
         /\ held.by = Gui \/ (held.by = Scan /\ held.place = "ramp_to_field")
    /\ held.place = "heater_on" /\ held.rest => AtRest /\ trapped \in {None, supply}

\* The flags are about the target in force at any time, not only outside a critical section.
FlagsAimed == driver /\ ~adrift => {at, since, stable} \subseteq {Aim, None}

\* Between the ramp of a scan and its measurement.
Ramped ==
    /\ ~disturbed /\ ~refused
    /\ reached \/ stage = "looking" \/ (stage = "refreshing" /\ ~Within(Scan, "ramp_to_field"))

\* Meanwhile the supply is bound for the scan's field, and where it was found it stays.
ScanOK ==
    /\ Within(Scan, "ramp_to_field") =>
         stage = "refreshing" /\ ~refused /\ (disturbed \/ held.field = asked)
    /\ reached => stage = "idle"
    /\ Ramped =>
         /\ goal = asked /\ target = asked /\ ~zero /\ ramp = "goal"
         /\ at # None \/ reached => supply = goal
         /\ held.by # None /\ held.place \notin Checked /\ held.field = target => supply = goal

IInv == TypeOK /\ SectionOK /\ ScanOK
=============================================================================
