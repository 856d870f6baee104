----------------------------- MODULE XrayEngine -----------------------------
(***************************************************************************)
(* The operations of the diffractometer engine,                            *)
(* src/stoner_measurement/xray_control/engine.py: moves and counts run by  *)
(* their caller, or launched on a thread of their own with a ticket, all   *)
(* under one engine lock and all cancelled through one event.              *)
(*                                                                         *)
(* cancel_operation takes no lock.  Connecting and disconnecting cancel    *)
(* first and then join the operation's thread for a limited time; a connect*)
(* does so while it holds the lock that thread may be waiting for.  Angles *)
(* and times are abstracted to the number of steps the driver has left,    *)
(* polling and its timer to a read any caller may make (ControllerEngine   *)
(* models them), CONNECTED and POLLING to one status, "ready".             *)
(***************************************************************************)
EXTENDS Naturals

CONSTANTS
    Callers,         \* threads that use the engine, the GUI thread included
    Gui,             \* the GUI thread: it launches operations, and shuts down
    MaxOperations,   \* bound on the operations launched
    Steps,           \* steps the driver makes in an operation
    None

Operations == 1..MaxOperations
Threads == Callers \cup Operations

ASSUME XrayAssumption ==
    /\ MaxOperations \in Nat /\ Steps \in Nat \ {0}
    /\ Gui \in Callers /\ Callers \cap Nat = {}
    /\ None \notin Callers \cup Nat

VARIABLES
    lock,      \* the holder of _engine_lock
    driver,    \* whether a driver is connected
    status,    \* _status
    cancel,    \* _cancel_event
    ticket,    \* the operation launched last, 0 if none: _operation_ticket
    moving,    \* _latest_state.moving
    pc,        \* where each thread is
    kind,      \* what a thread that operates does: move or count
    left,      \* steps its operation has left
    aimed      \* operations that a cancel_operation found unfinished

session   == <<driver, status>>
operation == <<kind, left>>
vars == <<lock, session, cancel, ticket, moving, pc, operation, aimed>>

Kinds    == {"move", "count"}
Busy     == {"moving", "counting"}
Statuses == {"disconnected", "ready", "error", "stopped"} \cup Busy
Places   == {"idle", "wanting", "draining", "opening", "closing", "stopping", "releasing",
             "marking", "demoting", "queued", "driving", "ending", "over"}

Workers == Callers \ {Gui}
Goto(t, place) == pc' = [pc EXCEPT ![t] = place]

\* _operation_active
Active == ticket # 0 /\ pc[ticket] # "over"

Init ==
    /\ lock = None
    /\ driver = FALSE /\ status = "disconnected"
    /\ cancel = FALSE /\ ticket = 0 /\ moving = FALSE
    /\ pc = [t \in Threads |-> "idle"]
    /\ kind = [t \in Threads |-> "move"] /\ left = [t \in Threads |-> Steps]
    /\ aimed = {}

-----------------------------------------------------------------------------
(***************************************************************************)
(* Cancelling.                                                             *)
(***************************************************************************)
\* cancel_operation, wherever it is called from.
CancelOperation ==
    /\ cancel' = TRUE
    /\ aimed' = IF Active THEN aimed \cup {ticket} ELSE aimed

Cancel(t) ==
    /\ pc[t] = "idle" /\ t \in Callers
    /\ CancelOperation
    /\ UNCHANGED <<lock, session, ticket, moving, pc, operation>>

\* Mutant: the thread is joined without a limit.
JoinUntilOver == ~Active

\* A join of the operation's thread returns when it has ended or its time is up.
JoinReturns == TRUE

-----------------------------------------------------------------------------
(***************************************************************************)
(* Operations.                                                             *)
(***************************************************************************)
\* Mutant: a new operation does not look for the one before.
LaunchAnother(t, k) ==
    /\ pc[t] = "idle" /\ t \in Callers /\ lock = None
    /\ status # "stopped" /\ ticket < MaxOperations
    /\ cancel' = FALSE
    /\ ticket' = ticket + 1
    /\ moving' = (k = "move" \/ moving)
    /\ pc' = [pc EXCEPT ![ticket + 1] = "queued"]
    /\ kind' = [kind EXCEPT ![ticket + 1] = k]
    /\ UNCHANGED <<lock, session, left, aimed>>

\* start_move and start_count, under the lock: one launched operation at a time.
Launch(t, k) ==
    /\ pc[t] = "idle" /\ t \in Callers /\ lock = None
    /\ ~Active /\ status # "stopped" /\ ticket < MaxOperations
    /\ cancel' = FALSE
    /\ ticket' = ticket + 1
    /\ moving' = (k = "move" \/ moving)
    /\ pc' = [pc EXCEPT ![ticket + 1] = "queued"]
    /\ kind' = [kind EXCEPT ![ticket + 1] = k]
    /\ UNCHANGED <<lock, session, left, aimed>>

\* move_to and count once the lock is taken, up to the call of the driver.
Take(t, k) ==
    /\ lock = None /\ driver
    /\ lock' = t
    /\ status' = IF k = "move" THEN "moving" ELSE "counting"
    /\ moving' = (k = "move" \/ moving)
    /\ Goto(t, "driving")
    /\ UNCHANGED <<driver, ticket, aimed>>

\* Mutant: the event is cleared before the lock is waited for.
BeginAnyTime(t, k) ==
    /\ pc[t] = "idle" /\ t \in Workers
    /\ cancel' = FALSE
    /\ UNCHANGED <<lock, session, ticket, moving, pc, operation, aimed>>

\* ... called by a thread of the sequence: whatever was cancelled, this is not.
Begin(t, k) ==
    /\ pc[t] = "idle" /\ t \in Workers
    /\ Take(t, k)
    /\ cancel' = FALSE
    /\ kind' = [kind EXCEPT ![t] = k]
    /\ left' = [left EXCEPT ![t] = Steps]

\* ... and by the thread of a launched operation.
BeginLaunched(o) ==
    /\ pc[o] = "queued"
    /\ Take(o, kind[o])
    /\ UNCHANGED <<cancel, operation>>

\* _require_driver raises: the launched operation fails before it has begun.
NoDriver(o) ==
    /\ pc[o] = "queued" /\ lock = None /\ ~driver
    /\ Goto(o, "ending")
    /\ UNCHANGED <<lock, session, cancel, ticket, moving, operation, aimed>>

\* The driver makes a step, having looked at the event.
Drive(t) ==
    /\ pc[t] = "driving" /\ left[t] > 0 /\ ~cancel
    /\ left' = [left EXCEPT ![t] = @ - 1]
    /\ UNCHANGED <<lock, session, cancel, ticket, moving, pc, kind, aimed>>

\* Mutant: the status of an operation that was cancelled stays.
LeaveBusy(t, outcome) ==
    /\ lock' = None
    /\ status' = status
    /\ moving' = (kind[t] # "move" /\ moving)
    /\ Goto(t, IF t \in Operations THEN "ending" ELSE "idle")
    /\ UNCHANGED <<driver, cancel, ticket, operation, aimed>>

\* However it ends, an operation sets the status and releases the lock.
Leave(t, outcome) ==
    /\ lock' = None
    /\ status' = outcome
    /\ moving' = (kind[t] # "move" /\ moving)
    /\ Goto(t, IF t \in Operations THEN "ending" ELSE "idle")
    /\ UNCHANGED <<driver, cancel, ticket, operation, aimed>>

Complete(t)  == pc[t] = "driving" /\ left[t] = 0 /\ Leave(t, "ready")
Interrupt(t) == pc[t] = "driving" /\ left[t] > 0 /\ cancel /\ Leave(t, "ready")
Fail(t)      == pc[t] = "driving" /\ Leave(t, "error")

\* The finally clause of run takes the lock again to set ticket.done.
EndLaunched(o) ==
    /\ pc[o] = "ending" /\ lock = None
    /\ Goto(o, "over")
    /\ UNCHANGED <<lock, session, cancel, ticket, moving, operation, aimed>>

\* read_controller_state: not while a launched operation is active.
Read(t) ==
    /\ pc[t] = "idle" /\ t \in Callers /\ lock = None
    /\ driver /\ ~Active
    /\ status' \in {"ready", "error"}
    /\ UNCHANGED <<lock, driver, cancel, ticket, moving, pc, operation, aimed>>

-----------------------------------------------------------------------------
(***************************************************************************)
(* Connection, polling rate and shutdown.                                  *)
(***************************************************************************)
\* The critical section of disconnect_instrument.
Release ==
    /\ driver' = FALSE
    /\ status' = IF status = "stopped" THEN "stopped" ELSE "disconnected"

\* connect_preferred_driver, and the panel's button: nothing if a driver is connected.
Want(t) ==
    /\ pc[t] = "idle" /\ t \in Callers /\ ~driver
    /\ Goto(t, "wanting")
    /\ UNCHANGED <<lock, session, cancel, ticket, moving, operation, aimed>>

\* connect_instrument: the lock, then disconnect_instrument, which cancels ...
Connect(t) ==
    /\ pc[t] = "wanting" /\ lock = None /\ status # "stopped"
    /\ lock' = t
    /\ CancelOperation
    /\ Goto(t, "draining")
    /\ UNCHANGED <<session, ticket, moving, operation>>

Refused(t) ==
    /\ pc[t] = "wanting" /\ lock = None /\ status = "stopped"
    /\ Goto(t, "idle")
    /\ UNCHANGED <<lock, session, cancel, ticket, moving, operation, aimed>>

\* ... joins and releases the driver of before ...
Drained(t) ==
    /\ pc[t] = "draining" /\ JoinReturns
    /\ Release
    /\ Goto(t, "opening")
    /\ UNCHANGED <<lock, cancel, ticket, moving, operation, aimed>>

\* ... and opens the new one, which answers or does not.
Opened(t) ==
    /\ pc[t] = "opening"
    /\ \/ driver' = TRUE /\ status' = "ready"
       \/ driver' = FALSE /\ status' = "error"
    /\ lock' = None
    /\ Goto(t, "idle")
    /\ UNCHANGED <<cancel, ticket, moving, operation, aimed>>

\* disconnect_instrument: cancel and join without the lock, then release the driver.
Disconnect(t) ==
    /\ pc[t] = "idle" /\ t \in Callers /\ driver
    /\ CancelOperation
    /\ Goto(t, "closing")
    /\ UNCHANGED <<lock, session, ticket, moving, operation>>

Disconnected(t) ==
    /\ pc[t] = "closing" /\ JoinReturns /\ lock = None
    /\ Release
    /\ Goto(t, "idle")
    /\ UNCHANGED <<lock, cancel, ticket, moving, operation, aimed>>

\* set_polling_rate(0), without the lock: the status is looked at ...
DisablePolling ==
    /\ pc[Gui] = "idle" /\ driver /\ status \notin Busy
    /\ Goto(Gui, "demoting")
    /\ UNCHANGED <<lock, session, cancel, ticket, moving, operation, aimed>>

\* ... and set.
Demote ==
    /\ pc[Gui] = "demoting"
    /\ status' = "ready"
    /\ Goto(Gui, "idle")
    /\ UNCHANGED <<lock, driver, cancel, ticket, moving, operation, aimed>>

\* shutdown: cancel and join, then disconnect, which cancels and joins again ...
Shutdown ==
    /\ pc[Gui] = "idle" /\ status # "stopped"
    /\ CancelOperation
    /\ Goto(Gui, "stopping")
    /\ UNCHANGED <<lock, session, ticket, moving, operation>>

ShutdownCancel ==
    /\ pc[Gui] = "stopping" /\ JoinReturns
    /\ CancelOperation
    /\ Goto(Gui, "releasing")
    /\ UNCHANGED <<lock, session, ticket, moving, operation>>

ShutdownRelease ==
    /\ pc[Gui] = "releasing" /\ JoinReturns /\ lock = None
    /\ Release
    /\ Goto(Gui, "marking")
    /\ UNCHANGED <<lock, cancel, ticket, moving, operation, aimed>>

\* ... and STOPPED is set last, without the lock.
ShutdownMark ==
    /\ pc[Gui] = "marking"
    /\ status' = "stopped"
    /\ Goto(Gui, "idle")
    /\ UNCHANGED <<lock, driver, cancel, ticket, moving, operation, aimed>>

-----------------------------------------------------------------------------
Operate(t) == Drive(t) \/ Complete(t) \/ Interrupt(t) \/ Fail(t)
RunLaunched(o) == BeginLaunched(o) \/ NoDriver(o) \/ Operate(o) \/ EndLaunched(o)
Finish(t) == Operate(t) \/ Connect(t) \/ Refused(t) \/ Drained(t) \/ Opened(t) \/ Disconnected(t)
GuiFinish == Demote \/ ShutdownCancel \/ ShutdownRelease \/ ShutdownMark

Next ==
    \/ \E t \in Callers :
         \/ Cancel(t) \/ Read(t) \/ Want(t) \/ Disconnect(t) \/ Finish(t)
         \/ \E k \in Kinds : Launch(t, k) \/ Begin(t, k)
    \/ \E o \in Operations : RunLaunched(o)
    \/ DisablePolling \/ Shutdown \/ GuiFinish

\* Every thread is scheduled, and one that waits for the engine lock is not overtaken for
\* ever.  Nobody has to call the engine.
Spec ==
    /\ Init /\ [][Next]_vars
    /\ \A t \in Callers : SF_vars(Finish(t))
    /\ \A o \in Operations : SF_vars(RunLaunched(o))
    /\ SF_vars(GuiFinish)

-----------------------------------------------------------------------------
(***************************************************************************)
(* Properties.                                                             *)
(***************************************************************************)
\* The variables keep their types.
TypeOK ==
    /\ lock \in Threads \cup {None}
    /\ driver \in BOOLEAN /\ status \in Statuses
    /\ cancel \in BOOLEAN /\ ticket \in 0..MaxOperations /\ moving \in BOOLEAN
    /\ pc \in [Threads -> Places]
    /\ kind \in [Threads -> Kinds] /\ left \in [Threads -> 0..Steps]
    /\ aimed \subseteq Operations

\* The thread that drives, drains or opens holds the lock: no other thread moves, counts or
\* takes the driver away meanwhile, and the driver that moves or counts is connected.  The
\* zeros, the limit latch and the motor switch are commanded without the lock; they are
\* left out here.
LockHeld ==
    \A t \in Threads :
        /\ lock = t <=> pc[t] \in {"driving", "draining", "opening"}
        /\ pc[t] = "driving" => driver

\* Only the last operation launched can be unfinished, and it is in one of the places of
\* its thread.
OneLaunched ==
    \A o \in Operations :
        /\ o < ticket => pc[o] = "over"
        /\ o > ticket <=> pc[o] = "idle"
        /\ pc[o] \in {"idle", "queued", "driving", "ending", "over"}

\* The engine does not stay busy: a status of moving or counting, on which the panel
\* disables Move, Disconnect and Zero, is that of a thread that drives.
BusyIsDriving == status \in Busy => \E t \in Threads : lock = t /\ pc[t] = "driving"

\* The inductive invariant.
IInv == TypeOK /\ LockHeld /\ OneLaunched /\ BusyIsDriving

\* A cancel that finds an operation at the driver is heard: whoever else uses the engine,
\* the driver makes no further step and the event is not cleared under it.
CancelHeard ==
    [][\A t \in Threads : pc[t] = "driving" /\ cancel =>
         left'[t] = left[t] /\ (pc'[t] = "driving" => cancel')]_vars

\* Every launched operation gets its ticket done, the connect that joins its thread while
\* holding the lock it waits for included.
TicketsResolve == \A o \in Operations : pc[o] = "queued" ~> pc[o] = "over"

\* Claim: cancelling a launched operation stops it.
CancelReaches == [][\A o \in aimed : left'[o] = left[o]]_vars

\* Claim: a motion is reported as unfinished only while there is one.
MotionCompletes == moving => Active \/ \E t \in Threads : pc[t] = "driving"

\* Claim: an engine that was shut down stays so.
StoppedForGood == [][status = "stopped" => status' = "stopped"]_vars
=============================================================================
