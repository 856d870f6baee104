---------------------------- MODULE PressureState -----------------------------
(***************************************************************************)
(* What the pressure engine keeps, with the command that waits for a flow, *)
(* and what must hold of it.  PressureEngine is how the code changes it.   *)
(***************************************************************************)
EXTENDS Naturals

CONSTANTS
    Flows,           \* set points of the flow
    Panel, Worker,   \* the threads that use the engine; the panel's is the GUI thread
    Poller,          \* the thread of the timer's reads
    Readers,         \* the threads that read both devices
    MaxDeliveries,   \* bound on the timer notifications in flight when an operation begins
    Nothing

Users   == {Panel, Worker}
Devices == {"gauge", "mfc"}

ASSUME PressureAssumption ==
    /\ Readers \subseteq Users \cup {Poller}
    /\ Nothing \notin Flows \cup Devices \cup Users \cup {Poller}
    /\ Panel # Worker /\ Poller \notin Users /\ MaxDeliveries \in Nat

VARIABLES
    holder,      \* the holder of _engine_lock
    drivers,     \* the devices connected: _driver, _mfc_driver
    errors,      \* the devices flagged: _pressure_error, _mfc_error
    stopped,     \* status STOPPED
    rate,        \* whether the polling rate is above zero
    closed,      \* poller._closed
    known,       \* _last_flow_setpoints
    latest,      \* the flow in _latest_state, while it is news to the command
    requested, posted, running,   \* the timer: _requested_active, notifications, whether it fires
    flow,        \* the flow of the device
    programmed,  \* the set point it has
    place,       \* where each thread is
    dev,         \* the device it connects or disconnects
    start,       \* whether a connect will start the timer
    derived,     \* whether the status a thread is about to set is STOPPED
    carried,     \* the set points a read has copied
    news,        \* whether updates.revision differs from the revision of the command
    asked,       \* the set point of the command in progress
    owed,        \* history: whether the flow has still to come to asked
    accepted,    \* history: the last set point a caller was told is set, since the MFC was there
    failed,      \* history: the devices whose last connect or read failed
    starved      \* history: whether the last request to the timer is that of a failed connect

-----------------------------------------------------------------------------
\* The timer is up to date and nobody is about to ask it.
Quiet ==
    /\ posted = 0
    /\ \A t \in Users : place[t] \notin {"opening", "connecting", "closing", "starting", "stopping"}

\* One device that is connected, replaced or lost does not end the polling of the other, in
\* whatever order the threads do it: with a device and a rate the timer fires.  A connect that
\* fails does end it, see PollingIndependent.
PolledWhileConnected == Quiet /\ drivers # {} /\ rate /\ ~starved => running

\* The failure of a device's last connect or read is flagged until it has answered again or
\* is disconnected, whatever the other device and the other threads do meanwhile.
FailureShown == failed \subseteq errors

\* The set point the engine knows and tells is the last one a caller was told is set: no read
\* that was under way brings an older one back.
SetpointKept == accepted # Nothing => known = accepted

\* A Set Flow that ends as reached has come there since its command: neither a state of
\* before nor news of before ends its wait.  Unless the panel has set another flow.
ReachedSinceSet == place[Worker] = "reached" => ~owed
=============================================================================
