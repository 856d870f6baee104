---------------------------- MODULE PlotService ----------------------------
(***************************************************************************)
(* The plot dispatcher of src/stoner_measurement/core/plotting/service.py. *)
(*                                                                         *)
(* Producers on worker threads submit requests and groups of requests; the *)
(* GUI thread drains the queue in bounded turns it schedules with a posted *)
(* wake event, or at once for a synchronous caller; anyone may cancel what *)
(* is still queued; the display may be replaced while the dispatcher is    *)
(* idle; and the application shuts the service down.  Each lock region is  *)
(* one step.  Payloads and graphics are abstracted to the status of a      *)
(* request; the renderer chooses it.                                       *)
(***************************************************************************)
EXTENDS Naturals, FiniteSets, Sequences

CONSTANTS
    Requests,        \* request identities
    Batches,         \* the groups producers submit: sequences of requests
    MaxPending,      \* max_pending
    MaxGeneration,   \* bound on the display replacements explored
    None

Statuses == {"applied", "unsupported", "failed", "cancelled", "no_display"}

ASSUME PlotAssumption ==
    /\ MaxPending \in Nat \ {0}
    /\ MaxGeneration \in Nat
    /\ None \notin Requests \cup Statuses
    /\ \A b \in Batches : /\ b \in Seq(Requests)
                          /\ \A j, k \in 1..Len(b) : b[j] = b[k] => j = k

VARIABLES
    queue,       \* _queue, oldest first; a cancelled entry may linger in it
    pending,     \* the keys of _pending
    seen,        \* _seen
    groups,      \* _groups: the members of the group a request belongs to
    active,      \* _active
    closed,      \* _closed
    switching,   \* _switching
    wake,        \* _wake_scheduled
    posted,      \* wake events posted to the GUI thread and not yet delivered
    bridge,      \* whether a renderer bridge is attached
    generation,  \* _generation
    gui,         \* where the GUI thread is inside the service
    immediate,   \* the argument of the _drain in progress
    result,      \* the terminal status each ticket holds
    accepted,    \* history: the requests in the order of acceptance
    bornIn,      \* history: the generation a request was accepted in
    drawnIn      \* history: the generation a request was applied in

lockVars == <<queue, pending, seen, groups, result, accepted, bornIn, drawnIn>>
wakeVars == <<wake, posted>>
stateVars == <<closed, switching, bridge, generation>>
vars == <<queue, pending, seen, groups, active, closed, switching, wake, posted, bridge,
          generation, gui, immediate, result, accepted, bornIn, drawnIn>>

Breaking  == {"unsupported", "failed", "cancelled"}
GuiPlaces == {"idle", "enter", "loop", "apply", "clear", "replacing", "replaced", "detach"}

Members(b) == {b[k] : k \in 1..Len(b)}

\* The requests submitted on their own.
Singles == Requests \ UNION {Members(b) : b \in Batches}

\* The sequence q without its k-th element.
Without(q, k) == [i \in 1..(Len(q) - 1) |-> IF i < k THEN q[i] ELSE q[i + 1]]

InQueue(r) == \E k \in 1..Len(queue) : queue[k] = r

Init ==
    /\ queue = <<>> /\ pending = {} /\ seen = {} /\ active = None
    /\ groups = [r \in Requests |-> {}]
    /\ closed = FALSE /\ switching = FALSE
    /\ wake = FALSE /\ posted = 0
    /\ bridge \in BOOLEAN /\ generation = (IF bridge THEN 1 ELSE 0)
    /\ gui = "idle" /\ immediate = FALSE
    /\ result = [r \in Requests |-> None]
    /\ accepted = <<>>
    /\ bornIn = [r \in Requests |-> 0] /\ drawnIn = [r \in Requests |-> 0]

-----------------------------------------------------------------------------
(***************************************************************************)
(* The parts of a lock region.                                             *)
(***************************************************************************)
\* _schedule_wake: at most one wake event is posted for each clearing of the flag.
ScheduleWake ==
    /\ wake' = TRUE
    /\ posted' = IF wake THEN posted ELSE posted + 1

Decided(r, status, fallen) ==
    /\ pending' = pending \ ({r} \cup fallen)
    /\ result' = [q \in Requests |-> IF q = r THEN status
                                     ELSE IF q \in fallen THEN "cancelled" ELSE result[q]]
    /\ groups' = [q \in Requests |->
                      IF q = r \/ (status \in Breaking /\ q \in groups[r]) THEN {} ELSE groups[q]]

\* _finish: a ticket still pending takes its one result, and a member that did not
\* apply cancels the members of its group that are still queued.
Decide(r, status) ==
    IF r \in pending
    THEN Decided(r, status, IF status \in Breaking
                            THEN {q \in groups[r] \cap pending : InQueue(q)} \ {r} ELSE {})
    ELSE UNCHANGED <<pending, result, groups>>

\* Mutant: the capacity is checked for one request, whatever the size of the group.
AcceptableOneFree(b) ==
    /\ ~switching
    /\ \A k \in 1..Len(b) : b[k] \notin seen
    /\ Cardinality(pending) < MaxPending

\* The acceptance checks of submit_many and _enqueue.
Acceptable(b) ==
    /\ ~switching
    /\ \A k \in 1..Len(b) : b[k] \notin seen
    /\ Cardinality(pending) + Len(b) <= MaxPending

\* _enqueue of each request of b; members of a group of one are not grouped.
Accept(b, grouped) ==
    /\ seen' = seen \cup Members(b)
    /\ accepted' = accepted \o b
    /\ bornIn' = [r \in Requests |-> IF r \in Members(b) THEN generation ELSE bornIn[r]]
    /\ IF closed
       THEN /\ result' = [r \in Requests |-> IF r \in Members(b) THEN "cancelled" ELSE result[r]]
            /\ UNCHANGED <<queue, pending, groups>>
       ELSE /\ queue' = queue \o b
            /\ pending' = pending \cup Members(b)
            /\ groups' = [r \in Requests |->
                              IF grouped /\ r \in Members(b) THEN Members(b) ELSE groups[r]]
            /\ UNCHANGED result
    /\ UNCHANGED drawnIn

-----------------------------------------------------------------------------
(***************************************************************************)
(* Producers and cancellers, on any thread.                                *)
(***************************************************************************)
\* submit_many; submit is the group of one.
SubmitMany(b) ==
    /\ Acceptable(b)
    /\ Accept(b, Len(b) > 1)
    /\ IF active = None /\ ~closed THEN ScheduleWake ELSE UNCHANGED wakeVars
    /\ UNCHANGED <<active, stateVars, gui, immediate>>

\* Mutant: the ticket is taken off the queue and never finished.
CancelSilently(r) ==
    /\ \E k \in 1..Len(queue) : queue[k] = r /\ queue' = Without(queue, k)
    /\ UNCHANGED <<pending, result, groups, seen, accepted, bornIn, drawnIn, active, wakeVars,
                   stateVars, gui, immediate>>

\* cancel: one ticket that is still queued, and with it the rest of its group.
Cancel(r) ==
    /\ \E k \in 1..Len(queue) : queue[k] = r /\ queue' = Without(queue, k)
    /\ Decide(r, "cancelled")
    /\ UNCHANGED <<seen, accepted, bornIn, drawnIn, active, wakeVars, stateVars, gui, immediate>>

CancelQueued ==
    /\ queue' = <<>>
    /\ pending' = {r \in pending : ~InQueue(r)}
    /\ result' = [r \in Requests |->
                      IF r \in pending /\ InQueue(r) THEN "cancelled" ELSE result[r]]
    /\ groups' = [r \in Requests |->
                      IF \E q \in pending : InQueue(q) /\ (q = r \/ r \in groups[q])
                      THEN {} ELSE groups[r]]
    /\ UNCHANGED <<seen, accepted, bornIn, drawnIn>>

\* cancel_pending: everything queued, but not the request being applied.
CancelPending ==
    /\ queue # <<>>
    /\ CancelQueued
    /\ UNCHANGED <<active, wakeVars, stateVars, gui, immediate>>

-----------------------------------------------------------------------------
(***************************************************************************)
(* The GUI thread.                                                         *)
(***************************************************************************)
\* apply_now, and invoke_legacy from the GUI: accept, then drain without a budget.
ApplyNow(r) ==
    /\ gui = "idle" /\ active = None
    /\ Acceptable(<<r>>)
    /\ Accept(<<r>>, FALSE)
    /\ gui' = "enter" /\ immediate' = TRUE
    /\ UNCHANGED <<active, wakeVars, stateVars>>

\* Mutant: the drain runs without a wake event to consume.
DeliverUnposted ==
    /\ gui = "idle"
    /\ posted' = posted - 1
    /\ gui' = "enter" /\ immediate' = FALSE
    /\ UNCHANGED <<lockVars, active, stateVars, wake>>

DeliverWake ==
    /\ gui = "idle" /\ posted > 0
    /\ posted' = posted - 1
    /\ gui' = "enter" /\ immediate' = FALSE
    /\ UNCHANGED <<lockVars, active, stateVars, wake>>

EnterDrain ==
    /\ gui = "enter"
    /\ wake' = FALSE
    /\ gui' = "loop"
    /\ UNCHANGED <<lockVars, active, stateVars, posted, immediate>>

DrainDone ==
    /\ gui = "loop" /\ (queue = <<>> \/ active # None)
    /\ gui' = "idle"
    /\ UNCHANGED <<lockVars, active, stateVars, wakeVars, immediate>>

\* Mutant: a turn that exhausts its budget returns without a new wake event.
YieldSilently ==
    /\ gui = "loop" /\ queue # <<>> /\ active = None /\ ~immediate
    /\ gui' = "idle"
    /\ UNCHANGED <<lockVars, active, stateVars, wakeVars, immediate>>

\* A turn ends after 16 requests or 5 ms, whichever comes first: at any point.
Yield ==
    /\ gui = "loop" /\ queue # <<>> /\ active = None /\ ~immediate
    /\ ScheduleWake
    /\ gui' = "idle"
    /\ UNCHANGED <<lockVars, active, stateVars, immediate>>

\* Mutant: the newest request is taken first.
PopNewest ==
    /\ gui = "loop" /\ queue # <<>> /\ active = None
    /\ queue' = SubSeq(queue, 1, Len(queue) - 1)
    /\ IF queue[Len(queue)] \in pending
       THEN active' = queue[Len(queue)] /\ gui' = "apply"
       ELSE UNCHANGED <<active, gui>>
    /\ UNCHANGED <<pending, seen, groups, result, accepted, bornIn, drawnIn, stateVars,
                   wakeVars, immediate>>

Pop ==
    /\ gui = "loop" /\ queue # <<>> /\ active = None
    /\ queue' = Tail(queue)
    /\ IF Head(queue) \in pending
       THEN active' = Head(queue) /\ gui' = "apply"
       ELSE UNCHANGED <<active, gui>>
    /\ UNCHANGED <<pending, seen, groups, result, accepted, bornIn, drawnIn, stateVars,
                   wakeVars, immediate>>

\* The renderer's answer; without a bridge nothing is drawn.
Outcomes == IF bridge THEN {"applied", "unsupported", "failed"} ELSE {"no_display", "unsupported"}

\* Mutant: a member that fails does not cancel the rest of its group.
ApplyUngrouped(status) ==
    /\ gui = "apply" /\ status \in Outcomes
    /\ pending' = pending \ {active}
    /\ result' = [result EXCEPT ![active] = status]
    /\ drawnIn' = IF status = "applied" THEN [drawnIn EXCEPT ![active] = generation] ELSE drawnIn
    /\ gui' = "clear"
    /\ UNCHANGED <<queue, groups, seen, accepted, bornIn, active, stateVars, wakeVars, immediate>>

Apply(status) ==
    /\ gui = "apply" /\ status \in Outcomes
    /\ Decide(active, status)
    /\ drawnIn' = IF status = "applied" THEN [drawnIn EXCEPT ![active] = generation] ELSE drawnIn
    /\ gui' = "clear"
    /\ UNCHANGED <<queue, seen, accepted, bornIn, active, stateVars, wakeVars, immediate>>

\* Mutant: the active request is not cleared after it was applied.
KeepActive ==
    /\ gui = "clear"
    /\ gui' = "loop"
    /\ UNCHANGED <<lockVars, active, stateVars, wakeVars, immediate>>

ClearActive ==
    /\ gui = "clear"
    /\ active' = None
    /\ gui' = "loop"
    /\ UNCHANGED <<lockVars, stateVars, wakeVars, immediate>>

\* Mutant: the guard looks at the active request only.
EnterGuardEarly ==
    /\ gui = "idle" /\ bridge
    /\ ~closed /\ ~switching /\ active = None
    /\ generation < MaxGeneration
    /\ switching' = TRUE
    /\ gui' = "replacing"
    /\ UNCHANGED <<lockVars, active, closed, bridge, generation, wakeVars, immediate>>

\* replacement_guard: the display host, which attached the bridge, reserves an idle
\* dispatcher while it hydrates a candidate.
EnterGuard ==
    /\ gui = "idle" /\ bridge
    /\ ~closed /\ ~switching /\ pending = {} /\ active = None
    /\ generation < MaxGeneration
    /\ switching' = TRUE
    /\ gui' = "replacing"
    /\ UNCHANGED <<lockVars, active, closed, bridge, generation, wakeVars, immediate>>

CommitReplacement ==
    /\ gui = "replacing"
    /\ generation' = generation + 1
    /\ gui' = "replaced"
    /\ UNCHANGED <<lockVars, active, closed, switching, bridge, wakeVars, immediate>>

\* The guard is released whether the candidate was committed or failed.
LeaveGuard ==
    /\ gui \in {"replacing", "replaced"}
    /\ switching' = FALSE
    /\ gui' = "idle"
    /\ UNCHANGED <<lockVars, active, closed, bridge, generation, wakeVars, immediate>>

\* shutdown: close and cancel in one lock region, then detach the renderer.
Shutdown ==
    /\ gui = "idle" /\ ~closed
    /\ closed' = TRUE
    /\ CancelQueued
    /\ gui' = "detach"
    /\ UNCHANGED <<active, switching, bridge, generation, wakeVars, immediate>>

Detach ==
    /\ gui = "detach"
    /\ bridge' = FALSE
    /\ gui' = "idle"
    /\ UNCHANGED <<lockVars, active, closed, switching, generation, wakeVars, immediate>>

-----------------------------------------------------------------------------
Producer ==
    \/ \E b \in Batches : SubmitMany(b)
    \/ \E r \in Singles : SubmitMany(<<r>>)
    \/ \E r \in Requests : Cancel(r)
    \/ CancelPending

Dispatcher ==
    \/ DeliverWake \/ EnterDrain \/ DrainDone \/ Yield \/ Pop \/ ClearActive
    \/ \E status \in Statuses : Apply(status)
    \/ CommitReplacement \/ LeaveGuard \/ Detach

Application == EnterGuard \/ Shutdown \/ \E r \in Singles : ApplyNow(r)

Next == Producer \/ Dispatcher \/ Application

\* The GUI event loop runs, every renderer call returns, and a turn is not for ever
\* preempted for its whole 5 ms before it takes its first request.
Spec == Init /\ [][Next]_vars /\ WF_vars(Dispatcher) /\ SF_vars(Pop)

-----------------------------------------------------------------------------
(***************************************************************************)
(* Properties.                                                             *)
(***************************************************************************)
\* The variables keep their types.
TypeOK ==
    /\ queue \in Seq(Requests) /\ pending \subseteq Requests /\ seen \subseteq Requests
    /\ groups \in [Requests -> SUBSET Requests]
    /\ active \in Requests \cup {None}
    /\ closed \in BOOLEAN /\ switching \in BOOLEAN /\ wake \in BOOLEAN /\ bridge \in BOOLEAN
    /\ posted \in Nat /\ generation \in Nat
    /\ gui \in GuiPlaces /\ immediate \in BOOLEAN
    /\ result \in [Requests -> Statuses \cup {None}]
    /\ accepted \in Seq(Requests)
    /\ bornIn \in [Requests -> Nat] /\ drawnIn \in [Requests -> Nat]

\* No accepted request is lost: one without a result is queued or being applied, and
\* every ticket that left _pending holds its result.
NoneLost ==
    /\ \A r \in pending : InQueue(r) \/ r = active
    /\ \A r \in Requests : result[r] # None <=> r \in seen \ pending

\* No lost wakeup: whenever the GUI thread is outside the service and something is
\* queued, a wake event is on its way.
WakeOnTheWay ==
    /\ wake => posted > 0 \/ gui = "enter"
    /\ queue # <<>> /\ gui \in {"idle", "replacing", "replaced", "detach"} => posted > 0

\* The queue never holds more outstanding requests than max_pending.
WithinCapacity == Cardinality(pending) <= MaxPending

\* A display replacement has the dispatcher to itself, and no request is accepted for
\* one display and drawn on another.
ReplacementIsolated ==
    /\ switching => pending = {} /\ active = None
    /\ \A r \in Requests : result[r] = "applied" => drawnIn[r] = bornIn[r]

\* A group never draws past a hole: a member is applied only if no earlier member of
\* its group failed, was refused or was cancelled.
GroupsStopAtFirstFailure ==
    \A b \in Batches : \A j, k \in 1..Len(b) :
        j < k /\ result[b[j]] \in Breaking
        => result[b[k]] # "applied"

\* A ticket holds one terminal result for ever: nothing decided is decided again.
OneResult == [][\A r \in Requests : result[r] # None => result'[r] = result[r]]_vars

\* Requests are drawn in the order of their acceptance: when one is applied, all those
\* accepted before it are decided.
DrawnInOrder ==
    [][\A k \in 1..Len(accepted) :
           result[accepted[k]] = None /\ result'[accepted[k]] = "applied"
           => \A j \in 1..(k - 1) : result[accepted[j]] # None]_vars

\* Every accepted request is answered: a worker waiting for its ticket is woken.
EveryTicketFinishes == \A r \in Requests : r \in pending ~> r \notin pending

-----------------------------------------------------------------------------
(***************************************************************************)
(* What the dispatcher promises: PlotTickets, one answer for each ticket,  *)
(* in order.  A request waits there while it is in _pending.               *)
(***************************************************************************)
Promise == INSTANCE PlotTickets

\* Whatever turns are taken, interrupted and cancelled, producers see one queue of tickets
\* that are answered in order, groups that stop at their first hole, and a shutdown after
\* which nothing waits.
ImplementsPlotTickets == Promise!Spec

-----------------------------------------------------------------------------
(***************************************************************************)
(* What the proofs of PlotServiceProofs need beside these.                 *)
(***************************************************************************)
\* An identity is queued at most once, and the active request is no longer queued.
QueueDistinct ==
    /\ \A j, k \in 1..Len(queue) : queue[j] = queue[k] => j = k
    /\ \A r \in Requests : InQueue(r) => r \in seen /\ r # active
    /\ pending \subseteq seen /\ (active # None => active \in seen)

\* What the GUI thread holds at each place of _drain and of a replacement.
PlaceConsistent ==
    /\ active = None <=> gui \notin {"apply", "clear"}
    /\ gui = "apply" => active \in pending
    /\ gui = "clear" => active \notin pending
    /\ switching <=> gui \in {"replacing", "replaced"}

\* An outstanding request was accepted for the display that is attached now.
PendingIsCurrent == \A r \in pending : bornIn[r] = generation

\* The inductive invariant.
IInv ==
    /\ TypeOK /\ NoneLost /\ WakeOnTheWay /\ ReplacementIsolated
    /\ QueueDistinct /\ PlaceConsistent /\ PendingIsCurrent

\* The groups share no request: an identity names one submission, and _seen refuses it
\* ever after.
GroupsDisjoint == \A b, c \in Batches : Members(b) \cap Members(c) # {} => b = c

\* The queue holds the members of a group in their order.
GroupQueued ==
    \A b \in Batches : \A j, k \in 1..Len(b) : \A m, n \in 1..Len(queue) :
        j < k /\ queue[m] = b[j] /\ queue[n] = b[k] => m < n

\* The members of a group are drawn from the front: while an earlier one is queued no
\* later one is active, and while an earlier one is outstanding no later one is applied.
GroupInOrder ==
    \A b \in Batches : \A j, k \in 1..Len(b) : j < k =>
        /\ InQueue(b[j]) => b[k] # active
        /\ result[b[k]] = "applied" => b[j] \notin pending

\* Outstanding members of a group know of each other, and nobody else does.
GroupKnown ==
    /\ \A b \in Batches : \A j, k \in 1..Len(b) :
           j # k /\ b[j] \in pending /\ b[k] \in pending => b[k] \in groups[b[j]]
    /\ \A r \in Requests : \A q \in groups[r] : \A b \in Batches :
           r \in Members(b) <=> q \in Members(b)

\* No member is outstanding behind a hole in its group.
GroupClosed ==
    \A b \in Batches : \A j, k \in 1..Len(b) :
        j < k /\ b[k] \in pending => result[b[j]] \notin Breaking

\* The invariant of groups, inductive relative to IInv.
GroupInv ==
    GroupQueued /\ GroupInOrder /\ GroupKnown /\ GroupClosed /\ GroupsStopAtFirstFailure

\* What was seen is what was accepted, each once.
AcceptedOnce ==
    /\ \A r \in Requests : r \in seen <=> \E k \in 1..Len(accepted) : accepted[k] = r
    /\ \A j, k \in 1..Len(accepted) : accepted[j] = accepted[k] => j = k

\* The queue holds requests in the order of their acceptance, behind the one being applied.
QueueInOrder ==
    /\ \A m, n \in 1..Len(queue) : \A j, k \in 1..Len(accepted) :
           m < n /\ queue[m] = accepted[j] /\ queue[n] = accepted[k] => j < k
    /\ \A j, k \in 1..Len(accepted) : accepted[j] = active /\ InQueue(accepted[k]) => j < k

\* Only members of a group have one.
GroupedInBatch == \A r \in Requests : groups[r] # {} => \E b \in Batches : r \in Members(b)

\* The invariant of the refinement, inductive relative to IInv.
OrderInv == AcceptedOnce /\ QueueInOrder /\ GroupedInBatch /\ (closed => pending = {})
=============================================================================
