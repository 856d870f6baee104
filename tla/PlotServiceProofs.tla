------------------------- MODULE PlotServiceProofs -------------------------
(***************************************************************************)
(* Proofs about PlotService, for every set of requests and groups, every   *)
(* capacity and every number of display replacements: the inductive        *)
(* invariant IInv and the safety properties that follow from it, those of  *)
(* groups (GroupInv), the order of acceptance (OrderInv), and that the     *)
(* dispatcher implements PlotTickets.                                      *)
(***************************************************************************)
EXTENDS PlotService, TLAPS

(***************************************************************************)
(* Facts about the queue.                                                  *)
(***************************************************************************)
\* What the concatenation of a group does to a queue.
LEMMA ConcatQueue ==
    ASSUME NEW S, NEW q \in Seq(S), NEW b \in Seq(S)
    PROVE  /\ q \o b \in Seq(S) /\ Len(q \o b) = Len(q) + Len(b)
           /\ Len(q) \in Nat /\ Len(b) \in Nat
           /\ \A k \in 1..Len(q) : (q \o b)[k] = q[k]
           /\ \A k \in 1..Len(b) : (q \o b)[Len(q) + k] = b[k]
OBVIOUS

\* What taking the head does to a queue: one shorter, every other item one place on.
LEMMA TailQueue ==
    ASSUME NEW S, NEW q \in Seq(S), q # <<>>
    PROVE  /\ Tail(q) \in Seq(S) /\ Len(Tail(q)) = Len(q) - 1 /\ Len(q) \in Nat /\ Len(q) > 0
           /\ Head(q) = q[1] /\ Head(q) \in S
           /\ \A k \in 1..(Len(q) - 1) : Tail(q)[k] = q[k + 1]
OBVIOUS

\* What removing the k-th item does to a queue: one shorter, the later items one place on.
LEMMA WithoutQueue ==
    ASSUME NEW S, NEW q \in Seq(S), NEW k \in 1..Len(q)
    PROVE  /\ Without(q, k) \in Seq(S) /\ Len(Without(q, k)) = Len(q) - 1
           /\ Len(q) \in Nat
           /\ \A i \in 1..(Len(q) - 1) : Without(q, k)[i] = IF i < k THEN q[i] ELSE q[i + 1]
<1>1. Len(q) \in Nat /\ Len(q) - 1 \in Nat
    OBVIOUS
<1>2. \A i \in 1..(Len(q) - 1) : (IF i < k THEN q[i] ELSE q[i + 1]) \in S
    BY <1>1
<1>3. Without(q, k) \in [1..(Len(q) - 1) -> S]
    BY <1>2, Zenon DEF Without
<1> QED
    BY <1>1, <1>3 DEF Without

\* After a group is accepted into the queue, its members are queued beside those queued
\* before, each at most once.
LEMMA QueuedAfterAccept ==
    ASSUME queue \in Seq(Requests), NEW b \in Seq(Requests), queue' = queue \o b,
           \A j, k \in 1..Len(queue) : queue[j] = queue[k] => j = k,
           \A j, k \in 1..Len(b) : b[j] = b[k] => j = k,
           \A k \in 1..Len(b) : ~InQueue(b[k])
    PROVE  /\ \A r : InQueue(r)' <=> InQueue(r) \/ r \in Members(b)
           /\ \A j, k \in 1..Len(queue') : queue'[j] = queue'[k] => j = k
<1>1. /\ Len(queue') = Len(queue) + Len(b) /\ Len(queue) \in Nat /\ Len(b) \in Nat
      /\ \A k \in 1..Len(queue) : queue'[k] = queue[k]
      /\ \A k \in 1..Len(b) : queue'[Len(queue) + k] = b[k]
    BY ConcatQueue
<1>2. \A k \in 1..Len(queue') :
          \/ k \in 1..Len(queue) /\ queue'[k] = queue[k]
          \/ k - Len(queue) \in 1..Len(b) /\ k > Len(queue) /\ queue'[k] = b[k - Len(queue)]
  <2> SUFFICES ASSUME NEW k \in 1..Len(queue')
               PROVE \/ k \in 1..Len(queue) /\ queue'[k] = queue[k]
                     \/ k - Len(queue) \in 1..Len(b) /\ k > Len(queue)
                        /\ queue'[k] = b[k - Len(queue)]
      OBVIOUS
  <2>1. CASE k \in 1..Len(queue)
      BY <1>1, <2>1
  <2>2. CASE k \notin 1..Len(queue)
    <3>1. k - Len(queue) \in 1..Len(b) /\ k > Len(queue) /\ Len(queue) + (k - Len(queue)) = k
        BY <1>1, <2>2
    <3>2. queue'[Len(queue) + (k - Len(queue))] = b[k - Len(queue)]
        BY <1>1, <3>1
    <3> QED
        BY <3>1, <3>2
  <2> QED
      BY <2>1, <2>2
<1>3. \A k \in 1..Len(queue) : k \in 1..Len(queue')
    BY <1>1
<1>4. \A k \in 1..Len(b) : Len(queue) + k \in 1..Len(queue')
    BY <1>1
<1>5. \A r : InQueue(r)' <=> InQueue(r) \/ r \in Members(b)
  <2>1. \A r : InQueue(r)' => InQueue(r) \/ r \in Members(b)
      BY <1>2 DEF InQueue, Members
  <2>2. \A r : InQueue(r) => InQueue(r)'
      BY <1>1, <1>3 DEF InQueue
  <2>3. \A r \in Members(b) : InQueue(r)'
      BY <1>1, <1>4 DEF InQueue, Members
  <2> QED
      BY <2>1, <2>2, <2>3
<1>6. ASSUME NEW j \in 1..Len(queue'), NEW k \in 1..Len(queue'), queue'[j] = queue'[k]
      PROVE  j = k
  <2>1. CASE j \in 1..Len(queue) /\ k \in 1..Len(queue)
      BY <1>1, <1>6, <2>1
  <2>2. CASE j \notin 1..Len(queue) /\ k \notin 1..Len(queue)
    <3>1. /\ j - Len(queue) \in 1..Len(b) /\ k - Len(queue) \in 1..Len(b)
          /\ b[j - Len(queue)] = b[k - Len(queue)]
        BY <1>2, <1>6, <2>2
    <3>2. j - Len(queue) = k - Len(queue)
        BY <3>1
    <3> QED
        BY <3>2, <1>1
  <2>3. CASE j \in 1..Len(queue) /\ k \notin 1..Len(queue)
    <3>1. k - Len(queue) \in 1..Len(b) /\ b[k - Len(queue)] = queue[j]
        BY <1>1, <1>2, <1>6, <2>3
    <3> QED
        BY <3>1, <2>3 DEF InQueue
  <2>4. CASE j \notin 1..Len(queue) /\ k \in 1..Len(queue)
    <3>1. j - Len(queue) \in 1..Len(b) /\ b[j - Len(queue)] = queue[k]
        BY <1>1, <1>2, <1>6, <2>4
    <3> QED
        BY <3>1, <2>4 DEF InQueue
  <2> QED
      BY <2>1, <2>2, <2>3, <2>4
<1> QED
    BY <1>5, <1>6

\* After the head is taken, the requests queued are those queued before but the head.
LEMMA QueuedAfterPop ==
    ASSUME queue \in Seq(Requests), queue # <<>>, queue' = Tail(queue),
           \A j, k \in 1..Len(queue) : queue[j] = queue[k] => j = k
    PROVE  /\ Head(queue) \in Requests /\ InQueue(Head(queue))
           /\ \A r : InQueue(r)' <=> InQueue(r) /\ r # Head(queue)
           /\ \A j, k \in 1..Len(queue') : queue'[j] = queue'[k] => j = k
           /\ queue' \in Seq(Requests)
<1>1. /\ Len(queue') = Len(queue) - 1 /\ Len(queue) \in Nat /\ Len(queue) > 0
      /\ Head(queue) = queue[1] /\ Head(queue) \in Requests
      /\ \A k \in 1..(Len(queue) - 1) : queue'[k] = queue[k + 1]
      /\ queue' \in Seq(Requests)
    BY TailQueue
<1>2. 1 \in 1..Len(queue)
    BY <1>1
<1>3. \A k \in 1..Len(queue) :
          k = 1 \/ (k - 1 \in 1..Len(queue') /\ queue'[k - 1] = queue[k])
    BY <1>1
<1>4. \A k \in 1..Len(queue') :
          k + 1 \in 1..Len(queue) /\ queue[k + 1] = queue'[k] /\ k + 1 # 1
    BY <1>1
<1>5. \A r : InQueue(r)' => InQueue(r) /\ r # Head(queue)
    BY <1>1, <1>2, <1>4 DEF InQueue
<1>6. ASSUME NEW r, InQueue(r), r # Head(queue) PROVE InQueue(r)'
  <2>1. PICK k \in 1..Len(queue) : queue[k] = r
      BY <1>6 DEF InQueue
  <2>2. k - 1 \in 1..Len(queue') /\ queue'[k - 1] = r
      BY <1>1, <1>3, <1>6, <2>1
  <2> QED
      BY <2>2 DEF InQueue
<1>7. \A j, k \in 1..Len(queue') : queue'[j] = queue'[k] => j = k
  <2> SUFFICES ASSUME NEW j \in 1..Len(queue'), NEW k \in 1..Len(queue'),
                      queue'[j] = queue'[k]
               PROVE  j = k
      OBVIOUS
  <2>1. j + 1 = k + 1
      BY <1>4
  <2> QED
      BY <2>1, <1>1
<1> QED
    BY <1>1, <1>2, <1>5, <1>6, <1>7 DEF InQueue

\* After one request is removed, the requests queued are the others.
LEMMA QueuedAfterCancel ==
    ASSUME queue \in Seq(Requests), NEW k \in 1..Len(queue), queue' = Without(queue, k),
           \A i, j \in 1..Len(queue) : queue[i] = queue[j] => i = j
    PROVE  /\ \A r : InQueue(r)' <=> InQueue(r) /\ r # queue[k]
           /\ \A i, j \in 1..Len(queue') : queue'[i] = queue'[j] => i = j
           /\ queue' \in Seq(Requests)
<1>1. /\ Len(queue') = Len(queue) - 1 /\ Len(queue) \in Nat
      /\ \A i \in 1..(Len(queue) - 1) :
             queue'[i] = IF i < k THEN queue[i] ELSE queue[i + 1]
      /\ queue' \in Seq(Requests)
    BY WithoutQueue
<1> DEFINE from(i) == IF i < k THEN i ELSE i + 1
<1>2. \A i \in 1..Len(queue') :
          from(i) \in 1..Len(queue) /\ from(i) # k /\ queue'[i] = queue[from(i)]
    BY <1>1
<1>3. \A i, j \in 1..Len(queue') : from(i) = from(j) => i = j
    BY <1>1
<1>4. \A i \in 1..Len(queue) :
          i = k \/ \E j \in 1..Len(queue') : queue'[j] = queue[i]
  <2> SUFFICES ASSUME NEW i \in 1..Len(queue), i # k
               PROVE  \E j \in 1..Len(queue') : queue'[j] = queue[i]
      OBVIOUS
  <2>1. CASE i < k
    <3>1. i \in 1..Len(queue') /\ queue'[i] = queue[i]
        BY <1>1, <2>1
    <3> QED
        BY <3>1
  <2>2. CASE i > k
    <3>1. i - 1 \in 1..Len(queue') /\ queue'[i - 1] = queue[i]
        BY <1>1, <2>2
    <3> QED
        BY <3>1
  <2> QED
      BY <2>1, <2>2, <1>1
<1> HIDE DEF from
<1>5. \A r : InQueue(r)' => InQueue(r) /\ r # queue[k]
    BY <1>2 DEF InQueue
<1>6. \A r : InQueue(r) /\ r # queue[k] => InQueue(r)'
    BY <1>4 DEF InQueue
<1>7. \A i, j \in 1..Len(queue') : queue'[i] = queue'[j] => i = j
    BY <1>2, <1>3
<1> QED
    BY <1>1, <1>5, <1>6, <1>7

-----------------------------------------------------------------------------
(***************************************************************************)
(* The parts of a lock region.                                             *)
(***************************************************************************)
\* Accepting a group keeps every part of the invariant that does not look at the GUI
\* thread or at the wake events, and leaves the active request as it was.
LEMMA Accepting ==
    ASSUME IInv, NEW b \in Seq(Requests), \A j, k \in 1..Len(b) : b[j] = b[k] => j = k,
           NEW grouped \in BOOLEAN, Acceptable(b), Accept(b, grouped),
           UNCHANGED <<active, stateVars>>
    PROVE  /\ queue' \in Seq(Requests) /\ pending' \subseteq Requests /\ seen' \subseteq Requests
           /\ groups' \in [Requests -> SUBSET Requests]
           /\ result' \in [Requests -> Statuses \cup {None}]
           /\ accepted' \in Seq(Requests)
           /\ bornIn' \in [Requests -> Nat] /\ drawnIn' \in [Requests -> Nat]
           /\ NoneLost' /\ QueueDistinct' /\ ReplacementIsolated' /\ PendingIsCurrent'
           /\ active # None => (active \in pending' <=> active \in pending)
           /\ closed => queue' = queue
<1> USE PlotAssumption DEF IInv, TypeOK, QueueDistinct
<1>1. Members(b) \subseteq Requests /\ Members(b) \cap seen = {}
    BY DEF Acceptable, Members
<1>2. seen' = seen \cup Members(b) /\ accepted' = accepted \o b /\ UNCHANGED drawnIn
      /\ bornIn' = [r \in Requests |-> IF r \in Members(b) THEN generation ELSE bornIn[r]]
      /\ UNCHANGED <<active, closed, switching, bridge, generation>> /\ ~switching
    BY DEF Accept, Acceptable, stateVars
<1>3. /\ accepted' \in Seq(Requests) /\ seen' \subseteq Requests
      /\ bornIn' \in [Requests -> Nat] /\ drawnIn' \in [Requests -> Nat]
    BY <1>1, <1>2, ConcatQueue
<1>4. CASE closed
  <2>1. /\ result' = [r \in Requests |-> IF r \in Members(b) THEN "cancelled" ELSE result[r]]
        /\ UNCHANGED <<queue, pending, groups>>
      BY <1>4 DEF Accept
  <2>2. \A r : InQueue(r)' <=> InQueue(r)
      BY <2>1 DEF InQueue
  <2>3. result' \in [Requests -> Statuses \cup {None}]
      BY <2>1 DEF Statuses
  <2>4. NoneLost'
      BY <1>1, <1>2, <2>1, <2>2 DEF NoneLost, Statuses
  <2>5. QueueDistinct'
    <3>1. \A j, k \in 1..Len(queue') : queue'[j] = queue'[k] => j = k
        BY <2>1
    <3>2. \A r \in Requests : InQueue(r)' => r \in seen' /\ r # active'
        BY <1>2, <2>2
    <3>3. pending' \subseteq seen' /\ (active' # None => active' \in seen')
        BY <1>2, <2>1
    <3> QED
        BY <3>1, <3>2, <3>3
  <2>6. ReplacementIsolated' /\ PendingIsCurrent'
      BY <1>1, <1>2, <2>1 DEF ReplacementIsolated, PendingIsCurrent
  <2> QED
      BY <1>3, <2>1, <2>3, <2>4, <2>5, <2>6
<1>5. CASE ~closed
  <2>1. /\ queue' = queue \o b /\ pending' = pending \cup Members(b) /\ UNCHANGED result
        /\ groups' = [r \in Requests |->
                          IF grouped /\ r \in Members(b) THEN Members(b) ELSE groups[r]]
      BY <1>5 DEF Accept
  <2>2. \A k \in 1..Len(b) : ~InQueue(b[k])
      BY DEF Acceptable
  <2>3. /\ \A r : InQueue(r)' <=> InQueue(r) \/ r \in Members(b)
        /\ \A j, k \in 1..Len(queue') : queue'[j] = queue'[k] => j = k
      BY <2>1, <2>2, QueuedAfterAccept
  <2>4. queue' \in Seq(Requests) /\ pending' \subseteq Requests
        /\ groups' \in [Requests -> SUBSET Requests]
      BY <1>1, <2>1, ConcatQueue
  <2>5. NoneLost'
    <3>1. \A r \in pending' : InQueue(r)' \/ r = active'
        BY <1>2, <2>1, <2>3 DEF NoneLost
    <3>2. \A r \in Requests : result'[r] # None <=> r \in seen' \ pending'
        BY <1>1, <1>2, <2>1 DEF NoneLost
    <3> QED
        BY <3>1, <3>2 DEF NoneLost
  <2>6. QueueDistinct'
    <3>1. \A r \in Requests : InQueue(r)' => r \in seen' /\ r # active'
        BY <1>1, <1>2, <2>3
    <3>2. pending' \subseteq seen' /\ (active' # None => active' \in seen')
        BY <1>2, <2>1
    <3> QED
        BY <2>3, <3>1, <3>2
  <2>7. ReplacementIsolated'
      BY <1>1, <1>2, <2>1 DEF ReplacementIsolated, NoneLost, Statuses
  <2>8. PendingIsCurrent'
      BY <1>1, <1>2, <2>1 DEF PendingIsCurrent
  <2>9. active # None => (active \in pending' <=> active \in pending)
      BY <1>1, <2>1
  <2> QED
      BY <1>3, <1>5, <2>1, <2>4, <2>5, <2>6, <2>7, <2>8, <2>9
<1> QED
    BY <1>4, <1>5

\* What deciding a request changes: it leaves _pending, with it perhaps other queued
\* ones, which are then cancelled; everything else keeps its result.
LEMMA Deciding ==
    ASSUME TypeOK, NEW r \in Requests, NEW status \in Statuses, Decide(r, status)
    PROVE  /\ groups' \in [Requests -> SUBSET Requests]
           /\ result' \in [Requests -> Statuses \cup {None}]
           /\ pending' \subseteq pending /\ r \notin pending'
           /\ \A q \in pending \ pending' : q # r => InQueue(q) /\ result'[q] = "cancelled"
           /\ r \in pending => result'[r] = status
           /\ \A q \in Requests : q \notin pending \ pending' => result'[q] = result[q]
<1> USE DEF TypeOK, Statuses
<1>1. CASE r \notin pending
    BY <1>1, Zenon DEF Decide
<1>2. CASE r \in pending
  <2> DEFINE fallen == IF status \in Breaking
                       THEN {q \in groups[r] \cap pending : InQueue(q)} \ {r} ELSE {}
  <2>1. Decided(r, status, fallen)
      BY <1>2 DEF Decide
  <2>2. fallen \subseteq pending /\ r \notin fallen /\ \A q \in fallen : InQueue(q)
      BY Zenon
  <2> HIDE DEF fallen
  <2>3. groups' \in [Requests -> SUBSET Requests]
    <3>1. \A q \in Requests :
              (IF q = r \/ (status \in Breaking /\ q \in groups[r]) THEN {} ELSE groups[q])
              \in SUBSET Requests
        OBVIOUS
    <3> QED
        BY <2>1, <3>1 DEF Decided
  <2>4. result' \in [Requests -> Statuses \cup {None}]
      BY <2>1 DEF Decided
  <2>5. pending' = pending \ ({r} \cup fallen)
        /\ result' = [q \in Requests |-> IF q = r THEN status
                                         ELSE IF q \in fallen THEN "cancelled" ELSE result[q]]
      BY <2>1 DEF Decided
  <2> QED
      BY <1>2, <2>2, <2>3, <2>4, <2>5
<1> QED
    BY <1>1, <1>2

-----------------------------------------------------------------------------
(***************************************************************************)
(* The inductive invariant.                                                *)
(***************************************************************************)
\* The service starts in the invariant.
LEMMA InitInvariant == Init => IInv
<1> SUFFICES ASSUME Init PROVE IInv
    OBVIOUS
<1> USE PlotAssumption DEF Init
<1>1. TypeOK
  <2>1. queue \in Seq(Requests) /\ accepted \in Seq(Requests)
      OBVIOUS
  <2>2. generation \in Nat /\ gui \in GuiPlaces
      BY DEF GuiPlaces
  <2>3. /\ groups \in [Requests -> SUBSET Requests]
        /\ result \in [Requests -> Statuses \cup {None}]
        /\ bornIn \in [Requests -> Nat] /\ drawnIn \in [Requests -> Nat]
      OBVIOUS
  <2> QED
      BY <2>1, <2>2, <2>3 DEF TypeOK
<1>2. \A r : ~InQueue(r)
  <2>1. queue = <<>> /\ Len(queue) = 0
      OBVIOUS
  <2> QED
      BY <2>1, SMT DEF InQueue
<1>3. NoneLost /\ ReplacementIsolated /\ PlaceConsistent /\ PendingIsCurrent
    BY DEF NoneLost, ReplacementIsolated, PlaceConsistent, PendingIsCurrent, Statuses
<1>4. WakeOnTheWay
    BY DEF WakeOnTheWay
<1>5. QueueDistinct
    BY <1>2 DEF QueueDistinct
<1> QED
    BY <1>1, <1>3, <1>4, <1>5 DEF IInv

\* A group that may be submitted is a sequence of distinct requests.
LEMMA Submittable ==
    /\ \A b \in Batches : b \in Seq(Requests) /\ \A j, k \in 1..Len(b) : b[j] = b[k] => j = k
    /\ \A r \in Singles : /\ <<r>> \in Seq(Requests) /\ Len(<<r>>) = 1 /\ r \in Requests
                          /\ \A j, k \in 1..Len(<<r>>) : <<r>>[j] = <<r>>[k] => j = k
<1>1. Singles \subseteq Requests
    BY DEF Singles
<1> QED
    BY <1>1, PlotAssumption

\* Submitting a group keeps the invariant.
LEMMA SubmitStep ==
    ASSUME IInv, NEW b \in Seq(Requests), \A j, k \in 1..Len(b) : b[j] = b[k] => j = k,
           SubmitMany(b)
    PROVE  IInv'
<1>1. Acceptable(b) /\ Accept(b, Len(b) > 1) /\ UNCHANGED <<active, stateVars, gui, immediate>>
      /\ IF active = None /\ ~closed THEN ScheduleWake ELSE UNCHANGED wakeVars
    BY DEF SubmitMany
<1>2. (Len(b) > 1) \in BOOLEAN
    OBVIOUS
<1>3. /\ queue' \in Seq(Requests) /\ pending' \subseteq Requests /\ seen' \subseteq Requests
      /\ groups' \in [Requests -> SUBSET Requests]
      /\ result' \in [Requests -> Statuses \cup {None}]
      /\ accepted' \in Seq(Requests)
      /\ bornIn' \in [Requests -> Nat] /\ drawnIn' \in [Requests -> Nat]
      /\ NoneLost' /\ QueueDistinct' /\ ReplacementIsolated' /\ PendingIsCurrent'
      /\ active # None => (active \in pending' <=> active \in pending)
      /\ closed => queue' = queue
    BY <1>1, <1>2, Accepting
<1>4. /\ wake' \in BOOLEAN /\ posted' \in Nat /\ posted' >= posted
      /\ wake' => wake \/ posted' > 0
      /\ active = None /\ ~closed => wake' /\ (~wake => posted' > 0)
  <2>1. posted \in Nat /\ wake \in BOOLEAN
      BY DEF IInv, TypeOK
  <2>2. CASE active = None /\ ~closed
      BY <1>1, <2>1, <2>2 DEF ScheduleWake
  <2>3. CASE ~(active = None /\ ~closed)
      BY <1>1, <2>1, <2>3 DEF wakeVars
  <2> QED
      BY <2>2, <2>3
<1>5. TypeOK'
    BY <1>1, <1>3, <1>4 DEF IInv, TypeOK, stateVars
<1>6. WakeOnTheWay'
  <2>1. posted \in Nat /\ UNCHANGED gui
      BY <1>1 DEF IInv, TypeOK
  <2>2. wake' => posted' > 0 \/ gui' = "enter"
      BY <1>4, <2>1 DEF IInv, WakeOnTheWay
  <2>3. ASSUME queue' # <<>>, gui' \in {"idle", "replacing", "replaced", "detach"}
        PROVE  posted' > 0
    <3>1. active = None
        BY <2>1, <2>3 DEF IInv, PlaceConsistent
    <3>2. CASE closed
        BY <1>3, <1>4, <2>1, <2>3, <3>2 DEF IInv, WakeOnTheWay
    <3>3. CASE ~closed
        BY <1>4, <2>1, <2>2, <2>3, <3>1, <3>3
    <3> QED
        BY <3>2, <3>3
  <2> QED
      BY <2>2, <2>3 DEF WakeOnTheWay
<1>7. PlaceConsistent'
    BY <1>1, <1>3, PlotAssumption DEF IInv, TypeOK, PlaceConsistent, stateVars
<1> QED
    BY <1>3, <1>5, <1>6, <1>7 DEF IInv

\* Every step keeps the invariant.
LEMMA StepInvariant == IInv /\ [Next]_vars => IInv'
<1> SUFFICES ASSUME IInv, [Next]_vars PROVE IInv'
    OBVIOUS
<1> USE PlotAssumption DEF IInv
<1>1. ASSUME NEW b \in Batches, SubmitMany(b) PROVE IInv'
    BY <1>1, Submittable, SubmitStep
<1>2. ASSUME NEW r \in Singles, SubmitMany(<<r>>) PROVE IInv'
    BY <1>2, Submittable, SubmitStep
<1>3. ASSUME NEW r \in Requests, Cancel(r) PROVE IInv'
  <2>1. PICK k \in 1..Len(queue) : queue[k] = r /\ queue' = Without(queue, k)
      BY <1>3 DEF Cancel
  <2>2. /\ \A q : InQueue(q)' <=> InQueue(q) /\ q # r
        /\ \A i, j \in 1..Len(queue') : queue'[i] = queue'[j] => i = j
        /\ queue' \in Seq(Requests) /\ InQueue(r) /\ queue # <<>>
    <3>1. /\ queue \in Seq(Requests)
          /\ \A i, j \in 1..Len(queue) : queue[i] = queue[j] => i = j
        BY DEF TypeOK, QueueDistinct
    <3>2. InQueue(r) /\ queue # <<>>
        BY <2>1, <3>1 DEF InQueue
    <3> QED
        BY <2>1, <3>1, <3>2, QueuedAfterCancel
  <2>3. /\ groups' \in [Requests -> SUBSET Requests]
        /\ result' \in [Requests -> Statuses \cup {None}]
        /\ pending' \subseteq pending /\ r \notin pending'
        /\ \A q \in pending \ pending' : q # r => InQueue(q) /\ result'[q] = "cancelled"
        /\ r \in pending => result'[r] = "cancelled"
        /\ \A q \in Requests : q \notin pending \ pending' => result'[q] = result[q]
    <3>1. Decide(r, "cancelled") /\ "cancelled" \in Statuses
        BY <1>3 DEF Cancel, Statuses
    <3> QED
        BY <3>1, Deciding
  <2>4. UNCHANGED <<seen, accepted, bornIn, drawnIn, active, wake, posted, closed, switching,
                    bridge, generation, gui, immediate>>
      BY <1>3 DEF Cancel, wakeVars, stateVars
  <2>5. TypeOK'
      BY <2>2, <2>3, <2>4 DEF TypeOK
  <2>6. NoneLost'
    <3>1. \A q \in pending' : InQueue(q)' \/ q = active'
        BY <2>2, <2>3, <2>4 DEF NoneLost
    <3>2. \A q \in pending \ pending' : result'[q] = "cancelled"
        BY <2>3
    <3>3. "cancelled" # None
        BY DEF Statuses
    <3>4. \A q \in Requests : result'[q] # None <=> q \in seen' \ pending'
        BY <2>3, <2>4, <3>2, <3>3 DEF NoneLost, QueueDistinct, TypeOK
    <3> QED
        BY <3>1, <3>4 DEF NoneLost
  <2>7. WakeOnTheWay'
      BY <2>2, <2>4 DEF WakeOnTheWay
  <2>8. ReplacementIsolated'
    <3>1. \A q \in Requests : result'[q] = "applied" => result[q] = "applied"
        BY <2>3
    <3> QED
        BY <2>3, <2>4, <3>1 DEF ReplacementIsolated
  <2>9. QueueDistinct'
      BY <2>2, <2>3, <2>4 DEF QueueDistinct
  <2>10. PlaceConsistent'
    <3>1. r # active
        BY <2>2 DEF QueueDistinct
    <3>2. active \in pending => active \in pending'
        BY <2>3, <3>1 DEF QueueDistinct, TypeOK
    <3> QED
        BY <2>3, <2>4, <3>2 DEF PlaceConsistent
  <2>11. PendingIsCurrent'
      BY <2>3, <2>4 DEF PendingIsCurrent
  <2> QED
      BY <2>5, <2>6, <2>7, <2>8, <2>9, <2>10, <2>11
<1>4. ASSUME CancelQueued, UNCHANGED <<active, switching, generation>> 
      PROVE  /\ queue' \in Seq(Requests) /\ pending' \subseteq pending
             /\ groups' \in [Requests -> SUBSET Requests]
             /\ result' \in [Requests -> Statuses \cup {None}]
             /\ accepted' \in Seq(Requests) /\ seen' \subseteq Requests
             /\ bornIn' \in [Requests -> Nat] /\ drawnIn' \in [Requests -> Nat]
             /\ NoneLost' /\ ReplacementIsolated' /\ QueueDistinct' /\ PendingIsCurrent'
             /\ queue' = <<>> /\ (active \in pending <=> active \in pending')
  <2>1. /\ queue' = <<>> /\ pending' = {r \in pending : ~InQueue(r)}
        /\ result' = [r \in Requests |->
                          IF r \in pending /\ InQueue(r) THEN "cancelled" ELSE result[r]]
        /\ UNCHANGED <<seen, accepted, bornIn, drawnIn>>
      BY <1>4 DEF CancelQueued
  <2>2. groups' \in [Requests -> SUBSET Requests]
    <3>1. \A r \in Requests :
              (IF \E q \in pending : InQueue(q) /\ (q = r \/ r \in groups[q]) THEN {}
               ELSE groups[r]) \in SUBSET Requests
        BY Zenon DEF TypeOK
    <3> QED
        BY <1>4, <3>1, Zenon DEF CancelQueued
  <2>3. result' \in [Requests -> Statuses \cup {None}]
      BY <2>1 DEF TypeOK, Statuses
  <2>4. \A r : ~InQueue(r)'
    <3>1. queue' = <<>> /\ Len(queue') = 0
        BY <2>1
    <3> QED
        BY <3>1, SMT DEF InQueue
  <2>5. NoneLost'
    <3>1. \A r \in pending' : r = active'
        BY <1>4, <2>1 DEF NoneLost
    <3>2. "cancelled" # None
        BY DEF Statuses
    <3>3. \A r \in Requests : result'[r] # None <=> r \in seen' \ pending'
        BY <2>1, <3>2 DEF NoneLost, QueueDistinct, TypeOK
    <3> QED
        BY <3>1, <3>3 DEF NoneLost
  <2>6. ReplacementIsolated'
      BY <1>4, <2>1 DEF ReplacementIsolated
  <2>7. QueueDistinct'
      BY <1>4, <2>1, <2>4 DEF QueueDistinct
  <2>8. PendingIsCurrent'
      BY <1>4, <2>1 DEF PendingIsCurrent
  <2>9. active \in pending <=> active \in pending'
      BY <2>1 DEF QueueDistinct, TypeOK
  <2> QED
      BY <2>1, <2>2, <2>3, <2>5, <2>6, <2>7, <2>8, <2>9 DEF TypeOK
<1>5. ASSUME CancelPending PROVE IInv'
  <2>1. CancelQueued /\ UNCHANGED <<active, wake, posted, closed, switching, bridge, generation,
                                    gui, immediate>>
      BY <1>5 DEF CancelPending, wakeVars, stateVars
  <2>2. NoneLost' /\ ReplacementIsolated' /\ QueueDistinct' /\ PendingIsCurrent'
      BY <1>4, <2>1
  <2>3. TypeOK'
      BY <1>4, <2>1 DEF TypeOK
  <2>4. WakeOnTheWay' /\ PlaceConsistent'
      BY <1>4, <2>1 DEF WakeOnTheWay, PlaceConsistent
  <2> QED
      BY <2>2, <2>3, <2>4
<1>6. ASSUME Shutdown PROVE IInv'
  <2>1. CancelQueued /\ closed' = TRUE /\ gui = "idle" /\ gui' = "detach"
        /\ UNCHANGED <<active, wake, posted, switching, bridge, generation, immediate>>
      BY <1>6 DEF Shutdown, wakeVars
  <2>2. NoneLost' /\ ReplacementIsolated' /\ QueueDistinct' /\ PendingIsCurrent'
      BY <1>4, <2>1
  <2>3. TypeOK'
      BY <1>4, <2>1 DEF TypeOK, GuiPlaces
  <2>4. WakeOnTheWay' /\ PlaceConsistent'
      BY <1>4, <2>1 DEF WakeOnTheWay, PlaceConsistent
  <2> QED
      BY <2>2, <2>3, <2>4
<1>7. ASSUME NEW r \in Singles, ApplyNow(r) PROVE IInv'
  <2>1. /\ Acceptable(<<r>>) /\ Accept(<<r>>, FALSE) /\ gui = "idle" /\ active = None
        /\ gui' = "enter" /\ immediate' = TRUE
        /\ UNCHANGED <<active, wake, posted, stateVars, closed, switching, bridge, generation>>
      BY <1>7 DEF ApplyNow, wakeVars, stateVars
  <2>2. /\ queue' \in Seq(Requests) /\ pending' \subseteq Requests /\ seen' \subseteq Requests
        /\ groups' \in [Requests -> SUBSET Requests]
        /\ result' \in [Requests -> Statuses \cup {None}]
        /\ accepted' \in Seq(Requests)
        /\ bornIn' \in [Requests -> Nat] /\ drawnIn' \in [Requests -> Nat]
        /\ NoneLost' /\ QueueDistinct' /\ ReplacementIsolated' /\ PendingIsCurrent'
      BY <2>1, Submittable, Accepting
  <2>3. TypeOK'
      BY <2>1, <2>2 DEF TypeOK, GuiPlaces
  <2>4. WakeOnTheWay' /\ PlaceConsistent'
      BY <2>1 DEF WakeOnTheWay, PlaceConsistent
  <2> QED
      BY <2>2, <2>3, <2>4
<1>8. ASSUME Pop PROVE IInv'
  <2>1. /\ gui = "loop" /\ queue # <<>> /\ active = None /\ queue' = Tail(queue)
        /\ IF Head(queue) \in pending THEN active' = Head(queue) /\ gui' = "apply"
           ELSE UNCHANGED <<active, gui>>
        /\ UNCHANGED <<pending, seen, groups, result, accepted, bornIn, drawnIn, closed,
                       switching, bridge, generation, wake, posted, immediate>>
      BY <1>8 DEF Pop, wakeVars, stateVars
  <2>2. /\ Head(queue) \in Requests /\ InQueue(Head(queue))
        /\ \A r : InQueue(r)' <=> InQueue(r) /\ r # Head(queue)
        /\ \A j, k \in 1..Len(queue') : queue'[j] = queue'[k] => j = k
        /\ queue' \in Seq(Requests)
      BY <2>1, QueuedAfterPop DEF TypeOK, QueueDistinct
  <2>3. TypeOK'
      BY <2>1, <2>2 DEF TypeOK, GuiPlaces
  <2>4. NoneLost'
    <3>1. \A r \in pending' : InQueue(r)' \/ r = active'
        BY <2>1, <2>2 DEF NoneLost, TypeOK
    <3>2. \A r \in Requests : result'[r] # None <=> r \in seen' \ pending'
        BY <2>1 DEF NoneLost
    <3> QED
        BY <3>1, <3>2 DEF NoneLost
  <2>5. WakeOnTheWay'
      BY <2>1 DEF WakeOnTheWay
  <2>6. ReplacementIsolated' /\ PendingIsCurrent'
      BY <2>1 DEF ReplacementIsolated, PendingIsCurrent
  <2>7. QueueDistinct'
    <3>1. \A r \in Requests : InQueue(r)' => r \in seen' /\ r # active'
        BY <2>1, <2>2 DEF QueueDistinct
    <3>2. pending' \subseteq seen' /\ (active' # None => active' \in seen')
        BY <2>1, <2>2 DEF QueueDistinct
    <3> QED
        BY <2>2, <3>1, <3>2 DEF QueueDistinct
  <2>8. PlaceConsistent'
      BY <2>1, <2>2 DEF PlaceConsistent
  <2> QED
      BY <2>3, <2>4, <2>5, <2>6, <2>7, <2>8
<1>9. ASSUME NEW status \in Statuses, Apply(status) PROVE IInv'
  <2>1. /\ gui = "apply" /\ gui' = "clear" /\ Decide(active, status)
        /\ drawnIn' = IF status = "applied" THEN [drawnIn EXCEPT ![active] = generation]
                      ELSE drawnIn
        /\ UNCHANGED <<queue, seen, accepted, bornIn, active, closed, switching, bridge,
                       generation, wake, posted, immediate>>
      BY <1>9 DEF Apply, wakeVars, stateVars
  <2>2. active \in pending /\ active \in Requests /\ active # None /\ ~InQueue(active)
      BY <2>1 DEF PlaceConsistent, TypeOK, QueueDistinct
  <2>3. /\ groups' \in [Requests -> SUBSET Requests]
        /\ result' \in [Requests -> Statuses \cup {None}]
        /\ pending' \subseteq pending /\ active \notin pending'
        /\ \A q \in pending \ pending' : q # active => InQueue(q) /\ result'[q] = "cancelled"
        /\ result'[active] = status
        /\ \A q \in Requests : q \notin pending \ pending' => result'[q] = result[q]
      BY <2>1, <2>2, Deciding
  <2>4. \A q : InQueue(q)' <=> InQueue(q)
      BY <2>1 DEF InQueue
  <2>5. drawnIn' \in [Requests -> Nat]
      BY <2>1, <2>2 DEF TypeOK
  <2>6. TypeOK'
      BY <2>1, <2>3, <2>5 DEF TypeOK, GuiPlaces
  <2>7. NoneLost'
    <3>1. \A r \in pending' : InQueue(r)' \/ r = active'
        BY <2>1, <2>3, <2>4 DEF NoneLost
    <3>2. "cancelled" # None /\ status # None
        BY DEF Statuses
    <3>3. \A r \in Requests : result'[r] # None <=> r \in seen' \ pending'
        BY <2>1, <2>2, <2>3, <3>2 DEF NoneLost, QueueDistinct, TypeOK
    <3> QED
        BY <3>1, <3>3 DEF NoneLost
  <2>8. WakeOnTheWay'
      BY <2>1 DEF WakeOnTheWay
  <2>9. ReplacementIsolated'
    <3>1. ASSUME NEW r \in Requests, result'[r] = "applied" PROVE drawnIn'[r] = bornIn'[r]
      <4>1. CASE r = active
        <5>1. bornIn[r] = generation
            BY <2>2, <4>1 DEF PendingIsCurrent
        <5>2. drawnIn'[r] = generation
            BY <2>1, <2>2, <2>3, <3>1, <4>1 DEF TypeOK
        <5> QED
            BY <2>1, <5>1, <5>2
      <4>2. CASE r # active
        <5>1. result[r] = "applied"
            BY <2>3, <3>1, <4>2
        <5>2. drawnIn'[r] = drawnIn[r]
            BY <2>1, <4>2 DEF TypeOK
        <5> QED
            BY <2>1, <5>1, <5>2 DEF ReplacementIsolated
      <4> QED
          BY <4>1, <4>2
    <3>2. switching' => pending' = {} /\ active' = None
        BY <2>1, <2>3 DEF ReplacementIsolated
    <3> QED
        BY <3>1, <3>2 DEF ReplacementIsolated
  <2>10. QueueDistinct'
      BY <2>1, <2>3, <2>4 DEF QueueDistinct
  <2>11. PlaceConsistent' /\ PendingIsCurrent'
      BY <2>1, <2>3 DEF PlaceConsistent, PendingIsCurrent
  <2> QED
      BY <2>6, <2>7, <2>8, <2>9, <2>10, <2>11

<1>10. ASSUME DeliverWake PROVE IInv'
  <2>1. TypeOK' /\ PlaceConsistent' /\ WakeOnTheWay'
    <3>1. posted - 1 \in Nat /\ posted' = posted - 1
        BY <1>10 DEF DeliverWake, TypeOK
    <3>2. TypeOK'
        BY <1>10, <3>1 DEF DeliverWake, lockVars, stateVars, TypeOK, GuiPlaces
    <3>3. PlaceConsistent' /\ WakeOnTheWay'
        BY <1>10 DEF DeliverWake, lockVars, stateVars, PlaceConsistent, WakeOnTheWay
    <3> QED
        BY <3>2, <3>3
  <2>2. NoneLost' /\ ReplacementIsolated' /\ PendingIsCurrent'
      BY <1>10 DEF DeliverWake, lockVars, wakeVars, stateVars, TypeOK, PlaceConsistent,
         NoneLost, ReplacementIsolated, PendingIsCurrent, InQueue
  <2>3. QueueDistinct'
      BY <1>10 DEF DeliverWake, lockVars, wakeVars, stateVars, TypeOK, QueueDistinct, InQueue,
         PlaceConsistent
  <2> QED
      BY <2>1, <2>2, <2>3
<1>11. ASSUME EnterDrain PROVE IInv'
  <2>1. TypeOK' /\ PlaceConsistent' /\ WakeOnTheWay'
      BY <1>11 DEF EnterDrain, lockVars, wakeVars, stateVars, TypeOK, PlaceConsistent,
         WakeOnTheWay, ReplacementIsolated, NoneLost, GuiPlaces
  <2>2. NoneLost' /\ ReplacementIsolated' /\ PendingIsCurrent'
      BY <1>11 DEF EnterDrain, lockVars, wakeVars, stateVars, TypeOK, PlaceConsistent,
         NoneLost, ReplacementIsolated, PendingIsCurrent, InQueue
  <2>3. QueueDistinct'
      BY <1>11 DEF EnterDrain, lockVars, wakeVars, stateVars, TypeOK, QueueDistinct, InQueue,
         PlaceConsistent
  <2> QED
      BY <2>1, <2>2, <2>3
<1>12. ASSUME DrainDone PROVE IInv'
  <2>1. TypeOK' /\ PlaceConsistent' /\ WakeOnTheWay'
      BY <1>12 DEF DrainDone, lockVars, wakeVars, stateVars, TypeOK, PlaceConsistent,
         WakeOnTheWay, ReplacementIsolated, NoneLost, GuiPlaces
  <2>2. NoneLost' /\ ReplacementIsolated' /\ PendingIsCurrent'
      BY <1>12 DEF DrainDone, lockVars, wakeVars, stateVars, TypeOK, PlaceConsistent,
         NoneLost, ReplacementIsolated, PendingIsCurrent, InQueue
  <2>3. QueueDistinct'
      BY <1>12 DEF DrainDone, lockVars, wakeVars, stateVars, TypeOK, QueueDistinct, InQueue,
         PlaceConsistent
  <2> QED
      BY <2>1, <2>2, <2>3
<1>13. ASSUME Yield PROVE IInv'
  <2>1. TypeOK' /\ PlaceConsistent' /\ WakeOnTheWay'
      BY <1>13 DEF Yield, lockVars, wakeVars, stateVars, ScheduleWake, TypeOK, PlaceConsistent,
         WakeOnTheWay, ReplacementIsolated, NoneLost, GuiPlaces
  <2>2. NoneLost' /\ ReplacementIsolated' /\ PendingIsCurrent'
      BY <1>13 DEF Yield, lockVars, wakeVars, stateVars, ScheduleWake, TypeOK, PlaceConsistent,
         NoneLost, ReplacementIsolated, PendingIsCurrent, InQueue
  <2>3. QueueDistinct'
      BY <1>13 DEF Yield, lockVars, wakeVars, stateVars, ScheduleWake, TypeOK, QueueDistinct, InQueue,
         PlaceConsistent
  <2> QED
      BY <2>1, <2>2, <2>3
<1>14. ASSUME ClearActive PROVE IInv'
  <2>1. TypeOK' /\ PlaceConsistent' /\ WakeOnTheWay'
      BY <1>14 DEF ClearActive, lockVars, wakeVars, stateVars, TypeOK, PlaceConsistent,
         WakeOnTheWay, ReplacementIsolated, NoneLost, GuiPlaces
  <2>2. NoneLost' /\ ReplacementIsolated' /\ PendingIsCurrent'
      BY <1>14 DEF ClearActive, lockVars, wakeVars, stateVars, TypeOK, PlaceConsistent,
         NoneLost, ReplacementIsolated, PendingIsCurrent, InQueue
  <2>3. QueueDistinct'
      BY <1>14 DEF ClearActive, lockVars, wakeVars, stateVars, TypeOK, QueueDistinct, InQueue,
         PlaceConsistent
  <2> QED
      BY <2>1, <2>2, <2>3
<1>15. ASSUME EnterGuard PROVE IInv'
  <2>1. TypeOK' /\ PlaceConsistent' /\ WakeOnTheWay'
      BY <1>15 DEF EnterGuard, lockVars, wakeVars, stateVars, TypeOK, PlaceConsistent,
         WakeOnTheWay, ReplacementIsolated, NoneLost, GuiPlaces
  <2>2. NoneLost' /\ ReplacementIsolated' /\ PendingIsCurrent'
      BY <1>15 DEF EnterGuard, lockVars, wakeVars, stateVars, TypeOK, PlaceConsistent,
         NoneLost, ReplacementIsolated, PendingIsCurrent, InQueue
  <2>3. QueueDistinct'
      BY <1>15 DEF EnterGuard, lockVars, wakeVars, stateVars, TypeOK, QueueDistinct, InQueue,
         PlaceConsistent
  <2> QED
      BY <2>1, <2>2, <2>3
<1>16. ASSUME CommitReplacement PROVE IInv'
  <2>1. TypeOK' /\ PlaceConsistent' /\ WakeOnTheWay'
      BY <1>16 DEF CommitReplacement, lockVars, wakeVars, stateVars, TypeOK, PlaceConsistent,
         WakeOnTheWay, ReplacementIsolated, NoneLost, GuiPlaces
  <2>2. NoneLost' /\ ReplacementIsolated' /\ PendingIsCurrent'
      BY <1>16 DEF CommitReplacement, lockVars, wakeVars, stateVars, TypeOK, PlaceConsistent,
         NoneLost, ReplacementIsolated, PendingIsCurrent, InQueue
  <2>3. QueueDistinct'
      BY <1>16 DEF CommitReplacement, lockVars, wakeVars, stateVars, TypeOK, QueueDistinct, InQueue,
         PlaceConsistent
  <2> QED
      BY <2>1, <2>2, <2>3
<1>17. ASSUME LeaveGuard PROVE IInv'
  <2>1. TypeOK' /\ PlaceConsistent' /\ WakeOnTheWay'
      BY <1>17 DEF LeaveGuard, lockVars, wakeVars, stateVars, TypeOK, PlaceConsistent,
         WakeOnTheWay, ReplacementIsolated, NoneLost, GuiPlaces
  <2>2. NoneLost' /\ ReplacementIsolated' /\ PendingIsCurrent'
      BY <1>17 DEF LeaveGuard, lockVars, wakeVars, stateVars, TypeOK, PlaceConsistent,
         NoneLost, ReplacementIsolated, PendingIsCurrent, InQueue
  <2>3. QueueDistinct'
      BY <1>17 DEF LeaveGuard, lockVars, wakeVars, stateVars, TypeOK, QueueDistinct, InQueue,
         PlaceConsistent
  <2> QED
      BY <2>1, <2>2, <2>3
<1>18. ASSUME Detach PROVE IInv'
  <2>1. TypeOK' /\ PlaceConsistent' /\ WakeOnTheWay'
      BY <1>18 DEF Detach, lockVars, wakeVars, stateVars, TypeOK, PlaceConsistent,
         WakeOnTheWay, ReplacementIsolated, NoneLost, GuiPlaces
  <2>2. NoneLost' /\ ReplacementIsolated' /\ PendingIsCurrent'
      BY <1>18 DEF Detach, lockVars, wakeVars, stateVars, TypeOK, PlaceConsistent,
         NoneLost, ReplacementIsolated, PendingIsCurrent, InQueue
  <2>3. QueueDistinct'
      BY <1>18 DEF Detach, lockVars, wakeVars, stateVars, TypeOK, QueueDistinct, InQueue,
         PlaceConsistent
  <2> QED
      BY <2>1, <2>2, <2>3
<1>19. CASE UNCHANGED vars
  <2>1. TypeOK' /\ NoneLost' /\ WakeOnTheWay'
      BY <1>19 DEF vars, TypeOK, NoneLost, WakeOnTheWay, InQueue
  <2>2. ReplacementIsolated' /\ QueueDistinct' /\ PlaceConsistent' /\ PendingIsCurrent'
      BY <1>19 DEF vars, ReplacementIsolated, QueueDistinct, PlaceConsistent, PendingIsCurrent,
         InQueue
  <2> QED
      BY <2>1, <2>2
<1> QED
    BY <1>1, <1>2, <1>3, <1>5, <1>6, <1>7, <1>8, <1>9, <1>10, <1>11, <1>12, <1>13, <1>14, <1>15, <1>16, <1>17, <1>18, <1>19
    DEF Next, Producer, Dispatcher, Application

-----------------------------------------------------------------------------
(***************************************************************************)
(* Groups.                                                                 *)
(***************************************************************************)
\* The members of a group are distinct requests, none of them submitted on its own.
LEMMA GroupMembers ==
    ASSUME NEW b \in Batches
    PROVE  /\ Len(b) \in Nat
           /\ \A k \in 1..Len(b) : b[k] \in Requests /\ b[k] \in Members(b) /\ b[k] \notin Singles
           /\ \A j, k \in 1..Len(b) : b[j] = b[k] => j = k
           /\ \A r \in Members(b) : \E k \in 1..Len(b) : r = b[k]
BY PlotAssumption DEF Members, Singles

\* Accepting a group, or one request that belongs to none, keeps the invariant of groups.
LEMMA AcceptGroups ==
    ASSUME GroupsDisjoint, IInv, GroupInv, NEW b \in Seq(Requests), NEW grouped \in BOOLEAN,
           \A j, k \in 1..Len(b) : b[j] = b[k] => j = k,
           \/ b \in Batches /\ (grouped <=> Len(b) > 1)
           \/ ~grouped /\ \A c \in Batches : Members(c) \cap Members(b) = {},
           Acceptable(b), Accept(b, grouped), active' = active
    PROVE  GroupInv'
<1>1. /\ Members(b) \subseteq Requests /\ Len(b) \in Nat
      /\ \A r \in Members(b) : /\ r \notin seen /\ r \notin pending /\ result[r] = None
                               /\ ~InQueue(r) /\ r # active
  <2>1. Members(b) \subseteq Requests /\ Len(b) \in Nat /\ \A r \in Members(b) : r \notin seen
      BY DEF Acceptable, Members
  <2> QED
      BY <2>1, PlotAssumption DEF IInv, NoneLost, QueueDistinct
<1>2. ASSUME NEW c \in Batches, c # b, NEW k \in 1..Len(c)
      PROVE  c[k] \notin Members(b) /\ c[k] \in Requests
  <2>1. c[k] \in Members(c) /\ c[k] \in Requests
      BY GroupMembers
  <2>2. Members(c) \cap Members(b) = {}
      BY <1>2 DEF GroupsDisjoint
  <2> QED
      BY <2>1, <2>2
<1>3. "applied" # "cancelled" /\ None \notin Breaking /\ None # "applied"
    BY PlotAssumption DEF Breaking, Statuses
<1>4. CASE closed
  <2>1. /\ result' = [r \in Requests |-> IF r \in Members(b) THEN "cancelled" ELSE result[r]]
        /\ UNCHANGED <<queue, pending, groups>>
      BY <1>4 DEF Accept
  <2>2. \A r : InQueue(r)' <=> InQueue(r)
      BY <2>1 DEF InQueue
  <2>3. \A r \in Requests : result'[r] = "applied" => result[r] = "applied" /\ r \notin Members(b)
      BY <1>3, <2>1
  <2>4. GroupQueued'
      BY <2>1 DEF GroupInv, GroupQueued
  <2>5. GroupInOrder'
      BY <2>1, <2>2, <2>3, GroupMembers DEF GroupInv, GroupInOrder
  <2>6. GroupKnown'
      BY <2>1 DEF GroupInv, GroupKnown
  <2>7. GroupClosed'
    <3> SUFFICES ASSUME NEW c \in Batches, NEW j \in 1..Len(c), NEW k \in 1..Len(c),
                        j < k, c[k] \in pending'
                 PROVE  result'[c[j]] \notin Breaking
        BY DEF GroupClosed
    <3>1. c[k] \in pending /\ c[k] \notin Members(b) /\ c # b
        BY <1>1, <2>1, GroupMembers
    <3>2. result'[c[j]] = result[c[j]]
        BY <1>2, <2>1, <3>1
    <3> QED
        BY <3>1, <3>2 DEF GroupInv, GroupClosed
  <2>8. GroupsStopAtFirstFailure'
    <3> SUFFICES ASSUME NEW c \in Batches, NEW j \in 1..Len(c), NEW k \in 1..Len(c),
                        j < k, result'[c[k]] = "applied"
                 PROVE  result'[c[j]] \notin Breaking
        BY DEF GroupsStopAtFirstFailure
    <3>1. result[c[k]] = "applied" /\ c # b
        BY <2>3, GroupMembers
    <3>2. result'[c[j]] = result[c[j]]
        BY <1>2, <2>1, <3>1
    <3> QED
        BY <3>1, <3>2 DEF GroupInv, GroupsStopAtFirstFailure
  <2> QED
      BY <2>4, <2>5, <2>6, <2>7, <2>8 DEF GroupInv
<1>5. CASE ~closed
  <2>1. /\ queue' = queue \o b /\ pending' = pending \cup Members(b) /\ UNCHANGED result
        /\ groups' = [r \in Requests |->
                          IF grouped /\ r \in Members(b) THEN Members(b) ELSE groups[r]]
      BY <1>5 DEF Accept
  <2>2. \A r : InQueue(r)' <=> InQueue(r) \/ r \in Members(b)
    <3>1. queue \in Seq(Requests) /\ \A j, k \in 1..Len(queue) : queue[j] = queue[k] => j = k
        BY DEF IInv, TypeOK, QueueDistinct
    <3>2. \A k \in 1..Len(b) : ~InQueue(b[k])
        BY <1>1 DEF Members
    <3> QED
        BY <2>1, <3>1, <3>2, QueuedAfterAccept
  <2>3. GroupQueued'
    <3>1. /\ Len(queue') = Len(queue) + Len(b) /\ Len(queue) \in Nat
          /\ \A k \in 1..Len(queue) : queue'[k] = queue[k]
          /\ \A k \in 1..Len(b) : queue'[Len(queue) + k] = b[k]
        BY <2>1, ConcatQueue DEF IInv, TypeOK
    <3> SUFFICES ASSUME NEW c \in Batches, NEW j \in 1..Len(c), NEW k \in 1..Len(c),
                        NEW m \in 1..Len(queue'), NEW n \in 1..Len(queue'),
                        j < k, queue'[m] = c[j], queue'[n] = c[k]
                 PROVE  m < n
        BY DEF GroupQueued
    <3>2. \A i \in 1..Len(queue') :
              \/ i \in 1..Len(queue) /\ InQueue(queue'[i])
              \/ /\ i - Len(queue) \in 1..Len(b) /\ i > Len(queue)
                 /\ queue'[i] = b[i - Len(queue)] /\ queue'[i] \in Members(b)
      <4> SUFFICES ASSUME NEW i \in 1..Len(queue')
                   PROVE  \/ i \in 1..Len(queue) /\ InQueue(queue'[i])
                          \/ /\ i - Len(queue) \in 1..Len(b) /\ i > Len(queue)
                             /\ queue'[i] = b[i - Len(queue)] /\ queue'[i] \in Members(b)
          OBVIOUS
      <4>1. CASE i \in 1..Len(queue)
          BY <3>1, <4>1 DEF InQueue
      <4>2. CASE i \notin 1..Len(queue)
        <5>1. i - Len(queue) \in 1..Len(b) /\ i > Len(queue) /\ Len(queue) + (i - Len(queue)) = i
            BY <1>1, <3>1, <4>2
        <5>2. queue'[Len(queue) + (i - Len(queue))] = b[i - Len(queue)]
            BY <3>1, <5>1
        <5> QED
            BY <5>1, <5>2 DEF Members
      <4> QED
          BY <4>1, <4>2
    <3>3. CASE c = b
      <4>1. queue'[m] \in Members(b) /\ queue'[n] \in Members(b)
          BY <3>3, GroupMembers
      <4>2. /\ m - Len(queue) \in 1..Len(b) /\ b[m - Len(queue)] = b[j]
            /\ n - Len(queue) \in 1..Len(b) /\ b[n - Len(queue)] = b[k]
          BY <1>1, <3>2, <3>3, <4>1
      <4>3. m - Len(queue) = j /\ n - Len(queue) = k
          BY <3>3, <4>2
      <4> QED
          BY <3>1, <4>3
    <3>4. CASE c # b
      <4>1. m \in 1..Len(queue) /\ n \in 1..Len(queue)
          BY <1>2, <3>2, <3>4
      <4> QED
          BY <3>1, <4>1 DEF GroupInv, GroupQueued
    <3> QED
        BY <3>3, <3>4
  <2>4. GroupInOrder'
    <3> SUFFICES ASSUME NEW c \in Batches, NEW j \in 1..Len(c), NEW k \in 1..Len(c), j < k
                 PROVE  /\ InQueue(c[j])' => c[k] # active
                        /\ result[c[k]] = "applied" => c[j] \notin pending'
        BY <2>1 DEF GroupInOrder
    <3>1. CASE c = b
      <4>1. c[k] \in Members(b)
          BY <3>1, GroupMembers
      <4> QED
          BY <1>1, <1>3, <4>1
    <3>2. CASE c # b
        BY <1>2, <2>1, <2>2, <3>2 DEF GroupInv, GroupInOrder
    <3> QED
        BY <3>1, <3>2
  <2>5. GroupKnown'
    <3>1. ASSUME NEW c \in Batches, NEW j \in 1..Len(c), NEW k \in 1..Len(c),
                 j # k, c[j] \in pending', c[k] \in pending'
          PROVE  c[k] \in groups'[c[j]]
      <4>1. CASE c = b
        <5>1. grouped
            BY <1>1, <3>1, <4>1, GroupMembers
        <5> QED
            BY <1>1, <2>1, <4>1, <5>1, GroupMembers
      <4>2. CASE c # b
        <5>1. c[j] \notin Members(b) /\ c[k] \notin Members(b) /\ c[j] \in Requests
            BY <1>2, <4>2
        <5> QED
            BY <2>1, <3>1, <5>1 DEF GroupInv, GroupKnown
      <4> QED
          BY <4>1, <4>2
    <3>2. ASSUME NEW r \in Requests, NEW q \in groups'[r], NEW c \in Batches
          PROVE  r \in Members(c) <=> q \in Members(c)
      <4>1. CASE grouped /\ r \in Members(b)
        <5>1. q \in Members(b) /\ b \in Batches
            BY <2>1, <3>2, <4>1
        <5> QED
            BY <4>1, <5>1 DEF GroupsDisjoint
      <4>2. CASE ~(grouped /\ r \in Members(b))
        <5>1. q \in groups[r]
            BY <2>1, <3>2, <4>2
        <5> QED
            BY <5>1 DEF GroupInv, GroupKnown
      <4> QED
          BY <4>1, <4>2
    <3> QED
        BY <3>1, <3>2 DEF GroupKnown
  <2>6. GroupClosed'
    <3> SUFFICES ASSUME NEW c \in Batches, NEW j \in 1..Len(c), NEW k \in 1..Len(c),
                        j < k, c[k] \in pending'
                 PROVE  result[c[j]] \notin Breaking
        BY <2>1 DEF GroupClosed
    <3>1. CASE c = b
      <4>1. c[j] \in Members(b)
          BY <3>1, GroupMembers
      <4> QED
          BY <1>1, <1>3, <4>1
    <3>2. CASE c # b
        BY <1>2, <2>1, <3>2 DEF GroupInv, GroupClosed
    <3> QED
        BY <3>1, <3>2
  <2>7. GroupsStopAtFirstFailure'
      BY <2>1 DEF GroupInv, GroupsStopAtFirstFailure
  <2> QED
      BY <2>3, <2>4, <2>5, <2>6, <2>7 DEF GroupInv
<1> QED
    BY <1>4, <1>5

\* Deciding the active request, or cancelling a queued one, keeps the invariant of groups
\* as long as the queue keeps its order.
LEMMA DecideGroups ==
    ASSUME GroupsDisjoint, IInv, GroupInv, NEW r \in Requests, NEW status \in Statuses,
           Decide(r, status), active' = active, GroupQueued',
           \A q \in Requests : InQueue(q)' => InQueue(q),
           r = active \/ (InQueue(r) /\ status = "cancelled")
    PROVE  GroupInv'
<1>1. "applied" # "cancelled" /\ "applied" \notin Breaking
    BY DEF Breaking
<1>2. /\ pending' \subseteq pending /\ r \notin pending'
      /\ \A q \in pending \ pending' : q # r => InQueue(q) /\ result'[q] = "cancelled"
      /\ r \in pending => result'[r] = status
      /\ \A q \in Requests : q \notin pending \ pending' => result'[q] = result[q]
    BY Deciding DEF IInv
<1>3. \A q \in pending : InQueue(q) \/ q = active
    BY DEF IInv, NoneLost
<1>4. CASE r \notin pending
  <2>1. UNCHANGED <<pending, result, groups>>
      BY <1>4, Zenon DEF Decide
  <2>2. GroupInOrder'
      BY <2>1, GroupMembers DEF GroupInv, GroupInOrder
  <2>3. GroupKnown' /\ GroupClosed' /\ GroupsStopAtFirstFailure'
      BY <2>1 DEF GroupInv, GroupKnown, GroupClosed, GroupsStopAtFirstFailure
  <2> QED
      BY <2>2, <2>3 DEF GroupInv
<1>5. CASE r \in pending
  <2> DEFINE fallen == IF status \in Breaking
                       THEN {q \in groups[r] \cap pending : InQueue(q)} \ {r} ELSE {}
  <2>1. /\ pending' = pending \ ({r} \cup fallen)
        /\ groups' = [q \in Requests |->
                          IF q = r \/ (status \in Breaking /\ q \in groups[r]) THEN {} ELSE groups[q]]
      BY <1>5, Zenon DEF Decide, Decided
  <2>2. \A q \in fallen : q \in groups[r] /\ q \in pending /\ InQueue(q) /\ status \in Breaking
      BY Zenon
  <2>3. \A q \in groups[r] :
            status \in Breaking /\ q \in pending /\ InQueue(q) /\ q # r => q \in fallen
      BY Zenon
  <2> HIDE DEF fallen
  \* Only members of the group of r are decided.
  <2>4. ASSUME NEW c \in Batches, NEW j \in 1..Len(c), c[j] \in pending \ pending'
        PROVE  r \in Members(c) /\ (c[j] # r => status \in Breaking)
    <3>1. CASE c[j] = r
        BY <3>1, GroupMembers
    <3>2. CASE c[j] # r
      <4>1. c[j] \in groups[r] /\ c[j] \in Members(c) /\ status \in Breaking
          BY <2>1, <2>2, <2>4, <3>2, GroupMembers
      <4> QED
          BY <4>1 DEF GroupInv, GroupKnown
    <3> QED
        BY <3>1, <3>2
  \* After a failure the only member that may be outstanding is the active one.
  <2>5. ASSUME NEW c \in Batches, r \in Members(c), NEW k \in 1..Len(c), c[k] \in pending',
               status \in Breaking
        PROVE  c[k] = active /\ r # active
    <3>1. PICK i \in 1..Len(c) : r = c[i]
        BY <2>5, GroupMembers
    <3>2. c[k] \in pending /\ c[k] # r /\ c[k] \notin fallen
        BY <1>2, <2>1, <2>5
    <3>3. c[k] \in groups[r]
      <4>1. i # k /\ c[i] \in pending /\ c[k] \in pending
          BY <1>5, <3>1, <3>2
      <4> QED
          BY <3>1, <4>1 DEF GroupInv, GroupKnown
    <3>4. ~InQueue(c[k])
        BY <2>3, <2>5, <3>2, <3>3
    <3> QED
        BY <1>3, <3>2, <3>4
  <2>6. GroupInOrder'
    <3> SUFFICES ASSUME NEW c \in Batches, NEW j \in 1..Len(c), NEW k \in 1..Len(c), j < k
                 PROVE  /\ InQueue(c[j])' => c[k] # active
                        /\ result'[c[k]] = "applied" => c[j] \notin pending'
        BY DEF GroupInOrder
    <3>1. InQueue(c[j])' => c[k] # active
        BY GroupMembers DEF GroupInv, GroupInOrder
    <3>2. ASSUME result'[c[k]] = "applied", c[j] \in pending' PROVE FALSE
      <4>1. result[c[k]] # "applied" /\ c[j] \in pending
          BY <1>2, <3>2 DEF GroupInv, GroupInOrder
      <4>2. c[k] = r /\ r = active
          BY <1>1, <1>2, <3>2, <4>1, GroupMembers
      <4>3. c[j] # active
          BY <4>2, GroupMembers
      <4> QED
          BY <1>3, <4>1, <4>2, <4>3 DEF GroupInv, GroupInOrder
    <3> QED
        BY <3>1, <3>2
  <2>7. GroupKnown'
    <3>1. ASSUME NEW c \in Batches, NEW j \in 1..Len(c), NEW k \in 1..Len(c),
                 j # k, c[j] \in pending', c[k] \in pending'
          PROVE  c[k] \in groups'[c[j]]
      <4>1. c[k] \in groups[c[j]] /\ c[j] \in Requests /\ c[j] # c[k]
          BY <1>2, <3>1, GroupMembers DEF GroupInv, GroupKnown
      <4>2. ~(status \in Breaking /\ c[j] \in groups[r])
        <5> SUFFICES ASSUME status \in Breaking, c[j] \in groups[r] PROVE FALSE
            OBVIOUS
        <5>1. r \in Members(c)
            BY GroupMembers DEF GroupInv, GroupKnown
        <5> QED
            BY <2>5, <3>1, <4>1, <5>1
      <4>3. c[j] # r
          BY <1>2, <3>1
      <4> QED
          BY <2>1, <4>1, <4>2, <4>3
    <3>2. \A q \in Requests : groups'[q] \subseteq groups[q]
        BY <2>1
    <3> QED
        BY <3>1, <3>2 DEF GroupInv, GroupKnown
  <2>8. GroupClosed'
    <3> SUFFICES ASSUME NEW c \in Batches, NEW j \in 1..Len(c), NEW k \in 1..Len(c),
                        j < k, c[k] \in pending', result'[c[j]] \in Breaking
                 PROVE  FALSE
        BY DEF GroupClosed
    <3>1. c[j] \in pending \ pending'
      <4>1. result[c[j]] \notin Breaking
          BY <1>2 DEF GroupInv, GroupClosed
      <4> QED
          BY <1>2, <4>1, GroupMembers
    <3>2. r \in Members(c) /\ status \in Breaking
        BY <1>2, <1>5, <2>4, <3>1
    <3>3. c[k] = active /\ r # active
        BY <2>5, <3>2
    <3>4. InQueue(c[j])
      <4>1. CASE c[j] = r
          BY <3>3, <4>1
      <4>2. CASE c[j] # r
          BY <1>2, <3>1, <4>2
      <4> QED
          BY <4>1, <4>2
    <3> QED
        BY <3>3, <3>4 DEF GroupInv, GroupInOrder
  <2>9. GroupsStopAtFirstFailure'
    <3> SUFFICES ASSUME NEW c \in Batches, NEW j \in 1..Len(c), NEW k \in 1..Len(c),
                        j < k, result'[c[j]] \in Breaking, result'[c[k]] = "applied"
                 PROVE  FALSE
        BY DEF GroupsStopAtFirstFailure
    <3>1. CASE result[c[k]] = "applied"
      <4>1. c[j] \notin pending
          BY <3>1 DEF GroupInv, GroupInOrder
      <4>2. result[c[j]] \in Breaking
          BY <1>2, <4>1, GroupMembers
      <4> QED
          BY <3>1, <4>2 DEF GroupInv, GroupsStopAtFirstFailure
    <3>2. CASE result[c[k]] # "applied"
      <4>1. c[k] = r /\ status = "applied" /\ c[k] \in pending
          BY <1>1, <1>2, <3>2, GroupMembers
      <4>2. pending' = pending \ {r} /\ c[j] # r
          BY <1>1, <2>1, <2>2, <4>1, GroupMembers
      <4>3. result[c[j]] \in Breaking
          BY <1>2, <4>2, GroupMembers
      <4> QED
          BY <4>1, <4>3 DEF GroupInv, GroupClosed
    <3> QED
        BY <3>1, <3>2
  <2> QED
      BY <2>6, <2>7, <2>8, <2>9 DEF GroupInv
<1> QED
    BY <1>4, <1>5

\* Cancelling everything that is queued keeps the invariant of groups.
LEMMA CancelGroups ==
    ASSUME IInv, GroupInv, CancelQueued, active' = active
    PROVE  GroupInv'
<1>1. "applied" # "cancelled"
    OBVIOUS
<1>2. /\ queue' = <<>> /\ pending' = {r \in pending : ~InQueue(r)}
      /\ result' = [r \in Requests |->
                        IF r \in pending /\ InQueue(r) THEN "cancelled" ELSE result[r]]
      /\ \A r \in Requests : groups'[r] \subseteq groups[r]
    BY DEF CancelQueued
<1>3. \A r \in pending' : r = active
    BY <1>2 DEF IInv, NoneLost
<1>4. \A r : ~InQueue(r)'
  <2>1. queue' = <<>> /\ Len(queue') = 0
      BY <1>2
  <2> QED
      BY <2>1, SMT DEF InQueue
<1>5. \A r \in Requests : result'[r] # result[r] => r \in pending /\ InQueue(r) /\ result'[r] = "cancelled"
    BY <1>2
<1>6. GroupQueued'
  <2>1. Len(queue') = 0
      BY <1>2
  <2> QED
      BY <2>1 DEF GroupQueued
<1>7. GroupInOrder'
    BY <1>1, <1>2, <1>4, <1>5, GroupMembers DEF GroupInv, GroupInOrder
<1>8. GroupKnown'
  <2>1. ASSUME NEW c \in Batches, NEW j \in 1..Len(c), NEW k \in 1..Len(c),
               j # k, c[j] \in pending', c[k] \in pending'
        PROVE  FALSE
      BY <1>3, <2>1, GroupMembers
  <2> QED
      BY <1>2, <2>1 DEF GroupInv, GroupKnown
<1>9. GroupClosed'
  <2> SUFFICES ASSUME NEW c \in Batches, NEW j \in 1..Len(c), NEW k \in 1..Len(c),
                      j < k, c[k] \in pending', result'[c[j]] \in Breaking
               PROVE  FALSE
      BY DEF GroupClosed
  <2>1. c[k] = active /\ c[k] \in pending
      BY <1>2, <1>3
  <2>2. InQueue(c[j])
      BY <1>5, <2>1, GroupMembers DEF GroupInv, GroupClosed
  <2> QED
      BY <2>1, <2>2 DEF GroupInv, GroupInOrder
<1>10. GroupsStopAtFirstFailure'
  <2> SUFFICES ASSUME NEW c \in Batches, NEW j \in 1..Len(c), NEW k \in 1..Len(c),
                      j < k, result'[c[j]] \in Breaking, result'[c[k]] = "applied"
               PROVE  FALSE
      BY DEF GroupsStopAtFirstFailure
  <2>1. result[c[k]] = "applied"
      BY <1>1, <1>5, GroupMembers
  <2>2. c[j] \notin pending
      BY <2>1 DEF GroupInv, GroupInOrder
  <2>3. result[c[j]] \in Breaking
      BY <1>5, <2>2, GroupMembers
  <2> QED
      BY <2>1, <2>3 DEF GroupInv, GroupsStopAtFirstFailure
<1> QED
    BY <1>6, <1>7, <1>8, <1>9, <1>10 DEF GroupInv

\* Taking the oldest request keeps the invariant of groups: nothing of its group is
\* queued before it.
LEMMA PopGroups ==
    ASSUME IInv, GroupInv, Pop
    PROVE  GroupInv'
<1>1. /\ queue # <<>> /\ queue' = Tail(queue) /\ (active' = Head(queue) \/ active' = active)
      /\ UNCHANGED <<pending, groups, result>>
    BY DEF Pop
<1>2. \A r : InQueue(r)' => InQueue(r)
    BY <1>1, QueuedAfterPop DEF IInv, TypeOK, QueueDistinct
<1>3. /\ Len(queue') = Len(queue) - 1 /\ Len(queue) \in Nat /\ Len(queue) > 0
      /\ Head(queue) = queue[1]
      /\ \A k \in 1..(Len(queue) - 1) : queue'[k] = queue[k + 1]
    BY <1>1, TailQueue DEF IInv, TypeOK
<1>4. GroupQueued'
  <2> SUFFICES ASSUME NEW c \in Batches, NEW j \in 1..Len(c), NEW k \in 1..Len(c),
                      NEW m \in 1..Len(queue'), NEW n \in 1..Len(queue'),
                      j < k, queue'[m] = c[j], queue'[n] = c[k]
               PROVE  m < n
      BY DEF GroupQueued
  <2>1. /\ m + 1 \in 1..Len(queue) /\ queue[m + 1] = c[j]
        /\ n + 1 \in 1..Len(queue) /\ queue[n + 1] = c[k]
      BY <1>3
  <2>2. m + 1 < n + 1
      BY <2>1 DEF GroupInv, GroupQueued
  <2> QED
      BY <1>3, <2>2
<1>5. GroupInOrder'
  <2> SUFFICES ASSUME NEW c \in Batches, NEW j \in 1..Len(c), NEW k \in 1..Len(c), j < k
               PROVE  /\ InQueue(c[j])' => c[k] # active'
                      /\ result'[c[k]] = "applied" => c[j] \notin pending'
      BY DEF GroupInOrder
  <2>1. ASSUME InQueue(c[j])', c[k] = active' PROVE FALSE
    <3>1. c[k] = Head(queue)
        BY <1>1, <1>2, <2>1 DEF GroupInv, GroupInOrder
    <3>2. PICK m \in 1..Len(queue) : queue[m] = c[j]
        BY <1>2, <2>1 DEF InQueue
    <3>3. 1 \in 1..Len(queue) /\ queue[1] = c[k]
        BY <1>3, <3>1
    <3>4. m < 1
        BY <3>2, <3>3 DEF GroupInv, GroupQueued
    <3> QED
        BY <3>4
  <2> QED
      BY <1>1, <2>1 DEF GroupInv, GroupInOrder
<1> QED
    BY <1>1, <1>4, <1>5 DEF GroupInv, GroupKnown, GroupClosed, GroupsStopAtFirstFailure

\* Every step keeps the invariant of groups.
LEMMA StepGroups == GroupsDisjoint /\ IInv /\ GroupInv /\ [Next]_vars => GroupInv'
<1> SUFFICES ASSUME GroupsDisjoint, IInv, GroupInv, [Next]_vars PROVE GroupInv'
    OBVIOUS
<1>1. ASSUME NEW b \in Batches, SubmitMany(b) PROVE GroupInv'
  <2>1. Acceptable(b) /\ Accept(b, Len(b) > 1) /\ active' = active /\ (Len(b) > 1) \in BOOLEAN
      BY <1>1 DEF SubmitMany
  <2> QED
      BY <2>1, Submittable, AcceptGroups
<1>2. ASSUME NEW r \in Singles PROVE \A c \in Batches : Members(c) \cap Members(<<r>>) = {}
    BY DEF Members, Singles
<1>3. ASSUME NEW r \in Singles, SubmitMany(<<r>>) PROVE GroupInv'
  <2>1. Acceptable(<<r>>) /\ Accept(<<r>>, FALSE) /\ active' = active
    <3>1. (Len(<<r>>) > 1) = FALSE
        OBVIOUS
    <3> QED
        BY <1>3, <3>1 DEF SubmitMany
  <2> QED
      BY <1>2, <2>1, Submittable, AcceptGroups
<1>4. ASSUME NEW r \in Singles, ApplyNow(r) PROVE GroupInv'
  <2>1. Acceptable(<<r>>) /\ Accept(<<r>>, FALSE) /\ active' = active
      BY <1>4 DEF ApplyNow
  <2> QED
      BY <1>2, <2>1, Submittable, AcceptGroups
<1>5. ASSUME NEW r \in Requests, Cancel(r) PROVE GroupInv'
  <2>1. PICK i \in 1..Len(queue) : queue[i] = r /\ queue' = Without(queue, i)
      BY <1>5 DEF Cancel
  <2>2. /\ queue \in Seq(Requests)
        /\ \A m, n \in 1..Len(queue) : queue[m] = queue[n] => m = n
      BY DEF IInv, TypeOK, QueueDistinct
  <2>3. \A q : InQueue(q)' => InQueue(q)
      BY <2>1, <2>2, QueuedAfterCancel
  <2>4. /\ Len(queue') = Len(queue) - 1 /\ Len(queue) \in Nat
        /\ \A m \in 1..(Len(queue) - 1) : queue'[m] = IF m < i THEN queue[m] ELSE queue[m + 1]
      BY <2>1, <2>2, WithoutQueue
  <2>5. GroupQueued'
    <3> SUFFICES ASSUME NEW c \in Batches, NEW j \in 1..Len(c), NEW k \in 1..Len(c),
                        NEW m \in 1..Len(queue'), NEW n \in 1..Len(queue'),
                        j < k, queue'[m] = c[j], queue'[n] = c[k]
                 PROVE  m < n
        BY DEF GroupQueued
    <3> DEFINE from(p) == IF p < i THEN p ELSE p + 1
    <3>1. \A p \in 1..Len(queue') : from(p) \in 1..Len(queue) /\ queue'[p] = queue[from(p)]
        BY <2>4
    <3>2. from(m) < from(n) => m < n
        BY <2>4
    <3> HIDE DEF from
    <3>3. from(m) < from(n)
        BY <3>1 DEF GroupInv, GroupQueued
    <3> QED
        BY <3>2, <3>3
  <2>6. Decide(r, "cancelled") /\ active' = active /\ "cancelled" \in Statuses /\ InQueue(r)
      BY <1>5, <2>1 DEF Cancel, Statuses, InQueue
  <2> QED
      BY <2>3, <2>5, <2>6, DecideGroups
<1>6. ASSUME CancelPending \/ Shutdown PROVE GroupInv'
    BY <1>6, CancelGroups DEF CancelPending, Shutdown
<1>7. ASSUME NEW status \in Statuses, Apply(status) PROVE GroupInv'
  <2>1. Decide(active, status) /\ active \in Requests /\ UNCHANGED <<active, queue>>
      BY <1>7 DEF Apply, IInv, TypeOK, PlaceConsistent
  <2>2. GroupQueued' /\ \A q \in Requests : InQueue(q)' => InQueue(q)
      BY <2>1 DEF GroupInv, GroupQueued, InQueue
  <2> QED
      BY <2>1, <2>2, DecideGroups
<1>8. ASSUME UNCHANGED <<queue, pending, groups, result>>, active' = active \/ active' = None
      PROVE  GroupInv'
  <2>1. GroupInOrder'
    <3>1. \A q : InQueue(q)' <=> InQueue(q)
        BY <1>8 DEF InQueue
    <3>2. \A c \in Batches : \A k \in 1..Len(c) : c[k] # None
        BY GroupMembers, PlotAssumption
    <3> QED
        BY <1>8, <3>1, <3>2 DEF GroupInv, GroupInOrder
  <2> QED
      BY <1>8, <2>1
      DEF GroupInv, GroupQueued, GroupKnown, GroupClosed, GroupsStopAtFirstFailure
<1>9. DeliverWake \/ EnterDrain \/ DrainDone \/ Yield \/ ClearActive \/ CommitReplacement
      \/ LeaveGuard \/ Detach \/ EnterGuard \/ UNCHANGED vars => GroupInv'
    BY <1>8 DEF DeliverWake, EnterDrain, DrainDone, Yield, ClearActive, CommitReplacement,
       LeaveGuard, Detach, EnterGuard, vars, lockVars
<1> QED
    BY <1>1, <1>3, <1>4, <1>5, <1>6, <1>7, <1>9, PopGroups
    DEF Next, Producer, Dispatcher, Application

-----------------------------------------------------------------------------
(***************************************************************************)
(* The order of acceptance.                                                *)
(***************************************************************************)
\* Every place of a concatenation is a place of one of its halves.
LEMMA ConcatPlaces ==
    ASSUME NEW S, NEW q \in Seq(S), NEW b \in Seq(S), NEW k \in 1..Len(q \o b)
    PROVE  \/ k \in 1..Len(q) /\ (q \o b)[k] = q[k]
           \/ k > Len(q) /\ k - Len(q) \in 1..Len(b) /\ (q \o b)[k] = b[k - Len(q)]
<1>1. /\ Len(q \o b) = Len(q) + Len(b) /\ Len(q) \in Nat /\ Len(b) \in Nat
      /\ \A i \in 1..Len(q) : (q \o b)[i] = q[i]
      /\ \A i \in 1..Len(b) : (q \o b)[Len(q) + i] = b[i]
    BY ConcatQueue
<1>2. CASE k \in 1..Len(q)
    BY <1>1, <1>2
<1>3. CASE k \notin 1..Len(q)
  <2>1. k - Len(q) \in 1..Len(b) /\ k > Len(q) /\ Len(q) + (k - Len(q)) = k
      BY <1>1, <1>3
  <2>2. (q \o b)[Len(q) + (k - Len(q))] = b[k - Len(q)]
      BY <1>1, <2>1
  <2> QED
      BY <2>1, <2>2
<1> QED
    BY <1>2, <1>3

\* Accepting a group, or one request on its own, keeps the order of acceptance.
LEMMA AcceptOrder ==
    ASSUME IInv, OrderInv, NEW b \in Seq(Requests),
           \A j, k \in 1..Len(b) : b[j] = b[k] => j = k,
           NEW grouped \in BOOLEAN, grouped => b \in Batches,
           Acceptable(b), Accept(b, grouped), UNCHANGED <<active, closed>>
    PROVE  OrderInv'
<1>1. /\ queue \in Seq(Requests) /\ accepted \in Seq(Requests)
      /\ \A j, k \in 1..Len(queue) : queue[j] = queue[k] => j = k
      /\ \A r \in Requests : InQueue(r) => r \in seen
      /\ active # None => active \in seen
    BY DEF IInv, TypeOK, QueueDistinct
<1>2. /\ seen' = seen \cup Members(b) /\ accepted' = accepted \o b
      /\ Members(b) \cap seen = {} /\ Members(b) \subseteq Requests
      /\ \A k \in 1..Len(b) : b[k] \in Members(b)
    BY DEF Accept, Acceptable, Members
<1>3. /\ Len(accepted) \in Nat /\ Len(b) \in Nat /\ accepted' \in Seq(Requests)
      /\ Len(accepted') = Len(accepted) + Len(b)
      /\ \A k \in 1..Len(accepted) : k \in 1..Len(accepted') /\ accepted'[k] = accepted[k]
      /\ \A k \in 1..Len(b) : /\ Len(accepted) + k \in 1..Len(accepted')
                              /\ accepted'[Len(accepted) + k] = b[k]
    BY <1>1, <1>2, ConcatQueue
<1>4. \A k \in 1..Len(accepted) : accepted[k] \in seen /\ accepted[k] \in Requests
    BY <1>1 DEF OrderInv, AcceptedOnce
<1>5. ASSUME NEW k \in 1..Len(accepted')
      PROVE  \/ /\ k \in 1..Len(accepted) /\ accepted'[k] = accepted[k]
                /\ accepted'[k] \in seen /\ accepted'[k] \notin Members(b)
             \/ /\ k > Len(accepted) /\ k - Len(accepted) \in 1..Len(b)
                /\ accepted'[k] = b[k - Len(accepted)]
                /\ accepted'[k] \notin seen /\ accepted'[k] \in Members(b)
  <2>1. \/ k \in 1..Len(accepted) /\ accepted'[k] = accepted[k]
        \/ /\ k > Len(accepted) /\ k - Len(accepted) \in 1..Len(b)
           /\ accepted'[k] = b[k - Len(accepted)]
      BY <1>1, <1>2, ConcatPlaces
  <2> QED
      BY <1>2, <1>4, <2>1
<1>6. AcceptedOnce'
  <2>1. ASSUME NEW r \in Requests
        PROVE  r \in seen' <=> \E k \in 1..Len(accepted') : accepted'[k] = r
    <3>1. CASE r \in seen
        BY <1>2, <1>3, <3>1 DEF OrderInv, AcceptedOnce
    <3>2. CASE r \in Members(b)
        BY <1>2, <1>3, <3>2 DEF Members
    <3>3. CASE r \notin seen /\ r \notin Members(b)
        BY <1>2, <1>5, <3>3
    <3> QED
        BY <3>1, <3>2, <3>3
  <2>2. ASSUME NEW j \in 1..Len(accepted'), NEW k \in 1..Len(accepted'),
               accepted'[j] = accepted'[k]
        PROVE  j = k
    <3>1. CASE accepted'[j] \in seen
        BY <1>5, <2>2, <3>1 DEF OrderInv, AcceptedOnce
    <3>2. CASE accepted'[j] \notin seen
      <4>1. /\ j > Len(accepted) /\ j - Len(accepted) \in 1..Len(b)
            /\ k > Len(accepted) /\ k - Len(accepted) \in 1..Len(b)
            /\ b[j - Len(accepted)] = b[k - Len(accepted)]
          BY <1>5, <2>2, <3>2
      <4>2. j - Len(accepted) = k - Len(accepted)
          BY <4>1
      <4> QED
          BY <1>3, <4>2
    <3> QED
        BY <3>1, <3>2
  <2> QED
      BY <2>1, <2>2 DEF AcceptedOnce
<1>7. GroupedInBatch'
  <2>1. \A r \in Requests : groups'[r] # {} => groups[r] # {} \/ (grouped /\ r \in Members(b))
      BY DEF Accept, IInv, TypeOK
  <2> QED
      BY <2>1 DEF OrderInv, GroupedInBatch
<1>8. CASE closed
  <2>1. UNCHANGED <<queue, pending>>
      BY <1>8 DEF Accept
  <2>2. \A r : InQueue(r)' <=> InQueue(r)
      BY <2>1 DEF InQueue
  <2>3. \A m \in 1..Len(queue') : queue'[m] \in seen /\ queue'[m] = queue[m]
      BY <1>1, <2>1 DEF InQueue
  <2>4. QueueInOrder'
    <3>1. ASSUME NEW m \in 1..Len(queue'), NEW n \in 1..Len(queue'),
                 NEW j \in 1..Len(accepted'), NEW k \in 1..Len(accepted'),
                 m < n, queue'[m] = accepted'[j], queue'[n] = accepted'[k]
          PROVE  j < k
        BY <1>5, <2>1, <2>3, <3>1 DEF OrderInv, QueueInOrder
    <3>2. ASSUME NEW j \in 1..Len(accepted'), NEW k \in 1..Len(accepted'),
                 accepted'[j] = active', InQueue(accepted[k])'
          PROVE  j < k
      <4>1. accepted'[j] \in seen /\ accepted'[k] \in seen
          BY <1>1, <1>3, <2>3, <3>2, PlotAssumption DEF InQueue
      <4>2. InQueue(accepted'[k])
          BY <2>2, <3>2 DEF InQueue
      <4> QED
          BY <1>5, <3>2, <4>1, <4>2 DEF OrderInv, QueueInOrder
    <3> QED
        BY <3>1, <3>2 DEF QueueInOrder
  <2> QED
      BY <1>6, <1>7, <1>8, <2>1, <2>4 DEF OrderInv
<1>9. CASE ~closed
  <2>1. queue' = queue \o b
      BY <1>9 DEF Accept
  <2>2. \A r : InQueue(r)' <=> InQueue(r) \/ r \in Members(b)
    <3>1. \A k \in 1..Len(b) : ~InQueue(b[k])
        BY <1>1, <1>2
    <3> QED
        BY <1>1, <2>1, <3>1, QueuedAfterAccept
  <2>3. ASSUME NEW m \in 1..Len(queue')
        PROVE  \/ m \in 1..Len(queue) /\ queue'[m] = queue[m] /\ queue'[m] \in seen
               \/ /\ m > Len(queue) /\ m - Len(queue) \in 1..Len(b)
                  /\ queue'[m] = b[m - Len(queue)] /\ queue'[m] \notin seen
    <3>1. \A i \in 1..Len(queue) : queue[i] \in seen
        BY <1>1 DEF InQueue
    <3>2. \/ m \in 1..Len(queue) /\ queue'[m] = queue[m]
          \/ m > Len(queue) /\ m - Len(queue) \in 1..Len(b) /\ queue'[m] = b[m - Len(queue)]
        BY <1>1, <2>1, ConcatPlaces
    <3> QED
        BY <1>2, <3>1, <3>2
  <2>4. QueueInOrder'
    <3>1. ASSUME NEW m \in 1..Len(queue'), NEW n \in 1..Len(queue'),
                 NEW j \in 1..Len(accepted'), NEW k \in 1..Len(accepted'),
                 m < n, queue'[m] = accepted'[j], queue'[n] = accepted'[k]
          PROVE  j < k
      <4>0. Len(queue) \in Nat
          BY <1>1
      <4>1. CASE queue'[m] \in seen /\ queue'[n] \in seen
          BY <1>5, <2>3, <3>1, <4>1 DEF OrderInv, QueueInOrder
      <4>2. CASE queue'[m] \in seen /\ queue'[n] \notin seen
        <5>1. j \in 1..Len(accepted) /\ k > Len(accepted)
            BY <1>5, <3>1, <4>2
        <5> QED
            BY <1>3, <5>1
      <4>3. CASE queue'[m] \notin seen /\ queue'[n] \notin seen
        <5>1. /\ m - Len(queue) \in 1..Len(b) /\ n - Len(queue) \in 1..Len(b)
              /\ queue'[m] = b[m - Len(queue)] /\ queue'[n] = b[n - Len(queue)]
            BY <2>3, <4>3
        <5>2. /\ j - Len(accepted) \in 1..Len(b) /\ k - Len(accepted) \in 1..Len(b)
              /\ queue'[m] = b[j - Len(accepted)] /\ queue'[n] = b[k - Len(accepted)]
            BY <1>5, <3>1, <4>3
        <5>3. m - Len(queue) = j - Len(accepted) /\ n - Len(queue) = k - Len(accepted)
            BY <5>1, <5>2
        <5> QED
            BY <1>3, <3>1, <4>0, <5>3
      <4>4. CASE queue'[m] \notin seen /\ queue'[n] \in seen
        <5>1. m > Len(queue) /\ n \in 1..Len(queue)
            BY <2>3, <4>4
        <5> QED
            BY <3>1, <4>0, <5>1
      <4> QED
          BY <4>1, <4>2, <4>3, <4>4
    <3>2. ASSUME NEW j \in 1..Len(accepted'), NEW k \in 1..Len(accepted'),
                 accepted'[j] = active', InQueue(accepted[k])'
          PROVE  j < k
      <4>1. accepted'[j] \in seen
          BY <1>1, <1>3, <3>2, PlotAssumption
      <4>2. j \in 1..Len(accepted) /\ accepted[j] = active
          BY <1>5, <3>2, <4>1
      <4>3. CASE accepted'[k] \in Members(b)
        <5>1. k > Len(accepted)
            BY <1>5, <4>3
        <5> QED
            BY <1>3, <4>2, <5>1
      <4>4. CASE accepted'[k] \notin Members(b)
        <5>1. k \in 1..Len(accepted) /\ accepted'[k] = accepted[k]
            BY <1>5, <4>4
        <5>2. InQueue(accepted[k])
            BY <2>2, <3>2, <4>4, <5>1 DEF InQueue
        <5> QED
            BY <4>2, <5>1, <5>2 DEF OrderInv, QueueInOrder
      <4> QED
          BY <4>3, <4>4
    <3> QED
        BY <3>1, <3>2 DEF QueueInOrder
  <2> QED
      BY <1>6, <1>7, <1>9, <2>4 DEF OrderInv
<1> QED
    BY <1>8, <1>9

\* A step that accepts nothing, draws from no queue and groups nobody keeps the order of
\* acceptance.
LEMMA QuietOrder ==
    ASSUME IInv, OrderInv, UNCHANGED <<seen, accepted>>,
           \A r \in Requests : groups'[r] # {} => groups[r] # {},
           active' = active \/ active' = None, pending' \subseteq pending,
           closed' => closed \/ pending' = {}, QueueInOrder'
    PROVE  OrderInv'
<1>1. AcceptedOnce' /\ GroupedInBatch'
    BY DEF OrderInv, AcceptedOnce, GroupedInBatch
<1> QED
    BY <1>1 DEF OrderInv

\* The queue stays in order when it stays as it is, or is emptied.
LEMMA KeptInOrder ==
    ASSUME IInv, OrderInv, UNCHANGED accepted, queue' = queue \/ queue' = <<>>,
           active' = active \/ active' = None
    PROVE  QueueInOrder'
<1>1. \A k \in 1..Len(accepted) : accepted[k] \in Requests
    BY DEF IInv, TypeOK
<1>2. \A r : InQueue(r)' => InQueue(r)
  <2>1. CASE queue' = queue
      BY <2>1 DEF InQueue
  <2>2. CASE queue' = <<>>
    <3>1. Len(queue') = 0
        BY <2>2
    <3> QED
        BY <3>1, SMT DEF InQueue
  <2> QED
      BY <2>1, <2>2
<1>3. ASSUME NEW m \in 1..Len(queue'), NEW n \in 1..Len(queue'),
             NEW j \in 1..Len(accepted), NEW k \in 1..Len(accepted),
             m < n, queue'[m] = accepted[j], queue'[n] = accepted[k]
      PROVE  j < k
  <2>1. CASE queue' = queue
      BY <1>3, <2>1 DEF OrderInv, QueueInOrder
  <2>2. CASE queue' = <<>>
    <3>1. Len(queue') = 0
        BY <2>2
    <3> QED
        BY <1>3, <3>1
  <2> QED
      BY <2>1, <2>2
<1>4. ASSUME NEW j \in 1..Len(accepted), NEW k \in 1..Len(accepted),
             accepted[j] = active', InQueue(accepted[k])'
      PROVE  j < k
  <2>1. active' = active /\ InQueue(accepted[k])
      BY <1>1, <1>2, <1>4, PlotAssumption DEF InQueue
  <2> QED
      BY <1>4, <2>1 DEF OrderInv, QueueInOrder
<1> QED
    BY <1>3, <1>4 DEF QueueInOrder

\* Deciding a request groups nobody.
LEMMA DecidingGroups ==
    ASSUME TypeOK, NEW r, NEW status, Decide(r, status)
    PROVE  \A q \in Requests : groups'[q] # {} => groups[q] # {}
BY DEF Decide, Decided, TypeOK

\* Taking one request off the queue keeps the order of acceptance.
LEMMA CancelOrder ==
    ASSUME IInv, OrderInv, NEW r \in Requests, Cancel(r)
    PROVE  OrderInv'
<1>1. PICK i \in 1..Len(queue) : queue[i] = r /\ queue' = Without(queue, i)
    BY DEF Cancel
<1>2. /\ queue \in Seq(Requests)
      /\ \A m, n \in 1..Len(queue) : queue[m] = queue[n] => m = n
    BY DEF IInv, TypeOK, QueueDistinct
<1>3. \A q : InQueue(q)' => InQueue(q)
    BY <1>1, <1>2, QueuedAfterCancel
<1>4. /\ Len(queue') = Len(queue) - 1 /\ Len(queue) \in Nat
      /\ \A m \in 1..(Len(queue) - 1) : queue'[m] = IF m < i THEN queue[m] ELSE queue[m + 1]
    BY <1>1, <1>2, WithoutQueue
<1>5. UNCHANGED <<seen, accepted, active, closed>> /\ Decide(r, "cancelled")
      /\ "cancelled" \in Statuses
    BY DEF Cancel, stateVars, Statuses
<1>6. QueueInOrder'
  <2>1. ASSUME NEW m \in 1..Len(queue'), NEW n \in 1..Len(queue'),
               NEW j \in 1..Len(accepted), NEW k \in 1..Len(accepted),
               m < n, queue'[m] = accepted[j], queue'[n] = accepted[k]
        PROVE  j < k
    <3> DEFINE from(p) == IF p < i THEN p ELSE p + 1
    <3>1. \A p \in 1..Len(queue') : from(p) \in 1..Len(queue) /\ queue'[p] = queue[from(p)]
        BY <1>4
    <3>2. from(m) < from(n)
        BY <1>4, <2>1
    <3> HIDE DEF from
    <3> QED
        BY <2>1, <3>1, <3>2 DEF OrderInv, QueueInOrder
  <2>2. ASSUME NEW j \in 1..Len(accepted), NEW k \in 1..Len(accepted),
               accepted[j] = active', InQueue(accepted[k])'
        PROVE  j < k
    <3>1. InQueue(accepted[k])
        BY <1>3, <1>5, <2>2 DEF InQueue
    <3> QED
        BY <1>5, <2>2, <3>1 DEF OrderInv, QueueInOrder
  <2> QED
      BY <1>5, <2>1, <2>2 DEF QueueInOrder
<1>7. pending' \subseteq pending /\ \A q \in Requests : groups'[q] # {} => groups[q] # {}
    BY <1>5, Deciding, DecidingGroups DEF IInv
<1> QED
    BY <1>5, <1>6, <1>7, QuietOrder

\* The oldest request in the queue was accepted before all the others there.
LEMMA PopOrder ==
    ASSUME IInv, OrderInv, Pop
    PROVE  OrderInv'
<1>1. /\ queue # <<>> /\ queue' = Tail(queue) /\ (active' = Head(queue) \/ active' = active)
      /\ active = None /\ UNCHANGED <<pending, groups, seen, accepted, closed>>
    BY DEF Pop, stateVars
<1>2. \A r : InQueue(r)' => InQueue(r) /\ r # Head(queue)
    BY <1>1, QueuedAfterPop DEF IInv, TypeOK, QueueDistinct
<1>3. /\ Len(queue') = Len(queue) - 1 /\ Len(queue) \in Nat /\ Len(queue) > 0
      /\ Head(queue) = queue[1]
      /\ \A k \in 1..(Len(queue) - 1) : queue'[k] = queue[k + 1]
    BY <1>1, TailQueue DEF IInv, TypeOK
<1>4. QueueInOrder'
  <2>1. ASSUME NEW m \in 1..Len(queue'), NEW n \in 1..Len(queue'),
               NEW j \in 1..Len(accepted), NEW k \in 1..Len(accepted),
               m < n, queue'[m] = accepted[j], queue'[n] = accepted[k]
        PROVE  j < k
    <3>1. /\ m + 1 \in 1..Len(queue) /\ queue[m + 1] = accepted[j]
          /\ n + 1 \in 1..Len(queue) /\ queue[n + 1] = accepted[k] /\ m + 1 < n + 1
        BY <1>3, <2>1
    <3> QED
        BY <3>1 DEF OrderInv, QueueInOrder
  <2>2. ASSUME NEW j \in 1..Len(accepted), NEW k \in 1..Len(accepted),
               accepted[j] = active', InQueue(accepted[k])'
        PROVE  j < k
    <3>1. accepted[j] = queue[1] /\ 1 \in 1..Len(queue)
        BY <1>1, <1>3, <2>2, PlotAssumption DEF IInv, TypeOK
    <3>2. InQueue(accepted[k]) /\ accepted[k] # queue[1]
        BY <1>1, <1>2, <1>3, <2>2 DEF InQueue
    <3>3. PICK n \in 1..Len(queue) : queue[n] = accepted[k]
        BY <3>2 DEF InQueue
    <3>4. 1 < n
        BY <1>3, <3>2, <3>3
    <3> QED
        BY <3>1, <3>3, <3>4 DEF OrderInv, QueueInOrder
  <2> QED
      BY <1>1, <2>1, <2>2 DEF QueueInOrder
<1>5. AcceptedOnce' /\ GroupedInBatch'
    BY <1>1 DEF OrderInv, AcceptedOnce, GroupedInBatch
<1> QED
    BY <1>1, <1>4, <1>5 DEF OrderInv

\* The service starts with nothing accepted.
LEMMA InitOrder == Init => OrderInv
<1> SUFFICES ASSUME Init PROVE OrderInv
    OBVIOUS
<1>1. /\ queue = <<>> /\ Len(queue) = 0 /\ accepted = <<>> /\ Len(accepted) = 0
      /\ seen = {} /\ pending = {} /\ groups = [r \in Requests |-> {}]
    BY DEF Init
<1> QED
    BY <1>1, SMT DEF OrderInv, AcceptedOnce, QueueInOrder, GroupedInBatch

\* Every step keeps the order of acceptance.
LEMMA StepOrder == IInv /\ OrderInv /\ [Next]_vars => OrderInv'
<1> SUFFICES ASSUME IInv, OrderInv, [Next]_vars PROVE OrderInv'
    OBVIOUS
<1>1. ASSUME NEW b \in Batches, SubmitMany(b) PROVE OrderInv'
  <2>1. /\ Acceptable(b) /\ Accept(b, Len(b) > 1) /\ UNCHANGED <<active, closed>>
        /\ (Len(b) > 1) \in BOOLEAN
      BY <1>1 DEF SubmitMany, stateVars
  <2> QED
      BY <2>1, Submittable, AcceptOrder
<1>2. ASSUME NEW r \in Singles, SubmitMany(<<r>>) \/ ApplyNow(r) PROVE OrderInv'
  <2>1. Acceptable(<<r>>) /\ Accept(<<r>>, FALSE) /\ UNCHANGED <<active, closed>>
    <3>1. (Len(<<r>>) > 1) = FALSE
        OBVIOUS
    <3> QED
        BY <1>2, <3>1 DEF SubmitMany, ApplyNow, stateVars
  <2> QED
      BY <2>1, Submittable, AcceptOrder
<1>3. ASSUME CancelPending \/ Shutdown PROVE OrderInv'
  <2>1. /\ CancelQueued /\ active' = active
        /\ closed' => closed \/ (gui = "idle" /\ closed')
      BY <1>3 DEF CancelPending, Shutdown, stateVars
  <2>2. /\ queue' = <<>> /\ pending' = {r \in pending : ~InQueue(r)}
        /\ UNCHANGED <<seen, accepted>>
        /\ \A r \in Requests : groups'[r] # {} => groups[r] # {}
      BY <2>1 DEF CancelQueued
  <2>3. gui = "idle" => pending' = {}
      BY <2>2, PlotAssumption DEF IInv, PlaceConsistent, NoneLost, TypeOK
  <2>4. QueueInOrder'
      BY <2>1, <2>2, KeptInOrder
  <2>5. pending' \subseteq pending /\ (closed' => closed \/ pending' = {})
      BY <2>1, <2>2, <2>3
  <2> QED
      BY <2>1, <2>2, <2>4, <2>5, QuietOrder
<1>4. ASSUME NEW status \in Statuses, Apply(status) PROVE OrderInv'
  <2>1. /\ Decide(active, status) /\ active \in Requests
        /\ UNCHANGED <<active, queue, seen, accepted, closed>>
      BY <1>4 DEF Apply, IInv, TypeOK, PlaceConsistent, stateVars
  <2>2. pending' \subseteq pending /\ \A q \in Requests : groups'[q] # {} => groups[q] # {}
      BY <2>1, Deciding, DecidingGroups DEF IInv
  <2>3. QueueInOrder'
      BY <2>1, KeptInOrder
  <2> QED
      BY <2>1, <2>2, <2>3, QuietOrder
<1>5. ASSUME UNCHANGED <<queue, pending, groups, seen, accepted, closed>>,
             active' = active \/ active' = None
      PROVE  OrderInv'
  <2>1. QueueInOrder'
      BY <1>5, KeptInOrder
  <2> QED
      BY <1>5, <2>1, QuietOrder
<1>6. DeliverWake \/ EnterDrain \/ DrainDone \/ Yield \/ ClearActive \/ CommitReplacement
      \/ LeaveGuard \/ Detach \/ EnterGuard \/ UNCHANGED vars => OrderInv'
    BY <1>5 DEF DeliverWake, EnterDrain, DrainDone, Yield, ClearActive, CommitReplacement,
       LeaveGuard, Detach, EnterGuard, vars, lockVars, stateVars
<1> QED
    BY <1>1, <1>2, <1>3, <1>4, <1>6, CancelOrder, PopOrder
    DEF Next, Producer, Dispatcher, Application

-----------------------------------------------------------------------------
(***************************************************************************)
(* The theorems.                                                           *)
(***************************************************************************)
\* The inductive invariant holds in every reachable state, for every set of requests and
\* groups, every capacity and every number of replacements.
THEOREM Invariant == Spec => []IInv
<1>1. Init /\ [][Next]_vars => []IInv
    BY InitInvariant, StepInvariant, PTL
<1> QED
    BY <1>1, PTL DEF Spec

\* Type correctness of the dispatcher.
THEOREM TypeCorrect == Spec => []TypeOK
<1>1. IInv => TypeOK
    BY DEF IInv
<1> QED
    BY <1>1, Invariant, PTL

\* No accepted request is lost: until its ticket holds a result it is queued or being
\* applied.
THEOREM NoRequestLost == Spec => []NoneLost
<1>1. IInv => NoneLost
    BY DEF IInv
<1> QED
    BY <1>1, Invariant, PTL

\* A queue that is not empty has a wake event on its way whenever the GUI thread is
\* outside the dispatcher.
THEOREM NoLostWakeup == Spec => []WakeOnTheWay
<1>1. IInv => WakeOnTheWay
    BY DEF IInv
<1> QED
    BY <1>1, Invariant, PTL

\* A display is replaced only while nothing is outstanding, and every request is drawn on
\* the display it was accepted for.
THEOREM ReplacementIsIsolated == Spec => []ReplacementIsolated
<1>1. IInv => ReplacementIsolated
    BY DEF IInv
<1> QED
    BY <1>1, Invariant, PTL

\* A ticket holds one terminal result for ever: nothing decided is decided again.
THEOREM OneResultOnly == Spec => OneResult
<1> DEFINE Kept == \A r \in Requests : result[r] # None => result'[r] = result[r]
<1>1. IInv /\ [Next]_vars => [Kept]_vars
  <2> SUFFICES ASSUME IInv, Next PROVE Kept
      OBVIOUS
  <2> USE PlotAssumption
  <2>1. \A r \in Requests : result[r] # None => r \in seen /\ r \notin pending
      BY DEF IInv, NoneLost
  <2>2. ASSUME NEW b, NEW grouped, Acceptable(b), Accept(b, grouped) PROVE Kept
    <3>1. Members(b) \cap seen = {}
        BY <2>2 DEF Acceptable, Members
    <3>2. \/ result' = result
          \/ result' = [r \in Requests |->
                            IF r \in Members(b) THEN "cancelled" ELSE result[r]]
        BY <2>2 DEF Accept
    <3> QED
        BY <2>1, <3>1, <3>2
  <2>3. ASSUME NEW r \in Requests, NEW status \in Statuses, Decide(r, status) PROVE Kept
    <3>1. \A q \in Requests : q \notin pending \ pending' => result'[q] = result[q]
        BY <2>3, Deciding DEF IInv
    <3> QED
        BY <2>1, <3>1
  <2>4. ASSUME CancelQueued PROVE Kept
      BY <2>1, <2>4 DEF CancelQueued
  <2>5. ASSUME NEW b, SubmitMany(b) PROVE Kept
    <3>1. Acceptable(b) /\ Accept(b, Len(b) > 1)
        BY <2>5 DEF SubmitMany
    <3> QED
        BY <3>1, <2>2
  <2>6. CASE Producer
    <3>1. ASSUME NEW r \in Requests, Cancel(r) PROVE Kept
        BY <2>3, <3>1 DEF Cancel, Statuses
    <3>2. ASSUME CancelPending PROVE Kept
        BY <2>4, <3>2 DEF CancelPending
    <3> QED
        BY <2>5, <2>6, <3>1, <3>2 DEF Producer
  <2>7. CASE Dispatcher
    <3>1. ASSUME NEW status \in Statuses, Apply(status) PROVE Kept
      <4>1. active \in Requests /\ Decide(active, status)
          BY <3>1 DEF Apply, IInv, TypeOK, PlaceConsistent
      <4> QED
          BY <2>3, <4>1
    <3>2. DeliverWake \/ EnterDrain \/ DrainDone \/ Yield \/ Pop \/ ClearActive
          \/ CommitReplacement \/ LeaveGuard \/ Detach => result' = result
        BY DEF DeliverWake, EnterDrain, DrainDone, Yield, Pop, ClearActive, CommitReplacement,
           LeaveGuard, Detach, lockVars
    <3> QED
        BY <2>7, <3>1, <3>2 DEF Dispatcher
  <2>8. CASE Application
    <3>1. ASSUME NEW r \in Singles, ApplyNow(r) PROVE Kept
        BY <2>2, <3>1 DEF ApplyNow
    <3>2. ASSUME Shutdown PROVE Kept
        BY <2>4, <3>2 DEF Shutdown
    <3>3. ASSUME EnterGuard PROVE Kept
        BY <3>3 DEF EnterGuard, lockVars
    <3> QED
        BY <2>8, <3>1, <3>2, <3>3 DEF Application
  <2> QED
      BY <2>6, <2>7, <2>8 DEF Next
<1> QED
    BY <1>1, Invariant, PTL DEF Spec, OneResult

\* The invariant of groups holds in every reachable state.
LEMMA GroupsInvariant ==
    ASSUME GroupsDisjoint
    PROVE  Spec => []GroupInv
<1>1. Init => GroupInv
  <2> SUFFICES ASSUME Init PROVE GroupInv
      OBVIOUS
  <2>1. queue = <<>> /\ Len(queue) = 0 /\ pending = {} /\ active = None
        /\ groups = [r \in Requests |-> {}] /\ result = [r \in Requests |-> None]
      BY DEF Init
  <2>2. \A r : ~InQueue(r)
      BY <2>1, SMT DEF InQueue
  <2>3. None \notin Breaking /\ None # "applied"
      BY PlotAssumption DEF Breaking, Statuses
  <2>4. GroupQueued
      BY <2>1 DEF GroupQueued
  <2>5. GroupInOrder /\ GroupKnown
      BY <2>1, <2>2 DEF GroupInOrder, GroupKnown
  <2>6. GroupClosed
      BY <2>1 DEF GroupClosed
  <2>7. GroupsStopAtFirstFailure
      BY <2>1, <2>3, GroupMembers DEF GroupsStopAtFirstFailure
  <2> QED
      BY <2>4, <2>5, <2>6, <2>7 DEF GroupInv
<1>2. IInv /\ GroupInv /\ [Next]_vars => GroupInv'
    BY StepGroups
<1> QED
    BY <1>1, <1>2, Invariant, PTL DEF Spec

\* A group never draws past a hole: a member is applied only if no earlier member of its
\* group failed, was refused or was cancelled; for groups that share no request.
THEOREM GroupsStop ==
    ASSUME GroupsDisjoint
    PROVE  Spec => []GroupsStopAtFirstFailure
<1>1. GroupInv => GroupsStopAtFirstFailure
    BY DEF GroupInv
<1> QED
    BY <1>1, GroupsInvariant, PTL

\* What was accepted and has no result is what is outstanding.
LEMMA WaitingIsPending == IInv /\ OrderInv => Promise!Waiting = pending
<1> SUFFICES ASSUME IInv, OrderInv PROVE Promise!Waiting = pending
    OBVIOUS
<1>1. /\ \A k \in 1..Len(accepted) : accepted[k] \in Requests
      /\ pending \subseteq seen /\ seen \subseteq Requests
    BY DEF IInv, TypeOK, QueueDistinct
<1>2. Promise!Listed(accepted) = seen
    BY <1>1 DEF Promise!Listed, OrderInv, AcceptedOnce
<1> QED
    BY <1>1, <1>2 DEF Promise!Waiting, IInv, NoneLost

\* Those accepted before the request being applied are decided.
LEMMA EarlierDecided ==
    ASSUME IInv, OrderInv, NEW j \in 1..Len(accepted), NEW k \in 1..Len(accepted),
           j < k, accepted[k] = active
    PROVE  accepted[j] \notin pending
<1>1. ASSUME accepted[j] \in pending PROVE FALSE
  <2>1. InQueue(accepted[j]) \/ accepted[j] = accepted[k]
      BY <1>1 DEF IInv, NoneLost
  <2>2. CASE InQueue(accepted[j])
    <3>1. k < j
        BY <2>2 DEF OrderInv, QueueInOrder
    <3> QED
        BY <3>1
  <2>3. CASE accepted[j] = accepted[k]
      BY <2>3 DEF OrderInv, AcceptedOnce
  <2> QED
      BY <2>1, <2>2, <2>3
<1> QED
    BY <1>1

\* Requests are drawn in the order of their acceptance: when one is applied, all those
\* accepted before it are decided.
THEOREM DrawnInTheirOrder == Spec => DrawnInOrder
<1> DEFINE Ordered == \A k \in 1..Len(accepted) :
                          result[accepted[k]] = None /\ result'[accepted[k]] = "applied"
                          => \A j \in 1..(k - 1) : result[accepted[j]] # None
<1>1. IInv /\ OrderInv /\ [Next]_vars => [Ordered]_vars
  <2> SUFFICES ASSUME IInv, OrderInv, Next, NEW k \in 1..Len(accepted),
                      result[accepted[k]] = None, result'[accepted[k]] = "applied",
                      NEW j \in 1..(k - 1)
               PROVE  result[accepted[j]] # None
      OBVIOUS
  <2>1. /\ accepted[k] \in Requests /\ accepted[j] \in Requests /\ Len(accepted) \in Nat
        /\ j \in 1..Len(accepted) /\ j < k /\ accepted[j] \in seen
      BY DEF IInv, TypeOK, OrderInv, AcceptedOnce
  <2>2. None # "applied"
      BY PlotAssumption DEF Statuses
  <2>3. ASSUME NEW b, NEW grouped, Accept(b, grouped) PROVE FALSE
      BY <2>1, <2>2, <2>3 DEF Accept
  <2>4. ASSUME CancelQueued PROVE FALSE
      BY <2>1, <2>2, <2>4 DEF CancelQueued
  <2>5. ASSUME NEW r \in Requests, NEW status \in Statuses, Decide(r, status)
        PROVE  status = "applied" /\ accepted[k] = r
    <3>1. accepted[k] \in pending \ pending'
        BY <2>1, <2>2, <2>5, Deciding DEF IInv
    <3> QED
        BY <2>1, <2>5, <3>1, Deciding DEF IInv
  <2>6. ASSUME result' = result PROVE FALSE
      BY <2>2, <2>6
  <2>7. \E status \in Statuses : Apply(status)
    <3>1. ASSUME NEW r \in Requests, Cancel(r) PROVE FALSE
        BY <2>5, <3>1 DEF Cancel, Statuses
    <3>2. (\E b : SubmitMany(b)) \/ (\E r : ApplyNow(r)) => FALSE
        BY <2>3 DEF SubmitMany, ApplyNow
    <3>3. CancelPending \/ Shutdown => FALSE
        BY <2>4 DEF CancelPending, Shutdown
    <3>4. DeliverWake \/ EnterDrain \/ DrainDone \/ Yield \/ Pop \/ ClearActive
          \/ CommitReplacement \/ LeaveGuard \/ Detach \/ EnterGuard => FALSE
        BY <2>6 DEF DeliverWake, EnterDrain, DrainDone, Yield, Pop, ClearActive,
           CommitReplacement, LeaveGuard, Detach, EnterGuard, lockVars
    <3> QED
        BY <3>1, <3>2, <3>3, <3>4 DEF Next, Producer, Dispatcher, Application
  <2>8. accepted[k] = active
      BY <2>5, <2>7 DEF Apply, IInv, TypeOK, PlaceConsistent
  <2>9. accepted[j] \notin pending
      BY <2>1, <2>8, EarlierDecided
  <2> QED
      BY <2>1, <2>9 DEF IInv, NoneLost
<1> QED
    BY <1>1, Invariant, InitOrder, StepOrder, PTL DEF Spec, DrawnInOrder

-----------------------------------------------------------------------------
(***************************************************************************)
(* The dispatcher implements PlotTickets.                                  *)
(***************************************************************************)
\* Accepting a group, or one request on its own, is a submission.
LEMMA AcceptIsSubmit ==
    ASSUME IInv, OrderInv, NEW b, NEW grouped, Acceptable(b), Accept(b, grouped), closed' = closed
    PROVE  Promise!Submit(b)
<1>1. Promise!Listed(b) \cap Promise!Listed(accepted) = {}
  <2>1. Promise!Listed(accepted) \subseteq seen
      BY DEF Promise!Listed, OrderInv, AcceptedOnce, IInv, TypeOK
  <2>2. Promise!Listed(b) \cap seen = {}
      BY DEF Acceptable, Promise!Listed
  <2> QED
      BY <2>1, <2>2
<1>2. result' = IF closed THEN Promise!Told(Promise!Listed(b), "cancelled") ELSE result
    BY DEF Accept, Promise!Told, Promise!Listed, Members
<1> QED
    BY <1>1, <1>2 DEF Promise!Submit, Accept

\* Outstanding members of a group behind one that is queued are queued themselves.
LEMMA QueuedBehind ==
    ASSUME IInv, GroupInv, NEW c \in Batches, NEW j \in 1..Len(c), NEW k \in 1..Len(c),
           j < k, InQueue(c[j]), c[k] \in pending
    PROVE  InQueue(c[k])
BY DEF IInv, NoneLost, GroupInv, GroupInOrder

\* Cancelling one request, and with it those of its group that are queued, takes none from
\* before an outstanding one.
LEMMA CancelIsCancel ==
    ASSUME IInv, OrderInv, GroupInv, NEW r \in Requests, Cancel(r)
    PROVE  [Promise!Next]_(Promise!vars)
<1>1. InQueue(r) /\ Decide(r, "cancelled") /\ UNCHANGED <<accepted, closed>>
    BY DEF Cancel, stateVars, InQueue
<1>2. CASE r \notin pending
    BY <1>1, <1>2 DEF Decide, Promise!vars
<1>3. CASE r \in pending
  <2> DEFINE fallen == {q \in groups[r] \cap pending : InQueue(q)} \ {r}
             S == {r} \cup fallen
  <2>1. Decided(r, "cancelled", fallen)
      BY <1>1, <1>3 DEF Decide, Breaking
  <2>2. result' = Promise!Told(S, "cancelled")
    <3> HIDE DEF fallen
    <3> QED
        BY <2>1 DEF Decided, Promise!Told
  <2>3. S \in SUBSET Promise!Waiting
      BY <1>3, WaitingIsPending
  <2>4. ASSUME NEW c \in Batches, NEW j \in 1..Len(c), NEW k \in 1..Len(c),
               j < k, c[j] \in S, c[k] \in pending, c[k] # r
        PROVE  c[k] \in fallen
    <3>1. InQueue(c[k])
        BY <1>1, <2>4, QueuedBehind
    <3>2. PICK i \in 1..Len(c) : c[i] = r
      <4>1. r \in Members(c)
          BY <2>4, GroupMembers DEF GroupInv, GroupKnown
      <4> QED
          BY <4>1, GroupMembers
    <3>3. c[k] \in groups[r]
        BY <1>3, <2>4, <3>2 DEF GroupInv, GroupKnown
    <3> QED
        BY <2>4, <3>1, <3>3
  <2>5. Promise!Cancel(S)
    <3> HIDE DEF fallen
    <3> QED
        BY <1>1, <2>2, <2>4, WaitingIsPending DEF Promise!Cancel
  <2> HIDE DEF S
  <2> QED
      BY <2>3, <2>5 DEF Promise!Next
<1> QED
    BY <1>2, <1>3

\* Cancelling everything queued takes the ends of the groups; on shutdown nothing is being
\* applied, so that nothing is left outstanding.
LEMMA CancelQueuedIsCancel ==
    ASSUME IInv, OrderInv, GroupInv, CancelPending \/ Shutdown
    PROVE  Promise!Next
<1> DEFINE S == {q \in pending : InQueue(q)}
<1>1. result' = Promise!Told(S, "cancelled") /\ accepted' = accepted
    BY DEF CancelPending, Shutdown, CancelQueued, Promise!Told
<1>2. CASE CancelPending
  <2>1. Promise!Cancel(S)
      BY <1>1, <1>2, QueuedBehind, WaitingIsPending DEF Promise!Cancel, CancelPending, stateVars
  <2>2. S \in SUBSET Promise!Waiting
      BY WaitingIsPending
  <2> HIDE DEF S
  <2> QED
      BY <2>1, <2>2 DEF Promise!Next
<1>3. CASE Shutdown
  <2>1. S = pending
      BY <1>3, PlotAssumption DEF Shutdown, IInv, PlaceConsistent, NoneLost, TypeOK
  <2>2. Promise!Close
      BY <1>1, <1>3, <2>1, WaitingIsPending DEF Shutdown, Promise!Close
  <2> QED
      BY <2>2 DEF Promise!Next
<1> QED
    BY <1>2, <1>3

\* The answer of the renderer is the answer to the oldest waiting request.
LEMMA ApplyIsAnswer ==
    ASSUME IInv, OrderInv, GroupInv, NEW status \in Statuses, Apply(status)
    PROVE  Promise!Next
<1>1. /\ Decide(active, status) /\ active \in pending /\ active \in Requests /\ active \in seen
      /\ UNCHANGED <<accepted, closed>> /\ ~closed
      /\ status \in Promise!Answers /\ (status \in Breaking <=> status \in Promise!Holes)
    BY DEF Apply, Outcomes, stateVars, IInv, PlaceConsistent, QueueDistinct, TypeOK, OrderInv,
       Promise!Answers, Promise!Holes, Breaking
<1>2. PICK k \in 1..Len(accepted) : accepted[k] = active
    BY <1>1 DEF OrderInv, AcceptedOnce
<1>3. \A j \in 1..k - 1 : accepted[j] \notin Promise!Waiting
  <2>1. \A j \in 1..k - 1 : j \in 1..Len(accepted) /\ j < k
      BY DEF IInv, TypeOK
  <2> QED
      BY <1>2, <2>1, EarlierDecided, WaitingIsPending
<1> DEFINE fallen == {q \in groups[active] \cap pending : InQueue(q)} \ {active}
<1>4. Decided(active, status, IF status \in Breaking THEN fallen ELSE {})
    BY <1>1 DEF Decide
<1>5. fallen = Promise!Rest(active)
  <2>1. ASSUME NEW q \in pending, q # active,
               NEW c \in Batches, {q, active} \subseteq Promise!Listed(c)
        PROVE  q \in groups[active] /\ InQueue(q)
    <3>1. PICK i \in 1..Len(c), j \in 1..Len(c) : c[i] = q /\ c[j] = active
        BY <2>1 DEF Promise!Listed
    <3>2. q \in groups[active]
        BY <1>1, <2>1, <3>1 DEF GroupInv, GroupKnown
    <3> QED
        BY <2>1, <3>2 DEF IInv, NoneLost
  <2>2. ASSUME NEW q \in groups[active]
        PROVE  \E c \in Batches : {q, active} \subseteq Promise!Listed(c)
    <3>1. PICK c \in Batches : active \in Members(c)
        BY <1>1, <2>2 DEF OrderInv, GroupedInBatch
    <3>2. q \in Members(c)
        BY <1>1, <2>2, <3>1 DEF GroupInv, GroupKnown
    <3> QED
        BY <3>1, <3>2 DEF Members, Promise!Listed
  <2> QED
      BY <2>1, <2>2, WaitingIsPending DEF Promise!Rest
<1> HIDE DEF fallen
<1>6. result' = IF status \in Promise!Holes
                THEN [Promise!Told(fallen, "cancelled") EXCEPT ![active] = status]
                ELSE [result EXCEPT ![active] = status]
  <2>1. result \in [Requests -> Statuses \cup {None}]
      BY DEF IInv, TypeOK
  <2> QED
      BY <1>1, <1>4, <2>1 DEF Decided, Promise!Told
<1>7. Promise!Answer(k, status)
    BY <1>1, <1>2, <1>3, <1>5, <1>6, WaitingIsPending DEF Promise!Answer
<1> QED
    BY <1>1, <1>7 DEF Promise!Next

\* Every step of the dispatcher is a step of PlotTickets or is not visible there.
LEMMA StepImplements ==
    IInv /\ OrderInv /\ GroupInv /\ [Next]_vars => [Promise!Next]_(Promise!vars)
<1> SUFFICES ASSUME IInv, OrderInv, GroupInv, [Next]_vars PROVE [Promise!Next]_(Promise!vars)
    OBVIOUS
<1>1. ASSUME NEW b \in Batches \cup {<<r>> : r \in Requests}, SubmitMany(b) PROVE Promise!Next
  <2>1. Promise!Submit(b)
      BY <1>1, AcceptIsSubmit DEF SubmitMany, stateVars
  <2> QED
      BY <2>1 DEF Promise!Next
<1>2. ASSUME NEW r \in Requests, ApplyNow(r) PROVE Promise!Next
  <2>1. Promise!Submit(<<r>>) /\ <<r>> \in {<<q>> : q \in Requests}
      BY <1>2, AcceptIsSubmit DEF ApplyNow, stateVars
  <2> QED
      BY <2>1 DEF Promise!Next
<1>3. Singles \subseteq Requests
    BY DEF Singles
<1>4. DeliverWake \/ EnterDrain \/ DrainDone \/ Yield \/ Pop \/ ClearActive \/ CommitReplacement
      \/ LeaveGuard \/ Detach \/ EnterGuard \/ UNCHANGED vars => UNCHANGED Promise!vars
    BY DEF DeliverWake, EnterDrain, DrainDone, Yield, Pop, ClearActive, CommitReplacement,
       LeaveGuard, Detach, EnterGuard, vars, lockVars, stateVars, Promise!vars
<1> QED
    BY <1>1, <1>2, <1>3, <1>4, CancelIsCancel, CancelQueuedIsCancel, ApplyIsAnswer
    DEF Next, Producer, Dispatcher, Application

\* The dispatcher keeps its promise, whatever turns the GUI thread takes: tickets are answered
\* once and in the order of acceptance, a group stops at its first hole and is cancelled from
\* its end, and nothing waits after a shutdown; for groups that share no request.
THEOREM TicketsImplemented ==
    ASSUME GroupsDisjoint
    PROVE  Spec => ImplementsPlotTickets
<1>1. Init => Promise!Init
    BY DEF Init, Promise!Init
<1>2. Init /\ [][Next]_vars => []OrderInv
    BY Invariant, InitOrder, StepOrder, InitInvariant, StepInvariant, PTL
<1> QED
    BY <1>1, <1>2, Invariant, GroupsInvariant, StepImplements, PTL
    DEF Spec, ImplementsPlotTickets, Promise!Spec
=============================================================================
