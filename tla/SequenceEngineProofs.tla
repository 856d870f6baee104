------------------------ MODULE SequenceEngineProofs ------------------------
(***************************************************************************)
(* Proofs about SequenceEngine, for every set of scripts and commands:     *)
(* the inductive invariant IInv, the safety properties that follow from    *)
(* it, and that the engine implements ScriptRuns; and, as the instance     *)
(* Pool, about ParallelBranches, the branches a script of the engine runs, *)
(* for any number of them.                                                 *)
(***************************************************************************)
EXTENDS SequenceEngine, BranchState, SequenceTheorems, TLAPS

Pool == INSTANCE ParallelBranches

(***************************************************************************)
(* Facts about sequences that several steps use.                           *)
(***************************************************************************)
\* What Append does to a queue: one longer, the old items in place, the new one last.
LEMMA AppendQueue ==
    ASSUME NEW S, NEW q \in Seq(S), NEW i \in S
    PROVE  /\ Append(q, i) \in Seq(S) /\ Len(Append(q, i)) = Len(q) + 1
           /\ \A k \in 1..Len(q) : Append(q, i)[k] = q[k]
           /\ Append(q, i)[Len(q) + 1] = i
OBVIOUS

\* What taking the head does to a queue: one shorter, every other item one place on.
LEMMA TailQueue ==
    ASSUME NEW S, NEW q \in Seq(S), q # <<>>
    PROVE  /\ Tail(q) \in Seq(S) /\ Len(Tail(q)) = Len(q) - 1 /\ Len(q) \in Nat /\ Len(q) > 0
           /\ Head(q) = q[1] /\ Head(q) \in S
           /\ \A k \in 1..(Len(q) - 1) : Tail(q)[k] = q[k + 1]
OBVIOUS

\* Posting a signal keeps the events a sequence of signals.
LEMMA PostedType ==
    ASSUME NEW e \in Signals, events \in Seq(Signals)
    PROVE  Posted(e) \in Seq(Signals)
BY DEF Posted

\* After a put, the queued items are those queued before and the new one.
LEMMA QueuedAfterPut ==
    ASSUME queue \in Seq(Item), NEW i \in Item, queue' = Append(queue, i)
    PROVE  \A j : Queued(j)' <=> Queued(j) \/ j = i
<1>1. /\ Len(queue') = Len(queue) + 1 /\ Len(queue) \in Nat
      /\ \A k \in 1..Len(queue) : queue'[k] = queue[k]
      /\ queue'[Len(queue) + 1] = i
    BY AppendQueue
<1>2. 1..Len(queue') = 1..Len(queue) \cup {Len(queue) + 1}
    BY <1>1
<1> QED
    BY <1>1, <1>2 DEF Queued

\* After a get, the items queued before are those still queued and the one taken.
LEMMA QueuedAfterGet ==
    ASSUME queue \in Seq(Item), queue # <<>>, queue' = Tail(queue)
    PROVE  \A j : Queued(j) <=> Queued(j)' \/ j = Head(queue)
<1>1. /\ Len(queue') = Len(queue) - 1 /\ Len(queue) \in Nat /\ Len(queue) > 0
      /\ Head(queue) = queue[1]
      /\ \A k \in 1..(Len(queue) - 1) : queue'[k] = queue[k + 1]
    BY TailQueue
<1>2. \A k \in 1..Len(queue) : k = 1 \/ (k - 1 \in 1..Len(queue') /\ queue'[k - 1] = queue[k])
    BY <1>1
<1>3. \A k \in 1..Len(queue') : k + 1 \in 1..Len(queue) /\ queue[k + 1] = queue'[k]
    BY <1>1
<1>4. 1 \in 1..Len(queue)
    BY <1>1
<1> QED
    BY <1>1, <1>2, <1>3, <1>4 DEF Queued

-----------------------------------------------------------------------------
(***************************************************************************)
(* The inductive invariant.                                                *)
(***************************************************************************)
\* The engine starts with nothing queued, held or decided, and the flags agree with that.
LEMMA InitInvariant == Init => IInv
<1> SUFFICES ASSUME Init PROVE IInv
    OBVIOUS
<1> USE ConstantAssumption DEF Init
<1>1. TypeOK
  <2>1. queue \in Seq(Item) /\ events \in Seq(Signals)
    OBVIOUS
  <2>2. fate \in [Scripts -> Fates]
    BY DEF Fates
  <2>3. pc \in WorkerPlaces /\ gui \in GuiPlaces /\ shown \in Statuses
    BY DEF WorkerPlaces, GuiPlaces, Statuses
  <2> QED
    BY <2>1, <2>2, <2>3 DEF TypeOK
<1>2. TaskAccounting
    BY DEF TaskAccounting
<1>3. PlaceConsistent
    BY DEF PlaceConsistent, Executing, Decided, Traced
<1>4. \A i : ~Queued(i)
  <2>1. queue = <<>> /\ Len(queue) = 0
    OBVIOUS
  <2> QED
    BY <2>1, SMT DEF Queued
<1>5. FateConsistent
    BY <1>4 DEF FateConsistent, Held, Executing, Decided, Traced
<1>6. BlockedOnlyWhilePaused
    BY DEF BlockedOnlyWhilePaused
<1> QED
    BY <1>1, <1>2, <1>3, <1>5, <1>6 DEF IInv


\* Every step keeps the invariant.
LEMMA StepInvariant == IInv /\ [Next]_vars => IInv'
<1> SUFFICES ASSUME IInv, [Next]_vars PROVE IInv'
    OBVIOUS
<1> USE ConstantAssumption DEF IInv, TypeOK, TaskAccounting, PlaceConsistent, FateConsistent,
        BlockedOnlyWhilePaused, Queued, Held, Executing, Decided, Traced, Item, WorkerPlaces,
        GuiPlaces, Fates, Statuses, Signals, Goto, Finish, SetStop, ReleasePause, Enqueue,
        WorkerAfterUnpause, workerVars, guiVars, flags
<1>1. ASSUME NEW s \in Scripts, RunScript(s) PROVE IInv'
  <2>1. TypeOK'
    BY <1>1, AppendQueue DEF RunScript
  <2>2. TaskAccounting'
    BY <1>1, AppendQueue DEF RunScript
  <2>3. PlaceConsistent'
    BY <1>1, AppendQueue DEF RunScript
  <2>4. FateConsistent'
    <3>1. queue' = Append(queue, s) /\ s \in Item /\ UNCHANGED <<pc, current>>
        BY <1>1 DEF RunScript
    <3>2. \A j : Queued(j)' <=> Queued(j) \/ j = s
        BY <3>1, QueuedAfterPut
    <3>3. fate[s] = "unsubmitted" /\ fate' = [fate EXCEPT ![s] = "queued"]
        BY <1>1 DEF RunScript
    <3>4. pc # "terminated"
        BY <1>1 DEF RunScript
    <3>5. ~Queued(s) /\ ~(Held /\ current = s)
        BY <3>3, <3>4
    <3>6. ASSUME NEW j \in 1..Len(queue'), NEW k \in 1..Len(queue'),
                 queue'[j] = queue'[k], queue'[j] \in Scripts
          PROVE  j = k
        <4>1. /\ Len(queue') = Len(queue) + 1 /\ Len(queue) \in Nat
              /\ \A n \in 1..Len(queue) : queue'[n] = queue[n] /\ queue[n] # s
              /\ queue'[Len(queue) + 1] = s
            BY <3>1, <3>5, AppendQueue
        <4>2. CASE j \in 1..Len(queue) /\ k \in 1..Len(queue)
            BY <3>6, <4>1, <4>2
        <4>3. CASE j = Len(queue) + 1 \/ k = Len(queue) + 1
            BY <3>6, <4>1, <4>3
        <4> QED
            BY <4>1, <4>2, <4>3
    <3>7. \A i \in Scripts :
            /\ fate'[i] = "queued" <=> Queued(i)' \/ (Held /\ current = i)
            /\ Queued(i)' => ~(Held /\ current = i)
            /\ fate'[i] = "running" <=> Executing /\ current = i
        <4> HIDE DEF Queued
        <4> QED
            BY <3>2, <3>3, <3>4, <3>5
    <3>8. current \in Scripts /\ (pc = "done" \/ Decided) => current # s
        BY <3>3
    <3>9. (pc' = "done" /\ current' \in Scripts) \/ Decided' =>
              fate'[current'] \in {"Idle", "Stopped", "Error"}
        BY <3>1, <3>3, <3>8
    <3>10. pc' # "terminated"
        BY <3>1, <3>4
    <3> HIDE DEF Queued
    <3> QED
        BY <3>1, <3>6, <3>7, <3>9, <3>10
  <2>5. BlockedOnlyWhilePaused'
    BY <1>1, AppendQueue DEF RunScript
  <2> QED
    BY <2>1, <2>2, <2>3, <2>4, <2>5
<1>2. ASSUME NEW s \in Scripts, RunSelection(s) PROVE IInv'
  <2>1. TypeOK'
    BY <1>2, AppendQueue DEF RunSelection
  <2>2. TaskAccounting'
    BY <1>2, AppendQueue DEF RunSelection
  <2>3. PlaceConsistent'
    BY <1>2, AppendQueue DEF RunSelection
  <2>4. FateConsistent'
    <3>1. queue' = Append(queue, s) /\ s \in Item /\ UNCHANGED <<pc, current>>
        BY <1>2 DEF RunSelection
    <3>2. \A j : Queued(j)' <=> Queued(j) \/ j = s
        BY <3>1, QueuedAfterPut
    <3>3. fate[s] = "unsubmitted" /\ fate' = [fate EXCEPT ![s] = "queued"]
        BY <1>2 DEF RunSelection
    <3>4. pc # "terminated"
        BY <1>2 DEF RunSelection
    <3>5. ~Queued(s) /\ ~(Held /\ current = s)
        BY <3>3, <3>4
    <3>6. ASSUME NEW j \in 1..Len(queue'), NEW k \in 1..Len(queue'),
                 queue'[j] = queue'[k], queue'[j] \in Scripts
          PROVE  j = k
        <4>1. /\ Len(queue') = Len(queue) + 1 /\ Len(queue) \in Nat
              /\ \A n \in 1..Len(queue) : queue'[n] = queue[n] /\ queue[n] # s
              /\ queue'[Len(queue) + 1] = s
            BY <3>1, <3>5, AppendQueue
        <4>2. CASE j \in 1..Len(queue) /\ k \in 1..Len(queue)
            BY <3>6, <4>1, <4>2
        <4>3. CASE j = Len(queue) + 1 \/ k = Len(queue) + 1
            BY <3>6, <4>1, <4>3
        <4> QED
            BY <4>1, <4>2, <4>3
    <3>7. \A i \in Scripts :
            /\ fate'[i] = "queued" <=> Queued(i)' \/ (Held /\ current = i)
            /\ Queued(i)' => ~(Held /\ current = i)
            /\ fate'[i] = "running" <=> Executing /\ current = i
        <4> HIDE DEF Queued
        <4> QED
            BY <3>2, <3>3, <3>4, <3>5
    <3>8. current \in Scripts /\ (pc = "done" \/ Decided) => current # s
        BY <3>3
    <3>9. (pc' = "done" /\ current' \in Scripts) \/ Decided' =>
              fate'[current'] \in {"Idle", "Stopped", "Error"}
        BY <3>1, <3>3, <3>8
    <3>10. pc' # "terminated"
        BY <3>1, <3>4
    <3> HIDE DEF Queued
    <3> QED
        BY <3>1, <3>6, <3>7, <3>9, <3>10
  <2>5. BlockedOnlyWhilePaused'
    BY <1>2, AppendQueue DEF RunSelection
  <2> QED
    BY <2>1, <2>2, <2>3, <2>4, <2>5
<1>3. ASSUME NEW c \in Commands, RunCommand(c) PROVE IInv'
    BY <1>3, AppendQueue DEF RunCommand
<1>4. CASE PauseClick
  <2>1. TypeOK'
    BY <1>4 DEF PauseClick
  <2>2. TaskAccounting'
    BY <1>4 DEF PauseClick
  <2>3. PlaceConsistent'
    BY <1>4 DEF PauseClick
  <2>4. FateConsistent'
    BY <1>4 DEF PauseClick
  <2>5. BlockedOnlyWhilePaused'
    BY <1>4 DEF PauseClick
  <2> QED
    BY <2>1, <2>2, <2>3, <2>4, <2>5
<1>5. CASE PauseClear
  <2>1. TypeOK'
    BY <1>5 DEF PauseClear
  <2>2. TaskAccounting'
    BY <1>5 DEF PauseClear
  <2>3. PlaceConsistent'
    BY <1>5 DEF PauseClear
  <2>4. FateConsistent'
    BY <1>5 DEF PauseClear
  <2>5. BlockedOnlyWhilePaused'
    BY <1>5 DEF PauseClear
  <2> QED
    BY <2>1, <2>2, <2>3, <2>4, <2>5
<1>6. CASE PauseEmit
    BY <1>6 DEF PauseEmit
<1>7. CASE ResumeClick
    BY <1>7 DEF ResumeClick
<1>8. CASE ResumeEmit
    BY <1>8 DEF ResumeEmit
<1>9. CASE StopClick
    BY <1>9 DEF StopClick
<1>10. CASE ShutdownStop
    BY <1>10 DEF ShutdownStop
<1>11. CASE StopRelease
    BY <1>11 DEF StopRelease
<1>12. CASE ShutdownRelease
    BY <1>12 DEF ShutdownRelease
<1>13. CASE ShutdownQuit
    BY <1>13, AppendQueue DEF ShutdownQuit
<1>14. CASE ShutdownJoined
    BY <1>14 DEF ShutdownJoined
<1>15. CASE ShutdownTerminate
    BY <1>15 DEF ShutdownTerminate
<1>16. CASE Deliver
    BY <1>16, TailQueue DEF Deliver
<1>17. CASE Get
  <2>1. TypeOK'
    BY <1>17, TailQueue DEF Get
  <2>2. TaskAccounting'
    BY <1>17, TailQueue DEF Get
  <2>3. PlaceConsistent'
    BY <1>17, TailQueue DEF Get
  <2>4. FateConsistent'
    <3>1. /\ pc = "get" /\ pc' = "claimed" /\ queue # <<>> /\ queue' = Tail(queue)
          /\ current' = Head(queue) /\ fate' = fate
        BY <1>17 DEF Get
    <3>2. \A j : Queued(j) <=> Queued(j)' \/ j = current'
        BY <3>1, QueuedAfterGet
    <3>3. /\ Len(queue') = Len(queue) - 1 /\ Len(queue) \in Nat /\ Len(queue) > 0
          /\ current' = queue[1]
          /\ \A k \in 1..Len(queue') : queue'[k] = queue[k + 1] /\ k + 1 \in 1..Len(queue)
        BY <3>1, TailQueue
    <3>4. \A j, k \in 1..Len(queue') : queue'[j] = queue'[k] /\ queue'[j] \in Scripts => j = k
        BY <3>3
    <3>5. \A i \in Scripts : Queued(i)' => current' # i
        <4>1. SUFFICES ASSUME NEW k \in 1..Len(queue'), queue'[k] \in Scripts, queue'[k] = queue[1]
                       PROVE  FALSE
            BY <3>3
        <4>2. queue[k + 1] = queue[1] /\ k + 1 \in 1..Len(queue) /\ 1 \in 1..Len(queue) /\ k + 1 # 1
            BY <3>3, <4>1
        <4> QED
            BY <3>3, <4>1, <4>2
    <3> HIDE DEF Queued
    <3> QED
        BY <3>1, <3>2, <3>4, <3>5
  <2>5. BlockedOnlyWhilePaused'
    BY <1>17, TailQueue DEF Get
  <2> QED
    BY <2>1, <2>2, <2>3, <2>4, <2>5
<1>18. CASE TakeQuit
  <2>1. TypeOK'
    BY <1>18 DEF TakeQuit
  <2>2. TaskAccounting'
    BY <1>18 DEF TakeQuit
  <2>3. PlaceConsistent'
    BY <1>18 DEF TakeQuit
  <2>4. FateConsistent'
    BY <1>18 DEF TakeQuit
  <2>5. BlockedOnlyWhilePaused'
    BY <1>18 DEF TakeQuit
  <2> QED
    BY <2>1, <2>2, <2>3, <2>4, <2>5
<1>19. CASE TakeCommand
    BY <1>19 DEF TakeCommand
<1>20. CASE MarkRunning
    BY <1>20 DEF MarkRunning
<1>21. CASE ClearStop
  <2>1. TypeOK'
    BY <1>21 DEF ClearStop
  <2>2. TaskAccounting'
    BY <1>21 DEF ClearStop
  <2>3. PlaceConsistent'
    BY <1>21 DEF ClearStop
  <2>4. FateConsistent'
    BY <1>21 DEF ClearStop
  <2>5. BlockedOnlyWhilePaused'
    BY <1>21 DEF ClearStop
  <2> QED
    BY <2>1, <2>2, <2>3, <2>4, <2>5
<1>22. CASE ClearPause
    BY <1>22 DEF ClearPause
<1>23. CASE Announce
    BY <1>23, PostedType DEF Announce
<1>24. CASE CompileFails
    BY <1>24, PostedType DEF CompileFails
<1>25. CASE Compiled
    BY <1>25 DEF Compiled
<1>26. CASE Boundary
    BY <1>26 DEF Boundary
<1>27. CASE PausedCheck
    BY <1>27 DEF PausedCheck
<1>28. CASE Block
    BY <1>28 DEF Block
<1>29. CASE Interrupt
    BY <1>29 DEF Interrupt
<1>30. CASE StartLine
    BY <1>30, PostedType DEF StartLine
<1>31. CASE NextLine
    BY <1>31 DEF NextLine
<1>32. CASE ScriptEnds
    BY <1>32 DEF ScriptEnds
<1>33. CASE ScriptRaises
    BY <1>33, PostedType DEF ScriptRaises
<1>34. ASSUME NEW o \in {"Stopped", "Error"}, Unwound(o) PROVE IInv'
    BY <1>34, PostedType DEF Unwound
<1>35. CASE Complete
    BY <1>35, PostedType DEF Complete
<1>36. CASE EmitFinished
    BY <1>36, PostedType DEF EmitFinished
<1>37. CASE Close
  <2>1. TypeOK'
    BY <1>37 DEF Close
  <2>2. TaskAccounting'
    BY <1>37 DEF Close
  <2>3. PlaceConsistent'
    BY <1>37 DEF Close
  <2>4. FateConsistent'
    BY <1>37 DEF Close
  <2>5. BlockedOnlyWhilePaused'
    BY <1>37 DEF Close
  <2> QED
    BY <2>1, <2>2, <2>3, <2>4, <2>5
<1>38. CASE CommandReturns
    BY <1>38 DEF CommandReturns
<1>39. CASE TaskDone
  <2>1. TypeOK'
    BY <1>39 DEF TaskDone
  <2>2. TaskAccounting'
    BY <1>39 DEF TaskDone
  <2>3. PlaceConsistent'
    BY <1>39 DEF TaskDone
  <2>4. FateConsistent'
    BY <1>39 DEF TaskDone
  <2>5. BlockedOnlyWhilePaused'
    BY <1>39 DEF TaskDone
  <2> QED
    BY <2>1, <2>2, <2>3, <2>4, <2>5
<1>40. CASE Swallowed
    BY <1>40 DEF Swallowed
<1>41. CASE UNCHANGED vars
    BY <1>41 DEF vars
<1> QED
    BY <1>1, <1>2, <1>3, <1>4, <1>5, <1>6, <1>7, <1>8, <1>9, <1>10, <1>11, <1>12, <1>13, <1>14,
       <1>15, <1>16, <1>17, <1>18, <1>19, <1>20, <1>21, <1>22, <1>23, <1>24, <1>25, <1>26, <1>27, <1>28,
       <1>29, <1>30, <1>31, <1>32, <1>33, <1>34, <1>35, <1>36, <1>37, <1>38, <1>39, <1>40, <1>41
    DEF Next, User, GuiThread, Worker, Terminated

\* The inductive invariant holds in every state of every behaviour: the queue, the
\* worker's place, the flags and the fates of the scripts always agree.
THEOREM Invariant == Spec => []IInv
BY InitInvariant, StepInvariant, PTL DEF Spec

\* Type correctness of the engine's state.
THEOREM TypeCorrect == Spec => []TypeOK
<1>1. IInv => TypeOK
    BY DEF IInv
<1> QED
    BY Invariant, <1>1, PTL

\* is_plot_idle is TRUE only when nothing is queued, in hand or undecided.
THEOREM PlotIdleIsQuiet == Spec => []PlotIdleMeansQuiet
<1>1. IInv => PlotIdleMeansQuiet
  <2> SUFFICES ASSUME IInv, unfinished = 0 PROVE
        /\ queue = <<>> /\ current = None /\ ~running
        /\ \A s \in Scripts : fate[s] \notin {"queued", "running"}
    BY DEF PlotIdleMeansQuiet
  <2>1. queue = <<>> /\ Len(queue) = 0 /\ current = None /\ ~running
    BY DEF IInv, TypeOK, TaskAccounting, PlaceConsistent
  <2>2. \A s : ~Queued(s)
    BY <2>1 DEF Queued
  <2>3. \A s \in Scripts : current # s
    BY <2>1, ConstantAssumption
  <2> QED
    BY <2>1, <2>2, <2>3 DEF IInv, FateConsistent
<1> QED
    BY Invariant, <1>1, PTL

\* No lost wakeup: a worker blocked in wait() sees the pause event clear.
THEOREM NoLostWakeup == Spec => []BlockedOnlyWhilePaused
<1>1. IInv => BlockedOnlyWhilePaused
    BY DEF IInv
<1> QED
    BY Invariant, <1>1, PTL

-----------------------------------------------------------------------------
(***************************************************************************)
(* What the GUI shows of a script that executes.                           *)
(***************************************************************************)
\* The signal posted last is the last one to be delivered.
LEMMA PostedLast ==
    ASSUME NEW e \in Signals, events \in Seq(Signals)
    PROVE  Posted(e) # <<>> /\ Posted(e)[Len(Posted(e))] = e
<1>1. CASE events # <<>> /\ events[Len(events)] = e
    BY <1>1 DEF Posted
<1>2. CASE ~(events # <<>> /\ events[Len(events)] = e)
  <2>1. Posted(e) = Append(events, e)
    BY <1>2 DEF Posted
  <2>2. Len(Append(events, e)) = Len(events) + 1 /\ Append(events, e)[Len(events) + 1] = e
    BY AppendQueue
  <2>3. Append(events, e) # <<>>
    BY AppendProperties
  <2> QED
    BY <2>1, <2>2, <2>3
<1> QED
    BY <1>1, <1>2

\* What is left after a delivery ends as it did.
LEMMA DeliveredLast ==
    ASSUME NEW q \in Seq(Signals), q # <<>>
    PROVE  IF Tail(q) = <<>> THEN Head(q) = q[Len(q)] ELSE Tail(q)[Len(Tail(q))] = q[Len(q)]
<1>1. /\ Tail(q) \in Seq(Signals) /\ Len(Tail(q)) = Len(q) - 1 /\ Len(q) \in Nat /\ Len(q) > 0
      /\ Head(q) = q[1]
      /\ \A k \in 1..(Len(q) - 1) : Tail(q)[k] = q[k + 1]
    BY TailQueue
<1>2. CASE Len(q) = 1
  <2>1. Tail(q) = <<>>
    <3>1. Len(Tail(q)) = 0
        BY <1>1, <1>2
    <3> QED
        BY <1>1, <3>1, EmptySeq, Zenon
  <2> QED
    BY <1>1, <1>2, <2>1
<1>3. CASE Len(q) # 1
  <2>1. Len(q) - 1 \in 1..(Len(q) - 1) /\ Tail(q) # <<>>
    <3>1. Len(q) - 1 \in 1..(Len(q) - 1) /\ Len(Tail(q)) # 0
        BY <1>1, <1>3
    <3> QED
        BY <3>1, EmptySeq, Zenon
  <2>2. Tail(q)[Len(q) - 1] = q[Len(q) - 1 + 1] /\ Len(q) - 1 + 1 = Len(q)
    BY <1>1, <2>1
  <2> QED
    BY <1>1, <2>1, <2>2
<1> QED
    BY <1>2, <1>3

\* Every step keeps the last status on its way.
LEMMA StepStatus == TypeOK /\ StatusFollows /\ [Next]_vars => StatusFollows'
<1> SUFFICES ASSUME TypeOK, StatusFollows, [Next]_vars PROVE StatusFollows'
    OBVIOUS
<1> DEFINE Shown(p) == p \in Traced \cup {"compiling"}
<1> USE DEF Goto, Finish, workerVars, guiVars, flags
<1>1. ASSUME Shown(pc') => Shown(pc), UNCHANGED <<events, shown>> PROVE StatusFollows'
    BY <1>1 DEF StatusFollows
<1>2. ASSUME ~Shown(pc') PROVE StatusFollows'
    BY <1>2 DEF StatusFollows
<1>3. ASSUME NEW s \in Scripts, RunScript(s) \/ RunSelection(s) PROVE StatusFollows'
    BY <1>1, <1>3 DEF RunScript, RunSelection
<1>4. ASSUME NEW c \in Commands, RunCommand(c) PROVE StatusFollows'
    BY <1>1, <1>4 DEF RunCommand
<1>5. CASE PauseClick \/ PauseClear \/ ShutdownQuit \/ ShutdownJoined \/ Terminated \/ UNCHANGED vars
    BY <1>1, <1>5 DEF PauseClick, PauseClear, ShutdownQuit, ShutdownJoined, Terminated, vars
<1>6. CASE StopClick \/ ShutdownStop
    BY <1>1, <1>6 DEF StopClick, ShutdownStop, SetStop
<1>7. CASE ResumeClick \/ StopRelease \/ ShutdownRelease
    BY <1>1, <1>7 DEF ResumeClick, StopRelease, ShutdownRelease, ReleasePause,
        WorkerAfterUnpause, Traced
<1>8. CASE PauseEmit \/ ResumeEmit
  <2>1. UNCHANGED <<pc, events>> /\ shown' \in {shown, "Running", "Paused"}
    BY <1>8 DEF PauseEmit, ResumeEmit
  <2> QED
    BY <2>1 DEF StatusFollows
<1>9. CASE Deliver
  <2>1. events # <<>> /\ events' = Tail(events) /\ UNCHANGED pc /\ events \in Seq(Signals)
    BY <1>9 DEF Deliver, TypeOK
  <2>2. Head(events) = "Running" => shown' = "Running"
    BY <1>9 DEF Deliver
  <2> QED
    BY <2>1, <2>2, DeliveredLast DEF StatusFollows
<1>10. CASE Announce \/ StartLine
  <2>1. events' = Posted("Running") \/ (UNCHANGED <<events, shown>> /\ pc = "stopCheck")
    BY <1>10 DEF Announce, StartLine, guiVars
  <2>2. "Running" \in Signals /\ events \in Seq(Signals)
    BY DEF TypeOK, Signals
  <2>3. CASE events' = Posted("Running")
    BY <2>2, <2>3, PostedLast DEF StatusFollows
  <2>4. CASE UNCHANGED <<events, shown>> /\ pc = "stopCheck"
    BY <1>1, <2>4 DEF Traced
  <2> QED
    BY <2>1, <2>3, <2>4
<1>11. CASE Compiled \/ Boundary \/ PausedCheck \/ Block \/ NextLine
    BY <1>1, <1>11 DEF Compiled, Boundary, PausedCheck, Block, NextLine, Traced
<1>12. CASE Get \/ TakeQuit \/ TakeCommand \/ MarkRunning \/ ClearStop \/ ClearPause \/ TaskDone
            \/ CommandReturns \/ ShutdownTerminate
    BY <1>2, <1>12 DEF Get, TakeQuit, TakeCommand, MarkRunning, ClearStop, ClearPause, TaskDone,
        CommandReturns, ShutdownTerminate, Traced
<1>13. CASE CompileFails \/ Interrupt \/ ScriptEnds \/ ScriptRaises \/ Swallowed \/ Complete
            \/ EmitFinished \/ Close
    BY <1>2, <1>13 DEF CompileFails, Interrupt, ScriptEnds, ScriptRaises, Swallowed, Complete,
        EmitFinished, Close, Traced
<1>14. ASSUME NEW o \in {"Stopped", "Error"}, Unwound(o) PROVE StatusFollows'
    BY <1>2, <1>14 DEF Unwound, Traced
<1> QED
    BY <1>3, <1>4, <1>5, <1>6, <1>7, <1>8, <1>9, <1>10, <1>11, <1>12, <1>13, <1>14
    DEF Next, User, GuiThread, Worker

\* _exec_script and _on_engine_status_changed: once its signals are delivered, the GUI shows a
\* script that executes as Running or Paused, so that the tabs it executes are locked.
THEOREM TabsStayLocked == Spec => []TabsLockedWhileExecuting
<1>1. Init => StatusFollows
    BY DEF Init, StatusFollows, Traced
<1>2. TypeOK /\ StatusFollows /\ [Next]_vars => StatusFollows'
    BY StepStatus
<1>3. StatusFollows => TabsLockedWhileExecuting
    BY DEF StatusFollows, TabsLockedWhileExecuting
<1> QED
    BY TypeCorrect, <1>1, <1>2, <1>3, PTL DEF Spec

-----------------------------------------------------------------------------
(***************************************************************************)
(* The engine implements ScriptRuns.                                       *)
(***************************************************************************)
\* Prefixing the item in hand commutes with putting an item on the queue.
LEMMA PrefixAppend ==
    ASSUME NEW S, NEW q \in Seq(S), NEW h \in S, NEW i \in S
    PROVE  <<h>> \o Append(q, i) = Append(<<h>> \o q, i)
OBVIOUS

\* Taking an item off the queue and prefixing it again changes nothing.
LEMMA PrefixTail ==
    ASSUME NEW S, NEW q \in Seq(S)
    PROVE  /\ q # <<>> => <<Head(q)>> \o Tail(q) = q
           /\ \A h \in S : /\ <<h>> \o q # <<>>
                            /\ Head(<<h>> \o q) = h /\ Tail(<<h>> \o q) = q
OBVIOUS

\* A put on the queue is a submission, whatever the worker holds.
LEMMA PutIsSubmit ==
    ASSUME IInv, NEW i \in Item, Enqueue(i), UNCHANGED <<pc, current>>, pc # "terminated"
    PROVE  Waiting' = Append(Waiting, i) /\ UNCHANGED Active
BY PrefixAppend, ConstantAssumption
   DEF IInv, TypeOK, PlaceConsistent, WorkerPlaces, Traced, Enqueue, Waiting, Active, Held

\* A step that changes no queue, item in hand or place before the start is not visible.
LEMMA Invisible ==
    ASSUME UNCHANGED <<queue, current, stopEvent, fate>>, Held' = Held,
           pc # "terminated", pc' # "terminated"
    PROVE  UNCHANGED Promise!vars
BY DEF Waiting, Active, Promise!vars

\* The initial state is ScriptRuns' initial state.
LEMMA InitImplements == Init => Promise!Init
BY DEF Init, Promise!Init, Waiting, Active, Held

\* Every step is a step of ScriptRuns or is not visible there.
LEMMA StepImplements == IInv /\ [Next]_vars => [Promise!Next]_(Promise!vars)
<1> SUFFICES ASSUME IInv, [Next]_vars PROVE [Promise!Next]_(Promise!vars)
    OBVIOUS
<1> USE ConstantAssumption DEF IInv, TypeOK, PlaceConsistent, Item, Goto, guiVars, workerVars, flags
<1>1. ASSUME NEW i \in Scripts, RunScript(i) \/ RunSelection(i) PROVE Promise!Next
  <2>1. Waiting' = Append(Waiting, i) /\ UNCHANGED Active
    BY <1>1, PutIsSubmit DEF RunScript, RunSelection
  <2>2. Promise!Submit(i)
    BY <1>1, <2>1 DEF Promise!Submit, RunScript, RunSelection
  <2> QED
    BY <2>2 DEF Promise!Next
<1>2. ASSUME NEW i \in Commands, RunCommand(i) PROVE Promise!Next
  <2>1. Waiting' = Append(Waiting, i) /\ UNCHANGED Active
    BY <1>2, PutIsSubmit DEF RunCommand
  <2>2. Promise!Submit(i)
    BY <1>2, <2>1 DEF Promise!Submit, RunCommand
  <2> QED
    BY <2>2 DEF Promise!Next
<1>3. CASE ShutdownQuit
  <2>1. Waiting' = Append(Waiting, Quit) /\ UNCHANGED Active
    BY <1>3, PutIsSubmit DEF ShutdownQuit
  <2>2. Promise!Submit(Quit)
    BY <1>3, <2>1 DEF Promise!Submit, ShutdownQuit
  <2> QED
    BY <2>2 DEF Promise!Next
<1>4. CASE StopClick \/ ShutdownStop
  <2>1. Promise!RequestStop
    BY <1>4 DEF StopClick, ShutdownStop, SetStop, Promise!RequestStop, Waiting, Active, Held
  <2> QED
    BY <2>1 DEF Promise!Next
<1>5. CASE TakeQuit \/ TakeCommand \/ ClearStop
  <2>1. Held /\ pc # "terminated" /\ queue' = queue /\ current \in Item
    BY <1>5 DEF TakeQuit, TakeCommand, ClearStop, Held, WorkerPlaces, Traced
  <2>2. /\ Waiting # <<>> /\ Head(Waiting) = current /\ Tail(Waiting) = queue
        /\ Active = None
    BY <2>1, PrefixTail DEF Waiting, Active
  <2>3. Waiting' = queue /\ Active' = IF current = Quit THEN None ELSE current
    BY <1>5, <2>1 DEF TakeQuit, TakeCommand, ClearStop, Waiting, Active, Held
  <2>4. Promise!Start
    BY <1>5, <2>1, <2>2, <2>3 DEF TakeQuit, TakeCommand, ClearStop, Promise!Start
  <2> QED
    BY <2>4 DEF Promise!Next
<1>6. ASSUME NEW o \in {"Idle", "Stopped", "Error"}, Executing, Finish(o), pc' \notin {"terminated"},
             UNCHANGED <<queue, current, stopEvent>>, Held' = Held, o = "Stopped" => stopEvent
      PROVE  Promise!Next
  <2>1. Active = current /\ current \in Scripts /\ fate[current] = "running"
    BY <1>6 DEF FateConsistent, Executing, Traced, Active, Held
  <2>2. Promise!Decide(o)
    BY <1>6, <2>1 DEF Executing, Traced, Finish, Promise!Decide, Waiting, Active
  <2> QED
    BY <2>2 DEF Promise!Next
<1>7. CASE CompileFails \/ ScriptRaises
    BY <1>6, <1>7 DEF CompileFails, ScriptRaises, Executing, Traced, Held
<1>8. ASSUME NEW o \in {"Stopped", "Error"}, Unwound(o) PROVE Promise!Next
    BY <1>6, <1>8 DEF Unwound, Executing, Traced, Held
<1>9. CASE Complete
    BY <1>6, <1>9 DEF Complete, Executing, Traced, Held
<1>10. CASE TaskDone
  <2>1. Promise!Retire
    BY <1>10 DEF TaskDone, FateConsistent, Promise!Retire, Promise!Undecided, Waiting, Active,
                 Held, WorkerPlaces, Traced
  <2> QED
    BY <2>1 DEF Promise!Next
<1>11. CASE ShutdownTerminate
  <2>1. Promise!Kill
    BY <1>11 DEF ShutdownTerminate, Promise!Kill, Promise!Undecided, Waiting, Active
  <2> QED
    BY <2>1 DEF Promise!Next
<1>12. CASE Get
  <2>1. Waiting' = Waiting /\ Active' = Active
    BY <1>12, PrefixTail DEF Get, Waiting, Active, Held
  <2> QED
    BY <1>12, <2>1 DEF Get, Promise!vars
<1>13. CASE PauseClick \/ PauseClear \/ PauseEmit \/ ResumeClick \/ ResumeEmit \/ StopRelease
            \/ ShutdownRelease
    BY <1>13, Invisible DEF PauseClick, PauseClear, PauseEmit, ResumeClick, ResumeEmit, StopRelease,
        ShutdownRelease, ReleasePause, WorkerAfterUnpause, Held
<1>14. CASE ShutdownJoined \/ Deliver \/ Terminated \/ UNCHANGED vars
    BY <1>14 DEF ShutdownJoined, Deliver, Terminated, vars, Waiting, Active, Held, Promise!vars
<1>15. CASE MarkRunning \/ ClearPause \/ Announce \/ Compiled \/ Boundary \/ PausedCheck \/ Block
            \/ Interrupt \/ StartLine \/ NextLine \/ ScriptEnds \/ EmitFinished \/ Close
            \/ CommandReturns \/ Swallowed
    BY <1>15, Invisible DEF MarkRunning, ClearPause, Announce, Compiled, Boundary, PausedCheck, Block,
        Interrupt, StartLine, NextLine, ScriptEnds, EmitFinished, Close, CommandReturns,
        Swallowed, Held
<1> QED
    BY <1>1, <1>2, <1>3, <1>4, <1>5, <1>7, <1>8, <1>9, <1>10, <1>11, <1>12, <1>13, <1>14, <1>15
    DEF Next, User, GuiThread, Worker

\* The engine keeps its promise: scripts and commands run one at a time in the order of
\* submission, each script has one outcome, and it is Stopped only if Stop was pressed
\* after _exec_script cleared the stop event for it.
THEOREM Implements == Spec => ImplementsScriptRuns
<1>1. Spec => []IInv
    BY Invariant
<1> QED
    BY <1>1, InitImplements, StepImplements, PTL DEF Spec, ImplementsScriptRuns, Promise!Spec

-----------------------------------------------------------------------------
(***************************************************************************)
(* A Run Parallel container in the script the worker executes              *)
(* (ParallelBranches), for any number of branches.                         *)
(***************************************************************************)
\* The container starts in its invariant.
LEMMA PoolInit == Pool!BranchesAssumption /\ Pool!Init => Pool!IInv
<1> SUFFICES ASSUME Pool!BranchesAssumption, Pool!Init PROVE Pool!IInv
    OBVIOUS
<1> USE DEF Pool!BranchesAssumption, Pool!Init, Pool!Branches, Pool!Live
<1>1. Pool!TypeOK
  <2>1. 1 \in Pool!Branches /\ 0 \in 0 .. N
      OBVIOUS
  <2>2. branch \in [Pool!Branches -> Pool!Live \cup {"new", "ok", "failed"}]
      BY Zenon
  <2> QED
      BY <2>1, <2>2 DEF Pool!TypeOK, Pool!Places
<1>2. Pool!WorkerKnows
    BY DEF Pool!WorkerKnows, Pool!AllGood
<1>3. Pool!ReleasedAfterBranches /\ Pool!FailureReported
    BY DEF Pool!ReleasedAfterBranches, Pool!FailureReported
<1> QED
    BY <1>1, <1>2, <1>3 DEF Pool!IInv

\* Every step of the worker, of the buttons and of the branches keeps it.
LEMMA PoolStep == Pool!BranchesAssumption /\ Pool!IInv /\ [Pool!Next]_(Pool!vars) => Pool!IInv'
<1> SUFFICES ASSUME Pool!BranchesAssumption, Pool!IInv, [Pool!Next]_(Pool!vars)
             PROVE  Pool!IInv'
    OBVIOUS
<1> USE DEF Pool!BranchesAssumption, Pool!IInv, Pool!TypeOK, Pool!Branches, Pool!Places, Pool!Live,
            Pool!Line, Pool!worker, Pool!control
<1>1. CASE Pool!Stop \/ Pool!Pause \/ Pool!Resume \/ Pool!Hold
  <2>1. /\ stop' \in BOOLEAN /\ paused' \in BOOLEAN /\ held' \in BOOLEAN
        /\ UNCHANGED <<place, at, traced, failure, branch, ended, struck>>
      BY <1>1, Zenon DEF Pool!Stop, Pool!Pause, Pool!Resume, Pool!Hold
  <2> QED
      BY <2>1 DEF Pool!WorkerKnows, Pool!AllGood, Pool!ReleasedAfterBranches,
         Pool!FailureReported
<1>2. CASE Pool!Enter
    BY <1>2 DEF Pool!Enter, Pool!WorkerKnows, Pool!AllGood, Pool!ReleasedAfterBranches,
       Pool!FailureReported
<1>3. CASE Pool!Submit
    BY <1>3 DEF Pool!Submit, Pool!WorkerKnows, Pool!AllGood, Pool!ReleasedAfterBranches,
       Pool!FailureReported
<1>4. CASE Pool!Block \/ Pool!Unblock
    BY <1>4 DEF Pool!Block, Pool!Unblock, Pool!Done, Pool!WorkerKnows, Pool!AllGood,
       Pool!ReleasedAfterBranches, Pool!FailureReported
<1>5. CASE Pool!Collect
    BY <1>5 DEF Pool!Collect, Pool!Done, Pool!WorkerKnows, Pool!AllGood,
       Pool!ReleasedAfterBranches, Pool!FailureReported
<1>6. CASE Pool!Leave \/ Pool!Joined
    BY <1>6 DEF Pool!Leave, Pool!Joined, Pool!AfterPool, Pool!Done, Pool!WorkerKnows,
       Pool!AllGood, Pool!ReleasedAfterBranches, Pool!FailureReported
<1>7. CASE Pool!Finally \/ Pool!Release
    BY <1>7 DEF Pool!Finally, Pool!Release, Pool!WorkerKnows, Pool!AllGood,
       Pool!ReleasedAfterBranches, Pool!FailureReported
<1>8. CASE Pool!Interrupt
    BY <1>8 DEF Pool!Interrupt, Pool!WorkerKnows, Pool!AllGood, Pool!ReleasedAfterBranches,
       Pool!FailureReported
<1>9. ASSUME NEW b \in Pool!Branches,
             Pool!Finish(b) \/ Pool!Wait(b) \/ Pool!Arrive(b) \/ Pool!HearStop(b)
      PROVE  Pool!IInv'
  <2>1. /\ branch[b] \in Pool!Live
        /\ \E s \in Pool!Live \cup {"ok", "failed"} : branch' = [branch EXCEPT ![b] = s]
        /\ UNCHANGED <<place, at, held, traced, failure, stop, paused, ended, struck>>
      BY <1>9 DEF Pool!Finish, Pool!Wait, Pool!Arrive, Pool!HearStop, Pool!Turn, Pool!worker,
         Pool!control
  <2> QED
      BY <2>1 DEF Pool!WorkerKnows, Pool!AllGood, Pool!ReleasedAfterBranches,
         Pool!FailureReported
<1>10. CASE UNCHANGED Pool!vars
    BY <1>10 DEF Pool!vars, Pool!worker, Pool!control, Pool!WorkerKnows, Pool!AllGood,
       Pool!ReleasedAfterBranches, Pool!FailureReported
<1> QED
    BY <1>1, <1>2, <1>3, <1>4, <1>5, <1>6, <1>7, <1>8, <1>9, <1>10 DEF Pool!Next, Pool!WorkerStep

\* The invariant of the container, for any number of branches.
LEMMA PoolInvariant == Pool!Spec => []Pool!IInv
<1>1. Pool!BranchesAssumption
    BY BranchesAssumption DEF Pool!BranchesAssumption
<1>2. Pool!Init => Pool!IInv
    BY <1>1, PoolInit
<1>3. Pool!IInv /\ [Pool!Next]_(Pool!vars) => Pool!IInv'
    BY <1>1, PoolStep
<1> QED
    BY <1>2, <1>3, PTL DEF Pool!Spec

\* The plugins are disconnected when no branch uses them any more, but for a Stop raised
\* while the worker leaves the pool.
THEOREM ReleasedAfter == Pool!Spec => []ReleasedAfterBranches
<1>1. Pool!IInv => ReleasedAfterBranches
    BY DEF Pool!IInv, Pool!ReleasedAfterBranches, Pool!Branches, Pool!Live,
       ReleasedAfterBranches, Branches, Live
<1> QED
    BY <1>1, PoolInvariant, PTL

\* A script with a failed branch never succeeds, takes no other step after the container, and
\* ends with the first failure in the order of the branches.
THEOREM FailuresReported == Pool!Spec => []FailureReported
<1>1. Pool!IInv => FailureReported
    BY DEF Pool!IInv, Pool!FailureReported, Pool!Branches, FailureReported, Branches
<1> QED
    BY <1>1, PoolInvariant, PTL
=============================================================================
