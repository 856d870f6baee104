--------------------- MODULE ControllerEngineProofs ---------------------
(***************************************************************************)
(* Proofs about ControllerEngine, for any number of threads and any bound. *)
(***************************************************************************)
EXTENDS ControllerEngine, TLAPS

\* Every step is an operation of a thread, or one of the timer, the worker or the GUI.
LEMMA NextActions ==
    ASSUME Next
    PROVE  \/ \E t \in Threads :
               \/ Request(t)
               \/ Share(t)
               \/ StartRead(t)
               \/ ReadDevice(t)
               \/ ReadFails(t)
               \/ Return(t)
               \/ Command(t)
               \/ CommandDone(t)
               \/ CommandFails(t)
               \/ Connect(t)
               \/ Opened(t)
               \/ OpenFails(t)
               \/ ConnectDone(t)
               \/ Disconnect(t)
               \/ DisconnectDone(t)
           \/ DeliverTimer \/ Tick \/ SkipRead \/ DisablePolling \/ EnablePolling
           \/ StartPolling \/ Shutdown \/ ShutdownRelease \/ ShutdownJoin
BY EngineAssumption
DEF Next, Begin, Progress, Poll, GuiProgress, Threads

\* The invariant holds at the start.
LEMMA InitInvariant == Init => IInv
<1> SUFFICES ASSUME Init PROVE IInv
    OBVIOUS
<1>1. TypeOK
    BY EngineAssumption DEF Init, TypeOK, Threads, Places
<1>2. LockHeld /\ FreshAnswers /\ SharedIsFresh
    BY EngineAssumption DEF Init, Threads, LockHeld, FreshAnswers, SharedIsFresh
<1>3. TargetBehind /\ WindowForTarget /\ StableForTarget
    BY DEF Init, TargetBehind, WindowForTarget, StableForTarget
<1>4. WorkerPending
    BY EngineAssumption DEF Init, Threads, WorkerPending
<1>5. TimerFollows
    BY DEF Init, TimerFollows
<1> QED
    BY <1>1, <1>2, <1>3, <1>4, <1>5 DEF IInv

\* A request of any thread keeps the timer on course: the owner applies it at once, and
\* anyone else leaves a notification of it.
LEMMA RequestFollowed ==
    ASSUME TypeOK, TimerFollows, NEW t, NEW active \in BOOLEAN, TimerRequest(t, active)
    PROVE  /\ requested' \in BOOLEAN /\ posted' \in Nat /\ running' \in BOOLEAN
           /\ TimerFollows'
<1>1. CASE t = Gui
    BY <1>1 DEF TimerRequest, TypeOK, TimerFollows
<1>2. CASE t # Gui
  <2>1. posted' = posted + 1 /\ running' = running /\ requested' = active
    BY <1>2 DEF TimerRequest
  <2> QED
    BY <2>1 DEF TypeOK, TimerFollows
<1> QED
    BY <1>1, <1>2


\* Every step keeps the invariant.
LEMMA StepInvariant ==
    ASSUME IInv, [Next]_vars
    PROVE  IInv'
<1> USE EngineAssumption
        DEF IInv, Threads, Goto, session, motion, sharing, polling, timer, locals
<1>0. CASE UNCHANGED vars
    BY <1>0 DEF vars, TypeOK, LockHeld,
        FreshAnswers, SharedIsFresh, TargetBehind, WindowForTarget, StableForTarget,
        WorkerPending, TimerFollows
<1>1. ASSUME NEW t \in Threads, Request(t) PROVE IInv'
  <2>1. TypeOK'
    BY <1>1 DEF Request, TypeOK, Places
  <2>2. LockHeld'
    BY <1>1 DEF Request, TypeOK, LockHeld
  <2>3. FreshAnswers'
    BY <1>1 DEF Request, TypeOK, FreshAnswers, SharedIsFresh
  <2>4. SharedIsFresh'
    BY <1>1 DEF Request, TypeOK, SharedIsFresh, LockHeld
  <2>5. TargetBehind' /\ WindowForTarget' /\ StableForTarget'
    BY <1>1 DEF Request, TypeOK, TargetBehind, WindowForTarget, StableForTarget
  <2>6. WorkerPending'
    BY <1>1 DEF Request, TypeOK, WorkerPending
  <2>7. TimerFollows'
    BY <1>1 DEF Request, TypeOK, TimerFollows
  <2> QED
    BY <2>1, <2>2, <2>3, <2>4, <2>5, <2>6, <2>7
<1>2. ASSUME NEW t \in Threads, Share(t) PROVE IInv'
  <2>1. TypeOK'
    BY <1>2 DEF Share, TypeOK, Places
  <2>2. LockHeld'
    BY <1>2 DEF Share, TypeOK, LockHeld
  <2>3. FreshAnswers'
    BY <1>2 DEF Share, TypeOK, FreshAnswers, SharedIsFresh
  <2>4. SharedIsFresh'
    BY <1>2 DEF Share, TypeOK, SharedIsFresh, LockHeld
  <2>5. TargetBehind' /\ WindowForTarget' /\ StableForTarget'
    BY <1>2 DEF Share, TypeOK, TargetBehind, WindowForTarget, StableForTarget
  <2>6. WorkerPending'
    BY <1>2 DEF Share, TypeOK, WorkerPending
  <2>7. TimerFollows'
    BY <1>2 DEF Share, TypeOK, TimerFollows
  <2> QED
    BY <2>1, <2>2, <2>3, <2>4, <2>5, <2>6, <2>7
<1>3. ASSUME NEW t \in Threads, StartRead(t) PROVE IInv'
  <2>1. TypeOK'
    BY <1>3 DEF StartRead, TypeOK, Places
  <2>2. LockHeld'
    BY <1>3 DEF StartRead, TypeOK, LockHeld
  <2>3. FreshAnswers'
    BY <1>3 DEF StartRead, TypeOK, FreshAnswers, SharedIsFresh
  <2>4. SharedIsFresh'
    BY <1>3 DEF StartRead, TypeOK, SharedIsFresh, LockHeld
  <2>5. TargetBehind' /\ WindowForTarget' /\ StableForTarget'
    BY <1>3 DEF StartRead, TypeOK, TargetBehind, WindowForTarget, StableForTarget
  <2>6. WorkerPending'
    BY <1>3 DEF StartRead, TypeOK, WorkerPending
  <2>7. TimerFollows'
    BY <1>3 DEF StartRead, TypeOK, TimerFollows
  <2> QED
    BY <2>1, <2>2, <2>3, <2>4, <2>5, <2>6, <2>7
<1>4. ASSUME NEW t \in Threads, ReadDevice(t) PROVE IInv'
  <2>1. TypeOK'
    BY <1>4 DEF ReadDevice, Publish, Judge, TypeOK, Places
  <2>2. LockHeld'
    BY <1>4 DEF ReadDevice, Publish, Judge, TypeOK, LockHeld
  <2>3. FreshAnswers'
    BY <1>4 DEF ReadDevice, Publish, Judge, TypeOK, FreshAnswers, SharedIsFresh
  <2>4. SharedIsFresh'
    BY <1>4 DEF ReadDevice, Publish, Judge, TypeOK, SharedIsFresh, LockHeld
  <2>5. TargetBehind' /\ WindowForTarget' /\ StableForTarget'
    BY <1>4 DEF ReadDevice, Publish, Judge, TypeOK, TargetBehind, WindowForTarget,
        StableForTarget
  <2>6. WorkerPending'
    BY <1>4 DEF ReadDevice, Publish, Judge, TypeOK, WorkerPending
  <2>7. TimerFollows'
    BY <1>4 DEF ReadDevice, Publish, Judge, TypeOK, TimerFollows
  <2> QED
    BY <2>1, <2>2, <2>3, <2>4, <2>5, <2>6, <2>7
<1>5. ASSUME NEW t \in Threads, ReadFails(t) PROVE IInv'
  <2>1. TypeOK'
    BY <1>5 DEF ReadFails, Publish, TypeOK, Places
  <2>2. LockHeld'
    BY <1>5 DEF ReadFails, Publish, TypeOK, LockHeld
  <2>3. FreshAnswers'
    BY <1>5 DEF ReadFails, Publish, TypeOK, FreshAnswers, SharedIsFresh
  <2>4. SharedIsFresh'
    BY <1>5 DEF ReadFails, Publish, TypeOK, SharedIsFresh, LockHeld
  <2>5. TargetBehind' /\ WindowForTarget' /\ StableForTarget'
    BY <1>5 DEF ReadFails, Publish, TypeOK, TargetBehind, WindowForTarget, StableForTarget
  <2>6. WorkerPending'
    BY <1>5 DEF ReadFails, Publish, TypeOK, WorkerPending
  <2>7. TimerFollows'
    BY <1>5 DEF ReadFails, Publish, TypeOK, TimerFollows
  <2> QED
    BY <2>1, <2>2, <2>3, <2>4, <2>5, <2>6, <2>7
<1>6. ASSUME NEW t \in Threads, Return(t) PROVE IInv'
  <2>1. TypeOK'
    BY <1>6 DEF Return, TypeOK, Places
  <2>2. LockHeld'
    BY <1>6 DEF Return, TypeOK, LockHeld
  <2>3. FreshAnswers'
    BY <1>6 DEF Return, TypeOK, FreshAnswers, SharedIsFresh
  <2>4. SharedIsFresh'
    BY <1>6 DEF Return, TypeOK, SharedIsFresh, LockHeld
  <2>5. TargetBehind' /\ WindowForTarget' /\ StableForTarget'
    BY <1>6 DEF Return, TypeOK, TargetBehind, WindowForTarget, StableForTarget
  <2>6. WorkerPending'
    BY <1>6 DEF Return, TypeOK, WorkerPending
  <2>7. TimerFollows'
    BY <1>6 DEF Return, TypeOK, TimerFollows
  <2> QED
    BY <2>1, <2>2, <2>3, <2>4, <2>5, <2>6, <2>7
<1>7. ASSUME NEW t \in Threads, Command(t) PROVE IInv'
  <2>1. TypeOK'
    BY <1>7 DEF Command, TypeOK, Places
  <2>2. LockHeld'
    BY <1>7 DEF Command, TypeOK, LockHeld
  <2>3. FreshAnswers'
    BY <1>7 DEF Command, TypeOK, FreshAnswers, SharedIsFresh
  <2>4. SharedIsFresh'
    BY <1>7 DEF Command, TypeOK, SharedIsFresh, LockHeld
  <2>5. TargetBehind' /\ WindowForTarget' /\ StableForTarget'
    BY <1>7 DEF Command, TypeOK, TargetBehind, WindowForTarget, StableForTarget
  <2>6. WorkerPending'
    BY <1>7 DEF Command, TypeOK, WorkerPending
  <2>7. TimerFollows'
    BY <1>7 DEF Command, TypeOK, TimerFollows
  <2> QED
    BY <2>1, <2>2, <2>3, <2>4, <2>5, <2>6, <2>7
<1>8. ASSUME NEW t \in Threads, CommandDone(t) PROVE IInv'
  <2>1. TypeOK'
    BY <1>8 DEF CommandDone, TypeOK, Places
  <2>2. LockHeld'
    BY <1>8 DEF CommandDone, TypeOK, LockHeld
  <2>3. FreshAnswers'
    BY <1>8 DEF CommandDone, TypeOK, FreshAnswers, SharedIsFresh
  <2>4. SharedIsFresh'
    BY <1>8 DEF CommandDone, TypeOK, SharedIsFresh, LockHeld
  <2>5. TargetBehind' /\ WindowForTarget' /\ StableForTarget'
    BY <1>8 DEF CommandDone, TypeOK, TargetBehind, WindowForTarget, StableForTarget
  <2>6. WorkerPending'
    BY <1>8 DEF CommandDone, TypeOK, WorkerPending
  <2>7. TimerFollows'
    BY <1>8 DEF CommandDone, TypeOK, TimerFollows
  <2> QED
    BY <2>1, <2>2, <2>3, <2>4, <2>5, <2>6, <2>7
<1>9. ASSUME NEW t \in Threads, CommandFails(t) PROVE IInv'
  <2>1. TypeOK'
    BY <1>9 DEF CommandFails, TypeOK, Places
  <2>2. LockHeld'
    BY <1>9 DEF CommandFails, TypeOK, LockHeld
  <2>3. FreshAnswers'
    BY <1>9 DEF CommandFails, TypeOK, FreshAnswers, SharedIsFresh
  <2>4. SharedIsFresh'
    BY <1>9 DEF CommandFails, TypeOK, SharedIsFresh, LockHeld
  <2>5. TargetBehind' /\ WindowForTarget' /\ StableForTarget'
    BY <1>9 DEF CommandFails, TypeOK, TargetBehind, WindowForTarget, StableForTarget
  <2>6. WorkerPending'
    BY <1>9 DEF CommandFails, TypeOK, WorkerPending
  <2>7. TimerFollows'
    BY <1>9 DEF CommandFails, TypeOK, TimerFollows
  <2> QED
    BY <2>1, <2>2, <2>3, <2>4, <2>5, <2>6, <2>7
<1>10. ASSUME NEW t \in Threads, Connect(t) PROVE IInv'
  <2>0. requested' \in BOOLEAN /\ posted' \in Nat /\ running' \in BOOLEAN
    BY <1>10, RequestFollowed DEF Connect
  <2>1. TypeOK'
    BY <1>10, <2>0 DEF Connect, TypeOK, Places
  <2>2. LockHeld'
    BY <1>10 DEF Connect, TypeOK, LockHeld
  <2>3. FreshAnswers'
    BY <1>10 DEF Connect, TypeOK, FreshAnswers, SharedIsFresh
  <2>4. SharedIsFresh'
    BY <1>10 DEF Connect, TypeOK, SharedIsFresh, LockHeld
  <2>5. TargetBehind' /\ WindowForTarget' /\ StableForTarget'
    BY <1>10 DEF Connect, TypeOK, TargetBehind, WindowForTarget, StableForTarget
  <2>6. WorkerPending'
    BY <1>10 DEF Connect, TypeOK, WorkerPending
  <2>7. TimerFollows'
    BY <1>10, RequestFollowed DEF Connect
  <2> QED
    BY <2>1, <2>2, <2>3, <2>4, <2>5, <2>6, <2>7
<1>11. ASSUME NEW t \in Threads, Opened(t) PROVE IInv'
  <2>1. TypeOK'
    BY <1>11 DEF Opened, TypeOK, Places
  <2>2. LockHeld'
    BY <1>11 DEF Opened, TypeOK, LockHeld
  <2>3. FreshAnswers'
    BY <1>11 DEF Opened, TypeOK, FreshAnswers, SharedIsFresh
  <2>4. SharedIsFresh'
    BY <1>11 DEF Opened, TypeOK, SharedIsFresh, LockHeld
  <2>5. TargetBehind' /\ WindowForTarget' /\ StableForTarget'
    BY <1>11 DEF Opened, TypeOK, TargetBehind, WindowForTarget, StableForTarget
  <2>6. WorkerPending'
    BY <1>11 DEF Opened, TypeOK, WorkerPending
  <2>7. TimerFollows'
    BY <1>11 DEF Opened, TypeOK, TimerFollows
  <2> QED
    BY <2>1, <2>2, <2>3, <2>4, <2>5, <2>6, <2>7
<1>12. ASSUME NEW t \in Threads, OpenFails(t) PROVE IInv'
  <2>1. TypeOK'
    BY <1>12 DEF OpenFails, TypeOK, Places
  <2>2. LockHeld'
    BY <1>12 DEF OpenFails, TypeOK, LockHeld
  <2>3. FreshAnswers'
    BY <1>12 DEF OpenFails, TypeOK, FreshAnswers, SharedIsFresh
  <2>4. SharedIsFresh'
    BY <1>12 DEF OpenFails, TypeOK, SharedIsFresh, LockHeld
  <2>5. TargetBehind' /\ WindowForTarget' /\ StableForTarget'
    BY <1>12 DEF OpenFails, TypeOK, TargetBehind, WindowForTarget, StableForTarget
  <2>6. WorkerPending'
    BY <1>12 DEF OpenFails, TypeOK, WorkerPending
  <2>7. TimerFollows'
    BY <1>12 DEF OpenFails, TypeOK, TimerFollows
  <2> QED
    BY <2>1, <2>2, <2>3, <2>4, <2>5, <2>6, <2>7
<1>13. ASSUME NEW t \in Threads, ConnectDone(t) PROVE IInv'
  <2>0. requested' \in BOOLEAN /\ posted' \in Nat /\ running' \in BOOLEAN
    <3>1. CASE start[t]
        BY <1>13, <3>1, RequestFollowed DEF ConnectDone
    <3>2. CASE ~start[t]
        BY <1>13, <3>2 DEF ConnectDone, TypeOK, TimerFollows
    <3> QED
        BY <3>1, <3>2
  <2>1. TypeOK'
    BY <1>13, <2>0 DEF ConnectDone, TypeOK, Places
  <2>2. LockHeld'
    BY <1>13 DEF ConnectDone, TypeOK, LockHeld
  <2>3. FreshAnswers'
    BY <1>13 DEF ConnectDone, TypeOK, FreshAnswers, SharedIsFresh
  <2>4. SharedIsFresh'
    BY <1>13 DEF ConnectDone, TypeOK, SharedIsFresh, LockHeld
  <2>5. TargetBehind' /\ WindowForTarget' /\ StableForTarget'
    BY <1>13 DEF ConnectDone, TypeOK, TargetBehind, WindowForTarget, StableForTarget
  <2>6. WorkerPending'
    BY <1>13 DEF ConnectDone, TypeOK, WorkerPending
  <2>7. TimerFollows'
    <3>1. CASE start[t]
        BY <1>13, <3>1, RequestFollowed DEF ConnectDone
    <3>2. CASE ~start[t]
        BY <1>13, <3>2 DEF ConnectDone, TypeOK, TimerFollows
    <3> QED
        BY <3>1, <3>2
  <2> QED
    BY <2>1, <2>2, <2>3, <2>4, <2>5, <2>6, <2>7
<1>14. ASSUME NEW t \in Threads, Disconnect(t) PROVE IInv'
  <2>0. requested' \in BOOLEAN /\ posted' \in Nat /\ running' \in BOOLEAN
    BY <1>14, RequestFollowed DEF Disconnect
  <2>1. TypeOK'
    BY <1>14, <2>0 DEF Disconnect, TypeOK, Places
  <2>2. LockHeld'
    BY <1>14 DEF Disconnect, TypeOK, LockHeld
  <2>3. FreshAnswers'
    BY <1>14 DEF Disconnect, TypeOK, FreshAnswers, SharedIsFresh
  <2>4. SharedIsFresh'
    BY <1>14 DEF Disconnect, TypeOK, SharedIsFresh, LockHeld
  <2>5. TargetBehind' /\ WindowForTarget' /\ StableForTarget'
    BY <1>14 DEF Disconnect, TypeOK, TargetBehind, WindowForTarget, StableForTarget
  <2>6. WorkerPending'
    BY <1>14 DEF Disconnect, TypeOK, WorkerPending
  <2>7. TimerFollows'
    BY <1>14, RequestFollowed DEF Disconnect
  <2> QED
    BY <2>1, <2>2, <2>3, <2>4, <2>5, <2>6, <2>7
<1>15. ASSUME NEW t \in Threads, DisconnectDone(t) PROVE IInv'
  <2>1. TypeOK'
    BY <1>15 DEF DisconnectDone, TypeOK, Places
  <2>2. LockHeld'
    BY <1>15 DEF DisconnectDone, TypeOK, LockHeld
  <2>3. FreshAnswers'
    BY <1>15 DEF DisconnectDone, TypeOK, FreshAnswers, SharedIsFresh
  <2>4. SharedIsFresh'
    BY <1>15 DEF DisconnectDone, TypeOK, SharedIsFresh, LockHeld
  <2>5. TargetBehind' /\ WindowForTarget' /\ StableForTarget'
    BY <1>15 DEF DisconnectDone, TypeOK, TargetBehind, WindowForTarget, StableForTarget
  <2>6. WorkerPending'
    BY <1>15 DEF DisconnectDone, TypeOK, WorkerPending
  <2>7. TimerFollows'
    BY <1>15 DEF DisconnectDone, TypeOK, TimerFollows
  <2> QED
    BY <2>1, <2>2, <2>3, <2>4, <2>5, <2>6, <2>7
<1>16. CASE DeliverTimer
  <2>1. TypeOK'
    BY <1>16 DEF DeliverTimer, TypeOK, Places
  <2>2. LockHeld'
    BY <1>16 DEF DeliverTimer, TypeOK, LockHeld
  <2>3. FreshAnswers'
    BY <1>16 DEF DeliverTimer, TypeOK, FreshAnswers, SharedIsFresh
  <2>4. SharedIsFresh'
    BY <1>16 DEF DeliverTimer, TypeOK, SharedIsFresh, LockHeld
  <2>5. TargetBehind' /\ WindowForTarget' /\ StableForTarget'
    BY <1>16 DEF DeliverTimer, TypeOK, TargetBehind, WindowForTarget, StableForTarget
  <2>6. WorkerPending'
    BY <1>16 DEF DeliverTimer, TypeOK, WorkerPending
  <2>7. TimerFollows'
    BY <1>16 DEF DeliverTimer, TypeOK, TimerFollows
  <2> QED
    BY <2>1, <2>2, <2>3, <2>4, <2>5, <2>6, <2>7
<1>17. CASE Tick
  <2>1. TypeOK'
    BY <1>17 DEF Tick, TypeOK, Places
  <2>2. LockHeld'
    BY <1>17 DEF Tick, TypeOK, LockHeld, WorkerPending
  <2>3. FreshAnswers'
    BY <1>17 DEF Tick, TypeOK, FreshAnswers, SharedIsFresh
  <2>4. SharedIsFresh'
    BY <1>17 DEF Tick, TypeOK, SharedIsFresh, LockHeld
  <2>5. TargetBehind' /\ WindowForTarget' /\ StableForTarget'
    BY <1>17 DEF Tick, TypeOK, TargetBehind, WindowForTarget, StableForTarget
  <2>6. WorkerPending'
    BY <1>17 DEF Tick, TypeOK, WorkerPending
  <2>7. TimerFollows'
    BY <1>17 DEF Tick, TypeOK, TimerFollows
  <2> QED
    BY <2>1, <2>2, <2>3, <2>4, <2>5, <2>6, <2>7
<1>18. CASE SkipRead
  <2>1. TypeOK'
    BY <1>18 DEF SkipRead, TypeOK, Places
  <2>2. LockHeld'
    BY <1>18 DEF SkipRead, TypeOK, LockHeld
  <2>3. FreshAnswers'
    BY <1>18 DEF SkipRead, TypeOK, FreshAnswers, SharedIsFresh
  <2>4. SharedIsFresh'
    BY <1>18 DEF SkipRead, TypeOK, SharedIsFresh, LockHeld
  <2>5. TargetBehind' /\ WindowForTarget' /\ StableForTarget'
    BY <1>18 DEF SkipRead, TypeOK, TargetBehind, WindowForTarget, StableForTarget
  <2>6. WorkerPending'
    BY <1>18 DEF SkipRead, TypeOK, WorkerPending
  <2>7. TimerFollows'
    BY <1>18 DEF SkipRead, TypeOK, TimerFollows
  <2> QED
    BY <2>1, <2>2, <2>3, <2>4, <2>5, <2>6, <2>7
<1>19. CASE DisablePolling
  <2>0. requested' \in BOOLEAN /\ posted' \in Nat /\ running' \in BOOLEAN
    BY <1>19, RequestFollowed DEF DisablePolling
  <2>1. TypeOK'
    BY <1>19, <2>0 DEF DisablePolling, TypeOK, Places
  <2>2. LockHeld'
    BY <1>19 DEF DisablePolling, TypeOK, LockHeld
  <2>3. FreshAnswers'
    BY <1>19 DEF DisablePolling, TypeOK, FreshAnswers, SharedIsFresh
  <2>4. SharedIsFresh'
    BY <1>19 DEF DisablePolling, TypeOK, SharedIsFresh, LockHeld
  <2>5. TargetBehind' /\ WindowForTarget' /\ StableForTarget'
    BY <1>19 DEF DisablePolling, TypeOK, TargetBehind, WindowForTarget, StableForTarget
  <2>6. WorkerPending'
    BY <1>19 DEF DisablePolling, TypeOK, WorkerPending
  <2>7. TimerFollows'
    BY <1>19, RequestFollowed DEF DisablePolling
  <2> QED
    BY <2>1, <2>2, <2>3, <2>4, <2>5, <2>6, <2>7
<1>20. CASE EnablePolling
  <2>1. TypeOK'
    BY <1>20 DEF EnablePolling, TypeOK, Places
  <2>2. LockHeld'
    BY <1>20 DEF EnablePolling, TypeOK, LockHeld
  <2>3. FreshAnswers'
    BY <1>20 DEF EnablePolling, TypeOK, FreshAnswers, SharedIsFresh
  <2>4. SharedIsFresh'
    BY <1>20 DEF EnablePolling, TypeOK, SharedIsFresh, LockHeld
  <2>5. TargetBehind' /\ WindowForTarget' /\ StableForTarget'
    BY <1>20 DEF EnablePolling, TypeOK, TargetBehind, WindowForTarget, StableForTarget
  <2>6. WorkerPending'
    BY <1>20 DEF EnablePolling, TypeOK, WorkerPending
  <2>7. TimerFollows'
    BY <1>20 DEF EnablePolling, TypeOK, TimerFollows
  <2> QED
    BY <2>1, <2>2, <2>3, <2>4, <2>5, <2>6, <2>7
<1>21. CASE StartPolling
  <2>0. requested' \in BOOLEAN /\ posted' \in Nat /\ running' \in BOOLEAN
    BY <1>21, RequestFollowed DEF StartPolling
  <2>1. TypeOK'
    BY <1>21, <2>0 DEF StartPolling, TypeOK, Places
  <2>2. LockHeld'
    BY <1>21 DEF StartPolling, TypeOK, LockHeld
  <2>3. FreshAnswers'
    BY <1>21 DEF StartPolling, TypeOK, FreshAnswers, SharedIsFresh
  <2>4. SharedIsFresh'
    BY <1>21 DEF StartPolling, TypeOK, SharedIsFresh, LockHeld
  <2>5. TargetBehind' /\ WindowForTarget' /\ StableForTarget'
    BY <1>21 DEF StartPolling, TypeOK, TargetBehind, WindowForTarget, StableForTarget
  <2>6. WorkerPending'
    BY <1>21 DEF StartPolling, TypeOK, WorkerPending
  <2>7. TimerFollows'
    BY <1>21, RequestFollowed DEF StartPolling
  <2> QED
    BY <2>1, <2>2, <2>3, <2>4, <2>5, <2>6, <2>7
<1>22. CASE Shutdown
  <2>0. requested' \in BOOLEAN /\ posted' \in Nat /\ running' \in BOOLEAN
    BY <1>22, RequestFollowed DEF Shutdown
  <2>1. TypeOK'
    BY <1>22, <2>0 DEF Shutdown, TypeOK, Places
  <2>2. LockHeld'
    BY <1>22 DEF Shutdown, TypeOK, LockHeld
  <2>3. FreshAnswers'
    BY <1>22 DEF Shutdown, TypeOK, FreshAnswers, SharedIsFresh
  <2>4. SharedIsFresh'
    BY <1>22 DEF Shutdown, TypeOK, SharedIsFresh, LockHeld
  <2>5. TargetBehind' /\ WindowForTarget' /\ StableForTarget'
    BY <1>22 DEF Shutdown, TypeOK, TargetBehind, WindowForTarget, StableForTarget
  <2>6. WorkerPending'
    BY <1>22 DEF Shutdown, TypeOK, WorkerPending
  <2>7. TimerFollows'
    BY <1>22, RequestFollowed DEF Shutdown
  <2> QED
    BY <2>1, <2>2, <2>3, <2>4, <2>5, <2>6, <2>7
<1>23. CASE ShutdownRelease
  <2>1. TypeOK'
    BY <1>23 DEF ShutdownRelease, TypeOK, Places
  <2>2. LockHeld'
    BY <1>23 DEF ShutdownRelease, TypeOK, LockHeld
  <2>3. FreshAnswers'
    BY <1>23 DEF ShutdownRelease, TypeOK, FreshAnswers, SharedIsFresh
  <2>4. SharedIsFresh'
    BY <1>23 DEF ShutdownRelease, TypeOK, SharedIsFresh, LockHeld
  <2>5. TargetBehind' /\ WindowForTarget' /\ StableForTarget'
    BY <1>23 DEF ShutdownRelease, TypeOK, TargetBehind, WindowForTarget, StableForTarget
  <2>6. WorkerPending'
    BY <1>23 DEF ShutdownRelease, TypeOK, WorkerPending
  <2>7. TimerFollows'
    BY <1>23 DEF ShutdownRelease, TypeOK, TimerFollows
  <2> QED
    BY <2>1, <2>2, <2>3, <2>4, <2>5, <2>6, <2>7
<1>24. CASE ShutdownJoin
  <2>1. TypeOK'
    BY <1>24 DEF ShutdownJoin, TypeOK, Places
  <2>2. LockHeld'
    BY <1>24 DEF ShutdownJoin, TypeOK, LockHeld
  <2>3. FreshAnswers'
    BY <1>24 DEF ShutdownJoin, TypeOK, FreshAnswers, SharedIsFresh
  <2>4. SharedIsFresh'
    BY <1>24 DEF ShutdownJoin, TypeOK, SharedIsFresh, LockHeld
  <2>5. TargetBehind' /\ WindowForTarget' /\ StableForTarget'
    BY <1>24 DEF ShutdownJoin, TypeOK, TargetBehind, WindowForTarget, StableForTarget
  <2>6. WorkerPending'
    BY <1>24 DEF ShutdownJoin, TypeOK, WorkerPending
  <2>7. TimerFollows'
    BY <1>24 DEF ShutdownJoin, TypeOK, TimerFollows
  <2> QED
    BY <2>1, <2>2, <2>3, <2>4, <2>5, <2>6, <2>7
<1> QED
    BY NextActions, <1>0, <1>1, <1>2, <1>3, <1>4, <1>5, <1>6, <1>7, <1>8, <1>9, <1>10, <1>11,
        <1>12, <1>13, <1>14, <1>15, <1>16, <1>17, <1>18, <1>19, <1>20, <1>21, <1>22, <1>23,
        <1>24

\* The inductive invariant holds in every reachable state.
THEOREM Invariant == Spec => []IInv
<1>1. IInv /\ [Next]_vars => IInv'
    BY StepInvariant
<1> QED
    BY InitInvariant, <1>1, PTL DEF Spec

\* The variables keep their types: MotorControllerEngine and its poller and timer.
THEOREM TypeCorrect == Spec => []TypeOK
<1>1. IInv => TypeOK
    BY DEF IInv
<1> QED
    BY Invariant, <1>1, PTL

\* coordinated_read: a read requested after a command never answers with a reading from
\* before it.
THEOREM ReadsAreFresh == Spec => []FreshAnswers
<1>1. IInv => FreshAnswers
    BY DEF IInv
<1> QED
    BY Invariant, <1>1, PTL

\* _evaluate_stability and _mark_target_pending: a stable flag was earned on the recorded
\* target or on a later one.
THEOREM StabilityIsForTarget == Spec => []StableForTarget
<1>1. IInv => StableForTarget
    BY DEF IInv
<1> QED
    BY Invariant, <1>1, PTL

\* ControllerTimer: once its notifications are delivered it obeys the latest request.
THEOREM TimerObeysLatest == Spec => []TimerFollows
<1>1. IInv => TimerFollows
    BY DEF IInv
<1> QED
    BY Invariant, <1>1, PTL

-----------------------------------------------------------------------------
\* A thread that goes to another place changes its own phase only.
LEMMA PhaseMoves ==
    ASSUME TypeOK, NEW t \in Threads, NEW place \in Places, Goto(t, place)
    PROVE  Phases' = [Phases EXCEPT ![t] = Phase(place)]
BY DEF TypeOK, Goto, Phases

\* A thread that goes to a place of its own phase changes no phase.
LEMMA PhaseKept ==
    ASSUME TypeOK, NEW t \in Threads, NEW place \in Places, Goto(t, place),
           Phase(place) = Phase(pc[t])
    PROVE  Phases' = Phases
BY DEF TypeOK, Goto, Phases

\* The phases of the places.
LEMMA PhaseOfPlaces ==
    /\ \A place \in Places \ {"wait", "reading", "returned"} : Phase(place) = "idle"
    /\ Phase("wait") = "asked" /\ Phase("reading") = "asked"
    /\ Phase("returned") = "answered"
BY DEF Phase, Places

\* Every step of the engine is a step of FreshReads or leaves its variables unchanged.
LEMMA StepPromise ==
    ASSUME IInv, [Next]_vars
    PROVE  [Promise!Next]_(Promise!vars)
<1> USE EngineAssumption, PhaseOfPlaces DEF session, motion, sharing, polling, timer, locals
<1> DEFINE Kept == /\ UNCHANGED <<device, want, got>>
                   /\ Phases' = Phases
<1>a. TypeOK /\ SharedIsFresh /\ WorkerPending
    BY DEF IInv
<1>b. Kept => [Promise!Next]_(Promise!vars)
    BY DEF Promise!vars
<1>c. \A t \in Threads : pc[t] \in Places /\ Phases[t] = Phase(pc[t])
    BY <1>a DEF TypeOK, Phases
<1> HIDE DEF Kept
<1>0. CASE UNCHANGED vars
    BY <1>0, <1>b DEF vars, Phases, Kept
<1>1. ASSUME NEW t \in Threads, Request(t) PROVE [Promise!Next]_(Promise!vars)
  <2>1. Phases' = [Phases EXCEPT ![t] = Phase("wait")]
    BY <1>1, <1>a, PhaseMoves DEF Request, Places
  <2>2. Promise!Ask(t)
    BY <1>1, <1>a, <1>c, <2>1 DEF Request, Promise!Ask, Places, Threads
  <2> QED
    BY <2>2 DEF Promise!Next
<1>2. ASSUME NEW t \in Threads, Share(t) PROVE [Promise!Next]_(Promise!vars)
  <2>1. Phases' = [Phases EXCEPT ![t] = Phase("returned")]
    BY <1>2, <1>a, PhaseMoves DEF Share, Places
  <2>2. shared \in (want[t]..device) \cup {None}
    BY <1>2, <1>a DEF Share, SharedIsFresh, TypeOK
  <2>3. Promise!Answer(t, shared)
    BY <1>2, <1>c, <2>1 DEF Share, Promise!Answer
  <2> QED
    BY <2>2, <2>3 DEF Promise!Next
<1>3. ASSUME NEW t \in Threads, StartRead(t) PROVE [Promise!Next]_(Promise!vars)
    BY <1>3, <1>a, <1>b, <1>c, PhaseKept DEF StartRead, Kept, Places
<1>4. ASSUME NEW t \in Threads, ReadDevice(t) PROVE [Promise!Next]_(Promise!vars)
  <2>1. Phases' = [Phases EXCEPT ![t] = Phase("returned")]
    BY <1>4, <1>a, PhaseMoves DEF ReadDevice, Publish, Places
  <2>2. device \in (want[t]..device) \cup {None}
    BY <1>4, <1>a DEF ReadDevice, SharedIsFresh, TypeOK
  <2>3. Promise!Answer(t, device)
    BY <1>4, <1>c, <2>1 DEF ReadDevice, Publish, Promise!Answer
  <2> QED
    BY <2>2, <2>3 DEF Promise!Next
<1>5. ASSUME NEW t \in Threads, ReadFails(t) PROVE [Promise!Next]_(Promise!vars)
  <2>1. Phases' = [Phases EXCEPT ![t] = Phase("returned")]
    BY <1>5, <1>a, PhaseMoves DEF ReadFails, Publish, Places
  <2>2. None \in (want[t]..device) \cup {None}
    BY <1>5, <1>a DEF ReadFails, SharedIsFresh, TypeOK
  <2>3. Promise!Answer(t, None)
    BY <1>5, <1>c, <2>1 DEF ReadFails, Publish, Promise!Answer
  <2> QED
    BY <2>2, <2>3 DEF Promise!Next
<1>6. ASSUME NEW t \in Threads, Return(t) PROVE [Promise!Next]_(Promise!vars)
  <2>1. Phases' = [Phases EXCEPT ![t] = Phase("idle")]
    BY <1>6, <1>a, PhaseMoves DEF Return, Places
  <2>2. Promise!Leave(t)
    BY <1>6, <1>a, <1>c, <2>1 DEF Return, Promise!Leave, Places, Threads
  <2> QED
    BY <2>2 DEF Promise!Next
<1>7. ASSUME NEW t \in Threads, Command(t) PROVE [Promise!Next]_(Promise!vars)
  <2>1. Phases' = Phases
    BY <1>7, <1>a, <1>c, PhaseKept DEF Command, Places
  <2>2. Promise!Execute
    BY <1>7, <2>1 DEF Command, Promise!Execute
  <2> QED
    BY <2>2 DEF Promise!Next
<1>8. ASSUME NEW t \in Threads, CommandDone(t) PROVE [Promise!Next]_(Promise!vars)
    BY <1>8, <1>a, <1>b, <1>c, PhaseKept DEF CommandDone, Kept, Places
<1>9. ASSUME NEW t \in Threads, CommandFails(t) PROVE [Promise!Next]_(Promise!vars)
    BY <1>9, <1>a, <1>b, <1>c, PhaseKept DEF CommandFails, Kept, Places
<1>10. ASSUME NEW t \in Threads, Connect(t) PROVE [Promise!Next]_(Promise!vars)
    BY <1>10, <1>a, <1>b, <1>c, PhaseKept DEF Connect, Kept, Places
<1>11. ASSUME NEW t \in Threads, Opened(t) PROVE [Promise!Next]_(Promise!vars)
    BY <1>11, <1>a, <1>b, <1>c, PhaseKept DEF Opened, Kept, Places
<1>12. ASSUME NEW t \in Threads, OpenFails(t) PROVE [Promise!Next]_(Promise!vars)
    BY <1>12, <1>a, <1>b, <1>c, PhaseKept DEF OpenFails, Kept, Places
<1>13. ASSUME NEW t \in Threads, ConnectDone(t) PROVE [Promise!Next]_(Promise!vars)
    BY <1>13, <1>a, <1>b, <1>c, PhaseKept DEF ConnectDone, Kept, Places
<1>14. ASSUME NEW t \in Threads, Disconnect(t) PROVE [Promise!Next]_(Promise!vars)
    BY <1>14, <1>a, <1>b, <1>c, PhaseKept DEF Disconnect, Kept, Places
<1>15. ASSUME NEW t \in Threads, DisconnectDone(t) PROVE [Promise!Next]_(Promise!vars)
    BY <1>15, <1>a, <1>b, <1>c, PhaseKept DEF DisconnectDone, Kept, Places
<1>16. CASE DeliverTimer
    BY <1>16, <1>b DEF DeliverTimer, Kept, Phases
<1>17. CASE Tick
    BY <1>17, <1>a, <1>b, <1>c, PhaseKept
    DEF Tick, Kept, Places, Threads, WorkerPending
<1>18. CASE SkipRead
    BY <1>18, <1>a, <1>b, <1>c, PhaseKept DEF SkipRead, Kept, Places, Threads
<1>19. CASE DisablePolling
    BY <1>19, <1>b DEF DisablePolling, Kept, Phases
<1>20. CASE EnablePolling
  <2>1. CASE UNCHANGED pc
    BY <1>20, <2>1, <1>b DEF EnablePolling, Kept, Phases
  <2>2. CASE Goto(Gui, "starting")
    BY <1>20, <2>2, <1>a, <1>b, <1>c, PhaseKept DEF EnablePolling, Kept, Threads, Places
  <2> QED
    BY <1>20, <2>1, <2>2 DEF EnablePolling
<1>21. CASE StartPolling
    BY <1>21, <1>a, <1>b, <1>c, PhaseKept DEF StartPolling, Kept, Places, Threads
<1>22. CASE Shutdown
    BY <1>22, <1>a, <1>b, <1>c, PhaseKept DEF Shutdown, Kept, Places, Threads
<1>23. CASE ShutdownRelease
    BY <1>23, <1>a, <1>b, <1>c, PhaseKept DEF ShutdownRelease, Kept, Places, Threads
<1>24. CASE ShutdownJoin
    BY <1>24, <1>a, <1>b, <1>c, PhaseKept DEF ShutdownJoin, Kept, Places, Threads
<1> QED
    BY NextActions, <1>0, <1>1, <1>2, <1>3, <1>4, <1>5, <1>6, <1>7, <1>8, <1>9, <1>10, <1>11,
        <1>12, <1>13, <1>14, <1>15, <1>16, <1>17, <1>18, <1>19, <1>20, <1>21, <1>22, <1>23,
        <1>24

\* The engine implements FreshReads: every read of coordinated_read answers with a state
\* the device had between the request and the answer, or says that it failed.
THEOREM Implementation == Spec => ImplementsFreshReads
<1>1. Init => Promise!Init
    BY DEF Init, Promise!Init, Phases, Phase, Threads
<1>2. IInv /\ [Next]_vars => [Promise!Next]_(Promise!vars)
    BY StepPromise
<1> QED
    BY Invariant, <1>1, <1>2, PTL DEF Spec, ImplementsFreshReads, Promise!Spec

-----------------------------------------------------------------------------
\* An operation that neither connects, disconnects, shuts down nor sets the rate leaves what
\* is known about the polling as it is.
LEMMA PollingElsewhere ==
    ASSUME TypeOK, PollingInv, NEW t \in Threads, NEW place \in Places \ Deciding,
           pc[t] \notin Deciding, Goto(t, place), UNCHANGED <<session, requested, start>>
    PROVE  PollingInv'
<1>1. /\ \A u \in Threads : pc'[u] \in Deciding <=> pc[u] \in Deciding
      /\ \A u \in Threads : pc[u] \in Deciding => pc'[u] = pc[u]
      /\ \A u \in Threads : pc'[u] \in Deciding => pc'[u] = pc[u]
    BY DEF TypeOK, Goto
<1>2. PollingWanted'
    BY <1>1 DEF PollingInv, PollingWanted, session
<1>3. ConnectWanted'
    BY <1>1 DEF PollingInv, ConnectWanted, Deciding, session
<1>4. StoppedBare'
    BY <1>1 DEF PollingInv, StoppedBare, Deciding, session
<1> QED
    BY <1>2, <1>3, <1>4 DEF PollingInv

\* Every step keeps what is known about the polling.
LEMMA StepPolling ==
    ASSUME IInv, PollingInv, [Next]_vars
    PROVE  PollingInv'
<1> USE EngineAssumption DEF Goto, session, motion, sharing, polling, timer, locals
<1>a. TypeOK /\ LockHeld /\ WorkerPending
    BY DEF IInv
<1>b. Gui \in Threads /\ Poller \in Threads /\ None \notin Threads
    BY DEF Threads
<1>0. CASE UNCHANGED vars
    BY <1>0 DEF vars, PollingInv, PollingWanted, ConnectWanted, StoppedBare
<1>1. ASSUME NEW t \in Threads,
             Request(t) \/ Share(t) \/ StartRead(t) \/ ReadDevice(t) \/ ReadFails(t) \/ Return(t)
      PROVE  PollingInv'
  <2>1. PICK place \in Places \ Deciding : Goto(t, place)
    BY <1>1 DEF Request, Share, StartRead, ReadDevice, ReadFails, Publish, Return, Places, Deciding
  <2>2. pc[t] \notin Deciding /\ UNCHANGED <<session, requested, start>>
    BY <1>1 DEF Request, Share, StartRead, ReadDevice, ReadFails, Publish, Return, Deciding
  <2> QED
    BY <1>a, <2>1, <2>2, PollingElsewhere
<1>2. ASSUME NEW t \in Threads, Command(t) \/ CommandDone(t) \/ CommandFails(t)
      PROVE  PollingInv'
  <2>1. PICK place \in Places \ Deciding : Goto(t, place)
    BY <1>2 DEF Command, CommandDone, CommandFails, Places, Deciding
  <2>2. pc[t] \notin Deciding /\ UNCHANGED <<session, requested, start>>
    BY <1>2 DEF Command, CommandDone, CommandFails, Deciding
  <2> QED
    BY <1>a, <2>1, <2>2, PollingElsewhere
<1>3. CASE Tick \/ SkipRead
  <2>1. PICK place \in Places \ Deciding : Goto(Poller, place)
    BY <1>3 DEF Tick, SkipRead, Places, Deciding
  <2>2. pc[Poller] \notin Deciding /\ UNCHANGED <<session, requested, start>>
    BY <1>3, <1>a DEF Tick, SkipRead, WorkerPending, Deciding
  <2> QED
    BY <1>a, <1>b, <2>1, <2>2, PollingElsewhere
<1>4. CASE ShutdownJoin
  <2>1. Goto(Gui, "down") /\ "down" \in Places \ Deciding
    BY <1>4 DEF ShutdownJoin, Places, Deciding
  <2>2. pc[Gui] \notin Deciding /\ UNCHANGED <<session, requested, start>>
    BY <1>4 DEF ShutdownJoin, Deciding
  <2> QED
    BY <1>a, <1>b, <2>1, <2>2, PollingElsewhere
<1>5. CASE DeliverTimer
    BY <1>5 DEF DeliverTimer, PollingInv, PollingWanted, ConnectWanted, StoppedBare
<1>6. ASSUME NEW t \in Threads, Connect(t) PROVE PollingInv'
  <2>1. pc' = [pc EXCEPT ![t] = "opening"] /\ ~stopped /\ lock = None
    BY <1>6 DEF Connect
  <2>2. PollingWanted'
    BY <1>a, <2>1 DEF TypeOK, PollingWanted, Deciding
  <2>3. ConnectWanted'
    BY <1>a, <1>b, <2>1 DEF TypeOK, LockHeld, ConnectWanted
  <2>4. StoppedBare'
    BY <1>6, <2>1 DEF Connect, StoppedBare
  <2> QED
    BY <2>2, <2>3, <2>4 DEF PollingInv
<1>7. ASSUME NEW t \in Threads, Opened(t) PROVE PollingInv'
  <2>1. pc' = [pc EXCEPT ![t] = "connecting"] /\ lock = t
    BY <1>7, <1>a DEF Opened, LockHeld
  <2>2. PollingWanted'
    BY <1>a, <2>1 DEF TypeOK, PollingWanted, Deciding
  <2>3. \A u \in Threads : pc'[u] = "connecting" => u = t
    BY <1>a, <2>1 DEF TypeOK, LockHeld
  <2>4. ConnectWanted'
    BY <1>7, <1>a, <2>3 DEF Opened, TypeOK, ConnectWanted
  <2>5. StoppedBare'
    BY <1>7 DEF Opened, StoppedBare
  <2> QED
    BY <2>2, <2>4, <2>5 DEF PollingInv
<1>8. ASSUME NEW t \in Threads, OpenFails(t) PROVE PollingInv'
  <2>1. pc' = [pc EXCEPT ![t] = "idle"] /\ lock = t /\ ~driver' /\ ~stopped'
    BY <1>8, <1>a DEF OpenFails, LockHeld
  <2>2. \A u \in Threads : pc'[u] # "connecting"
    BY <1>8, <1>a, <2>1 DEF OpenFails, TypeOK, LockHeld
  <2> QED
    BY <2>1, <2>2 DEF PollingInv, PollingWanted, ConnectWanted, StoppedBare
<1>9. ASSUME NEW t \in Threads, ConnectDone(t) PROVE PollingInv'
  <2>1. pc' = [pc EXCEPT ![t] = "idle"] /\ pc[t] = "connecting" /\ lock = t
    BY <1>9, <1>a DEF ConnectDone, LockHeld
  <2>2. \A u \in Threads : pc'[u] \notin {"opening", "connecting"}
    BY <1>a, <2>1 DEF TypeOK, LockHeld
  <2>3. PollingWanted'
    <3>1. CASE start[t]
        BY <1>9, <3>1 DEF ConnectDone, TimerRequest, PollingWanted
    <3>2. CASE ~start[t]
      <4>1. UNCHANGED <<requested, driver, rate>>
        BY <1>9, <3>2 DEF ConnectDone
      <4>2. ~rate \/ requested \/ \E u \in Threads : pc[u] \in {"closing", "starting", "stopping"}
        BY <2>1, <3>2 DEF PollingInv, ConnectWanted
      <4>3. ASSUME NEW u \in Threads, pc[u] \in {"closing", "starting", "stopping"}
            PROVE  pc'[u] \in Deciding
        BY <4>3, <1>a, <2>1 DEF TypeOK, Deciding
      <4> QED
        BY <4>1, <4>2, <4>3 DEF PollingWanted
    <3> QED
        BY <3>1, <3>2
  <2>4. ConnectWanted' /\ StoppedBare'
    BY <1>9, <2>2 DEF ConnectDone, ConnectWanted, PollingInv, StoppedBare
  <2> QED
    BY <2>3, <2>4 DEF PollingInv
<1>10. ASSUME NEW t \in Threads, Disconnect(t) PROVE PollingInv'
  <2>1. pc' = [pc EXCEPT ![t] = "closing"] /\ pc[t] = "idle"
    BY <1>10 DEF Disconnect
  <2>2. pc'[t] = "closing"
    BY <1>a, <2>1 DEF TypeOK
  <2>3. PollingWanted'
    BY <2>2 DEF PollingWanted, Deciding
  <2>4. ConnectWanted'
    BY <1>10, <1>a, <2>1, <2>2 DEF Disconnect, TypeOK, PollingInv, ConnectWanted
  <2>5. StoppedBare'
    BY <1>10, <1>a, <2>1 DEF Disconnect, TypeOK, PollingInv, StoppedBare
  <2> QED
    BY <2>3, <2>4, <2>5 DEF PollingInv
<1>11. ASSUME NEW t \in Threads, DisconnectDone(t) PROVE PollingInv'
  <2>1. pc' = [pc EXCEPT ![t] = "idle"] /\ lock = None /\ ~driver' /\ ~stopped'
    BY <1>11 DEF DisconnectDone
  <2>2. \A u \in Threads : pc'[u] # "connecting"
    BY <1>a, <1>b, <2>1 DEF TypeOK, LockHeld
  <2> QED
    BY <2>1, <2>2 DEF PollingInv, PollingWanted, ConnectWanted, StoppedBare
<1>12. CASE DisablePolling
  <2>1. PollingWanted' /\ ConnectWanted' /\ StoppedBare'
    BY <1>12 DEF DisablePolling, PollingInv, PollingWanted, ConnectWanted, StoppedBare
  <2> QED
    BY <2>1 DEF PollingInv
<1>13. CASE EnablePolling
  <2>1. CASE driver /\ ~stopped
    <3>1. pc' = [pc EXCEPT ![Gui] = "starting"] /\ pc'[Gui] = "starting"
        BY <1>13, <1>a, <1>b, <2>1 DEF EnablePolling, TypeOK
    <3>2. PollingWanted'
        BY <1>b, <3>1 DEF PollingWanted, Deciding
    <3>3. ConnectWanted'
        BY <1>13, <1>a, <1>b, <2>1, <3>1 DEF EnablePolling, TypeOK, PollingInv, ConnectWanted
    <3>4. StoppedBare'
        BY <1>13, <2>1 DEF EnablePolling, StoppedBare
    <3> QED
        BY <3>2, <3>3, <3>4 DEF PollingInv
  <2>2. CASE ~(driver /\ ~stopped)
    <3>1. ~driver
        BY <2>2 DEF PollingInv, StoppedBare
    <3>2. \A t \in Threads : pc[t] # "connecting"
        BY <3>1 DEF PollingInv, ConnectWanted
    <3> QED
        BY <1>13, <2>2, <3>1, <3>2
        DEF EnablePolling, PollingInv, PollingWanted, ConnectWanted, StoppedBare
  <2> QED
    BY <2>1, <2>2
<1>14. CASE StartPolling
  <2>1. requested' /\ pc' = [pc EXCEPT ![Gui] = "idle"] /\ UNCHANGED <<session, start>>
    BY <1>14 DEF StartPolling, TimerRequest
  <2> QED
    BY <1>a, <2>1 DEF TypeOK, PollingInv, PollingWanted, ConnectWanted, StoppedBare
<1>15. CASE Shutdown
  <2>1. pc' = [pc EXCEPT ![Gui] = "stopping"] /\ pc'[Gui] = "stopping"
    BY <1>15, <1>a, <1>b DEF Shutdown, TypeOK
  <2>2. PollingWanted'
    BY <1>b, <2>1 DEF PollingWanted, Deciding
  <2>3. ConnectWanted'
    BY <1>15, <1>a, <1>b, <2>1 DEF Shutdown, TypeOK, PollingInv, ConnectWanted
  <2>4. StoppedBare'
    BY <1>15, <1>a, <2>1 DEF Shutdown, TypeOK, PollingInv, StoppedBare
  <2> QED
    BY <2>2, <2>3, <2>4 DEF PollingInv
<1>16. CASE ShutdownRelease
  <2>1. pc' = [pc EXCEPT ![Gui] = "joining"] /\ lock = None /\ ~driver'
    BY <1>16 DEF ShutdownRelease
  <2>2. \A u \in Threads : pc'[u] \notin {"opening", "connecting"}
    BY <1>a, <1>b, <2>1 DEF TypeOK, LockHeld
  <2> QED
    BY <2>1, <2>2 DEF PollingInv, PollingWanted, ConnectWanted, StoppedBare
<1> QED
    BY NextActions, <1>0, <1>1, <1>2, <1>3, <1>4, <1>5, <1>6, <1>7, <1>8, <1>9, <1>10, <1>11,
        <1>12, <1>13, <1>14, <1>15, <1>16

LEMMA PollingInvariant == Spec => []PollingInv
<1>1. Init => PollingInv
    BY DEF Init, PollingInv, PollingWanted, ConnectWanted, StoppedBare
<1>2. IInv /\ PollingInv /\ [Next]_vars => PollingInv'
    BY StepPolling
<1> QED
    BY Invariant, <1>1, <1>2, PTL DEF Spec

\* connect_instrument, disconnect_instrument, set_polling_rate and shutdown, whoever calls
\* them in whatever order: a connected engine with a rate keeps its timer running.
THEOREM PollingSurvives == Spec => []PollingContinues
<1>1. IInv /\ PollingInv => PollingContinues
  <2> SUFFICES ASSUME IInv, PollingInv, Quiet, driver, rate PROVE running
    BY DEF PollingContinues
  <2>1. requested
    BY DEF PollingInv, PollingWanted, Quiet, Deciding
  <2> QED
    BY <2>1 DEF IInv, TimerFollows, Quiet
<1> QED
    BY Invariant, PollingInvariant, <1>1, PTL

\* What a shutdown has done is undone by nobody, where the GUI thread alone disconnects.
LEMMA StepShutdown ==
    ASSUME Disconnecters \subseteq {Gui}, IInv, PollingInv, ShutdownInv, [Next]_vars
    PROVE  ShutdownInv'
<1> USE EngineAssumption DEF Goto, session, motion, sharing, polling, timer, locals
<1>a. TypeOK /\ LockHeld /\ WorkerPending /\ StoppedBare
    BY DEF IInv, PollingInv
<1>b. Gui \in Threads /\ Poller \in Threads /\ Gui # Poller
    BY DEF Threads
<1> DEFINE Ending(place) == place \in {"stopping", "joining", "down"}
<1>0. CASE UNCHANGED vars
    BY <1>0 DEF vars, ShutdownInv
<1>1. ASSUME NEW t \in Threads,
             Request(t) \/ Share(t) \/ StartRead(t) \/ ReadDevice(t) \/ ReadFails(t) \/ Return(t)
      PROVE  ShutdownInv'
  <2>1. UNCHANGED <<stopped, closed>> /\ (pending' => pending)
    BY <1>1, <1>a DEF Request, Share, StartRead, ReadDevice, ReadFails, Publish, Return, TypeOK
  <2>2. ~Ending(pc[t]) /\ ~Ending(pc'[t]) /\ pc'[t] # "closing"
    BY <1>1, <1>a DEF Request, Share, StartRead, ReadDevice, ReadFails, Publish, Return, TypeOK
  <2>3. \A u \in Threads \ {t} : pc'[u] = pc[u]
    BY <1>1, <1>a DEF Request, Share, StartRead, ReadDevice, ReadFails, Publish, Return, TypeOK
  <2> QED
    BY <1>b, <2>1, <2>2, <2>3 DEF ShutdownInv
<1>2. ASSUME NEW t \in Threads,
             Command(t) \/ CommandDone(t) \/ CommandFails(t) \/ Connect(t) \/ ConnectDone(t)
      PROVE  ShutdownInv'
  <2>1. UNCHANGED <<stopped, closed, pending>>
    BY <1>2 DEF Command, CommandDone, CommandFails, Connect, ConnectDone
  <2>2. ~Ending(pc[t]) /\ ~Ending(pc'[t]) /\ pc'[t] # "closing"
    BY <1>2, <1>a DEF Command, CommandDone, CommandFails, Connect, ConnectDone, TypeOK
  <2>3. \A u \in Threads \ {t} : pc'[u] = pc[u]
    BY <1>2, <1>a DEF Command, CommandDone, CommandFails, Connect, ConnectDone, TypeOK
  <2> QED
    BY <1>b, <2>1, <2>2, <2>3 DEF ShutdownInv
<1>3. ASSUME NEW t \in Threads, Opened(t) \/ OpenFails(t) PROVE ShutdownInv'
  <2>1. pc[t] = "opening" /\ UNCHANGED <<closed, pending>>
    BY <1>3 DEF Opened, OpenFails
  <2>2. ~stopped
    BY <1>a, <2>1 DEF StoppedBare
  <2>3. ~Ending(pc'[t]) /\ pc'[t] # "closing" /\ \A u \in Threads \ {t} : pc'[u] = pc[u]
    BY <1>3, <1>a DEF Opened, OpenFails, TypeOK
  <2> QED
    BY <1>b, <2>1, <2>2, <2>3 DEF ShutdownInv
<1>4. ASSUME NEW t \in Threads, Disconnect(t) \/ DisconnectDone(t) PROVE ShutdownInv'
  <2>1. t = Gui /\ UNCHANGED <<closed, pending>>
    BY <1>4 DEF Disconnect, DisconnectDone, ShutdownInv
  <2>2. ~Ending(pc'[Gui]) /\ \A u \in Threads \ {Gui} : pc'[u] = pc[u]
    BY <1>4, <1>a, <1>b, <2>1 DEF Disconnect, DisconnectDone, TypeOK
  <2> QED
    BY <1>b, <2>1, <2>2 DEF ShutdownInv
<1>5. CASE DeliverTimer
    BY <1>5 DEF DeliverTimer, ShutdownInv
<1>6. CASE Tick \/ SkipRead
  <2>1. UNCHANGED <<stopped, closed>> /\ (closed => ~pending')
    BY <1>6 DEF Tick, SkipRead
  <2>2. \A u \in Threads \ {Poller} : pc'[u] = pc[u]
    BY <1>6, <1>a DEF Tick, SkipRead, TypeOK
  <2>3. pc'[Poller] # "closing"
    BY <1>6, <1>a, <1>b DEF Tick, SkipRead, TypeOK
  <2> QED
    BY <1>b, <2>1, <2>2, <2>3 DEF ShutdownInv
<1>7. CASE DisablePolling \/ EnablePolling \/ StartPolling
  <2>1. UNCHANGED <<stopped, closed, pending>>
    BY <1>7 DEF DisablePolling, EnablePolling, StartPolling
  <2>2. ~Ending(pc'[Gui]) /\ \A u \in Threads \ {Gui} : pc'[u] = pc[u]
    BY <1>7, <1>a, <1>b DEF DisablePolling, EnablePolling, StartPolling, TypeOK
  <2> QED
    BY <1>b, <2>1, <2>2 DEF ShutdownInv
<1>8. CASE Shutdown
  <2>1. closed' /\ UNCHANGED <<stopped, pending>>
    BY <1>8 DEF Shutdown
  <2>2. pc'[Gui] = "stopping" /\ \A u \in Threads \ {Gui} : pc'[u] = pc[u]
    BY <1>8, <1>a, <1>b DEF Shutdown, TypeOK
  <2> QED
    BY <1>b, <2>1, <2>2 DEF ShutdownInv
<1>9. CASE ShutdownRelease
  <2>1. stopped' /\ pc[Gui] = "stopping" /\ UNCHANGED <<closed, pending>>
    BY <1>9 DEF ShutdownRelease
  <2>2. pc'[Gui] = "joining" /\ \A u \in Threads \ {Gui} : pc'[u] = pc[u]
    BY <1>9, <1>a, <1>b DEF ShutdownRelease, TypeOK
  <2> QED
    BY <1>b, <2>1, <2>2 DEF ShutdownInv
<1>10. CASE ShutdownJoin
  <2>1. ~pending /\ pc[Gui] = "joining" /\ UNCHANGED <<stopped, closed, pending>>
    BY <1>10 DEF ShutdownJoin
  <2>2. pc'[Gui] = "down" /\ \A u \in Threads \ {Gui} : pc'[u] = pc[u]
    BY <1>10, <1>a, <1>b DEF ShutdownJoin, TypeOK
  <2> QED
    BY <1>b, <2>1, <2>2 DEF ShutdownInv
<1> QED
    BY NextActions, <1>0, <1>1, <1>2, <1>3, <1>4, <1>5, <1>6, <1>7, <1>8, <1>9, <1>10

\* shutdown, where the GUI thread alone disconnects: when it has returned the engine has no
\* driver and no read under way, and no thread gives it either again.
THEOREM ShutdownStays ==
    ASSUME Disconnecters \subseteq {Gui}
    PROVE  Spec => []ShutdownIsFinal
<1>1. Init => ShutdownInv
    BY EngineAssumption DEF Init, ShutdownInv, Threads
<1>2. IInv /\ PollingInv /\ ShutdownInv /\ [Next]_vars => ShutdownInv'
    BY StepShutdown
<1>3. IInv /\ PollingInv /\ ShutdownInv => ShutdownIsFinal
    BY DEF IInv, PollingInv, ShutdownInv, StoppedBare, WorkerPending, ShutdownIsFinal
<1> QED
    BY Invariant, PollingInvariant, <1>1, <1>2, <1>3, PTL DEF Spec
=============================================================================
