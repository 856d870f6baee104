-------------------------- MODULE XrayEngineProofs --------------------------
(***************************************************************************)
(* Proofs about XrayEngine, for any number of callers, operations and      *)
(* steps of the driver.                                                    *)
(*                                                                         *)
(* IInv says who holds the engine lock and what holding it means: the      *)
(* driver cannot go away under an operation, a busy status has a thread    *)
(* behind it, and the operations launched before the last one have ended.  *)
(*                                                                         *)
(* The second part, about the instance Pressure of PressureEngine, is      *)
(* another engine with one lock and several callers.                       *)
(***************************************************************************)
EXTENDS XrayEngine, PressureState, TLAPS

Pressure == INSTANCE PressureEngine

\* Every step is one of these operations.
LEMMA NextActions ==
    ASSUME Next
    PROVE  \/ \E t \in Callers :
               \/ Cancel(t)
               \/ Read(t)
               \/ Want(t)
               \/ Disconnect(t)
               \/ Connect(t)
               \/ Refused(t)
               \/ Drained(t)
               \/ Opened(t)
               \/ Disconnected(t)
               \/ \E k \in Kinds : Launch(t, k) \/ Begin(t, k)
           \/ \E t \in Threads : Operate(t)
           \/ \E o \in Operations : BeginLaunched(o) \/ NoDriver(o) \/ EndLaunched(o)
           \/ DisablePolling
           \/ Demote
           \/ Shutdown
           \/ ShutdownCancel
           \/ ShutdownRelease
           \/ ShutdownMark
BY DEF Next, Finish, RunLaunched, GuiFinish, Threads

\* Callers are not operations, and no thread is None.
LEMMA ThreadKinds ==
    /\ Operations \subseteq Nat /\ Callers \cap Operations = {}
    /\ None \notin Threads /\ Gui \in Threads /\ Gui \notin Operations
BY XrayAssumption DEF Operations, Threads

\* The invariant holds at the start.
LEMMA InitInvariant == Init => IInv
<1> SUFFICES ASSUME Init PROVE IInv
    OBVIOUS
<1> USE XrayAssumption, ThreadKinds
<1>1. TypeOK
  <2>1. lock = None /\ status \in Statuses /\ ticket \in 0..MaxOperations /\ aimed \subseteq Operations
    BY DEF Init, Statuses
  <2>2. driver \in BOOLEAN /\ cancel \in BOOLEAN /\ moving \in BOOLEAN
    BY DEF Init
  <2>3. pc \in [Threads -> Places] /\ kind \in [Threads -> Kinds]
    BY DEF Init, Places, Kinds
  <2>4. left \in [Threads -> 0..Steps]
    <3>1. Steps \in 0..Steps
      OBVIOUS
    <3> QED
      BY <3>1 DEF Init
  <2> QED
    BY <2>1, <2>2, <2>3, <2>4 DEF TypeOK
<1>2. LockHeld
    BY DEF Init, LockHeld
<1>3. OneLaunched
    BY DEF Init, OneLaunched, Operations, Threads
<1>4. BusyIsDriving
    BY DEF Init, BusyIsDriving, Busy
<1> QED
    BY <1>1, <1>2, <1>3, <1>4 DEF IInv

\* Every operation keeps the invariant.
LEMMA StepInvariant == IInv /\ [Next]_vars => IInv'
<1> SUFFICES ASSUME IInv, [Next]_vars PROVE IInv'
    OBVIOUS
<1> USE XrayAssumption, ThreadKinds
<1>a. TypeOK
    BY DEF IInv
<1>b. LockHeld
    BY DEF IInv
<1>c. OneLaunched
    BY DEF IInv
<1>d. BusyIsDriving
    BY DEF IInv
<1>1. CASE \E t \in Callers : Cancel(t)
  <2>0. PICK t \in Callers : Cancel(t)
    BY <1>1
  <2> USE <2>0 DEF Cancel, CancelOperation, Threads, session, operation
  <2>1. TypeOK'
    BY <1>a DEF TypeOK, Statuses, Busy, Places, Kinds, Operations, Active
  <2>2. LockHeld'
    BY <1>a, <1>b DEF TypeOK, LockHeld
  <2>3. OneLaunched'
    BY <1>a, <1>c DEF TypeOK, OneLaunched
  <2>4. BusyIsDriving'
    BY <1>a, <1>b, <1>d DEF TypeOK, LockHeld, BusyIsDriving, Busy
  <2> QED
    BY <2>1, <2>2, <2>3, <2>4 DEF IInv
<1>2. CASE \E t \in Callers : Read(t)
  <2>0. PICK t \in Callers : Read(t)
    BY <1>2
  <2> USE <2>0 DEF Read, Goto, Threads, session, operation
  <2>1. TypeOK'
    BY <1>a DEF TypeOK, Statuses, Busy, Places, Kinds, Operations
  <2>2. LockHeld'
    BY <1>a, <1>b DEF TypeOK, LockHeld
  <2>3. OneLaunched'
    BY <1>a, <1>c DEF TypeOK, OneLaunched
  <2>4. BusyIsDriving'
    BY <1>a, <1>b, <1>d DEF TypeOK, LockHeld, BusyIsDriving, Busy
  <2> QED
    BY <2>1, <2>2, <2>3, <2>4 DEF IInv
<1>3. CASE \E t \in Callers : Want(t)
  <2>0. PICK t \in Callers : Want(t)
    BY <1>3
  <2> USE <2>0 DEF Want, Goto, Threads, session, operation
  <2>1. TypeOK'
    BY <1>a DEF TypeOK, Statuses, Busy, Places, Kinds, Operations
  <2>2. LockHeld'
    BY <1>a, <1>b DEF TypeOK, LockHeld
  <2>3. OneLaunched'
    BY <1>a, <1>c DEF TypeOK, OneLaunched
  <2>4. BusyIsDriving'
    BY <1>a, <1>b, <1>d DEF TypeOK, LockHeld, BusyIsDriving, Busy
  <2> QED
    BY <2>1, <2>2, <2>3, <2>4 DEF IInv
<1>4. CASE \E t \in Callers : Disconnect(t)
  <2>0. PICK t \in Callers : Disconnect(t)
    BY <1>4
  <2> USE <2>0 DEF Disconnect, CancelOperation, Goto, Threads, session, operation
  <2>1. TypeOK'
    BY <1>a DEF TypeOK, Statuses, Busy, Places, Kinds, Operations, Active
  <2>2. LockHeld'
    BY <1>a, <1>b DEF TypeOK, LockHeld
  <2>3. OneLaunched'
    BY <1>a, <1>c DEF TypeOK, OneLaunched
  <2>4. BusyIsDriving'
    BY <1>a, <1>b, <1>d DEF TypeOK, LockHeld, BusyIsDriving, Busy
  <2> QED
    BY <2>1, <2>2, <2>3, <2>4 DEF IInv
<1>5. CASE \E t \in Callers, k \in Kinds : Launch(t, k)
  <2>0. PICK t \in Callers, k \in Kinds : Launch(t, k)
    BY <1>5
  <2> USE <2>0 DEF Launch, Goto, Threads, session, operation
  <2>1. TypeOK'
    <3>1. moving' \in BOOLEAN
      BY Zenon, <1>a DEF TypeOK
    <3>2. lock' \in Threads \cup {None} /\ driver' \in BOOLEAN /\ status' \in Statuses
      BY <1>a DEF TypeOK, Statuses, Busy
    <3>3. cancel' \in BOOLEAN /\ ticket' \in 0..MaxOperations /\ aimed' \subseteq Operations
      <4>1. ticket \in 0..MaxOperations /\ ticket < MaxOperations /\ ticket' = ticket + 1
        BY <1>a DEF TypeOK
      <4>2. ticket' \in 0..MaxOperations
        BY <4>1
      <4> QED
        BY <4>2, <1>a DEF TypeOK
    <3>4. pc' \in [Threads -> Places]
      BY <1>a DEF TypeOK, Places
    <3>5. kind' \in [Threads -> Kinds]
      BY <1>a DEF TypeOK, Kinds
    <3>6. left' \in [Threads -> 0..Steps]
      BY <1>a DEF TypeOK
    <3> QED
      BY <3>1, <3>2, <3>3, <3>4, <3>5, <3>6 DEF TypeOK
  <2>2. LockHeld'
    BY <1>a, <1>b DEF TypeOK, LockHeld
  <2>3. OneLaunched'
    BY <1>a, <1>c DEF TypeOK, OneLaunched, Active, Operations
  <2>4. BusyIsDriving'
    BY <1>a, <1>b, <1>d DEF TypeOK, LockHeld, BusyIsDriving, Busy
  <2> QED
    BY <2>1, <2>2, <2>3, <2>4 DEF IInv
<1>6. CASE \E t \in Callers, k \in Kinds : Begin(t, k)
  <2>0. PICK t \in Callers, k \in Kinds : Begin(t, k)
    BY <1>6
  <2> USE <2>0 DEF Begin, Take, Goto, Threads, session, operation
  <2>1. TypeOK'
    <3>1. moving' \in BOOLEAN
      BY Zenon, <1>a DEF TypeOK
    <3>2. lock' \in Threads \cup {None} /\ driver' \in BOOLEAN /\ status' \in Statuses
      BY <1>a DEF TypeOK, Statuses, Busy
    <3>3. cancel' \in BOOLEAN /\ ticket' \in 0..MaxOperations /\ aimed' \subseteq Operations
      BY <1>a DEF TypeOK
    <3>4. pc' \in [Threads -> Places]
      BY <1>a DEF TypeOK, Places
    <3>5. kind' \in [Threads -> Kinds]
      BY <1>a DEF TypeOK, Kinds
    <3>6. left' \in [Threads -> 0..Steps]
      BY <1>a DEF TypeOK
    <3> QED
      BY <3>1, <3>2, <3>3, <3>4, <3>5, <3>6 DEF TypeOK
  <2>2. LockHeld'
    BY <1>a, <1>b DEF TypeOK, LockHeld
  <2>3. OneLaunched'
    BY <1>a, <1>c DEF TypeOK, OneLaunched
  <2>4. BusyIsDriving'
    BY <1>a, <1>b, <1>d DEF TypeOK, LockHeld, BusyIsDriving, Busy
  <2> QED
    BY <2>1, <2>2, <2>3, <2>4 DEF IInv
<1>7. CASE \E t \in Callers : Connect(t)
  <2>0. PICK t \in Callers : Connect(t)
    BY <1>7
  <2> USE <2>0 DEF Connect, CancelOperation, Goto, Threads, session, operation
  <2>1. TypeOK'
    BY <1>a DEF TypeOK, Statuses, Busy, Places, Kinds, Operations, Active
  <2>2. LockHeld'
    BY <1>a, <1>b DEF TypeOK, LockHeld
  <2>3. OneLaunched'
    BY <1>a, <1>c DEF TypeOK, OneLaunched
  <2>4. BusyIsDriving'
    BY <1>a, <1>b, <1>d DEF TypeOK, LockHeld, BusyIsDriving, Busy
  <2> QED
    BY <2>1, <2>2, <2>3, <2>4 DEF IInv
<1>8. CASE \E t \in Callers : Refused(t)
  <2>0. PICK t \in Callers : Refused(t)
    BY <1>8
  <2> USE <2>0 DEF Refused, Goto, Threads, session, operation
  <2>1. TypeOK'
    BY <1>a DEF TypeOK, Statuses, Busy, Places, Kinds, Operations
  <2>2. LockHeld'
    BY <1>a, <1>b DEF TypeOK, LockHeld
  <2>3. OneLaunched'
    BY <1>a, <1>c DEF TypeOK, OneLaunched
  <2>4. BusyIsDriving'
    BY <1>a, <1>b, <1>d DEF TypeOK, LockHeld, BusyIsDriving, Busy
  <2> QED
    BY <2>1, <2>2, <2>3, <2>4 DEF IInv
<1>9. CASE \E t \in Callers : Drained(t)
  <2>0. PICK t \in Callers : Drained(t)
    BY <1>9
  <2> USE <2>0 DEF Drained, Release, Goto, Threads, session, operation
  <2>1. TypeOK'
    BY <1>a DEF TypeOK, Statuses, Busy, Places, Kinds, Operations
  <2>2. LockHeld'
    BY <1>a, <1>b DEF TypeOK, LockHeld
  <2>3. OneLaunched'
    BY <1>a, <1>c DEF TypeOK, OneLaunched
  <2>4. BusyIsDriving'
    BY <1>a, <1>b, <1>d DEF TypeOK, LockHeld, BusyIsDriving, Busy
  <2> QED
    BY <2>1, <2>2, <2>3, <2>4 DEF IInv
<1>10. CASE \E t \in Callers : Opened(t)
  <2>0. PICK t \in Callers : Opened(t)
    BY <1>10
  <2> USE <2>0 DEF Opened, Goto, Threads, session, operation
  <2>1. TypeOK'
    BY <1>a DEF TypeOK, Statuses, Busy, Places, Kinds, Operations
  <2>2. LockHeld'
    BY <1>a, <1>b DEF TypeOK, LockHeld
  <2>3. OneLaunched'
    BY <1>a, <1>c DEF TypeOK, OneLaunched
  <2>4. BusyIsDriving'
    BY <1>a, <1>b, <1>d DEF TypeOK, LockHeld, BusyIsDriving, Busy
  <2> QED
    BY <2>1, <2>2, <2>3, <2>4 DEF IInv
<1>11. CASE \E t \in Callers : Disconnected(t)
  <2>0. PICK t \in Callers : Disconnected(t)
    BY <1>11
  <2> USE <2>0 DEF Disconnected, Release, Goto, Threads, session, operation
  <2>1. TypeOK'
    BY <1>a DEF TypeOK, Statuses, Busy, Places, Kinds, Operations
  <2>2. LockHeld'
    BY <1>a, <1>b DEF TypeOK, LockHeld
  <2>3. OneLaunched'
    BY <1>a, <1>c DEF TypeOK, OneLaunched
  <2>4. BusyIsDriving'
    BY <1>a, <1>b, <1>d DEF TypeOK, LockHeld, BusyIsDriving, Busy
  <2> QED
    BY <2>1, <2>2, <2>3, <2>4 DEF IInv
<1>12. CASE \E t \in Threads : Operate(t)
  <2>0. PICK t \in Threads : Operate(t)
    BY <1>12
  <2> USE <2>0 DEF Operate, Drive, Complete, Interrupt, Fail, Leave, Goto, Threads, session,
        operation
  <2>1. TypeOK'
    <3>1. moving' \in BOOLEAN
      BY Zenon, <1>a DEF TypeOK
    <3>2. lock' \in Threads \cup {None} /\ driver' \in BOOLEAN /\ status' \in Statuses
      BY <1>a DEF TypeOK, Statuses, Busy
    <3>3. cancel' \in BOOLEAN /\ ticket' \in 0..MaxOperations /\ aimed' \subseteq Operations
      BY <1>a DEF TypeOK
    <3>4. pc' \in [Threads -> Places]
      BY <1>a DEF TypeOK, Places
    <3>5. kind' \in [Threads -> Kinds]
      BY <1>a DEF TypeOK, Kinds
    <3>6. left' \in [Threads -> 0..Steps]
      BY <1>a DEF TypeOK
    <3> QED
      BY <3>1, <3>2, <3>3, <3>4, <3>5, <3>6 DEF TypeOK
  <2>2. LockHeld'
    BY <1>a, <1>b DEF TypeOK, LockHeld
  <2>3. OneLaunched'
    BY <1>a, <1>c DEF TypeOK, OneLaunched
  <2>4. BusyIsDriving'
    BY <1>a, <1>b, <1>d DEF TypeOK, LockHeld, BusyIsDriving, Busy
  <2> QED
    BY <2>1, <2>2, <2>3, <2>4 DEF IInv
<1>13. CASE \E o \in Operations : BeginLaunched(o)
  <2>0. PICK o \in Operations : BeginLaunched(o)
    BY <1>13
  <2> USE <2>0 DEF BeginLaunched, Take, Goto, Threads, session, operation
  <2>1. TypeOK'
    BY <1>a DEF TypeOK, Statuses, Busy, Places, Kinds, Operations
  <2>2. LockHeld'
    BY <1>a, <1>b DEF TypeOK, LockHeld
  <2>3. OneLaunched'
    BY <1>a, <1>c DEF TypeOK, OneLaunched
  <2>4. BusyIsDriving'
    BY <1>a, <1>b, <1>d DEF TypeOK, LockHeld, BusyIsDriving, Busy
  <2> QED
    BY <2>1, <2>2, <2>3, <2>4 DEF IInv
<1>14. CASE \E o \in Operations : NoDriver(o)
  <2>0. PICK o \in Operations : NoDriver(o)
    BY <1>14
  <2> USE <2>0 DEF NoDriver, Goto, Threads, session, operation
  <2>1. TypeOK'
    BY <1>a DEF TypeOK, Statuses, Busy, Places, Kinds, Operations
  <2>2. LockHeld'
    BY <1>a, <1>b DEF TypeOK, LockHeld
  <2>3. OneLaunched'
    BY <1>a, <1>c DEF TypeOK, OneLaunched
  <2>4. BusyIsDriving'
    BY <1>a, <1>b, <1>d DEF TypeOK, LockHeld, BusyIsDriving, Busy
  <2> QED
    BY <2>1, <2>2, <2>3, <2>4 DEF IInv
<1>15. CASE \E o \in Operations : EndLaunched(o)
  <2>0. PICK o \in Operations : EndLaunched(o)
    BY <1>15
  <2> USE <2>0 DEF EndLaunched, Goto, Threads, session, operation
  <2>1. TypeOK'
    BY <1>a DEF TypeOK, Statuses, Busy, Places, Kinds, Operations
  <2>2. LockHeld'
    BY <1>a, <1>b DEF TypeOK, LockHeld
  <2>3. OneLaunched'
    BY <1>a, <1>c DEF TypeOK, OneLaunched
  <2>4. BusyIsDriving'
    BY <1>a, <1>b, <1>d DEF TypeOK, LockHeld, BusyIsDriving, Busy
  <2> QED
    BY <2>1, <2>2, <2>3, <2>4 DEF IInv
<1>16. CASE DisablePolling
  <2> USE <1>16 DEF DisablePolling, Goto, Threads, session, operation
  <2>1. TypeOK'
    BY <1>a DEF TypeOK, Statuses, Busy, Places, Kinds, Operations
  <2>2. LockHeld'
    BY <1>a, <1>b DEF TypeOK, LockHeld
  <2>3. OneLaunched'
    BY <1>a, <1>c DEF TypeOK, OneLaunched
  <2>4. BusyIsDriving'
    BY <1>a, <1>b, <1>d DEF TypeOK, LockHeld, BusyIsDriving, Busy
  <2> QED
    BY <2>1, <2>2, <2>3, <2>4 DEF IInv
<1>17. CASE Demote
  <2> USE <1>17 DEF Demote, Goto, Threads, session, operation
  <2>1. TypeOK'
    BY <1>a DEF TypeOK, Statuses, Busy, Places, Kinds, Operations
  <2>2. LockHeld'
    BY <1>a, <1>b DEF TypeOK, LockHeld
  <2>3. OneLaunched'
    BY <1>a, <1>c DEF TypeOK, OneLaunched
  <2>4. BusyIsDriving'
    BY <1>a, <1>b, <1>d DEF TypeOK, LockHeld, BusyIsDriving, Busy
  <2> QED
    BY <2>1, <2>2, <2>3, <2>4 DEF IInv
<1>18. CASE Shutdown
  <2> USE <1>18 DEF Shutdown, CancelOperation, Goto, Threads, session, operation
  <2>1. TypeOK'
    BY <1>a DEF TypeOK, Statuses, Busy, Places, Kinds, Operations, Active
  <2>2. LockHeld'
    BY <1>a, <1>b DEF TypeOK, LockHeld
  <2>3. OneLaunched'
    BY <1>a, <1>c DEF TypeOK, OneLaunched
  <2>4. BusyIsDriving'
    BY <1>a, <1>b, <1>d DEF TypeOK, LockHeld, BusyIsDriving, Busy
  <2> QED
    BY <2>1, <2>2, <2>3, <2>4 DEF IInv
<1>19. CASE ShutdownCancel
  <2> USE <1>19 DEF ShutdownCancel, CancelOperation, Goto, Threads, session, operation
  <2>1. TypeOK'
    BY <1>a DEF TypeOK, Statuses, Busy, Places, Kinds, Operations, Active
  <2>2. LockHeld'
    BY <1>a, <1>b DEF TypeOK, LockHeld
  <2>3. OneLaunched'
    BY <1>a, <1>c DEF TypeOK, OneLaunched
  <2>4. BusyIsDriving'
    BY <1>a, <1>b, <1>d DEF TypeOK, LockHeld, BusyIsDriving, Busy
  <2> QED
    BY <2>1, <2>2, <2>3, <2>4 DEF IInv
<1>20. CASE ShutdownRelease
  <2> USE <1>20 DEF ShutdownRelease, Release, Goto, Threads, session, operation
  <2>1. TypeOK'
    BY <1>a DEF TypeOK, Statuses, Busy, Places, Kinds, Operations
  <2>2. LockHeld'
    BY <1>a, <1>b DEF TypeOK, LockHeld
  <2>3. OneLaunched'
    BY <1>a, <1>c DEF TypeOK, OneLaunched
  <2>4. BusyIsDriving'
    BY <1>a, <1>b, <1>d DEF TypeOK, LockHeld, BusyIsDriving, Busy
  <2> QED
    BY <2>1, <2>2, <2>3, <2>4 DEF IInv
<1>21. CASE ShutdownMark
  <2> USE <1>21 DEF ShutdownMark, Goto, Threads, session, operation
  <2>1. TypeOK'
    BY <1>a DEF TypeOK, Statuses, Busy, Places, Kinds, Operations
  <2>2. LockHeld'
    BY <1>a, <1>b DEF TypeOK, LockHeld
  <2>3. OneLaunched'
    BY <1>a, <1>c DEF TypeOK, OneLaunched
  <2>4. BusyIsDriving'
    BY <1>a, <1>b, <1>d DEF TypeOK, LockHeld, BusyIsDriving, Busy
  <2> QED
    BY <2>1, <2>2, <2>3, <2>4 DEF IInv
<1>22. CASE UNCHANGED vars
    BY <1>22, <1>a, <1>b, <1>c, <1>d DEF vars, session, operation, IInv, TypeOK, LockHeld,
        OneLaunched, BusyIsDriving
<1> QED
    BY NextActions, <1>1, <1>2, <1>3, <1>4, <1>5, <1>6, <1>7, <1>8, <1>9, <1>10, <1>11,
        <1>12, <1>13, <1>14, <1>15, <1>16, <1>17, <1>18, <1>19, <1>20, <1>21, <1>22

\* The inductive invariant holds in every reachable state.
THEOREM Invariant == Spec => []IInv
<1> QED
    BY InitInvariant, StepInvariant, PTL DEF Spec

\* The variables keep their types: the engine, its threads and their operations.
THEOREM TypeCorrect == Spec => []TypeOK
<1>1. IInv => TypeOK
    BY DEF IInv
<1> QED
    BY Invariant, <1>1, PTL

\* move_to, count: an engine that shows a motion or a count has a thread at the driver.
THEOREM BusyHasDriver == Spec => []BusyIsDriving
<1>1. IInv => BusyIsDriving
    BY DEF IInv
<1> QED
    BY Invariant, <1>1, PTL

\* cancel_operation takes no lock, and the event is cleared only by a thread that holds it:
\* a cancel that finds an operation at the driver is not lost, and stops it.
THEOREM CancelIsHeard == Spec => CancelHeard
<1>1. IInv /\ [Next]_vars =>
        [\A t \in Threads : pc[t] = "driving" /\ cancel =>
            left'[t] = left[t] /\ (pc'[t] = "driving" => cancel')]_vars
  <2> SUFFICES ASSUME IInv, Next, NEW u \in Threads, pc[u] = "driving", cancel
               PROVE  left'[u] = left[u] /\ (pc'[u] = "driving" => cancel')
    OBVIOUS
  <2> USE XrayAssumption, ThreadKinds
  <2>a. TypeOK
    BY DEF IInv
  <2>b. lock = u /\ lock # None
    BY <2>a DEF IInv, LockHeld
  <2>1. CASE \E t \in Callers : Cancel(t)
    BY <2>1, <2>a, <2>b DEF Cancel, CancelOperation, session, operation, TypeOK, Threads
  <2>2. CASE \E t \in Callers : Read(t)
    BY <2>2, <2>a, <2>b DEF Read, Goto, session, operation, TypeOK, Threads
  <2>3. CASE \E t \in Callers : Want(t)
    BY <2>3, <2>a, <2>b DEF Want, Goto, session, operation, TypeOK, Threads
  <2>4. CASE \E t \in Callers : Disconnect(t)
    BY <2>4, <2>a, <2>b DEF Disconnect, CancelOperation, Goto, session, operation, TypeOK,
        Threads
  <2>5. CASE \E t \in Callers, k \in Kinds : Launch(t, k)
    BY <2>5, <2>a, <2>b DEF Launch, Goto, session, operation, TypeOK, Threads
  <2>6. CASE \E t \in Callers, k \in Kinds : Begin(t, k)
    BY <2>6, <2>a, <2>b DEF Begin, Take, Goto, session, operation, TypeOK, Threads
  <2>7. CASE \E t \in Callers : Connect(t)
    BY <2>7, <2>a, <2>b DEF Connect, CancelOperation, Goto, session, operation, TypeOK, Threads
  <2>8. CASE \E t \in Callers : Refused(t)
    BY <2>8, <2>a, <2>b DEF Refused, Goto, session, operation, TypeOK, Threads
  <2>9. CASE \E t \in Callers : Drained(t)
    BY <2>9, <2>a, <2>b DEF Drained, Release, Goto, session, operation, TypeOK, Threads
  <2>10. CASE \E t \in Callers : Opened(t)
    BY <2>10, <2>a, <2>b DEF Opened, Goto, session, operation, TypeOK, Threads
  <2>11. CASE \E t \in Callers : Disconnected(t)
    BY <2>11, <2>a, <2>b DEF Disconnected, Release, Goto, session, operation, TypeOK, Threads
  <2>12. CASE \E t \in Threads : Operate(t)
    BY <2>12, <2>a, <2>b DEF Operate, Drive, Complete, Interrupt, Fail, Leave, Goto,
        session, operation, TypeOK, Threads
  <2>13. CASE \E o \in Operations : BeginLaunched(o)
    BY <2>13, <2>a, <2>b DEF BeginLaunched, Take, Goto, session, operation, TypeOK, Threads
  <2>14. CASE \E o \in Operations : NoDriver(o)
    BY <2>14, <2>a, <2>b DEF NoDriver, Goto, session, operation, TypeOK, Threads
  <2>15. CASE \E o \in Operations : EndLaunched(o)
    BY <2>15, <2>a, <2>b DEF EndLaunched, Goto, session, operation, TypeOK, Threads
  <2>16. CASE DisablePolling
    BY <2>16, <2>a, <2>b DEF DisablePolling, Goto, session, operation, TypeOK, Threads
  <2>17. CASE Demote
    BY <2>17, <2>a, <2>b DEF Demote, Goto, session, operation, TypeOK, Threads
  <2>18. CASE Shutdown
    BY <2>18, <2>a, <2>b DEF Shutdown, CancelOperation, Goto, session, operation, TypeOK,
        Threads
  <2>19. CASE ShutdownCancel
    BY <2>19, <2>a, <2>b DEF ShutdownCancel, CancelOperation, Goto, session, operation,
        TypeOK, Threads
  <2>20. CASE ShutdownRelease
    BY <2>20, <2>a, <2>b DEF ShutdownRelease, Release, Goto, session, operation, TypeOK,
        Threads
  <2>21. CASE ShutdownMark
    BY <2>21, <2>a, <2>b DEF ShutdownMark, Goto, session, operation, TypeOK, Threads
  <2> QED
    BY NextActions, <2>1, <2>2, <2>3, <2>4, <2>5, <2>6, <2>7, <2>8, <2>9, <2>10, <2>11, <2>12,
        <2>13, <2>14, <2>15, <2>16, <2>17, <2>18, <2>19, <2>20, <2>21
<1> QED
    BY Invariant, <1>1, PTL DEF Spec, CancelHeard

-----------------------------------------------------------------------------
(***************************************************************************)
(* The pressure engine, for every set of flows, of readers and of timer    *)
(* notifications.  It stands here as an instance: its theorems assume what *)
(* PressureEngine assumes of its constants.                                *)
(***************************************************************************)
\* Every step of the pressure engine keeps the types of what a thread has in hand, ...
LEMMA PressureThreads ==
    ASSUME Pressure!PressureAssumption, Pressure!IInv, [Pressure!Next]_(Pressure!vars)
    PROVE  Pressure!ThreadTypes'
<1> USE DEF Pressure!PressureAssumption, Pressure!Users, Pressure!Threads, Pressure!Devices
<1>1. ASSUME NEW t \in Pressure!Users, NEW d \in Pressure!Devices, Pressure!Misconfigured(t, d) PROVE Pressure!ThreadTypes'
    BY <1>1 DEF Pressure!Misconfigured, Pressure!Free, Pressure!Blame, Pressure!Hold,
       Pressure!Goto, Pressure!session, Pressure!timer, Pressure!device, Pressure!flows,
       Pressure!command, Pressure!IInv, Pressure!TypeOK, Pressure!ThreadTypes,
       Pressure!Places, Pressure!Locking, Pressure!Commanding, Pressure!TimerTypes
<1>2. ASSUME NEW t \in Pressure!Users, NEW d \in Pressure!Devices, Pressure!Connect(t, d) PROVE Pressure!ThreadTypes'
    BY <1>2 DEF Pressure!Connect, Pressure!Free, Pressure!RoomForTimer,
       Pressure!TimerRequest, Pressure!Goto, Pressure!Hold, Pressure!session,
       Pressure!flags, Pressure!device, Pressure!flows, Pressure!command, Pressure!IInv,
       Pressure!TypeOK, Pressure!ThreadTypes, Pressure!Places, Pressure!Locking,
       Pressure!Commanding
<1>3. ASSUME NEW t \in Pressure!Users, Pressure!OpenFails(t) PROVE Pressure!ThreadTypes'
    BY <1>3 DEF Pressure!OpenFails, Pressure!Flag, Pressure!Goto, Pressure!timer,
       Pressure!device, Pressure!flows, Pressure!locals, Pressure!command, Pressure!IInv,
       Pressure!TypeOK, Pressure!ThreadTypes, Pressure!Places, Pressure!Locking,
       Pressure!Commanding
<1>4. ASSUME NEW t \in Pressure!Users, Pressure!Opened(t) PROVE Pressure!ThreadTypes'
    BY <1>4 DEF Pressure!Opened, Pressure!Unflag, Pressure!Goto, Pressure!timer,
       Pressure!device, Pressure!flows, Pressure!command, Pressure!IInv, Pressure!TypeOK,
       Pressure!ThreadTypes, Pressure!Places, Pressure!Locking, Pressure!Commanding
<1>5. ASSUME NEW t \in Pressure!Users, Pressure!ConnectDone(t) PROVE Pressure!ThreadTypes'
    BY <1>5 DEF Pressure!ConnectDone, Pressure!TimerStart, Pressure!NoTimer, Pressure!Hold,
       Pressure!Goto, Pressure!session, Pressure!flags, Pressure!device, Pressure!flows,
       Pressure!command, Pressure!TimerRequest, Pressure!timer, Pressure!IInv,
       Pressure!TypeOK, Pressure!ThreadTypes, Pressure!Places, Pressure!Locking,
       Pressure!Commanding
<1>6. ASSUME NEW t \in Pressure!Users, Pressure!Refused(t) PROVE Pressure!ThreadTypes'
    BY <1>6 DEF Pressure!Refused, Pressure!Blame, Pressure!Hold, Pressure!Goto,
       Pressure!session, Pressure!timer, Pressure!device, Pressure!flows, Pressure!command,
       Pressure!IInv, Pressure!TypeOK, Pressure!ThreadTypes, Pressure!Places,
       Pressure!Locking, Pressure!Commanding, Pressure!TimerTypes
<1>7. ASSUME NEW t \in Pressure!Users, Pressure!SetStatus(t) PROVE Pressure!ThreadTypes'
    BY <1>7 DEF Pressure!SetStatus, Pressure!Goto, Pressure!flags, Pressure!timer,
       Pressure!device, Pressure!flows, Pressure!command, Pressure!IInv, Pressure!TypeOK,
       Pressure!ThreadTypes, Pressure!Places, Pressure!Locking, Pressure!Commanding
<1>8. ASSUME NEW t \in Pressure!Threads, Pressure!Read(t) PROVE Pressure!ThreadTypes'
    BY <1>8 DEF Pressure!Read, Pressure!BeginRead, Pressure!Goto, Pressure!session,
       Pressure!flags, Pressure!timer, Pressure!device, Pressure!flows, Pressure!command,
       Pressure!IInv, Pressure!TypeOK, Pressure!ThreadTypes, Pressure!Places,
       Pressure!Locking, Pressure!Commanding
<1>9. ASSUME NEW t \in Pressure!Threads, Pressure!ReadDone(t) PROVE Pressure!ThreadTypes'
    BY <1>9 DEF Pressure!ReadDone, Pressure!MfcValues, Pressure!Publish, Pressure!Goto,
       Pressure!session, Pressure!timer, Pressure!device, Pressure!IInv, Pressure!TypeOK,
       Pressure!ThreadTypes, Pressure!Places, Pressure!Locking, Pressure!Commanding
<1>10. ASSUME NEW d \in Pressure!Devices, Pressure!Disconnect(d) PROVE Pressure!ThreadTypes'
    BY <1>10 DEF Pressure!Disconnect, Pressure!Free, Pressure!TimerRequest, Pressure!Goto,
       Pressure!Hold, Pressure!session, Pressure!flags, Pressure!device, Pressure!flows,
       Pressure!command, Pressure!IInv, Pressure!TypeOK, Pressure!ThreadTypes,
       Pressure!Places, Pressure!Locking, Pressure!Commanding
<1>11. ASSUME NEW d \in Pressure!Devices, Pressure!DisconnectDone(d) PROVE Pressure!ThreadTypes'
    BY <1>11 DEF Pressure!DisconnectDone, Pressure!Unflag, Pressure!ForgetFlow,
       Pressure!flows, Pressure!Restart, Pressure!Hold, Pressure!Goto, Pressure!device,
       Pressure!TimerStart, Pressure!NoTimer, Pressure!TimerRequest, Pressure!timer,
       Pressure!IInv, Pressure!TypeOK, Pressure!ThreadTypes, Pressure!Places,
       Pressure!Locking, Pressure!Commanding
<1>12. CASE Pressure!DisablePolling
    BY <1>12 DEF Pressure!DisablePolling, Pressure!Free, Pressure!TimerRequest,
       Pressure!Goto, Pressure!flags, Pressure!device, Pressure!flows, Pressure!command,
       Pressure!IInv, Pressure!TypeOK, Pressure!ThreadTypes, Pressure!Places,
       Pressure!Locking, Pressure!Commanding, Pressure!TimerTypes
<1>13. CASE Pressure!EnablePolling
    BY <1>13 DEF Pressure!EnablePolling, Pressure!Free, Pressure!Goto, Pressure!flags,
       Pressure!timer, Pressure!device, Pressure!flows, Pressure!locals, Pressure!command,
       Pressure!IInv, Pressure!TypeOK, Pressure!ThreadTypes, Pressure!Places,
       Pressure!Locking, Pressure!Commanding
<1>14. CASE Pressure!StartPolling
    BY <1>14 DEF Pressure!StartPolling, Pressure!TimerStart, Pressure!Goto,
       Pressure!session, Pressure!flags, Pressure!device, Pressure!flows, Pressure!locals,
       Pressure!command, Pressure!TimerRequest, Pressure!IInv, Pressure!TypeOK,
       Pressure!ThreadTypes, Pressure!Places, Pressure!Locking, Pressure!Commanding
<1>15. CASE Pressure!Shutdown
    BY <1>15 DEF Pressure!Shutdown, Pressure!Free, Pressure!TimerRequest, Pressure!Goto,
       Pressure!flags, Pressure!device, Pressure!flows, Pressure!locals, Pressure!command,
       Pressure!IInv, Pressure!TypeOK, Pressure!ThreadTypes, Pressure!Places,
       Pressure!Locking, Pressure!Commanding
<1>16. CASE Pressure!ShutdownRelease
    BY <1>16 DEF Pressure!ShutdownRelease, Pressure!ForgetFlow, Pressure!Goto,
       Pressure!timer, Pressure!device, Pressure!locals, Pressure!IInv, Pressure!TypeOK,
       Pressure!ThreadTypes, Pressure!Places, Pressure!Locking, Pressure!Commanding
<1>17. ASSUME NEW v \in Flows, Pressure!PanelFlow(v) PROVE Pressure!ThreadTypes'
    BY <1>17 DEF Pressure!PanelFlow, Pressure!Free, Pressure!Program, Pressure!ProgramFails,
       Pressure!session, Pressure!flags, Pressure!timer, Pressure!locals, Pressure!flows,
       Pressure!IInv, Pressure!TypeOK, Pressure!ThreadTypes, Pressure!Places,
       Pressure!Locking, Pressure!Commanding
<1>18. ASSUME NEW v \in Flows, Pressure!SetFlow(v) PROVE Pressure!ThreadTypes'
    BY <1>18 DEF Pressure!SetFlow, Pressure!Free, Pressure!Goto, Pressure!session,
       Pressure!flags, Pressure!timer, Pressure!device, Pressure!flows, Pressure!locals,
       Pressure!IInv, Pressure!TypeOK, Pressure!ThreadTypes, Pressure!Places,
       Pressure!Locking, Pressure!Commanding
<1>19. CASE Pressure!WorkerCommand
    BY <1>19 DEF Pressure!WorkerCommand, Pressure!Program, Pressure!Goto,
       Pressure!ProgramFails, Pressure!EndCommand, Pressure!flows, Pressure!session,
       Pressure!flags, Pressure!timer, Pressure!locals, Pressure!IInv, Pressure!TypeOK,
       Pressure!ThreadTypes, Pressure!Places, Pressure!Locking, Pressure!Commanding
<1>20. CASE Pressure!Mark
    BY <1>20 DEF Pressure!Mark, Pressure!Goto, Pressure!session, Pressure!flags,
       Pressure!timer, Pressure!device, Pressure!flows, Pressure!locals, Pressure!IInv,
       Pressure!TypeOK, Pressure!ThreadTypes, Pressure!Places, Pressure!Locking,
       Pressure!Commanding
<1>21. CASE Pressure!ReadFlow
    BY <1>21 DEF Pressure!ReadFlow, Pressure!BeginRead, Pressure!Goto, Pressure!session,
       Pressure!flags, Pressure!timer, Pressure!device, Pressure!flows, Pressure!command,
       Pressure!IInv, Pressure!TypeOK, Pressure!ThreadTypes, Pressure!Places,
       Pressure!Locking, Pressure!Commanding
<1>22. CASE Pressure!Answer
    BY <1>22 DEF Pressure!Answer, Pressure!flags, Pressure!Unflag, Pressure!Flag,
       Pressure!MfcValues, Pressure!Judge, Pressure!EndCommand, Pressure!session,
       Pressure!timer, Pressure!device, Pressure!Goto, Pressure!IInv, Pressure!TypeOK,
       Pressure!ThreadTypes, Pressure!Places, Pressure!Locking, Pressure!Commanding
<1>23. CASE Pressure!Reached
    BY <1>23 DEF Pressure!Reached, Pressure!EndCommand, Pressure!session, Pressure!flags,
       Pressure!timer, Pressure!device, Pressure!flows, Pressure!locals, Pressure!Goto,
       Pressure!IInv, Pressure!TypeOK, Pressure!ThreadTypes, Pressure!Places,
       Pressure!Locking, Pressure!Commanding
<1>24. CASE Pressure!TakeNews
    BY <1>24 DEF Pressure!TakeNews, Pressure!Judge, Pressure!EndCommand, Pressure!session,
       Pressure!flags, Pressure!timer, Pressure!device, Pressure!flows, Pressure!locals,
       Pressure!Goto, Pressure!IInv, Pressure!TypeOK, Pressure!ThreadTypes, Pressure!Places,
       Pressure!Locking, Pressure!Commanding
<1>25. CASE Pressure!ReadAgain
    BY <1>25 DEF Pressure!ReadAgain, Pressure!Goto, Pressure!session, Pressure!flags,
       Pressure!timer, Pressure!device, Pressure!flows, Pressure!locals, Pressure!command,
       Pressure!IInv, Pressure!TypeOK, Pressure!ThreadTypes, Pressure!Places,
       Pressure!Locking, Pressure!Commanding
<1>26. CASE Pressure!Interrupt
    BY <1>26 DEF Pressure!Interrupt, Pressure!Hold, Pressure!EndCommand, Pressure!session,
       Pressure!flags, Pressure!timer, Pressure!device, Pressure!flows, Pressure!Goto,
       Pressure!IInv, Pressure!TypeOK, Pressure!ThreadTypes, Pressure!Places,
       Pressure!Locking, Pressure!Commanding
<1>27. CASE Pressure!Move \/ Pressure!DeliverTimer
    BY <1>27 DEF Pressure!Move, Pressure!session, Pressure!flags, Pressure!timer,
       Pressure!flows, Pressure!locals, Pressure!DeliverTimer, Pressure!device,
       Pressure!command, Pressure!IInv, Pressure!TypeOK, Pressure!ThreadTypes,
       Pressure!Places, Pressure!Locking, Pressure!Commanding
<1>28. CASE UNCHANGED Pressure!vars
    BY <1>28 DEF Pressure!vars, Pressure!session, Pressure!flags, Pressure!timer,
       Pressure!device, Pressure!flows, Pressure!locals, Pressure!command, Pressure!IInv,
       Pressure!TypeOK, Pressure!ThreadTypes, Pressure!Places, Pressure!Locking,
       Pressure!Commanding
<1> QED
    BY <1>1, <1>2, <1>3, <1>4, <1>5, <1>6, <1>7, <1>8, <1>9, <1>10, <1>11, <1>12, <1>13,
       <1>14, <1>15, <1>16, <1>17, <1>18, <1>19, <1>20, <1>21, <1>22, <1>23, <1>24, <1>25,
       <1>26, <1>27, <1>28 DEF Pressure!Next, Pressure!ConnectStep, Pressure!GuiStep,
       Pressure!WorkerStep

\* ... of the flows, ...
LEMMA PressureFlows ==
    ASSUME Pressure!PressureAssumption, Pressure!IInv, [Pressure!Next]_(Pressure!vars)
    PROVE  Pressure!FlowTypes'
<1> USE DEF Pressure!PressureAssumption, Pressure!Users, Pressure!Threads, Pressure!Devices
<1>1. CASE Pressure!Move
    BY <1>1 DEF Pressure!Move, Pressure!session, Pressure!flags, Pressure!timer,
       Pressure!flows, Pressure!locals, Pressure!IInv, Pressure!TypeOK, Pressure!FlowTypes
<1>2. ASSUME NEW t \in Pressure!Threads, Pressure!Read(t) PROVE Pressure!FlowTypes'
    BY <1>2 DEF Pressure!Read, Pressure!BeginRead, Pressure!Goto, Pressure!session,
       Pressure!flags, Pressure!timer, Pressure!device, Pressure!flows, Pressure!command,
       Pressure!IInv, Pressure!TypeOK, Pressure!FlowTypes
<1>3. ASSUME NEW t \in Pressure!Threads, Pressure!ReadDone(t) PROVE Pressure!FlowTypes'
    BY <1>3 DEF Pressure!ReadDone, Pressure!MfcValues, Pressure!Publish, Pressure!Goto,
       Pressure!session, Pressure!timer, Pressure!device, Pressure!IInv, Pressure!TypeOK,
       Pressure!FlowTypes
<1>4. ASSUME NEW d \in Pressure!Devices, Pressure!DisconnectDone(d) PROVE Pressure!FlowTypes'
    BY <1>4 DEF Pressure!DisconnectDone, Pressure!Unflag, Pressure!ForgetFlow,
       Pressure!flows, Pressure!Restart, Pressure!Hold, Pressure!Goto, Pressure!device,
       Pressure!TimerStart, Pressure!NoTimer, Pressure!TimerRequest, Pressure!timer,
       Pressure!IInv, Pressure!TypeOK, Pressure!FlowTypes
<1>5. CASE Pressure!ShutdownRelease
    BY <1>5 DEF Pressure!ShutdownRelease, Pressure!ForgetFlow, Pressure!Goto,
       Pressure!timer, Pressure!device, Pressure!locals, Pressure!IInv, Pressure!TypeOK,
       Pressure!FlowTypes
<1>6. ASSUME NEW v \in Flows, Pressure!PanelFlow(v) PROVE Pressure!FlowTypes'
    BY <1>6 DEF Pressure!PanelFlow, Pressure!Free, Pressure!Program, Pressure!ProgramFails,
       Pressure!session, Pressure!flags, Pressure!timer, Pressure!locals, Pressure!flows,
       Pressure!IInv, Pressure!TypeOK, Pressure!FlowTypes
<1>7. ASSUME NEW v \in Flows, Pressure!SetFlow(v) PROVE Pressure!FlowTypes'
    BY <1>7 DEF Pressure!SetFlow, Pressure!Free, Pressure!Goto, Pressure!session,
       Pressure!flags, Pressure!timer, Pressure!device, Pressure!flows, Pressure!locals,
       Pressure!IInv, Pressure!TypeOK, Pressure!FlowTypes
<1>8. CASE Pressure!WorkerCommand
    BY <1>8 DEF Pressure!WorkerCommand, Pressure!Program, Pressure!Goto,
       Pressure!ProgramFails, Pressure!EndCommand, Pressure!flows, Pressure!session,
       Pressure!flags, Pressure!timer, Pressure!locals, Pressure!IInv, Pressure!TypeOK,
       Pressure!FlowTypes, Pressure!CommandInv, Pressure!Commanding
<1>9. CASE Pressure!Mark
    BY <1>9 DEF Pressure!Mark, Pressure!Goto, Pressure!session, Pressure!flags,
       Pressure!timer, Pressure!device, Pressure!flows, Pressure!locals, Pressure!IInv,
       Pressure!TypeOK, Pressure!FlowTypes
<1>10. CASE Pressure!ReadFlow
    BY <1>10 DEF Pressure!ReadFlow, Pressure!BeginRead, Pressure!Goto, Pressure!session,
       Pressure!flags, Pressure!timer, Pressure!device, Pressure!flows, Pressure!command,
       Pressure!IInv, Pressure!TypeOK, Pressure!FlowTypes
<1>11. CASE Pressure!Answer
    BY <1>11 DEF Pressure!Answer, Pressure!flags, Pressure!Unflag, Pressure!Flag,
       Pressure!MfcValues, Pressure!Judge, Pressure!EndCommand, Pressure!session,
       Pressure!timer, Pressure!device, Pressure!Goto, Pressure!IInv, Pressure!TypeOK,
       Pressure!FlowTypes
<1>12. CASE Pressure!TakeNews
    BY <1>12 DEF Pressure!TakeNews, Pressure!Judge, Pressure!EndCommand, Pressure!session,
       Pressure!flags, Pressure!timer, Pressure!device, Pressure!flows, Pressure!locals,
       Pressure!Goto, Pressure!IInv, Pressure!TypeOK, Pressure!FlowTypes
<1>13. CASE Pressure!Interrupt
    BY <1>13 DEF Pressure!Interrupt, Pressure!Hold, Pressure!EndCommand, Pressure!session,
       Pressure!flags, Pressure!timer, Pressure!device, Pressure!flows, Pressure!Goto,
       Pressure!IInv, Pressure!TypeOK, Pressure!FlowTypes
<1>14. CASE Pressure!DeliverTimer
           \/ (\E t \in Pressure!Users, d \in Pressure!Devices : Pressure!Misconfigured(t, d))
           \/ (\E t \in Pressure!Users, d \in Pressure!Devices : Pressure!Connect(t, d))
           \/ (\E t \in Pressure!Users : Pressure!OpenFails(t))
    BY <1>14 DEF Pressure!DeliverTimer, Pressure!session, Pressure!flags, Pressure!device,
       Pressure!flows, Pressure!locals, Pressure!command, Pressure!Misconfigured,
       Pressure!Free, Pressure!Blame, Pressure!Hold, Pressure!Goto, Pressure!timer,
       Pressure!Connect, Pressure!RoomForTimer, Pressure!TimerRequest, Pressure!OpenFails,
       Pressure!Flag, Pressure!IInv, Pressure!TypeOK, Pressure!FlowTypes
<1>15. CASE (\E t \in Pressure!Users : Pressure!Opened(t))
           \/ (\E t \in Pressure!Users : Pressure!ConnectDone(t))
           \/ (\E t \in Pressure!Users : Pressure!Refused(t))
           \/ (\E t \in Pressure!Users : Pressure!SetStatus(t))
    BY <1>15 DEF Pressure!Opened, Pressure!Unflag, Pressure!Goto, Pressure!timer,
       Pressure!device, Pressure!flows, Pressure!command, Pressure!ConnectDone,
       Pressure!TimerStart, Pressure!NoTimer, Pressure!Hold, Pressure!session,
       Pressure!flags, Pressure!TimerRequest, Pressure!Refused, Pressure!Blame,
       Pressure!SetStatus, Pressure!IInv, Pressure!TypeOK, Pressure!FlowTypes
<1>16. CASE (\E d \in Pressure!Devices : Pressure!Disconnect(d)) \/ Pressure!DisablePolling
           \/ Pressure!EnablePolling \/ Pressure!StartPolling
    BY <1>16 DEF Pressure!Disconnect, Pressure!Free, Pressure!TimerRequest, Pressure!Goto,
       Pressure!Hold, Pressure!session, Pressure!flags, Pressure!device, Pressure!flows,
       Pressure!command, Pressure!DisablePolling, Pressure!EnablePolling, Pressure!timer,
       Pressure!locals, Pressure!StartPolling, Pressure!TimerStart, Pressure!IInv,
       Pressure!TypeOK, Pressure!FlowTypes
<1>17. CASE Pressure!Shutdown \/ Pressure!Reached \/ Pressure!ReadAgain
    BY <1>17 DEF Pressure!Shutdown, Pressure!Free, Pressure!TimerRequest, Pressure!Goto,
       Pressure!flags, Pressure!device, Pressure!flows, Pressure!locals, Pressure!command,
       Pressure!Reached, Pressure!EndCommand, Pressure!session, Pressure!timer,
       Pressure!ReadAgain, Pressure!IInv, Pressure!TypeOK, Pressure!FlowTypes
<1>18. CASE UNCHANGED Pressure!vars
    BY <1>18 DEF Pressure!vars, Pressure!session, Pressure!flags, Pressure!timer,
       Pressure!device, Pressure!flows, Pressure!locals, Pressure!command, Pressure!IInv,
       Pressure!TypeOK, Pressure!FlowTypes
<1> QED
    BY <1>1, <1>2, <1>3, <1>4, <1>5, <1>6, <1>7, <1>8, <1>9, <1>10, <1>11, <1>12, <1>13,
       <1>14, <1>15, <1>16, <1>17, <1>18 DEF Pressure!Next, Pressure!ConnectStep,
       Pressure!GuiStep, Pressure!WorkerStep

\* ... of the devices connected and flagged, ...
LEMMA PressureDevices ==
    ASSUME Pressure!PressureAssumption, Pressure!IInv, [Pressure!Next]_(Pressure!vars)
    PROVE  Pressure!DeviceTypes'
<1> USE DEF Pressure!PressureAssumption, Pressure!Users, Pressure!Threads, Pressure!Devices
<1>1. ASSUME NEW t \in Pressure!Users, NEW d \in Pressure!Devices, Pressure!Misconfigured(t, d) PROVE Pressure!DeviceTypes'
    BY <1>1 DEF Pressure!Misconfigured, Pressure!Free, Pressure!Blame, Pressure!Hold,
       Pressure!Goto, Pressure!session, Pressure!timer, Pressure!device, Pressure!flows,
       Pressure!command, Pressure!IInv, Pressure!TypeOK, Pressure!DeviceTypes,
       Pressure!LockHeld, Pressure!ThreadTypes
<1>2. ASSUME NEW t \in Pressure!Users, Pressure!OpenFails(t) PROVE Pressure!DeviceTypes'
    BY <1>2 DEF Pressure!OpenFails, Pressure!Flag, Pressure!Goto, Pressure!timer,
       Pressure!device, Pressure!flows, Pressure!locals, Pressure!command, Pressure!IInv,
       Pressure!TypeOK, Pressure!DeviceTypes, Pressure!LockHeld, Pressure!ThreadTypes
<1>3. ASSUME NEW t \in Pressure!Users, Pressure!Opened(t) PROVE Pressure!DeviceTypes'
    BY <1>3 DEF Pressure!Opened, Pressure!Unflag, Pressure!Goto, Pressure!timer,
       Pressure!device, Pressure!flows, Pressure!command, Pressure!IInv, Pressure!TypeOK,
       Pressure!DeviceTypes, Pressure!LockHeld, Pressure!ThreadTypes
<1>4. ASSUME NEW t \in Pressure!Users, Pressure!Refused(t) PROVE Pressure!DeviceTypes'
    BY <1>4 DEF Pressure!Refused, Pressure!Blame, Pressure!Hold, Pressure!Goto,
       Pressure!session, Pressure!timer, Pressure!device, Pressure!flows, Pressure!command,
       Pressure!IInv, Pressure!TypeOK, Pressure!DeviceTypes, Pressure!LockHeld,
       Pressure!ThreadTypes
<1>5. ASSUME NEW t \in Pressure!Threads, Pressure!ReadDone(t) PROVE Pressure!DeviceTypes'
    BY <1>5 DEF Pressure!ReadDone, Pressure!MfcValues, Pressure!Publish, Pressure!Goto,
       Pressure!session, Pressure!timer, Pressure!device, Pressure!IInv, Pressure!TypeOK,
       Pressure!DeviceTypes, Pressure!LockHeld, Pressure!ThreadTypes
<1>6. ASSUME NEW d \in Pressure!Devices, Pressure!DisconnectDone(d) PROVE Pressure!DeviceTypes'
    BY <1>6 DEF Pressure!DisconnectDone, Pressure!Unflag, Pressure!ForgetFlow,
       Pressure!flows, Pressure!Restart, Pressure!Hold, Pressure!Goto, Pressure!device,
       Pressure!TimerStart, Pressure!NoTimer, Pressure!TimerRequest, Pressure!timer,
       Pressure!IInv, Pressure!TypeOK, Pressure!DeviceTypes, Pressure!LockHeld,
       Pressure!ThreadTypes
<1>7. CASE Pressure!ShutdownRelease
    BY <1>7 DEF Pressure!ShutdownRelease, Pressure!ForgetFlow, Pressure!Goto,
       Pressure!timer, Pressure!device, Pressure!locals, Pressure!IInv, Pressure!TypeOK,
       Pressure!DeviceTypes, Pressure!LockHeld, Pressure!ThreadTypes
<1>8. CASE Pressure!Answer
    BY <1>8 DEF Pressure!Answer, Pressure!flags, Pressure!Unflag, Pressure!Flag,
       Pressure!MfcValues, Pressure!Judge, Pressure!EndCommand, Pressure!session,
       Pressure!timer, Pressure!device, Pressure!Goto, Pressure!IInv, Pressure!TypeOK,
       Pressure!DeviceTypes, Pressure!LockHeld, Pressure!ThreadTypes
<1>9. CASE Pressure!Move \/ Pressure!DeliverTimer
           \/ (\E t \in Pressure!Users, d \in Pressure!Devices : Pressure!Connect(t, d))
           \/ (\E t \in Pressure!Users : Pressure!ConnectDone(t))
    BY <1>9 DEF Pressure!Move, Pressure!session, Pressure!flags, Pressure!timer,
       Pressure!flows, Pressure!locals, Pressure!DeliverTimer, Pressure!device,
       Pressure!command, Pressure!Connect, Pressure!Free, Pressure!RoomForTimer,
       Pressure!TimerRequest, Pressure!Goto, Pressure!Hold, Pressure!ConnectDone,
       Pressure!TimerStart, Pressure!NoTimer, Pressure!IInv, Pressure!TypeOK,
       Pressure!DeviceTypes, Pressure!LockHeld, Pressure!ThreadTypes
<1>10. CASE (\E t \in Pressure!Users : Pressure!SetStatus(t))
           \/ (\E t \in Pressure!Threads : Pressure!Read(t))
           \/ (\E d \in Pressure!Devices : Pressure!Disconnect(d)) \/ Pressure!DisablePolling
    BY <1>10 DEF Pressure!SetStatus, Pressure!Goto, Pressure!flags, Pressure!timer,
       Pressure!device, Pressure!flows, Pressure!command, Pressure!Read, Pressure!BeginRead,
       Pressure!session, Pressure!Disconnect, Pressure!Free, Pressure!TimerRequest,
       Pressure!Hold, Pressure!DisablePolling, Pressure!IInv, Pressure!TypeOK,
       Pressure!DeviceTypes, Pressure!LockHeld, Pressure!ThreadTypes
<1>11. CASE Pressure!EnablePolling \/ Pressure!StartPolling \/ Pressure!Shutdown
           \/ (\E v \in Flows : Pressure!PanelFlow(v))
    BY <1>11 DEF Pressure!EnablePolling, Pressure!Free, Pressure!Goto, Pressure!flags,
       Pressure!timer, Pressure!device, Pressure!flows, Pressure!locals, Pressure!command,
       Pressure!StartPolling, Pressure!TimerStart, Pressure!session, Pressure!TimerRequest,
       Pressure!Shutdown, Pressure!PanelFlow, Pressure!Program, Pressure!ProgramFails,
       Pressure!IInv, Pressure!TypeOK, Pressure!DeviceTypes, Pressure!LockHeld,
       Pressure!ThreadTypes
<1>12. CASE (\E v \in Flows : Pressure!SetFlow(v)) \/ Pressure!WorkerCommand \/ Pressure!Mark
           \/ Pressure!ReadFlow
    BY <1>12 DEF Pressure!SetFlow, Pressure!Free, Pressure!Goto, Pressure!session,
       Pressure!flags, Pressure!timer, Pressure!device, Pressure!flows, Pressure!locals,
       Pressure!WorkerCommand, Pressure!Program, Pressure!ProgramFails, Pressure!EndCommand,
       Pressure!Mark, Pressure!ReadFlow, Pressure!BeginRead, Pressure!command,
       Pressure!IInv, Pressure!TypeOK, Pressure!DeviceTypes, Pressure!LockHeld,
       Pressure!ThreadTypes
<1>13. CASE Pressure!Reached \/ Pressure!TakeNews \/ Pressure!ReadAgain \/ Pressure!Interrupt
    BY <1>13 DEF Pressure!Reached, Pressure!EndCommand, Pressure!session, Pressure!flags,
       Pressure!timer, Pressure!device, Pressure!flows, Pressure!locals, Pressure!Goto,
       Pressure!TakeNews, Pressure!Judge, Pressure!ReadAgain, Pressure!command,
       Pressure!Interrupt, Pressure!Hold, Pressure!IInv, Pressure!TypeOK,
       Pressure!DeviceTypes, Pressure!LockHeld, Pressure!ThreadTypes
<1>14. CASE UNCHANGED Pressure!vars
    BY <1>14 DEF Pressure!vars, Pressure!session, Pressure!flags, Pressure!timer,
       Pressure!device, Pressure!flows, Pressure!locals, Pressure!command, Pressure!IInv,
       Pressure!TypeOK, Pressure!DeviceTypes, Pressure!LockHeld, Pressure!ThreadTypes
<1> QED
    BY <1>1, <1>2, <1>3, <1>4, <1>5, <1>6, <1>7, <1>8, <1>9, <1>10, <1>11, <1>12, <1>13,
       <1>14 DEF Pressure!Next, Pressure!ConnectStep, Pressure!GuiStep, Pressure!WorkerStep

\* ... and of the timer.
LEMMA PressureTimers ==
    ASSUME Pressure!PressureAssumption, Pressure!IInv, [Pressure!Next]_(Pressure!vars)
    PROVE  Pressure!TimerTypes'
<1> USE DEF Pressure!PressureAssumption, Pressure!Users, Pressure!Threads, Pressure!Devices
<1>1. CASE Pressure!Move
    BY <1>1, Zenon DEF Pressure!Move, Pressure!session, Pressure!flags, Pressure!timer,
       Pressure!flows, Pressure!locals, Pressure!IInv, Pressure!TypeOK, Pressure!TimerTypes,
       Pressure!ThreadTypes
<1>2. CASE Pressure!DeliverTimer
    BY <1>2 DEF Pressure!DeliverTimer, Pressure!session, Pressure!flags, Pressure!device,
       Pressure!flows, Pressure!locals, Pressure!command, Pressure!IInv, Pressure!TypeOK,
       Pressure!TimerTypes, Pressure!ThreadTypes
<1>3. ASSUME NEW t \in Pressure!Users, NEW d \in Pressure!Devices, Pressure!Misconfigured(t, d) PROVE Pressure!TimerTypes'
    BY <1>3 DEF Pressure!Misconfigured, Pressure!Free, Pressure!Blame, Pressure!Hold,
       Pressure!Goto, Pressure!session, Pressure!timer, Pressure!device, Pressure!flows,
       Pressure!command, Pressure!IInv, Pressure!TypeOK, Pressure!TimerTypes,
       Pressure!ThreadTypes
<1>4. ASSUME NEW t \in Pressure!Users, NEW d \in Pressure!Devices, Pressure!Connect(t, d) PROVE Pressure!TimerTypes'
  <2>1. posted \in Nat
      BY DEF Pressure!IInv, Pressure!TypeOK, Pressure!TimerTypes
  <2>2. requested' = FALSE /\ (running' = FALSE \/ running' = running)
        /\ (posted' = posted \/ posted' = posted + 1)
      BY <1>4 DEF Pressure!Connect, Pressure!TimerRequest
  <2>3. UNCHANGED <<stopped, rate, closed, starved, start, news, owed>>
      BY <1>4 DEF Pressure!Connect, Pressure!session, Pressure!command
  <2>4. posted' \in Nat
      BY <2>1, <2>2
  <2> QED
      BY <2>2, <2>3, <2>4, Zenon DEF Pressure!IInv, Pressure!TypeOK, Pressure!TimerTypes
<1>5. ASSUME NEW t \in Pressure!Users, Pressure!OpenFails(t) PROVE Pressure!TimerTypes'
    BY <1>5 DEF Pressure!OpenFails, Pressure!Flag, Pressure!Goto, Pressure!timer,
       Pressure!device, Pressure!flows, Pressure!locals, Pressure!command, Pressure!IInv,
       Pressure!TypeOK, Pressure!TimerTypes, Pressure!ThreadTypes
<1>6. ASSUME NEW t \in Pressure!Users, Pressure!Opened(t) PROVE Pressure!TimerTypes'
    BY <1>6 DEF Pressure!Opened, Pressure!Unflag, Pressure!Goto, Pressure!timer,
       Pressure!device, Pressure!flows, Pressure!command, Pressure!IInv, Pressure!TypeOK,
       Pressure!TimerTypes, Pressure!ThreadTypes
<1>7. ASSUME NEW t \in Pressure!Users, Pressure!ConnectDone(t) PROVE Pressure!TimerTypes'
  <2>1. posted \in Nat
      BY DEF Pressure!IInv, Pressure!TypeOK, Pressure!TimerTypes
  <2>2. /\ requested' = TRUE \/ requested' = requested
        /\ running' = TRUE \/ running' = running
        /\ starved' = FALSE \/ starved' = starved
        /\ posted' = posted \/ posted' = posted + 1
      BY <1>7 DEF Pressure!ConnectDone, Pressure!TimerStart, Pressure!TimerRequest,
         Pressure!NoTimer, Pressure!timer
  <2>3. start' = FALSE /\ UNCHANGED <<stopped, rate, closed, news, owed>>
      BY <1>7 DEF Pressure!ConnectDone, Pressure!session, Pressure!command
  <2>4. posted' \in Nat
      BY <2>1, <2>2
  <2> QED
      BY <2>2, <2>3, <2>4, Zenon DEF Pressure!IInv, Pressure!TypeOK, Pressure!TimerTypes
<1>8. ASSUME NEW t \in Pressure!Users, Pressure!Refused(t) PROVE Pressure!TimerTypes'
    BY <1>8 DEF Pressure!Refused, Pressure!Blame, Pressure!Hold, Pressure!Goto,
       Pressure!session, Pressure!timer, Pressure!device, Pressure!flows, Pressure!command,
       Pressure!IInv, Pressure!TypeOK, Pressure!TimerTypes, Pressure!ThreadTypes
<1>9. ASSUME NEW t \in Pressure!Users, Pressure!SetStatus(t) PROVE Pressure!TimerTypes'
    BY <1>9 DEF Pressure!SetStatus, Pressure!Goto, Pressure!flags, Pressure!timer,
       Pressure!device, Pressure!flows, Pressure!command, Pressure!IInv, Pressure!TypeOK,
       Pressure!TimerTypes, Pressure!ThreadTypes
<1>10. ASSUME NEW t \in Pressure!Threads, Pressure!Read(t) PROVE Pressure!TimerTypes'
    BY <1>10 DEF Pressure!Read, Pressure!BeginRead, Pressure!Goto, Pressure!session,
       Pressure!flags, Pressure!timer, Pressure!device, Pressure!flows, Pressure!command,
       Pressure!IInv, Pressure!TypeOK, Pressure!TimerTypes, Pressure!ThreadTypes
<1>11. ASSUME NEW t \in Pressure!Threads, Pressure!ReadDone(t) PROVE Pressure!TimerTypes'
    BY <1>11 DEF Pressure!ReadDone, Pressure!MfcValues, Pressure!Publish, Pressure!Goto,
       Pressure!session, Pressure!timer, Pressure!device, Pressure!IInv, Pressure!TypeOK,
       Pressure!TimerTypes, Pressure!ThreadTypes
<1>12. ASSUME NEW d \in Pressure!Devices, Pressure!Disconnect(d) PROVE Pressure!TimerTypes'
    BY <1>12 DEF Pressure!Disconnect, Pressure!Free, Pressure!TimerRequest, Pressure!Goto,
       Pressure!Hold, Pressure!session, Pressure!flags, Pressure!device, Pressure!flows,
       Pressure!command, Pressure!IInv, Pressure!TypeOK, Pressure!TimerTypes,
       Pressure!ThreadTypes
<1>13. ASSUME NEW d \in Pressure!Devices, Pressure!DisconnectDone(d) PROVE Pressure!TimerTypes'
    BY <1>13 DEF Pressure!DisconnectDone, Pressure!Unflag, Pressure!ForgetFlow,
       Pressure!flows, Pressure!Restart, Pressure!Hold, Pressure!Goto, Pressure!device,
       Pressure!TimerStart, Pressure!NoTimer, Pressure!TimerRequest, Pressure!timer,
       Pressure!IInv, Pressure!TypeOK, Pressure!TimerTypes, Pressure!ThreadTypes
<1>14. CASE Pressure!DisablePolling
    BY <1>14 DEF Pressure!DisablePolling, Pressure!Free, Pressure!TimerRequest,
       Pressure!Goto, Pressure!flags, Pressure!device, Pressure!flows, Pressure!command,
       Pressure!IInv, Pressure!TypeOK, Pressure!TimerTypes, Pressure!ThreadTypes
<1>15. CASE Pressure!EnablePolling
    BY <1>15 DEF Pressure!EnablePolling, Pressure!Free, Pressure!Goto, Pressure!flags,
       Pressure!timer, Pressure!device, Pressure!flows, Pressure!locals, Pressure!command,
       Pressure!IInv, Pressure!TypeOK, Pressure!TimerTypes, Pressure!ThreadTypes
<1>16. CASE Pressure!StartPolling
    BY <1>16 DEF Pressure!StartPolling, Pressure!TimerStart, Pressure!Goto,
       Pressure!session, Pressure!flags, Pressure!device, Pressure!flows, Pressure!locals,
       Pressure!command, Pressure!TimerRequest, Pressure!IInv, Pressure!TypeOK,
       Pressure!TimerTypes, Pressure!ThreadTypes
<1>17. ASSUME NEW v \in Flows, Pressure!PanelFlow(v) PROVE Pressure!TimerTypes'
    BY <1>17 DEF Pressure!PanelFlow, Pressure!Free, Pressure!Program, Pressure!ProgramFails,
       Pressure!session, Pressure!flags, Pressure!timer, Pressure!locals, Pressure!flows,
       Pressure!IInv, Pressure!TypeOK, Pressure!TimerTypes, Pressure!ThreadTypes
<1>18. CASE Pressure!WorkerCommand
    BY <1>18 DEF Pressure!WorkerCommand, Pressure!Program, Pressure!Goto,
       Pressure!ProgramFails, Pressure!EndCommand, Pressure!flows, Pressure!session,
       Pressure!flags, Pressure!timer, Pressure!locals, Pressure!IInv, Pressure!TypeOK,
       Pressure!TimerTypes, Pressure!ThreadTypes
<1>19. CASE Pressure!Answer
    BY <1>19 DEF Pressure!Answer, Pressure!flags, Pressure!Unflag, Pressure!Flag,
       Pressure!MfcValues, Pressure!Judge, Pressure!EndCommand, Pressure!session,
       Pressure!timer, Pressure!device, Pressure!Goto, Pressure!IInv, Pressure!TypeOK,
       Pressure!TimerTypes, Pressure!ThreadTypes
<1>20. CASE Pressure!Interrupt
    BY <1>20 DEF Pressure!Interrupt, Pressure!Hold, Pressure!EndCommand, Pressure!session,
       Pressure!flags, Pressure!timer, Pressure!device, Pressure!flows, Pressure!Goto,
       Pressure!IInv, Pressure!TypeOK, Pressure!TimerTypes, Pressure!ThreadTypes
<1>21. CASE Pressure!Shutdown \/ Pressure!ShutdownRelease
           \/ (\E v \in Flows : Pressure!SetFlow(v)) \/ Pressure!Mark
    BY <1>21, Zenon DEF Pressure!Shutdown, Pressure!Free, Pressure!TimerRequest,
       Pressure!Goto, Pressure!flags, Pressure!device, Pressure!flows, Pressure!locals,
       Pressure!command, Pressure!ShutdownRelease, Pressure!ForgetFlow, Pressure!timer,
       Pressure!SetFlow, Pressure!session, Pressure!Mark, Pressure!IInv, Pressure!TypeOK,
       Pressure!TimerTypes, Pressure!ThreadTypes
<1>22. CASE Pressure!ReadFlow \/ Pressure!Reached \/ Pressure!TakeNews \/ Pressure!ReadAgain
    BY <1>22, Zenon DEF Pressure!ReadFlow, Pressure!BeginRead, Pressure!Goto,
       Pressure!session, Pressure!flags, Pressure!timer, Pressure!device, Pressure!flows,
       Pressure!command, Pressure!Reached, Pressure!EndCommand, Pressure!locals,
       Pressure!TakeNews, Pressure!Judge, Pressure!ReadAgain, Pressure!IInv,
       Pressure!TypeOK, Pressure!TimerTypes, Pressure!ThreadTypes
<1>23. CASE UNCHANGED Pressure!vars
    BY <1>23 DEF Pressure!vars, Pressure!session, Pressure!flags, Pressure!timer,
       Pressure!device, Pressure!flows, Pressure!locals, Pressure!command, Pressure!IInv,
       Pressure!TypeOK, Pressure!TimerTypes, Pressure!ThreadTypes
<1> QED
    BY <1>1, <1>2, <1>3, <1>4, <1>5, <1>6, <1>7, <1>8, <1>9, <1>10, <1>11, <1>12, <1>13,
       <1>14, <1>15, <1>16, <1>17, <1>18, <1>19, <1>20, <1>21, <1>22, <1>23 DEF
       Pressure!Next, Pressure!ConnectStep, Pressure!GuiStep, Pressure!WorkerStep

\* The lock is held by who is in a place that holds it.
LEMMA PressureLock ==
    ASSUME Pressure!PressureAssumption, Pressure!IInv, [Pressure!Next]_(Pressure!vars)
    PROVE  Pressure!LockHeld'
<1> USE DEF Pressure!PressureAssumption, Pressure!Users, Pressure!Threads, Pressure!Devices
<1>1. ASSUME NEW t \in Pressure!Users, NEW d \in Pressure!Devices, Pressure!Misconfigured(t, d) PROVE Pressure!LockHeld'
    BY <1>1 DEF Pressure!Misconfigured, Pressure!Free, Pressure!Blame, Pressure!Hold,
       Pressure!Goto, Pressure!session, Pressure!timer, Pressure!device, Pressure!flows,
       Pressure!command, Pressure!IInv, Pressure!TypeOK, Pressure!ThreadTypes,
       Pressure!LockHeld, Pressure!Locking
<1>2. ASSUME NEW t \in Pressure!Users, NEW d \in Pressure!Devices, Pressure!Connect(t, d) PROVE Pressure!LockHeld'
    BY <1>2 DEF Pressure!Connect, Pressure!Free, Pressure!RoomForTimer,
       Pressure!TimerRequest, Pressure!Goto, Pressure!Hold, Pressure!session,
       Pressure!flags, Pressure!device, Pressure!flows, Pressure!command, Pressure!IInv,
       Pressure!TypeOK, Pressure!ThreadTypes, Pressure!LockHeld, Pressure!Locking
<1>3. ASSUME NEW t \in Pressure!Users, Pressure!OpenFails(t) PROVE Pressure!LockHeld'
    BY <1>3 DEF Pressure!OpenFails, Pressure!Flag, Pressure!Goto, Pressure!timer,
       Pressure!device, Pressure!flows, Pressure!locals, Pressure!command, Pressure!IInv,
       Pressure!TypeOK, Pressure!ThreadTypes, Pressure!LockHeld, Pressure!Locking
<1>4. ASSUME NEW t \in Pressure!Users, Pressure!Opened(t) PROVE Pressure!LockHeld'
    BY <1>4 DEF Pressure!Opened, Pressure!Unflag, Pressure!Goto, Pressure!timer,
       Pressure!device, Pressure!flows, Pressure!command, Pressure!IInv, Pressure!TypeOK,
       Pressure!ThreadTypes, Pressure!LockHeld, Pressure!Locking
<1>5. ASSUME NEW t \in Pressure!Users, Pressure!ConnectDone(t) PROVE Pressure!LockHeld'
    BY <1>5 DEF Pressure!ConnectDone, Pressure!TimerStart, Pressure!NoTimer, Pressure!Hold,
       Pressure!Goto, Pressure!session, Pressure!flags, Pressure!device, Pressure!flows,
       Pressure!command, Pressure!TimerRequest, Pressure!timer, Pressure!IInv,
       Pressure!TypeOK, Pressure!ThreadTypes, Pressure!LockHeld, Pressure!Locking
<1>6. ASSUME NEW t \in Pressure!Users, Pressure!Refused(t) PROVE Pressure!LockHeld'
    BY <1>6 DEF Pressure!Refused, Pressure!Blame, Pressure!Hold, Pressure!Goto,
       Pressure!session, Pressure!timer, Pressure!device, Pressure!flows, Pressure!command,
       Pressure!IInv, Pressure!TypeOK, Pressure!ThreadTypes, Pressure!LockHeld,
       Pressure!Locking
<1>7. ASSUME NEW t \in Pressure!Users, Pressure!SetStatus(t) PROVE Pressure!LockHeld'
    BY <1>7 DEF Pressure!SetStatus, Pressure!Goto, Pressure!flags, Pressure!timer,
       Pressure!device, Pressure!flows, Pressure!command, Pressure!IInv, Pressure!TypeOK,
       Pressure!ThreadTypes, Pressure!LockHeld, Pressure!Locking
<1>8. ASSUME NEW t \in Pressure!Threads, Pressure!Read(t) PROVE Pressure!LockHeld'
    BY <1>8 DEF Pressure!Read, Pressure!BeginRead, Pressure!Goto, Pressure!session,
       Pressure!flags, Pressure!timer, Pressure!device, Pressure!flows, Pressure!command,
       Pressure!IInv, Pressure!TypeOK, Pressure!ThreadTypes, Pressure!LockHeld,
       Pressure!Locking
<1>9. ASSUME NEW t \in Pressure!Threads, Pressure!ReadDone(t) PROVE Pressure!LockHeld'
    BY <1>9 DEF Pressure!ReadDone, Pressure!MfcValues, Pressure!Publish, Pressure!Goto,
       Pressure!session, Pressure!timer, Pressure!device, Pressure!IInv, Pressure!TypeOK,
       Pressure!ThreadTypes, Pressure!LockHeld, Pressure!Locking
<1>10. ASSUME NEW d \in Pressure!Devices, Pressure!Disconnect(d) PROVE Pressure!LockHeld'
    BY <1>10 DEF Pressure!Disconnect, Pressure!Free, Pressure!TimerRequest, Pressure!Goto,
       Pressure!Hold, Pressure!session, Pressure!flags, Pressure!device, Pressure!flows,
       Pressure!command, Pressure!IInv, Pressure!TypeOK, Pressure!ThreadTypes,
       Pressure!LockHeld, Pressure!Locking
<1>11. ASSUME NEW d \in Pressure!Devices, Pressure!DisconnectDone(d) PROVE Pressure!LockHeld'
    BY <1>11 DEF Pressure!DisconnectDone, Pressure!Unflag, Pressure!ForgetFlow,
       Pressure!flows, Pressure!Restart, Pressure!Hold, Pressure!Goto, Pressure!device,
       Pressure!TimerStart, Pressure!NoTimer, Pressure!TimerRequest, Pressure!timer,
       Pressure!IInv, Pressure!TypeOK, Pressure!ThreadTypes, Pressure!LockHeld,
       Pressure!Locking
<1>12. CASE Pressure!DisablePolling
    BY <1>12 DEF Pressure!DisablePolling, Pressure!Free, Pressure!TimerRequest,
       Pressure!Goto, Pressure!flags, Pressure!device, Pressure!flows, Pressure!command,
       Pressure!IInv, Pressure!TypeOK, Pressure!ThreadTypes, Pressure!LockHeld,
       Pressure!Locking
<1>13. CASE Pressure!EnablePolling
    BY <1>13 DEF Pressure!EnablePolling, Pressure!Free, Pressure!Goto, Pressure!flags,
       Pressure!timer, Pressure!device, Pressure!flows, Pressure!locals, Pressure!command,
       Pressure!IInv, Pressure!TypeOK, Pressure!ThreadTypes, Pressure!LockHeld,
       Pressure!Locking
<1>14. CASE Pressure!StartPolling
    BY <1>14 DEF Pressure!StartPolling, Pressure!TimerStart, Pressure!Goto,
       Pressure!session, Pressure!flags, Pressure!device, Pressure!flows, Pressure!locals,
       Pressure!command, Pressure!TimerRequest, Pressure!IInv, Pressure!TypeOK,
       Pressure!ThreadTypes, Pressure!LockHeld, Pressure!Locking
<1>15. CASE Pressure!Shutdown
    BY <1>15 DEF Pressure!Shutdown, Pressure!Free, Pressure!TimerRequest, Pressure!Goto,
       Pressure!flags, Pressure!device, Pressure!flows, Pressure!locals, Pressure!command,
       Pressure!IInv, Pressure!TypeOK, Pressure!ThreadTypes, Pressure!LockHeld,
       Pressure!Locking
<1>16. CASE Pressure!ShutdownRelease
    BY <1>16 DEF Pressure!ShutdownRelease, Pressure!ForgetFlow, Pressure!Goto,
       Pressure!timer, Pressure!device, Pressure!locals, Pressure!IInv, Pressure!TypeOK,
       Pressure!ThreadTypes, Pressure!LockHeld, Pressure!Locking
<1>17. ASSUME NEW v \in Flows, Pressure!PanelFlow(v) PROVE Pressure!LockHeld'
    BY <1>17 DEF Pressure!PanelFlow, Pressure!Free, Pressure!Program, Pressure!ProgramFails,
       Pressure!session, Pressure!flags, Pressure!timer, Pressure!locals, Pressure!flows,
       Pressure!IInv, Pressure!TypeOK, Pressure!ThreadTypes, Pressure!LockHeld,
       Pressure!Locking
<1>18. ASSUME NEW v \in Flows, Pressure!SetFlow(v) PROVE Pressure!LockHeld'
    BY <1>18 DEF Pressure!SetFlow, Pressure!Free, Pressure!Goto, Pressure!session,
       Pressure!flags, Pressure!timer, Pressure!device, Pressure!flows, Pressure!locals,
       Pressure!IInv, Pressure!TypeOK, Pressure!ThreadTypes, Pressure!LockHeld,
       Pressure!Locking
<1>19. CASE Pressure!WorkerCommand
    BY <1>19 DEF Pressure!WorkerCommand, Pressure!Program, Pressure!Goto,
       Pressure!ProgramFails, Pressure!EndCommand, Pressure!flows, Pressure!session,
       Pressure!flags, Pressure!timer, Pressure!locals, Pressure!IInv, Pressure!TypeOK,
       Pressure!ThreadTypes, Pressure!LockHeld, Pressure!Locking
<1>20. CASE Pressure!Mark
    BY <1>20 DEF Pressure!Mark, Pressure!Goto, Pressure!session, Pressure!flags,
       Pressure!timer, Pressure!device, Pressure!flows, Pressure!locals, Pressure!IInv,
       Pressure!TypeOK, Pressure!ThreadTypes, Pressure!LockHeld, Pressure!Locking
<1>21. CASE Pressure!ReadFlow
    BY <1>21 DEF Pressure!ReadFlow, Pressure!BeginRead, Pressure!Goto, Pressure!session,
       Pressure!flags, Pressure!timer, Pressure!device, Pressure!flows, Pressure!command,
       Pressure!IInv, Pressure!TypeOK, Pressure!ThreadTypes, Pressure!LockHeld,
       Pressure!Locking
<1>22. CASE Pressure!Answer
    BY <1>22 DEF Pressure!Answer, Pressure!flags, Pressure!Unflag, Pressure!Flag,
       Pressure!MfcValues, Pressure!Judge, Pressure!EndCommand, Pressure!session,
       Pressure!timer, Pressure!device, Pressure!Goto, Pressure!IInv, Pressure!TypeOK,
       Pressure!ThreadTypes, Pressure!LockHeld, Pressure!Locking
<1>23. CASE Pressure!Reached
    BY <1>23 DEF Pressure!Reached, Pressure!EndCommand, Pressure!session, Pressure!flags,
       Pressure!timer, Pressure!device, Pressure!flows, Pressure!locals, Pressure!Goto,
       Pressure!IInv, Pressure!TypeOK, Pressure!ThreadTypes, Pressure!LockHeld,
       Pressure!Locking
<1>24. CASE Pressure!TakeNews
    BY <1>24 DEF Pressure!TakeNews, Pressure!Judge, Pressure!EndCommand, Pressure!session,
       Pressure!flags, Pressure!timer, Pressure!device, Pressure!flows, Pressure!locals,
       Pressure!Goto, Pressure!IInv, Pressure!TypeOK, Pressure!ThreadTypes,
       Pressure!LockHeld, Pressure!Locking
<1>25. CASE Pressure!ReadAgain
    BY <1>25 DEF Pressure!ReadAgain, Pressure!Goto, Pressure!session, Pressure!flags,
       Pressure!timer, Pressure!device, Pressure!flows, Pressure!locals, Pressure!command,
       Pressure!IInv, Pressure!TypeOK, Pressure!ThreadTypes, Pressure!LockHeld,
       Pressure!Locking
<1>26. CASE Pressure!Interrupt
    BY <1>26 DEF Pressure!Interrupt, Pressure!Hold, Pressure!EndCommand, Pressure!session,
       Pressure!flags, Pressure!timer, Pressure!device, Pressure!flows, Pressure!Goto,
       Pressure!IInv, Pressure!TypeOK, Pressure!ThreadTypes, Pressure!LockHeld,
       Pressure!Locking
<1>27. CASE Pressure!Move \/ Pressure!DeliverTimer
    BY <1>27 DEF Pressure!Move, Pressure!session, Pressure!flags, Pressure!timer,
       Pressure!flows, Pressure!locals, Pressure!DeliverTimer, Pressure!device,
       Pressure!command, Pressure!IInv, Pressure!TypeOK, Pressure!ThreadTypes,
       Pressure!LockHeld, Pressure!Locking
<1>28. CASE UNCHANGED Pressure!vars
    BY <1>28 DEF Pressure!vars, Pressure!session, Pressure!flags, Pressure!timer,
       Pressure!device, Pressure!flows, Pressure!locals, Pressure!command, Pressure!IInv,
       Pressure!TypeOK, Pressure!ThreadTypes, Pressure!LockHeld, Pressure!Locking
<1> QED
    BY <1>1, <1>2, <1>3, <1>4, <1>5, <1>6, <1>7, <1>8, <1>9, <1>10, <1>11, <1>12, <1>13,
       <1>14, <1>15, <1>16, <1>17, <1>18, <1>19, <1>20, <1>21, <1>22, <1>23, <1>24, <1>25,
       <1>26, <1>27, <1>28 DEF Pressure!Next, Pressure!ConnectStep, Pressure!GuiStep,
       Pressure!WorkerStep

\* A set point is known as long as it is accepted: who changes it has the lock to itself, and a
\* read puts back what it has copied under the lock.
LEMMA PressureSetpoint ==
    ASSUME Pressure!PressureAssumption, Pressure!IInv, [Pressure!Next]_(Pressure!vars)
    PROVE  Pressure!ReadsCarry' /\ Pressure!SetpointKept'
<1> USE DEF Pressure!PressureAssumption, Pressure!Users, Pressure!Threads, Pressure!Devices
<1>1. ASSUME NEW t \in Pressure!Users, NEW d \in Pressure!Devices, Pressure!Misconfigured(t, d) PROVE Pressure!ReadsCarry' /\ Pressure!SetpointKept'
    BY <1>1 DEF Pressure!Misconfigured, Pressure!Free, Pressure!Blame, Pressure!Hold,
       Pressure!Goto, Pressure!session, Pressure!timer, Pressure!device, Pressure!flows,
       Pressure!command, Pressure!IInv, Pressure!TypeOK, Pressure!ThreadTypes,
       Pressure!LockHeld, Pressure!Locking, Pressure!ReadsCarry, Pressure!SetpointKept
<1>2. ASSUME NEW t \in Pressure!Users, NEW d \in Pressure!Devices, Pressure!Connect(t, d) PROVE Pressure!ReadsCarry' /\ Pressure!SetpointKept'
    BY <1>2 DEF Pressure!Connect, Pressure!Free, Pressure!RoomForTimer,
       Pressure!TimerRequest, Pressure!Goto, Pressure!Hold, Pressure!session,
       Pressure!flags, Pressure!device, Pressure!flows, Pressure!command, Pressure!IInv,
       Pressure!TypeOK, Pressure!ThreadTypes, Pressure!LockHeld, Pressure!Locking,
       Pressure!ReadsCarry, Pressure!SetpointKept
<1>3. ASSUME NEW t \in Pressure!Users, Pressure!OpenFails(t) PROVE Pressure!ReadsCarry' /\ Pressure!SetpointKept'
    BY <1>3 DEF Pressure!OpenFails, Pressure!Flag, Pressure!Goto, Pressure!timer,
       Pressure!device, Pressure!flows, Pressure!locals, Pressure!command, Pressure!IInv,
       Pressure!TypeOK, Pressure!ThreadTypes, Pressure!LockHeld, Pressure!Locking,
       Pressure!ReadsCarry, Pressure!SetpointKept
<1>4. ASSUME NEW t \in Pressure!Users, Pressure!Opened(t) PROVE Pressure!ReadsCarry' /\ Pressure!SetpointKept'
    BY <1>4 DEF Pressure!Opened, Pressure!Unflag, Pressure!Goto, Pressure!timer,
       Pressure!device, Pressure!flows, Pressure!command, Pressure!IInv, Pressure!TypeOK,
       Pressure!ThreadTypes, Pressure!LockHeld, Pressure!Locking, Pressure!ReadsCarry,
       Pressure!SetpointKept
<1>5. ASSUME NEW t \in Pressure!Users, Pressure!ConnectDone(t) PROVE Pressure!ReadsCarry' /\ Pressure!SetpointKept'
    BY <1>5 DEF Pressure!ConnectDone, Pressure!TimerStart, Pressure!NoTimer, Pressure!Hold,
       Pressure!Goto, Pressure!session, Pressure!flags, Pressure!device, Pressure!flows,
       Pressure!command, Pressure!TimerRequest, Pressure!timer, Pressure!IInv,
       Pressure!TypeOK, Pressure!ThreadTypes, Pressure!LockHeld, Pressure!Locking,
       Pressure!ReadsCarry, Pressure!SetpointKept
<1>6. ASSUME NEW t \in Pressure!Users, Pressure!Refused(t) PROVE Pressure!ReadsCarry' /\ Pressure!SetpointKept'
    BY <1>6 DEF Pressure!Refused, Pressure!Blame, Pressure!Hold, Pressure!Goto,
       Pressure!session, Pressure!timer, Pressure!device, Pressure!flows, Pressure!command,
       Pressure!IInv, Pressure!TypeOK, Pressure!ThreadTypes, Pressure!LockHeld,
       Pressure!Locking, Pressure!ReadsCarry, Pressure!SetpointKept
<1>7. ASSUME NEW t \in Pressure!Users, Pressure!SetStatus(t) PROVE Pressure!ReadsCarry' /\ Pressure!SetpointKept'
    BY <1>7 DEF Pressure!SetStatus, Pressure!Goto, Pressure!flags, Pressure!timer,
       Pressure!device, Pressure!flows, Pressure!command, Pressure!IInv, Pressure!TypeOK,
       Pressure!ThreadTypes, Pressure!LockHeld, Pressure!Locking, Pressure!ReadsCarry,
       Pressure!SetpointKept
<1>8. ASSUME NEW t \in Pressure!Threads, Pressure!Read(t) PROVE Pressure!ReadsCarry' /\ Pressure!SetpointKept'
    BY <1>8 DEF Pressure!Read, Pressure!BeginRead, Pressure!Goto, Pressure!session,
       Pressure!flags, Pressure!timer, Pressure!device, Pressure!flows, Pressure!command,
       Pressure!IInv, Pressure!TypeOK, Pressure!ThreadTypes, Pressure!LockHeld,
       Pressure!Locking, Pressure!ReadsCarry, Pressure!SetpointKept
<1>9. ASSUME NEW t \in Pressure!Threads, Pressure!ReadDone(t) PROVE Pressure!ReadsCarry' /\ Pressure!SetpointKept'
    BY <1>9 DEF Pressure!ReadDone, Pressure!MfcValues, Pressure!Publish, Pressure!Goto,
       Pressure!session, Pressure!timer, Pressure!device, Pressure!IInv, Pressure!TypeOK,
       Pressure!ThreadTypes, Pressure!LockHeld, Pressure!Locking, Pressure!ReadsCarry,
       Pressure!SetpointKept
<1>10. ASSUME NEW d \in Pressure!Devices, Pressure!Disconnect(d) PROVE Pressure!ReadsCarry' /\ Pressure!SetpointKept'
    BY <1>10 DEF Pressure!Disconnect, Pressure!Free, Pressure!TimerRequest, Pressure!Goto,
       Pressure!Hold, Pressure!session, Pressure!flags, Pressure!device, Pressure!flows,
       Pressure!command, Pressure!IInv, Pressure!TypeOK, Pressure!ThreadTypes,
       Pressure!LockHeld, Pressure!Locking, Pressure!ReadsCarry, Pressure!SetpointKept
<1>11. ASSUME NEW d \in Pressure!Devices, Pressure!DisconnectDone(d) PROVE Pressure!ReadsCarry' /\ Pressure!SetpointKept'
    BY <1>11 DEF Pressure!DisconnectDone, Pressure!Unflag, Pressure!ForgetFlow,
       Pressure!flows, Pressure!Restart, Pressure!Hold, Pressure!Goto, Pressure!device,
       Pressure!TimerStart, Pressure!NoTimer, Pressure!TimerRequest, Pressure!timer,
       Pressure!IInv, Pressure!TypeOK, Pressure!ThreadTypes, Pressure!LockHeld,
       Pressure!Locking, Pressure!ReadsCarry, Pressure!SetpointKept
<1>12. CASE Pressure!DisablePolling
    BY <1>12 DEF Pressure!DisablePolling, Pressure!Free, Pressure!TimerRequest,
       Pressure!Goto, Pressure!flags, Pressure!device, Pressure!flows, Pressure!command,
       Pressure!IInv, Pressure!TypeOK, Pressure!ThreadTypes, Pressure!LockHeld,
       Pressure!Locking, Pressure!ReadsCarry, Pressure!SetpointKept
<1>13. CASE Pressure!EnablePolling
    BY <1>13 DEF Pressure!EnablePolling, Pressure!Free, Pressure!Goto, Pressure!flags,
       Pressure!timer, Pressure!device, Pressure!flows, Pressure!locals, Pressure!command,
       Pressure!IInv, Pressure!TypeOK, Pressure!ThreadTypes, Pressure!LockHeld,
       Pressure!Locking, Pressure!ReadsCarry, Pressure!SetpointKept
<1>14. CASE Pressure!StartPolling
    BY <1>14 DEF Pressure!StartPolling, Pressure!TimerStart, Pressure!Goto,
       Pressure!session, Pressure!flags, Pressure!device, Pressure!flows, Pressure!locals,
       Pressure!command, Pressure!TimerRequest, Pressure!IInv, Pressure!TypeOK,
       Pressure!ThreadTypes, Pressure!LockHeld, Pressure!Locking, Pressure!ReadsCarry,
       Pressure!SetpointKept
<1>15. CASE Pressure!Shutdown
    BY <1>15 DEF Pressure!Shutdown, Pressure!Free, Pressure!TimerRequest, Pressure!Goto,
       Pressure!flags, Pressure!device, Pressure!flows, Pressure!locals, Pressure!command,
       Pressure!IInv, Pressure!TypeOK, Pressure!ThreadTypes, Pressure!LockHeld,
       Pressure!Locking, Pressure!ReadsCarry, Pressure!SetpointKept
<1>16. CASE Pressure!ShutdownRelease
    BY <1>16 DEF Pressure!ShutdownRelease, Pressure!ForgetFlow, Pressure!Goto,
       Pressure!timer, Pressure!device, Pressure!locals, Pressure!IInv, Pressure!TypeOK,
       Pressure!ThreadTypes, Pressure!LockHeld, Pressure!Locking, Pressure!ReadsCarry,
       Pressure!SetpointKept
<1>17. ASSUME NEW v \in Flows, Pressure!PanelFlow(v) PROVE Pressure!ReadsCarry' /\ Pressure!SetpointKept'
    BY <1>17 DEF Pressure!PanelFlow, Pressure!Free, Pressure!Program, Pressure!ProgramFails,
       Pressure!session, Pressure!flags, Pressure!timer, Pressure!locals, Pressure!flows,
       Pressure!IInv, Pressure!TypeOK, Pressure!ThreadTypes, Pressure!LockHeld,
       Pressure!Locking, Pressure!ReadsCarry, Pressure!SetpointKept
<1>18. ASSUME NEW v \in Flows, Pressure!SetFlow(v) PROVE Pressure!ReadsCarry' /\ Pressure!SetpointKept'
    BY <1>18 DEF Pressure!SetFlow, Pressure!Free, Pressure!Goto, Pressure!session,
       Pressure!flags, Pressure!timer, Pressure!device, Pressure!flows, Pressure!locals,
       Pressure!IInv, Pressure!TypeOK, Pressure!ThreadTypes, Pressure!LockHeld,
       Pressure!Locking, Pressure!ReadsCarry, Pressure!SetpointKept
<1>19. CASE Pressure!WorkerCommand
    BY <1>19 DEF Pressure!WorkerCommand, Pressure!Program, Pressure!Goto,
       Pressure!ProgramFails, Pressure!EndCommand, Pressure!flows, Pressure!session,
       Pressure!flags, Pressure!timer, Pressure!locals, Pressure!IInv, Pressure!TypeOK,
       Pressure!ThreadTypes, Pressure!LockHeld, Pressure!Locking, Pressure!ReadsCarry,
       Pressure!SetpointKept
<1>20. CASE Pressure!Mark
    BY <1>20 DEF Pressure!Mark, Pressure!Goto, Pressure!session, Pressure!flags,
       Pressure!timer, Pressure!device, Pressure!flows, Pressure!locals, Pressure!IInv,
       Pressure!TypeOK, Pressure!ThreadTypes, Pressure!LockHeld, Pressure!Locking,
       Pressure!ReadsCarry, Pressure!SetpointKept
<1>21. CASE Pressure!ReadFlow
    BY <1>21 DEF Pressure!ReadFlow, Pressure!BeginRead, Pressure!Goto, Pressure!session,
       Pressure!flags, Pressure!timer, Pressure!device, Pressure!flows, Pressure!command,
       Pressure!IInv, Pressure!TypeOK, Pressure!ThreadTypes, Pressure!LockHeld,
       Pressure!Locking, Pressure!ReadsCarry, Pressure!SetpointKept
<1>22. CASE Pressure!Answer
    BY <1>22 DEF Pressure!Answer, Pressure!flags, Pressure!Unflag, Pressure!Flag,
       Pressure!MfcValues, Pressure!Judge, Pressure!EndCommand, Pressure!session,
       Pressure!timer, Pressure!device, Pressure!Goto, Pressure!IInv, Pressure!TypeOK,
       Pressure!ThreadTypes, Pressure!LockHeld, Pressure!Locking, Pressure!ReadsCarry,
       Pressure!SetpointKept
<1>23. CASE Pressure!Reached
    BY <1>23 DEF Pressure!Reached, Pressure!EndCommand, Pressure!session, Pressure!flags,
       Pressure!timer, Pressure!device, Pressure!flows, Pressure!locals, Pressure!Goto,
       Pressure!IInv, Pressure!TypeOK, Pressure!ThreadTypes, Pressure!LockHeld,
       Pressure!Locking, Pressure!ReadsCarry, Pressure!SetpointKept
<1>24. CASE Pressure!TakeNews
    BY <1>24 DEF Pressure!TakeNews, Pressure!Judge, Pressure!EndCommand, Pressure!session,
       Pressure!flags, Pressure!timer, Pressure!device, Pressure!flows, Pressure!locals,
       Pressure!Goto, Pressure!IInv, Pressure!TypeOK, Pressure!ThreadTypes,
       Pressure!LockHeld, Pressure!Locking, Pressure!ReadsCarry, Pressure!SetpointKept
<1>25. CASE Pressure!ReadAgain
    BY <1>25 DEF Pressure!ReadAgain, Pressure!Goto, Pressure!session, Pressure!flags,
       Pressure!timer, Pressure!device, Pressure!flows, Pressure!locals, Pressure!command,
       Pressure!IInv, Pressure!TypeOK, Pressure!ThreadTypes, Pressure!LockHeld,
       Pressure!Locking, Pressure!ReadsCarry, Pressure!SetpointKept
<1>26. CASE Pressure!Interrupt
    BY <1>26 DEF Pressure!Interrupt, Pressure!Hold, Pressure!EndCommand, Pressure!session,
       Pressure!flags, Pressure!timer, Pressure!device, Pressure!flows, Pressure!Goto,
       Pressure!IInv, Pressure!TypeOK, Pressure!ThreadTypes, Pressure!LockHeld,
       Pressure!Locking, Pressure!ReadsCarry, Pressure!SetpointKept
<1>27. CASE Pressure!Move \/ Pressure!DeliverTimer
    BY <1>27 DEF Pressure!Move, Pressure!session, Pressure!flags, Pressure!timer,
       Pressure!flows, Pressure!locals, Pressure!DeliverTimer, Pressure!device,
       Pressure!command, Pressure!IInv, Pressure!TypeOK, Pressure!ThreadTypes,
       Pressure!LockHeld, Pressure!Locking, Pressure!ReadsCarry, Pressure!SetpointKept
<1>28. CASE UNCHANGED Pressure!vars
    BY <1>28 DEF Pressure!vars, Pressure!session, Pressure!flags, Pressure!timer,
       Pressure!device, Pressure!flows, Pressure!locals, Pressure!command, Pressure!IInv,
       Pressure!TypeOK, Pressure!ThreadTypes, Pressure!LockHeld, Pressure!Locking,
       Pressure!ReadsCarry, Pressure!SetpointKept
<1> QED
    BY <1>1, <1>2, <1>3, <1>4, <1>5, <1>6, <1>7, <1>8, <1>9, <1>10, <1>11, <1>12, <1>13,
       <1>14, <1>15, <1>16, <1>17, <1>18, <1>19, <1>20, <1>21, <1>22, <1>23, <1>24, <1>25,
       <1>26, <1>27, <1>28 DEF Pressure!Next, Pressure!ConnectStep, Pressure!GuiStep,
       Pressure!WorkerStep

\* Neither the device nor the news shows a flow that has still to come.
LEMMA PressureCommand ==
    ASSUME Pressure!PressureAssumption, Pressure!IInv, [Pressure!Next]_(Pressure!vars)
    PROVE  Pressure!CommandInv'
<1> USE DEF Pressure!PressureAssumption, Pressure!Users, Pressure!Threads, Pressure!Devices
<1>1. CASE Pressure!Move
    BY <1>1 DEF Pressure!Move, Pressure!session, Pressure!flags, Pressure!timer,
       Pressure!flows, Pressure!locals, Pressure!IInv, Pressure!TypeOK,
       Pressure!ThreadTypes, Pressure!FlowTypes, Pressure!Commanding, Pressure!CommandInv
<1>2. ASSUME NEW t \in Pressure!Users, NEW d \in Pressure!Devices, Pressure!Misconfigured(t, d) PROVE Pressure!CommandInv'
    BY <1>2 DEF Pressure!Misconfigured, Pressure!Free, Pressure!Blame, Pressure!Hold,
       Pressure!Goto, Pressure!session, Pressure!timer, Pressure!device, Pressure!flows,
       Pressure!command, Pressure!IInv, Pressure!TypeOK, Pressure!ThreadTypes,
       Pressure!FlowTypes, Pressure!Commanding, Pressure!CommandInv
<1>3. ASSUME NEW t \in Pressure!Users, NEW d \in Pressure!Devices, Pressure!Connect(t, d) PROVE Pressure!CommandInv'
    BY <1>3 DEF Pressure!Connect, Pressure!Free, Pressure!RoomForTimer,
       Pressure!TimerRequest, Pressure!Goto, Pressure!Hold, Pressure!session,
       Pressure!flags, Pressure!device, Pressure!flows, Pressure!command, Pressure!IInv,
       Pressure!TypeOK, Pressure!ThreadTypes, Pressure!FlowTypes, Pressure!Commanding,
       Pressure!CommandInv
<1>4. ASSUME NEW t \in Pressure!Users, Pressure!OpenFails(t) PROVE Pressure!CommandInv'
    BY <1>4 DEF Pressure!OpenFails, Pressure!Flag, Pressure!Goto, Pressure!timer,
       Pressure!device, Pressure!flows, Pressure!locals, Pressure!command, Pressure!IInv,
       Pressure!TypeOK, Pressure!ThreadTypes, Pressure!FlowTypes, Pressure!Commanding,
       Pressure!CommandInv
<1>5. ASSUME NEW t \in Pressure!Users, Pressure!Opened(t) PROVE Pressure!CommandInv'
    BY <1>5 DEF Pressure!Opened, Pressure!Unflag, Pressure!Goto, Pressure!timer,
       Pressure!device, Pressure!flows, Pressure!command, Pressure!IInv, Pressure!TypeOK,
       Pressure!ThreadTypes, Pressure!FlowTypes, Pressure!Commanding, Pressure!CommandInv
<1>6. ASSUME NEW t \in Pressure!Users, Pressure!ConnectDone(t) PROVE Pressure!CommandInv'
    BY <1>6 DEF Pressure!ConnectDone, Pressure!TimerStart, Pressure!NoTimer, Pressure!Hold,
       Pressure!Goto, Pressure!session, Pressure!flags, Pressure!device, Pressure!flows,
       Pressure!command, Pressure!TimerRequest, Pressure!timer, Pressure!IInv,
       Pressure!TypeOK, Pressure!ThreadTypes, Pressure!FlowTypes, Pressure!Commanding,
       Pressure!CommandInv
<1>7. ASSUME NEW t \in Pressure!Users, Pressure!Refused(t) PROVE Pressure!CommandInv'
    BY <1>7 DEF Pressure!Refused, Pressure!Blame, Pressure!Hold, Pressure!Goto,
       Pressure!session, Pressure!timer, Pressure!device, Pressure!flows, Pressure!command,
       Pressure!IInv, Pressure!TypeOK, Pressure!ThreadTypes, Pressure!FlowTypes,
       Pressure!Commanding, Pressure!CommandInv
<1>8. ASSUME NEW t \in Pressure!Users, Pressure!SetStatus(t) PROVE Pressure!CommandInv'
    BY <1>8 DEF Pressure!SetStatus, Pressure!Goto, Pressure!flags, Pressure!timer,
       Pressure!device, Pressure!flows, Pressure!command, Pressure!IInv, Pressure!TypeOK,
       Pressure!ThreadTypes, Pressure!FlowTypes, Pressure!Commanding, Pressure!CommandInv
<1>9. ASSUME NEW t \in Pressure!Threads, Pressure!Read(t) PROVE Pressure!CommandInv'
    BY <1>9 DEF Pressure!Read, Pressure!BeginRead, Pressure!Goto, Pressure!session,
       Pressure!flags, Pressure!timer, Pressure!device, Pressure!flows, Pressure!command,
       Pressure!IInv, Pressure!TypeOK, Pressure!ThreadTypes, Pressure!FlowTypes,
       Pressure!Commanding, Pressure!CommandInv
<1>10. ASSUME NEW t \in Pressure!Threads, Pressure!ReadDone(t) PROVE Pressure!CommandInv'
    BY <1>10 DEF Pressure!ReadDone, Pressure!MfcValues, Pressure!Publish, Pressure!Goto,
       Pressure!session, Pressure!timer, Pressure!device, Pressure!IInv, Pressure!TypeOK,
       Pressure!ThreadTypes, Pressure!FlowTypes, Pressure!Commanding, Pressure!CommandInv
<1>11. ASSUME NEW d \in Pressure!Devices, Pressure!Disconnect(d) PROVE Pressure!CommandInv'
    BY <1>11 DEF Pressure!Disconnect, Pressure!Free, Pressure!TimerRequest, Pressure!Goto,
       Pressure!Hold, Pressure!session, Pressure!flags, Pressure!device, Pressure!flows,
       Pressure!command, Pressure!IInv, Pressure!TypeOK, Pressure!ThreadTypes,
       Pressure!FlowTypes, Pressure!Commanding, Pressure!CommandInv
<1>12. ASSUME NEW d \in Pressure!Devices, Pressure!DisconnectDone(d) PROVE Pressure!CommandInv'
    BY <1>12 DEF Pressure!DisconnectDone, Pressure!Unflag, Pressure!ForgetFlow,
       Pressure!flows, Pressure!Restart, Pressure!Hold, Pressure!Goto, Pressure!device,
       Pressure!TimerStart, Pressure!NoTimer, Pressure!TimerRequest, Pressure!timer,
       Pressure!IInv, Pressure!TypeOK, Pressure!ThreadTypes, Pressure!FlowTypes,
       Pressure!Commanding, Pressure!CommandInv
<1>13. CASE Pressure!DisablePolling
    BY <1>13 DEF Pressure!DisablePolling, Pressure!Free, Pressure!TimerRequest,
       Pressure!Goto, Pressure!flags, Pressure!device, Pressure!flows, Pressure!command,
       Pressure!IInv, Pressure!TypeOK, Pressure!ThreadTypes, Pressure!FlowTypes,
       Pressure!Commanding, Pressure!CommandInv
<1>14. CASE Pressure!EnablePolling
    BY <1>14 DEF Pressure!EnablePolling, Pressure!Free, Pressure!Goto, Pressure!flags,
       Pressure!timer, Pressure!device, Pressure!flows, Pressure!locals, Pressure!command,
       Pressure!IInv, Pressure!TypeOK, Pressure!ThreadTypes, Pressure!FlowTypes,
       Pressure!Commanding, Pressure!CommandInv
<1>15. CASE Pressure!StartPolling
    BY <1>15 DEF Pressure!StartPolling, Pressure!TimerStart, Pressure!Goto,
       Pressure!session, Pressure!flags, Pressure!device, Pressure!flows, Pressure!locals,
       Pressure!command, Pressure!TimerRequest, Pressure!IInv, Pressure!TypeOK,
       Pressure!ThreadTypes, Pressure!FlowTypes, Pressure!Commanding, Pressure!CommandInv
<1>16. CASE Pressure!Shutdown
    BY <1>16 DEF Pressure!Shutdown, Pressure!Free, Pressure!TimerRequest, Pressure!Goto,
       Pressure!flags, Pressure!device, Pressure!flows, Pressure!locals, Pressure!command,
       Pressure!IInv, Pressure!TypeOK, Pressure!ThreadTypes, Pressure!FlowTypes,
       Pressure!Commanding, Pressure!CommandInv
<1>17. CASE Pressure!ShutdownRelease
    BY <1>17 DEF Pressure!ShutdownRelease, Pressure!ForgetFlow, Pressure!Goto,
       Pressure!timer, Pressure!device, Pressure!locals, Pressure!IInv, Pressure!TypeOK,
       Pressure!ThreadTypes, Pressure!FlowTypes, Pressure!Commanding, Pressure!CommandInv
<1>18. ASSUME NEW v \in Flows, Pressure!PanelFlow(v) PROVE Pressure!CommandInv'
    BY <1>18 DEF Pressure!PanelFlow, Pressure!Free, Pressure!Program, Pressure!ProgramFails,
       Pressure!session, Pressure!flags, Pressure!timer, Pressure!locals, Pressure!flows,
       Pressure!IInv, Pressure!TypeOK, Pressure!ThreadTypes, Pressure!FlowTypes,
       Pressure!Commanding, Pressure!CommandInv
<1>19. ASSUME NEW v \in Flows, Pressure!SetFlow(v) PROVE Pressure!CommandInv'
    BY <1>19 DEF Pressure!SetFlow, Pressure!Free, Pressure!Goto, Pressure!session,
       Pressure!flags, Pressure!timer, Pressure!device, Pressure!flows, Pressure!locals,
       Pressure!IInv, Pressure!TypeOK, Pressure!ThreadTypes, Pressure!FlowTypes,
       Pressure!Commanding, Pressure!CommandInv
<1>20. CASE Pressure!WorkerCommand
    BY <1>20 DEF Pressure!WorkerCommand, Pressure!Program, Pressure!Goto,
       Pressure!ProgramFails, Pressure!EndCommand, Pressure!flows, Pressure!session,
       Pressure!flags, Pressure!timer, Pressure!locals, Pressure!IInv, Pressure!TypeOK,
       Pressure!ThreadTypes, Pressure!FlowTypes, Pressure!Commanding, Pressure!CommandInv
<1>21. CASE Pressure!Mark
    BY <1>21 DEF Pressure!Mark, Pressure!Goto, Pressure!session, Pressure!flags,
       Pressure!timer, Pressure!device, Pressure!flows, Pressure!locals, Pressure!IInv,
       Pressure!TypeOK, Pressure!ThreadTypes, Pressure!FlowTypes, Pressure!Commanding,
       Pressure!CommandInv
<1>22. CASE Pressure!ReadFlow
    BY <1>22 DEF Pressure!ReadFlow, Pressure!BeginRead, Pressure!Goto, Pressure!session,
       Pressure!flags, Pressure!timer, Pressure!device, Pressure!flows, Pressure!command,
       Pressure!IInv, Pressure!TypeOK, Pressure!ThreadTypes, Pressure!FlowTypes,
       Pressure!Commanding, Pressure!CommandInv
<1>23. CASE Pressure!Answer
    BY <1>23 DEF Pressure!Answer, Pressure!flags, Pressure!Unflag, Pressure!Flag,
       Pressure!MfcValues, Pressure!Judge, Pressure!EndCommand, Pressure!session,
       Pressure!timer, Pressure!device, Pressure!Goto, Pressure!IInv, Pressure!TypeOK,
       Pressure!ThreadTypes, Pressure!FlowTypes, Pressure!Commanding, Pressure!CommandInv
<1>24. CASE Pressure!Reached
    BY <1>24 DEF Pressure!Reached, Pressure!EndCommand, Pressure!session, Pressure!flags,
       Pressure!timer, Pressure!device, Pressure!flows, Pressure!locals, Pressure!Goto,
       Pressure!IInv, Pressure!TypeOK, Pressure!ThreadTypes, Pressure!FlowTypes,
       Pressure!Commanding, Pressure!CommandInv
<1>25. CASE Pressure!TakeNews
    BY <1>25 DEF Pressure!TakeNews, Pressure!Judge, Pressure!EndCommand, Pressure!session,
       Pressure!flags, Pressure!timer, Pressure!device, Pressure!flows, Pressure!locals,
       Pressure!Goto, Pressure!IInv, Pressure!TypeOK, Pressure!ThreadTypes,
       Pressure!FlowTypes, Pressure!Commanding, Pressure!CommandInv
<1>26. CASE Pressure!ReadAgain
    BY <1>26 DEF Pressure!ReadAgain, Pressure!Goto, Pressure!session, Pressure!flags,
       Pressure!timer, Pressure!device, Pressure!flows, Pressure!locals, Pressure!command,
       Pressure!IInv, Pressure!TypeOK, Pressure!ThreadTypes, Pressure!FlowTypes,
       Pressure!Commanding, Pressure!CommandInv
<1>27. CASE Pressure!Interrupt
    BY <1>27 DEF Pressure!Interrupt, Pressure!Hold, Pressure!EndCommand, Pressure!session,
       Pressure!flags, Pressure!timer, Pressure!device, Pressure!flows, Pressure!Goto,
       Pressure!IInv, Pressure!TypeOK, Pressure!ThreadTypes, Pressure!FlowTypes,
       Pressure!Commanding, Pressure!CommandInv
<1>28. CASE Pressure!DeliverTimer
    BY <1>28 DEF Pressure!DeliverTimer, Pressure!session, Pressure!flags, Pressure!device,
       Pressure!flows, Pressure!locals, Pressure!command, Pressure!IInv, Pressure!TypeOK,
       Pressure!ThreadTypes, Pressure!FlowTypes, Pressure!Commanding, Pressure!CommandInv
<1>29. CASE UNCHANGED Pressure!vars
    BY <1>29 DEF Pressure!vars, Pressure!session, Pressure!flags, Pressure!timer,
       Pressure!device, Pressure!flows, Pressure!locals, Pressure!command, Pressure!IInv,
       Pressure!TypeOK, Pressure!ThreadTypes, Pressure!FlowTypes, Pressure!Commanding,
       Pressure!CommandInv
<1> QED
    BY <1>1, <1>2, <1>3, <1>4, <1>5, <1>6, <1>7, <1>8, <1>9, <1>10, <1>11, <1>12, <1>13,
       <1>14, <1>15, <1>16, <1>17, <1>18, <1>19, <1>20, <1>21, <1>22, <1>23, <1>24, <1>25,
       <1>26, <1>27, <1>28, <1>29 DEF Pressure!Next, Pressure!ConnectStep, Pressure!GuiStep,
       Pressure!WorkerStep

\* A timer that should fire stays requested, or somebody is on the way to request it.
LEMMA PressureTimer ==
    ASSUME Pressure!PressureAssumption, Pressure!IInv, [Pressure!Next]_(Pressure!vars)
    PROVE  Pressure!TimerInv'
<1> USE DEF Pressure!PressureAssumption, Pressure!Users, Pressure!Threads, Pressure!Devices
<1>1. CASE Pressure!DeliverTimer
    BY <1>1 DEF Pressure!DeliverTimer, Pressure!session, Pressure!flags, Pressure!device,
       Pressure!flows, Pressure!locals, Pressure!command, Pressure!IInv, Pressure!TypeOK,
       Pressure!ThreadTypes, Pressure!TimerTypes, Pressure!LockHeld, Pressure!Locking,
       Pressure!TimerInv
<1>2. ASSUME NEW t \in Pressure!Users, NEW d \in Pressure!Devices, Pressure!Misconfigured(t, d) PROVE Pressure!TimerInv'
    BY <1>2 DEF Pressure!Misconfigured, Pressure!Free, Pressure!Blame, Pressure!Hold,
       Pressure!Goto, Pressure!session, Pressure!timer, Pressure!device, Pressure!flows,
       Pressure!command, Pressure!IInv, Pressure!TypeOK, Pressure!ThreadTypes,
       Pressure!TimerTypes, Pressure!LockHeld, Pressure!Locking, Pressure!TimerInv
<1>3. ASSUME NEW t \in Pressure!Users, NEW d \in Pressure!Devices, Pressure!Connect(t, d) PROVE Pressure!TimerInv'
  <2>1. /\ posted \in Nat /\ holder = Nothing /\ place[t] = "idle"
        /\ place' = [place EXCEPT ![t] = "opening"] /\ place \in [Pressure!Threads -> Pressure!Places]
      BY <1>3 DEF Pressure!Connect, Pressure!Free, Pressure!Goto, Pressure!IInv, Pressure!TypeOK,
         Pressure!ThreadTypes, Pressure!TimerTypes
  <2>2. posted' = 0 => running' = requested'
    <3>1. running' = requested' \/ posted' = posted + 1
        BY <1>3 DEF Pressure!Connect, Pressure!TimerRequest
    <3> QED
        BY <2>1, <3>1
  <2>3. stopped' \/ (\E u \in Pressure!Users : derived'[u]) => place'[Panel] = "down"
    <3>1. UNCHANGED <<stopped, derived>>
        BY <1>3 DEF Pressure!Connect, Pressure!session
    <3>2. place[Panel] # "idle" => t # Panel
        BY <2>1
    <3> QED
        BY <2>1, <3>1, <3>2 DEF Pressure!IInv, Pressure!TimerInv
  <2>4. place'[t] = "opening"
      BY <2>1
  <2> QED
      BY <2>2, <2>3, <2>4 DEF Pressure!TimerInv
<1>4. ASSUME NEW t \in Pressure!Users, Pressure!OpenFails(t) PROVE Pressure!TimerInv'
    BY <1>4 DEF Pressure!OpenFails, Pressure!Flag, Pressure!Goto, Pressure!timer,
       Pressure!device, Pressure!flows, Pressure!locals, Pressure!command, Pressure!IInv,
       Pressure!TypeOK, Pressure!ThreadTypes, Pressure!TimerTypes, Pressure!LockHeld,
       Pressure!Locking, Pressure!TimerInv
<1>5. ASSUME NEW t \in Pressure!Users, Pressure!Opened(t) PROVE Pressure!TimerInv'
    BY <1>5 DEF Pressure!Opened, Pressure!Unflag, Pressure!Goto, Pressure!timer,
       Pressure!device, Pressure!flows, Pressure!command, Pressure!IInv, Pressure!TypeOK,
       Pressure!ThreadTypes, Pressure!TimerTypes, Pressure!LockHeld, Pressure!Locking,
       Pressure!TimerInv
<1>6. ASSUME NEW t \in Pressure!Users, Pressure!ConnectDone(t) PROVE Pressure!TimerInv'
  <2>1. /\ posted \in Nat /\ place[t] = "connecting" /\ start' = FALSE
        /\ place' = [place EXCEPT ![t] = "idle"] /\ place \in [Pressure!Threads -> Pressure!Places]
        /\ UNCHANGED <<drivers, stopped, rate, derived>>
      BY <1>6 DEF Pressure!ConnectDone, Pressure!Goto, Pressure!session, Pressure!IInv,
         Pressure!TypeOK, Pressure!ThreadTypes, Pressure!TimerTypes
  <2>2. stopped' \/ (\E u \in Pressure!Users : derived'[u]) => place'[Panel] = "down"
      BY <2>1 DEF Pressure!IInv, Pressure!TimerInv
  <2>3. CASE start
    <3>1. running' = requested' \/ posted' = posted + 1
        BY <1>6, <2>3 DEF Pressure!ConnectDone, Pressure!TimerStart, Pressure!TimerRequest
    <3>2. posted' = 0 => running' = requested'
        BY <2>1, <3>1
    <3>3. requested' = TRUE
        BY <1>6, <2>3 DEF Pressure!ConnectDone, Pressure!TimerStart, Pressure!TimerRequest
    <3> QED
        BY <2>2, <3>2, <3>3, Zenon DEF Pressure!TimerInv
  <2>4. CASE ~start
    <3>1. UNCHANGED <<requested, running, posted, starved>>
        BY <1>6, <2>4 DEF Pressure!ConnectDone, Pressure!NoTimer, Pressure!timer
    <3>2. \A u \in Pressure!Users : place[u] = "opening" => place'[u] = "opening"
        BY <2>1
    <3>3. place[Panel] \in {"closing", "starting", "stopping"} => place'[Panel] = place[Panel]
        BY <2>1
    <3> QED
        BY <2>2, <2>4, <2>1, <3>1, <3>2, <3>3 DEF Pressure!IInv, Pressure!TimerInv
  <2> QED
      BY <2>3, <2>4
<1>7. ASSUME NEW t \in Pressure!Users, Pressure!Refused(t) PROVE Pressure!TimerInv'
    BY <1>7 DEF Pressure!Refused, Pressure!Blame, Pressure!Hold, Pressure!Goto,
       Pressure!session, Pressure!timer, Pressure!device, Pressure!flows, Pressure!command,
       Pressure!IInv, Pressure!TypeOK, Pressure!ThreadTypes, Pressure!TimerTypes,
       Pressure!LockHeld, Pressure!Locking, Pressure!TimerInv
<1>8. ASSUME NEW t \in Pressure!Users, Pressure!SetStatus(t) PROVE Pressure!TimerInv'
    BY <1>8 DEF Pressure!SetStatus, Pressure!Goto, Pressure!flags, Pressure!timer,
       Pressure!device, Pressure!flows, Pressure!command, Pressure!IInv, Pressure!TypeOK,
       Pressure!ThreadTypes, Pressure!TimerTypes, Pressure!LockHeld, Pressure!Locking,
       Pressure!TimerInv
<1>9. ASSUME NEW t \in Pressure!Threads, Pressure!Read(t) PROVE Pressure!TimerInv'
    BY <1>9 DEF Pressure!Read, Pressure!BeginRead, Pressure!Goto, Pressure!session,
       Pressure!flags, Pressure!timer, Pressure!device, Pressure!flows, Pressure!command,
       Pressure!IInv, Pressure!TypeOK, Pressure!ThreadTypes, Pressure!TimerTypes,
       Pressure!LockHeld, Pressure!Locking, Pressure!TimerInv
<1>10. ASSUME NEW t \in Pressure!Threads, Pressure!ReadDone(t) PROVE Pressure!TimerInv'
    BY <1>10 DEF Pressure!ReadDone, Pressure!MfcValues, Pressure!Publish, Pressure!Goto,
       Pressure!session, Pressure!timer, Pressure!device, Pressure!IInv, Pressure!TypeOK,
       Pressure!ThreadTypes, Pressure!TimerTypes, Pressure!LockHeld, Pressure!Locking,
       Pressure!TimerInv
<1>11. ASSUME NEW d \in Pressure!Devices, Pressure!Disconnect(d) PROVE Pressure!TimerInv'
    BY <1>11 DEF Pressure!Disconnect, Pressure!Free, Pressure!TimerRequest, Pressure!Goto,
       Pressure!Hold, Pressure!session, Pressure!flags, Pressure!device, Pressure!flows,
       Pressure!command, Pressure!IInv, Pressure!TypeOK, Pressure!ThreadTypes,
       Pressure!TimerTypes, Pressure!LockHeld, Pressure!Locking, Pressure!TimerInv
<1>12. ASSUME NEW d \in Pressure!Devices, Pressure!DisconnectDone(d) PROVE Pressure!TimerInv'
    BY <1>12 DEF Pressure!DisconnectDone, Pressure!Unflag, Pressure!ForgetFlow,
       Pressure!flows, Pressure!Restart, Pressure!Hold, Pressure!Goto, Pressure!device,
       Pressure!TimerStart, Pressure!NoTimer, Pressure!TimerRequest, Pressure!timer,
       Pressure!IInv, Pressure!TypeOK, Pressure!ThreadTypes, Pressure!TimerTypes,
       Pressure!LockHeld, Pressure!Locking, Pressure!TimerInv
<1>13. CASE Pressure!DisablePolling
    BY <1>13 DEF Pressure!DisablePolling, Pressure!Free, Pressure!TimerRequest,
       Pressure!Goto, Pressure!flags, Pressure!device, Pressure!flows, Pressure!command,
       Pressure!IInv, Pressure!TypeOK, Pressure!ThreadTypes, Pressure!TimerTypes,
       Pressure!LockHeld, Pressure!Locking, Pressure!TimerInv
<1>14. CASE Pressure!EnablePolling
    BY <1>14 DEF Pressure!EnablePolling, Pressure!Free, Pressure!Goto, Pressure!flags,
       Pressure!timer, Pressure!device, Pressure!flows, Pressure!locals, Pressure!command,
       Pressure!IInv, Pressure!TypeOK, Pressure!ThreadTypes, Pressure!TimerTypes,
       Pressure!LockHeld, Pressure!Locking, Pressure!TimerInv
<1>15. CASE Pressure!StartPolling
    BY <1>15 DEF Pressure!StartPolling, Pressure!TimerStart, Pressure!Goto,
       Pressure!session, Pressure!flags, Pressure!device, Pressure!flows, Pressure!locals,
       Pressure!command, Pressure!TimerRequest, Pressure!IInv, Pressure!TypeOK,
       Pressure!ThreadTypes, Pressure!TimerTypes, Pressure!LockHeld, Pressure!Locking,
       Pressure!TimerInv
<1>16. CASE Pressure!Shutdown
    BY <1>16 DEF Pressure!Shutdown, Pressure!Free, Pressure!TimerRequest, Pressure!Goto,
       Pressure!flags, Pressure!device, Pressure!flows, Pressure!locals, Pressure!command,
       Pressure!IInv, Pressure!TypeOK, Pressure!ThreadTypes, Pressure!TimerTypes,
       Pressure!LockHeld, Pressure!Locking, Pressure!TimerInv
<1>17. CASE Pressure!ShutdownRelease
    BY <1>17 DEF Pressure!ShutdownRelease, Pressure!ForgetFlow, Pressure!Goto,
       Pressure!timer, Pressure!device, Pressure!locals, Pressure!IInv, Pressure!TypeOK,
       Pressure!ThreadTypes, Pressure!TimerTypes, Pressure!LockHeld, Pressure!Locking,
       Pressure!TimerInv
<1>18. ASSUME NEW v \in Flows, Pressure!PanelFlow(v) PROVE Pressure!TimerInv'
    BY <1>18 DEF Pressure!PanelFlow, Pressure!Free, Pressure!Program, Pressure!ProgramFails,
       Pressure!session, Pressure!flags, Pressure!timer, Pressure!locals, Pressure!flows,
       Pressure!IInv, Pressure!TypeOK, Pressure!ThreadTypes, Pressure!TimerTypes,
       Pressure!LockHeld, Pressure!Locking, Pressure!TimerInv
<1>19. ASSUME NEW v \in Flows, Pressure!SetFlow(v) PROVE Pressure!TimerInv'
    BY <1>19 DEF Pressure!SetFlow, Pressure!Free, Pressure!Goto, Pressure!session,
       Pressure!flags, Pressure!timer, Pressure!device, Pressure!flows, Pressure!locals,
       Pressure!IInv, Pressure!TypeOK, Pressure!ThreadTypes, Pressure!TimerTypes,
       Pressure!LockHeld, Pressure!Locking, Pressure!TimerInv
<1>20. CASE Pressure!WorkerCommand
    BY <1>20 DEF Pressure!WorkerCommand, Pressure!Program, Pressure!Goto,
       Pressure!ProgramFails, Pressure!EndCommand, Pressure!flows, Pressure!session,
       Pressure!flags, Pressure!timer, Pressure!locals, Pressure!IInv, Pressure!TypeOK,
       Pressure!ThreadTypes, Pressure!TimerTypes, Pressure!LockHeld, Pressure!Locking,
       Pressure!TimerInv
<1>21. CASE Pressure!Mark
    BY <1>21 DEF Pressure!Mark, Pressure!Goto, Pressure!session, Pressure!flags,
       Pressure!timer, Pressure!device, Pressure!flows, Pressure!locals, Pressure!IInv,
       Pressure!TypeOK, Pressure!ThreadTypes, Pressure!TimerTypes, Pressure!LockHeld,
       Pressure!Locking, Pressure!TimerInv
<1>22. CASE Pressure!ReadFlow
    BY <1>22 DEF Pressure!ReadFlow, Pressure!BeginRead, Pressure!Goto, Pressure!session,
       Pressure!flags, Pressure!timer, Pressure!device, Pressure!flows, Pressure!command,
       Pressure!IInv, Pressure!TypeOK, Pressure!ThreadTypes, Pressure!TimerTypes,
       Pressure!LockHeld, Pressure!Locking, Pressure!TimerInv
<1>23. CASE Pressure!Answer
    BY <1>23 DEF Pressure!Answer, Pressure!flags, Pressure!Unflag, Pressure!Flag,
       Pressure!MfcValues, Pressure!Judge, Pressure!EndCommand, Pressure!session,
       Pressure!timer, Pressure!device, Pressure!Goto, Pressure!IInv, Pressure!TypeOK,
       Pressure!ThreadTypes, Pressure!TimerTypes, Pressure!LockHeld, Pressure!Locking,
       Pressure!TimerInv
<1>24. CASE Pressure!Reached
    BY <1>24 DEF Pressure!Reached, Pressure!EndCommand, Pressure!session, Pressure!flags,
       Pressure!timer, Pressure!device, Pressure!flows, Pressure!locals, Pressure!Goto,
       Pressure!IInv, Pressure!TypeOK, Pressure!ThreadTypes, Pressure!TimerTypes,
       Pressure!LockHeld, Pressure!Locking, Pressure!TimerInv
<1>25. CASE Pressure!TakeNews
    BY <1>25 DEF Pressure!TakeNews, Pressure!Judge, Pressure!EndCommand, Pressure!session,
       Pressure!flags, Pressure!timer, Pressure!device, Pressure!flows, Pressure!locals,
       Pressure!Goto, Pressure!IInv, Pressure!TypeOK, Pressure!ThreadTypes,
       Pressure!TimerTypes, Pressure!LockHeld, Pressure!Locking, Pressure!TimerInv
<1>26. CASE Pressure!ReadAgain
    BY <1>26 DEF Pressure!ReadAgain, Pressure!Goto, Pressure!session, Pressure!flags,
       Pressure!timer, Pressure!device, Pressure!flows, Pressure!locals, Pressure!command,
       Pressure!IInv, Pressure!TypeOK, Pressure!ThreadTypes, Pressure!TimerTypes,
       Pressure!LockHeld, Pressure!Locking, Pressure!TimerInv
<1>27. CASE Pressure!Interrupt
    BY <1>27 DEF Pressure!Interrupt, Pressure!Hold, Pressure!EndCommand, Pressure!session,
       Pressure!flags, Pressure!timer, Pressure!device, Pressure!flows, Pressure!Goto,
       Pressure!IInv, Pressure!TypeOK, Pressure!ThreadTypes, Pressure!TimerTypes,
       Pressure!LockHeld, Pressure!Locking, Pressure!TimerInv
<1>28. CASE Pressure!Move
    BY <1>28 DEF Pressure!Move, Pressure!session, Pressure!flags, Pressure!timer,
       Pressure!flows, Pressure!locals, Pressure!IInv, Pressure!TypeOK,
       Pressure!ThreadTypes, Pressure!TimerTypes, Pressure!LockHeld, Pressure!Locking,
       Pressure!TimerInv
<1>29. CASE UNCHANGED Pressure!vars
    BY <1>29 DEF Pressure!vars, Pressure!session, Pressure!flags, Pressure!timer,
       Pressure!device, Pressure!flows, Pressure!locals, Pressure!command, Pressure!IInv,
       Pressure!TypeOK, Pressure!ThreadTypes, Pressure!TimerTypes, Pressure!LockHeld,
       Pressure!Locking, Pressure!TimerInv
<1> QED
    BY <1>1, <1>2, <1>3, <1>4, <1>5, <1>6, <1>7, <1>8, <1>9, <1>10, <1>11, <1>12, <1>13,
       <1>14, <1>15, <1>16, <1>17, <1>18, <1>19, <1>20, <1>21, <1>22, <1>23, <1>24, <1>25,
       <1>26, <1>27, <1>28, <1>29 DEF Pressure!Next, Pressure!ConnectStep, Pressure!GuiStep,
       Pressure!WorkerStep

\* No step takes the flag of a device that has failed last.
LEMMA PressureFlags ==
    ASSUME Pressure!PressureAssumption, Pressure!IInv, [Pressure!Next]_(Pressure!vars)
    PROVE  Pressure!FailureShown'
<1> USE DEF Pressure!PressureAssumption, Pressure!Users, Pressure!Threads, Pressure!Devices
<1>1. ASSUME NEW t \in Pressure!Users, NEW d \in Pressure!Devices, Pressure!Misconfigured(t, d) PROVE Pressure!FailureShown'
    BY <1>1 DEF Pressure!Misconfigured, Pressure!Free, Pressure!Blame, Pressure!Hold,
       Pressure!Goto, Pressure!session, Pressure!timer, Pressure!device, Pressure!flows,
       Pressure!command, Pressure!IInv, Pressure!FailureShown
<1>2. ASSUME NEW t \in Pressure!Users, Pressure!OpenFails(t) PROVE Pressure!FailureShown'
    BY <1>2 DEF Pressure!OpenFails, Pressure!Flag, Pressure!Goto, Pressure!timer,
       Pressure!device, Pressure!flows, Pressure!locals, Pressure!command, Pressure!IInv,
       Pressure!FailureShown
<1>3. ASSUME NEW t \in Pressure!Users, Pressure!Opened(t) PROVE Pressure!FailureShown'
    BY <1>3 DEF Pressure!Opened, Pressure!Unflag, Pressure!Goto, Pressure!timer,
       Pressure!device, Pressure!flows, Pressure!command, Pressure!IInv,
       Pressure!FailureShown
<1>4. ASSUME NEW t \in Pressure!Users, Pressure!Refused(t) PROVE Pressure!FailureShown'
    BY <1>4 DEF Pressure!Refused, Pressure!Blame, Pressure!Hold, Pressure!Goto,
       Pressure!session, Pressure!timer, Pressure!device, Pressure!flows, Pressure!command,
       Pressure!IInv, Pressure!FailureShown
<1>5. ASSUME NEW t \in Pressure!Threads, Pressure!ReadDone(t) PROVE Pressure!FailureShown'
    BY <1>5 DEF Pressure!ReadDone, Pressure!MfcValues, Pressure!Publish, Pressure!Goto,
       Pressure!session, Pressure!timer, Pressure!device, Pressure!IInv,
       Pressure!FailureShown
<1>6. ASSUME NEW d \in Pressure!Devices, Pressure!DisconnectDone(d) PROVE Pressure!FailureShown'
    BY <1>6 DEF Pressure!DisconnectDone, Pressure!Unflag, Pressure!ForgetFlow,
       Pressure!flows, Pressure!Restart, Pressure!Hold, Pressure!Goto, Pressure!device,
       Pressure!TimerStart, Pressure!NoTimer, Pressure!TimerRequest, Pressure!timer,
       Pressure!IInv, Pressure!FailureShown
<1>7. CASE Pressure!ShutdownRelease
    BY <1>7 DEF Pressure!ShutdownRelease, Pressure!ForgetFlow, Pressure!Goto,
       Pressure!timer, Pressure!device, Pressure!locals, Pressure!IInv,
       Pressure!FailureShown
<1>8. CASE Pressure!Answer
    BY <1>8 DEF Pressure!Answer, Pressure!flags, Pressure!Unflag, Pressure!Flag,
       Pressure!MfcValues, Pressure!Judge, Pressure!EndCommand, Pressure!session,
       Pressure!timer, Pressure!device, Pressure!Goto, Pressure!IInv, Pressure!FailureShown
<1>9. CASE Pressure!Move \/ Pressure!DeliverTimer
           \/ (\E t \in Pressure!Users, d \in Pressure!Devices : Pressure!Connect(t, d))
           \/ (\E t \in Pressure!Users : Pressure!ConnectDone(t))
    BY <1>9 DEF Pressure!Move, Pressure!session, Pressure!flags, Pressure!timer,
       Pressure!flows, Pressure!locals, Pressure!DeliverTimer, Pressure!device,
       Pressure!command, Pressure!Connect, Pressure!Free, Pressure!RoomForTimer,
       Pressure!TimerRequest, Pressure!Goto, Pressure!Hold, Pressure!ConnectDone,
       Pressure!TimerStart, Pressure!NoTimer, Pressure!IInv, Pressure!FailureShown
<1>10. CASE (\E t \in Pressure!Users : Pressure!SetStatus(t))
           \/ (\E t \in Pressure!Threads : Pressure!Read(t))
           \/ (\E d \in Pressure!Devices : Pressure!Disconnect(d)) \/ Pressure!DisablePolling
    BY <1>10 DEF Pressure!SetStatus, Pressure!Goto, Pressure!flags, Pressure!timer,
       Pressure!device, Pressure!flows, Pressure!command, Pressure!Read, Pressure!BeginRead,
       Pressure!session, Pressure!Disconnect, Pressure!Free, Pressure!TimerRequest,
       Pressure!Hold, Pressure!DisablePolling, Pressure!IInv, Pressure!FailureShown
<1>11. CASE Pressure!EnablePolling \/ Pressure!StartPolling \/ Pressure!Shutdown
           \/ (\E v \in Flows : Pressure!PanelFlow(v))
    BY <1>11 DEF Pressure!EnablePolling, Pressure!Free, Pressure!Goto, Pressure!flags,
       Pressure!timer, Pressure!device, Pressure!flows, Pressure!locals, Pressure!command,
       Pressure!StartPolling, Pressure!TimerStart, Pressure!session, Pressure!TimerRequest,
       Pressure!Shutdown, Pressure!PanelFlow, Pressure!Program, Pressure!ProgramFails,
       Pressure!IInv, Pressure!FailureShown
<1>12. CASE (\E v \in Flows : Pressure!SetFlow(v)) \/ Pressure!WorkerCommand \/ Pressure!Mark
           \/ Pressure!ReadFlow
    BY <1>12 DEF Pressure!SetFlow, Pressure!Free, Pressure!Goto, Pressure!session,
       Pressure!flags, Pressure!timer, Pressure!device, Pressure!flows, Pressure!locals,
       Pressure!WorkerCommand, Pressure!Program, Pressure!ProgramFails, Pressure!EndCommand,
       Pressure!Mark, Pressure!ReadFlow, Pressure!BeginRead, Pressure!command,
       Pressure!IInv, Pressure!FailureShown
<1>13. CASE Pressure!Reached \/ Pressure!TakeNews \/ Pressure!ReadAgain \/ Pressure!Interrupt
    BY <1>13 DEF Pressure!Reached, Pressure!EndCommand, Pressure!session, Pressure!flags,
       Pressure!timer, Pressure!device, Pressure!flows, Pressure!locals, Pressure!Goto,
       Pressure!TakeNews, Pressure!Judge, Pressure!ReadAgain, Pressure!command,
       Pressure!Interrupt, Pressure!Hold, Pressure!IInv, Pressure!FailureShown
<1>14. CASE UNCHANGED Pressure!vars
    BY <1>14 DEF Pressure!vars, Pressure!session, Pressure!flags, Pressure!timer,
       Pressure!device, Pressure!flows, Pressure!locals, Pressure!command, Pressure!IInv,
       Pressure!FailureShown
<1> QED
    BY <1>1, <1>2, <1>3, <1>4, <1>5, <1>6, <1>7, <1>8, <1>9, <1>10, <1>11, <1>12, <1>13,
       <1>14 DEF Pressure!Next, Pressure!ConnectStep, Pressure!GuiStep, Pressure!WorkerStep

\* The pressure engine starts in its invariant.
LEMMA PressureInit == Pressure!PressureAssumption /\ Pressure!Init => Pressure!IInv
<1> SUFFICES ASSUME Pressure!PressureAssumption, Pressure!Init PROVE Pressure!IInv
    OBVIOUS
<1> USE DEF Pressure!PressureAssumption, Pressure!Init, Pressure!Users, Pressure!Threads,
            Pressure!Devices
<1>1. Pressure!TypeOK
  <2>1. Pressure!ThreadTypes
      BY DEF Pressure!ThreadTypes, Pressure!Places
  <2>2. Pressure!FlowTypes /\ Pressure!DeviceTypes
      BY DEF Pressure!FlowTypes, Pressure!DeviceTypes
  <2>3. Pressure!TimerTypes
      BY DEF Pressure!TimerTypes
  <2> QED
      BY <2>1, <2>2, <2>3 DEF Pressure!TypeOK
<1>2. Pressure!LockHeld /\ Pressure!ReadsCarry
    BY DEF Pressure!LockHeld, Pressure!ReadsCarry, Pressure!Locking
<1>3. Pressure!CommandInv /\ Pressure!FailureShown /\ Pressure!SetpointKept
    BY DEF Pressure!CommandInv, Pressure!FailureShown, Pressure!SetpointKept,
       Pressure!Commanding
<1>4. Pressure!TimerInv
    BY DEF Pressure!TimerInv
<1> QED
    BY <1>1, <1>2, <1>3, <1>4 DEF Pressure!IInv

\* The inductive invariant of the pressure engine, for every set of flows and readers.
THEOREM PressureInvariant == Pressure!Spec => []Pressure!IInv
<1>1. Pressure!PressureAssumption
    BY PressureAssumption
    DEF Pressure!PressureAssumption, Pressure!Devices, Pressure!Users, Devices, Users
<1>2. Pressure!Init => Pressure!IInv
    BY <1>1, PressureInit
<1>3. Pressure!IInv /\ [Pressure!Next]_(Pressure!vars) => Pressure!IInv'
  <2> SUFFICES ASSUME Pressure!IInv, [Pressure!Next]_(Pressure!vars) PROVE Pressure!IInv'
      OBVIOUS
  <2>1. Pressure!TypeOK'
      BY <1>1, PressureThreads, PressureFlows, PressureDevices, PressureTimers
      DEF Pressure!TypeOK
  <2> QED
      BY <1>1, <2>1, PressureLock, PressureSetpoint, PressureCommand, PressureTimer,
         PressureFlags DEF Pressure!IInv
<1> QED
    BY <1>2, <1>3, PTL DEF Pressure!Spec

\* With a device, a rate and no thread in between the timer fires, whatever the other device
\* went through, unless a connect failed or was stopped.
THEOREM PressurePolled == Pressure!Spec => []PolledWhileConnected
<1>1. Pressure!IInv => PolledWhileConnected
    BY DEF Pressure!IInv, Pressure!TimerInv, Pressure!Users, PolledWhileConnected, Quiet, Users
<1> QED
    BY <1>1, PressureInvariant, PTL

\* A device whose last connect or read failed is flagged.
THEOREM PressureFailureShown == Pressure!Spec => []FailureShown
<1>1. Pressure!IInv => FailureShown
    BY DEF Pressure!IInv, Pressure!FailureShown, FailureShown
<1> QED
    BY <1>1, PressureInvariant, PTL

\* The set point the engine tells is the last one a caller was told is set.
THEOREM PressureSetpointKept == Pressure!Spec => []SetpointKept
<1>1. Pressure!IInv => SetpointKept
    BY DEF Pressure!IInv, Pressure!SetpointKept, SetpointKept
<1> QED
    BY <1>1, PressureInvariant, PTL

\* A Set Flow that ends as reached has come to its set point since its command.
THEOREM PressureReached == Pressure!Spec => []ReachedSinceSet
<1>1. Pressure!IInv => ReachedSinceSet
    BY DEF Pressure!IInv, Pressure!CommandInv, ReachedSinceSet
<1> QED
    BY <1>1, PressureInvariant, PTL
=============================================================================
