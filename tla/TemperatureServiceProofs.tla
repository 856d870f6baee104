----------------------- MODULE TemperatureServiceProofs -----------------------
(***************************************************************************)
(* Proofs about TemperatureService, for any number of threads, endpoints   *)
(* and commands.                                                           *)
(***************************************************************************)
EXTENDS TemperatureService, TLAPS

\* Every step is one of these operations.
LEMMA NextActions ==
    ASSUME Next
    PROVE  \/ \E t \in Threads :
               \/ Request(t)
               \/ Share(t)
               \/ StartCycle(t)
               \/ ReadNothing(t)
               \/ ReadPrimary(t)
               \/ ReadSecondary(t)
               \/ JudgePrimary(t)
               \/ TakeSnapshot(t)
               \/ TakeTarget(t)
               \/ JudgeWindow(t)
               \/ WriteFlag(t)
               \/ StoreState(t)
               \/ Publish(t)
               \/ Return(t)
               \/ CommandDone(t)
               \/ CommandFails(t)
               \/ Open(t)
               \/ Refuse(t)
               \/ \E s \in Slots : Command(t, s) \/ \E p \in Ports : Connect(t, s, p)
           \/ \E s \in Slots : Disconnect(s) \/ DisconnectFails(s)
           \/ Shutdown \/ JoinPoller \/ CloseSecondary \/ ClosePrimary
           \/ EndShutdown \/ ReturnFromShutdown
BY DEF Next, Begin, Progress, GuiProgress, Threads

\* The invariant holds at the start.
LEMMA InitInvariant == Init => IInv
<1> SUFFICES ASSUME Init PROVE IInv
    OBVIOUS
<1> USE ServiceAssumption DEF Init, Threads, Slots, Blank, Empty
<1>1. TypeOK
    BY DEF TypeOK, Places, NoJob, NoCycle
<1>2. LockHeld
    BY DEF TypeOK, LockHeld, Cycling
<1>3. PrimaryFresh
    BY DEF TypeOK, PrimaryFresh, FreshFor, PrimarySharedFresh, Cycling
<1>4. PrimarySharedFresh
    BY DEF TypeOK, PrimarySharedFresh, LockHeld, Cycling, PrimaryForgotten
<1>5. PrimaryWindow /\ PrimaryTargetKnown /\ PrimaryStableOnTarget
    BY DEF TypeOK, PrimarySharedFresh, PrimaryWindow, PrimaryTargetKnown, PrimaryStableOnTarget, StableOnTarget
<1>6. PrimaryForgotten
    BY DEF TypeOK, PrimaryForgotten
<1> QED
    BY <1>1, <1>2, <1>3, <1>4, <1>5, <1>6 DEF IInv

\* Discarding the state of a session keeps the types.
LEMMA InvalidateTyped ==
    ASSUME TypeOK, NEW s \in Slots, Invalidate(s)
    PROVE  /\ settling' \in [Slots -> Nat \cup {None}] /\ stable' \in [Slots -> Nat \cup {None}]
           /\ cache' \in [Slots -> [read : Nat \cup {None}, stable : Nat \cup {None}]]
<1>1. Empty \in [read : Nat \cup {None}, stable : Nat \cup {None}]
    BY DEF Empty
<1> QED
    BY <1>1 DEF TypeOK, Invalidate

\* Reading a session keeps the types.
LEMMA ReadTyped ==
    ASSUME TypeOK, NEW s \in Slots, ReadSession(s)
    PROVE  /\ target' \in [Slots -> Nat \cup {None}]
           /\ settling' \in [Slots -> Nat \cup {None}] /\ stable' \in [Slots -> Nat \cup {None}]
           /\ cache' \in [Slots -> [read : Nat \cup {None}, stable : Nat \cup {None}]]
<1>1. CASE UNCHANGED <<target, settling, stable, cache>>
    BY <1>1 DEF TypeOK
<1>2. CASE Invalidate(s) /\ UNCHANGED target
    BY <1>2, InvalidateTyped DEF TypeOK
<1>3. CASE /\ target' = [target EXCEPT ![s] = IF @ = None THEN device[s] ELSE @]
           /\ cache' = [cache EXCEPT ![s] = [read |-> device[s], stable |-> None]]
           /\ settling' \in {settling, [settling EXCEPT ![s] = None]}
           /\ stable' = IF settling' = settling THEN stable ELSE [stable EXCEPT ![s] = None]
  <2>1. device[s] \in Nat
      BY DEF TypeOK
  <2> QED
      BY <1>3, <2>1 DEF TypeOK
<1> QED
    BY <1>1, <1>2, <1>3 DEF ReadSession

\* Every step keeps the invariant.
LEMMA StepInvariant ==
    ASSUME IInv, [Next]_vars
    PROVE  IInv'
<1> USE ServiceAssumption
        DEF IInv, Threads, Slots, Goto, session, control, sharing, down, locals
<1>0. CASE UNCHANGED vars
    BY <1>0 DEF vars, TypeOK, LockHeld, PrimaryFresh, FreshFor, PrimarySharedFresh,
        PrimaryWindow, PrimaryTargetKnown, PrimaryStableOnTarget, StableOnTarget,
        PrimaryForgotten
<1>1. ASSUME NEW t \in Threads, Request(t) PROVE IInv'
  <2>1. TypeOK'
    BY <1>1 DEF Request, TypeOK, Places, Empty, Blank, NoJob, NoCycle
  <2>2. LockHeld'
    BY <1>1 DEF Request, TypeOK, LockHeld, Cycling
  <2>3. PrimaryFresh'
    BY <1>1 DEF Request, TypeOK, PrimaryFresh, FreshFor, PrimarySharedFresh, Cycling
  <2>4. PrimarySharedFresh'
    BY <1>1 DEF Request, TypeOK, PrimarySharedFresh, LockHeld, Cycling, PrimaryForgotten,
        Empty
  <2>5. PrimaryWindow' /\ PrimaryTargetKnown' /\ PrimaryStableOnTarget'
    BY <1>1 DEF Request, TypeOK, PrimarySharedFresh, PrimaryWindow, PrimaryTargetKnown,
        PrimaryStableOnTarget, StableOnTarget, Empty
  <2>6. PrimaryForgotten'
    BY <1>1 DEF Request, TypeOK, PrimaryForgotten, Empty
  <2> QED
    BY <2>1, <2>2, <2>3, <2>4, <2>5, <2>6
<1>2. ASSUME NEW t \in Threads, Share(t) PROVE IInv'
  <2>1. TypeOK'
    BY <1>2 DEF Share, TypeOK, Places, Empty, Blank, NoJob, NoCycle
  <2>2. LockHeld'
    BY <1>2 DEF Share, TypeOK, LockHeld, Cycling
  <2>3. PrimaryFresh'
    BY <1>2 DEF Share, TypeOK, PrimaryFresh, FreshFor, PrimarySharedFresh, Cycling
  <2>4. PrimarySharedFresh'
    BY <1>2 DEF Share, TypeOK, PrimarySharedFresh, LockHeld, Cycling, PrimaryForgotten, Empty
  <2>5. PrimaryWindow' /\ PrimaryTargetKnown' /\ PrimaryStableOnTarget'
    BY <1>2 DEF Share, TypeOK, PrimarySharedFresh, PrimaryWindow, PrimaryTargetKnown,
        PrimaryStableOnTarget, StableOnTarget, Empty
  <2>6. PrimaryForgotten'
    BY <1>2 DEF Share, TypeOK, PrimaryForgotten, Empty
  <2> QED
    BY <2>1, <2>2, <2>3, <2>4, <2>5, <2>6
<1>3. ASSUME NEW t \in Threads, StartCycle(t) PROVE IInv'
  <2>1. TypeOK'
    BY <1>3 DEF StartCycle, NoCycle, TypeOK, Places, Empty, Blank, NoJob
  <2>2. LockHeld'
    BY <1>3 DEF StartCycle, NoCycle, TypeOK, LockHeld, Cycling
  <2>3. PrimaryFresh'
    BY <1>3 DEF StartCycle, NoCycle, TypeOK, PrimaryFresh, FreshFor, PrimarySharedFresh,
        Cycling
  <2>4. PrimarySharedFresh'
    BY <1>3 DEF StartCycle, NoCycle, TypeOK, PrimarySharedFresh, LockHeld, Cycling,
        PrimaryForgotten, Empty
  <2>5. PrimaryWindow' /\ PrimaryTargetKnown' /\ PrimaryStableOnTarget'
    BY <1>3 DEF StartCycle, NoCycle, TypeOK, PrimarySharedFresh, PrimaryWindow,
        PrimaryTargetKnown, PrimaryStableOnTarget, StableOnTarget, Empty
  <2>6. PrimaryForgotten'
    BY <1>3 DEF StartCycle, NoCycle, TypeOK, PrimaryForgotten, Empty
  <2> QED
    BY <2>1, <2>2, <2>3, <2>4, <2>5, <2>6
<1>4. ASSUME NEW t \in Threads, ReadNothing(t) PROVE IInv'
  <2>a. shared' \in [Slots -> Nat \cup {None}] /\ got' \in [Threads -> [Slots -> Nat \cup {None}]]
    BY <1>4 DEF ReadNothing, TypeOK, Blank
  <2>b. pc' \in [Threads -> Places]
    <3>1. pc \in [Threads -> Places] /\ pc' = [pc EXCEPT ![t] = "returned"]
      BY <1>4 DEF ReadNothing, TypeOK
    <3> QED
      BY <3>1 DEF Places
  <2>c. revision' \in Nat
    <3>1. revision \in Nat /\ revision' = revision + 1
      BY <1>4 DEF ReadNothing, TypeOK
    <3> QED
      BY <3>1
  <2>1. TypeOK'
    BY <1>4, <2>a, <2>b, <2>c DEF ReadNothing, TypeOK
  <2>2. LockHeld'
    BY <1>4 DEF ReadNothing, Blank, TypeOK, LockHeld, Cycling
  <2>3. PrimaryFresh'
    BY <1>4 DEF ReadNothing, Blank, TypeOK, PrimaryFresh, FreshFor, PrimarySharedFresh,
        Cycling
  <2>4. PrimarySharedFresh'
    BY <1>4 DEF ReadNothing, Blank, TypeOK, PrimarySharedFresh, LockHeld, Cycling,
        PrimaryForgotten, Empty
  <2>5. PrimaryWindow' /\ PrimaryTargetKnown' /\ PrimaryStableOnTarget'
    BY <1>4 DEF ReadNothing, Blank, TypeOK, PrimarySharedFresh, PrimaryWindow,
        PrimaryTargetKnown, PrimaryStableOnTarget, StableOnTarget, Empty
  <2>6. PrimaryForgotten'
    BY <1>4 DEF ReadNothing, Blank, TypeOK, PrimaryForgotten, Empty
  <2> QED
    BY <2>1, <2>2, <2>3, <2>4, <2>5, <2>6
<1>5. ASSUME NEW t \in Threads, ReadPrimary(t) PROVE IInv'
  <2>1. TypeOK'
    BY <1>5, ReadTyped DEF ReadPrimary, TypeOK, Places
  <2>2. LockHeld'
    BY <1>5 DEF ReadPrimary, ReadSession, Invalidate, TypeOK, LockHeld, Cycling
  <2>3. PrimaryFresh'
    BY <1>5 DEF ReadPrimary, ReadSession, Invalidate, TypeOK, PrimaryFresh, FreshFor,
        PrimarySharedFresh, Cycling
  <2>4. PrimarySharedFresh'
    BY <1>5 DEF ReadPrimary, ReadSession, Invalidate, TypeOK, PrimarySharedFresh, LockHeld,
        Cycling, PrimaryForgotten, Empty
  <2>5. PrimaryWindow' /\ PrimaryTargetKnown' /\ PrimaryStableOnTarget'
    BY <1>5 DEF ReadPrimary, ReadSession, Invalidate, TypeOK, PrimarySharedFresh,
        PrimaryWindow, PrimaryTargetKnown, PrimaryStableOnTarget, StableOnTarget, Empty
  <2>6. PrimaryForgotten'
    BY <1>5 DEF ReadPrimary, ReadSession, Invalidate, TypeOK, PrimaryForgotten, Empty
  <2> QED
    BY <2>1, <2>2, <2>3, <2>4, <2>5, <2>6
<1>6. ASSUME NEW t \in Threads, ReadSecondary(t) PROVE IInv'
  <2>1. TypeOK'
    BY <1>6, ReadTyped DEF ReadSecondary, TypeOK, Places
  <2>2. LockHeld'
    BY <1>6 DEF ReadSecondary, ReadSession, Invalidate, TypeOK, LockHeld, Cycling
  <2>3. PrimaryFresh'
    BY <1>6 DEF ReadSecondary, ReadSession, Invalidate, TypeOK, PrimaryFresh, FreshFor,
        PrimarySharedFresh, Cycling
  <2>4. PrimarySharedFresh'
    BY <1>6 DEF ReadSecondary, ReadSession, Invalidate, TypeOK, PrimarySharedFresh, LockHeld,
        Cycling, PrimaryForgotten, Empty
  <2>5. PrimaryWindow' /\ PrimaryTargetKnown' /\ PrimaryStableOnTarget'
    BY <1>6 DEF ReadSecondary, ReadSession, Invalidate, TypeOK, PrimarySharedFresh,
        PrimaryWindow, PrimaryTargetKnown, PrimaryStableOnTarget, StableOnTarget, Empty
  <2>6. PrimaryForgotten'
    BY <1>6 DEF ReadSecondary, ReadSession, Invalidate, TypeOK, PrimaryForgotten, Empty
  <2> QED
    BY <2>1, <2>2, <2>3, <2>4, <2>5, <2>6
<1>7. ASSUME NEW t \in Threads, JudgePrimary(t) PROVE IInv'
  <2>a. /\ settling' \in [Slots -> Nat \cup {None}] /\ stable' \in [Slots -> Nat \cup {None}]
        /\ cache' \in [Slots -> [read : Nat \cup {None}, stable : Nat \cup {None}]]
        /\ UNCHANGED <<device, target>>
    <3>1. CASE UNCHANGED control
        BY <3>1 DEF TypeOK
    <3>2. ASSUME NEW window \in Windows("primary", target["primary"]),
                 NEW verdict \in Verdicts("primary", window),
                 settling' = [settling EXCEPT !["primary"] = window],
                 stable' = [stable EXCEPT !["primary"] = verdict],
                 cache' = [cache EXCEPT !["primary"].stable = verdict],
                 UNCHANGED <<device, target>>
          PROVE  /\ settling' \in [Slots -> Nat \cup {None}]
                 /\ stable' \in [Slots -> Nat \cup {None}]
                 /\ cache' \in [Slots -> [read : Nat \cup {None}, stable : Nat \cup {None}]]
                 /\ UNCHANGED <<device, target>>
      <4>1. window \in Nat \cup {None} /\ verdict \in Nat \cup {None}
        BY <3>2 DEF Windows, Verdicts, TypeOK
      <4> QED
        BY <3>2, <4>1 DEF TypeOK
    <3> QED
        BY <1>7, <3>1, <3>2 DEF JudgePrimary
  <2>1. TypeOK'
    BY <1>7, <2>a DEF JudgePrimary, TypeOK, Places
  <2>2. LockHeld'
    BY <1>7 DEF JudgePrimary, Windows, Verdicts, TypeOK, LockHeld, Cycling
  <2>3. PrimaryFresh'
    BY <1>7 DEF JudgePrimary, Windows, Verdicts, TypeOK, PrimaryFresh, FreshFor,
        PrimarySharedFresh, Cycling
  <2>4. PrimarySharedFresh'
    BY <1>7 DEF JudgePrimary, Windows, Verdicts, TypeOK, PrimarySharedFresh, LockHeld,
        Cycling, PrimaryForgotten, Empty
  <2>5. PrimaryWindow' /\ PrimaryTargetKnown' /\ PrimaryStableOnTarget'
    BY <1>7 DEF JudgePrimary, Windows, Verdicts, TypeOK, PrimarySharedFresh, PrimaryWindow,
        PrimaryTargetKnown, PrimaryStableOnTarget, StableOnTarget, Empty
  <2>6. PrimaryForgotten'
    BY <1>7 DEF JudgePrimary, Windows, Verdicts, TypeOK, PrimaryForgotten, Empty
  <2> QED
    BY <2>1, <2>2, <2>3, <2>4, <2>5, <2>6
<1>8. ASSUME NEW t \in Threads, TakeSnapshot(t) PROVE IInv'
  <2>1. TypeOK'
    BY <1>8 DEF TakeSnapshot, TypeOK, Places, Empty, Blank, NoJob, NoCycle
  <2>2. LockHeld'
    BY <1>8 DEF TakeSnapshot, TypeOK, LockHeld, Cycling
  <2>3. PrimaryFresh'
    BY <1>8 DEF TakeSnapshot, TypeOK, PrimaryFresh, FreshFor, PrimarySharedFresh, Cycling
  <2>4. PrimarySharedFresh'
    BY <1>8 DEF TakeSnapshot, TypeOK, PrimarySharedFresh, LockHeld, Cycling, PrimaryForgotten,
        Empty
  <2>5. PrimaryWindow' /\ PrimaryTargetKnown' /\ PrimaryStableOnTarget'
    BY <1>8 DEF TakeSnapshot, TypeOK, PrimarySharedFresh, PrimaryWindow, PrimaryTargetKnown,
        PrimaryStableOnTarget, StableOnTarget, Empty
  <2>6. PrimaryForgotten'
    BY <1>8 DEF TakeSnapshot, TypeOK, PrimaryForgotten, Empty
  <2> QED
    BY <2>1, <2>2, <2>3, <2>4, <2>5, <2>6
<1>9. ASSUME NEW t \in Threads, TakeTarget(t) PROVE IInv'
  <2>1. TypeOK'
    BY <1>9 DEF TakeTarget, TypeOK, Places, Empty, Blank, NoJob, NoCycle
  <2>2. LockHeld'
    BY <1>9 DEF TakeTarget, TypeOK, LockHeld, Cycling
  <2>3. PrimaryFresh'
    BY <1>9 DEF TakeTarget, TypeOK, PrimaryFresh, FreshFor, PrimarySharedFresh, Cycling
  <2>4. PrimarySharedFresh'
    BY <1>9 DEF TakeTarget, TypeOK, PrimarySharedFresh, LockHeld, Cycling, PrimaryForgotten,
        Empty
  <2>5. PrimaryWindow' /\ PrimaryTargetKnown' /\ PrimaryStableOnTarget'
    BY <1>9 DEF TakeTarget, TypeOK, PrimarySharedFresh, PrimaryWindow, PrimaryTargetKnown,
        PrimaryStableOnTarget, StableOnTarget, Empty
  <2>6. PrimaryForgotten'
    BY <1>9 DEF TakeTarget, TypeOK, PrimaryForgotten, Empty
  <2> QED
    BY <2>1, <2>2, <2>3, <2>4, <2>5, <2>6
<1>10. ASSUME NEW t \in Threads, JudgeWindow(t) PROVE IInv'
  <2>a. PICK window \in Windows("secondary", cycle.goal) :
            \E verdict \in Verdicts("secondary", window) :
                /\ settling' = [settling EXCEPT !["secondary"] = window]
                /\ cycle' = [cycle EXCEPT !.verdict = verdict]
    BY <1>10 DEF JudgeWindow
  <2>b. PICK verdict \in Verdicts("secondary", window) :
            /\ settling' = [settling EXCEPT !["secondary"] = window]
            /\ cycle' = [cycle EXCEPT !.verdict = verdict]
    BY <2>a
  <2>c. window \in Nat \cup {None} /\ verdict \in Nat \cup {None}
    BY <2>a, <2>b DEF Windows, Verdicts, TypeOK
  <2>1. TypeOK'
    BY <1>10, <2>b, <2>c DEF JudgeWindow, TypeOK, Places
  <2>2. LockHeld'
    BY <1>10 DEF JudgeWindow, Windows, Verdicts, TypeOK, LockHeld, Cycling
  <2>3. PrimaryFresh'
    BY <1>10 DEF JudgeWindow, Windows, Verdicts, TypeOK, PrimaryFresh, FreshFor,
        PrimarySharedFresh, Cycling
  <2>4. PrimarySharedFresh'
    BY <1>10 DEF JudgeWindow, Windows, Verdicts, TypeOK, PrimarySharedFresh, LockHeld,
        Cycling, PrimaryForgotten, Empty
  <2>5. PrimaryWindow' /\ PrimaryTargetKnown' /\ PrimaryStableOnTarget'
    BY <1>10 DEF JudgeWindow, Windows, Verdicts, TypeOK, PrimarySharedFresh, PrimaryWindow,
        PrimaryTargetKnown, PrimaryStableOnTarget, StableOnTarget, Empty
  <2>6. PrimaryForgotten'
    BY <1>10 DEF JudgeWindow, Windows, Verdicts, TypeOK, PrimaryForgotten, Empty
  <2> QED
    BY <2>1, <2>2, <2>3, <2>4, <2>5, <2>6
<1>11. ASSUME NEW t \in Threads, WriteFlag(t) PROVE IInv'
  <2>1. TypeOK'
    BY <1>11 DEF WriteFlag, TypeOK, Places, Empty, Blank, NoJob, NoCycle
  <2>2. LockHeld'
    BY <1>11 DEF WriteFlag, TypeOK, LockHeld, Cycling
  <2>3. PrimaryFresh'
    BY <1>11 DEF WriteFlag, TypeOK, PrimaryFresh, FreshFor, PrimarySharedFresh, Cycling
  <2>4. PrimarySharedFresh'
    BY <1>11 DEF WriteFlag, TypeOK, PrimarySharedFresh, LockHeld, Cycling, PrimaryForgotten,
        Empty
  <2>5. PrimaryWindow' /\ PrimaryTargetKnown' /\ PrimaryStableOnTarget'
    BY <1>11 DEF WriteFlag, TypeOK, PrimarySharedFresh, PrimaryWindow, PrimaryTargetKnown,
        PrimaryStableOnTarget, StableOnTarget, Empty
  <2>6. PrimaryForgotten'
    BY <1>11 DEF WriteFlag, TypeOK, PrimaryForgotten, Empty
  <2> QED
    BY <2>1, <2>2, <2>3, <2>4, <2>5, <2>6
<1>12. ASSUME NEW t \in Threads, StoreState(t) PROVE IInv'
  <2>1. TypeOK'
    BY <1>12 DEF StoreState, TypeOK, Places, Empty, Blank, NoJob, NoCycle
  <2>2. LockHeld'
    BY <1>12 DEF StoreState, TypeOK, LockHeld, Cycling
  <2>3. PrimaryFresh'
    BY <1>12 DEF StoreState, TypeOK, PrimaryFresh, FreshFor, PrimarySharedFresh, Cycling
  <2>4. PrimarySharedFresh'
    BY <1>12 DEF StoreState, TypeOK, PrimarySharedFresh, LockHeld, Cycling, PrimaryForgotten,
        Empty
  <2>5. PrimaryWindow' /\ PrimaryTargetKnown' /\ PrimaryStableOnTarget'
    BY <1>12 DEF StoreState, TypeOK, PrimarySharedFresh, PrimaryWindow, PrimaryTargetKnown,
        PrimaryStableOnTarget, StableOnTarget, Empty
  <2>6. PrimaryForgotten'
    BY <1>12 DEF StoreState, TypeOK, PrimaryForgotten, Empty
  <2> QED
    BY <2>1, <2>2, <2>3, <2>4, <2>5, <2>6
<1>13. ASSUME NEW t \in Threads, Publish(t) PROVE IInv'
  <2>a. [s \in Slots |-> cache[s].read] \in [Slots -> Nat \cup {None}]
    BY DEF TypeOK
  <2>b. NoCycle \in [state : [read : Nat \cup {None}, stable : Nat \cup {None}],
                     goal : Nat \cup {None}, verdict : Nat \cup {None}]
    BY DEF NoCycle, Empty
  <2>c. shared' \in [Slots -> Nat \cup {None}] /\ got' \in [Threads -> [Slots -> Nat \cup {None}]]
    BY <1>13, <2>a DEF Publish, TypeOK
  <2>d. pc' \in [Threads -> Places]
    <3>1. pc \in [Threads -> Places] /\ pc' = [pc EXCEPT ![t] = "returned"]
      BY <1>13 DEF Publish, TypeOK
    <3> QED
      BY <3>1 DEF Places
  <2>e. revision' \in Nat
    <3>1. revision \in Nat /\ revision' = revision + 1
      BY <1>13 DEF Publish, TypeOK
    <3> QED
      BY <3>1
  <2>f. lock' \in [Slots -> Threads \cup {None}]
    BY <1>13 DEF Publish, TypeOK
  <2>1. TypeOK'
    BY <1>13, <2>b, <2>c, <2>d, <2>e, <2>f DEF Publish, TypeOK
  <2>2. LockHeld'
    BY <1>13 DEF Publish, NoCycle, TypeOK, LockHeld, Cycling
  <2>3. PrimaryFresh'
    BY <1>13 DEF Publish, NoCycle, TypeOK, PrimaryFresh, FreshFor, PrimarySharedFresh, Cycling
  <2>4. PrimarySharedFresh'
    BY <1>13 DEF Publish, NoCycle, TypeOK, PrimarySharedFresh, LockHeld, Cycling,
        PrimaryForgotten, Empty
  <2>5. PrimaryWindow' /\ PrimaryTargetKnown' /\ PrimaryStableOnTarget'
    BY <1>13 DEF Publish, NoCycle, TypeOK, PrimarySharedFresh, PrimaryWindow,
        PrimaryTargetKnown, PrimaryStableOnTarget, StableOnTarget, Empty
  <2>6. PrimaryForgotten'
    BY <1>13 DEF Publish, NoCycle, TypeOK, PrimaryForgotten, Empty
  <2> QED
    BY <2>1, <2>2, <2>3, <2>4, <2>5, <2>6
<1>14. ASSUME NEW t \in Threads, Return(t) PROVE IInv'
  <2>1. TypeOK'
    BY <1>14 DEF Return, Blank, TypeOK, Places, Empty, NoJob, NoCycle
  <2>2. LockHeld'
    BY <1>14 DEF Return, Blank, TypeOK, LockHeld, Cycling
  <2>3. PrimaryFresh'
    BY <1>14 DEF Return, Blank, TypeOK, PrimaryFresh, FreshFor, PrimarySharedFresh, Cycling
  <2>4. PrimarySharedFresh'
    BY <1>14 DEF Return, Blank, TypeOK, PrimarySharedFresh, LockHeld, Cycling,
        PrimaryForgotten, Empty
  <2>5. PrimaryWindow' /\ PrimaryTargetKnown' /\ PrimaryStableOnTarget'
    BY <1>14 DEF Return, Blank, TypeOK, PrimarySharedFresh, PrimaryWindow, PrimaryTargetKnown,
        PrimaryStableOnTarget, StableOnTarget, Empty
  <2>6. PrimaryForgotten'
    BY <1>14 DEF Return, Blank, TypeOK, PrimaryForgotten, Empty
  <2> QED
    BY <2>1, <2>2, <2>3, <2>4, <2>5, <2>6
<1>15. ASSUME NEW t \in Threads, CommandDone(t) PROVE IInv'
  <2>a. job[t].slot \in Slots /\ device[job[t].slot] \in Nat
    BY DEF TypeOK
  <2>b. /\ settling' \in [Slots -> Nat \cup {None}] /\ stable' \in [Slots -> Nat \cup {None}]
        /\ target' \in [Slots -> Nat \cup {None}]
    BY <1>15, <2>a DEF CommandDone, TypeOK
  <2>c. cache' \in [Slots -> [read : Nat \cup {None}, stable : Nat \cup {None}]]
    BY <1>15, <2>a DEF CommandDone, TypeOK
  <2>1. TypeOK'
    BY <1>15, <2>b, <2>c DEF CommandDone, TypeOK, Places, NoJob
  <2>2. LockHeld'
    BY <1>15 DEF CommandDone, NoJob, TypeOK, LockHeld, Cycling
  <2>3. PrimaryFresh'
    BY <1>15 DEF CommandDone, NoJob, TypeOK, PrimaryFresh, FreshFor, PrimarySharedFresh,
        Cycling
  <2>4. PrimarySharedFresh'
    BY <1>15 DEF CommandDone, NoJob, TypeOK, PrimarySharedFresh, LockHeld, Cycling,
        PrimaryForgotten, Empty
  <2>5. PrimaryWindow' /\ PrimaryTargetKnown' /\ PrimaryStableOnTarget'
    BY <1>15 DEF CommandDone, NoJob, TypeOK, PrimarySharedFresh, PrimaryWindow,
        PrimaryTargetKnown, PrimaryStableOnTarget, StableOnTarget, Empty
  <2>6. PrimaryForgotten'
    BY <1>15 DEF CommandDone, NoJob, TypeOK, PrimaryForgotten, Empty
  <2> QED
    BY <2>1, <2>2, <2>3, <2>4, <2>5, <2>6
<1>16. ASSUME NEW t \in Threads, CommandFails(t) PROVE IInv'
  <2>1. TypeOK'
    BY <1>16 DEF CommandFails, NoJob, TypeOK, Places, Empty, Blank, NoCycle
  <2>2. LockHeld'
    BY <1>16 DEF CommandFails, NoJob, TypeOK, LockHeld, Cycling
  <2>3. PrimaryFresh'
    BY <1>16 DEF CommandFails, NoJob, TypeOK, PrimaryFresh, FreshFor, PrimarySharedFresh,
        Cycling
  <2>4. PrimarySharedFresh'
    BY <1>16 DEF CommandFails, NoJob, TypeOK, PrimarySharedFresh, LockHeld, Cycling,
        PrimaryForgotten, Empty
  <2>5. PrimaryWindow' /\ PrimaryTargetKnown' /\ PrimaryStableOnTarget'
    BY <1>16 DEF CommandFails, NoJob, TypeOK, PrimarySharedFresh, PrimaryWindow,
        PrimaryTargetKnown, PrimaryStableOnTarget, StableOnTarget, Empty
  <2>6. PrimaryForgotten'
    BY <1>16 DEF CommandFails, NoJob, TypeOK, PrimaryForgotten, Empty
  <2> QED
    BY <2>1, <2>2, <2>3, <2>4, <2>5, <2>6
<1>17. ASSUME NEW t \in Threads, Open(t) PROVE IInv'
  <2>a. job[t].slot \in Slots /\ job[t].port \in Ports \cup {None}
    BY DEF TypeOK
  <2>b. port' \in [Slots -> Ports \cup {None}] /\ target' \in [Slots -> Nat \cup {None}]
    BY <1>17, <2>a DEF Open, TypeOK
  <2>c. /\ settling' \in [Slots -> Nat \cup {None}] /\ stable' \in [Slots -> Nat \cup {None}]
        /\ cache' \in [Slots -> [read : Nat \cup {None}, stable : Nat \cup {None}]]
    BY <1>17, <2>a, InvalidateTyped DEF Open
  <2>1. TypeOK'
    BY <1>17, <2>b, <2>c DEF Open, TypeOK, Places, NoJob
  <2>2. LockHeld'
    BY <1>17 DEF Open, Invalidate, NoJob, TypeOK, LockHeld, Cycling
  <2>3. PrimaryFresh'
    BY <1>17 DEF Open, Invalidate, NoJob, TypeOK, PrimaryFresh, FreshFor, PrimarySharedFresh,
        Cycling
  <2>4. PrimarySharedFresh'
    BY <1>17 DEF Open, Invalidate, NoJob, TypeOK, PrimarySharedFresh, LockHeld, Cycling,
        PrimaryForgotten, Empty
  <2>5. PrimaryWindow' /\ PrimaryTargetKnown' /\ PrimaryStableOnTarget'
    BY <1>17 DEF Open, Invalidate, NoJob, TypeOK, PrimarySharedFresh, PrimaryWindow,
        PrimaryTargetKnown, PrimaryStableOnTarget, StableOnTarget, Empty
  <2>6. PrimaryForgotten'
    BY <1>17 DEF Open, Invalidate, NoJob, TypeOK, PrimaryForgotten, Empty
  <2> QED
    BY <2>1, <2>2, <2>3, <2>4, <2>5, <2>6
<1>18. ASSUME NEW t \in Threads, Refuse(t) PROVE IInv'
  <2>1. TypeOK'
    BY <1>18 DEF Refuse, NoJob, TypeOK, Places, Empty, Blank, NoCycle
  <2>2. LockHeld'
    BY <1>18 DEF Refuse, NoJob, TypeOK, LockHeld, Cycling
  <2>3. PrimaryFresh'
    BY <1>18 DEF Refuse, NoJob, TypeOK, PrimaryFresh, FreshFor, PrimarySharedFresh, Cycling
  <2>4. PrimarySharedFresh'
    BY <1>18 DEF Refuse, NoJob, TypeOK, PrimarySharedFresh, LockHeld, Cycling,
        PrimaryForgotten, Empty
  <2>5. PrimaryWindow' /\ PrimaryTargetKnown' /\ PrimaryStableOnTarget'
    BY <1>18 DEF Refuse, NoJob, TypeOK, PrimarySharedFresh, PrimaryWindow, PrimaryTargetKnown,
        PrimaryStableOnTarget, StableOnTarget, Empty
  <2>6. PrimaryForgotten'
    BY <1>18 DEF Refuse, NoJob, TypeOK, PrimaryForgotten, Empty
  <2> QED
    BY <2>1, <2>2, <2>3, <2>4, <2>5, <2>6
<1>19. ASSUME NEW t \in Threads, NEW s \in Slots, Command(t, s) PROVE IInv'
  <2>a. device' \in [Slots -> Nat] /\ lock' \in [Slots -> Threads \cup {None}]
    BY <1>19 DEF Command, TypeOK
  <2>b. job' \in [Threads -> [slot : Slots, port : Ports \cup {None}]]
    BY <1>19 DEF Command, TypeOK
  <2>1. TypeOK'
    BY <1>19, <2>a, <2>b DEF Command, TypeOK, Places
  <2>2. LockHeld'
    BY <1>19 DEF Command, TypeOK, LockHeld, Cycling
  <2>3. PrimaryFresh'
    BY <1>19 DEF Command, TypeOK, PrimaryFresh, FreshFor, PrimarySharedFresh, Cycling
  <2>4. PrimarySharedFresh'
    BY <1>19 DEF Command, TypeOK, PrimarySharedFresh, LockHeld, Cycling, PrimaryForgotten,
        Empty
  <2>5. PrimaryWindow' /\ PrimaryTargetKnown' /\ PrimaryStableOnTarget'
    BY <1>19 DEF Command, TypeOK, PrimarySharedFresh, PrimaryWindow, PrimaryTargetKnown,
        PrimaryStableOnTarget, StableOnTarget, Empty
  <2>6. PrimaryForgotten'
    BY <1>19 DEF Command, TypeOK, PrimaryForgotten, Empty
  <2> QED
    BY <2>1, <2>2, <2>3, <2>4, <2>5, <2>6
<1>20. ASSUME NEW t \in Threads, NEW s \in Slots, NEW p \in Ports, Connect(t, s, p)
      PROVE  IInv'
  <2>1. TypeOK'
    BY <1>20 DEF Connect, TypeOK, Places, Empty, Blank, NoJob, NoCycle
  <2>2. LockHeld'
    BY <1>20 DEF Connect, TypeOK, LockHeld, Cycling
  <2>3. PrimaryFresh'
    BY <1>20 DEF Connect, TypeOK, PrimaryFresh, FreshFor, PrimarySharedFresh, Cycling
  <2>4. PrimarySharedFresh'
    BY <1>20 DEF Connect, TypeOK, PrimarySharedFresh, LockHeld, Cycling, PrimaryForgotten,
        Empty
  <2>5. PrimaryWindow' /\ PrimaryTargetKnown' /\ PrimaryStableOnTarget'
    BY <1>20 DEF Connect, TypeOK, PrimarySharedFresh, PrimaryWindow, PrimaryTargetKnown,
        PrimaryStableOnTarget, StableOnTarget, Empty
  <2>6. PrimaryForgotten'
    BY <1>20 DEF Connect, TypeOK, PrimaryForgotten, Empty
  <2> QED
    BY <2>1, <2>2, <2>3, <2>4, <2>5, <2>6
<1>21. ASSUME NEW s \in Slots, Disconnect(s) PROVE IInv'
  <2>1. TypeOK'
    BY <1>21 DEF Disconnect, Invalidate, TypeOK, Places, Empty, Blank, NoJob, NoCycle
  <2>2. LockHeld'
    BY <1>21 DEF Disconnect, Invalidate, TypeOK, LockHeld, Cycling
  <2>3. PrimaryFresh'
    BY <1>21 DEF Disconnect, Invalidate, TypeOK, PrimaryFresh, FreshFor, PrimarySharedFresh,
        Cycling
  <2>4. PrimarySharedFresh'
    BY <1>21 DEF Disconnect, Invalidate, TypeOK, PrimarySharedFresh, LockHeld, Cycling,
        PrimaryForgotten, Empty
  <2>5. PrimaryWindow' /\ PrimaryTargetKnown' /\ PrimaryStableOnTarget'
    BY <1>21 DEF Disconnect, Invalidate, TypeOK, PrimarySharedFresh, PrimaryWindow,
        PrimaryTargetKnown, PrimaryStableOnTarget, StableOnTarget, Empty
  <2>6. PrimaryForgotten'
    BY <1>21 DEF Disconnect, Invalidate, TypeOK, PrimaryForgotten, Empty
  <2> QED
    BY <2>1, <2>2, <2>3, <2>4, <2>5, <2>6
<1>22. ASSUME NEW s \in Slots, DisconnectFails(s) PROVE IInv'
  <2>1. TypeOK'
    BY <1>22 DEF DisconnectFails, Invalidate, TypeOK, Places, Empty, Blank, NoJob, NoCycle
  <2>2. LockHeld'
    BY <1>22 DEF DisconnectFails, Invalidate, TypeOK, LockHeld, Cycling
  <2>3. PrimaryFresh'
    BY <1>22 DEF DisconnectFails, Invalidate, TypeOK, PrimaryFresh, FreshFor,
        PrimarySharedFresh, Cycling
  <2>4. PrimarySharedFresh'
    BY <1>22 DEF DisconnectFails, Invalidate, TypeOK, PrimarySharedFresh, LockHeld, Cycling,
        PrimaryForgotten, Empty
  <2>5. PrimaryWindow' /\ PrimaryTargetKnown' /\ PrimaryStableOnTarget'
    BY <1>22 DEF DisconnectFails, Invalidate, TypeOK, PrimarySharedFresh, PrimaryWindow,
        PrimaryTargetKnown, PrimaryStableOnTarget, StableOnTarget, Empty
  <2>6. PrimaryForgotten'
    BY <1>22 DEF DisconnectFails, Invalidate, TypeOK, PrimaryForgotten, Empty
  <2> QED
    BY <2>1, <2>2, <2>3, <2>4, <2>5, <2>6
<1>23. CASE Shutdown
  <2>1. TypeOK'
    BY <1>23 DEF Shutdown, TypeOK, Places, Empty, Blank, NoJob, NoCycle
  <2>2. LockHeld'
    BY <1>23 DEF Shutdown, TypeOK, LockHeld, Cycling
  <2>3. PrimaryFresh'
    BY <1>23 DEF Shutdown, TypeOK, PrimaryFresh, FreshFor, PrimarySharedFresh, Cycling
  <2>4. PrimarySharedFresh'
    BY <1>23 DEF Shutdown, TypeOK, PrimarySharedFresh, LockHeld, Cycling, PrimaryForgotten,
        Empty
  <2>5. PrimaryWindow' /\ PrimaryTargetKnown' /\ PrimaryStableOnTarget'
    BY <1>23 DEF Shutdown, TypeOK, PrimarySharedFresh, PrimaryWindow, PrimaryTargetKnown,
        PrimaryStableOnTarget, StableOnTarget, Empty
  <2>6. PrimaryForgotten'
    BY <1>23 DEF Shutdown, TypeOK, PrimaryForgotten, Empty
  <2> QED
    BY <2>1, <2>2, <2>3, <2>4, <2>5, <2>6
<1>24. CASE JoinPoller
  <2>1. TypeOK'
    BY <1>24 DEF JoinPoller, TypeOK, Places, Empty, Blank, NoJob, NoCycle
  <2>2. LockHeld'
    BY <1>24 DEF JoinPoller, TypeOK, LockHeld, Cycling
  <2>3. PrimaryFresh'
    BY <1>24 DEF JoinPoller, TypeOK, PrimaryFresh, FreshFor, PrimarySharedFresh, Cycling
  <2>k. UNCHANGED <<device, sharing, rev, want>>
    BY <1>24 DEF JoinPoller
  <2>l. \A t \in Threads : pc'[t] = "wait" \/ pc'[t] \in Cycling => pc'[t] = pc[t]
    BY <1>24 DEF JoinPoller, TypeOK, Cycling
  <2>m. \/ target'["primary"] = None \/ target'["primary"] = target["primary"]
    BY <1>24 DEF JoinPoller, TypeOK
  <2>n. cache'["primary"].read \in {None, cache["primary"].read}
    BY <1>24 DEF JoinPoller, TypeOK, Empty
  <2>4. PrimarySharedFresh'
    BY <2>k, <2>l, <2>m, <2>n, SMTT(20) DEF PrimarySharedFresh, TypeOK, Cycling
  <2>5. PrimaryWindow' /\ PrimaryTargetKnown' /\ PrimaryStableOnTarget'
    BY <1>24 DEF JoinPoller, TypeOK, PrimarySharedFresh, PrimaryWindow, PrimaryTargetKnown,
        PrimaryStableOnTarget, StableOnTarget, Empty
  <2>6. PrimaryForgotten'
    BY <1>24 DEF JoinPoller, TypeOK, PrimaryForgotten, Empty
  <2> QED
    BY <2>1, <2>2, <2>3, <2>4, <2>5, <2>6
<1>25. CASE CloseSecondary
  <2>a. /\ settling' \in [Slots -> Nat \cup {None}] /\ stable' \in [Slots -> Nat \cup {None}]
        /\ cache' \in [Slots -> [read : Nat \cup {None}, stable : Nat \cup {None}]]
    BY <1>25, InvalidateTyped DEF CloseSecondary, CloseSession
  <2>b. port' \in [Slots -> Ports \cup {None}]
    <3>1. port' = [port EXCEPT !["secondary"] = None] \/ UNCHANGED port
      BY <1>25 DEF CloseSecondary, CloseSession
    <3>2. port \in [Slots -> Ports \cup {None}]
      BY DEF TypeOK
    <3> QED
      BY <3>1, <3>2
  <2>c. stopped' \in [Slots -> BOOLEAN]
    <3>1. stopped' = [stopped EXCEPT !["secondary"] = TRUE] \/ UNCHANGED stopped
      BY <1>25 DEF CloseSecondary, CloseSession
    <3>2. stopped \in [Slots -> BOOLEAN]
      BY DEF TypeOK
    <3> QED
      BY <3>1, <3>2
  <2>d. target' \in [Slots -> Nat \cup {None}]
    <3>1. target' = [target EXCEPT !["secondary"] = None] \/ UNCHANGED target
      BY <1>25 DEF CloseSecondary, CloseSession
    <3>2. target \in [Slots -> Nat \cup {None}]
      BY DEF TypeOK
    <3> QED
      BY <3>1, <3>2
  <2>e. failed' \in SUBSET Slots
    BY <1>25 DEF CloseSecondary, CloseSession, TypeOK
  <2>1. TypeOK'
    BY <1>25, <2>a, <2>b, <2>c, <2>d, <2>e DEF CloseSecondary, CloseSession, TypeOK, Places
  <2>2. LockHeld'
    BY <1>25 DEF CloseSecondary, CloseSession, Invalidate, TypeOK, LockHeld, Cycling
  <2>3. PrimaryFresh'
    BY <1>25 DEF CloseSecondary, CloseSession, Invalidate, TypeOK, PrimaryFresh, FreshFor,
        PrimarySharedFresh, Cycling
  <2>k. UNCHANGED <<device, sharing, rev, want>>
    BY <1>25 DEF CloseSecondary, CloseSession, Invalidate
  <2>l. \A t \in Threads : pc'[t] = "wait" \/ pc'[t] \in Cycling => pc'[t] = pc[t]
    BY <1>25 DEF CloseSecondary, CloseSession, Invalidate, TypeOK, Cycling
  <2>m. \/ target'["primary"] = None \/ target'["primary"] = target["primary"]
    BY <1>25 DEF CloseSecondary, CloseSession, Invalidate, TypeOK
  <2>n. cache'["primary"].read \in {None, cache["primary"].read}
    BY <1>25 DEF CloseSecondary, CloseSession, Invalidate, TypeOK, Empty
  <2>4. PrimarySharedFresh'
    BY <2>k, <2>l, <2>m, <2>n, SMTT(20) DEF PrimarySharedFresh, TypeOK, Cycling
  <2>5. PrimaryWindow' /\ PrimaryTargetKnown' /\ PrimaryStableOnTarget'
    BY <1>25 DEF CloseSecondary, CloseSession, Invalidate, TypeOK, PrimarySharedFresh,
        PrimaryWindow, PrimaryTargetKnown, PrimaryStableOnTarget, StableOnTarget, Empty
  <2>6. PrimaryForgotten'
    BY <1>25 DEF CloseSecondary, CloseSession, Invalidate, TypeOK, PrimaryForgotten, Empty
  <2> QED
    BY <2>1, <2>2, <2>3, <2>4, <2>5, <2>6
<1>26. CASE ClosePrimary
  <2>a. /\ settling' \in [Slots -> Nat \cup {None}] /\ stable' \in [Slots -> Nat \cup {None}]
        /\ cache' \in [Slots -> [read : Nat \cup {None}, stable : Nat \cup {None}]]
    BY <1>26, InvalidateTyped DEF ClosePrimary, CloseSession
  <2>b. port' \in [Slots -> Ports \cup {None}]
    <3>1. port' = [port EXCEPT !["primary"] = None] \/ UNCHANGED port
      BY <1>26 DEF ClosePrimary, CloseSession
    <3>2. port \in [Slots -> Ports \cup {None}]
      BY DEF TypeOK
    <3> QED
      BY <3>1, <3>2
  <2>c. stopped' \in [Slots -> BOOLEAN]
    <3>1. stopped' = [stopped EXCEPT !["primary"] = TRUE] \/ UNCHANGED stopped
      BY <1>26 DEF ClosePrimary, CloseSession
    <3>2. stopped \in [Slots -> BOOLEAN]
      BY DEF TypeOK
    <3> QED
      BY <3>1, <3>2
  <2>d. target' \in [Slots -> Nat \cup {None}]
    <3>1. target' = [target EXCEPT !["primary"] = None] \/ UNCHANGED target
      BY <1>26 DEF ClosePrimary, CloseSession
    <3>2. target \in [Slots -> Nat \cup {None}]
      BY DEF TypeOK
    <3> QED
      BY <3>1, <3>2
  <2>e. failed' \in SUBSET Slots
    BY <1>26 DEF ClosePrimary, CloseSession, TypeOK
  <2>1. TypeOK'
    BY <1>26, <2>a, <2>b, <2>c, <2>d, <2>e DEF ClosePrimary, CloseSession, TypeOK, Places
  <2>2. LockHeld'
    BY <1>26 DEF ClosePrimary, CloseSession, Invalidate, TypeOK, LockHeld, Cycling
  <2>3. PrimaryFresh'
    BY <1>26 DEF ClosePrimary, CloseSession, Invalidate, TypeOK, PrimaryFresh, FreshFor,
        PrimarySharedFresh, Cycling
  <2>k. UNCHANGED <<device, sharing, rev, want>>
    BY <1>26 DEF ClosePrimary, CloseSession, Invalidate
  <2>l. \A t \in Threads : pc'[t] = "wait" \/ pc'[t] \in Cycling => pc'[t] = pc[t]
    BY <1>26 DEF ClosePrimary, CloseSession, Invalidate, TypeOK, Cycling
  <2>m. \/ target'["primary"] = None \/ target'["primary"] = target["primary"]
    BY <1>26 DEF ClosePrimary, CloseSession, Invalidate, TypeOK
  <2>n. cache'["primary"].read \in {None, cache["primary"].read}
    BY <1>26 DEF ClosePrimary, CloseSession, Invalidate, TypeOK, Empty
  <2>4. PrimarySharedFresh'
    BY <2>k, <2>l, <2>m, <2>n, SMTT(20) DEF PrimarySharedFresh, TypeOK, Cycling
  <2>5. PrimaryWindow' /\ PrimaryTargetKnown' /\ PrimaryStableOnTarget'
    BY <1>26 DEF ClosePrimary, CloseSession, Invalidate, TypeOK, PrimarySharedFresh,
        PrimaryWindow, PrimaryTargetKnown, PrimaryStableOnTarget, StableOnTarget, Empty
  <2>6. PrimaryForgotten'
    BY <1>26 DEF ClosePrimary, CloseSession, Invalidate, TypeOK, PrimaryForgotten, Empty
  <2> QED
    BY <2>1, <2>2, <2>3, <2>4, <2>5, <2>6
<1>27. CASE ReturnFromShutdown
  <2>1. TypeOK'
    BY <1>27 DEF ReturnFromShutdown, TypeOK, Places, Empty, Blank, NoJob, NoCycle
  <2>2. LockHeld'
    BY <1>27 DEF ReturnFromShutdown, TypeOK, LockHeld, Cycling
  <2>3. PrimaryFresh'
    BY <1>27 DEF ReturnFromShutdown, TypeOK, PrimaryFresh, FreshFor, PrimarySharedFresh, Cycling
  <2>k. UNCHANGED <<device, sharing, rev, want>>
    BY <1>27 DEF ReturnFromShutdown
  <2>l. \A t \in Threads : pc'[t] = "wait" \/ pc'[t] \in Cycling => pc'[t] = pc[t]
    BY <1>27 DEF ReturnFromShutdown, TypeOK, Cycling
  <2>m. \/ target'["primary"] = None \/ target'["primary"] = target["primary"]
    BY <1>27 DEF ReturnFromShutdown, TypeOK
  <2>n. cache'["primary"].read \in {None, cache["primary"].read}
    BY <1>27 DEF ReturnFromShutdown, TypeOK, Empty
  <2>4. PrimarySharedFresh'
    BY <2>k, <2>l, <2>m, <2>n, SMTT(20) DEF PrimarySharedFresh, TypeOK, Cycling
  <2>5. PrimaryWindow' /\ PrimaryTargetKnown' /\ PrimaryStableOnTarget'
    BY <1>27 DEF ReturnFromShutdown, TypeOK, PrimarySharedFresh, PrimaryWindow, PrimaryTargetKnown,
        PrimaryStableOnTarget, StableOnTarget, Empty
  <2>6. PrimaryForgotten'
    BY <1>27 DEF ReturnFromShutdown, TypeOK, PrimaryForgotten, Empty
  <2> QED
    BY <2>1, <2>2, <2>3, <2>4, <2>5, <2>6
<1>28. CASE EndShutdown
  <2>a. stopped' \in [Slots -> BOOLEAN]
    <3>1. stopped' = [stopped EXCEPT !["primary"] = FALSE] \/ UNCHANGED stopped
      BY <1>28 DEF EndShutdown
    <3>2. stopped \in [Slots -> BOOLEAN]
      BY DEF TypeOK
    <3> QED
      BY <3>1, <3>2
  <2>1. TypeOK'
    BY <1>28, <2>a DEF EndShutdown, TypeOK, Places
  <2>2. LockHeld'
    BY <1>28 DEF EndShutdown, TypeOK, LockHeld, Cycling
  <2>3. PrimaryFresh'
    BY <1>28 DEF EndShutdown, TypeOK, PrimaryFresh, FreshFor, PrimarySharedFresh, Cycling
  <2>k. UNCHANGED <<device, sharing, rev, want>>
    BY <1>28 DEF EndShutdown
  <2>l. \A t \in Threads : pc'[t] = "wait" \/ pc'[t] \in Cycling => pc'[t] = pc[t]
    BY <1>28 DEF EndShutdown, TypeOK, Cycling
  <2>m. \/ target'["primary"] = None \/ target'["primary"] = target["primary"]
    BY <1>28 DEF EndShutdown, TypeOK
  <2>n. cache'["primary"].read \in {None, cache["primary"].read}
    BY <1>28 DEF EndShutdown, TypeOK, Empty
  <2>4. PrimarySharedFresh'
    BY <2>k, <2>l, <2>m, <2>n, SMTT(20) DEF PrimarySharedFresh, TypeOK, Cycling
  <2>5. PrimaryWindow' /\ PrimaryTargetKnown' /\ PrimaryStableOnTarget'
    BY <1>28 DEF EndShutdown, TypeOK, PrimarySharedFresh, PrimaryWindow, PrimaryTargetKnown,
        PrimaryStableOnTarget, StableOnTarget, Empty
  <2>6. PrimaryForgotten'
    BY <1>28 DEF EndShutdown, TypeOK, PrimaryForgotten, Empty
  <2> QED
    BY <2>1, <2>2, <2>3, <2>4, <2>5, <2>6
<1> QED
    BY NextActions, <1>0, <1>1, <1>2, <1>3, <1>4, <1>5, <1>6, <1>7, <1>8, <1>9, <1>10, <1>11,
        <1>12, <1>13, <1>14, <1>15, <1>16, <1>17, <1>18, <1>19, <1>20, <1>21, <1>22, <1>23,
        <1>24, <1>25, <1>26, <1>27, <1>28

\* The inductive invariant holds in every reachable state.
THEOREM Invariant == Spec => []IInv
<1>1. IInv /\ [Next]_vars => IInv'
    BY StepInvariant
<1> QED
    BY InitInvariant, <1>1, PTL DEF Spec

\* The variables keep their types: the service, its sessions and its threads.
THEOREM TypeCorrect == Spec => []TypeOK
<1>1. IInv => TypeOK
    BY DEF IInv
<1> QED
    BY Invariant, <1>1, PTL

\* coordinated_read of the service: a read never answers with a reading of the primary
\* from before its request.
THEOREM PrimaryReadsAreFresh == Spec => []PrimaryFresh
<1>1. IInv => PrimaryFresh
    BY DEF IInv
<1> QED
    BY Invariant, <1>1, PTL

\* _evaluate_stability and _mark_setpoint_pending under the lock of the primary: neither
\* the flag nor the state it is shown in is of an older setpoint.
THEOREM PrimaryStabilityOnTarget == Spec => []PrimaryStableOnTarget
<1>1. IInv => PrimaryStableOnTarget
    BY DEF IInv
<1> QED
    BY Invariant, <1>1, PTL

\* _invalidate_state: a disconnected primary keeps no measurement.
THEOREM PrimaryIsForgotten == Spec => []PrimaryForgotten
<1>1. IInv => PrimaryForgotten
    BY DEF IInv
<1> QED
    BY Invariant, <1>1, PTL

\* Every step keeps closed what shutdown has closed: a session that is STOPPED refuses to
\* open, and only the GUI thread, which is in shutdown, disconnects.
LEMMA ClosedStep == TypeOK /\ ClosedInOrder /\ [Next]_vars => ClosedInOrder'
<1> SUFFICES ASSUME TypeOK, ClosedInOrder, [Next]_vars PROVE ClosedInOrder'
    OBVIOUS
<1> USE ServiceAssumption DEF Threads, Slots, Goto
<1>0. CASE UNCHANGED vars
    BY <1>0 DEF vars, session, down, locals, control, sharing, ClosedInOrder, Released, Closed
<1>1. ASSUME NEW t \in Threads, NEW place \in Places \ {"closing primary", "ending", "down"},
             pc' = [pc EXCEPT ![t] = place], UNCHANGED <<port, stopped, failed>>
      PROVE  ClosedInOrder'
    BY <1>1 DEF TypeOK, ClosedInOrder, Released, Closed
<1>2. ASSUME NEW t \in Threads, Open(t) PROVE ClosedInOrder'
  <2>1. ~stopped[job[t].slot] /\ job[t].slot \in {"primary", "secondary"}
    BY <1>2 DEF Open, TypeOK
  <2>2. \A s \in {"primary", "secondary"} : s # job[t].slot => port'[s] = port[s]
    BY <1>2 DEF Open, TypeOK
  <2>3. UNCHANGED <<stopped, failed>> /\ pc' = [pc EXCEPT ![t] = "idle"]
    BY <1>2 DEF Open, session, down
  <2> QED
    BY <2>1, <2>2, <2>3 DEF TypeOK, ClosedInOrder, Released, Closed
<1>3. ASSUME NEW s \in {"primary", "secondary"}, Disconnect(s) PROVE ClosedInOrder'
    BY <1>3 DEF Disconnect, down, ClosedInOrder
<1>4. ASSUME NEW s \in {"primary", "secondary"}, DisconnectFails(s) PROVE ClosedInOrder'
    BY <1>4 DEF DisconnectFails, down, ClosedInOrder
<1>5. CASE CloseSecondary
  <2>1. pc[Gui] = "closing secondary" /\ pc'[Gui] = "closing primary"
    BY <1>5 DEF CloseSecondary, CloseSession, TypeOK
  <2>2. Released("secondary")'
    BY <1>5 DEF CloseSecondary, CloseSession, TypeOK, Released, Closed
  <2> QED
    BY <2>1, <2>2 DEF ClosedInOrder
<1>6. CASE ClosePrimary
  <2>1. pc[Gui] = "closing primary" /\ pc'[Gui] = "ending"
    BY <1>6 DEF ClosePrimary, CloseSession, TypeOK
  <2>2. Released("primary")'
    BY <1>6 DEF ClosePrimary, CloseSession, TypeOK, Released, Closed
  <2>3. failed \subseteq failed' /\ port'["secondary"] = port["secondary"] /\ stopped'["secondary"] = stopped["secondary"]
    BY <1>6 DEF ClosePrimary, CloseSession, TypeOK
  <2> QED
    BY <2>1, <2>2, <2>3 DEF ClosedInOrder, Released, Closed
<1>11. CASE EndShutdown
  <2>1. pc[Gui] = "ending" /\ pc'[Gui] = "down" /\ UNCHANGED <<port, failed>>
    BY <1>11 DEF EndShutdown, TypeOK, down
  <2>2. stopped'["secondary"] = stopped["secondary"] /\ (failed = {} => UNCHANGED stopped)
    BY <1>11 DEF EndShutdown, TypeOK
  <2> QED
    BY <2>1, <2>2 DEF ClosedInOrder, Released, Closed
<1>7. CASE ReturnFromShutdown
    BY <1>7 DEF ReturnFromShutdown, TypeOK, ClosedInOrder
<1>8. ASSUME NEW t \in Threads,
             \/ Request(t) \/ Share(t) \/ StartCycle(t) \/ ReadNothing(t) \/ ReadPrimary(t)
             \/ ReadSecondary(t) \/ JudgePrimary(t) \/ TakeSnapshot(t) \/ TakeTarget(t)
             \/ JudgeWindow(t) \/ WriteFlag(t) \/ StoreState(t) \/ Publish(t) \/ Return(t)
      PROVE  ClosedInOrder'
  <2>1. UNCHANGED <<port, stopped, failed>>
    BY <1>8 DEF Request, Share, StartCycle, ReadNothing, ReadPrimary, ReadSecondary,
        JudgePrimary, TakeSnapshot, TakeTarget, JudgeWindow, WriteFlag, StoreState, Publish,
        Return, session, down
  <2>2. \E place \in Places \ {"closing primary", "ending", "down"} : pc' = [pc EXCEPT ![t] = place]
    BY <1>8 DEF Request, Share, StartCycle, ReadNothing, ReadPrimary, ReadSecondary,
        JudgePrimary, TakeSnapshot, TakeTarget, JudgeWindow, WriteFlag, StoreState, Publish,
        Return, Places
  <2> QED
    BY <1>1, <2>1, <2>2
<1>9. ASSUME NEW t \in Threads,
             \/ CommandDone(t) \/ CommandFails(t) \/ Refuse(t)
             \/ \E s \in Slots : Command(t, s) \/ \E p \in Ports : Connect(t, s, p)
      PROVE  ClosedInOrder'
  <2>1. UNCHANGED <<port, stopped, failed>>
    BY <1>9 DEF CommandDone, CommandFails, Refuse, Command, Connect, session, down
  <2>2. \E place \in Places \ {"closing primary", "ending", "down"} : pc' = [pc EXCEPT ![t] = place]
    BY <1>9 DEF CommandDone, CommandFails, Refuse, Command, Connect, Places
  <2> QED
    BY <1>1, <2>1, <2>2
<1>10. CASE Shutdown \/ JoinPoller
  <2>1. UNCHANGED <<port, stopped, failed>>
    BY <1>10 DEF Shutdown, JoinPoller, session, down
  <2>2. \E place \in Places \ {"closing primary", "ending", "down"} : pc' = [pc EXCEPT ![Gui] = place]
    BY <1>10 DEF Shutdown, JoinPoller, Places
  <2> QED
    BY <1>1, <2>1, <2>2
<1> QED
    BY NextActions, <1>0, <1>2, <1>3, <1>4, <1>5, <1>6, <1>7, <1>8, <1>9, <1>10, <1>11

\* shutdown of the service tries both cleanups: before it takes the status of a failure both
\* sessions are released and STOPPED but those whose own cleanup failed, and when it returns
\* the secondary still is, the primary when neither failed.
THEOREM ShutdownReleases == Spec => []ShutdownReleasesBoth
<1>1. Init => ClosedInOrder
    BY ServiceAssumption DEF Init, ClosedInOrder, Threads
<1>2. TypeOK /\ ClosedInOrder /\ [Next]_vars => ClosedInOrder'
    BY ClosedStep
<1>3. ClosedInOrder => ShutdownReleasesBoth
    BY DEF ClosedInOrder, Released, Closed, ShutdownReleasesBoth, Slots
<1> QED
    BY TypeCorrect, <1>1, <1>2, <1>3, PTL DEF Spec

=============================================================================
