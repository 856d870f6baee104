-------------------------- MODULE StateStepsProofs --------------------------
(***************************************************************************)
(* Proofs about StateSteps, for any set points, rates and number of sweep  *)
(* plugins.                                                                *)
(***************************************************************************)
EXTENDS StateSteps, TLAPS

\* Every step is one of these operations.
LEMMA NextActions ==
    ASSUME Next
    PROVE
           \/ Move
           \/ Poll
           \/ \E t \in Threads : Keep(t)
           \/ PollEnds
           \/ \E v \in Values : SetTarget(v)
           \/ \E r \in Rates : SetPollingRate(r)
           \/ Expire
           \/ Stop
           \/ Interrupt
           \/ Command
           \/ CommandRaises
           \/ SetTargetField
           \/ RampToTarget
           \/ Fail
           \/ Mark
           \/ StartRead
           \/ EndRead
           \/ ShareRead
           \/ Look
           \/ CheckDeadline
           \/ Woken
           \/ Unanswered
           \/ OutsideLimits
           \/ Measured
           \/ SaveRate
           \/ \E r \in Rates : RaiseRate(r)
           \/ Reset
           \/ NextValue
           \/ \E v \in Values : Advance(v)
           \/ Sample
           \/ EndSweep
           \/ LowerRate
           \/ StartScript
           \/ Leave
           \/ \E v \in Values : ScanPoint(v)
           \/ \E v \in Values : SetCommand(v)
           \/ \E s \in Sweeps, v \in Values : BeginSweep(s, v)
BY DEF Next, Progress, Choose, Threads

\* TypeOK, one conjunct for each variable.
TypedEngine ==
    /\ pos \in Values \cup {Between} /\ goal \in Values /\ own \in Values
    /\ lock \in Threads \cup {None} /\ kept \in BOOLEAN
    /\ sample \in BOOLEAN /\ latest \in BOOLEAN /\ result \in BOOLEAN

TypedFlags ==
    /\ shared \in BOOLEAN /\ news \in BOOLEAN /\ fallback \in BOOLEAN
    /\ expired \in BOOLEAN /\ stop \in BOOLEAN
    /\ owed \in BOOLEAN /\ refused \in BOOLEAN

TypedPlace ==
    /\ place \in Places /\ kind \in {"scan", "set", "sweep", "none"}
    /\ asked \in Values \cup {None}
    /\ gen \in {"new", "starting", "running"} /\ outcome \in Outcomes

TypedRates ==
    /\ plugin \in Sweeps \cup {None} /\ dying \in {"no", "failed", "stopped"}
    /\ rate \in Rates /\ user \in Rates \cup {None} /\ previous \in Rates \cup {None}
    /\ saved \in [Sweeps -> Rates \cup {None}]

Typed == TypedEngine /\ TypedFlags /\ TypedPlace /\ TypedRates

\* It says the same.
LEMMA TypedIsType == TypeOK <=> Typed
BY DEF TypeOK, Typed, TypedEngine, TypedFlags, TypedPlace, TypedRates

\* The same of the next state.
LEMMA TypedIsTypeNext == TypeOK' <=> Typed'
BY DEF TypeOK, Typed, TypedEngine, TypedFlags, TypedPlace, TypedRates

\* The invariant holds at the start.
LEMMA InitInvariant == Init => IInv
<1> SUFFICES ASSUME Init PROVE IInv
  OBVIOUS
<1> USE StepsAssumption
<1>1. Typed
  BY DEF Init, Typed, TypedEngine, TypedFlags, TypedPlace, TypedRates, Places, Outcomes, Threads
<1>2. PlaceOK /\ ReadOK
  BY DEF Init, PlaceOK, ReadOK, Bracket, Restoring, SweepPlaces, WaitPlaces, ScanPlaces, Threads
<1>3. NewsOK /\ OwedOK
  BY DEF Init, NewsOK, OwedOK
<1>4. RateOK
  BY DEF Init, RateOK, InSweep, InTry, Bracket, Restoring, SweepPlaces, WaitPlaces, ScanPlaces
<1> QED
  BY <1>1, <1>2, <1>3, <1>4, TypedIsType DEF IInv

\* Every operation keeps it.
LEMMA StepInvariant == IInv /\ [Next]_vars => IInv'
<1> SUFFICES ASSUME IInv, [Next]_vars PROVE IInv'
  OBVIOUS
<1> USE StepsAssumption DEF Threads
<1>a. Typed
  BY TypedIsType DEF IInv
<1>b. PlaceOK
  BY DEF IInv
<1>c. ReadOK
  BY DEF IInv
<1>d. NewsOK
  BY DEF IInv
<1>e. OwedOK
  BY DEF IInv
<1>f. RateOK
  BY DEF IInv
<1>1. CASE Move
  <2> USE <1>1 DEF Move, device, engine, overlap, reads, sweep, told, locals, run, rates
  <2>1. Typed'
    <3>1. TypedEngine'
      BY <1>a, <1>b DEF Typed, TypedEngine, TypedPlace, PlaceOK, Bracket, Restoring, SweepPlaces, WaitPlaces, ScanPlaces
    <3>2. TypedFlags'
      BY <1>a DEF Typed, TypedFlags
    <3>3. TypedPlace'
      BY <1>a DEF Typed, TypedPlace, TypedRates, Places, Outcomes, Bracket, Restoring, SweepPlaces, WaitPlaces, ScanPlaces
    <3>4. TypedRates'
      BY <1>a, <1>b DEF Typed, TypedRates, PlaceOK, Bracket, Restoring, SweepPlaces, WaitPlaces, ScanPlaces
    <3> QED
      BY <3>1, <3>2, <3>3, <3>4 DEF Typed
  <2>2. PlaceOK'
    BY <1>a, <1>b, <1>c DEF Typed, TypedFlags, TypedPlace, TypedRates, PlaceOK, ReadOK, Bracket, Restoring, SweepPlaces, WaitPlaces, ScanPlaces, InTry
  <2>3. ReadOK'
    BY <1>a, <1>b, <1>c DEF Typed, TypedEngine, TypedFlags, PlaceOK, ReadOK
  <2>4. NewsOK'
    BY <1>a, <1>b, <1>c, <1>d DEF Typed, TypedEngine, TypedFlags, PlaceOK, ReadOK, NewsOK
  <2>5. OwedOK'
    BY <1>a, <1>b, <1>c, <1>e DEF Typed, TypedEngine, TypedFlags, PlaceOK, ReadOK, OwedOK, Bracket, Restoring, SweepPlaces, WaitPlaces, ScanPlaces
  <2>6. RateOK'
    BY <1>a, <1>b, <1>c, <1>f DEF Typed, TypedRates, PlaceOK, ReadOK, RateOK, InSweep, InTry, Bracket, Restoring, SweepPlaces, WaitPlaces, ScanPlaces
  <2> QED
    BY <2>1, <2>2, <2>3, <2>4, <2>5, <2>6, TypedIsTypeNext DEF IInv
<1>2. CASE Poll
  <2> USE <1>2 DEF Poll, Measure, device, engine, overlap, reads, sweep, told, locals, run, rates
  <2>1. Typed'
    <3>1. TypedEngine'
      BY <1>a, <1>b DEF Typed, TypedEngine, TypedPlace, PlaceOK, Bracket, Restoring, SweepPlaces, WaitPlaces, ScanPlaces
    <3>2. TypedFlags'
      BY <1>a DEF Typed, TypedFlags
    <3>3. TypedPlace'
      BY <1>a DEF Typed, TypedPlace, TypedRates, Places, Outcomes, Bracket, Restoring, SweepPlaces, WaitPlaces, ScanPlaces
    <3>4. TypedRates'
      BY <1>a, <1>b DEF Typed, TypedRates, PlaceOK, Bracket, Restoring, SweepPlaces, WaitPlaces, ScanPlaces
    <3> QED
      BY <3>1, <3>2, <3>3, <3>4 DEF Typed
  <2>2. PlaceOK'
    BY <1>a, <1>b, <1>c DEF Typed, TypedFlags, TypedPlace, TypedRates, PlaceOK, ReadOK, Bracket, Restoring, SweepPlaces, WaitPlaces, ScanPlaces, InTry
  <2>3. ReadOK'
    BY <1>a, <1>b, <1>c DEF Typed, TypedEngine, TypedFlags, PlaceOK, ReadOK
  <2>4. NewsOK'
    BY <1>a, <1>b, <1>c, <1>d DEF Typed, TypedEngine, TypedFlags, PlaceOK, ReadOK, NewsOK
  <2>5. OwedOK'
    BY <1>a, <1>b, <1>c, <1>e DEF Typed, TypedEngine, TypedFlags, PlaceOK, ReadOK, OwedOK, Bracket, Restoring, SweepPlaces, WaitPlaces, ScanPlaces
  <2>6. RateOK'
    BY <1>a, <1>b, <1>c, <1>f DEF Typed, TypedRates, PlaceOK, ReadOK, RateOK, InSweep, InTry, Bracket, Restoring, SweepPlaces, WaitPlaces, ScanPlaces
  <2> QED
    BY <2>1, <2>2, <2>3, <2>4, <2>5, <2>6, TypedIsTypeNext DEF IInv
<1>3. CASE \E t \in Threads : Keep(t)
  <2>0. PICK t \in Threads : Keep(t)
    BY <1>3
  <2> USE <2>0 DEF Keep, device, engine, overlap, reads, sweep, told, locals, run, rates
  <2>1. Typed'
    <3>1. TypedEngine'
      BY <1>a, <1>b DEF Typed, TypedEngine, TypedPlace, PlaceOK, Bracket, Restoring, SweepPlaces, WaitPlaces, ScanPlaces
    <3>2. TypedFlags'
      BY <1>a DEF Typed, TypedFlags
    <3>3. TypedPlace'
      BY <1>a DEF Typed, TypedPlace, TypedRates, Places, Outcomes, Bracket, Restoring, SweepPlaces, WaitPlaces, ScanPlaces
    <3>4. TypedRates'
      BY <1>a, <1>b DEF Typed, TypedRates, PlaceOK, Bracket, Restoring, SweepPlaces, WaitPlaces, ScanPlaces
    <3> QED
      BY <3>1, <3>2, <3>3, <3>4 DEF Typed
  <2>2. PlaceOK'
    BY <1>a, <1>b, <1>c DEF Typed, TypedFlags, TypedPlace, TypedRates, PlaceOK, ReadOK, Bracket, Restoring, SweepPlaces, WaitPlaces, ScanPlaces, InTry
  <2>3. ReadOK'
    BY <1>a, <1>b, <1>c DEF Typed, TypedEngine, TypedFlags, PlaceOK, ReadOK
  <2>4. NewsOK'
    BY <1>a, <1>b, <1>c, <1>d DEF Typed, TypedEngine, TypedFlags, PlaceOK, ReadOK, NewsOK
  <2>5. OwedOK'
    BY <1>a, <1>b, <1>c, <1>e DEF Typed, TypedEngine, TypedFlags, PlaceOK, ReadOK, OwedOK, Bracket, Restoring, SweepPlaces, WaitPlaces, ScanPlaces
  <2>6. RateOK'
    BY <1>a, <1>b, <1>c, <1>f DEF Typed, TypedRates, PlaceOK, ReadOK, RateOK, InSweep, InTry, Bracket, Restoring, SweepPlaces, WaitPlaces, ScanPlaces
  <2> QED
    BY <2>1, <2>2, <2>3, <2>4, <2>5, <2>6, TypedIsTypeNext DEF IInv
<1>4. CASE PollEnds
  <2> USE <1>4 DEF PollEnds, Publish, device, engine, overlap, reads, sweep, told, locals, run, rates
  <2>1. Typed'
    <3>1. TypedEngine'
      BY <1>a, <1>b DEF Typed, TypedEngine, TypedPlace, PlaceOK, Bracket, Restoring, SweepPlaces, WaitPlaces, ScanPlaces
    <3>2. TypedFlags'
      BY <1>a DEF Typed, TypedFlags
    <3>3. TypedPlace'
      BY <1>a DEF Typed, TypedPlace, TypedRates, Places, Outcomes, Bracket, Restoring, SweepPlaces, WaitPlaces, ScanPlaces
    <3>4. TypedRates'
      BY <1>a, <1>b DEF Typed, TypedRates, PlaceOK, Bracket, Restoring, SweepPlaces, WaitPlaces, ScanPlaces
    <3> QED
      BY <3>1, <3>2, <3>3, <3>4 DEF Typed
  <2>2. PlaceOK'
    BY <1>a, <1>b, <1>c DEF Typed, TypedFlags, TypedPlace, TypedRates, PlaceOK, ReadOK, Bracket, Restoring, SweepPlaces, WaitPlaces, ScanPlaces, InTry
  <2>3. ReadOK'
    BY <1>a, <1>b, <1>c DEF Typed, TypedEngine, TypedFlags, PlaceOK, ReadOK
  <2>4. NewsOK'
    BY <1>a, <1>b, <1>c, <1>d DEF Typed, TypedEngine, TypedFlags, PlaceOK, ReadOK, NewsOK
  <2>5. OwedOK'
    BY <1>a, <1>b, <1>c, <1>e DEF Typed, TypedEngine, TypedFlags, PlaceOK, ReadOK, OwedOK, Bracket, Restoring, SweepPlaces, WaitPlaces, ScanPlaces
  <2>6. RateOK'
    BY <1>a, <1>b, <1>c, <1>f DEF Typed, TypedRates, PlaceOK, ReadOK, RateOK, InSweep, InTry, Bracket, Restoring, SweepPlaces, WaitPlaces, ScanPlaces
  <2> QED
    BY <2>1, <2>2, <2>3, <2>4, <2>5, <2>6, TypedIsTypeNext DEF IInv
<1>5. CASE \E v \in Values : SetTarget(v)
  <2>0. PICK v \in Values : SetTarget(v)
    BY <1>5
  <2> USE <2>0 DEF SetTarget, Order, Balk, Publicise, device, engine, overlap, reads, sweep, told, locals, run, rates
  <2>1. Typed'
    <3>1. TypedEngine'
      BY <1>a, <1>b DEF Typed, TypedEngine, TypedPlace, PlaceOK, Bracket, Restoring, SweepPlaces, WaitPlaces, ScanPlaces
    <3>2. TypedFlags'
      BY <1>a DEF Typed, TypedFlags
    <3>3. TypedPlace'
      BY <1>a DEF Typed, TypedPlace, TypedRates, Places, Outcomes, Bracket, Restoring, SweepPlaces, WaitPlaces, ScanPlaces
    <3>4. TypedRates'
      BY <1>a, <1>b DEF Typed, TypedRates, PlaceOK, Bracket, Restoring, SweepPlaces, WaitPlaces, ScanPlaces
    <3> QED
      BY <3>1, <3>2, <3>3, <3>4 DEF Typed
  <2>2. PlaceOK'
    BY <1>a, <1>b, <1>c DEF Typed, TypedFlags, TypedPlace, TypedRates, PlaceOK, ReadOK, Bracket, Restoring, SweepPlaces, WaitPlaces, ScanPlaces, InTry
  <2>3. ReadOK'
    BY <1>a, <1>b, <1>c DEF Typed, TypedEngine, TypedFlags, PlaceOK, ReadOK
  <2>4. NewsOK'
    BY <1>a, <1>b, <1>c, <1>d DEF Typed, TypedEngine, TypedFlags, PlaceOK, ReadOK, NewsOK
  <2>5. OwedOK'
    BY <1>a, <1>b, <1>c, <1>e DEF Typed, TypedEngine, TypedFlags, PlaceOK, ReadOK, OwedOK, Bracket, Restoring, SweepPlaces, WaitPlaces, ScanPlaces
  <2>6. RateOK'
    BY <1>a, <1>b, <1>c, <1>f DEF Typed, TypedRates, PlaceOK, ReadOK, RateOK, InSweep, InTry, Bracket, Restoring, SweepPlaces, WaitPlaces, ScanPlaces
  <2> QED
    BY <2>1, <2>2, <2>3, <2>4, <2>5, <2>6, TypedIsTypeNext DEF IInv
<1>6. CASE \E r \in Rates : SetPollingRate(r)
  <2>0. PICK r \in Rates : SetPollingRate(r)
    BY <1>6
  <2> USE <2>0 DEF SetPollingRate, device, engine, overlap, reads, sweep, told, locals, run, rates
  <2>1. Typed'
    <3>1. TypedEngine'
      BY <1>a, <1>b DEF Typed, TypedEngine, TypedPlace, PlaceOK, Bracket, Restoring, SweepPlaces, WaitPlaces, ScanPlaces
    <3>2. TypedFlags'
      BY <1>a DEF Typed, TypedFlags
    <3>3. TypedPlace'
      BY <1>a DEF Typed, TypedPlace, TypedRates, Places, Outcomes, Bracket, Restoring, SweepPlaces, WaitPlaces, ScanPlaces
    <3>4. TypedRates'
      BY <1>a, <1>b DEF Typed, TypedRates, PlaceOK, Bracket, Restoring, SweepPlaces, WaitPlaces, ScanPlaces
    <3> QED
      BY <3>1, <3>2, <3>3, <3>4 DEF Typed
  <2>2. PlaceOK'
    BY <1>a, <1>b, <1>c DEF Typed, TypedFlags, TypedPlace, TypedRates, PlaceOK, ReadOK, Bracket, Restoring, SweepPlaces, WaitPlaces, ScanPlaces, InTry
  <2>3. ReadOK'
    BY <1>a, <1>b, <1>c DEF Typed, TypedEngine, TypedFlags, PlaceOK, ReadOK
  <2>4. NewsOK'
    BY <1>a, <1>b, <1>c, <1>d DEF Typed, TypedEngine, TypedFlags, PlaceOK, ReadOK, NewsOK
  <2>5. OwedOK'
    BY <1>a, <1>b, <1>c, <1>e DEF Typed, TypedEngine, TypedFlags, PlaceOK, ReadOK, OwedOK, Bracket, Restoring, SweepPlaces, WaitPlaces, ScanPlaces
  <2>6. RateOK'
    BY <1>a, <1>b, <1>c, <1>f DEF Typed, TypedRates, PlaceOK, ReadOK, RateOK, InSweep, InTry, Bracket, Restoring, SweepPlaces, WaitPlaces, ScanPlaces
  <2> QED
    BY <2>1, <2>2, <2>3, <2>4, <2>5, <2>6, TypedIsTypeNext DEF IInv
<1>7. CASE Expire
  <2> USE <1>7 DEF Expire, device, engine, overlap, reads, sweep, told, locals, run, rates
  <2>1. Typed'
    <3>1. TypedEngine'
      BY <1>a, <1>b DEF Typed, TypedEngine, TypedPlace, PlaceOK, Bracket, Restoring, SweepPlaces, WaitPlaces, ScanPlaces
    <3>2. TypedFlags'
      BY <1>a DEF Typed, TypedFlags
    <3>3. TypedPlace'
      BY <1>a DEF Typed, TypedPlace, TypedRates, Places, Outcomes, Bracket, Restoring, SweepPlaces, WaitPlaces, ScanPlaces
    <3>4. TypedRates'
      BY <1>a, <1>b DEF Typed, TypedRates, PlaceOK, Bracket, Restoring, SweepPlaces, WaitPlaces, ScanPlaces
    <3> QED
      BY <3>1, <3>2, <3>3, <3>4 DEF Typed
  <2>2. PlaceOK'
    BY <1>a, <1>b, <1>c DEF Typed, TypedFlags, TypedPlace, TypedRates, PlaceOK, ReadOK, Bracket, Restoring, SweepPlaces, WaitPlaces, ScanPlaces, InTry
  <2>3. ReadOK'
    BY <1>a, <1>b, <1>c DEF Typed, TypedEngine, TypedFlags, PlaceOK, ReadOK
  <2>4. NewsOK'
    BY <1>a, <1>b, <1>c, <1>d DEF Typed, TypedEngine, TypedFlags, PlaceOK, ReadOK, NewsOK
  <2>5. OwedOK'
    BY <1>a, <1>b, <1>c, <1>e DEF Typed, TypedEngine, TypedFlags, PlaceOK, ReadOK, OwedOK, Bracket, Restoring, SweepPlaces, WaitPlaces, ScanPlaces
  <2>6. RateOK'
    BY <1>a, <1>b, <1>c, <1>f DEF Typed, TypedRates, PlaceOK, ReadOK, RateOK, InSweep, InTry, Bracket, Restoring, SweepPlaces, WaitPlaces, ScanPlaces
  <2> QED
    BY <2>1, <2>2, <2>3, <2>4, <2>5, <2>6, TypedIsTypeNext DEF IInv
<1>8. CASE Stop
  <2> USE <1>8 DEF Stop, device, engine, overlap, reads, sweep, told, locals, run, rates
  <2>1. Typed'
    <3>1. TypedEngine'
      BY <1>a, <1>b DEF Typed, TypedEngine, TypedPlace, PlaceOK, Bracket, Restoring, SweepPlaces, WaitPlaces, ScanPlaces
    <3>2. TypedFlags'
      BY <1>a DEF Typed, TypedFlags
    <3>3. TypedPlace'
      BY <1>a DEF Typed, TypedPlace, TypedRates, Places, Outcomes, Bracket, Restoring, SweepPlaces, WaitPlaces, ScanPlaces
    <3>4. TypedRates'
      BY <1>a, <1>b DEF Typed, TypedRates, PlaceOK, Bracket, Restoring, SweepPlaces, WaitPlaces, ScanPlaces
    <3> QED
      BY <3>1, <3>2, <3>3, <3>4 DEF Typed
  <2>2. PlaceOK'
    BY <1>a, <1>b, <1>c DEF Typed, TypedFlags, TypedPlace, TypedRates, PlaceOK, ReadOK, Bracket, Restoring, SweepPlaces, WaitPlaces, ScanPlaces, InTry
  <2>3. ReadOK'
    BY <1>a, <1>b, <1>c DEF Typed, TypedEngine, TypedFlags, PlaceOK, ReadOK
  <2>4. NewsOK'
    BY <1>a, <1>b, <1>c, <1>d DEF Typed, TypedEngine, TypedFlags, PlaceOK, ReadOK, NewsOK
  <2>5. OwedOK'
    BY <1>a, <1>b, <1>c, <1>e DEF Typed, TypedEngine, TypedFlags, PlaceOK, ReadOK, OwedOK, Bracket, Restoring, SweepPlaces, WaitPlaces, ScanPlaces
  <2>6. RateOK'
    BY <1>a, <1>b, <1>c, <1>f DEF Typed, TypedRates, PlaceOK, ReadOK, RateOK, InSweep, InTry, Bracket, Restoring, SweepPlaces, WaitPlaces, ScanPlaces
  <2> QED
    BY <2>1, <2>2, <2>3, <2>4, <2>5, <2>6, TypedIsTypeNext DEF IInv
<1>9. CASE Interrupt
  <2> USE <1>9 DEF Interrupt, LeaveTry, EndStep, Drop, Goto, InTry, device, engine, overlap, reads, sweep, told, locals, run, rates
  <2>1. Typed'
    <3>1. TypedEngine'
      BY <1>a, <1>b DEF Typed, TypedEngine, TypedPlace, PlaceOK, Bracket, Restoring, SweepPlaces, WaitPlaces, ScanPlaces
    <3>2. TypedFlags'
      BY <1>a DEF Typed, TypedFlags
    <3>3. TypedPlace'
      BY <1>a DEF Typed, TypedPlace, TypedRates, Places, Outcomes, Bracket, Restoring, SweepPlaces, WaitPlaces, ScanPlaces
    <3>4. TypedRates'
      BY <1>a, <1>b DEF Typed, TypedRates, PlaceOK, Bracket, Restoring, SweepPlaces, WaitPlaces, ScanPlaces
    <3> QED
      BY <3>1, <3>2, <3>3, <3>4 DEF Typed
  <2>2. PlaceOK'
    BY <1>a, <1>b, <1>c DEF Typed, TypedFlags, TypedPlace, TypedRates, PlaceOK, ReadOK, Bracket, Restoring, SweepPlaces, WaitPlaces, ScanPlaces, InTry
  <2>3. ReadOK'
    BY <1>a, <1>b, <1>c DEF Typed, TypedEngine, TypedFlags, PlaceOK, ReadOK
  <2>4. NewsOK'
    BY <1>a, <1>b, <1>c, <1>d DEF Typed, TypedEngine, TypedFlags, PlaceOK, ReadOK, NewsOK
  <2>5. OwedOK'
    BY <1>a, <1>b, <1>c, <1>e DEF Typed, TypedEngine, TypedFlags, PlaceOK, ReadOK, OwedOK, Bracket, Restoring, SweepPlaces, WaitPlaces, ScanPlaces
  <2>6. RateOK'
    BY <1>a, <1>b, <1>c, <1>f DEF Typed, TypedRates, PlaceOK, ReadOK, RateOK, InSweep, InTry, Bracket, Restoring, SweepPlaces, WaitPlaces, ScanPlaces
  <2> QED
    BY <2>1, <2>2, <2>3, <2>4, <2>5, <2>6, TypedIsTypeNext DEF IInv
<1>10. CASE Command
  <2> USE <1>10 DEF Command, Order, Balk, Publicise, Goto, AfterCommand, device, engine, overlap, reads, sweep, told, locals, run, rates
  <2>1. Typed'
    <3>1. TypedEngine'
      BY <1>a, <1>b DEF Typed, TypedEngine, TypedPlace, PlaceOK, Bracket, Restoring, SweepPlaces, WaitPlaces, ScanPlaces
    <3>2. TypedFlags'
      BY <1>a DEF Typed, TypedFlags
    <3>3. TypedPlace'
      BY <1>a DEF Typed, TypedPlace, TypedRates, Places, Outcomes, Bracket, Restoring, SweepPlaces, WaitPlaces, ScanPlaces
    <3>4. TypedRates'
      BY <1>a, <1>b DEF Typed, TypedRates, PlaceOK, Bracket, Restoring, SweepPlaces, WaitPlaces, ScanPlaces
    <3> QED
      BY <3>1, <3>2, <3>3, <3>4 DEF Typed
  <2>2. PlaceOK'
    BY <1>a, <1>b, <1>c DEF Typed, TypedFlags, TypedPlace, TypedRates, PlaceOK, ReadOK, Bracket, Restoring, SweepPlaces, WaitPlaces, ScanPlaces, InTry
  <2>3. ReadOK'
    BY <1>a, <1>b, <1>c DEF Typed, TypedEngine, TypedFlags, PlaceOK, ReadOK
  <2>4. NewsOK'
    BY <1>a, <1>b, <1>c, <1>d DEF Typed, TypedEngine, TypedFlags, PlaceOK, ReadOK, NewsOK
  <2>5. OwedOK'
    BY <1>a, <1>b, <1>c, <1>e DEF Typed, TypedEngine, TypedFlags, PlaceOK, ReadOK, OwedOK, Bracket, Restoring, SweepPlaces, WaitPlaces, ScanPlaces
  <2>6. RateOK'
    BY <1>a, <1>b, <1>c, <1>f DEF Typed, TypedRates, PlaceOK, ReadOK, RateOK, InSweep, InTry, Bracket, Restoring, SweepPlaces, WaitPlaces, ScanPlaces
  <2> QED
    BY <2>1, <2>2, <2>3, <2>4, <2>5, <2>6, TypedIsTypeNext DEF IInv
<1>11. CASE CommandRaises
  <2> USE <1>11 DEF CommandRaises, Balk, Raise, LeaveTry, EndStep, Drop, Goto, device, engine, overlap, reads, sweep, told, locals, run, rates
  <2>1. Typed'
    <3>1. TypedEngine'
      BY <1>a, <1>b DEF Typed, TypedEngine, TypedPlace, PlaceOK, Bracket, Restoring, SweepPlaces, WaitPlaces, ScanPlaces
    <3>2. TypedFlags'
      BY <1>a DEF Typed, TypedFlags
    <3>3. TypedPlace'
      BY <1>a DEF Typed, TypedPlace, TypedRates, Places, Outcomes, Bracket, Restoring, SweepPlaces, WaitPlaces, ScanPlaces
    <3>4. TypedRates'
      BY <1>a, <1>b DEF Typed, TypedRates, PlaceOK, Bracket, Restoring, SweepPlaces, WaitPlaces, ScanPlaces
    <3> QED
      BY <3>1, <3>2, <3>3, <3>4 DEF Typed
  <2>2. PlaceOK'
    BY <1>a, <1>b, <1>c DEF Typed, TypedFlags, TypedPlace, TypedRates, PlaceOK, ReadOK, Bracket, Restoring, SweepPlaces, WaitPlaces, ScanPlaces, InTry
  <2>3. ReadOK'
    BY <1>a, <1>b, <1>c DEF Typed, TypedEngine, TypedFlags, PlaceOK, ReadOK
  <2>4. NewsOK'
    BY <1>a, <1>b, <1>c, <1>d DEF Typed, TypedEngine, TypedFlags, PlaceOK, ReadOK, NewsOK
  <2>5. OwedOK'
    BY <1>a, <1>b, <1>c, <1>e DEF Typed, TypedEngine, TypedFlags, PlaceOK, ReadOK, OwedOK, Bracket, Restoring, SweepPlaces, WaitPlaces, ScanPlaces
  <2>6. RateOK'
    BY <1>a, <1>b, <1>c, <1>f DEF Typed, TypedRates, PlaceOK, ReadOK, RateOK, InSweep, InTry, Bracket, Restoring, SweepPlaces, WaitPlaces, ScanPlaces
  <2> QED
    BY <2>1, <2>2, <2>3, <2>4, <2>5, <2>6, TypedIsTypeNext DEF IInv
<1>12. CASE SetTargetField
  <2> USE <1>12 DEF SetTargetField, Order, Balk, Goto, device, engine, overlap, reads, sweep, told, locals, run, rates
  <2>1. Typed'
    <3>1. TypedEngine'
      BY <1>a, <1>b DEF Typed, TypedEngine, TypedPlace, PlaceOK, Bracket, Restoring, SweepPlaces, WaitPlaces, ScanPlaces
    <3>2. TypedFlags'
      BY <1>a DEF Typed, TypedFlags
    <3>3. TypedPlace'
      BY <1>a DEF Typed, TypedPlace, TypedRates, Places, Outcomes, Bracket, Restoring, SweepPlaces, WaitPlaces, ScanPlaces
    <3>4. TypedRates'
      BY <1>a, <1>b DEF Typed, TypedRates, PlaceOK, Bracket, Restoring, SweepPlaces, WaitPlaces, ScanPlaces
    <3> QED
      BY <3>1, <3>2, <3>3, <3>4 DEF Typed
  <2>2. PlaceOK'
    BY <1>a, <1>b, <1>c DEF Typed, TypedFlags, TypedPlace, TypedRates, PlaceOK, ReadOK, Bracket, Restoring, SweepPlaces, WaitPlaces, ScanPlaces, InTry
  <2>3. ReadOK'
    BY <1>a, <1>b, <1>c DEF Typed, TypedEngine, TypedFlags, PlaceOK, ReadOK
  <2>4. NewsOK'
    BY <1>a, <1>b, <1>c, <1>d DEF Typed, TypedEngine, TypedFlags, PlaceOK, ReadOK, NewsOK
  <2>5. OwedOK'
    BY <1>a, <1>b, <1>c, <1>e DEF Typed, TypedEngine, TypedFlags, PlaceOK, ReadOK, OwedOK, Bracket, Restoring, SweepPlaces, WaitPlaces, ScanPlaces
  <2>6. RateOK'
    BY <1>a, <1>b, <1>c, <1>f DEF Typed, TypedRates, PlaceOK, ReadOK, RateOK, InSweep, InTry, Bracket, Restoring, SweepPlaces, WaitPlaces, ScanPlaces
  <2> QED
    BY <2>1, <2>2, <2>3, <2>4, <2>5, <2>6, TypedIsTypeNext DEF IInv
<1>13. CASE RampToTarget
  <2> USE <1>13 DEF RampToTarget, Goto, device, engine, overlap, reads, sweep, told, locals, run, rates
  <2>1. Typed'
    <3>1. TypedEngine'
      BY <1>a, <1>b DEF Typed, TypedEngine, TypedPlace, PlaceOK, Bracket, Restoring, SweepPlaces, WaitPlaces, ScanPlaces
    <3>2. TypedFlags'
      BY <1>a DEF Typed, TypedFlags
    <3>3. TypedPlace'
      BY <1>a DEF Typed, TypedPlace, TypedRates, Places, Outcomes, Bracket, Restoring, SweepPlaces, WaitPlaces, ScanPlaces
    <3>4. TypedRates'
      BY <1>a, <1>b DEF Typed, TypedRates, PlaceOK, Bracket, Restoring, SweepPlaces, WaitPlaces, ScanPlaces
    <3> QED
      BY <3>1, <3>2, <3>3, <3>4 DEF Typed
  <2>2. PlaceOK'
    BY <1>a, <1>b, <1>c DEF Typed, TypedFlags, TypedPlace, TypedRates, PlaceOK, ReadOK, Bracket, Restoring, SweepPlaces, WaitPlaces, ScanPlaces, InTry
  <2>3. ReadOK'
    BY <1>a, <1>b, <1>c DEF Typed, TypedEngine, TypedFlags, PlaceOK, ReadOK
  <2>4. NewsOK'
    BY <1>a, <1>b, <1>c, <1>d DEF Typed, TypedEngine, TypedFlags, PlaceOK, ReadOK, NewsOK
  <2>5. OwedOK'
    BY <1>a, <1>b, <1>c, <1>e DEF Typed, TypedEngine, TypedFlags, PlaceOK, ReadOK, OwedOK, Bracket, Restoring, SweepPlaces, WaitPlaces, ScanPlaces
  <2>6. RateOK'
    BY <1>a, <1>b, <1>c, <1>f DEF Typed, TypedRates, PlaceOK, ReadOK, RateOK, InSweep, InTry, Bracket, Restoring, SweepPlaces, WaitPlaces, ScanPlaces
  <2> QED
    BY <2>1, <2>2, <2>3, <2>4, <2>5, <2>6, TypedIsTypeNext DEF IInv
<1>14. CASE Fail
  <2> USE <1>14 DEF Fail, CanRaise, Raise, LeaveTry, EndStep, Drop, Goto, device, engine, overlap, reads, sweep, told, locals, run, rates
  <2>1. Typed'
    <3>1. TypedEngine'
      BY <1>a, <1>b DEF Typed, TypedEngine, TypedPlace, PlaceOK, Bracket, Restoring, SweepPlaces, WaitPlaces, ScanPlaces
    <3>2. TypedFlags'
      BY <1>a DEF Typed, TypedFlags
    <3>3. TypedPlace'
      BY <1>a DEF Typed, TypedPlace, TypedRates, Places, Outcomes, Bracket, Restoring, SweepPlaces, WaitPlaces, ScanPlaces
    <3>4. TypedRates'
      BY <1>a, <1>b DEF Typed, TypedRates, PlaceOK, Bracket, Restoring, SweepPlaces, WaitPlaces, ScanPlaces
    <3> QED
      BY <3>1, <3>2, <3>3, <3>4 DEF Typed
  <2>2. PlaceOK'
    BY <1>a, <1>b, <1>c DEF Typed, TypedFlags, TypedPlace, TypedRates, PlaceOK, ReadOK, Bracket, Restoring, SweepPlaces, WaitPlaces, ScanPlaces, InTry
  <2>3. ReadOK'
    BY <1>a, <1>b, <1>c DEF Typed, TypedEngine, TypedFlags, PlaceOK, ReadOK, SweepPlaces
  <2>4. NewsOK'
    BY <1>a, <1>b, <1>c, <1>d DEF Typed, TypedEngine, TypedFlags, PlaceOK, ReadOK, NewsOK
  <2>5. OwedOK'
    BY <1>a, <1>b, <1>c, <1>e DEF Typed, TypedEngine, TypedFlags, PlaceOK, ReadOK, OwedOK, Bracket, Restoring, SweepPlaces, WaitPlaces, ScanPlaces
  <2>6. RateOK'
    BY <1>a, <1>b, <1>c, <1>f DEF Typed, TypedRates, PlaceOK, ReadOK, RateOK, InSweep, InTry, Bracket, Restoring, SweepPlaces, WaitPlaces, ScanPlaces
  <2> QED
    BY <2>1, <2>2, <2>3, <2>4, <2>5, <2>6, TypedIsTypeNext DEF IInv
<1>15. CASE Mark
  <2> USE <1>15 DEF Mark, At, Goto, AfterMark, device, engine, overlap, reads, sweep, told, locals, run, rates
  <2>1. Typed'
    <3>1. TypedEngine'
      BY <1>a, <1>b DEF Typed, TypedEngine, TypedPlace, PlaceOK, Bracket, Restoring, SweepPlaces, WaitPlaces, ScanPlaces
    <3>2. TypedFlags'
      BY <1>a DEF Typed, TypedFlags
    <3>3. TypedPlace'
      BY <1>a DEF Typed, TypedPlace, TypedRates, Places, Outcomes, Bracket, Restoring, SweepPlaces, WaitPlaces, ScanPlaces
    <3>4. TypedRates'
      BY <1>a, <1>b DEF Typed, TypedRates, PlaceOK, Bracket, Restoring, SweepPlaces, WaitPlaces, ScanPlaces
    <3> QED
      BY <3>1, <3>2, <3>3, <3>4 DEF Typed
  <2>2. PlaceOK'
    BY <1>a, <1>b, <1>c DEF Typed, TypedFlags, TypedPlace, TypedRates, PlaceOK, ReadOK, Bracket, Restoring, SweepPlaces, WaitPlaces, ScanPlaces, InTry
  <2>3. ReadOK'
    BY <1>a, <1>b, <1>c DEF Typed, TypedEngine, TypedFlags, PlaceOK, ReadOK
  <2>4. NewsOK'
    BY <1>a, <1>b, <1>c, <1>d DEF Typed, TypedEngine, TypedFlags, PlaceOK, ReadOK, NewsOK
  <2>5. OwedOK'
    BY <1>a, <1>b, <1>c, <1>e DEF Typed, TypedEngine, TypedFlags, PlaceOK, ReadOK, OwedOK, Bracket, Restoring, SweepPlaces, WaitPlaces, ScanPlaces
  <2>6. RateOK'
    BY <1>a, <1>b, <1>c, <1>f DEF Typed, TypedRates, PlaceOK, ReadOK, RateOK, InSweep, InTry, Bracket, Restoring, SweepPlaces, WaitPlaces, ScanPlaces
  <2> QED
    BY <2>1, <2>2, <2>3, <2>4, <2>5, <2>6, TypedIsTypeNext DEF IInv
<1>16. CASE StartRead
  <2> USE <1>16 DEF StartRead, Measure, device, engine, overlap, reads, sweep, told, locals, run, rates
  <2>1. Typed'
    <3>1. TypedEngine'
      BY <1>a, <1>b DEF Typed, TypedEngine, TypedPlace, PlaceOK, Bracket, Restoring, SweepPlaces, WaitPlaces, ScanPlaces
    <3>2. TypedFlags'
      BY <1>a DEF Typed, TypedFlags
    <3>3. TypedPlace'
      BY <1>a DEF Typed, TypedPlace, TypedRates, Places, Outcomes, Bracket, Restoring, SweepPlaces, WaitPlaces, ScanPlaces
    <3>4. TypedRates'
      BY <1>a, <1>b DEF Typed, TypedRates, PlaceOK, Bracket, Restoring, SweepPlaces, WaitPlaces, ScanPlaces
    <3> QED
      BY <3>1, <3>2, <3>3, <3>4 DEF Typed
  <2>2. PlaceOK'
    BY <1>a, <1>b, <1>c DEF Typed, TypedFlags, TypedPlace, TypedRates, PlaceOK, ReadOK, Bracket, Restoring, SweepPlaces, WaitPlaces, ScanPlaces, InTry
  <2>3. ReadOK'
    BY <1>a, <1>b, <1>c DEF Typed, TypedEngine, TypedFlags, PlaceOK, ReadOK
  <2>4. NewsOK'
    BY <1>a, <1>b, <1>c, <1>d DEF Typed, TypedEngine, TypedFlags, PlaceOK, ReadOK, NewsOK
  <2>5. OwedOK'
    BY <1>a, <1>b, <1>c, <1>e DEF Typed, TypedEngine, TypedFlags, PlaceOK, ReadOK, OwedOK, Bracket, Restoring, SweepPlaces, WaitPlaces, ScanPlaces
  <2>6. RateOK'
    BY <1>a, <1>b, <1>c, <1>f DEF Typed, TypedRates, PlaceOK, ReadOK, RateOK, InSweep, InTry, Bracket, Restoring, SweepPlaces, WaitPlaces, ScanPlaces
  <2> QED
    BY <2>1, <2>2, <2>3, <2>4, <2>5, <2>6, TypedIsTypeNext DEF IInv
<1>17. CASE EndRead
  <2> USE <1>17 DEF EndRead, Publish, Answer, Judge, Goto, End, AfterWait, device, engine, overlap, reads, sweep, told, locals, run, rates
  <2>1. Typed'
    <3>1. TypedEngine'
      BY <1>a, <1>b DEF Typed, TypedEngine, TypedPlace, PlaceOK, Bracket, Restoring, SweepPlaces, WaitPlaces, ScanPlaces
    <3>2. TypedFlags'
      BY <1>a DEF Typed, TypedFlags
    <3>3. TypedPlace'
      BY <1>a DEF Typed, TypedPlace, TypedRates, Places, Outcomes, Bracket, Restoring, SweepPlaces, WaitPlaces, ScanPlaces
    <3>4. TypedRates'
      BY <1>a, <1>b DEF Typed, TypedRates, PlaceOK, Bracket, Restoring, SweepPlaces, WaitPlaces, ScanPlaces
    <3> QED
      BY <3>1, <3>2, <3>3, <3>4 DEF Typed
  <2>2. PlaceOK'
    BY <1>a, <1>b, <1>c DEF Typed, TypedFlags, TypedPlace, TypedRates, PlaceOK, ReadOK, Bracket, Restoring, SweepPlaces, WaitPlaces, ScanPlaces, InTry
  <2>3. ReadOK'
    BY <1>a, <1>b, <1>c DEF Typed, TypedEngine, TypedFlags, PlaceOK, ReadOK
  <2>4. NewsOK'
    BY <1>a, <1>b, <1>c, <1>d DEF Typed, TypedEngine, TypedFlags, PlaceOK, ReadOK, NewsOK
  <2>5. OwedOK'
    BY <1>a, <1>b, <1>c, <1>e DEF Typed, TypedEngine, TypedFlags, PlaceOK, ReadOK, OwedOK, Bracket, Restoring, SweepPlaces, WaitPlaces, ScanPlaces
  <2>6. RateOK'
    BY <1>a, <1>b, <1>c, <1>f DEF Typed, TypedRates, PlaceOK, ReadOK, RateOK, InSweep, InTry, Bracket, Restoring, SweepPlaces, WaitPlaces, ScanPlaces
  <2> QED
    BY <2>1, <2>2, <2>3, <2>4, <2>5, <2>6, TypedIsTypeNext DEF IInv
<1>18. CASE ShareRead
  <2> USE <1>18 DEF ShareRead, Answer, Judge, Goto, End, AfterWait, device, engine, overlap, reads, sweep, told, locals, run, rates
  <2>1. Typed'
    <3>1. TypedEngine'
      BY <1>a, <1>b DEF Typed, TypedEngine, TypedPlace, PlaceOK, Bracket, Restoring, SweepPlaces, WaitPlaces, ScanPlaces
    <3>2. TypedFlags'
      BY <1>a DEF Typed, TypedFlags
    <3>3. TypedPlace'
      BY <1>a DEF Typed, TypedPlace, TypedRates, Places, Outcomes, Bracket, Restoring, SweepPlaces, WaitPlaces, ScanPlaces
    <3>4. TypedRates'
      BY <1>a, <1>b DEF Typed, TypedRates, PlaceOK, Bracket, Restoring, SweepPlaces, WaitPlaces, ScanPlaces
    <3> QED
      BY <3>1, <3>2, <3>3, <3>4 DEF Typed
  <2>2. PlaceOK'
    BY <1>a, <1>b, <1>c DEF Typed, TypedFlags, TypedPlace, TypedRates, PlaceOK, ReadOK, Bracket, Restoring, SweepPlaces, WaitPlaces, ScanPlaces, InTry
  <2>3. ReadOK'
    BY <1>a, <1>b, <1>c DEF Typed, TypedEngine, TypedFlags, PlaceOK, ReadOK
  <2>4. NewsOK'
    BY <1>a, <1>b, <1>c, <1>d DEF Typed, TypedEngine, TypedFlags, PlaceOK, ReadOK, NewsOK
  <2>5. OwedOK'
    BY <1>a, <1>b, <1>c, <1>e DEF Typed, TypedEngine, TypedFlags, PlaceOK, ReadOK, OwedOK, Bracket, Restoring, SweepPlaces, WaitPlaces, ScanPlaces
  <2>6. RateOK'
    BY <1>a, <1>b, <1>c, <1>f DEF Typed, TypedRates, PlaceOK, ReadOK, RateOK, InSweep, InTry, Bracket, Restoring, SweepPlaces, WaitPlaces, ScanPlaces
  <2> QED
    BY <2>1, <2>2, <2>3, <2>4, <2>5, <2>6, TypedIsTypeNext DEF IInv
<1>19. CASE Look
  <2> USE <1>19 DEF Look, At, Judge, Goto, End, AfterWait, device, engine, overlap, reads, sweep, told, locals, run, rates
  <2>1. Typed'
    <3>1. TypedEngine'
      BY <1>a, <1>b DEF Typed, TypedEngine, TypedPlace, PlaceOK, Bracket, Restoring, SweepPlaces, WaitPlaces, ScanPlaces
    <3>2. TypedFlags'
      BY <1>a DEF Typed, TypedFlags
    <3>3. TypedPlace'
      BY <1>a DEF Typed, TypedPlace, TypedRates, Places, Outcomes, Bracket, Restoring, SweepPlaces, WaitPlaces, ScanPlaces
    <3>4. TypedRates'
      BY <1>a, <1>b DEF Typed, TypedRates, PlaceOK, Bracket, Restoring, SweepPlaces, WaitPlaces, ScanPlaces
    <3> QED
      BY <3>1, <3>2, <3>3, <3>4 DEF Typed
  <2>2. PlaceOK'
    BY <1>a, <1>b, <1>c DEF Typed, TypedFlags, TypedPlace, TypedRates, PlaceOK, ReadOK, Bracket, Restoring, SweepPlaces, WaitPlaces, ScanPlaces, InTry
  <2>3. ReadOK'
    BY <1>a, <1>b, <1>c DEF Typed, TypedEngine, TypedFlags, PlaceOK, ReadOK
  <2>4. NewsOK'
    BY <1>a, <1>b, <1>c, <1>d DEF Typed, TypedEngine, TypedFlags, PlaceOK, ReadOK, NewsOK
  <2>5. OwedOK'
    BY <1>a, <1>b, <1>c, <1>e DEF Typed, TypedEngine, TypedFlags, PlaceOK, ReadOK, OwedOK, Bracket, Restoring, SweepPlaces, WaitPlaces, ScanPlaces
  <2>6. RateOK'
    BY <1>a, <1>b, <1>c, <1>f DEF Typed, TypedRates, PlaceOK, ReadOK, RateOK, InSweep, InTry, Bracket, Restoring, SweepPlaces, WaitPlaces, ScanPlaces
  <2> QED
    BY <2>1, <2>2, <2>3, <2>4, <2>5, <2>6, TypedIsTypeNext DEF IInv
<1>20. CASE CheckDeadline
  <2> USE <1>20 DEF CheckDeadline, At, Goto, End, AfterWait, device, engine, overlap, reads, sweep, told, locals, run, rates
  <2>1. Typed'
    <3>1. TypedEngine'
      BY <1>a, <1>b DEF Typed, TypedEngine, TypedPlace, PlaceOK, Bracket, Restoring, SweepPlaces, WaitPlaces, ScanPlaces
    <3>2. TypedFlags'
      BY <1>a DEF Typed, TypedFlags
    <3>3. TypedPlace'
      BY <1>a DEF Typed, TypedPlace, TypedRates, Places, Outcomes, Bracket, Restoring, SweepPlaces, WaitPlaces, ScanPlaces
    <3>4. TypedRates'
      BY <1>a, <1>b DEF Typed, TypedRates, PlaceOK, Bracket, Restoring, SweepPlaces, WaitPlaces, ScanPlaces
    <3> QED
      BY <3>1, <3>2, <3>3, <3>4 DEF Typed
  <2>2. PlaceOK'
    BY <1>a, <1>b, <1>c DEF Typed, TypedFlags, TypedPlace, TypedRates, PlaceOK, ReadOK, Bracket, Restoring, SweepPlaces, WaitPlaces, ScanPlaces, InTry
  <2>3. ReadOK'
    BY <1>a, <1>b, <1>c DEF Typed, TypedEngine, TypedFlags, PlaceOK, ReadOK
  <2>4. NewsOK'
    BY <1>a, <1>b, <1>c, <1>d DEF Typed, TypedEngine, TypedFlags, PlaceOK, ReadOK, NewsOK
  <2>5. OwedOK'
    BY <1>a, <1>b, <1>c, <1>e DEF Typed, TypedEngine, TypedFlags, PlaceOK, ReadOK, OwedOK, Bracket, Restoring, SweepPlaces, WaitPlaces, ScanPlaces
  <2>6. RateOK'
    BY <1>a, <1>b, <1>c, <1>f DEF Typed, TypedRates, PlaceOK, ReadOK, RateOK, InSweep, InTry, Bracket, Restoring, SweepPlaces, WaitPlaces, ScanPlaces
  <2> QED
    BY <2>1, <2>2, <2>3, <2>4, <2>5, <2>6, TypedIsTypeNext DEF IInv
<1>21. CASE Woken
  <2> USE <1>21 DEF Woken, At, Goto, device, engine, overlap, reads, sweep, told, locals, run, rates
  <2>1. Typed'
    <3>1. TypedEngine'
      BY <1>a, <1>b DEF Typed, TypedEngine, TypedPlace, PlaceOK, Bracket, Restoring, SweepPlaces, WaitPlaces, ScanPlaces
    <3>2. TypedFlags'
      BY <1>a DEF Typed, TypedFlags
    <3>3. TypedPlace'
      BY <1>a DEF Typed, TypedPlace, TypedRates, Places, Outcomes, Bracket, Restoring, SweepPlaces, WaitPlaces, ScanPlaces
    <3>4. TypedRates'
      BY <1>a, <1>b DEF Typed, TypedRates, PlaceOK, Bracket, Restoring, SweepPlaces, WaitPlaces, ScanPlaces
    <3> QED
      BY <3>1, <3>2, <3>3, <3>4 DEF Typed
  <2>2. PlaceOK'
    BY <1>a, <1>b, <1>c DEF Typed, TypedFlags, TypedPlace, TypedRates, PlaceOK, ReadOK, Bracket, Restoring, SweepPlaces, WaitPlaces, ScanPlaces, InTry
  <2>3. ReadOK'
    BY <1>a, <1>b, <1>c DEF Typed, TypedEngine, TypedFlags, PlaceOK, ReadOK
  <2>4. NewsOK'
    BY <1>a, <1>b, <1>c, <1>d DEF Typed, TypedEngine, TypedFlags, PlaceOK, ReadOK, NewsOK
  <2>5. OwedOK'
    BY <1>a, <1>b, <1>c, <1>e DEF Typed, TypedEngine, TypedFlags, PlaceOK, ReadOK, OwedOK, Bracket, Restoring, SweepPlaces, WaitPlaces, ScanPlaces
  <2>6. RateOK'
    BY <1>a, <1>b, <1>c, <1>f DEF Typed, TypedRates, PlaceOK, ReadOK, RateOK, InSweep, InTry, Bracket, Restoring, SweepPlaces, WaitPlaces, ScanPlaces
  <2> QED
    BY <2>1, <2>2, <2>3, <2>4, <2>5, <2>6, TypedIsTypeNext DEF IInv
<1>22. CASE Unanswered
  <2> USE <1>22 DEF Unanswered, At, Goto, AfterWait, device, engine, overlap, reads, sweep, told, locals, run, rates
  <2>1. Typed'
    <3>1. TypedEngine'
      BY <1>a, <1>b DEF Typed, TypedEngine, TypedPlace, PlaceOK, Bracket, Restoring, SweepPlaces, WaitPlaces, ScanPlaces
    <3>2. TypedFlags'
      BY <1>a DEF Typed, TypedFlags
    <3>3. TypedPlace'
      BY <1>a DEF Typed, TypedPlace, TypedRates, Places, Outcomes, Bracket, Restoring, SweepPlaces, WaitPlaces, ScanPlaces
    <3>4. TypedRates'
      BY <1>a, <1>b DEF Typed, TypedRates, PlaceOK, Bracket, Restoring, SweepPlaces, WaitPlaces, ScanPlaces
    <3> QED
      BY <3>1, <3>2, <3>3, <3>4 DEF Typed
  <2>2. PlaceOK'
    BY <1>a, <1>b, <1>c DEF Typed, TypedFlags, TypedPlace, TypedRates, PlaceOK, ReadOK, Bracket, Restoring, SweepPlaces, WaitPlaces, ScanPlaces, InTry
  <2>3. ReadOK'
    BY <1>a, <1>b, <1>c DEF Typed, TypedEngine, TypedFlags, PlaceOK, ReadOK
  <2>4. NewsOK'
    BY <1>a, <1>b, <1>c, <1>d DEF Typed, TypedEngine, TypedFlags, PlaceOK, ReadOK, NewsOK
  <2>5. OwedOK'
    BY <1>a, <1>b, <1>c, <1>e DEF Typed, TypedEngine, TypedFlags, PlaceOK, ReadOK, OwedOK, Bracket, Restoring, SweepPlaces, WaitPlaces, ScanPlaces
  <2>6. RateOK'
    BY <1>a, <1>b, <1>c, <1>f DEF Typed, TypedRates, PlaceOK, ReadOK, RateOK, InSweep, InTry, Bracket, Restoring, SweepPlaces, WaitPlaces, ScanPlaces
  <2> QED
    BY <2>1, <2>2, <2>3, <2>4, <2>5, <2>6, TypedIsTypeNext DEF IInv
<1>23. CASE OutsideLimits
  <2> USE <1>23 DEF OutsideLimits, At, Goto, End, device, engine, overlap, reads, sweep, told, locals, run, rates
  <2>1. Typed'
    <3>1. TypedEngine'
      BY <1>a, <1>b DEF Typed, TypedEngine, TypedPlace, PlaceOK, Bracket, Restoring, SweepPlaces, WaitPlaces, ScanPlaces
    <3>2. TypedFlags'
      BY <1>a DEF Typed, TypedFlags
    <3>3. TypedPlace'
      BY <1>a DEF Typed, TypedPlace, TypedRates, Places, Outcomes, Bracket, Restoring, SweepPlaces, WaitPlaces, ScanPlaces
    <3>4. TypedRates'
      BY <1>a, <1>b DEF Typed, TypedRates, PlaceOK, Bracket, Restoring, SweepPlaces, WaitPlaces, ScanPlaces
    <3> QED
      BY <3>1, <3>2, <3>3, <3>4 DEF Typed
  <2>2. PlaceOK'
    BY <1>a, <1>b, <1>c DEF Typed, TypedFlags, TypedPlace, TypedRates, PlaceOK, ReadOK, Bracket, Restoring, SweepPlaces, WaitPlaces, ScanPlaces, InTry
  <2>3. ReadOK'
    BY <1>a, <1>b, <1>c DEF Typed, TypedEngine, TypedFlags, PlaceOK, ReadOK
  <2>4. NewsOK'
    BY <1>a, <1>b, <1>c, <1>d DEF Typed, TypedEngine, TypedFlags, PlaceOK, ReadOK, NewsOK
  <2>5. OwedOK'
    BY <1>a, <1>b, <1>c, <1>e DEF Typed, TypedEngine, TypedFlags, PlaceOK, ReadOK, OwedOK, Bracket, Restoring, SweepPlaces, WaitPlaces, ScanPlaces
  <2>6. RateOK'
    BY <1>a, <1>b, <1>c, <1>f DEF Typed, TypedRates, PlaceOK, ReadOK, RateOK, InSweep, InTry, Bracket, Restoring, SweepPlaces, WaitPlaces, ScanPlaces
  <2> QED
    BY <2>1, <2>2, <2>3, <2>4, <2>5, <2>6, TypedIsTypeNext DEF IInv
<1>24. CASE Measured
  <2> USE <1>24 DEF Measured, At, Goto, EndStep, Drop, device, engine, overlap, reads, sweep, told, locals, run, rates
  <2>1. Typed'
    <3>1. TypedEngine'
      BY <1>a, <1>b DEF Typed, TypedEngine, TypedPlace, PlaceOK, Bracket, Restoring, SweepPlaces, WaitPlaces, ScanPlaces
    <3>2. TypedFlags'
      BY <1>a DEF Typed, TypedFlags
    <3>3. TypedPlace'
      BY <1>a DEF Typed, TypedPlace, TypedRates, Places, Outcomes, Bracket, Restoring, SweepPlaces, WaitPlaces, ScanPlaces
    <3>4. TypedRates'
      BY <1>a, <1>b DEF Typed, TypedRates, PlaceOK, Bracket, Restoring, SweepPlaces, WaitPlaces, ScanPlaces
    <3> QED
      BY <3>1, <3>2, <3>3, <3>4 DEF Typed
  <2>2. PlaceOK'
    BY <1>a, <1>b, <1>c DEF Typed, TypedFlags, TypedPlace, TypedRates, PlaceOK, ReadOK, Bracket, Restoring, SweepPlaces, WaitPlaces, ScanPlaces, InTry
  <2>3. ReadOK'
    BY <1>a, <1>b, <1>c DEF Typed, TypedEngine, TypedFlags, PlaceOK, ReadOK
  <2>4. NewsOK'
    BY <1>a, <1>b, <1>c, <1>d DEF Typed, TypedEngine, TypedFlags, PlaceOK, ReadOK, NewsOK
  <2>5. OwedOK'
    BY <1>a, <1>b, <1>c, <1>e DEF Typed, TypedEngine, TypedFlags, PlaceOK, ReadOK, OwedOK, Bracket, Restoring, SweepPlaces, WaitPlaces, ScanPlaces
  <2>6. RateOK'
    BY <1>a, <1>b, <1>c, <1>f DEF Typed, TypedRates, PlaceOK, ReadOK, RateOK, InSweep, InTry, Bracket, Restoring, SweepPlaces, WaitPlaces, ScanPlaces
  <2> QED
    BY <2>1, <2>2, <2>3, <2>4, <2>5, <2>6, TypedIsTypeNext DEF IInv
<1>25. CASE SaveRate
  <2> USE <1>25 DEF SaveRate, At, Goto, device, engine, overlap, reads, sweep, told, locals, run, rates
  <2>1. Typed'
    <3>1. TypedEngine'
      BY <1>a, <1>b DEF Typed, TypedEngine, TypedPlace, PlaceOK, Bracket, Restoring, SweepPlaces, WaitPlaces, ScanPlaces
    <3>2. TypedFlags'
      BY <1>a DEF Typed, TypedFlags
    <3>3. TypedPlace'
      BY <1>a DEF Typed, TypedPlace, TypedRates, Places, Outcomes, Bracket, Restoring, SweepPlaces, WaitPlaces, ScanPlaces
    <3>4. TypedRates'
      BY <1>a, <1>b DEF Typed, TypedRates, PlaceOK, Bracket, Restoring, SweepPlaces, WaitPlaces, ScanPlaces
    <3> QED
      BY <3>1, <3>2, <3>3, <3>4 DEF Typed
  <2>2. PlaceOK'
    BY <1>a, <1>b, <1>c DEF Typed, TypedFlags, TypedPlace, TypedRates, PlaceOK, ReadOK, Bracket, Restoring, SweepPlaces, WaitPlaces, ScanPlaces, InTry
  <2>3. ReadOK'
    BY <1>a, <1>b, <1>c DEF Typed, TypedEngine, TypedFlags, PlaceOK, ReadOK
  <2>4. NewsOK'
    BY <1>a, <1>b, <1>c, <1>d DEF Typed, TypedEngine, TypedFlags, PlaceOK, ReadOK, NewsOK
  <2>5. OwedOK'
    BY <1>a, <1>b, <1>c, <1>e DEF Typed, TypedEngine, TypedFlags, PlaceOK, ReadOK, OwedOK, Bracket, Restoring, SweepPlaces, WaitPlaces, ScanPlaces
  <2>6. RateOK'
    BY <1>a, <1>b, <1>c, <1>f DEF Typed, TypedRates, PlaceOK, ReadOK, RateOK, InSweep, InTry, Bracket, Restoring, SweepPlaces, WaitPlaces, ScanPlaces
  <2> QED
    BY <2>1, <2>2, <2>3, <2>4, <2>5, <2>6, TypedIsTypeNext DEF IInv
<1>26. CASE \E r \in Rates : RaiseRate(r)
  <2>0. PICK r \in Rates : RaiseRate(r)
    BY <1>26
  <2> USE <2>0 DEF RaiseRate, At, Goto, device, engine, overlap, reads, sweep, told, locals, run, rates
  <2>1. Typed'
    <3>1. TypedEngine'
      BY <1>a, <1>b DEF Typed, TypedEngine, TypedPlace, PlaceOK, Bracket, Restoring, SweepPlaces, WaitPlaces, ScanPlaces
    <3>2. TypedFlags'
      BY <1>a DEF Typed, TypedFlags
    <3>3. TypedPlace'
      BY <1>a DEF Typed, TypedPlace, TypedRates, Places, Outcomes, Bracket, Restoring, SweepPlaces, WaitPlaces, ScanPlaces
    <3>4. TypedRates'
      BY <1>a, <1>b DEF Typed, TypedRates, PlaceOK, Bracket, Restoring, SweepPlaces, WaitPlaces, ScanPlaces
    <3> QED
      BY <3>1, <3>2, <3>3, <3>4 DEF Typed
  <2>2. PlaceOK'
    BY <1>a, <1>b, <1>c DEF Typed, TypedFlags, TypedPlace, TypedRates, PlaceOK, ReadOK, Bracket, Restoring, SweepPlaces, WaitPlaces, ScanPlaces, InTry
  <2>3. ReadOK'
    BY <1>a, <1>b, <1>c DEF Typed, TypedEngine, TypedFlags, PlaceOK, ReadOK
  <2>4. NewsOK'
    BY <1>a, <1>b, <1>c, <1>d DEF Typed, TypedEngine, TypedFlags, PlaceOK, ReadOK, NewsOK
  <2>5. OwedOK'
    BY <1>a, <1>b, <1>c, <1>e DEF Typed, TypedEngine, TypedFlags, PlaceOK, ReadOK, OwedOK, Bracket, Restoring, SweepPlaces, WaitPlaces, ScanPlaces
  <2>6. RateOK'
    BY <1>a, <1>b, <1>c, <1>f DEF Typed, TypedRates, PlaceOK, ReadOK, RateOK, InSweep, InTry, Bracket, Restoring, SweepPlaces, WaitPlaces, ScanPlaces
  <2> QED
    BY <2>1, <2>2, <2>3, <2>4, <2>5, <2>6, TypedIsTypeNext DEF IInv
<1>27. CASE Reset
  <2> USE <1>27 DEF Reset, At, Goto, device, engine, overlap, reads, sweep, told, locals, run, rates
  <2>1. Typed'
    <3>1. TypedEngine'
      BY <1>a, <1>b DEF Typed, TypedEngine, TypedPlace, PlaceOK, Bracket, Restoring, SweepPlaces, WaitPlaces, ScanPlaces
    <3>2. TypedFlags'
      BY <1>a DEF Typed, TypedFlags
    <3>3. TypedPlace'
      BY <1>a DEF Typed, TypedPlace, TypedRates, Places, Outcomes, Bracket, Restoring, SweepPlaces, WaitPlaces, ScanPlaces
    <3>4. TypedRates'
      BY <1>a, <1>b DEF Typed, TypedRates, PlaceOK, Bracket, Restoring, SweepPlaces, WaitPlaces, ScanPlaces
    <3> QED
      BY <3>1, <3>2, <3>3, <3>4 DEF Typed
  <2>2. PlaceOK'
    BY <1>a, <1>b, <1>c DEF Typed, TypedFlags, TypedPlace, TypedRates, PlaceOK, ReadOK, Bracket, Restoring, SweepPlaces, WaitPlaces, ScanPlaces, InTry
  <2>3. ReadOK'
    BY <1>a, <1>b, <1>c DEF Typed, TypedEngine, TypedFlags, PlaceOK, ReadOK
  <2>4. NewsOK'
    BY <1>a, <1>b, <1>c, <1>d DEF Typed, TypedEngine, TypedFlags, PlaceOK, ReadOK, NewsOK
  <2>5. OwedOK'
    BY <1>a, <1>b, <1>c, <1>e DEF Typed, TypedEngine, TypedFlags, PlaceOK, ReadOK, OwedOK, Bracket, Restoring, SweepPlaces, WaitPlaces, ScanPlaces
  <2>6. RateOK'
    BY <1>a, <1>b, <1>c, <1>f DEF Typed, TypedRates, PlaceOK, ReadOK, RateOK, InSweep, InTry, Bracket, Restoring, SweepPlaces, WaitPlaces, ScanPlaces
  <2> QED
    BY <2>1, <2>2, <2>3, <2>4, <2>5, <2>6, TypedIsTypeNext DEF IInv
<1>28. CASE NextValue
  <2> USE <1>28 DEF NextValue, At, Goto, End, device, engine, overlap, reads, sweep, told, locals, run, rates
  <2>1. Typed'
    <3>1. TypedEngine'
      BY <1>a, <1>b DEF Typed, TypedEngine, TypedPlace, PlaceOK, Bracket, Restoring, SweepPlaces, WaitPlaces, ScanPlaces
    <3>2. TypedFlags'
      BY <1>a DEF Typed, TypedFlags
    <3>3. TypedPlace'
      BY <1>a DEF Typed, TypedPlace, TypedRates, Places, Outcomes, Bracket, Restoring, SweepPlaces, WaitPlaces, ScanPlaces
    <3>4. TypedRates'
      BY <1>a, <1>b DEF Typed, TypedRates, PlaceOK, Bracket, Restoring, SweepPlaces, WaitPlaces, ScanPlaces
    <3> QED
      BY <3>1, <3>2, <3>3, <3>4 DEF Typed
  <2>2. PlaceOK'
    BY <1>a, <1>b, <1>c DEF Typed, TypedFlags, TypedPlace, TypedRates, PlaceOK, ReadOK, Bracket, Restoring, SweepPlaces, WaitPlaces, ScanPlaces, InTry
  <2>3. ReadOK'
    BY <1>a, <1>b, <1>c DEF Typed, TypedEngine, TypedFlags, PlaceOK, ReadOK
  <2>4. NewsOK'
    BY <1>a, <1>b, <1>c, <1>d DEF Typed, TypedEngine, TypedFlags, PlaceOK, ReadOK, NewsOK
  <2>5. OwedOK'
    BY <1>a, <1>b, <1>c, <1>e DEF Typed, TypedEngine, TypedFlags, PlaceOK, ReadOK, OwedOK, Bracket, Restoring, SweepPlaces, WaitPlaces, ScanPlaces
  <2>6. RateOK'
    BY <1>a, <1>b, <1>c, <1>f DEF Typed, TypedRates, PlaceOK, ReadOK, RateOK, InSweep, InTry, Bracket, Restoring, SweepPlaces, WaitPlaces, ScanPlaces
  <2> QED
    BY <2>1, <2>2, <2>3, <2>4, <2>5, <2>6, TypedIsTypeNext DEF IInv
<1>29. CASE \E v \in Values : Advance(v)
  <2>0. PICK v \in Values : Advance(v)
    BY <1>29
  <2> USE <2>0 DEF Advance, At, Goto, device, engine, overlap, reads, sweep, told, locals, run, rates
  <2>1. Typed'
    <3>1. TypedEngine'
      BY <1>a, <1>b DEF Typed, TypedEngine, TypedPlace, PlaceOK, Bracket, Restoring, SweepPlaces, WaitPlaces, ScanPlaces
    <3>2. TypedFlags'
      BY <1>a DEF Typed, TypedFlags
    <3>3. TypedPlace'
      BY <1>a DEF Typed, TypedPlace, TypedRates, Places, Outcomes, Bracket, Restoring, SweepPlaces, WaitPlaces, ScanPlaces
    <3>4. TypedRates'
      BY <1>a, <1>b DEF Typed, TypedRates, PlaceOK, Bracket, Restoring, SweepPlaces, WaitPlaces, ScanPlaces
    <3> QED
      BY <3>1, <3>2, <3>3, <3>4 DEF Typed
  <2>2. PlaceOK'
    BY <1>a, <1>b, <1>c DEF Typed, TypedFlags, TypedPlace, TypedRates, PlaceOK, ReadOK, Bracket, Restoring, SweepPlaces, WaitPlaces, ScanPlaces, InTry
  <2>3. ReadOK'
    BY <1>a, <1>b, <1>c DEF Typed, TypedEngine, TypedFlags, PlaceOK, ReadOK
  <2>4. NewsOK'
    BY <1>a, <1>b, <1>c, <1>d DEF Typed, TypedEngine, TypedFlags, PlaceOK, ReadOK, NewsOK
  <2>5. OwedOK'
    BY <1>a, <1>b, <1>c, <1>e DEF Typed, TypedEngine, TypedFlags, PlaceOK, ReadOK, OwedOK, Bracket, Restoring, SweepPlaces, WaitPlaces, ScanPlaces
  <2>6. RateOK'
    BY <1>a, <1>b, <1>c, <1>f DEF Typed, TypedRates, PlaceOK, ReadOK, RateOK, InSweep, InTry, Bracket, Restoring, SweepPlaces, WaitPlaces, ScanPlaces
  <2> QED
    BY <2>1, <2>2, <2>3, <2>4, <2>5, <2>6, TypedIsTypeNext DEF IInv
<1>30. CASE Sample
  <2> USE <1>30 DEF Sample, At, Goto, End, device, engine, overlap, reads, sweep, told, locals, run, rates
  <2>1. Typed'
    <3>1. TypedEngine'
      BY <1>a, <1>b DEF Typed, TypedEngine, TypedPlace, PlaceOK, Bracket, Restoring, SweepPlaces, WaitPlaces, ScanPlaces
    <3>2. TypedFlags'
      BY <1>a DEF Typed, TypedFlags
    <3>3. TypedPlace'
      BY <1>a DEF Typed, TypedPlace, TypedRates, Places, Outcomes, Bracket, Restoring, SweepPlaces, WaitPlaces, ScanPlaces
    <3>4. TypedRates'
      BY <1>a, <1>b DEF Typed, TypedRates, PlaceOK, Bracket, Restoring, SweepPlaces, WaitPlaces, ScanPlaces
    <3> QED
      BY <3>1, <3>2, <3>3, <3>4 DEF Typed
  <2>2. PlaceOK'
    BY <1>a, <1>b, <1>c DEF Typed, TypedFlags, TypedPlace, TypedRates, PlaceOK, ReadOK, Bracket, Restoring, SweepPlaces, WaitPlaces, ScanPlaces, InTry
  <2>3. ReadOK'
    BY <1>a, <1>b, <1>c DEF Typed, TypedEngine, TypedFlags, PlaceOK, ReadOK
  <2>4. NewsOK'
    BY <1>a, <1>b, <1>c, <1>d DEF Typed, TypedEngine, TypedFlags, PlaceOK, ReadOK, NewsOK
  <2>5. OwedOK'
    BY <1>a, <1>b, <1>c, <1>e DEF Typed, TypedEngine, TypedFlags, PlaceOK, ReadOK, OwedOK, Bracket, Restoring, SweepPlaces, WaitPlaces, ScanPlaces
  <2>6. RateOK'
    BY <1>a, <1>b, <1>c, <1>f DEF Typed, TypedRates, PlaceOK, ReadOK, RateOK, InSweep, InTry, Bracket, Restoring, SweepPlaces, WaitPlaces, ScanPlaces
  <2> QED
    BY <2>1, <2>2, <2>3, <2>4, <2>5, <2>6, TypedIsTypeNext DEF IInv
<1>31. CASE EndSweep
  <2> USE <1>31 DEF EndSweep, At, Goto, EndStep, Drop, AfterSweep, ForgetSaved, device, engine, overlap, reads, sweep, told, locals, run, rates
  <2>1. Typed'
    <3>1. TypedEngine'
      BY <1>a, <1>b DEF Typed, TypedEngine, TypedPlace, PlaceOK, Bracket, Restoring, SweepPlaces, WaitPlaces, ScanPlaces
    <3>2. TypedFlags'
      BY <1>a DEF Typed, TypedFlags
    <3>3. TypedPlace'
      BY <1>a DEF Typed, TypedPlace, TypedRates, Places, Outcomes, Bracket, Restoring, SweepPlaces, WaitPlaces, ScanPlaces
    <3>4. TypedRates'
      BY <1>a, <1>b DEF Typed, TypedRates, PlaceOK, Bracket, Restoring, SweepPlaces, WaitPlaces, ScanPlaces
    <3> QED
      BY <3>1, <3>2, <3>3, <3>4 DEF Typed
  <2>2. PlaceOK'
    BY <1>a, <1>b, <1>c DEF Typed, TypedFlags, TypedPlace, TypedRates, PlaceOK, ReadOK, Bracket, Restoring, SweepPlaces, WaitPlaces, ScanPlaces, InTry
  <2>3. ReadOK'
    BY <1>a, <1>b, <1>c DEF Typed, TypedEngine, TypedFlags, PlaceOK, ReadOK
  <2>4. NewsOK'
    BY <1>a, <1>b, <1>c, <1>d DEF Typed, TypedEngine, TypedFlags, PlaceOK, ReadOK, NewsOK
  <2>5. OwedOK'
    BY <1>a, <1>b, <1>c, <1>e DEF Typed, TypedEngine, TypedFlags, PlaceOK, ReadOK, OwedOK, Bracket, Restoring, SweepPlaces, WaitPlaces, ScanPlaces
  <2>6. RateOK'
    BY <1>a, <1>b, <1>c, <1>f DEF Typed, TypedRates, PlaceOK, ReadOK, RateOK, InSweep, InTry, Bracket, Restoring, SweepPlaces, WaitPlaces, ScanPlaces
  <2> QED
    BY <2>1, <2>2, <2>3, <2>4, <2>5, <2>6, TypedIsTypeNext DEF IInv
<1>32. CASE LowerRate
  <2> USE <1>32 DEF LowerRate, At, Goto, EndStep, Drop, AfterSweep, device, engine, overlap, reads, sweep, told, locals, run, rates
  <2>1. Typed'
    <3>1. TypedEngine'
      BY <1>a, <1>b DEF Typed, TypedEngine, TypedPlace, PlaceOK, Bracket, Restoring, SweepPlaces, WaitPlaces, ScanPlaces
    <3>2. TypedFlags'
      BY <1>a DEF Typed, TypedFlags
    <3>3. TypedPlace'
      BY <1>a DEF Typed, TypedPlace, TypedRates, Places, Outcomes, Bracket, Restoring, SweepPlaces, WaitPlaces, ScanPlaces
    <3>4. TypedRates'
      BY <1>a, <1>b DEF Typed, TypedRates, PlaceOK, Bracket, Restoring, SweepPlaces, WaitPlaces, ScanPlaces
    <3> QED
      BY <3>1, <3>2, <3>3, <3>4 DEF Typed
  <2>2. PlaceOK'
    BY <1>a, <1>b, <1>c DEF Typed, TypedFlags, TypedPlace, TypedRates, PlaceOK, ReadOK, Bracket, Restoring, SweepPlaces, WaitPlaces, ScanPlaces, InTry
  <2>3. ReadOK'
    BY <1>a, <1>b, <1>c DEF Typed, TypedEngine, TypedFlags, PlaceOK, ReadOK
  <2>4. NewsOK'
    BY <1>a, <1>b, <1>c, <1>d DEF Typed, TypedEngine, TypedFlags, PlaceOK, ReadOK, NewsOK
  <2>5. OwedOK'
    BY <1>a, <1>b, <1>c, <1>e DEF Typed, TypedEngine, TypedFlags, PlaceOK, ReadOK, OwedOK, Bracket, Restoring, SweepPlaces, WaitPlaces, ScanPlaces
  <2>6. RateOK'
    BY <1>a, <1>b, <1>c, <1>f DEF Typed, TypedRates, PlaceOK, ReadOK, RateOK, InSweep, InTry, Bracket, Restoring, SweepPlaces, WaitPlaces, ScanPlaces
  <2> QED
    BY <2>1, <2>2, <2>3, <2>4, <2>5, <2>6, TypedIsTypeNext DEF IInv
<1>33. CASE StartScript
  <2> USE <1>33 DEF StartScript, Goto, device, engine, overlap, reads, sweep, told, locals, run, rates
  <2>1. Typed'
    <3>1. TypedEngine'
      BY <1>a, <1>b DEF Typed, TypedEngine, TypedPlace, PlaceOK, Bracket, Restoring, SweepPlaces, WaitPlaces, ScanPlaces
    <3>2. TypedFlags'
      BY <1>a DEF Typed, TypedFlags
    <3>3. TypedPlace'
      BY <1>a DEF Typed, TypedPlace, TypedRates, Places, Outcomes, Bracket, Restoring, SweepPlaces, WaitPlaces, ScanPlaces
    <3>4. TypedRates'
      BY <1>a, <1>b DEF Typed, TypedRates, PlaceOK, Bracket, Restoring, SweepPlaces, WaitPlaces, ScanPlaces
    <3> QED
      BY <3>1, <3>2, <3>3, <3>4 DEF Typed
  <2>2. PlaceOK'
    BY <1>a, <1>b, <1>c DEF Typed, TypedFlags, TypedPlace, TypedRates, PlaceOK, ReadOK, Bracket, Restoring, SweepPlaces, WaitPlaces, ScanPlaces, InTry
  <2>3. ReadOK'
    BY <1>a, <1>b, <1>c DEF Typed, TypedEngine, TypedFlags, PlaceOK, ReadOK
  <2>4. NewsOK'
    BY <1>a, <1>b, <1>c, <1>d DEF Typed, TypedEngine, TypedFlags, PlaceOK, ReadOK, NewsOK
  <2>5. OwedOK'
    BY <1>a, <1>b, <1>c, <1>e DEF Typed, TypedEngine, TypedFlags, PlaceOK, ReadOK, OwedOK, Bracket, Restoring, SweepPlaces, WaitPlaces, ScanPlaces
  <2>6. RateOK'
    BY <1>a, <1>b, <1>c, <1>f DEF Typed, TypedRates, PlaceOK, ReadOK, RateOK, InSweep, InTry, Bracket, Restoring, SweepPlaces, WaitPlaces, ScanPlaces
  <2> QED
    BY <2>1, <2>2, <2>3, <2>4, <2>5, <2>6, TypedIsTypeNext DEF IInv
<1>34. CASE Leave
  <2> USE <1>34 DEF Leave, At, Goto, EndStep, Drop, device, engine, overlap, reads, sweep, told, locals, run, rates
  <2>1. Typed'
    <3>1. TypedEngine'
      BY <1>a, <1>b DEF Typed, TypedEngine, TypedPlace, PlaceOK, Bracket, Restoring, SweepPlaces, WaitPlaces, ScanPlaces
    <3>2. TypedFlags'
      BY <1>a DEF Typed, TypedFlags
    <3>3. TypedPlace'
      BY <1>a DEF Typed, TypedPlace, TypedRates, Places, Outcomes, Bracket, Restoring, SweepPlaces, WaitPlaces, ScanPlaces
    <3>4. TypedRates'
      BY <1>a, <1>b DEF Typed, TypedRates, PlaceOK, Bracket, Restoring, SweepPlaces, WaitPlaces, ScanPlaces
    <3> QED
      BY <3>1, <3>2, <3>3, <3>4 DEF Typed
  <2>2. PlaceOK'
    BY <1>a, <1>b, <1>c DEF Typed, TypedFlags, TypedPlace, TypedRates, PlaceOK, ReadOK, Bracket, Restoring, SweepPlaces, WaitPlaces, ScanPlaces, InTry
  <2>3. ReadOK'
    BY <1>a, <1>b, <1>c DEF Typed, TypedEngine, TypedFlags, PlaceOK, ReadOK
  <2>4. NewsOK'
    BY <1>a, <1>b, <1>c, <1>d DEF Typed, TypedEngine, TypedFlags, PlaceOK, ReadOK, NewsOK
  <2>5. OwedOK'
    BY <1>a, <1>b, <1>c, <1>e DEF Typed, TypedEngine, TypedFlags, PlaceOK, ReadOK, OwedOK, Bracket, Restoring, SweepPlaces, WaitPlaces, ScanPlaces
  <2>6. RateOK'
    BY <1>a, <1>b, <1>c, <1>f DEF Typed, TypedRates, PlaceOK, ReadOK, RateOK, InSweep, InTry, Bracket, Restoring, SweepPlaces, WaitPlaces, ScanPlaces
  <2> QED
    BY <2>1, <2>2, <2>3, <2>4, <2>5, <2>6, TypedIsTypeNext DEF IInv
<1>35. CASE \E v \in Values : ScanPoint(v)
  <2>0. PICK v \in Values : ScanPoint(v)
    BY <1>35
  <2> USE <2>0 DEF ScanPoint, At, Begin, Goto, device, engine, overlap, reads, sweep, told, locals, run, rates
  <2>1. Typed'
    <3>1. TypedEngine'
      BY <1>a, <1>b DEF Typed, TypedEngine, TypedPlace, PlaceOK, Bracket, Restoring, SweepPlaces, WaitPlaces, ScanPlaces
    <3>2. TypedFlags'
      BY <1>a DEF Typed, TypedFlags
    <3>3. TypedPlace'
      BY <1>a DEF Typed, TypedPlace, TypedRates, Places, Outcomes, Bracket, Restoring, SweepPlaces, WaitPlaces, ScanPlaces
    <3>4. TypedRates'
      BY <1>a, <1>b DEF Typed, TypedRates, PlaceOK, Bracket, Restoring, SweepPlaces, WaitPlaces, ScanPlaces
    <3> QED
      BY <3>1, <3>2, <3>3, <3>4 DEF Typed
  <2>2. PlaceOK'
    BY <1>a, <1>b, <1>c DEF Typed, TypedFlags, TypedPlace, TypedRates, PlaceOK, ReadOK, Bracket, Restoring, SweepPlaces, WaitPlaces, ScanPlaces, InTry
  <2>3. ReadOK'
    BY <1>a, <1>b, <1>c DEF Typed, TypedEngine, TypedFlags, PlaceOK, ReadOK
  <2>4. NewsOK'
    BY <1>a, <1>b, <1>c, <1>d DEF Typed, TypedEngine, TypedFlags, PlaceOK, ReadOK, NewsOK
  <2>5. OwedOK'
    BY <1>a, <1>b, <1>c, <1>e DEF Typed, TypedEngine, TypedFlags, PlaceOK, ReadOK, OwedOK, Bracket, Restoring, SweepPlaces, WaitPlaces, ScanPlaces
  <2>6. RateOK'
    BY <1>a, <1>b, <1>c, <1>f DEF Typed, TypedRates, PlaceOK, ReadOK, RateOK, InSweep, InTry, Bracket, Restoring, SweepPlaces, WaitPlaces, ScanPlaces
  <2> QED
    BY <2>1, <2>2, <2>3, <2>4, <2>5, <2>6, TypedIsTypeNext DEF IInv
<1>36. CASE \E v \in Values : SetCommand(v)
  <2>0. PICK v \in Values : SetCommand(v)
    BY <1>36
  <2> USE <2>0 DEF SetCommand, At, Begin, Goto, device, engine, overlap, reads, sweep, told, locals, run, rates
  <2>1. Typed'
    <3>1. TypedEngine'
      BY <1>a, <1>b DEF Typed, TypedEngine, TypedPlace, PlaceOK, Bracket, Restoring, SweepPlaces, WaitPlaces, ScanPlaces
    <3>2. TypedFlags'
      BY <1>a DEF Typed, TypedFlags
    <3>3. TypedPlace'
      BY <1>a DEF Typed, TypedPlace, TypedRates, Places, Outcomes, Bracket, Restoring, SweepPlaces, WaitPlaces, ScanPlaces
    <3>4. TypedRates'
      BY <1>a, <1>b DEF Typed, TypedRates, PlaceOK, Bracket, Restoring, SweepPlaces, WaitPlaces, ScanPlaces
    <3> QED
      BY <3>1, <3>2, <3>3, <3>4 DEF Typed
  <2>2. PlaceOK'
    BY <1>a, <1>b, <1>c DEF Typed, TypedFlags, TypedPlace, TypedRates, PlaceOK, ReadOK, Bracket, Restoring, SweepPlaces, WaitPlaces, ScanPlaces, InTry
  <2>3. ReadOK'
    BY <1>a, <1>b, <1>c DEF Typed, TypedEngine, TypedFlags, PlaceOK, ReadOK
  <2>4. NewsOK'
    BY <1>a, <1>b, <1>c, <1>d DEF Typed, TypedEngine, TypedFlags, PlaceOK, ReadOK, NewsOK
  <2>5. OwedOK'
    BY <1>a, <1>b, <1>c, <1>e DEF Typed, TypedEngine, TypedFlags, PlaceOK, ReadOK, OwedOK, Bracket, Restoring, SweepPlaces, WaitPlaces, ScanPlaces
  <2>6. RateOK'
    BY <1>a, <1>b, <1>c, <1>f DEF Typed, TypedRates, PlaceOK, ReadOK, RateOK, InSweep, InTry, Bracket, Restoring, SweepPlaces, WaitPlaces, ScanPlaces
  <2> QED
    BY <2>1, <2>2, <2>3, <2>4, <2>5, <2>6, TypedIsTypeNext DEF IInv
<1>37. CASE \E s \in Sweeps, v \in Values : BeginSweep(s, v)
  <2>0. PICK s \in Sweeps, v \in Values : BeginSweep(s, v)
    BY <1>37
  <2> USE <2>0 DEF BeginSweep, At, Begin, Goto, device, engine, overlap, reads, sweep, told, locals, run, rates
  <2>1. Typed'
    <3>1. TypedEngine'
      BY <1>a, <1>b DEF Typed, TypedEngine, TypedPlace, PlaceOK, Bracket, Restoring, SweepPlaces, WaitPlaces, ScanPlaces
    <3>2. TypedFlags'
      BY <1>a DEF Typed, TypedFlags
    <3>3. TypedPlace'
      BY <1>a DEF Typed, TypedPlace, TypedRates, Places, Outcomes, Bracket, Restoring, SweepPlaces, WaitPlaces, ScanPlaces
    <3>4. TypedRates'
      BY <1>a, <1>b DEF Typed, TypedRates, PlaceOK, Bracket, Restoring, SweepPlaces, WaitPlaces, ScanPlaces
    <3> QED
      BY <3>1, <3>2, <3>3, <3>4 DEF Typed
  <2>2. PlaceOK'
    BY <1>a, <1>b, <1>c DEF Typed, TypedFlags, TypedPlace, TypedRates, PlaceOK, ReadOK, Bracket, Restoring, SweepPlaces, WaitPlaces, ScanPlaces, InTry
  <2>3. ReadOK'
    BY <1>a, <1>b, <1>c DEF Typed, TypedEngine, TypedFlags, PlaceOK, ReadOK
  <2>4. NewsOK'
    BY <1>a, <1>b, <1>c, <1>d DEF Typed, TypedEngine, TypedFlags, PlaceOK, ReadOK, NewsOK
  <2>5. OwedOK'
    BY <1>a, <1>b, <1>c, <1>e DEF Typed, TypedEngine, TypedFlags, PlaceOK, ReadOK, OwedOK, Bracket, Restoring, SweepPlaces, WaitPlaces, ScanPlaces
  <2>6. RateOK'
    BY <1>a, <1>b, <1>c, <1>f DEF Typed, TypedRates, PlaceOK, ReadOK, RateOK, InSweep, InTry, Bracket, Restoring, SweepPlaces, WaitPlaces, ScanPlaces
  <2> QED
    BY <2>1, <2>2, <2>3, <2>4, <2>5, <2>6, TypedIsTypeNext DEF IInv
<1>38. CASE UNCHANGED vars
  <2> USE <1>38 DEF vars, device, engine, overlap, reads, sweep, told, locals, run, rates
  <2>1. Typed'
    BY <1>a DEF Typed, TypedEngine, TypedFlags, TypedPlace, TypedRates
  <2>2. PlaceOK'
    BY <1>b DEF PlaceOK
  <2>3. ReadOK'
    BY <1>c DEF ReadOK
  <2>4. NewsOK'
    BY <1>d DEF NewsOK
  <2>5. OwedOK'
    BY <1>e DEF OwedOK
  <2>6. RateOK'
    BY <1>f DEF RateOK, InSweep, InTry
  <2> QED
    BY <2>1, <2>2, <2>3, <2>4, <2>5, <2>6, TypedIsTypeNext DEF IInv
<1> QED
  BY <1>1, <1>2, <1>3, <1>4, <1>5, <1>6, <1>7, <1>8, <1>9, <1>10, <1>11, <1>12, <1>13, <1>14, <1>15, <1>16, <1>17, <1>18, <1>19, <1>20, <1>21, <1>22, <1>23, <1>24, <1>25, <1>26, <1>27, <1>28, <1>29, <1>30, <1>31, <1>32, <1>33, <1>34, <1>35, <1>36, <1>37, <1>38, NextActions

\* The variables keep their types.
THEOREM TypeCorrect == Spec => []TypeOK
<1>1. IInv => TypeOK
  BY DEF IInv
<1> QED
  BY <1>1, InitInvariant, StepInvariant, PTL DEF Spec

\* A scan or a command that goes to sleep in ControllerUpdates.wait has heeded what was
\* published before.
THEOREM NewsSafe == Spec => []NewsHeeded
<1>1. IInv => NewsHeeded
  <2> SUFFICES ASSUME IInv, place = "waiting", ~news, lock = None PROVE ~latest
    BY DEF NewsHeeded
  <2>1. kind # "sweep"
    BY DEF IInv, PlaceOK, WaitPlaces
  <2> QED
    BY <2>1, StepsAssumption DEF IInv, NewsOK, Threads
<1> QED
  BY <1>1, InitInvariant, StepInvariant, PTL DEF Spec

\* ramp_to, the set command and the generator of a sweep end a wait as reached only if the
\* device has been at the target since they commanded it, whatever failed before and after
\* the set point of the step, which was not refused.
THEOREM ReachedSafe == Spec => []ReachedSinceAsked
<1>1. IInv => ReachedSinceAsked
  BY DEF IInv, OwedOK, ReachedSinceAsked
<1> QED
  BY <1>1, InitInvariant, StepInvariant, PTL DEF Spec

\* _begin_sweep and _end_sweep leave the polling rate as the panel wants it.
THEOREM RateSafe == Spec => []RateKept
<1>1. IInv => RateKept
  BY DEF IInv, RateOK, RateKept
<1> QED
  BY <1>1, InitInvariant, StepInvariant, PTL DEF Spec
=============================================================================
