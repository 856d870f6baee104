------------------------- MODULE MagnetEngineProofs -------------------------
(***************************************************************************)
(* Proofs about MagnetEngine, for any set of fields.                       *)
(***************************************************************************)
EXTENDS MagnetEngine, TLAPS

\* Every step is one of these operations.
LEMMA NextActions ==
    ASSUME Next
    PROVE
           \/ Move
           \/ HeaterSettles
           \/ Quench
           \/ Recover
           \/ Poll
           \/ \E t \in Threads : Conclude(t)
           \/ \E t \in Threads : ReadFails(t)
           \/ \E t \in Threads : RampToTarget(t)
           \/ \E t \in Threads : RampToField(t)
           \/ \E t \in Threads : GoToZero(t)
           \/ \E t \in Threads : HeaterOn(t)
           \/ \E t \in Fields : Begin(t)
           \/ \E t \in Fields : SetTarget(t)
           \/ \E n \in Checked, f \in Fields : Order(n, f)
           \/ Hold
           \/ HeaterOff
           \/ Replace
           \/ Disconnect
           \/ Shutdown
           \/ SetStabilityConfig
           \/ Leave
           \/ Ensure
           \/ Probe
           \/ Ramp
           \/ WithoutDriver
           \/ Refresh
           \/ Found
           \/ Renew
BY DEF Next, Finish, RampTo

\* TypeOK, for the flags that are Boolean ...
Flagged ==
    /\ quench \in BOOLEAN /\ driver \in BOOLEAN /\ stopped \in BOOLEAN
    /\ zero \in BOOLEAN /\ adrift \in BOOLEAN
    /\ reached \in BOOLEAN /\ refused \in BOOLEAN /\ disturbed \in BOOLEAN

\* ... and for the others.
Valued ==
    /\ supply \in Fields \cup {Between} /\ goal \in Fields
    /\ ramp \in {"hold", "goal", "zero"}
    /\ heater \in Settled \cup {"warming", "cooling"}
    /\ trapped \in Fields \cup {Between, None}
    /\ lock \in Threads \cup {None}
    /\ held \in [by : Threads \cup {None}, place : Places, field : Fields \cup {Between},
                 quench : BOOLEAN, rest : BOOLEAN]
    /\ target \in Fields \cup {None}
    /\ at \in Fields \cup {None} /\ since \in Fields \cup {None} /\ stable \in Fields \cup {None}
    /\ reading \in {"clear", "quench"}
    /\ stage \in Stages /\ asked \in Fields

\* A read keeps the types of what it changes.
LEMMA ReadTyped ==
    ASSUME TypeOK, SectionOK, NEW t \in Threads, Read(t)
    PROVE  /\ target' \in Fields \cup {None}
           /\ at' \in Fields \cup {None} /\ since' \in Fields \cup {None} /\ stable' \in Fields \cup {None}
           /\ lock' \in Threads \cup {None}
           /\ held' \in [by : Threads \cup {None}, place : Places, field : Fields \cup {Between},
                         quench : BOOLEAN, rest : BOOLEAN]
           /\ UNCHANGED <<device, reading>>
<1> USE MagnetAssumption DEF device, section, session, aim, flags
<1>1. CASE Unread(t)
  BY <1>1 DEF Unread, MarkTargetPending, TypeOK
<1>2. CASE Measure(t)
  <2>1. target' \in Fields \cup {None}
    BY <1>2 DEF Measure, Targets, TypeOK
  <2>2. since' \in Fields \cup {None}
    <3>1. since' \in {None, target', since}
      BY <1>2 DEF Measure
    <3> QED
      BY <3>1, <2>1 DEF TypeOK
  <2>3. held' \in [by : Threads \cup {None}, place : Places, field : Fields \cup {Between},
                   quench : BOOLEAN, rest : BOOLEAN]
    BY <1>2 DEF Measure, TypeOK, Places
  <2> QED
    BY <1>2, <2>1, <2>2, <2>3 DEF Measure, TypeOK
<1> QED
  BY <1>1, <1>2 DEF Read

\* A read keeps the flags about the target in force, or sets adrift.
LEMMA ReadAimed ==
    ASSUME TypeOK, FlagsAimed, NEW t \in Threads, Read(t)
    PROVE  FlagsAimed'
<1> USE MagnetAssumption DEF device, section, session, aim, flags
<1>1. CASE Unread(t)
  BY <1>1 DEF Unread, MarkTargetPending, FlagsAimed, Aim
<1>2. CASE Measure(t)
  <2>1. UNCHANGED <<goal, zero, at, stable, driver>> /\ adrift' = (adrift \/ target' # Aim)
    BY <1>2 DEF Measure
  <2>2. since' \in {None, target', since}
    BY <1>2 DEF Measure
  <2> QED
    BY <2>1, <2>2 DEF FlagsAimed, Aim
<1> QED
  BY <1>1, <1>2 DEF Read

\* The invariant holds at the start.
LEMMA InitInvariant == Init => IInv
<1> SUFFICES ASSUME Init PROVE IInv
  OBVIOUS
<1> USE MagnetAssumption
<1>1. TypeOK
  BY DEF Init, TypeOK, Settled, Stages, Places, Checked, Empty, Threads
<1>2. SectionOK
  BY DEF Init, SectionOK, Empty, Checked
<1>3. ScanOK
  BY DEF Init, ScanOK, Empty, Ramped, Within, Threads
<1> QED
  BY <1>1, <1>2, <1>3 DEF IInv

\* Every operation keeps it.
LEMMA StepInvariant == IInv /\ [Next]_vars => IInv'
<1> SUFFICES ASSUME IInv, [Next]_vars PROVE IInv'
  OBVIOUS
<1> USE MagnetAssumption DEF Threads
<1>a. TypeOK
  BY DEF IInv
<1>b. SectionOK
  BY DEF IInv
<1>c. ScanOK
  BY DEF IInv
<1>1. CASE Move
  <2> USE <1>1 DEF Move, device, section, session, aim, flags, call, scan
  <2>1. TypeOK'
    <3>1. Flagged'
      BY <1>a DEF TypeOK, Flagged
    <3>2. Valued'
      BY <1>a, <1>b DEF TypeOK, Valued, SectionOK, Settled, Bound, AtRest, Stages, Places, Checked, Within, Outside
    <3> QED
      BY <3>1, <3>2 DEF TypeOK, Flagged, Valued
  <2>2. SectionOK'
    BY <1>a, <1>b, <1>c DEF TypeOK, SectionOK, ScanOK, Settled, Bound, AtRest, Places, Checked, Within, Outside, Aim, Allowed
  <2>3. ScanOK'
    BY <1>a, <1>b, <1>c DEF TypeOK, SectionOK, ScanOK, Ramped, Settled, Bound, AtRest, Places, Checked, Within, Outside, Aim, Allowed
  <2> QED
    BY <2>1, <2>2, <2>3 DEF IInv
<1>2. CASE HeaterSettles
  <2> USE <1>2 DEF HeaterSettles, device, section, session, aim, flags, call, scan
  <2>1. TypeOK'
    <3>1. Flagged'
      BY <1>a DEF TypeOK, Flagged
    <3>2. Valued'
      BY <1>a, <1>b DEF TypeOK, Valued, SectionOK, Settled, Bound, AtRest, Stages, Places, Checked, Within, Outside
    <3> QED
      BY <3>1, <3>2 DEF TypeOK, Flagged, Valued
  <2>2. SectionOK'
    BY <1>a, <1>b, <1>c DEF TypeOK, SectionOK, ScanOK, Settled, Bound, AtRest, Places, Checked, Within, Outside, Aim, Allowed
  <2>3. ScanOK'
    BY <1>a, <1>b, <1>c DEF TypeOK, SectionOK, ScanOK, Ramped, Settled, Bound, AtRest, Places, Checked, Within, Outside, Aim, Allowed
  <2> QED
    BY <2>1, <2>2, <2>3 DEF IInv
<1>3. CASE Quench
  <2> USE <1>3 DEF Quench, Disturb, Disturbed, Asked, device, section, session, aim, flags, call, scan
  <2>1. TypeOK'
    <3>1. Flagged'
      BY <1>a DEF TypeOK, Flagged
    <3>2. Valued'
      BY <1>a, <1>b DEF TypeOK, Valued, SectionOK, Settled, Bound, AtRest, Stages, Places, Checked, Within, Outside
    <3> QED
      BY <3>1, <3>2 DEF TypeOK, Flagged, Valued
  <2>2. SectionOK'
    BY <1>a, <1>b, <1>c DEF TypeOK, SectionOK, ScanOK, Settled, Bound, AtRest, Places, Checked, Within, Outside, Aim, Allowed
  <2>3. ScanOK'
    BY <1>a, <1>b, <1>c DEF TypeOK, SectionOK, ScanOK, Ramped, Settled, Bound, AtRest, Places, Checked, Within, Outside, Aim, Allowed
  <2> QED
    BY <2>1, <2>2, <2>3 DEF IInv
<1>4. CASE Recover
  <2> USE <1>4 DEF Recover, device, section, session, aim, flags, call, scan
  <2>1. TypeOK'
    <3>1. Flagged'
      BY <1>a DEF TypeOK, Flagged
    <3>2. Valued'
      BY <1>a, <1>b DEF TypeOK, Valued, SectionOK, Settled, Bound, AtRest, Stages, Places, Checked, Within, Outside
    <3> QED
      BY <3>1, <3>2 DEF TypeOK, Flagged, Valued
  <2>2. SectionOK'
    BY <1>a, <1>b, <1>c DEF TypeOK, SectionOK, ScanOK, Settled, Bound, AtRest, Places, Checked, Within, Outside, Aim, Allowed
  <2>3. ScanOK'
    BY <1>a, <1>b, <1>c DEF TypeOK, SectionOK, ScanOK, Ramped, Settled, Bound, AtRest, Places, Checked, Within, Outside, Aim, Allowed
  <2> QED
    BY <2>1, <2>2, <2>3 DEF IInv
<1>5. CASE Poll
  <2> USE <1>5 DEF Poll, Read, Measure, Unread, Targets, MarkTargetPending, Aim, device, section, session, aim, flags, call, scan
  <2>1. TypeOK'
    <3>1. Flagged'
      BY <1>a DEF TypeOK, Flagged
    <3>2. Valued'
      <4>1. Read(Poller)
        OBVIOUS
      <4> QED
        BY <1>a, <1>b, <4>1, ReadTyped DEF TypeOK, Valued, Stages
    <3> QED
      BY <3>1, <3>2 DEF TypeOK, Flagged, Valued
  <2>2. SectionOK'
    BY <1>a, <1>b, <1>c DEF TypeOK, SectionOK, ScanOK, Settled, Bound, AtRest, Places, Checked, Within, Outside, Aim, Allowed
  <2>3. ScanOK'
    BY <1>a, <1>b, <1>c DEF TypeOK, SectionOK, ScanOK, Ramped, Settled, Bound, AtRest, Places, Checked, Within, Outside, Aim, Allowed
  <2> QED
    BY <2>1, <2>2, <2>3 DEF IInv
<1>7. CASE \E t \in Threads : Conclude(t)
  <2>0. PICK t \in Threads : Conclude(t)
    BY <1>7
  <2> USE <2>0 DEF Conclude, Arrived, Release, Empty, device, section, session, aim, flags, call, scan
  <2>1. TypeOK'
    <3>1. Flagged'
      BY <1>a DEF TypeOK, Flagged
    <3>2. Valued'
      BY <1>a, <1>b DEF TypeOK, Valued, SectionOK, Settled, Bound, AtRest, Stages, Places, Checked, Within, Outside
    <3> QED
      BY <3>1, <3>2 DEF TypeOK, Flagged, Valued
  <2>2. SectionOK'
    BY <1>a, <1>b, <1>c DEF TypeOK, SectionOK, ScanOK, Settled, Bound, AtRest, Places, Checked, Within, Outside, Aim, Allowed
  <2>3. ScanOK'
    BY <1>a, <1>b, <1>c DEF TypeOK, SectionOK, ScanOK, Ramped, Settled, Bound, AtRest, Places, Checked, Within, Outside, Aim, Allowed
  <2> QED
    BY <2>1, <2>2, <2>3 DEF IInv
<1>8. CASE \E t \in Threads : ReadFails(t)
  <2>0. PICK t \in Threads : ReadFails(t)
    BY <1>8
  <2> USE <2>0 DEF ReadFails, Release, Empty, MarkTargetPending, device, section, session, aim, flags, call, scan
  <2>1. TypeOK'
    <3>1. Flagged'
      BY <1>a DEF TypeOK, Flagged
    <3>2. Valued'
      BY <1>a, <1>b DEF TypeOK, Valued, SectionOK, Settled, Bound, AtRest, Stages, Places, Checked, Within, Outside
    <3> QED
      BY <3>1, <3>2 DEF TypeOK, Flagged, Valued
  <2>2. SectionOK'
    BY <1>a, <1>b, <1>c DEF TypeOK, SectionOK, ScanOK, Settled, Bound, AtRest, Places, Checked, Within, Outside, Aim, Allowed
  <2>3. ScanOK'
    BY <1>a, <1>b, <1>c DEF TypeOK, SectionOK, ScanOK, Ramped, Settled, Bound, AtRest, Places, Checked, Within, Outside, Aim, Allowed
  <2> QED
    BY <2>1, <2>2, <2>3 DEF IInv
<1>9. CASE \E t \in Threads : RampToTarget(t)
  <2>0. PICK t \in Threads : RampToTarget(t)
    BY <1>9
  <2> USE <2>0 DEF RampToTarget, Release, Empty, MarkTargetPending, Disturb, Disturbed, Asked, Ends, device, section, session, aim, flags, call, scan
  <2>1. TypeOK'
    <3>1. Flagged'
      BY <1>a DEF TypeOK, Flagged
    <3>2. Valued'
      BY <1>a, <1>b DEF TypeOK, Valued, SectionOK, Settled, Bound, AtRest, Stages, Places, Checked, Within, Outside
    <3> QED
      BY <3>1, <3>2 DEF TypeOK, Flagged, Valued
  <2>2. SectionOK'
    BY <1>a, <1>b, <1>c DEF TypeOK, SectionOK, ScanOK, Settled, Bound, AtRest, Places, Checked, Within, Outside, Aim, Allowed
  <2>3. ScanOK'
    BY <1>a, <1>b, <1>c DEF TypeOK, SectionOK, ScanOK, Ramped, Settled, Bound, AtRest, Places, Checked, Within, Outside, Aim, Allowed
  <2> QED
    BY <2>1, <2>2, <2>3 DEF IInv
<1>10. CASE \E t \in Threads : RampToField(t)
  <2>0. PICK t \in Threads : RampToField(t)
    BY <1>10
  <2> USE <2>0 DEF RampToField, Release, Empty, MarkTargetPending, Retarget, Disturbed, Asked, Stray, Ends, device, section, session, aim, flags, call, scan
  <2>1. TypeOK'
    <3>1. Flagged'
      BY <1>a DEF TypeOK, Flagged
    <3>2. Valued'
      BY <1>a, <1>b DEF TypeOK, Valued, SectionOK, Settled, Bound, AtRest, Stages, Places, Checked, Within, Outside
    <3> QED
      BY <3>1, <3>2 DEF TypeOK, Flagged, Valued
  <2>2. SectionOK'
    BY <1>a, <1>b, <1>c DEF TypeOK, SectionOK, ScanOK, Settled, Bound, AtRest, Places, Checked, Within, Outside, Aim, Allowed
  <2>3. ScanOK'
    BY <1>a, <1>b, <1>c DEF TypeOK, SectionOK, ScanOK, Ramped, Settled, Bound, AtRest, Places, Checked, Within, Outside, Aim, Allowed
  <2> QED
    BY <2>1, <2>2, <2>3 DEF IInv
<1>11. CASE \E t \in Threads : GoToZero(t)
  <2>0. PICK t \in Threads : GoToZero(t)
    BY <1>11
  <2> USE <2>0 DEF GoToZero, Release, Empty, MarkTargetPending, Disturb, Disturbed, Asked, Ends, device, section, session, aim, flags, call, scan
  <2>1. TypeOK'
    <3>1. Flagged'
      BY <1>a DEF TypeOK, Flagged
    <3>2. Valued'
      BY <1>a, <1>b DEF TypeOK, Valued, SectionOK, Settled, Bound, AtRest, Stages, Places, Checked, Within, Outside
    <3> QED
      BY <3>1, <3>2 DEF TypeOK, Flagged, Valued
  <2>2. SectionOK'
    BY <1>a, <1>b, <1>c DEF TypeOK, SectionOK, ScanOK, Settled, Bound, AtRest, Places, Checked, Within, Outside, Aim, Allowed
  <2>3. ScanOK'
    BY <1>a, <1>b, <1>c DEF TypeOK, SectionOK, ScanOK, Ramped, Settled, Bound, AtRest, Places, Checked, Within, Outside, Aim, Allowed
  <2> QED
    BY <2>1, <2>2, <2>3 DEF IInv
<1>12. CASE \E t \in Threads : HeaterOn(t)
  <2>0. PICK t \in Threads : HeaterOn(t)
    BY <1>12
  <2> USE <2>0 DEF HeaterOn, Release, Empty, Disturb, Disturbed, Asked, Ends, device, section, session, aim, flags, call, scan
  <2>1. TypeOK'
    <3>1. Flagged'
      BY <1>a DEF TypeOK, Flagged
    <3>2. Valued'
      BY <1>a, <1>b DEF TypeOK, Valued, SectionOK, Settled, Bound, AtRest, Stages, Places, Checked, Within, Outside
    <3> QED
      BY <3>1, <3>2 DEF TypeOK, Flagged, Valued
  <2>2. SectionOK'
    BY <1>a, <1>b, <1>c DEF TypeOK, SectionOK, ScanOK, Settled, Bound, AtRest, Places, Checked, Within, Outside, Aim, Allowed
  <2>3. ScanOK'
    BY <1>a, <1>b, <1>c DEF TypeOK, SectionOK, ScanOK, Ramped, Settled, Bound, AtRest, Places, Checked, Within, Outside, Aim, Allowed
  <2> QED
    BY <2>1, <2>2, <2>3 DEF IInv
<1>13. CASE \E t \in Fields : Begin(t)
  <2>0. PICK t \in Fields : Begin(t)
    BY <1>13
  <2> USE <2>0 DEF Begin, Stage, engine, device, section, session, aim, flags, call, scan
  <2>1. TypeOK'
    <3>1. Flagged'
      BY <1>a DEF TypeOK, Flagged
    <3>2. Valued'
      BY <1>a, <1>b DEF TypeOK, Valued, SectionOK, Settled, Bound, AtRest, Stages, Places, Checked, Within, Outside
    <3> QED
      BY <3>1, <3>2 DEF TypeOK, Flagged, Valued
  <2>2. SectionOK'
    BY <1>a, <1>b, <1>c DEF TypeOK, SectionOK, ScanOK, Settled, Bound, AtRest, Places, Checked, Within, Outside, Aim, Allowed
  <2>3. ScanOK'
    BY <1>a, <1>b, <1>c DEF TypeOK, SectionOK, ScanOK, Ramped, Settled, Bound, AtRest, Places, Checked, Within, Outside, Aim, Allowed
  <2> QED
    BY <2>1, <2>2, <2>3 DEF IInv
<1>14. CASE \E t \in Fields : SetTarget(t)
  <2>0. PICK t \in Fields : SetTarget(t)
    BY <1>14
  <2> USE <2>0 DEF SetTarget, MarkTargetPending, Stray, Aim, Disturb, Disturbed, Asked, Ends, device, section, session, aim, flags, call, scan
  <2>1. TypeOK'
    <3>1. Flagged'
      BY <1>a DEF TypeOK, Flagged
    <3>2. Valued'
      BY <1>a, <1>b DEF TypeOK, Valued, SectionOK, Settled, Bound, AtRest, Stages, Places, Checked, Within, Outside
    <3> QED
      BY <3>1, <3>2 DEF TypeOK, Flagged, Valued
  <2>2. SectionOK'
    BY <1>a, <1>b, <1>c DEF TypeOK, SectionOK, ScanOK, Settled, Bound, AtRest, Places, Checked, Within, Outside, Aim, Allowed
  <2>3. ScanOK'
    BY <1>a, <1>b, <1>c DEF TypeOK, SectionOK, ScanOK, Ramped, Settled, Bound, AtRest, Places, Checked, Within, Outside, Aim, Allowed
  <2> QED
    BY <2>1, <2>2, <2>3 DEF IInv
<1>15. CASE \E n \in Checked, f \in Fields : Order(n, f)
  <2>0. PICK n \in Checked, f \in Fields : Order(n, f)
    BY <1>15
  <2> USE <2>0 DEF Order, Check, Commanding, device, section, session, aim, flags, call, scan
  <2>a. CASE Allowed(n)
    <3>0. held' = [by |-> Gui, place |-> n, field |-> f, quench |-> FALSE,
                   rest |-> AtRest /\ n = "heater_on"] /\ lock' = Gui
      BY <2>a
    <3>r. (AtRest /\ n = "heater_on") \in BOOLEAN
      OBVIOUS
    <3>1. Flagged'
      BY <1>a DEF TypeOK, Flagged
    <3>2. Valued'
      <4> HIDE DEF AtRest
      <4> QED
        BY <1>a, <1>b, <3>0, <3>r DEF TypeOK, Valued, SectionOK, Settled, Stages, Places, Checked, Within, Outside
    <3>3. SectionOK'
      BY <1>a, <1>b, <1>c, <2>a, <3>0 DEF TypeOK, SectionOK, Bound, AtRest, Allowed, Checked, Outside, Aim
    <3>4. ScanOK'
      BY <1>a, <1>b, <1>c, <2>a, <3>0 DEF TypeOK, SectionOK, ScanOK, Ramped, Checked, Within, Outside, Aim
    <3> QED
      BY <3>1, <3>2, <3>3, <3>4 DEF IInv, TypeOK, Flagged, Valued
  <2>b. CASE ~Allowed(n)
    <3>0. UNCHANGED <<lock, held>>
      BY <2>b
    <3>1. Flagged'
      BY <1>a DEF TypeOK, Flagged
    <3>2. Valued'
      BY <1>a, <3>0 DEF TypeOK, Valued, Stages
    <3>3. SectionOK'
      BY <1>b, <3>0 DEF SectionOK, Bound, AtRest, Aim
    <3>4. ScanOK'
      BY <1>a, <1>b, <1>c, <3>0, <2>b DEF TypeOK, SectionOK, ScanOK, Ramped, Checked, Within, Outside, Aim, Stage
    <3> QED
      BY <3>1, <3>2, <3>3, <3>4 DEF IInv, TypeOK, Flagged, Valued
  <2> QED
    BY <2>a, <2>b
<1>16. CASE Hold
  <2> USE <1>16 DEF Hold, Commanding, Disturb, Disturbed, Asked, device, section, session, aim, flags, call, scan
  <2>1. TypeOK'
    <3>1. Flagged'
      BY <1>a DEF TypeOK, Flagged
    <3>2. Valued'
      BY <1>a, <1>b DEF TypeOK, Valued, SectionOK, Settled, Bound, AtRest, Stages, Places, Checked, Within, Outside
    <3> QED
      BY <3>1, <3>2 DEF TypeOK, Flagged, Valued
  <2>2. SectionOK'
    BY <1>a, <1>b, <1>c DEF TypeOK, SectionOK, ScanOK, Settled, Bound, AtRest, Places, Checked, Within, Outside, Aim, Allowed
  <2>3. ScanOK'
    BY <1>a, <1>b, <1>c DEF TypeOK, SectionOK, ScanOK, Ramped, Settled, Bound, AtRest, Places, Checked, Within, Outside, Aim, Allowed
  <2> QED
    BY <2>1, <2>2, <2>3 DEF IInv
<1>17. CASE HeaterOff
  <2> USE <1>17 DEF HeaterOff, Commanding, Disturb, Disturbed, Asked, device, section, session, aim, flags, call, scan
  <2>1. TypeOK'
    <3>1. Flagged'
      BY <1>a DEF TypeOK, Flagged
    <3>2. Valued'
      BY <1>a, <1>b DEF TypeOK, Valued, SectionOK, Settled, Bound, AtRest, Stages, Places, Checked, Within, Outside
    <3> QED
      BY <3>1, <3>2 DEF TypeOK, Flagged, Valued
  <2>2. SectionOK'
    BY <1>a, <1>b, <1>c DEF TypeOK, SectionOK, ScanOK, Settled, Bound, AtRest, Places, Checked, Within, Outside, Aim, Allowed
  <2>3. ScanOK'
    BY <1>a, <1>b, <1>c DEF TypeOK, SectionOK, ScanOK, Ramped, Settled, Bound, AtRest, Places, Checked, Within, Outside, Aim, Allowed
  <2> QED
    BY <2>1, <2>2, <2>3 DEF IInv
<1>18. CASE Replace
  <2> USE <1>18 DEF Replace, Connect, Disturb, Disturbed, Asked, MarkTargetPending, device, section, session, aim, flags, call, scan
  <2>1. TypeOK'
    <3>1. Flagged'
      BY <1>a DEF TypeOK, Flagged
    <3>2. Valued'
      BY <1>a, <1>b DEF TypeOK, Valued, SectionOK, Settled, Bound, AtRest, Stages, Places, Checked, Within, Outside
    <3> QED
      BY <3>1, <3>2 DEF TypeOK, Flagged, Valued
  <2>2. SectionOK'
    BY <1>a, <1>b, <1>c DEF TypeOK, SectionOK, ScanOK, Settled, Bound, AtRest, Places, Checked, Within, Outside, Aim, Allowed
  <2>3. ScanOK'
    BY <1>a, <1>b, <1>c DEF TypeOK, SectionOK, ScanOK, Ramped, Settled, Bound, AtRest, Places, Checked, Within, Outside, Aim, Allowed
  <2> QED
    BY <2>1, <2>2, <2>3 DEF IInv
<1>19. CASE Disconnect
  <2> USE <1>19 DEF Disconnect, Disturb, Disturbed, Asked, MarkTargetPending, device, section, session, aim, flags, call, scan
  <2>1. TypeOK'
    <3>1. Flagged'
      BY <1>a DEF TypeOK, Flagged
    <3>2. Valued'
      BY <1>a, <1>b DEF TypeOK, Valued, SectionOK, Settled, Bound, AtRest, Stages, Places, Checked, Within, Outside
    <3> QED
      BY <3>1, <3>2 DEF TypeOK, Flagged, Valued
  <2>2. SectionOK'
    BY <1>a, <1>b, <1>c DEF TypeOK, SectionOK, ScanOK, Settled, Bound, AtRest, Places, Checked, Within, Outside, Aim, Allowed
  <2>3. ScanOK'
    BY <1>a, <1>b, <1>c DEF TypeOK, SectionOK, ScanOK, Ramped, Settled, Bound, AtRest, Places, Checked, Within, Outside, Aim, Allowed
  <2> QED
    BY <2>1, <2>2, <2>3 DEF IInv
<1>20. CASE Shutdown
  <2> USE <1>20 DEF Shutdown, Disturb, Disturbed, Asked, device, section, session, aim, flags, call, scan
  <2>1. TypeOK'
    <3>1. Flagged'
      BY <1>a DEF TypeOK, Flagged
    <3>2. Valued'
      BY <1>a, <1>b DEF TypeOK, Valued, SectionOK, Settled, Bound, AtRest, Stages, Places, Checked, Within, Outside
    <3> QED
      BY <3>1, <3>2 DEF TypeOK, Flagged, Valued
  <2>2. SectionOK'
    BY <1>a, <1>b, <1>c DEF TypeOK, SectionOK, ScanOK, Settled, Bound, AtRest, Places, Checked, Within, Outside, Aim, Allowed
  <2>3. ScanOK'
    BY <1>a, <1>b, <1>c DEF TypeOK, SectionOK, ScanOK, Ramped, Settled, Bound, AtRest, Places, Checked, Within, Outside, Aim, Allowed
  <2> QED
    BY <2>1, <2>2, <2>3 DEF IInv
<1>21. CASE SetStabilityConfig
  <2> USE <1>21 DEF SetStabilityConfig, device, section, session, aim, flags, call, scan
  <2>1. TypeOK'
    <3>1. Flagged'
      BY <1>a DEF TypeOK, Flagged
    <3>2. Valued'
      BY <1>a, <1>b DEF TypeOK, Valued, SectionOK, Settled, Bound, AtRest, Stages, Places, Checked, Within, Outside
    <3> QED
      BY <3>1, <3>2 DEF TypeOK, Flagged, Valued
  <2>2. SectionOK'
    BY <1>a, <1>b, <1>c DEF TypeOK, SectionOK, ScanOK, Settled, Bound, AtRest, Places, Checked, Within, Outside, Aim, Allowed
  <2>3. ScanOK'
    BY <1>a, <1>b, <1>c DEF TypeOK, SectionOK, ScanOK, Ramped, Settled, Bound, AtRest, Places, Checked, Within, Outside, Aim, Allowed
  <2> QED
    BY <2>1, <2>2, <2>3 DEF IInv
<1>22. CASE Leave
  <2> USE <1>22 DEF Leave, Stage, Return, engine, device, section, session, aim, flags, call, scan
  <2>1. TypeOK'
    <3>1. Flagged'
      BY <1>a DEF TypeOK, Flagged
    <3>2. Valued'
      BY <1>a, <1>b DEF TypeOK, Valued, SectionOK, Settled, Bound, AtRest, Stages, Places, Checked, Within, Outside
    <3> QED
      BY <3>1, <3>2 DEF TypeOK, Flagged, Valued
  <2>2. SectionOK'
    BY <1>a, <1>b, <1>c DEF TypeOK, SectionOK, ScanOK, Settled, Bound, AtRest, Places, Checked, Within, Outside, Aim, Allowed
  <2>3. ScanOK'
    BY <1>a, <1>b, <1>c DEF TypeOK, SectionOK, ScanOK, Ramped, Settled, Bound, AtRest, Places, Checked, Within, Outside, Aim, Allowed
  <2> QED
    BY <2>1, <2>2, <2>3 DEF IInv
<1>23. CASE Ensure
  <2> USE <1>23 DEF Ensure, Stage, Step, Return, engine, Connect, MarkTargetPending, device, section, session, aim, flags, call, scan
  <2>1. TypeOK'
    <3>1. Flagged'
      BY <1>a DEF TypeOK, Flagged
    <3>2. Valued'
      BY <1>a, <1>b DEF TypeOK, Valued, SectionOK, Settled, Bound, AtRest, Stages, Places, Checked, Within, Outside
    <3> QED
      BY <3>1, <3>2 DEF TypeOK, Flagged, Valued
  <2>2. SectionOK'
    BY <1>a, <1>b, <1>c DEF TypeOK, SectionOK, ScanOK, Settled, Bound, AtRest, Places, Checked, Within, Outside, Aim, Allowed
  <2>3. ScanOK'
    BY <1>a, <1>b, <1>c DEF TypeOK, SectionOK, ScanOK, Ramped, Settled, Bound, AtRest, Places, Checked, Within, Outside, Aim, Allowed
  <2> QED
    BY <2>1, <2>2, <2>3 DEF IInv
<1>24. CASE Probe
  <2> USE <1>24 DEF Probe, Stage, Step, Read, Measure, Unread, Targets, MarkTargetPending, Aim, device, section, session, aim, flags, call, scan
  <2>1. TypeOK'
    <3>1. Flagged'
      BY <1>a DEF TypeOK, Flagged
    <3>2. Valued'
      <4>1. Read(Scan)
        OBVIOUS
      <4> QED
        BY <1>a, <1>b, <4>1, ReadTyped DEF TypeOK, Valued, Stages
    <3> QED
      BY <3>1, <3>2 DEF TypeOK, Flagged, Valued
  <2>2. SectionOK'
    BY <1>a, <1>b, <1>c DEF TypeOK, SectionOK, ScanOK, Settled, Bound, AtRest, Places, Checked, Within, Outside, Aim, Allowed
  <2>3. ScanOK'
    BY <1>a, <1>b, <1>c DEF TypeOK, SectionOK, ScanOK, Ramped, Settled, Bound, AtRest, Places, Checked, Within, Outside, Aim, Allowed
  <2> QED
    BY <2>1, <2>2, <2>3 DEF IInv
<1>25. CASE Ramp
  <2> USE <1>25 DEF Ramp, Stage, Check, Commanding, device, section, session, aim, flags, call, scan
  <2>a. CASE Allowed("ramp_to_field")
    <3>0. held' = [by |-> Scan, place |-> "ramp_to_field", field |-> asked, quench |-> FALSE,
                   rest |-> AtRest /\ "ramp_to_field" = "heater_on"] /\ lock' = Scan
      BY <2>a
    <3>r. (AtRest /\ "ramp_to_field" = "heater_on") \in BOOLEAN
      OBVIOUS
    <3>1. Flagged'
      BY <1>a DEF TypeOK, Flagged
    <3>2. Valued'
      <4> HIDE DEF AtRest
      <4> QED
        BY <1>a, <1>b, <3>0, <3>r DEF TypeOK, Valued, SectionOK, Settled, Stages, Places, Checked, Within, Outside
    <3>3. SectionOK'
      BY <1>a, <1>b, <1>c, <2>a, <3>0 DEF TypeOK, SectionOK, Bound, AtRest, Allowed, Checked, Outside, Aim
    <3>4. ScanOK'
      BY <1>a, <1>b, <1>c, <2>a, <3>0 DEF TypeOK, SectionOK, ScanOK, Ramped, Checked, Within, Outside, Aim
    <3> QED
      BY <3>1, <3>2, <3>3, <3>4 DEF IInv, TypeOK, Flagged, Valued
  <2>b. CASE ~Allowed("ramp_to_field")
    <3>0. UNCHANGED <<lock, held>>
      BY <2>b
    <3>1. Flagged'
      BY <1>a DEF TypeOK, Flagged
    <3>2. Valued'
      BY <1>a, <3>0 DEF TypeOK, Valued, Stages
    <3>3. SectionOK'
      BY <1>b, <3>0 DEF SectionOK, Bound, AtRest, Aim
    <3>4. ScanOK'
      BY <1>a, <1>b, <1>c, <3>0, <2>b DEF TypeOK, SectionOK, ScanOK, Ramped, Checked, Within, Outside, Aim, Stage
    <3> QED
      BY <3>1, <3>2, <3>3, <3>4 DEF IInv, TypeOK, Flagged, Valued
  <2> QED
    BY <2>a, <2>b
<1>26. CASE WithoutDriver
  <2> USE <1>26 DEF WithoutDriver, Stage, Step, engine, device, section, session, aim, flags, call, scan
  <2>1. TypeOK'
    <3>1. Flagged'
      BY <1>a DEF TypeOK, Flagged
    <3>2. Valued'
      BY <1>a, <1>b DEF TypeOK, Valued, SectionOK, Settled, Bound, AtRest, Stages, Places, Checked, Within, Outside
    <3> QED
      BY <3>1, <3>2 DEF TypeOK, Flagged, Valued
  <2>2. SectionOK'
    BY <1>a, <1>b, <1>c DEF TypeOK, SectionOK, ScanOK, Settled, Bound, AtRest, Places, Checked, Within, Outside, Aim, Allowed
  <2>3. ScanOK'
    BY <1>a, <1>b, <1>c DEF TypeOK, SectionOK, ScanOK, Ramped, Settled, Bound, AtRest, Places, Checked, Within, Outside, Aim, Allowed
  <2> QED
    BY <2>1, <2>2, <2>3 DEF IInv
<1>27. CASE Refresh
  <2> USE <1>27 DEF Refresh, Stage, Step, Read, Measure, Unread, Targets, MarkTargetPending, Aim, device, section, session, aim, flags, call, scan
  <2>1. TypeOK'
    <3>1. Flagged'
      BY <1>a DEF TypeOK, Flagged
    <3>2. Valued'
      <4>1. Read(Scan)
        OBVIOUS
      <4> QED
        BY <1>a, <1>b, <4>1, ReadTyped DEF TypeOK, Valued, Stages
    <3> QED
      BY <3>1, <3>2 DEF TypeOK, Flagged, Valued
  <2>2. SectionOK'
    BY <1>a, <1>b, <1>c DEF TypeOK, SectionOK, ScanOK, Settled, Bound, AtRest, Places, Checked, Within, Outside, Aim, Allowed
  <2>3. ScanOK'
    BY <1>a, <1>b, <1>c DEF TypeOK, SectionOK, ScanOK, Ramped, Settled, Bound, AtRest, Places, Checked, Within, Outside, Aim, Allowed
  <2> QED
    BY <2>1, <2>2, <2>3 DEF IInv
<1>28. CASE Found
  <2> USE <1>28 DEF Found, Stage, Return, engine, device, section, session, aim, flags, call, scan
  <2>1. TypeOK'
    <3>1. Flagged'
      BY <1>a DEF TypeOK, Flagged
    <3>2. Valued'
      BY <1>a, <1>b DEF TypeOK, Valued, SectionOK, Settled, Bound, AtRest, Stages, Places, Checked, Within, Outside
    <3> QED
      BY <3>1, <3>2 DEF TypeOK, Flagged, Valued
  <2>2. SectionOK'
    BY <1>a, <1>b, <1>c DEF TypeOK, SectionOK, ScanOK, Settled, Bound, AtRest, Places, Checked, Within, Outside, Aim, Allowed
  <2>3. ScanOK'
    BY <1>a, <1>b, <1>c DEF TypeOK, SectionOK, ScanOK, Ramped, Settled, Bound, AtRest, Places, Checked, Within, Outside, Aim, Allowed
  <2> QED
    BY <2>1, <2>2, <2>3 DEF IInv
<1>29. CASE Renew
  <2> USE <1>29 DEF Renew, Stage, Read, Measure, Unread, Targets, MarkTargetPending, Aim, device, section, session, aim, flags, call, scan
  <2>1. TypeOK'
    <3>1. Flagged'
      BY <1>a DEF TypeOK, Flagged
    <3>2. Valued'
      <4>1. Read(Scan)
        OBVIOUS
      <4> QED
        BY <1>a, <1>b, <4>1, ReadTyped DEF TypeOK, Valued, Stages
    <3> QED
      BY <3>1, <3>2 DEF TypeOK, Flagged, Valued
  <2>2. SectionOK'
    BY <1>a, <1>b, <1>c DEF TypeOK, SectionOK, ScanOK, Settled, Bound, AtRest, Places, Checked, Within, Outside, Aim, Allowed
  <2>3. ScanOK'
    BY <1>a, <1>b, <1>c DEF TypeOK, SectionOK, ScanOK, Ramped, Settled, Bound, AtRest, Places, Checked, Within, Outside, Aim, Allowed
  <2> QED
    BY <2>1, <2>2, <2>3 DEF IInv
<1>30. CASE UNCHANGED vars
  BY <1>a, <1>b, <1>c, <1>30 DEF vars, device, section, session, aim, flags, call, scan, IInv, TypeOK, SectionOK, ScanOK, Ramped, Bound, AtRest, Within, Aim
<1> QED
  BY <1>1, <1>2, <1>3, <1>4, <1>5, <1>7, <1>8, <1>9, <1>10, <1>11, <1>12, <1>13, <1>14, <1>15, <1>16, <1>17, <1>18, <1>19, <1>20, <1>21, <1>22, <1>23, <1>24, <1>25, <1>26, <1>27, <1>28, <1>29, <1>30, NextActions

\* Every step keeps the flags about the target in force, or sets adrift.
LEMMA StepFlags ==
    ASSUME IInv, FlagsAimed, [Next]_vars
    PROVE  FlagsAimed'
<1> USE MagnetAssumption DEF Threads
<1>a. TypeOK /\ SectionOK /\ FlagsAimed
  BY DEF IInv
<1>1. CASE Move
  BY <1>a, <1>1 DEF FlagsAimed, Aim, TypeOK, SectionOK, Within, Checked, Move, device, section, session, aim, flags, call, scan
<1>2. CASE HeaterSettles
  BY <1>a, <1>2 DEF FlagsAimed, Aim, TypeOK, SectionOK, Within, Checked, HeaterSettles, device, section, session, aim, flags, call, scan
<1>3. CASE Quench
  BY <1>a, <1>3 DEF FlagsAimed, Aim, TypeOK, SectionOK, Within, Checked, Quench, Disturb, Disturbed, Asked, device, section, session, aim, flags, call, scan
<1>4. CASE Recover
  BY <1>a, <1>4 DEF FlagsAimed, Aim, TypeOK, SectionOK, Within, Checked, Recover, device, section, session, aim, flags, call, scan
<1>5. CASE Poll
  BY <1>a, <1>5, ReadAimed DEF Poll
<1>7. CASE \E t \in Threads : Conclude(t)
  BY <1>a, <1>7 DEF FlagsAimed, Aim, TypeOK, SectionOK, Within, Checked, Conclude, Arrived, Release, Empty, device, section, session, aim, flags, call, scan
<1>8. CASE \E t \in Threads : ReadFails(t)
  BY <1>a, <1>8 DEF FlagsAimed, Aim, TypeOK, SectionOK, Within, Checked, ReadFails, Release, Empty, MarkTargetPending, device, section, session, aim, flags, call, scan
<1>9. CASE \E t \in Threads : RampToTarget(t)
  BY <1>a, <1>9 DEF FlagsAimed, Aim, TypeOK, SectionOK, Within, Checked, RampToTarget, Release, Empty, MarkTargetPending, Disturb, Disturbed, Asked, Ends, device, section, session, aim, flags, call, scan
<1>10. CASE \E t \in Threads : RampToField(t)
  BY <1>a, <1>10 DEF FlagsAimed, Aim, TypeOK, SectionOK, Within, Checked, RampToField, Release, Empty, MarkTargetPending, Retarget, Disturbed, Asked, Stray, Ends, device, section, session, aim, flags, call, scan
<1>11. CASE \E t \in Threads : GoToZero(t)
  BY <1>a, <1>11 DEF FlagsAimed, Aim, TypeOK, SectionOK, Within, Checked, GoToZero, Release, Empty, MarkTargetPending, Disturb, Disturbed, Asked, Ends, device, section, session, aim, flags, call, scan
<1>12. CASE \E t \in Threads : HeaterOn(t)
  BY <1>a, <1>12 DEF FlagsAimed, Aim, TypeOK, SectionOK, Within, Checked, HeaterOn, Release, Empty, Disturb, Disturbed, Asked, Ends, device, section, session, aim, flags, call, scan
<1>13. CASE \E t \in Fields : Begin(t)
  BY <1>a, <1>13 DEF FlagsAimed, Aim, TypeOK, SectionOK, Within, Checked, Begin, Stage, engine, device, section, session, aim, flags, call, scan
<1>14. CASE \E t \in Fields : SetTarget(t)
  BY <1>a, <1>14 DEF FlagsAimed, Aim, TypeOK, SectionOK, Within, Checked, SetTarget, MarkTargetPending, Stray, Aim, Disturb, Disturbed, Asked, Ends, device, section, session, aim, flags, call, scan
<1>15. CASE \E n \in Checked, f \in Fields : Order(n, f)
  BY <1>a, <1>15 DEF FlagsAimed, Aim, TypeOK, SectionOK, Within, Checked, Order, Check, Commanding, device, section, session, aim, flags, call, scan
<1>16. CASE Hold
  BY <1>a, <1>16 DEF FlagsAimed, Aim, TypeOK, SectionOK, Within, Checked, Hold, Commanding, Disturb, Disturbed, Asked, device, section, session, aim, flags, call, scan
<1>17. CASE HeaterOff
  BY <1>a, <1>17 DEF FlagsAimed, Aim, TypeOK, SectionOK, Within, Checked, HeaterOff, Commanding, Disturb, Disturbed, Asked, device, section, session, aim, flags, call, scan
<1>18. CASE Replace
  BY <1>a, <1>18 DEF FlagsAimed, Aim, TypeOK, SectionOK, Within, Checked, Replace, Connect, Disturb, Disturbed, Asked, MarkTargetPending, device, section, session, aim, flags, call, scan
<1>19. CASE Disconnect
  BY <1>a, <1>19 DEF FlagsAimed, Aim, TypeOK, SectionOK, Within, Checked, Disconnect, Disturb, Disturbed, Asked, MarkTargetPending, device, section, session, aim, flags, call, scan
<1>20. CASE Shutdown
  BY <1>a, <1>20 DEF FlagsAimed, Aim, TypeOK, SectionOK, Within, Checked, Shutdown, Disturb, Disturbed, Asked, device, section, session, aim, flags, call, scan
<1>21. CASE SetStabilityConfig
  BY <1>a, <1>21 DEF FlagsAimed, Aim, TypeOK, SectionOK, Within, Checked, SetStabilityConfig, device, section, session, aim, flags, call, scan
<1>22. CASE Leave
  BY <1>a, <1>22 DEF FlagsAimed, Aim, TypeOK, SectionOK, Within, Checked, Leave, Stage, Return, engine, device, section, session, aim, flags, call, scan
<1>23. CASE Ensure
  <2>1. CASE UNCHANGED engine
    BY <1>a, <2>1 DEF FlagsAimed, Aim, engine, device, section, session, aim, flags, call, scan
  <2>2. CASE Connect(Scan)
    BY <1>a, <2>2 DEF FlagsAimed, Aim, Connect, MarkTargetPending, device, section, session, aim, flags, call, scan
  <2> QED
    BY <1>23, <2>1, <2>2 DEF Ensure
<1>24. CASE Probe
  BY <1>a, <1>24, ReadAimed DEF Probe
<1>25. CASE Ramp
  BY <1>a, <1>25 DEF FlagsAimed, Aim, TypeOK, SectionOK, Within, Checked, Ramp, Stage, Check, Commanding, device, section, session, aim, flags, call, scan
<1>26. CASE WithoutDriver
  BY <1>a, <1>26 DEF FlagsAimed, Aim, TypeOK, SectionOK, Within, Checked, WithoutDriver, Stage, Step, engine, device, section, session, aim, flags, call, scan
<1>27. CASE Refresh
  BY <1>a, <1>27, ReadAimed DEF Refresh
<1>28. CASE Found
  BY <1>a, <1>28 DEF FlagsAimed, Aim, TypeOK, SectionOK, Within, Checked, Found, Stage, Return, engine, device, section, session, aim, flags, call, scan
<1>29. CASE Renew
  BY <1>a, <1>29, ReadAimed DEF Renew
<1>30. CASE UNCHANGED vars
  BY <1>a, <1>30 DEF vars, device, section, session, aim, flags, call, scan, FlagsAimed, Aim
<1> QED
  BY <1>1, <1>2, <1>3, <1>4, <1>5, <1>7, <1>8, <1>9, <1>10, <1>11, <1>12, <1>13, <1>14, <1>15, <1>16, <1>17, <1>18, <1>19, <1>20, <1>21, <1>22, <1>23, <1>24, <1>25, <1>26, <1>27, <1>28, <1>29, <1>30, NextActions

\* The variables keep their types, whatever fails.
THEOREM TypeCorrect == Spec => []TypeOK
<1>1. IInv => TypeOK
  BY DEF IInv
<1> QED
  BY <1>1, InitInvariant, StepInvariant, PTL DEF Spec

\* What observers are told is about the target in force (connect_instrument, the commands
\* and read_controller_state), whatever fails, but for a command that moved the aim and
\* raised and a read without a set point.
THEOREM FlagsSafe == Spec => []FlagsCurrent
<1>1. Init => FlagsAimed
  BY DEF Init, FlagsAimed
<1>2. IInv /\ FlagsAimed /\ [Next]_vars => FlagsAimed'
  BY StepFlags
<1>3. FlagsAimed => FlagsCurrent
  BY DEF FlagsAimed, FlagsCurrent
<1> QED
  BY <1>1, <1>2, <1>3, InitInvariant, StepInvariant, PTL DEF Spec

\* ramp_to returns at the field it was asked for (or unreached), whatever fails, if nobody
\* else uses the magnet and the ramp is not refused.
THEOREM ScanSafe == Spec => []ReachedWhereAsked
<1>1. IInv => ReachedWhereAsked
  BY DEF IInv, ScanOK, Ramped, ReachedWhereAsked
<1> QED
  BY <1>1, InitInvariant, StepInvariant, PTL DEF Spec

\* No ramp starts while the heater opens or closes (_validate_ramp_allowed).
THEOREM RampsSafe == Spec => NoRampInTransition
<1>1. IInv /\ [Next]_vars => [ramp' # ramp /\ ramp' # "hold" => heater \in Settled]_vars
  <2> SUFFICES ASSUME IInv, [Next]_vars, ramp' # ramp, ramp' # "hold" PROVE heater \in Settled
    OBVIOUS
  <2>1. SectionOK
    BY DEF IInv
  <2>2. \E t \in Threads : Within(t, "ramp_to_target") \/ Within(t, "ramp_to_field") \/ Within(t, "go_to_zero")
    BY NextActions DEF vars, device, section, session, aim, flags, call, scan, Move, HeaterSettles, Quench, Recover, Poll, Read, Measure, Unread, Conclude,
       ReadFails, RampToTarget, RampToField, GoToZero, HeaterOn, Begin, SetTarget, Order, Check, Hold,
       HeaterOff, Replace, Connect, Disconnect, Shutdown, SetStabilityConfig, Leave, Ensure, Probe, Ramp,
       WithoutDriver, Refresh, Found, Renew, engine
  <2> QED
    BY <2>1, <2>2 DEF SectionOK, Within, Checked
<1> QED
  BY <1>1, InitInvariant, StepInvariant, PTL DEF Spec, NoRampInTransition

\* The heater is turned on over a field that matches (_validate_heater_on_allowed).
THEOREM HeaterSafe == Spec => HeaterMatched
<1>1. IInv /\ [Next]_vars =>
        [heater' = "warming" /\ heater # "warming" /\ held.rest => trapped \in {None, supply}]_vars
  <2> SUFFICES ASSUME IInv, [Next]_vars, heater' = "warming", heater # "warming", held.rest
               PROVE trapped \in {None, supply}
    OBVIOUS
  <2>1. SectionOK
    BY DEF IInv
  <2>2. \E t \in Threads : Within(t, "heater_on")
    BY NextActions DEF vars, device, section, session, aim, flags, call, scan, Move, HeaterSettles, Quench, Recover, Poll, Read, Measure, Unread, Conclude,
       ReadFails, RampToTarget, RampToField, GoToZero, HeaterOn, Begin, SetTarget, Order, Check, Hold,
       HeaterOff, Replace, Connect, Disconnect, Shutdown, SetStabilityConfig, Leave, Ensure, Probe, Ramp,
       WithoutDriver, Refresh, Found, Renew, engine
  <2> QED
    BY <2>1, <2>2 DEF SectionOK, Within, Checked
<1> QED
  BY <1>1, InitInvariant, StepInvariant, PTL DEF Spec, HeaterMatched
=============================================================================
