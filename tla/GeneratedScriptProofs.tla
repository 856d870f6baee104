------------------------ MODULE GeneratedScriptProofs ------------------------
(***************************************************************************)
(* Proofs about GeneratedScript, for any number of plugins, runs and stops.*)
(*                                                                         *)
(* IInv relates the place of the script to what it has done: a call in     *)
(* progress matches its phase, the nesting depth of every plugin is what   *)
(* the calls on it have entered, a handle the plugin has forgotten is one a*)
(* trace took away, and every plugin the finally clause has passed is      *)
(* released.                                                               *)
(*                                                                         *)
(* The last part is about the instance Host of DisplayHost: the display    *)
(* the first line of a script selects.                                     *)
(***************************************************************************)
EXTENDS GeneratedScript, DisplayState, Sequences, TLAPS

Host == INSTANCE DisplayHost

\* The calls the actions make are calls.
LEMMA Entering ==
    /\ Idle \in Calls
    /\ \A op \in {"connect", "configure", "disconnect"} : Enter(op) \in Calls
  BY DEF Idle, Enter, Calls

\* The invariant holds at the start.
LEMMA InitInvariant == Init => IInv
<1> SUFFICES ASSUME Init PROVE IInv
    OBVIOUS
<1>1. TypeOK
  <2>1. /\ attempted \in [Plugins -> BOOLEAN] /\ connected \in [Plugins -> BOOLEAN]
        /\ configured \in [Plugins -> BOOLEAN] /\ depth \in [Plugins -> Nat]
        /\ held \in [Plugins -> BOOLEAN] /\ lost \in [Plugins -> BOOLEAN]
        /\ setUp \in [Plugins -> Nat]
    BY DEF Init
  <2>2. pos \in 0..Count + 1 /\ phase \in Phases /\ call \in Calls
    BY ScriptAssumption, Entering DEF Init, Phases
  <2> QED
    BY <2>2 DEF Init, TypeOK
<1>2. CallMatches /\ Balanced
    BY DEF Init, CallMatches, Balanced, Inside, Idle
<1>3. HandleKnown /\ ReadyHolds
    BY DEF Init, HandleKnown, ReadyHolds, Idle
<1>4. PassedReleased /\ NothingLost /\ ActsReady /\ CleanRelease
    BY DEF Init, PassedReleased, NothingLost, ActsReady, CleanRelease
<1> QED
    BY <1>1, <1>2, <1>3, <1>4 DEF IInv

\* Every statement of the script, every call it makes and every trace keeps the invariant.
LEMMA StepInvariant == IInv /\ [Next]_vars => IInv'
<1> SUFFICES ASSUME IInv, [Next]_vars PROVE IInv'
    OBVIOUS
<1>a. TypeOK
    BY DEF IInv
<1>b. CallMatches
    BY DEF IInv
<1>c. Balanced
    BY DEF IInv
<1>d. HandleKnown
    BY DEF IInv
<1>e. ReadyHolds
    BY DEF IInv
<1>f. PassedReleased
    BY DEF IInv
<1>g. NothingLost
    BY DEF IInv
<1>h. ActsReady
    BY DEF IInv
<1>i. CleanRelease
    BY DEF IInv
<1> USE ScriptAssumption
<1>1. CASE Start
  <2>1. TypeOK'
    <3>1. /\ attempted' \in [Plugins -> BOOLEAN] /\ connected' \in [Plugins -> BOOLEAN]
          /\ configured' \in [Plugins -> BOOLEAN]
      BY <1>1, <1>a DEF Start, TypeOK
    <3>2. depth' \in [Plugins -> Nat] /\ setUp' \in [Plugins -> Nat]
      BY <1>1, <1>a DEF Start, TypeOK
    <3>3. delay' \in SUBSET Plugins
      BY <1>1 DEF Start
    <3>4. held' \in [Plugins -> BOOLEAN] /\ lost' \in [Plugins -> BOOLEAN]
      BY <1>1, <1>a DEF Start, TypeOK
    <3>5. phase' \in Phases
      BY <1>1 DEF Start, Phases
    <3>6. pos' \in 0..Count + 1
      BY <1>1 DEF Start
    <3>7. call' \in Calls
      BY <1>1, <1>a, <1>b, Entering DEF Start, TypeOK
    <3>8. nested' \in BOOLEAN /\ traced' \in BOOLEAN /\ entered' \in BOOLEAN /\ broken' \in BOOLEAN
      BY <1>1, <1>a DEF Start, TypeOK
    <3>9. run' \in Nat /\ stops' \in Nat
      BY <1>1, <1>a DEF Start, TypeOK
    <3> QED
      BY <3>1, <3>2, <3>3, <3>4, <3>5, <3>6, <3>7, <3>8, <3>9 DEF TypeOK
  <2>2. CallMatches'
    BY <1>1, <1>b DEF Start, CallMatches
  <2>3. Balanced'
    BY <1>1, <1>a, <1>b, <1>c DEF Start, Balanced, Inside, CallMatches
  <2>4. HandleKnown'
    BY <1>1, <1>a, <1>b, <1>c, <1>d DEF Start, HandleKnown, After, CallMatches
  <2>5. ReadyHolds'
    BY <1>1, <1>a, <1>b, <1>c, <1>e DEF Start, ReadyHolds, Inside, After, CallMatches
  <2>6. PassedReleased'
    BY <1>1, <1>a, <1>b, <1>c, <1>e, <1>f DEF Start, PassedReleased
  <2>7. NothingLost'
    BY <1>1, <1>a, <1>b, <1>c, <1>d, <1>g DEF Start, NothingLost
  <2>8. ActsReady'
    BY <1>1, <1>a, <1>b, <1>e, <1>h DEF Start, ActsReady
  <2>9. CleanRelease'
    BY <1>1, <1>a, <1>b, <1>c, <1>f, <1>i DEF Start, CleanRelease
  <2> QED
    BY <2>1, <2>2, <2>3, <2>4, <2>5, <2>6, <2>7, <2>8, <2>9 DEF IInv
<1>2. CASE Validate
  <2>1. TypeOK'
    BY <1>2, <1>a, Entering DEF Validate, TypeOK, Phases, plugin, script
  <2>2. CallMatches'
    BY <1>2, <1>b DEF Validate, CallMatches
  <2>3. Balanced'
    BY <1>2, <1>a, <1>b, <1>c DEF Validate, Balanced, Inside, plugin, script, CallMatches
  <2>4. HandleKnown'
    BY <1>2, <1>a, <1>b, <1>c, <1>d DEF Validate, HandleKnown, After, plugin, script,
        CallMatches
  <2>5. ReadyHolds'
    BY <1>2, <1>a, <1>b, <1>c, <1>e DEF Validate, ReadyHolds, Inside, After, plugin,
        script, CallMatches
  <2>6. PassedReleased'
    BY <1>2, <1>a, <1>b, <1>c, <1>e, <1>f DEF Validate, PassedReleased
  <2>7. NothingLost'
    BY <1>2, <1>a, <1>b, <1>c, <1>d, <1>g DEF Validate, NothingLost, plugin, script
  <2>8. ActsReady'
    BY <1>2, <1>a, <1>b, <1>e, <1>h DEF Validate, ActsReady
  <2>9. CleanRelease'
    BY <1>2, <1>a, <1>b, <1>c, <1>f, <1>i DEF Validate, CleanRelease
  <2> QED
    BY <2>1, <2>2, <2>3, <2>4, <2>5, <2>6, <2>7, <2>8, <2>9 DEF IInv
<1>3. CASE ConnectNext
  <2>1. TypeOK'
    <3>1. /\ attempted' \in [Plugins -> BOOLEAN] /\ connected' \in [Plugins -> BOOLEAN]
          /\ configured' \in [Plugins -> BOOLEAN]
      BY <1>3, <1>a, <1>b DEF ConnectNext, SetUpNext, plugin, TypeOK
    <3>2. depth' \in [Plugins -> Nat] /\ setUp' \in [Plugins -> Nat]
      BY <1>3, <1>a, <1>b DEF ConnectNext, SetUpNext, plugin, TypeOK
    <3>3. delay' \in SUBSET Plugins
      BY <1>3, <1>a, <1>b DEF ConnectNext, SetUpNext, script, TypeOK
    <3>4. held' \in [Plugins -> BOOLEAN] /\ lost' \in [Plugins -> BOOLEAN]
      BY <1>3, <1>a, <1>b DEF ConnectNext, SetUpNext, plugin, TypeOK
    <3>5. phase' \in Phases
      BY <1>3, <1>a, <1>b DEF ConnectNext, SetUpNext, Phases
    <3>6. pos' \in 0..Count + 1
      BY <1>3, <1>a, <1>b DEF ConnectNext, SetUpNext, Plugins
    <3>7. call' \in Calls
      <4>1. CASE call' = Enter("connect")
        BY <4>1, Entering
      <4>2. CASE UNCHANGED call
        BY <4>2, <1>a DEF TypeOK
      <4> QED
        BY <1>3, <4>1, <4>2 DEF ConnectNext, SetUpNext
    <3>8. nested' \in BOOLEAN /\ traced' \in BOOLEAN /\ entered' \in BOOLEAN /\ broken' \in BOOLEAN
      BY <1>3, <1>a, <1>b DEF ConnectNext, SetUpNext, script, TypeOK
    <3>9. run' \in Nat /\ stops' \in Nat
      BY <1>3, <1>a, <1>b DEF ConnectNext, SetUpNext, script, TypeOK
    <3> QED
      BY <3>1, <3>2, <3>3, <3>4, <3>5, <3>6, <3>7, <3>8, <3>9 DEF TypeOK
  <2>2. CallMatches'
    BY <1>3, <1>a, <1>b DEF ConnectNext, SetUpNext, Enter, CallMatches
  <2>3. Balanced'
    BY <1>3, <1>a, <1>b, <1>c DEF ConnectNext, SetUpNext, Enter, Balanced, Inside, plugin,
        script, CallMatches
  <2>4. HandleKnown'
    BY <1>3, <1>a, <1>b, <1>c, <1>d DEF ConnectNext, SetUpNext, Enter, HandleKnown, After,
        plugin, script, CallMatches
  <2>5. ReadyHolds'
    BY <1>3, <1>a, <1>b, <1>c, <1>e DEF ConnectNext, SetUpNext, Enter, ReadyHolds, Inside,
        After, plugin, script, CallMatches
  <2>6. PassedReleased'
    BY <1>3, <1>a, <1>b, <1>c, <1>e, <1>f DEF ConnectNext, SetUpNext, Enter,
        PassedReleased, TypeOK
  <2>7. NothingLost'
    BY <1>3, <1>a, <1>b, <1>c, <1>d, <1>g DEF ConnectNext, SetUpNext, NothingLost, plugin,
        script
  <2>8. ActsReady'
    BY <1>3, <1>a, <1>b, <1>e, <1>h DEF ConnectNext, SetUpNext, ActsReady
  <2>9. CleanRelease'
    BY <1>3, <1>a, <1>b, <1>c, <1>f, <1>i DEF ConnectNext, SetUpNext, Enter, CleanRelease
  <2> QED
    BY <2>1, <2>2, <2>3, <2>4, <2>5, <2>6, <2>7, <2>8, <2>9 DEF IInv
<1>4. CASE ConfigureNext
  <2>1. TypeOK'
    <3>1. /\ attempted' \in [Plugins -> BOOLEAN] /\ connected' \in [Plugins -> BOOLEAN]
          /\ configured' \in [Plugins -> BOOLEAN]
      BY <1>4, <1>a, <1>b DEF ConfigureNext, SetUpNext, plugin, TypeOK
    <3>2. depth' \in [Plugins -> Nat] /\ setUp' \in [Plugins -> Nat]
      BY <1>4, <1>a, <1>b DEF ConfigureNext, SetUpNext, plugin, TypeOK
    <3>3. delay' \in SUBSET Plugins
      BY <1>4, <1>a, <1>b DEF ConfigureNext, SetUpNext, script, TypeOK
    <3>4. held' \in [Plugins -> BOOLEAN] /\ lost' \in [Plugins -> BOOLEAN]
      BY <1>4, <1>a, <1>b DEF ConfigureNext, SetUpNext, plugin, TypeOK
    <3>5. phase' \in Phases
      BY <1>4, <1>a, <1>b DEF ConfigureNext, SetUpNext, Phases
    <3>6. pos' \in 0..Count + 1
      BY <1>4, <1>a, <1>b DEF ConfigureNext, SetUpNext, Plugins
    <3>7. call' \in Calls
      <4>1. CASE call' = Enter("configure")
        BY <4>1, Entering
      <4>2. CASE UNCHANGED call
        BY <4>2, <1>a DEF TypeOK
      <4> QED
        BY <1>4, <4>1, <4>2 DEF ConfigureNext, SetUpNext
    <3>8. nested' \in BOOLEAN /\ traced' \in BOOLEAN /\ entered' \in BOOLEAN /\ broken' \in BOOLEAN
      BY <1>4, <1>a, <1>b DEF ConfigureNext, SetUpNext, script, TypeOK
    <3>9. run' \in Nat /\ stops' \in Nat
      BY <1>4, <1>a, <1>b DEF ConfigureNext, SetUpNext, script, TypeOK
    <3> QED
      BY <3>1, <3>2, <3>3, <3>4, <3>5, <3>6, <3>7, <3>8, <3>9 DEF TypeOK
  <2>2. CallMatches'
    BY <1>4, <1>a, <1>b DEF ConfigureNext, SetUpNext, Enter, CallMatches
  <2>3. Balanced'
    BY <1>4, <1>a, <1>b, <1>c DEF ConfigureNext, SetUpNext, Enter, Balanced, Inside,
        plugin, script, CallMatches
  <2>4. HandleKnown'
    BY <1>4, <1>a, <1>b, <1>c, <1>d DEF ConfigureNext, SetUpNext, Enter, HandleKnown,
        After, plugin, script, CallMatches
  <2>5. ReadyHolds'
    BY <1>4, <1>a, <1>b, <1>c, <1>e DEF ConfigureNext, SetUpNext, Enter, ReadyHolds,
        Inside, After, plugin, script, CallMatches
  <2>6. PassedReleased'
    BY <1>4, <1>a, <1>b, <1>c, <1>e, <1>f DEF ConfigureNext, SetUpNext, Enter,
        PassedReleased
  <2>7. NothingLost'
    BY <1>4, <1>a, <1>b, <1>c, <1>d, <1>g DEF ConfigureNext, SetUpNext, NothingLost,
        plugin, script
  <2>8. ActsReady'
    BY <1>4, <1>a, <1>b, <1>e, <1>h DEF ConfigureNext, SetUpNext, ActsReady
  <2>9. CleanRelease'
    BY <1>4, <1>a, <1>b, <1>c, <1>f, <1>i DEF ConfigureNext, SetUpNext, Enter, CleanRelease
  <2> QED
    BY <2>1, <2>2, <2>3, <2>4, <2>5, <2>6, <2>7, <2>8, <2>9 DEF IInv
<1>5. ASSUME NEW p \in Plugins, Act(p) PROVE IInv'
  <2>1. TypeOK'
    BY <1>5, <1>a, Entering DEF Act, TypeOK, Phases, plugin, script, Plugins
  <2>2. CallMatches'
    BY <1>5, <1>b DEF Act, CallMatches
  <2>3. Balanced'
    BY <1>5, <1>a, <1>b, <1>c DEF Act, Balanced, Inside, plugin, script, CallMatches
  <2>4. HandleKnown'
    BY <1>5, <1>a, <1>b, <1>c, <1>d DEF Act, HandleKnown, After, plugin, script, CallMatches
  <2>5. ReadyHolds'
    BY <1>5, <1>a, <1>b, <1>c, <1>e DEF Act, ReadyHolds, Inside, After, plugin, script,
        CallMatches
  <2>6. PassedReleased'
    BY <1>5, <1>a, <1>b, <1>c, <1>e, <1>f DEF Act, PassedReleased
  <2>7. NothingLost'
    BY <1>5, <1>a, <1>b, <1>c, <1>d, <1>g DEF Act, NothingLost, plugin, script
  <2>8. ActsReady'
    BY <1>5, <1>a, <1>b, <1>e, <1>h DEF Act, ActsReady, ReadyHolds, plugin, script
  <2>9. CleanRelease'
    BY <1>5, <1>a, <1>b, <1>c, <1>f, <1>i DEF Act, CleanRelease
  <2> QED
    BY <2>1, <2>2, <2>3, <2>4, <2>5, <2>6, <2>7, <2>8, <2>9 DEF IInv
<1>6. CASE ActDone
  <2>1. TypeOK'
    BY <1>6, <1>a, Entering DEF ActDone, TypeOK, Phases, plugin, script
  <2>2. CallMatches'
    BY <1>6, <1>b DEF ActDone, CallMatches
  <2>3. Balanced'
    BY <1>6, <1>a, <1>b, <1>c DEF ActDone, Balanced, Inside, plugin, script
  <2>4. HandleKnown'
    BY <1>6, <1>a, <1>b, <1>c, <1>d DEF ActDone, HandleKnown, After, plugin, script
  <2>5. ReadyHolds'
    BY <1>6, <1>a, <1>b, <1>c, <1>e DEF ActDone, ReadyHolds, Inside, After, plugin, script
  <2>6. PassedReleased'
    BY <1>6, <1>a, <1>b, <1>c, <1>e, <1>f DEF ActDone, PassedReleased
  <2>7. NothingLost'
    BY <1>6, <1>a, <1>b, <1>c, <1>d, <1>g DEF ActDone, NothingLost, plugin, script
  <2>8. ActsReady'
    BY <1>6, <1>a, <1>b, <1>e, <1>h DEF ActDone, ActsReady
  <2>9. CleanRelease'
    BY <1>6, <1>a, <1>b, <1>c, <1>f, <1>i DEF ActDone, CleanRelease
  <2> QED
    BY <2>1, <2>2, <2>3, <2>4, <2>5, <2>6, <2>7, <2>8, <2>9 DEF IInv
<1>7. ASSUME NEW p \in Plugins, Reconfigure(p) PROVE IInv'
  <2>1. TypeOK'
    BY <1>7, <1>a, <1>b, Entering DEF Reconfigure, TypeOK, Phases, plugin, script, Plugins
  <2>2. CallMatches'
    BY <1>7, <1>b DEF Reconfigure, Enter, CallMatches
  <2>3. Balanced'
    BY <1>7, <1>a, <1>b, <1>c DEF Reconfigure, Enter, Balanced, Inside, plugin, script,
        CallMatches
  <2>4. HandleKnown'
    BY <1>7, <1>a, <1>b, <1>c, <1>d DEF Reconfigure, Enter, HandleKnown, plugin, script
  <2>5. ReadyHolds'
    BY <1>7, <1>a, <1>b, <1>c, <1>e DEF Reconfigure, Enter, ReadyHolds, After, plugin,
        script
  <2>6. PassedReleased'
    BY <1>7, <1>a, <1>b, <1>c, <1>e, <1>f DEF Reconfigure, Enter, PassedReleased
  <2>7. NothingLost'
    BY <1>7, <1>a, <1>b, <1>c, <1>d, <1>g DEF Reconfigure, NothingLost, plugin, script
  <2>8. ActsReady'
    BY <1>7, <1>a, <1>b, <1>e, <1>h DEF Reconfigure, ActsReady
  <2>9. CleanRelease'
    BY <1>7, <1>a, <1>b, <1>c, <1>f, <1>i DEF Reconfigure, Enter, CleanRelease
  <2> QED
    BY <2>1, <2>2, <2>3, <2>4, <2>5, <2>6, <2>7, <2>8, <2>9 DEF IInv
<1>8. CASE BodyEnds
  <2>1. TypeOK'
    BY <1>8, <1>a, Entering DEF BodyEnds, TypeOK, Phases, plugin, script
  <2>2. CallMatches'
    BY <1>8, <1>b DEF BodyEnds, CallMatches
  <2>3. Balanced'
    BY <1>8, <1>a, <1>b, <1>c DEF BodyEnds, Balanced, Inside, plugin, script
  <2>4. HandleKnown'
    BY <1>8, <1>a, <1>b, <1>c, <1>d DEF BodyEnds, HandleKnown, After, plugin, script
  <2>5. ReadyHolds'
    BY <1>8, <1>a, <1>b, <1>c, <1>e DEF BodyEnds, ReadyHolds, Inside, After, plugin, script
  <2>6. PassedReleased'
    BY <1>8, <1>a, <1>b, <1>c, <1>e, <1>f DEF BodyEnds, PassedReleased
  <2>7. NothingLost'
    BY <1>8, <1>a, <1>b, <1>c, <1>d, <1>g DEF BodyEnds, NothingLost, plugin, script
  <2>8. ActsReady'
    BY <1>8, <1>a, <1>b, <1>e, <1>h DEF BodyEnds, ActsReady
  <2>9. CleanRelease'
    BY <1>8, <1>a, <1>b, <1>c, <1>f, <1>i DEF BodyEnds, CleanRelease
  <2> QED
    BY <2>1, <2>2, <2>3, <2>4, <2>5, <2>6, <2>7, <2>8, <2>9 DEF IInv
<1>9. CASE MadeSafe
  <2>1. TypeOK'
    BY <1>9, <1>a, Entering DEF MadeSafe, TypeOK, Phases, plugin, script
  <2>2. CallMatches'
    BY <1>9, <1>b DEF MadeSafe, CallMatches
  <2>3. Balanced'
    BY <1>9, <1>a, <1>b, <1>c DEF MadeSafe, Balanced, Inside, plugin, script, CallMatches
  <2>4. HandleKnown'
    BY <1>9, <1>a, <1>b, <1>c, <1>d DEF MadeSafe, HandleKnown, After, plugin, script,
        CallMatches
  <2>5. ReadyHolds'
    BY <1>9, <1>a, <1>b, <1>c, <1>e DEF MadeSafe, ReadyHolds, Inside, After, plugin,
        script, CallMatches
  <2>6. PassedReleased'
    BY <1>9, <1>a, <1>b, <1>c, <1>e, <1>f DEF MadeSafe, PassedReleased, Plugins
  <2>7. NothingLost'
    BY <1>9, <1>a, <1>b, <1>c, <1>d, <1>g DEF MadeSafe, NothingLost, plugin, script
  <2>8. ActsReady'
    BY <1>9, <1>a, <1>b, <1>e, <1>h DEF MadeSafe, ActsReady
  <2>9. CleanRelease'
    BY <1>9, <1>a, <1>b, <1>c, <1>f, <1>i DEF MadeSafe, CleanRelease
  <2> QED
    BY <2>1, <2>2, <2>3, <2>4, <2>5, <2>6, <2>7, <2>8, <2>9 DEF IInv
<1>10. CASE DisconnectNext
  <2>1. TypeOK'
    <3>1. /\ attempted' \in [Plugins -> BOOLEAN] /\ connected' \in [Plugins -> BOOLEAN]
          /\ configured' \in [Plugins -> BOOLEAN]
      BY <1>10, <1>a, <1>b DEF DisconnectNext, plugin, TypeOK
    <3>2. depth' \in [Plugins -> Nat] /\ setUp' \in [Plugins -> Nat]
      BY <1>10, <1>a, <1>b DEF DisconnectNext, plugin, TypeOK
    <3>3. delay' \in SUBSET Plugins
      BY <1>10, <1>a, <1>b DEF DisconnectNext, script, TypeOK
    <3>4. held' \in [Plugins -> BOOLEAN] /\ lost' \in [Plugins -> BOOLEAN]
      BY <1>10, <1>a, <1>b DEF DisconnectNext, plugin, TypeOK
    <3>5. phase' \in Phases
      BY <1>10, <1>b DEF DisconnectNext, Phases
    <3>6. pos' \in 0..Count + 1
      BY <1>10, <1>a, <1>b DEF DisconnectNext, TypeOK
    <3>7. call' \in Calls
      <4>1. CASE call' = Enter("disconnect")
        BY <4>1, Entering
      <4>2. CASE UNCHANGED call
        BY <4>2, <1>a DEF TypeOK
      <4> QED
        BY <1>10, <4>1, <4>2 DEF DisconnectNext
    <3>8. nested' \in BOOLEAN /\ traced' \in BOOLEAN /\ entered' \in BOOLEAN /\ broken' \in BOOLEAN
      BY <1>10, <1>a, <1>b DEF DisconnectNext, script, TypeOK
    <3>9. run' \in Nat /\ stops' \in Nat
      BY <1>10, <1>a, <1>b DEF DisconnectNext, script, TypeOK
    <3> QED
      BY <3>1, <3>2, <3>3, <3>4, <3>5, <3>6, <3>7, <3>8, <3>9 DEF TypeOK
  <2>2. CallMatches'
    BY <1>10, <1>b DEF DisconnectNext, Enter, CallMatches
  <2>3. Balanced'
    BY <1>10, <1>a, <1>b, <1>c DEF DisconnectNext, Enter, Balanced, Inside, plugin, script,
        CallMatches
  <2>4. HandleKnown'
    BY <1>10, <1>a, <1>b, <1>c, <1>d DEF DisconnectNext, Enter, HandleKnown, After, plugin,
        script
  <2>5. ReadyHolds'
    BY <1>10, <1>a, <1>b, <1>c, <1>e DEF DisconnectNext, Enter, ReadyHolds, Inside, After,
        plugin, script
  <2>6. PassedReleased'
    BY <1>10, <1>a, <1>b, <1>c, <1>e, <1>f DEF DisconnectNext, Enter, PassedReleased, plugin
  <2>7. NothingLost'
    BY <1>10, <1>a, <1>b, <1>c, <1>d, <1>g DEF DisconnectNext, NothingLost, plugin, script
  <2>8. ActsReady'
    BY <1>10, <1>a, <1>b, <1>e, <1>h DEF DisconnectNext, ActsReady
  <2>9. CleanRelease'
    BY <1>10, <1>a, <1>b, <1>c, <1>f, <1>i DEF DisconnectNext, Enter, CleanRelease,
        PassedReleased, plugin, TypeOK, Plugins
  <2> QED
    BY <2>1, <2>2, <2>3, <2>4, <2>5, <2>6, <2>7, <2>8, <2>9 DEF IInv
<1>11. CASE StatementFails
  <2>1. TypeOK'
    BY <1>11, <1>a, <1>b, Entering DEF StatementFails, Unwind, TypeOK, Phases, plugin,
        script
  <2>2. CallMatches'
    BY <1>11, <1>b DEF StatementFails, Unwind, CallMatches
  <2>3. Balanced'
    BY <1>11, <1>a, <1>b, <1>c DEF StatementFails, Unwind, Balanced, Inside, plugin,
        script, CallMatches
  <2>4. HandleKnown'
    BY <1>11, <1>a, <1>b, <1>c, <1>d DEF StatementFails, Unwind, HandleKnown, After,
        plugin, script, CallMatches
  <2>5. ReadyHolds'
    BY <1>11, <1>a, <1>b, <1>c, <1>e DEF StatementFails, Unwind, ReadyHolds, Inside, After,
        plugin, script, CallMatches
  <2>6. PassedReleased'
    BY <1>11, <1>a, <1>b, <1>c, <1>e, <1>f DEF StatementFails, Unwind, PassedReleased
  <2>7. NothingLost'
    BY <1>11, <1>a, <1>b, <1>c, <1>d, <1>g DEF StatementFails, NothingLost, plugin, script
  <2>8. ActsReady'
    BY <1>11, <1>a, <1>b, <1>e, <1>h DEF StatementFails, Unwind, ActsReady
  <2>9. CleanRelease'
    BY <1>11, <1>a, <1>b, <1>c, <1>f, <1>i DEF StatementFails, Unwind, CleanRelease,
        PassedReleased
  <2> QED
    BY <2>1, <2>2, <2>3, <2>4, <2>5, <2>6, <2>7, <2>8, <2>9 DEF IInv
<1>12. CASE CheckOutermost
  <2>1. TypeOK'
    BY <1>12, <1>a, <1>b, Entering DEF CheckOutermost, At, TypeOK, Phases, plugin, script,
        CallMatches, Idle, Plugins, Calls
  <2>2. CallMatches'
    <3>1. CASE call'.op = "disconnect" /\ nested'
      <4>1. call # Idle /\ pos \in Plugins /\ call.step = "enter" /\ ~nested
        BY <1>12, <1>b DEF CheckOutermost, At, CallMatches
      <4>2. /\ call.op = "connect"
            /\ call' = [op |-> "disconnect", step |-> "begin", outer |-> TRUE, raised |-> FALSE]
        BY <1>12, <3>1, <4>1 DEF CheckOutermost, Enter
      <4>3. phase' = phase /\ pos' = pos /\ phase \in {"connect", "reconfigure"}
        BY <1>12, <1>b, <4>1, <4>2 DEF CheckOutermost, CallMatches
      <4> QED
        BY <3>1, <4>1, <4>2, <4>3 DEF CallMatches, Idle
    <3>2. CASE call' = [call EXCEPT !.step = "begin", !.outer = depth[pos] = 0] /\ UNCHANGED nested
      BY <1>12, <3>2, <1>a, <1>b DEF CheckOutermost, At, CallMatches, TypeOK, Idle, Calls
    <3> QED
      BY <3>1, <3>2, <1>12 DEF CheckOutermost, Enter
  <2>3. Balanced'
    BY <1>12, <1>a, <1>b, <1>c DEF CheckOutermost, At, Enter, Balanced, Inside, plugin,
        script, TypeOK, CallMatches, Calls
  <2>4. HandleKnown'
    <3>1. CASE call'.op = "disconnect" /\ nested'
      BY <1>12, <3>1, <1>a, <1>b, <1>c, <1>d DEF CheckOutermost, At, Enter, HandleKnown,
          After, plugin, script, CallMatches
    <3>2. CASE call' = [call EXCEPT !.step = "begin", !.outer = depth[pos] = 0] /\ UNCHANGED nested
      <4>1. call'.op = call.op /\ call'.step = "begin" /\ call.step = "enter" /\ pos \in Plugins
        BY <1>12, <3>2, <1>b DEF CheckOutermost, At, CallMatches
      <4>2. UNCHANGED <<held, attempted, stops, pos>>
        BY <1>12 DEF CheckOutermost, plugin, script
      <4>3. stops = 0 => depth[pos] = 0
        BY <4>1, <1>c DEF Balanced, Inside
      <4>4. call.op = "connect" /\ stops = 0 => ~attempted[pos]
        <5> SUFFICES ASSUME call.op = "connect", stops = 0, attempted[pos] PROVE FALSE
          OBVIOUS
        <5>1. nested' /\ ~nested
          BY <1>12, <1>b, <4>3 DEF CheckOutermost, CallMatches
        <5> QED
          BY <5>1, <3>2
      <4> QED
        BY <4>1, <4>2, <4>4, <1>d DEF HandleKnown, After
    <3> QED
      BY <3>1, <3>2, <1>12 DEF CheckOutermost, Enter
  <2>5. ReadyHolds'
    BY <1>12, <1>a, <1>b, <1>c, <1>e DEF CheckOutermost, At, Enter, ReadyHolds, Inside,
        After, plugin, script, TypeOK, Calls
  <2>6. PassedReleased'
    BY <1>12, <1>a, <1>b, <1>c, <1>e, <1>f DEF CheckOutermost, At, Enter, PassedReleased,
        plugin
  <2>7. NothingLost'
    BY <1>12, <1>a, <1>b, <1>c, <1>d, <1>g DEF CheckOutermost, NothingLost, plugin, script
  <2>8. ActsReady'
    BY <1>12, <1>a, <1>b, <1>e, <1>h DEF CheckOutermost, ActsReady, plugin, script
  <2>9. CleanRelease'
    BY <1>12, <1>a, <1>b, <1>c, <1>f, <1>i DEF CheckOutermost, At, Enter, CleanRelease,
        plugin
  <2> QED
    BY <2>1, <2>2, <2>3, <2>4, <2>5, <2>6, <2>7, <2>8, <2>9 DEF IInv
<1>13. CASE Begin
  <2>1. TypeOK'
    <3>1. /\ attempted' \in [Plugins -> BOOLEAN] /\ connected' \in [Plugins -> BOOLEAN]
          /\ configured' \in [Plugins -> BOOLEAN]
      BY <1>13, <1>a, <1>b DEF Begin, TypeOK
    <3>2. depth' \in [Plugins -> Nat] /\ setUp' \in [Plugins -> Nat]
      BY <1>13, <1>a, <1>b DEF Begin, At, TypeOK, CallMatches
    <3>3. delay' \in SUBSET Plugins
      BY <1>13, <1>a, <1>b DEF Begin, script, TypeOK
    <3>4. held' \in [Plugins -> BOOLEAN] /\ lost' \in [Plugins -> BOOLEAN]
      BY <1>13, <1>a, <1>b DEF Begin, TypeOK
    <3>5. phase' \in Phases
      BY <1>13, <1>a, <1>b DEF Begin, TypeOK
    <3>6. pos' \in 0..Count + 1
      BY <1>13, <1>a, <1>b DEF Begin, TypeOK
    <3>7. call' \in Calls
      BY <1>13, <1>a, <1>b, Entering DEF Begin, TypeOK, Calls
    <3>8. nested' \in BOOLEAN /\ traced' \in BOOLEAN /\ entered' \in BOOLEAN /\ broken' \in BOOLEAN
      BY <1>13, <1>a, <1>b DEF Begin, script, TypeOK
    <3>9. run' \in Nat /\ stops' \in Nat
      BY <1>13, <1>a, <1>b DEF Begin, script, TypeOK
    <3> QED
      BY <3>1, <3>2, <3>3, <3>4, <3>5, <3>6, <3>7, <3>8, <3>9 DEF TypeOK
  <2>2. CallMatches'
    BY <1>13, <1>b DEF Begin, At, CallMatches, Idle
  <2>3. Balanced'
    BY <1>13, <1>a, <1>b, <1>c DEF Begin, At, Balanced, Inside, script, TypeOK, CallMatches
  <2>4. HandleKnown'
    <3>1. CASE call.op = "connect"
      <4>1. call' = [call EXCEPT !.step = "try"] /\ pos' = pos /\ UNCHANGED <<held, stops>>
        BY <1>13 DEF Begin, script
      <4>2. call'.op = "connect" /\ call'.step = "try" /\ pos \in Plugins
        BY <1>13, <3>1, <1>b DEF Begin, At, CallMatches
      <4>3. stops = 0 => call.outer /\ ~held[pos] /\ \A p \in Plugins : held[p] => attempted[p]
        BY <1>13, <3>1, <1>b, <1>c, <1>d DEF Begin, At, CallMatches, Balanced, HandleKnown
      <4>4. stops = 0 => attempted' = [attempted EXCEPT ![pos] = TRUE]
        BY <1>13, <3>1, <4>3 DEF Begin
      <4> QED
        BY <4>1, <4>2, <4>3, <4>4, <1>a DEF HandleKnown, TypeOK
    <3>2. CASE call.op = "configure"
      BY <1>13, <3>2, <1>a, <1>b, <1>c, <1>d DEF Begin, HandleKnown, script
    <3>3. CASE call.op = "disconnect"
      BY <1>13, <3>3, <1>a, <1>b, <1>c, <1>d DEF Begin, HandleKnown, After, script
    <3> QED
      BY <3>1, <3>2, <3>3, <1>13, <1>b DEF Begin, At, CallMatches
  <2>5. ReadyHolds'
    BY <1>13, <1>a, <1>b, <1>c, <1>e DEF Begin, At, ReadyHolds, After, script, TypeOK,
        CallMatches
  <2>6. PassedReleased'
    BY <1>13, <1>a, <1>b, <1>c, <1>e, <1>f DEF Begin, At, PassedReleased
  <2>7. NothingLost'
    BY <1>13, <1>a, <1>b, <1>c, <1>d, <1>g DEF Begin, NothingLost, script
  <2>8. ActsReady'
    BY <1>13, <1>a, <1>b, <1>e, <1>h DEF Begin, ActsReady, script
  <2>9. CleanRelease'
    BY <1>13, <1>a, <1>b, <1>c, <1>f, <1>i DEF Begin, At, CleanRelease
  <2> QED
    BY <2>1, <2>2, <2>3, <2>4, <2>5, <2>6, <2>7, <2>8, <2>9 DEF IInv
<1>14. CASE Try
  <2>1. TypeOK'
    BY <1>14, <1>a, <1>b, Entering DEF Try, TypeOK, plugin, script, Calls
  <2>2. CallMatches'
    BY <1>14, <1>b DEF Try, At, CallMatches, Idle
  <2>3. Balanced'
    BY <1>14, <1>a, <1>b, <1>c DEF Try, At, Balanced, Inside, plugin, script, CallMatches
  <2>4. HandleKnown'
    BY <1>14, <1>a, <1>b, <1>c, <1>d DEF Try, At, HandleKnown, After, plugin, script
  <2>5. ReadyHolds'
    BY <1>14, <1>a, <1>b, <1>c, <1>e DEF Try, At, ReadyHolds, Inside, After, plugin, script
  <2>6. PassedReleased'
    BY <1>14, <1>a, <1>b, <1>c, <1>e, <1>f DEF Try, At, PassedReleased, plugin
  <2>7. NothingLost'
    BY <1>14, <1>a, <1>b, <1>c, <1>d, <1>g DEF Try, NothingLost, plugin, script
  <2>8. ActsReady'
    BY <1>14, <1>a, <1>b, <1>e, <1>h DEF Try, ActsReady, plugin, script
  <2>9. CleanRelease'
    BY <1>14, <1>a, <1>b, <1>c, <1>f, <1>i DEF Try, At, CleanRelease, plugin
  <2> QED
    BY <2>1, <2>2, <2>3, <2>4, <2>5, <2>6, <2>7, <2>8, <2>9 DEF IInv
<1>15. CASE MethodReturns
  <2>1. TypeOK'
    BY <1>15, <1>a, <1>b, Entering DEF MethodReturns, At, Completes, Open, Close, TypeOK,
        script, Calls
  <2>2. CallMatches'
    BY <1>15, <1>a, <1>b DEF MethodReturns, At, CallMatches, Idle
  <2>3. Balanced'
    BY <1>15, <1>a, <1>b, <1>c DEF MethodReturns, At, Completes, Balanced, Inside, script,
        CallMatches
  <2>4. HandleKnown'
    BY <1>15, <1>a, <1>b, <1>c, <1>d DEF MethodReturns, At, Completes, Open, Close,
        HandleKnown, script, TypeOK, CallMatches, Calls
  <2>5. ReadyHolds'
    BY <1>15, <1>a, <1>b, <1>c, <1>e DEF MethodReturns, At, Completes, Open, Close,
        ReadyHolds, Inside, script, TypeOK, CallMatches, Calls
  <2>6. PassedReleased'
    BY <1>15, <1>a, <1>b, <1>c, <1>e, <1>f DEF MethodReturns, At, Completes, Open, Close,
        PassedReleased, TypeOK
  <2>7. NothingLost'
    BY <1>15, <1>a, <1>b, <1>c, <1>d, <1>g DEF MethodReturns, At, Completes, Open, Close,
        NothingLost, HandleKnown, script, TypeOK
  <2>8. ActsReady'
    BY <1>15, <1>a, <1>b, <1>e, <1>h DEF MethodReturns, At, Completes, ActsReady,
        CallMatches
  <2>9. CleanRelease'
    BY <1>15, <1>a, <1>b, <1>c, <1>f, <1>i DEF MethodReturns, At, Completes, Open, Close,
        CleanRelease, CallMatches
  <2> QED
    BY <2>1, <2>2, <2>3, <2>4, <2>5, <2>6, <2>7, <2>8, <2>9 DEF IInv
<1>16. CASE MethodRaises
  <2>1. TypeOK'
    BY <1>16, <1>a, <1>b, Entering DEF MethodRaises, At, Raises, Completes, Open, Close,
        TypeOK, script, Calls
  <2>2. CallMatches'
    BY <1>16, <1>a, <1>b DEF MethodRaises, At, CallMatches, TypeOK, Idle, Calls
  <2>3. Balanced'
    BY <1>16, <1>a, <1>b, <1>c DEF MethodRaises, At, Raises, Completes, Balanced, Inside,
        script, CallMatches
  <2>4. HandleKnown'
    BY <1>16, <1>a, <1>b, <1>c, <1>d DEF MethodRaises, At, Raises, Completes, Open, Close,
        HandleKnown, After, script, TypeOK, Calls
  <2>5. ReadyHolds'
    BY <1>16, <1>a, <1>b, <1>c, <1>e DEF MethodRaises, At, Raises, Completes, Open, Close,
        ReadyHolds, Inside, After, script, TypeOK, Calls
  <2>6. PassedReleased'
    BY <1>16, <1>a, <1>b, <1>c, <1>e, <1>f DEF MethodRaises, At, Raises, Completes, Open,
        Close, PassedReleased, TypeOK
  <2>7. NothingLost'
    BY <1>16, <1>a, <1>b, <1>c, <1>d, <1>g DEF MethodRaises, At, Raises, Completes, Open,
        Close, NothingLost, HandleKnown, script, TypeOK
  <2>8. ActsReady'
    BY <1>16, <1>a, <1>b, <1>e, <1>h DEF MethodRaises, At, Raises, Completes, ActsReady,
        CallMatches
  <2>9. CleanRelease'
    BY <1>16, <1>a, <1>b, <1>c, <1>f, <1>i DEF MethodRaises, At, Raises, Completes, Open,
        Close, CleanRelease, CallMatches
  <2> QED
    BY <2>1, <2>2, <2>3, <2>4, <2>5, <2>6, <2>7, <2>8, <2>9 DEF IInv
<1>17. CASE Leave
  <2>1. TypeOK'
    <3>1. /\ attempted' \in [Plugins -> BOOLEAN] /\ connected' \in [Plugins -> BOOLEAN]
          /\ configured' \in [Plugins -> BOOLEAN]
      BY <1>17, <1>a, <1>b DEF Leave, TypeOK
    <3>2. depth' \in [Plugins -> Nat] /\ setUp' \in [Plugins -> Nat]
      BY <1>17, <1>a, <1>b, <1>c DEF Leave, At, Balanced, Inside, TypeOK, CallMatches
    <3>3. delay' \in SUBSET Plugins
      BY <1>17, <1>a, <1>b DEF Leave, script, TypeOK
    <3>4. held' \in [Plugins -> BOOLEAN] /\ lost' \in [Plugins -> BOOLEAN]
      BY <1>17, <1>a, <1>b DEF Leave, TypeOK
    <3>5. phase' \in Phases
      BY <1>17, <1>a, <1>b DEF Leave, Unwind, TypeOK, Phases
    <3>6. pos' \in 0..Count + 1
      BY <1>17, <1>a, <1>b DEF Leave, Unwind, TypeOK
    <3>7. call' \in Calls
      <4>1. CASE call' = Idle
        BY <4>1, Entering
      <4>2. CASE call' = [call EXCEPT !.step = "note"]
        BY <4>2, <1>a DEF TypeOK, Calls
      <4> QED
        BY <1>17, <4>1, <4>2 DEF Leave, Unwind
    <3>8. nested' \in BOOLEAN /\ traced' \in BOOLEAN /\ entered' \in BOOLEAN /\ broken' \in BOOLEAN
      BY <1>17, <1>a, <1>b DEF Leave, Unwind, script, TypeOK
    <3>9. run' \in Nat /\ stops' \in Nat
      BY <1>17, <1>a, <1>b DEF Leave, script, TypeOK
    <3> QED
      BY <3>1, <3>2, <3>3, <3>4, <3>5, <3>6, <3>7, <3>8, <3>9 DEF TypeOK
  <2>2. CallMatches'
    BY <1>17, <1>a, <1>b DEF Leave, At, Unwind, CallMatches, TypeOK, Idle, Calls
  <2>3. Balanced'
    <3>1. CASE call.raised
      BY <1>17, <3>1, <1>a, <1>b, <1>c DEF Leave, At, Unwind, Balanced, Inside, script,
          TypeOK, Idle
    <3>2. CASE ~call.raised
      <4>1. call' = [call EXCEPT !.step = "note"] /\ pos' = pos /\ UNCHANGED stops
        BY <1>17, <3>2 DEF Leave, script
      <4>2. depth' = [depth EXCEPT ![pos] = @ - 1] /\ pos \in Plugins /\ Inside
        BY <1>17, <1>b DEF Leave, At, Inside, CallMatches
      <4>3. ~Inside' /\ call'.outer = call.outer /\ call # Idle /\ call.step # "enter"
        BY <1>17, <4>1 DEF Leave, At, Inside, Idle
      <4>4. stops = 0 => \A p \in Plugins : depth'[p] = 0
        BY <4>2, <1>a, <1>c DEF Balanced, TypeOK
      <4> QED
        BY <4>1, <4>3, <4>4, <1>c DEF Balanced
    <3> QED
      BY <3>1, <3>2
  <2>4. HandleKnown'
    BY <1>17, <1>a, <1>b, <1>c, <1>d DEF Leave, At, Unwind, HandleKnown, After, script,
        TypeOK, Idle, Calls
  <2>5. ReadyHolds'
    BY <1>17, <1>a, <1>b, <1>c, <1>e DEF Leave, At, Unwind, ReadyHolds, Inside, After,
        script, TypeOK, Idle, Calls
  <2>6. PassedReleased'
    BY <1>17, <1>a, <1>b, <1>c, <1>e, <1>f DEF Leave, At, Unwind, PassedReleased
  <2>7. NothingLost'
    BY <1>17, <1>a, <1>b, <1>c, <1>d, <1>g DEF Leave, NothingLost, script
  <2>8. ActsReady'
    BY <1>17, <1>a, <1>b, <1>e, <1>h DEF Leave, Unwind, ActsReady, script
  <2>9. CleanRelease'
    BY <1>17, <1>a, <1>b, <1>c, <1>f, <1>i DEF Leave, At, Unwind, CleanRelease,
        PassedReleased, CallMatches
  <2> QED
    BY <2>1, <2>2, <2>3, <2>4, <2>5, <2>6, <2>7, <2>8, <2>9 DEF IInv
<1>18. CASE Note
  <2>1. TypeOK'
    <3>1. /\ attempted' \in [Plugins -> BOOLEAN] /\ connected' \in [Plugins -> BOOLEAN]
          /\ configured' \in [Plugins -> BOOLEAN]
      BY <1>18, <1>a, <1>b DEF Note, TypeOK
    <3>2. depth' \in [Plugins -> Nat] /\ setUp' \in [Plugins -> Nat]
      BY <1>18, <1>a, <1>b DEF Note, TypeOK
    <3>3. delay' \in SUBSET Plugins
      BY <1>18, <1>a, <1>b DEF Note, script, TypeOK
    <3>4. held' \in [Plugins -> BOOLEAN] /\ lost' \in [Plugins -> BOOLEAN]
      BY <1>18, <1>a, <1>b DEF Note, TypeOK
    <3>5. phase' \in Phases
      BY <1>18, <1>a, <1>b DEF Note, TypeOK, Phases
    <3>6. pos' \in 0..Count + 1
      BY <1>18, <1>a, <1>b DEF Note, At, CallMatches, Plugins
    <3>7. call' \in Calls
      <4>1. CASE nested
        BY <1>18, Entering DEF Note, Calls
      <4>2. CASE ~nested
        BY <1>18, <4>2, Entering DEF Note
      <4> QED
        BY <4>1, <4>2
    <3>8. nested' \in BOOLEAN /\ traced' \in BOOLEAN /\ entered' \in BOOLEAN /\ broken' \in BOOLEAN
      BY <1>18, <1>a, <1>b DEF Note, script, TypeOK
    <3>9. run' \in Nat /\ stops' \in Nat
      BY <1>18, <1>a, <1>b DEF Note, script, TypeOK
    <3> QED
      BY <3>1, <3>2, <3>3, <3>4, <3>5, <3>6, <3>7, <3>8, <3>9 DEF TypeOK
  <2>2. CallMatches'
    <3>1. CASE nested
      <4>1. call' = [op |-> "connect", step |-> "begin", outer |-> TRUE, raised |-> FALSE]
        BY <1>18, <3>1 DEF Note, Enter
      <4>2. phase' = phase /\ pos' = pos /\ ~nested'
        BY <1>18, <3>1 DEF Note
      <4>3. call # Idle /\ pos \in Plugins /\ phase \in {"connect", "reconfigure"}
        BY <3>1, <1>b DEF CallMatches
      <4> QED
        BY <4>1, <4>2, <4>3 DEF CallMatches, Idle
    <3>2. CASE ~nested /\ call.op = "connect"
      BY <1>18, <3>2, <1>a, <1>b DEF Note, Enter, CallMatches, Idle
    <3>3. CASE ~nested /\ call.op = "configure"
      BY <1>18, <3>3, <1>a, <1>b DEF Note, CallMatches, Idle
    <3>4. CASE ~nested /\ call.op = "disconnect"
      BY <1>18, <3>4, <1>a, <1>b DEF Note, CallMatches, Idle
    <3> QED
      BY <3>1, <3>2, <3>3, <3>4, <1>18, <1>b DEF Note, CallMatches
  <2>3. Balanced'
    <3>1. CASE nested
      BY <1>18, <3>1, <1>a, <1>b, <1>c DEF Note, At, Enter, Balanced, Inside, script,
          CallMatches
    <3>2. CASE ~nested /\ call.op = "connect"
      BY <1>18, <3>2, <1>a, <1>b, <1>c DEF Note, At, Enter, Balanced, Inside, script, Idle
    <3>3. CASE ~nested /\ call.op = "configure"
      BY <1>18, <3>3, <1>a, <1>b, <1>c DEF Note, At, Balanced, Inside, script, Idle
    <3>4. CASE ~nested /\ call.op = "disconnect"
      BY <1>18, <3>4, <1>a, <1>b, <1>c DEF Note, At, Balanced, Inside, script, Idle
    <3> QED
      BY <3>1, <3>2, <3>3, <3>4, <1>18, <1>b DEF Note, At, CallMatches
  <2>4. HandleKnown'
    <3>1. CASE nested
      BY <1>18, <3>1, <1>a, <1>b, <1>c, <1>d DEF Note, At, Enter, HandleKnown, After,
          script, TypeOK, CallMatches
    <3>2. CASE ~nested /\ call.op = "connect"
      BY <1>18, <3>2, <1>a, <1>b, <1>c, <1>d DEF Note, Enter, HandleKnown, script, Idle
    <3>3. CASE ~nested /\ call.op = "configure"
      BY <1>18, <3>3, <1>a, <1>b, <1>c, <1>d DEF Note, HandleKnown, script, Idle
    <3>4. CASE ~nested /\ call.op = "disconnect"
      BY <1>18, <3>4, <1>a, <1>b, <1>c, <1>d DEF Note, At, HandleKnown, After, script, Idle
    <3> QED
      BY <3>1, <3>2, <3>3, <3>4, <1>18, <1>b DEF Note, At, CallMatches
  <2>5. ReadyHolds'
    <3>1. CASE nested
      BY <1>18, <3>1, <1>a, <1>b, <1>c, <1>e DEF Note, At, Enter, ReadyHolds, After,
          script, TypeOK, Calls
    <3>2. CASE ~nested /\ call.op = "connect"
      BY <1>18, <3>2, <1>a, <1>b, <1>c, <1>e DEF Note, At, Enter, ReadyHolds, After,
          script, Idle
    <3>3. CASE ~nested /\ call.op = "configure"
      BY <1>18, <3>3, <1>a, <1>b, <1>c, <1>e DEF Note, At, ReadyHolds, script, TypeOK, Idle
    <3>4. CASE ~nested /\ call.op = "disconnect"
      BY <1>18, <3>4, <1>a, <1>b, <1>c, <1>e DEF Note, At, ReadyHolds, script, Idle
    <3> QED
      BY <3>1, <3>2, <3>3, <3>4, <1>18, <1>b DEF Note, At, CallMatches
  <2>6. PassedReleased'
    <3>1. CASE nested
      BY <1>18, <3>1, <1>a, <1>b, <1>c, <1>e, <1>f DEF Note, At, Enter, PassedReleased
    <3>2. CASE ~nested /\ call.op = "connect"
      BY <1>18, <3>2, <1>a, <1>b, <1>c, <1>e, <1>f DEF Note, At, Enter, PassedReleased,
          CallMatches
    <3>3. CASE ~nested /\ call.op = "configure"
      BY <1>18, <3>3, <1>a, <1>b, <1>c, <1>e, <1>f DEF Note, At, Enter, PassedReleased,
          CallMatches
    <3>4. CASE ~nested /\ call.op = "disconnect"
      BY <1>18, <3>4, <1>a, <1>b, <1>c, <1>e, <1>f DEF Note, At, Enter, PassedReleased,
          ReadyHolds, After, TypeOK, Plugins
    <3> QED
      BY <3>1, <3>2, <3>3, <3>4, <1>18, <1>b DEF Note, At, CallMatches
  <2>7. NothingLost'
    BY <1>18, <1>a, <1>b, <1>c, <1>d, <1>g DEF Note, NothingLost, script
  <2>8. ActsReady'
    BY <1>18, <1>a, <1>b, <1>e, <1>h DEF Note, ActsReady, script
  <2>9. CleanRelease'
    BY <1>18, <1>a, <1>b, <1>c, <1>f, <1>i DEF Note, At, Enter, CleanRelease
  <2> QED
    BY <2>1, <2>2, <2>3, <2>4, <2>5, <2>6, <2>7, <2>8, <2>9 DEF IInv
<1>19. CASE Stop
  <2>1. TypeOK'
    <3>1. /\ attempted' \in [Plugins -> BOOLEAN] /\ connected' \in [Plugins -> BOOLEAN]
          /\ configured' \in [Plugins -> BOOLEAN]
      BY <1>19, <1>a, <1>b DEF Stop, At, Raises, plugin, TypeOK
    <3>2. depth' \in [Plugins -> Nat] /\ setUp' \in [Plugins -> Nat]
      BY <1>19, <1>a, <1>b, <1>c DEF Stop, At, Raises, Completes, Open, Balanced, Inside,
          plugin, TypeOK, Phases
    <3>3. delay' \in SUBSET Plugins
      BY <1>19, <1>a, <1>b DEF Stop, At, Raises, TypeOK
    <3>4. held' \in [Plugins -> BOOLEAN] /\ lost' \in [Plugins -> BOOLEAN]
      BY <1>19, <1>a, <1>b DEF Stop, At, Raises, Completes, Open, Close, plugin, TypeOK
    <3>5. phase' \in Phases
      BY <1>19, <1>a, <1>b DEF Stop, At, Raises, Unwind, Phases
    <3>6. pos' \in 0..Count + 1
      BY <1>19, <1>a, <1>b DEF Stop, At, Raises, Unwind, TypeOK
    <3>7. call' \in Calls
      BY <1>19, <1>a, <1>b, Entering DEF Stop, At, Raises, Completes, Unwind
    <3>8. nested' \in BOOLEAN /\ traced' \in BOOLEAN /\ entered' \in BOOLEAN /\ broken' \in BOOLEAN
      BY <1>19, <1>a, <1>b DEF Stop, At, Raises, Unwind, TypeOK
    <3>9. run' \in Nat /\ stops' \in Nat
      BY <1>19, <1>a, <1>b DEF Stop, At, Raises, TypeOK
    <3> QED
      BY <3>1, <3>2, <3>3, <3>4, <3>5, <3>6, <3>7, <3>8, <3>9 DEF TypeOK
  <2>2. CallMatches'
    BY <1>19, <1>a, <1>b DEF Stop, At, Raises, Unwind, CallMatches, Idle
  <2>3. Balanced'
    BY <1>19, <1>a, <1>b, <1>c DEF Stop, At, Raises, Completes, Open, Unwind, Balanced,
        Inside, TypeOK, Idle
  <2>4. HandleKnown'
    BY <1>19, <1>a, <1>b, <1>c, <1>d DEF Stop, At, Raises, Completes, Open, HandleKnown,
        TypeOK
  <2>5. ReadyHolds'
    BY <1>19, <1>a, <1>b, <1>c, <1>e DEF Stop, At, Raises, Completes, Open, Close, Unwind,
        ReadyHolds, Inside, plugin, TypeOK, Idle
  <2>6. PassedReleased'
    BY <1>19, <1>a, <1>b, <1>c, <1>e, <1>f DEF Stop, At, Raises, Completes, Open, Close,
        Unwind, PassedReleased
  <2>7. NothingLost'
    BY <1>19, <1>a, <1>b, <1>c, <1>d, <1>g DEF Stop, At, Raises, Completes, Open,
        NothingLost, TypeOK
  <2>8. ActsReady'
    BY <1>19, <1>a, <1>b, <1>e, <1>h DEF Stop, At, Raises, Completes, Open, Unwind,
        ActsReady
  <2>9. CleanRelease'
    <3>1. phase' = "over" => ~entered' \/ broken'
      BY <1>19, <1>a, <1>f DEF Stop, Unwind, TypeOK, Phases, PassedReleased
    <3> QED
      BY <3>1 DEF CleanRelease
  <2> QED
    BY <2>1, <2>2, <2>3, <2>4, <2>5, <2>6, <2>7, <2>8, <2>9 DEF IInv
<1>20. CASE UNCHANGED vars
    BY <1>20, <1>a, <1>b, <1>c, <1>d, <1>e, <1>f, <1>g, <1>h, <1>i DEF vars, plugin,
        script, IInv, TypeOK, CallMatches, Balanced, HandleKnown, ReadyHolds,
       PassedReleased, NothingLost, ActsReady, CleanRelease, Inside, After, Idle, Plugins,
           Phases
<1> QED
    BY <1>1, <1>2, <1>3, <1>4, <1>5, <1>6, <1>7, <1>8, <1>9, <1>10, <1>11, <1>12, <1>13,
        <1>14, <1>15, <1>16, <1>17, <1>18, <1>19, <1>20 DEF Next, Statement, Wrapper

\* The inductive invariant holds in every reachable state.
THEOREM Invariant == Spec => []IInv
<1> QED
    BY InitInvariant, StepInvariant, PTL DEF Spec

\* The variables keep their types: the script, its plugins and the call in progress.
THEOREM TypeCorrect == Spec => []TypeOK
<1>1. IInv => TypeOK
    BY DEF IInv
<1> QED
    BY Invariant, <1>1, PTL

\* The setup phases of _generate_sequence_code and _lifecycle_call: a step runs only on a
\* plugin that holds its handle and was configured in this run, whatever failed before.
THEOREM ActsAreReady == Spec => []ActsReady
<1>1. IInv => ActsReady
    BY DEF IInv
<1> QED
    BY Invariant, <1>1, PTL

\* _lifecycle_call disconnects before it connects again: as long as nobody presses Stop, no
\* plugin opens a handle over one that is still open.
THEOREM NothingIsLost == Spec => []NothingLost
<1>1. IInv => NothingLost
    BY DEF IInv
<1> QED
    BY Invariant, <1>1, PTL

\* The finally clause of the generated script: a run that entered it and was not broken off
\* in it leaves no plugin with its handle.
THEOREM FinallyReleases == Spec => []CleanRelease
<1>1. IInv => CleanRelease
    BY DEF IInv
<1> QED
    BY Invariant, <1>1, PTL

-----------------------------------------------------------------------------
(***************************************************************************)
(* The display the first line of a script selects, for every set of        *)
(* displays and series and any number of scripts.  DisplayHost stands here *)
(* as an instance: its theorems assume what it assumes of its constants.   *)
(***************************************************************************)
\* What Append does to a sequence of requests or of displays.
LEMMA AppendItem ==
    ASSUME NEW S, NEW q \in Seq(S), NEW x \in S
    PROVE  /\ Append(q, x) \in Seq(S) /\ Len(Append(q, x)) = Len(q) + 1 /\ Len(q) \in Nat
           /\ \A k \in 1 .. Len(q) : Append(q, x)[k] = q[k]
           /\ Append(q, x)[Len(q) + 1] = x
OBVIOUS

\* What taking the first request leaves.
LEMMA TailItems ==
    ASSUME NEW S, NEW q \in Seq(S), q # <<>>
    PROVE  /\ Tail(q) \in Seq(S) /\ Len(Tail(q)) = Len(q) - 1 /\ Len(q) \in Nat /\ Len(q) > 0
           /\ Head(q) = q[1] /\ Head(q) \in S
           /\ \A k \in 1 .. (Len(q) - 1) : Tail(q)[k] = q[k + 1]
OBVIOUS

\* A replacement that begins for the user or for a tab: at once over, or in the reservation.
LEMMA HostBegins ==
    ASSUME Host!TypeOK,
           Host!SwitchToTab \/ \E f \in Displays : Host!UserSwitch(f)
    PROVE  /\ gui = "idle" /\ UNCHANGED <<done, refused, posted, cancelled>>
           /\ UNCHANGED <<factory, screen, styled, hidden, canon, asked, pend, owner>>
           /\ UNCHANGED <<wants, taken, worker, stop>>
           /\ dialog' \in {dialog, None}
           /\ \/ gui' = "idle" /\ job' = None /\ switching' = switching
              \/ /\ gui' = "reserved" /\ job' \in Host!Jobs /\ job'.by \in {"user", "tab"}
                 /\ switching' = TRUE
<1> USE DEF Host!TypeOK, Host!PlotTypes, Host!ReplacementTypes, Host!plots, Host!shown, Host!work,
            Host!Jobs
<1>1. CASE Host!SwitchToTab
  <2> DEFINE j == [by |-> "tab", script |-> 0, target |-> dialog, reset |-> TRUE]
  <2>1. /\ gui = "idle" /\ dialog # None /\ dialog' = None /\ Host!Start(j)
        /\ UNCHANGED <<factory, screen, styled, hidden, canon, asked, pend, owner>>
        /\ UNCHANGED <<posted, cancelled, wants, taken, worker, stop>>
      BY <1>1, Zenon DEF Host!SwitchToTab, Host!plots, Host!shown, Host!work
  <2>2. j \in Host!Jobs /\ j.by = "tab"
      BY <2>1
  <2> HIDE DEF j
  <2> QED
      BY <2>1, <2>2 DEF Host!Start, Host!Conclude
<1>2. ASSUME NEW f \in Displays, Host!UserSwitch(f)
      PROVE  /\ gui = "idle" /\ UNCHANGED <<done, refused, posted, cancelled>>
             /\ UNCHANGED <<factory, screen, styled, hidden, canon, asked, pend, owner>>
             /\ UNCHANGED <<wants, taken, worker, stop>>
             /\ dialog' \in {dialog, None}
             /\ \/ gui' = "idle" /\ job' = None /\ switching' = switching
                \/ /\ gui' = "reserved" /\ job' \in Host!Jobs /\ job'.by \in {"user", "tab"}
                   /\ switching' = TRUE
  <2>1. PICK reset \in BOOLEAN :
            Host!Start([by |-> "user", script |-> 0, target |-> f, reset |-> reset])
      BY <1>2 DEF Host!UserSwitch
  <2> QED
      BY <1>2, <2>1 DEF Host!UserSwitch, Host!Start, Host!Conclude
<1> QED
    BY <1>1, <1>2

\* The request at the head is answered, without an error only if it was given up or its
\* display is shown, or a replacement begins for it.
LEMMA HostHandles ==
    ASSUME Host!TypeOK, Host!RequestsInOrder, Host!HandleRequest
    PROVE  \E k \in Host!Scripts :
               /\ gui = "idle" /\ posted # <<>> /\ k = Head(posted) /\ posted' = Tail(posted)
               /\ k = posted[1] /\ 1 \in 1 .. Len(posted) /\ k <= taken
               /\ UNCHANGED <<factory, screen, styled, hidden, canon, asked, pend, owner>>
               /\ UNCHANGED <<wants, taken, worker, stop, dialog, cancelled>>
               /\ \/ /\ gui' = "idle" /\ job' = None /\ switching' = switching
                     /\ done' = done \cup {k}
                     /\ \/ refused' = refused \cup {k}
                        \/ refused' = refused /\ (k \in cancelled \/ factory = wants[k])
                  \/ /\ gui' = "reserved" /\ switching' = TRUE /\ UNCHANGED <<done, refused>>
                     /\ job' \in Host!Jobs /\ job'.by = "script" /\ job'.script = k
                     /\ job'.target = wants[k]
<1> USE DEF Host!TypeOK, Host!ScriptTypes
<1> DEFINE k == Head(posted)
           j == [by |-> "script", script |-> k, target |-> wants[k], reset |-> TRUE]
<1>1. /\ gui = "idle" /\ posted # <<>> /\ posted' = Tail(posted)
      /\ UNCHANGED <<factory, screen, styled, hidden, canon, asked, pend, owner>>
      /\ UNCHANGED <<wants, taken, worker, stop, dialog, cancelled>>
      /\ IF k \in cancelled THEN Host!Conclude(j, TRUE) /\ UNCHANGED switching
         ELSE Host!Start(j)
    BY Zenon DEF Host!HandleRequest, Host!plots, Host!shown, Host!work
<1>2. k \in Host!Scripts /\ k = posted[1] /\ 1 \in 1 .. Len(posted)
    BY <1>1, TailItems
<1>3. k <= taken
    BY <1>2 DEF Host!RequestsInOrder
<1>4. j \in Host!Jobs
  <2>1. k \in 1 .. Len(wants)
      BY <1>2, <1>3 DEF Host!Scripts
  <2>2. wants[k] \in Displays
      BY <2>1
  <2> QED
      BY <1>2, <2>2 DEF Host!Jobs
<1>5. j.by = "script" /\ j.script = k /\ j.target = wants[k]
    OBVIOUS
<1> HIDE DEF k, j
<1>6. \/ /\ gui' = "idle" /\ job' = None /\ switching' = switching
         /\ done' = done \cup {k}
         /\ \/ refused' = refused \cup {k}
            \/ refused' = refused /\ (k \in cancelled \/ factory = wants[k])
      \/ /\ gui' = "reserved" /\ switching' = TRUE /\ UNCHANGED <<done, refused>>
         /\ job' = j
    BY <1>1, <1>5 DEF Host!Start, Host!Conclude
<1> QED
    BY <1>1, <1>2, <1>3, <1>4, <1>5, <1>6 DEF k

\* A replacement ends: a script gets its answer, with an error if it failed.
LEMMA HostReleases ==
    ASSUME Host!Release
    PROVE  /\ gui \in {"committed", "failed"} /\ gui' = "idle" /\ job' = None /\ switching' = FALSE
           /\ UNCHANGED <<factory, screen, styled, hidden, canon, asked, pend, owner>>
           /\ UNCHANGED <<wants, taken, worker, stop, dialog, cancelled, posted>>
           /\ \/ job.by # "script" /\ UNCHANGED <<done, refused>>
              \/ /\ job.by = "script" /\ done' = done \cup {job.script}
                 /\ \/ refused' = refused \cup {job.script}
                    \/ refused' = refused /\ gui = "committed"
BY DEF Host!Release, Host!Conclude, Host!plots, Host!shown, Host!work

\* A plot, a replacement and its commit keep the types of what is plotted.
LEMMA HostPlotTypes ==
    ASSUME Host!HostAssumption, Host!IInv, [Host!Next]_(Host!vars)
    PROVE  Host!PlotTypes'
<1> USE DEF Host!HostAssumption
<1>1. CASE Host!Plot
    BY <1>1 DEF Host!Plot, Host!Over, Host!plots, Host!shown, Host!gui_, Host!requests,
       Host!IInv, Host!TypeOK, Host!PlotTypes, Host!ReplacementTypes, Host!JobInv,
       Host!Jobs, Host!Ops, Host!Data
<1>2. CASE Host!Draw
    BY <1>2 DEF Host!Draw, Host!Supported, Host!DrawSeries, Host!RemoveSeries, Host!shown,
       Host!gui_, Host!requests, Host!work, Host!IInv, Host!TypeOK, Host!PlotTypes,
       Host!ReplacementTypes, Host!JobInv, Host!Jobs, Host!Ops, Host!Data
<1>3. CASE Host!Swap
    BY <1>3 DEF Host!Swap, Host!Exported, Host!requests, Host!work, Host!IInv, Host!TypeOK,
       Host!PlotTypes, Host!ReplacementTypes, Host!JobInv, Host!Jobs, Host!Ops, Host!Data
<1>4. CASE Host!Commit
    BY <1>4 DEF Host!Commit, Host!shown, Host!requests, Host!work, Host!IInv, Host!TypeOK,
       Host!PlotTypes, Host!ReplacementTypes, Host!JobInv, Host!Jobs, Host!Ops, Host!Data
<1>5. CASE Host!Take \/ Host!Begin \/ Host!Compare \/ Host!Post
    BY <1>5 DEF Host!Take, Host!plots, Host!shown, Host!gui_, Host!requests, Host!Begin,
       Host!Compare, Host!Post, Host!IInv, Host!TypeOK, Host!PlotTypes,
       Host!ReplacementTypes, Host!JobInv, Host!Jobs, Host!Ops, Host!Data
<1>6. CASE Host!Interrupt \/ Host!Answered \/ Host!GiveUp \/ Host!Finish
    BY <1>6 DEF Host!Interrupt, Host!Over, Host!plots, Host!shown, Host!gui_,
       Host!requests, Host!Answered, Host!GiveUp, Host!Finish, Host!IInv, Host!TypeOK,
       Host!PlotTypes, Host!ReplacementTypes, Host!JobInv, Host!Jobs, Host!Ops, Host!Data
<1>7. CASE Host!HandleRequest \/ Host!Export \/ Host!Hydrate \/ Host!CheckAgain
    BY <1>7 DEF Host!HandleRequest, Host!Conclude, Host!Start, Host!plots, Host!shown,
       Host!work, Host!Export, Host!Step, Host!Ready, Host!requests, Host!Busy,
       Host!Hydrate, Host!CheckAgain, Host!IInv, Host!TypeOK, Host!PlotTypes,
       Host!ReplacementTypes, Host!JobInv, Host!Jobs, Host!Ops, Host!Data
<1>8. CASE Host!Release \/ Host!Stop \/ Host!KeepDisplay \/ Host!SwitchToTab
    BY <1>8 DEF Host!Release, Host!Conclude, Host!plots, Host!shown, Host!work, Host!Stop,
       Host!Running, Host!gui_, Host!requests, Host!KeepDisplay, Host!SwitchToTab,
       Host!Start, Host!IInv, Host!TypeOK, Host!PlotTypes, Host!ReplacementTypes,
       Host!JobInv, Host!Jobs, Host!Ops, Host!Data
<1>9. CASE (\E f \in Displays : Host!Submit(f)) \/ (\E f \in Displays : Host!UserSwitch(f))
           \/ (\E f \in Displays : Host!OpenTab(f))
    BY <1>9 DEF Host!Submit, Host!plots, Host!shown, Host!gui_, Host!requests,
       Host!UserSwitch, Host!Start, Host!work, Host!Conclude, Host!OpenTab, Host!Running,
       Host!IInv, Host!TypeOK, Host!PlotTypes, Host!ReplacementTypes, Host!JobInv,
       Host!Jobs, Host!Ops, Host!Data
<1>10. CASE UNCHANGED Host!vars
    BY <1>10 DEF Host!vars, Host!plots, Host!shown, Host!gui_, Host!requests, Host!work,
       Host!IInv, Host!TypeOK, Host!PlotTypes, Host!ReplacementTypes, Host!JobInv,
       Host!Jobs, Host!Ops, Host!Data
<1> QED
    BY <1>1, <1>2, <1>3, <1>4, <1>5, <1>6, <1>7, <1>8, <1>9, <1>10 DEF Host!Next,
       Host!Select, Host!Replace, Host!User

\* The GUI thread keeps the types of a replacement.
LEMMA HostReplacementTypes ==
    ASSUME Host!HostAssumption, Host!IInv, [Host!Next]_(Host!vars)
    PROVE  Host!ReplacementTypes'
<1> USE DEF Host!HostAssumption
<1>1. CASE Host!HandleRequest
  <2>1. Host!TypeOK /\ Host!RequestsInOrder
      BY DEF Host!IInv
  <2> QED
      BY <1>1, <2>1, HostHandles DEF Host!TypeOK, Host!ReplacementTypes
<1>2. CASE Host!Export
    BY <1>2 DEF Host!Export, Host!Step, Host!Ready, Host!plots, Host!shown, Host!requests,
       Host!work, Host!Busy, Host!IInv, Host!TypeOK, Host!ReplacementTypes,
       Host!ScriptTypes, Host!Jobs, Host!Scripts
<1>3. CASE Host!Hydrate
    BY <1>3 DEF Host!Hydrate, Host!Step, Host!plots, Host!shown, Host!requests, Host!work,
       Host!IInv, Host!TypeOK, Host!ReplacementTypes, Host!ScriptTypes, Host!Jobs,
       Host!Scripts
<1>4. CASE Host!CheckAgain
    BY <1>4 DEF Host!CheckAgain, Host!Step, Host!Ready, Host!plots, Host!shown,
       Host!requests, Host!work, Host!Busy, Host!IInv, Host!TypeOK, Host!ReplacementTypes,
       Host!ScriptTypes, Host!Jobs, Host!Scripts
<1>5. CASE Host!Swap
    BY <1>5 DEF Host!Swap, Host!Exported, Host!requests, Host!work, Host!IInv, Host!TypeOK,
       Host!ReplacementTypes, Host!ScriptTypes, Host!Jobs, Host!Scripts
<1>6. CASE Host!Commit
    BY <1>6 DEF Host!Commit, Host!shown, Host!requests, Host!work, Host!IInv, Host!TypeOK,
       Host!ReplacementTypes, Host!ScriptTypes, Host!Jobs, Host!Scripts
<1>7. CASE Host!Release
    BY <1>7 DEF Host!Release, Host!Conclude, Host!plots, Host!shown, Host!work, Host!IInv,
       Host!TypeOK, Host!ReplacementTypes, Host!ScriptTypes, Host!Jobs, Host!Scripts
<1>8. CASE Host!KeepDisplay
    BY <1>8 DEF Host!KeepDisplay, Host!plots, Host!shown, Host!gui_, Host!requests,
       Host!work, Host!IInv, Host!TypeOK, Host!ReplacementTypes, Host!ScriptTypes,
       Host!Jobs, Host!Scripts
<1>9. CASE Host!SwitchToTab
  <2>1. Host!TypeOK /\ Host!RequestsInOrder
      BY DEF Host!IInv
  <2> QED
      BY <1>9, <2>1, HostBegins DEF Host!TypeOK, Host!ReplacementTypes
<1>10. ASSUME NEW f \in Displays, Host!UserSwitch(f) PROVE Host!ReplacementTypes'
  <2>1. Host!TypeOK /\ Host!RequestsInOrder
      BY DEF Host!IInv
  <2> QED
      BY <1>10, <2>1, HostBegins DEF Host!TypeOK, Host!ReplacementTypes
<1>11. ASSUME NEW f \in Displays, Host!OpenTab(f) PROVE Host!ReplacementTypes'
    BY <1>11 DEF Host!OpenTab, Host!Running, Host!plots, Host!shown, Host!gui_,
       Host!requests, Host!work, Host!IInv, Host!TypeOK, Host!ReplacementTypes,
       Host!ScriptTypes, Host!Jobs, Host!Scripts
<1>12. CASE Host!Take \/ Host!Begin \/ Host!Compare \/ Host!Post
    BY <1>12 DEF Host!Take, Host!plots, Host!shown, Host!gui_, Host!requests, Host!Begin,
       Host!Compare, Host!Post, Host!IInv, Host!TypeOK, Host!ReplacementTypes,
       Host!ScriptTypes, Host!Jobs, Host!Scripts
<1>13. CASE Host!Interrupt \/ Host!Answered \/ Host!GiveUp \/ Host!Plot
    BY <1>13 DEF Host!Interrupt, Host!Over, Host!plots, Host!shown, Host!gui_,
       Host!requests, Host!Answered, Host!GiveUp, Host!Plot, Host!IInv, Host!TypeOK,
       Host!ReplacementTypes, Host!ScriptTypes, Host!Jobs, Host!Scripts
<1>14. CASE Host!Finish \/ Host!Draw \/ Host!Stop \/ (\E f \in Displays : Host!Submit(f))
    BY <1>14 DEF Host!Finish, Host!Over, Host!plots, Host!shown, Host!gui_, Host!requests,
       Host!Draw, Host!Supported, Host!DrawSeries, Host!RemoveSeries, Host!work, Host!Stop,
       Host!Running, Host!Submit, Host!IInv, Host!TypeOK, Host!ReplacementTypes,
       Host!ScriptTypes, Host!Jobs, Host!Scripts
<1>15. CASE UNCHANGED Host!vars
    BY <1>15 DEF Host!vars, Host!plots, Host!shown, Host!gui_, Host!requests, Host!work,
       Host!IInv, Host!TypeOK, Host!ReplacementTypes, Host!ScriptTypes, Host!Jobs,
       Host!Scripts
<1> QED
    BY <1>1, <1>2, <1>3, <1>4, <1>5, <1>6, <1>7, <1>8, <1>9, <1>10, <1>11, <1>12, <1>13,
       <1>14, <1>15 DEF Host!Next, Host!Select, Host!Replace, Host!User

\* The worker and the requests keep their types.
LEMMA HostScriptTypes ==
    ASSUME Host!HostAssumption, Host!IInv, [Host!Next]_(Host!vars)
    PROVE  Host!ScriptTypes'
<1> USE DEF Host!HostAssumption
<1>1. CASE Host!Take
    BY <1>1, TailItems, AppendItem DEF Host!Take, Host!plots, Host!shown, Host!gui_,
       Host!requests, Host!IInv, Host!TypeOK, Host!ScriptTypes, Host!ReplacementTypes,
       Host!JobInv, Host!Scripts
<1>2. CASE Host!Begin
    BY <1>2, TailItems, AppendItem DEF Host!Begin, Host!plots, Host!shown, Host!gui_,
       Host!requests, Host!IInv, Host!TypeOK, Host!ScriptTypes, Host!ReplacementTypes,
       Host!JobInv, Host!Scripts
<1>3. CASE Host!Compare
    BY <1>3, TailItems, AppendItem DEF Host!Compare, Host!plots, Host!shown, Host!gui_,
       Host!requests, Host!IInv, Host!TypeOK, Host!ScriptTypes, Host!ReplacementTypes,
       Host!JobInv, Host!Scripts
<1>4. CASE Host!Post
    BY <1>4, TailItems, AppendItem DEF Host!Post, Host!plots, Host!shown, Host!gui_,
       Host!IInv, Host!TypeOK, Host!ScriptTypes, Host!ReplacementTypes, Host!JobInv,
       Host!Scripts
<1>5. CASE Host!Interrupt
    BY <1>5, TailItems, AppendItem DEF Host!Interrupt, Host!Over, Host!plots, Host!shown,
       Host!gui_, Host!requests, Host!IInv, Host!TypeOK, Host!ScriptTypes,
       Host!ReplacementTypes, Host!JobInv, Host!Scripts
<1>6. CASE Host!Answered
    BY <1>6, TailItems, AppendItem DEF Host!Answered, Host!Over, Host!plots, Host!shown,
       Host!gui_, Host!requests, Host!IInv, Host!TypeOK, Host!ScriptTypes,
       Host!ReplacementTypes, Host!JobInv, Host!Scripts
<1>7. CASE Host!GiveUp
    BY <1>7, TailItems, AppendItem DEF Host!GiveUp, Host!Over, Host!plots, Host!shown,
       Host!gui_, Host!IInv, Host!TypeOK, Host!ScriptTypes, Host!ReplacementTypes,
       Host!JobInv, Host!Scripts
<1>8. CASE Host!Finish
    BY <1>8, TailItems, AppendItem DEF Host!Finish, Host!Over, Host!plots, Host!shown,
       Host!gui_, Host!requests, Host!IInv, Host!TypeOK, Host!ScriptTypes,
       Host!ReplacementTypes, Host!JobInv, Host!Scripts
<1>9. CASE Host!HandleRequest
  <2>1. Host!TypeOK /\ Host!RequestsInOrder /\ Host!ScriptTypes
      BY DEF Host!IInv, Host!TypeOK
  <2>2. PICK k \in Host!Scripts :
            /\ posted # <<>> /\ posted' = Tail(posted)
            /\ UNCHANGED <<wants, taken, worker, stop, cancelled>>
            /\ done' \in {done, done \cup {k}} /\ refused' \in {refused, refused \cup {k}}
            /\ refused' # refused => done' = done \cup {k}
      BY <1>9, <2>1, HostHandles
  <2>3. posted' \in Seq(Host!Scripts)
      BY <2>1, <2>2, TailItems DEF Host!ScriptTypes
  <2> QED
      BY <2>1, <2>2, <2>3 DEF Host!ScriptTypes
<1>10. CASE Host!Release
  <2>1. Host!TypeOK /\ Host!RequestsInOrder
      BY DEF Host!IInv
  <2> QED
      BY <1>10, <2>1, HostReleases DEF Host!IInv, Host!TypeOK, Host!ScriptTypes, Host!JobInv,
         Host!Jobs
<1>11. CASE Host!Stop
    BY <1>11, TailItems, AppendItem DEF Host!Stop, Host!Running, Host!plots, Host!shown,
       Host!gui_, Host!requests, Host!IInv, Host!TypeOK, Host!ScriptTypes,
       Host!ReplacementTypes, Host!JobInv, Host!Scripts
<1>12. CASE Host!SwitchToTab
    BY <1>12, TailItems, AppendItem DEF Host!SwitchToTab, Host!Start, Host!plots,
       Host!shown, Host!work, Host!Conclude, Host!IInv, Host!TypeOK, Host!ScriptTypes,
       Host!ReplacementTypes, Host!JobInv, Host!Scripts
<1>13. ASSUME NEW f \in Displays, Host!Submit(f) PROVE Host!ScriptTypes'
    BY <1>13, TailItems, AppendItem DEF Host!Submit, Host!plots, Host!shown, Host!gui_,
       Host!requests, Host!IInv, Host!TypeOK, Host!ScriptTypes, Host!ReplacementTypes,
       Host!JobInv, Host!Scripts
<1>14. ASSUME NEW f \in Displays, Host!UserSwitch(f) PROVE Host!ScriptTypes'
    BY <1>14, TailItems, AppendItem DEF Host!UserSwitch, Host!Start, Host!plots, Host!shown,
       Host!work, Host!Conclude, Host!IInv, Host!TypeOK, Host!ScriptTypes,
       Host!ReplacementTypes, Host!JobInv, Host!Scripts
<1>15. CASE Host!Plot \/ Host!Draw \/ Host!Export \/ Host!Hydrate
    BY <1>15, TailItems, AppendItem DEF Host!Plot, Host!Over, Host!plots, Host!shown,
       Host!gui_, Host!requests, Host!Draw, Host!Supported, Host!DrawSeries,
       Host!RemoveSeries, Host!work, Host!Export, Host!Step, Host!Ready, Host!Busy,
       Host!Hydrate, Host!IInv, Host!TypeOK, Host!ScriptTypes, Host!ReplacementTypes,
       Host!JobInv, Host!Scripts
<1>16. CASE Host!CheckAgain \/ Host!Swap \/ Host!Commit \/ Host!KeepDisplay
    BY <1>16, TailItems, AppendItem DEF Host!CheckAgain, Host!Step, Host!Ready, Host!plots,
       Host!shown, Host!requests, Host!work, Host!Busy, Host!Swap, Host!Exported,
       Host!Commit, Host!KeepDisplay, Host!gui_, Host!IInv, Host!TypeOK, Host!ScriptTypes,
       Host!ReplacementTypes, Host!JobInv, Host!Scripts
<1>17. CASE (\E f \in Displays : Host!OpenTab(f))
    BY <1>17, TailItems, AppendItem DEF Host!OpenTab, Host!Running, Host!plots, Host!shown,
       Host!gui_, Host!requests, Host!work, Host!IInv, Host!TypeOK, Host!ScriptTypes,
       Host!ReplacementTypes, Host!JobInv, Host!Scripts
<1>18. CASE UNCHANGED Host!vars
    BY <1>18, TailItems, AppendItem DEF Host!vars, Host!plots, Host!shown, Host!gui_,
       Host!requests, Host!work, Host!IInv, Host!TypeOK, Host!ScriptTypes,
       Host!ReplacementTypes, Host!JobInv, Host!Scripts
<1> QED
    BY <1>1, <1>2, <1>3, <1>4, <1>5, <1>6, <1>7, <1>8, <1>9, <1>10, <1>11, <1>12, <1>13,
       <1>14, <1>15, <1>16, <1>17, <1>18 DEF Host!Next, Host!Select, Host!Replace, Host!User

\* Swap and commit together, and every draw, keep what is plotted and its styles.
LEMMA HostPlots ==
    ASSUME Host!HostAssumption, Host!IInv, [Host!Next]_(Host!vars)
    PROVE  Host!PlotsKept'
<1> USE DEF Host!HostAssumption
<1>1. CASE Host!Draw
    BY <1>1 DEF Host!Draw, Host!Supported, Host!DrawSeries, Host!RemoveSeries, Host!shown,
       Host!gui_, Host!requests, Host!work, Host!IInv, Host!TypeOK, Host!ReplacementTypes,
       Host!PlotsKept
<1>2. CASE Host!HandleRequest
    BY <1>2 DEF Host!HandleRequest, Host!Conclude, Host!Start, Host!plots, Host!shown,
       Host!work, Host!IInv, Host!TypeOK, Host!ReplacementTypes, Host!PlotsKept
<1>3. CASE Host!Export
    BY <1>3 DEF Host!Export, Host!Step, Host!Ready, Host!plots, Host!shown, Host!requests,
       Host!work, Host!Busy, Host!IInv, Host!TypeOK, Host!ReplacementTypes, Host!PlotsKept
<1>4. CASE Host!Hydrate
    BY <1>4 DEF Host!Hydrate, Host!Step, Host!plots, Host!shown, Host!requests, Host!work,
       Host!IInv, Host!TypeOK, Host!ReplacementTypes, Host!PlotsKept
<1>5. CASE Host!CheckAgain
    BY <1>5 DEF Host!CheckAgain, Host!Step, Host!Ready, Host!plots, Host!shown,
       Host!requests, Host!work, Host!Busy, Host!IInv, Host!TypeOK, Host!ReplacementTypes,
       Host!PlotsKept
<1>6. CASE Host!Swap
    BY <1>6 DEF Host!Swap, Host!Exported, Host!requests, Host!work, Host!IInv, Host!TypeOK,
       Host!ReplacementTypes, Host!PlotsKept
<1>7. CASE Host!Commit
    BY <1>7 DEF Host!Commit, Host!shown, Host!requests, Host!work, Host!IInv, Host!TypeOK,
       Host!ReplacementTypes, Host!PlotsKept
<1>8. CASE Host!Release
    BY <1>8 DEF Host!Release, Host!Conclude, Host!plots, Host!shown, Host!work, Host!IInv,
       Host!TypeOK, Host!ReplacementTypes, Host!PlotsKept
<1>9. CASE Host!SwitchToTab
    BY <1>9 DEF Host!SwitchToTab, Host!Start, Host!plots, Host!shown, Host!work,
       Host!Conclude, Host!IInv, Host!TypeOK, Host!ReplacementTypes, Host!PlotsKept
<1>10. ASSUME NEW f \in Displays, Host!UserSwitch(f) PROVE Host!PlotsKept'
    BY <1>10 DEF Host!UserSwitch, Host!Start, Host!plots, Host!shown, Host!work,
       Host!Conclude, Host!IInv, Host!TypeOK, Host!ReplacementTypes, Host!PlotsKept
<1>11. CASE Host!Take \/ Host!Begin \/ Host!Compare \/ Host!Post
    BY <1>11 DEF Host!Take, Host!plots, Host!shown, Host!gui_, Host!requests, Host!Begin,
       Host!Compare, Host!Post, Host!IInv, Host!TypeOK, Host!ReplacementTypes,
       Host!PlotsKept
<1>12. CASE Host!Interrupt \/ Host!Answered \/ Host!GiveUp \/ Host!Plot
    BY <1>12 DEF Host!Interrupt, Host!Over, Host!plots, Host!shown, Host!gui_,
       Host!requests, Host!Answered, Host!GiveUp, Host!Plot, Host!IInv, Host!TypeOK,
       Host!ReplacementTypes, Host!PlotsKept
<1>13. CASE Host!Finish \/ Host!Stop \/ Host!KeepDisplay \/ (\E f \in Displays : Host!Submit(f))
    BY <1>13 DEF Host!Finish, Host!Over, Host!plots, Host!shown, Host!gui_, Host!requests,
       Host!Stop, Host!Running, Host!KeepDisplay, Host!work, Host!Submit, Host!IInv,
       Host!TypeOK, Host!ReplacementTypes, Host!PlotsKept
<1>14. CASE (\E f \in Displays : Host!OpenTab(f))
    BY <1>14 DEF Host!OpenTab, Host!Running, Host!plots, Host!shown, Host!gui_,
       Host!requests, Host!work, Host!IInv, Host!TypeOK, Host!ReplacementTypes,
       Host!PlotsKept
<1>15. CASE UNCHANGED Host!vars
    BY <1>15 DEF Host!vars, Host!plots, Host!shown, Host!gui_, Host!requests, Host!work,
       Host!IInv, Host!TypeOK, Host!ReplacementTypes, Host!PlotsKept
<1> QED
    BY <1>1, <1>2, <1>3, <1>4, <1>5, <1>6, <1>7, <1>8, <1>9, <1>10, <1>11, <1>12, <1>13,
       <1>14, <1>15 DEF Host!Next, Host!Select, Host!Replace, Host!User

\* Requests enter behind those of the scripts before and leave from the front.
LEMMA HostOrder ==
    ASSUME Host!HostAssumption, Host!IInv, [Host!Next]_(Host!vars)
    PROVE  Host!RequestsInOrder'
<1> USE DEF Host!HostAssumption
<1>1. CASE Host!Take
    BY <1>1, TailItems, AppendItem DEF Host!Take, Host!plots, Host!shown, Host!gui_,
       Host!requests, Host!IInv, Host!TypeOK, Host!ReplacementTypes, Host!ScriptTypes,
       Host!Scripts, Host!ForScript, Host!JobInv, Host!RequestsInOrder, Host!RequestsOfTaken
<1>2. CASE Host!Begin
    BY <1>2, TailItems, AppendItem DEF Host!Begin, Host!plots, Host!shown, Host!gui_,
       Host!requests, Host!IInv, Host!TypeOK, Host!ReplacementTypes, Host!ScriptTypes,
       Host!Scripts, Host!ForScript, Host!JobInv, Host!RequestsInOrder, Host!RequestsOfTaken
<1>3. CASE Host!Compare
    BY <1>3, TailItems, AppendItem DEF Host!Compare, Host!plots, Host!shown, Host!gui_,
       Host!requests, Host!IInv, Host!TypeOK, Host!ReplacementTypes, Host!ScriptTypes,
       Host!Scripts, Host!ForScript, Host!JobInv, Host!RequestsInOrder, Host!RequestsOfTaken
<1>4. CASE Host!Post
    BY <1>4, TailItems, AppendItem DEF Host!Post, Host!plots, Host!shown, Host!gui_,
       Host!IInv, Host!TypeOK, Host!ReplacementTypes, Host!ScriptTypes, Host!Scripts,
       Host!ForScript, Host!JobInv, Host!RequestsInOrder, Host!RequestsOfTaken
<1>5. CASE Host!Interrupt
    BY <1>5, TailItems, AppendItem DEF Host!Interrupt, Host!Over, Host!plots, Host!shown,
       Host!gui_, Host!requests, Host!IInv, Host!TypeOK, Host!ReplacementTypes,
       Host!ScriptTypes, Host!Scripts, Host!ForScript, Host!JobInv, Host!RequestsInOrder,
       Host!RequestsOfTaken
<1>6. CASE Host!Answered
    BY <1>6, TailItems, AppendItem DEF Host!Answered, Host!Over, Host!plots, Host!shown,
       Host!gui_, Host!requests, Host!IInv, Host!TypeOK, Host!ReplacementTypes,
       Host!ScriptTypes, Host!Scripts, Host!ForScript, Host!JobInv, Host!RequestsInOrder,
       Host!RequestsOfTaken
<1>7. CASE Host!GiveUp
    BY <1>7, TailItems, AppendItem DEF Host!GiveUp, Host!Over, Host!plots, Host!shown,
       Host!gui_, Host!IInv, Host!TypeOK, Host!ReplacementTypes, Host!ScriptTypes,
       Host!Scripts, Host!ForScript, Host!JobInv, Host!RequestsInOrder, Host!RequestsOfTaken
<1>8. CASE Host!Finish
    BY <1>8, TailItems, AppendItem DEF Host!Finish, Host!Over, Host!plots, Host!shown,
       Host!gui_, Host!requests, Host!IInv, Host!TypeOK, Host!ReplacementTypes,
       Host!ScriptTypes, Host!Scripts, Host!ForScript, Host!JobInv, Host!RequestsInOrder,
       Host!RequestsOfTaken
<1>9. CASE Host!HandleRequest
  <2>1. Host!TypeOK /\ Host!ScriptTypes /\ Host!RequestsInOrder
      BY DEF Host!IInv, Host!TypeOK
  <2>2. PICK k \in Host!Scripts :
            /\ posted # <<>> /\ posted' = Tail(posted) /\ k = posted[1] /\ k <= taken
            /\ UNCHANGED <<wants, taken, worker, stop, cancelled>>
            /\ \/ gui' = "idle" /\ done' = done \cup {k}
               \/ gui' = "reserved" /\ done' = done /\ job'.script = k
      BY <1>9, <2>1, HostHandles
  <2>3. /\ Len(posted) \in Nat /\ Len(posted) > 0 /\ Len(posted') = Len(posted) - 1
        /\ \A i \in 1 .. Len(posted') : posted'[i] = posted[i + 1] /\ i + 1 \in 1 .. Len(posted)
        /\ 1 \in 1 .. Len(posted)
      BY <2>1, <2>2, TailItems DEF Host!ScriptTypes
  <2>4. \A i \in 1 .. Len(posted') :
            /\ posted'[i] <= taken' /\ k < posted'[i]
            /\ \A q \in done : q < posted'[i]
            /\ \A j \in 1 .. Len(posted') : i < j => posted'[i] < posted'[j]
    <3> SUFFICES ASSUME NEW i \in 1 .. Len(posted')
                 PROVE  /\ posted'[i] <= taken' /\ k < posted'[i]
                        /\ \A q \in done : q < posted'[i]
                        /\ \A j \in 1 .. Len(posted') : i < j => posted'[i] < posted'[j]
        OBVIOUS
    <3>1. posted'[i] = posted[i + 1] /\ i + 1 \in 1 .. Len(posted) /\ 1 < i + 1
        BY <2>3
    <3>2. posted[i + 1] <= taken /\ posted[1] < posted[i + 1]
        BY <2>1, <2>3, <3>1 DEF Host!RequestsInOrder
    <3>3. \A q \in done : q < posted[i + 1]
        BY <2>1, <3>1 DEF Host!RequestsInOrder
    <3>4. ASSUME NEW j \in 1 .. Len(posted'), i < j PROVE posted'[i] < posted'[j]
      <4>1. posted'[j] = posted[j + 1] /\ j + 1 \in 1 .. Len(posted) /\ i + 1 < j + 1
          BY <2>3, <3>4
      <4> QED
          BY <2>1, <3>1, <4>1 DEF Host!RequestsInOrder
    <3> QED
        BY <2>2, <3>1, <3>2, <3>3, <3>4
  <2>5. k \notin done /\ \A q \in done : q < k
      BY <2>1, <2>2, <2>3 DEF Host!RequestsInOrder, Host!ScriptTypes, Host!Scripts
  <2>6. \A q \in done' \cup cancelled' : q <= taken'
      BY <2>1, <2>2 DEF Host!RequestsInOrder
  <2> QED
      BY <2>2, <2>4, <2>5, <2>6 DEF Host!RequestsInOrder, Host!ForScript
<1>10. CASE Host!Export
    BY <1>10, TailItems, AppendItem DEF Host!Export, Host!Step, Host!Ready, Host!plots,
       Host!shown, Host!requests, Host!work, Host!Busy, Host!IInv, Host!TypeOK,
       Host!ReplacementTypes, Host!ScriptTypes, Host!Scripts, Host!ForScript, Host!JobInv,
       Host!RequestsInOrder, Host!RequestsOfTaken
<1>11. CASE Host!Hydrate
  <2>1. Host!RequestsInOrder
      BY DEF Host!IInv
  <2>2. /\ gui = "hydrating" /\ gui' # "idle"
        /\ UNCHANGED <<job, posted, done, cancelled, taken>>
      BY <1>11 DEF Host!Hydrate, Host!Step, Host!requests, Host!work
  <2> QED
      BY <2>1, <2>2 DEF Host!RequestsInOrder, Host!ForScript
<1>12. CASE Host!CheckAgain
    BY <1>12, TailItems, AppendItem DEF Host!CheckAgain, Host!Step, Host!Ready, Host!plots,
       Host!shown, Host!requests, Host!work, Host!Busy, Host!IInv, Host!TypeOK,
       Host!ReplacementTypes, Host!ScriptTypes, Host!Scripts, Host!ForScript, Host!JobInv,
       Host!RequestsInOrder, Host!RequestsOfTaken
<1>13. CASE Host!Swap
    BY <1>13, TailItems, AppendItem DEF Host!Swap, Host!Exported, Host!requests, Host!work,
       Host!IInv, Host!TypeOK, Host!ReplacementTypes, Host!ScriptTypes, Host!Scripts,
       Host!ForScript, Host!JobInv, Host!RequestsInOrder, Host!RequestsOfTaken
<1>14. CASE Host!Commit
    BY <1>14, TailItems, AppendItem DEF Host!Commit, Host!shown, Host!requests, Host!work,
       Host!IInv, Host!TypeOK, Host!ReplacementTypes, Host!ScriptTypes, Host!Scripts,
       Host!ForScript, Host!JobInv, Host!RequestsInOrder, Host!RequestsOfTaken
<1>15. CASE Host!Release
  <2>1. Host!RequestsInOrder /\ Host!JobInv
      BY DEF Host!IInv
  <2>2. /\ gui # "idle" /\ gui' = "idle" /\ UNCHANGED <<posted, cancelled, taken>>
        /\ \/ done' = done
           \/ /\ job.by = "script" /\ job.script \in Host!Scripts
              /\ done' = done \cup {job.script}
      BY <1>15, <2>1, HostReleases DEF Host!JobInv
  <2>3. job.by = "script" /\ job.script \in Host!Scripts
        => /\ job.script <= taken
           /\ \A i \in 1 .. Len(posted) : job.script < posted[i]
      BY <2>1, <2>2 DEF Host!RequestsInOrder, Host!ForScript
  <2> QED
      BY <2>1, <2>2, <2>3 DEF Host!RequestsInOrder, Host!ForScript
<1>16. CASE Host!Stop
    BY <1>16, TailItems, AppendItem DEF Host!Stop, Host!Running, Host!plots, Host!shown,
       Host!gui_, Host!requests, Host!IInv, Host!TypeOK, Host!ReplacementTypes,
       Host!ScriptTypes, Host!Scripts, Host!ForScript, Host!JobInv, Host!RequestsInOrder,
       Host!RequestsOfTaken
<1>17. CASE Host!KeepDisplay
    BY <1>17, TailItems, AppendItem DEF Host!KeepDisplay, Host!plots, Host!shown, Host!gui_,
       Host!requests, Host!work, Host!IInv, Host!TypeOK, Host!ReplacementTypes,
       Host!ScriptTypes, Host!Scripts, Host!ForScript, Host!JobInv, Host!RequestsInOrder,
       Host!RequestsOfTaken
<1>18. CASE Host!SwitchToTab
  <2>1. Host!TypeOK /\ Host!RequestsInOrder
      BY DEF Host!IInv
  <2> QED
      BY <1>18, <2>1, HostBegins DEF Host!IInv, Host!ForScript, Host!RequestsInOrder
<1>19. ASSUME NEW f \in Displays, Host!Submit(f) PROVE Host!RequestsInOrder'
    BY <1>19, TailItems, AppendItem DEF Host!Submit, Host!plots, Host!shown, Host!gui_,
       Host!requests, Host!IInv, Host!TypeOK, Host!ReplacementTypes, Host!ScriptTypes,
       Host!Scripts, Host!ForScript, Host!JobInv, Host!RequestsInOrder, Host!RequestsOfTaken
<1>20. ASSUME NEW f \in Displays, Host!UserSwitch(f) PROVE Host!RequestsInOrder'
  <2>1. Host!TypeOK /\ Host!RequestsInOrder
      BY DEF Host!IInv
  <2> QED
      BY <1>20, <2>1, HostBegins DEF Host!IInv, Host!ForScript, Host!RequestsInOrder
<1>21. ASSUME NEW f \in Displays, Host!OpenTab(f) PROVE Host!RequestsInOrder'
    BY <1>21, TailItems, AppendItem DEF Host!OpenTab, Host!Running, Host!plots, Host!shown,
       Host!gui_, Host!requests, Host!work, Host!IInv, Host!TypeOK, Host!ReplacementTypes,
       Host!ScriptTypes, Host!Scripts, Host!ForScript, Host!JobInv, Host!RequestsInOrder,
       Host!RequestsOfTaken
<1>22. CASE Host!Plot \/ Host!Draw
    BY <1>22, TailItems, AppendItem DEF Host!Plot, Host!Over, Host!plots, Host!shown,
       Host!gui_, Host!requests, Host!Draw, Host!Supported, Host!DrawSeries,
       Host!RemoveSeries, Host!work, Host!IInv, Host!TypeOK, Host!ReplacementTypes,
       Host!ScriptTypes, Host!Scripts, Host!ForScript, Host!JobInv, Host!RequestsInOrder,
       Host!RequestsOfTaken
<1>23. CASE UNCHANGED Host!vars
    BY <1>23, TailItems, AppendItem DEF Host!vars, Host!plots, Host!shown, Host!gui_,
       Host!requests, Host!work, Host!IInv, Host!TypeOK, Host!ReplacementTypes,
       Host!ScriptTypes, Host!Scripts, Host!ForScript, Host!JobInv, Host!RequestsInOrder,
       Host!RequestsOfTaken
<1> QED
    BY <1>1, <1>2, <1>3, <1>4, <1>5, <1>6, <1>7, <1>8, <1>9, <1>10, <1>11, <1>12, <1>13,
       <1>14, <1>15, <1>16, <1>17, <1>18, <1>19, <1>20, <1>21, <1>22, <1>23 DEF Host!Next,
       Host!Select, Host!Replace, Host!User

\* A script asks once, and one that gives its request up is over.
LEMMA HostRequests ==
    ASSUME Host!HostAssumption, Host!IInv, [Host!Next]_(Host!vars)
    PROVE  Host!RequestsOfTaken'
<1> USE DEF Host!HostAssumption
<1>1. CASE Host!Take
    BY <1>1, TailItems, AppendItem DEF Host!Take, Host!plots, Host!shown, Host!gui_,
       Host!requests, Host!IInv, Host!TypeOK, Host!ReplacementTypes, Host!ScriptTypes,
       Host!Scripts, Host!ForScript, Host!JobInv, Host!RequestsInOrder, Host!RequestsOfTaken
<1>2. CASE Host!Begin
    BY <1>2, TailItems, AppendItem DEF Host!Begin, Host!plots, Host!shown, Host!gui_,
       Host!requests, Host!IInv, Host!TypeOK, Host!ReplacementTypes, Host!ScriptTypes,
       Host!Scripts, Host!ForScript, Host!JobInv, Host!RequestsInOrder, Host!RequestsOfTaken
<1>3. CASE Host!Compare
    BY <1>3, TailItems, AppendItem DEF Host!Compare, Host!plots, Host!shown, Host!gui_,
       Host!requests, Host!IInv, Host!TypeOK, Host!ReplacementTypes, Host!ScriptTypes,
       Host!Scripts, Host!ForScript, Host!JobInv, Host!RequestsInOrder, Host!RequestsOfTaken
<1>4. CASE Host!Post
    BY <1>4, TailItems, AppendItem DEF Host!Post, Host!plots, Host!shown, Host!gui_,
       Host!IInv, Host!TypeOK, Host!ReplacementTypes, Host!ScriptTypes, Host!Scripts,
       Host!ForScript, Host!JobInv, Host!RequestsInOrder, Host!RequestsOfTaken
<1>5. CASE Host!Interrupt
    BY <1>5, TailItems, AppendItem DEF Host!Interrupt, Host!Over, Host!plots, Host!shown,
       Host!gui_, Host!requests, Host!IInv, Host!TypeOK, Host!ReplacementTypes,
       Host!ScriptTypes, Host!Scripts, Host!ForScript, Host!JobInv, Host!RequestsInOrder,
       Host!RequestsOfTaken
<1>6. CASE Host!Answered
    BY <1>6, TailItems, AppendItem DEF Host!Answered, Host!Over, Host!plots, Host!shown,
       Host!gui_, Host!requests, Host!IInv, Host!TypeOK, Host!ReplacementTypes,
       Host!ScriptTypes, Host!Scripts, Host!ForScript, Host!JobInv, Host!RequestsInOrder,
       Host!RequestsOfTaken
<1>7. CASE Host!GiveUp
    BY <1>7, TailItems, AppendItem DEF Host!GiveUp, Host!Over, Host!plots, Host!shown,
       Host!gui_, Host!IInv, Host!TypeOK, Host!ReplacementTypes, Host!ScriptTypes,
       Host!Scripts, Host!ForScript, Host!JobInv, Host!RequestsInOrder, Host!RequestsOfTaken
<1>8. CASE Host!Finish
    BY <1>8, TailItems, AppendItem DEF Host!Finish, Host!Over, Host!plots, Host!shown,
       Host!gui_, Host!requests, Host!IInv, Host!TypeOK, Host!ReplacementTypes,
       Host!ScriptTypes, Host!Scripts, Host!ForScript, Host!JobInv, Host!RequestsInOrder,
       Host!RequestsOfTaken
<1>9. CASE Host!HandleRequest
    BY <1>9, TailItems, AppendItem DEF Host!HandleRequest, Host!Conclude, Host!Start,
       Host!plots, Host!shown, Host!work, Host!IInv, Host!TypeOK, Host!ReplacementTypes,
       Host!ScriptTypes, Host!Scripts, Host!ForScript, Host!JobInv, Host!RequestsInOrder,
       Host!RequestsOfTaken
<1>10. CASE Host!Export
    BY <1>10, TailItems, AppendItem DEF Host!Export, Host!Step, Host!Ready, Host!plots,
       Host!shown, Host!requests, Host!work, Host!Busy, Host!IInv, Host!TypeOK,
       Host!ReplacementTypes, Host!ScriptTypes, Host!Scripts, Host!ForScript, Host!JobInv,
       Host!RequestsInOrder, Host!RequestsOfTaken
<1>11. CASE Host!Hydrate
    BY <1>11, TailItems, AppendItem DEF Host!Hydrate, Host!Step, Host!plots, Host!shown,
       Host!requests, Host!work, Host!IInv, Host!TypeOK, Host!ReplacementTypes,
       Host!ScriptTypes, Host!Scripts, Host!ForScript, Host!JobInv, Host!RequestsInOrder,
       Host!RequestsOfTaken
<1>12. CASE Host!CheckAgain
    BY <1>12, TailItems, AppendItem DEF Host!CheckAgain, Host!Step, Host!Ready, Host!plots,
       Host!shown, Host!requests, Host!work, Host!Busy, Host!IInv, Host!TypeOK,
       Host!ReplacementTypes, Host!ScriptTypes, Host!Scripts, Host!ForScript, Host!JobInv,
       Host!RequestsInOrder, Host!RequestsOfTaken
<1>13. CASE Host!Swap
    BY <1>13, TailItems, AppendItem DEF Host!Swap, Host!Exported, Host!requests, Host!work,
       Host!IInv, Host!TypeOK, Host!ReplacementTypes, Host!ScriptTypes, Host!Scripts,
       Host!ForScript, Host!JobInv, Host!RequestsInOrder, Host!RequestsOfTaken
<1>14. CASE Host!Commit
    BY <1>14, TailItems, AppendItem DEF Host!Commit, Host!shown, Host!requests, Host!work,
       Host!IInv, Host!TypeOK, Host!ReplacementTypes, Host!ScriptTypes, Host!Scripts,
       Host!ForScript, Host!JobInv, Host!RequestsInOrder, Host!RequestsOfTaken
<1>15. CASE Host!Release
    BY <1>15, TailItems, AppendItem DEF Host!Release, Host!Conclude, Host!plots, Host!shown,
       Host!work, Host!IInv, Host!TypeOK, Host!ReplacementTypes, Host!ScriptTypes,
       Host!Scripts, Host!ForScript, Host!JobInv, Host!RequestsInOrder, Host!RequestsOfTaken
<1>16. CASE Host!Stop
    BY <1>16, TailItems, AppendItem DEF Host!Stop, Host!Running, Host!plots, Host!shown,
       Host!gui_, Host!requests, Host!IInv, Host!TypeOK, Host!ReplacementTypes,
       Host!ScriptTypes, Host!Scripts, Host!ForScript, Host!JobInv, Host!RequestsInOrder,
       Host!RequestsOfTaken
<1>17. CASE Host!KeepDisplay
    BY <1>17, TailItems, AppendItem DEF Host!KeepDisplay, Host!plots, Host!shown, Host!gui_,
       Host!requests, Host!work, Host!IInv, Host!TypeOK, Host!ReplacementTypes,
       Host!ScriptTypes, Host!Scripts, Host!ForScript, Host!JobInv, Host!RequestsInOrder,
       Host!RequestsOfTaken
<1>18. CASE Host!SwitchToTab
  <2>1. Host!TypeOK /\ Host!RequestsInOrder
      BY DEF Host!IInv
  <2> QED
      BY <1>18, <2>1, HostBegins DEF Host!IInv, Host!ForScript, Host!RequestsOfTaken
<1>19. ASSUME NEW f \in Displays, Host!Submit(f) PROVE Host!RequestsOfTaken'
    BY <1>19, TailItems, AppendItem DEF Host!Submit, Host!plots, Host!shown, Host!gui_,
       Host!requests, Host!IInv, Host!TypeOK, Host!ReplacementTypes, Host!ScriptTypes,
       Host!Scripts, Host!ForScript, Host!JobInv, Host!RequestsInOrder, Host!RequestsOfTaken
<1>20. ASSUME NEW f \in Displays, Host!UserSwitch(f) PROVE Host!RequestsOfTaken'
  <2>1. Host!TypeOK /\ Host!RequestsInOrder
      BY DEF Host!IInv
  <2> QED
      BY <1>20, <2>1, HostBegins DEF Host!IInv, Host!ForScript, Host!RequestsOfTaken
<1>21. ASSUME NEW f \in Displays, Host!OpenTab(f) PROVE Host!RequestsOfTaken'
    BY <1>21, TailItems, AppendItem DEF Host!OpenTab, Host!Running, Host!plots, Host!shown,
       Host!gui_, Host!requests, Host!work, Host!IInv, Host!TypeOK, Host!ReplacementTypes,
       Host!ScriptTypes, Host!Scripts, Host!ForScript, Host!JobInv, Host!RequestsInOrder,
       Host!RequestsOfTaken
<1>22. CASE Host!Plot \/ Host!Draw
    BY <1>22, TailItems, AppendItem DEF Host!Plot, Host!Over, Host!plots, Host!shown,
       Host!gui_, Host!requests, Host!Draw, Host!Supported, Host!DrawSeries,
       Host!RemoveSeries, Host!work, Host!IInv, Host!TypeOK, Host!ReplacementTypes,
       Host!ScriptTypes, Host!Scripts, Host!ForScript, Host!JobInv, Host!RequestsInOrder,
       Host!RequestsOfTaken
<1>23. CASE UNCHANGED Host!vars
    BY <1>23, TailItems, AppendItem DEF Host!vars, Host!plots, Host!shown, Host!gui_,
       Host!requests, Host!work, Host!IInv, Host!TypeOK, Host!ReplacementTypes,
       Host!ScriptTypes, Host!Scripts, Host!ForScript, Host!JobInv, Host!RequestsInOrder,
       Host!RequestsOfTaken
<1> QED
    BY <1>1, <1>2, <1>3, <1>4, <1>5, <1>6, <1>7, <1>8, <1>9, <1>10, <1>11, <1>12, <1>13,
       <1>14, <1>15, <1>16, <1>17, <1>18, <1>19, <1>20, <1>21, <1>22, <1>23 DEF Host!Next,
       Host!Select, Host!Replace, Host!User

\* A replacement keeps what it is for, and the engine stays idle under one of the user.
LEMMA HostJob ==
    ASSUME Host!HostAssumption, Host!IInv, [Host!Next]_(Host!vars)
    PROVE  Host!JobInv'
<1> USE DEF Host!HostAssumption
<1>1. CASE Host!Take
    BY <1>1, TailItems, AppendItem DEF Host!Take, Host!plots, Host!shown, Host!gui_,
       Host!requests, Host!IInv, Host!TypeOK, Host!ReplacementTypes, Host!ScriptTypes,
       Host!Scripts, Host!ForScript, Host!JobInv, Host!Jobs, Host!Busy
<1>2. CASE Host!Begin
    BY <1>2, TailItems, AppendItem DEF Host!Begin, Host!plots, Host!shown, Host!gui_,
       Host!requests, Host!IInv, Host!TypeOK, Host!ReplacementTypes, Host!ScriptTypes,
       Host!Scripts, Host!ForScript, Host!JobInv, Host!Jobs, Host!Busy
<1>3. CASE Host!Compare
    BY <1>3, TailItems, AppendItem DEF Host!Compare, Host!plots, Host!shown, Host!gui_,
       Host!requests, Host!IInv, Host!TypeOK, Host!ReplacementTypes, Host!ScriptTypes,
       Host!Scripts, Host!ForScript, Host!JobInv, Host!Jobs, Host!Busy
<1>4. CASE Host!Post
    BY <1>4, TailItems, AppendItem DEF Host!Post, Host!plots, Host!shown, Host!gui_,
       Host!IInv, Host!TypeOK, Host!ReplacementTypes, Host!ScriptTypes, Host!Scripts,
       Host!ForScript, Host!JobInv, Host!Jobs, Host!Busy
<1>5. CASE Host!Interrupt
    BY <1>5, TailItems, AppendItem DEF Host!Interrupt, Host!Over, Host!plots, Host!shown,
       Host!gui_, Host!requests, Host!IInv, Host!TypeOK, Host!ReplacementTypes,
       Host!ScriptTypes, Host!Scripts, Host!ForScript, Host!JobInv, Host!Jobs, Host!Busy
<1>6. CASE Host!Answered
    BY <1>6, TailItems, AppendItem DEF Host!Answered, Host!Over, Host!plots, Host!shown,
       Host!gui_, Host!requests, Host!IInv, Host!TypeOK, Host!ReplacementTypes,
       Host!ScriptTypes, Host!Scripts, Host!ForScript, Host!JobInv, Host!Jobs, Host!Busy
<1>7. CASE Host!GiveUp
    BY <1>7, TailItems, AppendItem DEF Host!GiveUp, Host!Over, Host!plots, Host!shown,
       Host!gui_, Host!IInv, Host!TypeOK, Host!ReplacementTypes, Host!ScriptTypes,
       Host!Scripts, Host!ForScript, Host!JobInv, Host!Jobs, Host!Busy
<1>8. CASE Host!Plot
    BY <1>8, TailItems, AppendItem DEF Host!Plot, Host!Over, Host!plots, Host!shown,
       Host!gui_, Host!requests, Host!IInv, Host!TypeOK, Host!ReplacementTypes,
       Host!ScriptTypes, Host!Scripts, Host!ForScript, Host!JobInv, Host!Jobs, Host!Busy
<1>9. CASE Host!Finish
    BY <1>9, TailItems, AppendItem DEF Host!Finish, Host!Over, Host!plots, Host!shown,
       Host!gui_, Host!requests, Host!IInv, Host!TypeOK, Host!ReplacementTypes,
       Host!ScriptTypes, Host!Scripts, Host!ForScript, Host!JobInv, Host!Jobs, Host!Busy
<1>10. CASE Host!HandleRequest
  <2>1. Host!TypeOK /\ Host!RequestsInOrder /\ Host!JobInv
      BY DEF Host!IInv
  <2>2. PICK k \in Host!Scripts :
            /\ UNCHANGED <<wants, taken, worker>>
            /\ \/ gui' = "idle"
               \/ /\ gui' = "reserved" /\ job' \in Host!Jobs /\ job'.by = "script"
                  /\ job'.script = k /\ job'.target = wants[k]
      BY <1>10, <2>1, HostHandles
  <2> QED
      BY <2>1, <2>2 DEF Host!JobInv, Host!ForScript
<1>11. CASE Host!Export
    BY <1>11, TailItems, AppendItem DEF Host!Export, Host!Step, Host!Ready, Host!plots,
       Host!shown, Host!requests, Host!work, Host!Busy, Host!IInv, Host!TypeOK,
       Host!ReplacementTypes, Host!ScriptTypes, Host!Scripts, Host!ForScript, Host!JobInv,
       Host!Jobs, Host!Busy
<1>12. CASE Host!Hydrate
    BY <1>12, TailItems, AppendItem DEF Host!Hydrate, Host!Step, Host!plots, Host!shown,
       Host!requests, Host!work, Host!IInv, Host!TypeOK, Host!ReplacementTypes,
       Host!ScriptTypes, Host!Scripts, Host!ForScript, Host!JobInv, Host!Jobs, Host!Busy
<1>13. CASE Host!CheckAgain
    BY <1>13, TailItems, AppendItem DEF Host!CheckAgain, Host!Step, Host!Ready, Host!plots,
       Host!shown, Host!requests, Host!work, Host!Busy, Host!IInv, Host!TypeOK,
       Host!ReplacementTypes, Host!ScriptTypes, Host!Scripts, Host!ForScript, Host!JobInv,
       Host!Jobs, Host!Busy
<1>14. CASE Host!Swap
    BY <1>14, TailItems, AppendItem DEF Host!Swap, Host!Exported, Host!requests, Host!work,
       Host!IInv, Host!TypeOK, Host!ReplacementTypes, Host!ScriptTypes, Host!Scripts,
       Host!ForScript, Host!JobInv, Host!Jobs, Host!Busy
<1>15. CASE Host!Commit
    BY <1>15, TailItems, AppendItem DEF Host!Commit, Host!shown, Host!requests, Host!work,
       Host!IInv, Host!TypeOK, Host!ReplacementTypes, Host!ScriptTypes, Host!Scripts,
       Host!ForScript, Host!JobInv, Host!Jobs, Host!Busy
<1>16. CASE Host!Release
    BY <1>16, TailItems, AppendItem DEF Host!Release, Host!Conclude, Host!plots, Host!shown,
       Host!work, Host!IInv, Host!TypeOK, Host!ReplacementTypes, Host!ScriptTypes,
       Host!Scripts, Host!ForScript, Host!JobInv, Host!Jobs, Host!Busy
<1>17. CASE Host!Stop
    BY <1>17, TailItems, AppendItem DEF Host!Stop, Host!Running, Host!plots, Host!shown,
       Host!gui_, Host!requests, Host!IInv, Host!TypeOK, Host!ReplacementTypes,
       Host!ScriptTypes, Host!Scripts, Host!ForScript, Host!JobInv, Host!Jobs, Host!Busy
<1>18. CASE Host!KeepDisplay
    BY <1>18, TailItems, AppendItem DEF Host!KeepDisplay, Host!plots, Host!shown, Host!gui_,
       Host!requests, Host!work, Host!IInv, Host!TypeOK, Host!ReplacementTypes,
       Host!ScriptTypes, Host!Scripts, Host!ForScript, Host!JobInv, Host!Jobs, Host!Busy
<1>19. CASE Host!SwitchToTab
  <2>1. Host!TypeOK /\ Host!RequestsInOrder
      BY DEF Host!IInv
  <2> QED
      BY <1>19, <2>1, HostBegins DEF Host!IInv, Host!TypeOK, Host!ReplacementTypes,
         Host!ForScript, Host!JobInv, Host!Busy
<1>20. ASSUME NEW f \in Displays, Host!Submit(f) PROVE Host!JobInv'
    BY <1>20, TailItems, AppendItem DEF Host!Submit, Host!plots, Host!shown, Host!gui_,
       Host!requests, Host!IInv, Host!TypeOK, Host!ReplacementTypes, Host!ScriptTypes,
       Host!Scripts, Host!ForScript, Host!JobInv, Host!Jobs, Host!Busy
<1>21. ASSUME NEW f \in Displays, Host!UserSwitch(f) PROVE Host!JobInv'
  <2>1. Host!TypeOK /\ Host!RequestsInOrder
      BY DEF Host!IInv
  <2> QED
      BY <1>21, <2>1, HostBegins DEF Host!IInv, Host!TypeOK, Host!ReplacementTypes,
         Host!ForScript, Host!JobInv, Host!Busy
<1>22. ASSUME NEW f \in Displays, Host!OpenTab(f) PROVE Host!JobInv'
    BY <1>22, TailItems, AppendItem DEF Host!OpenTab, Host!Running, Host!plots, Host!shown,
       Host!gui_, Host!requests, Host!work, Host!IInv, Host!TypeOK, Host!ReplacementTypes,
       Host!ScriptTypes, Host!Scripts, Host!ForScript, Host!JobInv, Host!Jobs, Host!Busy
<1>23. CASE Host!Draw
    BY <1>23, TailItems, AppendItem DEF Host!Draw, Host!Supported, Host!DrawSeries,
       Host!RemoveSeries, Host!shown, Host!gui_, Host!requests, Host!work, Host!IInv,
       Host!TypeOK, Host!ReplacementTypes, Host!ScriptTypes, Host!Scripts, Host!ForScript,
       Host!JobInv, Host!Jobs, Host!Busy
<1>24. CASE UNCHANGED Host!vars
    BY <1>24, TailItems, AppendItem DEF Host!vars, Host!plots, Host!shown, Host!gui_,
       Host!requests, Host!work, Host!IInv, Host!TypeOK, Host!ReplacementTypes,
       Host!ScriptTypes, Host!Scripts, Host!ForScript, Host!JobInv, Host!Jobs, Host!Busy
<1> QED
    BY <1>1, <1>2, <1>3, <1>4, <1>5, <1>6, <1>7, <1>8, <1>9, <1>10, <1>11, <1>12, <1>13,
       <1>14, <1>15, <1>16, <1>17, <1>18, <1>19, <1>20, <1>21, <1>22, <1>23, <1>24 DEF
       Host!Next, Host!Select, Host!Replace, Host!User

\* No step takes the display from a script that was answered.
LEMMA HostAnswer ==
    ASSUME Host!HostAssumption, Host!IInv, [Host!Next]_(Host!vars)
    PROVE  Host!AnswerKept'
<1> USE DEF Host!HostAssumption
<1>1. CASE Host!Take
    BY <1>1, TailItems, AppendItem DEF Host!Take, Host!plots, Host!shown, Host!gui_,
       Host!requests, Host!IInv, Host!TypeOK, Host!PlotTypes, Host!ReplacementTypes,
       Host!ScriptTypes, Host!Scripts, Host!ForScript, Host!JobInv, Host!Jobs, Host!Busy,
       Host!RequestsInOrder, Host!RequestsOfTaken, Host!AnswerKept
<1>2. CASE Host!Begin
    BY <1>2, TailItems, AppendItem DEF Host!Begin, Host!plots, Host!shown, Host!gui_,
       Host!requests, Host!IInv, Host!TypeOK, Host!PlotTypes, Host!ReplacementTypes,
       Host!ScriptTypes, Host!Scripts, Host!ForScript, Host!JobInv, Host!Jobs, Host!Busy,
       Host!RequestsInOrder, Host!RequestsOfTaken, Host!AnswerKept
<1>3. CASE Host!Compare
    BY <1>3, TailItems, AppendItem DEF Host!Compare, Host!plots, Host!shown, Host!gui_,
       Host!requests, Host!IInv, Host!TypeOK, Host!PlotTypes, Host!ReplacementTypes,
       Host!ScriptTypes, Host!Scripts, Host!ForScript, Host!JobInv, Host!Jobs, Host!Busy,
       Host!RequestsInOrder, Host!RequestsOfTaken, Host!AnswerKept
<1>4. CASE Host!Post
    BY <1>4, TailItems, AppendItem DEF Host!Post, Host!plots, Host!shown, Host!gui_,
       Host!IInv, Host!TypeOK, Host!PlotTypes, Host!ReplacementTypes, Host!ScriptTypes,
       Host!Scripts, Host!ForScript, Host!JobInv, Host!Jobs, Host!Busy,
       Host!RequestsInOrder, Host!RequestsOfTaken, Host!AnswerKept
<1>5. CASE Host!Interrupt
    BY <1>5, TailItems, AppendItem DEF Host!Interrupt, Host!Over, Host!plots, Host!shown,
       Host!gui_, Host!requests, Host!IInv, Host!TypeOK, Host!PlotTypes,
       Host!ReplacementTypes, Host!ScriptTypes, Host!Scripts, Host!ForScript, Host!JobInv,
       Host!Jobs, Host!Busy, Host!RequestsInOrder, Host!RequestsOfTaken, Host!AnswerKept
<1>6. CASE Host!Answered
    BY <1>6, TailItems, AppendItem DEF Host!Answered, Host!Over, Host!plots, Host!shown,
       Host!gui_, Host!requests, Host!IInv, Host!TypeOK, Host!PlotTypes,
       Host!ReplacementTypes, Host!ScriptTypes, Host!Scripts, Host!ForScript, Host!JobInv,
       Host!Jobs, Host!Busy, Host!RequestsInOrder, Host!RequestsOfTaken, Host!AnswerKept
<1>7. CASE Host!GiveUp
    BY <1>7, TailItems, AppendItem DEF Host!GiveUp, Host!Over, Host!plots, Host!shown,
       Host!gui_, Host!IInv, Host!TypeOK, Host!PlotTypes, Host!ReplacementTypes,
       Host!ScriptTypes, Host!Scripts, Host!ForScript, Host!JobInv, Host!Jobs, Host!Busy,
       Host!RequestsInOrder, Host!RequestsOfTaken, Host!AnswerKept
<1>8. CASE Host!Finish
    BY <1>8, TailItems, AppendItem DEF Host!Finish, Host!Over, Host!plots, Host!shown,
       Host!gui_, Host!requests, Host!IInv, Host!TypeOK, Host!PlotTypes,
       Host!ReplacementTypes, Host!ScriptTypes, Host!Scripts, Host!ForScript, Host!JobInv,
       Host!Jobs, Host!Busy, Host!RequestsInOrder, Host!RequestsOfTaken, Host!AnswerKept
<1>9. CASE Host!HandleRequest
    BY <1>9, TailItems, AppendItem DEF Host!HandleRequest, Host!Conclude, Host!Start,
       Host!plots, Host!shown, Host!work, Host!IInv, Host!TypeOK, Host!PlotTypes,
       Host!ReplacementTypes, Host!ScriptTypes, Host!Scripts, Host!ForScript, Host!JobInv,
       Host!Jobs, Host!Busy, Host!RequestsInOrder, Host!RequestsOfTaken, Host!AnswerKept
<1>10. CASE Host!Export
    BY <1>10, TailItems, AppendItem DEF Host!Export, Host!Step, Host!Ready, Host!plots,
       Host!shown, Host!requests, Host!work, Host!Busy, Host!IInv, Host!TypeOK,
       Host!PlotTypes, Host!ReplacementTypes, Host!ScriptTypes, Host!Scripts,
       Host!ForScript, Host!JobInv, Host!Jobs, Host!Busy, Host!RequestsInOrder,
       Host!RequestsOfTaken, Host!AnswerKept
<1>11. CASE Host!Hydrate
    BY <1>11, TailItems, AppendItem DEF Host!Hydrate, Host!Step, Host!plots, Host!shown,
       Host!requests, Host!work, Host!IInv, Host!TypeOK, Host!PlotTypes,
       Host!ReplacementTypes, Host!ScriptTypes, Host!Scripts, Host!ForScript, Host!JobInv,
       Host!Jobs, Host!Busy, Host!RequestsInOrder, Host!RequestsOfTaken, Host!AnswerKept
<1>12. CASE Host!CheckAgain
    BY <1>12, TailItems, AppendItem DEF Host!CheckAgain, Host!Step, Host!Ready, Host!plots,
       Host!shown, Host!requests, Host!work, Host!Busy, Host!IInv, Host!TypeOK,
       Host!PlotTypes, Host!ReplacementTypes, Host!ScriptTypes, Host!Scripts,
       Host!ForScript, Host!JobInv, Host!Jobs, Host!Busy, Host!RequestsInOrder,
       Host!RequestsOfTaken, Host!AnswerKept
<1>13. CASE Host!Swap
    BY <1>13, TailItems, AppendItem DEF Host!Swap, Host!Exported, Host!requests, Host!work,
       Host!IInv, Host!TypeOK, Host!PlotTypes, Host!ReplacementTypes, Host!ScriptTypes,
       Host!Scripts, Host!ForScript, Host!JobInv, Host!Jobs, Host!Busy,
       Host!RequestsInOrder, Host!RequestsOfTaken, Host!AnswerKept
<1>14. CASE Host!Commit
    BY <1>14, TailItems, AppendItem DEF Host!Commit, Host!shown, Host!requests, Host!work,
       Host!IInv, Host!TypeOK, Host!PlotTypes, Host!ReplacementTypes, Host!ScriptTypes,
       Host!Scripts, Host!ForScript, Host!JobInv, Host!Jobs, Host!Busy,
       Host!RequestsInOrder, Host!RequestsOfTaken, Host!AnswerKept
<1>15. CASE Host!Release
    BY <1>15, TailItems, AppendItem DEF Host!Release, Host!Conclude, Host!plots, Host!shown,
       Host!work, Host!IInv, Host!TypeOK, Host!PlotTypes, Host!ReplacementTypes,
       Host!ScriptTypes, Host!Scripts, Host!ForScript, Host!JobInv, Host!Jobs, Host!Busy,
       Host!RequestsInOrder, Host!RequestsOfTaken, Host!AnswerKept
<1>16. CASE Host!Stop
    BY <1>16, TailItems, AppendItem DEF Host!Stop, Host!Running, Host!plots, Host!shown,
       Host!gui_, Host!requests, Host!IInv, Host!TypeOK, Host!PlotTypes,
       Host!ReplacementTypes, Host!ScriptTypes, Host!Scripts, Host!ForScript, Host!JobInv,
       Host!Jobs, Host!Busy, Host!RequestsInOrder, Host!RequestsOfTaken, Host!AnswerKept
<1>17. CASE Host!KeepDisplay
    BY <1>17, TailItems, AppendItem DEF Host!KeepDisplay, Host!plots, Host!shown, Host!gui_,
       Host!requests, Host!work, Host!IInv, Host!TypeOK, Host!PlotTypes,
       Host!ReplacementTypes, Host!ScriptTypes, Host!Scripts, Host!ForScript, Host!JobInv,
       Host!Jobs, Host!Busy, Host!RequestsInOrder, Host!RequestsOfTaken, Host!AnswerKept
<1>18. CASE Host!SwitchToTab
    BY <1>18, TailItems, AppendItem DEF Host!SwitchToTab, Host!Start, Host!plots,
       Host!shown, Host!work, Host!Conclude, Host!IInv, Host!TypeOK, Host!PlotTypes,
       Host!ReplacementTypes, Host!ScriptTypes, Host!Scripts, Host!ForScript, Host!JobInv,
       Host!Jobs, Host!Busy, Host!RequestsInOrder, Host!RequestsOfTaken, Host!AnswerKept
<1>19. ASSUME NEW f \in Displays, Host!Submit(f) PROVE Host!AnswerKept'
    BY <1>19, TailItems, AppendItem DEF Host!Submit, Host!plots, Host!shown, Host!gui_,
       Host!requests, Host!IInv, Host!TypeOK, Host!PlotTypes, Host!ReplacementTypes,
       Host!ScriptTypes, Host!Scripts, Host!ForScript, Host!JobInv, Host!Jobs, Host!Busy,
       Host!RequestsInOrder, Host!RequestsOfTaken, Host!AnswerKept
<1>20. ASSUME NEW f \in Displays, Host!UserSwitch(f) PROVE Host!AnswerKept'
    BY <1>20, TailItems, AppendItem DEF Host!UserSwitch, Host!Start, Host!plots, Host!shown,
       Host!work, Host!Conclude, Host!IInv, Host!TypeOK, Host!PlotTypes,
       Host!ReplacementTypes, Host!ScriptTypes, Host!Scripts, Host!ForScript, Host!JobInv,
       Host!Jobs, Host!Busy, Host!RequestsInOrder, Host!RequestsOfTaken, Host!AnswerKept
<1>21. ASSUME NEW f \in Displays, Host!OpenTab(f) PROVE Host!AnswerKept'
    BY <1>21, TailItems, AppendItem DEF Host!OpenTab, Host!Running, Host!plots, Host!shown,
       Host!gui_, Host!requests, Host!work, Host!IInv, Host!TypeOK, Host!PlotTypes,
       Host!ReplacementTypes, Host!ScriptTypes, Host!Scripts, Host!ForScript, Host!JobInv,
       Host!Jobs, Host!Busy, Host!RequestsInOrder, Host!RequestsOfTaken, Host!AnswerKept
<1>22. CASE Host!Plot \/ Host!Draw
    BY <1>22, TailItems, AppendItem DEF Host!Plot, Host!Over, Host!plots, Host!shown,
       Host!gui_, Host!requests, Host!Draw, Host!Supported, Host!DrawSeries,
       Host!RemoveSeries, Host!work, Host!IInv, Host!TypeOK, Host!PlotTypes,
       Host!ReplacementTypes, Host!ScriptTypes, Host!Scripts, Host!ForScript, Host!JobInv,
       Host!Jobs, Host!Busy, Host!RequestsInOrder, Host!RequestsOfTaken, Host!AnswerKept
<1>23. CASE UNCHANGED Host!vars
    BY <1>23, TailItems, AppendItem DEF Host!vars, Host!plots, Host!shown, Host!gui_,
       Host!requests, Host!work, Host!IInv, Host!TypeOK, Host!PlotTypes,
       Host!ReplacementTypes, Host!ScriptTypes, Host!Scripts, Host!ForScript, Host!JobInv,
       Host!Jobs, Host!Busy, Host!RequestsInOrder, Host!RequestsOfTaken, Host!AnswerKept
<1> QED
    BY <1>1, <1>2, <1>3, <1>4, <1>5, <1>6, <1>7, <1>8, <1>9, <1>10, <1>11, <1>12, <1>13,
       <1>14, <1>15, <1>16, <1>17, <1>18, <1>19, <1>20, <1>21, <1>22, <1>23 DEF Host!Next,
       Host!Select, Host!Replace, Host!User

\* At the start nothing is plotted, asked for or replaced.
LEMMA HostInit == ASSUME Host!HostAssumption, Host!Init PROVE Host!IInv
<1>1. Host!PlotTypes /\ Host!PlotsKept
    BY DEF Host!HostAssumption, Host!Init, Host!PlotTypes, Host!PlotsKept
<1>2. Host!ReplacementTypes
    BY DEF Host!Init, Host!ReplacementTypes
<1>3. Host!ScriptTypes
  <2>1. <<>> \in Seq(Displays) /\ <<>> \in Seq(Host!Scripts) /\ Len(<<>>) = 0
      OBVIOUS
  <2>2. /\ wants = <<>> /\ taken = 0 /\ worker = "idle" /\ stop = FALSE /\ posted = <<>>
        /\ done = {} /\ refused = {} /\ cancelled = {}
      BY DEF Host!Init
  <2>3. wants \in Seq(Displays) /\ posted \in Seq(Host!Scripts)
      BY <2>1, <2>2
  <2>4. taken \in 0 .. Len(wants)
      BY <2>1, <2>2
  <2> QED
      BY <2>2, <2>3, <2>4, Zenon DEF Host!ScriptTypes
<1>4. Host!RequestsInOrder /\ Host!RequestsOfTaken
    BY DEF Host!Init, Host!RequestsInOrder, Host!RequestsOfTaken, Host!ForScript
<1>5. Host!JobInv /\ Host!AnswerKept
    BY DEF Host!HostAssumption, Host!Init, Host!JobInv, Host!AnswerKept, Host!ForScript
<1> QED
    BY <1>1, <1>2, <1>3, <1>4, <1>5 DEF Host!IInv, Host!TypeOK

\* A step of the worker, of the GUI thread or of the user keeps every part.
LEMMA HostStep ==
    ASSUME Host!HostAssumption, Host!IInv, [Host!Next]_(Host!vars)
    PROVE  Host!IInv'
BY HostPlotTypes, HostReplacementTypes, HostScriptTypes, HostPlots, HostOrder, HostRequests,
   HostJob, HostAnswer DEF Host!IInv, Host!TypeOK

\* Types, plots, requests and answers hold in every state, whatever the user does with the
\* menu and the tabs while scripts are stopped and submitted (ui/plotting/host.py).
THEOREM HostInvariant == Host!Spec => []Host!IInv
<1>1. Host!HostAssumption
    BY HostAssumption DEF Host!HostAssumption
<1>2. Host!Init => Host!IInv
    BY <1>1, HostInit
<1>3. Host!IInv /\ [Host!Next]_(Host!vars) => Host!IInv'
    BY <1>1, HostStep
<1> QED
    BY <1>2, <1>3, PTL DEF Host!Spec

\* Replacement loses no plot and no style, through any sequence of displays: outside a swap
\* the display shows what the service holds, and a style that was given is shown or retained.
THEOREM PlotsSurviveSwitching == Host!Spec => []PlotsSurvive
<1>1. Host!IInv => PlotsSurvive
    BY DEF Host!IInv, Host!PlotsKept, PlotsSurvive
<1> QED
    BY <1>1, HostInvariant, PTL

\* A script that was answered has its display for as long as it runs, unless the dialog of a
\* tab takes it: neither the menu nor a request of an earlier script does.
THEOREM AnswerStands == Host!Spec => []AnsweredHasDisplay
<1>1. Host!IInv => AnsweredHasDisplay
    BY DEF Host!IInv, Host!AnswerKept, AnsweredHasDisplay
<1> QED
    BY <1>1, HostInvariant, PTL
=============================================================================
