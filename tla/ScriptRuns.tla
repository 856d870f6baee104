----------------------------- MODULE ScriptRuns -----------------------------
(***************************************************************************)
(* What the sequence engine promises to those who submit work to it:       *)
(*                                                                         *)
(*   - scripts and console commands run in the order of submission, one    *)
(*     at a time;                                                          *)
(*   - a script has one outcome, reached only while it is the active one,  *)
(*     unless the application closes and kills what is left;               *)
(*   - a script is reported Stopped only if a stop was requested after it  *)
(*     started.  (It may also fail or complete after a request: its own    *)
(*     handlers run, and its last line may have passed.)                   *)
(*                                                                         *)
(* Threads, flags, signals and the GUI are not visible here.               *)
(***************************************************************************)
EXTENDS Naturals, Sequences

CONSTANTS Scripts, Commands, Quit, None

VARIABLES
    waiting,   \* submitted and not started, oldest first
    active,    \* the item being executed, or None
    wanted,    \* a stop was requested
    outcome    \* what became of each script

vars == <<waiting, active, wanted, outcome>>

Undecided == {"queued", "running"}

Init ==
    /\ waiting = <<>> /\ active = None /\ wanted = FALSE
    /\ outcome = [s \in Scripts |-> "unsubmitted"]

Submit(i) ==
    /\ waiting' = Append(waiting, i)
    /\ i \in Scripts => outcome[i] = "unsubmitted"
    /\ outcome' = IF i \in Scripts THEN [outcome EXCEPT ![i] = "queued"] ELSE outcome
    /\ UNCHANGED <<active, wanted>>

RequestStop == wanted' = TRUE /\ UNCHANGED <<waiting, active, outcome>>

\* A script starts with no stop pending; a console command leaves the request alone.
Start ==
    /\ active = None /\ waiting # <<>>
    /\ waiting' = Tail(waiting)
    /\ LET i == Head(waiting) IN
       \/ /\ i \in Scripts
          /\ active' = i /\ wanted' = FALSE
          /\ outcome' = [outcome EXCEPT ![i] = "running"]
       \/ i \in Commands /\ active' = i /\ UNCHANGED <<wanted, outcome>>
       \/ i = Quit /\ UNCHANGED <<active, wanted, outcome>>

Decide(o) ==
    /\ active \in Scripts /\ outcome[active] = "running"
    /\ o = "Stopped" => wanted
    /\ outcome' = [outcome EXCEPT ![active] = o]
    /\ UNCHANGED <<waiting, active, wanted>>

Retire ==
    /\ active # None
    /\ active \in Scripts => outcome[active] \notin Undecided
    /\ active' = None
    /\ UNCHANGED <<waiting, wanted, outcome>>

Kill ==
    /\ waiting' = <<>> /\ active' = None
    /\ outcome' = [s \in Scripts |-> IF outcome[s] \in Undecided THEN "killed" ELSE outcome[s]]
    /\ UNCHANGED wanted

Next ==
    \/ \E i \in Scripts \cup Commands \cup {Quit} : Submit(i)
    \/ RequestStop \/ Start \/ Retire \/ Kill
    \/ \E o \in {"Idle", "Stopped", "Error"} : Decide(o)

Spec == Init /\ [][Next]_vars
=============================================================================
