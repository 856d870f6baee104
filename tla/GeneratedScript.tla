---------------------------- MODULE GeneratedScript ----------------------------
(***************************************************************************)
(* A script generated from the sequence tree and the lifecycle of its      *)
(* plugins: core/sequence_engine.py generate_sequence_code and the         *)
(* wrappers of plugins/base_plugin.py around connect, configure and        *)
(* disconnect.                                                             *)
(*                                                                         *)
(* The script resets its plugins, validates them, connects them,           *)
(* configures them, runs the steps of the tree inside try, and makes the   *)
(* rig safe and disconnects in finally.  The steps are abstracted to the   *)
(* uses and the reconfigurations of plugins they make, in any order: loops *)
(* and conditions are whatever the tree holds.  Any call may raise, and    *)
(* Stop raises at a line boundary wherever the worker is, once in a run:   *)
(* the interpreter drops a tracer that raised.  What a plugin owns is      *)
(* abstracted to one handle.                                               *)
(***************************************************************************)
EXTENDS Naturals

CONSTANTS
    Count,      \* plugins of the tree, numbered in depth-first order
    MaxRuns,    \* bound on the runs explored
    MaxStops    \* bound on the Stops pressed

ASSUME ScriptAssumption == Count \in Nat /\ MaxRuns \in Nat /\ MaxStops \in Nat

VARIABLES
    attempted,    \* _lifecycle_connection_attempted
    connected,    \* _lifecycle_connected
    configured,   \* _lifecycle_configured
    depth,        \* _lifecycle_depth
    delay,        \* delay_configuration
    held,         \* the plugin has a reference to an open handle
    lost,         \* a handle is open that no plugin refers to
    setUp,        \* the run in which the plugin was last configured
    phase, pos,   \* the statement of the script and the plugin it is about
    call,         \* the lifecycle call in progress
    nested,       \* it is the disconnect that a connect makes first
    traced,       \* the tracer is installed
    run, stops,   \* the runs and the Stops so far
    entered,      \* this run reached its try
    broken        \* this run raised in its finally

plugin == <<attempted, connected, configured, depth, held, lost, setUp>>
script == <<delay, traced, run, stops>>
vars   == <<plugin, script, phase, pos, call, nested, entered, broken>>

Plugins == 1..Count
Phases  == {"validate", "connect", "configure", "body", "act", "reconfigure", "safe",
            "disconnect", "over"}
Calls   == [op : {"none", "connect", "configure", "disconnect"},
            step : {"none", "enter", "begin", "try", "method", "leave", "note"},
            outer : BOOLEAN, raised : BOOLEAN]
Idle    == [op |-> "none", step |-> "none", outer |-> FALSE, raised |-> FALSE]
Enter(op) == [op |-> op, step |-> "enter", outer |-> FALSE, raised |-> FALSE]

Init ==
    /\ attempted = [p \in Plugins |-> FALSE] /\ connected = [p \in Plugins |-> FALSE]
    /\ configured = [p \in Plugins |-> FALSE] /\ depth = [p \in Plugins |-> 0]
    /\ delay = {}
    /\ held = [p \in Plugins |-> FALSE] /\ lost = [p \in Plugins |-> FALSE]
    /\ setUp = [p \in Plugins |-> 0]
    /\ phase = "over" /\ pos = 0
    /\ call = Idle /\ nested = FALSE
    /\ traced = FALSE /\ run = 0 /\ stops = 0
    /\ entered = FALSE /\ broken = FALSE

-----------------------------------------------------------------------------
(***************************************************************************)
(* The statements of the script.                                           *)
(***************************************************************************)
\* Mutant: the flags of the run before are kept.
StartKeeping ==
    /\ phase = "over" /\ run < MaxRuns
    /\ run' = run + 1 /\ traced' = TRUE
    /\ delay' \in SUBSET Plugins
    /\ entered' = FALSE /\ broken' = FALSE
    /\ phase' = "validate" /\ pos' = 0
    /\ UNCHANGED <<plugin, call, nested, stops>>

\* start() of every plugin, those that a Reconfigure sets up later marked as delayed.
Start ==
    /\ phase = "over" /\ run < MaxRuns
    /\ run' = run + 1 /\ traced' = TRUE
    /\ connected' = [p \in Plugins |-> FALSE]
    /\ configured' = [p \in Plugins |-> FALSE]
    /\ delay' \in SUBSET Plugins
    /\ entered' = FALSE /\ broken' = FALSE
    /\ phase' = "validate" /\ pos' = 0
    /\ UNCHANGED <<attempted, depth, held, lost, setUp, call, nested, stops>>

Validate ==
    /\ phase = "validate"
    /\ phase' = "connect" /\ pos' = 1
    /\ UNCHANGED <<plugin, script, call, nested, entered, broken>>

\* The connect and configure phases skip the delayed plugins.
SetUpNext(here, next) ==
    /\ phase = here /\ call = Idle
    /\ \/ /\ pos \in Plugins /\ pos \notin delay
          /\ call' = Enter(here)
          /\ UNCHANGED <<phase, pos, entered>>
       \/ /\ pos \in Plugins /\ pos \in delay
          /\ pos' = pos + 1
          /\ UNCHANGED <<phase, call, entered>>
       \/ /\ pos \notin Plugins
          /\ phase' = next /\ pos' = 1
          /\ entered' = (next = "body")
          /\ UNCHANGED call
    /\ UNCHANGED <<plugin, script, nested, broken>>

ConnectNext   == SetUpNext("connect", "configure")
ConfigureNext == SetUpNext("configure", "body")

\* A step runs once require_ready has passed.
Act(p) ==
    /\ phase = "body" /\ connected[p] /\ configured[p]
    /\ phase' = "act" /\ pos' = p
    /\ UNCHANGED <<plugin, script, call, nested, entered, broken>>

ActDone ==
    /\ phase = "act"
    /\ phase' = "body"
    /\ UNCHANGED <<plugin, script, pos, call, nested, entered, broken>>

\* Reconfigure, and Run Again with reconnection: connect and then configure.
Reconfigure(p) ==
    /\ phase = "body"
    /\ phase' = "reconfigure" /\ pos' = p
    /\ call' = Enter("connect")
    /\ UNCHANGED <<plugin, script, nested, entered, broken>>

BodyEnds ==
    /\ phase = "body"
    /\ phase' = "safe"
    /\ UNCHANGED <<plugin, script, pos, call, nested, entered, broken>>

\* The finally code of the plugins, Make Safe among them, then disconnect in reverse order.
MadeSafe ==
    /\ phase = "safe"
    /\ phase' = "disconnect" /\ pos' = Count
    /\ UNCHANGED <<plugin, script, call, nested, entered, broken>>

\* Mutant: delayed plugins are skipped, as in the other phases.
DisconnectUndelayed ==
    /\ phase = "disconnect" /\ call = Idle
    /\ \/ /\ pos \in Plugins \ delay
          /\ call' = Enter("disconnect")
          /\ UNCHANGED <<phase, pos>>
       \/ /\ pos \in Plugins \cap delay
          /\ pos' = pos - 1
          /\ UNCHANGED <<phase, call>>
       \/ /\ pos \notin Plugins
          /\ phase' = "over"
          /\ UNCHANGED <<pos, call>>
    /\ UNCHANGED <<plugin, script, nested, entered, broken>>

DisconnectNext ==
    /\ phase = "disconnect" /\ call = Idle
    /\ \/ /\ pos \in Plugins
          /\ call' = Enter("disconnect")
          /\ UNCHANGED phase
       \/ /\ pos \notin Plugins
          /\ phase' = "over"
          /\ UNCHANGED call
    /\ UNCHANGED <<plugin, script, pos, nested, entered, broken>>

\* An exception leaves the call in progress and reaches the statement of the script: in
\* try it leads to finally, elsewhere it ends the run.
Unwind ==
    /\ call' = Idle /\ nested' = FALSE
    /\ phase' = IF phase \in {"body", "act", "reconfigure"} THEN "safe" ELSE "over"
    /\ broken' = (broken \/ phase \in {"safe", "disconnect"})
    /\ UNCHANGED <<pos, entered>>

\* Validation, a step, its readiness check or Make Safe raises.
StatementFails ==
    /\ phase \in {"validate", "body", "act", "safe"}
    /\ Unwind
    /\ UNCHANGED <<plugin, script>>

-----------------------------------------------------------------------------
(***************************************************************************)
(* The wrapper of a lifecycle call, _tracked_lifecycle.                    *)
(***************************************************************************)
At(step) == call.step = step

\* Mutant: only a connection that succeeded is released first.
CheckConnected ==
    /\ At("enter")
    /\ LET outer == depth[pos] = 0 IN
       IF call.op = "connect" /\ outer /\ connected[pos]
       THEN /\ nested' = TRUE
            /\ call' = [Enter("disconnect") EXCEPT !.step = "begin", !.outer = TRUE]
       ELSE /\ UNCHANGED nested
            /\ call' = [call EXCEPT !.step = "begin", !.outer = outer]
    /\ UNCHANGED <<plugin, script, phase, pos, entered, broken>>

\* An outermost connect disconnects what an earlier attempt may have left.
CheckOutermost ==
    /\ At("enter")
    /\ LET outer == depth[pos] = 0 IN
       IF call.op = "connect" /\ outer /\ attempted[pos]
       THEN /\ nested' = TRUE
            /\ call' = [Enter("disconnect") EXCEPT !.step = "begin", !.outer = TRUE]
       ELSE /\ UNCHANGED nested
            /\ call' = [call EXCEPT !.step = "begin", !.outer = outer]
    /\ UNCHANGED <<plugin, script, phase, pos, entered, broken>>

\* The attempt is recorded and readiness withdrawn.
Begin ==
    /\ At("begin")
    /\ attempted' = IF call.op = "connect" /\ call.outer THEN [attempted EXCEPT ![pos] = TRUE]
                    ELSE attempted
    /\ connected' = IF call.op = "configure" THEN connected ELSE [connected EXCEPT ![pos] = FALSE]
    /\ configured' = [configured EXCEPT ![pos] = FALSE]
    /\ depth' = [depth EXCEPT ![pos] = @ + 1]
    /\ call' = [call EXCEPT !.step = "try"]
    /\ UNCHANGED <<held, lost, setUp, script, phase, pos, nested, entered, broken>>

Try ==
    /\ At("try")
    /\ call' = [call EXCEPT !.step = "method"]
    /\ UNCHANGED <<plugin, script, phase, pos, nested, entered, broken>>

\* What the method of the plugin does to its handle: connect opens one and overwrites the
\* reference, disconnect closes the one it refers to.
Open  == held' = [held EXCEPT ![pos] = TRUE] /\ lost' = [lost EXCEPT ![pos] = @ \/ held[pos]]
Close == held' = [held EXCEPT ![pos] = FALSE] /\ UNCHANGED lost

Completes ==
    \/ call.op = "connect" /\ Open
    \/ call.op = "configure" /\ UNCHANGED <<held, lost>>
    \/ call.op = "disconnect" /\ Close

\* A method that raises may have got as far.
Raises == Completes \/ UNCHANGED <<held, lost>>

MethodReturns ==
    /\ At("method") /\ Completes
    /\ call' = [call EXCEPT !.step = "leave"]
    /\ UNCHANGED <<attempted, connected, configured, depth, setUp, script, phase, pos, nested,
                   entered, broken>>

MethodRaises ==
    /\ At("method") /\ Raises
    /\ configured' = [configured EXCEPT ![pos] = FALSE]
    /\ call' = [call EXCEPT !.step = "leave", !.raised = TRUE]
    /\ UNCHANGED <<attempted, connected, depth, setUp, script, phase, pos, nested, entered,
                   broken>>

\* Mutant: the depth is not restored when the method raised.
LeaveUnbalanced ==
    /\ At("leave")
    /\ IF call.raised THEN Unwind /\ UNCHANGED depth
       ELSE /\ depth' = [depth EXCEPT ![pos] = @ - 1]
            /\ call' = [call EXCEPT !.step = "note"]
            /\ UNCHANGED <<phase, pos, nested, entered, broken>>
    /\ UNCHANGED <<attempted, connected, configured, held, lost, setUp, script>>

\* The finally of the wrapper.
Leave ==
    /\ At("leave")
    /\ depth' = [depth EXCEPT ![pos] = @ - 1]
    /\ IF call.raised THEN Unwind
       ELSE /\ call' = [call EXCEPT !.step = "note"]
            /\ UNCHANGED <<phase, pos, nested, entered, broken>>
    /\ UNCHANGED <<attempted, connected, configured, held, lost, setUp, script>>

\* Success is recorded, and the caller goes on.
Note ==
    /\ At("note")
    /\ connected' = IF call.op = "connect" THEN [connected EXCEPT ![pos] = TRUE] ELSE connected
    /\ configured' = IF call.op = "configure" THEN [configured EXCEPT ![pos] = TRUE]
                     ELSE configured
    /\ setUp' = IF call.op = "configure" THEN [setUp EXCEPT ![pos] = run] ELSE setUp
    /\ attempted' = IF call.op = "disconnect" /\ call.outer THEN [attempted EXCEPT ![pos] = FALSE]
                    ELSE attempted
    /\ nested' = FALSE
    /\ IF nested
       THEN /\ call' = [Enter("connect") EXCEPT !.step = "begin", !.outer = TRUE]
            /\ UNCHANGED <<phase, pos>>
       ELSE /\ call' = IF phase = "reconfigure" /\ call.op = "connect" THEN Enter("configure")
                       ELSE Idle
            /\ phase' = IF phase = "reconfigure" /\ call.op = "configure" THEN "body" ELSE phase
            /\ pos' = CASE phase = "disconnect" -> pos - 1
                        [] phase \in {"connect", "configure"} -> pos + 1
                        [] OTHER -> pos
    /\ UNCHANGED <<depth, held, lost, script, entered, broken>>

\* Stop raises KeyboardInterrupt at the next line.  Inside the method the wrapper sees it;
\* before its try and in its finally the depth stays as it is.
Stop ==
    /\ traced /\ stops < MaxStops /\ phase # "over"
    /\ traced' = FALSE /\ stops' = stops + 1
    /\ \/ At("method") /\ Raises
          /\ configured' = [configured EXCEPT ![pos] = FALSE]
          /\ depth' = [depth EXCEPT ![pos] = @ - 1]
          /\ UNCHANGED <<attempted, connected, setUp>>
       \/ ~At("method") /\ UNCHANGED plugin
    /\ Unwind
    /\ UNCHANGED <<delay, run>>

-----------------------------------------------------------------------------
Statement ==
    \/ Start \/ Validate \/ ConnectNext \/ ConfigureNext
    \/ \E p \in Plugins : Act(p) \/ Reconfigure(p)
    \/ ActDone \/ BodyEnds \/ MadeSafe \/ DisconnectNext \/ StatementFails

Wrapper ==
    CheckOutermost \/ Begin \/ Try \/ MethodReturns \/ MethodRaises \/ Leave \/ Note

Next == Statement \/ Wrapper \/ Stop

Spec == Init /\ [][Next]_vars

-----------------------------------------------------------------------------
(***************************************************************************)
(* Properties.                                                             *)
(***************************************************************************)
\* The variables keep their types.
TypeOK ==
    /\ attempted \in [Plugins -> BOOLEAN] /\ connected \in [Plugins -> BOOLEAN]
    /\ configured \in [Plugins -> BOOLEAN] /\ depth \in [Plugins -> Nat]
    /\ delay \in SUBSET Plugins
    /\ held \in [Plugins -> BOOLEAN] /\ lost \in [Plugins -> BOOLEAN]
    /\ setUp \in [Plugins -> Nat]
    /\ phase \in Phases /\ pos \in 0..Count + 1
    /\ call \in Calls
    /\ nested \in BOOLEAN /\ traced \in BOOLEAN /\ run \in Nat /\ stops \in Nat
    /\ entered \in BOOLEAN /\ broken \in BOOLEAN

\* A step runs only on a plugin that holds its handle and was configured in this run,
\* whatever was delayed, reconfigured or interrupted before, in this run and in earlier ones.
ActsReady == phase = "act" => held[pos] /\ setUp[pos] = run

\* As long as nobody presses Stop, no failure of any call makes a plugin open a handle over
\* one that is still open.
NothingLost == stops = 0 => \A p \in Plugins : ~lost[p]

\* A run whose finally completed leaves no plugin connected: delayed, reconfigured and
\* partly connected ones included.
CleanRelease ==
    phase = "over" /\ entered /\ ~broken => \A p \in Plugins : ~held[p]

\* "The finally block calls disconnect() on every plugin in reverse order so that resources
\* are always released."
AllReleased == phase = "over" => \A p \in Plugins : ~held[p]

\* "The base wrapper invokes disconnect() before a repeated or partially failed connection
\* attempt."
ReleasedFirst == \A p \in Plugins : ~lost[p]

-----------------------------------------------------------------------------
(***************************************************************************)
(* What the proofs of GeneratedScriptProofs need beside these.             *)
(***************************************************************************)
Inside == call.step \in {"try", "method", "leave"}
After  == call.step = "note" \/ (call.step = "leave" /\ ~call.raised)

\* A call belongs to the statement the script is at.
CallMatches ==
    /\ call.step = "none" <=> call = Idle
    /\ call = Idle => ~nested
    /\ nested => call.op = "disconnect" /\ call.outer /\ call.step # "enter"
    /\ call # Idle =>
           /\ pos \in Plugins
           /\ \/ phase = "connect" /\ (call.op = "connect" \/ nested)
              \/ phase = "configure" /\ call.op = "configure"
              \/ phase = "reconfigure" /\ (call.op \in {"connect", "configure"} \/ nested)
              \/ phase = "disconnect" /\ call.op = "disconnect" /\ ~nested
           /\ call.step = "note" => ~call.raised
    /\ phase = "reconfigure" => call # Idle
    /\ phase = "act" => pos \in Plugins

\* The depth counts the calls in progress, until a Stop leaves one behind.
Balanced ==
    /\ Inside => depth[pos] > 0
    /\ stops = 0 => \A p \in Plugins : depth[p] = IF Inside /\ p = pos THEN 1 ELSE 0
    /\ stops = 0 /\ call # Idle /\ call.step # "enter" => call.outer

\* Until then a plugin that holds a handle knows that it must release it first.
HandleKnown ==
    stops = 0 =>
        /\ \A p \in Plugins : held[p] => attempted[p]
        /\ call.op = "connect" /\ call.step = "begin" => ~held[pos]
        /\ call.op = "connect" /\ call.step \in {"try", "method"} => attempted[pos] /\ ~held[pos]
        /\ call.op = "disconnect" /\ After => ~held[pos]

\* A ready plugin holds its handle and was configured in this run.
ReadyHolds ==
    /\ \A p \in Plugins : connected[p] => held[p]
    /\ \A p \in Plugins : configured[p] => setUp[p] = run
    /\ call.op = "connect" /\ After => held[pos]
    /\ call.op = "disconnect" /\ (Inside \/ call.step = "note") => ~connected[pos]
    /\ call.op = "disconnect" /\ After => ~held[pos]

\* The handles of the plugins that the finally has passed are closed.
PassedReleased ==
    /\ phase # "over" => ~broken
    /\ phase \in {"validate", "connect", "configure"} => ~entered
    /\ phase = "disconnect" => pos <= Count /\ \A p \in Plugins : p > pos => ~held[p]

\* The inductive invariant.
IInv ==
    /\ TypeOK /\ CallMatches /\ Balanced /\ HandleKnown /\ ReadyHolds /\ PassedReleased
    /\ NothingLost /\ ActsReady /\ CleanRelease
=============================================================================
