-------------------------- MODULE ParallelBranches --------------------------
(***************************************************************************)
(* A Run Parallel container in a running script: the worker submits one    *)
(* branch after another to a thread pool, takes their results in order,    *)
(* leaves the pool and goes on, in the end to the finally of the script    *)
(* that disconnects the plugins (plugins/sequence/containers.py, the       *)
(* tracer and request_stop of core/sequence_engine.py).                    *)
(*                                                                         *)
(* Only the worker is traced.  Its tracer holds it at a line while the     *)
(* script is paused and raises the Stop at a line, once: a tracer that has *)
(* raised is gone.  A worker that is blocked in the pool, for a result or  *)
(* for a thread to end, comes to no line.  A branch runs to its end; one   *)
(* that waits for an instrument (ramp_to) looks at the stop event itself.  *)
(***************************************************************************)
EXTENDS BranchState

worker  == <<place, at, held, traced, failure>>
control == <<stop, paused>>
vars == <<worker, branch, control, ended, struck>>

Init ==
    /\ place = "script" /\ at = 1 /\ held = FALSE /\ traced = TRUE /\ failure = 0
    /\ branch = [b \in Branches |-> "new"]
    /\ stop = FALSE /\ paused = FALSE /\ ended = "no" /\ struck = FALSE

-----------------------------------------------------------------------------
(***************************************************************************)
(* The buttons, and the tracer of the worker.                              *)
(***************************************************************************)
\* request_stop: the worker is woken if it is held.
Stop ==
    /\ place # "over" /\ ~stop
    /\ stop' = TRUE /\ paused' = FALSE /\ held' = FALSE
    /\ UNCHANGED <<place, at, traced, failure, branch, ended, struck>>

Pause ==
    /\ place # "over" /\ ~paused
    /\ paused' = TRUE
    /\ UNCHANGED <<worker, branch, stop, ended, struck>>

Resume ==
    /\ place # "over" /\ paused
    /\ paused' = FALSE /\ held' = FALSE
    /\ UNCHANGED <<place, at, traced, failure, branch, stop, ended, struck>>

\* The places where the worker is at a line of Python.
Line(p) == place = p /\ ~held /\ (traced => ~stop /\ ~paused)

Hold ==
    /\ traced /\ paused /\ ~stop /\ ~held
    /\ place \notin {"blocked", "joining", "over"}
    /\ held' = TRUE
    /\ UNCHANGED <<place, at, traced, failure, branch, control, ended, struck>>

\* KeyboardInterrupt: inside the with statement it goes to the pool's exit, else it leaves.
Interrupt ==
    /\ traced /\ stop /\ ~held
    /\ place \notin {"blocked", "joining", "over"}
    /\ traced' = FALSE
    /\ place' = CASE place \in {"submitting", "collecting"} -> "leaving"
                  [] place = "releasing" -> "over"
                  [] OTHER -> "releasing"
    /\ struck' = (place = "leaving" /\ \E b \in Branches : branch[b] \in Live)
    /\ ended' = IF place = "releasing" THEN "stopped" ELSE ended
    /\ UNCHANGED <<at, held, failure, branch, control>>

-----------------------------------------------------------------------------
(***************************************************************************)
(* execute of RunParallelPlugin, in the worker.                            *)
(***************************************************************************)
\* The container is reached, perhaps again in a loop.
Enter ==
    /\ Line("script")
    /\ place' = "submitting" /\ at' = 1
    /\ branch' = [b \in Branches |-> "new"]
    /\ UNCHANGED <<held, traced, failure, control, ended, struck>>

Submit ==
    /\ Line("submitting")
    /\ branch' = [branch EXCEPT ![at] = "running"]
    /\ IF at = N THEN place' = "collecting" /\ at' = 1 ELSE place' = place /\ at' = at + 1
    /\ UNCHANGED <<held, traced, failure, control, ended, struck>>

Done(b) == branch[b] \in {"ok", "failed"}

\* future.result() waits for a branch that is not done.
Block ==
    /\ Line("collecting") /\ ~Done(at)
    /\ place' = "blocked"
    /\ UNCHANGED <<at, held, traced, failure, branch, control, ended, struck>>

Unblock ==
    /\ place = "blocked" /\ Done(at)
    /\ place' = "collecting"
    /\ UNCHANGED <<at, held, traced, failure, branch, control, ended, struck>>

\* Mutant: a failure is looked at and not raised.
CollectQuietly ==
    /\ Line("collecting") /\ Done(at)
    /\ IF at < N THEN at' = at + 1 /\ UNCHANGED place ELSE place' = "leaving" /\ UNCHANGED at
    /\ UNCHANGED <<held, traced, failure, branch, control, ended, struck>>

\* The results in the order of the branches: the first failure is raised.
Collect ==
    /\ Line("collecting") /\ Done(at)
    /\ failure' = IF branch[at] = "failed" THEN at ELSE failure
    /\ IF branch[at] = "ok" /\ at < N THEN at' = at + 1 /\ UNCHANGED place
       ELSE place' = "leaving" /\ UNCHANGED at
    /\ UNCHANGED <<held, traced, branch, control, ended, struck>>

AfterPool == IF traced /\ failure = 0 THEN "script" ELSE "releasing"

\* Mutant: the threads are not waited for.
LeaveAtOnce ==
    /\ Line("leaving")
    /\ place' = AfterPool
    /\ UNCHANGED <<at, held, traced, failure, branch, control, ended, struck>>

\* __exit__ shuts the pool down, and joins its threads one after another; between two of them
\* there are lines, where the worker is leaving again.
Leave ==
    /\ Line("leaving")
    /\ IF \E b \in Branches : branch[b] \in Live
       THEN \E b \in Branches : branch[b] \in Live /\ at' = b /\ place' = "joining"
       ELSE place' = AfterPool /\ UNCHANGED at
    /\ UNCHANGED <<held, traced, failure, branch, control, ended, struck>>

Joined ==
    /\ place = "joining" /\ Done(at)
    /\ place' = "leaving"
    /\ UNCHANGED <<at, held, traced, failure, branch, control, ended, struck>>

\* The script has come to its end, ...
Finally ==
    /\ Line("script")
    /\ place' = "releasing"
    /\ UNCHANGED <<at, held, traced, failure, branch, control, ended, struck>>

\* ... the plugins are disconnected, and _exec_script says how it ended.
Release ==
    /\ Line("releasing")
    /\ place' = "over"
    /\ ended' = IF ~traced THEN "stopped" ELSE IF failure # 0 THEN "failed" ELSE "ok"
    /\ UNCHANGED <<at, held, traced, failure, branch, control, struck>>

-----------------------------------------------------------------------------
(***************************************************************************)
(* A branch, in its thread.                                                *)
(***************************************************************************)
Turn(b, s) ==
    /\ branch' = [branch EXCEPT ![b] = s]
    /\ UNCHANGED <<worker, control, ended, struck>>

Finish(b) == branch[b] = "running" /\ \E how \in {"ok", "failed"} : Turn(b, how)

\* It waits for an instrument, which may never get there; ...
Wait(b)   == branch[b] = "running" /\ Turn(b, "waiting")
Arrive(b) == branch[b] = "waiting" /\ Turn(b, "running")

\* Mutant: the wait does not look at the stop event.
HearNothing(b) == branch[b] = "waiting" /\ ~stop /\ Turn(b, "running")

\* ... the stop event ends the wait, and the branch goes on.
HearStop(b) == branch[b] = "waiting" /\ stop /\ Turn(b, "running")

-----------------------------------------------------------------------------
WorkerStep ==
    \/ Enter \/ Submit \/ Block \/ Unblock \/ Collect \/ Leave \/ Joined \/ Finally \/ Release
    \/ Interrupt

Next ==
    \/ Stop \/ Pause \/ Resume \/ Hold \/ WorkerStep
    \/ \E b \in Branches : Finish(b) \/ Wait(b) \/ Arrive(b) \/ HearStop(b)

\* Threads go on; a branch that may end or begin another wait ends in the end.
Spec ==
    /\ Init /\ [][Next]_vars
    /\ WF_vars(WorkerStep)
    /\ \A b \in Branches : SF_vars(Finish(b)) /\ WF_vars(HearStop(b))

-----------------------------------------------------------------------------
(***************************************************************************)
(* Properties.                                                             *)
(***************************************************************************)
\* A Stop ends the script, paused or not, though it does not reach the branches.
StopEnds == stop ~> place = "over"

\* The docstring of RunParallelPlugin: "blocks until every submitted branch has completed.  If
\* a branch fails, all other submitted branches are still allowed to finish".  But a Stop
\* that is raised while the worker waits for them lets the finally disconnect the plugins.
WaitsForAll == place \in {"releasing", "over"} => \A b \in Branches : branch[b] \notin Live

\* docs/sequence_execution.rst: "Pause pauses/resumes execution".  But not of the branches.
PauseHolds == [][held /\ held' => UNCHANGED branch]_vars

-----------------------------------------------------------------------------
(***************************************************************************)
(* What the proofs need beside these.                                      *)
(***************************************************************************)
Places == {"script", "submitting", "collecting", "blocked", "leaving", "joining", "releasing",
           "over"}

\* The variables keep their types.
TypeOK ==
    /\ place \in Places /\ at \in Branches /\ failure \in 0 .. N
    /\ branch \in [Branches -> Live \cup {"new", "ok", "failed"}]
    /\ ended \in {"no", "ok", "failed", "stopped"}
    /\ held \in BOOLEAN /\ traced \in BOOLEAN /\ stop \in BOOLEAN /\ paused \in BOOLEAN
    /\ struck \in BOOLEAN

AllGood == \A b \in Branches : branch[b] \in {"new", "ok"}

\* What the worker knows of the branches at each place: until it has taken a failure or the
\* Stop it goes on from a container only when all its branches are good.
WorkerKnows ==
    /\ place \in {"script", "submitting", "collecting", "blocked"} => traced /\ failure = 0
    /\ place \in {"collecting", "blocked"} => \A b \in 1 .. at - 1 : branch[b] = "ok"
    /\ place \in {"script", "leaving", "joining", "releasing"} /\ traced /\ failure = 0 => AllGood
    /\ traced => ~struck
    /\ ended = "ok" => place = "over" /\ AllGood

\* The inductive invariant.
IInv == TypeOK /\ WorkerKnows /\ ReleasedAfterBranches /\ FailureReported
=============================================================================
