----------------------------- MODULE BranchState ------------------------------
(***************************************************************************)
(* What a Run Parallel container keeps, with the worker and its tracer,    *)
(* and what must hold of it.  ParallelBranches is how the code changes it. *)
(***************************************************************************)
EXTENDS Naturals

CONSTANT N    \* the branches of the container

ASSUME BranchesAssumption == N \in Nat \ {0}

Branches == 1 .. N

VARIABLES
    place,     \* where the worker is
    at,        \* the branch it submits, or whose result or thread it is at
    held,      \* whether it is in the tracer, in pause_event.wait()
    traced,    \* whether it is traced
    failure,   \* the branch whose exception it has taken, 0 for none
    branch,    \* where each branch is
    stop,      \* the stop event
    paused,    \* whether the pause event is cleared
    ended,     \* how the script ended
    struck     \* history: whether the Stop was raised between the joins of live branches

Live == {"running", "waiting"}

-----------------------------------------------------------------------------
\* The plugins are disconnected when no branch uses them any more, whether the branches ended,
\* failed or the Stop came, and in whatever order.  But for a Stop that is raised while the
\* worker leaves the pool, see WaitsForAll.
ReleasedAfterBranches ==
    place \in {"releasing", "over"} /\ ~struck => \A b \in Branches : branch[b] \notin Live

\* A script with a failed branch ends as failed, with the first one in the order of the
\* branches, or as stopped; it never succeeds, and no other step is taken after the container.
FailureReported ==
    /\ place = "script" \/ ended = "ok" => \A b \in Branches : branch[b] \in {"new", "ok"}
    /\ failure # 0 => \A b \in 1 .. failure - 1 : branch[b] = "ok"
=============================================================================
