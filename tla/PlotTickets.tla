---------------------------- MODULE PlotTickets -----------------------------
(***************************************************************************)
(* What the plot dispatcher promises those who submit requests to it:      *)
(*                                                                         *)
(*   - a request is accepted once, a group as a whole;                     *)
(*   - the display answers in the order of acceptance, and every ticket    *)
(*     has one answer;                                                     *)
(*   - a member of a group that is not drawn takes all those behind it     *)
(*     with it, in the same moment;                                        *)
(*   - only waiting requests are cancelled, and a member of a group never  *)
(*     without those behind it;                                            *)
(*   - nothing waits, and nothing is drawn, once the service is closed.    *)
(*                                                                         *)
(* The queue, the turns of the GUI thread, its wake events and the         *)
(* displays are not visible here.                                          *)
(***************************************************************************)
EXTENDS Naturals, Sequences

CONSTANTS Requests, Batches, None

VARIABLES
    accepted,   \* the requests in the order of acceptance
    result,     \* the answer each ticket holds
    closed      \* the service was shut down

vars == <<accepted, result, closed>>

Answers == {"applied", "unsupported", "failed", "no_display"}
Holes   == {"unsupported", "failed"}

Listed(s) == {s[k] : k \in 1 .. Len(s)}

\* Accepted and not answered.
Waiting == {r \in Listed(accepted) : result[r] = None}

\* The waiting members of the groups of r, but for itself.
Rest(r) == {q \in Waiting \ {r} : \E b \in Batches : {q, r} \subseteq Listed(b)}

\* Every ticket of S holds this answer now.
Told(S, answer) == [q \in Requests |-> IF q \in S THEN answer ELSE result[q]]

Init ==
    /\ accepted = <<>> /\ closed = FALSE
    /\ result = [r \in Requests |-> None]

Submit(b) ==
    /\ Listed(b) \cap Listed(accepted) = {}
    /\ accepted' = accepted \o b
    /\ result' = IF closed THEN Told(Listed(b), "cancelled") ELSE result
    /\ UNCHANGED closed

Answer(k, status) ==
    /\ ~closed
    /\ accepted[k] \in Waiting
    /\ \A j \in 1 .. k - 1 : accepted[j] \notin Waiting
    /\ result' = IF status \in Holes
                 THEN [Told(Rest(accepted[k]), "cancelled") EXCEPT ![accepted[k]] = status]
                 ELSE [result EXCEPT ![accepted[k]] = status]
    /\ UNCHANGED <<accepted, closed>>

Cancel(S) ==
    /\ \A b \in Batches : \A j, k \in 1 .. Len(b) :
           j < k /\ b[j] \in S /\ b[k] \in Waiting => b[k] \in S
    /\ result' = Told(S, "cancelled")
    /\ UNCHANGED <<accepted, closed>>

Close ==
    /\ closed' = TRUE
    /\ result' = Told(Waiting, "cancelled")
    /\ UNCHANGED accepted

Next ==
    \/ \E b \in Batches \cup {<<r>> : r \in Requests} : Submit(b)
    \/ \E k \in 1 .. Len(accepted), status \in Answers : Answer(k, status)
    \/ \E S \in SUBSET Waiting : Cancel(S)
    \/ Close

Spec == Init /\ [][Next]_vars
=============================================================================
