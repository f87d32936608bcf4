------------------------ MODULE MCFindingGovernance ------------------------
(* FindingGovernance for TLC in three scopes, one of which is chosen at the *)
(* start.  A state outside of its scope is checked, but not continued.      *)
EXTENDS FindingGovernance, TLC

VARIABLE scope

ScopedInit == Init /\ scope \in {"decisions", "deliveries", "runs"}
ScopedNext == Next /\ UNCHANGED scope
ScopedSpec == ScopedInit /\ [][ScopedNext]_<<vars, scope>>

\* One worker, and no message comes again.
OneDelivery ==
    /\ Cardinality({w \in Workers : worker[w].at # "idle"}) <= 1
    /\ \A r \in queue : run[r].status = "queued"

\* No disposition, and no request that reads before it writes: cancellation, poll, verification.
OneDecision ==
    /\ Cardinality({q \in Requests : request[q].status # "none"}) <= 1
    /\ \A q \in Requests : request[q].kind \notin Dispositions
    /\ finding.status \notin Dispositions
    /\ client.at = "idle"

\* Two decisions of all kinds on one run.
Decisions == OneDelivery /\ runs <= 1

\* Two workers on one run that is closed, or not.
Deliveries ==
    /\ OneDecision /\ runs <= 1
    /\ finding.status \notin Verdicts
    /\ \A q \in Requests : request[q].kind \notin Verdicts

\* A second run, once the first was taken, up to a closure.
TwoRuns ==
    /\ OneDecision /\ OneDelivery
    /\ finding.version <= 2 /\ finding.status # "fixed"
    /\ runs = 2 => 1 \notin queue

InScope ==
    CASE scope = "decisions"  -> Decisions
      [] scope = "deliveries" -> Deliveries
      [] scope = "runs"       -> TwoRuns

\* Persons, decisions and worker processes are interchangeable.
Symmetry == Permutations(Users) \cup Permutations(Requests) \cup Permutations(Workers)
=============================================================================
