---------------------------- MODULE MCScheduleScopes ----------------------------
(* ScheduledExecution for TLC in two scopes: two workers on one instant, or *)
(* one worker and two instants.  A state outside of both is checked, but    *)
(* not continued.                                                           *)
EXTENDS MCScheduledExecution, FiniteSets

\* Two workers deal with the occurrence of the first instant, while its lease runs
\* out and the authorization changes.
Takeover == now = 1 /\ schedule.next <= 2

\* The schedule goes through two instants, and back by an update; its occurrences
\* are attempted once, by one worker, and no lease runs out.
Instants ==
    /\ Cardinality({w \in Workers : worker[w].pc # "idle"}) <= 1
    /\ (\A w \in Workers : worker[w].pc = "idle") \/ (disp.pc = "idle" /\ queue = {})
    /\ auth # None
    /\ \A t \in Times : ~occ[t].stale /\ occ[t].attempts <= 1
    /\ \A m \in queue : m.retries = 0

InScope == Takeover \/ Instants
=============================================================================
