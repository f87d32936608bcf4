------------------------------ MODULE MCScanScopes ------------------------------
(* ScanLifecycle for TLC in two scopes, one of which is chosen at the start: *)
(* many workers on one task, or many requests with one worker.  A state      *)
(* outside of its scope is checked, but not continued.                       *)
EXTENDS ScanLifecycle, TLC

VARIABLE scope

ScopedInit == Init /\ scope \in {"one task", "one worker"}
ScopedNext == Next /\ UNCHANGED scope
ScopedSpec == ScopedInit /\ [][ScopedNext]_<<vars, scope>>

IdleCallers == {c \in Callers : caller[c].pc = "idle"}

\* Two workers deal with one task, while users pause, resume and cancel; it is
\* retried, and commits twice.
OneTask ==
    /\ tasks <= 1 /\ scan.status # "pending"
    /\ Cardinality(Callers \ IdleCallers) <= 1
    /\ \A c \in Callers : caller[c].pc \notin {"read", "save"}

\* Two requests start and restart the scan, with a worker to run its tasks; nobody
\* pauses, and no retry is taken up.
OneWorker ==
    /\ Cardinality({w \in Workers : worker[w].pc # "idle"}) <= 1
    /\ scan.status # "paused"
    /\ \A m \in queue : m.retries = 0
    /\ \A i \in TaskIds : evidence[i] <= 1

InScope == IF scope = "one task" THEN OneTask ELSE OneWorker

\* Worker processes and API requests are interchangeable.
Symmetry == Permutations(Workers) \cup Permutations(Callers)
=============================================================================
