------------------------------ MODULE ScanOutcome ------------------------------
(***************************************************************************)
(* A Scan as those see it who only wait for its outcome, above all          *)
(* ContinuousAssurance: without engine executions, control calls, retries,  *)
(* messages and workers.  It is open until a task that was published for    *)
(* it, or a cancellation, ends it; an outcome is committed together with    *)
(* its evidence; and what has ended can be opened again.                    *)
(***************************************************************************)
VARIABLES
    status,   \* "open", or how it ended: "done", "failed", "cancelled"
    asked,    \* a scanner task was published for it
    scanned   \* a task has committed an outcome with its evidence

outcomeVars == <<status, asked, scanned>>

Init == status = "open" /\ asked = FALSE /\ scanned = FALSE

Ask == asked' = TRUE /\ UNCHANGED <<status, scanned>>

\* A user starts or restarts it, or a task writes RUNNING over what it says.
Reopen == status' = "open" /\ UNCHANGED <<asked, scanned>>

\* COMPLETED or PARTIAL, whatever the status is by then.
Complete == asked /\ status' = "done" /\ scanned' = TRUE /\ asked' = asked

\* A task is refused, gives up, or has seen that the scan was cancelled.
Fail == asked /\ status' \in {"failed", "cancelled"} /\ UNCHANGED <<asked, scanned>>

Cancel == status = "open" /\ status' = "cancelled" /\ UNCHANGED <<asked, scanned>>

Next == Ask \/ Reopen \/ Complete \/ Fail \/ Cancel

Spec == Init /\ [][Next]_outcomeVars

-----------------------------------------------------------------------------
\* A scan is done after an outcome was committed with its evidence, and failed after
\* a task was published for it.
EndsAreEarned == (status = "done" => scanned) /\ (status = "failed" => asked)
=============================================================================
