----------------------------- MODULE AttemptLedger -----------------------------
(***************************************************************************)
(* What every outbox of AegisScan promises of one delivery, whatever its    *)
(* rows, messages, workers and leases look like: the counter in the row     *)
(* pays in advance for what leaves the process.  An attempt is counted      *)
(* before anything is handed over and pays for one copy; attempts and       *)
(* copies are never taken back; the success that the row reports rests on   *)
(* a copy, and is not attempted again as long as it is reported.            *)
(***************************************************************************)
EXTENDS Naturals

VARIABLES
    attempts,   \* attempts counted in the row
    open,       \* attempts that may still hand something over
    handed,     \* what left the process
    confirmed   \* the row reports success

ledgerVars == <<attempts, open, handed, confirmed>>

Init == attempts = 0 /\ open = 0 /\ handed = 0 /\ confirmed = FALSE

\* An attempt is counted; it may end in the same transaction.
Enter ==
    /\ ~confirmed
    /\ attempts' = attempts + 1
    /\ open' \in {open, open + 1}
    /\ UNCHANGED <<handed, confirmed>>

HandOver ==
    /\ open > 0
    /\ open' = open - 1 /\ handed' = handed + 1
    /\ UNCHANGED <<attempts, confirmed>>

\* An attempt ends with nothing handed over: its process dies, or an error that it
\* may write over what the row reports.
Abandon ==
    /\ open > 0
    /\ open' = open - 1 /\ confirmed' \in {confirmed, FALSE}
    /\ UNCHANGED <<attempts, handed>>

Confirm == handed > 0 /\ confirmed' = TRUE /\ UNCHANGED <<attempts, open, handed>>

\* The row reports something else from now on.
Retract == confirmed' = FALSE /\ UNCHANGED <<attempts, open, handed>>

Next == Enter \/ HandOver \/ Abandon \/ Confirm \/ Retract

Spec == Init /\ [][Next]_ledgerVars

-----------------------------------------------------------------------------
LedgerOK ==
    /\ attempts \in Nat /\ open \in Nat /\ handed \in Nat
    /\ confirmed \in BOOLEAN

\* What was handed over, and what may still be, was counted first.
Prepaid == handed + open <= attempts

\* Success is reported of what was handed over.
Earned == confirmed => handed > 0
=============================================================================
