-------------------------- MODULE AttemptLedgerProofs --------------------------
(***************************************************************************)
(* What holds of everything that implements AttemptLedger.                  *)
(***************************************************************************)
EXTENDS AttemptLedger, TLAPS

Counts == attempts \in Nat /\ open \in Nat /\ handed \in Nat

LedgerInv == Counts /\ confirmed \in BOOLEAN /\ Prepaid /\ Earned

\* What a step does to the three counters.
LEMMA CountsStep ==
    ASSUME Counts, Next
    PROVE  Counts' /\ (Prepaid => Prepaid') /\ (handed > 0 => handed' > 0)
<1>1. CASE Enter
  <2>1. attempts' = attempts + 1 /\ open' \in {open, open + 1} /\ handed' = handed
    BY <1>1, Zenon DEF Enter
  <2>2. CASE open' = open
    BY <2>1, <2>2 DEF Counts, Prepaid
  <2>3. CASE open' = open + 1
    BY <2>1, <2>3 DEF Counts, Prepaid
  <2> QED
    BY <2>1, <2>2, <2>3
<1>2. CASE HandOver
  BY <1>2 DEF HandOver, Counts, Prepaid
<1>3. CASE Abandon
  BY <1>3 DEF Abandon, Counts, Prepaid
<1>4. CASE Confirm \/ Retract
  BY <1>4 DEF Confirm, Retract, Counts, Prepaid
<1> QED
  BY <1>1, <1>2, <1>3, <1>4 DEF Next

\* What it does to what is reported.
LEMMA ReportStep ==
    ASSUME Next, confirmed \in BOOLEAN
    PROVE  confirmed' \in BOOLEAN /\ (confirmed' => confirmed \/ handed > 0)
<1>1. CASE Enter \/ HandOver \/ Abandon
  <2>1. confirmed' = confirmed \/ confirmed' = FALSE
    BY <1>1, Zenon DEF Enter, HandOver, Abandon
  <2>2. CASE confirmed' = confirmed
    BY <2>2, Zenon
  <2>3. CASE confirmed' = FALSE
    BY <2>3, Zenon
  <2> QED
    BY <2>1, <2>2, <2>3, Zenon
<1>2. CASE Confirm
  BY <1>2, Zenon DEF Confirm
<1>3. CASE Retract
  BY <1>3, Zenon DEF Retract
<1> QED
  BY <1>1, <1>2, <1>3 DEF Next

LEMMA LedgerStep == LedgerInv /\ [Next]_ledgerVars => LedgerInv'
<1> SUFFICES ASSUME LedgerInv, [Next]_ledgerVars PROVE LedgerInv'
  OBVIOUS
<1>1. CASE Next
  <2>1. Counts /\ Prepaid /\ confirmed \in BOOLEAN /\ (confirmed => handed > 0)
    BY DEF LedgerInv, Earned
  <2>2. Counts' /\ Prepaid' /\ (handed > 0 => handed' > 0)
    BY <1>1, <2>1, CountsStep
  <2>3. confirmed' \in BOOLEAN /\ (confirmed' => confirmed \/ handed > 0)
    BY <1>1, <2>1, ReportStep
  <2>4. Earned'
    BY <2>1, <2>2, <2>3 DEF Earned
  <2> QED
    BY <2>2, <2>3, <2>4 DEF LedgerInv
<1>2. CASE UNCHANGED ledgerVars
  BY <1>2 DEF ledgerVars, LedgerInv, Counts, Prepaid, Earned
<1> QED
  BY <1>1, <1>2

LEMMA LedgerInit == Init => LedgerInv
<1> SUFFICES ASSUME Init PROVE LedgerInv
  OBVIOUS
<1>1. Counts /\ Prepaid
  BY DEF Init, Counts, Prepaid
<1>2. confirmed \in BOOLEAN /\ Earned
  BY DEF Init, Earned
<1> QED
  BY <1>1, <1>2 DEF LedgerInv

\* Whatever implements the ledger hands over no more than it has counted, and reports
\* success of what it handed over only: so do the rows of mail and notifications
\* (enterprise/tasks.py:83-205), assurance occurrences (enterprise/tasks.py:389-480),
\* scheduled occurrences (services/scheduled_execution.py:645-883) and publications
\* (services/detection_engineering.py:524-655).
THEOREM LedgerHolds == Spec => [](Prepaid /\ Earned)
<1>1. Init => LedgerInv
  BY LedgerInit
<1>2. LedgerInv /\ [Next]_ledgerVars => LedgerInv'
  BY LedgerStep
<1>3. LedgerInv => Prepaid /\ Earned
  BY DEF LedgerInv
<1> QED
  BY <1>1, <1>2, <1>3, PTL DEF Spec
=============================================================================
