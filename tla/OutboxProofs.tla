------------------------------ MODULE OutboxProofs ------------------------------
(***************************************************************************)
(* Theorems about Outbox, for any number of workers, attempts and retries.  *)
(*                                                                          *)
(* Whatever the row says, a sender that stands between its claim and its    *)
(* transport owns one of the attempts that were counted, and one that was   *)
(* told "taken" has put a delivery outside: Support says both.              *)
(***************************************************************************)
EXTENDS Outbox, FiniteSetTheorems, TLAPS

Support ==
    /\ IsFiniteSet(Sending)
    /\ order => kind = "report"
    /\ \A w \in Workers : worker[w].at = "taken" => accepted > 0

Inv == TypeOK /\ EachAttemptDeliversOnce /\ SentWasAccepted /\ Support

-----------------------------------------------------------------------------
(* Types.                                                                   *)

LEMMA MessagesTyped ==
    /\ Fresh \in Messages
    /\ \A m \in Messages : Again(m) \in Messages /\ Again(m).retries = m.retries
    /\ \A m \in Messages : RetryOf(m) \subseteq Messages
<1>1. 0 \in 0..MaxRetries /\ \A n \in 0..MaxRetries : n < MaxRetries => n + 1 \in 0..MaxRetries
  BY LimitAssumption
<1>2. Fresh \in Messages
  BY <1>1 DEF Fresh, Messages
<1>3. \A m \in Messages : Again(m) \in Messages /\ Again(m).retries = m.retries
  BY DEF Messages, Again
<1>4. ASSUME NEW m \in Messages PROVE RetryOf(m) \subseteq Messages
  <2>1. m.retries \in 0..MaxRetries
    BY DEF Messages
  <2>2. CASE m.retries < MaxRetries
    <3>1. m.retries + 1 \in 0..MaxRetries
      BY <1>1, <2>1, <2>2
    <3> QED
      BY <2>2, <3>1 DEF RetryOf, Messages
  <2>3. CASE ~(m.retries < MaxRetries)
    BY <2>3 DEF RetryOf
  <2> QED
    BY <2>2, <2>3
<1> QED
  BY <1>2, <1>3, <1>4

LEMMA InitTyped == Init => TypeOK
<1> SUFFICES ASSUME Init PROVE TypeOK
  OBVIOUS
<1>1. row \in [status : Statuses, attempts : 0..MaxTaken, stale : BOOLEAN]
  BY LimitAssumption DEF Init, Statuses
<1>2. worker \in [Workers -> [at : Steps, message : Messages]]
  BY MessagesTyped DEF Init, Idle, Steps
<1> QED
  BY <1>1, <1>2 DEF Init, TypeOK, Kinds

\* What a worker's step does to its record.
LEMMA GotoTyped ==
    ASSUME TypeOK, NEW w \in Workers, NEW step \in Steps, Goto(w, step)
    PROVE  /\ worker' \in [Workers -> [at : Steps, message : Messages]]
           /\ worker'[w].at = step /\ worker'[w].message = worker[w].message
           /\ \A v \in Workers : v # w => worker'[v] = worker[v]
BY DEF TypeOK, Goto

LEMMA IdleTyped ==
    ASSUME TypeOK, NEW w \in Workers, worker' = [worker EXCEPT ![w] = Idle]
    PROVE  /\ worker' \in [Workers -> [at : Steps, message : Messages]]
           /\ worker'[w].at = "idle"
           /\ \A v \in Workers : v # w => worker'[v] = worker[v]
BY MessagesTyped DEF TypeOK, Idle, Steps

LEMMA PutTyped ==
    ASSUME TypeOK, NEW status \in Statuses, Put(status)
    PROVE  /\ row' \in [status : Statuses, attempts : 0..MaxTaken, stale : BOOLEAN]
           /\ row'.status = status /\ row'.attempts = row.attempts
BY DEF TypeOK, Put

LEMMA TakeTyped ==
    ASSUME TypeOK, NEW w \in Workers, NEW m \in queue, Take(w, m)
    PROVE  TypeOK'
<1>1. row' \in [status : Statuses, attempts : 0..MaxTaken, stale : BOOLEAN]
  BY LimitAssumption DEF Take, TypeOK, Statuses
<1>2. worker' \in [Workers -> [at : Steps, message : Messages]]
  BY DEF Take, Held, TypeOK, Steps
<1> QED
  BY <1>1, <1>2 DEF Take, TypeOK

LEMMA WorkTyped ==
    ASSUME TypeOK, NEW w \in Workers, Work(w)
    PROVE  TypeOK'
<1>1. ASSUME Hand(w) PROVE TypeOK'
  BY <1>1, GotoTyped DEF Hand, TypeOK, Steps
<1>2. ASSUME Refuse(w) PROVE TypeOK'
  BY <1>2, GotoTyped DEF Refuse, TypeOK, Steps
<1>3. ASSUME RecordSent(w) PROVE TypeOK'
  <2>1. "sent" \in Statuses /\ "ack" \in Steps
    BY DEF Statuses, Steps
  <2> QED
    BY <1>3, <2>1, GotoTyped, PutTyped DEF RecordSent, TypeOK
<1>4. ASSUME RecordBreaks(w) PROVE TypeOK'
  BY <1>4, GotoTyped DEF RecordBreaks, TypeOK, Steps
<1>5. ASSUME RecordFailure(w) PROVE TypeOK'
  <2>1. "failed" \in Statuses /\ "ended" \in Steps
    BY DEF Statuses, Steps
  <2>2. row' \in [status : Statuses, attempts : 0..MaxTaken, stale : BOOLEAN]
    BY <1>5, <2>1, PutTyped DEF RecordFailure, TypeOK
  <2> QED
    BY <1>5, <2>1, <2>2, GotoTyped DEF RecordFailure, TypeOK
<1>6. ASSUME Retry(w) PROVE TypeOK'
  <2>1. worker[w].message \in Messages
    BY DEF TypeOK
  <2>2. queue' \subseteq Messages
    BY <1>6, <2>1, MessagesTyped DEF Retry, TypeOK
  <2> QED
    BY <1>6, <2>2, GotoTyped DEF Retry, TypeOK, Steps
<1>7. ASSUME Acknowledge(w) PROVE TypeOK'
  BY <1>7, IdleTyped DEF Acknowledge, TypeOK
<1>8. ASSUME FailureIsLost(w) PROVE TypeOK'
  BY <1>8, GotoTyped DEF FailureIsLost, TypeOK, Steps
<1> QED
  BY <1>1, <1>2, <1>3, <1>4, <1>5, <1>6, <1>7, <1>8 DEF Work

\* The broker's steps.
LEMMA ReturnTyped ==
    ASSUME TypeOK, NEW w \in Workers, Crash(w) \/ Redeliver(w)
    PROVE  TypeOK'
<1>1. Again(worker[w].message) \in Messages
  BY MessagesTyped DEF TypeOK
<1> QED
  BY <1>1, IdleTyped DEF Crash, Redeliver, TypeOK

\* A failed first transaction gives the queue a retry, the message, or both.
LEMMA FailureTyped ==
    ASSUME TypeOK, NEW w \in Workers, NEW m \in queue, TakeFails(w, m)
    PROVE  TypeOK'
<1>1. m \in Messages /\ Again(m) \in Messages /\ RetryOf(m) \subseteq Messages
  BY MessagesTyped DEF TypeOK
<1>2. queue' \subseteq Messages
  BY <1>1 DEF TakeFails, TypeOK
<1> QED
  BY <1>2 DEF TakeFails, TypeOK

\* Rows and files.
LEMMA CreateTyped ==
    ASSUME TypeOK, Create
    PROVE  /\ row' \in [status : Statuses, attempts : 0..MaxTaken, stale : BOOLEAN]
           /\ row'.status = "queued" /\ row'.attempts = row.attempts
           /\ queue' \subseteq Messages
BY MessagesTyped DEF TypeOK, Create, Statuses

LEMMA TypeStep == TypeOK /\ [Next]_vars => TypeOK'
<1> SUFFICES ASSUME TypeOK, [Next]_vars PROVE TypeOK'
  OBVIOUS
<1>1. ASSUME ExecuteReport PROVE TypeOK'
  BY <1>1, CreateTyped DEF ExecuteReport, TypeOK
<1>2. ASSUME EndOrder PROVE TypeOK'
  BY <1>2 DEF EndOrder, TypeOK
<1>3. ASSUME Notify PROVE TypeOK'
  BY <1>3, CreateTyped DEF Notify, TypeOK
<1>4. ASSUME NEW w \in Workers, Receive(w) PROVE TypeOK'
  <2>1. ASSUME NEW m \in queue, Answer(w, m) PROVE TypeOK'
    BY <2>1 DEF Answer, TypeOK
  <2> QED
    BY <1>4, <2>1, TakeTyped DEF Receive
<1>5. ASSUME NEW w \in Workers, Work(w) PROVE TypeOK'
  BY <1>5, WorkTyped
<1>6. ASSUME NEW w \in Workers, Crash(w) \/ Redeliver(w) PROVE TypeOK'
  BY <1>6, ReturnTyped
<1>7. ASSUME GrowStale PROVE TypeOK'
  BY <1>7 DEF GrowStale, TypeOK
<1>8. ASSUME Dispatch PROVE TypeOK'
  BY <1>8, MessagesTyped DEF Dispatch, TypeOK
<1>9. ASSUME Expire PROVE TypeOK'
  BY <1>9 DEF Expire, TypeOK
<1>10. CASE UNCHANGED vars
  BY <1>10 DEF vars, TypeOK
<1>11. ASSUME NEW w \in Workers, NEW m \in queue, TakeFails(w, m) PROVE TypeOK'
  BY <1>11, FailureTyped
<1> QED
  BY <1>1, <1>2, <1>3, <1>4, <1>5, <1>6, <1>7, <1>8, <1>9, <1>10, <1>11 DEF Next

\* Rows, messages and workers stay well typed, and attempts and retries within
\* their limits (enterprise/tasks.py:60-217).
THEOREM TypeCorrect == Spec => []TypeOK
<1>1. Init => TypeOK
  BY InitTyped
<1>2. TypeOK /\ [Next]_vars => TypeOK'
  BY TypeStep
<1> QED
  BY <1>1, <1>2, PTL DEF Spec

-----------------------------------------------------------------------------
(* Attempts.                                                                *)

\* The senders in "hand" and the accepted deliveries together change by no more
\* than the attempts do.
LEMMA NobodyTakes ==
    ASSUME Inv, TypeOK', accepted' = accepted, row'.attempts = row.attempts,
           \A v \in Workers : worker'[v].at = "hand" => worker[v].at = "hand"
    PROVE  IsFiniteSet(Sending)' /\ EachAttemptDeliversOnce'
<1>1. Sending' \in SUBSET Sending
  BY DEF Sending
<1>2. IsFiniteSet(Sending') /\ Cardinality(Sending') <= Cardinality(Sending)
  BY <1>1, FS_Subset DEF Inv, Support
<1>3. Cardinality(Sending) \in Nat /\ Cardinality(Sending') \in Nat
  BY <1>2, FS_CardinalityType DEF Inv, Support
<1> QED
  BY <1>2, <1>3 DEF Inv, TypeOK, EachAttemptDeliversOnce

LEMMA TakeCounts ==
    ASSUME Inv, NEW w \in Workers, NEW m \in queue, Take(w, m)
    PROVE  IsFiniteSet(Sending)' /\ EachAttemptDeliversOnce'
<1>1. Sending' = Sending \cup {w} /\ w \notin Sending
  BY DEF Sending, Take, Held, Inv, TypeOK
<1>2. IsFiniteSet(Sending') /\ Cardinality(Sending') = Cardinality(Sending) + 1
  BY <1>1, FS_AddElement DEF Inv, Support
<1>3. Cardinality(Sending) \in Nat
  BY FS_CardinalityType DEF Inv, Support
<1> QED
  BY <1>2, <1>3 DEF Inv, TypeOK, EachAttemptDeliversOnce, Take

LEMMA HandCounts ==
    ASSUME Inv, NEW w \in Workers, Hand(w)
    PROVE  IsFiniteSet(Sending)' /\ EachAttemptDeliversOnce'
<1>1. Sending' = Sending \ {w} /\ w \in Sending
  <2>1. "taken" \in Steps
    BY DEF Steps
  <2>2. worker'[w].at = "taken" /\ \A v \in Workers : v # w => worker'[v] = worker[v]
    BY <2>1, GotoTyped DEF Hand, Inv
  <2> QED
    BY <2>2 DEF Sending, Hand
<1>2. IsFiniteSet(Sending') /\ Cardinality(Sending') = Cardinality(Sending) - 1
  BY <1>1, FS_RemoveElement DEF Inv, Support
<1>3. Cardinality(Sending) \in Nat
  BY FS_CardinalityType DEF Inv, Support
<1> QED
  BY <1>2, <1>3 DEF Inv, TypeOK, EachAttemptDeliversOnce, Hand

-----------------------------------------------------------------------------
(* The invariant.                                                           *)

LEMMA InitInv == Init => Inv
<1> SUFFICES ASSUME Init PROVE Inv
  OBVIOUS
<1>1. TypeOK
  BY InitTyped
<1>2. Sending = {} /\ \A w \in Workers : worker[w].at = "idle"
  BY DEF Init, Idle, Sending
<1>3. IsFiniteSet(Sending) /\ Cardinality(Sending) = 0
  BY <1>2, FS_EmptySet
<1>4. row.status = "absent" /\ row.attempts = 0 /\ accepted = 0
  BY DEF Init
<1>5. EachAttemptDeliversOnce
  BY <1>3, <1>4 DEF EachAttemptDeliversOnce
<1>6. SentWasAccepted
  BY <1>4 DEF SentWasAccepted
<1>7. Support
  BY <1>2, <1>3 DEF Support, Init
<1> QED
  BY <1>1, <1>5, <1>6, <1>7 DEF Inv

LEMMA TakeInv ==
    ASSUME Inv, NEW w \in Workers, NEW m \in queue, Take(w, m)
    PROVE  Inv'
<1>1. TypeOK'
  BY TakeTyped DEF Inv
<1>2. row'.status = "sending" /\ accepted' = accepted /\ UNCHANGED <<order, kind>>
  BY DEF Take
<1>3. \A v \in Workers : worker'[v].at = "taken" => worker[v].at = "taken"
  BY DEF Take, Held, Inv, TypeOK
<1> QED
  BY <1>1, <1>2, <1>3, TakeCounts DEF Inv, Support, SentWasAccepted

LEMMA WorkInv ==
    ASSUME Inv, NEW w \in Workers, Work(w)
    PROVE  Inv'
<1>1. TypeOK' /\ UNCHANGED <<order, kind>>
  BY WorkTyped DEF Inv, Work, Hand, Refuse, RecordSent, RecordBreaks, RecordFailure, FailureIsLost,
                   Retry, Acknowledge
<1>2. accepted \in Nat /\ "sent" \in Statuses /\ "failed" \in Statuses
  BY DEF Inv, TypeOK, Statuses
<1>3. CASE Hand(w)
  <2>1. accepted' > 0 /\ row' = row
    BY <1>2, <1>3 DEF Hand
  <2> QED
    BY <1>1, <1>3, <2>1, HandCounts DEF Inv, Support, SentWasAccepted
<1>4. CASE ~Hand(w)
  <2>1. \E step \in Steps \ {"hand", "taken"} :
           \/ Goto(w, step)
           \/ worker' = [worker EXCEPT ![w] = Idle]
    BY <1>4 DEF Work, Refuse, RecordSent, RecordBreaks, RecordFailure, FailureIsLost, Retry,
                Acknowledge, Steps
  <2>2. \A v \in Workers : \A s \in {"hand", "taken"} : worker'[v].at = s => worker[v].at = s
    BY <2>1, GotoTyped, IdleTyped DEF Inv
  <2>3. accepted' = accepted
    BY <1>4 DEF Work, Refuse, RecordSent, RecordBreaks, RecordFailure, FailureIsLost, Retry,
                Acknowledge
  <2>4. row'.attempts = row.attempts /\ SentWasAccepted'
    <3>1. CASE RecordSent(w)
      BY <1>2, <2>3, <3>1, PutTyped DEF RecordSent, Inv, Support, SentWasAccepted
    <3>2. CASE RecordFailure(w)
      BY <1>2, <2>3, <3>2, PutTyped DEF RecordFailure, Inv, SentWasAccepted
    <3>3. CASE row' = row
      BY <2>3, <3>3 DEF Inv, SentWasAccepted
    <3> QED
      BY <1>4, <3>1, <3>2, <3>3 DEF Work, Refuse, RecordBreaks, FailureIsLost, Retry,
                                    Acknowledge
  <2>5. IsFiniteSet(Sending)' /\ EachAttemptDeliversOnce'
    BY <1>1, <2>2, <2>3, <2>4, NobodyTakes
  <2> QED
    BY <1>1, <2>2, <2>3, <2>4, <2>5 DEF Inv, Support
<1> QED
  BY <1>3, <1>4

\* The other steps send and count nothing.
LEMMA QuietInv ==
    ASSUME Inv, TypeOK', accepted' = accepted, row'.attempts = row.attempts,
           row'.status = "sent" => row.status = "sent",
           kind' = kind, order' => order,
           \A v \in Workers : \A s \in {"hand", "taken"} : worker'[v].at = s => worker[v].at = s
    PROVE  Inv'
BY NobodyTakes DEF Inv, Support, SentWasAccepted

LEMMA NextInv == Inv /\ [Next]_vars => Inv'
<1> SUFFICES ASSUME Inv, [Next]_vars PROVE Inv'
  OBVIOUS
<1>1. TypeOK /\ TypeOK'
  BY TypeStep DEF Inv
<1>2. ASSUME ExecuteReport \/ Notify PROVE Inv'
  <2>1. Create
    BY <1>2 DEF ExecuteReport, Notify
  <2>2. row'.status = "queued" /\ row'.attempts = row.attempts
    BY <1>1, <2>1, CreateTyped
  <2> QED
    BY <1>1, <1>2, <2>2, QuietInv DEF ExecuteReport, Notify
<1>3. ASSUME EndOrder PROVE Inv'
  BY <1>1, <1>3, QuietInv DEF EndOrder
<1>4. ASSUME NEW w \in Workers, Receive(w) PROVE Inv'
  <2>1. ASSUME NEW m \in queue, Answer(w, m) PROVE Inv'
    BY <1>1, <2>1, QuietInv DEF Answer
  <2> QED
    BY <1>4, <2>1, TakeInv DEF Receive
<1>5. ASSUME NEW w \in Workers, Work(w) PROVE Inv'
  BY <1>5, WorkInv
<1>6. ASSUME NEW w \in Workers, Crash(w) \/ Redeliver(w) PROVE Inv'
  <2>1. \A v \in Workers : \A s \in {"hand", "taken"} : worker'[v].at = s => worker[v].at = s
    BY <1>1, <1>6, IdleTyped DEF Crash, Redeliver
  <2> QED
    BY <1>1, <1>6, <2>1, QuietInv DEF Crash, Redeliver
<1>7. ASSUME GrowStale PROVE Inv'
  <2>1. row'.status = row.status /\ row'.attempts = row.attempts
    BY <1>1, <1>7 DEF GrowStale, TypeOK
  <2> QED
    BY <1>1, <1>7, <2>1, QuietInv DEF GrowStale
<1>8. ASSUME Dispatch \/ Expire PROVE Inv'
  BY <1>1, <1>8, QuietInv DEF Dispatch, Expire
<1>9. CASE \/ UNCHANGED vars
           \/ \E w \in Workers : \E m \in queue : TakeFails(w, m)
  BY <1>1, <1>9, QuietInv DEF TakeFails, vars
<1> QED
  BY <1>2, <1>3, <1>4, <1>5, <1>6, <1>7, <1>8, <1>9 DEF Next

\* The invariant holds in every reachable state, for any numbers of workers, attempts,
\* retries and take-overs (enterprise/tasks.py:60-217).
THEOREM Invariant == Spec => []Inv
<1>1. Init => Inv
  BY InitInv
<1>2. Inv /\ [Next]_vars => Inv'
  BY NextInv
<1> QED
  BY <1>1, <1>2, PTL DEF Spec

\* The copies a recipient can get are bounded by the attempts in the row, however
\* many workers take the delivery over (enterprise/tasks.py:60-129, 159-205).
THEOREM CopiesBounded == Spec => []EachAttemptDeliversOnce
<1>1. Inv => EachAttemptDeliversOnce
  BY DEF Inv
<1> QED
  BY <1>1, Invariant, PTL

\* SENT is said of what the transport took (enterprise/tasks.py:97-128, 167-204).
THEOREM SentIsReal == Spec => []SentWasAccepted
<1>1. Inv => SentWasAccepted
  BY DEF Inv
<1> QED
  BY <1>1, Invariant, PTL

-----------------------------------------------------------------------------
(* Sent notifications.                                                      *)

LEMMA SentStep ==
    ASSUME Inv, [Next]_vars, kind = "notification", row.status = "sent"
    PROVE  row'.status = "sent"
<1>1. ~ExecuteReport /\ ~Notify
  BY DEF ExecuteReport, Notify, Inv, Support
<1>2. ASSUME NEW w \in Workers, Receive(w) PROVE row' = row
  BY <1>2 DEF Receive, Answer, Take
<1>3. ASSUME NEW w \in Workers, Work(w) PROVE row'.status = "sent"
  BY <1>3 DEF Work, Hand, Refuse, RecordSent, RecordBreaks, RecordFailure, FailureIsLost,
              Retry, Acknowledge, Put, Inv, TypeOK
<1>4. ~GrowStale
  BY DEF GrowStale
<1> QED
  BY <1>1, <1>2, <1>3, <1>4 DEF Next, TakeFails, EndOrder, Crash, Redeliver, Dispatch, Expire,
                               vars

\* A notification that was sent stays sent, however late an overtaken sender fails
\* (enterprise/tasks.py:204).
THEOREM NotificationStaysSent == Spec => SentNotificationIsFinal
<1>1. Inv /\ [Next]_vars =>
        [kind = "notification" /\ row.status = "sent" => row'.status = "sent"]_vars
  BY SentStep
<1> QED
  BY <1>1, Invariant, PTL DEF Spec, SentNotificationIsFinal

-----------------------------------------------------------------------------
(* The ledger of attempts: Outbox implements AttemptLedger.                 *)

\* The row counts, a sender before its transport is open, the transport is outside.
Ledger == INSTANCE AttemptLedger WITH
            attempts <- row.attempts,
            open <- Cardinality(Sending),
            handed <- accepted,
            confirmed <- (row.status = "sent")

LEMMA SendersStay ==
    ASSUME \A v \in Workers : worker'[v].at = "hand" <=> worker[v].at = "hand"
    PROVE  Cardinality(Sending)' = Cardinality(Sending)
<1>1. Sending' = Sending
  BY DEF Sending
<1> QED
  BY <1>1

\* A sender that leaves "hand" and writes nothing hands over or gives up.
LEMMA SenderLeaves ==
    ASSUME Inv, NEW w \in Workers, worker[w].at = "hand", worker'[w].at # "hand",
           \A v \in Workers : v # w => worker'[v] = worker[v], row' = row
    PROVE  /\ accepted' = accepted + 1 => Ledger!HandOver
           /\ accepted' = accepted => Ledger!Abandon
<1>1. Sending' = Sending \ {w} /\ w \in Sending
  BY DEF Sending
<1>2. Cardinality(Sending') = Cardinality(Sending) - 1
  BY <1>1, FS_RemoveElement DEF Inv, Support
<1>3. IsFiniteSet(Sending') /\ Cardinality(Sending) \in Nat /\ Cardinality(Sending') \in Nat
  BY <1>1, FS_RemoveElement, FS_CardinalityType DEF Inv, Support
<1>4. Cardinality(Sending) > 0
  BY <1>2, <1>3
<1> QED
  BY <1>2, <1>4 DEF Ledger!HandOver, Ledger!Abandon

LEMMA TakeEnters ==
    ASSUME Inv, NEW w \in Workers, NEW m \in queue, Take(w, m)
    PROVE  Ledger!Enter
<1>1. Sending' = Sending \cup {w} /\ w \notin Sending
  BY DEF Sending, Take, Held, Inv, TypeOK
<1>2. Cardinality(Sending') = Cardinality(Sending) + 1
  BY <1>1, FS_AddElement DEF Inv, Support
<1>3. row.status # "sent" /\ row'.status # "sent" /\ row'.attempts = row.attempts + 1
  BY DEF Take
<1>4. accepted' = accepted
  BY DEF Take
<1> QED
  BY <1>2, <1>3, <1>4 DEF Ledger!Enter

\* Of a worker's steps, the transport hands over or gives up, SENT confirms, and
\* FAILED retracts.
LEMMA WorkInLedger ==
    ASSUME Inv, NEW w \in Workers, Work(w)
    PROVE  Ledger!Next \/ UNCHANGED Ledger!ledgerVars
<1>1. TypeOK /\ "sent" \in Statuses /\ "failed" \in Statuses
  BY DEF Inv, Statuses, Steps
<1>2. CASE Hand(w) \/ Refuse(w)
  <2>1. PICK step \in {"taken", "refused"} : Goto(w, step)
    BY <1>2 DEF Hand, Refuse
  <2>2. /\ worker'[w].at # "hand" /\ worker[w].at = "hand"
        /\ \A v \in Workers : v # w => worker'[v] = worker[v]
    BY <1>1, <1>2, <2>1, GotoTyped DEF Hand, Refuse, Steps
  <2>3. row' = row /\ (accepted' = accepted + 1 \/ accepted' = accepted)
    BY <1>2 DEF Hand, Refuse
  <2> QED
    BY <2>2, <2>3, SenderLeaves DEF Ledger!Next
<1>3. CASE \/ RecordSent(w) \/ RecordBreaks(w) \/ RecordFailure(w) \/ FailureIsLost(w)
           \/ Retry(w) \/ Acknowledge(w)
  <2>1. \/ \E step \in Steps \ {"hand"} : Goto(w, step)
        \/ worker' = [worker EXCEPT ![w] = Idle]
    BY <1>3 DEF RecordSent, RecordBreaks, RecordFailure, FailureIsLost, Retry, Acknowledge, Steps
  <2>2. worker[w].at # "hand"
    BY <1>3 DEF RecordSent, RecordBreaks, RecordFailure, FailureIsLost, Retry, Acknowledge
  <2>3. \A v \in Workers : worker'[v].at = "hand" <=> worker[v].at = "hand"
    BY <1>1, <2>1, <2>2, GotoTyped, IdleTyped
  <2>4. Cardinality(Sending)' = Cardinality(Sending)
    BY <2>3, SendersStay
  <2>5. accepted' = accepted
    BY <1>3 DEF RecordSent, RecordBreaks, RecordFailure, FailureIsLost, Retry, Acknowledge
  <2>6. CASE RecordSent(w)
    <3>1. row'.status = "sent" /\ row'.attempts = row.attempts
      BY <1>1, <2>6, PutTyped DEF RecordSent
    <3>2. accepted > 0
      BY <2>6 DEF RecordSent, Inv, Support
    <3>3. Ledger!Confirm
      BY <2>4, <2>5, <3>1, <3>2 DEF Ledger!Confirm
    <3> QED
      BY <3>3 DEF Ledger!Next
  <2>7. CASE Put("failed")
    <3>1. row'.status # "sent" /\ row'.attempts = row.attempts
      BY <1>1, <2>7, PutTyped
    <3>2. Ledger!Retract
      BY <2>4, <2>5, <3>1 DEF Ledger!Retract
    <3> QED
      BY <3>2 DEF Ledger!Next
  <2>8. CASE row' = row
    BY <2>4, <2>5, <2>8 DEF Ledger!ledgerVars
  <2> QED
    BY <1>3, <2>6, <2>7, <2>8 DEF RecordBreaks, RecordFailure, FailureIsLost, Retry,
                                  Acknowledge
<1> QED
  BY <1>2, <1>3 DEF Work

LEMMA CrashInLedger ==
    ASSUME Inv, NEW w \in Workers, Crash(w)
    PROVE  Ledger!Next \/ UNCHANGED Ledger!ledgerVars
<1>1. /\ worker'[w].at = "idle" /\ row' = row /\ accepted' = accepted
      /\ \A v \in Workers : v # w => worker'[v] = worker[v]
  BY IdleTyped DEF Crash, Inv
<1>2. CASE worker[w].at = "hand"
  BY <1>1, <1>2, SenderLeaves DEF Ledger!Next
<1>3. CASE worker[w].at # "hand"
  <2>1. \A v \in Workers : worker'[v].at = "hand" <=> worker[v].at = "hand"
    BY <1>1, <1>3
  <2> QED
    BY <1>1, <2>1, SendersStay DEF Ledger!ledgerVars
<1> QED
  BY <1>2, <1>3

\* Outbox implements AttemptLedger, for either kind of row: whatever is redelivered,
\* retried, swept or overtaken, every step takes one attempt, moves one to the
\* outside, ends one, or changes what the row says (enterprise/tasks.py:60-217).
THEOREM OutboxKeepsLedger == Spec => Ledger!Spec
<1>1. Init => Ledger!Init
  <2> SUFFICES ASSUME Init PROVE Ledger!Init
    OBVIOUS
  <2>1. Sending = {}
    BY DEF Init, Idle, Sending
  <2>2. Cardinality(Sending) = 0
    BY <2>1, FS_EmptySet
  <2> QED
    BY <2>2 DEF Init, Ledger!Init
<1>2. Inv /\ [Next]_vars => [Ledger!Next]_(Ledger!ledgerVars)
  <2> SUFFICES ASSUME Inv, [Next]_vars PROVE Ledger!Next \/ UNCHANGED Ledger!ledgerVars
    OBVIOUS
  <2>1. CASE ExecuteReport \/ Notify
    <3>1. Create /\ UNCHANGED <<worker, accepted>>
      BY <2>1 DEF ExecuteReport, Notify
    <3>2. row'.status # "sent" /\ row'.attempts = row.attempts
      BY <3>1, CreateTyped DEF Inv
    <3>3. Cardinality(Sending)' = Cardinality(Sending)
      BY <3>1, SendersStay
    <3>4. Ledger!Retract
      BY <3>1, <3>2, <3>3 DEF Ledger!Retract
    <3> QED
      BY <3>4 DEF Ledger!Next
  <2>2. ASSUME NEW w \in Workers, Receive(w)
        PROVE  Ledger!Next \/ UNCHANGED Ledger!ledgerVars
    <3>1. ASSUME NEW m \in queue, Answer(w, m) PROVE UNCHANGED Ledger!ledgerVars
      BY <3>1, SendersStay DEF Answer, Ledger!ledgerVars
    <3> QED
      BY <2>2, <3>1, TakeEnters DEF Receive, Ledger!Next
  <2>3. CASE GrowStale
    <3>1. row'.status = row.status /\ row'.attempts = row.attempts
      BY <2>3 DEF GrowStale, Inv, TypeOK
    <3> QED
      BY <2>3, <3>1, SendersStay DEF GrowStale, Ledger!ledgerVars
  <2>4. CASE \/ EndOrder \/ Dispatch \/ Expire \/ UNCHANGED vars
             \/ \E w \in Workers : Redeliver(w) \/ \E m \in queue : TakeFails(w, m)
    <3>1. UNCHANGED <<row, worker, accepted>>
      BY <2>4 DEF EndOrder, Dispatch, Expire, vars, Redeliver, TakeFails
    <3> QED
      BY <3>1, SendersStay DEF Ledger!ledgerVars
  <2> QED
    BY <2>1, <2>2, <2>3, <2>4, WorkInLedger, CrashInLedger DEF Next
<1> QED
  BY <1>1, <1>2, Invariant, PTL DEF Spec, Ledger!Spec
=============================================================================
