--------------------------------- MODULE Outbox ---------------------------------
(***************************************************************************)
(* The two delivery outboxes of enterprise/tasks.py: a recipient's copy of  *)
(* a scheduled report (execute_report_schedule, deliver_scheduled_report)   *)
(* and a notification (send_notification).  Rows share nothing but the      *)
(* limit of a dispatcher's pass, so there is one row, of either kind.       *)
(*                                                                          *)
(* A row is claimed in one transaction, handed to the mail server or        *)
(* channel outside of any, and its outcome is recorded in another one.      *)
(* Between them workers die, messages come again, a slow sender is          *)
(* overtaken by the ten-minute rule, and the report's file expires.         *)
(***************************************************************************)
EXTENDS Naturals, FiniteSets

CONSTANTS
    Workers,     \* worker processes
    Limit,       \* attempts__lt of the dispatchers (4 in the code)
    MaxRetries,  \* max_retries of the sending tasks (3 in the code)
    MaxTaken     \* bound: attempts that are taken at all

ASSUME LimitAssumption ==
    /\ Limit \in Nat \ {0}
    /\ MaxRetries \in Nat
    /\ MaxTaken \in Nat /\ MaxTaken >= Limit

VARIABLES
    kind,      \* which of the two outboxes the row belongs to
    order,     \* the message of execute_report_schedule is in its queue
    reports,   \* reports created for that order
    artifact,  \* the report's file: kept or gone
    row,       \* the delivery: status, attempts, and whether updated_at is stale
    queue,     \* messages of the sending task
    worker,    \* what each worker does, and the message it holds
    accepted   \* times the mail server or channel took the delivery

vars == <<kind, order, reports, artifact, row, queue, worker, accepted>>

Kinds == {"report", "notification"}
Statuses == {"absent", "queued", "sending", "sent", "failed"}

\* A message: how often it was retried, and the broker's "redelivered" flag.
Messages == [retries : 0..MaxRetries, again : BOOLEAN]
Fresh == [retries |-> 0, again |-> FALSE]
\* send_notification does not look at the flag.
Again(m) == [m EXCEPT !.again = (kind = "report")]

\* "hand": SENDING is committed; "taken", "refused": the transport has answered;
\* "ended": the failure is handled, the retry is not yet published;
\* "ack": nothing is left but to acknowledge the message.
Steps == {"idle", "hand", "taken", "refused", "ended", "ack"}
Idle == [at |-> "idle", message |-> Fresh]

Init ==
    /\ kind \in Kinds
    /\ order = (kind = "report")
    /\ reports = 0
    /\ artifact = "kept"
    /\ row = [status |-> "absent", attempts |-> 0, stale |-> FALSE]
    /\ queue = {}
    /\ worker = [w \in Workers |-> Idle]
    /\ accepted = 0

Put(status) == row' = [row EXCEPT !.status = status]
Goto(w, step) == worker' = [worker EXCEPT ![w].at = step]

-----------------------------------------------------------------------------
(* Where rows come from.                                                    *)

\* The row is committed; the message that on_commit publishes may be lost with
\* the process or the broker, which is swallowed (robust=True).
Create ==
    /\ row' = [row EXCEPT !.status = "queued"]
    /\ queue' \in {{}, {Fresh}}

\* execute_report_schedule in its one transaction.  The message is acknowledged
\* after it, so that it may come again.
ExecuteReport ==
    /\ order /\ reports = 0
    /\ reports' = 1
    /\ Create
    /\ order' \in BOOLEAN
    /\ UNCHANGED <<kind, artifact, worker, accepted>>

\* A redelivered order whose execution is COMPLETED, or whose schedule is
\* disabled, or that fails: rows stay as they are, and FAILED is not retried.
EndOrder ==
    /\ order
    /\ order' = FALSE
    /\ UNCHANGED <<kind, reports, artifact, row, queue, worker, accepted>>

\* create_security_event_notifications: get_or_create, then the same hook.
Notify ==
    /\ kind = "notification" /\ row.status = "absent"
    /\ Create
    /\ UNCHANGED <<kind, order, reports, artifact, worker, accepted>>

-----------------------------------------------------------------------------
(* The sending task.                                                        *)

\* SENDING by somebody else, not stale; a report's redelivered message is taken
\* to come from a worker that is gone, a notification's is not.
InProgress(m) ==
    /\ row.status = "sending" /\ ~row.stale
    /\ kind = "report" => ~m.again

Held(w, m) == worker' = [worker EXCEPT ![w] = [at |-> "hand", message |-> m]]

\* The first transaction, when it returns early.
Answer(w, m) ==
    /\ worker[w].at = "idle"
    /\ m \in queue
    /\ row.status = "sent" \/ InProgress(m)
    /\ queue' = queue \ {m}
    /\ UNCHANGED <<kind, order, reports, artifact, row, worker, accepted>>

\* Mutant: taking over a row in SENDING is not counted as an attempt.
TakeUncounted(w, m) ==
    /\ worker[w].at = "idle"
    /\ m \in queue
    /\ row.status \notin {"absent", "sent"} /\ ~InProgress(m)
    /\ row.attempts < MaxTaken
    /\ row' = [status |-> "sending", stale |-> FALSE,
               attempts |-> row.attempts + (IF row.status = "sending" THEN 0 ELSE 1)]
    /\ queue' = queue \ {m}
    /\ Held(w, m)
    /\ UNCHANGED <<kind, order, reports, artifact, accepted>>

\* The first transaction, when it claims the row.
Take(w, m) ==
    /\ worker[w].at = "idle"
    /\ m \in queue
    /\ row.status \notin {"absent", "sent"} /\ ~InProgress(m)
    /\ row.attempts < MaxTaken
    /\ row' = [status |-> "sending", attempts |-> row.attempts + 1, stale |-> FALSE]
    /\ queue' = queue \ {m}
    /\ Held(w, m)
    /\ UNCHANGED <<kind, order, reports, artifact, accepted>>

\* autoretry_for: the retry of a message is a new one.
RetryOf(m) ==
    IF m.retries < MaxRetries THEN {[retries |-> m.retries + 1, again |-> FALSE]} ELSE {}

\* The first transaction fails: nothing is claimed and no attempt is counted.  The
\* retry is published, unless the worker is lost before that; the message is
\* acknowledged, unless it is lost or too slow before that.
TakeFails(w, m) ==
    /\ worker[w].at = "idle"
    /\ m \in queue
    /\ \E left \in {RetryOf(m), {Again(m)}, RetryOf(m) \cup {Again(m)}} :
         queue' = (queue \ {m}) \cup left
    /\ UNCHANGED <<kind, order, reports, artifact, row, worker, accepted>>

\* The transport takes the message; a report needs its file.
Hand(w) ==
    /\ worker[w].at = "hand"
    /\ kind = "report" => artifact = "kept"
    /\ accepted' = accepted + 1
    /\ Goto(w, "taken")
    /\ UNCHANGED <<kind, order, reports, artifact, row, queue>>

\* The file is missing or altered, or the transport refuses.
Refuse(w) ==
    /\ worker[w].at = "hand"
    /\ Goto(w, "refused")
    /\ UNCHANGED <<kind, order, reports, artifact, row, queue, accepted>>

\* Mutant: SENT is written as soon as the row is claimed.
RecordEarly(w) ==
    /\ worker[w].at \in {"hand", "taken"}
    /\ Put("sent")
    /\ Goto(w, "ack")
    /\ UNCHANGED <<kind, order, reports, artifact, queue, accepted>>

\* SENT is written whatever the row says by now.
RecordSent(w) ==
    /\ worker[w].at = "taken"
    /\ Put("sent")
    /\ Goto(w, "ack")
    /\ UNCHANGED <<kind, order, reports, artifact, queue, accepted>>

\* Writing SENT fails: the delivery is accepted and yet goes to the handler.
RecordBreaks(w) ==
    /\ worker[w].at = "taken"
    /\ Goto(w, "refused")
    /\ UNCHANGED <<kind, order, reports, artifact, row, queue, accepted>>

\* Mutant: the failure of a notification is written over SENT, too.
FailAny(w) ==
    /\ worker[w].at = "refused"
    /\ Put("failed")
    /\ Goto(w, "ended")
    /\ UNCHANGED <<kind, order, reports, artifact, queue, accepted>>

\* The handler: a report's FAILED is unconditional, a notification's spares SENT.
RecordFailure(w) ==
    /\ worker[w].at = "refused"
    /\ IF kind = "notification" /\ row.status = "sent" THEN row' = row ELSE Put("failed")
    /\ Goto(w, "ended")
    /\ UNCHANGED <<kind, order, reports, artifact, queue, accepted>>

\* The handler's own write fails: the row stays in SENDING, and the retry comes all
\* the same.
FailureIsLost(w) ==
    /\ worker[w].at = "refused"
    /\ Goto(w, "ended")
    /\ UNCHANGED <<kind, order, reports, artifact, row, queue, accepted>>

\* Mutant: the last retry is one too many.
RetryOnceMore(w) ==
    /\ worker[w].at = "ended"
    /\ LET n == worker[w].message.retries IN
         IF n <= MaxRetries
         THEN queue' = queue \cup {[retries |-> n + 1, again |-> FALSE]}
         ELSE queue' = queue
    /\ Goto(w, "ack")
    /\ UNCHANGED <<kind, order, reports, artifact, row, accepted>>

\* The retry is published before the old message is acknowledged.
Retry(w) ==
    /\ worker[w].at = "ended"
    /\ queue' = queue \cup RetryOf(worker[w].message)
    /\ Goto(w, "ack")
    /\ UNCHANGED <<kind, order, reports, artifact, row, accepted>>

Acknowledge(w) ==
    /\ worker[w].at = "ack"
    /\ worker' = [worker EXCEPT ![w] = Idle]
    /\ UNCHANGED <<kind, order, reports, artifact, row, queue, accepted>>

-----------------------------------------------------------------------------
(* The broker, beat and time.                                               *)

\* The worker is lost: its message goes back (task_reject_on_worker_lost).
Crash(w) ==
    /\ worker[w].at # "idle"
    /\ queue' = queue \cup {Again(worker[w].message)}
    /\ worker' = [worker EXCEPT ![w] = Idle]
    /\ UNCHANGED <<kind, order, reports, artifact, row, accepted>>

\* The visibility timeout passes: the message comes again although its worker lives.
Redeliver(w) ==
    /\ worker[w].at # "idle"
    /\ queue' = queue \cup {Again(worker[w].message)}
    /\ UNCHANGED <<kind, order, reports, artifact, row, worker, accepted>>

\* Ten minutes without a write to the row.
GrowStale ==
    /\ row.status = "sending" /\ ~row.stale
    /\ row' = [row EXCEPT !.stale = TRUE]
    /\ UNCHANGED <<kind, order, reports, artifact, queue, worker, accepted>>

\* Mutant: the sweep does not collect stale SENDING rows.
UntriedOnly == row.status \in {"queued", "failed"} /\ row.attempts < Limit

\* Rows that dispatch_report_deliveries and dispatch_notification_deliveries collect.
Collected ==
    /\ row.status \in {"queued", "failed"} \/ (row.status = "sending" /\ row.stale)
    /\ row.attempts < Limit

\* What is collected may be published later: the queue keeps a message as long.
Dispatch ==
    /\ Collected
    /\ queue' = queue \cup {Fresh}
    /\ UNCHANGED <<kind, order, reports, artifact, row, worker, accepted>>

\* expire_report_exports deletes the file first: whether the transaction that marks
\* the export then commits makes no difference to the delivery.
Expire ==
    /\ kind = "report" /\ artifact = "kept" /\ reports > 0
    /\ artifact' = "gone"
    /\ UNCHANGED <<kind, order, reports, row, queue, worker, accepted>>

-----------------------------------------------------------------------------
Receive(w) == \E m \in queue : Answer(w, m) \/ Take(w, m)

Work(w) ==
    \/ Hand(w) \/ Refuse(w)
    \/ RecordSent(w) \/ RecordBreaks(w)
    \/ RecordFailure(w) \/ FailureIsLost(w) \/ Retry(w) \/ Acknowledge(w)

Next ==
    \/ ExecuteReport \/ EndOrder \/ Notify
    \/ \E w \in Workers :
         \/ Receive(w) \/ Work(w) \/ Crash(w) \/ Redeliver(w)
         \/ \E m \in queue : TakeFails(w, m)
    \/ GrowStale \/ Dispatch \/ Expire

Spec == Init /\ [][Next]_vars

\* A worker that is up takes its next step, somebody receives what stays in the
\* queue and finds a database that answers now and then, beat runs each dispatcher
\* every minute (celery_app.py:77-88), and time passes.  Nothing is assumed of crashes,
\* of the transport, of the handlers' writes or of files.
Fairness ==
    /\ \A w \in Workers : WF_vars(Work(w))
    /\ SF_vars(\E w \in Workers : Receive(w))
    /\ WF_vars(Dispatch)
    /\ WF_vars(GrowStale)

FairSpec == Spec /\ Fairness

-----------------------------------------------------------------------------
TypeOK ==
    /\ kind \in Kinds
    /\ order \in BOOLEAN
    /\ reports \in 0..1
    /\ artifact \in {"kept", "gone"}
    /\ row \in [status : Statuses, attempts : 0..MaxTaken, stale : BOOLEAN]
    /\ queue \subseteq Messages
    /\ worker \in [Workers -> [at : Steps, message : Messages]]
    /\ accepted \in Nat

\* A delivery reported as sent was really taken by the mail server or channel,
\* whichever workers overtook each other (enterprise/tasks.py:97-128, 167-204).
SentWasAccepted == row.status = "sent" => accepted > 0

Sending == {w \in Workers : worker[w].at = "hand"}

\* Every delivery to the outside is paid for by an attempt of its own: crashes,
\* redeliveries and overtaken senders never make two out of one attempt, so that
\* the attempts in the row bound the copies a recipient can get.
EachAttemptDeliversOnce == accepted + Cardinality(Sending) <= row.attempts

\* A notification that was sent stays sent, also when a sender that was overtaken
\* fails later (enterprise/tasks.py:204).  Reports have no such guard.
SentNotificationIsFinal ==
    [][kind = "notification" /\ row.status = "sent" => row'.status = "sent"]_vars

\* A delivery that was created is sent in the end, or has used up the attempts
\* the dispatcher grants it: no crash, lost message or overtaken sender makes it
\* disappear (enterprise/tasks.py:131-139, 207-216).
EveryDeliverySettles ==
    (row.status # "absent") ~> (row.status = "sent" \/ row.attempts >= Limit)
=============================================================================
