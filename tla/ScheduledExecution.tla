------------------------- MODULE ScheduledExecution -------------------------
(***************************************************************************)
(* Scheduled scans: fastapi_app/services/scheduled_execution.py and the    *)
(* Celery tasks around it, fastapi_app/tasks/scheduled_scans.py.           *)
(*                                                                         *)
(* One ScheduledScan row, its occurrences (one per scheduled_for), the     *)
(* dispatcher that beat starts every minute, the broker queue it feeds and *)
(* the workers that run execute_scheduled_occurrence.  Every database      *)
(* transaction is one action; what happens between two transactions of one *)
(* call (a publish, a crash, another worker) is an action of its own.      *)
(***************************************************************************)
EXTENDS Naturals, FiniteSets

CONSTANTS
    Workers,        \* Celery worker processes
    Auths,          \* AssetAuthorization decisions (ids in the contract)
    None,           \* no authorization, no scan
    MaxTime,        \* scheduled instants are 1..MaxTime (minutes)
    Grace,          \* how far in the past an update may set next_run
    MaxAttempts,    \* _MAX_EXECUTION_ATTEMPTS
    MaxRetries,     \* max_retries of run_scheduled_scan_execution
    MaxVersion,     \* bound: versions of the schedule
    MaxPolicy,      \* bound: values of SCHEDULE_POLICY_VERSION over deployments
    Undispatchable, \* versions bound to a capability that has no dispatcher
    OwnersLeave     \* whether schedule owners may be deleted

ASSUME BoundsAssumption ==
    /\ MaxTime \in Nat /\ Grace \in Nat /\ MaxRetries \in Nat
    /\ MaxAttempts \in Nat \ {0}
    /\ MaxVersion \in Nat \ {0}
    /\ MaxPolicy \in Nat \ {0}
    /\ Undispatchable \subseteq 1..MaxVersion
    /\ OwnersLeave \in BOOLEAN

ASSUME NoneAssumption == None \notin Auths

VARIABLES
    now,        \* the clock, in the unit of Times
    auth,       \* the asset's current authorization decision, or None
    policy,     \* SCHEDULE_POLICY_VERSION of the deployed code
    gone,       \* schedule versions whose created_by was deleted
    schedule,   \* the ScheduledScan row
    occ,        \* the ScheduledScanExecution rows, by scheduled_for
    scans,      \* the authorization in each occurrence's Scan contract
    published,  \* per occurrence, the attempts that published a scanner task
    queue,      \* run_scheduled_scan_execution messages in the broker
    worker,     \* what each worker process is doing
    disp        \* the running dispatch_due_scheduled_scans task

environment == <<now, auth, policy, gone>>
rows == <<schedule, occ, scans>>
vars == <<environment, rows, published, queue, worker, disp>>

Times    == 1..MaxTime
Versions == 1..MaxVersion
Policies == 1..MaxPolicy
Statuses == {"none", "claimed", "running", "dispatched", "blocked", "failed"}

Schedules == [active : BOOLEAN, version : Versions, next : 1..(MaxTime + 1),
              policy : Policies]
\* "none" is the absence of a row; stale: updated_at is older than the lease;
\* sent: celery_task_id is set.
Occurrences == [status : Statuses, version : Nat, policy : Nat,
                attempts : 0..MaxAttempts, auth : Auths \cup {None},
                stale : BOOLEAN, sent : BOOLEAN]
Messages == [occ : Times, retries : 0..MaxRetries]
Stages   == {"idle", "bind", "persist", "publish", "record", "audit",
             "block", "fail"}
WorkerStates == [pc : Stages, occ : 0..MaxTime, attempt : 0..MaxAttempts,
                 auth : Auths \cup {None}, retries : 0..MaxRetries]
DispatcherStates == [pc : {"idle", "collect", "send", "note"},
                     batch : SUBSET Times, cur : 0..MaxTime]

NoOccurrence == [status |-> "none", version |-> 0, policy |-> 0, attempts |-> 0,
                 auth |-> None, stale |-> FALSE, sent |-> FALSE]
IdleWorker == [pc |-> "idle", occ |-> 0, attempt |-> 0, auth |-> None,
               retries |-> 0]
IdleDispatcher == [pc |-> "idle", batch |-> {}, cur |-> 0]

\* create_canonical_schedule has just committed: version 1, active, and the
\* binding it validated was authorized.
Init ==
    /\ now = 1
    /\ auth \in Auths
    /\ policy = 1
    /\ gone = {}
    /\ \E t \in 1..(MaxTime + 1) :
         /\ t + Grace >= now
         /\ schedule = [active |-> TRUE, version |-> 1, next |-> t, policy |-> 1]
    /\ occ = [t \in Times |-> NoOccurrence]
    /\ scans = [t \in Times |-> None]
    /\ published = [t \in Times |-> {}]
    /\ queue = {}
    /\ worker = [w \in Workers |-> IdleWorker]
    /\ disp = IdleDispatcher

-----------------------------------------------------------------------------
(* Reads and writes shared by the operations.                              *)

\* _normalize_binding: the actor is still there and the asset is authorized.
BindingValid(version) == auth # None /\ version \notin gone

Incomplete == schedule.version \in gone

Due == schedule.active /\ schedule.next <= now

Settled(t) == occ[t].status \in {"dispatched", "blocked"}

\* Mutant: an occurrence whose first enqueue was lost is not swept up.
RetryableOnceSent == {t \in Times :
    /\ schedule.active
    /\ occ[t].attempts < MaxAttempts
    /\ \/ occ[t].status = "claimed" /\ occ[t].sent /\ occ[t].stale
       \/ occ[t].status \in {"running", "failed"} /\ occ[t].stale}

\* retryable_execution_ids
Retryable == {t \in Times :
    /\ schedule.active
    /\ occ[t].attempts < MaxAttempts
    /\ \/ occ[t].status = "claimed" /\ (~occ[t].sent \/ occ[t].stale)
       \/ occ[t].status \in {"running", "failed"} /\ occ[t].stale}

WithStatus(t, status) == [occ[t] EXCEPT !.status = status]

\* A saved row has a fresh updated_at.
Save(t, row) == occ' = [occ EXCEPT ![t] = [row EXCEPT !.stale = FALSE]]

Disabled == [schedule EXCEPT !.active = FALSE]

\* The transaction of _block_execution: it looks at no status.
BlockExecution(t, disable) ==
    /\ Save(t, WithStatus(t, "blocked"))
    /\ schedule' = IF disable THEN Disabled ELSE schedule

\* The worker is done with its message and acknowledges it.
Release(w) == worker' = [worker EXCEPT ![w] = IdleWorker]

Advance(w, stage) == worker' = [worker EXCEPT ![w].pc = stage]

MessageOf(w) == [occ |-> worker[w].occ, retries |-> worker[w].retries]

\* autoretry_for: a task that raised is published again, until its retries are
\* used up.
AutoRetry(t, retries) ==
    IF retries < MaxRetries THEN {[occ |-> t, retries |-> retries + 1]} ELSE {}

-----------------------------------------------------------------------------
(* The API: update_canonical_schedule, under the schedule's row lock.       *)

\* Deactivation revalidates nothing but the acting user.
UpdateDisable ==
    /\ schedule.version < MaxVersion
    /\ schedule' = [Disabled EXCEPT !.version = @ + 1]
    /\ UNCHANGED <<environment, occ, scans, published, queue, worker, disp>>

UpdateActive(t) ==
    /\ schedule.version < MaxVersion
    /\ t + Grace >= now
    /\ auth # None
    /\ schedule' = [active |-> TRUE, version |-> schedule.version + 1, next |-> t,
                    policy |-> policy]
    /\ UNCHANGED <<environment, occ, scans, published, queue, worker, disp>>

-----------------------------------------------------------------------------
(* dispatch_due_scheduled_scans: claim, collect what is to be retried, then *)
(* for each occurrence publish and note the publication.                    *)

NewOccurrence == [status |-> "claimed", version |-> schedule.version,
                  policy |-> schedule.policy, attempts |-> 0, auth |-> None,
                  stale |-> FALSE, sent |-> FALSE]

Collecting(batch) == disp' = [pc |-> "collect", batch |-> batch, cur |-> 0]

\* Mutant: the occurrence is committed, the advanced next_run is not saved.
ClaimWithoutAdvance(later) ==
    /\ disp.pc = "idle"
    /\ Due /\ ~Incomplete
    /\ later > schedule.next
    /\ occ[schedule.next].status = "none"
         \/ occ[schedule.next].version = schedule.version
    /\ occ' = [occ EXCEPT ![schedule.next] =
                 IF @.status = "none" THEN NewOccurrence ELSE @]
    /\ Collecting({schedule.next})
    /\ UNCHANGED <<environment, schedule, scans, published, queue, worker>>

\* claim_due_schedule gets or creates the occurrence and moves next_run to
\* later, the instant next_schedule_run computes.
Claim(later) ==
    /\ disp.pc = "idle"
    /\ Due /\ ~Incomplete
    /\ later > schedule.next
    /\ occ[schedule.next].status = "none"
         \/ occ[schedule.next].version = schedule.version
    /\ occ' = [occ EXCEPT ![schedule.next] =
                 IF @.status = "none" THEN NewOccurrence ELSE @]
    /\ schedule' = [schedule EXCEPT !.next = later]
    /\ Collecting({schedule.next})
    /\ UNCHANGED <<environment, scans, published, queue, worker>>

\* The occurrence exists under another fingerprint (the version is part of
\* it): the schedule is disabled and saved, then the exception leaves the
\* @transaction.atomic function, which rolls that save back.
ClaimConflict ==
    /\ disp.pc = "idle"
    /\ Due /\ ~Incomplete
    /\ occ[schedule.next].status # "none"
    /\ occ[schedule.next].version # schedule.version
    /\ Collecting({})
    /\ UNCHANGED <<environment, rows, published, queue, worker>>

ClaimIncomplete ==
    /\ disp.pc = "idle"
    /\ Due /\ Incomplete
    /\ schedule' = Disabled
    /\ Collecting({})
    /\ UNCHANGED <<environment, occ, scans, published, queue, worker>>

ClaimNothing ==
    /\ disp.pc = "idle"
    /\ ~Due
    /\ Collecting({})
    /\ UNCHANGED <<environment, rows, published, queue, worker>>

Collect ==
    /\ disp.pc = "collect"
    /\ disp' = [pc |-> "send", batch |-> disp.batch \cup Retryable, cur |-> 0]
    /\ UNCHANGED <<environment, rows, published, queue, worker>>

\* run_scheduled_scan_execution.apply_async reached the broker
Send(t) ==
    /\ disp.pc = "send"
    /\ t \in disp.batch
    /\ queue' = queue \cup {[occ |-> t, retries |-> 0]}
    /\ disp' = [pc |-> "note", batch |-> disp.batch \ {t}, cur |-> t]
    /\ UNCHANGED <<environment, rows, published, worker>>

\* The occurrence whose enqueue raised is FAILED, unless it is settled.
MarkEnqueueFailed(t) ==
    IF Settled(t) THEN UNCHANGED occ
                  ELSE Save(t, WithStatus(t, "failed"))

SendFails(t) ==
    /\ disp.pc = "send"
    /\ t \in disp.batch
    /\ MarkEnqueueFailed(t)
    /\ disp' = [disp EXCEPT !.batch = @ \ {t}]
    /\ UNCHANGED <<environment, schedule, scans, published, queue, worker>>

Note ==
    /\ disp.pc = "note"
    /\ IF Settled(disp.cur) THEN UNCHANGED occ
         ELSE Save(disp.cur, [occ[disp.cur] EXCEPT !.sent = TRUE])
    /\ disp' = [pc |-> "send", batch |-> disp.batch, cur |-> 0]
    /\ UNCHANGED <<environment, schedule, scans, published, queue, worker>>

\* apply_async raised after the broker had taken the message, or the note failed
NoteFails ==
    /\ disp.pc = "note"
    /\ MarkEnqueueFailed(disp.cur)
    /\ disp' = [pc |-> "send", batch |-> disp.batch, cur |-> 0]
    /\ UNCHANGED <<environment, schedule, scans, published, queue, worker>>

DispatcherDone ==
    /\ disp.pc = "send" /\ disp.batch = {}
    /\ disp' = IdleDispatcher
    /\ UNCHANGED <<environment, rows, published, queue, worker>>

\* The process dies; the next beat starts a new task with an empty list.
DispatcherCrash ==
    /\ disp.pc # "idle"
    /\ disp' = IdleDispatcher
    /\ UNCHANGED <<environment, rows, published, queue, worker>>

-----------------------------------------------------------------------------
(* execute_scheduled_occurrence.  Its first transaction is one of Replay,  *)
(* Refuse and Begin, in the order of the code's early returns.             *)

ReplayAnswer(t) ==
    \/ occ[t].status = "dispatched" /\ scans[t] # None
    \/ occ[t].status = "blocked"
    \/ occ[t].status = "running" /\ ~occ[t].stale

\* Mutant: the retry limit is off by one.
ExhaustedLate(t) == occ[t].attempts > MaxAttempts

Exhausted(t) == occ[t].attempts >= MaxAttempts

\* The schedule no longer stands behind this occurrence.
Superseded(t) == ~schedule.active \/ schedule.version # occ[t].version

\* Mutant: the schedule's version is not compared.
RefusedUnlessActive(t) ==
    Exhausted(t) \/ ~schedule.active \/ occ[t].policy # policy

Refused(t) == Exhausted(t) \/ Superseded(t) \/ occ[t].policy # policy

Take(w, m) == worker[w].pc = "idle" /\ m \in queue /\ queue' = queue \ {m}

Replay(w, m) ==
    /\ Take(w, m)
    /\ ReplayAnswer(m.occ)
    /\ UNCHANGED <<environment, rows, published, worker, disp>>

Refuse(w, m) ==
    /\ Take(w, m)
    /\ ~ReplayAnswer(m.occ)
    /\ Refused(m.occ)
    /\ BlockExecution(m.occ, Exhausted(m.occ) \/ ~Superseded(m.occ))
    /\ UNCHANGED <<environment, scans, published, worker, disp>>

\* Mutant: a takeover or a retry does not count as an attempt.
BeginUncounted(w, m) ==
    LET first == IF occ[m.occ].status = "claimed" THEN 1 ELSE 0
    IN /\ Take(w, m)
       /\ ~ReplayAnswer(m.occ)
       /\ ~Refused(m.occ)
       /\ Save(m.occ, [WithStatus(m.occ, "running") EXCEPT !.attempts = @ + first])
       /\ worker' = [worker EXCEPT ![w] =
                       [pc |-> "bind", occ |-> m.occ,
                        attempt |-> occ[m.occ].attempts + first, auth |-> None,
                        retries |-> m.retries]]
       /\ UNCHANGED <<environment, schedule, scans, published, disp>>

Begin(w, m) ==
    /\ Take(w, m)
    /\ ~ReplayAnswer(m.occ)
    /\ ~Refused(m.occ)
    /\ Save(m.occ, [WithStatus(m.occ, "running") EXCEPT !.attempts = @ + 1])
    /\ worker' = [worker EXCEPT ![w] =
                    [pc |-> "bind", occ |-> m.occ,
                     attempt |-> occ[m.occ].attempts + 1, auth |-> None,
                     retries |-> m.retries]]
    /\ UNCHANGED <<environment, schedule, scans, published, disp>>

\* _normalize_binding and the contract: the authorization they return is used
\* later, in another transaction.
Bound(w) == [worker[w] EXCEPT !.auth = auth]

Bind(w) ==
    /\ worker[w].pc = "bind"
    /\ BindingValid(occ[worker[w].occ].version)
    /\ worker' = [worker EXCEPT ![w] = [Bound(w) EXCEPT !.pc = "persist"]]
    /\ UNCHANGED <<environment, rows, published, queue, disp>>

BindingRefused(w) ==
    /\ worker[w].pc = "bind"
    /\ ~BindingValid(occ[worker[w].occ].version)
    /\ Advance(w, "block")
    /\ UNCHANGED <<environment, rows, published, queue, disp>>

\* Mutant: an existing Scan is reused whatever its contract says.
PersistAnyContract(w) ==
    LET t == worker[w].occ
        a == worker[w].auth
    IN /\ worker[w].pc = "persist"
       /\ scans' = [scans EXCEPT ![t] = IF @ = None THEN a ELSE @]
       /\ Save(t, [occ[t] EXCEPT !.auth = a])
       /\ Advance(w, "publish")
       /\ UNCHANGED <<environment, schedule, published, queue, disp>>

\* Mutant: the dispatch is recorded without the publication before it.
PersistThenRecord(w) ==
    LET t == worker[w].occ
        a == worker[w].auth
    IN /\ worker[w].pc = "persist"
       /\ scans[t] \in {None, a}
       /\ scans' = [scans EXCEPT ![t] = a]
       /\ Save(t, [occ[t] EXCEPT !.auth = a])
       /\ Advance(w, "record")
       /\ UNCHANGED <<environment, schedule, published, queue, disp>>

\* The second transaction: create the Scan, or reuse the one a former attempt
\* created if the contract is the same.
Persist(w) ==
    LET t == worker[w].occ
        a == worker[w].auth
    IN /\ worker[w].pc = "persist"
       /\ scans[t] \in {None, a}
       /\ scans' = [scans EXCEPT ![t] = a]
       /\ Save(t, [occ[t] EXCEPT !.auth = a])
       /\ Advance(w, "publish")
       /\ UNCHANGED <<environment, schedule, published, queue, disp>>

ContractChanged(w) ==
    LET t == worker[w].occ
    IN /\ worker[w].pc = "persist"
       /\ scans[t] \notin {None, worker[w].auth}
       /\ BlockExecution(t, TRUE)
       /\ Release(w)
       /\ UNCHANGED <<environment, scans, published, queue, disp>>

\* apply_async of the scanner task
Publish(w) ==
    LET t == worker[w].occ
    IN /\ worker[w].pc = "publish"
       /\ occ[t].version \notin Undispatchable
       /\ published' = [published EXCEPT ![t] = @ \cup {worker[w].attempt}]
       /\ Advance(w, "record")
       /\ UNCHANGED <<environment, rows, queue, disp>>

NoDispatcher(w) ==
    /\ worker[w].pc = "publish"
    /\ occ[worker[w].occ].version \in Undispatchable
    /\ Advance(w, "block")
    /\ UNCHANGED <<environment, rows, published, queue, disp>>

\* The third transaction writes DISPATCHED whatever the row says by now.
Record(w) ==
    LET t == worker[w].occ
    IN /\ worker[w].pc = "record"
       /\ Save(t, WithStatus(t, "dispatched"))
       /\ Advance(w, "audit")
       /\ UNCHANGED <<environment, schedule, scans, published, queue, disp>>

\* append_audit, then return
Audit(w) ==
    /\ worker[w].pc = "audit"
    /\ Release(w)
    /\ UNCHANGED <<environment, rows, published, queue, disp>>

\* except ScheduledExecutionError and its siblings
Block(w) ==
    /\ worker[w].pc = "block"
    /\ BlockExecution(worker[w].occ, TRUE)
    /\ Release(w)
    /\ UNCHANGED <<environment, scans, published, queue, disp>>

\* Any other exception (database, broker, audit writer) inside the try block.
Raise(w) ==
    /\ worker[w].pc \in {"bind", "persist", "publish", "record", "audit"}
    /\ Advance(w, "fail")
    /\ UNCHANGED <<environment, rows, published, queue, disp>>

\* except Exception: FAILED whatever the row says, then raise.
Fail(w) ==
    LET t == worker[w].occ
    IN /\ worker[w].pc = "fail"
       /\ Save(t, WithStatus(t, "failed"))
       /\ queue' = queue \cup AutoRetry(t, worker[w].retries)
       /\ Release(w)
       /\ UNCHANGED <<environment, schedule, scans, published, disp>>

-----------------------------------------------------------------------------
(* What the broker, the processes and the world around them do.             *)

\* task_acks_late and task_reject_on_worker_lost: the message comes back.
Crash(w) ==
    /\ worker[w].pc # "idle"
    /\ queue' = queue \cup {MessageOf(w)}
    /\ Release(w)
    /\ UNCHANGED <<environment, rows, published, disp>>

\* The first transaction raises (the database, or the audit entry of a block) and
\* is rolled back; it is not inside the try block, so no FAILED is written.
ReceiveFails(w, m) ==
    /\ worker[w].pc = "idle" /\ m \in queue
    /\ queue' = (queue \ {m}) \cup AutoRetry(m.occ, m.retries)
    /\ UNCHANGED <<environment, rows, published, worker, disp>>

\* The visibility timeout passes while the worker is still busy.
Redeliver(w) ==
    /\ worker[w].pc # "idle"
    /\ MessageOf(w) \notin queue
    /\ queue' = queue \cup {MessageOf(w)}
    /\ UNCHANGED <<environment, rows, published, worker, disp>>

\* Two minutes pass since the row's updated_at.
LeaseExpires(t) ==
    /\ occ[t].status \in {"claimed", "running", "failed"}
    /\ ~occ[t].stale
    /\ occ' = [occ EXCEPT ![t].stale = TRUE]
    /\ UNCHANGED <<environment, schedule, scans, published, queue, worker, disp>>

Tick ==
    /\ now < MaxTime
    /\ now' = now + 1
    /\ UNCHANGED <<auth, policy, gone, rows, published, queue, worker, disp>>

\* The asset's authorization is granted, superseded or revoked.
Reauthorize(a) ==
    /\ a # auth
    /\ auth' = a
    /\ UNCHANGED <<now, policy, gone, rows, published, queue, worker, disp>>

\* created_by is SET_NULL when the user is deleted.
OwnerLeaves ==
    /\ OwnersLeave
    /\ schedule.version \notin gone
    /\ gone' = gone \cup {schedule.version}
    /\ UNCHANGED <<now, auth, policy, rows, published, queue, worker, disp>>

\* A release that changes SCHEDULE_POLICY_VERSION.
Deploy ==
    /\ policy < MaxPolicy
    /\ policy' = policy + 1
    /\ UNCHANGED <<now, auth, gone, rows, published, queue, worker, disp>>

-----------------------------------------------------------------------------
DispatcherStep ==
    \/ \E later \in 1..(MaxTime + 1) : Claim(later)
    \/ ClaimConflict \/ ClaimIncomplete \/ ClaimNothing
    \/ Collect
    \/ \E t \in Times : Send(t) \/ SendFails(t)
    \/ Note \/ NoteFails
    \/ DispatcherDone

Receive(w, m) == Replay(w, m) \/ Refuse(w, m) \/ Begin(w, m)

Work(w) ==
    \/ Bind(w) \/ BindingRefused(w)
    \/ Persist(w) \/ ContractChanged(w)
    \/ Publish(w) \/ NoDispatcher(w)
    \/ Record(w) \/ Audit(w)
    \/ Block(w) \/ Fail(w)

World ==
    \/ DispatcherCrash
    \/ \E w \in Workers : \/ Raise(w) \/ Crash(w) \/ Redeliver(w)
                           \/ \E m \in queue : ReceiveFails(w, m)
    \/ \E t \in Times : LeaseExpires(t)
    \/ Tick
    \/ \E a \in Auths \cup {None} : Reauthorize(a)
    \/ OwnerLeaves
    \/ Deploy

Next ==
    \/ UpdateDisable
    \/ \E t \in 1..(MaxTime + 1) : UpdateActive(t)
    \/ DispatcherStep
    \/ \E w \in Workers : (\E m \in queue : Receive(w, m)) \/ Work(w)
    \/ World

Spec == Init /\ [][Next]_vars

-----------------------------------------------------------------------------
(* What the system must do.                                                 *)

\* Type correctness of the rows, the broker and the processes.
TypeOK ==
    /\ now \in Times \cup {1}
    /\ auth \in Auths \cup {None}
    /\ policy \in Policies
    /\ gone \subseteq Versions
    /\ schedule \in Schedules
    /\ occ \in [Times -> Occurrences]
    /\ scans \in [Times -> Auths \cup {None}]
    /\ published \in [Times -> SUBSET (1..MaxAttempts)]
    /\ queue \subseteq Messages
    /\ worker \in [Workers -> WorkerStates]
    /\ disp \in DispatcherStates

Busy(w) == worker[w].pc # "idle"

InFlight(t) == {w \in Workers : Busy(w) /\ worker[w].occ = t}

\* Every scanner publication spends an attempt of its own: attempt numbers are
\* never shared by two workers, even when a stale lease let a second one take
\* over from a slow first one, and a number that has published is not held by a
\* worker that still may.  So _MAX_EXECUTION_ATTEMPTS bounds the deliveries.
EachAttemptDeliversOnce ==
    /\ \A t \in Times : published[t] \subseteq 1..occ[t].attempts
    /\ \A w \in Workers : Busy(w) =>
         /\ worker[w].attempt \in 1..occ[worker[w].occ].attempts
         /\ worker[w].pc \in {"bind", "persist", "publish"} =>
              worker[w].attempt \notin published[worker[w].occ]
    /\ \A v, w \in Workers : v # w /\ Busy(v) /\ Busy(w)
                             /\ worker[v].occ = worker[w].occ
                             => worker[v].attempt # worker[w].attempt

\* The authorization an occurrence records, the one in its Scan's contract and
\* the one the publishing worker has just revalidated are the same, whichever
\* attempt created the Scan and however the authorization moved in between.
ContractHeld ==
    /\ \A t \in Times : occ[t].auth = scans[t]
    /\ \A w \in Workers : worker[w].pc \in {"publish", "record", "audit"} =>
         /\ worker[w].auth # None
         /\ scans[worker[w].occ] = worker[w].auth

\* DISPATCHED is never recorded of an occurrence that has no Scan or whose
\* scanner task was never published, so every later delivery is answered by a
\* replay.
DispatchedWasDelivered ==
    \A t \in Times : occ[t].status = "dispatched" =>
        scans[t] # None /\ published[t] # {}

\* next_run never stands at an instant already claimed under the schedule's
\* version: an occurrence is claimed once, and only an update can bring the
\* schedule back to a claimed instant.
NextRunIsFresh ==
    \A t \in Times : occ[t].status # "none" /\ occ[t].version = schedule.version
                     => schedule.next > t

\* A superseded occurrence with no worker in flight stays so, and nothing runs for it.
SupersededStep ==
    \A t \in Times :
        occ[t].status # "none" /\ Superseded(t) /\ InFlight(t) = {} =>
            /\ (Superseded(t) /\ InFlight(t) = {})'
            /\ published'[t] = published[t]
            /\ scans'[t] = scans[t]

\* Once the schedule was changed or disabled and the workers in flight are done,
\* nothing ever runs for the old occurrence again: no message, retry, takeover
\* or reactivation brings it back (the test
\* test_schedule_version_change_after_claim_blocks_old_occurrence, for every
\* interleaving).
SupersededIsInert == [][SupersededStep]_vars

-----------------------------------------------------------------------------
(* Fairness: processes that are up finish their steps, a message that stays in *)
(* the queue is handed to a worker at last, beat keeps starting the            *)
(* dispatcher, which does not die at the same point for ever, and time passes. *)

Fairness ==
    /\ WF_vars(DispatcherStep) /\ SF_vars(Collect)
    /\ \A t \in Times : SF_vars(Send(t))
    /\ \A t \in Times :
         SF_vars(\E w \in Workers, m \in queue : m.occ = t /\ Receive(w, m))
    /\ \A w \in Workers : WF_vars(Work(w))
    /\ \A t \in Times : WF_vars(LeaseExpires(t))

FairSpec == Spec /\ Fairness

\* An occurrence that waits for its first or next attempt gets it, whatever
\* dispatcher crashes and lost publications come between, unless its attempts
\* run out or the schedule is disabled meanwhile.
WaitingIsStarted ==
    \A t \in Times : occ[t].status \in {"claimed", "failed"} ~>
        \/ occ[t].status \notin {"claimed", "failed"}
        \/ Exhausted(t)
        \/ ~schedule.active

-----------------------------------------------------------------------------
(* What the repository's texts say and the code does not do.                *)

\* scheduled_execution.py:583-585: a schedule whose occurrence identity no longer
\* matches its persisted snapshot is disabled.
ConflictDisables == [][ClaimConflict => ~schedule'.active]_vars

\* scheduled_execution.py:914-917, the sweep of stale RUNNING rows: an occurrence
\* whose worker died with attempts left is brought out of RUNNING.  It need not be:
\* the dispatcher's own note refreshes updated_at, and a worker that takes the
\* message after the note finds the lease unexpired.
RunningIsRecovered ==
    \A t \in Times : occ[t].status = "running" ~>
        occ[t].status # "running" \/ Exhausted(t) \/ ~schedule.active
=============================================================================
