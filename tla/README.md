# AegisScan: specifications, model checking and proofs

AegisScan (`src/aegis-platform`) is a security-assessment platform: a FastAPI
back end over the Django ORM and PostgreSQL, Celery workers fed by a Redis
broker, containers that run the scanners, and a React front end. What makes it
hard to get right is not the scanning but the record keeping around it: who may
scan what, under which authorization, how often, and what the database says
about it when processes die, messages come twice, leases run out and users
change things meanwhile. These modules model that part.

Paths below are relative to `src/aegis-platform/backend` (`enterprise/`) or its
`fastapi_app` (`services/`, `tasks/`, `routers/`, `celery_app.py`). `PROJECT.json`
maps every definition to the lines it models.

## 1. The system

### Components with a protocol of their own

| Component | State | Operations | Talks to | What is hard | What makes it correct |
|---|---|---|---|---|---|
| Scheduled scans (`services/scheduled_execution.py`, `tasks/scheduled_scans.py`) | `ScheduledScan`, `ScheduledScanExecution` rows | create, update, claim, dispatch, execute (three transactions around a publication) | beat, broker, scanner tasks, authorization guard, audit trail | two-minute leases on RUNNING rows, crash or exception between any two transactions, redelivery, updates while workers are busy | attempts bound deliveries; one contract per occurrence; DISPATCHED means delivered; an instant is claimed once per version; a superseded occurrence never runs again; a waiting occurrence is attempted |
| Scan control and scanner tasks (`services/scan_orchestrator.py`, `scan_state_machine.py`, `scanner_delivery.py`, `tasks/security_scan.py`) | `Scan`, `ScanEngineExecution`, `ScanCheckpoint`, `Evidence`, `Finding` rows; the scanner process | create, start, pause, resume, cancel, restart; run, retry, fail, block | API, broker, execution providers, authorization guard | rows loaded before a check and written after it, control calls between the transactions of a task, redelivery after a long pause | an active scan is held by somebody; a lost authorization commits nothing; a settled scan is inert |
| Governed work queue (`services/governed_work_queue.py`) | `GovernedWorkClaim`, `GovernedWorkClaimEvent` rows | claim, renew, release; verify the chain | API, the services that own the sources, the front end's idempotency keys | repeated calls, stale versions, leases that end, sources finished meanwhile | one lease at a time; a promised lease is kept; a key takes effect once; the event chain verifies |
| Report schedules and recipient outbox (`enterprise/tasks.py` 41-160) | report schedules, executions, exports, deliveries QUEUED, SENDING, SENT, FAILED | run a schedule, deliver, sweep, expire files | beat, broker, SMTP, file storage | a SENDING row is taken over after ten minutes or on redelivery; the failure update is unconditional; the file goes before its row | attempts pay for the copies; SENT was accepted; no delivery is forgotten |
| Notification outbox (`enterprise/tasks.py` 160-220) | deliveries | create, send, sweep | beat, broker, channels | take-over while the first sender is only slow | as above, and SENT is final, as its failure update is guarded |
| Continuous assurance (`enterprise/tasks.py` 389-541, `enterprise/signals.py`) | schedules, occurrences, their scans | claim, send, run, project the scan's outcome | beat, broker, scanner tasks, a Django signal | the claim commits before the message is sent; no lease, no sweep; the signal may run late or not at all | attempts bound publications; COMPLETED was scanned; a settled occurrence stays settled; a claimed one settles |
| Detection engineering and publication (`services/detection_engineering.py`) with the connector's live acceptance (`services/integration_live_acceptance.py`) | rules, revisions, validations, deliveries; connector configuration, probes, acceptance | revise, validate, queue, deliver; probe, accept | external SIEM, governed actions, beat | at-most-once transport, crash while SENDING, a slow probe of a configuration that has changed | a request reaches the SIEM at most once; a version is spent once; only a vetted connector is used |
| Governed actions (`services/governed_action_requests.py`, `governed_action_executor.py`) on findings (`finding_confirmation.py`, `finding_disposition.py`, `finding_closure.py`) | requests, executions, findings with a version | request, preflight, execute | responsibility authority, temporal policy, findings, validation runs | the manifest at commit time is read without the finding's lock; replays; most writers of a finding know no version | a version carries one action; a verdict and a closure rest on a recorded outcome; four eyes |
| Remediation and validation of a finding (`remediation_lifecycle.py`, `tasks/finding_validation.py`, `routers/validations.py`) | `ValidationRun` rows with a result | request, run, poll, verify, cancel | broker, scanners, authorization guard | the result is loaded before the run and written back after it; polls, verification and cancellation in two steps | CLOSED was executed; nothing but a late worker takes VERIFIED or CLOSED away, and it invents nothing |
| Decision actions (`services/decision_action_orchestration.py`) | versioned actions, SLA state | transition, evaluate | work queue | version races, SLA against transitions | only allowed transitions, each on the version it saw |
| Obligations, drift, SOC cases (`services/assurance_obligation_governance.py`, `assurance_drift_governance.py`, `soc_closure_governance.py`) | generations per finding or case | open, fulfil, reopen, close | work queue, governed actions | an old generation's evidence closing a new one | closure is by evidence of the same generation |
| Web labs, out-of-band testing (`services/web_lab_lifecycle.py`, `governed_oast.py`, `oast_dns_collector.py`) | leased environments, sessions, collected events | provision, expire, collect | host scripts, DNS | expiry against use | nothing runs past its lease |
| Authorization guard (`services/authorization_guard.py`) | append-only decisions | bind, revalidate | all scan paths | the decision changes between check and use | checked again before anything is committed |
| Celery and broker (`celery_app.py`) | queues, unacknowledged messages | publish, deliver, redeliver, beat | everything asynchronous | late acknowledgement, visibility timeout (one hour), revocations in worker memory | at-least-once, in any order |
| Audit trail (`services/audit_writer.py`) | hash chain | append | every service | an advisory lock; its failure fails its caller | the chain has no gap |

### The rest

Execution providers (`services/*_execution_provider.py`, `kali_*_provider.py`)
run a scanner and poll the scan's status: that poll is part of `ScanLifecycle`.
Kali runner services, capability registry, parsers, probes, risk and graph
services, compliance and knowledge records, routers, users and sessions, Burp
bridge, front end, monitoring, backups and host deployment,
CI workflows, Django configuration and the legacy `src/aegis` command line are
listed in `PROJECT.json` with the reason each is not modelled: pure functions,
request translation, input and output, configuration, or a candidate of the plan
below.

### How they interact

Beat sends `dispatch_due_scheduled_scans` every minute
(`celery_app.py:64-68`). It claims due schedules, publishes one
`run_scheduled_scan_execution` message per occurrence and notes the
publication. A worker executes the occurrence: transaction 1 marks it RUNNING
and counts the attempt, the binding and the contract are computed, transaction 2
creates the Scan, the scanner task is published, transaction 3 writes DISPATCHED,
an audit entry is appended. The scanner task is then the subject of
`ScanLifecycle`, as are scans created or restarted by users. Items that need a
human decision are projected into the work queue, where users claim them.

Beat also runs the sweeps of the report, notification and detection outboxes and
`dispatch_due_schedules` of continuous assurance every minute
(`celery_app.py:60-100`). An assurance occurrence creates a Scan of its own; the
Scan's final save sends a Django signal that settles the occurrence. Scans leave
findings. A finding is validated by a task, remediated by its owner, and judged,
disposed of or closed by governed actions: a person decides on the version of the
finding that he sees, where four eyes are asked for another one executes, and the
executor compares the version again under the finding's lock. The same executor
queues a detection revision for publication, as one delivery per request.

## 2. Modules

| Module | Models | Checked by | Proved in |
|---|---|---|---|
| `ScheduledExecution` | one schedule, its occurrences, the dispatcher, broker and workers | `MCScheduleScopes`, `MCScheduledExecution` | `ScheduledExecutionProofs` |
| `ScanLifecycle` | one Scan, its engine execution, the API calls and the scanner task | `MCScanScopes`, `MCScanLifecycle` | `ScanLifecycleProofs` |
| `WorkLease` | what the work queue promises: leases and keys spent once | as a PROPERTY of the next one | refinement theorem |
| `ScanOutcome` | a Scan as those see it who wait for it: open, or ended | as a PROPERTY of `ScanLifecycle` | refinement theorem of `ScanLifecycleProofs` |
| `GovernedWorkQueue` | claims, events, replays, members and sources of one organization | `MCGovernedWorkQueue` | `GovernedWorkQueueProofs` |
| `Outbox` | one row of the report or of the notification outbox, its sender, its sweep | `MCOutbox` | `OutboxProofs` |
| `ContinuousAssurance` | one assurance schedule, its occurrences and their scans | `MCContinuousAssurance` | `ContinuousAssuranceProofs` |
| `DetectionPublication` | one rule, the requests to publish it, and the SIEM connector | `MCDetectionPublication` | `DetectionPublicationProofs` |
| `AttemptLedger` | what every outbox promises of one delivery: attempts pay for copies, success rests on a copy | by refinement theorems only | `AttemptLedgerProofs`; refinement theorems of the four implementers |
| `FindingGovernance` | one finding, its validation runs, governed actions and other writers | `MCFindingGovernance` | `FindingGovernanceProofs` |

Every action is one database transaction, one publication, or one step of a
process that changes only what it remembers. Definitions named "Mutant" in their
comment are not part of any specification: they are plausible bugs, each of which
one listed property catches.

### ScheduledExecution

`schedule` is the `ScheduledScan` row; `occ[t]` the occurrence scheduled for the
instant `t` (`stale` says that `updated_at` is older than the lease, `sent` that
`celery_task_id` is set); `scans[t]` the authorization in the contract of the
occurrence's Scan; `published[t]` the attempts that published a scanner task (the
scanner's queue, seen from here); `worker` and `disp` are program counters with
the local variables that live across transactions. A worker goes
`bind, persist, publish, record, audit`; `block` and `fail` are its two exception
handlers. `Raise` is any other exception inside the try block, `ReceiveFails` one in
the first transaction, which is outside of it.

Abstractions: one schedule (schedules share nothing but the dispatcher, whose limit
of 100 and order are left out; one dispatcher at a time); `next_schedule_run` returns
some later instant; the request fingerprint is the schedule's version and the contract
fingerprint the authorization it names; the snapshot integrity check (728-738)
compares what the same process wrote and cannot fail; refused bindings are a lost
authorization or a deleted owner; `update_canonical_schedule` under the row lock is
one atomic step; equal messages in the queue collapse (workers treat a second copy as
they treat a redelivery, which is modelled); the race on creating a second Scan cannot
happen under the row lock.

### ScanLifecycle

`scan` has the status and the last task id; `execution` the status of the
`ScanEngineExecution`; `evidence[i]` counts what task `i` committed; `revoked` is
what the workers remember of `revoke`; `caller` is the program counter of an API
request (`read`, `save`, `publish`, `attach` are the four separate steps of
`_queue_scan`; `create_scan` starts at `publish`). Three steps may take the last holder
from an active scan, and the code lets them: a call that dies between QUEUED and its
publication, an exception outside of the task's try block, a revoked message that a
worker throws away.
`ActiveIsHeld` names them (`Dropped`): a scan that has a holder keeps one in every other
step, whatever was dropped before, and one that was dropped and is held again by a restart
is covered again. Nothing brings a dropped scan back by itself.

Abstractions: one Scan and one engine; the two reads of `terminal_scan_delivery` are
one step; target and egress checks are an unconstrained refusal (`BindRefused`,
`CheckRefused`); progress, phases, findings and checkpoints are data (a checkpoint
whose sequence number is taken is an exception: `RaiseUnhandled`, or a control call
that is rolled back and therefore no step); the visibility timeout of an hour exceeds
every scanner timeout, so that a message comes back while its worker is alive only
after a pause; deletion of scans is left out.

`ScanOutcome` is what is left of a scan for those who only wait for it. A task or a user
may open it again at any time, a published task ends it, and COMPLETED or PARTIAL comes
in one step with its evidence. `ScanLifecycle` maps its status to open, done, failed and
cancelled (`OutcomeIsSeen`).

### GovernedWorkQueue

`claim[s]` is the `GovernedWorkClaim` of an item (version 0: no row), `events` the
event table, `reply` the answer to the last call. A call runs under the
organization's row lock, so each of its outcomes is one action, in the order of the
code's returns: `Forbid`, `Replay`, `RefuseKey`, `RefuseStale`, `RefuseLease`, or
`Claim`, `Renew`, `Release`. Requests are arbitrary: any actor may send any operation
with any version, lease and key, again and again.

Abstractions: one organization and one project (an item never changes its project, so
the scope checks of the verification hold); the fingerprint is the request itself;
`entry_hash` identifies its event, so that `previous_hash` is the number of the event
before; the source is actionable or not; membership, role and activity of user and
tenant are `members`; the copy of the claim in `result_snapshot` and the event's
columns are written from the same row and are one field. The concurrent creation of a
claim (the `IntegrityError` branch) cannot happen under the lock.

### Outbox

`row` is a `ReportRecipientDelivery` or a `Notification`, by `kind` (`stale`:
`updated_at` is older than ten minutes); `order` is the message of
`execute_report_schedule`, `artifact` the report's file. A worker goes
`hand, taken, ack`, or `refused, ended, ack` through the handler and the retry of
`autoretry_for`. `Take` and `Answer` are the two outcomes of the first transaction
of `deliver_scheduled_report` (95-106) and `send_notification` (164-176), which differ
in what they make of a redelivered message (`again`; only the former looks at it), and
`TakeFails` the third: an exception before the row is claimed goes to the retry without
an attempt. `RecordFailure` is their handlers, of which one spares SENT and the other does
not, and `FailureIsLost` a handler whose own write fails. `accepted` counts what the transport
took.

Abstractions: one row (rows share nothing but the limit of a dispatcher's pass); a
report is created once per order; the transport may take a message and yet raise;
a file that was expired, lost or altered is gone.

### ContinuousAssurance

`occ[t]` is the `ContinuousAssuranceExecution` of instant `t` (0: of a `POST .../run`),
`scan[t]` the status of its Scan, `unseen` the failed scans whose signal has not run,
`sender` what the dispatcher and the request of a user remember between the claim and
`delay`. `Begin` and `Block` are the first transaction of `run_continuous_assurance`,
`Mark` and `HandlePublish` its last one and its handler, `Finalize` the update of
`finalize_continuous_assurance_execution`. `dropped` is a history variable: one of four
named steps (a sender that dies, a `delay` of a user's request that raises, a first
transaction that fails, a signal that is lost) let go of the occurrence.
`scanned`, the occurrences whose scan has completed once, is another.

Abstractions: the scan is seen from outside, as absent, open or finished, the latter
joining the endings of `ScanOutcome`: `ScanReopens` stands for its `Reopen`,
`ScanCompletes`, `ScanFails` and `ScanCancelled` for `Complete`, `Fail` and `Cancel`,
each with the signal that a final save sends (`SignalRuns`, `SignalLost`). The calendar is
a count of intervals; capability, target and egress checks are an unconstrained `Block`.

### DetectionPublication

`rule`, `validated` and `request` are the rule, its validated revisions and the
requests with the version their author saw; the version of a revision counts its
deliveries (`detection_engineering.py:447`). `delivery[q]` is the delivery of a request,
bound to an acceptance test and a configuration. `config`, `probes`, `test` and `live`
are the connector, its probes under way, the latest `IntegrationAcceptanceTest` and the
live acceptance. `Hand` is `send_integration`: taken and answered, refused, or taken
without an answer. `vetted` and `died` are history variables.

Abstractions: one rule, one connector; four eyes and authority are part of
`FindingGovernance`; telemetry, fixtures and packages are data; rows of tests and
acceptances other than the latest are not read by the code.

### AttemptLedger

`attempts` counts in the row, `open` is the number of attempts that may still hand
something over, `handed` what has left the process, `confirmed` the success in the row.
It has no clock, no lease and no message: `Enter` counts an attempt of a row that does not
report success, `HandOver` and `Abandon` end one, `Confirm` and `Retract` change the
report. The mappings:

| | `attempts` | `open` | `handed` | `confirmed` |
|---|---|---|---|---|
| `ScheduledExecution`, per occurrence | `occ[t].attempts` | workers before their publication | publications | DISPATCHED |
| `Outbox` | `row.attempts` | workers before the transport | copies accepted | SENT |
| `ContinuousAssurance`, per occurrence | `occ[t].attempts` | workers before their publication | publications | QUEUED |
| `DetectionPublication`, per request | attempts of the delivery | workers before the SIEM | what the SIEM took | DELIVERED |

### FindingGovernance

`finding` is a `Vulnerability` with its `version`; `run[r]` its `ValidationRun` rows
in the order of creation (`current`: the authorization they are bound to is the latest
valid one; `state`: the `remediation_state` in their result, which is there exactly if the
result has remediation events; `present`: what the run
found); `verdict[r]` the `FindingConfirmation`; `request[q]` the decisions with version,
run and author; `executing` the decision between the manifest at commit time and the
commit. `Admit` is everything the executor does up to that manifest (1159-1290),
without the finding's lock; `Judge`, `Dispose`, `CloseFinding` are the domain's
primitives under it with the execution row, and `JudgeAgain`, `DisposeAgain` their
replays. `Load`, `MarkRunning`, `Probe`, `Recheck`, `Record` are `validate_finding_e2e`,
which writes back the result it loaded. `RequestRemediation` and `VerifyFix` are the
remediation cycle in one transaction each; `ReadForVerify` (`verify_validation`) and
`ReadForStatus` (`remediation_status`, which users poll) look at the run first and then ask
for one or two transitions (`Advance`), each of which `transition()` compares with the
state it finds under the lock (`Moves`, `Successors`). `WriteStatus` is every writer that
knows no version, with what each may write: PATCH (`Updated`), bulk updates
(`BulkUpdated`), the ingestion of scans (`Ingested`), decisions without an action
(`Decided`).

A late delivery of a validation does overwrite VERIFIED and CLOSED: `Record` writes the
result that was loaded before the run. `ClosureIsGoverned` says that this is the only step
that takes either from a run, that CLOSED follows VERIFIED by an executed closure only, and
that no poll, verification or cancellation undoes them by what it read earlier.

Abstractions: one finding; all users hold the roles (authority and temporal policy are
not modelled); the organization's lock makes `executing` a single decision; a plain
validation and one of the remediation cycle differ in their first state; the numbered
runs stand for `created_at`; PATCH may write any status, since the one it read earlier
may be any that the finding has had.

## 3. Runs

All bounds are constants in the `.cfg` files.

| Run | Bounds | Shows |
|---|---|---|
| `schedule_takeover` | 2 workers, 2 authorizations, 2 attempts, 1 retry, 2 versions, 2 instants, in two scopes | `EachAttemptDeliversOnce`, `ContractHeld`, `DispatchedWasDelivered`, `NextRunIsFresh` through take-overs of stale leases, and through updates that move `next_run` back to a claimed instant. Two workers are a slow and a fast one, two attempts the one that is taken over and its successor |
| `schedule_world` | 1 worker, 2 attempts, 2 versions, a deployment, deleted owners, an undispatchable capability; fairness | `TypeOK`, `SupersededIsInert`, `WaitingIsStarted` |
| `lifecycle` | 2 workers, 2 requests, 2 tasks, every control call, one retry, 2 evidence rows, in two scopes | `TypeOK`, `ActiveIsHeld`, `LostAuthorizationIsFinal`, `SettledIsInert`, `OutcomeIsSeen` when two workers deal with one task, and when start and restart calls overlap and messages of older tasks arrive late |
| `work_queue` | 2 users, 2 items, 3 keys, leases of 2 in 4 instants | all properties of `GovernedWorkQueue`, and that it implements `WorkLease` |
| `outbox` | 2 workers, 3 attempts of which the sweep grants 2, 1 retry; fairness | `TypeOK`, `SentWasAccepted`, `EachAttemptDeliversOnce`, `SentNotificationIsFinal`, `EveryDeliverySettles`, for both kinds. The third attempt is one that a redelivered or retried message takes beyond the limit of the sweep |
| `assurance` | 2 workers, 2 attempts, one occurrence of two instants or by hand; fairness | `TypeOK`, `EachAttemptPublishesOnce`, `CompletedWasScanned`, `SettledIsKept`, `ClaimedSettles` |
| `publication` | 2 requests, 1 worker, 2 revisions, 2 configurations, 1 test; fairness | `TypeOK`, `AtMostOncePerRequest`, `DeliveredWasAccepted`, `HandedToVettedConnector`, `VersionsAreSpentOnce`, `ValidatedIsLatest`, `QueuedSettles`. The race of a slow probe needs two configurations and one test |
| `finding` | 2 users, 2 decisions, 2 workers, 2 runs, 3 versions, in three scopes | `TypeOK`, `VersionsAreSpentOnce`, `VerdictsWereObserved`, `ReplaysRepeat`, `ClosureIsGoverned`. Two users are the one who validates and the one who closes; the second run is there so that the first could be judged for it |
| `schedule_conflict` | violation of `ConflictDisables` | the disabling of a schedule is rolled back by the exception raised after it |
| `schedule_recovered` | violation of `RunningIsRecovered`, under fairness | the dispatcher's note refreshes the timestamp that says the lease is over |
| `lifecycle_cancel` | violation of `CancelledIsNotRun` | RUNNING is written over a cancellation, whenever it came: in the shortest trace it comes before the task is even published, and neither the load, nor the replay check, nor the write looks at it |
| `lifecycle_once` | violation of `OneOutcomePerTask` | a crash after `self.retry` leaves two messages of one task, both of which commit |

Where a bound caps a counter (`MaxVersion`, `MaxTasks`, `MaxEvidence`, `MaxTime`,
`MaxPolicy`, `MaxExpected`, `MaxTaken`, `MaxRows`, `MaxRevision`, `MaxConfig`,
`MaxTests`, `MaxRuns`), the behaviour beyond it repeats what comes before; the
theorems hold for every value of it. Three keys allow three effects: a claim, its
renewal, and what another user does at the instant the first lease would have ended
and at the one where the renewed one does. `lifecycle_cancel` and `lifecycle_once`
check a single property each, without symmetry, so that their traces read plainly.

`MCScheduleScopes`, `MCScanScopes` and `MCFindingGovernance` bound the search by a
`CONSTRAINT`, the latter two by one that is chosen at the start: the product of all
dimensions is out of reach, each scope lets some of them be large. A state outside of
the scope is checked but not continued; in `schedule_takeover` a behaviour may pass from
one scope to the other. Its scopes are two workers at one instant, or one worker and no
lost lease at two. Those of `lifecycle` are two workers on one task, or two requests and
two tasks with one worker. Those of `finding` are two decisions of any kind on one run;
one closure while two workers hold the same run; and two runs, of which the older must
not be judged for the newer one. No liveness is checked under a constraint.

`CHECK_DEADLOCK FALSE` is given where the system may stop: a finished scan that nobody
restarts (`lifecycle`, `lifecycle_once`), a delivery that was sent (`outbox`), the last
occurrence settled (`assurance`), every request answered (`publication`), every
decision made (`finding`).

`SYMMETRY` is used for workers, callers, authorizations, users, items, keys and
decisions, in runs of invariants and action properties only; the liveness runs do not
use it.

### Fairness

`FairSpec` assumes: a process that is up takes its next step (`Work`,
`DispatcherStep`: beat starts the dispatcher each minute, `celery_app.py:64-68`); the
dispatcher does not die at the same point for ever (strong fairness of `Collect` and
`Send(t)`); a message that stays in the queue reaches a worker in spite of
transactions that fail now and then (strong fairness of receiving); time passes
(`LeaseExpires`). Nothing is assumed of users, deployments, crashes or exceptions.
`WaitingIsStarted` promises nothing for an occurrence without attempts left or with a
disabled schedule: the sweep ignores both (`scheduled_execution.py:899-928`).

`Outbox`, `ContinuousAssurance` and `DetectionPublication` assume the same of their
parts: weak fairness of every step of a process that is up (`Work`, `SenderStep`), of the
dispatchers that beat starts each minute (`Dispatch`, `Claim`, `DispatchDeliveries`), of
the ten minutes that pass (`GrowStale`), of the end of a scan that is open (`ScanEnds`:
its task has a time limit) and of the signal of one that ended (`SignalRuns`); strong
fairness of receiving, since a worker may be busy or die each time; strong fairness of `Send("beat")`, since the broker is not down for ever. None
assumes that a crash stops happening: `EveryDeliverySettles` holds because each claim
counts, `ClaimedSettles` and `QueuedSettles` name the steps after which nothing looks
for the row again, and hold for every other history. `FindingGovernance` states no
fairness: what happens to a finding is up to people.

## 4. Proofs

TLAPS checks, for every value of the constants that satisfies the named assumptions
of each module:

* `ScheduledExecutionProofs`. `TypeInv` strengthens `TypeOK` by what a busy worker
  and a dispatcher about to note hold (`HoldsOccurrence`: an instant, and an attempt
  number that is not 0). On top of it `SafeInv` joins `EachAttemptDeliversOnce`,
  `ContractHeld` and `DispatchedWasDelivered` with `Support`: a worker at `record`
  has published under its attempt (or a late worker's DISPATCHED could not be
  justified), an absent row is blank, no occurrence is of a later version than the
  schedule, and `next_run` is ahead of the occurrences of its version. Most actions are
  "quiet" for `SafeInv` (they change nothing it reads) and are handled by one lemma.
  `NextRunIsFresh` follows from `Support`; `SupersededIsInert` follows step by step.
  `OccurrencesKeepLedger`: a quiet step ends at most one open attempt, a publication
  adds a number that has not published, and `DispatchedWasDelivered` keeps an occurrence
  that is DISPATCHED from being begun again.
* `ScanLifecycleProofs`. `TypeInv` strengthens `TypeOK` by the task a busy worker
  holds and by when it may still remember a COMPLETED row; `ActiveIsHeld`
  and the other action properties follow from it step by step.
  `LifecycleImplementsOutcome` needs `Issued`: whatever a worker or a message carries is
  a task that was published. `EndsWereEarned` is a theorem about `ScanOutcome`, carried
  over by the refinement.
* `GovernedWorkQueueProofs`. `TypeOK`, `ChainsVerify`, `KeysTakeEffectOnce` and
  `PromisedLeaseIsKept` are inductive together: the promise of the last event is the
  lease in the claim because the chain verifies. `RepeatedCallIsAnswered` follows from
  the uniqueness of keys. `QueueImplementsLeases` shows the refinement: `Init` maps
  to `Init`, every effective call to `Acquire`, `Extend` or `GiveUp`, and every other
  step to a stutter or the clock.

* `AttemptLedgerProofs`. `Prepaid` and `Earned` are inductive together (`LedgerHolds`). What
  the four implementers must show is in their refinements: that no row which reports success
  is attempted again, and that nothing is handed over that was not counted.
* `OutboxProofs`. `EachAttemptDeliversOnce` is inductive with `TypeOK` once the set
  of senders between claim and transport is known to be finite: a claim adds one to the
  attempts and one sender, a transport moves one from the senders to `accepted`.
  `SentWasAccepted` needs `Support`: a worker that was told "taken" has put a copy
  outside. `SentNotificationIsFinal` follows step by step from the invariant, and
  `OutboxKeepsLedger` from the count of senders.
* `ContinuousAssuranceProofs`. `TypeInv` strengthens `TypeOK` by the dispatcher holding
  no manual occurrence (its handler would otherwise move `next_run` to 0). On top of
  it `Support`, finite sets of publishers and a Scan wherever one has completed, makes
  `EachAttemptPublishesOnce` and `CompletedWasScanned` inductive; `SettledIsKept`
  follows step by step. `QueuedWasPublished` (a QUEUED row has a publication and a Scan,
  and is therefore answered) is what `OccurrencesKeepLedger` needs for a success not to be
  attempted again.
* `DetectionPublicationProofs`. `Owned`: a delivery leaves QUEUED once, belongs to one
  worker from then on, and what that worker has seen says what the SIEM took; from it
  `AtMostOncePerRequest` and `DeliveredWasAccepted`. `Tested`: a passed test is of a
  vetted configuration; from it `HandedToVettedConnector`. `Spent`: the version a
  delivery was queued for is below the current one, since the version counts the
  deliveries; from it `VersionsAreSpentOnce`. `DeliveriesKeepLedger` follows from `Owned`.
* `FindingGovernanceProofs`. `Open`: what is being executed was not executed before.
  `Past`: an executed decision was made for a version that has passed, as the version
  never falls; two decisions on one version are therefore impossible although most
  writers leave the version alone. `Shown`: the outcome in a run was recorded of it.
  `Closed`: a worker that carries CLOSED in its loaded result carries it from a run that
  an executed closure names (`ClosuresAreGoverned`, whose second half follows step by step:
  no transition starts from VERIFIED or CLOSED); the state of runs alone is not inductive, since a late
  worker writes back what it loaded. `RepeatInv`: what is being executed
  was admitted with a second person, and a verdict is there because an executed decision
  on its run said so; from it `ReplaysRepeatDecisions`. `DecisionsStayFinal` and
  `FourEyesDecide` follow step by step.

Assumptions on constants are the code's: positive bounds, `None` is no authorization
and no actor, leases are positive (`lease_seconds must be between 60 and 86400`), at
least one request, the kinds of verdicts and dispositions.

Only model-checked: `WaitingIsStarted`, `EveryDeliverySettles`, `ClaimedSettles` and
`QueuedSettles` (liveness under fairness is out of the prover's reach) and the four
violations.

## 5. What is not modelled

The modules cover the protocols in which several processes write the same rows. The
repository is far larger (611 source files, most of them request translation, scanner
wrappers, parsers, acceptance scripts and screens); `PROJECT.json` names the components
and gives the reason for each that is left out. What would repay modelling next:

1. Obligations, drift and SOC cases: generations per finding or case, and whether
   evidence of one generation can close the next.
2. The entity types of the executor beyond findings and detection rules; delegations and
   the temporal policy, which here are "every user holds the role".
3. The reopening of an expired disposition by `finding_disposition.py`, and SLA
   evaluation against transitions in `decision_action_orchestration.py`.
4. `ScanLifecycle` for masscan, semgrep and the native tasks (no RUNNING write; execution
   before scan; evidence upserted), creation idempotency and deletion of scans. Its
   composition with `ContinuousAssurance` goes through `ScanOutcome` by name; the two
   modules are not instantiated together.
5. The recurrence arithmetic of `next_schedule_run` as pure operators over small
   calendars, against a reference definition (the monthly clamp is a listed hazard
   without a property).
6. A versioned record, of which the finding, the detection revision and the work item's
   claim are instances, as `AttemptLedger` is for the outboxes.
7. Web labs, out-of-band sessions, the Burp bridge, deploy and rollback scripts.

A further hazard has no property because no text of the repository says what the code
ought to do: a rule becomes PUBLISHED by a late delivery although a newer revision is a
draft.

Not planned: parsers, probes, planners and scoring (pure functions better tested by
examples), routers and front end (translation), configuration, monitoring, the legacy
command line.
