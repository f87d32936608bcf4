----------------------------- MODULE ScanLifecycle -----------------------------
(***************************************************************************)
(* The life of one Scan: the control calls of scan_orchestrator.py and      *)
(* scan_state_machine.py, and the scanner task of tasks/security_scan.py    *)
(* (run_nmap_scan; run_nuclei_scan has the same steps), fed by Celery.      *)
(*                                                                          *)
(* A control call and a task both consist of several transactions.  Each is *)
(* an action; a crash, a control call or a second delivery of the same task *)
(* may come between any two of them.                                        *)
(***************************************************************************)
EXTENDS Naturals, FiniteSets

CONSTANTS
    Workers,     \* Celery worker processes of the scanners queue
    Callers,     \* API requests in progress at the same time
    UserCalls,   \* the control calls users make
    MaxTasks,    \* bound: scanner tasks published for this scan
    MaxRetries,  \* max_retries of the scanner task
    MaxEvidence  \* bound: Evidence rows counted per task

ASSUME CountsAssumption ==
    /\ MaxTasks \in Nat \ {0}
    /\ MaxRetries \in Nat
    /\ MaxEvidence \in Nat \ {0}
    /\ UserCalls \subseteq {"pause", "resume", "cancel", "restart", "start"}

VARIABLES
    scan,       \* the Scan row: status and celery_task_id (0: none)
    execution,  \* status of its ScanEngineExecution row ("none": no row)
    evidence,   \* per task, the Evidence rows it committed
    current,    \* whether the bound authorization is the latest and valid
    tasks,      \* how many tasks were published; their ids are 1..tasks
    queue,      \* scanner task messages in the broker
    revoked,    \* task ids the workers remember as revoked
    worker,     \* what each worker process is doing
    caller      \* what each API request is doing

rows == <<scan, execution, evidence>>
vars == <<rows, current, tasks, queue, revoked, worker, caller>>

Statuses == {"pending", "queued", "running", "paused", "completed", "partial",
             "failed", "cancelled"}
Finished == {"completed", "partial", "failed", "cancelled"}   \* Scan.is_finished
Active   == {"queued", "running", "paused"}
Executions == {"none", "running", "completed", "failed", "skipped"}
TerminalExecutions == {"completed", "failed", "skipped"}

TaskIds  == 1..MaxTasks
Messages == [task : TaskIds, retries : 0..MaxRetries]
Stages   == {"idle", "bind", "start", "launch", "scan", "stopped", "check",
             "commit", "error", "fail", "cancel", "cancelled", "done"}
\* seen: the row as require_bound_scan_authorization loaded it was COMPLETED;
\* slow: the scanner was stopped for a pause; "done": returned, not acknowledged.
WorkerStates == [pc : Stages, task : 0..MaxTasks, retries : 0..MaxRetries,
                 seen : BOOLEAN, slow : BOOLEAN]
CallerStates == [pc : {"idle", "read", "save", "publish", "attach"},
                 task : 0..MaxTasks]

IdleWorker == [pc |-> "idle", task |-> 0, retries |-> 0, seen |-> FALSE,
               slow |-> FALSE]
IdleCaller == [pc |-> "idle", task |-> 0]

\* create_scan has just committed the row and is about to publish its task.
Init ==
    /\ scan = [status |-> "queued", task |-> 0]
    /\ execution = "none"
    /\ evidence = [i \in TaskIds |-> 0]
    /\ current = TRUE
    /\ tasks = 0
    /\ queue = {}
    /\ revoked = {}
    /\ worker = [w \in Workers |-> IdleWorker]
    /\ \E c \in Callers :
         caller = [d \in Callers |-> IF d = c THEN [pc |-> "publish", task |-> 0]
                                              ELSE IdleCaller]

-----------------------------------------------------------------------------
SetStatus(s) == scan' = [scan EXCEPT !.status = s]

Goto(w, stage) == worker' = [worker EXCEPT ![w].pc = stage]

\* The message is acknowledged, or given back.
Release(w) == worker' = [worker EXCEPT ![w] = IdleWorker]

MessageOf(w) == [task |-> worker[w].task, retries |-> worker[w].retries]

Call(c, stage) == caller' = [caller EXCEPT ![c].pc = stage]

Hangup(c) == caller' = [caller EXCEPT ![c] = IdleCaller]

-----------------------------------------------------------------------------
(* Control calls: pause, resume and cancel are transition_scan, one         *)
(* transaction under the row lock.                                          *)

\* ALLOWED: the states a status may be changed to.
Allowed(status) ==
    CASE status = "pending" -> {"queued", "cancelled"}
      [] status = "queued"  -> {"running", "cancelled"}
      [] status = "running" -> {"paused", "cancelled", "completed", "failed", "partial"}
      [] status = "paused"  -> {"running", "cancelled"}
      [] OTHER              -> {"queued"}

\* Cancelling revokes the task whose id the row holds by then.
Transition(target) ==
    /\ target \in Allowed(scan.status)
    /\ SetStatus(target)
    /\ revoked' = IF target = "cancelled" /\ scan.task # 0
                  THEN revoked \cup {scan.task} ELSE revoked
    /\ UNCHANGED <<execution, evidence, current, tasks, queue, worker, caller>>

Pause  == "pause" \in UserCalls /\ Transition("paused")
Resume == "resume" \in UserCalls /\ Transition("running")
Cancel == "cancel" \in UserCalls /\ Transition("cancelled")

\* restart_scan: prepare_restart commits, then _queue_scan is called.
Restart(c) ==
    /\ "restart" \in UserCalls
    /\ caller[c].pc = "idle"
    /\ scan.status \in Finished
    /\ SetStatus("pending")
    /\ Call(c, "read")
    /\ UNCHANGED <<execution, evidence, current, tasks, queue, revoked, worker>>

-----------------------------------------------------------------------------
(* _queue_scan reads the row without a lock, checks it, and saves QUEUED    *)
(* later; the task is published after that, and its id saved last.          *)

StartCall(c) ==
    /\ "start" \in UserCalls
    /\ caller[c].pc = "idle"
    /\ Call(c, "read")
    /\ UNCHANGED <<rows, current, tasks, queue, revoked, worker>>

Startable == scan.status = "pending" /\ current

Check(c) ==
    /\ caller[c].pc = "read"
    /\ IF Startable THEN Call(c, "save") ELSE Hangup(c)
    /\ UNCHANGED <<rows, current, tasks, queue, revoked, worker>>

SaveQueued(c) ==
    /\ caller[c].pc = "save"
    /\ SetStatus("queued")
    /\ Call(c, "publish")
    /\ UNCHANGED <<execution, evidence, current, tasks, queue, revoked, worker>>

PublishTask(c) ==
    /\ caller[c].pc = "publish"
    /\ tasks < MaxTasks
    /\ tasks' = tasks + 1
    /\ queue' = queue \cup {[task |-> tasks + 1, retries |-> 0]}
    /\ caller' = [caller EXCEPT ![c] = [pc |-> "attach", task |-> tasks + 1]]
    /\ UNCHANGED <<rows, current, revoked, worker>>

AttachTask(c) ==
    /\ caller[c].pc = "attach"
    /\ scan' = [scan EXCEPT !.task = caller[c].task]
    /\ Hangup(c)
    /\ UNCHANGED <<execution, evidence, current, tasks, queue, revoked, worker>>

\* The API process dies, or the broker or the database refuses.
CallerDies(c) ==
    /\ caller[c].pc # "idle"
    /\ Hangup(c)
    /\ UNCHANGED <<rows, current, tasks, queue, revoked, worker>>

-----------------------------------------------------------------------------
(* The scanner task.                                                        *)

Take(w, m) == worker[w].pc = "idle" /\ m \in queue /\ queue' = queue \ {m}

\* Celery drops a message whose id the worker remembers as revoked.
Discard(w, m) ==
    /\ Take(w, m)
    /\ m.task \in revoked
    /\ UNCHANGED <<rows, current, tasks, revoked, worker, caller>>

\* Mutant: only a completed scan is answered by a replay.
CompletedOnly == scan.status = "completed" /\ execution = "completed"

\* terminal_scan_delivery
TerminalDelivery == scan.status \in Finished /\ execution \in TerminalExecutions

\* A terminal scan is answered without running anything.
Replay(w, m) ==
    /\ Take(w, m)
    /\ m.task \notin revoked
    /\ TerminalDelivery
    /\ UNCHANGED <<rows, current, tasks, revoked, worker, caller>>

Accept(w, m) ==
    /\ Take(w, m)
    /\ m.task \notin revoked
    /\ ~TerminalDelivery
    /\ worker' = [worker EXCEPT ![w] =
                    [pc |-> "bind", task |-> m.task, retries |-> m.retries,
                     seen |-> FALSE, slow |-> FALSE]]
    /\ UNCHANGED <<rows, current, tasks, revoked, caller>>

Loaded(w) == [worker[w] EXCEPT !.seen = (scan.status = "completed")]

\* require_bound_scan_authorization loads the row and ignores its status.
Bind(w) ==
    /\ worker[w].pc = "bind"
    /\ current
    /\ worker' = [worker EXCEPT ![w] = [Loaded(w) EXCEPT !.pc = "start"]]
    /\ UNCHANGED <<rows, current, tasks, queue, revoked, caller>>

\* _block_scan: the Scan fails, the execution row is not touched.
BlockScan(w) ==
    /\ SetStatus("failed")
    /\ Goto(w, "done")
    /\ UNCHANGED <<execution, evidence, current, tasks, queue, revoked, caller>>

\* The decision is not current, or the target fails the egress checks.
BindRefused(w) == worker[w].pc = "bind" /\ BlockScan(w)

\* _completed_delivery compares the row as it was loaded.
CompletedDelivery(w) == worker[w].seen /\ execution = "completed"

ReplayCompleted(w) ==
    /\ worker[w].pc = "start"
    /\ CompletedDelivery(w)
    /\ Release(w)
    /\ UNCHANGED <<rows, current, tasks, queue, revoked, caller>>

Unseen(w) == [worker[w] EXCEPT !.seen = FALSE]

\* RUNNING is saved whatever the status is by now.
Start(w) ==
    /\ worker[w].pc = "start"
    /\ ~CompletedDelivery(w)
    /\ SetStatus("running")
    /\ worker' = [worker EXCEPT ![w] = [Unseen(w) EXCEPT !.pc = "launch"]]
    /\ UNCHANGED <<execution, evidence, current, tasks, queue, revoked, caller>>

\* _start_execution gets or creates the row and resets it.
Launch(w) ==
    /\ worker[w].pc = "launch"
    /\ execution' = "running"
    /\ Goto(w, "scan")
    /\ UNCHANGED <<scan, evidence, current, tasks, queue, revoked, caller>>

\* Before its try block, and in its handlers, an exception (a database error, a
\* checkpoint with a sequence already taken, a retry the broker refuses) ends the
\* task without another retry.
RaiseUnhandled(w) ==
    /\ worker[w].pc \in {"bind", "start", "launch", "error", "fail", "cancel",
                         "cancelled"}
    /\ Release(w)
    /\ UNCHANGED <<rows, current, tasks, queue, revoked, caller>>

Slow(w) == [worker[w] EXCEPT !.slow = TRUE]

\* _run_controlled polls the status: a pause stops the scanner process, and the
\* deadline moves along, so that a pause may outlast any timeout.
Stop(w) ==
    /\ worker[w].pc = "scan"
    /\ scan.status = "paused"
    /\ worker' = [worker EXCEPT ![w] = [Slow(w) EXCEPT !.pc = "stopped"]]
    /\ UNCHANGED <<rows, current, tasks, queue, revoked, caller>>

Continue(w) ==
    /\ worker[w].pc = "stopped"
    /\ scan.status \notin {"paused", "cancelled"}
    /\ Goto(w, "scan")
    /\ UNCHANGED <<rows, current, tasks, queue, revoked, caller>>

SeeCancelled(w) ==
    /\ worker[w].pc \in {"scan", "stopped"}
    /\ scan.status = "cancelled"
    /\ Goto(w, "cancel")
    /\ UNCHANGED <<rows, current, tasks, queue, revoked, caller>>

ScannerEnds(w) ==
    /\ worker[w].pc = "scan"
    /\ Goto(w, "check")
    /\ UNCHANGED <<rows, current, tasks, queue, revoked, caller>>

\* Any exception inside the try block: the provider, the parser, a save.
Raise(w) ==
    /\ worker[w].pc \in {"scan", "check", "commit"}
    /\ Goto(w, "error")
    /\ UNCHANGED <<rows, current, tasks, queue, revoked, caller>>

\* Mutant: the authorization is not revalidated after the scanner ran.
RevalidateNothing(w) ==
    /\ worker[w].pc = "check"
    /\ Goto(w, "commit")
    /\ UNCHANGED <<rows, current, tasks, queue, revoked, caller>>

\* revalidate_bound_authorization
Revalidate(w) ==
    /\ worker[w].pc = "check"
    /\ current
    /\ Goto(w, "commit")
    /\ UNCHANGED <<rows, current, tasks, queue, revoked, caller>>

CheckRefused(w) == worker[w].pc = "check" /\ BlockScan(w)

\* Mutant: the Scan's status is left to a later save.
CommitEvidenceFirst(w, ok) ==
    LET i == worker[w].task
    IN /\ worker[w].pc = "commit"
       /\ evidence[i] < MaxEvidence
       /\ evidence' = [evidence EXCEPT ![i] = @ + 1]
       /\ execution' = IF ok THEN "completed" ELSE "failed"
       /\ Goto(w, "done")
       /\ UNCHANGED <<scan, current, tasks, queue, revoked, caller>>

\* One transaction: the evidence, the findings, the execution and the Scan.  ok:
\* the scanner's exit code was 0.
Commit(w, ok) ==
    LET i == worker[w].task
    IN /\ worker[w].pc = "commit"
       /\ evidence[i] < MaxEvidence
       /\ evidence' = [evidence EXCEPT ![i] = @ + 1]
       /\ execution' = IF ok THEN "completed" ELSE "failed"
       /\ SetStatus(IF ok THEN "completed" ELSE "partial")
       /\ Goto(w, "done")
       /\ UNCHANGED <<current, tasks, queue, revoked, caller>>

\* Mutant: the last retry raises without failing the scan.
GiveUpSilently(w) ==
    /\ worker[w].pc = "error"
    /\ worker[w].retries >= MaxRetries
    /\ execution' = "failed"
    /\ Release(w)
    /\ UNCHANGED <<scan, evidence, current, tasks, queue, revoked, caller>>

\* Mutant: the number of retries is off by one.
RetryOnceMore(w) ==
    /\ worker[w].pc = "error"
    /\ worker[w].retries <= MaxRetries
    /\ queue' = queue \cup {[task |-> worker[w].task, retries |-> worker[w].retries + 1]}
    /\ Goto(w, "done")
    /\ UNCHANGED <<rows, current, tasks, revoked, caller>>

\* self.retry publishes the message again, under the same task id.
Retry(w) ==
    /\ worker[w].pc = "error"
    /\ worker[w].retries < MaxRetries
    /\ queue' = queue \cup {[task |-> worker[w].task, retries |-> worker[w].retries + 1]}
    /\ Goto(w, "done")
    /\ UNCHANGED <<rows, current, tasks, revoked, caller>>

\* _fail_scan and _cancelled_scan save the execution row, then the Scan row.
GiveUp(w) ==
    /\ worker[w].pc = "error"
    /\ worker[w].retries >= MaxRetries
    /\ execution' = "failed"
    /\ Goto(w, "fail")
    /\ UNCHANGED <<scan, evidence, current, tasks, queue, revoked, caller>>

FailScan(w) ==
    /\ worker[w].pc = "fail"
    /\ SetStatus("failed")
    /\ Goto(w, "done")
    /\ UNCHANGED <<execution, evidence, current, tasks, queue, revoked, caller>>

CancelExecution(w) ==
    /\ worker[w].pc = "cancel"
    /\ execution' = "skipped"
    /\ Goto(w, "cancelled")
    /\ UNCHANGED <<scan, evidence, current, tasks, queue, revoked, caller>>

CancelScan(w) ==
    /\ worker[w].pc = "cancelled"
    /\ SetStatus("cancelled")
    /\ Goto(w, "done")
    /\ UNCHANGED <<execution, evidence, current, tasks, queue, revoked, caller>>

\* task_acks_late: the message is acknowledged when the task has returned.
Acknowledge(w) ==
    /\ worker[w].pc = "done"
    /\ Release(w)
    /\ UNCHANGED <<rows, current, tasks, queue, revoked, caller>>

-----------------------------------------------------------------------------
(* Celery and the world.                                                    *)

\* task_acks_late, task_reject_on_worker_lost
Crash(w) ==
    /\ worker[w].pc # "idle"
    /\ queue' = queue \cup {MessageOf(w)}
    /\ Release(w)
    /\ UNCHANGED <<rows, current, tasks, revoked, caller>>

\* The visibility timeout, an hour, is longer than any scanner timeout: it passes
\* only while or after a scanner was stopped.
Redeliver(w) ==
    /\ worker[w].pc # "idle"
    /\ worker[w].slow
    /\ queue' = queue \cup {MessageOf(w)}
    /\ UNCHANGED <<rows, current, tasks, revoked, worker, caller>>

\* Revocations are kept in the memory of the workers.
ForgetRevocations ==
    /\ revoked # {}
    /\ revoked' = {}
    /\ UNCHANGED <<rows, current, tasks, queue, worker, caller>>

\* A newer decision supersedes the bound one, or it expires: for good.
LoseAuthorization ==
    /\ current
    /\ current' = FALSE
    /\ UNCHANGED <<rows, tasks, queue, revoked, worker, caller>>

-----------------------------------------------------------------------------
Control ==
    \/ Pause \/ Resume \/ Cancel
    \/ \E c \in Callers :
         \/ Restart(c) \/ StartCall(c)
         \/ Check(c) \/ SaveQueued(c) \/ PublishTask(c) \/ AttachTask(c)
         \/ CallerDies(c)

Receive(w, m) == Discard(w, m) \/ Replay(w, m) \/ Accept(w, m)

Prepare(w) ==
    \/ Bind(w) \/ BindRefused(w)
    \/ ReplayCompleted(w) \/ Start(w) \/ Launch(w)
    \/ RaiseUnhandled(w)

Run(w) ==
    \/ Stop(w) \/ Continue(w) \/ SeeCancelled(w)
    \/ ScannerEnds(w) \/ Raise(w)

Conclude(w) ==
    \/ Revalidate(w) \/ CheckRefused(w)
    \/ \E ok \in BOOLEAN : Commit(w, ok)
    \/ Retry(w) \/ GiveUp(w) \/ FailScan(w)
    \/ CancelExecution(w) \/ CancelScan(w)
    \/ Acknowledge(w)

Task(w) ==
    \/ \E m \in queue : Receive(w, m)
    \/ Prepare(w) \/ Run(w) \/ Conclude(w)
    \/ Crash(w) \/ Redeliver(w)

Next ==
    \/ Control
    \/ \E w \in Workers : Task(w)
    \/ ForgetRevocations
    \/ LoseAuthorization

Spec == Init /\ [][Next]_vars

-----------------------------------------------------------------------------
(* What the system must do.                                                 *)

\* Type correctness; in particular no message carries more retries than the task
\* has.
TypeOK ==
    /\ scan \in [status : Statuses, task : 0..MaxTasks]
    /\ execution \in Executions
    /\ evidence \in [TaskIds -> 0..MaxEvidence]
    /\ current \in BOOLEAN
    /\ tasks \in 0..MaxTasks
    /\ queue \subseteq Messages
    /\ revoked \subseteq TaskIds
    /\ worker \in [Workers -> WorkerStates]
    /\ caller \in [Callers -> CallerStates]

Busy(w) == worker[w].pc # "idle"

\* A worker that has returned, or is about to answer a replay because it loaded a
\* completed row, will do nothing more for the scan.
Engaged(w) == Busy(w) /\ worker[w].pc # "done" /\ ~worker[w].seen

HeldIfActive ==
    scan.status \in Active =>
        \/ queue # {}
        \/ \E w \in Workers : Engaged(w)
        \/ \E c \in Callers : caller[c].pc = "publish"

\* A start call dies between its commit and its publication, a task meets an exception
\* it does not handle, or a revoked message is thrown away.
Dropped ==
    \/ \E c \in Callers : caller[c].pc = "publish" /\ CallerDies(c)
    \/ \E w \in Workers : RaiseUnhandled(w) \/ \E m \in queue : Discard(w, m)

\* A scan that is queued, running or paused has a message in the broker, a worker
\* that will bring it to an end, or a start call about to publish, whatever pauses,
\* cancellations, restarts, crashes and duplicate deliveries come: once held, it is
\* lost by no other than the three steps that drop it, as often as it is restarted
\* (scan_orchestrator.py:140-144, tasks/security_scan.py:164-203).
ActiveIsHeld == HeldIfActive /\ [][HeldIfActive => HeldIfActive' \/ Dropped]_vars

CommitsNothing ==
    ~current /\ (\A w \in Workers : worker[w].pc # "commit") =>
        /\ evidence' = evidence
        /\ ~current'
        /\ \A w \in Workers : worker'[w].pc # "commit"

\* Once the authorization is lost, no evidence is ever committed again but by a
\* worker that was already past its revalidation.
LostAuthorizationIsFinal == [][CommitsNothing]_vars

Settled ==
    /\ scan.status \in Finished /\ execution \in TerminalExecutions
    /\ \A w \in Workers : worker[w].pc \in {"idle", "done"}

StaysSettled ==
    Settled => \/ Settled' /\ UNCHANGED <<scan.status, execution, evidence>>
               \/ \E c \in Callers : Restart(c) \/ SaveQueued(c)

\* A finished scan with a durable engine outcome, on which no worker works, stays
\* as it is whatever messages are still delivered, late or twice (the test
\* test_terminal_redelivery_is_read_only_before_authorization_or_engine_execution):
\* only a restart or a start call that read the row earlier opens it again.
SettledIsInert == [][StaysSettled]_vars

\* The Scan as ContinuousAssurance waits for it.
SeenStatus ==
    CASE scan.status \in {"completed", "partial"}  -> "done"
      [] scan.status \in {"failed", "cancelled"}   -> scan.status
      [] OTHER                                     -> "open"

Outcome == INSTANCE ScanOutcome WITH
    status  <- SeenStatus,
    asked   <- tasks > 0,
    scanned <- \E i \in TaskIds : evidence[i] > 0

\* Whoever waits for a scan sees no more than ScanOutcome says, through every
\* interleaving of control calls, retries, late deliveries and crashes: COMPLETED and
\* PARTIAL come at once with evidence, of a task that was published, FAILED comes from
\* such a task, and only a cancellation ends a scan without one
\* (tasks/security_scan.py:141-201, scan_state_machine.py:30-80).
OutcomeIsSeen == Outcome!Spec

-----------------------------------------------------------------------------
(* What the repository's texts say and the code does not do.                *)

\* scan_state_machine.py:21, ALLOWED: a cancelled scan can only be queued again; it
\* is never set running.
CancelledIsNotRun == [][scan.status = "cancelled" => scan'.status # "running"]_vars

\* CANONICAL_EXECUTION_BASELINE.md:21, scanner workers are redelivery-safe and
\* idempotent: a task commits its evidence once, however often it is delivered.
OneOutcomePerTask == \A i \in TaskIds : evidence[i] <= 1
=============================================================================
