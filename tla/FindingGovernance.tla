--------------------------- MODULE FindingGovernance ---------------------------
(***************************************************************************)
(* One finding, its validation runs and the governed actions on it:         *)
(* finding_confirmation.py, finding_disposition.py, finding_closure.py and  *)
(* remediation_lifecycle.py, as governed_action_executor.py executes them,  *)
(* with the task that validates (tasks/finding_validation.py).              *)
(*                                                                          *)
(* A governed action compares the finding's version in its one transaction  *)
(* and raises it.  Other writers do neither: PATCH and the ingestion of     *)
(* scans write a status they read earlier, the remediation cycle and        *)
(* decisions write one under the lock; the task writes a result it loaded   *)
(* before the run.                                                          *)
(***************************************************************************)
EXTENDS Naturals, FiniteSets

CONSTANTS
    Users,       \* members of the organization who hold every role
    Requests,    \* decisions on the finding; each is an idempotency key
    Workers,     \* worker processes
    MaxRuns,     \* bound: validation runs of the finding
    MaxVersion,  \* bound: version of the finding
    Verdicts,    \* of finding.confirm and finding.false-positive, those considered
    Dispositions \* of finding.accept-risk, wont-fix and duplicate, those considered

ASSUME KindAssumption ==
    /\ Verdicts \subseteq {"confirmed", "false_positive"}
    /\ Dispositions \subseteq {"accepted_risk", "wont_fix", "duplicate"}

ASSUME BoundsAssumption == MaxRuns \in Nat /\ MaxVersion \in Nat \ {0}

VARIABLES
    finding,   \* status and version
    runs,      \* validation runs of the finding, numbered as they were created
    run,       \* their rows
    verdict,   \* the FindingConfirmation of each run
    queue,     \* messages of validate_finding_e2e
    worker,    \* the run of each worker, and what it holds of it
    client,    \* an API request between its read and its write
    request,   \* the decisions: what was seen, and what became of them
    executing, \* the decision that is being executed, and by whom: one at a time
    observed   \* history: what was recorded of each run

vars == <<finding, runs, run, verdict, queue, worker, client, request, executing, observed>>

Runs == 1..MaxRuns
Versions == 1..MaxVersion

Statuses == {"open", "in_progress", "fixed"} \cup Verdicts \cup Dispositions
Kinds == Verdicts \cup Dispositions \cup {"close"}

\* remediation_state in the result of a run; "unset" if the run has none.
Targets == {"validating", "not_fixed", "passed", "failed", "verified"}
States == {"unset", "requested", "closed"} \cup Targets
RunStatuses == {"absent", "queued", "running", "completed", "failed", "cancelled"}
Outcomes == {"unknown", "present", "absent"}

NoRun(u) == [status |-> "absent", user |-> u, current |-> FALSE, state |-> "unset", present |-> "unknown"]
IdleWorker == [at |-> "idle", run |-> 0, state |-> "unset"]
IdleClient == [at |-> "idle", run |-> 0, then |-> "idle"]
NoRequest == [status |-> "none", kind |-> "close", expected |-> 0, by |-> {}, run |-> 0]

Init ==
    /\ finding = [status |-> "open", version |-> 1]
    /\ runs = 0
    /\ \E u \in Users : run = [r \in Runs |-> NoRun(u)]
    /\ request = [q \in Requests |-> NoRequest]
    /\ verdict = [r \in Runs |-> "none"]
    /\ queue = {} /\ executing = {} /\ observed = {}
    /\ worker = [w \in Workers |-> IdleWorker]
    /\ client = IdleClient

\* get_state: what a run says, or else what its status and outcome say.
StateOf(r) ==
    IF run[r].state # "unset" THEN run[r].state
    ELSE CASE run[r].status = "running"    -> "validating"
           [] run[r].status \in {"failed", "cancelled"} -> run[r].status
           [] run[r].status = "completed" /\ run[r].present = "absent"  -> "passed"
           [] run[r].status = "completed" /\ run[r].present = "present" -> "not_fixed"
           [] OTHER                        -> "requested"

PutRun(r, status) == run' = [run EXCEPT ![r].status = status]

\* _ALLOWED_TRANSITIONS, without those to REQUESTED, which is asked for only as a run
\* is created, and to CANCELLED, which is never asked for.
Successors(state) ==
    CASE state = "requested"  -> {"validating", "passed", "failed"}
      [] state = "validating" -> {"not_fixed", "passed", "failed"}
      [] state = "not_fixed"  -> {"validating"}
      [] state = "passed"     -> {"verified", "validating"}
      [] OTHER                -> {}

\* Mutant: the state of the remediation is written to the finding.
BegunAsState(f) == IF f.status = "open" THEN [f EXCEPT !.status = "requested"] ELSE f

\* transition(): the finding is in progress from now on; its version stays.
Begun(f) == IF f.status = "open" THEN [f EXCEPT !.status = "in_progress"] ELSE f

PutState(r, state) ==
    /\ run' = [run EXCEPT ![r].state = state]
    /\ finding' = IF run[r].state = state \/ state = "failed" THEN finding ELSE Begun(finding)

\* Mutant: what the caller read is not checked again under the lock.
MovesUnchecked(r, state) == PutState(r, state)

\* transition(), of the state that it finds under the lock; one that was made already
\* is not made again.
Moves(r, state) ==
    /\ run[r].state = state \/ state \in Successors(StateOf(r))
    /\ PutState(r, state)

Raised(status) == [status |-> status, version |-> finding.version + 1]

-----------------------------------------------------------------------------
(* Authorization and runs.                                                  *)

\* The asset gets a newer authorization decision, or the latest expires: no run is
\* bound to a current one any more.
Decide ==
    /\ \E r \in Runs : run[r].current
    /\ run' = [r \in Runs |-> [run[r] EXCEPT !.current = FALSE]]
    /\ UNCHANGED <<finding, runs, verdict, queue, worker, client, request, executing, observed>>

\* A run is created, and bound, under a decision that is valid at the time.
NewRun(u, state) ==
    /\ runs < MaxRuns
    /\ runs' = runs + 1
    /\ run' = [run EXCEPT ![runs + 1] =
                 [status |-> "queued", user |-> u, current |-> TRUE, state |-> state,
                  present |-> "unknown"]]
    /\ queue' \in {queue, queue \cup {runs + 1}}

Of(u) == {r \in 1..runs : run[r].user = u}

\* _create_run: a remediation run, unless the user's latest is verified and the
\* finding not yet closed, or is closed, or one of his runs is active.
RequestRemediation(u) ==
    /\ \A r \in Of(u) :
         /\ (\A s \in Of(u) : s <= r) =>
               StateOf(r) # "closed" /\ (StateOf(r) = "verified" => finding.status = "fixed")
         /\ run[r].status \notin {"queued", "running"}
    /\ NewRun(u, "requested")
    /\ finding' = Begun(finding)
    /\ UNCHANGED <<verdict, worker, client, request, executing, observed>>

\* The plain validation of routers/validations.py knows neither lock nor state.
RequestValidation(u) ==
    /\ NewRun(u, "unset")
    /\ UNCHANGED <<finding, verdict, worker, client, request, executing, observed>>

-----------------------------------------------------------------------------
(* validate_finding_e2e                                                     *)

\* A run that is completed with evidence is answered.
Answer(w, r) ==
    /\ worker[w].at = "idle" /\ r \in queue
    /\ run[r].status = "completed" /\ run[r].present # "unknown"
    /\ queue' = queue \ {r}
    /\ UNCHANGED <<finding, runs, run, verdict, worker, client, request, executing, observed>>

\* The row is loaded, its result with it, ...
Load(w, r) ==
    /\ worker[w].at = "idle" /\ r \in queue
    /\ ~(run[r].status = "completed" /\ run[r].present # "unknown")
    /\ queue' = queue \ {r}
    /\ worker' = [worker EXCEPT ![w] =
                    [at |-> "mark", run |-> r, state |-> run[r].state]]
    /\ UNCHANGED <<finding, runs, run, verdict, client, request, executing, observed>>

\* ... and RUNNING is written, whatever it says by then.
MarkRunning(w) ==
    /\ worker[w].at = "mark"
    /\ PutRun(worker[w].run, "running")
    /\ worker' = [worker EXCEPT ![w].at = "bind"]
    /\ UNCHANGED <<finding, runs, verdict, queue, client, request, executing, observed>>

Refuse(w) ==
    /\ worker[w].at = "bind" /\ ~run[worker[w].run].current
    /\ PutRun(worker[w].run, "failed")
    /\ worker' = [worker EXCEPT ![w] = IdleWorker]
    /\ UNCHANGED <<finding, runs, verdict, queue, client, request, executing, observed>>

\* The engine is not the finding's: raised before the handler, the run stays RUNNING.
RaiseUnhandled(w) ==
    /\ worker[w].at = "bind" /\ run[worker[w].run].current
    /\ worker' = [worker EXCEPT ![w] = IdleWorker]
    /\ UNCHANGED <<finding, runs, run, verdict, queue, client, request, executing, observed>>

\* The scanner runs ...
Probe(w) ==
    /\ worker[w].at = "bind" /\ run[worker[w].run].current
    /\ worker' = [worker EXCEPT ![w].at = "check"]
    /\ UNCHANGED <<finding, runs, run, verdict, queue, client, request, executing, observed>>

\* ... and the authorization is revalidated before the transaction of its outcome.
Recheck(w) ==
    /\ worker[w].at = "check" /\ run[worker[w].run].current
    /\ worker' = [worker EXCEPT ![w].at = "commit"]
    /\ UNCHANGED <<finding, runs, run, verdict, queue, client, request, executing, observed>>

\* Mutant: the outcome is recorded as absent, whatever the scanner found.
RecordAbsent(w) ==
    /\ worker[w].at = "commit"
    /\ \E present \in {"present", "absent"}, ok \in BOOLEAN :
         /\ run' = [run EXCEPT ![worker[w].run] =
                      [@ EXCEPT !.status = IF ok THEN "completed" ELSE "failed",
                                !.state = worker[w].state, !.present = "absent"]]
         /\ observed' = observed \cup {<<worker[w].run, present>>}
    /\ worker' = [worker EXCEPT ![w] = IdleWorker]
    /\ UNCHANGED <<finding, runs, verdict, queue, client, request, executing>>

\* The scanner found the finding or not, and it exited with 0 or not.  The result is
\* the one that was loaded, with the outcome: what others wrote to it in the meantime,
\* VERIFIED and CLOSED included, is gone.
Record(w) ==
    /\ worker[w].at = "commit"
    /\ \E present \in {"present", "absent"}, ok \in BOOLEAN :
         /\ run' = [run EXCEPT ![worker[w].run] =
                      [@ EXCEPT !.status = IF ok THEN "completed" ELSE "failed",
                                !.state = worker[w].state, !.present = present]]
         /\ observed' = observed \cup {<<worker[w].run, present>>}
    /\ worker' = [worker EXCEPT ![w] = IdleWorker]
    /\ UNCHANGED <<finding, runs, verdict, queue, client, request, executing>>

\* Any exception, a lost authorization and a cancellation included: FAILED over
\* whatever the status is.
Fail(w) ==
    /\ worker[w].at \in {"bind", "check", "commit"}
    /\ PutRun(worker[w].run, "failed")
    /\ worker' = [worker EXCEPT ![w] = IdleWorker]
    /\ UNCHANGED <<finding, runs, verdict, queue, client, request, executing, observed>>

\* The worker is lost, or its message comes again although it lives.
Crash(w) ==
    /\ worker[w].at # "idle"
    /\ queue' = queue \cup {worker[w].run}
    /\ worker' \in {worker, [worker EXCEPT ![w] = IdleWorker]}
    /\ UNCHANGED <<finding, runs, run, verdict, client, request, executing, observed>>

-----------------------------------------------------------------------------
(* Verification.                                                            *)

Proved(r) == run[r].status = "completed" /\ run[r].present = "absent"

\* _verify_fix, by the user of the run, in one transaction; r was the latest run
\* when it was looked up.  A repeated call may or may not change a field.
VerifyFix(r) ==
    /\ r <= runs /\ Proved(r)
    /\ StateOf(r) \in {"requested", "passed", "verified"}
    /\ finding.version < MaxVersion
    /\ run' = [run EXCEPT ![r].state = "verified"]
    /\ \/ finding' = Raised(IF StateOf(r) = "verified" THEN finding.status
                            ELSE Begun(finding).status)
       \/ StateOf(r) = "verified" /\ finding' = finding
    /\ UNCHANGED <<runs, verdict, queue, worker, client, request, executing, observed>>

\* The run that a request of its user looks at.
Latest(r) == r <= runs /\ \A s \in Of(run[r].user) : s <= r

Ask(r, at, then) == client' = [at |-> at, run |-> r, then |-> then]

\* verify_validation without a transaction around it: it looks first ...
ReadForVerify(r) ==
    /\ client.at = "idle" /\ Latest(r) /\ Proved(r)
    /\ \/ StateOf(r) = "requested" /\ Ask(r, "passed", "verified")
       \/ StateOf(r) = "passed" /\ Ask(r, "verified", "idle")
    /\ UNCHANGED <<finding, runs, run, verdict, queue, worker, request, executing, observed>>

\* ... and so does remediation_status, which is polled: the state is to say what the
\* worker has written by then.
ReadForStatus(r) ==
    /\ client.at = "idle" /\ Latest(r)
    /\ \/ run[r].status = "running" /\ StateOf(r) # "validating" /\ Ask(r, "validating", "idle")
       \/ /\ run[r].status = "completed" /\ run[r].present = "present"
          /\ \/ StateOf(r) = "requested" /\ Ask(r, "validating", "not_fixed")
             \/ StateOf(r) \notin {"requested", "not_fixed"} /\ Ask(r, "not_fixed", "idle")
       \/ Proved(r) /\ StateOf(r) \notin {"passed", "verified", "closed"} /\ Ask(r, "passed", "idle")
       \/ run[r].status = "failed" /\ StateOf(r) # "failed" /\ Ask(r, "failed", "idle")
    /\ UNCHANGED <<finding, runs, run, verdict, queue, worker, request, executing, observed>>

\* Both then make their one or two transitions.
Advance ==
    /\ client.at \in Targets
    /\ Moves(client.run, client.at)
    /\ client' = IF client.then = "idle" THEN IdleClient
                 ELSE [client EXCEPT !.at = client.then, !.then = "idle"]
    /\ UNCHANGED <<runs, verdict, queue, worker, request, executing, observed>>

-----------------------------------------------------------------------------
(* Writers that know no version.                                            *)

\* What each of them may write.  PATCH: a status that no action governs, or the one
\* it read at any time before; ...
Updated == Statuses

BulkUpdated == {"open", "in_progress"}

\* ... the ingestion of a scan that shows the finding: OPEN if it was fixed when it was
\* read, and otherwise the status that was read; ...
Ingested == Statuses \ {"fixed"}

\* ... a decision that is recorded without an action: any, under the lock.
Decided == Statuses

Written == Updated \cup BulkUpdated \cup Ingested \cup Decided

WriteStatus ==
    /\ \E status \in Written : finding' = [finding EXCEPT !.status = status]
    /\ UNCHANGED <<runs, run, verdict, queue, worker, client, request, executing, observed>>

\* A validation is cancelled in two steps, too.
ReadForCancel(r) ==
    /\ client.at = "idle"
    /\ r <= runs /\ run[r].status \in {"queued", "running"}
    /\ Ask(r, "cancel", "idle")
    /\ UNCHANGED <<finding, runs, run, verdict, queue, worker, request, executing, observed>>

WriteCancelled ==
    /\ client.at = "cancel"
    /\ PutRun(client.run, "cancelled")
    /\ client' = IdleClient
    /\ UNCHANGED <<finding, runs, verdict, queue, worker, request, executing, observed>>

\* The call or its transition is refused, or its process dies.
Abandon ==
    /\ client.at # "idle"
    /\ client' = IdleClient
    /\ UNCHANGED <<finding, runs, run, verdict, queue, worker, request, executing, observed>>

-----------------------------------------------------------------------------
(* Governed actions.                                                        *)

Proposers(kind) == IF kind \in {"confirmed", "close"} THEN {{}} ELSE {{u} : u \in Users}

\* create_governed_action_request, or the call itself for those that need none:
\* somebody decides on the version and the run he sees.
Propose(q) ==
    /\ request[q].status = "none"
    /\ \E kind \in Kinds : \E by \in Proposers(kind) :
         request' = [request EXCEPT ![q] =
                       [status |-> "proposed", kind |-> kind, expected |-> finding.version,
                        by |-> by, run |-> runs]]
    /\ UNCHANGED <<finding, runs, run, verdict, queue, worker, client, executing, observed>>

\* _verified_remediation
Verified == runs > 0 /\ Proved(runs) /\ StateOf(runs) = "verified" /\ run[runs].current

\* The lifecycle of the finding's capability manifest; "fixed" is called closed there.
Lifecycle == IF Verified THEN "verified" ELSE finding.status

\* The allowed states of the action's contract.
Eligible(kind) ==
    CASE kind \in Verdicts         -> {"open"}
      [] kind = "accepted_risk"    -> {"confirmed"}
      [] kind = "wont_fix"         -> {"confirmed", "accepted_risk"}
      [] kind = "duplicate"        -> {"open", "confirmed"}
      [] kind = "close"            -> {"verified"}

Shows(kind) == IF kind = "confirmed" THEN "present" ELSE "absent"

\* _confirmation_candidate: the latest run, completed, authorized, and it shows it.
Supported(q) ==
    /\ runs > 0 /\ request[q].run = runs
    /\ run[runs].status = "completed" /\ run[runs].current
    /\ run[runs].present = Shows(request[q].kind)

\* Mutant: a version that the finding has passed is good enough.
VersionReached(q) == request[q].expected <= finding.version

\* The expected version, compared with the manifest and again under the row's lock.
VersionSeen(q) == request[q].expected = finding.version

\* Up to the manifest at commit time, under the lock of the organization: not executed
\* yet, the version, the contract, evidence for a verdict, and a second person where a
\* request is needed.  The finding itself is not locked yet.
Admit(q, u) ==
    /\ executing = {}
    /\ request[q].status = "proposed" /\ VersionSeen(q)
    /\ Lifecycle \in Eligible(request[q].kind)
    /\ request[q].kind \in Verdicts => Supported(q)
    /\ u \notin request[q].by
    /\ executing' = {<<q, u>>}
    /\ UNCHANGED <<finding, runs, run, verdict, queue, worker, client, request, observed>>

\* The domain refuses, or the process dies: nothing happened.
RollBack ==
    /\ executing # {}
    /\ executing' = {}
    /\ UNCHANGED <<finding, runs, run, verdict, queue, worker, client, request, observed>>

\* The domain's primitive under the lock of the finding, the execution row and the
\* commit; "by" is the actor from now on.
Commit(q, u, status, r) ==
    /\ <<q, u>> \in executing
    /\ executing' = {}
    /\ request' = [request EXCEPT ![q].status = status, ![q].by = {u}, ![q].run = r]

Raise(q, status) ==
    /\ VersionSeen(q) /\ finding.version < MaxVersion
    /\ finding' = Raised(status)

\* confirm_finding, with either verdict: one per run.
Judge(q, u) ==
    /\ request[q].kind \in Verdicts
    /\ Commit(q, u, "executed", runs)
    /\ Supported(q) /\ verdict[runs] = "none"
    /\ finding.status \in {"open"} \cup ({"confirmed"} \cap {request[q].kind})
    /\ verdict' = [verdict EXCEPT ![runs] = request[q].kind]
    /\ Raise(q, request[q].kind)
    /\ UNCHANGED <<runs, run, queue, worker, client, observed>>

\* The same verdict of the same run, for the same reason: it is there already, the
\* finding is not looked at, and the execution is recorded all the same.
JudgeAgain(q, u) ==
    /\ request[q].kind \in Verdicts
    /\ Commit(q, u, "replayed", request[q].run)
    /\ verdict[request[q].run] = request[q].kind
    /\ UNCHANGED <<finding, runs, run, verdict, queue, worker, client, observed>>

\* _validate_transition
Disposable(kind) ==
    \/ finding.status \in {"open", "confirmed", kind}
    \/ {finding.status, kind} = {"accepted_risk", "wont_fix"}

\* govern_finding_disposition
Dispose(q, u) ==
    /\ request[q].kind \in Dispositions
    /\ Commit(q, u, "executed", request[q].run)
    /\ Disposable(request[q].kind) /\ finding.status # request[q].kind
    /\ Raise(q, request[q].kind)
    /\ UNCHANGED <<runs, run, verdict, queue, worker, client, observed>>

\* Mutant: anybody's disposition of the same kind is repeated.
DisposeAgainForAnyone(q, u) ==
    /\ request[q].kind \in Dispositions
    /\ Commit(q, u, "replayed", request[q].run)
    /\ Disposable(request[q].kind)
    /\ \E p \in Requests : request[p].status = "executed" /\ request[p].kind = request[q].kind
    /\ UNCHANGED <<finding, runs, run, verdict, queue, worker, client, observed>>

\* The same disposition by the same actor, with the same parameters.
DisposeAgain(q, u) ==
    /\ request[q].kind \in Dispositions
    /\ Commit(q, u, "replayed", request[q].run)
    /\ Disposable(request[q].kind)
    /\ \E p \in Requests :
         request[p].status = "executed" /\ request[p].kind = request[q].kind /\ request[p].by = {u}
    /\ UNCHANGED <<finding, runs, run, verdict, queue, worker, client, observed>>

\* Mutant: the run that its author saw is reported as closed, not the one that is.
CloseSeen(q, u) ==
    /\ request[q].kind = "close"
    /\ Commit(q, u, "executed", request[q].run)
    /\ finding.status \in {"confirmed", "in_progress"}
    /\ Verified /\ u # run[runs].user
    /\ run' = [run EXCEPT ![runs].state = "closed"]
    /\ Raise(q, "fixed")
    /\ UNCHANGED <<runs, verdict, queue, worker, client, observed>>

\* close_finding, by somebody who did not run the validation.
CloseFinding(q, u) ==
    /\ request[q].kind = "close"
    /\ Commit(q, u, "executed", runs)
    /\ finding.status \in {"confirmed", "in_progress"}
    /\ Verified /\ u # run[runs].user
    /\ run' = [run EXCEPT ![runs].state = "closed"]
    /\ Raise(q, "fixed")
    /\ UNCHANGED <<runs, verdict, queue, worker, client, observed>>

-----------------------------------------------------------------------------
Work(w) ==
    \/ \E r \in Runs : Answer(w, r) \/ Load(w, r)
    \/ MarkRunning(w) \/ Refuse(w) \/ RaiseUnhandled(w) \/ Probe(w) \/ Recheck(w) \/ Record(w)
    \/ Fail(w) \/ Crash(w)

Execute(q, u) ==
    \/ Admit(q, u)
    \/ Judge(q, u) \/ JudgeAgain(q, u)
    \/ Dispose(q, u) \/ DisposeAgain(q, u)
    \/ CloseFinding(q, u)

Next ==
    \/ Decide
    \/ \E u \in Users : RequestRemediation(u) \/ RequestValidation(u)
    \/ \E w \in Workers : Work(w)
    \/ \E r \in Runs : VerifyFix(r) \/ ReadForVerify(r) \/ ReadForStatus(r) \/ ReadForCancel(r)
    \/ Advance \/ WriteCancelled \/ Abandon
    \/ WriteStatus \/ RollBack
    \/ \E q \in Requests : Propose(q) \/ \E u \in Users : Execute(q, u)

Spec == Init /\ [][Next]_vars

-----------------------------------------------------------------------------
TypeOK ==
    /\ finding \in [status : Statuses, version : Nat \ {0}]
    /\ runs \in Nat
    /\ run \in [Runs -> [status : RunStatuses, user : Users, current : BOOLEAN, state : States,
                         present : Outcomes]]
    /\ verdict \in [Runs -> Verdicts \cup {"none"}]
    /\ queue \subseteq Runs
    /\ worker \in [Workers -> [at : {"idle", "mark", "bind", "check", "commit"}, run : Nat,
                               state : States]]
    /\ client \in [at : {"idle", "cancel"} \cup Targets, run : Nat, then : {"idle"} \cup Targets]
    /\ request \in [Requests -> [status : {"none", "proposed", "executed", "replayed"},
                                 kind : Kinds, expected : Nat, by : SUBSET Users, run : Nat]]
    /\ executing \subseteq Requests \X Users
    /\ observed \subseteq Runs \X {"present", "absent"}

Executed(q) == request[q].status = "executed"

\* No two governed actions take effect on one version of the finding, although most
\* of its writers neither compare nor raise the version (governed_action_executor.py:1258-1269).
VersionsAreSpentOnce ==
    \A q, p \in Requests :
        q # p /\ Executed(q) /\ Executed(p) => request[q].expected # request[p].expected

\* A verdict and a closure rest on an outcome that was recorded for the very run they
\* name, however its deliveries, verifications and cancellations overlap
\* (finding_confirmation.py:228-246, finding_closure.py:52-78).
VerdictsWereObserved ==
    \A q \in Requests :
        Executed(q) /\ request[q].kind \in Verdicts \cup {"close"} =>
            <<request[q].run, Shows(request[q].kind)>> \in observed

\* A run says CLOSED only if the governed closure did close it: a late worker writes
\* no more than it loaded (finding_closure.py:141-154, finding_validation.py:192-197).
ClosedWasExecuted ==
    \A r \in Runs :
        run[r].state = "closed" =>
            \E q \in Requests :
                Executed(q) /\ request[q].kind = "close" /\ request[q].run = r

\* Whatever polls, verifications and cancellations read before, VERIFIED is left for
\* CLOSED only and CLOSED not at all, but for a worker that loaded the run earlier and
\* records its outcome with the result of then (remediation_lifecycle.py:25-35, 89-95,
\* finding_validation.py:192-197).
ProofIsKept ==
    [][\A r \in 1..runs : run[r].state \in {"verified", "closed"} =>
          \/ run'[r].state \in {run[r].state, "closed"}
          \/ \E w \in Workers : worker[w].run = r /\ Record(w)]_vars

\* Both together: what is reported as verified or closed.
ClosureIsGoverned == []ClosedWasExecuted /\ ProofIsKept

\* A decision that is answered by what is there already, with no look at the version
\* or the status, repeats one that was executed: the same verdict of the same run, or
\* the same disposition by the same person; whatever was written to the finding in
\* between (finding_confirmation.py:188-199, finding_disposition.py:203-209).
ReplaysRepeat ==
    \A q \in Requests :
        request[q].status = "replayed" =>
            \E p \in Requests :
                /\ Executed(p) /\ request[p].kind = request[q].kind
                /\ request[q].kind \in Verdicts => request[p].run = request[q].run
                /\ request[q].kind \in Dispositions => request[p].by = request[q].by

=============================================================================
