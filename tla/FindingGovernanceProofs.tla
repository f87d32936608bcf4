------------------------ MODULE FindingGovernanceProofs ------------------------
(***************************************************************************)
(* Theorems about FindingGovernance, for any number of users, decisions,    *)
(* workers, runs and versions.                                              *)
(*                                                                          *)
(* The version never falls, and an executed decision has left its own       *)
(* behind (Past); what a run shows was recorded of it (Shown); and CLOSED,  *)
(* in a run or in the hands of a late worker, goes back to an executed      *)
(* closure (Closed).                                                        *)
(***************************************************************************)
EXTENDS FindingGovernance, TLAPS

Findings == [status : Statuses, version : Nat \ {0}]
RunRecords == [status : RunStatuses, user : Users, current : BOOLEAN, state : States,
               present : Outcomes]
WorkerRecords == [at : {"idle", "mark", "bind", "check", "commit"}, run : Nat, state : States]
ClientRecords == [at : {"idle", "cancel"} \cup Targets, run : Nat, then : {"idle"} \cup Targets]
Decisions == [status : {"none", "proposed", "executed", "replayed"},
              kind : Kinds, expected : Nat, by : SUBSET Users, run : Nat]

Busy(w) == worker[w].at # "idle"

TypeInv ==
    /\ TypeOK
    /\ runs \in 0..MaxRuns
    /\ \A w \in Workers : Busy(w) => worker[w].run \in Runs

\* A decision that is being executed was not executed before.
Open == \A q \in Requests, u \in Users : <<q, u>> \in executing => request[q].status = "proposed"

Past == \A q \in Requests : Executed(q) => request[q].expected < finding.version

Shown == \A r \in Runs : run[r].present # "unknown" => <<r, run[r].present>> \in observed

ClosedBy(r) ==
    \E q \in Requests : Executed(q) /\ request[q].kind = "close" /\ request[q].run = r

Closed ==
    \A w \in Workers : Busy(w) /\ worker[w].state = "closed" => ClosedBy(worker[w].run)

SafeInv ==
    /\ Open /\ Past /\ Shown /\ Closed
    /\ VersionsAreSpentOnce /\ VerdictsWereObserved /\ ClosedWasExecuted

Inv == TypeInv /\ SafeInv

-----------------------------------------------------------------------------
(* Types.                                                                   *)

LEMMA KindsTyped ==
    /\ Verdicts \subseteq Statuses /\ Dispositions \subseteq Statuses
    /\ Verdicts \subseteq Kinds /\ Dispositions \subseteq Kinds /\ "close" \in Kinds
    /\ "close" \notin Verdicts
BY KindAssumption DEF Statuses, Kinds

LEMMA InitTyped == Init => TypeInv
<1> SUFFICES ASSUME Init PROVE TypeInv
  OBVIOUS
<1>1. run \in [Runs -> RunRecords]
  BY DEF Init, NoRun, RunRecords, RunStatuses, States, Outcomes
<1>2. request \in [Requests -> Decisions]
  BY KindsTyped DEF Init, NoRequest, Decisions
<1>3. finding \in Findings
  BY DEF Init, Findings, Statuses
<1>4. worker \in [Workers -> WorkerRecords] /\ \A w \in Workers : ~Busy(w)
  BY DEF Init, IdleWorker, WorkerRecords, States, Busy
<1>5. client \in ClientRecords
  BY DEF Init, IdleClient, ClientRecords
<1>6. runs \in 0..MaxRuns /\ runs \in Nat
  BY BoundsAssumption DEF Init
<1> QED
  BY <1>1, <1>2, <1>3, <1>4, <1>5, <1>6
  DEF Init, TypeInv, TypeOK, RunRecords, Decisions, Findings, WorkerRecords, ClientRecords

LEMMA RunFields ==
    ASSUME NEW record \in RunRecords
    PROVE  /\ \A status \in RunStatuses :
                /\ [record EXCEPT !.status = status] \in RunRecords
                /\ [record EXCEPT !.status = status].state = record.state
                /\ [record EXCEPT !.status = status].present = record.present
           /\ \A state \in States :
                /\ [record EXCEPT !.state = state] \in RunRecords
                /\ [record EXCEPT !.state = state].state = state
                /\ [record EXCEPT !.state = state].present = record.present
           /\ [record EXCEPT !.current = FALSE] \in RunRecords
           /\ [record EXCEPT !.current = FALSE].state = record.state
           /\ [record EXCEPT !.current = FALSE].present = record.present
BY DEF RunRecords

LEMMA PutRunTyped ==
    ASSUME TypeOK, NEW r, NEW status \in RunStatuses, PutRun(r, status)
    PROVE  /\ run' \in [Runs -> RunRecords]
           /\ \A s \in Runs : run'[s].state = run[s].state /\ run'[s].present = run[s].present
<1>1. run \in [Runs -> RunRecords]
  BY DEF TypeOK, RunRecords
<1>2. run' = [s \in Runs |-> IF s = r THEN [run[s] EXCEPT !.status = status] ELSE run[s]]
  BY <1>1 DEF PutRun
<1>3. ASSUME NEW s \in Runs
      PROVE  run'[s] \in RunRecords /\ run'[s].state = run[s].state /\ run'[s].present = run[s].present
  <2>1. run[s] \in RunRecords
    BY <1>1
  <2>2. CASE s = r
    <3>1. run'[s] = [run[s] EXCEPT !.status = status]
      BY <1>2, <2>2
    <3> QED
      BY <2>1, <3>1 DEF RunRecords
  <2>3. CASE s # r
    BY <1>2, <2>1, <2>3
  <2> QED
    BY <2>2, <2>3
<1> QED
  BY <1>2, <1>3

LEMMA StateTyped ==
    ASSUME TypeOK, NEW r, NEW state \in States, run' = [run EXCEPT ![r].state = state]
    PROVE  /\ run' \in [Runs -> RunRecords]
           /\ \A s \in Runs : run'[s].present = run[s].present
           /\ \A s \in Runs : s # r => run'[s] = run[s]
           /\ r \in Runs => run'[r].state = state
<1>1. run \in [Runs -> RunRecords]
  BY DEF TypeOK, RunRecords
<1>2. run' = [s \in Runs |-> IF s = r THEN [run[s] EXCEPT !.state = state] ELSE run[s]]
  BY <1>1
<1>3. ASSUME NEW s \in Runs
      PROVE  run'[s] \in RunRecords /\ run'[s].present = run[s].present
  <2>1. run[s] \in RunRecords
    BY <1>1
  <2>2. CASE s = r
    <3>1. run'[s] = [run[s] EXCEPT !.state = state]
      BY <1>2, <2>2
    <3> QED
      BY <2>1, <3>1 DEF RunRecords
  <2>3. CASE s # r
    BY <1>2, <2>1, <2>3
  <2> QED
    BY <2>2, <2>3
<1>4. r \in Runs => run'[r].state = state
  BY <1>1, <1>2, RunFields
<1> QED
  BY <1>2, <1>3, <1>4

LEMMA DecideTyped ==
    ASSUME TypeOK, Decide
    PROVE  /\ run' \in [Runs -> RunRecords]
           /\ \A s \in Runs : run'[s].state = run[s].state /\ run'[s].present = run[s].present
<1>1. run \in [Runs -> RunRecords]
  BY DEF TypeOK, RunRecords
<1>2. run' = [r \in Runs |-> [run[r] EXCEPT !.current = FALSE]]
  BY DEF Decide
<1>3. ASSUME NEW s \in Runs
      PROVE  run'[s] \in RunRecords /\ run'[s].state = run[s].state /\ run'[s].present = run[s].present
  BY <1>1, <1>2, RunFields
<1> QED
  BY <1>2, <1>3

LEMMA BegunTyped ==
    ASSUME TypeOK
    PROVE  Begun(finding) \in Findings /\ Begun(finding).version = finding.version
BY DEF TypeOK, Begun, Findings, Statuses

LEMMA RaisedTyped ==
    ASSUME TypeOK, NEW status \in Statuses
    PROVE  Raised(status) \in Findings /\ Raised(status).version = finding.version + 1
BY DEF TypeOK, Raised, Findings

LEMMA NewRunTyped ==
    ASSUME TypeInv, NEW u \in Users, NEW state \in States, NewRun(u, state)
    PROVE  /\ runs' \in 0..MaxRuns /\ runs' = runs + 1 /\ runs' \in Runs
           /\ run' \in [Runs -> RunRecords]
           /\ run'[runs'].state = state /\ run'[runs'].present = "unknown"
           /\ \A r \in Runs : r # runs' => run'[r] = run[r]
           /\ queue' \subseteq Runs
<1>1. runs + 1 \in Runs /\ runs + 1 \in 0..MaxRuns
  BY BoundsAssumption DEF NewRun, TypeInv, Runs
<1>2. [status |-> "queued", user |-> u, current |-> TRUE, state |-> state,
       present |-> "unknown"] \in RunRecords
  BY DEF RunRecords, RunStatuses, Outcomes
<1>3. run \in [Runs -> RunRecords]
  BY DEF TypeInv, TypeOK, RunRecords
<1> QED
  BY <1>1, <1>2, <1>3 DEF NewRun, TypeInv, TypeOK

LEMMA IdleTyped ==
    ASSUME TypeOK, NEW w \in Workers, worker' = [worker EXCEPT ![w] = IdleWorker]
    PROVE  /\ worker' \in [Workers -> WorkerRecords]
           /\ worker'[w].at = "idle"
           /\ \A v \in Workers : v # w => worker'[v] = worker[v]
BY DEF TypeOK, IdleWorker, WorkerRecords, States

LEMMA StepTyped ==
    ASSUME TypeOK, NEW w \in Workers, NEW at \in {"bind", "check", "commit"},
           worker' = [worker EXCEPT ![w].at = at]
    PROVE  /\ worker' \in [Workers -> WorkerRecords]
           /\ worker'[w].at = at /\ worker'[w].run = worker[w].run
           /\ worker'[w].state = worker[w].state
           /\ \A v \in Workers : v # w => worker'[v] = worker[v]
BY DEF TypeOK, WorkerRecords

\* A transition writes one of the states that can be asked for.
LEMMA MovesTyped ==
    ASSUME TypeInv, NEW r, NEW state \in Targets, Moves(r, state)
    PROVE  /\ run' = [run EXCEPT ![r].state = state] /\ state \in States
           /\ run' \in [Runs -> RunRecords]
           /\ finding' \in Findings /\ finding'.version = finding.version
<1>1. run' = [run EXCEPT ![r].state = state] /\ state \in States
  BY DEF Moves, PutState, States
<1>2. run' \in [Runs -> RunRecords]
  BY <1>1, StateTyped DEF TypeInv
<1>3. finding' \in {finding, Begun(finding)}
  BY DEF Moves, PutState
<1> QED
  BY <1>1, <1>2, <1>3, BegunTyped DEF TypeInv, TypeOK, Findings

LEMMA AskTyped ==
    ASSUME NEW r \in Nat, NEW at \in {"cancel"} \cup Targets, NEW then \in {"idle"} \cup Targets,
           Ask(r, at, then)
    PROVE  client' \in ClientRecords
BY DEF Ask, ClientRecords

\* A run is created, or cancelled, or verified, or judged by the world.
LEMMA RunsTyped ==
    ASSUME TypeInv,
           \/ Decide
           \/ \E u \in Users : RequestRemediation(u) \/ RequestValidation(u)
           \/ \E r \in Runs : \/ VerifyFix(r) \/ ReadForVerify(r)
                             \/ ReadForStatus(r) \/ ReadForCancel(r)
           \/ Advance \/ WriteCancelled \/ Abandon \/ WriteStatus
    PROVE  TypeInv'
<1>1. {"unset", "requested", "passed", "verified"} \subseteq States /\ "cancelled" \in RunStatuses
  BY DEF States, Targets, RunStatuses
<1>2. finding \in Findings /\ Begun(finding) \in Findings
  BY BegunTyped DEF TypeInv, TypeOK, Findings
<1>3. CASE Decide
  <2>1. run' \in [Runs -> RunRecords]
    BY <1>3, DecideTyped DEF TypeInv
  <2> QED
    BY <1>3, <2>1 DEF Decide, TypeInv, TypeOK, Busy, RunRecords
<1>4. ASSUME NEW u \in Users, RequestRemediation(u) PROVE TypeInv'
  BY <1>1, <1>2, <1>4, NewRunTyped
  DEF RequestRemediation, TypeInv, TypeOK, Busy, RunRecords, Findings
<1>5. ASSUME NEW u \in Users, RequestValidation(u) PROVE TypeInv'
  BY <1>1, <1>5, NewRunTyped DEF RequestValidation, TypeInv, TypeOK, Busy, RunRecords
<1>6. ASSUME NEW r \in Runs, VerifyFix(r) PROVE TypeInv'
  <2>1. run' \in [Runs -> RunRecords]
    BY <1>1, <1>6, StateTyped DEF VerifyFix, TypeInv
  <2>2. finding' \in Findings
    <3>1. finding.status \in Statuses /\ Begun(finding).status \in Statuses
      BY <1>2 DEF Findings
    <3>2. Raised(finding.status) \in Findings /\ Raised(Begun(finding).status) \in Findings
      BY <3>1, RaisedTyped DEF TypeInv
    <3> QED
      BY <1>2, <1>6, <3>2 DEF VerifyFix
  <2> QED
    BY <1>6, <2>1, <2>2 DEF VerifyFix, TypeInv, TypeOK, Busy, RunRecords, Findings
<1>7. ASSUME NEW r \in Runs, ReadForVerify(r) \/ ReadForStatus(r) \/ ReadForCancel(r)
      PROVE  TypeInv'
  <2>1. r \in Nat
    BY BoundsAssumption DEF Runs
  <2>2. PICK at \in {"cancel"} \cup Targets, then \in {"idle"} \cup Targets : Ask(r, at, then)
    BY <1>7 DEF ReadForVerify, ReadForStatus, ReadForCancel, Targets
  <2>3. client' \in ClientRecords
    BY <2>1, <2>2, AskTyped
  <2> QED
    BY <1>7, <2>3
    DEF ReadForVerify, ReadForStatus, ReadForCancel, TypeInv, TypeOK, Busy, ClientRecords
<1>8. CASE Advance
  <2>1. run' \in [Runs -> RunRecords] /\ finding' \in Findings
    BY <1>8, MovesTyped DEF Advance
  <2>2. client' \in ClientRecords
    BY <1>8 DEF Advance, IdleClient, TypeInv, TypeOK, ClientRecords
  <2> QED
    BY <1>8, <2>1, <2>2
    DEF Advance, TypeInv, TypeOK, Busy, RunRecords, Findings, ClientRecords
<1>9. CASE WriteCancelled
  BY <1>1, <1>9, PutRunTyped DEF WriteCancelled, IdleClient, TypeInv, TypeOK, Busy, RunRecords
<1>10. CASE Abandon
  BY <1>10 DEF Abandon, IdleClient, TypeInv, TypeOK, Busy
<1>11. CASE WriteStatus
  <2>1. PICK status \in Statuses : finding' = [finding EXCEPT !.status = status]
    BY <1>11 DEF WriteStatus, Written, Updated, BulkUpdated, Ingested, Decided, Statuses
  <2>2. finding' \in Findings
    BY <1>2, <2>1 DEF Findings
  <2> QED
    BY <1>11, <2>2 DEF WriteStatus, TypeInv, TypeOK, Busy, Findings
<1> QED
  BY <1>3, <1>4, <1>5, <1>6, <1>7, <1>8, <1>9, <1>10, <1>11

LEMMA WorkTyped ==
    ASSUME TypeInv, NEW w \in Workers, Work(w)
    PROVE  TypeInv'
<1>1. {"running", "failed", "completed"} \subseteq RunStatuses
  BY DEF RunStatuses
<1>2. ASSUME NEW r \in Runs, Answer(w, r) PROVE TypeInv'
  BY <1>2 DEF Answer, TypeInv, TypeOK, Busy
<1>3. ASSUME NEW r \in Runs, Load(w, r) PROVE TypeInv'
  <2>1. [at |-> "mark", run |-> r, state |-> run[r].state] \in WorkerRecords
    BY BoundsAssumption DEF TypeInv, TypeOK, WorkerRecords, Runs
  <2>2. /\ worker' \in [Workers -> WorkerRecords] /\ worker'[w].run = r
        /\ \A v \in Workers : v # w => worker'[v] = worker[v]
    BY <1>3, <2>1 DEF Load, TypeInv, TypeOK, WorkerRecords
  <2> QED
    BY <1>3, <2>2 DEF Load, TypeInv, TypeOK, Busy, WorkerRecords
<1>4. CASE MarkRunning(w)
  BY <1>1, <1>4, PutRunTyped, StepTyped
  DEF MarkRunning, TypeInv, TypeOK, Busy, RunRecords, WorkerRecords
<1>5. CASE Refuse(w) \/ Fail(w)
  BY <1>1, <1>5, PutRunTyped, IdleTyped
  DEF Refuse, Fail, TypeInv, TypeOK, Busy, RunRecords, WorkerRecords
<1>6. CASE RaiseUnhandled(w)
  BY <1>6, IdleTyped DEF RaiseUnhandled, TypeInv, TypeOK, Busy, WorkerRecords
<1>7. CASE Probe(w) \/ Recheck(w)
  BY <1>7, StepTyped DEF Probe, Recheck, TypeInv, TypeOK, Busy, WorkerRecords
<1>8. CASE Record(w)
  <2> DEFINE r == worker[w].run
  <2>1. r \in Runs /\ run \in [Runs -> RunRecords] /\ worker[w].state \in States
    BY <1>8 DEF Record, TypeInv, TypeOK, Busy, RunRecords
  <2>2. PICK present \in {"present", "absent"}, ok \in BOOLEAN :
          /\ run' = [run EXCEPT ![r] =
                       [@ EXCEPT !.status = IF ok THEN "completed" ELSE "failed",
                                 !.state = worker[w].state, !.present = present]]
          /\ observed' = observed \cup {<<r, present>>}
    BY <1>8 DEF Record
  <2>3. run' \in [Runs -> RunRecords]
    BY <1>1, <2>1, <2>2 DEF RunRecords, Outcomes
  <2>4. observed' \subseteq Runs \X {"present", "absent"}
    BY <2>1, <2>2 DEF TypeInv, TypeOK
  <2> QED
    BY <1>8, <2>3, <2>4, IdleTyped DEF Record, TypeInv, TypeOK, Busy, RunRecords, WorkerRecords
<1>9. CASE Crash(w)
  <2>1. worker[w].run \in Runs
    BY <1>9 DEF Crash, TypeInv, Busy
  <2>2. CASE worker' = worker
    BY <1>9, <2>1, <2>2 DEF Crash, TypeInv, TypeOK, Busy
  <2>3. CASE worker' = [worker EXCEPT ![w] = IdleWorker]
    <3>1. worker' \in [Workers -> WorkerRecords] /\ worker'[w].at = "idle"
          /\ \A v \in Workers : v # w => worker'[v] = worker[v]
      BY <2>3, IdleTyped DEF TypeInv
    <3> QED
      BY <1>9, <2>1, <3>1 DEF Crash, TypeInv, TypeOK, Busy, WorkerRecords
  <2> QED
    BY <1>9, <2>2, <2>3 DEF Crash
<1> QED
  BY <1>2, <1>3, <1>4, <1>5, <1>6, <1>7, <1>8, <1>9 DEF Work

\* What a commit does to its decision.
LEMMA CommitTyped ==
    ASSUME TypeOK, NEW q \in Requests, NEW u \in Users, NEW r \in Nat,
           NEW status \in {"executed", "replayed"}, Commit(q, u, status, r)
    PROVE  /\ request' \in [Requests -> Decisions] /\ executing' = {}
           /\ request'[q].status = status /\ request'[q].run = r
           /\ request'[q].kind = request[q].kind /\ request'[q].expected = request[q].expected
           /\ \A p \in Requests : p # q => request'[p] = request[p]
<1> DEFINE row == [request[q] EXCEPT !.status = status, !.by = {u}, !.run = r]
<1>1. request \in [Requests -> Decisions]
  BY DEF TypeOK, Decisions
<1>2. request' = [request EXCEPT ![q] = row]
  BY <1>1 DEF Commit
<1>3. /\ row \in Decisions /\ row.status = status /\ row.run = r
      /\ row.kind = request[q].kind /\ row.expected = request[q].expected
  BY <1>1 DEF Decisions
<1>4. executing' = {}
  BY DEF Commit
<1> HIDE DEF row
<1>5. request'[q] = row /\ \A p \in Requests : p # q => request'[p] = request[p]
  BY <1>1, <1>2
<1>6. request' \in [Requests -> Decisions]
  BY <1>1, <1>2, <1>3
<1> QED
  BY <1>3, <1>4, <1>5, <1>6

LEMMA ProposeTyped ==
    ASSUME TypeInv, NEW q \in Requests, Propose(q)
    PROVE  /\ TypeInv' /\ request'[q].status = "proposed"
           /\ \A p \in Requests : p # q => request'[p] = request[p]
<1>1. PICK kind \in Kinds : \E by \in Proposers(kind) :
         request' = [request EXCEPT ![q] =
                       [status |-> "proposed", kind |-> kind, expected |-> finding.version,
                        by |-> by, run |-> runs]]
  BY DEF Propose
<1>2. PICK by \in Proposers(kind) :
         request' = [request EXCEPT ![q] =
                       [status |-> "proposed", kind |-> kind, expected |-> finding.version,
                        by |-> by, run |-> runs]]
  BY <1>1
<1>3. by \in SUBSET Users
  BY DEF Proposers
<1>4. [status |-> "proposed", kind |-> kind, expected |-> finding.version,
       by |-> by, run |-> runs] \in Decisions
  BY <1>3 DEF Decisions, TypeInv, TypeOK
<1>5. /\ request' \in [Requests -> Decisions] /\ request'[q].status = "proposed"
      /\ \A p \in Requests : p # q => request'[p] = request[p]
  BY <1>2, <1>4 DEF TypeInv, TypeOK, Decisions
<1> QED
  BY <1>5 DEF Propose, TypeInv, TypeOK, Busy, Decisions

LEMMA ExecuteTyped ==
    ASSUME TypeInv, NEW q \in Requests, NEW u \in Users, Execute(q, u)
    PROVE  TypeInv'
<1>1. /\ runs \in Nat /\ request[q].run \in Nat
      /\ Raised("fixed") \in Findings
  BY RaisedTyped DEF TypeInv, TypeOK, Statuses
<1>2. CASE Admit(q, u)
  BY <1>2 DEF Admit, TypeInv, TypeOK, Busy
<1>3. CASE Judge(q, u)
  <2>1. request' \in [Requests -> Decisions] /\ executing' = {}
    BY <1>1, <1>3, CommitTyped DEF Judge, TypeInv
  <2>2. finding' \in Findings
    BY <1>3, RaisedTyped, KindsTyped DEF Judge, Raise, TypeInv
  <2>3. verdict' \in [Runs -> Verdicts \cup {"none"}]
    BY <1>3 DEF Judge, TypeInv, TypeOK
  <2> QED
    BY <1>3, <2>1, <2>2, <2>3 DEF Judge, TypeInv, TypeOK, Busy, Decisions, Findings
<1>4. CASE JudgeAgain(q, u)
  <2>1. request' \in [Requests -> Decisions] /\ executing' = {}
    BY <1>1, <1>4, CommitTyped DEF JudgeAgain, TypeInv
  <2> QED
    BY <1>4, <2>1 DEF JudgeAgain, TypeInv, TypeOK, Busy, Decisions
<1>5. CASE Dispose(q, u)
  <2>1. request' \in [Requests -> Decisions] /\ executing' = {}
    BY <1>1, <1>5, CommitTyped DEF Dispose, TypeInv
  <2>2. finding' \in Findings
    BY <1>5, RaisedTyped, KindsTyped DEF Dispose, Raise, TypeInv
  <2> QED
    BY <1>5, <2>1, <2>2 DEF Dispose, TypeInv, TypeOK, Busy, Decisions, Findings
<1>6. CASE DisposeAgain(q, u)
  <2>1. request' \in [Requests -> Decisions] /\ executing' = {}
    BY <1>1, <1>6, CommitTyped DEF DisposeAgain, TypeInv
  <2> QED
    BY <1>6, <2>1 DEF DisposeAgain, TypeInv, TypeOK, Busy, Decisions
<1>7. CASE CloseFinding(q, u)
  <2>1. request' \in [Requests -> Decisions] /\ executing' = {}
    BY <1>1, <1>7, CommitTyped DEF CloseFinding, TypeInv
  <2>2. run' \in [Runs -> RunRecords]
    BY <1>7, StateTyped DEF CloseFinding, TypeInv, States
  <2> QED
    BY <1>1, <1>7, <2>1, <2>2
    DEF CloseFinding, Raise, TypeInv, TypeOK, Busy, Decisions, Findings, RunRecords
<1> QED
  BY <1>2, <1>3, <1>4, <1>5, <1>6, <1>7 DEF Execute

LEMMA TypeStep == TypeInv /\ [Next]_vars => TypeInv'
<1> SUFFICES ASSUME TypeInv, [Next]_vars PROVE TypeInv'
  OBVIOUS
<1>1. CASE RollBack
  BY <1>1 DEF RollBack, TypeInv, TypeOK, Busy
<1>2. CASE UNCHANGED vars
  BY <1>2 DEF vars, TypeInv, TypeOK, Busy
<1> QED
  BY <1>1, <1>2, RunsTyped, WorkTyped, ProposeTyped, ExecuteTyped DEF Next

\* Finding, runs, messages, workers and decisions stay well typed, for any number of
\* runs and versions (finding_validation.py:76-233, governed_action_executor.py:1159-1470).
THEOREM TypeCorrect == Spec => []TypeOK
<1>1. Init => TypeInv
  BY InitTyped
<1>2. TypeInv /\ [Next]_vars => TypeInv'
  BY TypeStep
<1>3. TypeInv => TypeOK
  BY DEF TypeInv
<1> QED
  BY <1>1, <1>2, <1>3, PTL DEF Spec

-----------------------------------------------------------------------------
(* Safety.                                                                  *)

LEMMA InitSafe == Init => SafeInv
<1> SUFFICES ASSUME Init PROVE SafeInv
  OBVIOUS
<1>1. \A q \in Requests : request[q].status = "none"
  BY DEF Init, NoRequest
<1>2. \A r \in Runs : run[r].state = "unset" /\ run[r].present = "unknown"
  BY DEF Init, NoRun
<1>3. executing = {} /\ \A w \in Workers : ~Busy(w)
  BY DEF Init, IdleWorker, Busy
<1> QED
  BY <1>1, <1>2, <1>3
  DEF SafeInv, Open, Past, Shown, Closed, VersionsAreSpentOnce, VerdictsWereObserved,
      ClosedWasExecuted, Executed

\* A step that neither writes a decision nor begins to execute one keeps the invariant
\* if what its runs show was recorded, and what it calls closed was.
LEMMA Frame ==
    ASSUME Inv, request' = request, executing' \subseteq executing,
           finding'.version \in Nat, finding'.version >= finding.version,
           observed \subseteq observed', Shown',
           \A r \in Runs : run'[r].state = "closed" => ClosedBy(r),
           \A w \in Workers : worker'[w].at # "idle" /\ worker'[w].state = "closed"
                                  => ClosedBy(worker'[w].run)
    PROVE  SafeInv'
<1>1. \A q \in Requests : Executed(q)' <=> Executed(q)
  BY DEF Executed
<1>2. Open'
  BY DEF Inv, SafeInv, Open
<1>3. Past'
  <2>1. \A q \in Requests : Executed(q) => request[q].expected < finding.version
    BY DEF Inv, SafeInv, Past
  <2>2. finding.version \in Nat /\ \A q \in Requests : request[q].expected \in Nat
    BY DEF Inv, TypeInv, TypeOK
  <2> QED
    BY <1>1, <2>1, <2>2 DEF Past
<1>4. Closed' /\ ClosedWasExecuted'
  BY <1>1 DEF Closed, ClosedWasExecuted, ClosedBy, Busy
<1>5. VersionsAreSpentOnce' /\ VerdictsWereObserved'
  BY <1>1 DEF Inv, SafeInv, VersionsAreSpentOnce, VerdictsWereObserved
<1> QED
  BY <1>2, <1>3, <1>4, <1>5 DEF SafeInv

\* The facts of Frame about a step that writes neither run nor worker.
LEMMA Unchanged ==
    ASSUME Inv, observed \subseteq observed',
           \A r \in Runs : /\ run'[r].present = run[r].present
                           /\ run'[r].state = "closed" => run[r].state = "closed"
    PROVE  /\ Shown'
           /\ \A r \in Runs : run'[r].state = "closed" => ClosedBy(r)
<1>1. Shown'
  BY DEF Inv, SafeInv, Shown
<1>2. \A r \in Runs : run[r].state = "closed" => ClosedBy(r)
  BY DEF Inv, SafeInv, ClosedWasExecuted, ClosedBy
<1> QED
  BY <1>1, <1>2

LEMMA HeldClosed ==
    ASSUME Inv, NEW w \in Workers, worker[w].at # "idle", worker[w].state = "closed"
    PROVE  ClosedBy(worker[w].run)
BY DEF Inv, SafeInv, Closed, Busy

LEMMA RunsSafe ==
    ASSUME Inv,
           \/ Decide
           \/ \E u \in Users : RequestRemediation(u) \/ RequestValidation(u)
           \/ \E r \in Runs : \/ VerifyFix(r) \/ ReadForVerify(r)
                             \/ ReadForStatus(r) \/ ReadForCancel(r)
           \/ Advance \/ WriteCancelled \/ Abandon \/ WriteStatus
    PROVE  SafeInv'
<1> USE DEF Inv
<1>1. TypeOK /\ finding \in Findings /\ finding.version \in Nat
  BY DEF TypeInv, TypeOK, Findings
<1>2. \A w \in Workers : worker[w].at # "idle" /\ worker[w].state = "closed"
                            => ClosedBy(worker[w].run)
  BY HeldClosed
<1>3. Begun(finding).version = finding.version
  BY <1>1, BegunTyped
<1>4. {"unset", "requested", "passed", "verified"} \subseteq States /\ "cancelled" \in RunStatuses
  BY DEF States, Targets, RunStatuses
<1>5. CASE Decide
  <2>1. \A s \in Runs : run'[s].state = run[s].state /\ run'[s].present = run[s].present
    BY <1>1, <1>5, DecideTyped
  <2>2. /\ request' = request /\ executing' = executing /\ finding' = finding
        /\ observed' = observed /\ worker' = worker
    BY <1>5 DEF Decide
  <2>3. Shown' /\ \A r \in Runs : run'[r].state = "closed" => ClosedBy(r)
    BY <2>1, <2>2, Unchanged
  <2> QED
    BY <1>1, <1>2, <2>2, <2>3, Frame
<1>6. ASSUME NEW u \in Users, RequestRemediation(u) \/ RequestValidation(u) PROVE SafeInv'
  <2>1. PICK state \in {"requested", "unset"} : NewRun(u, state)
    BY <1>6 DEF RequestRemediation, RequestValidation
  <2>2. /\ request' = request /\ executing' = executing /\ finding'.version = finding.version
        /\ observed' = observed /\ worker' = worker
    BY <1>3, <1>6 DEF RequestRemediation, RequestValidation
  <2>3. /\ run'[runs'].state = state /\ run'[runs'].present = "unknown"
        /\ \A r \in Runs : r # runs' => run'[r] = run[r]
    BY <1>4, <2>1, NewRunTyped
  <2>4. Shown'
    BY <2>2, <2>3 DEF Shown, SafeInv
  <2>5. \A r \in Runs : run'[r].state = "closed" => ClosedBy(r)
    BY <2>1, <2>3 DEF SafeInv, ClosedWasExecuted, ClosedBy
  <2> QED
    BY <1>1, <1>2, <2>2, <2>4, <2>5, Frame
<1>7. ASSUME NEW r \in Runs, VerifyFix(r) PROVE SafeInv'
  <2>1. /\ \A s \in Runs : run'[s].present = run[s].present
        /\ \A s \in Runs : s # r => run'[s] = run[s]
        /\ run'[r].state = "verified"
    BY <1>1, <1>4, <1>7, StateTyped DEF VerifyFix
  <2>2. /\ request' = request /\ executing' = executing
        /\ observed' = observed /\ worker' = worker
    BY <1>7 DEF VerifyFix
  <2>3. finding'.version = finding.version + 1 \/ finding'.version = finding.version
    <3>1. PICK status : finding' = Raised(status) \/ finding' = finding
      BY <1>7 DEF VerifyFix
    <3> QED
      BY <1>1, <3>1 DEF Raised
  <2>4. Shown' /\ \A s \in Runs : run'[s].state = "closed" => ClosedBy(s)
    BY <2>1, <2>2, Unchanged
  <2> QED
    BY <1>1, <1>2, <2>2, <2>3, <2>4, Frame
<1>8. CASE Advance
  <2>1. /\ run' = [run EXCEPT ![client.run].state = client.at]
        /\ client.at \in States /\ client.at # "closed" /\ finding'.version = finding.version
    BY <1>8, MovesTyped DEF Advance, Targets
  <2>2. /\ \A s \in Runs : run'[s].present = run[s].present
        /\ \A s \in Runs : s # client.run => run'[s] = run[s]
        /\ client.run \in Runs => run'[client.run].state = client.at
    BY <1>1, <2>1, StateTyped
  <2>3. /\ request' = request /\ executing' = executing
        /\ observed' = observed /\ worker' = worker
    BY <1>8 DEF Advance
  <2>4. Shown' /\ \A s \in Runs : run'[s].state = "closed" => ClosedBy(s)
    BY <2>1, <2>2, <2>3, Unchanged
  <2> QED
    BY <1>1, <1>2, <2>1, <2>3, <2>4, Frame
<1>9. CASE WriteCancelled
  <2>1. \A s \in Runs : run'[s].state = run[s].state /\ run'[s].present = run[s].present
    BY <1>1, <1>4, <1>9, PutRunTyped DEF WriteCancelled
  <2>2. /\ request' = request /\ executing' = executing /\ finding' = finding
        /\ observed' = observed /\ worker' = worker
    BY <1>9 DEF WriteCancelled
  <2>3. Shown' /\ \A r \in Runs : run'[r].state = "closed" => ClosedBy(r)
    BY <2>1, <2>2, Unchanged
  <2> QED
    BY <1>1, <1>2, <2>2, <2>3, Frame
<1>10. CASE \/ Abandon \/ WriteStatus
            \/ \E r \in Runs : ReadForVerify(r) \/ ReadForStatus(r) \/ ReadForCancel(r)
  <2>1. /\ request' = request /\ executing' = executing /\ run' = run
        /\ observed' = observed /\ worker' = worker
    BY <1>10 DEF Abandon, WriteStatus, ReadForVerify, ReadForStatus, ReadForCancel
  <2>2. finding'.version = finding.version
    BY <1>1, <1>10
    DEF Abandon, WriteStatus, ReadForVerify, ReadForStatus, ReadForCancel, Findings
  <2>3. Shown' /\ \A r \in Runs : run'[r].state = "closed" => ClosedBy(r)
    BY <2>1, Unchanged
  <2> QED
    BY <1>1, <1>2, <2>1, <2>2, <2>3, Frame
<1> QED
  BY <1>5, <1>6, <1>7, <1>8, <1>9, <1>10

LEMMA WorkSafe ==
    ASSUME Inv, NEW w \in Workers, Work(w)
    PROVE  SafeInv'
<1> USE DEF Inv
<1>1. TypeOK /\ finding.version \in Nat /\ run \in [Runs -> RunRecords]
  BY DEF TypeInv, TypeOK, RunRecords
<1>2. \A v \in Workers : worker[v].at # "idle" /\ worker[v].state = "closed"
                            => ClosedBy(worker[v].run)
  BY HeldClosed
<1>3. {"running", "failed", "completed"} \subseteq RunStatuses
  BY DEF RunStatuses
<1>4. /\ request' = request /\ executing' = executing /\ finding' = finding
      /\ observed \subseteq observed'
  BY DEF Work, Answer, Load, MarkRunning, Refuse, RaiseUnhandled, Probe, Recheck, Record, Fail,
         Crash
<1>5. ASSUME NEW r \in Runs, Answer(w, r) PROVE SafeInv'
  <2>1. run' = run /\ worker' = worker
    BY <1>5 DEF Answer
  <2>2. Shown' /\ \A s \in Runs : run'[s].state = "closed" => ClosedBy(s)
    BY <1>4, <2>1, Unchanged
  <2> QED
    BY <1>1, <1>2, <1>4, <2>1, <2>2, Frame
<1>6. ASSUME NEW r \in Runs, Load(w, r) PROVE SafeInv'
  <2>1. /\ run' = run /\ worker'[w].run = r /\ worker'[w].state = run[r].state
        /\ \A v \in Workers : v # w => worker'[v] = worker[v]
    BY <1>6 DEF Load, TypeInv, TypeOK
  <2>2. Shown' /\ \A s \in Runs : run'[s].state = "closed" => ClosedBy(s)
    BY <1>4, <2>1, Unchanged
  <2>3. \A v \in Workers : worker'[v].at # "idle" /\ worker'[v].state = "closed"
                              => ClosedBy(worker'[v].run)
    BY <1>2, <2>1, <2>2
  <2> QED
    BY <1>1, <1>4, <2>2, <2>3, Frame
<1>7. CASE MarkRunning(w) \/ Probe(w) \/ Recheck(w)
  <2>1. PICK at \in {"bind", "check", "commit"} : worker' = [worker EXCEPT ![w].at = at]
    BY <1>7 DEF MarkRunning, Probe, Recheck
  <2>2. /\ worker[w].at # "idle"
        /\ worker'[w].run = worker[w].run /\ worker'[w].state = worker[w].state
        /\ \A v \in Workers : v # w => worker'[v] = worker[v]
    BY <1>1, <1>7, <2>1, StepTyped DEF MarkRunning, Probe, Recheck
  <2>3. \A s \in Runs : run'[s].state = run[s].state /\ run'[s].present = run[s].present
    BY <1>1, <1>3, <1>7, PutRunTyped DEF MarkRunning, Probe, Recheck
  <2>4. Shown' /\ \A s \in Runs : run'[s].state = "closed" => ClosedBy(s)
    BY <1>4, <2>3, Unchanged
  <2>5. \A v \in Workers : worker'[v].at # "idle" /\ worker'[v].state = "closed"
                              => ClosedBy(worker'[v].run)
    BY <1>2, <2>2
  <2> QED
    BY <1>1, <1>4, <2>4, <2>5, Frame
<1>8. CASE Refuse(w) \/ Fail(w) \/ RaiseUnhandled(w)
  <2>1. worker'[w].at = "idle" /\ \A v \in Workers : v # w => worker'[v] = worker[v]
    BY <1>1, <1>8, IdleTyped DEF Refuse, Fail, RaiseUnhandled
  <2>2. \A s \in Runs : run'[s].state = run[s].state /\ run'[s].present = run[s].present
    BY <1>1, <1>3, <1>8, PutRunTyped DEF Refuse, Fail, RaiseUnhandled
  <2>3. Shown' /\ \A s \in Runs : run'[s].state = "closed" => ClosedBy(s)
    BY <1>4, <2>2, Unchanged
  <2>4. \A v \in Workers : worker'[v].at # "idle" /\ worker'[v].state = "closed"
                              => ClosedBy(worker'[v].run)
    BY <1>2, <2>1
  <2> QED
    BY <1>1, <1>4, <2>3, <2>4, Frame
<1>9. CASE Record(w)
  <2> DEFINE r == worker[w].run
  <2>1. r \in Runs /\ worker[w].at # "idle"
    BY <1>9 DEF Record, TypeInv, Busy
  <2>2. PICK present \in {"present", "absent"}, ok \in BOOLEAN :
          /\ run' = [run EXCEPT ![r] =
                       [@ EXCEPT !.status = IF ok THEN "completed" ELSE "failed",
                                 !.state = worker[w].state, !.present = present]]
          /\ observed' = observed \cup {<<r, present>>}
    BY <1>9 DEF Record
  <2>3. /\ run'[r].present = present /\ run'[r].state = worker[w].state
        /\ \A s \in Runs : s # r => run'[s] = run[s]
    BY <1>1, <2>1, <2>2 DEF RunRecords
  <2>4. worker'[w].at = "idle" /\ \A v \in Workers : v # w => worker'[v] = worker[v]
    BY <1>1, <1>9, IdleTyped DEF Record
  <2>5. Shown'
    BY <2>2, <2>3 DEF Shown, SafeInv
  <2>6. \A s \in Runs : run'[s].state = "closed" => ClosedBy(s)
    BY <1>2, <2>1, <2>3 DEF SafeInv, ClosedWasExecuted, ClosedBy
  <2>7. \A v \in Workers : worker'[v].at # "idle" /\ worker'[v].state = "closed"
                              => ClosedBy(worker'[v].run)
    BY <1>2, <2>4
  <2> QED
    BY <1>1, <1>4, <2>5, <2>6, <2>7, Frame
<1>10. CASE Crash(w)
  <2>1. run' = run /\ worker' \in {worker, [worker EXCEPT ![w] = IdleWorker]}
    BY <1>10 DEF Crash
  <2>2. \A v \in Workers : worker'[v] = worker[v] \/ worker'[v].at = "idle"
    BY <1>1, <2>1, IdleTyped
  <2>3. Shown' /\ \A s \in Runs : run'[s].state = "closed" => ClosedBy(s)
    BY <1>4, <2>1, Unchanged
  <2>4. \A v \in Workers : worker'[v].at # "idle" /\ worker'[v].state = "closed"
                              => ClosedBy(worker'[v].run)
    BY <1>2, <2>2
  <2> QED
    BY <1>1, <1>4, <2>3, <2>4, Frame
<1> QED
  BY <1>5, <1>6, <1>7, <1>8, <1>9, <1>10 DEF Work

LEMMA ProposeSafe ==
    ASSUME Inv, NEW q \in Requests, Propose(q)
    PROVE  SafeInv'
<1> USE DEF Inv
<1>1. /\ request'[q].status = "proposed"
      /\ \A p \in Requests : p # q => request'[p] = request[p]
  BY ProposeTyped
<1>2. /\ request[q].status = "none" /\ executing' = executing /\ finding' = finding
      /\ observed' = observed /\ worker' = worker /\ run' = run
  BY DEF Propose
<1>3. \A p \in Requests : /\ Executed(p)' <=> Executed(p)
                          /\ Executed(p) => request'[p] = request[p]
  BY <1>1, <1>2 DEF Executed
<1>4. Open'
  BY <1>1, <1>2 DEF SafeInv, Open
<1>5. Past' /\ Shown'
  BY <1>2, <1>3 DEF SafeInv, Past, Shown
<1>6. \A s : ClosedBy(s) => ClosedBy(s)'
  BY <1>3 DEF ClosedBy
<1>7. Closed' /\ ClosedWasExecuted'
  BY <1>2, <1>6 DEF SafeInv, Closed, ClosedWasExecuted, ClosedBy, Busy
<1>8. VersionsAreSpentOnce' /\ VerdictsWereObserved'
  BY <1>2, <1>3 DEF SafeInv, VersionsAreSpentOnce, VerdictsWereObserved
<1> QED
  BY <1>4, <1>5, <1>7, <1>8 DEF SafeInv

\* What a commit must bring with it: a version of its own, raised, and an outcome.
LEMMA CommitSafe ==
    ASSUME Inv, NEW q \in Requests, NEW u \in Users, NEW r \in Nat,
           NEW status \in {"executed", "replayed"}, Commit(q, u, status, r),
           finding'.version \in Nat, finding'.version >= finding.version,
           observed' = observed, worker' = worker,
           \A s \in Runs :
               /\ run'[s].present = run[s].present
               /\ run'[s].state = "closed" =>
                     \/ run[s].state = "closed"
                     \/ s = r /\ status = "executed" /\ request[q].kind = "close",
           status = "executed" =>
               /\ request[q].expected = finding.version
               /\ finding'.version = finding.version + 1
               /\ request[q].kind \in Verdicts \cup {"close"} =>
                     <<r, Shows(request[q].kind)>> \in observed
    PROVE  SafeInv'
<1> USE DEF Inv
<1>1. /\ executing' = {} /\ request'[q].status = status /\ request'[q].run = r
      /\ request'[q].kind = request[q].kind /\ request'[q].expected = request[q].expected
      /\ \A p \in Requests : p # q => request'[p] = request[p]
  BY CommitTyped DEF TypeInv
<1>2. ~Executed(q)
  BY DEF Commit, SafeInv, Open, Executed
<1>3. \A p \in Requests : Executed(p) => p # q /\ Executed(p)' /\ request'[p] = request[p]
  BY <1>1, <1>2 DEF Executed
<1>4. \A p \in Requests : p # q => (Executed(p)' => Executed(p) /\ request'[p] = request[p])
  BY <1>1 DEF Executed
<1>5. Executed(q)' => status = "executed"
  BY <1>1 DEF Executed
<1>6. finding.version \in Nat /\ \A p \in Requests : request[p].expected \in Nat
  BY DEF TypeInv, TypeOK
<1>7. \A p \in Requests : Executed(p) => request[p].expected < finding.version
  BY DEF SafeInv, Past
<1>8. Open' /\ Shown'
  BY <1>1 DEF Open, SafeInv, Shown
<1>9. Past'
  BY <1>1, <1>4, <1>5, <1>6, <1>7 DEF Past
<1>10. \A s : ClosedBy(s) => ClosedBy(s)'
  BY <1>3 DEF ClosedBy
<1>11. Closed'
  BY <1>10 DEF SafeInv, Closed, Busy
<1>12. ClosedWasExecuted'
  <2> SUFFICES ASSUME NEW s \in Runs, run'[s].state = "closed" PROVE ClosedBy(s)'
    BY DEF ClosedWasExecuted, ClosedBy
  <2>1. CASE run[s].state = "closed"
    BY <1>10, <2>1 DEF SafeInv, ClosedWasExecuted, ClosedBy
  <2>2. CASE s = r /\ status = "executed" /\ request[q].kind = "close"
    BY <1>1, <2>2 DEF ClosedBy, Executed
  <2> QED
    BY <2>1, <2>2
<1>13. VersionsAreSpentOnce'
  <2> SUFFICES ASSUME NEW p \in Requests, NEW o \in Requests, p # o, Executed(p)', Executed(o)'
               PROVE  request'[p].expected # request'[o].expected
    BY DEF VersionsAreSpentOnce
  <2>1. CASE p # q /\ o # q
    BY <1>4, <2>1 DEF SafeInv, VersionsAreSpentOnce
  <2>2. CASE p = q \/ o = q
    BY <1>1, <1>4, <1>5, <1>6, <1>7, <2>2
  <2> QED
    BY <2>1, <2>2
<1>14. VerdictsWereObserved'
  BY <1>1, <1>4, <1>5 DEF SafeInv, VerdictsWereObserved
<1> QED
  BY <1>8, <1>9, <1>11, <1>12, <1>13, <1>14 DEF SafeInv

LEMMA ExecuteSafe ==
    ASSUME Inv, NEW q \in Requests, NEW u \in Users, Execute(q, u)
    PROVE  SafeInv'
<1> USE DEF Inv
<1>1. /\ TypeOK /\ finding.version \in Nat /\ runs \in Nat /\ runs <= MaxRuns
      /\ request[q].run \in Nat /\ MaxRuns \in Nat
  BY BoundsAssumption DEF TypeInv, TypeOK
<1>2. runs > 0 => runs \in Runs
  BY <1>1 DEF Runs
<1>3. \A status : Raise(q, status) =>
        finding'.version = finding.version + 1 /\ request[q].expected = finding.version
  BY DEF Raise, Raised, VersionSeen
<1>4. CASE Admit(q, u)
  <2>1. /\ request' = request /\ finding' = finding /\ observed' = observed
        /\ worker' = worker /\ run' = run /\ executing' = {<<q, u>>}
        /\ request[q].status = "proposed"
    BY <1>4 DEF Admit
  <2>2. Open'
    BY <2>1 DEF Open
  <2> QED
    BY <2>1, <2>2
    DEF SafeInv, Past, Shown, Closed, VersionsAreSpentOnce, VerdictsWereObserved,
        ClosedWasExecuted, Executed, ClosedBy, Busy
<1>5. CASE Judge(q, u)
  <2>1. /\ Commit(q, u, "executed", runs) /\ Supported(q) /\ Raise(q, request[q].kind)
        /\ request[q].kind \in Verdicts
        /\ observed' = observed /\ worker' = worker /\ run' = run
    BY <1>5 DEF Judge
  <2>2. <<runs, Shows(request[q].kind)>> \in observed
    BY <1>2, <2>1 DEF Supported, Shows, SafeInv, Shown
  <2> QED
    BY <1>1, <1>3, <2>1, <2>2, CommitSafe
<1>6. CASE JudgeAgain(q, u) \/ DisposeAgain(q, u)
  <2>1. PICK r \in Nat :
        /\ Commit(q, u, "replayed", r) /\ finding' = finding
        /\ observed' = observed /\ worker' = worker /\ run' = run
    BY <1>1, <1>6 DEF JudgeAgain, DisposeAgain
  <2>2. finding'.version \in Nat /\ finding'.version >= finding.version
    BY <1>1, <2>1
  <2>3. \A s \in Runs : run'[s].present = run[s].present /\ run'[s].state = run[s].state
    BY <2>1
  <2>4. "replayed" # "executed"
    OBVIOUS
  <2> QED
    BY <2>1, <2>2, <2>3, <2>4, CommitSafe
<1>7. CASE Dispose(q, u)
  <2>1. request[q].kind \notin Verdicts \cup {"close"}
    BY <1>7, KindAssumption DEF Dispose
  <2>2. PICK r \in Nat :
        /\ Commit(q, u, "executed", r) /\ Raise(q, request[q].kind)
        /\ observed' = observed /\ worker' = worker /\ run' = run
    BY <1>1, <1>7 DEF Dispose
  <2>3. /\ finding'.version \in Nat /\ finding'.version >= finding.version
        /\ finding'.version = finding.version + 1 /\ request[q].expected = finding.version
    BY <1>1, <1>3, <2>2
  <2>4. \A s \in Runs : run'[s].present = run[s].present /\ run'[s].state = run[s].state
    BY <2>2
  <2> QED
    BY <2>1, <2>2, <2>3, <2>4, CommitSafe
<1>8. CASE CloseFinding(q, u)
  <2>1. /\ Commit(q, u, "executed", runs) /\ Verified /\ Raise(q, "fixed")
        /\ request[q].kind = "close" /\ run' = [run EXCEPT ![runs].state = "closed"]
        /\ observed' = observed /\ worker' = worker
    BY <1>8 DEF CloseFinding
  <2>2. <<runs, Shows(request[q].kind)>> \in observed
    BY <1>2, <2>1 DEF Verified, Proved, Shows, SafeInv, Shown
  <2>3. \A s \in Runs : run'[s].present = run[s].present /\ (s # runs => run'[s] = run[s])
    BY <1>1, <2>1, StateTyped DEF States
  <2> QED
    BY <1>1, <1>3, <2>1, <2>2, <2>3, CommitSafe
<1> QED
  BY <1>4, <1>5, <1>6, <1>7, <1>8 DEF Execute

\* The invariant holds in every reachable state, for any number of users, decisions and
\* workers and any bounds (governed_action_executor.py:1159-1470, finding_validation.py:76-233).
THEOREM Invariant == Spec => []Inv
<1>1. Init => Inv
  BY InitTyped, InitSafe DEF Inv
<1>2. Inv /\ [Next]_vars => Inv'
  <2> SUFFICES ASSUME Inv, [Next]_vars PROVE SafeInv'
    BY TypeStep DEF Inv
  <2>1. CASE RollBack
    <3>1. finding.version \in Nat
      BY DEF Inv, TypeInv, TypeOK
    <3>2. /\ request' = request /\ finding' = finding /\ observed' = observed
          /\ worker' = worker /\ run' = run /\ executing' = {}
      BY <2>1 DEF RollBack
    <3> QED
      BY <3>1, <3>2, Unchanged, HeldClosed, Frame
  <2>2. CASE UNCHANGED vars
    BY <2>2
    DEF vars, Inv, SafeInv, Open, Past, Shown, Closed, VersionsAreSpentOnce,
        VerdictsWereObserved, ClosedWasExecuted, Executed, ClosedBy, Busy
  <2> QED
    BY <2>1, <2>2, RunsSafe, WorkSafe, ProposeSafe, ExecuteSafe DEF Next
<1> QED
  BY <1>1, <1>2, PTL DEF Spec

\* No version of a finding carries two governed actions: the comparison under the lock
\* suffices although most writers raise no version (governed_action_executor.py:1258-1269).
THEOREM FindingVersionsSpentOnce == Spec => []VersionsAreSpentOnce
BY Invariant, PTL DEF Inv, SafeInv

\* A verdict and a closure rest on an outcome recorded for the run they name
\* (finding_confirmation.py:228-246, finding_closure.py:52-78).
THEOREM VerdictsObserved == Spec => []VerdictsWereObserved
BY Invariant, PTL DEF Inv, SafeInv

\* No step but a late worker's outcome takes VERIFIED or CLOSED from a run.
LEMMA ProofStep ==
    ASSUME Inv, [Next]_vars, NEW r \in 1..runs, run[r].state \in {"verified", "closed"}
    PROVE  \/ run'[r].state \in {run[r].state, "closed"}
           \/ \E w \in Workers : worker[w].run = r /\ Record(w)
<1> DEFINE Remains(status) == run'[r].state \in {status, "closed"}
<1>1. TypeInv /\ TypeOK /\ r \in Runs /\ r # runs + 1 /\ run \in [Runs -> RunRecords]
  BY BoundsAssumption DEF Inv, TypeInv, TypeOK, Runs, RunRecords
<1>2. {"verified", "closed", "unset", "requested"} \subseteq States
      /\ {"running", "failed", "cancelled"} \subseteq RunStatuses
  BY DEF States, Targets, RunStatuses
<1>3. StateOf(r) = run[r].state /\ Successors(run[r].state) = {}
  <2>1. StateOf(r) = run[r].state
    BY DEF StateOf
  <2>2. \A state \in {"verified", "closed"} : Successors(state) = {}
    BY DEF Successors
  <2> QED
    BY <2>1, <2>2
<1>4. CASE Decide
  BY <1>1, <1>4, DecideTyped
<1>5. ASSUME NEW u \in Users, RequestRemediation(u) \/ RequestValidation(u)
      PROVE  run'[r].state = run[r].state
  <2>1. PICK state \in {"requested", "unset"} : NewRun(u, state)
    BY <1>5 DEF RequestRemediation, RequestValidation
  <2> QED
    BY <1>1, <1>2, <2>1, NewRunTyped
<1>6. ASSUME NEW s \in Runs, VerifyFix(s) PROVE Remains(run[r].state)
  <2>1. /\ \A t \in Runs : t # s => run'[t] = run[t]
        /\ run'[s].state = "verified"
    BY <1>1, <1>2, <1>6, StateTyped DEF VerifyFix
  <2>2. s = r => run[r].state = "verified"
    BY <1>3, <1>6 DEF VerifyFix
  <2> QED
    BY <1>1, <2>1, <2>2
<1>7. CASE Advance
  <2>1. run' = [run EXCEPT ![client.run].state = client.at] /\ client.at \in States
    BY <1>1, <1>7, MovesTyped DEF Advance
  <2>2. client.run = r => client.at = run[r].state
    BY <1>3, <1>7 DEF Advance, Moves
  <2> QED
    BY <1>1, <2>1, <2>2, StateTyped
<1>8. CASE WriteCancelled
  BY <1>1, <1>2, <1>8, PutRunTyped DEF WriteCancelled
<1>9. ASSUME NEW w \in Workers, Work(w), ~Record(w) PROVE run'[r].state = run[r].state
  <2>1. CASE MarkRunning(w) \/ Refuse(w) \/ Fail(w)
    BY <1>1, <1>2, <2>1, PutRunTyped DEF MarkRunning, Refuse, Fail
  <2>2. CASE ~(MarkRunning(w) \/ Refuse(w) \/ Fail(w))
    BY <1>9, <2>2 DEF Work, Answer, Load, RaiseUnhandled, Probe, Recheck, Crash
  <2> QED
    BY <2>1, <2>2
<1>10. ASSUME NEW w \in Workers, Record(w), worker[w].run # r PROVE run'[r].state = run[r].state
  BY <1>1, <1>10 DEF Record
<1>11. ASSUME NEW q \in Requests, NEW u \in Users, CloseFinding(q, u) PROVE Remains(run[r].state)
  <2>1. run' = [run EXCEPT ![runs].state = "closed"]
    BY <1>11 DEF CloseFinding
  <2> QED
    BY <1>1, <1>2, <2>1, StateTyped
<1>12. CASE \/ \E s \in Runs : ReadForVerify(s) \/ ReadForStatus(s) \/ ReadForCancel(s)
            \/ Abandon \/ WriteStatus \/ RollBack \/ UNCHANGED vars
            \/ \E q \in Requests : Propose(q)
            \/ \E q \in Requests, u \in Users : Execute(q, u) /\ ~CloseFinding(q, u)
  BY <1>12 DEF ReadForVerify, ReadForStatus, ReadForCancel, Abandon, WriteStatus, RollBack, vars,
    Propose, Execute, Admit, Judge, JudgeAgain, Dispose, DisposeAgain
<1> QED
  BY <1>4, <1>5, <1>6, <1>7, <1>8, <1>9, <1>10, <1>11, <1>12 DEF Next

\* A run says CLOSED only after a governed closure of it (finding_closure.py:141-154),
\* and nothing that was read before the lock takes VERIFIED or CLOSED from it
\* (remediation_lifecycle.py:89-95): only a late worker's outcome does, with the
\* result it loaded (finding_validation.py:192-197).
THEOREM ClosuresAreGoverned == Spec => ClosureIsGoverned
<1>1. Inv /\ [Next]_vars =>
        [\A r \in 1..runs : run[r].state \in {"verified", "closed"} =>
            \/ run'[r].state \in {run[r].state, "closed"}
            \/ \E w \in Workers : worker[w].run = r /\ Record(w)]_vars
  BY ProofStep
<1>2. Inv => ClosedWasExecuted
  BY DEF Inv, SafeInv
<1> QED
  BY <1>1, <1>2, Invariant, PTL DEF Spec, ClosureIsGoverned, ProofIsKept

-----------------------------------------------------------------------------
(* Answers that repeat, and the second person.                              *)

\* A verdict is executed for a run that exists, and nobody executes what he proposed.
Admitted ==
    \A q \in Requests, u \in Users :
        <<q, u>> \in executing =>
            /\ u \notin request[q].by
            /\ request[q].kind \in Verdicts => request[q].run \in Runs

\* The confirmation of a run was written by an executed verdict.
Judged ==
    \A r \in Runs :
        verdict[r] # "none" =>
            \E p \in Requests :
                Executed(p) /\ request[p].kind = verdict[r] /\ request[p].run = r

RepeatInv == Admitted /\ Judged /\ ReplaysRepeat

\* An executed decision said what q says.
Repeats(q) ==
    \E p \in Requests :
        /\ Executed(p) /\ request[p].kind = request[q].kind
        /\ request[q].kind \in Verdicts => request[p].run = request[q].run
        /\ request[q].kind \in Dispositions => request[p].by = request[q].by

LEMMA RepeatsDefined ==
    /\ ReplaysRepeat <=> \A q \in Requests : request[q].status = "replayed" => Repeats(q)
    /\ ReplaysRepeat' <=> \A q \in Requests : request'[q].status = "replayed" => Repeats(q)'
BY DEF ReplaysRepeat, Repeats

\* A decision that was taken stays as it is, and the version never falls.
DecisionsAreFinal ==
    [][/\ \A q \in Requests :
            request[q].status \in {"executed", "replayed"} => request'[q] = request[q]
       /\ finding'.version >= finding.version]_vars

\* What a decision that is taken in this step needs: another person than the one who
\* proposed it, and for a closure another one than the user of the run.
Seconded(q) ==
    request[q].status # request'[q].status /\ request[q].status = "proposed" =>
        \E u \in Users :
            /\ request'[q].by = {u} /\ u \notin request[q].by
            /\ request[q].kind = "close" => u # run[request'[q].run].user

FourEyes == [][\A q \in Requests : Seconded(q)]_vars

\* The steps that neither propose nor execute, up to the end of an execution.
LEMMA OtherSteps ==
    ASSUME [Next]_vars,
           ~\E q \in Requests : Propose(q) \/ \E u \in Users : Execute(q, u)
    PROVE  request' = request /\ verdict' = verdict /\ executing' \subseteq executing
<1>1. CASE RollBack \/ UNCHANGED vars
  BY <1>1 DEF RollBack, vars
<1>2. CASE \/ Decide
           \/ \E u \in Users : RequestRemediation(u) \/ RequestValidation(u)
           \/ \E r \in Runs : \/ VerifyFix(r) \/ ReadForVerify(r)
                             \/ ReadForStatus(r) \/ ReadForCancel(r)
           \/ Advance \/ WriteCancelled \/ Abandon \/ WriteStatus
  BY <1>2 DEF Decide, RequestRemediation, RequestValidation, VerifyFix, ReadForVerify,
    ReadForStatus, ReadForCancel, Advance, Moves, WriteCancelled, Abandon, WriteStatus
<1>3. ASSUME NEW w \in Workers, Work(w)
      PROVE  request' = request /\ verdict' = verdict /\ executing' \subseteq executing
  BY <1>3 DEF Work, Answer, Load, MarkRunning, Refuse, RaiseUnhandled, Probe, Recheck, Record,
    Fail, Crash
<1> QED
  BY <1>1, <1>2, <1>3 DEF Next

\* An execution that ends leaves a decision that was proposed, and no other, taken by
\* one person.
LEMMA ExecuteEnds ==
    ASSUME Inv, RepeatInv, NEW q \in Requests, NEW u \in Users, Execute(q, u), ~Admit(q, u)
    PROVE  /\ <<q, u>> \in executing /\ executing' = {}
           /\ request[q].status = "proposed"
           /\ request'[q].status \in {"executed", "replayed"}
           /\ request'[q].by = {u} /\ u \notin request[q].by
           /\ request'[q].kind = request[q].kind
           /\ \A p \in Requests : p # q => request'[p] = request[p]
<1>1. PICK status \in {"executed", "replayed"}, r \in Nat : Commit(q, u, status, r)
  BY DEF Execute, Judge, JudgeAgain, Dispose, DisposeAgain, CloseFinding, Inv, TypeInv, TypeOK
<1>2. <<q, u>> \in executing
  BY <1>1 DEF Commit
<1>3. request[q].status = "proposed" /\ u \notin request[q].by
  BY <1>2 DEF Inv, SafeInv, Open, RepeatInv, Admitted
<1>4. /\ request'[q].status = status /\ request'[q].kind = request[q].kind
      /\ executing' = {} /\ \A p \in Requests : p # q => request'[p] = request[p]
  BY <1>1, CommitTyped DEF Inv, TypeInv
<1>5. request'[q].by = {u}
  BY <1>1 DEF Commit, Inv, TypeInv, TypeOK
<1> QED
  BY <1>2, <1>3, <1>4, <1>5

\* What was executed is still there after a step that changes only q, which was not.
LEMMA Kept ==
    ASSUME NEW q \in Requests, request[q].status \in {"none", "proposed"},
           \A p \in Requests : p # q => request'[p] = request[p],
           verdict' = verdict, Judged
    PROVE  /\ \A p \in Requests : Executed(p) => Executed(p)' /\ request'[p] = request[p]
           /\ Judged'
<1>1. \A p \in Requests : Executed(p) => p # q /\ Executed(p)' /\ request'[p] = request[p]
  BY DEF Executed
<1> QED
  BY <1>1 DEF Judged

\* RepeatInv is kept by an execution.
LEMMA ExecuteRepeats ==
    ASSUME Inv, RepeatInv, NEW q \in Requests, NEW u \in Users, Execute(q, u)
    PROVE  RepeatInv'
<1>1. CASE Admit(q, u)
  <2>1. UNCHANGED <<request, verdict>> /\ executing' = {<<q, u>>} /\ u \notin request[q].by
    BY <1>1 DEF Admit
  <2>2. request[q].kind \in Verdicts => request[q].run \in Runs
    <3>1. runs \in 0..MaxRuns
      BY DEF Inv, TypeInv
    <3> QED
      BY <1>1, <3>1, BoundsAssumption DEF Admit, Supported, Runs
  <2> QED
    BY <2>1, <2>2 DEF RepeatInv, Admitted, Judged, ReplaysRepeat, Executed
<1>2. CASE ~Admit(q, u)
  <2>1. /\ <<q, u>> \in executing /\ executing' = {} /\ request[q].status = "proposed"
        /\ request'[q].by = {u} /\ request'[q].kind = request[q].kind
        /\ \A p \in Requests : p # q => request'[p] = request[p]
    BY <1>2, ExecuteEnds
  <2>2. \A p \in Requests : Executed(p) => p # q /\ Executed(p)' /\ request'[p] = request[p]
    BY <2>1 DEF Executed
  <2>3. Admitted'
    BY <2>1 DEF Admitted
  <2>4. \A p \in Requests : p # q /\ request'[p].status = "replayed" => Repeats(p)'
    <3> SUFFICES ASSUME NEW p \in Requests, p # q, request'[p].status = "replayed"
                 PROVE  Repeats(p)'
      OBVIOUS
    <3>1. request'[p] = request[p] /\ Repeats(p)
      BY <2>1, RepeatsDefined DEF RepeatInv
    <3>2. PICK o \in Requests :
            /\ Executed(o) /\ request[o].kind = request[p].kind
            /\ request[p].kind \in Verdicts => request[o].run = request[p].run
            /\ request[p].kind \in Dispositions => request[o].by = request[p].by
      BY <3>1 DEF Repeats
    <3>3. Executed(o)' /\ request'[o] = request[o]
      BY <2>2, <3>2
    <3> QED
      BY <3>1, <3>2, <3>3 DEF Repeats
  <2>5. CASE Judge(q, u)
    <3>1. /\ Commit(q, u, "executed", runs) /\ runs \in Nat
          /\ verdict' = [verdict EXCEPT ![runs] = request[q].kind]
      BY <2>5 DEF Judge, Inv, TypeInv, TypeOK
    <3>2. request'[q].status = "executed" /\ request'[q].run = runs
      BY <3>1, CommitTyped DEF Inv, TypeInv
    <3>3. \A r \in Runs : verdict'[r] = IF r = runs THEN request[q].kind ELSE verdict[r]
      BY <3>1 DEF Inv, TypeInv, TypeOK
    <3>4. Judged'
      BY <2>1, <2>2, <3>2, <3>3 DEF RepeatInv, Judged, Executed
    <3>5. ReplaysRepeat'
      BY <2>4, <3>2, RepeatsDefined
    <3> QED
      BY <2>3, <3>4, <3>5 DEF RepeatInv
  <2>6. CASE JudgeAgain(q, u)
    <3> DEFINE r == request[q].run
    <3>1. /\ Commit(q, u, "replayed", r) /\ r \in Nat
          /\ verdict' = verdict /\ request[q].kind \in Verdicts /\ verdict[r] = request[q].kind
      BY <2>6 DEF JudgeAgain, Inv, TypeInv, TypeOK
    <3>2. request'[q].run = r
      BY <3>1, CommitTyped DEF Inv, TypeInv
    <3>3. r \in Runs /\ "none" \notin Verdicts
      BY <2>1, <3>1, KindAssumption DEF RepeatInv, Admitted
    <3>4. PICK o \in Requests :
            Executed(o) /\ request[o].kind = verdict[r] /\ request[o].run = r
      BY <3>1, <3>3 DEF RepeatInv, Judged
    <3>5. Executed(o)' /\ request'[o] = request[o]
      BY <2>2, <3>4
    <3>6. request[q].kind \notin Dispositions
      BY <3>1, KindAssumption
    <3>7. ReplaysRepeat'
      <4>1. /\ request'[o].kind = request'[q].kind /\ request'[o].run = request'[q].run
            /\ request'[q].kind \notin Dispositions
        BY <2>1, <3>1, <3>2, <3>4, <3>5, <3>6
      <4>2. Repeats(q)'
        BY <3>4, <3>5, <4>1 DEF Repeats
      <4> QED
        BY <2>4, <4>2, RepeatsDefined
    <3>8. Judged'
      BY <2>1, <3>1, Kept DEF RepeatInv
    <3> QED
      BY <2>3, <3>7, <3>8 DEF RepeatInv
  <2>7. CASE Dispose(q, u) \/ CloseFinding(q, u)
    <3>1. PICK r \in Nat : Commit(q, u, "executed", r) /\ verdict' = verdict
      BY <2>7 DEF Dispose, CloseFinding, Inv, TypeInv, TypeOK
    <3>2. request'[q].status = "executed"
      BY <3>1, CommitTyped DEF Inv, TypeInv
    <3>3. ReplaysRepeat'
      BY <2>4, <3>2, RepeatsDefined
    <3>4. Judged'
      BY <2>1, <3>1, Kept DEF RepeatInv
    <3> QED
      BY <2>3, <3>3, <3>4 DEF RepeatInv
  <2>8. CASE DisposeAgain(q, u)
    <3>1. /\ request[q].kind \in Dispositions /\ verdict' = verdict
          /\ \E p \in Requests : /\ request[p].status = "executed"
                                 /\ request[p].kind = request[q].kind /\ request[p].by = {u}
      BY <2>8 DEF DisposeAgain
    <3>2. PICK o \in Requests :
            Executed(o) /\ request[o].kind = request[q].kind /\ request[o].by = {u}
      BY <3>1 DEF Executed
    <3>3. Executed(o)' /\ request'[o] = request[o]
      BY <2>2, <3>2
    <3>4. request[q].kind \notin Verdicts
      BY <3>1, KindAssumption
    <3>5. ReplaysRepeat'
      <4>1. /\ request'[o].kind = request'[q].kind /\ request'[o].by = request'[q].by
            /\ request'[q].kind \notin Verdicts
        BY <2>1, <3>2, <3>3, <3>4
      <4>2. Repeats(q)'
        BY <3>2, <3>3, <4>1 DEF Repeats
      <4> QED
        BY <2>4, <4>2, RepeatsDefined
    <3>6. Judged'
      BY <2>1, <3>1, Kept DEF RepeatInv
    <3> QED
      BY <2>3, <3>5, <3>6 DEF RepeatInv
  <2> QED
    BY <1>2, <2>5, <2>6, <2>7, <2>8 DEF Execute
<1> QED
  BY <1>1, <1>2

LEMMA RepeatStep == Inv /\ RepeatInv /\ [Next]_vars => RepeatInv'
<1> SUFFICES ASSUME Inv, RepeatInv, [Next]_vars PROVE RepeatInv'
  OBVIOUS
<1>1. ASSUME NEW q \in Requests, Propose(q) PROVE RepeatInv'
  <2>1. /\ request[q].status = "none" /\ verdict' = verdict /\ executing' = executing
        /\ request'[q].status = "proposed"
        /\ \A p \in Requests : p # q => request'[p] = request[p]
    BY <1>1, ProposeTyped DEF Propose, Inv
  <2>2. /\ \A p \in Requests : Executed(p) => Executed(p)' /\ request'[p] = request[p]
        /\ Judged'
    BY <2>1, Kept DEF RepeatInv
  <2>3. \A u \in Users : <<q, u>> \notin executing
    BY <2>1 DEF Inv, SafeInv, Open
  <2>4. Admitted'
    BY <2>1, <2>3 DEF RepeatInv, Admitted
  <2>5. ReplaysRepeat'
    BY <2>1, <2>2 DEF RepeatInv, ReplaysRepeat
  <2> QED
    BY <2>2, <2>4, <2>5 DEF RepeatInv
<1>2. ASSUME NEW q \in Requests, NEW u \in Users, Execute(q, u) PROVE RepeatInv'
  BY <1>2, ExecuteRepeats
<1>3. CASE ~\E q \in Requests : Propose(q) \/ \E u \in Users : Execute(q, u)
  <2>1. request' = request /\ verdict' = verdict /\ executing' \subseteq executing
    BY <1>3, OtherSteps
  <2> QED
    BY <2>1 DEF RepeatInv, Admitted, Judged, ReplaysRepeat, Executed
<1> QED
  BY <1>1, <1>2, <1>3

\* Nobody executes what he proposed, a confirmation goes back to an executed verdict,
\* and replays repeat (governed_action_executor.py:1159-1470).
THEOREM RepeatInvariant == Spec => []RepeatInv
<1>1. Init => RepeatInv
  BY DEF Init, RepeatInv, Admitted, Judged, ReplaysRepeat, NoRequest
<1> QED
  BY <1>1, RepeatStep, Invariant, PTL DEF Spec

\* A decision that is answered by what is there repeats one that was executed, for any
\* number of decisions, runs and persons (finding_confirmation.py:188-199,
\* finding_disposition.py:203-209).
THEOREM ReplaysRepeatDecisions == Spec => []ReplaysRepeat
BY RepeatInvariant, PTL DEF RepeatInv

\* No other step touches a decision that was taken, nor lowers the version.
LEMMA VersionRises ==
    ASSUME Inv, [Next]_vars
    PROVE  finding'.version >= finding.version
<1>1. finding \in Findings /\ finding.version \in Nat
  BY DEF Inv, TypeInv, TypeOK, Findings
<1>2. Begun(finding).version = finding.version
  BY BegunTyped DEF Inv, TypeInv
<1>3. \A status : Raised(status).version = finding.version + 1
  BY DEF Raised
<1>4. CASE \/ \E u \in Users : RequestRemediation(u)
           \/ \E r \in Runs : VerifyFix(r)
           \/ Advance
  <2>1. finding' \in {finding, Begun(finding)} \/ \E status : finding' = Raised(status)
    BY <1>4 DEF RequestRemediation, VerifyFix, Advance, Moves, PutState
  <2> QED
    BY <1>1, <1>2, <1>3, <2>1
<1>5. CASE WriteStatus
  <2>1. finding'.version = finding.version
    BY <1>1, <1>5 DEF WriteStatus, Findings
  <2> QED
    BY <1>1, <2>1
<1>6. ASSUME NEW q \in Requests, NEW u \in Users, Execute(q, u)
      PROVE  finding'.version >= finding.version
  <2>1. finding' = finding \/ \E status : finding' = Raised(status)
    BY <1>6 DEF Execute, Admit, Judge, JudgeAgain, Dispose, DisposeAgain, CloseFinding, Raise
  <2> QED
    BY <1>1, <1>3, <2>1
<1>7. CASE \/ Decide
           \/ \E u \in Users : RequestValidation(u)
           \/ \E r \in Runs : ReadForVerify(r) \/ ReadForStatus(r) \/ ReadForCancel(r)
           \/ WriteCancelled \/ Abandon \/ RollBack \/ UNCHANGED vars
           \/ \E q \in Requests : Propose(q)
           \/ \E w \in Workers : Work(w)
  <2>1. finding' = finding
    BY <1>7 DEF Decide, RequestValidation, ReadForVerify, ReadForStatus, ReadForCancel,
      WriteCancelled, Abandon, RollBack, vars, Propose, Work, Answer, Load, MarkRunning, Refuse, RaiseUnhandled, Probe,
      Recheck, Record, Fail, Crash
  <2> QED
    BY <1>1, <2>1
<1> QED
  BY <1>4, <1>5, <1>6, <1>7 DEF Next

\* What becomes of one decision in one step.
LEMMA DecisionSteps ==
    ASSUME Inv, RepeatInv, [Next]_vars, NEW q \in Requests
    PROVE  /\ request[q].status \in {"executed", "replayed"} => request'[q] = request[q]
           /\ Seconded(q)
<1>1. ASSUME NEW p \in Requests, Propose(p)
      PROVE  request[q].status # "none" => request'[q] = request[q]
  BY <1>1, ProposeTyped DEF Propose, Inv
<1>2. ASSUME NEW p \in Requests, NEW u \in Users, Execute(p, u), p # q
      PROVE  request'[q] = request[q]
  <2>1. CASE Admit(p, u)
    BY <2>1 DEF Admit
  <2>2. CASE ~Admit(p, u)
    BY <1>2, <2>2, ExecuteEnds
  <2> QED
    BY <2>1, <2>2
<1>3. ASSUME NEW u \in Users, Execute(q, u), ~Admit(q, u)
      PROVE  request[q].status = "proposed" /\ Seconded(q)
  <2>1. /\ request[q].status = "proposed"
        /\ request'[q].by = {u} /\ u \notin request[q].by
    BY <1>3, ExecuteEnds
  <2>2. ASSUME request[q].kind = "close" PROVE u # run[request'[q].run].user
    <3>1. CloseFinding(q, u)
      BY <1>3, <2>2, KindAssumption DEF Execute, Judge, JudgeAgain, Dispose, DisposeAgain
    <3>2. Commit(q, u, "executed", runs) /\ u # run[runs].user /\ runs \in Nat
      BY <3>1 DEF CloseFinding, Inv, TypeInv, TypeOK
    <3>3. request'[q].run = runs
      BY <3>2, CommitTyped DEF Inv, TypeInv
    <3> QED
      BY <3>2, <3>3
  <2> QED
    BY <2>1, <2>2 DEF Seconded
<1>4. ASSUME NEW u \in Users, Admit(q, u) PROVE request' = request
  BY <1>4 DEF Admit
<1>5. CASE \E p \in Requests : Propose(p) \/ \E u \in Users : Execute(p, u)
  BY <1>1, <1>2, <1>3, <1>4, <1>5 DEF Seconded
<1>6. CASE ~\E p \in Requests : Propose(p) \/ \E u \in Users : Execute(p, u)
  <2>1. request' = request
    BY <1>6, OtherSteps
  <2> QED
    BY <2>1 DEF Seconded
<1> QED
  BY <1>5, <1>6

\* A decision that was taken is never taken back or overwritten, and the version of the
\* finding, against which all others are compared, never falls, whatever writers without
\* a version do (governed_action_executor.py:1258-1283).
THEOREM DecisionsStayFinal == Spec => DecisionsAreFinal
<1>1. Inv /\ RepeatInv /\ [Next]_vars =>
        [/\ \A q \in Requests :
              request[q].status \in {"executed", "replayed"} => request'[q] = request[q]
         /\ finding'.version >= finding.version]_vars
  BY VersionRises, DecisionSteps
<1> QED
  BY <1>1, Invariant, RepeatInvariant, PTL DEF Spec, DecisionsAreFinal

\* Whoever executes a disposition or a false positive is not who proposed it, although
\* the two are compared before the lock of the finding is taken, and nobody closes a
\* finding on a validation of his own (finding_closure.py:126-129).
THEOREM FourEyesDecide == Spec => FourEyes
<1>1. Inv /\ RepeatInv /\ [Next]_vars => [\A q \in Requests : Seconded(q)]_vars
  BY DecisionSteps
<1> QED
  BY <1>1, Invariant, RepeatInvariant, PTL DEF Spec, FourEyes

=============================================================================
