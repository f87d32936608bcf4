-------------------------- MODULE ScanLifecycleProofs --------------------------
(***************************************************************************)
(* Proofs about ScanLifecycle, for any number of workers, API requests,     *)
(* tasks and retries, and any set of control calls.                         *)
(***************************************************************************)
EXTENDS ScanLifecycle, TLAPS

\* A busy worker holds a task, and what it loaded from the row matters only until
\* it has decided whether to start.
HoldersTyped ==
    \A w \in Workers :
        /\ Busy(w) => worker[w].task \in TaskIds
        /\ worker[w].seen => worker[w].pc = "start"

TypeInv == TypeOK /\ HoldersTyped

USE DEF rows

-----------------------------------------------------------------------------
(* Type correctness.                                                        *)

\* The row just created, with one request about to publish, is well typed.
LEMMA InitTypeInv == Init => TypeInv
<1> SUFFICES ASSUME Init PROVE TypeInv
  OBVIOUS
<1>1. scan \in [status : Statuses, task : 0..MaxTasks]
  BY CountsAssumption DEF Init, Statuses
<1>2. evidence \in [TaskIds -> 0..MaxEvidence]
  BY CountsAssumption DEF Init
<1>3. worker \in [Workers -> WorkerStates]
  BY CountsAssumption DEF Init, WorkerStates, Stages, IdleWorker
<1>4. caller \in [Callers -> CallerStates]
  BY CountsAssumption DEF Init, CallerStates, IdleCaller
<1>5. HoldersTyped
  BY DEF Init, HoldersTyped, Busy, IdleWorker
<1>6. execution \in Executions /\ tasks \in 0..MaxTasks
  BY CountsAssumption DEF Init, Executions
<1> QED BY <1>1, <1>2, <1>3, <1>4, <1>5, <1>6 DEF Init, TypeInv, TypeOK

\* Changing the status of a well-typed row, or its task, keeps it well typed.
LEMMA ScanTyped ==
  ASSUME TypeInv
  PROVE  /\ \A s \in Statuses : SetStatus(s) =>
              /\ scan' \in [status : Statuses, task : 0..MaxTasks]
              /\ scan'.status = s
         /\ \A i \in 0..MaxTasks : scan' = [scan EXCEPT !.task = i] =>
              /\ scan' \in [status : Statuses, task : 0..MaxTasks]
              /\ scan'.status = scan.status
  BY DEF TypeInv, TypeOK, SetStatus

\* A worker that goes on to any later stage, or is done with its message, is well
\* typed; the others are as they were.
LEMMA WorkerTyped ==
  ASSUME TypeInv, NEW w \in Workers, NEW stage \in Stages,
         \/ Busy(w) /\ ~worker[w].seen /\ Goto(w, stage)
         \/ Release(w)
  PROVE  /\ worker' \in [Workers -> WorkerStates]
         /\ HoldersTyped'
<1>1. worker \in [Workers -> WorkerStates]
  BY DEF TypeInv, TypeOK
<1>2. IdleWorker \in WorkerStates
  BY CountsAssumption DEF IdleWorker, WorkerStates, Stages
<1>3. CASE Busy(w) /\ ~worker[w].seen /\ Goto(w, stage)
  BY <1>1, <1>3 DEF TypeInv, HoldersTyped, Busy, Goto, WorkerStates
<1>4. CASE Release(w)
  BY <1>1, <1>2, <1>4 DEF TypeInv, HoldersTyped, Busy, Release, IdleWorker
<1> QED BY <1>3, <1>4

\* A worker that replaces what it holds by a well-typed value keeps TypeInv's
\* part about workers.
LEMMA ReplaceTyped ==
  ASSUME TypeInv, NEW w \in Workers, NEW v \in WorkerStates,
         v.task \in TaskIds, v.seen => v.pc = "start",
         worker' = [worker EXCEPT ![w] = v]
  PROVE  /\ worker' \in [Workers -> WorkerStates]
         /\ HoldersTyped'
  BY DEF TypeInv, TypeOK, HoldersTyped, Busy

\* A request that moves on, or ends, keeps the requests well typed.
LEMMA CallerTyped ==
  ASSUME TypeInv, NEW c \in Callers,
         NEW stage \in {"idle", "read", "save", "publish", "attach"},
         Call(c, stage) \/ Hangup(c)
  PROVE  caller' \in [Callers -> CallerStates]
  BY CountsAssumption DEF TypeInv, TypeOK, Call, Hangup, CallerStates, IdleCaller

\* A worker's message is one the broker may hold.
LEMMA MessageTyped ==
  ASSUME TypeInv, NEW w \in Workers, Busy(w)
  PROVE  /\ MessageOf(w) \in Messages
         /\ worker[w].retries < MaxRetries =>
              [task |-> worker[w].task, retries |-> worker[w].retries + 1] \in Messages
<1>1. worker[w].task \in TaskIds /\ worker[w].retries \in 0..MaxRetries
  BY DEF TypeInv, TypeOK, HoldersTyped, WorkerStates
<1>2. worker[w].retries < MaxRetries => worker[w].retries + 1 \in 0..MaxRetries
  BY <1>1, CountsAssumption
<1> QED BY <1>1, <1>2 DEF MessageOf, Messages

\* TypeInv is kept by the control calls.
LEMMA ControlTyped == TypeInv /\ Control => TypeInv'
<1> SUFFICES ASSUME TypeInv, Control PROVE TypeInv'
  OBVIOUS
<1>1. ASSUME NEW s \in Statuses, Transition(s) PROVE TypeInv'
  <2>1. scan' \in [status : Statuses, task : 0..MaxTasks]
    BY <1>1, ScanTyped DEF Transition
  <2>2. revoked' \subseteq TaskIds
    <3>1. scan.task \in 0..MaxTasks /\ revoked \subseteq TaskIds
      BY DEF TypeInv, TypeOK
    <3>2. scan.task # 0 => scan.task \in TaskIds
      BY <3>1, CountsAssumption DEF TaskIds
    <3> QED BY <1>1, <3>1, <3>2 DEF Transition
  <2> QED BY <1>1, <2>1, <2>2 DEF Transition, TypeInv, TypeOK, HoldersTyped, Busy
<1>2. CASE Pause \/ Resume \/ Cancel
  BY <1>1, <1>2 DEF Pause, Resume, Cancel, Statuses
<1>3. ASSUME NEW c \in Callers,
             \/ Restart(c) \/ StartCall(c) \/ Check(c)
             \/ SaveQueued(c) \/ CallerDies(c)
      PROVE  TypeInv'
  <2>1. caller' \in [Callers -> CallerStates]
    BY <1>3, CallerTyped DEF Restart, StartCall, Check, SaveQueued, CallerDies
  <2>2. scan' \in [status : Statuses, task : 0..MaxTasks]
    BY <1>3, ScanTyped DEF Restart, StartCall, Check, SaveQueued, CallerDies,
      Statuses, TypeInv, TypeOK
  <2> QED BY <1>3, <2>1, <2>2 DEF Restart, StartCall, Check, SaveQueued,
            CallerDies, TypeInv, TypeOK, HoldersTyped, Busy
<1>4. ASSUME NEW c \in Callers, PublishTask(c) PROVE TypeInv'
  <2>1. tasks + 1 \in TaskIds /\ tasks + 1 \in 0..MaxTasks
    BY <1>4, CountsAssumption DEF PublishTask, TypeInv, TypeOK, TaskIds
  <2>2. queue' \subseteq Messages
    BY <1>4, <2>1, CountsAssumption DEF PublishTask, TypeInv, TypeOK, Messages
  <2>3. caller' \in [Callers -> CallerStates]
    BY <1>4, <2>1 DEF PublishTask, TypeInv, TypeOK, CallerStates
  <2> QED BY <1>4, <2>1, <2>2, <2>3
          DEF PublishTask, TypeInv, TypeOK, HoldersTyped, Busy
<1>5. ASSUME NEW c \in Callers, AttachTask(c) PROVE TypeInv'
  <2>1. caller[c].task \in 0..MaxTasks
    BY DEF TypeInv, TypeOK, CallerStates
  <2>2. scan' \in [status : Statuses, task : 0..MaxTasks]
    BY <1>5, <2>1, ScanTyped DEF AttachTask
  <2>3. caller' \in [Callers -> CallerStates]
    BY <1>5, CallerTyped DEF AttachTask
  <2> QED BY <1>5, <2>2, <2>3 DEF AttachTask, TypeInv, TypeOK, HoldersTyped, Busy
<1> QED BY <1>2, <1>3, <1>4, <1>5 DEF Control

\* TypeInv is kept by the delivery of a message.
LEMMA ReceiveTyped ==
  ASSUME TypeInv, NEW w \in Workers, NEW m \in queue, Receive(w, m)
  PROVE  TypeInv'
<1>1. m \in Messages /\ queue' \subseteq Messages
  BY DEF Receive, Discard, Replay, Accept, Take, TypeInv, TypeOK
<1>2. CASE Discard(w, m) \/ Replay(w, m)
  BY <1>1, <1>2 DEF Discard, Replay, TypeInv, TypeOK, HoldersTyped, Busy
<1>3. CASE Accept(w, m)
  <2>1. [pc |-> "bind", task |-> m.task, retries |-> m.retries, seen |-> FALSE,
         slow |-> FALSE] \in WorkerStates
    BY <1>1, CountsAssumption DEF WorkerStates, Stages, Messages, TaskIds
  <2>2. m.task \in TaskIds
    BY <1>1 DEF Messages
  <2>3. worker' \in [Workers -> WorkerStates] /\ HoldersTyped'
    BY <1>3, <2>1, <2>2, ReplaceTyped DEF Accept
  <2> QED BY <1>1, <1>3, <2>3 DEF Accept, TypeInv, TypeOK
<1> QED BY <1>2, <1>3 DEF Receive

\* What Loaded, Unseen and Slow change of what a worker holds.
LEMMA HeldTyped ==
  ASSUME TypeInv, NEW w \in Workers
  PROVE  /\ Loaded(w) \in WorkerStates /\ Loaded(w).task = worker[w].task
         /\ Loaded(w).seen = (scan.status = "completed")
         /\ Unseen(w) \in WorkerStates /\ Unseen(w).task = worker[w].task
         /\ ~Unseen(w).seen
         /\ Slow(w) \in WorkerStates /\ Slow(w).task = worker[w].task
         /\ Slow(w).seen = worker[w].seen
<1> worker[w] \in WorkerStates /\ (scan.status = "completed") \in BOOLEAN
  BY DEF TypeInv, TypeOK
<1> QED BY DEF Loaded, Unseen, Slow, WorkerStates

\* TypeInv is kept by the steps up to the launch of the scanner.
LEMMA PrepareTyped ==
  ASSUME TypeInv, NEW w \in Workers, Prepare(w)
  PROVE  TypeInv'
<1>1. Busy(w) /\ worker[w].task \in TaskIds
  BY DEF Prepare, Bind, BindRefused, ReplayCompleted, Start, Launch, RaiseUnhandled,
    Busy, TypeInv, HoldersTyped
<1>2. CASE Bind(w)
  <2> DEFINE v == Loaded(w)
  <2>1. v \in WorkerStates /\ v.task = worker[w].task
    BY HeldTyped
  <2>2. worker' = [worker EXCEPT ![w] = [v EXCEPT !.pc = "start"]]
    BY <1>2 DEF Bind
  <2> HIDE DEF v
  <2> DEFINE u == [v EXCEPT !.pc = "start"]
  <2>3. u \in WorkerStates /\ u.task \in TaskIds /\ u.pc = "start"
    BY <1>1, <2>1 DEF WorkerStates, Stages
  <2> HIDE DEF u
  <2>4. worker' \in [Workers -> WorkerStates] /\ HoldersTyped'
    <3>1. worker' = [worker EXCEPT ![w] = u]
      BY <2>2 DEF u
    <3> QED BY <2>3, <3>1, ReplaceTyped
  <2> QED BY <1>2, <2>4 DEF Bind, TypeInv, TypeOK
<1>3. CASE BindRefused(w)
  <2>1. ~worker[w].seen
    BY <1>3 DEF BindRefused, TypeInv, HoldersTyped
  <2>2. worker' \in [Workers -> WorkerStates] /\ HoldersTyped'
    BY <1>1, <1>3, <2>1, WorkerTyped DEF BindRefused, BlockScan, Stages
  <2>3. scan' \in [status : Statuses, task : 0..MaxTasks]
    BY <1>3, ScanTyped DEF BindRefused, BlockScan, Statuses
  <2> QED BY <1>3, <2>2, <2>3 DEF BindRefused, BlockScan, TypeInv, TypeOK
<1>4. CASE ReplayCompleted(w) \/ RaiseUnhandled(w)
  <2>1. worker' \in [Workers -> WorkerStates] /\ HoldersTyped'
    BY <1>4, WorkerTyped DEF ReplayCompleted, RaiseUnhandled, Stages
  <2> QED BY <1>4, <2>1 DEF ReplayCompleted, RaiseUnhandled, TypeInv, TypeOK
<1>5. CASE Start(w)
  <2> DEFINE v == Unseen(w)
  <2>1. v \in WorkerStates /\ v.task = worker[w].task /\ ~v.seen
    BY HeldTyped
  <2>2. worker' = [worker EXCEPT ![w] = [v EXCEPT !.pc = "launch"]]
    BY <1>5 DEF Start
  <2> HIDE DEF v
  <2> DEFINE u == [v EXCEPT !.pc = "launch"]
  <2>5. u \in WorkerStates /\ u.task \in TaskIds /\ ~u.seen
    BY <1>1, <2>1 DEF WorkerStates, Stages
  <2> HIDE DEF u
  <2>3. worker' \in [Workers -> WorkerStates] /\ HoldersTyped'
    <3>1. worker' = [worker EXCEPT ![w] = u]
      BY <2>2 DEF u
    <3> QED BY <2>5, <3>1, ReplaceTyped
  <2>4. scan' \in [status : Statuses, task : 0..MaxTasks]
    BY <1>5, ScanTyped DEF Start, Statuses
  <2> QED BY <1>5, <2>3, <2>4 DEF Start, TypeInv, TypeOK
<1>6. CASE Launch(w)
  <2>1. ~worker[w].seen
    BY <1>6 DEF Launch, TypeInv, HoldersTyped
  <2>2. worker' \in [Workers -> WorkerStates] /\ HoldersTyped'
    BY <1>1, <1>6, <2>1, WorkerTyped DEF Launch, Stages
  <2> QED BY <1>6, <2>2 DEF Launch, TypeInv, TypeOK, Executions
<1> QED BY <1>2, <1>3, <1>4, <1>5, <1>6 DEF Prepare

\* TypeInv is kept while the scanner runs.
LEMMA RunTyped ==
  ASSUME TypeInv, NEW w \in Workers, Run(w)
  PROVE  TypeInv'
<1>1. Busy(w) /\ worker[w].task \in TaskIds /\ ~worker[w].seen
  BY DEF Run, Stop, Continue, SeeCancelled, ScannerEnds, Raise, Busy, TypeInv,
    HoldersTyped
<1>2. worker' \in [Workers -> WorkerStates] /\ HoldersTyped'
  <2>1. CASE Stop(w)
    <3> DEFINE v == Slow(w)
    <3>1. v \in WorkerStates /\ v.task = worker[w].task /\ v.seen = worker[w].seen
      BY HeldTyped
    <3>2. worker' = [worker EXCEPT ![w] = [v EXCEPT !.pc = "stopped"]]
      BY <2>1 DEF Stop
    <3> HIDE DEF v
    <3> DEFINE u == [v EXCEPT !.pc = "stopped"]
    <3>3. u \in WorkerStates /\ u.task \in TaskIds /\ ~u.seen
      BY <1>1, <3>1 DEF WorkerStates, Stages
    <3> HIDE DEF u
    <3>4. worker' = [worker EXCEPT ![w] = u]
      BY <3>2 DEF u
    <3> QED BY <3>3, <3>4, ReplaceTyped
  <2>2. CASE Continue(w) \/ SeeCancelled(w) \/ ScannerEnds(w) \/ Raise(w)
    BY <1>1, <2>2, WorkerTyped DEF Continue, SeeCancelled, ScannerEnds, Raise, Stages
  <2> QED BY <2>1, <2>2 DEF Run
<1> QED BY <1>2 DEF Run, Stop, Continue, SeeCancelled, ScannerEnds, Raise, TypeInv, TypeOK

\* TypeInv is kept by the ends of the task.
LEMMA ConcludeTyped ==
  ASSUME TypeInv, NEW w \in Workers, Conclude(w)
  PROVE  TypeInv'
<1>1. Busy(w) /\ worker[w].task \in TaskIds /\ ~worker[w].seen
  BY DEF Conclude, Revalidate, CheckRefused, Commit, Retry, GiveUp, FailScan,
    CancelExecution, CancelScan, Acknowledge, Busy, TypeInv, HoldersTyped
<1>2. worker' \in [Workers -> WorkerStates] /\ HoldersTyped'
  BY <1>1, WorkerTyped DEF Conclude, Revalidate, CheckRefused, BlockScan, Commit,
    Retry, GiveUp, FailScan, CancelExecution, CancelScan, Acknowledge, Stages
<1>3. CASE Revalidate(w) \/ GiveUp(w) \/ CancelExecution(w) \/ Acknowledge(w)
  BY <1>2, <1>3 DEF Revalidate, GiveUp, CancelExecution, Acknowledge, TypeInv,
    TypeOK, Executions
<1>4. CASE CheckRefused(w) \/ FailScan(w) \/ CancelScan(w)
  <2>1. scan' \in [status : Statuses, task : 0..MaxTasks]
    BY <1>4, ScanTyped DEF CheckRefused, BlockScan, FailScan, CancelScan, Statuses
  <2> QED BY <1>2, <1>4, <2>1
          DEF CheckRefused, BlockScan, FailScan, CancelScan, TypeInv, TypeOK
<1>5. ASSUME NEW ok \in BOOLEAN, Commit(w, ok) PROVE TypeInv'
  <2>1. evidence' \in [TaskIds -> 0..MaxEvidence]
    BY <1>1, <1>5, CountsAssumption DEF Commit, TypeInv, TypeOK
  <2>2. scan' \in [status : Statuses, task : 0..MaxTasks]
    BY <1>5, ScanTyped DEF Commit, Statuses
  <2>3. execution' \in Executions
    BY <1>5 DEF Commit, Executions
  <2> QED BY <1>2, <1>5, <2>1, <2>2, <2>3 DEF Commit, TypeInv, TypeOK
<1>6. CASE Retry(w)
  <2>1. queue' \subseteq Messages
    BY <1>1, <1>6, MessageTyped DEF Retry, TypeInv, TypeOK
  <2> QED BY <1>2, <1>6, <2>1 DEF Retry, TypeInv, TypeOK
<1> QED BY <1>3, <1>4, <1>5, <1>6 DEF Conclude

\* TypeInv is kept when a worker is lost, and when a message is delivered again.
LEMMA LossTyped ==
  ASSUME TypeInv, NEW w \in Workers, Crash(w) \/ Redeliver(w)
  PROVE  TypeInv'
<1>1. queue' \subseteq Messages
  <2>1. Busy(w) /\ queue \subseteq Messages
    BY DEF Crash, Redeliver, Busy, TypeInv, TypeOK
  <2>2. MessageOf(w) \in Messages
    BY <2>1, MessageTyped
  <2> QED BY <2>1, <2>2 DEF Crash, Redeliver
<1>2. worker' \in [Workers -> WorkerStates] /\ HoldersTyped'
  BY WorkerTyped DEF Crash, Redeliver, TypeInv, TypeOK, Stages, HoldersTyped, Busy
<1> QED BY <1>1, <1>2 DEF Crash, Redeliver, TypeInv, TypeOK

\* TypeInv is kept by every step.
LEMMA TypeInvStep == TypeInv /\ [Next]_vars => TypeInv'
<1> SUFFICES ASSUME TypeInv, [Next]_vars PROVE TypeInv'
  OBVIOUS
<1>1. CASE Control
  BY <1>1, ControlTyped
<1>2. ASSUME NEW w \in Workers, Task(w) PROVE TypeInv'
  BY <1>2, ReceiveTyped, PrepareTyped, RunTyped, ConcludeTyped, LossTyped DEF Task
<1>3. CASE ForgetRevocations \/ LoseAuthorization
  BY <1>3 DEF ForgetRevocations, LoseAuthorization, TypeInv, TypeOK, HoldersTyped, Busy
<1>4. CASE UNCHANGED vars
  BY <1>4 DEF vars, TypeInv, TypeOK, HoldersTyped, Busy
<1> QED BY <1>1, <1>2, <1>3, <1>4 DEF Next

\* TypeInv is invariant.
THEOREM TypeInvariant == Spec => []TypeInv
<1>1. Init => TypeInv
  BY InitTypeInv
<1>2. TypeInv /\ [Next]_vars => TypeInv'
  BY TypeInvStep
<1> QED BY <1>1, <1>2, PTL DEF Spec

\* Every reachable state is well typed; in particular no message ever carries more
\* retries than max_retries.
THEOREM TypeCorrect == Spec => []TypeOK
<1>1. TypeInv => TypeOK
  BY DEF TypeInv
<1> QED BY <1>1, TypeInvariant, PTL

-----------------------------------------------------------------------------
(* No active scan is lost.                                                  *)

\* A worker that goes on to a stage before its return is engaged; the others are
\* engaged if they were.
LEMMA StaysEngaged ==
  ASSUME TypeInv, NEW w \in Workers,
         NEW stage \in Stages \ {"idle", "done"},
         Goto(w, stage), ~worker[w].seen
  PROVE  \A v \in Workers : Engaged(v) \/ v = w => Engaged(v)'
<1>1. worker \in [Workers -> WorkerStates]
  BY DEF TypeInv, TypeOK
<1> QED BY <1>1 DEF Goto, Engaged, Busy, WorkerStates

\* The control calls keep the scan held: they make it active only as a call about
\* to publish, and only a call that dies there drops it.
LEMMA ControlHeld == TypeInv /\ HeldIfActive /\ Control => HeldIfActive' \/ Dropped
<1> SUFFICES ASSUME TypeInv, HeldIfActive, Control PROVE HeldIfActive' \/ Dropped
  OBVIOUS
<1>1. ASSUME NEW s \in {"paused", "running", "cancelled"}, Transition(s)
      PROVE  HeldIfActive'
  <2>1. scan'.status = s
    BY <1>1, ScanTyped DEF Transition, Statuses
  <2>2. s \in Active => scan.status \in Active
    BY <1>1 DEF Transition, Allowed, Active
  <2> QED BY <1>1, <2>1, <2>2 DEF Transition, HeldIfActive, Engaged, Busy
<1>2. CASE Pause \/ Resume \/ Cancel
  BY <1>1, <1>2 DEF Pause, Resume, Cancel
<1>3. ASSUME NEW c \in Callers, Restart(c) PROVE HeldIfActive'
  BY <1>3, ScanTyped DEF Restart, HeldIfActive, Active, Statuses
<1>4. ASSUME NEW c \in Callers, StartCall(c) \/ Check(c) PROVE HeldIfActive'
  <2>1. \A d \in Callers : caller[d].pc = "publish" => caller'[d].pc = "publish"
    BY <1>4 DEF StartCall, Check, Call, Hangup, TypeInv, TypeOK
  <2> QED BY <1>4, <2>1 DEF StartCall, Check, HeldIfActive, Engaged, Busy
<1>5. ASSUME NEW c \in Callers, SaveQueued(c) PROVE HeldIfActive'
  <2>1. caller'[c].pc = "publish"
    BY <1>5 DEF SaveQueued, Call, TypeInv, TypeOK, CallerStates
  <2> QED BY <2>1 DEF HeldIfActive
<1>6. ASSUME NEW c \in Callers, PublishTask(c) PROVE HeldIfActive'
  BY <1>6 DEF PublishTask, HeldIfActive
<1>7. ASSUME NEW c \in Callers, AttachTask(c) PROVE HeldIfActive'
  <2>1. scan'.status = scan.status
    BY <1>7, ScanTyped DEF AttachTask, TypeInv, TypeOK, CallerStates
  <2>2. \A d \in Callers : caller[d].pc = "publish" => caller'[d].pc = "publish"
    BY <1>7 DEF AttachTask, Hangup, TypeInv, TypeOK
  <2> QED BY <1>7, <2>1, <2>2 DEF AttachTask, HeldIfActive, Engaged, Busy
<1>8. ASSUME NEW c \in Callers, CallerDies(c) PROVE HeldIfActive' \/ Dropped
  <2>1. CASE caller[c].pc = "publish"
    BY <1>8, <2>1 DEF Dropped
  <2>2. CASE caller[c].pc # "publish"
    <3>1. \A d \in Callers : caller[d].pc = "publish" => caller'[d].pc = "publish"
      BY <1>8, <2>2 DEF CallerDies, Hangup, TypeInv, TypeOK
    <3> QED BY <1>8, <3>1 DEF CallerDies, HeldIfActive, Engaged, Busy
  <2> QED BY <2>1, <2>2
<1> QED BY <1>2, <1>3, <1>4, <1>5, <1>6, <1>7, <1>8 DEF Control

\* A worker that takes the last message holds the scan, or the scan was finished,
\* or the message was revoked.
LEMMA ReceiveHeld ==
  ASSUME TypeInv, HeldIfActive, NEW w \in Workers, NEW m \in queue, Receive(w, m)
  PROVE  HeldIfActive' \/ Dropped
<1>1. CASE Discard(w, m)
  BY <1>1 DEF Dropped
<1>2. CASE Replay(w, m)
  BY <1>2 DEF Replay, TerminalDelivery, Finished, Active, HeldIfActive
<1>3. CASE Accept(w, m)
  <2>1. Engaged(w)'
    BY <1>3 DEF Accept, Engaged, Busy, TypeInv, TypeOK
  <2> QED BY <2>1 DEF HeldIfActive
<1> QED BY <1>1, <1>2, <1>3 DEF Receive

\* The steps of the task keep the scan held until they finish it.
LEMMA TaskHeld ==
  ASSUME TypeInv, HeldIfActive, NEW w \in Workers,
         Prepare(w) \/ Run(w) \/ Conclude(w) \/ Crash(w) \/ Redeliver(w)
  PROVE  HeldIfActive' \/ Dropped
<1>1. worker \in [Workers -> WorkerStates] /\ scan.status \in Statuses
  BY DEF TypeInv, TypeOK
<1>2. worker[w].pc # "start" => ~worker[w].seen
  BY DEF TypeInv, HoldersTyped
<1>3. CASE Bind(w)
  <2>1. CASE scan.status = "completed"
    BY <1>3, <2>1 DEF Bind, HeldIfActive, Active
  <2>2. CASE scan.status # "completed"
    <3>1. ~Loaded(w).seen /\ Loaded(w) \in WorkerStates
      BY <2>2, HeldTyped
    <3> DEFINE v == Loaded(w)
    <3>2. ~v.seen /\ v \in WorkerStates
      BY <3>1
    <3>3. worker' = [worker EXCEPT ![w] = [v EXCEPT !.pc = "start"]]
      BY <1>3 DEF Bind
    <3> HIDE DEF v
    <3>4. Engaged(w)'
      BY <1>1, <3>2, <3>3 DEF Engaged, Busy, WorkerStates
    <3> QED BY <3>4 DEF HeldIfActive
  <2> QED BY <2>1, <2>2
<1>4. CASE BindRefused(w) \/ CheckRefused(w) \/ FailScan(w) \/ CancelScan(w)
  BY <1>4, ScanTyped DEF BindRefused, CheckRefused, BlockScan, FailScan, CancelScan,
    HeldIfActive, Active, Statuses
<1>5. CASE ReplayCompleted(w)
  <2>1. ~Engaged(w)
    BY <1>5 DEF ReplayCompleted, CompletedDelivery, Engaged
  <2>2. \A v \in Workers : Engaged(v) => Engaged(v)'
    BY <1>1, <1>5, <2>1 DEF ReplayCompleted, Release, Engaged, Busy
  <2> QED BY <1>5, <2>2 DEF ReplayCompleted, HeldIfActive
<1>6. CASE Start(w)
  <2> DEFINE v == Unseen(w)
  <2>1. ~v.seen /\ v \in WorkerStates
    BY HeldTyped
  <2>2. worker' = [worker EXCEPT ![w] = [v EXCEPT !.pc = "launch"]]
    BY <1>6 DEF Start
  <2> HIDE DEF v
  <2>3. Engaged(w)'
    BY <1>1, <2>1, <2>2 DEF Engaged, Busy, WorkerStates
  <2> QED BY <2>3 DEF HeldIfActive
<1>7. CASE Launch(w)
  BY <1>2, <1>7, StaysEngaged DEF Launch, HeldIfActive, Stages
<1>8. CASE RaiseUnhandled(w)
  BY <1>8 DEF Dropped
<1>9. CASE Stop(w)
  <2> DEFINE v == Slow(w)
  <2>1. ~v.seen /\ v \in WorkerStates
    BY <1>2, <1>9, HeldTyped DEF Stop
  <2>2. worker' = [worker EXCEPT ![w] = [v EXCEPT !.pc = "stopped"]]
    BY <1>9 DEF Stop
  <2> HIDE DEF v
  <2>3. Engaged(w)'
    BY <1>1, <2>1, <2>2 DEF Engaged, Busy, WorkerStates
  <2> QED BY <2>3 DEF HeldIfActive
<1>10. CASE \/ Continue(w) \/ SeeCancelled(w) \/ ScannerEnds(w) \/ Raise(w)
            \/ Revalidate(w) \/ GiveUp(w) \/ CancelExecution(w)
  BY <1>2, <1>10, StaysEngaged DEF Continue, SeeCancelled, ScannerEnds, Raise,
    Revalidate, GiveUp, CancelExecution, HeldIfActive, Stages
<1>11. ASSUME NEW ok \in BOOLEAN, Commit(w, ok) PROVE HeldIfActive'
  BY <1>11, ScanTyped DEF Commit, HeldIfActive, Active, Statuses
<1>12. CASE Retry(w) \/ Crash(w) \/ Redeliver(w)
  BY <1>12 DEF Retry, Crash, Redeliver, HeldIfActive
<1>13. CASE Acknowledge(w)
  <2>1. \A v \in Workers : Engaged(v) => Engaged(v)'
    BY <1>1, <1>13 DEF Acknowledge, Release, Engaged, Busy
  <2> QED BY <1>13, <2>1 DEF Acknowledge, HeldIfActive
<1> QED BY <1>3, <1>4, <1>5, <1>6, <1>7, <1>8, <1>9, <1>10, <1>11, <1>12, <1>13
        DEF Prepare, Run, Conclude

\* A queued, running or paused scan is held by a message, by a worker that will end it
\* or by a call about to publish, until one of the three named steps drops it: whatever
\* the numbers of workers, calls, tasks and retries are.
THEOREM ActiveScansAreHeld == Spec => ActiveIsHeld
<1>1. Init => HeldIfActive
  <2> SUFFICES ASSUME Init PROVE \E c \in Callers : caller[c].pc = "publish"
    BY DEF HeldIfActive
  <2>1. PICK c \in Callers :
          caller = [d \in Callers |-> IF d = c THEN [pc |-> "publish", task |-> 0]
                                               ELSE IdleCaller]
    BY DEF Init
  <2> QED BY <2>1
<1>2. TypeInv /\ [Next]_vars => [HeldIfActive => HeldIfActive' \/ Dropped]_vars
  <2> SUFFICES ASSUME TypeInv, HeldIfActive, [Next]_vars PROVE HeldIfActive' \/ Dropped
    OBVIOUS
  <2>1. CASE Control
    BY <2>1, ControlHeld
  <2>2. ASSUME NEW w \in Workers, Task(w) PROVE HeldIfActive' \/ Dropped
    BY <2>2, ReceiveHeld, TaskHeld DEF Task
  <2>3. CASE ForgetRevocations \/ LoseAuthorization
    BY <2>3 DEF ForgetRevocations, LoseAuthorization, HeldIfActive, Engaged, Busy
  <2>4. CASE UNCHANGED vars
    BY <2>4 DEF vars, rows, HeldIfActive, Engaged, Busy
  <2> QED BY <2>1, <2>2, <2>3, <2>4 DEF Next
<1> QED BY <1>1, <1>2, TypeInvariant, PTL DEF Spec, ActiveIsHeld

-----------------------------------------------------------------------------
(* A lost authorization, and a settled scan.                                *)

\* The delivery of a message, the steps before the verdict and a loss of the
\* worker commit no evidence and put no worker before a commit.
LEMMA NoNewCommit ==
  ASSUME TypeInv, NEW w \in Workers,
         \/ \E m \in queue : Receive(w, m)
         \/ Prepare(w) \/ Run(w) \/ Crash(w) \/ Redeliver(w)
  PROVE  /\ evidence' = evidence
         /\ current' = current
         /\ \A v \in Workers : worker'[v].pc = "commit" => worker[v].pc = "commit"
<1>1. worker \in [Workers -> WorkerStates]
  BY DEF TypeInv, TypeOK
<1>2. CASE \E m \in queue : Receive(w, m)
  BY <1>1, <1>2 DEF Receive, Discard, Replay, Accept
<1>3. CASE Bind(w) \/ Start(w) \/ Stop(w)
  <2>1. /\ Loaded(w) \in WorkerStates /\ Unseen(w) \in WorkerStates
        /\ Slow(w) \in WorkerStates
    BY HeldTyped
  <2>2. \E v \in WorkerStates, s \in {"start", "launch", "stopped"} :
           worker' = [worker EXCEPT ![w] = [v EXCEPT !.pc = s]]
    BY <1>3, <2>1 DEF Bind, Start, Stop
  <2>3. \A v \in Workers : worker'[v].pc = "commit" => worker[v].pc = "commit"
    BY <1>1, <2>2 DEF WorkerStates
  <2> QED BY <1>3, <2>3 DEF Bind, Start, Stop
<1>4. CASE \/ BindRefused(w) \/ ReplayCompleted(w) \/ Launch(w) \/ RaiseUnhandled(w)
           \/ Continue(w) \/ SeeCancelled(w) \/ ScannerEnds(w) \/ Raise(w)
           \/ Crash(w) \/ Redeliver(w)
  BY <1>1, <1>4 DEF BindRefused, BlockScan, ReplayCompleted, Launch, RaiseUnhandled,
    Continue, SeeCancelled, ScannerEnds, Raise, Crash, Redeliver, Goto, Release,
    IdleWorker, WorkerStates
<1> QED BY <1>2, <1>3, <1>4 DEF Prepare, Run

\* Once the authorization is lost and no worker is past its revalidation, nothing
\* is committed any more.
LEMMA LostStep ==
  ASSUME TypeInv, [Next]_vars, ~current,
         \A w \in Workers : worker[w].pc # "commit"
  PROVE  /\ evidence' = evidence
         /\ ~current'
         /\ \A w \in Workers : worker'[w].pc # "commit"
<1>1. CASE Control
  BY <1>1 DEF Control, Pause, Resume, Cancel, Transition, Restart, StartCall,
    Check, SaveQueued, PublishTask, AttachTask, CallerDies
<1>2. ASSUME NEW w \in Workers, Task(w)
      PROVE  /\ evidence' = evidence
             /\ ~current'
             /\ \A v \in Workers : worker'[v].pc # "commit"
  <2>1. CASE Conclude(w)
    <3>1. worker \in [Workers -> WorkerStates]
      BY DEF TypeInv, TypeOK
    <3>2. ~Revalidate(w) /\ \A ok \in BOOLEAN : ~Commit(w, ok)
      BY DEF Revalidate, Commit
    <3> QED BY <2>1, <3>1, <3>2 DEF Conclude, CheckRefused, BlockScan, Retry, GiveUp,
              FailScan, CancelExecution, CancelScan, Acknowledge, Goto, Release,
              IdleWorker, WorkerStates
  <2>2. CASE ~Conclude(w)
    BY <1>2, <2>2, NoNewCommit DEF Task
  <2> QED BY <2>1, <2>2
<1>3. CASE ForgetRevocations \/ LoseAuthorization
  BY <1>3 DEF ForgetRevocations, LoseAuthorization
<1>4. CASE UNCHANGED vars
  BY <1>4 DEF vars
<1> QED BY <1>1, <1>2, <1>3, <1>4 DEF Next

\* When the bound authorization is no longer the latest valid decision, the only
\* evidence that can still be committed is that of workers already past their
\* revalidation.
THEOREM LostAuthorizationStays == Spec => LostAuthorizationIsFinal
<1>1. TypeInv /\ [Next]_vars => [CommitsNothing]_vars
  BY LostStep DEF CommitsNothing
<1> QED BY <1>1, TypeInvariant, PTL DEF Spec, LostAuthorizationIsFinal

\* A step out of a settled state leaves the outcome and the workers alone, unless
\* a user restarts the scan or a start call saves QUEUED over it.
LEMMA SettledStep ==
  ASSUME TypeInv, [Next]_vars, Settled
  PROVE  \/ Settled' /\ UNCHANGED <<scan.status, execution, evidence>>
         \/ \E c \in Callers : Restart(c) \/ SaveQueued(c)
<1> USE DEF Settled, TerminalDelivery
<1>1. worker \in [Workers -> WorkerStates]
  BY DEF TypeInv, TypeOK
<1>2. CASE Pause \/ Resume \/ Cancel
  BY <1>2 DEF Pause, Resume, Cancel, Transition, Allowed, Finished
<1>3. ASSUME NEW c \in Callers, AttachTask(c)
      PROVE  Settled' /\ UNCHANGED <<scan.status, execution, evidence>>
  <2>1. scan'.status = scan.status
    BY <1>3, ScanTyped DEF AttachTask, TypeInv, TypeOK, CallerStates
  <2> QED BY <1>3, <2>1 DEF AttachTask
<1>4. ASSUME NEW c \in Callers,
             StartCall(c) \/ Check(c) \/ PublishTask(c) \/ CallerDies(c)
      PROVE  Settled' /\ UNCHANGED <<scan.status, execution, evidence>>
  BY <1>4 DEF StartCall, Check, PublishTask, CallerDies
<1>5. ASSUME NEW w \in Workers, Task(w)
      PROVE  Settled' /\ UNCHANGED <<scan.status, execution, evidence>>
  <2>1. worker[w].pc \in {"idle", "done"}
    OBVIOUS
  <2>2. CASE \E m \in queue : Receive(w, m)
    BY <2>2 DEF Receive, Discard, Replay, Accept
  <2>3. CASE Acknowledge(w) \/ Crash(w) \/ Redeliver(w)
    BY <1>1, <2>3 DEF Acknowledge, Crash, Redeliver, Release, IdleWorker
  <2>4. ~Prepare(w) /\ ~Run(w) /\ (Conclude(w) => Acknowledge(w))
    BY <2>1 DEF Prepare, Bind, BindRefused, ReplayCompleted, Start, Launch,
      RaiseUnhandled, Run, Stop, Continue, SeeCancelled, ScannerEnds, Raise, Conclude,
      Revalidate, CheckRefused, Commit, Retry, GiveUp, FailScan, CancelExecution,
      CancelScan
  <2> QED BY <1>5, <2>2, <2>3, <2>4 DEF Task
<1>6. CASE ForgetRevocations \/ LoseAuthorization
  BY <1>6 DEF ForgetRevocations, LoseAuthorization
<1>7. CASE UNCHANGED vars
  BY <1>7 DEF vars
<1> QED BY <1>2, <1>3, <1>4, <1>5, <1>6, <1>7 DEF Next, Control

\* A finished scan with a durable outcome on which no worker works is changed by
\* no message, crash or late delivery: only a restart or a start call opens it.
THEOREM SettledStaysInert == Spec => SettledIsInert
<1>1. TypeInv /\ [Next]_vars => [StaysSettled]_vars
  BY SettledStep DEF StaysSettled
<1> QED BY <1>1, TypeInvariant, PTL DEF Spec, SettledIsInert

-----------------------------------------------------------------------------
(* The scan as those see it who wait for its outcome.                       *)

\* Every message, and every worker's message, is of a task that was published.
Issued ==
    /\ \A m \in queue : m.task \in 1..tasks
    /\ \A w \in Workers : Busy(w) => worker[w].task \in 1..tasks

\* A worker that goes on with the message it holds, or releases it, works on a task
\* that was published.
LEMMA IssuedKept ==
  ASSUME TypeInv, Issued, NEW w \in Workers, UNCHANGED tasks,
         \A m \in queue' : m \in queue \/ m.task \in 1..tasks,
         \A v \in Workers : v # w => worker'[v] = worker[v],
         worker'[w].pc = "idle" \/ worker'[w].task \in 1..tasks
  PROVE  Issued'
  BY DEF Issued, Busy

\* No step of a task handles a message of a task that was never published.
LEMMA TaskIssued ==
  ASSUME TypeInv, Issued, NEW w \in Workers, Task(w)
  PROVE  Issued'
<1>1. worker \in [Workers -> WorkerStates] /\ tasks \in Nat
  BY CountsAssumption DEF TypeInv, TypeOK
<1>2. CASE \E m \in queue : Receive(w, m)
  <2> PICK m \in queue : Receive(w, m)
    BY <1>2
  <2>1. m.task \in 1..tasks
    BY DEF Issued
  <2>2. CASE Discard(w, m) \/ Replay(w, m)
    BY <2>2 DEF Discard, Replay, Take, Issued, Busy
  <2>3. CASE Accept(w, m)
    BY <1>1, <2>1, <2>3, IssuedKept DEF Accept, Take
  <2> QED BY <2>2, <2>3 DEF Receive
<1>3. Busy(w) => worker[w].task \in 1..tasks
  BY DEF Issued
<1>4. CASE Bind(w) \/ Start(w) \/ Stop(w)
  <2>1. /\ Loaded(w) \in WorkerStates /\ Loaded(w).task = worker[w].task
        /\ Unseen(w) \in WorkerStates /\ Unseen(w).task = worker[w].task
        /\ Slow(w) \in WorkerStates /\ Slow(w).task = worker[w].task
    BY HeldTyped
  <2>2. PICK u \in WorkerStates, s \in {"start", "launch", "stopped"} :
           /\ u.task = worker[w].task
           /\ worker' = [worker EXCEPT ![w] = [u EXCEPT !.pc = s]]
    BY <1>4, <2>1 DEF Bind, Start, Stop
  <2>3. worker'[w].task = worker[w].task
    BY <1>1, <2>2 DEF WorkerStates
  <2>4. Busy(w) /\ UNCHANGED <<tasks, queue>>
    BY <1>4 DEF Bind, Start, Stop, Busy
  <2>5. \A v \in Workers : v # w => worker'[v] = worker[v]
    BY <1>1, <2>2
  <2>6. worker'[w].task \in 1..tasks
    BY <1>3, <2>3, <2>4
  <2> QED BY <2>4, <2>5, <2>6, IssuedKept
<1>5. CASE \/ BindRefused(w) \/ ReplayCompleted(w) \/ Launch(w) \/ RaiseUnhandled(w)
           \/ Continue(w) \/ SeeCancelled(w) \/ ScannerEnds(w) \/ Raise(w)
           \/ Conclude(w) \/ Crash(w) \/ Redeliver(w)
  <2>1. Busy(w) /\ UNCHANGED tasks
    BY <1>5 DEF BindRefused, BlockScan, ReplayCompleted, Launch, RaiseUnhandled,
      Continue, SeeCancelled, ScannerEnds, Raise, Conclude, Revalidate, CheckRefused,
      Commit, Retry, GiveUp, FailScan, CancelExecution, CancelScan, Acknowledge, Crash,
      Redeliver, Busy
  <2>2. (\E s \in Stages : Goto(w, s)) \/ Release(w) \/ UNCHANGED worker
    BY <1>5 DEF BindRefused, BlockScan, ReplayCompleted, Launch, RaiseUnhandled,
      Continue, SeeCancelled, ScannerEnds, Raise, Conclude, Revalidate, CheckRefused,
      Commit, Retry, GiveUp, FailScan, CancelExecution, CancelScan, Acknowledge, Crash,
      Redeliver, Stages
  <2>3. \A m \in queue' : m \in queue \/ m.task = worker[w].task
    BY <1>5 DEF BindRefused, BlockScan, ReplayCompleted, Launch, RaiseUnhandled,
      Continue, SeeCancelled, ScannerEnds, Raise, Conclude, Revalidate, CheckRefused,
      Commit, Retry, GiveUp, FailScan, CancelExecution, CancelScan, Acknowledge, Crash,
      Redeliver, MessageOf
  <2>4. /\ \A v \in Workers : v # w => worker'[v] = worker[v]
        /\ worker'[w].pc = "idle" \/ worker'[w].task = worker[w].task
    BY <1>1, <2>2 DEF Goto, Release, IdleWorker, WorkerStates
  <2> QED BY <1>3, <2>1, <2>3, <2>4, IssuedKept
<1> QED BY <1>2, <1>4, <1>5 DEF Task, Prepare, Run

\* Issued is invariant.
THEOREM TasksWereIssued == Spec => []Issued
<1>1. Init => Issued
  BY DEF Init, Issued, Busy, IdleWorker
<1>2. TypeInv /\ Issued /\ [Next]_vars => Issued'
  <2> SUFFICES ASSUME TypeInv, Issued, [Next]_vars PROVE Issued'
    OBVIOUS
  <2>1. ASSUME NEW c \in Callers, PublishTask(c) PROVE Issued'
    <3>1. tasks \in Nat /\ tasks' = tasks + 1
      BY <2>1, CountsAssumption DEF PublishTask, TypeInv, TypeOK
    <3>2. \A i : i \in 1..tasks \/ i = tasks + 1 => i \in 1..tasks'
      BY <3>1
    <3>3. \A m \in queue' : m \in queue \/ m.task = tasks + 1
      BY <2>1 DEF PublishTask
    <3> QED BY <2>1, <3>2, <3>3 DEF PublishTask, Issued, Busy
  <2>2. CASE Control /\ ~\E c \in Callers : PublishTask(c)
    BY <2>2 DEF Control, Pause, Resume, Cancel, Transition, Restart, StartCall, Check,
      SaveQueued, AttachTask, CallerDies, Issued, Busy
  <2>3. ASSUME NEW w \in Workers, Task(w) PROVE Issued'
    BY <2>3, TaskIssued
  <2>4. CASE ForgetRevocations \/ LoseAuthorization
    BY <2>4 DEF ForgetRevocations, LoseAuthorization, Issued, Busy
  <2>5. CASE UNCHANGED vars
    BY <2>5 DEF vars, Issued, Busy
  <2> QED BY <2>1, <2>2, <2>3, <2>4, <2>5 DEF Next
<1> QED BY <1>1, <1>2, TypeInvariant, PTL DEF Spec

\* A step that leaves the status, the evidence and the number of tasks alone is not
\* seen.
LEMMA StepUnseen ==
  ASSUME scan'.status = scan.status, UNCHANGED <<evidence, tasks>>
  PROVE  UNCHANGED Outcome!outcomeVars
  BY DEF Outcome!outcomeVars, SeenStatus

\* A step that changes the status only, and shows it as open, opens the scan again.
LEMMA StepReopens ==
  ASSUME scan'.status \in Statuses \ Finished, UNCHANGED <<evidence, tasks>>
  PROVE  Outcome!Reopen
<1>1. SeenStatus' = "open"
  BY DEF SeenStatus, Statuses, Finished
<1> QED BY <1>1 DEF Outcome!Reopen

\* A step of a task that changes the status only, to a failure or a cancellation,
\* is the end of a task that was published.
LEMMA StepFails ==
  ASSUME TypeInv, Issued, NEW w \in Workers, Busy(w),
         scan'.status \in {"failed", "cancelled"}, UNCHANGED <<evidence, tasks>>
  PROVE  Outcome!Fail
<1>1. tasks > 0
  BY CountsAssumption DEF Issued, TypeInv, TypeOK
<1>2. SeenStatus' \in {"failed", "cancelled"}
  BY DEF SeenStatus
<1> QED BY <1>1, <1>2 DEF Outcome!Fail

\* The control calls open the scan, ask for a task or cancel it, or are not seen.
LEMMA ControlSeen ==
  ASSUME TypeInv, Control
  PROVE  Outcome!Next \/ UNCHANGED Outcome!outcomeVars
<1>1. scan.status \in Statuses
  BY DEF TypeInv, TypeOK
<1>2. CASE Pause \/ Resume
  <2>1. PICK s \in {"paused", "running"} : Transition(s)
    BY <1>2 DEF Pause, Resume
  <2>2. scan'.status = s
    BY <2>1, ScanTyped DEF Transition, Statuses
  <2>3. Outcome!Reopen
    BY <2>1, <2>2, StepReopens DEF Transition, Statuses, Finished
  <2> QED BY <2>3 DEF Outcome!Next
<1>3. CASE Cancel
  <2>1. scan'.status = "cancelled"
    BY <1>3, ScanTyped DEF Cancel, Transition, Statuses
  <2>2. scan.status \in Statuses \ Finished
    BY <1>1, <1>3 DEF Cancel, Transition, Allowed, Statuses, Finished
  <2>3. SeenStatus = "open" /\ SeenStatus' = "cancelled"
    BY <2>1, <2>2 DEF SeenStatus, Statuses, Finished
  <2>4. Outcome!Cancel
    BY <1>3, <2>3 DEF Outcome!Cancel, Cancel, Transition
  <2> QED BY <2>4 DEF Outcome!Next
<1>4. ASSUME NEW c \in Callers, Restart(c) \/ SaveQueued(c)
      PROVE  Outcome!Next
  <2>1. scan'.status \in {"pending", "queued"}
    BY <1>4, ScanTyped DEF Restart, SaveQueued, Statuses
  <2>2. Outcome!Reopen
    BY <1>4, <2>1, StepReopens DEF Restart, SaveQueued, Statuses, Finished
  <2> QED BY <2>2 DEF Outcome!Next
<1>5. ASSUME NEW c \in Callers, PublishTask(c) PROVE Outcome!Next
  <2>1. (tasks > 0)'
    BY <1>5, CountsAssumption DEF PublishTask, TypeInv, TypeOK
  <2>2. UNCHANGED <<scan, evidence>>
    BY <1>5 DEF PublishTask
  <2>3. Outcome!Ask
    BY <2>1, <2>2 DEF Outcome!Ask, SeenStatus
  <2> QED BY <2>3 DEF Outcome!Next
<1>6. ASSUME NEW c \in Callers,
             StartCall(c) \/ Check(c) \/ CallerDies(c) \/ AttachTask(c)
      PROVE  UNCHANGED Outcome!outcomeVars
  <2>1. scan'.status = scan.status
    BY <1>6, ScanTyped DEF StartCall, Check, CallerDies, AttachTask, TypeInv, TypeOK,
      CallerStates
  <2> QED BY <1>6, <2>1, StepUnseen DEF StartCall, Check, CallerDies, AttachTask
<1> QED BY <1>2, <1>3, <1>4, <1>5, <1>6 DEF Control

\* Of the steps of a task, its start opens the scan, its commit completes it, its
\* failures end it, and nothing else is seen.
LEMMA TaskSeen ==
  ASSUME TypeInv, TypeInv', Issued, NEW w \in Workers, Task(w)
  PROVE  Outcome!Next \/ UNCHANGED Outcome!outcomeVars
<1>1. CASE BindRefused(w) \/ CheckRefused(w) \/ FailScan(w) \/ CancelScan(w)
  <2>1. Busy(w) /\ UNCHANGED <<evidence, tasks>>
    BY <1>1 DEF BindRefused, CheckRefused, BlockScan, FailScan, CancelScan, Busy
  <2>2. scan'.status \in {"failed", "cancelled"}
    BY <1>1, ScanTyped DEF BindRefused, CheckRefused, BlockScan, FailScan, CancelScan,
      Statuses
  <2>3. Outcome!Fail
    BY <2>1, <2>2, StepFails
  <2> QED BY <2>3 DEF Outcome!Next
<1>2. ASSUME NEW ok \in BOOLEAN, Commit(w, ok) PROVE Outcome!Next
  <2> DEFINE i == worker[w].task
  <2>1. i \in TaskIds /\ tasks > 0
    BY <1>2, CountsAssumption DEF Commit, Busy, TypeInv, TypeOK, HoldersTyped, Issued
  <2>2. scan'.status \in {"completed", "partial"}
    BY <1>2, ScanTyped DEF Commit, Statuses
  <2>3. SeenStatus' = "done"
    BY <2>2 DEF SeenStatus
  <2>4. evidence \in [TaskIds -> 0..MaxEvidence] /\ evidence' = [evidence EXCEPT ![i] = @ + 1]
    BY <1>2 DEF Commit, TypeInv, TypeOK
  <2>5. evidence'[i] > 0
    BY <2>1, <2>4, CountsAssumption
  <2>6. (\E j \in TaskIds : evidence[j] > 0)'
    BY <2>1, <2>5
  <2>7. UNCHANGED tasks
    BY <1>2 DEF Commit
  <2>8. Outcome!Complete
    BY <2>1, <2>3, <2>6, <2>7 DEF Outcome!Complete
  <2> QED BY <2>8 DEF Outcome!Next
<1>3. CASE Start(w)
  <2>1. scan'.status = "running"
    BY <1>3, ScanTyped DEF Start, Statuses
  <2>2. Outcome!Reopen
    BY <1>3, <2>1, StepReopens DEF Start, Statuses, Finished
  <2> QED BY <2>2 DEF Outcome!Next
<1>4. CASE \/ \E m \in queue : Receive(w, m)
           \/ Bind(w) \/ ReplayCompleted(w) \/ Launch(w) \/ RaiseUnhandled(w)
           \/ Run(w) \/ Revalidate(w) \/ Retry(w) \/ GiveUp(w)
           \/ CancelExecution(w) \/ Acknowledge(w) \/ Crash(w) \/ Redeliver(w)
  <2>1. UNCHANGED <<scan, evidence, tasks>>
    BY <1>4 DEF Receive, Discard, Replay, Accept, Bind, ReplayCompleted, Launch,
      RaiseUnhandled, Run, Stop, Continue, SeeCancelled, ScannerEnds, Raise, Revalidate,
      Retry, GiveUp, CancelExecution, Acknowledge, Crash, Redeliver
  <2> QED BY <2>1, StepUnseen
<1> QED BY <1>1, <1>2, <1>3, <1>4 DEF Task, Prepare, Conclude

\* ScanLifecycle implements ScanOutcome: through every interleaving of control calls,
\* retries, redeliveries and crashes, and for any number of workers and requests,
\* what is seen of a scan are the five steps of ScanOutcome (commit, failure and
\* cancellation of tasks/security_scan.py:141-201, transitions of
\* scan_state_machine.py:30-80).
THEOREM LifecycleImplementsOutcome == Spec => OutcomeIsSeen
<1>1. Init => Outcome!Init
  <2> SUFFICES ASSUME Init PROVE Outcome!Init
    OBVIOUS
  <2>1. SeenStatus = "open"
    BY DEF Init, SeenStatus
  <2>2. ~(tasks > 0) /\ ~\E i \in TaskIds : evidence[i] > 0
    BY DEF Init
  <2> QED BY <2>1, <2>2 DEF Outcome!Init
<1>2. TypeInv /\ TypeInv' /\ Issued /\ [Next]_vars => [Outcome!Next]_(Outcome!outcomeVars)
  <2> SUFFICES ASSUME TypeInv, TypeInv', Issued, [Next]_vars
               PROVE  Outcome!Next \/ UNCHANGED Outcome!outcomeVars
    OBVIOUS
  <2>1. CASE Control
    BY <2>1, ControlSeen
  <2>2. ASSUME NEW w \in Workers, Task(w)
        PROVE  Outcome!Next \/ UNCHANGED Outcome!outcomeVars
    BY <2>2, TaskSeen
  <2>3. CASE ForgetRevocations \/ LoseAuthorization \/ UNCHANGED vars
    <3>1. UNCHANGED <<scan, evidence, tasks>>
      BY <2>3 DEF ForgetRevocations, LoseAuthorization, vars
    <3> QED BY <3>1, StepUnseen
  <2> QED BY <2>1, <2>2, <2>3 DEF Next
<1> QED BY <1>1, <1>2, TypeInvariant, TasksWereIssued, PTL
        DEF Spec, OutcomeIsSeen, Outcome!Spec

\* What ScanOutcome promises of the ends of a scan.
LEMMA OutcomeStep ==
  Outcome!EndsAreEarned /\ [Outcome!Next]_(Outcome!outcomeVars) => Outcome!EndsAreEarned'
<1> SUFFICES ASSUME Outcome!EndsAreEarned, [Outcome!Next]_(Outcome!outcomeVars)
             PROVE  Outcome!EndsAreEarned'
  OBVIOUS
<1>1. CASE Outcome!Ask
  BY <1>1 DEF Outcome!Ask, Outcome!EndsAreEarned
<1>2. CASE Outcome!Reopen
  BY <1>2 DEF Outcome!Reopen, Outcome!EndsAreEarned
<1>3. CASE Outcome!Complete
  BY <1>3 DEF Outcome!Complete, Outcome!EndsAreEarned
<1>4. CASE Outcome!Fail
  BY <1>4 DEF Outcome!Fail, Outcome!EndsAreEarned
<1>5. CASE Outcome!Cancel
  BY <1>5 DEF Outcome!Cancel, Outcome!EndsAreEarned
<1>6. CASE UNCHANGED Outcome!outcomeVars
  BY <1>6 DEF Outcome!outcomeVars, Outcome!EndsAreEarned
<1> QED BY <1>1, <1>2, <1>3, <1>4, <1>5, <1>6 DEF Outcome!Next

\* A scan that is COMPLETED or PARTIAL has evidence of a task, and one that is FAILED
\* had a task published for it, whatever control calls, restarts and late tasks wrote
\* before: read off from the refinement (tasks/security_scan.py:141-201).
THEOREM EndsWereEarned ==
  Spec => []( /\ scan.status \in {"completed", "partial"} => \E i \in TaskIds : evidence[i] > 0
              /\ scan.status = "failed" => tasks > 0 )
<1>1. Outcome!Init => Outcome!EndsAreEarned
  BY DEF Outcome!Init, Outcome!EndsAreEarned
<1>2. Outcome!EndsAreEarned =>
        /\ scan.status \in {"completed", "partial"} => \E i \in TaskIds : evidence[i] > 0
        /\ scan.status = "failed" => tasks > 0
  BY DEF Outcome!EndsAreEarned, SeenStatus
<1> QED BY <1>1, <1>2, OutcomeStep, LifecycleImplementsOutcome, PTL
        DEF OutcomeIsSeen, Outcome!Spec
=============================================================================
