---------------------- MODULE ScheduledExecutionProofs ----------------------
(***************************************************************************)
(* Proofs about ScheduledExecution, for any number of workers, instants,   *)
(* attempts, retries and schedule versions.                                *)
(***************************************************************************)
EXTENDS ScheduledExecution, FiniteSetTheorems, TLAPS

\* Every busy worker holds an occurrence and an attempt at it.
HoldersTyped ==
    \A w \in Workers : Busy(w) =>
        worker[w].occ \in Times /\ worker[w].attempt \in 1..MaxAttempts

\* A busy worker, and a dispatcher about to note, hold an occurrence.
HoldsOccurrence ==
    /\ HoldersTyped
    /\ disp.pc = "note" => disp.cur \in Times

TypeInv == TypeOK /\ HoldsOccurrence

USE DEF environment, rows

\* A schedule just created, with nothing claimed, is well typed.
LEMMA InitTypeInv == Init => TypeInv
<1> SUFFICES ASSUME Init PROVE TypeInv
  OBVIOUS
<1> USE DEF Init
<1>1. occ \in [Times -> Occurrences]
  BY BoundsAssumption DEF Occurrences, Statuses, NoOccurrence
<1>2. worker \in [Workers -> WorkerStates]
  BY BoundsAssumption DEF WorkerStates, Stages, IdleWorker
<1>3. disp \in DispatcherStates
  BY BoundsAssumption DEF DispatcherStates, IdleDispatcher
<1>4. schedule \in Schedules
  BY BoundsAssumption DEF Schedules, Versions, Policies
<1>5. policy \in Policies
  BY BoundsAssumption DEF Policies
<1>6. HoldsOccurrence
  BY DEF HoldsOccurrence, HoldersTyped, Busy, IdleWorker, IdleDispatcher
<1> QED BY <1>1, <1>2, <1>3, <1>4, <1>5, <1>6 DEF TypeInv, TypeOK

\* Saving a well-typed row keeps the table well typed.
LEMMA SaveTyped ==
  ASSUME occ \in [Times -> Occurrences], NEW t \in Times,
         NEW row \in Occurrences, Save(t, row)
  PROVE  occ' \in [Times -> Occurrences]
  BY DEF Save, Occurrences

\* _block_execution leaves a well-typed occurrence and schedule.
LEMMA BlockTyped ==
  ASSUME TypeInv, NEW t \in Times, NEW disable \in BOOLEAN,
         BlockExecution(t, disable)
  PROVE  /\ occ' \in [Times -> Occurrences]
         /\ schedule' \in Schedules
<1>1. WithStatus(t, "blocked") \in Occurrences
  BY DEF WithStatus, TypeInv, TypeOK, Occurrences, Statuses
<1>2. occ' \in [Times -> Occurrences]
  BY <1>1, SaveTyped DEF TypeInv, TypeOK, BlockExecution
<1>3. schedule' \in Schedules
  BY DEF TypeInv, TypeOK, BlockExecution, Disabled, Schedules
<1> QED BY <1>2, <1>3


\* A worker moves on, or is done.
LEMMA AdvanceTyped ==
  ASSUME TypeInv, NEW w \in Workers, NEW stage \in Stages,
         \/ Busy(w) /\ Advance(w, stage)
         \/ Release(w)
  PROVE  /\ worker' \in [Workers -> WorkerStates]
         /\ HoldersTyped'
<1>1. worker \in [Workers -> WorkerStates]
  BY DEF TypeInv, TypeOK
<1>2. IdleWorker \in WorkerStates
  BY BoundsAssumption DEF IdleWorker, WorkerStates, Stages
<1>3. CASE Busy(w) /\ Advance(w, stage)
  BY <1>1, <1>3 DEF TypeInv, HoldsOccurrence, HoldersTyped, Busy, Advance, WorkerStates
<1>4. CASE Release(w)
  BY <1>1, <1>2, <1>4 DEF TypeInv, HoldsOccurrence, HoldersTyped, Busy, Release, IdleWorker
<1> QED BY <1>3, <1>4

\* A busy worker holds a scheduled instant, and its message is one the broker
\* may hold.
LEMMA ReturnTyped ==
  ASSUME TypeInv, NEW w \in Workers, Busy(w)
  PROVE  /\ worker[w].occ \in Times
         /\ MessageOf(w) \in Messages
<1>1. worker[w].occ \in Times
  BY DEF TypeInv, HoldsOccurrence, HoldersTyped
<1>2. worker[w].retries \in 0..MaxRetries
  BY DEF TypeInv, TypeOK, WorkerStates
<1> QED BY <1>1, <1>2 DEF MessageOf, Messages

\* TypeInv is kept by the schedule's updates.
LEMMA UpdateTyped ==
  ASSUME TypeInv,
         UpdateDisable \/ \E t \in 1..(MaxTime + 1) : UpdateActive(t)
  PROVE  TypeInv'
<1>1. schedule' \in Schedules
  <2>1. CASE UpdateDisable
    <3>1. schedule.version + 1 \in Versions
      BY <2>1, BoundsAssumption
      DEF TypeInv, TypeOK, UpdateDisable, Schedules, Versions
    <3>2. schedule \in Schedules
      BY DEF TypeInv, TypeOK
    <3>3. Disabled \in Schedules
      BY <3>2 DEF Disabled, Schedules
    <3> QED BY <2>1, <3>1, <3>3 DEF UpdateDisable, Disabled, Schedules
  <2>2. CASE \E t \in 1..(MaxTime + 1) : UpdateActive(t)
    BY <2>2, BoundsAssumption
    DEF TypeInv, TypeOK, UpdateActive, Schedules, Versions
  <2> QED BY <2>1, <2>2
<1>2. UNCHANGED <<environment, occ, scans, published, queue, worker, disp>>
  BY DEF UpdateDisable, UpdateActive
<1> QED BY <1>1, <1>2 DEF TypeInv, TypeOK, HoldsOccurrence, HoldersTyped, Busy

\* TypeInv is kept by the dispatcher's steps.
LEMMA DispatcherTyped == TypeInv /\ DispatcherStep => TypeInv'
<1> SUFFICES ASSUME TypeInv, DispatcherStep PROVE TypeInv'
  OBVIOUS
<1> USE DEF Collecting
<1>1. CASE \E later \in 1..(MaxTime + 1) : Claim(later)
  <2>1. schedule.next \in Times
    BY <1>1, BoundsAssumption
    DEF TypeInv, TypeOK, Claim, Due, Times, Schedules
  <2>2. NewOccurrence \in Occurrences
    BY BoundsAssumption DEF TypeInv, TypeOK, NewOccurrence, Occurrences,
      Statuses, Schedules, Versions, Policies
  <2>3. occ' \in [Times -> Occurrences]
    BY <1>1, <2>1, <2>2 DEF TypeInv, TypeOK, Claim
  <2>4. schedule' \in Schedules
    BY <1>1 DEF TypeInv, TypeOK, Claim, Schedules
  <2>5. disp' \in DispatcherStates /\ disp'.pc # "note"
    BY <1>1, <2>1, BoundsAssumption DEF Claim, DispatcherStates
  <2> QED BY <1>1, <2>3, <2>4, <2>5
          DEF Claim, TypeInv, TypeOK, HoldsOccurrence, HoldersTyped, Busy
<1>2. CASE ClaimConflict \/ ClaimIncomplete \/ ClaimNothing
  <2>1. disp' \in DispatcherStates /\ disp'.pc # "note"
    BY <1>2, BoundsAssumption
    DEF ClaimConflict, ClaimIncomplete, ClaimNothing, DispatcherStates
  <2>2. schedule' \in Schedules
    BY <1>2 DEF ClaimConflict, ClaimIncomplete, ClaimNothing, Disabled,
      TypeInv, TypeOK, Schedules
  <2> QED BY <1>2, <2>1, <2>2 DEF ClaimConflict, ClaimIncomplete, ClaimNothing,
            TypeInv, TypeOK, HoldsOccurrence, HoldersTyped, Busy
<1>3. CASE Collect
  <2>1. disp' \in DispatcherStates /\ disp'.pc # "note"
    <3>1. disp.batch \in SUBSET Times /\ Retryable \in SUBSET Times
      BY DEF TypeInv, TypeOK, DispatcherStates, Retryable
    <3> QED BY <1>3, <3>1, BoundsAssumption DEF Collect, DispatcherStates
  <2> QED BY <1>3, <2>1 DEF Collect, TypeInv, TypeOK, HoldsOccurrence, HoldersTyped, Busy
<1>4. ASSUME NEW t \in Times, Send(t) PROVE TypeInv'
  <2>1. disp' \in DispatcherStates /\ disp'.cur \in Times
    BY <1>4 DEF Send, TypeInv, TypeOK, DispatcherStates, Times
  <2>2. queue' \subseteq Messages
    BY <1>4, BoundsAssumption DEF Send, TypeInv, TypeOK, Messages
  <2> QED BY <1>4, <2>1, <2>2 DEF Send, TypeInv, TypeOK, HoldsOccurrence, HoldersTyped, Busy
<1>5. ASSUME NEW t \in Times, MarkEnqueueFailed(t)
      PROVE  occ' \in [Times -> Occurrences]
  <2>1. WithStatus(t, "failed") \in Occurrences
    BY DEF WithStatus, TypeInv, TypeOK, Occurrences, Statuses
  <2> QED BY <1>5, <2>1, SaveTyped DEF TypeInv, TypeOK, MarkEnqueueFailed
<1>6. ASSUME NEW t \in Times, SendFails(t) PROVE TypeInv'
  <2>1. disp' \in DispatcherStates /\ disp'.pc # "note"
    BY <1>6 DEF SendFails, TypeInv, TypeOK, DispatcherStates
  <2> QED BY <1>5, <1>6, <2>1
          DEF SendFails, TypeInv, TypeOK, HoldsOccurrence, HoldersTyped, Busy
<1>7. CASE Note
  <2>1. disp' \in DispatcherStates /\ disp'.pc # "note" /\ disp.cur \in Times
    <3>1. disp \in DispatcherStates /\ disp.cur \in Times
      BY <1>7 DEF Note, TypeInv, TypeOK, HoldsOccurrence
    <3>2. disp' = [pc |-> "send", batch |-> disp.batch, cur |-> 0]
      BY <1>7 DEF Note
    <3> QED BY <3>1, <3>2, BoundsAssumption DEF DispatcherStates
  <2> DEFINE o == occ[disp.cur]
  <2>a. o \in Occurrences
    BY <2>1 DEF TypeInv, TypeOK
  <2> HIDE DEF o
  <2>b. [o EXCEPT !.sent = TRUE] \in Occurrences
    BY <2>a DEF Occurrences
  <2>2. [occ[disp.cur] EXCEPT !.sent = TRUE] \in Occurrences
    BY <2>b DEF o
  <2>3. occ' \in [Times -> Occurrences]
    BY <1>7, <2>1, <2>2, SaveTyped DEF Note, TypeInv, TypeOK
  <2> QED BY <1>7, <2>1, <2>3 DEF Note, TypeInv, TypeOK, HoldsOccurrence, HoldersTyped, Busy
<1>8. CASE NoteFails
  <2>1. disp' \in DispatcherStates /\ disp'.pc # "note" /\ disp.cur \in Times
    <3>1. disp \in DispatcherStates /\ disp.cur \in Times
      BY <1>8 DEF NoteFails, TypeInv, TypeOK, HoldsOccurrence
    <3>2. disp' = [pc |-> "send", batch |-> disp.batch, cur |-> 0]
      BY <1>8 DEF NoteFails
    <3> QED BY <3>1, <3>2, BoundsAssumption DEF DispatcherStates
  <2>2. occ' \in [Times -> Occurrences]
    BY <1>5, <1>8, <2>1 DEF NoteFails
  <2> QED BY <1>8, <2>1, <2>2
          DEF NoteFails, TypeInv, TypeOK, HoldsOccurrence, HoldersTyped, Busy
<1>9. CASE DispatcherDone
  BY <1>9, BoundsAssumption DEF DispatcherDone, IdleDispatcher, TypeInv, TypeOK,
    HoldsOccurrence, HoldersTyped, Busy, DispatcherStates
<1> QED BY <1>1, <1>2, <1>3, <1>4, <1>6, <1>7, <1>8, <1>9 DEF DispatcherStep

\* Starting an attempt keeps the row well typed.
LEMMA AttemptTyped ==
  ASSUME NEW row \in Occurrences, row.attempts < MaxAttempts
  PROVE  [row EXCEPT !.attempts = @ + 1] \in Occurrences
  BY BoundsAssumption DEF Occurrences

\* A task that raised is published again with a legal number of retries.
LEMMA AutoRetryTyped ==
  ASSUME NEW t \in Times, NEW n \in 0..MaxRetries
  PROVE  AutoRetry(t, n) \subseteq Messages
  BY BoundsAssumption DEF AutoRetry, Messages

\* TypeInv is kept by the first transaction of execute_scheduled_occurrence.
LEMMA ReceiveTyped ==
  ASSUME TypeInv, NEW w \in Workers, NEW m \in queue, Receive(w, m)
  PROVE  TypeInv'
<1>1. m \in Messages /\ m.occ \in Times /\ queue' \subseteq Messages
  <2>1. queue' \subseteq queue
    BY DEF Receive, Replay, Refuse, Begin, Take
  <2> QED BY <2>1 DEF TypeInv, TypeOK, Messages
<1>2. CASE Replay(w, m)
  BY <1>1, <1>2 DEF Replay, TypeInv, TypeOK, HoldsOccurrence, HoldersTyped, Busy
<1>3. CASE Refuse(w, m)
  <2>1. (Exhausted(m.occ) \/ ~Superseded(m.occ)) \in BOOLEAN
    OBVIOUS
  <2>2. occ' \in [Times -> Occurrences] /\ schedule' \in Schedules
    BY <1>1, <1>3, <2>1, BlockTyped DEF Refuse
  <2> QED BY <1>1, <1>3, <2>2
          DEF Refuse, TypeInv, TypeOK, HoldsOccurrence, HoldersTyped, Busy
<1>4. CASE Begin(w, m)
  <2>1. /\ occ[m.occ] \in Occurrences
        /\ occ[m.occ].attempts < MaxAttempts
        /\ occ[m.occ].attempts + 1 \in 1..MaxAttempts
    BY <1>1, <1>4, BoundsAssumption
    DEF Begin, Refused, Exhausted, TypeInv, TypeOK, Occurrences
  <2>2. /\ WithStatus(m.occ, "running") \in Occurrences
        /\ WithStatus(m.occ, "running").attempts = occ[m.occ].attempts
    BY <2>1 DEF WithStatus, Occurrences, Statuses
  <2>3. [WithStatus(m.occ, "running") EXCEPT !.attempts = @ + 1] \in Occurrences
    BY <2>1, <2>2, AttemptTyped
  <2>4. occ' \in [Times -> Occurrences]
    BY <1>1, <1>4, <2>3, SaveTyped DEF Begin, TypeInv, TypeOK
  <2>5. [pc |-> "bind", occ |-> m.occ, attempt |-> occ[m.occ].attempts + 1,
         auth |-> None, retries |-> m.retries] \in WorkerStates
    BY <1>1, <2>1, BoundsAssumption DEF WorkerStates, Stages, Messages, Times
  <2>6. worker' \in [Workers -> WorkerStates] /\ HoldersTyped'
    BY <1>1, <1>4, <2>1, <2>5
    DEF Begin, TypeInv, TypeOK, HoldsOccurrence, HoldersTyped, Busy
  <2> QED BY <1>1, <1>4, <2>4, <2>6 DEF Begin, TypeInv, TypeOK, HoldsOccurrence
<1> QED BY <1>2, <1>3, <1>4 DEF Receive

\* A step that leaves the environment and the dispatcher alone.
LEMMA WorkerStepTyped ==
  ASSUME TypeInv, UNCHANGED <<environment, disp>>,
         worker' \in [Workers -> WorkerStates], HoldersTyped',
         schedule' \in Schedules, occ' \in [Times -> Occurrences],
         scans' \in [Times -> Auths \cup {None}],
         published' \in [Times -> SUBSET (1..MaxAttempts)],
         queue' \subseteq Messages
  PROVE  TypeInv'
  BY DEF TypeInv, TypeOK, HoldsOccurrence

\* TypeInv is kept by the rest of execute_scheduled_occurrence.
LEMMA WorkTyped ==
  ASSUME TypeInv, NEW w \in Workers, Work(w)
  PROVE  TypeInv'
<1> DEFINE t == worker[w].occ
<1>1. /\ Busy(w) /\ t \in Times /\ worker[w].attempt \in 1..MaxAttempts
      /\ worker[w] \in WorkerStates /\ occ[t] \in Occurrences
  BY DEF Work, Bind, BindingRefused, Persist, ContractChanged, Publish,
    NoDispatcher, Record, Audit, Block, Fail, Busy, TypeInv, TypeOK,
    HoldsOccurrence, HoldersTyped
<1>2. /\ schedule \in Schedules /\ occ \in [Times -> Occurrences]
      /\ scans \in [Times -> Auths \cup {None}]
      /\ published \in [Times -> SUBSET (1..MaxAttempts)]
      /\ queue \subseteq Messages /\ auth \in Auths \cup {None}
      /\ worker \in [Workers -> WorkerStates] /\ HoldersTyped
  BY DEF TypeInv, TypeOK, HoldsOccurrence
<1>3. \A s \in Stages : Advance(w, s) =>
         worker' \in [Workers -> WorkerStates] /\ HoldersTyped'
  BY <1>1, AdvanceTyped
<1>4. Release(w) => worker' \in [Workers -> WorkerStates] /\ HoldersTyped'
  BY AdvanceTyped DEF Stages
<1>5. CASE Bind(w)
  <2>1. Bound(w) \in WorkerStates /\ Bound(w).occ = t
          /\ Bound(w).attempt = worker[w].attempt
    BY <1>1, <1>2 DEF Bound, WorkerStates
  <2>2. worker' \in [Workers -> WorkerStates] /\ HoldersTyped'
    <3> DEFINE b == Bound(w)
    <3>1. b \in WorkerStates /\ b.occ = t /\ b.attempt = worker[w].attempt
      BY <2>1
    <3>2. worker' = [worker EXCEPT ![w] = [b EXCEPT !.pc = "persist"]]
      BY <1>5 DEF Bind
    <3> HIDE DEF b
    <3>3. [b EXCEPT !.pc = "persist"] \in WorkerStates
      BY <3>1 DEF WorkerStates, Stages
    <3>4. /\ [b EXCEPT !.pc = "persist"].occ = t
          /\ [b EXCEPT !.pc = "persist"].attempt = worker[w].attempt
      BY <3>1 DEF WorkerStates
    <3> QED BY <1>1, <1>2, <3>2, <3>3, <3>4 DEF HoldersTyped, Busy
  <2> QED BY <1>2, <1>5, <2>2, WorkerStepTyped DEF Bind
<1>6. CASE BindingRefused(w) \/ NoDispatcher(w) \/ Audit(w)
  <2>1. worker' \in [Workers -> WorkerStates] /\ HoldersTyped'
    BY <1>3, <1>4, <1>6 DEF BindingRefused, NoDispatcher, Audit, Stages
  <2> QED BY <1>2, <1>6, <2>1, WorkerStepTyped
          DEF BindingRefused, NoDispatcher, Audit
<1>7. CASE Persist(w)
  <2>1. worker[w].auth \in Auths \cup {None}
    BY <1>1 DEF WorkerStates
  <2>2. [occ[t] EXCEPT !.auth = worker[w].auth] \in Occurrences
    BY <1>1, <2>1 DEF Occurrences
  <2>3. occ' \in [Times -> Occurrences]
    BY <1>1, <1>2, <1>7, <2>2, SaveTyped DEF Persist
  <2>4. scans' \in [Times -> Auths \cup {None}]
    BY <1>2, <1>7, <2>1 DEF Persist
  <2>5. worker' \in [Workers -> WorkerStates] /\ HoldersTyped'
    BY <1>3, <1>7 DEF Persist, Stages
  <2> QED BY <1>2, <1>7, <2>3, <2>4, <2>5, WorkerStepTyped DEF Persist
<1>8. CASE ContractChanged(w)
  <2>1. occ' \in [Times -> Occurrences] /\ schedule' \in Schedules
    BY <1>1, <1>8, BlockTyped DEF ContractChanged
  <2> QED BY <1>2, <1>4, <1>8, <2>1, WorkerStepTyped DEF ContractChanged
<1>9. CASE Publish(w)
  <2>1. published' \in [Times -> SUBSET (1..MaxAttempts)]
    BY <1>1, <1>2, <1>9 DEF Publish
  <2>2. worker' \in [Workers -> WorkerStates] /\ HoldersTyped'
    BY <1>3, <1>9 DEF Publish, Stages
  <2> QED BY <1>2, <1>9, <2>1, <2>2, WorkerStepTyped DEF Publish
<1>10. CASE Record(w)
  <2>1. WithStatus(t, "dispatched") \in Occurrences
    BY <1>1 DEF WithStatus, Occurrences, Statuses
  <2>2. occ' \in [Times -> Occurrences]
    BY <1>1, <1>2, <1>10, <2>1, SaveTyped DEF Record
  <2>3. worker' \in [Workers -> WorkerStates] /\ HoldersTyped'
    BY <1>3, <1>10 DEF Record, Stages
  <2> QED BY <1>2, <1>10, <2>2, <2>3, WorkerStepTyped DEF Record
<1>11. CASE Block(w)
  <2>1. occ' \in [Times -> Occurrences] /\ schedule' \in Schedules
    BY <1>1, <1>11, BlockTyped DEF Block
  <2> QED BY <1>2, <1>4, <1>11, <2>1, WorkerStepTyped DEF Block
<1>12. CASE Fail(w)
  <2>1. WithStatus(t, "failed") \in Occurrences
    BY <1>1 DEF WithStatus, Occurrences, Statuses
  <2>2. occ' \in [Times -> Occurrences]
    BY <1>1, <1>2, <1>12, <2>1, SaveTyped DEF Fail
  <2>3. queue' \subseteq Messages
    <3>1. worker[w].retries \in 0..MaxRetries
      BY <1>1 DEF WorkerStates
    <3> QED BY <1>1, <1>2, <1>12, <3>1, AutoRetryTyped DEF Fail
  <2> QED BY <1>2, <1>4, <1>12, <2>2, <2>3, WorkerStepTyped DEF Fail
<1> QED BY <1>5, <1>6, <1>7, <1>8, <1>9, <1>10, <1>11, <1>12 DEF Work

\* TypeInv is kept by crashes, redeliveries, exceptions and the world's changes.
LEMMA WorldTyped == TypeInv /\ World => TypeInv'
<1> SUFFICES ASSUME TypeInv, World PROVE TypeInv'
  OBVIOUS
<1>1. CASE DispatcherCrash
  BY <1>1, BoundsAssumption DEF DispatcherCrash, IdleDispatcher, TypeInv, TypeOK,
    HoldsOccurrence, HoldersTyped, Busy, DispatcherStates
<1>2. ASSUME NEW w \in Workers, Raise(w) PROVE TypeInv'
  <2>1. worker' \in [Workers -> WorkerStates] /\ HoldersTyped'
    BY <1>2, AdvanceTyped DEF Raise, Busy, Stages
  <2> QED BY <1>2, <2>1, WorkerStepTyped DEF Raise, TypeInv, TypeOK
<1>3. ASSUME NEW w \in Workers, Crash(w) PROVE TypeInv'
  <2>1. worker' \in [Workers -> WorkerStates] /\ HoldersTyped'
    BY <1>3, AdvanceTyped DEF Crash, Stages
  <2>2. queue' \subseteq Messages
    BY <1>3, ReturnTyped DEF Crash, Busy, TypeInv, TypeOK
  <2> QED BY <1>3, <2>1, <2>2, WorkerStepTyped DEF Crash, TypeInv, TypeOK
<1>4. ASSUME NEW w \in Workers, Redeliver(w) PROVE TypeInv'
  <2>1. queue' \subseteq Messages
    BY <1>4, ReturnTyped DEF Redeliver, Busy, TypeInv, TypeOK
  <2> QED BY <1>4, <2>1
          DEF Redeliver, TypeInv, TypeOK, HoldsOccurrence, HoldersTyped, Busy
<1>5. ASSUME NEW t \in Times, LeaseExpires(t) PROVE TypeInv'
  <2>1. occ' \in [Times -> Occurrences]
    BY <1>5 DEF LeaseExpires, TypeInv, TypeOK, Occurrences
  <2> QED BY <1>5, <2>1
          DEF LeaseExpires, TypeInv, TypeOK, HoldsOccurrence, HoldersTyped, Busy
<1>7. ASSUME NEW w \in Workers, NEW m \in queue, ReceiveFails(w, m)
      PROVE  TypeInv'
  <2>1. m.occ \in Times /\ m.retries \in 0..MaxRetries
    BY DEF TypeInv, TypeOK, Messages
  <2>2. queue' \subseteq Messages
    BY <1>7, <2>1, AutoRetryTyped DEF ReceiveFails, TypeInv, TypeOK
  <2> QED BY <1>7, <2>2
          DEF ReceiveFails, TypeInv, TypeOK, HoldsOccurrence, HoldersTyped, Busy
<1>6. CASE Tick \/ (\E a \in Auths \cup {None} : Reauthorize(a))
             \/ OwnerLeaves \/ Deploy
  <2>1. now' \in Times \cup {1}
    BY <1>6, BoundsAssumption
    DEF Tick, Reauthorize, OwnerLeaves, Deploy, TypeInv, TypeOK, Times
  <2>2. auth' \in Auths \cup {None}
    BY <1>6 DEF Tick, Reauthorize, OwnerLeaves, Deploy, TypeInv, TypeOK
  <2>3. gone' \subseteq Versions
    BY <1>6 DEF Tick, Reauthorize, OwnerLeaves, Deploy, TypeInv, TypeOK, Schedules
  <2>4. policy' \in Policies
    BY <1>6, BoundsAssumption
    DEF Tick, Reauthorize, OwnerLeaves, Deploy, TypeInv, TypeOK, Policies
  <2>5. UNCHANGED <<rows, published, queue, worker, disp>>
    BY <1>6 DEF Tick, Reauthorize, OwnerLeaves, Deploy
  <2> QED BY <2>1, <2>2, <2>3, <2>4, <2>5
          DEF TypeInv, TypeOK, HoldsOccurrence, HoldersTyped, Busy
<1> QED BY <1>1, <1>2, <1>3, <1>4, <1>5, <1>6, <1>7 DEF World

\* A step that changes nothing keeps TypeInv.
LEMMA StutterTyped == TypeInv /\ UNCHANGED vars => TypeInv'
  BY DEF vars, TypeInv, TypeOK, HoldsOccurrence, HoldersTyped, Busy

\* TypeInv is kept by every step of every process.
LEMMA TypeInvStep == TypeInv /\ [Next]_vars => TypeInv'
  BY UpdateTyped, DispatcherTyped, ReceiveTyped, WorkTyped, WorldTyped,
     StutterTyped DEF Next

\* TypeInv is invariant.
THEOREM TypeInvariant == Spec => []TypeInv
  BY InitTypeInv, TypeInvStep, PTL DEF Spec

\* Every reachable state is well typed.
THEOREM TypeCorrect == Spec => []TypeOK
<1>1. TypeInv => TypeOK
  BY DEF TypeInv
<1> QED BY <1>1, TypeInvariant, PTL

-----------------------------------------------------------------------------
(* The safety invariants.  SafeInv strengthens them to an inductive one: an   *)
(* authorization is bound before it is persisted, a delivery is published     *)
(* before it is recorded, an absent row is blank, versions only grow, and     *)
(* next_run is ahead of every occurrence of the current version.              *)

Early == {"bind", "persist", "publish"}
Late  == {"publish", "record", "audit"}

Support ==
    /\ \A t \in Times : occ[t].version <= schedule.version
    /\ \A t \in Times : occ[t].version = schedule.version => schedule.next > t
    /\ \A t \in Times : occ[t].status = "none" =>
         occ[t].attempts = 0 /\ occ[t].auth = None
    /\ \A w \in Workers :
         /\ worker[w].pc = "persist" => worker[w].auth # None
         /\ worker[w].pc = "record" =>
              worker[w].attempt \in published[worker[w].occ]

SafeInv == /\ EachAttemptDeliversOnce
           /\ ContractHeld
           /\ DispatchedWasDelivered
           /\ Support

\* A quiet step keeps what the invariants read of the rows, and workers move
\* only away from the stages that can still write.
KeepsRows ==
    \A t \in Times :
        /\ occ'[t].version = occ[t].version
        /\ occ'[t].attempts = occ[t].attempts
        /\ occ'[t].auth = occ[t].auth
        /\ \A s \in {"none", "dispatched"} :
             occ'[t].status = s => occ[t].status = s

KeepsWorkers ==
    \A w \in Workers : worker'[w].pc # "idle" =>
        /\ worker[w].pc # "idle"
        /\ worker'[w].occ = worker[w].occ
        /\ worker'[w].attempt = worker[w].attempt
        /\ worker'[w].auth = worker[w].auth
        /\ worker'[w].pc \in Early => worker[w].pc \in Early
        /\ worker'[w].pc \in Late => worker[w].pc \in Late
        /\ worker'[w].pc = "persist" => worker[w].pc = "persist"
        /\ worker'[w].pc = "record" => worker[w].pc = "record"

Quiet == /\ KeepsRows /\ KeepsWorkers
         /\ UNCHANGED <<scans, published>>
         /\ schedule'.version = schedule.version
         /\ schedule'.next = schedule.next
         /\ schedule'.active => schedule.active

\* What Save writes: one row, with every field but updated_at as given.
LEMMA SaveFields ==
  ASSUME TypeInv, NEW t \in Times, NEW row \in Occurrences, Save(t, row)
  PROVE  /\ \A u \in Times : u # t => occ'[u] = occ[u]
         /\ occ'[t].version = row.version
         /\ occ'[t].attempts = row.attempts
         /\ occ'[t].auth = row.auth
         /\ occ'[t].status = row.status
  BY DEF TypeInv, TypeOK, Save, Occurrences

\* What WithStatus changes of a row: its status and nothing else.
LEMMA StatusFields ==
  ASSUME TypeInv, NEW t \in Times, NEW s \in Statuses
  PROVE  /\ WithStatus(t, s) \in Occurrences
         /\ WithStatus(t, s).version = occ[t].version
         /\ WithStatus(t, s).attempts = occ[t].attempts
         /\ WithStatus(t, s).auth = occ[t].auth
         /\ WithStatus(t, s).status = s
  BY DEF TypeInv, TypeOK, WithStatus, Occurrences

\* Saving another status than DISPATCHED keeps what KeepsRows names.
LEMMA StatusSaved ==
  ASSUME TypeInv, NEW t \in Times, NEW s \in Statuses \ {"none", "dispatched"},
         Save(t, WithStatus(t, s))
  PROVE  KeepsRows
<1>1. WithStatus(t, s) \in Occurrences
  BY StatusFields
<1> QED BY <1>1, SaveFields, StatusFields DEF KeepsRows

\* _block_execution keeps the rows' history, and touches the schedule at most to
\* disable it.
LEMMA BlockQuiet ==
  ASSUME TypeInv, NEW t \in Times, NEW disable \in BOOLEAN,
         BlockExecution(t, disable)
  PROVE  /\ KeepsRows
         /\ schedule'.version = schedule.version
         /\ schedule'.next = schedule.next
         /\ schedule'.active => schedule.active
<1>1. KeepsRows
  BY StatusSaved DEF BlockExecution, Statuses
<1>2. schedule \in Schedules
  BY DEF TypeInv, TypeOK
<1> QED BY <1>1, <1>2 DEF BlockExecution, Disabled, Schedules

\* A worker that is done, that has recorded its dispatch, or that turns to an
\* error path takes over no attempt.
LEMMA WorkersKept ==
  ASSUME TypeInv, NEW w \in Workers, worker[w].pc # "idle",
         \/ Release(w)
         \/ Advance(w, "block")
         \/ Advance(w, "fail")
         \/ worker[w].pc = "record" /\ Advance(w, "audit")
  PROVE  KeepsWorkers
<1>1. worker \in [Workers -> WorkerStates]
  BY DEF TypeInv, TypeOK
<1>2. CASE Release(w)
  BY <1>1, <1>2 DEF Release, IdleWorker, KeepsWorkers
<1>3. CASE ~Release(w)
  BY <1>1, <1>3 DEF Advance, KeepsWorkers, Early, Late, WorkerStates
<1> QED BY <1>2, <1>3

\* Leaving the rows or the workers alone is one way of keeping them.
LEMMA UnchangedQuiet ==
  /\ UNCHANGED occ => KeepsRows
  /\ UNCHANGED worker => KeepsWorkers
  BY DEF KeepsRows, KeepsWorkers

\* What a step does to the state the invariants read.
LEMMA QuietDispatcher ==
  ASSUME TypeInv, DispatcherStep
  PROVE  Quiet \/ \E later \in 1..(MaxTime + 1) : Claim(later)
<1>1. CASE ClaimConflict \/ ClaimNothing \/ Collect \/ DispatcherDone
            \/ \E t \in Times : Send(t)
  BY <1>1, UnchangedQuiet
  DEF ClaimConflict, ClaimNothing, Collect, DispatcherDone, Send, Quiet
<1>2. CASE ClaimIncomplete
  BY <1>2, UnchangedQuiet
  DEF ClaimIncomplete, Disabled, Quiet, TypeInv, TypeOK, Schedules
<1>3. ASSUME NEW t \in Times, MarkEnqueueFailed(t) PROVE KeepsRows
  BY <1>3, StatusSaved, UnchangedQuiet DEF MarkEnqueueFailed, Statuses
<1>4. ASSUME NEW t \in Times, SendFails(t) PROVE Quiet
  BY <1>3, <1>4, UnchangedQuiet DEF SendFails, Quiet
<1>5. CASE NoteFails
  BY <1>3, <1>5, UnchangedQuiet
  DEF NoteFails, Quiet, TypeInv, HoldsOccurrence
<1>6. CASE Note
  <2>1. disp.cur \in Times
    BY <1>6 DEF Note, TypeInv, HoldsOccurrence
  <2>2. CASE UNCHANGED occ
    BY <1>6, <2>2, UnchangedQuiet DEF Note, Quiet
  <2>3. CASE Save(disp.cur, [occ[disp.cur] EXCEPT !.sent = TRUE])
    <3> DEFINE o == occ[disp.cur]
    <3>a. o \in Occurrences
      BY <2>1 DEF TypeInv, TypeOK
    <3> HIDE DEF o
    <3>b. [o EXCEPT !.sent = TRUE] \in Occurrences
      BY <3>a DEF Occurrences
    <3>1. [occ[disp.cur] EXCEPT !.sent = TRUE] \in Occurrences
      BY <3>b DEF o
    <3>2. KeepsRows
      BY <2>1, <2>3, <3>1, SaveFields DEF KeepsRows, TypeInv, TypeOK, Occurrences
    <3> QED BY <1>6, <3>2, UnchangedQuiet DEF Note, Quiet
  <2> QED BY <1>6, <2>2, <2>3 DEF Note
<1> QED BY <1>1, <1>2, <1>4, <1>5, <1>6 DEF DispatcherStep

\* Of the steps of execute_scheduled_occurrence only five do something the
\* invariants notice.
LEMMA QuietWorker ==
  ASSUME TypeInv, NEW w \in Workers,
         (\E m \in queue : Receive(w, m)) \/ Work(w)
  PROVE  \/ Quiet
         \/ \E m \in queue : Begin(w, m)
         \/ Bind(w) \/ Persist(w) \/ Publish(w) \/ Record(w)
<1> DEFINE t == worker[w].occ
<1>1. worker[w].pc # "idle" => t \in Times
  BY DEF TypeInv, HoldsOccurrence, HoldersTyped, Busy
<1>2. ASSUME NEW m \in queue, Replay(w, m) PROVE Quiet
  BY <1>2, UnchangedQuiet DEF Replay, Quiet
<1>3. ASSUME NEW m \in queue, Refuse(w, m) PROVE Quiet
  <2>1. m.occ \in Times /\ (Exhausted(m.occ) \/ ~Superseded(m.occ)) \in BOOLEAN
    BY DEF TypeInv, TypeOK, Messages
  <2>2. /\ KeepsRows
        /\ schedule'.version = schedule.version
        /\ schedule'.next = schedule.next
        /\ schedule'.active => schedule.active
    BY <1>3, <2>1, BlockQuiet DEF Refuse
  <2> QED BY <1>3, <2>2, UnchangedQuiet DEF Refuse, Quiet
<1>4. CASE BindingRefused(w) \/ NoDispatcher(w) \/ Audit(w)
  BY <1>4, WorkersKept, UnchangedQuiet
  DEF BindingRefused, NoDispatcher, Audit, Quiet
<1>5. CASE ContractChanged(w) \/ Block(w)
  <2>1. /\ KeepsRows
        /\ schedule'.version = schedule.version
        /\ schedule'.next = schedule.next
        /\ schedule'.active => schedule.active
    BY <1>1, <1>5, BlockQuiet DEF ContractChanged, Block
  <2>2. KeepsWorkers
    BY <1>5, WorkersKept DEF ContractChanged, Block
  <2> QED BY <1>5, <2>1, <2>2 DEF ContractChanged, Block, Quiet
<1>6. CASE Fail(w)
  <2>1. KeepsRows
    BY <1>1, <1>6, StatusSaved DEF Fail, Statuses
  <2>2. KeepsWorkers
    BY <1>6, WorkersKept DEF Fail
  <2> QED BY <1>6, <2>1, <2>2 DEF Fail, Quiet
<1> QED BY <1>2, <1>3, <1>4, <1>5, <1>6 DEF Work, Receive

\* Nothing that happens outside the calls is noticed by the invariants.
LEMMA QuietWorld == TypeInv /\ World => Quiet
<1> SUFFICES ASSUME TypeInv, World PROVE Quiet
  OBVIOUS
<1>1. CASE DispatcherCrash \/ Tick \/ OwnerLeaves \/ Deploy
            \/ \E a \in Auths \cup {None} : Reauthorize(a)
  BY <1>1, UnchangedQuiet
  DEF DispatcherCrash, Tick, OwnerLeaves, Deploy, Reauthorize, Quiet
<1>2. ASSUME NEW w \in Workers, Raise(w) \/ Crash(w) PROVE Quiet
  BY <1>2, WorkersKept, UnchangedQuiet DEF Raise, Crash, Quiet
<1>3. ASSUME NEW w \in Workers, Redeliver(w) PROVE Quiet
  BY <1>3, UnchangedQuiet DEF Redeliver, Quiet
<1>5. ASSUME NEW w \in Workers, NEW m \in queue, ReceiveFails(w, m) PROVE Quiet
  BY <1>5, UnchangedQuiet DEF ReceiveFails, Quiet
<1>4. ASSUME NEW t \in Times, LeaseExpires(t) PROVE Quiet
  <2>1. KeepsRows
    BY <1>4 DEF LeaseExpires, KeepsRows, TypeInv, TypeOK, Occurrences
  <2> QED BY <1>4, <2>1, UnchangedQuiet DEF LeaseExpires, Quiet
<1> QED BY <1>1, <1>2, <1>3, <1>4, <1>5 DEF World

\* A quiet step keeps SafeInv.
LEMMA QuietSafe == TypeInv /\ TypeInv' /\ SafeInv /\ Quiet => SafeInv'
<1> SUFFICES ASSUME TypeInv, TypeInv', SafeInv, Quiet PROVE SafeInv'
  OBVIOUS
<1> USE DEF SafeInv, Quiet, KeepsRows, KeepsWorkers
<1>1. EachAttemptDeliversOnce'
  BY DEF EachAttemptDeliversOnce, Busy, Early, TypeInv, HoldsOccurrence,
    HoldersTyped
<1>2. ContractHeld'
  BY DEF ContractHeld, Late
<1>3. DispatchedWasDelivered'
  BY DEF DispatchedWasDelivered
<1>4. Support'
  BY DEF Support
<1> QED BY <1>1, <1>2, <1>3, <1>4

\* SafeInv holds when nothing has been claimed.
LEMMA InitSafe == Init => SafeInv
<1> SUFFICES ASSUME Init PROVE SafeInv
  OBVIOUS
<1>1. /\ \A t \in Times : occ[t] = NoOccurrence /\ scans[t] = None
                          /\ published[t] = {}
      /\ \A w \in Workers : worker[w].pc = "idle"
      /\ schedule.version = 1
  BY DEF Init, IdleWorker
<1> QED BY <1>1 DEF SafeInv, EachAttemptDeliversOnce, ContractHeld,
          DispatchedWasDelivered, Support, NoOccurrence, Busy

\* Every update takes a version no occurrence has.
LEMMA UpdateSafe ==
  ASSUME TypeInv, SafeInv,
         UpdateDisable \/ \E t \in 1..(MaxTime + 1) : UpdateActive(t)
  PROVE  SafeInv'
<1>1. /\ UNCHANGED <<occ, scans, published, worker>>
      /\ schedule'.version = schedule.version + 1
  <2>1. CASE UpdateDisable
    <3>1. Disabled \in Schedules /\ Disabled.version = schedule.version
      BY DEF TypeInv, TypeOK, Disabled, Schedules
    <3> QED BY <2>1, <3>1 DEF UpdateDisable, Schedules
  <2>2. CASE \E t \in 1..(MaxTime + 1) : UpdateActive(t)
    BY <2>2 DEF UpdateActive
  <2> QED BY <2>1, <2>2
<1>2. schedule.version \in Nat /\ \A t \in Times : occ[t].version \in Nat
  BY BoundsAssumption DEF TypeInv, TypeOK, Schedules, Occurrences, Versions
<1>3. Support'
  BY <1>1, <1>2 DEF SafeInv, Support
<1> QED BY <1>1, <1>3 DEF SafeInv, EachAttemptDeliversOnce, ContractHeld,
          DispatchedWasDelivered, Busy

\* SafeInv is kept by claim_due_schedule: the new occurrence has no attempt and no
\* Scan, and next_run moves past it.
LEMMA ClaimSafe ==
  ASSUME TypeInv, SafeInv, NEW later \in 1..(MaxTime + 1), Claim(later)
  PROVE  SafeInv'
<1> DEFINE t == schedule.next
<1>1. t \in Times /\ schedule \in Schedules /\ schedule.version \in Nat
  BY BoundsAssumption
  DEF TypeInv, TypeOK, Claim, Due, Times, Schedules, Versions
<1>2. occ[t].status = "none"
  BY <1>1 DEF Claim, SafeInv, Support, Times
<1>3. occ' = [occ EXCEPT ![t] = NewOccurrence]
  BY <1>2 DEF Claim
<1>4. schedule'.version = schedule.version /\ schedule'.next = later /\ later > t
  BY <1>1 DEF Claim, Schedules
<1>5. UNCHANGED <<scans, published, worker>>
  BY DEF Claim
<1>6. \A u \in Times : occ'[u] = IF u = t THEN NewOccurrence ELSE occ[u]
  BY <1>1, <1>3 DEF TypeInv, TypeOK
<1>7. /\ published[t] = {} /\ scans[t] = None
      /\ \A w \in Workers : ~(Busy(w) /\ worker[w].occ = t)
  <2>1. occ[t].attempts = 0 /\ occ[t].auth = None
    BY <1>1, <1>2 DEF SafeInv, Support
  <2> QED BY <1>1, <2>1 DEF SafeInv, EachAttemptDeliversOnce, ContractHeld
<1>8. EachAttemptDeliversOnce'
  BY <1>1, <1>5, <1>6, <1>7 DEF SafeInv, EachAttemptDeliversOnce, NewOccurrence,
    Busy, TypeInv, HoldsOccurrence, HoldersTyped
<1>9. ContractHeld'
  BY <1>1, <1>5, <1>6, <1>7 DEF SafeInv, ContractHeld, NewOccurrence
<1>10. DispatchedWasDelivered'
  BY <1>1, <1>5, <1>6 DEF SafeInv, DispatchedWasDelivered, NewOccurrence
<1>11. Support'
  <2>1. \A u \in Times : later > t /\ (schedule.next > u => later > u)
    BY <1>1, <1>4, BoundsAssumption DEF Times
  <2>2. NewOccurrence.version = schedule.version /\ NewOccurrence.attempts = 0
          /\ NewOccurrence.auth = None
    BY DEF NewOccurrence
  <2> QED BY <1>1, <1>4, <1>5, <1>6, <2>1, <2>2 DEF SafeInv, Support
<1> QED BY <1>8, <1>9, <1>10, <1>11 DEF SafeInv

\* A new attempt takes a number above every number in use.
LEMMA BeginSafe ==
  ASSUME TypeInv, SafeInv, NEW w \in Workers, NEW m \in queue, Begin(w, m)
  PROVE  SafeInv'
<1> DEFINE t == m.occ
           n == occ[t].attempts + 1
           row == [WithStatus(t, "running") EXCEPT !.attempts = @ + 1]
<1>1. /\ t \in Times /\ occ[t] \in Occurrences
      /\ occ[t].attempts \in Nat /\ occ[t].attempts < MaxAttempts
  BY BoundsAssumption
  DEF Begin, Refused, Exhausted, TypeInv, TypeOK, Messages, Occurrences
<1>2. /\ row \in Occurrences /\ row.version = occ[t].version
      /\ row.attempts = n /\ row.auth = occ[t].auth /\ row.status = "running"
  <2>1. /\ WithStatus(t, "running") \in Occurrences
        /\ WithStatus(t, "running").attempts = occ[t].attempts
        /\ WithStatus(t, "running").version = occ[t].version
        /\ WithStatus(t, "running").auth = occ[t].auth
        /\ WithStatus(t, "running").status = "running"
    BY <1>1, StatusFields DEF Statuses
  <2>2. row \in Occurrences
    BY <1>1, <2>1, AttemptTyped
  <2> QED BY <2>1, <2>2 DEF Occurrences
<1>3. /\ \A u \in Times : u # t => occ'[u] = occ[u]
      /\ occ'[t].version = occ[t].version /\ occ'[t].attempts = n
      /\ occ'[t].auth = occ[t].auth /\ occ'[t].status = "running"
  BY <1>1, <1>2, SaveFields DEF Begin
<1>4. /\ worker'[w] = [pc |-> "bind", occ |-> t, attempt |-> n, auth |-> None,
                       retries |-> m.retries]
      /\ \A v \in Workers : v # w => worker'[v] = worker[v]
  BY DEF Begin, TypeInv, TypeOK
<1>5. UNCHANGED <<scans, published, schedule>>
  BY DEF Begin
<1>6. EachAttemptDeliversOnce'
  <2>1. n \notin published[t] /\ published[t] \subseteq 1..n
    BY <1>1 DEF SafeInv, EachAttemptDeliversOnce
  <2>2. \A v \in Workers : Busy(v) /\ worker[v].occ = t =>
          worker[v].attempt \in 1..n /\ worker[v].attempt # n
    BY <1>1 DEF SafeInv, EachAttemptDeliversOnce
  <2>3. n \in 1..n
    BY <1>1
  <2> QED BY <1>1, <1>3, <1>4, <1>5, <2>1, <2>2, <2>3
          DEF SafeInv, EachAttemptDeliversOnce, Busy, TypeInv, HoldsOccurrence,
              HoldersTyped
<1>7. ContractHeld'
  BY <1>1, <1>3, <1>4, <1>5 DEF SafeInv, ContractHeld
<1>8. DispatchedWasDelivered'
  BY <1>1, <1>3, <1>5 DEF SafeInv, DispatchedWasDelivered
<1>9. Support'
  BY <1>1, <1>3, <1>4, <1>5 DEF SafeInv, Support
<1> QED BY <1>6, <1>7, <1>8, <1>9 DEF SafeInv

\* What the later steps of one worker do to its record.
LEMMA MovedFields ==
  ASSUME TypeInv, NEW w \in Workers, NEW stage \in Stages \ {"idle"},
         Advance(w, stage)
  PROVE  /\ \A v \in Workers : v # w => worker'[v] = worker[v]
         /\ worker'[w].pc = stage /\ worker'[w].occ = worker[w].occ
         /\ worker'[w].attempt = worker[w].attempt
         /\ worker'[w].auth = worker[w].auth
  BY DEF Advance, TypeInv, TypeOK, WorkerStates

\* SafeInv is kept when a worker revalidates the binding.
LEMMA BindSafe ==
  ASSUME TypeInv, SafeInv, NEW w \in Workers, Bind(w)
  PROVE  SafeInv'
<1> DEFINE b == Bound(w)
<1>1. /\ b \in WorkerStates /\ b.occ = worker[w].occ
      /\ b.attempt = worker[w].attempt /\ b.auth = auth
  BY DEF Bound, TypeInv, TypeOK, WorkerStates
<1>2. worker' = [worker EXCEPT ![w] = [b EXCEPT !.pc = "persist"]]
  BY DEF Bind
<1> HIDE DEF b
<1>3. /\ worker'[w].pc = "persist" /\ worker'[w].occ = worker[w].occ
      /\ worker'[w].attempt = worker[w].attempt /\ worker'[w].auth = auth
      /\ \A v \in Workers : v # w => worker'[v] = worker[v]
  BY <1>1, <1>2 DEF TypeInv, TypeOK, WorkerStates
<1>4. UNCHANGED <<occ, scans, published, schedule>> /\ auth # None
        /\ worker[w].pc = "bind"
  BY DEF Bind, BindingValid
<1>5. EachAttemptDeliversOnce'
  BY <1>3, <1>4 DEF SafeInv, EachAttemptDeliversOnce, Busy, TypeInv,
    HoldsOccurrence, HoldersTyped
<1>6. ContractHeld' /\ DispatchedWasDelivered' /\ Support'
  BY <1>3, <1>4 DEF SafeInv, ContractHeld, DispatchedWasDelivered, Support
<1> QED BY <1>5, <1>6 DEF SafeInv

\* The Scan that is created or reused carries the authorization just bound.
LEMMA PersistSafe ==
  ASSUME TypeInv, SafeInv, NEW w \in Workers, Persist(w)
  PROVE  SafeInv'
<1> DEFINE t == worker[w].occ
           a == worker[w].auth
           row == [occ[t] EXCEPT !.auth = a]
<1>1. /\ worker[w].pc = "persist" /\ t \in Times
      /\ a \in Auths /\ scans[t] \in {None, a}
  BY NoneAssumption DEF Persist, TypeInv, TypeOK, WorkerStates, HoldsOccurrence,
    HoldersTyped, Busy, SafeInv, Support
<1>2. /\ row \in Occurrences /\ row.version = occ[t].version
      /\ row.attempts = occ[t].attempts /\ row.status = occ[t].status
      /\ row.auth = a
  BY <1>1 DEF TypeInv, TypeOK, Occurrences
<1>3. /\ \A u \in Times : u # t => occ'[u] = occ[u]
      /\ occ'[t].version = occ[t].version
      /\ occ'[t].attempts = occ[t].attempts
      /\ occ'[t].auth = a /\ occ'[t].status = occ[t].status
  BY <1>1, <1>2, SaveFields DEF Persist
<1>4. scans' = [scans EXCEPT ![t] = a] /\ UNCHANGED <<published, schedule>>
  BY DEF Persist
<1>5. /\ worker'[w].pc = "publish" /\ worker'[w].occ = t
      /\ worker'[w].attempt = worker[w].attempt /\ worker'[w].auth = a
      /\ \A v \in Workers : v # w => worker'[v] = worker[v]
  BY MovedFields DEF Persist, Stages
<1>6. \A u \in Times : scans'[u] = IF u = t THEN a ELSE scans[u]
  BY <1>1, <1>4 DEF TypeInv, TypeOK
<1>7. EachAttemptDeliversOnce'
  BY <1>1, <1>3, <1>4, <1>5 DEF SafeInv, EachAttemptDeliversOnce, Busy, TypeInv,
    HoldsOccurrence, HoldersTyped
<1>8. ContractHeld'
  BY <1>1, <1>3, <1>5, <1>6, NoneAssumption
  DEF SafeInv, ContractHeld, TypeInv, HoldsOccurrence, HoldersTyped, Busy
<1>9. DispatchedWasDelivered'
  BY <1>1, <1>3, <1>4, <1>6, NoneAssumption DEF SafeInv, DispatchedWasDelivered
<1>10. occ[t].status # "none"
  <2>1. worker[w].attempt \in 1..occ[t].attempts
    BY <1>1 DEF SafeInv, EachAttemptDeliversOnce, Busy
  <2> QED BY <1>1, <2>1 DEF SafeInv, Support
<1>11. Support'
  BY <1>1, <1>3, <1>4, <1>5, <1>10 DEF SafeInv, Support
<1> QED BY <1>7, <1>8, <1>9, <1>11 DEF SafeInv

\* Publishing uses up the worker's attempt number, which no other worker holds.
LEMMA PublishSafe ==
  ASSUME TypeInv, SafeInv, NEW w \in Workers, Publish(w)
  PROVE  SafeInv'
<1> DEFINE t == worker[w].occ
           n == worker[w].attempt
<1>1. worker[w].pc = "publish" /\ Busy(w) /\ t \in Times
  BY DEF Publish, Busy, TypeInv, HoldsOccurrence, HoldersTyped
<1>2. \A u \in Times : published'[u] = IF u = t THEN published[u] \cup {n}
                                         ELSE published[u]
  BY <1>1 DEF Publish, TypeInv, TypeOK
<1>3. /\ worker'[w].pc = "record" /\ worker'[w].occ = t
      /\ worker'[w].attempt = n /\ worker'[w].auth = worker[w].auth
      /\ \A v \in Workers : v # w => worker'[v] = worker[v]
  BY MovedFields DEF Publish, Stages
<1>4. UNCHANGED <<occ, scans, schedule>>
  BY DEF Publish
<1>5. EachAttemptDeliversOnce'
  <2>1. \A u \in Times : published'[u] \subseteq 1..occ'[u].attempts
    <3>1. n \in 1..occ[t].attempts
      BY <1>1 DEF SafeInv, EachAttemptDeliversOnce
    <3>2. \A u \in Times : published[u] \subseteq 1..occ[u].attempts
      BY DEF SafeInv, EachAttemptDeliversOnce
    <3> QED BY <1>2, <1>4, <3>1, <3>2
  <2>2. \A v \in Workers : Busy(v)' =>
          /\ Busy(v) /\ worker'[v].occ = worker[v].occ
          /\ worker'[v].attempt = worker[v].attempt
          /\ worker'[v].occ \in Times
    BY <1>1, <1>3 DEF Busy, TypeInv, HoldsOccurrence, HoldersTyped
  <2>3. \A v \in Workers : Busy(v)' =>
          worker'[v].attempt \in 1..occ'[worker'[v].occ].attempts
    BY <1>4, <2>2 DEF SafeInv, EachAttemptDeliversOnce
  <2>4. \A v \in Workers : worker'[v].pc \in Early =>
          v # w /\ worker'[v] = worker[v]
    BY <1>3 DEF Early
  <2>5. \A v \in Workers : worker'[v].pc \in Early =>
          worker'[v].attempt \notin published'[worker'[v].occ]
    <3> SUFFICES ASSUME NEW v \in Workers, worker'[v].pc \in Early
                 PROVE  worker'[v].attempt \notin published'[worker'[v].occ]
      OBVIOUS
    <3>1. v # w /\ worker'[v] = worker[v] /\ Busy(v) /\ worker[v].occ \in Times
      BY <2>2, <2>4 DEF Busy, Early
    <3>2. worker[v].attempt \notin published[worker[v].occ]
      BY <3>1 DEF SafeInv, EachAttemptDeliversOnce, Early
    <3>3. worker[v].occ = t => worker[v].attempt # n
      BY <1>1, <3>1 DEF SafeInv, EachAttemptDeliversOnce
    <3> QED BY <1>2, <3>1, <3>2, <3>3
  <2>6. \A u, v \in Workers : u # v /\ Busy(u)' /\ Busy(v)'
            /\ worker'[u].occ = worker'[v].occ
            => worker'[u].attempt # worker'[v].attempt
    BY <2>2 DEF SafeInv, EachAttemptDeliversOnce
  <2> QED BY <2>1, <2>3, <2>5, <2>6 DEF EachAttemptDeliversOnce, Early
<1>6. ContractHeld'
  BY <1>1, <1>3, <1>4 DEF SafeInv, ContractHeld
<1>7. DispatchedWasDelivered'
  BY <1>2, <1>4 DEF SafeInv, DispatchedWasDelivered
<1>8. Support'
  <2>1. \A v \in Workers : worker'[v].pc = "record" =>
          worker'[v].attempt \in published'[worker'[v].occ]
    <3>1. worker'[w].attempt \in published'[worker'[w].occ]
      BY <1>1, <1>2, <1>3
    <3>2. ASSUME NEW v \in Workers, v # w, worker'[v].pc = "record"
          PROVE  worker'[v].attempt \in published'[worker'[v].occ]
      <4>1. worker[v].occ \in Times
        BY <1>3, <3>2 DEF TypeInv, HoldsOccurrence, HoldersTyped, Busy
      <4> QED BY <1>2, <1>3, <3>2, <4>1 DEF SafeInv, Support
    <3> QED BY <3>1, <3>2
  <2>2. \A v \in Workers : worker'[v].pc = "persist" => worker'[v].auth # None
    BY <1>3 DEF SafeInv, Support
  <2> QED BY <1>4, <2>1, <2>2 DEF SafeInv, Support
<1> QED BY <1>5, <1>6, <1>7, <1>8 DEF SafeInv

\* SafeInv is kept when a worker records the dispatch it has published.
LEMMA RecordSafe ==
  ASSUME TypeInv, SafeInv, NEW w \in Workers, Record(w)
  PROVE  SafeInv'
<1> DEFINE t == worker[w].occ
<1>1. worker[w].pc = "record" /\ Busy(w) /\ t \in Times
  BY DEF Record, Busy, TypeInv, HoldsOccurrence, HoldersTyped
<1>2. /\ \A u \in Times : u # t => occ'[u] = occ[u]
      /\ occ'[t].version = occ[t].version
      /\ occ'[t].attempts = occ[t].attempts
      /\ occ'[t].auth = occ[t].auth /\ occ'[t].status = "dispatched"
  BY <1>1, SaveFields, StatusFields DEF Record, Statuses
<1>3. /\ worker'[w].pc = "audit" /\ worker'[w].occ = t
      /\ worker'[w].attempt = worker[w].attempt
      /\ worker'[w].auth = worker[w].auth
      /\ \A v \in Workers : v # w => worker'[v] = worker[v]
  BY MovedFields DEF Record, Stages
<1>4. UNCHANGED <<scans, published, schedule>>
  BY DEF Record
<1>5. scans[t] # None /\ published[t] # {}
  BY <1>1 DEF SafeInv, ContractHeld, Support
<1>6. EachAttemptDeliversOnce'
  BY <1>1, <1>2, <1>3, <1>4 DEF SafeInv, EachAttemptDeliversOnce, Busy, TypeInv,
    HoldsOccurrence, HoldersTyped
<1>7. ContractHeld'
  BY <1>1, <1>2, <1>3, <1>4 DEF SafeInv, ContractHeld
<1>8. DispatchedWasDelivered'
  BY <1>1, <1>2, <1>4, <1>5 DEF SafeInv, DispatchedWasDelivered
<1>9. Support'
  BY <1>1, <1>2, <1>3, <1>4 DEF SafeInv, Support
<1> QED BY <1>6, <1>7, <1>8, <1>9 DEF SafeInv

\* SafeInv is kept by every step.
LEMMA SafeStep == TypeInv /\ TypeInv' /\ SafeInv /\ [Next]_vars => SafeInv'
<1> SUFFICES ASSUME TypeInv, TypeInv', SafeInv, [Next]_vars PROVE SafeInv'
  OBVIOUS
<1>1. CASE UpdateDisable \/ \E t \in 1..(MaxTime + 1) : UpdateActive(t)
  BY <1>1, UpdateSafe
<1>2. CASE DispatcherStep
  BY <1>2, QuietDispatcher, QuietSafe, ClaimSafe
<1>3. ASSUME NEW w \in Workers, (\E m \in queue : Receive(w, m)) \/ Work(w)
      PROVE  SafeInv'
  BY <1>3, QuietWorker, QuietSafe, BeginSafe, BindSafe, PersistSafe, PublishSafe,
     RecordSafe
<1>4. CASE World
  BY <1>4, QuietWorld, QuietSafe
<1>5. CASE UNCHANGED vars
  BY <1>5, UnchangedQuiet, QuietSafe DEF vars, Quiet
<1> QED BY <1>1, <1>2, <1>3, <1>4, <1>5 DEF Next

\* SafeInv is invariant.
THEOREM SafeInvariant == Spec => []SafeInv
  BY InitSafe, SafeStep, TypeInvariant, PTL DEF Spec

\* Attempts bound the deliveries, whatever takeovers happen.
THEOREM DeliveriesBounded == Spec => []EachAttemptDeliversOnce
<1>1. SafeInv => EachAttemptDeliversOnce
  BY DEF SafeInv
<1> QED BY <1>1, SafeInvariant, PTL

\* Occurrence, Scan and worker agree on the authorization.
THEOREM ContractIsHeld == Spec => []ContractHeld
<1>1. SafeInv => ContractHeld
  BY DEF SafeInv
<1> QED BY <1>1, SafeInvariant, PTL

\* DISPATCHED is recorded only after a delivery.
THEOREM DispatchIsReal == Spec => []DispatchedWasDelivered
<1>1. SafeInv => DispatchedWasDelivered
  BY DEF SafeInv
<1> QED BY <1>1, SafeInvariant, PTL

\* An instant is claimed once per version.
THEOREM NextRunFresh == Spec => []NextRunIsFresh
<1>1. SafeInv => NextRunIsFresh
  BY DEF SafeInv, Support, NextRunIsFresh
<1> QED BY <1>1, SafeInvariant, PTL

-----------------------------------------------------------------------------
(* A superseded occurrence stays superseded, and without a worker in flight   *)
(* it stays without one.                                                      *)

Inert(t) == occ[t].status # "none" /\ Superseded(t) /\ InFlight(t) = {}

StaysInert(t) ==
    /\ (Superseded(t) /\ InFlight(t) = {})'
    /\ published'[t] = published[t]
    /\ scans'[t] = scans[t]

\* No worker takes the occurrence up, no update brings it back.
LEMMA InertKept ==
  ASSUME TypeInv, SafeInv, NEW t \in Times, Inert(t),
         occ'[t].version = occ[t].version,
         \/ /\ schedule'.version = schedule.version
            /\ schedule'.active => schedule.active
         \/ schedule'.version = schedule.version + 1,
         \A w \in Workers : worker'[w].pc # "idle" /\ worker'[w].occ = t =>
            worker[w].pc # "idle" /\ worker[w].occ = t
  PROVE  (Superseded(t) /\ InFlight(t) = {})'
<1>1. occ[t].version \in Nat /\ schedule.version \in Nat
        /\ occ[t].version <= schedule.version
  BY BoundsAssumption
  DEF TypeInv, TypeOK, Occurrences, Schedules, Versions, SafeInv, Support
<1>2. Superseded(t)'
  BY <1>1 DEF Inert, Superseded
<1>3. InFlight(t)' = {}
  BY DEF Inert, InFlight, Busy
<1> QED BY <1>2, <1>3

\* No step brings a superseded occurrence without workers back.
LEMMA InertStep ==
  ASSUME TypeInv, SafeInv, NEW t \in Times, Inert(t), [Next]_vars
  PROVE  StaysInert(t)
<1>1. \A w \in Workers : worker[w].pc # "idle" => worker[w].occ # t
  BY DEF Inert, InFlight, Busy
<1>2. CASE Quiet
  BY <1>2, InertKept DEF Quiet, KeepsRows, KeepsWorkers, StaysInert
<1>3. CASE UpdateDisable \/ \E u \in 1..(MaxTime + 1) : UpdateActive(u)
  <2>1. Disabled.version = schedule.version /\ Disabled \in Schedules
    BY DEF TypeInv, TypeOK, Disabled, Schedules
  <2>2. UNCHANGED <<occ, scans, published, worker>>
          /\ schedule'.version = schedule.version + 1
    BY <1>3, <2>1 DEF UpdateDisable, UpdateActive, Schedules
  <2> QED BY <2>2, InertKept DEF StaysInert
<1>4. ASSUME NEW later \in 1..(MaxTime + 1), Claim(later) PROVE StaysInert(t)
  <2>1. occ'[t] = occ[t]
    BY <1>4 DEF Claim, TypeInv, TypeOK, Inert
  <2>2. schedule'.version = schedule.version /\ schedule'.active = schedule.active
    BY <1>4 DEF Claim, TypeInv, TypeOK, Schedules
  <2> QED BY <1>4, <2>1, <2>2, InertKept DEF Claim, StaysInert
<1>5. ASSUME NEW w \in Workers, NEW m \in queue, Begin(w, m)
      PROVE  StaysInert(t)
  <2>1. m.occ # t /\ m.occ \in Times
    BY <1>5 DEF Begin, Refused, Inert, TypeInv, TypeOK, Messages
  <2>2. occ'[t] = occ[t]
    BY <1>5, <2>1 DEF Begin, Save, TypeInv, TypeOK
  <2>3. \A v \in Workers : worker'[v].pc # "idle" /\ worker'[v].occ = t =>
            worker[v].pc # "idle" /\ worker[v].occ = t
    BY <1>5, <2>1 DEF Begin, TypeInv, TypeOK
  <2> QED BY <1>5, <2>2, <2>3, InertKept DEF Begin, StaysInert
<1>6. ASSUME NEW w \in Workers, Bind(w) \/ Persist(w) \/ Publish(w) \/ Record(w)
      PROVE  StaysInert(t)
  <2>1. worker[w].occ # t /\ worker[w].occ \in Times
    BY <1>1, <1>6 DEF Bind, Persist, Publish, Record, TypeInv, HoldsOccurrence,
      HoldersTyped, Busy
  <2>2. occ'[t] = occ[t] /\ scans'[t] = scans[t] /\ published'[t] = published[t]
          /\ schedule' = schedule
    BY <1>6, <2>1 DEF Bind, Persist, Publish, Record, Save, TypeInv, TypeOK
  <2>3. \A v \in Workers : worker'[v].occ = worker[v].occ
    <3>1. CASE Bind(w)
      <4>1. Bound(w) \in WorkerStates /\ Bound(w).occ = worker[w].occ
        BY DEF Bound, TypeInv, TypeOK, WorkerStates
      <4> QED BY <3>1, <4>1 DEF Bind, TypeInv, TypeOK, WorkerStates
    <3>2. CASE Persist(w) \/ Publish(w) \/ Record(w)
      BY <3>2, MovedFields DEF Persist, Publish, Record, Stages
    <3> QED BY <1>6, <3>1, <3>2
  <2>4. \A v \in Workers : worker'[v].pc # "idle" => worker[v].pc # "idle"
    BY <1>6 DEF Bind, Persist, Publish, Record, Advance, TypeInv, TypeOK
  <2> QED BY <2>2, <2>3, <2>4, InertKept DEF StaysInert
<1>7. CASE UNCHANGED vars
  BY <1>2, <1>7, UnchangedQuiet DEF vars, Quiet
<1> QED BY <1>2, <1>3, <1>4, <1>5, <1>6, <1>7, QuietDispatcher, QuietWorker,
           QuietWorld DEF Next

\* No message, retry, takeover or reactivation ever revives an occurrence whose
\* schedule moved on.
THEOREM SupersededStaysInert == Spec => SupersededIsInert
<1>1. TypeInv /\ SafeInv /\ [Next]_vars => [SupersededStep]_vars
  BY InertStep DEF Inert, StaysInert, SupersededStep
<1> QED BY <1>1, TypeInvariant, SafeInvariant, PTL DEF Spec, SupersededIsInert

-----------------------------------------------------------------------------
(* The ledger of attempts: each occurrence implements AttemptLedger.          *)

\* The attempts that may still publish a scanner task.
Opening(t) == {w \in Workers : worker[w].pc \in Early /\ worker[w].occ = t}

\* The row counts, a worker before its publication is open, the scanner tasks are
\* outside, and DISPATCHED says that there is one.
Ledger(t) == INSTANCE AttemptLedger WITH
               attempts <- occ[t].attempts,
               open <- Cardinality(Opening(t)),
               handed <- Cardinality(published[t]),
               confirmed <- (occ[t].status = "dispatched")

FewOpen == \A t \in Times : IsFiniteSet(Opening(t))

\* No two workers move in one step.
OneMoves == \A v, w \in Workers : v # w => worker'[v] = worker[v] \/ worker'[w] = worker[w]

\* What was published of an occurrence is counted by a number.
LEMMA PublishedCounted ==
  ASSUME TypeInv, NEW t \in Times
  PROVE  /\ IsFiniteSet(published[t])
         /\ Cardinality(published[t]) \in Nat
         /\ published[t] # {} => Cardinality(published[t]) > 0
<1>1. published[t] \subseteq 1..MaxAttempts
  BY DEF TypeInv, TypeOK
<1>2. IsFiniteSet(1..MaxAttempts)
  BY BoundsAssumption, FS_Interval
<1>3. IsFiniteSet(published[t])
  BY <1>1, <1>2, FS_Subset
<1>4. Cardinality(published[t]) \in Nat
      /\ (Cardinality(published[t]) = 0 <=> published[t] = {})
  BY <1>3, FS_CardinalityType, FS_EmptySet
<1> QED BY <1>3, <1>4

\* A step that leaves an occurrence's counters alone changes what its row says, or
\* nothing.
LEMMA RowSays ==
  ASSUME TypeInv', SafeInv', NEW t \in Times,
         published'[t] = published[t], Opening(t)' = Opening(t),
         occ'[t].attempts = occ[t].attempts
  PROVE  Ledger(t)!Next
<1>1. /\ Cardinality(Opening(t))' = Cardinality(Opening(t))
      /\ Cardinality(published[t])' = Cardinality(published[t])
  OBVIOUS
<1>2. CASE occ'[t].status = "dispatched"
  <2>1. published'[t] # {}
    BY <1>2 DEF SafeInv, DispatchedWasDelivered
  <2>2. Cardinality(published'[t]) > 0
    <3>1. /\ published'[t] \subseteq 1..MaxAttempts
          /\ IsFiniteSet(1..MaxAttempts)
      BY BoundsAssumption, FS_Interval DEF TypeInv, TypeOK
    <3>2. IsFiniteSet(published'[t])
      BY <3>1, FS_Subset
    <3> QED BY <2>1, <3>2, FS_CardinalityType, FS_EmptySet
  <2>3. Cardinality(published[t]) > 0
    BY <2>2
  <2> QED BY <1>1, <1>2, <2>3 DEF Ledger!Next, Ledger!Confirm
<1>3. CASE occ'[t].status # "dispatched"
  BY <1>1, <1>3 DEF Ledger!Next, Ledger!Retract
<1> QED BY <1>2, <1>3

\* One less is open.
LEMMA OpeningShrinks ==
  ASSUME FewOpen, NEW t \in Times, NEW w \in Opening(t), Opening(t)' = Opening(t) \ {w}
  PROVE  /\ Cardinality(Opening(t)) > 0
         /\ Cardinality(Opening(t))' = Cardinality(Opening(t)) - 1
<1>1. IsFiniteSet(Opening(t))
  BY DEF FewOpen
<1>2. /\ IsFiniteSet(Opening(t) \ {w})
      /\ Cardinality(Opening(t) \ {w}) = Cardinality(Opening(t)) - 1
  BY <1>1, FS_RemoveElement
<1>3. Cardinality(Opening(t)) \in Nat /\ Cardinality(Opening(t) \ {w}) \in Nat
  BY <1>1, <1>2, FS_CardinalityType
<1> QED BY <1>2, <1>3

\* A quiet step of one worker gives up an attempt at most.
LEMMA QuietInLedger ==
  ASSUME TypeInv', SafeInv', FewOpen, Quiet, OneMoves, NEW t \in Times
  PROVE  Ledger(t)!Next
<1>1. /\ published'[t] = published[t] /\ occ'[t].attempts = occ[t].attempts
      /\ occ'[t].status = "dispatched" => occ[t].status = "dispatched"
  BY DEF Quiet, KeepsRows
<1>2. Opening(t)' \subseteq Opening(t)
  BY DEF Quiet, KeepsWorkers, Opening, Early
<1>3. CASE Opening(t)' = Opening(t)
  BY <1>1, <1>3, RowSays
<1>4. CASE Opening(t)' # Opening(t)
  <2>1. PICK w \in Opening(t) : w \notin Opening(t)'
    BY <1>2, <1>4
  <2>2. worker'[w] # worker[w] /\ w \in Workers
    BY <2>1 DEF Opening
  <2>3. \A v \in Workers : v # w => worker'[v] = worker[v]
    BY <2>2 DEF OneMoves
  <2>4. Opening(t)' = Opening(t) \ {w}
    BY <1>2, <2>1, <2>3 DEF Opening
  <2>5. /\ Cardinality(Opening(t)) > 0
        /\ Cardinality(Opening(t))' = Cardinality(Opening(t)) - 1
    BY <2>1, <2>4, OpeningShrinks
  <2>6. (occ'[t].status = "dispatched") \in {occ[t].status = "dispatched", FALSE}
    BY <1>1
  <2> QED BY <1>1, <2>5, <2>6 DEF Ledger!Next, Ledger!Abandon
<1> QED BY <1>3, <1>4

\* Of the workers only the one whose step it is moves.
LEMMA OthersStay ==
  ASSUME TypeInv, NEW w \in Workers,
         \/ \E m \in queue : Receive(w, m) \/ ReceiveFails(w, m)
         \/ Work(w) \/ Raise(w) \/ Crash(w) \/ Redeliver(w)
  PROVE  \A v \in Workers : v # w => worker'[v] = worker[v]
<1>1. worker \in [Workers -> WorkerStates]
  BY DEF TypeInv, TypeOK
<1>2. ASSUME NEW m \in queue, Receive(w, m) \/ ReceiveFails(w, m)
      PROVE  \A v \in Workers : v # w => worker'[v] = worker[v]
  BY <1>1, <1>2 DEF Receive, Replay, Refuse, Begin, ReceiveFails
<1>3. CASE Work(w)
  BY <1>1, <1>3 DEF Work, Bind, BindingRefused, Persist, ContractChanged, Publish,
    NoDispatcher, Record, Audit, Block, Fail, Advance, Release
<1>4. CASE Raise(w) \/ Crash(w) \/ Redeliver(w)
  BY <1>1, <1>4 DEF Raise, Crash, Redeliver, Advance, Release
<1> QED BY <1>2, <1>3, <1>4

\* An attempt begins: it is counted, and may publish from now on.
LEMMA BeginInLedger ==
  ASSUME TypeInv, TypeInv', SafeInv, SafeInv', FewOpen, NEW t \in Times,
         NEW w \in Workers, NEW m \in queue, Begin(w, m)
  PROVE  Ledger(t)!Next
<1>1. worker[w].pc = "idle" /\ m.occ \in Times /\ occ[m.occ] \in Occurrences
  BY DEF Begin, Take, TypeInv, TypeOK, Messages
<1>2. /\ worker'[w].pc = "bind" /\ worker'[w].occ = m.occ
      /\ \A v \in Workers : v # w => worker'[v] = worker[v]
  BY DEF Begin, TypeInv, TypeOK
<1>3. UNCHANGED published
  BY DEF Begin
<1>4. /\ \A u \in Times : u # m.occ => occ'[u] = occ[u]
      /\ occ'[m.occ].attempts = occ[m.occ].attempts + 1
      /\ occ'[m.occ].status = "running"
  <2> DEFINE row == [WithStatus(m.occ, "running") EXCEPT !.attempts = @ + 1]
  <2>1. occ[m.occ].attempts \in Nat /\ occ[m.occ].attempts < MaxAttempts
    BY <1>1, BoundsAssumption DEF Begin, Refused, Exhausted, Occurrences
  <2>2. /\ WithStatus(m.occ, "running") \in Occurrences
        /\ WithStatus(m.occ, "running").attempts = occ[m.occ].attempts
        /\ WithStatus(m.occ, "running").status = "running"
    BY <1>1, StatusFields DEF Statuses
  <2>3. row \in Occurrences
    BY <2>1, <2>2, AttemptTyped
  <2>4. row.attempts = occ[m.occ].attempts + 1 /\ row.status = "running"
    BY <2>2 DEF Occurrences
  <2>5. Save(m.occ, row)
    BY DEF Begin
  <2> QED BY <1>1, <2>3, <2>4, <2>5, SaveFields
<1>5. CASE t = m.occ
  <2>1. occ[t].status # "dispatched"
    BY <1>5 DEF Begin, ReplayAnswer, SafeInv, DispatchedWasDelivered
  <2>2. Opening(t)' = Opening(t) \cup {w} /\ w \notin Opening(t)
    BY <1>1, <1>2, <1>5 DEF Opening, Early
  <2>3. Cardinality(Opening(t))' = Cardinality(Opening(t)) + 1
    BY <2>2, FS_AddElement DEF FewOpen
  <2>4. (occ'[t].status = "dispatched") = (occ[t].status = "dispatched")
    BY <1>4, <1>5, <2>1
  <2> QED BY <1>3, <1>4, <1>5, <2>1, <2>3, <2>4 DEF Ledger!Next, Ledger!Enter
<1>6. CASE t # m.occ
  <2>1. Opening(t)' = Opening(t)
    BY <1>1, <1>2, <1>6 DEF Opening, Early
  <2> QED BY <1>3, <1>4, <1>6, <2>1, RowSays
<1> QED BY <1>5, <1>6

\* A publication uses up the attempt: its number has not published before.
LEMMA PublishInLedger ==
  ASSUME TypeInv, TypeInv', SafeInv, SafeInv', FewOpen, NEW t \in Times,
         NEW w \in Workers, Publish(w)
  PROVE  Ledger(t)!Next
<1>1. worker[w].pc = "publish" /\ Busy(w) /\ worker[w].occ \in Times
  BY DEF Publish, Busy, TypeInv, HoldsOccurrence, HoldersTyped
<1>2. /\ worker'[w].pc = "record"
      /\ \A v \in Workers : v # w => worker'[v] = worker[v]
  BY MovedFields DEF Publish, Stages
<1>3. UNCHANGED occ
  BY DEF Publish
<1>4. \A u \in Times : published'[u] =
        IF u = worker[w].occ THEN published[u] \cup {worker[w].attempt} ELSE published[u]
  BY <1>1 DEF Publish, TypeInv, TypeOK
<1>5. CASE worker[w].occ = t
  <2>1. w \in Opening(t) /\ Opening(t)' = Opening(t) \ {w}
    BY <1>1, <1>2, <1>5 DEF Opening, Early
  <2>2. worker[w].attempt \notin published[t]
    BY <1>1, <1>5 DEF SafeInv, EachAttemptDeliversOnce
  <2>3. published'[t] = published[t] \cup {worker[w].attempt}
    BY <1>4, <1>5
  <2>4. Cardinality(published'[t]) = Cardinality(published[t]) + 1
    BY <2>2, <2>3, PublishedCounted, FS_AddElement
  <2>5. Cardinality(published[t])' = Cardinality(published[t]) + 1
    BY <2>4
  <2> QED BY <1>3, <2>1, <2>5, OpeningShrinks DEF Ledger!Next, Ledger!HandOver
<1>6. CASE worker[w].occ # t
  <2>1. Opening(t)' = Opening(t)
    BY <1>1, <1>2, <1>6 DEF Opening, Early
  <2> QED BY <1>3, <1>4, <1>6, <2>1, RowSays
<1> QED BY <1>5, <1>6

\* The other steps of a worker that the invariants notice touch no counter.
LEMMA LaterInLedger ==
  ASSUME TypeInv, TypeInv', SafeInv', NEW t \in Times, NEW w \in Workers,
         Bind(w) \/ Persist(w) \/ Record(w)
  PROVE  Ledger(t)!Next
<1>1. \A v \in Workers : v # w => worker'[v] = worker[v]
  BY OthersStay DEF Work
<1>2. published' = published
  BY DEF Bind, Persist, Record
<1>3. worker[w].occ \in Times
  BY DEF Bind, Persist, Record, TypeInv, HoldsOccurrence, HoldersTyped, Busy
<1>4. /\ worker'[w].occ = worker[w].occ
      /\ worker'[w].pc \in Early <=> worker[w].pc \in Early
  <2>1. CASE Bind(w)
    <3>1. Bound(w) \in WorkerStates /\ Bound(w).occ = worker[w].occ
      BY DEF Bound, TypeInv, TypeOK, WorkerStates
    <3> QED BY <2>1, <3>1 DEF Bind, TypeInv, TypeOK, WorkerStates, Early
  <2>2. CASE Persist(w) \/ Record(w)
    BY <2>2, MovedFields DEF Persist, Record, Stages, Early
  <2> QED BY <2>1, <2>2
<1>5. Opening(t)' = Opening(t)
  BY <1>1, <1>4 DEF Opening
<1>6. occ'[t].attempts = occ[t].attempts
  <2>1. CASE Bind(w)
    BY <2>1 DEF Bind
  <2>2. CASE Record(w)
    BY <1>3, <2>2, SaveFields, StatusFields DEF Record, Statuses
  <2>3. CASE Persist(w)
    <3> DEFINE o == occ[worker[w].occ]
    <3>1. o \in Occurrences /\ worker[w].auth \in Auths \cup {None}
      BY <1>3 DEF TypeInv, TypeOK, WorkerStates
    <3>2. Save(worker[w].occ, [o EXCEPT !.auth = worker[w].auth])
      BY <2>3 DEF Persist
    <3> HIDE DEF o
    <3>3. /\ [o EXCEPT !.auth = worker[w].auth] \in Occurrences
          /\ [o EXCEPT !.auth = worker[w].auth].attempts = o.attempts
      BY <3>1 DEF Occurrences
    <3>4. /\ \A u \in Times : u # worker[w].occ => occ'[u] = occ[u]
          /\ occ'[worker[w].occ].attempts = o.attempts
      BY <1>3, <3>2, <3>3, SaveFields
    <3> QED BY <3>4 DEF o
  <2> QED BY <2>1, <2>2, <2>3
<1> QED BY <1>2, <1>5, <1>6, RowSays

\* The steps that are neither a worker's nor the world's touch no counter.
LEMMA RowsInLedger ==
  ASSUME TypeInv, TypeInv', SafeInv, SafeInv', FewOpen, NEW t \in Times,
         \/ UpdateDisable \/ \E u \in 1..(MaxTime + 1) : UpdateActive(u)
         \/ DispatcherStep \/ UNCHANGED vars
  PROVE  Ledger(t)!Next /\ UNCHANGED worker
<1>1. UNCHANGED <<worker, published>>
  BY DEF UpdateDisable, UpdateActive, DispatcherStep, Claim, ClaimConflict,
    ClaimIncomplete, ClaimNothing, Collect, Send, SendFails, Note, NoteFails,
    DispatcherDone, vars
<1>2. occ'[t].attempts = occ[t].attempts
  <2>1. CASE UpdateDisable \/ UNCHANGED vars \/ \E u \in 1..(MaxTime + 1) : UpdateActive(u)
    BY <2>1 DEF UpdateDisable, UpdateActive, vars
  <2>2. ASSUME NEW later \in 1..(MaxTime + 1), Claim(later)
        PROVE  occ'[t].attempts = occ[t].attempts
    <3>1. occ' = [occ EXCEPT ![schedule.next] =
                    IF @.status = "none" THEN NewOccurrence ELSE @]
      BY <2>2 DEF Claim
    <3>2. occ'[t] = occ[t] \/ (occ[t].status = "none" /\ occ'[t] = NewOccurrence)
      BY <3>1 DEF TypeInv, TypeOK
    <3>3. occ[t].status = "none" => occ[t].attempts = 0
      BY DEF SafeInv, Support
    <3> QED BY <3>2, <3>3 DEF NewOccurrence
  <2>3. CASE Quiet
    BY <2>3 DEF Quiet, KeepsRows
  <2> QED BY <2>1, <2>2, <2>3, QuietDispatcher
<1>3. Opening(t)' = Opening(t)
  BY <1>1 DEF Opening
<1> QED BY <1>1, <1>2, <1>3, RowSays

\* A quiet step opens nothing, nor do the later steps of a worker.
LEMMA FewStayOpen ==
  TypeInv /\ TypeInv' /\ SafeInv /\ SafeInv' /\ FewOpen /\ [Next]_vars => FewOpen'
<1> SUFFICES ASSUME TypeInv, TypeInv', SafeInv, SafeInv', FewOpen, [Next]_vars, NEW t \in Times
             PROVE  IsFiniteSet(Opening(t)')
  BY DEF FewOpen
<1>1. IsFiniteSet(Opening(t))
  BY DEF FewOpen
<1>2. ASSUME NEW w \in Workers, \A v \in Workers : v # w => worker'[v] = worker[v]
      PROVE  IsFiniteSet(Opening(t)')
  <2>1. Opening(t)' \subseteq Opening(t) \cup {w}
    BY <1>2 DEF Opening
  <2>2. IsFiniteSet(Opening(t) \cup {w})
    BY <1>1, FS_AddElement
  <2> QED BY <2>1, <2>2, FS_Subset
<1>3. ASSUME UNCHANGED worker PROVE IsFiniteSet(Opening(t)')
  BY <1>1, <1>3 DEF Opening
<1>4. CASE \/ UpdateDisable \/ \E u \in 1..(MaxTime + 1) : UpdateActive(u)
           \/ DispatcherStep \/ UNCHANGED vars
  BY <1>3, <1>4, RowsInLedger
<1>5. ASSUME NEW w \in Workers,
             \/ \E m \in queue : Receive(w, m) \/ ReceiveFails(w, m)
             \/ Work(w) \/ Raise(w) \/ Crash(w) \/ Redeliver(w)
      PROVE  IsFiniteSet(Opening(t)')
  BY <1>2, <1>5, OthersStay
<1>6. CASE \/ DispatcherCrash \/ Tick \/ OwnerLeaves \/ Deploy
           \/ \E u \in Times : LeaseExpires(u)
           \/ \E a \in Auths \cup {None} : Reauthorize(a)
  BY <1>3, <1>6 DEF DispatcherCrash, Tick, OwnerLeaves, Deploy, LeaseExpires, Reauthorize
<1> QED BY <1>4, <1>5, <1>6 DEF Next, World

\* Every step is one of the ledger.
LEMMA LedgerStep ==
  ASSUME TypeInv, TypeInv', SafeInv, SafeInv', FewOpen, [Next]_vars, NEW t \in Times
  PROVE  Ledger(t)!Next
<1>1. CASE \/ UpdateDisable \/ \E u \in 1..(MaxTime + 1) : UpdateActive(u)
           \/ DispatcherStep \/ UNCHANGED vars
  BY <1>1, RowsInLedger
<1>2. ASSUME NEW w \in Workers, (\E m \in queue : Receive(w, m)) \/ Work(w)
      PROVE  Ledger(t)!Next
  <2>1. OneMoves
    BY <1>2, OthersStay DEF OneMoves
  <2> QED BY <1>2, <2>1, QuietWorker, QuietInLedger, BeginInLedger, PublishInLedger,
             LaterInLedger
<1>3. CASE World
  <2>1. OneMoves
    <3>1. ASSUME NEW w \in Workers,
                 (\E m \in queue : ReceiveFails(w, m)) \/ Raise(w) \/ Crash(w) \/ Redeliver(w)
          PROVE  OneMoves
      BY <3>1, OthersStay DEF OneMoves
    <3>2. CASE \/ DispatcherCrash \/ Tick \/ OwnerLeaves \/ Deploy
               \/ \E u \in Times : LeaseExpires(u)
               \/ \E a \in Auths \cup {None} : Reauthorize(a)
      BY <3>2 DEF DispatcherCrash, Tick, OwnerLeaves, Deploy, LeaseExpires, Reauthorize,
        OneMoves
    <3> QED BY <1>3, <3>1, <3>2 DEF World
  <2> QED BY <1>3, <2>1, QuietWorld, QuietInLedger
<1> QED BY <1>1, <1>2, <1>3 DEF Next

LEMMA LedgerInit ==
  ASSUME Init
  PROVE  FewOpen /\ \A t \in Times : Ledger(t)!Init
<1> SUFFICES ASSUME NEW t \in Times PROVE IsFiniteSet(Opening(t)) /\ Ledger(t)!Init
  BY DEF FewOpen
<1>1. Opening(t) = {}
  BY DEF Init, IdleWorker, Opening, Early
<1>2. published[t] = {} /\ occ[t] = NoOccurrence
  BY DEF Init
<1>3. /\ IsFiniteSet(Opening(t)) /\ Cardinality(Opening(t)) = 0
      /\ Cardinality(published[t]) = 0
  BY <1>1, <1>2, FS_EmptySet
<1>4. occ[t].attempts = 0 /\ (occ[t].status = "dispatched") = FALSE
  BY <1>2 DEF NoOccurrence
<1> QED BY <1>3, <1>4 DEF Ledger!Init

\* Every occurrence of a scheduled scan implements AttemptLedger: an attempt is counted
\* in the first transaction, before its scanner task is published, whatever leases run
\* out, workers take over, exceptions or crashes come between; DISPATCHED rests on a
\* publication, and an occurrence that is DISPATCHED is not attempted again
\* (scheduled_execution.py:645-689, 799-842, 877-883).
THEOREM OccurrencesKeepLedger ==
  ASSUME NEW t \in Times
  PROVE  Spec => Ledger(t)!Spec
<1>1. Init => FewOpen /\ Ledger(t)!Init
  BY LedgerInit
<1>2. TypeInv /\ TypeInv' /\ SafeInv /\ SafeInv' /\ FewOpen /\ [Next]_vars => FewOpen'
  BY FewStayOpen
<1>3. TypeInv /\ TypeInv' /\ SafeInv /\ SafeInv' /\ FewOpen /\ [Next]_vars
        => [Ledger(t)!Next]_(Ledger(t)!ledgerVars)
  BY LedgerStep
<1> QED BY <1>1, <1>2, <1>3, TypeInvariant, SafeInvariant, PTL DEF Spec, Ledger!Spec

=============================================================================
