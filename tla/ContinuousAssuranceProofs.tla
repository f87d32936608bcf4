----------------------- MODULE ContinuousAssuranceProofs -----------------------
(***************************************************************************)
(* Theorems about ContinuousAssurance, for any number of workers, instants, *)
(* deliveries and occurrences.                                              *)
(*                                                                          *)
(* An attempt is spent before its task is published, and the worker in      *)
(* between owns it; an occurrence that completed has a Scan, which is what  *)
(* answers the deliveries that come after it.                               *)
(***************************************************************************)
EXTENDS ContinuousAssurance, FiniteSetTheorems, TLAPS

Rows == [status : Statuses, attempts : 0..MaxTaken]
WorkerRecords == [at : {"idle", "publish", "mark", "handle"}, occ : Occurrences]
SenderRecords == [at : {"idle", "send", "handle"}, occ : Occurrences]

\* What the dispatcher holds is a scheduled instant, to which next_run may go back.
BeatTyped == sender["beat"].at # "idle" => sender["beat"].occ \in Times

TypeInv == TypeOK /\ BeatTyped

-----------------------------------------------------------------------------
(* Types.                                                                   *)

LEMMA Bounds ==
    /\ MaxTime \in Nat /\ MaxTaken \in Nat
    /\ Times \subseteq Occurrences /\ Manual \in Occurrences
    /\ \A t \in Times : t \in Nat /\ t >= 1 /\ t <= MaxTime /\ t \in 1..(MaxTime + 1)
BY BoundsAssumption DEF Times, Occurrences, Manual

LEMMA InitTyped == Init => TypeInv
<1> SUFFICES ASSUME Init PROVE TypeInv
  OBVIOUS
<1>1. now \in 0..MaxTime
  BY Bounds DEF Init
<1>2. schedule \in [enabled : BOOLEAN, bound : BOOLEAN, next : 1..(MaxTime + 1)]
  <2>1. 1 \in 1..(MaxTime + 1)
    BY Bounds
  <2>2. schedule.next = 1
    BY DEF Init
  <2> QED
    BY <2>1, <2>2 DEF Init
<1>3. occ \in [Occurrences -> [status : Statuses, attempts : 0..MaxTaken]]
  BY Bounds DEF Init, Statuses
<1>4. scan \in [Occurrences -> ScanStatuses]
  BY DEF Init, ScanStatuses
<1>5. /\ sender \in [Senders -> [at : {"idle", "send", "handle"}, occ : Occurrences]]
      /\ worker \in [Workers -> [at : {"idle", "publish", "mark", "handle"}, occ : Occurrences]]
      /\ sender["beat"].at = "idle"
  BY Bounds DEF Init, Idle, Senders
<1> QED
  BY <1>1, <1>2, <1>3, <1>4, <1>5 DEF Init, TypeInv, TypeOK, BeatTyped

LEMMA PutTyped ==
    ASSUME TypeOK, NEW t \in Occurrences, NEW status \in Statuses, Put(t, status)
    PROVE  /\ occ' \in [Occurrences -> Rows]
           /\ occ'[t].status = status
           /\ \A u \in Occurrences : occ'[u].attempts = occ[u].attempts
           /\ \A u \in Occurrences : u # t => occ'[u] = occ[u]
BY DEF TypeOK, Put, Rows

LEMMA GotoTyped ==
    ASSUME TypeOK, NEW w \in Workers, NEW t \in Occurrences,
           NEW step \in {"idle", "publish", "mark", "handle"}, Goto(w, step, t)
    PROVE  /\ worker' \in [Workers -> WorkerRecords]
           /\ worker'[w] = [at |-> step, occ |-> t]
           /\ \A v \in Workers : v # w => worker'[v] = worker[v]
BY DEF TypeOK, Goto, WorkerRecords

LEMMA LeaveTyped ==
    ASSUME TypeOK, NEW w \in Workers, Leave(w)
    PROVE  /\ worker' \in [Workers -> WorkerRecords]
           /\ worker'[w].at = "idle"
           /\ \A v \in Workers : v # w => worker'[v] = worker[v]
BY Bounds DEF TypeOK, Leave, Idle, WorkerRecords

\* A sender that turns to occurrence t, or to none.
LEMMA SenderTyped ==
    ASSUME TypeOK, BeatTyped, NEW s \in Senders, NEW t \in Occurrences,
           s = "beat" => t \in Times,
           \/ \E step \in {"send", "handle"} :
                sender' = [sender EXCEPT ![s] = [at |-> step, occ |-> t]]
           \/ sender' = [sender EXCEPT ![s] = Idle]
    PROVE  sender' \in [Senders -> SenderRecords] /\ BeatTyped'
<1>1. Idle \in SenderRecords /\ Idle.at = "idle"
  BY Bounds DEF Idle, SenderRecords
<1>2. \A step \in {"send", "handle"} : [at |-> step, occ |-> t] \in SenderRecords
  BY DEF SenderRecords
<1>3. sender \in [Senders -> SenderRecords] /\ "beat" \in Senders
  BY DEF TypeOK, SenderRecords, Senders
<1>4. sender' \in [Senders -> SenderRecords]
  BY <1>1, <1>2, <1>3
<1>5. BeatTyped'
  <2>1. CASE s = "beat"
    BY <1>1, <1>3, <2>1 DEF BeatTyped
  <2>2. CASE s # "beat"
    BY <1>3, <2>2 DEF BeatTyped
  <2> QED
    BY <2>1, <2>2
<1> QED
  BY <1>4, <1>5

LEMMA ClaimedTyped ==
    ASSUME TypeOK, NEW t \in Occurrences, Claimed(t)
    PROVE  /\ occ' \in [Occurrences -> Rows]
           /\ \A u \in Occurrences : occ'[u].attempts = occ[u].attempts
           /\ \A u \in Occurrences : occ[u].status # "absent" => occ'[u] = occ[u]
           /\ \A u \in Occurrences : occ'[u].status = "completed" => occ[u].status = "completed"
<1>1. CASE occ[t].status = "absent"
  <2>1. "pending" \in Statuses /\ Put(t, "pending")
    BY <1>1 DEF Statuses, Claimed
  <2> QED
    BY <1>1, <2>1, PutTyped
<1>2. CASE occ[t].status # "absent"
  BY <1>2 DEF Claimed, TypeOK, Rows
<1> QED
  BY <1>1, <1>2

LEMMA ClaimTyped ==
    ASSUME TypeInv, Claim \/ ClaimUnbound \/ ClaimManual
    PROVE  TypeInv'
<1>1. CASE Claim
  <2>1. schedule.next \in Times
    BY <1>1, Bounds DEF Claim, Due, TypeInv, TypeOK, Times
  <2>2. sender' \in [Senders -> SenderRecords] /\ BeatTyped'
    BY <1>1, <2>1, Bounds, SenderTyped DEF Claim, ToSend, Sendable, TypeInv, Senders
  <2>3. now + 1 \in 1..(MaxTime + 1)
    BY Bounds DEF TypeInv, TypeOK
  <2>4. schedule' \in [enabled : BOOLEAN, bound : BOOLEAN, next : 1..(MaxTime + 1)]
    BY <1>1, <2>3 DEF Claim, TypeInv, TypeOK
  <2> QED
    BY <1>1, <2>1, <2>2, <2>4, Bounds, ClaimedTyped DEF Claim, TypeInv, TypeOK, Rows, SenderRecords
<1>2. CASE ClaimUnbound
  BY <1>2 DEF ClaimUnbound, TypeInv, TypeOK, BeatTyped
<1>3. CASE ClaimManual
  <2>1. sender' \in [Senders -> SenderRecords] /\ BeatTyped'
    BY <1>3, Bounds, SenderTyped DEF ClaimManual, ToSend, Sendable, TypeInv, Senders
  <2> QED
    BY <1>3, <2>1, Bounds, ClaimedTyped DEF ClaimManual, TypeInv, TypeOK, Rows, SenderRecords
<1> QED
  BY <1>1, <1>2, <1>3

LEMMA SenderStepTyped ==
    ASSUME TypeInv, NEW s \in Senders, SenderStep(s) \/ SenderDies(s)
    PROVE  TypeInv'
<1>1. sender[s].occ \in Occurrences /\ "beat" \in Senders
  BY DEF TypeInv, TypeOK, Senders
<1>2. ASSUME Send(s) PROVE TypeInv'
  <2>1. s = "beat" => sender[s].occ \in Times
    BY <1>2 DEF Send, TypeInv, BeatTyped
  <2>2. sender' \in [Senders -> SenderRecords] /\ BeatTyped'
    BY <1>1, <1>2, <2>1, SenderTyped DEF Send, TypeInv
  <2> QED
    BY <1>1, <1>2, <2>2 DEF Send, TypeInv, TypeOK, SenderRecords, rows
<1>3. ASSUME SendRaises(s) PROVE TypeInv'
  <2>1. s = "beat" => sender[s].occ \in Times
    BY <1>3 DEF SendRaises, TypeInv, BeatTyped
  <2>2. CASE s = "beat"
    <3>1. sender' = [sender EXCEPT !["beat"] = [at |-> "handle", occ |-> sender[s].occ]]
      BY <1>3, <2>2 DEF SendRaises, TypeInv, TypeOK
    <3>2. sender' \in [Senders -> SenderRecords] /\ BeatTyped'
      BY <1>1, <2>1, <2>2, <3>1, SenderTyped DEF TypeInv
    <3> QED
      BY <1>1, <1>3, <3>2 DEF SendRaises, TypeInv, TypeOK, SenderRecords, rows
  <2>3. CASE s # "beat"
    <3>1. sender' = [sender EXCEPT ![s] = Idle]
      BY <1>3, <2>3 DEF SendRaises
    <3>2. sender' \in [Senders -> SenderRecords] /\ BeatTyped'
      BY <1>1, <2>1, <3>1, SenderTyped DEF TypeInv
    <3> QED
      BY <1>1, <1>3, <3>2 DEF SendRaises, TypeInv, TypeOK, SenderRecords, rows
  <2> QED
    BY <2>2, <2>3
<1>4. ASSUME HandleSend PROVE TypeInv'
  <2> DEFINE t == sender["beat"].occ
  <2>1. t \in Times
    BY <1>4 DEF HandleSend, TypeInv, BeatTyped
  <2>2. sender' \in [Senders -> SenderRecords] /\ BeatTyped'
    BY <1>1, <1>4, <2>1, Bounds, SenderTyped DEF HandleSend, TypeInv
  <2>3. occ' \in [Occurrences -> Rows]
    <3>1. "failed" \in Statuses
      BY DEF Statuses
    <3> QED
      BY <1>4, <2>1, <3>1, Bounds, PutTyped DEF HandleSend, TypeInv
  <2>4. schedule' \in [enabled : BOOLEAN, bound : BOOLEAN, next : 1..(MaxTime + 1)]
    BY <1>4, <2>1, Bounds DEF HandleSend, TypeInv, TypeOK
  <2> QED
    BY <1>4, <2>2, <2>3, <2>4 DEF HandleSend, TypeInv, TypeOK, SenderRecords, Rows
<1>5. ASSUME SenderDies(s) PROVE TypeInv'
  <2>1. s = "beat" => sender[s].occ \in Times
    BY <1>5 DEF SenderDies, TypeInv, BeatTyped
  <2>2. sender' \in [Senders -> SenderRecords] /\ BeatTyped'
    BY <1>1, <1>5, <2>1, SenderTyped DEF SenderDies, TypeInv
  <2> QED
    BY <1>1, <1>5, <2>2 DEF SenderDies, TypeInv, TypeOK, SenderRecords, rows
<1> QED
  BY <1>2, <1>3, <1>4, <1>5 DEF SenderStep

LEMMA BeginTyped ==
    ASSUME TypeInv, NEW w \in Workers, NEW t \in Occurrences, Begin(w, t)
    PROVE  /\ TypeInv'
           /\ occ'[t].attempts = occ[t].attempts + 1 /\ occ'[t].status = "running"
           /\ \A u \in Occurrences : u # t => occ'[u] = occ[u]
<1>1. occ[t].attempts + 1 \in 0..MaxTaken
  BY Bounds DEF Begin, TypeInv, TypeOK
<1>2. /\ occ' \in [Occurrences -> Rows]
      /\ occ'[t].attempts = occ[t].attempts + 1 /\ occ'[t].status = "running"
      /\ \A u \in Occurrences : u # t => occ'[u] = occ[u]
  BY <1>1 DEF Begin, TypeInv, TypeOK, Rows, Statuses
<1>3. scan' \in [Occurrences -> ScanStatuses]
  BY DEF Begin, TypeInv, TypeOK, ScanStatuses
<1>4. worker' \in [Workers -> WorkerRecords]
  BY GotoTyped DEF Begin, TypeInv
<1> QED
  BY <1>2, <1>3, <1>4 DEF Begin, Receives, TypeInv, TypeOK, BeatTyped, Rows, WorkerRecords

LEMMA ReceiveTyped ==
    ASSUME TypeInv, NEW t \in Occurrences, NEW w \in Workers,
           Replay(w, t) \/ Block(w, t) \/ Begin(w, t) \/ BeginRaises(w, t)
    PROVE  TypeInv'
<1>1. ASSUME Replay(w, t) PROVE TypeInv'
  BY <1>1 DEF Replay, Receives, TypeInv, TypeOK, BeatTyped, rows
<1>2. ASSUME Block(w, t) PROVE TypeInv'
  <2>1. occ[t].attempts + 1 \in 0..MaxTaken
    BY <1>2, Bounds DEF Block, TypeInv, TypeOK
  <2>2. occ' \in [Occurrences -> Rows]
    BY <1>2, <2>1 DEF Block, TypeInv, TypeOK, Rows, Statuses
  <2> QED
    BY <1>2, <2>2 DEF Block, Receives, TypeInv, TypeOK, BeatTyped, Rows
<1>3. ASSUME BeginRaises(w, t) PROVE TypeInv'
  BY <1>3 DEF BeginRaises, Receives, TypeInv, TypeOK, BeatTyped, rows
<1> QED
  BY <1>1, <1>2, <1>3, BeginTyped

LEMMA WorkTyped ==
    ASSUME TypeInv, NEW w \in Workers, Work(w) \/ Crash(w) \/ Redeliver(w)
    PROVE  TypeInv'
<1> DEFINE t == worker[w].occ
<1>1. t \in Occurrences
  BY DEF TypeInv, TypeOK
<1>2. \A u \in Occurrences : [published EXCEPT ![t] = @ + 1] \in [Occurrences -> Nat]
  BY <1>1 DEF TypeInv, TypeOK
<1>3. ASSUME Publish(w) PROVE TypeInv'
  <2>1. worker' \in [Workers -> WorkerRecords]
    BY <1>1, <1>3, GotoTyped DEF Publish, TypeInv
  <2> QED
    BY <1>1, <1>2, <1>3, <2>1 DEF Publish, TypeInv, TypeOK, BeatTyped, WorkerRecords, rows
<1>4. ASSUME PublishRaises(w) PROVE TypeInv'
  <2>1. worker' \in [Workers -> WorkerRecords]
    BY <1>1, <1>4, GotoTyped DEF PublishRaises, TypeInv
  <2> QED
    BY <1>1, <1>2, <1>4, <2>1 DEF PublishRaises, TypeInv, TypeOK, BeatTyped, WorkerRecords, rows
<1>5. ASSUME HandlePublish(w) PROVE TypeInv'
  <2>1. occ' \in [Occurrences -> Rows]
    <3>1. "failed" \in Statuses
      BY DEF Statuses
    <3> QED
      BY <1>1, <1>5, <3>1, PutTyped DEF HandlePublish, TypeInv
  <2>2. scan' \in [Occurrences -> ScanStatuses]
    BY <1>5 DEF HandlePublish, TypeInv, TypeOK, ScanStatuses
  <2> QED
    BY <1>5, <2>1, <2>2, LeaveTyped
    DEF HandlePublish, TypeInv, TypeOK, BeatTyped, Rows, WorkerRecords
<1>6. ASSUME Mark(w) PROVE TypeInv'
  <2>1. occ' \in [Occurrences -> Rows]
    <3>1. "queued" \in Statuses
      BY DEF Statuses
    <3> QED
      BY <1>1, <1>6, <3>1, PutTyped DEF Mark, TypeInv, TypeOK, Rows
  <2> QED
    BY <1>6, <2>1, LeaveTyped DEF Mark, TypeInv, TypeOK, BeatTyped, Rows, WorkerRecords
<1>7. ASSUME Crash(w) PROVE TypeInv'
  BY <1>1, <1>7, LeaveTyped DEF Crash, TypeInv, TypeOK, BeatTyped, WorkerRecords, rows
<1>8. ASSUME Redeliver(w) PROVE TypeInv'
  BY <1>1, <1>8 DEF Redeliver, TypeInv, TypeOK, BeatTyped, rows
<1> QED
  BY <1>3, <1>4, <1>5, <1>6, <1>7, <1>8 DEF Work

LEMMA FinalizeTyped ==
    ASSUME TypeOK, NEW t \in Occurrences, NEW outcome, Finalize(t, outcome)
    PROVE  /\ occ' \in [Occurrences -> Rows]
           /\ \A u \in Occurrences : occ'[u].attempts = occ[u].attempts
           /\ \A u \in Occurrences :
                occ[u].status \in {"completed", "blocked"} => occ'[u] = occ[u]
           /\ \A u \in Occurrences :
                occ'[u].status = "completed" =>
                    occ[u].status = "completed" \/ (u = t /\ outcome = "done")
<1>1. "completed" \in Statuses /\ "failed" \in Statuses
  BY DEF Statuses
<1>2. CASE occ[t].status \in {"pending", "running", "queued"} /\ outcome = "done"
  BY <1>1, <1>2, PutTyped DEF Finalize
<1>3. CASE occ[t].status \in {"pending", "running", "queued"} /\ outcome # "done"
  BY <1>1, <1>3, PutTyped DEF Finalize
<1>4. CASE occ[t].status \notin {"pending", "running", "queued"}
  BY <1>4 DEF Finalize, TypeOK, Rows
<1> QED
  BY <1>2, <1>3, <1>4

LEMMA ScanTyped ==
    ASSUME TypeInv, NEW t \in Occurrences, ScanStep(t)
    PROVE  TypeInv'
<1>1. ASSUME ScanReopens(t) PROVE TypeInv'
  BY <1>1 DEF ScanReopens, TypeInv, TypeOK, BeatTyped, ScanStatuses, rows
<1>2. ASSUME ScanCompletes(t) PROVE TypeInv'
  BY <1>2, FinalizeTyped DEF ScanCompletes, TypeInv, TypeOK, BeatTyped, ScanStatuses, Rows
<1>3. ASSUME ScanFails(t) PROVE TypeInv'
  BY <1>3 DEF ScanFails, TypeInv, TypeOK, BeatTyped, ScanStatuses, rows
<1>4. ASSUME ScanCancelled(t) PROVE TypeInv'
  BY <1>4, FinalizeTyped DEF ScanCancelled, TypeInv, TypeOK, BeatTyped, ScanStatuses, Rows
<1>5. ASSUME SignalRuns(t) PROVE TypeInv'
  BY <1>5, FinalizeTyped DEF SignalRuns, TypeInv, TypeOK, BeatTyped, Rows
<1>6. ASSUME SignalLost(t) PROVE TypeInv'
  BY <1>6 DEF SignalLost, TypeInv, TypeOK, BeatTyped, rows
<1> QED
  BY <1>1, <1>2, <1>3, <1>4, <1>5, <1>6 DEF ScanStep, ScanEnds

LEMMA TypeStep == TypeInv /\ [Next]_vars => TypeInv'
<1> SUFFICES ASSUME TypeInv, [Next]_vars PROVE TypeInv'
  OBVIOUS
<1>1. ASSUME Tick PROVE TypeInv'
  BY <1>1, Bounds DEF Tick, TypeInv, TypeOK, BeatTyped
<1>2. CASE UNCHANGED vars
  BY <1>2 DEF vars, TypeInv, TypeOK, BeatTyped
<1> QED
  BY <1>1, <1>2, ClaimTyped, SenderStepTyped, WorkTyped, ReceiveTyped, ScanTyped DEF Next, Receive

\* Rows, schedule, messages, workers and senders stay well typed; next_run stays in
\* the scheduled range although a failed send moves it back (enterprise/tasks.py:389-541).
THEOREM TypeCorrect == Spec => []TypeOK
<1>1. Init => TypeInv
  BY InitTyped
<1>2. TypeInv /\ [Next]_vars => TypeInv'
  BY TypeStep
<1>3. TypeInv => TypeOK
  BY DEF TypeInv
<1> QED
  BY <1>1, <1>2, <1>3, PTL DEF Spec

-----------------------------------------------------------------------------
(* Attempts and outcomes.                                                   *)

Support ==
    /\ \A t \in Occurrences : IsFiniteSet(Publishing(t))
    /\ \A t \in scanned : scan[t] # "none"

Inv == TypeInv /\ EachAttemptPublishesOnce /\ CompletedWasScanned /\ Support

LEMMA InitInv == Init => Inv
<1> SUFFICES ASSUME Init PROVE Inv
  OBVIOUS
<1>1. \A t \in Occurrences : Publishing(t) = {}
  BY DEF Init, Idle, Publishing
<1>2. \A t \in Occurrences : IsFiniteSet(Publishing(t)) /\ Cardinality(Publishing(t)) = 0
  BY <1>1, FS_EmptySet
<1>3. EachAttemptPublishesOnce
  BY <1>2 DEF Init, EachAttemptPublishesOnce
<1> QED
  BY <1>2, <1>3, InitTyped DEF Init, Inv, CompletedWasScanned, Support

\* Steps that publish nothing, take no attempt back and make nobody about to publish.
LEMMA AttemptsKept ==
    ASSUME Inv, TypeInv', published' = published,
           \A t \in Occurrences : occ'[t].attempts >= occ[t].attempts,
           \A v \in Workers : worker'[v].at = "publish" => worker'[v] = worker[v]
    PROVE  /\ EachAttemptPublishesOnce'
           /\ \A t \in Occurrences : IsFiniteSet(Publishing(t))'
<1> SUFFICES ASSUME NEW t \in Occurrences
             PROVE  /\ published'[t] + Cardinality(Publishing(t)') <= occ'[t].attempts
                    /\ IsFiniteSet(Publishing(t)')
  BY DEF EachAttemptPublishesOnce
<1>1. Publishing(t)' \in SUBSET Publishing(t)
  BY DEF Publishing
<1>2. /\ IsFiniteSet(Publishing(t)')
      /\ Cardinality(Publishing(t)') <= Cardinality(Publishing(t))
  BY <1>1, FS_Subset DEF Inv, Support
<1>3. Cardinality(Publishing(t)) \in Nat /\ Cardinality(Publishing(t)') \in Nat
  BY <1>2, FS_CardinalityType DEF Inv, Support
<1>4. published[t] \in Nat /\ occ[t].attempts \in Nat /\ occ'[t].attempts \in Nat
  BY Bounds DEF Inv, TypeInv, TypeOK
<1> QED
  BY <1>2, <1>3, <1>4 DEF Inv, EachAttemptPublishesOnce

\* What no step but a completion says, and no step but Begin does to a Scan.
LEMMA OutcomesKept ==
    ASSUME Inv, TypeInv', scanned' = scanned,
           \A t \in Occurrences : occ'[t].status = "completed" => occ[t].status = "completed",
           \A t \in Occurrences : scan[t] # "none" => scan'[t] # "none"
    PROVE  CompletedWasScanned' /\ \A t \in scanned' : scan'[t] # "none"
BY DEF Inv, TypeInv, TypeOK, CompletedWasScanned, Support

LEMMA BeginInv ==
    ASSUME Inv, NEW w \in Workers, NEW t \in Occurrences, Begin(w, t)
    PROVE  Inv'
<1>1. /\ TypeInv' /\ occ'[t].attempts = occ[t].attempts + 1 /\ occ'[t].status = "running"
      /\ \A u \in Occurrences : u # t => occ'[u] = occ[u]
  BY BeginTyped DEF Inv
<1>2. /\ worker[w].at = "idle" /\ worker'[w] = [at |-> "publish", occ |-> t]
      /\ \A v \in Workers : v # w => worker'[v] = worker[v]
  BY GotoTyped DEF Begin, Receives, Inv, TypeInv
<1>3. published' = published /\ scanned' = scanned
  BY DEF Begin
<1>4. ASSUME NEW u \in Occurrences
      PROVE  /\ published'[u] + Cardinality(Publishing(u)') <= occ'[u].attempts
             /\ IsFiniteSet(Publishing(u)')
  <2>1. IsFiniteSet(Publishing(u)) /\ Cardinality(Publishing(u)) \in Nat
    BY FS_CardinalityType DEF Inv, Support
  <2>2. published[u] \in Nat /\ occ[u].attempts \in Nat
    BY Bounds DEF Inv, TypeInv, TypeOK
  <2>3. published[u] + Cardinality(Publishing(u)) <= occ[u].attempts
    BY DEF Inv, EachAttemptPublishesOnce
  <2>4. CASE u = t
    <3>1. Publishing(u)' = Publishing(u) \cup {w} /\ w \notin Publishing(u)
      BY <1>2, <2>4 DEF Publishing
    <3>2. /\ IsFiniteSet(Publishing(u)')
          /\ Cardinality(Publishing(u)') = Cardinality(Publishing(u)) + 1
      BY <2>1, <3>1, FS_AddElement
    <3> QED
      BY <1>1, <1>3, <2>1, <2>2, <2>3, <2>4, <3>2
  <2>5. CASE u # t
    <3>1. Publishing(u)' = Publishing(u)
      BY <1>2, <2>5 DEF Publishing
    <3> QED
      BY <1>1, <1>3, <2>1, <2>3, <2>5, <3>1
  <2> QED
    BY <2>4, <2>5
<1>5. \A u \in Occurrences : occ'[u].status = "completed" => occ[u].status = "completed"
  BY <1>1
<1>6. \A u \in Occurrences : scan[u] # "none" => scan'[u] # "none"
  BY DEF Begin, Inv, TypeInv, TypeOK
<1>7. CompletedWasScanned' /\ \A u \in scanned' : scan'[u] # "none"
  BY <1>1, <1>3, <1>5, <1>6, OutcomesKept
<1> QED
  BY <1>1, <1>4, <1>7 DEF Inv, Support, EachAttemptPublishesOnce

\* A worker that publishes, whether or not it learns of it.
LEMMA PublishInv ==
    ASSUME Inv, NEW w \in Workers, Publish(w) \/ PublishRaises(w)
    PROVE  Inv'
<1> DEFINE t == worker[w].occ
<1>1. TypeInv' /\ t \in Occurrences
  BY WorkTyped DEF Work, Inv, TypeInv, TypeOK
<1>2. PICK step \in {"mark", "handle"} : Goto(w, step, t)
  BY DEF Publish, PublishRaises
<1>3. /\ worker[w].at = "publish" /\ worker'[w] = [at |-> step, occ |-> t]
      /\ \A v \in Workers : v # w => worker'[v] = worker[v]
  BY <1>1, <1>2, GotoTyped DEF Publish, PublishRaises, Inv, TypeInv
<1>4. UNCHANGED <<occ, scan, scanned>>
  BY DEF Publish, PublishRaises, rows
<1>5. ASSUME NEW u \in Occurrences
      PROVE  /\ published'[u] + Cardinality(Publishing(u)') <= occ'[u].attempts
             /\ IsFiniteSet(Publishing(u)')
  <2>1. IsFiniteSet(Publishing(u)) /\ Cardinality(Publishing(u)) \in Nat
    BY FS_CardinalityType DEF Inv, Support
  <2>2. published[u] \in Nat /\ occ[u].attempts \in Nat
    BY Bounds DEF Inv, TypeInv, TypeOK
  <2>3. published[u] + Cardinality(Publishing(u)) <= occ[u].attempts
    BY DEF Inv, EachAttemptPublishesOnce
  <2>4. CASE u = t
    <3>1. Publishing(u)' = Publishing(u) \ {w} /\ w \in Publishing(u)
      BY <1>3, <2>4 DEF Publishing
    <3>2. /\ IsFiniteSet(Publishing(u)')
          /\ Cardinality(Publishing(u)') = Cardinality(Publishing(u)) - 1
      BY <2>1, <3>1, FS_RemoveElement
    <3>3. published'[u] = published[u] \/ published'[u] = published[u] + 1
      BY <2>4 DEF Publish, PublishRaises, Inv, TypeInv, TypeOK
    <3> QED
      BY <1>4, <2>1, <2>2, <2>3, <3>2, <3>3
  <2>5. CASE u # t
    <3>1. Publishing(u)' = Publishing(u)
      BY <1>3, <2>5 DEF Publishing
    <3>2. published'[u] = published[u]
      BY <2>5 DEF Publish, PublishRaises, Inv, TypeInv, TypeOK
    <3> QED
      BY <1>4, <2>1, <2>3, <3>1, <3>2
  <2> QED
    BY <2>4, <2>5
<1>6. CompletedWasScanned' /\ \A u \in scanned' : scan'[u] # "none"
  BY <1>1, <1>4, OutcomesKept
<1> QED
  BY <1>1, <1>5, <1>6 DEF Inv, Support, EachAttemptPublishesOnce

\* All other steps, but for the completion of a scan.
LEMMA QuietInv ==
    ASSUME Inv, TypeInv', published' = published, scanned' = scanned,
           \A t \in Occurrences : occ'[t].attempts >= occ[t].attempts,
           \A t \in Occurrences : occ'[t].status = "completed" => occ[t].status = "completed",
           \A t \in Occurrences : scan[t] # "none" => scan'[t] # "none",
           \A v \in Workers : worker'[v].at = "publish" => worker'[v] = worker[v]
    PROVE  Inv'
BY AttemptsKept, OutcomesKept DEF Inv, Support

LEMMA SenderInv ==
    ASSUME Inv,
           \/ Claim \/ ClaimUnbound \/ ClaimManual
           \/ \E s \in Senders : SenderStep(s) \/ SenderDies(s)
    PROVE  Inv'
<1>1. TypeInv' /\ TypeInv
  BY ClaimTyped, SenderStepTyped DEF Inv
<1>2. UNCHANGED <<published, scanned, scan, worker>>
  BY DEF Claim, ClaimUnbound, ClaimManual, SenderStep, Send, SendRaises, HandleSend, SenderDies
<1>3. \A t \in Occurrences :
        /\ occ'[t].attempts = occ[t].attempts
        /\ occ'[t].status = "completed" => occ[t].status = "completed"
  <2>1. CASE Claim
    <3>1. schedule.next \in Occurrences
      BY <1>1, <2>1, Bounds DEF Claim, Due, TypeInv, TypeOK, Times
    <3> QED
      BY <1>1, <2>1, <3>1, ClaimedTyped DEF Claim, TypeInv
  <2>2. CASE ClaimManual
    BY <1>1, <2>2, Bounds, ClaimedTyped DEF ClaimManual, TypeInv
  <2>3. CASE HandleSend
    <3>1. sender["beat"].occ \in Occurrences /\ "failed" \in Statuses
      BY <1>1 DEF TypeInv, TypeOK, Senders, Statuses
    <3> QED
      BY <1>1, <2>3, <3>1, PutTyped DEF HandleSend, TypeInv
  <2>4. CASE occ' = occ
    BY <2>4
  <2> QED
    BY <2>1, <2>2, <2>3, <2>4 DEF ClaimUnbound, SenderStep, Send, SendRaises, SenderDies, rows
<1>4. \A t \in Occurrences : occ'[t].attempts >= occ[t].attempts
  BY <1>1, <1>3, Bounds DEF TypeInv, TypeOK
<1> QED
  BY <1>1, <1>2, <1>3, <1>4, QuietInv

LEMMA WorkInv ==
    ASSUME Inv, NEW w \in Workers, Work(w) \/ Crash(w) \/ Redeliver(w)
    PROVE  Inv'
<1>1. TypeInv' /\ TypeInv /\ worker[w].occ \in Occurrences
  BY WorkTyped DEF Inv, TypeInv, TypeOK
<1>2. ASSUME HandlePublish(w) \/ Mark(w) \/ Crash(w) \/ Redeliver(w) PROVE Inv'
  <2>1. published' = published /\ scanned' = scanned
    BY <1>2 DEF HandlePublish, Mark, Crash, Redeliver
  <2>2. \A v \in Workers : worker'[v].at = "publish" => worker'[v] = worker[v]
    BY <1>1, <1>2, LeaveTyped DEF HandlePublish, Mark, Crash, Redeliver, TypeInv
  <2>3. \A t \in Occurrences :
          /\ occ'[t].attempts = occ[t].attempts
          /\ occ'[t].status = "completed" => occ[t].status = "completed"
    <3>1. "failed" \in Statuses /\ "queued" \in Statuses
      BY DEF Statuses
    <3>2. \/ Put(worker[w].occ, "failed")
          \/ Put(worker[w].occ, "queued")
          \/ occ' = occ
      BY <1>2 DEF HandlePublish, Mark, Crash, Redeliver, rows
    <3> QED
      BY <1>1, <3>1, <3>2, PutTyped DEF TypeInv
  <2>4. \A t \in Occurrences : scan[t] # "none" => scan'[t] # "none"
    BY <1>1, <1>2 DEF HandlePublish, Mark, Crash, Redeliver, TypeInv, TypeOK
  <2>5. \A t \in Occurrences : occ'[t].attempts >= occ[t].attempts
    BY <1>1, <2>3, Bounds DEF TypeInv, TypeOK
  <2> QED
    BY <1>1, <2>1, <2>2, <2>3, <2>4, <2>5, QuietInv
<1> QED
  BY <1>2, PublishInv DEF Work

LEMMA ReceiveInv ==
    ASSUME Inv, NEW t \in Occurrences, NEW w \in Workers,
           Replay(w, t) \/ Block(w, t) \/ Begin(w, t) \/ BeginRaises(w, t)
    PROVE  Inv'
<1>1. TypeInv' /\ TypeInv
  BY ReceiveTyped DEF Inv
<1>2. ASSUME Replay(w, t) \/ BeginRaises(w, t) PROVE Inv'
  <2>1. UNCHANGED <<published, scanned, occ, scan, worker>>
    BY <1>2 DEF Replay, BeginRaises, rows
  <2>2. \A u \in Occurrences : occ'[u].attempts >= occ[u].attempts
    BY <1>1, <2>1, Bounds DEF TypeInv, TypeOK
  <2> QED
    BY <1>1, <2>1, <2>2, QuietInv
<1>3. ASSUME Block(w, t) PROVE Inv'
  <2>1. UNCHANGED <<published, scanned, scan, worker>>
    BY <1>3 DEF Block
  <2>2. \A u \in Occurrences :
          /\ occ'[u].attempts \in {occ[u].attempts, occ[u].attempts + 1}
          /\ occ'[u].status = "completed" => occ[u].status = "completed"
    BY <1>1, <1>3 DEF Block, TypeInv, TypeOK
  <2>3. \A u \in Occurrences : occ'[u].attempts >= occ[u].attempts
    BY <1>1, <2>2, Bounds DEF TypeInv, TypeOK
  <2> QED
    BY <1>1, <2>1, <2>2, <2>3, QuietInv
<1> QED
  BY <1>2, <1>3, BeginInv

LEMMA ScanInv ==
    ASSUME Inv, NEW t \in Occurrences, ScanStep(t)
    PROVE  Inv'
<1>1. TypeInv' /\ TypeInv
  BY ScanTyped DEF Inv
<1>2. published' = published /\ worker' = worker
  BY DEF ScanStep, ScanEnds, ScanReopens, ScanCompletes, ScanFails, SignalRuns, ScanCancelled, SignalLost
<1>3. \A u \in Occurrences : scan[u] # "none" => scan'[u] # "none"
  BY <1>1 DEF ScanStep, ScanEnds, ScanReopens, ScanCompletes, ScanFails, SignalRuns, ScanCancelled,
              SignalLost, TypeInv, TypeOK
<1>4. CASE ScanCompletes(t)
  <2>1. /\ \A u \in Occurrences : occ'[u].attempts = occ[u].attempts
        /\ \A u \in Occurrences :
             occ'[u].status = "completed" => occ[u].status = "completed" \/ u = t
    BY <1>1, <1>4, FinalizeTyped DEF ScanCompletes, TypeInv
  <2>2. \A u \in Occurrences : occ'[u].attempts >= occ[u].attempts
    BY <1>1, <2>1, Bounds DEF TypeInv, TypeOK
  <2>3. /\ EachAttemptPublishesOnce'
        /\ \A u \in Occurrences : IsFiniteSet(Publishing(u))'
    BY <1>1, <1>2, <2>2, AttemptsKept
  <2>4. scanned' = scanned \cup {t}
    BY <1>4 DEF ScanCompletes
  <2>5. CompletedWasScanned'
    BY <2>1, <2>4 DEF CompletedWasScanned, Inv
  <2>6. scan'[t] = "finished"
    BY <1>1, <1>4 DEF ScanCompletes, TypeInv, TypeOK
  <2>7. \A u \in scanned' : scan'[u] # "none"
    BY <1>1, <1>3, <2>4, <2>6 DEF Inv, Support, TypeInv, TypeOK
  <2> QED
    BY <1>1, <2>3, <2>5, <2>7 DEF Inv, Support
<1>5. CASE ~ScanCompletes(t)
  <2>1. scanned' = scanned
    BY <1>5 DEF ScanStep, ScanEnds, ScanReopens, ScanFails, SignalRuns, ScanCancelled, SignalLost
  <2>2. Finalize(t, "bad") \/ occ' = occ
    BY <1>5 DEF ScanStep, ScanEnds, ScanReopens, ScanFails, SignalRuns, ScanCancelled, SignalLost, rows
  <2>3. /\ \A u \in Occurrences : occ'[u].attempts = occ[u].attempts
        /\ \A u \in Occurrences :
             occ'[u].status = "completed" => occ[u].status = "completed"
    BY <1>1, <2>2, FinalizeTyped DEF TypeInv
  <2>4. \A u \in Occurrences : occ'[u].attempts >= occ[u].attempts
    BY <1>1, <2>3, Bounds DEF TypeInv, TypeOK
  <2> QED
    BY <1>1, <1>2, <1>3, <2>1, <2>3, <2>4, QuietInv
<1> QED
  BY <1>4, <1>5

LEMMA NextInv == Inv /\ [Next]_vars => Inv'
<1> SUFFICES ASSUME Inv, [Next]_vars PROVE Inv'
  OBVIOUS
<1>1. TypeInv' /\ TypeInv
  BY TypeStep DEF Inv
<1>2. ASSUME Tick \/ UNCHANGED vars PROVE Inv'
  <2>1. UNCHANGED <<published, scanned, occ, scan, worker>>
    BY <1>2 DEF Tick, vars
  <2>2. \A u \in Occurrences : occ'[u].attempts >= occ[u].attempts
    BY <1>1, <2>1, Bounds DEF TypeInv, TypeOK
  <2> QED
    BY <1>1, <2>1, <2>2, QuietInv
<1> QED
  BY <1>2, SenderInv, WorkInv, ReceiveInv, ScanInv DEF Next, Receive

\* The invariant holds in every reachable state, for any numbers of workers, rows and
\* take-overs (enterprise/tasks.py:389-541).
THEOREM Invariant == Spec => []Inv
<1>1. Init => Inv
  BY InitInv
<1>2. Inv /\ [Next]_vars => Inv'
  BY NextInv
<1> QED
  BY <1>1, <1>2, PTL DEF Spec

\* No delivery, crash or repeated claim publishes a scanner task that no attempt of
\* the row pays for (enterprise/tasks.py:389-480).
THEOREM PublicationsBounded == Spec => []EachAttemptPublishesOnce
<1>1. Inv => EachAttemptPublishesOnce
  BY DEF Inv
<1> QED
  BY <1>1, Invariant, PTL

\* An occurrence is completed by a completed scan only (enterprise/signals.py:12-30).
THEOREM CompletionIsReal == Spec => []CompletedWasScanned
<1>1. Inv => CompletedWasScanned
  BY DEF Inv
<1> QED
  BY <1>1, Invariant, PTL

-----------------------------------------------------------------------------
(* Settled occurrences.                                                     *)

LEMMA SettledStep ==
    ASSUME Inv, [Next]_vars, NEW t \in Occurrences,
           occ[t].status \in {"completed", "blocked"}, occ'[t] # occ[t]
    PROVE  occ'[t].status = "failed" /\ occ'[t].attempts = occ[t].attempts
<1>1. TypeInv /\ TypeOK
  BY DEF Inv, TypeInv
<1>2. Answered(t)
  <2>1. occ[t].status = "completed" => scan[t] # "none"
    BY DEF Inv, CompletedWasScanned, Support
  <2> QED
    BY <2>1 DEF Answered
<1>3. occ' # occ
  OBVIOUS
<1>4. ASSUME Claim \/ ClaimManual PROVE FALSE
  <2>1. CASE Claim
    <3>1. schedule.next \in Occurrences
      BY <1>1, <2>1, Bounds DEF Claim, Due, TypeOK, Times
    <3> QED
      BY <1>1, <2>1, <3>1, ClaimedTyped DEF Claim
  <2>2. CASE ClaimManual
    BY <1>1, <2>2, Bounds, ClaimedTyped DEF ClaimManual
  <2> QED
    BY <1>4, <2>1, <2>2
<1>5. ASSUME HandleSend
      PROVE  occ'[t].status = "failed" /\ occ'[t].attempts = occ[t].attempts
  <2>1. sender["beat"].occ \in Occurrences /\ "failed" \in Statuses
    BY <1>1 DEF TypeOK, Senders, Statuses
  <2> QED
    BY <1>1, <1>5, <2>1, PutTyped DEF HandleSend
<1>6. ASSUME NEW w \in Workers, Work(w)
      PROVE  occ'[t].status = "failed" /\ occ'[t].attempts = occ[t].attempts
  <2>1. worker[w].occ \in Occurrences /\ "failed" \in Statuses /\ "queued" \in Statuses
    BY <1>1 DEF TypeOK, Statuses
  <2>2. CASE HandlePublish(w)
    BY <1>1, <2>1, <2>2, PutTyped DEF HandlePublish
  <2>3. CASE Mark(w)
    BY <1>1, <2>1, <2>3, PutTyped DEF Mark
  <2> QED
    BY <1>3, <1>6, <2>2, <2>3 DEF Work, Publish, PublishRaises, rows
<1>7. ASSUME NEW u \in Occurrences, NEW w \in Workers,
             Replay(w, u) \/ Block(w, u) \/ Begin(w, u) \/ BeginRaises(w, u)
      PROVE  FALSE
  <2>1. Block(w, u) \/ Begin(w, u)
    BY <1>3, <1>7 DEF Replay, BeginRaises, rows
  <2>2. u # t
    BY <1>2, <2>1 DEF Block, Begin
  <2> QED
    BY <1>1, <2>1, <2>2 DEF Block, Begin, TypeOK
<1>8. ASSUME NEW u \in Occurrences, ScanStep(u)
      PROVE  FALSE
  <2>1. PICK outcome : Finalize(u, outcome)
    BY <1>3, <1>8 DEF ScanStep, ScanEnds, ScanReopens, ScanCompletes, ScanFails, SignalRuns, ScanCancelled,
                      SignalLost, rows
  <2> QED
    BY <1>1, <2>1, FinalizeTyped
<1> QED
  BY <1>3, <1>4, <1>5, <1>6, <1>7, <1>8
  DEF Next, vars, Tick, ClaimUnbound, SenderStep, Send, SendRaises, SenderDies, Crash, Redeliver,
      Receive, rows

\* A settled occurrence is only ever overwritten by a handler's FAILED, which gives
\* it no attempt (enterprise/tasks.py:399-406, 472, 529-538).
THEOREM SettledStaysKept == Spec => SettledIsKept
<1>1. Inv /\ [Next]_vars =>
        [\A t \in Occurrences :
           occ[t].status \in {"completed", "blocked"} /\ occ'[t] # occ[t] =>
              /\ occ'[t].status = "failed"
              /\ occ'[t].attempts = occ[t].attempts]_vars
  BY SettledStep
<1> QED
  BY <1>1, Invariant, PTL DEF Spec, SettledIsKept

-----------------------------------------------------------------------------
(* The ledger of attempts: each occurrence implements AttemptLedger.        *)

\* The row counts, a delivery before its publication is open, a scanner task is
\* outside, and QUEUED says that there is one.
Ledger(t) == INSTANCE AttemptLedger WITH
               attempts <- occ[t].attempts,
               open <- Cardinality(Publishing(t)),
               handed <- published[t],
               confirmed <- (occ[t].status = "queued")

\* QUEUED was published, and will be answered: its Scan is there.
Queued ==
    /\ \A w \in Workers : worker[w].at \in {"publish", "mark"} => scan[worker[w].occ] # "none"
    /\ \A w \in Workers : worker[w].at = "mark" => published[worker[w].occ] > 0
    /\ \A t \in Occurrences : occ[t].status = "queued" => published[t] > 0 /\ scan[t] # "none"

LEMMA InitQueued == Init => Queued
BY Bounds DEF Init, Idle, Queued

\* A Scan is not taken back, nor is a published task.
LEMMA NothingTakenBack ==
    ASSUME TypeInv, [Next]_vars, NEW t \in Occurrences
    PROVE  /\ scan[t] # "none" => scan'[t] # "none"
           /\ published[t] > 0 => published'[t] > 0
<1>1. published[t] \in Nat
  BY DEF TypeInv, TypeOK
<1>2. ASSUME NEW w \in Workers, Work(w) \/ Crash(w) \/ Redeliver(w)
      PROVE  /\ scan[t] # "none" => scan'[t] # "none"
             /\ published[t] > 0 => published'[t] > 0
  <2>1. scan[t] # "none" => scan'[t] # "none"
    BY <1>2 DEF Work, Publish, PublishRaises, HandlePublish, Mark, Crash, Redeliver, TypeInv, TypeOK
  <2>2. published'[t] = published[t] \/ published'[t] = published[t] + 1
    BY <1>2 DEF Work, Publish, PublishRaises, HandlePublish, Mark, Crash, Redeliver, TypeInv, TypeOK
  <2> QED
    BY <1>1, <2>1, <2>2
<1>3. ASSUME NEW u \in Occurrences, NEW w \in Workers,
             Replay(w, u) \/ Block(w, u) \/ Begin(w, u) \/ BeginRaises(w, u)
      PROVE  published' = published /\ (scan[t] # "none" => scan'[t] # "none")
  BY <1>3 DEF Replay, Block, Begin, BeginRaises, TypeInv, TypeOK
<1>4. ASSUME NEW u \in Occurrences, ScanStep(u)
      PROVE  published' = published /\ (scan[t] # "none" => scan'[t] # "none")
  BY <1>4 DEF ScanStep, ScanEnds, ScanReopens, ScanCompletes, ScanFails, SignalRuns, ScanCancelled,
              SignalLost, TypeInv, TypeOK
<1>5. CASE Tick \/ Claim \/ ClaimUnbound \/ ClaimManual \/ UNCHANGED vars
           \/ \E s \in Senders : SenderStep(s) \/ SenderDies(s)
  <2>1. UNCHANGED <<published, scan>>
    BY <1>5 DEF Tick, Claim, ClaimUnbound, ClaimManual, vars, SenderStep, Send, SendRaises,
                HandleSend, SenderDies
  <2> QED
    BY <2>1
<1> QED
  BY <1>2, <1>3, <1>4, <1>5 DEF Next, Receive

\* The steps of the dispatcher and the user's request: rows come into being or fail.
LEMMA SenderRows ==
    ASSUME TypeInv, NEW t \in Occurrences,
           \/ Tick \/ Claim \/ ClaimUnbound \/ ClaimManual \/ UNCHANGED vars
           \/ \E s \in Senders : SenderStep(s) \/ SenderDies(s)
    PROVE  /\ occ'[t].attempts = occ[t].attempts
           /\ occ'[t].status = "queued" => occ[t].status = "queued"
           /\ UNCHANGED <<worker, published>>
<1>1. UNCHANGED <<worker, published>>
  BY DEF Tick, Claim, ClaimUnbound, ClaimManual, vars, SenderStep, Send, SendRaises,
         HandleSend, SenderDies
<1>2. "pending" \in Statuses /\ "failed" \in Statuses
  BY DEF Statuses
<1>3. ASSUME NEW u \in Occurrences, Claimed(u)
      PROVE  /\ occ'[t].attempts = occ[t].attempts
             /\ occ'[t].status = "queued" => occ[t].status = "queued"
  <2>1. Put(u, "pending") \/ occ' = occ
    BY <1>3 DEF Claimed
  <2> QED
    BY <1>2, <2>1, PutTyped DEF TypeInv
<1>4. CASE Claim
  <2>1. schedule.next \in Occurrences
    BY <1>4, Bounds DEF Claim, Due, TypeInv, TypeOK, Times
  <2> QED
    BY <1>1, <1>3, <1>4, <2>1 DEF Claim
<1>5. CASE ClaimManual
  BY <1>1, <1>3, <1>5, Bounds DEF ClaimManual
<1>6. CASE HandleSend
  <2>1. sender["beat"].occ \in Occurrences
    BY DEF TypeInv, TypeOK, Senders
  <2> QED
    BY <1>1, <1>2, <1>6, <2>1, PutTyped DEF HandleSend, TypeInv
<1>7. CASE occ' = occ
  BY <1>1, <1>7
<1> QED
  BY <1>4, <1>5, <1>6, <1>7
  DEF Tick, ClaimUnbound, vars, SenderStep, Send, SendRaises, SenderDies, rows

\* The steps of the scan and its signal: rows that are open end.
LEMMA ScanRows ==
    ASSUME TypeInv, NEW t \in Occurrences, NEW u \in Occurrences, ScanStep(u)
    PROVE  /\ occ'[t].attempts = occ[t].attempts
           /\ occ'[t].status = "queued" => occ[t].status = "queued"
           /\ UNCHANGED <<worker, published>>
<1>1. UNCHANGED <<worker, published>>
  BY DEF ScanStep, ScanEnds, ScanReopens, ScanCompletes, ScanFails, SignalRuns, ScanCancelled,
         SignalLost
<1>2. "completed" \in Statuses /\ "failed" \in Statuses
  BY DEF Statuses
<1>3. Put(u, "completed") \/ Put(u, "failed") \/ occ' = occ
  BY DEF ScanStep, ScanEnds, ScanReopens, ScanCompletes, ScanFails, SignalRuns, ScanCancelled,
         SignalLost, Finalize, rows
<1> QED
  BY <1>1, <1>2, <1>3, PutTyped DEF TypeInv

\* What a worker's own steps do to its place, and to the rows.
LEMMA WorkRows ==
    ASSUME TypeInv, NEW w \in Workers, Work(w) \/ Crash(w) \/ Redeliver(w),
           NEW t \in Occurrences
    PROVE  /\ \A v \in Workers : v # w => worker'[v] = worker[v]
           /\ worker'[w].at # "publish" \/ worker'[w] = worker[w]
           /\ occ'[t].attempts = occ[t].attempts
           /\ occ'[t].status = "queued" /\ occ[t].status # "queued" =>
                worker[w].at = "mark" /\ worker[w].occ = t
           /\ worker'[w].at = "mark" =>
                \/ worker'[w] = worker[w]
                \/ /\ worker[w].at = "publish" /\ worker'[w].occ = worker[w].occ
                   /\ published'[worker[w].occ] > 0
<1>1. worker[w].occ \in Occurrences /\ "failed" \in Statuses /\ "queued" \in Statuses
  BY DEF TypeInv, TypeOK, Statuses
<1>2. CASE Publish(w) \/ PublishRaises(w)
  <2>1. PICK step \in {"mark", "handle"} : Goto(w, step, worker[w].occ)
    BY <1>2 DEF Publish, PublishRaises
  <2>2. /\ worker'[w] = [at |-> step, occ |-> worker[w].occ]
        /\ \A v \in Workers : v # w => worker'[v] = worker[v]
    BY <1>1, <2>1, GotoTyped DEF TypeInv
  <2>3. step = "mark" => Publish(w)
    <3>1. ASSUME PublishRaises(w) PROVE worker'[w].at = "handle"
      <4>1. Goto(w, "handle", worker[w].occ)
        BY <3>1 DEF PublishRaises
      <4>2. TypeOK /\ "handle" \in {"idle", "publish", "mark", "handle"}
        BY DEF TypeInv
      <4>3. worker'[w] = [at |-> "handle", occ |-> worker[w].occ]
        BY <1>1, <4>1, <4>2, GotoTyped
      <4> QED
        BY <4>3
    <3> QED
      BY <1>2, <2>2, <3>1
  <2>4. Publish(w) => published'[worker[w].occ] > 0
    BY <1>1 DEF Publish, TypeInv, TypeOK
  <2>5. occ' = occ /\ worker[w].at = "publish"
    BY <1>2 DEF Publish, PublishRaises, rows
  <2> QED
    BY <2>2, <2>3, <2>4, <2>5
<1>3. CASE HandlePublish(w) \/ Mark(w) \/ Crash(w)
  <2>1. /\ worker'[w].at = "idle"
        /\ \A v \in Workers : v # w => worker'[v] = worker[v]
    BY <1>3, LeaveTyped DEF HandlePublish, Mark, Crash, TypeInv
  <2>2. CASE HandlePublish(w)
    BY <1>1, <2>1, <2>2, PutTyped DEF HandlePublish, TypeInv
  <2>3. CASE Mark(w)
    <3>1. worker[w].at = "mark" /\ (Put(worker[w].occ, "queued") \/ occ' = occ)
      BY <2>3 DEF Mark
    <3> QED
      BY <1>1, <2>1, <3>1, PutTyped DEF TypeInv
  <2>4. CASE Crash(w)
    BY <2>1, <2>4 DEF Crash, rows
  <2> QED
    BY <1>3, <2>2, <2>3, <2>4
<1>4. CASE Redeliver(w)
  BY <1>4 DEF Redeliver, rows
<1> QED
  BY <1>2, <1>3, <1>4 DEF Work

LEMMA QueuedStep == TypeInv /\ Queued /\ [Next]_vars => Queued'
<1> SUFFICES ASSUME TypeInv, Queued, [Next]_vars PROVE Queued'
  OBVIOUS
<1>1. \A v \in Workers : worker[v].occ \in Occurrences
  BY DEF TypeInv, TypeOK
<1>2. ASSUME \A t \in Occurrences : occ'[t].status = "queued" => occ[t].status = "queued",
             \A v \in Workers : worker'[v].at \in {"publish", "mark"} => worker'[v] = worker[v]
      PROVE  Queued'
  BY <1>1, <1>2, NothingTakenBack DEF Queued
<1>3. ASSUME NEW w \in Workers, Work(w) \/ Crash(w) \/ Redeliver(w)
      PROVE  Queued'
  <2>1. ASSUME NEW v \in Workers, worker'[v].at \in {"publish", "mark"}
        PROVE  /\ scan'[worker'[v].occ] # "none"
               /\ worker'[v].at = "mark" => published'[worker'[v].occ] > 0
    <3>1. CASE worker'[v] = worker[v]
      BY <1>1, <2>1, <3>1, NothingTakenBack DEF Queued
    <3>2. CASE worker'[v] # worker[v]
      <4>1. v = w
        BY <1>1, <1>3, <3>2, WorkRows
      <4>2. /\ worker[w].at = "publish" /\ worker'[w].occ = worker[w].occ
            /\ published'[worker[w].occ] > 0
        BY <1>1, <1>3, <2>1, <3>2, <4>1, WorkRows
      <4>3. scan[worker[w].occ] # "none"
        BY <4>2 DEF Queued
      <4>4. scan'[worker[w].occ] # "none"
        BY <1>1, <4>3, NothingTakenBack
      <4> QED
        BY <4>1, <4>2, <4>4
    <3> QED
      BY <3>1, <3>2
  <2>2. ASSUME NEW t \in Occurrences, occ'[t].status = "queued"
        PROVE  published'[t] > 0 /\ scan'[t] # "none"
    <3>1. published[t] > 0 /\ scan[t] # "none"
      <4>1. CASE occ[t].status = "queued"
        BY <4>1 DEF Queued
      <4>2. CASE occ[t].status # "queued"
        <5>1. worker[w].at = "mark" /\ worker[w].occ = t
          BY <1>3, <2>2, <4>2, WorkRows
        <5> QED
          BY <5>1 DEF Queued
      <4> QED
        BY <4>1, <4>2
    <3> QED
      BY <3>1, NothingTakenBack
  <2> QED
    BY <2>1, <2>2 DEF Queued
<1>4. ASSUME NEW w \in Workers, NEW u \in Occurrences, Begin(w, u)
      PROVE  Queued'
  <2>1. /\ worker'[w] = [at |-> "publish", occ |-> u]
        /\ \A v \in Workers : v # w => worker'[v] = worker[v]
    BY <1>4, GotoTyped DEF Begin, TypeInv
  <2>2. scan'[u] # "none"
    BY <1>4 DEF Begin, TypeInv, TypeOK
  <2>3. \A t \in Occurrences : occ'[t].status = "queued" => occ[t].status = "queued"
    BY <1>4, BeginTyped
  <2>4. ASSUME NEW v \in Workers, v # w, worker'[v].at \in {"publish", "mark"}
        PROVE  /\ scan'[worker'[v].occ] # "none"
               /\ worker'[v].at = "mark" => published'[worker'[v].occ] > 0
    BY <1>1, <2>1, <2>4, NothingTakenBack DEF Queued
  <2>5. ASSUME NEW t \in Occurrences, occ'[t].status = "queued"
        PROVE  published'[t] > 0 /\ scan'[t] # "none"
    BY <2>3, <2>5, NothingTakenBack DEF Queued
  <2> QED
    BY <2>1, <2>2, <2>4, <2>5 DEF Queued
<1>5. ASSUME NEW w \in Workers, NEW u \in Occurrences,
             Replay(w, u) \/ Block(w, u) \/ BeginRaises(w, u)
      PROVE  Queued'
  <2>1. worker' = worker
    BY <1>5 DEF Replay, Block, BeginRaises
  <2>2. ASSUME NEW t \in Occurrences, occ'[t].status = "queued" PROVE occ[t].status = "queued"
    <3>1. CASE Block(w, u)
      <4>1. occ'[u].status = "blocked" /\ (t # u => occ'[t] = occ[t])
        BY <3>1 DEF Block, TypeInv, TypeOK
      <4> QED
        BY <2>2, <4>1
    <3>2. CASE Replay(w, u) \/ BeginRaises(w, u)
      BY <2>2, <3>2 DEF Replay, BeginRaises, rows
    <3> QED
      BY <1>5, <3>1, <3>2
  <2> QED
    BY <1>2, <2>1, <2>2
<1>6. ASSUME NEW u \in Occurrences, ScanStep(u) PROVE Queued'
  BY <1>2, <1>6, ScanRows
<1>7. CASE Tick \/ Claim \/ ClaimUnbound \/ ClaimManual \/ UNCHANGED vars
           \/ \E s \in Senders : SenderStep(s) \/ SenderDies(s)
  <2>1. worker' = worker
    BY <1>7 DEF Tick, Claim, ClaimUnbound, ClaimManual, vars, SenderStep, Send, SendRaises,
                HandleSend, SenderDies
  <2> QED
    BY <1>2, <1>7, <2>1, SenderRows
<1> QED
  BY <1>3, <1>4, <1>5, <1>6, <1>7 DEF Next, Receive

\* QUEUED is said of an occurrence whose scanner task was published, and a delivery
\* that comes again finds the Scan that answers it (enterprise/tasks.py:399-406, 464-480).
THEOREM QueuedWasPublished == Spec => []Queued
<1>1. Init => Queued
  BY InitQueued
<1>2. TypeInv /\ Queued /\ [Next]_vars => Queued'
  BY QueuedStep
<1>3. Inv => TypeInv
  BY DEF Inv
<1> QED
  BY <1>1, <1>2, <1>3, Invariant, PTL DEF Spec

\* A step that leaves an occurrence's counters alone changes what its row says, or nothing.
LEMMA RowSays ==
    ASSUME Queued', NEW t \in Occurrences,
           published'[t] = published[t], Publishing(t)' = Publishing(t),
           occ'[t].attempts = occ[t].attempts
    PROVE  Ledger(t)!Next
<1>1. Cardinality(Publishing(t))' = Cardinality(Publishing(t))
  OBVIOUS
<1>2. CASE occ'[t].status = "queued"
  <2>1. published[t] > 0
    BY <1>2 DEF Queued
  <2> QED
    BY <1>1, <1>2, <2>1 DEF Ledger!Next, Ledger!Confirm
<1>3. CASE occ'[t].status # "queued"
  BY <1>1, <1>3 DEF Ledger!Next, Ledger!Retract
<1> QED
  BY <1>2, <1>3

\* A delivery that leaves "publish" hands its task over or gives up.
LEMMA PublisherLeaves ==
    ASSUME Inv, NEW w \in Workers, NEW t \in Occurrences,
           worker[w].at = "publish", worker[w].occ = t, worker'[w].at # "publish",
           \A v \in Workers : v # w => worker'[v] = worker[v], occ' = occ
    PROVE  /\ published'[t] = published[t] + 1 => Ledger(t)!HandOver
           /\ published'[t] = published[t] => Ledger(t)!Abandon
<1>1. Publishing(t)' = Publishing(t) \ {w} /\ w \in Publishing(t)
  BY DEF Publishing
<1>2. IsFiniteSet(Publishing(t))
  BY DEF Inv, Support
<1>3. /\ IsFiniteSet(Publishing(t)')
      /\ Cardinality(Publishing(t)') = Cardinality(Publishing(t)) - 1
  BY <1>1, <1>2, FS_RemoveElement
<1>4. Cardinality(Publishing(t)) \in Nat /\ Cardinality(Publishing(t)') \in Nat
  BY <1>2, <1>3, FS_CardinalityType
<1>5. Cardinality(Publishing(t)) > 0
  BY <1>3, <1>4
<1> QED
  BY <1>3, <1>5 DEF Ledger!HandOver, Ledger!Abandon

\* An attempt enters the ledger: it goes on to publish (Begin), or ends at once (Block).
LEMMA AttemptEnters ==
    ASSUME Inv, Queued, NEW w \in Workers, NEW t \in Occurrences, Begin(w, t) \/ Block(w, t)
    PROVE  Ledger(t)!Enter
<1>1. occ[t].status # "queued"
  BY DEF Begin, Block, Answered, Queued
<1>2. occ'[t].attempts = occ[t].attempts + 1 /\ occ'[t].status # "queued"
  <2>1. CASE Begin(w, t)
    BY <2>1, BeginTyped DEF Inv
  <2>2. CASE Block(w, t)
    BY <2>2 DEF Block, Inv, TypeInv, TypeOK
  <2> QED
    BY <2>1, <2>2
<1>3. published'[t] = published[t]
  BY DEF Begin, Block
<1>4. Cardinality(Publishing(t))' \in {Cardinality(Publishing(t)), Cardinality(Publishing(t)) + 1}
  <2>1. CASE Begin(w, t)
    <3>1. /\ worker[w].at = "idle" /\ worker'[w] = [at |-> "publish", occ |-> t]
          /\ \A v \in Workers : v # w => worker'[v] = worker[v]
      BY <2>1, GotoTyped DEF Begin, Receives, Inv, TypeInv
    <3>2. Publishing(t)' = Publishing(t) \cup {w} /\ w \notin Publishing(t)
      BY <3>1 DEF Publishing
    <3>3. IsFiniteSet(Publishing(t))
      BY DEF Inv, Support
    <3> QED
      BY <3>2, <3>3, FS_AddElement
  <2>2. CASE Block(w, t)
    <3>1. Publishing(t)' = Publishing(t)
      BY <2>2 DEF Block, Publishing
    <3> QED
      BY <3>1
  <2> QED
    BY <2>1, <2>2
<1> QED
  BY <1>1, <1>2, <1>3, <1>4 DEF Ledger!Enter

LEMMA WorkInLedger ==
    ASSUME Inv, Queued', NEW t \in Occurrences, NEW w \in Workers,
           Work(w) \/ Crash(w) \/ Redeliver(w)
    PROVE  Ledger(t)!Next
<1>1. TypeInv /\ worker[w].occ \in Occurrences
  BY DEF Inv, TypeInv, TypeOK
<1>2. /\ \A v \in Workers : v # w => worker'[v] = worker[v]
      /\ worker'[w].at # "publish" \/ worker'[w] = worker[w]
      /\ occ'[t].attempts = occ[t].attempts
  BY <1>1, WorkRows
<1>3. CASE worker[w].at = "publish" /\ worker[w].occ = t /\ worker'[w].at # "publish"
  <2>1. Publish(w) \/ PublishRaises(w) \/ Crash(w)
    BY <1>3 DEF Work, HandlePublish, Mark, Redeliver
  <2>2. occ' = occ
    BY <2>1 DEF Publish, PublishRaises, Crash, rows
  <2>3. published'[t] = published[t] + 1 \/ published'[t] = published[t]
    BY <1>1, <1>3, <2>1 DEF Publish, PublishRaises, Crash, TypeInv, TypeOK
  <2> QED
    BY <1>2, <1>3, <2>2, <2>3, PublisherLeaves DEF Ledger!Next
<1>4. CASE ~(worker[w].at = "publish" /\ worker[w].occ = t /\ worker'[w].at # "publish")
  <2>1. Publishing(t)' = Publishing(t)
    BY <1>2, <1>4 DEF Publishing
  <2>2. published'[t] = published[t]
    <3>1. CASE Publish(w) \/ PublishRaises(w)
      <4>1. worker[w].at = "publish"
        BY <3>1 DEF Publish, PublishRaises
      <4>2. PICK step \in {"mark", "handle"} : Goto(w, step, worker[w].occ)
        BY <3>1 DEF Publish, PublishRaises
      <4>3. worker'[w].at # "publish"
        <5>1. TypeOK /\ step \in {"idle", "publish", "mark", "handle"} /\ step # "publish"
          BY <1>1 DEF TypeInv
        <5>2. worker'[w] = [at |-> step, occ |-> worker[w].occ]
          BY <1>1, <4>2, <5>1, GotoTyped
        <5> QED
          BY <5>1, <5>2
      <4> QED
        BY <1>1, <1>4, <3>1, <4>1, <4>3 DEF Publish, PublishRaises, TypeInv, TypeOK
    <3>2. CASE HandlePublish(w) \/ Mark(w) \/ Crash(w) \/ Redeliver(w)
      BY <3>2 DEF HandlePublish, Mark, Crash, Redeliver
    <3> QED
      BY <3>1, <3>2 DEF Work
  <2> QED
    BY <1>2, <2>1, <2>2, RowSays
<1> QED
  BY <1>3, <1>4

LEMMA LedgerStep ==
    ASSUME Inv, Queued, Queued', [Next]_vars, NEW t \in Occurrences
    PROVE  Ledger(t)!Next
<1>1. TypeInv
  BY DEF Inv
<1>2. ASSUME NEW w \in Workers, NEW u \in Occurrences,
             Replay(w, u) \/ Block(w, u) \/ Begin(w, u) \/ BeginRaises(w, u)
      PROVE  Ledger(t)!Next
  <2>1. CASE u = t /\ (Begin(w, u) \/ Block(w, u))
    BY <2>1, AttemptEnters DEF Ledger!Next
  <2>2. CASE u # t /\ Begin(w, u)
    <3>1. /\ worker[w].at = "idle" /\ worker'[w] = [at |-> "publish", occ |-> u]
          /\ \A v \in Workers : v # w => worker'[v] = worker[v]
      BY <1>1, <2>2, GotoTyped DEF Begin, Receives, TypeInv
    <3>2. Publishing(t)' = Publishing(t)
      BY <2>2, <3>1 DEF Publishing
    <3>3. occ'[t] = occ[t] /\ published' = published
      BY <1>1, <2>2, BeginTyped DEF Begin
    <3> QED
      BY <3>2, <3>3, RowSays
  <2>3. CASE (u # t /\ Block(w, u)) \/ Replay(w, u) \/ BeginRaises(w, u)
    <3>1. Publishing(t)' = Publishing(t)
      BY <2>3 DEF Block, Replay, BeginRaises, Publishing
    <3>2. occ'[t] = occ[t] /\ published' = published
      BY <1>1, <2>3 DEF Block, Replay, BeginRaises, rows, TypeInv, TypeOK
    <3> QED
      BY <3>1, <3>2, RowSays
  <2> QED
    BY <1>2, <2>1, <2>2, <2>3
<1>3. ASSUME NEW u \in Occurrences, ScanStep(u) PROVE Ledger(t)!Next
  <2>1. occ'[t].attempts = occ[t].attempts /\ UNCHANGED <<worker, published>>
    BY <1>1, <1>3, ScanRows
  <2>2. Publishing(t)' = Publishing(t)
    BY <2>1 DEF Publishing
  <2> QED
    BY <2>1, <2>2, RowSays
<1>4. CASE Tick \/ Claim \/ ClaimUnbound \/ ClaimManual \/ UNCHANGED vars
           \/ \E s \in Senders : SenderStep(s) \/ SenderDies(s)
  <2>1. occ'[t].attempts = occ[t].attempts /\ UNCHANGED <<worker, published>>
    BY <1>1, <1>4, SenderRows
  <2>2. Publishing(t)' = Publishing(t)
    BY <2>1 DEF Publishing
  <2> QED
    BY <2>1, <2>2, RowSays
<1> QED
  BY <1>2, <1>3, <1>4, WorkInLedger DEF Next, Receive

\* Every occurrence of a continuous assurance schedule implements AttemptLedger: an
\* attempt is counted before its scanner task is published, whatever is redelivered,
\* blocked or dies, and an occurrence that is QUEUED is not attempted again
\* (enterprise/tasks.py:399-480).
THEOREM OccurrencesKeepLedger ==
    ASSUME NEW t \in Occurrences
    PROVE  Spec => Ledger(t)!Spec
<1>1. Init => Ledger(t)!Init
  <2> SUFFICES ASSUME Init PROVE Ledger(t)!Init
    OBVIOUS
  <2>1. Publishing(t) = {}
    BY DEF Init, Idle, Publishing
  <2>2. Cardinality(Publishing(t)) = 0
    BY <2>1, FS_EmptySet
  <2> QED
    BY <2>2 DEF Init, Ledger!Init
<1>2. Inv /\ Queued /\ Queued' /\ [Next]_vars => [Ledger(t)!Next]_(Ledger(t)!ledgerVars)
  BY LedgerStep
<1> QED
  BY <1>1, <1>2, Invariant, QueuedWasPublished, PTL DEF Spec, Ledger!Spec
=============================================================================
