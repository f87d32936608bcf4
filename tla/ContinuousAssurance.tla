-------------------------- MODULE ContinuousAssurance --------------------------
(***************************************************************************)
(* Continuous assurance (enterprise/tasks.py:389-541, enterprise/signals.py): *)
(* one ContinuousAssuranceSchedule, its occurrences and their scans.        *)
(*                                                                          *)
(* dispatch_due_schedules claims an occurrence in one transaction and sends *)
(* its message after it; run_continuous_assurance creates the Scan in one   *)
(* transaction, publishes the scanner's task outside of any, and marks the  *)
(* occurrence queued; the Scan's outcome is projected onto the occurrence   *)
(* by a signal.  Unlike ScheduledExecution there is no lease and no sweep.  *)
(***************************************************************************)
EXTENDS Naturals, FiniteSets

CONSTANTS
    Workers,     \* worker processes
    MaxTime,     \* bound: last scheduled instant, in steps of the interval
    MaxTaken,    \* bound: deliveries of one occurrence that begin
    MaxRows      \* bound: occurrences that are claimed at all

ASSUME BoundsAssumption == MaxTime \in Nat /\ MaxTaken \in Nat \ {0} /\ MaxRows \in Nat

Times == 1..MaxTime
Manual == 0                     \* the occurrence of a POST .../run
Occurrences == Times \cup {Manual}

VARIABLES
    now,       \* the last instant that has passed
    schedule,  \* enabled, bound to an asset authorization, next_run
    occ,       \* the ContinuousAssuranceExecution rows
    scan,      \* the Scan of each occurrence
    unseen,    \* saved scan outcomes whose signal has not run yet
    queue,     \* messages of run_continuous_assurance
    tasks,     \* occurrences for whose scan a scanner task was published
    sender,    \* the dispatcher and the user's request: between claim and delay
    worker,    \* what each worker does between transactions
    published, \* scanner tasks published by the occurrence's deliveries
    dropped,   \* history: occurrences that a named step let go of
    scanned    \* history: occurrences whose scan has completed once

rows == <<now, schedule, occ>>
vars == <<now, schedule, occ, scan, unseen, queue, tasks, sender, worker,
          published, dropped, scanned>>

Statuses == {"absent", "pending", "running", "queued", "completed", "blocked", "failed"}

\* Scan.is_finished, or not, of an occurrence that has a Scan.
ScanStatuses == {"none", "open", "finished"}
Finished(t) == scan[t] = "finished"

Senders == {"beat", "user"}
Idle == [at |-> "idle", occ |-> Manual]

Init ==
    /\ now = 0
    /\ schedule \in [enabled : {TRUE}, bound : BOOLEAN, next : {1}]
    /\ occ = [t \in Occurrences |-> [status |-> "absent", attempts |-> 0]]
    /\ scan = [t \in Occurrences |-> "none"]
    /\ unseen = {} /\ queue = {} /\ tasks = {}
    /\ sender = [s \in Senders |-> Idle]
    /\ worker = [w \in Workers |-> Idle]
    /\ published = [t \in Occurrences |-> 0]
    /\ dropped = {} /\ scanned = {}

Put(t, status) == occ' = [occ EXCEPT ![t].status = status]
Goto(w, step, t) == worker' = [worker EXCEPT ![w] = [at |-> step, occ |-> t]]
Leave(w) == worker' = [worker EXCEPT ![w] = Idle]

Tick ==
    /\ now < MaxTime
    /\ now' = now + 1
    /\ UNCHANGED <<schedule, occ, scan, unseen, queue, tasks, sender, worker,
                   published, dropped, scanned>>

-----------------------------------------------------------------------------
(* claim_continuous_assurance_execution                                     *)

Due == schedule.enabled /\ schedule.next <= now

\* get_or_create: an occurrence of that instant may be there already.
Claimed(t) ==
    IF occ[t].status = "absent"
    THEN /\ Cardinality({u \in Occurrences : occ[u].status # "absent"}) < MaxRows
         /\ Put(t, "pending")
    ELSE occ' = occ

\* What is sent: a new occurrence, or one whose message could not be sent.
Sendable(t) ==
    \/ occ[t].status = "absent"
    \/ occ[t].status = "failed" /\ scan[t] = "none"

ToSend(s, t) ==
    sender' = [sender EXCEPT ![s] = IF Sendable(t) THEN [at |-> "send", occ |-> t] ELSE Idle]

\* Mutant: next_run moves by an interval too many.
ClaimTwice ==
    /\ sender["beat"].at = "idle" /\ Due /\ schedule.bound
    /\ Claimed(schedule.next)
    /\ ToSend("beat", schedule.next)
    /\ schedule' = [schedule EXCEPT !.next = now + 2]
    /\ UNCHANGED <<now, scan, unseen, queue, tasks, worker, published, dropped, scanned>>

\* Missed instants are skipped: next_run moves past now.
Claim ==
    /\ sender["beat"].at = "idle" /\ Due /\ schedule.bound
    /\ Claimed(schedule.next)
    /\ ToSend("beat", schedule.next)
    /\ schedule' = [schedule EXCEPT !.next = now + 1]
    /\ UNCHANGED <<now, scan, unseen, queue, tasks, worker, published, dropped, scanned>>

\* A schedule without a durable binding is disabled instead.
ClaimUnbound ==
    /\ sender["beat"].at = "idle" /\ Due /\ ~schedule.bound
    /\ schedule' = [schedule EXCEPT !.enabled = FALSE]
    /\ UNCHANGED <<now, occ, scan, unseen, queue, tasks, sender, worker,
                   published, dropped, scanned>>

\* run_assurance: an occurrence of this very moment, enabled or not.
ClaimManual ==
    /\ sender["user"].at = "idle" /\ occ[Manual].status = "absent" /\ schedule.bound
    /\ Claimed(Manual)
    /\ ToSend("user", Manual)
    /\ UNCHANGED <<now, schedule, scan, unseen, queue, tasks, worker, published,
                   dropped, scanned>>

Send(s) ==
    /\ sender[s].at = "send"
    /\ queue' = queue \cup {sender[s].occ}
    /\ sender' = [sender EXCEPT ![s] = Idle]
    /\ UNCHANGED <<rows, scan, unseen, tasks, worker, published, dropped, scanned>>

\* delay raises, whether or not the broker has the message.  The dispatcher
\* handles it; the user's request ends with an error.
SendRaises(s) ==
    /\ sender[s].at = "send"
    /\ queue' \in {queue, queue \cup {sender[s].occ}}
    /\ sender' = [sender EXCEPT ![s] =
                    IF s = "beat" THEN [@ EXCEPT !.at = "handle"] ELSE Idle]
    /\ dropped' = IF s = "beat" THEN dropped ELSE dropped \cup {sender[s].occ}
    /\ UNCHANGED <<rows, scan, unseen, tasks, worker, published, scanned>>

\* FAILED whatever the row says by then, and next_run goes back to the instant.
HandleSend ==
    /\ sender["beat"].at = "handle"
    /\ LET t == sender["beat"].occ IN
         /\ Put(t, "failed")
         /\ schedule' = IF schedule.enabled /\ schedule.next > t
                        THEN [schedule EXCEPT !.next = t] ELSE schedule
    /\ sender' = [sender EXCEPT !["beat"] = Idle]
    /\ UNCHANGED <<now, scan, unseen, queue, tasks, worker, published, dropped, scanned>>

\* The process dies with its claim committed; nothing looks for the row again.
SenderDies(s) ==
    /\ sender[s].at # "idle"
    /\ dropped' = dropped \cup {sender[s].occ}
    /\ sender' = [sender EXCEPT ![s] = Idle]
    /\ UNCHANGED <<rows, scan, unseen, queue, tasks, worker, published, scanned>>

-----------------------------------------------------------------------------
(* run_continuous_assurance                                                 *)

\* Mutant: a delivery that finds its occurrence RUNNING leaves it to somebody else.
AnsweredRunning(t) ==
    \/ occ[t].status \in {"completed", "queued"} /\ scan[t] # "none"
    \/ occ[t].status = "failed" /\ Finished(t)
    \/ occ[t].status \in {"blocked", "running"}

\* The early returns: the occurrence needs nothing of this delivery.
Answered(t) ==
    \/ occ[t].status \in {"completed", "queued"} /\ scan[t] # "none"
    \/ occ[t].status = "failed" /\ Finished(t)
    \/ occ[t].status = "blocked"

Receives(w, t) == worker[w].at = "idle" /\ t \in queue /\ queue' = queue \ {t}

Replay(w, t) ==
    /\ Receives(w, t)
    /\ Answered(t)
    /\ UNCHANGED <<rows, scan, unseen, tasks, sender, worker, published, dropped, scanned>>

\* The first transaction, when the world has changed under the schedule (or it
\* is disabled): the occurrence and the schedule stop together.
Block(w, t) ==
    /\ Receives(w, t)
    /\ ~Answered(t) /\ occ[t].attempts < MaxTaken
    /\ occ' = [occ EXCEPT ![t] = [status |-> "blocked", attempts |-> @.attempts + 1]]
    /\ schedule' = [schedule EXCEPT !.enabled = FALSE]
    /\ UNCHANGED <<now, scan, unseen, tasks, sender, worker, published, dropped, scanned>>

\* Mutant: a delivery that finds the occurrence RUNNING is not counted.
BeginUncounted(w, t) ==
    /\ Receives(w, t)
    /\ ~Answered(t) /\ occ[t].attempts < MaxTaken
    /\ schedule.enabled
    /\ occ' = [occ EXCEPT ![t] = [status |-> "running", attempts |->
                                  IF @.status = "running" THEN @.attempts ELSE @.attempts + 1]]
    /\ scan' = IF scan[t] = "none" THEN [scan EXCEPT ![t] = "open"] ELSE scan
    /\ Goto(w, "publish", t)
    /\ UNCHANGED <<now, schedule, unseen, tasks, sender, published, dropped, scanned>>

\* The first transaction: RUNNING, one attempt more, and one Scan for all of them.
Begin(w, t) ==
    /\ Receives(w, t)
    /\ ~Answered(t) /\ occ[t].attempts < MaxTaken
    /\ schedule.enabled
    /\ occ' = [occ EXCEPT ![t] = [status |-> "running", attempts |-> @.attempts + 1]]
    /\ scan' = IF scan[t] = "none" THEN [scan EXCEPT ![t] = "open"] ELSE scan
    /\ Goto(w, "publish", t)
    /\ UNCHANGED <<now, schedule, unseen, tasks, sender, published, dropped, scanned>>

\* The first transaction fails as a whole; there is no retry.
BeginRaises(w, t) ==
    /\ Receives(w, t)
    /\ dropped' = dropped \cup {t}
    /\ UNCHANGED <<rows, scan, unseen, tasks, sender, worker, published, scanned>>

Publish(w) ==
    /\ worker[w].at = "publish"
    /\ LET t == worker[w].occ IN
         /\ tasks' = tasks \cup {t}
         /\ published' = [published EXCEPT ![t] = @ + 1]
         /\ Goto(w, "mark", t)
    /\ UNCHANGED <<rows, scan, unseen, queue, sender, dropped, scanned>>

\* delay raises, before or after the broker has taken the task.
PublishRaises(w) ==
    /\ worker[w].at = "publish"
    /\ LET t == worker[w].occ IN
         /\ \/ tasks' = tasks /\ published' = published
            \/ tasks' = tasks \cup {t} /\ published' = [published EXCEPT ![t] = @ + 1]
         /\ Goto(w, "handle", t)
    /\ UNCHANGED <<rows, scan, unseen, queue, sender, dropped, scanned>>

\* FAILED whatever the row says; the Scan too unless it has finished or is paused, by
\* an update that sends no signal.
HandlePublish(w) ==
    /\ worker[w].at = "handle"
    /\ LET t == worker[w].occ IN
         /\ Put(t, "failed")
         /\ scan' \in {scan, [scan EXCEPT ![t] = IF @ = "open" THEN "finished" ELSE @]}
    /\ Leave(w)
    /\ UNCHANGED <<now, schedule, unseen, queue, tasks, sender, published, dropped, scanned>>

\* Mutant: QUEUED is written whatever the row says.
MarkAny(w) ==
    /\ worker[w].at = "mark"
    /\ Put(worker[w].occ, "queued")
    /\ Leave(w)
    /\ UNCHANGED <<now, schedule, scan, unseen, queue, tasks, sender, published, dropped, scanned>>

\* RUNNING becomes QUEUED, unless the scan has already ended.
Mark(w) ==
    /\ worker[w].at = "mark"
    /\ IF occ[worker[w].occ].status = "running" THEN Put(worker[w].occ, "queued") ELSE occ' = occ
    /\ Leave(w)
    /\ UNCHANGED <<now, schedule, scan, unseen, queue, tasks, sender, published, dropped, scanned>>

\* The worker is lost, and its message comes again.
Crash(w) ==
    /\ worker[w].at # "idle"
    /\ occ[worker[w].occ].attempts < MaxTaken
    /\ queue' = queue \cup {worker[w].occ}
    /\ Leave(w)
    /\ UNCHANGED <<rows, scan, unseen, tasks, sender, published, dropped, scanned>>

\* The message comes again although its worker lives.
Redeliver(w) ==
    /\ worker[w].at # "idle"
    /\ occ[worker[w].occ].attempts < MaxTaken
    /\ queue' = queue \cup {worker[w].occ}
    /\ UNCHANGED <<rows, scan, unseen, tasks, sender, worker, published, dropped, scanned>>

-----------------------------------------------------------------------------
(* The scan, seen from here, and finalize_continuous_assurance_execution.   *)

\* Mutant: every finished scan counts as completed.
FinalizeAll(t, outcome) ==
    IF occ[t].status \in {"pending", "running", "queued"} THEN Put(t, "completed") ELSE occ' = occ

\* The signal's update: only an occurrence that is still open takes the outcome.
Finalize(t, outcome) ==
    IF occ[t].status \in {"pending", "running", "queued"}
    THEN Put(t, IF outcome = "done" THEN "completed" ELSE "failed")
    ELSE occ' = occ

\* A status that is not final is written over any other: by a scanner task that starts,
\* or by a user's start or restart, which publishes a task of its own, or fails to.
ScanReopens(t) ==
    /\ scan[t] # "none"
    /\ scan' = [scan EXCEPT ![t] = "open"]
    /\ tasks' \in {tasks, tasks \cup {t}}
    /\ UNCHANGED <<rows, unseen, queue, sender, worker, published, dropped, scanned>>

\* A task commits COMPLETED or PARTIAL, whatever the status is by then, in one
\* transaction with the evidence and the signal.
ScanCompletes(t) ==
    /\ t \in tasks
    /\ scan' = [scan EXCEPT ![t] = "finished"]
    /\ scanned' = scanned \cup {t}
    /\ Finalize(t, "done")
    /\ UNCHANGED <<now, schedule, unseen, queue, tasks, sender, worker, published, dropped>>

\* FAILED is saved outside of a transaction: the signal's update comes after it.
ScanFails(t) ==
    /\ t \in tasks
    /\ scan' = [scan EXCEPT ![t] = "finished"]
    /\ unseen' = unseen \cup {t}
    /\ UNCHANGED <<rows, queue, tasks, sender, worker, published, dropped, scanned>>

\* The user cancels: one transaction, signal included.
ScanCancelled(t) ==
    /\ scan[t] = "open"
    /\ scan' = [scan EXCEPT ![t] = "finished"]
    /\ Finalize(t, "bad")
    /\ UNCHANGED <<now, schedule, unseen, queue, tasks, sender, worker, published, dropped, scanned>>

SignalRuns(t) ==
    /\ t \in unseen
    /\ unseen' = unseen \ {t}
    /\ Finalize(t, "bad")
    /\ UNCHANGED <<now, schedule, scan, queue, tasks, sender, worker, published, dropped, scanned>>

\* The scanner's process dies between its save and the signal.
SignalLost(t) ==
    /\ t \in unseen
    /\ unseen' = unseen \ {t}
    /\ dropped' = dropped \cup {t}
    /\ UNCHANGED <<rows, scan, queue, tasks, sender, worker, published, scanned>>

-----------------------------------------------------------------------------
Receive(t) == \E w \in Workers : Replay(w, t) \/ Block(w, t) \/ Begin(w, t)

Work(w) == Publish(w) \/ PublishRaises(w) \/ HandlePublish(w) \/ Mark(w)

SenderStep(s) == Send(s) \/ SendRaises(s) \/ (s = "beat" /\ HandleSend)

ScanEnds(t) == ScanCompletes(t) \/ ScanFails(t)

ScanStep(t) == ScanEnds(t) \/ ScanReopens(t) \/ ScanCancelled(t) \/ SignalRuns(t) \/ SignalLost(t)

Next ==
    \/ Tick \/ Claim \/ ClaimUnbound \/ ClaimManual
    \/ \E s \in Senders : SenderStep(s) \/ SenderDies(s)
    \/ \E w \in Workers : Work(w) \/ Crash(w) \/ Redeliver(w)
    \/ \E t \in Occurrences :
         \/ Receive(t) \/ ScanStep(t)
         \/ \E w \in Workers : BeginRaises(w, t)

Spec == Init /\ [][Next]_vars

\* Processes that are up take their next step, a waiting message is received, the
\* dispatcher runs every minute, a scan whose task was published ends, and its signal
\* runs.  The dispatcher's messages get through now and then.  Nothing is assumed of crashes and users.
Fairness ==
    /\ \A s \in Senders : WF_vars(SenderStep(s))
    /\ \A w \in Workers : WF_vars(Work(w))
    /\ \A t \in Occurrences : SF_vars(Receive(t))
    /\ \A t \in Occurrences : WF_vars(scan[t] = "open" /\ ScanEnds(t)) /\ WF_vars(SignalRuns(t))
    /\ WF_vars(Claim)
    /\ SF_vars(Send("beat"))

FairSpec == Spec /\ Fairness

-----------------------------------------------------------------------------
TypeOK ==
    /\ now \in 0..MaxTime
    /\ schedule \in [enabled : BOOLEAN, bound : BOOLEAN, next : 1..(MaxTime + 1)]
    /\ occ \in [Occurrences -> [status : Statuses, attempts : 0..MaxTaken]]
    /\ scan \in [Occurrences -> ScanStatuses]
    /\ unseen \subseteq Occurrences /\ queue \subseteq Occurrences /\ tasks \subseteq Occurrences
    /\ sender \in [Senders -> [at : {"idle", "send", "handle"}, occ : Occurrences]]
    /\ worker \in [Workers -> [at : {"idle", "publish", "mark", "handle"}, occ : Occurrences]]
    /\ published \in [Occurrences -> Nat]
    /\ dropped \subseteq Occurrences /\ scanned \subseteq Occurrences

Publishing(t) == {w \in Workers : worker[w].at = "publish" /\ worker[w].occ = t}

\* A scanner task costs an attempt of its own, so that redeliveries, crashes and
\* repeated claims publish no more tasks than the row admits (enterprise/tasks.py:399-411).
EachAttemptPublishesOnce ==
    \A t \in Occurrences : published[t] + Cardinality(Publishing(t)) <= occ[t].attempts

\* COMPLETED is only said of an occurrence whose scan did complete: neither a late
\* worker nor the signal of a failed or cancelled scan says so (enterprise/signals.py:12-30).
CompletedWasScanned ==
    \A t \in Occurrences : occ[t].status = "completed" => t \in scanned

\* A settled occurrence is not taken up again by late deliveries, marks or signals:
\* only a handler of a failed enqueue still writes FAILED over it, and only a message
\* of an occurrence that failed is worked on again (enterprise/tasks.py:399-406, 472, 479).
SettledIsKept ==
    [][\A t \in Occurrences :
         occ[t].status \in {"completed", "blocked"} /\ occ'[t] # occ[t] =>
            /\ occ'[t].status = "failed"
            /\ occ'[t].attempts = occ[t].attempts]_vars

\* An occurrence that was claimed reaches an outcome, unless one of the steps in
\* "dropped" let go of it: there is no sweep that would find it again
\* (enterprise/tasks.py:509-541).
ClaimedSettles ==
    \A t \in Occurrences :
        (occ[t].status # "absent") ~>
            (occ[t].status \in {"completed", "failed", "blocked"} \/ t \in dropped)
=============================================================================
