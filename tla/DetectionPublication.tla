-------------------------- MODULE DetectionPublication --------------------------
(***************************************************************************)
(* Detection rules and their publication to a SIEM                          *)
(* (services/detection_engineering.py), and the live acceptance of the SIEM *)
(* connector (services/integration_live_acceptance.py).                     *)
(*                                                                          *)
(* A governed request queues one delivery of one revision; a worker hands   *)
(* it to the connector outside of any transaction, and an uncertain outcome *)
(* is never sent again.  Revisions, validations, the connector's            *)
(* configuration and its probes move meanwhile.                             *)
(***************************************************************************)
EXTENDS Naturals, FiniteSets

CONSTANTS
    Requests,      \* governed requests for detection.publish
    Workers,       \* worker processes
    MaxRevision,   \* bound: revisions of the rule
    MaxConfig,     \* bound: configuration generations of the connector
    MaxTests       \* bound: acceptance tests recorded

ASSUME BoundsAssumption ==
    MaxRevision \in Nat \ {0} /\ MaxConfig \in Nat \ {0} /\ MaxTests \in Nat

ASSUME RequestsAssumption == Requests # {}

VARIABLES
    rule,       \* state and latest revision
    validated,  \* revisions with a passed validation
    request,    \* the revision and expected version each request was made for
    delivery,   \* the delivery of each request
    queue,      \* messages of deliver_detection_publication
    worker,     \* the delivery each worker is handing over, and how far it is
    accepted,   \* times the SIEM took each delivery
    config,     \* configuration generation of the connector
    probes,     \* generations whose probe is under way
    test,       \* the latest acceptance test
    live,       \* the latest live acceptance: the test it is bound to, and whether
                \* its review or expiry has passed
    vetted,     \* history: generations on which a probe did succeed
    died        \* history: deliveries whose worker died with them

ruleVars == <<rule, validated, request>>
siemVars == <<config, probes, test, live, vetted>>
sendVars == <<delivery, queue, worker, accepted, died>>
vars == <<rule, validated, request, delivery, queue, worker, accepted,
          config, probes, test, live, vetted, died>>

Revisions == 1..MaxRevision
Configs == 1..MaxConfig
States == {"draft", "validated", "published"}
Statuses == {"none", "queued", "sending", "delivered", "failed", "blocked"}

NoDelivery == [status |-> "none", attempts |-> 0, test |-> 0, config |-> 1]
Idle == [at |-> "idle", request |-> CHOOSE q \in Requests : TRUE]

Init ==
    /\ rule = [state |-> "draft", latest |-> 1]
    /\ validated = {}
    /\ request = [q \in Requests |-> [revision |-> 0, expected |-> 0]]
    /\ delivery = [q \in Requests |-> NoDelivery]
    /\ queue = {} /\ worker = [w \in Workers |-> Idle]
    /\ accepted = [q \in Requests |-> 0] /\ died = {}
    /\ config = 1 /\ probes = {} /\ vetted = {}
    /\ test = [id |-> 0, config |-> 1, passed |-> FALSE]
    /\ live = [test |-> 0, lapsed |-> FALSE]

-----------------------------------------------------------------------------
(* Revisions and validations.                                               *)

CreateRevision ==
    /\ rule.latest < MaxRevision
    /\ rule' = [state |-> "draft", latest |-> rule.latest + 1]
    /\ UNCHANGED <<validated, request, siemVars, sendVars>>

\* Mutant: any validated revision makes the rule VALIDATED.
ValidateAny(v) ==
    /\ v \in 1..rule.latest
    /\ validated' = validated \cup {v}
    /\ rule' = [rule EXCEPT !.state = "validated"]
    /\ UNCHANGED <<request, siemVars, sendVars>>

\* A passed validation; a failed one changes nothing but the record.
Validate(v) ==
    /\ v \in 1..rule.latest
    /\ validated' = validated \cup {v}
    /\ rule' = IF v = rule.latest THEN [rule EXCEPT !.state = "validated"] ELSE rule
    /\ UNCHANGED <<request, siemVars, sendVars>>

-----------------------------------------------------------------------------
(* The connector's live acceptance.                                         *)

Reconfigure ==
    /\ config < MaxConfig
    /\ config' = config + 1
    /\ UNCHANGED <<ruleVars, sendVars, probes, test, live, vetted>>

\* run_integration_acceptance_test reads the configuration, then talks to it.
StartProbe ==
    /\ probes' = probes \cup {config}
    /\ UNCHANGED <<ruleVars, sendVars, config, test, live, vetted>>

\* Mutant: the test is recorded for the configuration of the moment.
RecordCurrent(c) ==
    /\ c \in probes /\ test.id < MaxTests
    /\ probes' = probes \ {c}
    /\ \E passed \in BOOLEAN :
         /\ test' = [id |-> test.id + 1, config |-> config, passed |-> passed]
         /\ vetted' = IF passed THEN vetted \cup {c} ELSE vetted
    /\ UNCHANGED <<ruleVars, sendVars, config, live>>

\* The outcome is recorded for the configuration that was read, however late.
RecordTest(c) ==
    /\ c \in probes /\ test.id < MaxTests
    /\ probes' = probes \ {c}
    /\ \E passed \in BOOLEAN :
         /\ test' = [id |-> test.id + 1, config |-> c, passed |-> passed]
         /\ vetted' = IF passed THEN vetted \cup {c} ELSE vetted
    /\ UNCHANGED <<ruleVars, sendVars, config, live>>

\* accept_integration_live: only the latest test, passed on the current
\* configuration, and a test is accepted once.
AcceptLive ==
    /\ test.passed /\ test.config = config
    /\ live.test # test.id
    /\ live' = [test |-> test.id, lapsed |-> FALSE]
    /\ UNCHANGED <<ruleVars, sendVars, config, probes, test, vetted>>

\* review_at or expires_at passes.
Lapse ==
    /\ live.test # 0 /\ ~live.lapsed
    /\ live' = [live EXCEPT !.lapsed = TRUE]
    /\ UNCHANGED <<ruleVars, sendVars, config, probes, test, vetted>>

\* current_integration_live_acceptance
Live == test.passed /\ test.config = config /\ live.test = test.id /\ ~live.lapsed

-----------------------------------------------------------------------------
(* The governed request and its delivery.                                   *)

VersionOf(v) == v + Cardinality({q \in Requests : request[q].revision = v /\
                                                 delivery[q].status # "none"})

\* A request is made for the version its author sees.
Propose(q, v) ==
    /\ request[q].revision = 0
    /\ v \in 1..rule.latest
    /\ request' = [request EXCEPT ![q] = [revision |-> v, expected |-> VersionOf(v)]]
    /\ UNCHANGED <<rule, validated, siemVars, sendVars>>

\* Mutant: the expected version is not compared.
PublishableUnversioned(q) ==
    /\ request[q].revision = rule.latest
    /\ request[q].revision \in validated
    /\ Live

Publishable(q) ==
    /\ request[q].revision = rule.latest
    /\ request[q].revision \in validated
    /\ request[q].expected = VersionOf(request[q].revision)
    /\ Live

\* queue_publication_delivery; its message is published after the commit, or lost.
\* A request that has its delivery is answered with it.
QueueDelivery(q) ==
    /\ request[q].revision # 0 /\ delivery[q].status = "none"
    /\ Publishable(q)
    /\ delivery' = [delivery EXCEPT ![q] =
                      [status |-> "queued", attempts |-> 0, test |-> live.test, config |-> config]]
    /\ queue' \in {queue, queue \cup {q}}
    /\ UNCHANGED <<ruleVars, siemVars, worker, accepted, died>>

\* Mutant: the dispatcher collects what has failed, not what is queued.
DispatchFailed(q) ==
    /\ delivery[q].status = "failed"
    /\ queue' = queue \cup {q}
    /\ UNCHANGED <<ruleVars, siemVars, delivery, worker, accepted, died>>

\* dispatch_detection_publication_deliveries
DispatchDeliveries(q) ==
    /\ delivery[q].status = "queued"
    /\ queue' = queue \cup {q}
    /\ UNCHANGED <<ruleVars, siemVars, delivery, worker, accepted, died>>

Receives(w, q) == worker[w].at = "idle" /\ q \in queue /\ queue' = queue \ {q}

\* Whatever is not QUEUED is answered, an uncertain SENDING too.
Replay(w, q) ==
    /\ Receives(w, q)
    /\ delivery[q].status # "queued"
    /\ UNCHANGED <<ruleVars, siemVars, delivery, worker, accepted, died>>

\* The same acceptance of the same configuration as when it was queued.
Unchanged(q) == Live /\ live.test = delivery[q].test /\ config = delivery[q].config

BlockDelivery(w, q) ==
    /\ Receives(w, q)
    /\ delivery[q].status = "queued" /\ ~Unchanged(q)
    /\ delivery' = [delivery EXCEPT ![q].status = "blocked"]
    /\ UNCHANGED <<ruleVars, siemVars, worker, accepted, died>>

\* Mutant: a redelivered message sends again what was left in SENDING.
TakeAgain(w, q) ==
    /\ Receives(w, q)
    /\ delivery[q].status \in {"queued", "sending"} /\ Unchanged(q)
    /\ delivery[q].attempts < 2
    /\ delivery' = [delivery EXCEPT ![q].status = "sending", ![q].attempts = @ + 1]
    /\ worker' = [worker EXCEPT ![w] = [at |-> "hand", request |-> q]]
    /\ UNCHANGED <<ruleVars, siemVars, accepted, died>>

Take(w, q) ==
    /\ Receives(w, q)
    /\ delivery[q].status = "queued" /\ Unchanged(q)
    /\ delivery' = [delivery EXCEPT ![q].status = "sending", ![q].attempts = @ + 1]
    /\ worker' = [worker EXCEPT ![w] = [at |-> "hand", request |-> q]]
    /\ UNCHANGED <<ruleVars, siemVars, accepted, died>>

Goto(w, step) == worker' = [worker EXCEPT ![w].at = step]

\* send_integration: taken and answered, refused, or taken without an answer.
Hand(w) ==
    /\ worker[w].at = "hand"
    /\ \/ accepted' = [accepted EXCEPT ![worker[w].request] = @ + 1] /\ Goto(w, "taken")
       \/ accepted' = accepted /\ Goto(w, "failed")
       \/ accepted' = [accepted EXCEPT ![worker[w].request] = @ + 1] /\ Goto(w, "failed")
    /\ UNCHANGED <<ruleVars, siemVars, delivery, queue, died>>

RecordFailure(w) ==
    /\ worker[w].at = "failed"
    /\ LET q == worker[w].request IN
         delivery' = IF delivery[q].status = "sending"
                     THEN [delivery EXCEPT ![q].status = "failed"] ELSE delivery
    /\ worker' = [worker EXCEPT ![w] = Idle]
    /\ UNCHANGED <<ruleVars, siemVars, queue, accepted, died>>

\* Mutant: DELIVERED is written before the transport has answered.
CompleteEarly(w) ==
    /\ worker[w].at \in {"hand", "taken"}
    /\ LET q == worker[w].request IN
         /\ delivery[q].status = "sending"
         /\ delivery' = [delivery EXCEPT ![q].status = "delivered"]
    /\ rule' = [rule EXCEPT !.state = "published"]
    /\ worker' = [worker EXCEPT ![w] = Idle]
    /\ UNCHANGED <<validated, request, siemVars, queue, accepted, died>>

\* The publication, the rule's state and DELIVERED in one transaction.  The rule
\* is PUBLISHED, whichever revision is its latest by now.
Complete(w) ==
    /\ worker[w].at = "taken"
    /\ LET q == worker[w].request IN
         /\ delivery[q].status = "sending"
         /\ delivery' = [delivery EXCEPT ![q].status = "delivered"]
    /\ rule' = [rule EXCEPT !.state = "published"]
    /\ worker' = [worker EXCEPT ![w] = Idle]
    /\ UNCHANGED <<validated, request, siemVars, queue, accepted, died>>

\* That transaction fails, or the worker dies: the delivery stays SENDING.
Crash(w) ==
    /\ worker[w].at # "idle"
    /\ queue' \in {queue, queue \cup {worker[w].request}}
    /\ died' = died \cup {worker[w].request}
    /\ worker' = [worker EXCEPT ![w] = Idle]
    /\ UNCHANGED <<ruleVars, siemVars, delivery, accepted>>

\* The message comes again although its worker lives.
Redeliver(w) ==
    /\ worker[w].at # "idle"
    /\ queue' = queue \cup {worker[w].request}
    /\ UNCHANGED <<ruleVars, siemVars, delivery, worker, accepted, died>>

-----------------------------------------------------------------------------
Receive(q) == \E w \in Workers : Replay(w, q) \/ BlockDelivery(w, q) \/ Take(w, q)
Work(w) == Hand(w) \/ RecordFailure(w) \/ Complete(w)
Author == CreateRevision \/ \E v \in Revisions : Validate(v)
Connector ==
    \/ Reconfigure \/ StartProbe \/ AcceptLive \/ Lapse
    \/ \E c \in Configs : RecordTest(c)

Next ==
    \/ Author \/ Connector
    \/ \E q \in Requests :
         \/ QueueDelivery(q) \/ DispatchDeliveries(q) \/ Receive(q)
         \/ \E v \in Revisions : Propose(q, v)
    \/ \E w \in Workers : Work(w) \/ Crash(w) \/ Redeliver(w)

Spec == Init /\ [][Next]_vars

\* Beat dispatches each minute, a waiting message is received, a worker that is
\* up takes its next step.  Nothing is assumed of people, crashes or connectors.
Fairness ==
    /\ \A q \in Requests : WF_vars(DispatchDeliveries(q)) /\ SF_vars(Receive(q))
    /\ \A w \in Workers : WF_vars(Work(w))

FairSpec == Spec /\ Fairness

-----------------------------------------------------------------------------
TypeOK ==
    /\ rule \in [state : States, latest : Revisions]
    /\ validated \subseteq Revisions
    /\ request \in [Requests -> [revision : 0..MaxRevision, expected : Nat]]
    /\ delivery \in [Requests -> [status : Statuses, attempts : 0..1, test : 0..MaxTests,
                                  config : Configs]]
    /\ queue \subseteq Requests /\ died \subseteq Requests
    /\ worker \in [Workers -> [at : {"idle", "hand", "taken", "failed"}, request : Requests]]
    /\ accepted \in [Requests -> Nat]
    /\ config \in Configs /\ probes \subseteq Configs /\ vetted \subseteq Configs
    /\ test \in [id : 0..MaxTests, config : Configs, passed : BOOLEAN]
    /\ live \in [test : 0..MaxTests, lapsed : BOOLEAN]

\* One request reaches the SIEM once at most: an uncertain transport is never
\* repeated, whatever is redelivered or dispatched (detection_engineering.py:524-526).
AtMostOncePerRequest == \A q \in Requests : accepted[q] <= 1

\* DELIVERED is said of what the SIEM has taken (detection_engineering.py:611-652).
DeliveredWasAccepted ==
    \A q \in Requests : delivery[q].status = "delivered" => accepted[q] = 1

\* A delivery is handed over under a configuration on which a probe has succeeded,
\* although probes and reconfigurations overlap (integration_live_acceptance.py:137-184,
\* enterprise/tasks.py:245-282).
HandedToVettedConnector ==
    \A q \in Requests :
        delivery[q].status \in {"sending", "delivered", "failed"} => delivery[q].config \in vetted

\* Two requests never queue deliveries of one revision for the same version
\* (detection_engineering.py:447-451).
VersionsAreSpentOnce ==
    \A q, r \in Requests :
        q # r /\ delivery[q].status # "none" /\ delivery[r].status # "none" =>
            request[q] # request[r]

\* A rule that says VALIDATED says it of its latest revision (detection_engineering.py:337-340).
ValidatedIsLatest == rule.state = "validated" => rule.latest \in validated

\* A queued delivery gets its outcome, unless its worker died with it: then it
\* stays SENDING, and nothing sends it again (detection_engineering.py:542-545).
QueuedSettles ==
    \A q \in Requests :
        (delivery[q].status = "queued") ~>
            (delivery[q].status \in {"delivered", "failed", "blocked"} \/ q \in died)
=============================================================================
