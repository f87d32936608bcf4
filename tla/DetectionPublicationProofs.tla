----------------------- MODULE DetectionPublicationProofs -----------------------
(***************************************************************************)
(* Theorems about DetectionPublication, for any number of requests, workers, *)
(* revisions, configurations and tests.                                     *)
(*                                                                          *)
(* A delivery leaves QUEUED once and belongs to one worker from then on     *)
(* (Owned); the version of a revision counts its deliveries, so that the    *)
(* version a delivery was queued for is below all later ones (Spent); and a *)
(* passed test is one of a vetted configuration (Tested).                   *)
(***************************************************************************)
EXTENDS DetectionPublication, FiniteSetTheorems, TLAPS

Deliveries == [status : Statuses, attempts : 0..1, test : 0..MaxTests, config : Configs]
WorkerRecords == [at : {"idle", "hand", "taken", "failed"}, request : Requests]

Busy(w) == worker[w].at # "idle"
Waiting(q) == delivery[q].status \in {"none", "queued"}

Owned ==
    /\ \A q \in Requests : Waiting(q) => accepted[q] = 0 /\ delivery[q].attempts = 0
    /\ \A w \in Workers :
         Busy(w) =>
           /\ delivery[worker[w].request].status = "sending"
           /\ worker[w].at = "hand" => accepted[worker[w].request] = 0
           /\ worker[w].at = "taken" => accepted[worker[w].request] = 1
    /\ \A w, v \in Workers :
         Busy(w) /\ Busy(v) /\ w # v => worker[w].request # worker[v].request

Tested == test.passed => test.config \in vetted

\* The deliveries of revision v.
Queued(v) == {q \in Requests : request[q].revision = v /\ delivery[q].status # "none"}

Spent ==
    /\ \A v \in Revisions : IsFiniteSet(Queued(v))
    /\ \A v \in Revisions : \A q \in Queued(v) : request[q].expected < VersionOf(v)
    /\ \A q \in Requests : delivery[q].status # "none" => request[q].revision \in Revisions

TransportInv == Owned /\ AtMostOncePerRequest /\ DeliveredWasAccepted
SiemInv == Tested /\ HandedToVettedConnector
VersionInv == Spent /\ VersionsAreSpentOnce

Inv == TypeOK /\ TransportInv /\ SiemInv /\ VersionInv /\ ValidatedIsLatest

-----------------------------------------------------------------------------
(* Types.                                                                   *)

LEMMA Bounds ==
    /\ 0 \in 0..MaxTests /\ 0 \in 0..MaxRevision /\ 0 \in 0..1 /\ 1 \in 0..1
    /\ 1 \in Configs /\ 1 \in Revisions
    /\ \A v \in Revisions : v \in Nat /\ v \in 0..MaxRevision /\ v # 0 /\ 1..v \subseteq Revisions
BY BoundsAssumption DEF Configs, Revisions

LEMMA IdleTyped == Idle \in WorkerRecords
<1>1. (CHOOSE q \in Requests : TRUE) \in Requests
  BY RequestsAssumption
<1> QED
  BY <1>1 DEF Idle, WorkerRecords

LEMMA InitTyped == Init => TypeOK
<1> SUFFICES ASSUME Init PROVE TypeOK
  OBVIOUS
<1>1. NoDelivery \in Deliveries
  BY Bounds DEF NoDelivery, Deliveries, Statuses
<1>2. rule \in [state : States, latest : Revisions]
  BY Bounds DEF Init, States
<1>3. request \in [Requests -> [revision : 0..MaxRevision, expected : Nat]]
  BY Bounds DEF Init
<1>4. /\ test \in [id : 0..MaxTests, config : Configs, passed : BOOLEAN]
      /\ live \in [test : 0..MaxTests, lapsed : BOOLEAN]
  BY Bounds DEF Init
<1> QED
  BY <1>1, <1>2, <1>3, <1>4, IdleTyped, Bounds
  DEF Init, TypeOK, Deliveries, WorkerRecords

\* A worker that turns to a delivery, goes on with it, or leaves it.
LEMMA WorkerTyped ==
    ASSUME TypeOK, NEW w \in Workers,
           \/ \E q \in Requests, at \in {"hand", "taken", "failed"} :
                worker' = [worker EXCEPT ![w] = [at |-> at, request |-> q]]
           \/ worker' = [worker EXCEPT ![w] = Idle]
    PROVE  /\ worker' \in [Workers -> WorkerRecords]
           /\ \A u \in Workers : u # w => worker'[u] = worker[u]
<1>1. \A q \in Requests, at \in {"hand", "taken", "failed"} :
        [at |-> at, request |-> q] \in WorkerRecords
  BY DEF WorkerRecords
<1>2. worker \in [Workers -> WorkerRecords]
  BY DEF TypeOK, WorkerRecords
<1> QED
  BY <1>1, <1>2, IdleTyped

LEMMA GotoTyped ==
    ASSUME TypeOK, NEW w \in Workers, NEW at \in {"hand", "taken", "failed"}, Goto(w, at)
    PROVE  /\ worker' \in [Workers -> WorkerRecords]
           /\ worker'[w] = [at |-> at, request |-> worker[w].request]
           /\ \A u \in Workers : u # w => worker'[u] = worker[u]
BY DEF TypeOK, Goto, WorkerRecords

\* A delivery whose status alone changes.
LEMMA StatusTyped ==
    ASSUME TypeOK, NEW q \in Requests, NEW status \in Statuses,
           delivery' = [delivery EXCEPT ![q].status = status]
    PROVE  /\ delivery' \in [Requests -> Deliveries]
           /\ delivery'[q] = [delivery[q] EXCEPT !.status = status]
           /\ delivery'[q].status = status
           /\ delivery'[q].config = delivery[q].config
           /\ \A r \in Requests : r # q => delivery'[r] = delivery[r]
BY DEF TypeOK, Deliveries

LEMMA AuthorTyped == TypeOK /\ Author => TypeOK'
<1> SUFFICES ASSUME TypeOK, Author PROVE TypeOK'
  OBVIOUS
<1>1. CASE CreateRevision
  <2>1. rule.latest + 1 \in Revisions
    BY <1>1, BoundsAssumption DEF CreateRevision, TypeOK, Revisions
  <2> QED
    BY <1>1, <2>1 DEF CreateRevision, TypeOK, States, siemVars, sendVars
<1>2. ASSUME NEW v \in Revisions, Validate(v) PROVE TypeOK'
  BY <1>2 DEF Validate, TypeOK, States, siemVars, sendVars
<1> QED
  BY <1>1, <1>2 DEF Author

LEMMA ConnectorTyped == TypeOK /\ Connector => TypeOK'
<1> SUFFICES ASSUME TypeOK, Connector PROVE TypeOK'
  OBVIOUS
<1>1. CASE Reconfigure
  <2>1. config + 1 \in Configs
    BY <1>1, BoundsAssumption DEF Reconfigure, TypeOK, Configs
  <2> QED
    BY <1>1, <2>1 DEF Reconfigure, TypeOK, ruleVars, sendVars
<1>2. CASE StartProbe
  BY <1>2 DEF StartProbe, TypeOK, ruleVars, sendVars
<1>3. CASE AcceptLive
  BY <1>3 DEF AcceptLive, TypeOK, ruleVars, sendVars
<1>4. CASE Lapse
  BY <1>4 DEF Lapse, TypeOK, ruleVars, sendVars
<1>5. ASSUME NEW c \in Configs, RecordTest(c) PROVE TypeOK'
  <2>1. test.id + 1 \in 0..MaxTests
    BY <1>5, BoundsAssumption DEF RecordTest, TypeOK
  <2> QED
    BY <1>5, <2>1 DEF RecordTest, TypeOK, ruleVars, sendVars
<1> QED
  BY <1>1, <1>2, <1>3, <1>4, <1>5 DEF Connector

LEMMA TakeTyped ==
    ASSUME TypeOK, Owned, NEW q \in Requests, NEW w \in Workers, Take(w, q)
    PROVE  /\ TypeOK'
           /\ delivery'[q].status = "sending" /\ delivery'[q].config = delivery[q].config
           /\ \A r \in Requests : r # q => delivery'[r] = delivery[r]
           /\ worker'[w] = [at |-> "hand", request |-> q]
           /\ \A u \in Workers : u # w => worker'[u] = worker[u]
<1>1. delivery[q].attempts = 0
  BY DEF Take, Owned, Waiting
<1>2. /\ delivery' \in [Requests -> Deliveries]
      /\ delivery'[q].status = "sending" /\ delivery'[q].config = delivery[q].config
      /\ \A r \in Requests : r # q => delivery'[r] = delivery[r]
  BY <1>1 DEF Take, TypeOK, Deliveries, Statuses
<1>3. /\ worker' \in [Workers -> WorkerRecords]
      /\ worker'[w] = [at |-> "hand", request |-> q]
      /\ \A u \in Workers : u # w => worker'[u] = worker[u]
  BY DEF Take, TypeOK, WorkerRecords
<1> QED
  BY <1>2, <1>3 DEF Take, Receives, TypeOK, ruleVars, siemVars, Deliveries, WorkerRecords

LEMMA VersionTyped ==
    ASSUME NEW v \in Revisions, IsFiniteSet(Queued(v))
    PROVE  VersionOf(v) = v + Cardinality(Queued(v)) /\ VersionOf(v) \in Nat
BY Bounds, FS_CardinalityType DEF VersionOf, Queued

LEMMA RequestTyped ==
    ASSUME TypeOK, Spent, NEW q \in Requests,
           \/ QueueDelivery(q) \/ DispatchDeliveries(q)
           \/ \E v \in Revisions : Propose(q, v)
    PROVE  TypeOK'
<1>1. CASE QueueDelivery(q)
  <2>1. [status |-> "queued", attempts |-> 0, test |-> live.test, config |-> config]
           \in Deliveries
    BY Bounds DEF TypeOK, Deliveries, Statuses
  <2> QED
    BY <1>1, <2>1 DEF QueueDelivery, TypeOK, ruleVars, siemVars, Deliveries
<1>2. CASE DispatchDeliveries(q)
  BY <1>2 DEF DispatchDeliveries, TypeOK, ruleVars, siemVars
<1>3. ASSUME NEW v \in Revisions, Propose(q, v) PROVE TypeOK'
  <2>1. VersionOf(v) \in Nat
    BY VersionTyped DEF Spent
  <2> QED
    BY <1>3, <2>1, Bounds DEF Propose, TypeOK, siemVars, sendVars
<1> QED
  BY <1>1, <1>2, <1>3

LEMMA ReceiveTyped ==
    ASSUME TypeOK, Owned, NEW q \in Requests, NEW w \in Workers,
           Replay(w, q) \/ BlockDelivery(w, q) \/ Take(w, q)
    PROVE  TypeOK'
<1>1. CASE Replay(w, q)
  BY <1>1 DEF Replay, Receives, TypeOK, ruleVars, siemVars
<1>2. CASE BlockDelivery(w, q)
  <2>1. "blocked" \in Statuses
    BY DEF Statuses
  <2> QED
    BY <1>2, <2>1, StatusTyped
    DEF BlockDelivery, Receives, TypeOK, ruleVars, siemVars, Deliveries
<1> QED
  BY <1>1, <1>2, TakeTyped

LEMMA WorkTyped ==
    ASSUME TypeOK, NEW w \in Workers, Work(w) \/ Crash(w) \/ Redeliver(w)
    PROVE  TypeOK'
<1> DEFINE q == worker[w].request
<1>1. q \in Requests /\ "failed" \in Statuses /\ "delivered" \in Statuses
  BY DEF TypeOK, Statuses
<1>2. CASE Hand(w)
  <2>1. worker' \in [Workers -> WorkerRecords]
    BY <1>2, GotoTyped DEF Hand
  <2>2. accepted' \in [Requests -> Nat]
    <3>1. [accepted EXCEPT ![q] = @ + 1] \in [Requests -> Nat]
      BY <1>1 DEF TypeOK
    <3> QED
      BY <1>2, <3>1 DEF Hand, TypeOK
  <2> QED
    BY <1>2, <2>1, <2>2 DEF Hand, TypeOK, ruleVars, siemVars, WorkerRecords
<1>3. CASE RecordFailure(w)
  <2>1. delivery' \in [Requests -> Deliveries]
    BY <1>1, <1>3, StatusTyped DEF RecordFailure, TypeOK, Deliveries
  <2> QED
    BY <1>3, <2>1, WorkerTyped DEF RecordFailure, TypeOK, ruleVars, siemVars, WorkerRecords, Deliveries
<1>4. CASE Complete(w)
  <2>1. delivery' \in [Requests -> Deliveries]
    BY <1>1, <1>4, StatusTyped DEF Complete
  <2> QED
    BY <1>4, <2>1, WorkerTyped
    DEF Complete, TypeOK, States, siemVars, WorkerRecords, Deliveries
<1>5. CASE Crash(w)
  BY <1>1, <1>5, WorkerTyped DEF Crash, TypeOK, ruleVars, siemVars, WorkerRecords
<1>6. CASE Redeliver(w)
  BY <1>1, <1>6 DEF Redeliver, TypeOK, ruleVars, siemVars
<1> QED
  BY <1>2, <1>3, <1>4, <1>5, <1>6 DEF Work

LEMMA TypeStep == TypeOK /\ Owned /\ Spent /\ [Next]_vars => TypeOK'
<1> SUFFICES ASSUME TypeOK, Owned, Spent, [Next]_vars PROVE TypeOK'
  OBVIOUS
<1>1. CASE UNCHANGED vars
  BY <1>1 DEF vars, TypeOK
<1> QED
  BY <1>1, AuthorTyped, ConnectorTyped, RequestTyped, ReceiveTyped, WorkTyped DEF Next, Receive

-----------------------------------------------------------------------------
(* The transport.                                                           *)

\* A delivery that is not waiting keeps what was accepted of it, and its worker.
LEMMA TransportKept ==
    ASSUME TypeOK, TransportInv, UNCHANGED <<worker, accepted>>,
           \A q \in Requests :
             \/ delivery'[q] = delivery[q]
             \/ /\ Waiting(q) /\ delivery'[q].attempts = 0
                /\ delivery'[q].status \in {"queued", "blocked"}
    PROVE  TransportInv'
<1>1. Owned'
  <2>1. \A q \in Requests : Waiting(q)' => Waiting(q)
    BY DEF Waiting
  <2>2. \A q \in Requests : Waiting(q)' => delivery'[q].attempts = 0
    BY <2>1 DEF TransportInv, Owned
  <2>3. \A q \in Requests : delivery[q].status = "sending" => delivery'[q].status = "sending"
    BY DEF Waiting
  <2>4. \A w \in Workers : worker[w].request \in Requests
    BY DEF TypeOK
  <2> QED
    BY <2>1, <2>2, <2>3, <2>4 DEF TransportInv, Owned, Busy
<1>2. DeliveredWasAccepted'
  BY DEF TransportInv, DeliveredWasAccepted
<1> QED
  BY <1>1, <1>2 DEF TransportInv, AtMostOncePerRequest

LEMMA TakeTransport ==
    ASSUME TypeOK, TransportInv, NEW q \in Requests, NEW w \in Workers, Take(w, q)
    PROVE  TransportInv'
<1>1. /\ delivery'[q].status = "sending"
      /\ \A r \in Requests : r # q => delivery'[r] = delivery[r]
      /\ worker'[w] = [at |-> "hand", request |-> q]
      /\ \A u \in Workers : u # w => worker'[u] = worker[u]
  BY TakeTyped DEF TransportInv
<1>2. delivery[q].status = "queued" /\ accepted' = accepted
  BY DEF Take
<1>3. accepted[q] = 0 /\ \A u \in Workers : Busy(u) => worker[u].request # q
  BY <1>2 DEF TransportInv, Owned, Waiting
<1>4. \A u \in Workers : worker[u].request \in Requests
  BY DEF TypeOK
<1>5. Owned'
  <2>1. \A r \in Requests : Waiting(r)' => accepted'[r] = 0 /\ delivery'[r].attempts = 0
    BY <1>1, <1>2 DEF TransportInv, Owned, Waiting
  <2>2. ASSUME NEW u \in Workers, Busy(u)'
        PROVE  /\ delivery'[worker'[u].request].status = "sending"
               /\ worker'[u].at = "hand" => accepted'[worker'[u].request] = 0
               /\ worker'[u].at = "taken" => accepted'[worker'[u].request] = 1
    <3>1. CASE u = w
      BY <1>1, <1>2, <1>3, <3>1
    <3>2. CASE u # w
      BY <1>1, <1>2, <1>3, <1>4, <2>2, <3>2 DEF TransportInv, Owned, Busy
    <3> QED
      BY <3>1, <3>2
  <2>3. \A u, v \in Workers : Busy(u)' /\ Busy(v)' /\ u # v => worker'[u].request # worker'[v].request
    BY <1>1, <1>3 DEF TransportInv, Owned, Busy
  <2> QED
    BY <2>1, <2>2, <2>3 DEF Owned
<1>6. DeliveredWasAccepted'
  BY <1>1, <1>2 DEF TransportInv, DeliveredWasAccepted
<1> QED
  BY <1>2, <1>5, <1>6 DEF TransportInv, AtMostOncePerRequest

LEMMA HandTransport ==
    ASSUME TypeOK, TransportInv, NEW w \in Workers, Hand(w)
    PROVE  TransportInv'
<1> DEFINE q == worker[w].request
<1>1. /\ q \in Requests /\ Busy(w) /\ accepted[q] = 0 /\ delivery' = delivery
      /\ delivery[q].status = "sending"
  BY DEF Hand, TypeOK, TransportInv, Owned, Busy
<1>2. PICK at \in {"taken", "failed"} :
         /\ Goto(w, at)
         /\ at = "taken" => accepted' = [accepted EXCEPT ![q] = @ + 1]
         /\ accepted' = accepted \/ accepted' = [accepted EXCEPT ![q] = @ + 1]
  BY DEF Hand
<1>3. /\ worker'[w] = [at |-> at, request |-> q]
      /\ \A u \in Workers : u # w => worker'[u] = worker[u]
  BY <1>2, GotoTyped
<1>4. /\ \A r \in Requests : r # q => accepted'[r] = accepted[r]
      /\ accepted'[q] \in {0, 1}
      /\ at = "taken" => accepted'[q] = 1
  BY <1>1, <1>2 DEF TypeOK
<1>5. \A u \in Workers : u # w /\ Busy(u) => worker[u].request # q
  BY <1>1 DEF TransportInv, Owned
<1>6. \A u \in Workers : worker[u].request \in Requests
  BY DEF TypeOK
<1>7. Owned'
  <2>1. \A r \in Requests : Waiting(r)' => accepted'[r] = 0 /\ delivery'[r].attempts = 0
    BY <1>1, <1>4 DEF TransportInv, Owned, Waiting
  <2>2. ASSUME NEW u \in Workers, Busy(u)'
        PROVE  /\ delivery'[worker'[u].request].status = "sending"
               /\ worker'[u].at = "hand" => accepted'[worker'[u].request] = 0
               /\ worker'[u].at = "taken" => accepted'[worker'[u].request] = 1
    <3>1. CASE u = w
      BY <1>1, <1>3, <1>4, <3>1
    <3>2. CASE u # w
      BY <1>1, <1>3, <1>4, <1>5, <1>6, <2>2, <3>2 DEF TransportInv, Owned, Busy
    <3> QED
      BY <3>1, <3>2
  <2>3. \A u, v \in Workers : Busy(u)' /\ Busy(v)' /\ u # v => worker'[u].request # worker'[v].request
    BY <1>1, <1>3 DEF TransportInv, Owned, Busy
  <2> QED
    BY <2>1, <2>2, <2>3 DEF Owned
<1>8. DeliveredWasAccepted'
  BY <1>1, <1>4 DEF TransportInv, DeliveredWasAccepted
<1>9. AtMostOncePerRequest'
  BY <1>4 DEF TransportInv, AtMostOncePerRequest
<1> QED
  BY <1>7, <1>8, <1>9 DEF TransportInv

\* The worker ends, with its outcome or without one.
LEMMA EndTransport ==
    ASSUME TypeOK, TransportInv, NEW w \in Workers,
           RecordFailure(w) \/ Complete(w) \/ Crash(w)
    PROVE  TransportInv'
<1> DEFINE q == worker[w].request
<1>1. /\ q \in Requests /\ Busy(w) /\ accepted' = accepted
      /\ delivery[q].status = "sending"
  BY DEF RecordFailure, Complete, Crash, TypeOK, TransportInv, Owned, Busy
<1>2. worker'[w].at = "idle" /\ \A u \in Workers : u # w => worker'[u] = worker[u]
  BY DEF RecordFailure, Complete, Crash, TypeOK, Idle
<1>3. /\ \A r \in Requests : r # q => delivery'[r] = delivery[r]
      /\ delivery'[q].status \in {"sending", "failed", "delivered"}
      /\ delivery'[q].status = "delivered" => accepted[q] = 1
  <2>1. "failed" \in Statuses /\ "delivered" \in Statuses
    BY DEF Statuses
  <2>2. CASE RecordFailure(w)
    BY <1>1, <2>1, <2>2, StatusTyped DEF RecordFailure
  <2>3. CASE Complete(w)
    BY <1>1, <2>1, <2>3, StatusTyped DEF Complete, TransportInv, Owned
  <2>4. CASE Crash(w)
    BY <1>1, <2>4 DEF Crash
  <2> QED
    BY <2>2, <2>3, <2>4
<1>4. \A u \in Workers : u # w /\ Busy(u) => worker[u].request # q /\ worker[u].request \in Requests
  BY <1>1 DEF TransportInv, Owned, TypeOK
<1>5. Owned'
  <2>1. \A r \in Requests : Waiting(r)' => accepted'[r] = 0 /\ delivery'[r].attempts = 0
    BY <1>1, <1>3 DEF TransportInv, Owned, Waiting
  <2>2. ASSUME NEW u \in Workers, Busy(u)'
        PROVE  /\ delivery'[worker'[u].request].status = "sending"
               /\ worker'[u].at = "hand" => accepted'[worker'[u].request] = 0
               /\ worker'[u].at = "taken" => accepted'[worker'[u].request] = 1
    BY <1>1, <1>2, <1>3, <1>4, <2>2 DEF TransportInv, Owned, Busy
  <2>3. \A u, v \in Workers : Busy(u)' /\ Busy(v)' /\ u # v => worker'[u].request # worker'[v].request
    BY <1>2 DEF TransportInv, Owned, Busy
  <2> QED
    BY <2>1, <2>2, <2>3 DEF Owned
<1>6. DeliveredWasAccepted'
  BY <1>1, <1>3 DEF TransportInv, DeliveredWasAccepted
<1> QED
  BY <1>1, <1>5, <1>6 DEF TransportInv, AtMostOncePerRequest

LEMMA TransportStep == TypeOK /\ TransportInv /\ [Next]_vars => TransportInv'
<1> SUFFICES ASSUME TypeOK, TransportInv, [Next]_vars PROVE TransportInv'
  OBVIOUS
<1>1. ASSUME UNCHANGED <<delivery, worker, accepted>> PROVE TransportInv'
  BY <1>1, TransportKept
<1>2. ASSUME NEW q \in Requests, QueueDelivery(q) PROVE TransportInv'
  <2>1. \A r \in Requests : r # q => delivery'[r] = delivery[r]
    BY <1>2 DEF QueueDelivery, TypeOK
  <2>2. Waiting(q) /\ delivery'[q].attempts = 0 /\ delivery'[q].status = "queued"
    BY <1>2 DEF QueueDelivery, TypeOK, Waiting
  <2> QED
    BY <1>2, <2>1, <2>2, TransportKept DEF QueueDelivery
<1>3. ASSUME NEW q \in Requests, NEW w \in Workers, BlockDelivery(w, q) PROVE TransportInv'
  <2>1. \A r \in Requests : r # q => delivery'[r] = delivery[r]
    BY <1>3 DEF BlockDelivery, TypeOK
  <2>2. Waiting(q) /\ delivery'[q].attempts = 0 /\ delivery'[q].status = "blocked"
    BY <1>3 DEF BlockDelivery, TypeOK, Waiting, TransportInv, Owned
  <2> QED
    BY <1>3, <2>1, <2>2, TransportKept DEF BlockDelivery
<1> QED
  BY <1>1, <1>2, <1>3, TakeTransport, HandTransport, EndTransport
  DEF Next, Author, CreateRevision, Validate, Connector, Reconfigure, StartProbe, AcceptLive,
      Lapse, RecordTest, DispatchDeliveries, Propose, Receive, Replay, Work, Redeliver,
      sendVars, vars

-----------------------------------------------------------------------------
(* The connector.                                                           *)

LEMMA SiemStep == TypeOK /\ SiemInv /\ [Next]_vars => SiemInv'
<1> SUFFICES ASSUME TypeOK, SiemInv, [Next]_vars PROVE SiemInv'
  OBVIOUS
<1>1. ASSUME UNCHANGED <<delivery, test, vetted>> PROVE SiemInv'
  BY <1>1 DEF SiemInv, Tested, HandedToVettedConnector
<1>2. ASSUME NEW c \in Configs, RecordTest(c) PROVE SiemInv'
  BY <1>2 DEF RecordTest, SiemInv, Tested, HandedToVettedConnector, TypeOK, sendVars
<1>3. ASSUME NEW q \in Requests, delivery' = [delivery EXCEPT ![q].status = "blocked"],
             UNCHANGED <<test, vetted>>
      PROVE  SiemInv'
  BY <1>3 DEF SiemInv, Tested, HandedToVettedConnector, TypeOK
<1>4. ASSUME NEW q \in Requests, QueueDelivery(q) PROVE SiemInv'
  BY <1>4 DEF QueueDelivery, SiemInv, Tested, HandedToVettedConnector, TypeOK, siemVars
<1>5. ASSUME NEW q \in Requests, NEW w \in Workers, Take(w, q) PROVE SiemInv'
  <2>1. delivery[q].config \in vetted
    BY <1>5 DEF Take, Unchanged, Live, SiemInv, Tested
  <2> QED
    BY <1>5, <2>1 DEF Take, SiemInv, Tested, HandedToVettedConnector, TypeOK, siemVars
<1>6. ASSUME NEW w \in Workers, RecordFailure(w) \/ Complete(w) PROVE SiemInv'
  <2> DEFINE q == worker[w].request
  <2>1. q \in Requests /\ "failed" \in Statuses /\ "delivered" \in Statuses
    BY DEF TypeOK, Statuses
  <2>2. CASE delivery' = delivery
    BY <1>6, <2>2 DEF RecordFailure, Complete, SiemInv, Tested, HandedToVettedConnector, siemVars
  <2>3. CASE delivery' # delivery
    <3>1. delivery[q].status = "sending"
      BY <1>6, <2>3 DEF RecordFailure, Complete
    <3>2. \A r \in Requests : delivery'[r].config = delivery[r].config
                              /\ (r # q => delivery'[r] = delivery[r])
      BY <1>6, <2>1, <2>3, StatusTyped DEF RecordFailure, Complete
    <3> QED
      BY <1>6, <2>1, <3>1, <3>2
      DEF RecordFailure, Complete, SiemInv, Tested, HandedToVettedConnector, siemVars
  <2> QED
    BY <2>2, <2>3
<1> QED
  BY <1>1, <1>2, <1>3, <1>4, <1>5, <1>6
  DEF Next, Author, CreateRevision, Validate, Connector, Reconfigure, StartProbe, AcceptLive,
      Lapse, DispatchDeliveries, Propose, Receive, Replay, BlockDelivery, Work, Hand, Crash,
      Redeliver, sendVars, siemVars, vars

-----------------------------------------------------------------------------
(* Versions.                                                                *)

\* Nothing but a new delivery changes the deliveries of a revision.
LEMMA VersionsKept ==
    ASSUME TypeOK, VersionInv,
           \A q \in Requests : delivery'[q].status # "none" <=> delivery[q].status # "none",
           \A q \in Requests : delivery[q].status # "none" => request'[q] = request[q]
    PROVE  VersionInv'
<1>1. \A v \in Revisions : Queued(v)' = Queued(v)
  BY DEF Queued
<1>2. \A v \in Revisions : VersionOf(v)' = VersionOf(v)
  BY <1>1 DEF VersionOf, Queued
<1>3. \A v \in Revisions : \A q \in Queued(v) : request'[q] = request[q]
  BY DEF Queued
<1>4. Spent'
  <2>1. \A v \in Revisions : \A q \in Queued(v)' : request'[q].expected < VersionOf(v)'
    BY <1>1, <1>2, <1>3 DEF VersionInv, Spent
  <2>2. \A v \in Revisions : IsFiniteSet(Queued(v)')
    BY <1>1 DEF VersionInv, Spent
  <2>3. \A q \in Requests : delivery'[q].status # "none" => request'[q].revision \in Revisions
    BY DEF VersionInv, Spent
  <2> QED
    BY <2>1, <2>2, <2>3 DEF Spent
<1> QED
  BY <1>4 DEF VersionInv, VersionsAreSpentOnce

LEMMA QueueVersions ==
    ASSUME TypeOK, VersionInv, NEW q \in Requests, NEW v \in Revisions,
           v = request[q].revision, QueueDelivery(q)
    PROVE  VersionInv'
<1>1. request[q].expected = VersionOf(v) /\ request' = request
  BY DEF QueueDelivery, Publishable, ruleVars
<1>2. /\ delivery[q].status = "none" /\ delivery'[q].status = "queued"
      /\ \A r \in Requests : r # q => delivery'[r] = delivery[r]
  BY DEF QueueDelivery, TypeOK
<1>3. Queued(v)' = Queued(v) \cup {q} /\ q \notin Queued(v)
  BY <1>1, <1>2 DEF Queued
<1>4. /\ IsFiniteSet(Queued(v)) /\ IsFiniteSet(Queued(v)')
      /\ Cardinality(Queued(v)) \in Nat
      /\ Cardinality(Queued(v)') = Cardinality(Queued(v)) + 1
  BY <1>3, FS_AddElement, FS_CardinalityType DEF VersionInv, Spent
<1>5. VersionOf(v) \in Nat /\ VersionOf(v)' = VersionOf(v) + 1
  <2>1. VersionOf(v) = v + Cardinality(Queued(v)) /\ VersionOf(v)' = v + Cardinality(Queued(v)')
    BY DEF VersionOf, Queued
  <2> QED
    BY <1>4, <2>1, Bounds
<1>6. \A u \in Revisions : u # v => Queued(u)' = Queued(u)
  BY <1>1, <1>2 DEF Queued
<1>7. \A u \in Revisions : u # v => VersionOf(u)' = VersionOf(u)
  BY <1>6 DEF VersionOf, Queued
<1>8. \A r \in Requests : request[r].expected \in Nat
  BY DEF TypeOK
<1>9. Spent'
  <2>1. \A u \in Revisions : IsFiniteSet(Queued(u)')
    BY <1>4, <1>6 DEF VersionInv, Spent
  <2>2. ASSUME NEW u \in Revisions, NEW r \in Requests, r \in Queued(u)'
        PROVE  request'[r].expected < VersionOf(u)'
    <3>1. CASE u # v
      BY <1>1, <1>6, <1>7, <2>2, <3>1 DEF VersionInv, Spent
    <3>2. CASE u = v /\ r = q
      BY <1>1, <1>5, <3>2
    <3>3. CASE u = v /\ r # q
      <4>1. request[r].expected < VersionOf(v)
        BY <1>3, <2>2, <3>3 DEF VersionInv, Spent
      <4> QED
        BY <1>1, <1>5, <1>8, <3>3, <4>1
    <3> QED
      BY <3>1, <3>2, <3>3
  <2>3. \A r \in Requests : delivery'[r].status # "none" => request'[r].revision \in Revisions
    BY <1>1, <1>2 DEF VersionInv, Spent
  <2>4. \A u \in Revisions : Queued(u)' \subseteq Requests
    BY DEF Queued
  <2> QED
    BY <2>1, <2>2, <2>3, <2>4 DEF Spent
<1>10. VersionsAreSpentOnce'
  <2> SUFFICES ASSUME NEW r \in Requests, r # q, delivery'[r].status # "none"
               PROVE  request[q] # request[r]
    BY <1>1, <1>2 DEF VersionsAreSpentOnce, VersionInv
  <2>1. CASE request[r].revision = v
    <3>1. r \in Queued(v)
      BY <1>2, <2>1 DEF Queued
    <3>2. request[r].expected < VersionOf(v)
      BY <3>1 DEF VersionInv, Spent
    <3> QED
      BY <1>1, <1>5, <1>8, <3>2
  <2>2. CASE request[r].revision # v
    BY <2>2
  <2> QED
    BY <2>1, <2>2
<1> QED
  BY <1>9, <1>10 DEF VersionInv

LEMMA VersionStep == TypeOK /\ VersionInv /\ [Next]_vars => VersionInv'
<1> SUFFICES ASSUME TypeOK, VersionInv, [Next]_vars PROVE VersionInv'
  OBVIOUS
<1>1. ASSUME UNCHANGED <<delivery, request>> PROVE VersionInv'
  BY <1>1, VersionsKept
<1>2. ASSUME NEW q \in Requests, NEW v \in Revisions, Propose(q, v) PROVE VersionInv'
  <2>1. request[q].revision = 0 /\ delivery' = delivery
    BY <1>2 DEF Propose, sendVars
  <2>2. delivery[q].status = "none"
    BY <2>1, Bounds DEF VersionInv, Spent
  <2>3. \A r \in Requests : r # q => request'[r] = request[r]
    BY <1>2 DEF Propose, TypeOK
  <2> QED
    BY <2>1, <2>2, <2>3, VersionsKept
<1>3. ASSUME NEW q \in Requests, NEW status \in Statuses \ {"none"}, delivery[q].status # "none",
             delivery' = [delivery EXCEPT ![q].status = status], request' = request
      PROVE  VersionInv'
  BY <1>3, StatusTyped, VersionsKept
<1>4. ASSUME NEW q \in Requests, NEW w \in Workers, BlockDelivery(w, q) PROVE VersionInv'
  <2>1. "blocked" \in Statuses \ {"none"}
    BY DEF Statuses
  <2> QED
    BY <1>3, <1>4, <2>1 DEF BlockDelivery, ruleVars
<1>5. ASSUME NEW q \in Requests, NEW w \in Workers, Take(w, q) PROVE VersionInv'
  BY <1>5, VersionsKept DEF Take, TypeOK, ruleVars
<1>6. ASSUME NEW w \in Workers, RecordFailure(w) \/ Complete(w) PROVE VersionInv'
  <2>1. worker[w].request \in Requests /\ {"failed", "delivered"} \subseteq Statuses \ {"none"}
    BY DEF TypeOK, Statuses
  <2> QED
    BY <1>1, <1>3, <1>6, <2>1 DEF RecordFailure, Complete, ruleVars
<1>7. ASSUME NEW q \in Requests, QueueDelivery(q) PROVE VersionInv'
  <2>1. request[q].revision \in Revisions
    BY <1>7 DEF QueueDelivery, Publishable, TypeOK
  <2> QED
    BY <1>7, <2>1, QueueVersions
<1> QED
  BY <1>1, <1>2, <1>4, <1>5, <1>6, <1>7
  DEF Next, Author, CreateRevision, Validate, Connector, Reconfigure, StartProbe, AcceptLive,
      Lapse, RecordTest, DispatchDeliveries, Receive, Replay, Work, Hand, Crash, Redeliver,
      ruleVars, sendVars, vars

-----------------------------------------------------------------------------
(* The invariant.                                                           *)

LEMMA InitInv == Init => Inv
<1> SUFFICES ASSUME Init PROVE Inv
  OBVIOUS
<1>1. \A q \in Requests : delivery[q] = NoDelivery
  BY DEF Init
<1>2. TransportInv
  BY <1>1 DEF Init, Idle, NoDelivery, TransportInv, Owned, Busy, AtMostOncePerRequest,
              DeliveredWasAccepted
<1>3. SiemInv
  BY <1>1 DEF Init, NoDelivery, SiemInv, Tested, HandedToVettedConnector
<1>4. VersionInv
  <2>1. \A v \in Revisions : Queued(v) = {}
    BY <1>1 DEF Queued, NoDelivery
  <2>2. \A v \in Revisions : IsFiniteSet(Queued(v))
    BY <2>1, FS_EmptySet
  <2> QED
    BY <1>1, <2>1, <2>2 DEF NoDelivery, VersionInv, Spent, VersionsAreSpentOnce
<1>5. ValidatedIsLatest
  BY DEF Init, ValidatedIsLatest
<1> QED
  BY <1>2, <1>3, <1>4, <1>5, InitTyped DEF Inv

LEMMA LatestStep == TypeOK /\ ValidatedIsLatest /\ [Next]_vars => ValidatedIsLatest'
<1> SUFFICES ASSUME TypeOK, ValidatedIsLatest, [Next]_vars PROVE ValidatedIsLatest'
  OBVIOUS
<1>1. ASSUME UNCHANGED <<rule, validated>> PROVE ValidatedIsLatest'
  BY <1>1 DEF ValidatedIsLatest
<1>2. ASSUME CreateRevision PROVE ValidatedIsLatest'
  BY <1>2 DEF CreateRevision, ValidatedIsLatest
<1>3. ASSUME NEW v \in Revisions, Validate(v) PROVE ValidatedIsLatest'
  BY <1>3 DEF Validate, ValidatedIsLatest, TypeOK
<1>4. ASSUME NEW w \in Workers, Complete(w) PROVE ValidatedIsLatest'
  BY <1>4 DEF Complete, ValidatedIsLatest, TypeOK
<1> QED
  BY <1>1, <1>2, <1>3, <1>4
  DEF Next, Author, Connector, Reconfigure, StartProbe, AcceptLive, Lapse, RecordTest,
      QueueDelivery, DispatchDeliveries, Propose, Receive, Replay, BlockDelivery, Take, Work,
      Hand, RecordFailure, Crash, Redeliver, ruleVars, vars

LEMMA NextInv == Inv /\ [Next]_vars => Inv'
BY TypeStep, TransportStep, SiemStep, VersionStep, LatestStep DEF Inv, TransportInv, VersionInv

\* The invariant holds in every reachable state, for any numbers of requests, workers,
\* revisions and configurations (detection_engineering.py:266-655).
THEOREM Invariant == Spec => []Inv
<1>1. Init => Inv
  BY InitInv
<1>2. Inv /\ [Next]_vars => Inv'
  BY NextInv
<1> QED
  BY <1>1, <1>2, PTL DEF Spec

\* Rule, requests, deliveries, workers and connector stay well typed, and a delivery
\* is attempted once (detection_engineering.py:266-655).
THEOREM TypeCorrect == Spec => []TypeOK
<1>1. Inv => TypeOK
  BY DEF Inv
<1> QED
  BY <1>1, Invariant, PTL

\* No request reaches the SIEM twice, for any number of workers and redeliveries
\* (detection_engineering.py:524-581).
THEOREM PublishedAtMostOnce == Spec => []AtMostOncePerRequest
<1>1. Inv => AtMostOncePerRequest
  BY DEF Inv, TransportInv
<1> QED
  BY <1>1, Invariant, PTL

\* DELIVERED is said of what the SIEM took (detection_engineering.py:595-655).
THEOREM DeliveryIsReal == Spec => []DeliveredWasAccepted
<1>1. Inv => DeliveredWasAccepted
  BY DEF Inv, TransportInv
<1> QED
  BY <1>1, Invariant, PTL

\* What is handed over goes to a configuration on which a probe succeeded
\* (integration_live_acceptance.py:137-404).
THEOREM OnlyVettedConnectors == Spec => []HandedToVettedConnector
<1>1. Inv => HandedToVettedConnector
  BY DEF Inv, SiemInv
<1> QED
  BY <1>1, Invariant, PTL

\* No two deliveries of a revision were requested for one version
\* (detection_engineering.py:447-451).
THEOREM PublicationVersionsSpentOnce == Spec => []VersionsAreSpentOnce
<1>1. Inv => VersionsAreSpentOnce
  BY DEF Inv, VersionInv
<1> QED
  BY <1>1, Invariant, PTL

\* VALIDATED is said of the latest revision (detection_engineering.py:337-340).
THEOREM ValidationIsLatest == Spec => []ValidatedIsLatest
<1>1. Inv => ValidatedIsLatest
  BY DEF Inv
<1> QED
  BY <1>1, Invariant, PTL

-----------------------------------------------------------------------------
(* The ledger of attempts: the delivery of each request implements          *)
(* AttemptLedger, with a single attempt.                                    *)

Handing(q) == {w \in Workers : worker[w].at = "hand" /\ worker[w].request = q}

Ledger(q) == INSTANCE AttemptLedger WITH
               attempts <- delivery[q].attempts,
               open <- Cardinality(Handing(q)),
               handed <- accepted[q],
               confirmed <- (delivery[q].status = "delivered")

\* A step that leaves a delivery's counters alone changes what its row says, or nothing.
LEMMA RowSays ==
    ASSUME DeliveredWasAccepted', NEW q \in Requests,
           accepted'[q] = accepted[q], Handing(q)' = Handing(q),
           delivery'[q].attempts = delivery[q].attempts
    PROVE  Ledger(q)!Next
<1>1. Cardinality(Handing(q))' = Cardinality(Handing(q))
  OBVIOUS
<1>2. CASE delivery'[q].status = "delivered"
  <2>1. accepted[q] > 0
    BY <1>2 DEF DeliveredWasAccepted
  <2> QED
    BY <1>1, <1>2, <2>1 DEF Ledger!Next, Ledger!Confirm
<1>3. CASE delivery'[q].status # "delivered"
  BY <1>1, <1>3 DEF Ledger!Next, Ledger!Retract
<1> QED
  BY <1>2, <1>3

LEMMA TakeEnters ==
    ASSUME Inv, NEW w \in Workers, NEW q \in Requests, Take(w, q)
    PROVE  Ledger(q)!Enter
<1>1. /\ worker'[w] = [at |-> "hand", request |-> q]
      /\ \A u \in Workers : u # w => worker'[u] = worker[u]
      /\ delivery'[q].status = "sending"
  BY TakeTyped DEF Inv, TransportInv
<1>2. delivery[q].status = "queued" /\ accepted' = accepted
  BY DEF Take
<1>3. delivery'[q].attempts = delivery[q].attempts + 1
  BY DEF Take, Inv, TypeOK
<1>4. \A u \in Workers : Busy(u) => worker[u].request # q
  BY <1>2 DEF Inv, TransportInv, Owned
<1>5. Handing(q) = {} /\ Handing(q)' = {w}
  BY <1>1, <1>4 DEF Handing, Busy
<1>6. Cardinality(Handing(q)) = 0 /\ Cardinality(Handing(q)') = 1
  BY <1>5, FS_EmptySet, FS_Singleton
<1> QED
  BY <1>1, <1>2, <1>3, <1>6 DEF Ledger!Enter

\* A worker that leaves "hand" with the delivery's row untouched.
LEMMA WorkerLeaves ==
    ASSUME Inv, NEW w \in Workers, NEW q \in Requests,
           worker[w].at = "hand", worker[w].request = q, worker'[w].at # "hand",
           \A u \in Workers : u # w => worker'[u] = worker[u], delivery' = delivery
    PROVE  /\ accepted'[q] = accepted[q] + 1 => Ledger(q)!HandOver
           /\ accepted'[q] = accepted[q] => Ledger(q)!Abandon
<1>1. \A u \in Workers : u # w /\ Busy(u) => worker[u].request # q
  BY DEF Inv, TransportInv, Owned, Busy
<1>2. Handing(q) = {w} /\ Handing(q)' = {}
  BY <1>1 DEF Handing, Busy
<1>3. Cardinality(Handing(q)) = 1 /\ Cardinality(Handing(q)') = 0
  BY <1>2, FS_EmptySet, FS_Singleton
<1> QED
  BY <1>3 DEF Ledger!HandOver, Ledger!Abandon

LEMMA WorkInLedger ==
    ASSUME Inv, DeliveredWasAccepted', NEW q \in Requests, NEW w \in Workers,
           Work(w) \/ Crash(w)
    PROVE  Ledger(q)!Next
<1>1. /\ worker'[w].at # "hand" /\ \A u \in Workers : u # w => worker'[u] = worker[u]
  <2>1. CASE Hand(w)
    <3>1. PICK at \in {"taken", "failed"} : Goto(w, at)
      BY <2>1 DEF Hand
    <3>2. TypeOK /\ at \in {"hand", "taken", "failed"} /\ at # "hand"
      BY DEF Inv
    <3>3. /\ worker'[w] = [at |-> at, request |-> worker[w].request]
          /\ \A u \in Workers : u # w => worker'[u] = worker[u]
      BY <3>1, <3>2, GotoTyped
    <3> QED
      BY <3>2, <3>3
  <2>2. CASE RecordFailure(w) \/ Complete(w) \/ Crash(w)
    BY <2>2 DEF RecordFailure, Complete, Crash, Idle, Inv, TypeOK
  <2> QED
    BY <2>1, <2>2 DEF Work
<1>2. CASE worker[w].at = "hand" /\ worker[w].request = q
  <2>1. Hand(w) \/ Crash(w)
    BY <1>2 DEF Work, RecordFailure, Complete
  <2>2. delivery' = delivery
    BY <2>1 DEF Hand, Crash
  <2>3. accepted'[q] = accepted[q] + 1 \/ accepted'[q] = accepted[q]
    BY <1>2, <2>1 DEF Hand, Crash, Inv, TypeOK
  <2> QED
    BY <1>1, <1>2, <2>2, <2>3, WorkerLeaves DEF Ledger!Next
<1>3. CASE ~(worker[w].at = "hand" /\ worker[w].request = q)
  <2>1. Handing(q)' = Handing(q)
    BY <1>1, <1>3 DEF Handing
  <2>2. accepted'[q] = accepted[q]
    <3>1. CASE Hand(w)
      <4>1. worker[w].request # q /\ worker[w].request \in Requests
        BY <1>3, <3>1 DEF Hand, Inv, TypeOK
      <4> QED
        BY <3>1, <4>1 DEF Hand, Inv, TypeOK
    <3>2. CASE RecordFailure(w) \/ Complete(w) \/ Crash(w)
      BY <3>2 DEF RecordFailure, Complete, Crash
    <3> QED
      BY <3>1, <3>2 DEF Work
  <2>3. delivery'[q].attempts = delivery[q].attempts
    <3>1. worker[w].request \in Requests
      BY DEF Inv, TypeOK
    <3> QED
      BY <3>1 DEF Work, Hand, RecordFailure, Complete, Crash, Inv, TypeOK
  <2> QED
    BY <2>1, <2>2, <2>3, RowSays
<1> QED
  BY <1>2, <1>3

LEMMA LedgerStep ==
    ASSUME Inv, DeliveredWasAccepted', [Next]_vars, NEW q \in Requests
    PROVE  Ledger(q)!Next
<1>1. ASSUME UNCHANGED <<worker, accepted>>, delivery'[q].attempts = delivery[q].attempts
      PROVE  Ledger(q)!Next
  <2>1. Handing(q)' = Handing(q) /\ accepted'[q] = accepted[q]
    BY <1>1 DEF Handing
  <2> QED
    BY <1>1, <2>1, RowSays
<1>2. ASSUME NEW r \in Requests, QueueDelivery(r) PROVE Ledger(q)!Next
  <2>1. delivery'[q].attempts = delivery[q].attempts
    <3>1. CASE q = r
      <4>1. Waiting(q)
        BY <1>2, <3>1 DEF QueueDelivery, Waiting
      <4>2. delivery[q].attempts = 0
        BY <4>1 DEF Inv, TransportInv, Owned
      <4>3. delivery'[q].attempts = 0
        BY <1>2, <3>1 DEF QueueDelivery, Inv, TypeOK
      <4> QED
        BY <4>2, <4>3
    <3>2. CASE q # r
      BY <1>2, <3>2 DEF QueueDelivery, Inv, TypeOK
    <3> QED
      BY <3>1, <3>2
  <2> QED
    BY <1>1, <1>2, <2>1 DEF QueueDelivery
<1>3. ASSUME NEW r \in Requests, NEW w \in Workers,
             Replay(w, r) \/ BlockDelivery(w, r) \/ Take(w, r)
      PROVE  Ledger(q)!Next
  <2>1. CASE Take(w, r) /\ q = r
    BY <2>1, TakeEnters DEF Ledger!Next
  <2>2. CASE Take(w, r) /\ q # r
    <3>1. TypeOK /\ Owned /\ Take(w, r) /\ q # r
      BY <2>2 DEF Inv, TransportInv
    <3>2. /\ worker'[w] = [at |-> "hand", request |-> r] /\ worker[w].at = "idle"
          /\ \A u \in Workers : u # w => worker'[u] = worker[u]
          /\ delivery'[q] = delivery[q]
      <4>1. worker[w].at = "idle"
        BY <3>1 DEF Take, Receives
      <4> QED
        BY <3>1, <4>1, TakeTyped
    <3>3. Handing(q)' = Handing(q)
      BY <2>2, <3>2 DEF Handing
    <3>4. accepted'[q] = accepted[q]
      BY <2>2 DEF Take
    <3> QED
      BY <3>2, <3>3, <3>4, RowSays
  <2>3. CASE Replay(w, r) \/ BlockDelivery(w, r)
    <3>1. delivery'[q].attempts = delivery[q].attempts
      BY <2>3 DEF Replay, BlockDelivery, Inv, TypeOK
    <3> QED
      BY <1>1, <2>3, <3>1 DEF Replay, BlockDelivery
  <2> QED
    BY <1>3, <2>1, <2>2, <2>3
<1>4. CASE UNCHANGED <<delivery, worker, accepted>>
  BY <1>1, <1>4
<1> QED
  BY <1>2, <1>3, <1>4, WorkInLedger
  DEF Next, Author, CreateRevision, Validate, Connector, Reconfigure, StartProbe, AcceptLive,
      Lapse, RecordTest, DispatchDeliveries, Propose, Receive, Redeliver, sendVars, vars

\* The delivery of every governed request implements AttemptLedger, and takes the
\* ledger's single attempt before the SIEM is called: an uncertain SENDING is not
\* entered again (detection_engineering.py:524-655).
THEOREM DeliveriesKeepLedger ==
    ASSUME NEW q \in Requests
    PROVE  Spec => Ledger(q)!Spec
<1>1. Init => Ledger(q)!Init
  <2> SUFFICES ASSUME Init PROVE Ledger(q)!Init
    OBVIOUS
  <2>1. Handing(q) = {}
    BY DEF Init, Idle, Handing
  <2>2. Cardinality(Handing(q)) = 0
    BY <2>1, FS_EmptySet
  <2> QED
    BY <2>2 DEF Init, NoDelivery, Ledger!Init
<1>2. Inv /\ Inv' /\ [Next]_vars => [Ledger(q)!Next]_(Ledger(q)!ledgerVars)
  <2> SUFFICES ASSUME Inv, Inv', [Next]_vars PROVE Ledger(q)!Next
    OBVIOUS
  <2>1. DeliveredWasAccepted'
    BY DEF Inv, TransportInv
  <2> QED
    BY <2>1, LedgerStep
<1> QED
  BY <1>1, <1>2, Invariant, PTL DEF Spec, Ledger!Spec
=============================================================================
