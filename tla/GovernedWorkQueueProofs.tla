------------------------ MODULE GovernedWorkQueueProofs ------------------------
(***************************************************************************)
(* Theorems about GovernedWorkQueue, for any number of actors, items, keys, *)
(* leases and versions.                                                     *)
(*                                                                          *)
(* The safety properties are inductive together: a new event hangs on the   *)
(* last one because the chain so far is valid, its key is new because of    *)
(* the replay lookup, and it keeps the promise of the last event because    *)
(* the claim still says what the last event said.                           *)
(***************************************************************************)
EXTENDS GovernedWorkQueue, TLAPS

Inv == TypeOK /\ ChainsVerify /\ KeysTakeEffectOnce /\ PromisedLeaseIsKept

\* The event an effective call appends.
NewEvent(r, k, row) ==
    [key |-> k, request |-> r, sequence |-> row.version,
     previous |-> LastSequence(r.source), result |-> row, at |-> now]

\* A row that may follow the claim the request found.
Follows(r, row) ==
    /\ row \in Claims
    /\ row.version = claim[r.source].version + 1
    /\ row.by = None <=> row.until = 0

LEMMA RequestTyped ==
    ASSUME NEW r \in Requests
    PROVE  /\ r.actor \in Actors /\ r.source \in Sources
           /\ r.expected \in Nat /\ r.lease \in Nat
           /\ r.op # "release" => r.lease \in Leases /\ r.lease > 0
           /\ r.op \in {"claim", "renew", "release"}
<1>1. 0..MaxExpected \subseteq Nat
  BY ClockAssumption
<1>2. CASE r.op = "release"
  BY <1>1, <1>2 DEF Requests
<1>3. CASE r.op # "release"
  <2>1. r \in [actor : Actors, source : Sources, op : {"claim", "renew"},
              expected : 0..MaxExpected, lease : Leases]
    BY <1>3 DEF Requests
  <2>2. r.lease \in Leases
    BY <2>1
  <2>3. r.lease \in Nat /\ r.lease > 0
    <3>1. r.lease \in Nat \ {0}
      BY <2>2, LeasesAssumption
    <3>2. \A i \in Nat \ {0} : i \in Nat /\ i > 0
      OBVIOUS
    <3> QED
      BY <3>1, <3>2
  <2> QED
    BY <1>1, <1>3, <2>1, <2>2, <2>3
<1> QED
  BY <1>2, <1>3

\* The last event of a valid chain has the claim's version as its sequence.
LEMMA LastIsVersion ==
    ASSUME TypeOK, NEW s \in Sources, ChainValid(s)
    PROVE  LastSequence(s) = claim[s].version
<1> DEFINE S == {e.sequence : e \in EventsOf(s)}
           v == claim[s].version
<1>1. v \in Nat /\ S = 1..v
  BY DEF TypeOK, Claims, ChainValid
<1>2. CASE EventsOf(s) = {}
  <2>1. S = {}
    BY <1>2
  <2>2. v = 0
    <3>1. ~(v >= 1)
      BY <1>1, <2>1
    <3> QED
      BY <1>1, <3>1
  <2> QED
    BY <1>2, <2>2 DEF LastSequence
<1>3. CASE EventsOf(s) # {}
  <2>1. S # {}
    BY <1>3
  <2>2. v \in S /\ \A y \in S : v >= y
    BY <1>1, <2>1
  <2>3. \A x \in S : (\A y \in S : x >= y) => x = v
    <3> SUFFICES ASSUME NEW x \in S, \A y \in S : x >= y
                 PROVE  x = v
      OBVIOUS
    <3>1. x \in Nat /\ x <= v
      BY <1>1
    <3>2. x >= v
      BY <2>2
    <3> QED
      BY <1>1, <3>1, <3>2
  <2> HIDE DEF S
  <2>4. Max(S) = v
    BY <2>2, <2>3 DEF Max
  <2> QED
    BY <1>3, <2>4 DEF LastSequence, S
<1> QED
  BY <1>2, <1>3

-----------------------------------------------------------------------------
(* What an effective call does to the invariant.                            *)

LEMMA EffectTyped ==
    ASSUME Inv, NEW r \in Requests, NEW k \in Keys, NEW row, Follows(r, row),
           Effect(r, k, row)
    PROVE  TypeOK'
<1>1. r.source \in Sources /\ ChainValid(r.source)
  BY RequestTyped DEF Inv, ChainsVerify
<1>2. LastSequence(r.source) \in Nat
  BY <1>1, LastIsVersion DEF Inv, TypeOK, Claims
<1>3. row \in Claims /\ row.version \in Nat
  BY DEF Follows, Claims
<1>4. NewEvent(r, k, row) \in Events
  BY <1>2, <1>3 DEF NewEvent, Events, Inv, TypeOK
<1>5. events' = events \cup {NewEvent(r, k, row)}
  BY DEF Effect, NewEvent
<1>6. events' \subseteq Events
  BY <1>4, <1>5 DEF Inv, TypeOK
<1>7. claim' \in [Sources -> Claims]
  BY <1>1, <1>3 DEF Inv, TypeOK, Effect
<1>8. reply' \in Replies
  BY <1>3 DEF Effect, Replies
<1>9. \A s \in Sources : claim'[s].by = None <=> claim'[s].until = 0
  <2> SUFFICES ASSUME NEW s \in Sources
               PROVE  claim'[s].by = None <=> claim'[s].until = 0
    OBVIOUS
  <2>1. claim'[s] = IF s = r.source THEN row ELSE claim[s]
    BY <1>1 DEF Effect, Inv, TypeOK
  <2> QED
    BY <2>1 DEF Follows, Inv, TypeOK
<1> QED
  BY <1>6, <1>7, <1>8, <1>9 DEF TypeOK, Effect, environment, Inv

LEMMA EffectVerifies ==
    ASSUME Inv, NEW r \in Requests, NEW k \in Keys, NEW row, Follows(r, row),
           r.expected = claim[r.source].version, Effect(r, k, row)
    PROVE  ChainsVerify'
<1> DEFINE n == NewEvent(r, k, row)
           v == claim[r.source].version
<1>1. r.source \in Sources /\ ChainValid(r.source) /\ v \in Nat
  BY RequestTyped DEF Inv, ChainsVerify, TypeOK, Claims
<1>2. events' = events \cup {n}
  BY DEF Effect, NewEvent
<1>3. /\ n.request = r /\ n.sequence = v + 1 /\ n.previous = v
      /\ n.result = row
  BY <1>1, LastIsVersion DEF NewEvent, Follows, Inv
<1>4. row.version = v + 1
  BY DEF Follows
<1> SUFFICES ASSUME NEW s \in Sources
             PROVE  ChainValid(s)'
  BY DEF ChainsVerify
<1>5. ChainValid(s)
  BY DEF Inv, ChainsVerify
<1>6. CASE s # r.source
  <2>1. EventsOf(s)' = EventsOf(s)
    BY <1>2, <1>3, <1>6 DEF EventsOf
  <2>2. claim'[s] = claim[s]
    BY <1>6 DEF Effect, Inv, TypeOK
  <2> QED
    BY <1>5, <2>1, <2>2 DEF ChainValid
<1>7. CASE s = r.source
  <2> DEFINE C == EventsOf(s)
  <2>1. EventsOf(s)' = C \cup {n}
    BY <1>2, <1>3, <1>7 DEF EventsOf
  <2>2. claim'[s] = row
    BY <1>7 DEF Effect, Inv, TypeOK
  <2>3. {e.sequence : e \in C} = 1..v
    BY <1>5, <1>7 DEF ChainValid
  <2>4. \A e \in C : e.sequence \in 1..v
    BY <2>3
  <2>5. {e.sequence : e \in C \cup {n}} = {e.sequence : e \in C} \cup {v + 1}
    BY <1>3
  <2>6. 1..v \cup {v + 1} = 1..(v + 1)
    BY <1>1
  <2>7. {e.sequence : e \in C \cup {n}} = 1..(v + 1)
    BY <2>3, <2>5, <2>6
  <2>8. \A d, e \in C \cup {n} : d.sequence = e.sequence => d = e
    BY <1>1, <1>3, <1>5, <2>4 DEF ChainValid
  <2>9. \A e \in C :
          /\ e.request.expected = e.sequence - 1
          /\ e.previous = e.sequence - 1
          /\ e.result.version = e.sequence
          /\ e.sequence # v + 1
    BY <1>1, <1>5, <2>4 DEF ChainValid
  <2>10. /\ n.request.expected = n.sequence - 1
         /\ n.previous = n.sequence - 1
         /\ n.result.version = n.sequence
    BY <1>1, <1>3, <1>4
  <2> HIDE DEF C, n, v
  <2> QED
    BY <1>3, <1>4, <2>1, <2>2, <2>7, <2>8, <2>9, <2>10 DEF ChainValid
<1> QED
  BY <1>6, <1>7

LEMMA EffectSpendsKey ==
    ASSUME Inv, NEW r, NEW k, NEW row, Recorded(r, k) = {}, Effect(r, k, row)
    PROVE  KeysTakeEffectOnce'
<1> DEFINE n == NewEvent(r, k, row)
<1>1. events' = events \cup {n} /\ n.key = k
  BY DEF Effect, NewEvent
<1>2. \A e \in events : e.key # k
  BY DEF Recorded
<1>3. \A d, e \in events : d.key = e.key => d = e
  BY DEF Inv, KeysTakeEffectOnce
<1> HIDE DEF n
<1> QED
  BY <1>1, <1>2, <1>3 DEF KeysTakeEffectOnce

LEMMA EffectKeepsPromise ==
    ASSUME Inv, NEW r \in Requests, NEW k \in Keys, NEW row, Follows(r, row),
           Permitted(r), r.op # "claim" => HeldBy(r.source, r.actor),
           Effect(r, k, row)
    PROVE  PromisedLeaseIsKept'
<1> DEFINE n == NewEvent(r, k, row)
           v == claim[r.source].version
<1>1. r.source \in Sources /\ ChainValid(r.source) /\ v \in Nat
  BY RequestTyped DEF Inv, ChainsVerify, TypeOK, Claims
<1>2. /\ events' = events \cup {n} /\ n.request = r /\ n.at = now
      /\ n.sequence = v + 1
  BY DEF Effect, NewEvent, Follows
<1>3. \A e \in events : e.sequence \in Nat
  BY DEF Inv, TypeOK, Events
<1>4. \A e \in events : e.request.source = r.source => e.sequence \in 1..v
  BY <1>1 DEF ChainValid, EventsOf
<1> SUFFICES ASSUME NEW d \in events', NEW e \in events',
                    d.request.source = e.request.source,
                    e.sequence = d.sequence + 1, d.result.by # None
             PROVE  e.request.actor = d.result.by \/ e.at >= d.result.until
  BY DEF PromisedLeaseIsKept
<1>5. CASE d \in events /\ e \in events
  BY <1>5 DEF Inv, PromisedLeaseIsKept
<1>6. CASE d = n
  <2>1. e.sequence = v + 2 /\ e.request.source = r.source
    BY <1>1, <1>2, <1>6
  <2> QED
    BY <1>1, <1>2, <1>4, <2>1
<1>7. CASE d \in events /\ e = n
  <2>1. d.request.source = r.source /\ d.sequence = v
    BY <1>1, <1>2, <1>3, <1>7
  <2>2. d.result = claim[r.source]
    BY <1>1, <1>7, <2>1 DEF ChainValid, EventsOf
  <2>3. CASE LeaseActive(r.source)
    BY <1>2, <1>7, <2>2, <2>3 DEF Permitted, HeldBy
  <2>4. CASE ~LeaseActive(r.source)
    <3>1. claim[r.source].until \in Nat /\ now \in Nat
      BY <1>1, ClockAssumption DEF Inv, TypeOK, Claims, Times
    <3> QED
      BY <1>2, <1>7, <2>2, <2>4, <3>1 DEF LeaseActive
  <2> QED
    BY <2>3, <2>4
<1> QED
  BY <1>2, <1>5, <1>6, <1>7

\* The three operations are effects that may follow the claim they found.
LEMMA OperationEffect ==
    ASSUME Inv, NEW r \in Requests, NEW k \in Keys,
           Claim(r, k) \/ Renew(r, k) \/ Release(r, k)
    PROVE  /\ Ready(r, k) /\ Permitted(r)
           /\ \E row : Follows(r, row) /\ Effect(r, k, row)
<1>1. /\ r.source \in Sources /\ r.actor \in Actors
      /\ r.op # "release" => r.lease \in Nat /\ r.lease > 0
  BY RequestTyped
<1>2. /\ claim[r.source] \in Claims
      /\ claim[r.source].version \in Nat /\ now \in Nat
      /\ claim[r.source].by \in Actors \cup {None}
  BY <1>1, ClockAssumption DEF Inv, TypeOK, Claims, Times
<1>3. CASE Claim(r, k)
  <2> DEFINE row == [version |-> claim[r.source].version + 1, by |-> r.actor,
                     until |-> now + r.lease]
  <2>1. Follows(r, row)
    BY <1>1, <1>2, <1>3, NoneAssumption DEF Follows, Claims, Claim
  <2> QED
    BY <1>3, <2>1 DEF Claim
<1>4. CASE Renew(r, k)
  <2> DEFINE row == [version |-> claim[r.source].version + 1,
                     by |-> claim[r.source].by, until |-> now + r.lease]
  <2>1. claim[r.source].by # None /\ r.op = "renew"
    BY <1>4 DEF Renew, Permitted, HeldBy, LeaseActive
  <2>2. Follows(r, row)
    BY <1>1, <1>2, <2>1 DEF Follows, Claims
  <2> QED
    BY <1>4, <2>2 DEF Renew
<1>5. CASE Release(r, k)
  <2> DEFINE row == [version |-> claim[r.source].version + 1, by |-> None,
                     until |-> 0]
  <2>1. Follows(r, row)
    BY <1>2 DEF Follows, Claims
  <2> QED
    BY <1>5, <2>1 DEF Release
<1> QED
  BY <1>3, <1>4, <1>5

-----------------------------------------------------------------------------
LEMMA InitInv == Init => Inv
<1> SUFFICES ASSUME Init PROVE Inv
  OBVIOUS
<1>1. TypeOK
  BY ClockAssumption DEF Init, TypeOK, Times, Claims, NoClaim, Replies
<1>2. ChainsVerify
  <2> SUFFICES ASSUME NEW s \in Sources PROVE ChainValid(s)
    BY DEF ChainsVerify
  <2>1. EventsOf(s) = {} /\ claim[s].version = 0
    BY DEF Init, EventsOf, NoClaim
  <2>2. {e.sequence : e \in EventsOf(s)} = {} /\ 1..0 = {}
    BY <2>1
  <2> QED
    BY <2>1, <2>2 DEF ChainValid
<1>3. KeysTakeEffectOnce /\ PromisedLeaseIsKept
  BY DEF Init, KeysTakeEffectOnce, PromisedLeaseIsKept
<1> QED
  BY <1>1, <1>2, <1>3 DEF Inv

\* Steps that touch neither claims nor events keep what is said of them.
LEMMA Untouched ==
    ASSUME Inv, TypeOK', UNCHANGED <<claim, events>>
    PROVE  Inv'
  BY DEF Inv, ChainsVerify, ChainValid, EventsOf, KeysTakeEffectOnce,
         PromisedLeaseIsKept

LEMMA NextInv == Inv /\ [Next]_vars => Inv'
<1> SUFFICES ASSUME Inv, [Next]_vars PROVE Inv'
  OBVIOUS
<1>0. TypeOK
  BY DEF Inv
<1>1. ASSUME NEW r \in Requests, NEW k \in Keys, Mutate(r, k)
      PROVE  Inv'
  <2>1. CASE Forbid(r, k) \/ RefuseKey(r, k) \/ RefuseStale(r, k)
             \/ RefuseLease(r, k)
    <3>1. Refuse
      BY <2>1 DEF Forbid, RefuseKey, RefuseStale, RefuseLease
    <3>2. NoClaim \in Claims
      BY DEF NoClaim, Claims
    <3>3. TypeOK'
      BY <1>0, <3>1, <3>2 DEF Refuse, Refused, TypeOK, Replies, environment
    <3> QED
      BY <3>1, <3>3, Untouched DEF Refuse
  <2>2. CASE Replay(r, k)
    <3>1. TypeOK'
      BY <1>0, <2>2 DEF Replay, Recorded, TypeOK, Events, Replies, environment
    <3> QED
      BY <2>2, <3>1, Untouched DEF Replay
  <2>3. CASE Claim(r, k) \/ Renew(r, k) \/ Release(r, k)
    <3>1. PICK row : /\ Follows(r, row) /\ Effect(r, k, row)
                     /\ Ready(r, k) /\ Permitted(r)
      BY <2>3, OperationEffect
    <3>2. /\ r.expected = claim[r.source].version /\ Recorded(r, k) = {}
          /\ r.op # "claim" => HeldBy(r.source, r.actor)
      BY <3>1 DEF Ready, Permitted
    <3>3. TypeOK'
      BY <3>1, EffectTyped
    <3>4. ChainsVerify'
      BY <3>1, <3>2, EffectVerifies
    <3>5. KeysTakeEffectOnce'
      BY <3>1, <3>2, EffectSpendsKey
    <3>6. PromisedLeaseIsKept'
      BY <3>1, <3>2, EffectKeepsPromise
    <3> QED
      BY <3>3, <3>4, <3>5, <3>6 DEF Inv
  <2> QED
    BY <1>1, <2>1, <2>2, <2>3 DEF Mutate
<1>2. CASE Tick
  <2>1. TypeOK'
    BY <1>0, <1>2, ClockAssumption DEF Tick, TypeOK, Times
  <2> QED
    BY <1>2, <2>1, Untouched DEF Tick
<1>3. ASSUME NEW a \in Actors, ChangeMembers(a)
      PROVE  Inv'
  <2>1. TypeOK'
    BY <1>0, <1>3 DEF ChangeMembers, TypeOK
  <2> QED
    BY <1>3, <2>1, Untouched DEF ChangeMembers
<1>4. ASSUME NEW s \in Sources, ChangeSource(s)
      PROVE  Inv'
  <2>1. TypeOK'
    BY <1>0, <1>4 DEF ChangeSource, TypeOK
  <2> QED
    BY <1>4, <2>1, Untouched DEF ChangeSource
<1>5. CASE UNCHANGED vars
  <2>1. TypeOK'
    BY <1>0, <1>5 DEF vars, environment, TypeOK
  <2> QED
    BY <1>5, <2>1, Untouched DEF vars
<1> QED
  BY <1>1, <1>2, <1>3, <1>4, <1>5 DEF Next

\* The invariant holds in every reachable state, for any numbers of users, items and
\* keys (governed_work_queue.py).
THEOREM InvHolds == Spec => []Inv
  BY InitInv, NextInv, PTL DEF Spec

\* Rows, events and answers are well typed and a claim has a lease exactly when it
\* has a claimant: mutate_governed_work_claim and the constraint gwork_claim_shape.
THEOREM TypeCorrect == Spec => []TypeOK
<1>1. Inv => TypeOK
  BY DEF Inv
<1> QED
  BY <1>1, InvHolds, PTL

\* verify_governed_work_claim_chain answers "valid" for every claim, for ever.
THEOREM ChainsAlwaysVerify == Spec => []ChainsVerify
<1>1. Inv => ChainsVerify
  BY DEF Inv
<1> QED
  BY <1>1, InvHolds, PTL

\* uniq_gwork_org_idem never refuses an event that _replay_event let through.
THEOREM KeysAreSpentOnce == Spec => []KeysTakeEffectOnce
<1>1. Inv => KeysTakeEffectOnce
  BY DEF Inv
<1> QED
  BY <1>1, InvHolds, PTL

\* Until a lease ends, the next event of its item is its holder's.
THEOREM PromisesAreKept == Spec => []PromisedLeaseIsKept
<1>1. Inv => PromisedLeaseIsKept
  BY DEF Inv
<1> QED
  BY <1>1, InvHolds, PTL

-----------------------------------------------------------------------------
(* The answer to a repeated call.                                           *)

\* A repeated call of a member is answered from the record and does nothing again.
THEOREM RepeatedCallsAreAnswered == Spec => RepeatedCallIsAnswered
<1>1. ASSUME Inv, NEW e \in events, Mutate(e.request, e.key),
             e.request.actor \in members
      PROVE  /\ reply' = [outcome |-> "replayed", result |-> e.result]
             /\ UNCHANGED <<claim, events>>
  <2>1. e \in Recorded(e.request, e.key)
    BY DEF Recorded
  <2>2. Replay(e.request, e.key)
    BY <1>1, <2>1 DEF Mutate, Forbid, RefuseKey, RefuseStale, RefuseLease, Claim,
                      Renew, Release, Ready
  <2>3. PICK d \in events :
          d.key = e.key /\ reply' = [outcome |-> "replayed", result |-> d.result]
    BY <2>2 DEF Replay, Recorded
  <2>4. d = e
    BY <1>1, <2>3 DEF Inv, KeysTakeEffectOnce
  <2> QED
    BY <2>2, <2>3, <2>4 DEF Replay
<1> DEFINE Answered == \A e \in events :
             Mutate(e.request, e.key) /\ e.request.actor \in members =>
               /\ reply' = [outcome |-> "replayed", result |-> e.result]
               /\ UNCHANGED <<claim, events>>
<1>2. Inv => Answered
  BY <1>1
<1>3. Inv => [Answered]_vars
  BY <1>2
<1> HIDE DEF Answered
<1>4. Spec => [][Answered]_vars
  BY <1>3, InvHolds, PTL DEF Spec
<1> QED
  BY <1>4 DEF Answered, RepeatedCallIsAnswered

-----------------------------------------------------------------------------
(* The claims implement the leases of WorkLease.                            *)

LeaseOf(s) == [by |-> claim[s].by, until |-> claim[s].until]
Leased == [s \in Sources |-> LeaseOf(s)]
Spent == {e.key : e \in events}

\* An effective call changes one lease and spends one key that was not spent.
LEMMA EffectOnLeases ==
    ASSUME Inv, NEW r \in Requests, NEW k \in Keys, NEW row, Recorded(r, k) = {},
           Effect(r, k, row)
    PROVE  /\ Leased' = [Leased EXCEPT ![r.source] =
                           [by |-> row.by, until |-> row.until]]
           /\ k \notin Spent /\ Spent' = Spent \cup {k}
           /\ now' = now
<1>1. \A s \in Sources : claim'[s] = IF s = r.source THEN row ELSE claim[s]
  BY RequestTyped DEF Effect, Inv, TypeOK
<1>2. Leased' = [Leased EXCEPT ![r.source] = [by |-> row.by, until |-> row.until]]
  BY <1>1, RequestTyped DEF Leased, LeaseOf
<1>3. events' = events \cup {NewEvent(r, k, row)} /\ NewEvent(r, k, row).key = k
  BY DEF Effect, NewEvent
<1>4. k \notin Spent /\ Spent' = Spent \cup {k}
  BY <1>3 DEF Spent, Recorded
<1> QED
  BY <1>2, <1>4 DEF Effect, environment

\* The same, when a call changes neither claims nor events.
LEMMA NoEffectOnLeases ==
    ASSUME UNCHANGED <<claim, events>>
    PROVE  Leased' = Leased /\ Spent' = Spent
  BY DEF Leased, LeaseOf, Spent

LEMMA LeaseInit == Init => Lease!Init
  BY DEF Init, NoClaim, Lease!Init, Lease!Unleased

LEMMA LeaseNext == Inv /\ [Next]_vars => [Lease!Next]_(Lease!leaseVars)
<1> SUFFICES ASSUME Inv, [Next]_vars PROVE [Lease!Next]_(Lease!leaseVars)
  OBVIOUS
<1>1. ASSUME NEW r \in Requests, NEW k \in Keys, Mutate(r, k)
      PROVE  [Lease!Next]_(Lease!leaseVars)
  <2>1. CASE Forbid(r, k) \/ RefuseKey(r, k) \/ RefuseStale(r, k)
             \/ RefuseLease(r, k) \/ Replay(r, k)
    <3>1. UNCHANGED <<now, claim, events>>
      BY <2>1 DEF Forbid, RefuseKey, RefuseStale, RefuseLease, Refuse, Replay,
                  environment
    <3> QED
      BY <3>1, NoEffectOnLeases DEF Lease!leaseVars, Leased, LeaseOf, Spent
  <2>2. CASE Claim(r, k) \/ Renew(r, k) \/ Release(r, k)
    <3>0. /\ r.source \in Sources /\ r.actor \in Actors
          /\ r.op # "release" => r.lease \in Leases
      BY RequestTyped
    <3>1. Recorded(r, k) = {} /\ Permitted(r)
      BY <2>2 DEF Claim, Renew, Release, Ready
    <3>2. \A s \in Sources : Leased[s].by = claim[s].by
                            /\ Leased[s].until = claim[s].until
      BY DEF Leased, LeaseOf
    <3>3. CASE Claim(r, k)
      <4>1. /\ Leased' = [Leased EXCEPT ![r.source] =
                            [by |-> r.actor, until |-> now + r.lease]]
            /\ k \notin Spent /\ Spent' = Spent \cup {k} /\ now' = now
        BY <3>1, <3>3, EffectOnLeases DEF Claim
      <4>2. \A b \in Actors : ~(Leased[r.source].by = b /\ Leased[r.source].until > now)
        BY <3>0, <3>1, <3>2, <3>3, NoneAssumption DEF Claim, Permitted, LeaseActive
      <4>3. Lease!Acquire(r.actor, r.source, r.lease)
        BY <4>1, <4>2 DEF Lease!Acquire, Lease!Holds, Lease!Grant, Leased, LeaseOf
      <4>4. Lease!Operate(r.actor, r.source)
        BY <3>0, <3>3, <4>3 DEF Lease!Operate, Claim
      <4> QED
        BY <3>0, <4>1, <4>4 DEF Lease!Next, Lease!Spend, Spent
    <3>4. CASE Renew(r, k)
      <4>1. HeldBy(r.source, r.actor) /\ r.op = "renew"
        BY <3>1, <3>4 DEF Renew, Permitted
      <4>2. /\ Leased' = [Leased EXCEPT ![r.source] =
                            [by |-> r.actor, until |-> now + r.lease]]
            /\ k \notin Spent /\ Spent' = Spent \cup {k} /\ now' = now
        BY <3>1, <3>4, <4>1, EffectOnLeases DEF Renew, HeldBy
      <4>3. Leased[r.source].by = r.actor /\ Leased[r.source].until > now
        BY <3>0, <3>2, <4>1 DEF HeldBy, LeaseActive
      <4>4. Lease!Extend(r.actor, r.source, r.lease)
        BY <4>2, <4>3 DEF Lease!Extend, Lease!Holds, Lease!Grant, Leased, LeaseOf
      <4>5. Lease!Operate(r.actor, r.source)
        BY <3>0, <4>1, <4>4 DEF Lease!Operate
      <4> QED
        BY <3>0, <4>2, <4>5 DEF Lease!Next, Lease!Spend, Spent
    <3>5. CASE Release(r, k)
      <4>1. HeldBy(r.source, r.actor)
        BY <3>1, <3>5 DEF Release, Permitted
      <4>2. /\ Leased' = [Leased EXCEPT ![r.source] = [by |-> None, until |-> 0]]
            /\ k \notin Spent /\ Spent' = Spent \cup {k} /\ now' = now
        BY <3>1, <3>5, EffectOnLeases DEF Release
      <4>3. Leased[r.source].by = r.actor /\ Leased[r.source].until > now
        BY <3>0, <3>2, <4>1 DEF HeldBy, LeaseActive
      <4>4. Lease!GiveUp(r.actor, r.source)
        BY <4>2, <4>3 DEF Lease!GiveUp, Lease!Holds, Lease!Unleased, Leased, LeaseOf
      <4>5. Lease!Operate(r.actor, r.source)
        BY <4>4 DEF Lease!Operate
      <4> QED
        BY <3>0, <4>2, <4>5 DEF Lease!Next, Lease!Spend, Spent
    <3> QED
      BY <2>2, <3>3, <3>4, <3>5
  <2> QED
    BY <1>1, <2>1, <2>2 DEF Mutate
<1>2. CASE Tick
  <2>1. Lease!Tick
    BY <1>2, NoEffectOnLeases DEF Tick, Lease!Tick, Leased, LeaseOf, Spent
  <2> QED
    BY <2>1 DEF Lease!Next
<1>3. CASE \/ \E a \in Actors : ChangeMembers(a)
           \/ \E s \in Sources : ChangeSource(s)
           \/ UNCHANGED vars
  <2>1. UNCHANGED <<now, claim, events>>
    BY <1>3 DEF ChangeMembers, ChangeSource, vars, environment
  <2> QED
    BY <2>1, NoEffectOnLeases DEF Lease!leaseVars, Leased, LeaseOf, Spent
<1> QED
  BY <1>1, <1>2, <1>3 DEF Next

\* The governed work queue implements WorkLease: an item is leased to one actor at a
\* time, and every key takes effect once, whatever is repeated, refused or stale.
THEOREM QueueImplementsLeases == Spec => ClaimsAreLeases
  BY LeaseInit, LeaseNext, InvHolds, PTL DEF Spec, ClaimsAreLeases, Lease!Spec
=============================================================================
