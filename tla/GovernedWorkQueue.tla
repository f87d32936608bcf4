--------------------------- MODULE GovernedWorkQueue ---------------------------
(***************************************************************************)
(* Claims on governed work: mutate_governed_work_claim and                  *)
(* verify_governed_work_claim_chain of                                      *)
(* fastapi_app/services/governed_work_queue.py, for one organization.       *)
(*                                                                          *)
(* A call is one transaction under the organization's row lock, so it is    *)
(* one action.  What is hard is between calls: a client that repeats a call *)
(* it got no answer to, two actors with the same item on their screens, an  *)
(* item that is finished or a lease that ends meanwhile.                    *)
(***************************************************************************)
EXTENDS Naturals, FiniteSetsExt

CONSTANTS
    Actors,      \* users
    Sources,     \* items of work (source_type and source_id)
    Keys,        \* idempotency keys that clients send
    Leases,      \* lease_seconds that clients ask for
    None,        \* no actor
    MaxTime,     \* bound: the clock
    MaxExpected  \* bound: expected_version that clients send

ASSUME ClockAssumption == MaxTime \in Nat /\ MaxExpected \in Nat

\* "lease_seconds must be between 60 and 86400."
ASSUME LeasesAssumption == Leases \subseteq Nat \ {0}

ASSUME NoneAssumption == None \notin Actors

VARIABLES
    now,      \* the clock, in the unit of Leases
    members,  \* actors with an active membership in a role that may mutate
    open,     \* sources _source_snapshot finds actionable
    claim,    \* the GovernedWorkClaim rows; version 0: no row
    events,   \* the GovernedWorkClaimEvent rows
    reply     \* the answer to the last call

environment == <<now, members, open>>
vars == <<environment, claim, events, reply>>

Times == 0..MaxTime

\* A request is what its fingerprint is computed from; a release has no lease.
Requests ==
    [actor : Actors, source : Sources, op : {"claim", "renew"},
     expected : 0..MaxExpected, lease : Leases]
    \cup
    [actor : Actors, source : Sources, op : {"release"},
     expected : 0..MaxExpected, lease : {0}]

Claims == [version : Nat, by : Actors \cup {None}, until : Nat]

\* result: the claim in the result_snapshot, equal to the event's own columns;
\* previous: the event whose entry_hash is the previous_hash (0: none).
Events == [key : Keys, request : Requests, sequence : Nat, previous : Nat,
           result : Claims, at : Times]

Replies == [outcome : {"none", "done", "replayed", "refused"}, result : Claims]

NoClaim == [version |-> 0, by |-> None, until |-> 0]
Refused == [outcome |-> "refused", result |-> NoClaim]

Init ==
    /\ now = 0
    /\ members \in SUBSET Actors
    /\ open \in SUBSET Sources
    /\ claim = [s \in Sources |-> NoClaim]
    /\ events = {}
    /\ reply = [outcome |-> "none", result |-> NoClaim]

-----------------------------------------------------------------------------
(* Reads of mutate_governed_work_claim, in the order of its early returns.  *)

\* Mutant: the key is looked up among the events of the item only.
RecordedPerItem(r, k) == {e \in events : e.key = k /\ e.request.source = r.source}

\* Mutant: the source is resolved before the replay is looked up.
RecordedWhileOpen(r, k) ==
    IF r.source \in open THEN {e \in events : e.key = k} ELSE {}

\* _replay_event: the organization's event under this key.
Recorded(r, k) == {e \in events : e.key = k}

\* Nothing recorded, the source is actionable, the version is the expected one.
Ready(r, k) ==
    /\ r.actor \in members
    /\ Recorded(r, k) = {}
    /\ r.source \in open
    /\ claim[r.source].version = r.expected

\* Mutant: a lease still counts at the instant it expires.
LeaseInclusive(s) == claim[s].by # None /\ claim[s].until >= now

LeaseActive(s) == claim[s].by # None /\ claim[s].until > now

\* Mutant: the actor is not compared with the claimant.
HeldByAnyone(s, a) == LeaseActive(s)

HeldBy(s, a) == LeaseActive(s) /\ claim[s].by = a

Permitted(r) ==
    IF r.op = "claim" THEN ~LeaseActive(r.source) ELSE HeldBy(r.source, r.actor)

EventsOf(s) == {e \in events : e.request.source = s}

\* Mutant: the first event of the claim instead of the last one.
FirstSequence(s) ==
    IF EventsOf(s) = {} THEN 0 ELSE Min({e.sequence : e \in EventsOf(s)})

LastSequence(s) ==
    IF EventsOf(s) = {} THEN 0 ELSE Max({e.sequence : e \in EventsOf(s)})

-----------------------------------------------------------------------------
(* The outcomes of a call.                                                  *)

Refuse == reply' = Refused /\ UNCHANGED <<environment, claim, events>>

Forbid(r, k) == r.actor \notin members /\ Refuse

Replay(r, k) ==
    /\ r.actor \in members
    /\ \E e \in Recorded(r, k) :
         /\ e.request = r
         /\ reply' = [outcome |-> "replayed", result |-> e.result]
    /\ UNCHANGED <<environment, claim, events>>

\* "Idempotency key was already used for a different governed work mutation."
RefuseKey(r, k) ==
    /\ r.actor \in members
    /\ Recorded(r, k) # {}
    /\ \A e \in Recorded(r, k) : e.request # r
    /\ Refuse

\* The source is gone or the version is stale.
RefuseStale(r, k) ==
    /\ r.actor \in members
    /\ Recorded(r, k) = {}
    /\ r.source \notin open \/ claim[r.source].version # r.expected
    /\ Refuse

RefuseLease(r, k) == Ready(r, k) /\ ~Permitted(r) /\ Refuse

\* The claim and its event are saved together.
Effect(r, k, row) ==
    /\ claim' = [claim EXCEPT ![r.source] = row]
    /\ events' = events \cup
         {[key |-> k, request |-> r, sequence |-> row.version,
           previous |-> LastSequence(r.source), result |-> row, at |-> now]}
    /\ reply' = [outcome |-> "done", result |-> row]
    /\ UNCHANGED environment

\* A first claim creates the row with version 1, a later one overwrites it.
Claim(r, k) ==
    /\ Ready(r, k) /\ Permitted(r)
    /\ r.op = "claim"
    /\ Effect(r, k, [version |-> claim[r.source].version + 1, by |-> r.actor,
                     until |-> now + r.lease])

Renew(r, k) ==
    /\ Ready(r, k) /\ Permitted(r)
    /\ r.op = "renew"
    /\ Effect(r, k, [version |-> claim[r.source].version + 1,
                     by |-> claim[r.source].by, until |-> now + r.lease])

\* Mutant: the lease outlives its release.
ReleaseKeepsLease(r, k) ==
    /\ Ready(r, k) /\ Permitted(r)
    /\ r.op = "release"
    /\ Effect(r, k, [version |-> claim[r.source].version + 1, by |-> None,
                     until |-> claim[r.source].until])

Release(r, k) ==
    /\ Ready(r, k) /\ Permitted(r)
    /\ r.op = "release"
    /\ Effect(r, k, [version |-> claim[r.source].version + 1, by |-> None,
                     until |-> 0])

Mutate(r, k) ==
    \/ Forbid(r, k) \/ Replay(r, k) \/ RefuseKey(r, k)
    \/ RefuseStale(r, k) \/ RefuseLease(r, k)
    \/ Claim(r, k) \/ Renew(r, k) \/ Release(r, k)

-----------------------------------------------------------------------------
(* The rest of the system: time, memberships, and the services that own the *)
(* sources.                                                                 *)

Tick ==
    /\ now < MaxTime
    /\ now' = now + 1
    /\ UNCHANGED <<members, open, claim, events, reply>>

ChangeMembers(a) ==
    /\ members' = IF a \in members THEN members \ {a} ELSE members \cup {a}
    /\ UNCHANGED <<now, open, claim, events, reply>>

\* A decision action is verified, a failed delivery is queued again and fails.
ChangeSource(s) ==
    /\ open' = IF s \in open THEN open \ {s} ELSE open \cup {s}
    /\ UNCHANGED <<now, members, claim, events, reply>>

Next ==
    \/ \E r \in Requests, k \in Keys : Mutate(r, k)
    \/ Tick
    \/ \E a \in Actors : ChangeMembers(a)
    \/ \E s \in Sources : ChangeSource(s)

Spec == Init /\ [][Next]_vars

-----------------------------------------------------------------------------
\* verify_governed_work_claim_chain answers "valid": the events in the order of
\* their sequence are 1, 2, .., and the last one is the claim's.
ChainValid(s) ==
    /\ {e.sequence : e \in EventsOf(s)} = 1..claim[s].version
    /\ \A d, e \in EventsOf(s) : d.sequence = e.sequence => d = e
    /\ \A e \in EventsOf(s) :
         /\ e.request.expected = e.sequence - 1
         /\ e.previous = e.sequence - 1
         /\ e.result.version = e.sequence
         /\ e.sequence = claim[s].version => e.result = claim[s]

-----------------------------------------------------------------------------
(* What the queue must do.                                                  *)

\* Type correctness, with the shape the database demands of a row
\* (gwork_claim_shape): a lease exactly when there is a claimant.
TypeOK ==
    /\ now \in Times
    /\ members \subseteq Actors
    /\ open \subseteq Sources
    /\ claim \in [Sources -> Claims]
    /\ events \subseteq Events
    /\ reply \in Replies
    /\ \A s \in Sources : claim[s].by = None <=> claim[s].until = 0

\* Every claim verifies at any time, whatever calls were made: its events are
\* numbered without gap or repetition up to the version, each was made by a request
\* that expected the version before it and hangs on the event before it, and the
\* last one says what the claim says.
ChainsVerify == \A s \in Sources : ChainValid(s)

\* An idempotency key names one event of the organization, so that the unique
\* constraint uniq_gwork_org_idem never refuses an insertion that the replay
\* lookup let through.
KeysTakeEffectOnce == \A d, e \in events : d.key = e.key => d = e

\* A lease that was answered to an actor is kept: until it ends, the next event of
\* the item is the actor's own, whoever else asks, with whatever version.
PromisedLeaseIsKept ==
    \A d, e \in events :
        /\ d.request.source = e.request.source
        /\ e.sequence = d.sequence + 1
        /\ d.result.by # None
        => \/ e.request.actor = d.result.by
           \/ e.at >= d.result.until

\* A member who repeats a call that took effect is answered with what it did then,
\* although by now the source may be finished, the lease over and the item
\* somebody else's, and nothing is done again (the test
\* test_claim_renew_release_are_versioned_idempotent_and_append_only, at any later
\* time).
RepeatedCallIsAnswered ==
    [][\A e \in events :
         Mutate(e.request, e.key) /\ e.request.actor \in members =>
            /\ reply' = [outcome |-> "replayed", result |-> e.result]
            /\ UNCHANGED <<claim, events>>]_vars

\* The claims are leases: every call that has an effect is one operation of
\* WorkLease, and any other step leaves the leases alone.
Lease == INSTANCE WorkLease WITH
    lease <- [s \in Sources |-> [by |-> claim[s].by, until |-> claim[s].until]],
    spent <- {e.key : e \in events}

ClaimsAreLeases == Lease!Spec
=============================================================================
