------------------------------- MODULE WorkLease -------------------------------
(***************************************************************************)
(* What the governed work queue promises its users, without versions,       *)
(* events, memberships or answers: an item of work is leased to one actor   *)
(* at a time, a lease ends by its holder's own act or by its time, and every *)
(* idempotency key of the organization takes effect once.                   *)
(***************************************************************************)
EXTENDS Naturals

CONSTANTS
    Actors,   \* users of the organization
    Sources,  \* items of work
    Keys,     \* idempotency keys
    Leases,   \* lease durations
    None,     \* no actor
    MaxTime   \* bound: the clock

VARIABLES
    now,    \* the clock
    lease,  \* per item, who holds it and until when
    spent   \* the keys that took effect

leaseVars == <<now, lease, spent>>

Unleased == [by |-> None, until |-> 0]

Init ==
    /\ now = 0
    /\ lease = [s \in Sources |-> Unleased]
    /\ spent = {}

Holds(a, s) == lease[s].by = a /\ lease[s].until > now

Spend(k) == k \notin spent /\ spent' = spent \cup {k}

Grant(a, s, d) == lease' = [lease EXCEPT ![s] = [by |-> a, until |-> now + d]]

\* An item nobody holds is taken.
Acquire(a, s, d) == (\A b \in Actors : ~Holds(b, s)) /\ Grant(a, s, d)

\* The holder moves the end of the lease.
Extend(a, s, d) == Holds(a, s) /\ Grant(a, s, d)

GiveUp(a, s) == Holds(a, s) /\ lease' = [lease EXCEPT ![s] = Unleased]

\* What a call does under its key.
Operate(a, s) == (\E d \in Leases : Acquire(a, s, d) \/ Extend(a, s, d)) \/ GiveUp(a, s)

Tick == now < MaxTime /\ now' = now + 1 /\ UNCHANGED <<lease, spent>>

Next ==
    \/ \E k \in Keys :
         Spend(k) /\ now' = now /\ \E a \in Actors, s \in Sources : Operate(a, s)
    \/ Tick

Spec == Init /\ [][Next]_leaseVars
=============================================================================
