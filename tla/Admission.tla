------------------------------ MODULE Admission -----------------------------
(***************************************************************************)
(* Who may transfer and work at once: the fair admission of device         *)
(* transfers (server devices/transfer_admission.py), the keyed admission   *)
(* of bounded work (server admission.py) and the slots of one device       *)
(* (client transfer_admission.py).  A request waits in a queue, a slot is  *)
(* given to it by a future, and its timeout or cancellation may come at    *)
(* any time before it has seen the future: a slot may cross with it.       *)
(***************************************************************************)
EXTENDS Scene, Naturals, Sequences, FiniteSets, FiniteSetsExt, SequencesExt

CONSTANTS
    Reqs,           \* requests
    Owner,          \* the user, or the key, of each
    Lane,           \* the direction of each, for the keyed admission
    MaxAll,         \* max_concurrency, global_limit, capacity
    MaxOwn          \* max_concurrency_per_user, per_key_limit

ASSUME AdmissionBounds ==
    /\ IsFiniteSet(Reqs) /\ DOMAIN Owner = Reqs /\ DOMAIN Lane = Reqs
    /\ MaxAll \in Nat \ {0} /\ MaxOwn \in 1 .. MaxAll

Owners == {Owner[r] : r \in Reqs}
Lanes == {Lane[r] : r \in Reqs}

VARIABLES
    pc,             \* what each request does
    fair,           \* FairTransferAdmission
    passed,         \* how often each user was served while another one waited
    refused,        \* the users refused while a slot of theirs was free
    keyed,          \* the entries of _KeyedPool and the semaphores of the directions
    local           \* LocalTransferAdmission
admvars == <<pc, fair, passed, refused, keyed, local>>

Unserved == [u \in Owners |-> [v \in Owners |-> 0]]
NoEntry == [on |-> FALSE, v |-> 0, q |-> <<>>, given |-> {}, leases |-> 0]

AdmissionInit ==
    /\ pc = [r \in Reqs |-> "new"]
    /\ fair = [active |-> 0, by |-> [u \in Owners |-> 0], q |-> [u \in Owners |-> <<>>],
               rr |-> <<>>, given |-> {}]
    /\ passed = Unserved /\ refused = {}
    /\ keyed = [entry |-> [k \in Owners |-> NoEntry],
                glob |-> [d \in Lanes |-> [v |-> MaxAll, q |-> <<>>, given |-> {}]]]
    /\ local = [v |-> MaxAll, q |-> <<>>, given |-> {}]

(***************************************************************************)
(* FairTransferAdmission: a queue for each user, and the users in turn.    *)
(* Its lock is never held across a wait: each section is one step.         *)
(***************************************************************************)
CanGrant(f, u) == f.active < MaxAll /\ f.by[u] < MaxOwn
Grant(f, u) == [f EXCEPT !.active = @ + 1, !.by[u] = @ + 1]

\* Mutation: a user that was served stays in front.
RECURSIVE DrainSame(_, _)
DrainSame(f, blocked) ==
    IF ~(f.active < MaxAll /\ f.rr # <<>> /\ blocked < Len(f.rr)) THEN f
    ELSE LET u == Head(f.rr)
             rest == Tail(f.rr)
         IN IF ~CanGrant(f, u) THEN DrainSame([f EXCEPT !.rr = Append(rest, u)], blocked + 1)
            ELSE DrainSame([Grant(f, u) EXCEPT
                              !.q[u] = Tail(@), !.given = @ \union {Head(f.q[u])},
                              !.rr = IF Len(f.q[u]) > 1 THEN f.rr ELSE rest], 0)
\* _drain_locked: at most one round of users at their own limit.
RECURSIVE Drain(_, _)
Drain(f, blocked) ==
    IF ~(f.active < MaxAll /\ f.rr # <<>> /\ blocked < Len(f.rr)) THEN f
    ELSE LET u == Head(f.rr)
             rest == Tail(f.rr)
         IN IF ~CanGrant(f, u) THEN Drain([f EXCEPT !.rr = Append(rest, u)], blocked + 1)
            ELSE Drain([Grant(f, u) EXCEPT
                          !.q[u] = Tail(@), !.given = @ \union {Head(f.q[u])},
                          !.rr = IF Len(f.q[u]) > 1 THEN Append(rest, u) ELSE rest], 0)

\* Bookkeeping of the model: grants to others while a user with a free slot of its own waited.
Serves(f, direct) ==
    LET new(v) == Cardinality({r \in f.given \ fair.given : Owner[r] = v}) + (IF direct = v THEN 1 ELSE 0)
        waits(u) == fair.q[u] # <<>> /\ f.q[u] # <<>> /\ f.by[u] < MaxOwn /\ new(u) = 0
    IN passed' = [u \in Owners |-> [v \in Owners |-> IF waits(u) /\ u # v THEN passed[u][v] + new(v) ELSE 0]]

WaitingCount == FoldFunction(LAMBDA q, n : n + Len(q), 0, fair.q)

Acquire(r) ==
    LET u == Owner[r] IN
    /\ pc[r] = "new"
    /\ UNCHANGED <<keyed, local>>
    /\ IF CanGrant(fair, u) /\ fair.rr = <<>>
       THEN /\ fair' = Grant(fair, u) /\ Serves(fair', u)
            /\ pc' = [pc EXCEPT ![r] = "owns"] /\ UNCHANGED refused
       ELSE IF Len(fair.q[u]) >= MaxOwn \/ WaitingCount >= MaxAll
       THEN /\ pc' = [pc EXCEPT ![r] = "done"] /\ UNCHANGED <<fair, passed>>
            /\ refused' = refused \union (IF CanGrant(fair, u) THEN {u} ELSE {})
       ELSE /\ fair' = Drain([fair EXCEPT !.q[u] = Append(@, r),
                                          !.rr = IF Contains(@, u) THEN @ ELSE Append(@, u)], 0)
            /\ Serves(fair', "nobody")
            /\ pc' = [pc EXCEPT ![r] = "waits"] /\ UNCHANGED refused

\* acquire returns the lease of the future.
Returns(r) ==
    /\ pc[r] = "waits" /\ r \in fair.given
    /\ fair' = [fair EXCEPT !.given = @ \ {r}]
    /\ pc' = [pc EXCEPT ![r] = "owns"]
    /\ UNCHANGED <<passed, refused, keyed, local>>

\* _cleanup_waiter, after a timeout or a cancellation.
CleanupWaiter(r) ==
    LET u == Owner[r]
        q == Remove(fair.q[u], r)
    IN /\ pc[r] = "waits"
       /\ pc' = [pc EXCEPT ![r] = IF r \in fair.given THEN "closes" ELSE "done"]
       /\ fair' = IF r \in fair.given THEN [fair EXCEPT !.given = @ \ {r}]
                  ELSE Drain([fair EXCEPT !.q[u] = q, !.rr = IF q = <<>> THEN Remove(@, u) ELSE @], 0)
       /\ Serves(fair', "nobody")
       /\ UNCHANGED <<refused, keyed, local>>

\* aclose: once, and the release is a task of its own that nothing cancels.
LeaseCloses(r) ==
    /\ pc[r] = "owns"
    /\ pc' = [pc EXCEPT ![r] = "closes"]
    /\ UNCHANGED <<fair, passed, refused, keyed, local>>
ReleaseRuns(r) ==
    /\ pc[r] = "closes"
    /\ pc' = [pc EXCEPT ![r] = "done"]
    /\ fair' = Drain([fair EXCEPT !.active = @ - 1, !.by[Owner[r]] = @ - 1], 0)
    /\ Serves(fair', "nobody")
    /\ UNCHANGED <<refused, keyed, local>>

FairStep(r) == Returns(r) \/ CleanupWaiter(r) \/ LeaseCloses(r) \/ ReleaseRuns(r)

(***************************************************************************)
(* asyncio.Semaphore (a library): FIFO; whoever is woken holds its unit.   *)
(***************************************************************************)
Unlocked(s) == s.v > 0 /\ s.q = <<>> /\ s.given = {}
UnitTaken(s) == [s EXCEPT !.v = @ - 1]
Queued(s, r) == [s EXCEPT !.q = Append(@, r)]
Wakes(s, n) ==
    [s EXCEPT !.v = @ - n, !.q = SubSeq(@, n + 1, Len(@)), !.given = @ \union {s.q[i] : i \in 1 .. n}]
WakeNext(s) == IF s.v > 0 /\ s.q # <<>> THEN Wakes(s, 1) ELSE s
WakeAll(s) == Wakes(s, Min({s.v, Len(s.q)}))
Woken(s, r) == WakeAll([s EXCEPT !.given = @ \ {r}])
UnitBack(s) == WakeNext([s EXCEPT !.v = @ + 1])
WaitEnded(s, r) ==
    IF r \in s.given THEN WakeAll([s EXCEPT !.v = @ + 1, !.given = @ \ {r}])
    ELSE WakeAll([s EXCEPT !.q = Remove(@, r)])

(***************************************************************************)
(* KeyedAdmission and KeyedDirectionalAdmission: the unit of the key, then *)
(* the one of the direction; the entry of a key lives as long as its       *)
(* requests.                                                               *)
(***************************************************************************)
Leased(e) == [(IF e.on THEN e ELSE [NoEntry EXCEPT !.on = TRUE, !.v = MaxOwn]) EXCEPT !.leases = @ + 1]
Unleased(e) == IF e.leases = 1 THEN NoEntry ELSE [e EXCEPT !.leases = @ - 1]
SetKeyed(r, e, g) == keyed' = [keyed EXCEPT !.entry[Owner[r]] = e, !.glob[Lane[r]] = g]

\* With the unit of the key, take the one of the direction or wait for it.
TakesGlobal(r, e) ==
    LET g == keyed.glob[Lane[r]]
    IN IF Unlocked(g) THEN SetKeyed(r, e, UnitTaken(g)) /\ pc' = [pc EXCEPT ![r] = "owns"]
       ELSE SetKeyed(r, e, Queued(g, r)) /\ pc' = [pc EXCEPT ![r] = "global"]
KeyedAcquire(r) ==
    LET e == Leased(keyed.entry[Owner[r]])
    IN /\ pc[r] = "new"
       /\ IF Unlocked(e) THEN TakesGlobal(r, UnitTaken(e))
          ELSE SetKeyed(r, Queued(e, r), keyed.glob[Lane[r]]) /\ pc' = [pc EXCEPT ![r] = "key"]
       /\ UNCHANGED <<fair, passed, refused, local>>
KeyWoken(r) ==
    /\ pc[r] = "key" /\ r \in keyed.entry[Owner[r]].given
    /\ TakesGlobal(r, Woken(keyed.entry[Owner[r]], r))
    /\ UNCHANGED <<fair, passed, refused, local>>
GlobalWoken(r) ==
    /\ pc[r] = "global" /\ r \in keyed.glob[Lane[r]].given
    /\ SetKeyed(r, keyed.entry[Owner[r]], Woken(keyed.glob[Lane[r]], r))
    /\ pc' = [pc EXCEPT ![r] = "owns"]
    /\ UNCHANGED <<fair, passed, refused, local>>

\* The finally of acquire, after a timeout or a cancellation.
KeyedStops(r) ==
    LET e == keyed.entry[Owner[r]]
        g == keyed.glob[Lane[r]]
    IN /\ \/ pc[r] = "key" /\ SetKeyed(r, Unleased(WaitEnded(e, r)), g)
          \/ pc[r] = "global" /\ SetKeyed(r, Unleased(UnitBack(e)), WaitEnded(g, r))
       /\ pc' = [pc EXCEPT ![r] = "done"]
       /\ UNCHANGED <<fair, passed, refused, local>>
ReleaseCapacity(r) ==
    /\ pc[r] = "owns"
    /\ SetKeyed(r, Unleased(UnitBack(keyed.entry[Owner[r]])), UnitBack(keyed.glob[Lane[r]]))
    /\ pc' = [pc EXCEPT ![r] = "done"]
    /\ UNCHANGED <<fair, passed, refused, local>>

KeyedStep(r) == KeyWoken(r) \/ GlobalWoken(r) \/ KeyedStops(r) \/ ReleaseCapacity(r)

(***************************************************************************)
(* LocalTransferAdmission: what an abandoned thread still uses keeps its   *)
(* slot until it has drained.                                              *)
(***************************************************************************)
LocalFreed(s) ==
    IF s.q = <<>> THEN [s EXCEPT !.v = @ + 1]
    ELSE [s EXCEPT !.q = Tail(@), !.given = @ \union {Head(s.q)}]
LocalAcquire(r) ==
    /\ pc[r] = "new"
    /\ IF local.v > 0 /\ local.q = <<>>
       THEN local' = UnitTaken(local) /\ pc' = [pc EXCEPT ![r] = "owns"]
       ELSE local' = Queued(local, r) /\ pc' = [pc EXCEPT ![r] = "waits"]
    /\ UNCHANGED <<fair, passed, refused, keyed>>
LocalReturns(r) ==
    /\ pc[r] = "waits" /\ r \in local.given
    /\ local' = [local EXCEPT !.given = @ \ {r}] /\ pc' = [pc EXCEPT ![r] = "owns"]
    /\ UNCHANGED <<fair, passed, refused, keyed>>
LocalStops(r) ==
    /\ pc[r] = "waits" /\ pc' = [pc EXCEPT ![r] = "done"]
    /\ local' = IF r \in local.given THEN LocalFreed([local EXCEPT !.given = @ \ {r}])
                ELSE [local EXCEPT !.q = Remove(@, r)]
    /\ UNCHANGED <<fair, passed, refused, keyed>>
LocalHandoff(r) ==
    /\ pc[r] = "owns" /\ pc' = [pc EXCEPT ![r] = "drains"]
    /\ UNCHANGED <<fair, passed, refused, keyed, local>>
LocalReleases(r) ==
    /\ pc[r] \in {"owns", "drains"} /\ pc' = [pc EXCEPT ![r] = "done"]
    /\ local' = LocalFreed(local)
    /\ UNCHANGED <<fair, passed, refused, keyed>>

LocalStep(r) == LocalReturns(r) \/ LocalStops(r) \/ LocalHandoff(r) \/ LocalReleases(r)

\* Requests come in any order.
AdmissionStep ==
    \E r \in Reqs :
      \/ scene = "fair" /\ (Acquire(r) \/ FairStep(r))
      \/ scene = "keyed" /\ (KeyedAcquire(r) \/ KeyedStep(r))
      \/ scene = "local" /\ (LocalAcquire(r) \/ LocalStep(r))
AdmissionDone == \A r \in Reqs : pc[r] = "done"

(***************************************************************************)
(* Properties.                                                             *)
(***************************************************************************)
Holding(set, states) == {r \in Reqs : r \in set \/ pc[r] \in states}

\* FairTransferAdmission counts exactly the leases that exist, returned or on their way,
\* never more than its limits, and has exactly the waiting users in its turn.
FairConserved ==
    scene = "fair" =>
    LET held == Holding(fair.given, {"owns", "closes"}) IN
    /\ fair.active = Cardinality(held) /\ fair.active <= MaxAll
    /\ \A u \in Owners : /\ fair.by[u] = Cardinality({r \in held : Owner[r] = u}) /\ fair.by[u] <= MaxOwn
                         /\ Contains(fair.rr, u) <=> fair.q[u] # <<>>
    /\ IsInjective(fair.rr)
    /\ \A r \in Reqs : pc[r] = "waits" <=> r \in fair.given \/ Contains(fair.q[Owner[r]], r)

\* No request waits for a slot that is free, nor is refused one.
NoneKeptWaiting ==
    scene = "fair" => refused = {} /\ \A u \in Owners : fair.q[u] # <<>> => ~CanGrant(fair, u)

\* "a slow user cannot monopolize": while a user below its own limit waits, every other
\* user is served once at most.
UsersTakeTurns == scene = "fair" => \A u, v \in Owners : passed[u][v] <= 1

\* The keyed admission: the units of a key and of a direction are free or held, a free
\* one is wanted by nobody or will be passed on by a request that was woken, and the
\* entry of a key exists exactly while it is used.
KeyedConserved ==
    scene = "keyed" =>
    /\ \A k \in Owners :
         LET e == keyed.entry[k]
             of(states) == {r \in Reqs : Owner[r] = k /\ pc[r] \in states}
         IN /\ e.on <=> of({"key", "global", "owns"}) # {}
            /\ e.on => /\ e.leases = Cardinality(of({"key", "global", "owns"}))
                       /\ e.v + Cardinality(e.given) + Cardinality(of({"global", "owns"})) = MaxOwn
                       /\ e.v > 0 /\ e.q # <<>> => e.given # {}
    /\ \A d \in Lanes :
         LET g == keyed.glob[d]
         IN /\ g.v + Cardinality(g.given) + Cardinality({r \in Reqs : Lane[r] = d /\ pc[r] = "owns"}) = MaxAll
            /\ g.v > 0 /\ g.q # <<>> => g.given # {}

\* The device's slots are free or held, by a caller or by what it left behind, and no
\* request waits for a free one.
LocalConserved ==
    scene = "local" =>
    /\ local.v + Cardinality(Holding(local.given, {"owns", "drains"})) = MaxAll
    /\ local.v > 0 => local.q = <<>>

\* The three admissions hand out exactly their slots, keep nobody waiting for a free one,
\* and let the users take turns, whichever of grant, timeout and cancellation crosses.
AdmissionExact == FairConserved /\ NoneKeptWaiting /\ UsersTakeTurns /\ KeyedConserved /\ LocalConserved
=============================================================================
