----------------------------- MODULE SubtreeLeases -----------------------------
(***************************************************************************)
(* The two locks every change of a server workspace takes, workspace/      *)
(* locks.py: leases on a subtree, granted in arrival order to owners whose *)
(* subtrees do not overlap, and under them one lock per workspace whose    *)
(* entry lives only while somebody holds or awaits it.  The paths are      *)
(* those of one workspace.                                                 *)
(***************************************************************************)
EXTENDS Integers, Sequences, FiniteSets, SequencesExt, FiniteSetsExt

CONSTANT Op                 \* the operations that may run at once

VARIABLES
    pending,    \* SubtreeLeaseManager._pending: reservations in arrival order
    active,     \* SubtreeLeaseManager._active
    awake,      \* waiters the condition has notified since they last looked
    entry,      \* the lock object KeyedLockManager._entries holds (0 = none)
    keyed       \* op -> the lock object it holds or awaits, and which

leasevars == <<pending, active, awake>>
keyvars == <<entry, keyed>>
lockvars == <<leasevars, keyvars>>

(* a reservation: the subtree, its owner, and whether it is a lease kept   *)
(* for a whole directory job or one taken around a single change           *)
Reservation(owner, use, prefix) == [owner |-> owner, use |-> use, prefix |-> prefix]

PrefixContains(ancestor, descendant) == IsPrefix(ancestor, descendant)

ReservationsOverlap(r, s) == PrefixContains(r.prefix, s.prefix) \/ PrefixContains(s.prefix, r.prefix)

Pending(p) == CHOOSE i \in DOMAIN pending : pending[i].owner = p

(* A request waits for other owners' leases that overlap it and, unless a  *)
(* lease of its own owner already covers it, for earlier requests that do. *)
Blockers(r, earlier) ==
    LET overlapping == {a \in active : ReservationsOverlap(r, a)}
        covered == \E a \in overlapping : PrefixContains(a.prefix, r.prefix)
        ahead == {j \in DOMAIN earlier : ~covered /\ ReservationsOverlap(r, earlier[j])}
    IN ({a.owner : a \in overlapping} \ {r.owner}) \cup {earlier[j].owner : j \in ahead}

Blocked(r, earlier) == Blockers(r, earlier) # {}

WaitsFor(p) == Blockers(pending[Pending(p)], SubSeq(pending, 1, Pending(p) - 1))
StillBlocked(p) == WaitsFor(p) # {}

Waiters == {pending[i].owner : i \in DOMAIN pending}

LocksInit ==
    /\ pending = <<>> /\ active = {} /\ awake = {}
    /\ entry = 0 /\ keyed = [p \in Op |-> [id |-> 0, has |-> FALSE]]

(* acquire: the request is granted at once or waits its turn, asleep *)
AcquireLease(r) ==
    /\ IF Blocked(r, pending)
       THEN pending' = Append(pending, r) /\ UNCHANGED active
       ELSE active' = active \cup {r} /\ UNCHANGED pending
    /\ UNCHANGED awake

(* acquire: notified, look again *)
LeaseSleeps(p) ==
    /\ p \in awake /\ StillBlocked(p)
    /\ awake' = awake \ {p}
    /\ UNCHANGED <<pending, active>>

LeaseGranted(p) ==
    /\ p \in awake /\ ~StillBlocked(p)
    /\ active' = active \cup {pending[Pending(p)]}
    /\ pending' = RemoveAt(pending, Pending(p))
    /\ awake' = awake \ {p}

(* acquire cancelled while it waits: the request leaves, the rest look again *)
LeaseAbandoned(p) ==
    /\ pending' = RemoveAt(pending, Pending(p))
    /\ awake' = Waiters \ {p}
    /\ UNCHANGED active

ReleaseSilently(gone) ==
    /\ active' = active \ gone
    /\ UNCHANGED <<pending, awake>>

(* SubtreeLeaseManager._release and notify_all, for leases given up together *)
ReleaseLeases(gone) ==
    /\ active' = active \ gone
    /\ awake' = IF gone \cap active = {} THEN awake ELSE Waiters
    /\ UNCHANGED pending

(***************************************************************************)
(* KeyedLockManager.  A lock object is a positive number; `leases' of it   *)
(* are the operations that name it.                                        *)
(***************************************************************************)
LeasesOf(id) == {p \in Op : keyed[p].id = id}
FreshLock == Min((1..(Cardinality(Op) + 1)) \ {keyed[p].id : p \in Op})

(* hold: find or create the entry and count a lease on it *)
Hold(p) ==
    LET id == IF entry = 0 THEN FreshLock ELSE entry
    IN /\ entry' = id
       /\ keyed' = [keyed EXCEPT ![p] = [id |-> id, has |-> FALSE]]

LockFree(id) == ~\E q \in Op : keyed[q].id = id /\ keyed[q].has
Locked(p) ==
    /\ keyed[p].id # 0 /\ ~keyed[p].has /\ LockFree(keyed[p].id)
    /\ keyed' = [keyed EXCEPT ![p].has = TRUE]
    /\ UNCHANGED entry

(* _release: the entry goes with its last lease *)
Unhold(p) ==
    /\ keyed' = [keyed EXCEPT ![p] = [id |-> 0, has |-> FALSE]]
    /\ entry' = IF LeasesOf(keyed[p].id) = {p} /\ entry = keyed[p].id THEN 0 ELSE entry
=============================================================================
