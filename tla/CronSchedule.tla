---------------------------- MODULE CronSchedule ----------------------------
(***************************************************************************)
(* The time arithmetic of the scheduled jobs                               *)
(* (server automations/schedule.py).  An instant is a natural number, a    *)
(* zone is the offset of each instant to its local time (it changes where  *)
(* clocks go forward or back), and a cron expression is the set of the     *)
(* local times it matches, which croniter (a library) walks in order.      *)
(***************************************************************************)
EXTENDS Naturals, FiniteSets, FiniteSetsExt

CONSTANTS
    Horizon,        \* the last instant of a behaviour
    Zones,          \* functions from Instants to offsets
    Exprs           \* sets of local times

Instants == 0 .. Horizon
NoInstant == 99     \* InvalidScheduleError: there is no such occurrence

ASSUME ScheduleBounds ==
    /\ Horizon \in Nat /\ Horizon < NoInstant
    /\ \A z \in Zones : DOMAIN z = Instants
    /\ \A x \in Exprs : x \subseteq Nat /\ IsFiniteSet(x)

\* The instants that show one local time: none where clocks go forward, two where
\* they go back (datetime's fold).
LocalUtcCandidates(l, z) == {u \in Instants : u + z[u] = l}
Earlier(l, z) == Min(LocalUtcCandidates(l, z))
Exists(l, z) == LocalUtcCandidates(l, z) # {}

\* _next_cron starts at the local time and takes the first match whose earlier
\* instant is still ahead.
NextCron(x, z, now) ==
    LET ahead == {l \in x : l > now + z[now] /\ Exists(l, z) /\ Earlier(l, z) > now}
    IN IF ahead = {} THEN NoInstant ELSE Earlier(Min(ahead), z)

\* Mutation: the look back alone.
PreviousBack(x, z, now) ==
    LET back == {l \in x : l <= now + z[now] /\ Exists(l, z) /\ Earlier(l, z) <= now}
    IN IF back = {} THEN NoInstant ELSE Earlier(Max(back), z)

\* _previous_cron looks back from the local time, then forward: where clocks go
\* back, later local times have already passed.
PreviousCron(x, z, now) ==
    LET base == now + z[now]
        back == {l \in x : l <= base /\ Exists(l, z) /\ Earlier(l, z) <= now}
        stop == {l \in x : l > base /\ Exists(l, z) /\ Earlier(l, z) > now}
        seen == {l \in x : l > base /\ Exists(l, z) /\ \A s \in stop : l < s}
        found == {Earlier(l, z) : l \in (IF back = {} THEN {} ELSE {Max(back)}) \union seen}
    IN IF found = {} THEN NoInstant ELSE Max(found)

\* advance_recurring: the first boundary after now.
AdvanceRecurring(s, scheduled, now) ==
    IF s.kind = "every"
    THEN scheduled + ((IF now > scheduled THEN (now - scheduled) \div s.n ELSE 0) + 1) * s.n
    ELSE NextCron(s.x, s.z, now)

\* latest_due_occurrence: of several missed boundaries only the last is run.
LatestDueOccurrence(s, scheduled, now) ==
    CASE s.kind = "every" -> scheduled + ((now - scheduled) \div s.n) * s.n
      [] s.kind = "cron" -> LET p == PreviousCron(s.x, s.z, now)
                            IN IF p = NoInstant THEN scheduled ELSE Max({scheduled, p})
      [] OTHER -> scheduled

\* canonicalize_schedule: the first fire of a job written now.
FirstFire(s, now) ==
    CASE s.kind = "every" -> now + s.n
      [] s.kind = "cron" -> NextCron(s.x, s.z, now)
      [] s.kind = "local" ->
            IF Cardinality(LocalUtcCandidates(s.l, s.z)) = 1 /\ Earlier(s.l, s.z) > now
            THEN Earlier(s.l, s.z) ELSE NoInstant
      [] OTHER -> IF s.t > now THEN s.t ELSE NoInstant

(***************************************************************************)
(* Checked for every zone, expression and instant: ask is one question.    *)
(***************************************************************************)
VARIABLE ask
ScheduleInit == ask \in [z : Zones, x : Exprs, now : Instants]

\* The instants an expression stands for: each local time it matches, once.
Occurrences(x, z) == {Earlier(l, z) : l \in {m \in x : Exists(m, z)}}

\* Across clocks going forward or back, _next_cron and _previous_cron return the
\* neighbouring occurrences of now: none is skipped and none comes twice.
NeighboursExact ==
    LET occ == Occurrences(ask.x, ask.z)
        later == {o \in occ : o > ask.now}
        due == occ \ later
    IN /\ NextCron(ask.x, ask.z, ask.now) = IF later = {} THEN NoInstant ELSE Min(later)
       /\ PreviousCron(ask.x, ask.z, ask.now) = IF due = {} THEN NoInstant ELSE Max(due)
=============================================================================
