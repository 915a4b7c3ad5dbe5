---------------------------- MODULE ExecSessions ----------------------------
(***************************************************************************)
(* The device's exec sessions: ExecSessionManager (exec_sessions.py), the   *)
(* process handles it drives (process.py) and the policy and shutdown       *)
(* entry points ClientRuntime gives it (connection.py).                     *)
(*                                                                          *)
(* A session is admitted, claims its spawn, forks, is activated and then    *)
(* runs until its process exits or somebody terminates it.  Terminations    *)
(* come from a policy change, the shutdown, the model, the idle sweep, the  *)
(* deadline, a failed reader, a failed wait and the cancelled start itself; *)
(* they queue on the session's lock (FIFO) and each runs                    *)
(* _terminate_locked to its end.  The process, its group and what the       *)
(* kernel does to them are external.                                        *)
(***************************************************************************)
EXTENDS Naturals, FiniteSets, Sequences, Functions

CONSTANTS
    ExecIds,        \* the ids of sessions, 1..n, taken in order
    ExecBudgets     \* records [max, ids, epochs, faults]: MAX_SESSIONS, and the
                    \* sessions, policy epochs and faults of a behaviour

ASSUME ExecBounds ==
    /\ IsFiniteSet(ExecIds) /\ ExecIds \subseteq Nat
    /\ \A b \in ExecBudgets :
        b.max \in Nat \ {0} /\ b.ids \in Nat /\ b.epochs \in Nat \ {0} /\ b.faults \in Nat

VARIABLES
    xs,             \* the sessions, with their processes and their start() calls
    lk,             \* the queue of each session's lock; its head is the holder
    phase,          \* where the holder of each lock is in _terminate_locked
    policy,         \* _policy_epoch, _policy_transition and the apply_policy call
    quit,           \* _shutting_down and the shutdown() call
    xb              \* the bounds of this behaviour
execvars == <<xs, lk, phase, policy, quit, xb>>

NoSession == [tab |-> FALSE, st |-> "starting", claimed |-> FALSE, spawned |-> FALSE,
              handle |-> FALSE, dirty |-> FALSE, flag |-> FALSE, epoch |-> 0, os |-> "none",
              pc |-> "idle", cancelled |-> FALSE, waiter |-> FALSE, reply |-> "none"]
Ended == {"exited", "terminated"}

\* A process that runs, is being forked, or left members of its group behind.
Alive(r) == r.os \in {"forking", "up", "left"}
\* A session whose end is confirmed: nothing of it is left to clean.
Clean(r) == r.st \in Ended /\ ~r.dirty

ExecInit ==
    /\ xs = [s \in ExecIds |-> NoSession]
    /\ lk = [s \in ExecIds |-> <<>>]
    /\ phase = [s \in ExecIds |-> "enter"]
    /\ policy = [epoch |-> 1, next |-> 1, moving |-> FALSE, wait |-> {}, bad |-> FALSE]
    /\ quit = [down |-> FALSE, wait |-> {}, ok |-> {}, all |-> {}, done |-> "no"]
    /\ xb \in ExecBudgets

\* A session that is out of the table, answered and dead is forgotten.
Finished == [NoSession EXCEPT !.st = "terminated", !.spawned = TRUE, !.os = "dead", !.pc = "done"]
Tidy(r) ==
    IF ~r.tab /\ r.pc = "done" /\ ~Alive(r) THEN [Finished EXCEPT !.spawned = r.spawned] ELSE r
Set(s, r) == xs' = [xs EXCEPT ![s] = Tidy(r)]
Fault == xb.faults > 0 /\ xb' = [xb EXCEPT !.faults = @ - 1]
\* _terminate queues on the session's lock.
Queue(s, k) == k \notin Range(lk[s]) /\ lk' = [lk EXCEPT ![s] = Append(@, k)]

(***************************************************************************)
(* start()                                                                  *)
(***************************************************************************)
\* The admission of start(): a refused request leaves no trace.
Admits(e) ==
    /\ ~quit.down
    /\ ~policy.moving
    /\ e = policy.epoch
    /\ Cardinality({s \in ExecIds : xs[s].tab}) < xb.max
Start(s, e) ==
    /\ xs[s].pc = "idle" /\ s <= xb.ids
    /\ \A t \in ExecIds : t < s => xs[t].pc # "idle"
    /\ Admits(e)
    /\ Set(s, [NoSession EXCEPT !.tab = TRUE, !.epoch = e, !.pc = "resolve"])
    /\ UNCHANGED <<lk, phase, policy, quit, xb>>

RemoveSilently(r) ==
    IF ~r.tab \/ (r.handle /\ (r.dirty \/ r.st = "terminating"))
    THEN r
    ELSE [r EXCEPT !.tab = FALSE]
\* _remove_unstarted: a session whose handle still needs cleaning stays.
RemoveUnstarted(r) ==
    IF ~r.tab \/ (r.handle /\ (r.dirty \/ r.st = "terminating"))
    THEN r
    ELSE [r EXCEPT !.tab = FALSE, !.spawned = TRUE]

\* The condition under which _claim_spawn lets the fork go ahead.
MayClaim(s) ==
    /\ ~quit.down
    /\ ~policy.moving
    /\ xs[s].tab
    /\ xs[s].st = "starting"
    /\ xs[s].epoch = policy.epoch
ClaimSpawn(s) ==
    /\ xs[s].pc = "resolve"
    /\ Set(s, IF MayClaim(s)
              THEN [xs[s] EXCEPT !.claimed = TRUE, !.os = "forking", !.pc = "launch"]
              ELSE [RemoveUnstarted(xs[s]) EXCEPT !.pc = "done", !.reply = "refused"])
    /\ UNCHANGED <<lk, phase, policy, quit, xb>>

\* The working directory does not resolve, or the call is cancelled before the
\* spawn is claimed.
GiveUp(s) ==
    /\ xs[s].pc = "resolve"
    /\ Fault
    /\ Set(s, [RemoveUnstarted(xs[s]) EXCEPT !.pc = "done", !.reply = "refused"])
    /\ UNCHANGED <<lk, phase, policy, quit>>

\* A cancellation while the fork runs is held back until the handle is known.
CancelLaunch(s) ==
    /\ xs[s].pc = "launch" /\ ~xs[s].cancelled
    /\ Fault
    /\ Set(s, [xs[s] EXCEPT !.cancelled = TRUE])
    /\ UNCHANGED <<lk, phase, policy, quit>>

\* _cancel_spawned: _settle_spawned binds the handle and asks for the termination.
Settle(s, r) ==
    /\ Set(s, [r EXCEPT !.handle = r.tab, !.spawned = @ \/ r.tab, !.pc = "settle"])
    /\ Queue(s, "settle")

\* spawn_process returns its handle.
Launched(s) ==
    /\ xs[s].pc = "launch"
    /\ LET r == [xs[s] EXCEPT !.os = "up"]
       IN  IF r.cancelled THEN Settle(s, r)
           ELSE Set(s, [r EXCEPT !.pc = "activate"]) /\ UNCHANGED lk
    /\ UNCHANGED <<phase, policy, quit, xb>>
LaunchFails(s) ==
    /\ xs[s].pc = "launch"
    /\ Fault
    /\ Set(s, [RemoveUnstarted([xs[s] EXCEPT !.os = "dead"])
               EXCEPT !.pc = "done", !.reply = "refused"])
    /\ UNCHANGED <<lk, phase, policy, quit>>

\* _activate_spawned, and on success the reader, waiter and timeout tasks.
ActivateSpawned(s) ==
    /\ xs[s].pc = "activate"
    /\ IF ~quit.down /\ xs[s].tab /\ xs[s].st = "starting"
       THEN /\ Set(s, [xs[s] EXCEPT !.handle = TRUE, !.st = "running", !.spawned = TRUE,
                                    !.waiter = TRUE, !.pc = "wait"])
            /\ UNCHANGED lk
       ELSE Settle(s, xs[s])
    /\ UNCHANGED <<phase, policy, quit, xb>>

\* _remove: the session leaves the table and its tasks are cancelled.
RemoveSession(r) == [r EXCEPT !.tab = FALSE, !.waiter = FALSE]
\* _final_report removes a session whose end is confirmed.
FinalReport(r) == IF Clean(r) THEN RemoveSession(r) ELSE r

\* start() reports, after the terminal event or its yield time.
StartReports(s) ==
    /\ xs[s].pc = "wait"
    /\ Set(s, [FinalReport(xs[s]) EXCEPT !.pc = "done", !.reply = "started"])
    /\ UNCHANGED <<lk, phase, policy, quit, xb>>

(***************************************************************************)
(* The process and the tasks that watch it                                  *)
(***************************************************************************)
\* The process exits by itself, with or without members of its group left.
ProcessExits(s) ==
    /\ xs[s].os = "up"
    /\ \E o \in {"left", "dead"} : Set(s, [xs[s] EXCEPT !.os = o])
    /\ UNCHANGED <<lk, phase, policy, quit, xb>>
\* What the handle could not confirm gone goes on its own.
LeftoversDie(s) ==
    /\ xs[s].os = "left" /\ xs[s].flag
    /\ Set(s, [xs[s] EXCEPT !.os = "dead"])
    /\ UNCHANGED <<lk, phase, policy, quit, xb>>

\* _wait_for_exit: handle.wait() cleans the group, and may fail to confirm it.
WaitForExit(s) ==
    /\ xs[s].waiter /\ xs[s].os \in {"left", "dead"}
    /\ \E f \in BOOLEAN :
        LET flag == xs[s].flag \/ f
        IN  /\ IF f THEN Fault ELSE UNCHANGED xb
            /\ Set(s, [xs[s] EXCEPT !.waiter = FALSE, !.flag = flag, !.dirty = @ \/ flag,
                                    !.os = IF f THEN @ ELSE "dead",
                                    !.st = IF @ = "running" THEN "exited" ELSE @])
    /\ UNCHANGED <<lk, phase, policy, quit>>
WaitFails(s) ==
    /\ xs[s].waiter
    /\ Fault
    /\ Set(s, [xs[s] EXCEPT !.waiter = FALSE, !.st = "terminating", !.dirty = TRUE])
    /\ Queue(s, "waiter")
    /\ UNCHANGED <<phase, policy, quit>>

\* _timeout after the deadline, and a reader that fails.
DeadlinePasses(s) ==
    /\ xs[s].st = "running" /\ xs[s].tab
    /\ Fault
    /\ Queue(s, "timer")
    /\ UNCHANGED <<xs, phase, policy, quit>>
ReaderFails(s) ==
    /\ xs[s].handle /\ xs[s].tab /\ xs[s].pc \in {"wait", "done"}
    /\ Fault
    /\ Queue(s, "reader")
    /\ UNCHANGED <<xs, phase, policy, quit>>

(***************************************************************************)
(* _terminate_locked, by the holder of the session's lock                   *)
(***************************************************************************)
\* What the caller of _terminate does with the answer.
Answered(k, r, ok) ==
    CASE k = "user" -> IF ok THEN FinalReport(r) ELSE r
      [] k = "settle" ->
           [(IF (ok /\ ~r.dirty) \/ r.cancelled THEN RemoveUnstarted(r) ELSE r)
            EXCEPT !.pc = "done",
                   !.reply = IF ok /\ ~r.dirty THEN "refused" ELSE "unsure"]
      [] OTHER -> r
Returns(s, r, ok) ==
    LET k == Head(lk[s])
    IN  /\ lk' = [lk EXCEPT ![s] = Tail(@)]
        /\ phase' = [phase EXCEPT ![s] = "enter"]
        /\ Set(s, Answered(k, r, ok))
        /\ policy' = IF k = "policy" THEN [policy EXCEPT !.wait = @ \ {s}, !.bad = @ \/ ~ok]
                     ELSE policy
        /\ quit' = IF k = "shutdown"
                   THEN [quit EXCEPT !.wait = @ \ {s},
                                     !.ok = IF ok THEN @ \union {s} ELSE @]
                   ELSE quit

\* The end of _terminate_locked: converged or left terminating.
Concludes(s, r, converged) ==
    Returns(s, [r EXCEPT !.st = IF converged THEN "terminated" ELSE "terminating",
                         !.dirty = ~converged], converged)
\* Past the spawn: without a handle there is nothing to kill.
PastSpawn(s, r) ==
    IF r.handle
    THEN /\ Set(s, [r EXCEPT !.st = "terminating"])
         /\ phase' = [phase EXCEPT ![s] = "kill"]
         /\ UNCHANGED <<lk, policy, quit>>
    ELSE Concludes(s, r, TRUE)

\* A session that is being forked keeps its state, so that its process can be
\* activated and then killed; the termination waits for the fork either way.
TerminateEnter(s) ==
    /\ lk[s] # <<>> /\ phase[s] = "enter"
    /\ LET r == [xs[s] EXCEPT !.dirty = TRUE,
                              !.st = IF xs[s].claimed /\ ~xs[s].spawned THEN @
                                     ELSE "terminating"]
       IN  IF Clean(xs[s]) THEN Returns(s, xs[s], TRUE)
           ELSE IF r.spawned THEN PastSpawn(s, r)
           ELSE /\ Set(s, r)
                /\ phase' = [phase EXCEPT ![s] = "spawn"]
                /\ UNCHANGED <<lk, policy, quit>>
    /\ UNCHANGED xb
TerminateSpawned(s) ==
    /\ phase[s] = "spawn" /\ xs[s].spawned
    /\ PastSpawn(s, xs[s])
    /\ UNCHANGED xb

\* terminate() and wait() of the handle within their limits.  The handle never
\* forgets that it once could not confirm a clean group.
Kills(s) ==
    /\ phase[s] = "kill"
    /\ Concludes(s, [xs[s] EXCEPT !.os = "dead"], ~xs[s].flag)
    /\ UNCHANGED xb
KillUnconfirmed(s) ==
    /\ phase[s] = "kill"
    /\ Fault
    /\ \E o \in {"left", "dead"} :
        Concludes(s, [xs[s] EXCEPT !.flag = TRUE, !.os = IF @ = "dead" THEN @ ELSE o], FALSE)
KillTimesOut(s) ==
    /\ phase[s] = "kill"
    /\ Fault
    /\ Concludes(s, xs[s], FALSE)

(***************************************************************************)
(* Who terminates                                                           *)
(***************************************************************************)
\* write_stdin with terminate, and a poll of a session that has ended.
UserTerminates(s) ==
    /\ xs[s].tab
    /\ Fault
    /\ Queue(s, "user")
    /\ UNCHANGED <<xs, phase, policy, quit>>
UserPolls(s) ==
    /\ xs[s].tab /\ Clean(xs[s])
    /\ Set(s, FinalReport(xs[s]))
    /\ UNCHANGED <<lk, phase, policy, quit, xb>>

\* cleanup_idle, one session at a time, until the shutdown ends its loop.  (A
\* session whose handle is flagged is swept in vain; that sweep is left out.)
Swept(s) ==
    /\ ~quit.down /\ xs[s].tab
    /\ IF Clean(xs[s])
       THEN Set(s, RemoveSession(xs[s])) /\ UNCHANGED lk
       ELSE /\ xs[s].st \in {"running", "terminating"} \/ xs[s].dirty
            /\ ~xs[s].flag
            /\ \A t \in ExecIds : "sweep" \notin Range(lk[t])
            /\ Queue(s, "sweep")
            /\ UNCHANGED xs
    /\ UNCHANGED <<phase, policy, quit, xb>>

\* The termination of a whole set of sessions is queued at once.
QueueAll(S, k) == lk' = [s \in ExecIds |-> IF s \in S THEN Append(lk[s], k) ELSE lk[s]]
StaleRunning(e) == {s \in ExecIds : xs[s].tab /\ xs[s].epoch # e /\ xs[s].st # "starting"}
\* The sessions apply_policy has to see ended: all that carry another epoch.
Stale(e) == {s \in ExecIds : xs[s].tab /\ xs[s].epoch # e}

\* _bind_exec_policy takes a new epoch and apply_policy fences the admission.
ApplyPolicy ==
    /\ policy.wait = {} /\ policy.next < xb.epochs
    /\ policy.moving => policy.bad
    /\ ~quit.down
    /\ policy' = [policy EXCEPT !.next = @ + 1, !.moving = TRUE, !.bad = FALSE,
                                !.wait = Stale(policy.next + 1)]
    /\ QueueAll(policy'.wait, "policy")
    /\ UNCHANGED <<xs, phase, quit, xb>>
\* All converged, and the new epoch is current; or the fence stays up.
PolicyApplied ==
    /\ policy.moving /\ policy.wait = {} /\ ~policy.bad
    /\ policy' = [policy EXCEPT !.epoch = policy.next, !.moving = FALSE]
    /\ UNCHANGED <<xs, lk, phase, quit, xb>>

Shutdown ==
    /\ ~quit.down
    /\ LET all == {s \in ExecIds : xs[s].tab}
       IN  /\ quit' = [quit EXCEPT !.down = TRUE, !.wait = all, !.all = all]
           /\ QueueAll(all, "shutdown")
    /\ UNCHANGED <<xs, phase, policy, xb>>
ShutdownEnds ==
    /\ quit.down /\ quit.wait = {} /\ quit.done = "no"
    /\ xs' = [s \in ExecIds |-> IF s \in quit.ok /\ ~xs[s].dirty THEN Tidy(RemoveSession(xs[s]))
                                ELSE xs[s]]
    /\ quit' = [quit EXCEPT !.done = IF quit.ok = quit.all THEN "complete" ELSE "incomplete"]
    /\ UNCHANGED <<lk, phase, policy, xb>>

ExecSteps(s) ==
    \/ ClaimSpawn(s) \/ Launched(s) \/ ActivateSpawned(s) \/ StartReports(s)
    \/ WaitForExit(s) \/ LeftoversDie(s)
    \/ TerminateEnter(s) \/ TerminateSpawned(s) \/ Kills(s)
    \/ Swept(s)
ExecInputs(s) ==
    \/ \E e \in 1..policy.next : Start(s, e)
    \/ GiveUp(s) \/ CancelLaunch(s) \/ LaunchFails(s)
    \/ ProcessExits(s) \/ WaitFails(s) \/ DeadlinePasses(s) \/ ReaderFails(s)
    \/ KillUnconfirmed(s) \/ KillTimesOut(s)
    \/ UserTerminates(s) \/ UserPolls(s)
ExecNext ==
    \/ \E s \in ExecIds : ExecSteps(s) \/ ExecInputs(s)
    \/ ApplyPolicy \/ PolicyApplied \/ Shutdown \/ ShutdownEnds
\* What the event loop keeps doing; requests, faults and exits may not come.
ExecProgress == (\E s \in ExecIds : ExecSteps(s)) \/ PolicyApplied \/ ShutdownEnds

(***************************************************************************)
(* Properties                                                               *)
(***************************************************************************)
\* A process that is being forked, runs or left members of its group behind
\* belongs to a session of the table: it counts against MAX_SESSIONS and the
\* sweep and the shutdown reach it, whatever cancelled its start.
LiveTracked == \A s \in ExecIds : Alive(xs[s]) => xs[s].tab

\* Once apply_policy has returned, no process started under another policy is
\* left, whether it was forking, running or ending when the policy changed.
PolicyConverged ==
    ~policy.moving => \A s \in ExecIds : Alive(xs[s]) => xs[s].epoch = policy.epoch

\* A shutdown that reports complete has left no process behind, and none is
\* forked after it.
ShutdownClean == quit.done = "complete" => \A s \in ExecIds : ~Alive(xs[s])

\* start() answers that nothing was started only if no process is alive.
RefusalTrue == \A s \in ExecIds : xs[s].reply = "refused" => ~Alive(xs[s])

\* No process of a command escapes the manager: not from its table, not from a new
\* policy, not from a shutdown, and not behind an answer that says none was started.
NoneEscapes == LiveTracked /\ PolicyConverged /\ ShutdownClean /\ RefusalTrue

\* Something is still going on: a start, a termination, a policy change, a
\* shutdown, or a session that the sweep can still clear.
ExecUnfinished ==
    \/ \E s \in ExecIds : xs[s].pc \notin {"idle", "done"} \/ lk[s] # <<>>
    \/ policy.moving /\ ~policy.bad
    \/ quit.down /\ quit.done = "no"
    \/ ~quit.down /\ \E s \in ExecIds : xs[s].tab /\ ~xs[s].flag
=============================================================================
