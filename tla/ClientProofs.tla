---------------------------- MODULE ClientProofs ----------------------------
(***************************************************************************)
(* No command escapes the Client (ExecSessions, exec/sessions.py).         *)
(*                                                                         *)
(* NoneEscapes is not inductive: a session that a policy change or a       *)
(* shutdown still waits for may be alive, and whether a start() that       *)
(* returned "refused" left a process depends on how far it had come.       *)
(* ExecInv adds, for each session, what its record says of its process at  *)
(* every program counter of start() (Sound), that a kill is only attempted *)
(* once the spawn has settled (PhasesOK), and which live sessions the      *)
(* policy change and the shutdown in progress have still to visit          *)
(* (PolicyOK, QuitOK).                                                     *)
(*                                                                         *)
(* Nearly every step changes one session, and all but two of them bring no *)
(* process to life.  Keeps(r, n) says so of the record before and after,   *)
(* and SessionStep turns it into the preservation of the invariant; what   *)
(* is left for each action is to show Keeps for the record it writes.      *)
(***************************************************************************)
EXTENDS Client, TLAPS

\* The program counters of start() and the fields of a session's record.
ExecPcs == {"idle", "resolve", "launch", "activate", "settle", "wait", "done"}
Session ==
    [tab : BOOLEAN, st : {"starting", "running", "terminating"} \cup Ended,
     claimed : BOOLEAN, spawned : BOOLEAN, handle : BOOLEAN, dirty : BOOLEAN, flag : BOOLEAN,
     epoch : Nat, os : {"none", "forking", "up", "left", "dead"}, pc : ExecPcs,
     cancelled : BOOLEAN, waiter : BOOLEAN, reply : {"none", "refused", "started", "unsure"}]
Forked == {"up", "left", "dead"}
Past == {"settle", "wait", "done"}

\* What one session's record says of its process.
Sound(r) ==
    /\ r \in Session
    /\ Alive(r) => r.tab
    /\ Clean(r) => ~Alive(r)
    /\ r.reply = "refused" => ~Alive(r)
    /\ r.pc \in {"idle", "resolve"} =>
         r.os = "none" /\ r.st \in {"starting", "terminating"} /\ ~r.spawned /\ r.reply = "none"
    /\ r.pc \in {"launch", "activate"} =>
         r.tab /\ r.claimed /\ ~r.spawned /\ r.st = "starting" /\ r.reply = "none"
    /\ r.pc = "launch" <=> r.os = "forking"
    /\ r.pc = "activate" => r.os \in Forked
    /\ r.spawned /\ ~r.handle => ~Alive(r)
    /\ r.handle => r.spawned /\ r.os \in Forked
    /\ r.waiter => r.spawned

\* A step of a session that brings no process to life.
Keeps(r, n) ==
    /\ Sound(n)
    /\ Alive(n) => Alive(r) /\ n.epoch = r.epoch
    /\ r.spawned /\ r.os \in Forked => n.spawned /\ n.os \in Forked
    /\ r.pc \in Past => n.pc \in Past

SessionsOK == xs \in [ExecIds -> Session] /\ \A s \in ExecIds : Sound(xs[s])
PhasesOK ==
    /\ phase \in [ExecIds -> {"enter", "spawn", "kill"}]
    /\ \A s \in ExecIds : phase[s] = "kill" => xs[s].spawned /\ xs[s].os \in Forked
PolicyOK ==
    /\ policy \in [epoch : Nat, next : Nat, moving : BOOLEAN, wait : SUBSET ExecIds, bad : BOOLEAN]
    /\ policy.moving /\ ~policy.bad =>
         \A s \in ExecIds : Alive(xs[s]) /\ xs[s].epoch # policy.next => s \in policy.wait
    /\ PolicyConverged
QuitOK ==
    /\ quit \in [down : BOOLEAN, wait : SUBSET ExecIds, ok : SUBSET ExecIds, all : SUBSET ExecIds,
                 done : {"no", "complete", "incomplete"}]
    /\ quit.down => \A s \in ExecIds : Alive(xs[s]) => s \in quit.all
    /\ \A s \in quit.ok : ~Alive(xs[s]) /\ xs[s].pc \in Past
    /\ ~quit.down => quit.done = "no"
    /\ ShutdownClean
ExecInv == SessionsOK /\ PhasesOK /\ PolicyOK /\ QuitOK

\* The record of a session before start() and right after start() entered it in
\* the table: no process, whatever epoch the policy is in.
LEMMA FreshSound == ASSUME NEW e \in Nat
  PROVE /\ Sound(NoSession)
        /\ Sound([NoSession EXCEPT !.tab = TRUE, !.epoch = e, !.pc = "resolve"])
        /\ ~Alive([NoSession EXCEPT !.tab = TRUE, !.epoch = e, !.pc = "resolve"])
  BY Zenon DEF Sound, NoSession, Session, ExecPcs, Ended, Alive, Clean, Forked

\* Steps that bring no process to life compose.
LEMMA KeepsTwice == ASSUME NEW a, NEW b, NEW c, Keeps(a, b), Keeps(b, c) PROVE Keeps(a, c)
  BY Zenon DEF Keeps

\* A session that does not move brings no process to life.
LEMMA KeepsSelf == ASSUME NEW r, Sound(r) PROVE Keeps(r, r)
  BY Zenon DEF Keeps

\* Forgetting a session that has ended, left the table and has no process
\* (Tidy, the record the model gives up) changes nothing the invariant speaks of.
LEMMA TidyKeeps == ASSUME NEW r, NEW n, Keeps(r, n) PROVE Keeps(r, Tidy(n))
<1>1. CASE ~n.tab /\ n.pc = "done" /\ ~Alive(n)
  <2> DEFINE f == [tab |-> FALSE, st |-> "terminated", claimed |-> FALSE, spawned |-> n.spawned,
                   handle |-> FALSE, dirty |-> FALSE, flag |-> FALSE, epoch |-> 0, os |-> "dead",
                   pc |-> "done", cancelled |-> FALSE, waiter |-> FALSE, reply |-> "none"]
  <2>1. Tidy(n) = f
    BY <1>1, Zenon DEF Tidy, Finished, NoSession
  <2>2. n.spawned \in BOOLEAN
    BY Zenon DEF Keeps, Sound, Session
  <2>3. Sound(f) /\ ~Alive(f)
    BY <2>2, Zenon DEF Sound, Session, ExecPcs, Ended, Alive, Clean, Forked
  <2>4. f.spawned = n.spawned /\ f.os \in Forked /\ f.pc \in Past
    BY Zenon DEF Forked, Past
  <2> HIDE DEF f
  <2> QED BY <2>1, <2>3, <2>4, Zenon DEF Keeps
<1>2. CASE ~(~n.tab /\ n.pc = "done" /\ ~Alive(n))
  BY <1>2, Zenon DEF Tidy
<1> QED BY <1>1, <1>2, Zenon

\* A step of one session that brings no process to life, by the code that
\* neither takes nor returns a lock.
LEMMA SessionMoves ==
  ASSUME ExecInv, NEW s \in ExecIds, NEW n, Keeps(xs[s], n), Set(s, n)
  PROVE  /\ SessionsOK'
         /\ \A t \in ExecIds : Keeps(xs[t], xs'[t])
<1>1. Keeps(xs[s], Tidy(n)) /\ Tidy(n) \in Session /\ xs \in [ExecIds -> Session]
  BY TidyKeeps DEF Keeps, Sound, ExecInv, SessionsOK
<1>2. xs' = [xs EXCEPT ![s] = Tidy(n)]
  BY Zenon DEF Set
<1> DEFINE m == Tidy(n)
<1> HIDE DEF m
<1>3. xs' \in [ExecIds -> Session] /\ xs'[s] = m /\ \A t \in ExecIds : t # s => xs'[t] = xs[t]
  BY <1>1, <1>2, Zenon DEF m
<1>4. \A t \in ExecIds : Keeps(xs[t], xs[t])
  BY KeepsSelf, Zenon DEF ExecInv, SessionsOK
<1>5. \A t \in ExecIds : Keeps(xs[t], xs'[t])
  BY <1>1, <1>3, <1>4, Zenon DEF m
<1> QED BY <1>3, <1>5, Zenon DEF SessionsOK, Keeps

\* The policy and the shutdown keep what they know of sessions that only die.
LEMMA RestKeeps ==
  ASSUME ExecInv, SessionsOK', \A t \in ExecIds : Keeps(xs[t], xs'[t])
  PROVE  /\ phase' = phase => PhasesOK'
         /\ policy' = policy => PolicyOK'
         /\ quit' = quit => QuitOK'
<1>1. \A t \in ExecIds : /\ Alive(xs'[t]) => Alive(xs[t]) /\ xs'[t].epoch = xs[t].epoch
                         /\ xs[t].spawned /\ xs[t].os \in Forked => xs'[t].spawned /\ xs'[t].os \in Forked
                         /\ xs[t].pc \in Past => xs'[t].pc \in Past
  BY Zenon DEF Keeps
<1>2. ASSUME phase' = phase PROVE PhasesOK'
  BY <1>1, <1>2, Zenon DEF ExecInv, PhasesOK
<1>3. ASSUME policy' = policy PROVE PolicyOK'
  BY <1>1, <1>3, Zenon DEF ExecInv, PolicyOK, PolicyConverged
<1>4. ASSUME quit' = quit PROVE QuitOK'
  BY <1>1, <1>4, Zenon DEF ExecInv, QuitOK, ShutdownClean
<1> QED BY <1>2, <1>3, <1>4, Zenon

\* One session moves without bringing a process to life, the manager's own state
\* stays: the invariant is kept.
LEMMA SessionStep ==
  ASSUME ExecInv, NEW s \in ExecIds, NEW n, Keeps(xs[s], n), Set(s, n), UNCHANGED <<phase, policy, quit>>
  PROVE  ExecInv'
  BY SessionMoves, RestKeeps, Zenon DEF ExecInv

\* A start() that ends through _remove_unstarted with nothing alive, or that
\* leaves the session where the sweep finds it.
LEMMA StartEnds ==
  ASSUME NEW r \in Session, NEW a \in {"refused", "unsure"},
         Alive(r) => r.tab /\ a # "refused",
         Clean(r) => ~Alive(r),
         r.os # "forking",
         r.spawned /\ ~r.handle => ~Alive(r),
         r.handle => r.spawned /\ r.os \in Forked,
         r.waiter => r.spawned
  PROVE  /\ Keeps(r, [r EXCEPT !.pc = "done", !.reply = a])
         /\ (Alive(r) => r.handle /\ (r.dirty \/ r.st = "terminating"))
            => Keeps(r, [RemoveUnstarted(r) EXCEPT !.pc = "done", !.reply = a])
<1>1. ASSUME NEW u \in Session, u.os = r.os, u.st = r.st, u.dirty = r.dirty, u.handle = r.handle,
             u.epoch = r.epoch, u.waiter = r.waiter, r.spawned => u.spawned,
             Alive(r) => u.tab, ~r.spawned /\ u.spawned => ~Alive(r)
      PROVE  Keeps(r, [u EXCEPT !.pc = "done", !.reply = a])
  <2> DEFINE n == [u EXCEPT !.pc = "done", !.reply = a]
  <2>1. n \in Session /\ n.pc = "done" /\ n.reply = a
    BY <1>1, ZenonT(60) DEF Session, ExecPcs
  <2>2. /\ n.os = r.os /\ n.st = r.st /\ n.dirty = r.dirty /\ n.handle = r.handle
        /\ n.epoch = r.epoch /\ n.waiter = r.waiter /\ n.tab = u.tab /\ n.spawned = u.spawned
    BY <1>1, Zenon DEF Session
  <2> HIDE DEF n
  <2>3. Sound(n)
    BY <1>1, <2>1, <2>2, Zenon DEF Sound, Alive, Clean, Forked
  <2>4. Keeps(r, n)
    BY <1>1, <2>1, <2>2, <2>3, Zenon DEF Keeps, Alive, Past
  <2> QED BY <2>4, Zenon DEF n
<1>2. Keeps(r, [r EXCEPT !.pc = "done", !.reply = a])
  BY <1>1, Zenon
<1>3. ASSUME Alive(r) => r.handle /\ (r.dirty \/ r.st = "terminating")
      PROVE  Keeps(r, [RemoveUnstarted(r) EXCEPT !.pc = "done", !.reply = a])
  <2>1. CASE ~r.tab \/ (r.handle /\ (r.dirty \/ r.st = "terminating"))
    BY <1>2, <2>1, Zenon DEF RemoveUnstarted
  <2>2. CASE ~(~r.tab \/ (r.handle /\ (r.dirty \/ r.st = "terminating")))
    <3> DEFINE u == [r EXCEPT !.tab = FALSE, !.spawned = TRUE]
    <3>1. RemoveUnstarted(r) = u /\ ~Alive(r)
      BY <1>3, <2>2, Zenon DEF RemoveUnstarted
    <3>2. /\ u \in Session /\ u.os = r.os /\ u.st = r.st /\ u.dirty = r.dirty /\ u.handle = r.handle
          /\ u.epoch = r.epoch /\ u.waiter = r.waiter /\ u.spawned
      BY Zenon DEF Session
    <3> HIDE DEF u
    <3> QED BY <1>1, <3>1, <3>2, Zenon
  <2> QED BY <2>1, <2>2, Zenon
<1> QED BY <1>2, <1>3, Zenon

\* The answer of _terminate: what its caller makes of the session.
LEMMA AnsweredKeeps ==
  ASSUME NEW k, NEW r, Sound(r), NEW ok \in BOOLEAN,
         r.pc \in Past,
         ok => ~Alive(r),
         ~ok => r.spawned /\ r.dirty /\ r.st = "terminating"
  PROVE  Keeps(r, Answered(k, r, ok))
<1>1. CASE k = "user"
  BY <1>1, KeepsSelf, ZenonT(60)
     DEF Answered, FinalReport, RemoveSession, Keeps, Sound, Session, Alive, Clean, ExecPcs, Ended,
     Forked, Past
<1>2. CASE k = "settle"
  <2> DEFINE a == IF ok /\ ~r.dirty THEN "refused" ELSE "unsure"
  <2>1. a \in {"refused", "unsure"} /\ (a = "refused" => ~Alive(r))
    BY Zenon
  <2>2. \/ Answered(k, r, ok) = [r EXCEPT !.pc = "done", !.reply = a]
        \/ Answered(k, r, ok) = [RemoveUnstarted(r) EXCEPT !.pc = "done", !.reply = a]
    BY <1>2, Zenon DEF Answered
  <2> HIDE DEF a
  <2>3. Alive(r) => r.handle /\ (r.dirty \/ r.st = "terminating")
    BY Zenon DEF Sound
  <2>4. r.os # "forking"
    BY Zenon DEF Sound, Past
  <2>5. /\ r \in Session /\ (Alive(r) => r.tab) /\ (Clean(r) => ~Alive(r))
        /\ (r.spawned /\ ~r.handle => ~Alive(r)) /\ (r.handle => r.spawned /\ r.os \in Forked)
        /\ (r.waiter => r.spawned)
    BY Zenon DEF Sound
  <2>6. /\ Keeps(r, [r EXCEPT !.pc = "done", !.reply = a])
        /\ Keeps(r, [RemoveUnstarted(r) EXCEPT !.pc = "done", !.reply = a])
    BY <2>1, <2>3, <2>4, <2>5, StartEnds, Zenon
  <2> QED BY <2>2, <2>6, Zenon
<1>3. CASE k \notin {"user", "settle"}
  BY <1>3, KeepsSelf, Zenon DEF Answered
<1> QED BY <1>1, <1>2, <1>3, Zenon

\* The holder of a session's lock returns: a confirmed end has no process left.
LEMMA ReturnsKeep ==
  ASSUME ExecInv, NEW s \in ExecIds, NEW r, Keeps(xs[s], r), NEW ok \in BOOLEAN,
         r.pc \in Past,
         ok => ~Alive(r),
         ~ok => r.spawned /\ r.dirty /\ r.st = "terminating",
         Returns(s, r, ok)
  PROVE  ExecInv'
<1> DEFINE k == Head(lk[s])
           n == Answered(k, r, ok)
<1>1. Keeps(r, n)
  BY AnsweredKeeps DEF Keeps
<1>2. Set(s, n) /\ phase' = [phase EXCEPT ![s] = "enter"]
  BY Zenon DEF Returns
<1>3. /\ policy' = IF k = "policy" THEN [policy EXCEPT !.wait = @ \ {s}, !.bad = @ \/ ~ok] ELSE policy
      /\ quit' = IF k = "shutdown"
                 THEN [quit EXCEPT !.wait = @ \ {s}, !.ok = IF ok THEN @ \union {s} ELSE @] ELSE quit
  BY Zenon DEF Returns
<1> HIDE DEF k, n
<1>4. Keeps(xs[s], n)
  BY <1>1, KeepsTwice, Zenon
<1>5. SessionsOK' /\ \A t \in ExecIds : Keeps(xs[t], xs'[t])
  BY <1>2, <1>4, SessionMoves, Zenon
<1>6. \A t \in ExecIds : /\ Alive(xs'[t]) => Alive(xs[t]) /\ xs'[t].epoch = xs[t].epoch
                         /\ xs[t].spawned /\ xs[t].os \in Forked => xs'[t].spawned /\ xs'[t].os \in Forked
                         /\ xs[t].pc \in Past => xs'[t].pc \in Past
  BY <1>5, Zenon DEF Keeps
<1>7. (ok => ~Alive(xs'[s])) /\ xs'[s].pc \in Past
  <2>1. Keeps(r, Tidy(n)) /\ xs'[s] = Tidy(n)
    BY <1>1, <1>2, TidyKeeps, Zenon DEF Set, ExecInv, SessionsOK
  <2> QED BY <2>1, Zenon DEF Keeps
<1>8. PhasesOK'
  BY <1>2, <1>6, Zenon DEF ExecInv, PhasesOK
<1>9. PolicyOK'
  <2>1. CASE k = "policy"
    <3>1. policy' = [policy EXCEPT !.wait = @ \ {s}, !.bad = @ \/ ~ok] /\ PolicyOK
      BY <1>3, <2>1, Zenon DEF ExecInv
    <3>2. /\ policy' \in [epoch : Nat, next : Nat, moving : BOOLEAN, wait : SUBSET ExecIds, bad : BOOLEAN]
          /\ policy'.epoch = policy.epoch /\ policy'.next = policy.next /\ policy'.moving = policy.moving
          /\ policy'.wait = policy.wait \ {s} /\ (policy'.bad <=> policy.bad \/ ~ok)
      BY <3>1, Zenon DEF PolicyOK
    <3>3. policy'.moving /\ ~policy'.bad =>
            \A t \in ExecIds : Alive(xs'[t]) /\ xs'[t].epoch # policy'.next => t \in policy'.wait
      BY <1>6, <1>7, <3>1, <3>2, Zenon DEF PolicyOK
    <3>4. PolicyConverged'
      BY <1>6, <3>1, <3>2, Zenon DEF PolicyOK, PolicyConverged
    <3> QED BY <3>2, <3>3, <3>4, Zenon DEF PolicyOK
  <2>2. CASE k # "policy"
    BY <1>3, <1>5, <2>2, RestKeeps, Zenon
  <2> QED BY <2>1, <2>2, Zenon
<1>10. QuitOK'
  <2>1. CASE k = "shutdown"
    <3>1. quit' = [quit EXCEPT !.wait = @ \ {s}, !.ok = IF ok THEN @ \union {s} ELSE @] /\ QuitOK
      BY <1>3, <2>1, Zenon DEF ExecInv
    <3>2. /\ quit' \in [down : BOOLEAN, wait : SUBSET ExecIds, ok : SUBSET ExecIds, all : SUBSET ExecIds,
                        done : {"no", "complete", "incomplete"}]
          /\ quit'.down = quit.down /\ quit'.all = quit.all /\ quit'.done = quit.done
          /\ quit'.ok = IF ok THEN quit.ok \union {s} ELSE quit.ok
      BY <3>1, Zenon DEF QuitOK
    <3> QED BY <1>6, <1>7, <3>1, <3>2, Zenon DEF QuitOK, ShutdownClean
  <2>2. CASE k # "shutdown"
    BY <1>3, <1>5, <2>2, RestKeeps, Zenon
  <2> QED BY <2>1, <2>2, Zenon
<1> QED BY <1>5, <1>8, <1>9, <1>10, Zenon DEF ExecInv

\* start() up to its report, and the process it starts, by what they make of
\* the session's record.
LEMMA StartKeeps ==
  ASSUME NEW r, Sound(r)
  PROVE  /\ r.pc = "resolve" =>
              Keeps(r, [RemoveUnstarted(r) EXCEPT !.pc = "done", !.reply = "refused"])
         /\ r.pc = "launch" => Keeps(r, [r EXCEPT !.cancelled = TRUE])
         /\ r.pc = "launch" => Keeps(r, [[r EXCEPT !.os = "up"] EXCEPT !.pc = "activate"])
         /\ r.pc = "launch" => Keeps(r, [RemoveUnstarted([r EXCEPT !.os = "dead"])
                                         EXCEPT !.pc = "done", !.reply = "refused"])
         /\ r.pc = "activate" =>
              Keeps(r, [r EXCEPT !.handle = TRUE, !.st = "running", !.spawned = TRUE,
                                 !.waiter = TRUE, !.pc = "wait"])
         /\ r.pc = "wait" => Keeps(r, [FinalReport(r) EXCEPT !.pc = "done", !.reply = "started"])
<1> USE DEF Session, ExecPcs, Ended, Alive, Clean, Forked, Past
<1>1. ASSUME r.pc = "resolve"
      PROVE  Keeps(r, [RemoveUnstarted(r) EXCEPT !.pc = "done", !.reply = "refused"])
  BY <1>1, StartEnds, Zenon DEF Sound
<1>2. ASSUME r.pc = "launch" PROVE Keeps(r, [r EXCEPT !.cancelled = TRUE])
  BY <1>2, Zenon DEF Keeps, Sound
<1>3. ASSUME r.pc = "launch" PROVE Keeps(r, [[r EXCEPT !.os = "up"] EXCEPT !.pc = "activate"])
  BY <1>3, Zenon DEF Keeps, Sound
<1>4. ASSUME r.pc = "launch"
      PROVE  Keeps(r, [RemoveUnstarted([r EXCEPT !.os = "dead"]) EXCEPT !.pc = "done", !.reply = "refused"])
  <2> DEFINE d == [r EXCEPT !.os = "dead"]
  <2>1. /\ d \in Session /\ ~Alive(d) /\ d.os = "dead" /\ d.spawned = r.spawned /\ d.handle = r.handle
        /\ d.waiter = r.waiter /\ ~d.spawned /\ ~d.handle /\ ~d.waiter
    BY <1>4, Zenon DEF Sound
  <2> HIDE DEF d
  <2>2. Keeps(d, [RemoveUnstarted(d) EXCEPT !.pc = "done", !.reply = "refused"])
    BY <2>1, StartEnds, Zenon
  <2>3. Sound([RemoveUnstarted(d) EXCEPT !.pc = "done", !.reply = "refused"]) /\ 
        ~Alive([RemoveUnstarted(d) EXCEPT !.pc = "done", !.reply = "refused"])
    BY <2>1, <2>2, Zenon DEF Keeps
  <2>4. ~r.spawned /\ r.pc \notin Past
    BY <1>4, Zenon DEF Sound
  <2>5. Keeps(r, [RemoveUnstarted(d) EXCEPT !.pc = "done", !.reply = "refused"])
    BY <2>3, <2>4, Zenon DEF Keeps
  <2> QED BY <2>5, Zenon DEF d
<1>5. ASSUME r.pc = "activate"
      PROVE  Keeps(r, [r EXCEPT !.handle = TRUE, !.st = "running", !.spawned = TRUE,
                                !.waiter = TRUE, !.pc = "wait"])
  BY <1>5, Zenon DEF Keeps, Sound
<1>6. ASSUME r.pc = "wait"
      PROVE  Keeps(r, [FinalReport(r) EXCEPT !.pc = "done", !.reply = "started"])
  BY <1>6, ZenonT(60) DEF Keeps, Sound, FinalReport, RemoveSession
<1> QED BY <1>1, <1>2, <1>3, <1>4, <1>5, <1>6, Zenon

\* The handle of a started process, bound to its session for the termination.
LEMMA SettleKeeps ==
  ASSUME NEW r, Sound(r)
  PROVE  /\ r.pc = "launch" =>
              LET u == [r EXCEPT !.os = "up"]
              IN  Keeps(r, [u EXCEPT !.handle = u.tab, !.spawned = u.spawned \/ u.tab, !.pc = "settle"])
         /\ r.pc = "activate" =>
              Keeps(r, [r EXCEPT !.handle = r.tab, !.spawned = r.spawned \/ r.tab, !.pc = "settle"])
<1> USE DEF Session, ExecPcs, Ended, Alive, Clean, Forked, Past
<1>1. ASSUME r.pc = "launch"
      PROVE  LET u == [r EXCEPT !.os = "up"]
             IN  Keeps(r, [u EXCEPT !.handle = u.tab, !.spawned = u.spawned \/ u.tab, !.pc = "settle"])
  <2> DEFINE u == [r EXCEPT !.os = "up"]
             n == [u EXCEPT !.handle = TRUE, !.spawned = TRUE, !.pc = "settle"]
  <2>1. u.tab = TRUE /\ (u.spawned \/ u.tab) = TRUE
    BY <1>1, Zenon DEF Sound
  <2>2. Keeps(r, n)
    BY <1>1, Zenon DEF Keeps, Sound
  <2>3. n = [u EXCEPT !.handle = u.tab, !.spawned = u.spawned \/ u.tab, !.pc = "settle"]
    BY <2>1, Zenon
  <2> QED BY <2>2, <2>3, Zenon
<1>2. ASSUME r.pc = "activate"
      PROVE  Keeps(r, [r EXCEPT !.handle = r.tab, !.spawned = r.spawned \/ r.tab, !.pc = "settle"])
  <2> DEFINE n == [r EXCEPT !.handle = TRUE, !.spawned = TRUE, !.pc = "settle"]
  <2>1. r.tab = TRUE /\ (r.spawned \/ r.tab) = TRUE
    BY <1>2, Zenon DEF Sound
  <2>2. Keeps(r, n)
    BY <1>2, Zenon DEF Keeps, Sound
  <2>3. n = [r EXCEPT !.handle = r.tab, !.spawned = r.spawned \/ r.tab, !.pc = "settle"]
    BY <2>1, Zenon
  <2> QED BY <2>2, <2>3, Zenon
<1> QED BY <1>1, <1>2, Zenon

\* The process ends or its watcher reports, and a termination begins.
LEMMA WatchKeeps ==
  ASSUME NEW r, Sound(r)
  PROVE  /\ r.os = "up" => \A o \in {"left", "dead"} : Keeps(r, [r EXCEPT !.os = o])
         /\ r.os = "left" => Keeps(r, [r EXCEPT !.os = "dead"])
         /\ r.waiter => Keeps(r, [r EXCEPT !.waiter = FALSE, !.st = "terminating", !.dirty = TRUE])
         /\ Clean(r) => Keeps(r, RemoveSession(r)) /\ Keeps(r, FinalReport(r))
         /\ \A st \in {r.st, "terminating"} :
              (r.pc \in {"launch", "activate"} => st = r.st) => Keeps(r, [r EXCEPT !.dirty = TRUE, !.st = st])
         /\ \A f \in BOOLEAN :
              LET flag == r.flag \/ f
              IN  r.waiter /\ r.os \in {"left", "dead"} =>
                    Keeps(r, [r EXCEPT !.waiter = FALSE, !.flag = flag, !.dirty = r.dirty \/ flag,
                                       !.os = IF f THEN r.os ELSE "dead",
                                       !.st = IF r.st = "running" THEN "exited" ELSE r.st])
<1> USE DEF Session, ExecPcs, Ended, Alive, Clean, Forked, Past
<1>1. ASSUME r.os = "up", NEW o \in {"left", "dead"} PROVE Keeps(r, [r EXCEPT !.os = o])
  BY <1>1 DEF Keeps, Sound
<1>2. ASSUME r.os = "left" PROVE Keeps(r, [r EXCEPT !.os = "dead"])
  BY <1>2, Zenon DEF Keeps, Sound
<1>3. ASSUME r.waiter PROVE Keeps(r, [r EXCEPT !.waiter = FALSE, !.st = "terminating", !.dirty = TRUE])
  <2> DEFINE n == [r EXCEPT !.waiter = FALSE, !.st = "terminating", !.dirty = TRUE]
  <2>1. /\ n \in Session /\ n.dirty = TRUE /\ n.os = r.os /\ n.st = "terminating" /\ n.tab = r.tab
        /\ n.spawned = r.spawned /\ n.handle = r.handle /\ n.waiter = FALSE /\ n.pc = r.pc
        /\ n.reply = r.reply /\ n.epoch = r.epoch /\ n.claimed = r.claimed
    BY <1>3, Zenon DEF Sound
  <2> HIDE DEF n
  <2>2. Sound(n)
    BY <1>3, <2>1, Zenon DEF Sound
  <2>3. Keeps(r, n)
    BY <2>1, <2>2, Zenon DEF Keeps
  <2> QED BY <2>3, Zenon DEF n
<1>4. ASSUME Clean(r) PROVE Keeps(r, RemoveSession(r)) /\ Keeps(r, FinalReport(r))
  BY <1>4, ZenonT(60) DEF Keeps, Sound, RemoveSession, FinalReport
<1>5. ASSUME NEW st \in {r.st, "terminating"}, r.pc \in {"launch", "activate"} => st = r.st
      PROVE  Keeps(r, [r EXCEPT !.dirty = TRUE, !.st = st])
  <2> DEFINE n == [r EXCEPT !.dirty = TRUE, !.st = st]
  <2>1. /\ n \in Session /\ n.dirty = TRUE /\ n.os = r.os /\ n.st = st /\ n.tab = r.tab
        /\ n.spawned = r.spawned /\ n.handle = r.handle /\ n.waiter = r.waiter /\ n.pc = r.pc
        /\ n.reply = r.reply /\ n.epoch = r.epoch /\ n.claimed = r.claimed
    BY <1>5, Zenon DEF Sound
  <2> HIDE DEF n
  <2>2. Sound(n)
    BY <1>5, <2>1 DEF Sound
  <2>3. Keeps(r, n)
    BY <2>1, <2>2, Zenon DEF Keeps
  <2> QED BY <2>3, Zenon DEF n
<1>6. ASSUME NEW f \in BOOLEAN, r.waiter, r.os \in {"left", "dead"}
      PROVE  LET flag == r.flag \/ f
             IN  Keeps(r, [r EXCEPT !.waiter = FALSE, !.flag = flag, !.dirty = r.dirty \/ flag,
                                    !.os = IF f THEN r.os ELSE "dead",
                                    !.st = IF r.st = "running" THEN "exited" ELSE r.st])
  <2> DEFINE flag == r.flag \/ f
             dirt == r.dirty \/ flag
             os == IF f THEN r.os ELSE "dead"
             st == IF r.st = "running" THEN "exited" ELSE r.st
             n == [r EXCEPT !.waiter = FALSE, !.flag = flag, !.dirty = dirt, !.os = os, !.st = st]
  <2>1. flag \in BOOLEAN /\ dirt \in BOOLEAN /\ (~dirt => os = "dead") /\ os \in {"left", "dead"}
        /\ (os = "left" => r.os = "left")
    BY <1>6, Zenon
  <2>2. st \in {"starting", "terminating", "exited", "terminated"} /\ (r.st # "running" => st = r.st)
    BY Zenon DEF Sound
  <2> HIDE DEF flag, dirt, os, st
  <2>3. /\ n \in Session /\ n.dirty = dirt /\ n.os = os /\ n.st = st /\ n.tab = r.tab /\ n.spawned = r.spawned
        /\ n.handle = r.handle /\ n.waiter = FALSE /\ n.pc = r.pc /\ n.reply = r.reply /\ n.epoch = r.epoch
        /\ n.claimed = r.claimed
    BY <2>1, <2>2, ZenonT(60) DEF Sound
  <2> HIDE DEF n
  <2>4. r.spawned /\ r.pc \in Past
    BY <1>6, Zenon DEF Sound
  <2>5. Sound(n)
    BY <1>6, <2>1, <2>2, <2>3, <2>4, Zenon DEF Sound
  <2>6. Keeps(r, n)
    BY <1>6, <2>1, <2>3, <2>4, <2>5, Zenon DEF Keeps
  <2> QED BY <2>6, Zenon DEF n, flag, dirt, os, st
<1> QED BY <1>1, <1>2, <1>3, <1>4, <1>5, <1>6, Zenon

\* The end of _terminate_locked: only a session without a process is terminated.
LEMMA ConcludesKeep ==
  ASSUME ExecInv, NEW s \in ExecIds, NEW r, Keeps(xs[s], r), NEW ok \in BOOLEAN,
         r.spawned, ok => ~Alive(r), Concludes(s, r, ok)
  PROVE  ExecInv'
<1> USE DEF Session, ExecPcs, Ended, Alive, Clean, Forked, Past
<1> DEFINE st == IF ok THEN "terminated" ELSE "terminating"
           n == [r EXCEPT !.st = st, !.dirty = ~ok]
<1>1. Returns(s, n, ok)
  BY Zenon DEF Concludes
<1>2. r.pc \in Past
  BY Zenon DEF Keeps, Sound
<1>3. st \in {"terminated", "terminating"} /\ (~ok => st = "terminating") /\ (~ok) \in BOOLEAN
  BY Zenon
<1> HIDE DEF st
<1>4. /\ n \in Session /\ (n.dirty <=> ~ok) /\ n.os = r.os /\ n.st = st /\ n.tab = r.tab
      /\ n.spawned = r.spawned /\ n.handle = r.handle /\ n.waiter = r.waiter /\ n.pc = r.pc
      /\ n.reply = r.reply /\ n.epoch = r.epoch /\ n.claimed = r.claimed
  BY <1>3, Zenon DEF Keeps, Sound
<1> HIDE DEF n
<1>5. Sound(n)
  BY <1>2, <1>3, <1>4, Zenon DEF Sound, Keeps
<1>6. Keeps(r, n)
  BY <1>4, <1>5, Zenon DEF Keeps
<1>7. Keeps(xs[s], n)
  BY <1>6, KeepsTwice, Zenon
<1>8. n.pc \in Past /\ (ok => ~Alive(n)) /\ (~ok => n.spawned /\ n.dirty /\ n.st = "terminating")
  BY <1>2, <1>3, <1>4, Zenon
<1> QED BY <1>1, <1>7, <1>8, ReturnsKeep, Zenon

\* terminate() past the wait for the spawn: it marks the session terminating
\* and goes on to the kill, or finds no handle and returns.
LEMMA PastSpawnKeeps ==
  ASSUME ExecInv, NEW s \in ExecIds, NEW r, Keeps(xs[s], r), r.spawned, PastSpawn(s, r)
  PROVE  ExecInv'
<1>1. CASE r.handle
  <2> DEFINE n == [r EXCEPT !.st = "terminating"]
  <2>1. Set(s, n) /\ phase' = [phase EXCEPT ![s] = "kill"] /\ UNCHANGED <<policy, quit>>
    BY <1>1, Zenon DEF PastSpawn
  <2>2. Keeps(r, n) /\ n.spawned /\ n.os \in Forked
    BY <1>1 DEF Keeps, Sound, Session, ExecPcs, Ended, Alive, Clean, Forked, Past
  <2> HIDE DEF n
  <2>3. Keeps(xs[s], n)
    BY <2>2, KeepsTwice, Zenon
  <2>4. SessionsOK' /\ \A t \in ExecIds : Keeps(xs[t], xs'[t])
    BY <2>1, <2>3, SessionMoves, Zenon
  <2>5. xs'[s].spawned /\ xs'[s].os \in Forked
    <3>1. Keeps(n, Tidy(n)) /\ xs'[s] = Tidy(n)
      BY <2>1, <2>2, TidyKeeps, KeepsSelf, Zenon DEF Set, ExecInv, SessionsOK, Keeps
    <3> QED BY <2>2, <3>1, Zenon DEF Keeps
  <2>6. PhasesOK'
    BY <2>1, <2>4, <2>5, Zenon DEF ExecInv, PhasesOK, Keeps
  <2> QED BY <2>1, <2>4, <2>6, RestKeeps, Zenon DEF ExecInv
<1>2. CASE ~r.handle
  <2>1. Concludes(s, r, TRUE) /\ ~Alive(r)
    BY <1>2, Zenon DEF PastSpawn, Keeps, Sound
  <2> QED BY <2>1, ConcludesKeep, Zenon
<1> QED BY <1>1, <1>2, Zenon

\* _terminate_locked, from its entry to its answer.
LEMMA TerminateStep ==
  ASSUME ExecInv, NEW s \in ExecIds,
         TerminateEnter(s) \/ TerminateSpawned(s) \/ Kills(s) \/ KillUnconfirmed(s) \/ KillTimesOut(s)
  PROVE  ExecInv'
<1>0. Sound(xs[s]) /\ Keeps(xs[s], xs[s])
  BY KeepsSelf, Zenon DEF ExecInv, SessionsOK
<1>1. CASE TerminateEnter(s)
  <2> DEFINE st == IF xs[s].claimed /\ ~xs[s].spawned THEN xs[s].st ELSE "terminating"
             r == [xs[s] EXCEPT !.dirty = TRUE, !.st = st]
  <2>1. \/ Clean(xs[s]) /\ Returns(s, xs[s], TRUE)
        \/ r.spawned /\ PastSpawn(s, r)
        \/ Set(s, r) /\ phase' = [phase EXCEPT ![s] = "spawn"] /\ UNCHANGED <<lk, policy, quit>>
    BY <1>1, Zenon DEF TerminateEnter
  <2>2. Keeps(xs[s], r)
    <3>1. st \in {xs[s].st, "terminating"} /\ (xs[s].pc \in {"launch", "activate"} => st = xs[s].st)
      BY <1>0, Zenon DEF Sound
    <3> HIDE DEF st
    <3> QED BY <1>0, <3>1, WatchKeeps, Zenon
  <2> HIDE DEF r
  <2>3. CASE Clean(xs[s]) /\ Returns(s, xs[s], TRUE)
    <3>1. xs[s].pc \in Past /\ ~Alive(xs[s])
      BY <1>0, <2>3, Zenon DEF Sound, Session, ExecPcs, Past, Clean, Ended
    <3> QED BY <1>0, <2>3, <3>1, ReturnsKeep, Zenon
  <2>4. CASE r.spawned /\ PastSpawn(s, r)
    BY <2>2, <2>4, PastSpawnKeeps, Zenon
  <2>5. CASE Set(s, r) /\ phase' = [phase EXCEPT ![s] = "spawn"] /\ UNCHANGED <<lk, policy, quit>>
    <3>1. SessionsOK' /\ \A t \in ExecIds : Keeps(xs[t], xs'[t])
      BY <2>2, <2>5, SessionMoves, Zenon
    <3>2. PhasesOK'
      BY <2>5, <3>1, Zenon DEF ExecInv, PhasesOK, Keeps
    <3> QED BY <2>5, <3>1, <3>2, RestKeeps, Zenon DEF ExecInv
  <2> QED BY <2>1, <2>3, <2>4, <2>5, Zenon
<1>2. CASE TerminateSpawned(s)
  BY <1>0, <1>2, PastSpawnKeeps, Zenon DEF TerminateSpawned
<1>3. ASSUME phase[s] = "kill" PROVE xs[s].spawned /\ xs[s].os \in Forked
  BY <1>3, Zenon DEF ExecInv, PhasesOK
<1>4. CASE Kills(s)
  <2> DEFINE r == [xs[s] EXCEPT !.os = "dead"]
             ok == ~xs[s].flag
  <2>1. Concludes(s, r, ok)
    BY <1>4, Zenon DEF Kills
  <2>2. Keeps(xs[s], r) /\ r.spawned /\ ~Alive(r) /\ ok \in BOOLEAN
    BY <1>0, <1>3, <1>4, Zenon
       DEF Kills, Keeps, Sound, Session, ExecPcs, Ended, Alive, Clean, Forked, Past
  <2> HIDE DEF r, ok
  <2> QED BY <2>1, <2>2, ConcludesKeep, Zenon
<1>5. CASE KillUnconfirmed(s)
  <2>1. PICK o \in {"left", "dead"} :
          Concludes(s, [xs[s] EXCEPT !.flag = TRUE, !.os = IF @ = "dead" THEN @ ELSE o], FALSE)
    BY <1>5, Zenon DEF KillUnconfirmed
  <2> DEFINE p == IF xs[s].os = "dead" THEN xs[s].os ELSE o
             r == [xs[s] EXCEPT !.flag = TRUE, !.os = p]
  <2>2. Concludes(s, r, FALSE)
    BY <2>1, Zenon
  <2>3. p \in {"left", "dead"} /\ (p = "left" => xs[s].os # "dead")
    BY Zenon
  <2> HIDE DEF p
  <2>4. Keeps(xs[s], r) /\ r.spawned
    BY <1>0, <1>3, <1>5, <2>3, ZenonT(60)
       DEF KillUnconfirmed, Keeps, Sound, Session, ExecPcs, Ended, Alive, Clean, Forked, Past
  <2> HIDE DEF r
  <2> QED BY <2>2, <2>4, ConcludesKeep, Zenon
<1>6. CASE KillTimesOut(s)
  BY <1>0, <1>3, <1>6, ConcludesKeep, Zenon DEF KillTimesOut
<1> QED BY <1>1, <1>2, <1>4, <1>5, <1>6, Zenon

\* _claim_spawn: a process is born only under the current policy and before
\* the shutdown.
LEMMA ClaimStep ==
  ASSUME ExecInv, NEW s \in ExecIds, ClaimSpawn(s)
  PROVE  ExecInv'
<1>0. Sound(xs[s]) /\ xs[s].pc = "resolve" /\ UNCHANGED <<phase, policy, quit>>
  BY Zenon DEF ExecInv, SessionsOK, ClaimSpawn
<1>1. CASE MayClaim(s)
  <2> DEFINE n == [xs[s] EXCEPT !.claimed = TRUE, !.os = "forking", !.pc = "launch"]
  <2>1. Set(s, n)
    BY <1>1, Zenon DEF ClaimSpawn
  <2>2. Sound(n) /\ n.epoch = xs[s].epoch /\ n.pc = "launch"
    BY <1>0, <1>1, Zenon DEF MayClaim, Sound, Session, ExecPcs, Ended, Alive, Clean, Forked, Past
  <2> HIDE DEF n
  <2>3. xs' = [xs EXCEPT ![s] = n] /\ xs \in [ExecIds -> Session] /\ n \in Session
    BY <2>1, <2>2, Zenon DEF Set, Tidy, ExecInv, SessionsOK, Sound
  <2>4. xs' \in [ExecIds -> Session] /\ xs'[s] = n /\ \A t \in ExecIds : t # s => xs'[t] = xs[t]
    BY <2>3, Zenon
  <2>5. SessionsOK'
    BY <2>2, <2>4, Zenon DEF ExecInv, SessionsOK
  <2>6. ~xs[s].spawned /\ xs[s].pc \notin Past
    BY <1>0, Zenon DEF Sound, Past
  <2>7. PhasesOK'
    BY <1>0, <2>4, <2>6, Zenon DEF ExecInv, PhasesOK
  <2>8. PolicyOK'
    BY <1>0, <1>1, <2>2, <2>4, Zenon DEF ExecInv, PolicyOK, PolicyConverged, MayClaim
  <2>9. QuitOK'
    BY <1>0, <1>1, <2>4, <2>6, Zenon DEF ExecInv, QuitOK, ShutdownClean, MayClaim
  <2> QED BY <2>5, <2>7, <2>8, <2>9, Zenon DEF ExecInv
<1>2. CASE ~MayClaim(s)
  <2>1. Set(s, [RemoveUnstarted(xs[s]) EXCEPT !.pc = "done", !.reply = "refused"])
    BY <1>2, Zenon DEF ClaimSpawn
  <2>2. Keeps(xs[s], [RemoveUnstarted(xs[s]) EXCEPT !.pc = "done", !.reply = "refused"])
    BY <1>0, StartKeeps, Zenon
  <2> QED BY <1>0, <2>1, <2>2, SessionStep, Zenon
<1> QED BY <1>1, <1>2, Zenon

\* start() apart from its claim.
LEMMA StartStep ==
  ASSUME ExecInv, NEW s \in ExecIds,
         \/ \E e \in 1 .. policy.next : Start(s, e)
         \/ GiveUp(s) \/ CancelLaunch(s) \/ Launched(s) \/ LaunchFails(s)
         \/ ActivateSpawned(s) \/ StartReports(s)
  PROVE  ExecInv'
<1>0. Sound(xs[s])
  BY Zenon DEF ExecInv, SessionsOK
<1>1. CASE \E e \in 1 .. policy.next : Start(s, e)
  <2>1. PICK e \in 1 .. policy.next : Start(s, e)
    BY <1>1, Zenon
  <2>5. e \in Nat
    BY DEF ExecInv, PolicyOK
  <2> DEFINE n == [NoSession EXCEPT !.tab = TRUE, !.epoch = e, !.pc = "resolve"]
  <2>2. Sound(n) /\ ~Alive(n)
    BY <2>5, FreshSound, Zenon
  <2>3. Set(s, n) /\ UNCHANGED <<phase, policy, quit>> /\ xs[s].pc = "idle"
    BY <2>1, Zenon DEF Start
  <2> HIDE DEF n
  <2>4. Keeps(xs[s], n)
    BY <1>0, <2>2, <2>3, Zenon DEF Keeps, Sound, Past
  <2> QED BY <2>3, <2>4, SessionStep, Zenon
<1>2. CASE GiveUp(s)
  BY <1>0, <1>2, StartKeeps, SessionStep, Zenon DEF GiveUp
<1>3. CASE CancelLaunch(s)
  BY <1>0, <1>3, StartKeeps, SessionStep, Zenon DEF CancelLaunch
<1>4. CASE Launched(s)
  <2> DEFINE u == [xs[s] EXCEPT !.os = "up"]
  <2>1. /\ \/ Set(s, [u EXCEPT !.handle = u.tab, !.spawned = u.spawned \/ u.tab, !.pc = "settle"])
           \/ Set(s, [u EXCEPT !.pc = "activate"])
        /\ xs[s].pc = "launch" /\ UNCHANGED <<phase, policy, quit>>
    BY <1>4, Zenon DEF Launched, Settle
  <2>2. /\ Keeps(xs[s], [u EXCEPT !.handle = u.tab, !.spawned = u.spawned \/ u.tab, !.pc = "settle"])
        /\ Keeps(xs[s], [u EXCEPT !.pc = "activate"])
    BY <1>0, <2>1, StartKeeps, SettleKeeps, Zenon
  <2> HIDE DEF u
  <2> QED BY <2>1, <2>2, SessionStep, Zenon
<1>5. CASE LaunchFails(s)
  BY <1>0, <1>5, StartKeeps, SessionStep, Zenon DEF LaunchFails
<1>6. CASE ActivateSpawned(s)
  <2>1. /\ \/ Set(s, [xs[s] EXCEPT !.handle = TRUE, !.st = "running", !.spawned = TRUE,
                                   !.waiter = TRUE, !.pc = "wait"])
           \/ Set(s, [xs[s] EXCEPT !.handle = xs[s].tab, !.spawned = xs[s].spawned \/ xs[s].tab,
                                   !.pc = "settle"])
        /\ xs[s].pc = "activate" /\ UNCHANGED <<phase, policy, quit>>
    BY <1>6, Zenon DEF ActivateSpawned, Settle
  <2> QED BY <1>0, <2>1, StartKeeps, SettleKeeps, SessionStep, Zenon
<1>7. CASE StartReports(s)
  BY <1>0, <1>7, StartKeeps, SessionStep, Zenon DEF StartReports
<1> QED BY <1>1, <1>2, <1>3, <1>4, <1>5, <1>6, <1>7, Zenon

\* The process, the tasks that watch it, and those who ask for its end.
LEMMA WatchStep ==
  ASSUME ExecInv, NEW s \in ExecIds,
         \/ ProcessExits(s) \/ LeftoversDie(s) \/ WaitForExit(s) \/ WaitFails(s)
         \/ DeadlinePasses(s) \/ ReaderFails(s) \/ UserTerminates(s) \/ UserPolls(s) \/ Swept(s)
  PROVE  ExecInv'
<1>0. Sound(xs[s])
  BY Zenon DEF ExecInv, SessionsOK
<1>1. CASE ProcessExits(s)
  BY <1>0, <1>1, WatchKeeps, SessionStep, Zenon DEF ProcessExits
<1>2. CASE LeftoversDie(s)
  BY <1>0, <1>2, WatchKeeps, SessionStep, Zenon DEF LeftoversDie
<1>3. CASE WaitForExit(s)
  <2>1. PICK f \in BOOLEAN :
          LET flag == xs[s].flag \/ f
          IN  Set(s, [xs[s] EXCEPT !.waiter = FALSE, !.flag = flag, !.dirty = @ \/ flag,
                                   !.os = IF f THEN @ ELSE "dead",
                                   !.st = IF @ = "running" THEN "exited" ELSE @])
    BY <1>3, Zenon DEF WaitForExit
  <2> DEFINE flag == xs[s].flag \/ f
             n == [xs[s] EXCEPT !.waiter = FALSE, !.flag = flag, !.dirty = xs[s].dirty \/ flag,
                                !.os = IF f THEN xs[s].os ELSE "dead",
                                !.st = IF xs[s].st = "running" THEN "exited" ELSE xs[s].st]
  <2>2. Set(s, n)
    BY <2>1, Zenon
  <2>3. xs[s].waiter /\ xs[s].os \in {"left", "dead"} /\ UNCHANGED <<phase, policy, quit>>
    BY <1>3, Zenon DEF WaitForExit
  <2>4. Keeps(xs[s], n)
    BY <1>0, <2>3, WatchKeeps, Zenon
  <2> HIDE DEF n
  <2> QED BY <2>2, <2>3, <2>4, SessionStep, Zenon
<1>4. CASE WaitFails(s)
  BY <1>0, <1>4, WatchKeeps, SessionStep, Zenon DEF WaitFails
<1>5. CASE UserPolls(s)
  BY <1>0, <1>5, WatchKeeps, SessionStep, Zenon DEF UserPolls
<1>6. ASSUME UNCHANGED <<xs, phase, policy, quit>> PROVE ExecInv'
  BY <1>6, Zenon DEF ExecInv, SessionsOK, PhasesOK, PolicyOK, PolicyConverged, QuitOK, ShutdownClean
<1>7. CASE Swept(s)
  <2>1. \/ Clean(xs[s]) /\ Set(s, RemoveSession(xs[s])) /\ UNCHANGED <<phase, policy, quit>>
        \/ UNCHANGED <<xs, phase, policy, quit>>
    BY <1>7, Zenon DEF Swept
  <2> QED BY <1>0, <1>6, <2>1, WatchKeeps, SessionStep, Zenon
<1>8. CASE DeadlinePasses(s) \/ ReaderFails(s) \/ UserTerminates(s)
  BY <1>6, <1>8, Zenon DEF DeadlinePasses, ReaderFails, UserTerminates
<1> QED BY <1>1, <1>2, <1>3, <1>4, <1>5, <1>7, <1>8, Zenon

\* apply_policy and shutdown.
LEMMA ExecManagerStep ==
  ASSUME ExecInv, ApplyPolicy \/ PolicyApplied \/ Shutdown \/ ShutdownEnds
  PROVE  ExecInv'
<1>0. \A s \in ExecIds : Sound(xs[s]) /\ (Alive(xs[s]) => xs[s].tab)
  BY Zenon DEF ExecInv, SessionsOK, Sound
<1>1. CASE ApplyPolicy
  <2>1. policy' = [policy EXCEPT !.next = @ + 1, !.moving = TRUE, !.bad = FALSE, !.wait = Stale(policy.next + 1)]
        /\ UNCHANGED <<xs, phase, quit>> /\ PolicyOK
    BY <1>1, Zenon DEF ApplyPolicy, ExecInv
  <2> DEFINE e == policy.next + 1
  <2>2. e \in Nat /\ Stale(e) \subseteq ExecIds
    BY <2>1 DEF PolicyOK, Stale
  <2>3. \A s \in ExecIds : Alive(xs[s]) /\ xs[s].epoch # e => s \in Stale(e)
    BY <1>0, Zenon DEF Stale
  <2>4. policy' = [policy EXCEPT !.next = e, !.moving = TRUE, !.bad = FALSE, !.wait = Stale(e)]
    BY <2>1, Zenon
  <2> HIDE DEF e
  <2>5. policy' \in [epoch : Nat, next : Nat, moving : BOOLEAN, wait : SUBSET ExecIds, bad : BOOLEAN]
        /\ policy'.next = e /\ policy'.moving = TRUE /\ policy'.wait = Stale(e)
    BY <2>1, <2>2, <2>4, Zenon DEF PolicyOK
  <2>6. PolicyOK'
    BY <2>1, <2>3, <2>5, Zenon DEF PolicyOK, PolicyConverged
  <2> QED BY <2>1, <2>6, Zenon DEF ExecInv, SessionsOK, PhasesOK, QuitOK, ShutdownClean
<1>2. CASE PolicyApplied
  <2>1. policy' = [policy EXCEPT !.epoch = policy.next, !.moving = FALSE]
        /\ UNCHANGED <<xs, phase, quit>> /\ PolicyOK /\ policy.moving /\ ~policy.bad /\ policy.wait = {}
    BY <1>2, Zenon DEF PolicyApplied, ExecInv
  <2>2. policy' \in [epoch : Nat, next : Nat, moving : BOOLEAN, wait : SUBSET ExecIds, bad : BOOLEAN]
        /\ policy'.epoch = policy.next /\ policy'.moving = FALSE
    BY <2>1, Zenon DEF PolicyOK
  <2>3. PolicyOK'
    BY <2>1, <2>2, Zenon DEF PolicyOK, PolicyConverged
  <2> QED BY <2>1, <2>3, Zenon DEF ExecInv, SessionsOK, PhasesOK, QuitOK, ShutdownClean
<1>3. CASE Shutdown
  <2> DEFINE all == {s \in ExecIds : xs[s].tab}
  <2>1. quit' = [quit EXCEPT !.down = TRUE, !.wait = all, !.all = all]
        /\ UNCHANGED <<xs, phase, policy>> /\ QuitOK /\ ~quit.down
    BY <1>3, Zenon DEF Shutdown, ExecInv
  <2>2. \A s \in ExecIds : Alive(xs[s]) => s \in all
    BY <1>0, Zenon
  <2>3. all \subseteq ExecIds
    BY Zenon
  <2> HIDE DEF all
  <2>4. /\ quit' \in [down : BOOLEAN, wait : SUBSET ExecIds, ok : SUBSET ExecIds, all : SUBSET ExecIds,
                      done : {"no", "complete", "incomplete"}]
        /\ quit'.down = TRUE /\ quit'.all = all /\ quit'.ok = quit.ok /\ quit'.done = quit.done
    BY <2>1, <2>3, Zenon DEF QuitOK
  <2>5. QuitOK'
    BY <2>1, <2>2, <2>4, Zenon DEF QuitOK, ShutdownClean
  <2> QED BY <2>1, <2>5, Zenon DEF ExecInv, SessionsOK, PhasesOK, PolicyOK, PolicyConverged
<1>4. CASE ShutdownEnds
  <2>1. /\ quit.down
        /\ xs' = [s \in ExecIds |-> IF s \in quit.ok /\ ~xs[s].dirty THEN Tidy(RemoveSession(xs[s]))
                                    ELSE xs[s]]
        /\ quit' = [quit EXCEPT !.done = IF quit.ok = quit.all THEN "complete" ELSE "incomplete"]
        /\ UNCHANGED <<phase, policy>>
    BY <1>4, Zenon DEF ShutdownEnds
  <2>2. \A s \in quit.ok : ~Alive(xs[s]) /\ xs[s].pc \in Past
    BY Zenon DEF ExecInv, QuitOK
  <2>3. ASSUME NEW s \in ExecIds PROVE Keeps(xs[s], xs'[s])
    <3>1. CASE s \in quit.ok /\ ~xs[s].dirty
      <4>1. Keeps(xs[s], RemoveSession(xs[s]))
        BY <1>0, <2>2, <3>1, ZenonT(60)
           DEF RemoveSession, Keeps, Sound, Session, ExecPcs, Ended, Alive, Clean, Forked, Past
      <4>2. xs'[s] = Tidy(RemoveSession(xs[s]))
        BY <2>1, <3>1, Zenon
      <4> QED BY <4>1, <4>2, TidyKeeps, Zenon
    <3>2. CASE ~(s \in quit.ok /\ ~xs[s].dirty)
      BY <1>0, <2>1, <3>2, KeepsSelf, Zenon
    <3> QED BY <3>1, <3>2, Zenon
  <2>4. SessionsOK'
    BY <2>1, <2>3, Zenon DEF SessionsOK, Keeps, Sound
  <2>5. PhasesOK' /\ PolicyOK'
    BY <2>1, <2>3, <2>4, RestKeeps, Zenon
  <2>6. QuitOK'
    <3> DEFINE d == IF quit.ok = quit.all THEN "complete" ELSE "incomplete"
    <3>1. d \in {"complete", "incomplete"} /\ (d = "complete" => quit.ok = quit.all)
      BY Zenon
    <3>2. quit' = [quit EXCEPT !.done = d] /\ QuitOK
      BY <2>1, Zenon DEF ExecInv
    <3> HIDE DEF d
    <3>3. /\ quit' \in [down : BOOLEAN, wait : SUBSET ExecIds, ok : SUBSET ExecIds, all : SUBSET ExecIds,
                        done : {"no", "complete", "incomplete"}]
          /\ quit'.down = quit.down /\ quit'.all = quit.all /\ quit'.ok = quit.ok /\ quit'.done = d
      BY <3>1, <3>2, Zenon DEF QuitOK
    <3>4. \A s \in ExecIds : (Alive(xs'[s]) => Alive(xs[s])) /\ (xs[s].pc \in Past => xs'[s].pc \in Past)
      BY <2>3, Zenon DEF Keeps
    <3>5. \A s \in quit.ok : s \in ExecIds
      BY <3>2, Zenon DEF QuitOK
    <3> QED BY <2>1, <3>1, <3>2, <3>3, <3>4, <3>5, Zenon DEF QuitOK, ShutdownClean
  <2> QED BY <2>4, <2>5, <2>6, Zenon DEF ExecInv
<1> QED BY <1>1, <1>2, <1>3, <1>4, Zenon

\* The command sessions alone.
ExecSpec == ExecInit /\ [][ExecNext]_execvars

\* A manager that was just constructed satisfies the invariant.
LEMMA ExecStart == ExecInit => ExecInv
<1> SUFFICES ASSUME ExecInit PROVE ExecInv
  BY Zenon
<1>1. Sound(NoSession) /\ ~Alive(NoSession) /\ NoSession \in Session
  BY FreshSound, Zenon DEF Alive, NoSession, Sound
<1>2. SessionsOK /\ \A s \in ExecIds : ~Alive(xs[s])
  BY <1>1, Zenon DEF ExecInit, SessionsOK
<1>3. PhasesOK
  BY Zenon DEF ExecInit, PhasesOK
<1>4. PolicyOK
  BY <1>2, Zenon DEF ExecInit, PolicyOK, PolicyConverged
<1>5. QuitOK
  BY <1>2, Zenon DEF ExecInit, QuitOK, ShutdownClean
<1> QED BY <1>2, <1>3, <1>4, <1>5, Zenon DEF ExecInv

\* No process escapes the manager of commands (exec/sessions.py), for every set of
\* sessions, every limit on them and every number of failed spawns and kills: a live
\* process is in the table, a start() that was refused left nothing behind, a
\* policy change that succeeded left no process of an older epoch, and a shutdown
\* that reports complete left none at all.
THEOREM NothingEscapes == ExecSpec => []NoneEscapes
<1>1. ExecInv /\ [ExecNext]_execvars => ExecInv'
  <2> SUFFICES ASSUME ExecInv, [ExecNext]_execvars PROVE ExecInv'
    BY Zenon
  <2>1. ASSUME NEW s \in ExecIds, ExecSteps(s) \/ ExecInputs(s) PROVE ExecInv'
    BY <2>1, ClaimStep, StartStep, WatchStep, TerminateStep, Zenon DEF ExecSteps, ExecInputs
  <2>2. CASE UNCHANGED execvars
    BY <2>2, Zenon
       DEF execvars, ExecInv, SessionsOK, PhasesOK, PolicyOK, PolicyConverged, QuitOK, ShutdownClean
  <2> QED BY <2>1, <2>2, ExecManagerStep, Zenon DEF ExecNext
<1>2. ExecInv => NoneEscapes
  BY Zenon DEF ExecInv, SessionsOK, Sound, PolicyOK, QuitOK, NoneEscapes, LiveTracked, RefusalTrue
<1> QED BY <1>1, <1>2, ExecStart, PTL DEF ExecSpec

\* The Client's composed specification moves the commands only by ExecNext, so no
\* process escapes in it either.
THEOREM NothingEscapesTheClient == ClientSpec => []NoneEscapes
<1>1. ClientInit => ExecInit
  BY Zenon DEF ClientInit
<1>2. [ClientNext]_clientvars => [ExecNext]_execvars
  BY Zenon DEF ClientNext, clientvars
<1> QED BY <1>1, <1>2, NothingEscapes, PTL DEF ClientSpec, ExecSpec
=============================================================================
