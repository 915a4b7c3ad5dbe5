------------------------------ MODULE ClientMcp ------------------------------
(* The Client's MCP supervisor and its runtimes (client mcp/supervisor.py,   *)
(* mcp/runtime.py) for one configured server name.  A runtime is one attempt *)
(* to run the server's process or session; the supervisor holds the runtime  *)
(* of the installed configuration in a slot, a validated candidate under a   *)
(* lease, replaced runtimes while they drain, and runtimes whose cleanup     *)
(* could not be confirmed.  Everything between two awaits of the code is one *)
(* step.  The whole supervisor is one record, mc; an operator takes the      *)
(* record and returns the next one, as the methods change self.              *)
EXTENDS Naturals, FiniteSets

CONSTANTS Rts,      \* names of the runtime objects alive at the same time
          SinkOf    \* the command or address a configuration of the server uses

ASSUME ClientMcpBounds ==
  /\ Rts \in SUBSET Nat /\ IsFiniteSet(Rts) /\ Rts # {}
  /\ DOMAIN SinkOf # {} /\ "none" \notin DOMAIN SinkOf

VARIABLES mc,   \* the supervisor
          mb    \* what remains of the environment's budget

Configs == DOMAIN SinkOf
NoRt == [cfg |-> "none", state |-> "absent", gen |-> 0, proc |-> "none", perm |-> FALSE,
         start |-> "none", wait |-> {}, drain |-> "none", retry |-> FALSE, calls |-> 0]
NoVal == [id |-> 0, rt |-> 0, cfg |-> "none"]
NoReg == [rev |-> 0, gen |-> 0, st |-> "none"]
NoAct == [pc |-> "none", rev |-> 0, cfg |-> "none", vid |-> 0, rts |-> {}]
NoRefresh == [pc |-> "none", rt |-> 0, again |-> FALSE]

Usable(m, r) == m.rt[r].state \in {"awaiting", "ready"}
Draining(m) == {r \in Rts : m.rt[r].drain # "none"}

MarkDirty(m) == [m EXCEPT !.dirty = TRUE]

RecordCleanup(m, r) ==
  [m EXCEPT !.blocked = IF m.rt[r].state = "blocked" THEN @ \cup {r} ELSE @ \ {r}]

BlockedSink(m, cfg, exclude) ==
  {r \in m.blocked \ exclude : SinkOf[m.rt[r].cfg] = SinkOf[cfg] /\ m.rt[r].state = "blocked"}

\* Objects nothing refers to any more are forgotten, so that their names serve again.
InUse(m, r) ==
  \/ r \in {m.slot, m.cand.rt, m.val.rt, m.refresh.rt} \cup m.blocked
  \/ m.rt[r].start # "none" \/ m.rt[r].wait # {} \/ m.rt[r].drain # "none"
  \/ m.rt[r].calls > 0 \/ m.rt[r].proc = "up" \/ m.rt[r].proc = "stuck"

Forgotten(m) == [m EXCEPT !.rt = [r \in Rts |-> IF InUse(m, r) THEN m.rt[r] ELSE NoRt]]

\* A new runtime object; every attempt has a generation of its own.
NewRt(m) == CHOOSE r \in Rts : ~InUse(m, r) /\ \A s \in Rts : s < r => InUse(m, s)
Created(m, cfg, start, proc) ==
  [m EXCEPT !.gens = @ + 1,
            !.rt[NewRt(m)] = [NoRt EXCEPT !.cfg = cfg, !.state = "starting", !.gen = m.gens + 1,
                                          !.start = start, !.proc = proc]]

ScheduleRetry(m, r) ==
  LET n == RecordCleanup(m, r) IN
  IF n.rt[r].retry THEN n
  ELSE IF BlockedSink(n, n.cfg, {r}) # {}
       THEN MarkDirty([n EXCEPT !.rt[r].state = "unavailable"])
  ELSE IF n.rt[r].state # "unavailable" \/ n.rt[r].perm THEN n
  ELSE [n EXCEPT !.rt[r].state = "backoff", !.rt[r].retry = TRUE]

\* runtime.close(): nothing to do when absent, otherwise wait for the shared close task.
CloseAll(m, S) ==
  [m EXCEPT !.rt = [r \in Rts |->
     IF r \in S /\ m.rt[r].state # "absent"
     THEN [m.rt[r] EXCEPT !.state = "closing", !.wait = @ \cup {"close"}, !.start = "none"]
     ELSE m.rt[r]]]
CloseRuntime(m, r) == CloseAll(m, {r})
CloseUnavailable(m, r) == [m EXCEPT !.rt[r].wait = @ \cup {"unavailable"}]

------------------------------------------------------------------------------
(* Connections.                                                             *)

Unacknowledged(m) ==
  [m EXCEPT !.rt = [r \in Rts |-> IF r = m.slot /\ m.rt[r].state = "ready"
                                  THEN [m.rt[r] EXCEPT !.state = "awaiting"] ELSE m.rt[r]]]

AttachConnection(m) ==
  MarkDirty(Unacknowledged([m EXCEPT !.connected = TRUE, !.pend = NoReg, !.acc = 0]))

DetachOnly(m) ==
  Unacknowledged([m EXCEPT !.connected = FALSE, !.pend = NoReg, !.acc = 0, !.val = NoVal,
                           !.cand = NoVal, !.tombs = {}, !.recent = {}])

DetachConnection(m) ==
  LET n == CloseAll(m, {m.val.rt, m.cand.rt} \ {0}) IN
  Unacknowledged([n EXCEPT !.connected = FALSE, !.pend = NoReg, !.acc = 0, !.val = NoVal,
                           !.cand = NoVal, !.tombs = {}, !.recent = {}])

------------------------------------------------------------------------------
(* Validation of a candidate configuration.                                 *)

ValidationRefused(m, base) ==
  m.shut # "no" \/ ~m.connected \/ m.rev # base \/ m.val # NoVal \/ m.cand # NoVal

BeginValidation(m, id, cfg) == [m EXCEPT !.val = [id |-> id, rt |-> 0, cfg |-> cfg]]

OnlyDraining(m) == Draining(m) # {}

Validating(m) == m.val.id # 0
CannotValidate(m) == Draining(m) # {} \/ BlockedSink(m, m.val.cfg, {}) # {}

StartCandidate(m) ==
  LET n == Created(m, m.val.cfg, "connect", "up") IN [n EXCEPT !.val.rt = NewRt(m)]

FailedUnremembered(m) == [m EXCEPT !.val = NoVal]

ValidationFailed(m) ==
  [m EXCEPT !.recent = @ \cup {m.val.id}, !.val = NoVal]

ValidationPassed(m) ==
  [m EXCEPT !.cand = m.val, !.val = NoVal,
            !.rt[m.val.rt].state = "awaiting", !.rt[m.val.rt].start = "none"]

Tombstone(m, id) == [m EXCEPT !.tombs = IF m.connected THEN @ \cup {id} ELSE @]

UnknownValidation(m, id) == id \notin {m.val.id, m.cand.id} \cup m.tombs \cup m.recent

CancelValidation(m, id) ==
  LET t == Tombstone(m, id) IN
  IF m.val.id = id THEN [CloseAll(t, {m.val.rt} \ {0}) EXCEPT !.val = NoVal]
  ELSE IF m.cand.id = id THEN [CloseRuntime(t, m.cand.rt) EXCEPT !.cand = NoVal]
  ELSE m

ExpireCandidate(m) ==
  [CloseRuntime(Tombstone(m, m.cand.id), m.cand.rt) EXCEPT !.cand = NoVal]

------------------------------------------------------------------------------
(* Activation of an authoritative configuration.                            *)

Retire(m, r) == [m EXCEPT !.rt[r].drain = "wait", !.rt[r].retry = FALSE]
RetireSlot(m) == IF m.slot = 0 THEN m ELSE Retire(m, m.slot)

WillRetire(m, cfg, vid) ==
  m.slot # 0 /\ (cfg = "none" \/ (vid # 0 /\ vid = m.cand.id) \/ cfg # m.cfg)

\* The slot of the new configuration, p being the promoted candidate if there is one.
NextSlot(m, cfg, p) ==
  LET blockers == IF cfg = "none" THEN {} ELSE BlockedSink(m, cfg, {}) IN
  IF cfg = "none" THEN [RetireSlot(m) EXCEPT !.slot = 0]
  ELSE IF p # 0 THEN [RetireSlot(m) EXCEPT !.slot = p]
  ELSE IF m.slot # 0 /\ cfg = m.cfg THEN Unacknowledged(m)
  ELSE IF m.slot \in blockers THEN m
  ELSE IF blockers # {} THEN [RetireSlot(m) EXCEPT !.slot = CHOOSE r \in blockers : TRUE]
  ELSE LET n == RetireSlot(m) IN [Created(n, cfg, "queued", "none") EXCEPT !.slot = NewRt(n)]

Swapped(m, p) ==
  MarkDirty([NextSlot(m, m.act.cfg, p) EXCEPT !.cfg = m.act.cfg, !.rev = m.act.rev,
                                             !.acc = 0, !.act = NoAct])

Lease(m) == m.act.vid # 0 /\ m.cand.id = m.act.vid

\* What follows the last draining runtime: take the lease, then swap the slot.
TakeLease(m) ==
  IF ~Lease(m) THEN Swapped([m EXCEPT !.tombs = @ \ {m.act.vid}], 0)
  ELSE LET p == m.cand.rt
           n == [m EXCEPT !.cand = NoVal] IN
       IF BlockedSink(m, m.act.cfg, {p}) = {} THEN Swapped(n, p)
       ELSE [CloseRuntime(n, p) EXCEPT !.act.pc = "candidate", !.act.rts = {p}]

ActivateAuthoritative(m, rev, cfg, vid) ==
  LET n == [m EXCEPT !.act = [pc |-> "drain", rev |-> rev, cfg |-> cfg, vid |-> vid, rts |-> {}]] IN
  IF Draining(m) # {} /\ WillRetire(m, cfg, vid)
  THEN [CloseAll(n, Draining(m)) EXCEPT !.act.rts = Draining(m)]
  ELSE TakeLease(n)

ActivationWaits(m) == \E r \in m.act.rts : m.rt[r].wait # {} \/ m.rt[r].drain # "none"

ActivationContinues(m) ==
  LET stuck == {r \in m.act.rts : m.rt[r].state = "blocked"} IN
  CASE m.act.pc = "drain" /\ stuck # {} -> [CloseAll(m, stuck) EXCEPT !.act.pc = "again"]
    [] m.act.pc = "candidate" -> Swapped(m, 0)
    [] OTHER -> TakeLease(m)

------------------------------------------------------------------------------
(* Registration with the Server.                                            *)

SnapshotState(m) ==
  IF Usable(m, m.slot) THEN "ready"
  ELSE IF m.rt[m.slot].state = "drifted" THEN "drifted" ELSE "unavailable"

Desired(m) ==
  IF m.slot = 0 THEN [gen |-> 0, st |-> "none"]
  ELSE [gen |-> m.rt[m.slot].gen, st |-> SnapshotState(m)]

RegistrationDue(m) == m.connected /\ m.dirty /\ m.pend = NoReg /\ m.rev # 0

NextRegistration(m) == [rev |-> m.rev, gen |-> Desired(m).gen, st |-> Desired(m).st]
Registering(m) == [m EXCEPT !.pend = NextRegistration(m), !.dirty = FALSE]

\* Refused: the Client drops the connection over this acknowledgement.
AckRefused(m, rev, gen) == m.pend = NoReg \/ m.pend.rev # rev \/ m.pend.gen # gen

AcceptRegistration(m, verdict) ==
  LET n == [m EXCEPT !.pend = NoReg] IN
  IF m.rev # m.pend.rev \/ Desired(m) # [gen |-> m.pend.gen, st |-> m.pend.st] THEN MarkDirty(n)
  ELSE IF m.slot = 0 THEN n
  ELSE IF verdict = "accepted"
       THEN [n EXCEPT !.acc = m.pend.gen, !.rt[m.slot].state = "ready"]
  ELSE IF m.pend.st = "ready"
       THEN MarkDirty([n EXCEPT !.acc = 0, !.rt[m.slot].state = "drifted"])
  ELSE [n EXCEPT !.acc = 0]

------------------------------------------------------------------------------
(* Invocations: a lease is taken when the call is queued and released once. *)

Routed(m, rev, gen) ==
  /\ m.rev = rev /\ m.slot # 0
  /\ m.rt[m.slot].gen = gen
  /\ m.acc = gen /\ SnapshotState(m) = "ready"

ReserveInvocation(m, call) ==
  IF Routed(m, call.rev, call.gen)
  THEN [m EXCEPT !.inv[call.id] = [pc |-> "queued", rt |-> m.slot, gen |-> call.gen, cfg |-> call.cfg],
                 !.rt[m.slot].calls = @ + 1]
  ELSE [m EXCEPT !.inv[call.id] = [pc |-> "queued", rt |-> 0, gen |-> call.gen, cfg |-> call.cfg]]

NoInv == [pc |-> "none", rt |-> 0, gen |-> 0, cfg |-> "none"]

ReleaseInvocation(m, c) ==
  LET r == m.inv[c].rt IN
  IF r = 0 THEN m ELSE [m EXCEPT !.rt[r].calls = @ - 1, !.inv[c].rt = 0]

\* The lease of an invocation that has ended, and its failure seen by the slot.
InvokeEnded(m, c) ==
  LET r == m.inv[c].rt
      n == ReleaseInvocation([m EXCEPT !.inv[c].pc = "done"], c) IN
  IF r = 0 \/ Usable(m, r) THEN n
  ELSE IF m.slot # r THEN RecordCleanup(n, r)
  ELSE LET d == MarkDirty(RecordCleanup([n EXCEPT !.acc = 0], r)) IN
       IF d.rt[r].state = "unavailable" THEN ScheduleRetry(d, r) ELSE d

InvokeStarted(m, c) ==
  LET r == m.inv[c].rt IN
  IF r = 0 \/ m.rt[r].gen # m.inv[c].gen \/ ~Usable(m, r)
  THEN InvokeEnded(m, c)
  ELSE [m EXCEPT !.inv[c].pc = "sent"]

\* Calls that will not run or whose answers nobody awaits give their leases back.
DropInvocations(m, C) ==
  [m EXCEPT !.inv = [c \in DOMAIN m.inv |-> IF c \in C THEN NoInv ELSE m.inv[c]],
            !.rt = [r \in Rts |-> [m.rt[r] EXCEPT !.calls = @ - Cardinality({c \in C : m.inv[c].rt = r})]]]

------------------------------------------------------------------------------
(* The tasks of the supervisor.                                             *)

Open(m) == m.shut = "no"
Becomes(m) == mc' = Forgotten(m) /\ UNCHANGED mb
Faults(m) == mb.faults > 0 /\ mc' = Forgotten(m) /\ mb' = [mb EXCEPT !.faults = @ - 1]

\* run(): the queued start of a slot's runtime.
StartRuns(r) ==
  LET n == [mc EXCEPT !.rt[r].start = "none"]
      lost == MarkDirty([n EXCEPT !.rt[r].state = "unavailable"]) IN
  /\ mc.rt[r].start = "queued"
  /\ Becomes(IF BlockedSink(mc, mc.rt[r].cfg, {r}) # {} THEN lost
             ELSE IF mc.rt[r].state # "starting" THEN (IF mc.slot = r THEN lost ELSE n)
             ELSE [mc EXCEPT !.rt[r].start = "connect", !.rt[r].proc = "up"])

Connecting(r) == mc.rt[r].start = "connect" /\ mc.rt[r].wait = {} /\ mc.val.rt # r

Started(r) ==
  LET n == [mc EXCEPT !.rt[r].start = "none", !.rt[r].state = "awaiting"] IN
  /\ Connecting(r)
  /\ IF mc.slot = r THEN \/ Becomes(MarkDirty(n))
                         \/ Faults(MarkDirty([n EXCEPT !.rt[r].state = "drifted"]))
                    ELSE Becomes(CloseRuntime(n, r))

StartFails(r) ==
  /\ Connecting(r)
  /\ \E perm \in BOOLEAN :
       Faults([mc EXCEPT !.rt[r].start = "none", !.rt[r].wait = {"start"}, !.rt[r].perm = perm])

\* No task of the previous session is left when the backoff delay, of 0.8 s or more, is
\* over: a request of a closed session fails at once.
Idle(r) ==
  /\ ~ (mc.refresh.rt = r /\ mc.refresh.pc \in {"discover", "closing"})
  /\ \A c \in DOMAIN mc.inv : mc.inv[c].rt # r \/ mc.inv[c].pc = "queued"

RetryFires(r) ==
  /\ mc.rt[r].retry /\ Idle(r)
  /\ IF mc.slot # r \/ mc.rt[r].state # "backoff" THEN Becomes([mc EXCEPT !.rt[r].retry = FALSE])
     ELSE Becomes(MarkDirty([mc EXCEPT !.gens = @ + 1, !.rt[r].gen = mc.gens + 1,
                       !.rt[r].retry = FALSE, !.rt[r].state = "starting", !.rt[r].start = "queued"]))

\* watch(): the session of the slot ended by itself.
TransportFails(r) ==
  /\ mc.slot = r /\ Usable(mc, r) /\ mc.rt[r].proc = "up" /\ mc.rt[r].wait = {}
  /\ \E perm \in BOOLEAN :
       Faults(CloseUnavailable([mc EXCEPT !.acc = 0, !.rt[r].perm = perm], r))

\* drain(): closed once its calls are over, or when the drain time is over.
DrainEnds(r) ==
  /\ mc.rt[r].drain = "wait"
  /\ mc.rt[r].calls = 0 \/ mb.faults > 0
  /\ mb' = IF mc.rt[r].calls = 0 THEN mb ELSE [mb EXCEPT !.faults = @ - 1]
  /\ mc' = [CloseRuntime(mc, r) EXCEPT !.rt[r].drain = "closing"]

\* The state a finished close task leaves behind: stuck means cleanup is not confirmed.
StateClosed(x, stuck) ==
  IF x.wait = {"cancel"} THEN x.state
  ELSE IF stuck THEN "blocked"
  ELSE IF "close" \in x.wait THEN "absent"
  ELSE IF "start" \in x.wait \/ x.state \notin {"absent", "backoff", "closing"} THEN "unavailable"
  ELSE x.state

AfterClose(m, r, stuck) ==
  LET x == m.rt[r]
      ended == {c \in DOMAIN m.inv : m.inv[c].rt = r /\ m.inv[c].pc = "closing"}
      y == [x EXCEPT !.state = StateClosed(x, stuck), !.wait = {}, !.calls = @ - Cardinality(ended),
                     !.proc = IF stuck THEN "stuck" ELSE "none",
                     !.drain = IF "close" \in x.wait THEN "none" ELSE @]
      i == [c \in DOMAIN m.inv |-> IF c \in ended THEN [m.inv[c] EXCEPT !.pc = "done", !.rt = 0]
                                   ELSE m.inv[c]]
      n == RecordCleanup([m EXCEPT !.rt[r] = y, !.inv = i], r) IN
  IF m.slot = r /\ x.wait \cap {"start", "unavailable"} # {} /\ Open(m)
  THEN ScheduleRetry(MarkDirty([n EXCEPT !.acc = 0]), r) ELSE n

EndRefresh(m) ==
  [m EXCEPT !.refresh = IF m.refresh.again THEN [NoRefresh EXCEPT !.pc = "debounce"] ELSE NoRefresh]

\* The shared close task of a runtime ends and all who await it go on.
CloseEnds(r) ==
  LET refreshed(m) == IF mc.refresh.pc = "closing" /\ mc.refresh.rt = r THEN EndRefresh(m) ELSE m IN
  /\ mc.rt[r].wait # {}
  /\ \/ Becomes(refreshed(AfterClose(mc, r, FALSE)))
     \/ mc.rt[r].proc # "none" /\ Faults(refreshed(AfterClose(mc, r, TRUE)))

\* notify_list_changed(): the server announced that its catalog changed.
ListChanged ==
  /\ Open(mc) /\ mc.slot # 0 /\ mc.rt[mc.slot].proc = "up" /\ mc.rt[mc.slot].start = "none"
  /\ mb.refreshes > 0 /\ mb' = [mb EXCEPT !.refreshes = @ - 1]
  /\ mc' = IF mc.refresh.pc = "none" THEN [mc EXCEPT !.refresh.pc = "debounce"]
           ELSE [mc EXCEPT !.refresh.again = TRUE]

RefreshRuns ==
  /\ mc.refresh.pc = "debounce"
  /\ Becomes(IF mc.slot = 0 THEN [mc EXCEPT !.refresh = NoRefresh]
             ELSE IF ~Usable(mc, mc.slot) THEN [mc EXCEPT !.refresh = NoRefresh, !.acc = 0]
             ELSE [mc EXCEPT !.acc = 0, !.refresh = [pc |-> "discover", rt |-> mc.slot, again |-> FALSE]])

\* The discovery answers: the catalog is the same, or it differs from the persisted one.
RefreshEnds ==
  LET r == mc.refresh.rt
      becomes(st) == MarkDirty(EndRefresh([mc EXCEPT !.rt[r].state = st])) IN
  /\ mc.refresh.pc = "discover" /\ mc.rt[r].proc = "up"
  /\ Becomes(becomes("awaiting")) \/ Faults(becomes("drifted"))

\* The discovery fails, at once when the session is already closed.
RefreshFails ==
  LET r == mc.refresh.rt
      n == MarkDirty(EndRefresh(mc)) IN
  /\ mc.refresh.pc = "discover"
  /\ IF mc.rt[r].proc # "up" /\ mc.rt[r].wait = {}
     THEN Becomes(IF mc.rt[r].state = "unavailable" THEN ScheduleRetry(n, r) ELSE n)
     ELSE \E perm \in BOOLEAN :
            Faults(CloseUnavailable([mc EXCEPT !.rt[r].perm = perm, !.refresh.pc = "closing"], r))

InvokeReturns(c) ==
  mc.inv[c].pc = "sent" /\ Becomes(InvokeEnded(mc, c))

\* The request's outcome is unknown: the session is closed before the call is answered.
InvokeFails(c) ==
  /\ mc.inv[c].pc = "sent" /\ mc.rt[mc.inv[c].rt].proc = "up"
  /\ \E perm \in BOOLEAN :
       Faults(CloseUnavailable([mc EXCEPT !.inv[c].pc = "closing", !.rt[mc.inv[c].rt].perm = perm],
                               mc.inv[c].rt))

CandidateRuns == Validating(mc) /\ mc.val.rt = 0 /\ ~CannotValidate(mc) /\ Becomes(StartCandidate(mc))

CandidateFails ==
  /\ mc.val.rt # 0 /\ mc.rt[mc.val.rt].start = "connect"
  /\ Faults(CloseRuntime(mc, mc.val.rt))

CandidateExpires == mc.cand # NoVal /\ Faults(ExpireCandidate(mc))

ActivationStep ==
  mc.act.pc # "none" /\ ~ActivationWaits(mc) /\ Becomes(ActivationContinues(mc))

------------------------------------------------------------------------------
(* shutdown(): close the candidate, cancel every task, close the slot, and   *)
(* try once more to close what could not be cleaned up.                      *)

Quiet(m) == \A r \in Rts : m.rt[r].wait = {} /\ m.rt[r].drain = "none"

ShutdownBegins(m) ==
  LET n == CloseAll(DropInvocations(m, {c \in DOMAIN m.inv : m.inv[c].pc # "closing"}),
                    {m.val.rt, m.cand.rt} \ {0}) IN
  [n EXCEPT !.shut = "candidates", !.connected = FALSE, !.pend = NoReg, !.acc = 0, !.recent = {},
            !.val = NoVal, !.cand = NoVal, !.refresh = NoRefresh, !.act.rts = {m.cand.rt} \ {0}]

\* A cancelled start closes its session on the way out; a cancelled drain closes its runtime.
TaskCancelled(x) ==
  LET y == [x EXCEPT !.retry = FALSE, !.start = "none"] IN
  IF x.start = "connect" THEN [y EXCEPT !.wait = @ \cup {"cancel"}]
  ELSE IF x.drain = "wait" THEN [y EXCEPT !.drain = "closing", !.state = "closing", !.wait = @ \cup {"close"}]
  ELSE y

ShutdownStep ==
  \/ /\ mc.shut = "candidates" /\ ~ActivationWaits(mc)
     /\ Becomes([mc EXCEPT !.shut = "tasks", !.act = NoAct, !.rt = [r \in Rts |-> TaskCancelled(mc.rt[r])]])
  \/ /\ mc.shut = "tasks" /\ Quiet(mc)
     /\ Becomes([CloseAll(mc, {mc.slot} \ {0}) EXCEPT !.shut = "slots"])
  \/ /\ mc.shut = "slots" /\ Quiet(mc)
     /\ Becomes([CloseAll(mc, mc.blocked) EXCEPT !.shut = "blocked"])
  \/ /\ mc.shut = "blocked" /\ Quiet(mc)
     /\ Becomes([mc EXCEPT !.shut = "done", !.slot = 0])

McpTask ==
  \/ \E r \in Rts : StartRuns(r) \/ Started(r) \/ RetryFires(r) \/ DrainEnds(r) \/ CloseEnds(r)
  \/ RefreshRuns \/ RefreshEnds \/ RefreshFails \/ CandidateRuns \/ ActivationStep \/ ShutdownStep
  \/ \E c \in DOMAIN mc.inv : InvokeReturns(c)

McpFault ==
  \/ \E r \in Rts : StartFails(r) \/ TransportFails(r)
  \/ ListChanged \/ CandidateFails \/ CandidateExpires
  \/ \E c \in DOMAIN mc.inv : InvokeFails(c)

McpIdle(invs) ==
  [rt |-> [r \in Rts |-> NoRt], slot |-> 0, cfg |-> "none", rev |-> 0, connected |-> FALSE,
   dirty |-> FALSE, pend |-> NoReg, acc |-> 0, val |-> NoVal, cand |-> NoVal, tombs |-> {},
   recent |-> {}, blocked |-> {}, act |-> NoAct, refresh |-> NoRefresh, gens |-> 0,
   inv |-> [c \in invs |-> NoInv], shut |-> "no"]

=============================================================================
