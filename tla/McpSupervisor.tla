---------------------------- MODULE McpSupervisor ----------------------------
(***************************************************************************)
(* The server's own MCP clients (mcp/supervisor.py, mcp/runtime.py,        *)
(* mcp/scheduler.py, mcp/authority.py) and the administration request that *)
(* changes their configuration (api/admin/server_mcp.py).                  *)
(*                                                                         *)
(* A conversation owns one client per configured MCP server; one server is *)
(* modelled, so one entry per conversation.  An entry is opened in prepare *)
(* before each model request, kept while idle, evicted when another        *)
(* conversation needs the place, and closed on failure.  Closing may not   *)
(* converge: the client stays "blocked" until a later retry succeeds.      *)
(* Tool calls hold an admission lease until they can no longer be running. *)
(*                                                                         *)
(* A supervisor-lock section is one step, and so are two with no await     *)
(* between them: no section waits for anything, so the lock is always      *)
(* free.  rt[e] is an _Entry together with its RuntimeGeneration; admin    *)
(* candidates are runtimes without a conversation.  Names: st is           *)
(* entry.state, run is runtime.state.                                      *)
(***************************************************************************)
EXTENDS Integers, FiniteSets, FiniteSetsExt

CONSTANTS
    Conv,         \* conversations
    UserOf,       \* the user of each
    MaxStarting,  \* process limit on clients being started
    Entries,      \* bound: runtimes that exist at once, and their names
    Invs,         \* bound: calls whose lease is held at once
    Iterations,   \* bound: model requests of a turn
    Dispatches,   \* bound: calls of a turn
    Budgets       \* the limits on clients and on running calls (of the process, a
                  \* user and a client) and, as bounds, the turns of each
                  \* conversation, updates, deletions and faults of a behaviour

ASSUME McpBounds ==
    /\ MaxStarting \in Nat \ {0}
    /\ {Iterations, Dispatches} \subseteq Nat
    /\ \A b \in Budgets : b.calls \in [all : Nat \ {0}, user : Nat \ {0}, client : Nat \ {0}]

VARIABLES
    remote,       \* the transport: remote, or a child process (stdio)
    slot,         \* _entries: the entry of each conversation, 0 if none
    cands,        \* _candidates
    rt,           \* the runtimes
    inv,          \* the issued calls with their leases
    agent,        \* the turn of each conversation
    admin,        \* the administration request
    db,           \* the stored envelope
    auth,         \* supervisor._authority
    fence,        \* ServerMcpAuthorityFence._snapshot
    forgotten,    \* _forgotten
    down,         \* "no", "begun": admissions retired, "closing": entries closed
    clock,        \* orders last_used
    budget        \* what is left of the bounds
mcpvars == <<remote, slot, cands, rt, inv, agent, admin, db, auth, fence, forgotten, down, clock, budget>>

None == "none"
NoRt == [conv |-> None, st |-> None, stale |-> FALSE, cfg |-> 0, rev |-> 0, run |-> None, up |-> FALSE,
         sig |-> FALSE, idle |-> FALSE, closer |-> None, used |-> 0, replaced |-> FALSE]
NoInv == [st |-> None, e |-> 0, lease |-> "free", by |-> None]
NoAgent == [pc |-> "idle", e |-> 0, victim |-> 0, env |-> [rev |-> 0, cfg |-> 0], route |-> [e |-> 0, rev |-> 0],
            i |-> 0, left |-> 0, calls |-> 0, stop |-> FALSE]
NoAdmin == [pc |-> "idle", kind |-> None, base |-> [rev |-> 0, cfg |-> 0], new |-> [rev |-> 0, cfg |-> 0],
            e |-> 0, ok |-> FALSE, retire |-> {}]
Start == [rev |-> 1, cfg |-> 1]

McpInit ==
    /\ remote \in BOOLEAN
    /\ slot = [c \in Conv |-> 0] /\ cands = {}
    /\ rt = [e \in Entries |-> NoRt]
    /\ inv = [i \in Invs |-> NoInv]
    /\ agent = [c \in Conv |-> NoAgent]
    /\ admin = NoAdmin
    /\ db = Start /\ auth = Start
    /\ fence = [rev |-> 1, valid |-> TRUE]
    /\ forgotten = {} /\ down = "no" /\ clock = 0
    /\ budget \in Budgets

Spend(what) == budget[what] > 0 /\ budget' = [budget EXCEPT ![what] = @ - 1]
McpFault == Spend("faults")
Free == UNCHANGED budget

(***************************************************************************)
(* Entries, capacity and closing.                                          *)
(***************************************************************************)
Held == {slot[c] : c \in Conv} \ {0}
Running(c) == agent[c].pc \notin {"idle", "retire", "retiring"}

(* _counts_locked, _fits_locked; the clients share their transport, so for *)
(* child processes the limit is the smaller of the two on clients          *)
MaxClients == budget.clients
Counted == Held \cup cands
Starting == {e \in Counted : rt[e].st = "opening"}
Fits == Cardinality(Counted) < MaxClients /\ Cardinality(Starting) < MaxStarting

Idle == {e \in Held : rt[e].st = "ready" /\ ~Running(rt[e].conv)}
(* _lru_idle_locked: the candidates for eviction *)
Evictable == Idle
Victim == CHOOSE e \in Evictable : \A f \in Evictable : rt[e].used < rt[f].used \/ (rt[e].used = rt[f].used /\ e <= f)

(* _close_entry up to runtime.close(), with the start of _close_impl: the  *)
(* runtime drains and admits nothing; whoever closes will settle it        *)
Closing(r, closer) ==
    [r EXCEPT !.st = "closing", !.stale = TRUE, !.idle = closer = "idle",
              !.run = IF @ \in {"closed", "blocked"} THEN @ ELSE "draining",
              !.closer = IF closer = "agent" THEN IF @ = "idle" THEN None ELSE @ ELSE closer]
Close(R, E, closer) == [e \in Entries |-> IF e \in E THEN Closing(R[e], closer) ELSE R[e]]

CloseEnded(e) == rt[e].run \in {"closed", "blocked"}

(* a runtime nobody refers to any more is forgotten *)
Refs(A, ad) == {A[c].e : c \in Conv} \cup {A[c].victim : c \in Conv} \cup {ad.e} \cup ad.retire
Tidied(R, I, keep) ==
    [e \in Entries |->
        IF R[e].run = "closed" /\ e \notin keep /\ ~\E i \in Invs : I[i].e = e THEN NoRt ELSE R[e]]

(* Mutation: whatever the outcome of the cleanup, the entry is dropped. *)
GoneAnyway(E) == {e \in E : rt[e].run \in {"closed", "blocked"}}
(* cleanup_complete *)
Gone(E) == {e \in E : rt[e].run = "closed"}

(* the retained leases of runtimes whose cleanup is complete are returned *)
FreeRetained(I, E) == [i \in Invs |-> IF I[i].lease = "retained" /\ I[i].e \in E THEN NoInv ELSE I[i]]

(* _close_entry after runtime.close(), and _purge_conversation_locked; A   *)
(* is the agents' next state, since a conversation that is gone is purged  *)
SettleAll(E, R, A, ad) ==
    LET gone == Gone(E)
        slots == [c \in Conv |-> IF slot[c] \in gone THEN 0 ELSE slot[c]]
        keep == {slots[c] : c \in Conv} \cup (cands \ gone) \cup Refs(A, ad)
    IN /\ slot' = slots /\ cands' = cands \ gone
       /\ inv' = FreeRetained(inv, gone)
       /\ rt' = Tidied([e \in Entries |-> IF e \in E THEN [R[e] EXCEPT !.closer = None] ELSE R[e]],
                       FreeRetained(inv, gone), keep)
       /\ agent' = A /\ admin' = ad
       /\ forgotten' = {c \in forgotten : slots[c] # 0 \/ A[c].pc \notin {"idle", "retire", "retiring"}}
Rest == UNCHANGED <<remote, db, auth, fence, down, clock>>

At(c, pc) == [agent EXCEPT ![c].pc = pc]
Quit(c) == [agent EXCEPT ![c] = [@ EXCEPT !.pc = "leave", !.e = 0, !.victim = 0, !.route = NoAgent.route, !.stop = FALSE]]
(* an agent's or administrator's step that touches no client *)
Only(A) == agent' = A /\ UNCHANGED <<slot, cands, rt, inv, admin, forgotten>>

(* runtime._close_impl: the client is closed and its calls are cancelled,  *)
(* or the cleanup does not converge                                        *)
ClientCloses(e) ==
    /\ rt[e].run = "draining"
    /\ rt' = [rt EXCEPT ![e].run = "closed", ![e].up = FALSE, ![e].sig = FALSE]
    /\ inv' = [i \in Invs |-> IF inv[i].e = e /\ inv[i].st = "running" THEN [inv[i] EXCEPT !.st = "lost"] ELSE inv[i]]
    /\ UNCHANGED <<slot, cands, agent, admin, forgotten>> /\ Rest /\ Free

CleanupBlocked(e) ==
    /\ rt[e].run = "draining" /\ rt[e].up /\ McpFault
    /\ rt' = [rt EXCEPT ![e].run = "blocked"]
    /\ UNCHANGED <<slot, cands, inv, agent, admin, forgotten>> /\ Rest

(* a background task that closes an entry reaches the end of _close_entry; *)
(* the caller of a call that was cancelled on the way has been resumed     *)
(* before it                                                               *)
TaskSettles(e) ==
    /\ rt[e].closer \in {"idle", "task"} /\ CloseEnded(e)
    /\ ~\E c \in Conv : agent[c].pc = "wait" /\ inv[agent[c].i].e = e /\ inv[agent[c].i].st = "lost"
    /\ SettleAll({e}, rt, agent, admin)
    /\ Rest /\ Free

(* _retry_blocked with retry_cleanup: of the blocked runtimes those in     *)
(* done converge now; closed ones whose closer was cancelled are settled   *)
RetryBlocked(A, ad) ==
    LET stuck == {e \in Counted : rt[e].run = "blocked" /\ (rt[e].st = "closing" \/ e \in cands)}
        over == {e \in Held : rt[e].st = "closing" /\ rt[e].run = "closed"}
    IN \E done \in SUBSET stuck :
        LET gone == over \cup done
            closed == [e \in Entries |-> IF e \in done THEN [rt[e] EXCEPT !.run = "closed", !.up = FALSE] ELSE rt[e]]
            slots == [c \in Conv |-> IF slot[c] \in gone THEN 0 ELSE slot[c]]
            lost == [i \in Invs |-> IF inv[i].e \in done /\ inv[i].st = "running"
                                    THEN [inv[i] EXCEPT !.st = "lost"] ELSE inv[i]]
            freed == FreeRetained(lost, gone)
        IN /\ slot' = slots /\ cands' = cands \ gone /\ inv' = freed
           /\ rt' = Tidied(closed, freed, {slots[c] : c \in Conv} \cup (cands \ gone) \cup Refs(A, ad))
           /\ forgotten' = {c \in forgotten : slots[c] # 0 \/ Running(c)}
           /\ agent' = A /\ admin' = ad

(***************************************************************************)
(* A turn: run(), prepare before each model request, calls, release.       *)
(***************************************************************************)

(* run(): a new turn keeps the conversation's idle client, or cancels the  *)
(* task that is just closing it                                            *)
EnterRun(c) ==
    /\ agent[c].pc = "idle" /\ down = "no" /\ c \notin forgotten
    /\ Spend(c)
    /\ agent' = [agent EXCEPT ![c] = [NoAgent EXCEPT !.pc = "turn", !.left = Iterations, !.calls = Dispatches]]
    /\ rt' = [e \in Entries |->
                IF e = slot[c] THEN [rt[e] EXCEPT !.idle = FALSE, !.closer = IF @ = "idle" THEN None ELSE @] ELSE rt[e]]
    /\ UNCHANGED <<slot, cands, inv, admin, forgotten>> /\ Rest

(* the runner loads the stored envelope for the next model request *)
LoadEnvelope(c) ==
    /\ agent[c].pc = "turn" /\ agent[c].left > 0
    /\ Only([agent EXCEPT ![c].pc = "prep", ![c].env = db, ![c].left = @ - 1])
    /\ Rest /\ Free

AuthorityMatches(c) == auth = agent[c].env
Unavailable(c) == down # "no" \/ c \in forgotten

Reuse(c, e) == rt[e].cfg = agent[c].env.cfg /\ rt[e].st = "ready" /\ rt[e].run = "ready"

(* _reserve begins with _retry_blocked, which has nothing to do if nothing *)
(* is being closed                                                         *)
Reserving == IF \E e \in Counted : rt[e].st = "closing" THEN "retry" ELSE "reserve"

(* prepare up to the client: keep it, close it first, or make one *)
LookUp(c) ==
    LET e == slot[c] IN
    /\ agent[c].pc = "prep"
    /\ UNCHANGED <<slot, cands, inv, admin, forgotten>> /\ Rest /\ Free
    /\ CASE c \in forgotten \/ ~AuthorityMatches(c) -> agent' = Quit(c) /\ UNCHANGED rt
         [] OTHER ->
            IF e = 0 THEN agent' = At(c, Reserving) /\ UNCHANGED rt
            ELSE IF Reuse(c, e)
            THEN /\ agent' = [agent EXCEPT ![c].pc = "rediscover", ![c].e = e]
                 /\ rt' = [rt EXCEPT ![e].run = "discovering", ![e].idle = FALSE]
            ELSE IF rt[e].st = "closing"
            THEN /\ agent' = Quit(c)
                 /\ rt' = [rt EXCEPT ![e].idle = FALSE, ![e].closer = IF @ = "idle" THEN None ELSE @]
            ELSE /\ agent' = [agent EXCEPT ![c].pc = "closeOld", ![c].e = e]
                 /\ rt' = Close(rt, {e}, "agent")

(* the agent waits for a client it closes; a stopped turn leaves without   *)
(* settling it                                                             *)
AgentSettles(c) ==
    /\ agent[c].pc \in {"closeOld", "closeFail"} /\ CloseEnded(agent[c].e)
    /\ IF agent[c].stop THEN SettleAll({}, rt, Quit(c), admin)
       ELSE SettleAll({agent[c].e}, rt,
                      IF agent[c].pc = "closeOld" THEN [agent EXCEPT ![c].pc = "retry", ![c].e = 0] ELSE Quit(c), admin)
    /\ Rest /\ Free

(* _reserve begins *)
Retry(c) ==
    /\ agent[c].pc = "retry"
    /\ RetryBlocked(At(c, "reserve"), admin)
    /\ Rest /\ Free

NewEntry == CHOOSE e \in Entries : rt[e] = NoRt /\ \A f \in Entries : rt[f] = NoRt => e <= f
CanAllocate == \E e \in Entries : rt[e] = NoRt
NewRt(c, cfg) == [NoRt EXCEPT !.conv = c, !.st = "opening", !.cfg = cfg, !.run = "starting", !.used = clock]

(* _reserve: the entry takes the conversation's place in the table, even   *)
(* if a client that could not be closed is still there                     *)
Reserve(c) ==
    /\ agent[c].pc = "reserve" /\ Rest /\ Free
    /\ UNCHANGED <<cands, inv, admin, forgotten>>
    /\ IF Unavailable(c) \/ ~AuthorityMatches(c) THEN agent' = Quit(c) /\ UNCHANGED <<rt, slot>>
       ELSE IF Fits
       THEN /\ CanAllocate
            /\ rt' = [e \in Entries |-> IF e = NewEntry THEN NewRt(c, agent[c].env.cfg)
                                        ELSE [rt[e] EXCEPT !.replaced = @ \/ e = slot[c]]]
            /\ slot' = [slot EXCEPT ![c] = NewEntry]
            /\ agent' = [agent EXCEPT ![c].pc = "open", ![c].e = NewEntry]
       ELSE IF Cardinality(Starting) >= MaxStarting \/ Evictable = {} THEN agent' = Quit(c) /\ UNCHANGED <<rt, slot>>
       ELSE /\ agent' = [agent EXCEPT ![c].pc = "evict", ![c].victim = Victim]
            /\ rt' = Close(rt, {Victim}, "agent")
            /\ UNCHANGED slot

(* the victim is closed; it must have left the table *)
Evicted(c) ==
    LET v == agent[c].victim IN
    /\ agent[c].pc = "evict" /\ CloseEnded(v)
    /\ SettleAll(IF agent[c].stop THEN {} ELSE {v}, rt,
                 IF agent[c].stop \/ rt[v].run = "blocked" THEN Quit(c)
                 ELSE [agent EXCEPT ![c].pc = "reserve", ![c].victim = 0], admin)
    /\ Rest /\ Free

(* runtime.open: connected and discovered, or it fails and closes itself   *)
(* before the entry is closed                                              *)
Opens(e) == [rt EXCEPT ![e].run = IF @ = "starting" THEN "discovering" ELSE @, ![e].up = @ \/ rt[e].run = "starting"]
OpenFailed(e) == [rt EXCEPT ![e].run = IF @ \in {"closed", "blocked"} THEN @ ELSE "draining", ![e].up = @ \/ rt[e].run = "starting"]

(* the catalog may be in when the client is closed under it: the entry is  *)
(* "ready" all the same                                                    *)
Opened(c) ==
    LET e == agent[c].e IN
    /\ agent[c].pc = "open"
    /\ rt' = [Opens(e) EXCEPT ![e].st = "ready"]
    /\ agent' = At(c, "bind")
    /\ UNCHANGED <<slot, cands, inv, admin, forgotten>> /\ Rest /\ Free

(* also when the runtime is closed under it *)
OpenFails(c) ==
    LET e == agent[c].e IN
    /\ agent[c].pc = "open"
    /\ IF rt[e].run = "starting" THEN McpFault ELSE Free
    /\ rt' = OpenFailed(e)
    /\ agent' = At(c, "openFail")
    /\ UNCHANGED <<slot, cands, inv, admin, forgotten>> /\ Rest

OpenCleanedUp(c) ==
    LET e == agent[c].e IN
    /\ agent[c].pc = "openFail" /\ CloseEnded(e)
    /\ IF agent[c].stop THEN SettleAll({}, rt, Quit(c), admin)
       ELSE SettleAll({e}, [rt EXCEPT ![e].st = "closing", ![e].stale = TRUE], Quit(c), admin)
    /\ Rest /\ Free

(* runtime.rediscover on the kept client *)
Rediscovered(c) ==
    /\ agent[c].pc = "rediscover" /\ ~rt[agent[c].e].sig
    /\ Only(At(c, "bind")) /\ Rest /\ Free

RediscoveryFails(c) ==
    LET e == agent[c].e IN
    /\ agent[c].pc = "rediscover"
    /\ IF rt[e].sig THEN Free ELSE McpFault
    /\ IF slot[c] = e THEN rt' = Close(rt, {e}, "agent") ELSE UNCHANGED rt
    /\ agent' = At(c, "closeFail")
    /\ UNCHANGED <<slot, cands, inv, admin, forgotten>> /\ Rest

(* the last check of prepare, in one section with the binding *)
StillBindable(c) == ~Unavailable(c) /\ AuthorityMatches(c) /\ slot[c] = agent[c].e /\ rt[agent[c].e].st = "ready"

Bind(c) ==
    LET e == agent[c].e IN
    /\ agent[c].pc = "bind" /\ Rest /\ Free
    /\ UNCHANGED <<slot, cands, inv, admin, forgotten>>
    /\ IF StillBindable(c) /\ rt[e].run = "discovering"
       THEN /\ rt' = [rt EXCEPT ![e].run = "ready", ![e].rev = agent[c].env.rev, ![e].stale = FALSE]
            /\ agent' = [agent EXCEPT ![c].pc = "turn", ![c].route = [e |-> e, rev |-> agent[c].env.rev], ![c].e = 0]
       ELSE agent' = Quit(c) /\ UNCHANGED rt

(***************************************************************************)
(* A tool call: dispatch_server_mcp.                                       *)
(***************************************************************************)
(* the reservations of _reserve_locked: the calls that hold a lease *)
Leases == {i \in Invs : inv[i].lease # "free"}
(* admit_now's limits *)
Busy(c, e) ==
    \/ Cardinality(Leases) >= budget.calls.all
    \/ Cardinality({i \in Leases : inv[i].e = e}) >= budget.calls.client
    \/ Cardinality({i \in Leases : UserOf[rt[inv[i].e].conv] = UserOf[c]}) >= budget.calls.user

(* _route_is_current *)
RouteCurrent(c) ==
    LET e == slot[c] IN
    /\ agent[c].route.e # 0 /\ e = agent[c].route.e
    /\ rt[e].st = "ready" /\ ~rt[e].stale /\ rt[e].run = "ready"
    /\ c \notin forgotten
    /\ agent[c].route.rev = rt[e].rev /\ rt[e].rev = auth.rev

Transitioning == admin.pc \in {"commit", "recover", "publish", "retire", "retiring"}
(* Mutation: only the published revision counts. *)
AllowedByRevision(c) == fence.valid /\ agent[c].route.rev = fence.rev
(* ServerMcpAuthorityFence.server_issue_allowed *)
IssueAllowed(c) == ~Transitioning /\ fence.valid /\ agent[c].route.rev = fence.rev

(* a call is refused, or issued with its lease; on a client whose          *)
(* transport has failed it fails at once                                   *)
Dispatch(c) ==
    LET e == slot[c] IN
    /\ agent[c].pc = "turn" /\ agent[c].route.e # 0 /\ agent[c].calls > 0 /\ Rest /\ Free
    /\ UNCHANGED <<slot, cands, rt, admin, forgotten>>
    /\ IF ~RouteCurrent(c) \/ down # "no" \/ Busy(c, e) \/ ~IssueAllowed(c)
       THEN agent' = [agent EXCEPT ![c].calls = @ - 1] /\ UNCHANGED inv
       ELSE \E i \in Invs :
              /\ inv[i] = NoInv /\ \A j \in Invs : inv[j] = NoInv => i <= j
              /\ inv' = [inv EXCEPT ![i] = [st |-> IF rt[e].sig THEN "lost" ELSE "running", e |-> e,
                                            lease |-> "active", by |-> c]]
              /\ agent' = [agent EXCEPT ![c].pc = "wait", ![c].i = i, ![c].calls = @ - 1]

(* the upstream server answers *)
Answers(i) ==
    /\ inv[i].st = "running"
    /\ inv' = [inv EXCEPT ![i].st = "done"]
    /\ UNCHANGED <<slot, cands, rt, agent, admin, forgotten>> /\ Rest /\ Free

CallReturns(c) ==
    LET i == agent[c].i IN
    /\ agent[c].pc = "wait" /\ inv[i].st = "done"
    /\ inv' = [inv EXCEPT ![i] = NoInv]
    /\ agent' = [agent EXCEPT ![c].pc = "turn", ![c].i = 0]
    /\ UNCHANGED <<slot, cands, rt, admin, forgotten>> /\ Rest /\ Free

(* _close_failed: the lease is retained by the runtime, which is closed if *)
(* it is still the conversation's                                          *)
CloseFailed(c) ==
    LET i == agent[c].i
        e == inv[i].e
    IN /\ inv' = [inv EXCEPT ![i].lease = "retained", ![i].by = None]
       /\ IF slot[c] = e
          THEN /\ rt' = Close(rt, {e}, "agent")
               /\ agent' = [agent EXCEPT ![c].pc = "closeCall", ![c].e = e]
          ELSE /\ rt' = [rt EXCEPT ![e].stale = TRUE]
               /\ agent' = [agent EXCEPT ![c].pc = "turn", ![c].i = 0]

CallLost(c) ==
    /\ agent[c].pc = "wait" /\ inv[agent[c].i].st = "lost"
    /\ CloseFailed(c)
    /\ UNCHANGED <<slot, cands, admin, forgotten>> /\ Rest /\ Free

(* mark_draining: the lease is kept for the late result *)
Draining(i) == [inv EXCEPT ![i].lease = IF @ = "active" THEN "draining" ELSE @, ![i].by = "drain"]

(* the public deadline: a remote call is left draining, a child process is *)
(* closed                                                                  *)
CallTimesOut(c) ==
    /\ agent[c].pc = "wait" /\ inv[agent[c].i].st = "running"
    /\ IF remote
       THEN /\ inv' = Draining(agent[c].i)
            /\ agent' = [agent EXCEPT ![c].pc = "turn", ![c].i = 0]
            /\ UNCHANGED rt
       ELSE CloseFailed(c)
    /\ UNCHANGED <<slot, cands, admin, forgotten>> /\ Rest /\ Free

(* the end of _close_failed; a stopped remote call hands over to _drain_late *)
FailedCallSettles(c) ==
    LET e == agent[c].e
        done == IF agent[c].stop THEN [Quit(c) EXCEPT ![c].i = 0] ELSE [agent EXCEPT ![c].pc = "turn", ![c].i = 0, ![c].e = 0]
    IN /\ agent[c].pc = "closeCall" /\ CloseEnded(e)
       /\ IF agent[c].stop /\ remote /\ inv[agent[c].i].e # e THEN SettleAll({}, rt, done, admin)
          ELSE IF agent[c].stop /\ remote
          THEN /\ inv' = [inv EXCEPT ![agent[c].i].by = "drain"]
               /\ agent' = done
               /\ UNCHANGED <<slot, cands, rt, admin, forgotten>>
          ELSE SettleAll({e}, rt, done, admin)
       /\ Rest /\ Free

(* _drain_late: the late result has come *)
DrainEnds(i) ==
    LET e == inv[i].e IN
    /\ inv[i].by = "drain" /\ inv[i].st # "running"
    /\ UNCHANGED <<slot, cands, admin, agent, forgotten>> /\ Rest /\ Free
    /\ IF rt[e].run = "closed" \/ rt[e].st = "ready"
       THEN /\ inv' = [inv EXCEPT ![i] = NoInv]
            /\ rt' = Tidied(rt, inv', Counted \cup Refs(agent, admin))
       ELSE inv' = [inv EXCEPT ![i].lease = "retained", ![i].by = None] /\ UNCHANGED rt

(* ... or never does: the client is closed *)
DrainExpires(i) ==
    LET e == inv[i].e IN
    /\ inv[i].by = "drain" /\ inv[i].st = "running"
    /\ inv' = [inv EXCEPT ![i].lease = "retained", ![i].by = None]
    /\ rt' = IF slot[rt[e].conv] = e THEN Close(rt, {e}, "task") ELSE [rt EXCEPT ![e].stale = TRUE]
    /\ UNCHANGED <<slot, cands, agent, admin, forgotten>> /\ Rest /\ Free

(***************************************************************************)
(* A turn ends or is stopped.                                              *)
(***************************************************************************)
EndTurn(c) ==
    /\ agent[c].pc = "turn" /\ Only(Quit(c)) /\ Rest /\ Free

(* the turn is stopped; what it closes is still closed to the end *)
StopTurn(c) ==
    LET a == agent[c] IN
    /\ Running(c) /\ a.pc # "leave" /\ ~a.stop /\ McpFault
    /\ UNCHANGED <<slot, cands, admin, forgotten>> /\ Rest
    /\ CASE a.pc \in {"turn", "prep", "retry", "reserve", "bind"} -> agent' = Quit(c) /\ UNCHANGED <<rt, inv>>
         [] a.pc \in {"closeOld", "closeFail", "evict", "openFail", "closeCall"} ->
              agent' = [agent EXCEPT ![c].stop = TRUE] /\ UNCHANGED <<rt, inv>>
         [] a.pc = "open" ->
              agent' = [agent EXCEPT ![c].pc = "openFail", ![c].stop = TRUE] /\ rt' = OpenFailed(a.e) /\ UNCHANGED inv
         [] a.pc = "rediscover" ->
              /\ rt' = [rt EXCEPT ![a.e].run = IF @ = "discovering" THEN "unavailable" ELSE @]
              /\ agent' = Quit(c) /\ UNCHANGED inv
         [] a.pc = "wait" /\ remote -> inv' = Draining(a.i) /\ agent' = [Quit(c) EXCEPT ![c].i = 0] /\ UNCHANGED rt
         [] a.pc = "wait" /\ ~remote ->
              LET e == inv[a.i].e IN
              /\ inv' = [inv EXCEPT ![a.i].lease = "retained", ![a.i].by = None]
              /\ IF slot[c] = e THEN /\ rt' = Close(rt, {e}, "agent")
                                     /\ agent' = [agent EXCEPT ![c].pc = "closeCall", ![c].e = e, ![c].stop = TRUE]
                 ELSE rt' = [rt EXCEPT ![e].stale = TRUE] /\ agent' = [Quit(c) EXCEPT ![c].i = 0]

(* _release_run: a healthy client is kept idle, another is retired *)
LeaveRun(c) ==
    LET e == slot[c]
        healthy == rt[e].st = "ready" /\ ~rt[e].stale /\ rt[e].run = "ready"
    IN /\ agent[c].pc = "leave"
       /\ UNCHANGED <<remote, slot, cands, inv, admin, db, auth, fence, down>> /\ Free
       /\ CASE e # 0 /\ healthy -> /\ rt' = [rt EXCEPT ![e].used = clock + 1, ![e].idle = TRUE]
                                   /\ clock' = clock + 1
                                   /\ agent' = [agent EXCEPT ![c] = NoAgent] /\ UNCHANGED forgotten
            [] e # 0 /\ ~healthy -> /\ agent' = [agent EXCEPT ![c] = IF rt[e].st = "closing" THEN NoAgent
                                                               ELSE [NoAgent EXCEPT !.pc = "retire", !.e = e]]
                                    /\ UNCHANGED <<rt, clock, forgotten>>
            [] OTHER -> /\ agent' = [agent EXCEPT ![c] = NoAgent]
                        /\ forgotten' = forgotten \ {c} /\ UNCHANGED <<rt, clock>>

Retire(c) ==
    LET e == agent[c].e IN
    /\ agent[c].pc = "retire"
    /\ IF slot[c] = e THEN rt' = Close(rt, {e}, "agent") /\ agent' = At(c, "retiring")
       ELSE agent' = [agent EXCEPT ![c] = NoAgent] /\ UNCHANGED rt
    /\ UNCHANGED <<slot, cands, inv, admin, forgotten>> /\ Rest /\ Free

Retired(c) ==
    /\ agent[c].pc = "retiring" /\ CloseEnded(agent[c].e)
    /\ SettleAll({agent[c].e}, rt, [agent EXCEPT ![c] = NoAgent], admin)
    /\ Rest /\ Free

(* _idle_expiry: ten minutes without a turn *)
IdleExpires(e) ==
    /\ rt[e].idle /\ rt[e].st = "ready" /\ ~Running(rt[e].conv)
    /\ rt' = Close(rt, {e}, "idle")
    /\ UNCHANGED <<slot, cands, inv, agent, admin, forgotten>> /\ Rest /\ Free

(* the transport fails, with every call on it; _monitor sees it, or is told *)
(* that the catalog has changed *)
TransportFails(e) ==
    /\ rt[e].up /\ rt[e].run \in {"ready", "discovering"} /\ ~rt[e].sig /\ McpFault
    /\ rt' = [rt EXCEPT ![e].sig = TRUE]
    /\ inv' = [i \in Invs |-> IF inv[i].e = e /\ inv[i].st = "running" THEN [inv[i] EXCEPT !.st = "lost"] ELSE inv[i]]
    /\ UNCHANGED <<slot, cands, agent, admin, forgotten>> /\ Rest

MonitorSees(e) ==
    /\ rt[e].st = "ready" /\ rt[e].rev # 0 /\ ~rt[e].stale
    /\ IF rt[e].sig THEN Free ELSE McpFault
    /\ rt' = [rt EXCEPT ![e].stale = TRUE]
    /\ UNCHANGED <<slot, cands, inv, agent, admin, forgotten>> /\ Rest

(* forget_session: the conversation is deleted *)
Forget(c) ==
    LET e == slot[c] IN
    /\ c \notin forgotten /\ Spend("forgets")
    /\ IF Running(c)
       THEN /\ forgotten' = forgotten \cup {c}
            /\ rt' = [f \in Entries |-> IF f = e THEN [rt[f] EXCEPT !.stale = TRUE] ELSE rt[f]]
       ELSE IF e = 0 THEN UNCHANGED <<forgotten, rt>>
       ELSE forgotten' = forgotten \cup {c} /\ rt' = Close(rt, {e}, "task")
    /\ UNCHANGED <<slot, cands, inv, agent, admin>> /\ Rest

(* begin_shutdown, then _shutdown_impl *)
BeginShutdown ==
    /\ down = "no" /\ down' = "begun" /\ McpFault
    /\ UNCHANGED <<remote, slot, cands, rt, inv, agent, admin, db, auth, fence, forgotten, clock>>

ShutdownCloses ==
    /\ down = "begun" /\ down' = "closing"
    /\ rt' = [e \in Entries |-> IF e \in cands THEN OpenFailed(e)[e] ELSE Close(rt, Held, "task")[e]]
    /\ UNCHANGED <<remote, slot, cands, inv, agent, admin, db, auth, fence, forgotten, clock>> /\ Free

(***************************************************************************)
(* put_server_mcp: a candidate client is opened to validate the change,    *)
(* which is then committed and published.                                  *)
(***************************************************************************)
AdminTo(pc) == [admin EXCEPT !.pc = pc]
AdminOnly(ad) == admin' = ad /\ UNCHANGED <<slot, cands, rt, inv, agent, forgotten>>

(* the configuration is changed, or only discovered anew *)
PutServerMcp ==
    /\ admin.pc = "idle" /\ down = "no" /\ Spend("updates")
    /\ \E kind \in {"change", "refresh"} :
         AdminOnly([NoAdmin EXCEPT !.pc = Reserving, !.kind = kind, !.base = db,
                                   !.new = IF kind = "change" THEN [rev |-> db.rev + 1, cfg |-> db.cfg + 1] ELSE db])
    /\ Rest

ValidateRetries ==
    /\ admin.pc = "retry"
    /\ RetryBlocked(agent, AdminTo("reserve"))
    /\ Rest /\ Free

(* validate: the candidate counts like any client *)
ValidateReserves ==
    /\ admin.pc = "reserve" /\ Rest /\ Free
    /\ UNCHANGED <<slot, inv, agent, forgotten>>
    /\ IF down = "no" /\ Fits
       THEN /\ CanAllocate
            /\ rt' = [rt EXCEPT ![NewEntry] = NewRt(None, admin.new.cfg)]
            /\ cands' = cands \cup {NewEntry}
            /\ admin' = [admin EXCEPT !.pc = "open", !.e = NewEntry]
       ELSE /\ UNCHANGED cands
            /\ IF down # "no" \/ Cardinality(Starting) >= MaxStarting \/ Evictable = {}
               THEN admin' = NoAdmin /\ UNCHANGED rt
               ELSE /\ admin' = [admin EXCEPT !.pc = "evict", !.e = Victim]
                    /\ rt' = Close(rt, {Victim}, "agent")

ValidateEvicted ==
    /\ admin.pc = "evict" /\ CloseEnded(admin.e)
    /\ SettleAll({admin.e}, rt, agent,
                 IF rt[admin.e].run = "blocked" THEN NoAdmin ELSE [admin EXCEPT !.pc = "reserve", !.e = 0])
    /\ Rest /\ Free

(* the candidate opens, or not, and is closed in either case *)
ValidateOpens ==
    /\ admin.pc = "open"
    /\ \/ rt[admin.e].run = "starting" /\ Free /\ admin' = [admin EXCEPT !.pc = "close", !.ok = TRUE]
       \/ (IF rt[admin.e].run = "starting" THEN McpFault ELSE Free) /\ admin' = [admin EXCEPT !.pc = "close", !.ok = FALSE]
    /\ rt' = [OpenFailed(admin.e) EXCEPT ![admin.e].st = "closing"]
    /\ UNCHANGED <<slot, cands, inv, agent, forgotten>> /\ Rest

ValidateCloses ==
    /\ admin.pc = "close" /\ CloseEnded(admin.e)
    /\ SettleAll({admin.e}, rt, agent,
                 IF admin.ok /\ rt[admin.e].run = "closed" /\ down = "no" THEN [admin EXCEPT !.pc = "commit", !.e = 0] ELSE NoAdmin)
    /\ Rest /\ Free

AdminRest == UNCHANGED <<remote, slot, cands, inv, agent, forgotten, down, clock>>

(* commit_candidate, or fence_current_authority for a refresh; the outcome *)
(* of a failing commit is not known                                        *)
Commit ==
    /\ admin.pc = "commit"
    /\ \/ /\ db' = admin.new /\ admin' = AdminTo("publish") /\ Free
       \/ /\ admin.kind = "change" /\ McpFault
          /\ db' \in {db, admin.new} /\ admin' = AdminTo("recover")
    /\ AdminRest /\ UNCHANGED <<rt, auth, fence>>

(* authority.invalidate *)
Invalidate == fence' = [fence EXCEPT !.valid = FALSE]

(* _recover_unknown_commit: the stored envelope decides; if it cannot be   *)
(* read nothing may be issued                                              *)
RecoverCommit ==
    /\ admin.pc = "recover"
    /\ \/ /\ db = admin.new /\ admin' = AdminTo("publish") /\ UNCHANGED fence /\ Free
       \/ /\ db # admin.new /\ admin' = [admin EXCEPT !.pc = "publish", !.new = db] /\ UNCHANGED fence /\ Free
       \/ /\ McpFault /\ Invalidate /\ admin' = NoAdmin
    /\ AdminRest /\ UNCHANGED <<rt, auth, db>>

(* _publish_committed, _publish_refresh, reconcile and _set_authority *)
Publish ==
    LET same == auth = admin.new /\ admin.new.rev = admin.base.rev /\ admin.kind = "change"
    IN /\ admin.pc = "publish"
       /\ fence' = [rev |-> admin.new.rev, valid |-> TRUE]
       /\ auth' = admin.new
       /\ rt' = [e \in Entries |-> IF e \in Held /\ ~same THEN [rt[e] EXCEPT !.stale = TRUE] ELSE rt[e]]
       /\ admin' = IF same THEN NoAdmin
                   ELSE [admin EXCEPT !.pc = "retire", !.retire = {e \in Held : rt[e].st = "ready" /\ ~Running(rt[e].conv)}]
       /\ UNCHANGED db /\ AdminRest /\ Free

(* _set_authority closes what was idle when it looked *)
RetireIdle ==
    /\ admin.pc = "retire"
    /\ IF admin.retire = {} THEN admin' = NoAdmin /\ UNCHANGED rt
       ELSE LET e == Min(admin.retire) IN
            IF e \in Held THEN rt' = Close(rt, {e}, "agent") /\ admin' = [admin EXCEPT !.pc = "retiring", !.e = e]
            ELSE admin' = [admin EXCEPT !.retire = @ \ {e}] /\ UNCHANGED rt
    /\ UNCHANGED <<slot, cands, inv, agent, forgotten>> /\ Rest /\ Free

IdleRetired ==
    /\ admin.pc = "retiring" /\ CloseEnded(admin.e)
    /\ SettleAll({admin.e}, rt, agent, [admin EXCEPT !.pc = "retire", !.e = 0, !.retire = @ \ {admin.e}])
    /\ Rest /\ Free

AgentStep(c) ==
    \/ LoadEnvelope(c) \/ LookUp(c) \/ AgentSettles(c) \/ Retry(c) \/ Reserve(c) \/ Evicted(c)
    \/ Opened(c) \/ OpenCleanedUp(c) \/ Rediscovered(c) \/ Bind(c) \/ Dispatch(c) \/ CallReturns(c)
    \/ CallLost(c) \/ CallTimesOut(c) \/ FailedCallSettles(c) \/ EndTurn(c) \/ LeaveRun(c)
    \/ Retire(c) \/ Retired(c)
AdminStep ==
    \/ ValidateRetries \/ ValidateReserves \/ ValidateEvicted \/ ValidateOpens \/ ValidateCloses
    \/ Commit \/ RecoverCommit \/ Publish \/ RetireIdle \/ IdleRetired
McpProgress ==
    \/ \E c \in Conv : AgentStep(c) \/ OpenFails(c) \/ RediscoveryFails(c)
    \/ AdminStep \/ ShutdownCloses
    \/ \E e \in Entries : ClientCloses(e) \/ TaskSettles(e)
    \/ \E i \in Invs : DrainEnds(i) \/ DrainExpires(i)
McpNext ==
    \/ McpProgress
    \/ \E c \in Conv : EnterRun(c) \/ StopTurn(c) \/ Forget(c)
    \/ \E e \in Entries : CleanupBlocked(e) \/ IdleExpires(e) \/ TransportFails(e) \/ MonitorSees(e)
    \/ \E i \in Invs : Answers(i)
    \/ PutServerMcp \/ BeginShutdown

(***************************************************************************)
(* Properties.                                                             *)
(***************************************************************************)

(* _counts_locked sees every client there is, so that the process never    *)
(* runs more of them than it was allowed: a client that is up is in the    *)
(* table or a candidate until its cleanup is confirmed, except one whose   *)
(* cleanup was blocked and whose own conversation put another client in    *)
(* its place.                                                              *)
CountedUnlessReplaced ==
    /\ \A e \in Entries : rt[e].up => e \in Counted \/ (rt[e].replaced /\ rt[e].run = "blocked")
    /\ Cardinality({e \in Entries : rt[e].up /\ ~rt[e].replaced}) <= MaxClients
    /\ Cardinality({e \in Counted : rt[e].run = "starting"}) <= MaxStarting

(* The calls that may still be running upstream never exceed the limits of *)
(* process, user and client, however many callers gave up on theirs.       *)
CallsBounded ==
    LET live == {i \in Invs : inv[i].st = "running"} IN
    /\ Cardinality(live) <= budget.calls.all
    /\ \A c \in Conv : Cardinality({i \in live : UserOf[rt[inv[i].e].conv] = UserOf[c]}) <= budget.calls.user
    /\ \A e \in Entries : Cardinality({i \in live : inv[i].e = e}) <= budget.calls.client

(* Until shutdown a retained lease has a client whose cleanup will return  *)
(* it: it is still counted or being settled, or was replaced while blocked.*)
LeaseHasHolder ==
    \A i \in Invs : inv[i].lease = "retained" /\ down = "no" =>
        LET e == inv[i].e IN e \in Counted \/ rt[e].closer # None \/ rt[e].replaced

(* The supervisor's books are true at every moment: no client runs, no     *)
(* call is in flight and no lease is kept that the limits do not see.      *)
CapacityKept == CountedUnlessReplaced /\ CallsBounded /\ LeaseHasHolder

(* A call is issued only on the configuration that is stored at that       *)
(* moment, although the stored one, the supervisor's and the fence change  *)
(* in three steps, the commit may be lost, and prepare took its own copy;  *)
(* and only for a conversation that is not deleted (authority.py,          *)
(* _route_is_current).                                                     *)
IssuedDurable ==
    \A i \in Invs : inv[i] = NoInv /\ inv'[i] # NoInv =>
        LET e == inv'[i].e IN
        /\ rt[e].cfg = db.cfg /\ rt[e].rev = db.rev
        /\ rt[e].conv \notin forgotten /\ Running(rt[e].conv)

(* No client in use is taken away: a healthy client of a running turn is   *)
(* closed only by that turn, by a late call of it, by shutdown, or by an   *)
(* administrator who found it idle when publishing.                        *)
ActiveKept ==
    \A e \in Held : rt[e].st = "ready" /\ ~rt[e].stale /\ Running(rt[e].conv) /\ rt'[e].st = "closing" =>
        \/ agent'[rt[e].conv].e = e
        \/ \E i \in Invs : inv[i].e = e /\ inv[i].by = "drain" /\ inv'[i].by # "drain"
        \/ down' = "closing" \/ e \in admin.retire

(* A running turn is served by its own client under the stored             *)
(* configuration: no call is issued on another one, and no healthy client  *)
(* is taken away from it.                                                  *)
ServedByCurrent == [][IssuedDurable /\ ActiveKept]_mcpvars

(* A turn or an administration request under way, a client being closed,   *)
(* or a lease that a client still running must give back.                  *)
McpUnfinished ==
    \/ \E c \in Conv : agent[c].pc # "idle"
    \/ admin.pc # "idle"
    \/ \E e \in Entries : rt[e].run = "draining"
    \/ \E i \in Invs : inv[i].lease \in {"active", "draining"}
=============================================================================
