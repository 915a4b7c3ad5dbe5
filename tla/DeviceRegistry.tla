---------------------------- MODULE DeviceRegistry ----------------------------
(*****************************************************************************)
(* The connections of one Device: the WebSocket handshake that publishes a   *)
(* generation (api/device_ws.py), the registry that routes tool calls to the *)
(* current one (devices/registry.py), the configuration change that fences   *)
(* it before the durable commit (api/devices.py), MCP registration, and the  *)
(* revocation of the Device's token.                                         *)
(*                                                                           *)
(* A step runs from one suspension point of a coroutine to the next one that *)
(* can really block: a lock, a transport send, a peer's frame or a database  *)
(* transaction.  A section under DeviceRegistry._lock is one step.  The      *)
(* other locks are functions of the program counters: a lock is free when no *)
(* coroutine stands inside a section it protects.  lifecycle_lock is only    *)
(* ever taken under _register_lock and adds nothing.                         *)
(*****************************************************************************)
EXTENDS Integers, FiniteSets

CONSTANTS
  Sock,       \* WebSocket connections, each with one _Connection object
  Call,       \* device tool calls
  Patch,      \* PATCH /api/devices/{name}/config requests
  Revocation, \* token rotations and Device deletions
  NoSock,     \* no connection
  MaxPending, \* pending_calls_max
  MaxTombs,   \* late results a connection remembers (256 in the code)
  MaxOps,     \* bound: operations begun, of any kind
  Races       \* coincidences explored: "late_timeout", "epoch_expiry"

ASSUME RegistryAssumption ==
  /\ NoSock \notin Sock /\ IsFiniteSet(Call)
  /\ MaxPending \in Nat /\ MaxTombs \in Nat /\ MaxOps \in Nat
  /\ Races \subseteq {"late_timeout", "epoch_expiry"}

VARIABLES
  rev,     \* devices.config_revision
  token,   \* devices.token_hash, a version number; 0 once the row is deleted
  current, \* _connections: the connection object of the current generation
  gens,    \* _generations
  fence,   \* _publication_fences: the generation it was raised for, 0 for none
  epoch,   \* _revocation_epochs
  credits, \* _pending_calls
  conn,    \* the _Connection objects
  sock,    \* serve_device_socket, one coroutine per WebSocket
  unreg,   \* unregister(handle): all calls for one handle as one task
  mcp,     \* _McpRegistrationRunner, one per WebSocket
  patch,   \* patch_device
  rvk,     \* regenerate_device_token and delete_device
  call     \* _dispatch_tool

db == <<rev, token>>
vars == <<rev, token, current, gens, fence, epoch, credits, conn, sock, unreg, mcp, patch, rvk, call>>

-----------------------------------------------------------------------------
(***************************************************************************)
(* Locks, handles and the sections several operations share.               *)
(***************************************************************************)
\* Bound: connections, registrations, PATCHes, revocations and calls begun so far.
Started ==
  Cardinality({s \in Sock : sock[s].pc # "idle"}) + Cardinality({p \in Patch : patch[p].pc # "idle"})
  + Cardinality({v \in Revocation : rvk[v].pc # "idle"})
  + Cardinality({c \in Call : call[c].pc # "idle"})
  + Cardinality({r \in Sock \X (1..MaxOps) : r[2] <= mcp[r[1]].n})

\* config_update_lock: a handshake holds it over register, a PATCH to its end.
ConfigLockFree ==
  /\ \A s \in Sock : sock[s].pc \notin {"register", "publish", "retireprev"}
  /\ \A p \in Patch : patch[p].pc \in {"idle", "wait", "done"}

\* _register_lock, held while a publisher waits for the send lock.
RegisterLockFree ==
  /\ \A s \in Sock : sock[s].pc # "publish" /\ unreg[s] # "locked"
  /\ \A v \in Revocation : rvk[v].pc # "locked"

\* _Connection.send_lock, held over a transport send.
SendLockFree(s) ==
  /\ sock[s].pc \notin {"hello_send", "ack_send"}
  /\ mcp[s].pc # "send"
  /\ \A p \in Patch : patch[p].conn = s => patch[p].pc \notin {"update_send", "ack_send"}
  /\ \A c \in Call : call[c].conn = s => call[c].pc # "sending"

\* _publication_open
_publication_open == RegisterLockFree /\ fence = 0

\* A handle is compared by its generation, not by the connection object.
SameHandle(s) == current # NoSock /\ conn[current].gen = conn[s].gen

Routable == current # NoSock /\ conn[current].ready
Idle == Routable /\ conn[current].inflight = "none"

\* Mutant: the fence is left up.
Released_Never(g) == fence

\* _release_publication_fence_locked with an expected handle.
Released(g) == IF fence = g THEN 0 ELSE fence

NewConnection ==
  [gen |-> 0, life |-> "new", ready |-> FALSE, rev |-> 0, target |-> 0, cfg |-> 0, mcp |-> 0,
   bind |-> 0, inflight |-> "none", apply |-> "none", reg |-> FALSE, pend |-> {}, tombs |-> {}]

\* _schedule_unregister: a new unregister of the same handle runs its first section again.
_schedule_unregister(s) == unreg' = [unreg EXCEPT ![s] = IF @ = "locked" THEN @ ELSE "want"]

\* _retire_ambiguous_config on a connection object.
Ambiguous(k, popped) ==
  [k EXCEPT !.inflight = "none", !.reg = FALSE, !.life = IF popped THEN "retiring" ELSE @]

_retire_ambiguous_config(s) ==
  /\ conn' = [conn EXCEPT ![s] = Ambiguous(@, current = s)]
  /\ fence' = Released(conn[s].gen)
  /\ current' = IF current = s THEN NoSock ELSE current

\* _retire: fails what waits on the connection and clears it.
Retired(k) ==
  [k EXCEPT !.life = "gone", !.inflight = "none", !.reg = FALSE, !.apply = "none", !.bind = 0,
            !.pend = {}, !.tombs = {}]

_retire(s) ==
  /\ conn[s].life = "retiring"
  /\ conn' = [conn EXCEPT ![s] = Retired(@)]
  /\ credits' = credits - Cardinality(conn[s].pend)
  /\ call' = [c \in Call |->
       IF c \in conn[s].pend /\ call[c].pc # "done"
       THEN [call[c] EXCEPT !.fut = IF call[c].wire = "no" THEN "unavailable" ELSE "unknown"]
       ELSE call[c]]
  /\ UNCHANGED <<db, current, gens, fence, epoch, sock, unreg, mcp, patch, rvk>>

-----------------------------------------------------------------------------
(***************************************************************************)
(* serve_device_socket.                                                    *)
(***************************************************************************)
SockTo(s, pc) == sock' = [sock EXCEPT ![s].pc = pc]
Stopped == {"ending", "closed"}

\* The token is looked up once before hello.
authenticate(s) ==
  /\ sock[s].pc = "idle" /\ token # 0 /\ Started < MaxOps
  /\ sock' = [sock EXCEPT ![s].pc = "authed", ![s].token = token]
  /\ UNCHANGED <<db, current, gens, fence, epoch, credits, conn, unreg, mcp, patch, rvk, call>>

registration_epoch(s) ==
  /\ sock[s].pc = "authed"
  /\ sock' = [sock EXCEPT ![s].pc = "hello", ![s].epoch = epoch]
  /\ UNCHANGED <<db, current, gens, fence, epoch, credits, conn, unreg, mcp, patch, rvk, call>>

\* Under config_update_lock the row is read again.
find_by_token(s) ==
  /\ sock[s].pc = "hello" /\ ConfigLockFree
  /\ IF token = sock[s].token
     THEN conn' = [conn EXCEPT ![s] = [@ EXCEPT !.rev = rev, !.target = rev]] /\ SockTo(s, "register")
     ELSE SockTo(s, "closed") /\ UNCHANGED conn
  /\ UNCHANGED <<db, current, gens, fence, epoch, credits, unreg, mcp, patch, rvk, call>>

register(s) ==
  /\ sock[s].pc = "register" /\ _publication_open
  /\ sock' = [sock EXCEPT ![s].pc = "publish", ![s].prev = current]
  /\ UNCHANGED <<db, current, gens, fence, epoch, credits, conn, unreg, mcp, patch, rvk, call>>

\* Mutant: a handshake does not look at the revocation epoch.
EpochCurrent_Ignored(s) == TRUE

\* No revocation since the handshake began.
EpochCurrent(s) == epoch = sock[s].epoch

\* The connection seen by register may be gone by now; the one replaced is read again.
_publish_registration(s) ==
  /\ sock[s].pc = "publish"
  /\ sock[s].prev # NoSock => SendLockFree(sock[s].prev)
  /\ IF ~EpochCurrent(s)
     THEN SockTo(s, "closed") /\ UNCHANGED <<gens, conn, current, fence>>
     ELSE /\ gens' = gens + 1 /\ fence' = gens + 1 /\ current' = s
          /\ conn' = [t \in Sock |->
               IF t = s THEN [conn[s] EXCEPT !.gen = gens + 1, !.life = "live"]
               ELSE IF t = current THEN [conn[t] EXCEPT !.life = "retiring"] ELSE conn[t]]
          /\ sock' = [sock EXCEPT ![s].pc = "retireprev", ![s].prev = current]
  /\ UNCHANGED <<db, epoch, credits, unreg, mcp, patch, rvk, call>>

\* register returns, and the config lock is free, once the replaced connection is retired.
register_returns(s) ==
  /\ sock[s].pc = "retireprev"
  /\ sock[s].prev # NoSock => conn[sock[s].prev].life = "gone"
  /\ SockTo(s, "activate")
  /\ UNCHANGED <<db, current, gens, fence, epoch, credits, conn, unreg, mcp, patch, rvk, call>>

activate(s) ==
  /\ sock[s].pc = "activate"
  /\ IF current = s
     THEN conn' = [conn EXCEPT ![s].apply = "pending"] /\ SockTo(s, "hello_wait")
     ELSE SockTo(s, "ending") /\ UNCHANGED conn
  /\ UNCHANGED <<db, current, gens, fence, epoch, credits, unreg, mcp, patch, rvk, call>>

\* hello_ack and config_applied_ack are sent under the send lock, while still current.
activate_send(s, from, need, mark, to) ==
  /\ sock[s].pc = from /\ SendLockFree(s)
  /\ IF current = s /\ conn[s].apply = need
     THEN conn' = [conn EXCEPT ![s].apply = mark] /\ SockTo(s, to)
     ELSE SockTo(s, "ending") /\ UNCHANGED conn
  /\ UNCHANGED <<db, current, gens, fence, epoch, credits, unreg, mcp, patch, rvk, call>>

send_hello_ack(s) == activate_send(s, "hello_wait", "pending", "issued", "hello_send")

hello_ack_sent(s) ==
  /\ sock[s].pc = "hello_send"
  /\ SockTo(s, "applying")
  /\ UNCHANGED <<db, current, gens, fence, epoch, credits, conn, unreg, mcp, patch, rvk, call>>

send_applied_ack(s) ==
  conn[s].apply = "applied" /\ activate_send(s, "applying", "applied", "acking", "ack_send")

\* The generation becomes routable, and only now is its fence released.
activated(s) ==
  /\ sock[s].pc = "ack_send"
  /\ IF current = s /\ conn[s].apply = "acking"
     THEN /\ conn' = [conn EXCEPT ![s] = [@ EXCEPT !.apply = "none", !.ready = TRUE]]
          /\ fence' = Released(conn[s].gen)
          /\ SockTo(s, "serving")
     ELSE SockTo(s, "ending") /\ UNCHANGED <<conn, fence>>
  /\ UNCHANGED <<db, current, gens, epoch, credits, unreg, mcp, patch, rvk, call>>

\* A send fails, config_applied is late, _retire failed the future, or the peer went away.
activate_fails(s) ==
  /\ sock[s].pc \in {"hello_wait", "hello_send", "applying", "ack_send"}
  /\ _retire_ambiguous_config(s)
  /\ SockTo(s, "ending")
  /\ UNCHANGED <<db, gens, epoch, credits, unreg, mcp, patch, rvk, call>>

\* resolve_config_applied: the answer to hello_ack or to config_update.
resolve_config_applied(s) ==
  /\ sock[s].pc \notin Stopped
  /\ current = s /\ conn[s].apply = "issued"
  /\ conn' = [conn EXCEPT ![s].apply = "applied"]
  /\ UNCHANGED <<db, current, gens, fence, epoch, credits, sock, unreg, mcp, patch, rvk, call>>

\* The peer closes, misses its pongs, or breaks the protocol; a running registration is cancelled.
disconnect(s) ==
  /\ sock[s].pc \in {"authed", "hello", "serving"}
  /\ SockTo(s, IF sock[s].pc = "serving" THEN "ending" ELSE "closed")
  /\ mcp' = [mcp EXCEPT ![s].pc = "stopped"]
  /\ IF mcp[s].pc \in {"publish", "queued", "send"}
     THEN _retire_ambiguous_config(s) ELSE UNCHANGED <<conn, fence, current>>
  /\ UNCHANGED <<db, gens, epoch, credits, unreg, patch, rvk, call>>

\* The finally clause of serve_device_socket.
socket_ends(s) ==
  /\ sock[s].pc = "ending"
  /\ SockTo(s, "closed")
  /\ _schedule_unregister(s)
  /\ UNCHANGED <<db, current, gens, fence, epoch, credits, conn, mcp, patch, rvk, call>>

-----------------------------------------------------------------------------
(***************************************************************************)
(* unregister.                                                             *)
(***************************************************************************)
\* A generation that never became ready gives up its fence first.
unregister(s) ==
  /\ unreg[s] = "want"
  /\ unreg' = [unreg EXCEPT ![s] = "open"]
  /\ fence' = IF SameHandle(s) /\ ~conn[current].ready THEN Released(conn[s].gen) ELSE fence
  /\ UNCHANGED <<db, current, gens, epoch, credits, conn, sock, mcp, patch, rvk, call>>

unregister_locks(s) ==
  /\ unreg[s] = "open" /\ _publication_open
  /\ unreg' = [unreg EXCEPT ![s] = IF SameHandle(s) THEN "locked" ELSE "done"]
  /\ UNCHANGED <<db, current, gens, fence, epoch, credits, conn, sock, mcp, patch, rvk, call>>

unregister_pops(s) ==
  /\ unreg[s] = "locked" /\ SendLockFree(s)
  /\ unreg' = [unreg EXCEPT ![s] = "done"]
  /\ IF SameHandle(s)
     THEN conn' = [conn EXCEPT ![current].life = "retiring"] /\ current' = NoSock
     ELSE UNCHANGED <<conn, current>>
  /\ UNCHANGED <<db, gens, fence, epoch, credits, sock, mcp, patch, rvk, call>>

-----------------------------------------------------------------------------
(***************************************************************************)
(* Token rotation and Device deletion.                                     *)
(***************************************************************************)
\* The row is committed first: a new token, or no row at all.
regenerate_token(v, deleted) ==
  /\ rvk[v].pc = "idle" /\ token # 0 /\ Started < MaxOps
  /\ token' = IF deleted THEN 0 ELSE token + 1
  /\ rvk' = [rvk EXCEPT ![v] = [@ EXCEPT !.pc = "revoke", !.old = token, !.deleted = deleted]]
  /\ UNCHANGED <<rev, current, gens, fence, epoch, credits, conn, sock, unreg, mcp, patch, call>>

revoke(v) ==
  /\ rvk[v].pc = "revoke" /\ _publication_open
  /\ IF current = NoSock
     THEN epoch' = epoch + 1 /\ rvk' = [rvk EXCEPT ![v].pc = "retire"]
     ELSE rvk' = [rvk EXCEPT ![v].pc = "locked", ![v].conn = current] /\ UNCHANGED epoch
  /\ UNCHANGED <<db, current, gens, fence, credits, conn, sock, unreg, mcp, patch, call>>

revoke_pops(v) ==
  /\ rvk[v].pc = "locked" /\ SendLockFree(rvk[v].conn)
  /\ epoch' = epoch + 1
  /\ rvk' = [rvk EXCEPT ![v].pc = "retire"]
  /\ IF current = NoSock THEN UNCHANGED <<conn, current>>
     ELSE conn' = [conn EXCEPT ![current].life = "retiring"] /\ current' = NoSock
  /\ UNCHANGED <<db, gens, fence, credits, sock, unreg, mcp, patch, call>>

\* _wait_for_retirements, then remove_device forgets the generation counter.
revoked(v) ==
  /\ rvk[v].pc = "retire"
  /\ \A s \in Sock : conn[s].life # "retiring"
  /\ rvk' = [rvk EXCEPT ![v].pc = "done"]
  /\ gens' = IF rvk[v].deleted THEN 0 ELSE gens
  /\ UNCHANGED <<db, current, fence, epoch, credits, conn, sock, unreg, mcp, patch, call>>

\* A revocation epoch is kept for 300 s, far longer than a registration that has
\* re-read its token can wait for the locks: none is under way when one expires.
_revocation_epoch_expires ==
  /\ "epoch_expiry" \in Races /\ epoch > 0
  /\ \A s \in Sock : sock[s].pc \notin {"register", "publish"}
  /\ epoch' = 0
  /\ UNCHANGED <<db, current, gens, fence, credits, conn, sock, unreg, mcp, patch, rvk, call>>

-----------------------------------------------------------------------------
(***************************************************************************)
(* MCP registration.                                                       *)
(***************************************************************************)
CanRegister(s) == current = s /\ (conn[s].ready \/ conn[s].apply = "acking")

\* The revision the Device has installed when it sends register_mcp.
Installed(s) == IF conn[s].apply = "acking" THEN conn[s].target ELSE conn[s].rev

\* The runner's task ends with False: the socket's frame loop stops.
registration_stops(s) ==
  /\ mcp' = [mcp EXCEPT ![s].pc = "stopped"]
  /\ SockTo(s, IF sock[s].pc = "serving" THEN "ending" ELSE sock[s].pc)

register_mcp(s) ==
  /\ mcp[s].pc = "idle" /\ Started < MaxOps
  /\ sock[s].pc \in {"ack_send", "serving"} /\ CanRegister(s)
  /\ mcp' = [mcp EXCEPT ![s] = [@ EXCEPT !.pc = "validate", !.rev = Installed(s),
                                           !.n = mcp[s].n + 1]]
  /\ UNCHANGED <<db, current, gens, fence, epoch, credits, conn, sock, unreg, patch, rvk, call>>

\* The candidate is checked against the row: authority gone, stale, or a binding.
validate_mcp_registration(s) ==
  /\ mcp[s].pc = "validate"
  /\ IF token # sock[s].token THEN registration_stops(s)
     ELSE /\ mcp' = [mcp EXCEPT ![s] = [@ EXCEPT !.pc = "publish", !.ok = (mcp[s].rev = rev)]]
          /\ UNCHANGED sock
  /\ UNCHANGED <<db, current, gens, fence, epoch, credits, conn, unreg, patch, rvk, call>>

\* Waits while a configuration change is in flight.
publish_mcp_registration(s) ==
  /\ mcp[s].pc = "publish"
  /\ IF CanRegister(s)
     THEN /\ conn[s].inflight = "none"
          /\ conn' = [conn EXCEPT ![s].reg = TRUE]
          /\ mcp' = [mcp EXCEPT ![s].pc = "queued"] /\ UNCHANGED sock
     ELSE registration_stops(s) /\ UNCHANGED conn
  /\ UNCHANGED <<db, current, gens, fence, epoch, credits, unreg, patch, rvk, call>>

send_register_ack(s) ==
  /\ mcp[s].pc = "queued" /\ SendLockFree(s)
  /\ IF current = s /\ conn[s].ready /\ conn[s].inflight = "none" /\ conn[s].reg
     THEN /\ mcp' = [mcp EXCEPT ![s] = [@ EXCEPT !.pc = "send",
                                                 !.ok = mcp[s].ok /\ conn[s].rev = mcp[s].rev]]
          /\ UNCHANGED <<sock, conn>>
     ELSE registration_stops(s) /\ conn' = [conn EXCEPT ![s].reg = FALSE]
  /\ UNCHANGED <<db, current, gens, fence, epoch, credits, unreg, patch, rvk, call>>

\* The bindings are published only after the acknowledgement is out.
mcp_registered(s) ==
  /\ mcp[s].pc = "send"
  /\ IF current = s /\ conn[s].ready /\ conn[s].reg
     THEN /\ conn' = [conn EXCEPT ![s] = [@ EXCEPT !.bind = IF mcp[s].ok THEN mcp[s].rev ELSE 0,
                                                   !.mcp = conn[s].mcp + 1, !.reg = FALSE]]
          /\ mcp' = [mcp EXCEPT ![s] = [@ EXCEPT !.pc = "idle", !.rev = 0, !.ok = FALSE]]
          /\ UNCHANGED sock
     ELSE registration_stops(s) /\ conn' = [conn EXCEPT ![s].reg = FALSE]
  /\ UNCHANGED <<db, current, gens, fence, epoch, credits, unreg, patch, rvk, call>>

\* The registration times out, or its send fails.
registration_fails(s) ==
  /\ mcp[s].pc \in {"publish", "queued", "send"}
  /\ _retire_ambiguous_config(s)
  /\ registration_stops(s)
  /\ UNCHANGED <<db, gens, epoch, credits, unreg, patch, rvk, call>>

-----------------------------------------------------------------------------
(***************************************************************************)
(* PATCH of the Device configuration.                                      *)
(***************************************************************************)
\* The locals of a coroutine die with it.
NewPatch == [pc |-> "idle", base |-> 0, gen |-> 0, fenced |-> FALSE, conn |-> NoSock]
PatchTo(p, pc) ==
  patch' = [patch EXCEPT ![p] = [(IF pc = "done" THEN NewPatch ELSE @) EXCEPT !.pc = pc]]

\* The client sends the revision it has read.
patch_device(p) ==
  /\ patch[p].pc = "idle" /\ token # 0 /\ Started < MaxOps
  /\ patch' = [patch EXCEPT ![p].pc = "wait", ![p].base = rev]
  /\ UNCHANGED <<db, current, gens, fence, epoch, credits, conn, sock, unreg, mcp, rvk, call>>

\* A change of MCP servers is first validated by the Device, on one exact handle.
_build_validate_and_commit(p) ==
  /\ patch[p].pc = "wait" /\ ConfigLockFree
  /\ IF token = 0 \/ rev # patch[p].base
     THEN PatchTo(p, "done")
     ELSE \/ PatchTo(p, "begin")
          \/ Idle /\ patch' = [patch EXCEPT ![p].pc = "validate", ![p].gen = conn[current].gen]
          \/ ~Idle /\ PatchTo(p, "done")
  /\ UNCHANGED <<db, current, gens, fence, epoch, credits, conn, sock, unreg, mcp, rvk, call>>

\* The exchange itself changes neither the row nor the routes; it may also fail.
validate_config(p) ==
  /\ patch[p].pc = "validate"
  /\ PatchTo(p, "begin") \/ PatchTo(p, "done")
  /\ UNCHANGED <<db, current, gens, fence, epoch, credits, conn, sock, unreg, mcp, rvk, call>>

\* The connection a PATCH may change: any ready one, or the one that validated.
Target(p) == Routable /\ patch[p].gen \in {0, conn[current].gen}

\* begin_config_update gave no fence: fatal after a validation, harmless otherwise.
Unfenced(p) == PatchTo(p, IF patch[p].gen = 0 THEN "commit" ELSE "done")

\* The current generation is fenced before the commit, once no registration is in flight.
begin_config_update(p) ==
  /\ patch[p].pc = "begin" /\ _publication_open
  /\ IF ~Target(p) THEN Unfenced(p) /\ UNCHANGED <<conn, fence>>
     ELSE IF conn[current].reg
     THEN /\ patch' = [patch EXCEPT ![p].pc = "mcp_wait", ![p].conn = current]
          /\ UNCHANGED <<conn, fence>>
     ELSE /\ conn[current].inflight = "none"
          /\ conn' = [conn EXCEPT ![current].inflight = "precommit"]
          /\ fence' = conn[current].gen
          /\ patch' = [patch EXCEPT ![p].pc = "commit", ![p].fenced = TRUE]
  /\ UNCHANGED <<db, current, gens, epoch, credits, sock, unreg, mcp, rvk, call>>

registration_done(p) ==
  /\ patch[p].pc = "mcp_wait" /\ ~conn[patch[p].conn].reg
  /\ PatchTo(p, "begin")
  /\ UNCHANGED <<db, current, gens, fence, epoch, credits, conn, sock, unreg, mcp, rvk, call>>

\* A registration that does not end in time costs the connection.  The timer may
\* also fire when the registration has just ended: then nothing is done.
begin_config_update_times_out(p) ==
  LET s == patch[p].conn
  IN /\ patch[p].pc = "mcp_wait"
     /\ \/ /\ current = s /\ conn[s].reg
           /\ conn' = [conn EXCEPT ![s].ready = FALSE]
           /\ _schedule_unregister(s)
        \/ /\ "late_timeout" \in Races /\ ~conn[s].reg
           /\ UNCHANGED <<conn, unreg>>
     /\ Unfenced(p)
     /\ UNCHANGED <<db, current, gens, fence, epoch, credits, sock, mcp, rvk, call>>

commit_config_candidate(p) ==
  /\ patch[p].pc = "commit" /\ token # 0
  /\ rev' = rev + 1
  /\ PatchTo(p, "push")
  /\ UNCHANGED <<token, current, gens, fence, epoch, credits, conn, sock, unreg, mcp, rvk, call>>

\* The commit's outcome is not known.
commit_unknown(p) ==
  /\ patch[p].pc = "commit" /\ token # 0
  /\ rev' \in {rev, rev + 1}
  /\ PatchTo(p, "retire")
  /\ UNCHANGED <<token, current, gens, fence, epoch, credits, conn, sock, unreg, mcp, rvk, call>>

\* No row, no change, a name conflict or the transition's deadline: rolled back.
abort_config_update(p) ==
  /\ patch[p].pc \in {"begin", "mcp_wait", "commit"}
  /\ IF patch[p].fenced
     THEN /\ fence' = 0
          /\ IF current # NoSock /\ conn[current].inflight = "precommit"
             THEN conn' = [conn EXCEPT ![current].inflight = "none"] ELSE UNCHANGED conn
     ELSE UNCHANGED <<conn, fence>>
  /\ PatchTo(p, "done")
  /\ UNCHANGED <<db, current, gens, epoch, credits, sock, unreg, mcp, rvk, call>>

\* Also the way out when the deadline passes between the commit and the push.
retire_config_update(p) ==
  /\ patch[p].pc \in {"retire", "push"}
  /\ IF current = NoSock THEN fence' = 0 /\ UNCHANGED <<conn, current>>
     ELSE /\ conn' = [conn EXCEPT ![current] = Ambiguous(@, TRUE)]
          /\ fence' = 0 /\ current' = NoSock
  /\ PatchTo(p, "done")
  /\ UNCHANGED <<db, gens, epoch, credits, sock, unreg, mcp, rvk, call>>

\* push_config takes the connection over from the fence in one section.
Taken(k) ==
  [k EXCEPT !.apply = "pending", !.target = rev, !.inflight = IF @ = "none" THEN "named" ELSE @]

push_config(p) ==
  /\ patch[p].pc = "push"
  /\ IF Target(p)
     THEN /\ conn[current].apply = "none"
          /\ conn' = [conn EXCEPT ![current] = Taken(@)]
          /\ fence' = Released(conn[current].gen)
          /\ patch' = [patch EXCEPT ![p].pc = "update_wait", ![p].conn = current]
     ELSE /\ fence' = IF patch[p].gen = 0 THEN 0 ELSE Released(patch[p].gen)
          /\ PatchTo(p, "done") /\ UNCHANGED conn
  /\ UNCHANGED <<db, current, gens, epoch, credits, sock, unreg, mcp, rvk, call>>

\* config_update and its acknowledgement go out under the send lock, while still current.
push_send(p, from, need, mark, to) ==
  LET s == patch[p].conn
  IN /\ patch[p].pc = from /\ SendLockFree(s)
     /\ IF current = s /\ conn[s].apply = need
        THEN conn' = [conn EXCEPT ![s].apply = mark] /\ PatchTo(p, to)
        ELSE PatchTo(p, "done") /\ UNCHANGED conn
     /\ UNCHANGED <<db, current, gens, fence, epoch, credits, sock, unreg, mcp, rvk, call>>

send_config_update(p) == push_send(p, "update_wait", "pending", "issued", "update_send")

config_update_sent(p) ==
  /\ patch[p].pc = "update_send"
  /\ PatchTo(p, "applying")
  /\ UNCHANGED <<db, current, gens, fence, epoch, credits, conn, sock, unreg, mcp, rvk, call>>

send_update_ack(p) ==
  /\ patch[p].pc = "applying" /\ conn[patch[p].conn].apply = "applied"
  /\ push_send(p, "applying", "applied", "acking", "ack_send")

\* The new revision is installed, and the epochs move on.
Updated(k) ==
  [k EXCEPT !.rev = k.target, !.cfg = @ + 1, !.mcp = @ + 1, !.bind = 0, !.apply = "none",
            !.inflight = "none"]

push_done(p) ==
  LET s == patch[p].conn
  IN /\ patch[p].pc = "ack_send"
     /\ IF current = s /\ conn[s].apply = "acking"
        THEN conn' = [conn EXCEPT ![s] = Updated(@)]
        ELSE UNCHANGED conn
     /\ PatchTo(p, "done")
     /\ UNCHANGED <<db, current, gens, fence, epoch, credits, sock, unreg, mcp, rvk, call>>

\* A send fails, config_applied is late, _retire failed the future, or it is cancelled.
push_fails(p) ==
  /\ patch[p].pc \in {"update_wait", "update_send", "applying", "ack_send"}
  /\ _retire_ambiguous_config(patch[p].conn)
  /\ PatchTo(p, "done")
  /\ UNCHANGED <<db, gens, epoch, credits, sock, unreg, mcp, rvk, call>>

-----------------------------------------------------------------------------
(***************************************************************************)
(* Tool calls.                                                             *)
(***************************************************************************)
\* What a caller holds before it dispatches: the Device's name, a route
\* snapshot (a handle and a config epoch), or a frozen MCP route (a revision).
get_route(c, kind) ==
  /\ call[c].pc = "idle" /\ token # 0 /\ Started < MaxOps
  /\ kind = "route" => Idle
  /\ call' = [call EXCEPT ![c] = [@ EXCEPT
       !.pc = "held", !.kind = kind,
       !.gen = IF kind = "route" THEN conn[current].gen ELSE 0,
       !.cfg = CASE kind = "route" -> conn[current].cfg [] kind = "mcp" -> rev [] OTHER -> 0]]
  /\ UNCHANGED <<db, current, gens, fence, epoch, credits, conn, sock, unreg, mcp, patch, rvk>>

Ends(c, out) ==
  [call[c] EXCEPT !.pc = "done", !.out = out, !.kind = "name", !.gen = 0, !.cfg = 0, !.mcp = 0,
                  !.fut = "none"]

\* The route, the name and the binding must hold now.
Accepts(c) ==
  /\ Idle
  /\ call[c].kind = "route" => /\ conn[current].gen = call[c].gen
                               /\ conn[current].cfg = call[c].cfg
  /\ call[c].kind = "mcp" => conn[current].bind = call[c].cfg

_dispatch_tool(c) ==
  /\ call[c].pc = "held"
  /\ IF ~Accepts(c)
     THEN call' = [call EXCEPT ![c] = Ends(c, "unavailable")] /\ UNCHANGED <<conn, credits>>
     ELSE IF credits >= MaxPending
     THEN call' = [call EXCEPT ![c] = Ends(c, "busy")] /\ UNCHANGED <<conn, credits>>
     ELSE /\ credits' = credits + 1
          /\ conn' = [conn EXCEPT ![current].pend = @ \cup {c}]
          /\ call' = [call EXCEPT ![c] = [@ EXCEPT !.pc = "queued", !.conn = current,
                                          !.mcp = conn[current].mcp]]
  /\ UNCHANGED <<db, current, gens, fence, epoch, sock, unreg, mcp, patch, rvk>>

\* _remove_pending looks the call up by its handle, on the current connection only.
Held(c) == SameHandle(call[c].conn) /\ c \in conn[current].pend
Full(c) == Held(c) /\ call[c].wire # "no" /\ Cardinality(conn[current].tombs) >= MaxTombs

\* Mutant: an expired call is not remembered.
_remove_pending_Forgets(c) ==
  /\ IF Held(c) THEN credits' = credits - 1 /\ conn' = [conn EXCEPT ![current].pend = @ \ {c}]
     ELSE UNCHANGED <<credits, conn>>
  /\ UNCHANGED unreg

\* A call leaves the pending ones, and is remembered if it was issued and there is room.
Expired(k, c) ==
  [k EXCEPT !.pend = @ \ {c}, !.ready = @ /\ ~Full(c),
            !.tombs = IF call[c].wire = "no" \/ Full(c) THEN @ ELSE @ \cup {c}]

_remove_pending(c) ==
  /\ IF Held(c)
     THEN /\ credits' = credits - 1
          /\ conn' = [conn EXCEPT ![current] = Expired(@, c)]
     ELSE UNCHANGED <<credits, conn>>
  /\ IF Full(c) THEN _schedule_unregister(current) ELSE UNCHANGED unreg

\* Mutant: a configuration change in flight does not stop a send.
_can_send_locked_DuringUpdate(c) ==
  LET s == call[c].conn
  IN /\ current = s /\ conn[s].ready
     /\ call[c].kind = "route" => conn[s].cfg = call[c].cfg
     /\ call[c].kind = "mcp" => conn[s].mcp = call[c].mcp

\* _can_send_locked, again, with the send lock held.
_can_send_locked(c) ==
  LET s == call[c].conn
  IN /\ current = s /\ conn[s].ready /\ conn[s].inflight = "none"
     /\ call[c].kind = "route" => conn[s].cfg = call[c].cfg
     /\ call[c].kind = "mcp" => conn[s].mcp = call[c].mcp

\* send_text: from _mark_call_issued on the call may reach the Device.
_mark_call_issued(c) ==
  /\ call[c].pc = "queued" /\ SendLockFree(call[c].conn)
  /\ _can_send_locked(c) /\ c \in conn[call[c].conn].pend
  /\ call' = [call EXCEPT ![c] = [@ EXCEPT !.pc = "sending", !.wire = "sent"]]
  /\ UNCHANGED <<db, current, gens, fence, epoch, credits, conn, sock, unreg, mcp, patch, rvk>>

call_not_sent(c) ==
  /\ call[c].pc = "queued" /\ SendLockFree(call[c].conn)
  /\ ~(_can_send_locked(c) /\ c \in conn[call[c].conn].pend)
  /\ _remove_pending(c)
  /\ call' = [call EXCEPT ![c] = Ends(c, "unavailable")]
  /\ UNCHANGED <<db, current, gens, fence, epoch, sock, mcp, patch, rvk>>

call_sent(c) ==
  /\ call[c].pc = "sending"
  /\ call' = [call EXCEPT ![c].pc = "waiting"]
  /\ UNCHANGED <<db, current, gens, fence, epoch, credits, conn, sock, unreg, mcp, patch, rvk>>

\* A failed send unregisters the connection before it is reported.
send_fails(c) ==
  /\ call[c].pc = "sending"
  /\ _schedule_unregister(call[c].conn)
  /\ call' = [call EXCEPT ![c].pc = "failing"]
  /\ UNCHANGED <<db, current, gens, fence, epoch, credits, conn, sock, mcp, patch, rvk>>

send_failed(c) ==
  /\ call[c].pc = "failing" /\ unreg[call[c].conn] = "done"
  /\ call' = [call EXCEPT ![c] = Ends(c, "unknown")]
  /\ UNCHANGED <<db, current, gens, fence, epoch, credits, conn, sock, unreg, mcp, patch, rvk>>

\* The caller's turn is cancelled.
call_cancelled(c) ==
  /\ call[c].pc \in {"queued", "sending", "failing", "waiting"}
  /\ IF call[c].pc = "failing" THEN UNCHANGED <<credits, conn, unreg>> ELSE _remove_pending(c)
  /\ call' = [call EXCEPT ![c] = Ends(c, "cancelled")]
  /\ UNCHANGED <<db, current, gens, fence, epoch, sock, mcp, patch, rvk>>

call_times_out(c) ==
  /\ call[c].pc = "waiting" /\ call[c].fut = "none"
  /\ _remove_pending(c)
  /\ call' = [call EXCEPT ![c] = Ends(c, "unknown")]
  /\ UNCHANGED <<db, current, gens, fence, epoch, sock, mcp, patch, rvk>>

call_returns(c) ==
  /\ call[c].pc = "waiting" /\ call[c].fut # "none"
  /\ call' = [call EXCEPT ![c] = Ends(c, call[c].fut)]
  /\ UNCHANGED <<db, current, gens, fence, epoch, credits, conn, sock, unreg, mcp, patch, rvk>>

\* The Device answers a call it received: a pending one, one that expired, or
\* one this connection does not know, which ends the connection.
resolve_tool_result(c) ==
  LET s == call[c].conn
  IN /\ call[c].wire = "sent" /\ sock[s].pc = "serving"
     /\ IF current = s /\ conn[s].ready /\ c \in conn[s].pend
        THEN /\ conn' = [conn EXCEPT ![s].pend = @ \ {c}] /\ credits' = credits - 1
             /\ call' = [call EXCEPT ![c] = [@ EXCEPT !.wire = "answered", !.fut = "result"]]
             /\ UNCHANGED sock
        ELSE IF current = s /\ conn[s].ready /\ c \in conn[s].tombs
        THEN /\ conn' = [conn EXCEPT ![s].tombs = @ \ {c}] /\ UNCHANGED <<credits, sock>>
             /\ call' = [call EXCEPT ![c].wire = "answered"]
        ELSE /\ SockTo(s, "ending") /\ UNCHANGED <<conn, credits>>
             /\ call' = [call EXCEPT ![c].wire = "answered"]
     /\ UNCHANGED <<db, current, gens, fence, epoch, unreg, mcp, patch, rvk>>

-----------------------------------------------------------------------------
(***************************************************************************)
(* The specification.                                                      *)
(***************************************************************************)
Init ==
  /\ rev = 1 /\ token = 1 /\ current = NoSock /\ gens = 0 /\ fence = 0 /\ epoch = 0 /\ credits = 0
  /\ conn = [s \in Sock |-> NewConnection]
  /\ sock = [s \in Sock |-> [pc |-> "idle", token |-> 0, epoch |-> 0, prev |-> NoSock]]
  /\ unreg = [s \in Sock |-> "none"]
  /\ mcp = [s \in Sock |-> [pc |-> "idle", rev |-> 0, ok |-> FALSE, n |-> 0]]
  /\ patch = [p \in Patch |-> NewPatch]
  /\ rvk = [v \in Revocation |-> [pc |-> "idle", old |-> 0, deleted |-> FALSE, conn |-> NoSock]]
  /\ call = [c \in Call |-> [pc |-> "idle", kind |-> "name", gen |-> 0, cfg |-> 0, mcp |-> 0,
                              conn |-> NoSock, wire |-> "no", fut |-> "none", out |-> "none"]]

Handshake(s) ==
  \/ authenticate(s) \/ registration_epoch(s) \/ find_by_token(s) \/ register(s)
  \/ _publish_registration(s) \/ register_returns(s) \/ activate(s) \/ send_hello_ack(s)
  \/ hello_ack_sent(s) \/ send_applied_ack(s) \/ activated(s) \/ activate_fails(s)
  \/ resolve_config_applied(s) \/ disconnect(s) \/ socket_ends(s)

Unregister(s) == unregister(s) \/ unregister_locks(s) \/ unregister_pops(s) \/ _retire(s)

Registration(s) ==
  \/ register_mcp(s) \/ validate_mcp_registration(s) \/ publish_mcp_registration(s)
  \/ send_register_ack(s) \/ mcp_registered(s) \/ registration_fails(s)

Update(p) ==
  \/ patch_device(p) \/ _build_validate_and_commit(p) \/ validate_config(p)
  \/ begin_config_update(p) \/ registration_done(p) \/ begin_config_update_times_out(p)
  \/ commit_config_candidate(p) \/ commit_unknown(p) \/ abort_config_update(p)
  \/ retire_config_update(p) \/ push_config(p) \/ send_config_update(p) \/ config_update_sent(p)
  \/ send_update_ack(p) \/ push_done(p) \/ push_fails(p)

Revoke(v) ==
  \/ \E deleted \in BOOLEAN : regenerate_token(v, deleted)
  \/ revoke(v) \/ revoke_pops(v) \/ revoked(v)

ToolCall(c) ==
  \/ \E kind \in {"name", "route", "mcp"} : get_route(c, kind)
  \/ _dispatch_tool(c) \/ _mark_call_issued(c) \/ call_not_sent(c) \/ call_sent(c)
  \/ send_fails(c) \/ send_failed(c) \/ call_cancelled(c) \/ call_times_out(c)
  \/ call_returns(c) \/ resolve_tool_result(c)

Next ==
  \/ \E s \in Sock : Handshake(s) \/ Unregister(s) \/ Registration(s)
  \/ \E p \in Patch : Update(p)
  \/ \E v \in Revocation : Revoke(v)
  \/ \E c \in Call : ToolCall(c)
  \/ _revocation_epoch_expires

Spec == Init /\ [][Next]_vars

\* A coroutine that can run runs: one weak fairness condition for each.  Its steps
\* include the timeouts that bound its sends and its waits for the peer, never a
\* frame of the peer, a new request or a disconnection.  A lock is taken in order
\* of arrival and each holder lets go of it, so a waiter is not overtaken forever.
socket_runs(s) ==
  \/ registration_epoch(s) \/ find_by_token(s) \/ register(s) \/ _publish_registration(s)
  \/ register_returns(s) \/ activate(s) \/ send_hello_ack(s) \/ hello_ack_sent(s)
  \/ send_applied_ack(s) \/ activated(s) \/ activate_fails(s) \/ socket_ends(s)

registration_runs(s) ==
  \/ validate_mcp_registration(s) \/ publish_mcp_registration(s) \/ send_register_ack(s)
  \/ mcp_registered(s) \/ registration_fails(s)

unregister_runs(s) == unregister(s) \/ unregister_locks(s) \/ unregister_pops(s)

patch_runs(p) == Update(p) /\ patch[p].pc # "idle"

revocation_runs(v) == revoke(v) \/ revoke_pops(v) \/ revoked(v)

call_runs(c) ==
  \/ _dispatch_tool(c) \/ _mark_call_issued(c) \/ call_not_sent(c) \/ call_sent(c)
  \/ send_fails(c) \/ send_failed(c) \/ call_times_out(c) \/ call_returns(c)

Fairness ==
  /\ \A s \in Sock : /\ WF_vars(socket_runs(s)) /\ WF_vars(registration_runs(s))
                     /\ WF_vars(unregister_runs(s)) /\ WF_vars(_retire(s))
  /\ \A p \in Patch : WF_vars(patch_runs(p))
  /\ \A v \in Revocation : WF_vars(revocation_runs(v))
  /\ \A c \in Call : WF_vars(call_runs(c))

FairSpec == Spec /\ Fairness

-----------------------------------------------------------------------------
(***************************************************************************)
(* Properties.                                                             *)
(***************************************************************************)
\* begin_config_update: "Fence new tool calls before the corresponding DB policy
\* commit".  A call is put on the wire only for the revision that is durable at
\* that moment, on the generation the registry routes to; an MCP call only for
\* the bindings of that revision, and a snapshot call only on its generation.
NoStaleIssue ==
  [][\A c \in Call :
       call[c].wire = "no" /\ call'[c].wire = "sent" =>
         LET s == call[c].conn
         IN /\ current = s /\ conn[s].rev = rev
            /\ call[c].kind = "mcp" => conn[s].bind = rev /\ call[c].cfg = rev
            /\ call[c].kind = "route" => conn[s].gen = call[c].gen]_vars

\* resolve_tool_result and the tombstones: as long as a connection is routable, a
\* call that may still be answered on it is known to it, so that a late answer
\* of an expired or cancelled call never ends the connection.
LateAnswersKnown ==
  \A c \in Call : call[c].wire = "sent" /\ call[c].conn = current /\ Routable =>
    c \in conn[current].pend \cup conn[current].tombs

\* DeviceUnavailableError against DeviceOutcomeUnknownError: a call reported as
\* unavailable or busy was never put on the wire, then or later.
UnavailableNeverIssued ==
  \A c \in Call : call[c].out \in {"unavailable", "busy"} => call[c].wire = "no"

\* _reserve_pending_locked and _release_pending_locked: the credits in use are
\* those of the calls some connection object still holds, whatever the order of
\* answers, timeouts, cancellations and retirements, and never exceed the limit.
CreditsConserved ==
  /\ credits = Cardinality({c \in Call : \E s \in Sock : c \in conn[s].pend})
  /\ credits <= MaxPending

\* revoke returns: no connection that was authenticated by the token it replaced
\* is routed to, or will be, although handshakes run concurrently.
RevokedStaysOut ==
  \A v \in Revocation : rvk[v].pc = "done" =>
    current = NoSock \/ sock[current].token # rvk[v].old

\* _publication_fences: a fence is up only while somebody who will take it down
\* is at work, the activation of that generation or the PATCH that raised it.
FenceOwned ==
  fence # 0 =>
    \/ \E s \in Sock : /\ current = s /\ conn[s].gen = fence
                       /\ sock[s].pc \in {"retireprev", "activate", "hello_wait", "hello_send",
                                          "applying", "ack_send"}
    \/ \E p \in Patch : patch[p].fenced /\ patch[p].pc \in {"commit", "push", "retire"}

\* Handles are compared by value and remove_device forgets the counter they come
\* from: an unregister that is late, for a socket long gone, never finds its
\* handle on a newer connection.
UnregisterHitsOwn ==
  \A s \in Sock : unreg[s] \in {"want", "open", "locked"} /\ SameHandle(s) => current = s

\* A connection's books about its calls are true: a call is known as long as it may be
\* answered, holds one credit as long as somebody waits for it, and is called
\* unavailable only if it never went out.
CallsAccounted == LateAnswersKnown /\ UnavailableNeverIssued /\ CreditsConserved

\* What was raised for a connection is taken down by its owner, and only by it: a fence
\* by the activation or the PATCH at work, a connection by its own unregister.
FencesAndHandlesOwned == FenceOwned /\ UnregisterHitsOwn

\* Locks, fences and retirements wait for each other without a cycle: a tool call
\* that was dispatched ends, whatever happens to its connection.
CallsEnd == \A c \in Call : call[c].pc = "held" ~> call[c].pc = "done"

\* A PATCH gets config_update_lock, and ends, under concurrent handshakes.
PatchesEnd == \A p \in Patch : patch[p].pc = "wait" ~> patch[p].pc = "done"

\* A revocation gets past every fence and lock, and ends.
RevocationsEnd == \A v \in Revocation : rvk[v].pc = "revoke" ~> rvk[v].pc = "done"

\* A handshake that holds config_update_lock in register is served or closed.
HandshakesEnd == \A s \in Sock : sock[s].pc = "register" ~> sock[s].pc \in {"serving", "closed"}

\* Locks, fences and retirements wait for each other without a cycle: every call, PATCH,
\* revocation and handshake ends.
RequestsEnd == CallsEnd /\ PatchesEnd /\ RevocationsEnd /\ HandshakesEnd

=============================================================================
