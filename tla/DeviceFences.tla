---------------------------- MODULE DeviceFences ----------------------------
(***************************************************************************)
(* The Device registry for any number of sockets, calls, PATCHes and       *)
(* revocations: the types of its state, what most of its steps leave       *)
(* alone, and its publication fences.  A fence has an owner who takes it   *)
(* down (Fenced), and a call goes out only under the configuration that is *)
(* durable (Durable).                                                      *)
(***************************************************************************)
EXTENDS DeviceRegistry, TLAPS

-----------------------------------------------------------------------------
(***************************************************************************)
(* Types.                                                                  *)
(***************************************************************************)
Sockets == Sock \cup {NoSock}

ConnFields == {"gen", "life", "ready", "rev", "target", "cfg", "mcp", "bind", "inflight", "apply",
               "reg", "pend", "tombs"}
IsConn(k) ==
  /\ DOMAIN k = ConnFields
  /\ k.gen \in Nat /\ k.life \in {"new", "live", "retiring", "gone"} /\ k.ready \in BOOLEAN
  /\ k.rev \in Nat /\ k.target \in Nat /\ k.cfg \in Nat /\ k.mcp \in Nat /\ k.bind \in Nat
  /\ k.inflight \in {"none", "precommit", "named"}
  /\ k.apply \in {"none", "pending", "issued", "applied", "acking"}
  /\ k.reg \in BOOLEAN /\ k.pend \subseteq Call /\ k.tombs \subseteq Call

\* The program points of a socket that has not been routable yet.
Opening == {"idle", "authed", "hello", "register", "publish"}
Activating == {"retireprev", "activate", "hello_wait", "hello_send", "applying", "ack_send"}
Before == Opening \cup Activating
Pcs == Before \cup {"serving", "ending", "closed"}
IsSock(k) ==
  /\ DOMAIN k = {"pc", "token", "epoch", "prev"}
  /\ k.pc \in Pcs
  /\ k.token \in Nat /\ k.epoch \in Nat /\ k.prev \in Sockets

IsMcp(k) ==
  /\ DOMAIN k = {"pc", "rev", "ok", "n"}
  /\ k.pc \in {"idle", "validate", "publish", "queued", "send", "stopped"}
  /\ k.rev \in Nat /\ k.ok \in BOOLEAN /\ k.n \in Nat

Pushing == {"update_wait", "update_send", "applying", "ack_send"}
PatchPcs == {"idle", "wait", "validate", "begin", "mcp_wait", "commit", "push", "retire", "done"}
            \cup Pushing
IsPatch(k) ==
  /\ DOMAIN k = {"pc", "base", "gen", "fenced", "conn"}
  /\ k.pc \in PatchPcs
  /\ k.base \in Nat /\ k.gen \in Nat /\ k.fenced \in BOOLEAN /\ k.conn \in Sockets
  /\ k.pc \in Pushing \cup {"mcp_wait"} => k.conn \in Sock

IsRvk(k) ==
  /\ DOMAIN k = {"pc", "old", "deleted", "conn"}
  /\ k.pc \in {"idle", "revoke", "locked", "retire", "done"}
  /\ k.old \in Nat /\ k.deleted \in BOOLEAN /\ k.conn \in Sockets
  /\ k.pc = "locked" => k.conn \in Sock

IsCall(k) ==
  /\ DOMAIN k = {"pc", "kind", "gen", "cfg", "mcp", "conn", "wire", "fut", "out"}
  /\ k.pc \in {"idle", "held", "queued", "sending", "failing", "waiting", "done"}
  /\ k.kind \in {"name", "route", "mcp"} /\ k.gen \in Nat /\ k.cfg \in Nat /\ k.mcp \in Nat
  /\ k.conn \in Sockets /\ k.wire \in {"no", "sent", "answered"}
  /\ k.fut \in {"none", "unavailable", "unknown", "result"}
  /\ k.out \in {"none", "unavailable", "busy", "unknown", "cancelled", "result"}
  /\ k.pc \in {"queued", "sending", "failing", "waiting"} => k.conn \in Sock
  /\ k.wire # "no" => k.conn \in Sock

NumT == /\ rev \in Nat /\ token \in Nat /\ gens \in Nat /\ fence \in Nat /\ epoch \in Nat
        /\ current \in Sockets
ConnT == DOMAIN conn = Sock /\ \A s \in Sock : IsConn(conn[s])
SockT == DOMAIN sock = Sock /\ \A s \in Sock : IsSock(sock[s])
UnregT == DOMAIN unreg = Sock /\ \A s \in Sock : unreg[s] \in {"none", "want", "open", "locked", "done"}
McpT == DOMAIN mcp = Sock /\ \A s \in Sock : IsMcp(mcp[s])
PatchT == DOMAIN patch = Patch /\ \A p \in Patch : IsPatch(patch[p])
RvkT == DOMAIN rvk = Revocation /\ \A v \in Revocation : IsRvk(rvk[v])
CallT == DOMAIN call = Call /\ \A c \in Call : IsCall(call[c])

Types == NumT /\ ConnT /\ SockT /\ UnregT /\ McpT /\ PatchT /\ RvkT /\ CallT

\* What a step does not change keeps its type.
LEMMA KeepT ==
  /\ NumT /\ UNCHANGED <<db, gens, fence, epoch, current>> => NumT'
  /\ ConnT /\ UNCHANGED conn => ConnT'
  /\ SockT /\ UNCHANGED sock => SockT'
  /\ UnregT /\ UNCHANGED unreg => UnregT'
  /\ McpT /\ UNCHANGED mcp => McpT'
  /\ PatchT /\ UNCHANGED patch => PatchT'
  /\ RvkT /\ UNCHANGED rvk => RvkT'
  /\ CallT /\ UNCHANGED call => CallT'
<1>1. NumT /\ UNCHANGED <<db, gens, fence, epoch, current>> => NumT'
  BY Zenon DEF NumT, db
<1>2. ConnT /\ UNCHANGED conn => ConnT'
  BY Zenon DEF ConnT
<1>3. SockT /\ UNCHANGED sock => SockT'
  BY Zenon DEF SockT
<1>4. UnregT /\ UNCHANGED unreg => UnregT'
  BY Zenon DEF UnregT
<1>5. McpT /\ UNCHANGED mcp => McpT'
  BY Zenon DEF McpT
<1>6. PatchT /\ UNCHANGED patch => PatchT'
  BY Zenon DEF PatchT
<1>7. RvkT /\ UNCHANGED rvk => RvkT'
  BY Zenon DEF RvkT
<1>8. CallT /\ UNCHANGED call => CallT'
  BY Zenon DEF CallT
<1> QED BY ONLY <1>1, <1>2, <1>3, <1>4, <1>5, <1>6, <1>7, <1>8, Zenon

\* One connection object, socket, runner, PATCH, revocation or call gets a new value.
LEMMA PutConn ==
  ASSUME ConnT, NEW s, NEW k, s \in Sock => IsConn(k), conn' = [conn EXCEPT ![s] = k]
  PROVE  /\ ConnT' /\ (s \in Sock => conn'[s] = k)
         /\ \A t \in Sock \ {s} : conn'[t] = conn[t]
BY Zenon DEF ConnT

\* Likewise for a socket.
LEMMA PutSock ==
  ASSUME SockT, NEW s, NEW k, s \in Sock => IsSock(k), sock' = [sock EXCEPT ![s] = k]
  PROVE  /\ SockT' /\ (s \in Sock => sock'[s] = k)
         /\ \A t \in Sock \ {s} : sock'[t] = sock[t]
BY Zenon DEF SockT

\* Likewise for a registration runner.
LEMMA PutMcp ==
  ASSUME McpT, NEW s, NEW k, s \in Sock => IsMcp(k), mcp' = [mcp EXCEPT ![s] = k]
  PROVE  /\ McpT' /\ (s \in Sock => mcp'[s] = k)
         /\ \A t \in Sock \ {s} : mcp'[t] = mcp[t]
BY Zenon DEF McpT

\* Likewise for a PATCH.
LEMMA PutPatch ==
  ASSUME PatchT, NEW p, NEW k, p \in Patch => IsPatch(k), patch' = [patch EXCEPT ![p] = k]
  PROVE  /\ PatchT' /\ (p \in Patch => patch'[p] = k)
         /\ \A q \in Patch \ {p} : patch'[q] = patch[q]
BY Zenon DEF PatchT

\* Likewise for a revocation.
LEMMA PutRvk ==
  ASSUME RvkT, NEW v, NEW k, v \in Revocation => IsRvk(k), rvk' = [rvk EXCEPT ![v] = k]
  PROVE  /\ RvkT' /\ (v \in Revocation => rvk'[v] = k)
         /\ \A u \in Revocation \ {v} : rvk'[u] = rvk[u]
BY Zenon DEF RvkT

\* Likewise for a call.
LEMMA PutCall ==
  ASSUME CallT, NEW c, NEW k, c \in Call => IsCall(k), call' = [call EXCEPT ![c] = k]
  PROVE  /\ CallT' /\ (c \in Call => call'[c] = k)
         /\ \A d \in Call \ {c} : call'[d] = call[d]
BY Zenon DEF CallT

\* The program counter of a socket moves.
LEMMA SockMoves ==
  ASSUME SockT, NEW s \in Sock, NEW pc \in Pcs, SockTo(s, pc)
  PROVE  /\ SockT' /\ sock'[s].pc = pc /\ \A t \in Sock \ {s} : sock'[t].pc = sock[t].pc
         /\ \A t \in Sock : /\ sock'[t].token = sock[t].token /\ sock'[t].epoch = sock[t].epoch
                            /\ sock'[t].prev = sock[t].prev
BY Zenon DEF SockT, IsSock, SockTo

-----------------------------------------------------------------------------
(***************************************************************************)
(* Quiet steps: those of activations, registrations and PATCHes, which     *)
(* touch no call, revoke nothing and publish nothing.                      *)
(***************************************************************************)
\* A socket moves on, and not into register.
Ahead(a, b) ==
  \/ b = a
  \/ b = "closed"
  \/ a \in Activating /\ b \in Activating \cup {"serving", "ending"}
  \/ a = "serving" /\ b = "ending"
Forward(k, n) == n.token = k.token /\ n.epoch = k.epoch /\ Ahead(k.pc, n.pc)

\* A connection object keeps its generation and its calls, and does not become routable.
Calm(k, n) ==
  n.gen = k.gen /\ n.pend = k.pend /\ n.tombs = k.tombs /\ (n.ready => k.ready)

Drops == current' # NoSock => current' = current /\ conn'[current].life = conn[current].life

\* Only a socket that ends, or the current one, is unregistered.
Unregisters == \A t \in Sock : unreg[t] = "none" /\ unreg'[t] # "none" => sock[t].pc = "ending" \/ t = current

Quiet ==
  /\ UNCHANGED <<token, gens, epoch, rvk, credits, call>>
  /\ \A t \in Sock : Calm(conn[t], conn'[t]) /\ Forward(sock[t], sock'[t])
  /\ Drops /\ Unregisters

\* Replacing a connection object by a calm one is calm.
LEMMA CalmPut ==
  ASSUME ConnT, NEW s, NEW k, s \in Sock => IsConn(k) /\ Calm(conn[s], k),
         conn' = [conn EXCEPT ![s] = k]
  PROVE  ConnT' /\ \A t \in Sock : Calm(conn[t], conn'[t])
<1>1. ConnT' /\ (s \in Sock => conn'[s] = k) /\ \A t \in Sock \ {s} : conn'[t] = conn[t]
  BY PutConn, Zenon
<1>2. ASSUME NEW t \in Sock PROVE Calm(conn[t], conn'[t])
  <2>1. CASE t = s
    BY <1>1, <2>1, Zenon
  <2>2. CASE t # s
    BY <1>1, <2>2, Zenon DEF Calm
  <2> QED BY <2>1, <2>2, Zenon
<1> QED BY <1>1, <1>2, Zenon

\* Moving a socket ahead moves every socket forward or not at all.
LEMMA MoveSock ==
  ASSUME SockT, NEW s \in Sock, NEW pc \in Pcs, SockTo(s, pc), Ahead(sock[s].pc, pc)
  PROVE  SockT' /\ \A t \in Sock : Forward(sock[t], sock'[t])
<1>1. /\ SockT' /\ sock'[s].pc = pc /\ \A t \in Sock \ {s} : sock'[t].pc = sock[t].pc
      /\ \A t \in Sock : sock'[t].token = sock[t].token /\ sock'[t].epoch = sock[t].epoch
  BY SockMoves, Zenon
<1>2. ASSUME NEW t \in Sock PROVE Ahead(sock[t].pc, sock'[t].pc)
  <2>1. CASE t = s
    BY <1>1, <2>1, Zenon
  <2>2. CASE t # s
    BY <1>1, <2>2, Zenon DEF Ahead
  <2> QED BY <2>1, <2>2, Zenon
<1> QED BY <1>1, <1>2, Zenon DEF Forward

\* What a step leaves alone is calm.
LEMMA Still ==
  /\ UNCHANGED conn => \A t \in Sock : Calm(conn[t], conn'[t])
  /\ UNCHANGED sock => \A t \in Sock : Forward(sock[t], sock'[t])
  /\ UNCHANGED <<current, conn>> => Drops
  /\ UNCHANGED unreg => Unregisters
BY Zenon DEF Calm, Forward, Ahead, Drops, Unregisters

\* One connection object changes calmly, and is routed to as before.
LEMMA PutQuiet ==
  ASSUME Types, NEW s \in Sock, NEW k, IsConn(k), Calm(conn[s], k), k.life = conn[s].life,
         UNCHANGED conn \/ conn' = [conn EXCEPT ![s] = k], UNCHANGED current
  PROVE  ConnT' /\ (\A t \in Sock : Calm(conn[t], conn'[t])) /\ Drops
<1>1. CASE UNCHANGED conn
  BY <1>1, KeepT, Still, Zenon DEF Types
<1>2. CASE conn' = [conn EXCEPT ![s] = k]
  <2>1. ConnT' /\ \A t \in Sock : Calm(conn[t], conn'[t])
    BY <1>2, CalmPut, Zenon DEF Types
  <2>2. Drops
    BY <1>2, PutConn DEF Types, Drops, NumT, Sockets
  <2> QED BY <2>1, <2>2, Zenon
<1> QED BY <1>1, <1>2, Zenon

\* A send of the activation is quiet.
LEMMA ActivateSendQuiet ==
  ASSUME Types, NEW s \in Sock, NEW from \in Activating, NEW need,
         NEW mark \in {"pending", "issued", "applied", "acking"}, NEW to \in Activating,
         activate_send(s, from, need, mark, to)
  PROVE  Types' /\ Quiet
<1>1. UNCHANGED <<db, current, gens, fence, epoch, credits, unreg, mcp, patch, rvk, call>>
  BY Zenon DEF activate_send
<1>2. SockT' /\ \A t \in Sock : Forward(sock[t], sock'[t])
  BY MoveSock, Zenon DEF Types, activate_send, Pcs, Ahead, Before
<1> DEFINE k == [conn[s] EXCEPT !.apply = mark]
<1>3. IsConn(k) /\ Calm(conn[s], k) /\ k.life = conn[s].life
  BY Zenon DEF Types, ConnT, IsConn, ConnFields, Calm
<1>4. UNCHANGED conn \/ conn' = [conn EXCEPT ![s] = k]
  BY Zenon DEF activate_send
<1> HIDE DEF k
<1>5. ConnT' /\ (\A t \in Sock : Calm(conn[t], conn'[t])) /\ Drops
  BY <1>1, <1>3, <1>4, PutQuiet, Zenon
<1>6. Types'
  BY ONLY <1>1, <1>2, <1>5, Types, KeepT, Zenon DEF Types
<1> QED BY ONLY <1>1, <1>2, <1>5, <1>6, Still, Zenon DEF Quiet, db

\* A connection that is popped is no longer routed to.
LEMMA AmbiguousQuiet ==
  ASSUME Types, NEW s \in Sock, _retire_ambiguous_config(s), UNCHANGED <<db, gens, epoch>>
  PROVE  NumT' /\ ConnT' /\ (\A t \in Sock : Calm(conn[t], conn'[t])) /\ Drops
<1> DEFINE k == Ambiguous(conn[s], current = s)
<1>1. IsConn(k) /\ Calm(conn[s], k)
  BY Zenon DEF Types, ConnT, IsConn, ConnFields, Calm, Ambiguous
<1>2. conn' = [conn EXCEPT ![s] = k]
  BY Zenon DEF _retire_ambiguous_config
<1>3. (current = s => current' = NoSock) /\ (current # s => current' = current)
  BY Zenon DEF _retire_ambiguous_config
<1>4. fence' \in {0, fence}
  BY Zenon DEF _retire_ambiguous_config, Released
<1> HIDE DEF k
<1>5. ConnT' /\ \A t \in Sock : Calm(conn[t], conn'[t])
  BY <1>1, <1>2, CalmPut, Zenon DEF Types
<1>6. current = NoSock \/ current \in Sock
  BY Zenon DEF Types, NumT, Sockets
<1>7. \A t \in Sock \ {s} : conn'[t] = conn[t]
  BY <1>1, <1>2, PutConn, Zenon DEF Types
<1>8. Drops
  BY ONLY <1>3, <1>6, <1>7, Zenon DEF Drops
<1>9. rev' = rev /\ token' = token /\ gens' = gens /\ epoch' = epoch /\ NumT
  BY Zenon DEF db, Types
<1>10. NumT'
  BY ONLY <1>3, <1>4, <1>9 DEF NumT, Sockets
<1> QED BY <1>5, <1>8, <1>10, Zenon

\* _schedule_unregister for a socket that ends or is current.
LEMMA Schedules ==
  ASSUME UnregT, NEW s \in Sock, _schedule_unregister(s), sock[s].pc = "ending" \/ s = current
  PROVE  UnregT' /\ Unregisters
BY Zenon DEF UnregT, _schedule_unregister, Unregisters

\* The current connection is popped and left to its retirement.
LEMMA PopQuiet ==
  ASSUME Types, current # NoSock, conn' = [conn EXCEPT ![current].life = "retiring"], current' = NoSock,
         UNCHANGED <<db, gens, fence>>, epoch' \in Nat
  PROVE  NumT' /\ ConnT' /\ (\A t \in Sock : Calm(conn[t], conn'[t])) /\ Drops
<1>1. current \in Sock
  BY Zenon DEF Types, NumT, Sockets
<1> DEFINE k == [conn[current] EXCEPT !.life = "retiring"]
<1>2. IsConn(k) /\ Calm(conn[current], k)
  BY <1>1, Zenon DEF Types, ConnT, IsConn, ConnFields, Calm
<1>3. conn' = [conn EXCEPT ![current] = k]
  BY Zenon
<1> HIDE DEF k
<1>4. ConnT' /\ \A t \in Sock : Calm(conn[t], conn'[t])
  BY <1>2, <1>3, CalmPut, Zenon DEF Types
<1>5. NumT' /\ Drops
  BY Zenon DEF Types, NumT, Sockets, db, Drops
<1> QED BY <1>4, <1>5, Zenon

-----------------------------------------------------------------------------
(***************************************************************************)
(* What the registrations share.                                           *)
(***************************************************************************)

\* The runner stops, and with it the socket's frame loop.
LEMMA RegistrationStops ==
  ASSUME Types, NEW s \in Sock, registration_stops(s)
  PROVE  McpT' /\ SockT' /\ \A t \in Sock : Forward(sock[t], sock'[t])
<1>1. McpT'
  BY Zenon DEF Types, registration_stops, McpT, IsMcp
<1>2. sock[s].pc \in Pcs
  BY Zenon DEF Types, SockT, IsSock
<1>3. SockT' /\ \A t \in Sock : Forward(sock[t], sock'[t])
  BY <1>2, MoveSock, Zenon DEF Types, registration_stops, Pcs, Ahead
<1> QED BY <1>1, <1>3, Zenon

\* The registration mark of a connection is set or cleared.
LEMMA MarkQuiet ==
  ASSUME Types, NEW s \in Sock, NEW b \in BOOLEAN, conn' = [conn EXCEPT ![s].reg = b],
         UNCHANGED current
  PROVE  ConnT' /\ (\A t \in Sock : Calm(conn[t], conn'[t])) /\ Drops
<1> DEFINE k == [conn[s] EXCEPT !.reg = b]
<1>1. IsConn(k) /\ Calm(conn[s], k) /\ k.life = conn[s].life
  BY Zenon DEF Types, ConnT, IsConn, ConnFields, Calm
<1>2. conn' = [conn EXCEPT ![s] = k]
  BY Zenon
<1> HIDE DEF k
<1> QED BY <1>1, <1>2, PutQuiet, Zenon

-----------------------------------------------------------------------------
(***************************************************************************)
(* What the PATCHes share, and the quiet steps one by one.                 *)
(***************************************************************************)
\* A PATCH that moves to another program point keeps its type.
LEMMA PatchMoves ==
  ASSUME PatchT, RegistryAssumption, NEW p \in Patch, NEW pc \in PatchPcs, PatchTo(p, pc),
         pc \in Pushing \cup {"mcp_wait"} => patch[p].conn \in Sock
  PROVE  PatchT'
<1> DEFINE old == IF pc = "done" THEN NewPatch ELSE patch[p]
           k == [old EXCEPT !.pc = pc]
<1>1. patch' = [patch EXCEPT ![p] = k]
  BY Zenon DEF PatchTo
<1>2. IsPatch(NewPatch)
  BY Zenon DEF IsPatch, NewPatch, PatchPcs, Pushing, Sockets
<1>3. IsPatch(patch[p])
  BY Zenon DEF PatchT
<1>4. CASE pc = "done"
  <2>1. IsPatch(k)
    BY <1>2, <1>4, Zenon DEF IsPatch, Pushing
  <2> HIDE DEF k
  <2> QED BY <1>1, <2>1, PutPatch, Zenon
<1>5. CASE pc # "done"
  <2>1. IsPatch(k)
    BY <1>3, <1>5, Zenon DEF IsPatch
  <2> HIDE DEF k
  <2> QED BY <1>1, <2>1, PutPatch, Zenon
<1> QED BY <1>4, <1>5, Zenon

\* A step of a PATCH that leaves the registry alone.
LEMMA PatchOnly ==
  ASSUME Types, PatchT',
         UNCHANGED <<token, current, gens, fence, epoch, credits, conn, sock, unreg, mcp, rvk, call>>,
         rev' \in Nat
  PROVE  Types' /\ Quiet
<1>1. NumT'
  BY Zenon DEF Types, NumT
<1>2. Types'
  BY <1>1, KeepT, Zenon DEF Types
<1> QED BY <1>2, Still, Zenon DEF Quiet

\* Unfenced ends or goes on with the PATCH.
LEMMA UnfencedType ==
  ASSUME Types, RegistryAssumption, NEW p \in Patch, Unfenced(p) PROVE PatchT'
BY PatchMoves, Zenon DEF Types, PatchPcs, Pushing, Unfenced

\* A send of the push is quiet.
LEMMA PushSendQuiet ==
  ASSUME Types, RegistryAssumption, NEW p \in Patch, NEW from \in Pushing, NEW need,
         NEW mark \in {"pending", "issued", "applied", "acking"}, NEW to \in Pushing,
         push_send(p, from, need, mark, to)
  PROVE  Types' /\ Quiet
<1> DEFINE s == patch[p].conn
           k == [conn[s] EXCEPT !.apply = mark]
<1>1. UNCHANGED <<db, current, gens, fence, epoch, credits, sock, unreg, mcp, rvk, call>>
  BY Zenon DEF push_send
<1>2. s \in Sock
  BY Zenon DEF push_send, Types, PatchT, IsPatch
<1>3. PatchTo(p, to) \/ PatchTo(p, "done")
  BY Zenon DEF push_send
<1>4. PatchT'
  BY <1>2, <1>3, PatchMoves, Zenon DEF Types, PatchPcs, Pushing
<1>5. UNCHANGED conn \/ conn' = [conn EXCEPT ![s] = k]
  BY Zenon DEF push_send
<1> HIDE DEF s
<1>6. IsConn(k) /\ Calm(conn[s], k) /\ k.life = conn[s].life
  BY <1>2 DEF Types, ConnT, IsConn, ConnFields, Calm
<1> HIDE DEF k
<1>7. ConnT' /\ (\A t \in Sock : Calm(conn[t], conn'[t])) /\ Drops
  BY <1>1, <1>2, <1>5, <1>6, PutQuiet, Zenon
<1>8. Types'
  BY ONLY <1>1, <1>4, <1>7, Types, KeepT, Zenon DEF Types
<1> QED BY ONLY <1>1, <1>7, <1>8, Still, Zenon DEF Quiet, db

\* The steps that are quiet, in one place.
QuietSocket(s) ==
  \/ register_returns(s) \/ activate(s) \/ send_hello_ack(s) \/ hello_ack_sent(s)
  \/ send_applied_ack(s) \/ activate_fails(s) \/ resolve_config_applied(s) \/ disconnect(s)
  \/ socket_ends(s) \/ unregister(s) \/ unregister_locks(s) \/ unregister_pops(s)

\* Unregisters, registrations, PATCHes and most of the handshake keep the types and are quiet.
LEMMA QuietSteps ==
  ASSUME Types, RegistryAssumption,
         \/ \E s \in Sock : QuietSocket(s) \/ Registration(s)
         \/ \E p \in Patch : Update(p)
  PROVE  Types' /\ Quiet
<1>1. ASSUME NEW s \in Sock, QuietSocket(s) PROVE Types' /\ Quiet
  \* register returning after the replaced connection is retired is quiet.
  <2>1. CASE register_returns(s)
    <3> USE <2>1
    <3>1. UNCHANGED <<db, current, gens, fence, epoch, credits, conn, unreg, mcp, patch, rvk, call>>
      BY Zenon DEF register_returns
    <3>2. SockT' /\ \A t \in Sock : Forward(sock[t], sock'[t])
      BY MoveSock, Zenon DEF Types, register_returns, Pcs, Ahead, Before, Activating
    <3>3. Types'
      BY ONLY <3>1, <3>2, Types, KeepT, Zenon DEF Types
    <3> QED BY ONLY <3>1, <3>2, <3>3, Still, Zenon DEF Quiet, db
  \* activate, which opens the wait for config_applied, is quiet.
  <2>2. CASE activate(s)
    <3> USE <2>2
    <3>1. UNCHANGED <<db, current, gens, fence, epoch, credits, unreg, mcp, patch, rvk, call>>
      BY Zenon DEF activate
    <3>2. SockT' /\ \A t \in Sock : Forward(sock[t], sock'[t])
      BY MoveSock, Zenon DEF Types, activate, Pcs, Ahead, Before, Activating
    <3> DEFINE k == [conn[s] EXCEPT !.apply = "pending"]
    <3>3. IsConn(k) /\ Calm(conn[s], k) /\ k.life = conn[s].life
      BY DEF Types, ConnT, IsConn, ConnFields, Calm
    <3>4. UNCHANGED conn \/ conn' = [conn EXCEPT ![s] = k]
      BY Zenon DEF activate
    <3> HIDE DEF k
    <3>5. ConnT' /\ (\A t \in Sock : Calm(conn[t], conn'[t])) /\ Drops
      BY <3>1, <3>3, <3>4, PutQuiet, Zenon
    <3>6. Types'
      BY ONLY <3>1, <3>2, <3>5, Types, KeepT, Zenon DEF Types
    <3> QED BY ONLY <3>1, <3>2, <3>5, <3>6, Still, Zenon DEF Quiet, db
  \* Sending hello_ack is quiet.
  <2>3. CASE send_hello_ack(s)
    BY <2>3, ActivateSendQuiet, Zenon DEF send_hello_ack, Activating
  \* hello_ack being sent is quiet.
  <2>4. CASE hello_ack_sent(s)
    <3> USE <2>4
    <3>1. UNCHANGED <<db, current, gens, fence, epoch, credits, conn, unreg, mcp, patch, rvk, call>>
      BY Zenon DEF hello_ack_sent
    <3>2. SockT' /\ \A t \in Sock : Forward(sock[t], sock'[t])
      BY MoveSock, Zenon DEF Types, hello_ack_sent, Pcs, Ahead, Before, Activating
    <3>3. Types'
      BY ONLY <3>1, <3>2, Types, KeepT, Zenon DEF Types
    <3> QED BY ONLY <3>1, <3>2, <3>3, Still, Zenon DEF Quiet, db
  \* Sending the activation's config_applied_ack is quiet.
  <2>5. CASE send_applied_ack(s)
    BY <2>5, ActivateSendQuiet, Zenon DEF send_applied_ack, Activating
  \* A failed activation, which may drop the current connection, is quiet.
  <2>6. CASE activate_fails(s)
    <3> USE <2>6
    <3>1. UNCHANGED <<db, gens, epoch, credits, unreg, mcp, patch, rvk, call>>
      BY Zenon DEF activate_fails
    <3>2. SockT' /\ \A t \in Sock : Forward(sock[t], sock'[t])
      BY MoveSock, Zenon DEF Types, activate_fails, Pcs, Ahead, Before, Activating
    <3>3. NumT' /\ ConnT' /\ (\A t \in Sock : Calm(conn[t], conn'[t])) /\ Drops
      BY <3>1, AmbiguousQuiet, Zenon DEF activate_fails
    <3>4. Types'
      BY ONLY <3>1, <3>2, <3>3, Types, KeepT, Zenon DEF Types
    <3> QED BY ONLY <3>1, <3>2, <3>3, <3>4, Still, Zenon DEF Quiet, db
  \* A config_applied frame is quiet.
  <2>7. CASE resolve_config_applied(s)
    <3> USE <2>7
    <3>1. UNCHANGED <<db, current, gens, fence, epoch, credits, sock, unreg, mcp, patch, rvk, call>>
      BY Zenon DEF resolve_config_applied
    <3> DEFINE k == [conn[s] EXCEPT !.apply = "applied"]
    <3>3. IsConn(k) /\ Calm(conn[s], k) /\ k.life = conn[s].life
      BY Zenon DEF Types, ConnT, IsConn, ConnFields, Calm
    <3>4. UNCHANGED conn \/ conn' = [conn EXCEPT ![s] = k]
      BY Zenon DEF resolve_config_applied
    <3> HIDE DEF k
    <3>5. ConnT' /\ (\A t \in Sock : Calm(conn[t], conn'[t])) /\ Drops
      BY <3>1, <3>3, <3>4, PutQuiet, Zenon
    <3>6. Types'
      BY ONLY <3>1, <3>5, Types, KeepT, Zenon DEF Types
    <3> QED BY ONLY <3>1, <3>5, <3>6, Still, Zenon DEF Quiet, db
  \* A peer that goes away is quiet.
  <2>8. CASE disconnect(s)
    <3> USE <2>8
    <3>1. UNCHANGED <<db, gens, epoch, credits, unreg, patch, rvk, call>>
      BY Zenon DEF disconnect
    <3>2. SockT' /\ \A t \in Sock : Forward(sock[t], sock'[t])
      BY MoveSock, Zenon DEF Types, disconnect, Pcs, Ahead, Before, Activating
    <3>3. McpT'
      BY Zenon DEF Types, disconnect, McpT, IsMcp
    <3>4. NumT' /\ ConnT' /\ (\A t \in Sock : Calm(conn[t], conn'[t])) /\ Drops
      <4>1. CASE _retire_ambiguous_config(s)
        BY <3>1, <4>1, AmbiguousQuiet, Zenon
      <4>2. CASE UNCHANGED <<conn, fence, current>>
        BY <3>1, <4>2, KeepT, Still, Zenon DEF Types
      <4> QED BY <4>1, <4>2, Zenon DEF disconnect
    <3>5. Types'
      BY ONLY <3>1, <3>2, <3>3, <3>4, Types, KeepT, Zenon DEF Types
    <3> QED BY ONLY <3>1, <3>2, <3>4, <3>5, Still, Zenon DEF Quiet, db
  \* The end of a socket, which schedules its unregister, is quiet.
  <2>9. CASE socket_ends(s)
    <3> USE <2>9
    <3>1. UNCHANGED <<db, current, gens, fence, epoch, credits, conn, mcp, patch, rvk, call>>
      BY Zenon DEF socket_ends
    <3>2. SockT' /\ \A t \in Sock : Forward(sock[t], sock'[t])
      BY MoveSock, Zenon DEF Types, socket_ends, Pcs, Ahead
    <3>3. UnregT' /\ Unregisters
      BY Schedules, Zenon DEF Types, socket_ends
    <3>4. Types'
      BY ONLY <3>1, <3>2, <3>3, Types, KeepT, Zenon DEF Types
    <3> QED BY ONLY <3>1, <3>2, <3>3, <3>4, Still, Zenon DEF Quiet, db
  \* The first section of unregister is quiet.
  <2>10. CASE unregister(s)
    <3> USE <2>10
    <3>1. UNCHANGED <<db, current, gens, epoch, credits, conn, sock, mcp, patch, rvk, call>>
      BY Zenon DEF unregister
    <3>2. UnregT' /\ Unregisters
      BY Zenon DEF unregister, Types, UnregT, Unregisters
    <3>3. fence' \in {0, fence}
      BY Zenon DEF unregister, Released
    <3>4. NumT'
      BY <3>1, <3>3 DEF Types, NumT, db
    <3>5. Types'
      BY ONLY <3>1, <3>2, <3>4, Types, KeepT, Zenon DEF Types
    <3> QED BY ONLY <3>1, <3>2, <3>5, Still, Zenon DEF Quiet, db
  \* unregister taking _register_lock is quiet.
  <2>11. CASE unregister_locks(s)
    <3> USE <2>11
    <3>1. UNCHANGED <<db, current, gens, fence, epoch, credits, conn, sock, mcp, patch, rvk, call>>
      BY Zenon DEF unregister_locks
    <3>2. UnregT' /\ Unregisters
      BY Zenon DEF unregister_locks, Types, UnregT, Unregisters
    <3>3. Types'
      BY ONLY <3>1, <3>2, Types, KeepT, Zenon DEF Types
    <3> QED BY ONLY <3>1, <3>2, <3>3, Still, Zenon DEF Quiet, db
  \* unregister popping its own connection is quiet.
  <2>12. CASE unregister_pops(s)
    <3> USE <2>12
    <3>1. UNCHANGED <<db, gens, fence, epoch, credits, sock, mcp, patch, rvk, call>>
      BY Zenon DEF unregister_pops
    <3>2. UnregT' /\ Unregisters
      BY Zenon DEF unregister_pops, Types, UnregT, Unregisters
    <3>3. epoch' \in Nat
      BY <3>1, Zenon DEF Types, NumT
    <3>4. NumT' /\ ConnT' /\ (\A t \in Sock : Calm(conn[t], conn'[t])) /\ Drops
      <4>1. CASE SameHandle(s)
        BY <3>1, <3>3, <4>1, PopQuiet, Zenon DEF unregister_pops, SameHandle
      <4>2. CASE ~SameHandle(s)
        BY <3>1, <4>2, KeepT, Still, Zenon DEF Types, unregister_pops
      <4> QED BY <4>1, <4>2, Zenon
    <3>5. Types'
      BY ONLY <3>1, <3>2, <3>4, Types, KeepT, Zenon DEF Types
    <3> QED BY ONLY <3>1, <3>2, <3>4, <3>5, Still, Zenon DEF Quiet, db
  <2> QED BY <1>1, <2>1, <2>2, <2>3, <2>4, <2>5, <2>6, <2>7, <2>8, <2>9, <2>10, <2>11, <2>12, Zenon
      DEF QuietSocket
<1>2. ASSUME NEW s \in Sock, Registration(s) PROVE Types' /\ Quiet
  \* A register_mcp frame is quiet.
  <2>1. CASE register_mcp(s)
    <3> USE <2>1
    <3>1. UNCHANGED <<db, current, gens, fence, epoch, credits, conn, sock, unreg, patch, rvk, call>>
      BY Zenon DEF register_mcp
    <3>2. Installed(s) \in Nat
      BY Zenon DEF Types, ConnT, IsConn, Installed
    <3>3. McpT'
      BY <3>2 DEF Types, register_mcp, McpT, IsMcp
    <3>4. Types'
      BY ONLY <3>1, <3>3, Types, KeepT, Zenon DEF Types
    <3> QED BY ONLY <3>1, <3>4, Still, Zenon DEF Quiet, db
  \* The validation of a registration is quiet.
  <2>2. CASE validate_mcp_registration(s)
    <3> USE <2>2
    <3>1. UNCHANGED <<db, current, gens, fence, epoch, credits, conn, unreg, patch, rvk, call>>
      BY Zenon DEF validate_mcp_registration
    <3>2. McpT' /\ SockT' /\ \A t \in Sock : Forward(sock[t], sock'[t])
      <4>1. CASE registration_stops(s)
        BY <4>1, RegistrationStops, Zenon
      <4>2. CASE /\ mcp' = [mcp EXCEPT ![s] = [@ EXCEPT !.pc = "publish", !.ok = (mcp[s].rev = rev)]]
                 /\ UNCHANGED sock
        <5>1. McpT'
          BY <4>2, Zenon DEF Types, McpT, IsMcp
        <5> QED BY <4>2, <5>1, KeepT, Still, Zenon DEF Types
      <4> QED BY <4>1, <4>2, Zenon DEF validate_mcp_registration
    <3>3. Types'
      BY ONLY <3>1, <3>2, Types, KeepT, Zenon DEF Types
    <3> QED BY ONLY <3>1, <3>2, <3>3, Still, Zenon DEF Quiet, db
  \* Reserving the registration is quiet.
  <2>3. CASE publish_mcp_registration(s)
    <3> USE <2>3
    <3>1. UNCHANGED <<db, current, gens, fence, epoch, credits, unreg, patch, rvk, call>>
      BY Zenon DEF publish_mcp_registration
    <3>2. McpT' /\ SockT' /\ \A t \in Sock : Forward(sock[t], sock'[t])
      <4>1. CASE registration_stops(s)
        BY <4>1, RegistrationStops, Zenon
      <4>2. CASE mcp' = [mcp EXCEPT ![s].pc = "queued"] /\ UNCHANGED sock
        <5>1. McpT'
          BY <4>2, Zenon DEF Types, McpT, IsMcp
        <5> QED BY <4>2, <5>1, KeepT, Still, Zenon DEF Types
      <4> QED BY <4>1, <4>2, Zenon DEF publish_mcp_registration
    <3>3. ConnT' /\ (\A t \in Sock : Calm(conn[t], conn'[t])) /\ Drops
      BY <3>1, MarkQuiet, KeepT, Still, Zenon DEF Types, publish_mcp_registration
    <3>4. Types'
      BY ONLY <3>1, <3>2, <3>3, Types, KeepT, Zenon DEF Types
    <3> QED BY ONLY <3>1, <3>2, <3>3, <3>4, Still, Zenon DEF Quiet, db
  \* Sending register_mcp_ack is quiet.
  <2>4. CASE send_register_ack(s)
    <3> USE <2>4
    <3>1. UNCHANGED <<db, current, gens, fence, epoch, credits, unreg, patch, rvk, call>>
      BY Zenon DEF send_register_ack
    <3>2. McpT' /\ SockT' /\ \A t \in Sock : Forward(sock[t], sock'[t])
      <4>1. CASE registration_stops(s)
        BY <4>1, RegistrationStops, Zenon
      <4>2. CASE /\ mcp' = [mcp EXCEPT ![s] = [@ EXCEPT !.pc = "send",
                                                     !.ok = mcp[s].ok /\ conn[s].rev = mcp[s].rev]]
                 /\ UNCHANGED sock
        <5>1. McpT'
          BY <4>2, Zenon DEF Types, McpT, IsMcp
        <5> QED BY <4>2, <5>1, KeepT, Still, Zenon DEF Types
      <4> QED BY <4>1, <4>2, Zenon DEF send_register_ack
    <3>3. ConnT' /\ (\A t \in Sock : Calm(conn[t], conn'[t])) /\ Drops
      BY <3>1, MarkQuiet, KeepT, Still, Zenon DEF Types, send_register_ack
    <3>4. Types'
      BY ONLY <3>1, <3>2, <3>3, Types, KeepT, Zenon DEF Types
    <3> QED BY ONLY <3>1, <3>2, <3>3, <3>4, Still, Zenon DEF Quiet, db
  \* Binding what was registered is quiet.
  <2>5. CASE mcp_registered(s)
    <3> USE <2>5
    <3>1. UNCHANGED <<db, current, gens, fence, epoch, credits, unreg, patch, rvk, call>>
      BY Zenon DEF mcp_registered
    <3> DEFINE Publishes == current = s /\ conn[s].ready /\ conn[s].reg
    <3>2. McpT' /\ SockT' /\ \A t \in Sock : Forward(sock[t], sock'[t])
      <4>1. CASE registration_stops(s)
        BY <4>1, RegistrationStops, Zenon
      <4>2. CASE /\ mcp' = [mcp EXCEPT ![s] = [@ EXCEPT !.pc = "idle", !.rev = 0, !.ok = FALSE]]
                 /\ UNCHANGED sock
        <5>1. McpT'
          BY <4>2, Zenon DEF Types, McpT, IsMcp
        <5> QED BY <4>2, <5>1, KeepT, Still, Zenon DEF Types
      <4> QED BY <4>1, <4>2, Zenon DEF mcp_registered
    <3>3. ConnT' /\ (\A t \in Sock : Calm(conn[t], conn'[t])) /\ Drops
      <4>1. CASE Publishes
        <5> DEFINE b == IF mcp[s].ok THEN mcp[s].rev ELSE 0
                   k == [conn[s] EXCEPT !.bind = b, !.mcp = @ + 1, !.reg = FALSE]
        <5>1. b \in Nat
          BY Zenon DEF Types, McpT, IsMcp
        <5>2. conn' = [conn EXCEPT ![s] = k]
          BY <4>1, Zenon DEF mcp_registered
        <5> HIDE DEF b
        <5>3. IsConn(k) /\ Calm(conn[s], k) /\ k.life = conn[s].life
          BY <5>1 DEF Types, ConnT, IsConn, ConnFields, Calm
        <5> HIDE DEF k
        <5> QED BY <3>1, <5>2, <5>3, PutQuiet, Zenon
      <4>2. CASE ~Publishes
        BY <3>1, <4>2, MarkQuiet, Zenon DEF mcp_registered
      <4> QED BY <4>1, <4>2, Zenon
    <3>4. Types'
      BY ONLY <3>1, <3>2, <3>3, Types, KeepT, Zenon DEF Types
    <3> QED BY ONLY <3>1, <3>2, <3>3, <3>4, Still, Zenon DEF Quiet, db
  \* A registration that fails, and takes its connection down, is quiet.
  <2>6. CASE registration_fails(s)
    <3> USE <2>6
    <3>1. UNCHANGED <<db, gens, epoch, credits, unreg, patch, rvk, call>>
      BY Zenon DEF registration_fails
    <3>2. McpT' /\ SockT' /\ \A t \in Sock : Forward(sock[t], sock'[t])
      BY RegistrationStops, Zenon DEF registration_fails
    <3>3. NumT' /\ ConnT' /\ (\A t \in Sock : Calm(conn[t], conn'[t])) /\ Drops
      BY <3>1, AmbiguousQuiet, Zenon DEF registration_fails
    <3>4. Types'
      BY ONLY <3>1, <3>2, <3>3, Types, KeepT, Zenon DEF Types
    <3> QED BY ONLY <3>1, <3>2, <3>3, <3>4, Still, Zenon DEF Quiet, db
  <2> QED BY <1>2, <2>1, <2>2, <2>3, <2>4, <2>5, <2>6, Zenon DEF Registration
<1>3. ASSUME NEW p \in Patch, Update(p) PROVE Types' /\ Quiet
  \* The arrival of a PATCH is quiet.
  <2>1. CASE patch_device(p)
    <3> USE <2>1
    <3>1. UNCHANGED <<db, current, gens, fence, epoch, credits, conn, sock, unreg, mcp, rvk, call>>
      BY Zenon DEF patch_device
    <3>2. rev \in Nat /\ rev' = rev /\ token' = token
      BY <3>1, Zenon DEF Types, NumT, db
    <3>3. PatchT'
      BY <3>2 DEF Types, patch_device, PatchT, IsPatch, PatchPcs, Pushing
    <3> QED BY <3>1, <3>2, <3>3, PatchOnly, Zenon
  \* A PATCH that gets config_update_lock and reads the row is quiet.
  <2>2. CASE _build_validate_and_commit(p)
    <3> USE <2>2
    <3>1. UNCHANGED <<db, current, gens, fence, epoch, credits, conn, sock, unreg, mcp, rvk, call>>
      BY Zenon DEF _build_validate_and_commit
    <3>2. rev \in Nat /\ rev' = rev /\ token' = token
      BY <3>1, Zenon DEF Types, NumT, db
    <3>3. PatchT'
      <4>1. CASE PatchTo(p, "done") \/ PatchTo(p, "begin")
        BY <4>1, PatchMoves, Zenon DEF Types, PatchPcs, Pushing
      <4>2. CASE Idle /\ patch' = [patch EXCEPT ![p].pc = "validate", ![p].gen = conn[current].gen]
        <5>1. conn[current].gen \in Nat
          BY <4>2, Zenon DEF Idle, Routable, Types, NumT, Sockets, ConnT, IsConn
        <5> QED BY <4>2, <5>1 DEF Types, PatchT, IsPatch, PatchPcs, Pushing
      <4> QED BY <4>1, <4>2, Zenon DEF _build_validate_and_commit
    <3> QED BY <3>1, <3>2, <3>3, PatchOnly, Zenon
  \* The answer of the Device to a validation is quiet.
  <2>3. CASE validate_config(p)
    <3> USE <2>3
    <3>1. UNCHANGED <<db, current, gens, fence, epoch, credits, conn, sock, unreg, mcp, rvk, call>>
      BY Zenon DEF validate_config
    <3>2. rev \in Nat /\ rev' = rev /\ token' = token
      BY <3>1, Zenon DEF Types, NumT, db
    <3>3. PatchT'
      BY PatchMoves, Zenon DEF Types, PatchPcs, Pushing, validate_config
    <3> QED BY <3>1, <3>2, <3>3, PatchOnly, Zenon
  \* Raising the fence for a PATCH is quiet.
  <2>4. CASE begin_config_update(p)
    <3> USE <2>4
    <3>1. UNCHANGED <<db, current, gens, epoch, credits, sock, unreg, mcp, rvk, call>>
      BY Zenon DEF begin_config_update
    <3>2. CASE ~Target(p)
      <4>1. UNCHANGED <<conn, fence>> /\ Unfenced(p)
        BY <3>2, Zenon DEF begin_config_update
      <4>2. rev' \in Nat /\ token' = token
        BY <3>1, Zenon DEF Types, NumT, db
      <4> QED BY <3>1, <4>1, <4>2, UnfencedType, PatchOnly, Zenon
    <3>3. CASE Target(p) /\ conn[current].reg
      <4>1. UNCHANGED <<conn, fence>> /\ current \in Sock
        BY <3>3, Zenon DEF begin_config_update, Target, Routable, Types, NumT, Sockets
      <4>2. PatchT'
        BY <3>3, <4>1
           DEF begin_config_update, Types, PatchT, IsPatch, PatchPcs, Pushing, Sockets
      <4>3. rev' \in Nat /\ token' = token
        BY <3>1, Zenon DEF Types, NumT, db
      <4> QED BY <3>1, <4>1, <4>2, <4>3, PatchOnly, Zenon
    <3>4. CASE Target(p) /\ ~conn[current].reg
      <4> DEFINE k == [conn[current] EXCEPT !.inflight = "precommit"]
      <4>1. /\ current \in Sock /\ conn' = [conn EXCEPT ![current] = k] /\ fence' = conn[current].gen
            /\ patch' = [patch EXCEPT ![p].pc = "commit", ![p].fenced = TRUE]
        BY <3>4, Zenon DEF begin_config_update, Target, Routable, Types, NumT, Sockets
      <4>2. PatchT'
        BY <4>1 DEF Types, PatchT, IsPatch, PatchPcs, Pushing
      <4>3. IsConn(k) /\ Calm(conn[current], k) /\ k.life = conn[current].life
        BY <4>1 DEF Types, ConnT, IsConn, ConnFields, Calm
      <4>4. NumT'
        BY <3>1, <4>1, Zenon DEF Types, NumT, db, ConnT, IsConn
      <4> HIDE DEF k
      <4>5. ConnT' /\ (\A t \in Sock : Calm(conn[t], conn'[t])) /\ Drops
        BY <3>1, <4>1, <4>3, PutQuiet, Zenon
      <4>6. Types'
        BY ONLY <3>1, <4>2, <4>4, <4>5, Types, KeepT, Zenon DEF Types
      <4> QED BY ONLY <3>1, <4>5, <4>6, Still, Zenon DEF Quiet, db
    <3> QED BY <3>2, <3>3, <3>4, Zenon
  \* A PATCH that has waited for a registration is quiet.
  <2>5. CASE registration_done(p)
    <3> USE <2>5
    <3>1. UNCHANGED <<db, current, gens, fence, epoch, credits, conn, sock, unreg, mcp, rvk, call>>
      BY Zenon DEF registration_done
    <3>2. rev \in Nat /\ rev' = rev /\ token' = token
      BY <3>1, Zenon DEF Types, NumT, db
    <3>3. PatchT'
      BY PatchMoves, Zenon DEF Types, PatchPcs, Pushing, registration_done
    <3> QED BY <3>1, <3>2, <3>3, PatchOnly, Zenon
  \* A wait for a registration that times out is quiet.
  <2>6. CASE begin_config_update_times_out(p)
    <3> USE <2>6
    <3> DEFINE s == patch[p].conn
               k == [conn[s] EXCEPT !.ready = FALSE]
    <3>1. UNCHANGED <<db, current, gens, fence, epoch, credits, sock, mcp, rvk, call>> /\ Unfenced(p)
      BY Zenon DEF begin_config_update_times_out
    <3>2. s \in Sock
      BY Zenon DEF begin_config_update_times_out, Types, PatchT, IsPatch
    <3>3. \/ current = s /\ conn' = [conn EXCEPT ![s] = k] /\ _schedule_unregister(s)
          \/ UNCHANGED <<conn, unreg>>
      BY Zenon DEF begin_config_update_times_out
    <3> HIDE DEF s
    <3>4. IsConn(k) /\ Calm(conn[s], k) /\ k.life = conn[s].life
      BY <3>2, Zenon DEF Types, ConnT, IsConn, ConnFields, Calm
    <3> HIDE DEF k
    <3>5. ConnT' /\ (\A t \in Sock : Calm(conn[t], conn'[t])) /\ Drops
      BY <3>1, <3>2, <3>3, <3>4, PutQuiet, Zenon
    <3>6. UnregT' /\ Unregisters
      BY <3>2, <3>3, Schedules, KeepT, Still, Zenon DEF Types
    <3>7. PatchT'
      BY <3>1, UnfencedType, Zenon
    <3>8. Types'
      BY ONLY <3>1, <3>5, <3>6, <3>7, Types, KeepT, Zenon DEF Types
    <3> QED BY ONLY <3>1, <3>5, <3>6, <3>8, Still, Zenon DEF Quiet, db
  \* The commit of a configuration is quiet.
  <2>7. CASE commit_config_candidate(p)
    <3> USE <2>7
    <3>1. /\ UNCHANGED <<token, current, gens, fence, epoch, credits, conn, sock, unreg, mcp, rvk, call>>
          /\ rev' \in Nat
      BY DEF commit_config_candidate, Types, NumT
    <3>2. PatchT'
      BY PatchMoves, Zenon DEF Types, PatchPcs, Pushing, commit_config_candidate
    <3> QED BY <3>1, <3>2, PatchOnly, Zenon
  \* A commit with an unknown outcome is quiet.
  <2>8. CASE commit_unknown(p)
    <3> USE <2>8
    <3>1. /\ UNCHANGED <<token, current, gens, fence, epoch, credits, conn, sock, unreg, mcp, rvk, call>>
          /\ rev' \in Nat
      BY DEF commit_unknown, Types, NumT
    <3>2. PatchT'
      BY PatchMoves, Zenon DEF Types, PatchPcs, Pushing, commit_unknown
    <3> QED BY <3>1, <3>2, PatchOnly, Zenon
  \* An aborted PATCH, which takes its fence down, is quiet.
  <2>9. CASE abort_config_update(p)
    <3> USE <2>9
    <3>1. UNCHANGED <<db, current, gens, epoch, credits, sock, unreg, mcp, rvk, call>>
      BY Zenon DEF abort_config_update
    <3>2. PatchT'
      BY PatchMoves, Zenon DEF Types, PatchPcs, Pushing, abort_config_update
    <3>3. fence' \in {0, fence}
      BY Zenon DEF abort_config_update
    <3>4. NumT'
      BY <3>1, <3>3 DEF Types, NumT, db
    <3> DEFINE k == [conn[current] EXCEPT !.inflight = "none"]
    <3>5. UNCHANGED conn \/ (current \in Sock /\ conn' = [conn EXCEPT ![current] = k])
      BY Zenon DEF abort_config_update, Types, NumT, Sockets
    <3>6. current \in Sock => IsConn(k) /\ Calm(conn[current], k) /\ k.life = conn[current].life
      BY DEF Types, ConnT, IsConn, ConnFields, Calm
    <3> HIDE DEF k
    <3>7. ConnT' /\ (\A t \in Sock : Calm(conn[t], conn'[t])) /\ Drops
      <4>1. CASE UNCHANGED conn
        BY <3>1, <4>1, KeepT, Still, Zenon DEF Types
      <4>2. CASE current \in Sock /\ conn' = [conn EXCEPT ![current] = k]
        BY <3>1, <3>6, <4>2, PutQuiet, Zenon
      <4> QED BY <3>5, <4>1, <4>2, Zenon
    <3>8. Types'
      BY ONLY <3>1, <3>2, <3>4, <3>7, Types, KeepT, Zenon DEF Types
    <3> QED BY ONLY <3>1, <3>7, <3>8, Still, Zenon DEF Quiet, db
  \* Retiring the connection of an ambiguous PATCH is quiet.
  <2>10. CASE retire_config_update(p)
    <3> USE <2>10
    <3>1. UNCHANGED <<db, gens, epoch, credits, sock, unreg, mcp, rvk, call>>
      BY Zenon DEF retire_config_update
    <3>2. PatchT'
      BY PatchMoves, Zenon DEF Types, PatchPcs, Pushing, retire_config_update
    <3>3. fence' = 0 /\ current' = NoSock
      BY Zenon DEF retire_config_update
    <3>4. NumT' /\ Drops
      BY <3>1, <3>3, Zenon DEF Types, NumT, db, Sockets, Drops
    <3> DEFINE k == Ambiguous(conn[current], TRUE)
    <3>5. UNCHANGED conn \/ (current \in Sock /\ conn' = [conn EXCEPT ![current] = k])
      BY Zenon DEF retire_config_update, Types, NumT, Sockets
    <3>6. current \in Sock => IsConn(k) /\ Calm(conn[current], k)
      BY DEF Types, ConnT, IsConn, ConnFields, Calm, Ambiguous
    <3> HIDE DEF k
    <3>7. ConnT' /\ \A t \in Sock : Calm(conn[t], conn'[t])
      <4>1. CASE UNCHANGED conn
        BY <4>1, KeepT, Still, Zenon DEF Types
      <4>2. CASE current \in Sock /\ conn' = [conn EXCEPT ![current] = k]
        BY <3>6, <4>2, CalmPut, Zenon DEF Types
      <4> QED BY <3>5, <4>1, <4>2, Zenon
    <3>8. Types'
      BY ONLY <3>1, <3>2, <3>4, <3>7, Types, KeepT, Zenon DEF Types
    <3> QED BY ONLY <3>1, <3>4, <3>7, <3>8, Still, Zenon DEF Quiet, db
  \* Starting to push a committed configuration is quiet.
  <2>11. CASE push_config(p)
    <3> USE <2>11
    <3>1. UNCHANGED <<db, current, gens, epoch, credits, sock, unreg, mcp, rvk, call>>
      BY Zenon DEF push_config
    <3>2. fence' \in {0, fence}
      BY Zenon DEF push_config, Released
    <3>3. NumT'
      BY <3>1, <3>2 DEF Types, NumT, db
    <3>4. CASE Target(p)
      <4> DEFINE k == Taken(conn[current])
      <4>1. /\ current \in Sock /\ conn' = [conn EXCEPT ![current] = k]
            /\ patch' = [patch EXCEPT ![p].pc = "update_wait", ![p].conn = current]
        BY <3>4, Zenon DEF push_config, Target, Routable, Types, NumT, Sockets
      <4>2. PatchT'
        BY <4>1 DEF Types, PatchT, IsPatch, PatchPcs, Pushing, Sockets
      <4>3. IsConn(k) /\ Calm(conn[current], k) /\ k.life = conn[current].life
        BY <4>1 DEF Types, ConnT, IsConn, ConnFields, Calm, Taken, NumT
      <4> HIDE DEF k
      <4>4. ConnT' /\ (\A t \in Sock : Calm(conn[t], conn'[t])) /\ Drops
        BY <3>1, <4>1, <4>3, PutQuiet, Zenon
      <4>5. Types'
        BY ONLY <3>1, <3>3, <4>2, <4>4, Types, KeepT, Zenon DEF Types
      <4> QED BY ONLY <3>1, <4>4, <4>5, Still, Zenon DEF Quiet, db
    <3>5. CASE ~Target(p)
      <4>1. PatchTo(p, "done") /\ UNCHANGED conn
        BY <3>5, Zenon DEF push_config
      <4>2. PatchT'
        BY <4>1, PatchMoves, Zenon DEF Types, PatchPcs, Pushing
      <4>3. Types'
        BY ONLY <3>1, <3>3, <4>1, <4>2, Types, KeepT, Zenon DEF Types
      <4> QED BY ONLY <3>1, <4>1, <4>3, Still, Zenon DEF Quiet, db
    <3> QED BY <3>4, <3>5, Zenon
  \* Sending config_update is quiet.
  <2>12. CASE send_config_update(p)
    BY <2>12, PushSendQuiet, Zenon DEF send_config_update, Pushing
  \* config_update being sent is quiet.
  <2>13. CASE config_update_sent(p)
    <3> USE <2>13
    <3>1. UNCHANGED <<db, current, gens, fence, epoch, credits, conn, sock, unreg, mcp, rvk, call>>
      BY Zenon DEF config_update_sent
    <3>2. rev \in Nat /\ rev' = rev /\ token' = token
      BY <3>1, Zenon DEF Types, NumT, db
    <3>3. PatchT'
      BY PatchMoves, Zenon
         DEF Types, PatchT, IsPatch, PatchPcs, Pushing, config_update_sent
    <3> QED BY <3>1, <3>2, <3>3, PatchOnly, Zenon
  \* Sending the push's config_applied_ack is quiet.
  <2>14. CASE send_update_ack(p)
    BY <2>14, PushSendQuiet, Zenon DEF send_update_ack, Pushing
  \* A push that is done, which releases the fence, is quiet.
  <2>15. CASE push_done(p)
    <3> USE <2>15
    <3> DEFINE s == patch[p].conn
               k == Updated(conn[s])
    <3>1. UNCHANGED <<db, current, gens, fence, epoch, credits, sock, unreg, mcp, rvk, call>>
      BY Zenon DEF push_done
    <3>2. s \in Sock
      BY Zenon DEF push_done, Types, PatchT, IsPatch, Pushing
    <3>3. PatchT'
      BY PatchMoves, Zenon DEF push_done, Types, PatchPcs, Pushing
    <3>4. UNCHANGED conn \/ conn' = [conn EXCEPT ![s] = k]
      BY Zenon DEF push_done
    <3> HIDE DEF s
    <3>5. IsConn(k) /\ Calm(conn[s], k) /\ k.life = conn[s].life
      BY <3>2 DEF Types, ConnT, IsConn, ConnFields, Calm, Updated
    <3> HIDE DEF k
    <3>6. ConnT' /\ (\A t \in Sock : Calm(conn[t], conn'[t])) /\ Drops
      BY <3>1, <3>2, <3>4, <3>5, PutQuiet, Zenon
    <3>7. Types'
      BY ONLY <3>1, <3>3, <3>6, Types, KeepT, Zenon DEF Types
    <3> QED BY ONLY <3>1, <3>6, <3>7, Still, Zenon DEF Quiet, db
  \* A push that fails is quiet.
  <2>16. CASE push_fails(p)
    <3> USE <2>16
    <3>1. UNCHANGED <<db, gens, epoch, credits, sock, unreg, mcp, rvk, call>>
      BY Zenon DEF push_fails
    <3>2. patch[p].conn \in Sock
      BY Zenon DEF push_fails, Types, PatchT, IsPatch, Pushing
    <3>3. PatchT'
      BY PatchMoves, Zenon DEF push_fails, Types, PatchPcs, Pushing
    <3>4. NumT' /\ ConnT' /\ (\A t \in Sock : Calm(conn[t], conn'[t])) /\ Drops
      BY <3>1, <3>2, AmbiguousQuiet, Zenon DEF push_fails
    <3>5. Types'
      BY ONLY <3>1, <3>3, <3>4, Types, KeepT, Zenon DEF Types
    <3> QED BY ONLY <3>1, <3>4, <3>5, Still, Zenon DEF Quiet, db
  <2> QED BY <1>3, <2>1, <2>2, <2>3, <2>4, <2>5, <2>6, <2>7, <2>8, <2>9, <2>10, <2>11, <2>12,
      <2>13, <2>14, <2>15, <2>16, Zenon DEF Update
<1> QED BY <1>1, <1>2, <1>3, Zenon

-----------------------------------------------------------------------------
(***************************************************************************)
(* What the fences take from the books about the calls and from the        *)
(* generations (DeviceProofs shows that every step keeps both).            *)
(***************************************************************************)
\* What is routed to is a published connection, and one is ready only once activated.
Routes ==
  /\ current # NoSock => conn[current].life = "live" /\ conn[current].gen # 0
  /\ \A s \in Sock : conn[s].ready => sock[s].pc \notin Before

\* A call that was never sent is not on the wire, a pending one is held by the
\* connection it was dispatched to, and one whose future says unavailable by none.
Fits(c, k) ==
  /\ k.pc \in {"idle", "held"} => k.conn = NoSock /\ k.fut = "none"
  /\ k.pc \in {"idle", "held", "queued"} => k.wire = "no"
  /\ k.conn # NoSock => sock[k.conn].pc \notin Before /\ conn[k.conn].gen # 0
  /\ \A s \in Sock : c \in conn[s].pend => k.conn = s /\ k.fut # "unavailable"
  /\ k.fut = "unavailable" => k.wire = "no"
  /\ k.out \in {"unavailable", "busy"} => k.wire = "no" /\ k.pc = "done"
  /\ k.wire = "sent" /\ k.conn = current /\ Routable =>
       c \in conn[current].pend \cup conn[current].tombs
Book(c) == Fits(c, call[c])

PendingCalls == {c \in Call : \E s \in Sock : c \in conn[s].pend}
Books == Routes /\ (\A c \in Call : Book(c)) /\ CreditsConserved

Entering == {"register", "publish"}

\* The generations handed out are distinct; the counter is ahead of them all, or
\* it was forgotten with the Device and nobody can be published any more.
Generations ==
  /\ \A s \in Sock : sock[s].pc \in Activating \cup {"serving", "ending"} \/ unreg[s] # "none" =>
                       conn[s].gen # 0
  /\ \A s \in Sock : sock[s].pc \in Opening => conn[s].gen = 0
  /\ \A s, t \in Sock : conn[s].gen # 0 /\ conn[s].gen = conn[t].gen => s = t
  /\ \/ \A s \in Sock : conn[s].gen <= gens
     \/ token = 0 /\ \A s \in Sock : sock[s].pc \in Entering => sock[s].epoch < epoch

-----------------------------------------------------------------------------
(***************************************************************************)
(* Records that several steps write.                                       *)
(***************************************************************************)
\* A publication gives a new generation to a socket that has never been ready.
Publishes(s) ==
  /\ gens' = gens + 1 /\ fence' = gens + 1 /\ current' = s
  /\ conn' = [t \in Sock |->
       IF t = s THEN [conn[s] EXCEPT !.gen = gens + 1, !.life = "live"]
       ELSE IF t = current THEN [conn[t] EXCEPT !.life = "retiring"] ELSE conn[t]]
  /\ sock' = [sock EXCEPT ![s].pc = "retireprev", ![s].prev = current]

\* What _publish_registration makes of the connection objects.
LEMMA PublishedConn ==
  ASSUME Types, NEW s \in Sock, Publishes(s)
  PROVE  /\ ConnT'
         /\ \A t \in Sock : /\ conn'[t].pend = conn[t].pend /\ conn'[t].tombs = conn[t].tombs
                            /\ conn'[t].ready = conn[t].ready
         /\ conn'[s].gen = gens + 1 /\ conn'[s].life = "live"
         /\ \A t \in Sock \ {s} : conn'[t].gen = conn[t].gen
<1> DEFINE new == [conn[s] EXCEPT !.gen = gens + 1, !.life = "live"]
           Was(t) == IF t = current THEN [conn[t] EXCEPT !.life = "retiring"] ELSE conn[t]
<1>1. DOMAIN conn' = Sock /\ conn'[s] = new /\ \A t \in Sock \ {s} : conn'[t] = Was(t)
  BY Zenon DEF Publishes
<1>2. /\ IsConn(new) /\ new.pend = conn[s].pend /\ new.tombs = conn[s].tombs
      /\ new.ready = conn[s].ready /\ new.gen = gens + 1 /\ new.life = "live"
  BY DEF Types, ConnT, IsConn, ConnFields, NumT
<1>3. \A t \in Sock : /\ IsConn(Was(t)) /\ Was(t).pend = conn[t].pend
                      /\ Was(t).tombs = conn[t].tombs /\ Was(t).ready = conn[t].ready
                      /\ Was(t).gen = conn[t].gen
  BY DEF Types, ConnT, IsConn, ConnFields
<1> HIDE DEF new, Was
<1>4. ConnT'
  BY <1>1, <1>2, <1>3, Zenon DEF ConnT
<1>5. ASSUME NEW t \in Sock
      PROVE /\ conn'[t].pend = conn[t].pend /\ conn'[t].tombs = conn[t].tombs
            /\ conn'[t].ready = conn[t].ready
  <2>1. CASE t = s
    BY <1>1, <1>2, <2>1, Zenon
  <2>2. CASE t # s
    BY <1>1, <1>3, <2>2, Zenon
  <2> QED BY <2>1, <2>2, Zenon
<1> QED BY <1>1, <1>2, <1>3, <1>4, <1>5, Zenon

\* How a call ends.
Outcomes == {"unavailable", "busy", "unknown", "cancelled", "result"}

\* The record of a call that ended.
LEMMA EndsRecord ==
  ASSUME Types, NEW c \in Call, NEW out \in Outcomes
  PROVE  LET k == Ends(c, out)
         IN  /\ IsCall(k) /\ k.pc = "done" /\ k.out = out /\ k.fut = "none"
             /\ k.conn = call[c].conn /\ k.wire = call[c].wire
BY DEF Types, CallT, IsCall, Ends, Outcomes

\* _remove_pending forgets a call that was not sent, remembers one that was, or
\* gives the connection up.
LEMMA ExpiredRecord ==
  ASSUME Types, NEW c \in Call, current \in Sock
  PROVE  LET k == Expired(conn[current], c)
         IN  /\ IsConn(k) /\ k.gen = conn[current].gen /\ k.life = conn[current].life
             /\ k.pend = conn[current].pend \ {c} /\ k.tombs \ {c} = conn[current].tombs \ {c}
             /\ k.ready => conn[current].ready /\ ~Full(c)
             /\ call[c].wire # "no" /\ ~Full(c) => c \in k.tombs
<1> DEFINE k == Expired(conn[current], c)
<1>1. IsConn(conn[current])
  BY Zenon DEF Types, ConnT
<1>2. IsConn(k)
  BY <1>1, Zenon DEF IsConn, ConnFields, Expired
<1>3. /\ k.gen = conn[current].gen /\ k.life = conn[current].life
      /\ k.pend = conn[current].pend \ {c} /\ k.tombs \ {c} = conn[current].tombs \ {c}
  BY <1>1, Zenon DEF IsConn, ConnFields, Expired
<1>4. k.ready => conn[current].ready /\ ~Full(c)
  BY <1>1, Zenon DEF IsConn, ConnFields, Expired
<1>5. call[c].wire # "no" /\ ~Full(c) => c \in k.tombs
  BY <1>1, Zenon DEF IsConn, ConnFields, Expired
<1> QED BY <1>2, <1>3, <1>4, <1>5, Zenon

-----------------------------------------------------------------------------
(***************************************************************************)
(* The invariants.                                                         *)
(***************************************************************************)
\* A handshake and a PATCH that hold config_update_lock.
Admitting == {"register", "publish", "retireprev"}
Admits(s) == sock[s].pc \in Admitting
Works(p) == patch[p].pc \notin {"idle", "wait", "done"}

\* Both locks have one holder at a time, and no fence is up while _register_lock is held.
Locks ==
  /\ \A s, t \in Sock : Admits(s) /\ Admits(t) => s = t
  /\ \A p, q \in Patch : Works(p) /\ Works(q) => p = q
  /\ \A s \in Sock : \A p \in Patch : Admits(s) => ~Works(p)
  /\ \A s \in Sock : sock[s].pc = "publish" =>
       (\A t \in Sock : unreg[t] # "locked") /\ \A v \in Revocation : rvk[v].pc # "locked"
  /\ ~RegisterLockFree => fence = 0

\* How far the Device is with the configuration that its activation sends.
Phase(k, pc) ==
  /\ pc = "hello_wait" => k.apply = "pending"
  /\ pc \in {"hello_send", "applying"} => k.apply \in {"issued", "applied"}
  /\ pc = "ack_send" => k.apply = "acking"
Phases == current # NoSock => Phase(conn[current], sock[current].pc)

\* The fence is that of the current connection.
FenceCurrent == fence # 0 /\ current # NoSock => fence = conn[current].gen

\* Where a PATCH may have its fence up, and which; what it waits for has been activated.
Raised == {"commit", "push", "retire"}
PatchFence(p) ==
  /\ patch[p].pc \in Pushing \cup {"mcp_wait"} => sock[patch[p].conn].pc \notin Before
  /\ patch[p].fenced => patch[p].pc \in Raised \cup Pushing
  /\ patch[p].fenced /\ fence # 0 /\ patch[p].gen # 0 => fence = patch[p].gen

Fenced == Locks /\ Phases /\ FenceCurrent /\ (\A p \in Patch : PatchFence(p)) /\ FenceOwned

\* The current connection is being activated.
Activated == current # NoSock /\ sock[current].pc \in Activating

\* How far the Device is with the configuration that a PATCH pushes.
PushPhase(k, pc) ==
  /\ pc = "update_wait" => k.apply = "pending"
  /\ pc \in {"update_send", "applying"} => k.apply \in {"issued", "applied"}
  /\ pc = "ack_send" => k.apply = "acking"

\* A PATCH past begin_config_update: no activation is under way; before its commit is
\* pushed, and until the push is done, a routable connection accepts no call.
PatchDurable(p) ==
  /\ patch[p].pc \in Raised \cup Pushing \cup {"mcp_wait"} => ~Activated
  /\ patch[p].pc \in Raised /\ Routable =>
       /\ conn[current].inflight # "none" /\ patch[p].fenced
       /\ patch[p].gen \in {0, conn[current].gen}
  /\ patch[p].pc \in Pushing /\ Routable =>
       /\ patch[p].conn = current /\ conn[current].inflight # "none"
       /\ conn[current].target = rev /\ PushPhase(conn[current], patch[p].pc)

\* Who enters, is activated or is routed to has the revision that is durable, unless a
\* PATCH has committed a new one and is about to push it.
Committed(p) == patch[p].pc \in {"push", "retire"} \cup Pushing
Revisions ==
  /\ \A s \in Sock : Admits(s) \/ (current = s /\ Activated) => conn[s].rev = rev /\ conn[s].target = rev
  /\ Routable /\ (\A p \in Patch : ~Committed(p)) => conn[current].rev = rev
  /\ rev # 0
FenceUp == Activated => fence = conn[current].gen

\* A connection registers or updates, not both, and binds what is of its revision.
Mark(k, pc) ==
  /\ k.reg => k.inflight = "none"
  /\ k.bind = 0 \/ (k.bind = k.rev /\ pc \notin Opening)
Marks == \A s \in Sock : Mark(conn[s], sock[s].pc)

\* Only a connection that was activated is unregistered or acknowledges a registration,
\* and the one it acknowledges is of its revision.
Unregistering == \A s \in Sock : unreg[s] # "none" => sock[s].pc \notin Before
Registering ==
  \A s \in Sock : mcp[s].pc = "send" =>
    /\ sock[s].pc \notin Before
    /\ mcp[s].ok /\ current = s /\ conn[s].ready /\ conn[s].reg => mcp[s].rev = conn[s].rev

\* What a queued call was dispatched for: the binding until the epoch moves on, and
\* its generation.
Frozen(k) ==
  /\ k.kind = "mcp" /\ k.pc \in {"held", "queued"} => k.cfg # 0
  /\ k.kind = "mcp" /\ k.pc = "queued" /\ k.conn = current =>
       /\ k.mcp <= conn[current].mcp
       /\ k.mcp = conn[current].mcp => conn[current].bind = k.cfg
  /\ k.kind = "route" /\ k.pc = "queued" => conn[k.conn].gen = k.gen
Sides == Marks /\ Unregistering /\ Registering /\ \A c \in Call : Frozen(call[c])

Core == (\A p \in Patch : PatchDurable(p)) /\ Revisions /\ FenceUp
Durable == Core /\ Sides

-----------------------------------------------------------------------------
(***************************************************************************)
(* Steps that take no lock, raise no fence and are of no PATCH.            *)
(***************************************************************************)
\* A socket enters neither a section of config_update_lock nor its activation.
Onto(a, b) ==
  /\ b \in Opening => a \in Opening
  /\ b \in Activating => a \in Activating
  /\ b \in Admitting => b = a

\* A connection object keeps its generation and its revisions.
Like(k, n) == n.gen = k.gen /\ n.rev = k.rev /\ n.target = k.target /\ (n.ready => k.ready)

\* A routable connection goes on with its update as it was, or the Device answers.
Steers(k, n) ==
  n.ready => /\ n.inflight = k.inflight
             /\ n.apply = k.apply \/ (k.apply = "issued" /\ n.apply = "applied")

NoLock ==
  /\ \A t \in Sock : unreg'[t] = "locked" => unreg[t] = "locked"
  /\ \A v \in Revocation : rvk'[v].pc = "locked" => rvk[v].pc = "locked"

Onward ==
  /\ UNCHANGED <<patch, rev>> /\ fence' \in {0, fence} /\ current' \in {NoSock, current}
  /\ \A t \in Sock : Onto(sock[t].pc, sock'[t].pc) /\ Like(conn[t], conn'[t])
  /\ NoLock
  /\ current' # NoSock => /\ Phase(conn'[current], sock'[current].pc)
                          /\ Steers(conn[current], conn'[current])
  /\ fence' # 0 /\ Activated => Activated'

\* A step of this kind keeps the fences.
LEMMA OnwardFenced == ASSUME Types, Types', Fenced, Onward PROVE Fenced'
<1>1. \A t \in Sock : /\ sock'[t].pc \in Before => sock[t].pc \in Before
                      /\ Admits(t)' => Admits(t)
                      /\ sock'[t].pc = "publish" => sock[t].pc = "publish"
                      /\ conn'[t].gen = conn[t].gen
  BY Zenon DEF Onward, Onto, Like, Before, Admits, Admitting
<1>2. \A p \in Patch : Works(p)' <=> Works(p)
  BY Zenon DEF Onward, Works
<1>3. RegisterLockFree => RegisterLockFree'
  BY <1>1, Zenon DEF RegisterLockFree, Onward, NoLock
<1>4. fence' # 0 => fence' = fence
  BY Zenon DEF Onward
<1>5. current' # NoSock => current' = current /\ current \in Sock
  BY Zenon DEF Onward, Types, NumT, Sockets
<1>6. Locks'
  <2>1. \A s, t \in Sock : Admits(s)' /\ Admits(t)' => s = t
    BY <1>1, Zenon DEF Fenced, Locks
  <2>2. \A p, q \in Patch : Works(p)' /\ Works(q)' => p = q
    BY <1>2, Zenon DEF Fenced, Locks
  <2>3. \A s \in Sock : \A p \in Patch : Admits(s)' => ~Works(p)'
    BY <1>1, <1>2, Zenon DEF Fenced, Locks
  <2>4. \A s \in Sock : sock'[s].pc = "publish" =>
          (\A t \in Sock : unreg'[t] # "locked") /\ \A v \in Revocation : rvk'[v].pc # "locked"
    BY <1>1, Zenon DEF Fenced, Locks, Onward, NoLock
  <2>5. ~RegisterLockFree' => fence' = 0
    BY <1>3, <1>4, Zenon DEF Fenced, Locks
  <2> QED BY <2>1, <2>2, <2>3, <2>4, <2>5, Zenon DEF Locks
<1>7. Phases'
  BY <1>5, Zenon DEF Onward, Phases
<1>8. FenceCurrent'
  BY <1>1, <1>4, <1>5, Zenon DEF Fenced, FenceCurrent
<1>9. ASSUME NEW p \in Patch PROVE PatchFence(p)'
  <2>1. patch'[p] = patch[p] /\ PatchFence(p)
    BY Zenon DEF Onward, Fenced
  <2>2. patch[p].pc \in Pushing \cup {"mcp_wait"} => patch[p].conn \in Sock
    BY Zenon DEF Types, PatchT, IsPatch
  <2> QED BY <1>1, <1>4, <2>1, <2>2, Zenon DEF PatchFence
<1>10. FenceOwned'
  <2> SUFFICES ASSUME fence' # 0
               PROVE  \/ \E s \in Sock : current' = s /\ conn'[s].gen = fence' /\ sock'[s].pc \in Activating
                      \/ \E p \in Patch : patch'[p].fenced /\ patch'[p].pc \in Raised
    BY Zenon DEF FenceOwned, Activating, Raised
  <2>1. fence # 0 /\ fence' = fence
    BY <1>4, Zenon
  <2>2. CASE \E s \in Sock : current = s /\ conn[s].gen = fence /\ sock[s].pc \in Activating
    <3>1. PICK s \in Sock : current = s /\ conn[s].gen = fence /\ sock[s].pc \in Activating
      BY <2>2, Zenon
    <3>2. Activated
      BY <3>1, RegistryAssumption, Zenon DEF Activated, RegistryAssumption
    <3>3. Activated' /\ current' = s
      BY <1>5, <3>1, <3>2, Zenon DEF Onward, Activated
    <3> QED BY <1>1, <2>1, <3>1, <3>3, Zenon DEF Activated
  <2>3. CASE \E p \in Patch : patch[p].fenced /\ patch[p].pc \in Raised
    BY <2>3, Zenon DEF Onward
  <2> QED BY <2>1, <2>2, <2>3, Zenon DEF Fenced, FenceOwned, Activating, Raised
<1> QED BY <1>6, <1>7, <1>8, <1>9, <1>10, Zenon DEF Fenced

\* It keeps the revisions, provided that an activation keeps its fence.
LEMMA OnwardCore ==
  ASSUME Types, Types', Fenced, Core, Onward, Activated' => fence' = fence PROVE Core'
<1>1. \A t \in Sock : Admits(t)' => Admits(t)
  BY Zenon DEF Onward, Onto, Admits, Admitting
<1>2. current' # NoSock => current' = current /\ current \in Sock
  BY Zenon DEF Onward, Types, NumT, Sockets
<1>3. Activated' => Activated
  BY <1>2, Zenon DEF Onward, Onto, Activated
<1>4. Routable' => Routable
  BY <1>2, Zenon DEF Onward, Like, Routable
<1>5. \A t \in Sock : Like(conn[t], conn'[t])
  BY Zenon DEF Onward
<1>6. patch' = patch /\ rev' = rev
  BY Zenon DEF Onward
<1>7. ASSUME NEW p \in Patch PROVE PatchDurable(p)'
  <2>1. PatchDurable(p)
    BY Zenon DEF Core
  <2>2. patch[p].pc \in Raised \cup Pushing \cup {"mcp_wait"} => ~Activated'
    BY <1>3, <2>1, Zenon DEF PatchDurable
  <2>3. Routable' => Routable /\ current' = current /\ current \in Sock /\ Steers(conn[current], conn'[current])
                     /\ conn'[current].ready
    BY <1>2, <1>4, Zenon DEF Onward, Routable
  <2>4. patch[p].pc \in Raised /\ Routable' =>
          /\ conn'[current].inflight # "none" /\ patch[p].fenced
          /\ patch[p].gen \in {0, conn'[current].gen}
    BY <1>5, <2>1, <2>3, Zenon DEF PatchDurable, Steers, Like
  <2>5. patch[p].pc \in Pushing /\ Routable' =>
          /\ patch[p].conn = current /\ conn'[current].inflight # "none"
          /\ conn'[current].target = rev /\ PushPhase(conn'[current], patch[p].pc)
    BY <1>5, <2>1, <2>3, Zenon DEF PatchDurable, Steers, Like, PushPhase
  <2> QED BY <1>6, <2>2, <2>3, <2>4, <2>5, Zenon DEF PatchDurable
<1>8. Revisions'
  <2>1. \A s \in Sock : Admits(s)' \/ (current' = s /\ Activated') => conn'[s].rev = rev /\ conn'[s].target = rev
    BY <1>1, <1>2, <1>3, <1>5, RegistryAssumption, Zenon DEF Core, Revisions, Like, RegistryAssumption
  <2>2. Routable' /\ (\A p \in Patch : ~Committed(p)') => conn'[current'].rev = rev
    BY <1>2, <1>4, <1>5, <1>6, Zenon DEF Core, Revisions, Like, Committed, Routable
  <2> QED BY <1>6, <2>1, <2>2, Zenon DEF Core, Revisions
<1>9. FenceUp'
  BY <1>2, <1>3, <1>5, Zenon DEF Core, FenceUp, Like, Activated
<1> QED BY <1>7, <1>8, <1>9, Zenon DEF Core

\* A step that leaves the fence, the activations and the current update alone.
Moves(a, b) ==
  \/ b = a
  \/ a \in Opening \ Admitting /\ b \in Opening \ Admitting
  \/ a \notin Activating /\ b \in {"ending", "closed"}
Aside ==
  /\ UNCHANGED <<patch, rev, fence>> /\ current' \in {NoSock, current}
  /\ current' # current => fence = 0
  /\ \A t \in Sock : Moves(sock[t].pc, sock'[t].pc) /\ Like(conn[t], conn'[t])
  /\ NoLock
  /\ current' # NoSock => /\ conn'[current].apply = conn[current].apply
                          /\ conn'[current].inflight = conn[current].inflight

\* Such a step goes on with what is under way.
LEMMA AsideOnward == ASSUME Types, Fenced, Aside PROVE Onward
<1>1. \A a, b : Moves(a, b) => Onto(a, b) /\ (a \in Activating => b = a) /\ (b \in Activating => b = a)
  BY Zenon DEF Moves, Onto, Opening, Activating, Admitting
<1>2. current' # NoSock => current' = current /\ current \in Sock
  BY Zenon DEF Aside, Types, NumT, Sockets
<1>3. \A t \in Sock : Onto(sock[t].pc, sock'[t].pc) /\ Like(conn[t], conn'[t])
  BY <1>1, Zenon DEF Aside
<1>4. ASSUME current' # NoSock
      PROVE  Phase(conn'[current], sock'[current].pc) /\ Steers(conn[current], conn'[current])
  <2>1. Phase(conn[current], sock[current].pc)
    BY <1>2, <1>4, Zenon DEF Fenced, Phases, Aside
  <2>2. sock'[current].pc \in Activating => sock'[current].pc = sock[current].pc
    BY <1>1, <1>2, <1>4, Zenon DEF Aside
  <2>3. Phase(conn'[current], sock'[current].pc)
    BY <1>4, <2>1, <2>2, Zenon DEF Aside, Phase, Activating
  <2> QED BY <1>4, <2>3, Zenon DEF Aside, Steers
<1>5. fence' # 0 /\ Activated => Activated'
  BY <1>1, <1>2, Zenon DEF Aside, Activated
<1> QED BY <1>3, <1>4, <1>5, Zenon DEF Aside, Onward

\* A step that binds nothing and begins no registration.
Bound(k, n) ==
  /\ n.gen = k.gen /\ n.rev = k.rev /\ n.mcp = k.mcp /\ n.bind \in {0, k.bind}
  /\ n.reg => k.reg /\ n.inflight = k.inflight
  /\ n.ready => k.ready
\* A call that is held or queued stays as it is, but for its future.
Alike(k, n) ==
  /\ n.pc = k.pc /\ n.kind = k.kind /\ n.gen = k.gen /\ n.cfg = k.cfg /\ n.mcp = k.mcp
  /\ n.conn = k.conn
Stays(k, n) == n.pc \in {"held", "queued"} => Alike(k, n)

Beside ==
  /\ current' \in {NoSock, current}
  /\ \A t \in Sock : /\ Bound(conn[t], conn'[t])
                     /\ sock'[t].pc \in Opening => sock[t].pc \in Opening
                     /\ sock'[t].pc \in Before => sock[t].pc \in Before
                     /\ unreg'[t] # "none" => unreg[t] # "none" \/ sock'[t].pc \notin Before
                     /\ mcp'[t].pc = "send" => mcp'[t] = mcp[t]
  /\ current' # NoSock => conn'[current].bind = conn[current].bind

\* What is said of a call that stays is kept with the binding it was dispatched for.
LEMMA FrozenKept ==
  ASSUME Types, NEW c \in Call, Frozen(call[c]), Stays(call[c], call'[c]),
         \A t \in Sock : conn'[t].gen = conn[t].gen,
         current' # NoSock => /\ current' = current /\ conn'[current].mcp = conn[current].mcp
                              /\ conn'[current].bind = conn[current].bind
  PROVE  Frozen(call[c])'
<1>1. CASE call'[c].pc \notin {"held", "queued"}
  BY <1>1, Zenon DEF Frozen
<1>2. CASE Alike(call[c], call'[c])
  <2>1. call[c].pc = "queued" => call[c].conn \in Sock /\ call[c].conn # NoSock
    BY RegistryAssumption, Zenon DEF Types, CallT, IsCall, RegistryAssumption
  <2>2. call[c].kind = "mcp" /\ call[c].pc \in {"held", "queued"} => call[c].cfg # 0
    BY Zenon DEF Frozen
  <2>3. call[c].kind = "mcp" /\ call[c].pc = "queued" /\ call[c].conn = current' =>
          /\ call[c].mcp <= conn'[current'].mcp
          /\ call[c].mcp = conn'[current'].mcp => conn'[current'].bind = call[c].cfg
    BY <2>1, Zenon DEF Frozen
  <2>4. call[c].kind = "route" /\ call[c].pc = "queued" => conn'[call[c].conn].gen = call[c].gen
    BY <2>1, Zenon DEF Frozen
  <2> QED BY <1>2, <2>2, <2>3, <2>4, Zenon DEF Frozen, Alike
<1> QED BY <1>1, <1>2, Zenon DEF Stays

\* It keeps what is said of bindings, unregisters and registrations, and of the calls
\* that stay.
LEMMA BesideSides ==
  ASSUME Types, Types', Sides, Beside
  PROVE  /\ Marks' /\ Unregistering' /\ Registering'
         /\ \A c \in Call : Stays(call[c], call'[c]) => Frozen(call[c])'
<1>1. current' # NoSock => current' = current /\ current \in Sock
  BY Zenon DEF Beside, Types, NumT, Sockets
<1>2. Marks'
  <2> SUFFICES ASSUME NEW s \in Sock PROVE Mark(conn'[s], sock'[s].pc)
    BY Zenon DEF Marks
  <2>1. /\ Bound(conn[s], conn'[s]) /\ Mark(conn[s], sock[s].pc)
        /\ sock'[s].pc \in Opening => sock[s].pc \in Opening
    BY Zenon DEF Beside, Sides, Marks
  <2> QED BY <2>1, Zenon DEF Bound, Mark
<1>3. Unregistering'
  BY Zenon DEF Beside, Sides, Unregistering
<1>4. Registering'
  <2> SUFFICES ASSUME NEW s \in Sock, mcp'[s].pc = "send"
               PROVE  /\ sock'[s].pc \notin Before
                      /\ (mcp'[s].ok /\ current' = s /\ conn'[s].ready /\ conn'[s].reg =>
                           mcp'[s].rev = conn'[s].rev)
    BY Zenon DEF Registering
  <2>1. mcp'[s] = mcp[s] /\ Bound(conn[s], conn'[s])
    BY Zenon DEF Beside
  <2>2. sock[s].pc \notin Before
    BY <2>1, Zenon DEF Sides, Registering
  <2>3. sock'[s].pc \notin Before
    BY <2>2, Zenon DEF Beside
  <2>4. current' = s => current = s
    BY <1>1, RegistryAssumption, Zenon DEF RegistryAssumption
  <2> QED BY <2>1, <2>3, <2>4, Zenon DEF Sides, Registering, Bound
<1>5. ASSUME NEW c \in Call, Stays(call[c], call'[c]) PROVE Frozen(call[c])'
  <2>1. Frozen(call[c])
    BY Zenon DEF Sides
  <2>2. \A t \in Sock : conn'[t].gen = conn[t].gen /\ conn'[t].mcp = conn[t].mcp
    BY Zenon DEF Beside, Bound
  <2>3. current' # NoSock => /\ current' = current /\ conn'[current].mcp = conn[current].mcp
                             /\ conn'[current].bind = conn[current].bind
    BY <1>1, <2>2, Zenon DEF Beside
  <2> QED BY <1>5, <2>1, <2>2, <2>3, FrozenKept, Zenon
<1> QED BY <1>2, <1>3, <1>4, <1>5, Zenon

\* A connection object changes in its calls, its life and its marks only.
Same(k, n) ==
  /\ n.gen = k.gen /\ n.rev = k.rev /\ n.target = k.target /\ n.mcp = k.mcp /\ n.bind = k.bind
  /\ n.inflight = k.inflight /\ n.apply = k.apply /\ (n.ready => k.ready) /\ (n.reg => k.reg)

\* Such a change leaves the configuration and the marks as they were.
LEMMA SameIs == \A k, n : Same(k, n) => Like(k, n) /\ Bound(k, n)
BY Zenon DEF Same, Like, Bound

\* Replacing one connection object by such a one, or none at all.
LEMMA SamePut ==
  ASSUME ConnT, NEW s, NEW k, s \in Sock => IsConn(k) /\ Same(conn[s], k),
         UNCHANGED conn \/ conn' = [conn EXCEPT ![s] = k]
  PROVE  \A t \in Sock : Same(conn[t], conn'[t])
<1>1. CASE UNCHANGED conn
  BY <1>1, Zenon DEF Same
<1>2. CASE conn' = [conn EXCEPT ![s] = k]
  <2>1. (s \in Sock => conn'[s] = k) /\ \A t \in Sock \ {s} : conn'[t] = conn[t]
    BY <1>2, PutConn, Zenon
  <2>2. ASSUME NEW t \in Sock PROVE Same(conn[t], conn'[t])
    <3>1. CASE t = s
      BY <2>1, <3>1, Zenon
    <3>2. CASE t # s
      BY <2>1, <3>2, Zenon DEF Same
    <3> QED BY <3>1, <3>2, Zenon
  <2> QED BY <2>2, Zenon
<1> QED BY <1>1, <1>2, Zenon

\* A step that changes no more of the connection objects, and its socket and call.
LEMMA SameStep ==
  ASSUME Types, UNCHANGED <<patch, rev, fence>>, current' \in {NoSock, current},
         current' # current => fence = 0, NoLock,
         \A t \in Sock : Same(conn[t], conn'[t]) /\ Moves(sock[t].pc, sock'[t].pc)
  PROVE  /\ Aside
         /\ (\A t \in Sock : /\ unreg'[t] # "none" => unreg[t] # "none" \/ sock'[t].pc \notin Before
                             /\ mcp'[t].pc = "send" => mcp'[t] = mcp[t]) => Beside
<1>1. current' # NoSock => current' = current /\ current \in Sock
  BY Zenon DEF Types, NumT, Sockets
<1>2. \A t \in Sock : Like(conn[t], conn'[t]) /\ Bound(conn[t], conn'[t])
  BY SameIs, Zenon
<1>3. current' # NoSock => /\ conn'[current].apply = conn[current].apply
                           /\ conn'[current].inflight = conn[current].inflight
                           /\ conn'[current].bind = conn[current].bind
  BY <1>1, Zenon DEF Same
<1>4. Aside
  BY <1>2, <1>3, Zenon DEF Aside
<1>5. \A t \in Sock : /\ sock'[t].pc \in Opening => sock[t].pc \in Opening
                      /\ sock'[t].pc \in Before => sock[t].pc \in Before
  BY Zenon DEF Moves, Opening, Activating, Before
<1> QED BY <1>2, <1>3, <1>4, <1>5, Zenon DEF Beside

-----------------------------------------------------------------------------
(***************************************************************************)
(* The steps that leave the fence alone.                                   *)
(***************************************************************************)
Tame == Aside /\ Beside /\ \A c \in Call : Stays(call[c], call'[c])

\* The program counter of a socket moves, aside of every activation.
LEMMA SockAside ==
  ASSUME SockT, NEW s \in Sock, NEW pc \in Pcs, Moves(sock[s].pc, pc),
         UNCHANGED sock \/ SockTo(s, pc)
  PROVE  \A t \in Sock : Moves(sock[t].pc, sock'[t].pc)
<1>1. CASE UNCHANGED sock
  BY <1>1, Zenon DEF Moves
<1>2. CASE SockTo(s, pc)
  <2>1. sock'[s].pc = pc /\ \A t \in Sock \ {s} : sock'[t].pc = sock[t].pc
    BY <1>2, SockMoves, Zenon
  <2>2. ASSUME NEW t \in Sock PROVE Moves(sock[t].pc, sock'[t].pc)
    <3>1. CASE t = s
      BY <2>1, <3>1, Zenon
    <3>2. CASE t # s
      BY <2>1, <3>2, Zenon DEF Moves
    <3> QED BY <3>1, <3>2, Zenon
  <2> QED BY <2>2, Zenon
<1> QED BY <1>1, <1>2, Zenon

\* _schedule_unregister takes no lock, and unregisters one socket.
LEMMA ScheduleOne ==
  ASSUME UnregT, NEW s, _schedule_unregister(s)
  PROVE  /\ \A t \in Sock : unreg'[t] = "locked" => unreg[t] = "locked"
         /\ \A t \in Sock \ {s} : unreg'[t] = unreg[t]
BY Zenon DEF UnregT, _schedule_unregister

\* What a step does not change takes no lock.
LEMMA NoLockStill ==
  ASSUME \A t \in Sock : unreg'[t] = "locked" => unreg[t] = "locked", UNCHANGED rvk
  PROVE  NoLock
BY Zenon DEF NoLock

\* The current connection is popped when no fence is up.
LEMMA PopSame ==
  ASSUME Types, current # NoSock, conn' = [conn EXCEPT ![current].life = "retiring"]
  PROVE  \A t \in Sock : Same(conn[t], conn'[t])
<1>1. current \in Sock
  BY Zenon DEF Types, NumT, Sockets
<1> DEFINE k == [conn[current] EXCEPT !.life = "retiring"]
<1>2. IsConn(k) /\ Same(conn[current], k)
  BY <1>1, Zenon DEF Types, ConnT, IsConn, ConnFields, Same
<1>3. conn' = [conn EXCEPT ![current] = k]
  BY Zenon
<1> HIDE DEF k
<1> QED BY <1>1, <1>2, <1>3, SamePut, Zenon DEF Types

\* The runner stops the frame loop of a socket that serves.
LEMMA StopsAside ==
  ASSUME Types, NEW s \in Sock, UNCHANGED sock \/ registration_stops(s)
  PROVE  \A t \in Sock : Moves(sock[t].pc, sock'[t].pc)
<1>1. CASE UNCHANGED sock
  BY <1>1, Zenon DEF Moves
<1>2. CASE registration_stops(s)
  <2> DEFINE pc == IF sock[s].pc = "serving" THEN "ending" ELSE sock[s].pc
  <2>1. pc \in Pcs /\ Moves(sock[s].pc, pc)
    BY Zenon DEF Types, SockT, IsSock, Pcs, Moves, Activating
  <2>2. SockTo(s, pc)
    BY <1>2, Zenon DEF registration_stops
  <2> HIDE DEF pc
  <2> QED BY <2>1, <2>2, SockAside, Zenon DEF Types
<1> QED BY <1>1, <1>2, Zenon

TameSocket(s) ==
  \/ authenticate(s) \/ registration_epoch(s) \/ socket_ends(s) \/ unregister_pops(s)
  \/ register_mcp(s) \/ validate_mcp_registration(s)

\* The start of a handshake, the end of a socket, an unregister and the start of a
\* registration leave the fence alone.
LEMMA TameSocketSteps ==
  ASSUME Types, Books, Fenced, NEW s \in Sock, TameSocket(s) PROVE Tame
<1>1. UNCHANGED conn => \A t \in Sock : Same(conn[t], conn'[t])
  BY Zenon DEF Same
<1>2. CASE authenticate(s) \/ registration_epoch(s)
  <2>1. /\ UNCHANGED <<db, current, gens, fence, epoch, credits, conn, unreg, mcp, patch, rvk, call>>
        /\ sock[s].pc \in {"idle", "authed"}
    BY <1>2, Zenon DEF authenticate, registration_epoch
  <2>2. \A t \in Sock : Moves(sock[t].pc, sock'[t].pc)
    <3>1. sock'[s].pc \in {"authed", "hello"} /\ \A t \in Sock \ {s} : sock'[t] = sock[t]
      BY <1>2, Zenon DEF authenticate, registration_epoch, Types, SockT, IsSock
    <3> QED BY <2>1, <3>1, Zenon DEF Moves, Opening, Admitting
  <2>3. NoLock
    BY <2>1, NoLockStill, Zenon
  <2> QED BY <1>1, <2>1, <2>2, <2>3, SameStep, Zenon DEF Tame, db, Stays, Alike
<1>3. CASE socket_ends(s)
  <2>1. /\ UNCHANGED <<db, current, gens, fence, epoch, credits, conn, mcp, patch, rvk, call>>
        /\ sock[s].pc = "ending" /\ SockTo(s, "closed") /\ _schedule_unregister(s)
    BY <1>3, Zenon DEF socket_ends
  <2>2. \A t \in Sock : Moves(sock[t].pc, sock'[t].pc)
    BY <2>1, SockAside, Zenon DEF Types, Pcs, Moves, Activating
  <2>3. NoLock /\ \A t \in Sock \ {s} : unreg'[t] = unreg[t]
    BY <2>1, ScheduleOne, NoLockStill, Zenon DEF Types
  <2>4. sock'[s].pc \notin Before
    BY <2>1, SockMoves, Zenon DEF Types, Pcs, Before, Opening, Activating
  <2>5. \A t \in Sock : /\ unreg'[t] # "none" => unreg[t] # "none" \/ sock'[t].pc \notin Before
                        /\ mcp'[t].pc = "send" => mcp'[t] = mcp[t]
    BY <2>1, <2>3, <2>4, Zenon
  <2> QED BY <1>1, <2>1, <2>2, <2>3, <2>5, SameStep, Zenon DEF Tame, db, Stays, Alike
<1>4. CASE unregister_pops(s)
  <2>1. /\ UNCHANGED <<db, gens, fence, epoch, credits, sock, mcp, patch, rvk, call>>
        /\ unreg[s] = "locked" /\ unreg' = [unreg EXCEPT ![s] = "done"]
    BY <1>4, Zenon DEF unregister_pops
  <2>2. fence = 0
    BY <2>1, Zenon DEF Fenced, Locks, RegisterLockFree
  <2>3. /\ current' \in {NoSock, current}
        /\ UNCHANGED conn \/ (current # NoSock /\ conn' = [conn EXCEPT ![current].life = "retiring"])
    BY <1>4, Zenon DEF unregister_pops, SameHandle
  <2>4. \A t \in Sock : Same(conn[t], conn'[t])
    BY <1>1, <2>3, PopSame, Zenon
  <2>5. NoLock /\ \A t \in Sock : unreg'[t] # "none" => unreg[t] # "none"
    BY <2>1, Zenon DEF Types, UnregT, NoLock
  <2>6. \A t \in Sock : Moves(sock[t].pc, sock'[t].pc)
    BY <2>1, Zenon DEF Moves
  <2> QED BY <2>1, <2>2, <2>3, <2>4, <2>5, <2>6, SameStep, Zenon DEF Tame, db, Stays, Alike
<1>5. CASE register_mcp(s) \/ validate_mcp_registration(s)
  <2>1. /\ UNCHANGED <<db, current, gens, fence, epoch, credits, conn, unreg, patch, rvk, call>>
        /\ UNCHANGED sock \/ registration_stops(s)
    BY <1>5, Zenon DEF register_mcp, validate_mcp_registration
  <2>2. \A t \in Sock : mcp'[t].pc = "send" => mcp'[t] = mcp[t]
    <3>1. mcp'[s].pc # "send" /\ \A t \in Sock \ {s} : mcp'[t] = mcp[t]
      BY <1>5, Zenon
         DEF register_mcp, validate_mcp_registration, registration_stops, Types, McpT, IsMcp
    <3> QED BY <3>1, Zenon
  <2>3. \A t \in Sock : Moves(sock[t].pc, sock'[t].pc)
    BY <2>1, StopsAside, Zenon
  <2>4. NoLock
    BY <2>1, NoLockStill, Zenon
  <2> QED BY <1>1, <2>1, <2>2, <2>3, <2>4, SameStep, Zenon DEF Tame, db, Stays, Alike
<1> QED BY <1>2, <1>3, <1>4, <1>5, Zenon DEF TameSocket

\* A retirement clears a connection that is not routed to.
LEMMA RetireTame ==
  ASSUME Types, Books, NEW s \in Sock, _retire(s) PROVE Tame
<1> DEFINE k == Retired(conn[s])
<1>1. /\ UNCHANGED <<db, current, gens, fence, epoch, sock, unreg, mcp, patch, rvk>>
      /\ conn[s].life = "retiring" /\ conn' = [conn EXCEPT ![s] = k]
  BY Zenon DEF _retire
<1>2. IsConn(k) /\ Like(conn[s], k) /\ Bound(conn[s], k)
  BY Zenon DEF Types, ConnT, IsConn, ConnFields, Retired, Like, Bound
<1> HIDE DEF k
<1>3. conn'[s] = k /\ \A t \in Sock \ {s} : conn'[t] = conn[t]
  BY <1>1, <1>2, PutConn, Zenon DEF Types
<1>4. current # NoSock => current \in Sock \ {s}
  BY <1>1, Zenon DEF Books, Routes, Types, NumT, Sockets
<1>5. ASSUME NEW t \in Sock PROVE Like(conn[t], conn'[t]) /\ Bound(conn[t], conn'[t])
  <2>1. CASE t = s
    BY <1>2, <1>3, <2>1, Zenon
  <2>2. CASE t # s
    BY <1>3, <2>2, Zenon DEF Like, Bound
  <2> QED BY <2>1, <2>2, Zenon
<1>6. Aside
  BY <1>1, <1>3, <1>4, <1>5, NoLockStill, Zenon DEF Aside, Moves, db
<1>7. ASSUME NEW c \in Call PROVE Stays(call[c], call'[c])
  BY DEF _retire, Types, CallT, IsCall, Stays, Alike
<1>8. Beside
  BY <1>1, <1>3, <1>4, <1>5, <1>7, Zenon DEF Beside
<1> QED BY <1>6, <1>7, <1>8, Zenon DEF Tame

\* The commit of a rotation, the pop of a revocation and its end leave the fence alone.
LEMMA RevokeTame ==
  ASSUME Types, Fenced, NEW v \in Revocation,
         (\E deleted \in BOOLEAN : regenerate_token(v, deleted)) \/ revoke_pops(v) \/ revoked(v)
  PROVE  Tame
<1>1. UNCHANGED <<rev, fence, sock, unreg, mcp, patch, call>>
  BY Zenon DEF regenerate_token, revoke_pops, revoked, db
<1>2. NoLock
  BY <1>1, Zenon DEF regenerate_token, revoke_pops, revoked, NoLock, Types, RvkT, IsRvk
<1>3. /\ current' \in {NoSock, current} /\ (current' # current => fence = 0)
      /\ \A t \in Sock : Same(conn[t], conn'[t])
  <2>1. CASE revoke_pops(v) /\ current # NoSock
    <3>1. fence = 0
      BY <2>1, Zenon DEF revoke_pops, Fenced, Locks, RegisterLockFree
    <3> QED BY <2>1, <3>1, PopSame, Zenon DEF revoke_pops
  <2>2. CASE UNCHANGED <<conn, current>>
    BY <2>2, Zenon DEF Same
  <2> QED BY <2>1, <2>2, Zenon DEF regenerate_token, revoke_pops, revoked
<1>4. \A t \in Sock : Moves(sock[t].pc, sock'[t].pc)
  BY <1>1, Zenon DEF Moves
<1> QED BY <1>1, <1>2, <1>3, <1>4, SameStep, Zenon DEF Tame, Stays, Alike

\* So does an epoch that expires.
LEMMA ExpiryTame == ASSUME Types, _revocation_epoch_expires PROVE Tame
<1>1. UNCHANGED <<rev, current, fence, conn, sock, unreg, mcp, patch, rvk, call>>
  BY Zenon DEF _revocation_epoch_expires, db
<1>2. NoLock
  BY <1>1, NoLockStill, Zenon
<1>3. \A t \in Sock : Moves(sock[t].pc, sock'[t].pc) /\ Same(conn[t], conn'[t])
  BY <1>1, Zenon DEF Moves, Same
<1> QED BY <1>1, <1>2, <1>3, SameStep, Zenon DEF Tame, Stays, Alike

\* A connection that remembers or forgets a call stays the same in everything else.
LEMMA RemoveSame ==
  ASSUME Types, Books, NEW c \in Call, _remove_pending(c)
  PROVE  /\ \A t \in Sock : Same(conn[t], conn'[t])
         /\ \A t \in Sock : unreg'[t] = "locked" => unreg[t] = "locked"
         /\ \A t \in Sock : unreg'[t] # "none" => unreg[t] # "none" \/ sock[t].pc \notin Before
<1>1. CASE ~Held(c)
  BY <1>1, Zenon DEF _remove_pending, Full, Same
<1>2. CASE Held(c)
  <2> DEFINE k == Expired(conn[current], c)
  <2>1. current \in Sock /\ c \in conn[current].pend /\ conn' = [conn EXCEPT ![current] = k]
    BY <1>2, Zenon DEF Held, SameHandle, Types, NumT, Sockets, _remove_pending
  <2>2. IsConn(k)
    BY <2>1, ExpiredRecord, Zenon
  <2>3. Same(conn[current], k)
    BY <2>1, Zenon DEF Types, ConnT, IsConn, ConnFields, Expired, Same
  <2> HIDE DEF k
  <2>4. \A t \in Sock : Same(conn[t], conn'[t])
    BY <2>1, <2>2, <2>3, SamePut, Zenon DEF Types
  <2>5. sock[current].pc \notin Before
    BY <2>1, RegistryAssumption, Zenon DEF Books, Book, Fits, RegistryAssumption
  <2>6. \/ UNCHANGED unreg
        \/ _schedule_unregister(current)
    BY Zenon DEF _remove_pending
  <2> QED BY <2>4, <2>5, <2>6, ScheduleOne, Zenon DEF Types
<1> QED BY <1>1, <1>2, Zenon

\* A call that changes its state, but is not put into a queue.
LEMMA CallStays ==
  ASSUME CallT, NEW c \in Call, NEW k, IsCall(k), k.pc \notin {"held", "queued"},
         call' = [call EXCEPT ![c] = k]
  PROVE  \A d \in Call : Stays(call[d], call'[d])
<1>1. call'[c] = k /\ \A d \in Call \ {c} : call'[d] = call[d]
  BY PutCall, Zenon
<1>2. ASSUME NEW d \in Call PROVE Stays(call[d], call'[d])
  <2>1. CASE d = c
    BY <1>1, <2>1, Zenon DEF Stays
  <2>2. CASE d # c
    BY <1>1, <2>2, Zenon DEF Stays, Alike
  <2> QED BY <2>1, <2>2, Zenon
<1> QED BY <1>2, Zenon

TameCall(c) ==
  \/ _mark_call_issued(c) \/ call_not_sent(c) \/ call_sent(c) \/ send_fails(c) \/ send_failed(c)
  \/ call_cancelled(c) \/ call_times_out(c) \/ call_returns(c) \/ resolve_tool_result(c)

\* What happens to a call after its dispatch leaves the fence alone.
LEMMA TameCallSteps ==
  ASSUME Types, Books, NEW c \in Call, TameCall(c) PROVE Tame
<1>1. UNCHANGED <<rev, current, fence, mcp, patch, rvk>>
  BY Zenon
     DEF TameCall, db, _mark_call_issued, call_not_sent, call_sent, send_fails, send_failed,
         call_cancelled, call_times_out, call_returns, resolve_tool_result
<1>2. IsCall(call[c]) /\ Fits(c, call[c])
  BY Zenon DEF Types, CallT, Books, Book
<1>3. \A d \in Call : Stays(call[d], call'[d])
  <2>1. CASE \E out \in Outcomes : call' = [call EXCEPT ![c] = Ends(c, out)]
    BY <2>1, EndsRecord, CallStays, Zenon DEF Types
  <2>2. CASE _mark_call_issued(c) \/ call_sent(c) \/ send_fails(c) \/ resolve_tool_result(c)
    <3>1. \A d \in Call \ {c} : call'[d] = call[d]
      BY <2>2, Zenon
         DEF _mark_call_issued, call_sent, send_fails, resolve_tool_result, Types, CallT
    <3>2. call'[c].pc \notin {"held", "queued"}
      <4>1. CASE _mark_call_issued(c) \/ call_sent(c) \/ send_fails(c)
        BY <4>1, Zenon DEF _mark_call_issued, call_sent, send_fails, Types, CallT, IsCall
      <4>2. CASE resolve_tool_result(c)
        <5>1. call[c].pc \notin {"held", "queued"}
          BY <1>2, <4>2, Zenon DEF resolve_tool_result, Fits
        <5> DEFINE a == [call[c] EXCEPT !.wire = "answered", !.fut = "result"]
                   b == [call[c] EXCEPT !.wire = "answered"]
        <5>2. call' = [call EXCEPT ![c] = a] \/ call' = [call EXCEPT ![c] = b]
          BY <4>2, Zenon DEF resolve_tool_result
        <5>3. a.pc = call[c].pc /\ b.pc = call[c].pc
          BY <1>2, Zenon DEF IsCall
        <5> HIDE DEF a, b
        <5>4. call'[c].pc = call[c].pc
          BY <5>2, <5>3, Zenon DEF Types, CallT
        <5> QED BY <5>1, <5>4, Zenon
      <4> QED BY <2>2, <4>1, <4>2, Zenon
    <3> QED BY <3>1, <3>2, Zenon DEF Stays, Alike
  <2>3. call[c].fut # "none" => call[c].fut \in Outcomes
    BY <1>2, Zenon DEF IsCall, Outcomes
  <2> QED BY <2>1, <2>2, <2>3, Zenon
     DEF TameCall, call_not_sent, send_failed, call_cancelled, call_times_out, call_returns, Outcomes
<1>4. /\ \A t \in Sock : Same(conn[t], conn'[t])
      /\ \A t \in Sock : unreg'[t] = "locked" => unreg[t] = "locked"
      /\ \A t \in Sock : unreg'[t] # "none" => unreg[t] # "none" \/ sock[t].pc \notin Before
  <2>1. CASE UNCHANGED <<conn, unreg>>
    BY <2>1, Zenon DEF Same
  <2>2. CASE _remove_pending(c)
    BY <2>2, RemoveSame, Zenon
  <2>3. CASE send_fails(c)
    <3>1. call[c].conn \in Sock /\ UNCHANGED conn /\ _schedule_unregister(call[c].conn)
      BY <1>2, <2>3, Zenon DEF send_fails, IsCall
    <3>2. sock[call[c].conn].pc \notin Before
      BY <1>2, <3>1, RegistryAssumption, Zenon DEF Fits, RegistryAssumption
    <3>3. /\ \A t \in Sock : unreg'[t] = "locked" => unreg[t] = "locked"
          /\ \A t \in Sock \ {call[c].conn} : unreg'[t] = unreg[t]
      BY <3>1, ScheduleOne, Zenon DEF Types
    <3>4. \A t \in Sock : Same(conn[t], conn'[t])
      BY <3>1, Zenon DEF Same
    <3> QED BY <3>2, <3>3, <3>4, Zenon
  <2>4. CASE resolve_tool_result(c)
    <3> DEFINE s == call[c].conn
               a == [conn[s] EXCEPT !.pend = @ \ {c}]
               b == [conn[s] EXCEPT !.tombs = @ \ {c}]
    <3>1. s \in Sock /\ UNCHANGED unreg
      BY <1>2, <2>4, Zenon DEF resolve_tool_result, IsCall
    <3>2. \/ UNCHANGED conn
          \/ conn' = [conn EXCEPT ![s] = a]
          \/ conn' = [conn EXCEPT ![s] = b]
      BY <2>4, Zenon DEF resolve_tool_result
    <3> HIDE DEF s
    <3>3. IsConn(a) /\ Same(conn[s], a) /\ IsConn(b) /\ Same(conn[s], b)
      BY <3>1, Zenon DEF Types, ConnT, IsConn, ConnFields, Same
    <3> HIDE DEF a, b
    <3> QED BY <3>1, <3>2, <3>3, SamePut, Zenon DEF Types
  <2> QED BY <2>1, <2>2, <2>3, <2>4, Zenon
     DEF TameCall, _mark_call_issued, call_not_sent, call_sent, send_failed, call_cancelled,
         call_times_out, call_returns
<1>5. \A t \in Sock : Moves(sock[t].pc, sock'[t].pc)
  <2>1. CASE UNCHANGED sock
    BY <2>1, Zenon DEF Moves
  <2>2. CASE resolve_tool_result(c)
    <3>1. /\ call[c].conn \in Sock /\ sock[call[c].conn].pc = "serving"
          /\ UNCHANGED sock \/ SockTo(call[c].conn, "ending")
      BY <1>2, <2>2, Zenon DEF resolve_tool_result, IsCall
    <3> QED BY <3>1, SockAside, Zenon DEF Types, Pcs, Moves, Activating
  <2> QED BY <2>1, <2>2, Zenon
     DEF TameCall, _mark_call_issued, call_not_sent, call_sent, send_fails, send_failed,
         call_cancelled, call_times_out, call_returns
<1>6. NoLock
  BY <1>1, <1>4, NoLockStill, Zenon
<1>7. \A t \in Sock : unreg'[t] # "none" => unreg[t] # "none" \/ sock'[t].pc \notin Before
  BY <1>4, <1>5, Zenon DEF Moves, Before, Opening, Activating
<1> QED BY <1>1, <1>3, <1>4, <1>5, <1>6, <1>7, SameStep, Zenon DEF Tame

-----------------------------------------------------------------------------
(***************************************************************************)
(* Registrations and dispatches, which also leave the fence alone.         *)
(***************************************************************************)
\* The registration mark of a connection is cleared.
LEMMA UnmarkSame ==
  ASSUME Types, NEW s \in Sock, conn' = [conn EXCEPT ![s].reg = FALSE]
  PROVE  \A t \in Sock : Same(conn[t], conn'[t])
<1> DEFINE k == [conn[s] EXCEPT !.reg = FALSE]
<1>1. IsConn(k) /\ Same(conn[s], k)
  BY Zenon DEF Types, ConnT, IsConn, ConnFields, Same
<1>2. conn' = [conn EXCEPT ![s] = k]
  BY Zenon
<1> HIDE DEF k
<1> QED BY <1>1, <1>2, SamePut, Zenon DEF Types

\* A registration that stops leaves the fence alone.
LEMMA StopTame ==
  ASSUME Types, NEW s \in Sock, registration_stops(s),
         UNCHANGED conn \/ conn' = [conn EXCEPT ![s].reg = FALSE],
         UNCHANGED <<rev, current, fence, unreg, patch, rvk, call>>
  PROVE  Tame
<1>1. \A t \in Sock : Same(conn[t], conn'[t])
  BY UnmarkSame, Zenon DEF Same
<1>2. \A t \in Sock : Moves(sock[t].pc, sock'[t].pc)
  BY StopsAside, Zenon
<1>3. \A t \in Sock : mcp'[t].pc = "send" => mcp'[t] = mcp[t]
  <2>1. mcp'[s].pc # "send" /\ \A t \in Sock \ {s} : mcp'[t] = mcp[t]
    BY Zenon DEF registration_stops, Types, McpT, IsMcp
  <2> QED BY <2>1, Zenon
<1>4. NoLock
  BY NoLockStill, Zenon
<1> QED BY <1>1, <1>2, <1>3, <1>4, SameStep, Zenon DEF Tame, Stays, Alike

\* The registration begins, is acknowledged, and what it binds is of the revision of the
\* connection.
RegistrationGoesOn(s) ==
  \/ publish_mcp_registration(s) \/ send_register_ack(s) \/ mcp_registered(s)

\* publish_mcp_registration, its acknowledgement and its end keep what is said of bindings.
LEMMA RegistrationSteps ==
  ASSUME Types, Types', Books, NEW s \in Sock, RegistrationGoesOn(s)
  PROVE  Aside /\ (Sides => Sides')
<1>1. UNCHANGED <<rev, current, fence, unreg, patch, rvk, call>>
  BY Zenon DEF RegistrationGoesOn, publish_mcp_registration, send_register_ack, mcp_registered, db
<1>2. NoLock
  BY <1>1, NoLockStill, Zenon
<1>3. \A c \in Call : Stays(call[c], call'[c])
  BY <1>1, Zenon DEF Stays, Alike
<1>4. CASE Tame
  BY <1>4, BesideSides, Zenon DEF Tame, Sides
<1>5. CASE registration_stops(s) /\ (UNCHANGED conn \/ conn' = [conn EXCEPT ![s].reg = FALSE])
  BY <1>1, <1>4, <1>5, StopTame, Zenon
<1>6. ASSUME NEW k, IsConn(k), Like(conn[s], k), k.apply = conn[s].apply, k.inflight = conn[s].inflight,
             UNCHANGED sock, conn' = [conn EXCEPT ![s] = k]
      PROVE  Aside /\ conn'[s] = k /\ \A t \in Sock \ {s} : conn'[t] = conn[t]
  <2>1. conn'[s] = k /\ \A t \in Sock \ {s} : conn'[t] = conn[t]
    BY <1>6, PutConn, Zenon DEF Types
  <2>2. ASSUME NEW t \in Sock PROVE /\ Like(conn[t], conn'[t]) /\ Moves(sock[t].pc, sock'[t].pc)
                                    /\ conn'[t].apply = conn[t].apply
                                    /\ conn'[t].inflight = conn[t].inflight
    <3>1. CASE t = s
      BY <1>6, <2>1, <3>1, Zenon DEF Moves
    <3>2. CASE t # s
      BY <1>6, <2>1, <3>2, Zenon DEF Moves, Like
    <3> QED BY <3>1, <3>2, Zenon
  <2>3. current # NoSock => current \in Sock
    BY Zenon DEF Types, NumT, Sockets
  <2> QED BY <1>1, <1>2, <2>1, <2>2, <2>3, Zenon DEF Aside
\* Reserving: the connection is marked, and waits for no update.
<1>7. CASE publish_mcp_registration(s) /\ CanRegister(s)
  <2> DEFINE k == [conn[s] EXCEPT !.reg = TRUE]
  <2>1. /\ conn[s].inflight = "none" /\ UNCHANGED sock /\ conn' = [conn EXCEPT ![s] = k]
        /\ mcp' = [mcp EXCEPT ![s].pc = "queued"]
    BY <1>7, Zenon DEF publish_mcp_registration
  <2>2. /\ IsConn(k) /\ Like(conn[s], k) /\ k.apply = conn[s].apply /\ k.inflight = conn[s].inflight
        /\ k.mcp = conn[s].mcp /\ k.bind = conn[s].bind /\ k.rev = conn[s].rev /\ k.gen = conn[s].gen
    BY Zenon DEF Types, ConnT, IsConn, ConnFields, Like
  <2> HIDE DEF k
  <2>3. Aside /\ conn'[s] = k /\ \A t \in Sock \ {s} : conn'[t] = conn[t]
    BY <1>6, <2>1, <2>2, Zenon
  <2>4. mcp'[s].pc = "queued" /\ \A t \in Sock \ {s} : mcp'[t] = mcp[t]
    BY <2>1, Zenon DEF Types, McpT, IsMcp
  <2>5. ASSUME Sides PROVE Sides'
    <3>1. Marks'
      BY <2>1, <2>2, <2>3, <2>5, Zenon DEF Sides, Marks, Mark
    <3>2. Unregistering'
      BY <1>1, <2>1, <2>5, Zenon DEF Sides, Unregistering
    <3>3. Registering'
      <4>1. ASSUME NEW t \in Sock, mcp'[t].pc = "send" PROVE t \in Sock \ {s}
        BY <2>4, <4>1, Zenon
      <4> QED BY <1>1, <2>1, <2>3, <2>4, <2>5, <4>1, Zenon DEF Sides, Registering
    <3>4. ASSUME NEW c \in Call PROVE Frozen(call[c])'
      <4>1. Frozen(call[c]) /\ Stays(call[c], call'[c])
        BY <1>3, <2>5, Zenon DEF Sides
      <4>2. \A t \in Sock : /\ conn'[t].gen = conn[t].gen /\ conn'[t].mcp = conn[t].mcp
                            /\ conn'[t].bind = conn[t].bind
        BY <2>2, <2>3, Zenon
      <4>3. current' # NoSock => current' = current /\ current \in Sock
        BY <1>1, Zenon DEF Types, NumT, Sockets
      <4> QED BY <4>1, <4>2, <4>3, FrozenKept, Zenon
    <3> QED BY <3>1, <3>2, <3>3, <3>4, Zenon DEF Sides
  <2> QED BY <2>3, <2>5, Zenon
\* The acknowledgement: it is still of the connection's revision.
<1>8. CASE send_register_ack(s) /\ current = s /\ conn[s].ready /\ conn[s].inflight = "none" /\ conn[s].reg
  <2> DEFINE m == [mcp[s] EXCEPT !.pc = "send", !.ok = mcp[s].ok /\ conn[s].rev = mcp[s].rev]
  <2>1. UNCHANGED <<sock, conn>> /\ mcp' = [mcp EXCEPT ![s] = m]
    BY <1>8, Zenon DEF send_register_ack
  <2>2. IsMcp(m) /\ m.rev = mcp[s].rev /\ (m.ok => conn[s].rev = mcp[s].rev)
    BY Zenon DEF Types, McpT, IsMcp
  <2> HIDE DEF m
  <2>3. mcp'[s] = m /\ \A t \in Sock \ {s} : mcp'[t] = mcp[t]
    BY <2>1, <2>2, PutMcp, Zenon DEF Types
  <2>4. sock[s].pc \notin Before
    BY <1>8, Zenon DEF Books, Routes
  <2>5. Aside
    BY <1>1, <1>2, <2>1, Zenon DEF Aside, Moves, Like
  <2>6. ASSUME Sides PROVE Sides'
    <3>1. Registering'
      <4> SUFFICES ASSUME NEW t \in Sock, mcp'[t].pc = "send"
                   PROVE  /\ sock[t].pc \notin Before
                          /\ (mcp'[t].ok /\ current = t /\ conn[t].ready /\ conn[t].reg =>
                               mcp'[t].rev = conn[t].rev)
        BY <1>1, <2>1, Zenon DEF Registering
      <4>1. CASE t = s
        BY <2>2, <2>3, <2>4, <4>1, Zenon
      <4>2. CASE t # s
        BY <2>3, <2>6, <4>2, Zenon DEF Sides, Registering
      <4> QED BY <4>1, <4>2, Zenon
    <3>2. Marks' /\ Unregistering' /\ \A c \in Call : Frozen(call[c])'
      BY <1>1, <2>1, <2>6, Zenon DEF Sides, Marks, Unregistering, Frozen
    <3> QED BY <3>1, <3>2, Zenon DEF Sides
  <2> QED BY <2>5, <2>6, Zenon
\* The binding: the epoch moves on, so that what is queued for the old one is not sent.
<1>9. CASE mcp_registered(s) /\ current = s /\ conn[s].ready /\ conn[s].reg
  <2> DEFINE b == IF mcp[s].ok THEN mcp[s].rev ELSE 0
             k == [conn[s] EXCEPT !.bind = b, !.mcp = @ + 1, !.reg = FALSE]
  <2>1. /\ UNCHANGED sock /\ conn' = [conn EXCEPT ![s] = k] /\ mcp[s].pc = "send"
        /\ mcp' = [mcp EXCEPT ![s] = [@ EXCEPT !.pc = "idle", !.rev = 0, !.ok = FALSE]]
    BY <1>9, Zenon DEF mcp_registered
  <2>2. b \in Nat /\ (mcp[s].ok => b = mcp[s].rev) /\ (~mcp[s].ok => b = 0)
    BY Zenon DEF Types, McpT, IsMcp
  <2> HIDE DEF b
  <2>3. /\ IsConn(k) /\ Like(conn[s], k) /\ k.apply = conn[s].apply /\ k.inflight = conn[s].inflight
        /\ k.mcp = conn[s].mcp + 1 /\ k.bind = b /\ k.rev = conn[s].rev /\ k.gen = conn[s].gen /\ ~k.reg
    BY <2>2 DEF Types, ConnT, IsConn, ConnFields, Like
  <2> HIDE DEF k
  <2>4. Aside /\ conn'[s] = k /\ \A t \in Sock \ {s} : conn'[t] = conn[t]
    BY <1>6, <2>1, <2>3, Zenon
  <2>5. mcp'[s].pc = "idle" /\ \A t \in Sock \ {s} : mcp'[t] = mcp[t]
    BY <2>1, Zenon DEF Types, McpT, IsMcp
  <2>6. ASSUME Sides PROVE Sides'
    <3>1. sock[s].pc \notin Before /\ (mcp[s].ok => mcp[s].rev = conn[s].rev)
      BY <1>9, <2>1, <2>6, Zenon DEF Sides, Registering
    <3>2. Mark(k, sock[s].pc)
      BY <2>2, <2>3, <3>1, Zenon DEF Mark, Before
    <3>3. Marks'
      BY <2>1, <2>4, <2>6, <3>2, Zenon DEF Sides, Marks
    <3>4. Unregistering'
      BY <1>1, <2>1, <2>6, Zenon DEF Sides, Unregistering
    <3>5. Registering'
      <4>1. ASSUME NEW t \in Sock, mcp'[t].pc = "send" PROVE t \in Sock \ {s}
        BY <2>5, <4>1, Zenon
      <4> QED BY <1>1, <2>1, <2>4, <2>5, <2>6, <4>1, Zenon DEF Sides, Registering
    <3>6. ASSUME NEW c \in Call PROVE Frozen(call[c])'
      <4>1. Frozen(call[c]) /\ call[c].mcp \in Nat /\ conn[s].mcp \in Nat
        BY <2>6, Zenon DEF Sides, Types, CallT, IsCall, ConnT, IsConn
      <4>2. call[c].kind = "mcp" /\ call[c].pc = "queued" /\ call[c].conn = s =>
              call[c].mcp <= k.mcp /\ call[c].mcp # k.mcp
        <5>1. call[c].kind = "mcp" /\ call[c].pc = "queued" /\ call[c].conn = s =>
                call[c].mcp <= conn[s].mcp
          BY <1>9, <4>1, Zenon DEF Frozen
        <5> QED BY <2>3, <4>1, <5>1
      <4>3. call[c].kind = "route" /\ call[c].pc = "queued" => conn'[call[c].conn].gen = call[c].gen
        <5>1. call[c].pc = "queued" => call[c].conn \in Sock
          BY Zenon DEF Types, CallT, IsCall
        <5>2. \A t \in Sock : conn'[t].gen = conn[t].gen
          BY <2>3, <2>4, Zenon
        <5> QED BY <4>1, <5>1, <5>2, Zenon DEF Frozen
      <4>4. call[c].kind = "mcp" /\ call[c].pc \in {"held", "queued"} => call[c].cfg # 0
        BY <4>1, Zenon DEF Frozen
      <4> QED BY <1>1, <1>9, <2>4, <4>2, <4>3, <4>4, Zenon DEF Frozen
    <3> QED BY <3>3, <3>4, <3>5, <3>6, Zenon DEF Sides
  <2> QED BY <2>4, <2>6, Zenon
<1> QED BY <1>5, <1>7, <1>8, <1>9, Zenon
   DEF RegistrationGoesOn, publish_mcp_registration, send_register_ack, mcp_registered

\* A route that is taken, and a call that is dispatched for it, agree with the connection.
LEMMA DispatchSteps ==
  ASSUME Types, Types', NEW c \in Call,
         (\E kind \in {"name", "route", "mcp"} : get_route(c, kind)) \/ _dispatch_tool(c)
  PROVE  Aside /\ (Durable => Sides')
<1>1. UNCHANGED <<rev, current, fence, sock, unreg, mcp, patch, rvk>>
  BY Zenon DEF get_route, _dispatch_tool, db
<1>2. NoLock /\ \A t \in Sock : Moves(sock[t].pc, sock'[t].pc)
  BY <1>1, NoLockStill, Zenon DEF Moves
<1> DEFINE k == [conn[current] EXCEPT !.pend = @ \cup {c}]
<1>3. UNCHANGED conn \/ (current \in Sock /\ conn' = [conn EXCEPT ![current] = k])
  BY Zenon DEF get_route, _dispatch_tool, Accepts, Idle, Routable, Types, NumT, Sockets
<1>4. current \in Sock => IsConn(k) /\ Same(conn[current], k)
  BY Zenon DEF Types, ConnT, IsConn, ConnFields, Same
<1> HIDE DEF k
<1>5. \A t \in Sock : Same(conn[t], conn'[t])
  BY <1>3, <1>4, SamePut, Zenon DEF Types
<1>6. Aside /\ Beside
  BY <1>1, <1>2, <1>5, SameStep, Zenon
<1>7. \A d \in Call \ {c} : call'[d] = call[d]
  BY Zenon DEF get_route, _dispatch_tool, Types, CallT
<1>8. IsCall(call[c])
  BY Zenon DEF Types, CallT
<1>9. current # NoSock => current \in Sock
  BY Zenon DEF Types, NumT, Sockets
<1>10. ASSUME Durable PROVE Sides'
  <2>1. Sides /\ rev # 0 /\ Frozen(call[c])
    BY <1>10, Zenon DEF Durable, Core, Revisions, Sides
  <2>2. \A d \in Call \ {c} : Stays(call[d], call'[d])
    BY <1>7, Zenon DEF Stays, Alike
  <2>3. Frozen(call[c])'
    <3>1. ASSUME NEW kind \in {"name", "route", "mcp"}, get_route(c, kind) PROVE Frozen(call[c])'
      <4> DEFINE g == IF kind = "route" THEN conn[current].gen ELSE 0
                 f == CASE kind = "route" -> conn[current].cfg [] kind = "mcp" -> rev [] OTHER -> 0
                 n == [call[c] EXCEPT !.pc = "held", !.kind = kind, !.gen = g, !.cfg = f]
      <4>1. call' = [call EXCEPT ![c] = n]
        BY <3>1, Zenon DEF get_route
      <4>2. kind = "mcp" => f = rev
        OBVIOUS
      <4> HIDE DEF f, g
      <4>3. n.pc = "held" /\ n.kind = kind /\ n.cfg = f
        BY <1>8, Zenon DEF IsCall
      <4> HIDE DEF n
      <4>4. call'[c] = n
        BY <4>1, Zenon DEF Types, CallT
      <4> QED BY <2>1, <4>2, <4>3, <4>4, Zenon DEF Frozen
    <3>2. CASE _dispatch_tool(c)
      <4>1. CASE \E out \in Outcomes : call' = [call EXCEPT ![c] = Ends(c, out)]
        <5>1. \A d \in Call : Stays(call[d], call'[d])
          BY <4>1, EndsRecord, CallStays, Zenon DEF Types
        <5> QED BY <1>6, <2>1, <5>1, BesideSides, Zenon
      <4> DEFINE n == [call[c] EXCEPT !.pc = "queued", !.conn = current, !.mcp = conn[current].mcp]
      <4>2. CASE Accepts(c) /\ call' = [call EXCEPT ![c] = n]
        <5>1. /\ n.pc = "queued" /\ n.kind = call[c].kind /\ n.cfg = call[c].cfg /\ n.gen = call[c].gen
              /\ n.conn = current /\ n.mcp = conn[current].mcp
          BY <1>8, Zenon DEF IsCall
        <5> HIDE DEF n
        <5>2. call'[c] = n /\ current' = current /\ current \in Sock /\ conn[current].mcp \in Nat
          BY <1>1, <1>9, <4>2, Zenon DEF Types, CallT, Accepts, Idle, Routable, ConnT, IsConn
        <5>3. Same(conn[current], conn'[current])
          BY <1>5, <5>2, Zenon
        <5>4. call[c].pc = "held"
          BY <3>2, Zenon DEF _dispatch_tool
        <5>5. call[c].kind = "mcp" => call[c].cfg # 0 /\ conn[current].bind = call[c].cfg
          BY <2>1, <4>2, <5>4, Zenon DEF Frozen, Accepts
        <5>6. call[c].kind = "route" => conn[current].gen = call[c].gen
          BY <4>2, Zenon DEF Accepts
        <5>7. conn[current].mcp <= conn'[current].mcp
          BY <5>2, <5>3 DEF Same
        <5> QED BY <5>1, <5>2, <5>3, <5>5, <5>6, <5>7, Zenon DEF Frozen, Same
      <4> QED BY <3>2, <4>1, <4>2, Zenon DEF _dispatch_tool, Outcomes
    <3> QED BY <3>1, <3>2, Zenon
  <2> QED BY <1>6, <2>1, <2>2, <2>3, BesideSides, Zenon DEF Sides
<1> QED BY <1>6, <1>10, Zenon

-----------------------------------------------------------------------------
(***************************************************************************)
(* Activations.                                                            *)
(***************************************************************************)
Smooth == Onward /\ Beside /\ \A c \in Call : Stays(call[c], call'[c])

\* An activation goes on, or ends because it is no longer current.
LEMMA Advances ==
  ASSUME Types, Books, NEW s \in Sock, sock[s].pc \in Activating,
         NEW pc \in (Activating \ {"retireprev"}) \cup {"ending"}, SockTo(s, pc),
         NEW mark \in {"pending", "issued", "applied", "acking"},
         UNCHANGED conn \/ conn' = [conn EXCEPT ![s].apply = mark],
         UNCHANGED <<rev, current, fence, unreg, mcp, patch, rvk, call>>,
         current = s => Phase(conn'[s], pc) /\ pc # "ending", Fenced
  PROVE  Smooth
<1>1. sock'[s].pc = pc /\ \A t \in Sock \ {s} : sock'[t].pc = sock[t].pc
  BY SockMoves, Zenon DEF Types, Pcs, Before
<1> DEFINE k == [conn[s] EXCEPT !.apply = mark]
<1>2. IsConn(k) /\ Like(conn[s], k) /\ Bound(conn[s], k) /\ k.bind = conn[s].bind
  BY Zenon DEF Types, ConnT, IsConn, ConnFields, Like, Bound
<1>3. UNCHANGED conn \/ conn' = [conn EXCEPT ![s] = k]
  BY Zenon
<1> HIDE DEF k
<1>4. /\ \A t \in Sock \ {s} : conn'[t] = conn[t]
      /\ Like(conn[s], conn'[s]) /\ Bound(conn[s], conn'[s]) /\ conn'[s].bind = conn[s].bind
  <2>1. CASE UNCHANGED conn
    BY <2>1, Zenon DEF Like, Bound
  <2>2. CASE conn' = [conn EXCEPT ![s] = k]
    BY <1>2, <2>2, PutConn, Zenon DEF Types
  <2> QED BY <1>3, <2>1, <2>2, Zenon
<1>5. ~conn[s].ready
  BY Zenon DEF Books, Routes, Before
<1>6. ASSUME NEW t \in Sock
      PROVE  /\ Onto(sock[t].pc, sock'[t].pc) /\ Like(conn[t], conn'[t]) /\ Bound(conn[t], conn'[t])
             /\ conn'[t].bind = conn[t].bind
             /\ sock'[t].pc \in Opening => sock[t].pc \in Opening
             /\ sock'[t].pc \in Before => sock[t].pc \in Before
  <2>1. CASE t = s
    <3>1. Onto(sock[s].pc, pc) /\ pc \notin Opening
      BY Zenon DEF Onto, Opening, Activating, Admitting
    <3> QED BY <1>1, <1>4, <2>1, <3>1, Zenon DEF Before
  <2>2. CASE t # s
    BY <1>1, <1>4, <2>2, Zenon DEF Onto, Like, Bound
  <2> QED BY <2>1, <2>2, Zenon
<1>7. current # NoSock => current \in Sock
  BY Zenon DEF Types, NumT, Sockets
<1>8. current # NoSock => /\ Phase(conn'[current], sock'[current].pc)
                          /\ Steers(conn[current], conn'[current])
  <2>1. CASE current = s
    BY <1>1, <1>4, <1>5, <2>1, Zenon DEF Steers, Like
  <2>2. CASE current # s
    BY <1>1, <1>4, <1>7, <2>2, Zenon DEF Steers, Fenced, Phases
  <2> QED BY <2>1, <2>2, Zenon
<1>9. Activated => Activated'
  BY <1>1, <1>7, Zenon DEF Activated
<1>10. NoLock
  BY NoLockStill, Zenon
<1>11. Onward
  BY <1>6, <1>8, <1>9, <1>10, Zenon DEF Onward
<1>12. Beside
  BY <1>6, <1>7, Zenon DEF Beside
<1> QED BY <1>11, <1>12, Zenon DEF Smooth, Stays, Alike

ActivationGoesOn(s) ==
  \/ register_returns(s) \/ activate(s) \/ send_hello_ack(s) \/ hello_ack_sent(s)
  \/ send_applied_ack(s) \/ resolve_config_applied(s)

\* The steps of an activation up to its end go on with what is under way.
LEMMA ActivationSteps ==
  ASSUME Types, Books, Fenced, NEW s \in Sock, ActivationGoesOn(s) PROVE Smooth /\ UNCHANGED fence
<1>1. UNCHANGED <<rev, current, fence, unreg, mcp, patch, rvk, call>>
  BY Zenon
     DEF ActivationGoesOn, register_returns, activate, send_hello_ack, hello_ack_sent,
         send_applied_ack, resolve_config_applied, activate_send, db
<1>2. s # NoSock
  BY RegistryAssumption, Zenon DEF RegistryAssumption
<1>3. current = s => Phase(conn[s], sock[s].pc)
  BY <1>2, Zenon DEF Fenced, Phases
<1>4. ASSUME NEW mark \in {"pending", "issued", "applied", "acking"}, conn' = [conn EXCEPT ![s].apply = mark]
      PROVE  conn'[s].apply = mark
  BY <1>4, Zenon DEF Types, ConnT, IsConn, ConnFields
<1>0. /\ "retireprev" \in Activating
      /\ \A x \in {"activate", "hello_wait", "hello_send", "applying", "ack_send"} :
           x \in Activating /\ x \in (Activating \ {"retireprev"}) \cup {"ending"} /\ x # "ending"
  BY DEF Activating
<1>5. CASE register_returns(s)
  <2>1. sock[s].pc = "retireprev" /\ SockTo(s, "activate") /\ UNCHANGED conn
    BY <1>5, Zenon DEF register_returns
  <2>2. Phase(conn'[s], "activate")
    BY Zenon DEF Phase
  <2> QED BY <1>0, <1>1, <2>1, <2>2, Advances, Zenon
<1>6. CASE activate(s)
  <2>1. sock[s].pc = "activate"
    BY <1>6, Zenon DEF activate
  <2>2. CASE current = s
    <3>1. conn' = [conn EXCEPT ![s].apply = "pending"] /\ SockTo(s, "hello_wait")
      BY <1>6, <2>2, Zenon DEF activate
    <3>2. Phase(conn'[s], "hello_wait")
      BY <1>4, <3>1, Zenon DEF Phase
    <3> QED BY <1>0, <1>1, <2>1, <3>1, <3>2, Advances, Zenon
  <2>3. CASE current # s
    <3>1. UNCHANGED conn /\ SockTo(s, "ending")
      BY <1>6, <2>3, Zenon DEF activate
    <3> QED BY <1>1, <2>1, <2>3, <3>1, Advances, Zenon DEF Activating
  <2> QED BY <2>2, <2>3, Zenon
<1>7. CASE send_hello_ack(s)
  <2>1. sock[s].pc = "hello_wait"
    BY <1>7, Zenon DEF send_hello_ack, activate_send
  <2>2. CASE current = s
    <3>1. conn' = [conn EXCEPT ![s].apply = "issued"] /\ SockTo(s, "hello_send")
      BY <1>3, <1>7, <2>1, <2>2, Zenon DEF send_hello_ack, activate_send, Phase
    <3>2. Phase(conn'[s], "hello_send")
      BY <1>4, <3>1, Zenon DEF Phase
    <3> QED BY <1>0, <1>1, <2>1, <3>1, <3>2, Advances, Zenon
  <2>3. CASE current # s
    <3>1. UNCHANGED conn /\ SockTo(s, "ending")
      BY <1>7, <2>3, Zenon DEF send_hello_ack, activate_send
    <3> QED BY <1>1, <2>1, <2>3, <3>1, Advances, Zenon DEF Activating
  <2> QED BY <2>2, <2>3, Zenon
<1>8. CASE hello_ack_sent(s)
  <2>1. sock[s].pc = "hello_send" /\ SockTo(s, "applying") /\ UNCHANGED conn
    BY <1>8, Zenon DEF hello_ack_sent
  <2>2. current = s => Phase(conn'[s], "applying")
    BY <1>3, <2>1, Zenon DEF Phase
  <2> QED BY <1>0, <1>1, <2>1, <2>2, Advances, Zenon
<1>9. CASE send_applied_ack(s)
  <2>1. sock[s].pc = "applying" /\ conn[s].apply = "applied"
    BY <1>9, Zenon DEF send_applied_ack, activate_send
  <2>2. CASE current = s
    <3>1. conn' = [conn EXCEPT ![s].apply = "acking"] /\ SockTo(s, "ack_send")
      BY <1>9, <2>1, <2>2, Zenon DEF send_applied_ack, activate_send
    <3>2. Phase(conn'[s], "ack_send")
      BY <1>4, <3>1, Zenon DEF Phase
    <3> QED BY <1>0, <1>1, <2>1, <3>1, <3>2, Advances, Zenon
  <2>3. CASE current # s
    <3>1. UNCHANGED conn /\ SockTo(s, "ending")
      BY <1>9, <2>3, Zenon DEF send_applied_ack, activate_send
    <3> QED BY <1>1, <2>1, <2>3, <3>1, Advances, Zenon DEF Activating
  <2> QED BY <2>2, <2>3, Zenon
\* The Device answers: the configuration that was sent to it is applied.
<1>10. CASE resolve_config_applied(s)
  <2> DEFINE k == [conn[s] EXCEPT !.apply = "applied"]
  <2>1. UNCHANGED sock /\ current = s /\ conn[s].apply = "issued" /\ conn' = [conn EXCEPT ![s] = k]
    BY <1>10, Zenon DEF resolve_config_applied
  <2>2. /\ IsConn(k) /\ Like(conn[s], k) /\ Bound(conn[s], k) /\ k.bind = conn[s].bind
        /\ k.apply = "applied" /\ k.inflight = conn[s].inflight
    BY Zenon DEF Types, ConnT, IsConn, ConnFields, Like, Bound
  <2> HIDE DEF k
  <2>3. conn'[s] = k /\ \A t \in Sock \ {s} : conn'[t] = conn[t]
    BY <2>1, <2>2, PutConn, Zenon DEF Types
  <2>4. ASSUME NEW t \in Sock
        PROVE  /\ Onto(sock[t].pc, sock'[t].pc) /\ Like(conn[t], conn'[t]) /\ Bound(conn[t], conn'[t])
               /\ conn'[t].bind = conn[t].bind
    <3>1. CASE t = s
      BY <2>1, <2>2, <2>3, <3>1, Zenon DEF Onto
    <3>2. CASE t # s
      BY <2>1, <2>3, <3>2, Zenon DEF Onto, Like, Bound
    <3> QED BY <3>1, <3>2, Zenon
  <2>5. Phase(conn'[s], sock'[s].pc) /\ Steers(conn[s], conn'[s])
    BY <1>3, <2>1, <2>2, <2>3, Zenon DEF Phase, Steers
  <2>6. NoLock
    BY <1>1, NoLockStill, Zenon
  <2>7. Activated => Activated'
    BY <1>1, <2>1, Zenon DEF Activated
  <2>8. Onward
    BY <1>1, <2>1, <2>4, <2>5, <2>6, <2>7, Zenon DEF Onward
  <2>9. Beside
    BY <1>1, <2>1, <2>4, Zenon DEF Beside
  <2> QED BY <1>1, <2>8, <2>9, Zenon DEF Smooth, Stays, Alike
<1> QED BY <1>5, <1>6, <1>7, <1>8, <1>9, <1>10, Zenon DEF ActivationGoesOn

-----------------------------------------------------------------------------
(***************************************************************************)
(* The steps that may take down a fence, each only its own.                *)
(***************************************************************************)
\* An activation keeps its fence.
Upheld == Activated' => fence' = fence

\* _retire_ambiguous_config pops its connection with its fence, or leaves both.
LEMMA AmbiguousSmooth ==
  ASSUME Types, Fenced, NEW s \in Sock, _retire_ambiguous_config(s),
         Onto(sock[s].pc, sock'[s].pc), \A t \in Sock \ {s} : sock'[t].pc = sock[t].pc,
         \A t \in Sock : mcp'[t].pc = "send" => mcp'[t] = mcp[t],
         UNCHANGED <<rev, unreg, patch, rvk, call>>
  PROVE  Smooth /\ (FenceUp /\ Generations => Upheld)
<1> DEFINE k == Ambiguous(conn[s], current = s)
<1>1. conn' = [conn EXCEPT ![s] = k] /\ fence' = Released(conn[s].gen)
  BY Zenon DEF _retire_ambiguous_config
<1>2. (current = s => current' = NoSock) /\ (current # s => current' = current)
  BY Zenon DEF _retire_ambiguous_config
<1>3. IsConn(k) /\ Like(conn[s], k) /\ Bound(conn[s], k) /\ k.bind = conn[s].bind
  BY Zenon DEF Types, ConnT, IsConn, ConnFields, Like, Bound, Ambiguous
<1> HIDE DEF k
<1>4. conn'[s] = k /\ \A t \in Sock \ {s} : conn'[t] = conn[t]
  BY <1>1, <1>3, PutConn, Zenon DEF Types
<1>5. s # NoSock /\ (current # NoSock => current \in Sock)
  BY RegistryAssumption, Zenon DEF RegistryAssumption, Types, NumT, Sockets
<1>6. ASSUME NEW t \in Sock
      PROVE  /\ Onto(sock[t].pc, sock'[t].pc) /\ Like(conn[t], conn'[t]) /\ Bound(conn[t], conn'[t])
             /\ conn'[t].bind = conn[t].bind
             /\ sock'[t].pc \in Opening => sock[t].pc \in Opening
             /\ sock'[t].pc \in Before => sock[t].pc \in Before
  <2>1. CASE t = s
    BY <1>3, <1>4, <2>1, Zenon DEF Onto, Before
  <2>2. CASE t # s
    BY <1>4, <2>2, Zenon DEF Onto, Like, Bound
  <2> QED BY <2>1, <2>2, Zenon
<1>7. current' # NoSock => /\ current' = current /\ current \in Sock \ {s}
                           /\ conn'[current] = conn[current] /\ sock'[current].pc = sock[current].pc
  BY <1>2, <1>4, <1>5, Zenon
<1>8. fence' \in {0, fence} /\ (fence = conn[s].gen => fence' = 0) /\ (fence # conn[s].gen => fence' = fence)
  BY <1>1, Zenon DEF Released
<1>9. fence' # 0 /\ Activated => Activated'
  <2>1. fence' # 0 => current # s
    BY <1>5, <1>8, Zenon DEF Fenced, FenceCurrent
  <2>2. current # s /\ current # NoSock => sock'[current].pc = sock[current].pc
    BY <1>5, Zenon
  <2> QED BY <1>2, <2>1, <2>2, Zenon DEF Activated
<1>10. current' # NoSock => /\ Phase(conn'[current], sock'[current].pc)
                            /\ Steers(conn[current], conn'[current])
  BY <1>7, Zenon DEF Fenced, Phases, Steers
<1>11. NoLock
  BY NoLockStill, Zenon
<1>12. Onward
  BY <1>2, <1>6, <1>8, <1>9, <1>10, <1>11, Zenon DEF Onward
<1>13. Beside
  BY <1>2, <1>6, <1>7, Zenon DEF Beside
<1>14. ASSUME FenceUp, Generations, Activated' PROVE fence' = fence
  <2>1. current' = current /\ current \in Sock \ {s} /\ Activated
    BY <1>7, <1>14, Zenon DEF Activated
  <2>2. fence = conn[current].gen
    BY <1>14, <2>1, Zenon DEF FenceUp
  <2>3. conn[current].gen # 0 => conn[s].gen # conn[current].gen
    BY <1>14, <2>1, Zenon DEF Generations
  <2> QED BY <1>8, <2>2, <2>3, Zenon
<1> QED BY <1>12, <1>13, <1>14, Zenon DEF Smooth, Stays, Alike, Upheld

\* A step that leaves the fence alone is smooth.
LEMMA TameSmooth == ASSUME Types, Fenced, Tame PROVE Smooth /\ Upheld
BY AsideOnward, Zenon DEF Tame, Smooth, Upheld, Aside

\* A failed activation, a lost peer, a failed registration and the first section of
\* unregister release no fence of another connection.
LEMMA ReleasingSteps ==
  ASSUME Types, Books, Fenced, NEW s \in Sock,
         activate_fails(s) \/ disconnect(s) \/ registration_fails(s) \/ unregister(s)
  PROVE  Smooth /\ (FenceUp /\ Generations /\ Unregistering => Upheld)
<1>1. CASE activate_fails(s)
  <2>1. /\ UNCHANGED <<db, gens, epoch, credits, unreg, mcp, patch, rvk, call>>
        /\ _retire_ambiguous_config(s) /\ SockTo(s, "ending")
    BY <1>1, Zenon DEF activate_fails
  <2>2. sock'[s].pc = "ending" /\ \A t \in Sock \ {s} : sock'[t].pc = sock[t].pc
    BY <2>1, SockMoves, Zenon DEF Types, Pcs
  <2>3. Onto(sock[s].pc, sock'[s].pc)
    BY <2>2, Zenon DEF Onto, Opening, Activating, Admitting
  <2> QED BY <2>1, <2>2, <2>3, AmbiguousSmooth, Zenon DEF db
<1>2. CASE disconnect(s)
  <2> DEFINE pc == IF sock[s].pc = "serving" THEN "ending" ELSE "closed"
  <2>1. /\ UNCHANGED <<db, gens, epoch, credits, unreg, patch, rvk, call>>
        /\ SockTo(s, pc) /\ mcp' = [mcp EXCEPT ![s].pc = "stopped"]
        /\ sock[s].pc \in {"authed", "hello", "serving"}
        /\ _retire_ambiguous_config(s) \/ UNCHANGED <<conn, fence, current>>
    BY <1>2, Zenon DEF disconnect
  <2>2. pc \in {"ending", "closed"}
    BY Zenon
  <2> HIDE DEF pc
  <2>3. sock'[s].pc = pc /\ \A t \in Sock \ {s} : sock'[t].pc = sock[t].pc
    BY <2>1, <2>2, SockMoves, Zenon DEF Types, Pcs
  <2>4. \A t \in Sock : mcp'[t].pc = "send" => mcp'[t] = mcp[t]
    <3>1. mcp'[s].pc # "send" /\ \A t \in Sock \ {s} : mcp'[t] = mcp[t]
      BY <2>1, Zenon DEF Types, McpT, IsMcp
    <3> QED BY <3>1, Zenon
  <2>5. CASE _retire_ambiguous_config(s)
    <3>1. Onto(sock[s].pc, sock'[s].pc)
      BY <2>2, <2>3, Zenon DEF Onto, Opening, Activating, Admitting
    <3> QED BY <2>1, <2>3, <2>4, <2>5, <3>1, AmbiguousSmooth, Zenon DEF db
  <2>6. CASE UNCHANGED <<conn, fence, current>>
    <3>1. \A t \in Sock : Same(conn[t], conn'[t])
      BY <2>6, Zenon DEF Same
    <3>2. \A t \in Sock : Moves(sock[t].pc, sock'[t].pc)
      BY <2>1, <2>2, SockAside, Zenon DEF Types, Pcs, Moves, Activating
    <3>3. NoLock
      BY <2>1, NoLockStill, Zenon
    <3>4. Tame
      BY <2>1, <2>4, <2>6, <3>1, <3>2, <3>3, SameStep, Zenon DEF Tame, db, Stays, Alike
    <3> QED BY <3>4, TameSmooth, Zenon
  <2> QED BY <2>1, <2>5, <2>6, Zenon
<1>3. CASE registration_fails(s)
  <2>1. /\ UNCHANGED <<db, gens, epoch, credits, unreg, patch, rvk, call>>
        /\ _retire_ambiguous_config(s) /\ registration_stops(s)
    BY <1>3, Zenon DEF registration_fails
  <2> DEFINE pc == IF sock[s].pc = "serving" THEN "ending" ELSE sock[s].pc
  <2>2. SockTo(s, pc) /\ pc \in Pcs /\ pc \in {sock[s].pc, "ending"}
    BY <2>1, Zenon DEF registration_stops, Types, SockT, IsSock, Pcs
  <2> HIDE DEF pc
  <2>3. sock'[s].pc = pc /\ \A t \in Sock \ {s} : sock'[t].pc = sock[t].pc
    BY <2>2, SockMoves, Zenon DEF Types
  <2>4. \A t \in Sock : mcp'[t].pc = "send" => mcp'[t] = mcp[t]
    <3>1. mcp'[s].pc # "send" /\ \A t \in Sock \ {s} : mcp'[t] = mcp[t]
      BY <2>1, Zenon DEF registration_stops, Types, McpT, IsMcp
    <3> QED BY <3>1, Zenon
  <2>5. Onto(sock[s].pc, sock'[s].pc)
    BY <2>2, <2>3, Zenon DEF Onto, Opening, Activating, Admitting
  <2> QED BY <2>1, <2>3, <2>4, <2>5, AmbiguousSmooth, Zenon DEF db
\* unregister gives up a fence only on its own handle, before it was ever ready.
<1>4. CASE unregister(s)
  <2>1. /\ UNCHANGED <<db, current, gens, epoch, credits, conn, sock, mcp, patch, rvk, call>>
        /\ unreg[s] = "want" /\ unreg' = [unreg EXCEPT ![s] = "open"]
        /\ UNCHANGED fence \/ (SameHandle(s) /\ fence' \in {0, fence})
    BY <1>4, Zenon DEF unregister, Released
  <2>2. NoLock /\ \A t \in Sock : unreg'[t] # "none" => unreg[t] # "none"
    BY <2>1, Zenon DEF Types, UnregT, NoLock
  <2>3. current # NoSock => current \in Sock
    BY Zenon DEF Types, NumT, Sockets
  <2>4. current # NoSock => /\ Phase(conn'[current], sock'[current].pc)
                            /\ Steers(conn[current], conn'[current])
    BY <2>1, Zenon DEF Fenced, Phases, Steers
  <2>5. \A t \in Sock : /\ Onto(sock[t].pc, sock'[t].pc) /\ Like(conn[t], conn'[t])
                        /\ Bound(conn[t], conn'[t])
    BY <2>1, Zenon DEF Onto, Like, Bound
  <2>6. Onward
    BY <2>1, <2>2, <2>4, <2>5, Zenon DEF Onward, Activated, db
  <2>7. Beside
    BY <2>1, <2>2, <2>5, Zenon DEF Beside
  <2>8. ASSUME Generations, Unregistering, Activated' PROVE fence' = fence
    <3>1. sock[s].pc \notin Before /\ conn[s].gen # 0
      BY <2>1, <2>8, Zenon DEF Unregistering, Generations
    <3>2. current \in Sock \ {s}
      BY <2>1, <2>3, <2>8, <3>1, Zenon DEF Activated, Before
    <3>3. ~SameHandle(s)
      BY <2>8, <3>1, <3>2, Zenon DEF Generations, SameHandle
    <3> QED BY <2>1, <3>3, Zenon
  <2> QED BY <2>1, <2>6, <2>7, <2>8, Zenon DEF Smooth, Stays, Alike, Upheld
<1> QED BY <1>1, <1>2, <1>3, <1>4, Zenon

-----------------------------------------------------------------------------
(***************************************************************************)
(* The steps that take a lock, publish a generation or make it routable.   *)
(***************************************************************************)
\* What every step is shown to keep.
Keeps == Fenced' /\ (Durable /\ Generations => Durable')

\* A smooth step keeps the fences and, when it upholds them, what is durable.
LEMMA SmoothKeeps ==
  ASSUME Types, Types', Fenced, Smooth, Durable /\ Generations => Upheld PROVE Keeps
<1>1. Fenced'
  BY OnwardFenced, Zenon DEF Smooth
<1>2. ASSUME Durable, Generations PROVE Durable'
  <2>1. Core'
    BY <1>2, OnwardCore, Zenon DEF Smooth, Durable, Upheld
  <2>2. Sides'
    BY <1>2, BesideSides, Zenon DEF Smooth, Durable, Sides
  <2> QED BY <2>1, <2>2, Zenon DEF Durable
<1> QED BY <1>1, <1>2, Zenon DEF Keeps

\* _register_lock is taken when no fence is up: by register, by unregister or by revoke.
TakesLock ==
  /\ UNCHANGED <<patch, rev, fence, current, conn, mcp, call>> /\ _publication_open
  /\ \A t \in Sock : /\ sock'[t].pc = sock[t].pc \/ (sock[t].pc = "register" /\ sock'[t].pc = "publish")
                     /\ unreg'[t] # "none" => unreg[t] # "none"
  /\ (\A t \in Sock : sock'[t].pc # "publish") \/ UNCHANGED <<unreg, rvk>>

\* Taking _register_lock keeps the fences and what is durable.
LEMMA TakesLockKeeps == ASSUME Types, Fenced, TakesLock PROVE Keeps
<1>1. /\ UNCHANGED <<patch, rev, fence, current, conn, mcp, call>>
      /\ fence = 0 /\ RegisterLockFree
  BY Zenon DEF TakesLock, _publication_open
<1>2. \A t \in Sock : /\ Admits(t)' <=> Admits(t)
                      /\ sock'[t].pc \in Before <=> sock[t].pc \in Before
                      /\ sock'[t].pc \in Opening <=> sock[t].pc \in Opening
                      /\ sock'[t].pc \in Activating <=> sock[t].pc \in Activating
                      /\ sock'[t].pc \in Activating => sock'[t].pc = sock[t].pc
  BY Zenon DEF TakesLock, Admits, Admitting, Before, Opening, Activating
<1>3. \A p \in Patch : (Works(p)' <=> Works(p)) /\ (Committed(p)' <=> Committed(p))
  BY <1>1, Zenon DEF Works, Committed
<1>4. current # NoSock => current \in Sock
  BY Zenon DEF Types, NumT, Sockets
<1>5. Locks'
  <2>1. \A s \in Sock : sock'[s].pc = "publish" =>
          (\A t \in Sock : unreg'[t] # "locked") /\ \A v \in Revocation : rvk'[v].pc # "locked"
    BY <1>1, Zenon DEF TakesLock, RegisterLockFree
  <2>2. \A s, t \in Sock : Admits(s)' /\ Admits(t)' => s = t
    BY <1>2, Zenon DEF Fenced, Locks
  <2>3. \A p, q \in Patch : Works(p)' /\ Works(q)' => p = q
    BY <1>3, Zenon DEF Fenced, Locks
  <2>4. \A s \in Sock : \A p \in Patch : Admits(s)' => ~Works(p)'
    BY <1>2, <1>3, Zenon DEF Fenced, Locks
  <2> QED BY <1>1, <2>1, <2>2, <2>3, <2>4, Zenon DEF Locks
<1>6. Phases'
  BY <1>1, <1>2, <1>4, Zenon DEF Fenced, Phases, Phase, Activating
<1>7. \A p \in Patch : PatchFence(p)'
  BY <1>1, <1>2, Zenon DEF Fenced, PatchFence, Types, PatchT, IsPatch
<1>8. Fenced'
  BY <1>1, <1>5, <1>6, <1>7, Zenon DEF Fenced, FenceCurrent, FenceOwned
<1>9. (Activated' <=> Activated) /\ (Routable' <=> Routable)
  BY <1>1, <1>2, <1>4, Zenon DEF Activated, Routable
<1>10. ASSUME Durable PROVE Durable'
  <2>1. ASSUME NEW p \in Patch PROVE PatchDurable(p)'
    BY <1>1, <1>9, <1>10, Zenon DEF Durable, Core, PatchDurable
  <2>2. Revisions'
    BY <1>1, <1>2, <1>3, <1>9, <1>10, Zenon DEF Durable, Core, Revisions
  <2>3. FenceUp'
    BY <1>1, <1>9, <1>10, Zenon DEF Durable, Core, FenceUp
  <2>4. Marks' /\ Unregistering' /\ Registering'
    BY <1>1, <1>2, <1>10, Zenon DEF Durable, Sides, Marks, Mark, Unregistering, Registering, TakesLock
  <2>5. \A c \in Call : Frozen(call[c])'
    BY <1>1, <1>10, Zenon DEF Durable, Sides, Frozen
  <2> QED BY <2>1, <2>2, <2>3, <2>4, <2>5, Zenon DEF Durable, Core, Sides
<1> QED BY <1>8, <1>10, Zenon DEF Keeps

\* register, unregister and revoke take the lock that way.
LEMMA LockSteps ==
  ASSUME Types, Fenced,
         \/ \E s \in Sock : register(s) \/ unregister_locks(s)
         \/ \E v \in Revocation : revoke(v)
  PROVE  Keeps
<1>1. ASSUME NEW s \in Sock, register(s) PROVE TakesLock
  <2>1. /\ UNCHANGED <<db, current, gens, fence, epoch, credits, conn, unreg, mcp, patch, rvk, call>>
        /\ sock[s].pc = "register" /\ _publication_open
    BY <1>1, Zenon DEF register
  <2>2. sock'[s].pc = "publish" /\ \A t \in Sock \ {s} : sock'[t] = sock[t]
    BY <1>1, Zenon DEF register, Types, SockT, IsSock
  <2> QED BY <2>1, <2>2, Zenon DEF TakesLock, db
<1>2. ASSUME NEW s \in Sock, unregister_locks(s) PROVE TakesLock
  <2>1. /\ UNCHANGED <<db, current, gens, fence, epoch, credits, conn, sock, mcp, patch, rvk, call>>
        /\ unreg[s] = "open" /\ _publication_open
    BY <1>2, Zenon DEF unregister_locks
  <2>2. \A t \in Sock \ {s} : unreg'[t] = unreg[t]
    BY <1>2, Zenon DEF unregister_locks, Types, UnregT
  <2>3. \A t \in Sock : sock'[t].pc # "publish"
    BY <2>1, Zenon DEF _publication_open, RegisterLockFree
  <2> QED BY <2>1, <2>2, <2>3, Zenon DEF TakesLock, db
<1>3. ASSUME NEW v \in Revocation, revoke(v) PROVE TakesLock
  <2>1. /\ UNCHANGED <<db, current, gens, fence, credits, conn, sock, unreg, mcp, patch, call>>
        /\ _publication_open
    BY <1>3, Zenon DEF revoke
  <2>2. \A t \in Sock : sock'[t].pc # "publish"
    BY <2>1, Zenon DEF _publication_open, RegisterLockFree
  <2> QED BY <2>1, <2>2, Zenon DEF TakesLock, db
<1> QED BY <1>1, <1>2, <1>3, TakesLockKeeps, Zenon

\* A PATCH that does not hold config_update_lock has nothing to keep.
LEMMA IdlePatch ==
  ASSUME Fenced, NEW p \in Patch, ~Works(p)
  PROVE  /\ ~patch[p].fenced /\ ~Committed(p)
         /\ patch[p].pc \notin Raised \cup Pushing \cup {"mcp_wait"}
<1>1. patch[p].pc \in {"idle", "wait", "done"}
  BY Zenon DEF Works
<1>2. patch[p].pc \notin Raised \cup Pushing \cup {"mcp_wait"}
  BY <1>1 DEF Raised, Pushing
<1>3. ~patch[p].fenced
  BY <1>2, Zenon DEF Fenced, PatchFence
<1>4. ~Committed(p)
  BY <1>1 DEF Committed, Pushing
<1> QED BY <1>2, <1>3, <1>4, Zenon

\* A handshake enters under config_update_lock with the revision that is durable.
LEMMA FindKeeps ==
  ASSUME Types, Types', Books, Fenced, NEW s \in Sock, find_by_token(s) PROVE Keeps
<1>1. /\ UNCHANGED <<rev, current, gens, fence, epoch, credits, unreg, mcp, patch, rvk, call>>
      /\ sock[s].pc = "hello" /\ ConfigLockFree
  BY Zenon DEF find_by_token, db
<1>2. CASE SockTo(s, "closed") /\ UNCHANGED conn
  <2>1. \A t \in Sock : Same(conn[t], conn'[t])
    BY <1>2, Zenon DEF Same
  <2>2. \A t \in Sock : Moves(sock[t].pc, sock'[t].pc)
    BY <1>1, <1>2, SockAside, Zenon DEF Types, Pcs, Moves, Activating
  <2>3. NoLock
    BY <1>1, NoLockStill, Zenon
  <2>4. Tame
    BY <1>1, <2>1, <2>2, <2>3, SameStep, Zenon DEF Tame, Stays, Alike
  <2> QED BY <2>4, TameSmooth, SmoothKeeps, Zenon
<1> DEFINE k == [conn[s] EXCEPT !.rev = rev, !.target = rev]
<1>3. CASE conn' = [conn EXCEPT ![s] = k] /\ SockTo(s, "register")
  <2>1. /\ IsConn(k) /\ k.rev = rev /\ k.target = rev /\ k.gen = conn[s].gen /\ k.mcp = conn[s].mcp
        /\ k.bind = conn[s].bind /\ k.reg = conn[s].reg /\ k.inflight = conn[s].inflight
        /\ k.ready = conn[s].ready
    BY Zenon DEF Types, ConnT, IsConn, ConnFields, NumT
  <2> HIDE DEF k
  <2>2. conn'[s] = k /\ \A t \in Sock \ {s} : conn'[t] = conn[t]
    BY <1>3, <2>1, PutConn, Zenon DEF Types
  <2>3. sock'[s].pc = "register" /\ \A t \in Sock \ {s} : sock'[t].pc = sock[t].pc
    BY <1>3, SockMoves, Zenon DEF Types, Pcs, Before, Opening
  <2>4. (\A p \in Patch : ~Works(p) /\ ~Works(p)') /\ \A t \in Sock \ {s} : ~Admits(t)'
    BY <1>1, <2>3, Zenon DEF ConfigLockFree, Works, Admits, Admitting
  <2>5. \A p \in Patch : /\ ~patch'[p].fenced /\ ~Committed(p)
                         /\ patch'[p].pc \notin Raised \cup Pushing \cup {"mcp_wait"}
    BY <1>1, <2>4, IdlePatch, Zenon
  <2>6. ~conn[s].ready /\ (current # NoSock => current \in Sock)
    BY <1>1, Zenon DEF Books, Routes, Before, Opening, Types, NumT, Sockets
  <2>7. /\ Routable' => Routable /\ current \in Sock \ {s}
        /\ Activated' => Activated /\ current \in Sock \ {s}
    BY <1>1, <2>1, <2>2, <2>3, <2>6, Zenon DEF Routable, Activated, Activating
  <2>8. Fenced'
    <3>1. \A t \in Sock : sock'[t].pc # "publish"
      BY <2>3, <2>4, Zenon DEF Admits, Admitting
    <3>2. ~RegisterLockFree' => ~RegisterLockFree
      BY <1>1, <3>1, Zenon DEF RegisterLockFree
    <3>3. Locks'
      BY <1>1, <2>4, <3>1, <3>2, Zenon DEF Fenced, Locks
    <3>4. Phases'
      <4>1. Phase(conn'[s], "register")
        BY Zenon DEF Phase
      <4> QED BY <1>1, <2>2, <2>3, <2>6, <4>1, Zenon DEF Fenced, Phases
    <3>5. FenceCurrent'
      BY <1>1, <2>1, <2>2, <2>6, Zenon DEF Fenced, FenceCurrent
    <3>6. \A p \in Patch : PatchFence(p)'
      BY <2>5, Zenon DEF PatchFence
    <3>7. FenceOwned'
      <4>1. ASSUME NEW t \in Sock, current = t, conn[t].gen = fence, sock[t].pc \in Activating
            PROVE  current' = t /\ conn'[t].gen = fence' /\ sock'[t].pc \in Activating
        BY <1>1, <2>2, <2>3, <4>1, Zenon DEF Activating
      <4> QED BY <1>1, <2>5, <4>1, Zenon DEF Fenced, FenceOwned, Activating
    <3> QED BY <3>3, <3>4, <3>5, <3>6, <3>7, Zenon DEF Fenced
  <2>9. ASSUME Durable PROVE Durable'
    <3>1. \A p \in Patch : PatchDurable(p)'
      BY <2>5, Zenon DEF PatchDurable
    <3>2. Revisions'
      <4>1. ASSUME NEW t \in Sock, Admits(t)' \/ (current' = t /\ Activated')
            PROVE  conn'[t].rev = rev' /\ conn'[t].target = rev'
        <5>1. CASE t = s
          BY <1>1, <2>1, <2>2, <5>1, Zenon
        <5>2. CASE t # s
          BY <1>1, <2>2, <2>4, <2>7, <2>9, <4>1, <5>2, Zenon DEF Durable, Core, Revisions
        <5> QED BY <5>1, <5>2, Zenon
      <4>2. Routable' => conn'[current'].rev = rev'
        BY <1>1, <2>2, <2>5, <2>7, <2>9, Zenon DEF Durable, Core, Revisions
      <4> QED BY <1>1, <2>9, <4>1, <4>2, Zenon DEF Durable, Core, Revisions
    <3>3. FenceUp'
      BY <1>1, <2>2, <2>7, <2>9, Zenon DEF Durable, Core, FenceUp
    <3>4. sock[s].pc \in Opening /\ sock[s].pc \in Before /\ sock'[s].pc \in Opening
      BY <1>1, <2>3, Zenon DEF Opening, Before
    <3>5. Mark(conn[s], sock[s].pc) /\ unreg[s] = "none" /\ mcp[s].pc # "send"
      BY <2>9, <3>4, Zenon DEF Durable, Sides, Marks, Unregistering, Registering
    <3>6. Mark(conn'[s], sock'[s].pc)
      BY <2>1, <2>2, <3>4, <3>5, Zenon DEF Mark
    <3>7. Marks' /\ Unregistering' /\ Registering'
      <4>1. Marks'
        BY <2>2, <2>3, <2>9, <3>6, Zenon DEF Durable, Sides, Marks
      <4>2. Unregistering'
        BY <1>1, <2>3, <2>9, <3>5, Zenon DEF Durable, Sides, Unregistering
      <4>3. Registering'
        BY <1>1, <2>2, <2>3, <2>9, <3>5, Zenon DEF Durable, Sides, Registering
      <4> QED BY <4>1, <4>2, <4>3, Zenon
    <3>8. ASSUME NEW c \in Call PROVE Frozen(call[c])'
      <4>1. Frozen(call[c]) /\ Stays(call[c], call'[c])
        BY <1>1, <2>9, Zenon DEF Durable, Sides, Stays, Alike
      <4>2. \A t \in Sock : /\ conn'[t].gen = conn[t].gen /\ conn'[t].mcp = conn[t].mcp
                            /\ conn'[t].bind = conn[t].bind
        BY <2>1, <2>2, Zenon
      <4> QED BY <1>1, <2>6, <4>1, <4>2, FrozenKept, Zenon
    <3> QED BY <3>1, <3>2, <3>3, <3>7, <3>8, Zenon DEF Durable, Core, Sides
  <2> QED BY <2>8, <2>9, Zenon DEF Keeps
<1> QED BY <1>2, <1>3, Zenon DEF find_by_token

\* A publication raises the fence of the generation it makes current.
LEMMA PublishKeeps ==
  ASSUME Types, Types', Books, Fenced, NEW s \in Sock, _publish_registration(s) PROVE Keeps
<1>1. /\ UNCHANGED <<rev, epoch, credits, unreg, mcp, patch, rvk, call>>
      /\ sock[s].pc = "publish"
  BY Zenon DEF _publish_registration, db
<1>2. CASE SockTo(s, "closed") /\ UNCHANGED <<gens, conn, current, fence>>
  <2>1. \A t \in Sock : Same(conn[t], conn'[t])
    BY <1>2, Zenon DEF Same
  <2>2. \A t \in Sock : Moves(sock[t].pc, sock'[t].pc)
    BY <1>1, <1>2, SockAside, Zenon DEF Types, Pcs, Moves, Activating
  <2>3. NoLock
    BY <1>1, NoLockStill, Zenon
  <2>4. Tame
    BY <1>1, <1>2, <2>1, <2>2, <2>3, SameStep, Zenon DEF Tame, Stays, Alike
  <2> QED BY <2>4, TameSmooth, SmoothKeeps, Zenon
<1>3. CASE Publishes(s)
  <2>1. fence' = gens + 1 /\ current' = s /\ s # NoSock
    BY <1>3, RegistryAssumption, Zenon DEF Publishes, RegistryAssumption
  <2>2. sock'[s].pc = "retireprev" /\ \A t \in Sock \ {s} : sock'[t].pc = sock[t].pc
    BY <1>3, Zenon DEF Publishes, Types, SockT, IsSock
  <2>3. /\ conn'[s].gen = gens + 1 /\ \A t \in Sock \ {s} : conn'[t].gen = conn[t].gen
        /\ \A t \in Sock : conn'[t].ready = conn[t].ready
    BY <1>3, PublishedConn, Zenon
  <2>4. \A t \in Sock : /\ conn'[t].rev = conn[t].rev /\ conn'[t].target = conn[t].target
                        /\ conn'[t].bind = conn[t].bind /\ conn'[t].reg = conn[t].reg
                        /\ conn'[t].inflight = conn[t].inflight
    BY <1>3 DEF Publishes, Types, ConnT, IsConn, ConnFields
  <2>5. Admits(s) /\ (\A t \in Sock \ {s} : ~Admits(t)) /\ \A p \in Patch : ~Works(p)
    BY <1>1, Zenon DEF Admits, Admitting, Fenced, Locks
  <2>6. (\A t \in Sock \ {s} : ~Admits(t)') /\ \A p \in Patch : ~Works(p)'
    BY <1>1, <2>2, <2>5, Zenon DEF Admits, Works
  <2>7. \A p \in Patch : /\ ~patch'[p].fenced /\ ~Committed(p)
                         /\ patch'[p].pc \notin Raised \cup Pushing \cup {"mcp_wait"}
    BY <1>1, <2>5, IdlePatch, Zenon
  <2>8. ~conn[s].ready /\ sock[s].pc \in Before /\ sock[s].pc \in Opening
    BY <1>1, Zenon DEF Books, Routes, Before, Opening
  <2>9. \A t \in Sock : sock'[t].pc # "publish"
    BY <2>2, <2>6, Zenon DEF Admits, Admitting
  <2>10. Fenced'
    <3>1. RegisterLockFree'
      BY <1>1, <2>9, Zenon DEF RegisterLockFree, Fenced, Locks
    <3>2. Locks'
      BY <2>6, <2>9, <3>1, Zenon DEF Locks
    <3>3. Phases'
      BY <2>1, <2>2, Zenon DEF Phases, Phase
    <3>4. FenceCurrent'
      BY <2>1, <2>3, Zenon DEF FenceCurrent
    <3>5. \A p \in Patch : PatchFence(p)'
      BY <2>7, Zenon DEF PatchFence
    <3>6. FenceOwned'
      BY <2>1, <2>2, <2>3, Zenon DEF FenceOwned
    <3> QED BY <3>2, <3>3, <3>4, <3>5, <3>6, Zenon DEF Fenced
  <2>11. ASSUME Durable PROVE Durable'
    <3>1. \A p \in Patch : PatchDurable(p)'
      BY <2>7, Zenon DEF PatchDurable
    <3>2. Revisions'
      <4>1. conn[s].rev = rev /\ conn[s].target = rev /\ rev # 0
        BY <2>5, <2>11, Zenon DEF Durable, Core, Revisions
      <4>2. ~Routable'
        BY <2>1, <2>3, <2>8, Zenon DEF Routable
      <4> QED BY <1>1, <2>1, <2>4, <2>6, <4>1, <4>2, Zenon DEF Revisions
    <3>3. FenceUp'
      BY <2>1, <2>3, Zenon DEF FenceUp
    <3>4. unreg[s] = "none" /\ mcp[s].pc # "send" /\ Mark(conn[s], sock[s].pc)
      BY <2>8, <2>11, Zenon DEF Durable, Sides, Marks, Unregistering, Registering
    <3>5. Marks'
      <4> SUFFICES ASSUME NEW t \in Sock PROVE Mark(conn'[t], sock'[t].pc)
        BY Zenon DEF Marks
      <4>1. Mark(conn[t], sock[t].pc)
        BY <2>11, Zenon DEF Durable, Sides, Marks
      <4>2. CASE t = s
        BY <2>4, <2>8, <3>4, <4>2, Zenon DEF Mark
      <4>3. CASE t # s
        BY <2>2, <2>4, <4>1, <4>3, Zenon DEF Mark
      <4> QED BY <4>2, <4>3, Zenon
    <3>6. Unregistering'
      BY <1>1, <2>2, <2>11, <3>4, Zenon DEF Durable, Sides, Unregistering
    <3>7. Registering'
      BY <1>1, <2>1, <2>2, <2>11, <3>4, Zenon DEF Durable, Sides, Registering
    <3>8. ASSUME NEW c \in Call PROVE Frozen(call[c])'
      <4>1. Frozen(call[c]) /\ call'[c] = call[c] /\ Fits(c, call[c])
        BY <1>1, <2>11, Zenon DEF Durable, Sides, Books, Book
      <4>2. call[c].conn # s
        BY <2>1, <2>8, <4>1, Zenon DEF Fits
      <4>3. call[c].pc = "queued" => call[c].conn \in Sock \ {s}
        BY <4>2, Zenon DEF Types, CallT, IsCall
      <4> QED BY <2>1, <2>3, <4>1, <4>2, <4>3, Zenon DEF Frozen
    <3> QED BY <3>1, <3>2, <3>3, <3>5, <3>6, <3>7, <3>8, Zenon DEF Durable, Core, Sides
  <2> QED BY <2>10, <2>11, Zenon DEF Keeps
<1> QED BY <1>2, <1>3, Zenon DEF _publish_registration, Publishes

\* An activated generation is routable, of the durable revision, and its fence is down.
LEMMA ActivatedKeeps ==
  ASSUME Types, Types', Books, Fenced, NEW s \in Sock, activated(s) PROVE Keeps
<1>1. /\ UNCHANGED <<rev, current, gens, epoch, credits, unreg, mcp, patch, rvk, call>>
      /\ sock[s].pc = "ack_send" /\ s # NoSock
  BY RegistryAssumption, Zenon DEF activated, db, RegistryAssumption
<1>2. current = s => conn[s].apply = "acking"
  BY <1>1, Zenon DEF Fenced, Phases, Phase
<1>3. CASE current # s
  <2>1. SockTo(s, "ending") /\ UNCHANGED <<conn, fence>>
    BY <1>3, Zenon DEF activated
  <2>2. Smooth
    BY <1>1, <1>3, <2>1, Advances, Zenon DEF Activating
  <2> QED BY <2>1, <2>2, SmoothKeeps, Zenon DEF Upheld
<1> DEFINE k == [conn[s] EXCEPT !.apply = "none", !.ready = TRUE]
<1>4. CASE current = s
  <2>1. conn' = [conn EXCEPT ![s] = k] /\ fence' = Released(conn[s].gen) /\ SockTo(s, "serving")
    BY <1>2, <1>4, Zenon DEF activated
  <2>2. /\ IsConn(k) /\ k.rev = conn[s].rev /\ k.target = conn[s].target /\ k.gen = conn[s].gen
        /\ k.mcp = conn[s].mcp /\ k.bind = conn[s].bind /\ k.reg = conn[s].reg
        /\ k.inflight = conn[s].inflight
    BY Zenon DEF Types, ConnT, IsConn, ConnFields
  <2> HIDE DEF k
  <2>3. conn'[s] = k /\ \A t \in Sock \ {s} : conn'[t] = conn[t]
    BY <2>1, <2>2, PutConn, Zenon DEF Types
  <2>4. sock'[s].pc = "serving" /\ \A t \in Sock \ {s} : sock'[t].pc = sock[t].pc
    BY <2>1, SockMoves, Zenon DEF Types, Pcs
  <2>5. fence' = 0
    BY <1>1, <1>4, <2>1, Zenon DEF Released, Fenced, FenceCurrent
  <2>6. /\ \A t \in Sock : (Admits(t)' => Admits(t)) /\ (sock'[t].pc \in Before => sock[t].pc \in Before)
        /\ \A p \in Patch : (Works(p)' <=> Works(p)) /\ (Committed(p)' <=> Committed(p))
    BY <1>1, <2>4, Zenon DEF Admits, Admitting, Works, Committed, Before, Opening, Activating
  <2>7. Activated /\ sock[s].pc \in Before /\ ~Activated'
    BY <1>1, <1>4, <2>4, Zenon DEF Activated, Activating, Before
  <2>8. Fenced'
    <3>1. Locks'
      <4>1. \A t \in Sock : sock'[t].pc = "publish" => sock[t].pc = "publish"
        BY <2>4, Zenon
      <4> QED BY <1>1, <2>5, <2>6, <4>1, Zenon DEF Fenced, Locks
    <3>2. Phases'
      BY <1>1, <1>4, <2>4, Zenon DEF Phases, Phase
    <3>3. \A p \in Patch : PatchFence(p)'
      BY <1>1, <2>5, <2>6, Zenon DEF Fenced, PatchFence, Types, PatchT, IsPatch
    <3> QED BY <2>5, <3>1, <3>2, <3>3, Zenon DEF Fenced, FenceCurrent, FenceOwned
  <2>9. ASSUME Durable PROVE Durable'
    <3>1. \A p \in Patch : PatchDurable(p)'
      BY <1>1, <2>7, <2>9, Zenon DEF Durable, Core, PatchDurable
    <3>2. Revisions'
      <4>1. conn'[s].rev = rev /\ conn'[s].target = rev /\ rev # 0
        BY <1>4, <2>2, <2>3, <2>7, <2>9, Zenon DEF Durable, Core, Revisions
      <4>2. \A t \in Sock : Admits(t)' => conn'[t].rev = rev /\ conn'[t].target = rev
        BY <2>3, <2>6, <2>9, <4>1, Zenon DEF Durable, Core, Revisions
      <4> QED BY <1>1, <1>4, <2>7, <4>1, <4>2, Zenon DEF Revisions
    <3>3. FenceUp'
      BY <2>7, Zenon DEF FenceUp
    <3>4. unreg[s] = "none" /\ mcp[s].pc # "send" /\ Mark(conn[s], sock[s].pc)
      BY <2>7, <2>9, Zenon DEF Durable, Sides, Marks, Unregistering, Registering
    <3>5. Mark(conn'[s], sock'[s].pc)
      BY <2>2, <2>3, <2>4, <3>4, Zenon DEF Mark, Opening
    <3>6. Marks'
      BY <2>3, <2>4, <2>9, <3>5, Zenon DEF Durable, Sides, Marks
    <3>7. Unregistering'
      BY <1>1, <2>6, <2>9, Zenon DEF Durable, Sides, Unregistering
    <3>8. Registering'
      BY <1>1, <2>3, <2>4, <2>9, <3>4, Zenon DEF Durable, Sides, Registering
    <3>9. ASSUME NEW c \in Call PROVE Frozen(call[c])'
      <4>1. Frozen(call[c]) /\ Stays(call[c], call'[c])
        BY <1>1, <2>9, Zenon DEF Durable, Sides, Stays, Alike
      <4>2. \A t \in Sock : /\ conn'[t].gen = conn[t].gen /\ conn'[t].mcp = conn[t].mcp
                            /\ conn'[t].bind = conn[t].bind
        BY <2>2, <2>3, Zenon
      <4> QED BY <1>1, <1>4, <4>1, <4>2, FrozenKept, Zenon
    <3> QED BY <3>1, <3>2, <3>3, <3>6, <3>7, <3>8, <3>9, Zenon DEF Durable, Core, Sides
  <2> QED BY <2>8, <2>9, Zenon DEF Keeps
<1> QED BY <1>3, <1>4, Zenon

-----------------------------------------------------------------------------
(***************************************************************************)
(* The steps of a PATCH.                                                   *)
(***************************************************************************)
\* PatchTo moves one PATCH, which forgets everything at its end.
LEMMA PatchPut ==
  ASSUME PatchT, NEW p \in Patch, NEW pc, PatchTo(p, pc)
  PROVE  /\ \A q \in Patch \ {p} : patch'[q] = patch[q]
         /\ patch'[p].pc = pc
         /\ pc = "done" => ~patch'[p].fenced
         /\ pc # "done" => /\ patch'[p].fenced = patch[p].fenced /\ patch'[p].gen = patch[p].gen
                           /\ patch'[p].conn = patch[p].conn
<1>1. patch'[p] = [(IF pc = "done" THEN NewPatch ELSE patch[p]) EXCEPT !.pc = pc]
  BY Zenon DEF PatchT, PatchTo
<1>2. \A q \in Patch \ {p} : patch'[q] = patch[q]
  BY Zenon DEF PatchT, PatchTo
<1>3. CASE pc = "done"
  BY <1>1, <1>2, <1>3, Zenon DEF NewPatch
<1>4. CASE pc # "done"
  <2>1. patch'[p] = [patch[p] EXCEPT !.pc = pc]
    BY <1>1, <1>4, Zenon
  <2> QED BY <1>2, <1>4, <2>1, Zenon DEF PatchT, IsPatch
<1> QED BY <1>3, <1>4, Zenon

\* A step of a PATCH that leaves the registry alone, and has no fence up.
Passes(p) ==
  /\ UNCHANGED <<rev, fence, current, conn, sock, unreg, mcp, rvk, call>>
  /\ \A q \in Patch \ {p} : patch'[q] = patch[q]
  /\ Works(p)' => Works(p) \/ ConfigLockFree
  /\ patch[p].fenced => patch[p].pc \notin Raised
  /\ Committed(p)' <=> Committed(p)

\* It keeps what is said of everything else.
LEMMA PassesKeeps ==
  ASSUME Types, Fenced, NEW p \in Patch, Passes(p), PatchFence(p)'
  PROVE  Fenced' /\ (Durable /\ PatchDurable(p)' => Durable')
<1>1. /\ UNCHANGED <<rev, fence, current, conn, sock, unreg, mcp, rvk, call>>
      /\ \A q \in Patch \ {p} : patch'[q] = patch[q]
  BY Zenon DEF Passes
<1>2. \A q \in Patch : (q # p => (Works(q)' <=> Works(q))) /\ (Committed(q)' <=> Committed(q))
  BY <1>1, Zenon DEF Works, Committed, Passes
<1>3. \A s \in Sock : Admits(s)' <=> Admits(s)
  BY <1>1, Zenon DEF Admits
<1>4. (Activated' <=> Activated) /\ (Routable' <=> Routable) /\ (RegisterLockFree' <=> RegisterLockFree)
  BY <1>1, Zenon DEF Activated, Routable, RegisterLockFree
<1>5. Works(p)' /\ ~Works(p) => (\A q \in Patch : ~Works(q)) /\ \A s \in Sock : ~Admits(s)
  BY Zenon DEF Passes, ConfigLockFree, Works, Admits, Admitting
<1>6. Locks'
  <2>1. \A q, r \in Patch : Works(q)' /\ Works(r)' => q = r
    BY <1>2, <1>5, Zenon DEF Fenced, Locks
  <2>2. \A s \in Sock : \A q \in Patch : Admits(s)' => ~Works(q)'
    BY <1>2, <1>3, <1>5, Zenon DEF Fenced, Locks
  <2>3. \A s, t \in Sock : Admits(s)' /\ Admits(t)' => s = t
    BY <1>3, Zenon DEF Fenced, Locks
  <2>4. \A s \in Sock : sock'[s].pc = "publish" =>
          (\A t \in Sock : unreg'[t] # "locked") /\ \A v \in Revocation : rvk'[v].pc # "locked"
    BY <1>1, Zenon DEF Fenced, Locks
  <2>5. ~RegisterLockFree' => fence' = 0
    BY <1>1, <1>4, Zenon DEF Fenced, Locks
  <2> QED BY <2>1, <2>2, <2>3, <2>4, <2>5, Zenon DEF Locks
<1>7. \A q \in Patch : PatchFence(q)'
  BY <1>1, Zenon DEF Fenced, PatchFence
<1>8. FenceOwned'
  <2>1. ASSUME NEW q \in Patch, patch[q].fenced, patch[q].pc \in Raised
        PROVE  patch'[q].fenced /\ patch'[q].pc \in Raised
    BY <1>1, <2>1, Zenon DEF Passes
  <2> QED BY <1>1, <2>1, Zenon DEF Fenced, FenceOwned, Raised
<1>9. Fenced'
  BY <1>1, <1>6, <1>7, <1>8, Zenon DEF Fenced, Phases, FenceCurrent
<1>10. ASSUME Durable, PatchDurable(p)' PROVE Durable'
  <2>1. ASSUME NEW q \in Patch, q # p PROVE PatchDurable(q)'
    BY <1>1, <1>4, <1>10, <2>1, Zenon DEF Durable, Core, PatchDurable
  <2>2. Revisions'
    BY <1>1, <1>2, <1>3, <1>4, <1>10, Zenon DEF Durable, Core, Revisions
  <2>3. FenceUp'
    BY <1>1, <1>4, <1>10, Zenon DEF Durable, Core, FenceUp
  <2>4. Sides'
    BY <1>1, <1>10, Zenon DEF Durable, Sides, Marks, Unregistering, Registering, Frozen
  <2> QED BY <1>10, <2>1, <2>2, <2>3, <2>4, Zenon DEF Durable, Core
<1> QED BY <1>9, <1>10, Zenon

\* A step of the PATCH that holds config_update_lock.
Patches(p) ==
  /\ Works(p) /\ UNCHANGED <<sock, mcp, rvk, call>> /\ current' \in {NoSock, current}
  /\ \A q \in Patch \ {p} : patch'[q] = patch[q]
  /\ \A t \in Sock : /\ conn'[t].gen = conn[t].gen /\ (conn'[t].ready => conn[t].ready)
                     /\ unreg'[t] = "locked" => unreg[t] = "locked"
                     /\ unreg'[t] # "none" => unreg[t] # "none" \/ sock[t].pc \notin Before
  /\ fence' # 0 => RegisterLockFree

\* It keeps the fences, once it is shown to keep its own and that of the current connection.
LEMMA PatchesFenced ==
  ASSUME Types, Fenced, NEW p \in Patch, Patches(p),
         current' # NoSock => Phase(conn'[current], sock[current].pc),
         FenceCurrent', PatchFence(p)', FenceOwned'
  PROVE  Fenced'
<1>1. UNCHANGED <<sock, mcp, rvk, call>> /\ \A q \in Patch \ {p} : patch'[q] = patch[q]
  BY Zenon DEF Patches
<1>2. \A q \in Patch \ {p} : ~Works(q) /\ ~Works(q)'
  BY <1>1, Zenon DEF Patches, Fenced, Locks, Works
<1>3. \A s \in Sock : ~Admits(s)'
  BY <1>1, Zenon DEF Patches, Fenced, Locks, Admits
<1>4. \A s \in Sock : sock'[s].pc # "publish"
  BY <1>3, Zenon DEF Admits, Admitting
<1>5. RegisterLockFree => RegisterLockFree'
  BY <1>1, Zenon DEF Patches, RegisterLockFree
<1>6. Locks'
  BY <1>2, <1>3, <1>4, <1>5, Zenon DEF Locks, Patches
<1>7. \A q \in Patch : PatchFence(q)'
  <2>1. ASSUME NEW q \in Patch \ {p} PROVE PatchFence(q)'
    <3>1. ~patch'[q].fenced /\ patch'[q].pc \notin Raised \cup Pushing \cup {"mcp_wait"}
      BY <1>1, <1>2, IdlePatch, Zenon
    <3> QED BY <3>1, Zenon DEF PatchFence
  <2> QED BY <2>1, Zenon
<1>8. Phases'
  BY <1>1, Zenon DEF Patches, Phases
<1> QED BY <1>6, <1>7, <1>8, Zenon DEF Fenced

\* A PATCH changes its update on a connection object, not what is installed or bound.
Recast(k, n) ==
  /\ n.gen = k.gen /\ n.rev = k.rev /\ n.mcp = k.mcp /\ n.bind = k.bind
  /\ (n.ready => k.ready) /\ (n.reg => k.reg)

\* Until its revision is installed, a PATCH keeps what is said of bindings and calls.
LEMMA PatchesSides ==
  ASSUME Types, NEW p \in Patch, Patches(p), Sides,
         \A t \in Sock : Recast(conn[t], conn'[t]) /\ (conn'[t].reg => conn'[t].inflight = "none")
  PROVE  Sides'
<1>1. UNCHANGED <<sock, mcp, rvk, call>>
  BY Zenon DEF Patches
<1>2. current' # NoSock => current' = current /\ current \in Sock
  BY Zenon DEF Patches, Types, NumT, Sockets
<1>3. Marks'
  BY <1>1, Zenon DEF Sides, Marks, Mark, Recast
<1>4. Unregistering'
  BY <1>1, Zenon DEF Sides, Unregistering, Patches
<1>5. \A s \in Sock : current' = s => current = s
  BY <1>2, RegistryAssumption, Zenon DEF RegistryAssumption
<1>6. Registering'
  BY <1>1, <1>5, Zenon DEF Sides, Registering, Recast
<1>7. ASSUME NEW c \in Call PROVE Frozen(call[c])'
  <2>1. Frozen(call[c]) /\ Stays(call[c], call'[c])
    BY <1>1, Zenon DEF Sides, Stays, Alike
  <2>2. \A t \in Sock : /\ conn'[t].gen = conn[t].gen /\ conn'[t].mcp = conn[t].mcp
                        /\ conn'[t].bind = conn[t].bind
    BY Zenon DEF Recast
  <2> QED BY <1>2, <2>1, <2>2, FrozenKept, Zenon
<1> QED BY <1>3, <1>4, <1>6, <1>7, Zenon DEF Sides

\* While no activation is under way, a PATCH keeps the revisions, once it is shown to
\* leave a routable connection that is of the durable one.
LEMMA PatchesCore ==
  ASSUME Types, Fenced, NEW p \in Patch, Patches(p), ~Activated, PatchDurable(p)', rev' # 0,
         Routable' /\ ~Committed(p)' => conn'[current].rev = rev'
  PROVE  Core'
<1>1. UNCHANGED <<sock, mcp, rvk, call>> /\ \A q \in Patch \ {p} : patch'[q] = patch[q]
  BY Zenon DEF Patches
<1>2. \A q \in Patch \ {p} : ~Works(q)
  BY Zenon DEF Patches, Fenced, Locks
<1>3. \A s \in Sock : ~Admits(s)'
  BY <1>1, Zenon DEF Patches, Fenced, Locks, Admits
<1>4. ~Activated'
  BY <1>1, Zenon DEF Patches, Activated
<1>5. ASSUME NEW q \in Patch PROVE PatchDurable(q)'
  <2>1. CASE q = p
    BY <2>1, Zenon
  <2>2. CASE q # p
    <3>1. patch'[q].pc \notin Raised \cup Pushing \cup {"mcp_wait"}
      BY <1>1, <1>2, <2>2, IdlePatch, Zenon
    <3> QED BY <3>1, Zenon DEF PatchDurable
  <2> QED BY <2>1, <2>2, Zenon
<1>6. Routable' => current' = current
  BY Zenon DEF Routable, Patches
<1>7. Revisions'
  BY <1>3, <1>4, <1>6, Zenon DEF Revisions
<1> QED BY <1>4, <1>5, <1>7, Zenon DEF Core, FenceUp

\* The fences unconditionally; what is durable, as long as a timeout does not overtake the
\* end of the registration it was set for.
KeepsOnTime == Fenced' /\ (Durable /\ Generations /\ "late_timeout" \notin Races => Durable')

\* A PATCH that waits, validates, ends before its commit or has sent config_update
\* leaves the registry alone.
LEMMA PassingSteps ==
  ASSUME Types, Fenced, NEW p \in Patch,
         \/ patch_device(p) \/ _build_validate_and_commit(p) \/ validate_config(p)
         \/ registration_done(p) \/ config_update_sent(p)
  PROVE  KeepsOnTime
<1>1. /\ UNCHANGED <<rev, fence, current, conn, sock, unreg, mcp, rvk, call>>
  BY Zenon DEF patch_device, _build_validate_and_commit, validate_config, registration_done,
               config_update_sent, db
<1>2. PatchFence(p)
  BY Zenon DEF Fenced
<1>3. CASE config_update_sent(p)
  <2>1. patch[p].pc = "update_send" /\ PatchTo(p, "applying")
    BY <1>3, Zenon DEF config_update_sent
  <2>2. /\ \A q \in Patch \ {p} : patch'[q] = patch[q]
        /\ patch'[p].pc = "applying" /\ patch'[p].fenced = patch[p].fenced
        /\ patch'[p].gen = patch[p].gen /\ patch'[p].conn = patch[p].conn
    BY <2>1, PatchPut, Zenon DEF Types
  <2>3. Committed(p)' /\ Committed(p) /\ Works(p)
    BY <2>1, <2>2, Zenon DEF Committed, Pushing, Works
  <2>4. Passes(p)
    BY <1>1, <2>1, <2>2, <2>3, Zenon DEF Passes, Raised
  <2>5. PatchFence(p)'
    BY <1>1, <1>2, <2>1, <2>2, Zenon DEF PatchFence, Pushing
  <2>6. Durable => PatchDurable(p)'
    <3>1. Durable => PatchDurable(p)
      BY Zenon DEF Durable, Core
    <3>2. (Activated' <=> Activated) /\ (Routable' <=> Routable)
      BY <1>1, Zenon DEF Activated, Routable
    <3>3. patch[p].pc \in Pushing /\ patch'[p].pc \in Pushing /\ patch'[p].pc \notin Raised
      BY <2>1, <2>2, Zenon DEF Pushing, Raised
    <3>4. PushPhase(conn[current], patch[p].pc) => PushPhase(conn[current], patch'[p].pc)
      BY <2>1, <2>2, Zenon DEF PushPhase
    <3> QED BY <1>1, <2>2, <3>1, <3>2, <3>3, <3>4, Zenon DEF PatchDurable
  <2> QED BY <2>4, <2>5, <2>6, PassesKeeps, Zenon DEF KeepsOnTime
<1>4. CASE \/ patch_device(p) \/ _build_validate_and_commit(p) \/ validate_config(p)
           \/ registration_done(p)
  <2>1. patch[p].pc \in {"idle", "wait", "validate", "mcp_wait"}
    BY <1>4, Zenon DEF patch_device, _build_validate_and_commit, validate_config, registration_done
  <2>2. ~Committed(p) /\ patch[p].pc \notin Raised \cup Pushing
    BY <2>1 DEF Committed, Pushing, Raised
  <2>3. ~patch[p].fenced
    BY <1>2, <2>2, Zenon DEF PatchFence
  <2>4. /\ \A q \in Patch \ {p} : patch'[q] = patch[q]
        /\ ~patch'[p].fenced
        /\ patch'[p].pc \in {"wait", "validate", "begin", "done"}
    <3>1. CASE patch_device(p)
      BY <2>3, <3>1, Zenon DEF patch_device, Types, PatchT, IsPatch
    <3>2. CASE PatchTo(p, "done") \/ PatchTo(p, "begin")
      BY <2>3, <3>2, PatchPut, Zenon DEF Types
    <3>3. CASE patch' = [patch EXCEPT ![p].pc = "validate", ![p].gen = conn[current].gen]
      BY <2>3, <3>3, Zenon DEF Types, PatchT, IsPatch
    <3> QED BY <1>4, <3>1, <3>2, <3>3, Zenon DEF _build_validate_and_commit, validate_config,
                                                registration_done
  <2>5. patch'[p].pc \notin Raised \cup Pushing \cup {"mcp_wait"} /\ ~Committed(p)'
    BY <2>4 DEF Committed, Pushing, Raised
  <2>6. Works(p)' => Works(p) \/ ConfigLockFree
    BY <1>4, Zenon DEF patch_device, _build_validate_and_commit, validate_config, registration_done,
                      Works, Types, PatchT, IsPatch
  <2>7. Passes(p)
    BY <1>1, <2>2, <2>3, <2>4, <2>5, <2>6, Zenon DEF Passes
  <2> QED BY <2>4, <2>5, <2>7, PassesKeeps, Zenon DEF KeepsOnTime, PatchFence, PatchDurable
<1> QED BY <1>3, <1>4, Zenon

\* begin_config_update fences the current generation, waits for a registration, or finds
\* nothing to fence.
LEMMA BeginKeeps ==
  ASSUME Types, Types', Books, Fenced, NEW p \in Patch, begin_config_update(p) PROVE KeepsOnTime
<1>1. /\ UNCHANGED <<rev, current, gens, epoch, credits, sock, unreg, mcp, rvk, call>>
      /\ patch[p].pc = "begin" /\ fence = 0 /\ RegisterLockFree
  BY Zenon DEF begin_config_update, db, _publication_open
<1>2. ~patch[p].fenced /\ Works(p) /\ ~Committed(p)
  <2>1. patch[p].pc \notin Raised \cup Pushing
    BY <1>1 DEF Raised, Pushing
  <2> QED BY <1>1, <2>1, Zenon DEF Fenced, PatchFence, Works, Committed, Raised
<1>3. Routable => current \in Sock /\ sock[current].pc \notin Before
  BY Zenon DEF Routable, Books, Routes, Types, NumT, Sockets
<1>4. Durable => ~Activated
  BY <1>1, Zenon DEF Durable, Core, FenceUp, Books, Routes, Activated
<1>5. CASE ~Target(p)
  <2>1. Unfenced(p) /\ UNCHANGED <<conn, fence>>
    BY <1>5, Zenon DEF begin_config_update
  <2>2. /\ \A q \in Patch \ {p} : patch'[q] = patch[q]
        /\ ~patch'[p].fenced
        /\ patch'[p].pc = "done" \/ (patch'[p].pc = "commit" /\ patch[p].gen = 0)
    BY <1>2, <2>1, PatchPut, Zenon DEF Types, Unfenced
  <2>3. patch'[p].pc \notin Pushing \cup {"mcp_wait"} /\ ~Committed(p)'
    BY <2>2 DEF Pushing, Committed
  <2>4. Passes(p)
    BY <1>1, <1>2, <2>1, <2>2, <2>3, Zenon DEF Passes
  <2>5. PatchFence(p)'
    BY <2>2, <2>3, Zenon DEF PatchFence
  <2>6. patch'[p].pc = "commit" => ~Routable
    BY <1>5, <2>2, Zenon DEF Target
  <2>7. (Activated' <=> Activated) /\ (Routable' <=> Routable)
    BY <1>1, <2>1, Zenon DEF Activated, Routable
  <2>8. Durable => PatchDurable(p)'
    BY <1>4, <2>2, <2>3, <2>6, <2>7, Zenon DEF PatchDurable, Raised
  <2> QED BY <2>4, <2>5, <2>8, PassesKeeps, Zenon DEF KeepsOnTime
<1>6. CASE Target(p) /\ conn[current].reg
  <2>1. /\ patch' = [patch EXCEPT ![p].pc = "mcp_wait", ![p].conn = current]
        /\ UNCHANGED <<conn, fence>>
    BY <1>6, Zenon DEF begin_config_update
  <2>2. /\ \A q \in Patch \ {p} : patch'[q] = patch[q]
        /\ ~patch'[p].fenced /\ patch'[p].pc = "mcp_wait" /\ patch'[p].conn = current
    BY <1>2, <2>1, Zenon DEF Types, PatchT, IsPatch
  <2>3. patch'[p].pc \notin Raised \cup Pushing /\ ~Committed(p)'
    BY <2>2 DEF Pushing, Raised, Committed
  <2>4. Passes(p)
    BY <1>1, <1>2, <2>1, <2>2, <2>3, Zenon DEF Passes
  <2>5. PatchFence(p)'
    BY <1>1, <1>3, <1>6, <2>2, Zenon DEF PatchFence, Target
  <2>6. Durable => PatchDurable(p)'
    BY <1>1, <1>4, <2>1, <2>2, <2>3, Zenon DEF PatchDurable, Activated
  <2> QED BY <2>4, <2>5, <2>6, PassesKeeps, Zenon DEF KeepsOnTime
<1> DEFINE k == [conn[current] EXCEPT !.inflight = "precommit"]
<1>7. CASE Target(p) /\ ~conn[current].reg
  <2>1. /\ conn' = [conn EXCEPT ![current] = k]
        /\ fence' = conn[current].gen
        /\ patch' = [patch EXCEPT ![p].pc = "commit", ![p].fenced = TRUE]
    BY <1>7, Zenon DEF begin_config_update
  <2>2. Routable /\ current \in Sock /\ patch[p].gen \in {0, conn[current].gen}
    BY <1>3, <1>7, Zenon DEF Target
  <2>3. /\ IsConn(k) /\ Recast(conn[current], k) /\ k.apply = conn[current].apply
        /\ k.inflight # "none" /\ ~k.reg /\ k.ready = conn[current].ready
    BY <1>7, <2>2, Zenon DEF Types, ConnT, IsConn, ConnFields, Recast
  <2> HIDE DEF k
  <2>4. conn'[current] = k /\ \A t \in Sock \ {current} : conn'[t] = conn[t]
    BY <2>1, <2>2, <2>3, PutConn, Zenon DEF Types
  <2>5. \A t \in Sock : Recast(conn[t], conn'[t])
    BY <2>2, <2>3, <2>4, Zenon DEF Recast
  <2>6. /\ \A q \in Patch \ {p} : patch'[q] = patch[q]
        /\ patch'[p].fenced /\ patch'[p].pc = "commit" /\ patch'[p].gen = patch[p].gen
    BY <2>1, Zenon DEF Types, PatchT, IsPatch
  <2>7. patch'[p].pc \in Raised /\ patch'[p].pc \notin Pushing \cup {"mcp_wait"} /\ ~Committed(p)'
    BY <2>6 DEF Pushing, Raised, Committed
  <2>8. Patches(p)
    BY <1>1, <1>2, <2>5, <2>6, Zenon DEF Patches, Recast
  <2>9. Phase(conn'[current], sock[current].pc)
    BY <2>2, <2>3, <2>4, Zenon DEF Fenced, Phases, Phase, Routable
  <2>10. FenceCurrent'
    BY <1>1, <2>1, <2>2, <2>5, Zenon DEF FenceCurrent, Recast
  <2>11. PatchFence(p)'
    BY <2>1, <2>2, <2>6, <2>7, Zenon DEF PatchFence
  <2>12. FenceOwned'
    BY <2>6, Zenon DEF FenceOwned
  <2>13. Fenced'
    BY <2>8, <2>9, <2>10, <2>11, <2>12, PatchesFenced, Zenon
  <2>14. ASSUME Durable PROVE Durable'
    <3>1. conn[current].rev = rev /\ rev # 0
      <4>1. \A q \in Patch : q # p => ~Works(q)
        BY <1>2, Zenon DEF Fenced, Locks
      <4>2. \A q \in Patch : ~Committed(q)
        BY <1>2, <4>1, IdlePatch, Zenon
      <4> QED BY <2>2, <2>14, <4>2, Zenon DEF Durable, Core, Revisions
    <3>2. PatchDurable(p)'
      <4>1. ~Activated'
        BY <1>1, <1>4, <2>14, Zenon DEF Activated
      <4>2. patch'[p].gen \in {0, conn'[current].gen} /\ conn'[current].inflight # "none"
        BY <2>2, <2>3, <2>4, <2>6, Zenon DEF Recast
      <4> QED BY <1>1, <2>6, <2>7, <4>1, <4>2, Zenon DEF PatchDurable
    <3>3. Core'
      BY <1>1, <1>4, <2>2, <2>5, <2>8, <2>14, <3>1, <3>2, PatchesCore, Zenon DEF Recast
    <3>4. \A t \in Sock : conn'[t].reg => conn'[t].inflight = "none"
      BY <2>3, <2>4, <2>14, Zenon DEF Durable, Sides, Marks, Mark
    <3>5. Sides'
      BY <2>5, <2>8, <2>14, <3>4, PatchesSides, Zenon DEF Durable
    <3> QED BY <3>3, <3>5, Zenon DEF Durable
  <2> QED BY <2>13, <2>14, Zenon DEF KeepsOnTime
<1> QED BY <1>5, <1>6, <1>7, Zenon

\* A fence that stays up through a step of a PATCH keeps its owner.
LEMMA OwnerStays ==
  ASSUME Types, Fenced, NEW p \in Patch, Patches(p), fence' \in {0, fence},
         fence' # 0 => current' = current,
         patch[p].fenced /\ patch[p].pc \in Raised /\ fence' # 0 =>
           patch'[p].fenced /\ patch'[p].pc \in Raised
  PROVE  FenceCurrent' /\ FenceOwned'
<1>1. \A s \in Sock : conn'[s].gen = conn[s].gen /\ sock'[s] = sock[s]
  BY Zenon DEF Patches
<1>2. current # NoSock => current \in Sock
  BY Zenon DEF Types, NumT, Sockets
<1>3. FenceCurrent'
  BY <1>1, <1>2, Zenon DEF FenceCurrent, Fenced
<1>4. FenceOwned'
  <2> SUFFICES ASSUME fence' # 0
               PROVE  \/ \E s \in Sock : current' = s /\ conn'[s].gen = fence' /\ sock'[s].pc \in Activating
                      \/ \E q \in Patch : patch'[q].fenced /\ patch'[q].pc \in Raised
    BY Zenon DEF FenceOwned, Activating, Raised
  <2>1. CASE \E s \in Sock : current = s /\ conn[s].gen = fence /\ sock[s].pc \in Activating
    BY <1>1, <2>1, Zenon
  <2>2. CASE \E q \in Patch : patch[q].fenced /\ patch[q].pc \in Raised
    BY <2>2, Zenon DEF Patches
  <2> QED BY <2>1, <2>2, Zenon DEF Fenced, FenceOwned, Activating, Raised
<1> QED BY <1>3, <1>4, Zenon

\* A registration that does not end in time costs the connection, not its fence.
LEMMA TimesOutKeeps ==
  ASSUME Types, Types', Fenced, NEW p \in Patch, begin_config_update_times_out(p) PROVE KeepsOnTime
<1> DEFINE s == patch[p].conn
<1>1. /\ UNCHANGED <<rev, current, gens, fence, epoch, credits, sock, mcp, rvk, call>>
      /\ patch[p].pc = "mcp_wait" /\ Unfenced(p)
  BY Zenon DEF begin_config_update_times_out, db
<1>2. ~patch[p].fenced /\ Works(p) /\ ~Committed(p)
  <2>1. patch[p].pc \notin Raised \cup Pushing
    BY <1>1 DEF Raised, Pushing
  <2> QED BY <1>1, <2>1, Zenon DEF Fenced, PatchFence, Works, Committed, Raised
<1>3. s \in Sock /\ sock[s].pc \notin Before
  BY <1>1, Zenon DEF Fenced, PatchFence, Types, PatchT, IsPatch
<1>4. /\ \A q \in Patch \ {p} : patch'[q] = patch[q]
      /\ ~patch'[p].fenced /\ patch'[p].pc \in {"commit", "done"}
  BY <1>1, <1>2, PatchPut, Zenon DEF Types, Unfenced
<1>5. patch'[p].pc \notin Pushing \cup {"mcp_wait"} /\ ~Committed(p)'
  BY <1>4 DEF Pushing, Committed
<1>6. PatchFence(p)'
  BY <1>4, <1>5, Zenon DEF PatchFence
<1>7. Durable => ~Activated
  BY <1>1, Zenon DEF Durable, Core, PatchDurable
<1>8. CASE "late_timeout" \in Races /\ UNCHANGED <<conn, unreg>>
  <2>1. Passes(p)
    BY <1>1, <1>2, <1>4, <1>5, <1>8, Zenon DEF Passes
  <2> QED BY <1>6, <1>8, <2>1, PassesKeeps, Zenon DEF KeepsOnTime
<1> DEFINE k == [conn[s] EXCEPT !.ready = FALSE]
<1>9. CASE current = s /\ conn' = [conn EXCEPT ![s] = k] /\ _schedule_unregister(s)
  <2> HIDE DEF s
  <2>1. /\ IsConn(k) /\ Recast(conn[s], k) /\ ~k.ready /\ k.apply = conn[s].apply
        /\ k.inflight = conn[s].inflight
    BY <1>3, Zenon DEF Types, ConnT, IsConn, ConnFields, Recast
  <2> HIDE DEF k
  <2>2. conn'[s] = k /\ \A t \in Sock \ {s} : conn'[t] = conn[t]
    BY <1>3, <1>9, <2>1, PutConn, Zenon DEF Types
  <2>3. \A t \in Sock : Recast(conn[t], conn'[t]) /\ conn'[t].inflight = conn[t].inflight
    BY <1>3, <2>1, <2>2, Zenon DEF Recast
  <2>4. /\ \A t \in Sock : unreg'[t] = "locked" => unreg[t] = "locked"
        /\ \A t \in Sock \ {s} : unreg'[t] = unreg[t]
    BY <1>9, ScheduleOne, Zenon DEF Types
  <2>5. fence' # 0 => RegisterLockFree
    BY <1>1, Zenon DEF Fenced, Locks
  <2>6. Patches(p)
    BY <1>1, <1>2, <1>3, <1>4, <2>3, <2>4, <2>5, Zenon DEF Patches, Recast
  <2>7. current' # NoSock => Phase(conn'[current], sock[current].pc)
    BY <1>1, <1>3, <1>9, Zenon DEF Phase, Before, Activating
  <2>8. Fenced'
    BY <1>1, <1>2, <1>6, <2>6, <2>7, OwnerStays, PatchesFenced, Zenon
  <2>9. ASSUME Durable PROVE Durable'
    <3>1. ~Routable'
      BY <1>1, <1>9, <2>1, <2>2, Zenon DEF Routable
    <3>2. PatchDurable(p)'
      BY <1>1, <1>5, <1>7, <2>9, <3>1, Zenon DEF PatchDurable, Activated
    <3>3. Core'
      BY <1>1, <1>7, <2>6, <2>9, <3>1, <3>2, PatchesCore, Zenon DEF Durable, Core, Revisions
    <3>4. \A t \in Sock : conn'[t].reg => conn'[t].inflight = "none"
      BY <2>3, <2>9, Zenon DEF Durable, Sides, Marks, Mark, Recast
    <3>5. Sides'
      BY <2>3, <2>6, <2>9, <3>4, PatchesSides, Zenon DEF Durable
    <3> QED BY <3>3, <3>5, Zenon DEF Durable
  <2> QED BY <2>8, <2>9, Zenon DEF KeepsOnTime
<1> QED BY <1>8, <1>9, Zenon DEF begin_config_update_times_out

\* A commit, known or not, makes a new revision durable behind the fence.
LEMMA CommitKeeps ==
  ASSUME Types, Types', Fenced, NEW p \in Patch, commit_config_candidate(p) \/ commit_unknown(p)
  PROVE  KeepsOnTime
<1>1. /\ UNCHANGED <<current, gens, fence, epoch, credits, conn, sock, unreg, mcp, rvk, call>>
      /\ patch[p].pc = "commit" /\ rev' \in {rev, rev + 1}
      /\ PatchTo(p, "push") \/ PatchTo(p, "retire")
  BY Zenon DEF commit_config_candidate, commit_unknown
<1>2. /\ \A q \in Patch \ {p} : patch'[q] = patch[q]
      /\ patch'[p].pc \in {"push", "retire"} /\ patch'[p].fenced = patch[p].fenced
      /\ patch'[p].gen = patch[p].gen /\ patch'[p].conn = patch[p].conn
  BY <1>1, PatchPut, Zenon DEF Types
<1>3. /\ Works(p) /\ Committed(p)' /\ patch[p].pc \in Raised
      /\ patch'[p].pc \in Raised /\ patch'[p].pc \notin Pushing \cup {"mcp_wait"}
  BY <1>1, <1>2 DEF Works, Committed, Raised, Pushing
<1>4. \A t \in Sock : Recast(conn[t], conn'[t]) /\ conn'[t].inflight = conn[t].inflight
  BY <1>1, Zenon DEF Recast
<1>5. Patches(p)
  BY <1>1, <1>2, <1>3, Zenon DEF Patches, Fenced, Locks
<1>6. PatchFence(p)'
  BY <1>1, <1>2, <1>3, Zenon DEF Fenced, PatchFence
<1>7. Fenced'
  BY <1>1, <1>2, <1>3, <1>5, <1>6, OwnerStays, PatchesFenced, Zenon DEF Fenced, Phases
<1>8. ASSUME Durable PROVE Durable'
  <2>1. PatchDurable(p)
    BY <1>8, Zenon DEF Durable, Core
  <2>2. ~Activated /\ PatchDurable(p)'
    BY <1>1, <1>2, <1>3, <2>1, Zenon DEF PatchDurable, Activated, Routable
  <2>3. rev' # 0
    BY <1>1, <1>8 DEF Durable, Core, Revisions, Types, NumT
  <2>4. Core'
    BY <1>3, <1>5, <2>2, <2>3, PatchesCore, Zenon
  <2>5. \A t \in Sock : conn'[t].reg => conn'[t].inflight = "none"
    BY <1>1, <1>8, Zenon DEF Durable, Sides, Marks, Mark
  <2>6. Sides'
    BY <1>4, <1>5, <1>8, <2>5, PatchesSides, Zenon DEF Durable
  <2> QED BY <2>4, <2>6, Zenon DEF Durable
<1> QED BY <1>7, <1>8, Zenon DEF KeepsOnTime

\* A PATCH that ends with its fence down, or had none, and leaves no routable connection
\* of another revision than the durable one.
LEMMA EndKeeps ==
  ASSUME Types, Types', Fenced, NEW p \in Patch, Patches(p), PatchTo(p, "done"), UNCHANGED rev,
         current' # NoSock => Phase(conn'[current], sock[current].pc), fence' \in {0, fence},
         fence' # 0 => current' = current /\ (patch[p].fenced => patch[p].pc \notin Raised),
         \A t \in Sock : Recast(conn[t], conn'[t]) /\ conn'[t].inflight \in {"none", conn[t].inflight},
         Durable => ~Activated /\ (Routable' => conn[current].rev = rev)
  PROVE  KeepsOnTime
<1>1. patch'[p].pc = "done" /\ ~patch'[p].fenced
  BY PatchPut, Zenon DEF Types
<1>2. patch'[p].pc \notin Raised \cup Pushing \cup {"mcp_wait"}
  BY <1>1 DEF Raised, Pushing
<1>3. PatchFence(p)' /\ PatchDurable(p)'
  BY <1>1, <1>2, Zenon DEF PatchFence, PatchDurable
<1>4. Fenced'
  BY <1>3, OwnerStays, PatchesFenced, Zenon
<1>5. ASSUME Durable PROVE Durable'
  <2>1. Routable' => current \in Sock /\ current' = current
    BY Zenon DEF Routable, Patches, Types, NumT, Sockets
  <2>2. Routable' => conn'[current].rev = rev'
    BY <1>5, <2>1, Zenon DEF Recast
  <2>3. Core'
    BY <1>3, <1>5, <2>2, PatchesCore, Zenon DEF Durable, Core, Revisions
  <2>4. \A t \in Sock : conn'[t].reg => conn'[t].inflight = "none"
    BY <1>5, Zenon DEF Durable, Sides, Marks, Mark, Recast
  <2>5. Sides'
    BY <1>5, <2>4, PatchesSides, Zenon DEF Durable
  <2> QED BY <2>3, <2>5, Zenon DEF Durable
<1> QED BY <1>4, <1>5, Zenon DEF KeepsOnTime

\* abort_config_update takes the fence down, and nothing else changes.
LEMMA AbortKeeps ==
  ASSUME Types, Types', Fenced, NEW p \in Patch, abort_config_update(p) PROVE KeepsOnTime
<1>1. /\ UNCHANGED <<rev, current, gens, epoch, credits, sock, unreg, mcp, rvk, call>>
      /\ patch[p].pc \in {"begin", "mcp_wait", "commit"} /\ PatchTo(p, "done")
  BY Zenon DEF abort_config_update, db
<1>2. Works(p) /\ ~Committed(p)
  BY <1>1 DEF Works, Committed, Pushing
<1>3. /\ \A q \in Patch \ {p} : patch'[q] = patch[q]
      /\ patch'[p].pc = "done" /\ ~patch'[p].fenced
  BY <1>1, PatchPut, Zenon DEF Types
<1>4. current # NoSock => current \in Sock
  BY Zenon DEF Types, NumT, Sockets
<1>5. CASE ~patch[p].fenced
  <2>1. UNCHANGED <<conn, fence>>
    BY <1>5, Zenon DEF abort_config_update
  <2>2. patch'[p].pc \notin Raised \cup Pushing \cup {"mcp_wait"} /\ ~Committed(p)'
    BY <1>3 DEF Raised, Pushing, Committed
  <2>3. Passes(p)
    BY <1>1, <1>2, <1>3, <1>5, <2>1, <2>2, Zenon DEF Passes
  <2> QED BY <1>3, <2>2, <2>3, PassesKeeps, Zenon DEF KeepsOnTime, PatchFence, PatchDurable
<1> DEFINE k == [conn[current] EXCEPT !.inflight = "none"]
<1>6. CASE patch[p].fenced
  <2>1. fence' = 0 /\ (UNCHANGED conn \/ (current # NoSock /\ conn' = [conn EXCEPT ![current] = k]))
    BY <1>6, Zenon DEF abort_config_update
  <2>2. patch[p].pc \in Raised \cup Pushing
    BY <1>6, Zenon DEF Fenced, PatchFence
  <2>3. patch[p].pc \in Raised
    BY <1>1, <2>2 DEF Raised, Pushing
  <2>4. current # NoSock => /\ IsConn(k) /\ Recast(conn[current], k) /\ k.inflight = "none"
                            /\ k.apply = conn[current].apply
    BY <1>4, Zenon DEF Types, ConnT, IsConn, ConnFields, Recast
  <2> HIDE DEF k
  <2>5. \A t \in Sock : /\ Recast(conn[t], conn'[t]) /\ conn'[t].inflight \in {"none", conn[t].inflight}
                        /\ conn'[t].apply = conn[t].apply
    <3>1. CASE UNCHANGED conn
      BY <3>1, Zenon DEF Recast
    <3>2. CASE current # NoSock /\ conn' = [conn EXCEPT ![current] = k]
      <4>1. conn'[current] = k /\ \A t \in Sock \ {current} : conn'[t] = conn[t]
        BY <1>4, <2>4, <3>2, PutConn, Zenon DEF Types
      <4> QED BY <2>4, <3>2, <4>1, Zenon DEF Recast
    <3> QED BY <2>1, <3>1, <3>2, Zenon
  <2>6. Patches(p)
    BY <1>1, <1>2, <1>3, <2>1, <2>5, Zenon DEF Patches, Recast
  <2>7. current' # NoSock => Phase(conn'[current], sock[current].pc)
    BY <1>1, <1>4, <2>5, Zenon DEF Fenced, Phases, Phase
  <2>8. ASSUME Durable PROVE ~Activated /\ (Routable' => conn[current].rev = rev)
    <3>1. ~Activated
      BY <2>3, <2>8, Zenon DEF Durable, Core, PatchDurable
    <3>2. \A q \in Patch : q # p => ~Works(q)
      BY <1>2, Zenon DEF Fenced, Locks
    <3>3. \A q \in Patch : ~Committed(q)
      BY <1>2, <3>2, IdlePatch, Zenon
    <3>4. Routable' => Routable
      BY <1>1, <1>4, <2>5, Zenon DEF Routable, Recast
    <3> QED BY <2>8, <3>1, <3>3, <3>4, Zenon DEF Durable, Core, Revisions
  <2> QED BY <1>1, <2>1, <2>5, <2>6, <2>7, <2>8, EndKeeps, Zenon
<1> QED BY <1>5, <1>6, Zenon

\* retire_config_update takes the connection and its fence away.
LEMMA RetireConfigKeeps ==
  ASSUME Types, Types', Fenced, NEW p \in Patch, retire_config_update(p) PROVE KeepsOnTime
<1>1. /\ UNCHANGED <<rev, gens, epoch, credits, sock, unreg, mcp, rvk, call>>
      /\ patch[p].pc \in {"retire", "push"} /\ PatchTo(p, "done") /\ fence' = 0 /\ current' = NoSock
  BY Zenon DEF retire_config_update, db
<1>2. Works(p) /\ patch[p].pc \in Raised
  BY <1>1 DEF Works, Raised
<1>3. \A q \in Patch \ {p} : patch'[q] = patch[q]
  BY <1>1, PatchPut, Zenon DEF Types
<1> DEFINE k == Ambiguous(conn[current], TRUE)
<1>4. UNCHANGED conn \/ (current # NoSock /\ conn' = [conn EXCEPT ![current] = k])
  BY Zenon DEF retire_config_update
<1>5. current # NoSock => current \in Sock
  BY Zenon DEF Types, NumT, Sockets
<1>6. current # NoSock => IsConn(k) /\ Recast(conn[current], k) /\ k.inflight = "none"
  BY <1>5, Zenon DEF Types, ConnT, IsConn, ConnFields, Recast, Ambiguous
<1> HIDE DEF k
<1>7. \A t \in Sock : Recast(conn[t], conn'[t]) /\ conn'[t].inflight \in {"none", conn[t].inflight}
  <2>1. CASE UNCHANGED conn
    BY <2>1, Zenon DEF Recast
  <2>2. CASE current # NoSock /\ conn' = [conn EXCEPT ![current] = k]
    <3>1. conn'[current] = k /\ \A t \in Sock \ {current} : conn'[t] = conn[t]
      BY <1>5, <1>6, <2>2, PutConn, Zenon DEF Types
    <3> QED BY <1>6, <2>2, <3>1, Zenon DEF Recast
  <2> QED BY <1>4, <2>1, <2>2, Zenon
<1>8. Patches(p)
  BY <1>1, <1>2, <1>3, <1>7, Zenon DEF Patches, Recast
<1>9. Durable => ~Activated /\ (Routable' => conn[current].rev = rev)
  BY <1>1, <1>2, Zenon DEF Durable, Core, PatchDurable, Routable
<1> QED BY <1>1, <1>7, <1>8, <1>9, EndKeeps, Zenon

\* push_config takes the connection over from the fence, or finds it gone.
LEMMA PushKeeps ==
  ASSUME Types, Types', Books, Fenced, NEW p \in Patch, push_config(p) PROVE KeepsOnTime
<1>1. /\ UNCHANGED <<rev, current, gens, epoch, credits, sock, unreg, mcp, rvk, call>>
      /\ patch[p].pc = "push"
  BY Zenon DEF push_config, db
<1>2. Works(p) /\ patch[p].pc \in Raised
  BY <1>1 DEF Works, Raised
<1>3. Routable => current \in Sock /\ sock[current].pc \notin Before
  BY Zenon DEF Routable, Books, Routes, Types, NumT, Sockets
<1>4. PatchFence(p) /\ (Durable => PatchDurable(p) /\ ~Activated)
  BY <1>2, Zenon DEF Fenced, Durable, Core, PatchDurable
<1>5. CASE ~Target(p)
  <2>1. /\ fence' = IF patch[p].gen = 0 THEN 0 ELSE Released(patch[p].gen)
        /\ PatchTo(p, "done") /\ UNCHANGED conn
    BY <1>5, Zenon DEF push_config
  <2>2. fence' \in {0, fence} /\ (fence' # 0 => patch[p].gen # 0 /\ fence # patch[p].gen)
    BY <2>1, Zenon DEF Released
  <2>3. fence' # 0 => ~patch[p].fenced
    BY <1>4, <2>2, Zenon DEF PatchFence
  <2>4. \A q \in Patch \ {p} : patch'[q] = patch[q]
    BY <2>1, PatchPut, Zenon DEF Types
  <2>5. \A t \in Sock : Recast(conn[t], conn'[t]) /\ conn'[t].inflight = conn[t].inflight
    BY <2>1, Zenon DEF Recast
  <2>6. Patches(p)
    BY <1>1, <1>2, <2>1, <2>2, <2>4, Zenon DEF Patches, Fenced, Locks
  <2>7. Durable => ~Routable
    BY <1>2, <1>4, <1>5, Zenon DEF PatchDurable, Target
  <2>8. Routable' => Routable
    BY <1>1, <2>1, Zenon DEF Routable
  <2>9. current' # NoSock => Phase(conn'[current], sock[current].pc)
    BY <1>1, <2>1, Zenon DEF Fenced, Phases
  <2> QED BY <1>1, <1>4, <2>1, <2>2, <2>3, <2>5, <2>6, <2>7, <2>8, <2>9, EndKeeps, Zenon
<1> DEFINE k == Taken(conn[current])
<1>6. CASE Target(p)
  <2>1. /\ conn' = [conn EXCEPT ![current] = k] /\ fence' = Released(conn[current].gen)
        /\ patch' = [patch EXCEPT ![p].pc = "update_wait", ![p].conn = current]
    BY <1>6, Zenon DEF push_config
  <2>2. Routable /\ current \in Sock /\ sock[current].pc \notin Before /\ current # NoSock
    BY <1>3, <1>6, Zenon DEF Target, Routable
  <2>3. fence' = 0
    BY <2>1, <2>2, Zenon DEF Released, Fenced, FenceCurrent
  <2>4. /\ IsConn(k) /\ Recast(conn[current], k) /\ k.apply = "pending" /\ k.target = rev
        /\ k.inflight # "none" /\ k.reg = conn[current].reg
    BY <2>2, Zenon DEF Types, NumT, ConnT, IsConn, ConnFields, Recast, Taken
  <2> HIDE DEF k
  <2>5. conn'[current] = k /\ \A t \in Sock \ {current} : conn'[t] = conn[t]
    BY <2>1, <2>2, <2>4, PutConn, Zenon DEF Types
  <2>6. \A t \in Sock : Recast(conn[t], conn'[t])
    BY <2>2, <2>4, <2>5, Zenon DEF Recast
  <2>7. /\ \A q \in Patch \ {p} : patch'[q] = patch[q]
        /\ patch'[p].pc = "update_wait" /\ patch'[p].conn = current
    BY <2>1, Zenon DEF Types, PatchT, IsPatch
  <2>8. patch'[p].pc \in Pushing /\ patch'[p].pc \notin Raised /\ Committed(p)'
    BY <2>7 DEF Pushing, Raised, Committed
  <2>9. Patches(p)
    BY <1>1, <1>2, <2>3, <2>6, <2>7, Zenon DEF Patches, Recast
  <2>10. Phase(conn'[current], sock[current].pc)
    BY <2>2, Zenon DEF Phase, Before, Activating
  <2>11. PatchFence(p)' /\ FenceCurrent' /\ FenceOwned'
    BY <1>1, <2>2, <2>3, <2>7, <2>8, Zenon DEF PatchFence, FenceCurrent, FenceOwned
  <2>12. Fenced'
    BY <2>9, <2>10, <2>11, PatchesFenced, Zenon
  <2>13. ASSUME Durable PROVE Durable'
    <3>1. ~conn[current].reg
      BY <1>2, <1>4, <2>2, <2>13, Zenon DEF PatchDurable, Durable, Sides, Marks, Mark
    <3>2. PushPhase(conn'[current], patch'[p].pc)
      BY <2>4, <2>5, <2>7, Zenon DEF PushPhase
    <3>3. PatchDurable(p)'
      BY <1>1, <1>4, <2>4, <2>5, <2>7, <2>8, <2>13, <3>2, Zenon DEF PatchDurable, Activated
    <3>4. Core'
      BY <1>1, <1>4, <2>8, <2>9, <2>13, <3>3, PatchesCore, Zenon DEF Durable, Core, Revisions
    <3>5. \A t \in Sock : conn'[t].reg => conn'[t].inflight = "none"
      BY <2>4, <2>5, <2>13, <3>1, Zenon DEF Durable, Sides, Marks, Mark
    <3>6. Sides'
      BY <2>6, <2>9, <2>13, <3>5, PatchesSides, Zenon DEF Durable
    <3> QED BY <3>4, <3>6, Zenon DEF Durable
  <2> QED BY <2>12, <2>13, Zenon DEF KeepsOnTime
<1> QED BY <1>5, <1>6, Zenon

\* What a PATCH that pushes knows: it has the lock, its connection was activated, and
\* a routable connection is the one it pushes to.
LEMMA PushesOn ==
  ASSUME Types, Fenced, NEW p \in Patch, patch[p].pc \in Pushing
  PROVE  /\ Works(p) /\ patch[p].pc \notin Raised /\ Committed(p)
         /\ patch[p].conn \in Sock /\ patch[p].conn # NoSock /\ sock[patch[p].conn].pc \notin Before
         /\ Durable => /\ ~Activated
                       /\ Routable => /\ patch[p].conn = current /\ conn[current].inflight # "none"
                                      /\ conn[current].target = rev
                                      /\ PushPhase(conn[current], patch[p].pc)
<1>1. Works(p) /\ patch[p].pc \notin Raised /\ Committed(p)
  BY DEF Pushing, Works, Raised, Committed
<1>2. patch[p].conn \in Sock /\ patch[p].conn # NoSock /\ sock[patch[p].conn].pc \notin Before
  BY RegistryAssumption, Zenon DEF Types, PatchT, IsPatch, Fenced, PatchFence, RegistryAssumption
<1>3. Durable => PatchDurable(p)
  BY Zenon DEF Durable, Core
<1> QED BY <1>1, <1>2, <1>3, Zenon DEF PatchDurable

\* A send of the push goes on while the connection is current and as the PATCH left it.
LEMMA PushSendKeeps ==
  ASSUME Types, Types', Fenced, NEW p \in Patch, NEW from \in Pushing, NEW need,
         NEW mark \in {"issued", "acking"}, NEW to \in {"update_send", "ack_send"},
         (mark = "issued" /\ to = "update_send") \/ (mark = "acking" /\ to = "ack_send"),
         PushPhase(conn[patch[p].conn], from) => conn[patch[p].conn].apply = need,
         push_send(p, from, need, mark, to)
  PROVE  KeepsOnTime
<1> DEFINE s == patch[p].conn
           k == [conn[s] EXCEPT !.apply = mark]
<1>1. /\ UNCHANGED <<rev, current, gens, fence, epoch, credits, sock, unreg, mcp, rvk, call>>
      /\ patch[p].pc = from
  BY Zenon DEF push_send, db
<1>2. /\ Works(p) /\ patch[p].pc \notin Raised /\ Committed(p)
      /\ s \in Sock /\ s # NoSock /\ sock[s].pc \notin Before
      /\ Durable => /\ ~Activated
                    /\ Routable => /\ s = current /\ conn[current].inflight # "none"
                                   /\ conn[current].target = rev
                                   /\ PushPhase(conn[current], patch[p].pc)
  BY <1>1, PushesOn, Zenon
<1>3. fence' # 0 => RegisterLockFree
  BY <1>1, Zenon DEF Fenced, Locks
<1>4. CASE ~(current = s /\ conn[s].apply = need)
  <2>1. PatchTo(p, "done") /\ UNCHANGED conn
    BY <1>4, Zenon DEF push_send
  <2>2. Durable => ~Routable
    BY <1>1, <1>2, <1>4, Zenon
  <2>3. Routable' => Routable
    BY <1>1, <2>1, Zenon DEF Routable
  <2>4. \A q \in Patch \ {p} : patch'[q] = patch[q]
    BY <2>1, PatchPut, Zenon DEF Types
  <2>5. Patches(p)
    BY <1>1, <1>2, <1>3, <2>1, <2>4, Zenon DEF Patches
  <2>6. \A t \in Sock : Recast(conn[t], conn'[t]) /\ conn'[t].inflight = conn[t].inflight
    BY <2>1, Zenon DEF Recast
  <2>7. current' # NoSock => Phase(conn'[current], sock[current].pc)
    BY <1>1, <2>1, Zenon DEF Fenced, Phases
  <2> QED BY <1>1, <1>2, <2>1, <2>2, <2>3, <2>5, <2>6, <2>7, EndKeeps, Zenon
<1>5. CASE current = s /\ conn[s].apply = need
  <2>1. conn' = [conn EXCEPT ![s] = k] /\ PatchTo(p, to)
    BY <1>5, Zenon DEF push_send
  <2>2. /\ \A q \in Patch \ {p} : patch'[q] = patch[q]
        /\ patch'[p].pc = to /\ patch'[p].fenced = patch[p].fenced
        /\ patch'[p].gen = patch[p].gen /\ patch'[p].conn = s
    BY <2>1, PatchPut, Zenon DEF Types
  <2> HIDE DEF s
  <2>3. /\ IsConn(k) /\ Recast(conn[s], k) /\ k.apply = mark /\ k.target = conn[s].target
        /\ k.inflight = conn[s].inflight
    BY <1>2, Zenon DEF Types, ConnT, IsConn, ConnFields, Recast
  <2> HIDE DEF k
  <2>4. conn'[s] = k /\ \A t \in Sock \ {s} : conn'[t] = conn[t]
    BY <1>2, <2>1, <2>3, PutConn, Zenon DEF Types
  <2>5. \A t \in Sock : Recast(conn[t], conn'[t]) /\ conn'[t].inflight = conn[t].inflight
    BY <1>2, <2>3, <2>4, Zenon DEF Recast
  <2>6. patch'[p].pc \in Pushing /\ patch'[p].pc \notin Raised /\ Committed(p)'
    BY <2>2 DEF Pushing, Raised, Committed
  <2>7. Patches(p)
    BY <1>1, <1>2, <1>3, <2>2, <2>5, Zenon DEF Patches, Recast
  <2>8. Phase(conn'[current], sock[current].pc)
    BY <1>2, <1>5, Zenon DEF Phase, Before, Activating
  <2>9. PatchFence(p)'
    BY <1>1, <1>2, <2>2, <2>6, Zenon DEF PatchFence, Fenced
  <2>10. Fenced'
    BY <1>1, <1>2, <2>7, <2>8, <2>9, OwnerStays, PatchesFenced, Zenon
  <2>11. ASSUME Durable PROVE Durable'
    <3>1. PushPhase(conn'[current], patch'[p].pc)
      BY <1>5, <2>2, <2>3, <2>4, Zenon DEF PushPhase
    <3>2. Routable' => Routable
      BY <1>1, <1>2, <1>5, <2>5, Zenon DEF Routable, Recast
    <3>3. PatchDurable(p)'
      BY <1>1, <1>2, <1>5, <2>2, <2>3, <2>4, <2>6, <2>11, <3>1, <3>2, Zenon DEF PatchDurable, Activated
    <3>4. Core'
      BY <1>1, <1>2, <2>6, <2>7, <2>11, <3>3, PatchesCore, Zenon DEF Durable, Core, Revisions
    <3>5. \A t \in Sock : conn'[t].reg => conn'[t].inflight = "none"
      BY <2>5, <2>11, Zenon DEF Durable, Sides, Marks, Mark, Recast
    <3>6. Sides'
      BY <2>5, <2>7, <2>11, <3>5, PatchesSides, Zenon DEF Durable
    <3> QED BY <3>4, <3>6, Zenon DEF Durable
  <2> QED BY <2>10, <2>11, Zenon DEF KeepsOnTime
<1> QED BY <1>4, <1>5, Zenon

\* The end of a push installs the durable revision, whose epoch no queued call has.
LEMMA PushDoneKeeps ==
  ASSUME Types, Types', Fenced, NEW p \in Patch, push_done(p) PROVE KeepsOnTime
<1> DEFINE s == patch[p].conn
           k == Updated(conn[s])
<1>1. /\ UNCHANGED <<rev, current, gens, fence, epoch, credits, sock, unreg, mcp, rvk, call>>
      /\ patch[p].pc = "ack_send" /\ PatchTo(p, "done")
  BY Zenon DEF push_done, db
<1>2. /\ Works(p) /\ patch[p].pc \notin Raised /\ Committed(p)
      /\ s \in Sock /\ s # NoSock /\ sock[s].pc \notin Before
      /\ Durable => /\ ~Activated
                    /\ Routable => /\ s = current /\ conn[current].inflight # "none"
                                   /\ conn[current].target = rev
                                   /\ PushPhase(conn[current], patch[p].pc)
  BY <1>1, PushesOn, Zenon DEF Pushing
<1>3. fence' # 0 => RegisterLockFree
  BY <1>1, Zenon DEF Fenced, Locks
<1>4. /\ \A q \in Patch \ {p} : patch'[q] = patch[q]
      /\ patch'[p].pc = "done" /\ ~patch'[p].fenced
  BY <1>1, PatchPut, Zenon DEF Types
<1>5. CASE ~(current = s /\ conn[s].apply = "acking")
  <2>1. UNCHANGED conn
    BY <1>5, Zenon DEF push_done
  <2>2. Durable => ~Routable
    BY <1>1, <1>2, <1>5, Zenon DEF PushPhase
  <2>3. Routable' => Routable
    BY <1>1, <2>1, Zenon DEF Routable
  <2>4. Patches(p)
    BY <1>1, <1>2, <1>3, <1>4, <2>1, Zenon DEF Patches
  <2>5. \A t \in Sock : Recast(conn[t], conn'[t]) /\ conn'[t].inflight = conn[t].inflight
    BY <2>1, Zenon DEF Recast
  <2>6. current' # NoSock => Phase(conn'[current], sock[current].pc)
    BY <1>1, <2>1, Zenon DEF Fenced, Phases
  <2> QED BY <1>1, <1>2, <2>2, <2>3, <2>4, <2>5, <2>6, EndKeeps, Zenon
<1>6. CASE current = s /\ conn[s].apply = "acking"
  <2>1. conn' = [conn EXCEPT ![s] = k]
    BY <1>6, Zenon DEF push_done
  <2> HIDE DEF s
  <2>2. IsConn(conn[s])
    BY <1>2, Zenon DEF Types, ConnT
  <2>3. /\ IsConn(k) /\ k.gen = conn[s].gen /\ k.ready = conn[s].ready /\ k.rev = conn[s].target
        /\ k.mcp = conn[s].mcp + 1 /\ k.bind = 0 /\ k.inflight = "none" /\ k.reg = conn[s].reg
    BY <2>2 DEF IsConn, ConnFields, Updated
  <2> HIDE DEF k
  <2>4. conn'[s] = k /\ \A t \in Sock \ {s} : conn'[t] = conn[t]
    BY <1>2, <2>1, <2>3, PutConn, Zenon DEF Types
  <2>5. \A t \in Sock : conn'[t].gen = conn[t].gen /\ conn'[t].ready = conn[t].ready
    BY <1>2, <2>3, <2>4, Zenon
  <2>6. Patches(p)
    BY <1>1, <1>2, <1>3, <1>4, <2>5, Zenon DEF Patches
  <2>7. Phase(conn'[current], sock[current].pc)
    BY <1>2, <1>6, Zenon DEF Phase, Before, Activating
  <2>8. patch'[p].pc \notin Raised \cup Pushing \cup {"mcp_wait"}
    BY <1>4 DEF Raised, Pushing
  <2>9. PatchFence(p)' /\ PatchDurable(p)'
    BY <1>4, <2>8, Zenon DEF PatchFence, PatchDurable
  <2>10. Fenced'
    BY <1>1, <1>2, <2>6, <2>7, <2>9, OwnerStays, PatchesFenced, Zenon
  <2>11. ASSUME Durable PROVE Durable'
    <3>1. Routable' => Routable /\ conn'[current].rev = rev
      BY <1>1, <1>2, <1>6, <2>3, <2>4, <2>5, <2>11, Zenon DEF Routable
    <3>2. Core'
      BY <1>1, <1>2, <2>6, <2>9, <2>11, <3>1, PatchesCore, Zenon DEF Durable, Core, Revisions
    <3>3. \A t \in Sock : Mark(conn[t], sock[t].pc)
      BY <2>11, Zenon DEF Durable, Sides, Marks
    <3>4. Mark(conn'[s], sock'[s].pc)
      BY <2>3, <2>4, Zenon DEF Mark
    <3>5. Marks'
      BY <1>1, <2>4, <3>3, <3>4, Zenon DEF Marks
    <3>6. Unregistering'
      BY <1>1, <2>11, Zenon DEF Durable, Sides, Unregistering
    <3>7. conn[s].ready => ~conn[s].reg
      BY <1>2, <1>6, <2>11, <3>3, Zenon DEF Routable, Mark
    <3>8. Registering'
      BY <1>1, <2>3, <2>4, <2>11, <3>7, Zenon DEF Durable, Sides, Registering
    <3>9. ASSUME NEW c \in Call PROVE Frozen(call[c])'
      <4>1. Frozen(call[c]) /\ call'[c] = call[c] /\ call[c].mcp \in Nat /\ conn[s].mcp \in Nat
        BY <1>1, <2>2, <2>11, Zenon DEF Durable, Sides, Types, CallT, IsCall, IsConn
      <4>2. call[c].mcp <= conn[s].mcp => call[c].mcp <= k.mcp /\ call[c].mcp # k.mcp
        BY <2>3, <4>1
      <4>3. call[c].kind = "mcp" /\ call[c].pc = "queued" /\ call[c].conn = current =>
              call[c].mcp <= k.mcp /\ call[c].mcp # k.mcp
        BY <1>6, <4>1, <4>2, Zenon DEF Frozen
      <4>4. call[c].pc = "queued" => call[c].conn \in Sock
        BY Zenon DEF Types, CallT, IsCall
      <4>5. call[c].kind = "route" /\ call[c].pc = "queued" => conn'[call[c].conn].gen = call[c].gen
        BY <2>5, <4>1, <4>4, Zenon DEF Frozen
      <4> QED BY <1>1, <1>6, <2>4, <4>1, <4>3, <4>5, Zenon DEF Frozen
    <3>10. Sides'
      BY <3>5, <3>6, <3>8, <3>9, Zenon DEF Sides
    <3> QED BY <3>2, <3>10, Zenon DEF Durable
  <2> QED BY <2>10, <2>11, Zenon DEF KeepsOnTime
<1> QED BY <1>5, <1>6, Zenon

\* A push that fails takes the connection it pushed to away.
LEMMA PushFailsKeeps ==
  ASSUME Types, Types', Fenced, NEW p \in Patch, push_fails(p) PROVE KeepsOnTime
<1> DEFINE s == patch[p].conn
           k == Ambiguous(conn[s], current = s)
<1>1. /\ UNCHANGED <<rev, gens, epoch, credits, sock, unreg, mcp, rvk, call>>
      /\ patch[p].pc \in Pushing /\ PatchTo(p, "done") /\ conn' = [conn EXCEPT ![s] = k]
      /\ fence' = Released(conn[s].gen) /\ current' = IF current = s THEN NoSock ELSE current
  BY Zenon DEF push_fails, db, Pushing, _retire_ambiguous_config
<1>2. /\ Works(p) /\ patch[p].pc \notin Raised
      /\ s \in Sock /\ s # NoSock /\ sock[s].pc \notin Before
      /\ Durable => ~Activated /\ (Routable => s = current)
  BY <1>1, PushesOn, Zenon
<1>3. \A q \in Patch \ {p} : patch'[q] = patch[q]
  BY <1>1, PatchPut, Zenon DEF Types
<1> HIDE DEF s
<1>4. IsConn(k) /\ Recast(conn[s], k) /\ k.inflight = "none"
  BY <1>2, Zenon DEF Types, ConnT, IsConn, ConnFields, Recast, Ambiguous
<1> HIDE DEF k
<1>5. conn'[s] = k /\ \A t \in Sock \ {s} : conn'[t] = conn[t]
  BY <1>1, <1>2, <1>4, PutConn, Zenon DEF Types
<1>6. \A t \in Sock : Recast(conn[t], conn'[t]) /\ conn'[t].inflight \in {"none", conn[t].inflight}
  BY <1>2, <1>4, <1>5, Zenon DEF Recast
<1>7. fence' \in {0, fence} /\ (fence' # 0 => fence # conn[s].gen)
  BY <1>1, Zenon DEF Released
<1>8. current' \in {NoSock, current} /\ (fence' # 0 => current' = current)
  BY <1>1, <1>2, <1>7, Zenon DEF Fenced, FenceCurrent
<1>9. Patches(p)
  BY <1>1, <1>2, <1>3, <1>6, <1>7, <1>8, Zenon DEF Patches, Recast, Fenced, Locks
<1>10. current' # NoSock => /\ current' = current /\ current # s /\ current \in Sock
  BY <1>1, Zenon DEF Types, NumT, Sockets
<1>11. current' # NoSock => Phase(conn'[current], sock[current].pc)
  BY <1>5, <1>10, Zenon DEF Fenced, Phases
<1>12. Routable' => Routable /\ current # s
  BY <1>5, <1>10, Zenon DEF Routable
<1> QED BY <1>1, <1>2, <1>6, <1>7, <1>8, <1>9, <1>11, <1>12, EndKeeps, Zenon

\* Every step of a PATCH keeps the fences and what is durable.
LEMMA PatchSteps ==
  ASSUME Types, Types', Books, Fenced, NEW p \in Patch, Update(p) PROVE KeepsOnTime
<1>1. ASSUME send_config_update(p) PROVE KeepsOnTime
  <2>1. push_send(p, "update_wait", "pending", "issued", "update_send")
    BY <1>1, Zenon DEF send_config_update
  <2>2. PushPhase(conn[patch[p].conn], "update_wait") => conn[patch[p].conn].apply = "pending"
    BY Zenon DEF PushPhase
  <2> QED BY <2>1, <2>2, PushSendKeeps, Zenon DEF Pushing
<1>2. ASSUME send_update_ack(p) PROVE KeepsOnTime
  <2>1. /\ conn[patch[p].conn].apply = "applied"
        /\ push_send(p, "applying", "applied", "acking", "ack_send")
    BY <1>2, Zenon DEF send_update_ack
  <2> QED BY <2>1, PushSendKeeps, Zenon DEF Pushing
<1> QED BY <1>1, <1>2, PassingSteps, BeginKeeps, TimesOutKeeps, CommitKeeps, AbortKeeps,
           RetireConfigKeeps, PushKeeps, PushDoneKeeps, PushFailsKeeps, Zenon DEF Update

-----------------------------------------------------------------------------
(***************************************************************************)
(* Every step.                                                             *)
(***************************************************************************)
\* A step aside of the fence keeps it, and what is durable with what it keeps of the rest.
LEMMA AsideKeeps ==
  ASSUME Types, Types', Fenced, Aside, Durable => Sides' PROVE KeepsOnTime
<1>1. Onward /\ fence' = fence
  BY AsideOnward, Zenon DEF Aside
<1>2. Fenced'
  BY <1>1, OnwardFenced, Zenon
<1>3. Durable => Core'
  BY <1>1, OnwardCore, Zenon DEF Durable
<1> QED BY <1>2, <1>3, Zenon DEF KeepsOnTime, Durable

\* Every step keeps the fences, and with them what is durable.
LEMMA StepKeepsFences ==
  ASSUME Types, Types', Books, Fenced, [Next]_vars PROVE KeepsOnTime
<1>1. Keeps => KeepsOnTime
  BY Zenon DEF Keeps, KeepsOnTime
<1>2. ASSUME Tame PROVE Keeps
  BY <1>2, TameSmooth, SmoothKeeps, Zenon
<1>3. CASE UNCHANGED vars
  <2>1. UNCHANGED <<rev, current, fence, conn, sock, unreg, mcp, patch, rvk, call>>
    BY <1>3, Zenon DEF vars
  <2>2. NoLock /\ \A t \in Sock : Same(conn[t], conn'[t]) /\ Moves(sock[t].pc, sock'[t].pc)
    BY <2>1, NoLockStill, Zenon DEF Same, Moves
  <2>3. Tame
    BY <2>1, <2>2, SameStep, Zenon DEF Tame, Stays, Alike
  <2> QED BY <1>1, <1>2, <2>3, Zenon
<1>4. ASSUME NEW s \in Sock, Handshake(s) \/ Unregister(s) \/ Registration(s) PROVE KeepsOnTime
  <2>1. CASE TameSocket(s) \/ _retire(s)
    BY <1>1, <1>2, <2>1, TameSocketSteps, RetireTame, Zenon
  <2>2. CASE RegistrationGoesOn(s)
    <3>1. Aside /\ (Durable => Sides')
      BY <2>2, RegistrationSteps, Zenon DEF Durable
    <3> QED BY <3>1, AsideKeeps, Zenon
  <2>3. CASE ActivationGoesOn(s)
    <3>1. Smooth /\ Upheld
      BY <2>3, ActivationSteps, Zenon DEF Upheld
    <3> QED BY <1>1, <3>1, SmoothKeeps, Zenon
  <2>4. CASE activate_fails(s) \/ disconnect(s) \/ registration_fails(s) \/ unregister(s)
    <3>1. Smooth /\ (FenceUp /\ Generations /\ Unregistering => Upheld)
      BY <2>4, ReleasingSteps, Zenon
    <3>2. Durable /\ Generations => Upheld
      BY <3>1, Zenon DEF Durable, Core, Sides
    <3> QED BY <1>1, <3>1, <3>2, SmoothKeeps, Zenon
  <2>5. CASE register(s) \/ unregister_locks(s)
    BY <1>1, <2>5, LockSteps, Zenon
  <2>6. CASE find_by_token(s) \/ _publish_registration(s) \/ activated(s)
    BY <1>1, <2>6, FindKeeps, PublishKeeps, ActivatedKeeps, Zenon
  <2> QED BY <1>4, <2>1, <2>2, <2>3, <2>4, <2>5, <2>6, Zenon
          DEF Handshake, Unregister, Registration, TameSocket, RegistrationGoesOn, ActivationGoesOn
<1>5. ASSUME NEW v \in Revocation, Revoke(v) PROVE KeepsOnTime
  <2>1. CASE revoke(v)
    BY <1>1, <2>1, LockSteps, Zenon
  <2>2. CASE (\E deleted \in BOOLEAN : regenerate_token(v, deleted)) \/ revoke_pops(v) \/ revoked(v)
    BY <1>1, <1>2, <2>2, RevokeTame, Zenon
  <2> QED BY <1>5, <2>1, <2>2, Zenon DEF Revoke
<1>6. ASSUME NEW c \in Call, ToolCall(c) PROVE KeepsOnTime
  <2>1. CASE TameCall(c)
    BY <1>1, <1>2, <2>1, TameCallSteps, Zenon
  <2>2. CASE (\E kind \in {"name", "route", "mcp"} : get_route(c, kind)) \/ _dispatch_tool(c)
    <3>1. Aside /\ (Durable => Sides')
      BY <2>2, DispatchSteps, Zenon
    <3> QED BY <3>1, AsideKeeps, Zenon
  <2> QED BY <1>6, <2>1, <2>2, Zenon DEF ToolCall, TameCall
<1>7. CASE _revocation_epoch_expires
  BY <1>1, <1>2, <1>7, ExpiryTame, Zenon
<1> QED BY <1>3, <1>4, <1>5, <1>6, <1>7, PatchSteps, Zenon DEF Next

\* At the start nobody holds a lock, no fence is up and nothing is routed to.
LEMMA InitFences == Init => Fenced /\ Durable
<1> SUFFICES ASSUME Init PROVE Fenced /\ Durable
  BY Zenon
<1>1. /\ rev = 1 /\ current = NoSock /\ fence = 0
      /\ \A s \in Sock : /\ sock[s].pc = "idle" /\ unreg[s] = "none" /\ mcp[s].pc = "idle"
                         /\ ~conn[s].reg /\ conn[s].bind = 0
      /\ \A v \in Revocation : rvk[v].pc = "idle"
      /\ \A c \in Call : call[c].pc = "idle"
  BY Zenon DEF Init, NewConnection
<1>2. \A p \in Patch : patch[p].pc = "idle" /\ ~patch[p].fenced
  BY Zenon DEF Init, NewPatch
<1>3. \A p \in Patch : ~Works(p) /\ patch[p].pc \notin Raised \cup Pushing \cup {"mcp_wait"}
  BY <1>2 DEF Works, Raised, Pushing
<1>4. \A s \in Sock : ~Admits(s)
  BY <1>1, Zenon DEF Admits, Admitting
<1>5. Fenced
  <2>1. Locks
    BY <1>1, <1>3, <1>4, Zenon DEF Locks
  <2>2. \A p \in Patch : PatchFence(p)
    BY <1>2, <1>3, Zenon DEF PatchFence
  <2> QED BY <1>1, <2>1, <2>2, Zenon DEF Fenced, Phases, FenceCurrent, FenceOwned
<1>6. Core
  <2>1. ~Activated /\ ~Routable
    BY <1>1, Zenon DEF Activated, Routable
  <2>2. \A p \in Patch : PatchDurable(p)
    BY <1>3, Zenon DEF PatchDurable
  <2>3. Revisions
    BY <1>1, <1>4, <2>1 DEF Revisions
  <2> QED BY <2>1, <2>2, <2>3, Zenon DEF Core, FenceUp
<1>7. Sides
  BY <1>1, Zenon DEF Sides, Marks, Mark, Unregistering, Registering, Frozen
<1> QED BY <1>5, <1>6, <1>7, Zenon DEF Durable

\* Only _mark_call_issued puts a call on the wire.
LEMMA OnlyIssued ==
  ASSUME Types, [Next]_vars, NEW c \in Call, call[c].wire = "no", call'[c].wire = "sent"
  PROVE  _mark_call_issued(c)
<1>1. ~UNCHANGED call
  BY Zenon
<1>2. ASSUME NEW s \in Sock, _retire(s) PROVE FALSE
  <2>1. call'[c].wire = call[c].wire
    BY <1>2, Zenon DEF _retire, Types, CallT, IsCall
  <2> QED BY <2>1, Zenon
<1>3. ASSUME NEW s \in Sock, Handshake(s) \/ Unregister(s) \/ Registration(s) PROVE FALSE
  BY <1>1, <1>2, <1>3, Zenon
     DEF Handshake, Unregister, Registration, authenticate, registration_epoch, find_by_token, register,
         _publish_registration, register_returns, activate, send_hello_ack, hello_ack_sent,
         send_applied_ack, activate_send, activated, activate_fails, resolve_config_applied, disconnect,
         socket_ends, unregister, unregister_locks, unregister_pops, register_mcp,
         validate_mcp_registration, publish_mcp_registration, send_register_ack, mcp_registered,
         registration_fails
<1>4. ASSUME NEW p \in Patch, Update(p) PROVE FALSE
  BY <1>1, <1>4, Zenon
     DEF Update, patch_device, _build_validate_and_commit, validate_config, begin_config_update,
         registration_done, begin_config_update_times_out, commit_config_candidate, commit_unknown,
         abort_config_update, retire_config_update, push_config, send_config_update, config_update_sent,
         send_update_ack, push_send, push_done, push_fails
<1>5. ASSUME NEW v \in Revocation, Revoke(v) \/ _revocation_epoch_expires PROVE FALSE
  BY <1>1, <1>5, Zenon
     DEF Revoke, regenerate_token, revoke, revoke_pops, revoked, _revocation_epoch_expires
<1>6. ASSUME NEW d \in Call, ToolCall(d) PROVE _mark_call_issued(c)
  <2>1. CASE _mark_call_issued(d)
    <3>1. d = c
      BY <2>1, Zenon DEF _mark_call_issued, Types, CallT
    <3> QED BY <2>1, <3>1, Zenon
  <2>2. CASE \E out \in Outcomes : call' = [call EXCEPT ![d] = Ends(d, out)]
    <3>1. PICK out \in Outcomes : call' = [call EXCEPT ![d] = Ends(d, out)]
      BY <2>2, Zenon
    <3>2. Ends(d, out).wire = call[d].wire
      BY <3>1, EndsRecord, Zenon
    <3>3. call'[c].wire = call[c].wire
      BY <3>1, <3>2, Zenon DEF Types, CallT
    <3> QED BY <3>3, Zenon
  <2>3. CASE call_sent(d) \/ send_fails(d)
    <3>1. call'[c].wire = call[c].wire
      BY <2>3, Zenon DEF call_sent, send_fails, Types, CallT, IsCall
    <3> QED BY <3>1, Zenon
  <2>4. CASE _dispatch_tool(d)
    <3>1. CASE call' = [call EXCEPT ![d] = [@ EXCEPT !.pc = "queued", !.conn = current,
                                                     !.mcp = conn[current].mcp]]
      <4>1. call'[c].wire = call[c].wire
        BY <3>1, Zenon DEF Types, CallT, IsCall
      <4> QED BY <4>1, Zenon
    <3> QED BY <2>2, <2>4, <3>1, Zenon DEF _dispatch_tool, Outcomes
  <2>5. CASE resolve_tool_result(d)
    <3>1. call'[c].wire \in {call[c].wire, "answered"}
      BY <2>5, Zenon DEF resolve_tool_result, Types, CallT, IsCall
    <3> QED BY <3>1, Zenon
  <2>6. CASE call_not_sent(d) \/ send_failed(d) \/ call_cancelled(d) \/ call_times_out(d)
    BY <1>1, <2>2, <2>6, Zenon
       DEF call_not_sent, send_failed, call_cancelled, call_times_out, Outcomes
  <2>7. CASE call_returns(d)
    <3>1. call[d].fut \in Outcomes
      BY <2>7, Zenon DEF call_returns, Types, CallT, IsCall, Outcomes
    <3> QED BY <2>2, <2>7, <3>1, Zenon DEF call_returns
  <2>8. ASSUME NEW kind, get_route(d, kind) PROVE FALSE
    <3> DEFINE gen == IF kind = "route" THEN conn[current].gen ELSE 0
               cfg == CASE kind = "route" -> conn[current].cfg [] kind = "mcp" -> rev [] OTHER -> 0
               k == [call[d] EXCEPT !.pc = "held", !.kind = kind, !.gen = gen, !.cfg = cfg]
    <3>1. call' = [call EXCEPT ![d] = k]
      BY <2>8, Zenon DEF get_route
    <3> HIDE DEF gen, cfg
    <3>2. k.wire = call[d].wire
      BY Zenon DEF Types, CallT, IsCall
    <3> HIDE DEF k
    <3>3. call'[c].wire = call[c].wire
      BY <3>1, <3>2, Zenon DEF Types, CallT
    <3> QED BY <3>3, Zenon
  <2> QED BY <1>6, <2>1, <2>2, <2>3, <2>4, <2>5, <2>6, <2>7, <2>8, Zenon DEF ToolCall
<1> QED BY <1>1, <1>3, <1>4, <1>5, <1>6, Zenon DEF Next, vars, _revocation_epoch_expires

\* A call goes out for the durable revision, its bindings and its generation.
IssuesCurrent ==
  \A c \in Call :
    call[c].wire = "no" /\ call'[c].wire = "sent" =>
      LET s == call[c].conn
      IN /\ current = s /\ conn[s].rev = rev
         /\ call[c].kind = "mcp" => conn[s].bind = rev /\ call[c].cfg = rev
         /\ call[c].kind = "route" => conn[s].gen = call[c].gen

\* What is durable says so of every step that issues a call.
LEMMA IssueStep ==
  ASSUME Types, Durable, [Next]_vars PROVE IssuesCurrent
<1> SUFFICES ASSUME NEW c \in Call, call[c].wire = "no", call'[c].wire = "sent"
             PROVE  LET s == call[c].conn
                    IN /\ current = s /\ conn[s].rev = rev
                       /\ call[c].kind = "mcp" => conn[s].bind = rev /\ call[c].cfg = rev
                       /\ call[c].kind = "route" => conn[s].gen = call[c].gen
  BY Zenon DEF IssuesCurrent
<1> DEFINE s == call[c].conn
<1>1. /\ call[c].pc = "queued" /\ current = s /\ conn[s].ready /\ conn[s].inflight = "none"
      /\ call[c].kind = "mcp" => conn[s].mcp = call[c].mcp
  BY OnlyIssued, Zenon DEF _mark_call_issued, _can_send_locked
<1>2. s \in Sock /\ s # NoSock
  BY <1>1, RegistryAssumption, Zenon DEF Types, CallT, IsCall, RegistryAssumption
<1>3. Routable
  BY <1>1, <1>2, Zenon DEF Routable
<1>4. \A p \in Patch : ~Committed(p)
  BY <1>1, <1>3, Zenon DEF Committed, Durable, Core, PatchDurable, Raised
<1>5. conn[s].rev = rev
  BY <1>1, <1>3, <1>4, Zenon DEF Durable, Core, Revisions
<1>6. Frozen(call[c]) /\ Mark(conn[s], sock[s].pc)
  BY <1>2, Zenon DEF Durable, Sides, Marks
<1>7. call[c].kind = "mcp" => conn[s].bind = call[c].cfg /\ call[c].cfg # 0
  BY <1>1, <1>6, Zenon DEF Frozen
<1>8. call[c].kind = "mcp" => conn[s].bind = rev /\ call[c].cfg = rev
  BY <1>5, <1>6, <1>7, Zenon DEF Mark
<1>9. call[c].kind = "route" => conn[s].gen = call[c].gen
  BY <1>1, <1>6, Zenon DEF Frozen
<1> QED BY <1>1, <1>5, <1>8, <1>9, Zenon

=============================================================================
