----------------------------- MODULE DeviceProofs -----------------------------
(***************************************************************************)
(* What the Device registry promises about its calls, its revocations, its *)
(* fences and its configuration changes, for any number of sockets, calls, *)
(* PATCHes and revocations.                                                *)
(***************************************************************************)
EXTENDS DeviceFences, FiniteSetTheorems

-----------------------------------------------------------------------------
(***************************************************************************)
(* The books about the calls.                                              *)
(***************************************************************************)
\* The books imply what the registry promises about its calls.
LEMMA BooksImply == Books => CallsAccounted
BY Zenon DEF Books, Book, Fits, CallsAccounted, LateAnswersKnown, UnavailableNeverIssued

\* A step that touches no call: routes may be lost, and one gained only by a new connection.
CallQuiet ==
  /\ UNCHANGED <<credits, call>>
  /\ \A t \in Sock : /\ conn'[t].pend = conn[t].pend /\ conn'[t].tombs = conn[t].tombs
                     /\ conn[t].gen # 0 => conn'[t].gen # 0
                     /\ sock'[t].pc \in Before => sock[t].pc \in Before
  /\ Routes'
  /\ current' # NoSock /\ conn'[current'].ready =>
       \/ current' = current /\ conn[current].ready
       \/ sock[current'].pc \in Before

\* A step that touches no call keeps the books.
LEMMA CallQuietKeepsBooks ==
  ASSUME Types, Types', RegistryAssumption, Books, CallQuiet PROVE Books'
<1>1. CreditsConserved'
  <2>1. PendingCalls' = PendingCalls
    BY Zenon DEF CallQuiet, PendingCalls
  <2> QED BY <2>1, Zenon DEF Books, CreditsConserved, PendingCalls, CallQuiet
<1>2. ASSUME NEW c \in Call PROVE Book(c)'
  <2>1. Book(c) /\ call' = call /\ call[c].conn \in Sockets /\ current' \in Sockets
    BY Zenon DEF Books, CallQuiet, Types, CallT, IsCall, NumT
  <2>2. call[c].conn # NoSock =>
          sock'[call[c].conn].pc \notin Before /\ conn'[call[c].conn].gen # 0
    BY <2>1, Zenon DEF Book, Fits, CallQuiet, Sockets
  <2>3. \A s \in Sock : c \in conn'[s].pend => call[c].conn = s /\ call[c].fut # "unavailable"
    BY <2>1, Zenon DEF Book, Fits, CallQuiet
  <2>4. ASSUME call[c].wire = "sent", call[c].conn = current', current' # NoSock, conn'[current'].ready
        PROVE  c \in conn'[current'].pend \cup conn'[current'].tombs
    <3>1. current' \in Sock
      BY <2>1, <2>4, Zenon DEF Sockets
    <3>2. current' = current /\ conn[current].ready
      BY <2>1, <2>4, Zenon DEF Book, Fits, CallQuiet
    <3> QED BY <2>1, <2>4, <3>1, <3>2 DEF Book, Fits, Routable, CallQuiet
  <2> QED BY <2>1, <2>2, <2>3, <2>4, Zenon DEF Book, Fits, Routable
<1> QED BY <1>1, <1>2, Zenon DEF Books, CallQuiet

\* A quiet step touches no call.
LEMMA QuietIsCallQuiet ==
  ASSUME Types, Types', RegistryAssumption, Books, Quiet PROVE CallQuiet
<1>1. \A t \in Sock : sock'[t].pc \in Before => sock[t].pc \in Before
  BY Zenon DEF Quiet, Forward, Ahead, Before, Opening, Activating
<1>2. Routes'
  <2>1. current' # NoSock => conn'[current'].life = "live" /\ conn'[current'].gen # 0
    BY Zenon DEF Quiet, Drops, Calm, Books, Routes, Types, NumT, Sockets
  <2>2. \A s \in Sock : conn'[s].ready => sock'[s].pc \notin Before
    BY <1>1, Zenon DEF Quiet, Calm, Books, Routes
  <2> QED BY <2>1, <2>2, Zenon DEF Routes
<1>3. current' # NoSock => current' = current /\ current \in Sock
  BY Zenon DEF Quiet, Drops, Types, NumT, Sockets
<1> QED BY <1>1, <1>2, <1>3, Zenon DEF CallQuiet, Quiet, Calm

\* Quiet steps keep the books.
LEMMA QuietKeepsBooks ==
  ASSUME Types, Types', RegistryAssumption, Books, Quiet PROVE Books'
BY QuietIsCallQuiet, CallQuietKeepsBooks, Zenon

\* The steps of a handshake that are not quiet.
Opens(s) == \/ authenticate(s) \/ registration_epoch(s) \/ find_by_token(s) \/ register(s)
            \/ _publish_registration(s) \/ activated(s)

\* Handshakes and revocations keep the types and touch no call.
LEMMA UncalledSteps ==
  ASSUME Types, RegistryAssumption, Books,
         \/ \E s \in Sock : Opens(s)
         \/ \E v \in Revocation : Revoke(v)
         \/ _revocation_epoch_expires
  PROVE  Types' /\ CallQuiet
<1>1. ASSUME NEW s \in Sock, Opens(s) PROVE Types' /\ CallQuiet
  \* The handshake up to its publication, and the end of its activation.
  <2>1. CASE authenticate(s) \/ registration_epoch(s)
    <3> USE <2>1
    <3>1. UNCHANGED <<db, current, gens, fence, epoch, credits, conn, unreg, mcp, patch, rvk, call>>
      BY Zenon DEF authenticate, registration_epoch
    <3>2. SockT' /\ \A t \in Sock : sock'[t].pc \in Before => sock[t].pc \in Before
      BY
         DEF authenticate, registration_epoch, Types, SockT, IsSock, Pcs, Before, Opening, NumT
    <3>3. \A t \in Sock : sock[t].pc \in Before => sock'[t].pc \in Before
      BY Zenon
         DEF authenticate, registration_epoch, Types, SockT, IsSock, Pcs, Before, Opening
    <3>4. Types'
      BY ONLY <3>1, <3>2, Types, KeepT, Zenon DEF Types
    <3>5. Routes'
      BY <3>1, <3>2, <3>3, Zenon DEF Books, Routes, Types, NumT, Sockets
    <3> QED BY <3>1, <3>2, <3>4, <3>5, Zenon DEF CallQuiet
  \* Reading the row again under config_update_lock touches no call.
  <2>2. CASE find_by_token(s)
    <3> USE <2>2
    <3>1. UNCHANGED <<db, current, gens, fence, epoch, credits, unreg, mcp, patch, rvk, call>>
      BY Zenon DEF find_by_token
    <3>2. SockTo(s, "register") \/ SockTo(s, "closed")
      BY Zenon DEF find_by_token
    <3>3. sock[s].pc = "hello"
      BY Zenon DEF find_by_token
    <3>4. /\ SockT' /\ \A t \in Sock \ {s} : sock'[t].pc = sock[t].pc
          /\ \A t \in Sock : sock'[t].pc \in Before => sock[t].pc \in Before
      BY <3>2, <3>3, SockMoves, Zenon DEF Types, Pcs, Before, Opening
    <3> DEFINE k == [conn[s] EXCEPT !.rev = rev, !.target = rev]
    <3>5. IsConn(k) /\ Calm(conn[s], k) /\ k.life = conn[s].life
      BY Zenon DEF Types, ConnT, IsConn, ConnFields, Calm, NumT
    <3>6. UNCHANGED conn \/ conn' = [conn EXCEPT ![s] = k]
      BY Zenon DEF find_by_token
    <3> HIDE DEF k
    <3>7. ConnT' /\ (\A t \in Sock : Calm(conn[t], conn'[t])) /\ Drops
      BY <3>1, <3>5, <3>6, PutQuiet, Zenon
    <3>8. Types'
      BY ONLY <3>1, <3>4, <3>7, Types, KeepT, Zenon DEF Types
    <3>9. ~conn[s].ready
      BY <3>3, Zenon DEF Books, Routes, Before, Opening
    <3>10. current' # NoSock => current' = current /\ current \in Sock
      BY <3>1, Zenon DEF Types, NumT, Sockets
    <3>11. \A t \in Sock : conn'[t].ready => conn[t].ready /\ t # s
      BY <3>7, <3>9, Zenon DEF Calm
    <3>12. current' # NoSock => conn'[current'].life = "live" /\ conn'[current'].gen # 0
      BY <3>7, <3>10, Zenon DEF Books, Routes, Calm, Drops
    <3>13. Routes'
      BY <3>4, <3>11, <3>12, Zenon DEF Books, Routes
    <3>14. \A t \in Sock : /\ conn'[t].pend = conn[t].pend /\ conn'[t].tombs = conn[t].tombs
                           /\ conn[t].gen # 0 => conn'[t].gen # 0
      BY <3>7, Zenon DEF Calm
    <3> QED BY <3>1, <3>4, <3>8, <3>10, <3>11, <3>13, <3>14, Zenon DEF CallQuiet
  \* register taking _register_lock touches no call.
  <2>3. CASE register(s)
    <3> USE <2>3
    <3>1. UNCHANGED <<db, current, gens, fence, epoch, credits, conn, unreg, mcp, patch, rvk, call>>
      BY Zenon DEF register
    <3>2. SockT' /\ \A t \in Sock : sock'[t].pc \in Before => sock[t].pc \in Before
      BY Zenon DEF register, Types, SockT, IsSock, Pcs, Before, Opening, NumT
    <3>3. \A t \in Sock : sock[t].pc \in Before => sock'[t].pc \in Before
      BY Zenon DEF register, Types, SockT, IsSock, Pcs, Before, Opening
    <3>4. Types'
      BY ONLY <3>1, <3>2, Types, KeepT, Zenon DEF Types
    <3>5. Routes'
      BY <3>1, <3>2, <3>3, Zenon DEF Books, Routes, Types, NumT, Sockets
    <3> QED BY <3>1, <3>2, <3>4, <3>5, Zenon DEF CallQuiet
  \* _publish_registration makes a connection current that is not routable yet.
  <2>4. CASE _publish_registration(s)
    <3> USE <2>4
    <3>1. UNCHANGED <<db, epoch, credits, unreg, mcp, patch, rvk, call>> /\ sock[s].pc = "publish"
      BY Zenon DEF _publish_registration
    <3>2. ~conn[s].ready
      BY <3>1, Zenon DEF Books, Routes, Before, Opening
    <3>3. CASE SockTo(s, "closed") /\ UNCHANGED <<gens, conn, current, fence>>
      <4>1. SockT' /\ \A t \in Sock : Forward(sock[t], sock'[t])
        BY <3>3, MoveSock, Zenon DEF Types, Pcs, Ahead
      <4>2. Types'
        BY ONLY <3>1, <3>3, <4>1, Types, KeepT, Zenon DEF Types
      <4>3. Quiet
        BY ONLY <3>1, <3>3, <4>1, Still, Zenon DEF Quiet, db
      <4> QED BY <4>2, <4>3, QuietIsCallQuiet, Zenon
    <3>4. CASE Publishes(s)
      <4>1. SockT' /\ sock'[s].pc = "retireprev" /\ \A t \in Sock \ {s} : sock'[t].pc = sock[t].pc
        BY <3>4, Zenon
           DEF Publishes, Types, SockT, IsSock, NumT, Pcs, Before, Activating
      <4>2. NumT'
        BY <3>1, <3>4 DEF Publishes, Types, NumT, db, Sockets
      <4>3. Types'
        BY ONLY <3>1, <4>1, <4>2, <3>4, PublishedConn, Types, KeepT, s \in Sock, Zenon
           DEF Types
      <4>4. current' = s /\ gens + 1 # 0
        BY <3>4 DEF Publishes, Types, NumT
      <4>5. Routes'
        BY <3>2, <3>4, <4>1, <4>4, PublishedConn, Zenon DEF Books, Routes
      <4>6. \A t \in Sock : sock'[t].pc \in Before => sock[t].pc \in Before
        BY <3>1, <4>1, Zenon DEF Before, Opening
      <4>7. \A t \in Sock : conn[t].gen # 0 => conn'[t].gen # 0
        BY <3>4, <4>4, PublishedConn, Zenon
      <4> QED BY <3>1, <3>2, <3>4, <4>3, <4>4, <4>5, <4>6, <4>7, PublishedConn, Zenon
                 DEF CallQuiet
    <3> QED BY <3>3, <3>4, Zenon DEF _publish_registration, Publishes
  \* activated makes the current connection routable, before it knows any call.
  <2>5. CASE activated(s)
    <3> USE <2>5
    <3>1. /\ UNCHANGED <<db, current, gens, epoch, credits, unreg, mcp, patch, rvk, call>>
          /\ sock[s].pc = "ack_send"
      BY Zenon DEF activated
    <3>2. fence' \in {0, fence}
      BY Zenon DEF activated, Released
    <3>3. NumT'
      BY <3>1, <3>2 DEF Types, NumT, db
    <3>4. SockT' /\ \A t \in Sock : Forward(sock[t], sock'[t])
      BY MoveSock, Zenon DEF Types, activated, Pcs, Ahead, Before, Activating
    <3>5. CASE UNCHANGED conn
      <4>1. Types'
        BY ONLY <3>1, <3>3, <3>4, <3>5, Types, KeepT, Zenon DEF Types
      <4>2. Quiet
        BY ONLY <3>1, <3>4, <3>5, Still, Zenon DEF Quiet, db
      <4> QED BY <4>1, <4>2, QuietIsCallQuiet, Zenon
    <3>6. CASE current = s /\ conn[s].apply = "acking"
      <4> DEFINE k == [conn[s] EXCEPT !.apply = "none", !.ready = TRUE]
      <4>1. /\ IsConn(k) /\ k.gen = conn[s].gen /\ k.pend = conn[s].pend /\ k.tombs = conn[s].tombs
            /\ k.life = conn[s].life
        BY DEF Types, ConnT, IsConn, ConnFields
      <4>2. conn' = [conn EXCEPT ![s] = k] /\ SockTo(s, "serving")
        BY <3>6, Zenon DEF activated
      <4> HIDE DEF k
      <4>3. ConnT' /\ conn'[s] = k /\ \A t \in Sock \ {s} : conn'[t] = conn[t]
        BY <4>1, <4>2, PutConn, Zenon DEF Types
      <4>4. Types'
        BY ONLY <3>1, <3>3, <3>4, <4>3, Types, KeepT, Zenon DEF Types
      <4>5. sock'[s].pc = "serving" /\ \A t \in Sock \ {s} : sock'[t].pc = sock[t].pc
        BY <4>2, SockMoves, Zenon DEF Types, Pcs
      <4>6. Routes'
        BY <3>1, <3>6, <4>1, <4>3, <4>5, Zenon
           DEF Books, Routes, Before, Opening, Activating
      <4>7. \A t \in Sock : sock'[t].pc \in Before => sock[t].pc \in Before
        BY <4>5, Zenon DEF Before, Opening, Activating
      <4>8. \A t \in Sock : conn'[t].pend = conn[t].pend /\ conn'[t].tombs = conn[t].tombs
                            /\ conn'[t].gen = conn[t].gen
        BY <4>1, <4>3, Zenon
      <4>9. sock[current'].pc \in Before
        BY <3>1, <3>6, Zenon DEF Before, Activating
      <4> QED BY <3>1, <4>4, <4>6, <4>7, <4>8, <4>9, Zenon DEF CallQuiet
    <3> QED BY <3>5, <3>6, Zenon DEF activated
  <2> QED BY <1>1, <2>1, <2>2, <2>3, <2>4, <2>5, Zenon DEF Opens
<1>2. ASSUME NEW v \in Revocation, Revoke(v) PROVE Types' /\ CallQuiet
  \* Revocations drop the current connection and touch no call.
  <2>1. ASSUME NEW deleted \in BOOLEAN, regenerate_token(v, deleted) PROVE Types' /\ CallQuiet
    <3> USE <2>1
    <3>1. /\ UNCHANGED <<rev, current, gens, fence, epoch, credits, conn, sock, unreg, mcp, patch, call>>
          /\ token' \in Nat
      BY DEF regenerate_token, Types, NumT
    <3>2. RvkT'
      BY Zenon DEF regenerate_token, Types, NumT, RvkT, IsRvk
    <3>3. NumT'
      BY <3>1, Zenon DEF Types, NumT
    <3>4. Types'
      BY ONLY <3>1, <3>2, <3>3, Types, KeepT, Zenon DEF Types
    <3> QED BY <3>1, <3>4, Zenon DEF CallQuiet, Books, Routes
  \* revoke touches no call.
  <2>2. CASE revoke(v)
    <3> USE <2>2
    <3>1. UNCHANGED <<db, current, gens, fence, credits, conn, sock, unreg, mcp, patch, call>>
      BY Zenon DEF revoke
    <3>2. epoch' \in Nat
      BY DEF revoke, Types, NumT
    <3>3. RvkT'
      BY DEF revoke, Types, NumT, RvkT, IsRvk, Sockets
    <3>4. NumT'
      BY <3>1, <3>2, Zenon DEF Types, NumT, db
    <3>5. Types'
      BY ONLY <3>1, <3>3, <3>4, Types, KeepT, Zenon DEF Types
    <3> QED BY <3>1, <3>5, Zenon DEF CallQuiet, Books, Routes
  \* revoke popping the current connection touches no call.
  <2>3. CASE revoke_pops(v)
    <3> USE <2>3
    <3>1. UNCHANGED <<db, gens, fence, credits, sock, unreg, mcp, patch, call>>
      BY Zenon DEF revoke_pops
    <3>2. epoch' \in Nat
      BY DEF revoke_pops, Types, NumT
    <3>3. RvkT'
      BY Zenon DEF revoke_pops, Types, NumT, RvkT, IsRvk
    <3>4. current' = NoSock
      BY Zenon DEF revoke_pops
    <3>5. NumT' /\ ConnT' /\ (\A t \in Sock : Calm(conn[t], conn'[t]))
      <4>1. CASE current = NoSock
        <5>1. UNCHANGED conn
          BY <4>1, Zenon DEF revoke_pops
        <5> QED BY <3>1, <3>2, <3>4, <5>1, KeepT, Still, Zenon
                   DEF Types, NumT, db, Sockets
      <4>2. CASE current # NoSock
        BY <3>1, <3>2, <4>2, PopQuiet, Zenon DEF revoke_pops
      <4> QED BY <4>1, <4>2, Zenon
    <3>6. Types'
      BY ONLY <3>1, <3>3, <3>5, Types, KeepT, Zenon DEF Types
    <3>7. Routes'
      BY <3>1, <3>4, <3>5, Zenon DEF Books, Routes, Calm
    <3> QED BY <3>1, <3>4, <3>5, <3>6, <3>7, Zenon DEF CallQuiet, Calm
  \* The end of a revocation touches no call.
  <2>4. CASE revoked(v)
    <3> USE <2>4
    <3>1. UNCHANGED <<db, current, fence, epoch, credits, conn, sock, unreg, mcp, patch, call>>
      BY Zenon DEF revoked
    <3>2. RvkT'
      BY Zenon DEF revoked, Types, NumT, RvkT, IsRvk
    <3>3. NumT'
      BY <3>1, Zenon DEF Types, NumT, db, revoked
    <3>4. Types'
      BY ONLY <3>1, <3>2, <3>3, Types, KeepT, Zenon DEF Types
    <3> QED BY <3>1, <3>4, Zenon DEF CallQuiet, Books, Routes
  <2> QED BY <1>2, <2>1, <2>2, <2>3, <2>4, Zenon DEF Revoke
\* An epoch that expires touches no call.
<1>3. CASE _revocation_epoch_expires
  <2> USE <1>3
  <2>1. UNCHANGED <<db, current, gens, fence, credits, conn, sock, unreg, mcp, patch, rvk, call>>
    BY Zenon DEF _revocation_epoch_expires
  <2>2. NumT'
    BY <2>1, Zenon DEF Types, NumT, db, _revocation_epoch_expires
  <2>3. Types'
    BY ONLY <2>1, <2>2, Types, KeepT, Zenon DEF Types
  <2> QED BY <2>1, <2>3, Zenon DEF CallQuiet, Books, Routes
<1> QED BY <1>1, <1>2, <1>3, Zenon

\* A step of one call: the books of the other calls stay true.
CallStep(c) ==
  /\ \A d \in Call \ {c} : call'[d] = call[d]
  /\ \A t \in Sock : /\ conn'[t].gen = conn[t].gen /\ conn'[t].life = conn[t].life
                     /\ conn'[t].ready => conn[t].ready
                     /\ conn'[t].pend \ {c} = conn[t].pend \ {c}
                     /\ conn'[t].tombs \ {c} = conn[t].tombs \ {c}
                     /\ sock'[t].pc \in Before => sock[t].pc \in Before
  /\ current' = current

\* A step of one call keeps the routes and the books of the others.
LEMMA CallStepKeeps ==
  ASSUME Types, RegistryAssumption, Books, NEW c \in Call, CallStep(c)
  PROVE  Routes' /\ \A d \in Call \ {c} : Book(d)'
<1>1. Routes'
  <2>1. current' # NoSock => conn'[current'].life = "live" /\ conn'[current'].gen # 0
    BY Zenon DEF CallStep, Books, Routes, Types, NumT, Sockets
  <2>2. \A s \in Sock : conn'[s].ready => sock'[s].pc \notin Before
    BY Zenon DEF CallStep, Books, Routes
  <2> QED BY <2>1, <2>2, Zenon DEF Routes
<1>2. ASSUME NEW d \in Call \ {c} PROVE Book(d)'
  <2>1. Fits(d, call[d]) /\ call'[d] = call[d] /\ call[d].conn \in Sockets /\ current' = current
    BY Zenon DEF Books, Book, CallStep, Types, CallT, IsCall
  <2>2. call[d].conn # NoSock =>
          sock'[call[d].conn].pc \notin Before /\ conn'[call[d].conn].gen # 0
    BY <2>1, Zenon DEF Fits, CallStep, Sockets
  <2>3. \A s \in Sock : (d \in conn'[s].pend <=> d \in conn[s].pend)
                        /\ (d \in conn'[s].tombs <=> d \in conn[s].tombs)
    BY Zenon DEF CallStep
  <2>4. ASSUME call[d].wire = "sent", call[d].conn = current, current # NoSock, conn'[current].ready
        PROVE  d \in conn'[current].pend \cup conn'[current].tombs
    <3>1. current \in Sock
      BY <2>4, Zenon DEF Types, NumT, Sockets
    <3>2. conn[current].ready
      BY <2>4, <3>1, Zenon DEF CallStep
    <3> QED BY <2>1, <2>3, <2>4, <3>1, <3>2, Zenon DEF Fits, Routable
  <2> QED BY <2>1, <2>2, <2>3, <2>4, Zenon DEF Book, Fits, Routable
<1> QED BY <1>1, <1>2, Zenon

\* A step of one call that leaves the connections and the credits alone.
LEMMA CallOnly ==
  ASSUME Types, RegistryAssumption, Books, NEW c \in Call, NEW k, IsCall(k), Fits(c, k),
         call' = [call EXCEPT ![c] = k], UNCHANGED <<current, credits, conn, sock>>
  PROVE  CallT' /\ Books'
<1>1. CallT' /\ call'[c] = k /\ \A d \in Call \ {c} : call'[d] = call[d]
  BY PutCall, Zenon DEF Types
<1>2. CallStep(c)
  BY <1>1, Zenon DEF CallStep
<1>3. Book(c)'
  BY <1>1, Zenon DEF Book, Fits, Routable
<1>4. CreditsConserved'
  BY Zenon DEF Books, CreditsConserved
<1> QED BY <1>1, <1>2, <1>3, <1>4, CallStepKeeps, Zenon DEF Books

\* The connection that is routed to exists and has a generation.
LEMMA RoutableConn ==
  ASSUME Types, RegistryAssumption, Books, Routable
  PROVE  /\ current \in Sock /\ IsConn(conn[current]) /\ conn[current].gen # 0
         /\ conn[current].life = "live" /\ conn[current].ready /\ sock[current].pc \notin Before
BY Zenon DEF Types, NumT, Sockets, ConnT, Routable, Books, Routes

\* A call that ends as unavailable or busy was not sent.
LEMMA EndsFits ==
  ASSUME Types, Books, NEW c \in Call, NEW out \in Outcomes,
         out \in {"unavailable", "busy"} => call[c].wire = "no"
  PROVE  IsCall(Ends(c, out)) /\ Fits(c, Ends(c, out))
<1> DEFINE k == Ends(c, out)
<1>1. /\ IsCall(k) /\ k.pc = "done" /\ k.out = out /\ k.fut = "none"
      /\ k.conn = call[c].conn /\ k.wire = call[c].wire
  BY EndsRecord, Zenon
<1> HIDE DEF k
<1>2. Fits(c, k)
  BY <1>1, Zenon DEF Books, Book, Fits
<1> QED BY <1>1, <1>2, Zenon DEF k

\* One pending call less is one credit less.
LEMMA CreditReturned ==
  ASSUME RegistryAssumption, CreditsConserved, NEW c \in PendingCalls,
         PendingCalls' = PendingCalls \ {c}, credits' = credits - 1
  PROVE  CreditsConserved'
<1>1. IsFiniteSet(PendingCalls)
  BY FS_Subset, Zenon DEF PendingCalls, RegistryAssumption
<1>2. /\ Cardinality(PendingCalls \ {c}) = Cardinality(PendingCalls) - 1
      /\ Cardinality(PendingCalls) \in Nat
  BY <1>1, FS_RemoveElement, FS_CardinalityType, Zenon
<1>3. credits = Cardinality(PendingCalls) /\ credits <= MaxPending /\ MaxPending \in Nat
  BY Zenon DEF CreditsConserved, PendingCalls, RegistryAssumption
<1>4. credits' = Cardinality(PendingCalls') /\ credits' <= MaxPending
  BY <1>2, <1>3
<1> QED BY <1>4, Zenon DEF CreditsConserved, PendingCalls

\* _remove_pending gives the credit back and remembers an issued call while there is room.
LEMMA RemovePending ==
  ASSUME Types, RegistryAssumption, Books, NEW c \in Call, NEW out \in Outcomes,
         out \in {"unavailable", "busy"} => call[c].wire = "no",
         _remove_pending(c), call' = [call EXCEPT ![c] = Ends(c, out)],
         UNCHANGED <<db, current, gens, fence, epoch, sock, mcp, patch, rvk>>
  PROVE  Types' /\ Books'
<1>1. CASE ~Held(c)
  <2>1. UNCHANGED <<credits, conn, unreg>>
    BY <1>1, Zenon DEF _remove_pending, Full
  <2>2. CallT' /\ Books'
    BY <2>1, EndsFits, CallOnly, Zenon
  <2> QED BY <2>1, <2>2, KeepT, Zenon DEF Types
<1>2. CASE Held(c)
  <2> DEFINE k == Expired(conn[current], c)
             n == Ends(c, out)
  <2>1. current \in Sock /\ c \in conn[current].pend
    BY <1>2, Zenon DEF Held, SameHandle, Types, NumT, Sockets
  <2>2. credits' = credits - 1 /\ conn' = [conn EXCEPT ![current] = k]
    BY <1>2, Zenon DEF _remove_pending
  <2>3. /\ IsConn(k) /\ k.gen = conn[current].gen /\ k.life = conn[current].life
        /\ k.pend = conn[current].pend \ {c} /\ k.tombs \ {c} = conn[current].tombs \ {c}
        /\ k.ready => conn[current].ready /\ ~Full(c)
        /\ call[c].wire # "no" /\ ~Full(c) => c \in k.tombs
    BY <2>1, ExpiredRecord, Zenon
  <2>4. /\ IsCall(n) /\ n.pc = "done" /\ n.out = out /\ n.fut = "none"
        /\ n.conn = call[c].conn /\ n.wire = call[c].wire
    BY EndsRecord, Zenon
  <2>5. CallT' /\ call'[c] = n /\ \A d \in Call \ {c} : call'[d] = call[d]
    BY <2>4, PutCall, Zenon DEF Types
  <2> HIDE DEF k, n
  <2>6. ConnT' /\ conn'[current] = k /\ \A t \in Sock \ {current} : conn'[t] = conn[t]
    BY <2>1, <2>2, <2>3, PutConn, Zenon DEF Types
  <2>7. UnregT'
    BY Zenon DEF _remove_pending, _schedule_unregister, Types, UnregT
  <2>8. Types'
    BY <2>5, <2>6, <2>7, KeepT, Zenon DEF Types
  <2>9. CallStep(c)
    BY <2>3, <2>5, <2>6, Zenon DEF CallStep
  <2>10. \A s \in Sock : c \in conn[s].pend => s = current
    BY <2>1 DEF Books, Book, Fits
  <2>11. Book(c)'
    <3>1. \A s \in Sock : c \notin conn'[s].pend
      BY <2>3, <2>6, <2>10, Zenon
    <3>2. n.conn # NoSock => sock'[n.conn].pc \notin Before /\ conn'[n.conn].gen # 0
      <4>1. n.conn \in Sockets /\ Fits(c, call[c])
        BY <2>4, Zenon DEF Books, Book, IsCall
      <4> QED BY <2>3, <2>4, <2>6, <4>1 DEF Fits, Sockets
    <3>3. n.wire = "sent" /\ n.conn = current' /\ Routable' => c \in conn'[current'].tombs
      BY <2>3, <2>4, <2>6, Zenon DEF Routable
    <3> QED BY <2>4, <2>5, <3>1, <3>2, <3>3, Zenon DEF Book, Fits
  <2>12. CreditsConserved'
    <3>1. c \in PendingCalls
      BY <2>1, Zenon DEF PendingCalls
    <3>2. PendingCalls' = PendingCalls \ {c}
      BY <2>3, <2>6, <2>10, <2>1 DEF PendingCalls
    <3> QED BY <2>2, <3>1, <3>2, CreditReturned, Zenon DEF Books
  <2> QED BY <2>8, <2>9, <2>11, <2>12, CallStepKeeps, Zenon DEF Books
<1> QED BY <1>1, <1>2, Zenon

\* Every step of a call keeps the types and the books.
LEMMA CallSteps ==
  ASSUME Types, RegistryAssumption, Books, NEW c \in Call, ToolCall(c)
  PROVE  Types' /\ Books'
\* get_route and the name or binding snapshots keep the books.
<1>1. ASSUME NEW kind \in {"name", "route", "mcp"}, get_route(c, kind) PROVE Types' /\ Books'
  <2> USE <1>1
  <2> DEFINE g == IF kind = "route" THEN conn[current].gen ELSE 0
             f == CASE kind = "route" -> conn[current].cfg [] kind = "mcp" -> rev [] OTHER -> 0
             k == [call[c] EXCEPT !.pc = "held", !.kind = kind, !.gen = g, !.cfg = f]
  <2>1. g \in Nat /\ f \in Nat
    BY RoutableConn, Zenon DEF get_route, Idle, IsConn, Types, NumT
  <2>2. /\ call' = [call EXCEPT ![c] = k] /\ call[c].pc = "idle"
        /\ UNCHANGED <<db, current, gens, fence, epoch, credits, conn, sock, unreg, mcp, patch, rvk>>
    BY Zenon DEF get_route
  <2> HIDE DEF g, f
  <2>3. /\ IsCall(k) /\ k.pc = "held" /\ k.conn = call[c].conn /\ k.wire = call[c].wire
        /\ k.fut = call[c].fut /\ k.out = call[c].out
    BY <2>1 DEF Types, CallT, IsCall
  <2> HIDE DEF k
  <2>4. Fits(c, k)
    BY <2>2, <2>3, Zenon DEF Books, Book, Fits
  <2>5. CallT' /\ Books'
    BY <2>2, <2>3, <2>4, CallOnly, Zenon
  <2> QED BY ONLY <2>2, <2>5, Types, KeepT, Zenon DEF Types
\* _dispatch_tool takes a credit and a pending entry together, or neither.
<1>2. CASE _dispatch_tool(c)
  <2> USE <1>2
  <2>1. /\ UNCHANGED <<db, current, gens, fence, epoch, sock, unreg, mcp, patch, rvk>>
        /\ call[c].pc = "held"
    BY Zenon DEF _dispatch_tool
  <2>2. call[c].wire = "no" /\ call[c].conn = NoSock /\ call[c].fut = "none"
        /\ call[c].out \notin {"unavailable", "busy"}
    BY <2>1, Zenon DEF Books, Book, Fits
  <2>3. ASSUME NEW out \in Outcomes, call' = [call EXCEPT ![c] = Ends(c, out)],
               UNCHANGED <<conn, credits>>
        PROVE  Types' /\ Books'
    <3>1. IsCall(Ends(c, out)) /\ Fits(c, Ends(c, out))
      BY <2>2, EndsFits, Zenon
    <3>2. CallT' /\ Books'
      BY <2>1, <2>3, <3>1, CallOnly, Zenon
    <3> QED BY ONLY <2>1, <2>3, <3>2, Types, KeepT, Zenon DEF Types
  <2>4. CASE ~Accepts(c)
    BY <2>3, <2>4, Zenon DEF _dispatch_tool, Outcomes
  <2>5. CASE Accepts(c) /\ credits >= MaxPending
    BY <2>3, <2>5, Zenon DEF _dispatch_tool, Outcomes
  <2>6. CASE Accepts(c) /\ ~(credits >= MaxPending)
    <3> DEFINE k == [conn[current] EXCEPT !.pend = @ \cup {c}]
               n == [call[c] EXCEPT !.pc = "queued", !.conn = current, !.mcp = conn[current].mcp]
    <3>1. /\ credits' = credits + 1 /\ conn' = [conn EXCEPT ![current] = k]
          /\ call' = [call EXCEPT ![c] = n]
      BY <2>6, Zenon DEF _dispatch_tool
    <3>2. /\ current \in Sock /\ IsConn(conn[current]) /\ conn[current].gen # 0
          /\ sock[current].pc \notin Before
      BY <2>6, RoutableConn, Zenon DEF Accepts, Idle
    <3>3. /\ IsConn(k) /\ k.gen = conn[current].gen /\ k.life = conn[current].life
          /\ k.ready = conn[current].ready
          /\ k.pend = conn[current].pend \cup {c} /\ k.tombs = conn[current].tombs
      BY <3>2, Zenon DEF IsConn, ConnFields
    <3>4. /\ IsCall(n) /\ n.pc = "queued" /\ n.conn = current /\ n.wire = "no" /\ n.fut = "none"
          /\ n.out = call[c].out
      BY <2>2, <3>2 DEF Types, CallT, IsCall, IsConn, Sockets
    <3> HIDE DEF k, n
    <3>5. CallT' /\ call'[c] = n /\ \A d \in Call \ {c} : call'[d] = call[d]
      BY <3>1, <3>4, PutCall, Zenon DEF Types
    <3>6. ConnT' /\ conn'[current] = k /\ \A t \in Sock \ {current} : conn'[t] = conn[t]
      BY <3>1, <3>2, <3>3, PutConn, Zenon DEF Types
    <3>7. Types'
      BY <2>1, <3>5, <3>6, KeepT, Zenon DEF Types
    <3>8. CallStep(c)
      BY <2>1, <3>3, <3>5, <3>6, Zenon DEF CallStep
    <3>9. \A s \in Sock : c \notin conn[s].pend
      BY <2>2, RegistryAssumption, Zenon DEF Books, Book, Fits, RegistryAssumption
    <3>10. Book(c)'
      <4>1. \A s \in Sock : c \in conn'[s].pend => s = current
        BY <3>6, <3>9, Zenon
      <4>2. sock'[current].pc \notin Before /\ conn'[current].gen # 0
        BY <2>1, <3>2, <3>3, <3>6, Zenon
      <4> QED BY <2>2, <3>4, <3>5, <4>1, <4>2, Zenon DEF Book, Fits
    <3>11. CreditsConserved'
      <4>1. PendingCalls' = PendingCalls \cup {c} /\ c \notin PendingCalls
        BY <3>2, <3>3, <3>6, <3>9, Zenon DEF PendingCalls
      <4>2. IsFiniteSet(PendingCalls)
        BY FS_Subset, Zenon DEF PendingCalls, RegistryAssumption
      <4>3. /\ Cardinality(PendingCalls \cup {c}) = Cardinality(PendingCalls) + 1
            /\ Cardinality(PendingCalls) \in Nat
        BY <4>1, <4>2, FS_AddElement, FS_CardinalityType, Zenon
      <4>4. credits = Cardinality(PendingCalls) /\ MaxPending \in Nat
        BY Zenon DEF Books, CreditsConserved, PendingCalls, RegistryAssumption
      <4>5. credits' = Cardinality(PendingCalls') /\ credits' <= MaxPending
        BY <2>6, <3>1, <4>1, <4>3, <4>4
      <4> QED BY <4>5, Zenon DEF CreditsConserved, PendingCalls
    <3> QED BY <3>7, <3>8, <3>10, <3>11, CallStepKeeps, Zenon DEF Books
  <2> QED BY <2>4, <2>5, <2>6, Zenon
\* _mark_call_issued sends only what is pending on the current connection.
<1>3. CASE _mark_call_issued(c)
  <2> USE <1>3
  <2> DEFINE k == [call[c] EXCEPT !.pc = "sending", !.wire = "sent"]
  <2>1. /\ call' = [call EXCEPT ![c] = k] /\ call[c].pc = "queued"
        /\ _can_send_locked(c) /\ c \in conn[call[c].conn].pend
        /\ UNCHANGED <<db, current, gens, fence, epoch, credits, conn, sock, unreg, mcp, patch, rvk>>
    BY Zenon DEF _mark_call_issued
  <2>2. call[c].conn = current /\ call[c].conn \in Sock
    BY <2>1, Zenon DEF _can_send_locked, Types, CallT, IsCall
  <2>3. /\ IsCall(k) /\ k.pc = "sending" /\ k.wire = "sent" /\ k.conn = call[c].conn
        /\ k.fut = call[c].fut /\ k.out = call[c].out
    BY <2>2, Zenon DEF Types, CallT, IsCall
  <2> HIDE DEF k
  <2>4. Fits(c, k)
    BY <2>1, <2>2, <2>3, Zenon DEF Books, Book, Fits
  <2>5. CallT' /\ Books'
    BY <2>1, <2>3, <2>4, CallOnly, Zenon
  <2> QED BY ONLY <2>1, <2>5, Types, KeepT, Zenon DEF Types
\* A call that lost its route before the send is reported as unavailable.
<1>4. CASE call_not_sent(c)
  <2> USE <1>4
  <2>1. call[c].wire = "no"
    BY Zenon DEF call_not_sent, Books, Book, Fits
  <2> QED BY <2>1, RemovePending, Zenon DEF call_not_sent, Outcomes
\* A send that succeeds keeps the books.
<1>5. CASE call_sent(c)
  <2> USE <1>5
  <2> DEFINE k == [call[c] EXCEPT !.pc = "waiting"]
  <2>1. /\ call' = [call EXCEPT ![c] = k] /\ call[c].pc = "sending"
        /\ UNCHANGED <<db, current, gens, fence, epoch, credits, conn, sock, unreg, mcp, patch, rvk>>
    BY Zenon DEF call_sent
  <2>2. /\ IsCall(k) /\ k.pc = "waiting" /\ k.wire = call[c].wire /\ k.conn = call[c].conn
        /\ k.fut = call[c].fut /\ k.out = call[c].out
    BY <2>1, Zenon DEF Types, CallT, IsCall
  <2> HIDE DEF k
  <2>3. Fits(c, k)
    BY <2>1, <2>2, Zenon DEF Books, Book, Fits
  <2>4. CallT' /\ Books'
    BY <2>1, <2>2, <2>3, CallOnly, Zenon
  <2> QED BY ONLY <2>1, <2>4, Types, KeepT, Zenon DEF Types
\* A failed send, which unregisters the connection, keeps the books.
<1>6. CASE send_fails(c)
  <2> USE <1>6
  <2> DEFINE k == [call[c] EXCEPT !.pc = "failing"]
  <2>1. /\ call' = [call EXCEPT ![c] = k] /\ call[c].pc = "sending" /\ _schedule_unregister(call[c].conn)
        /\ UNCHANGED <<db, current, gens, fence, epoch, credits, conn, sock, mcp, patch, rvk>>
    BY Zenon DEF send_fails
  <2>2. /\ IsCall(k) /\ k.pc = "failing" /\ k.wire = call[c].wire /\ k.conn = call[c].conn
        /\ k.fut = call[c].fut /\ k.out = call[c].out
    BY <2>1, Zenon DEF Types, CallT, IsCall
  <2> HIDE DEF k
  <2>3. Fits(c, k)
    BY <2>1, <2>2, Zenon DEF Books, Book, Fits
  <2>4. CallT' /\ Books'
    BY <2>1, <2>2, <2>3, CallOnly, Zenon
  <2>5. UnregT'
    BY <2>1, Zenon DEF _schedule_unregister, Types, UnregT
  <2> QED BY ONLY <2>1, <2>4, <2>5, Types, KeepT, Zenon DEF Types
\* A failed send is reported as unknown.
<1>7. CASE send_failed(c)
  <2> USE <1>7
  <2>1. /\ call' = [call EXCEPT ![c] = Ends(c, "unknown")]
        /\ UNCHANGED <<db, current, gens, fence, epoch, credits, conn, sock, unreg, mcp, patch, rvk>>
    BY Zenon DEF send_failed
  <2>2. IsCall(Ends(c, "unknown")) /\ Fits(c, Ends(c, "unknown"))
    BY EndsFits, Zenon DEF Outcomes
  <2>3. CallT' /\ Books'
    BY <2>1, <2>2, CallOnly, Zenon
  <2> QED BY ONLY <2>1, <2>3, Types, KeepT, Zenon DEF Types
\* A cancelled call keeps the books.
<1>8. CASE call_cancelled(c)
  <2> USE <1>8
  <2>1. /\ call' = [call EXCEPT ![c] = Ends(c, "cancelled")]
        /\ UNCHANGED <<db, current, gens, fence, epoch, sock, mcp, patch, rvk>>
    BY Zenon DEF call_cancelled
  <2>2. CASE UNCHANGED <<credits, conn, unreg>>
    <3>1. IsCall(Ends(c, "cancelled")) /\ Fits(c, Ends(c, "cancelled"))
      BY EndsFits, Zenon DEF Outcomes
    <3>2. CallT' /\ Books'
      BY <2>1, <2>2, <3>1, CallOnly, Zenon
    <3> QED BY ONLY <2>1, <2>2, <3>2, Types, KeepT, Zenon DEF Types
  <2>3. CASE _remove_pending(c)
    BY <2>1, <2>3, RemovePending, Zenon DEF Outcomes
  <2> QED BY <2>2, <2>3, Zenon DEF call_cancelled
\* A call that waits too long is reported as unknown.
<1>9. CASE call_times_out(c)
  BY <1>9, RemovePending, Zenon DEF call_times_out, Outcomes
\* A call returns what its future says.
<1>10. CASE call_returns(c)
  <2> USE <1>10
  <2> DEFINE out == call[c].fut
  <2>1. /\ call' = [call EXCEPT ![c] = Ends(c, out)] /\ out # "none"
        /\ UNCHANGED <<db, current, gens, fence, epoch, credits, conn, sock, unreg, mcp, patch, rvk>>
    BY Zenon DEF call_returns
  <2>2. out \in Outcomes /\ out # "busy"
    BY <2>1, Zenon DEF Types, CallT, IsCall, Outcomes
  <2>3. out \in {"unavailable", "busy"} => call[c].wire = "no"
    BY <2>2, Zenon DEF Books, Book, Fits
  <2> HIDE DEF out
  <2>4. IsCall(Ends(c, out)) /\ Fits(c, Ends(c, out))
    BY <2>2, <2>3, EndsFits, Zenon
  <2>5. CallT' /\ Books'
    BY <2>1, <2>4, CallOnly, Zenon
  <2> QED BY ONLY <2>1, <2>5, Types, KeepT, Zenon DEF Types
\* An answer settles a pending call once, clears a tombstone, or ends the connection.
<1>11. CASE resolve_tool_result(c)
  <2> USE <1>11
  <2> DEFINE s == call[c].conn
  <2>1. /\ UNCHANGED <<db, current, gens, fence, epoch, unreg, mcp, patch, rvk>>
        /\ call[c].wire = "sent" /\ sock[s].pc = "serving"
    BY Zenon DEF resolve_tool_result
  <2>2. s \in Sock /\ IsConn(conn[s]) /\ IsCall(call[c]) /\ Fits(c, call[c])
    BY <2>1, Zenon DEF Types, CallT, IsCall, ConnT, Books, Book
  <2>3. call[c].pc \notin {"idle", "held", "queued"} /\ call[c].out \notin {"unavailable", "busy"}
    BY <2>1, <2>2, Zenon DEF Fits
  <2>4. ASSUME NEW n, IsCall(n), n.pc = call[c].pc, n.conn = s, n.wire = "answered",
               n.fut \in {call[c].fut, "result"}, n.out = call[c].out, call' = [call EXCEPT ![c] = n],
               ConnT', SockT', CreditsConserved',
               \A t \in Sock : /\ conn'[t].gen = conn[t].gen /\ conn'[t].life = conn[t].life
                               /\ conn'[t].ready => conn[t].ready
                               /\ conn'[t].pend \ {c} = conn[t].pend \ {c}
                               /\ conn'[t].tombs \ {c} = conn[t].tombs \ {c}
                               /\ sock'[t].pc \in Before => sock[t].pc \in Before
                               /\ c \in conn'[t].pend => c \in conn[t].pend
        PROVE  Types' /\ Books'
    <3>1. CallT' /\ call'[c] = n /\ \A d \in Call \ {c} : call'[d] = call[d]
      BY <2>4, PutCall, Zenon DEF Types
    <3>2. CallStep(c)
      BY <2>1, <2>4, <3>1, Zenon DEF CallStep
    <3>3. Book(c)'
      <4>1. sock'[s].pc \notin Before /\ conn'[s].gen # 0
        BY <2>2, <2>4, RegistryAssumption, Zenon DEF Fits, RegistryAssumption
      <4>2. n.fut # "unavailable"
        BY <2>1, <2>2, <2>4, Zenon DEF Fits
      <4>3. \A t \in Sock : c \in conn'[t].pend => s = t
        BY <2>2, <2>4, Zenon DEF Fits
      <4> HIDE DEF s
      <4> QED BY <2>3, <2>4, <3>1, <4>1, <4>2, <4>3 DEF Book, Fits
    <3>4. Types'
      BY <2>1, <2>4, <3>1, KeepT, Zenon DEF Types
    <3> QED BY <2>4, <3>2, <3>3, <3>4, CallStepKeeps, Zenon DEF Books
  <2>5. CASE current = s /\ conn[s].ready /\ c \in conn[s].pend
    <3> DEFINE k == [conn[s] EXCEPT !.pend = @ \ {c}]
               n == [call[c] EXCEPT !.wire = "answered", !.fut = "result"]
    <3>1. /\ conn' = [conn EXCEPT ![s] = k] /\ credits' = credits - 1
          /\ call' = [call EXCEPT ![c] = n] /\ UNCHANGED sock
      BY <2>5, Zenon DEF resolve_tool_result
    <3>2. /\ IsCall(n) /\ n.pc = call[c].pc /\ n.conn = s /\ n.wire = "answered" /\ n.fut = "result"
          /\ n.out = call[c].out
      BY <2>2, Zenon DEF IsCall
    <3>3. /\ IsConn(k) /\ k.gen = conn[s].gen /\ k.life = conn[s].life /\ k.ready = conn[s].ready
          /\ k.pend = conn[s].pend \ {c} /\ k.tombs = conn[s].tombs
      BY <2>2, Zenon DEF IsConn, ConnFields
    <3> HIDE DEF k, n, s
    <3>4. ConnT' /\ conn'[s] = k /\ \A t \in Sock \ {s} : conn'[t] = conn[t]
      BY <2>2, <3>1, <3>3, PutConn, Zenon DEF Types
    <3>5. \A t \in Sock : c \in conn[t].pend => t = s
      BY <2>2, Zenon DEF Fits, s
    <3>6. CreditsConserved'
      <4>1. c \in PendingCalls /\ PendingCalls' = PendingCalls \ {c}
        BY <2>2, <2>5, <3>3, <3>4, <3>5, Zenon DEF PendingCalls
      <4> QED BY <3>1, <4>1, CreditReturned, Zenon DEF Books
    <3>7. SockT'
      BY <3>1, KeepT, Zenon DEF Types
    <3>8. \A t \in Sock : /\ conn'[t].gen = conn[t].gen /\ conn'[t].life = conn[t].life
                          /\ conn'[t].ready => conn[t].ready
                          /\ conn'[t].pend \ {c} = conn[t].pend \ {c}
                          /\ conn'[t].tombs \ {c} = conn[t].tombs \ {c}
                          /\ sock'[t].pc \in Before => sock[t].pc \in Before
                          /\ c \in conn'[t].pend => c \in conn[t].pend
      BY ONLY <3>1, <3>3, <3>4, Zenon
    <3> QED BY ONLY <2>4, <3>1, <3>2, <3>4, <3>6, <3>7, <3>8, Zenon
  <2> DEFINE n == [call[c] EXCEPT !.wire = "answered"]
  <2>6. /\ IsCall(n) /\ n.pc = call[c].pc /\ n.conn = s /\ n.wire = "answered" /\ n.fut = call[c].fut
        /\ n.out = call[c].out
    BY <2>2, Zenon DEF IsCall
  <2>7. CASE current = s /\ conn[s].ready /\ c \notin conn[s].pend /\ c \in conn[s].tombs
    <3> DEFINE k == [conn[s] EXCEPT !.tombs = @ \ {c}]
    <3>1. /\ conn' = [conn EXCEPT ![s] = k] /\ call' = [call EXCEPT ![c] = n]
          /\ UNCHANGED <<credits, sock>>
      BY <2>7, Zenon DEF resolve_tool_result
    <3>2. /\ IsConn(k) /\ k.gen = conn[s].gen /\ k.life = conn[s].life /\ k.ready = conn[s].ready
          /\ k.pend = conn[s].pend /\ k.tombs = conn[s].tombs \ {c}
      BY <2>2, Zenon DEF IsConn, ConnFields
    <3> HIDE DEF k, n, s
    <3>3. ConnT' /\ conn'[s] = k /\ \A t \in Sock \ {s} : conn'[t] = conn[t]
      BY <2>2, <3>1, <3>2, PutConn, Zenon DEF Types
    <3>4. PendingCalls' = PendingCalls
      BY <3>2, <3>3, Zenon DEF PendingCalls
    <3>5. CreditsConserved'
      BY <3>1, <3>4, Zenon DEF Books, CreditsConserved, PendingCalls
    <3>6. SockT'
      BY <3>1, KeepT, Zenon DEF Types
    <3>7. \A t \in Sock : /\ conn'[t].gen = conn[t].gen /\ conn'[t].life = conn[t].life
                          /\ conn'[t].ready => conn[t].ready
                          /\ conn'[t].pend \ {c} = conn[t].pend \ {c}
                          /\ conn'[t].tombs \ {c} = conn[t].tombs \ {c}
                          /\ sock'[t].pc \in Before => sock[t].pc \in Before
                          /\ c \in conn'[t].pend => c \in conn[t].pend
      BY ONLY <3>1, <3>2, <3>3, Zenon
    <3> QED BY ONLY <2>4, <2>6, <3>1, <3>3, <3>5, <3>6, <3>7, Zenon
  <2>8. CASE ~(current = s /\ conn[s].ready /\ c \in conn[s].pend \cup conn[s].tombs)
    <3>1. SockTo(s, "ending") /\ UNCHANGED <<conn, credits>> /\ call' = [call EXCEPT ![c] = n]
      BY <2>8, Zenon DEF resolve_tool_result
    <3> HIDE DEF n, s
    <3>2. SockT' /\ \A t \in Sock : sock'[t].pc \in Before => sock[t].pc \in Before
      BY <2>2, <3>1, SockMoves DEF Types, Pcs, Before, Opening, Activating
    <3>3. ConnT' /\ CreditsConserved'
      BY <3>1, KeepT, Zenon DEF Types, Books, CreditsConserved
    <3> QED BY <2>4, <2>6, <3>1, <3>2, <3>3, Zenon
  <2> QED BY <2>5, <2>7, <2>8, Zenon
<1> QED BY <1>1, <1>2, <1>3, <1>4, <1>5, <1>6, <1>7, <1>8, <1>9, <1>10, <1>11, Zenon
           DEF ToolCall

\* _retire: the calls of the connection lose their credit and their futures end.
LEMMA RetireStep ==
  ASSUME Types, RegistryAssumption, Books, NEW s \in Sock, _retire(s)
  PROVE  Types' /\ Books'
<1> DEFINE k == Retired(conn[s])
           P == conn[s].pend
<1>1. /\ UNCHANGED <<db, current, gens, fence, epoch, sock, unreg, mcp, patch, rvk>>
      /\ conn[s].life = "retiring" /\ credits' = credits - Cardinality(P)
      /\ conn' = [conn EXCEPT ![s] = k]
  BY Zenon DEF _retire
<1>2. /\ IsConn(k) /\ k.gen = conn[s].gen /\ k.ready = conn[s].ready
      /\ k.pend = {} /\ k.tombs = {}
  BY DEF Retired, Types, ConnT, IsConn, ConnFields
<1>3. DOMAIN call' = Call /\ \A d \in Call : IsCall(call[d])
  BY Zenon DEF _retire, Types, CallT
<1>4. ASSUME NEW d \in Call
      PROVE  /\ IsCall(call'[d])
             /\ \A f \in {"pc", "kind", "gen", "cfg", "mcp", "conn", "wire", "out"} : call'[d][f] = call[d][f]
             /\ call'[d].fut # call[d].fut => d \in P
             /\ call'[d].fut = "unavailable" => call[d].fut = "unavailable" \/ call[d].wire = "no"
  <2> DEFINE w == IF call[d].wire = "no" THEN "unavailable" ELSE "unknown"
  <2>1. CASE d \in P /\ call[d].pc # "done"
    <3>1. call'[d] = [call[d] EXCEPT !.fut = w]
      BY <2>1, Zenon DEF _retire
    <3>2. w \in {"unavailable", "unknown"} /\ (w = "unavailable" => call[d].wire = "no")
      BY Zenon
    <3> HIDE DEF w
    <3>3. IsCall(call'[d]) /\ call'[d].fut = w
      BY <1>3, <3>1, <3>2, Zenon DEF IsCall
    <3>4. \A f \in {"pc", "kind", "gen", "cfg", "mcp", "conn", "wire", "out"} : call'[d][f] = call[d][f]
      BY <1>3, <3>1 DEF IsCall
    <3> QED BY <2>1, <3>2, <3>3, <3>4, Zenon
  <2>2. CASE ~(d \in P /\ call[d].pc # "done")
    <3>1. call'[d] = call[d]
      BY <2>2, Zenon DEF _retire
    <3> QED BY <1>3, <3>1, Zenon
  <2> QED BY <2>1, <2>2, Zenon
<1> HIDE DEF k
<1>5. ConnT' /\ conn'[s] = k /\ \A t \in Sock \ {s} : conn'[t] = conn[t]
  BY <1>1, <1>2, PutConn, Zenon DEF Types
<1>6. CallT'
  BY <1>3, <1>4, Zenon DEF CallT
<1>7. Types'
  BY ONLY Types, <1>1, <1>5, <1>6, KeepT, Zenon DEF Types
<1>8. current # s /\ current' = current /\ \A t \in Sock : conn'[t].gen = conn[t].gen
  BY <1>1, <1>2, <1>5, Zenon DEF Books, Routes, Types, NumT, Sockets, RegistryAssumption
<1>9. Routes'
  <2>1. current' # NoSock => conn'[current'].life = "live" /\ conn'[current'].gen # 0
    BY <1>5, <1>8, Zenon DEF Books, Routes, Types, NumT, Sockets
  <2>2. \A t \in Sock : conn'[t].ready => sock'[t].pc \notin Before
    BY <1>1, <1>2, <1>5, Zenon DEF Books, Routes
  <2> QED BY <2>1, <2>2, Zenon DEF Routes
<1>10. ASSUME NEW d \in Call PROVE Book(d)'
  <2>1. /\ call'[d].pc = call[d].pc /\ call'[d].conn = call[d].conn /\ call'[d].wire = call[d].wire
        /\ call'[d].out = call[d].out /\ call[d].conn \in Sockets
        /\ call'[d].fut # call[d].fut => d \in P
        /\ call'[d].fut = "unavailable" => call[d].fut = "unavailable" \/ call[d].wire = "no"
    BY <1>4, <1>3 DEF IsCall
  <2>2. Fits(d, call[d])
    BY Zenon DEF Books, Book
  <2>3. \A t \in Sock : d \in conn'[t].pend => t # s /\ d \in conn[t].pend /\ d \notin P
    BY <1>2, <1>5, <2>2, Zenon DEF Fits
  <2>4. \A t \in Sock : d \in conn'[t].pend => call'[d].conn = t /\ call'[d].fut # "unavailable"
    BY <2>1, <2>2, <2>3, Zenon DEF Fits
  <2>5. call'[d].pc \in {"idle", "held"} => call'[d].conn = NoSock /\ call'[d].fut = "none"
    BY <2>1, <2>2, RegistryAssumption, Zenon DEF Fits, RegistryAssumption
  <2>6. call'[d].conn # NoSock =>
          sock'[call'[d].conn].pc \notin Before /\ conn'[call'[d].conn].gen # 0
    BY <1>1, <1>8, <2>1, <2>2, Zenon DEF Fits, Sockets
  <2>7. call'[d].fut = "unavailable" => call'[d].wire = "no"
    BY <2>1, <2>2, Zenon DEF Fits
  <2>8. ASSUME call'[d].wire = "sent", call'[d].conn = current', Routable'
        PROVE  d \in conn'[current'].pend \cup conn'[current'].tombs
    <3>1. current \in Sock /\ conn'[current] = conn[current]
      BY <1>5, <1>8, <2>8, Zenon DEF Routable, Types, NumT, Sockets
    <3>2. Routable
      BY <1>8, <2>8, <3>1, Zenon DEF Routable
    <3> QED BY <1>8, <2>1, <2>2, <2>8, <3>1, <3>2, Zenon DEF Fits
  <2>9. /\ call'[d].pc \in {"idle", "held", "queued"} => call'[d].wire = "no"
        /\ call'[d].out \in {"unavailable", "busy"} => call'[d].wire = "no" /\ call'[d].pc = "done"
    BY <2>1, <2>2, Zenon DEF Fits
  <2> QED BY ONLY <2>4, <2>5, <2>6, <2>7, <2>8, <2>9, Zenon DEF Book, Fits
<1>11. CreditsConserved'
  <2>1. P \subseteq PendingCalls /\ IsFiniteSet(PendingCalls)
    BY FS_Subset, Zenon DEF PendingCalls, RegistryAssumption, Types, ConnT, IsConn
  <2>2. PendingCalls' = PendingCalls \ P
    <3>1. \A d \in Call : \A t \in Sock : d \in conn[t].pend /\ d \in P => t = s
      BY DEF Books, Book, Fits
    <3> QED BY <1>2, <1>5, <3>1, Zenon DEF PendingCalls
  <2>3. PendingCalls \cap P = P
    BY <2>1, Zenon
  <2>4. /\ Cardinality(PendingCalls \ P) = Cardinality(PendingCalls) - Cardinality(P)
        /\ Cardinality(PendingCalls) \in Nat /\ Cardinality(P) \in Nat
    BY <2>1, <2>3, FS_Difference, FS_CardinalityType, FS_Subset, Zenon
  <2>5. credits = Cardinality(PendingCalls) /\ credits <= MaxPending /\ MaxPending \in Nat
    BY Zenon DEF Books, CreditsConserved, PendingCalls, RegistryAssumption
  <2>6. credits' = Cardinality(PendingCalls') /\ credits' <= MaxPending
    BY <1>1, <2>2, <2>4, <2>5
  <2> QED BY <2>6, Zenon DEF CreditsConserved, PendingCalls
<1> QED BY <1>7, <1>9, <1>10, <1>11, Zenon DEF Books

\* A registry without connections has true books.
LEMMA InitBooks == RegistryAssumption /\ Init => Types /\ Books
<1> SUFFICES ASSUME RegistryAssumption, Init PROVE Types /\ Books
  BY Zenon
<1>1. NumT
  BY Zenon DEF Init, NumT, Sockets
<1>2. ConnT /\ \A s \in Sock : conn[s].pend = {} /\ conn[s].tombs = {} /\ ~conn[s].ready
  BY Zenon DEF Init, ConnT, NewConnection, IsConn, ConnFields
<1>3. SockT
  BY Zenon DEF Init, SockT, IsSock, Sockets, Pcs, Before, Opening
<1>4. UnregT
  BY Zenon DEF Init, UnregT
<1>5. McpT
  BY Zenon DEF Init, McpT, IsMcp
<1>6. PatchT
  BY Zenon DEF Init, PatchT, NewPatch, IsPatch, PatchPcs, Pushing, Sockets
<1>7. RvkT
  BY Zenon DEF Init, RvkT, IsRvk, Sockets
<1>8. CallT /\ \A c \in Call : /\ call[c].pc = "idle" /\ call[c].conn = NoSock /\ call[c].wire = "no"
                               /\ call[c].fut = "none" /\ call[c].out = "none"
  BY Zenon DEF Init, CallT, IsCall, Sockets
<1>9. Routes
  BY <1>2, Zenon DEF Routes, Init
<1>10. \A c \in Call : Book(c)
  BY <1>2, <1>8, Zenon DEF Book, Fits
<1>11. CreditsConserved
  <2>1. {c \in Call : \E s \in Sock : c \in conn[s].pend} = {}
    BY <1>2, Zenon
  <2>2. credits = 0 /\ MaxPending \in Nat
    BY Zenon DEF Init, RegistryAssumption
  <2> QED BY <2>1, <2>2, FS_EmptySet DEF CreditsConserved
<1> QED BY <1>1, <1>2, <1>3, <1>4, <1>5, <1>6, <1>7, <1>8, <1>9, <1>10, <1>11, Zenon
           DEF Types, Books

\* Every step is quiet, or one of the handshake, a revocation, a retirement or a call.
LEMMA StepKinds ==
  ASSUME Next
  PROVE  \/ \E s \in Sock : QuietSocket(s) \/ Registration(s)
         \/ \E p \in Patch : Update(p)
         \/ \E s \in Sock : Opens(s)
         \/ \E v \in Revocation : Revoke(v)
         \/ _revocation_epoch_expires
         \/ \E s \in Sock : _retire(s)
         \/ \E c \in Call : ToolCall(c)
BY Zenon DEF Next, Handshake, Unregister, QuietSocket, Opens

\* Every step keeps the types and the books.
LEMMA StepKeepsBooks ==
  ASSUME Types, RegistryAssumption, Books, [Next]_vars
  PROVE  Types' /\ Books'
<1>1. CASE UNCHANGED vars
  <2>1. UNCHANGED <<db, current, gens, fence, epoch, credits, conn, sock, unreg, mcp, patch, rvk, call>>
    BY <1>1, Zenon DEF vars, db
  <2>2. Types'
    BY ONLY Types, <2>1, KeepT, Zenon DEF Types
  <2>3. Routes' /\ CreditsConserved' /\ \A c \in Call : Book(c)'
    BY <2>1, Zenon DEF Books, Routes, CreditsConserved, Book, Fits, Routable
  <2> QED BY <2>2, <2>3, Zenon DEF Books
<1>2. CASE \/ \E s \in Sock : QuietSocket(s) \/ Registration(s)
           \/ \E p \in Patch : Update(p)
  <2>1. Types' /\ Quiet
    BY <1>2, QuietSteps, Zenon
  <2> QED BY <2>1, QuietKeepsBooks, Zenon
<1>3. CASE \E s \in Sock : Opens(s)
  <2>1. Types' /\ CallQuiet
    BY <1>3, UncalledSteps, Zenon
  <2> QED BY <2>1, CallQuietKeepsBooks, Zenon
<1>4. CASE (\E v \in Revocation : Revoke(v)) \/ _revocation_epoch_expires
  <2>1. Types' /\ CallQuiet
    BY <1>4, UncalledSteps, Zenon
  <2> QED BY <2>1, CallQuietKeepsBooks, Zenon
<1>5. CASE \E s \in Sock : _retire(s)
  BY <1>5, RetireStep, Zenon
<1>6. CASE \E c \in Call : ToolCall(c)
  BY <1>6, CallSteps, Zenon
<1> QED BY <1>1, <1>2, <1>3, <1>4, <1>5, <1>6, StepKinds, Zenon

\* resolve_tool_result, _reserve_pending_locked, _release_pending_locked and _retire: for any
\* number of sockets, calls and configuration changes and whatever timeouts coincide, a call
\* that may still be answered is known to its connection, the credits in use are the pending
\* calls and within the limit, and a call reported unavailable or busy never went out.
THEOREM CallsAreAccounted == Spec => []CallsAccounted
<1>1. Init => Types /\ Books
  BY RegistryAssumption, InitBooks, Zenon
<1>2. Types /\ Books /\ [Next]_vars => (Types /\ Books)'
  BY RegistryAssumption, StepKeepsBooks, Zenon
<1>3. Types /\ Books => CallsAccounted
  BY BooksImply, Zenon
<1> QED BY <1>1, <1>2, <1>3, PTL DEF Spec

-----------------------------------------------------------------------------
(***************************************************************************)
(* Revocations and generations.  The revocation epochs are kept: none      *)
(* expires while a handshake that read it is under way.                    *)
(***************************************************************************)
\* A handshake knows the token and the epoch of some earlier moment; a revocation
\* replaced a token older than the present one.  Deletion is for good.
Versions ==
  /\ \A s \in Sock : /\ token # 0 => sock[s].token <= token
                     /\ sock[s].epoch <= epoch
                     /\ sock[s].pc \in {"authed", "hello"} => sock[s].token # 0
  /\ \A v \in Revocation : rvk[v].pc # "idle" =>
       /\ token = 0 \/ rvk[v].old < token
       /\ rvk[v].deleted => token = 0 /\ \A s \in Sock : sock[s].token <= rvk[v].old

\* A revocation past its pop: who still enters with its token read an older epoch,
\* and the current connection came with a newer token.
PastPop(v) == rvk[v].pc \in {"retire", "done"}
Excluded ==
  \A v \in Revocation : PastPop(v) =>
    /\ \A s \in Sock : sock[s].pc \in Entering /\ sock[s].token <= rvk[v].old => sock[s].epoch < epoch
    /\ current # NoSock => sock[current].token > rvk[v].old

Admissions == Versions /\ Excluded /\ Generations

\* The admissions say no connection routed to came with a token that was replaced, and
\* that no two connections share a handle.
LEMMA AdmissionsImply ==
  ASSUME Types, Books, RegistryAssumption, Admissions
  PROVE  RevokedStaysOut /\ UnregisterHitsOwn
<1>1. RevokedStaysOut
  <2> SUFFICES ASSUME NEW v \in Revocation, rvk[v].pc = "done", current # NoSock
               PROVE  sock[current].token # rvk[v].old
    BY Zenon DEF RevokedStaysOut
  <2>1. current \in Sock /\ sock[current].token \in Nat /\ rvk[v].old \in Nat
    BY Zenon DEF Types, NumT, Sockets, SockT, IsSock, RvkT, IsRvk
  <2>2. sock[current].token > rvk[v].old
    BY Zenon DEF Admissions, Excluded, PastPop
  <2> QED BY <2>1, <2>2
<1>2. UnregisterHitsOwn
  BY Zenon
     DEF UnregisterHitsOwn, SameHandle, Admissions, Generations, Types, NumT, Sockets
<1> QED BY <1>1, <1>2, Zenon

\* A step that admits nobody and revokes nothing.
Steady ==
  /\ UNCHANGED <<token, gens, epoch, rvk>>
  /\ \A t \in Sock : /\ conn'[t].gen = conn[t].gen /\ Forward(sock[t], sock'[t])
                     /\ unreg'[t] # "none" => \/ unreg[t] # "none"
                                              \/ sock[t].pc = "ending"
                                              \/ conn[t].gen # 0
  /\ current' # NoSock => current' = current

\* A quiet step admits nobody and revokes nothing.
LEMMA QuietIsSteady ==
  ASSUME Types, Books, Quiet PROVE Steady
<1>1. \A t \in Sock : conn'[t].gen = conn[t].gen
  BY Zenon DEF Quiet, Calm
<1>2. \A t \in Sock : unreg'[t] # "none" => unreg[t] # "none" \/ sock[t].pc = "ending" \/ conn[t].gen # 0
  <2>1. \A t \in Sock : t = current => conn[t].gen # 0
    BY RegistryAssumption, Zenon DEF Books, Routes, RegistryAssumption
  <2> QED BY <2>1, Zenon DEF Quiet, Unregisters
<1> QED BY <1>1, <1>2, Zenon DEF Quiet, Drops, Steady

\* Steps that admit nobody and revoke nothing keep the admissions.
LEMMA SteadyKeepsAdmissions ==
  ASSUME Types, Types', Books, Admissions, Steady PROVE Admissions'
<1>1. \A t \in Sock : /\ sock'[t].token = sock[t].token /\ sock'[t].epoch = sock[t].epoch
                      /\ conn'[t].gen = conn[t].gen
                      /\ sock'[t].pc \in {"authed", "hello"} => sock'[t].pc = sock[t].pc
                      /\ sock'[t].pc \in Entering => sock'[t].pc = sock[t].pc
                      /\ sock'[t].pc \in Activating \cup {"serving", "ending"} =>
                           sock[t].pc \in Activating \cup {"serving", "ending"}
  BY Zenon DEF Steady, Forward, Ahead, Activating, Entering
<1>2. UNCHANGED <<token, gens, epoch, rvk>>
  BY Zenon DEF Steady
<1>3. Versions'
  BY <1>1, <1>2, Zenon DEF Admissions, Versions
<1>4. Excluded'
  <2> SUFFICES ASSUME NEW v \in Revocation, PastPop(v)'
               PROVE  /\ \A s \in Sock : sock'[s].pc \in Entering /\ sock'[s].token <= rvk'[v].old
                                           => sock'[s].epoch < epoch'
                      /\ current' # NoSock => sock'[current'].token > rvk'[v].old
    BY Zenon DEF Excluded
  <2>1. PastPop(v)
    BY <1>2, Zenon DEF PastPop
  <2>2. current' # NoSock => current' = current /\ current \in Sock
    BY Zenon DEF Steady, Types, NumT, Sockets
  <2> QED BY <1>1, <1>2, <2>1, <2>2, Zenon DEF Admissions, Excluded
<1>5. Generations'
  <2>1. \A s \in Sock : sock'[s].pc \in Activating \cup {"serving", "ending"} \/ unreg'[s] # "none" =>
                       conn'[s].gen # 0
    BY <1>1, Zenon DEF Steady, Admissions, Generations
  <2>2. \A s, t \in Sock : conn'[s].gen # 0 /\ conn'[s].gen = conn'[t].gen => s = t
    BY <1>1 DEF Admissions, Generations
  <2>3. \/ \A s \in Sock : conn'[s].gen <= gens'
        \/ token' = 0 /\ \A s \in Sock : sock'[s].pc \in Entering => sock'[s].epoch < epoch'
    BY <1>1, <1>2, Zenon DEF Admissions, Generations
  <2>4. \A s \in Sock : sock'[s].pc \in Opening => conn'[s].gen = 0
    BY <1>1, Zenon
       DEF Steady, Forward, Ahead, Opening, Activating, Admissions, Generations
  <2> QED BY <2>1, <2>2, <2>3, <2>4, Zenon DEF Generations
<1> QED BY <1>3, <1>4, <1>5, Zenon DEF Admissions

\* A connection object that is replaced by one of the same generation.
LEMMA PutGen ==
  ASSUME ConnT, NEW s \in Sock, NEW k, k.gen = conn[s].gen, conn' = [conn EXCEPT ![s] = k]
  PROVE  \A t \in Sock : conn'[t].gen = conn[t].gen
BY Zenon DEF ConnT

\* _retire admits nobody and revokes nothing.
LEMMA RetireSteady ==
  ASSUME Types, NEW s \in Sock, _retire(s) PROVE Steady
<1> DEFINE k == Retired(conn[s])
<1>1. k.gen = conn[s].gen /\ conn' = [conn EXCEPT ![s] = k]
  BY Zenon DEF _retire, Retired, Types, ConnT, IsConn, ConnFields
<1> HIDE DEF k
<1>2. \A t \in Sock : conn'[t].gen = conn[t].gen
  BY <1>1, PutGen, Zenon DEF Types
<1>3. UNCHANGED <<db, current, gens, epoch, sock, unreg, rvk>>
  BY Zenon DEF _retire
<1> QED BY <1>2, <1>3, Still, Zenon DEF Steady, db

\* Neither does the end of an activation.
LEMMA ActivatedSteady ==
  ASSUME Types, NEW s \in Sock, activated(s) PROVE Steady
<1>1. UNCHANGED <<db, current, gens, epoch, unreg, rvk>>
  BY Zenon DEF activated
<1>2. \A t \in Sock : Forward(sock[t], sock'[t])
  BY MoveSock, Zenon DEF Types, activated, Pcs, Ahead, Before, Activating
<1> DEFINE k == [conn[s] EXCEPT !.apply = "none", !.ready = TRUE]
<1>3. k.gen = conn[s].gen
  BY Zenon DEF Types, ConnT, IsConn, ConnFields
<1>4. UNCHANGED conn \/ conn' = [conn EXCEPT ![s] = k]
  BY Zenon DEF activated
<1> HIDE DEF k
<1>5. \A t \in Sock : conn'[t].gen = conn[t].gen
  BY <1>3, <1>4, PutGen, Zenon DEF Types
<1> QED BY <1>1, <1>2, <1>5, Zenon DEF Steady, db

\* Giving a call up keeps the generations and may unregister the current connection.
LEMMA RemoveSteady ==
  ASSUME Types, Books, NEW c \in Call, _remove_pending(c),
         UNCHANGED <<db, current, gens, fence, epoch, sock, mcp, patch, rvk>>
  PROVE  Steady
<1>1. \A t \in Sock : conn'[t].gen = conn[t].gen
  <2>1. CASE ~Held(c)
    BY <2>1, Zenon DEF _remove_pending
  <2>2. CASE Held(c)
    <3> DEFINE k == Expired(conn[current], c)
    <3>1. current \in Sock
      BY <2>2, Zenon DEF Held, SameHandle, Types, NumT, Sockets
    <3>2. k.gen = conn[current].gen /\ conn' = [conn EXCEPT ![current] = k]
      BY <2>2, <3>1, Zenon
         DEF _remove_pending, Expired, Types, ConnT, IsConn, ConnFields
    <3> HIDE DEF k
    <3> QED BY <3>1, <3>2, PutGen, Zenon DEF Types
  <2> QED BY <2>1, <2>2, Zenon
<1>2. \A t \in Sock : unreg'[t] # "none" => unreg[t] # "none" \/ conn[t].gen # 0
  <2>1. CASE ~Full(c)
    BY <2>1, Zenon DEF _remove_pending
  <2>2. CASE Full(c)
    <3>1. current \in Sock /\ conn[current].gen # 0
      BY <2>2, Zenon DEF Full, Held, SameHandle, Types, NumT, Sockets, Books, Routes
    <3>2. \A t \in Sock \ {current} : unreg'[t] = unreg[t]
      BY <2>2, Zenon DEF _remove_pending, _schedule_unregister, Types, UnregT
    <3> QED BY <3>1, <3>2, Zenon
  <2> QED BY <2>1, <2>2, Zenon
<1> QED BY <1>1, <1>2, Still, Zenon DEF Steady, db

\* Neither does any step of a call.
LEMMA CallSteady ==
  ASSUME Types, Books, RegistryAssumption, NEW c \in Call, ToolCall(c) PROVE Steady
<1>1. ASSUME UNCHANGED <<db, current, gens, fence, epoch, conn, sock, unreg, mcp, patch, rvk>>
      PROVE  Steady
  BY <1>1, Still, Zenon DEF Steady, db
<1>2. CASE \E kind \in {"name", "route", "mcp"} : get_route(c, kind)
  BY <1>1, <1>2, Zenon DEF get_route
<1>3. CASE _mark_call_issued(c) \/ call_sent(c) \/ send_failed(c) \/ call_returns(c)
  BY <1>1, <1>3, Zenon DEF _mark_call_issued, call_sent, send_failed, call_returns
<1>4. CASE call_not_sent(c) \/ call_times_out(c)
  BY <1>4, RemoveSteady, Zenon DEF call_not_sent, call_times_out
<1>5. CASE call_cancelled(c)
  <2>1. CASE call[c].pc = "failing"
    BY <1>1, <1>5, <2>1, Zenon DEF call_cancelled
  <2>2. CASE call[c].pc # "failing"
    BY <1>5, <2>2, RemoveSteady, Zenon DEF call_cancelled
  <2> QED BY <2>1, <2>2, Zenon
<1>6. CASE send_fails(c)
  <2>1. /\ UNCHANGED <<db, current, gens, fence, epoch, credits, conn, sock, mcp, patch, rvk>>
        /\ call[c].pc = "sending" /\ _schedule_unregister(call[c].conn)
    BY <1>6, Zenon DEF send_fails
  <2>2. call[c].conn \in Sock /\ conn[call[c].conn].gen # 0
    BY <2>1, RegistryAssumption, Zenon
    DEF Types, CallT, IsCall, Books, Book, Fits, RegistryAssumption
  <2>3. \A t \in Sock \ {call[c].conn} : unreg'[t] = unreg[t]
    BY <2>1, Zenon DEF _schedule_unregister, Types, UnregT
  <2>4. \A t \in Sock : unreg'[t] # "none" => unreg[t] # "none" \/ conn[t].gen # 0
    BY <2>2, <2>3, Zenon
  <2> QED BY <2>1, <2>4, Still, Zenon DEF Steady, db
<1>7. CASE _dispatch_tool(c)
  <2>1. UNCHANGED <<db, current, gens, fence, epoch, sock, unreg, mcp, patch, rvk>>
    BY <1>7, Zenon DEF _dispatch_tool
  <2>2. CASE UNCHANGED conn
    BY <1>1, <2>1, <2>2, Zenon
  <2>3. CASE Accepts(c) /\ conn' = [conn EXCEPT ![current].pend = @ \cup {c}]
    <3>1. current \in Sock
      BY <2>3, Zenon DEF Accepts, Idle, Routable, Types, NumT, Sockets
    <3>2. \A t \in Sock : conn'[t].gen = conn[t].gen
      BY <2>3, <3>1, Zenon DEF Types, ConnT, IsConn, ConnFields
    <3> QED BY <2>1, <3>2, Still, Zenon DEF Steady, db
  <2> QED BY <1>7, <2>2, <2>3, Zenon DEF _dispatch_tool
<1>8. CASE resolve_tool_result(c)
  <2> DEFINE s == call[c].conn
  <2>1. /\ UNCHANGED <<db, current, gens, fence, epoch, unreg, mcp, patch, rvk>>
        /\ call[c].wire = "sent" /\ sock[s].pc = "serving"
    BY <1>8, Zenon DEF resolve_tool_result
  <2>2. s \in Sock
    BY <2>1, Zenon DEF Types, CallT, IsCall
  <2>3. \A t \in Sock : conn'[t].gen = conn[t].gen
    BY <1>8, <2>2 DEF resolve_tool_result, Types, ConnT, IsConn, ConnFields
  <2>4. \A t \in Sock : Forward(sock[t], sock'[t])
    <3>1. UNCHANGED sock \/ SockTo(s, "ending")
      BY <1>8, Zenon DEF resolve_tool_result
    <3> HIDE DEF s
    <3> QED BY <2>1, <2>2, <3>1, MoveSock, Still, Zenon DEF Types, Pcs, Ahead
  <2> QED BY <2>1, <2>3, <2>4, Zenon DEF Steady, db
<1> QED BY <1>2, <1>3, <1>4, <1>5, <1>6, <1>7, <1>8, Zenon DEF ToolCall

\* One socket goes on in its handshake, with a token and an epoch of its own or of now.
Greets(s, n) ==
  /\ n.pc \notin Activating \cup {"serving", "ending"}
  /\ n.pc \in Opening => conn[s].gen = 0
  /\ n.pc \in {"authed", "hello"} => n.token # 0
  /\ n.token = sock[s].token \/ (n.token = token /\ token # 0 /\ s # current)
  /\ n.epoch \in {sock[s].epoch, epoch}
  /\ n.pc \in Entering => \/ n.token = token /\ token # 0
                          \/ /\ sock[s].pc \in Entering
                             /\ n.token = sock[s].token /\ n.epoch = sock[s].epoch

\* A socket that goes on in its handshake keeps the admissions.
LEMMA GreetingKeepsAdmissions ==
  ASSUME Types, Types', Books, Admissions, NEW s \in Sock, Greets(s, sock'[s]),
         UNCHANGED <<token, gens, epoch, rvk, current, unreg>>,
         \A t \in Sock : conn'[t].gen = conn[t].gen,
         \A t \in Sock \ {s} : sock'[t] = sock[t]
  PROVE  Admissions'
<1> DEFINE n == sock'[s]
<1>1. /\ \A t \in Sock : sock[t].token \in Nat /\ sock[t].epoch \in Nat
      /\ token \in Nat /\ epoch \in Nat /\ n.token \in Nat /\ n.epoch \in Nat
      /\ \A v \in Revocation : rvk[v].old \in Nat
  BY Zenon DEF Types, NumT, SockT, IsSock, RvkT, IsRvk
<1>2. /\ token # 0 => n.token <= token
      /\ n.epoch <= epoch
      /\ n.pc \in {"authed", "hello"} => n.token # 0
      /\ \A v \in Revocation : rvk[v].pc # "idle" /\ rvk[v].deleted => n.token <= rvk[v].old
  BY <1>1 DEF Greets, Admissions, Versions
<1>3. Versions'
  <2>1. \A t \in Sock : /\ token' # 0 => sock'[t].token <= token'
                        /\ sock'[t].epoch <= epoch'
                        /\ sock'[t].pc \in {"authed", "hello"} => sock'[t].token # 0
    <3> TAKE t \in Sock
    <3>1. CASE t = s
      BY <1>2, <3>1, Zenon
    <3>2. CASE t # s
      BY <3>2, Zenon DEF Admissions, Versions
    <3> QED BY <3>1, <3>2, Zenon
  <2>2. ASSUME NEW v \in Revocation, rvk'[v].pc # "idle"
        PROVE  /\ token' = 0 \/ rvk'[v].old < token'
               /\ rvk'[v].deleted => token' = 0 /\ \A t \in Sock : sock'[t].token <= rvk'[v].old
    <3>1. token = 0 \/ rvk[v].old < token
      BY <2>2, Zenon DEF Admissions, Versions
    <3>2. rvk[v].deleted => token = 0 /\ \A t \in Sock \ {s} : sock'[t].token <= rvk[v].old
      BY <2>2, Zenon DEF Admissions, Versions
    <3> QED BY <1>2, <2>2, <3>1, <3>2, Zenon
  <2> QED BY <2>1, <2>2, Zenon DEF Versions
<1>4. Excluded'
  <2> SUFFICES ASSUME NEW v \in Revocation, PastPop(v)'
               PROVE  /\ \A t \in Sock : sock'[t].pc \in Entering /\ sock'[t].token <= rvk'[v].old
                                           => sock'[t].epoch < epoch'
                      /\ current' # NoSock => sock'[current'].token > rvk'[v].old
    BY Zenon DEF Excluded
  <2>1. PastPop(v) /\ rvk[v].pc # "idle" /\ rvk'[v] = rvk[v]
    BY Zenon DEF PastPop
  <2>2. token = 0 \/ rvk[v].old < token
    BY <2>1, Zenon DEF Admissions, Versions
  <2>3. n.pc \in Entering /\ n.token <= rvk[v].old => n.epoch < epoch
    <3>1. CASE n.pc \in Entering /\ n.token = token /\ token # 0
      BY <1>1, <2>2, <3>1
    <3>2. CASE sock[s].pc \in Entering /\ n.token = sock[s].token /\ n.epoch = sock[s].epoch
      BY <2>1, <3>2, Zenon DEF Admissions, Excluded
    <3> QED BY <3>1, <3>2, Zenon DEF Greets
  <2>4. \A t \in Sock \ {s} : sock'[t].pc \in Entering /\ sock'[t].token <= rvk[v].old => sock'[t].epoch < epoch
    BY <2>1, Zenon DEF Admissions, Excluded
  <2>5. ASSUME current' # NoSock PROVE sock'[current'].token > rvk[v].old
    <3>1. current \in Sock /\ sock[current].token > rvk[v].old
      BY <2>1, <2>5, Zenon DEF Types, NumT, Sockets, Admissions, Excluded
    <3>2. sock'[current].token = sock[current].token \/ (current = s /\ n.token = sock[s].token)
      BY <3>1, Zenon DEF Greets
    <3> QED BY <3>1, <3>2, Zenon
  <2> QED BY <2>1, <2>3, <2>4, <2>5, Zenon
<1>5. Generations'
  <2>1. \A t \in Sock : sock'[t].pc \in Activating \cup {"serving", "ending"} \/ unreg'[t] # "none" =>
                       conn'[t].gen # 0
    BY Zenon DEF Greets, Admissions, Generations
  <2>2. \A t, u \in Sock : conn'[t].gen # 0 /\ conn'[t].gen = conn'[u].gen => t = u
    BY DEF Admissions, Generations
  <2>3. \/ \A t \in Sock : conn'[t].gen <= gens'
        \/ token' = 0 /\ \A t \in Sock : sock'[t].pc \in Entering => sock'[t].epoch < epoch'
    <3>1. CASE \A t \in Sock : conn[t].gen <= gens
      BY <3>1, Zenon
    <3>2. CASE token = 0 /\ \A t \in Sock : sock[t].pc \in Entering => sock[t].epoch < epoch
      <4>1. n.pc \in Entering => n.epoch < epoch
        BY <3>2, Zenon DEF Greets
      <4>2. \A t \in Sock \ {s} : sock'[t].pc \in Entering => sock'[t].epoch < epoch
        BY <3>2, Zenon
      <4> QED BY <3>2, <4>1, <4>2, Zenon
    <3> QED BY <3>1, <3>2, Zenon DEF Admissions, Generations
  <2>4. \A t \in Sock : sock'[t].pc \in Opening => conn'[t].gen = 0
    BY Zenon DEF Greets, Admissions, Generations
  <2> QED BY <2>1, <2>2, <2>3, <2>4, Zenon DEF Generations
<1> QED BY <1>3, <1>4, <1>5, Zenon DEF Admissions

\* The pop of a revocation: the epoch grows and nobody is current any more.
LEMMA PopKeepsAdmissions ==
  ASSUME Types, Types', Books, Admissions, NEW v \in Revocation, NEW n, n.pc = "retire",
         n.old = rvk[v].old, n.deleted = rvk[v].deleted, rvk[v].pc # "idle",
         rvk' = [rvk EXCEPT ![v] = n], epoch' = epoch + 1, current' = NoSock,
         UNCHANGED <<token, gens, sock, unreg>>, \A t \in Sock : conn'[t].gen = conn[t].gen
  PROVE  Admissions'
<1>1. rvk'[v] = n /\ \A w \in Revocation \ {v} : rvk'[w] = rvk[w]
  BY Zenon DEF Types, RvkT
<1>2. \A w \in Revocation : /\ rvk'[w].old = rvk[w].old /\ rvk'[w].deleted = rvk[w].deleted
                            /\ rvk'[w].pc # "idle" => rvk[w].pc # "idle"
  BY <1>1, Zenon
<1>3. epoch \in Nat /\ \A t \in Sock : sock[t].epoch \in Nat /\ sock[t].epoch <= epoch
  BY Zenon DEF Types, NumT, SockT, IsSock, Admissions, Versions
<1>4. \A t \in Sock : sock'[t].epoch < epoch'
  BY <1>3
<1>5. Versions'
  <2>1. \A t \in Sock : sock'[t].epoch <= epoch'
    BY <1>3
  <2> QED BY <1>2, <2>1, Zenon DEF Admissions, Versions
<1>6. Excluded'
  BY <1>4, Zenon DEF Excluded
<1>7. Generations'
  <2>1. \A s \in Sock : sock'[s].pc \in Activating \cup {"serving", "ending"} \/ unreg'[s] # "none" =>
                       conn'[s].gen # 0
    BY Zenon DEF Admissions, Generations
  <2>2. \A s, t \in Sock : conn'[s].gen # 0 /\ conn'[s].gen = conn'[t].gen => s = t
    BY Zenon DEF Admissions, Generations
  <2>3. \/ \A s \in Sock : conn'[s].gen <= gens'
        \/ token' = 0 /\ \A s \in Sock : sock'[s].pc \in Entering => sock'[s].epoch < epoch'
    BY <1>4, Zenon DEF Admissions, Generations
  <2>4. \A s \in Sock : sock'[s].pc \in Opening => conn'[s].gen = 0
    BY Zenon DEF Admissions, Generations
  <2> QED BY <2>1, <2>2, <2>3, <2>4, Zenon DEF Generations
<1> QED BY <1>5, <1>6, <1>7, Zenon DEF Admissions

\* Handshakes and revocations keep the admissions.
LEMMA AdmissionSteps ==
  ASSUME Types, Types', RegistryAssumption, Books, Admissions,
         \/ \E s \in Sock : Opens(s)
         \/ \E v \in Revocation : Revoke(v)
  PROVE  Admissions'
<1>1. ASSUME NEW s \in Sock, Opens(s) PROVE Admissions'
  \* A socket authenticates with the present token.
  <2>1. CASE authenticate(s)
    <3> USE <2>1
    <3>1. /\ UNCHANGED <<db, current, gens, epoch, conn, unreg, rvk>> /\ token # 0
          /\ sock[s].pc = "idle" /\ sock' = [sock EXCEPT ![s].pc = "authed", ![s].token = token]
      BY Zenon DEF authenticate
    <3>2. /\ sock'[s].pc = "authed" /\ sock'[s].token = token /\ sock'[s].epoch = sock[s].epoch
          /\ \A t \in Sock \ {s} : sock'[t] = sock[t]
      BY <3>1, Zenon DEF Types, SockT, IsSock
    <3>3. conn[s].gen = 0
      BY <3>1, Zenon DEF Admissions, Generations, Opening
    <3>4. s # current
      BY <3>3, RegistryAssumption, Zenon DEF Books, Routes, RegistryAssumption
    <3>5. Greets(s, sock'[s])
      BY <3>1, <3>2, <3>3, <3>4, Zenon DEF Greets, Activating, Entering
    <3> QED BY <3>1, <3>2, <3>5, GreetingKeepsAdmissions, Zenon DEF db
  \* A socket reads the present epoch.
  <2>2. CASE registration_epoch(s)
    <3> USE <2>2
    <3>1. /\ UNCHANGED <<db, current, gens, epoch, conn, unreg, rvk>>
          /\ sock[s].pc = "authed" /\ sock' = [sock EXCEPT ![s].pc = "hello", ![s].epoch = epoch]
      BY Zenon DEF registration_epoch
    <3>2. /\ sock'[s].pc = "hello" /\ sock'[s].token = sock[s].token /\ sock'[s].epoch = epoch
          /\ \A t \in Sock \ {s} : sock'[t] = sock[t]
      BY <3>1, Zenon DEF Types, SockT, IsSock
    <3>3. conn[s].gen = 0 /\ sock[s].token # 0
      BY <3>1, Zenon DEF Admissions, Generations, Versions, Opening
    <3>5. Greets(s, sock'[s])
      BY <3>1, <3>2, <3>3, Zenon DEF Greets, Activating, Entering
    <3> QED BY <3>1, <3>2, <3>5, GreetingKeepsAdmissions, Zenon DEF db
  \* Only the present token gets a socket to register.
  <2>3. CASE find_by_token(s)
    <3> USE <2>3
    <3>1. /\ UNCHANGED <<db, current, gens, epoch, unreg, rvk>> /\ sock[s].pc = "hello"
          /\ \/ token = sock[s].token /\ SockTo(s, "register")
             \/ SockTo(s, "closed")
      BY Zenon DEF find_by_token
    <3>2. /\ \/ token = sock[s].token /\ sock'[s].pc = "register"
             \/ sock'[s].pc = "closed"
          /\ sock'[s].token = sock[s].token /\ sock'[s].epoch = sock[s].epoch
          /\ \A t \in Sock \ {s} : sock'[t] = sock[t]
      BY <3>1, Zenon DEF Types, SockT, IsSock, SockTo
    <3>3. conn[s].gen = 0 /\ sock[s].token # 0
      BY <3>1, Zenon DEF Admissions, Generations, Versions, Opening
    <3>4. Greets(s, sock'[s])
      BY <3>1, <3>2, <3>3, Zenon DEF Greets, Activating, Entering
    <3> DEFINE k == [conn[s] EXCEPT !.rev = rev, !.target = rev]
    <3>5. k.gen = conn[s].gen
      BY DEF Types, ConnT, IsConn, ConnFields
    <3>6. UNCHANGED conn \/ conn' = [conn EXCEPT ![s] = k]
      BY Zenon DEF find_by_token
    <3> HIDE DEF k
    <3>7. \A t \in Sock : conn'[t].gen = conn[t].gen
      BY <3>5, <3>6, PutGen, Zenon DEF Types
    <3> QED BY <3>1, <3>2, <3>4, <3>7, GreetingKeepsAdmissions, Zenon DEF db
  \* register changes neither the token nor the epoch of a socket.
  <2>4. CASE register(s)
    <3> USE <2>4
    <3>1. /\ UNCHANGED <<db, current, gens, epoch, conn, unreg, rvk>>
          /\ sock[s].pc = "register" /\ sock' = [sock EXCEPT ![s].pc = "publish", ![s].prev = current]
      BY Zenon DEF register
    <3>2. /\ sock'[s].pc = "publish" /\ sock'[s].token = sock[s].token /\ sock'[s].epoch = sock[s].epoch
          /\ \A t \in Sock \ {s} : sock'[t] = sock[t]
      BY <3>1, Zenon DEF Types, SockT, IsSock
    <3>3. conn[s].gen = 0
      BY <3>1, Zenon DEF Admissions, Generations, Opening
    <3>4. Greets(s, sock'[s])
      BY <3>1, <3>2, <3>3, Zenon DEF Greets, Activating, Entering
    <3> QED BY <3>1, <3>2, <3>4, GreetingKeepsAdmissions, Zenon DEF db
  \* A connection is published with an unused generation, and only under the epoch it read.
  <2>5. CASE _publish_registration(s)
    <3> USE <2>5
    <3>1. UNCHANGED <<db, epoch, unreg, rvk>> /\ sock[s].pc = "publish"
      BY Zenon DEF _publish_registration
    <3>2. CASE SockTo(s, "closed") /\ UNCHANGED <<gens, conn, current, fence>>
      <4>1. \A t \in Sock : Forward(sock[t], sock'[t])
        BY <3>2, MoveSock, Zenon DEF Types, Pcs, Ahead
      <4>2. Steady
        BY <3>1, <3>2, <4>1, Zenon DEF Steady, db
      <4> QED BY <4>2, SteadyKeepsAdmissions, Zenon
    <3>3. CASE Publishes(s) /\ EpochCurrent(s)
      <4>1. /\ sock'[s].pc = "retireprev" /\ sock'[s].token = sock[s].token /\ sock'[s].epoch = sock[s].epoch
            /\ \A t \in Sock \ {s} : sock'[t] = sock[t]
        BY <3>3, Zenon DEF Publishes, Types, SockT, IsSock
      <4>2. /\ conn'[s].gen = gens + 1 /\ \A t \in Sock \ {s} : conn'[t].gen = conn[t].gen
            /\ current' = s /\ gens' = gens + 1
        BY <3>3, PublishedConn, Zenon DEF Publishes
      <4>3. /\ gens \in Nat /\ epoch \in Nat /\ token \in Nat
            /\ \A t \in Sock : /\ conn[t].gen \in Nat /\ sock[t].epoch \in Nat /\ sock[t].token \in Nat
            /\ \A v \in Revocation : rvk[v].old \in Nat
        BY Zenon DEF Types, NumT, ConnT, IsConn, SockT, IsSock, RvkT, IsRvk
      <4>4. \A t \in Sock : conn[t].gen <= gens
        BY <3>1, <3>3, <4>3 DEF Admissions, Generations, EpochCurrent, Entering
      <4>5. Versions'
        <5>1. \A t \in Sock : /\ sock'[t].token = sock[t].token /\ sock'[t].epoch = sock[t].epoch
                              /\ sock'[t].pc \in {"authed", "hello"} => sock[t].pc \in {"authed", "hello"}
          BY <4>1, Zenon
        <5> QED BY <3>1, <5>1, Zenon DEF Admissions, Versions, db
      <4>6. Excluded'
        <5> SUFFICES ASSUME NEW v \in Revocation, PastPop(v)'
                     PROVE  /\ \A t \in Sock : sock'[t].pc \in Entering /\ sock'[t].token <= rvk'[v].old
                                                 => sock'[t].epoch < epoch'
                            /\ current' # NoSock => sock'[current'].token > rvk'[v].old
          BY Zenon DEF Excluded
        <5>1. PastPop(v) /\ rvk'[v] = rvk[v]
          BY <3>1, Zenon DEF PastPop
        <5>2. ~(sock[s].token <= rvk[v].old)
          BY <3>1, <3>3, <4>3, <5>1 DEF Admissions, Excluded, EpochCurrent, Entering
        <5>3. \A t \in Sock : sock'[t].pc \in Entering /\ sock'[t].token <= rvk[v].old => sock'[t].epoch < epoch
          BY <4>1, <5>1, Zenon DEF Admissions, Excluded, Entering
        <5> QED BY <3>1, <4>1, <4>2, <4>3, <5>1, <5>2, <5>3
      <4>7. Generations'
        <5>1. \A t \in Sock : sock'[t].pc \in Activating \cup {"serving", "ending"} \/ unreg'[t] # "none" =>
                           conn'[t].gen # 0
          BY <3>1, <4>1, <4>2, <4>3 DEF Admissions, Generations
        <5>2. ASSUME NEW t \in Sock, NEW u \in Sock, conn'[t].gen # 0, conn'[t].gen = conn'[u].gen
              PROVE  t = u
          BY <4>2, <4>3, <4>4, <5>2 DEF Admissions, Generations
        <5>3. \A t \in Sock : conn'[t].gen <= gens'
          BY <4>2, <4>3, <4>4
        <5>4. \A t \in Sock : sock'[t].pc \in Opening => conn'[t].gen = 0
          BY <4>1, <4>2, Zenon DEF Admissions, Generations, Opening
        <5> QED BY <5>1, <5>2, <5>3, <5>4, Zenon DEF Generations
      <4> QED BY <4>5, <4>6, <4>7, Zenon DEF Admissions
    <3> QED BY <3>2, <3>3, Zenon DEF _publish_registration, Publishes
  \* The end of an activation admits nobody else.
  <2>6. CASE activated(s)
    BY <2>6, ActivatedSteady, SteadyKeepsAdmissions, Zenon
  <2> QED BY <1>1, <2>1, <2>2, <2>3, <2>4, <2>5, <2>6, Zenon DEF Opens
<1>2. ASSUME NEW v \in Revocation, Revoke(v) PROVE Admissions'
  \* A new token is greater than every token seen; a deleted one never comes back.
  <2>1. ASSUME NEW deleted \in BOOLEAN, regenerate_token(v, deleted) PROVE Admissions'
    <3> USE <2>1
    <3> DEFINE n == [rvk[v] EXCEPT !.pc = "revoke", !.old = token, !.deleted = deleted]
    <3>1. /\ UNCHANGED <<current, gens, epoch, conn, sock, unreg>> /\ token # 0 /\ rvk[v].pc = "idle"
          /\ token' = IF deleted THEN 0 ELSE token + 1
          /\ rvk' = [rvk EXCEPT ![v] = n]
      BY Zenon DEF regenerate_token
    <3>2. n.pc = "revoke" /\ n.old = token /\ n.deleted = deleted
      BY Zenon DEF Types, RvkT, IsRvk
    <3> HIDE DEF n
    <3>3. rvk'[v] = n /\ \A w \in Revocation \ {v} : rvk'[w] = rvk[w]
      BY <3>1, Zenon DEF Types, RvkT
    <3>4. /\ token \in Nat /\ \A w \in Revocation : rvk[w].old \in Nat
          /\ \A t \in Sock : sock[t].token \in Nat
      BY Zenon DEF Types, NumT, SockT, IsSock, RvkT, IsRvk
    <3>5. Versions'
      <4>1. \A s \in Sock : /\ token' # 0 => sock'[s].token <= token'
                            /\ sock'[s].epoch <= epoch'
                            /\ sock'[s].pc \in {"authed", "hello"} => sock'[s].token # 0
        BY <3>1, <3>4 DEF Admissions, Versions
      <4>2. ASSUME NEW w \in Revocation, rvk'[w].pc # "idle"
            PROVE  /\ token' = 0 \/ rvk'[w].old < token'
                   /\ rvk'[w].deleted => token' = 0 /\ \A s \in Sock : sock'[s].token <= rvk'[w].old
        <5>1. CASE w = v
          BY <3>1, <3>2, <3>3, <3>4, <5>1 DEF Admissions, Versions
        <5>2. CASE w # v
          <6>1. rvk'[w] = rvk[w] /\ rvk[w].old < token /\ ~rvk[w].deleted
            BY <3>1, <3>3, <4>2, <5>2, Zenon DEF Admissions, Versions
          <6> QED BY <3>1, <3>4, <6>1
        <5> QED BY <5>1, <5>2, Zenon
      <4> QED BY <4>1, <4>2, Zenon DEF Versions
    <3>6. Excluded'
      <4>1. \A w \in Revocation : PastPop(w)' => PastPop(w) /\ rvk'[w] = rvk[w]
        BY <3>2, <3>3, Zenon DEF PastPop
      <4> QED BY <3>1, <4>1, Zenon DEF Admissions, Excluded
    <3>7. Generations'
      BY <3>1, Zenon DEF Admissions, Generations
    <3> QED BY <3>5, <3>6, <3>7, Zenon DEF Admissions
  \* revoke without a current connection pops nothing; otherwise it takes the locks first.
  <2>2. CASE revoke(v)
    <3> USE <2>2
    <3>1. UNCHANGED <<db, current, gens, conn, sock, unreg>> /\ rvk[v].pc = "revoke"
      BY Zenon DEF revoke
    <3>2. CASE current = NoSock /\ epoch' = epoch + 1 /\ rvk' = [rvk EXCEPT ![v].pc = "retire"]
      <4> DEFINE n == [rvk[v] EXCEPT !.pc = "retire"]
      <4>1. n.pc = "retire" /\ n.old = rvk[v].old /\ n.deleted = rvk[v].deleted
        BY Zenon DEF Types, RvkT, IsRvk
      <4>2. rvk' = [rvk EXCEPT ![v] = n]
        BY <3>2, Zenon
      <4> HIDE DEF n
      <4> QED BY <3>1, <3>2, <4>1, <4>2, PopKeepsAdmissions, Zenon DEF db
    <3>3. CASE rvk' = [rvk EXCEPT ![v].pc = "locked", ![v].conn = current] /\ UNCHANGED epoch
      <4>1. \A w \in Revocation : /\ rvk'[w].old = rvk[w].old /\ rvk'[w].deleted = rvk[w].deleted
                                  /\ rvk'[w].pc # "idle" => rvk[w].pc # "idle"
                                  /\ rvk'[w].pc \in {"retire", "done"} => rvk[w].pc \in {"retire", "done"}
        BY <3>1, <3>3 DEF Types, RvkT, IsRvk
      <4>2. Versions'
        BY <3>1, <3>3, <4>1, Zenon DEF Admissions, Versions, db
      <4>3. Excluded'
        BY <3>1, <3>3, <4>1, Zenon DEF Admissions, Excluded, PastPop
      <4>4. Generations'
        BY <3>1, <3>3, Zenon DEF Admissions, Generations, db
      <4> QED BY <4>2, <4>3, <4>4, Zenon DEF Admissions
    <3> QED BY <3>2, <3>3, Zenon DEF revoke
  \* revoke pops the current connection and raises the epoch in one step.
  <2>3. CASE revoke_pops(v)
    <3> USE <2>3
    <3> DEFINE n == [rvk[v] EXCEPT !.pc = "retire"]
    <3>1. /\ UNCHANGED <<db, gens, sock, unreg>> /\ rvk[v].pc = "locked" /\ epoch' = epoch + 1
          /\ rvk' = [rvk EXCEPT ![v] = n] /\ current' = NoSock
      BY Zenon DEF revoke_pops
    <3>2. n.pc = "retire" /\ n.old = rvk[v].old /\ n.deleted = rvk[v].deleted
      BY Zenon DEF Types, RvkT, IsRvk
    <3> HIDE DEF n
    <3>3. \A t \in Sock : conn'[t].gen = conn[t].gen
      <4>1. CASE UNCHANGED conn
        BY <4>1, Zenon
      <4>2. CASE current # NoSock /\ conn' = [conn EXCEPT ![current].life = "retiring"]
        <5>1. current \in Sock
          BY <4>2, Zenon DEF Types, NumT, Sockets
        <5> QED BY <4>2, <5>1 DEF Types, ConnT, IsConn, ConnFields
      <4> QED BY <4>1, <4>2, Zenon DEF revoke_pops
    <3> QED BY <3>1, <3>2, <3>3, PopKeepsAdmissions, Zenon DEF db
  \* remove_device forgets the counter only when nobody can be published any more.
  <2>4. CASE revoked(v)
    <3> USE <2>4
    <3>1. /\ UNCHANGED <<db, current, epoch, conn, sock, unreg>> /\ rvk[v].pc = "retire"
          /\ rvk' = [rvk EXCEPT ![v].pc = "done"]
          /\ rvk[v].deleted \/ UNCHANGED gens
      BY Zenon DEF revoked
    <3>2. \A w \in Revocation : /\ rvk'[w].old = rvk[w].old /\ rvk'[w].deleted = rvk[w].deleted
                                /\ rvk'[w].pc # "idle" => rvk[w].pc # "idle"
                                /\ rvk'[w].pc \in {"retire", "done"} => rvk[w].pc \in {"retire", "done"}
      BY <3>1, Zenon DEF Types, RvkT, IsRvk
    <3>3. Versions'
      BY <3>1, <3>2, Zenon DEF Admissions, Versions, db
    <3>4. Excluded'
      BY <3>1, <3>2, Zenon DEF Admissions, Excluded, PastPop
    <3>5. Generations'
      <4>1. CASE UNCHANGED gens
        BY <3>1, <4>1, Zenon DEF Admissions, Generations, db
      <4>2. CASE rvk[v].deleted
        <5>1. token' = 0 /\ \A s \in Sock : sock[s].token <= rvk[v].old
          BY <3>1, <4>2, Zenon DEF Admissions, Versions, db
        <5>2. \A s \in Sock : sock'[s].pc \in Entering => sock'[s].epoch < epoch'
          BY <3>1, <5>1, Zenon DEF Admissions, Excluded, PastPop
        <5> QED BY <3>1, <5>1, <5>2, Zenon DEF Admissions, Generations
      <4> QED BY <3>1, <4>1, <4>2, Zenon
    <3> QED BY <3>3, <3>4, <3>5, Zenon DEF Admissions
  <2> QED BY <1>2, <2>1, <2>2, <2>3, <2>4, Zenon DEF Revoke
<1> QED BY <1>1, <1>2, Zenon

\* Nobody was admitted before the first handshake.
LEMMA InitAdmissions == RegistryAssumption /\ Init => Admissions
<1> SUFFICES ASSUME RegistryAssumption, Init PROVE Admissions
  BY Zenon
<1>1. \A s \in Sock : /\ sock[s].pc = "idle" /\ sock[s].token = 0 /\ sock[s].epoch = 0
                      /\ unreg[s] = "none" /\ conn[s].gen = 0
  BY Zenon DEF Init, NewConnection
<1>2. /\ token = 1 /\ epoch = 0 /\ gens = 0 /\ \A v \in Revocation : rvk[v].pc = "idle"
  BY Zenon DEF Init
<1>3. Versions
  BY <1>1, <1>2 DEF Versions
<1>4. Excluded
  BY <1>2, Zenon DEF Excluded, PastPop
<1>5. Generations
  BY <1>1, <1>2 DEF Generations, Activating
<1> QED BY <1>3, <1>4, <1>5, Zenon DEF Admissions

\* Every step keeps the admissions, as long as no revocation epoch expires.
LEMMA StepKeepsAdmissions ==
  ASSUME Types, RegistryAssumption, Books, Admissions, [Next]_vars, "epoch_expiry" \notin Races
  PROVE  Admissions'
<1>1. Types'
  BY StepKeepsBooks, Zenon
<1>2. CASE UNCHANGED vars
  <2>1. Steady
    BY <1>2, Still, Zenon DEF vars, Steady
  <2> QED BY <1>1, <2>1, SteadyKeepsAdmissions, Zenon
<1>3. CASE \/ \E s \in Sock : QuietSocket(s) \/ Registration(s)
           \/ \E p \in Patch : Update(p)
  BY <1>1, <1>3, QuietSteps, QuietIsSteady, SteadyKeepsAdmissions, Zenon
<1>4. CASE \E s \in Sock : Opens(s)
  BY <1>1, <1>4, AdmissionSteps, Zenon
<1>5. CASE \E v \in Revocation : Revoke(v)
  BY <1>1, <1>5, AdmissionSteps, Zenon
<1>6. CASE \E s \in Sock : _retire(s)
  BY <1>1, <1>6, RetireSteady, SteadyKeepsAdmissions, Zenon
<1>7. CASE \E c \in Call : ToolCall(c)
  BY <1>1, <1>7, CallSteady, SteadyKeepsAdmissions, Zenon
<1>8. ~_revocation_epoch_expires
  BY Zenon DEF _revocation_epoch_expires
<1> QED BY <1>2, <1>3, <1>4, <1>5, <1>6, <1>7, <1>8, StepKinds, Zenon

\* The types, the books and the admissions hold together as long as epochs are kept.
LEMMA AdmissionsHold ==
  ASSUME "epoch_expiry" \notin Races
  PROVE  Spec => [](Types /\ Books /\ Admissions)
<1>1. Init => Types /\ Books /\ Admissions
  BY RegistryAssumption, InitBooks, InitAdmissions, Zenon
<1>2. Types /\ Books /\ Admissions /\ [Next]_vars => (Types /\ Books /\ Admissions)'
  BY RegistryAssumption, StepKeepsBooks, StepKeepsAdmissions, Zenon
<1> QED BY <1>1, <1>2, PTL DEF Spec

\* revoke, _publish_registration and the revocation epochs: for any number of sockets and
\* revocations, once a revocation has returned no connection that came with the token it
\* replaced is routed to, provided that no epoch expires under a handshake that read it.
THEOREM RevokedTokensStayOut ==
  ASSUME "epoch_expiry" \notin Races
  PROVE  Spec => []RevokedStaysOut
<1>1. Types /\ Books /\ Admissions => RevokedStaysOut
  BY RegistryAssumption, AdmissionsImply, Zenon
<1> QED BY <1>1, AdmissionsHold, PTL

\* unregister and remove_device: an unregister that is late never finds its handle on a
\* newer connection, although deleting the Device forgets the counter of the handles.
THEOREM HandlesAreNotReused ==
  ASSUME "epoch_expiry" \notin Races
  PROVE  Spec => []UnregisterHitsOwn
<1>1. Types /\ Books /\ Admissions => UnregisterHitsOwn
  BY RegistryAssumption, AdmissionsImply, Zenon
<1> QED BY <1>1, AdmissionsHold, PTL

-----------------------------------------------------------------------------
(***************************************************************************)
(* Fences and configuration changes.                                       *)
(***************************************************************************)
\* _publication_fences, _release_publication_fence_locked and config_update_lock: for any
\* number of sockets, PATCHes and revocations, and whatever timeouts coincide, a fence is
\* up only while the activation of its generation or the PATCH that raised it is at work.
THEOREM FencesHaveOwners == Spec => []FenceOwned
<1>1. Init => Types /\ Books /\ Fenced
  BY RegistryAssumption, InitBooks, InitFences, Zenon
<1>2. Types /\ Books /\ Fenced /\ [Next]_vars => (Types /\ Books /\ Fenced)'
  BY RegistryAssumption, StepKeepsBooks, StepKeepsFences, Zenon DEF KeepsOnTime
<1>3. Fenced => FenceOwned
  BY Zenon DEF Fenced
<1> QED BY <1>1, <1>2, <1>3, PTL DEF Spec

\* The registry's fences and its unregisters: nobody takes down the fence, or the connection,
\* of another generation, provided that no epoch expires under a handshake that read it.
THEOREM FencesAndHandlesAreOwned ==
  ASSUME "epoch_expiry" \notin Races
  PROVE  Spec => []FencesAndHandlesOwned
BY FencesHaveOwners, HandlesAreNotReused, PTL DEF FencesAndHandlesOwned

\* "no tool call can use an old runtime binding after the commit": for any number of sockets,
\* calls and PATCHes, a call is put on the wire only for the revision that is durable then, on
\* the generation routed to and with the bindings of that revision, provided that no epoch
\* expires under a handshake and no timeout overtakes the registration it was set for.
THEOREM NothingStaleIsIssued ==
  ASSUME "epoch_expiry" \notin Races, "late_timeout" \notin Races
  PROVE  Spec => NoStaleIssue
<1> DEFINE Inv == Types /\ Books /\ Admissions /\ Fenced /\ Durable
<1>1. Init => Inv
  BY RegistryAssumption, InitBooks, InitAdmissions, InitFences, Zenon
<1>2. Inv /\ [Next]_vars => Inv'
  BY RegistryAssumption, StepKeepsBooks, StepKeepsAdmissions, StepKeepsFences, Zenon
     DEF KeepsOnTime, Admissions
<1>3. Inv /\ [Next]_vars => [IssuesCurrent]_vars
  BY IssueStep, Zenon
<1>4. Spec => [][IssuesCurrent]_vars
  BY <1>1, <1>2, <1>3, PTL DEF Spec
<1> QED BY <1>4, PTL DEF NoStaleIssue, IssuesCurrent

=============================================================================
