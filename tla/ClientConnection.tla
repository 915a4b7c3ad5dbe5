-------------------------- MODULE ClientConnection --------------------------
(* The Client's connection to the Server (client connection.py): the run     *)
(* loop with its reconnects, the handshake, configuration updates installed  *)
(* beside the frame loop, the tool worker and the MCP supervisor attached to *)
(* the connection, against the Server's side of the same frames              *)
(* (devices/registry.py, api/device_ws.py, api/devices.py).  Frames travel   *)
(* in order over one connection and are lost with it.                        *)
EXTENDS ClientMcp, Sequences

CONSTANTS ToolQueueMax,  \* calls the tool worker holds beside the one it runs
          ConnBudgets    \* what the environment may do: see ConnInit

VARIABLES cl,   \* the Client's connection loop
          srv,  \* the Server's view of the Device
          net   \* the frames in flight, up to the Server and down to the Client

clvars == <<mc, mb, cl, srv, net>>

NoUpd == [rev |-> 0, cfg |-> "none", vid |-> 0, pc |-> "none"]

------------------------------------------------------------------------------
(* Frames.                                                                  *)

Down(f) == [net EXCEPT !.down = Append(@, f)]
Up(f) == IF net.alive THEN [net EXCEPT !.up = Append(@, f)] ELSE net
First(q) == IF q = <<>> THEN [type |-> "none"] ELSE Head(q)
Arrived == First(net.down)
Received == [net EXCEPT !.down = Tail(@)]
Replied(f) == [net EXCEPT !.down = Tail(@), !.up = Append(@, f)]
Silence(alive) == [alive |-> alive, up |-> <<>>, down |-> <<>>]
Heard == First(net.up)
Consumed == [net EXCEPT !.up = Tail(@)]
Answer(f) == [net EXCEPT !.up = Tail(@), !.down = Append(@, f)]

------------------------------------------------------------------------------
(* The Server.                                                              *)

SrvHello ==
  /\ Heard.type = "hello"
  /\ srv' = [srv EXCEPT !.conn = "handshake"]
  /\ net' = Answer([type |-> "hello_ack", rev |-> srv.rev, cfg |-> srv.cfg])
  /\ UNCHANGED <<mc, mb, cl>>

\* The acknowledged revision is routable; the bindings of the previous one are gone.
SrvApplied ==
  /\ Heard.type = "applied"
  /\ net' = Answer([type |-> "applied_ack", rev |-> Heard.rev])
  /\ srv' = [srv EXCEPT !.conn = "ready", !.inst = Heard.rev, !.bind = NoReg, !.infl = FALSE,
                        !.patch = NoUpd]
  /\ UNCHANGED <<mc, mb, cl>>

\* A PATCH of the Device's configuration: a changed MCP server is validated first.
PatchBegins ==
  /\ srv.conn = "ready" /\ srv.patch = NoUpd /\ mb.patches > 0
  /\ mb' = [mb EXCEPT !.patches = @ - 1]
  /\ \E cfg \in Configs \cup {"none"} :
       LET p == [rev |-> srv.rev, cfg |-> cfg, vid |-> mb.patches, pc |-> "validate"] IN
       IF cfg \notin {"none", srv.cfg}
       THEN /\ srv' = [srv EXCEPT !.patch = p]
            /\ net' = Down([type |-> "validate", id |-> p.vid, rev |-> srv.rev, cfg |-> cfg])
       ELSE /\ srv' = [srv EXCEPT !.patch = [p EXCEPT !.pc = "commit", !.vid = 0], !.infl = TRUE]
            /\ UNCHANGED net
  /\ UNCHANGED <<mc, cl>>

SrvValidated ==
  /\ Heard.type = "validated" /\ srv.patch.pc = "validate" /\ srv.patch.vid = Heard.id
  /\ net' = Consumed
  /\ srv' = IF Heard.ok THEN [srv EXCEPT !.patch.pc = "commit", !.infl = TRUE]
            ELSE [srv EXCEPT !.patch = NoUpd]
  /\ UNCHANGED <<mc, mb, cl>>

SrvLateResult ==
  /\ Heard.type = "validated" /\ ~(srv.patch.pc = "validate" /\ srv.patch.vid = Heard.id)
  /\ net' = Consumed
  /\ srv' = IF Heard.id \in srv.tombs THEN [srv EXCEPT !.tombs = @ \ {Heard.id}]
            ELSE [srv EXCEPT !.err = TRUE]
  /\ UNCHANGED <<mc, mb, cl>>

\* The request gives up waiting for the validation.
PatchTimesOut ==
  /\ srv.patch.pc = "validate" /\ mb.faults > 0
  /\ mb' = [mb EXCEPT !.faults = @ - 1]
  /\ srv' = [srv EXCEPT !.patch = NoUpd, !.tombs = @ \cup {srv.patch.vid}]
  /\ net' = Down([type |-> "cancel", id |-> srv.patch.vid])
  /\ UNCHANGED <<mc, cl>>

PatchCommits ==
  /\ srv.patch.pc = "commit"
  /\ srv' = [srv EXCEPT !.rev = @ + 1, !.cfg = srv.patch.cfg, !.patch.pc = "push"]
  /\ net' = Down([type |-> "update", rev |-> srv.rev + 1, cfg |-> srv.patch.cfg, vid |-> srv.patch.vid])
  /\ UNCHANGED <<mc, mb, cl>>

\* The commit is refused: the fence is lifted and the candidate discarded.
PatchRefused ==
  /\ srv.patch.pc = "commit" /\ mb.faults > 0
  /\ mb' = [mb EXCEPT !.faults = @ - 1]
  /\ srv' = [srv EXCEPT !.patch = NoUpd, !.infl = FALSE]
  /\ net' = IF srv.patch.vid = 0 THEN net ELSE Down([type |-> "cancel", id |-> srv.patch.vid])
  /\ UNCHANGED <<mc, cl>>

\* A registration is judged against the stored revision when it arrives and
\* published when no update is in flight.
SrvRegister ==
  /\ Heard.type = "register" /\ srv.reg.rev = 0
  /\ srv' = [srv EXCEPT !.reg = [rev |-> Heard.rev, gen |-> Heard.gen,
                                 st |-> IF Heard.rev # srv.rev THEN "stale" ELSE Heard.st]]
  /\ net' = Consumed
  /\ UNCHANGED <<mc, mb, cl>>

Verdict(g) ==
  IF g.st = "stale" \/ g.rev # srv.inst THEN "stale"
  ELSE IF g.st = "ready" THEN "accepted" ELSE "rejected"

SrvPublish ==
  LET g == srv.reg IN
  /\ g.rev # 0 /\ srv.conn = "ready" /\ ~srv.infl
  /\ net' = Down([type |-> "reg_ack", rev |-> g.rev, gen |-> g.gen, verdict |-> Verdict(g)])
  /\ srv' = [srv EXCEPT !.reg = NoReg, !.bind = IF Verdict(g) = "accepted" THEN g ELSE NoReg]
  /\ UNCHANGED <<mc, mb, cl>>

SrvCalls ==
  /\ srv.conn = "ready" /\ ~srv.infl /\ srv.bind # NoReg
  /\ mb.calls > 0 /\ mb' = [mb EXCEPT !.calls = @ - 1]
  /\ srv' = [srv EXCEPT !.calls = @ \cup {mb.calls}]
  /\ net' = Down([type |-> "call", id |-> mb.calls, rev |-> srv.bind.rev, gen |-> srv.bind.gen,
                  cfg |-> srv.cfg])
  /\ UNCHANGED <<mc, cl>>

SrvResult ==
  /\ Heard.type = "result"
  /\ net' = Consumed
  /\ srv' = IF Heard.id \in srv.calls THEN [srv EXCEPT !.calls = @ \ {Heard.id}]
            ELSE [srv EXCEPT !.err = TRUE]
  /\ UNCHANGED <<mc, mb, cl>>

Offline(v) == [v EXCEPT !.conn = "off", !.inst = 0, !.infl = FALSE, !.patch = NoUpd, !.bind = NoReg,
                        !.reg = NoReg, !.calls = {}, !.tombs = {}]

\* The connection is lost; the Server retires it and every frame in flight is gone.
ConnectionLost ==
  /\ net.alive /\ mb.drops > 0
  /\ mb' = [mb EXCEPT !.drops = @ - 1]
  /\ net' = Silence(FALSE) /\ srv' = Offline(srv)
  /\ UNCHANGED <<mc, cl>>

ServerStep ==
  \/ SrvHello \/ SrvApplied \/ SrvValidated \/ SrvLateResult \/ PatchCommits
  \/ SrvRegister \/ SrvPublish \/ SrvResult

ServerChoice == PatchBegins \/ PatchTimesOut \/ PatchRefused \/ SrvCalls \/ ConnectionLost

------------------------------------------------------------------------------
(* The run loop: attempts one after the other until a stop is requested.     *)

Connect ==
  /\ cl.pc = "off" /\ ~cl.stop
  /\ cl' = [cl EXCEPT !.pc = "hello"]
  /\ net' = [Silence(TRUE) EXCEPT !.up = <<[type |-> "hello"]>>]
  /\ UNCHANGED <<mc, mb, srv>>

RequestShutdown ==
  /\ mb.stop > 0 /\ ~cl.stop
  /\ mb' = [mb EXCEPT !.stop = @ - 1] /\ cl' = [cl EXCEPT !.stop = TRUE]
  /\ UNCHANGED <<mc, srv, net>>

\* The loop leaves: the supervisor is detached and every task of the connection cancelled.
Leaves(c) == [c EXCEPT !.pc = "down"]
Detached == IF mc.connected THEN DetachConnection(mc) ELSE mc

\* The connection's end, or a stop, is noticed where the loop awaits frames.
LoopEnds ==
  /\ ~net.alive \/ cl.stop
  /\ \/ cl.pc \in {"hello", "applied", "live"}
     \/ cl.stop /\ cl.pc = "install" /\ cl.upd.pc = "prepare"
  /\ cl' = Leaves(cl) /\ mc' = Forgotten(Detached)
  /\ net' = Silence(FALSE) /\ srv' = Offline(srv)
  /\ UNCHANGED mb

\* The rest of the teardown waits for the configuration task, which cannot be interrupted.
CancelledInstallEnds ==
  /\ cl.pc = "down" /\ cl.upd # NoUpd
  /\ cl' = [cl EXCEPT !.upd = NoUpd, !.policy = IF cl.upd.pc = "bind" THEN cl.upd.rev ELSE @]
  /\ UNCHANGED <<mc, mb, srv, net>>

TeardownEnds ==
  /\ cl.pc = "down" /\ cl.upd = NoUpd
  /\ mc' = Forgotten(DropInvocations(mc, {cl.queue[i] : i \in DOMAIN cl.queue}))
  /\ cl' = [cl EXCEPT !.pc = IF cl.stop \/ ~cl.ready THEN "stopping" ELSE "off",
                      !.queue = <<>>, !.work = 0, !.pend = NoUpd]
  /\ UNCHANGED <<mb, srv, net>>

\* An invocation outlives its connection; its answer is dropped and its lease is back.
LateInvocationEnds(c) ==
  /\ mc.inv[c].pc = "done" /\ cl.work # c
  /\ Becomes(DropInvocations(mc, {c}))
  /\ UNCHANGED <<cl, srv, net>>

StopsWhileOff ==
  /\ cl.pc = "off" /\ cl.stop
  /\ cl' = [cl EXCEPT !.pc = "stopping"]
  /\ UNCHANGED <<mc, mb, srv, net>>

ShutdownMcp ==
  /\ cl.pc = "stopping"
  /\ cl' = [cl EXCEPT !.pc = "exit"] /\ mc' = Forgotten(ShutdownBegins(mc))
  /\ UNCHANGED <<mb, srv, net>>

------------------------------------------------------------------------------
(* Handshake and configuration updates.                                     *)

\* A frame the Client does not accept here ends the connection.
ProtocolError ==
  /\ cl' = [Leaves(cl) EXCEPT !.err = TRUE] /\ mc' = Forgotten(Detached)
  /\ net' = Silence(FALSE) /\ srv' = Offline(srv)
  /\ UNCHANGED mb

Task(f, vid) == [rev |-> f.rev, cfg |-> f.cfg, vid |-> vid, pc |-> "prepare"]

RecvHelloAck ==
  /\ cl.pc = "hello" /\ Arrived.type = "hello_ack"
  /\ cl' = [cl EXCEPT !.pc = "install", !.upd = Task(Arrived, 0)]
  /\ net' = Received
  /\ UNCHANGED <<mc, mb, srv>>

\* The workspace is prepared in a thread; the frame loop goes on meanwhile.
ConfigPrepared ==
  /\ cl.pc \in {"install", "live"} /\ cl.upd.pc = "prepare"
  /\ cl' = [cl EXCEPT !.upd.pc = "bind"]
  /\ UNCHANGED <<mc, mb, srv, net>>

\* The exec policy is bound first, then the tools: the revision is applied.
ConfigInstalled ==
  LET u == cl.upd IN
  /\ cl.pc \in {"install", "live"} /\ u.pc = "bind"
  /\ IF cl.pc = "install" /\ cl.stop
     THEN /\ cl' = [Leaves(cl) EXCEPT !.policy = u.rev, !.upd = NoUpd]
          /\ net' = Silence(FALSE) /\ srv' = Offline(srv)
     ELSE /\ cl' = [cl EXCEPT !.policy = u.rev, !.active = u.rev, !.upd = NoUpd, !.pend = u,
                              !.pc = IF @ = "install" THEN "applied" ELSE @]
          /\ net' = Up([type |-> "applied", rev |-> u.rev]) /\ UNCHANGED srv
  /\ UNCHANGED <<mc, mb>>

\* The workspace cannot be prepared, or running sessions do not yield to the new policy.
ConfigFails ==
  /\ cl.pc \in {"install", "live"} /\ cl.upd # NoUpd /\ mb.faults > 0
  /\ mb' = [mb EXCEPT !.faults = @ - 1]
  /\ cl' = [Leaves(cl) EXCEPT !.upd = NoUpd] /\ mc' = Forgotten(Detached)
  /\ net' = Silence(FALSE) /\ srv' = Offline(srv)

\* config_applied_ack: the supervisor activates the revision before the loop reads on.
RecvAppliedAck ==
  /\ cl.pc \in {"applied", "live"} /\ cl.pend # NoUpd
  /\ Arrived.type = "applied_ack"
  /\ IF Arrived.rev # cl.pend.rev THEN ProtocolError
     ELSE /\ cl' = [cl EXCEPT !.pc = "activating", !.rev = cl.pend.rev]
          /\ mc' = Forgotten(ActivateAuthoritative(mc, cl.pend.rev, cl.pend.cfg, cl.pend.vid))
          /\ net' = Received /\ UNCHANGED <<mb, srv>>

Activated ==
  /\ cl.pc = "activating" /\ mc.act = NoAct
  /\ cl' = [cl EXCEPT !.pc = "live", !.pend = NoUpd, !.ready = TRUE]
  /\ mc' = IF mc.connected THEN mc ELSE AttachConnection(mc)
  /\ UNCHANGED <<mb, srv, net>>

RecvUpdate ==
  /\ cl.pc = "live" /\ cl.pend = NoUpd /\ Arrived.type = "update"
  /\ IF cl.upd # NoUpd \/ Arrived.rev <= cl.rev THEN ProtocolError
     ELSE /\ cl' = [cl EXCEPT !.upd = Task(Arrived, Arrived.vid)]
          /\ net' = Received /\ UNCHANGED <<mc, mb, srv>>

\* While an applied revision awaits its acknowledgement only registrations may be answered.
OutOfTurn ==
  LET expected == IF cl.pc = "live" /\ cl.pend = NoUpd
                  THEN {"validate", "cancel", "update", "reg_ack", "call"}
                  ELSE IF cl.pc = "live" THEN {"applied_ack", "reg_ack"}
                  ELSE IF cl.pc = "hello" THEN {"hello_ack"} ELSE {"applied_ack"} IN
  cl.pc \in {"hello", "applied", "live"} /\ Arrived.type \notin expected \cup {"none"}

------------------------------------------------------------------------------
(* MCP control frames and tool calls.                                       *)

Reading(type) == cl.pc = "live" /\ cl.pend = NoUpd /\ Arrived.type = type
Handled(m) == mc' = Forgotten(m) /\ net' = Received /\ UNCHANGED <<mb, cl, srv>>

RecvValidate ==
  /\ Reading("validate")
  /\ IF ValidationRefused(mc, Arrived.rev) THEN ProtocolError
     ELSE Handled(BeginValidation(mc, Arrived.id, Arrived.cfg))

RecvCancel ==
  /\ Reading("cancel")
  /\ IF UnknownValidation(mc, Arrived.id) THEN ProtocolError
     ELSE Handled(CancelValidation(mc, Arrived.id))

RecvRegisterAck ==
  /\ cl.pc = "live" /\ Arrived.type = "reg_ack"
  /\ IF AckRefused(mc, Arrived.rev, Arrived.gen) THEN ProtocolError
     ELSE Handled(AcceptRegistration(mc, Arrived.verdict))

SendRegistration ==
  /\ cl.pc = "live" /\ RegistrationDue(mc)
  /\ mc' = Registering(mc)
  /\ net' = Up([type |-> "register", rev |-> mc.rev, gen |-> Desired(mc).gen, st |-> Desired(mc).st])
  /\ UNCHANGED <<mb, cl, srv>>

\* A finished validation answers; a cancelled one does not.
SendValidation ==
  LET r == mc.val.rt
      answers(ok, m) == /\ mc' = Forgotten(m) /\ UNCHANGED <<mb, cl, srv>>
                        /\ net' = Up([type |-> "validated", id |-> mc.val.id, ok |-> ok]) IN
  /\ cl.pc = "live" /\ Validating(mc)
  /\ \/ r = 0 /\ CannotValidate(mc) /\ answers(FALSE, ValidationFailed(mc))
     \/ r # 0 /\ mc.rt[r].wait = {}
        /\ IF mc.rt[r].start = "connect" THEN answers(TRUE, ValidationPassed(mc))
           ELSE answers(FALSE, ValidationFailed(mc))

RecvCall ==
  /\ Reading("call")
  /\ IF Len(cl.queue) = ToolQueueMax
     THEN /\ net' = Replied([type |-> "result", id |-> Arrived.id])
          /\ UNCHANGED <<mc, mb, cl, srv>>
     ELSE /\ mc' = ReserveInvocation(mc, Arrived)
          /\ cl' = [cl EXCEPT !.queue = Append(@, Arrived.id)]
          /\ net' = Received /\ UNCHANGED <<mb, srv>>

\* The worker runs one call after the other, until the teardown of the connection stops it.
WorkerTakes ==
  /\ cl.work = 0 /\ cl.queue # <<>>
  /\ cl' = [cl EXCEPT !.work = Head(cl.queue), !.queue = Tail(@)]
  /\ mc' = Forgotten(InvokeStarted(mc, Head(cl.queue)))
  /\ UNCHANGED <<mb, srv, net>>

WorkerAnswers ==
  /\ cl.work # 0 /\ mc.inv[cl.work].pc = "done"
  /\ net' = IF net.alive THEN Up([type |-> "result", id |-> cl.work]) ELSE net
  /\ mc' = [mc EXCEPT !.inv[cl.work] = NoInv]
  /\ cl' = [cl EXCEPT !.work = 0]
  /\ UNCHANGED <<mb, srv>>

ReceiveFrame ==
  IF OutOfTurn THEN ProtocolError
  ELSE \/ RecvHelloAck \/ RecvAppliedAck \/ RecvUpdate
       \/ RecvValidate \/ RecvCancel \/ RecvRegisterAck \/ RecvCall

ClientStep ==
  \/ Connect \/ LoopEnds \/ CancelledInstallEnds \/ TeardownEnds \/ StopsWhileOff \/ ShutdownMcp
  \/ ReceiveFrame \/ ConfigPrepared \/ ConfigInstalled \/ Activated
  \/ SendRegistration \/ SendValidation \/ WorkerTakes \/ WorkerAnswers
  \/ \E c \in DOMAIN mc.inv : LateInvocationEnds(c)

ConnProgress ==
  \/ ClientStep \/ ServerStep
  \/ McpTask /\ UNCHANGED <<cl, srv, net>>

ConnNext ==
  \/ ConnProgress
  \/ ServerChoice \/ RequestShutdown \/ ConfigFails
  \/ McpFault /\ UNCHANGED <<cl, srv, net>>

\* The first revision is stored, with any configuration of the MCP server.
ConnInit ==
  /\ mb \in ConnBudgets
  /\ mc = McpIdle(1 .. mb.calls)
  /\ cl = [pc |-> "off", upd |-> NoUpd, pend |-> NoUpd, rev |-> 0, active |-> 0, policy |-> 0,
           ready |-> FALSE, stop |-> FALSE, queue |-> <<>>, work |-> 0, err |-> FALSE]
  /\ \E cfg \in {"none"} \cup Configs :
       srv = [rev |-> 1, cfg |-> cfg, conn |-> "off", inst |-> 0, infl |-> FALSE, patch |-> NoUpd,
              bind |-> NoReg, reg |-> NoReg, calls |-> {}, tombs |-> {}, err |-> FALSE]
  /\ net = Silence(FALSE)

------------------------------------------------------------------------------
(* Properties.                                                              *)

\* Client and Server never hold a frame of the other for a protocol violation: no
\* interleaving of validations, cancellations, updates, registrations, calls and
\* reconnects makes run_connection raise ProtocolError or _route_frames close the socket.
ProtocolClean == ~cl.err /\ ~srv.err

\* A Device the Server considers ready with no update in flight runs exactly the revision
\* the Server routes to: tools, exec policy and (once activated) the MCP supervisor agree.
ConfigAgreement ==
  srv.conn = "ready" /\ ~srv.infl /\ cl.pc \in {"applied", "activating", "live"} =>
    /\ cl.active = srv.inst /\ cl.policy = srv.inst
    /\ cl.pc = "live" /\ cl.pend = NoUpd => cl.rev = srv.inst /\ mc.rev = srv.inst

\* An MCP call reaches only the session it was routed to: the generation the Server bound,
\* started from the configuration that was installed when the Server sent the call.
RouteServed ==
  \A c \in DOMAIN mc.inv : mc.inv[c].pc = "sent" =>
    mc.rt[mc.inv[c].rt].gen = mc.inv[c].gen /\ mc.rt[mc.inv[c].rt].cfg = mc.inv[c].cfg

\* A runtime's lease count is the number of calls that hold it, whichever of the worker,
\* the invocation task and the teardown gives a lease back.
LeasesCounted ==
  \A r \in Rts : mc.rt[r].calls = Cardinality({c \in DOMAIN mc.inv : mc.inv[c].rt = r})

\* Every running server process belongs to the slot, to a candidate or to a task that
\* closes it, and after shutdown none runs except those whose cleanup is not confirmed.
ProcessOwned ==
  /\ \A r \in Rts : mc.rt[r].proc = "up" =>
       r \in {mc.slot, mc.cand.rt, mc.val.rt} \/ mc.rt[r].wait # {} \/ mc.rt[r].drain # "none"
  /\ mc.shut = "done" => \A r \in Rts : mc.rt[r].proc # "up" /\ (mc.rt[r].proc = "stuck" => r \in mc.blocked)

\* Client and Server agree: no frame is a protocol violation, the Device runs the
\* configuration the Server routes to, and a call reaches the session it was routed to.
Agreement == ProtocolClean /\ ConfigAgreement /\ RouteServed

\* No lease and no process of the MCP supervisor is without an owner.
RuntimesOwned == LeasesCounted /\ ProcessOwned

\* No server process is started for a command or address while another runtime of it
\* still waits for its cleanup to be confirmed.
NoReplacementWhileBlocked ==
  \A r \in Rts : mc.rt[r].proc # "up" /\ mc'.rt[r].proc = "up" =>
    BlockedSink(mc, mc'.rt[r].cfg, {r}) = {}

\* A runtime is declared drifted only for its catalog: an acknowledgement that merely
\* crossed a configuration update leaves it alone.
StaleAckIgnored ==
  \A r \in Rts : mc.rt[r].state # "drifted" /\ mc'.rt[r].state = "drifted" =>
    ~ (Arrived.type = "reg_ack" /\ Arrived.verdict = "stale" /\ net' = Received)

\* A runtime is replaced only after its cleanup, and given up only for its own fault.
ReplacedInTurn == [][NoReplacementWhileBlocked /\ StaleAckIgnored]_clvars

\* Nothing is left to do: the Client has exited, or is live on the stored revision with
\* its MCP server registered in the state it is in.
Settled ==
  \/ cl.pc = "exit" /\ mc.shut = "done"
  \/ /\ cl.pc = "live" /\ net = Silence(TRUE) /\ srv.patch = NoUpd /\ cl.rev = srv.rev
     /\ ~mc.dirty /\ mc.pend = NoReg /\ cl.queue = <<>> /\ cl.work = 0
     /\ mc.slot # 0 => mc.rt[mc.slot].state \in {"ready", "drifted", "blocked", "unavailable"}
     /\ (srv.bind # NoReg) = (mc.slot # 0 /\ mc.rt[mc.slot].state = "ready")
ConnUnfinished == ~Settled

=============================================================================
