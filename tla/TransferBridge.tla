---------------------------- MODULE TransferBridge ----------------------------
(***************************************************************************)
(* The server side of a transfer between two devices: the relay of         *)
(* server/devices/transfer_bridge.py.  Bytes go from device "src" through  *)
(* a bounded queue to device "dst"; whichever side fails first decides,    *)
(* and late or crossing terminals are matched against tombstones that are  *)
(* published before the bridge itself is gone.                             *)
(***************************************************************************)
EXTENDS TransferDirect

VARIABLE bs     \* the bridge slot with its two tombstones

NoTomb ==
    [on |-> FALSE, pinned |-> FALSE, exp |-> {}, failT |-> NoEnd, failI |-> FALSE,
     failed |-> FALSE, rdy |-> FALSE, seen |-> <<>>, res |-> "OPEN", toAck |-> FALSE,
     accLate |-> FALSE, succT |-> NoEnd, simAck |-> FALSE, late |-> NoEnd]

(* The futures and terminals of _BridgeSlot.  sX belongs to the source, dX *)
(* to the destination: FT failure terminal to send, FI it was issued, AckF *)
(* the acknowledgement future.  `res` is source_resolution.                *)
NoBridge ==
    [life |-> "none", st |-> "NEW", pc |-> "none", abort |-> FALSE, fenced |-> {},
     begun |-> "no", rdy |-> NoEnd, sEnd |-> NoEnd, drainF |-> NoEnd, dFail |-> NoEnd,
     auth |-> NoEnd, sFT |-> NoEnd, dFT |-> NoEnd, sFI |-> FALSE, dFI |-> FALSE,
     sIss |-> FALSE, dIss |-> FALSE, sRdy |-> FALSE, dTerm |-> FALSE, dAck |-> NoEnd,
     sAckF |-> NoEnd, dAckF |-> NoEnd, res |-> "OPEN", toAck |-> FALSE, q |-> <<>>,
     relayed |-> FALSE, body |-> <<>>, late |-> <<>>, lateS |-> NoEnd, credits |-> 0,
     tomb |-> [e \in Ends |-> NoTomb]]

BridgeInit == bs = NoBridge

BridgeStep == UNCHANGED <<cl, out, sv>>
BKeep == BridgeStep /\ UNCHANGED <<up, conn, disk>>

SetOf(fs) == fs \ {NoEnd}

(***************************************************************************)
(* Tombstones.                                                             *)
(***************************************************************************)
(* _bridge_tombstone_for *)
TombFor(b, e, pinned, error) ==
    LET failT == IF e = "src" THEN b.sFT ELSE b.dFT
        inbound == IF e = "src" THEN {b.sEnd, b.drainF} ELSE {b.dFail, b.dAck} IN
    [on |-> TRUE, pinned |-> pinned, failT |-> failT, seen |-> b.body \o b.late,
     exp |-> SetOf(inbound \cup {IF failT = NoEnd THEN NoEnd ELSE AckOf(failT)}),
     failI |-> IF e = "src" THEN b.sFI ELSE b.dFI,
     failed |-> ~b.dTerm /\ (error \/ b.sFT # NoEnd \/ b.dFT # NoEnd),
     rdy |-> b.sRdy, res |-> IF e = "src" THEN b.res ELSE "OPEN", toAck |-> b.toAck,
     accLate |-> e = "dst" /\ b.dTerm /\ b.dAck = NoEnd /\ b.res = "TIMEOUT_ACK",
     succT |-> IF e = "dst" /\ b.sEnd # NoEnd /\ b.sEnd.ok THEN b.sEnd ELSE NoEnd,
     simAck |-> FALSE, late |-> IF e = "src" THEN b.lateS ELSE NoEnd]

Issued(b) == {e \in Ends : IF e = "src" THEN b.sIss ELSE b.dIss}

(* _publish_bridge_tombstones: one reserved credit per issued endpoint, the *)
(* rest are given back.                                                    *)
Published(b) ==
    IF b.tomb["src"].on THEN b
    ELSE [b EXCEPT !.credits = 0,
            !.tomb = [e \in Ends |-> IF e \in Issued(b) THEN TombFor(b, e, TRUE, FALSE) ELSE NoTomb]]

(* _finalize_bridge_tombstones_locked *)
Finalized(b, error) ==
    [e \in Ends |->
       LET old == b.tomb[e]  new == TombFor(b, e, FALSE, error) IN
       IF ~old.on THEN old
       ELSE [new EXCEPT !.failI = @ \/ old.failI, !.toAck = @ \/ old.toAck,
                        !.simAck = old.simAck,
                        !.late = IF old.late # NoEnd THEN old.late ELSE @,
                        !.seen = IF old.failed /\ new.failed /\ Len(old.seen) >= Len(@)
                                 THEN old.seen ELSE @]]

(* _finish_bridge_once *)
FinishBridge(b, outcome) ==
    LET p == Published(b) IN
    /\ bs' = [p EXCEPT !.life = "done", !.pc = "none", !.q = <<>>, !.abort = TRUE,
                       !.tomb = Finalized(p, outcome # "ok")]
    /\ Tell(outcome)

(* _send_bridge_failure_once *)
FailTo(b, e) ==
    IF conn[e] # "up" THEN b
    ELSE IF e = "src" THEN [b EXCEPT !.sFI = TRUE] ELSE [b EXCEPT !.dFI = TRUE]
FailFrame(b, d, e) ==
    LET f == IF e = "src" THEN b.sFT ELSE b.dFT
        done == IF e = "src" THEN b.sFI ELSE b.dFI IN
    IF f = NoEnd \/ done THEN d ELSE Post(d, e, f)

(***************************************************************************)
(* _abort_bridge_once.                                                     *)
(***************************************************************************)
(* After the destination got the success terminal: its acknowledgement, if *)
(* any, is the outcome; otherwise the outcome is unknown.                  *)
AbortAfterTerminal(b) ==
    LET r == [b EXCEPT !.res = IF @ = "OPEN" THEN "TIMEOUT_ACK" ELSE @, !.st = "OUTCOME_UNKNOWN"] IN
    /\ FinishBridge(r, IF b.dAck = NoEnd THEN "unknown"
                       ELSE IF b.dAck.ok THEN "ok" ELSE OutcomeOf(b.dAck.code))
    /\ UNCHANGED down

(* A peer's own failure is authoritative: pass it to the other side and    *)
(* acknowledge it.                                                         *)
AbortAuthoritative(b) ==
    LET from == IF b.dFail = b.auth THEN "dst" ELSE "src"
        to == IF from = "dst" THEN "src" ELSE "dst"
        tell == to \in Issued(b)
        p == Published(b) IN
    /\ down' = Post(IF tell THEN FailFrame(p, down, to) ELSE down, from, AckOf(b.auth))
    /\ FinishBridge([(IF tell THEN FailTo(p, to) ELSE p) EXCEPT !.st = "ABORTED"],
                    OutcomeOf(b.auth.code))

(* Otherwise both sides get a failure terminal.  A timeout is only         *)
(* reported as one when both acknowledge (AbortAcked).                     *)
AbortBoth(b, code) ==
    LET t == Failure(code)
        n == Published([b EXCEPT !.st = "ABORTING", !.abort = TRUE,
                                 !.sFT = IF b.sIss THEN t ELSE @, !.dFT = IF b.dIss THEN t ELSE @])
        d == FailFrame(n, FailFrame(n, down, "src"), "dst")
        m == FailTo(IF b.sIss THEN FailTo(n, "src") ELSE n, IF b.dIss THEN "dst" ELSE "src") IN
    /\ down' = d
    /\ IF code = "timeout" /\ \A e \in Issued(b) : conn[e] = "up"
       THEN bs' = [m EXCEPT !.pc = "abortAck"] /\ UNCHANGED job
       ELSE FinishBridge([m EXCEPT !.st = "ABORTED"],
                         IF code = "timeout" THEN "unknown" ELSE OutcomeOf(code))

AbortBridge(b, code) ==
    IF b.dTerm THEN AbortAfterTerminal(b)
    ELSE IF b.auth # NoEnd THEN AbortAuthoritative(b)
    ELSE AbortBoth(b, code)

(* _send_bridge_abort_and_wait_for_acks: all the acknowledgements, or the  *)
(* idle timeout.                                                           *)
AbortAcked ==
    /\ bs.pc = "abortAck" /\ BKeep /\ UNCHANGED down
    /\ LET all == (bs.sIss => bs.sAckF # NoEnd) /\ (bs.dIss => bs.dAckF # NoEnd) IN
       \/ all /\ NoFault /\ FinishBridge([bs EXCEPT !.st = "ABORTED"], "timeout")
       \/ /\ ~all /\ FinishBridge([bs EXCEPT !.st = "ABORTED"], "unknown")
          /\ Expires(Issued(bs))

(***************************************************************************)
(* The worker, _run_bridge.                                                *)
(***************************************************************************)
(* start_client_to_client: current routes, two tombstone credits, request. *)
StartBridge ==
    /\ job.route = "relay" /\ bs.life = "none" /\ BKeep /\ NoFault
    /\ IF \A e \in Ends : conn[e] = "up"
       THEN /\ bs' = [NoBridge EXCEPT !.life = "slot", !.credits = 2, !.sIss = TRUE,
                                      !.st = "SOURCE_REQUESTED", !.pc = "waitBegin"]
            /\ down' = Post(down, "src", Plain("request", <<>>))
            /\ UNCHANGED job
       ELSE bs' = [NoBridge EXCEPT !.life = "done"] /\ Tell("failed") /\ UNCHANGED down

BridgeBegun ==
    /\ bs.pc = "waitBegin" /\ bs.begun # "no" /\ BKeep /\ NoFault
    /\ IF bs.begun = "changed" THEN AbortBridge(bs, "rejected")
       ELSE IF conn["dst"] # "up" THEN AbortBridge(bs, "lost")
       ELSE /\ down' = Post(down, "dst", Plain("begin", <<0>>))
            /\ bs' = [bs EXCEPT !.dIss = TRUE, !.st = "DESTINATION_BEGUN", !.pc = "waitReady"]
            /\ UNCHANGED job

(* _resolve_bridge_destination_rejection: the source is told first, the    *)
(* destination gets the source's acknowledgement.                          *)
ResolveRejection(failure) ==
    LET p == Published([bs EXCEPT !.sFT = failure]) IN
    /\ down' = FailFrame(p, down, "src")
    /\ IF conn["src"] = "up" THEN bs' = [FailTo(p, "src") EXCEPT !.pc = "rejAck"] /\ UNCHANGED job
       ELSE FinishBridge(p, OutcomeOf(failure.code))

(* _resolve_bridge_source_failure *)
ResolveSourceFailure(failure) ==
    LET p == Published([bs EXCEPT !.dFT = failure]) IN
    /\ down' = FailFrame(p, down, "dst")
    /\ IF conn["dst"] = "up" THEN bs' = [FailTo(p, "dst") EXCEPT !.pc = "failAck"] /\ UNCHANGED job
       ELSE FinishBridge(p, OutcomeOf(failure.code))

ResolutionAcked ==
    /\ bs.pc \in {"rejAck", "failAck"} /\ BKeep
    /\ LET rej == bs.pc = "rejAck"
           ack == IF rej THEN bs.sAckF ELSE bs.dAckF
           failure == IF rej THEN bs.sFT ELSE bs.dFT IN
       /\ \/ /\ ack # NoEnd /\ NoFault
             /\ down' = Post(down, IF rej THEN "dst" ELSE "src", ack)
          \/ ack = NoEnd /\ Expires({IF rej THEN "src" ELSE "dst"}) /\ UNCHANGED down
       /\ FinishBridge(bs, OutcomeOf(failure.code))

BridgeReady ==
    /\ bs.pc = "waitReady" /\ BKeep /\ NoFault
    /\ \/ /\ bs.rdy # NoEnd
          /\ IF bs.dFail # NoEnd THEN ResolveRejection(bs.dFail)
             ELSE IF conn["src"] # "up" THEN AbortBridge(bs, "lost")
             ELSE /\ down' = Post(down, "src", Plain("ready", <<>>))
                  /\ bs' = [bs EXCEPT !.sRdy = TRUE, !.pc = "waitEnd",
                                      !.st = IF bs.abort THEN @ ELSE "READY"]
                  /\ UNCHANGED job
       \/ bs.rdy = NoEnd /\ bs.sEnd # NoEnd /\ ResolveSourceFailure(bs.sEnd)

BridgeEnded ==
    /\ bs.pc = "waitEnd" /\ BKeep /\ NoFault
    /\ \/ /\ bs.sEnd # NoEnd
          /\ IF bs.sEnd.ok THEN bs' = [bs EXCEPT !.pc = "drain"] /\ UNCHANGED <<job, down>>
             ELSE ResolveSourceFailure(bs.sEnd)
       \/ bs.sEnd = NoEnd /\ bs.dFail # NoEnd /\ ResolveRejection(bs.dFail)

(* The queue is drained before the success terminal goes to the            *)
(* destination; from then on its answer decides.                           *)
BridgeDrained ==
    /\ bs.pc = "drain" /\ BKeep /\ NoFault
    /\ \/ bs.drainF # NoEnd /\ ResolveSourceFailure(bs.drainF)
       \/ bs.drainF = NoEnd /\ bs.dFail # NoEnd /\ ResolveRejection(bs.dFail)
       \/ /\ bs.drainF = NoEnd /\ bs.dFail = NoEnd /\ bs.relayed
          /\ IF conn["dst"] # "up" THEN AbortBridge(bs, "lost")
             ELSE /\ down' = Post(down, "dst", bs.sEnd)
                  /\ bs' = [bs EXCEPT !.dTerm = TRUE, !.pc = "waitAck", !.st = "SOURCE_ENDED"]
                  /\ UNCHANGED job

BridgeRelay ==
    /\ bs.pc \in {"waitEnd", "drain"} /\ bs.q # <<>> /\ conn["dst"] = "up"
    /\ bs.drainF = NoEnd /\ bs.dFail = NoEnd
    /\ IF Head(bs.q) = Eof THEN UNCHANGED down
       ELSE down' = Post(down, "dst", Plain("chunk", <<Head(bs.q)>>))
    /\ bs' = [bs EXCEPT !.q = Tail(@), !.relayed = Head(bs.q) = Eof]
    /\ BKeep /\ NoFault /\ UNCHANGED job

BridgeTimeout ==
    /\ \/ bs.pc = "waitBegin" /\ bs.begun = "no"
       \/ bs.pc = "waitReady" /\ bs.rdy = NoEnd /\ bs.sEnd = NoEnd
       \/ bs.pc = "waitEnd" /\ bs.sEnd = NoEnd /\ bs.dFail = NoEnd
       \/ bs.pc = "drain" /\ bs.drainF = NoEnd /\ bs.dFail = NoEnd /\ ~bs.relayed
       \/ bs.pc = "waitAck" /\ bs.dAckF = NoEnd
    /\ Expires(Ends)
    /\ BKeep /\ AbortBridge(bs, "timeout")

(* The source gets the destination's acknowledgement unless it already got *)
(* the acknowledgement of its own timeout.                                 *)
BridgeAcked ==
    /\ bs.pc = "waitAck" /\ bs.dAckF # NoEnd /\ BKeep /\ NoFault
    /\ LET a == bs.dAckF
           r == [bs EXCEPT !.res = IF @ = "OPEN" THEN "DESTINATION_ACK" ELSE @] IN
       IF r.res # "DESTINATION_ACK"
       THEN FinishBridge(r, IF a.ok THEN "ok" ELSE OutcomeOf(a.code)) /\ UNCHANGED down
       ELSE /\ down' = Post(down, "src", a)
            /\ IF ~a.ok THEN FinishBridge([r EXCEPT !.st = "DESTINATION_FAILED"], OutcomeOf(a.code))
               ELSE IF conn["src"] = "up" /\ job.mode = "move"
               THEN bs' = [r EXCEPT !.st = "DESTINATION_COMMITTED", !.pc = "delete"] /\ UNCHANGED job
               ELSE FinishBridge([r EXCEPT !.st = "COMPLETED"], "ok")

BridgeDelete ==
    /\ bs.pc = "delete" /\ BridgeStep /\ UNCHANGED <<up, down, conn>>
    /\ \/ /\ disk.src = 0 /\ conn["src"] = "up" /\ ~cl["src"].lock /\ NoFault
          /\ disk' = [disk EXCEPT !.gone = TRUE]
       \/ (disk.src # 0 \/ conn["src"] # "up") /\ NoFault /\ UNCHANGED disk
       \/ Fault /\ UNCHANGED disk
    /\ FinishBridge([bs EXCEPT !.st = "COMPLETED"], "ok")

(***************************************************************************)
(* Frames and chunks of the two devices.                                   *)
(***************************************************************************)
BridgeBlocked == Len(bs.q) > LaneMax /\ ~bs.abort
BGets(e, t) ==
    /\ job.route = "relay" /\ Gets(e, t) /\ NoFault
    /\ e = "src" => ~BridgeBlocked
BError(e) ==
    /\ conn' = [conn EXCEPT ![e] = "error"]
    /\ UNCHANGED <<bs, down, job>>
BTakes(b) == bs' = b /\ UNCHANGED <<conn, down, job>>

LiveFor(e) == bs.life = "slot" /\ ~bs.tomb[e].on

BridgeHandleBegin ==
    /\ BGets("src", "begin") /\ UNCHANGED sv
    /\ IF LiveFor("src") /\ bs.st = "SOURCE_REQUESTED"
       THEN BTakes([bs EXCEPT !.st = "SOURCE_BEGUN",
                      !.begun = IF Head(up["src"]).body = <<0>> THEN "ok" ELSE "changed"])
       ELSE BError("src")

BridgeHandleReady ==
    /\ BGets("dst", "ready") /\ UNCHANGED sv
    /\ IF LiveFor("dst") /\ bs.st = "DESTINATION_BEGUN" /\ bs.rdy = NoEnd
       THEN BTakes([bs EXCEPT !.rdy = Plain("ready", <<>>)])
       ELSE BError("dst")

(* _handle_bridge_binary and _handle_bridge_tombstone_binary: an aborting  *)
(* or failed bridge counts the chunks still on their way.                  *)
BridgeHandleBinary ==
    LET v == Head(up["src"]).body[1]  t == bs.tomb["src"] IN
    /\ BGets("src", "chunk") /\ UNCHANGED sv
    /\ IF t.on
       THEN IF t.failed /\ (t.rdy \/ (t.pinned /\ bs.sRdy)) /\ Len(t.seen) < Chunks
            THEN BTakes([bs EXCEPT !.tomb["src"].seen = Append(@, v)])
            ELSE BError("src")
       ELSE IF bs.abort
       THEN IF bs.sRdy /\ Len(bs.body \o bs.late) < Chunks
            THEN BTakes([bs EXCEPT !.late = Append(@, v)])
            ELSE BError("src")
       ELSE IF LiveFor("src") /\ bs.st \in {"READY", "STREAMING"} /\ Len(bs.body) < Chunks
       THEN BTakes([bs EXCEPT !.st = "STREAMING", !.body = Append(@, v), !.q = Append(@, v)])
       ELSE BError("src")

BridgeStalled ==
    /\ BridgeBlocked /\ bs.life = "slot" /\ conn["src"] = "up" /\ Fault
    /\ conn' = [conn EXCEPT !["src"] = "error"]
    /\ bs' = [bs EXCEPT !.q = SubSeq(@, 1, LaneMax)]
    /\ UNCHANGED <<cl, out, up, down, disk, sv, job>>

(* _handle_bridge_tombstone_frame *)
TombEnd(e, f) ==
    LET t == bs.tomb[e]
        issued == t.failI \/ (t.pinned /\ (IF e = "src" THEN bs.sFI ELSE bs.dFI))
        future(b, a) == IF ~t.pinned THEN b
                        ELSE IF e = "src" THEN [b EXCEPT !.sAckF = IF @ = NoEnd THEN a ELSE @]
                        ELSE [b EXCEPT !.dAckF = IF @ = NoEnd THEN a ELSE @]
        answer(b) == bs' = b /\ down' = Post(down, e, AckOf(f)) /\ UNCHANGED <<conn, job>> IN
    IF f \in t.exp
    THEN IF f.ack /\ t.failT # NoEnd /\ f = AckOf(t.failT) /\ ~issued THEN BError(e)
         ELSE BTakes(IF f.ack THEN future(bs, f) ELSE bs)
    ELSE IF e = "src" /\ SenderTimedOut(f) /\ t.res = "DESTINATION_ACK" THEN BTakes(bs)
    ELSE IF e = "src" /\ SenderTimedOut(f) /\ t.res = "TIMEOUT_ACK"
    THEN IF t.toAck THEN BTakes(bs) ELSE answer([bs EXCEPT !.tomb["src"].toAck = TRUE])
    ELSE IF t.failed /\ t.failT # NoEnd /\ f = t.failT
    THEN IF t.simAck THEN BTakes(bs)
         ELSE answer(future([bs EXCEPT !.tomb[e].simAck = TRUE], AckOf(f)))
    ELSE IF \/ e = "src" /\ t.failed /\ t.rdy /\ ~f.ack /\ f.ok /\ f.body = t.seen
            \/ /\ e = "dst" /\ t.accLate /\ t.succT # NoEnd /\ f.ack
               /\ ~f.ok \/ f.body = t.succT.body
    THEN IF t.late \in {NoEnd, f} THEN BTakes([bs EXCEPT !.tomb[e].late = f]) ELSE BError(e)
    ELSE BError(e)

(* _resolve_bridge_source_timeout: the source is acknowledged exactly once. *)
SourceTimeout(f) ==
    IF bs.res = "DESTINATION_ACK" \/ bs.toAck THEN BTakes(bs)
    ELSE /\ bs' = [bs EXCEPT !.res = "TIMEOUT_ACK", !.toAck = TRUE]
         /\ down' = Post(down, "src", AckOf(f)) /\ UNCHANGED <<conn, job>>

(* _handle_bridge_source_end.  A failure before the destination was begun  *)
(* cancels the worker.                                                     *)
LiveSourceEnd(f) ==
    IF f.ack
    THEN IF bs.sFT # NoEnd /\ f = AckOf(bs.sFT) /\ bs.sAckF = NoEnd
         THEN BTakes([bs EXCEPT !.sAckF = f]) ELSE BError("src")
    ELSE IF bs.abort /\ bs.sEnd = NoEnd /\ bs.sRdy /\ ~bs.dTerm /\ f.ok
    THEN IF f.body = bs.body \o bs.late THEN BTakes([bs EXCEPT !.lateS = f]) ELSE BError("src")
    ELSE IF bs.dTerm /\ SenderTimedOut(f) THEN SourceTimeout(f)
    ELSE IF SenderTimedOut(f) /\ bs.sEnd # NoEnd /\ bs.sEnd.ok /\ bs.st = "SOURCE_ENDED"
    THEN IF bs.drainF # NoEnd THEN BError("src")
         ELSE BTakes(Published([bs EXCEPT !.drainF = f, !.auth = f, !.abort = TRUE,
                                          !.dFT = IF bs.dIss THEN f ELSE @]))
    ELSE IF f.ok
    THEN IF bs.st \in {"READY", "STREAMING"} /\ bs.sEnd = NoEnd /\ f.body = bs.body
         THEN BTakes([bs EXCEPT !.sEnd = f, !.st = "SOURCE_ENDED",
                                !.q = IF bs.abort THEN @ ELSE Append(@, Eof)])
         ELSE BError("src")
    ELSE IF /\ bs.sEnd = NoEnd
            /\ bs.st \in {"SOURCE_REQUESTED", "SOURCE_BEGUN", "DESTINATION_BEGUN", "READY",
                          "STREAMING"}
    THEN BTakes(Published([bs EXCEPT !.sEnd = f, !.auth = f, !.abort = TRUE,
                             !.st = "SOURCE_ENDED", !.dFT = IF bs.dIss THEN f ELSE @,
                             !.pc = IF bs.dIss THEN @ ELSE "cancelled"]))
    ELSE BError("src")

(* _handle_bridge_destination_end *)
LiveDestinationEnd(f) ==
    IF ~f.ack
    THEN IF /\ ~f.ok /\ bs.dFail = NoEnd
            /\ bs.st \in {"DESTINATION_BEGUN", "READY", "STREAMING", "SOURCE_ENDED"}
         THEN BTakes(Published([bs EXCEPT !.dFail = f, !.auth = f, !.sFT = f, !.abort = TRUE,
                !.rdy = IF bs.st = "DESTINATION_BEGUN" /\ @ = NoEnd THEN f ELSE @]))
         ELSE BError("dst")
    ELSE IF bs.dFT # NoEnd /\ ~bs.dTerm
    THEN IF f = AckOf(bs.dFT) /\ bs.dAckF = NoEnd
         THEN BTakes([bs EXCEPT !.dAck = f, !.dAckF = f]) ELSE BError("dst")
    ELSE IF bs.dTerm /\ bs.dAck = NoEnd /\ (f.ok => f.body = bs.body)
    THEN BTakes([bs EXCEPT !.dAck = f, !.dAckF = f,
                           !.res = IF @ = "OPEN" THEN "DESTINATION_ACK" ELSE @])
    ELSE BError("dst")

BridgeHandleEnd(e) ==
    LET f == Head(up[e]) IN
    /\ BGets(e, "end") /\ UNCHANGED sv
    /\ IF bs.tomb[e].on THEN TombEnd(e, f)
       ELSE IF bs.life # "slot" THEN BError(e)
       ELSE IF e = "src" THEN LiveSourceEnd(f) ELSE LiveDestinationEnd(f)

(***************************************************************************)
(* fence, disconnect, the cancelled worker and the cancelled caller.       *)
(***************************************************************************)
(* Once the destination has the terminal the worker is left alone; a       *)
(* worker that is resolving a failure still reports that failure.          *)
BridgeFence(e) ==
    /\ job.route = "relay" /\ bs.life = "slot" /\ conn[e] # "up" /\ e \notin bs.fenced /\ NoFault
    /\ LET b == [bs EXCEPT !.fenced = @ \cup {e}, !.abort = TRUE] IN
       IF b.dTerm \/ b.pc \in {"abortAck", "cancelled"} THEN bs' = b /\ UNCHANGED job
       ELSE IF b.pc \in {"rejAck", "failAck"}
       THEN FinishBridge(b, OutcomeOf(IF b.pc = "rejAck" THEN b.sFT.code ELSE b.dFT.code))
       ELSE bs' = [b EXCEPT !.pc = "cancelled"] /\ UNCHANGED job
    /\ BKeep /\ UNCHANGED down

BridgeCancelled ==
    /\ bs.pc = "cancelled" /\ BKeep /\ NoFault
    /\ AbortBridge(bs, "lost")

(* start_client_to_client's CancelledError: an issued destination terminal *)
(* is waited for.                                                          *)
BridgeCancelCaller ==
    /\ job.route = "relay" /\ bs.life = "slot" /\ job.told = "none" /\ ~job.cancelled
    /\ bs.pc \notin {"cancelled", "abortAck"} /\ Fault /\ BKeep
    /\ IF bs.dTerm
       THEN job' = [job EXCEPT !.cancelled = TRUE] /\ UNCHANGED <<bs, down>>
       ELSE AbortBridge(bs, "cancelled")

BridgeSteps ==
    \/ StartBridge \/ BridgeBegun \/ BridgeReady \/ BridgeEnded \/ BridgeDrained \/ BridgeRelay
    \/ BridgeTimeout \/ BridgeAcked \/ BridgeDelete \/ ResolutionAcked \/ AbortAcked
    \/ BridgeHandleBegin \/ BridgeHandleReady \/ BridgeHandleBinary \/ BridgeStalled
    \/ \E e \in Ends : BridgeHandleEnd(e) \/ BridgeFence(e)
    \/ BridgeCancelled

===============================================================================
