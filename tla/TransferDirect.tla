---------------------------- MODULE TransferDirect ----------------------------
(***************************************************************************)
(* The server side of a transfer between the server and one device:        *)
(* TransferManager of server/devices/transfer.py.  A "push" sends a server *)
(* file to the device endpoint "dst"; a "pull" asks the device endpoint    *)
(* "src" for a file and commits it to object storage.                      *)
(***************************************************************************)
EXTENDS TransferClient

VARIABLES
    sv,     \* the server's slot, later its tombstone
    job     \* the caller: route, mode, operation lease and what it was told


Peer == IF job.route = "push" THEN "dst" ELSE "src"

(* `pc` is the slot's worker; `want` is the terminal_ack a tombstone       *)
(* expects, `held` how a commit is being cancelled while an abort waits.    *)
NoServerSlot ==
    [life |-> "none", st |-> "none", pc |-> "none", end |-> NoEnd, ackF |-> NoEnd,
     want |-> NoEnd, committed |-> FALSE, acked |-> FALSE, ver |-> 0, q |-> <<>>,
     body |-> <<>>, seen |-> 0, held |-> "none"]

DirectInit == sv = NoServerSlot

(* send_transfer_text / send_binary succeed while the connection is up.    *)
Post(d, e, f) == IF conn[e] = "up" THEN [d EXCEPT ![e] = Append(@, f)] ELSE d

(* The caller's outcome for an error code.                                 *)
OutcomeOf(code) ==
    CASE code = "timeout" -> "timeout"
      [] code = "cancelled" -> "cancelled"
      [] code = "lost" -> "unknown"
      [] OTHER -> "failed"

Tell(outcome) == job' = [job EXCEPT !.told = outcome, !.lease = FALSE]

(* _abort of an uncommitted slot, _cleanup included: the slot is replaced  *)
(* by a tombstone, an unfinished sink is discarded, the caller is told.    *)
Aborted(s, code, frame) ==
    [s EXCEPT !.life = "tomb", !.st = "ABORTED", !.pc = "none", !.q = <<>>, !.held = "none",
              !.want = IF frame THEN AckOf(Failure(code)) ELSE @]

AbortWith(s, code, frame) ==
    /\ sv' = Aborted(s, code, frame)
    /\ Tell(OutcomeOf(code))

(* _abort from outside the worker: a running commit is waited for, a       *)
(* committed slot is left to its worker.                                   *)
AbortFromOutside(s, code, frame, d) ==
    IF s.committed THEN sv' = s /\ UNCHANGED job /\ down' = d
    ELSE IF s.pc = "commit"
    THEN /\ sv' = [s EXCEPT !.held = IF code = "lost" THEN "lost" ELSE "cancelled"]
         /\ UNCHANGED job /\ down' = d
    ELSE AbortWith(s, code, frame) /\ down' = IF frame THEN Post(d, Peer, Failure(code)) ELSE d

(* _abort from the worker itself; a cancelled caller has been waiting.     *)
WorkerFails(code, frame) ==
    /\ AbortWith(sv, code, frame)
    /\ down' = IF frame THEN Post(down, Peer, Failure(code)) ELSE down

(* _finish: _cleanup keeps a tombstone, the caller gets the result.        *)
Finished(s) ==
    /\ sv' = [s EXCEPT !.life = "tomb", !.st = "COMMITTED", !.pc = "none"]
    /\ Tell("ok")

ServerStep == UNCHANGED <<cl, out, conn>>
Quiet == UNCHANGED <<up, down, disk>>

(***************************************************************************)
(* Push: start_server_to_client and _send_server_source.                   *)
(***************************************************************************)
StartPush ==
    /\ job.route = "push" /\ sv.life = "none"
    /\ sv' = [NoServerSlot EXCEPT !.life = "slot", !.st = "BEGUN", !.pc = "source"]
    /\ ServerStep /\ Quiet /\ NoFault /\ UNCHANGED job

(* _prepare_source, then the begin frame.  A source that changed since it  *)
(* was probed, or fails to open, ends the slot before anything was sent.   *)
PrepareSource ==
    /\ sv.pc = "source" /\ ServerStep /\ UNCHANGED <<up, disk>>
    /\ \/ /\ disk.src = 0 /\ conn["dst"] = "up" /\ NoFault
          /\ down' = Post(down, "dst", Plain("begin", <<0>>))
          /\ sv' = [sv EXCEPT !.pc = "waitReady"]
          /\ UNCHANGED job
       \/ /\ disk.src # 0 \/ conn["dst"] # "up"
          /\ NoFault /\ AbortWith(sv, "rejected", FALSE) /\ UNCHANGED down
       \/ Fault /\ AbortWith(sv, "rejected", FALSE) /\ UNCHANGED down

SendSource ==
    /\ job.route = "push" /\ sv.pc = "waitReady" /\ sv.st \in {"READY", "STREAMING"}
    /\ ServerStep /\ NoFault /\ UNCHANGED <<up, disk>>
    /\ IF conn["dst"] # "up" THEN WorkerFails("lost", TRUE)
       ELSE IF Len(sv.body) < Chunks
       THEN /\ down' = Post(down, "dst", Plain("chunk", <<0>>))
            /\ sv' = [sv EXCEPT !.body = Append(@, 0), !.st = "STREAMING"]
            /\ UNCHANGED job
       ELSE /\ down' = Post(down, "dst", End(FALSE, TRUE, "none", sv.body))
            /\ sv' = [sv EXCEPT !.st = "SENDER_ENDED", !.pc = "waitAck"]
            /\ UNCHANGED job

PushAcked ==
    /\ job.route = "push" /\ sv.pc = "waitAck" /\ sv.ackF # NoEnd
    /\ ServerStep /\ NoFault /\ UNCHANGED <<up, disk>>
    /\ IF sv.ackF.ok /\ sv.ackF.body = sv.body
       THEN /\ sv' = [sv EXCEPT !.committed = TRUE, !.acked = TRUE, !.st = "COMMITTED",
                                !.pc = "delete", !.want = sv.ackF]
            /\ UNCHANGED <<job, down>>
       ELSE /\ sv' = Aborted([sv EXCEPT !.want = sv.ackF], sv.ackF.code, FALSE)
            /\ Tell(OutcomeOf(sv.ackF.code)) /\ UNCHANGED down

PushFails ==
    /\ job.route = "push" /\ ServerStep /\ UNCHANGED <<up, disk>>
    /\ \/ /\ (sv.pc = "waitReady" /\ sv.st = "BEGUN") \/ (sv.pc = "waitAck" /\ sv.ackF = NoEnd)
          /\ Expires({"dst"}) /\ WorkerFails("timeout", TRUE)
       \/ sv.pc = "waitReady" /\ sv.st = "STREAMING" /\ Fault /\ WorkerFails("rejected", TRUE)

(***************************************************************************)
(* Pull: start_client_to_server and _consume_client_source.                *)
(***************************************************************************)
StartPull ==
    /\ job.route = "pull" /\ sv.life = "none" /\ ServerStep /\ NoFault /\ UNCHANGED <<up, disk>>
    /\ IF conn["src"] = "up"
       THEN /\ down' = Post(down, "src", Plain("request", <<>>))
            /\ sv' = [NoServerSlot EXCEPT !.life = "slot", !.st = "REQUESTED"]
            /\ UNCHANGED job
       ELSE AbortWith(NoServerSlot, "rejected", TRUE) /\ UNCHANGED down

(* The sink is reserved outside object storage's visible names.            *)
PrepareSink ==
    /\ sv.pc = "sink" /\ ServerStep /\ UNCHANGED <<up, disk>>
    /\ \/ /\ sv.ver = 0 /\ conn["src"] = "up" /\ NoFault
          /\ down' = Post(down, "src", Plain("ready", <<>>))
          /\ sv' = [sv EXCEPT !.st = "READY", !.pc = "recv"]
          /\ UNCHANGED job
       \/ sv.ver = 0 /\ conn["src"] # "up" /\ NoFault /\ WorkerFails("lost", FALSE)
       \/ sv.ver # 0 /\ NoFault /\ WorkerFails("integrity", TRUE)
       \/ Fault /\ \E code \in {"rejected", "timeout"} : WorkerFails(code, TRUE)

ConsumeChunk ==
    /\ sv.pc = "recv" /\ sv.q # <<>> /\ Head(sv.q) # Eof
    /\ sv' = [sv EXCEPT !.q = Tail(@), !.body = Append(@, Head(sv.q))]
    /\ ServerStep /\ Quiet /\ NoFault /\ UNCHANGED job

(* The worker failed: an ended sender gets its acknowledgement, a running  *)
(* one a failure terminal.                                                 *)
ConsumeFails(code) ==
    IF sv.end # NoEnd
    THEN /\ AbortWith(sv, code, FALSE)
         /\ down' = Post(down, "src", End(TRUE, FALSE, code, <<>>))
    ELSE WorkerFails(code, TRUE)

ConsumeEof ==
    /\ sv.pc = "recv" /\ sv.q # <<>> /\ Head(sv.q) = Eof
    /\ ServerStep /\ NoFault /\ UNCHANGED <<up, disk>>
    /\ IF sv.end.body = sv.body /\ Len(sv.body) = Chunks
       THEN sv' = [sv EXCEPT !.pc = "commit", !.q = <<>>] /\ UNCHANGED <<job, down>>
       ELSE ConsumeFails("integrity")

ConsumeStops ==
    /\ sv.pc = "recv" /\ ServerStep /\ UNCHANGED <<up, disk>>
    /\ \/ Fault /\ ConsumeFails("rejected")
       \/ sv.q = <<>> /\ Expires({"src"}) /\ ConsumeFails("timeout")

(* commit_sink (external storage) publishes the object, whole, or fails;   *)
(* a cancelled one may still succeed, and then the commit stands.          *)
CommitSink ==
    /\ sv.pc = "commit" /\ ServerStep /\ UNCHANGED up
    /\ \/ /\ disk' = [disk EXCEPT !.dst = sv.body] /\ NoFault
          /\ sv' = [sv EXCEPT !.committed = TRUE, !.pc = "ack", !.held = "none"]
          /\ UNCHANGED <<job, down>>
       \/ Fault /\ UNCHANGED disk /\ \E code \in {"rejected", "timeout"} : ConsumeFails(code)
       \/ sv.held # "none" /\ NoFault /\ WorkerFails(sv.held, FALSE) /\ UNCHANGED disk

(* ACK loss cannot undo the commit; it only keeps a move from deleting.    *)
PullAck ==
    /\ sv.pc = "ack" /\ ServerStep /\ NoFault /\ UNCHANGED <<up, disk>>
    /\ down' = Post(down, "src", End(TRUE, TRUE, "none", sv.body))
    /\ IF conn["src"] = "up"
       THEN sv' = [sv EXCEPT !.acked = TRUE, !.pc = "delete"] /\ UNCHANGED job
       ELSE Finished(sv)

(* delete_source: only when the file still has the fingerprint of the      *)
(* probe, and for a device file only once its slot let go of the path.     *)
DeleteSource ==
    /\ sv.pc = "delete" /\ ServerStep /\ UNCHANGED <<up, down>>
    /\ \/ job.mode = "copy" /\ NoFault /\ UNCHANGED disk
       \/ /\ job.mode = "move" /\ disk.src = 0 /\ NoFault
          /\ job.route = "pull" => conn["src"] = "up" /\ ~cl["src"].lock
          /\ disk' = [disk EXCEPT !.gone = TRUE]
       \/ /\ job.mode = "move" /\ NoFault /\ UNCHANGED disk
          /\ disk.src # 0 \/ (job.route = "pull" /\ conn["src"] # "up")
       \/ job.mode = "move" /\ Fault /\ UNCHANGED disk
    /\ Finished(sv)

(***************************************************************************)
(* Frames from the device: handle_frame and handle_binary.                 *)
(***************************************************************************)
ServerBlocked == Len(sv.q) > LaneMax
Gets(e, t) ==
    /\ conn[e] = "up" /\ up[e] # <<>> /\ Head(up[e]).t = t
    /\ up' = [up EXCEPT ![e] = Tail(@)]
    /\ UNCHANGED <<cl, out, disk>>

(* TransferProtocolError: the server closes the connection.                *)
ServerError(e) ==
    /\ conn' = [conn EXCEPT ![e] = "error"]
    /\ UNCHANGED <<sv, job, down>>

HandleReady ==
    /\ job.route = "push" /\ Gets("dst", "ready") /\ NoFault
    /\ IF sv.life = "slot" /\ sv.st = "BEGUN"
       THEN sv' = [sv EXCEPT !.st = "READY"] /\ UNCHANGED <<conn, job, down>>
       ELSE ServerError("dst")

HandleBegin ==
    /\ job.route = "pull" /\ NoFault
    /\ LET f == Head(up["src"]) IN
       /\ Gets("src", "begin")
       /\ IF sv.life = "slot" /\ sv.st = "REQUESTED"
          THEN /\ sv' = [sv EXCEPT !.st = "BEGUN", !.pc = "sink", !.ver = f.body[1]]
               /\ UNCHANGED <<conn, job, down>>
          ELSE ServerError("src")

(* _is_failed_tombstone: late chunks of a slot we failed are drained.      *)
FailedTomb == sv.life = "tomb" /\ sv.want.ack /\ ~sv.want.ok /\ ~sv.acked

HandleBinary ==
    /\ job.route = "pull" /\ ~ServerBlocked /\ NoFault
    /\ LET f == Head(up["src"]) IN
       /\ Gets("src", "chunk")
       /\ IF FailedTomb THEN UNCHANGED <<sv, conn, job, down>>
          ELSE IF sv.life = "slot" /\ sv.st \in {"READY", "STREAMING"} /\ sv.seen < Chunks
          THEN /\ sv' = [sv EXCEPT !.st = "STREAMING", !.seen = @ + 1,
                                   !.q = Append(@, f.body[1])]
               /\ UNCHANGED <<conn, job, down>>
          ELSE ServerError("src")

(* The queue stays full for the idle timeout.                              *)
QueueStalled ==
    /\ ServerBlocked /\ sv.life = "slot" /\ Fault
    /\ AbortFromOutside([sv EXCEPT !.q = SubSeq(@, 1, LaneMax)], "timeout", TRUE, down)
    /\ conn' = [conn EXCEPT !["src"] = IF sv.end = NoEnd THEN "error" ELSE @]
    /\ UNCHANGED <<cl, out, up, disk>>

(* _handle_end.                                                            *)
SenderTimedOut(f) == f = Failure("timeout")
TombAck(f) == sv.life = "tomb" /\ f.ack

HandleEnd(e) ==
    /\ e = Peer /\ job.route \in {"push", "pull"} /\ ~ServerBlocked /\ NoFault
    /\ LET f == Head(up[e])  live == sv.life = "slot" IN
       /\ Gets(e, "end")
       /\ \/ /\ TombAck(f)                               \* _matches_tombstone
             /\ IF sv.want = f
                THEN sv' = [sv EXCEPT !.acked = TRUE] /\ UNCHANGED <<conn, job, down>>
                ELSE ServerError(e)
          \/ /\ ~f.ack /\ SenderTimedOut(f) /\ e = "src" /\ sv.committed
             /\ down' = Post(down, e, AckOf(f))          \* _matches_committed_sender_timeout
             /\ UNCHANGED <<sv, conn, job>>
          \/ /\ ~TombAck(f) /\ ~live /\ ~(SenderTimedOut(f) /\ e = "src" /\ sv.committed)
             /\ ServerError(e)
          \/ /\ live /\ f.ack
             /\ IF e = "dst" /\ sv.st = "SENDER_ENDED"
                THEN /\ sv' = [sv EXCEPT !.ackF = IF @ = NoEnd THEN f ELSE @]
                     /\ UNCHANGED <<conn, job, down>>
                ELSE ServerError(e)
          \/ /\ live /\ ~f.ack /\ f.ok
             /\ IF e = "src" /\ sv.st \in {"READY", "STREAMING"}
                THEN /\ sv' = [sv EXCEPT !.end = f, !.st = "SENDER_ENDED", !.q = Append(@, Eof)]
                     /\ UNCHANGED <<conn, job, down>>
                ELSE ServerError(e)
          \/ /\ live /\ ~f.ack /\ ~f.ok /\ ~(SenderTimedOut(f) /\ e = "src" /\ sv.committed)
             /\ IF sv.st \in {"REQUESTED", "BEGUN", "READY", "STREAMING", "SENDER_ENDED"}
                THEN /\ UNCHANGED conn
                     /\ AbortFromOutside(
                          IF e = "src" THEN [sv EXCEPT !.end = f, !.st = "SENDER_ENDED"] ELSE sv,
                          f.code, FALSE, Post(down, e, AckOf(f)))
                ELSE ServerError(e)

(***************************************************************************)
(* The caller's cancellation and the loss of the connection.               *)
(***************************************************************************)
CancelDirect ==
    /\ job.route \in {"push", "pull"} /\ sv.life = "slot" /\ job.told = "none"
    /\ ~job.cancelled /\ Fault
    /\ IF job.route = "push" /\ sv.st = "SENDER_ENDED"
       THEN job' = [job EXCEPT !.cancelled = TRUE] /\ UNCHANGED <<sv, down>>
       ELSE IF sv.committed \/ sv.pc = "commit"
       THEN /\ sv' = [sv EXCEPT !.held = IF sv.pc = "commit" THEN "cancelled" ELSE @]
            /\ job' = [job EXCEPT !.cancelled = TRUE] /\ UNCHANGED down
       ELSE /\ sv' = Aborted(sv, "cancelled", sv.pc # "source")
            /\ job' = [job EXCEPT !.cancelled = TRUE, !.told = "cancelled", !.lease = FALSE]
            /\ down' = IF sv.pc # "source" THEN Post(down, Peer, Failure("cancelled")) ELSE down
    /\ UNCHANGED <<cl, out, up, conn, disk>>

(* fence_handle and disconnect: no frame is sent, the outcome is unknown   *)
(* unless the slot had committed, whose warnings are all that is left, or  *)
(* is committing.                                                          *)
DetachDirect ==
    /\ job.route \in {"push", "pull"} /\ conn[Peer] # "up" /\ sv.life = "slot" /\ NoFault
    /\ sv.held # "lost"
    /\ IF sv.committed THEN Finished(sv) /\ UNCHANGED down
       ELSE AbortFromOutside(sv, IF sv.pc = "source" THEN "rejected" ELSE "lost", FALSE, down)
    /\ UNCHANGED <<cl, out, up, conn, disk>>

DirectStep ==
    \/ StartPush \/ PrepareSource \/ SendSource \/ PushAcked \/ PushFails
    \/ StartPull \/ PrepareSink \/ ConsumeChunk \/ ConsumeEof \/ ConsumeStops
    \/ CommitSink \/ PullAck \/ DeleteSource
    \/ HandleReady \/ HandleBegin \/ HandleBinary \/ QueueStalled
    \/ \E e \in Ends : HandleEnd(e)
    \/ DetachDirect

===============================================================================
