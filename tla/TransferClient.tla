---------------------------- MODULE TransferClient ----------------------------
(***************************************************************************)
(* The device side of one file transfer: TransferManager of                *)
(* client/transfer.py with the writer of client/writer.py and the two      *)
(* one-way wires between a device and the server.                          *)
(*                                                                         *)
(* A transfer has up to two device endpoints: "src" sends the bytes of a   *)
(* local file, "dst" receives them into a local file.  A frame is a record *)
(* and a body stands for a byte count together with a digest: the sequence *)
(* of the versions the chunks were read from.  Two bodies are equal        *)
(* exactly when the byte counts and the digests are.                       *)
(***************************************************************************)
EXTENDS Scene, Integers, Sequences, FiniteSets, SequencesExt

CONSTANTS
    Chunks,     \* chunks of the file (total_bytes of transfer_begin)
    LaneMax,    \* chunks the writer lane and the receive queue hold
    MaxFaults   \* bound on timeouts, local failures, losses and cancellations

ASSUME TransferBounds ==
    /\ Chunks \in Nat \ {0}
    /\ LaneMax \in Nat \ {0}
    /\ MaxFaults \in Nat

VARIABLES
    cl,      \* cl[e]: the slot (or its tombstone) endpoint e has for the transfer
    out,     \* out[e]: the writer of e, its critical queue and its binary lane
    up,      \* up[e]: frames on their way from e to the server
    down,    \* down[e]: frames on their way from the server to e
    conn,    \* conn[e]: "up", "down", or "error" once an end saw a protocol error
    disk,    \* the source file and the destination file
    faults   \* how many faults have happened


Ends == {"src", "dst"}
Eof == 2
NoFile == <<Eof>>
Codes == {"none", "timeout", "cancelled", "rejected", "busy", "integrity", "lost"}

Frame(t, ack, ok, code, body) ==
    [t |-> t, ack |-> ack, ok |-> ok, code |-> code, body |-> body]
Plain(t, body) == Frame(t, FALSE, TRUE, "none", body)
End(ack, ok, code, body) == Frame("end", ack, ok, code, body)
Failure(code) == End(FALSE, FALSE, code, <<>>)
NoEnd == Plain("nothing", <<>>)
AckOf(f) == [f EXCEPT !.ack = TRUE]

(***************************************************************************)
(* A slot.  `st` is slot.state, `pc` what its worker task does next; after *)
(* the slot retires (life "tomb") the terminal fields are its tombstone.   *)
(***************************************************************************)
NoSlot ==
    [life |-> "none", role |-> "none", st |-> "none", pc |-> "none", ver |-> 0,
     body |-> <<>>, inq |-> <<>>, seen |-> 0, ready |-> FALSE, acked |-> FALSE,
     final |-> NoEnd, succ |-> NoEnd, lfail |-> NoEnd, rfail |-> NoEnd,
     rend |-> NoEnd, xack |-> FALSE, temp |-> FALSE, lock |-> FALSE, lease |-> FALSE]

NewSlot(role, st, pc) ==
    [NoSlot EXCEPT !.life = "slot", !.role = role, !.st = st, !.pc = pc, !.lease = TRUE]

ClientInit ==
    /\ cl = [e \in Ends |-> NoSlot]
    /\ out = [e \in Ends |-> [crit |-> <<>>, lane |-> <<>>]]
    /\ up = [e \in Ends |-> <<>>]
    /\ down = [e \in Ends |-> <<>>]
    /\ conn = [e \in Ends |-> "up"]
    /\ disk = [src |-> 0, gone |-> FALSE, dst |-> NoFile]
    /\ faults = 0

Fault == faults < MaxFaults /\ faults' = faults + 1
NoFault == faults' = faults

(* An idle timeout: a fault while a frame is on its way, and what finally  *)
(* happens when none is.                                                   *)
Silent(e) == conn[e] # "up" \/ (up[e] = <<>> /\ down[e] = <<>> /\ out[e].crit = <<>> /\ out[e].lane = <<>>)
Expires(es) == IF \A e \in es : Silent(e) THEN NoFault ELSE Fault

Critical(w, e, fs) == [w EXCEPT ![e].crit = @ \o fs]

(* _enqueue_end: the terminal is queued and remembered in the slot.        *)
EndSlot(c, f) ==
    [c EXCEPT !.final = f, !.lfail = IF ~f.ack /\ ~f.ok THEN f ELSE @]

SamePayload(a, b) == a.ok = b.ok /\ a.code = b.code /\ a.body = b.body

(* _same_terminal: the tombstone's own terminal, or the acknowledgement of it. *)
SameTerminal(c, f) ==
    /\ c.final # NoEnd
    /\ SamePayload(c.final, f)
    /\ c.final.ack = f.ack \/ f.ack

(* _tombstone_accepts_chosen_ack                                           *)
TombAcceptsChosenAck(c, f) ==
    /\ c.succ # NoEnd /\ f.ack
    /\ ~c.final.ack /\ ~c.final.ok /\ c.final.code = "timeout"
    /\ ~f.ok \/ SamePayload(c.succ, f)

(* _ack_matches_terminal                                                   *)
AckMatches(c, f) ==
    IF c.rend # NoEnd /\ c.rend.ack THEN c.rend = f
    ELSE \/ c.final # NoEnd /\ SamePayload(c.final, f)
         \/ /\ c.role = "sender" /\ c.succ # NoEnd /\ c.final # NoEnd /\ ~c.final.ack
            /\ c.final = c.succ \/ (~c.final.ok /\ c.final.code = "timeout")
            /\ ~f.ok \/ SamePayload(c.succ, f)

(* A cancelled worker goes straight to its finally block, except that a    *)
(* filesystem call already in its thread runs on (see Thread).             *)
Cancelled(c) ==
    [c EXCEPT !.pc = IF @ \in {"commit", "committed"} THEN "thread" ELSE "clean"]

(* A TransferProtocolError ends the connection.                            *)
ClientError(e) ==
    /\ conn' = [conn EXCEPT ![e] = "error"]
    /\ UNCHANGED <<cl, out>>

Head1(e) == Head(down[e])
(* The reader handles one frame at a time and is blocked in queue.put while *)
(* the receive queue holds more than it has room for.                      *)
Blocked(c) == Len(c.inq) > LaneMax
Takes(e, t) == conn[e] = "up" /\ down[e] # <<>> /\ Head1(e).t = t /\ ~Blocked(cl[e])
Taken(e) == down' = [down EXCEPT ![e] = Tail(@)] /\ UNCHANGED <<up, disk>>

(* _accept_request / _accept_begin: a slot is only opened with a lease;    *)
(* a busy device answers with a terminal and keeps only the tombstone.     *)
OpenSlot(e, role, st, pc) ==
    \/ /\ cl[e].life # "none" /\ ClientError(e) /\ NoFault
    \/ /\ cl[e].life = "none" /\ NoFault
       /\ cl' = [cl EXCEPT ![e] = NewSlot(role, st, pc)]
       /\ UNCHANGED <<out, conn>>
    \/ /\ cl[e].life = "none" /\ Fault
       /\ LET f == Failure("busy") IN
          /\ out' = Critical(out, e, <<f>>)
          /\ cl' = [cl EXCEPT ![e] = EndSlot([NoSlot EXCEPT !.life = "tomb"], f)]
       /\ UNCHANGED conn

AcceptRequest(e) == Takes(e, "request") /\ OpenSlot(e, "sender", "REQUESTED", "open") /\ Taken(e)
AcceptBegin(e) == Takes(e, "begin") /\ OpenSlot(e, "receiver", "BEGUN", "reserve") /\ Taken(e)

AcceptReady(e) ==
    /\ Takes(e, "ready") /\ Taken(e) /\ NoFault
    /\ IF cl[e].life = "slot" /\ cl[e].role = "sender" /\ cl[e].st = "BEGUN"
       THEN cl' = [cl EXCEPT ![e].st = "STREAMING"] /\ UNCHANGED <<out, conn>>
       ELSE ClientError(e)

(* handle_binary: into the bounded queue, drained silently after a local   *)
(* failure, an error in any other state.                                   *)
AcceptChunk(e) ==
    LET c == cl[e]  f == Head1(e) IN
    /\ Takes(e, "chunk") /\ Taken(e) /\ NoFault
    /\ IF c.role = "receiver" /\ c.life = "slot" /\ c.st \in {"READY", "STREAMING"}
       THEN IF c.seen < Chunks
            THEN /\ cl' = [cl EXCEPT ![e].inq = Append(@, f.body[1]), ![e].seen = @ + 1]
                 /\ UNCHANGED <<out, conn>>
            ELSE ClientError(e)
       ELSE IF c.role = "receiver" /\ c.st = "ABORTED" /\ c.ready /\ c.seen < Chunks
            THEN cl' = [cl EXCEPT ![e].seen = @ + 1] /\ UNCHANGED <<out, conn>>
            ELSE ClientError(e)

(* The queue stays full for the idle timeout: _abort_receiver.             *)
AcceptStalled(e) ==
    LET c == cl[e]  f == Failure("timeout")
        a == [c EXCEPT !.st = "ABORTED", !.inq = SubSeq(@, 1, LaneMax)] IN
    /\ Blocked(c) /\ c.life = "slot" /\ c.st \notin {"COMMITTED", "ABORTED"}
    /\ Fault
    /\ out' = Critical(out, e, IF c.final = NoEnd THEN <<f>> ELSE <<>>)
    /\ cl' = [cl EXCEPT ![e] = Cancelled(IF c.final = NoEnd THEN EndSlot(a, f) ELSE a)]
    /\ UNCHANGED <<up, down, conn, disk>>

(***************************************************************************)
(* _accept_end, case by case.                                              *)
(***************************************************************************)
(* Both sides failed with the same terminal: acknowledge it once.          *)
EndCrossing(e, c, f) ==
    /\ ~f.ack /\ ~f.ok /\ c.lfail = f
    /\ c.life = "tomb" \/ (c.life = "slot" /\ c.st = "ABORTED")
    /\ out' = Critical(out, e, IF c.xack THEN <<>> ELSE <<AckOf(f)>>)
    /\ cl' = [cl EXCEPT ![e].xack = TRUE]

EndRepeated(e, c, f) ==
    /\ ~f.ack /\ ~f.ok /\ c.lfail # f /\ c.rfail = f
    /\ c.life = "tomb" \/ (c.life = "slot" /\ c.st = "ABORTED")
    /\ UNCHANGED <<cl, out>>

EndForTomb(e, c, f) ==
    /\ c.life = "tomb" /\ (f.ack \/ f.ok \/ (c.lfail # f /\ c.rfail # f))
    /\ SameTerminal(c, f) \/ TombAcceptsChosenAck(c, f)
    /\ cl' = [cl EXCEPT ![e].final = IF f.ack /\ ~@.ack THEN f ELSE @]
    /\ UNCHANGED out

EndAck(e, c, f) ==
    /\ c.life = "slot" /\ f.ack /\ AckMatches(c, f)
    /\ \/ c.role = "receiver" /\ c.st = "ABORTED"
       \/ c.role = "sender" /\ c.st \in {"SENDER_ENDED", "ABORTED"}
    /\ cl' = [cl EXCEPT ![e].final = f, ![e].acked = TRUE,
                        ![e].rend = IF c.role = "sender" THEN f ELSE @]
    /\ UNCHANGED out

(* The server (or, through it, the receiver) reports a failure to a sender: *)
(* acknowledge, drop the queued chunks, stop the worker.                    *)
EndFailsSender(e, c, f) ==
    /\ c.life = "slot" /\ c.role = "sender" /\ ~f.ack /\ ~f.ok
    /\ c.st \in {"REQUESTED", "BEGUN", "STREAMING", "SENDER_ENDED"}
    /\ LET a == EndSlot([c EXCEPT !.rend = f, !.rfail = f, !.st = "ABORTED", !.acked = TRUE],
                        AckOf(f)) IN
       cl' = [cl EXCEPT ![e] = IF c.st = "SENDER_ENDED" THEN a ELSE Cancelled(a)]
    /\ out' = [Critical(out, e, <<AckOf(f)>>) EXCEPT ![e].lane = <<>>]

EndFailsReceiver(e, c, f) ==
    /\ c.life = "slot" /\ c.role = "receiver" /\ ~f.ack /\ ~f.ok
    /\ c.st \in {"BEGUN", "READY", "STREAMING"}
    /\ cl' = [cl EXCEPT ![e] =
         Cancelled(EndSlot([c EXCEPT !.rend = f, !.rfail = f, !.st = "ABORTED"], AckOf(f)))]
    /\ out' = Critical(out, e, <<AckOf(f)>>)

(* The sender's success terminal: the end marker follows the chunks.       *)
EndSucceeds(e, c, f) ==
    /\ c.life = "slot" /\ c.role = "receiver" /\ ~f.ack /\ f.ok
    /\ c.st \in {"READY", "STREAMING"}
    /\ cl' = [cl EXCEPT ![e].rend = f, ![e].st = "SENDER_ENDED", ![e].inq = Append(@, Eof)]
    /\ UNCHANGED out

EndHandled(e, c, f) ==
    \/ EndCrossing(e, c, f) \/ EndRepeated(e, c, f) \/ EndForTomb(e, c, f)
    \/ EndAck(e, c, f) \/ EndFailsSender(e, c, f) \/ EndFailsReceiver(e, c, f)
    \/ EndSucceeds(e, c, f)

EndUnexpected(c, f) ==
    /\ ~(/\ ~f.ack /\ ~f.ok /\ f \in {c.lfail, c.rfail}
         /\ c.life = "tomb" \/ (c.life = "slot" /\ c.st = "ABORTED"))
    /\ ~(c.life = "tomb" /\ (SameTerminal(c, f) \/ TombAcceptsChosenAck(c, f)))
    /\ ~(/\ c.life = "slot" /\ f.ack /\ AckMatches(c, f)
         /\ \/ c.role = "receiver" /\ c.st = "ABORTED"
            \/ c.role = "sender" /\ c.st \in {"SENDER_ENDED", "ABORTED"})
    /\ ~(/\ c.life = "slot" /\ ~f.ack /\ ~f.ok
         /\ \/ c.role = "sender" /\ c.st \in {"REQUESTED", "BEGUN", "STREAMING", "SENDER_ENDED"}
            \/ c.role = "receiver" /\ c.st \in {"BEGUN", "READY", "STREAMING"})
    /\ ~(/\ c.life = "slot" /\ c.role = "receiver" /\ ~f.ack /\ f.ok
         /\ c.st \in {"READY", "STREAMING"})

AcceptEnd(e) ==
    LET c == cl[e]  f == Head1(e) IN
    /\ Takes(e, "end") /\ Taken(e) /\ NoFault
    /\ \/ EndHandled(e, c, f) /\ UNCHANGED conn
       \/ EndUnexpected(c, f) /\ ClientError(e)

(***************************************************************************)
(* The sender's worker, _send_requested.                                   *)
(***************************************************************************)
Keep == UNCHANGED <<up, down, conn>>

SenderFails(e, c, code) ==
    /\ out' = Critical(out, e, <<Failure(code)>>)
    /\ cl' = [cl EXCEPT ![e] =
         EndSlot([c EXCEPT !.st = "ABORTED",
                           !.pc = IF c.st = "REQUESTED" THEN "clean" ELSE "failAck"],
                 Failure(code))]

SendOpen(e) ==
    /\ cl[e].pc = "open" /\ Keep /\ UNCHANGED disk
    /\ \/ /\ ~disk.gone /\ NoFault
          /\ cl' = [cl EXCEPT ![e].lock = TRUE, ![e].ver = disk.src,
                              ![e].st = "BEGUN", ![e].pc = "stream"]
          /\ out' = Critical(out, e, <<Plain("begin", <<disk.src>>)>>)
       \/ Fault /\ SenderFails(e, cl[e], "rejected")

(* One chunk is read from the open descriptor and put into the lane.       *)
SendChunk(e) ==
    /\ cl[e].pc = "stream" /\ cl[e].st = "STREAMING" /\ Len(cl[e].body) < Chunks
    /\ Len(out[e].lane) < LaneMax
    /\ cl' = [cl EXCEPT ![e].body = Append(@, disk.src)]
    /\ out' = [out EXCEPT ![e].lane = Append(@, Plain("chunk", <<disk.src>>))]
    /\ Keep /\ NoFault /\ UNCHANGED disk

(* Mutant: the fingerprint is not compared after the last chunk.           *)
SendEndUnchecked(e) ==
    LET c == cl[e]  f == End(FALSE, TRUE, "none", c.body) IN
    /\ c.pc = "stream" /\ c.st = "STREAMING" /\ Len(c.body) = Chunks
    /\ out[e].lane = <<>>
    /\ out' = Critical(out, e, <<f>>)
    /\ cl' = [cl EXCEPT ![e].st = "SENDER_ENDED", ![e].pc = "waitAck",
                        ![e].final = f, ![e].succ = f]
    /\ Keep /\ NoFault /\ UNCHANGED disk

(* All chunks have left the lane; the source must be what was opened.      *)
SendEnd(e) ==
    LET c == cl[e]  f == End(FALSE, TRUE, "none", c.body) IN
    /\ c.pc = "stream" /\ c.st = "STREAMING" /\ Len(c.body) = Chunks
    /\ out[e].lane = <<>>
    /\ IF disk.src = c.ver /\ ~disk.gone
       THEN /\ out' = Critical(out, e, <<f>>)
            /\ cl' = [cl EXCEPT ![e].st = "SENDER_ENDED", ![e].pc = "waitAck",
                                ![e].final = f, ![e].succ = f]
       ELSE SenderFails(e, c, "rejected")
    /\ Keep /\ NoFault /\ UNCHANGED disk

SendTimeout(e) ==
    LET c == cl[e] IN
    /\ \/ c.pc = "stream" /\ c.st = "BEGUN"
       \/ c.pc = "waitAck" /\ ~c.acked
    /\ Expires({e}) /\ SenderFails(e, c, "timeout")
    /\ Keep /\ UNCHANGED disk

SendAcked(e) ==
    LET c == cl[e] IN
    /\ c.pc = "waitAck" /\ c.acked
    /\ IF c.rend.ok /\ c.rend.body # c.body
       THEN SenderFails(e, c, "integrity")
       ELSE /\ cl' = [cl EXCEPT ![e].pc = "clean",
                        ![e].final = IF c.rend.ok \/ c.rend.ack THEN c.rend ELSE @]
            /\ UNCHANGED out
    /\ Keep /\ NoFault /\ UNCHANGED disk

(* _wait_for_failure_ack and _await_rejection_ack: the acknowledgement, or *)
(* the idle timeout, ends the wait.                                        *)
FailAcked(e) ==
    /\ cl[e].pc \in {"failAck", "rejAck"}
    /\ cl' = [cl EXCEPT ![e].pc = "clean",
                ![e].final = IF cl[e].pc = "failAck" /\ cl[e].rend.ack THEN cl[e].rend ELSE @]
    /\ Keep /\ NoFault /\ UNCHANGED <<out, disk>>

(***************************************************************************)
(* The receiver's worker, _prepare_receiver and _receive_destination.      *)
(***************************************************************************)
Reserve(e) ==
    LET c == cl[e] IN
    /\ c.pc = "reserve" /\ Keep /\ UNCHANGED disk
    /\ \/ /\ disk.dst = NoFile /\ NoFault
          /\ out' = Critical(out, e, <<Plain("ready", <<>>)>>)
          /\ cl' = [cl EXCEPT ![e].lock = TRUE, ![e].temp = TRUE, ![e].ready = TRUE,
                              ![e].st = "READY", ![e].pc = "recv"]
       \/ /\ Fault
          /\ out' = Critical(out, e, <<Failure("rejected")>>)
          /\ cl' = [cl EXCEPT ![e] =
               EndSlot([c EXCEPT !.st = "ABORTED", !.pc = "rejAck"], Failure("rejected"))]

(* A chunk is written; slot.state becomes STREAMING even when the sender's *)
(* terminal has already been accepted.                                     *)
ReceiveChunk(e) ==
    LET c == cl[e] IN
    /\ c.pc = "recv" /\ c.inq # <<>> /\ Head(c.inq) # Eof
    /\ cl' = [cl EXCEPT ![e].inq = Tail(@), ![e].body = Append(@, Head(c.inq)),
                        ![e].st = "STREAMING"]
    /\ Keep /\ NoFault /\ UNCHANGED <<out, disk>>

ReceiverFails(e, c, code) ==
    LET f == End(c.rend # NoEnd, FALSE, code, <<>>) IN
    /\ out' = Critical(out, e, <<f>>)
    /\ cl' = [cl EXCEPT ![e] = EndSlot([c EXCEPT !.st = "ABORTED", !.pc = "clean"], f)]

(* Length and digest are compared with the sender's terminal.              *)
ReceiveEof(e) ==
    LET c == cl[e] IN
    /\ c.pc = "recv" /\ c.inq # <<>> /\ Head(c.inq) = Eof
    /\ IF c.rend.body = c.body /\ Len(c.body) = Chunks
       THEN cl' = [cl EXCEPT ![e].pc = "commit", ![e].inq = <<>>] /\ UNCHANGED out
       ELSE ReceiverFails(e, [c EXCEPT !.inq = <<>>], "integrity")
    /\ Keep /\ NoFault /\ UNCHANGED disk

ReceiveFails(e) ==
    /\ \/ cl[e].pc \in {"recv", "commit"} /\ Fault /\ ReceiverFails(e, cl[e], "rejected")
       \/ /\ cl[e].pc = "recv" /\ cl[e].inq = <<>> /\ Expires({e})
          /\ ReceiverFails(e, cl[e], "timeout")
    /\ Keep /\ UNCHANGED disk

(* _commit_no_replace in its thread: the file appears under its name.      *)
CommitThread(e) ==
    LET c == cl[e] IN
    /\ c.pc = "commit" /\ disk.dst = NoFile
    /\ disk' = [disk EXCEPT !.dst = c.body]
    /\ cl' = [cl EXCEPT ![e].pc = "committed"]
    /\ Keep /\ NoFault /\ UNCHANGED out

CommitAck(e) ==
    LET c == cl[e]  f == End(TRUE, TRUE, "none", c.body) IN
    /\ c.pc = "committed"
    /\ out' = Critical(out, e, <<f>>)
    /\ cl' = [cl EXCEPT ![e].temp = FALSE, ![e].st = "COMMITTED", ![e].pc = "clean",
                        ![e].final = f]
    /\ Keep /\ NoFault /\ UNCHANGED disk

(* A cancelled worker whose thread still runs: the rename happens or not,  *)
(* then the drain releases what the slot held.                             *)
Abandon(e) ==
    /\ cl[e].pc = "thread" /\ cl[e].life = "slot"
    /\ cl' = [cl EXCEPT ![e].life = "tomb"]
    /\ Keep /\ NoFault /\ UNCHANGED <<out, disk>>

Thread(e) ==
    LET c == cl[e] IN
    /\ c.pc = "thread"
    /\ \/ disk.dst = NoFile /\ disk' = [disk EXCEPT !.dst = c.body]
       \/ UNCHANGED disk
    /\ cl' = [cl EXCEPT ![e].pc = "clean"]
    /\ Keep /\ NoFault /\ UNCHANGED out

(* _cleanup_slot: descriptor, temporary file, path lock, tombstone, lease. *)
Cleanup(e) ==
    LET c == cl[e] IN
    /\ c.pc = "clean" /\ (c.role = "sender" => out[e].lane = <<>> \/ conn[e] # "up")
    /\ cl' = [cl EXCEPT ![e] =
         [c EXCEPT !.life = "tomb", !.pc = "none", !.temp = FALSE, !.lock = FALSE,
                   !.lease = FALSE, !.inq = <<>>]]
    /\ Keep /\ NoFault /\ UNCHANGED <<out, disk>>

(***************************************************************************)
(* The writer: critical frames first, then the binary lane.                *)
(***************************************************************************)
Write(e) ==
    LET w == out[e] IN
    /\ conn[e] = "up" /\ (w.crit # <<>> \/ w.lane # <<>>)
    /\ IF w.crit # <<>>
       THEN /\ out' = [out EXCEPT ![e].crit = Tail(@)]
            /\ up' = [up EXCEPT ![e] = Append(@, Head(w.crit))]
       ELSE /\ out' = [out EXCEPT ![e].lane = Tail(@)]
            /\ up' = [up EXCEPT ![e] = Append(@, Head(w.lane))]
    /\ NoFault /\ UNCHANGED <<cl, down, conn, disk>>

(* The connection drops: frames in both directions are lost.               *)
Lose(e) ==
    /\ conn[e] = "up" /\ Fault
    /\ conn' = [conn EXCEPT ![e] = "down"]
    /\ up' = [up EXCEPT ![e] = <<>>] /\ down' = [down EXCEPT ![e] = <<>>]
    /\ UNCHANGED <<cl, out, disk>>

(* shutdown() of the manager when its connection ends.                     *)
Shutdown(e) ==
    LET c == cl[e]  f == Failure("lost") IN
    /\ conn[e] # "up" /\ c.life = "slot" /\ c.pc \notin {"clean", "thread"}
    /\ cl' = [cl EXCEPT ![e] =
         Cancelled(IF c.final = NoEnd THEN EndSlot(c, f) ELSE c)]
    /\ out' = [out EXCEPT ![e] = [crit |-> <<>>, lane |-> <<>>]]
    /\ NoFault /\ UNCHANGED <<up, down, conn, disk>>

(* Somebody edits the source file meanwhile.                               *)
Touch ==
    /\ disk.src = 0 /\ ~disk.gone /\ Fault
    /\ disk' = [disk EXCEPT !.src = 1]
    /\ UNCHANGED <<cl, out, up, down, conn>>

ClientStep(e) ==
    \/ AcceptRequest(e) \/ AcceptBegin(e) \/ AcceptReady(e) \/ AcceptChunk(e)
    \/ AcceptStalled(e) \/ AcceptEnd(e)
    \/ SendOpen(e) \/ SendChunk(e) \/ SendEnd(e) \/ SendTimeout(e) \/ SendAcked(e)
    \/ FailAcked(e) \/ Reserve(e) \/ ReceiveChunk(e) \/ ReceiveEof(e) \/ ReceiveFails(e)
    \/ CommitThread(e) \/ CommitAck(e) \/ Abandon(e) \/ Thread(e) \/ Cleanup(e)
    \/ Write(e) \/ Shutdown(e)

===============================================================================
