------------------------------- MODULE Relays -------------------------------
(***************************************************************************)
(* A file of a device sent on while it arrives: as the body of a download  *)
(* (server api/workspace_files.py) or as the media of a channel message    *)
(* (server channels/media.py).  The transfer's task writes into a bounded  *)
(* queue, the reader takes from it; either may stop, time out or be        *)
(* cancelled at any time, and None in the queue ends the stream.           *)
(***************************************************************************)
EXTENDS Scene, Naturals, Sequences

CONSTANTS
    RelayChunks,    \* the chunks of the file
    RelayQueue,     \* _RELAY_QUEUE_CHUNKS, _DEVICE_QUEUE_CHUNKS
    RelayFaults     \* Bound on timeouts, failures and disconnections

ASSUME RelayBounds ==
    RelayChunks \in Nat /\ RelayQueue \in Nat \ {0} /\ RelayFaults \in Nat

VARIABLES
    sender,         \* the task of the transfer
    sink,           \* the relay sink
    reader,         \* the body of the response, or the media stream
    woes            \* faults so far
relayvars == <<sender, sink, reader, woes>>

None == 0
WholeFile == [i \in 1 .. RelayChunks |-> i]
SenderEnds == {"ok", "failed"}

RelayInit ==
    /\ sender = [pc |-> "starting", n |-> 0, stop |-> FALSE]
    /\ sink = [on |-> FALSE, q |-> <<>>, closed |-> FALSE]
    /\ reader = [pc |-> "metadata", got |-> <<>>, lease |-> TRUE]
    /\ woes = 0

Woe == woes < RelayFaults /\ woes' = woes + 1
NoWoe == woes' = woes

(***************************************************************************)
(* The sink.                                                               *)
(***************************************************************************)
\* abort: what is queued is dropped, so that the end always has room.
SinkAborted(s) == IF s.closed \/ ~s.on THEN s ELSE [s EXCEPT !.closed = TRUE, !.q = <<None>>]

(***************************************************************************)
(* The transfer: its task makes the sink when the device has begun, writes *)
(* to it, finishes it, and ends; when it fails it aborts the sink.         *)
(***************************************************************************)
TransferFails == sender' = [sender EXCEPT !.pc = "failed"] /\ sink' = SinkAborted(sink)

MakesSink ==
    /\ sender.pc = "starting" /\ ~sender.stop
    /\ sender' = [sender EXCEPT !.pc = "open"] /\ sink' = [sink EXCEPT !.on = TRUE]
    /\ UNCHANGED reader /\ NoWoe

\* write looks at _closed, and then waits for room.
WriteStarts ==
    /\ sender.pc = "open" /\ sender.n < RelayChunks
    /\ IF sink.closed THEN TransferFails
       ELSE sender' = [sender EXCEPT !.pc = "put"] /\ UNCHANGED sink
    /\ UNCHANGED reader /\ NoWoe

PutLands ==
    /\ sender.pc = "put" /\ Len(sink.q) < RelayQueue
    /\ sender' = [sender EXCEPT !.pc = "open", !.n = @ + 1]
    /\ sink' = [sink EXCEPT !.q = Append(@, sender.n + 1)]
    /\ UNCHANGED reader /\ NoWoe

\* finish: the end is queued behind the chunks; an aborted sink is left alone.
SinkFinishes ==
    /\ sender.pc = "open" /\ sender.n = RelayChunks
    /\ IF sink.closed THEN UNCHANGED sink
       ELSE /\ Len(sink.q) < RelayQueue
            /\ sink' = [sink EXCEPT !.q = Append(@, None), !.closed = TRUE]
    /\ sender' = [sender EXCEPT !.pc = "finished"]
    /\ UNCHANGED reader /\ NoWoe

\* The exchange of terminal frames after finish.
SenderSucceeds ==
    /\ sender.pc = "finished" /\ sender' = [sender EXCEPT !.pc = "ok"]
    /\ UNCHANGED <<sink, reader>> /\ NoWoe

\* A write that waits too long, a device that fails or disconnects, a checksum that is
\* wrong, and the cancellation of the task.
SenderBreaks ==
    /\ sender.pc \notin SenderEnds
    /\ (sender.stop /\ NoWoe) \/ Woe
    /\ TransferFails /\ UNCHANGED reader

(***************************************************************************)
(* The reader.                                                             *)
(***************************************************************************)
\* _cancel_transfer, _stop_transfer: the sink is aborted, the task is cancelled.
StopsTransfer ==
    /\ sink' = SinkAborted(sink)
    /\ sender' = [sender EXCEPT !.stop = @ \/ sender.pc \notin SenderEnds]

\* _wait_for_relay_metadata: the sink, or an end of the transfer without one.
Metadata ==
    /\ reader.pc = "metadata"
    /\ \/ /\ sink.on /\ reader' = [reader EXCEPT !.pc = "get"]
          /\ UNCHANGED <<sender, sink>> /\ NoWoe
       \/ /\ ~sink.on
          /\ (sender.pc \in SenderEnds /\ NoWoe) \/ Woe
          /\ reader' = [reader EXCEPT !.pc = "closing"] /\ StopsTransfer

\* Mutation: the end of the queue is the end of the file.
TakesEnd ==
    /\ reader.pc = "get" /\ sink.q # <<>>
    /\ sink' = [sink EXCEPT !.q = Tail(@)]
    /\ reader' = IF Head(sink.q) = None THEN [reader EXCEPT !.pc = "eof"]
                 ELSE [reader EXCEPT !.pc = "send", !.got = Append(@, Head(sink.q))]
    /\ UNCHANGED sender /\ NoWoe

\* A chunk goes to the client; None means that the transfer's own result counts.
TakesChunk ==
    /\ reader.pc = "get" /\ sink.q # <<>>
    /\ sink' = [sink EXCEPT !.q = Tail(@)]
    /\ reader' = IF Head(sink.q) = None THEN [reader EXCEPT !.pc = "result"]
                 ELSE [reader EXCEPT !.pc = "send", !.got = Append(@, Head(sink.q))]
    /\ UNCHANGED sender /\ NoWoe

\* The client takes the chunk; one that is gone or too slow closes the response.
ChunkSent ==
    /\ reader.pc = "send"
    /\ \/ reader' = [reader EXCEPT !.pc = "get"] /\ NoWoe
       \/ reader' = [reader EXCEPT !.pc = "closing"] /\ Woe
    /\ UNCHANGED <<sender, sink>>

\* Nothing arrives: the body ends short of its Content-Length, the media stream raises.
ReadIdles ==
    /\ reader.pc = "get" /\ sink.q = <<>> /\ Woe
    /\ reader' = [reader EXCEPT !.pc = "closing"] /\ StopsTransfer

\* The stream ends as the transfer does; a result that does not come is a failure.
TransferResult ==
    /\ reader.pc = "result"
    /\ \/ /\ sender.pc = "ok" /\ NoWoe
          /\ reader' = [reader EXCEPT !.pc = "eof"] /\ UNCHANGED <<sender, sink>>
       \/ /\ sender.pc = "failed" /\ NoWoe
          /\ reader' = [reader EXCEPT !.pc = "closing"] /\ UNCHANGED <<sender, sink>>
       \/ /\ sender.pc \notin SenderEnds /\ Woe
          /\ reader' = [reader EXCEPT !.pc = "closing"] /\ StopsTransfer

\* close_relay, aclose: the transfer is stopped and awaited, then the lease goes back.
Closes ==
    /\ reader.pc \in {"eof", "closing"} /\ reader.lease
    /\ StopsTransfer /\ NoWoe
    /\ reader' = [reader EXCEPT !.lease = sender.pc \notin SenderEnds]
    /\ <<sender, sink, reader>>' # <<sender, sink, reader>>

RelayWork ==
    \/ MakesSink \/ WriteStarts \/ PutLands \/ SinkFinishes \/ SenderSucceeds
    \/ sender.stop /\ SenderBreaks
    \/ Metadata \/ TakesChunk \/ ChunkSent \/ TransferResult \/ Closes
RelayFault == SenderBreaks \/ ReadIdles
RelayDone == ~reader.lease

RelaySpec ==
    /\ scene = "relay" /\ RelayInit
    /\ [][(RelayWork \/ RelayFault) /\ scene' = scene]_<<scene, relayvars>>

(***************************************************************************)
(* Properties.                                                             *)
(***************************************************************************)
\* A stream that ends without an error has delivered the whole file: an abort that
\* dropped queued chunks, or a transfer that failed after its last chunk, is never
\* taken for the end of the file.
EofHonest == scene = "relay" /\ reader.pc = "eof" => reader.got = WholeFile

\* The admission of a relay is given back only when its transfer has ended.
LeaseCoversTransfer == scene = "relay" /\ ~reader.lease => sender.pc \in SenderEnds

\* A relay's reader is told the truth, and its admission covers the whole transfer.
RelayHonest == EofHonest /\ LeaseCoversTransfer
=============================================================================
