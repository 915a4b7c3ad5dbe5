---------------------------- MODULE TransferProofs ----------------------------
(***************************************************************************)
(* Transfers between the server, its object store and a device.            *)
(*                                                                         *)
(* A relayed stream that ends without an error is the whole file, and its  *)
(* admission covers its transfer: for any length of the file, any bound of *)
(* the queue and any number of timeouts, failures and disconnections.      *)
(*                                                                         *)
(* The connections of the object store are conserved and never all held by *)
(* copies that wait for one more, and an upload publishes its file or      *)
(* leaves nothing: for any number of connections from two on, any work,    *)
(* any length of the files and of the queue, and any number of faults.     *)
(***************************************************************************)
EXTENDS Relays, ObjectPool, FiniteSetTheorems, TLAPS

-----------------------------------------------------------------------------
(***************************************************************************)
(* Relayed streams.                                                        *)
(***************************************************************************)
SenderType == [pc : {"starting", "open", "put", "finished", "ok", "failed"}, n : Nat, stop : BOOLEAN]
SinkType == [on : BOOLEAN, q : Seq(Nat), closed : BOOLEAN]
ReaderType == [pc : {"metadata", "get", "send", "result", "eof", "closing"},
               got : Seq(Nat), lease : BOOLEAN]
RelayTypeOK == sender \in SenderType /\ sink \in SinkType /\ reader \in ReaderType /\ woes \in Nat

\* The first chunks of the file, in order.
InOrder(g) == \A i \in 1 .. Len(g) : g[i] = i

\* The first k chunks of the queue q are the ones after the n-th.
Follows(q, n, k) == \A i \in 1 .. k : q[i] = n + i

\* The transfer still writes: all that it wrote is with the reader or in the queue.
Arriving ==
    /\ sender.pc \in {"starting", "open", "put"} /\ ~sink.closed
    /\ reader.pc \in {"metadata", "get", "send"}
    /\ InOrder(reader.got) /\ Len(reader.got) + Len(sink.q) = sender.n
    /\ Follows(sink.q, Len(reader.got), Len(sink.q))

\* The transfer has finished the sink: the rest of the file and the end are in the queue.
Ending ==
    /\ sender.pc \in {"finished", "ok"} /\ sink.closed
    /\ reader.pc \in {"metadata", "get", "send"}
    /\ Len(sink.q) > 0 /\ Len(reader.got) + Len(sink.q) = RelayChunks + 1
    /\ sink.q[Len(sink.q)] = None
    /\ InOrder(reader.got) /\ Follows(sink.q, Len(reader.got), Len(sink.q) - 1)

\* The reader has all of it, and waits for the transfer's result or has seen it.
Complete ==
    /\ sender.pc \in {"finished", "ok"} /\ sink.closed
    /\ reader.pc \in {"result", "eof"} /\ (reader.pc = "eof" => sender.pc = "ok")
    /\ InOrder(reader.got) /\ Len(reader.got) = RelayChunks

\* Where a relay can be: on the way, or given up by the reader or by the transfer.
Phase ==
    \/ Arriving \/ Ending \/ Complete
    \/ reader.pc = "closing"
    \/ sender.pc = "failed" /\ reader.pc # "eof"

\* The transfer writes no more than the file, and the lease outlives it.
Covered ==
    /\ sender.n <= RelayChunks /\ (sender.pc = "put" => sender.n < RelayChunks)
    /\ ~reader.lease => sender.pc \in SenderEnds

RelayInv == RelayTypeOK /\ scene = "relay" /\ Covered /\ Phase

\* A chunk at the end of a sequence.
LEMMA AtEnd ==
  ASSUME NEW s \in Seq(Nat), NEW x \in Nat
  PROVE  /\ Append(s, x) \in Seq(Nat) /\ Len(Append(s, x)) = Len(s) + 1
         /\ \A i \in 1 .. Len(s) : Append(s, x)[i] = s[i]
         /\ Append(s, x)[Len(s) + 1] = x
  OBVIOUS

\* A reader in order that takes the next chunk is in order.
LEMMA OrderGrows ==
  ASSUME NEW g \in Seq(Nat), InOrder(g)
  PROVE  InOrder(Append(g, Len(g) + 1)) /\ Len(Append(g, Len(g) + 1)) = Len(g) + 1
<1>1. Len(g) + 1 \in Nat
  OBVIOUS
<1>2. \A i \in 1 .. Len(g) + 1 : Append(g, Len(g) + 1)[i] = i
  BY <1>1, AtEnd DEF InOrder
<1>3. QED
  BY <1>1, <1>2, AtEnd, Zenon DEF InOrder

\* What is put behind the queue leaves its order alone, and continues it if it is next.
LEMMA QueueGrows ==
  ASSUME NEW q \in Seq(Nat), NEW n \in Nat, NEW x \in Nat, Follows(q, n, Len(q))
  PROVE  /\ Follows(Append(q, x), n, Len(q))
         /\ x = n + Len(q) + 1 => Follows(Append(q, x), n, Len(q) + 1)
<1>1. \A i \in 1 .. Len(q) : Append(q, x)[i] = n + i
  BY AtEnd, Zenon DEF Follows
<1>2. ASSUME x = n + Len(q) + 1
      PROVE \A i \in 1 .. Len(q) + 1 : Append(q, x)[i] = n + i
  BY <1>1, <1>2, AtEnd
<1>3. QED
  BY <1>1, <1>2, Zenon DEF Follows

\* The queue without its head.
LEMMA QueueShrinks ==
  ASSUME NEW q \in Seq(Nat), q # <<>>
  PROVE  /\ Tail(q) \in Seq(Nat) /\ Len(q) \in Nat \ {0} /\ Len(Tail(q)) = Len(q) - 1
         /\ Head(q) = q[1] /\ \A i \in 1 .. Len(q) - 1 : Tail(q)[i] = q[i + 1]
  OBVIOUS

\* The head of a queue in order is the next chunk, the rest follows it.
LEMMA QueueServes ==
  ASSUME NEW q \in Seq(Nat), q # <<>>, NEW n \in Nat, NEW k \in 1 .. Len(q), Follows(q, n, k)
  PROVE  Head(q) = n + 1 /\ Follows(Tail(q), n + 1, k - 1)
<1>1. Head(q) = n + 1
  BY QueueShrinks DEF Follows
<1>2. \A i \in 1 .. k - 1 : Tail(q)[i] = n + 1 + i
  BY QueueShrinks DEF Follows
<1>3. QED
  BY <1>1, <1>2, Zenon DEF Follows

\* An aborted sink is a sink, closed unless it was never made.
LEMMA AbortTyped ==
  ASSUME NEW s \in SinkType
  PROVE  SinkAborted(s) \in SinkType
<1>1. <<None>> \in Seq(Nat)
  BY DEF None
<1>2. QED
  BY <1>1, Zenon DEF SinkAborted, SinkType

RelayStep == (RelayWork \/ RelayFault) /\ scene' = scene

\* Every action of the transfer and of the reader keeps the types.
LEMMA RelayTypes == RelayTypeOK /\ [RelayStep]_<<scene, relayvars>> => RelayTypeOK'
<1> SUFFICES ASSUME RelayTypeOK, [RelayStep]_<<scene, relayvars>>
             PROVE RelayTypeOK'
  BY Zenon
<1> USE RelayBounds DEF RelayTypeOK, NoWoe, Woe
<1>a. ASSUME StopsTransfer PROVE sender' \in SenderType /\ sink' \in SinkType
  BY <1>a, AbortTyped, Zenon DEF StopsTransfer, SenderType
<1>b. ASSUME TransferFails PROVE sender' \in SenderType /\ sink' \in SinkType
  BY <1>b, AbortTyped, Zenon DEF TransferFails, SenderType
<1>c. ASSUME NEW p \in {"metadata", "get", "send", "result", "eof", "closing"},
             reader' = [reader EXCEPT !.pc = p]
      PROVE reader' \in ReaderType
  BY <1>c, Zenon DEF ReaderType
<1>1. CASE MakesSink
  BY <1>1, Zenon DEF MakesSink, SenderType, SinkType
<1>2. CASE WriteStarts
  BY <1>2, <1>b, Zenon DEF WriteStarts, SenderType
<1>3. CASE PutLands
  <2>1. sender.n + 1 \in Nat /\ sink.q \in Seq(Nat)
    BY DEF SenderType, SinkType
  <2>2. Append(sink.q, sender.n + 1) \in Seq(Nat)
    BY <2>1
  <2>3. sender' \in SenderType
    BY <1>3, <2>1, Zenon DEF PutLands, SenderType
  <2>4. sink' \in SinkType
    BY <1>3, <2>2, Zenon DEF PutLands, SinkType
  <2>5. QED
    BY <1>3, <2>3, <2>4, Zenon DEF PutLands
<1>4. CASE SinkFinishes
  <2>1. Append(sink.q, None) \in Seq(Nat)
    BY DEF SinkType, None
  <2>2. QED
    BY <1>4, <2>1, Zenon DEF SinkFinishes, SenderType, SinkType
<1>5. CASE SenderSucceeds
  BY <1>5, Zenon DEF SenderSucceeds, SenderType
<1>6. CASE SenderBreaks
  BY <1>6, <1>b DEF SenderBreaks
<1>7. CASE Metadata
  BY <1>7, <1>a, <1>c DEF Metadata
<1>8. CASE TakesChunk
  <2>1. Tail(sink.q) \in Seq(Nat) /\ Head(sink.q) \in Nat
    BY <1>8 DEF TakesChunk, SinkType
  <2>2. Append(reader.got, Head(sink.q)) \in Seq(Nat)
    BY <2>1 DEF ReaderType
  <2>3. reader' \in ReaderType
    BY <1>8, <2>2, Zenon DEF TakesChunk, ReaderType
  <2>4. QED
    BY <1>8, <2>1, <2>3, Zenon DEF TakesChunk, SinkType
<1>9. CASE ChunkSent
  BY <1>9, <1>c DEF ChunkSent
<1>10. CASE TransferResult
  BY <1>10, <1>a, <1>c DEF TransferResult
<1>11. CASE Closes
  BY <1>11, <1>a, Zenon DEF Closes, ReaderType
<1>12. CASE ReadIdles
  BY <1>12, <1>a, <1>c DEF ReadIdles
<1>13. CASE UNCHANGED <<scene, relayvars>>
  BY <1>13, Zenon DEF relayvars
<1>14. QED
  BY <1>1, <1>2, <1>3, <1>4, <1>5, <1>6, <1>7, <1>8, <1>9, <1>10, <1>11, <1>12, <1>13, Zenon
     DEF RelayStep, RelayWork, RelayFault

\* No action writes past the end of the file, or gives the lease back early.
LEMMA CoveredKept == RelayTypeOK /\ Covered /\ [RelayStep]_<<scene, relayvars>> => Covered'
<1> SUFFICES ASSUME RelayTypeOK, Covered, [RelayStep]_<<scene, relayvars>>
             PROVE Covered'
  BY Zenon
<1> USE RelayBounds DEF RelayTypeOK, Covered, SenderType, ReaderType, SenderEnds
<1>1. CASE MakesSink
  BY <1>1, Zenon DEF MakesSink
<1>2. CASE WriteStarts
  BY <1>2, Zenon DEF WriteStarts, TransferFails
<1>3. CASE PutLands
  BY <1>3 DEF PutLands
<1>4. CASE SinkFinishes
  BY <1>4, Zenon DEF SinkFinishes
<1>5. CASE SenderSucceeds
  BY <1>5, Zenon DEF SenderSucceeds
<1>6. CASE SenderBreaks
  BY <1>6, Zenon DEF SenderBreaks, TransferFails
<1>7. CASE Metadata
  BY <1>7, Zenon DEF Metadata, StopsTransfer
<1>8. CASE TakesChunk
  BY <1>8, Zenon DEF TakesChunk
<1>9. CASE ChunkSent
  BY <1>9, Zenon DEF ChunkSent
<1>10. CASE TransferResult
  BY <1>10, Zenon DEF TransferResult, StopsTransfer
<1>11. CASE Closes
  BY <1>11, Zenon DEF Closes, StopsTransfer
<1>12. CASE ReadIdles
  BY <1>12, Zenon DEF ReadIdles, StopsTransfer
<1>13. CASE UNCHANGED <<scene, relayvars>>
  BY <1>13, Zenon DEF relayvars
<1>14. QED
  BY <1>1, <1>2, <1>3, <1>4, <1>5, <1>6, <1>7, <1>8, <1>9, <1>10, <1>11, <1>12, <1>13, Zenon
     DEF RelayStep, RelayWork, RelayFault

\* A relay that was given up stays given up, whatever the other side still does.
LEMMA GivenUp ==
  ASSUME RelayTypeOK, [RelayStep]_<<scene, relayvars>>
  PROVE  /\ reader.pc = "closing" => reader'.pc = "closing"
         /\ sender.pc = "failed" => sender'.pc = "failed"
         /\ sender.pc = "failed" /\ reader.pc # "eof" => reader'.pc # "eof"
<1> USE DEF RelayTypeOK, SenderType, ReaderType, SenderEnds
<1>1. CASE MakesSink
  BY <1>1, Zenon DEF MakesSink
<1>2. CASE WriteStarts
  BY <1>2, Zenon DEF WriteStarts, TransferFails
<1>3. CASE PutLands
  BY <1>3, Zenon DEF PutLands
<1>4. CASE SinkFinishes
  BY <1>4, Zenon DEF SinkFinishes
<1>5. CASE SenderSucceeds
  BY <1>5, Zenon DEF SenderSucceeds
<1>6. CASE SenderBreaks
  BY <1>6, Zenon DEF SenderBreaks, TransferFails
<1>7. CASE Metadata
  BY <1>7, Zenon DEF Metadata, StopsTransfer
<1>8. CASE TakesChunk
  BY <1>8, Zenon DEF TakesChunk
<1>9. CASE ChunkSent
  BY <1>9, Zenon DEF ChunkSent
<1>10. CASE TransferResult
  BY <1>10, Zenon DEF TransferResult, StopsTransfer
<1>11. CASE Closes
  BY <1>11, Zenon DEF Closes, StopsTransfer
<1>12. CASE ReadIdles
  BY <1>12, Zenon DEF ReadIdles, StopsTransfer
<1>13. CASE UNCHANGED <<scene, relayvars>>
  BY <1>13, Zenon DEF relayvars
<1>14. QED
  BY <1>1, <1>2, <1>3, <1>4, <1>5, <1>6, <1>7, <1>8, <1>9, <1>10, <1>11, <1>12, <1>13, Zenon
     DEF RelayStep, RelayWork, RelayFault

\* While the transfer writes, a step keeps the chunks in order, ends the file, or gives up.
LEMMA ArrivingStep ==
  ASSUME RelayTypeOK, RelayTypeOK', Covered, Arriving, [RelayStep]_<<scene, relayvars>>
  PROVE  Phase'
<1> USE RelayBounds
<1> DEFINE q == sink.q
           g == reader.got
           n == sender.n
<1>a. sender \in SenderType /\ sink \in SinkType /\ reader \in ReaderType
  BY Zenon DEF RelayTypeOK
<1>b. q \in Seq(Nat) /\ g \in Seq(Nat) /\ n \in Nat
  BY <1>a, Zenon DEF SenderType, SinkType, ReaderType
<1>o. InOrder(g) /\ Len(g) + Len(q) = n /\ Follows(q, Len(g), Len(q))
  BY Zenon DEF Arriving
<1> HIDE DEF q, g, n
<1>c. /\ q \in Seq(Nat) /\ g \in Seq(Nat) /\ n \in Nat /\ Len(q) \in Nat /\ Len(g) \in Nat
      /\ InOrder(g) /\ Len(g) + Len(q) = n /\ Follows(q, Len(g), Len(q))
  BY <1>b, <1>o
<1>l. Len(q) \in Nat /\ Len(g) \in Nat /\ Len(g) + Len(q) = n
  BY <1>c, Zenon
<1>s. ASSUME reader' = reader, sink'.q = sink.q, sink'.closed = sink.closed, sender'.n = sender.n,
             sender'.pc \in {"starting", "open", "put"}
      PROVE Arriving'
  BY <1>s, Zenon DEF Arriving
<1>1. CASE MakesSink
  BY <1>1, <1>a, <1>s, Zenon DEF MakesSink, SenderType, SinkType, Phase, Arriving
<1>2. CASE WriteStarts
  BY <1>2, <1>a, <1>s, Zenon DEF WriteStarts, SenderType, Phase, Arriving
<1>3. CASE PutLands
  <2>1. sink'.q = Append(q, n + 1) /\ sink'.closed = sink.closed
    BY <1>3, <1>a, Zenon DEF PutLands, SinkType, q, n
  <2>2. sender'.n = n + 1 /\ sender'.pc = "open" /\ reader' = reader /\ reader'.got = g
    BY <1>3, <1>a, Zenon DEF PutLands, SenderType, g, n
  <2>3. Len(g) + Len(sink'.q) = n + 1 /\ Follows(sink'.q, Len(g), Len(sink'.q))
    BY <2>1, <1>c, AtEnd, QueueGrows
  <2>4. QED
    BY <2>1, <2>2, <2>3, <1>c, Zenon DEF Phase, Arriving
<1>4. CASE SinkFinishes
  <2>1. sink'.q = Append(q, None) /\ sink'.closed
    BY <1>4, <1>a, Zenon DEF SinkFinishes, SinkType, Arriving, q
  <2>2. /\ n = RelayChunks /\ sender'.pc = "finished" /\ reader' = reader
        /\ reader'.got = g
    BY <1>4, <1>a, Zenon DEF SinkFinishes, SenderType, n, g
  <2>3. Len(sink'.q) = Len(q) + 1 /\ sink'.q[Len(q) + 1] = None
    BY <2>1, <1>c, AtEnd DEF None
  <2>4. Follows(sink'.q, Len(g), Len(q))
    BY <2>1, <1>c, QueueGrows, Zenon DEF None
  <2>5. Len(sink'.q) > 0 /\ Len(sink'.q) - 1 = Len(q) /\ Len(g) + Len(sink'.q) = RelayChunks + 1
    BY ONLY <2>2, <2>3, <1>l
  <2>6. sink'.q[Len(sink'.q)] = None /\ Follows(sink'.q, Len(g), Len(sink'.q) - 1)
    BY <2>3, <2>4, <2>5, Zenon
  <2>7. reader'.pc \in {"metadata", "get", "send"}
    BY <2>2, Zenon DEF Arriving
  <2>8. QED
    BY <2>1, <2>2, <2>5, <2>6, <2>7, <1>c, Zenon DEF Ending, Phase, Arriving
<1>5. CASE SenderSucceeds
  BY <1>5, Zenon DEF SenderSucceeds, Arriving
<1>6. CASE SenderBreaks
  BY <1>6, <1>a, Zenon DEF SenderBreaks, TransferFails, SenderType, Phase, Arriving
<1>7. CASE Metadata
  <2>1. CASE reader' = [reader EXCEPT !.pc = "get"] /\ UNCHANGED <<sender, sink>>
    BY <2>1, <1>a, Zenon DEF ReaderType, Phase, Arriving
  <2>2. CASE reader' = [reader EXCEPT !.pc = "closing"]
    BY <2>2, <1>a, Zenon DEF ReaderType, Phase, Arriving
  <2>3. QED
    BY <1>7, <2>1, <2>2, Zenon DEF Metadata
<1>8. CASE TakesChunk
  <2>1. q # <<>>
    BY <1>8, Zenon DEF TakesChunk, q
  <2>2. /\ Len(q) \in Nat \ {0} /\ Len(Tail(q)) = Len(q) - 1 /\ Head(q) = Len(g) + 1
        /\ Follows(Tail(q), Len(g) + 1, Len(q) - 1)
    BY <2>1, <1>c, QueueShrinks, QueueServes
  <2>3. Head(sink.q) # None
    BY <2>2, <1>c DEF None, q
  <2>4. reader' = [reader EXCEPT !.pc = "send", !.got = Append(@, Head(sink.q))]
    BY <1>8, <2>3, Zenon DEF TakesChunk
  <2>5. reader'.pc = "send" /\ reader'.got = Append(g, Len(g) + 1)
    BY <2>2, <2>4, <1>a, Zenon DEF ReaderType, g, q
  <2>6. sink'.q = Tail(q) /\ sink'.closed = sink.closed /\ sender' = sender /\ sender'.n = n
    BY <1>8, <1>a, Zenon DEF TakesChunk, SinkType, q, n
  <2>7. Len(reader'.got) = Len(g) + 1 /\ InOrder(reader'.got)
    BY <2>5, <1>c, OrderGrows, Zenon
  <2>8. Len(sink'.q) = Len(q) - 1
    BY <2>2, <2>6, Zenon
  <2>9. Follows(sink'.q, Len(reader'.got), Len(sink'.q))
    BY Zenon, <2>2, <2>6, <2>7, <2>8
  <2>10. Len(reader'.got) + Len(sink'.q) = n
    BY <2>7, <2>8, <1>l
  <2>11. QED
    BY <2>5, <2>6, <2>7, <2>9, <2>10, Zenon DEF Phase, Arriving
<1>9. CASE ChunkSent
  <2>1. CASE reader' = [reader EXCEPT !.pc = "get"]
    BY <1>9, <2>1, <1>a, Zenon DEF ChunkSent, ReaderType, Phase, Arriving
  <2>2. CASE reader' = [reader EXCEPT !.pc = "closing"]
    BY <2>2, <1>a, Zenon DEF ReaderType, Phase, Arriving
  <2>3. QED
    BY <1>9, <2>1, <2>2, Zenon DEF ChunkSent
<1>10. CASE TransferResult
  BY <1>10, Zenon DEF TransferResult, Arriving
<1>11. CASE Closes
  BY <1>11, Zenon DEF Closes, Arriving
<1>12. CASE ReadIdles
  BY <1>12, <1>a, Zenon DEF ReadIdles, ReaderType, Phase, Arriving
<1>13. CASE UNCHANGED <<scene, relayvars>>
  BY <1>13, Zenon DEF relayvars, Phase, Arriving
<1>14. QED
  BY <1>1, <1>2, <1>3, <1>4, <1>5, <1>6, <1>7, <1>8, <1>9, <1>10, <1>11, <1>12, <1>13, Zenon
     DEF RelayStep, RelayWork, RelayFault

\* Behind the last chunk there is only the end, and the end is not taken before it.
LEMMA EndingStep ==
  ASSUME RelayTypeOK, RelayTypeOK', Covered, Ending, [RelayStep]_<<scene, relayvars>>
  PROVE  Phase'
<1> USE RelayBounds
<1> DEFINE q == sink.q
           g == reader.got
<1>a. sender \in SenderType /\ sink \in SinkType /\ reader \in ReaderType
  BY Zenon DEF RelayTypeOK
<1>b. q \in Seq(Nat) /\ g \in Seq(Nat)
  BY <1>a, Zenon DEF SinkType, ReaderType
<1>o. /\ InOrder(g) /\ Len(g) + Len(q) = RelayChunks + 1 /\ Len(q) > 0
      /\ Follows(q, Len(g), Len(q) - 1) /\ q[Len(q)] = None
  BY Zenon DEF Ending
<1> HIDE DEF q, g
<1>c. Len(q) \in Nat /\ Len(g) \in Nat /\ Len(q) > 0
  BY <1>b, <1>o
<1>s. ASSUME reader'.got = reader.got, reader'.pc \in {"metadata", "get", "send"}, sink' = sink,
             sender'.pc \in {"finished", "ok"}
      PROVE Ending'
  BY <1>s, Zenon DEF Ending
<1>1. CASE MakesSink \/ WriteStarts \/ PutLands \/ SinkFinishes \/ TransferResult \/ Closes
  BY <1>1, Zenon DEF MakesSink, WriteStarts, PutLands, SinkFinishes, TransferResult, Closes, Ending
<1>2. CASE SenderSucceeds
  BY <1>2, <1>a, <1>s, Zenon DEF SenderSucceeds, SenderType, Phase, Ending
<1>3. CASE SenderBreaks
  BY <1>3, <1>a, Zenon DEF SenderBreaks, TransferFails, SenderType, Phase, Ending
<1>4. CASE Metadata \/ ChunkSent
  <2>1. CASE reader' = [reader EXCEPT !.pc = "get"] /\ UNCHANGED <<sender, sink>>
    BY <2>1, <1>a, <1>s, Zenon DEF ReaderType, Phase, Ending
  <2>2. CASE reader' = [reader EXCEPT !.pc = "closing"]
    BY <2>2, <1>a, Zenon DEF ReaderType, Phase, Ending
  <2>3. QED
    BY <1>4, <2>1, <2>2, Zenon DEF Metadata, ChunkSent
<1>5. CASE TakesChunk
  <2>1. q # <<>> /\ sink'.q = Tail(q) /\ sink'.closed /\ sender' = sender
    BY <1>5, <1>a, Zenon DEF TakesChunk, SinkType, Ending, q
  <2>2. /\ Len(Tail(q)) = Len(q) - 1 /\ Head(q) = q[1]
        /\ \A i \in 1 .. Len(q) - 1 : Tail(q)[i] = q[i + 1]
    BY <2>1, <1>b, QueueShrinks, Zenon
  <2>3. CASE Len(q) = 1
    <3>1. Head(sink.q) = None
      BY <2>2, <2>3, <1>o, Zenon DEF q
    <3>2. reader'.pc = "result" /\ reader'.got = g
      BY <3>1, <1>5, <1>a, Zenon DEF TakesChunk, ReaderType, g
    <3>3. Len(g) = RelayChunks
      BY <2>3, <1>o, <1>c
    <3>4. QED
      BY <3>2, <3>3, <2>1, <1>o, Zenon DEF Complete, Ending, Phase
  <2>4. CASE Len(q) > 1
    <3>1. Len(q) - 1 \in 1 .. Len(q)
      BY <2>4, <1>c
    <3>2. Head(q) = Len(g) + 1 /\ Follows(Tail(q), Len(g) + 1, Len(q) - 1 - 1)
      BY <2>1, <3>1, <1>b, <1>c, <1>o, QueueServes, Zenon
    <3>3. Head(sink.q) # None
      BY <3>2, <1>c DEF None, q
    <3>4. reader' = [reader EXCEPT !.pc = "send", !.got = Append(@, Head(sink.q))]
      BY <1>5, <3>3, Zenon DEF TakesChunk
    <3>5. reader'.pc = "send" /\ reader'.got = Append(g, Len(g) + 1)
      BY <3>2, <3>4, <1>a, Zenon DEF ReaderType, g, q
    <3>6. Len(reader'.got) = Len(g) + 1 /\ InOrder(reader'.got)
      BY <3>5, <1>b, <1>o, OrderGrows, Zenon
    <3>7. Len(sink'.q) = Len(q) - 1
      BY <2>1, <2>2, Zenon
    <3>8. Follows(sink'.q, Len(reader'.got), Len(sink'.q) - 1)
      BY Zenon, <3>2, <3>6, <3>7, <2>1
    <3>9. Tail(q)[Len(q) - 1] = None
      BY <2>2, <2>4, <1>o, <1>c
    <3>10. sink'.q[Len(sink'.q)] = None
      BY Zenon, <3>7, <3>9, <2>1
    <3>11. Len(reader'.got) + Len(sink'.q) = RelayChunks + 1 /\ Len(sink'.q) > 0
      BY <2>4, <3>6, <3>7, <1>o, <1>c
    <3>12. QED
      BY <2>1, <3>5, <3>6, <3>8, <3>10, <3>11, Zenon DEF Phase, Ending
  <2>5. Len(q) = 1 \/ Len(q) > 1
    <3>1. \A k \in Nat : k > 0 => k = 1 \/ k > 1
      OBVIOUS
    <3>2. QED
      BY Zenon, <3>1, <1>c
  <2>6. QED
    BY Zenon, <2>3, <2>4, <2>5
<1>6. CASE ReadIdles
  BY <1>6, <1>a, Zenon DEF ReadIdles, ReaderType, Phase, Ending
<1>7. CASE UNCHANGED <<scene, relayvars>>
  BY <1>7, <1>s, Zenon DEF relayvars, Phase, Ending
<1>8. QED
  BY <1>1, <1>2, <1>3, <1>4, <1>5, <1>6, <1>7, Zenon DEF RelayStep, RelayWork, RelayFault

\* A reader that has the whole file ends well only after a transfer that did.
LEMMA CompleteStep ==
  ASSUME RelayTypeOK, RelayTypeOK', Covered, Complete, [RelayStep]_<<scene, relayvars>>
  PROVE  Phase'
<1> USE DEF Complete
<1>a. sender \in SenderType /\ sink \in SinkType /\ reader \in ReaderType
  BY Zenon DEF RelayTypeOK
<1>s. ASSUME reader'.got = reader.got, reader'.pc \in {"result", "eof"}, sink' = sink,
             sender'.pc \in {"finished", "ok"}, reader'.pc = "eof" => sender'.pc = "ok"
      PROVE Complete'
  BY <1>s, Zenon
<1>1. CASE MakesSink \/ WriteStarts \/ PutLands \/ SinkFinishes \/ Metadata \/ TakesChunk
           \/ ChunkSent \/ ReadIdles
  BY <1>1, Zenon DEF MakesSink, WriteStarts, PutLands, SinkFinishes, Metadata, TakesChunk, ChunkSent, ReadIdles
<1>2. CASE SenderSucceeds
  BY <1>2, <1>a, <1>s, Zenon DEF SenderSucceeds, SenderType, Phase
<1>3. CASE SenderBreaks
  BY <1>3, <1>a, Zenon DEF SenderBreaks, TransferFails, SenderEnds, SenderType, Phase
<1>4. CASE TransferResult
  <2>1. CASE reader' = [reader EXCEPT !.pc = "eof"] /\ sender.pc = "ok" /\ UNCHANGED <<sender, sink>>
    BY <2>1, <1>a, <1>s, Zenon DEF ReaderType, Phase
  <2>2. CASE reader' = [reader EXCEPT !.pc = "closing"]
    BY <2>2, <1>a, Zenon DEF ReaderType, Phase
  <2>3. QED
    BY <1>4, <2>1, <2>2, Zenon DEF TransferResult
<1>5. CASE Closes
  <2>1. reader.pc = "eof" /\ sender.pc = "ok"
    BY <1>5, Zenon DEF Closes
  <2>2. sink' = sink
    BY <1>5, Zenon DEF Closes, StopsTransfer, SinkAborted
  <2>3. reader'.got = reader.got /\ reader'.pc = "eof" /\ sender'.pc = "ok"
    BY <2>1, <1>5, <1>a, Zenon DEF Closes, StopsTransfer, ReaderType, SenderType
  <2>4. QED
    BY <2>2, <2>3, <1>s, Zenon DEF Phase
<1>6. CASE UNCHANGED <<scene, relayvars>>
  BY <1>6, <1>s, Zenon DEF relayvars, Phase
<1>7. QED
  BY <1>1, <1>2, <1>3, <1>4, <1>5, <1>6, Zenon DEF RelayStep, RelayWork, RelayFault

\* Every step of a relay, of its transfer and of its reader keeps the invariant.
LEMMA RelayInvKept == RelayInv /\ [RelayStep]_<<scene, relayvars>> => RelayInv'
<1> SUFFICES ASSUME RelayInv, [RelayStep]_<<scene, relayvars>>
             PROVE RelayInv'
  BY Zenon
<1>1. RelayTypeOK /\ RelayTypeOK' /\ Covered /\ Covered' /\ Phase
  BY RelayTypes, CoveredKept, Zenon DEF RelayInv
<1>2. scene' = "relay"
  BY Zenon DEF RelayInv, RelayStep
<1>3. Phase'
  <2>1. CASE reader.pc = "closing" \/ (sender.pc = "failed" /\ reader.pc # "eof")
    BY <2>1, <1>1, GivenUp, Zenon DEF Phase
  <2>2. QED
    BY <2>1, <1>1, ArrivingStep, EndingStep, CompleteStep, Zenon DEF Phase
<1>4. QED
  BY <1>1, <1>2, <1>3, Zenon DEF RelayInv

\* The reader of a relay that ended well has every chunk in its place.
LEMMA RelayInvHonest == RelayInv => RelayHonest
<1> SUFFICES ASSUME RelayInv PROVE RelayHonest
  BY Zenon
<1>1. LeaseCoversTransfer
  BY Zenon DEF RelayInv, Covered, LeaseCoversTransfer
<1>2. ASSUME reader.pc = "eof" PROVE reader.got = WholeFile
  <2>1. Complete
    BY <1>2, Zenon DEF RelayInv, Phase, Arriving, Ending
  <2>2. reader.got \in Seq(Nat)
    BY Zenon DEF RelayInv, RelayTypeOK, ReaderType
  <2>3. DOMAIN reader.got = 1 .. RelayChunks /\ \A i \in 1 .. RelayChunks : reader.got[i] = i
    BY <2>1, <2>2, RelayBounds DEF Complete, InOrder
  <2>4. reader.got = [i \in DOMAIN reader.got |-> reader.got[i]]
    BY <2>2
  <2>5. QED
    BY <2>3, <2>4, Zenon DEF WholeFile
<1>3. QED
  BY <1>1, <1>2, Zenon DEF RelayHonest, EofHonest

\* For every length of a file, every bound of the queue and every number of timeouts,
\* failures and disconnections: a download, or a media stream of a channel, that ends
\* without an error has delivered the whole file of the device, and its admission is
\* given back only when the transfer has ended (api/workspace_files.py, channels/media.py).
THEOREM RelayIsHonest == RelaySpec => []RelayHonest
<1>1. scene = "relay" /\ RelayInit => RelayInv
  <2> SUFFICES ASSUME scene = "relay", RelayInit PROVE RelayInv
    BY Zenon
  <2>1. <<>> \in Seq(Nat) /\ Len(<<>>) = 0
    OBVIOUS
  <2>2. RelayTypeOK
    BY <2>1, Zenon DEF RelayInit, RelayTypeOK, SenderType, SinkType, ReaderType
  <2>3. Covered /\ Phase
    BY <2>1, RelayBounds DEF RelayInit, Covered, Phase, Arriving, InOrder, Follows
  <2>4. QED
    BY <2>2, <2>3, Zenon DEF RelayInv
<1>2. QED
  BY <1>1, RelayInvKept, RelayInvHonest, PTL DEF RelaySpec, RelayStep

-----------------------------------------------------------------------------
(***************************************************************************)
(* The object store's connections.                                         *)
(***************************************************************************)
Kinds == {"copy", "read", "write"}
Early == {"new", "open", "opening"}
Late == {"finish", "full", "await", "drop", "staged"}
Pcs == Early \cup {"begin", "move", "abort"} \cup Late \cup Final
WorkType ==
    [pc : Pcs, stream : {"none", "open", "closed"}, read : Nat, held : BOOLEAN, doomed : BOOLEAN]
Ws == {"none", "queued", "putting", "done", "failed"}
Chunks == Seq(Nat)
UploadType == [w : Ws, q : Chunks, data : Chunks, cancelled : BOOLEAN]
PoolTypeOK ==
    /\ kind \in [Works -> Kinds] /\ free \in Int
    /\ work \in [Works -> WorkType] /\ upload \in [Works -> UploadType]
    /\ temp \in [Works -> Chunks] /\ final \in [Works -> Chunks]
    /\ left \subseteq Works /\ serving \in BOOLEAN /\ hurt \in Nat

\* When work of kind k has a stream s at its point p: not before it is opened, always
\* while it is read from, never after its end.
StreamOK(p, s, k) ==
    /\ p \in Early => s = "none"
    /\ p \in {"begin", "move"} /\ k # "write" => s = "open"
    /\ p = "begin" => k # "read"
    /\ p \in Late \cup Final => s # "open"

\* When an upload has a worker w: not before its begin, and never past the end of its work.
WorkerOK(p, k, r, h, w, q, d) ==
    /\ p \in Early \cup {"begin"} => w = "none" /\ q = <<>> /\ d = <<>> /\ r = 0 /\ ~h
    /\ k = "read" => w = "none"
    /\ w \in {"queued", "putting"} => p \in {"move", "finish", "full", "await", "abort"}

\* The worker has the first chunks d of the file, what is queued follows them, and the
\* chunk to be queued next follows those.
Begun(d) == \A i \in 1 .. Len(d) : d[i] = i
Continued(q, n) == \A i \in 1 .. Len(q) : q[i] \in {EndMark, n + i}
One(b) == IF b THEN 1 ELSE 0
Moving(p, k, w) == p = "move" /\ k # "read" /\ w \notin {"done", "failed"}
DataOK(p, k, r, h, w, q, d) ==
    /\ Begun(d) /\ Continued(q, Len(d))
    /\ Moving(p, k, w) => Len(d) + Len(q) + One(h) = r

\* What is stored (m) and what is published (x); g: the temporary object was left behind.
StoreOK(p, k, w, m, x, g) ==
    /\ m \in {<<>>, Contents} /\ x \in {<<>>, Contents}
    /\ p = "ok" /\ k # "read" => x = Contents
    /\ serving /\ w = "none" => m = <<>>
    /\ serving /\ m # <<>> => p \notin Final \/ g

\* A connection is held by a stream, or by the request for one; and by a worker.
Streaming == {t \in Works : HasStream(t) \/ work[t].pc = "opening"}
Putting == {t \in Works : upload[t].w = "putting"}
Conserved == free = Connections - Cardinality(Streaming) - Cardinality(Putting)

Local(t) ==
    LET k == work[t]
        u == upload[t]
    IN /\ StreamOK(k.pc, k.stream, kind[t])
       /\ WorkerOK(k.pc, kind[t], k.read, k.held, u.w, u.q, u.data)
       /\ DataOK(k.pc, kind[t], k.read, k.held, u.w, u.q, u.data)
       /\ StoreOK(k.pc, kind[t], u.w, temp[t], final[t], t \in left)

PoolInv ==
    /\ PoolTypeOK /\ scene = "pool" /\ \A t \in Works : Local(t)
    /\ Conserved /\ Cardinality(Copying) <= ServerTransferCapacity

\* What a step of the work t leaves alone.
Others(t) ==
    \A u \in Works \ {t} : /\ work'[u] = work[u] /\ upload'[u] = upload[u]
                           /\ temp'[u] = temp[u] /\ final'[u] = final[u]
                           /\ u \in left' <=> u \in left

\* A step of t takes as many connections as it comes to hold.
Holds(t) == HasStream(t) \/ work[t].pc = "opening"
Balance(t) ==
    free' + One(Holds(t)') + One(upload'[t].w = "putting")
    = free + One(Holds(t)) + One(upload[t].w = "putting")

\* Only Begins makes t one of the copies that run.
Settled(t) == t \in Copying' => t \in Copying

\* What every step of the work t does, and the situation it is taken in.
Good(t) == PoolTypeOK' /\ Others(t) /\ Local(t)' /\ Balance(t)
Ready(t) == PoolTypeOK /\ Local(t) /\ serving /\ UNCHANGED <<kind, serving>>

\* A set of works that only t can join or leave grows or shrinks by at most one.
LEMMA CountMoves ==
  ASSUME NEW S \in SUBSET Works, NEW T \in SUBSET Works, NEW t \in Works,
         \A u \in Works \ {t} : u \in S <=> u \in T
  PROVE  /\ Cardinality(S) \in Nat /\ Cardinality(T) \in Nat
         /\ (t \in S <=> t \in T) => Cardinality(T) = Cardinality(S)
         /\ t \notin S /\ t \in T => Cardinality(T) = Cardinality(S) + 1
         /\ t \in S /\ t \notin T => Cardinality(T) = Cardinality(S) - 1
<1>1. IsFiniteSet(S) /\ IsFiniteSet(T)
  BY PoolBounds, FS_Subset, Zenon
<1>2. Cardinality(S) \in Nat /\ Cardinality(T) \in Nat
  BY <1>1, FS_CardinalityType, Zenon
<1>3. ASSUME t \in S <=> t \in T PROVE S = T
  BY <1>3
<1>4. ASSUME t \notin S, t \in T PROVE Cardinality(T) = Cardinality(S) + 1
  <2>1. T = S \cup {t}
    BY <1>4, Zenon
  <2>2. QED
    BY <2>1, <1>1, <1>4, FS_AddElement, Zenon
<1>5. ASSUME t \in S, t \notin T PROVE Cardinality(T) = Cardinality(S) - 1
  <2>1. T = S \ {t}
    BY <1>5, Zenon
  <2>2. QED
    BY <2>1, <1>1, <1>5, FS_RemoveElement, Zenon
<1>6. QED
  BY <1>2, <1>3, <1>4, <1>5, Zenon

\* The table g has a record of t with the given fields, and otherwise the records of f.
WorkIs(f, g, t, p, s, r, h) ==
    /\ g \in [Works -> WorkType] /\ \A u \in Works \ {t} : g[u] = f[u]
    /\ g[t].pc = p /\ g[t].stream = s /\ g[t].read = r /\ g[t].held = h
Becomes(t, p, s, r, h) == WorkIs(work, work', t, p, s, r, h)
UploadIs(f, g, t, w, q, d) ==
    /\ g \in [Works -> UploadType] /\ \A u \in Works \ {t} : g[u] = f[u]
    /\ g[t].w = w /\ g[t].q = q /\ g[t].data = d
Uploads(t, w, q, d) == UploadIs(upload, upload', t, w, q, d)

\* The updates of one field of a work's record.
LEMMA PcField ==
  ASSUME NEW t \in Works, NEW f \in [Works -> WorkType], NEW p \in Pcs
  PROVE  WorkIs(f, [f EXCEPT ![t].pc = p], t, p, f[t].stream, f[t].read, f[t].held)
BY Zenon DEF WorkIs, WorkType

\* The record of a work whose stream alone changes.
LEMMA StreamField ==
  ASSUME NEW t \in Works, NEW f \in [Works -> WorkType], NEW s \in {"none", "open", "closed"}
  PROVE  WorkIs(f, [f EXCEPT ![t].stream = s], t, f[t].pc, s, f[t].read, f[t].held)
BY Zenon DEF WorkIs, WorkType

\* The record of a work whose count of chunks read alone changes.
LEMMA ReadField ==
  ASSUME NEW t \in Works, NEW f \in [Works -> WorkType], NEW r \in Nat
  PROVE  WorkIs(f, [f EXCEPT ![t].read = r], t, f[t].pc, f[t].stream, r, f[t].held)
BY Zenon DEF WorkIs, WorkType

\* The record of a work whose held connection alone changes.
LEMMA HeldField ==
  ASSUME NEW t \in Works, NEW f \in [Works -> WorkType], NEW h \in BOOLEAN
  PROVE  WorkIs(f, [f EXCEPT ![t].held = h], t, f[t].pc, f[t].stream, f[t].read, h)
BY Zenon DEF WorkIs, WorkType

\* The record of a work whose doom alone changes.
LEMMA DoomedField ==
  ASSUME NEW t \in Works, NEW f \in [Works -> WorkType], NEW h \in BOOLEAN
  PROVE  WorkIs(f, [f EXCEPT ![t].doomed = h], t, f[t].pc, f[t].stream, f[t].read, f[t].held)
BY Zenon DEF WorkIs, WorkType

\* The updates of a work's record.
LEMMA WorkShapes ==
  ASSUME NEW t \in Works, work \in [Works -> WorkType], NEW p \in Pcs, NEW r \in Nat,
         NEW s \in {"none", "open", "closed"}, NEW h \in BOOLEAN
  PROVE  LET k == work[t] IN
         /\ UNCHANGED work => Becomes(t, k.pc, k.stream, k.read, k.held)
         /\ To(t, p) => Becomes(t, p, k.stream, k.read, k.held)
         /\ work' = [work EXCEPT ![t].stream = s, ![t].pc = p]
               => Becomes(t, p, s, k.read, k.held)
         /\ work' = [work EXCEPT ![t].pc = p, ![t].stream = s]
               => Becomes(t, p, s, k.read, k.held)
         /\ work' = [work EXCEPT ![t].read = r, ![t].held = h]
               => Becomes(t, k.pc, k.stream, r, h)
         /\ work' = [work EXCEPT ![t].held = h] => Becomes(t, k.pc, k.stream, k.read, h)
         /\ work' = [work EXCEPT ![t].doomed = h] => Becomes(t, k.pc, k.stream, k.read, k.held)
<1> DEFINE k == work[t]
<1>1. UNCHANGED work => Becomes(t, k.pc, k.stream, k.read, k.held)
  BY Zenon DEF Becomes, WorkIs
<1>2. To(t, p) => Becomes(t, p, k.stream, k.read, k.held)
  BY PcField, Zenon DEF Becomes, To
<1>3. work' = [work EXCEPT ![t].stream = s, ![t].pc = p]
         => Becomes(t, p, s, k.read, k.held)
  <2> DEFINE f == [work EXCEPT ![t].stream = s]
  <2>1. WorkIs(work, f, t, k.pc, s, k.read, k.held)
    BY StreamField, Zenon
  <2>2. [work EXCEPT ![t].stream = s, ![t].pc = p] = [f EXCEPT ![t].pc = p]
    BY Zenon
  <2> HIDE DEF f
  <2>3. WorkIs(f, [f EXCEPT ![t].pc = p], t, p, f[t].stream, f[t].read, f[t].held)
    <3>1. f \in [Works -> WorkType]
      BY <2>1, Zenon DEF WorkIs
    <3>2. QED
      BY <3>1, PcField, Zenon
  <2>4. QED
    BY <2>1, <2>2, <2>3, Zenon DEF Becomes, WorkIs
<1>4. work' = [work EXCEPT ![t].pc = p, ![t].stream = s]
         => Becomes(t, p, s, k.read, k.held)
  <2> DEFINE f == [work EXCEPT ![t].pc = p]
  <2>1. WorkIs(work, f, t, p, k.stream, k.read, k.held)
    BY PcField, Zenon
  <2>2. [work EXCEPT ![t].pc = p, ![t].stream = s] = [f EXCEPT ![t].stream = s]
    BY Zenon
  <2> HIDE DEF f
  <2>3. WorkIs(f, [f EXCEPT ![t].stream = s], t, f[t].pc, s, f[t].read, f[t].held)
    <3>1. f \in [Works -> WorkType]
      BY <2>1, Zenon DEF WorkIs
    <3>2. QED
      BY <3>1, StreamField, Zenon
  <2>4. QED
    BY <2>1, <2>2, <2>3, Zenon DEF Becomes, WorkIs
<1>5. work' = [work EXCEPT ![t].read = r, ![t].held = h]
         => Becomes(t, k.pc, k.stream, r, h)
  <2> DEFINE f == [work EXCEPT ![t].read = r]
  <2>1. WorkIs(work, f, t, k.pc, k.stream, r, k.held)
    BY ReadField, Zenon
  <2>2. [work EXCEPT ![t].read = r, ![t].held = h] = [f EXCEPT ![t].held = h]
    BY Zenon
  <2> HIDE DEF f
  <2>3. WorkIs(f, [f EXCEPT ![t].held = h], t, f[t].pc, f[t].stream, f[t].read, h)
    <3>1. f \in [Works -> WorkType]
      BY <2>1, Zenon DEF WorkIs
    <3>2. QED
      BY <3>1, HeldField, Zenon
  <2>4. QED
    BY <2>1, <2>2, <2>3, Zenon DEF Becomes, WorkIs
<1>6. work' = [work EXCEPT ![t].held = h] => Becomes(t, k.pc, k.stream, k.read, h)
  BY DEF Becomes, WorkIs, WorkType
<1>7. work' = [work EXCEPT ![t].doomed = h] => Becomes(t, k.pc, k.stream, k.read, k.held)
  BY DoomedField, Zenon DEF Becomes
<1>8. QED
  BY <1>1, <1>2, <1>3, <1>4, <1>5, <1>6, <1>7, Zenon

\* The updates of one field of an upload.
LEMMA WField ==
  ASSUME NEW t \in Works, NEW f \in [Works -> UploadType], NEW w \in Ws
  PROVE  UploadIs(f, [f EXCEPT ![t].w = w], t, w, f[t].q, f[t].data)
BY Zenon DEF UploadIs, UploadType

\* The record of an upload whose queue alone changes.
LEMMA QField ==
  ASSUME NEW t \in Works, NEW f \in [Works -> UploadType], NEW q \in Chunks
  PROVE  UploadIs(f, [f EXCEPT ![t].q = q], t, f[t].w, q, f[t].data)
BY Zenon DEF UploadIs, UploadType

\* The record of an upload whose written chunks alone change.
LEMMA DataField ==
  ASSUME NEW t \in Works, NEW f \in [Works -> UploadType], NEW d \in Chunks
  PROVE  UploadIs(f, [f EXCEPT ![t].data = d], t, f[t].w, f[t].q, d)
BY Zenon DEF UploadIs, UploadType

\* The record of an upload whose cancellation alone changes.
LEMMA CancelledField ==
  ASSUME NEW t \in Works, NEW f \in [Works -> UploadType], NEW c \in BOOLEAN
  PROVE  UploadIs(f, [f EXCEPT ![t].cancelled = c], t, f[t].w, f[t].q, f[t].data)
BY Zenon DEF UploadIs, UploadType

\* The worker moves the head of its queue to its data.
LEMMA UploadTakes ==
  ASSUME NEW t \in Works, upload \in [Works -> UploadType], upload[t].q # <<>>,
         upload' = [upload EXCEPT ![t].q = Tail(@), ![t].data = Append(@, Head(upload[t].q))]
  PROVE  Uploads(t, upload[t].w, Tail(upload[t].q), Append(upload[t].data, Head(upload[t].q)))
<1> DEFINE k == upload[t]
           f == [upload EXCEPT ![t].q = Tail(k.q)]
           d == Append(k.data, Head(k.q))
<1>1. k.q \in Chunks /\ k.data \in Chunks
  BY Zenon DEF UploadType
<1>2. Tail(k.q) \in Chunks /\ Head(k.q) \in Nat
  BY <1>1 DEF Chunks
<1>3. d \in Chunks
  BY <1>1, <1>2 DEF Chunks
<1>4. UploadIs(upload, f, t, k.w, Tail(k.q), k.data)
  BY <1>2, QField, Zenon
<1>5. upload' = [f EXCEPT ![t].data = Append(@, Head(k.q))]
  BY Zenon
<1> HIDE DEF f
<1>6. upload' = [f EXCEPT ![t].data = d]
  BY <1>4, <1>5, Zenon DEF UploadIs
<1> HIDE DEF d
<1>7. UploadIs(f, [f EXCEPT ![t].data = d], t, f[t].w, f[t].q, d)
  <2>1. f \in [Works -> UploadType]
    BY <1>4, Zenon DEF UploadIs
  <2>2. QED
    BY <2>1, <1>3, DataField, Zenon
<1>8. QED
  BY <1>4, <1>6, <1>7, Zenon DEF Uploads, UploadIs, d

\* The updates of an upload.
LEMMA UploadShapes ==
  ASSUME NEW t \in Works, upload \in [Works -> UploadType], NEW c \in BOOLEAN, NEW x \in Nat,
         NEW w \in Ws
  PROVE  LET k == upload[t] IN
         /\ UNCHANGED upload => Uploads(t, k.w, k.q, k.data)
         /\ upload' = [upload EXCEPT ![t].w = w] => Uploads(t, w, k.q, k.data)
         /\ upload' = [upload EXCEPT ![t].cancelled = c] => Uploads(t, k.w, k.q, k.data)
         /\ upload' = Enqueue(t, x) => Uploads(t, k.w, Append(k.q, x), k.data)
<1> DEFINE k == upload[t]
<1>1. UNCHANGED upload => Uploads(t, k.w, k.q, k.data)
  BY Zenon DEF Uploads, UploadIs
<1>2. upload' = [upload EXCEPT ![t].w = w] => Uploads(t, w, k.q, k.data)
  BY WField, Zenon DEF Uploads
<1>3. upload' = [upload EXCEPT ![t].cancelled = c] => Uploads(t, k.w, k.q, k.data)
  BY CancelledField, Zenon DEF Uploads
<1>4. k.q \in Chunks /\ k.data \in Chunks
  BY Zenon DEF UploadType
<1>5. upload' = Enqueue(t, x) => Uploads(t, k.w, Append(k.q, x), k.data)
  <2>1. Append(k.q, x) \in Chunks
    BY <1>4 DEF Chunks
  <2>2. QED
    BY <2>1, QField, Zenon DEF Enqueue, Uploads
<1>6. QED
  BY <1>1, <1>2, <1>3, <1>5, Zenon

\* What is known of the work t and of its upload before a step.
LEMMA Known ==
  ASSUME NEW t \in Works, Ready(t)
  PROVE  /\ work \in [Works -> WorkType] /\ upload \in [Works -> UploadType]
         /\ work[t].pc \in Pcs /\ work[t].stream \in {"none", "open", "closed"}
         /\ work[t].read \in Nat /\ work[t].held \in BOOLEAN
         /\ upload[t].w \in Ws /\ upload[t].q \in Chunks /\ upload[t].data \in Chunks
         /\ kind[t] \in Kinds /\ free \in Int /\ temp[t] \in Chunks /\ final[t] \in Chunks
         /\ hurt \in Nat /\ left \subseteq Works /\ serving
<1>1. PoolTypeOK /\ serving
  BY Zenon DEF Ready
<1>2. work[t] \in WorkType /\ upload[t] \in UploadType
  BY <1>1, Zenon DEF PoolTypeOK
<1>3. QED
  BY <1>1, <1>2, Zenon DEF PoolTypeOK, WorkType, UploadType

\* A step that gives the record, the upload and the objects of t new values is good when
\* the new values are.
LEMMA Assemble ==
  ASSUME NEW t \in Works, Ready(t), NEW p, NEW s, NEW r, NEW h, NEW w, NEW q, NEW d,
         NEW m \in Chunks, NEW x \in Chunks,
         Becomes(t, p, s, r, h), Uploads(t, w, q, d),
         temp' = [temp EXCEPT ![t] = m], final' = [final EXCEPT ![t] = x],
         left' \in {left, left \cup {t}}, hurt' \in Nat, free' \in Int,
         StreamOK(p, s, kind[t]), WorkerOK(p, kind[t], r, h, w, q, d),
         DataOK(p, kind[t], r, h, w, q, d), StoreOK(p, kind[t], w, m, x, t \in left'),
         free' + One(s = "open" \/ p = "opening") + One(w = "putting")
         = free + One(Holds(t)) + One(upload[t].w = "putting")
  PROVE  Good(t)
<1>1. PoolTypeOK /\ kind' = kind /\ serving' = serving
  BY Zenon DEF Ready
<1>2. temp' \in [Works -> Chunks] /\ final' \in [Works -> Chunks] /\ left' \subseteq Works
  BY <1>1, Zenon DEF PoolTypeOK
<1>3. PoolTypeOK'
  BY <1>1, <1>2, Zenon DEF PoolTypeOK, Becomes, WorkIs, Uploads, UploadIs
<1>4. temp'[t] = m /\ final'[t] = x
  BY <1>1, Zenon DEF PoolTypeOK
<1>5. /\ work'[t].pc = p /\ work'[t].stream = s /\ work'[t].read = r /\ work'[t].held = h
      /\ upload'[t].w = w /\ upload'[t].q = q /\ upload'[t].data = d
  BY Zenon DEF Becomes, WorkIs, Uploads, UploadIs
<1>6. \A u \in Works \ {t} : temp'[u] = temp[u] /\ final'[u] = final[u] /\ (u \in left' <=> u \in left)
  BY <1>1, Zenon DEF PoolTypeOK
<1>7. Others(t)
  BY <1>6, Zenon DEF Others, Becomes, WorkIs, Uploads, UploadIs
<1>8. Balance(t)
  BY <1>5, Zenon DEF Balance, Holds, HasStream
<1>9. Local(t)'
  BY <1>1, <1>4, <1>5, Zenon DEF Local, StreamOK, WorkerOK, DataOK, StoreOK
<1>10. QED
  BY <1>3, <1>7, <1>8, <1>9, Zenon DEF Good

\* The objects of t stay as they are.
Stored(t) == temp' = [temp EXCEPT ![t] = temp[t]] /\ final' = [final EXCEPT ![t] = final[t]]

\* A step that touches neither the temporary nor the final object of any work.
LEMMA StoreStays ==
  ASSUME NEW t \in Works, Ready(t), UNCHANGED <<temp, final>>
  PROVE  Stored(t)
BY Zenon DEF Ready, PoolTypeOK, Stored

\* A step that only moves the work on, and may close or open its stream.
LEMMA Plain ==
  ASSUME NEW t \in Works, Ready(t), NEW p, NEW s,
         Becomes(t, p, s, work[t].read, work[t].held),
         Uploads(t, upload[t].w, upload[t].q, upload[t].data),
         UNCHANGED <<temp, final, left>>, hurt' \in Nat, free' \in Int,
         StreamOK(p, s, kind[t]),
         p \in Early \cup {"begin"} => work[t].pc \in Early \cup {"begin"},
         upload[t].w \in {"queued", "putting"} => p \in {"move", "finish", "full", "await", "abort"},
         p = "move" => work[t].pc \in Early \cup {"move"},
         p = "ok" => kind[t] = "read",
         p \in Final => upload[t].w = "none",
         free' + One(s = "open" \/ p = "opening") = free + One(Holds(t))
  PROVE  Good(t)
<1> DEFINE k == work[t]
           v == upload[t]
<1>1. Local(t) /\ serving /\ temp[t] \in Chunks /\ final[t] \in Chunks /\ free \in Int
  BY Known, Zenon DEF Ready
<1>2. Stored(t)
  BY StoreStays, Zenon
<1>3. WorkerOK(p, kind[t], k.read, k.held, v.w, v.q, v.data)
  BY <1>1, Zenon DEF Local, WorkerOK
<1>4. DataOK(p, kind[t], k.read, k.held, v.w, v.q, v.data)
  <2>1. CASE k.pc \in Early /\ p = "move"
    <3>1. v.q = <<>> /\ v.data = <<>> /\ k.read = 0 /\ ~k.held
      BY <1>1, <2>1, Zenon DEF Local, WorkerOK
    <3>2. Len(v.data) + Len(v.q) + One(k.held) = k.read
      BY <3>1 DEF One
    <3>3. QED
      BY <1>1, <3>2, Zenon DEF Local, DataOK
  <2>2. CASE ~(k.pc \in Early /\ p = "move")
    BY <1>1, <2>2, Zenon DEF Local, DataOK, Moving
  <2>3. QED
    BY <2>1, <2>2, Zenon
<1>5. StoreOK(p, kind[t], v.w, temp[t], final[t], t \in left')
  BY <1>1, Zenon DEF Local, StoreOK, Final
<1>6. /\ One(s = "open" \/ p = "opening") \in Int /\ One(Holds(t)) \in Int
      /\ One(v.w = "putting") \in Int
  BY DEF One
<1>7. free' + One(s = "open" \/ p = "opening") + One(v.w = "putting")
      = free + One(Holds(t)) + One(v.w = "putting")
  BY <1>1, <1>6, Zenon
<1>8. QED
  BY <1>1, <1>2, <1>3, <1>4, <1>5, <1>7, Assemble, Zenon DEF Stored

\* The steps up to the open stream.
LEMMA GoodOpening ==
  ASSUME NEW t \in Works, Ready(t), Begins(t) \/ TakesConnection(t) \/ Opens(t)
  PROVE  Good(t)
<1> USE Known DEF Hurts, Unhurt
<1>a. Local(t)
  BY Zenon DEF Ready
<1>s. StreamOK(work[t].pc, work[t].stream, kind[t]) /\ (work[t].pc \in Early => upload[t].w = "none")
  BY <1>a, Zenon DEF Local, WorkerOK
<1>u. Uploads(t, upload[t].w, upload[t].q, upload[t].data)
  BY UploadShapes, Zenon DEF Begins, TakesConnection, Opens
<1> USE DEF StreamOK, Early, Late, Final, Pcs, Holds, HasStream, One
<1>1. CASE Begins(t)
  <2> DEFINE p == IF kind[t] = "write" THEN "begin" ELSE "open"
  <2>1. Becomes(t, p, work[t].stream, work[t].read, work[t].held)
    BY <1>1, WorkShapes, Zenon DEF Begins
  <2>2. work[t].pc = "new" /\ free' = free /\ hurt' \in Nat /\ UNCHANGED <<temp, final, left>>
    BY <1>1, Zenon DEF Begins
  <2>3. StreamOK(p, work[t].stream, kind[t]) /\ p \in {"begin", "open"}
    BY <2>2, <1>s, Zenon
  <2> HIDE DEF p
  <2>4. QED
    BY <2>1, <2>2, <2>3, <1>s, <1>u, Plain, Zenon
<1>2. CASE TakesConnection(t)
  <2>1. Becomes(t, "opening", work[t].stream, work[t].read, work[t].held)
    BY <1>2, WorkShapes, Zenon DEF TakesConnection
  <2>2. work[t].pc = "open" /\ free' = free - 1 /\ hurt' \in Nat /\ UNCHANGED <<temp, final, left>>
    BY <1>2, Zenon DEF TakesConnection
  <2>3. StreamOK("opening", work[t].stream, kind[t])
    BY <2>2, <1>s, Zenon
  <2>4. free' \in Int /\ free' + One(work[t].stream = "open" \/ "opening" = "opening") = free + One(Holds(t))
    BY <2>2, <1>s
  <2>5. QED
    BY <2>1, <2>2, <2>3, <2>4, <1>s, <1>u, Plain
<1>3. CASE Opens(t)
  <2> DEFINE p == IF kind[t] = "copy" THEN "begin" ELSE "move"
  <2>1. work[t].pc = "opening" /\ hurt' \in Nat /\ UNCHANGED <<temp, final, left>>
    BY <1>3 DEF Opens
  <2>2. CASE free' = free /\ work' = [work EXCEPT ![t].stream = "open", ![t].pc = p]
    <3>1. Becomes(t, p, "open", work[t].read, work[t].held)
      BY <2>2, WorkShapes, Zenon
    <3>2. StreamOK(p, "open", kind[t]) /\ p \in {"begin", "move"}
      BY Zenon
    <3> HIDE DEF p
    <3>3. QED
      BY <2>1, <2>2, <3>1, <3>2, <1>s, <1>u, Plain, Zenon
  <2>3. CASE free' = free + 1 /\ To(t, "failed")
    <3>1. Becomes(t, "failed", work[t].stream, work[t].read, work[t].held)
      BY <2>3, WorkShapes, Zenon
    <3>2. StreamOK("failed", work[t].stream, kind[t])
      BY <2>1, <1>s, Zenon
    <3>3. free' \in Int /\ free' + One(work[t].stream = "open" \/ "failed" = "opening") = free + One(Holds(t))
      BY <2>1, <2>3, <1>s
    <3>4. upload[t].w = "none"
      BY <2>1, <1>s, Zenon
    <3> HIDE DEF StreamOK, Holds, HasStream, One, Pcs, Late
    <3>5. QED
      BY <2>1, <3>1, <3>2, <3>3, <3>4, <1>u, Plain, Zenon
  <2>4. QED
    BY <1>3, <2>2, <2>3, Zenon DEF Opens
<1>4. QED
  BY <1>1, <1>2, <1>3, Zenon

\* The end of a piece of work, or its failure, closes a stream it has: p is where it goes.
Closed(t) == IF HasStream(t) THEN "closed" ELSE work[t].stream

\* The step that closes the stream of a read or a copy, and so returns its
\* connection, when the read ends or the copy cannot begin or move.
LEMMA GoodClosing ==
  ASSUME NEW t \in Works, Ready(t), NEW p \in {"ok", "failed", "finish", "abort"},
         \/ work' = [work EXCEPT ![t].pc = p, ![t].stream = Closed(t)]
         \/ work' = [work EXCEPT ![t].stream = Closed(t), ![t].pc = p],
         free' = free + (IF HasStream(t) THEN 1 ELSE 0),
         Uploads(t, upload[t].w, upload[t].q, upload[t].data),
         UNCHANGED <<temp, final, left>>, hurt' \in Nat,
         work[t].pc \in {"begin", "move"},
         p \in Final => kind[t] = "read" \/ work[t].pc = "begin",
         p = "ok" => kind[t] = "read",
         upload[t].w \in {"queued", "putting"} => p \in {"finish", "abort"}
  PROVE  Good(t)
<1> USE Known
<1>1. Closed(t) \in {"none", "open", "closed"} /\ Closed(t) # "open" /\ p \in Pcs
  BY Zenon DEF Closed, HasStream, Pcs, Late, Final
<1>2. Becomes(t, p, Closed(t), work[t].read, work[t].held)
  BY <1>1, WorkShapes, Zenon
<1>3. StreamOK(p, Closed(t), kind[t])
  BY <1>1, Zenon DEF StreamOK, Early
<1>4. free' \in Int /\ free' + One(Closed(t) = "open" \/ p = "opening") = free + One(Holds(t))
  BY <1>1 DEF One, Holds, HasStream
<1>5. p \in Final => upload[t].w = "none"
  BY Zenon DEF Ready, Local, WorkerOK
<1>6. QED
  BY <1>2, <1>3, <1>4, <1>5, Plain, Zenon DEF Early, Final

\* A step that only moves the work on: it keeps its stream, its upload and its objects.
LEMMA GoodMove ==
  ASSUME NEW t \in Works, Ready(t), NEW p \in {"abort", "await", "full", "drop", "staged"},
         To(t, p), Uploads(t, upload[t].w, upload[t].q, upload[t].data),
         UNCHANGED <<free, temp, final, left>>, hurt' \in Nat,
         work[t].pc # "opening",
         p = "abort" \/ ~HasStream(t),
         upload[t].w \in {"queued", "putting"} => p \in {"await", "full", "abort"}
  PROVE  Good(t)
<1> USE Known
<1>1. Becomes(t, p, work[t].stream, work[t].read, work[t].held)
  BY WorkShapes, Zenon DEF Pcs, Late
<1>2. StreamOK(p, work[t].stream, kind[t])
  BY Zenon DEF StreamOK, Early, Late, Final, HasStream
<1>3. free' \in Int /\ free' + One(work[t].stream = "open" \/ p = "opening") = free + One(Holds(t))
  BY Zenon DEF One, Holds, HasStream
<1>4. QED
  BY <1>1, <1>2, <1>3, Plain, Zenon DEF Early, Final

\* A step of the reader or of the body of a response.
LEMMA GoodReads ==
  ASSUME NEW t \in Works, Ready(t), Reads(t) \/ Sends(t)
  PROVE  Good(t)
<1> DEFINE k == work[t]
           v == upload[t]
<1> USE Known DEF Hurts, Unhurt
<1>a. Local(t) /\ k.pc = "move" /\ hurt' \in Nat /\ UNCHANGED <<temp, final, left>>
  BY DEF Ready, Reads, Sends
<1>b. StreamOK(k.pc, k.stream, kind[t]) /\ WorkerOK(k.pc, kind[t], k.read, k.held, v.w, v.q, v.data)
      /\ DataOK(k.pc, kind[t], k.read, k.held, v.w, v.q, v.data)
      /\ StoreOK(k.pc, kind[t], v.w, temp[t], final[t], t \in left)
  BY <1>a, Zenon DEF Local
<1>c. ASSUME NEW r \in Nat, NEW h \in BOOLEAN, Becomes(t, k.pc, k.stream, r, h),
             UNCHANGED <<free, upload>>,
             kind[t] = "read" \/ r - One(h) = k.read - One(k.held)
      PROVE Good(t)
  <2>1. Uploads(t, v.w, v.q, v.data) /\ Stored(t)
    BY <1>a, <1>c, UploadShapes, StoreStays, Zenon
  <2>2. WorkerOK(k.pc, kind[t], r, h, v.w, v.q, v.data)
    BY <1>a, <1>b, Zenon DEF WorkerOK, Early
  <2>3. Len(v.data) \in Nat /\ Len(v.q) \in Nat /\ One(h) \in Int /\ One(k.held) \in Int
    BY DEF Chunks, One
  <2>4. DataOK(k.pc, kind[t], r, h, v.w, v.q, v.data)
    <3>1. ASSUME Moving(k.pc, kind[t], v.w) PROVE Len(v.data) + Len(v.q) + One(h) = r
      <4> DEFINE a == Len(v.data)
                 b == Len(v.q)
                 n == k.read
                 x == One(k.held)
                 y == One(h)
      <4>1. a + b + x = n /\ r - y = n - x
        BY <3>1, <1>b, <1>c, Zenon DEF DataOK, Moving
      <4>2. a \in Nat /\ b \in Nat /\ n \in Nat /\ x \in Int /\ y \in Int
        BY <2>3, Zenon
      <4> HIDE DEF a, b, n, x, y
      <4>3. a + b + y = r
        BY <1>c, <4>1, <4>2
      <4>4. QED
        BY <4>3, Zenon DEF a, b, y
    <3>2. QED
      BY <1>b, <3>1, Zenon DEF DataOK
  <2>5. StoreOK(k.pc, kind[t], v.w, temp[t], final[t], t \in left')
    BY <1>a, <1>b, Zenon
  <2>6. free' + One(k.stream = "open" \/ k.pc = "opening") + One(v.w = "putting")
        = free + One(Holds(t)) + One(v.w = "putting") /\ free' \in Int
    BY <1>c, Zenon DEF Holds, HasStream
  <2>7. QED
    BY <1>a, <1>b, <1>c, <2>1, <2>2, <2>4, <2>5, <2>6, Assemble, ZenonT(60) DEF Stored
<1>1. CASE k.read < Parts /\ ~k.held /\ work' = [work EXCEPT ![t].read = @ + 1, ![t].held = TRUE]
           /\ UNCHANGED <<free, upload>>
  <2> DEFINE r == k.read + 1
             h == TRUE
  <2>1. r \in Nat /\ h \in BOOLEAN /\ work' = [work EXCEPT ![t].read = r, ![t].held = h]
    BY <1>1
  <2>2. r - One(h) = k.read - One(k.held)
    BY <1>1 DEF One
  <2> HIDE DEF r, h
  <2>3. Becomes(t, k.pc, k.stream, r, h)
    BY <2>1, WorkShapes, Zenon
  <2>4. QED
    BY <1>1, <1>c, <2>1, <2>2, <2>3, Zenon
<1>2. CASE Reads(t) /\ k.read = Parts /\ Unhurt
           /\ work' = [work EXCEPT ![t].stream = IF HasStream(t) THEN "closed" ELSE @,
                                   ![t].pc = IF kind[t] = "read" THEN "ok" ELSE "finish"]
           /\ free' = free + (IF HasStream(t) THEN 1 ELSE 0) /\ UNCHANGED upload
  <2> DEFINE p == IF kind[t] = "read" THEN "ok" ELSE "finish"
  <2>1. work' = [work EXCEPT ![t].stream = Closed(t), ![t].pc = p]
    BY <1>2, Zenon DEF Closed
  <2>2. Uploads(t, v.w, v.q, v.data)
    BY <1>2, UploadShapes, Zenon
  <2>3. kind[t] = "read" => v.w = "none"
    BY <1>b, Zenon DEF WorkerOK
  <2>4. QED
    BY <1>a, <1>2, <2>1, <2>2, <2>3, GoodClosing, Zenon DEF Final
<1>3. CASE Reads(t) /\ Hurts
           /\ work' = [work EXCEPT ![t].stream = IF HasStream(t) THEN "closed" ELSE @,
                                   ![t].pc = IF kind[t] = "read" THEN "failed" ELSE "abort"]
           /\ free' = free + (IF HasStream(t) THEN 1 ELSE 0)
           /\ upload' = [upload EXCEPT ![t].cancelled = kind[t] # "read"]
  <2> DEFINE p == IF kind[t] = "read" THEN "failed" ELSE "abort"
             c == kind[t] # "read"
  <2>1. work' = [work EXCEPT ![t].stream = Closed(t), ![t].pc = p]
    BY <1>3, Zenon DEF Closed
  <2>2. c \in BOOLEAN /\ upload' = [upload EXCEPT ![t].cancelled = c]
    BY <1>3, Zenon
  <2> HIDE DEF c
  <2>3. Uploads(t, v.w, v.q, v.data)
    BY <2>2, UploadShapes, Zenon
  <2>4. kind[t] = "read" => v.w = "none"
    BY <1>b, Zenon DEF WorkerOK
  <2>5. QED
    BY <1>a, <1>3, <2>1, <2>3, <2>4, GoodClosing, Zenon DEF Final
<1>4. CASE kind[t] = "read" /\ work' = [work EXCEPT ![t].held = FALSE] /\ UNCHANGED <<free, upload>>
  <2>1. Becomes(t, k.pc, k.stream, k.read, FALSE)
    BY <1>4, WorkShapes, Zenon
  <2>2. ~Moving(k.pc, kind[t], v.w)
    BY <1>4, Zenon DEF Moving
  <2>3. QED
    BY <1>4, <1>c, <2>1, <2>2, Zenon
<1>5. CASE /\ kind[t] = "read" /\ free' = free + 1 /\ UNCHANGED upload
           /\ work' = [work EXCEPT ![t].stream = "closed", ![t].pc = "failed"]
  <2>1. HasStream(t) /\ v.w = "none"
    BY <1>5, <1>a, <1>b, Zenon DEF HasStream, StreamOK, WorkerOK
  <2>2. work' = [work EXCEPT ![t].stream = Closed(t), ![t].pc = "failed"]
    BY <1>5, <2>1, Zenon DEF Closed
  <2>3. Uploads(t, v.w, v.q, v.data)
    BY <1>5, UploadShapes, Zenon
  <2>4. QED
    BY <1>a, <1>5, <2>1, <2>2, <2>3, GoodClosing, Zenon DEF Final
<1>6. QED
  BY <1>1, <1>2, <1>3, <1>4, <1>5, Zenon DEF Reads, Sends

\* A chunk, or the end, is put behind the queue.
LEMMA Appended ==
  ASSUME NEW q \in Chunks, NEW n \in Nat, Continued(q, n), NEW x \in Nat,
         x = EndMark \/ x = n + Len(q) + 1
  PROVE  Continued(Append(q, x), n) /\ Len(Append(q, x)) = Len(q) + 1
<1>1. /\ Len(q) \in Nat /\ Len(Append(q, x)) = Len(q) + 1
      /\ \A i \in 1 .. Len(q) : Append(q, x)[i] = q[i]
      /\ Append(q, x)[Len(q) + 1] = x
  BY DEF Chunks
<1>2. \A i \in 1 .. Len(q) + 1 : Append(q, x)[i] \in {EndMark, n + i}
  BY <1>1 DEF Continued
<1>3. QED
  BY <1>1, <1>2, Zenon DEF Continued

\* The worker takes the chunk at the head of the queue.
LEMMA Taken ==
  ASSUME NEW q \in Chunks, NEW d \in Chunks, q # <<>>, Begun(d), Continued(q, Len(d)),
         Head(q) # EndMark
  PROVE  /\ Begun(Append(d, Head(q))) /\ Continued(Tail(q), Len(Append(d, Head(q))))
         /\ Len(Append(d, Head(q))) = Len(d) + 1 /\ Len(Tail(q)) = Len(q) - 1
         /\ Len(d) \in Nat /\ Len(q) \in Nat
<1>1. /\ Len(d) \in Nat /\ Len(q) \in Nat /\ Len(q) > 0 /\ Head(q) = q[1]
      /\ Len(Tail(q)) = Len(q) - 1 /\ \A i \in 1 .. Len(q) - 1 : Tail(q)[i] = q[i + 1]
  BY DEF Chunks
<1>2. Head(q) = Len(d) + 1
  BY <1>1 DEF Continued
<1>3. Len(d) + 1 \in Nat
  BY <1>1
<1> DEFINE e == Append(d, Len(d) + 1)
<1>4. Len(e) = Len(d) + 1 /\ (\A i \in 1 .. Len(d) : e[i] = d[i]) /\ e[Len(d) + 1] = Len(d) + 1
  BY <1>3 DEF Chunks
<1> HIDE DEF e
<1>5. Begun(e)
  BY <1>1, <1>4 DEF Begun
<1>6. \A i \in 1 .. Len(q) - 1 : Tail(q)[i] \in {EndMark, Len(d) + 1 + i}
  BY <1>1 DEF Continued
<1>7. Continued(Tail(q), Len(e))
  BY <1>1, <1>4, <1>6, Zenon DEF Continued
<1>8. QED
  BY <1>1, <1>2, <1>4, <1>5, <1>7, Zenon DEF e

\* The first chunks of the file, as many as it has, are the file.
LEMMA Whole ==
  ASSUME NEW d \in Chunks, Begun(d), Len(d) = Parts
  PROVE  d = Contents
<1>1. DOMAIN d = 1 .. Parts /\ \A i \in 1 .. Parts : d[i] = i
  BY PoolBounds DEF Chunks, Begun
<1>2. d = [i \in DOMAIN d |-> d[i]]
  BY DEF Chunks
<1>3. QED
  BY <1>1, <1>2, Zenon DEF Contents

\* A step of the owner of an upload that hands something to its worker.
LEMMA GoodHanding ==
  ASSUME NEW t \in Works, Ready(t), NEW p \in {"move", "await"}, NEW h \in BOOLEAN, NEW w, NEW q,
         Becomes(t, p, work[t].stream, work[t].read, h), Uploads(t, w, q, upload[t].data),
         UNCHANGED <<free, temp, final, left>>, hurt' \in Nat,
         work[t].pc # "opening", kind[t] # "read" \/ (p = "await" /\ w = upload[t].w),
         work[t].pc \in {"begin", "move"} \/ ~HasStream(t),
         p = "move" => work[t].pc \in {"begin", "move"},
         p = "await" => ~HasStream(t),
         w = upload[t].w \/ (upload[t].w = "none" /\ w = "queued"),
         Continued(q, Len(upload[t].data)),
         p = "move" => Len(upload[t].data) + Len(q) + One(h) = work[t].read
  PROVE  Good(t)
<1> DEFINE k == work[t]
           v == upload[t]
<1>1. Local(t) /\ temp[t] \in Chunks /\ final[t] \in Chunks /\ free \in Int
  BY Known, Zenon DEF Ready
<1>2. StreamOK(p, k.stream, kind[t])
  BY <1>1, Zenon DEF Local, StreamOK, HasStream, Early, Late, Final
<1>3. WorkerOK(p, kind[t], k.read, h, w, q, v.data)
  BY <1>1, Zenon DEF Local, WorkerOK, Early
<1>4. DataOK(p, kind[t], k.read, h, w, q, v.data)
  BY <1>1, Zenon DEF Local, DataOK, Moving
<1>5. StoreOK(p, kind[t], w, temp[t], final[t], t \in left')
  BY <1>1, Zenon DEF Local, StoreOK, Final
<1>6. free' + One(k.stream = "open" \/ p = "opening") + One(w = "putting")
      = free + One(Holds(t)) + One(v.w = "putting")
  BY Zenon DEF Holds, HasStream, One
<1>7. Stored(t)
  BY StoreStays, Zenon
<1>8. QED
  BY <1>1, <1>2, <1>3, <1>4, <1>5, <1>6, <1>7, Assemble, Zenon DEF Stored

\* begin_transfer_upload: the worker is made, or the work fails before it.
LEMMA GoodBeginsUpload ==
  ASSUME NEW t \in Works, Ready(t), BeginsUpload(t)
  PROVE  Good(t)
<1> DEFINE k == work[t]
           v == upload[t]
<1> USE Known DEF Hurts, Unhurt
<1>1. Local(t) /\ k.pc = "begin" /\ hurt' \in Nat /\ UNCHANGED <<temp, final, left>>
  BY DEF Ready, BeginsUpload
<1>2. /\ kind[t] # "read" /\ v.w = "none" /\ v.q = <<>> /\ v.data = <<>> /\ k.read = 0 /\ k.held = FALSE
  BY <1>1, Zenon DEF Local, StreamOK, WorkerOK
<1>3. CASE To(t, "move") /\ free' = free /\ upload' = [upload EXCEPT ![t].w = "queued"]
  <2>1. Becomes(t, "move", k.stream, k.read, k.held)
    BY <1>3, WorkShapes, Zenon DEF Pcs
  <2>2. Uploads(t, "queued", v.q, v.data)
    BY <1>3, UploadShapes, Zenon DEF Ws
  <2>3. Continued(v.q, Len(v.data)) /\ Len(v.data) + Len(v.q) + One(k.held) = k.read
    BY <1>2 DEF Continued, One
  <2>4. QED
    BY <1>1, <1>2, <1>3, <2>1, <2>2, <2>3, GoodHanding, Zenon
<1>4. CASE /\ UNCHANGED upload
           /\ work' = [work EXCEPT ![t].stream = IF HasStream(t) THEN "closed" ELSE @, ![t].pc = "failed"]
           /\ free' = free + (IF HasStream(t) THEN 1 ELSE 0)
  <2>1. work' = [work EXCEPT ![t].stream = Closed(t), ![t].pc = "failed"]
    BY <1>4, Zenon DEF Closed
  <2>2. Uploads(t, v.w, v.q, v.data)
    BY <1>4, UploadShapes, Zenon
  <2>3. QED
    BY <1>1, <1>2, <1>4, <2>1, <2>2, GoodClosing, Zenon
<1>5. QED
  BY <1>3, <1>4, Zenon DEF BeginsUpload

\* write: a chunk goes into the queue, or the upload is given up.
LEMMA GoodWrites ==
  ASSUME NEW t \in Works, Ready(t), Writes(t)
  PROVE  Good(t)
<1> DEFINE k == work[t]
           v == upload[t]
<1> USE Known DEF Hurts, Unhurt
<1>1. /\ Local(t) /\ k.pc = "move" /\ k.held = TRUE /\ kind[t] # "read"
      /\ hurt' \in Nat /\ UNCHANGED <<free, temp, final, left>>
  BY Zenon DEF Ready, Writes
<1>2. CASE ~WorkerDone(t) /\ upload' = Enqueue(t, k.read) /\ work' = [work EXCEPT ![t].held = FALSE]
  <2>1. Becomes(t, k.pc, k.stream, k.read, FALSE)
    BY <1>2, WorkShapes, Zenon
  <2>2. Uploads(t, v.w, Append(v.q, k.read), v.data)
    BY <1>2, UploadShapes, Zenon
  <2>3. Continued(v.q, Len(v.data)) /\ Len(v.data) + Len(v.q) + One(k.held) = k.read
    BY <1>1, <1>2, Zenon DEF Local, DataOK, Moving, WorkerDone
  <2>4. Len(v.data) \in Nat /\ Len(v.q) \in Nat
    BY DEF Chunks
  <2>5. k.read = Len(v.data) + Len(v.q) + 1
    BY <1>1, <2>3, Zenon DEF One
  <2>6. Continued(Append(v.q, k.read), Len(v.data)) /\ Len(Append(v.q, k.read)) = Len(v.q) + 1
    BY <2>3, <2>4, <2>5, Appended, Zenon
  <2>7. Len(v.data) + Len(Append(v.q, k.read)) + One(FALSE) = k.read
    <3> DEFINE a == Len(v.data)
               b == Len(v.q)
               c == Len(Append(v.q, k.read))
    <3>1. a \in Nat /\ b \in Nat /\ c = b + 1 /\ k.read = a + b + 1
      BY <2>4, <2>5, <2>6, Zenon
    <3> HIDE DEF a, b, c
    <3>2. a + c + One(FALSE) = k.read
      BY <3>1 DEF One
    <3>3. QED
      BY <3>2, Zenon DEF a, c
  <2>8. QED
    BY <1>1, <2>1, <2>2, <2>6, <2>7, GoodHanding, Zenon
<1>3. CASE To(t, "abort") /\ upload' = [upload EXCEPT ![t].cancelled = TRUE]
  <2>1. Uploads(t, v.w, v.q, v.data)
    BY <1>3, UploadShapes, Zenon
  <2>2. QED
    BY <1>1, <1>3, <2>1, GoodMove, Zenon
<1>4. QED
  BY <1>2, <1>3, Zenon DEF Writes

\* finish: the end goes into the queue, unless the worker is done or there is no room.
LEMMA GoodFinishes ==
  ASSUME NEW t \in Works, Ready(t), Finishes(t)
  PROVE  Good(t)
<1> DEFINE k == work[t]
           v == upload[t]
<1> USE Known DEF Hurts, Unhurt
<1>1. /\ Local(t) /\ k.pc \in {"finish", "full"}
      /\ hurt' \in Nat /\ UNCHANGED <<free, temp, final, left>>
  BY Zenon DEF Ready, Finishes
<1>2. ~HasStream(t) /\ StreamOK(k.pc, k.stream, kind[t])
  BY <1>1, Zenon DEF Local, StreamOK, HasStream, Late
<1>3. CASE WorkerDone(t) /\ To(t, IF k.pc = "full" THEN "drop" ELSE "await")
           /\ upload' = [upload EXCEPT ![t].cancelled = k.pc = "full"]
  <2> DEFINE c == k.pc = "full"
             p == IF k.pc = "full" THEN "drop" ELSE "await"
  <2>1. c \in BOOLEAN /\ p \in {"drop", "await"} /\ To(t, p) /\ upload' = [upload EXCEPT ![t].cancelled = c]
    BY <1>3, Zenon
  <2> HIDE DEF c, p
  <2>2. Uploads(t, v.w, v.q, v.data)
    BY <2>1, UploadShapes, Zenon
  <2>3. v.w \notin {"queued", "putting"}
    BY <1>3, Zenon DEF WorkerDone
  <2>4. QED
    BY <1>1, <1>2, <2>1, <2>2, <2>3, GoodMove, Zenon
<1>4. CASE ~WorkerDone(t) /\ To(t, "await") /\ upload' = Enqueue(t, EndMark)
  <2>1. Becomes(t, "await", k.stream, k.read, k.held)
    BY <1>4, WorkShapes, Zenon DEF Pcs, Late
  <2>2. Uploads(t, v.w, Append(v.q, EndMark), v.data)
    BY <1>4, UploadShapes, Zenon DEF EndMark
  <2>3. Continued(v.q, Len(v.data)) /\ Len(v.data) \in Nat
    BY <1>1 DEF Local, DataOK, Chunks
  <2>4. Continued(Append(v.q, EndMark), Len(v.data))
    BY <2>3, Appended, Zenon DEF EndMark
  <2>5. QED
    BY <1>1, <1>2, <2>1, <2>2, <2>4, GoodHanding, Zenon
<1>5. CASE To(t, "full") /\ UNCHANGED upload
  <2>1. Uploads(t, v.w, v.q, v.data)
    BY <1>5, UploadShapes, Zenon
  <2>2. QED
    BY <1>1, <1>2, <1>5, <2>1, GoodMove, Zenon
<1>6. QED
  BY <1>3, <1>4, <1>5, Zenon DEF Finishes

\* The worker's result.
LEMMA GoodAwaits ==
  ASSUME NEW t \in Works, Ready(t), AwaitsWorker(t)
  PROVE  Good(t)
<1> DEFINE k == work[t]
           v == upload[t]
           c == k.doomed \/ v.w = "failed"
           p == CASE k.doomed -> "abort" [] v.w = "done" -> "staged" [] OTHER -> "drop"
<1> USE Known DEF Unhurt
<1>1. /\ Local(t) /\ k.pc = "await" /\ v.w \notin {"queued", "putting"}
      /\ hurt' \in Nat /\ UNCHANGED <<free, temp, final, left>>
  BY Zenon DEF Ready, AwaitsWorker, WorkerDone
<1>2. ~HasStream(t)
  BY <1>1, Zenon DEF Local, StreamOK, HasStream, Late
<1>3. k.doomed \in BOOLEAN
  BY Zenon DEF WorkType
<1>4. To(t, p) /\ upload' = [upload EXCEPT ![t].cancelled = c] /\ c \in BOOLEAN
  BY <1>3, Zenon DEF AwaitsWorker
<1>5. p \in {"abort", "staged", "drop"}
  BY Zenon
<1> HIDE DEF c, p
<1>6. Uploads(t, v.w, v.q, v.data)
  BY <1>4, UploadShapes, Zenon
<1>7. QED
  BY <1>1, <1>2, <1>4, <1>5, <1>6, GoodMove, Zenon

\* A step at the end of an upload, its worker being done: new objects m and x, and the
\* work goes to p, its stream closed unless it goes on.
LEMMA GoodEnd ==
  ASSUME NEW t \in Works, Ready(t), NEW p \in {"ok", "failed", "abort"}, NEW s,
         Becomes(t, p, s, work[t].read, work[t].held), UNCHANGED upload,
         NEW m \in Chunks, NEW x \in Chunks,
         temp' = [temp EXCEPT ![t] = m], final' = [final EXCEPT ![t] = x],
         left' \in {left, left \cup {t}}, hurt' \in Nat, free' \in Int,
         work[t].pc # "opening", p # "abort" => s # "open",
         upload[t].w \notin {"queued", "putting"},
         m \in {<<>>, temp[t]}, x \in {final[t], Contents},
         p = "ok" => x = Contents,
         p # "abort" /\ m # <<>> => t \in left',
         free' + One(s = "open") = free + One(HasStream(t))
  PROVE  Good(t)
<1> DEFINE k == work[t]
           v == upload[t]
<1>1. Local(t) /\ upload \in [Works -> UploadType] /\ free \in Int
  BY Known, Zenon DEF Ready
<1>2. Uploads(t, v.w, v.q, v.data)
  BY <1>1, Zenon DEF Uploads, UploadIs
<1>3. StreamOK(p, s, kind[t])
  BY Zenon DEF StreamOK, Early, Late, Final
<1>4. WorkerOK(p, kind[t], k.read, k.held, v.w, v.q, v.data)
  BY <1>1, Zenon DEF Local, WorkerOK, Early
<1>5. DataOK(p, kind[t], k.read, k.held, v.w, v.q, v.data)
  BY <1>1, Zenon DEF Local, DataOK, Moving
<1>6. StoreOK(p, kind[t], v.w, m, x, t \in left')
  BY <1>1, Zenon DEF Local, StoreOK, Final
<1>7. free' + One(s = "open" \/ p = "opening") + One(v.w = "putting")
      = free + One(Holds(t)) + One(v.w = "putting")
  BY <1>1, Zenon DEF Holds, HasStream, One
<1>8. QED
  BY <1>2, <1>3, <1>4, <1>5, <1>6, <1>7, Assemble, Zenon

\* An upload may be empty.
LEMMA NoChunks == <<>> \in Chunks
BY DEF Chunks

\* The delete of a failed finish.
LEMMA GoodDrops ==
  ASSUME NEW t \in Works, Ready(t), Drops(t)
  PROVE  Good(t)
<1> USE Known DEF Hurts, Unhurt
<1>1. /\ Local(t) /\ work[t].pc = "drop" /\ To(t, "abort") /\ hurt' \in Nat
      /\ UNCHANGED <<free, upload, final, left>>
  BY DEF Ready, Drops
<1>2. Becomes(t, "abort", work[t].stream, work[t].read, work[t].held)
  BY <1>1, WorkShapes, Zenon DEF Pcs
<1>3. upload[t].w \notin {"queued", "putting"} /\ ~HasStream(t) /\ work[t].stream # "open"
  BY <1>1, Zenon DEF Local, WorkerOK, StreamOK, Late, HasStream
<1>4. final' = [final EXCEPT ![t] = final[t]]
  BY <1>1, Zenon DEF Ready, PoolTypeOK
<1>5. PICK m \in {<<>>, temp[t]} : temp' = [temp EXCEPT ![t] = m]
  BY Zenon DEF Drops, Ready, PoolTypeOK
<1>6. m \in Chunks
  BY <1>5, NoChunks, Zenon
<1>7. free' \in Int /\ free' + One(work[t].stream = "open") = free + One(HasStream(t))
  BY <1>1, Zenon DEF HasStream
<1>8. QED
  BY <1>1, <1>2, <1>3, <1>4, <1>5, <1>6, <1>7, GoodEnd, Zenon

\* The publication of the staged object.
LEMMA GoodCommits ==
  ASSUME NEW t \in Works, Ready(t), Commits(t)
  PROVE  Good(t)
<1> USE Known DEF Hurts, Unhurt
<1>1. /\ Local(t) /\ work[t].pc = "staged" /\ hurt' \in Nat /\ UNCHANGED <<free, left>>
  BY DEF Ready, Commits
<1>2. upload[t].w \notin {"queued", "putting"} /\ ~HasStream(t) /\ work[t].stream # "open"
  BY <1>1, Zenon DEF Local, WorkerOK, StreamOK, Late, HasStream
<1>3. CASE /\ temp[t] # <<>> /\ final' = [final EXCEPT ![t] = temp[t]]
           /\ temp' = [temp EXCEPT ![t] = <<>>] /\ To(t, "ok") /\ UNCHANGED upload
  <2>1. Becomes(t, "ok", work[t].stream, work[t].read, work[t].held)
    BY <1>3, WorkShapes, Zenon DEF Pcs, Final
  <2>2. temp[t] = Contents
    BY <1>1, <1>3, Zenon DEF Local, StoreOK
  <2>3. free' \in Int /\ free' + One(work[t].stream = "open") = free + One(HasStream(t))
    BY <1>1, Zenon DEF HasStream
  <2>4. QED
    BY <1>1, <1>2, <1>3, <2>1, <2>2, <2>3, NoChunks, GoodEnd, Zenon
<1>4. CASE /\ To(t, "abort") /\ UNCHANGED <<final, temp>>
           /\ upload' = [upload EXCEPT ![t].cancelled = TRUE]
  <2>1. Uploads(t, upload[t].w, upload[t].q, upload[t].data)
    BY <1>4, UploadShapes, Zenon
  <2>2. QED
    BY <1>1, <1>2, <1>4, <2>1, GoodMove, Zenon
<1>5. QED
  BY <1>3, <1>4, Zenon DEF Commits

\* abort: the object is deleted, or left behind.
LEMMA GoodAborts ==
  ASSUME NEW t \in Works, Ready(t), Aborts(t)
  PROVE  Good(t)
<1> USE Known DEF Hurts, Unhurt
<1>1. /\ Local(t) /\ work[t].pc = "abort" /\ upload[t].w \notin {"queued", "putting"}
      /\ hurt' \in Nat /\ UNCHANGED <<upload, final>> /\ Ended(t, "failed")
  BY DEF Ready, Aborts, WorkerDone
<1>2. Closed(t) \in {"none", "open", "closed"} /\ Closed(t) # "open" /\ "failed" \in Pcs
  BY Zenon DEF Closed, HasStream, Pcs, Final
<1>3. work' = [work EXCEPT ![t].pc = "failed", ![t].stream = Closed(t)]
  BY <1>1, Zenon DEF Ended, Closed
<1>4. Becomes(t, "failed", Closed(t), work[t].read, work[t].held)
  BY <1>2, <1>3, WorkShapes, Zenon
<1>5. final' = [final EXCEPT ![t] = final[t]]
  BY <1>1, Zenon DEF Ready, PoolTypeOK
<1>6. free' \in Int /\ free' + One(Closed(t) = "open") = free + One(HasStream(t))
  BY <1>1, <1>2 DEF Ended, One
<1>7. CASE temp' = [temp EXCEPT ![t] = <<>>] /\ left' = left
  BY <1>1, <1>2, <1>4, <1>5, <1>6, <1>7, NoChunks, GoodEnd, Zenon
<1>8. CASE temp' = temp /\ left' = IF temp[t] = <<>> THEN left ELSE left \cup {t}
  <2>1. temp' = [temp EXCEPT ![t] = temp[t]]
    BY <1>8, Zenon DEF Ready, PoolTypeOK
  <2>2. left' \in {left, left \cup {t}} /\ (temp[t] # <<>> => t \in left')
    BY <1>8, Zenon
  <2>3. QED
    BY <1>1, <1>2, <1>4, <1>5, <1>6, <2>1, <2>2, GoodEnd, Zenon
<1>9. QED
  BY <1>7, <1>8, Zenon DEF Aborts

\* A step of the worker: its new state w, the queue q, its data d and the object m.
LEMMA GoodWorker ==
  ASSUME NEW t \in Works, Ready(t), UNCHANGED work, NEW w \in Ws, NEW q \in Chunks, NEW d \in Chunks,
         Uploads(t, w, q, d), NEW m \in Chunks, temp' = [temp EXCEPT ![t] = m], UNCHANGED <<final, left>>,
         hurt' \in Nat, free' \in Int,
         upload[t].w \in {"queued", "putting"}, w # "none",
         Begun(d), Continued(q, Len(d)), m \in {temp[t], Contents},
         w = "putting" => Len(d) + Len(q) = Len(upload[t].data) + Len(upload[t].q),
         w # "queued",
         free' + One(w = "putting") = free + One(upload[t].w = "putting")
  PROVE  Good(t)
<1> DEFINE k == work[t]
           v == upload[t]
<1> USE Known
<1>1. Local(t)
  BY Zenon DEF Ready
<1>2. Becomes(t, k.pc, k.stream, k.read, k.held)
  BY WorkShapes, Zenon
<1>3. final' = [final EXCEPT ![t] = final[t]]
  BY Zenon DEF Ready, PoolTypeOK
<1>4. StreamOK(k.pc, k.stream, kind[t])
  BY <1>1, Zenon DEF Local
<1>5. k.pc \in {"move", "finish", "full", "await", "abort"} /\ kind[t] # "read"
  BY <1>1, Zenon DEF Local, WorkerOK
<1>6. WorkerOK(k.pc, kind[t], k.read, k.held, w, q, d)
  BY <1>5, Zenon DEF WorkerOK, Early
<1>7. DataOK(k.pc, kind[t], k.read, k.held, w, q, d)
  <2>1. Moving(k.pc, kind[t], w) => Moving(k.pc, kind[t], v.w) /\ w = "putting"
    BY Zenon DEF Moving, Ws
  <2>2. Moving(k.pc, kind[t], v.w) => Len(v.data) + Len(v.q) + One(k.held) = k.read
    BY <1>1, Zenon DEF Local, DataOK
  <2>3. QED
    BY <2>1, <2>2, Zenon DEF DataOK
<1>8. StoreOK(k.pc, kind[t], w, m, final[t], t \in left')
  BY <1>1, <1>5, Zenon DEF Local, StoreOK, Final
<1>9. /\ One(w = "putting") \in Int /\ One(v.w = "putting") \in Int /\ One(Holds(t)) \in Int
      /\ One(k.stream = "open" \/ k.pc = "opening") = One(Holds(t))
  BY DEF One, Holds, HasStream
<1>10. free' + One(k.stream = "open" \/ k.pc = "opening") + One(w = "putting")
       = free + One(Holds(t)) + One(v.w = "putting")
  BY <1>9
<1>11. QED
  BY <1>2, <1>3, <1>4, <1>6, <1>7, <1>8, <1>10, Assemble, Zenon

\* The thread of an upload starts, reads from the queue, and stores the object.
LEMMA GoodPutting ==
  ASSUME NEW t \in Works, Ready(t), WorkerStarts(t) \/ WorkerReads(t) \/ WorkerPuts(t)
  PROVE  Good(t)
<1> DEFINE v == upload[t]
<1> USE Known DEF Hurts, Unhurt
<1>1. /\ Local(t) /\ UNCHANGED <<work, final, left>> /\ hurt' \in Nat
      /\ v.w \in {"queued", "putting"} /\ v.q \in Chunks /\ v.data \in Chunks
  BY DEF Ready, WorkerStarts, WorkerReads, WorkerPuts
<1>2. Begun(v.data) /\ Continued(v.q, Len(v.data))
  BY <1>1, Zenon DEF Local, DataOK
<1>3. temp = [temp EXCEPT ![t] = temp[t]]
  BY Zenon DEF Ready, PoolTypeOK
<1>4. CASE WorkerStarts(t)
  <2>1. Uploads(t, "putting", v.q, v.data)
    BY <1>4, UploadShapes, Zenon DEF WorkerStarts, Ws
  <2>2. free' \in Int /\ free' + One("putting" = "putting") = free + One(v.w = "putting")
    BY <1>4 DEF WorkerStarts, One
  <2>3. temp' = [temp EXCEPT ![t] = temp[t]]
    BY <1>3, <1>4, Zenon DEF WorkerStarts
  <2>4. QED
    BY <1>1, <1>2, <2>1, <2>2, <2>3, GoodWorker, Zenon DEF Ws
<1>5. CASE WorkerReads(t)
  <2>1. v.w = "putting" /\ temp' = [temp EXCEPT ![t] = temp[t]]
    BY <1>3, <1>5, Zenon DEF WorkerReads
  <2>2. CASE upload' = [upload EXCEPT ![t].w = "failed"] /\ free' = free + 1
    <3>1. Uploads(t, "failed", v.q, v.data)
      BY <2>2, UploadShapes, Zenon DEF Ws
    <3>2. free' \in Int /\ free' + One("failed" = "putting") = free + One(v.w = "putting")
      BY <2>1, <2>2 DEF One
    <3>3. QED
      BY <1>1, <1>2, <2>1, <3>1, <3>2, GoodWorker, Zenon DEF Ws
  <2>3. CASE /\ v.q # <<>> /\ Head(v.q) # EndMark /\ free' = free
             /\ upload' = [upload EXCEPT ![t].q = Tail(@), ![t].data = Append(@, Head(upload[t].q))]
    <3> DEFINE a == v.q
               b == v.data
               q == Tail(a)
               d == Append(b, Head(a))
    <3>1. Uploads(t, v.w, q, d)
      <4>1. /\ upload[t].q # <<>> /\ upload \in [Works -> UploadType]
            /\ upload' = [upload EXCEPT ![t].q = Tail(@), ![t].data = Append(@, Head(upload[t].q))]
        BY <2>3, Zenon
      <4>2. QED
        BY ONLY <4>1, t \in Works, UploadTakes, Zenon
    <3>2. /\ Begun(d) /\ Continued(q, Len(d)) /\ Len(d) = Len(v.data) + 1 /\ Len(q) = Len(v.q) - 1
          /\ Len(v.data) \in Nat /\ Len(v.q) \in Nat
      <4>1. a \in Chunks /\ b \in Chunks /\ a # <<>> /\ Begun(b) /\ Continued(a, Len(b)) /\ Head(a) # EndMark
        BY <1>1, <1>2, <2>3, Zenon
      <4> HIDE DEF a, b
      <4>2. /\ Begun(d) /\ Continued(q, Len(d)) /\ Len(d) = Len(b) + 1 /\ Len(q) = Len(a) - 1
            /\ Len(b) \in Nat /\ Len(a) \in Nat
        BY ONLY <4>1, Taken, Zenon DEF q, d
      <4>3. QED
        BY <4>2, Zenon DEF a, b
    <3> HIDE DEF q, d
    <3>3. q \in Chunks /\ d \in Chunks
      BY ONLY <3>1, t \in Works, Zenon DEF Uploads, UploadIs, UploadType
    <3>4. Len(d) + Len(q) = Len(v.data) + Len(v.q)
      <4> DEFINE i == Len(v.data)
                 j == Len(v.q)
                 m == Len(d)
                 n == Len(q)
      <4> HIDE DEF i, j, m, n
      <4>1. m = i + 1 /\ n = j - 1 /\ i \in Nat /\ j \in Nat
        BY <3>2, Zenon DEF i, j, m, n
      <4>2. m + n = i + j
        BY <4>1
      <4>3. QED
        BY <4>2, Zenon DEF i, j, m, n
    <3>5. Uploads(t, "putting", q, d)
      BY <2>1, <3>1, Zenon
    <3>6. free' \in Int /\ free' + One("putting" = "putting") = free + One(v.w = "putting")
      BY <2>1, <2>3, Zenon
    <3>7. QED
      BY <1>1, <2>1, <3>2, <3>3, <3>4, <3>5, <3>6, GoodWorker, Zenon DEF Ws
  <2>4. QED
    BY <1>5, <2>2, <2>3, Zenon DEF WorkerReads
<1>6. CASE WorkerPuts(t)
  <2>1. v.w = "putting" /\ free' = free + 1 /\ v.data = Contents
    BY <1>1, <1>2, <1>6, Whole, Zenon DEF WorkerPuts
  <2>2. PICK m \in {temp[t], Contents} : temp' = [temp EXCEPT ![t] = m]
    BY <1>3, <1>6, <2>1, Zenon DEF WorkerPuts
  <2>3. m \in Chunks
    BY <1>1, <2>1, <2>2, Zenon
  <2>4. PICK w \in {"done", "failed"} : upload' = [upload EXCEPT ![t].w = w]
    BY <1>6, Zenon DEF WorkerPuts
  <2>5. w \in Ws /\ Uploads(t, w, v.q, v.data)
    BY <2>4, UploadShapes, Zenon DEF Ws
  <2>6. free' \in Int /\ free' + One(w = "putting") = free + One(v.w = "putting")
    BY <2>1, <2>4 DEF One
  <2>7. QED
    BY <1>1, <1>2, <2>2, <2>3, <2>4, <2>5, <2>6, GoodWorker, Zenon
<1>7. QED
  BY <1>4, <1>5, <1>6, Zenon

\* A cancelled task, at each of its waits.
LEMMA GoodCancel ==
  ASSUME NEW t \in Works, Ready(t), CancelWork(t)
  PROVE  Good(t)
<1> DEFINE k == work[t]
           v == upload[t]
<1> USE Known DEF Hurts
<1>1. Local(t) /\ hurt' \in Nat /\ UNCHANGED <<temp, final, left>>
  BY DEF Ready, CancelWork
<1>2. StreamOK(k.pc, k.stream, kind[t]) /\ WorkerOK(k.pc, kind[t], k.read, k.held, v.w, v.q, v.data)
  BY <1>1, Zenon DEF Local
<1>3. CASE k.pc \in Early /\ To(t, "failed") /\ UNCHANGED upload
           /\ free' = free + One(k.pc = "opening")
  <2>1. Becomes(t, "failed", k.stream, k.read, k.held) /\ Uploads(t, v.w, v.q, v.data)
    BY <1>3, WorkShapes, UploadShapes, Zenon DEF Pcs, Final
  <2>2. k.stream = "none" /\ v.w = "none"
    BY <1>2, <1>3, Zenon DEF StreamOK, WorkerOK
  <2>3. StreamOK("failed", k.stream, kind[t])
    BY <2>2, Zenon DEF StreamOK, Early
  <2>4. free' \in Int /\ free' + One(k.stream = "open" \/ "failed" = "opening") = free + One(Holds(t))
    BY <1>3, <2>2 DEF One, Holds, HasStream
  <2>5. QED
    BY <1>1, <2>1, <2>2, <2>3, <2>4, Plain, Zenon DEF Early
<1>4. CASE /\ k.pc = "begin" \/ (k.pc = "move" /\ kind[t] = "read")
           /\ Ended(t, "failed") /\ UNCHANGED upload
  <2>1. work' = [work EXCEPT ![t].pc = "failed", ![t].stream = Closed(t)]
        /\ free' = free + (IF HasStream(t) THEN 1 ELSE 0)
    BY <1>4, Zenon DEF Ended, Closed
  <2>2. v.w = "none" /\ Uploads(t, v.w, v.q, v.data)
    BY <1>2, <1>4, UploadShapes, Zenon DEF WorkerOK
  <2>3. QED
    BY <1>1, <1>4, <2>1, <2>2, GoodClosing, Zenon
<1>5. CASE /\ k.pc \in {"move", "full", "staged"} /\ To(t, "abort") /\ UNCHANGED free
           /\ upload' = [upload EXCEPT ![t].cancelled = TRUE]
  <2>1. Uploads(t, v.w, v.q, v.data)
    BY <1>5, UploadShapes, Zenon
  <2>2. QED
    BY <1>1, <1>5, <2>1, GoodMove, Zenon
<1>6. CASE /\ k.pc = "await" /\ work' = [work EXCEPT ![t].doomed = TRUE] /\ UNCHANGED <<free, upload>>
  <2>1. Becomes(t, k.pc, k.stream, k.read, k.held) /\ Uploads(t, v.w, v.q, v.data)
    BY <1>6, WorkShapes, UploadShapes, Zenon
  <2>2. free' \in Int /\ free' + One(k.stream = "open" \/ k.pc = "opening") = free + One(Holds(t))
    BY <1>6, Zenon DEF Holds, HasStream
  <2>3. k.pc \notin Early \cup {"begin", "move"} \cup Final
    BY <1>6, Zenon DEF Early, Final
  <2>4. QED
    BY <1>1, <1>2, <1>6, <2>1, <2>2, <2>3, Plain, Zenon DEF Final
<1>7. QED
  BY <1>3, <1>4, <1>5, <1>6 DEF CancelWork, Early, One

\* No step but Begins makes a work one of the copies that run.
LEMMA Settles ==
  ASSUME NEW t \in Works, Ready(t), PoolStep(t) \/ CancelWork(t), ~Begins(t)
  PROVE  Settled(t)
<1>1. work \in [Works -> WorkType] /\ kind' = kind
  BY Known, Zenon DEF Ready
<1>2. CASE work' = work
  BY <1>1, <1>2, Zenon DEF Settled, Copying
<1>3. CASE work[t].pc \notin {"new"} \cup Final
  BY <1>1, <1>3, Zenon DEF Settled, Copying
<1>4. CASE work[t].pc = "new" /\ To(t, "failed")
  <2>1. work'[t].pc = "failed"
    BY <1>1, <1>4, Zenon DEF To, WorkType
  <2>2. QED
    BY <2>1, Zenon DEF Settled, Copying, Final
<1>5. work' = work \/ work[t].pc \notin {"new"} \cup Final \/ (work[t].pc = "new" /\ To(t, "failed"))
  <2>1. CASE CancelWork(t)
    BY <2>1, Zenon DEF CancelWork, Final
  <2>2. CASE PoolStep(t)
    BY <2>2, Zenon DEF PoolStep, TakesConnection, Opens, Reads, Sends, BeginsUpload, Writes, Finishes,
                AwaitsWorker, Drops, Commits, Aborts, WorkerStarts, WorkerReads, WorkerPuts, Final
  <2>3. QED
    BY <2>1, <2>2, Zenon
<1>6. QED
  BY <1>2, <1>3, <1>4, <1>5, Zenon

\* Every step of a piece of work, or its cancellation, is good.
LEMMA GoodSteps ==
  ASSUME NEW t \in Works, Ready(t), PoolStep(t) \/ CancelWork(t)
  PROVE  Good(t)
BY GoodOpening, GoodReads, GoodBeginsUpload, GoodWrites, GoodFinishes, GoodAwaits, GoodDrops, GoodCommits,
   GoodAborts, GoodPutting, GoodCancel, Zenon DEF PoolStep

\* The other pieces of work keep what holds of them, and the sums are kept.
LEMMA StepKept ==
  ASSUME PoolInv, NEW t \in Works, serving, UNCHANGED <<kind, serving, scene>>,
         PoolStep(t) \/ CancelWork(t)
  PROVE  PoolInv'
<1>1. Ready(t)
  BY Zenon DEF PoolInv, Ready
<1>2. Good(t)
  BY <1>1, GoodSteps, Zenon
<1>3. PoolTypeOK /\ PoolTypeOK' /\ Others(t) /\ Balance(t) /\ Local(t)'
  BY <1>2, Zenon DEF Good, PoolInv
<1>4. ASSUME NEW u \in Works PROVE Local(u)'
  <2>1. CASE u = t
    BY <1>3, <2>1, Zenon
  <2>2. CASE u # t
    <3>1. Local(u)
      BY Zenon DEF PoolInv
    <3>2. /\ work'[u] = work[u] /\ upload'[u] = upload[u] /\ temp'[u] = temp[u] /\ final'[u] = final[u]
          /\ (u \in left' <=> u \in left) /\ kind' = kind /\ serving' = serving
      BY <1>3, <2>2, Zenon DEF Others
    <3>3. QED
      BY <3>1, <3>2, Zenon DEF Local, StreamOK, WorkerOK, DataOK, StoreOK
  <2>3. QED
    BY <2>1, <2>2, Zenon
<1>5. Conserved'
  <2>1. Streaming \in SUBSET Works /\ Streaming' \in SUBSET Works
        /\ Putting \in SUBSET Works /\ Putting' \in SUBSET Works
    BY Zenon DEF Streaming, Putting
  <2>2. \A u \in Works \ {t} : /\ u \in Streaming <=> u \in Streaming'
                               /\ u \in Putting <=> u \in Putting'
    BY <1>3, Zenon DEF Others, Streaming, Putting, HasStream
  <2>3. /\ t \in Streaming <=> Holds(t)
        /\ t \in Streaming' <=> Holds(t)'
    BY Zenon DEF Streaming, Holds
  <2>4. /\ t \in Putting <=> upload[t].w = "putting"
        /\ t \in Putting' <=> upload'[t].w = "putting"
    BY Zenon DEF Putting
  <2> DEFINE a == Cardinality(Streaming)
             b == Cardinality(Streaming')
             c == Cardinality(Putting)
             d == Cardinality(Putting')
  <2>5. a \in Nat /\ b \in Nat /\ b - a = One(Holds(t)') - One(Holds(t))
    <3>1. /\ a \in Nat /\ b \in Nat
          /\ (t \in Streaming <=> t \in Streaming') => b = a
          /\ t \notin Streaming /\ t \in Streaming' => b = a + 1
          /\ t \in Streaming /\ t \notin Streaming' => b = a - 1
      BY <2>1, <2>2, CountMoves, Zenon
    <3> HIDE DEF a, b
    <3>2. QED
      BY <2>3, <3>1 DEF One
  <2>6. c \in Nat /\ d \in Nat /\ d - c = One(upload'[t].w = "putting") - One(upload[t].w = "putting")
    <3>1. /\ c \in Nat /\ d \in Nat
          /\ (t \in Putting <=> t \in Putting') => d = c
          /\ t \notin Putting /\ t \in Putting' => d = c + 1
          /\ t \in Putting /\ t \notin Putting' => d = c - 1
      BY <2>1, <2>2, CountMoves, Zenon
    <3> HIDE DEF c, d
    <3>2. QED
      BY <2>4, <3>1 DEF One
  <2>7. free = Connections - a - c /\ free \in Int /\ free' \in Int /\ Connections \in Int
    BY <1>3, PoolBounds DEF PoolInv, Conserved, PoolTypeOK
  <2> DEFINE x == One(Holds(t))
             y == One(Holds(t)')
             z == One(upload[t].w = "putting")
             v == One(upload'[t].w = "putting")
  <2>8. free' + y + v = free + x + z
    BY <1>3, Zenon DEF Balance
  <2>9. x \in Int /\ y \in Int /\ z \in Int /\ v \in Int
    BY DEF One
  <2>10. b - a = y - x /\ d - c = v - z
    BY <2>5, <2>6, Zenon
  <2>11. a \in Nat /\ b \in Nat /\ c \in Nat /\ d \in Nat
    BY <2>5, <2>6, Zenon
  <2> HIDE DEF a, b, c, d, x, y, z, v
  <2>12. free' = Connections - b - d
    <3>1. b = a + y - x /\ d = c + v - z
      BY ONLY <2>9, <2>10, <2>11
    <3>2. free' = free + x + z - y - v
      BY ONLY <2>7, <2>8, <2>9
    <3>3. free' = Connections - a - c + x + z - y - v
      BY ONLY <2>7, <3>2, Zenon
    <3>4. Connections - (a + y - x) - (c + v - z) = Connections - a - c + x + z - y - v
      BY ONLY <2>7, <2>9, <2>11
    <3>5. QED
      BY ONLY <3>1, <3>3, <3>4, Zenon
  <2>13. QED
    BY <2>12, Zenon DEF Conserved, b, d
<1>6. Cardinality(Copying)' <= ServerTransferCapacity
  <2>1. Copying \in SUBSET Works /\ Copying' \in SUBSET Works
    BY Zenon DEF Copying
  <2>2. \A u \in Works \ {t} : u \in Copying <=> u \in Copying'
    BY <1>3, Zenon DEF Others, Copying
  <2>3. ServerTransferCapacity \in Int
    BY PoolBounds DEF ServerTransferCapacity
  <2> DEFINE a == Cardinality(Copying)
             b == Cardinality(Copying')
             n == ServerTransferCapacity
  <2>4. /\ a \in Nat /\ b \in Nat
        /\ (t \in Copying <=> t \in Copying') => b = a
        /\ t \notin Copying /\ t \in Copying' => b = a + 1
        /\ t \in Copying /\ t \notin Copying' => b = a - 1
    BY <2>1, <2>2, CountMoves, Zenon
  <2>5. a <= n
    BY Zenon DEF PoolInv
  <2>6. t \in Copying' /\ t \notin Copying => a < n
    <3>1. CASE ~Begins(t)
      BY <1>1, <3>1, Settles, Zenon DEF Settled
    <3>2. CASE Begins(t)
      BY <3>2, Zenon DEF Begins, Copying
    <3>3. QED
      BY <3>1, <3>2, Zenon
  <2> HIDE DEF a, b, n
  <2>7. b <= n
    BY <2>3, <2>4, <2>5, <2>6 DEF n
  <2>8. QED
    BY <2>7, Zenon DEF b, n
<1>7. scene' = "pool"
  BY Zenon DEF PoolInv
<1>8. QED
  BY <1>3, <1>4, <1>5, <1>6, <1>7, Zenon DEF PoolInv

\* An upload that does not exist has nothing.
LEMMA NothingYet ==
  /\ NoUpload \in UploadType /\ NoUpload.w = "none" /\ NoUpload.q = <<>> /\ NoUpload.data = <<>>
  /\ Begun(<<>>) /\ Continued(<<>>, Len(<<>>))
BY DEF NoUpload, UploadType, Ws, Chunks, Begun, Continued

\* All connections are free when nothing holds one, and no copy runs.
LEMMA NoneHeld ==
  ASSUME free = Connections, \A t \in Works : ~Holds(t) /\ upload[t].w # "putting" /\ t \notin Copying
  PROVE  Conserved /\ Cardinality(Copying) <= ServerTransferCapacity
<1>1. Streaming = {} /\ Putting = {} /\ Copying = {}
  BY Zenon DEF Streaming, Putting, Holds, Copying
<1>2. Cardinality({}) = 0
  BY FS_EmptySet, Zenon
<1>3. Conserved
  BY <1>1, <1>2, PoolBounds DEF Conserved
<1>4. ServerTransferCapacity \in Int /\ ServerTransferCapacity >= 1
  BY PoolBounds DEF ServerTransferCapacity
<1>5. QED
  BY <1>1, <1>2, <1>3, <1>4

\* At the start nothing is held and nothing is stored.
LEMMA PoolInvInit == scene = "pool" /\ PoolInit => PoolInv
<1> SUFFICES ASSUME scene = "pool", PoolInit PROVE PoolInv
  BY Zenon
<1>1. Idle \in WorkType /\ Idle.pc = "new" /\ Idle.stream = "none" /\ Idle.read = 0 /\ ~Idle.held
  BY Zenon DEF Idle, WorkType, Pcs, Early
<1>2. PoolTypeOK
  <2>1. kind \in [Works -> Kinds]
    BY PoolBounds, Zenon DEF PoolInit, Kinds
  <2>2. work \in [Works -> WorkType] /\ upload \in [Works -> UploadType]
    BY <1>1, NothingYet, Zenon DEF PoolInit
  <2>3. temp \in [Works -> Chunks] /\ final \in [Works -> Chunks]
    BY NoChunks, Zenon DEF PoolInit
  <2>4. QED
    BY <2>1, <2>2, <2>3, PoolBounds DEF PoolInit, PoolTypeOK
<1>3. ASSUME NEW t \in Works PROVE Local(t) /\ ~Holds(t) /\ upload[t].w # "putting" /\ t \notin Copying
  <2>1. work[t] = Idle /\ upload[t] = NoUpload /\ temp[t] = <<>> /\ final[t] = <<>>
    BY Zenon DEF PoolInit
  <2>2. StreamOK("new", "none", kind[t])
    BY Zenon DEF StreamOK, Late, Final
  <2>3. WorkerOK("new", kind[t], 0, Idle.held, "none", <<>>, <<>>)
    BY <1>1, Zenon DEF WorkerOK
  <2>4. DataOK("new", kind[t], 0, Idle.held, "none", <<>>, <<>>)
    BY NothingYet, Zenon DEF DataOK, Moving
  <2>5. StoreOK("new", kind[t], "none", <<>>, <<>>, t \in left)
    BY Zenon DEF StoreOK, Final
  <2>6. Local(t)
    BY <1>1, <2>1, <2>2, <2>3, <2>4, <2>5, NothingYet, Zenon DEF Local
  <2>7. QED
    BY <1>1, <2>1, <2>6, NothingYet, Zenon DEF Holds, HasStream, Copying
<1>4. free = Connections
  BY Zenon DEF PoolInit
<1>5. QED
  BY <1>2, <1>3, <1>4, NoneHeld, Zenon DEF PoolInv

\* The record of work that a crash has ended.
LEMMA RecordEnds ==
  ASSUME NEW k \in WorkType, NEW p \in Pcs
  PROVE  /\ [k EXCEPT !.pc = p, !.stream = "none"] \in WorkType
         /\ [k EXCEPT !.pc = p, !.stream = "none"].stream = "none"
         /\ [k EXCEPT !.pc = p, !.stream = "none"].pc = p
<1> DEFINE f == [k EXCEPT !.pc = p]
<1>1. f \in WorkType /\ f.pc = p
  BY Zenon DEF WorkType
<1>2. [k EXCEPT !.pc = p, !.stream = "none"] = [f EXCEPT !.stream = "none"]
  BY Zenon
<1> HIDE DEF f
<1> DEFINE r == [f EXCEPT !.stream = "none"]
<1>3. r \in WorkType /\ r.stream = "none" /\ r.pc = f.pc
  BY <1>1, Zenon DEF WorkType
<1>4. QED
  BY <1>1, <1>2, <1>3, Zenon

\* A crash ends all work and gives every connection back; what is stored stays.
LEMMA CrashKept ==
  ASSUME PoolInv, Crash, scene' = scene
  PROVE  PoolInv'
<1>1. PoolTypeOK /\ scene' = "pool" /\ UNCHANGED <<kind, temp, final, left>> /\ ~serving'
      /\ free' = Connections
  BY Zenon DEF PoolInv, Crash
<1>2. ASSUME NEW t \in Works
      PROVE  /\ work'[t] \in WorkType /\ work'[t].stream = "none" /\ work'[t].pc \in Final
             /\ (work'[t].pc = "ok" => work[t].pc = "ok")
  <2>1. work[t] \in WorkType
    BY <1>1, Zenon DEF PoolTypeOK
  <2>2. work'[t] = [work[t] EXCEPT !.pc = IF @ \in Final THEN @ ELSE "failed", !.stream = "none"]
    BY Zenon DEF Crash
  <2> DEFINE p == IF work[t].pc \in Final THEN work[t].pc ELSE "failed"
  <2>3. p \in Pcs /\ p \in Final /\ (p = "ok" => work[t].pc = "ok")
    BY Zenon DEF Pcs, Final
  <2>4. work'[t] = [work[t] EXCEPT !.pc = p, !.stream = "none"]
    BY <2>1, <2>2, Zenon DEF WorkType
  <2> HIDE DEF p
  <2> DEFINE r == [work[t] EXCEPT !.pc = p, !.stream = "none"]
  <2>r. r \in WorkType /\ r.stream = "none" /\ r.pc = p
    <3>1. p \in Pcs
      BY <2>3, Zenon
    <3>2. QED
      BY ONLY <2>1, <3>1, RecordEnds, Zenon
  <2>q. work'[t] = r
    BY <2>4, Zenon
  <2> HIDE DEF r
  <2>5. work'[t] \in WorkType /\ work'[t].stream = "none" /\ work'[t].pc = p
    BY ONLY <2>q, <2>r, Zenon
  <2>6. QED
    BY <2>3, <2>5, Zenon
<1>3. \A t \in Works : upload'[t] = NoUpload
  BY Zenon DEF Crash
<1>4. PoolTypeOK'
  <2>1. work' \in [Works -> WorkType]
    BY <1>2, Zenon DEF Crash
  <2>2. upload' \in [Works -> UploadType]
    BY NothingYet, Zenon DEF Crash
  <2>3. hurt' \in Nat /\ free' \in Int
    <3>1. hurt' = hurt + 1 /\ hurt \in Nat
      BY <1>1, Zenon DEF Crash, Hurts, PoolTypeOK
    <3>2. QED
      BY <3>1, <1>1, PoolBounds
  <2>4. serving' \in BOOLEAN
    BY Zenon DEF Crash
  <2>5. QED
    BY <1>1, <2>1, <2>2, <2>3, <2>4, Zenon DEF PoolTypeOK
<1>5. ASSUME NEW t \in Works PROVE Local(t)' /\ ~Holds(t)' /\ upload'[t].w # "putting" /\ t \notin Copying'
  <2>1. work'[t].pc \in Final /\ work'[t].stream = "none" /\ upload'[t] = NoUpload
    BY <1>2, <1>3, Zenon
  <2>2. StreamOK(work'[t].pc, work'[t].stream, kind[t])
    BY <2>1, Zenon DEF StreamOK, Final, Early
  <2>3. WorkerOK(work'[t].pc, kind[t], work'[t].read, work'[t].held, "none", <<>>, <<>>)
    BY <2>1, Zenon DEF WorkerOK, Final, Early
  <2>4. DataOK(work'[t].pc, kind[t], work'[t].read, work'[t].held, "none", <<>>, <<>>)
    BY <2>1, NothingYet, Zenon DEF DataOK, Moving, Final
  <2>5. /\ temp[t] \in {<<>>, Contents} /\ final[t] \in {<<>>, Contents}
        /\ work'[t].pc = "ok" /\ kind[t] # "read" => final[t] = Contents
    BY <1>2, Zenon DEF PoolInv, Local, StoreOK
  <2>6. Local(t)'
    BY <1>1, <2>1, <2>2, <2>3, <2>4, <2>5, NothingYet, Zenon DEF Local, StreamOK, WorkerOK, DataOK, StoreOK
  <2>7. QED
    BY <1>1, <2>1, <2>6, NothingYet, Zenon DEF Holds, HasStream, Copying, Final
<1>6. Conserved' /\ (Cardinality(Copying) <= ServerTransferCapacity)'
  <2>1. Streaming' = {} /\ Putting' = {} /\ Copying' = {}
    BY <1>5, Zenon DEF Streaming, Putting, Holds, Copying
  <2>2. Cardinality({}) = 0
    BY FS_EmptySet, Zenon
  <2>3. ServerTransferCapacity \in Int /\ ServerTransferCapacity >= 1
    BY PoolBounds DEF ServerTransferCapacity
  <2>4. QED
    BY <1>1, <2>1, <2>2, <2>3, PoolBounds DEF Conserved
<1>7. QED
  BY <1>1, <1>4, <1>5, <1>6, Zenon DEF PoolInv

\* A restart removes the temporary objects and touches nothing else.
LEMMA RecoverKept ==
  ASSUME PoolInv, RecoverTransferUploads, scene' = scene
  PROVE  PoolInv'
<1>1. PoolTypeOK /\ scene' = "pool" /\ UNCHANGED <<kind, free, work, upload, final, hurt>> /\ serving'
      /\ left' = {} /\ temp' = [t \in Works |-> <<>>]
  BY Zenon DEF PoolInv, RecoverTransferUploads
<1>2. PoolTypeOK'
  <2>1. temp' \in [Works -> Chunks]
    BY <1>1, NoChunks, Zenon
  <2>2. serving' \in BOOLEAN
    BY Zenon DEF RecoverTransferUploads
  <2>3. QED
    BY <1>1, <2>1, <2>2, Zenon DEF PoolTypeOK
<1>3. ASSUME NEW t \in Works PROVE Local(t)'
  BY <1>1, Zenon DEF PoolInv, Local, StreamOK, WorkerOK, DataOK, StoreOK
<1>4. Conserved' /\ (Cardinality(Copying) <= ServerTransferCapacity)'
  BY <1>1, Zenon DEF PoolInv, Conserved, Streaming, Putting, Copying, HasStream
<1>5. QED
  BY <1>1, <1>2, <1>3, <1>4, Zenon DEF PoolInv

\* The invariant is inductive.
LEMMA PoolInvKept ==
  ASSUME PoolInv, [(PoolWork \/ PoolFault) /\ scene' = scene]_<<scene, poolvars>>
  PROVE  PoolInv'
<1>1. ASSUME NEW t \in Works, PoolStep(t), scene' = scene PROVE PoolInv'
  <2>1. serving /\ UNCHANGED <<kind, serving, scene>>
    BY <1>1, Zenon DEF PoolStep
  <2>2. QED
    BY <1>1, <2>1, StepKept, Zenon
<1>2. ASSUME NEW t \in Works, CancelWork(t), serving, UNCHANGED <<kind, serving, scene>> PROVE PoolInv'
  BY <1>2, StepKept, Zenon
<1>3. CASE UNCHANGED <<scene, poolvars>>
  BY <1>3, Zenon DEF poolvars, PoolInv, PoolTypeOK, Local, StreamOK, WorkerOK, DataOK, StoreOK,
              Conserved, Streaming, Putting, Copying, HasStream
<1>4. QED
  BY <1>1, <1>2, <1>3, CrashKept, RecoverKept, Zenon DEF PoolWork, PoolFault

\* The invariant gives the conservation, and that the copies cannot block each other.
LEMMA PoolInvConserves == PoolInv => ConnectionsConserved
BY Zenon DEF PoolInv, ConnectionsConserved, Conserved, Streaming, Putting

\* With no connection free some holder can go on: were all of them held by copies
\* that wait for one more, the copies would be more than their limit.
LEMMA PoolInvNotStuck == PoolInv => PoolNotStuck
<1> SUFFICES ASSUME PoolInv, free = 0,
                    \A t \in Works : /\ HasStream(t) => kind[t] = "copy" /\ upload[t].w \in {"none", "queued"}
                                     /\ work[t].pc # "opening" /\ upload[t].w # "putting"
             PROVE  FALSE
  BY Zenon DEF PoolNotStuck
<1>1. Putting = {} /\ Cardinality({}) = 0
  BY FS_EmptySet, Zenon DEF Putting
<1>2. Streaming \subseteq Copying
  <2> SUFFICES ASSUME NEW t \in Works, HasStream(t) \/ work[t].pc = "opening" PROVE t \in Copying
    BY Zenon DEF Streaming
  <2>1. HasStream(t) /\ kind[t] = "copy"
    BY Zenon
  <2>2. StreamOK(work[t].pc, work[t].stream, kind[t])
    BY Zenon DEF PoolInv, Local
  <2>3. work[t].pc \notin {"new"} \cup Final
    BY <2>1, <2>2, Zenon DEF StreamOK, HasStream, Early
  <2>4. QED
    BY <2>1, <2>3, Zenon DEF Copying
<1>3. IsFiniteSet(Copying) /\ IsFiniteSet(Streaming)
  <2>1. Copying \subseteq Works /\ Streaming \subseteq Works
    BY Zenon DEF Copying, Streaming
  <2>2. QED
    BY <2>1, PoolBounds, FS_Subset, Zenon
<1>4. /\ Cardinality(Streaming) <= Cardinality(Copying)
      /\ Cardinality(Streaming) \in Nat /\ Cardinality(Copying) \in Nat
  BY <1>2, <1>3, FS_Subset, FS_CardinalityType, Zenon
<1>5. Cardinality(Copying) <= ServerTransferCapacity
  BY Zenon DEF PoolInv
<1>6. Connections \in Nat /\ ServerTransferCapacity \in Nat /\ ServerTransferCapacity < Connections
  BY PoolBounds DEF ServerTransferCapacity
<1>7. free = Connections - Cardinality(Streaming) - 0
  BY <1>1, Zenon DEF PoolInv, Conserved
<1> DEFINE a == Cardinality(Streaming)
           b == Cardinality(Copying)
           n == ServerTransferCapacity
<1> HIDE DEF a, b, n
<1>8. a <= b /\ a \in Nat /\ b \in Nat /\ b <= n /\ n \in Nat /\ n < Connections /\ 0 = Connections - a - 0
      /\ Connections \in Nat
  BY <1>4, <1>5, <1>6, <1>7, Zenon DEF a, b, n
<1>9. QED
  BY <1>8

\* The invariant says of every work what the store holds of it: a temporary object
\* has an owner that will move or delete it, and a final object is the whole file.
LEMMA PoolInvStored == PoolInv => TempsOwned /\ PublishedExact
<1> SUFFICES ASSUME PoolInv PROVE TempsOwned /\ PublishedExact
  BY Zenon
<1>1. \A t \in Works : StoreOK(work[t].pc, kind[t], upload[t].w, temp[t], final[t], t \in left)
  BY Zenon DEF PoolInv, Local
<1>2. QED
  BY <1>1, Zenon DEF StoreOK, TempsOwned, PublishedExact

\* Every behaviour of the pool has the invariant.
LEMMA PoolInvAlways == PoolSpec => []PoolInv
<1>1. scene = "pool" /\ PoolInit => PoolInv
  BY PoolInvInit, Zenon
<1>2. PoolInv /\ [(PoolWork \/ PoolFault) /\ scene' = scene]_<<scene, poolvars>> => PoolInv'
  BY PoolInvKept, Zenon
<1>3. QED
  BY <1>1, <1>2, PTL DEF PoolSpec

\* The connections of ObjectStorage are conserved: whatever is cancelled, refused or cut short,
\* a connection is free or held by one stream, one request for a stream or one upload thread.
THEOREM ConnectionsAreConserved == PoolSpec => []ConnectionsConserved
<1>1. PoolInv => ConnectionsConserved
  BY PoolInvConserves, Zenon
<1>2. QED
  BY <1>1, PoolInvAlways, PTL

\* ServerTransferCapacity keeps the copies from waiting for each other: they never hold
\* all connections with their sources while each of them needs one more.
THEOREM PoolIsNotStuck == PoolSpec => []PoolNotStuck
<1>1. PoolInv => PoolNotStuck
  BY PoolInvNotStuck, Zenon
<1>2. QED
  BY <1>1, PoolInvAlways, PTL

\* An upload publishes exactly the file, and its temporary object does not outlive its work
\* unless its delete has failed: ObjectUpload's queue, its thread and abort, with crashes.
THEOREM UploadsAreExact == PoolSpec => [](TempsOwned /\ PublishedExact)
<1>1. PoolInv => TempsOwned /\ PublishedExact
  BY PoolInvStored, Zenon
<1>2. QED
  BY <1>1, PoolInvAlways, PTL
===============================================================================
