----------------------------- MODULE ObjectPool -----------------------------
(***************************************************************************)
(* The connections of the object store (server workspace/storage.py) and   *)
(* the work that holds them: an open object (ObjectStream) keeps one until *)
(* it is closed, an upload (ObjectUpload) keeps one from the start of its  *)
(* worker thread to its end, every other operation takes one for as long   *)
(* as it lasts.  A copy between two places of the server holds two.        *)
(***************************************************************************)
EXTENDS Scene, Naturals, Sequences, FiniteSets

CONSTANTS
    Works,          \* pieces of work
    Mixes,          \* what they may be: "copy" (server to server), "read" (download),
                    \* "write" (upload)
    Connections,    \* max_connections
    UploadQueue,    \* UPLOAD_QUEUE_CHUNKS
    Parts,          \* the chunks of every file
    PoolFaults      \* Bound on errors of the store, cancellations and crashes

ASSUME PoolBounds ==
    /\ IsFiniteSet(Works) /\ Mixes \subseteq [Works -> {"copy", "read", "write"}]
    /\ Connections \in Nat \ {0, 1} /\ UploadQueue \in Nat \ {0} /\ Parts \in Nat \ {0}
    /\ PoolFaults \in Nat

VARIABLES
    kind,           \* what each piece of work is
    free,           \* the value of _semaphore
    work,           \* what each piece of work does
    upload,             \* the ObjectUpload of each
    temp,           \* the temporary object of each: the chunks stored, <<>> when absent
    final,          \* the object each has published
    left,           \* the temporary objects a failed delete has left behind
    serving,        \* the process runs
    hurt            \* faults so far
poolvars == <<kind, free, work, upload, temp, final, left, serving, hurt>>

EndMark == 0
Contents == [i \in 1 .. Parts |-> i]
NoUpload == [w |-> "none", q |-> <<>>, data |-> <<>>, cancelled |-> FALSE]
Idle == [pc |-> "new", stream |-> "none", read |-> 0, held |-> FALSE, doomed |-> FALSE]
Final == {"ok", "failed"}

PoolInit ==
    /\ kind \in Mixes
    /\ free = Connections
    /\ work = [t \in Works |-> Idle]
    /\ upload = [t \in Works |-> NoUpload]
    /\ temp = [t \in Works |-> <<>>]
    /\ final = [t \in Works |-> <<>>]
    /\ left = {} /\ serving = TRUE /\ hurt = 0

Hurts == hurt < PoolFaults /\ hurt' = hurt + 1
Unhurt == hurt' = hurt
To(t, p) == work' = [work EXCEPT ![t].pc = p]
WorkerDone(t) == upload[t].w \in {"done", "failed"}

\* Mutation: as many copies as there are connections.
CapacityWhole == Connections

\* At most half of the connections may be streams of copies.
ServerTransferCapacity == LET half == Connections \div 2 IN IF half > 1 THEN half ELSE 1

Copying == {t \in Works : kind[t] = "copy" /\ work[t].pc \notin {"new"} \cup Final}

Begins(t) ==
    /\ work[t].pc = "new"
    /\ kind[t] = "copy" => Cardinality(Copying) < ServerTransferCapacity
    /\ To(t, IF kind[t] = "write" THEN "begin" ELSE "open")
    /\ UNCHANGED <<free, upload, temp, final, left>> /\ Unhurt

(***************************************************************************)
(* ObjectStream.                                                           *)
(***************************************************************************)
\* The connection is taken first, then the request is sent.
TakesConnection(t) ==
    /\ work[t].pc = "open" /\ free > 0
    /\ free' = free - 1 /\ To(t, "opening")
    /\ UNCHANGED <<upload, temp, final, left>> /\ Unhurt

\* Mutation: a failed request keeps the connection.
OpensKeeping(t) ==
    /\ work[t].pc = "opening"
    /\ \/ /\ Unhurt /\ free' = free
          /\ work' = [work EXCEPT ![t].stream = "open",
                                  ![t].pc = IF kind[t] = "copy" THEN "begin" ELSE "move"]
       \/ Hurts /\ free' = free /\ To(t, "failed")
    /\ UNCHANGED <<upload, temp, final, left>>

Opens(t) ==
    /\ work[t].pc = "opening"
    /\ \/ /\ Unhurt /\ free' = free
          /\ work' = [work EXCEPT ![t].stream = "open",
                                  ![t].pc = IF kind[t] = "copy" THEN "begin" ELSE "move"]
       \/ Hurts /\ free' = free + 1 /\ To(t, "failed")
    /\ UNCHANGED <<upload, temp, final, left>>

HasStream(t) == work[t].stream = "open"

\* The next chunk; the end of the object, and an error, close the stream.  A device
\* that sends a file is a source without a connection.
Reads(t) ==
    /\ work[t].pc = "move" /\ ~work[t].held
    /\ \/ /\ work[t].read < Parts /\ Unhurt
          /\ work' = [work EXCEPT ![t].read = @ + 1, ![t].held = TRUE]
          /\ UNCHANGED <<free, upload>>
       \/ /\ work[t].read = Parts /\ Unhurt
          /\ work' = [work EXCEPT ![t].stream = IF HasStream(t) THEN "closed" ELSE @,
                                  ![t].pc = IF kind[t] = "read" THEN "ok" ELSE "finish"]
          /\ free' = free + (IF HasStream(t) THEN 1 ELSE 0)
          /\ UNCHANGED upload
       \/ /\ Hurts
          /\ work' = [work EXCEPT ![t].stream = IF HasStream(t) THEN "closed" ELSE @,
                                  ![t].pc = IF kind[t] = "read" THEN "failed" ELSE "abort"]
          /\ free' = free + (IF HasStream(t) THEN 1 ELSE 0)
          /\ upload' = [upload EXCEPT ![t].cancelled = kind[t] # "read"]
    /\ UNCHANGED <<temp, final, left>>

\* The body of the response is sent; a reader that is gone, or too slow, ends it.
Sends(t) ==
    /\ work[t].pc = "move" /\ work[t].held /\ kind[t] = "read"
    /\ \/ /\ Unhurt /\ work' = [work EXCEPT ![t].held = FALSE]
          /\ free' = free
       \/ /\ Hurts /\ work' = [work EXCEPT ![t].stream = "closed", ![t].pc = "failed"]
          /\ free' = free + 1
    /\ UNCHANGED <<upload, temp, final, left>>

(***************************************************************************)
(* ObjectUpload: a coroutine writes into a bounded queue, and a thread     *)
(* reads from it into put_object, which wants exactly the declared length. *)
(***************************************************************************)
\* begin_transfer_upload looks at the destination before the worker is made.
BeginsUpload(t) ==
    /\ work[t].pc = "begin" /\ free > 0
    /\ \/ /\ Unhurt /\ To(t, "move") /\ free' = free
          /\ upload' = [upload EXCEPT ![t].w = "queued"]
       \/ /\ Hurts /\ UNCHANGED upload
          /\ work' = [work EXCEPT ![t].stream = IF HasStream(t) THEN "closed" ELSE @,
                                  ![t].pc = "failed"]
          /\ free' = free + (IF HasStream(t) THEN 1 ELSE 0)
    /\ UNCHANGED <<temp, final, left>>

\* put_nowait.
Enqueue(t, c) == [upload EXCEPT ![t].q = Append(@, c)]

\* A chunk is queued, or waits for room; a worker that is done takes no more.
Writes(t) ==
    /\ work[t].pc = "move" /\ work[t].held /\ kind[t] # "read"
    /\ \/ /\ ~WorkerDone(t) /\ Len(upload[t].q) < UploadQueue
          /\ upload' = Enqueue(t, work[t].read)
          /\ work' = [work EXCEPT ![t].held = FALSE]
       \/ /\ WorkerDone(t)
          /\ To(t, "abort") /\ upload' = [upload EXCEPT ![t].cancelled = TRUE]
    /\ UNCHANGED <<free, temp, final, left>> /\ Unhurt

\* finish: the end is queued unless the worker is done already.  A worker that ends
\* while finish waits for room is an error, although it has stored the object.
Finishes(t) ==
    /\ work[t].pc \in {"finish", "full"}
    /\ \/ WorkerDone(t) /\ To(t, IF work[t].pc = "full" THEN "drop" ELSE "await")
          /\ upload' = [upload EXCEPT ![t].cancelled = work[t].pc = "full"]
       \/ ~WorkerDone(t) /\ Len(upload[t].q) < UploadQueue /\ To(t, "await")
          /\ upload' = Enqueue(t, EndMark)
       \/ ~WorkerDone(t) /\ Len(upload[t].q) = UploadQueue
          /\ work[t].pc = "finish" /\ To(t, "full") /\ UNCHANGED upload
    /\ UNCHANGED <<free, temp, final, left>> /\ Unhurt

\* The worker's result: the upload is staged, or its object is deleted.  A
\* cancellation that came meanwhile is raised only now.
AwaitsWorker(t) ==
    /\ work[t].pc = "await" /\ WorkerDone(t)
    /\ To(t, CASE work[t].doomed -> "abort"
               [] upload[t].w = "done" -> "staged"
               [] OTHER -> "drop")
    /\ upload' = [upload EXCEPT ![t].cancelled = work[t].doomed \/ upload[t].w = "failed"]
    /\ UNCHANGED <<free, temp, final, left>> /\ Unhurt

\* The delete of a failed finish; the owner aborts then.
Drops(t) ==
    /\ work[t].pc = "drop" /\ free > 0
    /\ \/ Unhurt /\ temp' = [temp EXCEPT ![t] = <<>>]
       \/ Hurts /\ temp' = temp
    /\ To(t, "abort")
    /\ UNCHANGED <<free, upload, final, left>>

\* The owner publishes the staged object; a refused commit is aborted.
Commits(t) ==
    /\ work[t].pc = "staged" /\ free > 0
    /\ \/ /\ Unhurt /\ temp[t] # <<>>
          /\ final' = [final EXCEPT ![t] = temp[t]]
          /\ temp' = [temp EXCEPT ![t] = <<>>] /\ To(t, "ok") /\ UNCHANGED upload
       \/ /\ Hurts /\ To(t, "abort") /\ UNCHANGED <<final, temp>>
          /\ upload' = [upload EXCEPT ![t].cancelled = TRUE]
    /\ UNCHANGED <<free, left>>

\* The end of a piece of work gives its stream back.
Ended(t, p) ==
    /\ work' = [work EXCEPT ![t].pc = p, ![t].stream = IF HasStream(t) THEN "closed" ELSE @]
    /\ free' = free + (IF HasStream(t) THEN 1 ELSE 0)

\* Mutation: the object is deleted while the worker may still write it.
AbortsAtOnce(t) ==
    /\ work[t].pc = "abort" /\ free > 0
    /\ Ended(t, "failed")
    /\ \/ Unhurt /\ temp' = [temp EXCEPT ![t] = <<>>] /\ left' = left
       \/ Hurts /\ temp' = temp /\ left' = IF temp[t] = <<>> THEN left ELSE left \cup {t}
    /\ UNCHANGED <<upload, final>>

\* abort waits for the worker, then deletes whatever it has stored; an error of the
\* delete is swallowed.
Aborts(t) ==
    /\ work[t].pc = "abort" /\ WorkerDone(t) /\ free > 0
    /\ Ended(t, "failed")
    /\ \/ Unhurt /\ temp' = [temp EXCEPT ![t] = <<>>] /\ left' = left
       \/ Hurts /\ temp' = temp /\ left' = IF temp[t] = <<>> THEN left ELSE left \cup {t}
    /\ UNCHANGED <<upload, final>>

WorkerStarts(t) ==
    /\ upload[t].w = "queued" /\ free > 0
    /\ free' = free - 1 /\ upload' = [upload EXCEPT ![t].w = "putting"]
    /\ UNCHANGED <<work, temp, final, left>> /\ Unhurt

\* read: a chunk; the end, or a cancelled upload, cuts the object short.  put_object
\* may also fail on the way.
WorkerReads(t) ==
    /\ upload[t].w = "putting" /\ Len(upload[t].data) < Parts
    /\ \/ /\ ((upload[t].cancelled \/ (upload[t].q # <<>> /\ Head(upload[t].q) = EndMark)) /\ Unhurt) \/ Hurts
          /\ upload' = [upload EXCEPT ![t].w = "failed"] /\ free' = free + 1
       \/ /\ ~upload[t].cancelled /\ upload[t].q # <<>> /\ Head(upload[t].q) # EndMark /\ Unhurt
          /\ upload' = [upload EXCEPT ![t].q = Tail(@), ![t].data = Append(@, Head(upload[t].q))]
          /\ free' = free
    /\ UNCHANGED <<work, temp, final, left>>

\* put_object has all its bytes: it stores the object, or fails before or after that.
WorkerPuts(t) ==
    /\ upload[t].w = "putting" /\ Len(upload[t].data) = Parts
    /\ \/ Unhurt /\ upload' = [upload EXCEPT ![t].w = "done"] /\ temp' = [temp EXCEPT ![t] = upload[t].data]
       \/ /\ Hurts /\ upload' = [upload EXCEPT ![t].w = "failed"]
          /\ temp' \in {temp, [temp EXCEPT ![t] = upload[t].data]}
    /\ free' = free + 1
    /\ UNCHANGED <<work, final, left>>

(***************************************************************************)
(* Cancellation, crash and restart.                                        *)
(***************************************************************************)
\* The task of a piece of work is cancelled at one of its waits.
CancelWork(t) ==
    /\ Hurts
    /\ \/ /\ work[t].pc \in {"new", "open"}
          /\ To(t, "failed") /\ UNCHANGED <<free, upload>>
       \/ /\ work[t].pc = "opening"
          /\ To(t, "failed") /\ free' = free + 1 /\ UNCHANGED upload
       \/ /\ work[t].pc = "begin" \/ (work[t].pc = "move" /\ kind[t] = "read")
          /\ Ended(t, "failed") /\ UNCHANGED upload
       \/ /\ work[t].pc \in {"move", "full", "staged"} /\ kind[t] # "read"
          /\ To(t, "abort") /\ upload' = [upload EXCEPT ![t].cancelled = TRUE] /\ UNCHANGED free
       \/ /\ work[t].pc = "await" /\ ~work[t].doomed
          /\ work' = [work EXCEPT ![t].doomed = TRUE] /\ UNCHANGED <<free, upload>>
    /\ UNCHANGED <<temp, final, left>>

Crash ==
    /\ serving /\ Hurts /\ serving' = FALSE
    /\ work' = [t \in Works |-> [work[t] EXCEPT !.pc = IF @ \in Final THEN @ ELSE "failed",
                                                !.stream = "none"]]
    /\ upload' = [t \in Works |-> NoUpload]
    /\ free' = Connections
    /\ UNCHANGED <<kind, temp, final, left>>

\* recover_transfer_uploads: all of them, or the server does not start.
RecoverTransferUploads ==
    /\ ~serving /\ serving' = TRUE
    /\ temp' = [t \in Works |-> <<>>] /\ left' = {}
    /\ UNCHANGED <<kind, free, work, upload, final, hurt>>

PoolStep(t) ==
    /\ serving
    /\ \/ Begins(t) \/ TakesConnection(t) \/ Opens(t) \/ Reads(t) \/ Sends(t)
       \/ BeginsUpload(t) \/ Writes(t) \/ Finishes(t) \/ AwaitsWorker(t) \/ Drops(t)
       \/ Commits(t) \/ Aborts(t)
       \/ WorkerStarts(t) \/ WorkerReads(t) \/ WorkerPuts(t)
    /\ UNCHANGED <<kind, serving>>
PoolFault ==
    \/ serving /\ (\E t \in Works : CancelWork(t)) /\ UNCHANGED <<kind, serving>>
    \/ Crash
PoolWork == (\E t \in Works : PoolStep(t)) \/ RecoverTransferUploads
PoolDone == serving /\ \A t \in Works : work[t].pc \in Final /\ upload[t].w \notin {"queued", "putting"}

PoolSpec ==
    /\ scene = "pool" /\ PoolInit
    /\ [][(PoolWork \/ PoolFault) /\ scene' = scene]_<<scene, poolvars>>

(***************************************************************************)
(* Properties.                                                             *)
(***************************************************************************)
\* Every connection is free or held by one open stream, request or upload thread:
\* no path of _open_async_stream, ObjectStream or ObjectUpload loses or doubles one.
ConnectionsConserved ==
    scene = "pool" =>
    free = Connections - Cardinality({t \in Works : HasStream(t) \/ work[t].pc = "opening"})
                       - Cardinality({t \in Works : upload[t].w = "putting"})

\* The copies never hold all connections with their open sources while each of their
\* uploads waits for one more: half of the connections are out of their reach.
PoolNotStuck ==
    scene = "pool" =>
    ~(free = 0 /\ \A t \in Works : (HasStream(t) => kind[t] = "copy" /\ upload[t].w \in {"none", "queued"})
                                   /\ work[t].pc # "opening" /\ upload[t].w # "putting")

\* A temporary object belongs to work that still runs, unless its delete has failed:
\* an aborted upload cannot store it later, and a restart removes what a crash left.
TempsOwned ==
    scene = "pool" /\ serving => \A t \in Works : temp[t] # <<>> => work[t].pc \notin Final \/ t \in left

\* What is published is the file, chunk by chunk, and work that reports success has
\* published it (or sent all of it).
PublishedExact ==
    scene = "pool" =>
    \A t \in Works : /\ final[t] \in {<<>>, Contents}
                     /\ work[t].pc = "ok" /\ kind[t] # "read" => final[t] = Contents
=============================================================================
