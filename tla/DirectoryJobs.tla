----------------------------- MODULE DirectoryJobs -----------------------------
(***************************************************************************)
(* A device's directory jobs (client/tools/directory_jobs.py): the record  *)
(* that scans, holds and at last removes a source directory, the record    *)
(* that claims, fills, verifies or takes back a destination directory, and *)
(* the copy or rename inside one device.  Commands run one at a time in    *)
(* the device's directory worker; the jobs' own tasks run beside them.     *)
(***************************************************************************)
EXTENDS Scene, Naturals, FiniteSets

CONSTANTS
    DirFiles,       \* how many files the directory holds
    DirFaults       \* how many things may go wrong

ASSUME DirBounds == DirFiles \in Nat \ {0} /\ DirFaults \in Nat

VARIABLES
    jobs,       \* the source and the destination record
    mgr,        \* their manager: "open", "retired" by a new configuration, "final"
    sfile,      \* source files, against the manifest: "same", "edited", "gone"
    dfile,      \* destination files: "none", "ours", "edited"
    droot,      \* the destination directory: "absent", "ours", "foreign"
    trouble     \* faults so far

jvars == <<jobs, mgr, sfile, dfile, droot, trouble>>

Entries == 1..DirFiles
Roles == {"src", "dst"}
JobEnded == {"succeeded", "failed", "unknown"}

Blame == trouble < DirFaults /\ trouble' = trouble + 1
Blameless == UNCHANGED trouble

(* _JobRecord.  `live` is membership of _active; a record that is not live *)
(* is retained, a tombstone, "released" or "gone".  `res` is the path      *)
(* reservation, `cerr` that a terminal error is remembered.                *)
NoJob ==
    [st |-> "none", live |-> FALSE, pages |-> FALSE, auth |-> 0, used |-> FALSE,
     committed |-> {}, cerr |-> FALSE, stop |-> FALSE, stopc |-> FALSE, task |-> "none",
     todo |-> {}, res |-> FALSE, root |-> FALSE, warn |-> FALSE, clean |-> FALSE]

JobsInit ==
    /\ jobs = [r \in Roles |-> NoJob] /\ mgr = [r \in Roles |-> "open"]
    /\ sfile = [f \in Entries |-> "same"] /\ dfile = [f \in Entries |-> "none"]
    /\ droot \in {"absent", "foreign"} /\ trouble = 0

(* what a status read shows *)
Status(r) == jobs[r].st

SetJob(r, j) == jobs' = [jobs EXCEPT ![r] = j]
DiskKeep == UNCHANGED <<sfile, dfile, droot>>

(* _terminalize and _remove_active_record: the first terminal state wins,  *)
(* and the authorizations and commit records go with the active record.    *)
Removed(j) == [j EXCEPT !.live = FALSE, !.auth = 0, !.used = FALSE, !.committed = {}]
Terminal(j, st) == IF j.live THEN [Removed(j) EXCEPT !.st = st] ELSE j

ExitReservation(j) == [j EXCEPT !.res = FALSE]
Remember(j) == [j EXCEPT !.cerr = TRUE]
Cleaning(j) == [j EXCEPT !.st = "cleaning", !.task = "clean", !.todo = j.committed]

(***************************************************************************)
(* Command handlers: each maps a record to an answer and the next record.  *)
(***************************************************************************)
Says(a, j) == [a |-> a, j |-> j]

(* _require_active: a retired manager says it cannot be reached *)
Inactive(r) ==
    Says(IF mgr[r] # "open" /\ jobs[r].st \notin {"none", "gone"} THEN "unreach" ELSE "error",
         jobs[r])

Started(r, st, task) ==
    IF jobs[r].st # "none" THEN Says(IF jobs[r].st = "released" THEN "error" ELSE "ok", jobs[r])
    ELSE IF mgr[r] # "open" THEN Says("unreach", jobs[r])
    ELSE Says("ok", [NoJob EXCEPT !.st = st, !.live = TRUE, !.task = task])

SourceStart == Started("src", "scanning", "scan")
DestinationPreflight == Started("dst", "preflighting", "preflight")

(* every page, read in order *)
SourcePage ==
    LET j == jobs["src"] IN
    IF ~j.live THEN Inactive("src")
    ELSE IF j.st \in {"ready", "held"} THEN Says("ok", [j EXCEPT !.pages = TRUE]) ELSE Says("error", j)

SourceHold ==
    LET j == jobs["src"] IN
    IF ~j.live THEN Inactive("src")
    ELSE IF j.st = "held" THEN Says("ok", j)
    ELSE IF j.st = "ready" /\ j.pages THEN Says("ok", [j EXCEPT !.st = "held"]) ELSE Says("error", j)

(* A child in flight defers the end; a running task sees the stop flag.    *)
SourceCancel ==
    LET j == [jobs["src"] EXCEPT !.stop = TRUE] IN
    IF ~jobs["src"].live
    THEN Says(IF jobs["src"].st \in JobEnded THEN "ok" ELSE "error", jobs["src"])
    ELSE IF j.used THEN Says("ok", Remember(j))
    ELSE Says("ok", IF j.task = "none" THEN Terminal(j, "failed") ELSE j)

AuthorizeSource(f) ==
    LET j == jobs["src"] IN
    IF ~j.live THEN Inactive("src")
    ELSE IF j.st # "held" THEN Says("error", j)
    ELSE IF j.auth # 0 THEN Says("busy", j)
    ELSE IF mgr["src"] # "open" THEN Says("unreach", j)
    ELSE Says("ok", [j EXCEPT !.auth = f])

SourceCleanup ==
    LET j == jobs["src"] IN
    IF ~j.live THEN Inactive("src")
    ELSE IF j.st = "cleanup" THEN Says("ok", j)
    ELSE IF j.st # "held" THEN Says("error", j)
    ELSE IF j.auth # 0 THEN Says("busy", j)
    ELSE Says("ok", [j EXCEPT !.st = "cleanup", !.task = "remove", !.todo = Entries])

DestinationPrepare ==
    LET j == jobs["dst"] IN
    IF ~j.live THEN Inactive("dst")
    ELSE IF j.st \in {"preparing", "reserved", "copying"} THEN Says("ok", j)
    ELSE IF j.st # "ready" THEN Says("error", j)
    ELSE IF mgr["dst"] # "open" THEN Says("unreach", j)
    ELSE Says("ok", [j EXCEPT !.st = "preparing", !.task = "prepare"])

AuthorizeDestination(f) ==
    LET j == jobs["dst"] IN
    IF ~j.live THEN Inactive("dst")
    ELSE IF j.st \notin {"reserved", "copying"} \/ f \in j.committed THEN Says("error", j)
    ELSE IF j.auth # 0 THEN Says("busy", j)
    ELSE IF mgr["dst"] # "open" THEN Says("unreach", j)
    ELSE Says("ok", [j EXCEPT !.st = "copying", !.auth = f])

DestinationFinish ==
    LET j == jobs["dst"] IN
    IF ~j.live THEN Inactive("dst")
    ELSE IF j.st \in {"finalizing", "finalized"} THEN Says("ok", j)
    ELSE IF mgr["dst"] # "open" THEN Says("unreach", j)
    ELSE IF j.st \notin {"reserved", "copying"} THEN Says("error", j)
    ELSE IF j.auth # 0 THEN Says("busy", j)
    ELSE IF j.committed # Entries THEN Says("error", j)
    ELSE Says("ok", [j EXCEPT !.st = "finalizing", !.task = "finish"])

(* A finished destination is not taken back; a child in flight resumes the *)
(* cancellation when it ends; a running task sees the stop flag.           *)
DestinationCancel(local) ==
    LET j == Remember([jobs["dst"] EXCEPT !.stop = TRUE])
        idle == j.task = "none"
        settled == IF local THEN [j EXCEPT !.st = "cancelling"]
                   ELSE IF j.st \in {"preflighting", "preparing", "finalizing", "cleaning"} THEN j
                   ELSE [j EXCEPT !.st = "cleaning"] IN
    IF ~jobs["dst"].live
    THEN Says(IF jobs["dst"].st \in JobEnded \cup {"ready", "finalized"} THEN "ok" ELSE "error", jobs["dst"])
    ELSE IF j.st = "finalized" THEN Says("ok", jobs["dst"])
    ELSE IF j.used THEN Says("ok", j)
    ELSE IF local /\ j.st = "ready" THEN Says("ok", Terminal(j, "failed"))
    ELSE IF ~local /\ settled # j /\ ~j.root /\ j.committed = {} THEN Says("ok", Terminal(j, "failed"))
    ELSE Says("ok", IF idle /\ j.root THEN Cleaning(settled) ELSE settled)

LocalStart(mode) ==
    LET j == jobs["dst"] IN
    IF ~j.live THEN Inactive("dst")
    ELSE IF mgr["dst"] # "open" THEN Says("unreach", j)
    ELSE IF j.st # "ready" THEN Says("error", j)
    ELSE Says("ok", [j EXCEPT !.st = "running", !.task = mode])

(* _release *)
Release(r) ==
    LET j == jobs[r]
        quiet == IF r = "src" THEN j.st = "held" \/ (j.st = "ready" /\ j.pages)
                 ELSE j.st \in {"ready", "finalized"} IN
    IF ~j.live THEN IF j.st \in {"none", "gone"} THEN Says("error", j) ELSE Says("ok", [j EXCEPT !.st = "released"])
    ELSE IF j.auth # 0 THEN Says("busy", j)
    ELSE IF ~quiet THEN Says(IF j.st = "ready" THEN "error" ELSE "busy", j)
    ELSE Says("ok", [Removed(ExitReservation(j)) EXCEPT !.st = "released"])

(***************************************************************************)
(* Tasks of the source.                                                    *)
(***************************************************************************)
(* _run_source_scan: a stop is noticed by the walk, or comes too late.     *)
ScanEnds ==
    /\ jobs["src"].task = "scan"
    /\ LET j == [jobs["src"] EXCEPT !.task = "none"] IN
       \/ SetJob("src", IF j.live THEN [j EXCEPT !.st = "ready"] ELSE j) /\ Blameless
       \/ j.stop /\ SetJob("src", Terminal(j, "failed")) /\ Blameless
       \/ SetJob("src", Terminal(j, "failed")) /\ Blame
    /\ DiskKeep /\ UNCHANGED mgr

(* _conditional_source_cleanup: only a file the manifest still describes   *)
RemoveSourceFile(f) ==
    /\ jobs["src"].task = "remove" /\ f \in jobs["src"].todo /\ ~jobs["src"].stopc
    /\ SetJob("src", [jobs["src"] EXCEPT !.todo = @ \ {f}, !.warn = @ \/ sfile[f] = "edited"])
    /\ sfile' = [sfile EXCEPT ![f] = IF @ = "same" THEN "gone" ELSE @]
    /\ Blameless /\ UNCHANGED <<mgr, dfile, droot>>

(* _run_source_cleanup: another owner of the path leaves a warning, every  *)
(* other failure an unknown outcome                                        *)
RemoveSourceEnds ==
    /\ jobs["src"].task = "remove"
    /\ LET j == [jobs["src"] EXCEPT !.task = "none"] IN
       \/ j.todo = {} /\ SetJob("src", Terminal(j, "succeeded")) /\ Blameless
       \/ j.stopc /\ SetJob("src", Terminal(j, "unknown")) /\ Blameless
       \/ j.todo = Entries /\ SetJob("src", Terminal([j EXCEPT !.warn = TRUE], "succeeded")) /\ Blame
       \/ SetJob("src", Terminal(j, "unknown")) /\ Blame
    /\ DiskKeep /\ UNCHANGED mgr

(***************************************************************************)
(* Tasks of the destination.                                               *)
(***************************************************************************)
(* _preflight_destination *)
RootFree == droot # "foreign"

(* _run_destination_preflight *)
PreflightEnds ==
    /\ jobs["dst"].task = "preflight"
    /\ LET j == [jobs["dst"] EXCEPT !.task = "none"] IN
       \/ RootFree /\ SetJob("dst", [j EXCEPT !.st = "ready"]) /\ Blameless
       \/ ~RootFree /\ SetJob("dst", Terminal(j, "failed")) /\ Blameless
       \/ j.stop /\ SetJob("dst", Terminal(j, "failed")) /\ Blameless
       \/ SetJob("dst", Terminal(j, "failed")) /\ Blame
    /\ DiskKeep /\ UNCHANGED mgr

(* _run_destination_prepare: reserve the paths, then make the directories *)
PrepareReserves ==
    /\ jobs["dst"].task = "prepare"
    /\ LET j == jobs["dst"] IN
       \/ ~j.stop /\ SetJob("dst", [j EXCEPT !.task = "claim", !.res = TRUE]) /\ Blameless
       \/ j.stop /\ SetJob("dst", Terminal([j EXCEPT !.task = "none"], "failed")) /\ Blameless
       \/ SetJob("dst", Terminal([j EXCEPT !.task = "none"], "failed")) /\ Blame
    /\ DiskKeep /\ UNCHANGED mgr

(* _claim_destination_root and _claim_destination_tree can fail with the   *)
(* root made or not                                                        *)
ClaimFails(j) ==
    \E made \in BOOLEAN :
        /\ droot' = IF made THEN "ours" ELSE droot
        /\ SetJob("dst", IF made THEN Cleaning(Remember([j EXCEPT !.root = TRUE]))
                         ELSE Terminal(ExitReservation([j EXCEPT !.task = "none"]), "failed"))

PrepareClaims ==
    /\ jobs["dst"].task = "claim"
    /\ LET j == jobs["dst"] IN
       IF droot = "absent"
       THEN \/ /\ ~j.stop
               /\ SetJob("dst", [j EXCEPT !.root = TRUE, !.task = "none", !.st = "reserved"])
               /\ droot' = "ours" /\ Blameless
            \/ ClaimFails(j) /\ IF j.stop THEN Blameless ELSE Blame
       ELSE /\ SetJob("dst", Terminal(ExitReservation([j EXCEPT !.task = "none"]), "failed"))
            /\ Blameless /\ UNCHANGED droot
    /\ UNCHANGED <<mgr, sfile, dfile>>

(* _verify_destination_tree *)
Whole == \A f \in Entries : dfile[f] = "ours"

(* _run_destination_finish *)
FinishEnds ==
    /\ jobs["dst"].task = "finish"
    /\ LET j == jobs["dst"] IN
       \/ Whole /\ SetJob("dst", [j EXCEPT !.task = "none", !.st = "finalized"]) /\ Blameless
       \/ ~Whole /\ SetJob("dst", Cleaning(Remember([j EXCEPT !.stop = TRUE]))) /\ Blameless
       \/ j.stop /\ SetJob("dst", Cleaning(Remember(j))) /\ Blameless
       \/ SetJob("dst", Cleaning(Remember([j EXCEPT !.stop = TRUE]))) /\ Blame
    /\ DiskKeep /\ UNCHANGED mgr

(* _cleanup_destination: only files still as they were committed *)
CleanFile(f) ==
    /\ jobs["dst"].task \in {"clean", "undo"} /\ f \in jobs["dst"].todo /\ ~jobs["dst"].stopc
    /\ SetJob("dst", [jobs["dst"] EXCEPT !.todo = @ \ {f}])
    /\ dfile' = [dfile EXCEPT ![f] = IF @ = "ours" THEN "none" ELSE @]
    /\ Blameless /\ UNCHANGED <<mgr, sfile, droot>>

(* _run_destination_cleanup and _cleanup_local_after_error: the directories *)
(* go when they are empty, and only then is the cleanup complete.          *)
CleanEnds ==
    /\ jobs["dst"].task \in {"clean", "undo"}
    /\ LET j == ExitReservation([jobs["dst"] EXCEPT !.task = "none"])
           empty == \A f \in Entries : dfile[f] = "none" IN
       \/ /\ j.todo = {} /\ Blameless
          /\ droot' = IF empty /\ droot = "ours" THEN "absent" ELSE droot
          /\ SetJob("dst", Terminal([j EXCEPT !.clean = empty], IF empty THEN "failed" ELSE "unknown"))
       \/ /\ \/ j.stopc /\ Blameless
             \/ Blame
          /\ SetJob("dst", Terminal(j, "unknown")) /\ UNCHANGED droot
    /\ UNCHANGED <<mgr, sfile, dfile>>

(***************************************************************************)
(* Inside one device: _run_local_job.                                      *)
(***************************************************************************)
Undo(j) ==
    IF j.root THEN [j EXCEPT !.st = "cancelling", !.task = "undo", !.todo = j.committed]
    ELSE Terminal(ExitReservation([j EXCEPT !.task = "none"]), "failed")

LocalReserves ==
    /\ jobs["dst"].task \in {"copy", "move"}
    /\ LET j == jobs["dst"]
           run == IF j.task = "copy" THEN "copying" ELSE "moving" IN
       \/ ~j.stop /\ SetJob("dst", [j EXCEPT !.task = run, !.res = TRUE]) /\ Blameless
       \/ j.stop /\ SetJob("dst", Terminal([j EXCEPT !.task = "none"], "failed")) /\ Blameless
       \/ SetJob("dst", Terminal([j EXCEPT !.task = "none"], "failed")) /\ Blame
    /\ DiskKeep /\ UNCHANGED mgr

AsScanned == \A f \in Entries : sfile[f] = "same"

(* _copy_regular_file *)
LocalCopyFile(f) ==
    /\ jobs["dst"].task = "copying" /\ jobs["dst"].root /\ ~jobs["dst"].stop
    /\ f \notin jobs["dst"].committed /\ sfile[f] = "same"
    /\ dfile' = [dfile EXCEPT ![f] = "ours"]
    /\ SetJob("dst", [jobs["dst"] EXCEPT !.committed = @ \cup {f}])
    /\ Blameless /\ UNCHANGED <<mgr, sfile, droot>>

(* _execute_local_copy: check the source against the manifest, claim, copy *)
(* file by file, verify                                                    *)
LocalCopies ==
    /\ jobs["dst"].task = "copying"
    /\ LET j == jobs["dst"] IN
       \/ /\ ~j.root /\ AsScanned /\ droot = "absent" /\ ~j.stop /\ Blameless
          /\ droot' = "ours" /\ SetJob("dst", [j EXCEPT !.root = TRUE]) /\ UNCHANGED dfile
       \/ /\ j.committed = Entries /\ Whole
          /\ SetJob("dst", Terminal(ExitReservation([j EXCEPT !.task = "none"]), "succeeded"))
          /\ Blameless /\ UNCHANGED <<dfile, droot>>
       \/ /\ \/ Blame
             \/ /\ Blameless
                /\ \/ j.stop
                   \/ ~j.root /\ (~AsScanned \/ droot # "absent")
                   \/ \E f \in Entries \ j.committed : sfile[f] # "same"
                   \/ \E f \in j.committed : dfile[f] # "ours"
          /\ SetJob("dst", Undo(j)) /\ UNCHANGED <<dfile, droot>>
    /\ UNCHANGED <<mgr, sfile>>

(* _execute_local_move: two scans, then one rename that never replaces;    *)
(* afterwards the root counts as claimed but no file as committed          *)
LocalMoves ==
    /\ jobs["dst"].task = "moving"
    /\ LET j == jobs["dst"]
           moved == [j EXCEPT !.root = TRUE] IN
       \/ /\ AsScanned /\ droot = "absent" /\ ~j.stop
          /\ sfile' = [f \in Entries |-> "gone"] /\ dfile' = [f \in Entries |-> "ours"]
          /\ droot' = "ours"
          /\ \/ Blameless /\ SetJob("dst", Terminal(ExitReservation([moved EXCEPT !.task = "none"]), "succeeded"))
             \/ Blame /\ SetJob("dst", Undo(moved))
       \/ /\ \/ (j.stop \/ ~AsScanned \/ droot # "absent") /\ Blameless
             \/ Blame
          /\ SetJob("dst", Undo(j)) /\ DiskKeep
    /\ UNCHANGED mgr

(***************************************************************************)
(* Time.                                                                   *)
(***************************************************************************)
(* _expire_idle_jobs *)
Expired(r) ==
    LET j == jobs[r]
        stopped == [j EXCEPT !.stop = TRUE] IN
    IF r = "src"
    THEN IF j.st \in {"ready", "held"}
         THEN IF j.used THEN Remember(stopped) ELSE Terminal(stopped, "failed")
         ELSE IF j.st = "scanning" THEN stopped ELSE [j EXCEPT !.stopc = TRUE]
    ELSE IF j.st = "ready" THEN Terminal(j, "failed")
    ELSE IF j.st = "finalized" THEN Removed(ExitReservation(j))
    ELSE IF j.st \in {"reserved", "copying"}
         THEN IF ~j.used /\ j.task = "none" THEN Cleaning(Remember(stopped)) ELSE Remember(stopped)
    ELSE IF j.st \in {"cleaning", "cancelling"} THEN [j EXCEPT !.stopc = TRUE]
    ELSE IF j.st \in {"preparing", "finalizing"} THEN Remember(stopped) ELSE stopped

ExpireIdle(r) ==
    /\ jobs[r].live /\ mgr[r] # "final" /\ Expired(r) # jobs[r]
    /\ SetJob(r, Expired(r)) /\ DiskKeep /\ UNCHANGED mgr

(* _expire_unconsumed_authorizations *)
ExpireAuthorization(r) ==
    /\ jobs[r].auth # 0 /\ ~jobs[r].used /\ mgr[r] # "final"
    /\ SetJob(r, [jobs[r] EXCEPT !.auth = 0]) /\ DiskKeep /\ UNCHANGED mgr

(* _purge_expired: retained, then a tombstone, then nothing *)
Purge(r) ==
    /\ ~jobs[r].live /\ jobs[r].st \notin {"none", "gone"} /\ jobs[r].task = "none"
    /\ SetJob(r, [jobs[r] EXCEPT !.st = "gone"]) /\ DiskKeep /\ UNCHANGED mgr

(***************************************************************************)
(* Retirement.                                                             *)
(***************************************************************************)
(* request_close, for one record of the manager *)
CloseRecord(j0, r, final) ==
    LET j == [j0 EXCEPT !.stop = TRUE, !.auth = IF j0.used THEN @ ELSE 0]
        e == IF r = "dst" THEN Remember(j) ELSE j
        idle == e.task = "none" IN
    IF ~j0.live THEN j0
    ELSE IF j0.used THEN j
    ELSE IF ~final /\ r = "dst" /\ j.st = "ready" THEN Removed(ExitReservation(j))
    ELSE IF j.st = "finalized" THEN ExitReservation(j)
    ELSE IF e.root THEN IF idle THEN Cleaning([e EXCEPT !.stopc = FALSE]) ELSE [e EXCEPT !.stopc = FALSE]
    ELSE IF idle THEN Terminal(ExitReservation(e), "failed") ELSE e

Retire(rs, final) ==
    /\ mgr' = [r \in Roles |-> IF r \in rs THEN IF final THEN "final" ELSE "retired" ELSE mgr[r]]
    /\ jobs' = [r \in Roles |-> IF r \in rs THEN CloseRecord(jobs[r], r, final) ELSE jobs[r]]

(* wait_for_drain, then the reservations of what is left and               *)
(* discard_lifecycle                                                       *)
Discard(r) ==
    /\ mgr[r] = "final" /\ jobs[r].st \notin {"none", "gone"}
    /\ jobs[r].task = "none" /\ ~jobs[r].used
    /\ SetJob(r, [Removed(ExitReservation(jobs[r])) EXCEPT !.st = "gone"])
    /\ Blameless /\ DiskKeep /\ UNCHANGED mgr

(***************************************************************************)
(* The children's own calls, from the transfer slots.                      *)
(***************************************************************************)
(* consume_source_authorization, consume_destination_authorization: once,  *)
(* by the child it names, whatever the state of the job                    *)
MayConsume(r, f) == jobs[r].auth = f /\ ~jobs[r].used
ConsumeSource(f) == IF MayConsume("src", f) THEN [jobs["src"] EXCEPT !.used = TRUE] ELSE jobs["src"]
ConsumeDestination(f) == IF MayConsume("dst", f) THEN [jobs["dst"] EXCEPT !.used = TRUE] ELSE jobs["dst"]

(* complete_source_authorization *)
CompletedSource(j) ==
    LET k == [j EXCEPT !.auth = 0, !.used = FALSE] IN
    IF j.cerr \/ mgr["src"] # "open" THEN Terminal(k, "failed") ELSE k

(* _resume_destination_after_child, after complete_destination_authorization *)
(* or record_destination_commit                                            *)
ResumeDestination(j) ==
    IF ~j.live \/ ~(j.cerr \/ mgr["dst"] # "open") THEN j
    ELSE IF j.root \/ j.committed # {}
         THEN IF j.task = "none" THEN Cleaning(j) ELSE j
    ELSE Terminal(j, "failed")

Uncommitted(j) == ResumeDestination([j EXCEPT !.auth = 0, !.used = FALSE])
Committed(j) ==
    ResumeDestination([j EXCEPT !.auth = 0, !.used = FALSE, !.committed = @ \cup {j.auth}])

JobTask ==
    \/ ScanEnds \/ RemoveSourceEnds \/ PreflightEnds \/ PrepareReserves \/ PrepareClaims
    \/ FinishEnds \/ CleanEnds \/ LocalReserves \/ LocalCopies \/ LocalMoves
    \/ \E f \in Entries : RemoveSourceFile(f) \/ CleanFile(f) \/ LocalCopyFile(f)
================================================================================
