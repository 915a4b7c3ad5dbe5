---------------------------- MODULE WorkspaceFiles ----------------------------
(***************************************************************************)
(* The files of one server workspace: workspace/fs.py and service.py over  *)
(* an object store, the locks of SubtreeLeases around every change, the    *)
(* outbox that deletes a workspace (services/workspace_deletions.py,       *)
(* services/workspaces.py), and the cache of parsed skills.                *)
(*                                                                         *)
(* An operation runs one critical section after another.  A section asks   *)
(* for its subtree leases, then for the workspace lock, decides on what    *)
(* the store holds, issues its store requests one by one, and gives the    *)
(* lock and the leases back.                                               *)
(***************************************************************************)
EXTENDS SubtreeLeases

CONSTANTS
    Quota,          \* the workspace's quota_bytes
    Requests,       \* what a caller may ask for
    Trees,          \* the trees a workspace may start with
    FileFaults      \* how many faults may strike

VARIABLES
    objects,    \* the store: path -> content, 0 where there is no object
    reserved,   \* bytes a directory job still holds of the quota
    retired,    \* the target is in WorkspaceFS._retired_targets
    alive,      \* the Workspace row (and its last member) exists
    outbox,     \* the WorkspaceDeletion row exists
    op,         \* the operations
    server,     \* "up" or "down"
    skills,     \* the cached skills and the invalidations so far
    loading,    \* the load in flight
    unsure,     \* a deletion whose commit could not be verified
    late,       \* history: a change landed after the workspace's tombstone was gone
    fileTrouble \* faults so far

filevars == <<objects, reserved, retired, alive, outbox, op, server, skills, loading, unsure, late, fileTrouble>>
wsvars == <<lockvars, filevars>>

(***************************************************************************)
(* Data.  Path components are numbers, so that they sort.  Directory 1     *)
(* stands for a skill's folder, whose file 3 is its manifest; 1 and 2 may  *)
(* be files or directories with a file 3.  Contents 1 and 2 are one byte   *)
(* long, 3 and 4 two; 4 is no valid manifest; the store's etag tells       *)
(* contents apart.                                                         *)
(***************************************************************************)
A == <<1>>
AB == <<1, 3>>
X == <<2>>
XB == <<2, 3>>
Paths == {A, AB, X, XB}
Contents == 1..4

Size(c) == (c + 1) \div 2
Edited(c) == IF c = 0 THEN 1 ELSE IF c <= 2 THEN c + 2 ELSE 7 - c

(* validate_skill_manifest, and its stream form *)
ValidManifest(c) == c # 4
ValidateSkillWrite(path, c) == path = AB => ValidManifest(c)

Below(p, q) == p # q /\ IsPrefix(p, q)
UsageOf(objs) == MapThenSumSet(LAMBDA q : Size(objs[q]), Paths)
Usage == UsageOf(objects)
ReservedBytes == MapThenSumSet(LAMBDA p : reserved[p], Op)

ParentIsFile(objs, path) == \E q \in Paths : Below(q, path) /\ objs[q] # 0
IsDirectory(objs, path) == \E q \in Paths : Below(path, q) /\ objs[q] # 0
Misshapen(objs, path) == ParentIsFile(objs, path) \/ IsDirectory(objs, path)

(* The 80 percent cap on one operation. *)
TooLarge(bytes) == bytes * 5 > Quota * 4

(* _ensure_active, inside the lock *)
EnsureActive == ~retired

(* _validate_projected_quota *)
OverProjected(bytes) ==
    Usage > Quota \/ TooLarge(bytes) \/ Usage + ReservedBytes + bytes > Quota

NoReq == [kind |-> "none", path |-> A, to |-> A, data |-> 0, cond |-> "none", via |-> "rest"]
NoOp == [req |-> NoReq, pc |-> "idle", sec |-> "none", want |-> <<>>, tag |-> 0,
         todo |-> <<>>, res |-> "none", cut |-> FALSE, made |-> FALSE]

Collector == "gc"           \* WorkspaceDeletionWorker runs as one more operation

FilesInit ==
    /\ LocksInit
    /\ objects \in Trees
    /\ reserved = [p \in Op |-> 0]
    /\ retired = FALSE /\ alive = TRUE /\ outbox = FALSE
    /\ op = [p \in Op |-> NoOp]
    /\ server = "up" /\ unsure = FALSE /\ late = FALSE /\ fileTrouble = 0
    /\ skills = [entry |-> -1, gen |-> 0]
    /\ loading = [on |-> FALSE, gen |-> 0, seen |-> -1]

FileFault == fileTrouble < FileFaults /\ fileTrouble' = fileTrouble + 1
NoFileFault == UNCHANGED fileTrouble

StoreKept == UNCHANGED <<objects, reserved, retired, late>>
RowsKept == UNCHANGED <<alive, outbox, server, unsure>>
CacheKept == UNCHANGED <<skills, loading>>
LocksKept == UNCHANGED lockvars
Set(p, o) == op' = [op EXCEPT ![p] = o]

(***************************************************************************)
(* Sections: what each one leases.  Several scopes are leased shortest     *)
(* path first, then in order.                                              *)
(***************************************************************************)
Precedes(u, v) ==
    \/ Len(u) < Len(v)
    \/ /\ Len(u) = Len(v)
       /\ \E i \in DOMAIN u : u[i] < v[i] /\ SubSeq(u, 1, i - 1) = SubSeq(v, 1, i - 1)
MutationScopes(paths) == SetToSortSeq(paths, Precedes)

IsJob(o) == o.req.kind \in {"dircopy", "dirmove"}
Target(o) == IF o.req.kind \in {"copy", "move"} THEN o.req.to ELSE IF IsJob(o) THEN AB ELSE o.req.path
Source(o) == IF IsJob(o) THEN XB ELSE o.req.path

Scopes(o, sec) ==
    CASE sec \in {"begin", "reserve", "unreserve"} -> <<>>
      [] sec = "patch" -> MutationScopes({o.req.path, o.req.to})
      [] sec \in {"commit", "child", "undo"} -> <<Target(o)>>
      [] sec = "consume" -> <<Source(o)>>
      [] sec = "verify" -> <<A>>
      [] sec = "leases" -> <<A, X>>
      [] sec \in {"retire", "reactivate", "purge", "forget"} -> << <<>> >>
      [] OTHER -> <<o.req.path>>

Enter(o, sec) ==
    LET want == Scopes(o, sec)
    IN [o EXCEPT !.sec = sec, !.want = want, !.todo = <<>>, !.res = "none", !.cut = FALSE,
                 !.pc = IF want = <<>> THEN "lock" ELSE "lease"]

Use(o) == IF o.sec = "leases" THEN "job" ELSE "op"
(* one lease more; with the last one a section joins the lock's queue *)
Leased(o) ==
    [o EXCEPT !.want = Tail(@),
              !.pc = IF Len(o.want) > 1 THEN "lease" ELSE IF o.sec = "leases" THEN "check" ELSE "contend"]
Granted(p, o) ==
    /\ Set(p, Leased(o))
    /\ IF Leased(o).pc = "contend" THEN Hold(p) ELSE UNCHANGED keyvars

(***************************************************************************)
(* What a section decides inside the lock: the store requests it will make *)
(* and what it read, or a refusal.                                         *)
(***************************************************************************)
Refuse == [ok |-> FALSE, todo |-> <<>>, tag |-> 0]
Plan(todo, tag) == [ok |-> TRUE, todo |-> todo, tag |-> tag]
Put(path, c) == << <<path, c>> >>

(* Mutation: a write does not count what directory jobs reserved. *)
WriteUnreserved(o, path, data, growth) ==
    IF Misshapen(objects, path) \/ Usage - Size(objects[path]) + Size(data) > Quota
    THEN Refuse ELSE Plan(Put(path, data), objects[path])

(* _write_locked *)
WriteLocked(o, path, data, growth) ==
    LET old == objects[path]
        cond == o.req.cond
    IN IF \/ Misshapen(objects, path)
          \/ Usage > Quota \/ TooLarge(growth)
          \/ cond = "match" /\ (old = 0 \/ old # o.tag)
          \/ cond = "absent" /\ old # 0
          \/ Usage + ReservedBytes - Size(old) + Size(data) > Quota
       THEN Refuse ELSE Plan(Put(path, data), old)

(* edit_optional_materialized: read, transform, write what was read *)
EditPlan(o) ==
    LET old == objects[o.req.path]
    IN IF ~ValidateSkillWrite(o.req.path, Edited(old)) THEN Refuse
       ELSE WriteLocked(o, o.req.path, Edited(old), Max({0, Size(Edited(old)) - Size(old)}))

(* delete_file, and conditional_delete_file for a job *)
DeletePlan(path, anything, tag) ==
    IF objects[path] # 0 /\ (anything \/ objects[path] = tag)
    THEN Plan(Put(path, 0), objects[path]) ELSE Refuse

(* _delete_prefix *)
Sweep(folder) == SetToSeq({<<q, 0>> : q \in {r \in Paths : IsPrefix(folder, r) /\ objects[r] # 0}})

(* delete_folder *)
DeleteFolderPlan(path) ==
    IF objects[path] # 0 \/ ~IsDirectory(objects, path) THEN Refuse ELSE Plan(Sweep(path), 0)

(* _apply_transforms_locked: every edit is prepared before the first is    *)
(* written, each against the tree the ones before it leave                 *)
PatchPlan(o) ==
    LET one == o.req.path
        two == o.req.to
        c1 == Edited(objects[one])
        c2 == Edited(objects[two])
        staged == [objects EXCEPT ![one] = c1]
        result == [staged EXCEPT ![two] = c2]
    IN IF \/ Usage > Quota
          \/ ~ValidateSkillWrite(one, c1) \/ ~ValidateSkillWrite(two, c2)
          \/ Misshapen(objects, one) \/ Misshapen(staged, two)
          \/ TooLarge(Size(c1) - Size(objects[one])) \/ TooLarge(Size(c2) - Size(objects[two]))
          \/ UsageOf(staged) + ReservedBytes > Quota \/ UsageOf(result) + ReservedBytes > Quota
       THEN Refuse ELSE Plan(Put(one, c1) \o Put(two, c2), 0)

(* what an upload, a copy or a job's child publishes *)
Staged(o) == IF o.req.kind = "upload" THEN o.req.data ELSE o.tag

(* begin_transfer_upload, begin_idempotent_upload *)
BeginPlan(o) ==
    LET old == objects[Target(o)]
        size == Size(Staged(o))
    IN IF \/ old = 0 /\ (IsDirectory(objects, Target(o)) \/ OverProjected(size))
          \/ old # 0 /\ (o.req.kind # "upload" \/ Size(old) # size)
       THEN Refuse ELSE Plan(<<>>, o.tag)

(* reserve_directory_quota *)
ReservePlan(o) == IF OverProjected(Size(o.tag)) THEN Refuse ELSE Plan(<<>>, o.tag)

(* begin_directory_child_upload *)
ChildPlan(p, o) ==
    IF Size(o.tag) > reserved[p] \/ objects[AB] # 0 \/ IsDirectory(objects, AB)
    THEN Refuse ELSE Plan(<<>>, o.tag)

(* commit_uploaded_object *)
CommitPlan(p, o) ==
    LET path == Target(o)
        c == Staged(o)
    IN IF Misshapen(objects, path) \/ (IsJob(o) /\ Size(c) > reserved[p]) THEN Refuse
       ELSE IF objects[path] # 0
       THEN IF o.req.kind = "upload" /\ objects[path] = c THEN Plan(<<>>, o.tag) ELSE Refuse
       ELSE IF \/ Usage > Quota
               \/ ~IsJob(o) /\ TooLarge(Size(c))
               \/ Usage + ReservedBytes + (IF IsJob(o) THEN 0 ELSE Size(c)) > Quota
       THEN Refuse ELSE Plan(Put(path, c), o.tag)

(* verify_directory_destination *)
VerifyPlan(o) == IF objects[A] = 0 /\ objects[AB] = o.tag THEN Plan(<<>>, o.tag) ELSE Refuse

(* delete_transfer_source, cleanup_source, cleanup_destination *)
ConsumeAnything(o) == DeletePlan(Source(o), TRUE, o.tag)
ConsumePlan(o) == DeletePlan(Source(o), FALSE, Staged(o))
UndoPlan(o) == DeletePlan(AB, FALSE, o.tag)

(* _purge: everything under the workspace's prefix *)
PurgePlan == Plan(Sweep(<<>>), 0)

Lifecycle == {"unreserve", "retire", "reactivate", "purge", "forget"}
Decision(p, o) ==
    IF o.sec \notin Lifecycle /\ ~EnsureActive THEN Refuse
    ELSE CASE o.sec = "write" -> WriteLocked(o, o.req.path, o.req.data, Size(o.req.data))
           [] o.sec = "edit" -> EditPlan(o)
           [] o.sec = "delete" -> DeletePlan(o.req.path, o.req.cond = "none", o.tag)
           [] o.sec = "rmdir" -> DeleteFolderPlan(o.req.path)
           [] o.sec = "patch" -> PatchPlan(o)
           [] o.sec = "begin" -> BeginPlan(o)
           [] o.sec = "reserve" -> ReservePlan(o)
           [] o.sec = "child" -> ChildPlan(p, o)
           [] o.sec = "commit" -> CommitPlan(p, o)
           [] o.sec = "verify" -> VerifyPlan(o)
           [] o.sec = "consume" -> ConsumePlan(o)
           [] o.sec = "undo" -> UndoPlan(o)
           [] o.sec = "purge" -> PurgePlan
           [] OTHER -> Plan(<<>>, o.tag)
-----------------------------------------------------------------------------
(***************************************************************************)
(* A caller's request.  A conditional write or delete names the etag the   *)
(* caller read last, a copy opens its source, a directory job probes it.   *)
(***************************************************************************)
(* the resolver: the workspace exists and the caller belongs to it *)
Resolve == server = "up" /\ alive

Probed(r) == IF r.kind \in {"dircopy", "dirmove"} THEN objects[XB] ELSE objects[r.path]

Start(p, r, sec) ==
    /\ Resolve /\ op[p].pc = "idle" /\ p # Collector
    /\ Set(p, Enter([NoOp EXCEPT !.req = r, !.tag = Probed(r)], sec))
    /\ LocksKept /\ StoreKept /\ RowsKept /\ CacheKept /\ NoFileFault

BeginWrite(p, r) == r.kind = "write" /\ ValidateSkillWrite(r.path, r.data) /\ Start(p, r, "write")
BeginEdit(p, r) == r.kind = "edit" /\ Start(p, r, "edit")
BeginDelete(p, r) == r.kind = "delete" /\ Start(p, r, "delete")
BeginDeleteFolder(p, r) == r.kind = "rmdir" /\ Start(p, r, "rmdir")
BeginPatch(p, r) == r.kind = "patch" /\ Start(p, r, "patch")
BeginUpload(p, r) == r.kind = "upload" /\ Start(p, r, "begin")

(* open_stream on the source, then the destination's begin *)
BeginTransfer(p, r) ==
    /\ r.kind \in {"copy", "move"} /\ objects[r.path] # 0 /\ ~retired
    /\ Start(p, r, "begin")

(* the probe says directory, and the destination's preflight finds nothing *)
BeginDirectory(p, r) ==
    /\ r.kind \in {"dircopy", "dirmove"} /\ ~retired
    /\ objects[XB] # 0 /\ objects[X] = 0 /\ objects[A] = 0 /\ objects[AB] = 0
    /\ Start(p, r, "reserve")

(* the last member leaves; the row lock admits one such transaction *)
BeginRemove(p, r) ==
    /\ r.kind = "remove" /\ \A q \in Op : op[q].req.kind = "remove" => op[q].pc = "done"
    /\ Start(p, r, "retire")

(* _hold_mutations, acquire_subtree_lease: one lease after another *)
RequestLease(p) ==
    LET o == op[p]
        r == Reservation(p, Use(o), Head(o.want))
    IN /\ o.pc = "lease"
       /\ AcquireLease(r)
       /\ IF Blocked(r, pending) THEN Set(p, [o EXCEPT !.pc = "wait"]) /\ UNCHANGED keyvars
          ELSE Granted(p, o)
       /\ StoreKept /\ RowsKept /\ CacheKept /\ NoFileFault

LeaseLooks(p) ==
    /\ op[p].pc = "wait"
    /\ \/ LeaseSleeps(p) /\ UNCHANGED <<op, keyvars>>
       \/ LeaseGranted(p) /\ Granted(p, op[p])
    /\ StoreKept /\ RowsKept /\ CacheKept /\ NoFileFault

(* a section under the workspace lock alone *)
AskLock(p) ==
    /\ op[p].pc = "lock"
    /\ Hold(p) /\ UNCHANGED leasevars
    /\ Set(p, [op[p] EXCEPT !.pc = "contend"])
    /\ StoreKept /\ RowsKept /\ CacheKept /\ NoFileFault

(* Inside the lock: the section reads the store and decides. *)
Decide(p) ==
    LET o == op[p]
        d == Decision(p, o)
    IN /\ o.pc = "contend"
       /\ Locked(p) /\ UNCHANGED leasevars
       /\ Set(p, [o EXCEPT !.res = IF d.ok THEN "ok" ELSE "err", !.todo = d.todo,
                           !.tag = IF d.ok THEN d.tag ELSE @,
                           !.pc = IF d.todo = <<>> THEN "unlock" ELSE "work"])
       /\ reserved' = [reserved EXCEPT ![p] = IF o.sec = "reserve" /\ d.ok THEN Size(o.tag)
                                              ELSE IF o.sec = "unreserve" THEN 0 ELSE @]
       /\ retired' = CASE o.sec \in {"retire", "purge"} -> TRUE
                       [] o.sec \in {"reactivate", "forget"} -> FALSE
                       [] OTHER -> retired
       /\ UNCHANGED <<objects, late>> /\ RowsKept /\ CacheKept /\ NoFileFault

(* What a store request leaves behind in the store. *)
Stored(p) ==
    LET path == Head(op[p].todo)[1]
        c == Head(op[p].todo)[2]
    IN /\ objects' = [objects EXCEPT ![path] = c]
       /\ late' = (late \/ (c # 0 /\ ~alive /\ ~retired))

(* The store answers.  A cancelled operation still waits for this answer,  *)
(* and stops after it; a publication it has issued counts as made.         *)
StoreWorks(p) ==
    LET o == op[p]
        rest == IF o.cut THEN <<>> ELSE Tail(o.todo)
    IN /\ o.pc = "work"
       /\ Stored(p)
       /\ Set(p, [o EXCEPT !.todo = rest, !.pc = IF rest = <<>> THEN "unlock" ELSE "work",
                           !.res = IF o.cut /\ o.sec # "commit" THEN "err" ELSE @,
                           !.made = @ \/ o.sec = "commit"])
       /\ reserved' = [reserved EXCEPT ![p] = IF o.sec = "commit" /\ IsJob(o) THEN @ - Size(o.tag) ELSE @]
       /\ UNCHANGED retired /\ LocksKept /\ RowsKept /\ CacheKept /\ NoFileFault

(* The request fails, or is carried out and reported as failed. *)
StoreFails(p) ==
    /\ op[p].pc = "work" /\ FileFault
    /\ \/ Stored(p)
       \/ UNCHANGED <<objects, late>>
    /\ Set(p, [op[p] EXCEPT !.todo = <<>>, !.pc = "unlock", !.res = "err"])
    /\ UNCHANGED <<reserved, retired>> /\ LocksKept /\ RowsKept /\ CacheKept

(***************************************************************************)
(* What follows a section.                                                 *)
(***************************************************************************)
Done(o) == [NoOp EXCEPT !.pc = "done"]
Went(o) == o.res = "ok" /\ ~o.cut
At(o, pc) == [o EXCEPT !.pc = pc]

(* _transfer_server_to_server, write_authorized_bounded_stream: an upload  *)
(* committed under a cancellation is taken back, a copy is not             *)
AfterCopy(o) ==
    CASE o.sec = "begin" /\ Went(o) -> At(o, "stream")
      [] o.sec = "commit" /\ o.res = "ok" /\ o.req.kind = "move" -> Enter(o, "consume")
      [] o.sec = "commit" /\ o.made /\ o.cut /\ o.req.kind = "upload" -> Enter(o, "consume")
      [] OTHER -> Done(o)

(* ServerDirectoryBackend under the coordinator *)
AfterJob(o) ==
    CASE o.sec = "reserve" /\ o.res # "ok" -> Done(o)
      [] o.sec = "reserve" /\ Went(o) /\ ValidateSkillWrite(AB, o.tag) -> Enter(o, "leases")
      [] o.sec = "child" /\ Went(o) -> At(o, "stream")
      [] o.sec = "commit" /\ Went(o) -> Enter(o, "verify")
      [] o.sec = "verify" /\ Went(o) /\ o.req.kind = "dirmove" -> Enter(o, "consume")
      [] o.sec \in {"commit", "verify"} /\ o.made /\ ~Went(o) -> Enter(o, "undo")
      [] o.sec = "unreserve" -> Done(o)
      [] OTHER -> Enter(o, "unreserve")

(* remove_member and finalize_workspace_deletions *)
AfterRemoval(o) ==
    CASE o.sec = "retire" -> At(o, "flush")
      [] o.sec = "purge" /\ o.res = "ok" -> At(o, "clear")
      [] OTHER -> Done(o)

Onward(p) ==
    LET o == op[p]
    IN CASE p = Collector -> NoOp
         [] o.req.kind \in {"upload", "copy", "move"} -> AfterCopy(o)
         [] IsJob(o) -> AfterJob(o)
         [] o.req.kind = "remove" -> AfterRemoval(o)
         [] OTHER -> Done(o)

(* SkillsCache.invalidate: the entry goes and loads in flight are stale *)
Invalidate == skills' = [entry |-> -1, gen |-> skills.gen + 1]

Dropping(o) == IF o.pc = "done" THEN Invalidate /\ UNCHANGED loading ELSE CacheKept

Mine(p, use) == {r \in active : r.owner = p /\ r.use = use}

(* The lock and the section's leases go back; with the last section the    *)
(* operation ends, a job's own leases too, and the skills it may have      *)
(* changed are dropped.                                                    *)
Leave(p) ==
    LET next == Onward(p)
    IN /\ op[p].pc \in {"unlock", "unlease"}
       /\ IF op[p].pc = "unlock" THEN Unhold(p) ELSE UNCHANGED keyvars
       /\ ReleaseLeases(Mine(p, "op") \cup (IF op[p].sec = "unreserve" THEN Mine(p, "job") ELSE {}))
       /\ Set(p, next)
       /\ Dropping(next)
       /\ StoreKept /\ RowsKept /\ NoFileFault

(* prepare_destination, under the job's leases: the plan must still hold *)
CheckPlan(p) ==
    LET o == op[p]
    IN /\ o.pc = "check"
       /\ Set(p, IF EnsureActive /\ objects[A] = 0 /\ objects[AB] = 0 /\ objects[XB] = o.tag
                 THEN Enter(o, "child") ELSE Enter(o, "unreserve"))
       /\ LocksKept /\ StoreKept /\ RowsKept /\ CacheKept /\ NoFileFault

(* The bytes reach a temporary object, outside every lock. *)
StreamBroken(o) == IF IsJob(o) THEN Enter(o, "unreserve") ELSE Done(o)

(* validate_transfer_skill_staging *)
ValidateStaging(o) == ValidateSkillWrite(Target(o), Staged(o))

StreamDone(p) ==
    LET next == IF ValidateStaging(op[p]) THEN Enter(op[p], "commit") ELSE StreamBroken(op[p])
    IN /\ op[p].pc = "stream"
       /\ Set(p, next) /\ Dropping(next)
       /\ LocksKept /\ StoreKept /\ RowsKept /\ NoFileFault

StreamFails(p) ==
    /\ op[p].pc = "stream" /\ FileFault
    /\ Set(p, StreamBroken(op[p])) /\ Dropping(StreamBroken(op[p]))
    /\ LocksKept /\ StoreKept /\ RowsKept

(***************************************************************************)
(* Cancellation: a caller hangs up or a tool's time runs out.  Cleaning    *)
(* up after a job, and the lifecycle of a workspace, run to their end.     *)
(***************************************************************************)
Cancellable(p) ==
    /\ op[p].pc \notin {"idle", "done"} /\ ~op[p].cut
    /\ op[p].req.kind \notin {"none", "remove"}
    /\ op[p].sec \notin {"undo", "unreserve", "consume"}

Unlucky(o) == [o EXCEPT !.cut = TRUE, !.res = IF o.pc = "work" THEN @ ELSE "err"]
(* cancelled on the way out of the lock: what the section did is not reported *)
Unheard(o) == [o EXCEPT !.cut = TRUE, !.made = FALSE, !.res = IF o.sec = "commit" THEN "err" ELSE @]
CutShort(o) == IF o.sec = "leases" THEN Enter(o, "unreserve") ELSE [Unlucky(o) EXCEPT !.pc = "unlease"]

CancelAt(p) ==
    LET o == op[p]
    IN /\ Cancellable(p) /\ o.pc # "wait"
       /\ CASE o.pc \in {"lease", "lock", "check"} -> Set(p, CutShort(o)) /\ LocksKept
            [] o.pc = "contend" -> Set(p, CutShort(o)) /\ Unhold(p) /\ UNCHANGED leasevars
            [] o.pc = "stream" -> Set(p, StreamBroken(o)) /\ LocksKept
            [] o.pc = "work" -> Set(p, Unlucky(o)) /\ LocksKept
            [] OTHER -> Set(p, Unheard(o)) /\ LocksKept
       /\ IF o.pc = "stream" THEN Dropping(StreamBroken(o)) ELSE CacheKept
       /\ StoreKept /\ RowsKept

AbandonWait(p) ==
    /\ Cancellable(p) /\ op[p].pc = "wait"
    /\ LeaseAbandoned(p) /\ UNCHANGED keyvars
    /\ Set(p, CutShort(op[p]))
    /\ StoreKept /\ RowsKept /\ CacheKept

HangUp(p) == FileFault /\ (CancelAt(p) \/ AbandonWait(p))
(* Tools run under a timeout: a wait nothing else will end, ends. *)
ToolTimeout(p) ==
    /\ op[p].req.via = "tool"
    /\ \A q \in Op : op[q].pc \in {"idle", "done", "wait"} /\ q \notin awake
    /\ AbandonWait(p) /\ NoFileFault

(***************************************************************************)
(* Deleting the workspace: the rows.  remove_member fences the target,     *)
(* then commits the outbox row with the deletion.                          *)
(***************************************************************************)
Row(p) == LocksKept /\ UNCHANGED <<objects, reserved, retired, server, late>> /\ CacheKept

Flush(p) ==
    /\ op[p].pc = "flush"
    /\ \/ Set(p, At(op[p], "dbcommit")) /\ NoFileFault
       \/ Set(p, Enter(op[p], "reactivate")) /\ FileFault
    /\ Row(p) /\ UNCHANGED <<alive, outbox, unsure>>

(* The commit lands, fails, or lands and is reported as failed. *)
DbCommit(p) ==
    /\ op[p].pc = "dbcommit"
    /\ \/ alive' = FALSE /\ outbox' = TRUE /\ Set(p, At(op[p], "find")) /\ NoFileFault
       \/ UNCHANGED <<alive, outbox>> /\ Set(p, At(op[p], "prove")) /\ FileFault
       \/ alive' = FALSE /\ outbox' = TRUE /\ Set(p, At(op[p], "prove")) /\ FileFault
    /\ Row(p) /\ UNCHANGED unsure

(* reactivate_if_deletion_rolled_back *)
ReactivateIfDeletionRolledBack(p) ==
    /\ op[p].pc = "prove"
    /\ \/ /\ Set(p, IF outbox \/ ~alive THEN Done(op[p]) ELSE Enter(op[p], "reactivate"))
          /\ UNCHANGED unsure
       \/ Set(p, Done(op[p])) /\ unsure' = TRUE     \* the same outage
    /\ NoFileFault /\ Row(p) /\ UNCHANGED <<alive, outbox>>

(* finalize_workspace_deletions *)
FindDeletion(p) ==
    /\ op[p].pc = "find"
    /\ Set(p, IF outbox THEN Enter(op[p], "purge") ELSE Done(op[p]))
    /\ Row(p) /\ UNCHANGED <<alive, outbox, unsure>> /\ NoFileFault

ClearDeletion(p) ==
    /\ op[p].pc = "clear"
    /\ \/ outbox' = FALSE /\ Set(p, Enter(op[p], "forget")) /\ NoFileFault
       \/ UNCHANGED outbox /\ Set(p, IF p = Collector THEN NoOp ELSE Done(op[p])) /\ FileFault
    /\ Row(p) /\ UNCHANGED <<alive, unsure>>

(***************************************************************************)
(* WorkspaceDeletionWorker: a child process empties the prefix, taking no  *)
(* lock, then the row goes and the tombstone with it.                      *)
(***************************************************************************)
CollectorLoads ==
    /\ server = "up" /\ outbox /\ op[Collector].pc = "idle"
    /\ Set(Collector, At(NoOp, "child"))
    /\ LocksKept /\ StoreKept /\ RowsKept /\ CacheKept /\ NoFileFault

ChildDeletes ==
    /\ op[Collector].pc = "child"
    /\ \E q \in Paths : objects[q] # 0 /\ objects' = [objects EXCEPT ![q] = 0]
    /\ LocksKept /\ UNCHANGED <<reserved, retired, late, op>> /\ RowsKept /\ CacheKept /\ NoFileFault

ChildEnds(empty) ==
    /\ op[Collector].pc = "child"
    /\ Set(Collector, IF empty THEN At(NoOp, "clear") ELSE NoOp)
    /\ LocksKept /\ StoreKept /\ RowsKept /\ CacheKept

ChildSucceeds == (\A q \in Paths : objects[q] = 0) /\ ChildEnds(TRUE) /\ NoFileFault
ChildFails == ChildEnds(FALSE) /\ FileFault

(***************************************************************************)
(* Stopping and starting the server.                                       *)
(***************************************************************************)
Crash ==
    /\ server = "up" /\ FileFault
    /\ server' = "down"
    /\ op' = [p \in Op |-> IF op[p].pc = "idle" \/ p = Collector THEN NoOp ELSE Done(op[p])]
    /\ reserved' = [p \in Op |-> 0] /\ retired' = FALSE /\ unsure' = FALSE
    /\ pending' = <<>> /\ active' = {} /\ awake' = {} /\ entry' = 0
    /\ keyed' = [p \in Op |-> [id |-> 0, has |-> FALSE]]
    /\ skills' = [entry |-> -1, gen |-> 0] /\ loading' = [on |-> FALSE, gen |-> 0, seen |-> -1]
    /\ UNCHANGED <<objects, alive, outbox, late>>

(* recover_workspace_deletions runs before the server serves; if it fails  *)
(* the process exits and is started again.                                 *)
Restart ==
    /\ server = "down"
    /\ server' = "up"
    /\ objects' = IF outbox THEN [q \in Paths |-> 0] ELSE objects
    /\ outbox' = FALSE
    /\ LocksKept /\ UNCHANGED <<reserved, retired, late, op, alive, unsure>> /\ CacheKept /\ NoFileFault
(***************************************************************************)
(* SkillsCache: one load at a time fills a missing entry, and only if      *)
(* nothing was invalidated since it began.  Loads start only before the    *)
(* first fault, to bound the model.                                        *)
(***************************************************************************)
LoadBegins ==
    /\ server = "up" /\ alive /\ skills.entry = -1 /\ fileTrouble = 0
    /\ ~loading.on \/ loading.gen # skills.gen
    /\ loading' = [on |-> TRUE, gen |-> skills.gen, seen |-> -1]
    /\ LocksKept /\ StoreKept /\ RowsKept /\ UNCHANGED <<op, skills>> /\ NoFileFault

LoadReads ==
    /\ loading.on /\ loading.seen = -1
    /\ loading' = [loading EXCEPT !.seen = objects[AB]]
    /\ LocksKept /\ StoreKept /\ RowsKept /\ UNCHANGED <<op, skills>> /\ NoFileFault

LoadPublishes ==
    /\ loading.on /\ loading.seen # -1
    /\ skills' = [skills EXCEPT !.entry = IF loading.gen = skills.gen THEN loading.seen ELSE @]
    /\ loading' = [loading EXCEPT !.on = FALSE]
    /\ LocksKept /\ StoreKept /\ RowsKept /\ UNCHANGED op /\ NoFileFault

-----------------------------------------------------------------------------
Begin(p, r) ==
    \/ BeginWrite(p, r) \/ BeginEdit(p, r) \/ BeginDelete(p, r) \/ BeginDeleteFolder(p, r)
    \/ BeginPatch(p, r) \/ BeginUpload(p, r) \/ BeginTransfer(p, r) \/ BeginDirectory(p, r)
    \/ BeginRemove(p, r)
Quiet == \A p \in Op : op[p].pc \in {"idle", "done"}
(* everybody left waits for a lease, and only for operations that wait too *)
WaitCycle ==
    /\ ~Quiet
    /\ \A p \in Op : op[p].pc \notin {"idle", "done"} =>
            /\ op[p].pc = "wait" /\ StillBlocked(p)
            /\ \A q \in WaitsFor(p) : op[q].pc = "wait"
(* nobody can go on by themselves: WorkEnds says that this is either the   *)
(* end of everything or such a cycle                                       *)
Stopped == server = "up" /\ \A p \in Op : op[p].pc \in {"idle", "done", "wait"}
Working(p) ==
    \/ RequestLease(p) \/ LeaseLooks(p) \/ AskLock(p) \/ Decide(p) \/ StoreWorks(p)
    \/ Leave(p) \/ CheckPlan(p) \/ StreamDone(p) \/ ToolTimeout(p)
    \/ Flush(p) \/ DbCommit(p) \/ ReactivateIfDeletionRolledBack(p)
    \/ FindDeletion(p) \/ ClearDeletion(p)
Collecting == CollectorLoads \/ ChildDeletes \/ ChildSucceeds
Loading == LoadBegins \/ LoadReads \/ LoadPublishes
FileFailures == (\E p \in Op : StoreFails(p) \/ StreamFails(p) \/ HangUp(p)) \/ ChildFails \/ Crash

(* What the server does by itself, and must keep doing *)
ServerWorks == (\E p \in Op : Working(p)) \/ Collecting \/ Restart

FilesNext ==
    \/ \E p \in Op, r \in Requests : Begin(p, r)
    \/ ServerWorks
    \/ Loading
    \/ FileFailures
    \/ Stopped /\ UNCHANGED wsvars

FilesSpec == FilesInit /\ [][FilesNext]_wsvars /\ WF_wsvars(ServerWorks)

-----------------------------------------------------------------------------
(* The workspace never exceeds its quota, whichever checks (a write, an    *)
(* edit, a patch, an upload's begin, its commit, a job's reservation) the  *)
(* operations passed, and in whichever order (fs.py _write_locked,         *)
(* commit_uploaded_object).                                                *)
QuotaHeld == Usage <= Quota

(* What a directory job reserved stays available to it: others' writes     *)
(* count the reservation as used (_reserved_directory_bytes).  A job whose *)
(* publication was reported as failed may be counted twice.                *)
ReservationHonoured == fileTrouble = 0 => Usage + ReservedBytes <= Quota

(* No object lies below another: a path is a file or a directory, although *)
(* uploads check the tree long before they publish.                        *)
TreeShape == \A q \in Paths : objects[q] # 0 => ~IsDirectory(objects, q)

(* A skill manifest in the store is always a valid one, although it may    *)
(* get there by a write, an edit, a patch, a copy or a directory job, each *)
(* with a check of its own.                                                *)
SkillsValid == ValidManifest(objects[AB])

(* An edit writes over exactly the content it transformed: reading and     *)
(* writing are one critical section (edit_optional_materialized).          *)
EditsLatest ==
    \A p \in Op : op[p].pc = "work" /\ op[p].sec = "edit" /\ objects' # objects
           /\ op'[p].pc # "work" => objects[op[p].req.path] = op[p].tag

(* Below a directory job's leased roots nobody else changes an object.     *)
(* Emptying a deleted workspace is the one exception: the child process    *)
(* takes no locks.                                                         *)
SubtreePrivate ==
    \A p \in Op, q \in Paths :
          /\ objects'[q] # objects[q]
          /\ \E r \in active : r.owner = p /\ r.use = "job" /\ IsPrefix(r.prefix, q)
          => op'[p] # op[p] \/ op[Collector].pc = "child" \/ server = "down"

(* While a target is retired no object appears in it: whoever was waiting  *)
(* behind the retirement is refused (_ensure_active inside the lock).      *)
RetiredFrozen ==
    \A q \in Paths : objects[q] = 0 /\ objects'[q] # 0 => ~retired

(* What is left of a deleted workspace is still in the outbox, so that the *)
(* worker or the next start removes it, unless an operation authorised     *)
(* before the deletion published after the tombstone was gone.             *)
OutboxCovers == ~alive /\ (\E q \in Paths : objects[q] # 0) => outbox \/ late

(* A workspace that still exists is not left fenced once the deletion that *)
(* fenced it has ended, unless the database could not say how it ended.    *)
LiveNotFenced == alive /\ retired /\ ~unsure => ~Quiet

(* A deletion that commits never has its fence lifted before the objects   *)
(* are gone: the fence falls only when rollback is proven or cleanup done. *)
FenceStands ==
    retired /\ ~retired' /\ server' = "up" => alive \/ ~outbox

(* A move, an undone upload or a job's cleanup deletes exactly the content *)
(* it read or published, never what another operation put there since.     *)
DeletesOnlyItsOwn ==
    \A p \in Op : op[p].pc = "work" /\ op[p].sec \in {"consume", "undo"} /\ objects' # objects
           /\ op'[p] # op[p] => objects[Head(op[p].todo)[1]] = Staged(op[p])

(* The cached skills are those of the store unless an operation that may   *)
(* change them has yet to end and invalidate them.                         *)
SkillsFresh == alive /\ skills.entry # -1 /\ Quiet => skills.entry = objects[AB]

(* No lease, queued request, lock or reservation outlives its operation,   *)
(* however it ended (locks.py acquire and _release, release_quota): a      *)
(* lease around one change goes with its section, a job's with the job.    *)
NothingLeaked ==
    /\ \A r \in active : op[r.owner].pc \notin {"idle", "done"}
    /\ \A i \in DOMAIN pending : op[pending[i].owner].pc = "wait"
    /\ \A p \in Op : keyed[p].id # 0 <=> op[p].pc \in {"contend", "work", "unlock"}
    /\ \A p \in Op : reserved[p] # 0 => op[p].pc \notin {"idle", "done"}

(* The store is within its quota, reservations included; every path is a   *)
(* file or a directory and every manifest valid; a deleted workspace is    *)
(* covered by its outbox and a live one not fenced; the skills are those   *)
(* stored; and what is held belongs to an operation still under way.       *)
StoreSound ==
    /\ QuotaHeld /\ ReservationHonoured /\ TreeShape /\ SkillsValid
    /\ OutboxCovers /\ LiveNotFenced /\ SkillsFresh /\ NothingLeaked

(* Every change of an object is made by who may make it, on what they saw. *)
WritesOwned == [][EditsLatest /\ SubtreePrivate /\ RetiredFrozen /\ FenceStands /\ DeletesOnlyItsOwn]_wsvars

(* Every operation that begins ends, or is one of several that wait for    *)
(* nothing but each other's leases: no lease, lock or wake-up is lost on   *)
(* the way (locks.py acquire, _release, notify_all).                       *)
OperationsEnd ==
    \A p \in Op \ {Collector} : op[p].pc # "idle" ~> (op[p].pc = "done" \/ WaitCycle)

(* A committed deletion is carried out, through failures and restarts. *)
DeletionCompletes == outbox ~> ~outbox

(* What is begun is finished: operations, and committed deletions.         *)
WorkEnds == OperationsEnd /\ DeletionCompletes
=============================================================================
