--------------------------- MODULE DirectoryTransfer ---------------------------
(***************************************************************************)
(* A recursive directory transfer as the server runs it: the coordinator   *)
(* of tools/directory_transfer.py over its backends (both ends on devices, *)
(* either or both on the server, both on one device), the one-shot device  *)
(* commands of tools/device_directory_jobs.py with their reconciliation,   *)
(* and one child file transfer at a time, of which it uses only what       *)
(* AtomicTransfer promises.                                                *)
(***************************************************************************)
EXTENDS DirectoryJobs

VARIABLES
    route,      \* where the two ends are
    mode,       \* "copy" or "move"
    srv,        \* the coordinator and its backend
    call,       \* the outstanding device command
    orphan,     \* a command its caller no longer waits for, still on the wire
    kid,        \* the child transfer
    link        \* which devices are connected

dirvars == <<jobs, mgr, sfile, dfile, droot, trouble, route, mode, srv, call, orphan, kid, link>>

SourceOnServer == route \in {"ss", "sc"}
DestinationOnServer == route \in {"ss", "cs"}
OneDevice == route = "local"
OnDevice(r) == ~IF r = "src" THEN SourceOnServer ELSE DestinationOnServer
EndsOf(r) == IF OneDevice THEN Roles ELSE {r}       \* records behind one connection

(* a device's source is probed first; the server's is listed at once *)
FirstStep == IF SourceOnServer THEN "preflight" ELSE "start"

NoCall == [st |-> "idle", to |-> "src", op |-> "none", ans |-> "none"]
NoKid == [f |-> 0, s |-> "new", d |-> "new", ans |-> "none"]

DirInit ==
    /\ JobsInit
    /\ route \in {"cc", "sc", "cs", "ss", "local"} /\ mode \in {"copy", "move"}
    /\ srv = [pc |-> FirstStep, n |-> 1, why |-> "none",
              issued |-> FALSE, pend |-> FALSE, begun |-> FALSE, final |-> FALSE,
              over |-> FALSE, stop |-> FALSE, cut |-> {}, heard |-> [r \in Roles |-> "none"], told |-> "none", warn |-> FALSE,
              held |-> FALSE, own |-> {}, left |-> Entries]
    /\ call = NoCall /\ orphan = NoCall /\ kid = NoKid
    /\ link = [r \in Roles |-> TRUE]

JobsKeep == UNCHANGED jvars
WiresKeep == UNCHANGED <<call, orphan, kid, link>>
Fixed == UNCHANGED <<route, mode>>

(***************************************************************************)
(* Failing: what the coordinator does with an exception.                   *)
(***************************************************************************)
AfterSource(s) ==
    IF ~OnDevice("dst") \/ ~s.begun THEN "done" ELSE IF s.final \/ s.over THEN "rel.dst" ELSE "rel.undo"
ReleaseStart(s) ==
    IF ~OnDevice("src") THEN AfterSource(s) ELSE IF s.pend THEN "rel.cancel" ELSE "rel.src"

(* Before the coordinator owns the source probe it is retired instead.     *)
Probing == {"start", "scan", "page", "hold"}
Mutating == {"prepare", "reserve", "child", "child.src", "copy", "finish", "verify", "local", "running"}

Raised(s, why) ==
    IF s.pc \in Probing THEN [s EXCEPT !.pc = "retire", !.why = why]
    ELSE IF OneDevice
         THEN [s EXCEPT !.pc = IF s.begun THEN "settle" ELSE "drop", !.why = why]
    ELSE IF s.pc \in Mutating /\ s.issued /\ why # "notapplied"
         THEN [s EXCEPT !.pc = "undo", !.why = why]
    ELSE [s EXCEPT !.pc = ReleaseStart(s), !.why = why]

(* an exception inside the release, retirement or cleanup calls themselves *)
Swallowed(s) ==
    CASE s.pc \in {"retire", "retiring"} -> [s EXCEPT !.pc = "rel.probe"]
      [] s.pc \in {"undo", "undoing"} -> [s EXCEPT !.pc = ReleaseStart(s), !.why = "unknown"]
      [] s.pc \in {"rel.cancel", "rel.wait"} -> [s EXCEPT !.pc = "rel.src"]
      [] s.pc = "rel.src" -> [s EXCEPT !.pc = AfterSource(s), !.warn = TRUE]
      [] s.pc \in {"rel.undo", "rel.undoing"} -> [s EXCEPT !.pc = "rel.dst"]
      [] s.pc \in {"clean", "cleaning"} -> [s EXCEPT !.pc = ReleaseStart(s), !.warn = TRUE]
      [] s.pc \in {"settle", "settling"} ->
             [s EXCEPT !.pc = "rel.local", !.why = IF s.issued /\ @ # "notapplied" THEN "unknown" ELSE @]
      [] s.pc = "rel.local" ->
             [s EXCEPT !.pc = "done", !.warn = TRUE,
                       !.why = IF ~s.over /\ s.issued /\ @ # "notapplied" THEN "unknown" ELSE @]
      [] s.pc \in {"drop", "dropping"} -> [s EXCEPT !.pc = "rel.local"]
      [] OTHER -> [s EXCEPT !.pc = "done", !.warn = TRUE]

Guarded == {"retire", "retiring", "undo", "undoing", "rel.cancel", "rel.wait", "rel.src", "rel.undo",
            "rel.undoing", "rel.dst", "rel.probe", "rel.local", "clean", "cleaning", "settle",
            "settling", "drop", "dropping"}
Fails(s, why) == IF s.pc \in Guarded THEN Swallowed(s) ELSE Raised(s, why)

(***************************************************************************)
(* One-shot commands.                                                      *)
(***************************************************************************)
NextChild == IF OnDevice("dst") THEN "child" ELSE IF OnDevice("src") THEN "child.src" ELSE "copy"

(* what each program point asks of which device *)
Asks ==
    CASE srv.pc = "start" -> <<"src", "start">>
      [] srv.pc = "page" -> <<"src", "page">>
      [] srv.pc = "hold" -> <<"src", IF OneDevice THEN "release" ELSE "hold">>
      [] srv.pc \in {"retire", "rel.cancel"} -> <<"src", "cancel">>
      [] srv.pc \in {"rel.probe", "rel.src"} -> <<"src", "release">>
      [] srv.pc = "preflight" -> <<"dst", "preflight">>
      [] srv.pc = "prepare" -> <<"dst", "prepare">>
      [] srv.pc = "child" -> <<"dst", "authorize">>
      [] srv.pc = "child.src" -> <<"src", "authorize">>
      [] srv.pc = "finish" -> <<"dst", "finish">>
      [] srv.pc \in {"undo", "rel.undo", "settle", "drop"} -> <<"dst", "cancel">>
      [] srv.pc = "clean" -> <<"src", "cleanup">>
      [] srv.pc = "local" -> <<"dst", "local">>
      [] srv.pc \in {"rel.dst", "rel.local"} -> <<"dst", "release">>
      [] OTHER -> <<"src", "none">>

(* _one_shot: a command is sent once; a repeated cancel has the outcome of *)
(* the first, which is reconciled now if its caller did not stay to hear it *)
Ask ==
    LET r == Asks[1]
        op == Asks[2]
        again == op = "cancel" /\ r \in srv.cut
        known == again /\ srv.heard[r] # "none" IN
    /\ op # "none" /\ OnDevice(r) /\ call.st = "idle"
    /\ call' = [st |-> IF known \/ (~again /\ ~link[r]) THEN "done" ELSE IF again THEN "ask" ELSE "sent",
                to |-> r, op |-> op,
                ans |-> IF known THEN srv.heard[r] ELSE IF again \/ link[r] THEN "none" ELSE "unavail"]
    /\ srv' = [srv EXCEPT !.cut = IF op = "cancel" /\ link[r] THEN @ \cup {r} ELSE @,
                          !.issued = @ \/ (link[r] /\ op \in {"prepare", "local"}),
                          !.begun = @ \/ op = (IF OneDevice THEN "local" ELSE "preflight"),
                          !.held = @ \/ (route = "sc" /\ op = "prepare"),
                          !.pend = @ \/ srv.pc = "child.src"]
    /\ JobsKeep /\ Fixed /\ UNCHANGED <<orphan, kid, link>>

(* DirectoryJobManager._dispatch *)
Handled(r, op) ==
    CASE op = "start" -> SourceStart
      [] op = "page" -> SourcePage
      [] op = "hold" -> SourceHold
      [] op = "cleanup" -> SourceCleanup
      [] op = "preflight" -> DestinationPreflight
      [] op = "prepare" -> DestinationPrepare
      [] op = "finish" -> DestinationFinish
      [] op = "local" -> LocalStart(mode)
      [] op = "release" -> Release(r)
      [] op = "authorize" -> IF r = "src" THEN AuthorizeSource(srv.n) ELSE AuthorizeDestination(srv.n)
      [] op = "cancel" -> IF r = "src" THEN SourceCancel ELSE DestinationCancel(OneDevice /\ srv.begun)

(* The device's directory worker takes the commands in the order sent.     *)
DeliverOrphan ==
    /\ orphan.st = "sent" /\ link[orphan.to]
    /\ SetJob(orphan.to, Handled(orphan.to, orphan.op).j) /\ orphan' = NoCall
    /\ DiskKeep /\ Blameless /\ Fixed /\ UNCHANGED <<mgr, srv, call, kid, link>>

Deliver ==
    /\ call.st \in {"sent", "lost"} /\ link[call.to] /\ (orphan.st = "idle" \/ orphan.to # call.to)
    /\ LET h == Handled(call.to, call.op) IN
       /\ SetJob(call.to, h.j)
       /\ call' = IF call.st = "sent" THEN [call EXCEPT !.st = "done", !.ans = h.a]
                  ELSE [call EXCEPT !.st = "ask"]
    /\ DiskKeep /\ Blameless /\ Fixed /\ UNCHANGED <<mgr, srv, orphan, kid, link>>

(* the call's own timeout: the command may or may not have run *)
CallTimesOut ==
    /\ \/ call.st = "sent" /\ call' = [call EXCEPT !.st = "lost"]
       \/ call.st = "done" /\ link[call.to] /\ call' = [call EXCEPT !.st = "ask"]
    /\ Blame /\ DiskKeep /\ Fixed /\ UNCHANGED <<jobs, mgr, srv, orphan, kid, link>>

(* the states that show a command was applied *)
Evidence(op) ==
    CASE op = "hold" -> {"held", "cleanup"} \cup JobEnded
      [] op = "cleanup" -> {"cleanup"} \cup JobEnded
      [] op = "prepare" -> {"preparing", "reserved", "copying", "finalizing", "finalized", "cleaning", "failed", "unknown"}
      [] op = "finish" -> {"finalizing", "finalized", "cleaning", "failed", "unknown"}
      [] op = "local" -> {"running", "cancelling"} \cup JobEnded
      [] OTHER -> {jobs[call.to].st}

Mutated(r) == IF r = "src" THEN srv.pc \in {"clean", "cleaning"} ELSE srv.issued

(* _reconcile_one_status and the reconcile closures: ask for the status,   *)
(* which queues behind the command, and judge by it                        *)
Reconciled ==
    LET st == Status(call.to) IN
    IF call.op \in {"page", "release"} THEN "retry"
    ELSE IF st \in {"none", "gone", "released"} THEN IF Mutated(call.to) THEN "unknown" ELSE "unavail"
    ELSE IF call.op = "authorize" THEN "unknown"
    ELSE IF st \in Evidence(call.op) THEN "ok"
    ELSE IF call.op = "finish" THEN "unknown"
    ELSE IF call.op \in {"prepare", "local"} THEN "notapplied" ELSE "unavail"

Reconcile ==
    /\ call.st = "ask" /\ link[call.to]
    /\ call' = IF Reconciled = "retry" THEN NoCall ELSE [call EXCEPT !.st = "done", !.ans = Reconciled]
    /\ JobsKeep /\ Fixed /\ UNCHANGED <<srv, orphan, kid, link>>

(* the route is gone: nothing will answer *)
Unreachable ==
    /\ call.st \in {"sent", "lost", "ask"} /\ ~link[call.to]
    /\ call' = [call EXCEPT !.st = "done", !.ans = IF Mutated(call.to) THEN "unknown" ELSE "unavail"]
    /\ JobsKeep /\ Fixed /\ UNCHANGED <<srv, orphan, kid, link>>

AfterOk ==
    CASE srv.pc = "start" -> "scan"
      [] srv.pc = "page" -> "hold"
      [] srv.pc = "hold" -> "preflight"
      [] srv.pc = "preflight" -> "ready"
      [] srv.pc = "prepare" -> "reserve"
      [] srv.pc = "child" -> IF OnDevice("src") THEN "child.src" ELSE "copy"
      [] srv.pc = "child.src" -> "copy"
      [] srv.pc = "finish" -> "verify"
      [] srv.pc = "clean" -> "cleaning"
      [] srv.pc = "local" -> "running"
      [] srv.pc = "retire" -> "retiring"
      [] srv.pc = "undo" -> "undoing"
      [] srv.pc = "rel.cancel" -> "rel.wait"
      [] srv.pc = "rel.src" -> AfterSource(srv)
      [] srv.pc = "rel.undo" -> "rel.undoing"
      [] srv.pc = "settle" -> "settling"
      [] srv.pc = "drop" -> "dropping"
      [] OTHER -> "done"

Refused == call.ans = "busy" /\ call.op = "release"
Heard == IF call.op = "cancel" /\ call.to \in srv.cut THEN [srv EXCEPT !.heard[call.to] = call.ans] ELSE srv

(* A busy device is asked again to release; every other refusal is raised. *)
Take ==
    /\ call.st = "done" /\ Asks[2] # "none"
    /\ call' = IF Refused THEN [call EXCEPT !.st = "busy"] ELSE NoCall
    /\ srv' = IF call.ans = "ok" THEN [Heard EXCEPT !.pc = AfterOk]
              ELSE IF Refused THEN srv
              ELSE Fails(Heard, IF call.ans \in {"unknown", "notapplied"} THEN call.ans ELSE "failed")
    /\ kid' = IF call.ans = "ok" /\ AfterOk = "copy" THEN [NoKid EXCEPT !.f = srv.n] ELSE kid
    /\ JobsKeep /\ Fixed /\ UNCHANGED <<orphan, link>>

(* nothing runs that could still move the job *)
Still(r) == jobs[r].task = "none" /\ ~jobs[r].used

(* the retry loop of _release, and its deadline *)
ReleaseAgain ==
    /\ call.st = "busy" /\ (Release(call.to).a # "busy" \/ ~link[call.to]) /\ call' = NoCall
    /\ JobsKeep /\ Fixed /\ UNCHANGED <<srv, orphan, kid, link>>

ReleaseTimesOut ==
    /\ call.st = "busy" /\ link[call.to] /\ Release(call.to).a = "busy" /\ call' = NoCall
    /\ IF Still(call.to) THEN Blameless ELSE Blame
    /\ srv' = Swallowed(srv) /\ DiskKeep /\ Fixed /\ UNCHANGED <<jobs, mgr, orphan, kid, link>>

(***************************************************************************)
(* Waiting for a job: _wait_until.                                         *)
(***************************************************************************)
Awaits ==
    CASE srv.pc = "scan" -> <<"src", {"ready"} \cup JobEnded, "page">>
      [] srv.pc = "ready" -> <<"dst", {"ready", "failed", "unknown"}, IF OneDevice THEN "local" ELSE "prepare">>
      [] srv.pc = "reserve" -> <<"dst", {"reserved", "failed", "unknown"}, NextChild>>
      [] srv.pc = "verify" -> <<"dst", {"finalized", "failed", "unknown"}, "clean">>
      [] srv.pc = "running" -> <<"dst", JobEnded, "settle">>
      [] srv.pc = "cleaning" -> <<"src", JobEnded, "rel">>
      [] srv.pc \in {"retiring", "rel.wait"} -> <<"src", JobEnded, "rel">>
      [] srv.pc \in {"undoing", "rel.undoing", "dropping"} -> <<"dst", {"failed", "unknown"}, "rel">>
      [] srv.pc = "settling" -> <<"dst", JobEnded, "rel">>
      [] OTHER -> <<"src", {}, "none">>

(* once the wait has cancelled the job only its end counts, and a finished *)
(* destination where one was awaited                                       *)
Accepts == IF Awaits[1] \in srv.cut THEN Awaits[2] \cap (JobEnded \cup {"finalized"}) ELSE Awaits[2]

Verified(s) ==
    [s EXCEPT !.final = TRUE, !.warn = @ \/ (s.stop /\ mode = "move"),
              !.pc = IF mode = "move" /\ ~s.stop THEN "clean" ELSE ReleaseStart(s)]

(* _require_device_state and the backends' use of the status awaited *)
Arrived(st) ==
    CASE srv.pc = "verify" /\ st = "finalized" -> Verified(srv)
      [] srv.pc = "running" /\ st = "succeeded" -> [srv EXCEPT !.pc = "rel.local", !.over = TRUE]
      [] <<srv.pc, st>> \in {<<"scan", "ready">>, <<"ready", "ready">>, <<"reserve", "reserved">>} -> [srv EXCEPT !.pc = Awaits[3]]
      [] srv.pc = "cleaning" ->
           [srv EXCEPT !.pc = ReleaseStart(srv), !.warn = @ \/ st # "succeeded" \/ jobs["src"].warn]
      [] srv.pc = "undoing" ->
           [srv EXCEPT !.pc = ReleaseStart([srv EXCEPT !.over = TRUE]), !.over = TRUE,
                       !.why = IF st # "failed" \/ ~jobs["dst"].clean THEN "unknown" ELSE @]
      [] srv.pc = "rel.undoing" -> [srv EXCEPT !.pc = "rel.dst"]
      [] srv.pc = "retiring" -> [srv EXCEPT !.pc = "rel.probe"]
      [] srv.pc = "rel.wait" -> [srv EXCEPT !.pc = "rel.src"]
      [] srv.pc \in {"settling", "dropping"} -> [srv EXCEPT !.pc = "rel.local"]
      [] OTHER -> Raised(srv, IF st = "unknown" THEN "unknown" ELSE "failed")

WaitEnds ==
    LET r == Awaits[1]
        st == Status(r) IN
    /\ Awaits[2] # {} /\ OnDevice(r) /\ call.st = "idle"
    /\ \/ link[r] /\ st \in Accepts /\ srv' = Arrived(st)
       \/ link[r] /\ st \in {"none", "gone", "released"} /\ r \notin srv.cut /\ srv' = Fails(srv, "failed")
       \/ ~link[r] /\ srv' = Fails(srv, IF Mutated(r) THEN "unknown" ELSE "failed")
    /\ JobsKeep /\ Fixed /\ WiresKeep

(* No progress: cancel, then wait once more for the job's end; without one *)
(* the outcome is given up.  Only a job that does nothing makes no progress *)
(* by itself.                                                              *)
Stalled(r) ==
    /\ Awaits[2] # {} /\ r = Awaits[1] /\ OnDevice(r) /\ link[r] /\ call.st = "idle" /\ jobs[r].st \notin Accepts
    /\ IF Still(r) THEN Blameless ELSE Blame
    /\ DiskKeep /\ Fixed /\ UNCHANGED <<jobs, mgr, orphan, kid, link>>

NoProgress(r) ==
    /\ Stalled(r) /\ r \notin srv.cut
    /\ call' = [st |-> "sent", to |-> r, op |-> "cancel", ans |-> "none"]
    /\ srv' = [srv EXCEPT !.cut = @ \cup {r}]

(* the answer to that cancel only starts the second wait *)
CancelAnswered ==
    /\ call.st = "done" /\ Awaits[2] # {} /\ call' = NoCall /\ srv' = Heard
    /\ JobsKeep /\ Fixed /\ UNCHANGED <<orphan, kid, link>>

GivesUpOnlyWhenBusy(r) ==
    /\ Stalled(r) /\ r \in srv.cut /\ ~Still(r)
    /\ srv' = Fails(srv, IF Mutated(r) THEN "unknown" ELSE "failed") /\ UNCHANGED call

GivesUp(r) ==
    /\ Stalled(r) /\ r \in srv.cut
    /\ srv' = Fails(srv, IF Mutated(r) THEN "unknown" ELSE "failed") /\ UNCHANGED call

(***************************************************************************)
(* The server's own sides.                                                 *)
(***************************************************************************)
(* A directory of the object store exists while it has files, and is found *)
(* taken when somebody else's are there.                                   *)
Own == IF \A f \in Entries : dfile'[f] = "none" THEN "absent" ELSE "ours"

(* preflight: the plan, then the quota reservation; prepare_destination:   *)
(* the leases, and the same plan under them                                *)
ServerPreflight ==
    /\ srv.pc \in {"preflight", "prepare"} /\ ~OnDevice("dst")
    /\ \/ /\ RootFree /\ Blameless
          /\ srv' = [srv EXCEPT !.pc = IF @ = "preflight" THEN "prepare" ELSE NextChild, !.held = TRUE]
       \/ ~RootFree /\ Blameless /\ srv' = Raised(srv, "failed")
       \/ Blame /\ srv' = Raised(srv, "failed")
    /\ kid' = IF srv'.pc = "copy" THEN [NoKid EXCEPT !.f = srv.n] ELSE kid
    /\ DiskKeep /\ Fixed /\ UNCHANGED <<jobs, mgr, call, orphan, link>>

(* finalize_destination *)
ServerVerify ==
    /\ srv.pc = "finish" /\ ~OnDevice("dst")
    /\ LET whole == srv.own = Entries /\ Whole IN
       \/ ~srv.stop /\ whole /\ Blameless /\ srv' = Verified(srv)
       \/ ~srv.stop /\ ~whole /\ Blameless /\ srv' = Raised(srv, "failed")
       \/ Blame /\ srv' = Raised(srv, "failed")
    /\ DiskKeep /\ Fixed /\ WiresKeep /\ UNCHANGED <<jobs, mgr>>

(* cleanup_destination: only what was recorded, while it is unchanged; the *)
(* root must then be gone                                                  *)
ServerUndoUnchecked ==
    /\ srv.pc = "undo" /\ ~OnDevice("dst")
    /\ \/ \E f \in srv.own :
            /\ srv' = [srv EXCEPT !.own = @ \ {f}]
            /\ dfile' = [dfile EXCEPT ![f] = IF @ = "ours" THEN "none" ELSE @]
            /\ droot' = IF droot = "ours" THEN Own ELSE droot
       \/ srv.own = {} /\ srv' = [srv EXCEPT !.pc = ReleaseStart(srv)] /\ UNCHANGED <<dfile, droot>>
    /\ Blameless /\ Fixed /\ WiresKeep /\ UNCHANGED <<jobs, mgr, sfile>>

ServerUndo ==
    /\ srv.pc = "undo" /\ ~OnDevice("dst")
    /\ \/ \E f \in srv.own :
            /\ \/ /\ dfile' = [dfile EXCEPT ![f] = IF @ = "ours" THEN "none" ELSE @] /\ Blameless
                  /\ srv' = [srv EXCEPT !.own = @ \ {f}, !.why = IF dfile[f] = "edited" THEN "unknown" ELSE @]
               \/ Blame /\ srv' = [srv EXCEPT !.own = @ \ {f}, !.why = "unknown"] /\ UNCHANGED dfile
            /\ droot' = IF droot = "ours" THEN Own ELSE droot
       \/ /\ srv.own = {} /\ Blameless /\ UNCHANGED <<dfile, droot>>
          /\ srv' = [srv EXCEPT !.pc = ReleaseStart(srv), !.why = IF droot = "absent" THEN @ ELSE "unknown"]
    /\ Fixed /\ WiresKeep /\ UNCHANGED <<jobs, mgr, sfile>>

(* cleanup_source and _cleanup_server_source *)
ServerClean ==
    /\ srv.pc = "clean" /\ ~OnDevice("src")
    /\ \/ \E f \in srv.left :
            \/ /\ Blameless /\ sfile' = [sfile EXCEPT ![f] = IF @ = "same" THEN "gone" ELSE @]
               /\ srv' = [srv EXCEPT !.left = @ \ {f}, !.warn = @ \/ sfile[f] = "edited"]
            \/ Blame /\ srv' = [srv EXCEPT !.left = @ \ {f}, !.warn = TRUE] /\ UNCHANGED sfile
       \/ /\ srv.left = {} /\ Blameless /\ UNCHANGED sfile
          /\ srv' = [srv EXCEPT !.pc = ReleaseStart(srv), !.warn = @ \/ \E f \in Entries : sfile[f] # "gone"]
    /\ Fixed /\ WiresKeep /\ UNCHANGED <<jobs, mgr, dfile, droot>>

(***************************************************************************)
(* One child: copy_child.                                                  *)
(***************************************************************************)
KidOver == kid.ans # "none"
KidFixed == Fixed /\ UNCHANGED <<mgr, call, orphan, link>>
Kid(s, d, ans) == kid' = [kid EXCEPT !.s = s, !.d = d, !.ans = ans]

(* The source is opened: on a device under its authorization, everywhere   *)
(* only while it is what the manifest describes.                           *)
KidOpens ==
    /\ srv.pc = "copy" /\ kid.s = "new" /\ ~KidOver /\ (OnDevice("src") => link["src"])
    /\ LET good == (OnDevice("src") => MayConsume("src", kid.f)) /\ sfile[kid.f] = "same" IN
       /\ SetJob("src", IF OnDevice("src") THEN ConsumeSource(kid.f) ELSE jobs["src"])
       /\ Kid(IF good THEN "open" ELSE "new", "new", IF good THEN "none" ELSE "error")
    /\ Blameless /\ DiskKeep /\ KidFixed /\ UNCHANGED srv

KidSinks ==
    /\ srv.pc = "copy" /\ kid.s = "open" /\ kid.d = "new" /\ ~KidOver /\ (OnDevice("dst") => link["dst"])
    /\ LET may == OnDevice("dst") => MayConsume("dst", kid.f) IN
       /\ SetJob("dst", IF OnDevice("dst") THEN ConsumeDestination(kid.f) ELSE jobs["dst"])
       /\ Kid("open", IF may THEN "open" ELSE "new", IF may THEN "none" ELSE "error")
    /\ Blameless /\ DiskKeep /\ KidFixed /\ UNCHANGED srv

(* the source ends its stream with the file checked once more *)
KidSends ==
    /\ kid.s = "open" /\ kid.d = "open" /\ ~KidOver /\ (OnDevice("src") => link["src"])
    /\ IF sfile[kid.f] = "same" THEN Kid("sent", kid.d, "none") ELSE Kid("open", kid.d, "error")
    /\ JobsKeep /\ KidFixed /\ UNCHANGED srv

(* Publication under a name nobody took; on a device in the directory it   *)
(* made itself.  The server counts it as issued before it starts.          *)
KidPublishes ==
    /\ kid.s = "sent" /\ kid.d = "open" /\ kid.ans \in {"none", "unknown"}
    /\ IF OnDevice("dst") => droot = "ours"
       THEN /\ dfile' = [dfile EXCEPT ![kid.f] = "ours"] /\ Kid("sent", "published", kid.ans)
            /\ droot' = IF OnDevice("dst") THEN droot ELSE IF droot = "foreign" THEN droot ELSE "ours"
       ELSE Kid("sent", "open", IF KidOver THEN kid.ans ELSE "error") /\ UNCHANGED <<dfile, droot>>
    /\ srv' = IF OnDevice("dst") THEN srv ELSE [srv EXCEPT !.issued = TRUE]
    /\ Blameless /\ KidFixed /\ UNCHANGED <<jobs, sfile>>

(* record_destination_commit, _record_commit; the object store may fail    *)
(* although it has published, and then nothing is recorded                 *)
KidRecords ==
    /\ kid.d = "published"
    /\ \/ /\ Kid("sent", "done", kid.ans) /\ Blameless
          /\ IF OnDevice("dst") THEN SetJob("dst", Committed(jobs["dst"])) /\ UNCHANGED srv
             ELSE srv' = [srv EXCEPT !.own = @ \cup {kid.f}] /\ UNCHANGED jobs
       \/ /\ ~OnDevice("dst") /\ Blame /\ UNCHANGED <<jobs, srv>>
          /\ Kid("sent", "done", IF KidOver THEN kid.ans ELSE "error")
    /\ DiskKeep /\ KidFixed

KidSucceeds ==
    /\ kid.d = "done" /\ ~KidOver /\ Kid("sent", "done", "ok")
    /\ JobsKeep /\ KidFixed /\ UNCHANGED srv

(* a failure on either side, or the user's stop, before publication *)
KidAborts ==
    /\ srv.pc = "copy" /\ ~KidOver /\ kid.d \in {"new", "open"} /\ Kid(kid.s, kid.d, "error")
    /\ IF srv.stop THEN Blameless ELSE Blame
    /\ DiskKeep /\ KidFixed /\ UNCHANGED <<jobs, srv>>

(* a device of the transfer is lost *)
KidLost ==
    /\ srv.pc = "copy" /\ ~KidOver
    /\ \/ OnDevice("dst") /\ ~link["dst"]
       \/ OnDevice("src") /\ ~link["src"] /\ kid.s # "sent"
    /\ Kid(kid.s, kid.d, "unknown") /\ JobsKeep /\ KidFixed /\ UNCHANGED srv

(* The slots settle in their own time: the source completes its            *)
(* authorization only after the last acknowledgement and the closing of    *)
(* its file, while the server may already be at the next child.            *)
KidSourceSettles ==
    /\ jobs["src"].used /\ (KidOver \/ kid.f # jobs["src"].auth)
    /\ SetJob("src", CompletedSource(jobs["src"]))
    /\ Blameless /\ DiskKeep /\ KidFixed /\ UNCHANGED <<srv, kid>>

KidDestinationSettles ==
    /\ jobs["dst"].used /\ KidOver /\ kid.d \in {"new", "open"} /\ kid.ans # "ok"
    /\ SetJob("dst", Uncommitted(jobs["dst"])) /\ Kid(kid.s, "done", kid.ans)
    /\ Blameless /\ DiskKeep /\ KidFixed /\ UNCHANGED srv

(* what the coordinator does with the child's result *)
TakeKid ==
    /\ srv.pc = "copy" /\ KidOver
    /\ LET s == IF kid.ans = "ok" THEN [srv EXCEPT !.pend = FALSE] ELSE srv IN
       srv' = IF kid.ans = "unknown" THEN Raised(s, "unknown")
              ELSE IF srv.stop THEN Raised(s, "cancelled")
              ELSE IF kid.ans = "error" THEN Raised(s, "failed")
              ELSE [s EXCEPT !.n = @ + 1, !.pc = IF srv.n = DirFiles THEN "finish" ELSE NextChild]
    /\ kid' = IF srv'.pc = "copy" THEN [NoKid EXCEPT !.f = srv'.n] ELSE kid
    /\ JobsKeep /\ KidFixed

(***************************************************************************)
(* The user, the devices and time.                                         *)
(***************************************************************************)
(* A cancelled turn: the finish of a device's destination and every        *)
(* cleanup are shielded, a child decides for itself, everything else is    *)
(* abandoned where it stands, with its command still on the wire.          *)
UserCancels ==
    /\ srv.pc \notin (Guarded \ {"undo", "undoing"}) \cup {"done"} /\ ~srv.stop /\ Blame
    /\ IF srv.pc = "copy" \/ (srv.pc \in {"finish", "verify"} /\ OnDevice("dst"))
       THEN srv' = [srv EXCEPT !.stop = TRUE] /\ UNCHANGED <<call, orphan>>
       ELSE IF srv.pc \in Guarded
       THEN srv' = [srv EXCEPT !.stop = TRUE, !.why = "cancelled"] /\ UNCHANGED <<call, orphan>>
       ELSE /\ srv' = [Raised(srv, "cancelled") EXCEPT !.stop = TRUE]
            /\ call' = NoCall
            /\ orphan' = IF call.st \in {"sent", "lost"} THEN [call EXCEPT !.st = "sent"] ELSE orphan
    /\ DiskKeep /\ Fixed /\ UNCHANGED <<jobs, mgr, kid, link>>

(* A connection ends: its directory generation is retired for good.        *)
Disconnect(r) ==
    /\ OnDevice(r) /\ link[r] /\ srv.told = "none" /\ Blame
    /\ link' = [e \in Roles |-> link[e] /\ e \notin EndsOf(r)]
    /\ Retire(EndsOf(r), TRUE)
    /\ DiskKeep /\ Fixed /\ UNCHANGED <<srv, call, orphan, kid>>

(* A new configuration: the old manager only finishes what it has.         *)
Reconfigure(r) ==
    /\ OnDevice(r) /\ link[r] /\ mgr[r] = "open" /\ srv.told = "none" /\ Blame
    /\ Retire(EndsOf(r), FALSE)
    /\ DiskKeep /\ Fixed /\ UNCHANGED <<srv, call, orphan, kid, link>>

Others == Fixed /\ UNCHANGED <<srv, call, orphan, kid, link>>

(* The device's timers are longer than the server's patience: while the    *)
(* server still works on the transfer, one that fires is a fault.          *)
Timers ==
    /\ \E r \in Roles :
         \/ ExpireIdle(r) \/ ExpireAuthorization(r)
         \/ Purge(r) /\ srv.told = "none"
    /\ IF srv.told = "none" THEN Blame ELSE Blameless
    /\ Others

Drained == \E r \in Roles : Discard(r) /\ Others

(* somebody else writes to the source or the destination *)
Edit ==
    /\ srv.told = "none" /\ Blame
    /\ \/ \E f \in Entries : /\ sfile[f] = "same" /\ sfile' = [sfile EXCEPT ![f] = "edited"]
                             /\ UNCHANGED <<dfile, droot>>
       \/ \E f \in Entries : /\ dfile[f] = "ours" /\ dfile' = [dfile EXCEPT ![f] = "edited"]
                             /\ UNCHANGED <<sfile, droot>>
       \/ droot = "absent" /\ droot' = "foreign" /\ UNCHANGED <<sfile, dfile>>
    /\ UNCHANGED <<jobs, mgr>> /\ Others

(* The result of the tool call.  One that was cancelled after something    *)
(* was issued is recorded as unknown.                                      *)
TellUser ==
    /\ srv.pc = "done" /\ srv.told = "none"
    /\ srv' = [srv EXCEPT !.held = FALSE,
                          !.told = CASE srv.why = "none" -> "ok"
                                     [] srv.why = "cancelled" -> IF srv.issued THEN "unknown" ELSE "cancelled"
                                     [] srv.why = "unknown" -> "unknown"
                                     [] OTHER -> "failed"]
    /\ JobsKeep /\ Fixed /\ WiresKeep

JobStep == JobTask /\ Others

DirStep ==
    \/ Ask \/ Deliver \/ DeliverOrphan \/ Reconcile \/ Unreachable \/ Take \/ ReleaseAgain \/ ReleaseTimesOut
    \/ WaitEnds \/ CancelAnswered \/ \E r \in Roles : NoProgress(r) \/ GivesUp(r)
    \/ ServerPreflight \/ ServerVerify \/ ServerUndo \/ ServerClean
    \/ KidOpens \/ KidSinks \/ KidSends \/ KidPublishes \/ KidRecords \/ KidSucceeds \/ KidAborts \/ KidLost
    \/ KidSourceSettles \/ KidDestinationSettles \/ TakeKid
    \/ JobStep \/ Timers \/ Drained \/ TellUser

DirFault == CallTimesOut \/ UserCancels \/ Edit \/ \E r \in Roles : Disconnect(r) \/ Reconfigure(r)

DirSettled == call.st = "idle" /\ (\A r \in Roles : Still(r)) /\ UNCHANGED dirvars

DirNext == DirStep \/ DirFault \/ DirSettled

(***************************************************************************)
(* Properties.                                                             *)
(***************************************************************************)
(* A move deletes nothing before the whole destination exists: as long as  *)
(* one file of the destination is missing every source file is there       *)
(* (directory_transfer.py run, _run_source_cleanup, _execute_local_move).  *)
SourceOutlivesCopy ==
    scene = "directory" /\ (\E f \in Entries : sfile[f] = "gone") => \A f \in Entries : dfile[f] # "none"

(* What the tool result says is so, and stays so.  A failure means that    *)
(* nothing of the transfer is left at the destination; a success that all  *)
(* of it is there, that a copy removed nothing, and that a move without a  *)
(* warning removed everything (directory_transfer.py run).                 *)
DirOutcome ==
    scene = "directory" =>
    /\ srv.told \in {"failed", "cancelled"} =>
         droot # "ours" /\ \A f \in Entries : dfile[f] = "none" /\ sfile[f] # "gone"
    /\ srv.told = "ok" =>
         /\ \A f \in Entries : dfile[f] # "none"
         /\ mode = "copy" => \A f \in Entries : sfile[f] # "gone"
         /\ mode = "move" /\ ~srv.warn => \A f \in Entries : sfile[f] = "gone"

(* The path reservation of a device belongs to an active job: however the  *)
(* job ends, it gives the paths back (_exit_reservation on every path).    *)
ReservationOwned == scene = "directory" /\ jobs["dst"].res => jobs["dst"].live

(* A directory transfer is all or nothing and says which: no source file   *)
(* goes before the copy is whole, the answer is true, and the paths are    *)
(* given back.                                                             *)
DirectoryHonest == SourceOutlivesCopy /\ DirOutcome /\ ReservationOwned
================================================================================
