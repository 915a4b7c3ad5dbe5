------------------------------- MODULE Dream --------------------------------
(***************************************************************************)
(* The nightly consolidation of a user's conversations into the memory     *)
(* note (server automations/dream.py).  A run is a row: it is created with *)
(* the excerpts it is about, prepared with the text it wants to write, and *)
(* ended in the transaction that moves the progress of those excerpts.     *)
(* The note is in another store: a write names the version it replaces and *)
(* an operation id, which the store (a library) executes once.  A pulse    *)
(* and a restore request hold the user's lock, so that one of them runs;   *)
(* the user edits the note at any time.                                    *)
(***************************************************************************)
EXTENDS Naturals, FiniteSets, FiniteSetsExt

CONSTANTS
    Texts,          \* the messages, numbered in the order of their creation
    LengthOf,       \* the length of each message's text
    ChunkChars,     \* SOURCE_CHUNK_CHARS
    SourceChars,    \* MAX_SOURCE_CHARS
    SourceMessages, \* MAX_SOURCE_MESSAGES
    RunIds,         \* 1..n
    DreamBudgets    \* records [early, faults, edits, restores, deletes] of a behaviour:
                    \* the messages that are ready at first, and how often what happens

ASSUME DreamBounds ==
    /\ Texts \subseteq Nat /\ IsFiniteSet(Texts) /\ LengthOf \in [Texts -> Nat]
    /\ {ChunkChars, SourceChars, SourceMessages} \subseteq Nat \ {0}
    /\ RunIds \subseteq Nat \ {0} /\ IsFiniteSet(RunIds)

VARIABLES
    runs,           \* dream_runs
    done,           \* dream_progress
    mem,            \* the note: its version and the facts it holds
    receipt,        \* the version each operation of the memory store produced
    proc,           \* the pulse or the request that holds the lock, with its copy of the run
    ready,          \* messages before today in sessions with nothing running or waiting
    gone,           \* messages deleted with their session
    recent,         \* a run failed less than an hour ago
    edits,          \* the user's edits of the note
    dbud              \* what is left of the budget
dreamvars == <<runs, done, mem, receipt, proc, ready, gone, recent, edits, dbud>>

NoDream == [st |-> "none", src |-> {}, text |-> FALSE, prepared |-> FALSE,
            before |-> {}, after |-> {}, bv |-> 0, av |-> 0]
NoProgress == [at |-> 0, complete |-> FALSE]
NoProc == [pc |-> "idle", who |-> "none", r |-> 0, own |-> NoDream, out |-> "none", changed |-> FALSE]
DreamOps == {"update", "restore"}

DreamInit ==
    /\ runs = [r \in RunIds |-> NoDream] /\ done = [m \in Texts |-> NoProgress]
    /\ mem = [v |-> 0, facts |-> {}] /\ receipt = [r \in RunIds |-> [o \in DreamOps |-> 0]]
    /\ proc = NoProc /\ gone = {} /\ recent = FALSE /\ edits = {}
    /\ dbud \in DreamBudgets /\ ready = dbud.early

OpenRun(r) == runs[r].st \in {"pending", "restoring"}
\* What run r adds to the note; the user's edits are 1, 2, ...
FactOf(r) == 100 + r

\* _source: from where each message stopped, one chunk of it, in order, until the
\* messages or the characters of one run are used up.
SourceItems ==
    LET open == {m \in ready \ gone : ~done[m].complete}
        rows == {m \in open : Cardinality({n \in open : n < m}) < SourceMessages}
        body(m) == Min({ChunkChars, LengthOf[m] - done[m].at})
        chars(m) == MapThenSumSet(body, {n \in rows : n < m})
        end(m) == done[m].at + Min({body(m), SourceChars - chars(m)})
    IN {[m |-> m, from |-> done[m].at, to |-> end(m), complete |-> end(m) >= LengthOf[m]] :
          m \in {k \in rows : chars(k) < SourceChars}}

\* Where process_user goes on with a run it found or created.
Resumes(run) ==
    CASE run.st = "restoring" -> "restore"
      [] run.prepared -> "write"
      [] \A item \in run.src : item.from = item.to -> "finish"
      [] OTHER -> "read"

HoldsRun(r, run) ==
    proc' = [NoProc EXCEPT !.pc = Resumes(run), !.who = "pulse", !.r = r, !.own = run,
                           !.out = IF Resumes(run) = "finish" THEN "skipped" ELSE "none"]

\* Mutation: an interrupted restore is not taken up again.
PulseSkipsRestore ==
    /\ proc = NoProc /\ ~recent /\ SourceItems # {}
    /\ ~\E r \in RunIds : runs[r].st = "restoring"
    /\ IF \E r \in RunIds : OpenRun(r)
       THEN (\E r \in RunIds : OpenRun(r) /\ HoldsRun(r, runs[r])) /\ UNCHANGED runs
       ELSE LET run == [NoDream EXCEPT !.st = "pending", !.src = SourceItems, !.text = TRUE]
            IN \E r \in RunIds : /\ runs[r] = NoDream /\ \A k \in RunIds : k < r => runs[k] # NoDream
                                 /\ runs' = [runs EXCEPT ![r] = run] /\ HoldsRun(r, run)
    /\ UNCHANGED <<done, mem, receipt, ready, gone, recent, edits, dbud>>

\* process_user up to the commit of its first transaction: the run that is open, or a
\* new one, unless one failed recently or nothing is to be read.  A gate that is not
\* configured only makes this wait.
PulseBegins ==
    /\ proc = NoProc
    /\ IF \E r \in RunIds : OpenRun(r)
       THEN /\ \E r \in RunIds : OpenRun(r) /\ HoldsRun(r, runs[r])
            /\ UNCHANGED runs
       ELSE /\ ~recent /\ SourceItems # {} /\ \E r \in RunIds : runs[r] = NoDream
            /\ LET r == Min({k \in RunIds : runs[k] = NoDream})
                   run == [NoDream EXCEPT !.st = "pending", !.src = SourceItems, !.text = TRUE]
               IN runs' = [runs EXCEPT ![r] = run] /\ HoldsRun(r, run)
    /\ UNCHANGED <<done, mem, receipt, ready, gone, recent, edits, dbud>>

DreamAt(pc) == proc.pc = pc
DreamGoes(pc, own) == proc' = [proc EXCEPT !.pc = pc, !.own = own]
EndsAs(out) == proc' = [proc EXCEPT !.pc = "finish", !.out = out]

ReadMemory ==
    /\ DreamAt("read")
    /\ DreamGoes("ask", [proc.own EXCEPT !.before = mem.facts, !.bv = mem.v])
    /\ UNCHANGED <<runs, done, mem, receipt, ready, gone, recent, edits, dbud>>

\* The gate answers, then the model proposes; apply_proposal makes the new text.
GateAnswers ==
    /\ DreamAt("ask")
    /\ \/ EndsAs("skipped")
       \/ EndsAs("unchanged")
       \/ DreamGoes("save", [proc.own EXCEPT !.prepared = TRUE,
                                        !.after = proc.own.before \union {FactOf(proc.r)}])
    /\ UNCHANGED <<runs, done, mem, receipt, ready, gone, recent, edits, dbud>>

\* The write-ahead record.
SaveAhead ==
    /\ DreamAt("save")
    /\ runs' = [runs EXCEPT ![proc.r] = proc.own]
    /\ DreamGoes("write", proc.own)
    /\ UNCHANGED <<done, mem, receipt, ready, gone, recent, edits, dbud>>

\* MemoryStore.write: an operation that was executed returns the version it made.
Conflicts(o, expected) == receipt[proc.r][o] = 0 /\ mem.v # expected
StoreWrites(o, facts) ==
    IF receipt[proc.r][o] # 0 THEN UNCHANGED <<mem, receipt>>
    ELSE /\ mem' = [v |-> mem.v + 1, facts |-> facts]
         /\ receipt' = [receipt EXCEPT ![proc.r][o] = mem.v + 1]
WrittenVersion(o) == IF receipt[proc.r][o] # 0 THEN receipt[proc.r][o] ELSE mem.v + 1

\* _commit_memory's write.
WriteMemory ==
    /\ DreamAt("write")
    /\ IF Conflicts("update", proc.own.bv)
       THEN /\ proc' = [proc EXCEPT !.pc = "handler", !.changed = TRUE]
            /\ UNCHANGED <<mem, receipt>>
       ELSE /\ StoreWrites("update", proc.own.after)
            /\ proc' = [proc EXCEPT !.pc = "finish", !.out = "updated",
                                    !.own = [proc.own EXCEPT !.av = WrittenVersion("update")]]
    /\ UNCHANGED <<runs, done, ready, gone, recent, edits, dbud>>

\* The transaction of _finish: the progress of the messages that still exist, and the
\* run, without its excerpts.
RunFinished(run) ==
    /\ runs' = [runs EXCEPT ![proc.r] = [run EXCEPT !.st = proc.out, !.text = FALSE]]
    /\ done' = [m \in Texts |->
                  IF \E item \in run.src : item.m = m /\ m \notin gone
                  THEN LET item == CHOOSE i \in run.src : i.m = m
                       IN [at |-> item.to, complete |-> item.complete]
                  ELSE done[m]]
FinishRun ==
    /\ DreamAt("finish")
    /\ RunFinished(proc.own)
    /\ proc' = NoProc
    /\ UNCHANGED <<mem, receipt, ready, gone, recent, edits, dbud>>

\* _restore's write; a note that was changed leaves the update as it is.
RestoreWrites ==
    /\ DreamAt("restore")
    /\ IF Conflicts("restore", proc.own.av)
       THEN DreamGoes("settle", [proc.own EXCEPT !.st = "updated"]) /\ UNCHANGED <<mem, receipt>>
       ELSE /\ StoreWrites("restore", proc.own.before)
            /\ DreamGoes("settle", [proc.own EXCEPT !.st = "restored"])
    /\ UNCHANGED <<runs, done, ready, gone, recent, edits, dbud>>
SaveRestored ==
    /\ DreamAt("settle")
    /\ runs' = [runs EXCEPT ![proc.r] = proc.own]
    /\ proc' = NoProc
    /\ UNCHANGED <<done, mem, receipt, ready, gone, recent, edits, dbud>>

\* restore(): the last update, while the note still is what it wrote.
RestoreBegins(r) ==
    /\ proc = NoProc /\ dbud.restores > 0
    /\ runs[r].st = "updated" /\ ~\E k \in RunIds : OpenRun(k)
    /\ mem.v = runs[r].av
    /\ LET run == [runs[r] EXCEPT !.st = "restoring"]
       IN /\ runs' = [runs EXCEPT ![r] = run]
          /\ proc' = [NoProc EXCEPT !.pc = "restore", !.who = "request", !.r = r, !.own = run]
    /\ dbud' = [dbud EXCEPT !.restores = @ - 1]
    /\ UNCHANGED <<done, mem, receipt, ready, gone, recent, edits>>

\* Mutation: a failure ends a prepared run.
HandledFailed(own, changed) ==
    [own EXCEPT !.st = IF runs[proc.r].st = "restoring" THEN "restoring" ELSE "failed", !.text = FALSE]

\* What the exception handler of process_user makes of the run.
Handled(own, changed) ==
    LET st == CASE runs[proc.r].st = "restoring" -> IF own.st = "updated" THEN "updated" ELSE "restoring"
                [] own.prepared /\ ~changed -> "pending"
                [] OTHER -> "failed"
    IN [own EXCEPT !.st = st, !.text = FALSE]
HandlerRuns ==
    /\ DreamAt("handler")
    /\ proc' = NoProc
    /\ IF OpenRun(proc.r)
       THEN LET run == Handled(proc.own, proc.changed)
            IN /\ runs' = [runs EXCEPT ![proc.r] = run]
               /\ recent' = (recent \/ run.st = "failed")
       ELSE UNCHANGED <<runs, recent>>
    /\ UNCHANGED <<done, mem, receipt, ready, gone, edits, dbud>>

(***************************************************************************)
(* Faults, and the user.                                                   *)
(***************************************************************************)
DreamFault == dbud.faults > 0 /\ dbud' = [dbud EXCEPT !.faults = @ - 1]

\* A call raises: it had no effect, or its answer was lost.
LostEffect ==
    \/ UNCHANGED <<runs, done, mem, receipt>>
    \/ DreamAt("save") /\ runs' = [runs EXCEPT ![proc.r] = proc.own] /\ UNCHANGED <<done, mem, receipt>>
    \/ DreamAt("settle") /\ runs' = [runs EXCEPT ![proc.r] = proc.own] /\ UNCHANGED <<done, mem, receipt>>
    \/ DreamAt("finish") /\ RunFinished(proc.own) /\ UNCHANGED <<mem, receipt>>
    \/ DreamAt("write") /\ ~Conflicts("update", proc.own.bv) /\ StoreWrites("update", proc.own.after)
       /\ UNCHANGED <<runs, done>>
    \/ DreamAt("restore") /\ ~Conflicts("restore", proc.own.av) /\ StoreWrites("restore", proc.own.before)
       /\ UNCHANGED <<runs, done>>
CallFails ==
    /\ proc # NoProc /\ ~DreamAt("handler") /\ DreamFault
    /\ LostEffect
    /\ proc' = IF proc.who = "pulse" THEN [proc EXCEPT !.pc = "handler"] ELSE NoProc
    /\ UNCHANGED <<ready, gone, recent, edits>>

\* The Server stops, the request is abandoned, or the handler's own save fails.
DreamCrashes ==
    /\ proc # NoProc /\ DreamFault
    /\ proc' = NoProc
    /\ UNCHANGED <<runs, done, mem, receipt, ready, gone, recent, edits>>

UserEdits ==
    /\ dbud.edits > 0 /\ dbud' = [dbud EXCEPT !.edits = @ - 1]
    /\ edits' = edits \union {Cardinality(edits) + 1}
    /\ mem' = [v |-> mem.v + 1, facts |-> mem.facts \union {Cardinality(edits) + 1}]
    /\ UNCHANGED <<runs, done, receipt, proc, ready, gone, recent>>

MessageReady(m) ==
    /\ m \notin ready /\ ready' = ready \union {m}
    /\ UNCHANGED <<runs, done, mem, receipt, proc, gone, recent, edits, dbud>>

MessageDeleted(m) ==
    /\ m \in ready \ gone /\ dbud.deletes > 0 /\ dbud' = [dbud EXCEPT !.deletes = @ - 1]
    /\ gone' = gone \union {m} /\ done' = [done EXCEPT ![m] = NoProgress]
    /\ UNCHANGED <<runs, mem, receipt, proc, ready, recent, edits>>

HourPasses ==
    /\ recent /\ recent' = FALSE
    /\ UNCHANGED <<runs, done, mem, receipt, proc, ready, gone, edits, dbud>>

\* The schedule keeps sending pulses, and what holds the lock goes on.
DreamProgress ==
    \/ PulseBegins \/ ReadMemory \/ GateAnswers \/ SaveAhead \/ WriteMemory \/ FinishRun
    \/ RestoreWrites \/ SaveRestored \/ HandlerRuns
DreamNext ==
    \/ DreamProgress
    \/ \E r \in RunIds : RestoreBegins(r)
    \/ \E m \in Texts : MessageReady(m) \/ MessageDeleted(m)
    \/ CallFails \/ DreamCrashes \/ UserEdits \/ HourPasses

(***************************************************************************)
(* Properties                                                              *)
(***************************************************************************)
EndedRuns == {r \in RunIds : runs[r].st \in {"updated", "restoring", "restored", "skipped", "unchanged"}}

\* No run, retry or restore ever overwrites an edit of the user.
EditsKept == edits \subseteq mem.facts

\* The history tells what is in the note: the addition of a run is in it exactly when
\* the run is recorded as updated, whatever failed; while the run is open, it may be.
RecordTrue ==
    \A r \in RunIds : ~OpenRun(r) => (FactOf(r) \in mem.facts <=> runs[r].st = "updated")

\* Every character of a message is part of one ended run at most, and the progress of
\* the message is what ended runs read: nothing is skipped and nothing is read twice.
ProgressEarned ==
    \A m \in Texts \ gone :
        /\ \A c \in 0 .. LengthOf[m] :
              Cardinality({r \in EndedRuns : \E i \in runs[r].src : i.m = m /\ i.from <= c /\ c < i.to})
                = IF c < done[m].at THEN 1 ELSE 0
        /\ done[m].complete <=> \E r \in EndedRuns : \E i \in runs[r].src : i.m = m /\ i.to = LengthOf[m]

\* A run is open or a holder of the lock is at work.
DreamUnfinished == proc # NoProc \/ \E r \in RunIds : OpenRun(r)
=============================================================================
