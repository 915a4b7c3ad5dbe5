------------------------------ MODULE CronJobs ------------------------------
(***************************************************************************)
(* One scheduled job (server services/cron.py, automations/cron.py and     *)
(* automations/durable.py): it is written, edited and deleted by requests, *)
(* and every fire is a durable timer, a workflow whose id is made of the   *)
(* job and the fire time.  The workflow engine (a library) runs a workflow *)
(* id once, whatever is enqueued again under it, one at a time for a job,  *)
(* repeats a step that failed or that a crash interrupted, and executes    *)
(* a cancellation as another workflow, some time after it was asked for.   *)
(* Requests and fires hold the lock of the job's id and its row: each is   *)
(* one step.                                                               *)
(***************************************************************************)
EXTENDS CronSchedule, Sequences, SequencesExt

CONSTANTS
    JobSchedules,   \* the schedules a request may ask for
    LastTick,       \* the clock stops here, before the last occurrence
    Grace,          \* a timer that starts later than this does not fire (5 s)
    StepTries,      \* max_attempts of the step
    CronBudgets     \* records [edits, faults] of a behaviour

ASSUME CronBounds ==
    /\ LastTick \in Instants /\ Grace \in Nat /\ StepTries \in Nat \ {0}
    /\ \A b \in CronBudgets : b.edits \in Nat /\ b.faults \in Nat

VARIABLES
    job,            \* the row of cron_jobs
    timer,          \* the status of the workflow of each fire time
    cancels,        \* the fire times whose cancellation is queued
    run,            \* the workflow of this job that runs, if any
    wall,           \* datetime.now
    accepted,       \* the occurrences of the stored schedule that were accepted
    spent,          \* the job was moved to a fire time whose id was used up
    tired,          \* a fire was given up after its last attempt
    cb              \* what is left of the budget
cronvars == <<job, timer, cancels, run, wall, accepted, spent, tired, cb>>

NoJob == [on |-> FALSE, s |-> [kind |-> "none"], fire |-> NoInstant]
NoRun == [t |-> NoInstant, pc |-> "none", now |-> 0, tries |-> 0]

CronInit ==
    /\ job = NoJob /\ timer = [t \in 0 .. Horizon + 3 |-> "none"] /\ cancels = {} /\ run = NoRun
    /\ wall = 0 /\ accepted = <<>> /\ spent = FALSE /\ tired = FALSE
    /\ cb \in CronBudgets

\* enqueue_cron: an id that is known already is left as it is.
EnqueueCron(t) == timer' = [timer EXCEPT ![t] = IF @ = "none" THEN "delayed" ELSE @]
\* The workflow of that id is not new: it ran, runs, or is to be cancelled.
UsedUp(t) == timer[t] # "none"
\* cancel_cron: the workflow that cancels has an id of its own.
CancelCron(t) == cancels' = IF timer[t] = "cancelled" THEN cancels ELSE cancels \union {t}

\* What is stored of a schedule: a local one-shot time becomes an instant.
StoredAs(s, fire) == IF s.kind = "local" THEN [kind |-> "at", t |-> fire] ELSE s

CreateOwned(s) ==
    /\ job = NoJob /\ \A t \in DOMAIN timer : timer[t] = "none"
    /\ LET f == FirstFire(s, wall)
       IN /\ f # NoInstant
          /\ job' = [on |-> TRUE, s |-> StoredAs(s, f), fire |-> f]
          /\ EnqueueCron(f)
    /\ UNCHANGED <<cancels, run, wall, accepted, spent, tired, cb>>

\* patch_owned with a schedule, computed from the time at which the request came in.
PatchSchedule(s, written) ==
    /\ job.on /\ cb.edits > 0
    /\ LET f == FirstFire(s, written)
       IN /\ f # NoInstant
          /\ IF f # job.fire THEN CancelCron(job.fire) ELSE UNCHANGED cancels
          /\ job' = [job EXCEPT !.s = StoredAs(s, f), !.fire = f]
          /\ EnqueueCron(f)
          /\ spent' = (spent \/ (f # job.fire /\ UsedUp(f)))
    /\ accepted' = <<>>
    /\ cb' = [cb EXCEPT !.edits = @ - 1]
    /\ UNCHANGED <<run, wall, tired>>

\* patch_owned with a name or a message alone enqueues the same id again.
PatchText ==
    /\ job.on /\ cb.edits > 0
    /\ EnqueueCron(job.fire)
    /\ cb' = [cb EXCEPT !.edits = @ - 1]
    /\ UNCHANGED <<job, cancels, run, wall, accepted, spent, tired>>

DeleteOwned ==
    /\ job.on /\ cb.edits > 0
    /\ CancelCron(job.fire)
    /\ job' = NoJob
    /\ cb' = [cb EXCEPT !.edits = @ - 1]
    /\ UNCHANGED <<timer, run, wall, accepted, spent, tired>>

\* cancel_timer: a step that is being executed is not interrupted.
CancelTimer(t) ==
    /\ t \in cancels
    /\ cancels' = cancels \ {t}
    /\ timer' = [timer EXCEPT ![t] = IF @ = "done" THEN @ ELSE "cancelled"]
    /\ UNCHANGED <<job, run, wall, accepted, spent, tired, cb>>

(***************************************************************************)
(* The workflow of a timer.                                                *)
(***************************************************************************)
\* The delay is over and the job's partition of the queue is free.
TimerStarts(t) ==
    /\ timer[t] = "delayed" /\ wall >= t /\ run = NoRun
    /\ timer' = [timer EXCEPT ![t] = "pending"]
    /\ run' = [NoRun EXCEPT !.t = t, !.pc = "start"]
    /\ UNCHANGED <<job, cancels, wall, accepted, spent, tired, cb>>

\* fire_cron reads the clock; a cancelled workflow does not start its step.
StepBegins ==
    /\ run.pc = "start"
    /\ run' = IF timer[run.t] = "cancelled" THEN NoRun
              ELSE [run EXCEPT !.now = wall,
                               !.pc = IF wall > run.t + Grace THEN "recover" ELSE "fire"]
    /\ UNCHANGED <<job, timer, cancels, wall, accepted, spent, tired, cb>>

\* Mutation: the row is due, whichever timer it is.
DueAnyTimer(r) == job.on /\ job.fire <= r.now

\* The row is still there, due, and at the time of this timer.
StillDue(r) == job.on /\ job.fire <= r.now /\ job.fire = r.t

\* The row moves to its next fire, or a one-shot job is deleted.
MovedOn(scheduled) ==
    IF job.s.kind = "at"
    THEN job' = NoJob /\ UNCHANGED <<timer, spent>>
    ELSE LET f == AdvanceRecurring(job.s, scheduled, run.now)
         IN /\ job' = [job EXCEPT !.fire = f]
            /\ EnqueueCron(f)
            /\ spent' = (spent \/ UsedUp(f))

\* _fire_job: publish_inbound_locked does not queue behind a busy session: the fire
\* is skipped, and the job moves on.
FireJob(busy) ==
    /\ run.pc = "fire"
    /\ run' = [run EXCEPT !.pc = "record"]
    /\ IF StillDue(run)
       THEN LET due == LatestDueOccurrence(job.s, job.fire, run.now)
            IN /\ accepted' = IF busy THEN accepted ELSE Append(accepted, due)
               /\ MovedOn(due)
       ELSE UNCHANGED <<job, timer, spent, accepted>>
    /\ UNCHANGED <<cancels, wall, tired, cb>>

\* _recover_job: what was missed is not made up for.
RecoverJob ==
    /\ run.pc = "recover"
    /\ run' = [run EXCEPT !.pc = "record"]
    /\ IF StillDue(run) THEN MovedOn(job.fire) ELSE UNCHANGED <<job, timer, spent>>
    /\ UNCHANGED <<cancels, wall, accepted, tired, cb>>

StepRecorded ==
    /\ run.pc = "record"
    /\ timer' = [timer EXCEPT ![run.t] = IF @ = "pending" THEN "done" ELSE @]
    /\ run' = NoRun
    /\ UNCHANGED <<job, cancels, wall, accepted, spent, tired, cb>>

\* The step raises, before its commit or although it committed, and is tried again.
StepFails ==
    /\ run.pc \in {"fire", "recover", "record"} /\ cb.faults > 0
    /\ cb' = [cb EXCEPT !.faults = @ - 1]
    /\ IF run.tries + 1 < StepTries
       THEN /\ run' = [NoRun EXCEPT !.t = run.t, !.pc = "start", !.tries = run.tries + 1]
            /\ UNCHANGED <<timer, tired>>
       ELSE /\ run' = NoRun /\ tired' = TRUE
            /\ timer' = [timer EXCEPT ![run.t] = IF @ = "pending" THEN "done" ELSE @]
    /\ UNCHANGED <<job, cancels, wall, accepted, spent>>

\* The Server restarts: the workflow is recovered, its step not being recorded.
ServerCrashes ==
    /\ run # NoRun /\ cb.faults > 0
    /\ cb' = [cb EXCEPT !.faults = @ - 1]
    /\ run' = NoRun
    /\ timer' = [timer EXCEPT ![run.t] = IF @ = "pending" THEN "delayed" ELSE @]
    /\ UNCHANGED <<job, cancels, wall, accepted, spent, tired>>

Tick ==
    /\ wall < LastTick /\ wall' = wall + 1
    /\ UNCHANGED <<job, timer, cancels, run, accepted, spent, tired, cb>>

\* What the engine keeps doing.
CronProgress ==
    \/ \E t \in DOMAIN timer : TimerStarts(t) \/ CancelTimer(t)
    \/ StepBegins \/ (\E b \in BOOLEAN : FireJob(b)) \/ RecoverJob \/ StepRecorded
CronNext ==
    \/ CronProgress
    \/ \E s \in JobSchedules : CreateOwned(s)
    \/ \E s \in JobSchedules, w \in {wall, wall - 1} \cap Instants : PatchSchedule(s, w)
    \/ PatchText \/ DeleteOwned
    \/ StepFails \/ ServerCrashes \/ Tick

(***************************************************************************)
(* Properties                                                              *)
(***************************************************************************)
\* What a step of a fire accepts is due, belongs to the schedule that is stored then,
\* is the last boundary that passed, is not accepted twice, and is not older than the
\* grace: whatever requests, retries and crashes come in between.
AcceptedDue ==
    [][Len(accepted') > Len(accepted) =>
        LET d == Last(accepted')
        IN /\ job.fire <= d /\ d <= run.now /\ run.now <= run.t + Grace /\ run.t = job.fire
           /\ d \notin ToSet(accepted)
           /\ CASE job.s.kind = "every" -> (d - job.fire) % job.s.n = 0 /\ d + job.s.n > run.now
                [] job.s.kind = "cron" ->
                      /\ d \in Occurrences(job.s.x, job.s.z)
                      /\ ~\E o \in Occurrences(job.s.x, job.s.z) : d < o /\ o <= run.now
                [] OTHER -> d = job.s.t]_cronvars

\* Every stored job has a live timer at its fire time.
JobHasTimer == job.on => timer[job.fire] \in {"delayed", "pending"} /\ job.fire \notin cancels

\* A stored job has a live timer unless a fire was given up after its last attempt, or
\* the job came (back) to a fire time whose workflow id had been used up or cancelled.
TimerStands == JobHasTimer \/ spent \/ tired

\* A timer is due, a workflow runs or a cancellation is queued.
CronUnfinished ==
    \/ run # NoRun \/ cancels # {}
    \/ \E t \in DOMAIN timer : timer[t] = "delayed" /\ t <= wall
=============================================================================
