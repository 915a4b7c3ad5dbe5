---------------------------- MODULE Conversation ----------------------------
(***************************************************************************)
(* One conversation of the server: the inbox of accepted messages, the     *)
(* turn runs, the message history, the tool receipts and the stop requests *)
(* kept in PostgreSQL; the DBOS workflows that execute the turns; and the  *)
(* request handlers that race with them.                                   *)
(*                                                                         *)
(* Every database transaction that takes the session's advisory lock is    *)
(* one action.  Two transactions of one handler are two actions, so other  *)
(* actors run between them.  A crash loses task and op and keeps the rest; *)
(* DBOS then re-executes pending workflows from their first step, and a    *)
(* step whose result was journaled returns it without running again.       *)
(*                                                                         *)
(* Turn ids stand for UUIDs: a fresh uuid4, uuid5(turn, "next") or         *)
(* uuid5(turn, "pending"); 0 is NULL.  A workflow id is the turn id it was *)
(* submitted under.  The tool calls of a response are numbered 1..n.       *)
(***************************************************************************)
EXTENDS Integers, Sequences, FiniteSets

CONSTANTS
  Msgs,          \* inbound messages, each sent at most once
  Guests,        \* the messages of allowed non-owners: profile message_only
  External,      \* TRUE for a Discord or DingTalk session, FALSE for web
  MaxTurns,      \* turn ids available to a behaviour
  MaxBatch,      \* most tool calls in one model response
  MaxToolTurns,  \* most responses that call tools
  MaxRequests,   \* model requests per workflow (200 in the code)
  MaxStops,      \* stop requests
  MaxCrashes,    \* process crashes
  MaxRevokes,    \* authority changes
  StepFaults     \* TRUE when preparation, the model and tools may fail

ASSUME ConversationAssumption ==
  /\ Guests \subseteq Msgs
  /\ External \in BOOLEAN
  /\ StepFaults \in BOOLEAN
  /\ MaxTurns \in Nat \ {0}
  /\ MaxBatch \in Nat
  /\ MaxToolTurns \in Nat
  /\ MaxRequests \in Nat \ {0}
  /\ MaxStops \in Nat
  /\ MaxCrashes \in Nat
  /\ MaxRevokes \in Nat

VARIABLES
  accepted,   \* every message accepted so far, in order (history variable)
  pending,    \* PendingMessage rows by received_at
  rows,       \* Message rows by created_at
  run,        \* TurnRun rows
  nrun,       \* number of TurnRun rows
  ops,        \* ToolOperation rows: <<turn, tool>>
  requests,   \* AgentRequest rows: <<turn, root workflow>>
  cancelReq,  \* Session.cancel_requested
  cancels,    \* WorkflowCancellation rows
  revoked,    \* messages whose sender authority is no longer current
  wf,         \* DBOS workflow_status
  queue,      \* workflows of the session's queue partition, by created_at
  jPrep,      \* journal of the prepare_turn steps, by workflow and turn
  jResp,      \* journal of the model request steps, by workflow and turn
  jTool,      \* tool steps journaled as an error: <<workflow, turn, tool>>
  jRes,       \* journal of the reserve_pending steps, by workflow and chain
  up,         \* the server process is running
  task,       \* the in-process execution of each workflow
  op,         \* the handler that holds session_operation
  execs,      \* times each tool call was issued (history variable)
  stops, crashes, revokes

sql == <<accepted, pending, rows, run, nrun, ops, requests, cancelReq, cancels, revoked>>
dbos == <<wf, queue, jPrep, jResp, jTool, jRes>>
bounds == <<stops, crashes, revokes>>
vars == <<sql, dbos, up, task, op, execs, bounds>>

-----------------------------------------------------------------------------
TurnId == 1..MaxTurns
Tool == 1..MaxBatch
Unasked == -2   \* the model request is not journaled
Refused == -1   \* it is journaled as an error
NotRun == -1    \* the reservation step is not journaled

NullRun == [status |-> "none", wf |-> 0, inputs |-> <<>>, from |-> <<0, "none">>,
            guest |-> FALSE, boot |-> 0]
IdleTask == [pc |-> "idle", chain |-> 0, turn |-> 0, held |-> TRUE, idx |-> 0, reqs |-> 0,
             waiter |-> "none", issued |-> FALSE, code |-> "ok", unk |-> {},
             can |-> {}, ret |-> "chain", lvl |-> 1]
IdleOp == [pc |-> "idle", turn |-> 0, wf |-> 0, todo |-> {}, unk |-> {}, can |-> {}]

\* An assistant row is told apart from another by the request it answers (by)
\* and its number of tool uses (n), a result row by the tool use it answers (n)
\* and its code (tag), an error row by its text (tag).
NoMsg == 0
Row(kind, t, m, n, tag, by) ==
  [kind |-> kind, turn |-> t, msg |-> m, n |-> n, tag |-> tag, by |-> by]
HumanRow(m) == Row("human", 0, m, 0, "none", 0)
AssistantRow(t, n, w) == Row("assistant", t, NoMsg, n, "none", w)
ResultRow(t, x, code) == Row("result", t, NoMsg, x, code, 0)
ErrorRow(t, text) == Row("error", t, NoMsg, 0, text, 0)
StopRow(t) == Row("stop", t, NoMsg, 0, "none", 0)

RowsOf(kind, t) == {i \in DOMAIN rows : rows[i].kind = kind /\ rows[i].turn = t}

\* A result row under the stable id uuid5(turn, "tool:x"); the rows that
\* repair_unpaired_tool_uses inserts have fresh ids and are not found by it.
Saved(t, x) == \E i \in RowsOf("result", t) : rows[i].n = x /\ rows[i].tag # "repaired"
SavedCode(t, x) == rows[CHOOSE i \in RowsOf("result", t) :
                          rows[i].n = x /\ rows[i].tag # "repaired"].tag

Running_of_this_process == {t \in TurnId : run[t].status = "running" /\ run[t].boot = crashes}
Running == {t \in TurnId : run[t].status = "running"}

-----------------------------------------------------------------------------
(***************************************************************************)
(* The pending queue: authority and profile decide which prefix of it one  *)
(* turn may take.                                                          *)
(***************************************************************************)
inbound_authority_is_current(m) == m \notin revoked

_prefix_of_any_profile(q, guest) ==
  LET fits(k) == \A i \in 1..k : inbound_authority_is_current(q[i])
  IN SubSeq(q, 1, Cardinality({k \in 1..Len(q) : fits(k)}))
_prefix_of_any_authority(q, guest) ==
  LET fits(k) == \A i \in 1..k : (q[i] \in Guests) = guest
  IN SubSeq(q, 1, Cardinality({k \in 1..Len(q) : fits(k)}))
_valid_contiguous_profile_prefix(q, guest) ==
  LET fits(k) == \A i \in 1..k : /\ (q[i] \in Guests) = guest
                                 /\ inbound_authority_is_current(q[i])
  IN SubSeq(q, 1, Cardinality({k \in 1..Len(q) : fits(k)}))

\* The rows in front of the first one whose authority is current.
StaleHead(q) ==
  Cardinality({k \in 1..Len(q) : \A i \in 1..k : ~inbound_authority_is_current(q[i])})

\* A new row; the process that creates it is told apart by its crash count.
TurnRow(status, w, inputs, from, guest) ==
  [status |-> status, wf |-> w, inputs |-> inputs, from |-> from, guest |-> guest,
   boot |-> crashes]

\* Each stale head row is promoted and answered with an error in a failed run.
_close_revoked_pending(q, k) ==
  [i \in 1..(2 * k) |-> IF i % 2 = 1 THEN HumanRow(q[(i + 1) \div 2])
                                     ELSE ErrorRow(nrun + (i \div 2), "closed")]
ClosedRuns(q, k) ==
  [t \in TurnId |->
     IF t \in (nrun + 1)..(nrun + k)
       THEN TurnRow("failed", 0, <<q[t - nrun]>>, <<0, "none">>, q[t - nrun] \in Guests)
       ELSE run[t]]

_create_turn(inputs, guest, w, from) == TurnRow("running", w, inputs, from, guest)

\* Close the stale head of q, then reserve the prefix behind it under a new
\* turn id.  The reserved rows stay pending until the turn promotes them.
CanReserve(q) == StaleHead(q) < Len(q)
_reserve_fresh_pending_locked(q, w, from) ==
  LET k == StaleHead(q)
      rest == SubSeq(q, k + 1, Len(q))
      guest == Head(rest) \in Guests
  IN /\ nrun + k + 1 <= MaxTurns
     /\ rows' = rows \o _close_revoked_pending(q, k)
     /\ pending' = rest
     /\ run' = [ClosedRuns(q, k) EXCEPT ![nrun + k + 1] =
                  _create_turn(_valid_contiguous_profile_prefix(rest, guest), guest, w, from)]
     /\ nrun' = nrun + k + 1

\* The same loop when no row is current: every row is closed, no turn starts.
CloseAll(q) ==
  /\ nrun + Len(q) <= MaxTurns
  /\ rows' = rows \o _close_revoked_pending(q, Len(q))
  /\ pending' = <<>>
  /\ run' = ClosedRuns(q, Len(q))
  /\ nrun' = nrun + Len(q)

\* Whether the reserved input of a turn still heads the queue.
InputsHeadPending_never(t) == FALSE
InputsHeadPending(t) ==
  /\ run[t].inputs # <<>>
  /\ Len(run[t].inputs) <= Len(pending)
  /\ SubSeq(pending, 1, Len(run[t].inputs)) = run[t].inputs

-----------------------------------------------------------------------------
(***************************************************************************)
(* The history as the provider will replay it.                             *)
(***************************************************************************)
LastAssistant ==
  {a \in DOMAIN rows : /\ rows[a].kind = "assistant"
                       /\ \A i \in (a + 1)..Len(rows) : rows[i].kind # "assistant"}

ResultsIn(a, b) == {rows[i].n : i \in {j \in a..b : rows[j].kind = "result"}}

\* Tool uses of the last assistant row that no result row answers.
_tail_missing_tool_uses ==
  UNION {(1..rows[a].n) \ ResultsIn(a + 1, Len(rows)) : a \in LastAssistant}

\* The scan that raises _invalid_history: a result row answers an open tool
\* use of the batch it stands in, once; any other row finds no tool use open.
ValidHistory ==
  \A i \in DOMAIN rows :
    LET before == {j \in 1..(i - 1) : rows[j].kind = "assistant"}
        a == CHOOSE j \in before : \A h \in before : h <= j
    IN IF rows[i].kind = "result"
         THEN /\ before # {}
              /\ \A j \in (a + 1)..(i - 1) : rows[j].kind = "result"
              /\ rows[i].n \in 1..rows[a].n
              /\ rows[i].n \notin ResultsIn(a + 1, i - 1)
         ELSE before # {} => 1..rows[a].n \subseteq ResultsIn(a + 1, i - 1)

\* The listing of a set of tool uses in their order (a set of one sequence).
InOrder(S) == {s \in [1..Cardinality(S) -> S] : \A i, j \in DOMAIN s : i < j => s[i] < s[j]}
ResultRows(t, s, code) == [i \in DOMAIN s |-> ResultRow(t, s[i], code)]

-----------------------------------------------------------------------------
(***************************************************************************)
(* cancel_tool_batch: pair the open tool uses, write the stop marker, end  *)
(* the turn and lower the session's flag.  A stop row already there makes  *)
(* it a no-op; a turn that is no longer running, or a result row inserted  *)
(* since the caller chose its lists (duplicate key), raises.               *)
(*                                                                         *)
(* _running_turn selects the row FOR UPDATE without populate_existing, so  *)
(* a caller whose ORM session already holds the run sees the status it     *)
(* read before the lock.  reconcile_cancellation is such a caller: it read *)
(* "running", and a turn that ended since does not stop it.                *)
(***************************************************************************)
AlreadyStopped(t) == RowsOf("stop", t) # {}
CancelConflicts(t, unk, can) == ~AlreadyStopped(t) /\ \E x \in unk \cup can : Saved(t, x)
CancelRaises(t, unk, can) ==
  \/ CancelConflicts(t, unk, can)
  \/ ~AlreadyStopped(t) /\ run[t].status # "running"

cancel_tool_batch(t, unk, can) ==
  IF AlreadyStopped(t)
  THEN UNCHANGED <<rows, run, cancelReq>>
  ELSE /\ \E u \in InOrder(unk), c \in InOrder(can) :
            rows' = rows \o ResultRows(t, u, "unknown") \o ResultRows(t, c, "cancelled")
                         \o <<StopRow(t)>>
       /\ run' = [run EXCEPT ![t].status = "cancelled"]
       /\ cancelReq' = FALSE

\* What reconcile_cancellation reads before it calls cancel_tool_batch.
RunOfWorkflow(w) == {t \in Running : run[t].wf = w}
OpenTools(t) ==
  {x \in Tool : /\ \E i \in RowsOf("assistant", t) : x <= rows[i].n
                /\ ~Saved(t, x)}
IntentTools(t) == {x \in OpenTools(t) : <<t, x>> \in ops}

\* persist_assistant(failed=True): idempotent on an error row of the same text.
ErrorRaises(t, text) ==
  IF RowsOf("error", t) # {}
  THEN \E i \in RowsOf("error", t) : rows[i].tag # text
  ELSE run[t].status # "running"
persist_error_keeps_flag(t, text) ==
  IF RowsOf("error", t) # {}
  THEN UNCHANGED <<rows, run, cancelReq>>
  ELSE /\ rows' = Append(rows, ErrorRow(t, text))
       /\ run' = [run EXCEPT ![t].status = "failed"]
       /\ UNCHANGED cancelReq
persist_error(t, text) ==
  IF RowsOf("error", t) # {}
  THEN UNCHANGED <<rows, run, cancelReq>>
  ELSE /\ rows' = Append(rows, ErrorRow(t, text))
       /\ run' = [run EXCEPT ![t].status = "failed"]
       /\ cancelReq' = FALSE

-----------------------------------------------------------------------------
(***************************************************************************)
(* Handlers.  op is the holder of session_operation(session_id).           *)
(***************************************************************************)

\* post_message and the channel ingress: publish_inbound_locked commits the
\* pending row and, when no turn runs, the reserved turn and its workflow.
publish_inbound(m) ==
  /\ up /\ op.pc = "idle"
  /\ \A i \in DOMAIN accepted : accepted[i] # m
  /\ inbound_authority_is_current(m)
  /\ accepted' = Append(accepted, m)
  /\ IF Running # {}
     THEN /\ pending' = Append(pending, m)
          /\ op' = [op EXCEPT !.pc = "recover"]
          /\ UNCHANGED <<rows, run, nrun, wf, queue>>
     ELSE LET q == Append(pending, m)
              t == nrun + StaleHead(q) + 1
          IN /\ _reserve_fresh_pending_locked(q, t, <<0, "none">>)
             /\ wf' = [wf EXCEPT ![t] = "enqueued"]
             /\ queue' = Append(queue, t)
             /\ UNCHANGED op
  /\ UNCHANGED <<ops, requests, cancelReq, cancels, revoked, jPrep, jResp, jTool, jRes,
                 up, task, execs, bounds>>

\* schedule for a queued message: recover_unstarted_turn looks for a turn of
\* this process whose input is not promoted yet.
recover_queued_turn ==
  /\ up /\ op.pc = "recover"
  /\ LET found == {t \in Running : run[t].boot = crashes /\ InputsHeadPending(t)}
     IN op' = IF found = {} THEN IdleOp
              ELSE [IdleOp EXCEPT !.pc = "submit", !.turn = CHOOSE t \in found : TRUE]
  /\ UNCHANGED <<sql, dbos, up, task, execs, bounds>>

\* DurableHost.submit: enqueue under the turn's id unless that id is taken.
submit ==
  /\ up /\ op.pc = "submit"
  /\ op' = IdleOp
  /\ IF wf[op.turn] = "none"
     THEN /\ wf' = [wf EXCEPT ![op.turn] = "enqueued"]
          /\ queue' = Append(queue, op.turn)
     ELSE UNCHANGED <<wf, queue>>
  /\ UNCHANGED <<sql, jPrep, jResp, jTool, jRes, up, task, execs, bounds>>

\* An Adapter came online: reserve the pending rows, then submit the turn.
recover_channel_pending ==
  /\ up /\ op.pc = "idle" /\ External
  /\ Running = {} /\ pending # <<>>
  /\ IF CanReserve(pending)
     THEN /\ _reserve_fresh_pending_locked(pending, 0, <<0, "none">>)
          /\ op' = [IdleOp EXCEPT !.pc = "submit", !.turn = nrun + StaleHead(pending) + 1]
     ELSE CloseAll(pending) /\ UNCHANGED op
  /\ UNCHANGED <<accepted, ops, requests, cancelReq, cancels, revoked, dbos,
                 up, task, execs, bounds>>

\* The binding was replaced or the sender left the allow list.
revoke(m) ==
  /\ External /\ revokes < MaxRevokes
  /\ m \notin revoked /\ \E i \in DOMAIN accepted : accepted[i] = m
  /\ revoked' = revoked \cup {m}
  /\ revokes' = revokes + 1
  /\ UNCHANGED <<accepted, pending, rows, run, nrun, ops, requests, cancelReq, cancels,
                 dbos, up, task, op, execs, stops, crashes>>

\* record_session_cancellation: the workflow of every run that has one.
SessionWorkflows == {run[t].wf : t \in 1..nrun} \ {0}

\* request_cancel: flag, cancellation records of every workflow the session
\* had, then the waiters of tools in flight.
request_cancel ==
  /\ up /\ op.pc = "idle" /\ stops < MaxStops
  /\ Running # {}
  /\ stops' = stops + 1
  /\ cancelReq' = TRUE
  /\ cancels' = cancels \cup SessionWorkflows
                        \cup {IF run[t].wf = 0 THEN t ELSE run[t].wf : t \in Running}
  /\ task' = [w \in TurnId |-> IF task[w].waiter = "armed"
                               THEN [task[w] EXCEPT !.waiter = "fired"] ELSE task[w]]
  /\ op' = [IdleOp EXCEPT !.pc = "apply", !.todo = cancels']
  /\ UNCHANGED <<accepted, pending, rows, run, nrun, ops, requests, revoked, dbos,
                 up, execs, crashes, revokes>>

DbosCancelled(w) == [wf EXCEPT ![w] = IF @ \in {"enqueued", "pending"} THEN "cancelled" ELSE @]

\* apply_cancellations: for each record, cancel the workflow in DBOS ...
apply_cancellation(w) ==
  /\ up /\ op.pc = "apply" /\ w \in op.todo
  /\ wf' = DbosCancelled(w)
  /\ op' = [op EXCEPT !.pc = "reconcile", !.wf = w, !.todo = @ \ {w}]
  /\ UNCHANGED <<sql, queue, jPrep, jResp, jTool, jRes, up, task, execs, bounds>>

apply_cancellations_done ==
  /\ up /\ op.pc = "apply" /\ op.todo = {}
  /\ op' = IdleOp
  /\ UNCHANGED <<sql, dbos, up, task, execs, bounds>>

\* ... look for its running turn and decide what to write for each open tool ...
reconcile_cancellation ==
  /\ up /\ op.pc = "reconcile"
  /\ IF RunOfWorkflow(op.wf) = {}
     THEN op' = [op EXCEPT !.pc = "apply", !.wf = 0]
     ELSE \E t \in RunOfWorkflow(op.wf) :
            op' = [op EXCEPT !.pc = "commit", !.turn = t, !.unk = IntentTools(t),
                             !.can = OpenTools(t) \ IntentTools(t)]
  /\ UNCHANGED <<sql, dbos, up, task, execs, bounds>>

\* ... and write it.  An exception leaves the remaining records unapplied.
reconcile_commit ==
  /\ up /\ op.pc = "commit"
  /\ IF CancelConflicts(op.turn, op.unk, op.can)
     THEN op' = IdleOp /\ UNCHANGED <<rows, run, cancelReq>>
     ELSE /\ cancel_tool_batch(op.turn, op.unk, op.can)
          /\ op' = [IdleOp EXCEPT !.pc = "apply", !.todo = op.todo]
  /\ UNCHANGED <<accepted, pending, nrun, ops, requests, cancels, revoked, dbos,
                 up, task, execs, bounds>>

-----------------------------------------------------------------------------
(***************************************************************************)
(* The DBOS queue (external): one partition per session, at most one of    *)
(* its workflows PENDING.  A cancelled workflow no longer counts, though   *)
(* its coroutine runs on to its next durable step.                         *)
(***************************************************************************)
Becomes(w, k) == task' = [task EXCEPT ![w] = k]
FreshTask(t) == [IdleTask EXCEPT !.pc = "prepare", !.chain = t, !.turn = t]

Enqueued == {i \in DOMAIN queue : wf[queue[i]] = "enqueued"}
start_workflow ==
  /\ up
  /\ \A v \in TurnId : wf[v] # "pending"
  /\ \E i \in Enqueued :
       /\ \A j \in Enqueued : i <= j
       /\ wf' = [wf EXCEPT ![queue[i]] = "pending"]
       /\ Becomes(queue[i], FreshTask(queue[i]))
  /\ UNCHANGED <<sql, queue, jPrep, jResp, jTool, jRes, up, op, execs, bounds>>

AtStep(w, pc) == up /\ task[w].pc = pc
Goto(w, pc) == Becomes(w, [task[w] EXCEPT !.pc = pc])

\* A durable step reads the status of its workflow before its body runs.
Body == [prepare |-> "capture", call |-> "asking", dispatch |-> "claim", reserve |-> "reserving"]

step_begins(w) ==
  /\ up /\ task[w].pc \in DOMAIN Body /\ wf[w] # "cancelled"
  /\ Goto(w, Body[task[w].pc])
  /\ UNCHANGED <<sql, dbos, up, op, execs, bounds>>

\* That read raises out of the run of a cancelled workflow.
dbos_abort(w) ==
  /\ up /\ task[w].pc \in DOMAIN Body \cup {"calling"} /\ wf[w] = "cancelled"
  /\ Becomes(w, IdleTask)
  /\ UNCHANGED <<sql, dbos, up, op, execs, bounds>>

-----------------------------------------------------------------------------
(***************************************************************************)
(* The workflow: preparing a turn.                                         *)
(***************************************************************************)

\* Replay of a journaled prepare_turn.
prepare_replay(w) ==
  /\ AtStep(w, "capture")
  /\ jPrep[w][task[w].turn] # "none"
  /\ Goto(w, IF jPrep[w][task[w].turn] = "ok" THEN "prepared" ELSE "preflight")
  /\ UNCHANGED <<sql, dbos, up, op, execs, bounds>>

PrepareFails(w) ==
  /\ jPrep' = [jPrep EXCEPT ![w][task[w].turn] = "err"]
  /\ Goto(w, "preflight")

\* initial_model, the context slot or the load of the turn fails.
prepare_fault(w) ==
  /\ StepFaults /\ (AtStep(w, "capture") \/ AtStep(w, "promote"))
  /\ jPrep[w][task[w].turn] = "none"
  /\ PrepareFails(w)
  /\ UNCHANGED <<sql, wf, queue, jResp, jTool, jRes, up, op, execs, bounds>>

\* An empty continuation takes the pending prefix of its own profile.
capture_pending_for_turn(w) ==
  LET t == task[w].turn
  IN /\ AtStep(w, "capture") /\ jPrep[w][t] = "none"
     /\ IF run[t].status # "running"
        THEN PrepareFails(w) /\ UNCHANGED run
        ELSE /\ Goto(w, "repair")
             /\ run' = IF run[t].inputs # <<>> THEN run
                       ELSE [run EXCEPT ![t].inputs =
                               _valid_contiguous_profile_prefix(pending, run[t].guest)]
             /\ UNCHANGED jPrep
     /\ UNCHANGED <<accepted, pending, rows, nrun, ops, requests, cancelReq, cancels,
                    revoked, wf, queue, jResp, jTool, jRes, up, op, execs, bounds>>

\* The rows it adds: a result for every open tool use, in the turn of its row.
RepairRows_none(t) == {<<>>}
RepairRows(t) ==
  LET of == IF LastAssistant = {} THEN t ELSE rows[CHOOSE a \in LastAssistant : TRUE].turn
  IN {ResultRows(of, s, "repaired") : s \in InOrder(_tail_missing_tool_uses)}

repair_unpaired_tool_uses(w) ==
  /\ AtStep(w, "repair")
  /\ IF ~ValidHistory
     THEN PrepareFails(w) /\ UNCHANGED rows
     ELSE /\ \E new \in RepairRows(task[w].turn) : rows' = rows \o new
          /\ Goto(w, "promote") /\ UNCHANGED jPrep
  /\ UNCHANGED <<accepted, pending, run, nrun, ops, requests, cancelReq, cancels, revoked,
                 wf, queue, jResp, jTool, jRes, up, op, execs, bounds>>

Promoted(t) == \A i \in DOMAIN run[t].inputs :
                 \E j \in DOMAIN rows : rows[j] = HumanRow(run[t].inputs[i])
PromoteRaises(t) ==
  \/ run[t].status # "running"
  \/ run[t].inputs # <<>> /\ ~InputsHeadPending(t) /\ ~Promoted(t)
promote_pending(t) ==
  LET q == run[t].inputs
  IN IF InputsHeadPending(t)
     THEN /\ rows' = rows \o [i \in DOMAIN q |-> HumanRow(q[i])]
          /\ pending' = SubSeq(pending, Len(q) + 1, Len(pending))
     ELSE UNCHANGED <<rows, pending>>

promote_pending_for_turn(w) ==
  LET t == task[w].turn
      waiting == \E i \in DOMAIN run[t].inputs, j \in DOMAIN pending : run[t].inputs[i] = pending[j]
  IN /\ AtStep(w, "promote")
     /\ IF IF waiting THEN PromoteRaises(t) ELSE ~Promoted(t)
        THEN PrepareFails(w) /\ UNCHANGED <<rows, pending>>
        ELSE promote_pending(t) /\ Goto(w, "journal") /\ UNCHANGED jPrep
     /\ UNCHANGED <<accepted, run, nrun, ops, requests, cancelReq, cancels, revoked,
                    wf, queue, jResp, jTool, jRes, up, op, execs, bounds>>

prepare_journal(w) ==
  /\ AtStep(w, "journal")
  /\ jPrep' = [jPrep EXCEPT ![w][task[w].turn] = "ok"]
  /\ Goto(w, "prepared")
  /\ UNCHANGED <<sql, wf, queue, jResp, jTool, jRes, up, op, execs, bounds>>

\* The stop flag is read once the input is promoted.
ToCancel(w, unk, can, ret) ==
  Becomes(w, [task[w] EXCEPT !.pc = "cancel", !.unk = unk, !.can = can, !.ret = ret,
                             !.waiter = "none", !.issued = FALSE])

prepared_check(w) ==
  /\ AtStep(w, "prepared")
  /\ IF cancelReq THEN ToCancel(w, {}, {}, "provider") ELSE Goto(w, "request")
  /\ UNCHANGED <<sql, dbos, up, op, execs, bounds>>

-----------------------------------------------------------------------------
(***************************************************************************)
(* The workflow: the model request.                                        *)
(***************************************************************************)

\* The last input of the chain's first turn carries the run's authority.
AuthorityRevoked(w) ==
  LET q == run[task[w].chain].inputs
  IN q # <<>> /\ ~inbound_authority_is_current(q[Len(q)])

check_authority(w) ==
  /\ AtStep(w, "request")
  /\ Goto(w, IF w \in cancels THEN "stopped"
             ELSE IF AuthorityRevoked(w) THEN "provider" ELSE "call")
  /\ UNCHANGED <<sql, dbos, up, op, execs, bounds>>

\* reserve_request and the model step; a journaled answer is replayed.
BudgetUsed(w) == Cardinality({r \in requests : r[2] = w})
reserve_request(w) ==
  LET t == task[w].turn
      known == \E v \in TurnId : <<t, v>> \in requests
  IN /\ AtStep(w, "asking")
     /\ IF ~known /\ BudgetUsed(w) >= MaxRequests
        THEN Goto(w, "limit") /\ UNCHANGED requests
        ELSE /\ requests' = IF known THEN requests ELSE requests \cup {<<t, w>>}
             /\ Goto(w, IF jResp[w][t] = Unasked THEN "calling"
                        ELSE IF jResp[w][t] = Refused THEN "refused" ELSE "persist")
     /\ UNCHANGED <<accepted, pending, rows, run, nrun, ops, cancelReq, cancels, revoked,
                    dbos, up, op, execs, bounds>>

ToolTurns == {p \in TurnId \X TurnId : jResp[p[1]][p[2]] > 0}

model_returns(w, n) ==
  /\ AtStep(w, "calling")
  /\ n > 0 => Cardinality(ToolTurns) < MaxToolTurns
  /\ n = Refused => StepFaults
  /\ jResp' = [jResp EXCEPT ![w][task[w].turn] = n]
  /\ Goto(w, IF n = Refused THEN "refused" ELSE "persist")
  /\ UNCHANGED <<sql, wf, queue, jPrep, jTool, jRes, up, op, execs, bounds>>

\* persist_assistant: a row already there must be this very response.
AnswerSaved(t) == RowsOf("assistant", t) # {}

persist_assistant(w) ==
  LET t == task[w].turn
      n == jResp[w][t]
      found == AnswerSaved(t)
      raises == IF found THEN \E i \in RowsOf("assistant", t) : rows[i] # AssistantRow(t, n, w)
                ELSE run[t].status # "running"
  IN /\ AtStep(w, "persist")
     /\ IF raises
        THEN Goto(w, "provider") /\ UNCHANGED rows
        ELSE /\ rows' = IF found THEN rows ELSE Append(rows, AssistantRow(t, n, w))
             /\ Becomes(w, [task[w] EXCEPT !.pc = IF n = 0 THEN "final" ELSE "tool", !.idx = 1,
                                           !.reqs = @ + 1])
     /\ UNCHANGED <<accepted, pending, run, nrun, ops, requests, cancelReq, cancels, revoked,
                    dbos, up, op, execs, bounds>>

-----------------------------------------------------------------------------
(***************************************************************************)
(* The workflow: the tool batch, one call after the other.                 *)
(***************************************************************************)

\* The batch is over when every call of the response was run.
BatchDone(w) == task[w].idx > jResp[w][task[w].turn]

\* before_tool_execute: a denied call, like one the model got wrong, is
\* answered with an error and never dispatched.
before_tool_execute(w) ==
  LET t == task[w].turn
      x == task[w].idx
  IN /\ AtStep(w, "tool")
     /\ IF BatchDone(w) THEN Goto(w, "boundary")
        ELSE IF w \in cancels THEN Goto(w, "stopped")
        ELSE IF AuthorityRevoked(w)
        THEN Becomes(w, [task[w] EXCEPT !.pc = "save", !.code = "failed"])
        ELSE \/ Goto(w, "dispatch")
             \/ /\ StepFaults /\ ~Saved(t, x) /\ <<t, x>> \notin ops
                /\ Becomes(w, [task[w] EXCEPT !.pc = "save", !.code = "failed"])
     /\ UNCHANGED <<sql, dbos, up, op, execs, bounds>>

Claimed_forgotten(t, x) == FALSE
Claimed(t, x) == <<t, x>> \in ops

\* claim_tool commits the intent before anything can be dispatched.  The call
\* is a durable step: a journaled exception is raised again, and a journaled
\* result is the row already saved.
claim_tool(w) ==
  LET t == task[w].turn
      x == task[w].idx
  IN /\ AtStep(w, "claim")
     /\ IF <<w, t, x>> \in jTool THEN Goto(w, "chain") /\ UNCHANGED ops
        ELSE IF Saved(t, x)
        THEN /\ Becomes(w, [task[w] EXCEPT !.pc = "tool", !.idx = @ + 1])
             /\ UNCHANGED ops
        ELSE IF Claimed(t, x)
        THEN /\ Becomes(w, [task[w] EXCEPT !.pc = "save", !.code = "unknown"])
             /\ UNCHANGED ops
        ELSE Goto(w, "claimed") /\ ops' = ops \cup {<<t, x>>}
     /\ UNCHANGED <<accepted, pending, rows, run, nrun, requests, cancelReq, cancels, revoked,
                    dbos, up, op, execs, bounds>>

register_cancel_waiter(w) ==
  /\ AtStep(w, "claimed")
  /\ Becomes(w, [task[w] EXCEPT !.pc = "armed", !.waiter = "armed"])
  /\ UNCHANGED <<sql, dbos, up, op, execs, bounds>>

RestOfBatch(w) == task[w].idx..jResp[w][task[w].turn]

launch_tool(w) ==
  /\ AtStep(w, "armed")
  /\ IF cancelReq \/ task[w].waiter = "fired"
     THEN ToCancel(w, {}, RestOfBatch(w), "chain")
     ELSE Goto(w, "running")
  /\ UNCHANGED <<sql, dbos, up, op, execs, bounds>>

\* on_issued: from here on the call may have had its effect.
issue_tool(w) ==
  /\ AtStep(w, "running") /\ ~task[w].issued
  /\ Becomes(w, [task[w] EXCEPT !.issued = TRUE])
  /\ execs' = [execs EXCEPT ![task[w].turn][task[w].idx] = @ + 1]
  /\ UNCHANGED <<sql, dbos, up, op, bounds>>

tool_returns(w) ==
  /\ AtStep(w, "running")
  /\ ~task[w].issued => StepFaults
  /\ Becomes(w, [task[w] EXCEPT !.pc = "save", !.waiter = "none", !.issued = FALSE,
                                !.code = IF task[w].issued THEN "ok" ELSE "failed"])
  /\ UNCHANGED <<sql, dbos, up, op, execs, bounds>>

tool_raises(w) ==
  /\ AtStep(w, "running") /\ StepFaults
  /\ Becomes(w, [task[w] EXCEPT !.pc = "chain", !.waiter = "none", !.issued = FALSE])
  /\ jTool' = jTool \cup {<<w, task[w].turn, task[w].idx>>}
  /\ UNCHANGED <<sql, wf, queue, jPrep, jResp, jRes, up, op, execs, bounds>>

\* The stop waiter fires first and the tool task ends cancelled.
stop_tool(w) ==
  LET x == task[w].idx
      unk == IF task[w].issued THEN {x} ELSE {}
  IN /\ AtStep(w, "running") /\ task[w].waiter = "fired"
     /\ ToCancel(w, unk, RestOfBatch(w) \ unk, "chain")
     /\ UNCHANGED <<sql, dbos, up, op, execs, bounds>>

persist_tool_result(w) ==
  LET t == task[w].turn
      x == task[w].idx
      code == task[w].code
  IN /\ AtStep(w, "save")
     /\ IF Saved(t, x) /\ SavedCode(t, x) = code
        THEN /\ Becomes(w, [task[w] EXCEPT !.pc = "tool", !.idx = @ + 1, !.code = "ok"])
             /\ UNCHANGED <<rows, jTool>>
        ELSE IF Saved(t, x) \/ run[t].status # "running"
        THEN /\ Becomes(w, [task[w] EXCEPT !.pc = "chain", !.code = "ok"])
             /\ jTool' = jTool \cup {<<w, t, x>>}
             /\ UNCHANGED rows
        ELSE /\ rows' = Append(rows, ResultRow(t, x, code))
             /\ Becomes(w, [task[w] EXCEPT !.pc = "tool", !.idx = @ + 1, !.code = "ok"])
             /\ UNCHANGED jTool
     /\ UNCHANGED <<accepted, pending, run, nrun, ops, requests, cancelReq, cancels, revoked,
                    wf, queue, jPrep, jResp, jRes, up, op, execs, bounds>>

-----------------------------------------------------------------------------
(***************************************************************************)
(* The workflow: the safe boundary, the next turn, the final answer.       *)
(***************************************************************************)
batch_boundary(w) ==
  /\ AtStep(w, "boundary")
  /\ IF cancelReq THEN ToCancel(w, {}, {}, "chain")
     ELSE Goto(w, IF task[w].reqs >= MaxRequests THEN "limit" ELSE "continue")
  /\ UNCHANGED <<sql, dbos, up, op, execs, bounds>>

NextOf(t) == {u \in TurnId : run[u].from = <<t, "next">>}

finish_tool_batch_and_continue(w) ==
  LET t == task[w].turn
      u == IF NextOf(t) # {} THEN CHOOSE v \in NextOf(t) : TRUE ELSE nrun + 1
  IN /\ AtStep(w, "continue")
     /\ IF NextOf(t) = {} /\ run[t].status # "running"
        THEN Goto(w, "chain") /\ UNCHANGED <<run, nrun>>
        ELSE /\ u <= MaxTurns
             /\ IF NextOf(t) # {} THEN UNCHANGED <<run, nrun>>
                ELSE /\ nrun' = nrun + 1
                     /\ run' = [run EXCEPT
                          ![t].status = "completed",
                          ![u] = _create_turn(
                                   _valid_contiguous_profile_prefix(pending, run[t].guest),
                                   run[t].guest, run[t].wf, <<t, "next">>)]
             /\ Becomes(w, [task[w] EXCEPT !.pc = "prepare", !.turn = u, !.idx = 0,
                                           !.held = run'[u].inputs # <<>>])
     /\ UNCHANGED <<accepted, pending, rows, ops, requests, cancelReq, cancels, revoked,
                    dbos, up, op, execs, bounds>>

finish_final_turn(w) ==
  LET t == task[w].turn
  IN /\ AtStep(w, "final")
     /\ IF run[t].status = "completed"
        THEN Goto(w, "reserve") /\ UNCHANGED <<run, cancelReq>>
        ELSE IF run[t].status # "running"
        THEN Goto(w, "chain") /\ UNCHANGED <<run, cancelReq>>
        ELSE /\ run' = [run EXCEPT ![t].status = "completed"]
             /\ cancelReq' = FALSE
             /\ Goto(w, "reserve")
     /\ UNCHANGED <<accepted, pending, rows, nrun, ops, requests, cancels, revoked,
                    dbos, up, op, execs, bounds>>

-----------------------------------------------------------------------------
(***************************************************************************)
(* The workflow: stopping and failing.                                     *)
(***************************************************************************)
Settle(w, pc) == Becomes(w, [task[w] EXCEPT !.pc = pc, !.unk = {}, !.can = {}, !.ret = "chain"])

\* _cancel_turn, then AgentStoppedError.
cancel_turn(w) ==
  LET k == task[w]
  IN /\ AtStep(w, "cancel")
     /\ IF CancelRaises(k.turn, k.unk, k.can)
        THEN Settle(w, k.ret) /\ UNCHANGED <<rows, run, cancelReq>>
        ELSE cancel_tool_batch(k.turn, k.unk, k.can) /\ Settle(w, "stopped")
     /\ UNCHANGED <<accepted, pending, nrun, ops, requests, cancels, revoked,
                    dbos, up, op, execs, bounds>>

\* The AgentStoppedError handler reconciles once more, under its workflow id.
agent_stopped(w) ==
  /\ AtStep(w, "stopped")
  /\ IF RunOfWorkflow(w) = {} THEN Goto(w, "reserve")
     ELSE \E t \in RunOfWorkflow(w) :
            Becomes(w, [task[w] EXCEPT !.pc = "stopcommit", !.turn = t, !.unk = IntentTools(t),
                                       !.can = OpenTools(t) \ IntentTools(t)])
  /\ UNCHANGED <<sql, dbos, up, op, execs, bounds>>

agent_stopped_commit(w) ==
  LET k == task[w]
  IN /\ AtStep(w, "stopcommit")
     /\ IF CancelConflicts(k.turn, k.unk, k.can)
        THEN /\ Becomes(w, [task[w] EXCEPT !.pc = "chain", !.lvl = 2, !.unk = {}, !.can = {}])
             /\ UNCHANGED <<rows, run, cancelReq>>
        ELSE cancel_tool_batch(k.turn, k.unk, k.can) /\ Settle(w, "reserve")
     /\ UNCHANGED <<accepted, pending, nrun, ops, requests, cancels, revoked,
                    dbos, up, op, execs, bounds>>

\* _fail_preflight promotes the input the run holds (not one captured by the
\* step that failed) if it can, then fails the turn.
fail_preflight(w) ==
  LET t == task[w].turn
  IN /\ AtStep(w, "preflight")
     /\ IF PromoteRaises(t) \/ ~task[w].held
        THEN UNCHANGED <<rows, pending>> ELSE promote_pending(t)
     /\ Goto(w, "provider")
     /\ UNCHANGED <<accepted, run, nrun, ops, requests, cancelReq, cancels, revoked,
                    dbos, up, op, execs, bounds>>

\* _fail_provider, with the text of a rejected request or the generic one.
fail_provider(w) ==
  LET text == IF task[w].pc = "refused" THEN "rejected" ELSE "generic"
  IN /\ AtStep(w, "provider") \/ AtStep(w, "refused")
     /\ IF ErrorRaises(task[w].turn, text)
        THEN Goto(w, "chain") /\ UNCHANGED <<rows, run, cancelReq>>
        ELSE persist_error(task[w].turn, text) /\ Goto(w, "reserve")
     /\ UNCHANGED <<accepted, pending, nrun, ops, requests, cancels, revoked,
                    dbos, up, op, execs, bounds>>

\* _fail_iteration_limit, reached from the budget and from the boundary.
fail_iteration_limit(w) ==
  /\ AtStep(w, "limit")
  /\ IF ErrorRaises(task[w].turn, "limit")
     THEN Goto(w, "chain") /\ UNCHANGED <<rows, run, cancelReq>>
     ELSE persist_error(task[w].turn, "limit") /\ Goto(w, "reserve")
  /\ UNCHANGED <<accepted, pending, nrun, ops, requests, cancels, revoked,
                 dbos, up, op, execs, bounds>>

\* _fail_unexpected_chain: whatever turn of the session is running, repair
\* the history and fail that turn.
fail_unexpected_chain(w) ==
  /\ AtStep(w, "chain")
  /\ IF Running = {} THEN Becomes(w, [task[w] EXCEPT !.pc = "reserve", !.lvl = 1])
     ELSE \E t \in Running : Becomes(w, [task[w] EXCEPT !.pc = "chainrepair", !.turn = t])
  /\ UNCHANGED <<sql, dbos, up, op, execs, bounds>>

\* An exception there reaches _run_session, which tries once more; the next
\* one ends the workflow in error.
ChainRaises(w) ==
  IF task[w].lvl = 1
  THEN Becomes(w, [task[w] EXCEPT !.pc = "chain", !.lvl = 2]) /\ UNCHANGED wf
  ELSE Becomes(w, IdleTask)
       /\ wf' = [wf EXCEPT ![w] = IF @ = "pending" THEN "error" ELSE @]

chain_repair(w) ==
  /\ AtStep(w, "chainrepair")
  /\ IF ~ValidHistory
     THEN ChainRaises(w) /\ UNCHANGED rows
     ELSE /\ \E new \in RepairRows(task[w].turn) : rows' = rows \o new
          /\ Goto(w, "chainfail") /\ UNCHANGED wf
  /\ UNCHANGED <<accepted, pending, run, nrun, ops, requests, cancelReq, cancels, revoked,
                 queue, jPrep, jResp, jTool, jRes, up, op, execs, bounds>>

chain_fail(w) ==
  /\ AtStep(w, "chainfail")
  /\ IF ErrorRaises(task[w].turn, "generic")
     THEN ChainRaises(w) /\ UNCHANGED <<rows, run, cancelReq>>
     ELSE /\ persist_error(task[w].turn, "generic")
          /\ Becomes(w, [task[w] EXCEPT !.pc = "reserve", !.lvl = 1])
          /\ UNCHANGED wf
  /\ UNCHANGED <<accepted, pending, nrun, ops, requests, cancels, revoked,
                 queue, jPrep, jResp, jTool, jRes, up, op, execs, bounds>>

-----------------------------------------------------------------------------
(***************************************************************************)
(* The workflow: reserve_pending between two chains.  Its reservation and  *)
(* the link of the new run to the workflow are two commits.                *)
(***************************************************************************)
Done(w, status) ==
  /\ Becomes(w, IdleTask)
  /\ wf' = [wf EXCEPT ![w] = status]

reserve_replay(w) ==
  LET c == task[w].chain
  IN /\ AtStep(w, "reserving") /\ jRes[w][c] # NotRun
     /\ IF jRes[w][c] = 0 THEN Done(w, "success")
        ELSE Becomes(w, FreshTask(jRes[w][c])) /\ UNCHANGED wf
     /\ UNCHANGED <<sql, queue, jPrep, jResp, jTool, jRes, up, op, execs, bounds>>

PendOf(c) == {u \in TurnId : run[u].from = <<c, "pending">>}

\* The reservation step finds nothing to do and the workflow ends.
reserve_nothing(w) ==
  LET c == task[w].chain
      mine == {t \in Running \cap PendOf(c) : InputsHeadPending(t)}
  IN /\ AtStep(w, "reserving") /\ jRes[w][c] = NotRun
     /\ \/ Running # {} /\ mine = {} /\ UNCHANGED <<rows, pending, run, nrun>>
        \/ Running = {} /\ ~CanReserve(pending) /\ CloseAll(pending)
     /\ jRes' = [jRes EXCEPT ![w][c] = 0]
     /\ Done(w, "success")
     /\ UNCHANGED <<accepted, ops, requests, cancelReq, cancels, revoked,
                    queue, jPrep, jResp, jTool, up, op, execs, bounds>>

\* It reserves a turn, or finds the one it reserved before a crash.
reserve_pending_turn(w) ==
  LET c == task[w].chain
      mine == {t \in Running \cap PendOf(c) : InputsHeadPending(t)}
      new == nrun + StaleHead(pending) + 1
  IN /\ AtStep(w, "reserving") /\ jRes[w][c] = NotRun
     /\ \/ /\ mine # {}
           /\ Becomes(w, [task[w] EXCEPT !.pc = "link", !.turn = CHOOSE t \in mine : TRUE])
           /\ UNCHANGED <<rows, pending, run, nrun>>
        \/ /\ Running = {} /\ CanReserve(pending) /\ PendOf(c) = {}
           /\ _reserve_fresh_pending_locked(pending, 0, <<c, "pending">>)
           /\ Becomes(w, [task[w] EXCEPT !.pc = "link", !.turn = new])
     /\ UNCHANGED <<accepted, ops, requests, cancelReq, cancels, revoked, dbos,
                    up, op, execs, bounds>>

\* The reservation id is taken by a turn that has ended: duplicate key, three
\* attempts, then the workflow fails.
reserve_conflict(w) ==
  /\ AtStep(w, "reserving") /\ jRes[w][task[w].chain] = NotRun
  /\ Running = {} /\ CanReserve(pending) /\ PendOf(task[w].chain) # {}
  /\ Done(w, "error")
  /\ UNCHANGED <<sql, queue, jPrep, jResp, jTool, jRes, up, op, execs, bounds>>

reserve_link(w) ==
  LET k == task[w]
  IN /\ AtStep(w, "link")
     /\ run' = [run EXCEPT ![k.turn].wf = w]
     /\ jRes' = [jRes EXCEPT ![w][k.chain] = k.turn]
     /\ Becomes(w, FreshTask(k.turn))
     /\ UNCHANGED <<accepted, pending, rows, nrun, ops, requests, cancelReq, cancels, revoked,
                    wf, queue, jPrep, jResp, jTool, up, op, execs, bounds>>

-----------------------------------------------------------------------------
(***************************************************************************)
(* Crash and restart.                                                      *)
(***************************************************************************)
crash ==
  /\ up /\ crashes < MaxCrashes
  /\ up' = FALSE
  /\ crashes' = crashes + 1
  /\ task' = [w \in TurnId |-> IdleTask]
  /\ op' = IdleOp
  /\ UNCHANGED <<sql, dbos, execs, stops, revokes>>

\* DurableHost._start: apply the recorded cancellations, then launch DBOS,
\* which recovers every workflow still PENDING.
restart ==
  /\ ~up
  /\ up' = TRUE
  /\ LET kept == {w \in TurnId : wf[w] = "pending" /\ w \notin cancels}
     IN /\ wf' = [w \in TurnId |-> IF w \in cancels /\ wf[w] \in {"enqueued", "pending"}
                                   THEN "cancelled" ELSE wf[w]]
        /\ task' = [w \in TurnId |-> IF w \in kept THEN FreshTask(w) ELSE IdleTask]
  /\ LET hit == {t \in Running : run[t].wf \in cancels}
     IN IF hit = {} THEN UNCHANGED <<rows, run, cancelReq>>
        ELSE \E t \in hit : cancel_tool_batch(t, IntentTools(t), OpenTools(t) \ IntentTools(t))
  /\ op' = IF External THEN [IdleOp EXCEPT !.pc = "startup"] ELSE IdleOp
  /\ UNCHANGED <<accepted, pending, nrun, ops, requests, cancels, revoked,
                 queue, jPrep, jResp, jTool, jRes, execs, bounds>>

\* Before the Adapters start, close_obsolete_channel_pending closes the stale
\* head of an idle session.
close_obsolete_channel_pending ==
  /\ up /\ op.pc = "startup"
  /\ op' = IdleOp
  /\ LET k == StaleHead(pending)
     IN IF Running # {} THEN UNCHANGED <<rows, pending, run, nrun>>
        ELSE /\ nrun + k <= MaxTurns
             /\ rows' = rows \o _close_revoked_pending(pending, k)
             /\ pending' = SubSeq(pending, k + 1, Len(pending))
             /\ run' = ClosedRuns(pending, k)
             /\ nrun' = nrun + k
  /\ UNCHANGED <<accepted, ops, requests, cancelReq, cancels, revoked, dbos,
                 up, task, execs, bounds>>

-----------------------------------------------------------------------------
Init ==
  /\ accepted = <<>> /\ pending = <<>> /\ rows = <<>>
  /\ run = [t \in TurnId |-> NullRun] /\ nrun = 0
  /\ ops = {} /\ requests = {} /\ cancelReq = FALSE /\ cancels = {} /\ revoked = {}
  /\ wf = [w \in TurnId |-> "none"] /\ queue = <<>>
  /\ jPrep = [w \in TurnId |-> [t \in TurnId |-> "none"]]
  /\ jResp = [w \in TurnId |-> [t \in TurnId |-> Unasked]] /\ jTool = {}
  /\ jRes = [w \in TurnId |-> [t \in TurnId |-> NotRun]]
  /\ up = TRUE
  /\ task = [w \in TurnId |-> IdleTask]
  /\ op = IdleOp
  /\ execs = [t \in TurnId |-> [x \in Tool |-> 0]]
  /\ stops = 0 /\ crashes = 0 /\ revokes = 0

Handler ==
  \/ recover_queued_turn \/ submit
  \/ apply_cancellations_done \/ reconcile_cancellation \/ reconcile_commit
  \/ close_obsolete_channel_pending
  \/ \E w \in TurnId : apply_cancellation(w)

Workflow(w) ==
  \/ step_begins(w) \/ dbos_abort(w)
  \/ prepare_replay(w) \/ capture_pending_for_turn(w) \/ repair_unpaired_tool_uses(w)
  \/ promote_pending_for_turn(w) \/ prepare_journal(w) \/ prepared_check(w)
  \/ check_authority(w) \/ reserve_request(w) \/ persist_assistant(w)
  \/ \E n \in Refused..MaxBatch : model_returns(w, n)
  \/ before_tool_execute(w) \/ claim_tool(w) \/ register_cancel_waiter(w) \/ launch_tool(w)
  \/ issue_tool(w) \/ tool_returns(w) \/ stop_tool(w) \/ persist_tool_result(w)
  \/ batch_boundary(w) \/ finish_tool_batch_and_continue(w) \/ finish_final_turn(w)
  \/ cancel_turn(w) \/ agent_stopped(w) \/ agent_stopped_commit(w)
  \/ fail_preflight(w) \/ fail_provider(w) \/ fail_iteration_limit(w)
  \/ fail_unexpected_chain(w) \/ chain_repair(w) \/ chain_fail(w)
  \/ reserve_replay(w) \/ reserve_nothing(w) \/ reserve_pending_turn(w)
  \/ reserve_conflict(w) \/ reserve_link(w)

Fault(w) == prepare_fault(w) \/ tool_raises(w)

Next ==
  \/ \E m \in Msgs : publish_inbound(m) \/ revoke(m)
  \/ request_cancel \/ recover_channel_pending
  \/ Handler
  \/ start_workflow
  \/ \E w \in TurnId : Workflow(w) \/ Fault(w)
  \/ crash \/ restart

Spec == Init /\ [][Next]_vars

\* The event loop runs every handler and every workflow that can move, the
\* model and the tools answer, and a crashed server is restarted.
Fairness ==
  /\ WF_vars(Handler)
  /\ WF_vars(start_workflow)
  /\ WF_vars(restart)
  /\ \A w \in TurnId : WF_vars(Workflow(w))

FairSpec == Spec /\ Fairness
-----------------------------------------------------------------------------
RunStatus == {"none", "running", "completed", "failed", "cancelled"}
WfStatus == {"none", "enqueued", "pending", "success", "error", "cancelled"}
Codes == {"ok", "failed", "unknown", "cancelled", "repaired"}
TaskPcs ==
  {"idle", "prepare", "capture", "repair", "promote", "journal", "prepared", "request",
   "call", "asking", "calling", "persist", "tool", "dispatch", "claim", "claimed", "armed",
   "running", "save", "boundary", "continue", "final", "cancel", "stopped", "stopcommit",
   "preflight", "provider", "refused", "limit", "chain", "chainrepair", "chainfail",
   "reserve", "reserving", "link"}
OpPcs == {"idle", "recover", "submit", "apply", "reconcile", "commit", "startup"}
RunOrNull == 0..MaxTurns
Tags == Codes \cup {"none", "generic", "rejected", "limit", "closed"}

InboxType == accepted \in Seq(Msgs) /\ pending \in Seq(Msgs)
RowRec ==
  [kind : {"human", "assistant", "result", "error", "stop"}, turn : RunOrNull,
   msg : Msgs \cup {NoMsg}, n : Nat, tag : Tags, by : RunOrNull]
RowType == rows \in Seq(RowRec)
RunRec ==
  [status : RunStatus, wf : RunOrNull, inputs : Seq(Msgs),
   from : RunOrNull \X {"none", "next", "pending"}, guest : BOOLEAN, boot : Nat]
RunType == run \in [TurnId -> RunRec] /\ nrun \in RunOrNull
ReceiptType == ops \subseteq TurnId \X Tool /\ requests \subseteq TurnId \X TurnId
StopType == cancelReq \in BOOLEAN /\ cancels \subseteq TurnId /\ revoked \subseteq Msgs
WfType == wf \in [TurnId -> WfStatus] /\ queue \in Seq(TurnId)
JournalType ==
  /\ jPrep \in [TurnId -> [TurnId -> {"none", "ok", "err"}]]
  /\ jResp \in [TurnId -> [TurnId -> Unasked..MaxBatch]]
  /\ jTool \subseteq TurnId \X TurnId \X Tool
  /\ jRes \in [TurnId -> [TurnId -> NotRun..MaxTurns]]
TaskRec ==
  [pc : TaskPcs, chain : RunOrNull, turn : RunOrNull, held : BOOLEAN, idx : Nat, reqs : Nat,
   waiter : {"none", "armed", "fired"}, issued : BOOLEAN, code : Codes, unk : SUBSET Tool,
   can : SUBSET Tool, ret : {"provider", "chain"}, lvl : {1, 2}]
TaskType == task \in [TurnId -> TaskRec]
OpRec == [pc : OpPcs, turn : RunOrNull, wf : RunOrNull, todo : SUBSET TurnId,
          unk : SUBSET Tool, can : SUBSET Tool]
OpType ==
  /\ op \in OpRec
  /\ op.pc = "submit" => op.turn \in TurnId
CountType ==
  /\ up \in BOOLEAN /\ execs \in [TurnId -> [Tool -> Nat]]
  /\ stops \in Nat /\ crashes \in Nat /\ revokes \in Nat

\* A workflow in execution has a chain and a turn, and the call it runs is one
\* of the response it replays.
ToolPcs == {"dispatch", "claim", "claimed", "armed", "running", "save"}
Bound(w, k) ==
  /\ k.pc # "idle" => k.turn \in TurnId /\ k.chain \in TurnId
  /\ k.pc = "tool" => k.idx >= 1
  /\ k.pc = "persist" => jResp[w][k.turn] >= 0
  /\ k.pc \in ToolPcs => k.idx \in 1..jResp[w][k.turn]
TaskBound == \A w \in TurnId : Bound(w, task[w])

\* Every variable keeps its type; among it, a cancellation record, a queue
\* entry and a submission always name a workflow (record_session_cancellation
\* skips NULL), and a tool in flight is a call of the journaled response.
TypeOK ==
  /\ InboxType /\ RowType /\ RunType /\ ReceiptType /\ StopType /\ WfType
  /\ JournalType /\ TaskType /\ OpType /\ CountType /\ TaskBound

\* At most one turn of the session runs, whoever reserves it: an inbound
\* message, a channel recovery, the end of a tool batch or the drain loop.  The
\* partial unique index on turn_runs would otherwise raise.
OneRunningTurn ==
  \A t, u \in TurnId : run[t].status = "running" /\ run[u].status = "running" => t = u

Idle == \A t \in TurnId : run[t].status # "running"

\* An idle session never keeps a raised stop flag, whichever of the final
\* answer, an error, the stop itself or a restart ended the turn.
StopFlagNeedsTurn == cancelReq => ~Idle

Humans == LET hs == SelectSeq(rows, LAMBDA r : r.kind = "human")
          IN [i \in DOMAIN hs |-> hs[i].msg]

\* Every accepted message is in the history or in the queue, exactly once and
\* in the order of acceptance: promotion, closing and replay neither lose,
\* duplicate nor overtake one.
InboxExactlyOnce == Humans \o pending = accepted

\* A tool call is issued at most once, across replays after a crash, duplicate
\* workflows and stops: claim_tool's receipt stands between.
ToolAtMostOnce == \A t \in TurnId, x \in Tool : execs[t][x] <= 1

\* The stored history never makes repair_unpaired_tool_uses raise
\* _invalid_history, after which no later turn could be prepared.
HistoryReplayable == ValidHistory

Paired(t) == \A i \in RowsOf("assistant", t) : \A x \in 1..rows[i].n : Saved(t, x)

\* A turn completes only after every tool call of its response has its result
\* under its stable id, also when a crash interrupted the batch.
CompletedIsPaired == \A t \in TurnId : run[t].status = "completed" => Paired(t)

\* The history holds what was accepted and can be replayed: every message once and in
\* order, every tool call of a completed turn with its result, whatever failed.
HistorySound == InboxExactlyOnce /\ HistoryReplayable /\ CompletedIsPaired

\* A stopped turn leaves every tool call of its response answered: "Every
\* persisted assistant tool-use batch remains fully paired" (ADR-129).
CancelledIsPaired == \A t \in TurnId : run[t].status = "cancelled" => Paired(t)

\* The turn that reserves an inbound prefix takes no message whose sender or
\* binding lost its authority before the reservation.
ReservedInputsAuthorized ==
  [][\A t \in TurnId : run[t].status = "none" /\ run'[t].status = "running" =>
       \A i \in DOMAIN run'[t].inputs : run'[t].inputs[i] \notin revoked]_vars

\* A turn never mixes the owner's messages with a guest's: the profile chosen
\* for the chain holds for every message a continuation captures on the way.
GuestIsolation ==
  \A t \in TurnId : \A i \in DOMAIN run[t].inputs : (run[t].inputs[i] \in Guests) = run[t].guest

\* Every accepted message is eventually taken out of the queue and the session
\* comes to rest, across crashes and replays: no wakeup is lost between the end
\* of one turn and the message that arrived meanwhile.
EveryMessageSettles ==
  \A m \in Msgs : (\E i \in DOMAIN accepted : accepted[i] = m) ~>
                  (Idle /\ \A i \in DOMAIN pending : pending[i] # m)
=============================================================================
