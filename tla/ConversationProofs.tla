-------------------------- MODULE ConversationProofs --------------------------
(*****************************************************************************)
(* Theorems about one conversation, for every set of messages and every      *)
(* number of turns, tool calls, stops, crashes and authority changes.        *)
(*****************************************************************************)
EXTENDS ConversationTurn

-----------------------------------------------------------------------------
(***************************************************************************)
(* Handlers, crash and restart.                                            *)
(***************************************************************************)
\* A step that leaves the tasks and the journaled responses alone.
LEMMA TasksKept ==
  ASSUME TypeOK, UNCHANGED <<task, jResp>>
  PROVE  /\ TaskType' /\ TaskBound'
         /\ \A v \in TurnId : HoldsOn(task[v], task'[v])
<1>1. TaskType' /\ \A v \in TurnId : HoldsOn(task[v], task'[v])
  BY DEF TypeOK, TaskType, HoldsOn
<1>2. ASSUME NEW v \in TurnId PROVE Bound(v, task[v])'
  BY DEF TypeOK, TaskBound, Bound
<1> QED BY <1>1, <1>2 DEF TaskBound

\* A step of the operation's holder alone.
LEMMA OpOnly ==
  ASSUME TypeOK, OpType', UNCHANGED <<sql, dbos, up, task, execs, bounds>>
  PROVE  Effect
<1>1. UNCHANGED <<accepted, pending, rows, run, nrun, ops, requests, cancelReq, cancels, revoked,
                  wf, queue, jPrep, jResp, jTool, jRes, stops, crashes, revokes>>
  BY DEF sql, dbos, bounds
<1> QED BY <1>1, TasksKept, Keep DEF TypeOK, Effect, HolderStep

\* The values the operation in progress is set to.
LEMMA OpValues ==
  /\ IdleOp \in OpRec /\ IdleOp.pc = "idle"
  /\ \A t \in TurnId : LET k == [IdleOp EXCEPT !.pc = "submit", !.turn = t]
                       IN k \in OpRec /\ k.pc = "submit" /\ k.turn = t
  /\ \A S \in SUBSET TurnId : LET k == [IdleOp EXCEPT !.pc = "apply", !.todo = S]
                              IN k \in OpRec /\ k.pc = "apply"
  /\ LET k == [IdleOp EXCEPT !.pc = "startup"] IN k \in OpRec /\ k.pc = "startup"
<1>1. IdleOp \in OpRec /\ IdleOp.pc = "idle"
  BY Zenon, TurnIdIsRun DEF IdleOp, OpRec, OpPcs
<1>2. {"submit", "apply", "startup"} \subseteq OpPcs
  BY DEF OpPcs
<1> QED BY ZenonT(60), <1>1, <1>2, TurnIdIsRun DEF OpRec

\* recover_queued_turn keeps the types, and moves runs and holders as Effect says.
LEMMA recover_queued_turn_OK == ASSUME TypeOK, recover_queued_turn PROVE Effect
<1> DEFINE found == {t \in Running : run[t].boot = crashes /\ InputsHeadPending(t)}
<1>1. /\ UNCHANGED <<sql, dbos, up, task, execs, bounds>>
      /\ \/ op' = IdleOp
         \/ \E t \in found : op' = [IdleOp EXCEPT !.pc = "submit", !.turn = t]
  BY ZenonT(60) DEF recover_queued_turn
<1>2. OpType'
  <2>1. CASE op' = IdleOp
    BY ZenonT(60), <2>1, OpValues DEF OpType
  <2>2. CASE \E t \in found : op' = [IdleOp EXCEPT !.pc = "submit", !.turn = t]
    <3>1. PICK t \in found : op' = [IdleOp EXCEPT !.pc = "submit", !.turn = t]
      BY Zenon, <2>2
    <3>2. t \in TurnId
      BY RunningType
    <3>3. op' \in OpRec /\ op'.pc = "submit" /\ op'.turn = t
      BY ZenonT(60), <3>1, <3>2, OpValues
    <3> QED BY <3>2, <3>3 DEF OpType
  <2> QED BY ZenonT(60), <1>1, <2>1, <2>2
<1> QED BY ZenonT(60), <1>1, <1>2, OpOnly

\* A new workflow.
LEMMA EnqueueStep ==
  ASSUME WfType, NEW t \in TurnId, wf' = [wf EXCEPT ![t] = "enqueued"], queue' = Append(queue, t)
  PROVE  WfType'
<1>1. queue' \in Seq(TurnId)
  BY AppendProperties DEF WfType
<1>2. "enqueued" \in WfStatus
  BY DEF WfStatus
<1>3. wf' \in [TurnId -> WfStatus]
  BY <1>2 DEF WfType
<1> QED BY <1>1, <1>3 DEF WfType

\* submit keeps the types, and moves runs and holders as Effect says.
LEMMA submit_OK == ASSUME TypeOK, submit PROVE Effect
<1> DEFINE t == op.turn
<1>1. /\ op.pc = "submit" /\ op' = IdleOp
      /\ \/ UNCHANGED <<wf, queue>>
         \/ wf' = [wf EXCEPT ![t] = "enqueued"] /\ queue' = Append(queue, t)
      /\ UNCHANGED <<accepted, pending, rows, run, nrun, ops, requests, cancelReq, cancels, revoked,
                     jPrep, jResp, jTool, jRes, up, task, execs, stops, crashes, revokes>>
  BY DEF submit, sql, bounds
<1>2. t \in TurnId
  BY <1>1 DEF TypeOK, OpType
<1> HIDE DEF t
<1>3. WfType'
  <2>1. CASE UNCHANGED <<wf, queue>>
    BY <2>1, Keep DEF TypeOK
  <2>2. CASE wf' = [wf EXCEPT ![t] = "enqueued"] /\ queue' = Append(queue, t)
    BY ZenonT(60), <1>2, <2>2, EnqueueStep DEF TypeOK
  <2> QED BY <1>1, <2>1, <2>2
<1>4. OpType'
  BY Zenon, <1>1, OpValues DEF OpType
<1> QED BY <1>1, <1>3, <1>4, TasksKept, Keep DEF TypeOK, Effect, HolderStep

\* apply_cancellations_done keeps the types, and moves runs and holders as Effect says.
LEMMA apply_cancellations_done_OK == ASSUME TypeOK, apply_cancellations_done PROVE Effect
  BY Zenon, OpValues, OpOnly DEF apply_cancellations_done, OpType

\* apply_cancellation keeps the types, and moves runs and holders as Effect says.
LEMMA apply_cancellation_OK ==
  ASSUME TypeOK, NEW w \in TurnId, apply_cancellation(w) PROVE Effect
<1>1. /\ wf' = DbosCancelled(w)
      /\ op' = [op EXCEPT !.pc = "reconcile", !.wf = w, !.todo = op.todo \ {w}]
      /\ UNCHANGED <<accepted, pending, rows, run, nrun, ops, requests, cancelReq, cancels, revoked,
                     queue, jPrep, jResp, jTool, jRes, up, task, execs, stops, crashes, revokes>>
  BY DEF apply_cancellation, sql, bounds
<1>2. OpType'
  <2>1. op \in OpRec /\ op.todo \ {w} \in SUBSET TurnId /\ "reconcile" \in OpPcs /\ w \in RunOrNull
    BY TurnIdIsRun DEF TypeOK, OpType, OpRec, OpPcs
  <2>2. op' \in OpRec /\ op'.pc = "reconcile"
    BY Zenon, <1>1, <2>1 DEF OpRec
  <2> QED BY <2>2 DEF OpType
<1>3. WfType'
  <2>1. \E s \in WfStatus : wf' = [wf EXCEPT ![w] = s]
    BY ZenonT(60), <1>1 DEF DbosCancelled, TypeOK, WfType, WfStatus
  <2> QED BY Zenon, <1>1, <2>1, WfStep DEF TypeOK
<1> QED BY <1>1, <1>2, <1>3, TasksKept, Keep DEF TypeOK, Effect, HolderStep

\* reconcile_cancellation keeps the types, and moves runs and holders as Effect says.
LEMMA reconcile_cancellation_OK == ASSUME TypeOK, reconcile_cancellation PROVE Effect
<1>1. /\ UNCHANGED <<sql, dbos, up, task, execs, bounds>>
      /\ \/ op' = [op EXCEPT !.pc = "apply", !.wf = 0]
         \/ \E t \in RunOfWorkflow(op.wf) :
              op' = [op EXCEPT !.pc = "commit", !.turn = t, !.unk = IntentTools(t),
                               !.can = OpenTools(t) \ IntentTools(t)]
  BY Zenon DEF reconcile_cancellation
<1>2. op \in OpRec /\ {"apply", "commit"} \subseteq OpPcs
  BY DEF TypeOK, OpType, OpPcs
<1>3. CASE op' = [op EXCEPT !.pc = "apply", !.wf = 0]
  <2>1. op' \in OpRec /\ op'.pc = "apply"
    BY ZenonT(60), <1>2, <1>3, TurnIdIsRun DEF OpRec
  <2> QED BY ZenonT(60), <1>1, <2>1, OpOnly DEF OpType
<1>4. CASE \E t \in RunOfWorkflow(op.wf) :
             op' = [op EXCEPT !.pc = "commit", !.turn = t, !.unk = IntentTools(t),
                              !.can = OpenTools(t) \ IntentTools(t)]
  <2>1. PICK t \in RunOfWorkflow(op.wf) :
             op' = [op EXCEPT !.pc = "commit", !.turn = t, !.unk = IntentTools(t),
                              !.can = OpenTools(t) \ IntentTools(t)]
    BY Zenon, <1>4
  <2> DEFINE unk == IntentTools(t)
             can == OpenTools(t) \ IntentTools(t)
  <2>2. unk \in SUBSET Tool /\ can \in SUBSET Tool /\ t \in RunOrNull
    BY OpenToolsType, RunningType, TurnIdIsRun
  <2>3. op' = [op EXCEPT !.pc = "commit", !.turn = t, !.unk = unk, !.can = can]
    BY <2>1
  <2> HIDE DEF unk, can
  <2>4. op' \in OpRec /\ op'.pc = "commit"
    BY ZenonT(60), <1>2, <2>2, <2>3 DEF OpRec
  <2> QED BY Zenon, <1>1, <2>4, OpOnly DEF OpType
<1> QED BY Zenon, <1>1, <1>3, <1>4

\* reconcile_commit keeps the types, and moves runs and holders as Effect says.
LEMMA reconcile_commit_OK == ASSUME TypeOK, reconcile_commit PROVE Effect
<1> DEFINE t == op.turn
           unk == op.unk
           can == op.can
           S == op.todo
<1>1. /\ UNCHANGED <<accepted, pending, nrun, ops, requests, cancels, revoked, wf, queue,
                     jPrep, jResp, jTool, jRes, up, task, execs, stops, crashes, revokes>>
      /\ \/ op' = IdleOp /\ UNCHANGED <<rows, run, cancelReq>>
         \/ cancel_tool_batch(t, unk, can) /\ op' = [IdleOp EXCEPT !.pc = "apply", !.todo = S]
  BY DEF reconcile_commit, dbos, bounds
<1>2. t \in RunOrNull /\ unk \in SUBSET Tool /\ can \in SUBSET Tool /\ S \in SUBSET TurnId
  BY DEF TypeOK, OpType, OpRec
<1> HIDE DEF t, unk, can, S
<1>3. OpType'
  <2>1. CASE op' = IdleOp
    BY ZenonT(60), <2>1, OpValues DEF OpType
  <2>2. CASE op' = [IdleOp EXCEPT !.pc = "apply", !.todo = S]
    BY ZenonT(60), <1>2, <2>2, OpValues DEF OpType
  <2> QED BY SMTT(30), <1>1, <2>1, <2>2
<1>4. CASE UNCHANGED <<rows, run, cancelReq>>
  BY <1>1, <1>3, <1>4, TasksKept, Keep DEF TypeOK, Effect, HolderStep
<1>5. CASE cancel_tool_batch(t, unk, can)
  <2>1. RowType' /\ EndsTurn
    BY <1>2, <1>5, CancelOK DEF TypeOK
  <2> QED BY <1>1, <1>3, <2>1, TasksKept, EndsTurnOK, Keep DEF TypeOK, Effect, HolderStep
<1> QED BY <1>1, <1>4, <1>5

\* close_obsolete_channel_pending keeps the types, and moves runs and holders as Effect says.
LEMMA close_obsolete_channel_pending_OK ==
  ASSUME TypeOK, close_obsolete_channel_pending PROVE Effect
<1> DEFINE k == StaleHead(pending)
<1>1. /\ op' = IdleOp
      /\ UNCHANGED <<accepted, ops, requests, cancelReq, cancels, revoked, wf, queue,
                     jPrep, jResp, jTool, jRes, up, task, execs, stops, crashes, revokes>>
  BY DEF close_obsolete_channel_pending, dbos, bounds
<1>2. OpType'
  BY ZenonT(60), <1>1, OpValues DEF OpType
<1>3. CASE UNCHANGED <<rows, pending, run, nrun>>
  BY <1>1, <1>2, <1>3, TasksKept, Keep DEF TypeOK, Effect, HolderStep
<1>4. CASE /\ Running = {} /\ nrun + k <= MaxTurns
           /\ rows' = rows \o _close_revoked_pending(pending, k)
           /\ pending' = SubSeq(pending, k + 1, Len(pending))
           /\ run' = ClosedRuns(pending, k)
           /\ nrun' = nrun + k
  <2>1. pending \in Seq(Msgs) /\ Len(pending) \in Nat
    BY LenProperties DEF TypeOK, InboxType
  <2>2. k \in 0..Len(pending) /\ k \in Nat /\ k <= Len(pending)
    BY <2>1, StaleHeadBound
  <2> HIDE DEF k
  <2>3. /\ _close_revoked_pending(pending, k) \in Seq(RowRec)
        /\ run' \in [TurnId -> RunRec]
        /\ \A t \in TurnId : ClosedAt(t)
    BY ZenonT(60), <1>4, <2>1, <2>2, CloseOK DEF TypeOK, ClosedAt
  <2>4. RowType'
    BY Zenon, <1>4, <2>3, ConcatProperties DEF TypeOK, RowType
  <2>5. RunType'
    BY <1>4, <2>2, <2>3, ConversationAssumption DEF TypeOK, RunType, RunOrNull
  <2>6. InboxType'
    BY <1>1, <1>4, <2>1, <2>2, SubSeqProperties DEF TypeOK, InboxType
  <2>7. Reserves
    BY <1>1, <1>4, <2>3, ConversationAssumption DEF Reserves
  <2> QED BY <1>1, <1>2, <2>4, <2>5, <2>6, <2>7, TasksKept, Keep
             DEF TypeOK, Effect, HolderStep, RunStep
<1> QED BY <1>3, <1>4 DEF close_obsolete_channel_pending

\* recover_channel_pending keeps the types, and moves runs and holders as Effect says.
LEMMA recover_channel_pending_OK == ASSUME TypeOK, recover_channel_pending PROVE Effect
<1> DEFINE n == nrun + StaleHead(pending) + 1
           f == <<0, "none">>
<1>1. /\ Running = {}
      /\ UNCHANGED <<accepted, ops, requests, cancelReq, cancels, revoked, wf, queue,
                     jPrep, jResp, jTool, jRes, up, task, execs, stops, crashes, revokes>>
      /\ \/ /\ _reserve_fresh_pending_locked(pending, 0, f)
            /\ op' = [IdleOp EXCEPT !.pc = "submit", !.turn = n]
         \/ CloseAll(pending) /\ UNCHANGED op
  BY DEF recover_channel_pending, dbos, bounds
<1>2. f \in RunOrNull \X {"none", "next", "pending"} /\ 0 \in RunOrNull /\ pending \in Seq(Msgs)
  BY TurnIdIsRun DEF TypeOK, InboxType
<1>3. CASE CloseAll(pending) /\ UNCHANGED op
  BY <1>1, <1>3, CloseAllStep, TasksKept, Keep DEF TypeOK, Effect, HolderStep
<1>4. CASE /\ _reserve_fresh_pending_locked(pending, 0, f)
           /\ op' = [IdleOp EXCEPT !.pc = "submit", !.turn = n]
  <2> HIDE DEF f
  <2>1. RowType' /\ RunType' /\ pending' \in Seq(Msgs) /\ RunStep /\ n \in TurnId
    BY <1>1, <1>2, <1>4, ReserveStep
  <2> HIDE DEF n
  <2>2. OpType'
    BY ZenonT(60), <1>4, <2>1, OpValues DEF OpType
  <2>3. InboxType'
    BY <1>1, <2>1 DEF TypeOK, InboxType
  <2> QED BY <1>1, <2>1, <2>2, <2>3, TasksKept, Keep DEF TypeOK, Effect, HolderStep
<1> QED BY <1>1, <1>3, <1>4

\* publish_inbound keeps the types, and moves runs and holders as Effect says.
LEMMA publish_inbound_OK == ASSUME TypeOK, NEW m \in Msgs, publish_inbound(m) PROVE Effect
<1> DEFINE q == Append(pending, m)
           n == nrun + StaleHead(q) + 1
           f == <<0, "none">>
<1>1. /\ accepted' = Append(accepted, m)
      /\ UNCHANGED <<ops, requests, cancelReq, cancels, revoked,
                     jPrep, jResp, jTool, jRes, up, task, execs, stops, crashes, revokes>>
  BY DEF publish_inbound, bounds
<1>2. accepted' \in Seq(Msgs) /\ q \in Seq(Msgs)
  BY <1>1, AppendProperties DEF TypeOK, InboxType
<1>3. CASE /\ pending' = q /\ op' = [op EXCEPT !.pc = "recover"]
           /\ UNCHANGED <<rows, run, nrun, wf, queue>>
  <2>1. OpType'
    <3>1. op \in OpRec /\ "recover" \in OpPcs
      BY DEF TypeOK, OpType, OpPcs
    <3>2. op' \in OpRec /\ op'.pc = "recover"
      BY SMTT(30), <1>3, <3>1 DEF OpRec
    <3> QED BY <3>2 DEF OpType
  <2>2. InboxType'
    BY <1>2, <1>3 DEF InboxType
  <2> QED BY <1>1, <1>3, <2>1, <2>2, TasksKept, Keep DEF TypeOK, Effect, HolderStep
<1>4. CASE /\ Running = {} /\ _reserve_fresh_pending_locked(q, n, f)
           /\ wf' = [wf EXCEPT ![n] = "enqueued"] /\ queue' = Append(queue, n) /\ UNCHANGED op
  <2>1. n \in RunOrNull
    <3> HIDE DEF q
    <3>1. Len(q) \in Nat /\ StaleHead(q) \in 0..Len(q) /\ nrun \in Nat /\ MaxTurns \in Nat
      BY <1>2, LenProperties, StaleHeadBound, ConversationAssumption DEF TypeOK, RunType, RunOrNull
    <3>2. n <= MaxTurns
      BY <1>4 DEF _reserve_fresh_pending_locked
    <3> QED BY <3>1, <3>2 DEF RunOrNull
  <2>2. f \in RunOrNull \X {"none", "next", "pending"}
    BY TurnIdIsRun
  <2> HIDE DEF f, q
  <2>3. RowType' /\ RunType' /\ pending' \in Seq(Msgs) /\ RunStep /\ n \in TurnId
    BY <1>1, <1>2, <1>4, <2>1, <2>2, ReserveStep
  <2> HIDE DEF n
  <2>4. WfType'
    BY ZenonT(60), <1>4, <2>3, EnqueueStep DEF TypeOK
  <2>5. InboxType'
    BY <1>2, <2>3 DEF InboxType
  <2> QED BY <1>1, <1>4, <2>3, <2>4, <2>5, TasksKept, Keep DEF TypeOK, Effect, HolderStep
<1> QED BY <1>3, <1>4 DEF publish_inbound

\* revoke keeps the types, and moves runs and holders as Effect says.
LEMMA revoke_OK == ASSUME TypeOK, NEW m \in Msgs, revoke(m) PROVE Effect
<1>1. /\ revoked' = revoked \cup {m} /\ revokes' = revokes + 1
      /\ UNCHANGED <<accepted, pending, rows, run, nrun, ops, requests, cancelReq, cancels,
                     wf, queue, jPrep, jResp, jTool, jRes, up, task, op, execs, stops, crashes>>
  BY ZenonT(60) DEF revoke, dbos
<1>2. StopType' /\ CountType'
  BY <1>1 DEF TypeOK, StopType, CountType
<1> QED BY <1>1, <1>2, TasksKept, Keep DEF TypeOK, Effect, HolderStep

\* A stop reaches the waiter of a tool call, and nothing else of its task.
Fired(r) == [r EXCEPT !.waiter = "fired"]

\* A fired waiter keeps everything else of its task.
LEMMA FiredRec ==
  ASSUME NEW r \in TaskRec
  PROVE  LET k == Fired(r)
         IN /\ k \in TaskRec /\ k.pc = r.pc /\ k.turn = r.turn /\ k.chain = r.chain
            /\ k.idx = r.idx /\ k.issued = r.issued
  BY DEF TaskRec, Fired

\* request_cancel keeps the types, and moves runs and holders as Effect says.
LEMMA request_cancel_OK == ASSUME TypeOK, request_cancel PROVE Effect
<1> DEFINE started == {IF run[t].wf = 0 THEN t ELSE run[t].wf : t \in Running}
           S == cancels \cup SessionWorkflows \cup started
<1>1. /\ Running # {} /\ stops' = stops + 1 /\ cancelReq' = TRUE /\ cancels' = S
      /\ task' = [w \in TurnId |-> IF task[w].waiter = "armed" THEN Fired(task[w]) ELSE task[w]]
      /\ op' = [IdleOp EXCEPT !.pc = "apply", !.todo = S]
      /\ UNCHANGED <<accepted, pending, rows, run, nrun, ops, requests, revoked,
                     wf, queue, jPrep, jResp, jTool, jRes, up, execs, crashes, revokes>>
  BY DEF request_cancel, dbos, Fired
<1>2. S \in SUBSET TurnId
  <2>1. \A t \in TurnId : run[t] \in RunRec
    BY DEF TypeOK, RunType
  <2>2. \A t \in TurnId : run[t].wf \in RunOrNull
    BY <2>1 DEF RunRec
  <2>3. 1..nrun \subseteq TurnId
    BY ConversationAssumption DEF TypeOK, RunType, RunOrNull, TurnId
  <2>4. RunOrNull \ {0} \subseteq TurnId
    BY ConversationAssumption DEF RunOrNull, TurnId
  <2>5. SessionWorkflows \subseteq TurnId
    BY <2>2, <2>3, <2>4 DEF SessionWorkflows
  <2>6. started \subseteq TurnId
    BY <2>2, <2>4, RunningType
  <2> QED BY <2>5, <2>6 DEF TypeOK, StopType
<1> HIDE DEF S
<1>3. StopType' /\ CountType'
  BY <1>1, <1>2 DEF TypeOK, StopType, CountType
<1>4. OpType'
  BY ZenonT(60), <1>1, <1>2, OpValues DEF OpType
<1>5. ASSUME NEW w \in TurnId
      PROVE  /\ task'[w] \in TaskRec /\ Bound(w, task[w])' /\ HoldsOn(task[w], task'[w])
  <2>1. task'[w] = Fired(task[w]) \/ task'[w] = task[w]
    BY <1>1
  <2> DEFINE k == task'[w]
  <2>2. /\ k \in TaskRec /\ k.pc = task[w].pc /\ k.turn = task[w].turn /\ k.chain = task[w].chain
        /\ k.idx = task[w].idx /\ k.issued = task[w].issued
    BY <2>1, AtTask, FiredRec
  <2> HIDE DEF k
  <2>3. Bound(w, k)
    BY <2>2, AtTask DEF Bound
  <2>4. HoldsOn(task[w], k)
    BY <2>2 DEF HoldsOn, Holds
  <2>5. Bound(w, task[w])'
    BY <1>1, <2>3 DEF Bound, k
  <2> QED BY <2>2, <2>4, <2>5 DEF k
<1>6. TaskType'
  BY <1>1, <1>5 DEF TaskType
<1>7. TaskBound'
  BY <1>5 DEF TaskBound
<1> QED BY <1>1, <1>3, <1>4, <1>5, <1>6, <1>7, Keep DEF TypeOK, Effect, HolderStep, RunStep, Flags

\* Tasks that are all reset.
LEMMA ResetStep ==
  ASSUME TypeOK, UNCHANGED jResp, NEW K \in SUBSET TurnId,
         task' = [w \in TurnId |-> IF w \in K THEN FreshTask(w) ELSE IdleTask]
  PROVE  /\ TaskType' /\ TaskBound'
         /\ \A v \in TurnId : HoldsOn(task[v], task'[v])
<1>1. ASSUME NEW w \in TurnId
      PROVE  /\ task'[w] \in TaskRec /\ Bound(w, task[w])' /\ HoldsOn(task[w], task'[w])
  <2>1. task'[w] = FreshTask(w) \/ task'[w] = IdleTask
    OBVIOUS
  <2>2. Calm(w, task'[w])
    BY <2>1, ResetCalm
  <2> QED BY ZenonT(60), <2>2 DEF Calm, Bound
<1>2. TaskType'
  BY <1>1 DEF TaskType
<1> QED BY <1>1, <1>2 DEF TaskBound

\* crash keeps the types, and moves runs and holders as Effect says.
LEMMA crash_OK == ASSUME TypeOK, crash PROVE Effect
<1>1. /\ up' = FALSE /\ crashes' = crashes + 1 /\ op' = IdleOp
      /\ task' = [w \in TurnId |-> IF w \in {} THEN FreshTask(w) ELSE IdleTask]
      /\ UNCHANGED <<accepted, pending, rows, run, nrun, ops, requests, cancelReq, cancels, revoked,
                     wf, queue, jPrep, jResp, jTool, jRes, execs, stops, revokes>>
  BY DEF crash, sql, dbos
<1>2. OpType'
  BY ZenonT(60), <1>1, OpValues DEF OpType
<1>3. CountType'
  <2>1. up' \in BOOLEAN
    BY <1>1, Zenon
  <2>2. crashes' \in Nat
    BY <1>1 DEF TypeOK, CountType
  <2> QED BY <1>1, <2>1, <2>2 DEF TypeOK, CountType
<1>4. TaskType' /\ TaskBound' /\ \A v \in TurnId : HoldsOn(task[v], task'[v])
  BY Zenon, <1>1, ResetStep, {} \in SUBSET TurnId
<1> QED BY <1>1, <1>2, <1>3, <1>4, Keep DEF TypeOK, Effect, HolderStep

\* restart keeps the types, and moves runs and holders as Effect says.
LEMMA restart_OK == ASSUME TypeOK, restart PROVE Effect
<1> DEFINE K == {w \in TurnId : wf[w] = "pending" /\ w \notin cancels}
<1>1. /\ up' = TRUE /\ (op' = IdleOp \/ op' = [IdleOp EXCEPT !.pc = "startup"])
      /\ task' = [w \in TurnId |-> IF w \in K THEN FreshTask(w) ELSE IdleTask]
      /\ wf' = [w \in TurnId |-> IF w \in cancels /\ wf[w] \in {"enqueued", "pending"}
                                 THEN "cancelled" ELSE wf[w]]
      /\ UNCHANGED <<accepted, pending, nrun, ops, requests, cancels, revoked,
                     queue, jPrep, jResp, jTool, jRes, execs, stops, crashes, revokes>>
      /\ \/ UNCHANGED <<rows, run, cancelReq>>
         \/ \E t \in Running :
              cancel_tool_batch(t, IntentTools(t), OpenTools(t) \ IntentTools(t))
  BY DEF restart, bounds
<1>2. OpType'
  BY ZenonT(60), <1>1, OpValues DEF OpType
<1>3. CountType' /\ WfType'
  BY <1>1 DEF TypeOK, CountType, WfType, WfStatus
<1>4. TaskType' /\ TaskBound' /\ \A v \in TurnId : HoldsOn(task[v], task'[v])
  BY ZenonT(60), <1>1, ResetStep
<1>5. CASE UNCHANGED <<rows, run, cancelReq>>
  BY SMTT(30), <1>1, <1>2, <1>3, <1>4, <1>5, Keep DEF TypeOK, Effect, HolderStep
<1>6. CASE \E t \in Running :
             cancel_tool_batch(t, IntentTools(t), OpenTools(t) \ IntentTools(t))
  <2>1. RowType' /\ EndsTurn
    BY <1>6, CancelOK, OpenToolsType, RunningType, TurnIdIsRun DEF TypeOK
  <2> QED BY SMTT(30), <1>1, <1>2, <1>3, <1>4, <2>1, EndsTurnOK, Keep DEF TypeOK, Effect, HolderStep
<1> QED BY <1>1, <1>5, <1>6

-----------------------------------------------------------------------------
(***************************************************************************)
(* Every step.                                                             *)
(***************************************************************************)

Step == /\ TypeOK' /\ RunStep
        /\ HolderStep \/ \E w \in TurnId : ClaimStep(w) \/ IssueStep(w)

\* A step of a workflow.
LEMMA WorkflowStep ==
  ASSUME TypeOK, NEW w \in TurnId, Workflow(w) \/ Fault(w)
  PROVE  Step
<1>1. CASE claim_tool(w) \/ issue_tool(w)
  BY <1>1, claim_tool_OK, issue_tool_OK DEF Step
<1>2. CASE \/ step_begins(w) \/ dbos_abort(w)
           \/ prepare_replay(w) \/ capture_pending_for_turn(w) \/ repair_unpaired_tool_uses(w)
           \/ promote_pending_for_turn(w) \/ prepare_journal(w) \/ prepared_check(w)
           \/ check_authority(w) \/ reserve_request(w) \/ persist_assistant(w)
           \/ \E n \in Refused..MaxBatch : model_returns(w, n)
  <2>1. Effect
    BY SMTT(30), <1>2, step_begins_OK, dbos_abort_OK, prepare_replay_OK, capture_pending_for_turn_OK,
       repair_unpaired_tool_uses_OK, promote_pending_for_turn_OK, prepare_journal_OK,
       prepared_check_OK, check_authority_OK, reserve_request_OK, persist_assistant_OK,
       model_returns_OK
  <2> QED BY <2>1 DEF Effect, Step
<1>3. CASE \/ before_tool_execute(w) \/ register_cancel_waiter(w) \/ launch_tool(w)
           \/ tool_returns(w) \/ stop_tool(w) \/ persist_tool_result(w)
           \/ batch_boundary(w) \/ finish_tool_batch_and_continue(w) \/ finish_final_turn(w)
  <2>1. Effect
    BY SMTT(30), <1>3, before_tool_execute_OK, register_cancel_waiter_OK, launch_tool_OK, tool_returns_OK,
       stop_tool_OK, persist_tool_result_OK, batch_boundary_OK,
       finish_tool_batch_and_continue_OK, finish_final_turn_OK
  <2> QED BY <2>1 DEF Effect, Step
<1>4. CASE \/ cancel_turn(w) \/ agent_stopped(w) \/ agent_stopped_commit(w)
           \/ fail_preflight(w) \/ fail_provider(w) \/ fail_iteration_limit(w)
           \/ fail_unexpected_chain(w) \/ chain_repair(w) \/ chain_fail(w)
  <2>1. Effect
    BY SMTT(30), <1>4, cancel_turn_OK, agent_stopped_OK, agent_stopped_commit_OK, fail_preflight_OK,
       fail_provider_OK, fail_iteration_limit_OK, fail_unexpected_chain_OK, chain_repair_OK,
       chain_fail_OK
  <2> QED BY <2>1 DEF Effect, Step
<1>5. CASE \/ reserve_replay(w) \/ reserve_nothing(w) \/ reserve_pending_turn(w)
           \/ reserve_conflict(w) \/ reserve_link(w) \/ prepare_fault(w) \/ tool_raises(w)
  <2>1. Effect
    BY SMTT(30), <1>5, reserve_replay_OK, reserve_nothing_OK, reserve_pending_turn_OK, reserve_conflict_OK,
       reserve_link_OK, prepare_fault_OK, tool_raises_OK
  <2> QED BY <2>1 DEF Effect, Step
<1> QED BY <1>1, <1>2, <1>3, <1>4, <1>5 DEF Workflow, Fault

\* A step, or a stutter, of the conversation.
LEMMA NextStep == ASSUME TypeOK, [Next]_vars PROVE Step
<1>1. ASSUME NEW w \in TurnId, Workflow(w) \/ Fault(w) PROVE Step
  BY <1>1, WorkflowStep
<1>2. ASSUME NEW m \in Msgs, publish_inbound(m) \/ revoke(m) PROVE Step
  BY <1>2, publish_inbound_OK, revoke_OK DEF Effect, Step
<1>3. CASE Handler
  <2>1. Effect
    BY SMTT(30), <1>3, recover_queued_turn_OK, submit_OK, apply_cancellations_done_OK,
       reconcile_cancellation_OK, reconcile_commit_OK, close_obsolete_channel_pending_OK,
       apply_cancellation_OK DEF Handler
  <2> QED BY <2>1 DEF Effect, Step
<1>4. CASE request_cancel \/ recover_channel_pending \/ start_workflow \/ crash \/ restart
  <2>1. Effect
    BY <1>4, request_cancel_OK, recover_channel_pending_OK, start_workflow_OK, crash_OK, restart_OK
  <2> QED BY <2>1 DEF Effect, Step
<1>5. CASE UNCHANGED vars
  <2>1. OpType'
    BY <1>5, Keep DEF vars, TypeOK
  <2>2. UNCHANGED <<sql, dbos, up, task, execs, bounds>>
    BY <1>5 DEF vars
  <2> QED BY <2>1, <2>2, OpOnly DEF Effect, Step
<1> QED BY <1>1, <1>2, <1>3, <1>4, <1>5 DEF Next

-----------------------------------------------------------------------------
(***************************************************************************)
(* Types.                                                                  *)
(***************************************************************************)
\* The empty session has its types.
LEMMA InitType == Init => TypeOK
<1> SUFFICES ASSUME Init PROVE TypeOK
  OBVIOUS
<1>1. NullRun \in RunRec
  BY TurnIdIsRun DEF NullRun, RunRec, RunStatus
<1>2. InboxType /\ RowType /\ ReceiptType /\ StopType /\ CountType
  <2>1. cancelReq \in BOOLEAN /\ up \in BOOLEAN
    BY Zenon DEF Init
  <2>2. execs \in [TurnId -> [Tool -> Nat]]
    BY DEF Init
  <2> QED BY <2>1, <2>2 DEF Init, InboxType, RowType, ReceiptType, StopType, CountType
<1>3. RunType
  BY <1>1, TurnIdIsRun DEF Init, RunType
<1>4. WfType
  BY DEF Init, WfType, WfStatus
<1>5. JournalType
  BY ConversationAssumption DEF Init, JournalType, Unasked, NotRun
<1>6. TaskType /\ TaskBound
  <2>1. \A w \in TurnId : task[w] = IdleTask /\ Calm(w, IdleTask)
    BY ResetCalm DEF Init
  <2> QED BY <2>1 DEF Init, TaskType, TaskBound, Calm
<1>7. OpType
  BY Zenon, OpValues DEF Init, OpType
<1> QED BY SMTT(30), <1>2, <1>3, <1>4, <1>5, <1>6, <1>7 DEF TypeOK

\* The database rows, the journals and the state of every execution keep their
\* types: a cancellation record and a queue entry name a workflow, and a tool in
\* flight is a call of the journaled response, whatever crashed and replayed.
THEOREM TypeCorrect == Spec => []TypeOK
<1>1. TypeOK /\ [Next]_vars => TypeOK'
  BY NextStep DEF Step
<1> QED BY <1>1, InitType, PTL DEF Spec

-----------------------------------------------------------------------------
(***************************************************************************)
(* The runs.                                                               *)
(***************************************************************************)

RunInv == OneRunningTurn /\ StopFlagNeedsTurn /\ GuestIsolation

\* Every kind of step on the runs keeps their invariants.
LEMMA RunStepKeeps == ASSUME TypeOK, TypeOK', RunInv, RunStep PROVE RunInv'
<1>1. CASE EndsTurn
  <2>1. OneRunningTurn'
    BY <1>1 DEF EndsTurn, RunInv, OneRunningTurn
  <2>2. StopFlagNeedsTurn'
    BY Zenon, <1>1 DEF EndsTurn, RunInv, StopFlagNeedsTurn, Idle
  <2>3. GuestIsolation'
    BY <1>1 DEF EndsTurn, RunInv, GuestIsolation
  <2> QED BY <2>1, <2>2, <2>3 DEF RunInv
<1>2. CASE Reserves
  <2>1. PICK n \in 0..MaxTurns : /\ n # 0 => StartedAt(n)
                                 /\ \A t \in TurnId : t # n => ClosedAt(t)
    BY <1>2 DEF Reserves
  <2>2. \A t \in TurnId : run[t].status # "running"
    BY <1>2 DEF Reserves, Running
  <2>3. \A t \in TurnId : t # n => run'[t].status # "running"
    BY <2>1, <2>2 DEF ClosedAt
  <2>4. OneRunningTurn'
    BY <2>3 DEF OneRunningTurn
  <2>5. StopFlagNeedsTurn'
    BY <1>2, <2>2 DEF Reserves, RunInv, StopFlagNeedsTurn, Idle
  <2>6. ASSUME NEW t \in TurnId PROVE Isolated(run'[t])
    <3>1. CASE t = n
      BY <2>1, <3>1 DEF StartedAt, TurnId
    <3>2. CASE t # n
      BY <2>1, <3>2 DEF ClosedAt, RunInv, GuestIsolation, Isolated
    <3> QED BY <3>1, <3>2
  <2>7. GuestIsolation'
    BY <2>6 DEF GuestIsolation, Isolated
  <2> QED BY <2>4, <2>5, <2>7 DEF RunInv
<1>3. CASE Continues
  <2>1. PICK t, n \in TurnId : /\ run[t].status = "running" /\ StartedAt(n)
                               /\ \A u \in TurnId : u \notin {t, n} => run'[u] = run[u]
                               /\ t # n => /\ run'[t].status = "completed"
                                           /\ run'[t].inputs = run[t].inputs
                                           /\ run'[t].guest = run[t].guest
    BY <1>3 DEF Continues
  <2>2. \A u \in TurnId : u # n => run'[u].status # "running"
    BY <2>1 DEF RunInv, OneRunningTurn
  <2>3. OneRunningTurn'
    BY <2>2 DEF OneRunningTurn
  <2>4. StopFlagNeedsTurn'
    BY <2>1 DEF StopFlagNeedsTurn, Idle, StartedAt
  <2>5. ASSUME NEW u \in TurnId PROVE Isolated(run'[u])
    <3>1. Isolated(run[u])
      BY DEF RunInv, GuestIsolation, Isolated
    <3> QED BY <2>1, <3>1 DEF StartedAt, Isolated
  <2>6. GuestIsolation'
    BY <2>5 DEF GuestIsolation, Isolated
  <2> QED BY <2>3, <2>4, <2>6 DEF RunInv
<1>4. CASE Fills
  <2>1. OneRunningTurn'
    BY <1>4 DEF Fills, RunInv, OneRunningTurn
  <2>2. StopFlagNeedsTurn'
    BY <1>4 DEF Fills, RunInv, StopFlagNeedsTurn, Idle
  <2>3. \A t \in TurnId : Isolated(run'[t])
    BY <1>4 DEF Fills, RunInv, GuestIsolation, Isolated
  <2>4. GuestIsolation'
    BY <2>3 DEF GuestIsolation, Isolated
  <2> QED BY <2>1, <2>2, <2>4 DEF RunInv
<1>5. CASE Flags
  BY <1>5 DEF Flags, RunInv, OneRunningTurn, StopFlagNeedsTurn, Idle, GuestIsolation, Running
<1> QED BY <1>1, <1>2, <1>3, <1>4, <1>5 DEF RunStep

\* The run invariant holds of every behaviour.
LEMMA RunInvariant == Spec => []RunInv
<1>1. Init => RunInv
  BY DEF Init, RunInv, OneRunningTurn, StopFlagNeedsTurn, GuestIsolation, NullRun
<1>2. TypeOK /\ RunInv /\ [Next]_vars => RunInv'
  BY NextStep, RunStepKeeps DEF Step
<1> QED BY <1>1, <1>2, TypeCorrect, PTL DEF Spec

\* At most one turn of a session runs, with any number of messages, stops,
\* crashes and duplicate workflows: the three reservations and the end of a
\* tool batch never trip the partial unique index of turn_runs.
THEOREM OneRunning == Spec => []OneRunningTurn
<1>1. RunInv => OneRunningTurn
  BY DEF RunInv
<1> QED BY <1>1, RunInvariant, PTL

\* An idle session never keeps a raised stop flag, whichever way its turn ended.
THEOREM StopFlag == Spec => []StopFlagNeedsTurn
<1>1. RunInv => StopFlagNeedsTurn
  BY DEF RunInv
<1> QED BY <1>1, RunInvariant, PTL

\* No turn mixes the owner's messages with a guest's, whoever reserved it and
\* whatever it captured on the way.
THEOREM Isolation == Spec => []GuestIsolation
<1>1. RunInv => GuestIsolation
  BY DEF RunInv
<1> QED BY <1>1, RunInvariant, PTL

\* A turn starts only with messages whose sender and binding were current at
\* that moment, in every one of the reservations.
THEOREM ReservedAuthorized == Spec => ReservedInputsAuthorized
<1> DEFINE A == \A t \in TurnId : run[t].status = "none" /\ run'[t].status = "running" =>
                  \A i \in DOMAIN run'[t].inputs : run'[t].inputs[i] \notin revoked
<1>1. TypeOK /\ [Next]_vars => [A]_vars
  <2> SUFFICES ASSUME TypeOK, [Next]_vars,
                      NEW t \in TurnId, run[t].status = "none", run'[t].status = "running"
               PROVE  \A i \in DOMAIN run'[t].inputs : run'[t].inputs[i] \notin revoked
    OBVIOUS
  <2>1. RunStep
    BY NextStep DEF Step
  <2>2. StartedAt(t)
    BY <2>1 DEF RunStep, EndsTurn, Reserves, Continues, Fills, Flags, ClosedAt, TurnId
  <2> QED BY <2>2 DEF StartedAt
<1> QED BY <1>1, TypeCorrect, PTL DEF Spec, ReservedInputsAuthorized

-----------------------------------------------------------------------------
(***************************************************************************)
(* Tool calls.                                                             *)
(***************************************************************************)

\* A call about to be issued has its receipt and one holder; a call that was
\* issued has its receipt and no holder.
HolderInv ==
  /\ \A w \in TurnId : Holds(task[w]) => <<task[w].turn, task[w].idx>> \in ops
  /\ \A w, v \in TurnId :
       Holds(task[w]) /\ Holds(task[v]) /\ task[w].turn = task[v].turn /\ task[w].idx = task[v].idx
         => w = v
IssuedInv ==
  \A t \in TurnId, x \in Tool :
    \/ execs[t][x] = 0
    \/ /\ execs[t][x] = 1 /\ <<t, x>> \in ops
       /\ \A w \in TurnId : Holds(task[w]) => ~(task[w].turn = t /\ task[w].idx = x)
ExecInv == HolderInv /\ IssuedInv

\* A step that makes no new holder keeps the invariant of the calls.
LEMMA HolderKeeps == ASSUME ExecInv, HolderStep PROVE ExecInv'
<1>1. HolderInv'
  BY ZenonT(60) DEF ExecInv, HolderInv, HolderStep, HoldsOn
<1>2. IssuedInv'
  <2> SUFFICES ASSUME NEW s \in TurnId, NEW y \in Tool
               PROVE  (\/ execs[s][y] = 0
                       \/ /\ execs[s][y] = 1 /\ <<s, y>> \in ops
                          /\ \A v \in TurnId :
                               Holds(task[v]) => ~(task[v].turn = s /\ task[v].idx = y))'
    BY Zenon DEF IssuedInv
  <2> QED BY DEF ExecInv, IssuedInv, HolderStep, HoldsOn
<1> QED BY <1>1, <1>2 DEF ExecInv

\* claim_tool makes a holder of a call that had no receipt.
LEMMA ClaimKeeps == ASSUME ExecInv, NEW w \in TurnId, ClaimStep(w) PROVE ExecInv'
<1> DEFINE t == task[w].turn
           x == task[w].idx
<1>1. /\ <<t, x>> \notin ops /\ ops' = ops \cup {<<t, x>>} /\ UNCHANGED execs
      /\ task'[w].turn = t /\ task'[w].idx = x
      /\ \A v \in TurnId : v # w => task'[v] = task[v]
  BY ZenonT(60) DEF ClaimStep
<1>2. \A v \in TurnId : Holds(task[v]) => ~(task[v].turn = t /\ task[v].idx = x)
  BY <1>1 DEF ExecInv, HolderInv
<1>3. HolderInv'
  <2>1. \A v \in TurnId : Holds(task'[v]) => <<task'[v].turn, task'[v].idx>> \in ops'
    BY <1>1 DEF ExecInv, HolderInv
  <2>2. ASSUME NEW u \in TurnId, NEW v \in TurnId, Holds(task'[u]), Holds(task'[v]),
               task'[u].turn = task'[v].turn, task'[u].idx = task'[v].idx
        PROVE  u = v
    BY <1>1, <1>2, <2>2 DEF ExecInv, HolderInv
  <2> QED BY <2>1, <2>2 DEF HolderInv
<1>4. IssuedInv'
  <2> SUFFICES ASSUME NEW s \in TurnId, NEW y \in Tool
               PROVE  (\/ execs[s][y] = 0
                       \/ /\ execs[s][y] = 1 /\ <<s, y>> \in ops
                          /\ \A v \in TurnId :
                               Holds(task[v]) => ~(task[v].turn = s /\ task[v].idx = y))'
    BY ZenonT(60) DEF IssuedInv
  <2>1. CASE execs[s][y] = 0
    BY <1>1, <2>1
  <2>2. CASE execs[s][y] # 0
    <3>1. /\ execs[s][y] = 1 /\ <<s, y>> \in ops
          /\ \A v \in TurnId : Holds(task[v]) => ~(task[v].turn = s /\ task[v].idx = y)
      BY <2>2 DEF ExecInv, IssuedInv
    <3>2. ~(t = s /\ x = y)
      BY <1>1, <3>1
    <3> QED BY <1>1, <3>1, <3>2
  <2> QED BY ZenonT(60), <2>1, <2>2
<1> QED BY <1>3, <1>4 DEF ExecInv

\* on_issued turns the only holder of a call into its one execution.
LEMMA IssueKeeps == ASSUME TypeOK, ExecInv, NEW w \in TurnId, IssueStep(w) PROVE ExecInv'
<1> DEFINE t == task[w].turn
           x == task[w].idx
<1>1. /\ Holds(task[w]) /\ ~Holds(task'[w]) /\ UNCHANGED ops
      /\ execs' = [execs EXCEPT ![t][x] = @ + 1]
      /\ \A v \in TurnId : v # w => task'[v] = task[v]
  BY DEF IssueStep
<1>2. t \in TurnId /\ x \in Tool
  BY <1>1, CallBound DEF Holds, ToolPcs
<1>3. execs[t][x] = 0 /\ <<t, x>> \in ops
  BY <1>1, <1>2 DEF ExecInv, IssuedInv, HolderInv
<1>4. \A v \in TurnId : v # w /\ Holds(task[v]) => ~(task[v].turn = t /\ task[v].idx = x)
  BY <1>1 DEF ExecInv, HolderInv
<1>5. HolderInv'
  BY <1>1 DEF ExecInv, HolderInv
<1> HIDE DEF t, x
<1>6. /\ execs'[t][x] = 1
      /\ \A s \in TurnId, y \in Tool : <<s, y>> # <<t, x>> => execs'[s][y] = execs[s][y]
  <2>1. execs \in [TurnId -> [Tool -> Nat]]
    BY DEF TypeOK, CountType
  <2>2. execs' = [execs EXCEPT ![t] = [execs[t] EXCEPT ![x] = execs[t][x] + 1]]
    BY <1>1, <1>2, <2>1
  <2>3. execs[t] \in [Tool -> Nat]
    BY <1>2, <2>1
  <2>4. execs'[t] = [execs[t] EXCEPT ![x] = 1] /\ \A s \in TurnId : s # t => execs'[s] = execs[s]
    BY SMTT(30), <1>2, <1>3, <2>1, <2>2
  <2> QED BY <1>2, <2>3, <2>4
<1>7. IssuedInv'
  <2> SUFFICES ASSUME NEW s \in TurnId, NEW y \in Tool
               PROVE  (\/ execs[s][y] = 0
                       \/ /\ execs[s][y] = 1 /\ <<s, y>> \in ops
                          /\ \A v \in TurnId :
                               Holds(task[v]) => ~(task[v].turn = s /\ task[v].idx = y))'
    BY ZenonT(60) DEF IssuedInv
  <2>1. CASE s = t /\ y = x
    BY SMTT(30), <1>1, <1>3, <1>4, <1>6, <2>1
  <2>2. CASE ~(s = t /\ y = x)
    BY SMTT(30), <1>1, <1>6, <2>2 DEF ExecInv, IssuedInv
  <2> QED BY <2>1, <2>2
<1> QED BY <1>5, <1>7 DEF ExecInv

\* The invariant of the calls holds of every behaviour.
LEMMA ExecInvariant == Spec => []ExecInv
<1>1. Init => ExecInv
  <2> SUFFICES ASSUME Init PROVE ExecInv
    OBVIOUS
  <2>1. \A w \in TurnId : ~Holds(task[w])
    BY DEF Init, IdleTask, Holds
  <2>2. \A t \in TurnId, x \in Tool : execs[t][x] = 0
    BY DEF Init
  <2> QED BY <2>1, <2>2 DEF ExecInv, HolderInv, IssuedInv
<1>2. TypeOK /\ ExecInv /\ [Next]_vars => ExecInv'
  <2> SUFFICES ASSUME TypeOK, ExecInv, [Next]_vars PROVE ExecInv'
    OBVIOUS
  <2>1. HolderStep \/ \E w \in TurnId : ClaimStep(w) \/ IssueStep(w)
    BY NextStep DEF Step
  <2>2. CASE HolderStep
    BY <2>2, HolderKeeps
  <2>3. ASSUME NEW w \in TurnId, ClaimStep(w) PROVE ExecInv'
    BY <2>3, ClaimKeeps
  <2>4. ASSUME NEW w \in TurnId, IssueStep(w) PROVE ExecInv'
    BY SMTT(30), <2>4, IssueKeeps
  <2> QED BY <2>1, <2>2, <2>3, <2>4
<1> QED BY <1>1, <1>2, TypeCorrect, PTL DEF Spec

\* A tool call is issued at most once, over any number of crashes, replays,
\* duplicate workflows of the turn and stops: claim_tool commits its receipt
\* before on_issued, and only the execution that wrote it goes on to the tool.
THEOREM ToolOnce == Spec => []ToolAtMostOnce
<1>1. ExecInv => ToolAtMostOnce
  <2> SUFFICES ASSUME ExecInv, NEW t \in TurnId, NEW x \in Tool PROVE execs[t][x] <= 1
    BY DEF ToolAtMostOnce
  <2>1. execs[t][x] = 0 \/ execs[t][x] = 1
    BY Zenon DEF ExecInv, IssuedInv
  <2> QED BY <2>1
<1> QED BY <1>1, ExecInvariant, PTL
===============================================================================
