-------------------------- MODULE ChannelDelivery --------------------------
(***************************************************************************)
(* Outbound channel messages: the message tool and the final answer of a   *)
(* turn go through ChannelDeliveryRouter, which keeps a row per delivery   *)
(* key and one per platform request, issues the requests in order through  *)
(* the channel's adapter, and leaves a row that says what became of each   *)
(* even if it is cancelled, times out or the server stops.                 *)
(***************************************************************************)
EXTENDS Naturals, Sequences, FiniteSets, FiniteSetsExt

CONSTANTS Call,           \* callers of deliver()
          KeyOf,          \* the delivery key each one uses
          ToolCalls,      \* the callers that are message tool calls
          Before,         \* the calls of the same turn that must end first
          MaxActions,     \* MAX_DELIVERY_ACTIONS
          Media,          \* numbers of files a tool call may send
          TextLimit,      \* characters per text action
          Texts,          \* contents of messages
          DeliveryFaults, \* crashes, cancellations, failed commits, lost answers
          Rebinds         \* changes of the channel's configuration or connection

VARIABLES platform, \* which adapter the channel has
          text,     \* the content of every message
          row,      \* channel_deliveries and channel_delivery_actions, by key
          call,     \* the deliver() calls in progress
          failed,   \* failed_delivery_targets of the turn: binding generations
          config,   \* the channel's stored configuration
          runtime,  \* the manager's current runtime for it
          flight,   \* requests the platform has yet to take
          shown,    \* requests the platform accepted
          issues,   \* how often each request was sent
          chanUp, deliveryTrouble, rebinds

dlvvars == <<platform, text, row, call, failed, config, runtime, flight, shown, issues, chanUp,
             deliveryTrouble, rebinds>>

Keys == Range(KeyOf)
TerminalRows == {"sent", "partial", "failed", "unknown"}
Open == {"prepared", "attempting"}

(***************************************************************************)
(* Splitting a text: at the last newline of the first TextLimit            *)
(* characters, or at the last white space, or at the limit.                *)
(***************************************************************************)
NL == "n"
Space == " "
Strings(n) == UNION {[1..m -> {NL, Space, "a"}] : m \in 0..n}
LastOf(s, chars) == LET at == {i \in 1..Len(s) : s[i] \in chars} IN IF at = {} THEN 0 ELSE Max(at)

(* _last_whitespace, where a newline is preferred to other white space *)
SplitPoint(cand) ==
    IF LastOf(cand, {NL}) > 0 THEN LastOf(cand, {NL}) ELSE LastOf(cand, {NL, Space})

(* split_text_actions, and _split_utf8_text for single-byte characters *)
SplitText(content) ==
    LET split[s \in Strings(Len(content))] ==
            IF Len(s) <= TextLimit THEN IF s = <<>> THEN <<>> ELSE <<s>>
            ELSE LET cand == SubSeq(s, 1, TextLimit)
                     at == IF SplitPoint(cand) > 0 THEN SplitPoint(cand) ELSE TextLimit
                 IN <<SubSeq(s, 1, at)>> \o split[SubSeq(s, at + 1, Len(s))]
    IN split[content]

(* The turn makes its deliveries one after the other; only callers that    *)
(* use the same key meet.  (That a text is split into a number of pieces   *)
(* is a fact about a recursion, so it is checked for the texts there are.) *)
ASSUME DeliveryAssumption ==
    /\ DOMAIN KeyOf = Call /\ MaxActions \in Nat /\ Media \subseteq Nat
    /\ \A c \in Call : Before[c] \subseteq Call
    /\ \A c, d \in Call : KeyOf[c] # KeyOf[d] => c \in Before[d] \/ d \in Before[c]
    /\ \A t \in Texts : Len(SplitText(t)) \in Nat

(***************************************************************************)
(* Plans: the kinds of the actions, in order.                              *)
(***************************************************************************)
Repeat(n, kinds) == [i \in 1..n * Len(kinds) |-> kinds[((i - 1) % Len(kinds)) + 1]]

(* DiscordAdapter.plan_delivery *)
DiscordPlan(media) ==
    Repeat(Len(SplitText(text)), <<"text">>) \o Repeat(media, <<"file">>)

(* DingTalkAdapter.plan_delivery: a file is uploaded, then sent *)
DingTalkPlan(media) ==
    Repeat(Len(SplitText(text)), <<"text">>) \o Repeat(media, <<"upload", "file">>)

PlanDelivery(media) == IF platform = "discord" THEN DiscordPlan(media) ELSE DingTalkPlan(media)
Visible(kind) == kind # "upload"

(* _validate_actions *)
ValidPlan(plan) == plan # <<>> /\ Len(plan) <= MaxActions

(***************************************************************************)
(* Rows.                                                                   *)
(***************************************************************************)
NoRow == [status |-> "none", kinds |-> <<>>, acts |-> <<>>, gen |-> 0]
FirstOf(acts, statuses) ==
    LET at == {i \in 1..Len(acts) : acts[i] \in statuses} IN IF at = {} THEN 0 ELSE Min(at)

(* _skip_after *)
SkipAfter(acts, i) == [j \in DOMAIN acts |-> IF j > i /\ acts[j] \in Open THEN "skipped" ELSE acts[j]]

(* the aggregate of _finish_locked, the one aggregate_action_results defines *)
Aggregate(r, acts) ==
    LET end == FirstOf(acts, {"failed", "unknown"})
        visible == \E i \in DOMAIN acts : Visible(r.kinds[i]) /\ acts[i] = "sent"
    IN IF end = 0 THEN "sent" ELSE IF visible THEN "partial" ELSE acts[end]

(* _finish_locked *)
Finished(r, acts) == [r EXCEPT !.acts = acts, !.status = Aggregate(r, acts)]
(* an action ends the delivery *)
EndedAt(r, i, status) == Finished(r, SkipAfter([r.acts EXCEPT ![i] = status], i))

(* _fail_without_actions_locked *)
FailedBare(r) == [r EXCEPT !.status = "failed"]

(* _finalize *)
Finalized(r) ==
    LET end == FirstOf(r.acts, {"failed", "unknown"})
    IN Finished(r, IF end = 0 THEN r.acts ELSE SkipAfter(r.acts, end))

(* _repair_actions: the first unfinished action is unknown if attempting *)
Repaired(r) ==
    LET open == FirstOf(r.acts, Open)
    IN IF r.acts = <<>> THEN FailedBare(r)
       ELSE IF FirstOf(r.acts, {"failed", "unknown"}) # 0 \/ open = 0 THEN Finalized(r)
       ELSE EndedAt(r, open, IF r.acts[open] = "attempting" THEN "unknown" ELSE "failed")

(* Mutation: an interrupted action is failed although it was issued. *)
CancelFails(r, i, issued) ==
    IF r.status \in TerminalRows THEN r
    ELSE IF r.acts = <<>> THEN FailedBare(r) ELSE EndedAt(r, i, "failed")

(* _cancel_delivery *)
CancelledRow(r, i, issued) ==
    LET later == {j \in DOMAIN r.acts : j > i /\ r.acts[j] \in Open}
        cand == IF r.acts[i] # "sent" \/ later = {} THEN i ELSE CHOOSE j \in later : \A k \in later : j <= k
    IN CASE r.status \in TerminalRows -> r
         [] r.status \notin TerminalRows /\ r.acts = <<>> -> FailedBare(r)
         [] OTHER ->
              IF FirstOf(r.acts, {"failed", "unknown"}) # 0 \/ r.acts[cand] \notin Open THEN Finalized(r)
              ELSE EndedAt(r, cand, IF cand = i /\ issued THEN "unknown" ELSE "failed")

(***************************************************************************)
(* The calls.                                                              *)
(***************************************************************************)
NoCall == [pc |-> "idle", gen |-> 0, media |-> 0, adapter |-> 0, at |-> 1, issued |-> FALSE,
           told |-> FALSE, result |-> "none", res |-> "none"]

DeliveryInit ==
    /\ platform \in {"discord", "dingtalk"}
    /\ text \in Texts
    /\ row = [k \in Keys |-> NoRow]
    /\ call = [c \in Call |-> NoCall]
    /\ failed = {}
    /\ config = [gen |-> 1, rev |-> 1, paired |-> TRUE]
    /\ runtime = [id |-> 1, gen |-> 1, rev |-> 1, online |-> TRUE]
    /\ flight = {} /\ shown = {}
    /\ issues = [k \in Keys |-> [i \in 1..MaxActions |-> 0]]
    /\ chanUp = TRUE /\ deliveryTrouble = 0 /\ rebinds = 0

Key(c) == KeyOf[c]
Row(c) == row[Key(c)]
DlvFault == deliveryTrouble < DeliveryFaults /\ deliveryTrouble' = deliveryTrouble + 1
DlvOk == UNCHANGED deliveryTrouble
EnvKept == UNCHANGED <<platform, text, config, runtime, chanUp, rebinds>>
WireKept == UNCHANGED <<flight, shown, issues>>
Move(c, new) == call' = [call EXCEPT ![c] = new]
Goto(c, pc) == Move(c, [call[c] EXCEPT !.pc = pc])
Ended(c, res) == [NoCall EXCEPT !.pc = "done", !.res = res, !.told = call[c].told]

(* Mutation: only what certainly failed fences its target. *)
FenceFailedOnly(r) == IF r.status = "failed" THEN {r.gen} ELSE {}

(* _append_failed_target: a delivery that did not succeed fences its target *)
FailedTarget(r) == IF r.status \in TerminalRows \ {"sent"} THEN {r.gen} ELSE {}

(* a row is written and whatever target it fences is recorded with it *)
Store(c, r) == /\ row' = [row EXCEPT ![Key(c)] = r]
               /\ failed' = failed \cup FailedTarget(r)
RowsKept == UNCHANGED <<row, failed>>
(* the delivery ends with this row, and the caller hears of it (_result) *)
ReturnRow(c, r) == Store(c, r) /\ Move(c, Ended(c, r.status))

(* The agent runs its tools in sequence, and deliver_final after all of    *)
(* them; a cancelled call ends the turn.                                   *)
InTurn(c) == \A b \in Before[c] : call[b].pc = "done" /\ call[b].res # "cancelled"

(* MessageTool.execute begins, or deliver_final is called for the answer. *)
CallTool(c) ==
    /\ c \in ToolCalls /\ call[c].pc = "idle" /\ chanUp /\ InTurn(c)
    /\ \E m \in Media : Move(c, [call[c] EXCEPT !.pc = "resolve", !.media = m])
    /\ RowsKept /\ EnvKept /\ WireKept /\ DlvOk

DeliverFinal(c) ==
    /\ c \notin ToolCalls /\ call[c].pc = "idle" /\ chanUp /\ InTurn(c)
    /\ Move(c, [call[c] EXCEPT !.pc = "lock", !.gen = 1])
    /\ RowsKept /\ EnvKept /\ WireKept /\ DlvOk

(* resolve_message_target: the channel is configured and paired, and the   *)
(* turn's own binding, generation 1, is still the current one              *)
ResolveTarget(c) ==
    /\ call[c].pc = "resolve"
    /\ Move(c, IF config.paired /\ config.gen = 1
               THEN [call[c] EXCEPT !.pc = IF call[c].media > 0 THEN "refs" ELSE "lock", !.gen = config.gen]
               ELSE Ended(c, "error"))
    /\ RowsKept /\ EnvKept /\ WireKept /\ DlvOk

(* _resolve_device_refs and _probe_device_file: the files are there, or    *)
(* the device is busy, away or says otherwise                              *)
ResolveRefs(c) ==
    /\ call[c].pc = "refs"
    /\ Goto(c, "lock") \/ Move(c, Ended(c, "error"))
    /\ RowsKept /\ EnvKept /\ WireKept /\ DlvOk

(* the tool's time is up before anything was delivered (_timeout_result) *)
ToolExpires(c) ==
    /\ call[c].pc \in {"resolve", "refs"} /\ DlvFault
    /\ Move(c, Ended(c, "error"))
    /\ RowsKept /\ EnvKept /\ WireKept

Busy == {"prepare", "plan", "install", "next", "ready", "fence", "attempt", "lookup", "sent",
         "record", "final"}
(* _delivery_lock: one caller per key *)
Free(c) == \A d \in Call \ {c} : Key(d) = Key(c) => call[d].pc \notin Busy

(* _existing_result: a row for the key is returned, repaired if unfinished *)
LockAndLook(c) ==
    /\ call[c].pc = "lock" /\ Free(c)
    /\ CASE Row(c).status = "none" -> Goto(c, "prepare") /\ RowsKept
         [] Row(c).status \in TerminalRows -> ReturnRow(c, Row(c))
         [] OTHER -> ReturnRow(c, Repaired(Row(c)))
    /\ EnvKept /\ WireKept /\ DlvOk

(* _prepare *)
Prepare(c) ==
    /\ call[c].pc = "prepare"
    /\ Store(c, [NoRow EXCEPT !.status = "prepared", !.gen = call[c].gen])
    /\ Goto(c, "plan")
    /\ EnvKept /\ WireKept /\ DlvOk

(* adapter_lookup *)
Adapter == IF runtime.online THEN runtime.id ELSE 0

(* has_failed_target *)
Fenced(c) == call[c].gen \in failed

(* the planning of deliver(): fenced target, no adapter, or a bad plan *)
PlanOrFail(c) ==
    /\ call[c].pc = "plan"
    /\ IF Fenced(c) \/ Adapter = 0 \/ ~ValidPlan(PlanDelivery(call[c].media))
       THEN ReturnRow(c, FailedBare(Row(c)))
       ELSE Move(c, [call[c] EXCEPT !.pc = "install", !.adapter = Adapter]) /\ RowsKept
    /\ EnvKept /\ WireKept /\ DlvOk

(* _install_plan *)
InstallPlan(c) ==
    LET plan == PlanDelivery(call[c].media)
    IN /\ call[c].pc = "install"
       /\ Store(c, [Row(c) EXCEPT !.kinds = plan, !.acts = [i \in DOMAIN plan |-> "prepared"]])
       /\ Move(c, [call[c] EXCEPT !.pc = "next", !.at = 1])
       /\ EnvKept /\ WireKept /\ DlvOk

(* _fail_unissued *)
FailUnissued(c) == ReturnRow(c, EndedAt(Row(c), call[c].at, "failed"))

(* _execute: the next action, unless the target has been fenced.  A file   *)
(* message's upload is the action before it, so its artifact is there.     *)
NextAction(c) ==
    /\ call[c].pc = "next"
    /\ IF call[c].at > Len(Row(c).acts) THEN Goto(c, "final") /\ RowsKept
       ELSE IF Fenced(c) THEN FailUnissued(c)
       ELSE Goto(c, "ready") /\ RowsKept
    /\ EnvKept /\ WireKept /\ DlvOk

(* DiscordHTTPRESTClient.create_message up to on_issued: the media stream  *)
(* is opened first                                                         *)
DiscordPrepares(c) ==
    /\ platform = "discord" /\ call[c].pc = "ready"
    /\ \/ Goto(c, "fence") /\ RowsKept
       \/ Row(c).kinds[call[c].at] = "file" /\ FailUnissued(c)
    /\ EnvKept /\ WireKept /\ DlvOk

(* DingTalkAdapter._send and _execute_upload up to on_issued: an access    *)
(* token, and the first chunk of the file                                  *)
DingTalkPrepares(c) ==
    /\ platform = "dingtalk" /\ call[c].pc = "ready"
    /\ \/ Goto(c, "fence") /\ RowsKept
       \/ FailUnissued(c)
    /\ EnvKept /\ WireKept /\ DlvOk

(* ChannelTargetIssueFence, the first half of mark_issued *)
TargetCurrent(c) ==
    /\ runtime.rev = config.rev /\ runtime.gen = config.gen
    /\ config.gen = call[c].gen /\ config.paired

IssueFence(c) ==
    /\ call[c].pc = "fence"
    /\ IF TargetCurrent(c) THEN Goto(c, "attempt") /\ RowsKept ELSE FailUnissued(c)
    /\ EnvKept /\ WireKept /\ DlvOk

(* _mark_attempting *)
MarkAttempting(c) ==
    /\ call[c].pc = "attempt"
    /\ Store(c, [Row(c) EXCEPT !.status = "attempting", !.acts[call[c].at] = "attempting"])
    /\ Goto(c, "lookup")
    /\ EnvKept /\ WireKept /\ DlvOk

(* the second half of mark_issued: the adapter must still be the current   *)
(* one; on_issued is called and the request goes out                       *)
Issue(c) ==
    /\ call[c].pc = "lookup"
    /\ IF Adapter = call[c].adapter
       THEN /\ Move(c, [call[c] EXCEPT !.pc = "sent", !.issued = TRUE, !.told = TRUE])
            /\ issues' = [issues EXCEPT ![Key(c)][call[c].at] = @ + 1]
            /\ flight' = flight \cup {<<Key(c), call[c].at>>}
            /\ RowsKept /\ UNCHANGED shown
       ELSE FailUnissued(c) /\ WireKept
    /\ EnvKept /\ DlvOk

(* The platform takes a request, whoever still waits for it, or refuses it. *)
PlatformTakes(req) ==
    /\ req \in flight
    /\ flight' = flight \ {req} /\ shown' = shown \cup {req}
    /\ UNCHANGED <<issues, call>> /\ RowsKept /\ EnvKept /\ DlvOk

PlatformRefuses(req) ==
    /\ req \in flight
    /\ flight' = flight \ {req}
    /\ UNCHANGED <<issues, shown, call>> /\ RowsKept /\ EnvKept /\ DlvOk

(* execute_action returns: 2xx is sent, 4xx failed, anything else unknown  *)
Answered(c) ==
    LET req == <<Key(c), call[c].at>>
    IN /\ call[c].pc = "sent" /\ req \notin flight
       /\ Move(c, [call[c] EXCEPT !.pc = "record", !.result = IF req \in shown THEN "sent" ELSE "failed"])
       /\ RowsKept /\ EnvKept /\ WireKept /\ DlvOk

(* no answer, or one that cannot be read *)
AnswerLost(c) ==
    /\ call[c].pc = "sent" /\ DlvFault
    /\ Move(c, [call[c] EXCEPT !.pc = "record", !.result = "unknown"])
    /\ RowsKept /\ EnvKept /\ WireKept

(* Mutation: an action has no timeout. *)
NoTimeout(c) == FALSE /\ UNCHANGED dlvvars

(* _execute_adapter_action: the action's time is up; unknown once issued *)
ActionTimeout(c) ==
    /\ call[c].pc \in {"ready", "fence", "attempt", "lookup", "sent"}
    /\ IF call[c].issued THEN Move(c, [call[c] EXCEPT !.pc = "record", !.result = "unknown"]) /\ RowsKept
       ELSE FailUnissued(c)
    /\ EnvKept /\ WireKept /\ DlvOk

(* _mark_result *)
MarkResult(c) ==
    /\ call[c].pc = "record"
    /\ Store(c, [Row(c) EXCEPT !.acts[call[c].at] = call[c].result])
    /\ Move(c, [call[c] EXCEPT !.issued = FALSE, !.result = "none",
                               !.pc = IF call[c].result = "sent" THEN "next" ELSE "final",
                               !.at = IF call[c].result = "sent" THEN @ + 1 ELSE @])
    /\ EnvKept /\ WireKept /\ DlvOk

(* _finalize *)
Finalize(c) ==
    /\ call[c].pc = "final"
    /\ ReturnRow(c, Finalized(Row(c)))
    /\ EnvKept /\ WireKept /\ DlvOk

(* A commit fails and deliver() raises; the row is left as it is, unless   *)
(* it was the plan that could not be stored.                               *)
CommitFails(c) ==
    /\ call[c].pc \in {"prepare", "install", "record", "final"} /\ DlvFault
    /\ IF call[c].pc = "install" THEN ReturnRow(c, FailedBare(Row(c)))
       ELSE Move(c, Ended(c, "raised")) /\ RowsKept
    /\ EnvKept /\ WireKept

(***************************************************************************)
(* The turn is stopped, or the whole delivery takes too long: the          *)
(* execution is cancelled and drained, then the row is settled.            *)
(***************************************************************************)
Settle(c) == CancelledRow(Row(c), IF Row(c).acts = <<>> THEN 1 ELSE Min({call[c].at, Len(Row(c).acts)}),
                          call[c].issued)

CancelCall(c) ==
    /\ call[c].pc \notin {"idle", "done"} /\ DlvFault
    /\ IF call[c].pc \in Busy
       THEN Store(c, IF Row(c).status = "none" THEN FailedBare([NoRow EXCEPT !.gen = call[c].gen]) ELSE Settle(c))
       ELSE RowsKept
    /\ Move(c, Ended(c, "cancelled"))
    /\ EnvKept /\ WireKept

LogicalTimeout(c) ==
    /\ call[c].pc \in Busy \ {"prepare", "plan", "install"} /\ DlvFault
    /\ ReturnRow(c, Settle(c))
    /\ EnvKept /\ WireKept

(***************************************************************************)
(* The surroundings: configuration and connection change, the server stops *)
(* and starts.                                                             *)
(***************************************************************************)
Surroundings == UNCHANGED <<platform, text>> /\ RowsKept /\ WireKept /\ DlvOk
NewRuntime == [id |-> runtime.id + 1, gen |-> config.gen, rev |-> config.rev, online |-> TRUE]
Change == rebinds < Rebinds /\ rebinds' = rebinds + 1 /\ chanUp

Reconfigure ==
    /\ Change
    /\ \/ config' = [gen |-> config.gen + 1, rev |-> config.rev + 1, paired |-> FALSE]
       \/ config' = [config EXCEPT !.rev = @ + 1]
    /\ UNCHANGED <<runtime, call, chanUp>> /\ Surroundings

\* The runtime of a binding takes over a revision that keeps its credentials.
RuntimeFollows ==
    /\ runtime.rev # config.rev /\ chanUp
    /\ \/ runtime' = NewRuntime
       \/ runtime.gen = config.gen /\ runtime' = [runtime EXCEPT !.rev = config.rev]
    /\ UNCHANGED <<config, call, rebinds, chanUp>> /\ Surroundings

RuntimeDrops ==
    /\ Change /\ runtime.online
    /\ runtime' = [runtime EXCEPT !.online = FALSE]
    /\ UNCHANGED <<config, call, chanUp>> /\ Surroundings

RuntimeReturns ==
    /\ ~runtime.online /\ chanUp
    /\ runtime' = NewRuntime
    /\ UNCHANGED <<config, call, rebinds, chanUp>> /\ Surroundings

ServerDies ==
    /\ chanUp /\ DlvFault
    /\ chanUp' = FALSE
    /\ runtime' = [runtime EXCEPT !.online = FALSE]
    /\ call' = [c \in Call |-> IF call[c].pc = "idle" THEN call[c] ELSE Ended(c, "lost")]
    /\ UNCHANGED <<platform, text, config, rebinds>> /\ RowsKept /\ WireKept

(* repair_incomplete_deliveries, before any turn or channel starts *)
ServerStarts ==
    LET settled == [k \in Keys |-> IF row[k].status \in Open THEN Repaired(row[k]) ELSE row[k]]
    IN /\ ~chanUp
       /\ chanUp' = TRUE
       /\ row' = settled
       /\ failed' = failed \cup UNION {FailedTarget(settled[k]) : k \in Keys}
       /\ UNCHANGED <<platform, text, config, runtime, call, rebinds>> /\ WireKept /\ DlvOk

Step(c) ==
    \/ ResolveTarget(c) \/ ResolveRefs(c) \/ LockAndLook(c) \/ Prepare(c) \/ PlanOrFail(c)
    \/ InstallPlan(c) \/ NextAction(c) \/ DiscordPrepares(c) \/ DingTalkPrepares(c)
    \/ IssueFence(c) \/ MarkAttempting(c) \/ Issue(c) \/ Answered(c) \/ ActionTimeout(c)
    \/ MarkResult(c) \/ Finalize(c)
DeliveryProgress == (\E c \in Call : Step(c)) \/ ServerStarts

DeliveryNext ==
    \/ \E c \in Call : \/ CallTool(c) \/ DeliverFinal(c) \/ Step(c) \/ ToolExpires(c)
                       \/ AnswerLost(c) \/ CommitFails(c) \/ CancelCall(c) \/ LogicalTimeout(c)
    \/ \E req \in flight : PlatformTakes(req) \/ PlatformRefuses(req)
    \/ Reconfigure \/ RuntimeFollows \/ RuntimeDrops \/ RuntimeReturns \/ ServerDies \/ ServerStarts

(* Splitting a message loses no character: laid end to end the pieces are  *)
(* the text, and none is empty or longer than the platform takes           *)
(* (split_text_actions).                                                   *)
SplitLossless ==
    LET pieces == SplitText(text)
        before(k) == MapThenSumSet(LAMBDA j : Len(pieces[j]), 1..k - 1)
    IN /\ before(Len(pieces) + 1) = Len(text)
       /\ \A k \in 1..Len(pieces) :
             /\ Len(pieces[k]) \in 1..TextLimit
             /\ pieces[k] = SubSeq(text, before(k) + 1, before(k) + Len(pieces[k]))

(* No platform request is ever sent twice: not by a second caller with the *)
(* same key, not by a retry, not after a restart.                          *)
IssuedOnce == \A k \in Keys, i \in 1..MaxActions : issues[k][i] <= 1

(* A row never claims more than is known: what is recorded as sent was     *)
(* accepted, and what is recorded as failed or skipped can neither have    *)
(* been accepted nor still be, whatever interrupted it.                    *)
RowsHonest ==
    \A k \in Keys : \A i \in DOMAIN row[k].acts :
        /\ row[k].acts[i] = "sent" => <<k, i>> \in shown
        /\ row[k].acts[i] \in {"failed", "skipped"} => <<k, i>> \notin shown \cup flight

(* Once a delivery of a turn did not succeed, nothing more is sent to its  *)
(* target in that turn (the retry fence), by whatever path it failed.      *)
FailedTargetFenced ==
    \A k, l \in Keys, i \in 1..MaxActions :
        issues'[k][i] > issues[k][i] =>
            ~(row[l].status \in TerminalRows \ {"sent"} /\ row[l].gen = row[k].gen)

(* A request goes out only through the adapter that is connected at that   *)
(* moment, and for the binding it was addressed to, although configuration *)
(* and connection may change between planning, fence and request.          *)
IssuedThroughCurrent ==
    \A c \in Call : call[c].pc = "lookup" /\ call'[c].pc = "sent" =>
        call[c].adapter = Adapter /\ runtime.gen = call[c].gen

(* A request goes out only past the retry fence and through the current    *)
(* connection.                                                             *)
DeliveriesFenced == [][FailedTargetFenced /\ IssuedThroughCurrent]_dlvvars

(* The caller's on_issued has been called before anything is out: a tool   *)
(* call not reported as issued has had no effect on the platform.          *)
IssueReported ==
    \A k \in Keys : (\E i \in 1..MaxActions : issues[k][i] > 0) =>
        \E c \in Call : Key(c) = k /\ call[c].told

(* No row is left open while the server runs and nobody works on it,       *)
(* except by a call that raised because a commit failed.                   *)
RowsClosed ==
    \A k \in Keys : row[k].status \in Open =>
        \/ ~chanUp
        \/ \E c \in Call : Key(c) = k /\ (call[c].pc \in Busy \/ call[c].res = "raised")

(* What the rows, the counters and the callers say about a delivery is so, *)
(* whatever interrupted it: nothing is sent twice or unreported, no row    *)
(* claims more than is known, and none stays open.                         *)
LedgerHonest == IssuedOnce /\ RowsHonest /\ IssueReported /\ RowsClosed

(* The ledger is honest and the splitting loses nothing.                   *)
DeliveriesHonest == SplitLossless /\ LedgerHonest

(* A call of deliver() that has not returned. *)
InProgress == \E c \in Call : call[c].pc \notin {"idle", "done"}
=============================================================================
