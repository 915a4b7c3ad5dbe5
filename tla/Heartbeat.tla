----------------------------- MODULE Heartbeat ------------------------------
(***************************************************************************)
(* The half-hourly pulse (server automations/heartbeat.py and durable.py,  *)
(* services/heartbeat.py): which lines of HEARTBEAT.md are tasks, and the  *)
(* durable workflow of one user, which asks the gate and publishes one     *)
(* message to the user's heartbeat session.                                *)
(***************************************************************************)
EXTENDS Naturals, Sequences, FiniteSets, FiniteSetsExt

CONSTANTS
    LineKinds,      \* the kinds of lines of a document
    MaxLines,       \* the lines of a document at most
    Pulses,         \* 1..n
    PulseTries,     \* max_attempts of the step
    PulseBudgets    \* records [faults, deletes] of a behaviour

ASSUME HeartbeatBounds ==
    /\ LineKinds \subseteq {"active", "other", "sub", "tick", "ticks", "tilde", "open", "done", "text"}
    /\ MaxLines \in Nat /\ Pulses \subseteq Nat /\ IsFiniteSet(Pulses) /\ PulseTries \in Nat \ {0}

(***************************************************************************)
(* The document.  A line is "## Active Tasks" (active), another heading of *)
(* level one or two (other), a deeper one (sub), a code fence of three     *)
(* backticks (tick), more of them (ticks) or tildes (tilde), an item that  *)
(* is open or checked (done), or text.                                     *)
(***************************************************************************)
Documents == UNION {[1 .. n -> LineKinds] : n \in 0 .. MaxLines}
FenceOf == [k \in {"tick", "ticks", "tilde"} |->
              [mark |-> IF k = "tilde" THEN "tilde" ELSE "tick", long |-> k = "ticks"]]
NoFence == [mark |-> "none", long |-> FALSE]

\* _updated_fence: a fence is closed by its own mark, at least as long.
UpdatedFence(fence, line) ==
    IF line \notin DOMAIN FenceOf THEN fence
    ELSE LET f == FenceOf[line]
         IN IF fence = NoFence THEN f
            ELSE IF f.mark = fence.mark /\ (fence.long => f.long) THEN NoFence
            ELSE fence
Fences(d) ==
    LET f[i \in 0 .. Len(d)] == IF i = 0 THEN NoFence ELSE UpdatedFence(f[i - 1], d[i])
    IN f

\* extract_active_tasks: from the first such heading to the next one of its level.
ActiveTasks(d) ==
    LET fence == Fences(d)
        heads == {i \in 1 .. Len(d) : fence[i] = NoFence /\ d[i] = "active"}
        ends == {i \in 1 .. Len(d) : /\ fence[i] = NoFence /\ d[i] \in {"active", "other"}
                                       /\ i > Min(heads)}
    IN IF heads = {} THEN {}
       ELSE Min(heads) + 1 .. (IF ends = {} THEN Len(d) ELSE Min(ends) - 1)

\* parse_heartbeat_tasks: the open items, with the lines that follow them.
Closed(st) == [st EXCEPT !.current = {},
                         !.tasks = IF st.current # {} /\ ~st.completed
                                   THEN @ \union {st.current} ELSE @]

\* One line of the loop.
ParsedLine(st, before, after, line, i) ==
    CASE before # NoFence \/ after # NoFence ->
            IF st.current = {} THEN st ELSE [st EXCEPT !.current = @ \union {i}]
      [] line \in {"open", "done"} ->
            [Closed(st) EXCEPT !.completed = line = "done", !.current = {i}]
      [] line = "sub" -> [Closed(st) EXCEPT !.completed = FALSE]
      [] OTHER -> [st EXCEPT !.completed = IF st.current = {} THEN FALSE ELSE @,
                             !.current = @ \union {i}]
ParseHeartbeatTasks(d) ==
    LET part == ActiveTasks(d)
        lines == [i \in 1 .. Cardinality(part) |-> d[Min(part) + i - 1]]
        fence == Fences(lines)
        p[i \in 0 .. Len(lines)] ==
            IF i = 0 THEN [tasks |-> {}, current |-> {}, completed |-> FALSE]
            ELSE ParsedLine(p[i - 1], fence[i - 1], fence[i], lines[i], Min(part) + i - 1)
    IN Closed(p[Len(lines)]).tasks

(***************************************************************************)
(* The pulse of one user.                                                  *)
(***************************************************************************)
VARIABLES
    doc,            \* the document a behaviour asks about
    pulse,          \* the status of each pulse's workflow
    beat,           \* the workflow that runs, if any
    turn,           \* a turn of the heartbeat session runs
    history,        \* the pulses whose message is in the session
    told,           \* how often each pulse was published to this session
    hb              \* what is left of the budget
beatvars == <<doc, pulse, beat, turn, history, told, hb>>

NoBeat == [p |-> 0, pc |-> "none", tries |-> 0]

HeartbeatInit ==
    /\ doc \in Documents
    /\ pulse = [p \in Pulses |-> "none"] /\ beat = NoBeat /\ turn = FALSE
    /\ history = {} /\ told = [p \in Pulses |-> 0]
    /\ hb \in PulseBudgets

\* The schedule fires; a pulse that is late is dropped, and one that finds the user's
\* last workflow unfinished gets that one (deduplication_id).
PulseFires(p, current) ==
    /\ pulse[p] = "none" /\ \A q \in Pulses : q < p => pulse[q] # "none"
    /\ pulse' = [pulse EXCEPT ![p] =
                   IF current /\ ~\E q \in Pulses : pulse[q] \in {"queued", "running"}
                   THEN "queued" ELSE "dropped"]
    /\ UNCHANGED <<doc, beat, turn, history, told, hb>>

BeatStarts(p) ==
    /\ pulse[p] = "queued" /\ beat = NoBeat
    /\ pulse' = [pulse EXCEPT ![p] = "running"]
    /\ beat' = [NoBeat EXCEPT !.p = p, !.pc = "busy"]
    /\ UNCHANGED <<doc, turn, history, told, hb>>

\* _process_user: a busy session, an empty document or the gate ends the pulse.
SessionIsBusy ==
    /\ beat.pc = "busy"
    /\ beat' = [beat EXCEPT !.pc = IF turn THEN "record" ELSE "load"]
    /\ UNCHANGED <<doc, pulse, turn, history, told, hb>>
LoadDocument(found) ==
    /\ beat.pc = "load"
    /\ beat' = [beat EXCEPT !.pc = IF found THEN "decide" ELSE "record"]
    /\ UNCHANGED <<doc, pulse, turn, history, told, hb>>
BeatDecides(go) ==
    /\ beat.pc = "decide"
    /\ beat' = [beat EXCEPT !.pc = IF go THEN "publish" ELSE "record"]
    /\ UNCHANGED <<doc, pulse, turn, history, told, hb>>

\* _publish_heartbeat_phase_two: the id of the message is made of the pulse.
PublishPhaseTwo ==
    /\ beat.pc = "publish"
    /\ beat' = [beat EXCEPT !.pc = "record"]
    /\ IF beat.p \in history \/ turn
       THEN UNCHANGED <<turn, history, told>>
       ELSE /\ turn' = TRUE /\ history' = history \union {beat.p}
            /\ told' = [told EXCEPT ![beat.p] = @ + 1]
    /\ UNCHANGED <<doc, pulse, hb>>

BeatRecorded ==
    /\ beat.pc = "record"
    /\ pulse' = [pulse EXCEPT ![beat.p] = "done"]
    /\ beat' = NoBeat
    /\ UNCHANGED <<doc, turn, history, told, hb>>

\* The step raises, or its commit is not acknowledged, or the Server restarts.
BeatFails ==
    /\ beat # NoBeat /\ hb.faults > 0 /\ hb' = [hb EXCEPT !.faults = @ - 1]
    /\ \/ /\ beat.tries + 1 < PulseTries
          /\ beat' = [beat EXCEPT !.pc = "busy", !.tries = @ + 1] /\ UNCHANGED pulse
       \/ /\ beat.tries + 1 = PulseTries
          /\ beat' = NoBeat /\ pulse' = [pulse EXCEPT ![beat.p] = "done"]
       \/ beat' = NoBeat /\ pulse' = [pulse EXCEPT ![beat.p] = "queued"]
    /\ UNCHANGED <<doc, turn, history, told>>

TurnEnds ==
    /\ turn /\ turn' = FALSE
    /\ UNCHANGED <<doc, pulse, beat, history, told, hb>>

\* The user deletes the session: what is published next goes to a new one.
SessionDeleted ==
    /\ history # {} /\ ~turn /\ hb.deletes > 0 /\ hb' = [hb EXCEPT !.deletes = @ - 1]
    /\ history' = {} /\ told' = [p \in Pulses |-> 0]
    /\ UNCHANGED <<doc, pulse, beat, turn>>

HeartbeatProgress ==
    \/ \E p \in Pulses : BeatStarts(p)
    \/ SessionIsBusy \/ (\E ok \in BOOLEAN : LoadDocument(ok) \/ BeatDecides(ok)) \/ PublishPhaseTwo \/ BeatRecorded
HeartbeatNext ==
    \/ HeartbeatProgress
    \/ \E p \in Pulses, c \in BOOLEAN : PulseFires(p, c)
    \/ BeatFails \/ TurnEnds \/ SessionDeleted

(***************************************************************************)
(* Properties                                                              *)
(***************************************************************************)
\* What parse_heartbeat_tasks offers to the gate is the open items of the section:
\* no line of a checked item, of another section, or of a fence outside an item.
TasksExact ==
    LET part == ActiveTasks(doc)
        fence == Fences(doc)
        bare(i) == fence[i] = NoFence /\ fence[i - 1] = NoFence
        heads(i) == {j \in part : j <= i /\ bare(j) /\ doc[j] \in {"open", "done", "sub"}}
        head(i) == IF heads(i) = {} THEN 0 ELSE Max(heads(i))
        prose(i) == \E j \in part : head(i) < j /\ j <= i /\ bare(j) /\ doc[j] = "text"
        task(i) == IF head(i) # 0 /\ doc[head(i)] \in {"open", "done"}
                   THEN doc[head(i)] = "open" ELSE prose(i)
    IN UNION ParseHeartbeatTasks(doc) = {i \in part : task(i)}

\* A pulse is published once to a session, however often its step is repeated.
PulseOnce == \A p \in Pulses : told[p] <= 1

\* A workflow is queued or runs.
HeartbeatUnfinished == \E p \in Pulses : pulse[p] \in {"queued", "running"}
=============================================================================
