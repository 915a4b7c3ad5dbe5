------------------------------ MODULE Services ------------------------------
(***************************************************************************)
(* The services around a conversation on the Server: its MCP clients       *)
(* (McpSupervisor), scheduled jobs (CronJobs, with the arithmetic of       *)
(* CronSchedule), the nightly consolidation of the memory (Dream) and the  *)
(* half-hourly pulse (Heartbeat).  They share no state: a behaviour        *)
(* follows one of them, its scene, or asks one question of an algorithm.   *)
(***************************************************************************)
EXTENDS McpSupervisor, CronJobs, Dream, Heartbeat

VARIABLE scene

servicesvars == <<scene, mcpvars, ask, cronvars, dreamvars, beatvars>>

(***************************************************************************)
(* The instances.                                                          *)
(***************************************************************************)
MCUser == [c \in {"a", "b"} |-> c]
McpBudget(n, which, a, b, u, f, x) ==
    [clients |-> n, calls |-> [l \in {"all", "user", "client"} |-> IF l = which THEN 1 ELSE 2],
     a |-> a, b |-> b, updates |-> u, forgets |-> f, faults |-> x]
MCBudgets == {McpBudget(1, "user", 1, 1, 0, 0, 1), McpBudget(2, "client", 1, 0, 1, 0, 1),
              McpBudget(1, "client", 1, 0, 0, 1, 2), McpBudget(2, "user", 2, 0, 0, 0, 2),
              McpBudget(2, "client", 2, 0, 1, 0, 0), McpBudget(1, "user", 1, 0, 1, 0, 2),
              McpBudget(2, "all", 1, 1, 0, 0, 0)}

\* Clocks are changed once, or forward and back; the change is two instants wide.
Changes(a, b, t) == [u \in 0 .. 9 |-> IF u < t THEN a ELSE b]
Summer(s, t) == [u \in 0 .. 9 |-> IF s <= u /\ u < t THEN 2 ELSE 0]
MCZones == {Changes(0, 0, 1)} \union {Changes(0, 2, t) : t \in 1 .. 9} \union {Changes(2, 0, t) : t \in 2 .. 9}
           \union {Summer(s, t) : s \in 1 .. 4, t \in 6 .. 8}
MCExprs == UNION {kSubset(k, 0 .. 11) : k \in 0 .. 3}
MCSchedules ==
    {[kind |-> "every", n |-> 2], [kind |-> "at", t |-> 2],
     [kind |-> "cron", x |-> 4 .. 7, z |-> Changes(2, 0, 4)],
     [kind |-> "cron", x |-> {1, 3, 5, 7}, z |-> Changes(0, 0, 4)],
     [kind |-> "local", l |-> 4, z |-> Changes(2, 0, 4)],
     [kind |-> "local", l |-> 4, z |-> Changes(0, 2, 3)]}
MCCron == {[edits |-> 2, faults |-> 0], [edits |-> 1, faults |-> 1], [edits |-> 0, faults |-> 2]}

MCLength == [m \in 1 .. 3 |-> 3 - m + (IF m = 3 THEN 0 ELSE 1)]
DreamBudget(r, f, e, s, d) == [early |-> r, faults |-> f, edits |-> e, restores |-> s, deletes |-> d]
MCDream == {DreamBudget({1, 2}, 2, 1, 0, 0), DreamBudget({1}, 1, 1, 1, 0), DreamBudget({3}, 1, 0, 1, 0),
            DreamBudget({1, 2}, 1, 0, 0, 1)}
MCPulse == {[faults |-> 2, deletes |-> 1]}

(***************************************************************************)
(* The composition: what a scene does not use has one initial value.       *)
(***************************************************************************)
Pins(name, v, set) == IF scene = name THEN TRUE ELSE v = CHOOSE x \in set : TRUE

ServicesInit ==
    /\ scene \in {"mcp", "arithmetic", "cron", "dream", "document", "pulse"}
    /\ Pins("arithmetic", ask, [z : {Changes(0, 0, 1)}, x : {{}}, now : {0}]) /\ Pins("document", doc, {<<>>})
    /\ Pins("mcp", budget, Budgets) /\ Pins("mcp", remote, {TRUE})
    /\ Pins("cron", cb, CronBudgets) /\ Pins("dream", dbud, DreamBudgets) /\ Pins("pulse", hb, PulseBudgets)
    /\ McpInit /\ ScheduleInit /\ CronInit /\ DreamInit /\ HeartbeatInit

ServicesNext ==
    /\ UNCHANGED <<scene, ask>>
    /\ \/ scene = "mcp" /\ McpNext /\ UNCHANGED <<cronvars, dreamvars, beatvars>>
       \/ scene = "cron" /\ CronNext /\ UNCHANGED <<mcpvars, dreamvars, beatvars>>
       \/ scene = "dream" /\ DreamNext /\ UNCHANGED <<mcpvars, cronvars, beatvars>>
       \/ scene = "pulse" /\ HeartbeatNext /\ UNCHANGED <<mcpvars, cronvars, dreamvars>>

ServicesProgress ==
    /\ UNCHANGED <<scene, ask>>
    /\ \/ scene = "mcp" /\ McpProgress /\ UNCHANGED <<cronvars, dreamvars, beatvars>>
       \/ scene = "cron" /\ CronProgress /\ UNCHANGED <<mcpvars, dreamvars, beatvars>>
       \/ scene = "dream" /\ DreamProgress /\ UNCHANGED <<mcpvars, cronvars, beatvars>>
       \/ scene = "pulse" /\ HeartbeatProgress /\ UNCHANGED <<mcpvars, cronvars, dreamvars>>

ServicesSpec == ServicesInit /\ [][ServicesNext]_servicesvars /\ WF_servicesvars(ServicesProgress)

\* The two algorithms that read a schedule and a document give what their declarative
\* definitions give, across every clock change and every arrangement of the lines:
\* automations/cron.py finds the neighbouring occurrences, parse_heartbeat_tasks the open tasks.
ReadersExact == NeighboursExact /\ TasksExact

\* What the automations record is so, whatever failed or was repeated in between: a
\* stored job has its timer, an edit of the memory note survives, the history of the
\* note tells what is in it, no message is skipped or read twice, and a pulse is
\* published once.
AutomationsHonest == TimerStands /\ EditsKept /\ RecordTrue /\ ProgressEarned /\ PulseOnce

\* Whatever a service begins it ends: a turn's use of its MCP clients, their cleanup and
\* an administrator's request; a timer that is due; a run or a restore of the memory
\* note, across failures and restarts; and a pulse.
ServicesUnfinished ==
    \/ scene = "mcp" /\ McpUnfinished
    \/ scene = "cron" /\ CronUnfinished
    \/ scene = "dream" /\ DreamUnfinished
    \/ scene = "pulse" /\ HeartbeatUnfinished
ServicesSettle == ServicesUnfinished ~> ~ServicesUnfinished
=============================================================================
