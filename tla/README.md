# OpenOctopus in TLA+

OpenOctopus is a server that runs AI agent conversations for many users, a client
that lends a user's machine (a Device) to those conversations, and a web frontend.
This directory models the parts of it whose correctness depends on the order in
which processes, requests, crashes and time-outs meet. TLC checks the models on
small instances; TLAPS proves the central invariants of most of them for every
instance.

Paths below are relative to `src/`; `S/` is `server/src/openctopus_server/` and
`C/` is `client/src/openoctopus_client/`. `PROJECT.json` lists every component with
its status and sources, the lines each definition translates, and every hazard with
the line where it bites and the properties that cover it.

## The system

| Part | Where | Hard part | Modules |
|---|---|---|---|
| Sessions, inbox, turns, runner, durable workflows, channel recovery | `S/services/messages.py`, `S/chat/{runner,durable,agent,tool_receipts,repair,cancellation}.py`, `S/channels/recovery.py` | who starts the next turn; stop against the end of a turn; crash and replay | `Conversation` |
| Device connections, configuration, tokens, MCP registration | `S/devices/registry.py`, `S/api/{device_ws,devices}.py`, `S/devices/mcp_routes.py` | replacement, late answers, fence and commit against calls and handshakes | `DeviceRegistry` |
| File transfers | `S/devices/transfer*.py`, `C/{transfer,writer}.py`, `S/tools/file_transfer.py` | lost acknowledgement, late commit, crossing terminals | `TransferClient`, `TransferDirect`, `TransferBridge`, `Transfers`, `AtomicTransfer` |
| Directory transfers | `S/tools/*directory*.py`, `C/tools/directory_jobs.py` | a failed child, a lost command, who takes what back | `DirectoryJobs`, `DirectoryTransfer` |
| Admission | `S/admission.py`, `S/devices/transfer_admission.py`, `C/transfer_admission.py` | a slot granted while its request times out | `Admission` |
| Object store access | `S/workspace/storage.py` | connections held by streams and threads; copies that need two | `ObjectPool` |
| Relays of Device files | `S/api/workspace_files.py`, `S/channels/media.py` | the end of a stream against failures on either side | `Relays` |
| Workspace files and lifecycle | `S/workspace/*`, `S/services/workspace*.py` | leases, quota, deletion with a crash between purge and row | `SubtreeLeases`, `WorkspaceFiles` |
| Channels | `S/channels/*`, `S/services/channels.py` | reconnects, duplicates, a crash after a message was issued | `ChannelManager`, `ChannelIngress`, `ChannelDelivery` |
| Client connection, MCP runtimes, command sessions | `C/connection.py`, `C/mcp/*`, `C/{exec_sessions,process}.py` | configuration changes against calls, spawn against shutdown | `ClientConnection`, `ClientMcp`, `ExecSessions` |
| Server MCP | `S/mcp/*`, `S/api/admin/server_mcp.py` | eviction, calls that outlive their deadline | `McpSupervisor` |
| Automations | `S/automations/*`, `S/services/cron.py` | a timer against an edit of its job; write-ahead record | `CronJobs`, `CronSchedule`, `Dream`, `Heartbeat` |
| Prompts, providers, streams, content tools, accounts, frontend | see `PROJECT.json` | text, rendering and single transactions | not modelled |

How they interact: an inbound message (web, channel or automation) is accepted into
a session's inbox in one transaction, which either reserves a turn and enqueues a
DBOS workflow for it or leaves the message pending. The workflow prepares the turn,
asks the model, runs tool calls - on a Device through the registry, on an MCP client,
on the workspace, or as a transfer - and at the end drains the inbox and delivers the
answer to its channel. A stop request, a crash or a revoked sender can come between
any two of those transactions.

Where parts interact through state, a module extends the other (`TransferBridge`
extends `TransferDirect` extends `TransferClient`; `WorkspaceFiles` extends
`SubtreeLeases`; `ClientConnection` extends `ClientMcp`). Parts that share no state
are explored in one run by a composing module (`DeviceTransfers`, `Channels`,
`Client`, `Services`): a variable `scene`, chosen initially, says which part a
behaviour follows, and the properties of a part speak about its scenes. A directory
transfer uses of its child transfers only what `AtomicTransfer` promises, which the
run shows of `Transfers`.

## Modules and code

### Conversation

One session. Each transaction under the session's advisory lock is one action; a
handler with two transactions has two actions. A DBOS step that was journaled
returns its journal on replay. A crash clears `task` (the executions) and `op` (the
handler that holds `session_operation`) and keeps the tables and DBOS's own state.

| Variables | Code |
|---|---|
| `pending`, `rows`, `run`, `ops`, `requests`, `cancelReq`, `cancels` | the rows of `PendingMessage`, `Message`, `TurnRun`, `ToolOperation`, `AgentRequest`, `Session.cancel_requested`, `WorkflowCancellation` |
| `wf`, `queue`, `jPrep`, `jResp`, `jTool`, `jRes` | DBOS workflow status, queue partition, step journals |
| `revoked` | messages whose sender or channel binding is no longer current |
| `task`, `op`, `up` | in-process state |
| `accepted`, `execs` | history: what was accepted, how often a tool was issued |

Actions have the names of the functions they translate (`publish_inbound`,
`reserve_pending_turn`, `claim_tool`, `finish_tool_batch_and_continue`,
`reconcile_cancellation`, ...). Turn ids stand for the UUIDs derived by `uuid5`; the
content of messages, prompts and results is abstracted to what the properties tell
apart. Not in the module: the SSE subscribers, session deletion, delegates (a turn's
workflow is its own root), compaction, the text of errors.

### DeviceRegistry

One Device. A step runs from one suspension point that can really block to the next.
The code's locks (`config_update_lock`, `_register_lock`, `send_lock`) are state
functions of the program counters of the coroutines that hold them, so a forgotten
release shows as a coroutine that never moves on. `conn` holds the `_Connection`
objects, `sock`, `mcp`, `patch`, `rvk`, `call` and `unreg` the coroutines. The
revision `rev` and the token version `token` are the durable row. `fence` is the
publication fence, by generation. The Device is modelled by the frames it may send:
it applies a configuration or not, registers MCP servers for a revision it
installed, answers a call or not, and may disconnect at any time.

Not in the module: renames, validation tombstones and the send lock of the
validation exchange, heartbeat contents, secret transport checks, per-user and byte
limits (the number of pending calls is the limit modelled), server shutdown,
`_discard_registration` on cancellation.

Two coincidences are explored only where a run's `Races` names them:

* `late_timeout`: the wait of `begin_config_update` for an MCP registration times out
  in the loop iteration in which that registration ends.
* `epoch_expiry`: a revocation epoch is forgotten after its time to live.
  `RevokedStaysOut` is checked without it, that is, for handshakes shorter than the
  time to live. An epoch that expires and is bumped again takes a value a slower
  handshake may have captured, so the property relies on that assumption.

### Transfers, directories, admission, object store, relays

`TransferClient` is the Device's `TransferManager` with its writer lane and the two
wires to the server; `TransferDirect` is the server's for a push or a pull;
`TransferBridge` the relay between two Devices. A step is what runs between two
awaits, and a frame is sent, taken or lost with its connection. `cl`, `sv` and `bs`
are the slots with their tombstones, `job` the caller. A body stands for a byte count
and a digest: the versions of the source its chunks were read from, so that an edited
source shows. `AtomicTransfer` is what the caller is promised: the destination appears
once and whole, a source goes only after that and only as it was copied, and a
definite failure means the destination will not appear. `Transfers` implements it
(`AtomicOutcome`, by `INSTANCE ... WITH` the disk and the caller's answer).

`DirectoryJobs` is the Device's record of a directory job with its commands;
`DirectoryTransfer` the server's coordinator over its four backends, with commands
that time out, reconcile and cross with late answers. `heard` is the
outcome of each side's cancel: a repeated cancel returns it, and asks the Device when
there is none. In the server's own workspace a file may be published by a store request
that fails, and then nothing records it.
Not in the module: the child that validates a staged Skill.

`Admission` has the fair admission of transfers (a queue per user, users in turn), the
keyed admission of bounded work (two condition variables) and the slots of a Device.
`ObjectPool` has `ObjectStream`, `ObjectUpload` with its worker thread and queue, and
copies, which hold a connection for the source while they take one for the upload;
`free` is the semaphore, `temp` and `final` the objects. `Relays` is the queue between
a transfer's task (`sender`, `sink`) and the download or channel that reads (`reader`).

### Workspace

`SubtreeLeases` is `SubtreeLeaseManager` with its condition variable and
`KeyedLockManager` with its evicted entries. `WorkspaceFiles` runs operations (`op`)
section by section: leases, workspace lock, the decision (a plan of store requests),
the requests one by one, release. It has writes, edits, patches, deletions, copies and
moves, uploads, directory jobs with their quota reservation, the removal of the
workspace (retire, commit, purge, forget), the outbox collector, and the cache of
parsed skills with a load in flight. `objects` is the store; a crash loses everything
but `objects`, `alive` and `outbox`. An operation is in a `WaitCycle` only if the owner of
every lease that blocks it waits for a lease as well; one that waits for a running
operation must get on. `StoreSound` includes that no lease, queued request, lock
or reservation outlives its operation (`NothingLeaked`).

### Channels

`ChannelManager` has the stored configuration `cfg` and the runtime entries `ent`, with
starts, reconnects, replacement, recovery of a binding and shutdown. `ChannelIngress`
follows concurrent handlers `ev` from the gate to the one transaction that publishes a
message, with pairing, attachments and quoted context. A bot that has no owner yet
receives every message and accepts the senders on its allow list; that the runtime and
the binding still stand is tested again under the event lock. Receipts and attachments
are kept by binding and message. A transaction that fails leaves nothing (`RolledBack`),
and one that committed may be followed by a failure before the hand-off; an error raised
by a commit that took effect is not in the module. In `ChannelManager` a stop may hang,
and a runtime that something marked degraded is not recovered again when its
configuration is applied; the cancellation of the tasks that remain at the end of a
shutdown is left out. `ChannelDelivery` keeps `row`
(the delivery and its actions) for each delivery key, issues actions through the
adapter and repairs what a crash left; `SplitText` is the splitting of long texts,
checked over all texts of up to five characters of three classes.

### Client

`ClientMcp` is the supervisor as one record `mc`: an operator takes the record and
returns the next one, as the methods change `self`. `ClientConnection` adds the run
loop `cl`, the server's side `srv` and the frames `net`. The tool worker runs until the
teardown stops it, also on a connection that is already lost. A retry of a runtime
(`RetryFires`) waits until no request of its closed session is open: such a request
fails at once, and the backoff is 0.8 seconds or more. The branch of `begin_retry` for an
incomplete cleanup is left out, since backoff is entered only with a complete one. `ExecSessions` has the command
sessions, their terminations queued on the session's lock, policy changes and
shutdown; the process and the kernel are external.

### Services

`McpSupervisor` has an `_Entry` with its runtime per conversation (`rt`), the leases of
calls, and the administration request that changes the configuration. No section under
its lock awaits, so consecutive sections without an await between them are one step.
All clients share a transport, so that `MaxClients` is the stdio limit too. `CronJobs` is one
job row with its timer workflows, `CronSchedule` the time arithmetic checked against
the definition of an occurrence for every zone with one clock change and every set of
up to three local times. `Dream` is the run row with its write-ahead record over the
note in another store. `Heartbeat` is the task parser, checked over all documents of up
to five lines, and the pulse.

## Runs

A property that is a conjunction is named after what it is about; its conjuncts are
the named properties of the modules.

| Run | Question | Instance | Distinct states |
|---|---|---|---|
| `conversation_faults` | are messages, tools and history safe when steps fail and the server crashes? | 2 messages, batches of 2 calls, 1 crash, failing steps | 2.2 million |
| `conversation_progress` | does every message settle, across a crash? | 3 messages, 1 crash, fair | 257,000 |
| `conversation_stop` | does a stop meet only its own turn? | 2 messages, 1 stop, 1 crash | 463,000 |
| `conversation_channel` | is a channel's turn authorised and unmixed? | 3 messages, one of a guest, 1 crash, 1 revocation | 2.1 million |
| `conversation_stop_pairing` | is a stopped batch fully paired? | 1 message, 1 stop | violated, see below |
| `Device_routing` | are calls issued under the durable configuration, outcomes honest, credits and fences conserved, revoked tokens out? | any 4 of 2 sockets, 2 calls, registrations, a PATCH, a revocation | 2.5 million |
| `Device_progress` | do locks and fences wait without a cycle? | any 3 operations, both races, fair | 225,000 |
| `transfers` | is a transfer atomic, a directory honest, every slot, connection and lease given back, and does it end? | 2 chunks, 1 fault (directories: 2 files, 2 faults), 6 requests for 3 slots, 3 pieces of work on 2 connections, relays of 3 chunks with 2 faults | 906,000 |
| `workspace` | are quota, tree, edits, deletion and the skills cache right, and does work end? | 2 callers and the collector, quota of 3, 1 fault | 487,000 |
| `channels` | is an action issued once and recorded, does the connection follow the configuration, is a message used once? | 3 deliver calls, 2 configuration requests, 4 platform messages on 2 handlers, 1 fault each | 899,000 |
| `client` | do client and server agree on configuration and routes, and does no process escape? | 4 runtimes, 2 command sessions, budgets of changes and faults | 515,000 |
| `services` | are limits kept, jobs fired when due, runs recorded truly, tasks read exactly? | 2 conversations on 1 or 2 clients, clock of 9, 3 messages, 2 pulses | 939,000 |

Where a hazard is covered by an action property, it is stated over every step:
`NoStaleIssue` (no call under a configuration that is no longer durable),
`ReservedInputsAuthorized`, `DeliveriesFenced`, `StandingAtCommit` (what a message was
allowed is judged at its commit), `WritesOwned` (an edit starts from the latest content,
a directory job's subtree changes only through it, a retired workspace is frozen),
`ReplacedInTurn`, `ServedByCurrent`.

### Bounds

Two or three messages are the fewest with which a message arrives during a turn and
another during the drain that follows. One crash is enough for every replay: a second
starts from a state the first already reaches, except for the journals, which the
proofs cover without a bound. `MaxBatch` 2 gives a batch of which only a part is
answered. `MaxTurns` is large enough that no behaviour of the run is cut off by it. For
the Device, two sockets give replacement and a late unregister, `MaxPending` and
`MaxTombs` of 1 put both limits within reach, and `MaxOps` bounds how many operations
begin. Messages, sockets and calls are interchangeable, and symmetry is used where no
liveness property is checked.

Two chunks and a lane of one make a sender wait in the middle of a file and a digest
differ from a prefix's. `RelayModes` leaves out relayed copies: they take the steps of
a relayed move that finds its source disconnected before the deletion; pushes and
pulls are explored in both modes. Two faults of a directory transfer let the cleanup
after one fail as well. Six requests of three users with three slots (two per user) reach both limits
with somebody waiting at each. Two connections are the fewest the configuration
admits, and the ones with which copies could hold them all. Two callers and the
collector are the fewest with which leases form a cycle. Two concurrent handlers with
three deliveries give a duplicate that overlaps and one that comes late. Two
conversations on one client give an eviction; on two, the limit on starts. The limits on
calls (of all, of a user, of a client) differ by budget, so that each binds alone in one. Budgets
(`MCBudgets`, `MCConn`, `MCExec`, ...) say which combinations of changes and faults a behaviour
may have; each is the largest of its kind that keeps the run in minutes.

### Deadlock and fairness

`transfers` and `workspace` check for deadlock. In the others the system may come to
rest when everything has settled; that nothing rests early is what the liveness
properties state.

`Conversation`: weak fairness of every workflow, of the handler in progress, of DBOS's
dequeue and of the restart; the event loop and DBOS guarantee the first three, the
deployment (`compose.yaml` restarts the server) the last. `EveryMessageSettles` is checked
without failing steps: with them, a step may fail again after each replay; and without
a stop, see below. `DeviceRegistry`: weak fairness of each coroutine, whose steps
include the time-outs that bound its sends and waits. The composed runs: weak fairness
of the system's own work as a whole. That is enough because a behaviour has a bounded
number of requests, faults and changes and no cycle of its own steps other than waits
with a time-out. Nowhere is there fairness for new requests, faults, disconnections or
the frames of a peer that may be silent.

`OperationsEnd` excuses operations that wait for each other's leases (`WaitCycle`), see
below.

## Disagreements with the repository's statements

`conversation_stop_pairing`: a stop lists the open tool calls before it takes the
session lock (`S/chat/cancellation.py:44`); an assistant row written in between stays
unpaired behind the stop marker (`docs/DECISIONS.md:3815`).

Seen while modelling and not given a run of their own.

Conversation:

* A workflow submitted for a turn that another workflow owns fails whatever turn is
  running when its own is already completed (`S/chat/runner.py:1250`, `durable.py:186`).
* Channel recovery commits a reservation and submits it later; a crash in between leaves
  a running turn nobody executes (`S/channels/recovery.py:106`, `docs/SCHEMA.md:529`).
* A stop that was committed and whose server dies before it is applied leaves a web
  message queued until the next one; `EveryMessageSettles` therefore has no stops.
* A stop that arrives after the final answer still marks the turn cancelled
  (`docs/DECISIONS.md:3804`); one that races the end of a batch leaves the next turn
  running (`docs/DECISIONS.md:678`).
* A tool that was claimed may run after the row that says it was not executed
  (`S/services/messages.py:45`); a sender revoked before a replay gets an error row over
  unpaired calls (`S/chat/agent.py:352`).

Devices and transfers:

* A late MCP wait time-out leaves a ready connection unfenced, and a call goes out under
  the old configuration after the new one is durable (`S/devices/registry.py:1766` and
  `:1812`); `NoStaleIssue` is checked without that race.
* A receiver's local time-out that crosses the sender's success terminal costs the
  destination its connection (`C/transfer.py:667`).
* An upload whose worker ends while `finish` waits for room in the queue is reported
  failed and deleted although it was stored (`S/workspace/storage.py:303`).

Workspace:

* Two patches over REST, or a directory job and an operation on the whole workspace, can
  wait for each other's leases (`docs/specs/2026-08-05-py4a-workspace-fs-design.md:276`).
* A store request that lands after `forget_workspace` leaves objects nobody lists.

Channels:

* A removal that deletes a configuration pops the runtime of a PATCH that came in
  between (`crossed` in `ChannelManager`); it also forgets that a recovery of the newer
  binding runs, so that another may start beside it (`S/channels/manager.py:751`).
* A runtime that comes online while a replaced one of its binding is still recovering
  counts the binding as recovered; when the older recovery is then cancelled, nobody
  recovers the messages until the next connection (`S/channels/manager.py:551`,
  `docs/specs/2026-09-02-py10-channels-design.zh.md:885`).

Client:

* The deadline of an MCP registration runs on while a configuration update is
  installed; one that takes long costs the connection (`C/connection.py:694`). In the
  model it is a lost connection.
* A command session whose cleanup was once incomplete stays so after a retry succeeds
  (`C/process.py:498`).

Services:

* A job that is edited back to a fire time it had before is enqueued under a workflow id
  that was used or cancelled, and has no timer; so has one whose fire was given up after
  its last attempt (`S/services/cron.py:174`, `S/automations/durable.py:60`,
  `docs/specs/2026-10-03-pydantic-ai-harness-runtime.md:177`). `TimerStands` excuses both.
* A client whose cleanup was blocked is no longer counted once its own conversation has
  put another in its place (`S/mcp/supervisor.py:272`,
  `docs/specs/2026-10-02-conversation-server-mcp-lifecycle.md:42`).
  `CountedUnlessReplaced` excuses it.

## Proofs

For every value of the constants that satisfies the named assumptions of the modules
(`ConversationAssumption`, `RegistryAssumption`, `PoolBounds`, `RelayBounds`,
`DeliveryAssumption`, `ManagerAssumption`): any number of messages, stops, crashes and turns; any number
of sockets, PATCHes and revocations and any finite set of calls; any finite work on two
or more connections; any length of files and queues; any deliveries, plans, requests
and runtime entries; any command sessions; any number of faults.

| Theorem | Statement |
|---|---|
| `TypeCorrect` | `Spec => []TypeOK` (`Conversation`) |
| `OneRunning` | `Spec => []OneRunningTurn` |
| `StopFlag` | `Spec => []StopFlagNeedsTurn` |
| `Isolation` | `Spec => []GuestIsolation` |
| `ReservedAuthorized` | `Spec => ReservedInputsAuthorized` |
| `ToolOnce` | `Spec => []ToolAtMostOnce` |
| `CallsAreAccounted` | `Spec => []CallsAccounted` (`DeviceRegistry`) |
| `RevokedTokensStayOut` | `Spec => []RevokedStaysOut`, if no epoch expires |
| `HandlesAreNotReused` | `Spec => []UnregisterHitsOwn`, if no epoch expires |
| `FencesHaveOwners` | `Spec => []FenceOwned` |
| `FencesAndHandlesAreOwned` | `Spec => []FencesAndHandlesOwned`, if no epoch expires |
| `NothingStaleIsIssued` | `Spec => NoStaleIssue`, if no epoch expires and no timeout is late |
| `ConnectionsAreConserved` | `PoolSpec => []ConnectionsConserved` |
| `PoolIsNotStuck` | `PoolSpec => []PoolNotStuck` |
| `UploadsAreExact` | `PoolSpec => [](TempsOwned /\ PublishedExact)` |
| `RelayIsHonest` | `RelaySpec => []RelayHonest` |
| `IngressIsExact` | `IngressSpec => []IngressExact` |
| `StandingIsCurrent` | `IngressSpec => StandingAtCommit` |
| `ConnectionIsConfigured` | `ManagerSpec => []ConnectionFollowsConfig` |
| `LedgerIsHonest` | `DeliverySpec => []LedgerHonest` |
| `DeliveriesAreHonest` | `DeliverySpec /\ []SplitLossless => []DeliveriesHonest` |
| `IssuesAreFenced` | `DeliverySpec => DeliveriesFenced` |
| `NothingEscapes` | `ExecSpec => []NoneEscapes` |
| `NothingEscapesTheClient` | `ClientSpec => []NoneEscapes` |

`Spec` is the specification of the `conversation` and of the `Device` runs. `PoolSpec`,
`RelaySpec`, `IngressSpec`, `ManagerSpec`, `DeliverySpec` and `ExecSpec` are the behaviours of one
scene of a composed run, without fairness: the same initial states and the same actions.
`ClientSpec` is the whole specification of the `client` run. The composed specification of
`transfers` is out of the prover's reach, because it also extends `Admission`, whose
grants are a `RECURSIVE` operator; that of `channels` only because a proof in the context of
all three modules takes several times as long.

No invariant below is inductive as the runs check it. The proofs have the same form: a
strengthening, one lemma for each shape of a step (what a group of actions does to the
record it changes, and what it leaves alone), and one case for each action that shows
its shape.

### Conversation

Each action is shown to preserve `TypeOK` and to have one of a few kinds of effect on
the runs (`RunStep`: a turn ends, one is reserved, one continues, inputs are filled in,
the stop flag changes) and on the holders of tool receipts (`HolderStep`). `TypeOK`
includes `TaskBound`, which ties an execution to the journaled response it replays;
without it `persist_tool_result` could not be shown to stay within the batch. `RunInv` is
the conjunction of the first three invariants: it is inductive over `RunStep`, and
`StopFlagNeedsTurn` needs `OneRunningTurn` (ending the one running turn must leave the
session idle with its flag down). `ToolAtMostOnce` is not inductive; `ExecInv` strengthens
it: a call about to be issued has its receipt and a single holder, and a call that was
issued has its receipt and no holder.

`ConversationTurn` has the lemmas about the operators (prefix of the inbox, closing,
repair, promotion, reservation) and one for each action of a workflow;
`ConversationProofs` one for each action of a handler, the crash and the restart, then the
induction and the theorems.

### DeviceRegistry

`DeviceFences` has the types (`Types`), `Quiet` (what all steps have in common that touch no
call, admit nobody and revoke nothing) and what every step does to the fences.
`DeviceProofs` has the other two inductions and the theorems.

`Books` gives `CallsAccounted`: a pending call has its connection as its own, is held by one
connection only, and has not ended; an issued call whose connection is routable is
pending there or has a tombstone; the credits are the number of pending calls. The count needs
the set of calls to be finite, the only finiteness that is assumed. It holds whatever
coincides, `late_timeout` and `epoch_expiry` included.

`Admissions` gives `RevokedStaysOut` and `UnregisterHitsOwn`: a handshake knows the token and
the epoch of some earlier moment; whoever still enters with a token that a revocation
replaced read an older epoch than the present one; generations are distinct, and the
counter is ahead of them all unless it was forgotten with the Device, after which nobody
can be published. Both theorems assume that no epoch expires: a handshake that has read
an epoch can wait for `config_update_lock` for longer than the epoch's time to live.

`Fenced` gives `FenceOwned`, whatever coincides. It adds that `config_update_lock` and
`_register_lock` have one holder each and no fence is up while the latter is held (`Locks`),
how far the Device is with the configuration its activation sends (`Phases`), that the
fence is that of the current connection, and at which points a PATCH may have it up.

`Durable` gives `NoStaleIssue`. Whoever enters, is activated or is routed to has the durable
revision, unless a PATCH has committed a newer one (`Revisions`); from its fence to the end
of its push, a routable connection accepts no call (`PatchDurable`); a binding is of its
connection's revision (`Marks`); and a queued call carries the binding it was dispatched
for until the MCP epoch moves on (`Frozen`). It needs `Fenced`, `Books` and the distinct
generations of `Admissions`, hence the premise about epochs. Its own premise, that no MCP
wait times out once the registration it waits for has ended, is the race described above:
with it the property is false.

Most steps are aside of all that (`Aside`, `Tame`) or take a connection away (`Smooth`); the
proof shows once what such a step keeps, and treats the publication, the activation and each
step of a PATCH on its own.

### ObjectPool

`ConnectionsConserved` (the free connections are
those that neither a stream, nor a request that opens one, nor an upload's thread holds)
needs to know where a stream and a thread can exist at all (`StreamOK`, `WorkerOK`):
otherwise an end or a cancellation could give back what was not held. `PoolNotStuck`
follows from that count and the bound on running copies
(`Cardinality(Copying) <= ServerTransferCapacity`, half of the connections), since no more
streams of copies exist than copies run. `PublishedExact` needs `DataOK`: what the thread has
stored, what is queued, and the chunk the work is about to queue are, in this order,
the beginning of the file and nothing is between them; the end mark is queued only
behind the last chunk. `TempsOwned` needs `StoreOK`, which ties temporary and published
objects to where the work is and to whether its thread has begun.

The proof has a lemma for the shape of each group of steps of one piece of work
(`Local` of that work and what it takes and gives back), a lemma that puts one such
step together with the unchanged rest (`Assemble`), cardinality facts, and then one
case for each action. It is in `TransferProofs`, as is the next.

### Relays

`RelayInv` says in which of five phases a relay is: chunks arrive, the end is queued,
all was read, the reader has given up, or the transfer has failed. In the first three,
what was read, followed by the queue, is exactly what was written so far; `EofHonest` is
the third. `Covered` (no write beyond the file, and a lease until the transfer has
ended) gives `LeaseCoversTransfer`. A sender that fails leaves the queue in any state, so
the phase of failure states only that the reader does not see a clean end.

### Channels

`IngressInv` (`ChannelProofs`) adds to `IngressExact` that the event lock keeps two events of one
message apart, that every use of a message has its receipt, and who answers for an attachment between its
creation and its publication.

`MgrInv` adds to `ConnectionFollowsConfig` what every runtime entry, request and recovery is
about to do: an entry that is not the current one is stopped or being stopped, the current one
has the stored configuration or a request is under way that will replace it (`Following`),
and a recovery that runs holds the claim of its binding (`Claims`). Trying to prove the
last showed that it was false beyond the instance of the run: with three requests, a
removal that overtakes a newer configuration forgets the claim of a recovery that still
runs (`S/channels/manager.py:360` and `:751`). `RecoversOneAtATime` has that one exception
(`crossed`), the same that the connection's own property has.

`DlvInv` (`DeliveryProofs`) says of every row that its statuses are honest and its actions are
taken in order, of every call how far it is with the row it works on (`CallOn`), and
that no two calls work on one key. `LedgerHonest` is all of `DeliveriesHonest` but the
splitting of texts, which is a pure function of a text that only TLC evaluates.

### Client

`NoneEscapes` speaks of what a completed policy change or shutdown leaves. `ExecInv`
(`ClientProofs`) adds, for each session, what its record says of its process at every point of
`start()`, that a kill is attempted only once the spawn has settled, and which live
sessions the policy change and the shutdown in progress have still to visit. Nearly
every step changes one session and brings no process to life (`Keeps`).

### Only model-checked

* Liveness: fairness and `ENABLED` are outside what the prover handles.
* `AtomicOutcome`: the step-by-step refinement holds only in states that an invariant over
  both slots, both wires and the tombstones describes; TLC checks it.
* `AdmissionExact`, `SplitLossless`, the parser and the time arithmetic: recursive
  definitions, whose value for every input needs induction over data.
* `InboxExactlyOnce`, `HistoryReplayable`, `CompletedIsPaired`: they compare sequences built by
  `SelectSeq`, which needs the same.
* The invariants and action properties of the directory transfers, `WorkspaceFiles`, `ClientMcp`, `ClientConnection` and the
  services: no theorem yet.

## Not modelled

* Prompts, context, compaction, providers and token estimates: text and an external
  service, whose answer is a choice in `Conversation`.
* Streams to subscribers and the web frontend: what a reader misses it reads again.
* Accounts, REST handlers over one transaction, the schema, start-up wiring.
* Text edits, search, notebooks and file conversion: algorithms without shared state.
* Delegated child agents: they run inside one step and share only the request budget.
* In the modelled parts: byte limits, logging and wording; read-only operations; the
  crash of a Device process in the middle of a transfer (its connection is lost
  instead); uploads into a workspace over REST, whose commit may be followed by a
  failing read of the ETag that reports failure (`C/transfer.py:1054`); a response that is
  cancelled before its relay's closer is installed; two MCP servers on one Client;
  the PTY worker and Windows; platform protocols and MCP transports.
