--------------------------- MODULE ChannelManager ---------------------------
(***************************************************************************)
(* The connections of one user's bot on one platform: the stored           *)
(* configuration and the requests that change it (services/channels.py),   *)
(* and the runtime entries ChannelManager starts, replaces, reconnects and *)
(* stops for it.  Every entry is used once and has an adapter of its own.  *)
(***************************************************************************)
EXTENDS Naturals, FiniteSets

CONSTANTS Reqst,        \* configuration requests
          Kinds,         \* what each request may be
          MaxEntry,      \* entries the manager may create
          ManagerFaults  \* failed starts, lost connections, failed recoveries

VARIABLES cfg,        \* the stored configuration
          ent,        \* runtime entries
          gens,       \* binding generations issued so far
          cur,        \* the entry in the manager's map, 0 if none
          restored, restoring, \* _restored_bindings, _restoring_bindings
          mutex,      \* the request that holds the mutation lock across its load
          req,        \* the requests
          recovered,  \* bindings whose pending messages were handed over
          closing,    \* "no", "begun", "shut"
          crossed,    \* a removal met a configuration newer than the one deleted
          mgrTrouble

mgrvars == <<cfg, gens, ent, cur, restored, restoring, mutex, req, recovered, closing, crossed, mgrTrouble>>

ASSUME ManagerAssumption ==
    /\ MaxEntry \in Nat \ {0} /\ "none" \notin Reqst
    /\ Kinds \in [Reqst -> SUBSET {"allow", "cred", "bot", "pair", "delete"}]

Entry == 1..MaxEntry

(* A stored row: bot identity, credential, binding generation, revision    *)
(* and whether an owner is paired.  Generation 0 is no row.                *)
NoCfg == [bot |-> 0, cred |-> 0, gen |-> 0, rev |-> 0, paired |-> FALSE]
(* What is left of an entry whose adapter is stopped and whose tasks are   *)
(* over; its place is used again.                                          *)
NoEntry == [c |-> NoCfg, conn |-> <<0, 0>>, online |-> FALSE, reconnect |-> FALSE, init |-> TRUE,
            adapter |-> "stopped", task |-> "gone", fix |-> "none", stop |-> "done", kill |-> FALSE]
Stopped(x) == x.stop \in {"done", "hung"}
Tidy(x) == IF x.task = "gone" /\ Stopped(x) /\ ~x.kill /\ x.fix \in {"none", "done"} /\ ~x.reconnect
           THEN NoEntry ELSE x
NoReqst == [kind |-> "none", pc |-> "idle", seen |-> NoCfg, e |-> 0]

(* _make_entry and _activate *)
MakeEntry(c) ==
    [NoEntry EXCEPT !.c = c, !.conn = <<c.bot, c.cred>>, !.reconnect = TRUE, !.init = FALSE, !.adapter = "new",
                    !.task = "start", !.stop = "none"]

ManagerInit ==
    /\ cfg = [bot |-> 1, cred |-> 1, gen |-> 1, rev |-> 1, paired |-> TRUE]
    /\ ent = [e \in Entry |-> IF e = 1 THEN MakeEntry(cfg) ELSE NoEntry]  \* _startup_channel
    /\ cur = 1 /\ gens = 1
    /\ restored = {} /\ restoring = {} /\ mutex = "none"
    /\ req = [o \in Reqst |-> NoReqst]
    /\ recovered = {} /\ closing = "no" /\ crossed = FALSE /\ mgrTrouble = 0

MgrFault == mgrTrouble < ManagerFaults /\ mgrTrouble' = mgrTrouble + 1
MgrOk == UNCHANGED mgrTrouble
Unlocked == mutex = "none"
Unused == {e \in Entry : ent[e] = NoEntry /\ e # cur /\ \A o \in Reqst : req[o].e # e}
Fresh == CHOOSE e \in Unused : \A f \in Unused : e <= f
HasRoom == Unused # {}

Online(e) == cur = e /\ ent[e].online
ReqKept == UNCHANGED <<cfg, gens, req, mutex>>
MapKept == UNCHANGED <<cur, closing, crossed>>
RecoveryKept == UNCHANGED <<restored, restoring, recovered>>
SetEntry(e, new) == ent' = [ent EXCEPT ![e] = Tidy(new)]

(* _request_stop: one stop of an adapter at most *)
Stopping(x) == [x EXCEPT !.stop = IF @ = "none" THEN "asked" ELSE @]
(* _request_stop and a _finish_stop, which cancels the entry's task *)
Retiring(x) == [Stopping(x) EXCEPT !.reconnect = FALSE, !.kill = TRUE]

(***************************************************************************)
(* An entry's own task, _run_entry.                                        *)
(***************************************************************************)
(* adapter.start: the gateway or stream is connected and ready *)
AdapterStarts(e) ==
    /\ ent[e].task = "start" /\ ent[e].stop = "none"
    /\ SetEntry(e, [ent[e] EXCEPT !.adapter = "up", !.task = "started"])
    /\ ReqKept /\ MapKept /\ RecoveryKept /\ MgrOk

(* what is left to do after a start that failed or a connection that       *)
(* closed: nothing, for an entry that was replaced                         *)
AfterClose(e) == IF cur = e THEN "closed" ELSE "gone"

(* start fails, by itself or because it is being stopped: _mark_start_failed *)
StartFails(e) ==
    /\ ent[e].task = "start"
    /\ IF ent[e].stop = "none" THEN MgrFault ELSE MgrOk
    /\ SetEntry(e, [ent[e] EXCEPT !.adapter = IF @ = "new" THEN "down" ELSE @, !.task = AfterClose(e),
                                  !.init = TRUE])
    /\ ReqKept /\ MapKept /\ RecoveryKept

(* the entry goes online if it is still the current one *)
BecomesCurrent(e) ==
    /\ ent[e].task = "started" /\ Unlocked
    /\ SetEntry(e, IF cur = e /\ closing = "no"
                   THEN [ent[e] EXCEPT !.online = TRUE, !.task = "recover"]
                   ELSE Stopping([ent[e] EXCEPT !.init = TRUE, !.task = "gone"]))
    /\ ReqKept /\ MapKept /\ RecoveryKept /\ MgrOk

(* _recover_ready, its first section *)
Claim(e) ==
    IF ~Online(e) THEN "no"
    ELSE IF ent[e].c.gen \in restored \cup restoring THEN "yes" ELSE "go"

RunRecovers(e) ==
    LET x == ent[e]
        claim == IF x.c.paired THEN Claim(e) ELSE "yes"
    IN /\ x.task = "recover" /\ Unlocked
       /\ SetEntry(e, CASE claim = "go" -> [x EXCEPT !.task = "recovering"]
                        [] claim = "yes" -> [x EXCEPT !.task = "wait", !.init = TRUE]
                        [] OTHER -> [x EXCEPT !.task = "gone", !.init = TRUE])
       /\ restoring' = IF claim = "go" THEN restoring \cup {x.c.gen} ELSE restoring
       /\ UNCHANGED <<restored, recovered>> /\ ReqKept /\ MapKept /\ MgrOk

(* the pending messages are handed over, and the binding is done with      *)
HandedOver(e, gen) ==
    /\ recovered' = recovered \cup {gen}
    /\ restoring' = restoring \ {gen}
    /\ restored' = IF Online(e) THEN restored \cup {gen} ELSE restored

RunRecovered(e) ==
    /\ ent[e].task = "recovering" /\ Unlocked
    /\ HandedOver(e, ent[e].c.gen)
    /\ SetEntry(e, [ent[e] EXCEPT !.task = IF Online(e) THEN "wait" ELSE "gone", !.init = TRUE])
    /\ ReqKept /\ MapKept /\ MgrOk

(* the recovery fails: the entry is taken offline, stopped and replaced    *)
(* (_stop_then_reconnect)                                                  *)
Offline(e, x) == IF cur = e THEN Stopping([x EXCEPT !.online = FALSE, !.fix = "stopping"]) ELSE x

RunRecoveryFails(e) ==
    /\ ent[e].task = "recovering" /\ Unlocked /\ MgrFault
    /\ restoring' = restoring \ {ent[e].c.gen}
    /\ SetEntry(e, Offline(e, [ent[e] EXCEPT !.task = "gone", !.init = TRUE]))
    /\ UNCHANGED <<restored, recovered>> /\ ReqKept /\ MapKept

(* wait_closed returns: the connection ended by itself or was stopped;     *)
(* _mark_closed                                                            *)
Closes(e) ==
    /\ ent[e].task = "wait" /\ Unlocked
    /\ IF ent[e].stop = "none" THEN MgrFault ELSE MgrOk
    /\ SetEntry(e, [ent[e] EXCEPT !.task = AfterClose(e), !.adapter = IF @ = "up" THEN "down" ELSE @,
                                  !.online = IF cur = e THEN FALSE ELSE @])
    /\ ReqKept /\ MapKept /\ RecoveryKept

(* _can_reconnect *)
CanReconnect(e) == cur = e /\ ent[e].reconnect /\ closing = "no"

(* _reconnect_after, before the delay and after it; it runs in the entry's *)
(* own task, or in _stop_then_reconnect                                    *)
ReconnectSoon(e) ==
    /\ ent[e].task = "closed" /\ Unlocked
    /\ SetEntry(e, [ent[e] EXCEPT !.task = IF CanReconnect(e) THEN "sleep" ELSE "gone"])
    /\ ReqKept /\ MapKept /\ RecoveryKept /\ MgrOk

Replace(e, x) ==
    /\ ent' = [ent EXCEPT ![e] = Tidy(Stopping([x EXCEPT !.reconnect = FALSE])), ![Fresh] = MakeEntry(x.c)]
    /\ cur' = Fresh

Reconnect(e) ==
    /\ \E own \in BOOLEAN :
          LET x == IF own THEN [ent[e] EXCEPT !.task = "gone"] ELSE [ent[e] EXCEPT !.fix = "done"]
          IN /\ IF own THEN ent[e].task = "sleep" ELSE ent[e].fix = "sleep"
             /\ IF CanReconnect(e) THEN HasRoom /\ Replace(e, x) ELSE SetEntry(e, x) /\ UNCHANGED cur
    /\ Unlocked
    /\ UNCHANGED <<closing, crossed>> /\ ReqKept /\ RecoveryKept /\ MgrOk

(***************************************************************************)
(* Stopping an adapter, and what _finish_stop does once it is stopped or   *)
(* has taken too long: the entry's task is cancelled.                      *)
(***************************************************************************)
Cancelled(x) == [x EXCEPT !.task = "gone", !.init = TRUE]

(* a cancelled recovery gives its claim back *)
ClaimsAfterCancel(e) == IF ent[e].task = "recovering" THEN restoring \ {ent[e].c.gen} ELSE restoring

(* the stop asked for by _stop_then_reconnect or a reconnection ends *)
AdapterStops(e) ==
    /\ ent[e].stop = "asked" /\ ~ent[e].kill
    /\ \/ SetEntry(e, [ent[e] EXCEPT !.stop = "done", !.adapter = "stopped"]) /\ MgrOk
       \/ SetEntry(e, [ent[e] EXCEPT !.stop = "hung"]) /\ ent[e].adapter = "up" /\ MgrFault
    /\ ReqKept /\ MapKept /\ RecoveryKept

(* _finish_stop of a replaced or removed entry: the stop ends, or is       *)
(* cancelled when it takes too long and may leave the adapter as it was    *)
FinishStop(e) ==
    /\ ent[e].kill /\ ent[e].stop # "none" /\ Unlocked
    /\ LET x == [Cancelled(ent[e]) EXCEPT !.kill = FALSE, !.fix = "done"]
       IN \/ /\ ent[e].stop # "hung"
             /\ SetEntry(e, [x EXCEPT !.stop = "done", !.adapter = "stopped"]) /\ MgrOk
          \/ /\ SetEntry(e, [x EXCEPT !.stop = "hung"])
             /\ IF ent[e].stop = "hung" THEN MgrOk ELSE ent[e].adapter = "up" /\ MgrFault
    /\ restoring' = ClaimsAfterCancel(e)
    /\ UNCHANGED <<restored, recovered>> /\ ReqKept /\ MapKept

(* _stop_then_reconnect after its _finish_stop *)
StopThenReconnect(e) ==
    /\ ent[e].fix = "stopping" /\ Stopped(ent[e]) /\ Unlocked
    /\ SetEntry(e, [Cancelled(ent[e]) EXCEPT !.fix = IF CanReconnect(e) THEN "sleep" ELSE "done"])
    /\ restoring' = ClaimsAfterCancel(e)
    /\ UNCHANGED <<restored, recovered>> /\ ReqKept /\ MapKept /\ MgrOk

(***************************************************************************)
(* Configuration requests.                                                 *)
(***************************************************************************)
SetReq(o, r) == req' = [req EXCEPT ![o] = r]
ReqTo(o, pc) == SetReq(o, [req[o] EXCEPT !.pc = pc])
DoneReq == [NoReqst EXCEPT !.pc = "done"]
MgrKept == UNCHANGED ent /\ RecoveryKept

(* _load_stored; _candidate_credentials refuses a first request that       *)
(* brings no credentials                                                   *)
Loaded(r) == IF cfg.gen = 0 /\ r.kind = "allow" THEN DoneReq ELSE [r EXCEPT !.seen = cfg, !.pc = "commit"]

(* patch_config, delete_config or a pairing begins *)
Request(o, kind) ==
    /\ req[o].pc = "idle"
    /\ SetReq(o, IF kind \in {"delete", "pair"} THEN [NoReqst EXCEPT !.kind = kind, !.pc = "commit"]
                 ELSE Loaded([NoReqst EXCEPT !.kind = kind]))
    /\ UNCHANGED <<cfg, gens, mutex>> /\ MapKept /\ MgrKept /\ MgrOk

(* _validate_credentials, while others may change the row *)
CredentialsRefused(o) ==
    /\ req[o].pc = "commit" /\ req[o].kind \in {"cred", "bot"} /\ MgrFault
    /\ SetReq(o, DoneReq)
    /\ UNCHANGED <<cfg, gens, mutex>> /\ MapKept /\ MgrKept

(* _replace_binding: a generation never used before, and no owner *)
Rebound(bot, cred) == [bot |-> bot, cred |-> cred, gen |-> gens + 1, rev |-> cfg.rev + 1, paired |-> FALSE]

(* what a request makes of the row *)
Patched(c, kind) ==
    CASE kind = "allow" -> [c EXCEPT !.rev = @ + 1]
      [] kind = "cred" /\ c.gen # 0 -> [c EXCEPT !.cred = @ + 1, !.rev = @ + 1]
      [] OTHER -> Rebound(IF c.bot = 2 THEN 1 ELSE 2, c.cred + 1)

(* _matches_current *)
MatchesCurrent(seen) == cfg.rev = seen.rev /\ (cfg.gen = 0) = (seen.gen = 0)

(* _persist_patch: a row changed since it was read is read again *)
PersistPatch(o) ==
    /\ req[o].pc = "commit" /\ req[o].kind \in {"allow", "cred", "bot"}
    /\ IF MatchesCurrent(req[o].seen)
       THEN /\ cfg' = Patched(cfg, req[o].kind)
            /\ gens' = IF cfg'.gen > gens THEN cfg'.gen ELSE gens
            /\ ReqTo(o, "apply")
       ELSE SetReq(o, Loaded(req[o])) /\ UNCHANGED <<cfg, gens>>
    /\ UNCHANGED mutex /\ MapKept /\ MgrKept /\ MgrOk

(* _finalize_pairing *)
FinalizePairing(o) ==
    /\ req[o].pc = "commit" /\ req[o].kind = "pair"
    /\ IF cfg.gen = 0 \/ cfg.paired THEN SetReq(o, DoneReq) /\ UNCHANGED cfg
       ELSE cfg' = [cfg EXCEPT !.paired = TRUE, !.rev = @ + 1] /\ ReqTo(o, "apply")
    /\ UNCHANGED <<gens, mutex>> /\ MapKept /\ MgrKept /\ MgrOk

(* delete_config: the row goes first, then the runtime *)
DeleteConfig(o) ==
    /\ req[o].pc = "commit" /\ req[o].kind = "delete"
    /\ cfg' = NoCfg
    /\ ReqTo(o, "remove")
    /\ UNCHANGED <<gens, mutex>> /\ MapKept /\ MgrKept /\ MgrOk

(* _remove_current_locked and _forget_recovery *)
RemoveCurrent ==
    /\ cur' = 0
    /\ ent' = IF cur = 0 THEN ent ELSE [ent EXCEPT ![cur] = Retiring([@ EXCEPT !.online = FALSE])]
    /\ restored' = IF cur = 0 THEN restored ELSE {}
    /\ restoring' = IF cur = 0 THEN restoring ELSE {}
    /\ UNCHANGED recovered

(* remove() takes out whatever runtime is there *)
RemoveRuntime(o) ==
    /\ req[o].pc = "remove" /\ Unlocked
    /\ RemoveCurrent
    /\ crossed' = (crossed \/ (cfg.gen # 0 /\ cur # 0))
    /\ SetReq(o, DoneReq)
    /\ UNCHANGED <<cfg, gens, mutex, closing>> /\ MgrOk

(* apply(): the lock is held while the row is read *)
ApplyLoads(o) ==
    /\ req[o].pc = "apply" /\ Unlocked
    /\ mutex' = o
    /\ SetReq(o, [req[o] EXCEPT !.pc = "install", !.seen = cfg])
    /\ UNCHANGED <<cfg, gens>> /\ MapKept /\ MgrKept /\ MgrOk

(* Mutation: the credential is not compared. *)
SameBinding(c) == cur # 0 /\ ent[cur].c.gen = c.gen /\ ent[cur].c.bot = c.bot

(* _same_transport *)
SameTransport(c) == cur # 0 /\ ent[cur].c.gen = c.gen /\ ent[cur].conn = <<c.bot, c.cred>>

(* _apply_loaded_locked for the connection the manager already has: only   *)
(* its configuration changes, and a runtime that is online is ready for    *)
(* recovery, unless something marked it degraded and it was paired before  *)
ApplySame(o) ==
    LET c == req[o].seen
    IN /\ req[o].pc = "install" /\ closing = "no"
       /\ c.gen # 0 /\ SameTransport(c)
       /\ SetEntry(cur, [ent[cur] EXCEPT !.c = c])
       /\ \E degraded \in BOOLEAN :
             SetReq(o, [req[o] EXCEPT !.e = cur,
                                      !.pc = IF ent[cur].online /\ c.paired /\ ~(degraded /\ ent[cur].c.paired)
                                             THEN "recover" ELSE "wait"])
       /\ mutex' = "none"
       /\ UNCHANGED <<cfg, gens>> /\ MapKept /\ RecoveryKept /\ MgrOk

(* ... and for another one: a new entry takes its place *)
ApplyNew(o) ==
    LET c == req[o].seen
    IN /\ req[o].pc = "install" /\ closing = "no"
       /\ c.gen # 0 /\ HasRoom /\ ~SameTransport(c)
       /\ ent' = [e \in Entry |-> IF e = Fresh THEN MakeEntry(c)
                                  ELSE IF e = cur THEN Retiring(ent[e]) ELSE ent[e]]
       /\ cur' = Fresh
       /\ SetReq(o, [req[o] EXCEPT !.e = Fresh, !.pc = "wait"])
       /\ mutex' = "none"
       /\ UNCHANGED <<cfg, gens, closing, crossed>> /\ RecoveryKept /\ MgrOk

(* the row is gone, or the manager is shutting down *)
ApplyNothing(o) ==
    /\ req[o].pc = "install" /\ (req[o].seen.gen = 0 \/ closing # "no")
    /\ IF req[o].seen.gen = 0 THEN RemoveCurrent ELSE UNCHANGED <<cur, ent>> /\ RecoveryKept
    /\ SetReq(o, DoneReq)
    /\ mutex' = "none"
    /\ UNCHANGED <<cfg, gens, closing, crossed>> /\ MgrOk

(* _finish_activation *)
AwaitInitialized(o) ==
    /\ req[o].pc = "wait" /\ ent[req[o].e].init
    /\ SetReq(o, DoneReq)
    /\ UNCHANGED <<cfg, gens, mutex>> /\ MapKept /\ MgrKept /\ MgrOk

RequestRecovers(o) ==
    LET e == req[o].e
        claim == IF ent[e].c.paired THEN Claim(e) ELSE "yes"
    IN /\ req[o].pc = "recover" /\ ent[e].init /\ Unlocked
       /\ IF claim = "go" THEN ReqTo(o, "recovering") ELSE SetReq(o, DoneReq)
       /\ restoring' = IF claim = "go" THEN restoring \cup {ent[e].c.gen} ELSE restoring
       /\ UNCHANGED <<cfg, gens, mutex, ent, restored, recovered>> /\ MapKept /\ MgrOk

RequestRecovered(o) ==
    /\ req[o].pc = "recovering" /\ Unlocked
    /\ HandedOver(req[o].e, req[o].seen.gen)
    /\ SetReq(o, DoneReq)
    /\ UNCHANGED <<cfg, gens, mutex, ent>> /\ MapKept /\ MgrOk

RequestRecoveryFails(o) ==
    LET e == req[o].e
    IN /\ req[o].pc = "recovering" /\ Unlocked /\ MgrFault
       /\ restoring' = restoring \ {req[o].seen.gen}
       /\ SetEntry(e, Offline(e, ent[e]))
       /\ SetReq(o, DoneReq)
       /\ UNCHANGED <<cfg, gens, mutex, restored, recovered>> /\ MapKept

(***************************************************************************)
(* Shutdown.                                                               *)
(***************************************************************************)
(* _begin_shutdown *)
BeginShutdown ==
    /\ closing = "no" /\ Unlocked /\ \A o \in Reqst : req[o].pc # "idle"
    /\ closing' = "begun"
    /\ ent' = IF cur = 0 THEN ent ELSE [ent EXCEPT ![cur].reconnect = FALSE]
    /\ UNCHANGED <<cur, crossed>> /\ ReqKept /\ RecoveryKept /\ MgrOk

(* _shutdown: the last entry is stopped; what still runs then is cancelled *)
(* in the code and ends by itself here                                     *)
Shutdown ==
    /\ closing = "begun" /\ Unlocked
    /\ closing' = "shut"
    /\ RemoveCurrent
    /\ UNCHANGED crossed /\ ReqKept /\ MgrOk

EntrySteps(e) ==
    \/ AdapterStarts(e) \/ BecomesCurrent(e) \/ RunRecovers(e) \/ RunRecovered(e)
    \/ ReconnectSoon(e) \/ Reconnect(e) \/ AdapterStops(e) \/ FinishStop(e) \/ StopThenReconnect(e)
    \/ ent[e].stop # "none" /\ ~ent[e].kill /\ (StartFails(e) \/ Closes(e))
RequestSteps(o) ==
    \/ PersistPatch(o) \/ FinalizePairing(o) \/ DeleteConfig(o) \/ RemoveRuntime(o)
    \/ ApplyLoads(o) \/ ApplySame(o) \/ ApplyNew(o) \/ ApplyNothing(o) \/ AwaitInitialized(o)
    \/ RequestRecovers(o) \/ RequestRecovered(o)
ManagerProgress ==
    (\E e \in Entry : EntrySteps(e)) \/ (\E o \in Reqst : RequestSteps(o)) \/ Shutdown

ManagerNext ==
    \/ \E e \in Entry : \/ EntrySteps(e) \/ RunRecoveryFails(e)
                        \/ ent[e].stop = "none" /\ (StartFails(e) \/ Closes(e))
    \/ \E o \in Reqst : \/ RequestSteps(o) \/ CredentialsRefused(o) \/ RequestRecoveryFails(o)
                         \/ \E kind \in Kinds[o] : Request(o, kind)
    \/ BeginShutdown \/ Shutdown

(***************************************************************************)
(* Properties.                                                             *)
(***************************************************************************)
Idle ==
    /\ \A o \in Reqst : req[o].pc \in {"idle", "done"}
    /\ \A e \in Entry : ent[e].task \in {"wait", "gone"} /\ ent[e].fix \in {"none", "done"}
                        /\ ent[e].stop # "asked" /\ ~ent[e].kill

(* When nothing is going on, the connection is the one the stored          *)
(* configuration asks for: same bot, credential, binding and revision, and *)
(* none if there is no configuration.  A removal that overtook a newer     *)
(* configuration is the exception.                                         *)
RuntimeFollowsConfig ==
    Idle /\ closing = "no" /\ ~crossed =>
        IF cfg.gen = 0 THEN cur = 0 ELSE cur # 0 /\ ent[cur].c = cfg /\ ent[cur].conn = <<cfg.bot, cfg.cred>>

(* Every adapter that was started is the current one's or is stopped, so   *)
(* no connection of a replaced configuration stays open.                   *)
NoAdapterLeaks ==
    Idle => \A e \in Entry : ent[e].adapter \in {"up", "down"} => e = cur \/ ent[e].stop = "hung"

(* No two recoveries of one binding run at the same time, unless a removal *)
(* overtook a newer configuration: it takes out the newer runtime and      *)
(* forgets its claim (_forget_recovery) while that recovery still runs.    *)
Recoveries ==
    {<<"task", e, ent[e].c.gen>> : e \in {f \in Entry : ent[f].task = "recovering"}}
    \cup {<<"request", o, req[o].seen.gen>> : o \in {p \in Reqst : req[p].pc = "recovering"}}
RecoversOneAtATime == ~crossed => \A a, b \in Recoveries : a[3] = b[3] => a = b

(* One connection per configuration: the current one is what the stored    *)
(* configuration asks for, no replaced one stays open, and no two recover  *)
(* the same binding at a time.                                             *)
ConnectionFollowsConfig == RuntimeFollowsConfig /\ NoAdapterLeaks /\ RecoversOneAtATime

(* the channel is online, or gone, or the server shuts down *)
UpOrGone == cfg.gen = 0 \/ closing # "no" \/ crossed \/ (cur # 0 /\ ent[cur].online)
=============================================================================
