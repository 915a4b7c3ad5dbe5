--------------------------- MODULE ChannelIngress ---------------------------
(***************************************************************************)
(* What becomes of a message a platform delivers to a user's bot:          *)
(* ChannelIngress (gate, event lock, authorisation, attachments, one       *)
(* transaction that publishes the message with its receipts), the pairing  *)
(* handler in front of it and the attachment resolver behind it, while the *)
(* runtime reconnects, the binding is replaced, senders lose their place   *)
(* on the allow list, deliveries are repeated or cancelled and the server  *)
(* dies.                                                                   *)
(***************************************************************************)
EXTENDS Naturals, FiniteSets

CONSTANTS Msg,           \* platform messages
          From,          \* the sender of each
          Carries,       \* what it carries: "code", "text", "file" or "both"
          Quotes,        \* earlier messages the platform returns as its context
          Room,          \* context messages that fit
          Handler,       \* concurrent event handlers
          Deliveries,    \* deliveries in all, repeated ones included
          BindChanges,   \* replaced bindings, reconnects, allow-list changes
          IngressFaults  \* failed steps, cancellations, server deaths

VARIABLES bind,      \* the stored binding
          rt,        \* the runtime that is online
          gate,      \* ingress accepts events
          active,    \* _active_operations
          ev,        \* event handlers
          files,     \* attachments in the workspace, by binding and message
          receipts,  \* ChannelMessageReceipt rows
          uses,      \* how often a message reached a session, per binding
          accepted,  \* messages published, with what was decided about them
          scheduled, \* messages handed to the session runner
          confirms,  \* pairing deliveries on record
          left,      \* attachments whose cleanup failed or was lost
          told,      \* deliveries made so far
          changes, inTrouble

invars == <<bind, rt, gate, active, ev, files, receipts, uses, accepted, scheduled, confirms, left,
            told, changes, inTrouble>>

NoEvent == [m |-> "none", gen |-> 0, run |-> 0, pc |-> "idle", role |-> "none", att |-> "none"]

IngressInit ==
    /\ \E owner \in {"none", "ann"} :
          bind = [gen |-> 1, owner |-> owner, allow |-> {"bob"}, code |-> IF owner = "none" THEN 1 ELSE 0]
    /\ rt = [gen |-> 1, run |-> 1, up |-> TRUE]
    /\ gate = TRUE /\ active = 0
    /\ ev = [h \in Handler |-> NoEvent]
    /\ files = {} /\ receipts = {} /\ accepted = {} /\ scheduled = {} /\ confirms = {} /\ left = {}
    /\ uses = [k \in (1..BindChanges + 1) \X Msg |-> 0]
    /\ told = 0 /\ changes = 0 /\ inTrouble = 0

InFault == inTrouble < IngressFaults /\ inTrouble' = inTrouble + 1
InFine == UNCHANGED inTrouble
Env == UNCHANGED <<rt, gate, told, changes>>
Stored == UNCHANGED <<receipts, uses, accepted>>
Rest == UNCHANGED <<bind, files, scheduled, confirms, left>> /\ Stored

EvTo(h, new) == ev' = [ev EXCEPT ![h] = new]
At(h, pc) == EvTo(h, [ev[h] EXCEPT !.pc = pc])

(* _finish_operation *)
Finish(h) == EvTo(h, NoEvent) /\ active' = active - 1
Ongoing == UNCHANGED active

(* an event that ends without being published removes the attachments it   *)
(* created (_cleanup_resolution)                                           *)
Unpublished(h) == IF ev[h].att = "created" THEN At(h, "cleanup") /\ Ongoing ELSE Finish(h)

(* is_current_runtime *)
RuntimeIsCurrent(e) == rt.up /\ rt.gen = e.gen /\ rt.run = e.run

(* _classify_sender *)
Classify(b, sender) ==
    CASE sender = b.owner -> "owner" [] sender \in b.allow -> "allowed" [] OTHER -> "none"

Receipt(e) == <<e.gen, e.m>>

(***************************************************************************)
(* Delivery.                                                               *)
(***************************************************************************)
(* the adapter's callback, the manager's fenced sink and _begin_operation; *)
(* an event the gate refuses is not acknowledged and may come again.       *)
Deliver(h, m) ==
    /\ ev[h].pc = "idle" /\ rt.up /\ gate /\ told < Deliveries
    /\ told' = told + 1
    /\ EvTo(h, [NoEvent EXCEPT !.m = m, !.gen = rt.gen, !.run = rt.run, !.pc = "accept"])
    /\ active' = active + 1
    /\ UNCHANGED <<rt, gate, changes>> /\ Rest /\ InFine

(* _accept_external: a stale runtime's event ends here; a direct message   *)
(* without attachments may be a pairing code                               *)
AcceptExternal(h) ==
    /\ ev[h].pc = "accept"
    /\ IF ~RuntimeIsCurrent(ev[h]) THEN Finish(h)
       ELSE At(h, IF Carries[ev[h].m] \in {"code", "text"} THEN "pair" ELSE "event") /\ Ongoing
    /\ Env /\ Rest /\ InFine

(***************************************************************************)
(* Pairing: one event of a binding at a time.                              *)
(***************************************************************************)
PairingHeld(gen) == \E h \in Handler : ev[h].pc \in {"confirm", "finalize"} /\ ev[h].gen = gen

(* the code the message carries is the binding's, which has no owner yet;  *)
(* every code in the model is the first binding's                          *)
CodeFits(e) == Carries[e.m] = "code" /\ bind.gen = e.gen /\ bind.owner = "none" /\ bind.code = 1

PairingCall(h) ==
    /\ ev[h].pc = "pair" /\ ~PairingHeld(ev[h].gen)
    /\ IF Receipt(ev[h]) \in confirms THEN Finish(h)
       ELSE At(h, IF CodeFits(ev[h]) THEN "confirm" ELSE "event") /\ Ongoing
    /\ Env /\ Rest /\ InFine

(* deliver_pairing_confirmation: it goes out, or it fails, before or after *)
(* it is on record, the binding is degraded and nothing more happens       *)
Confirm(h) ==
    /\ ev[h].pc = "confirm"
    /\ \/ confirms' = confirms \cup {Receipt(ev[h])} /\ At(h, "finalize") /\ Ongoing /\ InFine
       \/ confirms' \in {confirms, confirms \cup {Receipt(ev[h])}} /\ Finish(h) /\ InFault
    /\ Env /\ UNCHANGED <<bind, files, scheduled, left>> /\ Stored

(* _finalize_pairing: the binding still waits for this code *)
FinalizeOwner(h) ==
    /\ ev[h].pc = "finalize"
    /\ bind' = IF CodeFits(ev[h]) THEN [bind EXCEPT !.owner = From[ev[h].m], !.code = 0] ELSE bind
    /\ Finish(h)
    /\ Env /\ UNCHANGED <<files, scheduled, confirms, left>> /\ Stored /\ InFine

(***************************************************************************)
(* An ordinary event, under its event lock.                                *)
(***************************************************************************)
EventHeld(e) ==
    \E h \in Handler : /\ Receipt(ev[h]) = Receipt(e)
                       /\ ev[h].pc \in {"attach", "ready", "publish", "policy", "notice", "handoff",
                                        "cleanup"}

(* receipt, binding and sender are looked up *)
LookUp(h) ==
    LET e == ev[h]
        role == Classify(bind, From[e.m])
    IN /\ e.pc = "event" /\ ~EventHeld(e)
       /\ IF Receipt(e) \in receipts \/ bind.gen # e.gen \/ role = "none"
          THEN Finish(h)
          ELSE /\ EvTo(h, [e EXCEPT !.role = role,
                                    !.pc = IF role = "owner" /\ Carries[e.m] \in {"file", "both"}
                                           THEN "attach" ELSE "ready"])
               /\ Ongoing
       /\ Env /\ Rest /\ InFine

(* OwnerAttachmentResolver: the file is written, or the message goes on    *)
(* without it.  A file an earlier attempt left is used, not created.       *)
ResolveAttachment(h) ==
    /\ ev[h].pc = "attach"
    /\ \/ /\ files' = files \cup {Receipt(ev[h])}
          /\ EvTo(h, [ev[h] EXCEPT !.pc = "ready",
                                   !.att = IF Receipt(ev[h]) \in files THEN "reused" ELSE "created"])
          /\ InFine
       \/ At(h, "ready") /\ UNCHANGED files /\ InFault
    /\ Ongoing /\ Env /\ UNCHANGED <<bind, scheduled, confirms, left>> /\ Stored

(* _complete_event: what is left of the message decides whether it is      *)
(* published or answered with a notice; its context has been fetched       *)
Empty(e) == Carries[e.m] = "file" /\ e.att = "none"

CompleteEvent(h) ==
    /\ ev[h].pc = "ready"
    /\ IF ~RuntimeIsCurrent(ev[h]) THEN Unpublished(h)
       ELSE At(h, IF Empty(ev[h]) THEN "policy" ELSE "publish") /\ Ongoing
    /\ Env /\ Rest /\ InFine

(* Mutation: the sender is not classified again. *)
ValidByBinding(e) == RuntimeIsCurrent(e) /\ bind.gen = e.gen /\ Receipt(e) \notin receipts

(* Mutation: receipts are only looked for before the transaction. *)
ValidUnlessSeen(e) == RuntimeIsCurrent(e) /\ bind.gen = e.gen /\ Classify(bind, From[e.m]) = e.role

(* what the transaction checks with the user and the binding locked: the   *)
(* binding may have no owner, and its allow list counts all the same       *)
StillValid(e) ==
    /\ RuntimeIsCurrent(e) /\ bind.gen = e.gen
    /\ Classify(bind, From[e.m]) = e.role
    /\ Receipt(e) \notin receipts

(* the transaction fails or the event is cancelled before it began: the    *)
(* rollback leaves nothing                                                 *)
RolledBack(h) == Unpublished(h) /\ Stored /\ InFault

(* _deliver_policy_only: a receipt, then the notice *)
PolicyOnly(h) ==
    /\ ev[h].pc = "policy"
    /\ \/ /\ StillValid(ev[h])
          /\ receipts' = receipts \cup {Receipt(ev[h])}
          /\ uses' = [uses EXCEPT ![Receipt(ev[h])] = @ + 1]
          /\ At(h, "notice") /\ Ongoing /\ UNCHANGED accepted /\ InFine
       \/ ~StillValid(ev[h]) /\ Unpublished(h) /\ Stored /\ InFine
       \/ RolledBack(h)
    /\ Env /\ UNCHANGED <<bind, files, scheduled, confirms, left>>

Notice(h) ==
    /\ ev[h].pc = "notice"
    /\ Finish(h)
    /\ Env /\ Rest /\ InFine

(* _select_context: messages without a receipt, newest first, as many as   *)
(* fit; the ones left out get a receipt too                                *)
Candidates(e) == {m \in Quotes[e.m] : <<e.gen, m>> \notin receipts /\ m # e.m}
Contexts(e) == {c \in SUBSET Candidates(e) :
                   Cardinality(c) = IF Cardinality(Candidates(e)) < Room THEN Cardinality(Candidates(e))
                                    ELSE Room}

(* _publish_locked: message and receipts in one commit *)
Publish(h, context) ==
    LET e == ev[h]
    IN /\ receipts' = receipts \cup {<<e.gen, m>> : m \in Candidates(e) \cup {e.m}}
       /\ uses' = [k \in DOMAIN uses |->
                      IF k[1] = e.gen /\ k[2] \in context \cup {e.m} THEN uses[k] + 1 ELSE uses[k]]
       /\ accepted' = accepted \cup {[m |-> e.m, gen |-> e.gen, role |-> e.role, att |-> e.att]}

(* a cancellation while it runs is only seen once it has ended, and the    *)
(* message is then not handed over                                         *)
PublishLocked(h) ==
    /\ ev[h].pc = "publish"
    /\ \/ /\ StillValid(ev[h])
          /\ \E c \in Contexts(ev[h]) : Publish(h, c)
          /\ \/ At(h, "handoff") /\ Ongoing /\ InFine
             \/ Finish(h) /\ InFault
       \/ ~StillValid(ev[h]) /\ Unpublished(h) /\ Stored /\ InFine
       \/ RolledBack(h)
    /\ Env /\ UNCHANGED <<bind, files, scheduled, confirms, left>>

(* runtime.schedule *)
HandOff(h) ==
    /\ ev[h].pc = "handoff"
    /\ scheduled' = scheduled \cup {ev[h].m}
    /\ Finish(h)
    /\ Env /\ UNCHANGED <<bind, files, confirms, left>> /\ Stored /\ InFine

(* _CreatedAttachmentCleanup: the file goes, or the workspace fails *)
CleanUp(h) ==
    /\ ev[h].pc = "cleanup"
    /\ \/ files' = files \ {Receipt(ev[h])} /\ UNCHANGED left /\ InFine
       \/ left' = left \cup {Receipt(ev[h])} /\ UNCHANGED files /\ InFault
    /\ Finish(h)
    /\ Env /\ UNCHANGED <<bind, scheduled, confirms>> /\ Stored

(* the handler's task is cancelled while it waits for something else *)
CancelEvent(h) ==
    /\ ev[h].pc \in {"accept", "pair", "event", "attach", "ready"} /\ InFault
    /\ Unpublished(h)
    /\ Env /\ Rest

(***************************************************************************)
(* Around ingress.                                                         *)
(***************************************************************************)
MayChange == changes < BindChanges /\ changes' = changes + 1
Around == UNCHANGED <<active, ev, files, scheduled, confirms, told>> /\ Stored

(* the runtime loses its connection; another takes its place *)
ConnectionLost ==
    /\ rt.up /\ MayChange
    /\ rt' = [rt EXCEPT !.up = FALSE]
    /\ UNCHANGED <<bind, gate, left>> /\ Around /\ InFine

ConnectionReplaced ==
    /\ ~rt.up
    /\ rt' = [gen |-> bind.gen, run |-> rt.run + 1, up |-> TRUE]
    /\ UNCHANGED <<bind, gate, left, changes>> /\ Around /\ InFine

(* the user binds another bot, removes a sender or rotates the code *)
Rebind ==
    /\ MayChange
    /\ \/ bind' = [bind EXCEPT !.gen = @ + 1, !.owner = "none", !.code = 2] /\ rt' = [rt EXCEPT !.up = FALSE]
       \/ bind' = [bind EXCEPT !.allow = {}] /\ UNCHANGED rt
       \/ bind.owner = "none" /\ bind' = [bind EXCEPT !.code = 2] /\ UNCHANGED rt
    /\ UNCHANGED <<gate, left>> /\ Around /\ InFine

(* close_gate, at shutdown *)
CloseGate ==
    /\ gate /\ active > 0 /\ gate' = FALSE
    /\ UNCHANGED <<bind, rt, left, changes>> /\ Around /\ InFine

(* the server dies and starts again *)
Dies ==
    /\ InFault
    /\ ev' = [h \in Handler |-> NoEvent] /\ active' = 0 /\ gate' = TRUE
    /\ left' = left \cup {Receipt(ev[h]) : h \in {g \in Handler : ev[g].att = "created"}}
    /\ rt' = [rt EXCEPT !.up = FALSE, !.run = @ + 1]
    /\ UNCHANGED <<bind, files, scheduled, confirms, told, changes>> /\ Stored

EventSteps(h) ==
    \/ AcceptExternal(h) \/ PairingCall(h) \/ Confirm(h) \/ FinalizeOwner(h) \/ LookUp(h)
    \/ ResolveAttachment(h) \/ CompleteEvent(h) \/ PolicyOnly(h) \/ Notice(h) \/ PublishLocked(h)
    \/ HandOff(h) \/ CleanUp(h)
IngressProgress == \E h \in Handler : EventSteps(h)
IngressNext ==
    \/ \E h \in Handler : EventSteps(h) \/ CancelEvent(h) \/ (\E m \in Msg : Deliver(h, m))
    \/ ConnectionLost \/ ConnectionReplaced \/ Rebind \/ CloseGate \/ Dies

(***************************************************************************)
(* Properties.                                                             *)
(***************************************************************************)
(* Within a binding a platform message reaches a session at most once,     *)
(* whether as the message itself, as context of another or as a notice,    *)
(* however often and by however many runtimes it is delivered.             *)
UsedOnce == \A k \in DOMAIN uses : uses[k] <= 1

(* A message is published with the standing its sender has at the commit:  *)
(* a sender taken off the list, or an owner of a replaced binding, does    *)
(* not get in with what was read before.                                   *)
AcceptedAuthorised ==
    \A a \in accepted' \ accepted : a.gen = bind.gen /\ a.role = Classify(bind, From[a.m])

(* An owner is set once per binding, by the code that binding waits for    *)
(* and after a confirmation.                                               *)
OwnerByCode ==
    bind'.gen = bind.gen /\ bind'.owner # bind.owner =>
        /\ bind.owner = "none" /\ bind.code = 1
        /\ \E m \in Msg : From[m] = bind'.owner /\ <<bind.gen, m>> \in confirms

(* What was read before the lock decides nothing: a message is accepted    *)
(* and an owner set by what the binding says when it is written.           *)
StandingAtCommit == [][AcceptedAuthorised /\ OwnerByCode]_invars

(* The attachment of a published message is in the workspace. *)
PublishedHasFile == \A a \in accepted : a.att # "none" => <<a.gen, a.m>> \in files

(* An attachment of a message that was not published is being worked on or *)
(* removed, unless a crash or a failed removal left it behind.             *)
NoOrphanFiles ==
    \A f \in files : \/ \E a \in accepted : <<a.gen, a.m>> = f
                     \/ \E h \in Handler : Receipt(ev[h]) = f /\ ev[h].att = "created"
                     \/ f \in left

(* Accepting a message and storing its attachment happen together and      *)
(* once, however often the platform delivers it and whatever fails.        *)
IngressExact == UsedOnce /\ PublishedHasFile /\ NoOrphanFiles
=============================================================================
