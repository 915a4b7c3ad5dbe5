---------------------------- MODULE ChannelProofs ----------------------------
(***************************************************************************)
(* The incoming messages (ChannelIngress) and the connections              *)
(* (ChannelManager) of the external channels, for any messages, handlers,  *)
(* requests and entries, and whatever fails.                               *)
(***************************************************************************)
EXTENDS ChannelManager, ChannelIngress, WellFoundedInduction, TLAPS

-----------------------------------------------------------------------------
(***************************************************************************)
(* Incoming messages.  IngressExact is not inductive: IngressInv adds that *)
(* the event lock keeps two events of one message apart, and who answers   *)
(* for an attachment between its creation and its publication.             *)
(***************************************************************************)
\* The incoming messages on their own: every step but no fairness.
IngressSpec == IngressInit /\ [][IngressNext]_invars

\* Who a binding can belong to, and the places of an event in its handler.
Owners == {"none", "ann"} \cup {From[m] : m \in Msg}
EventPcs == {"idle", "accept", "pair", "confirm", "finalize", "event", "attach", "ready", "publish",
        "policy", "notice", "handoff", "cleanup"}
\* The places of an event that holds its event lock.
Locked == {"attach", "ready", "publish", "policy", "notice", "handoff", "cleanup"}
\* The places where an event still answers for the attachment it created.
Answers == {"ready", "publish", "cleanup"}
EventType == [m : Msg \cup {"none"}, gen : Nat, run : Nat, pc : EventPcs,
              role : {"none", "owner", "allowed"}, att : {"none", "reused", "created"}]
AcceptedType == [m : Msg, gen : Nat, role : {"none", "owner", "allowed"},
                 att : {"none", "reused", "created"}]


\* The stored binding and the runtime.
BindingOK ==
    /\ bind \in [gen : Nat \ {0}, owner : Owners, allow : SUBSET {"bob"}, code : Nat]
    /\ rt \in [gen : Nat, run : Nat, up : BOOLEAN]

\* An event that finalizes a pairing has sent its confirmation; an attachment it holds is
\* in the workspace, and one it created is no published message's.
EventSound(e) ==
    /\ e.pc # "idle" => e.m \in Msg
    /\ e.pc = "finalize" => Receipt(e) \in confirms
    /\ e.att # "none" => e.pc \in Answers \cup {"handoff"} /\ Receipt(e) \in files
    /\ e.pc = "cleanup" => e.att = "created"
    /\ e.att = "created" /\ e.pc \in Answers => \A a \in accepted : <<a.gen, a.m>> = Receipt(e) => a.att = "none"

EventsOK == ev \in [Handler -> EventType] /\ \A h \in Handler : EventSound(ev[h])

\* The event lock: no two events under it are of the same message.
Exclusive ==
    \A g, h \in Handler : g # h /\ ev[g].pc \in Locked /\ ev[h].pc \in Locked => Receipt(ev[g]) # Receipt(ev[h])

\* What reached a session has its receipt.
UsesReceipted ==
    /\ uses \in [(1 .. BindChanges + 1) \X Msg -> Nat]
    /\ \A k \in DOMAIN uses : uses[k] <= 1 /\ (uses[k] # 0 => k \in receipts)

\* What was published is a message with its attachment, if it has one.
PublishedOK == accepted \subseteq AcceptedType /\ PublishedHasFile

\* Every attachment is published, answered for or left behind.
FilesOwned ==
    \A f \in files : \/ \E a \in accepted : <<a.gen, a.m>> = f
                     \/ \E h \in Handler : Receipt(ev[h]) = f /\ ev[h].att = "created" /\ ev[h].pc \in Answers
                     \/ f \in left

IngressInv == BindingOK /\ EventsOK /\ Exclusive /\ UsesReceipted /\ PublishedOK /\ FilesOwned

\* Before any message has arrived the invariant holds.
LEMMA IngressStart == IngressInit => IngressInv
<1> SUFFICES ASSUME IngressInit PROVE IngressInv
  BY Zenon
<1>1. NoEvent \in EventType
  BY Zenon DEF NoEvent, EventType, EventPcs
<1>2. BindingOK
  BY DEF IngressInit, BindingOK, Owners
<1>3. \A h \in Handler : ev[h] = NoEvent
  BY Zenon DEF IngressInit
<1>4. EventsOK
  BY <1>1, <1>3, Zenon DEF IngressInit, EventsOK, EventSound, NoEvent, Locked
<1>5. Exclusive
  BY <1>3 DEF Exclusive, NoEvent, Locked
<1>6. UsesReceipted /\ PublishedOK /\ FilesOwned
  BY DEF IngressInit, UsesReceipted, PublishedOK, PublishedHasFile, FilesOwned
<1> QED BY <1>2, <1>4, <1>5, <1>6, Zenon DEF IngressInv

\* An event moves, and it and the others are sound in what the step leaves.
LEMMA EventMoves ==
  ASSUME EventsOK, Exclusive, NEW h \in Handler, NEW n \in EventType, EvTo(h, n),
         EventSound(ev[h])', \A g \in Handler \ {h} : EventSound(ev[g])',
         n.pc \in Locked => \/ ev[h].pc \in Locked /\ Receipt(n) = Receipt(ev[h])
                            \/ \A g \in Handler : ev[g].pc \in Locked => Receipt(ev[g]) # Receipt(n)
  PROVE  EventsOK' /\ Exclusive'
<1>1. ev' \in [Handler -> EventType] /\ ev'[h] = n /\ \A g \in Handler \ {h} : ev'[g] = ev[g]
  BY Zenon DEF EventsOK, EvTo
<1>2. \A g \in Handler : EventSound(ev[g])'
  BY Zenon
<1>3. Exclusive'
  BY <1>1, Zenon DEF Exclusive
<1> QED BY <1>1, <1>2, <1>3, Zenon DEF EventsOK

\* An event moves and nothing it shares with the others changes.
LEMMA QuietMove ==
  ASSUME IngressInv, NEW h \in Handler, NEW n \in EventType, EvTo(h, n), BindingOK',
         UNCHANGED <<files, receipts, uses, accepted, confirms, left>>, EventSound(n),
         n.pc \in Locked => \/ ev[h].pc \in Locked /\ Receipt(n) = Receipt(ev[h])
                            \/ \A g \in Handler : ev[g].pc \in Locked => Receipt(ev[g]) # Receipt(n),
         ev[h].att = "created" /\ ev[h].pc \in Answers =>
             n.att = "created" /\ Receipt(n) = Receipt(ev[h]) /\ n.pc \in Answers
  PROVE  IngressInv'
<1>1. ev'[h] = n /\ \A g \in Handler \ {h} : ev'[g] = ev[g]
  BY Zenon DEF IngressInv, EventsOK, EvTo
<1>2. EventSound(ev[h])' /\ \A g \in Handler \ {h} : EventSound(ev[g])'
  BY <1>1 DEF EventSound, Receipt, IngressInv, EventsOK
<1>3. EventsOK' /\ Exclusive'
  BY <1>2, EventMoves, Zenon DEF IngressInv
<1>4. FilesOwned'
  BY <1>1, Zenon DEF IngressInv, FilesOwned
<1> QED BY <1>3, <1>4, Zenon DEF IngressInv, UsesReceipted, PublishedOK, PublishedHasFile

Shared == <<files, receipts, uses, accepted, confirms, left>>

\* _finish_operation of an event that does not answer for an attachment.
LEMMA EventEnds ==
  ASSUME IngressInv, NEW h \in Handler, Finish(h), BindingOK', UNCHANGED Shared,
         ~(ev[h].att = "created" /\ ev[h].pc \in Answers)
  PROVE  IngressInv'
<1>1. NoEvent \in EventType /\ EventSound(NoEvent) /\ NoEvent.pc \notin Locked
  BY Zenon DEF NoEvent, EventType, EventPcs, EventSound, Locked
<1> QED BY <1>1, QuietMove, Zenon DEF Finish, Shared

\* An event goes on to a place that is not under the lock, or stays under it.
LEMMA EventGoes ==
  ASSUME IngressInv, NEW h \in Handler, NEW to \in EventPcs, At(h, to), BindingOK', UNCHANGED Shared,
         EventSound([ev[h] EXCEPT !.pc = to]), to \in Locked => ev[h].pc \in Locked,
         ev[h].att = "created" /\ ev[h].pc \in Answers => to \in Answers
  PROVE  IngressInv'
<1> DEFINE n == [ev[h] EXCEPT !.pc = to]
<1>1. n \in EventType /\ n.pc = to /\ Receipt(n) = Receipt(ev[h]) /\ n.att = ev[h].att
  BY Zenon DEF IngressInv, EventsOK, EventType, Receipt
<1>2. EvTo(h, n) /\ EventSound(n)
  BY Zenon DEF At
<1> HIDE DEF n
<1> QED BY <1>1, <1>2, QuietMove, Zenon DEF Shared

\* _cleanup_resolution: what the event created is removed before it ends.
LEMMA UnpublishedKeeps ==
  ASSUME IngressInv, NEW h \in Handler, Unpublished(h), ev[h].pc # "handoff", BindingOK', UNCHANGED Shared
  PROVE  IngressInv'
<1>1. CASE ev[h].att # "created"
  BY <1>1, EventEnds, Zenon DEF Unpublished
<1>2. CASE ev[h].att = "created"
  <2>1. EventSound(ev[h]) /\ ev[h] \in EventType
    BY Zenon DEF IngressInv, EventsOK
  <2>2. ev[h].pc \in Answers
    BY <1>2, <2>1, Zenon DEF EventSound
  <2>3. EventSound([ev[h] EXCEPT !.pc = "cleanup"])
    BY <1>2, <2>1, <2>2, Zenon DEF EventSound, EventType, Answers, Locked, Receipt
  <2> QED BY <1>2, <2>2, <2>3, EventGoes, Zenon DEF Unpublished, Answers, Locked, EventPcs
<1> QED BY <1>1, <1>2, Zenon

\* Steps of an event that change nothing but the event.
LEMMA QuietEvents ==
  ASSUME IngressInv, NEW h \in Handler,
         \/ AcceptExternal(h) \/ PairingCall(h) \/ LookUp(h) \/ CompleteEvent(h) \/ Notice(h)
         \/ HandOff(h) \/ CancelEvent(h)
  PROVE  IngressInv'
<1>1. ev[h] \in EventType /\ EventSound(ev[h]) /\ BindingOK
  BY Zenon DEF IngressInv, EventsOK
<1>2. CASE AcceptExternal(h)
  <2>1. BindingOK' /\ UNCHANGED Shared /\ ev[h].pc = "accept"
    BY <1>1, <1>2, Zenon DEF AcceptExternal, Env, Rest, Stored, BindingOK, Shared
  <2>2. ASSUME NEW to \in {"pair", "event"} PROVE EventSound([ev[h] EXCEPT !.pc = to])
    BY <1>1, <2>1, Zenon DEF EventSound, EventType, Answers, Locked, Receipt
  <2>3. CASE Finish(h)
    BY <2>1, <2>3, EventEnds, Zenon DEF Answers
  <2>4. ASSUME NEW to \in {"pair", "event"}, At(h, to) PROVE IngressInv'
    BY <2>1, <2>2, <2>4, EventGoes, Zenon DEF Answers, Locked, EventPcs
  <2> QED BY <1>2, <2>3, <2>4, Zenon DEF AcceptExternal
<1>3. CASE PairingCall(h)
  <2>1. BindingOK' /\ UNCHANGED Shared /\ ev[h].pc = "pair"
    BY <1>1, <1>3, Zenon DEF PairingCall, Env, Rest, Stored, BindingOK, Shared
  <2>2. ASSUME NEW to \in {"confirm", "event"} PROVE EventSound([ev[h] EXCEPT !.pc = to])
    BY <1>1, <2>1, Zenon DEF EventSound, EventType, Answers, Locked, Receipt
  <2>3. CASE Finish(h)
    BY <2>1, <2>3, EventEnds, Zenon DEF Answers
  <2>4. ASSUME NEW to \in {"confirm", "event"}, At(h, to) PROVE IngressInv'
    BY <2>1, <2>2, <2>4, EventGoes, Zenon DEF Answers, Locked, EventPcs
  <2> QED BY <1>3, <2>3, <2>4, Zenon DEF PairingCall
<1>4. CASE LookUp(h)
  <2>1. BindingOK' /\ UNCHANGED Shared /\ ev[h].pc = "event" /\ ~EventHeld(ev[h])
    BY <1>1, <1>4, Zenon DEF LookUp, Env, Rest, Stored, BindingOK, Shared
  <2>2. CASE Finish(h)
    BY <2>1, <2>2, EventEnds, Zenon DEF Answers
  <2>3. CASE ~Finish(h)
    <3> DEFINE role == Classify(bind, From[ev[h].m])
               n == [ev[h] EXCEPT !.role = role,
                                  !.pc = IF role = "owner" /\ Carries[ev[h].m] \in {"file", "both"}
                                         THEN "attach" ELSE "ready"]
    <3>1. EvTo(h, n)
      BY <1>4, <2>3, Zenon DEF LookUp
    <3>2. role \in {"none", "owner", "allowed"}
      BY Zenon DEF Classify
    <3>3. n \in EventType /\ n.pc \in {"attach", "ready"} /\ n.m = ev[h].m /\ n.att = ev[h].att
          /\ Receipt(n) = Receipt(ev[h])
      BY <1>1, <3>2, Zenon DEF EventType, EventPcs, Receipt
    <3>4. ev[h].att = "none" /\ ev[h].m \in Msg
      BY <1>1, <2>1, Zenon DEF EventSound, Answers, EventType
    <3> HIDE DEF n
    <3>5. EventSound(n)
      BY <3>1, <3>3, <3>4, Zenon DEF EventSound, Answers, Locked
    <3>6. \A g \in Handler : ev[g].pc \in Locked => Receipt(ev[g]) # Receipt(n)
      BY <2>1, <3>3, Zenon DEF EventHeld, Locked
    <3> QED BY <2>1, <3>1, <3>3, <3>4, <3>5, <3>6, QuietMove, Zenon DEF Shared
  <2> QED BY <2>2, <2>3, Zenon
<1>5. CASE CompleteEvent(h)
  <2>1. BindingOK' /\ UNCHANGED Shared /\ ev[h].pc = "ready"
    BY <1>1, <1>5, Zenon DEF CompleteEvent, Env, Rest, Stored, BindingOK, Shared
  <2>2. CASE Unpublished(h)
    BY <2>1, <2>2, UnpublishedKeeps, Zenon
  <2>3. CASE At(h, "policy") /\ Empty(ev[h])
    <3>1. EventSound([ev[h] EXCEPT !.pc = "policy"])
      BY <1>1, <2>1, <2>3, Zenon DEF EventSound, EventType, Answers, Locked, Receipt, Empty
    <3> QED BY <2>1, <2>3, <3>1, EventGoes, Zenon DEF Answers, Locked, EventPcs, Empty
  <2>4. CASE At(h, "publish")
    <3>1. EventSound([ev[h] EXCEPT !.pc = "publish"])
      BY <1>1, <2>1, Zenon DEF EventSound, EventType, Answers, Locked, Receipt
    <3> QED BY <2>1, <2>4, <3>1, EventGoes, Zenon DEF Answers, Locked, EventPcs
  <2> QED BY <1>5, <2>2, <2>3, <2>4, Zenon DEF CompleteEvent
<1>6. CASE Notice(h) \/ HandOff(h)
  <2>1. BindingOK' /\ UNCHANGED Shared /\ ev[h].pc \in {"notice", "handoff"} /\ Finish(h)
    BY <1>1, <1>6, Zenon DEF Notice, HandOff, Env, Rest, Stored, BindingOK, Shared
  <2> QED BY <2>1, EventEnds, Zenon DEF Answers
<1>7. CASE CancelEvent(h)
  <2>1. BindingOK' /\ UNCHANGED Shared /\ ev[h].pc # "handoff" /\ Unpublished(h)
    BY <1>1, <1>7, Zenon DEF CancelEvent, Env, Rest, Stored, BindingOK, Shared
  <2> QED BY <2>1, UnpublishedKeeps, Zenon
<1> QED BY <1>2, <1>3, <1>4, <1>5, <1>6, <1>7, Zenon

\* A delivery, and the two steps of a pairing.
LEMMA PairingEvents ==
  ASSUME IngressInv, NEW h \in Handler,
         (\E m \in Msg : Deliver(h, m)) \/ Confirm(h) \/ FinalizeOwner(h)
  PROVE  IngressInv'
<1>1. ev[h] \in EventType /\ EventSound(ev[h]) /\ BindingOK
  BY Zenon DEF IngressInv, EventsOK
<1>2. ASSUME NEW m \in Msg, Deliver(h, m) PROVE IngressInv'
  <2> DEFINE n == [NoEvent EXCEPT !.m = m, !.gen = rt.gen, !.run = rt.run, !.pc = "accept"]
  <2>1. BindingOK' /\ UNCHANGED Shared /\ ev[h].pc = "idle" /\ EvTo(h, n)
    BY <1>1, <1>2, Zenon DEF Deliver, Rest, Stored, BindingOK, Shared
  <2>2. n \in EventType /\ EventSound(n) /\ n.pc = "accept"
    BY <1>1, Zenon DEF NoEvent, EventType, EventPcs, BindingOK, EventSound, Locked
  <2> HIDE DEF n
  <2> QED BY <2>1, <2>2, QuietMove, Zenon DEF Shared, Answers, Locked
<1>3. CASE Confirm(h)
  <2> DEFINE n == [ev[h] EXCEPT !.pc = "finalize"]
  <2>1. /\ BindingOK' /\ UNCHANGED <<files, receipts, uses, accepted, left>> /\ ev[h].pc = "confirm"
        /\ \/ EvTo(h, n) /\ confirms' = confirms \cup {Receipt(ev[h])}
           \/ EvTo(h, NoEvent) /\ confirms' \in {confirms, confirms \cup {Receipt(ev[h])}}
    BY <1>1, <1>3, Zenon DEF Confirm, Env, Stored, BindingOK, At, Finish
  <2>2. ev[h].att = "none"
    BY <1>1, <2>1, Zenon DEF EventSound, EventType, Answers
  <2>3. /\ n \in EventType /\ n.pc \notin Locked /\ NoEvent \in EventType /\ NoEvent.pc \notin Locked
        /\ n.pc = "finalize" /\ n.att = "none" /\ n.m = ev[h].m /\ n.gen = ev[h].gen
    BY <1>1, <2>1, <2>2, Zenon DEF EventType, EventPcs, Locked, NoEvent
  <2> HIDE DEF n
  <2>4. /\ \/ ev'[h] = n /\ Receipt(ev[h]) \in confirms'
           \/ ev'[h] = NoEvent
        /\ \A g \in Handler \ {h} : ev'[g] = ev[g]
        /\ confirms \subseteq confirms'
    BY <2>1, Zenon DEF IngressInv, EventsOK, EvTo
  <2>8. EventSound(ev[h])'
    BY <1>1, <2>1, <2>3, <2>4 DEF EventSound, NoEvent, Receipt, Locked
  <2>5. \A g \in Handler \ {h} : EventSound(ev[g])'
    BY <2>1, <2>4 DEF IngressInv, EventsOK, EventSound, Receipt
  <2>6. EventsOK' /\ Exclusive'
    BY <2>1, <2>3, <2>5, <2>8, EventMoves, Zenon DEF IngressInv
  <2>7. FilesOwned'
    BY <2>1, <2>2, <2>4, Zenon DEF IngressInv, FilesOwned
  <2> QED BY <2>1, <2>6, <2>7, Zenon DEF IngressInv, UsesReceipted, PublishedOK, PublishedHasFile
<1>4. CASE FinalizeOwner(h)
  <2>1. UNCHANGED Shared /\ UNCHANGED rt /\ ev[h].pc = "finalize" /\ Finish(h)
    BY <1>4, Zenon DEF FinalizeOwner, Env, Stored, Shared
  <2>2. ev[h].m \in Msg
    BY <1>1, <2>1, Zenon DEF EventSound
  <2>3. BindingOK'
    BY <1>1, <1>4, <2>1, <2>2, Zenon DEF FinalizeOwner, BindingOK, CodeFits, Owners
  <2> QED BY <2>1, <2>3, EventEnds, Zenon DEF Answers
<1> QED BY <1>2, <1>3, <1>4, Zenon

\* The steps under the event lock that write: attachment, receipt, message, removal.
LEMMA WritingEvents ==
  ASSUME IngressInv, NEW h \in Handler,
         ResolveAttachment(h) \/ PolicyOnly(h) \/ PublishLocked(h) \/ CleanUp(h)
  PROVE  IngressInv'
<1>1. ev[h] \in EventType /\ EventSound(ev[h]) /\ BindingOK
  BY Zenon DEF IngressInv, EventsOK
<1>2. CASE ResolveAttachment(h)
  <2>1. /\ BindingOK' /\ UNCHANGED <<receipts, uses, accepted, confirms, left>> /\ ev[h].pc = "attach"
    BY <1>1, <1>2, Zenon DEF ResolveAttachment, Env, Stored, BindingOK
  <2>2. ev[h].att = "none" /\ ev[h].m \in Msg
    BY <1>1, <2>1, Zenon DEF EventSound, EventType, Answers
  <2>3. CASE At(h, "ready") /\ UNCHANGED files
    <3>1. EventSound([ev[h] EXCEPT !.pc = "ready"])
      BY <1>1, <2>1, <2>2, Zenon DEF EventSound, EventType, Answers, Locked, Receipt
    <3> QED BY <2>1, <2>2, <2>3, <3>1, EventGoes, Zenon DEF Shared, Locked, EventPcs
  <2>4. CASE ~(At(h, "ready") /\ UNCHANGED files)
    <3> DEFINE n == [ev[h] EXCEPT !.pc = "ready", !.att = IF Receipt(ev[h]) \in files THEN "reused" ELSE "created"]
    <3>1. EvTo(h, n) /\ files' = files \cup {Receipt(ev[h])}
      BY <1>2, <2>4, Zenon DEF ResolveAttachment
    <3>2. /\ n \in EventType /\ n.pc = "ready" /\ n.m = ev[h].m /\ Receipt(n) = Receipt(ev[h])
          /\ n.att = IF Receipt(ev[h]) \in files THEN "reused" ELSE "created"
      BY <1>1, Zenon DEF EventType, EventPcs, Receipt
    <3> HIDE DEF n
    <3>3. n.att = "created" => \A a \in accepted : <<a.gen, a.m>> = Receipt(ev[h]) => a.att = "none"
      BY <3>2, Zenon DEF IngressInv, PublishedOK, PublishedHasFile
    <3>5. ev'[h] = n /\ \A g \in Handler \ {h} : ev'[g] = ev[g]
      BY <3>1, Zenon DEF IngressInv, EventsOK, EvTo
    <3>4. EventSound(ev[h])'
      BY <1>1, <2>1, <2>2, <3>1, <3>2, <3>3, <3>5, Zenon DEF EventSound, Answers, Locked
    <3>6. \A g \in Handler \ {h} : EventSound(ev[g])'
      BY <2>1, <3>1, <3>5 DEF IngressInv, EventsOK, EventSound, Receipt
    <3>7. EventsOK' /\ Exclusive'
      BY <2>1, <3>1, <3>2, <3>4, <3>6, EventMoves, Zenon DEF IngressInv, Locked
    <3>8. FilesOwned'
      BY <2>1, <2>2, <3>1, <3>2, <3>5 DEF IngressInv, FilesOwned, Answers
    <3>9. PublishedOK'
      BY <2>1, <3>1, Zenon DEF IngressInv, PublishedOK, PublishedHasFile
    <3> QED BY <2>1, <3>7, <3>8, <3>9, Zenon DEF IngressInv, UsesReceipted
  <2> QED BY <2>3, <2>4, Zenon
<1>3. CASE PolicyOnly(h)
  <2>1. BindingOK' /\ UNCHANGED <<files, accepted, confirms, left>> /\ ev[h].pc = "policy"
    BY <1>1, <1>3, Zenon DEF PolicyOnly, RolledBack, Stored, Env, BindingOK
  <2>2. ev[h].att = "none"
    BY <1>1, <2>1, Zenon DEF EventSound, EventType, Answers
  <2>3. CASE Unpublished(h) /\ Stored
    BY <2>1, <2>3, UnpublishedKeeps, Zenon DEF Shared, Stored
  <2>4. CASE ~(Unpublished(h) /\ Stored)
    <3>1. /\ receipts' = receipts \cup {Receipt(ev[h])} /\ At(h, "notice")
          /\ uses' = [uses EXCEPT ![Receipt(ev[h])] = @ + 1] /\ Receipt(ev[h]) \notin receipts
      BY <1>3, <2>4, Zenon DEF PolicyOnly, RolledBack, StillValid
    <3>2. UsesReceipted'
      <4> DEFINE r == Receipt(ev[h])
      <4>1. UsesReceipted /\ uses' = [uses EXCEPT ![r] = @ + 1] /\ receipts' = receipts \cup {r} /\ r \notin receipts
        BY <3>1, Zenon DEF IngressInv
      <4> HIDE DEF r
      <4> DEFINE K == (1 .. BindChanges + 1) \X Msg
      <4>2. uses \in [K -> Nat] /\ \A k \in K : uses[k] <= 1 /\ (uses[k] # 0 => k \in receipts)
        BY <4>1, Zenon DEF UsesReceipted
      <4> HIDE DEF K
      <4> DEFINE v == uses[r] + 1
      <4>3. uses' = [uses EXCEPT ![r] = v] /\ (r \in K => v = 1)
        BY <4>1, <4>2
      <4> HIDE DEF v
      <4>4. uses' \in [K -> Nat] /\ \A k \in K : uses'[k] <= 1 /\ (uses'[k] # 0 => k \in receipts')
        <5>1. CASE r \in K
          BY <4>1, <4>2, <4>3, <5>1
        <5>2. CASE r \notin K
          <6>1. uses' = uses
            BY <4>2, <4>3, <5>2, Zenon
          <6> QED BY <4>1, <4>2, <6>1, Zenon
        <5> QED BY <5>1, <5>2, Zenon
      <4> QED BY <4>4, Zenon DEF UsesReceipted, K
    <3> DEFINE n == [ev[h] EXCEPT !.pc = "notice"]
    <3>3. /\ n \in EventType /\ n.pc = "notice" /\ n.m = ev[h].m /\ n.att = "none"
          /\ Receipt(n) = Receipt(ev[h]) /\ EvTo(h, n)
      BY <1>1, <2>2, <3>1, Zenon DEF EventType, EventPcs, At, Receipt
    <3> HIDE DEF n
    <3>5. ev'[h] = n /\ \A g \in Handler \ {h} : ev'[g] = ev[g]
      BY <3>3, Zenon DEF IngressInv, EventsOK, EvTo
    <3>4. EventSound(ev[h])'
      BY <1>1, <2>1, <2>2, <3>3, <3>5, Zenon DEF EventSound, Answers, Locked
    <3>6. \A g \in Handler \ {h} : EventSound(ev[g])'
      BY <2>1, <3>5 DEF IngressInv, EventsOK, EventSound, Receipt
    <3>7. EventsOK' /\ Exclusive'
      BY <2>1, <3>3, <3>4, <3>6, EventMoves, Zenon DEF IngressInv, Locked
    <3>8. FilesOwned'
      BY <2>1, <2>2, <3>5, Zenon DEF IngressInv, FilesOwned
    <3> QED BY <2>1, <3>2, <3>7, <3>8, Zenon DEF IngressInv, PublishedOK, PublishedHasFile
  <2> QED BY <2>3, <2>4, Zenon
<1>4. CASE PublishLocked(h)
  <2>1. BindingOK' /\ UNCHANGED <<files, confirms, left>> /\ ev[h].pc = "publish"
    BY <1>1, <1>4, Zenon DEF PublishLocked, Env, BindingOK
  <2>2. CASE Unpublished(h) /\ Stored
    BY <2>1, <2>2, UnpublishedKeeps, Zenon DEF Shared, Stored
  <2>3. CASE ~(Unpublished(h) /\ Stored)
    <3> DEFINE n == [ev[h] EXCEPT !.pc = "handoff"]
               a == [m |-> ev[h].m, gen |-> ev[h].gen, role |-> ev[h].role, att |-> ev[h].att]
    <3>0. StillValid(ev[h]) /\ (EvTo(h, n) \/ EvTo(h, NoEvent)) /\ \E c \in Contexts(ev[h]) : Publish(h, c)
      BY <1>4, <2>3, Zenon DEF PublishLocked, RolledBack, At, Finish
    <3>1. PICK c \in Contexts(ev[h]) : Publish(h, c)
      BY <3>0, Zenon
    <3>2. UsesReceipted'
      <4>1. /\ receipts' = receipts \cup {<<ev[h].gen, m>> : m \in Candidates(ev[h]) \cup {ev[h].m}}
            /\ uses' = [k \in DOMAIN uses |-> IF k[1] = ev[h].gen /\ k[2] \in c \cup {ev[h].m}
                                              THEN uses[k] + 1 ELSE uses[k]]
            /\ c \subseteq Candidates(ev[h]) /\ <<ev[h].gen, ev[h].m>> \notin receipts /\ UsesReceipted
        BY <3>0, <3>1, Zenon DEF Publish, Contexts, StillValid, Receipt, IngressInv
      <4>2. \A m \in c \cup {ev[h].m} : <<ev[h].gen, m>> \notin receipts /\ <<ev[h].gen, m>> \in receipts'
        BY <4>1, Zenon DEF Candidates
      <4>3. uses' \in [(1 .. BindChanges + 1) \X Msg -> Nat] /\ DOMAIN uses = (1 .. BindChanges + 1) \X Msg
        BY <4>1 DEF UsesReceipted
      <4>4. ASSUME NEW k \in DOMAIN uses' PROVE uses'[k] <= 1 /\ (uses'[k] # 0 => k \in receipts')
        <5>1. k \in (1 .. BindChanges + 1) \X Msg /\ k = <<k[1], k[2]>> /\ uses[k] \in Nat
              /\ uses[k] <= 1 /\ (uses[k] # 0 => k \in receipts)
          BY <4>1, <4>3, <4>4 DEF UsesReceipted
        <5>2. CASE k[1] = ev[h].gen /\ k[2] \in c \cup {ev[h].m}
          BY <4>1, <4>2, <4>3, <5>1, <5>2
        <5>3. CASE ~(k[1] = ev[h].gen /\ k[2] \in c \cup {ev[h].m})
          BY <4>1, <4>3, <5>1, <5>3, Zenon
        <5> QED BY <5>2, <5>3, Zenon
      <4> QED BY <4>3, <4>4, Zenon DEF UsesReceipted
    <3>3. accepted' = accepted \cup {a} /\ (EvTo(h, n) \/ EvTo(h, NoEvent))
      BY <3>0, <3>1, Zenon DEF Publish
    <3>4. ev[h].m \in Msg /\ (ev[h].att # "none" => Receipt(ev[h]) \in files)
      BY <1>1, <2>1, Zenon DEF EventSound, Locked
    <3>5. a \in AcceptedType /\ <<a.gen, a.m>> = Receipt(ev[h]) /\ a.att = ev[h].att
      BY <1>1, <3>4, Zenon DEF AcceptedType, EventType, Receipt
    <3>6. /\ n \in EventType /\ n.pc = "handoff" /\ n.m = ev[h].m /\ Receipt(n) = Receipt(ev[h])
          /\ n.att = ev[h].att /\ NoEvent \in EventType /\ NoEvent.pc \notin Locked
      BY <1>1, Zenon DEF EventType, EventPcs, NoEvent, Locked, Receipt
    <3> HIDE DEF n, a
    <3>8. ev'[h] \in {n, NoEvent} /\ \A g \in Handler \ {h} : ev'[g] = ev[g] /\ ev[g] \in EventType
      BY <3>3, Zenon DEF IngressInv, EventsOK, EvTo
    <3>7. EventSound(ev[h])'
      BY <2>1, <3>4, <3>6, <3>8 DEF EventSound, Answers, Locked, NoEvent
    <3>9. ASSUME NEW g \in Handler \ {h} PROVE EventSound(ev[g])'
      <4>1. EventSound(ev[g]) /\ ev'[g] = ev[g]
        BY <3>8, Zenon DEF IngressInv, EventsOK
      <4>2. ev[g].pc \in Answers => Receipt(ev[g]) # Receipt(ev[h])
        BY <2>1, Zenon DEF IngressInv, Exclusive, Answers, Locked
      <4> QED BY <2>1, <3>3, <3>5, <4>1, <4>2, Zenon DEF EventSound, Receipt
    <3>10. EventsOK' /\ Exclusive'
      BY <2>1, <3>3, <3>6, <3>7, <3>9, EventMoves, Zenon DEF IngressInv, Locked
    <3>11. FilesOwned'
      BY <2>1, <3>3, <3>5, <3>8, Zenon DEF IngressInv, FilesOwned
    <3>12. PublishedOK'
      BY <2>1, <3>3, <3>4, <3>5, Zenon DEF IngressInv, PublishedOK, PublishedHasFile
    <3> QED BY <2>1, <3>2, <3>10, <3>11, <3>12, Zenon DEF IngressInv
  <2> QED BY <2>2, <2>3, Zenon
<1>5. CASE CleanUp(h)
  <2>1. BindingOK' /\ UNCHANGED <<receipts, uses, accepted, confirms>> /\ ev[h].pc = "cleanup" /\ EvTo(h, NoEvent)
    BY <1>1, <1>5, Zenon DEF CleanUp, Env, BindingOK, Stored, Finish
  <2>2. \/ files' = files \ {Receipt(ev[h])} /\ left' = left
        \/ files' = files /\ left' = left \cup {Receipt(ev[h])}
    BY <1>5, Zenon DEF CleanUp
  <2>3. ev[h].att = "created" /\ \A a \in accepted : <<a.gen, a.m>> = Receipt(ev[h]) => a.att = "none"
    BY <1>1, <2>1, Zenon DEF EventSound, Answers
  <2>4. \A g \in Handler \ {h} : ev'[g] = ev[g]
    BY <2>1, Zenon DEF IngressInv, EventsOK, EvTo
  <2>5. ASSUME NEW g \in Handler \ {h} PROVE EventSound(ev[g])'
    <3>1. EventSound(ev[g]) /\ ev'[g] = ev[g]
      BY <2>4, Zenon DEF IngressInv, EventsOK
    <3>2. ev[g].att # "none" => Receipt(ev[g]) # Receipt(ev[h])
      BY <2>1, <3>1, Zenon DEF IngressInv, Exclusive, EventSound, Answers, Locked
    <3> QED BY <2>1, <2>2, <3>1, <3>2, Zenon DEF EventSound, Receipt
  <2>6. /\ NoEvent \in EventType /\ NoEvent.pc \notin Locked /\ NoEvent.att = "none"
        /\ ev'[h] = NoEvent /\ EventSound(ev[h])'
    BY <2>1, Zenon DEF EventType, EventPcs, NoEvent, Locked, EventSound, IngressInv, EventsOK, EvTo
  <2>7. EventsOK' /\ Exclusive'
    BY <2>1, <2>5, <2>6, EventMoves, Zenon DEF IngressInv
  <2>8. FilesOwned'
    BY <2>1, <2>2, <2>4, Zenon DEF IngressInv, FilesOwned
  <2>9. PublishedOK'
    BY <2>1, <2>2, <2>3, Zenon DEF IngressInv, PublishedOK, PublishedHasFile
  <2> QED BY <2>1, <2>7, <2>8, <2>9, Zenon DEF IngressInv, UsesReceipted
<1> QED BY <1>2, <1>3, <1>4, <1>5, Zenon

\* What happens around the events: the connection, the binding, the gate and the server.
LEMMA SurroundingSteps ==
  ASSUME IngressInv, ConnectionLost \/ ConnectionReplaced \/ Rebind \/ CloseGate \/ Dies
  PROVE  IngressInv'
<1>1. CASE ConnectionLost \/ ConnectionReplaced \/ Rebind \/ CloseGate
  <2>1. UNCHANGED <<ev, files, receipts, uses, accepted, confirms, left>>
    BY <1>1, Zenon DEF ConnectionLost, ConnectionReplaced, Rebind, CloseGate, Around, Stored
  <2>2. BindingOK'
    <3>1. BindingOK
      BY Zenon DEF IngressInv
    <3>2. CASE ConnectionLost
      <4>1. rt' = [rt EXCEPT !.up = FALSE] /\ bind' = bind
        BY <3>2, Zenon DEF ConnectionLost
      <4> QED BY <3>1, <4>1, Zenon DEF BindingOK
    <3>3. CASE ConnectionReplaced
      <4>1. rt' = [gen |-> bind.gen, run |-> rt.run + 1, up |-> TRUE] /\ bind' = bind
        BY <3>3, Zenon DEF ConnectionReplaced
      <4> QED BY <3>1, <4>1 DEF BindingOK
    <3>4. CASE CloseGate
      BY <3>1, <3>4, Zenon DEF CloseGate, BindingOK
    <3>5. CASE Rebind
      <4>1. rt' = rt \/ rt' = [rt EXCEPT !.up = FALSE]
        BY <3>5, Zenon DEF Rebind
      <4>2. \/ bind' = [bind EXCEPT !.gen = @ + 1, !.owner = "none", !.code = 2]
            \/ bind' = [bind EXCEPT !.allow = {}]
            \/ bind.owner = "none" /\ bind' = [bind EXCEPT !.code = 2]
        BY <3>5, Zenon DEF Rebind
      <4>3. rt' \in [gen : Nat, run : Nat, up : BOOLEAN]
        BY <3>1, <4>1, Zenon DEF BindingOK
      <4>4. bind \in [gen : Nat \ {0}, owner : Owners, allow : SUBSET {"bob"}, code : Nat] /\ "none" \in Owners
        BY <3>1, Zenon DEF BindingOK, Owners
      <4> DEFINE g == bind.gen + 1
      <4>6. g \in Nat \ {0}
        BY <4>4
      <4>7. \/ bind' = [bind EXCEPT !.gen = g, !.owner = "none", !.code = 2]
            \/ bind' = [bind EXCEPT !.allow = {}]
            \/ bind.owner = "none" /\ bind' = [bind EXCEPT !.code = 2]
        BY <4>2, Zenon
      <4> HIDE DEF g
      <4>8. bind' \in [gen : Nat \ {0}, owner : Owners, allow : SUBSET {"bob"}, code : Nat]
        <5>1. CASE bind' = [bind EXCEPT !.gen = g, !.owner = "none", !.code = 2]
          <6>1. bind' = [gen |-> g, owner |-> "none", allow |-> bind.allow, code |-> 2]
            BY <4>4, <5>1, Zenon
          <6> QED BY <4>4, <4>6, <6>1, Zenon
        <5>2. CASE bind' = [bind EXCEPT !.allow = {}]
          BY <4>4, <5>2, Zenon
        <5>3. CASE bind' = [bind EXCEPT !.code = 2]
          BY <4>4, <5>3, Zenon
        <5> QED BY <4>7, <5>1, <5>2, <5>3, Zenon
      <4> QED BY <4>3, <4>8, Zenon DEF BindingOK
    <3> QED BY <1>1, <3>2, <3>3, <3>4, <3>5, Zenon
  <2> QED BY <2>1, <2>2, Zenon
        DEF IngressInv, EventsOK, EventSound, Receipt, Exclusive, UsesReceipted, PublishedOK,
                            PublishedHasFile, FilesOwned
<1>2. CASE Dies
  <2>1. /\ UNCHANGED <<files, receipts, uses, accepted, confirms>> /\ ev' = [h \in Handler |-> NoEvent]
        /\ left' = left \cup {Receipt(ev[h]) : h \in {g \in Handler : ev[g].att = "created"}}
    BY <1>2, Zenon DEF Dies, Stored
  <2>2. BindingOK'
    <3>1. bind' = bind /\ rt' = [rt EXCEPT !.up = FALSE, !.run = @ + 1]
      BY <1>2, Zenon DEF Dies
    <3>2. BindingOK
      BY Zenon DEF IngressInv
    <3> DEFINE v == rt.run + 1
    <3>3. v \in Nat /\ rt' = [rt EXCEPT !.up = FALSE, !.run = v]
      BY <3>1, <3>2 DEF BindingOK
    <3> HIDE DEF v
    <3>4. rt' \in [gen : Nat, run : Nat, up : BOOLEAN]
      BY <3>2, <3>3, Zenon DEF BindingOK
    <3> QED BY <3>1, <3>2, <3>4, Zenon DEF BindingOK
  <2>3. NoEvent \in EventType /\ NoEvent.pc \notin Locked /\ EventSound(NoEvent)' /\ NoEvent.att = "none"
    BY Zenon DEF EventType, EventPcs, NoEvent, Locked, EventSound
  <2>4. EventsOK' /\ Exclusive'
    BY <2>1, <2>3, Zenon DEF EventsOK, Exclusive
  <2>5. FilesOwned'
    BY <2>1, Zenon DEF IngressInv, FilesOwned
  <2> QED BY <2>1, <2>2, <2>4, <2>5, Zenon
        DEF IngressInv, UsesReceipted, PublishedOK, PublishedHasFile
<1> QED BY <1>1, <1>2, Zenon

\* Every step of an event, of the pairing and of what surrounds them keeps the
\* invariant.
LEMMA IngressStep == IngressInv /\ [IngressNext]_invars => IngressInv'
<1> SUFFICES ASSUME IngressInv, [IngressNext]_invars PROVE IngressInv'
  BY Zenon
<1>1. CASE UNCHANGED invars
  BY <1>1, Zenon
     DEF invars, IngressInv, BindingOK, EventsOK, EventSound, Receipt, Exclusive, UsesReceipted,
              PublishedOK, PublishedHasFile, FilesOwned
<1>2. CASE IngressNext
  BY <1>2, QuietEvents, PairingEvents, WritingEvents, SurroundingSteps, Zenon
     DEF IngressNext, EventSteps
<1> QED BY <1>1, <1>2, Zenon

\* Every behaviour of the incoming messages has the invariant.
LEMMA IngressHolds == IngressSpec => []IngressInv
  BY IngressStart, IngressStep, PTL DEF IngressSpec

\* For any messages, any number of handlers, of changes of the binding and of the
\* connection (channels/ingress.py): a message reaches its session at most once per
\* binding, what is published has its attachment in the workspace, and an
\* attachment nobody published is cleaned up, unless its cleanup failed.
THEOREM IngressIsExact == IngressSpec => []IngressExact
<1>1. IngressInv => IngressExact
  BY Zenon
     DEF IngressInv, UsesReceipted, PublishedOK, FilesOwned, IngressExact, UsedOnce, NoOrphanFiles
<1> QED BY <1>1, IngressHolds, PTL

\* The step that publishes a message finds its sender the owner or on the list at
\* that moment, and a binding gets an owner only from a code that was confirmed
\* and is still the one in the row.
THEOREM StandingIsCurrent == IngressSpec => StandingAtCommit
<1>1. IngressInv /\ [IngressNext]_invars => [AcceptedAuthorised /\ OwnerByCode]_invars
  <2> SUFFICES ASSUME IngressInv, IngressNext PROVE AcceptedAuthorised /\ OwnerByCode
    BY Zenon
  <2>1. ASSUME NEW h \in Handler, PublishLocked(h) PROVE AcceptedAuthorised /\ UNCHANGED bind
    BY <2>1 DEF PublishLocked, RolledBack, Publish, StillValid, AcceptedAuthorised, Stored
  <2>2. ASSUME NEW h \in Handler, FinalizeOwner(h) PROVE OwnerByCode /\ UNCHANGED accepted
    <3>1. ev[h].pc = "finalize" /\ bind \in [gen : Nat \ {0}, owner : Owners, allow : SUBSET {"bob"}, code : Nat]
      BY <2>2, Zenon DEF FinalizeOwner, IngressInv, BindingOK
    <3>2. ev[h].m \in Msg /\ Receipt(ev[h]) \in confirms
      BY <3>1, Zenon DEF IngressInv, EventsOK, EventSound
    <3> QED BY <2>2, <3>1, <3>2, Zenon DEF FinalizeOwner, OwnerByCode, CodeFits, Receipt, Stored
  <2>3. ASSUME Rebind PROVE OwnerByCode /\ UNCHANGED accepted
    <3>1. \/ bind' = [bind EXCEPT !.gen = @ + 1, !.owner = "none", !.code = 2]
          \/ bind' = [bind EXCEPT !.allow = {}]
          \/ bind' = [bind EXCEPT !.code = 2]
      BY <2>3, Zenon DEF Rebind
    <3>2. bind \in [gen : Nat \ {0}, owner : Owners, allow : SUBSET {"bob"}, code : Nat]
      BY Zenon DEF IngressInv, BindingOK
    <3> DEFINE g == bind.gen + 1
    <3>5. g # bind.gen
      BY <3>2
    <3>6. \/ bind' = [bind EXCEPT !.gen = g, !.owner = "none", !.code = 2]
          \/ bind' = [bind EXCEPT !.allow = {}]
          \/ bind' = [bind EXCEPT !.code = 2]
      BY <3>1, Zenon
    <3> HIDE DEF g
    <3>3. bind'.gen = bind.gen => bind'.owner = bind.owner
      BY <3>2, <3>5, <3>6, Zenon
    <3>4. UNCHANGED accepted
      BY <2>3, Zenon DEF Rebind, Around, Stored
    <3> QED BY <3>3, <3>4, Zenon DEF OwnerByCode
  <2>4. ASSUME NEW h \in Handler, PolicyOnly(h) \/ ResolveAttachment(h) \/ CleanUp(h) \/ Confirm(h)
        PROVE  UNCHANGED <<bind, accepted>>
    BY <2>4, Zenon DEF PolicyOnly, RolledBack, ResolveAttachment, CleanUp, Confirm, Stored
  <2>5. ASSUME NEW h \in Handler, \/ AcceptExternal(h) \/ PairingCall(h) \/ LookUp(h) \/ CompleteEvent(h)
                                  \/ Notice(h) \/ HandOff(h) \/ CancelEvent(h) \/ \E m \in Msg : Deliver(h, m)
        PROVE  UNCHANGED <<bind, accepted>>
    BY <2>5, Zenon
       DEF AcceptExternal, PairingCall, LookUp, CompleteEvent, Notice, HandOff, CancelEvent,
       Deliver, Rest, Stored
  <2>6. ASSUME ConnectionLost \/ ConnectionReplaced \/ CloseGate \/ Dies PROVE UNCHANGED <<bind, accepted>>
    BY <2>6, Zenon DEF ConnectionLost, ConnectionReplaced, CloseGate, Dies, Around, Stored
  <2>7. UNCHANGED accepted => AcceptedAuthorised
    BY Zenon DEF AcceptedAuthorised
  <2>8. UNCHANGED bind => OwnerByCode
    BY Zenon DEF OwnerByCode
  <2> QED BY <2>1, <2>2, <2>3, <2>4, <2>5, <2>6, <2>7, <2>8, Zenon DEF IngressNext, EventSteps
<1> QED BY <1>1, IngressHolds, PTL DEF IngressSpec, StandingAtCommit

-----------------------------------------------------------------------------
(***************************************************************************)
(* Connections.  While requests are on their way the runtime need not be   *)
(* the configured one: MgrInv says who still owes the change (Following),  *)
(* and why a recovery whose claim was forgotten is not started again       *)
(* (Claims).                                                               *)
(***************************************************************************)
\* The stored configuration, a runtime entry and a request of the API.
CfgType == [bot : Nat, cred : Nat, gen : Nat, rev : Nat, paired : BOOLEAN]
EntryType ==
    [c : CfgType, conn : Nat \X Nat, online : BOOLEAN, reconnect : BOOLEAN, init : BOOLEAN,
     adapter : {"new", "up", "down", "stopped"},
     task : {"start", "started", "recover", "recovering", "wait", "closed", "sleep", "gone"},
     fix : {"none", "stopping", "sleep", "done"}, stop : {"none", "asked", "done", "hung"},
     kill : BOOLEAN]
ReqstType ==
    [kind : {"none", "allow", "cred", "bot", "pair", "delete"},
     pc : {"idle", "commit", "apply", "install", "remove", "wait", "recover", "recovering", "done"},
     seen : CfgType, e : 0 .. MaxEntry]

\* An entry that is not a blank one has a binding and connects to its bot.
EntryOK(x) ==
    /\ x \in EntryType
    /\ x.conn = <<x.c.bot, x.c.cred>>
    /\ x.c.gen = 0 => x.task = "gone" /\ ~x.online
    /\ x.stop = "done" => x.adapter = "stopped"
    /\ x.c.gen <= gens

\* Where a request is says what it has read, which entry it waits for and
\* whether it holds the mutex.
ReqstOK(o, r) ==
    /\ r \in ReqstType
    /\ r.pc = "install" <=> mutex = o
    /\ r.seen.gen <= gens
    /\ r.pc \in {"recover", "recovering"} => r.seen.gen # 0
    /\ r.pc = "commit" /\ r.kind = "allow" => r.seen.gen # 0
    /\ r.pc \in {"recover", "recovering", "wait"} => r.e \in Entry
    /\ r.pc = "recover" => ent[r.e].c.gen \in {0, r.seen.gen}

\* Some request is at p; the current runtime is the one that is configured.
Owing(p) == \E o \in Reqst : req[o].pc = p
Agrees == IF cfg.gen = 0 THEN cur = 0 ELSE cur # 0 /\ ent[cur].c = cfg

\* What was asked for is there, or somebody is about to install it.
Following ==
    closing = "no" /\ ~crossed =>
        /\ ~Owing("apply") /\ ~Owing("remove") /\ ~Owing("install") => Agrees
        /\ \A o \in Reqst : req[o].pc = "install" /\ req[o].seen # cfg =>
              IF cfg.gen = 0 THEN Owing("remove") ELSE Owing("apply")
        /\ cfg.gen # 0 /\ cur = 0 =>
              Owing("apply") \/ \E o \in Reqst : req[o].pc = "install" /\ req[o].seen = cfg

\* Nobody will claim the recovery of this binding again.
Dead(g) ==
    \/ closing = "shut"
    \/ /\ g # cfg.gen /\ cur # 0 => ent[cur].c.gen # g
       /\ g # cfg.gen
       /\ \A o \in Reqst : req[o].pc = "install" => req[o].seen.gen # g

\* Two recoveries of one binding are one, and a recovery that has lost its claim is
\* of a binding nobody will recover again.
Claims ==
    ~crossed =>
        /\ \A a, b \in Recoveries : a[3] = b[3] => a = b
        /\ \A a \in Recoveries : a[3] \in restoring \/ Dead(a[3])
        /\ \A o \in Reqst : req[o].pc = "install" /\ req[o].seen.gen = 0 =>
              \A a \in Recoveries : a[3] # cfg.gen

\* Types, the state of every entry and request, and what connects them.
MgrCore ==
    /\ cfg \in CfgType /\ gens \in Nat /\ cfg.gen <= gens
    /\ ent \in [Entry -> EntryType] /\ \A e \in Entry : EntryOK(ent[e])
    /\ req \in [Reqst -> ReqstType] /\ \A o \in Reqst : ReqstOK(o, req[o])
    /\ cur \in 0 .. MaxEntry /\ mutex \in {"none"} \cup Reqst
    /\ closing \in {"no", "begun", "shut"} /\ crossed \in BOOLEAN
    /\ \A e \in Entry : e # cur => ent[e].stop # "none"
    /\ closing = "no" /\ cur # 0 => ent[cur].reconnect /\ ent[cur].c.gen # 0
    /\ closing = "shut" => cur = 0
    /\ Following
MgrInv == MgrCore /\ Claims

\* A set of numbers that is not empty has a least one.
LEMMA LeastOf == ASSUME NEW I \in SUBSET Nat, I # {} PROVE \E n \in I : \A m \in I : n <= m
<1> DEFINE R == {ss \in Nat \X Nat : ss[1] < ss[2]}
<1>1. IsWellFoundedOn(R, Nat)
  BY NatLessThanWellFounded, Zenon DEF OpToRel
<1>2. \E x \in I : \A y \in I : ~(<<y, x>> \in R)
  BY <1>1, WFMin, Zenon
<1>3. PICK x \in I : \A y \in I : ~(<<y, x>> \in R)
  BY <1>2, Zenon
<1>4. \A y \in I : ~(y < x)
  BY <1>3, Zenon
<1> QED BY <1>4

\* The place a new entry takes.
LEMMA FreshIs ==
  ASSUME HasRoom
  PROVE  /\ Fresh \in Entry /\ Fresh # 0 /\ ent[Fresh] = NoEntry /\ Fresh # cur
         /\ \A o \in Reqst : req[o].e # Fresh
<1>1. Unused \in SUBSET Nat /\ Unused # {} /\ Unused \subseteq Entry
  BY ManagerAssumption DEF Unused, Entry, HasRoom
<1>2. \E n \in Unused : \A m \in Unused : n <= m
  BY <1>1, LeastOf, Zenon
<1>3. Fresh \in Unused
  BY <1>2, Zenon DEF Fresh
<1> QED BY <1>3, ManagerAssumption DEF Unused, Entry

\* A blank entry has no binding, no adapter and nothing to stop.
LEMMA NoEntryIs ==
  /\ NoEntry \in EntryType /\ NoEntry.c.gen = 0 /\ NoEntry.task = "gone" /\ NoEntry.stop = "done"
  /\ NoEntry.online = FALSE /\ NoEntry.adapter = "stopped" /\ NoEntry.c \in CfgType
  /\ NoEntry.conn = <<NoEntry.c.bot, NoEntry.c.cred>>
  BY Zenon DEF NoEntry, NoCfg, EntryType, CfgType

\* What a step makes of an entry's record: y of x, and then n of it when
\* everything about the entry is over.
EntryMoves(x, y) ==
    /\ EntryOK(y) /\ y.c = x.c
    /\ y.stop = "none" => x.stop = "none"
    /\ x.reconnect => y.reconnect
EntryTurn(x, n) ==
    /\ EntryOK(n)
    /\ n.c = x.c \/ (n.c.gen = 0 /\ n.task = "gone")
    /\ n.stop = "none" => x.stop = "none"
    /\ x.reconnect => n.reconnect /\ n.c = x.c

\* Forgetting an entry when everything about it is over is one of its steps.
LEMMA TidyTurn ==
  ASSUME gens \in Nat, NEW x, NEW y, EntryMoves(x, y)
  PROVE  EntryTurn(x, Tidy(y)) /\ (Tidy(y).task = "recovering" => y.task = "recovering" /\ Tidy(y) = y)
<1>1. EntryOK(NoEntry)
  BY NoEntryIs DEF EntryOK
<1>2. CASE Tidy(y) = y
  BY <1>2, Zenon DEF EntryTurn, EntryMoves
<1>3. CASE Tidy(y) # y
  <2>1. Tidy(y) = NoEntry /\ ~y.reconnect
    BY <1>3, Zenon DEF Tidy
  <2> QED BY <1>1, <2>1, NoEntryIs, Zenon DEF EntryTurn, EntryMoves
<1> QED BY <1>2, <1>3, Zenon

\* A step of one entry keeps all but the claims.
LEMMA EntryCore ==
  ASSUME MgrInv, NEW e \in Entry, NEW n, EntryTurn(ent[e], n), ent' = [ent EXCEPT ![e] = n],
         UNCHANGED <<cfg, gens, req, mutex, cur, closing, crossed>>
  PROVE  MgrCore'
<1>1. /\ ent'[e] = n /\ \A f \in Entry \ {e} : ent'[f] = ent[f]
      /\ ent' \in [Entry -> EntryType] /\ cur \in 0 .. MaxEntry
  BY Zenon DEF MgrInv, MgrCore, EntryTurn, EntryOK
<1>2. ASSUME NEW f \in Entry PROVE EntryOK(ent[f])'
  <2>1. EntryOK(ent'[f])
    BY <1>1, Zenon DEF MgrInv, MgrCore, EntryTurn
  <2> QED BY <2>1, Zenon DEF EntryOK
<1>3. ASSUME NEW o \in Reqst PROVE ReqstOK(o, req[o])'
  <2>1. ReqstOK(o, req[o])
    BY Zenon DEF MgrInv, MgrCore
  <2>2. req[o].pc = "recover" => ent'[req[o].e].c.gen \in {0, req[o].seen.gen}
    BY <1>1, <2>1, Zenon DEF ReqstOK, EntryTurn
  <2> QED BY <2>1, <2>2, Zenon DEF ReqstOK
<1>4. cur # 0 => cur \in Entry
  BY <1>1, ManagerAssumption DEF Entry
<1>5. closing = "no" /\ cur # 0 => ent'[cur].reconnect /\ ent'[cur].c = ent[cur].c
  BY <1>1, <1>4, Zenon DEF MgrInv, MgrCore, EntryTurn
<1>6. Following'
  BY <1>5, Zenon DEF MgrInv, MgrCore, Following, Owing, Agrees
<1>7. \A f \in Entry : f # cur => ent'[f].stop # "none"
  BY <1>1, Zenon DEF MgrInv, MgrCore, EntryTurn
<1>8. closing = "no" /\ cur # 0 => ent'[cur].c.gen # 0
  BY <1>5, Zenon DEF MgrInv, MgrCore
<1> QED BY <1>1, <1>2, <1>3, <1>5, <1>6, <1>7, <1>8, Zenon DEF MgrInv, MgrCore

\* A recovery is of a binding there was.
LEMMA RecoveryGen ==
  ASSUME MgrCore, NEW a \in Recoveries
  PROVE  a[3] \in Nat \ {0} /\ a[3] <= gens
<1>1. CASE \E e \in Entry : ent[e].task = "recovering" /\ a = <<"task", e, ent[e].c.gen>>
  <2>1. PICK e \in Entry : ent[e].task = "recovering" /\ a = <<"task", e, ent[e].c.gen>>
    BY <1>1, Zenon
  <2>2. EntryOK(ent[e])
    BY Zenon DEF MgrCore
  <2> QED BY <2>1, <2>2, Zenon DEF EntryOK, EntryType, CfgType
<1>2. CASE \E o \in Reqst : req[o].pc = "recovering" /\ a = <<"request", o, req[o].seen.gen>>
  <2>1. PICK o \in Reqst : req[o].pc = "recovering" /\ a = <<"request", o, req[o].seen.gen>>
    BY <1>2, Zenon
  <2>2. ReqstOK(o, req[o])
    BY Zenon DEF MgrCore
  <2> QED BY <2>1, <2>2, Zenon DEF ReqstOK, ReqstType, CfgType
<1> QED BY <1>1, <1>2, Zenon DEF Recoveries

\* Recoveries go on or end, and keep their claims.
LEMMA ClaimsShrink ==
  ASSUME MgrInv, crossed => crossed', crossed' \in BOOLEAN, Recoveries' \subseteq Recoveries,
         ~crossed' => \A a \in Recoveries' : Dead(a[3]) => Dead(a[3])',
         ~crossed' => \A a \in Recoveries' : a[3] \in restoring => a[3] \in restoring' \/ Dead(a[3])',
         ~crossed' => \A o \in Reqst : req'[o].pc = "install" /\ req'[o].seen.gen = 0 =>
                        \A a \in Recoveries' : a[3] # cfg'.gen
  PROVE  Claims'
  BY Zenon DEF MgrInv, Claims

\* What is dead stays so in a step of one entry.
LEMMA EntryDead ==
  ASSUME MgrInv, NEW e \in Entry, NEW n, EntryTurn(ent[e], n), ent' = [ent EXCEPT ![e] = n],
         UNCHANGED <<cfg, req, cur, closing>>, NEW g, g # 0, Dead(g)
  PROVE  Dead(g)'
<1>1. cur # 0 => cur \in Entry
  BY ManagerAssumption DEF Entry, MgrInv, MgrCore
<1>2. cur # 0 => ent'[cur].c.gen \in {0, ent[cur].c.gen}
  BY <1>1, Zenon DEF MgrInv, MgrCore, EntryTurn
<1> QED BY <1>2, Zenon DEF Dead

\* One entry steps: a recovery it runs goes on, or ends with its claim.
LEMMA EntryStep ==
  ASSUME MgrInv, NEW e \in Entry, NEW n, EntryTurn(ent[e], n), ent' = [ent EXCEPT ![e] = n],
         UNCHANGED <<cfg, gens, req, mutex, cur, closing, crossed>>,
         n.task = "recovering" => ent[e].task = "recovering",
         \/ restoring' = restoring
         \/ ent[e].task = "recovering" /\ n.task = "gone" /\ restoring' = restoring \ {ent[e].c.gen}
         \/ ent[e].task = "recovering" /\ n.task = "wait" /\ restoring' = restoring \ {ent[e].c.gen}
  PROVE  MgrInv'
<1>1. MgrCore'
  BY EntryCore, Zenon
<1>2. ent'[e] = n /\ \A f \in Entry \ {e} : ent'[f] = ent[f]
  BY Zenon DEF MgrInv, MgrCore
<1>3. n.task = "recovering" => n.c = ent[e].c
  BY Zenon DEF EntryTurn
<1>4. Recoveries' \subseteq Recoveries
  BY <1>2, <1>3 DEF Recoveries
<1>5. ASSUME NEW a \in Recoveries' PROVE Dead(a[3]) => Dead(a[3])'
  <2>1. a[3] # 0
    BY <1>4, RecoveryGen, Zenon DEF MgrInv
  <2>2. ASSUME NEW g, g # 0, Dead(g) PROVE Dead(g)'
    BY <2>2, EntryDead, Zenon
  <2> QED BY <2>1, <2>2, Zenon
<1>6. ASSUME NEW a \in Recoveries', ~crossed, a[3] \in restoring PROVE a[3] \in restoring'
  <2>1. CASE restoring' = restoring
    BY <1>6, <2>1, Zenon
  <2>2. CASE ent[e].task = "recovering" /\ n.task # "recovering" /\ restoring' = restoring \ {ent[e].c.gen}
    <3>1. <<"task", e, ent[e].c.gen>> \in Recoveries /\ a \in Recoveries
      BY <1>4, <2>2, Zenon DEF Recoveries
    <3>2. a # <<"task", e, ent[e].c.gen>>
      BY <1>2, <2>2 DEF Recoveries
    <3>3. a[3] # ent[e].c.gen
      BY <1>6, <3>1, <3>2, Zenon DEF MgrInv, Claims
    <3> QED BY <1>6, <2>2, <3>3, Zenon
  <2> QED BY <2>1, <2>2, Zenon
<1>7. ~crossed => \A o \in Reqst : req'[o].pc = "install" /\ req'[o].seen.gen = 0 =>
                        \A a \in Recoveries' : a[3] # cfg'.gen
  BY <1>4, Zenon DEF MgrInv, Claims
<1>8. Claims'
  BY <1>4, <1>5, <1>6, <1>7, ClaimsShrink, Zenon DEF MgrInv, MgrCore
<1> QED BY <1>1, <1>8, Zenon DEF MgrInv

\* The record of an entry becomes y, or a blank one if all is over.
LEMMA EntryTurns ==
  ASSUME MgrInv, NEW e \in Entry, NEW y, EntryMoves(ent[e], y), SetEntry(e, y), ReqKept, MapKept,
         y.task = "recovering" => ent[e].task = "recovering",
         \/ restoring' = restoring
         \/ /\ ent[e].task = "recovering" /\ y.task \in {"gone", "wait"}
            /\ restoring' = restoring \ {ent[e].c.gen}
  PROVE  MgrInv'
<1> DEFINE n == Tidy(y)
<1>1. EntryTurn(ent[e], n) /\ (n.task = "recovering" => y.task = "recovering")
  BY TidyTurn, Zenon DEF MgrInv, MgrCore
<1>2. n.task = y.task \/ n.task = "gone"
  BY Zenon DEF Tidy, NoEntry
<1>3. ent' = [ent EXCEPT ![e] = n] /\ UNCHANGED <<cfg, gens, req, mutex, cur, closing, crossed>>
  BY Zenon DEF SetEntry, ReqKept, MapKept
<1> HIDE DEF n
<1> QED BY <1>1, <1>2, <1>3, EntryStep, Zenon

\* The record of an entry that is being stopped.
LEMMA StoppingIs ==
  ASSUME NEW x \in EntryType
  PROVE  /\ Stopping(x) \in EntryType /\ Stopping(x).stop # "none"
         /\ Stopping(x).stop = "done" <=> x.stop = "done"
         /\ Stopping(x).c = x.c /\ Stopping(x).conn = x.conn /\ Stopping(x).online = x.online
         /\ Stopping(x).reconnect = x.reconnect /\ Stopping(x).adapter = x.adapter
         /\ Stopping(x).task = x.task /\ Stopping(x).kill = x.kill /\ Stopping(x).fix = x.fix
         /\ Stopping(x).init = x.init
<1> DEFINE v == IF x.stop = "none" THEN "asked" ELSE x.stop
<1>1. /\ v \in {"none", "asked", "done", "hung"} /\ v # "none" /\ (v = "done" <=> x.stop = "done")
      /\ Stopping(x) = [x EXCEPT !.stop = v]
  BY Zenon DEF Stopping, EntryType
<1> HIDE DEF v
<1> QED BY <1>1, Zenon DEF EntryType

\* The steps of an entry's own task that end in no recovery.
LEMMA TaskSteps ==
  ASSUME MgrInv, NEW e \in Entry,
         AdapterStarts(e) \/ StartFails(e) \/ Closes(e) \/ ReconnectSoon(e) \/ AdapterStops(e)
  PROVE  MgrInv'
<1> DEFINE x == ent[e]
<1>0. EntryOK(x) /\ x \in EntryType
  BY Zenon DEF MgrInv, MgrCore
<1>1. ReqKept /\ MapKept /\ restoring' = restoring
  BY Zenon DEF AdapterStarts, StartFails, Closes, ReconnectSoon, AdapterStops, RecoveryKept
<1>2. ASSUME NEW y, SetEntry(e, y), EntryMoves(x, y), y.task = "recovering" => x.task = "recovering" PROVE MgrInv'
  BY <1>1, <1>2, EntryTurns, Zenon
<1>3. CASE AdapterStarts(e)
  <2> DEFINE y == [x EXCEPT !.adapter = "up", !.task = "started"]
  <2>1. SetEntry(e, y) /\ x.task = "start" /\ x.stop = "none"
    BY <1>3, Zenon DEF AdapterStarts
  <2> HIDE DEF x
  <2>2. /\ y \in EntryType /\ y.c = x.c /\ y.conn = x.conn /\ y.stop = x.stop /\ y.reconnect = x.reconnect
        /\ y.task = "started"
    BY <1>0, Zenon DEF EntryType
  <2> HIDE DEF y
  <2>3. EntryMoves(x, y)
    BY <1>0, <2>1, <2>2, Zenon DEF EntryMoves, EntryOK
  <2> QED BY <1>2, <2>1, <2>2, <2>3, Zenon
<1>4. CASE StartFails(e)
  <2> DEFINE d == IF x.adapter = "new" THEN "down" ELSE x.adapter
             t == AfterClose(e)
             y == [x EXCEPT !.adapter = d, !.task = t, !.init = TRUE]
  <2>1. SetEntry(e, y) /\ x.task = "start"
    BY <1>4, Zenon DEF StartFails
  <2>2. t \in {"closed", "gone"}
    BY Zenon DEF AfterClose
  <2> HIDE DEF x, t
  <2>3. d \in {"new", "up", "down", "stopped"} /\ (x.adapter = "stopped" => d = "stopped")
    BY <1>0, Zenon DEF EntryType
  <2> HIDE DEF d
  <2>4. /\ y \in EntryType /\ y.c = x.c /\ y.conn = x.conn /\ y.stop = x.stop /\ y.reconnect = x.reconnect
        /\ y.task = t /\ y.adapter = d
    BY <1>0, <2>2, <2>3, Zenon DEF EntryType
  <2> HIDE DEF y
  <2>5. EntryMoves(x, y)
    BY <1>0, <2>1, <2>3, <2>4, Zenon DEF EntryMoves, EntryOK
  <2> QED BY <1>2, <2>1, <2>2, <2>4, <2>5, Zenon
<1>5. CASE Closes(e)
  <2> DEFINE d == IF x.adapter = "up" THEN "down" ELSE x.adapter
             t == AfterClose(e)
             w == IF cur = e THEN FALSE ELSE x.online
             y == [x EXCEPT !.task = t, !.adapter = d, !.online = w]
  <2>1. SetEntry(e, y) /\ x.task = "wait"
    BY <1>5, Zenon DEF Closes
  <2>2. t \in {"closed", "gone"}
    BY Zenon DEF AfterClose
  <2> HIDE DEF x, t
  <2>3. d \in {"new", "up", "down", "stopped"} /\ (x.adapter = "stopped" => d = "stopped") /\ w \in BOOLEAN
    BY <1>0, Zenon DEF EntryType
  <2> HIDE DEF d, w
  <2>4. /\ y \in EntryType /\ y.c = x.c /\ y.conn = x.conn /\ y.stop = x.stop /\ y.reconnect = x.reconnect
        /\ y.task = t /\ y.adapter = d
    BY <1>0, <2>2, <2>3, ZenonT(60) DEF EntryType
  <2> HIDE DEF y
  <2>5. EntryMoves(x, y)
    BY <1>0, <2>1, <2>3, <2>4, Zenon DEF EntryMoves, EntryOK
  <2> QED BY <1>2, <2>1, <2>2, <2>4, <2>5, Zenon
<1>6. CASE ReconnectSoon(e)
  <2> DEFINE t == IF CanReconnect(e) THEN "sleep" ELSE "gone"
             y == [x EXCEPT !.task = t]
  <2>1. SetEntry(e, y) /\ x.task = "closed"
    BY <1>6, Zenon DEF ReconnectSoon
  <2>2. t \in {"sleep", "gone"}
    BY Zenon
  <2> HIDE DEF x, t
  <2>4. /\ y \in EntryType /\ y.c = x.c /\ y.conn = x.conn /\ y.stop = x.stop /\ y.reconnect = x.reconnect
        /\ y.task = t /\ y.adapter = x.adapter
    BY <1>0, <2>2, Zenon DEF EntryType
  <2> HIDE DEF y
  <2>5. EntryMoves(x, y)
    BY <1>0, <2>1, <2>4, Zenon DEF EntryMoves, EntryOK
  <2> QED BY <1>2, <2>1, <2>2, <2>4, <2>5, Zenon
<1>7. CASE AdapterStops(e)
  <2>1. \E y : /\ SetEntry(e, y)
               /\ y = [x EXCEPT !.stop = "done", !.adapter = "stopped"] \/ y = [x EXCEPT !.stop = "hung"]
    BY <1>7, Zenon DEF AdapterStops
  <2>2. PICK y : /\ SetEntry(e, y)
                 /\ y = [x EXCEPT !.stop = "done", !.adapter = "stopped"] \/ y = [x EXCEPT !.stop = "hung"]
    BY <2>1, Zenon
  <2> HIDE DEF x
  <2>3. /\ y \in EntryType /\ y.c = x.c /\ y.conn = x.conn /\ y.stop # "none" /\ y.reconnect = x.reconnect
        /\ y.task = x.task /\ y.online = x.online /\ (y.stop = "done" => y.adapter = "stopped")
    <3>1. CASE y = [x EXCEPT !.stop = "done", !.adapter = "stopped"]
      BY <1>0, <3>1, Zenon DEF EntryType
    <3>2. CASE y = [x EXCEPT !.stop = "hung"]
      BY <1>0, <3>2, Zenon DEF EntryType
    <3> QED BY <2>2, <3>1, <3>2, Zenon
  <2>4. EntryMoves(x, y)
    BY <1>0, <2>3, Zenon DEF EntryMoves, EntryOK
  <2> QED BY <1>2, <2>2, <2>3, <2>4, Zenon
<1> QED BY <1>3, <1>4, <1>5, <1>6, <1>7, Zenon

\* The entry's task goes online, ends its recovery, or is cancelled.
LEMMA TaskTurns ==
  ASSUME MgrInv, NEW e \in Entry,
         \/ BecomesCurrent(e) \/ RunRecovered(e) \/ RunRecoveryFails(e)
         \/ FinishStop(e) \/ StopThenReconnect(e)
  PROVE  MgrInv'
<1> DEFINE x == ent[e]
<1>0. EntryOK(x) /\ x \in EntryType
  BY Zenon DEF MgrInv, MgrCore
<1>1. ReqKept /\ MapKept
  BY Zenon DEF BecomesCurrent, RunRecovered, RunRecoveryFails, FinishStop, StopThenReconnect
<1>2. ASSUME NEW y, SetEntry(e, y), EntryMoves(x, y), y.task = "recovering" => x.task = "recovering",
             \/ restoring' = restoring
             \/ x.task = "recovering" /\ y.task \in {"gone", "wait"} /\ restoring' = restoring \ {x.c.gen}
      PROVE  MgrInv'
  BY <1>1, <1>2, EntryTurns, Zenon
<1>3. CASE BecomesCurrent(e)
  <2>1. restoring' = restoring /\ x.task = "started"
    BY <1>3, Zenon DEF BecomesCurrent, RecoveryKept
  <2>2. CASE cur = e /\ closing = "no"
    <3> DEFINE y == [x EXCEPT !.online = TRUE, !.task = "recover"]
    <3>1. SetEntry(e, y)
      BY <1>3, <2>2, Zenon DEF BecomesCurrent
    <3> HIDE DEF x
    <3>2. /\ y \in EntryType /\ y.c = x.c /\ y.conn = x.conn /\ y.stop = x.stop /\ y.reconnect = x.reconnect
          /\ y.task = "recover" /\ y.adapter = x.adapter
      BY <1>0, Zenon DEF EntryType
    <3> HIDE DEF y
    <3>3. EntryMoves(x, y)
      BY <1>0, <2>1, <3>2, Zenon DEF EntryMoves, EntryOK
    <3> QED BY <1>2, <2>1, <3>1, <3>2, <3>3, Zenon
  <2>3. CASE ~(cur = e /\ closing = "no")
    <3> DEFINE z == [x EXCEPT !.init = TRUE, !.task = "gone"]
               y == Stopping(z)
    <3>1. SetEntry(e, y)
      BY <1>3, <2>3, Zenon DEF BecomesCurrent
    <3> HIDE DEF x
    <3>2. /\ z \in EntryType /\ z.c = x.c /\ z.conn = x.conn /\ z.stop = x.stop /\ z.reconnect = x.reconnect
          /\ z.task = "gone" /\ z.adapter = x.adapter /\ z.online = x.online
      BY <1>0, Zenon DEF EntryType
    <3> HIDE DEF z
    <3>3. /\ y \in EntryType /\ y.stop # "none" /\ (y.stop = "done" <=> z.stop = "done")
          /\ y.c = z.c /\ y.conn = z.conn /\ y.online = z.online
          /\ y.reconnect = z.reconnect /\ y.adapter = z.adapter /\ y.task = z.task
      BY <3>2, StoppingIs, Zenon
    <3> HIDE DEF y
    <3>4. EntryMoves(x, y)
      BY <1>0, <2>1, <3>2, <3>3, Zenon DEF EntryMoves, EntryOK
    <3> QED BY <1>2, <2>1, <3>1, <3>2, <3>3, <3>4, Zenon
  <2> QED BY <2>2, <2>3, Zenon
<1>4. CASE RunRecovered(e)
  <2> DEFINE t == IF Online(e) THEN "wait" ELSE "gone"
             y == [x EXCEPT !.task = t, !.init = TRUE]
  <2>1. SetEntry(e, y) /\ x.task = "recovering" /\ restoring' = restoring \ {x.c.gen}
    BY <1>4, Zenon DEF RunRecovered, HandedOver
  <2>2. t \in {"wait", "gone"}
    BY Zenon
  <2> HIDE DEF x, t
  <2>3. /\ y \in EntryType /\ y.c = x.c /\ y.conn = x.conn /\ y.stop = x.stop /\ y.reconnect = x.reconnect
        /\ y.task = t /\ y.adapter = x.adapter
    BY <1>0, <2>2, Zenon DEF EntryType
  <2> HIDE DEF y
  <2>4. EntryMoves(x, y)
    BY <1>0, <2>1, <2>3, Zenon DEF EntryMoves, EntryOK
  <2> QED BY <1>2, <2>1, <2>2, <2>3, <2>4, Zenon
<1>5. CASE RunRecoveryFails(e)
  <2> DEFINE z == [x EXCEPT !.task = "gone", !.init = TRUE]
             w == [z EXCEPT !.online = FALSE, !.fix = "stopping"]
             y == Offline(e, z)
  <2>1. SetEntry(e, y) /\ x.task = "recovering" /\ restoring' = restoring \ {x.c.gen}
    BY <1>5, Zenon DEF RunRecoveryFails
  <2>2. y = z \/ y = Stopping(w)
    BY Zenon DEF Offline
  <2> HIDE DEF x, y
  <2>3. /\ z \in EntryType /\ z.c = x.c /\ z.conn = x.conn /\ z.stop = x.stop /\ z.reconnect = x.reconnect
        /\ z.task = "gone" /\ z.adapter = x.adapter
    BY <1>0, Zenon DEF EntryType
  <2> HIDE DEF z
  <2>4. /\ w \in EntryType /\ w.c = x.c /\ w.conn = x.conn /\ w.stop = x.stop /\ w.reconnect = x.reconnect
        /\ w.task = "gone" /\ w.adapter = x.adapter
    BY <2>3, Zenon DEF EntryType
  <2> HIDE DEF w
  <2>5. /\ y \in EntryType /\ y.c = x.c /\ y.conn = x.conn /\ (y.stop = "none" => x.stop = "none")
        /\ (y.stop = "done" => x.stop = "done") /\ y.reconnect = x.reconnect
        /\ y.task = "gone" /\ y.adapter = x.adapter
    <3>1. CASE y = z
      BY <2>3, <3>1, Zenon
    <3>2. CASE y = Stopping(w)
      BY <2>4, <3>2, StoppingIs, Zenon
    <3> QED BY <2>2, <3>1, <3>2, Zenon
  <2>6. EntryMoves(x, y)
    BY <1>0, <2>1, <2>5, Zenon DEF EntryMoves, EntryOK
  <2> QED BY <1>2, <2>1, <2>5, <2>6, Zenon
<1>6. CASE FinishStop(e)
  <2> DEFINE w == Cancelled(x)
             z == [w EXCEPT !.kill = FALSE, !.fix = "done"]
  <2>1. /\ restoring' = restoring \/ (x.task = "recovering" /\ restoring' = restoring \ {x.c.gen})
        /\ x.stop # "none"
    BY <1>6, Zenon DEF FinishStop, ClaimsAfterCancel
  <2>2. \E y : /\ SetEntry(e, y)
               /\ y = [z EXCEPT !.stop = "done", !.adapter = "stopped"] \/ y = [z EXCEPT !.stop = "hung"]
    BY <1>6, Zenon DEF FinishStop
  <2>3. PICK y : /\ SetEntry(e, y)
                 /\ y = [z EXCEPT !.stop = "done", !.adapter = "stopped"] \/ y = [z EXCEPT !.stop = "hung"]
    BY <2>2, Zenon
  <2> HIDE DEF x
  <2>4. /\ w \in EntryType /\ w.c = x.c /\ w.conn = x.conn /\ w.reconnect = x.reconnect /\ w.online = x.online
        /\ w.task = "gone"
    BY <1>0, Zenon DEF EntryType, Cancelled
  <2> HIDE DEF w
  <2>5. /\ z \in EntryType /\ z.c = x.c /\ z.conn = x.conn /\ z.reconnect = x.reconnect /\ z.online = x.online
        /\ z.task = "gone"
    BY <2>4, Zenon DEF EntryType
  <2> HIDE DEF z
  <2>6. /\ y \in EntryType /\ y.c = x.c /\ y.conn = x.conn /\ y.reconnect = x.reconnect /\ y.online = x.online
        /\ y.task = "gone" /\ y.stop # "none" /\ (y.stop = "done" => y.adapter = "stopped")
    <3>1. CASE y = [z EXCEPT !.stop = "done", !.adapter = "stopped"]
      BY <2>5, <3>1, Zenon DEF EntryType
    <3>2. CASE y = [z EXCEPT !.stop = "hung"]
      BY <2>5, <3>2, Zenon DEF EntryType
    <3> QED BY <2>3, <3>1, <3>2, Zenon
  <2>7. EntryMoves(x, y)
    BY <1>0, <2>1, <2>6, Zenon DEF EntryMoves, EntryOK
  <2> QED BY <1>2, <2>1, <2>3, <2>6, <2>7, Zenon
<1>7. CASE StopThenReconnect(e)
  <2> DEFINE v == IF CanReconnect(e) THEN "sleep" ELSE "done"
             z == Cancelled(x)
             y == [z EXCEPT !.fix = v]
  <2>1. restoring' = restoring \/ (x.task = "recovering" /\ restoring' = restoring \ {x.c.gen})
    BY <1>7, Zenon DEF StopThenReconnect, ClaimsAfterCancel
  <2>3. SetEntry(e, y)
    BY <1>7, Zenon DEF StopThenReconnect
  <2>4. v \in {"sleep", "done"}
    BY Zenon
  <2> HIDE DEF x, v
  <2>5. /\ z \in EntryType /\ z.c = x.c /\ z.conn = x.conn /\ z.reconnect = x.reconnect /\ z.online = x.online
        /\ z.task = "gone" /\ z.stop = x.stop /\ z.adapter = x.adapter
    BY <1>0, Zenon DEF EntryType, Cancelled
  <2> HIDE DEF z
  <2>6. /\ y \in EntryType /\ y.c = x.c /\ y.conn = x.conn /\ y.reconnect = x.reconnect /\ y.online = x.online
        /\ y.task = "gone" /\ y.stop = x.stop /\ y.adapter = x.adapter
    BY <2>4, <2>5, Zenon DEF EntryType
  <2> HIDE DEF y
  <2>7. EntryMoves(x, y)
    BY <1>0, <2>6, Zenon DEF EntryMoves, EntryOK
  <2> QED BY <1>2, <2>1, <2>3, <2>6, <2>7, Zenon
<1> QED BY <1>3, <1>4, <1>5, <1>6, <1>7, Zenon

\* The recovery that begins is the only one of its binding: the binding is the
\* current entry's, so a recovery of it would have kept its claim.
LEMMA ClaimsGrow ==
  ASSUME MgrInv, NEW z, NEW g, z[3] = g, Recoveries' \subseteq Recoveries \cup {z},
         g \notin restoring, restoring' = restoring \cup {g}, cur # 0, ent[cur].c.gen = g,
         crossed' = crossed, \A o \in Reqst : req'[o].pc # "install",
         \A a \in Recoveries : Dead(a[3]) => Dead(a[3])'
  PROVE  Claims'
<1>1. ~Dead(g)
  BY Zenon DEF Dead, MgrInv, MgrCore
<1>2. ~crossed => \A a \in Recoveries : a[3] # g
  BY <1>1, Zenon DEF MgrInv, Claims
<1>3. ~crossed => \A a \in Recoveries : a[3] \in restoring' \/ Dead(a[3])'
  BY Zenon DEF MgrInv, Claims
<1>4. ~crossed => \A a, b \in Recoveries : a[3] = b[3] => a = b
  BY Zenon DEF MgrInv, Claims
<1>5. ~crossed => \A a, b \in Recoveries' : a[3] = b[3] => a = b
  BY <1>2, <1>4, Zenon
<1>6. ~crossed => \A a \in Recoveries' : a[3] \in restoring' \/ Dead(a[3])'
  BY <1>3, Zenon
<1> QED BY <1>5, <1>6, Zenon DEF Claims

\* While nobody holds the lock, nobody installs.
LEMMA NobodyInstalls ==
  ASSUME MgrInv, Unlocked
  PROVE  \A o \in Reqst : req[o].pc # "install"
  BY ManagerAssumption, Zenon DEF MgrInv, MgrCore, ReqstOK, Unlocked

\* The entry's task claims the recovery of its binding, or finds that it need not.
LEMMA TaskRecovers == ASSUME MgrInv, NEW e \in Entry, RunRecovers(e) PROVE MgrInv'
<1> DEFINE x == ent[e]
           claim == IF x.c.paired THEN Claim(e) ELSE "yes"
<1>0. EntryOK(x) /\ x \in EntryType
  BY Zenon DEF MgrInv, MgrCore
<1>1. /\ ReqKept /\ MapKept /\ x.task = "recover" /\ Unlocked
      /\ restoring' = IF claim = "go" THEN restoring \cup {x.c.gen} ELSE restoring
  BY Zenon DEF RunRecovers
<1>2. CASE claim = "go"
  <2> DEFINE y == [x EXCEPT !.task = "recovering"]
  <2>1. SetEntry(e, y)
    BY <1>2, Zenon DEF RunRecovers
  <2>2. cur = e /\ x.c.gen \notin restoring /\ restoring' = restoring \cup {x.c.gen}
    BY <1>1, <1>2, Zenon DEF Claim, Online
  <2>3. ReqKept /\ MapKept /\ cur \in Entry /\ cur # 0
    BY <1>1, <2>2, ManagerAssumption DEF Entry
  <2> HIDE DEF x, claim
  <2>4. /\ y \in EntryType /\ y.c = x.c /\ y.conn = x.conn /\ y.stop = x.stop /\ y.reconnect = x.reconnect
        /\ y.task = "recovering" /\ y.adapter = x.adapter
    BY <1>0, Zenon DEF EntryType
  <2> HIDE DEF y
  <2>5. Tidy(y) = y
    BY <2>4, Zenon DEF Tidy
  <2>6. EntryTurn(x, y)
    BY <1>0, <1>1, <2>4, Zenon DEF EntryTurn, EntryOK
  <2>7. ent' = [ent EXCEPT ![e] = y] /\ UNCHANGED <<cfg, gens, req, mutex, cur, closing, crossed>>
    BY <2>1, <2>3, <2>5, Zenon DEF SetEntry, ReqKept, MapKept
  <2>8. MgrCore'
    BY <2>6, <2>7, EntryCore, Zenon DEF x
  <2>9. ent'[e] = y /\ \A f \in Entry \ {e} : ent'[f] = ent[f]
    BY <2>7, Zenon DEF MgrInv, MgrCore
  <2> DEFINE z == <<"task", e, x.c.gen>>
  <2>10. Recoveries' \subseteq Recoveries \cup {z}
    BY <2>4, <2>7, <2>9, Zenon DEF Recoveries
  <2>11. ASSUME NEW a \in Recoveries PROVE Dead(a[3]) => Dead(a[3])'
    <3>1. a[3] # 0
      BY RecoveryGen, Zenon DEF MgrInv
    <3>2. ASSUME NEW g, g # 0, Dead(g) PROVE Dead(g)'
      BY <2>6, <2>7, <3>2, EntryDead, Zenon DEF x
    <3> QED BY <3>1, <3>2, Zenon
  <2>12. \A o \in Reqst : req'[o].pc # "install"
    BY <1>1, <2>7, NobodyInstalls, Zenon
  <2>13. z[3] = x.c.gen /\ ent[cur].c.gen = x.c.gen
    BY <2>2, Zenon DEF x
  <2> HIDE DEF z
  <2>14. Claims'
    BY <2>2, <2>3, <2>7, <2>10, <2>11, <2>12, <2>13, ClaimsGrow, Zenon
  <2> QED BY <2>8, <2>14, Zenon DEF MgrInv
<1>3. CASE claim # "go"
  <2>1. PICK t \in {"wait", "gone"} : SetEntry(e, [x EXCEPT !.task = t, !.init = TRUE])
    BY <1>3, Zenon DEF RunRecovers
  <2> DEFINE y == [x EXCEPT !.task = t, !.init = TRUE]
  <2>2. restoring' = restoring
    BY <1>1, <1>3, Zenon
  <2>3. SetEntry(e, y)
    BY <2>1, Zenon
  <2> HIDE DEF x, claim
  <2>4. /\ y \in EntryType /\ y.c = x.c /\ y.conn = x.conn /\ y.stop = x.stop /\ y.reconnect = x.reconnect
        /\ y.task = t /\ y.adapter = x.adapter
    BY <1>0, Zenon DEF EntryType
  <2> HIDE DEF y
  <2>5. EntryMoves(x, y)
    BY <1>0, <1>1, <2>4, Zenon DEF EntryMoves, EntryOK
  <2> QED BY <1>1, <2>2, <2>3, <2>4, <2>5, EntryTurns, Zenon DEF x
<1> QED BY <1>2, <1>3, Zenon

\* A new entry connects to the bot of its configuration.
LEMMA MakeEntryIs ==
  ASSUME NEW c \in CfgType, c.gen # 0, c.gen <= gens
  PROVE  /\ EntryOK(MakeEntry(c)) /\ MakeEntry(c).c = c /\ MakeEntry(c).task = "start"
         /\ MakeEntry(c).reconnect
<1>1. <<c.bot, c.cred>> \in Nat \X Nat
  BY Zenon DEF CfgType
<1> DEFINE n == MakeEntry(c)
<1>2. /\ n \in EntryType /\ n.c = c /\ n.task = "start" /\ n.reconnect /\ n.conn = <<c.bot, c.cred>>
      /\ n.stop = "none"
  BY <1>1, NoEntryIs, Zenon DEF MakeEntry, EntryType
<1> HIDE DEF n
<1>3. EntryOK(n)
  BY <1>2, Zenon DEF EntryOK
<1> QED BY <1>2, <1>3, Zenon DEF n

\* A new entry takes the place of the current one, which becomes w.
Takes(c, w) ==
    /\ HasRoom /\ cur' = Fresh
    /\ ent' = [f \in Entry |-> IF f = Fresh THEN MakeEntry(c) ELSE IF f = cur THEN w ELSE ent[f]]

\* A new entry becomes the current one: the entry it replaces is asked to stop,
\* and every entry stays as the invariant has it.
LEMMA NewCurrent ==
  ASSUME MgrInv, NEW c \in CfgType, c.gen # 0, c.gen <= gens, NEW w, Takes(c, w), gens' = gens,
         cur # 0 => /\ EntryOK(w) /\ w.stop # "none"
                    /\ w.c = ent[cur].c \/ (w.c.gen = 0 /\ w.task = "gone")
                    /\ w.task = "recovering" => ent[cur].task = "recovering"
  PROVE  /\ ent' \in [Entry -> EntryType] /\ \A f \in Entry : EntryOK(ent[f])'
         /\ cur' \in Entry /\ cur' # 0 /\ cur' \in 0 .. MaxEntry
         /\ \A f \in Entry : f # cur' => ent'[f].stop # "none"
         /\ ent'[cur'].c = c /\ ent'[cur'].reconnect
         /\ \A f \in Entry : ent'[f].task = "recovering" => ent[f].task = "recovering" /\ ent'[f].c = ent[f].c
         /\ \A f \in Entry \ {cur'} : ent'[f].c.gen \in {0, ent[f].c.gen}
         /\ \A o \in Reqst : req[o].e # cur'
<1>1. /\ Fresh \in Entry /\ Fresh # 0 /\ ent[Fresh] = NoEntry /\ Fresh # cur
      /\ \A o \in Reqst : req[o].e # Fresh
  BY FreshIs, Zenon DEF Takes
<1>2. EntryOK(MakeEntry(c)) /\ MakeEntry(c).c = c /\ MakeEntry(c).task = "start" /\ MakeEntry(c).reconnect
  BY MakeEntryIs, Zenon
<1>3. \A f \in Entry : /\ f = Fresh => ent'[f] = MakeEntry(c)
                       /\ f = cur => ent'[f] = w
                       /\ f # Fresh /\ f # cur => ent'[f] = ent[f]
  BY <1>1, Zenon DEF Takes
<1>4. \A f \in Entry : f = cur => cur # 0
  BY ManagerAssumption DEF Entry
<1>5. ASSUME NEW f \in Entry PROVE EntryOK(ent'[f])
  BY <1>2, <1>3, <1>4, Zenon DEF MgrInv, MgrCore
<1>6. \A f \in Entry : EntryOK(ent[f])'
  BY <1>5, Zenon DEF EntryOK
<1>7. ent' \in [Entry -> EntryType]
  <2>1. ent' = [f \in Entry |-> ent'[f]]
    BY Zenon DEF Takes
  <2>2. \A f \in Entry : ent'[f] \in EntryType
    BY <1>5, Zenon DEF EntryOK
  <2> QED BY <2>1, <2>2, Zenon
<1>8. cur' \in Entry /\ cur' # 0 /\ cur' = Fresh /\ cur' \in 0 .. MaxEntry
  BY <1>1, ManagerAssumption DEF Takes, Entry
<1>9. \A f \in Entry : f # cur' => ent'[f].stop # "none"
  BY <1>3, <1>4, <1>8, Zenon DEF MgrInv, MgrCore
<1>10. \A f \in Entry : ent'[f].task = "recovering" => ent[f].task = "recovering" /\ ent'[f].c = ent[f].c
  BY <1>2, <1>3, <1>4, Zenon
<1>11. \A f \in Entry \ {cur'} : ent'[f].c.gen \in {0, ent[f].c.gen}
  BY <1>3, <1>4, <1>8, Zenon
<1>12. ent'[cur'].c = c /\ ent'[cur'].reconnect
  BY <1>2, <1>3, <1>8, Zenon
<1> QED BY <1>1, <1>6, <1>7, <1>8, <1>9, <1>10, <1>11, <1>12, Zenon

\* What remains of an entry another one replaces.
LEMMA ReplacedIs ==
  ASSUME MgrInv, NEW e \in Entry, NEW x, EntryOK(x), x.c = ent[e].c,
         x.task = "recovering" => ent[e].task = "recovering",
         NEW n, n = Tidy(Stopping([x EXCEPT !.reconnect = FALSE])) \/ n = Retiring(x)
  PROVE  /\ EntryOK(n) /\ n.stop # "none"
         /\ n.c = ent[e].c \/ (n.c.gen = 0 /\ n.task = "gone")
         /\ n.task = "recovering" => ent[e].task = "recovering"
<1> DEFINE z == [x EXCEPT !.reconnect = FALSE]
           y == Stopping(z)
           v == Stopping(x)
<1>0. x \in EntryType
  BY Zenon DEF EntryOK
<1>1. /\ z \in EntryType /\ z.c = x.c /\ z.conn = x.conn /\ z.stop = x.stop /\ z.online = x.online
      /\ z.task = x.task /\ z.adapter = x.adapter
  BY <1>0, Zenon DEF EntryType
<1>2. CASE n = Tidy(y)
  <2>1. n = y \/ n = NoEntry
    BY <1>2, Zenon DEF Tidy
  <2> HIDE DEF z
  <2>2. /\ y \in EntryType /\ y.c = x.c /\ y.conn = x.conn /\ y.stop # "none" /\ y.online = x.online
        /\ y.task = x.task /\ y.adapter = x.adapter /\ (y.stop = "done" <=> x.stop = "done")
    BY <1>1, StoppingIs
  <2> HIDE DEF y
  <2>3. EntryOK(y)
    BY <2>2, Zenon DEF EntryOK
  <2>4. EntryOK(NoEntry)
    BY NoEntryIs DEF EntryOK, MgrInv, MgrCore
  <2> QED BY <2>1, <2>2, <2>3, <2>4, NoEntryIs, Zenon
<1>3. CASE n = Retiring(x)
  <2>1. n = [v EXCEPT !.reconnect = FALSE, !.kill = TRUE]
    BY <1>3, Zenon DEF Retiring
  <2>2. /\ v \in EntryType /\ v.c = x.c /\ v.conn = x.conn /\ v.stop # "none" /\ v.online = x.online
        /\ v.task = x.task /\ v.adapter = x.adapter /\ (v.stop = "done" <=> x.stop = "done")
    BY <1>0, StoppingIs, Zenon
  <2> HIDE DEF v
  <2>3. /\ n \in EntryType /\ n.c = x.c /\ n.conn = x.conn /\ n.stop # "none" /\ n.online = x.online
        /\ n.task = x.task /\ n.adapter = x.adapter /\ (n.stop = "done" <=> x.stop = "done")
    BY <2>1, <2>2, Zenon DEF EntryType
  <2>4. EntryOK(n)
    BY <2>3, Zenon DEF EntryOK
  <2> QED BY <2>3, <2>4, Zenon
<1> QED BY <1>2, <1>3, Zenon

\* An entry reconnects: nothing comes of it, or a new entry of the same
\* configuration takes its place.
LEMMA EntryReconnects == ASSUME MgrInv, NEW e \in Entry, Reconnect(e) PROVE MgrInv'
<1>1. PICK own \in BOOLEAN :
          LET x == IF own THEN [ent[e] EXCEPT !.task = "gone"] ELSE [ent[e] EXCEPT !.fix = "done"]
          IN /\ IF own THEN ent[e].task = "sleep" ELSE ent[e].fix = "sleep"
             /\ IF CanReconnect(e) THEN HasRoom /\ Replace(e, x) ELSE SetEntry(e, x) /\ UNCHANGED cur
  BY Zenon DEF Reconnect
<1> DEFINE x == IF own THEN [ent[e] EXCEPT !.task = "gone"] ELSE [ent[e] EXCEPT !.fix = "done"]
<1>2. IF CanReconnect(e) THEN HasRoom /\ Replace(e, x) ELSE SetEntry(e, x) /\ UNCHANGED cur
  BY <1>1, Zenon
<1>3. ReqKept /\ closing' = closing /\ crossed' = crossed /\ restoring' = restoring /\ Unlocked
  BY Zenon DEF Reconnect, RecoveryKept
<1>4. EntryOK(ent[e]) /\ ent[e] \in EntryType
  BY Zenon DEF MgrInv, MgrCore
<1>5. /\ x \in EntryType /\ x.c = ent[e].c /\ x.conn = ent[e].conn /\ x.stop = ent[e].stop
      /\ x.reconnect = ent[e].reconnect /\ x.online = ent[e].online /\ x.adapter = ent[e].adapter
      /\ x.task \in {ent[e].task, "gone"}
  <2>1. CASE own
    BY <1>4, <2>1, Zenon DEF EntryType
  <2>2. CASE ~own
    BY <1>4, <2>2, Zenon DEF EntryType
  <2> QED BY <2>1, <2>2, Zenon
<1> HIDE DEF x
<1>6. EntryOK(x) /\ EntryMoves(ent[e], x)
  BY <1>4, <1>5, Zenon DEF EntryMoves, EntryOK
<1>7. CASE ~CanReconnect(e)
  BY <1>2, <1>3, <1>5, <1>6, <1>7, EntryTurns, Zenon DEF MapKept
<1>8. CASE CanReconnect(e)
  <2> DEFINE w == Tidy(Stopping([x EXCEPT !.reconnect = FALSE]))
             c == x.c
  <2>1. cur = e /\ closing = "no" /\ e # 0
    BY <1>8, ManagerAssumption DEF CanReconnect, Entry
  <2>2. HasRoom /\ Fresh \in Entry /\ Fresh # e
    BY <1>2, <1>8, <2>1, FreshIs, Zenon
  <2>3. ent' = [ent EXCEPT ![e] = w, ![Fresh] = MakeEntry(c)] /\ cur' = Fresh
    BY <1>2, <1>8, Zenon DEF Replace
  <2>4. /\ EntryOK(w) /\ w.stop # "none"
        /\ w.c = ent[e].c \/ (w.c.gen = 0 /\ w.task = "gone")
        /\ w.task = "recovering" => ent[e].task = "recovering"
    BY <1>5, <1>6, ReplacedIs, Zenon
  <2> HIDE DEF w
  <2>5. Takes(c, w)
    <3>1. ent' = [f \in Entry |-> IF f = Fresh THEN MakeEntry(c) ELSE IF f = cur THEN w ELSE ent[f]]
      BY <2>1, <2>2, <2>3, Zenon DEF MgrInv, MgrCore
    <3> QED BY <2>2, <2>3, <3>1, Zenon DEF Takes
  <2>6. c \in CfgType /\ c.gen # 0 /\ c.gen <= gens /\ gens' = gens /\ c = ent[cur].c
    BY <1>3, <1>5, <1>6, <2>1, Zenon DEF EntryOK, EntryType, MgrInv, MgrCore, ReqKept
  <2> HIDE DEF c
  <2>7. /\ ent' \in [Entry -> EntryType] /\ \A f \in Entry : EntryOK(ent[f])'
        /\ cur' \in Entry /\ cur' # 0 /\ cur' \in 0 .. MaxEntry
        /\ \A f \in Entry : f # cur' => ent'[f].stop # "none"
        /\ ent'[cur'].c = c /\ ent'[cur'].reconnect
        /\ \A f \in Entry : ent'[f].task = "recovering" => ent[f].task = "recovering" /\ ent'[f].c = ent[f].c
        /\ \A f \in Entry \ {cur'} : ent'[f].c.gen \in {0, ent[f].c.gen}
        /\ \A o \in Reqst : req[o].e # cur'
    BY <2>1, <2>4, <2>5, <2>6, NewCurrent, Zenon
  <2>8. UNCHANGED <<cfg, gens, req, mutex, closing, crossed, restoring>>
    BY <1>3, Zenon DEF ReqKept
  <2>9. ASSUME NEW o \in Reqst PROVE ReqstOK(o, req[o])'
    <3>1. ReqstOK(o, req[o])
      BY Zenon DEF MgrInv, MgrCore
    <3>2. req[o].pc = "recover" => ent'[req[o].e].c.gen \in {0, req[o].seen.gen}
      BY <2>7, <3>1, Zenon DEF ReqstOK
    <3> QED BY <2>8, <3>1, <3>2, Zenon DEF ReqstOK
  <2>10. Following'
    BY <2>1, <2>6, <2>7, <2>8, Zenon DEF MgrInv, MgrCore, Following, Owing, Agrees
  <2>11. MgrCore'
    BY <2>1, <2>6, <2>7, <2>8, <2>9, <2>10, Zenon DEF MgrInv, MgrCore
  <2>12. Recoveries' \subseteq Recoveries
    BY <2>7, <2>8, Zenon DEF Recoveries
  <2>13. \A g : Dead(g) => Dead(g)'
    BY <2>1, <2>6, <2>7, <2>8, Zenon DEF Dead
  <2>14. Claims'
    BY <2>8, <2>12, <2>13, ClaimsShrink, NobodyInstalls, <1>3 DEF MgrInv, MgrCore
  <2> QED BY <2>11, <2>14, Zenon DEF MgrInv
<1> QED BY <1>7, <1>8, Zenon

\* A request installs another connection: it is the stored configuration's, or
\* somebody else is about to apply that one.
LEMMA AppliesNew == ASSUME MgrInv, NEW o \in Reqst, ApplyNew(o) PROVE MgrInv'
<1> DEFINE c == req[o].seen
           w == Retiring(ent[cur])
           r == [req[o] EXCEPT !.e = Fresh, !.pc = "wait"]
<1>1. /\ req[o].pc = "install" /\ closing = "no" /\ c.gen # 0 /\ HasRoom /\ cur' = Fresh /\ mutex' = "none"
      /\ UNCHANGED <<cfg, gens, closing, crossed, restoring>> /\ req' = [req EXCEPT ![o] = r]
  BY Zenon DEF ApplyNew, SetReq, RecoveryKept
<1>2. ReqstOK(o, req[o]) /\ mutex = o /\ req[o] \in ReqstType
  BY <1>1, Zenon DEF MgrInv, MgrCore, ReqstOK
<1>3. c \in CfgType /\ c.gen <= gens
  BY <1>2, Zenon DEF ReqstOK, ReqstType
<1>4. cur # 0 => cur \in Entry
  BY ManagerAssumption DEF Entry, MgrInv, MgrCore
<1>5. cur # 0 => /\ EntryOK(w) /\ w.stop # "none"
                 /\ w.c = ent[cur].c \/ (w.c.gen = 0 /\ w.task = "gone")
                 /\ w.task = "recovering" => ent[cur].task = "recovering"
  BY <1>4, ReplacedIs, Zenon DEF MgrInv, MgrCore
<1>6. Takes(c, w)
  BY <1>1, Zenon DEF ApplyNew, Takes
<1>7. \A p \in Reqst : p # o => req[p].pc # "install"
  BY <1>2, Zenon DEF MgrInv, MgrCore, ReqstOK
<1>8. req[o].seen # cfg /\ ~crossed => Owing("apply") \/ Owing("remove")
  BY <1>1, Zenon DEF MgrInv, MgrCore, Following
<1> HIDE DEF w
<1>9. /\ ent' \in [Entry -> EntryType] /\ \A f \in Entry : EntryOK(ent[f])'
      /\ cur' \in Entry /\ cur' # 0 /\ cur' \in 0 .. MaxEntry
      /\ \A f \in Entry : f # cur' => ent'[f].stop # "none"
      /\ ent'[cur'].c = c /\ ent'[cur'].reconnect
      /\ \A f \in Entry : ent'[f].task = "recovering" => ent[f].task = "recovering" /\ ent'[f].c = ent[f].c
      /\ \A f \in Entry \ {cur'} : ent'[f].c.gen \in {0, ent[f].c.gen}
      /\ \A p \in Reqst : req[p].e # cur'
  BY <1>1, <1>3, <1>5, <1>6, NewCurrent, Zenon
<1>10. /\ r \in ReqstType /\ r.pc = "wait" /\ r.seen = c /\ r.e = cur'
  BY <1>1, <1>2, <1>9, Zenon DEF ReqstType
<1>11. req'[o] = r /\ \A p \in Reqst \ {o} : req'[p] = req[p]
  BY <1>1, Zenon DEF MgrInv, MgrCore
<1>12. req' \in [Reqst -> ReqstType]
  BY <1>1, <1>10, Zenon DEF MgrInv, MgrCore
<1> HIDE DEF r, c
<1>13. ASSUME NEW p \in Reqst PROVE ReqstOK(p, req[p])'
  <2>1. CASE p = o
    BY <1>1, <1>3, <1>9, <1>10, <1>11, <2>1, ManagerAssumption DEF ReqstOK
  <2>2. CASE p # o
    <3>1. ReqstOK(p, req[p]) /\ req'[p] = req[p]
      BY <1>11, <2>2, Zenon DEF MgrInv, MgrCore
    <3>2. req[p].pc = "recover" => ent'[req[p].e].c.gen \in {0, req[p].seen.gen}
      BY <1>9, <3>1, Zenon DEF ReqstOK
    <3>3. req[p].pc # "install" /\ mutex' # p
      BY <1>1, <1>7, <2>2, ManagerAssumption, Zenon
    <3> QED BY <1>1, <3>1, <3>2, <3>3, Zenon DEF ReqstOK
  <2> QED BY <2>1, <2>2, Zenon
<1>14. \A p \in Reqst : req'[p].pc # "install"
  BY <1>7, <1>10, <1>11, Zenon
<1>15. (Owing("apply") => Owing("apply")') /\ (Owing("remove") => Owing("remove")')
  BY <1>1, <1>11, Zenon DEF Owing
<1>16. Following'
  <2>1. ~crossed /\ ~Owing("apply")' /\ ~Owing("remove")' => c = cfg
    BY <1>8, <1>15, Zenon DEF c
  <2>2. ~crossed /\ ~Owing("apply")' /\ ~Owing("remove")' => Agrees'
    BY <1>1, <1>9, <2>1, Zenon DEF Agrees
  <2> QED BY <1>1, <1>9, <1>14, <2>2, Zenon DEF Following
<1>17. MgrCore'
  BY <1>1, <1>3, <1>9, <1>12, <1>13, <1>16, Zenon DEF MgrInv, MgrCore
<1>18. Recoveries' \subseteq Recoveries
  BY <1>9, <1>10, <1>11 DEF Recoveries
<1>19. \A g : Dead(g) => Dead(g)'
  BY <1>1, <1>9, <1>14, Zenon DEF Dead, c
<1>20. Claims'
  BY <1>1, <1>14, <1>18, <1>19, ClaimsShrink, Zenon DEF MgrInv, MgrCore
<1> QED BY <1>17, <1>20, Zenon DEF MgrInv

\* A request's record changes and the entries do not.
LEMMA ReqKinds ==
  ASSUME MgrInv, NEW o \in Reqst, NEW r \in ReqstType, SetReq(o, r), ent' = ent,
         gens' \in Nat, gens <= gens', ReqstOK(o, r)',
         \A p \in Reqst \ {o} : mutex' = p <=> mutex = p
  PROVE  /\ req' \in [Reqst -> ReqstType] /\ \A p \in Reqst : ReqstOK(p, req[p])'
         /\ \A e \in Entry : EntryOK(ent[e])'
         /\ req'[o] = r /\ \A p \in Reqst \ {o} : req'[p] = req[p]
<1>1. req'[o] = r /\ \A p \in Reqst \ {o} : req'[p] = req[p]
  BY Zenon DEF MgrInv, MgrCore, SetReq
<1>2. req' \in [Reqst -> ReqstType]
  BY Zenon DEF MgrInv, MgrCore, SetReq
<1>3. ASSUME NEW p \in Reqst PROVE ReqstOK(p, req[p])'
  <2>1. CASE p = o
    BY <1>1, <2>1, Zenon
  <2>2. CASE p # o
    <3>1. ReqstOK(p, req[p]) /\ req'[p] = req[p] /\ (mutex' = p <=> mutex = p)
      BY <1>1, <2>2, Zenon DEF MgrInv, MgrCore
    <3>2. req[p].seen.gen \in Nat /\ gens \in Nat
      BY <3>1, Zenon DEF ReqstOK, ReqstType, CfgType, MgrInv, MgrCore
    <3>3. req[p].seen.gen <= gens'
      BY <3>1, <3>2 DEF ReqstOK
    <3> QED BY <3>1, <3>3, Zenon DEF ReqstOK
  <2> QED BY <2>1, <2>2, Zenon
<1>4. ASSUME NEW e \in Entry PROVE EntryOK(ent[e])'
  <2>1. EntryOK(ent[e])
    BY Zenon DEF MgrInv, MgrCore
  <2>2. ent[e].c.gen \in Nat /\ gens \in Nat
    BY <2>1, Zenon DEF EntryOK, EntryType, CfgType, MgrInv, MgrCore
  <2>3. ent[e].c.gen <= gens'
    BY <2>1, <2>2 DEF EntryOK
  <2> QED BY <2>1, <2>3, Zenon DEF EntryOK
<1> QED BY <1>1, <1>2, <1>3, <1>4, Zenon

\* A request reads, is refused, or has come to its end.
LEMMA ReqQuiet ==
  ASSUME MgrInv, NEW o \in Reqst, NEW r \in ReqstType, SetReq(o, r),
         UNCHANGED <<cfg, gens, mutex, ent, cur, closing, crossed>>,
         req[o].pc \in {"idle", "commit", "wait", "recover", "recovering"},
         r.pc \in {"commit", "done"}, r.seen.gen <= gens,
         r.pc = "commit" /\ r.kind = "allow" => r.seen.gen # 0,
         \/ restoring' = restoring
         \/ req[o].pc = "recovering" /\ restoring' = restoring \ {req[o].seen.gen}
  PROVE  MgrInv'
<1>0. gens \in Nat /\ gens <= gens' /\ mutex # o
  BY DEF MgrInv, MgrCore, ReqstOK
<1>1. ReqstOK(o, r)'
  BY <1>0, Zenon DEF ReqstOK
<1>2. /\ req' \in [Reqst -> ReqstType] /\ \A p \in Reqst : ReqstOK(p, req[p])'
      /\ \A e \in Entry : EntryOK(ent[e])'
      /\ req'[o] = r /\ \A p \in Reqst \ {o} : req'[p] = req[p]
  BY <1>0, <1>1, ReqKinds, Zenon
<1>3. /\ Owing("apply")' <=> Owing("apply")
      /\ Owing("remove")' <=> Owing("remove")
      /\ Owing("install")' <=> Owing("install")
  BY <1>2, Zenon DEF Owing
<1>4. Agrees' <=> Agrees
  BY Zenon DEF Agrees
<1>5. \A p \in Reqst : req'[p].pc = "install" <=> req[p].pc = "install"
  BY <1>2, Zenon
<1>6. \A p \in Reqst : req'[p].pc = "install" => req'[p] = req[p]
  BY <1>2, Zenon
<1>7. Following'
  BY <1>3, <1>4, <1>5, <1>6, Zenon DEF MgrInv, MgrCore, Following
<1>8. MgrCore'
  BY <1>2, <1>7, Zenon DEF MgrInv, MgrCore
<1>9. Recoveries' \subseteq Recoveries
  BY <1>2 DEF Recoveries
<1>10. \A g : Dead(g) => Dead(g)'
  BY <1>5, <1>6, Zenon DEF Dead
<1>11. ASSUME NEW a \in Recoveries', ~crossed, a[3] \in restoring PROVE a[3] \in restoring'
  <2>1. CASE restoring' = restoring
    BY <1>11, <2>1, Zenon
  <2>2. CASE req[o].pc = "recovering" /\ restoring' = restoring \ {req[o].seen.gen}
    <3>1. <<"request", o, req[o].seen.gen>> \in Recoveries /\ a \in Recoveries
      BY <1>9, <2>2, Zenon DEF Recoveries
    <3>2. a # <<"request", o, req[o].seen.gen>>
      BY <1>2 DEF Recoveries
    <3>3. a[3] # req[o].seen.gen
      BY <1>11, <3>1, <3>2, Zenon DEF MgrInv, Claims
    <3> QED BY <1>11, <2>2, <3>3, Zenon
  <2> QED BY <2>1, <2>2, Zenon
<1>12. ~crossed => \A p \in Reqst : req'[p].pc = "install" /\ req'[p].seen.gen = 0 =>
                        \A a \in Recoveries' : a[3] # cfg'.gen
  BY <1>6, <1>9, Zenon DEF MgrInv, Claims
<1>13. Claims'
  BY <1>9, <1>10, <1>11, <1>12, ClaimsShrink, Zenon DEF MgrInv, MgrCore
<1> QED BY <1>8, <1>13, Zenon DEF MgrInv

\* A request writes the row, and is about to apply it or to remove the runtime.
LEMMA ReqCommits ==
  ASSUME MgrInv, NEW o \in Reqst, req[o].pc = "commit", NEW r \in ReqstType, SetReq(o, r),
         UNCHANGED <<mutex, ent, cur, closing, crossed, restoring>>,
         cfg' \in CfgType, gens' \in Nat, gens <= gens', cfg'.gen <= gens',
         cfg'.gen \in {0, cfg.gen} \/ cfg'.gen > gens,
         r.seen = req[o].seen, r.pc = IF cfg'.gen = 0 THEN "remove" ELSE "apply"
  PROVE  MgrInv'
<1>0. ReqstOK(o, req[o]) /\ gens \in Nat /\ mutex # o /\ cfg'.gen \in Nat
  BY Zenon DEF MgrInv, MgrCore, ReqstOK, CfgType
<1>1. r.seen.gen <= gens'
  BY <1>0 DEF ReqstOK, ReqstType, CfgType
<1>2. ReqstOK(o, r)'
  BY <1>0, <1>1, Zenon DEF ReqstOK
<1>3. /\ req' \in [Reqst -> ReqstType] /\ \A p \in Reqst : ReqstOK(p, req[p])'
      /\ \A e \in Entry : EntryOK(ent[e])'
      /\ req'[o] = r /\ \A p \in Reqst \ {o} : req'[p] = req[p]
  BY <1>0, <1>2, ReqKinds, Zenon
<1>4. (cfg'.gen = 0 => Owing("remove")') /\ (cfg'.gen # 0 => Owing("apply")')
  BY <1>3, Zenon DEF Owing
<1>5. Following'
  BY <1>4, Zenon DEF Following
<1>6. MgrCore'
  BY <1>3, <1>5, Zenon DEF MgrInv, MgrCore
<1>7. Recoveries' \subseteq Recoveries
  BY <1>3 DEF Recoveries
<1>8. \A p \in Reqst : req'[p].pc = "install" => req[p].pc = "install" /\ req'[p] = req[p]
  BY <1>3, Zenon
<1>9. ASSUME NEW a \in Recoveries' PROVE cfg'.gen = cfg.gen \/ a[3] # cfg'.gen
  <2>1. a[3] \in Nat \ {0} /\ a[3] <= gens
    BY <1>7, RecoveryGen, Zenon DEF MgrInv
  <2> QED BY <1>0, <2>1
<1>10. ASSUME NEW a \in Recoveries' PROVE Dead(a[3]) => Dead(a[3])'
  BY <1>8, <1>9, Zenon DEF Dead
<1>11. ~crossed => \A p \in Reqst : req'[p].pc = "install" /\ req'[p].seen.gen = 0 =>
                        \A a \in Recoveries' : a[3] # cfg'.gen
  BY <1>7, <1>8, <1>9, Zenon DEF MgrInv, Claims
<1>12. Claims'
  BY <1>7, <1>10, <1>11, ClaimsShrink, Zenon DEF MgrInv, MgrCore
<1> QED BY <1>6, <1>12, Zenon DEF MgrInv

\* A request that is over.
LEMMA DoneReqIs == DoneReq \in ReqstType /\ DoneReq.pc = "done" /\ DoneReq.seen.gen = 0
<1>1. NoCfg \in CfgType /\ NoCfg.gen = 0
  BY Zenon DEF NoCfg, CfgType
<1>2. 0 \in 0 .. MaxEntry
  BY ManagerAssumption
<1> QED BY <1>1, <1>2, Zenon DEF DoneReq, NoReqst, ReqstType

\* What a request that begins, or that reads the row again, has read.
LEMMA LoadedIs ==
  ASSUME MgrInv, NEW r \in ReqstType
  PROVE  /\ Loaded(r) \in ReqstType /\ Loaded(r).pc \in {"commit", "done"} /\ Loaded(r).seen.gen <= gens
         /\ Loaded(r).pc = "commit" /\ Loaded(r).kind = "allow" => Loaded(r).seen.gen # 0
<1>1. cfg \in CfgType /\ gens \in Nat /\ cfg.gen <= gens
  BY Zenon DEF MgrInv, MgrCore
<1>2. CASE cfg.gen = 0 /\ r.kind = "allow"
  BY <1>1, <1>2, DoneReqIs, Zenon DEF Loaded
<1>3. CASE ~(cfg.gen = 0 /\ r.kind = "allow")
  <2> DEFINE n == [r EXCEPT !.seen = cfg, !.pc = "commit"]
  <2>1. n \in ReqstType /\ n.seen = cfg /\ n.pc = "commit" /\ n.kind = r.kind
    BY <1>1, Zenon DEF ReqstType
  <2>2. Loaded(r) = n
    BY <1>3, Zenon DEF Loaded
  <2> HIDE DEF n
  <2> QED BY <1>1, <1>3, <2>1, <2>2, Zenon
<1> QED BY <1>2, <1>3, Zenon

\* Requests begin, are refused, read again or find their entry ready.
LEMMA QuietRequests ==
  ASSUME MgrInv, NEW o \in Reqst,
         \/ \E kind \in Kinds[o] : Request(o, kind)
         \/ CredentialsRefused(o) \/ AwaitInitialized(o)
         \/ PersistPatch(o) /\ ~MatchesCurrent(req[o].seen)
         \/ FinalizePairing(o) /\ (cfg.gen = 0 \/ cfg.paired)
  PROVE  MgrInv'
<1>1. /\ UNCHANGED <<cfg, gens, mutex, ent, cur, closing, crossed, restoring>>
      /\ req[o].pc \in {"idle", "commit", "wait"}
  BY Zenon
     DEF Request, CredentialsRefused, AwaitInitialized, PersistPatch, FinalizePairing, MapKept,
     MgrKept,
         RecoveryKept
<1>2. 0 <= gens /\ req[o] \in ReqstType
  BY DEF MgrInv, MgrCore
<1>3. CASE SetReq(o, DoneReq)
  BY <1>1, <1>2, <1>3, DoneReqIs, ReqQuiet, Zenon
<1>4. CASE \E r \in ReqstType : SetReq(o, Loaded(r))
  BY <1>1, <1>2, <1>4, LoadedIs, ReqQuiet, Zenon
<1>5. CASE \E kind \in Kinds[o] : Request(o, kind)
  <2>1. PICK kind \in Kinds[o] : Request(o, kind)
    BY <1>5, Zenon
  <2>2. kind \in {"allow", "cred", "bot", "pair", "delete"}
    BY ManagerAssumption, Zenon
  <2>3. NoReqst \in ReqstType /\ NoReqst.seen.gen = 0
    BY ManagerAssumption DEF NoReqst, ReqstType, NoCfg, CfgType
  <2>4. CASE kind \in {"delete", "pair"}
    <3> DEFINE r == [NoReqst EXCEPT !.kind = kind, !.pc = "commit"]
    <3>1. r \in ReqstType /\ r.seen.gen = 0 /\ r.pc = "commit" /\ r.kind = kind
      BY <2>2, <2>3, Zenon DEF ReqstType
    <3>2. SetReq(o, r)
      BY <2>1, <2>4, Zenon DEF Request
    <3> HIDE DEF r
    <3> QED BY <1>1, <1>2, <2>4, <3>1, <3>2, ReqQuiet, Zenon
  <2>5. CASE kind \notin {"delete", "pair"}
    <3>1. [NoReqst EXCEPT !.kind = kind] \in ReqstType
      BY <2>2, <2>3, Zenon DEF ReqstType
    <3> QED BY <1>4, <2>1, <2>5, <3>1, Zenon DEF Request
  <2> QED BY <2>4, <2>5, Zenon
<1>6. CASE CredentialsRefused(o) \/ AwaitInitialized(o)
  BY <1>3, <1>6, Zenon DEF CredentialsRefused, AwaitInitialized
<1>7. CASE PersistPatch(o) /\ ~MatchesCurrent(req[o].seen)
  BY <1>2, <1>4, <1>7, Zenon DEF PersistPatch
<1>8. CASE FinalizePairing(o) /\ (cfg.gen = 0 \/ cfg.paired)
  BY <1>3, <1>8, Zenon DEF FinalizePairing
<1> QED BY <1>5, <1>6, <1>7, <1>8, Zenon

\* What a request makes of the row.
LEMMA PatchedIs ==
  ASSUME MgrInv, NEW kind \in {"allow", "cred", "bot"}, kind = "allow" => cfg.gen # 0
  PROVE  /\ Patched(cfg, kind) \in CfgType /\ Patched(cfg, kind).gen # 0
         /\ Patched(cfg, kind).gen \in {cfg.gen, gens + 1}
<1>1. cfg \in CfgType /\ gens \in Nat
  BY Zenon DEF MgrInv, MgrCore
<1> DEFINE v == cfg.rev + 1
           w == cfg.cred + 1
           b == IF cfg.bot = 2 THEN 1 ELSE 2
           g == gens + 1
<1>2. v \in Nat /\ w \in Nat /\ b \in Nat /\ g \in Nat /\ g # 0
  BY <1>1 DEF CfgType
<1>3. \/ kind = "allow" /\ Patched(cfg, kind) = [cfg EXCEPT !.rev = v]
      \/ cfg.gen # 0 /\ Patched(cfg, kind) = [cfg EXCEPT !.cred = w, !.rev = v]
      \/ Patched(cfg, kind) = [bot |-> b, cred |-> w, gen |-> g, rev |-> v, paired |-> FALSE]
  BY Zenon DEF Patched, Rebound
<1> HIDE DEF v, w, b, g
<1>4. CASE kind = "allow" /\ Patched(cfg, kind) = [cfg EXCEPT !.rev = v]
  BY <1>1, <1>2, <1>4, Zenon DEF CfgType
<1>5. CASE cfg.gen # 0 /\ Patched(cfg, kind) = [cfg EXCEPT !.cred = w, !.rev = v]
  BY <1>1, <1>2, <1>5, Zenon DEF CfgType
<1>6. CASE Patched(cfg, kind) = [bot |-> b, cred |-> w, gen |-> g, rev |-> v, paired |-> FALSE]
  <2>1. Patched(cfg, kind) \in CfgType /\ Patched(cfg, kind).gen = g
    BY <1>2, <1>6 DEF CfgType
  <2> QED BY <1>2, <2>1, Zenon DEF g
<1> QED BY <1>3, <1>4, <1>5, <1>6, Zenon

\* Requests write the row.
LEMMA WritingRequests ==
  ASSUME MgrInv, NEW o \in Reqst,
         \/ PersistPatch(o) /\ MatchesCurrent(req[o].seen)
         \/ FinalizePairing(o) /\ ~(cfg.gen = 0 \/ cfg.paired)
         \/ DeleteConfig(o)
  PROVE  MgrInv'
<1>1. UNCHANGED <<mutex, ent, cur, closing, crossed, restoring>> /\ req[o].pc = "commit"
  BY Zenon DEF PersistPatch, FinalizePairing, DeleteConfig, MapKept, MgrKept, RecoveryKept
<1>2. req[o] \in ReqstType /\ ReqstOK(o, req[o]) /\ cfg \in CfgType /\ gens \in Nat /\ cfg.gen <= gens
  BY Zenon DEF MgrInv, MgrCore
<1>3. cfg.gen \in Nat
  BY <1>2, Zenon DEF CfgType
<1> DEFINE r(p) == [req[o] EXCEPT !.pc = p]
<1>4. \A p \in {"apply", "remove"} : r(p) \in ReqstType /\ r(p).pc = p /\ r(p).seen = req[o].seen
  BY <1>2, Zenon DEF ReqstType
<1>5. CASE PersistPatch(o) /\ MatchesCurrent(req[o].seen)
  <2> DEFINE n == Patched(cfg, req[o].kind)
  <2>1. /\ cfg' = n /\ gens' = (IF cfg'.gen > gens THEN cfg'.gen ELSE gens) /\ SetReq(o, r("apply"))
        /\ req[o].kind \in {"allow", "cred", "bot"}
    BY <1>5, Zenon DEF PersistPatch, ReqTo
  <2>2. req[o].kind = "allow" => cfg.gen # 0
    BY <1>1, <1>2, <1>5, Zenon DEF ReqstOK, MatchesCurrent
  <2>3. n \in CfgType /\ n.gen # 0 /\ n.gen \in {cfg.gen, gens + 1}
    BY <2>1, <2>2, PatchedIs, Zenon
  <2> HIDE DEF n, r
  <2>4. gens' \in Nat /\ gens <= gens' /\ cfg'.gen <= gens' /\ (cfg'.gen \in {0, cfg.gen} \/ cfg'.gen > gens)
    BY <1>2, <1>3, <2>1, <2>3
  <2> QED BY <1>1, <1>4, <2>1, <2>3, <2>4, ReqCommits, Zenon
<1>6. CASE FinalizePairing(o) /\ ~(cfg.gen = 0 \/ cfg.paired)
  <2> DEFINE v == cfg.rev + 1
             n == [cfg EXCEPT !.paired = TRUE, !.rev = v]
  <2>1. cfg' = n /\ gens' = gens /\ SetReq(o, r("apply")) /\ v \in Nat
    BY <1>2, <1>6 DEF FinalizePairing, ReqTo, CfgType
  <2> HIDE DEF v
  <2>2. n \in CfgType /\ n.gen = cfg.gen /\ cfg.gen # 0
    BY <1>2, <1>6, <2>1, Zenon DEF CfgType
  <2> HIDE DEF n, r
  <2>3. gens' \in Nat /\ gens <= gens' /\ cfg'.gen <= gens' /\ cfg'.gen \in {0, cfg.gen}
    BY <1>2, <2>1, <2>2
  <2> QED BY <1>1, <1>4, <2>1, <2>2, <2>3, ReqCommits, Zenon
<1>7. CASE DeleteConfig(o)
  <2>1. cfg' = NoCfg /\ gens' = gens /\ SetReq(o, r("remove"))
    BY <1>7, Zenon DEF DeleteConfig, ReqTo
  <2>2. NoCfg \in CfgType /\ NoCfg.gen = 0
    BY Zenon DEF NoCfg, CfgType
  <2> HIDE DEF r
  <2>3. gens' \in Nat /\ gens <= gens' /\ cfg'.gen <= gens' /\ cfg'.gen \in {0, cfg.gen}
    BY <1>2, <2>1, <2>2
  <2> QED BY <1>1, <1>4, <2>1, <2>2, <2>3, ReqCommits, Zenon
<1> QED BY <1>5, <1>6, <1>7, Zenon

\* A request steps while an entry does.
LEMMA ReqOthers ==
  ASSUME MgrInv, NEW o \in Reqst, NEW r \in ReqstType, SetReq(o, r), gens' = gens, ReqstOK(o, r)',
         \A f \in Entry : ent'[f].c.gen \in {0, ent[f].c.gen},
         \A p \in Reqst \ {o} : mutex' = p <=> mutex = p
  PROVE  /\ req' \in [Reqst -> ReqstType] /\ \A p \in Reqst : ReqstOK(p, req[p])'
         /\ req'[o] = r /\ \A p \in Reqst \ {o} : req'[p] = req[p]
<1>1. req'[o] = r /\ \A p \in Reqst \ {o} : req'[p] = req[p]
  BY Zenon DEF MgrInv, MgrCore, SetReq
<1>2. req' \in [Reqst -> ReqstType]
  BY Zenon DEF MgrInv, MgrCore, SetReq
<1>3. ASSUME NEW p \in Reqst PROVE ReqstOK(p, req[p])'
  <2>1. CASE p = o
    BY <1>1, <2>1, Zenon
  <2>2. CASE p # o
    <3>1. ReqstOK(p, req[p]) /\ req'[p] = req[p] /\ (mutex' = p <=> mutex = p)
      BY <1>1, <2>2, Zenon DEF MgrInv, MgrCore
    <3>2. req[p].pc = "recover" => ent'[req[p].e].c.gen \in {0, req[p].seen.gen}
      BY <3>1, Zenon DEF ReqstOK
    <3> QED BY <3>1, <3>2, Zenon DEF ReqstOK
  <2> QED BY <2>1, <2>2, Zenon
<1> QED BY <1>1, <1>2, <1>3, Zenon

\* A request takes the lock and reads the row.
LEMMA ReqLoads == ASSUME MgrInv, NEW o \in Reqst, ApplyLoads(o) PROVE MgrInv'
<1>0. PICK r : r = [req[o] EXCEPT !.pc = "install", !.seen = cfg]
  BY Zenon
<1>1. /\ req[o].pc = "apply" /\ Unlocked /\ mutex' = o /\ SetReq(o, r)
      /\ UNCHANGED <<cfg, gens, ent, cur, closing, crossed, restoring>>
  BY <1>0, Zenon DEF ApplyLoads, MapKept, MgrKept, RecoveryKept
<1>2. req[o] \in ReqstType /\ cfg \in CfgType /\ gens \in Nat /\ cfg.gen <= gens /\ gens <= gens'
  BY <1>1 DEF MgrInv, MgrCore
<1>3. r \in ReqstType /\ r.pc = "install" /\ r.seen = cfg
  BY <1>0, <1>2, Zenon DEF ReqstType
<1>4. ReqstOK(o, r)'
  BY <1>1, <1>2, <1>3, Zenon DEF ReqstOK
<1>5. /\ req' \in [Reqst -> ReqstType] /\ \A p \in Reqst : ReqstOK(p, req[p])'
      /\ \A e \in Entry : EntryOK(ent[e])'
      /\ req'[o] = r /\ \A p \in Reqst \ {o} : req'[p] = req[p]
  BY <1>1, <1>2, <1>3, <1>4, ReqKinds, ManagerAssumption, Zenon DEF Unlocked
<1>6. \A p \in Reqst : req'[p].pc = "install" => p = o
  BY <1>1, <1>5, NobodyInstalls, Zenon
<1>7. Following'
  BY <1>1, <1>3, <1>5, <1>6, Zenon DEF Following, Owing
<1>8. MgrCore'
  BY <1>1, <1>5, <1>7, Zenon DEF MgrInv, MgrCore
<1>9. Recoveries' \subseteq Recoveries
  BY <1>1, <1>3, <1>5 DEF Recoveries
<1>10. ASSUME NEW a \in Recoveries' PROVE a[3] # 0
  BY <1>9, RecoveryGen, Zenon DEF MgrInv
<1>11. \A g : Dead(g) => Dead(g)'
  BY <1>1, <1>3, <1>5, <1>6, Zenon DEF Dead
<1>12. Claims'
  BY <1>1, <1>3, <1>5, <1>6, <1>9, <1>10, <1>11, ClaimsShrink, Zenon DEF MgrInv, MgrCore
<1> QED BY <1>8, <1>12, Zenon DEF MgrInv

\* A request claims the recovery of the binding it installed, or need not.
LEMMA ReqRecovers == ASSUME MgrInv, NEW o \in Reqst, RequestRecovers(o) PROVE MgrInv'
<1> DEFINE e == req[o].e
           claim == IF ent[e].c.paired THEN Claim(e) ELSE "yes"
<1>1. /\ req[o].pc = "recover" /\ Unlocked
      /\ UNCHANGED <<cfg, gens, mutex, ent, cur, closing, crossed>>
      /\ IF claim = "go" THEN ReqTo(o, "recovering") ELSE SetReq(o, DoneReq)
      /\ restoring' = IF claim = "go" THEN restoring \cup {ent[e].c.gen} ELSE restoring
  BY Zenon DEF RequestRecovers, MapKept
<1>2. /\ req[o] \in ReqstType /\ ReqstOK(o, req[o]) /\ gens \in Nat /\ gens <= gens' /\ e \in Entry
      /\ EntryOK(ent[e]) /\ mutex # o
  BY <1>1 DEF MgrInv, MgrCore, ReqstOK
<1>3. CASE claim # "go"
  BY <1>1, <1>2, <1>3, DoneReqIs, ReqQuiet
<1>4. CASE claim = "go"
  <2>0. PICK r : r = [req[o] EXCEPT !.pc = "recovering"]
    BY Zenon
  <2>1. SetReq(o, r) /\ restoring' = restoring \cup {ent[e].c.gen}
    BY <1>1, <1>4, <2>0, Zenon DEF ReqTo
  <2>2. cur = e /\ ent[e].online /\ ent[e].c.gen \notin restoring
    BY <1>4, ZenonT(60) DEF Claim, Online
  <2>3. ent[e].c.gen = req[o].seen.gen /\ cur # 0
    BY <1>1, <1>2, <2>2, ManagerAssumption DEF ReqstOK, EntryOK, Entry
  <2>4. r \in ReqstType /\ r.pc = "recovering" /\ r.seen = req[o].seen /\ r.e = e
    BY <1>2, <2>0, Zenon DEF ReqstType
  <2>5. ReqstOK(o, r)'
    BY <1>1, <1>2, <2>4, Zenon DEF ReqstOK
  <2>6. /\ req' \in [Reqst -> ReqstType] /\ \A p \in Reqst : ReqstOK(p, req[p])'
        /\ \A f \in Entry : EntryOK(ent[f])'
        /\ req'[o] = r /\ \A p \in Reqst \ {o} : req'[p] = req[p]
    BY <1>1, <1>2, <2>1, <2>4, <2>5, ReqKinds, Zenon
  <2>7. /\ Owing("apply")' <=> Owing("apply")
        /\ Owing("remove")' <=> Owing("remove")
        /\ Owing("install")' <=> Owing("install")
    BY <1>1, <2>4, <2>6, Zenon DEF Owing
  <2>8. \A p \in Reqst : req[p].pc # "install" /\ req'[p].pc # "install"
    BY <1>1, <2>4, <2>6, NobodyInstalls, Zenon
  <2>9. Following'
    BY <1>1, <2>7, <2>8, Zenon DEF MgrInv, MgrCore, Following, Agrees
  <2>10. MgrCore'
    BY <1>1, <2>6, <2>9, Zenon DEF MgrInv, MgrCore
  <2> DEFINE z == <<"request", o, req[o].seen.gen>>
  <2>11. Recoveries' \subseteq Recoveries \cup {z}
    BY <1>1, <2>4, <2>6 DEF Recoveries
  <2>12. \A g : Dead(g) => Dead(g)'
    BY <1>1, <2>8, Zenon DEF Dead
  <2>13. z[3] = ent[e].c.gen /\ ent[cur].c.gen = ent[e].c.gen
    BY <2>2, <2>3, Zenon
  <2> HIDE DEF z, e
  <2>14. Claims'
    BY <1>1, <2>1, <2>2, <2>3, <2>8, <2>11, <2>12, <2>13, ClaimsGrow, Zenon
  <2> QED BY <2>10, <2>14, Zenon DEF MgrInv
<1> QED BY <1>3, <1>4, Zenon

\* A request's recovery is over.
LEMMA ReqRecovered == ASSUME MgrInv, NEW o \in Reqst, RequestRecovered(o) PROVE MgrInv'
<1>1. /\ req[o].pc = "recovering" /\ SetReq(o, DoneReq) /\ restoring' = restoring \ {req[o].seen.gen}
      /\ UNCHANGED <<cfg, gens, mutex, ent, cur, closing, crossed>>
  BY Zenon DEF RequestRecovered, HandedOver, MapKept
<1>2. 0 <= gens
  BY DEF MgrInv, MgrCore
<1> QED BY <1>1, <1>2, DoneReqIs, ReqQuiet, Zenon

\* A request's recovery fails: its entry is taken offline, to be replaced.
LEMMA ReqRecoveryFails == ASSUME MgrInv, NEW o \in Reqst, RequestRecoveryFails(o) PROVE MgrInv'
<1>0. PICK e : e = req[o].e
  BY Zenon
<1> DEFINE x == ent[e]
           w == [x EXCEPT !.online = FALSE, !.fix = "stopping"]
           y == Offline(e, x)
           n == Tidy(y)
<1>1. /\ req[o].pc = "recovering" /\ ent' = [ent EXCEPT ![e] = n] /\ SetReq(o, DoneReq)
      /\ restoring' = restoring \ {req[o].seen.gen}
      /\ UNCHANGED <<cfg, gens, mutex, cur, closing, crossed>>
  BY <1>0, Zenon DEF RequestRecoveryFails, MapKept, SetEntry
<1>2. /\ e \in Entry /\ EntryOK(x) /\ x \in EntryType /\ mutex # o /\ gens \in Nat
  BY <1>0, <1>1, Zenon DEF MgrInv, MgrCore, ReqstOK
<1>3. y = x \/ y = Stopping(w)
  BY Zenon DEF Offline
<1> HIDE DEF x, y
<1>4. /\ w \in EntryType /\ w.c = x.c /\ w.conn = x.conn /\ w.stop = x.stop /\ w.reconnect = x.reconnect
      /\ w.task = x.task /\ w.adapter = x.adapter /\ ~w.online
  BY <1>2, Zenon DEF EntryType
<1> HIDE DEF w
<1>5. /\ y \in EntryType /\ y.c = x.c /\ y.conn = x.conn /\ (y.stop = "none" => x.stop = "none")
      /\ (y.stop = "done" => x.stop = "done") /\ y.reconnect = x.reconnect
      /\ y.task = x.task /\ y.adapter = x.adapter /\ (y.online => x.online)
  <2>1. CASE y = x
    BY <1>2, <2>1, Zenon
  <2>2. CASE y = Stopping(w)
    BY <1>4, <2>2, StoppingIs, Zenon
  <2> QED BY <1>3, <2>1, <2>2, Zenon
<1>6. EntryMoves(x, y)
  BY <1>2, <1>5, Zenon DEF EntryMoves, EntryOK
<1>7. EntryTurn(x, n) /\ (n.task = "recovering" => y.task = "recovering" /\ n = y)
  BY <1>2, <1>6, TidyTurn, Zenon
<1> HIDE DEF n
<1>8. ent'[e] = n /\ (\A f \in Entry \ {e} : ent'[f] = ent[f]) /\ ent' \in [Entry -> EntryType]
  BY <1>1, <1>2, <1>7, Zenon DEF MgrInv, MgrCore, EntryTurn, EntryOK
<1>9. ASSUME NEW f \in Entry
      PROVE  /\ EntryOK(ent[f])' /\ ent'[f].c.gen \in {0, ent[f].c.gen}
             /\ f # cur => ent'[f].stop # "none"
             /\ ent[f].reconnect => ent'[f].reconnect /\ ent'[f].c = ent[f].c
             /\ ent'[f].task = "recovering" => ent[f].task = "recovering" /\ ent'[f].c = ent[f].c
  <2>1. CASE f = e
    <3>1. EntryOK(ent'[f])
      BY <1>7, <1>8, <2>1, Zenon DEF EntryTurn
    <3>2. EntryOK(ent[f])'
      BY <1>1, <3>1, Zenon DEF EntryOK
    <3> QED BY <1>5, <1>7, <1>8, <2>1, <3>2, Zenon DEF EntryTurn, x, MgrInv, MgrCore
  <2>2. CASE f # e
    <3>1. EntryOK(ent'[f]) /\ ent'[f] = ent[f]
      BY <1>8, <2>2, Zenon DEF MgrInv, MgrCore
    <3>2. EntryOK(ent[f])'
      BY <1>1, <3>1, Zenon DEF EntryOK
    <3> QED BY <3>1, <3>2, Zenon DEF MgrInv, MgrCore
  <2> QED BY <2>1, <2>2, Zenon
<1>10. ReqstOK(o, DoneReq)'
  BY <1>1, <1>2, DoneReqIs DEF ReqstOK
<1>11. /\ req' \in [Reqst -> ReqstType] /\ \A p \in Reqst : ReqstOK(p, req[p])'
       /\ req'[o] = DoneReq /\ \A p \in Reqst \ {o} : req'[p] = req[p]
  BY <1>1, <1>9, <1>10, DoneReqIs, ReqOthers, Zenon
<1>12. cur # 0 => cur \in Entry
  BY ManagerAssumption DEF Entry, MgrInv, MgrCore
<1>13. closing = "no" /\ cur # 0 => ent'[cur].reconnect /\ ent'[cur].c = ent[cur].c
  BY <1>9, <1>12, Zenon DEF MgrInv, MgrCore
<1>14. /\ Owing("apply")' <=> Owing("apply")
       /\ Owing("remove")' <=> Owing("remove")
       /\ Owing("install")' <=> Owing("install")
  BY <1>1, <1>11, DoneReqIs, Zenon DEF Owing
<1>15. \A p \in Reqst : /\ req'[p].pc = "install" <=> req[p].pc = "install"
                        /\ req'[p].pc = "install" => req'[p] = req[p]
  BY <1>1, <1>11, DoneReqIs, Zenon
<1>16. closing = "no" => (Agrees' <=> Agrees)
  BY <1>1, <1>13, Zenon DEF Agrees
<1>17. Following'
  BY <1>1, <1>14, <1>15, <1>16, Zenon DEF MgrInv, MgrCore, Following
<1>18. MgrCore'
  BY <1>1, <1>8, <1>9, <1>11, <1>13, <1>17, Zenon DEF MgrInv, MgrCore
<1>19. Recoveries' \subseteq Recoveries
  BY <1>9, <1>11, DoneReqIs DEF Recoveries
<1>20. ASSUME NEW a \in Recoveries' PROVE Dead(a[3]) => Dead(a[3])'
  <2>1. a[3] # 0
    BY <1>19, RecoveryGen, Zenon DEF MgrInv
  <2>2. cur # 0 => ent'[cur].c.gen \in {0, ent[cur].c.gen}
    BY <1>9, <1>12, Zenon
  <2> QED BY <1>1, <1>15, <2>1, <2>2, Zenon DEF Dead
<1>21. ASSUME NEW a \in Recoveries', ~crossed, a[3] \in restoring PROVE a[3] \in restoring'
  <2>1. <<"request", o, req[o].seen.gen>> \in Recoveries /\ a \in Recoveries
    BY <1>1, <1>19, Zenon DEF Recoveries
  <2>2. a # <<"request", o, req[o].seen.gen>>
    BY <1>11, DoneReqIs DEF Recoveries
  <2>3. a[3] # req[o].seen.gen
    BY <1>21, <2>1, <2>2, Zenon DEF MgrInv, Claims
  <2> QED BY <1>1, <1>21, <2>3, Zenon
<1>22. ~crossed => \A p \in Reqst : req'[p].pc = "install" /\ req'[p].seen.gen = 0 =>
                        \A a \in Recoveries' : a[3] # cfg'.gen
  BY <1>1, <1>15, <1>19, Zenon DEF MgrInv, Claims
<1>23. Claims'
  BY <1>1, <1>19, <1>20, <1>21, <1>22, ClaimsShrink, Zenon DEF MgrInv, MgrCore
<1> QED BY <1>18, <1>23, Zenon DEF MgrInv

\* A request changes the configuration of the connection there is.
LEMMA AppliesSame == ASSUME MgrInv, NEW o \in Reqst, ApplySame(o) PROVE MgrInv'
<1>00. PICK pc \in {"recover", "wait"} : SetReq(o, [req[o] EXCEPT !.e = cur, !.pc = pc])
  BY Zenon DEF ApplySame
<1>0. PICK r, c, n :
          /\ c = req[o].seen
          /\ r = [req[o] EXCEPT !.e = cur, !.pc = pc]
          /\ n = [ent[cur] EXCEPT !.c = c]
  BY Zenon
<1>1. /\ req[o].pc = "install" /\ closing = "no" /\ c.gen # 0 /\ mutex' = "none" /\ SetReq(o, r)
      /\ cur # 0 /\ ent[cur].c.gen = c.gen /\ ent[cur].conn = <<c.bot, c.cred>>
      /\ ent' = [ent EXCEPT ![cur] = Tidy(n)]
      /\ UNCHANGED <<cfg, gens, cur, closing, crossed, restoring>>
  BY <1>00, <1>0, ZenonT(60) DEF ApplySame, SameTransport, SetEntry, MapKept, RecoveryKept
<1>2. /\ req[o] \in ReqstType /\ ReqstOK(o, req[o]) /\ mutex = o /\ cur \in Entry /\ cur \in 0 .. MaxEntry
      /\ EntryOK(ent[cur]) /\ ent[cur].reconnect
  BY <1>1, ManagerAssumption DEF MgrInv, MgrCore, ReqstOK, Entry
<1>3. c \in CfgType /\ c.gen <= gens
  BY <1>0, <1>2, Zenon DEF ReqstOK, ReqstType
<1>4. /\ n \in EntryType /\ n.c = c /\ n.conn = ent[cur].conn /\ n.task = ent[cur].task /\ n.stop = ent[cur].stop
      /\ n.reconnect /\ n.online = ent[cur].online /\ n.adapter = ent[cur].adapter
  BY <1>0, <1>2, <1>3, Zenon DEF EntryOK, EntryType
<1>5. Tidy(n) = n
  BY <1>4, Zenon DEF Tidy
<1>6. ent'[cur] = n /\ (\A f \in Entry \ {cur} : ent'[f] = ent[f]) /\ ent' \in [Entry -> EntryType]
  BY <1>1, <1>2, <1>4, <1>5, Zenon DEF MgrInv, MgrCore
<1>7. EntryOK(n)
  BY <1>1, <1>2, <1>3, <1>4, Zenon DEF EntryOK
<1>8. ASSUME NEW f \in Entry PROVE EntryOK(ent[f])'
  <2>1. EntryOK(ent'[f])
    BY <1>6, <1>7, Zenon DEF MgrInv, MgrCore
  <2> QED BY <1>1, <2>1, Zenon DEF EntryOK
<1>9. r \in ReqstType /\ r.pc \in {"recover", "wait"} /\ r.seen = c /\ r.e = cur
  BY <1>0, <1>2, Zenon DEF ReqstType
<1>10. ReqstOK(o, r)'
  BY <1>1, <1>2, <1>3, <1>4, <1>6, <1>9, ManagerAssumption, Zenon DEF ReqstOK
<1>11. \A f \in Entry : ent'[f].c.gen \in {0, ent[f].c.gen}
  BY <1>1, <1>4, <1>6, Zenon
<1>12. /\ req' \in [Reqst -> ReqstType] /\ \A p \in Reqst : ReqstOK(p, req[p])'
       /\ req'[o] = r /\ \A p \in Reqst \ {o} : req'[p] = req[p]
  BY <1>1, <1>2, <1>9, <1>10, <1>11, ReqOthers, ManagerAssumption, SMTT(30)
<1>13. \A p \in Reqst : req'[p].pc # "install"
  BY <1>2, <1>9, <1>12 DEF MgrInv, MgrCore, ReqstOK
<1>14. (Owing("apply") => Owing("apply")') /\ (Owing("remove") => Owing("remove")')
  BY <1>1, <1>12, Zenon DEF Owing
<1>15. c # cfg /\ ~crossed => Owing("apply") \/ Owing("remove")
  BY <1>0, <1>1, Zenon DEF MgrInv, MgrCore, Following
<1>16. Following'
  <2>1. ~crossed /\ ~Owing("apply")' /\ ~Owing("remove")' => Agrees'
    BY <1>1, <1>4, <1>6, <1>14, <1>15, Zenon DEF Agrees
  <2> QED BY <1>1, <1>13, <2>1, Zenon DEF Following
<1>17. MgrCore'
  BY <1>1, <1>2, <1>4, <1>6, <1>8, <1>12, <1>16, ZenonT(60) DEF MgrInv, MgrCore
<1>18. Recoveries' \subseteq Recoveries
  BY <1>1, <1>4, <1>6, <1>9, <1>12 DEF Recoveries
<1>19. \A g : Dead(g) => Dead(g)'
  BY <1>1, <1>4, <1>6, <1>13, Zenon DEF Dead
<1>20. Claims'
  BY <1>1, <1>13, <1>18, <1>19, ClaimsShrink, Zenon DEF MgrInv, MgrCore
<1> QED BY <1>17, <1>20, Zenon DEF MgrInv

\* The current entry, if any, is taken out and will be stopped.
LEMMA Removed ==
  ASSUME MgrInv, RemoveCurrent, gens' = gens
  PROVE  /\ cur' = 0 /\ ent' \in [Entry -> EntryType] /\ \A f \in Entry : EntryOK(ent[f])'
         /\ \A f \in Entry : ent'[f].c = ent[f].c /\ ent'[f].task = ent[f].task /\ ent'[f].stop # "none"
         /\ cur = 0 => restoring' = restoring
<1>1. cur' = 0 /\ (cur = 0 => restoring' = restoring)
  BY Zenon DEF RemoveCurrent
<1>2. CASE cur = 0
  <2>1. ent' = ent /\ \A f \in Entry : f # cur
    BY <1>2, ManagerAssumption DEF RemoveCurrent, Entry
  <2>2. ASSUME NEW f \in Entry PROVE EntryOK(ent[f])'
    <3>1. EntryOK(ent[f])
      BY Zenon DEF MgrInv, MgrCore
    <3> QED BY <2>1, <3>1, Zenon DEF EntryOK
  <2> QED BY <1>1, <2>1, <2>2, Zenon DEF MgrInv, MgrCore
<1>3. CASE cur # 0
  <2>1. cur \in Entry
    BY <1>3, ManagerAssumption DEF Entry, MgrInv, MgrCore
  <2>2. PICK x, n : x = [ent[cur] EXCEPT !.online = FALSE] /\ n = Retiring(x)
    BY Zenon
  <2>3. ent' = [ent EXCEPT ![cur] = n]
    BY <1>3, <2>2, Zenon DEF RemoveCurrent
  <2>4. EntryOK(ent[cur]) /\ ent[cur] \in EntryType
    BY <2>1, Zenon DEF MgrInv, MgrCore
  <2>5. /\ x \in EntryType /\ x.c = ent[cur].c /\ x.conn = ent[cur].conn /\ x.stop = ent[cur].stop
        /\ x.task = ent[cur].task /\ x.adapter = ent[cur].adapter /\ ~x.online
    BY <2>2, <2>4, Zenon DEF EntryType
  <2> DEFINE v == Stopping(x)
  <2>6. n = [v EXCEPT !.reconnect = FALSE, !.kill = TRUE]
    BY <2>2, Zenon DEF Retiring
  <2>7. /\ v \in EntryType /\ v.c = x.c /\ v.conn = x.conn /\ v.stop # "none" /\ v.online = x.online
        /\ v.task = x.task /\ v.adapter = x.adapter /\ (v.stop = "done" <=> x.stop = "done")
    BY <2>5, StoppingIs, Zenon
  <2> HIDE DEF v
  <2>8. /\ n \in EntryType /\ n.c = x.c /\ n.conn = x.conn /\ n.stop # "none" /\ n.online = x.online
        /\ n.task = x.task /\ n.adapter = x.adapter /\ (n.stop = "done" <=> x.stop = "done")
    BY <2>6, <2>7, Zenon DEF EntryType
  <2>9. EntryOK(n)
    BY <2>4, <2>5, <2>8, Zenon DEF EntryOK
  <2>10. ent'[cur] = n /\ (\A f \in Entry \ {cur} : ent'[f] = ent[f]) /\ ent' \in [Entry -> EntryType]
    BY <2>1, <2>3, <2>8, Zenon DEF MgrInv, MgrCore
  <2>11. ASSUME NEW f \in Entry PROVE EntryOK(ent[f])'
    <3>1. EntryOK(ent'[f])
      BY <2>9, <2>10, Zenon DEF MgrInv, MgrCore
    <3> QED BY <3>1, Zenon DEF EntryOK
  <2>12. \A f \in Entry : ent'[f].c = ent[f].c /\ ent'[f].task = ent[f].task /\ ent'[f].stop # "none"
    BY <2>5, <2>8, <2>10, Zenon DEF MgrInv, MgrCore
  <2> QED BY <1>1, <1>3, <2>10, <2>11, <2>12, Zenon
<1> QED BY <1>2, <1>3, Zenon

\* remove() takes out the runtime; recoveries that go on are of no binding
\* anybody will recover again, unless the removal overtook a configuration.
LEMMA RemovesRuntime == ASSUME MgrInv, NEW o \in Reqst, RemoveRuntime(o) PROVE MgrInv'
<1>1. /\ req[o].pc = "remove" /\ Unlocked /\ RemoveCurrent /\ SetReq(o, DoneReq)
      /\ crossed' = (crossed \/ (cfg.gen # 0 /\ cur # 0))
      /\ UNCHANGED <<cfg, gens, mutex, closing>>
  BY Zenon DEF RemoveRuntime
<1>2. /\ cur' = 0 /\ ent' \in [Entry -> EntryType] /\ \A f \in Entry : EntryOK(ent[f])'
      /\ \A f \in Entry : ent'[f].c = ent[f].c /\ ent'[f].task = ent[f].task /\ ent'[f].stop # "none"
      /\ cur = 0 => restoring' = restoring
  BY <1>1, Removed, Zenon
<1>3. gens \in Nat /\ mutex # o /\ crossed' \in BOOLEAN
  BY <1>1, ManagerAssumption, Zenon DEF MgrInv, MgrCore, Unlocked
<1>4. ReqstOK(o, DoneReq)'
  BY <1>1, <1>3, DoneReqIs DEF ReqstOK
<1>5. /\ req' \in [Reqst -> ReqstType] /\ \A p \in Reqst : ReqstOK(p, req[p])'
      /\ req'[o] = DoneReq /\ \A p \in Reqst \ {o} : req'[p] = req[p]
  BY <1>1, <1>2, <1>4, DoneReqIs, ReqOthers, Zenon
<1>6. \A p \in Reqst : req[p].pc # "install" /\ req'[p].pc # "install"
  BY <1>1, <1>5, DoneReqIs, NobodyInstalls, Zenon
<1>7. Owing("apply") => Owing("apply")'
  BY <1>1, <1>5, Zenon DEF Owing
<1>8. closing = "no" /\ ~crossed' /\ cfg.gen # 0 => Owing("apply")'
  BY <1>1, <1>6, <1>7, Zenon DEF MgrInv, MgrCore, Following
<1>9. Following'
  BY <1>1, <1>2, <1>6, <1>8, Zenon DEF Following, Agrees
<1>10. 0 \in 0 .. MaxEntry
  BY ManagerAssumption
<1>11. MgrCore'
  BY <1>1, <1>2, <1>3, <1>5, <1>9, <1>10, Zenon DEF MgrInv, MgrCore
<1>12. Recoveries' \subseteq Recoveries
  BY <1>2, <1>5, DoneReqIs DEF Recoveries
<1>13. ASSUME NEW a \in Recoveries' PROVE a[3] # 0
  BY <1>12, RecoveryGen, Zenon DEF MgrInv
<1>14. \A g : Dead(g) => Dead(g)'
  BY <1>1, <1>2, <1>6, Zenon DEF Dead
<1>15. ASSUME NEW a \in Recoveries', ~crossed', a[3] \in restoring PROVE a[3] \in restoring' \/ Dead(a[3])'
  <2>1. CASE cur = 0
    BY <1>2, <1>15, <2>1, Zenon
  <2>2. CASE cur # 0
    <3>1. cfg'.gen = 0 /\ a[3] # 0
      BY <1>1, <1>13, <1>15, <2>2, Zenon
    <3> QED BY <1>2, <1>6, <3>1, Zenon DEF Dead
  <2> QED BY <2>1, <2>2, Zenon
<1>16. Claims'
  BY <1>1, <1>3, <1>6, <1>12, <1>14, <1>15, ClaimsShrink, Zenon
<1> QED BY <1>11, <1>16, Zenon DEF MgrInv

\* A request finds nothing to install.
LEMMA AppliesNothing == ASSUME MgrInv, NEW o \in Reqst, ApplyNothing(o) PROVE MgrInv'
<1>1. /\ req[o].pc = "install" /\ SetReq(o, DoneReq) /\ mutex' = "none"
      /\ UNCHANGED <<cfg, gens, closing, crossed>>
  BY Zenon DEF ApplyNothing
<1>2. /\ mutex = o /\ gens \in Nat /\ \A p \in Reqst : req[p].pc = "install" => p = o
  BY <1>1, Zenon DEF MgrInv, MgrCore, ReqstOK
<1>3. ReqstOK(o, DoneReq)'
  BY <1>1, <1>2, DoneReqIs, ManagerAssumption DEF ReqstOK
<1>4. ASSUME \A f \in Entry : ent'[f].c = ent[f].c /\ ent'[f].task = ent[f].task
      PROVE  /\ req' \in [Reqst -> ReqstType] /\ \A p \in Reqst : ReqstOK(p, req[p])'
             /\ req'[o] = DoneReq /\ \A p \in Reqst \ {o} : req'[p] = req[p]
             /\ \A p \in Reqst : req'[p].pc # "install"
             /\ (Owing("apply") => Owing("apply")') /\ (Owing("remove") => Owing("remove")')
             /\ Recoveries' \subseteq Recoveries
  <2>1. /\ req' \in [Reqst -> ReqstType] /\ \A p \in Reqst : ReqstOK(p, req[p])'
        /\ req'[o] = DoneReq /\ \A p \in Reqst \ {o} : req'[p] = req[p]
    BY <1>1, <1>2, <1>3, <1>4, DoneReqIs, ReqOthers, ManagerAssumption, Zenon
  <2>2. \A p \in Reqst : req'[p].pc # "install"
    BY <1>2, <2>1, DoneReqIs, Zenon
  <2>3. (Owing("apply") => Owing("apply")') /\ (Owing("remove") => Owing("remove")')
    BY <1>1, <2>1, Zenon DEF Owing
  <2>4. Recoveries' \subseteq Recoveries
    BY <1>4, <2>1, DoneReqIs, Zenon DEF Recoveries
  <2> QED BY <2>1, <2>2, <2>3, <2>4, Zenon
<1>5. CASE req[o].seen.gen = 0
  <2>1. /\ cur' = 0 /\ ent' \in [Entry -> EntryType] /\ \A f \in Entry : EntryOK(ent[f])'
        /\ \A f \in Entry : ent'[f].c = ent[f].c /\ ent'[f].task = ent[f].task /\ ent'[f].stop # "none"
    BY <1>1, <1>5, Removed, Zenon DEF ApplyNothing
  <2>2. closing = "no" /\ ~crossed /\ req[o].seen # cfg =>
            IF cfg.gen = 0 THEN Owing("remove") ELSE Owing("apply")
    BY <1>1, Zenon DEF MgrInv, MgrCore, Following
  <2>3. Following'
    BY <1>1, <1>4, <1>5, <2>1, <2>2, Zenon DEF Following, Agrees
  <2>4. 0 \in 0 .. MaxEntry /\ "none" \in {"none"} \cup Reqst
    BY ManagerAssumption
  <2>5. MgrCore'
    BY <1>1, <1>2, <1>4, <2>1, <2>3, <2>4, Zenon DEF MgrInv, MgrCore
  <2>6. ~crossed => \A a \in Recoveries' : a[3] # cfg'.gen
    BY <1>1, <1>4, <1>5, <2>1, Zenon DEF MgrInv, Claims
  <2>7. ~crossed => \A a \in Recoveries' : Dead(a[3])'
    BY <1>4, <2>1, <2>6, Zenon DEF Dead
  <2>8. Claims'
    BY <1>1, <1>4, <2>1, <2>7, ClaimsShrink, Zenon DEF MgrInv, MgrCore
  <2> QED BY <2>5, <2>8, Zenon DEF MgrInv
<1>6. CASE req[o].seen.gen # 0
  <2>1. cur' = cur /\ ent' = ent /\ restoring' = restoring /\ closing # "no"
    BY <1>6, Zenon DEF ApplyNothing, RecoveryKept
  <2>2. ASSUME NEW f \in Entry PROVE EntryOK(ent[f])'
    <3>1. EntryOK(ent[f])
      BY Zenon DEF MgrInv, MgrCore
    <3> QED BY <1>1, <2>1, <3>1, Zenon DEF EntryOK
  <2>3. Following'
    BY <1>1, <2>1, Zenon DEF Following
  <2>4. MgrCore'
    BY <1>1, <1>4, <2>1, <2>2, <2>3, Zenon DEF MgrInv, MgrCore
  <2>5. \A g : Dead(g) => Dead(g)'
    BY <1>1, <1>4, <2>1, Zenon DEF Dead
  <2>6. Claims'
    BY <1>1, <1>4, <2>1, <2>5, ClaimsShrink, Zenon DEF MgrInv, MgrCore
  <2> QED BY <2>4, <2>6, Zenon DEF MgrInv
<1> QED BY <1>5, <1>6, Zenon

\* The manager begins to shut down, and shuts down.
LEMMA ShutsDown == ASSUME MgrInv, BeginShutdown \/ Shutdown PROVE MgrInv'
<1>1. UNCHANGED <<cfg, gens, req, mutex, crossed>> /\ Unlocked
  BY Zenon DEF BeginShutdown, Shutdown, ReqKept
<1>2. \A p \in Reqst : req'[p].pc # "install"
  BY <1>1, NobodyInstalls, Zenon
<1>3. ASSUME \A f \in Entry : ent'[f].c = ent[f].c /\ ent'[f].task = ent[f].task
      PROVE  Recoveries' \subseteq Recoveries /\ \A p \in Reqst : ReqstOK(p, req[p])'
  <2>1. Recoveries' \subseteq Recoveries
    BY <1>1, <1>3, Zenon DEF Recoveries
  <2>2. ASSUME NEW p \in Reqst PROVE ReqstOK(p, req[p])'
    <3>1. ReqstOK(p, req[p])
      BY Zenon DEF MgrInv, MgrCore
    <3> QED BY <1>1, <1>3, <3>1, Zenon DEF ReqstOK
  <2> QED BY <2>1, <2>2, Zenon
<1>4. CASE Shutdown
  <2>1. closing' = "shut" /\ RemoveCurrent
    BY <1>4, Zenon DEF Shutdown
  <2>2. /\ cur' = 0 /\ ent' \in [Entry -> EntryType] /\ \A f \in Entry : EntryOK(ent[f])'
        /\ \A f \in Entry : ent'[f].c = ent[f].c /\ ent'[f].task = ent[f].task /\ ent'[f].stop # "none"
    BY <1>1, <2>1, Removed, Zenon
  <2>3. 0 \in 0 .. MaxEntry /\ Following'
    BY <2>1, ManagerAssumption DEF Following
  <2>4. MgrCore'
    BY <1>1, <1>3, <2>1, <2>2, <2>3, Zenon DEF MgrInv, MgrCore
  <2>5. \A g : Dead(g)'
    BY <2>1, Zenon DEF Dead
  <2>6. Claims'
    BY <1>1, <1>2, <1>3, <2>2, <2>5, ClaimsShrink, Zenon DEF MgrInv, MgrCore
  <2> QED BY <2>4, <2>6, Zenon DEF MgrInv
<1>5. CASE BeginShutdown
  <2>1. /\ closing' = "begun" /\ cur' = cur /\ restoring' = restoring /\ closing = "no"
        /\ ent' = IF cur = 0 THEN ent ELSE [ent EXCEPT ![cur].reconnect = FALSE]
    BY <1>5, Zenon DEF BeginShutdown, RecoveryKept
  <2>2. PICK n : n = [ent[cur] EXCEPT !.reconnect = FALSE]
    BY Zenon
  <2>3. ent' = ent \/ (cur \in Entry /\ ent' = [ent EXCEPT ![cur] = n])
    BY <2>1, <2>2, ManagerAssumption, Zenon DEF Entry, MgrInv, MgrCore
  <2>4. cur \in Entry => /\ EntryOK(n) /\ n \in EntryType /\ n.c = ent[cur].c /\ n.task = ent[cur].task
                         /\ n.stop = ent[cur].stop
    <3> SUFFICES ASSUME cur \in Entry
                 PROVE  /\ EntryOK(n) /\ n \in EntryType /\ n.c = ent[cur].c /\ n.task = ent[cur].task
                        /\ n.stop = ent[cur].stop
      BY Zenon
    <3>1. EntryOK(ent[cur]) /\ ent[cur] \in EntryType
      BY Zenon DEF MgrInv, MgrCore
    <3>2. /\ n \in EntryType /\ n.c = ent[cur].c /\ n.task = ent[cur].task /\ n.conn = ent[cur].conn
          /\ n.stop = ent[cur].stop /\ n.adapter = ent[cur].adapter /\ n.online = ent[cur].online
      BY <2>2, <3>1, Zenon DEF EntryType
    <3> QED BY <3>1, <3>2, Zenon DEF EntryOK
  <2>5. ent' \in [Entry -> EntryType]
    BY <2>3, <2>4, Zenon DEF MgrInv, MgrCore
  <2>6. ASSUME NEW f \in Entry
        PROVE  /\ EntryOK(ent'[f]) /\ ent'[f].c = ent[f].c /\ ent'[f].task = ent[f].task
               /\ ent'[f].stop = ent[f].stop
    BY <2>3, <2>4, Zenon DEF MgrInv, MgrCore
  <2>7. \A f \in Entry : EntryOK(ent[f])'
    BY <1>1, <2>6, Zenon DEF EntryOK
  <2>8. Following'
    BY <2>1, Zenon DEF Following
  <2>9. MgrCore'
    BY <1>1, <1>3, <2>1, <2>5, <2>6, <2>7, <2>8, Zenon DEF MgrInv, MgrCore
  <2>10. cur # 0 => cur \in Entry
    BY ManagerAssumption DEF Entry, MgrInv, MgrCore
  <2>11. \A g : Dead(g) => Dead(g)'
    BY <1>1, <1>2, <2>1, <2>6, <2>10, Zenon DEF Dead
  <2>12. Claims'
    BY <1>1, <1>2, <1>3, <2>1, <2>6, <2>11, ClaimsShrink, Zenon DEF MgrInv, MgrCore
  <2> QED BY <2>9, <2>12, Zenon DEF MgrInv
<1> QED BY <1>4, <1>5, Zenon

\* What startup leaves: the stored configuration and its one entry.
LEMMA ManagerStart == ASSUME ManagerInit PROVE MgrInv
<1>1. /\ cfg = [bot |-> 1, cred |-> 1, gen |-> 1, rev |-> 1, paired |-> TRUE] /\ gens = 1 /\ cur = 1
      /\ ent = [e \in Entry |-> IF e = 1 THEN MakeEntry(cfg) ELSE NoEntry]
      /\ req = [o \in Reqst |-> NoReqst] /\ mutex = "none" /\ closing = "no" /\ crossed = FALSE
  BY Zenon DEF ManagerInit
<1>2. cfg \in CfgType /\ cfg.gen = 1 /\ cfg.gen <= gens /\ cfg.gen # 0
  BY <1>1 DEF CfgType
<1>3. 1 \in Entry /\ 1 \in 0 .. MaxEntry
  BY ManagerAssumption DEF Entry
<1>4. EntryOK(MakeEntry(cfg)) /\ MakeEntry(cfg).c = cfg /\ MakeEntry(cfg).task = "start" /\ MakeEntry(cfg).reconnect
  BY <1>2, MakeEntryIs, Zenon
<1>5. EntryOK(NoEntry)
  BY <1>1, NoEntryIs DEF EntryOK
<1>6. ASSUME NEW e \in Entry
      PROVE  EntryOK(ent[e]) /\ (e # 1 => ent[e].stop # "none") /\ ent[e].task # "recovering"
  <2>1. ent[e] = IF e = 1 THEN MakeEntry(cfg) ELSE NoEntry
    BY <1>1, Zenon
  <2> QED BY <1>4, <1>5, <2>1, NoEntryIs, Zenon
<1>7. ent \in [Entry -> EntryType]
  <2>1. \A e \in Entry : ent[e] \in EntryType
    BY <1>6, Zenon DEF EntryOK
  <2> QED BY <1>1, <2>1, Zenon
<1>8. ent[1].c = cfg /\ ent[1].reconnect
  BY <1>1, <1>3, <1>4, Zenon
<1>9. NoReqst \in ReqstType /\ NoReqst.pc = "idle" /\ NoReqst.seen.gen = 0
  BY ManagerAssumption DEF NoReqst, ReqstType, NoCfg, CfgType
<1>10. ASSUME NEW o \in Reqst PROVE ReqstOK(o, req[o]) /\ req[o].pc = "idle"
  <2>1. req[o] = NoReqst /\ mutex # o
    BY <1>1, ManagerAssumption, Zenon
  <2> QED BY <1>1, <1>9, <2>1 DEF ReqstOK
<1>11. req \in [Reqst -> ReqstType]
  BY <1>1, <1>9, Zenon
<1>12. Following
  BY <1>1, <1>2, <1>8, <1>10, Zenon DEF Following, Agrees
<1>13. MgrCore
  BY <1>1, <1>2, <1>3, <1>6, <1>7, <1>8, <1>10, <1>11, <1>12, Zenon DEF MgrCore
<1>14. Recoveries = {}
  BY <1>6, <1>10, Zenon DEF Recoveries
<1>15. Claims
  BY <1>14, Zenon DEF Claims
<1> QED BY <1>13, <1>15, Zenon DEF MgrInv

\* Every step of the manager and of the requests keeps all of it.
LEMMA ManagerStep == ASSUME MgrInv, [ManagerNext]_mgrvars PROVE MgrInv'
<1>1. CASE UNCHANGED mgrvars
  <2>1. UNCHANGED <<cfg, gens, ent, cur, restoring, mutex, req, closing, crossed>>
    BY <1>1, Zenon DEF mgrvars
  <2>2. MgrCore'
    <3>1. Following'
      BY <2>1, Zenon DEF MgrInv, MgrCore, Following, Owing, Agrees
    <3>2. \A e \in Entry : EntryOK(ent[e])'
      BY <2>1, Zenon DEF MgrInv, MgrCore, EntryOK
    <3>3. \A o \in Reqst : ReqstOK(o, req[o])'
      BY <2>1, Zenon DEF MgrInv, MgrCore, ReqstOK
    <3> QED BY <2>1, <3>1, <3>2, <3>3, Zenon DEF MgrInv, MgrCore
  <2>3. Recoveries' = Recoveries /\ \A g : Dead(g) => Dead(g)'
    BY <2>1, Zenon DEF Recoveries, Dead
  <2>4. Claims'
    BY <2>1, <2>3, Zenon DEF MgrInv, Claims
  <2> QED BY <2>2, <2>4, Zenon DEF MgrInv
<1>2. ASSUME NEW e \in Entry,
             \/ EntrySteps(e) \/ RunRecoveryFails(e)
             \/ ent[e].stop = "none" /\ (StartFails(e) \/ Closes(e))
      PROVE  MgrInv'
  BY <1>2, TaskSteps, TaskTurns, TaskRecovers, EntryReconnects, Zenon DEF EntrySteps
<1>3. ASSUME NEW o \in Reqst, RequestSteps(o) PROVE MgrInv'
  <2>1. CASE PersistPatch(o)
    BY <2>1, QuietRequests, WritingRequests, Zenon
  <2>2. CASE FinalizePairing(o)
    BY <2>2, QuietRequests, WritingRequests, Zenon
  <2>3. CASE DeleteConfig(o) \/ AwaitInitialized(o)
    BY <2>3, QuietRequests, WritingRequests, Zenon
  <2> QED BY <1>3, <2>1, <2>2, <2>3, RemovesRuntime, ReqLoads, AppliesSame, AppliesNew,
        AppliesNothing,
             ReqRecovers, ReqRecovered, Zenon DEF RequestSteps
<1>4. ASSUME NEW o \in Reqst,
             \/ CredentialsRefused(o) \/ RequestRecoveryFails(o)
             \/ \E kind \in Kinds[o] : Request(o, kind)
      PROVE  MgrInv'
  BY <1>4, QuietRequests, ReqRecoveryFails, Zenon
<1>5. CASE BeginShutdown \/ Shutdown
  BY <1>5, ShutsDown, Zenon
<1> QED BY <1>1, <1>2, <1>3, <1>4, <1>5, Zenon DEF ManagerNext

\* The three parts of the property follow from the invariant.
LEMMA ConnectionFollows == ASSUME MgrInv PROVE ConnectionFollowsConfig
<1>1. cur # 0 => cur \in Entry
  BY ManagerAssumption DEF Entry, MgrInv, MgrCore
<1>2. RuntimeFollowsConfig
  <2> SUFFICES ASSUME Idle, closing = "no", ~crossed
               PROVE  IF cfg.gen = 0 THEN cur = 0
                      ELSE cur # 0 /\ ent[cur].c = cfg /\ ent[cur].conn = <<cfg.bot, cfg.cred>>
    BY Zenon DEF RuntimeFollowsConfig
  <2>1. ~Owing("apply") /\ ~Owing("remove") /\ ~Owing("install")
    BY Zenon DEF Owing, Idle
  <2>2. Agrees
    BY <2>1, Zenon DEF MgrInv, MgrCore, Following
  <2>3. cur # 0 => ent[cur].conn = <<ent[cur].c.bot, ent[cur].c.cred>>
    BY <1>1, Zenon DEF MgrInv, MgrCore, EntryOK
  <2> QED BY <2>2, <2>3, Zenon DEF Agrees
<1>3. NoAdapterLeaks
  <2> SUFFICES ASSUME Idle, NEW e \in Entry, ent[e].adapter \in {"up", "down"}, e # cur
               PROVE  ent[e].stop = "hung"
    BY Zenon DEF NoAdapterLeaks
  <2>1. EntryOK(ent[e]) /\ ent[e].stop # "none" /\ ent[e].stop # "asked"
    BY Zenon DEF MgrInv, MgrCore, Idle
  <2> QED BY <2>1, Zenon DEF EntryOK, EntryType
<1>4. RecoversOneAtATime
  BY Zenon DEF RecoversOneAtATime, MgrInv, Claims
<1> QED BY <1>2, <1>3, <1>4, Zenon DEF ConnectionFollowsConfig

\* The connections on their own: every step but no fairness.
ManagerSpec == ManagerInit /\ [][ManagerNext]_mgrvars

\* For any number of requests and entries, whatever fails: when nothing is
\* going on the connection is the one the stored configuration asks for, no
\* adapter of a replaced one stays open, and no two recoveries of one binding
\* run at the same time.
THEOREM ConnectionIsConfigured == ManagerSpec => []ConnectionFollowsConfig
<1>1. ManagerInit => MgrInv
  BY ManagerStart, Zenon
<1>2. MgrInv /\ [ManagerNext]_mgrvars => MgrInv'
  BY ManagerStep, Zenon
<1>3. MgrInv => ConnectionFollowsConfig
  BY ConnectionFollows, Zenon
<1> QED BY <1>1, <1>2, <1>3, PTL DEF ManagerSpec
==============================================================================
