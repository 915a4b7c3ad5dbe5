--------------------------- MODULE DeliveryProofs ---------------------------
(***************************************************************************)
(* Deliveries to the platforms, for every set of calls and keys, any plan  *)
(* of actions, any number of faults and of restarts.                       *)
(*                                                                         *)
(* The invariant DlvInv says of every row that its statuses are honest and *)
(* its actions are taken in order, of every call how far it is with the    *)
(* row it works on, and that no two calls work on one key at a time.       *)
(***************************************************************************)
EXTENDS ChannelDelivery, WellFoundedInduction, TLAPS

ActStatus == {"prepared", "attempting", "sent", "failed", "unknown", "skipped"}
RowType ==
    [status : {"none"} \cup Open \cup TerminalRows, kinds : Seq({"text", "file", "upload"}),
     acts : Seq(ActStatus), gen : Nat]
CallPcs == {"idle", "resolve", "refs", "lock", "done"} \cup Busy
CallType ==
    [pc : CallPcs, gen : Nat, media : Nat, adapter : Nat, at : Nat \ {0}, issued : BOOLEAN,
     told : BOOLEAN, result : {"none", "sent", "failed", "unknown"},
     res : {"none", "error", "raised", "cancelled", "lost"} \cup Open \cup TerminalRows]

\* What the platform has or may still take of a delivery.
Out(k, i) == <<k, i>> \in shown \cup flight

\* The statuses of a delivery's actions say no more than is known.
Honest(k, a) ==
    /\ Len(a) <= MaxActions
    /\ \A i \in 1 .. MaxActions :
         issues[k][i] # 0 => i <= Len(a) /\ a[i] \notin {"prepared", "skipped"}
    /\ \A i \in 1 .. Len(a) :
         (a[i] = "sent" => <<k, i>> \in shown) /\ (a[i] = "failed" => ~Out(k, i))

\* Actions are taken in order, each after the one before it was sent.
Orderly(a) == \A i, j \in 1 .. Len(a) : i < j /\ a[i] # "sent" => a[j] = "prepared"

WireOK ==
    /\ issues \in [Keys -> [1 .. MaxActions -> Nat]]
    /\ \A k \in Keys, i \in 1 .. MaxActions : issues[k][i] <= 1 /\ (issues[k][i] = 0 => ~Out(k, i))

RowOK(k, r) ==
    /\ r \in RowType
    /\ Honest(k, r.acts)
    /\ r.status = "none" => r.acts = <<>>
    /\ r.status \in Open => Orderly(r.acts)
    /\ r.status \in TerminalRows \ {"sent"} => r.gen \in failed

\* A set of numbers that is not empty has a least one.
LEMMA LeastOf == ASSUME NEW I \in SUBSET Nat, I # {} PROVE \E n \in I : \A m \in I : n <= m
<1> DEFINE R == {ss \in Nat \X Nat : ss[1] < ss[2]}
<1>1. IsWellFoundedOn(R, Nat)
  BY NatLessThanWellFounded, Zenon DEF OpToRel
<1>2. \E x \in I : \A y \in I : ~(<<y, x>> \in R)
  BY <1>1, WFMin, Zenon
<1>3. PICK x \in I : \A y \in I : ~(<<y, x>> \in R)
  BY <1>2, Zenon
<1>4. \A y \in I : ~(y < x)
  BY <1>3, Zenon
<1> QED BY <1>4

\* The first index with one of the statuses, or 0.
LEMMA FirstOfIs ==
  ASSUME NEW a \in Seq(ActStatus), NEW S
  PROVE  /\ FirstOf(a, S) \in 0 .. Len(a)
         /\ FirstOf(a, S) # 0 => a[FirstOf(a, S)] \in S
         /\ FirstOf(a, S) = 0 => \A i \in 1 .. Len(a) : a[i] \notin S
         /\ \A i \in 1 .. Len(a) : a[i] \in S => FirstOf(a, S) <= i
<1> DEFINE I == {i \in 1 .. Len(a) : a[i] \in S}
<1>1. FirstOf(a, S) = IF I = {} THEN 0 ELSE Min(I)
  BY Zenon DEF FirstOf
<1>2. CASE I = {}
  BY <1>1, <1>2
<1>3. CASE I # {}
  <2>1. I \in SUBSET Nat
    OBVIOUS
  <2>2. \E n \in I : \A m \in I : n <= m
    BY <1>3, <2>1, LeastOf, Zenon
  <2>3. Min(I) \in I /\ \A m \in I : Min(I) <= m
    BY <2>2, Zenon DEF Min
  <2> QED BY <1>1, <1>3, <2>3
<1> QED BY <1>2, <1>3, Zenon

\* What _skip_after leaves: the open actions after i are skipped.
LEMMA SkipAfterIs ==
  ASSUME NEW a \in Seq(ActStatus), NEW i \in 1 .. Len(a)
  PROVE  /\ SkipAfter(a, i) \in Seq(ActStatus) /\ Len(SkipAfter(a, i)) = Len(a)
         /\ \A j \in 1 .. Len(a) :
              SkipAfter(a, i)[j] = IF j > i /\ a[j] \in Open THEN "skipped" ELSE a[j]
  BY DEF SkipAfter, ActStatus, Open

\* The aggregate is terminal, and says nothing new of an action.
LEMMA FinishedIs ==
  ASSUME NEW r \in RowType, NEW a \in Seq(ActStatus)
  PROVE  /\ Finished(r, a) \in RowType /\ Finished(r, a).acts = a /\ Finished(r, a).gen = r.gen
         /\ Finished(r, a).status \in TerminalRows
<1> DEFINE end == FirstOf(a, {"failed", "unknown"})
<1>1. end = 0 \/ a[end] \in {"failed", "unknown"}
  BY FirstOfIs, Zenon
<1> DEFINE g == Aggregate(r, a)
<1>2. g \in {"sent", "partial"} \/ (end # 0 /\ g = a[end])
  BY Zenon DEF Aggregate
<1>3. g \in TerminalRows
  BY <1>1, <1>2, Zenon DEF TerminalRows
<1> HIDE DEF g
<1>4. Finished(r, a) = [r EXCEPT !.acts = a, !.status = g]
  BY Zenon DEF Finished, g
<1> QED BY <1>3, <1>4, Zenon DEF RowType

\* q is what an open row r ends as.
RowEnds(k, r, q) == q \in RowType /\ Honest(k, q.acts) /\ q.status \in TerminalRows /\ q.gen = r.gen

\* An action that is not out was never issued.
LEMMA Unissued ==
  ASSUME WireOK, NEW k \in Keys, NEW a, Honest(k, a), NEW i \in 1 .. Len(a), a[i] \in {"prepared", "skipped"}, Len(a) \in Nat
  PROVE  ~Out(k, i) /\ issues[k][i] = 0
<1>1. i \in 1 .. MaxActions
  BY DeliveryAssumption DEF Honest
<1> QED BY <1>1, Zenon DEF Honest, WireOK

\* Skipping what was not attempted keeps the statuses honest.
LEMMA SkippedHonest ==
  ASSUME WireOK, NEW k \in Keys, NEW a \in Seq(ActStatus), Honest(k, a), NEW i \in 1 .. Len(a),
         \A j \in 1 .. Len(a) : j > i => a[j] # "attempting"
  PROVE  Honest(k, SkipAfter(a, i))
<1> DEFINE b == SkipAfter(a, i)
<1>1. /\ b \in Seq(ActStatus) /\ Len(b) = Len(a)
      /\ \A j \in 1 .. Len(a) : b[j] = IF j > i /\ a[j] \in Open THEN "skipped" ELSE a[j]
  BY SkipAfterIs, Zenon
<1> HIDE DEF b
<1>2. Len(b) <= MaxActions
  BY <1>1, Zenon DEF Honest
<1>3. ASSUME NEW j \in 1 .. MaxActions, issues[k][j] # 0
      PROVE  j <= Len(b) /\ b[j] \notin {"prepared", "skipped"}
  <2>1. j <= Len(a) /\ a[j] \notin {"prepared", "skipped"}
    BY <1>3, Zenon DEF Honest
  <2>2. j \in 1 .. Len(a)
    BY <2>1
  <2> QED BY <1>1, <2>1, <2>2, Zenon DEF Open
<1>4. ASSUME NEW j \in 1 .. Len(b)
      PROVE  (b[j] = "sent" => <<k, j>> \in shown) /\ (b[j] = "failed" => ~Out(k, j))
  BY <1>1, <1>4, Zenon DEF Honest
<1> QED BY <1>2, <1>3, <1>4, Zenon DEF Honest, b

\* A delivery that ends at action i, failed or unknown, has an honest row.
LEMMA EndedHonest ==
  ASSUME WireOK, NEW k \in Keys, NEW r \in RowType, Honest(k, r.acts), Orderly(r.acts),
         NEW i \in 1 .. Len(r.acts), r.acts[i] \in Open, NEW st \in {"failed", "unknown"},
         st = "failed" => ~Out(k, i)
  PROVE  RowEnds(k, r, EndedAt(r, i, st))
<1> DEFINE a == r.acts
           b == [a EXCEPT ![i] = st]
<1>1. a \in Seq(ActStatus)
  BY Zenon DEF RowType
<1>2. /\ b \in Seq(ActStatus) /\ Len(b) = Len(a) /\ b[i] = st
      /\ \A j \in 1 .. Len(a) : j # i => b[j] = a[j]
  BY <1>1 DEF ActStatus
<1>3. Honest(k, a) /\ Orderly(a) /\ a[i] \in Open
  BY Zenon
<1>4. EndedAt(r, i, st) = Finished(r, SkipAfter(b, i))
  BY Zenon DEF EndedAt
<1> HIDE DEF a, b
<1>5. Honest(k, b)
  <2>1. Len(b) <= MaxActions
    BY <1>2, <1>3, Zenon DEF Honest
  <2>2. ASSUME NEW j \in 1 .. MaxActions, issues[k][j] # 0
        PROVE  j <= Len(b) /\ b[j] \notin {"prepared", "skipped"}
    <3>1. j <= Len(a) /\ a[j] \notin {"prepared", "skipped"}
      BY <1>3, <2>2, Zenon DEF Honest
    <3>2. j \in 1 .. Len(a)
      BY <1>1, <3>1
    <3> QED BY <1>2, <3>1, <3>2, Zenon
  <2>3. ASSUME NEW j \in 1 .. Len(b)
        PROVE  (b[j] = "sent" => <<k, j>> \in shown) /\ (b[j] = "failed" => ~Out(k, j))
    BY <1>2, <1>3, <2>3, Zenon DEF Honest
  <2> QED BY <2>1, <2>2, <2>3, Zenon DEF Honest
<1>6. \A j \in 1 .. Len(b) : j > i => b[j] # "attempting"
  <2>1. i \in 1 .. Len(a)
    BY Zenon DEF a
  <2> QED BY <1>1, <1>2, <1>3, <2>1, Zenon DEF Orderly, Open
<1>7. i \in 1 .. Len(b)
  BY <1>2, Zenon DEF a
<1>8. Honest(k, SkipAfter(b, i)) /\ SkipAfter(b, i) \in Seq(ActStatus)
  BY <1>2, <1>5, <1>6, <1>7, SkippedHonest, SkipAfterIs, Zenon
<1> QED BY <1>4, <1>8, FinishedIs DEF RowEnds

\* So has one whose actions are all decided.
LEMMA FinalizedHonest ==
  ASSUME WireOK, NEW k \in Keys, NEW r \in RowType, Honest(k, r.acts), Orderly(r.acts)
  PROVE  RowEnds(k, r, Finalized(r))
<1> DEFINE a == r.acts
           end == FirstOf(a, {"failed", "unknown"})
           b == IF end = 0 THEN a ELSE SkipAfter(a, end)
<1>1. a \in Seq(ActStatus) /\ Honest(k, a) /\ Orderly(a)
  BY Zenon DEF RowType
<1>2. Finalized(r) = Finished(r, b)
  BY Zenon DEF Finalized
<1>3. end \in 0 .. Len(a) /\ (end # 0 => a[end] \in {"failed", "unknown"})
  BY <1>1, FirstOfIs, Zenon
<1> HIDE DEF a, end
<1>4. b \in Seq(ActStatus) /\ Honest(k, b)
  <2>1. CASE end = 0
    BY <1>1, <2>1, Zenon
  <2>2. CASE end # 0
    <3>1. end \in 1 .. Len(a) /\ a[end] # "sent"
      BY <1>1, <1>3, <2>2
    <3>2. \A j \in 1 .. Len(a) : j > end => a[j] # "attempting"
      BY <1>1, <3>1, Zenon DEF Orderly
    <3> QED BY <1>1, <2>2, <3>1, <3>2, SkippedHonest, SkipAfterIs, Zenon
  <2> QED BY <2>1, <2>2, Zenon
<1> QED BY <1>2, <1>4, FinishedIs DEF RowEnds

\* So has one that failed before any action was planned.
LEMMA BareHonest ==
  ASSUME NEW k \in Keys, NEW r \in RowType, Honest(k, r.acts)
  PROVE  RowEnds(k, r, FailedBare(r))
  BY Zenon DEF FailedBare, RowEnds, RowType, TerminalRows, Open

\* What an interrupted delivery is repaired to, at the next start or by the
\* next caller with its key.
LEMMA RepairedHonest ==
  ASSUME WireOK, NEW k \in Keys, NEW r \in RowType, Honest(k, r.acts), Orderly(r.acts)
  PROVE  RowEnds(k, r, Repaired(r))
<1> DEFINE open == FirstOf(r.acts, Open)
           st == IF r.acts[open] = "attempting" THEN "unknown" ELSE "failed"
<1>1. r.acts \in Seq(ActStatus)
  BY Zenon DEF RowType
<1>2. open \in 0 .. Len(r.acts) /\ (open # 0 => r.acts[open] \in Open)
  BY <1>1, FirstOfIs, Zenon
<1>3. \/ Repaired(r) = FailedBare(r) \/ Repaired(r) = Finalized(r)
      \/ open # 0 /\ Repaired(r) = EndedAt(r, open, st)
  BY Zenon DEF Repaired
<1>4. CASE open # 0 /\ Repaired(r) = EndedAt(r, open, st)
  <2>1. open \in 1 .. Len(r.acts) /\ r.acts[open] \in Open
    BY <1>1, <1>2, <1>4
  <2>2. st = "failed" => ~Out(k, open)
    BY <1>1, <2>1, Unissued DEF Open
  <2>3. st \in {"failed", "unknown"}
    BY Zenon
  <2> HIDE DEF st, open
  <2> QED BY <1>4, <2>1, <2>2, <2>3, EndedHonest, Zenon
<1> QED BY <1>3, <1>4, BareHonest, FinalizedHonest, Zenon

\* What a cancelled or timed out delivery is settled as, where only action i
\* may have gone out unrecorded, and then is known to have been issued.
LEMMA CancelledHonest ==
  ASSUME WireOK, NEW k \in Keys, NEW r \in RowType, Honest(k, r.acts), Orderly(r.acts),
         r.status \in Open, NEW i \in Nat, NEW issued \in BOOLEAN,
         r.acts # <<>> => i \in 1 .. Len(r.acts),
         \A j \in 1 .. Len(r.acts) : r.acts[j] = "attempting" /\ Out(k, j) => j = i /\ issued
  PROVE  RowEnds(k, r, CancelledRow(r, i, issued))
<1> DEFINE a == r.acts
           later == {j \in DOMAIN a : j > i /\ a[j] \in Open}
           cand == IF a[i] # "sent" \/ later = {} THEN i ELSE CHOOSE j \in later : \A m \in later : j <= m
           st == IF cand = i /\ issued THEN "unknown" ELSE "failed"
<1>1. a \in Seq(ActStatus) /\ Honest(k, a) /\ Orderly(a)
  BY Zenon DEF RowType
<1>2. \/ CancelledRow(r, i, issued) = FailedBare(r) \/ CancelledRow(r, i, issued) = Finalized(r)
      \/ /\ a # <<>> /\ a[cand] \in Open /\ CancelledRow(r, i, issued) = EndedAt(r, cand, st)
  BY Zenon DEF CancelledRow, Open, TerminalRows
<1>3. CASE a # <<>> /\ a[cand] \in Open /\ CancelledRow(r, i, issued) = EndedAt(r, cand, st)
  <2>1. i \in 1 .. Len(a)
    BY <1>3, Zenon
  <2>2. cand \in 1 .. Len(a)
    <3>1. later \in SUBSET Nat /\ later \subseteq 1 .. Len(a)
      BY <1>1
    <3>2. CASE a[i] # "sent" \/ later = {}
      BY <2>1, <3>2, Zenon
    <3>3. CASE ~(a[i] # "sent" \/ later = {})
      <4>1. \E n \in later : \A m \in later : n <= m
        BY <3>1, <3>3, LeastOf, Zenon
      <4>2. cand = CHOOSE j \in later : \A m \in later : j <= m
        BY <3>3, Zenon
      <4> HIDE DEF later, cand
      <4>3. cand \in later
        BY <4>1, <4>2, Zenon
      <4> QED BY <3>1, <4>3, Zenon
    <3> QED BY <3>2, <3>3, Zenon
  <2>3. st \in {"failed", "unknown"} /\ (st = "failed" => ~(cand = i /\ issued))
    BY Zenon
  <2>4. a[cand] \in Open /\ CancelledRow(r, i, issued) = EndedAt(r, cand, st)
    BY <1>3, Zenon
  <2> HIDE DEF cand, st
  <2>5. st = "failed" => ~Out(k, cand)
    BY <1>1, <2>2, <2>3, <2>4, Unissued DEF Open
  <2> QED BY <2>2, <2>3, <2>4, <2>5, EndedHonest, Zenon
<1> QED BY <1>2, <1>3, BareHonest, FinalizedHonest, Zenon

Acting == {"next", "ready", "fence", "attempt", "lookup", "sent", "record", "final"}
Ready == {"ready", "fence", "attempt", "lookup"}

\* Where a call x of deliver() is, and what its row r says at that point.
Progress(x, r, k) ==
    /\ x.pc \in {"plan", "install"} => r.acts = <<>>
    /\ x.pc = "install" => ValidPlan(PlanDelivery(x.media))
    /\ x.pc \in Acting => \A j \in 1 .. Len(r.acts) : j < x.at => r.acts[j] = "sent"
    /\ x.pc \in {"ready", "fence", "attempt", "lookup", "sent", "record"} => x.at <= Len(r.acts)
    /\ x.pc \in {"next", "ready", "fence", "attempt"} /\ x.at <= Len(r.acts) => r.acts[x.at] = "prepared"
    /\ x.pc \in {"lookup", "sent", "record"} => r.acts[x.at] = "attempting"
    /\ x.pc = "final" /\ x.at <= Len(r.acts) => r.acts[x.at] \in {"failed", "unknown"}
    /\ x.pc \in Acting => x.at <= Len(r.acts) + 1
CallOn(x, r, k) ==
    /\ x \in CallType
    /\ x.issued <=> x.pc \in {"sent", "record"}
    /\ x.pc # "done" => x.res = "none"
    /\ x.pc = "prepare" => r.status = "none"
    /\ x.pc \in Busy \ {"prepare"} => r.status \in Open /\ r.gen = x.gen
    /\ Progress(x, r, k)
    /\ x.pc = "lookup" => issues[k][x.at] = 0
    /\ x.pc = "record" => /\ x.result # "none"
                          /\ x.result = "sent" => <<k, x.at>> \in shown
                          /\ x.result = "failed" => ~Out(k, x.at)
    /\ x.pc \in Ready => x.gen \notin failed
    /\ x.pc \in {"install"} \cup Acting => x.adapter \in 1 .. runtime.id
    /\ x.pc \in {"attempt", "lookup"} /\ x.adapter = runtime.id => runtime.gen = x.gen

CallsOK ==
    /\ call \in [Call -> CallType]
    /\ \A c \in Call : CallOn(call[c], row[Key(c)], Key(c))
    /\ \A c, d \in Call : c # d /\ Key(c) = Key(d) /\ call[c].pc \in Busy => call[d].pc \notin Busy
    /\ \A c \in Call : call[c].pc # "idle" => \A b \in Before[c] : call[b].pc = "done"
    /\ ~chanUp => \A c \in Call : call[c].pc \in {"idle", "done"}
DlvInv ==
    /\ runtime \in [id : Nat \ {0}, gen : Nat, rev : Nat, online : BOOLEAN]
    /\ config \in [gen : Nat, rev : Nat, paired : BOOLEAN]
    /\ chanUp \in BOOLEAN /\ text \in Texts
    /\ WireOK
    /\ row \in [Keys -> RowType] /\ \A k \in Keys : RowOK(k, row[k])
    /\ CallsOK
    /\ IssueReported /\ RowsClosed

\* The key of a call is one of the keys.
LEMMA KeyIn == ASSUME NEW c \in Call PROVE Key(c) \in Keys
  BY DeliveryAssumption, Zenon DEF Key, Keys, Range

\* What _cancel_delivery makes of the row of a call that is executing.
LEMMA SettleHonest ==
  ASSUME DlvInv, NEW c \in Call, call[c].pc \in Busy \ {"prepare"}
  PROVE  RowEnds(Key(c), Row(c), Settle(c))
<1> DEFINE k == Key(c)
           r == Row(c)
           x == call[c]
           i == IF r.acts = <<>> THEN 1 ELSE Min({x.at, Len(r.acts)})
<1>1. k \in Keys /\ r \in RowType /\ RowOK(k, r) /\ CallOn(x, r, k) /\ WireOK
  BY KeyIn, Zenon DEF DlvInv, CallsOK, Row
<1>2. Settle(c) = CancelledRow(r, i, x.issued) /\ x.pc \in Busy \ {"prepare"}
  BY Zenon DEF Settle
<1> HIDE DEF k, r, x
<1>3. /\ r.status \in Open /\ Honest(k, r.acts) /\ Orderly(r.acts) /\ r.acts \in Seq(ActStatus)
      /\ x.at \in Nat \ {0} /\ x.issued \in BOOLEAN /\ Progress(x, r, k)
      /\ (x.issued <=> x.pc \in {"sent", "record"})
  BY <1>1, <1>2, Zenon DEF RowOK, CallOn, RowType, CallType
<1>4. i \in Nat /\ (r.acts # <<>> => i \in 1 .. Len(r.acts) /\ i <= x.at /\ (x.at <= Len(r.acts) => i = x.at))
  <2>1. CASE r.acts = <<>>
    BY <2>1, Zenon
  <2>2. CASE r.acts # <<>>
    <3> DEFINE S == {x.at, Len(r.acts)}
    <3>1. Len(r.acts) \in Nat /\ Len(r.acts) # 0
      BY <1>3, <2>2
    <3>2. S \in SUBSET Nat /\ S # {}
      BY <1>3, <3>1, Zenon
    <3>3. \E n \in S : \A m \in S : n <= m
      BY <3>2, LeastOf, Zenon
    <3>4. Min(S) \in S /\ \A m \in S : Min(S) <= m
      BY <3>3, Zenon DEF Min
    <3>5. i = Min(S)
      BY <2>2, Zenon
    <3> QED BY <1>3, <3>1, <3>4, <3>5
  <2> QED BY <2>1, <2>2, Zenon
<1> HIDE DEF i
<1>5. ASSUME NEW j \in 1 .. Len(r.acts), r.acts[j] = "attempting", Out(k, j)
      PROVE  j = i /\ x.issued
  <2>1. r.acts # <<>> /\ Len(r.acts) \in Nat
    BY <1>3, <1>5
  <2>2. x.pc \in Acting
    BY <1>2, <1>3, <2>1, Zenon DEF Progress, Busy, Acting
  <2>3. j >= x.at
    BY <1>3, <1>5, <2>2 DEF Progress
  <2>4. x.at <= Len(r.acts) /\ i = x.at
    BY <1>3, <1>4, <1>5, <2>1, <2>3
  <2>5. j = x.at
    BY <1>3, <1>5, <2>2, <2>3, <2>4 DEF Progress, Orderly, Acting
  <2>6. x.pc \in {"lookup", "sent", "record"}
    BY <1>3, <1>5, <2>2, <2>4, <2>5, Zenon DEF Progress, Acting
  <2>7. x.pc # "lookup"
    <3>1. j \in 1 .. MaxActions
      BY <1>3, <1>5, <2>1, DeliveryAssumption DEF Honest
    <3> QED BY <1>1, <1>5, <2>5, <3>1, Zenon DEF CallOn, WireOK
  <2> QED BY <1>3, <2>4, <2>5, <2>6, <2>7, Zenon
<1>6. RowEnds(k, r, CancelledRow(r, i, x.issued))
  BY <1>1, <1>3, <1>4, <1>5, CancelledHonest, Zenon
<1> QED BY <1>2, <1>6, Zenon DEF k, r, x, i

\* While a call works on its row, or is about to, no other call of the turn is
\* in a delivery: the lock keeps out those with its key, the turn the others.
LEMMA Alone ==
  ASSUME DlvInv, NEW c \in Call, call[c].pc \notin {"idle", "done"}, call[c].pc \in Busy \/ Free(c)
  PROVE  \A d \in Call \ {c} : call[d].pc \notin Busy
<1> SUFFICES ASSUME NEW d \in Call \ {c} PROVE call[d].pc \notin Busy
  BY Zenon
<1>1. CASE Key(c) = Key(d)
  BY <1>1, Zenon DEF DlvInv, CallsOK, Free
<1>2. CASE Key(c) # Key(d)
  <2>1. c \in Before[d] \/ d \in Before[c]
    BY <1>2, DeliveryAssumption, Zenon DEF Key
  <2>2. call[d].pc \in {"idle", "done"}
    BY <2>1, Zenon DEF DlvInv, CallsOK
  <2> QED BY <2>2, Zenon DEF Busy
<1> QED BY <1>1, <1>2, Zenon

\* A call that is in no delivery does not depend on any row.
LEMMA Outside ==
  ASSUME NEW x, NEW r, NEW k, NEW q, NEW l, CallOn(x, r, k), x.pc \notin Busy
  PROVE  CallOn(x, q, l)'
  BY Zenon DEF CallOn, Progress, Busy, Acting, Ready

\* A step of the call that holds its key's lock, or takes it: what it leaves
\* in its row and where it is then.
LEMMA RowStep ==
  ASSUME DlvInv, NEW c \in Call, call[c].pc \notin {"idle", "done"}, call[c].pc \in Busy \/ Free(c),
         NEW r \in RowType, NEW n,
         Store(c, r), Move(c, n), EnvKept, WireKept,
         Honest(Key(c), r.acts), r.status = "none" => r.acts = <<>>, r.status \in Open => Orderly(r.acts),
         CallOn(n, r, Key(c)), n.pc # "idle", call[c].told => n.told,
         r.status \in Open => n.pc \in Busy \/ n.res = "raised"
  PROVE  DlvInv'
<1> DEFINE k == Key(c)
<1>0. k \in Keys /\ call \in [Call -> CallType] /\ n \in CallType /\ row \in [Keys -> RowType]
  BY KeyIn, Zenon DEF DlvInv, CallsOK, CallOn
<1>1. /\ row' = [row EXCEPT ![k] = r] /\ failed' = failed \cup FailedTarget(r)
      /\ call' = [call EXCEPT ![c] = n]
      /\ UNCHANGED <<platform, text, config, runtime, chanUp, flight, shown, issues>>
  BY Zenon DEF Store, Move, EnvKept, WireKept
<1>2. /\ row'[k] = r /\ \A l \in Keys \ {k} : row'[l] = row[l]
      /\ row' \in [Keys -> RowType]
  BY <1>0, <1>1, Zenon
<1>3. /\ call'[c] = n /\ \A d \in Call \ {c} : call'[d] = call[d]
      /\ call' \in [Call -> CallType]
  BY <1>0, <1>1, Zenon
<1>4. \A d \in Call \ {c} : call[d].pc \notin Busy
  BY Alone, Zenon
<1>5. chanUp
  BY Zenon DEF DlvInv, CallsOK
<1>6. WireOK'
  BY <1>1, Zenon DEF DlvInv, WireOK, Out
<1>7. \A l \in Keys : RowOK(l, row[l]) /\ Honest(k, r.acts)
  BY Zenon DEF DlvInv
<1>8. ASSUME NEW l \in Keys PROVE RowOK(l, row[l])'
  <2>1. CASE l = k
    <3>1. Honest(k, r.acts)'
      BY <1>1, <1>7, Zenon DEF Honest, Out
    <3>2. r.status \in TerminalRows \ {"sent"} => r.gen \in failed'
      BY <1>1, Zenon DEF FailedTarget
    <3> QED BY <1>2, <2>1, <3>1, <3>2, Zenon DEF RowOK
  <2>2. CASE l # k
    BY <1>1, <1>2, <1>7, <2>2, Zenon DEF RowOK, Honest, Out
  <2> QED BY <2>1, <2>2, Zenon
<1>9. ASSUME NEW d \in Call PROVE CallOn(call[d], row[Key(d)], Key(d))'
  <2>1. CASE d = c
    <3>1. n.pc \in Ready => n.gen \notin failed'
      <4>1. n.pc \in Ready => r.status \in Open /\ n.gen \notin failed
        BY Zenon DEF CallOn, Ready, Busy
      <4> QED BY <1>1, <4>1, Zenon DEF FailedTarget, Open, TerminalRows
    <3>2. CallOn(n, r, k)'
      BY <1>1, <3>1, Zenon
         DEF CallOn, Progress, Out, ValidPlan, PlanDelivery, DiscordPlan, DingTalkPlan
    <3> QED BY <1>2, <1>3, <2>1, <3>2, Zenon DEF Key
  <2>2. CASE d # c
    <3>1. CallOn(call[d], row[Key(d)], Key(d)) /\ call[d].pc \notin Busy
      BY <1>4, <2>2, Zenon DEF DlvInv, CallsOK
    <3> QED BY <1>3, <2>2, <3>1, Outside, Zenon
  <2> QED BY <2>1, <2>2, Zenon
<1>10. CallsOK'
  <2>1. \A d, e \in Call : d # e /\ call'[d].pc \in Busy => call'[e].pc \notin Busy
    BY <1>3, <1>4, Zenon
  <2>2. ASSUME NEW d \in Call, call'[d].pc # "idle", NEW b \in Before[d] PROVE call'[b].pc = "done"
    <3>1. call[d].pc # "idle"
      BY <1>3, <2>2, Zenon
    <3>2. call[b].pc = "done"
      BY <2>2, <3>1, Zenon DEF DlvInv, CallsOK
    <3>3. b # c
      BY <3>2, Zenon
    <3> QED BY <1>0, <1>1, <3>2, <3>3
  <2> QED BY <1>1, <1>3, <1>5, <1>9, <2>1, <2>2, Zenon DEF CallsOK, Key
<1>11. IssueReported'
  <2> SUFFICES ASSUME NEW l \in Keys, \E i \in 1 .. MaxActions : issues[l][i] > 0
               PROVE  \E d \in Call : Key(d) = l /\ call'[d].told
    BY <1>1, Zenon DEF IssueReported, Key
  <2>1. PICK d \in Call : Key(d) = l /\ call[d].told
    BY Zenon DEF DlvInv, IssueReported
  <2> QED BY <1>3, <2>1, Zenon
<1>12. RowsClosed'
  <2> SUFFICES ASSUME NEW l \in Keys, row'[l].status \in Open
               PROVE  \E d \in Call : Key(d) = l /\ (call'[d].pc \in Busy \/ call'[d].res = "raised")
    BY Zenon DEF RowsClosed, Key
  <2>1. CASE l = k
    BY <1>2, <1>3, <2>1, Zenon
  <2>2. CASE l # k
    <3>1. row[l].status \in Open
      BY <1>2, <2>2, Zenon
    <3>2. PICK d \in Call : Key(d) = l /\ (call[d].pc \in Busy \/ call[d].res = "raised")
      BY <1>5, <3>1, Zenon DEF DlvInv, RowsClosed
    <3> QED BY <1>3, <2>2, <3>2, Zenon
  <2> QED BY <2>1, <2>2, Zenon
<1> QED BY <1>1, <1>2, <1>6, <1>8, <1>10, <1>11, <1>12, Zenon DEF DlvInv

\* A step before the lock is taken, or of a call that leaves its row alone.
LEMMA QuietStep ==
  ASSUME DlvInv, NEW c \in Call, call[c].pc \notin Busy \cup {"done"}, NEW n,
         Move(c, n), RowsKept, EnvKept, WireKept,
         CallOn(n, NoRow, Key(c)), n.pc \notin Busy \cup {"idle"}, call[c].told => n.told,
         call[c].pc = "idle" => InTurn(c) /\ chanUp
  PROVE  DlvInv'
<1>0. call \in [Call -> CallType] /\ n \in CallType
  BY Zenon DEF DlvInv, CallsOK, CallOn
<1>1. /\ UNCHANGED <<row, failed, platform, text, config, runtime, chanUp, flight, shown, issues>>
      /\ call' = [call EXCEPT ![c] = n]
  BY Zenon DEF RowsKept, Move, EnvKept, WireKept
<1>2. /\ call'[c] = n /\ \A d \in Call \ {c} : call'[d] = call[d]
      /\ call' \in [Call -> CallType]
  BY <1>0, <1>1, Zenon
<1>3. WireOK' /\ \A k \in Keys : RowOK(k, row[k])'
  BY <1>1, Zenon DEF DlvInv, WireOK, RowOK, Honest, Out
<1>4. ASSUME NEW d \in Call PROVE CallOn(call[d], row[Key(d)], Key(d))'
  <2>1. CASE d = c
    BY <1>2, <2>1, Outside, Zenon
  <2>2. CASE d # c
    <3>1. CallOn(call[d], row[Key(d)], Key(d))
      BY Zenon DEF DlvInv, CallsOK
    <3>2. ASSUME NEW x, NEW r, NEW k, CallOn(x, r, k) PROVE CallOn(x, r, k)'
      BY <1>1, <3>2, Zenon
         DEF CallOn, Progress, Out, ValidPlan, PlanDelivery, DiscordPlan, DingTalkPlan
    <3>3. call'[d] = call[d] /\ row' = row
      BY <1>1, <1>2, <2>2, Zenon
    <3> QED BY <3>1, <3>2, <3>3, Zenon DEF Key
  <2> QED BY <2>1, <2>2, Zenon
<1>5. CallsOK'
  <2>1. \A d, e \in Call : d # e /\ Key(d) = Key(e) /\ call'[d].pc \in Busy => call'[e].pc \notin Busy
    BY <1>2, Zenon DEF DlvInv, CallsOK
  <2>2. ASSUME NEW d \in Call, call'[d].pc # "idle", NEW b \in Before[d] PROVE call'[b].pc = "done"
    <3>1. call[b].pc = "done"
      BY <1>2, <2>2, Zenon DEF DlvInv, CallsOK, InTurn
    <3>2. b # c
      BY <3>1, Zenon
    <3> QED BY <1>0, <1>1, <3>1, <3>2
  <2>3. chanUp
    BY Zenon DEF DlvInv, CallsOK
  <2> QED BY <1>1, <1>2, <1>4, <2>1, <2>2, <2>3, Zenon DEF CallsOK, Key
<1>6. IssueReported'
  BY <1>1, <1>2, Zenon DEF DlvInv, IssueReported, Key
<1>7. RowsClosed'
  <2>1. call[c].res = "none"
    BY Zenon DEF DlvInv, CallsOK, CallOn
  <2> QED BY <1>1, <1>2, <2>1, Zenon DEF DlvInv, RowsClosed, Key
<1> QED BY <1>1, <1>3, <1>5, <1>6, <1>7, Zenon DEF DlvInv

\* A step that leaves the row as it is.
LEMMA KeptRow ==
  ASSUME DlvInv, NEW c \in Call, RowsKept
  PROVE  Store(c, Row(c)) /\ Row(c) \in RowType /\ RowOK(Key(c), Row(c))
<1>1. row \in [Keys -> RowType] /\ Key(c) \in Keys /\ RowOK(Key(c), row[Key(c)])
  BY KeyIn, Zenon DEF DlvInv
<1>2. FailedTarget(Row(c)) \subseteq failed
  BY <1>1, Zenon DEF RowOK, FailedTarget, Row
<1> QED BY <1>1, <1>2, Zenon DEF Store, RowsKept, Row

\* The record of a call that has returned.
LEMMA EndedIs ==
  ASSUME DlvInv, NEW c \in Call,
         NEW res \in {"error", "raised", "cancelled", "lost"} \cup TerminalRows, NEW q, NEW l
  PROVE  /\ CallOn(Ended(c, res), q, l)
         /\ Ended(c, res).pc = "done" /\ Ended(c, res).told = call[c].told /\ Ended(c, res).res = res
<1> DEFINE n == Ended(c, res)
<1>1. call[c].told \in BOOLEAN
  BY Zenon DEF DlvInv, CallsOK, CallType
<1>2. /\ n \in CallType /\ n.pc = "done" /\ n.told = call[c].told /\ n.res = res /\ n.issued = FALSE
  <2>1. PICK t : t = call[c].told
    OBVIOUS
  <2>2. n = [NoCall EXCEPT !.pc = "done", !.res = res, !.told = t]
    BY <2>1 DEF Ended
  <2>3. "done" \in CallPcs /\ "idle" \in CallPcs
    BY DEF CallPcs
  <2>4. NoCall \in CallType /\ NoCall.issued = FALSE
    BY <2>3 DEF NoCall, CallType
  <2> HIDE DEF n
  <2> QED BY <1>1, <2>1, <2>2, <2>3, <2>4, ZenonT(30) DEF CallType
<1> HIDE DEF n
<1>3. CallOn(n, q, l)
  BY <1>2, Zenon DEF CallOn, Progress, Busy, Acting, Ready
<1> QED BY <1>2, <1>3, Zenon DEF n

\* The delivery ends, with the row it leaves.
LEMMA CallEnds ==
  ASSUME DlvInv, NEW c \in Call, call[c].pc \notin {"idle", "done"}, call[c].pc \in Busy \/ Free(c),
         NEW g, NEW r, RowEnds(Key(c), g, r), NEW res \in {"raised", "cancelled"} \cup TerminalRows,
         Store(c, r), Move(c, Ended(c, res)), EnvKept, WireKept
  PROVE  DlvInv'
<1>1. r \in RowType /\ Honest(Key(c), r.acts) /\ r.status \in TerminalRows
  BY Zenon DEF RowEnds
<1>2. r.status \notin Open /\ r.status # "none"
  BY <1>1, Zenon DEF Open, TerminalRows
<1>3. CallOn(Ended(c, res), r, Key(c)) /\ Ended(c, res).pc = "done" /\ Ended(c, res).told = call[c].told
  BY EndedIs, Zenon
<1> DEFINE n == Ended(c, res)
<1> HIDE DEF n
<1>4. Move(c, n) /\ CallOn(n, r, Key(c)) /\ n.pc = "done" /\ n.told = call[c].told
  BY <1>3, Zenon DEF n
<1> QED BY <1>1, <1>2, <1>4, RowStep, Zenon

\* A call stores a terminal row and returns its status.
LEMMA ReturnEnds ==
  ASSUME DlvInv, NEW c \in Call, call[c].pc \notin {"idle", "done"}, call[c].pc \in Busy \/ Free(c),
         NEW g, NEW r, RowEnds(Key(c), g, r), ReturnRow(c, r), EnvKept, WireKept
  PROVE  DlvInv'
<1>1. r.status \in TerminalRows /\ Store(c, r) /\ Move(c, Ended(c, r.status))
  BY Zenon DEF ReturnRow, RowEnds
<1> QED BY <1>1, CallEnds, Zenon

\* What is known of a call in a delivery and of its row.
LEMMA AtWork ==
  ASSUME DlvInv, NEW c \in Call
  PROVE  /\ Key(c) \in Keys /\ Row(c) \in RowType /\ Row(c).acts \in Seq(ActStatus) /\ WireOK
         /\ RowOK(Key(c), Row(c)) /\ Honest(Key(c), Row(c).acts)
         /\ CallOn(call[c], Row(c), Key(c)) /\ call[c] \in CallType
         /\ call[c].pc \in Busy \ {"prepare"} => Row(c).status \in Open /\ Orderly(Row(c).acts)
<1>1. Key(c) \in Keys /\ Row(c) \in RowType /\ RowOK(Key(c), Row(c)) /\ WireOK
  BY KeyIn, Zenon DEF DlvInv, Row
<1>2. CallOn(call[c], Row(c), Key(c)) /\ call[c] \in CallType
  BY Zenon DEF DlvInv, CallsOK, Row
<1> QED BY <1>1, <1>2, Zenon DEF RowOK, CallOn, RowType

\* The call goes on with its row unchanged.
LEMMA GoesOn ==
  ASSUME DlvInv, NEW c \in Call, call[c].pc \in Busy \/ (call[c].pc = "lock" /\ Free(c)), NEW n,
         CallOn(n, Row(c), Key(c)), Move(c, n), n.told = call[c].told, RowsKept, EnvKept, WireKept,
         n.pc \in Busy
  PROVE  DlvInv'
<1>1. Store(c, Row(c)) /\ Row(c) \in RowType /\ RowOK(Key(c), Row(c))
  BY KeptRow, Zenon
<1>2. call[c].pc \notin {"idle", "done"} /\ n.pc # "idle"
  BY Zenon DEF Busy
<1> QED BY <1>1, <1>2, RowStep, Zenon DEF RowOK

\* _fail_unissued, while the action was not yet sent.
LEMMA FailsUnissued ==
  ASSUME DlvInv, NEW c \in Call, call[c].pc \in {"next"} \cup Ready, call[c].at <= Len(Row(c).acts),
         FailUnissued(c), EnvKept, WireKept
  PROVE  DlvInv'
<1> DEFINE k == Key(c)
           r == Row(c)
           x == call[c]
<1>1. /\ k \in Keys /\ r \in RowType /\ r.acts \in Seq(ActStatus) /\ WireOK /\ Honest(k, r.acts)
      /\ CallOn(x, r, k) /\ x \in CallType /\ Orderly(r.acts)
  BY AtWork, Zenon DEF Busy, Ready
<1>2. x.pc \in {"next"} \cup Ready /\ x.at <= Len(r.acts)
  BY Zenon
<1>3. FailUnissued(c) <=> ReturnRow(c, EndedAt(r, x.at, "failed"))
  BY Zenon DEF FailUnissued
<1>8. x.pc \in Busy /\ x.pc \notin {"idle", "done"}
  BY <1>2, Zenon DEF Busy, Ready
<1> HIDE DEF k, r, x
<1>4. x.at \in 1 .. Len(r.acts)
  BY <1>1, <1>2 DEF CallType
<1>5. r.acts[x.at] \in Open /\ ~Out(k, x.at)
  <2>1. CASE x.pc = "lookup"
    <3>1. x.at \in 1 .. MaxActions /\ issues[k][x.at] = 0 /\ r.acts[x.at] = "attempting"
      BY <1>1, <1>4, <2>1, DeliveryAssumption DEF Honest, CallOn, Progress
    <3> QED BY <1>1, <3>1, Zenon DEF WireOK, Open
  <2>2. CASE x.pc # "lookup"
    <3>1. r.acts[x.at] = "prepared"
      BY <1>1, <1>2, <2>2, Zenon DEF CallOn, Progress, Ready
    <3> QED BY <1>1, <1>4, <3>1, Unissued DEF Open
  <2> QED BY <2>1, <2>2, Zenon
<1>6. RowEnds(k, r, EndedAt(r, x.at, "failed"))
  BY <1>1, <1>4, <1>5, EndedHonest, Zenon
<1> DEFINE q == EndedAt(r, x.at, "failed")
<1>7. RowEnds(k, r, q) /\ ReturnRow(c, q)
  BY <1>3, <1>6, Zenon
<1> HIDE DEF q
<1> QED BY <1>7, <1>8, ReturnEnds, Zenon DEF k, x

\* A call that has not reached its delivery returns with an error.
LEMMA QuietEnd ==
  ASSUME DlvInv, NEW c \in Call, call[c].pc \notin Busy \cup {"idle", "done"},
         NEW res \in {"error", "cancelled"}, Move(c, Ended(c, res)), RowsKept, EnvKept, WireKept
  PROVE  DlvInv'
<1> DEFINE n == Ended(c, res)
<1>1. CallOn(n, NoRow, Key(c)) /\ n.pc = "done" /\ n.told = call[c].told /\ Move(c, n)
  BY EndedIs, Zenon
<1> HIDE DEF n
<1> QED BY <1>1, QuietStep, Zenon DEF Busy

\* A call that has not reached its delivery goes on to n.
LEMMA QuietGo ==
  ASSUME DlvInv, NEW c \in Call, call[c].pc \notin Busy \cup {"done"}, NEW p \in {"resolve", "refs", "lock"},
         NEW g \in Nat, NEW m \in Nat, Move(c, [call[c] EXCEPT !.pc = p, !.gen = g, !.media = m]),
         RowsKept, EnvKept, WireKept, call[c].pc = "idle" => InTurn(c) /\ chanUp
  PROVE  DlvInv'
<1> DEFINE n == [call[c] EXCEPT !.pc = p, !.gen = g, !.media = m]
<1>1. call[c] \in CallType /\ CallOn(call[c], Row(c), Key(c))
  BY AtWork, Zenon
<1>2. ~call[c].issued /\ call[c].res = "none"
  BY <1>1, Zenon DEF CallOn, CallType, Busy
<1>3. n \in CallType /\ n.pc = p /\ n.told = call[c].told /\ n.issued = call[c].issued /\ n.res = call[c].res
  BY <1>1, Zenon DEF CallType, CallPcs
<1>4. Move(c, n)
  BY Zenon
<1> HIDE DEF n
<1>5. CallOn(n, NoRow, Key(c))
  BY <1>2, <1>3, Zenon DEF CallOn, Progress, Busy, Acting, Ready
<1>6. n.pc \notin Busy \cup {"idle"}
  BY <1>3, Zenon DEF Busy
<1> QED BY <1>3, <1>4, <1>5, <1>6, QuietStep, Zenon

\* The steps of a call before its delivery: MessageTool.execute, deliver_final, the
\* target and the references it resolves, and the expiry of a tool call.
LEMMA BeforeDelivery ==
  ASSUME DlvInv, NEW c \in Call,
         CallTool(c) \/ DeliverFinal(c) \/ ResolveTarget(c) \/ ResolveRefs(c) \/ ToolExpires(c)
  PROVE  DlvInv'
<1>1. call[c] \in CallType /\ config \in [gen : Nat, rev : Nat, paired : BOOLEAN] /\ Media \subseteq Nat
  BY AtWork, DeliveryAssumption, Zenon DEF DlvInv
<1>2. call[c].gen \in Nat /\ call[c].media \in Nat /\ config.gen \in Nat
  BY <1>1, Zenon DEF CallType
<1>3. CASE CallTool(c)
  <2>1. PICK m \in Media : Move(c, [call[c] EXCEPT !.pc = "resolve", !.media = m])
    BY <1>3, Zenon DEF CallTool
  <2>2. [call[c] EXCEPT !.pc = "resolve", !.media = m] = [call[c] EXCEPT !.pc = "resolve", !.gen = call[c].gen, !.media = m]
    BY <1>1, Zenon DEF CallType
  <2>3. call[c].pc = "idle" /\ InTurn(c) /\ chanUp /\ RowsKept /\ EnvKept /\ WireKept
    BY <1>3, Zenon DEF CallTool
  <2> QED BY <1>1, <1>2, <2>1, <2>2, <2>3, QuietGo, Zenon DEF Busy
<1>4. CASE DeliverFinal(c)
  <2>1. Move(c, [call[c] EXCEPT !.pc = "lock", !.gen = 1])
    BY <1>4, Zenon DEF DeliverFinal
  <2>2. [call[c] EXCEPT !.pc = "lock", !.gen = 1] = [call[c] EXCEPT !.pc = "lock", !.gen = 1, !.media = call[c].media]
    BY <1>1, Zenon DEF CallType
  <2>3. call[c].pc = "idle" /\ InTurn(c) /\ chanUp /\ RowsKept /\ EnvKept /\ WireKept
    BY <1>4, Zenon DEF DeliverFinal
  <2> QED BY <1>2, <2>1, <2>2, <2>3, QuietGo, Zenon DEF Busy
<1>5. CASE ResolveTarget(c)
  <2> DEFINE p == IF call[c].media > 0 THEN "refs" ELSE "lock"
  <2>1. call[c].pc = "resolve" /\ RowsKept /\ EnvKept /\ WireKept
    BY <1>5, Zenon DEF ResolveTarget
  <2>2. \/ Move(c, [call[c] EXCEPT !.pc = p, !.gen = config.gen])
        \/ Move(c, Ended(c, "error"))
    BY <1>5, Zenon DEF ResolveTarget
  <2>3. [call[c] EXCEPT !.pc = p, !.gen = config.gen] = [call[c] EXCEPT !.pc = p, !.gen = config.gen, !.media = call[c].media]
    BY <1>1, Zenon DEF CallType
  <2>4. p \in {"resolve", "refs", "lock"}
    BY Zenon
  <2> HIDE DEF p
  <2>5. CASE Move(c, [call[c] EXCEPT !.pc = p, !.gen = config.gen])
    BY <1>2, <2>1, <2>3, <2>4, <2>5, QuietGo, ZenonT(30) DEF Busy
  <2>6. CASE Move(c, Ended(c, "error"))
    BY <1>2, <2>1, <2>6, QuietEnd DEF Busy
  <2> QED BY <2>2, <2>5, <2>6
<1>6. CASE ResolveRefs(c)
  <2>1. call[c].pc = "refs" /\ RowsKept /\ EnvKept /\ WireKept
    BY <1>6, Zenon DEF ResolveRefs
  <2>2. \/ Move(c, [call[c] EXCEPT !.pc = "lock"])
        \/ Move(c, Ended(c, "error"))
    BY <1>6, Zenon DEF ResolveRefs, Goto
  <2>3. [call[c] EXCEPT !.pc = "lock"] = [call[c] EXCEPT !.pc = "lock", !.gen = call[c].gen, !.media = call[c].media]
    BY <1>1, Zenon DEF CallType
  <2> QED BY <1>2, <2>1, <2>2, <2>3, QuietGo, QuietEnd, Zenon DEF Busy
<1>7. CASE ToolExpires(c)
  BY <1>7, QuietEnd, Zenon DEF ToolExpires, Busy
<1> QED BY <1>3, <1>4, <1>5, <1>6, <1>7, Zenon

\* _existing_result, with the key's lock.
LEMMA LookStep == ASSUME DlvInv, NEW c \in Call, LockAndLook(c) PROVE DlvInv'
<1>1. /\ Row(c) \in RowType /\ RowOK(Key(c), Row(c)) /\ WireOK /\ Key(c) \in Keys
      /\ call[c] \in CallType /\ CallOn(call[c], Row(c), Key(c))
  BY AtWork, Zenon
<1>2. call[c].pc = "lock" /\ Free(c) /\ EnvKept /\ WireKept
  BY Zenon DEF LockAndLook
<1>3. CASE Row(c).status = "none"
  <2> DEFINE n == [call[c] EXCEPT !.pc = "prepare"]
  <2>1. Move(c, n) /\ RowsKept
    BY <1>3, Zenon DEF LockAndLook, Goto, TerminalRows
  <2>2. n \in CallType /\ n.pc = "prepare" /\ n.told = call[c].told /\ n.issued = call[c].issued /\ n.res = call[c].res
    BY <1>1, Zenon DEF CallType, CallPcs, Busy
  <2> HIDE DEF n
  <2>3. CallOn(n, Row(c), Key(c))
    BY <1>1, <1>2, <1>3, <2>2, Zenon DEF CallOn, Progress, Busy, Acting, Ready
  <2> QED BY <1>2, <2>1, <2>2, <2>3, GoesOn, Zenon DEF Busy
<1>4. CASE Row(c).status \in TerminalRows
  <2>1. ReturnRow(c, Row(c))
    BY <1>4, Zenon DEF LockAndLook, TerminalRows
  <2>2. RowEnds(Key(c), Row(c), Row(c))
    BY <1>1, <1>4, Zenon DEF RowEnds, RowOK
  <2> QED BY <1>2, <2>1, <2>2, ReturnEnds, Zenon
<1>5. CASE Row(c).status \in Open
  <2>1. ReturnRow(c, Repaired(Row(c)))
    BY <1>5, Zenon DEF LockAndLook, TerminalRows, Open
  <2>2. RowEnds(Key(c), Row(c), Repaired(Row(c)))
    BY <1>1, <1>5, RepairedHonest, Zenon DEF RowOK
  <2> QED BY <1>2, <2>1, <2>2, ReturnEnds, Zenon
<1> QED BY <1>1, <1>3, <1>4, <1>5, Zenon DEF RowType

\* A row with nothing planned.
Bare(st, g) == [NoRow EXCEPT !.status = st, !.gen = g]

\* A row with nothing planned is a row, with no action.
LEMMA FreshRow ==
  ASSUME NEW st \in Open \cup TerminalRows, NEW g \in Nat
  PROVE  /\ Bare(st, g) \in RowType /\ Bare(st, g).status = st
         /\ Bare(st, g).acts = <<>> /\ Bare(st, g).gen = g
<1>1. NoRow \in RowType
  <2>1. <<>> \in Seq(ActStatus) /\ <<>> \in Seq({"text", "file", "upload"})
    OBVIOUS
  <2> QED BY <2>1, Zenon DEF NoRow, RowType
<1>2. NoRow.acts = <<>>
  BY Zenon DEF NoRow
<1> QED BY <1>1, <1>2, Zenon DEF RowType, Bare

\* A call goes to another place and another action.
CallAt(x, p, a) == [x EXCEPT !.pc = p, !.at = a]

\* Such a call is as it was otherwise.
LEMMA GoneTo ==
  ASSUME NEW x \in CallType, NEW p \in CallPcs, NEW a \in Nat \ {0}
  PROVE  /\ CallAt(x, p, a) \in CallType /\ CallAt(x, p, a).pc = p /\ CallAt(x, p, a).at = a
         /\ CallAt(x, p, a).told = x.told /\ CallAt(x, p, a).issued = x.issued
         /\ CallAt(x, p, a).res = x.res /\ CallAt(x, p, a).gen = x.gen /\ CallAt(x, p, a).adapter = x.adapter
  BY Zenon DEF CallType, CallAt

\* _prepare writes the row before anything else is done.
LEMMA PrepareStep == ASSUME DlvInv, NEW c \in Call, Prepare(c) PROVE DlvInv'
<1> DEFINE n == [call[c] EXCEPT !.pc = "plan"]
           r == [NoRow EXCEPT !.status = "prepared", !.gen = call[c].gen]
<1>1. /\ RowOK(Key(c), Row(c)) /\ call[c] \in CallType /\ CallOn(call[c], Row(c), Key(c))
  BY AtWork, Zenon
<1>2. call[c].pc = "prepare" /\ EnvKept /\ WireKept /\ Store(c, r) /\ Move(c, n)
  BY Zenon DEF Prepare, Goto
<1>3. /\ n \in CallType /\ n.pc = "plan" /\ n.told = call[c].told /\ n.issued = call[c].issued
      /\ n.res = call[c].res /\ n.gen = call[c].gen
  BY <1>1, Zenon DEF CallType, CallPcs, Busy
<1>4. r \in RowType /\ r.status = "prepared" /\ r.acts = <<>> /\ r.gen = call[c].gen
  <2>1. call[c].gen \in Nat
    BY <1>1, Zenon DEF CallType
  <2>2. r = Bare("prepared", call[c].gen)
    BY Zenon DEF Bare
  <2> HIDE DEF r
  <2> QED BY <2>1, <2>2, FreshRow DEF Open
<1> HIDE DEF n, r
<1>5. Row(c).acts = <<>> /\ Honest(Key(c), Row(c).acts)
  BY <1>1, <1>2, Zenon DEF CallOn, RowOK
<1>9. call[c].res = "none" /\ ~call[c].issued
  BY <1>1, <1>2, Zenon DEF CallOn
<1>10. Progress(n, r, Key(c))
  BY <1>3, <1>4, Zenon DEF Progress, Acting
<1>6. CallOn(n, r, Key(c))
  BY <1>3, <1>4, <1>9, <1>10, Zenon DEF CallOn, Busy, Acting, Ready, Open
<1>7. r.status \in Open /\ Orderly(r.acts) /\ call[c].pc \in Busy /\ n.pc \in Busy /\ n.pc # "idle"
  BY <1>2, <1>3, <1>4 DEF Open, Orderly, Busy
<1>8. Honest(Key(c), r.acts) /\ call[c].pc \notin {"idle", "done"} /\ r.status # "none"
  BY <1>2, <1>4, <1>5, Zenon
<1> QED BY <1>2, <1>3, <1>4, <1>6, <1>7, <1>8, RowStep, Zenon

\* The planning of deliver().
LEMMA PlanStep == ASSUME DlvInv, NEW c \in Call, PlanOrFail(c) PROVE DlvInv'
<1> DEFINE n == [call[c] EXCEPT !.pc = "install", !.adapter = Adapter]
<1>1. /\ Row(c) \in RowType /\ RowOK(Key(c), Row(c)) /\ call[c] \in CallType
      /\ CallOn(call[c], Row(c), Key(c)) /\ Key(c) \in Keys
  BY AtWork, Zenon
<1>2. call[c].pc = "plan" /\ EnvKept /\ WireKept
  BY Zenon DEF PlanOrFail
<1>3. \/ ReturnRow(c, FailedBare(Row(c)))
      \/ Adapter # 0 /\ ValidPlan(PlanDelivery(call[c].media)) /\ Move(c, n) /\ RowsKept
  BY Zenon DEF PlanOrFail
<1>4. CASE ReturnRow(c, FailedBare(Row(c)))
  BY <1>1, <1>2, <1>4, BareHonest, ReturnEnds, Zenon DEF RowOK, Busy
<1>5. CASE Adapter # 0 /\ ValidPlan(PlanDelivery(call[c].media)) /\ Move(c, n) /\ RowsKept
  <2>1. Adapter = runtime.id /\ runtime.id \in Nat \ {0}
    BY <1>5, Zenon DEF Adapter, DlvInv
  <2>2. /\ n \in CallType /\ n.pc = "install" /\ n.told = call[c].told /\ n.issued = call[c].issued
        /\ n.res = call[c].res /\ n.gen = call[c].gen /\ n.media = call[c].media
        /\ n.adapter = runtime.id
    BY <1>1, <2>1, Zenon DEF CallType, CallPcs, Busy
  <2>3. Move(c, n) /\ RowsKept /\ ValidPlan(PlanDelivery(call[c].media))
    BY <1>5, Zenon
  <2> HIDE DEF n
  <2>4. CallOn(n, Row(c), Key(c))
    BY <1>1, <1>2, <2>1, <2>2, <2>3 DEF CallOn, Progress, Busy, Acting, Ready
  <2> QED BY <1>2, <2>2, <2>3, <2>4, GoesOn, Zenon DEF Busy
<1> QED BY <1>3, <1>4, <1>5, Zenon

\* A plan is a list of the kinds there are.
LEMMA PlanIs ==
  ASSUME DlvInv, NEW m \in Nat
  PROVE  PlanDelivery(m) \in Seq({"text", "file", "upload"})
<1> DEFINE K == {"text", "file", "upload"}
           l == Len(SplitText(text))
<1>1. l \in Nat
  BY DeliveryAssumption, Zenon DEF DlvInv
<1> HIDE DEF l
<1>2. ASSUME NEW j \in Nat
      PROVE  Repeat(j, <<"text">>) \in Seq(K) /\ Repeat(j, <<"file">>) \in Seq(K)
  <2>1. j * Len(<<"text">>) = j /\ j * Len(<<"file">>) = j
    OBVIOUS
  <2>2. \A i \in 1 .. j : (i - 1) % 1 = 0
    OBVIOUS
  <2>3. \A i \in 1 .. j : <<"text">>[((i - 1) % Len(<<"text">>)) + 1] \in K
    BY <2>2
  <2>4. \A i \in 1 .. j : <<"file">>[((i - 1) % Len(<<"file">>)) + 1] \in K
    BY <2>2
  <2> QED BY <2>1, <2>3, <2>4 DEF Repeat
<1>3. Repeat(m, <<"upload", "file">>) \in Seq(K)
  <2>1. m * Len(<<"upload", "file">>) \in Nat
    OBVIOUS
  <2>2. \A i \in 1 .. m * Len(<<"upload", "file">>) : ((i - 1) % 2) + 1 \in {1, 2}
    BY <2>1
  <2>3. \A i \in 1 .. m * Len(<<"upload", "file">>) : <<"upload", "file">>[((i - 1) % 2) + 1] \in K
    BY <2>2
  <2> QED BY <2>1, <2>3 DEF Repeat
<1>4. Repeat(l, <<"text">>) \in Seq(K) /\ Repeat(m, <<"file">>) \in Seq(K)
  BY <1>1, <1>2, Zenon
<1>5. DiscordPlan(m) \in Seq(K) /\ DingTalkPlan(m) \in Seq(K)
  BY <1>3, <1>4 DEF DiscordPlan, DingTalkPlan, l
<1> QED BY <1>5, Zenon DEF PlanDelivery

\* _install_plan
LEMMA InstallStep == ASSUME DlvInv, NEW c \in Call, InstallPlan(c) PROVE DlvInv'
<1> DEFINE x == call[c]
           plan == PlanDelivery(x.media)
           acts == [i \in DOMAIN plan |-> "prepared"]
           n == [x EXCEPT !.pc = "next", !.at = 1]
           r == [Row(c) EXCEPT !.kinds = plan, !.acts = acts]
<1>1. /\ Row(c) \in RowType /\ RowOK(Key(c), Row(c)) /\ x \in CallType /\ CallOn(x, Row(c), Key(c))
      /\ Row(c).status \in Open
  BY AtWork, Zenon DEF InstallPlan, Busy
<1>2. x.pc = "install" /\ EnvKept /\ WireKept /\ Store(c, r) /\ Move(c, n)
  BY Zenon DEF InstallPlan
<1>3. plan \in Seq({"text", "file", "upload"})
  BY <1>1, PlanIs, Zenon DEF CallType
<1>4. ValidPlan(plan) /\ Row(c).acts = <<>>
  BY <1>1, <1>2, Zenon DEF CallOn, Progress
<1> HIDE DEF plan
<1>5. /\ acts \in Seq(ActStatus) /\ Len(acts) = Len(plan) /\ Len(plan) \in Nat
      /\ \A i \in 1 .. Len(acts) : acts[i] = "prepared"
  BY <1>3 DEF ActStatus
<1> HIDE DEF acts
<1>6. /\ n \in CallType /\ n.pc = "next" /\ n.told = x.told /\ n.issued = x.issued
      /\ n.res = x.res /\ n.gen = x.gen /\ n.adapter = x.adapter /\ n.at = 1
  <2>1. x \in CallType
    BY <1>1, Zenon
  <2>2. "next" \in CallPcs /\ 1 \in Nat \ {0}
    BY DEF CallPcs, Busy
  <2>3. n = CallAt(x, "next", 1)
    BY Zenon DEF CallAt
  <2> HIDE DEF n, x
  <2> QED BY <2>1, <2>2, <2>3, GoneTo
<1>7. r \in RowType /\ r.status = Row(c).status /\ r.acts = acts /\ r.gen = Row(c).gen
  BY <1>1, <1>3, <1>5, Zenon DEF RowType
<1> HIDE DEF n, r
<1>8. Honest(Key(c), acts)
  <2>1. \A i \in 1 .. MaxActions : issues[Key(c)][i] = 0
    BY <1>1, <1>4 DEF RowOK, Honest
  <2>2. Len(acts) <= MaxActions
    BY <1>4, <1>5, Zenon DEF ValidPlan
  <2> QED BY <1>5, <2>1, <2>2, Zenon DEF Honest
<1>9. Orderly(acts)
  BY <1>5, Zenon DEF Orderly
<1>10. x.adapter \in 1 .. runtime.id /\ x.gen = Row(c).gen /\ x.res = "none" /\ ~x.issued
  BY <1>1, <1>2, Zenon DEF CallOn, Busy
<1>14. Progress(n, r, Key(c))
  <2>1. \A j \in 1 .. Len(acts) : ~(j < 1)
    OBVIOUS
  <2>2. 1 <= Len(acts) + 1 /\ (1 <= Len(acts) => acts[1] = "prepared")
    BY <1>5
  <2> QED BY <1>6, <1>7, <2>1, <2>2, Zenon DEF Progress
<1>11. CallOn(n, r, Key(c))
  BY <1>1, <1>6, <1>7, <1>10, <1>14, Zenon DEF CallOn, Busy, Acting, Ready
<1>12. call[c].pc \in Busy /\ n.pc \in Busy /\ n.pc # "idle" /\ call[c].pc \notin {"idle", "done"}
  BY <1>2, <1>6, Zenon DEF Busy
<1>13. r.status # "none" /\ Honest(Key(c), r.acts) /\ Orderly(r.acts)
  BY <1>1, <1>7, <1>8, <1>9, Zenon DEF Open
<1> QED BY <1>2, <1>6, <1>7, <1>11, <1>12, <1>13, RowStep, Zenon

\* The call goes to another place of its delivery.
LEMMA Goes ==
  ASSUME DlvInv, NEW c \in Call, NEW p \in CallPcs, Goto(c, p)
  PROVE  LET x == call[c] IN
         /\ x \in CallType /\ CallOn(x, Row(c), Key(c))
         /\ \E n : /\ Move(c, n) /\ n \in CallType /\ n.pc = p /\ n.at = x.at /\ n.told = x.told
                   /\ n.issued = x.issued /\ n.res = x.res /\ n.gen = x.gen /\ n.adapter = x.adapter
<1> DEFINE x == call[c]
           n == CallAt(x, p, x.at)
<1>1. x \in CallType /\ CallOn(x, Row(c), Key(c))
  BY AtWork, Zenon
<1>2. n = [x EXCEPT !.pc = p]
  BY <1>1, Zenon DEF CallAt, CallType
<1>3. Move(c, n)
  BY <1>2, Zenon DEF Goto
<1>4. x.at \in Nat \ {0}
  BY <1>1, Zenon DEF CallType
<1> HIDE DEF x
<1>5. /\ n \in CallType /\ n.pc = p /\ n.at = x.at /\ n.told = x.told
      /\ n.issued = x.issued /\ n.res = x.res /\ n.gen = x.gen /\ n.adapter = x.adapter
  BY <1>1, <1>4, GoneTo
<1> HIDE DEF n
<1> QED BY <1>1, <1>3, <1>5, Zenon DEF x

\* The way to on_issued.
LEMMA Advances ==
  ASSUME DlvInv, NEW c \in Call, call[c].pc \in {"next", "ready", "fence"},
         NEW p \in {"ready", "fence", "attempt"}, Goto(c, p), RowsKept, EnvKept, WireKept,
         call[c].at <= Len(Row(c).acts), call[c].gen \notin failed,
         p = "attempt" => runtime.gen = call[c].gen
  PROVE  DlvInv'
<1> DEFINE x == call[c]
<1>1. p \in CallPcs
  BY Zenon DEF CallPcs, Busy
<1>2. /\ x \in CallType /\ CallOn(x, Row(c), Key(c))
      /\ \E n : /\ Move(c, n) /\ n \in CallType /\ n.pc = p /\ n.at = x.at /\ n.told = x.told
                /\ n.issued = x.issued /\ n.res = x.res /\ n.gen = x.gen /\ n.adapter = x.adapter
  BY <1>1, Goes, Zenon
<1>3. PICK n : /\ Move(c, n) /\ n \in CallType /\ n.pc = p /\ n.at = x.at /\ n.told = x.told
               /\ n.issued = x.issued /\ n.res = x.res /\ n.gen = x.gen /\ n.adapter = x.adapter
  BY <1>2, Zenon
<1> DEFINE r == Row(c)
           k == Key(c)
<1>4. x.pc \in {"next", "ready", "fence"} /\ x.at <= Len(r.acts) /\ x.gen \notin failed
      /\ (p = "attempt" => runtime.gen = x.gen) /\ CallOn(x, r, k)
  BY <1>2, Zenon
<1> HIDE DEF x, r, k
<1>5. Progress(n, r, k)
  BY <1>3, <1>4, Zenon DEF CallOn, Progress, Acting
<1>6. CallOn(n, r, k)
  BY <1>3, <1>4, <1>5, Zenon DEF CallOn, Busy, Acting, Ready
<1>7. n.pc \in Busy /\ x.pc \in Busy
  BY <1>3, <1>4, Zenon DEF Busy
<1> QED BY <1>3, <1>6, <1>7, GoesOn, Zenon DEF x, r, k

\* The delivery goes on to its next action, or is finalized.
LEMMA NextStep == ASSUME DlvInv, NEW c \in Call, NextAction(c) PROVE DlvInv'
<1> DEFINE x == call[c]
           r == Row(c)
           k == Key(c)
<1>1. x \in CallType /\ CallOn(x, r, k) /\ r.acts \in Seq(ActStatus)
  BY AtWork, Zenon
<1>2. x.pc = "next" /\ EnvKept /\ WireKept
  BY Zenon DEF NextAction
<1>3. CASE x.at > Len(r.acts)
  <2>1. Goto(c, "final") /\ RowsKept
    BY <1>3, Zenon DEF NextAction
  <2>2. "final" \in CallPcs
    BY Zenon DEF CallPcs, Busy
  <2>3. PICK n : /\ Move(c, n) /\ n \in CallType /\ n.pc = "final" /\ n.at = x.at /\ n.told = x.told
                 /\ n.issued = x.issued /\ n.res = x.res /\ n.gen = x.gen /\ n.adapter = x.adapter
    BY <2>1, <2>2, Goes, Zenon
  <2> HIDE DEF x, r, k
  <2>7. ~(x.at <= Len(r.acts))
    BY <1>1, <1>3 DEF CallType
  <2>4. Progress(n, r, k)
    BY <1>1, <1>2, <2>7, <2>3, Zenon DEF CallOn, Progress, Acting
  <2>5. CallOn(n, r, k)
    BY <1>1, <1>2, <2>3, <2>4, Zenon DEF CallOn, Busy, Acting, Ready
  <2>6. n.pc \in Busy /\ x.pc \in Busy
    BY <1>2, <2>3, Zenon DEF Busy
  <2> QED BY <1>2, <2>1, <2>3, <2>5, <2>6, GoesOn, Zenon DEF x, r, k
<1>4. CASE ~(x.at > Len(r.acts))
  <2>1. x.at <= Len(r.acts)
    BY <1>1, <1>4 DEF CallType
  <2>2. CASE Fenced(c)
    BY <1>2, <1>4, <2>1, <2>2, FailsUnissued, Zenon DEF NextAction
  <2>3. CASE ~Fenced(c)
    BY <1>2, <1>4, <2>1, <2>3, Advances, Zenon DEF NextAction, Fenced
  <2> QED BY <2>2, <2>3, Zenon
<1> QED BY <1>3, <1>4, Zenon

\* An adapter prepares an action, and the fence is read before it is issued.
LEMMA WayToIssue ==
  ASSUME DlvInv, NEW c \in Call, DiscordPrepares(c) \/ DingTalkPrepares(c) \/ IssueFence(c)
  PROVE  DlvInv'
<1>1. call[c].pc \in {"ready", "fence"} /\ EnvKept /\ WireKept
  BY Zenon DEF DiscordPrepares, DingTalkPrepares, IssueFence
<1>2. CallOn(call[c], Row(c), Key(c))
  BY AtWork, Zenon
<1>3. call[c].at <= Len(Row(c).acts) /\ call[c].gen \notin failed
  BY <1>1, <1>2, Zenon DEF CallOn, Progress, Ready
<1>4. \/ FailUnissued(c)
      \/ RowsKept /\ Goto(c, "fence")
      \/ RowsKept /\ Goto(c, "attempt") /\ runtime.gen = call[c].gen
  BY Zenon DEF DiscordPrepares, DingTalkPrepares, IssueFence, TargetCurrent
<1>5. CASE FailUnissued(c)
  BY <1>1, <1>3, <1>5, FailsUnissued, Zenon DEF Ready
<1>6. CASE RowsKept /\ Goto(c, "fence")
  BY <1>1, <1>3, <1>6, Advances, Zenon
<1>7. CASE RowsKept /\ Goto(c, "attempt") /\ runtime.gen = call[c].gen
  BY <1>1, <1>3, <1>7, Advances, Zenon
<1> QED BY <1>4, <1>5, <1>6, <1>7, Zenon

\* The current action of an orderly delivery gets a status.
LEMMA Recorded ==
  ASSUME NEW a \in Seq(ActStatus), NEW i \in 1 .. Len(a), NEW v \in ActStatus, NEW k \in Keys,
         Honest(k, a), Orderly(a), a[i] \in Open,
         \A j \in 1 .. Len(a) : j < i => a[j] = "sent",
         v \notin {"prepared", "skipped"},
         v = "sent" => <<k, i>> \in shown, v = "failed" => ~Out(k, i)
  PROVE  LET b == [a EXCEPT ![i] = v] IN
         /\ b \in Seq(ActStatus) /\ Len(b) = Len(a) /\ b[i] = v
         /\ \A j \in 1 .. Len(a) : j # i => b[j] = a[j]
         /\ Honest(k, b) /\ Orderly(b)
<1> DEFINE b == [a EXCEPT ![i] = v]
<1>1. /\ b \in Seq(ActStatus) /\ Len(b) = Len(a) /\ b[i] = v
      /\ \A j \in 1 .. Len(a) : j # i => b[j] = a[j]
  OBVIOUS
<1> HIDE DEF b
<1>2. Len(b) <= MaxActions
  BY <1>1, Zenon DEF Honest
<1>3. ASSUME NEW j \in 1 .. MaxActions, issues[k][j] # 0
      PROVE  j <= Len(b) /\ b[j] \notin {"prepared", "skipped"}
  <2>1. j <= Len(a) /\ a[j] \notin {"prepared", "skipped"}
    BY <1>3, Zenon DEF Honest
  <2> QED BY <1>1, <2>1
<1>4. ASSUME NEW j \in 1 .. Len(b)
      PROVE  (b[j] = "sent" => <<k, j>> \in shown) /\ (b[j] = "failed" => ~Out(k, j))
  BY <1>1, <1>4, Zenon DEF Honest
<1>5. Honest(k, b)
  BY <1>2, <1>3, <1>4, Zenon DEF Honest
<1>6. Orderly(b)
  <2> SUFFICES ASSUME NEW j \in 1 .. Len(a), NEW m \in 1 .. Len(a), j < m, b[j] # "sent"
               PROVE  b[m] = "prepared"
    BY <1>1, Zenon DEF Orderly
  <2>1. CASE j < i
    BY <1>1, <2>1
  <2>2. CASE j = i
    BY <1>1, <2>2, Zenon DEF Orderly, Open
  <2>3. CASE j > i
    <3>1. a[i] # "sent" /\ b[j] = a[j] /\ a[j] = "prepared"
      BY <1>1, <2>3, Zenon DEF Orderly, Open
    <3> QED BY <1>1, <2>3, <3>1, Zenon DEF Orderly
  <2> QED BY <2>1, <2>2, <2>3
<1> QED BY <1>1, <1>5, <1>6, Zenon DEF b

\* _mark_attempting
LEMMA AttemptStep == ASSUME DlvInv, NEW c \in Call, MarkAttempting(c) PROVE DlvInv'
<1> DEFINE x == call[c]
           q == Row(c)
           k == Key(c)
           b == [q.acts EXCEPT ![x.at] = "attempting"]
           r == [q EXCEPT !.status = "attempting", !.acts[x.at] = "attempting"]
<1>1. /\ x \in CallType /\ CallOn(x, q, k) /\ q.acts \in Seq(ActStatus) /\ q \in RowType
      /\ k \in Keys /\ WireOK /\ Honest(k, q.acts) /\ q.status \in Open /\ Orderly(q.acts)
  BY AtWork, Zenon DEF MarkAttempting, Busy
<1>2. x.pc = "attempt" /\ EnvKept /\ WireKept /\ Store(c, r) /\ Goto(c, "lookup")
  BY Zenon DEF MarkAttempting
<1>3. "lookup" \in CallPcs
  BY Zenon DEF CallPcs, Busy
<1>4. PICK n : /\ Move(c, n) /\ n \in CallType /\ n.pc = "lookup" /\ n.at = x.at /\ n.told = x.told
               /\ n.issued = x.issued /\ n.res = x.res /\ n.gen = x.gen /\ n.adapter = x.adapter
  BY <1>2, <1>3, Goes, Zenon
<1> HIDE DEF x, q, k
<1>5. /\ x.at \in 1 .. Len(q.acts) /\ q.acts[x.at] = "prepared"
      /\ \A j \in 1 .. Len(q.acts) : j < x.at => q.acts[j] = "sent"
  BY <1>1, <1>2 DEF CallOn, Progress, CallType, Acting
<1>6. /\ b \in Seq(ActStatus) /\ Len(b) = Len(q.acts) /\ b[x.at] = "attempting"
      /\ \A j \in 1 .. Len(q.acts) : j # x.at => b[j] = q.acts[j]
      /\ Honest(k, b) /\ Orderly(b)
  BY <1>1, <1>5, Recorded, Zenon DEF Open, ActStatus
<1>7. r = [q EXCEPT !.status = "attempting", !.acts = b]
  BY <1>1, Zenon DEF RowType
<1> HIDE DEF b
<1>8. r \in RowType /\ r.status = "attempting" /\ r.acts = b /\ r.gen = q.gen
  BY <1>1, <1>6, <1>7, Zenon DEF RowType, Open
<1> HIDE DEF r
<1>9. issues[k][x.at] = 0
  BY <1>1, <1>5, Unissued
<1>10. Progress(n, r, k)
  BY <1>1, <1>4, <1>5, <1>6, <1>8 DEF Progress
<1>11. CallOn(n, r, k)
  BY <1>1, <1>2, <1>4, <1>8, <1>9, <1>10, Zenon DEF CallOn, Busy, Acting, Ready, Open
<1>12. n.pc \in Busy /\ x.pc \in Busy /\ x.pc \notin {"idle", "done"} /\ n.pc # "idle"
  BY <1>2, <1>4, Zenon DEF Busy
<1>13. r.status # "none" /\ Honest(k, r.acts) /\ Orderly(r.acts)
  BY <1>6, <1>8, Zenon
<1> QED BY <1>2, <1>4, <1>8, <1>11, <1>12, <1>13, RowStep DEF x, k

\* execute_action returns, or its time is up.
LEMMA AnswerStep ==
  ASSUME DlvInv, NEW c \in Call, Answered(c) \/ AnswerLost(c) \/ ActionTimeout(c)
  PROVE  DlvInv'
<1> DEFINE x == call[c]
           q == Row(c)
           k == Key(c)
<1>1. x \in CallType /\ CallOn(x, q, k) /\ EnvKept /\ WireKept
  BY AtWork, Zenon DEF Answered, AnswerLost, ActionTimeout
<1>2. ASSUME NEW v \in {"sent", "failed", "unknown"}, x.pc = "sent", RowsKept,
             Move(c, [x EXCEPT !.pc = "record", !.result = v]),
             v = "sent" => <<k, x.at>> \in shown, v = "failed" => ~Out(k, x.at)
      PROVE  DlvInv'
  <2> DEFINE n == [x EXCEPT !.pc = "record", !.result = v]
  <2>1. Move(c, n)
    BY <1>2, Zenon
  <2> HIDE DEF x, q, k
  <2>2. /\ n \in CallType /\ n.pc = "record" /\ n.at = x.at /\ n.told = x.told /\ n.result = v
        /\ n.issued = x.issued /\ n.res = x.res /\ n.gen = x.gen /\ n.adapter = x.adapter
    BY <1>1, Zenon DEF CallType, CallPcs, Busy
  <2> HIDE DEF n
  <2>3. Progress(n, q, k)
    BY <1>1, <1>2, <2>2, Zenon DEF CallOn, Progress, Acting
  <2>4. CallOn(n, q, k)
    BY <1>1, <1>2, <2>2, <2>3, Zenon DEF CallOn, Busy, Acting, Ready
  <2>5. n.pc \in Busy /\ x.pc \in Busy
    BY <1>2, <2>2, Zenon DEF Busy
  <2> QED BY <1>1, <1>2, <2>1, <2>2, <2>4, <2>5, GoesOn, Zenon DEF x, q, k
<1>3. CASE Answered(c)
  BY <1>2, <1>3, Zenon DEF Answered, Out
<1>4. CASE AnswerLost(c)
  BY <1>2, <1>4, Zenon DEF AnswerLost
<1>5. CASE ActionTimeout(c)
  <2>1. CASE x.issued
    <3>1. x.pc = "sent"
      BY <1>1, <1>5, <2>1, Zenon DEF CallOn, ActionTimeout
    <3> QED BY <1>2, <1>5, <2>1, <3>1, Zenon DEF ActionTimeout
  <2>2. CASE ~x.issued
    <3>1. x.pc \in Ready /\ FailUnissued(c)
      BY <1>1, <1>5, <2>2, Zenon DEF CallOn, ActionTimeout, Ready
    <3>2. x.at <= Len(q.acts)
      BY <1>1, <3>1, Zenon DEF CallOn, Progress, Ready
    <3> QED BY <1>1, <3>1, <3>2, FailsUnissued, Zenon
  <2> QED BY <2>1, <2>2, Zenon
<1> QED BY <1>3, <1>4, <1>5, Zenon

\* _mark_result
LEMMA ResultStep == ASSUME DlvInv, NEW c \in Call, MarkResult(c) PROVE DlvInv'
<1> DEFINE x == call[c]
           q == Row(c)
           k == Key(c)
           v == x.result
           p == IF v = "sent" THEN "next" ELSE "final"
           a == IF v = "sent" THEN x.at + 1 ELSE x.at
           b == [q.acts EXCEPT ![x.at] = v]
           r == [q EXCEPT !.acts[x.at] = v]
           n == [x EXCEPT !.issued = FALSE, !.result = "none", !.pc = p, !.at = a]
<1>1. /\ x \in CallType /\ CallOn(x, q, k) /\ q.acts \in Seq(ActStatus) /\ q \in RowType
      /\ k \in Keys /\ WireOK /\ Honest(k, q.acts) /\ q.status \in Open /\ Orderly(q.acts)
  BY AtWork, Zenon DEF MarkResult, Busy
<1>2. x.pc = "record" /\ EnvKept /\ WireKept /\ Store(c, r) /\ Move(c, n)
  BY Zenon DEF MarkResult
<1> HIDE DEF x, q, k
<1>3. /\ v \in {"sent", "failed", "unknown"} /\ (v = "sent" => <<k, x.at>> \in shown)
      /\ (v = "failed" => ~Out(k, x.at))
  BY <1>1, <1>2, Zenon DEF CallOn, CallType
<1>4. /\ x.at \in 1 .. Len(q.acts) /\ q.acts[x.at] = "attempting"
      /\ \A j \in 1 .. Len(q.acts) : j < x.at => q.acts[j] = "sent"
  BY <1>1, <1>2 DEF CallOn, Progress, CallType, Acting
<1> HIDE DEF v
<1>5. /\ b \in Seq(ActStatus) /\ Len(b) = Len(q.acts) /\ b[x.at] = v
      /\ \A j \in 1 .. Len(q.acts) : j # x.at => b[j] = q.acts[j]
      /\ Honest(k, b) /\ Orderly(b)
  <2>1. v \in ActStatus /\ v \notin {"prepared", "skipped"} /\ q.acts[x.at] \in Open
    BY <1>3, <1>4, Zenon DEF Open, ActStatus
  <2> QED BY <1>1, <1>3, <1>4, <2>1, Recorded, Zenon
<1>6. r = [q EXCEPT !.acts = b]
  BY <1>1, Zenon DEF RowType
<1> HIDE DEF b
<1>7. r \in RowType /\ r.status = q.status /\ r.acts = b /\ r.gen = q.gen
  BY <1>1, <1>5, <1>6, Zenon DEF RowType, Open
<1> HIDE DEF r
<1>8. /\ a \in Nat \ {0} /\ p \in {"next", "final"} /\ (p = "next" <=> v = "sent")
      /\ (v = "sent" => a = x.at + 1) /\ (v # "sent" => a = x.at)
  BY <1>4
<1> HIDE DEF p, a
<1>9. /\ n \in CallType /\ n.pc = p /\ n.at = a /\ n.told = x.told /\ n.issued = FALSE
      /\ n.res = x.res /\ n.gen = x.gen /\ n.adapter = x.adapter
  BY <1>1, <1>8, Zenon DEF CallType, CallPcs, Busy
<1> HIDE DEF n
<1>10. Progress(n, r, k)
  <2>1. \A j \in 1 .. Len(b) : j < a => b[j] = "sent"
    BY <1>3, <1>4, <1>5, <1>8
  <2>2. a <= Len(b) + 1
    BY <1>1, <1>4, <1>5, <1>8
  <2>3. p = "next" /\ a <= Len(b) => b[a] = "prepared"
    <3> SUFFICES ASSUME p = "next", a <= Len(b) PROVE b[a] = "prepared"
      BY Zenon
    <3>1. a = x.at + 1 /\ a \in 1 .. Len(q.acts)
      BY <1>1, <1>4, <1>5, <1>8
    <3>2. q.acts[a] = "prepared"
      BY <1>1, <1>4, <3>1 DEF Orderly
    <3> QED BY <1>4, <1>5, <3>1, <3>2, Zenon
  <2>4. p = "final" => b[a] \in {"failed", "unknown"}
    BY <1>3, <1>5, <1>8, Zenon
  <2> QED BY <1>7, <1>8, <1>9, <2>1, <2>2, <2>3, <2>4, Zenon DEF Progress
<1>11. CallOn(n, r, k)
  BY <1>1, <1>2, <1>7, <1>8, <1>9, <1>10 DEF CallOn, Busy, Acting, Ready, Open
<1>12. n.pc \in Busy /\ x.pc \in Busy /\ x.pc \notin {"idle", "done"} /\ n.pc # "idle"
  BY <1>2, <1>8, <1>9, Zenon DEF Busy
<1>13. r.status # "none" /\ Honest(k, r.acts) /\ Orderly(r.acts)
  BY <1>1, <1>5, <1>7, Zenon DEF Open
<1> QED BY <1>2, <1>7, <1>9, <1>11, <1>12, <1>13, RowStep DEF x, k

\* The delivery ends: by _finalize, by a commit that fails, by a cancellation
\* or because it takes too long.
LEMMA EndStep ==
  ASSUME DlvInv, NEW c \in Call, Finalize(c) \/ CommitFails(c) \/ CancelCall(c) \/ LogicalTimeout(c)
  PROVE  DlvInv'
<1> DEFINE q == Row(c)
           k == Key(c)
<1>1. /\ call[c] \in CallType /\ CallOn(call[c], q, k) /\ q.acts \in Seq(ActStatus) /\ q \in RowType
      /\ k \in Keys /\ WireOK /\ Honest(k, q.acts) /\ EnvKept /\ WireKept
      /\ (call[c].pc \in Busy \ {"prepare"} => q.status \in Open /\ Orderly(q.acts))
  BY AtWork, Zenon DEF Finalize, CommitFails, CancelCall, LogicalTimeout
<1>2. CASE Finalize(c)
  <2>1. call[c].pc = "final" /\ ReturnRow(c, Finalized(q))
    BY <1>2, Zenon DEF Finalize
  <2>2. call[c].pc \in Busy /\ q.status \in Open /\ Orderly(q.acts)
    BY <1>1, <2>1, Zenon DEF Busy
  <2>3. RowEnds(k, q, Finalized(q))
    BY <1>1, <2>2, FinalizedHonest, Zenon
  <2> QED BY <1>1, <2>1, <2>2, <2>3, ReturnEnds, Zenon
<1>3. CASE CommitFails(c)
  <2>1. CASE call[c].pc = "install"
    <3>1. ReturnRow(c, FailedBare(q))
      BY <1>3, <2>1, ZenonT(60) DEF CommitFails
    <3> QED BY <1>1, <2>1, <3>1, BareHonest, ReturnEnds, Zenon DEF Busy
  <2>2. CASE call[c].pc # "install"
    <3> DEFINE n == Ended(c, "raised")
    <3>1. call[c].pc \in Busy /\ Move(c, n) /\ RowsKept
      BY <1>3, <2>2, Zenon DEF CommitFails, Busy
    <3>2. CallOn(n, q, k) /\ n.pc = "done" /\ n.told = call[c].told /\ n.res = "raised"
      BY EndedIs, Zenon
    <3>3. Store(c, q) /\ q \in RowType /\ RowOK(k, q)
      BY <3>1, KeptRow, Zenon
    <3> HIDE DEF n
    <3>4. /\ Honest(k, q.acts) /\ (q.status = "none" => q.acts = <<>>)
          /\ (q.status \in Open => Orderly(q.acts))
      BY <3>3, Zenon DEF RowOK
    <3>5. call[c].pc \notin {"idle", "done"} /\ n.pc # "idle"
      BY <3>1, <3>2, Zenon DEF Busy
    <3> QED BY <1>1, <3>1, <3>2, <3>3, <3>4, <3>5, RowStep
  <2> QED BY <2>1, <2>2, Zenon
<1>4. CASE CancelCall(c)
  <2>1. CASE call[c].pc \notin Busy
    BY <1>1, <1>4, <2>1, QuietEnd, Zenon DEF CancelCall
  <2>2. CASE call[c].pc \in Busy /\ q.status = "none"
    <3> DEFINE r == FailedBare([NoRow EXCEPT !.gen = call[c].gen])
    <3>1. Store(c, r) /\ Move(c, Ended(c, "cancelled"))
      BY <1>4, <2>2, Zenon DEF CancelCall
    <3>2. call[c].gen \in Nat
      BY <1>1, Zenon DEF CallType
    <3>3. r = Bare("failed", call[c].gen)
      BY Zenon DEF FailedBare, NoRow, Bare
    <3> HIDE DEF r
    <3>4. r \in RowType /\ r.status = "failed" /\ r.acts = <<>> /\ r.gen = call[c].gen
      BY <3>2, <3>3, FreshRow DEF TerminalRows
    <3>5. q.acts = <<>>
      BY <2>2, AtWork, Zenon DEF RowOK
    <3>6. RowEnds(k, r, r)
      BY <1>1, <3>4, <3>5, Zenon DEF RowEnds, TerminalRows
    <3> QED BY <1>1, <2>2, <3>1, <3>6, CallEnds, Zenon DEF Busy
  <2>3. CASE call[c].pc \in Busy /\ q.status # "none"
    <3>1. Store(c, Settle(c)) /\ Move(c, Ended(c, "cancelled"))
      BY <1>4, <2>3, Zenon DEF CancelCall
    <3>2. call[c].pc # "prepare"
      BY <1>1, <2>3, Zenon DEF CallOn
    <3>3. RowEnds(k, q, Settle(c))
      BY <2>3, <3>2, SettleHonest, Zenon
    <3> DEFINE r == Settle(c)
    <3> HIDE DEF r
    <3>4. Store(c, r) /\ RowEnds(k, q, r)
      BY <3>1, <3>3, Zenon DEF r
    <3> QED BY <1>1, <2>3, <3>1, <3>4, CallEnds, Zenon DEF Busy
  <2> QED BY <2>1, <2>2, <2>3, Zenon
<1>5. CASE LogicalTimeout(c)
  <2>1. call[c].pc \in Busy \ {"prepare"} /\ ReturnRow(c, Settle(c))
    BY <1>5, Zenon DEF LogicalTimeout
  <2>2. RowEnds(k, q, Settle(c))
    BY <2>1, SettleHonest, Zenon
  <2> DEFINE r == Settle(c)
  <2> HIDE DEF r
  <2>3. ReturnRow(c, r) /\ RowEnds(k, q, r)
    BY <2>1, <2>2, Zenon DEF r
  <2> QED BY <1>1, <2>1, <2>3, ReturnEnds, Zenon DEF Busy
<1> QED BY <1>2, <1>3, <1>4, <1>5, Zenon

\* on_issued is called and the request goes out.
LEMMA IssueStep == ASSUME DlvInv, NEW c \in Call, Issue(c) PROVE DlvInv'
<1> DEFINE x == call[c]
           q == Row(c)
           k == Key(c)
           n == [x EXCEPT !.pc = "sent", !.issued = TRUE, !.told = TRUE]
<1>1. /\ x \in CallType /\ CallOn(x, q, k) /\ q.acts \in Seq(ActStatus) /\ k \in Keys /\ WireOK
      /\ row \in [Keys -> RowType] /\ call \in [Call -> CallType] /\ q = row[k]
  BY AtWork, Zenon DEF DlvInv, CallsOK, Row
<1>2. x.pc = "lookup" /\ EnvKept
  BY Zenon DEF Issue
<1>3. /\ x.at \in 1 .. Len(q.acts) /\ q.acts[x.at] = "attempting" /\ issues[k][x.at] = 0
      /\ Honest(k, q.acts) /\ x.at \in 1 .. MaxActions
  <2>1. Honest(k, q.acts)
    BY AtWork, Zenon
  <2>2. x.at \in 1 .. Len(q.acts) /\ q.acts[x.at] = "attempting" /\ issues[k][x.at] = 0
    BY <1>1, <1>2 DEF CallOn, Progress, CallType
  <2> QED BY <1>1, <2>1, <2>2, DeliveryAssumption DEF Honest
<1>4. CASE ~(Adapter = x.adapter)
  <2>1. FailUnissued(c) /\ WireKept
    BY <1>4, Zenon DEF Issue
  <2> QED BY <1>2, <1>3, <2>1, FailsUnissued DEF Ready
<1>5. CASE Adapter = x.adapter
  <2>1. /\ call' = [call EXCEPT ![c] = n]
        /\ issues' = [issues EXCEPT ![k][x.at] = @ + 1] /\ flight' = flight \cup {<<k, x.at>>}
        /\ UNCHANGED <<row, failed, shown, platform, text, config, runtime, chanUp, rebinds>>
    BY <1>5, Zenon DEF Issue, Move, RowsKept, EnvKept
  <2>2. /\ n \in CallType /\ n.pc = "sent" /\ n.at = x.at /\ n.told /\ n.issued = TRUE
        /\ n.res = x.res /\ n.gen = x.gen /\ n.adapter = x.adapter
    BY <1>1, Zenon DEF CallType, CallPcs, Busy
  <2>16. \A d \in Call \ {c} : call[d].pc \notin Busy
    BY <1>2, Alone, Zenon DEF Busy
  <2>17. chanUp
    BY <1>2, Zenon DEF DlvInv, CallsOK
  <2>18. q.status \in Open /\ x.res = "none" /\ x.adapter \in 1 .. runtime.id /\ q.gen = x.gen
    BY <1>1, <1>2, Zenon DEF CallOn, Busy, Acting
  <2>19. \A l \in Keys : RowOK(l, row[l])
    BY Zenon DEF DlvInv
  <2> HIDE DEF x, k, q, n
  <2>3. /\ call'[c] = n /\ \A d \in Call \ {c} : call'[d] = call[d]
        /\ call' \in [Call -> CallType]
    BY <1>1, <2>1, <2>2, Zenon
  <2>4. /\ issues' \in [Keys -> [1 .. MaxActions -> Nat]] /\ issues'[k][x.at] = 1
        /\ \A l \in Keys, i \in 1 .. MaxActions : <<l, i>> # <<k, x.at>> => issues'[l][i] = issues[l][i]
    <3>1. issues' = [issues EXCEPT ![k] = [issues[k] EXCEPT ![x.at] = 1]]
      BY <1>1, <1>3, <2>1 DEF WireOK
    <3>2. issues[k] \in [1 .. MaxActions -> Nat]
      BY <1>1, Zenon DEF WireOK
    <3>3. issues'[k] = [issues[k] EXCEPT ![x.at] = 1] /\ \A l \in Keys \ {k} : issues'[l] = issues[l]
      BY <1>1, <3>1, Zenon DEF WireOK
    <3>4. issues' \in [Keys -> [1 .. MaxActions -> Nat]]
      BY <1>1, <1>3, <3>1, <3>2, Zenon DEF WireOK
    <3> QED BY <1>3, <3>2, <3>3, <3>4, Zenon
  <2>5. \A l \in Keys, i \in 1 .. MaxActions : Out(l, i)' => Out(l, i) \/ <<l, i>> = <<k, x.at>>
    BY <2>1, Zenon DEF Out
  <2>6. WireOK'
    BY <1>1, <2>4, <2>5 DEF WireOK
  <2>7. ASSUME NEW l \in Keys PROVE Honest(l, row[l].acts)'
    <3>1. Honest(l, row[l].acts) /\ row[l].acts \in Seq(ActStatus)
      BY <1>1, <2>19, Zenon DEF RowOK, RowType
    <3> DEFINE a == row[l].acts
    <3>2. row' = row
      BY <2>1, Zenon
    <3>3. l = k => a = q.acts
      BY <1>1, Zenon
    <3>4. Len(a) <= MaxActions /\ Len(a) \in Nat /\ Honest(l, a)
      BY <3>1 DEF Honest
    <3> HIDE DEF a
    <3>5. ASSUME NEW i \in 1 .. MaxActions, issues'[l][i] # 0
          PROVE  i <= Len(a) /\ a[i] \notin {"prepared", "skipped"}
      <4>1. CASE l = k /\ i = x.at
        BY <1>3, <3>3, <4>1
      <4>2. CASE ~(l = k /\ i = x.at)
        BY <2>4, <3>4, <3>5, <4>2, Zenon DEF Honest
      <4> QED BY <4>1, <4>2, Zenon
    <3>6. ASSUME NEW i \in 1 .. Len(a)
          PROVE  (a[i] = "sent" => <<l, i>> \in shown') /\ (a[i] = "failed" => ~Out(l, i)')
      <4>1. (a[i] = "sent" => <<l, i>> \in shown) /\ (a[i] = "failed" => ~Out(l, i))
        BY <3>4, Zenon DEF Honest
      <4>2. i \in 1 .. MaxActions
        BY <3>4, DeliveryAssumption
      <4>3. a[i] = "failed" => <<l, i>> # <<k, x.at>>
        BY <1>3, <3>3, Zenon
      <4> QED BY <2>1, <2>5, <4>1, <4>2, <4>3, Zenon
    <3> QED BY <3>2, <3>4, <3>5, <3>6, Zenon DEF Honest, a
  <2>8. ASSUME NEW l \in Keys PROVE RowOK(l, row[l])'
    BY <2>1, <2>7, <2>19, Zenon DEF RowOK
  <2>9. ASSUME NEW y \in CallType, NEW r, NEW l, y.pc = "sent", y.issued = TRUE, y.res = "none",
               r.status \in Open, r.gen = y.gen, y.adapter \in 1 .. runtime.id, Progress(y, r, l)
        PROVE  CallOn(y, r, l)'
    <3>1. Progress(y, r, l)'
      BY <2>9, Zenon DEF Progress
    <3> QED BY <2>1, <2>9, <3>1, Zenon DEF CallOn, Busy, Acting, Ready
  <2>10. ASSUME NEW d \in Call PROVE CallOn(call[d], row[Key(d)], Key(d))'
    <3>1. CASE d = c
      <4>1. row'[k] = q /\ call'[d] = n
        BY <1>1, <2>1, <2>3, <3>1, Zenon
      <4>2. Progress(x, q, k)
        BY <1>1, Zenon DEF CallOn
      <4>3. Progress(n, q, k)
        BY <1>2, <2>2, <4>2, Zenon DEF Progress, Acting
      <4> QED BY <2>2, <2>9, <2>18, <3>1, <4>1, <4>3, Zenon DEF k, Key
    <3>2. CASE d # c
      <4>1. CallOn(call[d], row[Key(d)], Key(d)) /\ call[d].pc \notin Busy
        BY <2>16, <3>2, Zenon DEF DlvInv, CallsOK
      <4> QED BY <2>3, <3>2, <4>1, Outside, Zenon
    <3> QED BY <3>1, <3>2, Zenon
  <2>11. CallsOK'
    <3>1. \A d, e \in Call : d # e /\ call'[d].pc \in Busy => call'[e].pc \notin Busy
      BY <2>3, <2>16, Zenon
    <3>2. ASSUME NEW d \in Call, call'[d].pc # "idle", NEW b \in Before[d] PROVE call'[b].pc = "done"
      <4>1. call[d].pc # "idle"
        BY <1>2, <2>3, <3>2, Zenon DEF x
      <4>2. call[b].pc = "done"
        BY <3>2, <4>1, Zenon DEF DlvInv, CallsOK
      <4>3. b # c
        BY <1>2, <4>2, Zenon DEF x
      <4> QED BY <1>1, <2>1, <4>2, <4>3
    <3> QED BY <2>1, <2>3, <2>10, <2>17, <3>1, <3>2, Zenon DEF CallsOK, Key
  <2>12. IssueReported'
    <3> SUFFICES ASSUME NEW l \in Keys, NEW i \in 1 .. MaxActions, issues'[l][i] > 0
                 PROVE  \E d \in Call : Key(d) = l /\ call'[d].told
      BY Zenon DEF IssueReported, Key
    <3>1. CASE l = k
      BY <2>2, <2>3, <3>1, Zenon DEF k
    <3>2. CASE l # k
      <4>1. issues[l][i] > 0
        BY <2>4, <3>2, Zenon
      <4>2. PICK d \in Call : Key(d) = l /\ call[d].told
        BY <4>1, Zenon DEF DlvInv, IssueReported
      <4> QED BY <2>3, <3>2, <4>2, Zenon DEF k
    <3> QED BY <3>1, <3>2, Zenon
  <2>13. RowsClosed'
    <3> SUFFICES ASSUME NEW l \in Keys, row'[l].status \in Open
                 PROVE  \E d \in Call : Key(d) = l /\ (call'[d].pc \in Busy \/ call'[d].res = "raised")
      BY Zenon DEF RowsClosed, Key
    <3>1. PICK d \in Call : Key(d) = l /\ (call[d].pc \in Busy \/ call[d].res = "raised")
      BY <2>1, <2>17, Zenon DEF DlvInv, RowsClosed
    <3>2. n.pc \in Busy
      BY <2>2, Zenon DEF Busy
    <3> QED BY <2>3, <3>1, <3>2, Zenon
  <2> QED BY <2>1, <2>6, <2>8, <2>11, <2>12, <2>13 DEF DlvInv
<1> QED BY <1>4, <1>5, Zenon

\* The platform takes a request or refuses it.
LEMMA PlatformStep ==
  ASSUME DlvInv, NEW req \in flight, PlatformTakes(req) \/ PlatformRefuses(req)
  PROVE  DlvInv'
<1>1. /\ UNCHANGED <<issues, call, row, failed, platform, text, config, runtime, chanUp, rebinds>>
      /\ shown \subseteq shown' /\ (shown \cup flight)' \subseteq shown \cup flight
  BY Zenon DEF PlatformTakes, PlatformRefuses, RowsKept, EnvKept
<1>2. ASSUME NEW l, NEW i PROVE Out(l, i)' => Out(l, i)
  BY <1>1, Zenon DEF Out
<1>3. WireOK'
  BY <1>1, <1>2, Zenon DEF DlvInv, WireOK
<1>4. ASSUME NEW l \in Keys PROVE RowOK(l, row[l])'
  <2>1. RowOK(l, row[l])
    BY Zenon DEF DlvInv
  <2>2. Honest(l, row[l].acts)'
    BY <1>1, <1>2, <2>1, Zenon DEF RowOK, Honest
  <2> QED BY <1>1, <2>1, <2>2, Zenon DEF RowOK
<1>5. ASSUME NEW x, NEW r, NEW k, CallOn(x, r, k) PROVE CallOn(x, r, k)'
  BY <1>1, <1>2, <1>5, Zenon
     DEF CallOn, Progress, ValidPlan, PlanDelivery, DiscordPlan, DingTalkPlan
<1>6. CallsOK'
  BY <1>1, <1>5, Zenon DEF DlvInv, CallsOK, Key
<1>7. IssueReported' /\ RowsClosed'
  BY <1>1 DEF DlvInv, IssueReported, RowsClosed, Key
<1> QED BY <1>1, <1>3, <1>4, <1>6, <1>7, Zenon DEF DlvInv

\* The configuration changes, or the manager replaces or loses the runtime: a
\* new runtime has a number that no call has seen.
LEMMA SurroundingStep ==
  ASSUME DlvInv, Reconfigure \/ RuntimeFollows \/ RuntimeDrops \/ RuntimeReturns
  PROVE  DlvInv'
<1>0. /\ runtime \in [id : Nat \ {0}, gen : Nat, rev : Nat, online : BOOLEAN]
      /\ config \in [gen : Nat, rev : Nat, paired : BOOLEAN]
  BY Zenon DEF DlvInv
<1>1. UNCHANGED <<platform, text, row, failed, flight, shown, issues, call, chanUp>>
  BY Zenon
     DEF Reconfigure, RuntimeFollows, RuntimeDrops, RuntimeReturns, Surroundings, RowsKept, WireKept
<1>2. /\ runtime' \in [id : Nat \ {0}, gen : Nat, rev : Nat, online : BOOLEAN]
      /\ (runtime'.id = runtime.id /\ runtime'.gen = runtime.gen) \/ runtime'.id = runtime.id + 1
  <2>1. CASE runtime' = runtime
    BY <1>0, <2>1, Zenon
  <2>2. CASE runtime' = NewRuntime
    <3> DEFINE i == runtime.id + 1
    <3>1. i \in Nat \ {0} /\ runtime' = [id |-> i, gen |-> config.gen, rev |-> config.rev, online |-> TRUE]
      BY <1>0, <2>2 DEF NewRuntime
    <3> HIDE DEF i
    <3>2. runtime' \in [id : Nat \ {0}, gen : Nat, rev : Nat, online : BOOLEAN] /\ runtime'.id = i
      BY <1>0, <3>1, Zenon
    <3> QED BY <3>2, Zenon DEF i
  <2>3. CASE runtime' = [runtime EXCEPT !.online = FALSE]
    BY <1>0, <2>3, Zenon
  <2>4. CASE runtime' = [runtime EXCEPT !.rev = config.rev]
    BY <1>0, <2>4, Zenon
  <2> QED
    BY <2>1, <2>2, <2>3, <2>4, Zenon DEF Reconfigure, RuntimeFollows, RuntimeDrops, RuntimeReturns
<1>3. config' \in [gen : Nat, rev : Nat, paired : BOOLEAN]
  <2>1. CASE config' = config
    BY <1>0, <2>1, Zenon
  <2>2. CASE config' = [gen |-> config.gen + 1, rev |-> config.rev + 1, paired |-> FALSE]
    BY <1>0, <2>2
  <2>3. CASE config' = [config EXCEPT !.rev = @ + 1]
    <3> DEFINE v == config.rev + 1
    <3>1. v \in Nat /\ config' = [config EXCEPT !.rev = v]
      BY <1>0, <2>3
    <3> HIDE DEF v
    <3> QED BY <1>0, <3>1, Zenon
  <2> QED BY <2>1, <2>2, <2>3, Zenon DEF Reconfigure, RuntimeFollows, RuntimeDrops, RuntimeReturns
<1>4. WireOK' /\ \A k \in Keys : RowOK(k, row[k])'
  BY <1>1, Zenon DEF DlvInv, WireOK, RowOK, Honest, Out
<1>5. ASSUME NEW x, NEW r, NEW k, CallOn(x, r, k) PROVE CallOn(x, r, k)'
  <2>1. x.pc \in {"install"} \cup Acting =>
            /\ x.adapter \in 1 .. runtime'.id
            /\ x.adapter = runtime'.id => x.adapter = runtime.id /\ runtime'.gen = runtime.gen
    BY <1>0, <1>2, <1>5 DEF CallOn
  <2>2. x.pc \in {"attempt", "lookup"} => x.pc \in Acting
    BY Zenon DEF Acting
  <2>3. Progress(x, r, k)'
    BY <1>1, <1>5, Zenon DEF CallOn, Progress, ValidPlan, PlanDelivery, DiscordPlan, DingTalkPlan
  <2> QED BY <1>1, <1>5, <2>1, <2>2, <2>3, Zenon DEF CallOn, Out
<1>6. CallsOK'
  BY <1>1, <1>5, Zenon DEF DlvInv, CallsOK, Key
<1>7. IssueReported' /\ RowsClosed'
  BY <1>1 DEF DlvInv, IssueReported, RowsClosed, Key
<1> QED BY <1>1, <1>2, <1>3, <1>4, <1>6, <1>7, Zenon DEF DlvInv

\* The server stops in the middle of whatever it does.
LEMMA DieStep == ASSUME DlvInv, ServerDies PROVE DlvInv'
<1>1. /\ UNCHANGED <<platform, text, config, row, failed, flight, shown, issues>> /\ chanUp' = FALSE
      /\ runtime' = [runtime EXCEPT !.online = FALSE]
      /\ call' = [c \in Call |-> IF call[c].pc = "idle" THEN call[c] ELSE Ended(c, "lost")]
  BY Zenon DEF ServerDies, RowsKept, WireKept
<1>2. runtime' \in [id : Nat \ {0}, gen : Nat, rev : Nat, online : BOOLEAN]
  BY <1>1, Zenon DEF DlvInv
<1>3. WireOK' /\ \A k \in Keys : RowOK(k, row[k])'
  BY <1>1, Zenon DEF DlvInv, WireOK, RowOK, Honest, Out
<1>4. ASSUME NEW c \in Call
      PROVE  /\ call'[c].pc \in {"idle", "done"} /\ (call[c].pc # "idle" => call'[c].pc = "done")
             /\ call'[c].told = call[c].told /\ (call'[c].pc = "idle" <=> call[c].pc = "idle")
             /\ CallOn(call'[c], row[Key(c)], Key(c))
  <2>1. CASE call[c].pc = "idle"
    BY <1>1, <2>1, Zenon DEF DlvInv, CallsOK
  <2>2. CASE call[c].pc # "idle"
    <3> DEFINE n == Ended(c, "lost")
    <3>1. CallOn(n, row[Key(c)], Key(c)) /\ n.pc = "done" /\ n.told = call[c].told
      BY EndedIs, Zenon
    <3>2. call'[c] = n
      BY <1>1, <2>2, Zenon
    <3> HIDE DEF n
    <3> QED BY <2>2, <3>1, <3>2, Zenon
  <2> QED BY <2>1, <2>2, Zenon
<1>5. ASSUME NEW c \in Call PROVE CallOn(call[c], row[Key(c)], Key(c))' /\ call'[c] \in CallType
  <2>1. call'[c].pc \notin Busy /\ CallOn(call'[c], row[Key(c)], Key(c))
    BY <1>4, Zenon DEF Busy
  <2>2. ASSUME NEW x, NEW r, NEW k, CallOn(x, r, k), x.pc \notin Busy, NEW q, NEW l PROVE CallOn(x, q, l)'
    BY <2>2, Outside, Zenon
  <2> QED BY <2>1, <2>2, Zenon DEF CallOn
<1>6. CallsOK'
  <2>1. \A c \in Call : call'[c].pc \in {"idle", "done"} /\ call'[c].pc \notin Busy
    BY <1>4, Zenon DEF Busy
  <2>2. ASSUME NEW c \in Call, call'[c].pc # "idle", NEW b \in Before[c] PROVE call'[b].pc = "done"
    <3>1. call[b].pc = "done"
      BY <1>4, <2>2, Zenon DEF DlvInv, CallsOK
    <3>2. b \in Call
      BY <2>2, DeliveryAssumption, Zenon
    <3> QED BY <1>4, <3>1, <3>2, Zenon
  <2>3. call' \in [Call -> CallType]
    BY <1>1, <1>5, Zenon
  <2> QED BY <1>5, <2>1, <2>2, <2>3, Zenon DEF CallsOK, Key
<1>7. IssueReported'
  <2> SUFFICES ASSUME NEW l \in Keys, \E i \in 1 .. MaxActions : issues[l][i] > 0
               PROVE  \E d \in Call : Key(d) = l /\ call'[d].told
    BY <1>1, Zenon DEF IssueReported, Key
  <2>1. PICK d \in Call : Key(d) = l /\ call[d].told
    BY Zenon DEF DlvInv, IssueReported
  <2> QED BY <1>4, <2>1, Zenon
<1>8. RowsClosed'
  BY <1>1, Zenon DEF RowsClosed
<1> QED BY <1>1, <1>2, <1>3, <1>6, <1>7, <1>8, Zenon DEF DlvInv

\* repair_incomplete_deliveries at the next start.
LEMMA RestartStep == ASSUME DlvInv, ServerStarts PROVE DlvInv'
<1> DEFINE settled == [k \in Keys |-> IF row[k].status \in Open THEN Repaired(row[k]) ELSE row[k]]
<1>1. /\ UNCHANGED <<platform, text, config, runtime, call, flight, shown, issues>> /\ chanUp' = TRUE
      /\ row' = settled /\ failed' = failed \cup UNION {FailedTarget(settled[k]) : k \in Keys}
      /\ ~chanUp
  BY Zenon DEF ServerStarts, WireKept
<1>2. WireOK /\ WireOK'
  BY <1>1, Zenon DEF DlvInv, WireOK, Out
<1>3. ASSUME NEW k \in Keys
      PROVE  /\ settled[k] \in RowType /\ Honest(k, settled[k].acts) /\ settled[k].status \notin Open
             /\ settled[k].status = "none" => settled[k].acts = <<>>
             /\ settled[k].status \in TerminalRows \ {"sent"} => settled[k].gen \in failed'
  <2>1. RowOK(k, row[k])
    BY Zenon DEF DlvInv
  <2>2. FailedTarget(settled[k]) \subseteq failed'
    BY <1>1, Zenon
  <2>3. CASE row[k].status \in Open
    <3>1. settled[k] = Repaired(row[k])
      BY <2>3, Zenon
    <3>2. RowEnds(k, row[k], Repaired(row[k]))
      BY <1>2, <2>1, <2>3, RepairedHonest, Zenon DEF RowOK
    <3> DEFINE q == settled[k]
    <3>3. RowEnds(k, row[k], q)
      BY <3>1, <3>2, Zenon
    <3> HIDE DEF q
    <3> QED BY <2>2, <3>3, Zenon DEF RowEnds, Open, TerminalRows, FailedTarget, q
  <2>4. CASE row[k].status \notin Open
    BY <2>1, <2>2, <2>4, Zenon DEF RowOK, FailedTarget
  <2> QED BY <2>3, <2>4, Zenon
<1>4. row' \in [Keys -> RowType]
  BY <1>1, <1>3, Zenon
<1>5. ASSUME NEW k \in Keys PROVE RowOK(k, row[k])' /\ row'[k].status \notin Open
  <2>1. ASSUME NEW a, Honest(k, a) PROVE Honest(k, a)'
    BY <1>1, <2>1, Zenon DEF Honest, Out
  <2>2. row'[k] = settled[k]
    BY <1>1, Zenon
  <2> HIDE DEF settled
  <2> QED BY <1>3, <2>1, <2>2, Zenon DEF RowOK
<1>6. ASSUME NEW c \in Call PROVE CallOn(call[c], row[Key(c)], Key(c))'
  <2>1. call[c].pc \notin Busy /\ CallOn(call[c], row[Key(c)], Key(c))
    BY <1>1, Zenon DEF DlvInv, CallsOK, Busy
  <2>2. call'[c] = call[c]
    BY <1>1, Zenon
  <2> QED BY <2>1, <2>2, Outside, Zenon
<1>7. CallsOK'
  BY <1>1, <1>6, Zenon DEF DlvInv, CallsOK, Key
<1>8. IssueReported' /\ RowsClosed'
  BY <1>1, <1>5, Zenon DEF DlvInv, IssueReported, RowsClosed, Key
<1> QED BY <1>1, <1>2, <1>4, <1>5, <1>7, <1>8, Zenon DEF DlvInv

\* Every step keeps the invariant.
LEMMA DeliveryStep == ASSUME DlvInv, [DeliveryNext]_dlvvars PROVE DlvInv'
<1>1. ASSUME NEW c \in Call, Step(c) PROVE DlvInv'
  BY <1>1, BeforeDelivery, LookStep, PrepareStep, PlanStep, InstallStep, NextStep, WayToIssue,
     AttemptStep, IssueStep, AnswerStep, ResultStep, EndStep, Zenon DEF Step
<1>2. ASSUME NEW c \in Call,
             \/ CallTool(c) \/ DeliverFinal(c) \/ ToolExpires(c) \/ AnswerLost(c) \/ CommitFails(c)
             \/ CancelCall(c) \/ LogicalTimeout(c)
      PROVE  DlvInv'
  BY <1>2, BeforeDelivery, AnswerStep, EndStep, Zenon
<1>3. CASE UNCHANGED dlvvars
  <2>1. UNCHANGED <<row, call, issues, shown, flight, failed, runtime, config, chanUp, text, platform>>
    BY <1>3 DEF dlvvars
  <2>2. WireOK'
    BY <2>1 DEF DlvInv, WireOK, Out
  <2>3. ASSUME NEW k \in Keys PROVE RowOK(k, row[k])'
    BY <2>1 DEF DlvInv, RowOK, Honest, Out
  <2>4. ASSUME NEW x, NEW r, NEW k, CallOn(x, r, k) PROVE CallOn(x, r, k)'
    BY <2>1, <2>4 DEF CallOn, Progress, ValidPlan, PlanDelivery, DiscordPlan, DingTalkPlan, Out
  <2>5. CallsOK'
    BY <2>1, <2>4 DEF DlvInv, CallsOK, Key
  <2>6. (IssueReported /\ RowsClosed)'
    BY <2>1 DEF DlvInv, IssueReported, RowsClosed, Key
  <2> QED BY <2>1, <2>2, <2>3, <2>5, <2>6 DEF DlvInv
<1> QED BY <1>1, <1>2, <1>3, PlatformStep, SurroundingStep, DieStep, RestartStep DEF DeliveryNext

\* Nothing is delivered, planned or configured anew at first.
LEMMA DeliveryStart == ASSUME DeliveryInit PROVE DlvInv
<1>1. NoRow \in RowType /\ NoRow.status = "none" /\ NoRow.acts = <<>>
  <2>1. <<>> \in Seq(ActStatus) /\ <<>> \in Seq({"text", "file", "upload"})
    OBVIOUS
  <2> QED BY <2>1, Zenon DEF NoRow, RowType
<1>2. NoCall \in CallType /\ NoCall.pc = "idle" /\ NoCall.res = "none" /\ NoCall.issued = FALSE
  BY DEF NoCall, CallType, CallPcs
<1>3. /\ runtime \in [id : Nat \ {0}, gen : Nat, rev : Nat, online : BOOLEAN]
      /\ config \in [gen : Nat, rev : Nat, paired : BOOLEAN] /\ text \in Texts /\ chanUp = TRUE
      /\ row = [k \in Keys |-> NoRow] /\ call = [c \in Call |-> NoCall] /\ flight = {} /\ shown = {}
      /\ issues = [k \in Keys |-> [i \in 1 .. MaxActions |-> 0]]
  BY DEF DeliveryInit
<1>4. WireOK
  BY <1>3 DEF WireOK, Out
<1>5. ASSUME NEW k \in Keys PROVE RowOK(k, row[k])
  <2>1. Honest(k, <<>>)
    BY <1>3, DeliveryAssumption DEF Honest
  <2>2. row[k] = NoRow
    BY <1>3, Zenon
  <2> QED BY <1>1, <2>1, <2>2, Zenon DEF RowOK, Open, TerminalRows
<1>6. CallsOK
  <2>1. ASSUME NEW r, NEW k PROVE CallOn(NoCall, r, k)
    BY <1>2, Zenon DEF CallOn, Progress, Busy, Acting, Ready
  <2>2. \A c \in Call : call[c] = NoCall
    BY <1>3, Zenon
  <2> QED BY <1>2, <1>3, <2>1, <2>2, Zenon DEF CallsOK, Busy
<1>7. IssueReported /\ RowsClosed
  BY <1>1, <1>3 DEF IssueReported, RowsClosed, Open
<1> QED BY <1>1, <1>3, <1>4, <1>5, <1>6, <1>7, Zenon DEF DlvInv

\* What the invariant says of the ledger.
LEMMA LedgerFollows == DlvInv => LedgerHonest
<1> SUFFICES ASSUME DlvInv PROVE LedgerHonest
  BY Zenon
<1>1. IssuedOnce
  BY Zenon DEF DlvInv, WireOK, IssuedOnce
<1>2. ASSUME NEW k \in Keys, NEW i \in DOMAIN row[k].acts
      PROVE  /\ row[k].acts[i] = "sent" => <<k, i>> \in shown
             /\ row[k].acts[i] \in {"failed", "skipped"} => <<k, i>> \notin shown \cup flight
  <2> DEFINE a == row[k].acts
  <2>1. WireOK /\ Honest(k, a) /\ a \in Seq(ActStatus)
    BY Zenon DEF DlvInv, RowOK, RowType
  <2>2. i \in 1 .. Len(a)
    BY <2>1
  <2> HIDE DEF a
  <2>3. a[i] = "sent" => <<k, i>> \in shown
    BY <2>1, <2>2, Zenon DEF Honest
  <2>4. a[i] = "failed" => ~Out(k, i)
    BY <2>1, <2>2, Zenon DEF Honest
  <2>5. a[i] = "skipped" => ~Out(k, i)
    BY <2>1, <2>2, Unissued
  <2> QED BY <2>3, <2>4, <2>5, Zenon DEF Out, a
<1>3. RowsHonest
  BY <1>2, Zenon DEF RowsHonest
<1> QED BY <1>1, <1>3, Zenon DEF LedgerHonest, DlvInv

DeliverySpec == DeliveryInit /\ [][DeliveryNext]_dlvvars

\* Whatever fails, is lost or is cancelled, for any number of calls, keys and actions and
\* any restarts: a delivery's row never says sent of what the platform does not show, or
\* failed of what it shows or may still take; no action is issued twice; what was issued is
\* told to its caller; and no delivery stays open once its call is over.
THEOREM LedgerIsHonest == DeliverySpec => []LedgerHonest
<1>1. DeliveryInit => DlvInv
  BY DeliveryStart, Zenon
<1>2. DlvInv /\ [DeliveryNext]_dlvvars => DlvInv'
  BY DeliveryStep, Zenon
<1> QED BY <1>1, <1>2, LedgerFollows, PTL DEF DeliverySpec

\* Nothing is issued in this step.
NothingOut == issues' = issues /\ \A d \in Call : call'[d].pc = "sent" => call[d].pc = "sent"

\* A call moves on, and issues nothing.
LEMMA MoveQuiet ==
  ASSUME DlvInv, NEW c \in Call, NEW n, Move(c, n), n.pc # "sent", WireKept
  PROVE  NothingOut
<1>1. call \in [Call -> CallType] /\ call' = [call EXCEPT ![c] = n] /\ issues' = issues
  BY Zenon DEF DlvInv, CallsOK, Move, WireKept
<1> QED BY <1>1, Zenon DEF NothingOut

\* A call goes to another place, and issues nothing.
LEMMA GoQuiet ==
  ASSUME DlvInv, NEW c \in Call, NEW p, p # "sent", Goto(c, p), WireKept
  PROVE  NothingOut
<1> DEFINE n == [call[c] EXCEPT !.pc = p]
<1>1. call[c] \in CallType
  BY Zenon DEF DlvInv, CallsOK
<1>2. n.pc = p /\ Move(c, n)
  BY <1>1, Zenon DEF Goto, CallType
<1> HIDE DEF n
<1> QED BY <1>2, MoveQuiet, Zenon

\* A call ends, and issues nothing.
LEMMA EndQuiet ==
  ASSUME DlvInv, NEW c \in Call, WireKept,
         (\E r : ReturnRow(c, r)) \/ (\E res : Move(c, Ended(c, res))) \/ FailUnissued(c)
  PROVE  NothingOut
<1>1. PICK res : Move(c, Ended(c, res))
  BY Zenon DEF ReturnRow, FailUnissued
<1>2. Ended(c, res).pc # "sent"
  BY Zenon DEF Ended, NoCall
<1> QED BY <1>1, <1>2, MoveQuiet, Zenon

\* Only the second half of mark_issued sends anything.
LEMMA OnlyIssue ==
  ASSUME DlvInv, [DeliveryNext]_dlvvars
  PROVE  NothingOut \/ \E c \in Call : Issue(c) /\ Adapter = call[c].adapter
<1>1. ASSUME NEW c \in Call, Step(c)
      PROVE  NothingOut \/ (Issue(c) /\ Adapter = call[c].adapter)
  <2>0. call[c] \in CallType
    BY Zenon DEF DlvInv, CallsOK
  <2>1. CASE ResolveTarget(c)
    <3> DEFINE n == [call[c] EXCEPT !.pc = IF call[c].media > 0 THEN "refs" ELSE "lock", !.gen = config.gen]
    <3>1. n.pc # "sent"
      BY <2>0, Zenon DEF CallType
    <3>2. (Move(c, n) \/ Move(c, Ended(c, "error"))) /\ WireKept
      BY <2>1, Zenon DEF ResolveTarget
    <3> HIDE DEF n
    <3> QED BY <3>1, <3>2, MoveQuiet, EndQuiet, Zenon
  <2>2. CASE ResolveRefs(c)
    BY <2>2, GoQuiet, EndQuiet, Zenon DEF ResolveRefs
  <2>3. CASE LockAndLook(c)
    <3>1. WireKept /\ (Goto(c, "prepare") \/ \E r : ReturnRow(c, r))
      BY <2>3, AtWork, Zenon DEF LockAndLook, RowType, TerminalRows, Open
    <3> QED BY <3>1, GoQuiet, EndQuiet, Zenon
  <2>4. CASE Prepare(c)
    BY <2>4, GoQuiet, Zenon DEF Prepare
  <2>5. CASE PlanOrFail(c)
    <3> DEFINE n == [call[c] EXCEPT !.pc = "install", !.adapter = Adapter]
    <3>1. n.pc # "sent"
      BY <2>0, Zenon DEF CallType
    <3>2. (Move(c, n) \/ ReturnRow(c, FailedBare(Row(c)))) /\ WireKept
      BY <2>5, Zenon DEF PlanOrFail
    <3> HIDE DEF n
    <3> QED BY <3>1, <3>2, MoveQuiet, EndQuiet, Zenon
  <2>6. CASE InstallPlan(c)
    <3> DEFINE n == [call[c] EXCEPT !.pc = "next", !.at = 1]
    <3>1. n.pc # "sent"
      BY <2>0, Zenon DEF CallType
    <3>2. Move(c, n) /\ WireKept
      BY <2>6, Zenon DEF InstallPlan
    <3> HIDE DEF n
    <3> QED BY <3>1, <3>2, MoveQuiet, Zenon
  <2>7. CASE NextAction(c) \/ DiscordPrepares(c) \/ DingTalkPrepares(c) \/ IssueFence(c)
    <3>1. WireKept /\ (FailUnissued(c) \/ Goto(c, "final") \/ Goto(c, "ready") \/ Goto(c, "fence") \/ Goto(c, "attempt"))
      BY <2>7, Zenon DEF NextAction, DiscordPrepares, DingTalkPrepares, IssueFence
    <3> QED BY <3>1, GoQuiet, EndQuiet, Zenon
  <2>8. CASE MarkAttempting(c)
    BY <2>8, GoQuiet, Zenon DEF MarkAttempting
  <2>9. CASE Issue(c)
    BY <2>9, EndQuiet, Zenon DEF Issue
  <2>10. CASE Answered(c)
    <3>1. PICK v : Move(c, [call[c] EXCEPT !.pc = "record", !.result = v])
      BY <2>10, Zenon DEF Answered
    <3> DEFINE n == [call[c] EXCEPT !.pc = "record", !.result = v]
    <3>2. n.pc # "sent" /\ Move(c, n) /\ WireKept
      BY <2>0, <2>10, <3>1, Zenon DEF CallType, Answered
    <3> HIDE DEF n
    <3> QED BY <3>2, MoveQuiet, Zenon
  <2>11. CASE ActionTimeout(c)
    <3> DEFINE n == [call[c] EXCEPT !.pc = "record", !.result = "unknown"]
    <3>1. n.pc # "sent"
      BY <2>0, Zenon DEF CallType
    <3>2. (Move(c, n) \/ FailUnissued(c)) /\ WireKept
      BY <2>11, Zenon DEF ActionTimeout
    <3> HIDE DEF n
    <3> QED BY <3>1, <3>2, MoveQuiet, EndQuiet, Zenon
  <2>12. CASE MarkResult(c)
    <3> DEFINE p == IF call[c].result = "sent" THEN "next" ELSE "final"
               a == IF call[c].result = "sent" THEN call[c].at + 1 ELSE call[c].at
               n == [call[c] EXCEPT !.issued = FALSE, !.result = "none", !.pc = p, !.at = a]
    <3>1. n.pc # "sent"
      BY <2>0, Zenon DEF CallType
    <3>2. Move(c, n) /\ WireKept
      BY <2>12, Zenon DEF MarkResult
    <3> HIDE DEF n
    <3> QED BY <3>1, <3>2, MoveQuiet, Zenon
  <2>13. CASE Finalize(c)
    BY <2>13, EndQuiet, Zenon DEF Finalize
  <2> QED BY <1>1, <2>1, <2>2, <2>3, <2>4, <2>5, <2>6, <2>7, <2>8, <2>9, <2>10, <2>11, <2>12, <2>13,
             Zenon DEF Step
<1>2. ASSUME NEW c \in Call,
             \/ CallTool(c) \/ DeliverFinal(c) \/ ToolExpires(c) \/ AnswerLost(c) \/ CommitFails(c)
             \/ CancelCall(c) \/ LogicalTimeout(c)
      PROVE  NothingOut
  <2>0. call[c] \in CallType
    BY Zenon DEF DlvInv, CallsOK
  <2>1. CASE CallTool(c)
    <3>1. PICK m : Move(c, [call[c] EXCEPT !.pc = "resolve", !.media = m])
      BY <2>1, Zenon DEF CallTool
    <3> DEFINE n == [call[c] EXCEPT !.pc = "resolve", !.media = m]
    <3>2. n.pc # "sent" /\ Move(c, n) /\ WireKept
      BY <2>0, <2>1, <3>1, Zenon DEF CallType, CallTool
    <3> HIDE DEF n
    <3> QED BY <3>2, MoveQuiet, Zenon
  <2>2. CASE DeliverFinal(c)
    <3> DEFINE n == [call[c] EXCEPT !.pc = "lock", !.gen = 1]
    <3>2. n.pc # "sent" /\ Move(c, n) /\ WireKept
      BY <2>0, <2>2, Zenon DEF CallType, DeliverFinal
    <3> HIDE DEF n
    <3> QED BY <3>2, MoveQuiet, Zenon
  <2>3. CASE AnswerLost(c)
    <3> DEFINE n == [call[c] EXCEPT !.pc = "record", !.result = "unknown"]
    <3>2. n.pc # "sent" /\ Move(c, n) /\ WireKept
      BY <2>0, <2>3, Zenon DEF CallType, AnswerLost
    <3> HIDE DEF n
    <3> QED BY <3>2, MoveQuiet, Zenon
  <2>4. CASE ToolExpires(c) \/ CommitFails(c) \/ CancelCall(c) \/ LogicalTimeout(c)
    <3>1. WireKept /\ ((\E r : ReturnRow(c, r)) \/ \E res : Move(c, Ended(c, res)))
      BY <2>4, Zenon DEF ToolExpires, CommitFails, CancelCall, LogicalTimeout
    <3> QED BY <3>1, EndQuiet, Zenon
  <2> QED BY <1>2, <2>1, <2>2, <2>3, <2>4, Zenon
<1>3. ASSUME \/ UNCHANGED dlvvars
             \/ \E req \in flight : PlatformTakes(req) \/ PlatformRefuses(req)
             \/ Reconfigure \/ RuntimeFollows \/ RuntimeDrops \/ RuntimeReturns \/ ServerStarts
      PROVE  NothingOut
  BY <1>3, Zenon
     DEF dlvvars, NothingOut, PlatformTakes, PlatformRefuses, Reconfigure, RuntimeFollows,
     RuntimeDrops, RuntimeReturns, Surroundings, WireKept, ServerStarts
<1>4. ASSUME ServerDies PROVE NothingOut
  <2>1. /\ issues' = issues
        /\ call' = [c \in Call |-> IF call[c].pc = "idle" THEN call[c] ELSE Ended(c, "lost")]
    BY <1>4, Zenon DEF ServerDies, WireKept
  <2>2. \A c \in Call : Ended(c, "lost").pc = "done"
    BY Zenon DEF Ended, NoCall
  <2> QED BY <2>1, <2>2, Zenon DEF NothingOut
<1> QED BY <1>1, <1>2, <1>3, <1>4, Zenon DEF DeliveryNext

\* What mark_issued has checked by the time the request goes out.
LEMMA IssuedFenced ==
  ASSUME DlvInv, [DeliveryNext]_dlvvars
  PROVE  FailedTargetFenced /\ IssuedThroughCurrent
<1>1. WireOK /\ call \in [Call -> CallType]
  BY Zenon DEF DlvInv, CallsOK
<1>2. CASE NothingOut
  <2>1. ASSUME NEW k \in Keys, NEW i \in 1 .. MaxActions PROVE ~(issues'[k][i] > issues[k][i])
    <3>1. issues[k][i] \in Nat /\ issues' = issues
      BY <1>1, <1>2, Zenon DEF NothingOut, WireOK
    <3> QED BY <3>1
  <2>2. FailedTargetFenced
    BY <2>1, Zenon DEF FailedTargetFenced
  <2>3. IssuedThroughCurrent
    BY <1>2, Zenon DEF NothingOut, IssuedThroughCurrent
  <2> QED BY <2>2, <2>3, Zenon
<1>3. ASSUME NEW c \in Call, Issue(c), Adapter = call[c].adapter
      PROVE  FailedTargetFenced /\ IssuedThroughCurrent
  <2> DEFINE k == Key(c)
             x == call[c]
  <2>1. /\ CallOn(x, Row(c), k) /\ k \in Keys /\ Row(c) = row[k] /\ x.pc = "lookup"
        /\ x \in CallType
    BY <1>3, AtWork, Zenon DEF Issue, Row
  <2>2. x.gen \notin failed /\ row[k].gen = x.gen /\ x.adapter \in 1 .. runtime.id
    BY <2>1, Zenon DEF CallOn, Ready, Busy, Acting
  <2>3. runtime.gen = x.gen
    BY <1>3, <2>1, <2>2 DEF CallOn, Adapter
  <2>4. /\ issues' = [issues EXCEPT ![k][x.at] = @ + 1]
        /\ \E n : call' = [call EXCEPT ![c] = n]
    BY <1>3, Zenon DEF Issue, Move
  <2>5. ASSUME NEW l \in Keys \ {k}, NEW i \in 1 .. MaxActions PROVE ~(issues'[l][i] > issues[l][i])
    <3>1. issues[l][i] \in Nat /\ issues'[l] = issues[l]
      BY <1>1, <2>1, <2>4, ZenonT(30) DEF WireOK
    <3> QED BY <3>1
  <2>6. ASSUME NEW l \in Keys
        PROVE  ~(row[l].status \in TerminalRows \ {"sent"} /\ row[l].gen = row[k].gen)
    BY <2>2, Zenon DEF DlvInv, RowOK
  <2>7. FailedTargetFenced
    BY <2>5, <2>6, Zenon DEF FailedTargetFenced
  <2>8. \A d \in Call \ {c} : call'[d] = call[d]
    BY <1>1, <2>4, Zenon
  <2>9. IssuedThroughCurrent
    BY <1>3, <2>3, <2>8, Zenon DEF IssuedThroughCurrent
  <2> QED BY <2>7, <2>9, Zenon
<1> QED BY <1>2, <1>3, OnlyIssue, Zenon

\* No step issues an action to a target that already failed, through a runtime or for a
\* binding that is not the current one.
THEOREM IssuesAreFenced == DeliverySpec => DeliveriesFenced
<1>1. DeliveryInit => DlvInv
  BY DeliveryStart, Zenon
<1>2. DlvInv /\ [DeliveryNext]_dlvvars => DlvInv'
  BY DeliveryStep, Zenon
<1>3. DlvInv /\ [DeliveryNext]_dlvvars => [FailedTargetFenced /\ IssuedThroughCurrent]_dlvvars
  BY IssuedFenced, Zenon
<1> QED BY <1>1, <1>2, <1>3, PTL DEF DeliverySpec, DeliveriesFenced

\* The run's property: with the splitting of the texts, which is a fact about a
\* recursion that the runs check, the deliveries are honest.
THEOREM DeliveriesAreHonest == DeliverySpec /\ []SplitLossless => []DeliveriesHonest
<1>1. SplitLossless /\ LedgerHonest => DeliveriesHonest
  BY Zenon DEF DeliveriesHonest
<1> QED BY <1>1, LedgerIsHonest, PTL
=============================================================================
