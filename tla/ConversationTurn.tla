--------------------------- MODULE ConversationTurn ---------------------------
(*****************************************************************************)
(* What the operators of Conversation compute, what every step of it but two *)
(* preserves (Effect), and that the steps of a workflow (agent loop, tool    *)
(* calls, failures, drain loop) keep the types and move the runs and the     *)
(* tool holders as Effect says.                                              *)
(*****************************************************************************)
EXTENDS Conversation, FiniteSetTheorems, SequenceTheorems, TLAPS

-----------------------------------------------------------------------------
(***************************************************************************)
(* The operators the actions are built from.                               *)
(***************************************************************************)

\* Adding one pair of A \X B to a set of such pairs keeps it one.
LEMMA PairAdded ==
  ASSUME NEW A, NEW B, NEW S, S \subseteq A \X B, NEW a \in A, NEW b \in B,
         NEW T, T \subseteq S \cup {<<a, b>>}
  PROVE  T \subseteq A \X B
<1>1. <<a, b>> \in A \X B
  OBVIOUS
<1> QED BY Zenon, <1>1

\* A count of elements of 1..n is a number of 0..n.
LEMMA CountBound ==
  ASSUME NEW n \in Nat, NEW S \in SUBSET (1..n)
  PROVE  IsFiniteSet(S) /\ Cardinality(S) \in 0..n
<1>1. IsFiniteSet(1..n) /\ Cardinality(1..n) = n
  BY FS_Interval
<1>2. IsFiniteSet(S) /\ Cardinality(S) <= n
  BY Zenon, <1>1, FS_Subset
<1> QED BY <1>2, FS_CardinalityType

\* The prefix that a downward closed test selects passes the test.
LEMMA PrefixFits ==
  ASSUME NEW n \in Nat, NEW S \in SUBSET (1..n),
         \A k \in S : \A j \in 1..k : j \in S
  PROVE  1..Cardinality(S) \subseteq S
<1> DEFINE c == Cardinality(S)
<1>1. c \in 0..n /\ IsFiniteSet(S)
  BY CountBound
<1>2. SUFFICES ASSUME c # 0, c \notin S PROVE FALSE
  <2>1. CASE c = 0
    BY <2>1
  <2>2. CASE c # 0 /\ c \in S
    BY <2>2, <1>1
  <2> QED BY <2>1, <2>2, <1>2
<1>3. S \subseteq 1..(c - 1)
  <2>1. SUFFICES ASSUME NEW k \in S, k >= c PROVE FALSE
    BY <1>1
  <2> QED BY <2>1, <1>1, <1>2
<1>4. Cardinality(S) \in 0..(c - 1)
  <2>1. c - 1 \in Nat
    BY <1>1, <1>2
  <2> HIDE DEF c
  <2>2. S \in SUBSET (1..(c - 1))
    BY <1>3
  <2> QED BY <2>1, <2>2, CountBound
<1> QED BY <1>1, <1>4

\* The prefix one turn may take is a prefix of the queue, of one profile and
\* of current authority.
LEMMA PrefixOK ==
  ASSUME NEW q \in Seq(Msgs), NEW g \in BOOLEAN
  PROVE  LET p == _valid_contiguous_profile_prefix(q, g)
         IN /\ p \in Seq(Msgs)
            /\ \A i \in DOMAIN p : (p[i] \in Guests) = g /\ p[i] \notin revoked
<1> DEFINE S == {k \in 1..Len(q) : \A i \in 1..k : /\ (q[i] \in Guests) = g
                                                   /\ inbound_authority_is_current(q[i])}
           c == Cardinality(S)
           p == SubSeq(q, 1, c)
<1>1. Len(q) \in Nat /\ q \in [1..Len(q) -> Msgs]
  BY LenProperties
<1>2. c \in 0..Len(q)
  <2> HIDE DEF S
  <2>1. S \in SUBSET (1..Len(q))
    BY DEF S
  <2> QED BY <1>1, <2>1, CountBound
<1>3. 1..c \subseteq S
  <2>1. S \in SUBSET (1..Len(q))
    OBVIOUS
  <2>2. \A k \in S : \A j \in 1..k : j \in S
    BY <1>1
  <2> HIDE DEF S
  <2> QED BY Zenon, <1>1, <2>1, <2>2, PrefixFits
<1>4. p \in Seq(Msgs) /\ DOMAIN p = 1..c /\ \A i \in 1..c : p[i] = q[i]
  <2> HIDE DEF c, S
  <2> QED BY <1>1, <1>2, SubSeqProperties
<1>5. \A i \in 1..c : (q[i] \in Guests) = g /\ q[i] \notin revoked
  <2>1. TAKE i \in 1..c
  <2>2. i \in S /\ i \in 1..i
    BY <1>2, <1>3
  <2> QED BY <2>2 DEF inbound_authority_is_current
<1>6. _valid_contiguous_profile_prefix(q, g) = p
  BY DEF _valid_contiguous_profile_prefix
<1> HIDE DEF p, c
<1> QED BY <1>4, <1>5, <1>6

\* The stale head is a prefix.
LEMMA StaleHeadBound ==
  ASSUME NEW q \in Seq(Msgs) PROVE StaleHead(q) \in 0..Len(q)
  BY CountBound, LenProperties DEF StaleHead

\* The rows the actions insert are rows.
LEMMA RowTypes ==
  /\ \A m \in Msgs : HumanRow(m) \in RowRec
  /\ \A t \in RunOrNull, n \in Nat, w \in RunOrNull : AssistantRow(t, n, w) \in RowRec
  /\ \A t \in RunOrNull, x \in Nat, c \in Codes : ResultRow(t, x, c) \in RowRec
  /\ \A t \in RunOrNull, c \in Tags : ErrorRow(t, c) \in RowRec
  /\ \A t \in RunOrNull : StopRow(t) \in RowRec
<1> USE ConversationAssumption DEF RowRec, Row, Tags, RunOrNull, NoMsg
<1>1. \A m \in Msgs : HumanRow(m) \in RowRec
  BY DEF HumanRow
<1>2. \A t \in RunOrNull, n \in Nat, w \in RunOrNull : AssistantRow(t, n, w) \in RowRec
  BY DEF AssistantRow
<1>3. \A t \in RunOrNull, x \in Nat, c \in Codes : ResultRow(t, x, c) \in RowRec
  BY DEF ResultRow
<1>4. \A t \in RunOrNull, c \in Tags : ErrorRow(t, c) \in RowRec
  BY DEF ErrorRow
<1>5. \A t \in RunOrNull : StopRow(t) \in RowRec
  BY DEF StopRow
<1> QED BY <1>1, <1>2, <1>3, <1>4, <1>5

\* A listing of finitely many tool uses yields a sequence of result rows.
LEMMA ResultRowsType ==
  ASSUME NEW S \in SUBSET Nat, IsFiniteSet(S), NEW s \in InOrder(S),
         NEW t \in RunOrNull, NEW c \in Codes
  PROVE  ResultRows(t, s, c) \in Seq(RowRec)
<1>1. Cardinality(S) \in Nat
  BY FS_CardinalityType
<1>2. s \in [1..Cardinality(S) -> S]
  BY DEF InOrder
<1>3. \A i \in 1..Cardinality(S) : ResultRow(t, s[i], c) \in RowRec
  BY Zenon, <1>2, RowTypes
<1>4. [i \in 1..Cardinality(S) |-> ResultRow(t, s[i], c)] \in Seq(RowRec)
  BY <1>1, <1>3, IsASeq
<1> QED BY <1>2, <1>4 DEF ResultRows

\* What repair_unpaired_tool_uses inserts are rows.
LEMMA RepairRowsType ==
  ASSUME RowType, NEW t \in RunOrNull, NEW new \in RepairRows(t)
  PROVE  new \in Seq(RowRec)
<1> DEFINE A == LastAssistant
           of == IF A = {} THEN t ELSE rows[CHOOSE a \in A : TRUE].turn
<1>1. PICK s \in InOrder(_tail_missing_tool_uses) : new = ResultRows(of, s, "repaired")
  BY DEF RepairRows
<1>2. Len(rows) \in Nat /\ rows \in [1..Len(rows) -> RowRec] /\ DOMAIN rows = 1..Len(rows)
  BY LenProperties DEF RowType
<1>3. A \subseteq 1..Len(rows)
  BY <1>2 DEF LastAssistant
<1>4. \A a, b \in A : a = b
  <2>1. SUFFICES ASSUME NEW a \in A, NEW b \in A, a < b PROVE FALSE
    BY <1>2, <1>3
  <2>2. b \in (a + 1)..Len(rows)
    BY <2>1, <1>2, <1>3
  <2> QED BY <2>1, <2>2 DEF LastAssistant
<1>5. of \in RunOrNull
  <2>1. CASE A = {}
    BY <2>1
  <2>2. CASE A # {}
    <3>1. (CHOOSE a \in A : TRUE) \in 1..Len(rows)
      BY Zenon, <2>2, <1>3
    <3>2. rows[CHOOSE a \in A : TRUE] \in RowRec
      BY <3>1, <1>2
    <3> QED BY <2>2, <3>2 DEF RowRec
  <2> QED BY <2>1, <2>2
<1>6. _tail_missing_tool_uses \in SUBSET Nat /\ IsFiniteSet(_tail_missing_tool_uses)
  <2>1. CASE A = {}
    <3>1. _tail_missing_tool_uses = {}
      BY <2>1 DEF _tail_missing_tool_uses
    <3> QED BY <3>1, FS_EmptySet
  <2>2. CASE A # {}
    <3>1. PICK a \in A : TRUE
      BY <2>2
    <3>2. rows[a].n \in Nat
      BY <3>1, <1>2, <1>3 DEF RowRec
    <3>3. _tail_missing_tool_uses \in SUBSET (1..rows[a].n)
      BY <3>1, <1>4 DEF _tail_missing_tool_uses
    <3> QED BY <3>2, <3>3, CountBound
  <2> QED BY <2>1, <2>2
<1> HIDE DEF of
<1> QED BY <1>1, <1>5, <1>6, ResultRowsType DEF Codes

-----------------------------------------------------------------------------
(***************************************************************************)
(* Closing and reserving.                                                  *)
(***************************************************************************)

Isolated(r) == \A i \in DOMAIN r.inputs : (r.inputs[i] \in Guests) = r.guest

\* A new run has the type of a run.
LEMMA TurnRowOK ==
  ASSUME CountType, NEW s \in RunStatus, NEW w \in RunOrNull, NEW q \in Seq(Msgs),
         NEW f \in RunOrNull \X {"none", "next", "pending"}, NEW g \in BOOLEAN
  PROVE  LET r == TurnRow(s, w, q, f, g)
         IN r \in RunRec /\ r.status = s /\ r.inputs = q /\ r.guest = g
  BY DEF TurnRow, RunRec, CountType

\* Closing k rows writes rows, and failed runs of one isolated message each.
LEMMA CloseOK ==
  ASSUME RunType, CountType, NEW q \in Seq(Msgs), NEW k \in 0..Len(q), nrun + k <= MaxTurns
  PROVE  /\ _close_revoked_pending(q, k) \in Seq(RowRec)
         /\ ClosedRuns(q, k) \in [TurnId -> RunRec]
         /\ \A t \in TurnId :
              \/ ClosedRuns(q, k)[t] = run[t]
              \/ ClosedRuns(q, k)[t].status = "failed" /\ Isolated(ClosedRuns(q, k)[t])
         /\ \A t \in TurnId : t > nrun + k => ClosedRuns(q, k)[t] = run[t]
<1>1. Len(q) \in Nat /\ q \in [1..Len(q) -> Msgs]
  BY LenProperties
<1>2. nrun \in Nat /\ k \in Nat /\ MaxTurns \in Nat /\ k <= Len(q)
  BY <1>1, ConversationAssumption DEF RunType, RunOrNull
<1>3. _close_revoked_pending(q, k) \in Seq(RowRec)
  <2> DEFINE row(i) == IF i % 2 = 1 THEN HumanRow(q[(i + 1) \div 2])
                                    ELSE ErrorRow(nrun + (i \div 2), "closed")
  <2>1. ASSUME NEW i \in 1..(2 * k) PROVE row(i) \in RowRec
    <3>1. CASE i % 2 = 1
      <4>1. (i + 1) \div 2 \in 1..Len(q)
        BY <3>1, <1>2, <1>1
      <4>2. q[(i + 1) \div 2] \in Msgs
        BY <4>1, <1>1
      <4> QED BY <3>1, <4>2, RowTypes
    <3>2. CASE i % 2 # 1
      <4>1. nrun + (i \div 2) \in RunOrNull
        BY <1>2 DEF RunOrNull
      <4> QED BY <3>2, <4>1, RowTypes DEF Tags
    <3> QED BY <3>1, <3>2
  <2>2. 2 * k \in Nat
    BY <1>2
  <2> HIDE DEF row
  <2>3. [i \in 1..(2 * k) |-> row(i)] \in Seq(RowRec)
    BY <2>1, <2>2, IsASeq
  <2> QED BY <2>3 DEF _close_revoked_pending, row
<1> DEFINE input(t) == <<q[t - nrun]>>
           none == <<0, "none">>
           guest(t) == q[t - nrun] \in Guests
           closed(t) == TurnRow("failed", 0, input(t), none, guest(t))
<1>4. ASSUME NEW t \in TurnId, t \in (nrun + 1)..(nrun + k)
      PROVE  closed(t) \in RunRec /\ closed(t).status = "failed" /\ Isolated(closed(t))
  <2>1. t - nrun \in 1..Len(q)
    BY <1>4, <1>2
  <2>2. q[t - nrun] \in Msgs
    BY <2>1, <1>1
  <2>3. input(t) \in Seq(Msgs)
    BY <2>2
  <2>4. guest(t) \in BOOLEAN
    OBVIOUS
  <2>5. none \in RunOrNull \X {"none", "next", "pending"} /\ 0 \in RunOrNull
    BY <1>2 DEF RunOrNull
  <2>6. /\ closed(t) \in RunRec /\ closed(t).status = "failed"
        /\ closed(t).inputs = input(t) /\ closed(t).guest = guest(t)
    <3> HIDE DEF guest, none, input
    <3> QED BY <2>3, <2>4, <2>5, TurnRowOK DEF RunStatus
  <2>7. Isolated(closed(t))
    <3>1. SUFFICES ASSUME NEW i \in DOMAIN closed(t).inputs
                   PROVE  (closed(t).inputs[i] \in Guests) = closed(t).guest
      BY Zenon DEF Isolated
    <3>2. closed(t).inputs[i] = q[t - nrun]
      BY <2>6
    <3> QED BY <2>6, <3>2, Zenon DEF guest
  <2> QED BY <2>6, <2>7
<1>5. ClosedRuns(q, k) = [t \in TurnId |-> IF t \in (nrun + 1)..(nrun + k) THEN closed(t) ELSE run[t]]
  BY DEF ClosedRuns
<1> HIDE DEF closed
<1>6. \A t \in TurnId : run[t] \in RunRec
  BY DEF RunType
<1>7. ClosedRuns(q, k) \in [TurnId -> RunRec]
  BY <1>4, <1>5, <1>6
<1>8. \A t \in TurnId :
        \/ ClosedRuns(q, k)[t] = run[t]
        \/ ClosedRuns(q, k)[t].status = "failed" /\ Isolated(ClosedRuns(q, k)[t])
  BY <1>4, <1>5
<1>9. \A t \in TurnId : t > nrun + k => ClosedRuns(q, k)[t] = run[t]
  BY <1>2, <1>5 DEF TurnId
<1> QED BY <1>3, <1>7, <1>8, <1>9

\* A reservation keeps the types, closes what it skips and starts one isolated
\* turn under a fresh id.
LEMMA ReserveOK ==
  ASSUME RowType, RunType, CountType, NEW q \in Seq(Msgs), NEW v \in RunOrNull,
         NEW f \in RunOrNull \X {"none", "next", "pending"},
         _reserve_fresh_pending_locked(q, v, f)
  PROVE  /\ RowType' /\ RunType' /\ pending' \in Seq(Msgs)
         /\ nrun + StaleHead(q) + 1 \in TurnId
         /\ Isolated(run'[nrun + StaleHead(q) + 1])
         /\ \A i \in DOMAIN run'[nrun + StaleHead(q) + 1].inputs :
              run'[nrun + StaleHead(q) + 1].inputs[i] \notin revoked
         /\ run'[nrun + StaleHead(q) + 1].status = "running"
         /\ \A t \in TurnId : t # nrun + StaleHead(q) + 1 =>
              run'[t] = run[t] \/ (run'[t].status = "failed" /\ Isolated(run'[t]))
<1> DEFINE k == StaleHead(q)
           new == nrun + k + 1
           rest == SubSeq(q, k + 1, Len(q))
           g == Head(rest) \in Guests
           p == _valid_contiguous_profile_prefix(rest, g)
           turn == _create_turn(p, g, v, f)
<1>1. Len(q) \in Nat /\ k \in 0..Len(q) /\ nrun \in Nat /\ MaxTurns \in Nat
  BY LenProperties, StaleHeadBound, ConversationAssumption DEF RunType, RunOrNull
<1>2. /\ nrun + k + 1 <= MaxTurns
      /\ rows' = rows \o _close_revoked_pending(q, k)
      /\ pending' = rest
      /\ run' = [ClosedRuns(q, k) EXCEPT ![new] = turn]
      /\ nrun' = new
  BY DEF _reserve_fresh_pending_locked
<1>3. new \in TurnId /\ new \in RunOrNull
  BY <1>1, <1>2 DEF TurnId, RunOrNull
<1> HIDE DEF k
<1>4. rest \in Seq(Msgs)
  BY <1>1, SubSeqProperties
<1>5. /\ p \in Seq(Msgs)
      /\ \A i \in DOMAIN p : (p[i] \in Guests) = g /\ p[i] \notin revoked
  <2> HIDE DEF rest
  <2>1. g \in BOOLEAN
    OBVIOUS
  <2> QED BY Zenon, <1>4, <2>1, PrefixOK
<1>6. /\ turn \in RunRec /\ turn.status = "running" /\ Isolated(turn)
      /\ \A i \in DOMAIN turn.inputs : turn.inputs[i] \notin revoked
  <2> HIDE DEF rest, p
  <2>1. g \in BOOLEAN
    OBVIOUS
  <2> HIDE DEF g
  <2>2. turn \in RunRec /\ turn.status = "running" /\ turn.inputs = p /\ turn.guest = g
    BY <2>1, <1>5, TurnRowOK DEF _create_turn, RunStatus
  <2> QED BY <2>2, <1>5 DEF Isolated
<1> HIDE DEF turn, rest, new
<1>7. /\ _close_revoked_pending(q, k) \in Seq(RowRec)
      /\ ClosedRuns(q, k) \in [TurnId -> RunRec]
      /\ \A t \in TurnId :
           \/ ClosedRuns(q, k)[t] = run[t]
           \/ ClosedRuns(q, k)[t].status = "failed" /\ Isolated(ClosedRuns(q, k)[t])
  <2>1. nrun + k <= MaxTurns
    BY <1>1, <1>2
  <2> QED BY <2>1, <1>1, CloseOK
<1>8. RowType'
  BY <1>2, <1>7, ConcatProperties DEF RowType
<1>9. RunType'
  BY <1>2, <1>3, <1>6, <1>7 DEF RunType
<1>10. \A t \in TurnId : run'[t] = IF t = new THEN turn ELSE ClosedRuns(q, k)[t]
  BY <1>2, <1>7
<1> QED BY <1>2, <1>3, <1>4, <1>6, <1>7, <1>8, <1>9, <1>10 DEF k, new

-----------------------------------------------------------------------------
(***************************************************************************)
(* Ending a turn and promoting its input.                                  *)
(***************************************************************************)

\* What ends a turn keeps the rest of every run, starts none, and lowers the
\* stop flag with it.
EndsTurn ==
  /\ run' \in [TurnId -> RunRec]
  /\ \A t \in TurnId : /\ run'[t].inputs = run[t].inputs /\ run'[t].guest = run[t].guest
                       /\ run'[t].status = "running" => run[t].status = "running"
  /\ cancelReq' \in BOOLEAN
  /\ (run' = run /\ cancelReq' = cancelReq) \/ cancelReq' = FALSE

\* The update of one status is of that kind.
LEMMA StatusStep ==
  ASSUME RunType, NEW u \in RunOrNull, NEW s \in RunStatus \ {"running"},
         run' = [run EXCEPT ![u].status = s], cancelReq' = FALSE
  PROVE  EndsTurn
<1>1. run \in [TurnId -> RunRec]
  BY DEF RunType
<1>2. \A t \in TurnId : run'[t] = IF t = u THEN [run[t] EXCEPT !.status = s] ELSE run[t]
  BY <1>1
<1>3. \A t \in TurnId : [run[t] EXCEPT !.status = s] \in RunRec
  BY <1>1 DEF RunRec
<1>4. run' \in [TurnId -> RunRec]
  BY Zenon, <1>1, <1>2, <1>3
<1>5. \A t \in TurnId : /\ run'[t].inputs = run[t].inputs /\ run'[t].guest = run[t].guest
                        /\ run'[t].status = "running" => run[t].status = "running"
  BY <1>1, <1>2 DEF RunRec
<1> QED BY Zenon, <1>4, <1>5 DEF EndsTurn

\* cancel_tool_batch: the rows it writes are typed, and it ends its turn.
LEMMA CancelOK ==
  ASSUME RowType, RunType, StopType, NEW t \in RunOrNull,
         NEW unk \in SUBSET Tool, NEW can \in SUBSET Tool, cancel_tool_batch(t, unk, can)
  PROVE  RowType' /\ EndsTurn
<1>1. CASE AlreadyStopped(t)
  <2>1. UNCHANGED <<rows, run, cancelReq>>
    BY <1>1 DEF cancel_tool_batch
  <2> QED BY <2>1 DEF RowType, RunType, StopType, EndsTurn
<1>2. CASE ~AlreadyStopped(t)
  <2>1. PICK u \in InOrder(unk), c \in InOrder(can) :
          rows' = rows \o ResultRows(t, u, "unknown") \o ResultRows(t, c, "cancelled")
                       \o <<StopRow(t)>>
    BY <1>2 DEF cancel_tool_batch
  <2>2. /\ IsFiniteSet(unk) /\ unk \in SUBSET Nat
        /\ IsFiniteSet(can) /\ can \in SUBSET Nat
    BY ConversationAssumption, CountBound DEF Tool
  <2>3. "unknown" \in Codes /\ "cancelled" \in Codes
    BY DEF Codes
  <2>4. ResultRows(t, u, "unknown") \in Seq(RowRec)
    BY <2>2, <2>3, ResultRowsType
  <2>5. ResultRows(t, c, "cancelled") \in Seq(RowRec)
    BY <2>2, <2>3, ResultRowsType
  <2>6. <<StopRow(t)>> \in Seq(RowRec)
    BY RowTypes
  <2>7. RowType'
    BY <2>1, <2>4, <2>5, <2>6, ConcatProperties DEF RowType
  <2>8. EndsTurn
    BY Zenon, <1>2, StatusStep DEF cancel_tool_batch, RunStatus
  <2> QED BY <2>7, <2>8
<1> QED BY <1>1, <1>2

\* _insert_error: the row it writes is typed, and it ends its turn.
LEMMA ErrorOK ==
  ASSUME RowType, RunType, StopType, NEW t \in RunOrNull, NEW text \in Tags,
         persist_error(t, text)
  PROVE  RowType' /\ EndsTurn
<1>1. CASE RowsOf("error", t) # {}
  <2>1. UNCHANGED <<rows, run, cancelReq>>
    BY <1>1 DEF persist_error
  <2> QED BY <2>1 DEF RowType, RunType, StopType, EndsTurn
<1>2. CASE RowsOf("error", t) = {}
  <2>1. /\ rows' = Append(rows, ErrorRow(t, text))
        /\ run' = [run EXCEPT ![t].status = "failed"]
        /\ cancelReq' = FALSE
    BY <1>2 DEF persist_error
  <2>2. ErrorRow(t, text) \in RowRec
    BY RowTypes
  <2>3. RowType'
    BY <2>1, <2>2, AppendProperties DEF RowType
  <2> QED BY Zenon, <2>1, <2>3, StatusStep DEF RunStatus
<1> QED BY <1>1, <1>2

\* _promote_pending: the rows and the pending messages stay typed.
LEMMA PromoteOK ==
  ASSUME InboxType, RowType, RunType, NEW t \in TurnId, promote_pending(t)
  PROVE  RowType' /\ pending' \in Seq(Msgs)
<1> DEFINE q == run[t].inputs
<1>1. q \in Seq(Msgs) /\ Len(q) \in Nat /\ DOMAIN q = 1..Len(q)
  <2>1. q \in Seq(Msgs)
    BY DEF RunType, RunRec
  <2> QED BY <2>1, LenProperties
<1>2. CASE InputsHeadPending(t)
  <2>1. /\ rows' = rows \o [i \in DOMAIN q |-> HumanRow(q[i])]
        /\ pending' = SubSeq(pending, Len(q) + 1, Len(pending))
        /\ Len(q) <= Len(pending)
    BY Zenon, <1>2 DEF promote_pending, InputsHeadPending
  <2> HIDE DEF q
  <2>2. \A i \in 1..Len(q) : HumanRow(q[i]) \in RowRec
    BY <1>1, ElementOfSeq, RowTypes
  <2>3. [i \in 1..Len(q) |-> HumanRow(q[i])] \in Seq(RowRec)
    BY <1>1, <2>2, IsASeq
  <2>4. RowType'
    BY <2>1, <2>3, <1>1, ConcatProperties DEF RowType
  <2>5. pending' \in Seq(Msgs)
    BY <2>1, <1>1, SubSeqProperties, LenProperties DEF InboxType
  <2> QED BY <2>4, <2>5
<1>3. CASE ~InputsHeadPending(t)
  BY <1>3 DEF promote_pending, RowType, InboxType
<1> QED BY <1>2, <1>3

-----------------------------------------------------------------------------
(***************************************************************************)
(* What a step does to the runs, and to the tool calls about to be issued. *)
(***************************************************************************)

\* A row that a closing adds, and one a turn starts with.
ClosedAt(t) == run'[t] = run[t] \/ (run'[t].status = "failed" /\ Isolated(run'[t]))
StartedAt(t) ==
  /\ run'[t].status = "running" /\ Isolated(run'[t])
  /\ \A i \in DOMAIN run'[t].inputs : run'[t].inputs[i] \notin revoked

\* An idle session closes stale rows and starts at most one turn.
Reserves ==
  /\ Running = {} /\ UNCHANGED cancelReq
  /\ \E n \in 0..MaxTurns : /\ n # 0 => StartedAt(n)
                            /\ \A t \in TurnId : t # n => ClosedAt(t)

\* A running turn hands over to the next one.
Continues ==
  /\ UNCHANGED cancelReq
  /\ \E t, n \in TurnId : /\ run[t].status = "running" /\ StartedAt(n)
                          /\ \A u \in TurnId : u \notin {t, n} => run'[u] = run[u]
                          /\ t # n => /\ run'[t].status = "completed"
                                      /\ run'[t].inputs = run[t].inputs
                                      /\ run'[t].guest = run[t].guest

\* A running turn takes its input, or a run is linked to its workflow.
Fills ==
  /\ UNCHANGED cancelReq
  /\ \A t \in TurnId : /\ run'[t].status = run[t].status
                       /\ Isolated(run[t]) => Isolated(run'[t])

\* A stop is requested of a running turn.
Flags == UNCHANGED run /\ Running # {}
RunStep == EndsTurn \/ Reserves \/ Continues \/ Fills \/ Flags

\* A workflow that will issue its tool call next or soon.
Holds(k) == k.pc \in {"claimed", "armed", "running"} /\ ~k.issued
HoldsOn(k, new) == Holds(new) => Holds(k) /\ new.turn = k.turn /\ new.idx = k.idx
HolderStep == UNCHANGED <<ops, execs>> /\ \A v \in TurnId : HoldsOn(task[v], task'[v])

\* What every step but claim_tool and issue_tool preserves.
Effect == TypeOK' /\ RunStep /\ HolderStep

\* A part of the state that does not change keeps its type.
LEMMA Keep ==
  /\ InboxType /\ UNCHANGED <<accepted, pending>> => InboxType'
  /\ RowType /\ UNCHANGED rows => RowType'
  /\ RunType /\ UNCHANGED <<run, nrun>> => RunType'
  /\ ReceiptType /\ UNCHANGED <<ops, requests>> => ReceiptType'
  /\ StopType /\ UNCHANGED <<cancelReq, cancels, revoked>> => StopType'
  /\ WfType /\ UNCHANGED <<wf, queue>> => WfType'
  /\ JournalType /\ UNCHANGED <<jPrep, jResp, jTool, jRes>> => JournalType'
  /\ OpType /\ UNCHANGED op => OpType'
  /\ CountType /\ UNCHANGED <<up, execs, stops, crashes, revokes>> => CountType'
  /\ TypeOK /\ UNCHANGED <<run, cancelReq>> => RunStep
<1>1. InboxType /\ UNCHANGED <<accepted, pending>> => InboxType'
  BY DEF InboxType
<1>2. RowType /\ UNCHANGED rows => RowType'
  BY DEF RowType
<1>3. RunType /\ UNCHANGED <<run, nrun>> => RunType'
  BY DEF RunType
<1>4. ReceiptType /\ UNCHANGED <<ops, requests>> => ReceiptType'
  BY DEF ReceiptType
<1>5. StopType /\ UNCHANGED <<cancelReq, cancels, revoked>> => StopType'
  BY DEF StopType
<1>6. WfType /\ UNCHANGED <<wf, queue>> => WfType'
  BY DEF WfType
<1>7. JournalType /\ UNCHANGED <<jPrep, jResp, jTool, jRes>> => JournalType'
  BY DEF JournalType
<1>8. OpType /\ UNCHANGED op => OpType'
  BY DEF OpType
<1>9. CountType /\ UNCHANGED <<up, execs, stops, crashes, revokes>> => CountType'
  BY DEF CountType
<1>10. TypeOK /\ UNCHANGED <<run, cancelReq>> => RunStep
  BY DEF TypeOK, RunType, StopType, RunStep, EndsTurn
<1> QED BY <1>1, <1>2, <1>3, <1>4, <1>5, <1>6, <1>7, <1>8, <1>9, <1>10

\* A new value of one task that keeps the types, the bounds and the holders.
Calm(w, k) == k \in TaskRec /\ Bound(w, k) /\ HoldsOn(task[w], k)

\* A calm update of one task keeps the types, the bounds and the holders of all.
LEMMA TaskStep ==
  ASSUME TaskType, TaskBound, NEW w \in TurnId, NEW k, Calm(w, k), Becomes(w, k),
         UNCHANGED jResp
  PROVE  /\ TaskType' /\ TaskBound'
         /\ \A v \in TurnId : HoldsOn(task[v], task'[v])
<1>1. task' = [task EXCEPT ![w] = k] /\ task \in [TurnId -> TaskRec] /\ k \in TaskRec
  BY DEF Becomes, TaskType, Calm
<1>2. \A v \in TurnId : task'[v] = IF v = w THEN k ELSE task[v]
  BY <1>1
<1>3. TaskType'
  BY <1>1 DEF TaskType
<1>4. \A v \in TurnId : HoldsOn(task[v], task'[v])
  BY <1>2 DEF Calm, HoldsOn
<1>5. ASSUME NEW v \in TurnId PROVE Bound(v, task[v])'
  <2>1. CASE v = w
    BY <1>2, <2>1 DEF Calm, Bound
  <2>2. CASE v # w
    BY <1>2, <2>2 DEF TaskBound, Bound
  <2> QED BY <2>1, <2>2
<1> QED BY <1>3, <1>4, <1>5 DEF TaskBound

\* A step that changes one task and nothing else.
LEMMA TaskOnly ==
  ASSUME TypeOK, NEW w \in TurnId, NEW k, Calm(w, k), Becomes(w, k),
         UNCHANGED <<sql, dbos, up, op, execs, bounds>>
  PROVE  Effect
<1>1. UNCHANGED <<accepted, pending, rows, run, nrun, ops, requests, cancelReq, cancels, revoked,
                  wf, queue, jPrep, jResp, jTool, jRes, stops, crashes, revokes>>
  BY DEF sql, dbos, bounds
<1>2. TaskType' /\ TaskBound' /\ \A v \in TurnId : HoldsOn(task[v], task'[v])
  BY <1>1, TaskStep DEF TypeOK
<1> QED BY <1>1, <1>2, Keep DEF TypeOK, Effect, HolderStep

\* The two values a task is reset to.
LEMMA ResetCalm ==
  ASSUME NEW w
  PROVE  /\ Calm(w, IdleTask)
         /\ \A t \in TurnId : Calm(w, FreshTask(t))
<1>1. IdleTask \in TaskRec /\ IdleTask.pc = "idle"
  BY ConversationAssumption DEF IdleTask, TaskRec, TaskPcs, RunOrNull, Codes
<1>2. ASSUME NEW t \in TurnId
      PROVE  /\ FreshTask(t) \in TaskRec /\ FreshTask(t).pc = "prepare"
             /\ FreshTask(t).turn = t /\ FreshTask(t).chain = t
  <2>1. t \in RunOrNull
    BY ConversationAssumption DEF TurnId, RunOrNull
  <2> QED BY Zenon, <1>1, <2>1 DEF FreshTask, TaskRec, TaskPcs
<1>3. Calm(w, IdleTask)
  BY <1>1 DEF Calm, Bound, ToolPcs, HoldsOn, Holds
<1>4. ASSUME NEW t \in TurnId PROVE Calm(w, FreshTask(t))
  BY <1>2 DEF Calm, Bound, ToolPcs, HoldsOn, Holds
<1> QED BY <1>3, <1>4

\* Where a workflow is, its task is typed and bounded.
LEMMA AtTask ==
  ASSUME TypeOK, NEW w \in TurnId
  PROVE  task[w] \in TaskRec /\ Bound(w, task[w])
  BY DEF TypeOK, TaskType, TaskBound

\* The lists reconcile_cancellation chooses are tool uses.
LEMMA OpenToolsType ==
  ASSUME NEW t
  PROVE  IntentTools(t) \in SUBSET Tool /\ OpenTools(t) \ IntentTools(t) \in SUBSET Tool
  BY DEF IntentTools, OpenTools

\* Running turns are turns.
LEMMA RunningType == Running \subseteq TurnId /\ \A v : RunOfWorkflow(v) \subseteq TurnId
  BY DEF Running, RunOfWorkflow

\* A turn is a value of a nullable turn column, and so is NULL.
LEMMA TurnIdIsRun == TurnId \subseteq RunOrNull /\ 0 \in RunOrNull
  BY ConversationAssumption DEF TurnId, RunOrNull

-----------------------------------------------------------------------------
(***************************************************************************)
(* The ends of a turn.                                                     *)
(***************************************************************************)

\* Ending a turn keeps the types of the runs and of the flag.
LEMMA EndsTurnOK ==
  ASSUME TypeOK, EndsTurn, UNCHANGED <<nrun, cancels, revoked>>
  PROVE  RunType' /\ StopType' /\ RunStep
  BY DEF TypeOK, RunType, StopType, EndsTurn, RunStep

\* One workflow's new status keeps the type of the workflow table.
LEMMA WfStep ==
  ASSUME WfType, NEW w \in TurnId, NEW s \in WfStatus, wf' = [wf EXCEPT ![w] = s], UNCHANGED queue
  PROVE  WfType'
  BY DEF WfType

\* Closing every pending row of an idle session.
LEMMA CloseAllStep ==
  ASSUME TypeOK, Running = {}, CloseAll(pending), UNCHANGED <<accepted, cancelReq>>
  PROVE  InboxType' /\ RowType' /\ RunType' /\ RunStep
<1> DEFINE n == Len(pending)
<1>1. /\ pending \in Seq(Msgs) /\ n \in Nat /\ n \in 0..n /\ nrun + n <= MaxTurns
      /\ rows' = rows \o _close_revoked_pending(pending, n) /\ pending' = <<>>
      /\ run' = ClosedRuns(pending, n) /\ nrun' = nrun + n
  BY LenProperties DEF CloseAll, TypeOK, InboxType
<1> HIDE DEF n
<1>2. /\ _close_revoked_pending(pending, n) \in Seq(RowRec)
      /\ run' \in [TurnId -> RunRec]
      /\ \A t \in TurnId : ClosedAt(t)
  <2>1. n \in 0..Len(pending)
    BY <1>1 DEF n
  <2> QED BY <1>1, <2>1, CloseOK DEF TypeOK, ClosedAt
<1>3. RowType'
  BY <1>1, <1>2, ConcatProperties DEF TypeOK, RowType
<1>4. RunType'
  BY <1>1, <1>2, ConversationAssumption DEF TypeOK, RunType, RunOrNull
<1>5. InboxType'
  BY <1>1 DEF TypeOK, InboxType
<1>6. Reserves
  BY <1>2, ConversationAssumption DEF Reserves
<1> QED BY <1>3, <1>4, <1>5, <1>6 DEF RunStep

\* Reserving a turn in an idle session.
LEMMA ReserveStep ==
  ASSUME TypeOK, Running = {}, NEW q \in Seq(Msgs), NEW v \in RunOrNull,
         NEW f \in RunOrNull \X {"none", "next", "pending"},
         _reserve_fresh_pending_locked(q, v, f), UNCHANGED cancelReq
  PROVE  /\ RowType' /\ RunType' /\ pending' \in Seq(Msgs) /\ RunStep
         /\ nrun + StaleHead(q) + 1 \in TurnId
<1> DEFINE n == nrun + StaleHead(q) + 1
<1>1. /\ RowType' /\ RunType' /\ pending' \in Seq(Msgs) /\ n \in TurnId
      /\ StartedAt(n)
      /\ \A t \in TurnId : t # n => ClosedAt(t)
  BY ZenonT(60), ReserveOK DEF TypeOK, StartedAt, ClosedAt
<1> HIDE DEF n
<1>2. n \in 0..MaxTurns
  BY <1>1, ConversationAssumption DEF TurnId
<1>3. Reserves
  BY <1>1, <1>2 DEF Reserves
<1> QED BY <1>1, <1>3 DEF RunStep, n

-----------------------------------------------------------------------------
(***************************************************************************)
(* The steps of a workflow.                                                *)
(***************************************************************************)

\* Moving on within a turn, to a place that is not a tool call, is calm.
LEMMA GotoCalm ==
  ASSUME TypeOK, NEW w \in TurnId, task[w].pc # "idle",
         NEW p \in TaskPcs, p \notin ToolPcs \cup {"tool", "persist"}
  PROVE  Calm(w, [task[w] EXCEPT !.pc = p])
<1> DEFINE k == [task[w] EXCEPT !.pc = p]
<1>1. task[w] \in TaskRec /\ Bound(w, task[w])
  BY Zenon DEF TypeOK, TaskType, TaskBound
<1>2. k \in TaskRec /\ k.pc = p /\ k.turn = task[w].turn /\ k.chain = task[w].chain
  BY <1>1, Zenon DEF TaskRec
<1> HIDE DEF k
<1>3. Bound(w, k)
  BY <1>1, <1>2, Zenon DEF Bound
<1>4. HoldsOn(task[w], k)
  BY <1>2, Zenon DEF HoldsOn, Holds, ToolPcs
<1> QED BY <1>2, <1>3, <1>4, Zenon DEF Calm, k

\* step_begins keeps the types, and moves runs and holders as Effect says.
LEMMA step_begins_OK == ASSUME TypeOK, NEW w \in TurnId, step_begins(w) PROVE Effect
<1> DEFINE p == Body[task[w].pc]
           k == [task[w] EXCEPT !.pc = p]
<1>1. Becomes(w, k) /\ UNCHANGED <<sql, dbos, up, op, execs, bounds>>
  BY Zenon DEF step_begins, Goto
<1>2. \/ task[w].pc = "prepare" /\ p = "capture"
      \/ task[w].pc = "call" /\ p = "asking"
      \/ task[w].pc = "dispatch" /\ p = "claim"
      \/ task[w].pc = "reserve" /\ p = "reserving"
  BY DEF step_begins, Body
<1>3. CASE p # "claim"
  <2> HIDE DEF p
  <2>1. p \in TaskPcs /\ p \notin ToolPcs \cup {"tool", "persist"} /\ task[w].pc # "idle"
    BY <1>2, <1>3, Zenon DEF TaskPcs, ToolPcs
  <2> QED BY <1>1, <2>1, GotoCalm, TaskOnly, Zenon
<1>4. CASE p = "claim"
  <2>1. k \in TaskRec /\ k = [task[w] EXCEPT !.pc = "claim"]
    <3> HIDE DEF p
    <3> QED BY <1>4, AtTask DEF TaskRec, TaskPcs
  <2>2. task[w].pc = "dispatch"
    BY <1>2, <1>4, Zenon
  <2>3. k.pc = "claim" /\ k.turn = task[w].turn /\ k.chain = task[w].chain /\ k.idx = task[w].idx
    BY <2>1, AtTask, Zenon DEF TaskRec
  <2> HIDE DEF k
  <2>4. Bound(w, k)
    BY <2>2, <2>3, AtTask, Zenon DEF Bound, ToolPcs
  <2>5. Calm(w, k)
    BY <2>1, <2>3, <2>4, Zenon DEF Calm, HoldsOn, Holds
  <2> QED BY <1>1, <2>5, TaskOnly, Zenon
<1> QED BY <1>3, <1>4, Zenon

\* dbos_abort keeps the types, and moves runs and holders as Effect says.
LEMMA dbos_abort_OK == ASSUME TypeOK, NEW w \in TurnId, dbos_abort(w) PROVE Effect
  BY ResetCalm, TaskOnly, Zenon DEF dbos_abort

\* prepare_replay keeps the types, and moves runs and holders as Effect says.
LEMMA prepare_replay_OK == ASSUME TypeOK, NEW w \in TurnId, prepare_replay(w) PROVE Effect
<1>1. PICK p \in {"prepared", "preflight"} : Becomes(w, [task[w] EXCEPT !.pc = p])
  BY Zenon DEF prepare_replay, Goto
<1>2. /\ p \in TaskPcs /\ p \notin ToolPcs \cup {"tool", "persist"} /\ task[w].pc # "idle"
      /\ UNCHANGED <<sql, dbos, up, op, execs, bounds>>
  BY Zenon DEF TaskPcs, ToolPcs, prepare_replay, AtStep
<1> QED BY <1>1, <1>2, GotoCalm, TaskOnly, Zenon

\* check_authority keeps the types, and moves runs and holders as Effect says.
LEMMA check_authority_OK == ASSUME TypeOK, NEW w \in TurnId, check_authority(w) PROVE Effect
<1>1. PICK p \in {"stopped", "provider", "call"} : Becomes(w, [task[w] EXCEPT !.pc = p])
  BY Zenon DEF check_authority, Goto
<1>2. /\ p \in TaskPcs /\ p \notin ToolPcs \cup {"tool", "persist"} /\ task[w].pc # "idle"
      /\ UNCHANGED <<sql, dbos, up, op, execs, bounds>>
  BY Zenon DEF TaskPcs, ToolPcs, check_authority, AtStep
<1> QED BY <1>1, <1>2, GotoCalm, TaskOnly, Zenon

\* A task anywhere but in a tool call is calm.
LEMMA AwayCalm ==
  ASSUME NEW w, NEW k \in TaskRec, k.pc \notin ToolPcs \cup {"persist"}, k.pc = "tool" => k.idx >= 1,
         k.turn \in TurnId, k.chain \in TurnId
  PROVE  Calm(w, k)
  BY Zenon DEF Calm, Bound, HoldsOn, Holds, ToolPcs

\* The updates of several fields of a task.
Cancelling(r, unk, can, ret) ==
  [r EXCEPT !.pc = "cancel", !.unk = unk, !.can = can, !.ret = ret, !.waiter = "none",
            !.issued = FALSE]

\* Leaving for _cancel_turn keeps the turn and the chain of a task.
LEMMA CancelRec ==
  ASSUME NEW r \in TaskRec, NEW unk \in SUBSET Tool, NEW can \in SUBSET Tool,
         NEW ret \in {"provider", "chain"}
  PROVE  LET k == Cancelling(r, unk, can, ret)
         IN k \in TaskRec /\ k.pc = "cancel" /\ k.turn = r.turn /\ k.chain = r.chain
<1>1. "cancel" \in TaskPcs
  BY Zenon DEF TaskPcs
<1> QED BY Zenon, <1>1 DEF TaskRec, Cancelling

\* Arming the waiter of a tool call keeps the call.
LEMMA ArmedRec ==
  ASSUME NEW r \in TaskRec
  PROVE  LET k == [r EXCEPT !.pc = "armed", !.waiter = "armed"]
         IN /\ k \in TaskRec /\ k.pc = "armed" /\ k.turn = r.turn /\ k.chain = r.chain
            /\ k.idx = r.idx /\ k.issued = r.issued
<1>1. "armed" \in TaskPcs
  BY Zenon DEF TaskPcs
<1> QED BY Zenon, <1>1 DEF TaskRec

\* A task that leaves for _cancel_turn is calm.
LEMMA ToCancelCalm ==
  ASSUME TypeOK, NEW w \in TurnId, task[w].pc # "idle",
         NEW unk \in SUBSET Tool, NEW can \in SUBSET Tool, NEW ret \in {"provider", "chain"},
         ToCancel(w, unk, can, ret)
  PROVE  \E k : Calm(w, k) /\ Becomes(w, k)
<1> DEFINE k == Cancelling(task[w], unk, can, ret)
<1>1. k \in TaskRec /\ k.pc = "cancel" /\ k.turn = task[w].turn /\ k.chain = task[w].chain
  BY AtTask, CancelRec, Zenon
<1>2. Becomes(w, k)
  BY Zenon DEF ToCancel, Cancelling
<1> HIDE DEF k
<1>3. Calm(w, k)
  BY <1>1, AtTask, AwayCalm, Zenon DEF Bound, ToolPcs
<1> QED BY <1>2, <1>3, Zenon

\* prepared_check keeps the types, and moves runs and holders as Effect says.
LEMMA prepared_check_OK == ASSUME TypeOK, NEW w \in TurnId, prepared_check(w) PROVE Effect
<1>1. task[w].pc # "idle" /\ UNCHANGED <<sql, dbos, up, op, execs, bounds>>
  BY Zenon DEF prepared_check, AtStep
<1>2. CASE cancelReq
  BY <1>1, <1>2, ToCancelCalm, TaskOnly, Zenon DEF prepared_check
<1>3. CASE ~cancelReq
  <2>1. "request" \in TaskPcs /\ "request" \notin ToolPcs \cup {"tool", "persist"}
    BY Zenon DEF TaskPcs, ToolPcs
  <2> QED BY <1>1, <1>3, <2>1, GotoCalm, TaskOnly, Zenon DEF prepared_check, Goto
<1> QED BY <1>2, <1>3, Zenon

\* The call a workflow is at belongs to its response.
LEMMA CallBound ==
  ASSUME TypeOK, NEW w \in TurnId, task[w].pc \in ToolPcs
  PROVE  /\ task[w].turn \in TurnId /\ task[w].idx \in Tool
         /\ task[w].idx..jResp[w][task[w].turn] \in SUBSET Tool
<1>1. task[w].turn \in TurnId /\ task[w].idx \in 1..jResp[w][task[w].turn]
  BY AtTask, Zenon DEF Bound, ToolPcs
<1>2. jResp[w][task[w].turn] \in Unasked..MaxBatch
  BY <1>1, Zenon DEF TypeOK, JournalType
<1> QED BY <1>1, <1>2, ConversationAssumption DEF Tool, Unasked

\* before_tool_execute keeps the types, and moves runs and holders as Effect says.
LEMMA before_tool_execute_OK == ASSUME TypeOK, NEW w \in TurnId, before_tool_execute(w) PROVE Effect
<1>1. task[w].pc = "tool" /\ UNCHANGED <<sql, dbos, up, op, execs, bounds>>
  BY Zenon DEF before_tool_execute, AtStep
<1>2. task[w] \in TaskRec /\ Bound(w, task[w])
  BY AtTask, Zenon
<1>3. \/ \E p \in {"boundary", "stopped"} : Goto(w, p)
      \/ ~BatchDone(w) /\ Becomes(w, [task[w] EXCEPT !.pc = "save", !.code = "failed"])
      \/ ~BatchDone(w) /\ Goto(w, "dispatch")
  BY Zenon DEF before_tool_execute
<1>4. CASE \E p \in {"boundary", "stopped"} : Goto(w, p)
  <2>1. PICK p \in {"boundary", "stopped"} : Goto(w, p)
    BY <1>4, Zenon
  <2>2. p \in TaskPcs /\ p \notin ToolPcs \cup {"tool", "persist"}
    BY Zenon DEF TaskPcs, ToolPcs
  <2> QED BY <1>1, <2>1, <2>2, GotoCalm, TaskOnly, Zenon DEF Goto
<1>5. ASSUME ~BatchDone(w) PROVE task[w].idx \in 1..jResp[w][task[w].turn]
  <2>1. task[w].turn \in TurnId /\ task[w].idx \in Nat /\ task[w].idx >= 1
    BY <1>1, <1>2, Zenon DEF Bound, TaskRec
  <2>2. jResp[w][task[w].turn] \in Int
    BY <2>1, ConversationAssumption DEF TypeOK, JournalType, Unasked
  <2> QED BY <1>5, <2>1, <2>2 DEF BatchDone
<1>6. CASE ~BatchDone(w) /\ Becomes(w, [task[w] EXCEPT !.pc = "save", !.code = "failed"])
  <2> DEFINE k == [task[w] EXCEPT !.pc = "save", !.code = "failed"]
  <2>1. /\ k \in TaskRec /\ k.pc = "save" /\ k.turn = task[w].turn /\ k.chain = task[w].chain
        /\ k.idx = task[w].idx
    BY ZenonT(60), <1>2 DEF TaskRec, TaskPcs, Codes
  <2> HIDE DEF k
  <2>2. Calm(w, k)
    BY <1>1, <1>2, <1>5, <1>6, <2>1, Zenon DEF Calm, Bound, HoldsOn, Holds
  <2> QED BY <1>1, <1>6, <2>2, TaskOnly, Zenon DEF k
<1>7. CASE ~BatchDone(w) /\ Goto(w, "dispatch")
  <2> DEFINE k == [task[w] EXCEPT !.pc = "dispatch"]
  <2>1. /\ k \in TaskRec /\ k.pc = "dispatch" /\ k.turn = task[w].turn /\ k.chain = task[w].chain
        /\ k.idx = task[w].idx
    BY <1>2, Zenon DEF TaskRec, TaskPcs
  <2> HIDE DEF k
  <2>2. Calm(w, k)
    BY <1>1, <1>2, <1>5, <1>7, <2>1, Zenon DEF Calm, Bound, HoldsOn, Holds
  <2> QED BY <1>1, <1>7, <2>2, TaskOnly, Zenon DEF k, Goto
<1> QED BY <1>3, <1>4, <1>6, <1>7, Zenon

\* register_cancel_waiter keeps the types, and moves runs and holders as Effect says.
LEMMA register_cancel_waiter_OK ==
  ASSUME TypeOK, NEW w \in TurnId, register_cancel_waiter(w) PROVE Effect
<1> DEFINE k == [task[w] EXCEPT !.pc = "armed", !.waiter = "armed"]
<1>1. /\ task[w].pc = "claimed" /\ UNCHANGED <<sql, dbos, up, op, execs, bounds>>
      /\ Becomes(w, k)
  BY Zenon DEF register_cancel_waiter, AtStep
<1>2. /\ k \in TaskRec /\ k.pc = "armed" /\ k.turn = task[w].turn /\ k.chain = task[w].chain
      /\ k.idx = task[w].idx /\ k.issued = task[w].issued
  BY ZenonT(60), AtTask, ArmedRec
<1> HIDE DEF k
<1>3. Calm(w, k)
  BY <1>1, <1>2, AtTask, Zenon DEF Calm, Bound, HoldsOn, Holds, ToolPcs
<1> QED BY <1>1, <1>3, TaskOnly, Zenon

\* launch_tool keeps the types, and moves runs and holders as Effect says.
LEMMA launch_tool_OK == ASSUME TypeOK, NEW w \in TurnId, launch_tool(w) PROVE Effect
<1>1. task[w].pc = "armed" /\ UNCHANGED <<sql, dbos, up, op, execs, bounds>>
  BY Zenon DEF launch_tool, AtStep
<1>2. CASE cancelReq \/ task[w].waiter = "fired"
  <2>1. ToCancel(w, {}, RestOfBatch(w), "chain") /\ RestOfBatch(w) \in SUBSET Tool
    BY <1>1, <1>2, CallBound, Zenon DEF launch_tool, RestOfBatch, ToolPcs
  <2> QED BY <1>1, <2>1, ToCancelCalm, TaskOnly, Zenon
<1>3. CASE ~(cancelReq \/ task[w].waiter = "fired")
  <2> DEFINE k == [task[w] EXCEPT !.pc = "running"]
  <2>1. Becomes(w, k)
    BY <1>3, Zenon DEF launch_tool, Goto
  <2>2. /\ k \in TaskRec /\ k.pc = "running" /\ k.turn = task[w].turn /\ k.chain = task[w].chain
        /\ k.idx = task[w].idx /\ k.issued = task[w].issued
    BY AtTask DEF TaskRec, TaskPcs
  <2> HIDE DEF k
  <2>3. Calm(w, k)
    BY <1>1, <2>2, AtTask, Zenon DEF Calm, Bound, HoldsOn, Holds, ToolPcs
  <2> QED BY <1>1, <2>1, <2>3, TaskOnly, Zenon
<1> QED BY <1>2, <1>3, Zenon
Returned(r, c) == [r EXCEPT !.pc = "save", !.waiter = "none", !.issued = FALSE, !.code = c]

\* A tool's result keeps the call it belongs to.
LEMMA ReturnedRec ==
  ASSUME NEW r \in TaskRec, NEW c \in Codes
  PROVE  LET k == Returned(r, c)
         IN /\ k \in TaskRec /\ k.pc = "save" /\ k.turn = r.turn /\ k.chain = r.chain
            /\ k.idx = r.idx
<1>1. "save" \in TaskPcs
  BY Zenon DEF TaskPcs
<1> QED BY Zenon, <1>1 DEF TaskRec, Returned

\* tool_returns keeps the types, and moves runs and holders as Effect says.
LEMMA tool_returns_OK == ASSUME TypeOK, NEW w \in TurnId, tool_returns(w) PROVE Effect
<1>1. /\ task[w].pc = "running" /\ UNCHANGED <<sql, dbos, up, op, execs, bounds>>
      /\ \E c \in {"ok", "failed"} : Becomes(w, Returned(task[w], c))
  BY ZenonT(60) DEF tool_returns, AtStep, Returned
<1>2. PICK c \in {"ok", "failed"} : Becomes(w, Returned(task[w], c))
  BY <1>1, Zenon
<1> DEFINE k == Returned(task[w], c)
<1>3. c \in Codes
  BY Zenon DEF Codes
<1>4. /\ k \in TaskRec /\ k.pc = "save" /\ k.turn = task[w].turn /\ k.chain = task[w].chain
      /\ k.idx = task[w].idx
  BY <1>3, AtTask, ReturnedRec, Zenon
<1> HIDE DEF k
<1>5. Calm(w, k)
  BY <1>1, <1>4, AtTask, Zenon DEF Calm, Bound, HoldsOn, Holds, ToolPcs
<1> QED BY <1>1, <1>2, <1>5, TaskOnly, Zenon DEF k

\* stop_tool keeps the types, and moves runs and holders as Effect says.
LEMMA stop_tool_OK == ASSUME TypeOK, NEW w \in TurnId, stop_tool(w) PROVE Effect
<1> DEFINE unk == IF task[w].issued THEN {task[w].idx} ELSE {}
<1>1. /\ task[w].pc = "running" /\ UNCHANGED <<sql, dbos, up, op, execs, bounds>>
      /\ ToCancel(w, unk, RestOfBatch(w) \ unk, "chain")
  BY Zenon DEF stop_tool, AtStep
<1>2. unk \in SUBSET Tool /\ RestOfBatch(w) \ unk \in SUBSET Tool
  BY <1>1, CallBound, Zenon DEF RestOfBatch, ToolPcs
<1> HIDE DEF unk
<1> QED BY <1>1, <1>2, ToCancelCalm, TaskOnly, Zenon

\* batch_boundary keeps the types, and moves runs and holders as Effect says.
LEMMA batch_boundary_OK == ASSUME TypeOK, NEW w \in TurnId, batch_boundary(w) PROVE Effect
<1>1. task[w].pc # "idle" /\ UNCHANGED <<sql, dbos, up, op, execs, bounds>>
  BY Zenon DEF batch_boundary, AtStep
<1>2. CASE cancelReq
  BY <1>1, <1>2, ToCancelCalm, TaskOnly, Zenon DEF batch_boundary
<1>3. CASE ~cancelReq
  <2>1. PICK p \in {"limit", "continue"} : Becomes(w, [task[w] EXCEPT !.pc = p])
    BY <1>3, Zenon DEF batch_boundary, Goto
  <2>2. p \in TaskPcs /\ p \notin ToolPcs \cup {"tool", "persist"}
    BY Zenon DEF TaskPcs, ToolPcs
  <2> QED BY <1>1, <2>1, <2>2, GotoCalm, TaskOnly, Zenon
<1> QED BY <1>2, <1>3, Zenon
Stopping(r, t, unk, can) == [r EXCEPT !.pc = "stopcommit", !.turn = t, !.unk = unk, !.can = can]

\* reconcile_cancellation read by the agent's stop: only the turn changes hands.
LEMMA StoppingRec ==
  ASSUME NEW r \in TaskRec, NEW t \in RunOrNull, NEW unk \in SUBSET Tool, NEW can \in SUBSET Tool
  PROVE  LET k == Stopping(r, t, unk, can)
         IN k \in TaskRec /\ k.pc = "stopcommit" /\ k.turn = t /\ k.chain = r.chain
<1>1. "stopcommit" \in TaskPcs
  BY Zenon DEF TaskPcs
<1> QED BY Zenon, <1>1 DEF TaskRec, Stopping

\* agent_stopped keeps the types, and moves runs and holders as Effect says.
LEMMA agent_stopped_OK == ASSUME TypeOK, NEW w \in TurnId, agent_stopped(w) PROVE Effect
<1>1. task[w].pc = "stopped" /\ UNCHANGED <<sql, dbos, up, op, execs, bounds>>
  BY Zenon DEF agent_stopped, AtStep
<1>2. CASE RunOfWorkflow(w) = {}
  <2>1. Becomes(w, [task[w] EXCEPT !.pc = "reserve"])
    BY <1>2, Zenon DEF agent_stopped, Goto
  <2>2. "reserve" \in TaskPcs /\ "reserve" \notin ToolPcs \cup {"tool", "persist"}
    BY Zenon DEF TaskPcs, ToolPcs
  <2> QED BY <1>1, <2>1, <2>2, GotoCalm, TaskOnly, Zenon
<1>3. CASE RunOfWorkflow(w) # {}
  <2>1. PICK t \in RunOfWorkflow(w) :
          Becomes(w, Stopping(task[w], t, IntentTools(t), OpenTools(t) \ IntentTools(t)))
    BY ZenonT(60), <1>3 DEF agent_stopped, Stopping
  <2> DEFINE k == Stopping(task[w], t, IntentTools(t), OpenTools(t) \ IntentTools(t))
  <2>2. k \in TaskRec /\ k.pc = "stopcommit" /\ k.turn = t /\ k.chain = task[w].chain
    BY SMTT(30), AtTask, StoppingRec, OpenToolsType, RunningType, TurnIdIsRun
  <2> HIDE DEF k
  <2>3. task[w].chain \in TurnId /\ t \in TurnId
    BY <1>1, AtTask, RunningType, Zenon DEF Bound
  <2>4. Calm(w, k)
    BY <2>2, <2>3, AwayCalm, Zenon DEF ToolPcs
  <2> QED BY <1>1, <2>1, <2>4, TaskOnly, Zenon DEF k
<1> QED BY <1>2, <1>3, Zenon

\* The level of the exception handling and the turn, set with the place.
AtLevel(r, p, l) == [r EXCEPT !.pc = p, !.lvl = l]
OnTurn(r, p, t) == [r EXCEPT !.pc = p, !.turn = t]

\* Setting the level of the exception handling keeps the rest of a task.
LEMMA LevelRec ==
  ASSUME NEW r \in TaskRec, NEW p \in TaskPcs, NEW l \in {1, 2}
  PROVE  LET k == AtLevel(r, p, l)
         IN k \in TaskRec /\ k.pc = p /\ k.turn = r.turn /\ k.chain = r.chain
  BY Zenon DEF TaskRec, AtLevel

\* Moving a task to another turn keeps its chain.
LEMMA OnTurnRec ==
  ASSUME NEW r \in TaskRec, NEW p \in TaskPcs, NEW t \in RunOrNull
  PROVE  LET k == OnTurn(r, p, t)
         IN k \in TaskRec /\ k.pc = p /\ k.turn = t /\ k.chain = r.chain
  BY Zenon DEF TaskRec, OnTurn

\* Both moves, away from the tool calls, are calm.
LEMMA LevelCalm ==
  ASSUME TypeOK, NEW w \in TurnId, task[w].pc # "idle",
         NEW p \in TaskPcs, p \notin ToolPcs \cup {"tool", "persist"}
  PROVE  /\ \A l \in {1, 2} : Calm(w, AtLevel(task[w], p, l))
         /\ \A t \in TurnId : Calm(w, OnTurn(task[w], p, t))
<1>1. task[w] \in TaskRec /\ task[w].turn \in TurnId /\ task[w].chain \in TurnId
  BY AtTask, Zenon DEF Bound
<1>2. ASSUME NEW l \in {1, 2} PROVE Calm(w, AtLevel(task[w], p, l))
  <2> DEFINE k == AtLevel(task[w], p, l)
  <2>1. k \in TaskRec /\ k.pc = p /\ k.turn = task[w].turn /\ k.chain = task[w].chain
    BY <1>1, LevelRec, Zenon
  <2> HIDE DEF k
  <2>2. Calm(w, k)
    BY <1>1, <2>1, AwayCalm, Zenon
  <2> QED BY <2>2, Zenon DEF k
<1>3. ASSUME NEW t \in TurnId PROVE Calm(w, OnTurn(task[w], p, t))
  <2> DEFINE k == OnTurn(task[w], p, t)
  <2>1. k \in TaskRec /\ k.pc = p /\ k.turn = t /\ k.chain = task[w].chain
    BY SMTT(30), <1>1, OnTurnRec, TurnIdIsRun
  <2> HIDE DEF k
  <2>2. Calm(w, k)
    BY <1>1, <2>1, AwayCalm, Zenon
  <2> QED BY <2>2, Zenon DEF k
<1> QED BY <1>2, <1>3, Zenon

\* fail_unexpected_chain keeps the types, and moves runs and holders as Effect says.
LEMMA fail_unexpected_chain_OK ==
  ASSUME TypeOK, NEW w \in TurnId, fail_unexpected_chain(w) PROVE Effect
<1>1. task[w].pc # "idle" /\ UNCHANGED <<sql, dbos, up, op, execs, bounds>>
  BY Zenon DEF fail_unexpected_chain, AtStep
<1>2. \A p \in {"reserve", "chainrepair"} : p \in TaskPcs /\ p \notin ToolPcs \cup {"tool", "persist"}
  BY Zenon DEF TaskPcs, ToolPcs
<1>3. CASE Running = {}
  <2>1. Becomes(w, AtLevel(task[w], "reserve", 1))
    BY <1>3, Zenon DEF fail_unexpected_chain, AtLevel
  <2> QED BY <1>1, <1>2, <2>1, LevelCalm, TaskOnly, Zenon
<1>4. CASE Running # {}
  <2>1. PICK t \in Running : Becomes(w, OnTurn(task[w], "chainrepair", t))
    BY Zenon, <1>4 DEF fail_unexpected_chain, OnTurn
  <2>2. t \in TurnId
    BY RunningType, Zenon
  <2> QED BY <1>1, <1>2, <2>1, <2>2, LevelCalm, TaskOnly, Zenon
<1> QED BY <1>3, <1>4, Zenon

-----------------------------------------------------------------------------
(***************************************************************************)
(* Preparing a turn.                                                       *)
(***************************************************************************)

\* Moving on to such a place keeps the types and the holders.
LEMMA GotoStep ==
  ASSUME TypeOK, NEW w \in TurnId, task[w].pc # "idle",
         NEW p \in TaskPcs, p \notin ToolPcs \cup {"tool", "persist"}, Goto(w, p), UNCHANGED jResp
  PROVE  /\ TaskType' /\ TaskBound'
         /\ \A v \in TurnId : HoldsOn(task[v], task'[v])
  BY GotoCalm, TaskStep, Zenon DEF Goto, TypeOK

\* prepare_turn's journal entry is typed.
LEMMA PrepJournal ==
  ASSUME JournalType, NEW w \in TurnId, NEW t \in TurnId, NEW r \in {"ok", "err"},
         jPrep' = [jPrep EXCEPT ![w][t] = r], UNCHANGED <<jResp, jTool, jRes>>
  PROVE  JournalType'
  BY Zenon DEF JournalType

\* An execution under way has a turn and a chain.
LEMMA TurnOf ==
  ASSUME TypeOK, NEW w \in TurnId, task[w].pc # "idle"
  PROVE  task[w].turn \in TurnId /\ task[w].chain \in TurnId
  BY AtTask, Zenon DEF Bound

\* A failing prepare_turn: journaled, and the task moves to the failure.
LEMMA PrepareFailsStep ==
  ASSUME TypeOK, NEW w \in TurnId, task[w].pc # "idle", PrepareFails(w),
         UNCHANGED <<jResp, jTool, jRes>>
  PROVE  /\ JournalType' /\ TaskType' /\ TaskBound'
         /\ \A v \in TurnId : HoldsOn(task[v], task'[v])
<1>1. JournalType'
  BY Zenon, TurnOf, PrepJournal DEF PrepareFails, TypeOK
<1>2. "preflight" \in TaskPcs /\ "preflight" \notin ToolPcs \cup {"tool", "persist"}
  BY Zenon DEF TaskPcs, ToolPcs
<1> QED BY <1>1, <1>2, GotoStep, Zenon DEF PrepareFails

\* prepare_fault keeps the types, and moves runs and holders as Effect says.
LEMMA prepare_fault_OK == ASSUME TypeOK, NEW w \in TurnId, prepare_fault(w) PROVE Effect
<1>1. /\ task[w].pc # "idle" /\ PrepareFails(w)
      /\ UNCHANGED <<accepted, pending, rows, run, nrun, ops, requests, cancelReq, cancels, revoked,
                     wf, queue, jResp, jTool, jRes, up, op, execs, stops, crashes, revokes>>
  BY Zenon DEF prepare_fault, AtStep, sql, bounds
<1> QED BY <1>1, PrepareFailsStep, Keep, Zenon DEF TypeOK, Effect, HolderStep

\* capture_pending_for_turn keeps the types, and moves runs and holders as Effect says.
LEMMA capture_pending_for_turn_OK ==
  ASSUME TypeOK, NEW w \in TurnId, capture_pending_for_turn(w) PROVE Effect
<1> DEFINE t == task[w].turn
           p == _valid_contiguous_profile_prefix(pending, run[t].guest)
<1>1. /\ task[w].pc # "idle"
      /\ UNCHANGED <<accepted, pending, rows, nrun, ops, requests, cancelReq, cancels, revoked,
                     wf, queue, jResp, jTool, jRes, up, op, execs, stops, crashes, revokes>>
  BY Zenon DEF capture_pending_for_turn, AtStep, bounds
<1>2. CASE PrepareFails(w) /\ UNCHANGED run
  BY <1>1, <1>2, PrepareFailsStep, Keep, Zenon DEF TypeOK, Effect, HolderStep
<1>3. CASE /\ Goto(w, "repair") /\ UNCHANGED jPrep
           /\ run' = IF run[t].inputs # <<>> THEN run ELSE [run EXCEPT ![t].inputs = p]
  <2>1. "repair" \in TaskPcs /\ "repair" \notin ToolPcs \cup {"tool", "persist"}
    BY Zenon DEF TaskPcs, ToolPcs
  <2>2. TaskType' /\ TaskBound' /\ \A v \in TurnId : HoldsOn(task[v], task'[v])
    BY <1>1, <1>3, <2>1, GotoStep, Zenon
  <2>3. t \in TurnId /\ run \in [TurnId -> RunRec] /\ run[t] \in RunRec /\ run[t].guest \in BOOLEAN
    BY ZenonT(60), <1>1, TurnOf DEF TypeOK, RunType, RunRec
  <2>4. p \in Seq(Msgs) /\ \A i \in DOMAIN p : (p[i] \in Guests) = run[t].guest
    BY <2>3, PrefixOK, Zenon DEF TypeOK, InboxType
  <2> HIDE DEF p, t
  <2>5. RunType' /\ RunStep
    <3>1. CASE run' = run
      BY <1>1, <3>1, Keep, Zenon DEF TypeOK
    <3>2. CASE run' = [run EXCEPT ![t].inputs = p]
      <4>1. [run[t] EXCEPT !.inputs = p] \in RunRec
        BY Zenon, <2>3, <2>4 DEF RunRec
      <4>2. \A u \in TurnId : run'[u] = IF u = t THEN [run[t] EXCEPT !.inputs = p] ELSE run[u]
        BY <3>2, <2>3, Zenon
      <4>3. RunType'
        BY <1>1, <2>3, <3>2, <4>1, <4>2, Zenon DEF TypeOK, RunType
      <4>4. /\ run'[t].inputs = p /\ run'[t].guest = run[t].guest
            /\ run'[t].status = run[t].status
        BY <4>2, <2>3, Zenon DEF RunRec
      <4>5. Isolated(run'[t])
        BY <2>4, <4>4, Zenon DEF Isolated
      <4>6. \A u \in TurnId : run'[u].status = run[u].status /\ (Isolated(run[u]) => Isolated(run'[u]))
        BY <4>2, <4>4, <4>5, Zenon
      <4> QED BY <1>1, <4>3, <4>6, Zenon DEF RunStep, Fills
    <3> QED BY <1>3, <3>1, <3>2, Zenon
  <2> QED BY <1>1, <1>3, <2>2, <2>5, Keep, Zenon DEF TypeOK, Effect, HolderStep
<1> QED BY <1>2, <1>3, Zenon DEF capture_pending_for_turn

\* repair_unpaired_tool_uses keeps the types, and moves runs and holders as Effect says.
LEMMA repair_unpaired_tool_uses_OK ==
  ASSUME TypeOK, NEW w \in TurnId, repair_unpaired_tool_uses(w) PROVE Effect
<1>1. /\ task[w].pc # "idle"
      /\ UNCHANGED <<accepted, pending, run, nrun, ops, requests, cancelReq, cancels, revoked,
                     wf, queue, jResp, jTool, jRes, up, op, execs, stops, crashes, revokes>>
  BY Zenon DEF repair_unpaired_tool_uses, AtStep, bounds
<1>2. CASE PrepareFails(w) /\ UNCHANGED rows
  BY ZenonT(60), <1>1, <1>2, PrepareFailsStep, Keep DEF TypeOK, Effect, HolderStep
<1>3. CASE /\ \E new \in RepairRows(task[w].turn) : rows' = rows \o new
           /\ Goto(w, "promote") /\ UNCHANGED jPrep
  <2>1. "promote" \in TaskPcs /\ "promote" \notin ToolPcs \cup {"tool", "persist"}
    BY Zenon DEF TaskPcs, ToolPcs
  <2>2. TaskType' /\ TaskBound' /\ \A v \in TurnId : HoldsOn(task[v], task'[v])
    BY <1>1, <1>3, <2>1, GotoStep, Zenon
  <2>3. PICK new \in RepairRows(task[w].turn) : rows' = rows \o new
    BY <1>3, Zenon
  <2>4. new \in Seq(RowRec)
    BY ZenonT(60), <1>1, TurnOf, TurnIdIsRun, RepairRowsType DEF TypeOK
  <2>5. RowType'
    BY <2>3, <2>4, ConcatProperties, Zenon DEF TypeOK, RowType
  <2> QED BY <1>1, <1>3, <2>2, <2>5, Keep, Zenon DEF TypeOK, Effect, HolderStep
<1> QED BY <1>2, <1>3, Zenon DEF repair_unpaired_tool_uses

\* promote_pending_for_turn keeps the types, and moves runs and holders as Effect says.
LEMMA promote_pending_for_turn_OK ==
  ASSUME TypeOK, NEW w \in TurnId, promote_pending_for_turn(w) PROVE Effect
<1>1. /\ task[w].pc # "idle"
      /\ UNCHANGED <<accepted, run, nrun, ops, requests, cancelReq, cancels, revoked,
                     wf, queue, jResp, jTool, jRes, up, op, execs, stops, crashes, revokes>>
  BY Zenon DEF promote_pending_for_turn, AtStep, bounds
<1>2. CASE PrepareFails(w) /\ UNCHANGED <<rows, pending>>
  BY ZenonT(60), <1>1, <1>2, PrepareFailsStep, Keep DEF TypeOK, Effect, HolderStep
<1>3. CASE promote_pending(task[w].turn) /\ Goto(w, "journal") /\ UNCHANGED jPrep
  <2>1. "journal" \in TaskPcs /\ "journal" \notin ToolPcs \cup {"tool", "persist"}
    BY ZenonT(60) DEF TaskPcs, ToolPcs
  <2>2. TaskType' /\ TaskBound' /\ \A v \in TurnId : HoldsOn(task[v], task'[v])
    BY <1>1, <1>3, <2>1, GotoStep, Zenon
  <2>3. RowType' /\ InboxType'
    BY ZenonT(60), <1>1, <1>3, TurnOf, PromoteOK DEF TypeOK, InboxType
  <2> QED BY <1>1, <1>3, <2>2, <2>3, Keep, Zenon DEF TypeOK, Effect, HolderStep
<1> QED BY ZenonT(60), <1>2, <1>3 DEF promote_pending_for_turn

\* prepare_journal keeps the types, and moves runs and holders as Effect says.
LEMMA prepare_journal_OK == ASSUME TypeOK, NEW w \in TurnId, prepare_journal(w) PROVE Effect
<1>1. /\ task[w].pc # "idle" /\ Goto(w, "prepared")
      /\ jPrep' = [jPrep EXCEPT ![w][task[w].turn] = "ok"]
      /\ UNCHANGED <<accepted, pending, rows, run, nrun, ops, requests, cancelReq, cancels, revoked,
                     wf, queue, jResp, jTool, jRes, up, op, execs, stops, crashes, revokes>>
  BY Zenon DEF prepare_journal, AtStep, sql, bounds
<1>2. "prepared" \in TaskPcs /\ "prepared" \notin ToolPcs \cup {"tool", "persist"}
  BY Zenon DEF TaskPcs, ToolPcs
<1>3. TaskType' /\ TaskBound' /\ \A v \in TurnId : HoldsOn(task[v], task'[v])
  BY <1>1, <1>2, GotoStep, Zenon
<1>4. JournalType'
  BY ZenonT(60), <1>1, TurnOf, PrepJournal DEF TypeOK
<1> QED BY <1>1, <1>3, <1>4, Keep, Zenon DEF TypeOK, Effect, HolderStep

-----------------------------------------------------------------------------
(***************************************************************************)
(* The model request and the tool batch.                                   *)
(***************************************************************************)
\* reserve_request keeps the types, and moves runs and holders as Effect says.
LEMMA reserve_request_OK == ASSUME TypeOK, NEW w \in TurnId, reserve_request(w) PROVE Effect
<1>1. /\ task[w].pc # "idle"
      /\ UNCHANGED <<accepted, pending, rows, run, nrun, ops, cancelReq, cancels, revoked,
                     wf, queue, jPrep, jResp, jTool, jRes, up, op, execs, stops, crashes, revokes>>
  BY ZenonT(60) DEF reserve_request, AtStep, dbos, bounds
<1>2. PICK p \in {"limit", "calling", "refused", "persist"} :
        Goto(w, p) /\ (p = "persist" => jResp[w][task[w].turn] \notin {Unasked, Refused})
  BY Zenon DEF reserve_request
<1> DEFINE k == [task[w] EXCEPT !.pc = p]
<1>3. p \in TaskPcs /\ p \notin ToolPcs \cup {"tool"}
  BY ZenonT(60) DEF TaskPcs, ToolPcs
<1>4. TaskType' /\ TaskBound' /\ \A v \in TurnId : HoldsOn(task[v], task'[v])
  <2>1. k \in TaskRec /\ k.pc = p /\ k.turn = task[w].turn /\ k.chain = task[w].chain
    BY <1>3, AtTask DEF TaskRec
  <2>2. jResp[w][task[w].turn] \in Unasked..MaxBatch
    BY <1>1, TurnOf, Zenon DEF TypeOK, JournalType
  <2>3. p = "persist" => jResp[w][task[w].turn] >= 0
    BY <1>2, <2>2, ConversationAssumption DEF Unasked, Refused
  <2>4. Becomes(w, k)
    BY ZenonT(60), <1>2 DEF Goto
  <2> HIDE DEF k
  <2>5. Calm(w, k)
    BY ZenonT(60), <1>1, <1>3, <2>1, <2>3, TurnOf DEF Calm, Bound, HoldsOn, Holds, ToolPcs
  <2> QED BY <1>1, <2>4, <2>5, TaskStep, Zenon DEF TypeOK
<1>5. requests' \subseteq requests \cup {<<task[w].turn, w>>}
  BY Zenon DEF reserve_request
<1>6. ReceiptType'
  <2> DEFINE t == task[w].turn
  <2>1. t \in TurnId /\ ops \subseteq TurnId \X Tool /\ requests \subseteq TurnId \X TurnId
    BY <1>1, TurnOf, Zenon DEF TypeOK, ReceiptType
  <2>2. requests' \subseteq requests \cup {<<t, w>>}
    BY <1>5, Zenon
  <2> HIDE DEF t
  <2>3. <<t, w>> \in TurnId \X TurnId
    BY <2>1, Zenon
  <2>4. requests' \subseteq TurnId \X TurnId
    BY Zenon, <2>1, <2>2, <2>3
  <2> QED BY Zenon, <1>1, <2>1, <2>4 DEF ReceiptType
<1> QED BY Zenon, <1>1, <1>4, <1>6, Keep DEF TypeOK, Effect, HolderStep

\* model_returns keeps the types, and moves runs and holders as Effect says.
LEMMA model_returns_OK ==
  ASSUME TypeOK, NEW w \in TurnId, NEW n \in Refused..MaxBatch, model_returns(w, n) PROVE Effect
<1> DEFINE t == task[w].turn
<1>1. /\ task[w].pc # "idle" /\ jResp' = [jResp EXCEPT ![w][t] = n]
      /\ UNCHANGED <<accepted, pending, rows, run, nrun, ops, requests, cancelReq, cancels, revoked,
                     wf, queue, jPrep, jTool, jRes, up, op, execs, stops, crashes, revokes>>
  BY Zenon DEF model_returns, AtStep, sql, bounds
<1>2. PICK p \in {"refused", "persist"} : Goto(w, p) /\ (p = "persist" => n # Refused)
  BY Zenon DEF model_returns
<1> DEFINE k == [task[w] EXCEPT !.pc = p]
<1>3. p \in TaskPcs /\ p \notin ToolPcs \cup {"tool"}
  BY Zenon DEF TaskPcs, ToolPcs
<1>4. Becomes(w, k)
  BY <1>2, Zenon DEF Goto
<1>5. k \in TaskRec /\ k.pc = p /\ k.turn = t /\ k.chain = task[w].chain
  BY <1>3, AtTask DEF TaskRec
<1> HIDE DEF k
<1>6. task' = [task EXCEPT ![w] = k] /\ task \in [TurnId -> TaskRec]
  BY <1>4, Zenon DEF Becomes, TypeOK, TaskType
<1>7. \A v \in TurnId : task'[v] = IF v = w THEN k ELSE task[v]
  BY <1>6, Zenon
<1>8. TaskType' /\ \A v \in TurnId : HoldsOn(task[v], task'[v])
  BY <1>5, <1>6, <1>7, Zenon DEF TaskType, HoldsOn, Holds
<1>9. ASSUME NEW v \in TurnId PROVE Bound(v, task[v])'
  <2>1. CASE v = w
    <3>1. t \in TurnId /\ task[w].chain \in TurnId
      BY <1>1, TurnOf, Zenon
    <3>2. jResp'[w][t] = n
      BY <1>1, <3>1, Zenon DEF TypeOK, JournalType
    <3>3. p = "persist" => n >= 0
      BY <1>2, ConversationAssumption DEF Refused
    <3> HIDE DEF t
    <3> QED BY <1>3, <1>5, <1>7, <2>1, <3>1, <3>2, <3>3, Zenon DEF Bound
  <2>2. CASE v # w
    <3>1. jResp'[v] = jResp[v]
      BY <1>1, <2>2, Zenon DEF TypeOK, JournalType
    <3> QED BY <1>7, <2>2, <3>1, Zenon DEF TypeOK, TaskBound, Bound
  <2> QED BY <2>1, <2>2, Zenon
<1>10. JournalType'
  <2>1. n \in Unasked..MaxBatch
    BY ConversationAssumption DEF Unasked, Refused
  <2> QED BY Zenon, <1>1, <2>1 DEF TypeOK, JournalType
<1> QED BY <1>1, <1>8, <1>9, <1>10, Keep, Zenon DEF TypeOK, TaskBound, Effect, HolderStep
Answered(r, p) == [r EXCEPT !.pc = p, !.idx = 1, !.reqs = @ + 1]

\* The saved assistant row starts the batch at its first call.
LEMMA AnsweredRec ==
  ASSUME NEW r \in TaskRec, NEW p \in TaskPcs
  PROVE  LET k == Answered(r, p)
         IN /\ k \in TaskRec /\ k.pc = p /\ k.turn = r.turn /\ k.chain = r.chain /\ k.idx = 1
<1> DEFINE m == r.reqs + 1
<1>1. m \in Nat
  BY DEF TaskRec
<1>2. Answered(r, p) = [r EXCEPT !.pc = p, !.idx = 1, !.reqs = m]
  BY Zenon DEF Answered
<1> HIDE DEF m
<1> DEFINE k == [r EXCEPT !.pc = p, !.idx = 1, !.reqs = m]
<1>3. k \in TaskRec
  <2> DEFINE one == 1
  <2>1. one \in Nat
    BY Zenon
  <2> HIDE DEF one
  <2>2. [r EXCEPT !.pc = p, !.idx = one, !.reqs = m] \in TaskRec
    BY Zenon, <1>1, <2>1 DEF TaskRec
  <2> QED BY <2>2, Zenon DEF one
<1>4. k.pc = p /\ k.turn = r.turn /\ k.chain = r.chain /\ k.idx = 1
  BY Zenon DEF TaskRec
<1> QED BY <1>2, <1>3, <1>4, Zenon

\* persist_assistant keeps the types, and moves runs and holders as Effect says.
LEMMA persist_assistant_OK == ASSUME TypeOK, NEW w \in TurnId, persist_assistant(w) PROVE Effect
<1> DEFINE t == task[w].turn
           n == jResp[w][t]
<1>1. /\ task[w].pc = "persist"
      /\ UNCHANGED <<accepted, pending, run, nrun, ops, requests, cancelReq, cancels, revoked,
                     wf, queue, jPrep, jResp, jTool, jRes, up, op, execs, stops, crashes, revokes>>
  BY Zenon DEF persist_assistant, AtStep, dbos, bounds
<1>2. t \in TurnId /\ t \in RunOrNull /\ w \in RunOrNull
  BY <1>1, TurnOf, TurnIdIsRun, Zenon
<1>3. CASE Goto(w, "provider") /\ UNCHANGED rows
  <2>1. "provider" \in TaskPcs /\ "provider" \notin ToolPcs \cup {"tool", "persist"}
    BY Zenon DEF TaskPcs, ToolPcs
  <2>2. TaskType' /\ TaskBound' /\ \A v \in TurnId : HoldsOn(task[v], task'[v])
    BY ZenonT(60), <1>1, <1>3, <2>1, GotoStep
  <2> QED BY ZenonT(60), <1>1, <1>3, <2>2, Keep DEF TypeOK, Effect, HolderStep
<1>4. CASE /\ rows' = rows \/ rows' = Append(rows, AssistantRow(t, n, w))
           /\ \E p \in {"final", "tool"} : Becomes(w, Answered(task[w], p))
  <2>1. PICK p \in {"final", "tool"} : Becomes(w, Answered(task[w], p))
    BY <1>4, Zenon
  <2>2. p \in TaskPcs /\ p \notin ToolPcs
    BY Zenon DEF TaskPcs, ToolPcs
  <2> DEFINE k == Answered(task[w], p)
  <2>3. k \in TaskRec /\ k.pc = p /\ k.turn = t /\ k.chain = task[w].chain /\ k.idx = 1
    BY <2>2, AtTask, AnsweredRec, Zenon
  <2> HIDE DEF k
  <2>4. Calm(w, k)
    BY <1>1, <2>2, <2>3, TurnOf, AwayCalm DEF ToolPcs
  <2>5. TaskType' /\ TaskBound' /\ \A v \in TurnId : HoldsOn(task[v], task'[v])
    BY <1>1, <2>1, <2>4, TaskStep, Zenon DEF TypeOK, k
  <2>6. RowType'
    <3>1. CASE rows' = rows
      BY <3>1, Keep, Zenon DEF TypeOK
    <3>2. CASE rows' = Append(rows, AssistantRow(t, n, w))
      <4>1. n \in Unasked..MaxBatch /\ n >= 0
        BY ZenonT(60), <1>1, <1>2, AtTask DEF TypeOK, JournalType, Bound
      <4>2. n \in Nat
        BY <4>1, ConversationAssumption DEF Unasked
      <4> HIDE DEF n, t
      <4> QED BY ZenonT(60), <1>2, <3>2, <4>2, RowTypes, AppendProperties DEF TypeOK, RowType
    <3> QED BY <1>4, <3>1, <3>2, Zenon
  <2> QED BY ZenonT(60), <1>1, <2>5, <2>6, Keep DEF TypeOK, Effect, HolderStep
<1> QED BY ZenonT(60), <1>3, <1>4 DEF persist_assistant, Answered

\* The claim and the issue of a call, the two steps that concern a holder.
ClaimStep(w) ==
  LET c == <<task[w].turn, task[w].idx>>
  IN /\ c \notin ops /\ ops' = ops \cup {c} /\ UNCHANGED execs
     /\ task'[w].turn = task[w].turn /\ task'[w].idx = task[w].idx
     /\ \A v \in TurnId : v # w => task'[v] = task[v]
IssueStep(w) ==
  /\ Holds(task[w]) /\ ~Holds(task'[w]) /\ UNCHANGED ops
  /\ execs' = [execs EXCEPT ![task[w].turn][task[w].idx] = @ + 1]
  /\ \A v \in TurnId : v # w => task'[v] = task[v]

\* The types of the tasks after one typed, bounded update.
LEMMA TaskUpdate ==
  ASSUME TaskType, TaskBound, NEW w \in TurnId, NEW k \in TaskRec, Bound(w, k), Becomes(w, k),
         UNCHANGED jResp
  PROVE  /\ TaskType' /\ TaskBound'
         /\ \A v \in TurnId : task'[v] = IF v = w THEN k ELSE task[v]
<1>1. task' = [task EXCEPT ![w] = k] /\ task \in [TurnId -> TaskRec]
  BY Zenon DEF Becomes, TaskType
<1>2. \A v \in TurnId : task'[v] = IF v = w THEN k ELSE task[v]
  BY <1>1, Zenon
<1>3. ASSUME NEW v \in TurnId PROVE Bound(v, task[v])'
  <2>1. CASE v = w
    BY ZenonT(60), <1>2, <2>1 DEF Bound
  <2>2. CASE v # w
    BY <1>2, <2>2, Zenon DEF TaskBound, Bound
  <2> QED BY <2>1, <2>2, Zenon
<1> QED BY <1>1, <1>2, <1>3, Zenon DEF TaskType, TaskBound
Coded(r, p, c) == [r EXCEPT !.pc = p, !.code = c]
Passed(r) == [r EXCEPT !.pc = "tool", !.idx = @ + 1]

\* A result code keeps the call it belongs to.
LEMMA CodedRec ==
  ASSUME NEW r \in TaskRec, NEW p \in TaskPcs, NEW c \in Codes
  PROVE  LET k == Coded(r, p, c)
         IN /\ k \in TaskRec /\ k.pc = p /\ k.turn = r.turn /\ k.chain = r.chain
            /\ k.idx = r.idx /\ k.code = c
  BY Zenon DEF TaskRec, Coded

\* A call that is passed over moves its task to the next call.
LEMMA PassedRec ==
  ASSUME NEW r \in TaskRec
  PROVE  LET k == Passed(r)
         IN /\ k \in TaskRec /\ k.pc = "tool" /\ k.turn = r.turn /\ k.chain = r.chain
            /\ k.idx >= 1
<1> DEFINE i == r.idx + 1
<1>1. i \in Nat /\ i >= 1 /\ "tool" \in TaskPcs
  BY DEF TaskRec, TaskPcs
<1>2. Passed(r) = [r EXCEPT !.pc = "tool", !.idx = i]
  BY Zenon DEF Passed
<1> HIDE DEF i
<1> DEFINE k == [r EXCEPT !.pc = "tool", !.idx = i]
<1>3. k \in TaskRec
  BY ZenonT(60), <1>1 DEF TaskRec
<1>4. k.pc = "tool" /\ k.turn = r.turn /\ k.chain = r.chain /\ k.idx = i
  BY Zenon DEF TaskRec
<1> HIDE DEF k
<1> QED BY <1>1, <1>2, <1>3, <1>4, Zenon DEF k

\* Passing over a call is calm.
LEMMA PassedCalm ==
  ASSUME TypeOK, NEW w \in TurnId, task[w].pc # "idle"
  PROVE  Calm(w, Passed(task[w]))
<1> DEFINE k == Passed(task[w])
<1>1. /\ k \in TaskRec /\ k.pc = "tool" /\ k.turn = task[w].turn /\ k.chain = task[w].chain
      /\ k.idx >= 1
  BY AtTask, PassedRec, Zenon
<1> HIDE DEF k
<1>2. Calm(w, k)
  BY <1>1, TurnOf, AwayCalm, Zenon DEF ToolPcs
<1> QED BY <1>2, Zenon DEF k

\* claim_tool keeps the types and makes at most one new holder, of a call without receipt.
LEMMA claim_tool_OK ==
  ASSUME TypeOK, NEW w \in TurnId, claim_tool(w)
  PROVE  TypeOK' /\ RunStep /\ (HolderStep \/ ClaimStep(w))
<1> DEFINE t == task[w].turn
           x == task[w].idx
<1>1. /\ task[w].pc = "claim"
      /\ UNCHANGED <<accepted, pending, rows, run, nrun, requests, cancelReq, cancels, revoked,
                     wf, queue, jPrep, jResp, jTool, jRes, up, op, execs, stops, crashes, revokes>>
  BY Zenon DEF claim_tool, AtStep, dbos, bounds
<1>2. t \in TurnId /\ x \in Tool
  BY ZenonT(60), <1>1, CallBound DEF ToolPcs
<1>3. CASE Goto(w, "chain") /\ UNCHANGED ops
  <2>1. "chain" \in TaskPcs /\ "chain" \notin ToolPcs \cup {"tool", "persist"}
    BY Zenon DEF TaskPcs, ToolPcs
  <2>2. TaskType' /\ TaskBound' /\ \A v \in TurnId : HoldsOn(task[v], task'[v])
    BY ZenonT(60), <1>1, <1>3, <2>1, GotoStep
  <2> QED BY <1>1, <1>3, <2>2, Keep, Zenon DEF TypeOK, HolderStep
<1>4. CASE Becomes(w, Passed(task[w])) /\ UNCHANGED ops
  <2>1. TaskType' /\ TaskBound' /\ \A v \in TurnId : HoldsOn(task[v], task'[v])
    BY ZenonT(60), <1>1, <1>4, PassedCalm, TaskStep DEF TypeOK
  <2> QED BY <1>1, <1>4, <2>1, Keep, Zenon DEF TypeOK, HolderStep
<1>5. CASE Becomes(w, Coded(task[w], "save", "unknown")) /\ UNCHANGED ops
  <2> DEFINE k == Coded(task[w], "save", "unknown")
  <2>1. /\ k \in TaskRec /\ k.pc = "save" /\ k.turn = t /\ k.chain = task[w].chain /\ k.idx = x
    <3>1. "save" \in TaskPcs /\ "unknown" \in Codes
      BY Zenon DEF TaskPcs, Codes
    <3> QED BY <3>1, AtTask, CodedRec
  <2> HIDE DEF k
  <2>2. Calm(w, k)
    BY ZenonT(60), <1>1, <2>1, AtTask DEF Calm, Bound, HoldsOn, Holds, ToolPcs
  <2>3. TaskType' /\ TaskBound' /\ \A v \in TurnId : HoldsOn(task[v], task'[v])
    BY ZenonT(60), <1>1, <1>5, <2>2, TaskStep DEF TypeOK, k
  <2> QED BY ZenonT(60), <1>1, <1>5, <2>3, Keep DEF TypeOK, HolderStep
<1>6. CASE <<t, x>> \notin ops /\ Goto(w, "claimed") /\ ops' = ops \cup {<<t, x>>}
  <2> DEFINE k == [task[w] EXCEPT !.pc = "claimed"]
  <2>1. /\ k \in TaskRec /\ k.pc = "claimed" /\ k.turn = t /\ k.chain = task[w].chain /\ k.idx = x
    BY AtTask DEF TaskRec, TaskPcs
  <2>2. Becomes(w, k)
    BY <1>6, Zenon DEF Goto
  <2> HIDE DEF k
  <2>3. Bound(w, k)
    BY ZenonT(60), <1>1, <2>1, AtTask DEF Bound, ToolPcs
  <2>4. /\ TaskType' /\ TaskBound'
        /\ \A v \in TurnId : task'[v] = IF v = w THEN k ELSE task[v]
    BY ZenonT(60), <1>1, <2>1, <2>2, <2>3, TaskUpdate DEF TypeOK
  <2>5. ReceiptType'
    <3>1. ops \subseteq TurnId \X Tool /\ requests \subseteq TurnId \X TurnId
      BY Zenon DEF TypeOK, ReceiptType
    <3>2. ops' \subseteq ops \cup {<<t, x>>}
      BY <1>6, Zenon
    <3> HIDE DEF t, x
    <3>3. ops' \subseteq TurnId \X Tool
      BY Zenon, <1>2, <3>1, <3>2, PairAdded
    <3> QED BY Zenon, <1>1, <3>1, <3>3 DEF ReceiptType
  <2>6. ClaimStep(w)
    BY Zenon, <1>1, <1>6, <2>1, <2>4 DEF ClaimStep
  <2> QED BY ZenonT(60), <1>1, <2>4, <2>5, <2>6, Keep DEF TypeOK
<1> QED BY <1>3, <1>4, <1>5, <1>6, Zenon DEF claim_tool, Claimed, Passed, Coded

\* issue_tool keeps the types and turns its holder into an execution.
LEMMA issue_tool_OK ==
  ASSUME TypeOK, NEW w \in TurnId, issue_tool(w)
  PROVE  TypeOK' /\ RunStep /\ IssueStep(w)
<1> DEFINE k == [task[w] EXCEPT !.issued = TRUE]
<1>1. /\ task[w].pc = "running" /\ ~task[w].issued /\ Becomes(w, k)
      /\ execs' = [execs EXCEPT ![task[w].turn][task[w].idx] = @ + 1]
      /\ UNCHANGED <<accepted, pending, rows, run, nrun, ops, requests, cancelReq, cancels, revoked,
                     wf, queue, jPrep, jResp, jTool, jRes, up, op, stops, crashes, revokes>>
  BY Zenon DEF issue_tool, AtStep, sql, dbos, bounds
<1>2. k \in TaskRec
  BY ZenonT(60), AtTask DEF TaskRec
<1>3. /\ k.pc = task[w].pc /\ k.turn = task[w].turn /\ k.chain = task[w].chain
      /\ k.idx = task[w].idx
  BY AtTask, Zenon DEF TaskRec
<1>4. k.issued
  BY AtTask, Zenon DEF TaskRec
<1> HIDE DEF k
<1>5. Bound(w, k)
  BY Zenon, <1>3, AtTask DEF Bound
<1>6. /\ TaskType' /\ TaskBound'
      /\ \A v \in TurnId : task'[v] = IF v = w THEN k ELSE task[v]
  BY <1>1, <1>2, <1>5, TaskUpdate, Zenon DEF TypeOK
<1>7. CountType'
  <2> DEFINE t == task[w].turn
             x == task[w].idx
             n == execs[t][x] + 1
  <2>1. t \in TurnId /\ x \in Tool /\ execs \in [TurnId -> [Tool -> Nat]]
    BY <1>1, CallBound, Zenon DEF ToolPcs, TypeOK, CountType
  <2>2. n \in Nat /\ execs' = [execs EXCEPT ![t][x] = n]
    BY <1>1, <2>1
  <2> HIDE DEF t, x, n
  <2>3. execs' \in [TurnId -> [Tool -> Nat]]
    BY <2>1, <2>2, Zenon
  <2> QED BY ZenonT(60), <1>1, <2>3 DEF TypeOK, CountType
<1>8. Holds(task[w]) /\ ~Holds(task'[w])
  BY <1>1, <1>4, <1>6, Zenon DEF Holds
<1> QED BY <1>1, <1>6, <1>7, <1>8, Keep, Zenon DEF TypeOK, IssueStep
ResultSaved(r) == [r EXCEPT !.pc = "tool", !.idx = @ + 1, !.code = "ok"]

\* A saved result moves its task to the next call.
LEMMA ResultSavedRec ==
  ASSUME NEW r \in TaskRec
  PROVE  LET k == ResultSaved(r)
         IN /\ k \in TaskRec /\ k.pc = "tool" /\ k.turn = r.turn /\ k.chain = r.chain
            /\ k.idx >= 1
<1> DEFINE i == r.idx + 1
<1>1. i \in Nat /\ i >= 1 /\ "tool" \in TaskPcs /\ "ok" \in Codes
  BY DEF TaskRec, TaskPcs, Codes
<1>2. ResultSaved(r) = [r EXCEPT !.pc = "tool", !.idx = i, !.code = "ok"]
  BY Zenon DEF ResultSaved
<1> HIDE DEF i
<1> DEFINE k == [r EXCEPT !.pc = "tool", !.idx = i, !.code = "ok"]
<1>3. k \in TaskRec
  BY Zenon, <1>1 DEF TaskRec
<1>4. k.pc = "tool" /\ k.turn = r.turn /\ k.chain = r.chain /\ k.idx = i
  BY Zenon DEF TaskRec
<1> HIDE DEF k
<1> QED BY <1>1, <1>2, <1>3, <1>4, Zenon DEF k
Raised(r) == [r EXCEPT !.pc = "chain", !.waiter = "none", !.issued = FALSE]

\* An exception out of a tool call keeps the turn and the chain.
LEMMA RaisedRec ==
  ASSUME NEW r \in TaskRec
  PROVE  LET k == Raised(r)
         IN k \in TaskRec /\ k.pc = "chain" /\ k.turn = r.turn /\ k.chain = r.chain
<1>1. "chain" \in TaskPcs
  BY Zenon DEF TaskPcs
<1> QED BY ZenonT(60), <1>1 DEF TaskRec, Raised

\* tool_raises keeps the types, and moves runs and holders as Effect says.
LEMMA tool_raises_OK == ASSUME TypeOK, NEW w \in TurnId, tool_raises(w) PROVE Effect
<1> DEFINE k == Raised(task[w])
           c == <<w, task[w].turn, task[w].idx>>
<1>1. /\ task[w].pc = "running" /\ Becomes(w, k) /\ jTool' = jTool \cup {c}
      /\ UNCHANGED <<accepted, pending, rows, run, nrun, ops, requests, cancelReq, cancels, revoked,
                     wf, queue, jPrep, jResp, jRes, up, op, execs, stops, crashes, revokes>>
  BY Zenon DEF tool_raises, AtStep, Raised, sql, bounds
<1>2. k \in TaskRec /\ k.pc = "chain" /\ k.turn = task[w].turn /\ k.chain = task[w].chain
  BY AtTask, RaisedRec, Zenon
<1>3. c \in TurnId \X TurnId \X Tool
  BY ZenonT(60), <1>1, CallBound DEF ToolPcs
<1> HIDE DEF k, c
<1>4. Calm(w, k)
  BY ZenonT(60), <1>1, <1>2, TurnOf, AwayCalm DEF ToolPcs
<1>5. TaskType' /\ TaskBound' /\ \A v \in TurnId : HoldsOn(task[v], task'[v])
  BY ZenonT(60), <1>1, <1>4, TaskStep DEF TypeOK
<1>6. JournalType'
  BY <1>1, <1>3, Zenon DEF TypeOK, JournalType
<1> QED BY <1>1, <1>5, <1>6, Keep, Zenon DEF TypeOK, Effect, HolderStep

\* persist_tool_result keeps the types, and moves runs and holders as Effect says.
LEMMA persist_tool_result_OK ==
  ASSUME TypeOK, NEW w \in TurnId, persist_tool_result(w) PROVE Effect
<1> DEFINE t == task[w].turn
           x == task[w].idx
           code == task[w].code
<1>1. /\ task[w].pc = "save"
      /\ UNCHANGED <<accepted, pending, run, nrun, ops, requests, cancelReq, cancels, revoked,
                     wf, queue, jPrep, jResp, jRes, up, op, execs, stops, crashes, revokes>>
  BY Zenon DEF persist_tool_result, AtStep, bounds
<1>2. t \in TurnId /\ x \in Tool /\ t \in RunOrNull /\ x \in Nat /\ code \in Codes
  BY <1>1, CallBound, AtTask, TurnIdIsRun, Zenon DEF ToolPcs, TaskRec
<1>3. CASE Becomes(w, ResultSaved(task[w])) /\ UNCHANGED jTool
           /\ (rows' = rows \/ rows' = Append(rows, ResultRow(t, x, code)))
  <2> DEFINE k == ResultSaved(task[w])
  <2>1. /\ k \in TaskRec /\ k.pc = "tool" /\ k.turn = t /\ k.chain = task[w].chain
        /\ k.idx >= 1
    BY ZenonT(60), AtTask, ResultSavedRec
  <2> HIDE DEF k
  <2>2. Calm(w, k)
    BY ZenonT(60), <1>1, <2>1, TurnOf, AwayCalm DEF ToolPcs
  <2>3. TaskType' /\ TaskBound' /\ \A v \in TurnId : HoldsOn(task[v], task'[v])
    BY <1>1, <1>3, <2>2, TaskStep, Zenon DEF TypeOK, k
  <2>4. RowType'
    <3>1. CASE rows' = rows
      BY ZenonT(60), <3>1, Keep DEF TypeOK
    <3>2. CASE rows' = Append(rows, ResultRow(t, x, code))
      <4> HIDE DEF t, x, code
      <4> QED BY ZenonT(60), <1>2, <3>2, RowTypes, AppendProperties DEF TypeOK, RowType
    <3> QED BY <1>3, <3>1, <3>2, Zenon
  <2> QED BY ZenonT(60), <1>1, <1>3, <2>3, <2>4, Keep DEF TypeOK, Effect, HolderStep
<1>4. CASE /\ Becomes(w, Coded(task[w], "chain", "ok"))
           /\ jTool' = jTool \cup {<<w, t, x>>} /\ UNCHANGED rows
  <2> DEFINE k == Coded(task[w], "chain", "ok")
  <2>1. k \in TaskRec /\ k.pc = "chain" /\ k.turn = t /\ k.chain = task[w].chain
    <3>1. "chain" \in TaskPcs /\ "ok" \in Codes
      BY Zenon DEF TaskPcs, Codes
    <3> QED BY <3>1, AtTask, CodedRec
  <2> HIDE DEF k
  <2>2. Calm(w, k)
    BY <1>1, <2>1, TurnOf, AwayCalm, Zenon DEF ToolPcs
  <2>3. TaskType' /\ TaskBound' /\ \A v \in TurnId : HoldsOn(task[v], task'[v])
    BY ZenonT(60), <1>1, <1>4, <2>2, TaskStep DEF TypeOK, k
  <2>4. JournalType'
    <3>1. <<w, t, x>> \in TurnId \X TurnId \X Tool
      BY <1>2, Zenon
    <3> HIDE DEF t, x
    <3> QED BY ZenonT(60), <1>1, <1>4, <3>1 DEF TypeOK, JournalType
  <2> QED BY ZenonT(60), <1>1, <1>4, <2>3, <2>4, Keep DEF TypeOK, Effect, HolderStep
<1> QED BY <1>3, <1>4, Zenon DEF persist_tool_result, ResultSaved, Coded

\* finish_final_turn keeps the types, and moves runs and holders as Effect says.
LEMMA finish_final_turn_OK == ASSUME TypeOK, NEW w \in TurnId, finish_final_turn(w) PROVE Effect
<1>1. /\ task[w].pc # "idle"
      /\ UNCHANGED <<accepted, pending, rows, nrun, ops, requests, cancels, revoked,
                     wf, queue, jPrep, jResp, jTool, jRes, up, op, execs, stops, crashes, revokes>>
  BY Zenon DEF finish_final_turn, AtStep, dbos, bounds
<1>2. PICK p \in {"reserve", "chain"} : Goto(w, p)
  BY Zenon DEF finish_final_turn
<1>3. p \in TaskPcs /\ p \notin ToolPcs \cup {"tool", "persist"}
  BY Zenon DEF TaskPcs, ToolPcs
<1>4. TaskType' /\ TaskBound' /\ \A v \in TurnId : HoldsOn(task[v], task'[v])
  BY ZenonT(60), <1>1, <1>2, <1>3, GotoStep
<1>5. CASE UNCHANGED <<run, cancelReq>>
  BY ZenonT(60), <1>1, <1>4, <1>5, Keep DEF TypeOK, Effect, HolderStep
<1>6. CASE run' = [run EXCEPT ![task[w].turn].status = "completed"] /\ cancelReq' = FALSE
  <2> DEFINE t == task[w].turn
  <2>1. t \in RunOrNull /\ "completed" \in RunStatus \ {"running"}
    BY <1>1, TurnOf, TurnIdIsRun, Zenon DEF RunStatus
  <2>2. run' = [run EXCEPT ![t].status = "completed"] /\ cancelReq' = FALSE
    BY <1>6, Zenon
  <2> HIDE DEF t
  <2>3. EndsTurn
    BY Zenon, <2>1, <2>2, StatusStep DEF TypeOK
  <2> QED BY ZenonT(60), <1>1, <1>4, <2>3, EndsTurnOK, Keep DEF TypeOK, Effect, HolderStep
<1> QED BY ZenonT(60), <1>5, <1>6 DEF finish_final_turn
Settled(r, p) == [r EXCEPT !.pc = p, !.unk = {}, !.can = {}, !.ret = "chain"]

\* Settling a stop keeps the turn and the chain.
LEMMA SettledRec ==
  ASSUME NEW r \in TaskRec, NEW p \in TaskPcs
  PROVE  LET k == Settled(r, p)
         IN k \in TaskRec /\ k.pc = p /\ k.turn = r.turn /\ k.chain = r.chain
  BY Zenon DEF TaskRec, Settled

\* Settling a stop keeps the types, the bounds and the holders.
LEMMA SettleStep ==
  ASSUME TypeOK, NEW w \in TurnId, task[w].pc # "idle", NEW p \in TaskPcs,
         p \notin ToolPcs \cup {"tool", "persist"}, Settle(w, p), UNCHANGED jResp
  PROVE  /\ TaskType' /\ TaskBound'
         /\ \A v \in TurnId : HoldsOn(task[v], task'[v])
<1> DEFINE k == Settled(task[w], p)
<1>1. Becomes(w, k)
  BY ZenonT(60) DEF Settle, Settled
<1>2. k \in TaskRec /\ k.pc = p /\ k.turn = task[w].turn /\ k.chain = task[w].chain
  BY ZenonT(60), AtTask, SettledRec
<1> HIDE DEF k
<1>3. Calm(w, k)
  BY <1>2, TurnOf, AwayCalm, Zenon
<1> QED BY Zenon, <1>1, <1>3, TaskStep DEF TypeOK

\* cancel_turn keeps the types, and moves runs and holders as Effect says.
LEMMA cancel_turn_OK == ASSUME TypeOK, NEW w \in TurnId, cancel_turn(w) PROVE Effect
<1> DEFINE t == task[w].turn
           unk == task[w].unk
           can == task[w].can
           ret == task[w].ret
<1>1. /\ task[w].pc # "idle"
      /\ UNCHANGED <<accepted, pending, nrun, ops, requests, cancels, revoked,
                     wf, queue, jPrep, jResp, jTool, jRes, up, op, execs, stops, crashes, revokes>>
  BY ZenonT(60) DEF cancel_turn, AtStep, dbos, bounds
<1>2. t \in RunOrNull /\ unk \in SUBSET Tool /\ can \in SUBSET Tool /\ ret \in {"provider", "chain"}
  BY AtTask, Zenon DEF TaskRec
<1>3. \A p \in {"provider", "chain", "stopped"} :
        p \in TaskPcs /\ p \notin ToolPcs \cup {"tool", "persist"}
  BY DEF TaskPcs, ToolPcs
<1>4. \/ Settle(w, ret) /\ UNCHANGED <<rows, run, cancelReq>>
      \/ cancel_tool_batch(t, unk, can) /\ Settle(w, "stopped")
  BY Zenon DEF cancel_turn
<1> HIDE DEF t, unk, can, ret
<1>5. CASE Settle(w, ret) /\ UNCHANGED <<rows, run, cancelReq>>
  BY ZenonT(60), <1>1, <1>2, <1>3, <1>5, SettleStep, Keep DEF TypeOK, Effect, HolderStep
<1>6. CASE cancel_tool_batch(t, unk, can) /\ Settle(w, "stopped")
  <2>1. TaskType' /\ TaskBound' /\ \A v \in TurnId : HoldsOn(task[v], task'[v])
    BY ZenonT(60), <1>1, <1>3, <1>6, SettleStep
  <2>2. RowType' /\ EndsTurn
    BY <1>2, <1>6, CancelOK, Zenon DEF TypeOK
  <2> QED BY ZenonT(60), <1>1, <2>1, <2>2, EndsTurnOK, Keep DEF TypeOK, Effect, HolderStep
<1> QED BY ZenonT(60), <1>4, <1>5, <1>6
Unsettled(r) == [r EXCEPT !.pc = "chain", !.lvl = 2, !.unk = {}, !.can = {}]

\* A stop that found its turn ended moves to the chain's failure handling.
LEMMA UnsettledRec ==
  ASSUME NEW r \in TaskRec
  PROVE  LET k == Unsettled(r)
         IN k \in TaskRec /\ k.pc = "chain" /\ k.turn = r.turn /\ k.chain = r.chain
<1>1. "chain" \in TaskPcs
  BY Zenon DEF TaskPcs
<1> QED BY ZenonT(60), <1>1 DEF TaskRec, Unsettled

\* agent_stopped_commit keeps the types, and moves runs and holders as Effect says.
LEMMA agent_stopped_commit_OK ==
  ASSUME TypeOK, NEW w \in TurnId, agent_stopped_commit(w) PROVE Effect
<1> DEFINE t == task[w].turn
           unk == task[w].unk
           can == task[w].can
           k == Unsettled(task[w])
<1>1. /\ task[w].pc # "idle"
      /\ UNCHANGED <<accepted, pending, nrun, ops, requests, cancels, revoked,
                     wf, queue, jPrep, jResp, jTool, jRes, up, op, execs, stops, crashes, revokes>>
  BY Zenon DEF agent_stopped_commit, AtStep, dbos, bounds
<1>2. t \in RunOrNull /\ unk \in SUBSET Tool /\ can \in SUBSET Tool
  BY AtTask, Zenon DEF TaskRec
<1>3. \/ Becomes(w, k) /\ UNCHANGED <<rows, run, cancelReq>>
      \/ cancel_tool_batch(t, unk, can) /\ Settle(w, "reserve")
  BY Zenon DEF agent_stopped_commit, Unsettled
<1>4. k \in TaskRec /\ k.pc = "chain" /\ k.turn = t /\ k.chain = task[w].chain
  BY AtTask, UnsettledRec, Zenon
<1> HIDE DEF unk, can, k
<1>5. CASE Becomes(w, k) /\ UNCHANGED <<rows, run, cancelReq>>
  <2>1. Calm(w, k)
    BY ZenonT(60), <1>1, <1>4, TurnOf, AwayCalm DEF ToolPcs
  <2>2. TaskType' /\ TaskBound' /\ \A v \in TurnId : HoldsOn(task[v], task'[v])
    BY ZenonT(60), <1>1, <1>5, <2>1, TaskStep DEF TypeOK
  <2> QED BY ZenonT(60), <1>1, <1>5, <2>2, Keep DEF TypeOK, Effect, HolderStep
<1>6. CASE cancel_tool_batch(t, unk, can) /\ Settle(w, "reserve")
  <2>1. "reserve" \in TaskPcs /\ "reserve" \notin ToolPcs \cup {"tool", "persist"}
    BY Zenon DEF TaskPcs, ToolPcs
  <2>2. TaskType' /\ TaskBound' /\ \A v \in TurnId : HoldsOn(task[v], task'[v])
    BY ZenonT(60), <1>1, <2>1, <1>6, SettleStep
  <2> HIDE DEF t
  <2>3. RowType' /\ EndsTurn
    BY ZenonT(60), <1>2, <1>6, CancelOK DEF TypeOK
  <2> QED BY ZenonT(60), <1>1, <2>2, <2>3, EndsTurnOK, Keep DEF TypeOK, Effect, HolderStep
<1> QED BY <1>3, <1>5, <1>6, Zenon

\* fail_preflight keeps the types, and moves runs and holders as Effect says.
LEMMA fail_preflight_OK == ASSUME TypeOK, NEW w \in TurnId, fail_preflight(w) PROVE Effect
<1> DEFINE t == task[w].turn
<1>1. /\ task[w].pc # "idle" /\ Goto(w, "provider")
      /\ UNCHANGED <<accepted, run, nrun, ops, requests, cancelReq, cancels, revoked,
                     wf, queue, jPrep, jResp, jTool, jRes, up, op, execs, stops, crashes, revokes>>
      /\ UNCHANGED <<rows, pending>> \/ promote_pending(t)
  BY ZenonT(60) DEF fail_preflight, AtStep, dbos, bounds
<1>2. "provider" \in TaskPcs /\ "provider" \notin ToolPcs \cup {"tool", "persist"}
  BY Zenon DEF TaskPcs, ToolPcs
<1>3. TaskType' /\ TaskBound' /\ \A v \in TurnId : HoldsOn(task[v], task'[v])
  BY ZenonT(60), <1>1, <1>2, GotoStep
<1>4. t \in TurnId
  BY ZenonT(60), <1>1, TurnOf
<1> HIDE DEF t
<1>5. RowType' /\ InboxType'
  <2>1. CASE UNCHANGED <<rows, pending>>
    BY ZenonT(60), <1>1, <2>1, Keep DEF TypeOK
  <2>2. CASE promote_pending(t)
    BY <1>1, <1>4, <2>2, PromoteOK, Zenon DEF TypeOK, InboxType
  <2> QED BY ZenonT(60), <1>1, <2>1, <2>2
<1> QED BY <1>1, <1>3, <1>5, Keep, Zenon DEF TypeOK, Effect, HolderStep

\* The two program points after a failure are outside the tool loop.
LEMMA FailPcs ==
  \A p \in {"chain", "reserve"} : p \in TaskPcs /\ p \notin ToolPcs \cup {"tool", "persist"}
BY ZenonT(60) DEF TaskPcs, ToolPcs

\* A step that only sends an execution to the chain's error path.
LEMMA FailRaises ==
  ASSUME TypeOK, NEW w \in TurnId, task[w].pc # "idle", Goto(w, "chain"),
         UNCHANGED <<rows, run, cancelReq>>,
         UNCHANGED <<accepted, pending, nrun, ops, requests, cancels, revoked, dbos,
                     up, op, execs, bounds>>
  PROVE  Effect
<1>1. UNCHANGED <<wf, queue, jPrep, jResp, jTool, jRes, stops, crashes, revokes>>
  BY ZenonT(60) DEF dbos, bounds
<1>2. TaskType' /\ TaskBound' /\ \A v \in TurnId : HoldsOn(task[v], task'[v])
  BY ZenonT(60), <1>1, FailPcs, GotoStep
<1>3. TypeOK'
  BY ZenonT(60), <1>1, <1>2, Keep DEF TypeOK
<1>4. UNCHANGED <<run, cancelReq>> /\ TypeOK
  BY Zenon
<1>5. RunStep
  BY ZenonT(60), <1>4, Keep
<1>6. HolderStep
  BY ZenonT(60), <1>2 DEF HolderStep
<1> QED BY <1>3, <1>5, <1>6, Zenon DEF Effect

\* A step that fails the turn and lets its execution drain the inbox.
LEMMA FailEnds ==
  ASSUME TypeOK, NEW w \in TurnId, task[w].pc # "idle", NEW text \in Tags,
         persist_error(task[w].turn, text), Goto(w, "reserve"),
         UNCHANGED <<accepted, pending, nrun, ops, requests, cancels, revoked, dbos,
                     up, op, execs, bounds>>
  PROVE  Effect
<1>1. UNCHANGED <<wf, queue, jPrep, jResp, jTool, jRes, stops, crashes, revokes>>
  BY ZenonT(60) DEF dbos, bounds
<1>2. TaskType' /\ TaskBound' /\ \A v \in TurnId : HoldsOn(task[v], task'[v])
  BY ZenonT(60), <1>1, FailPcs, GotoStep
<1> DEFINE t == task[w].turn
<1>3. task[w] \in TaskRec
  BY ZenonT(60), AtTask
<1>4. t \in RunOrNull
  BY ONLY <1>3, Zenon DEF TaskRec
<1>5. persist_error(t, text)
  BY Zenon DEF t
<1> HIDE DEF t
<1>6. RowType /\ RunType /\ StopType
  BY ZenonT(60) DEF TypeOK
<1>7. RowType' /\ EndsTurn
  BY ZenonT(60), <1>4, <1>5, <1>6, ErrorOK
<1>8. RunType' /\ StopType' /\ RunStep
  BY ZenonT(60), <1>7, EndsTurnOK
<1>9. InboxType' /\ ReceiptType' /\ WfType' /\ JournalType' /\ OpType' /\ CountType'
  <2>1. /\ accepted' = accepted /\ pending' = pending /\ ops' = ops /\ requests' = requests
        /\ wf' = wf /\ queue' = queue /\ jPrep' = jPrep /\ jResp' = jResp /\ jTool' = jTool
        /\ jRes' = jRes /\ op' = op /\ up' = up /\ execs' = execs /\ stops' = stops
        /\ crashes' = crashes /\ revokes' = revokes
    BY ZenonT(60), <1>1
  <2>2. /\ InboxType /\ ReceiptType /\ WfType /\ JournalType /\ OpType /\ CountType
    BY ZenonT(60) DEF TypeOK
  <2> QED BY ONLY <2>1, <2>2, Keep, Zenon
<1>10. TypeOK'
  BY ONLY <1>2, <1>7, <1>8, <1>9, Zenon DEF TypeOK
<1>11. HolderStep
  BY ZenonT(60), <1>2 DEF HolderStep
<1> QED BY ZenonT(60), <1>8, <1>10, <1>11 DEF Effect

\* The step that fails a turn, or raises because it ended otherwise.
LEMMA FailStep ==
  ASSUME TypeOK, NEW w \in TurnId, task[w].pc # "idle", NEW text \in Tags,
         IF ErrorRaises(task[w].turn, text)
         THEN Goto(w, "chain") /\ UNCHANGED <<rows, run, cancelReq>>
         ELSE persist_error(task[w].turn, text) /\ Goto(w, "reserve"),
         UNCHANGED <<accepted, pending, nrun, ops, requests, cancels, revoked, dbos,
                     up, op, execs, bounds>>
  PROVE  Effect
<1>1. CASE ErrorRaises(task[w].turn, text)
  <2>1. Goto(w, "chain") /\ UNCHANGED <<rows, run, cancelReq>>
    BY ZenonT(60), <1>1
  <2> QED BY ZenonT(60), <2>1, FailRaises
<1>2. CASE ~ErrorRaises(task[w].turn, text)
  <2>1. persist_error(task[w].turn, text) /\ Goto(w, "reserve")
    BY ZenonT(60), <1>2
  <2> QED BY ZenonT(60), <2>1, FailEnds
<1> QED BY ZenonT(60), <1>1, <1>2

\* fail_provider keeps the types, and moves runs and holders as Effect says.
LEMMA fail_provider_OK == ASSUME TypeOK, NEW w \in TurnId, fail_provider(w) PROVE Effect
<1> DEFINE text == IF task[w].pc = "refused" THEN "rejected" ELSE "generic"
<1>1. text \in Tags /\ task[w].pc # "idle"
  BY ZenonT(60) DEF Tags, fail_provider, AtStep
<1>2. /\ IF ErrorRaises(task[w].turn, text)
         THEN Goto(w, "chain") /\ UNCHANGED <<rows, run, cancelReq>>
         ELSE persist_error(task[w].turn, text) /\ Goto(w, "reserve")
      /\ UNCHANGED <<accepted, pending, nrun, ops, requests, cancels, revoked, dbos,
                     up, op, execs, bounds>>
  BY ZenonT(60) DEF fail_provider
<1> HIDE DEF text
<1> QED BY <1>1, <1>2, FailStep, Zenon

\* fail_iteration_limit keeps the types, and moves runs and holders as Effect says.
LEMMA fail_iteration_limit_OK ==
  ASSUME TypeOK, NEW w \in TurnId, fail_iteration_limit(w) PROVE Effect
<1>1. "limit" \in Tags /\ task[w].pc # "idle"
  BY Zenon DEF Tags, fail_iteration_limit, AtStep
<1> QED BY <1>1, FailStep, Zenon DEF fail_iteration_limit

\* An exception in the handling of an exception.
LEMMA ChainRaisesStep ==
  ASSUME TypeOK, NEW w \in TurnId, task[w].pc # "idle", ChainRaises(w), UNCHANGED <<queue, jResp>>
  PROVE  /\ WfType' /\ TaskType' /\ TaskBound'
         /\ \A v \in TurnId : HoldsOn(task[v], task'[v])
<1>1. CASE task[w].lvl = 1
  <2>1. Becomes(w, AtLevel(task[w], "chain", 2)) /\ UNCHANGED wf
    BY <1>1, Zenon DEF ChainRaises, AtLevel
  <2>2. "chain" \in TaskPcs /\ "chain" \notin ToolPcs \cup {"tool", "persist"}
    BY ZenonT(60) DEF TaskPcs, ToolPcs
  <2>3. Calm(w, AtLevel(task[w], "chain", 2))
    BY <2>2, LevelCalm, Zenon
  <2> QED BY <2>1, <2>3, TaskStep, Keep, Zenon DEF TypeOK
<1>2. CASE task[w].lvl # 1
  <2>1. Becomes(w, IdleTask) /\ \E s \in WfStatus : wf' = [wf EXCEPT ![w] = s]
    BY <1>2, Zenon DEF ChainRaises, TypeOK, WfType, WfStatus
  <2>2. WfType'
    BY ZenonT(60), <2>1, WfStep DEF TypeOK
  <2> QED BY ZenonT(60), <2>1, <2>2, ResetCalm, TaskStep DEF TypeOK
<1> QED BY ZenonT(60), <1>1, <1>2

\* chain_repair keeps the types, and moves runs and holders as Effect says.
LEMMA chain_repair_OK == ASSUME TypeOK, NEW w \in TurnId, chain_repair(w) PROVE Effect
<1>1. /\ task[w].pc # "idle"
      /\ UNCHANGED <<accepted, pending, run, nrun, ops, requests, cancelReq, cancels, revoked, queue,
                     jPrep, jResp, jTool, jRes, up, op, execs, stops, crashes, revokes>>
  BY Zenon DEF chain_repair, AtStep, bounds
<1>2. CASE ChainRaises(w) /\ UNCHANGED rows
  BY ZenonT(60), <1>1, <1>2, ChainRaisesStep, Keep DEF TypeOK, Effect, HolderStep
<1>3. CASE /\ \E new \in RepairRows(task[w].turn) : rows' = rows \o new
           /\ Goto(w, "chainfail") /\ UNCHANGED wf
  <2>1. "chainfail" \in TaskPcs /\ "chainfail" \notin ToolPcs \cup {"tool", "persist"}
    BY Zenon DEF TaskPcs, ToolPcs
  <2>2. TaskType' /\ TaskBound' /\ \A v \in TurnId : HoldsOn(task[v], task'[v])
    BY ZenonT(60), <1>1, <1>3, <2>1, GotoStep
  <2>3. RowType'
    <3> DEFINE t == task[w].turn
    <3>1. t \in RunOrNull /\ \E new \in RepairRows(t) : rows' = rows \o new
      BY Zenon, <1>3, AtTask DEF TaskRec
    <3> HIDE DEF t
    <3> QED BY <3>1, RepairRowsType, ConcatProperties, Zenon DEF TypeOK, RowType
  <2> QED BY ZenonT(60), <1>1, <1>3, <2>2, <2>3, Keep DEF TypeOK, Effect, HolderStep
<1> QED BY ZenonT(60), <1>2, <1>3 DEF chain_repair

\* chain_fail keeps the types, and moves runs and holders as Effect says.
LEMMA chain_fail_OK == ASSUME TypeOK, NEW w \in TurnId, chain_fail(w) PROVE Effect
<1>1. /\ task[w].pc # "idle"
      /\ UNCHANGED <<accepted, pending, nrun, ops, requests, cancels, revoked, queue,
                     jPrep, jResp, jTool, jRes, up, op, execs, stops, crashes, revokes>>
  BY Zenon DEF chain_fail, AtStep, bounds
<1>2. CASE ChainRaises(w) /\ UNCHANGED <<rows, run, cancelReq>>
  BY ZenonT(60), <1>1, <1>2, ChainRaisesStep, Keep DEF TypeOK, Effect, HolderStep
<1>3. CASE /\ persist_error(task[w].turn, "generic")
           /\ Becomes(w, AtLevel(task[w], "reserve", 1)) /\ UNCHANGED wf
  <2>1. "reserve" \in TaskPcs /\ "reserve" \notin ToolPcs \cup {"tool", "persist"}
    BY Zenon DEF TaskPcs, ToolPcs
  <2>2. Calm(w, AtLevel(task[w], "reserve", 1))
    BY <1>1, <2>1, LevelCalm, Zenon
  <2>3. TaskType' /\ TaskBound' /\ \A v \in TurnId : HoldsOn(task[v], task'[v])
    BY ZenonT(60), <1>1, <1>3, <2>2, TaskStep DEF TypeOK
  <2> DEFINE t == task[w].turn
  <2>4. t \in RunOrNull /\ persist_error(t, "generic") /\ "generic" \in Tags
    BY ZenonT(60), <1>3, AtTask DEF TaskRec, Tags
  <2> HIDE DEF t
  <2>5. RowType' /\ EndsTurn
    BY <2>4, ErrorOK, Zenon DEF TypeOK
  <2> QED BY ZenonT(60), <1>1, <1>3, <2>3, <2>5, EndsTurnOK, Keep DEF TypeOK, Effect, HolderStep
<1> QED BY <1>2, <1>3, Zenon DEF chain_fail, AtLevel

-----------------------------------------------------------------------------
(***************************************************************************)
(* The next turn.                                                          *)
(***************************************************************************)

Continued(r, u, h) == [r EXCEPT !.pc = "prepare", !.turn = u, !.idx = 0, !.held = h]

\* The task of a chain that goes on is at the next turn.
LEMMA ContinuedRec ==
  ASSUME NEW r \in TaskRec, NEW u \in RunOrNull, NEW h \in BOOLEAN
  PROVE  LET k == Continued(r, u, h)
         IN k \in TaskRec /\ k.pc = "prepare" /\ k.turn = u /\ k.chain = r.chain
<1>1. "prepare" \in TaskPcs /\ 0 \in Nat
  BY Zenon DEF TaskPcs
<1> QED BY Zenon, <1>1 DEF TaskRec, Continued

\* The end of a batch completes the turn and starts the next, with the same
\* profile and workflow, in one commit.
LEMMA NextTurnOK ==
  ASSUME TypeOK, NEW t \in TurnId, NEW f \in RunOrNull \X {"none", "next", "pending"},
         run[t].status = "running", nrun + 1 <= MaxTurns, nrun' = nrun + 1, UNCHANGED cancelReq,
         run' = [run EXCEPT ![t].status = "completed",
                            ![nrun + 1] = _create_turn(
                               _valid_contiguous_profile_prefix(pending, run[t].guest),
                               run[t].guest, run[t].wf, f)]
  PROVE  RunType' /\ RunStep /\ nrun + 1 \in TurnId
<1> DEFINE g == run[t].guest
           v == run[t].wf
           p == _valid_contiguous_profile_prefix(pending, g)
           n == nrun + 1
           ended == [run[t] EXCEPT !.status = "completed"]
           turn == _create_turn(p, g, v, f)
<1>1. /\ run \in [TurnId -> RunRec] /\ run[t] \in RunRec /\ g \in BOOLEAN /\ v \in RunOrNull
      /\ n \in TurnId /\ n \in RunOrNull /\ pending \in Seq(Msgs)
  <2>1. run \in [TurnId -> RunRec] /\ pending \in Seq(Msgs)
    BY Zenon DEF TypeOK, RunType, InboxType
  <2>2. run[t] \in RunRec
    BY <2>1, Zenon
  <2>3. g \in BOOLEAN /\ v \in RunOrNull
    BY <2>2, Zenon DEF RunRec
  <2>4. n \in TurnId /\ n \in RunOrNull
    BY ConversationAssumption DEF TypeOK, RunType, RunOrNull, TurnId
  <2> QED BY <2>1, <2>2, <2>3, <2>4, Zenon
<1>2. run' = [run EXCEPT ![t].status = "completed", ![n] = turn]
  BY Zenon
<1>3. /\ ended \in RunRec /\ ended.status = "completed"
      /\ ended.inputs = run[t].inputs /\ ended.guest = run[t].guest
  <2>1. "completed" \in RunStatus
    BY Zenon DEF RunStatus
  <2> QED BY Zenon, <1>1, <2>1 DEF RunRec
<1> HIDE DEF g, v, n
<1>4. /\ p \in Seq(Msgs)
      /\ \A i \in DOMAIN p : (p[i] \in Guests) = g /\ p[i] \notin revoked
  BY <1>1, PrefixOK, Zenon
<1> HIDE DEF p
<1>5. /\ turn \in RunRec /\ turn.status = "running" /\ Isolated(turn)
      /\ \A i \in DOMAIN turn.inputs : turn.inputs[i] \notin revoked
  <2>1. turn \in RunRec /\ turn.status = "running" /\ turn.inputs = p /\ turn.guest = g
    BY <1>1, <1>4, TurnRowOK DEF _create_turn, RunStatus, TypeOK
  <2> QED BY <2>1, <1>4, Zenon DEF Isolated
<1> HIDE DEF turn
<1>6. run' = [[run EXCEPT ![t] = ended] EXCEPT ![n] = turn]
  BY Zenon, <1>1, <1>2
<1> HIDE DEF ended
<1>7. /\ run' \in [TurnId -> RunRec]
      /\ \A u \in TurnId : run'[u] = IF u = n THEN turn ELSE IF u = t THEN ended ELSE run[u]
  BY ZenonT(60), <1>1, <1>3, <1>5, <1>6
<1>8. RunType'
  BY <1>1, <1>7, Zenon DEF RunType, n
<1>9. StartedAt(n)
  BY <1>1, <1>5, <1>7, Zenon DEF StartedAt
<1>10. Continues
  BY ZenonT(60), <1>1, <1>3, <1>7, <1>9 DEF Continues
<1> QED BY <1>1, <1>8, <1>10, Zenon DEF RunStep, n

\* finish_tool_batch_and_continue keeps the types, and moves runs and holders as Effect says.
LEMMA finish_tool_batch_and_continue_OK ==
  ASSUME TypeOK, NEW w \in TurnId, finish_tool_batch_and_continue(w) PROVE Effect
<1> DEFINE t == task[w].turn
           u == IF NextOf(t) # {} THEN CHOOSE v \in NextOf(t) : TRUE ELSE nrun + 1
           h == run'[u].inputs # <<>>
<1>1. /\ task[w].pc # "idle"
      /\ UNCHANGED <<accepted, pending, rows, ops, requests, cancelReq, cancels, revoked,
                     wf, queue, jPrep, jResp, jTool, jRes, up, op, execs, stops, crashes, revokes>>
  BY Zenon DEF finish_tool_batch_and_continue, AtStep, dbos, bounds
<1>2. t \in TurnId /\ t \in RunOrNull
  BY <1>1, TurnOf, TurnIdIsRun, Zenon
<1>3. CASE Goto(w, "chain") /\ UNCHANGED <<run, nrun>>
  <2>1. "chain" \in TaskPcs /\ "chain" \notin ToolPcs \cup {"tool", "persist"}
    BY Zenon DEF TaskPcs, ToolPcs
  <2>2. TaskType' /\ TaskBound' /\ \A v \in TurnId : HoldsOn(task[v], task'[v])
    BY ZenonT(60), <1>1, <1>3, <2>1, GotoStep
  <2> QED BY ZenonT(60), <1>1, <1>3, <2>2, Keep DEF TypeOK, Effect, HolderStep
<1>4. CASE ~(NextOf(t) = {} /\ run[t].status # "running")
  <2>1. /\ Becomes(w, Continued(task[w], u, h)) /\ u <= MaxTurns
        /\ IF NextOf(t) # {} THEN UNCHANGED <<run, nrun>>
           ELSE /\ nrun' = nrun + 1
                /\ run' = [run EXCEPT
                     ![t].status = "completed",
                     ![u] = _create_turn(
                              _valid_contiguous_profile_prefix(pending, run[t].guest),
                              run[t].guest, run[t].wf, <<t, "next">>)]
    BY <1>4, Zenon DEF finish_tool_batch_and_continue, Continued
  <2>2. RunType' /\ RunStep /\ u \in TurnId
    <3>1. CASE NextOf(t) # {}
      <4>1. u \in NextOf(t)
        BY <3>1, Zenon
      <4> QED BY ZenonT(60), <1>1, <2>1, <3>1, <4>1, Keep DEF TypeOK, NextOf
    <3>2. CASE NextOf(t) = {}
      <4> DEFINE f == <<t, "next">>
      <4>1. f \in RunOrNull \X {"none", "next", "pending"} /\ u = nrun + 1 /\ run[t].status = "running"
        BY ZenonT(60), <1>2, <1>4, <3>2
      <4>2. /\ nrun' = nrun + 1 /\ nrun + 1 <= MaxTurns
            /\ run' = [run EXCEPT
                 ![t].status = "completed",
                 ![nrun + 1] = _create_turn(
                          _valid_contiguous_profile_prefix(pending, run[t].guest),
                          run[t].guest, run[t].wf, f)]
        BY ZenonT(60), <2>1, <3>2, <4>1
      <4> HIDE DEF f, t, u
      <4> QED BY ZenonT(60), <1>1, <1>2, <4>1, <4>2, NextTurnOK
    <3> QED BY <3>1, <3>2, Zenon
  <2>3. h \in BOOLEAN /\ u \in RunOrNull
    BY ZenonT(60), <2>2, TurnIdIsRun
  <2> HIDE DEF h, u
  <2> DEFINE k == Continued(task[w], u, h)
  <2>4. k \in TaskRec /\ k.pc = "prepare" /\ k.turn = u /\ k.chain = task[w].chain
    BY ZenonT(60), <2>3, AtTask, ContinuedRec
  <2> HIDE DEF k
  <2>u. k.turn \in TurnId /\ k.chain \in TurnId
    BY ZenonT(60), <1>1, <2>2, <2>4, TurnOf
  <2>p. k.pc \notin ToolPcs \cup {"persist"} /\ (k.pc = "tool" => k.idx >= 1)
    BY <2>4, Zenon DEF ToolPcs
  <2>5. Calm(w, k)
    BY ZenonT(60), <2>4, <2>u, <2>p, AwayCalm
  <2>6. TaskType' /\ TaskBound' /\ \A v \in TurnId : HoldsOn(task[v], task'[v])
    BY ZenonT(60), <1>1, <2>1, <2>5, TaskStep DEF TypeOK, k
  <2> QED BY ZenonT(60), <1>1, <2>2, <2>6, Keep DEF TypeOK, Effect, HolderStep
<1> QED BY <1>3, <1>4, Zenon DEF finish_tool_batch_and_continue

-----------------------------------------------------------------------------
(***************************************************************************)
(* The drain loop.                                                         *)
(***************************************************************************)

\* The end of a workflow.
LEMMA DoneStep ==
  ASSUME TypeOK, NEW w \in TurnId, NEW s \in WfStatus, Done(w, s), UNCHANGED <<queue, jResp>>
  PROVE  /\ WfType' /\ TaskType' /\ TaskBound'
         /\ \A v \in TurnId : HoldsOn(task[v], task'[v])
<1>1. WfType'
  BY ZenonT(60), WfStep DEF Done, TypeOK
<1> QED BY <1>1, ResetCalm, TaskStep, Zenon DEF Done, TypeOK

\* The journal of one reservation.
LEMMA ResJournal ==
  ASSUME JournalType, NEW w \in TurnId, NEW c \in TurnId, NEW n \in RunOrNull,
         jRes' = [jRes EXCEPT ![w][c] = n], UNCHANGED <<jPrep, jResp, jTool>>
  PROVE  JournalType'
<1>1. n \in NotRun..MaxTurns
  BY ConversationAssumption DEF RunOrNull, NotRun
<1> QED BY <1>1, Zenon DEF JournalType

\* reserve_replay keeps the types, and moves runs and holders as Effect says.
LEMMA reserve_replay_OK == ASSUME TypeOK, NEW w \in TurnId, reserve_replay(w) PROVE Effect
<1> DEFINE n == jRes[w][task[w].chain]
<1>1. /\ task[w].pc # "idle" /\ n # NotRun
      /\ UNCHANGED <<accepted, pending, rows, run, nrun, ops, requests, cancelReq, cancels, revoked,
                     queue, jPrep, jResp, jTool, jRes, up, op, execs, stops, crashes, revokes>>
      /\ \/ Done(w, "success")
         \/ n # 0 /\ Becomes(w, FreshTask(n)) /\ UNCHANGED wf
  BY Zenon DEF reserve_replay, AtStep, sql, bounds
<1>2. n \in NotRun..MaxTurns
  <2>1. task[w].chain \in TurnId
    BY ZenonT(60), <1>1, TurnOf
  <2> QED BY <2>1, Zenon DEF TypeOK, JournalType
<1> HIDE DEF n
<1>3. CASE Done(w, "success")
  BY ZenonT(60), <1>1, <1>3, DoneStep, Keep DEF TypeOK, Effect, HolderStep, WfStatus
<1>4. CASE n # 0 /\ Becomes(w, FreshTask(n)) /\ UNCHANGED wf
  <2>1. n \in TurnId
    BY <1>1, <1>2, <1>4, ConversationAssumption DEF NotRun, TurnId
  <2>2. TaskType' /\ TaskBound' /\ \A v \in TurnId : HoldsOn(task[v], task'[v])
    BY ZenonT(60), <1>1, <1>4, <2>1, ResetCalm, TaskStep DEF TypeOK
  <2> QED BY ZenonT(60), <1>1, <1>4, <2>2, Keep DEF TypeOK, Effect, HolderStep
<1> QED BY ZenonT(60), <1>1, <1>3, <1>4

\* reserve_nothing keeps the types, and moves runs and holders as Effect says.
LEMMA reserve_nothing_OK == ASSUME TypeOK, NEW w \in TurnId, reserve_nothing(w) PROVE Effect
<1> DEFINE c == task[w].chain
<1>1. /\ task[w].pc # "idle" /\ Done(w, "success") /\ jRes' = [jRes EXCEPT ![w][c] = 0]
      /\ UNCHANGED <<accepted, ops, requests, cancelReq, cancels, revoked,
                     queue, jPrep, jResp, jTool, up, op, execs, stops, crashes, revokes>>
      /\ \/ UNCHANGED <<rows, pending, run, nrun>>
         \/ Running = {} /\ CloseAll(pending)
  BY Zenon DEF reserve_nothing, AtStep, bounds
<1>2. JournalType'
  BY ZenonT(60), <1>1, TurnOf, TurnIdIsRun, ResJournal DEF TypeOK
<1>3. WfType' /\ TaskType' /\ TaskBound' /\ \A v \in TurnId : HoldsOn(task[v], task'[v])
  BY ZenonT(60), <1>1, DoneStep DEF WfStatus
<1>4. InboxType' /\ RowType' /\ RunType' /\ RunStep
  BY ZenonT(60), <1>1, CloseAllStep, Keep DEF TypeOK
<1> QED BY ZenonT(60), <1>1, <1>2, <1>3, <1>4, Keep DEF TypeOK, Effect, HolderStep

\* reserve_pending_turn keeps the types, and moves runs and holders as Effect says.
LEMMA reserve_pending_turn_OK ==
  ASSUME TypeOK, NEW w \in TurnId, reserve_pending_turn(w) PROVE Effect
<1> DEFINE c == task[w].chain
           mine == {t \in Running \cap PendOf(c) : InputsHeadPending(t)}
           f == <<c, "pending">>
<1>1. /\ task[w].pc # "idle"
      /\ UNCHANGED <<accepted, ops, requests, cancelReq, cancels, revoked, wf, queue,
                     jPrep, jResp, jTool, jRes, up, op, execs, stops, crashes, revokes>>
  BY Zenon DEF reserve_pending_turn, AtStep, dbos, bounds
<1>2. "link" \in TaskPcs /\ "link" \notin ToolPcs \cup {"tool", "persist"}
  BY Zenon DEF TaskPcs, ToolPcs
<1>3. PICK n : /\ Becomes(w, OnTurn(task[w], "link", n))
               /\ \/ n \in mine /\ UNCHANGED <<rows, pending, run, nrun>>
                  \/ /\ Running = {} /\ _reserve_fresh_pending_locked(pending, 0, f)
                     /\ n = nrun + StaleHead(pending) + 1
  <2>1. CASE mine # {} /\ Becomes(w, OnTurn(task[w], "link", CHOOSE t \in mine : TRUE))
             /\ UNCHANGED <<rows, pending, run, nrun>>
    BY <2>1, Zenon
  <2>2. CASE /\ Running = {} /\ _reserve_fresh_pending_locked(pending, 0, f)
             /\ Becomes(w, OnTurn(task[w], "link", nrun + StaleHead(pending) + 1))
    BY ZenonT(60), <2>2
  <2> QED BY ZenonT(60), <2>1, <2>2 DEF reserve_pending_turn, OnTurn
<1>4. f \in RunOrNull \X {"none", "next", "pending"} /\ 0 \in RunOrNull
  BY ZenonT(60), <1>1, TurnOf, TurnIdIsRun
<1>5. n \in TurnId /\ InboxType' /\ RowType' /\ RunType' /\ RunStep
  <2>1. CASE n \in mine /\ UNCHANGED <<rows, pending, run, nrun>>
    BY ZenonT(60), <1>1, <2>1, RunningType, Keep DEF TypeOK
  <2>2. CASE /\ Running = {} /\ _reserve_fresh_pending_locked(pending, 0, f)
             /\ n = nrun + StaleHead(pending) + 1
    <3> HIDE DEF f
    <3> QED BY ZenonT(60), <1>1, <1>4, <2>2, ReserveStep DEF TypeOK, InboxType
  <2> QED BY <1>3, <2>1, <2>2, Zenon
<1>6. TaskType' /\ TaskBound' /\ \A v \in TurnId : HoldsOn(task[v], task'[v])
  BY ZenonT(60), <1>1, <1>2, <1>3, <1>5, LevelCalm, TaskStep DEF TypeOK
<1> QED BY ZenonT(60), <1>1, <1>5, <1>6, Keep DEF TypeOK, Effect, HolderStep

\* reserve_conflict keeps the types, and moves runs and holders as Effect says.
LEMMA reserve_conflict_OK == ASSUME TypeOK, NEW w \in TurnId, reserve_conflict(w) PROVE Effect
<1>1. /\ Done(w, "error")
      /\ UNCHANGED <<accepted, pending, rows, run, nrun, ops, requests, cancelReq, cancels, revoked,
                     queue, jPrep, jResp, jTool, jRes, up, op, execs, stops, crashes, revokes>>
  BY Zenon DEF reserve_conflict, sql, bounds
<1> QED BY <1>1, DoneStep, Keep, Zenon DEF TypeOK, Effect, HolderStep, WfStatus

\* reserve_link keeps the types, and moves runs and holders as Effect says.
LEMMA reserve_link_OK == ASSUME TypeOK, NEW w \in TurnId, reserve_link(w) PROVE Effect
<1> DEFINE t == task[w].turn
           c == task[w].chain
<1>1. /\ task[w].pc # "idle" /\ run' = [run EXCEPT ![t].wf = w]
      /\ jRes' = [jRes EXCEPT ![w][c] = t] /\ Becomes(w, FreshTask(t))
      /\ UNCHANGED <<accepted, pending, rows, nrun, ops, requests, cancelReq, cancels, revoked,
                     wf, queue, jPrep, jResp, jTool, up, op, execs, stops, crashes, revokes>>
  BY Zenon DEF reserve_link, AtStep, bounds
<1>2. t \in TurnId /\ c \in TurnId /\ t \in RunOrNull /\ w \in RunOrNull
  BY <1>1, TurnOf, TurnIdIsRun, Zenon
<1> HIDE DEF t, c
<1>3. JournalType'
  BY Zenon, <1>1, <1>2, ResJournal DEF TypeOK
<1>4. TaskType' /\ TaskBound' /\ \A v \in TurnId : HoldsOn(task[v], task'[v])
  BY Zenon, <1>1, <1>2, ResetCalm, TaskStep DEF TypeOK
<1>5. run \in [TurnId -> RunRec]
  BY Zenon DEF TypeOK, RunType
<1>6. \A u \in TurnId : run'[u] = IF u = t THEN [run[u] EXCEPT !.wf = w] ELSE run[u]
  BY <1>1, <1>5, Zenon
<1>7. \A u \in TurnId : LET r == [run[u] EXCEPT !.wf = w]
                        IN /\ r \in RunRec /\ r.status = run[u].status
                           /\ r.inputs = run[u].inputs /\ r.guest = run[u].guest
  BY Zenon, <1>2, <1>5 DEF RunRec
<1>8. RunType'
  BY ZenonT(60), <1>1, <1>5, <1>6, <1>7 DEF TypeOK, RunType
<1>9. Fills
  BY ZenonT(60), <1>1, <1>6, <1>7 DEF Fills, Isolated
<1> QED BY ZenonT(60), <1>1, <1>3, <1>4, <1>8, <1>9, Keep DEF TypeOK, Effect, HolderStep, RunStep

\* start_workflow keeps the types, and moves runs and holders as Effect says.
LEMMA start_workflow_OK == ASSUME TypeOK, start_workflow PROVE Effect
<1>1. PICK i \in Enqueued : /\ wf' = [wf EXCEPT ![queue[i]] = "pending"]
                            /\ Becomes(queue[i], FreshTask(queue[i]))
  BY Zenon DEF start_workflow
<1> DEFINE w == queue[i]
<1>2. w \in TurnId
  BY ElementOfSeq, LenProperties, Zenon DEF Enqueued, TypeOK, WfType
<1>3. /\ wf' = [wf EXCEPT ![w] = "pending"] /\ Becomes(w, FreshTask(w))
      /\ UNCHANGED <<accepted, pending, rows, run, nrun, ops, requests, cancelReq, cancels, revoked,
                     queue, jPrep, jResp, jTool, jRes, up, op, execs, stops, crashes, revokes>>
  BY ZenonT(60), <1>1 DEF start_workflow, sql, bounds
<1> HIDE DEF w
<1>4. TaskType' /\ TaskBound' /\ \A v \in TurnId : HoldsOn(task[v], task'[v])
  BY Zenon, <1>2, <1>3, ResetCalm, TaskStep DEF TypeOK
<1>5. WfType'
  BY ZenonT(60), <1>2, <1>3, WfStep DEF TypeOK, WfStatus
<1> QED BY ZenonT(60), <1>3, <1>4, <1>5, Keep DEF TypeOK, Effect, HolderStep
===============================================================================
