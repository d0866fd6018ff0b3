---------------------- MODULE OfflineOperationsProofs ----------------------
(***************************************************************************)
(* Proofs about OfflineOperations, for any number of operations, envelopes *)
(* and workers.  The safety properties are not inductive: what a later     *)
(* commit writes depends on what the transaction read when it began.  The  *)
(* strengthening LedgerIInv says of every open transaction why its reads   *)
(* are still true: the operation's lock for the provenance row, the unique *)
(* key for the claim, immutability for an entry it replays.                *)
(* EvidenceIInv adds the reads no lock of the operation covers: the local  *)
(* sequence of a push, the attempt of a recovery, the evidence shared.     *)
(***************************************************************************)
EXTENDS OfflineOperations, TLAPS

\* The effect of this very request is committed.
Entered(e) == Applied(e.op) /\ processed[e.op].request = e.request

\* A claim is pending only over a free key, for the transaction's request.
ClaimOK(t) ==
    t.claim # NoRow =>
        /\ t.phase = "dispatched"
        /\ processed[t.env.op] = NoRow
        /\ t.claim.request = t.env.request
        /\ t.claim.outcome = t.result

\* A positive result without a claim of its own replays a committed entry.
ResultOK(t) ==
    /\ t.phase = "dispatched" => t.result \in {"applied", "rejected", "conflict", "id_conflict"}
    /\ t.phase = "decided" => t.result \in Dispositions \cup {"exact_replay"}
    /\ t.phase = "dispatched" /\ t.result = "applied" /\ t.claim = NoRow => Entered(t.env)
    /\ t.phase = "decided" /\ t.result \in {"applied", "exact_replay"} => Entered(t.env)

\* The provenance row a push or recovery is going to replace.
RowOK(t) ==
    LET o == t.env.op
    IN  t.kind # "online" =>
        /\ o \in t.holds
        /\ t.attempt # NoAttempt => prov[o] # NoRow
        /\ t.phase \in {"authorized", "dispatched"} /\ prov[o] # NoRow =>
              /\ prov[o].envelope = t.env
              /\ prov[o].disposition \in {"dependency_pending", "quarantined"}
        /\ t.phase = "decided" /\ t.row # NoRow =>
              /\ t.row.disposition # "applied"
              /\ t.row.envelope.op = o
              /\ prov[o] # NoRow =>
                    /\ t.row.envelope = prov[o].envelope
                    /\ prov[o].disposition \notin {"rejected", "conflict"}
                    /\ prov[o].disposition = "applied" => t.row.disposition = "conflict"

TransactionOK(t) ==
    /\ t.phase = "decided" => t.kind # "online"
    /\ ClaimOK(t)
    /\ ResultOK(t)
    /\ RowOK(t)

\* Two open transactions hold no common lock and claim no common key.
Apart(s, t) ==
    /\ s.holds \cap t.holds = {}
    /\ s.env.op = t.env.op => s.claim = NoRow \/ t.claim = NoRow

RowsKeyed == \A o \in Ops : prov[o] # NoRow => prov[o].envelope.op = o

AttemptsTruthful ==
    \A a \in Attempts : attempts[a] # NoRow /\ attempts[a].result \in {"applied", "exact_replay"} =>
        Entered(attempts[a].envelope)

Transactions == \A w \in Workers : tx[w] # Idle => TransactionOK(tx[w])

Separation ==
    \A v, w \in Workers : v # w /\ tx[v] # Idle /\ tx[w] # Idle => Apart(tx[v], tx[w])

LedgerIInv ==
    /\ TypeOK
    /\ EffectAtMostOnce
    /\ AppliedIsCanonical
    /\ AnswerIsTruthful
    /\ RowsKeyed
    /\ AttemptsTruthful
    /\ Transactions
    /\ Separation

\* A transaction that will write the provenance row of its operation.
Writes(t) == t.kind # "online" /\ (t.phase # "decided" \/ t.row # NoRow)

\* A push writes a new row only while nobody else has the local sequence, and
\* never over a quarantine.
PushReads(t) ==
    LET o == t.env.op
    IN  t.kind = "push" /\ Writes(t) =>
        /\ Disposition(o) \in {"none", "dependency_pending", "applied"}
        /\ prov[o] = NoRow => /\ SequenceOwners(t.env) = {}
                              /\ t.phase = "decided" => t.row.envelope = t.env

\* A recovery writes over a row of its envelope, under an attempt of its own.
RecoveryReads(t) ==
    LET o == t.env.op
    IN  /\ t.attempt # NoAttempt => attempts[t.attempt] = NoRow
        /\ t.kind = "recover" /\ Writes(t) =>
              /\ t.attempt # NoAttempt
              /\ prov[o] # NoRow /\ prov[o].envelope = t.env
              /\ t.phase = "decided" => t.row.disposition = t.result

\* A row written without a dispatch quarantines for a reason recovery accepts.
ReasonOK(t) ==
    t.phase = "decided" /\ t.row # NoRow /\ t.row.disposition = "quarantined" =>
        t.row.reason \in {"clock_rollback", "dependency"}

\* An authorized push or recovery shares its evidence, which stands, and one of
\* its prerequisites is applied.
EvidenceOK(t) ==
    t.kind # "online" /\ t.phase # "decided" =>
        /\ EvidenceRows(t.env) \subseteq t.shares
        /\ lost \cap EvidenceRows(t.env) = {}
        /\ t.env.dependsOn # {} => \E d \in t.env.dependsOn : Applied(d)

ReadsHold(t) == PushReads(t) /\ RecoveryReads(t) /\ ReasonOK(t) /\ EvidenceOK(t)

\* Two open pushes use two local sequences, two recoveries two attempts.
Distinct(s, t) ==
    /\ s.kind = "push" /\ t.kind = "push" => ~ SameSequence(s.env, t.env)
    /\ s.attempt # NoAttempt => s.attempt # t.attempt

EvidenceIInv ==
    /\ LocalSequenceUnique /\ QuarantineIsRecoverable /\ SomeDependencyFirst
    /\ \A w \in Workers : tx[w] # Idle => ReadsHold(tx[w])
    /\ \A v, w \in Workers : v # w /\ tx[v] # Idle /\ tx[w] # Idle => Distinct(tx[v], tx[w])

IInv == LedgerIInv /\ EvidenceIInv

-----------------------------------------------------------------------------
(* Operators.                                                              *)

\* What a push or a recovery decides is a disposition with its reason.
LEMMA VerdictTypes ==
    ASSUME NEW e \in Envelopes
    PROVE  /\ PushVerdict(e) \in [disposition: Dispositions \cup {"processing"}, reason: Reasons]
           /\ RecoveryVerdict(e) \in [disposition: Dispositions \cup {"processing"},
                                       reason: Reasons]
           /\ PushVerdict(e).disposition # "applied"
           /\ RecoveryVerdict(e).disposition # "applied"
<1>1. DependencyStatus(e) \in {"satisfied", "quarantined", "conflict", "rejected",
                               "dependency_pending"}
  BY DEF DependencyStatus
<1>2. /\ DependencyVerdict(e) \in [disposition: Dispositions \cup {"processing"}, reason: Reasons]
      /\ DependencyVerdict(e).disposition # "applied"
  BY <1>1 DEF DependencyVerdict, Decide, Dispositions, Reasons
<1>3. QED
  BY <1>1, <1>2 DEF PushVerdict, RecoveryVerdict, Decide, Dispositions, Reasons

\* A disposition and its reason make a row.
LEMMA RowTypes ==
    ASSUME NEW e \in Envelopes, NEW v,
           v \in [disposition: Dispositions \cup {"processing"}, reason: Reasons],
           v.disposition # "processing"
    PROVE  /\ Row(e, v) \in ProvenanceRow
           /\ Row(e, v).envelope = e
           /\ Row(e, v).disposition = v.disposition
BY DEF Row, ProvenanceRow

LEMMA EnvelopeFields ==
    ASSUME NEW e \in Envelopes
    PROVE  e.op \in Ops /\ e.request \in Requests /\ e.license \in Licenses
BY EnvelopesAssumption DEF Envelope

LEMMA IdleNotTransaction == Idle \notin Transaction
BY DEF Idle, Transaction

\* Status answers are statuses.
LEMMA StatusTypes ==
    ASSUME NEW d \in Dispositions \cup {"exact_replay", "id_conflict"}
    PROVE  /\ StatusOf(d) \in Statuses
           /\ StatusOf(d) # "APPLIED"
           /\ StatusOf(d) = "EXACT_REPLAY" => d \in {"applied", "exact_replay"}
BY DEF StatusOf, Statuses, Dispositions

-----------------------------------------------------------------------------
(* Steps that change nothing but one transaction.                          *)

\* The committed tables stay; worker w replaces its transaction by t.
LEMMA TransactionStep ==
    ASSUME LedgerIInv, ReadOnlyStore, NEW w \in Workers, NEW t \in Transaction \cup {Idle},
           tx' = [tx EXCEPT ![w] = t],
           t # Idle => TransactionOK(t),
           t # Idle => \A v \in Workers \ {w} : tx[v] # Idle => Apart(tx[v], t)
    PROVE  LedgerIInv'
<1>1. TypeOK'
  BY DEF LedgerIInv, TypeOK, ReadOnlyStore
<1>2. EffectAtMostOnce' /\ AppliedIsCanonical' /\ AnswerIsTruthful' /\ RowsKeyed'
  BY DEF LedgerIInv, ReadOnlyStore, EffectAtMostOnce, AppliedIsCanonical, AnswerIsTruthful, RowsKeyed,
         Applied, Disposition
<1>3. AttemptsTruthful'
  BY DEF LedgerIInv, ReadOnlyStore, AttemptsTruthful, Entered, Applied
<1>4. \A v \in Workers : tx'[v] = IF v = w THEN t ELSE tx[v]
  BY DEF LedgerIInv, TypeOK
<1>5. Transactions'
  <2>1. SUFFICES ASSUME NEW v \in Workers, tx'[v] # Idle
                 PROVE  TransactionOK(tx[v])'
    BY DEF Transactions
  <2>2. TransactionOK(tx'[v])
    BY <1>4, <2>1 DEF LedgerIInv, Transactions
  <2>3. QED
    BY <2>2, SMTT(30) DEF ReadOnlyStore, TransactionOK, ClaimOK, ResultOK, RowOK, Entered, Applied
<1>6. Separation'
  <2>1. SUFFICES ASSUME NEW u \in Workers, NEW v \in Workers, u # v,
                        tx'[u] # Idle, tx'[v] # Idle
                 PROVE  Apart(tx'[u], tx'[v])
    BY DEF Separation, Apart
  <2>2. CASE u # w /\ v # w
    BY <1>4, <2>1, <2>2 DEF LedgerIInv, Separation
  <2>3. CASE u = w
    <3>1. Apart(tx[v], t)
      BY <1>4, <2>1, <2>3
    <3>2. QED
      BY <1>4, <2>1, <2>3, <3>1 DEF Apart
  <2>4. CASE v = w
    BY <1>4, <2>1, <2>4
  <2>5. QED
    BY <2>2, <2>3, <2>4
<1>7. QED
  BY <1>1, <1>2, <1>3, <1>5, <1>6 DEF LedgerIInv

\* A worker begins a transaction: the operations it takes are free, and what
\* it decided follows from the rows it read.
LEMMA BeginStep ==
    ASSUME LedgerIInv, ReadOnlyStore, NEW w \in Workers, NEW e \in Envelopes,
           NEW phase \in {"authorized", "decided"}, NEW kind \in {"push", "recover", "online"},
           NEW a \in Attempts \cup {NoAttempt},
           NEW holds \in SUBSET Ops, NEW shares \in SUBSET Grants,
           NEW row \in ProvenanceRow \cup {NoRow},
           NEW result \in Dispositions \cup {"exact_replay", "none"},
           Begin(w, phase, kind, e, a, holds, shares, row, result),
           OperationFree(w, holds),
           kind # "online" => e.op \in holds,
           a # NoAttempt => prov[e.op] # NoRow,
           phase = "decided" => kind # "online" /\ result # "none",
           phase = "decided" /\ result \in {"applied", "exact_replay"} => Entered(e),
           phase = "authorized" /\ kind # "online" /\ prov[e.op] # NoRow =>
              /\ prov[e.op].envelope = e
              /\ prov[e.op].disposition \in {"dependency_pending", "quarantined"},
           phase = "decided" /\ row # NoRow =>
              /\ row.disposition # "applied"
              /\ row.envelope.op = e.op
              /\ prov[e.op] # NoRow =>
                    /\ row.envelope = prov[e.op].envelope
                    /\ prov[e.op].disposition \notin {"rejected", "conflict"}
                    /\ prov[e.op].disposition = "applied" => row.disposition = "conflict"
    PROVE  LedgerIInv'
<1> DEFINE t == [phase |-> phase, kind |-> kind, env |-> e, attempt |-> a,
                 holds |-> holds, shares |-> shares, row |-> row, claim |-> NoRow,
                 preexisted |-> processed[e.op] # NoRow, result |-> result]
<1>1. tx' = [tx EXCEPT ![w] = t]
  BY DEF Begin
<1>2. t \in Transaction
  BY DEF Transaction
<1>3. TransactionOK(t)
  BY DEF TransactionOK, ClaimOK, ResultOK, RowOK, Dispositions
<1>4. \A v \in Workers \ {w} : tx[v] # Idle => Apart(tx[v], t)
  BY DEF OperationFree, Active, Apart
<1> HIDE DEF t
<1>5. QED
  BY <1>1, <1>2, <1>3, <1>4, TransactionStep

\* Every way a push begins.
LEMMA PushStep ==
    ASSUME LedgerIInv, NEW w \in Workers, NEW e \in Envelopes, Push(w, e)
    PROVE  LedgerIInv'
<1> USE EnvelopeFields
<1>1. CASE PushChanged(w, e)
  <2> DEFINE row == IF prov[e.op].disposition = "applied"
                    THEN [prov[e.op] EXCEPT !.disposition = "conflict", !.reason = "other"]
                    ELSE NoRow
  <2>1. prov[e.op] \in ProvenanceRow /\ prov[e.op].envelope.op = e.op
    BY <1>1 DEF PushChanged, LedgerIInv, TypeOK, RowsKeyed
  <2>2. row \in ProvenanceRow \cup {NoRow}
    BY <2>1 DEF ProvenanceRow, Dispositions, Reasons
  <2>3. row # NoRow =>
           /\ row.disposition = "conflict"
           /\ row.envelope = prov[e.op].envelope
           /\ prov[e.op].disposition = "applied"
    BY <2>1 DEF ProvenanceRow
  <2>4. /\ Begin(w, "decided", "push", e, NoAttempt, {e.op}, {}, row, "conflict")
        /\ ReadOnlyStore
        /\ OperationFree(w, {e.op})
    BY <1>1 DEF PushChanged, CanPush
  <2> HIDE DEF row
  <2>5. QED
    BY <2>1, <2>2, <2>3, <2>4, BeginStep DEF Dispositions
<1>2. CASE PushReplayed(w, e)
  <2>1. prov[e.op] \in ProvenanceRow
    BY <1>2 DEF PushReplayed, LedgerIInv, TypeOK
  <2>2. prov[e.op].disposition = "applied" => Entered(e)
    BY <1>2 DEF PushReplayed, LedgerIInv, AppliedIsCanonical, Disposition, Entered
  <2>3. /\ Begin(w, "decided", "push", e, NoAttempt, {e.op}, {}, NoRow, prov[e.op].disposition)
        /\ ReadOnlyStore
        /\ OperationFree(w, {e.op})
    BY <1>2 DEF PushReplayed, CanPush
  <2>4. prov[e.op].disposition \in Dispositions
    BY <2>1 DEF ProvenanceRow
  <2>5. QED
    BY <2>2, <2>3, <2>4, BeginStep DEF Dispositions
<1>3. CASE PushSequenceConflict(w, e)
  <2>1. /\ Begin(w, "decided", "push", e, NoAttempt, {e.op} \cup SequenceOwners(e), {},
                 NoRow, "conflict")
        /\ ReadOnlyStore
    BY <1>3 DEF PushSequenceConflict
  <2>2. OperationFree(w, {e.op} \cup SequenceOwners(e))
    BY <1>3 DEF PushSequenceConflict, CanPush, OperationFree
  <2>3. {e.op} \cup SequenceOwners(e) \subseteq Ops
    BY DEF SequenceOwners
  <2>4. QED
    BY <2>1, <2>2, <2>3, BeginStep DEF Dispositions
<1>4. CASE PushEvaluated(w, e)
  <2> DEFINE v == PushVerdict(e)
  <2>1. /\ v \in [disposition: Dispositions \cup {"processing"}, reason: Reasons]
        /\ v.disposition # "applied"
    BY VerdictTypes
  <2>2. EvidenceRows(e) \subseteq Grants
    BY DEF EvidenceRows, Grants
  <2>3. prov[e.op] # NoRow =>
          /\ prov[e.op].envelope = e
          /\ prov[e.op].disposition = "dependency_pending"
    BY <1>4 DEF PushEvaluated, Undecided
  <2>4. /\ ReadOnlyStore
        /\ OperationFree(w, {e.op})
        /\ v.disposition = "processing" =>
             Begin(w, "authorized", "push", e, NoAttempt, {e.op}, EvidenceRows(e), NoRow, "none")
        /\ v.disposition # "processing" =>
             Begin(w, "decided", "push", e, NoAttempt, {e.op}, EvidenceRows(e), Row(e, v),
                   v.disposition)
    BY <1>4 DEF PushEvaluated, CanPush
  <2> HIDE DEF v
  <2>5. CASE v.disposition = "processing"
    BY <2>2, <2>3, <2>4, <2>5, BeginStep
  <2>6. CASE v.disposition # "processing"
    <3>1. /\ Row(e, v) \in ProvenanceRow
          /\ Row(e, v).envelope = e
          /\ Row(e, v).disposition = v.disposition
      BY <2>1, <2>6, RowTypes
    <3>2. v.disposition \in Dispositions \ {"applied"}
      BY <2>1, <2>6
    <3>3. QED
      BY <2>2, <2>3, <2>4, <2>6, <3>1, <3>2, BeginStep DEF Dispositions
  <2>7. QED
    BY <2>5, <2>6
<1>5. QED
  BY <1>1, <1>2, <1>3, <1>4 DEF Push

\* Every way a recovery begins.
LEMMA RecoverStep ==
    ASSUME LedgerIInv, NEW w \in Workers, NEW e \in Envelopes, NEW a \in Attempts, Recover(w, e, a)
    PROVE  LedgerIInv'
<1> USE EnvelopeFields
<1>1. CASE RecoverReplayed(w, e, a)
  <2>1. /\ attempts[a] \in AttemptRow
        /\ attempts[a].result \in {"applied", "exact_replay"} => Entered(e)
    BY <1>1 DEF RecoverReplayed, LedgerIInv, TypeOK, AttemptsTruthful
  <2>2. /\ Begin(w, "decided", "recover", e, NoAttempt, {e.op}, {}, NoRow, attempts[a].result)
        /\ ReadOnlyStore
        /\ OperationFree(w, {e.op})
    BY <1>1 DEF RecoverReplayed, CanRecover
  <2>3. attempts[a].result \in Dispositions \cup {"exact_replay"} /\ attempts[a].result # "none"
    BY <2>1 DEF AttemptRow, Dispositions
  <2>4. QED
    BY <2>1, <2>2, <2>3, BeginStep
<1>2. CASE RecoverChanged(w, e, a)
  <2>1. /\ Begin(w, "decided", "recover", e, NoAttempt, {e.op}, {}, NoRow, "conflict")
        /\ ReadOnlyStore
        /\ OperationFree(w, {e.op})
    BY <1>2 DEF RecoverChanged, CanRecover
  <2>2. "conflict" \in Dispositions \cup {"exact_replay", "none"} /\ {e.op} \in SUBSET Ops
    BY DEF Dispositions
  <2>3. QED
    BY <2>1, <2>2, BeginStep
<1>3. CASE RecoverSettled(w, e, a)
  <2> DEFINE result == IF prov[e.op].disposition = "applied" /\ Applied(e.op)
                       THEN "exact_replay" ELSE prov[e.op].disposition
  <2>1. prov[e.op] \in ProvenanceRow
    BY <1>3 DEF RecoverSettled, LedgerIInv, TypeOK
  <2>2. result \in {"applied", "exact_replay"} => Entered(e)
    BY <1>3, <2>1 DEF RecoverSettled, LedgerIInv, AppliedIsCanonical, Disposition, Entered,
                      ProvenanceRow, Dispositions
  <2>3. result \in Dispositions \cup {"exact_replay"} /\ result # "none"
    BY <2>1 DEF ProvenanceRow, Dispositions
  <2>4. /\ Begin(w, "decided", "recover", e, a, {e.op}, {}, NoRow, result)
        /\ ReadOnlyStore
        /\ OperationFree(w, {e.op})
        /\ prov[e.op] # NoRow
    BY <1>3 DEF RecoverSettled, CanRecover
  <2> HIDE DEF result
  <2>5. QED
    BY <2>2, <2>3, <2>4, BeginStep
<1>4. CASE RecoverEvaluated(w, e, a)
  <2> DEFINE v == RecoveryVerdict(e)
             row == IF v.disposition = "quarantined" THEN NoRow ELSE Row(e, v)
  <2>1. /\ v \in [disposition: Dispositions \cup {"processing"}, reason: Reasons]
        /\ v.disposition # "applied"
    BY VerdictTypes
  <2>2. EvidenceRows(e) \subseteq Grants
    BY DEF EvidenceRows, Grants
  <2>3. /\ prov[e.op] # NoRow
        /\ prov[e.op].envelope = e
        /\ prov[e.op].disposition = "quarantined"
    BY <1>4 DEF RecoverEvaluated
  <2>4. /\ ReadOnlyStore
        /\ OperationFree(w, {e.op})
        /\ v.disposition = "processing" =>
             Begin(w, "authorized", "recover", e, a, {e.op}, EvidenceRows(e), NoRow, "none")
        /\ v.disposition # "processing" =>
             Begin(w, "decided", "recover", e, a, {e.op}, EvidenceRows(e), row, v.disposition)
    BY <1>4 DEF RecoverEvaluated, CanRecover
  <2>5. v.disposition # "processing" =>
          /\ row \in ProvenanceRow \cup {NoRow}
          /\ row # NoRow => row.envelope = e /\ row.disposition = v.disposition
          /\ v.disposition \in Dispositions \ {"applied"}
    BY <2>1, RowTypes
  <2> HIDE DEF v, row
  <2>6. CASE v.disposition = "processing"
    BY <2>2, <2>3, <2>4, <2>6, BeginStep
  <2>7. CASE v.disposition # "processing"
    BY <2>2, <2>3, <2>4, <2>5, <2>7, BeginStep DEF Dispositions
  <2>8. QED
    BY <2>6, <2>7
<1>5. QED
  BY <1>1, <1>2, <1>3, <1>4 DEF Recover

\* The domain service claims the operation, replays it, or refuses it.
LEMMA DomainStep ==
    ASSUME LedgerIInv, NEW w \in Workers, DispatchStep(w)
    PROVE  LedgerIInv'
<1> DEFINE Dispatched(claim, result) ==
        /\ tx[w] # Idle
        /\ tx[w].phase = "authorized"
        /\ Dispatch(w, claim, result)
        /\ claim # NoRow => /\ CanClaim(w)
                            /\ claim.request = tx[w].env.request
                            /\ claim.outcome = result
        /\ result = "applied" /\ claim = NoRow => Entered(tx[w].env)
<1>1. \E claim \in ProcessedRow \cup {NoRow},
         result \in {"applied", "rejected", "conflict", "id_conflict"} : Dispatched(claim, result)
  <2>1. CASE DispatchInvalid(w)
    BY <2>1 DEF DispatchInvalid
  <2>2. CASE DispatchReplayed(w)
    <3>1. tx[w] \in Transaction /\ tx[w].env.op \in Ops
      BY <2>2, EnvelopeFields DEF DispatchReplayed, LedgerIInv, TypeOK, Transaction
    <3>2. processed[tx[w].env.op] \in ProcessedRow
      BY <2>2, <3>1 DEF DispatchReplayed, LedgerIInv, TypeOK
    <3> DEFINE result == IF processed[tx[w].env.op].request = tx[w].env.request
                         THEN processed[tx[w].env.op].outcome ELSE "id_conflict"
    <3>3. result \in {"applied", "rejected", "conflict", "id_conflict"}
      BY <3>2 DEF ProcessedRow
    <3>4. result = "applied" => Entered(tx[w].env)
      BY <2>2, <3>2 DEF DispatchReplayed, Entered, Applied
    <3>5. Dispatch(w, NoRow, result) /\ tx[w] # Idle /\ tx[w].phase = "authorized"
      BY <2>2 DEF DispatchReplayed
    <3> HIDE DEF result
    <3>6. QED
      BY <3>3, <3>4, <3>5
  <2>3. ASSUME NEW outcome \in {"applied", "rejected", "conflict"}, DispatchClaimed(w, outcome)
        PROVE  \E c \in ProcessedRow \cup {NoRow},
                  r \in {"applied", "rejected", "conflict", "id_conflict"} : Dispatched(c, r)
    <3> DEFINE claimed == [request |-> tx[w].env.request, outcome |-> outcome]
               claim == IF outcome = "applied" \/ tx[w].kind = "online" THEN claimed ELSE NoRow
    <3>1. tx[w] \in Transaction /\ tx[w].env \in Envelopes
      BY <2>3 DEF DispatchClaimed, LedgerIInv, TypeOK, Transaction
    <3>2. claimed \in ProcessedRow
      BY <3>1, EnvelopeFields DEF ProcessedRow
    <3>3. /\ Dispatch(w, claim, outcome) /\ tx[w] # Idle /\ tx[w].phase = "authorized"
          /\ CanClaim(w)
      BY <2>3 DEF DispatchClaimed
    <3>4. outcome = "applied" => claim # NoRow
      BY <3>2, NullsAssumption
    <3>5. claim # NoRow => claim.request = tx[w].env.request /\ claim.outcome = outcome
      OBVIOUS
    <3>6. claim \in ProcessedRow \cup {NoRow}
      BY <3>2
    <3> HIDE DEF claim
    <3>7. QED
      BY <3>3, <3>4, <3>5, <3>6
  <2>4. QED
    BY <2>1, <2>2, <2>3 DEF DispatchStep
<1>2. PICK claim \in ProcessedRow \cup {NoRow},
          result \in {"applied", "rejected", "conflict", "id_conflict"} : Dispatched(claim, result)
  BY <1>1
<1> DEFINE t == [tx[w] EXCEPT !.phase = "dispatched", !.claim = claim, !.result = result]
<1>3. tx[w] \in Transaction /\ TransactionOK(tx[w])
  BY <1>2 DEF LedgerIInv, TypeOK, Transactions
<1>4. t \in Transaction
  BY <1>2, <1>3 DEF Transaction, Dispositions
<1>5. /\ t.phase = "dispatched" /\ t.claim = claim /\ t.result = result
      /\ t.env = tx[w].env /\ t.holds = tx[w].holds /\ t.kind = tx[w].kind /\ t.row = tx[w].row
      /\ t.attempt = tx[w].attempt
  BY <1>3 DEF Transaction
<1>6. tx' = [tx EXCEPT ![w] = t] /\ ReadOnlyStore
  BY <1>2 DEF Dispatch, LedgerIInv, TypeOK
<1> HIDE DEF t
<1>7. TransactionOK(t)
  BY <1>2, <1>3, <1>5 DEF TransactionOK, ClaimOK, ResultOK, RowOK, CanClaim
<1>8. ASSUME NEW v \in Workers \ {w}, tx[v] # Idle
      PROVE  Apart(tx[v], t)
  BY <1>2, <1>5, <1>8 DEF LedgerIInv, Separation, Apart, CanClaim, Active
<1>9. QED
  BY <1>4, <1>6, <1>7, <1>8, TransactionStep

-----------------------------------------------------------------------------
(* Commits.                                                                *)

\* A commit of worker w writes at most the provenance row of its operation
\* (which it has locked), its claim (which only it has pending), one attempt
\* and one answer.  It keeps the invariant when what it says is applied is.
LEMMA CommitStep ==
    ASSUME LedgerIInv, NEW w \in Workers, tx[w] # Idle,
           NEW env \in Envelopes, env = tx[w].env,
           NEW row \in ProvenanceRow \cup {NoRow}, NEW status \in Statuses,
           NEW result \in Dispositions \cup {"exact_replay"},
           prov' = IF row = NoRow THEN prov ELSE [prov EXCEPT ![tx[w].env.op] = row],
           row # NoRow => tx[w].kind # "online" /\ row.envelope.op = tx[w].env.op,
           row # NoRow /\ row.disposition = "applied" => Entered(row.envelope)',
           WriteClaim(w) \/ UNCHANGED <<processed, effects>>,
           WriteAttempt(w, result) \/ UNCHANGED attempts,
           tx[w].attempt # NoAttempt =>
              tx[w].kind # "online" \/ UNCHANGED attempts,
           Answer(w, status), End(w), UNCHANGED lost,
           result \in {"applied", "exact_replay"} =>
              Entered(env)' \/ UNCHANGED attempts,
           status \in {"APPLIED", "EXACT_REPLAY"} => Entered(env)'
    PROVE  LedgerIInv'
<1> DEFINE t == tx[w]
           o == tx[w].env.op
<1>1. t \in Transaction /\ TransactionOK(t) /\ t.env \in Envelopes /\ o \in Ops
      /\ t.claim \in ProcessedRow \cup {NoRow} /\ t.attempt \in Attempts \cup {NoAttempt}
  BY EnvelopeFields DEF LedgerIInv, TypeOK, Transactions, Transaction
<1>2. /\ \A p \in Ops \ {o} : prov'[p] = prov[p] /\ processed'[p] = processed[p]
                              /\ effects'[p] = effects[p]
      /\ prov'[o] = IF row = NoRow THEN prov[o] ELSE row
      /\ \/ processed'[o] = processed[o] /\ effects'[o] = effects[o]
         \/ /\ t.claim # NoRow
            /\ processed'[o] = t.claim
            /\ effects'[o] = effects[o] + IF t.claim.outcome = "applied" THEN 1 ELSE 0
  BY <1>1 DEF LedgerIInv, TypeOK, WriteClaim
<1>3. \A p \in Ops : processed[p] # NoRow => processed'[p] = processed[p]
  BY <1>1, <1>2 DEF TransactionOK, ClaimOK
<1>4. \A e \in Envelopes : Entered(e) => Entered(e)'
  BY <1>3, EnvelopeFields DEF Entered, Applied
<1>5. TypeOK'
  <2>1. prov' \in [Ops -> ProvenanceRow \cup {NoRow}]
    BY DEF LedgerIInv, TypeOK
  <2>2. processed' \in [Ops -> ProcessedRow \cup {NoRow}] /\ effects' \in [Ops -> Nat]
    BY <1>1 DEF LedgerIInv, TypeOK, WriteClaim
  <2>3. attempts' \in [Attempts -> AttemptRow \cup {NoRow}]
    <3>1. CASE UNCHANGED attempts
      BY <3>1 DEF LedgerIInv, TypeOK
    <3>2. CASE ~UNCHANGED attempts
      <4>1. t.attempt # NoAttempt /\ t.attempt \in Attempts /\ prov[o] # NoRow
        BY <1>1, <3>2 DEF WriteAttempt, TransactionOK, RowOK
      <4>2. prov[o].reason \in Reasons
        BY <1>1, <4>1 DEF LedgerIInv, TypeOK, ProvenanceRow
      <4>3. [envelope |-> t.env, reason |-> prov[o].reason, result |-> result] \in AttemptRow
        BY <1>1, <4>2 DEF AttemptRow
      <4>4. attempts' = [attempts EXCEPT ![t.attempt] =
                [envelope |-> t.env, reason |-> prov[o].reason, result |-> result]]
        BY <3>2, <4>1 DEF WriteAttempt
      <4>5. QED
        BY <4>1, <4>3, <4>4 DEF LedgerIInv, TypeOK
    <3>3. QED
      BY <3>1, <3>2
  <2>4. tx' \in [Workers -> Transaction \cup {Idle}]
    BY DEF LedgerIInv, TypeOK, End
  <2>5. answers' \subseteq Envelopes \X Statuses
    BY <1>1 DEF LedgerIInv, TypeOK, Answer
  <2>6. lost' \subseteq Grants
    BY DEF LedgerIInv, TypeOK
  <2>7. QED
    BY <2>1, <2>2, <2>3, <2>4, <2>5, <2>6 DEF TypeOK
<1>6. EffectAtMostOnce'
  <2>1. SUFFICES ASSUME NEW p \in Ops
                 PROVE  effects'[p] = IF processed'[p] # NoRow /\ processed'[p].outcome = "applied"
                                      THEN 1 ELSE 0
    BY DEF EffectAtMostOnce, Applied
  <2>2. effects[p] = IF processed[p] # NoRow /\ processed[p].outcome = "applied" THEN 1 ELSE 0
    BY DEF LedgerIInv, EffectAtMostOnce, Applied
  <2>3. CASE processed'[p] = processed[p] /\ effects'[p] = effects[p]
    BY <2>2, <2>3
  <2>4. CASE p = o /\ t.claim # NoRow /\ processed'[o] = t.claim
             /\ effects'[o] = effects[o] + IF t.claim.outcome = "applied" THEN 1 ELSE 0
    <3>1. processed[o] = NoRow
      BY <1>1, <2>4 DEF TransactionOK, ClaimOK
    <3>2. QED
      BY <2>2, <2>4, <3>1
  <2>5. QED
    BY <1>2, <2>3, <2>4
<1>7. RowsKeyed'
  BY <1>2 DEF LedgerIInv, RowsKeyed
<1>8. AppliedIsCanonical'
  <2>1. SUFFICES ASSUME NEW p \in Ops, prov'[p] # NoRow, prov'[p].disposition = "applied"
                 PROVE  /\ processed'[p] # NoRow
                        /\ processed'[p].outcome = "applied"
                        /\ processed'[p].request = prov'[p].envelope.request
    BY DEF AppliedIsCanonical, Disposition, Applied
  <2>2. CASE prov'[p] = prov[p]
    BY <1>3, <2>1, <2>2 DEF LedgerIInv, AppliedIsCanonical, Disposition, Applied
  <2>3. CASE p = o /\ row # NoRow /\ prov'[o] = row
    BY <2>1, <2>3 DEF Entered, Applied
  <2>4. QED
    BY <1>2, <2>2, <2>3
<1>9. AnswerIsTruthful'
  <2>1. SUFFICES ASSUME NEW e \in Envelopes,
                        <<e, "APPLIED">> \in answers' \/ <<e, "EXACT_REPLAY">> \in answers'
                 PROVE  Entered(e)'
    BY DEF AnswerIsTruthful, Entered
  <2>2. CASE <<e, "APPLIED">> \in answers \/ <<e, "EXACT_REPLAY">> \in answers
    BY <1>4, <2>2 DEF LedgerIInv, AnswerIsTruthful, Entered
  <2>3. CASE e = env /\ status \in {"APPLIED", "EXACT_REPLAY"}
    BY <2>3
  <2>4. QED
    BY <2>1, <2>2, <2>3 DEF Answer
<1>10. AttemptsTruthful'
  <2>1. SUFFICES ASSUME NEW a \in Attempts, attempts'[a] # NoRow,
                        attempts'[a].result \in {"applied", "exact_replay"}
                 PROVE  Entered(attempts[a].envelope)'
    BY DEF AttemptsTruthful, Entered
  <2>2. CASE attempts'[a] = attempts[a]
    <3>1. attempts[a].envelope \in Envelopes /\ Entered(attempts[a].envelope)
      BY <2>1, <2>2 DEF LedgerIInv, TypeOK, AttemptRow, AttemptsTruthful
    <3>2. \A e \in Envelopes : e = attempts[a].envelope => Entered(e)'
      BY <1>4, <3>1
    <3>3. QED
      BY <2>2, <3>1, <3>2 DEF Entered
  <2>3. CASE attempts'[a] # attempts[a]
    <3>1. /\ a = t.attempt /\ ~UNCHANGED attempts
          /\ attempts'[a] = [envelope |-> env, reason |-> prov[o].reason, result |-> result]
      BY <1>1, <2>3 DEF WriteAttempt, LedgerIInv, TypeOK
    <3>2. QED
      BY <2>1, <3>1 DEF Entered
  <2>4. QED
    BY <2>2, <2>3
<1>11. \A v \in Workers : tx'[v] = IF v = w THEN Idle ELSE tx[v]
  BY DEF LedgerIInv, TypeOK, End
<1>12. Transactions'
  <2>1. SUFFICES ASSUME NEW v \in Workers, v # w, tx[v] # Idle, tx'[v] = tx[v]
                 PROVE  TransactionOK(tx[v])'
    BY <1>11 DEF Transactions
  <2> DEFINE s == tx[v]
  <2>2. s \in Transaction /\ s.env \in Envelopes /\ s.env.op \in Ops /\ TransactionOK(s)
        /\ Apart(s, t)
    BY <2>1, EnvelopeFields DEF LedgerIInv, TypeOK, Transaction, Transactions, Separation
  <2>3. ClaimOK(tx[v])'
    BY <1>2, <2>1, <2>2 DEF TransactionOK, ClaimOK, Apart
  <2>4. ResultOK(tx[v])'
    BY <1>4, <2>1, <2>2 DEF TransactionOK, ResultOK, Entered
  <2>5. s.kind # "online" => prov'[s.env.op] = prov[s.env.op]
    BY <1>1, <1>2, <2>2 DEF TransactionOK, RowOK, Apart
  <2>6. RowOK(tx[v])'
    BY <2>1, <2>2, <2>5 DEF TransactionOK, RowOK
  <2>7. QED
    BY <2>1, <2>2, <2>3, <2>4, <2>6 DEF TransactionOK
<1>13. Separation'
  BY <1>11 DEF LedgerIInv, Separation, Apart
<1>14. QED
  BY <1>5, <1>6, <1>7, <1>8, <1>9, <1>10, <1>12, <1>13 DEF LedgerIInv

\* Every way a transaction commits.
LEMMA EndKeeps ==
    ASSUME LedgerIInv, NEW w \in Workers, EndStep(w)
    PROVE  LedgerIInv'
<1>1. /\ tx[w] # Idle
      /\ tx[w] \in Transaction
      /\ TransactionOK(tx[w])
      /\ tx[w].env \in Envelopes
      /\ tx[w].env.op \in Ops
      /\ tx[w].row \in ProvenanceRow \cup {NoRow}
  BY EnvelopeFields DEF EndStep, CommitDecided, FinishApplied, FinishRefused, CommitOnline,
     LedgerIInv, TypeOK, Transactions, Transaction
<1> DEFINE o == tx[w].env.op
<1>2. PICK env \in Envelopes : env = tx[w].env
  BY <1>1
<1>3. ASSUME tx[w].phase = "dispatched", tx[w].result = "applied", WriteClaim(w)
      PROVE  Entered(env)'
  <2>1. CASE tx[w].claim = NoRow
    BY <1>1, <1>2, <1>3, <2>1 DEF TransactionOK, ResultOK, WriteClaim, Entered, Applied
  <2>2. CASE tx[w].claim # NoRow
    <3>1. processed'[o] = tx[w].claim
      BY <1>1, <1>3, <2>2 DEF WriteClaim, LedgerIInv, TypeOK
    <3>2. tx[w].claim.outcome = "applied" /\ tx[w].claim.request = env.request
      BY <1>1, <1>2, <1>3, <2>2 DEF TransactionOK, ClaimOK
    <3>3. QED
      BY <1>2, <2>2, <3>1, <3>2 DEF Entered, Applied
  <2>3. QED
    BY <2>1, <2>2
<1>4. CASE CommitDecided(w)
  <2> DEFINE row == tx[w].row
             status == StatusOf(tx[w].result)
  <2>1. /\ tx[w].result \in Dispositions \cup {"exact_replay"}
        /\ tx[w].result # "id_conflict"
        /\ tx[w].kind # "online"
    BY <1>1, <1>4 DEF CommitDecided, TransactionOK, ResultOK, Dispositions
  <2>2. row # NoRow => row.envelope.op = o /\ row.disposition # "applied"
    BY <1>1, <1>4, <2>1 DEF CommitDecided, TransactionOK, RowOK
  <2>3. tx[w].result \in {"applied", "exact_replay"} => Entered(env)'
    BY <1>1, <1>2, <1>4 DEF CommitDecided, TransactionOK, ResultOK, Entered, Applied
  <2>4. /\ status \in Statuses
        /\ status \in {"APPLIED", "EXACT_REPLAY"} => Entered(env)'
    BY <2>1, <2>3, StatusTypes
  <2>5. /\ prov' = IF row = NoRow THEN prov ELSE [prov EXCEPT ![o] = row]
        /\ WriteAttempt(w, tx[w].result)
        /\ Answer(w, status)
        /\ End(w)
        /\ UNCHANGED <<processed, effects>> /\ UNCHANGED lost
    BY <1>4, <2>1 DEF CommitDecided
  <2> HIDE DEF status
  <2>6. QED
    BY <1>1, <1>2, <2>1, <2>2, <2>3, <2>4, <2>5, CommitStep
<1>5. CASE FinishApplied(w)
  <2> DEFINE row == Row(tx[w].env, Decide("applied", "none"))
             status == IF tx[w].kind = "push" /\ tx[w].preexisted
                       THEN "EXACT_REPLAY" ELSE "APPLIED"
  <2>1. /\ row \in ProvenanceRow
        /\ row.envelope = env
        /\ row # NoRow
    BY <1>2, NullsAssumption DEF Row, Decide, ProvenanceRow, Dispositions, Reasons
  <2>2. /\ prov' = [prov EXCEPT ![o] = row]
        /\ WriteClaim(w)
        /\ WriteAttempt(w, "applied")
        /\ Answer(w, status)
        /\ End(w)
        /\ UNCHANGED lost
        /\ tx[w].kind # "online"
    BY <1>5 DEF FinishApplied
  <2>3. Entered(env)'
    BY <1>3, <1>5 DEF FinishApplied
  <2>4. status \in Statuses /\ "applied" \in Dispositions \cup {"exact_replay"}
    BY DEF Statuses, Dispositions
  <2> HIDE DEF row, status
  <2>5. PICK r \in ProvenanceRow : r = row
    BY <2>1
  <2>6. Entered(r.envelope)'
    BY <2>1, <2>3, <2>5 DEF Entered
  <2>7. QED
    BY <1>1, <1>2, <2>1, <2>2, <2>3, <2>4, <2>5, <2>6, CommitStep
<1>6. CASE FinishRefused(w)
  <2> DEFINE d == IF tx[w].result = "id_conflict" THEN "conflict" ELSE tx[w].result
             row == Row(tx[w].env, Decide(d, "other"))
             status == StatusOf(d)
  <2>1. d \in {"rejected", "conflict"}
    BY <1>1, <1>6 DEF FinishRefused, TransactionOK, ResultOK
  <2>2. /\ row \in ProvenanceRow
        /\ row.envelope = env
        /\ row # NoRow
        /\ row.disposition # "applied"
    BY <1>2, <2>1, NullsAssumption DEF Row, Decide, ProvenanceRow, Dispositions, Reasons
  <2>3. /\ status \in Statuses
        /\ status \notin {"APPLIED", "EXACT_REPLAY"}
    BY <2>1, StatusTypes DEF Dispositions
  <2>4. /\ prov' = [prov EXCEPT ![o] = row]
        /\ WriteAttempt(w, d)
        /\ Answer(w, status)
        /\ End(w)
        /\ UNCHANGED <<processed, effects>> /\ UNCHANGED lost
        /\ tx[w].kind # "online"
    BY <1>6 DEF FinishRefused
  <2>5. d \in Dispositions \cup {"exact_replay"}
    BY <2>1 DEF Dispositions
  <2> HIDE DEF d, row, status
  <2>6. QED
    BY <1>1, <1>2, <2>1, <2>2, <2>3, <2>4, <2>5, CommitStep
<1>7. CASE CommitOnline(w)
  <2> DEFINE status == IF tx[w].result = "applied" THEN "APPLIED" ELSE StatusOf(tx[w].result)
  <2>1. tx[w].result \in {"applied", "rejected", "conflict", "id_conflict"}
    BY <1>1, <1>7 DEF CommitOnline, TransactionOK, ResultOK
  <2>2. tx[w].result = "applied" => Entered(env)'
    BY <1>3, <1>7 DEF CommitOnline
  <2>3. /\ status \in Statuses
        /\ status \in {"APPLIED", "EXACT_REPLAY"} => Entered(env)'
    BY <2>1, <2>2, StatusTypes DEF Statuses, Dispositions
  <2>4. /\ UNCHANGED prov /\ UNCHANGED attempts /\ UNCHANGED lost
        /\ WriteClaim(w)
        /\ Answer(w, status)
        /\ End(w)
    BY <1>7 DEF CommitOnline
  <2>5. "rejected" \in Dispositions \cup {"exact_replay"}
    BY DEF Dispositions
  <2> HIDE DEF status
  <2>6. QED
    BY <1>1, <1>2, <2>3, <2>4, <2>5, CommitStep
<1>8. QED
  BY <1>4, <1>5, <1>6, <1>7 DEF EndStep

-----------------------------------------------------------------------------
(* Steps that leave the transactions alone.                                *)

\* Grants come and go and refusals are answered without touching the books.
LEMMA OutsideStep ==
    ASSUME LedgerIInv, UNCHANGED <<prov, processed, effects, attempts, tx>>,
           lost' \subseteq Grants, answers' \subseteq Envelopes \X Statuses,
           \A e \in Envelopes, s \in {"APPLIED", "EXACT_REPLAY"} :
               <<e, s>> \in answers' => <<e, s>> \in answers
    PROVE  LedgerIInv'
<1>1. TypeOK'
  BY DEF LedgerIInv, TypeOK
<1>2. EffectAtMostOnce' /\ AppliedIsCanonical' /\ AnswerIsTruthful' /\ RowsKeyed'
  BY DEF LedgerIInv, EffectAtMostOnce, AppliedIsCanonical, AnswerIsTruthful, RowsKeyed, Applied,
         Disposition
<1>3. AttemptsTruthful'
  BY DEF LedgerIInv, AttemptsTruthful, Entered, Applied
<1>4. Transactions'
  BY DEF LedgerIInv, Transactions, TransactionOK, ClaimOK, ResultOK, RowOK, Entered, Applied
<1>5. Separation'
  BY DEF LedgerIInv, Separation, Apart
<1>6. QED
  BY <1>1, <1>2, <1>3, <1>4, <1>5 DEF LedgerIInv

-----------------------------------------------------------------------------
(* Theorems.                                                               *)

\* The empty Store satisfies the invariant.
LEMMA Initially == Init => LedgerIInv
<1> SUFFICES ASSUME Init PROVE LedgerIInv
  OBVIOUS
<1>1. \A o \in Ops : prov[o] = NoRow /\ processed[o] = NoRow /\ effects[o] = 0
  BY DEF Init
<1>2. \A w \in Workers : tx[w] = Idle
  BY DEF Init
<1>3. TypeOK
  BY DEF Init, TypeOK
<1>4. EffectAtMostOnce /\ AppliedIsCanonical /\ AnswerIsTruthful /\ RowsKeyed
  BY <1>1 DEF Init, EffectAtMostOnce, AppliedIsCanonical, AnswerIsTruthful, RowsKeyed,
              Applied, Disposition
<1>5. AttemptsTruthful
  BY DEF Init, AttemptsTruthful
<1>6. QED
  BY <1>2, <1>3, <1>4, <1>5 DEF LedgerIInv, Transactions, Separation

\* Every step of the system keeps the invariant.
LEMMA Inductive == LedgerIInv /\ [Next]_vars => LedgerIInv'
<1> SUFFICES ASSUME LedgerIInv, [Next]_vars PROVE LedgerIInv'
  OBVIOUS
<1>1. ASSUME NEW e \in Envelopes, PushRefused(e)
      PROVE  LedgerIInv'
  BY <1>1, OutsideStep DEF PushRefused, LedgerIInv, TypeOK, Statuses
<1>2. ASSUME NEW w \in Workers, NEW e \in Envelopes, Push(w, e)
      PROVE  LedgerIInv'
  BY <1>2, PushStep
<1>3. ASSUME NEW w \in Workers, NEW e \in Envelopes, NEW a \in Attempts, Recover(w, e, a)
      PROVE  LedgerIInv'
  BY <1>3, RecoverStep
<1>4. ASSUME NEW w \in Workers, NEW e \in Envelopes, OnlineBegun(w, e)
      PROVE  LedgerIInv'
  <2>1. /\ Begin(w, "authorized", "online", e, NoAttempt, {}, {"store"}, NoRow, "none")
        /\ ReadOnlyStore
    BY <1>4 DEF OnlineBegun
  <2>2. OperationFree(w, {}) /\ {"store"} \subseteq Grants /\ {} \subseteq Ops
    BY DEF OperationFree, Grants
  <2>3. QED
    BY <2>1, <2>2, BeginStep
<1>5. ASSUME NEW w \in Workers, DispatchStep(w)
      PROVE  LedgerIInv'
  BY <1>5, DomainStep
<1>6. ASSUME NEW w \in Workers, EndStep(w)
      PROVE  LedgerIInv'
  BY <1>6, EndKeeps
<1>7. ASSUME NEW w \in Workers, Abort(w)
      PROVE  LedgerIInv'
  BY <1>7, TransactionStep DEF Abort, End
<1>8. ASSUME NEW g \in Losable, Withdraw(g)
      PROVE  LedgerIInv'
  BY <1>8, OutsideStep, GrantsAssumption DEF Withdraw, LedgerIInv, TypeOK
<1>9. CASE Restore
  BY <1>9, OutsideStep DEF Restore, LedgerIInv, TypeOK
<1>10. CASE UNCHANGED vars
  BY <1>10, OutsideStep DEF vars, LedgerIInv, TypeOK
<1>11. QED
  BY <1>1, <1>2, <1>3, <1>4, <1>5, <1>6, <1>7, <1>8, <1>9, <1>10 DEF Next

\* The strengthened invariant holds in every reachable state.
LEMMA LedgerInvariance == Spec => []LedgerIInv
BY Initially, Inductive, PTL DEF Spec

\* The tables and the open transactions keep their shapes.
THEOREM TypeCorrect == Spec => []TypeOK
<1>1. LedgerIInv => TypeOK
  BY DEF LedgerIInv
<1>2. QED
  BY <1>1, LedgerInvariance, PTL

\* However pushes, recoveries and online calls interleave, the effect of an
\* operation is committed at most once, exactly when it is recorded applied.
THEOREM EffectOnce == Spec => []EffectAtMostOnce
<1>1. LedgerIInv => EffectAtMostOnce
  BY DEF LedgerIInv
<1>2. QED
  BY <1>1, LedgerInvariance, PTL

\* A provenance row says applied only for the request that was applied.
THEOREM Canonical == Spec => []AppliedIsCanonical
<1>1. LedgerIInv => AppliedIsCanonical
  BY DEF LedgerIInv
<1>2. QED
  BY <1>1, LedgerInvariance, PTL

\* A positive answer was always the truth, and stays it.
THEOREM Truthful == Spec => []AnswerIsTruthful
<1>1. LedgerIInv => AnswerIsTruthful
  BY DEF LedgerIInv
<1>2. QED
  BY <1>1, LedgerInvariance, PTL

-----------------------------------------------------------------------------
(* What a step may never do.                                               *)

\* A commit replaces the provenance row of its own operation by one of the
\* same envelope, and never a rejection or a conflict.
LEMMA EndIsFinal ==
    ASSUME LedgerIInv, NEW w \in Workers, EndStep(w), NEW o \in Ops
    PROVE  FinalStep(o)
<1> DEFINE t == tx[w]
<1>1. /\ t # Idle
      /\ t \in Transaction
      /\ TransactionOK(t)
      /\ t.env \in Envelopes
      /\ t.env.op \in Ops
      /\ t.row \in ProvenanceRow \cup {NoRow}
  BY EnvelopeFields DEF EndStep, CommitDecided, FinishApplied, FinishRefused, CommitOnline,
     LedgerIInv, TypeOK, Transactions, Transaction
<1>2. processed[o] # NoRow => processed'[o] = processed[o]
  BY <1>1 DEF EndStep, CommitDecided, FinishApplied, FinishRefused, CommitOnline, WriteClaim,
     LedgerIInv, TypeOK, TransactionOK, ClaimOK
<1>3. CASE prov'[o] = prov[o]
  <2>1. prov[o] # NoRow => prov[o] \in ProvenanceRow
    BY DEF LedgerIInv, TypeOK
  <2>2. QED
    BY <1>2, <1>3, <2>1 DEF FinalStep, Disposition
<1>4. CASE prov[o] = NoRow
  BY <1>2, <1>4 DEF FinalStep, Disposition
<1>5. ASSUME prov'[o] # prov[o], prov[o] # NoRow
      PROVE  /\ prov'[o] # NoRow
             /\ prov'[o].envelope = prov[o].envelope
             /\ prov[o].disposition \notin {"rejected", "conflict"}
             /\ prov[o].disposition = "applied" => prov'[o].disposition = "conflict"
  <2>1. CASE CommitDecided(w)
    <3>1. o = t.env.op /\ t.row # NoRow /\ prov'[o] = t.row
      BY <1>1, <1>5, <2>1 DEF CommitDecided, LedgerIInv, TypeOK
    <3>2. QED
      BY <1>1, <1>5, <2>1, <3>1 DEF CommitDecided, TransactionOK, RowOK
  <2>2. ASSUME NEW d \in Dispositions, NEW r \in Reasons, prov' = [prov EXCEPT ![t.env.op] = Row(t.env, Decide(d, r))],
               t.phase = "dispatched", t.kind # "online"
        PROVE  /\ prov'[o] # NoRow
               /\ prov'[o].envelope = prov[o].envelope
               /\ prov[o].disposition \in {"dependency_pending", "quarantined"}
    <3>1. o = t.env.op /\ prov'[o] = Row(t.env, Decide(d, r))
      BY <1>1, <1>5, <2>2 DEF LedgerIInv, TypeOK
    <3>2. prov[o].envelope = t.env /\ prov[o].disposition \in {"dependency_pending", "quarantined"}
      BY <1>1, <1>5, <2>2, <3>1 DEF TransactionOK, RowOK
    <3>3. Row(t.env, Decide(d, r)) \in ProvenanceRow /\ Row(t.env, Decide(d, r)).envelope = t.env
      BY <1>1, <2>2 DEF Row, Decide, ProvenanceRow
    <3>4. QED
      BY <3>1, <3>2, <3>3, NullsAssumption
  <2>3. CASE FinishApplied(w)
    BY <2>2, <2>3 DEF FinishApplied, Dispositions, Reasons
  <2>4. CASE FinishRefused(w)
    <3> DEFINE d == IF t.result = "id_conflict" THEN "conflict" ELSE t.result
    <3>1. d \in Dispositions /\ "other" \in Reasons
      BY <1>1, <2>4 DEF FinishRefused, TransactionOK, ResultOK, Dispositions, Reasons
    <3>2. /\ prov' = [prov EXCEPT ![t.env.op] = Row(t.env, Decide(d, "other"))]
          /\ t.phase = "dispatched" /\ t.kind # "online"
      BY <2>4 DEF FinishRefused
    <3> HIDE DEF d
    <3>3. QED
      BY <2>2, <3>1, <3>2
  <2>5. CASE CommitOnline(w)
    BY <1>5, <2>5 DEF CommitOnline
  <2>6. QED
    BY <2>1, <2>3, <2>4, <2>5 DEF EndStep
<1>6. CASE prov'[o] # prov[o] /\ prov[o] # NoRow
  BY <1>2, <1>5, <1>6 DEF FinalStep, Disposition
<1>7. QED
  BY <1>3, <1>4, <1>6

\* Only commits write the two tables.
LEMMA OnlyCommitsWrite ==
    ASSUME Next, ~\E w \in Workers : EndStep(w)
    PROVE  /\ UNCHANGED <<prov, processed>>
           /\ UNCHANGED answers \/ \E e \in Envelopes : PushRefused(e)
<1>1. ASSUME NEW w \in Workers, NEW e \in Envelopes, Push(w, e)
      PROVE  ReadOnlyStore
  BY <1>1 DEF Push, PushChanged, PushReplayed, PushSequenceConflict, PushEvaluated
<1>2. ASSUME NEW w \in Workers, NEW e \in Envelopes, NEW a \in Attempts, Recover(w, e, a)
      PROVE  ReadOnlyStore
  BY <1>2 DEF Recover, RecoverReplayed, RecoverChanged, RecoverSettled, RecoverEvaluated
<1>3. ASSUME NEW w \in Workers, DispatchStep(w)
      PROVE  ReadOnlyStore
  BY <1>3 DEF DispatchStep, DispatchInvalid, DispatchReplayed, DispatchClaimed, Dispatch
<1>4. ASSUME NEW w \in Workers, NEW e \in Envelopes, OnlineBegun(w, e)
      PROVE  ReadOnlyStore
  BY <1>4 DEF OnlineBegun
<1>5. ASSUME NEW w \in Workers, Abort(w)
      PROVE  ReadOnlyStore
  BY <1>5 DEF Abort
<1>6. ReadOnlyStore => UNCHANGED <<prov, processed, answers>>
  BY DEF ReadOnlyStore
<1>7. QED
  BY <1>1, <1>2, <1>3, <1>4, <1>5, <1>6 DEF Next, PushRefused, Withdraw, Restore

\* Only commits answer positively.
LEMMA OnlyCommitsAnswer ==
    ASSUME Next, ~\E w \in Workers : EndStep(w)
    PROVE  \A e \in Envelopes, s \in {"APPLIED", "EXACT_REPLAY"} :
              <<e, s>> \in answers' <=> <<e, s>> \in answers
<1>1. ASSUME NEW e \in Envelopes, PushRefused(e)
      PROVE  answers' = answers \cup {<<e, "REJECTED">>}
  BY <1>1 DEF PushRefused
<1>2. CASE UNCHANGED answers
  BY <1>2
<1>3. CASE \E e \in Envelopes : PushRefused(e)
  BY <1>1, <1>3
<1>4. QED
  BY <1>2, <1>3, OnlyCommitsWrite

\* A recorded envelope is never replaced, a rejected or conflicting operation
\* stays so, an applied one can only become a conflict, and a processed
\* operation is never rewritten.
THEOREM OutcomeFinal == Spec => OutcomeIsFinal
<1>1. ASSUME LedgerIInv, [Next]_vars, NEW o \in Ops
      PROVE  FinalStep(o)
  <2>1. CASE \E w \in Workers : EndStep(w)
    BY <1>1, <2>1, EndIsFinal
  <2>2. CASE UNCHANGED <<prov, processed>>
    <3>1. prov[o] # NoRow => prov[o] \in ProvenanceRow
      BY <1>1 DEF LedgerIInv, TypeOK
    <3>2. QED
      BY <2>2, <3>1 DEF FinalStep, Disposition
  <2>3. QED
    BY <1>1, <2>1, <2>2, OnlyCommitsWrite DEF vars
<1>2. LedgerIInv /\ [Next]_vars => [\A o \in Ops : FinalStep(o)]_vars
  BY <1>1
<1>3. QED
  BY <1>2, LedgerInvariance, PTL DEF Spec, OutcomeIsFinal

-----------------------------------------------------------------------------
(* What the open transactions read stays true.                             *)

LEMMA Satisfied ==
    ASSUME NEW e \in Envelopes, DependencyStatus(e) = "satisfied", e.dependsOn # {}
    PROVE  \E d \in e.dependsOn : Applied(d)
<1>1. "true" \in {DependencyInput(d) : d \in e.dependsOn}
  BY DEF DependencyStatus
<1>2. PICK d \in e.dependsOn : DependencyInput(d) = "true"
  BY <1>1
<1>3. Applied(d)
  BY <1>2 DEF DependencyInput
<1>4. QED
  BY <1>3

\* What a verdict promises: evidence and a prerequisite to run on, a reason
\* recovery accepts to quarantine.
LEMMA VerdictFacts ==
    ASSUME NEW e \in Envelopes, NEW v \in {PushVerdict(e), RecoveryVerdict(e)}
    PROVE  /\ v.disposition = "processing" =>
                /\ lost \cap EvidenceRows(e) = {}
                /\ e.dependsOn # {} => \E d \in e.dependsOn : Applied(d)
           /\ v.disposition = "quarantined" => v.reason \in {"clock_rollback", "dependency"}
<1>1. DependencyVerdict(e).disposition = "processing" => DependencyStatus(e) = "satisfied"
  BY DEF DependencyVerdict, Decide, DependencyStatus
<1>2. DependencyVerdict(e).disposition = "quarantined" => DependencyVerdict(e).reason = "dependency"
  BY DEF DependencyVerdict, Decide
<1>3. \/ v = Decide("rejected", "other") \/ v = Decide("quarantined", "clock_rollback")
      \/ v = Decide("conflict", "other") \/ (v = DependencyVerdict(e) /\ Eligible(e))
  BY DEF PushVerdict, RecoveryVerdict
<1>4. CASE v = Decide("rejected", "other") \/ v = Decide("quarantined", "clock_rollback")
           \/ v = Decide("conflict", "other")
  BY <1>4 DEF Decide
<1>5. CASE v = DependencyVerdict(e) /\ Eligible(e)
  <2>1. lost \cap EvidenceRows(e) = {}
    BY <1>5 DEF Eligible, EvidenceRows
  <2>2. QED
    BY <1>1, <1>2, <1>5, <2>1, Satisfied
<1>6. QED
  BY <1>3, <1>4, <1>5

LEMMA ReadsKept ==
    ASSUME NEW s, UNCHANGED <<prov, processed, attempts, lost>>, ReadsHold(s)
    PROVE  ReadsHold(s)'
BY DEF ReadsHold, PushReads, RecoveryReads, ReasonOK, EvidenceOK, Disposition, SequenceOwners,
       Applied

\* Worker w replaces its transaction by t, and nothing is committed.
LEMMA ReadsStep ==
    ASSUME IInv, ReadOnlyStore, NEW w \in Workers, NEW t \in Transaction \cup {Idle},
           tx' = [tx EXCEPT ![w] = t],
           t # Idle => ReadsHold(t),
           t # Idle => \A v \in Workers \ {w} :
                          tx[v] # Idle => Distinct(tx[v], t) /\ Distinct(t, tx[v])
    PROVE  EvidenceIInv'
<1>1. \A v \in Workers : tx'[v] = IF v = w THEN t ELSE tx[v]
  BY DEF IInv, LedgerIInv, TypeOK
<1>2. UNCHANGED <<prov, processed, attempts, lost>>
  BY DEF ReadOnlyStore
<1>3. LocalSequenceUnique' /\ QuarantineIsRecoverable' /\ SomeDependencyFirst'
  BY <1>2 DEF IInv, EvidenceIInv, LocalSequenceUnique, QuarantineIsRecoverable,
              SomeDependencyFirst, Disposition, Applied
<1>4. ASSUME NEW v \in Workers, tx'[v] # Idle PROVE ReadsHold(tx[v])'
  <2>1. PICK s : s = tx'[v]
    OBVIOUS
  <2>2. ReadsHold(s)
    BY <1>1, <1>4, <2>1 DEF IInv, EvidenceIInv
  <2>3. ReadsHold(s)'
    BY <1>2, <2>2, ReadsKept
  <2>4. QED
    BY <2>1, <2>3 DEF ReadsHold, PushReads, RecoveryReads, ReasonOK, EvidenceOK, Writes
<1>5. ASSUME NEW u \in Workers, NEW v \in Workers, u # v, tx'[u] # Idle, tx'[v] # Idle
      PROVE  Distinct(tx'[u], tx'[v])
  BY <1>1, <1>5 DEF IInv, EvidenceIInv
<1>6. QED
  BY <1>3, <1>4, <1>5 DEF EvidenceIInv, Distinct

\* Worker w is in a new transaction t.
Started(w, t, phase, kind, e, a, shares, row, result) ==
    /\ tx' = [tx EXCEPT ![w] = t]
    /\ t.phase = phase /\ t.kind = kind /\ t.env = e /\ t.attempt = a
    /\ t.shares = shares /\ t.row = row /\ t.result = result

LEMMA Began ==
    ASSUME NEW w \in Workers, NEW e \in Envelopes,
           NEW phase \in {"authorized", "decided"}, NEW kind \in {"push", "recover", "online"},
           NEW a \in Attempts \cup {NoAttempt},
           NEW holds \in SUBSET Ops, NEW shares \in SUBSET Grants,
           NEW row \in ProvenanceRow \cup {NoRow},
           NEW result \in Dispositions \cup {"exact_replay", "none"},
           Begin(w, phase, kind, e, a, holds, shares, row, result)
    PROVE  \E t \in Transaction : Started(w, t, phase, kind, e, a, shares, row, result)
<1> DEFINE t == [phase |-> phase, kind |-> kind, env |-> e, attempt |-> a,
                 holds |-> holds, shares |-> shares, row |-> row, claim |-> NoRow,
                 preexisted |-> processed[e.op] # NoRow, result |-> result]
<1>1. tx' = [tx EXCEPT ![w] = t]
  BY DEF Begin
<1>2. t \in Transaction
  BY DEF Transaction
<1>3. /\ t.phase = phase /\ t.kind = kind /\ t.env = e /\ t.attempt = a
      /\ t.shares = shares /\ t.row = row /\ t.result = result
  OBVIOUS
<1> HIDE DEF t
<1>4. Started(w, t, phase, kind, e, a, shares, row, result)
  BY <1>1, <1>3 DEF Started
<1>5. QED
  BY <1>2, <1>4

\* A push begins: its local sequence is free among the open pushes.
LEMMA PushBegins ==
    ASSUME IInv, ReadOnlyStore, NEW w \in Workers, NEW e \in Envelopes, SequenceFree(w, e),
           NEW t \in Transaction, tx' = [tx EXCEPT ![w] = t], t.kind = "push", t.env = e,
           t.attempt = NoAttempt, ReadsHold(t)
    PROVE  EvidenceIInv'
<1>1. ASSUME NEW v \in Workers \ {w}, tx[v] # Idle
      PROVE  Distinct(tx[v], t) /\ Distinct(t, tx[v])
  <2>1. v \in Active \ {w}
    BY <1>1 DEF Active
  <2>2. ~ (tx[v].kind = "push" /\ SameSequence(tx[v].env, e))
    BY <2>1 DEF SequenceFree
  <2>3. QED
    BY <2>2 DEF Distinct, SameSequence
<1>2. QED
  BY <1>1, ReadsStep

\* A recovery begins: nobody else is in its attempt.
LEMMA RecoveryBegins ==
    ASSUME IInv, ReadOnlyStore, NEW w \in Workers,
           NEW t \in Transaction, tx' = [tx EXCEPT ![w] = t], t.kind # "push",
           t.attempt # NoAttempt => \A v \in Active \ {w} : tx[v].attempt # t.attempt,
           ReadsHold(t)
    PROVE  EvidenceIInv'
<1>1. ASSUME NEW v \in Workers \ {w}, tx[v] # Idle
      PROVE  Distinct(tx[v], t) /\ Distinct(t, tx[v])
  BY <1>1 DEF Distinct, Active
<1>2. QED
  BY <1>1, ReadsStep

LEMMA PushReadsStep ==
    ASSUME IInv, NEW w \in Workers, NEW e \in Envelopes, Push(w, e)
    PROVE  EvidenceIInv'
<1> USE EnvelopeFields
<1>1. prov[e.op] \in ProvenanceRow \cup {NoRow} /\ e.op \in Ops
  BY DEF IInv, LedgerIInv, TypeOK
<1>2. CASE PushChanged(w, e)
  <2> DEFINE row == IF prov[e.op].disposition = "applied"
                    THEN [prov[e.op] EXCEPT !.disposition = "conflict", !.reason = "other"]
                    ELSE NoRow
  <2>1. row \in ProvenanceRow \cup {NoRow} /\ (row # NoRow => /\ row.disposition = "conflict"
                                                             /\ Disposition(e.op) = "applied")
    BY <1>1, <1>2 DEF PushChanged, ProvenanceRow, Dispositions, Reasons, Disposition
  <2>2. /\ Begin(w, "decided", "push", e, NoAttempt, {e.op}, {}, row, "conflict")
        /\ ReadOnlyStore /\ prov[e.op] # NoRow /\ SequenceFree(w, e)
    BY <1>2 DEF PushChanged, CanPush
  <2> HIDE DEF row
  <2>3. PICK t \in Transaction :
          Started(w, t, "decided", "push", e, NoAttempt, {}, row, "conflict")
    BY <1>1, <2>1, <2>2, Began DEF Dispositions
  <2>4. ReadsHold(t)
    BY <2>1, <2>2, <2>3 DEF ReadsHold, PushReads, RecoveryReads, ReasonOK, EvidenceOK, Writes,
       Started
  <2>5. QED
    BY <2>2, <2>3, <2>4, PushBegins DEF Started
<1>3. CASE PushReplayed(w, e) \/ PushSequenceConflict(w, e)
  <2>1. PICK holds \in SUBSET Ops, result \in Dispositions :
          Begin(w, "decided", "push", e, NoAttempt, holds, {}, NoRow, result)
    <3>1. CASE PushReplayed(w, e)
      <4>1. prov[e.op].disposition \in Dispositions
        BY <1>1, <3>1 DEF PushReplayed, ProvenanceRow
      <4>2. QED
        BY <1>1, <3>1, <4>1 DEF PushReplayed
    <3>2. CASE PushSequenceConflict(w, e)
      BY <1>1, <3>2 DEF PushSequenceConflict, SequenceOwners, Dispositions
    <3>3. QED
      BY <1>3, <3>1, <3>2
  <2>2. ReadOnlyStore /\ SequenceFree(w, e)
    BY <1>3 DEF PushReplayed, PushSequenceConflict, CanPush
  <2>3. PICK t \in Transaction :
          Started(w, t, "decided", "push", e, NoAttempt, {}, NoRow, result)
    BY <2>1, Began
  <2>4. ReadsHold(t)
    BY <2>3 DEF ReadsHold, PushReads, RecoveryReads, ReasonOK, EvidenceOK, Writes,
       Started
  <2>5. QED
    BY <2>2, <2>3, <2>4, PushBegins DEF Started
<1>4. CASE PushEvaluated(w, e)
  <2> DEFINE v == PushVerdict(e)
  <2>1. /\ v \in [disposition: Dispositions \cup {"processing"}, reason: Reasons]
        /\ v.disposition = "processing" =>
                /\ lost \cap EvidenceRows(e) = {}
                /\ e.dependsOn # {} => \E d \in e.dependsOn : Applied(d)
        /\ v.disposition = "quarantined" => v.reason \in {"clock_rollback", "dependency"}
    BY VerdictTypes, VerdictFacts
  <2>2. /\ ReadOnlyStore /\ SequenceFree(w, e) /\ EvidenceRows(e) \in SUBSET Grants
        /\ Disposition(e.op) \in {"none", "dependency_pending"}
        /\ prov[e.op] = NoRow => SequenceOwners(e) = {}
    BY <1>4 DEF PushEvaluated, CanPush, Undecided, Disposition, SequenceOwners, EvidenceRows, Grants
  <2>3. /\ v.disposition = "processing" =>
             Begin(w, "authorized", "push", e, NoAttempt, {e.op}, EvidenceRows(e), NoRow, "none")
        /\ v.disposition # "processing" =>
             Begin(w, "decided", "push", e, NoAttempt, {e.op}, EvidenceRows(e), Row(e, v),
                   v.disposition)
    BY <1>4 DEF PushEvaluated
  <2> HIDE DEF v
  <2>4. CASE v.disposition = "processing"
    <3>1. PICK t \in Transaction :
          Started(w, t, "authorized", "push", e, NoAttempt, EvidenceRows(e), NoRow, "none")
      BY <1>1, <2>2, <2>3, <2>4, Began
    <3>2. ReadsHold(t)
      BY <2>1, <2>2, <2>4, <3>1 DEF ReadsHold, PushReads, RecoveryReads, ReasonOK, EvidenceOK,
       Started
    <3>3. QED
      BY <2>2, <3>1, <3>2, PushBegins DEF Started
  <2>5. CASE v.disposition # "processing"
    <3>1. v.disposition \in Dispositions /\ Row(e, v) \in ProvenanceRow /\ Row(e, v).envelope = e
          /\ Row(e, v).disposition = v.disposition /\ Row(e, v).reason = v.reason
      BY <2>1, <2>5, RowTypes DEF Row
    <3>2. PICK t \in Transaction :
          Started(w, t, "decided", "push", e, NoAttempt, EvidenceRows(e), Row(e, v),
                  v.disposition)
      BY <1>1, <2>2, <2>3, <2>5, <3>1, Began
    <3>3. ReadsHold(t)
      BY <2>1, <2>2, <3>1, <3>2 DEF ReadsHold, PushReads, RecoveryReads, ReasonOK, EvidenceOK,
       Started
    <3>4. QED
      BY <2>2, <3>2, <3>3, PushBegins DEF Started
  <2>6. QED
    BY <2>4, <2>5
<1>5. QED
  BY <1>2, <1>3, <1>4 DEF Push

LEMMA RecoverReadsStep ==
    ASSUME IInv, NEW w \in Workers, NEW e \in Envelopes, NEW a \in Attempts, Recover(w, e, a)
    PROVE  EvidenceIInv'
<1> USE EnvelopeFields
<1>1. /\ prov[e.op] \in ProvenanceRow \cup {NoRow} /\ e.op \in Ops
      /\ attempts[a] \in AttemptRow \cup {NoRow}
  BY DEF IInv, LedgerIInv, TypeOK
<1>2. /\ ReadOnlyStore /\ \A v \in Active \ {w} : tx[v].attempt # a
  BY DEF Recover, RecoverReplayed, RecoverChanged, RecoverSettled, RecoverEvaluated, CanRecover
<1>3. CASE RecoverReplayed(w, e, a) \/ RecoverChanged(w, e, a) \/ RecoverSettled(w, e, a)
  <2>1. PICK b \in {a, NoAttempt}, result \in Dispositions \cup {"exact_replay"} :
          /\ Begin(w, "decided", "recover", e, b, {e.op}, {}, NoRow, result)
          /\ b # NoAttempt => attempts[b] = NoRow
    <3>1. CASE RecoverReplayed(w, e, a)
      BY <1>1, <3>1 DEF RecoverReplayed, AttemptRow
    <3>2. CASE RecoverChanged(w, e, a)
      BY <3>2 DEF RecoverChanged, Dispositions
    <3>3. CASE RecoverSettled(w, e, a)
      <4>1. prov[e.op].disposition \in Dispositions
        BY <1>1, <3>3 DEF RecoverSettled, ProvenanceRow
      <4>2. QED
        BY <3>3, <4>1 DEF RecoverSettled
    <3>4. QED
      BY <1>3, <3>1, <3>2, <3>3
  <2>2. PICK t \in Transaction :
          Started(w, t, "decided", "recover", e, b, {}, NoRow, result)
    BY <1>1, <2>1, Began
  <2>3. ReadsHold(t)
    BY <2>1, <2>2 DEF ReadsHold, PushReads, RecoveryReads, ReasonOK, EvidenceOK, Writes,
       Started
  <2>4. QED
    BY <1>2, <2>1, <2>2, <2>3, RecoveryBegins DEF Started
<1>4. CASE RecoverEvaluated(w, e, a)
  <2> DEFINE v == RecoveryVerdict(e)
             row == IF v.disposition = "quarantined" THEN NoRow ELSE Row(e, v)
  <2>1. /\ v \in [disposition: Dispositions \cup {"processing"}, reason: Reasons]
        /\ v.disposition = "processing" =>
                /\ lost \cap EvidenceRows(e) = {}
                /\ e.dependsOn # {} => \E d \in e.dependsOn : Applied(d)
    BY VerdictTypes, VerdictFacts
  <2>2. /\ attempts[a] = NoRow /\ EvidenceRows(e) \in SUBSET Grants
        /\ prov[e.op] # NoRow /\ prov[e.op].envelope = e /\ a # NoAttempt
    BY <1>4, NullsAssumption DEF RecoverEvaluated, EvidenceRows, Grants
  <2>3. /\ v.disposition = "processing" =>
             Begin(w, "authorized", "recover", e, a, {e.op}, EvidenceRows(e), NoRow, "none")
        /\ v.disposition # "processing" =>
             Begin(w, "decided", "recover", e, a, {e.op}, EvidenceRows(e), row, v.disposition)
    BY <1>4 DEF RecoverEvaluated
  <2> HIDE DEF v
  <2>4. CASE v.disposition = "processing"
    <3>1. PICK t \in Transaction :
          Started(w, t, "authorized", "recover", e, a, EvidenceRows(e), NoRow, "none")
      BY <1>1, <2>2, <2>3, <2>4, Began
    <3>2. ReadsHold(t)
      BY <2>1, <2>2, <2>4, <3>1 DEF ReadsHold, PushReads, RecoveryReads, ReasonOK, EvidenceOK,
       Started
    <3>3. QED
      BY <1>2, <3>1, <3>2, RecoveryBegins DEF Started
  <2>5. CASE v.disposition # "processing"
    <3>1. /\ v.disposition \in Dispositions /\ row \in ProvenanceRow \cup {NoRow}
          /\ row # NoRow => row.disposition = v.disposition /\ row.disposition # "quarantined"
      BY <2>1, <2>5, RowTypes
    <3> HIDE DEF row
    <3>2. PICK t \in Transaction :
          Started(w, t, "decided", "recover", e, a, EvidenceRows(e), row, v.disposition)
      BY <1>1, <2>2, <2>3, <2>5, <3>1, Began
    <3>3. ReadsHold(t)
      BY <2>2, <3>1, <3>2 DEF ReadsHold, PushReads, RecoveryReads, ReasonOK, EvidenceOK, Writes,
       Started
    <3>4. QED
      BY <1>2, <3>2, <3>3, RecoveryBegins DEF Started
  <2>6. QED
    BY <2>4, <2>5
<1>5. QED
  BY <1>3, <1>4 DEF Recover

LEMMA OnlineReadsStep ==
    ASSUME IInv, NEW w \in Workers, NEW e \in Envelopes, OnlineBegun(w, e)
    PROVE  EvidenceIInv'
<1>1. /\ Begin(w, "authorized", "online", e, NoAttempt, {}, {"store"}, NoRow, "none")
      /\ ReadOnlyStore /\ {"store"} \in SUBSET Grants
  BY DEF OnlineBegun, Grants
<1>2. PICK t \in Transaction :
          Started(w, t, "authorized", "online", e, NoAttempt, {"store"}, NoRow, "none")
  BY <1>1, Began
<1>3. ReadsHold(t)
  BY <1>2 DEF ReadsHold, PushReads, RecoveryReads, ReasonOK, EvidenceOK, Writes,
       Started
<1>4. QED
  BY <1>1, <1>2, <1>3, RecoveryBegins DEF Started

LEMMA DomainReadsStep ==
    ASSUME IInv, NEW w \in Workers, DispatchStep(w)
    PROVE  EvidenceIInv'
<1>1. tx[w] # Idle /\ tx[w] \in Transaction /\ tx[w].phase = "authorized"
  BY DEF DispatchStep, DispatchInvalid, DispatchReplayed, DispatchClaimed, IInv, LedgerIInv, TypeOK
<1>2. PICK claim, result : Dispatch(w, claim, result)
  BY DEF DispatchStep, DispatchInvalid, DispatchReplayed, DispatchClaimed
<1>3. PICK t : t = [tx[w] EXCEPT !.phase = "dispatched", !.claim = claim, !.result = result]
  OBVIOUS
<1>4. /\ t.phase = "dispatched" /\ t.kind = tx[w].kind /\ t.env = tx[w].env
      /\ t.attempt = tx[w].attempt /\ t.shares = tx[w].shares /\ t.row = tx[w].row
  BY <1>1, <1>3 DEF Transaction
<1>5. tx' = [tx EXCEPT ![w] = t]
  BY <1>2, <1>3 DEF Dispatch, IInv, LedgerIInv, TypeOK
<1>6. IInv /\ LedgerIInv'
  BY DomainStep DEF IInv
<1>7. t \in Transaction \cup {Idle}
  <2>1. tx'[w] = t
    BY <1>5 DEF IInv, LedgerIInv, TypeOK
  <2>2. QED
    BY <1>6, <2>1 DEF LedgerIInv, TypeOK
<1>8. ReadsHold(t)
  BY <1>1, <1>4 DEF IInv, EvidenceIInv, ReadsHold, PushReads, RecoveryReads, ReasonOK, EvidenceOK,
     Writes
<1>9. ASSUME NEW v \in Workers \ {w}, tx[v] # Idle
      PROVE  Distinct(tx[v], t) /\ Distinct(t, tx[v])
  BY <1>1, <1>4, <1>9 DEF IInv, EvidenceIInv, Distinct
<1>10. QED
  BY <1>2, <1>5, <1>7, <1>8, <1>9, ReadsStep DEF Dispatch

\* A grant is withdrawn only when no open transaction shares its row, and what
\* comes back was nobody's evidence.
LEMMA GrantsStep ==
    ASSUME IInv, UNCHANGED <<prov, processed, attempts, tx>>,
           \A g \in lost' \ lost : g \in Grants /\ ~ Shared(g)
    PROVE  EvidenceIInv'
<1>1. LocalSequenceUnique' /\ QuarantineIsRecoverable' /\ SomeDependencyFirst'
  BY DEF IInv, EvidenceIInv, LocalSequenceUnique, QuarantineIsRecoverable, SomeDependencyFirst,
     Disposition, Applied
<1>2. ASSUME NEW w \in Workers, tx[w] # Idle PROVE ReadsHold(tx[w])'
  <2>1. PICK t \in Transaction : t = tx[w] /\ tx'[w] = t
    BY <1>2 DEF IInv, LedgerIInv, TypeOK
  <2>2. ReadsHold(t)
    BY <1>2, <2>1 DEF IInv, EvidenceIInv
  <2>3. PushReads(t)' /\ RecoveryReads(t)' /\ ReasonOK(t)'
    BY <2>2 DEF ReadsHold, PushReads, RecoveryReads, ReasonOK, Disposition, SequenceOwners
  <2>4. ASSUME t.kind # "online", t.phase # "decided", NEW g \in lost' \cap EvidenceRows(t.env)
        PROVE  FALSE
    <3>1. g \notin lost /\ g \in t.shares
      BY <2>2, <2>4 DEF ReadsHold, EvidenceOK
    <3>2. g # "entitlement"
      <4>1. t.env.license \in Licenses
        BY EnvelopeFields DEF Transaction
      <4>2. QED
        BY <2>4, <4>1, GrantsAssumption DEF EvidenceRows
    <3>3. Shared(g)
      BY <1>2, <2>1, <3>1, <3>2 DEF Shared, Active, RowOf
    <3>4. QED
      BY <2>4, <3>1, <3>3
  <2>5. EvidenceOK(t)'
    BY <2>2, <2>4 DEF ReadsHold, EvidenceOK, Applied
  <2>6. QED
    BY <2>1, <2>3, <2>5 DEF ReadsHold, PushReads, RecoveryReads, ReasonOK, EvidenceOK, Writes
<1>3. ASSUME NEW u \in Workers, NEW v \in Workers, u # v, tx'[u] # Idle, tx'[v] # Idle
      PROVE  Distinct(tx'[u], tx'[v])
  BY <1>3 DEF IInv, EvidenceIInv
<1>4. QED
  BY <1>1, <1>2, <1>3 DEF EvidenceIInv, Distinct

\* What a commit writes: a row of its own operation, over one of the same
\* envelope if there is one; a quarantine only gives way to a recorded attempt.
LEMMA EndWrites ==
    ASSUME IInv, NEW w \in Workers, EndStep(w), NEW t \in Transaction, t = tx[w]
    PROVE  /\ tx[w] # Idle /\ tx' = [tx EXCEPT ![w] = Idle] /\ lost' = lost
           /\ \A a \in Attempts : a # t.attempt => attempts'[a] = attempts[a]
           /\ \/ prov' = prov
              \/ /\ Writes(t)
                 /\ \E row \in ProvenanceRow :
                      /\ prov' = [prov EXCEPT ![t.env.op] = row]
                      /\ row.envelope = IF prov[t.env.op] = NoRow THEN t.env
                                        ELSE prov[t.env.op].envelope
                      /\ row.disposition = "quarantined" =>
                            row.reason \in {"clock_rollback", "dependency"}
                      /\ row.disposition = "applied" =>
                            t.phase = "dispatched" /\ row.envelope = t.env
                      /\ Disposition(t.env.op) = "quarantined" =>
                            /\ t.attempt # NoAttempt
                            /\ attempts'[t.attempt] =
                                 [envelope |-> prov[t.env.op].envelope,
                                  reason |-> prov[t.env.op].reason, result |-> row.disposition]
<1>1. /\ t # Idle /\ TransactionOK(t) /\ ReadsHold(t) /\ t.env \in Envelopes /\ t.env.op \in Ops
      /\ t.row \in ProvenanceRow \cup {NoRow} /\ t.attempt \in Attempts \cup {NoAttempt}
      /\ prov[t.env.op] \in ProvenanceRow \cup {NoRow}
      /\ attempts \in [Attempts -> AttemptRow \cup {NoRow}]
  BY EnvelopeFields, IdleNotTransaction DEF IInv, LedgerIInv, EvidenceIInv, TypeOK, Transactions,
     Transaction
<1>2. tx' = [tx EXCEPT ![w] = Idle] /\ lost' = lost
  BY DEF EndStep, CommitDecided, FinishApplied, FinishRefused, CommitOnline, End
<1>3. ASSUME NEW a \in Attempts, a # t.attempt PROVE attempts'[a] = attempts[a]
  BY <1>1, <1>3 DEF EndStep, CommitDecided, FinishApplied, FinishRefused, CommitOnline, WriteAttempt
<1>4. ASSUME NEW d \in Dispositions, NEW r \in Reasons, t.kind # "online", t.phase = "dispatched",
             prov' = [prov EXCEPT ![t.env.op] = Row(t.env, Decide(d, r))],
             WriteAttempt(w, d), d # "quarantined"
      PROVE  /\ Writes(t)
             /\ \E row \in ProvenanceRow :
                      /\ prov' = [prov EXCEPT ![t.env.op] = row]
                      /\ row.envelope = IF prov[t.env.op] = NoRow THEN t.env
                                        ELSE prov[t.env.op].envelope
                      /\ row.disposition = "quarantined" =>
                            row.reason \in {"clock_rollback", "dependency"}
                      /\ row.disposition = "applied" =>
                            t.phase = "dispatched" /\ row.envelope = t.env
                      /\ Disposition(t.env.op) = "quarantined" =>
                            /\ t.attempt # NoAttempt
                            /\ attempts'[t.attempt] =
                                 [envelope |-> prov[t.env.op].envelope,
                                  reason |-> prov[t.env.op].reason, result |-> row.disposition]
  <2>1. PICK row \in ProvenanceRow : /\ row = Row(t.env, Decide(d, r))
                                     /\ row.envelope = t.env /\ row.disposition = d
    BY <1>1, <1>4 DEF Row, Decide, ProvenanceRow
  <2>2. Writes(t)
    BY <1>4 DEF Writes
  <2>3. prov[t.env.op] # NoRow => prov[t.env.op].envelope = t.env
    BY <1>1, <1>4 DEF TransactionOK, RowOK
  <2>4. ASSUME Disposition(t.env.op) = "quarantined"
        PROVE  /\ t.attempt # NoAttempt
               /\ attempts'[t.attempt] =
                    [envelope |-> prov[t.env.op].envelope, reason |-> prov[t.env.op].reason,
                     result |-> row.disposition]
    <3>1. t.kind = "recover"
      BY <1>1, <1>4, <2>2, <2>4 DEF ReadsHold, PushReads, Transaction
    <3>2. t.attempt # NoAttempt /\ prov[t.env.op].envelope = t.env
      BY <1>1, <2>2, <3>1 DEF ReadsHold, RecoveryReads
    <3>3. QED
      BY <1>1, <1>4, <2>1, <3>2 DEF WriteAttempt
  <2>5. QED
    BY <1>4, <2>1, <2>2, <2>3, <2>4
<1>5. CASE CommitDecided(w) /\ t.row # NoRow
  <2>1. PICK row \in ProvenanceRow : row = t.row /\ prov' = [prov EXCEPT ![t.env.op] = row]
    BY <1>1, <1>5 DEF CommitDecided
  <2>2. t.phase = "decided" /\ t.kind # "online" /\ Writes(t)
    BY <1>1, <1>5 DEF CommitDecided, TransactionOK, Writes
  <2>3. /\ row.disposition # "applied"
        /\ prov[t.env.op] # NoRow => row.envelope = prov[t.env.op].envelope
    BY <1>1, <1>5, <2>1, <2>2 DEF TransactionOK, RowOK
  <2>4. prov[t.env.op] = NoRow => row.envelope = t.env
    BY <1>1, <2>1, <2>2 DEF ReadsHold, PushReads, RecoveryReads, Transaction
  <2>5. row.disposition = "quarantined" => row.reason \in {"clock_rollback", "dependency"}
    BY <1>1, <1>5, <2>1, <2>2 DEF ReadsHold, ReasonOK
  <2>6. ASSUME Disposition(t.env.op) = "quarantined"
        PROVE  /\ t.attempt # NoAttempt
               /\ attempts'[t.attempt] =
                    [envelope |-> prov[t.env.op].envelope, reason |-> prov[t.env.op].reason,
                     result |-> row.disposition]
    <3>1. t.kind = "recover"
      BY <1>1, <2>2, <2>6 DEF ReadsHold, PushReads, Transaction
    <3>2. t.attempt # NoAttempt /\ prov[t.env.op].envelope = t.env /\ row.disposition = t.result
      BY <1>1, <2>1, <2>2, <3>1 DEF ReadsHold, RecoveryReads
    <3>3. row.disposition # "id_conflict"
      BY DEF ProvenanceRow, Dispositions
    <3>4. WriteAttempt(w, t.result)
      BY <1>5, <3>2, <3>3 DEF CommitDecided
    <3>5. QED
      BY <1>1, <3>2, <3>4 DEF WriteAttempt
  <2>7. QED
    BY <1>1, <1>2, <1>3, <2>1, <2>2, <2>3, <2>4, <2>5, <2>6
<1>6. CASE (CommitDecided(w) /\ t.row = NoRow) \/ CommitOnline(w)
  BY <1>1, <1>2, <1>3, <1>6 DEF CommitDecided, CommitOnline
<1>7. CASE FinishApplied(w)
  <2>1. /\ t.kind # "online" /\ t.phase = "dispatched"
        /\ prov' = [prov EXCEPT ![t.env.op] = Row(t.env, Decide("applied", "none"))]
        /\ WriteAttempt(w, "applied")
    BY <1>7 DEF FinishApplied
  <2>2. "applied" \in Dispositions /\ "none" \in Reasons
    BY DEF Dispositions, Reasons
  <2>3. QED
    BY <1>1, <1>2, <1>3, <1>4, <2>1, <2>2
<1>8. CASE FinishRefused(w)
  <2> DEFINE d == IF t.result = "id_conflict" THEN "conflict" ELSE t.result
  <2>1. d \in Dispositions /\ d # "quarantined" /\ "other" \in Reasons
    BY <1>1, <1>8 DEF FinishRefused, TransactionOK, ResultOK, Dispositions, Reasons
  <2>2. /\ t.kind # "online" /\ t.phase = "dispatched"
        /\ prov' = [prov EXCEPT ![t.env.op] = Row(t.env, Decide(d, "other"))]
        /\ WriteAttempt(w, d)
    BY <1>8 DEF FinishRefused
  <2> HIDE DEF d
  <2>3. QED
    BY <1>1, <1>2, <1>3, <1>4, <2>1, <2>2
<1>9. QED
  BY <1>5, <1>6, <1>7, <1>8 DEF EndStep

LEMMA EndReadsStep ==
    ASSUME IInv, NEW w \in Workers, EndStep(w)
    PROVE  EvidenceIInv'
<1>1. LedgerIInv /\ LedgerIInv'
  BY EndKeeps DEF IInv
<1>2. PICK t \in Transaction : t = tx[w] /\ tx[w] # Idle
  BY <1>1 DEF EndStep, CommitDecided, FinishApplied, FinishRefused, CommitOnline, LedgerIInv, TypeOK
<1>3. /\ TransactionOK(t) /\ ReadsHold(t) /\ t.env \in Envelopes /\ t.env.op \in Ops
      /\ prov \in [Ops -> ProvenanceRow \cup {NoRow}]
  BY <1>1, <1>2, EnvelopeFields DEF IInv, LedgerIInv, EvidenceIInv, TypeOK, Transactions, Transaction
<1>4. /\ tx' = [tx EXCEPT ![w] = Idle] /\ lost' = lost
      /\ \A a \in Attempts : a # t.attempt => attempts'[a] = attempts[a]
  BY <1>2, EndWrites
<1>5. \A o \in Ops : Applied(o) => Applied(o)'
  <2>1. ASSUME NEW o \in Ops, Applied(o) PROVE Applied(o)'
    <3>1. processed[o] # NoRow /\ processed'[o] = processed[o]
      BY <1>1, <2>1, EndIsFinal DEF FinalStep, Applied
    <3>2. QED
      BY <2>1, <3>1 DEF Applied
  <2>2. QED
    BY <2>1
\* The row that is new, if any, is of a push whose sequence was free.
<1>6. ASSUME NEW o \in Ops, prov'[o] # prov[o]
      PROVE  /\ o = t.env.op /\ Writes(t) /\ prov'[o] \in ProvenanceRow
             /\ prov[o] # NoRow => prov'[o].envelope = prov[o].envelope
             /\ prov[o] = NoRow => /\ prov'[o].envelope = t.env /\ t.kind = "push"
                                   /\ SequenceOwners(t.env) = {}
             /\ prov'[o].disposition = "quarantined" =>
                    prov'[o].reason \in {"clock_rollback", "dependency"}
             /\ prov'[o].disposition = "applied" =>
                    t.phase = "dispatched" /\ prov'[o].envelope = t.env
  <2>1. PICK row \in ProvenanceRow :
          /\ Writes(t) /\ prov' = [prov EXCEPT ![t.env.op] = row]
          /\ row.envelope = IF prov[t.env.op] = NoRow THEN t.env ELSE prov[t.env.op].envelope
          /\ row.disposition = "quarantined" => row.reason \in {"clock_rollback", "dependency"}
          /\ row.disposition = "applied" => t.phase = "dispatched" /\ row.envelope = t.env
    BY <1>2, <1>6, EndWrites
  <2>2. o = t.env.op /\ prov'[o] = row
    BY <1>3, <1>6, <2>1
  <2>3. prov[o] = NoRow => t.kind = "push" /\ SequenceOwners(t.env) = {}
    BY <1>3, <2>1, <2>2 DEF ReadsHold, PushReads, RecoveryReads, Writes, Transaction
  <2>4. QED
    BY <2>1, <2>2, <2>3
<1>7. ASSUME NEW o \in Ops, NEW p \in Ops, o # p, prov'[o] # NoRow, prov'[p] # NoRow,
             prov'[p] = prov[p]
      PROVE  ~ SameSequence(prov'[o].envelope, prov[p].envelope)
  <2>1. CASE prov[o] # NoRow
    <3>1. prov'[o].envelope = prov[o].envelope
      BY <1>6, <2>1
    <3>2. QED
      BY <1>7, <2>1, <3>1 DEF IInv, EvidenceIInv, LocalSequenceUnique
  <2>2. CASE prov[o] = NoRow
    <3>1. prov'[o].envelope = t.env /\ SequenceOwners(t.env) = {}
      BY <1>6, <1>7, <2>2
    <3>2. QED
      BY <1>7, <3>1 DEF SequenceOwners, SameSequence
  <2>3. QED
    BY <2>1, <2>2
<1>8. LocalSequenceUnique'
  <2>1. ASSUME NEW o \in Ops, NEW p \in Ops, o # p, prov'[o] # NoRow, prov'[p] # NoRow
        PROVE  ~ SameSequence(prov'[o].envelope, prov'[p].envelope)
    <3>1. prov'[o] = prov[o] \/ prov'[p] = prov[p]
      BY <1>6, <2>1
    <3>2. CASE prov'[p] = prov[p]
      BY <1>7, <2>1, <3>2
    <3>3. CASE prov'[o] = prov[o]
      <4>1. ~ SameSequence(prov'[p].envelope, prov[o].envelope)
        BY <1>7, <2>1, <3>3
      <4>2. QED
        BY <3>3, <4>1 DEF SameSequence
    <3>4. QED
      BY <3>1, <3>2, <3>3
  <2>2. QED
    BY <2>1 DEF LocalSequenceUnique, SameSequence
<1>9. QuarantineIsRecoverable'
  <2>1. ASSUME NEW o \in Ops, prov'[o] # NoRow, prov'[o].disposition = "quarantined"
        PROVE  prov'[o].reason \in {"clock_rollback", "dependency"}
    <3>1. CASE prov'[o] # prov[o]
      BY <1>6, <2>1, <3>1
    <3>2. CASE prov'[o] = prov[o]
      BY <2>1, <3>2 DEF IInv, EvidenceIInv, QuarantineIsRecoverable, Disposition
    <3>3. QED
      BY <3>1, <3>2
  <2>2. QED
    BY <2>1 DEF QuarantineIsRecoverable, Disposition
<1>10. SomeDependencyFirst'
  <2>1. ASSUME NEW o \in Ops, prov'[o] # NoRow, prov'[o].disposition = "applied",
               prov'[o].envelope.dependsOn # {}
        PROVE  \E d \in prov'[o].envelope.dependsOn : Applied(d)'
    <3>1. \E d \in prov'[o].envelope.dependsOn : Applied(d)
      <4>1. CASE prov'[o] # prov[o]
        <5>1. t.phase = "dispatched" /\ prov'[o].envelope = t.env /\ t.kind # "online"
          BY <1>6, <2>1, <4>1 DEF Writes
        <5>2. QED
          BY <1>3, <2>1, <5>1 DEF ReadsHold, EvidenceOK
      <4>2. CASE prov'[o] = prov[o]
        BY <2>1, <4>2 DEF IInv, EvidenceIInv, SomeDependencyFirst, Disposition
      <4>3. QED
        BY <4>1, <4>2
    <3>2. prov'[o].envelope.dependsOn \subseteq Ops
      <4>1. prov'[o] \in ProvenanceRow
        BY <1>1, <2>1 DEF LedgerIInv, TypeOK
      <4>2. prov'[o].envelope \in Envelopes
        BY <4>1 DEF ProvenanceRow
      <4>3. QED
        BY <4>2, EnvelopesAssumption DEF Envelope
    <3>3. QED
      BY <1>5, <3>1, <3>2
  <2>2. QED
    BY <2>1 DEF SomeDependencyFirst, Disposition, Applied
<1>11. ASSUME NEW v \in Workers, tx'[v] # Idle PROVE ReadsHold(tx[v])'
  <2>1. v # w /\ tx'[v] = tx[v]
    BY <1>1, <1>4, <1>11 DEF LedgerIInv, TypeOK
  <2>2. PICK s \in Transaction : s = tx[v]
    BY <1>1, <1>11, <2>1 DEF LedgerIInv, TypeOK
  <2>3. /\ ReadsHold(s) /\ Distinct(s, t) /\ Distinct(t, s) /\ Apart(s, t) /\ TransactionOK(s)
        /\ s.env \in Envelopes /\ s.env.op \in Ops /\ s.attempt \in Attempts \cup {NoAttempt}
    BY <1>2, <1>11, <2>1, <2>2, EnvelopeFields
    DEF IInv, LedgerIInv, EvidenceIInv, Transactions, Separation, Transaction
  <2>4. ASSUME Writes(s) PROVE prov'[s.env.op] = prov[s.env.op]
    <3>1. SUFFICES ASSUME prov'[s.env.op] # prov[s.env.op] PROVE FALSE
      OBVIOUS
    <3>2. s.env.op = t.env.op /\ Writes(t)
      BY <1>6, <2>3, <3>1
    <3>3. QED
      BY <1>3, <2>3, <2>4, <3>2 DEF Writes, TransactionOK, RowOK, Apart
  <2>5. PushReads(s)'
    <3>1. ASSUME s.kind = "push", Writes(s), prov[s.env.op] = NoRow,
                 NEW o \in Ops, prov'[o] # NoRow, SameSequence(prov'[o].envelope, s.env)
          PROVE  FALSE
      <4>1. SequenceOwners(s.env) = {}
        BY <2>3, <3>1 DEF ReadsHold, PushReads
      <4>2. CASE prov[o] # NoRow
        <5>1. prov'[o].envelope = prov[o].envelope
          BY <1>6, <4>2
        <5>2. QED
          BY <3>1, <4>1, <4>2, <5>1 DEF SequenceOwners
      <4>3. CASE prov[o] = NoRow
        BY <1>6, <2>3, <3>1, <4>3 DEF Distinct
      <4>4. QED
        BY <4>2, <4>3
    <3>2. s.kind = "push" /\ Writes(s) /\ prov'[s.env.op] = NoRow => SequenceOwners(s.env)' = {}
      BY <2>4, <3>1 DEF SequenceOwners
    <3>3. QED
      BY <2>3, <2>4, <3>2 DEF ReadsHold, PushReads, Disposition, Writes
  <2>6. RecoveryReads(s)'
    <3>1. s.attempt # NoAttempt => attempts'[s.attempt] = attempts[s.attempt]
      BY <1>4, <2>3 DEF Distinct
    <3>2. QED
      BY <2>3, <2>4, <3>1 DEF ReadsHold, RecoveryReads, Writes
  <2>7. EvidenceOK(s)'
    <3>1. s.env.dependsOn \subseteq Ops
      BY <2>3, EnvelopesAssumption DEF Envelope
    <3>2. (\E d \in s.env.dependsOn : Applied(d)) => \E d \in s.env.dependsOn : Applied(d)'
      BY <1>5, <3>1
    <3>3. QED
      BY <1>4, <2>3, <3>2 DEF ReadsHold, EvidenceOK
  <2>8. ReasonOK(s)'
    BY <2>3 DEF ReadsHold, ReasonOK
  <2>9. QED
    BY <2>1, <2>2, <2>5, <2>6, <2>7, <2>8
    DEF ReadsHold, PushReads, RecoveryReads, ReasonOK, EvidenceOK, Writes
<1>12. ASSUME NEW u \in Workers, NEW v \in Workers, u # v, tx'[u] # Idle, tx'[v] # Idle
       PROVE  Distinct(tx'[u], tx'[v])
  <2>1. tx'[u] = tx[u] /\ tx'[v] = tx[v]
    BY <1>1, <1>4, <1>12 DEF LedgerIInv, TypeOK
  <2>2. QED
    BY <1>12, <2>1 DEF IInv, EvidenceIInv
<1>13. QED
  BY <1>8, <1>9, <1>10, <1>11, <1>12 DEF EvidenceIInv, Distinct

LEMMA EvidenceInductive == IInv /\ [Next]_vars => EvidenceIInv'
<1> SUFFICES ASSUME IInv, [Next]_vars PROVE EvidenceIInv'
  OBVIOUS
<1>1. ASSUME NEW e \in Envelopes, PushRefused(e) PROVE EvidenceIInv'
  BY <1>1, GrantsStep DEF PushRefused
<1>2. ASSUME NEW w \in Workers, NEW e \in Envelopes, Push(w, e) PROVE EvidenceIInv'
  BY <1>2, PushReadsStep
<1>3. ASSUME NEW w \in Workers, NEW e \in Envelopes, NEW a \in Attempts, Recover(w, e, a)
      PROVE  EvidenceIInv'
  BY <1>3, RecoverReadsStep
<1>4. ASSUME NEW w \in Workers, NEW e \in Envelopes, OnlineBegun(w, e) PROVE EvidenceIInv'
  BY <1>4, OnlineReadsStep
<1>5. ASSUME NEW w \in Workers, DispatchStep(w) PROVE EvidenceIInv'
  BY <1>5, DomainReadsStep
<1>6. ASSUME NEW w \in Workers, EndStep(w) PROVE EvidenceIInv'
  BY <1>6, EndReadsStep
<1>7. ASSUME NEW w \in Workers, Abort(w) PROVE EvidenceIInv'
  BY <1>7, ReadsStep DEF Abort, End
<1>8. ASSUME NEW g \in Losable, Withdraw(g) PROVE EvidenceIInv'
  BY <1>8, GrantsStep, GrantsAssumption DEF Withdraw
<1>9. CASE Restore
  BY <1>9, GrantsStep DEF Restore
<1>10. CASE UNCHANGED vars
  BY <1>10, GrantsStep DEF vars
<1>11. QED
  BY <1>1, <1>2, <1>3, <1>4, <1>5, <1>6, <1>7, <1>8, <1>9, <1>10 DEF Next

\* The strengthened invariant holds in every reachable state.
THEOREM Invariance == Spec => []IInv
<1>1. Init => IInv
  <2>1. Init => EvidenceIInv
    BY DEF Init, EvidenceIInv, LocalSequenceUnique, QuarantineIsRecoverable, SomeDependencyFirst,
       Disposition
  <2>2. QED
    BY <2>1, Initially DEF IInv
<1>2. IInv /\ [Next]_vars => IInv'
  BY EvidenceInductive, Inductive DEF IInv
<1>3. QED
  BY <1>1, <1>2, PTL DEF Spec

\* Two operations of a device never share a local sequence number, even when
\* their first pushes run concurrently.
THEOREM SequencesUnique == Spec => []LocalSequenceUnique
<1>1. IInv => LocalSequenceUnique
  BY DEF IInv, EvidenceIInv
<1>2. QED
  BY <1>1, Invariance, PTL

\* No path quarantines an operation for a reason recovery refuses.
THEOREM QuarantinesRecoverable == Spec => []QuarantineIsRecoverable
<1>1. IInv => QuarantineIsRecoverable
  BY DEF IInv, EvidenceIInv
<1>2. QED
  BY <1>1, Invariance, PTL

\* An offline operation with prerequisites is applied only after one of them.
THEOREM DependencyFirst == Spec => []SomeDependencyFirst
<1>1. IInv => SomeDependencyFirst
  BY DEF IInv, EvidenceIInv
<1>2. QED
  BY <1>1, Invariance, PTL

\* Quarantine is left only through a recovery attempt recorded in the commit.
THEOREM RecoveryTraced == Spec => RecoveryLeavesTrace
<1> DEFINE Traced(o) ==
        Disposition(o) = "quarantined" /\ prov'[o] # prov[o] =>
          \E a \in Attempts :
            /\ attempts[a] = NoRow
            /\ attempts'[a] = [envelope |-> prov[o].envelope, reason |-> prov[o].reason,
                               result |-> prov'[o].disposition]
<1>1. ASSUME IInv, [Next]_vars, NEW o \in Ops PROVE Traced(o)
  <2>1. SUFFICES ASSUME Disposition(o) = "quarantined", prov'[o] # prov[o]
                 PROVE  \E a \in Attempts :
                          /\ attempts[a] = NoRow
                          /\ attempts'[a] = [envelope |-> prov[o].envelope,
                                reason |-> prov[o].reason, result |-> prov'[o].disposition]
    OBVIOUS
  <2>2. PICK w \in Workers : EndStep(w)
    BY <1>1, <2>1, OnlyCommitsWrite DEF vars
  <2>3. PICK t \in Transaction : t = tx[w] /\ tx[w] # Idle
    BY <1>1, <2>2
    DEF EndStep, CommitDecided, FinishApplied, FinishRefused, CommitOnline, IInv, LedgerIInv, TypeOK
  <2>4. PICK row \in ProvenanceRow :
          /\ prov' = [prov EXCEPT ![t.env.op] = row]
          /\ Disposition(t.env.op) = "quarantined" =>
                /\ t.attempt # NoAttempt
                /\ attempts'[t.attempt] = [envelope |-> prov[t.env.op].envelope,
                      reason |-> prov[t.env.op].reason, result |-> row.disposition]
    BY <1>1, <2>1, <2>2, <2>3, EndWrites
  <2>5. o = t.env.op /\ prov'[o] = row
    BY <1>1, <2>1, <2>4 DEF IInv, LedgerIInv, TypeOK
  <2>6. t.attempt \in Attempts /\ attempts[t.attempt] = NoRow
    BY <1>1, <2>1, <2>3, <2>4, <2>5 DEF IInv, EvidenceIInv, ReadsHold, RecoveryReads, Transaction
  <2>7. QED
    BY <2>1, <2>4, <2>5, <2>6
<1>2. IInv /\ [Next]_vars => [\A o \in Ops : Traced(o)]_vars
  BY <1>1
<1>3. QED
  BY <1>2, Invariance, PTL DEF Spec, RecoveryLeavesTrace

\* The evidence of an operation stands when it commits as applied, not only
\* when its transaction read it.
THEOREM EvidenceAtCommit == Spec => EvidenceHoldsAtCommit
<1> DEFINE Held(o) ==
        Disposition(o) # "applied" /\ prov'[o] # prov[o] /\ prov'[o].disposition = "applied" =>
          lost \cap EvidenceRows(prov'[o].envelope) = {}
<1>1. ASSUME IInv, [Next]_vars, NEW o \in Ops PROVE Held(o)
  <2>1. SUFFICES ASSUME prov'[o] # prov[o], prov'[o].disposition = "applied"
                 PROVE  lost \cap EvidenceRows(prov'[o].envelope) = {}
    OBVIOUS
  <2>2. PICK w \in Workers : EndStep(w)
    BY <1>1, <2>1, OnlyCommitsWrite DEF vars
  <2>3. PICK t \in Transaction : t = tx[w] /\ tx[w] # Idle
    BY <1>1, <2>2
    DEF EndStep, CommitDecided, FinishApplied, FinishRefused, CommitOnline, IInv, LedgerIInv, TypeOK
  <2>4. PICK row \in ProvenanceRow :
          /\ Writes(t) /\ prov' = [prov EXCEPT ![t.env.op] = row]
          /\ row.disposition = "applied" => t.phase = "dispatched" /\ row.envelope = t.env
    BY <1>1, <2>1, <2>2, <2>3, EndWrites
  <2>5. prov'[o] = row
    BY <1>1, <2>1, <2>4 DEF IInv, LedgerIInv, TypeOK
  <2>6. QED
    BY <1>1, <2>1, <2>3, <2>4, <2>5 DEF IInv, EvidenceIInv, ReadsHold, EvidenceOK, Writes
<1>2. IInv /\ [Next]_vars => [\A o \in Ops : Held(o)]_vars
  BY <1>1
<1>3. QED
  BY <1>2, Invariance, PTL DEF Spec, EvidenceHoldsAtCommit

-----------------------------------------------------------------------------
(* Refinement of the ledger.                                               *)

Positive == {"APPLIED", "EXACT_REPLAY"}

Book == [o \in Ops |-> IF Applied(o) THEN processed[o].request ELSE NoRow]

Told == {<<e.op, e.request>> : e \in
            {f \in Envelopes : <<f, "APPLIED">> \in answers \/ <<f, "EXACT_REPLAY">> \in answers}}

\* A commit writes a claim over a free key, or leaves the processed operations
\* alone; it answers positively whenever the claim is applied.
LEMMA CommitFacts ==
    ASSUME LedgerIInv, NEW w \in Workers, EndStep(w), NEW env \in Envelopes, env = tx[w].env
    PROVE  \E status \in Statuses :
              /\ answers' = answers \cup {<<env, status>>}
              /\ \/ processed' = processed
                 \/ \E claim \in ProcessedRow :
                       /\ processed' = [processed EXCEPT ![env.op] = claim]
                       /\ processed[env.op] = NoRow
                       /\ claim.request = env.request
                       /\ claim.outcome = "applied" => status \in Positive
<1>1. /\ tx[w] # Idle
      /\ tx[w] \in Transaction
      /\ TransactionOK(tx[w])
      /\ tx[w].claim \in ProcessedRow \cup {NoRow}
  BY DEF EndStep, CommitDecided, FinishApplied, FinishRefused, CommitOnline,
     LedgerIInv, TypeOK, Transactions, Transaction
<1>2. tx[w].claim # NoRow =>
        /\ processed[env.op] = NoRow
        /\ tx[w].claim.request = env.request
        /\ tx[w].claim.outcome = tx[w].result
  BY <1>1 DEF TransactionOK, ClaimOK
<1>3. CASE CommitDecided(w)
  <2>1. StatusOf(tx[w].result) \in Statuses
    BY <1>1, <1>3, StatusTypes DEF CommitDecided, TransactionOK, ResultOK
  <2>2. QED
    BY <1>3, <2>1 DEF CommitDecided, Answer
<1>4. CASE FinishApplied(w)
  <2> DEFINE status == IF tx[w].kind = "push" /\ tx[w].preexisted
                       THEN "EXACT_REPLAY" ELSE "APPLIED"
  <2>1. status \in Statuses /\ status \in Positive
    BY DEF Statuses, Positive
  <2>2. answers' = answers \cup {<<env, status>>} /\ WriteClaim(w)
    BY <1>4 DEF FinishApplied, Answer
  <2> HIDE DEF status
  <2>3. QED
    BY <1>1, <1>2, <2>1, <2>2 DEF WriteClaim
<1>5. CASE FinishRefused(w)
  <2> DEFINE d == IF tx[w].result = "id_conflict" THEN "conflict" ELSE tx[w].result
  <2>1. d \in Dispositions
    BY <1>1, <1>5 DEF FinishRefused, TransactionOK, ResultOK, Dispositions
  <2>2. answers' = answers \cup {<<env, StatusOf(d)>>} /\ UNCHANGED processed
    BY <1>5 DEF FinishRefused, Answer
  <2> HIDE DEF d
  <2>3. QED
    BY <2>1, <2>2, StatusTypes
<1>6. CASE CommitOnline(w)
  <2> DEFINE status == IF tx[w].result = "applied" THEN "APPLIED" ELSE StatusOf(tx[w].result)
  <2>1. tx[w].result \in {"applied", "rejected", "conflict", "id_conflict"}
    BY <1>1, <1>6 DEF CommitOnline, TransactionOK, ResultOK
  <2>2. status \in Statuses /\ (tx[w].result = "applied" => status \in Positive)
    BY <2>1, StatusTypes DEF Statuses, Positive, Dispositions
  <2>3. answers' = answers \cup {<<env, status>>} /\ WriteClaim(w)
    BY <1>6 DEF CommitOnline, Answer
  <2> HIDE DEF status
  <2>4. QED
    BY <1>1, <1>2, <2>2, <2>3 DEF WriteClaim
<1>7. QED
  BY <1>3, <1>4, <1>5, <1>6 DEF EndStep

\* A commit is a step of the ledger, or invisible to it.
LEMMA EndRefines ==
    ASSUME LedgerIInv, LedgerIInv', NEW w \in Workers, EndStep(w)
    PROVE  \/ \E o \in Ops, r \in Requests : Ledger!Apply(o, r) \/ Ledger!Replay(o, r)
           \/ UNCHANGED <<Book, Told>>
<1>1. PICK env \in Envelopes : env = tx[w].env
  BY DEF EndStep, CommitDecided, FinishApplied, FinishRefused, CommitOnline, LedgerIInv, TypeOK,
     Transaction
<1>2. env.op \in Ops /\ env.request \in Requests
  BY EnvelopeFields
<1>3. PICK status \in Statuses :
        /\ answers' = answers \cup {<<env, status>>}
        /\ \/ processed' = processed
           \/ \E claim \in ProcessedRow :
                 /\ processed' = [processed EXCEPT ![env.op] = claim]
                 /\ processed[env.op] = NoRow
                 /\ claim.request = env.request
                 /\ claim.outcome = "applied" => status \in Positive
  BY <1>1, CommitFacts
<1>4. /\ \A p \in Ops \ {env.op} : processed'[p] = processed[p]
      /\ processed[env.op] # NoRow => processed'[env.op] = processed[env.op]
      /\ status \notin Positive =>
            (Applied(env.op)' <=> Applied(env.op)) /\
            (Applied(env.op) => processed'[env.op] = processed[env.op])
  BY <1>2, <1>3 DEF LedgerIInv, TypeOK, Applied
<1>5. CASE status \notin Positive
  <2>1. Told' = Told
    BY <1>3, <1>5 DEF Told, Positive
  <2>2. Book' = Book
    BY <1>4, <1>5 DEF Book, Applied
  <2>3. QED
    BY <2>1, <2>2
<1>6. CASE status \in Positive
  <2>1. Told' = Told \cup {<<env.op, env.request>>}
    <3>1. {f \in Envelopes : <<f, "APPLIED">> \in answers' \/ <<f, "EXACT_REPLAY">> \in answers'}
          = {f \in Envelopes : <<f, "APPLIED">> \in answers \/ <<f, "EXACT_REPLAY">> \in answers}
            \cup {env}
      BY <1>3, <1>6 DEF Positive
    <3>2. QED
      BY <3>1 DEF Told
  <2>2. Applied(env.op)' /\ processed'[env.op].request = env.request
    BY <1>3, <1>6 DEF LedgerIInv, AnswerIsTruthful, Positive
  <2>3. CASE Applied(env.op)
    <3>1. Book' = Book /\ Book[env.op] = env.request
      BY <1>2, <1>4, <2>2, <2>3 DEF Book, Applied
    <3>2. QED
      BY <1>2, <2>1, <3>1 DEF Ledger!Replay, Book, Told
  <2>4. CASE ~Applied(env.op)
    <3>1. Book[env.op] = NoRow /\ Book' = [Book EXCEPT ![env.op] = env.request]
      BY <1>2, <1>4, <2>2, <2>4 DEF Book, Applied
    <3>2. QED
      BY <1>2, <2>1, <3>1 DEF Ledger!Apply, Book, Told
  <2>5. QED
    BY <2>3, <2>4
<1>7. QED
  BY <1>5, <1>6

\* Push, recovery and online calls together implement the ledger: an effect
\* enters the books once, and positive answers report what is in the books.
THEOREM LedgerRefinement == Spec => ImplementsLedger
<1>1. Init => Ledger!Init
  BY DEF Init, Ledger!Init, Applied
<1>2. ASSUME LedgerIInv, LedgerIInv', [Next]_vars
      PROVE  Ledger!Next \/ UNCHANGED <<Book, Told>>
  <2>1. CASE \E w \in Workers : EndStep(w)
    BY <1>2, <2>1, EndRefines DEF Ledger!Next
  <2>2. CASE Next /\ ~\E w \in Workers : EndStep(w)
    <3>1. UNCHANGED processed
      BY <2>2, OnlyCommitsWrite
    <3>2. \A e \in Envelopes, s \in Positive : <<e, s>> \in answers' <=> <<e, s>> \in answers
      BY <2>2, OnlyCommitsAnswer DEF Positive
    <3>3. QED
      BY <3>1, <3>2 DEF Book, Told, Applied, Positive
  <2>3. CASE UNCHANGED vars
    BY <2>3 DEF vars, Book, Told, Applied
  <2>4. QED
    BY <1>2, <2>1, <2>2, <2>3
<1>3. LedgerIInv /\ LedgerIInv' /\ [Next]_vars => [Ledger!Next]_<<Book, Told>>
  BY <1>2
<1>4. QED
  BY <1>1, <1>3, LedgerInvariance, PTL DEF Spec, ImplementsLedger, Ledger!Spec, Book, Told
=============================================================================
