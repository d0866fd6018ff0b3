------------------------- MODULE OfflineOperations -------------------------
(***************************************************************************)
(* Push and recovery of offline operations against one Store.              *)
(*                                                                         *)
(* A device queues operations while offline and later pushes each of them  *)
(* as an envelope.  The server runs one PostgreSQL transaction per         *)
(* envelope: it takes the advisory locks of the operation and of the       *)
(* device's local sequence, decides from the provenance row and from the   *)
(* Store's standing whether the operation may run, dispatches it to the    *)
(* domain service inside the same transaction, records the outcome and     *)
(* commits.  The same operation identifier may also arrive as a direct     *)
(* online call, which shares only sync.processed_operations with the push. *)
(*                                                                         *)
(* Committed tables are plain variables; what a transaction has written    *)
(* but not committed lives in its own record tx[w], invisible to others    *)
(* (READ COMMITTED).  Locks are the fields of tx[w] other workers test.    *)
(* Payloads, hashes and response bodies are reduced to the request they    *)
(* stand for, and a reason code to the part later decisions read.          *)
(***************************************************************************)
EXTENDS Naturals, FiniteSets

CONSTANTS
    Ops,              \* operation identifiers, chosen by clients
    Requests,         \* canonical material requests (the domain's requestHash)
    InvalidRequests,  \* requests the domain refuses before it claims them
    Devices,
    Licenses,
    Sequences,        \* local sequence numbers used by the devices
    Envelopes,        \* the envelopes clients may send
    Unverifiable,     \* envelopes refused before any transaction starts
    Attempts,         \* recovery attempt identifiers (request identifiers)
    Losable,          \* the grants the environment may withdraw
    Workers,          \* concurrent request handlers
    NoRow,
    NoAttempt

\* What the Store, its owner and its device stand on; "entitlement" is the
\* current write entitlement, lost while the Store is suspended.
Grants == {"store", "entitlement", "device", "owner"} \cup Licenses

Envelope == [op: Ops, device: Devices, sequence: Sequences, request: Requests,
             license: Licenses,
             clock: {"trusted", "clock_rollback_suspected"},
             creation: {"inside", "outside", "after_suspension"},
             dependsOn: SUBSET Ops]

ASSUME EnvelopesAssumption ==
    /\ Envelopes \subseteq Envelope
    /\ \A e \in Envelopes : e.op \notin e.dependsOn
    /\ Unverifiable \subseteq Envelopes
    /\ InvalidRequests \subseteq Requests

ASSUME GrantsAssumption ==
    /\ Losable \subseteq Grants
    /\ Licenses \cap {"store", "entitlement", "device", "owner"} = {}

VARIABLES
    prov,       \* sync.offline_operation_provenance_v1
    processed,  \* sync.processed_operations
    effects,    \* how often each operation's business effect was committed
    attempts,   \* sync.offline_operation_recovery_events_v1, one record per attempt
    lost,       \* the grants that no longer stand
    tx,         \* the transaction each worker is in
    answers     \* every answer given so far: <<envelope, status>>

vars == <<prov, processed, effects, attempts, lost, tx, answers>>

-----------------------------------------------------------------------------
(* Rows and transactions.                                                  *)

Dispositions == {"applied", "rejected", "conflict", "quarantined", "dependency_pending"}
Reasons == {"clock_rollback", "dependency", "other", "none"}
ProvenanceRow == [envelope: Envelopes, disposition: Dispositions, reason: Reasons]

\* Outcome "rejected" and "conflict" are both status 'rejected' in the table;
\* the stored error tells an HTTP 409 from the other refusals.
ProcessedRow == [request: Requests, outcome: {"applied", "rejected", "conflict"}]

AttemptRow == [envelope: Envelopes, reason: Reasons,
               result: Dispositions \cup {"exact_replay"}]

ASSUME NullsAssumption ==
    /\ NoAttempt \notin Attempts
    /\ NoRow \notin ProvenanceRow \cup ProcessedRow \cup AttemptRow

Statuses == {"APPLIED", "EXACT_REPLAY", "REJECTED", "DEPENDENCY_PENDING",
             "CONFLICT", "QUARANTINED"}

\* A transaction holds the row and advisory locks of the operations in
\* "holds" and shares the rows of the grants in "shares".  "result" is the
\* disposition a decided transaction answers, or what the domain returned.
Transaction ==
    [phase: {"authorized", "dispatched", "decided"},
     kind: {"push", "recover", "online"},
     env: Envelopes,
     attempt: Attempts \cup {NoAttempt},
     holds: SUBSET Ops,
     shares: SUBSET Grants,
     row: ProvenanceRow \cup {NoRow},
     claim: ProcessedRow \cup {NoRow},
     preexisted: BOOLEAN,
     result: Dispositions \cup {"exact_replay", "none", "id_conflict"}]

Idle == [phase |-> "idle"]
Active == {w \in Workers : tx[w] # Idle}

Init ==
    /\ prov = [o \in Ops |-> NoRow]
    /\ processed = [o \in Ops |-> NoRow]
    /\ effects = [o \in Ops |-> 0]
    /\ attempts = [a \in Attempts |-> NoRow]
    /\ lost = {}
    /\ tx = [w \in Workers |-> Idle]
    /\ answers = {}

-----------------------------------------------------------------------------
(* What a transaction reads.                                               *)

Applied(o) == processed[o] # NoRow /\ processed[o].outcome = "applied"
Disposition(o) == IF prov[o] = NoRow THEN "none" ELSE prov[o].disposition

SameSequence(e, f) == e.device = f.device /\ e.sequence = f.sequence

\* The operations whose provenance row already uses the sequence of e.
SequenceOwners(e) == {o \in Ops : prov[o] # NoRow /\ SameSequence(prov[o].envelope, e)}

OperationFree(w, ops) == \A v \in Active \ {w} : tx[v].holds \cap ops = {}

\* Broken variant: no advisory lock on the device's local sequence.
SequenceUnlocked(w, e) == w \in Workers /\ e \in Envelopes

SequenceFree(w, e) ==
    \A v \in Active \ {w} : ~(tx[v].kind = "push" /\ SameSequence(tx[v].env, e))

\* Store not archived, owner membership and device active, license not revoked.
Eligible(e) == lost \cap {"store", "owner", "device", e.license} = {}

\* SQL's bool_and skips NULL inputs: a dependency without a processed row and
\* without an unfinished provenance row contributes NULL, hence nothing.
DependencyInput(d) ==
    IF Disposition(d) \notin {"none", "applied"} THEN "false"
    ELSE IF processed[d] = NoRow THEN "null"
    ELSE IF Applied(d) THEN "true" ELSE "false"

\* Broken variant: the NULL of an empty bool_and counts as true.
NullSatisfies(e) ==
    IF \E d \in e.dependsOn : DependencyInput(d) = "false"
    THEN "dependency_pending" ELSE "satisfied"

DependencyStatus(e) ==
    LET D == e.dependsOn
        inputs == {DependencyInput(d) : d \in D}
    IN  IF D = {} THEN "satisfied"
        ELSE IF \E d \in D : Disposition(d) = "quarantined" THEN "quarantined"
        ELSE IF \E d \in D : Disposition(d) = "conflict" THEN "conflict"
        ELSE IF \E d \in D : \/ Disposition(d) = "rejected"
                             \/ processed[d] # NoRow /\ ~Applied(d)
             THEN "rejected"
        ELSE IF "true" \in inputs /\ "false" \notin inputs THEN "satisfied"
        ELSE "dependency_pending"

\* The recursive walk meets a cycle iff some set holding the operation has a
\* dependency inside itself for each of its members.
DependencyCycle(e) ==
    LET depends(o) == IF o = e.op THEN e.dependsOn
                      ELSE IF prov[o] = NoRow THEN {}
                      ELSE prov[o].envelope.dependsOn
    IN  \E S \in SUBSET Ops : e.op \in S /\ \A o \in S : depends(o) \cap S # {}

Decide(d, r) == [disposition |-> d, reason |-> r]

\* Broken variant: the reason of a dependency quarantine is not kept apart.
UnreasonedDependencyVerdict(e) ==
    IF DependencyStatus(e) = "satisfied" THEN Decide("processing", "none")
    ELSE Decide(DependencyStatus(e), "other")

DependencyVerdict(e) ==
    IF DependencyStatus(e) = "satisfied" THEN Decide("processing", "none")
    ELSE Decide(DependencyStatus(e), "dependency")

\* Broken variant: without the cycle check of begin_offline_operation_v2.
AcyclicPushVerdict(e) ==
    IF ~Eligible(e) THEN Decide("rejected", "other")
    ELSE IF e.clock = "clock_rollback_suspected" THEN Decide("quarantined", "clock_rollback")
    ELSE IF e.creation # "inside" THEN Decide("rejected", "other")
    ELSE DependencyVerdict(e)

\* begin_offline_operation_v1 followed by the cycle check of _v2.
PushVerdict(e) ==
    IF ~Eligible(e) THEN Decide("rejected", "other")
    ELSE IF e.clock = "clock_rollback_suspected" THEN Decide("quarantined", "clock_rollback")
    ELSE IF e.creation # "inside" THEN Decide("rejected", "other")
    ELSE IF DependencyStatus(e) = "dependency_pending" /\ DependencyCycle(e)
         THEN Decide("conflict", "other")
    ELSE DependencyVerdict(e)

\* Recovery accepts the clock state and looks for a cycle first.
RecoveryVerdict(e) ==
    IF ~Eligible(e) \/ e.creation # "inside" THEN Decide("rejected", "other")
    ELSE IF DependencyCycle(e) THEN Decide("conflict", "other")
    ELSE DependencyVerdict(e)

Row(e, v) == [envelope |-> e, disposition |-> v.disposition, reason |-> v.reason]

\* beginResult: the status a disposition is answered with.
StatusOf(d) ==
    CASE d \in {"applied", "exact_replay"} -> "EXACT_REPLAY"
      [] d = "rejected" -> "REJECTED"
      [] d = "dependency_pending" -> "DEPENDENCY_PENDING"
      [] d \in {"conflict", "id_conflict"} -> "CONFLICT"
      [] d = "quarantined" -> "QUARANTINED"

-----------------------------------------------------------------------------
(* Beginning a transaction.                                                *)

Begin(w, phase, kind, e, a, holds, shares, row, result) ==
    tx' = [tx EXCEPT ![w] =
        [phase |-> phase, kind |-> kind, env |-> e, attempt |-> a,
         holds |-> holds, shares |-> shares, row |-> row, claim |-> NoRow,
         preexisted |-> processed[e.op] # NoRow, result |-> result]]

ReadOnlyStore == UNCHANGED <<prov, processed, effects, attempts, lost, answers>>

EvidenceRows(e) == {"store", "device", e.license}

CanPush(w, e) ==
    /\ tx[w] = Idle
    /\ e \notin Unverifiable
    /\ OperationFree(w, {e.op})
    /\ SequenceFree(w, e)

\* An envelope whose document, type, license signature or binding does not
\* verify is answered REJECTED and leaves no row behind.
PushRefused(e) ==
    /\ e \in Unverifiable
    /\ answers' = answers \cup {<<e, "REJECTED">>}
    /\ UNCHANGED <<prov, processed, effects, attempts, lost, tx>>

\* Broken variant: the conflict is recorded with the binding that lost.
PushChangedRebinds(w, e) ==
    /\ CanPush(w, e)
    /\ prov[e.op] # NoRow
    /\ prov[e.op].envelope # e
    /\ Begin(w, "decided", "push", e, NoAttempt, {e.op}, {},
             Row(e, Decide("conflict", "other")), "conflict")
    /\ ReadOnlyStore

\* The operation is known under another binding: a conflict, which also
\* turns an applied provenance row into a conflict for good.
PushChanged(w, e) ==
    /\ CanPush(w, e)
    /\ prov[e.op] # NoRow
    /\ prov[e.op].envelope # e
    /\ Begin(w, "decided", "push", e, NoAttempt, {e.op}, {},
             IF prov[e.op].disposition = "applied"
             THEN [prov[e.op] EXCEPT !.disposition = "conflict", !.reason = "other"]
             ELSE NoRow,
             "conflict")
    /\ ReadOnlyStore

\* Broken variant: any push of a settled operation replays its outcome.
PushReplayedUnbound(w, e) ==
    /\ CanPush(w, e)
    /\ prov[e.op] # NoRow
    /\ prov[e.op].disposition # "dependency_pending"
    /\ Begin(w, "decided", "push", e, NoAttempt, {e.op}, {}, NoRow,
             prov[e.op].disposition)
    /\ ReadOnlyStore

\* The very same envelope: its settled outcome is answered again.
PushReplayed(w, e) ==
    /\ CanPush(w, e)
    /\ prov[e.op] # NoRow
    /\ prov[e.op].envelope = e
    /\ prov[e.op].disposition # "dependency_pending"
    /\ Begin(w, "decided", "push", e, NoAttempt, {e.op}, {}, NoRow,
             prov[e.op].disposition)
    /\ ReadOnlyStore

\* Neither of the two: the envelope is new, or still waits for dependencies.
Undecided(e) ==
    prov[e.op] # NoRow =>
        prov[e.op].envelope = e /\ prov[e.op].disposition = "dependency_pending"

\* Another operation of the device used the local sequence: not recorded.
PushSequenceConflict(w, e) ==
    /\ CanPush(w, e)
    /\ Undecided(e)
    /\ OperationFree(w, SequenceOwners(e))
    /\ SequenceOwners(e) \ {e.op} # {}
    /\ Begin(w, "decided", "push", e, NoAttempt, {e.op} \cup SequenceOwners(e), {},
             NoRow, "conflict")
    /\ ReadOnlyStore

PushEvaluated(w, e) ==
    /\ CanPush(w, e)
    /\ Undecided(e)
    /\ SequenceOwners(e) \subseteq {e.op}
    /\ LET v == PushVerdict(e)
       IN  IF v.disposition = "processing"
           THEN Begin(w, "authorized", "push", e, NoAttempt, {e.op}, EvidenceRows(e),
                      NoRow, "none")
           ELSE Begin(w, "decided", "push", e, NoAttempt, {e.op}, EvidenceRows(e),
                      Row(e, v), v.disposition)
    /\ ReadOnlyStore

-----------------------------------------------------------------------------
(* Beginning a recovery.  A known attempt of another operation, a missing  *)
(* target and a reason that is not recoverable raise or answer without     *)
(* changing any state; QuarantineIsRecoverable shows the last is dead.     *)

CanRecover(w, e, a) ==
    /\ tx[w] = Idle
    /\ e \notin Unverifiable
    /\ OperationFree(w, {e.op})
    /\ \A v \in Active \ {w} : tx[v].attempt # a

RecoverReplayed(w, e, a) ==
    /\ CanRecover(w, e, a)
    /\ attempts[a] # NoRow
    /\ attempts[a].envelope = e
    /\ Begin(w, "decided", "recover", e, NoAttempt, {e.op}, {}, NoRow, attempts[a].result)
    /\ ReadOnlyStore

RecoverChanged(w, e, a) ==
    /\ CanRecover(w, e, a)
    /\ attempts[a] = NoRow
    /\ prov[e.op] # NoRow
    /\ prov[e.op].envelope # e
    /\ Begin(w, "decided", "recover", e, NoAttempt, {e.op}, {}, NoRow, "conflict")
    /\ ReadOnlyStore

\* Nothing to recover: the attempt is recorded with the row's disposition.
RecoverSettled(w, e, a) ==
    /\ CanRecover(w, e, a)
    /\ attempts[a] = NoRow
    /\ prov[e.op] # NoRow
    /\ prov[e.op].envelope = e
    /\ prov[e.op].disposition # "quarantined"
    /\ Begin(w, "decided", "recover", e, a, {e.op}, {}, NoRow,
             IF prov[e.op].disposition = "applied" /\ Applied(e.op)
             THEN "exact_replay" ELSE prov[e.op].disposition)
    /\ ReadOnlyStore

RecoverEvaluated(w, e, a) ==
    /\ CanRecover(w, e, a)
    /\ attempts[a] = NoRow
    /\ prov[e.op] # NoRow
    /\ prov[e.op].envelope = e
    /\ prov[e.op].disposition = "quarantined"
    /\ prov[e.op].reason \in {"clock_rollback", "dependency"}
    /\ LET v == RecoveryVerdict(e)
       IN  IF v.disposition = "processing"
           THEN Begin(w, "authorized", "recover", e, a, {e.op}, EvidenceRows(e), NoRow, "none")
           ELSE Begin(w, "decided", "recover", e, a, {e.op}, EvidenceRows(e),
                      IF v.disposition = "quarantined" THEN NoRow ELSE Row(e, v),
                      v.disposition)
    /\ ReadOnlyStore

\* A direct online call of the same operation needs the current entitlement
\* and holds a share lock on the Store row.
OnlineBegun(w, e) ==
    /\ tx[w] = Idle
    /\ lost \cap {"store", "entitlement"} = {}
    /\ Begin(w, "authorized", "online", e, NoAttempt, {}, {"store"}, NoRow, "none")
    /\ ReadOnlyStore

-----------------------------------------------------------------------------
(* The domain service, inside the transaction.                             *)

Dispatch(w, claim, result) ==
    /\ tx' = [tx EXCEPT ![w].phase = "dispatched", ![w].claim = claim, ![w].result = result]
    /\ ReadOnlyStore

\* Validation fails before the operation is claimed.
DispatchInvalid(w) ==
    /\ tx[w] # Idle
    /\ tx[w].phase = "authorized"
    /\ tx[w].env.request \in InvalidRequests
    /\ Dispatch(w, NoRow, "rejected")

\* Broken variant: a processed operation replays for whatever request.
DispatchReplayedUnhashed(w) ==
    LET e == tx[w].env
    IN  /\ tx[w] # Idle
        /\ tx[w].phase = "authorized"
        /\ e.request \notin InvalidRequests
        /\ processed[e.op] # NoRow
        /\ Dispatch(w, NoRow, processed[e.op].outcome)

\* The operation was processed before: same request replays its outcome,
\* another request is an operation-id conflict.
DispatchReplayed(w) ==
    LET e == tx[w].env
    IN  /\ tx[w] # Idle
        /\ tx[w].phase = "authorized"
        /\ e.request \notin InvalidRequests
        /\ processed[e.op] # NoRow
        /\ Dispatch(w, NoRow, IF processed[e.op].request = e.request
                              THEN processed[e.op].outcome ELSE "id_conflict")

\* Broken variants: the claim only looks at committed rows, or only at others'.
CheckThenClaim(w) == processed[tx[w].env.op] = NoRow
ClaimOverwrites(w) ==
    \A v \in Active \ {w} : ~(tx[v].env.op = tx[w].env.op /\ tx[v].claim # NoRow)

\* The claim's unique key is free and nobody else is inserting it.
CanClaim(w) ==
    /\ processed[tx[w].env.op] = NoRow
    /\ \A v \in Active \ {w} : ~(tx[v].env.op = tx[w].env.op /\ tx[v].claim # NoRow)

\* claim_operation inserts the row; the domain then applies or refuses.  A
\* refusal rolls the savepoint of a push or recovery back, and the claim with it.
DispatchClaimed(w, outcome) ==
    LET e == tx[w].env
        claim == [request |-> e.request, outcome |-> outcome]
    IN  /\ tx[w] # Idle
        /\ tx[w].phase = "authorized"
        /\ e.request \notin InvalidRequests
        /\ CanClaim(w)
        /\ Dispatch(w, IF outcome = "applied" \/ tx[w].kind = "online" THEN claim ELSE NoRow,
                    outcome)

-----------------------------------------------------------------------------
(* Ending a transaction.                                                   *)

End(w) == tx' = [tx EXCEPT ![w] = Idle]

Answer(w, status) == answers' = answers \cup {<<tx[w].env, status>>}

\* The claim of a transaction that commits an applied outcome.
WriteClaim(w) ==
    LET o == tx[w].env.op
    IN  IF tx[w].claim = NoRow
        THEN UNCHANGED <<processed, effects>>
        ELSE /\ processed' = [processed EXCEPT ![o] = tx[w].claim]
             /\ effects' = [effects EXCEPT ![o] =
                    @ + IF tx[w].claim.outcome = "applied" THEN 1 ELSE 0]

\* Broken variant: an attempt that ends without a dispatch is not recorded.
WriteDispatchedAttempt(w, result) ==
    attempts' = IF tx[w].attempt = NoAttempt \/ tx[w].phase = "decided" THEN attempts
                ELSE [attempts EXCEPT ![tx[w].attempt] =
                        [envelope |-> tx[w].env, reason |-> prov[tx[w].env.op].reason,
                         result |-> result]]

WriteAttempt(w, result) ==
    attempts' = IF tx[w].attempt = NoAttempt THEN attempts
                ELSE [attempts EXCEPT ![tx[w].attempt] =
                        [envelope |-> tx[w].env, reason |-> prov[tx[w].env.op].reason,
                         result |-> result]]

\* A transaction that was not authorized commits what it decided.
CommitDecided(w) ==
    /\ tx[w] # Idle
    /\ tx[w].phase = "decided"
    /\ prov' = IF tx[w].row = NoRow THEN prov
               ELSE [prov EXCEPT ![tx[w].env.op] = tx[w].row]
    /\ WriteAttempt(w, IF tx[w].result = "id_conflict" THEN "conflict" ELSE tx[w].result)
    /\ Answer(w, StatusOf(tx[w].result))
    /\ End(w)
    /\ UNCHANGED <<processed, effects, lost>>

\* finish_offline_operation_v1('applied'), then commit.
FinishApplied(w) ==
    /\ tx[w] # Idle
    /\ tx[w].phase = "dispatched"
    /\ tx[w].kind \in {"push", "recover"}
    /\ tx[w].result = "applied"
    /\ prov' = [prov EXCEPT ![tx[w].env.op] =
                  Row(tx[w].env, Decide("applied", "none"))]
    /\ WriteClaim(w)
    /\ WriteAttempt(w, "applied")
    /\ Answer(w, IF tx[w].kind = "push" /\ tx[w].preexisted
                 THEN "EXACT_REPLAY" ELSE "APPLIED")
    /\ End(w)
    /\ UNCHANGED <<lost>>

\* finish with a refusal: an operation applied meanwhile by an online call may
\* only be recorded as an id conflict; any other refusal raises and the
\* transaction can only abort.
FinishRefused(w) ==
    LET d == IF tx[w].result = "id_conflict" THEN "conflict" ELSE tx[w].result
    IN  /\ tx[w] # Idle
        /\ tx[w].phase = "dispatched"
        /\ tx[w].kind \in {"push", "recover"}
        /\ tx[w].result # "applied"
        /\ Applied(tx[w].env.op) => tx[w].result = "id_conflict"
        /\ prov' = [prov EXCEPT ![tx[w].env.op] = Row(tx[w].env, Decide(d, "other"))]
        /\ WriteAttempt(w, d)
        /\ Answer(w, StatusOf(d))
        /\ End(w)
        /\ UNCHANGED <<processed, effects, lost>>

\* An online call commits its claim, a recorded refusal included, unless
\* the domain threw instead of recording, which is an Abort.
CommitOnline(w) ==
    /\ tx[w] # Idle
    /\ tx[w].phase = "dispatched"
    /\ tx[w].kind = "online"
    /\ WriteClaim(w)
    /\ Answer(w, IF tx[w].result = "applied" THEN "APPLIED" ELSE StatusOf(tx[w].result))
    /\ End(w)
    /\ UNCHANGED <<prov, attempts, lost>>

\* A crash, a lost connection, a non-HTTP error or an exception of finish.
Abort(w) ==
    /\ tx[w] # Idle
    /\ End(w)
    /\ ReadOnlyStore

-----------------------------------------------------------------------------
(* The environment: revocation, withdrawal, suspension.                    *)

\* The row that has to be locked to change a grant: suspension locks the Store.
\* The membership row of the owner is read without a lock and never shared.
RowOf(g) == IF g = "entitlement" THEN "store" ELSE g

\* Broken variant: the evidence is not locked while the operation runs.
SharedUntilDispatch(g) ==
    \E w \in Active : RowOf(g) \in tx[w].shares /\ tx[w].phase = "decided"

Shared(g) == \E w \in Active : RowOf(g) \in tx[w].shares

\* A license is revoked, a Store suspended, or a Store, device or membership
\* becomes inactive; the row lock waits for the share locks.
Withdraw(g) ==
    /\ g \in Losable \ lost
    /\ ~Shared(g)
    /\ lost' = lost \cup {g}
    /\ UNCHANGED <<prov, processed, effects, attempts, tx, answers>>

\* Only the entitlement comes back.
Restore ==
    /\ "entitlement" \in lost
    /\ ~Shared("entitlement")
    /\ lost' = lost \ {"entitlement"}
    /\ UNCHANGED <<prov, processed, effects, attempts, tx, answers>>

-----------------------------------------------------------------------------
Push(w, e) == PushChanged(w, e) \/ PushReplayed(w, e)
              \/ PushSequenceConflict(w, e) \/ PushEvaluated(w, e)

Recover(w, e, a) == RecoverReplayed(w, e, a) \/ RecoverChanged(w, e, a)
                    \/ RecoverSettled(w, e, a) \/ RecoverEvaluated(w, e, a)

DispatchStep(w) == DispatchInvalid(w) \/ DispatchReplayed(w)
                   \/ \E outcome \in {"applied", "rejected", "conflict"} :
                          DispatchClaimed(w, outcome)

EndStep(w) == CommitDecided(w) \/ FinishApplied(w) \/ FinishRefused(w) \/ CommitOnline(w)

Next ==
    \/ \E e \in Envelopes : PushRefused(e)
    \/ \E w \in Workers, e \in Envelopes : Push(w, e)
    \/ \E w \in Workers, e \in Envelopes, a \in Attempts : Recover(w, e, a)
    \/ \E w \in Workers, e \in Envelopes : OnlineBegun(w, e)
    \/ \E w \in Workers : DispatchStep(w) \/ EndStep(w) \/ Abort(w)
    \/ \E g \in Losable : Withdraw(g)
    \/ Restore

Spec == Init /\ [][Next]_vars

-----------------------------------------------------------------------------
(* Safety.                                                                 *)

\* Every table and transaction has its shape; in particular no committed
\* provenance row is still 'processing'.
TypeOK ==
    /\ prov \in [Ops -> ProvenanceRow \cup {NoRow}]
    /\ processed \in [Ops -> ProcessedRow \cup {NoRow}]
    /\ effects \in [Ops -> Nat]
    /\ attempts \in [Attempts -> AttemptRow \cup {NoRow}]
    /\ lost \subseteq Grants
    /\ tx \in [Workers -> Transaction \cup {Idle}]
    /\ answers \subseteq Envelopes \X Statuses

\* However pushes, recoveries and online calls of an operation interleave,
\* its business effect is committed at most once, and exactly when the
\* operation is recorded as applied.
EffectAtMostOnce ==
    \A o \in Ops : effects[o] = IF Applied(o) THEN 1 ELSE 0

\* A provenance row says applied only for the request that was applied: the
\* two idempotency tables never disagree about which request won.
AppliedIsCanonical ==
    \A o \in Ops : Disposition(o) = "applied" =>
        Applied(o) /\ processed[o].request = prov[o].envelope.request

\* An offline operation with prerequisites is applied only after one of them
\* was applied (all of them, when it names a single one).
SomeDependencyFirst ==
    \A o \in Ops : Disposition(o) = "applied" /\ prov[o].envelope.dependsOn # {} =>
        \E d \in prov[o].envelope.dependsOn : Applied(d)

\* Two operations of a device never share a local sequence number, even when
\* their first pushes run concurrently.
LocalSequenceUnique ==
    \A o, p \in Ops : o # p /\ prov[o] # NoRow /\ prov[p] # NoRow =>
        ~SameSequence(prov[o].envelope, prov[p].envelope)

\* A quarantined operation can always be offered to recovery: no path
\* quarantines for a reason recovery refuses.
QuarantineIsRecoverable ==
    \A o \in Ops : Disposition(o) = "quarantined" =>
        prov[o].reason \in {"clock_rollback", "dependency"}

\* Whenever a client was told APPLIED or EXACT_REPLAY, the effect of that
\* very request is committed, whatever was replayed or aborted since.
AnswerIsTruthful ==
    \A e \in Envelopes : (<<e, "APPLIED">> \in answers \/ <<e, "EXACT_REPLAY">> \in answers) =>
        Applied(e.op) /\ processed[e.op].request = e.request

FinalStep(o) ==
    /\ prov[o] # NoRow => prov'[o] # NoRow /\ prov'[o].envelope = prov[o].envelope
    /\ Disposition(o) \in {"rejected", "conflict"} => prov'[o] = prov[o]
    /\ Disposition(o) = "applied" => prov'[o].disposition \in {"applied", "conflict"}
    /\ processed[o] # NoRow => processed'[o] = processed[o]

\* Outcomes are final: a recorded envelope is never replaced, a rejected or
\* conflicting operation stays so, an applied one can only become a conflict,
\* and a processed operation is never rewritten.
OutcomeIsFinal == [][\A o \in Ops : FinalStep(o)]_vars

\* Quarantine is left only through a recovery attempt, which is recorded in
\* the same commit with the row's original reason and its new disposition.
RecoveryLeavesTrace ==
    [][\A o \in Ops : Disposition(o) = "quarantined" /\ prov'[o] # prov[o] =>
        \E a \in Attempts :
            /\ attempts[a] = NoRow
            /\ attempts'[a] = [envelope |-> prov[o].envelope, reason |-> prov[o].reason,
                               result |-> prov'[o].disposition]]_vars

\* At the moment an offline operation commits as applied, its license is not
\* revoked and its Store and device still stand: the evidence read at the
\* beginning of the transaction cannot go stale before its end.
EvidenceHoldsAtCommit ==
    [][\A o \in Ops : Disposition(o) # "applied" /\ prov'[o] # prov[o]
                        /\ prov'[o].disposition = "applied" =>
        lost \cap EvidenceRows(prov'[o].envelope) = {}]_vars

-----------------------------------------------------------------------------
(* Refinement and liveness.                                                *)

Ledger == INSTANCE OperationLedger WITH
    NoRequest <- NoRow,
    ledger <- [o \in Ops |-> IF Applied(o) THEN processed[o].request ELSE NoRow],
    acknowledged <- {<<e.op, e.request>> : e \in
        {f \in Envelopes : <<f, "APPLIED">> \in answers \/ <<f, "EXACT_REPLAY">> \in answers}}

\* Push, recovery and online calls together implement the ledger: an effect
\* enters the books once, and positive answers report what is in the books.
ImplementsLedger == Ledger!Spec

Pushing(w, e) == tx[w] # Idle /\ tx[w].kind = "push" /\ tx[w].env = e

\* Transactions end.  Clients resend what is not settled, and a push that is tried again and
\* again is not aborted every time.
Fairness ==
    /\ \A w \in Workers : WF_vars(DispatchStep(w) \/ EndStep(w) \/ Abort(w))
    /\ \A e \in Envelopes : SF_vars(\E w \in Workers : Push(w, e))
    /\ \A w \in Workers, e \in Envelopes :
           /\ SF_vars(Pushing(w, e) /\ DispatchStep(w))
           /\ SF_vars(Pushing(w, e) /\ EndStep(w))

FairSpec == Spec /\ Fairness

\* No operation waits for its dependencies for ever when all of them are
\* sent: a dependency is applied, refused, conflicting or part of a cycle, and
\* each of these settles the dependents.
PendingSettles ==
    \A o \in Ops :
        Disposition(o) = "dependency_pending" ~> Disposition(o) # "dependency_pending"

-----------------------------------------------------------------------------
(* What the documentation says of the push protocol and the code does not   *)
(* keep.                                                                    *)

\* "Missing unresolved prerequisites return DEPENDENCY_PENDING": an applied
\* offline operation has all its prerequisites applied.
AllDependenciesFirst ==
    \A o \in Ops : Disposition(o) = "applied" =>
        \A d \in prov[o].envelope.dependsOn : Applied(d)
=============================================================================
