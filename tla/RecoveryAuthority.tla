------------------------- MODULE RecoveryAuthority -------------------------
(* The platform-wide recovery control row of migration 0033, the advisory  *)
(* lock that every authoritative transaction shares until it commits, and  *)
(* the operator's two transitions, which take the lock exclusively.  The   *)
(* requests that share the lock are modelled by the modules that extend    *)
(* this one.                                                               *)
(*                                                                         *)
(* Generations are fresh identifiers in the code and consecutive numbers   *)
(* here.  A clock reading is the number of cutoffs read before it: two     *)
(* readings are told apart by what lies between them, and `issued_at <     *)
(* authority_not_before' is comparison of those numbers.                   *)
EXTENDS Naturals

CONSTANTS
    Requests,       \* the HTTP requests being served, each with a connection
    MaxGeneration,  \* bound: generations activated after the first
    MaxCutoffs      \* bound: cutoffs read, those of aborted activations included

ASSUME BoundsAssumption == MaxGeneration \in Nat /\ MaxCutoffs \in Nat

VARIABLES
    control,    \* platform.recovery_control, the committed row
    operator,   \* the operator's connection
    now,        \* cutoffs read so far
    holders     \* the requests that hold the advisory lock in shared mode

authorityVars == <<control, operator, now, holders>>

Generations == 0 .. MaxGeneration
Cutoffs == 0 .. MaxCutoffs
Controls == [generation : Generations, state : {"ACTIVE", "FENCED"}, notBefore : Cutoffs]
NoCutoff == 0           \* authority_not_before IS NULL
NoGeneration == MaxGeneration + 1       \* a request without a generation

OperatorStates == [pc : {"idle", "waiting", "locked", "decided"},
              kind : {"fence", "activate"}, expected : Generations, row : Controls]

FirstControl == [generation |-> 0, state |-> "ACTIVE", notBefore |-> NoCutoff]
IdleOperator == [pc |-> "idle", kind |-> "fence", expected |-> 0, row |-> FirstControl]

AuthorityTypeOK ==
    /\ control \in Controls
    /\ operator \in OperatorStates
    /\ now \in Cutoffs
    /\ holders \in SUBSET Requests

AuthorityInit ==
    /\ control = FirstControl
    /\ operator = IdleOperator
    /\ now = 0
    /\ holders = {}

-----------------------------------------------------------------------------
\* The lock.  PostgreSQL queues a shared request behind an exclusive one that
\* is already waiting.
ExclusiveHeld == operator.pc \in {"locked", "decided"}
Grantable == operator.pc = "idle"

\* lock_platform_recovery_authority_v1 once it has the lock: what it requires
\* of the control row it reads.
Admits(row, expected, generationless) ==
    /\ row.state = "ACTIVE"
    /\ IF expected = NoGeneration
       THEN row.notBefore = NoCutoff \/ generationless
       ELSE expected = row.generation

\* ... and of the session it was asked about.
AdmitsSession(row, issuedAt) ==
    /\ Admits(row, NoGeneration, TRUE)
    /\ issuedAt >= row.notBefore

Share(w) == holders' = holders \cup {w} /\ UNCHANGED <<control, operator, now>>
Release(w) == holders' = holders \ {w} /\ UNCHANGED <<control, operator, now>>

-----------------------------------------------------------------------------
\* fence_platform_recovery_v1 and activate_new_recovery_generation_v1: the
\* operator names the generation it means, waits for the exclusive lock, reads
\* the row and either refuses or changes it.
RoomToActivate == control.generation < MaxGeneration /\ now < MaxCutoffs     \* bound

OperatorBegin(kind, expected) ==
    /\ operator.pc = "idle"
    /\ kind = "activate" => RoomToActivate
    /\ operator' = [operator EXCEPT !.pc = "waiting", !.kind = kind, !.expected = expected]
    /\ UNCHANGED <<control, now, holders>>

OperatorLock ==
    /\ operator.pc = "waiting"
    /\ holders = {}
    /\ operator' = [operator EXCEPT !.pc = "locked"]
    /\ UNCHANGED <<control, now, holders>>

\* Fencing what is fenced already changes nothing and succeeds.
Fence ==
    /\ operator.pc = "locked" /\ operator.kind = "fence"
    /\ operator.expected = control.generation
    /\ operator' = [operator EXCEPT !.pc = "decided", !.row = [control EXCEPT !.state = "FENCED"]]
    /\ UNCHANGED <<control, now, holders>>

Activate ==
    /\ operator.pc = "locked" /\ operator.kind = "activate"
    /\ operator.expected = control.generation
    /\ control.state = "FENCED"
    /\ RoomToActivate
    /\ now' = now + 1
    /\ operator' = [operator EXCEPT !.pc = "decided",
           !.row = [generation |-> control.generation + 1, state |-> "ACTIVE", notBefore |-> now']]
    /\ UNCHANGED <<control, holders>>

OperatorRefused ==
    /\ operator.pc = "locked"
    /\ \/ operator.expected # control.generation
       \/ operator.kind = "activate" /\ control.state # "FENCED"
    /\ operator' = IdleOperator
    /\ UNCHANGED <<control, now, holders>>

OperatorCommit ==
    /\ operator.pc = "decided"
    /\ control' = operator.row
    /\ operator' = IdleOperator
    /\ UNCHANGED <<now, holders>>

\* The operator's connection is lost: the transaction is rolled back.
OperatorLost ==
    /\ operator.pc # "idle"
    /\ operator' = IdleOperator
    /\ UNCHANGED <<control, now, holders>>

OperatorProgress == OperatorLock \/ Fence \/ Activate \/ OperatorRefused \/ OperatorCommit

OperatorNext ==
    \/ \E k \in {"fence", "activate"}, g \in 0 .. control.generation : OperatorBegin(k, g)
    \/ OperatorProgress
    \/ OperatorLost
=============================================================================
