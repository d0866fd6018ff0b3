-------------------------- MODULE RecoveryExecution --------------------------
(* The commands with which an operator moves the platform from the source   *)
(* database to one restored from a recovery point: prepare, restore the     *)
(* database, restore the attachments, verify, approve, activate, or abort.  *)
(* Each command is a process that may crash between any two of its steps;   *)
(* what survives are the records of the attempt and the job lock in the     *)
(* recovery storage, the databases and the operational attachments.         *)
EXTENDS Naturals, FiniteSets

CONSTANTS
    Attempts,     \* identifiers of recovery attempts
    Operators,    \* command processes that may run at the same time
    Points,       \* kinds of recovery points: "usable", and "other", dumped
                  \* in an earlier generation or under a fence
    MaxFailures,  \* bound on crashes and failing steps
    LockLapses,   \* whether an attempt may outlast the lock's 24 hours
    None

ASSUME RecoveryAssumption ==
    /\ Points \subseteq {"usable", "other"} /\ MaxFailures \in Nat
    /\ LockLapses \in BOOLEAN /\ None \notin Attempts /\ "job" \notin Attempts

VARIABLES
    source,     \* service state of the source database
    target,     \* per attempt, the database it restores into
    objects,    \* per attempt, the attachments restored for it
    records,    \* per attempt, the phases recorded
    point,      \* per attempt, the recovery point it was prepared for
    lock,       \* the job lock: the attempt or the job that owns it
    command,    \* per operator, the command under way
    failures,   \* crashes and failures so far
    unconfirmed \* attempts whose restore was recorded by a write that failed:
                \* history, read by the properties only

vars == <<source, target, objects, records, point, lock, command, failures, unconfirmed>>

Order == <<"PREPARED", "SOURCE_FENCED", "DATABASE_RESTORED", "ATTACHMENTS_RESTORED",
           "VERIFIED", "APPROVED", "ACTIVATED">>
Phases == {Order[i] : i \in DOMAIN Order} \cup {"ABORTED"}
Recorded(a, phase) == phase \in records[a]
Reached(a, i) == \A j \in 1 .. i : Recorded(a, Order[j])
Current(a, phase) ==
    /\ Recorded(a, phase)
    /\ phase = "PREPARED" => ~Recorded(a, "ABORTED")
    /\ \A i \in 1 .. 6 : phase = Order[i] => ~Recorded(a, Order[i + 1])

NoDatabase == [control |-> "absent", generation |-> "none"]
Database == [control : {"absent", "empty", "ACTIVE", "FENCED"},
             generation : {"none", "source", "other", "new"}]
Steps == {"idle", "locking", "preparing", "fencing", "recordingFence", "dropping",
          "creating", "loading", "fencingTarget", "recordingRestore", "cleaning",
          "copying", "recordingCopy", "recordingVerified", "recordingApproved",
          "activating", "confirming", "aborting", "releasing"}

Init ==
    /\ source = "ACTIVE"
    /\ target = [a \in Attempts |-> NoDatabase]
    /\ objects = [a \in Attempts |-> "none"]
    /\ records = [a \in Attempts |-> {}]
    /\ point \in [Attempts -> Points]
    /\ lock = None
    /\ command = [o \in Operators |-> [step |-> "idle", attempt |-> None]]
    /\ failures = 0
    /\ unconfirmed = {}

-----------------------------------------------------------------------------
At(o, step) == command[o].step = step
Attempt(o) == command[o].attempt
Begin(o, a, step) == command' = [command EXCEPT ![o] = [step |-> step, attempt |-> a]]
Go(o, step) == command' = [command EXCEPT ![o].step = step]
End(o) == Go(o, "idle")

(* A record is written once, on top of the phase before it. *)
AppendPhase(o, phase, before) ==
    /\ Current(Attempt(o), before)
    /\ records' = [records EXCEPT ![Attempt(o)] = @ \cup {phase}]

TargetFenced(a) == target[a] = [control |-> "FENCED", generation |-> "source"]

(* The lock is free, or was acquired RECOVERY_JOB_LOCK_STALE_AFTER_MS ago.  *)
LockFree == lock = None \/ LockLapses

(* prepare: the control row is read before the lock is taken. *)
BeginPrepare(o, a) ==
    /\ At(o, "idle") /\ records[a] = {} /\ source = "ACTIVE"
    /\ \A p \in Operators : At(p, "idle") \/ Attempt(p) # a
    /\ Begin(o, a, "locking")
    /\ UNCHANGED <<source, target, objects, records, point, lock, failures, unconfirmed>>

AcquireLock(o) ==
    /\ At(o, "locking") /\ LockFree
    /\ lock' = Attempt(o) /\ Go(o, "preparing")
    /\ UNCHANGED <<source, target, objects, records, point, failures, unconfirmed>>

LockTaken(o) ==
    /\ At(o, "locking") /\ lock # None
    /\ End(o)
    /\ UNCHANGED <<source, target, objects, records, point, lock, failures, unconfirmed>>

WritePrepared(o) ==
    /\ At(o, "preparing")
    /\ records' = [records EXCEPT ![Attempt(o)] = {"PREPARED"}] /\ End(o)
    /\ UNCHANGED <<source, target, objects, point, lock, failures, unconfirmed>>

-----------------------------------------------------------------------------
(* restore-database *)
BeginRestoreAnyPhase(o, a) ==
    /\ At(o, "idle") /\ lock = a
    /\ \/ Current(a, "PREPARED") /\ Begin(o, a, "fencing")
       \/ Recorded(a, "SOURCE_FENCED") /\ Begin(o, a, "dropping")
    /\ UNCHANGED <<source, target, objects, records, point, lock, failures, unconfirmed>>

BeginRestore(o, a) ==
    /\ At(o, "idle") /\ lock = a
    /\ \/ Current(a, "PREPARED") /\ Begin(o, a, "fencing")
       \/ Current(a, "SOURCE_FENCED") /\ Begin(o, a, "dropping")
    /\ UNCHANGED <<source, target, objects, records, point, lock, failures, unconfirmed>>

LeaveSource(o) ==
    /\ At(o, "fencing") /\ Go(o, "recordingFence")
    /\ UNCHANGED <<source, target, objects, records, point, lock, failures, unconfirmed>>

FenceSource(o) ==
    /\ At(o, "fencing")
    /\ source' = "FENCED" /\ Go(o, "recordingFence")
    /\ UNCHANGED <<target, objects, records, point, lock, failures, unconfirmed>>

RecordFence(o) ==
    /\ At(o, "recordingFence")
    /\ AppendPhase(o, "SOURCE_FENCED", "PREPARED") /\ Go(o, "dropping")
    /\ UNCHANGED <<source, target, objects, point, lock, failures, unconfirmed>>

(* What an earlier, unrecorded restore left behind is dropped first. *)
KeepTarget(o) ==
    /\ At(o, "dropping") /\ Go(o, "creating")
    /\ UNCHANGED <<source, target, objects, records, point, lock, failures, unconfirmed>>

RemoveTarget(o) ==
    /\ At(o, "dropping")
    /\ target' = [target EXCEPT ![Attempt(o)] = NoDatabase] /\ Go(o, "creating")
    /\ UNCHANGED <<source, objects, records, point, lock, failures, unconfirmed>>

CreateTarget(o) ==
    /\ At(o, "creating")
    /\ IF target[Attempt(o)] = NoDatabase
       THEN /\ target' = [target EXCEPT ![Attempt(o)].control = "empty"]
            /\ Go(o, "loading")
       ELSE End(o) /\ UNCHANGED target
    /\ UNCHANGED <<source, objects, records, point, lock, failures, unconfirmed>>

(* The dump brings the control row it was taken with. *)
LoadTarget(o) ==
    /\ At(o, "loading")
    /\ target' = [target EXCEPT ![Attempt(o)] =
         IF point[Attempt(o)] = "usable" THEN [control |-> "ACTIVE", generation |-> "source"]
                                         ELSE [control |-> "FENCED", generation |-> "other"]]
    /\ Go(o, "fencingTarget")
    /\ UNCHANGED <<source, objects, records, point, lock, failures, unconfirmed>>

LeaveTarget(o) ==
    /\ At(o, "fencingTarget") /\ point[Attempt(o)] = "usable"
    /\ Go(o, "recordingRestore")
    /\ UNCHANGED <<source, target, objects, records, point, lock, failures, unconfirmed>>

FenceTarget(o) ==
    /\ At(o, "fencingTarget") /\ point[Attempt(o)] = "usable"
    /\ target' = [target EXCEPT ![Attempt(o)].control = "FENCED"] /\ Go(o, "recordingRestore")
    /\ UNCHANGED <<source, objects, records, point, lock, failures, unconfirmed>>

(* "Restored recovery authority does not match the selected source lineage" *)
LineageMismatch(o) ==
    /\ At(o, "fencingTarget") /\ point[Attempt(o)] # "usable"
    /\ Go(o, "cleaning")
    /\ UNCHANGED <<source, target, objects, records, point, lock, failures, unconfirmed>>

RecordRestore(o) ==
    /\ At(o, "recordingRestore")
    /\ AppendPhase(o, "DATABASE_RESTORED", "SOURCE_FENCED") /\ End(o)
    /\ UNCHANGED <<source, target, objects, point, lock, failures, unconfirmed>>

DropTarget(o) ==
    /\ At(o, "cleaning")
    /\ target' = [target EXCEPT ![Attempt(o)] = NoDatabase] /\ End(o)
    /\ UNCHANGED <<source, objects, records, point, lock, failures, unconfirmed>>

-----------------------------------------------------------------------------
(* restore-attachments, also when they were restored before *)
CanCopy(a) == lock = a /\ TargetFenced(a) /\ ~Recorded(a, "ACTIVATED")

BeginAttachments(o, a) ==
    /\ At(o, "idle") /\ Current(a, "DATABASE_RESTORED") /\ CanCopy(a)
    /\ Begin(o, a, "copying")
    /\ UNCHANGED <<source, target, objects, records, point, lock, failures, unconfirmed>>

RepeatAttachments(o, a) ==
    /\ At(o, "idle") /\ Recorded(a, "ATTACHMENTS_RESTORED") /\ CanCopy(a)
    /\ Begin(o, a, "copying")
    /\ UNCHANGED <<source, target, objects, records, point, lock, failures, unconfirmed>>

CopySome(o) ==
    /\ At(o, "copying") /\ objects[Attempt(o)] = "none"
    /\ objects' = [objects EXCEPT ![Attempt(o)] = "some"]
    /\ UNCHANGED <<source, target, records, point, lock, command, failures, unconfirmed>>

CopyRest(o) ==
    /\ At(o, "copying") /\ objects[Attempt(o)] # "none"
    /\ objects' = [objects EXCEPT ![Attempt(o)] = "all"]
    /\ Go(o, IF Recorded(Attempt(o), "ATTACHMENTS_RESTORED") THEN "idle" ELSE "recordingCopy")
    /\ UNCHANGED <<source, target, records, point, lock, failures, unconfirmed>>

RecordCopy(o) ==
    /\ At(o, "recordingCopy")
    /\ AppendPhase(o, "ATTACHMENTS_RESTORED", "DATABASE_RESTORED") /\ End(o)
    /\ UNCHANGED <<source, target, objects, point, lock, failures, unconfirmed>>

-----------------------------------------------------------------------------
(* verify-attempt and approve *)
AttemptVerifies(a) == TargetFenced(a) /\ source = "FENCED" /\ objects[a] = "all"

BeginVerify(o, a) ==
    /\ At(o, "idle") /\ Current(a, "ATTACHMENTS_RESTORED")
    /\ lock = a /\ AttemptVerifies(a)
    /\ Begin(o, a, "recordingVerified")
    /\ UNCHANGED <<source, target, objects, records, point, lock, failures, unconfirmed>>

RecordVerified(o) ==
    /\ At(o, "recordingVerified")
    /\ AppendPhase(o, "VERIFIED", "ATTACHMENTS_RESTORED") /\ End(o)
    /\ UNCHANGED <<source, target, objects, point, lock, failures, unconfirmed>>

BeginApprove(o, a) ==
    /\ At(o, "idle") /\ Current(a, "VERIFIED") /\ lock = a
    /\ Begin(o, a, "recordingApproved")
    /\ UNCHANGED <<source, target, objects, records, point, lock, failures, unconfirmed>>

RecordApproved(o) ==
    /\ At(o, "recordingApproved")
    /\ AppendPhase(o, "APPROVED", "VERIFIED") /\ End(o)
    /\ UNCHANGED <<source, target, objects, point, lock, failures, unconfirmed>>

-----------------------------------------------------------------------------
(* activate: everything is verified again before the target's control row   *)
(* is read, so the branch for a target that is already active needs another *)
(* process to activate it in between.                                       *)
CanActivate(a) == Current(a, "APPROVED") /\ lock = a /\ AttemptVerifies(a)

BeginActivate(o, a) ==
    /\ At(o, "idle") /\ CanActivate(a)
    /\ Begin(o, a, "activating")
    /\ UNCHANGED <<source, target, objects, records, point, lock, failures, unconfirmed>>

ActivateTarget(o) ==
    /\ At(o, "activating") /\ TargetFenced(Attempt(o))
    /\ target' = [target EXCEPT ![Attempt(o)] = [control |-> "ACTIVE", generation |-> "new"]]
    /\ Go(o, "confirming")
    /\ UNCHANGED <<source, objects, records, point, lock, failures, unconfirmed>>

RecordActivated(o) ==
    /\ At(o, "confirming") /\ source = "FENCED"
    /\ AppendPhase(o, "ACTIVATED", "APPROVED") /\ Go(o, "releasing")
    /\ UNCHANGED <<source, target, objects, point, lock, failures, unconfirmed>>

(* abort *)
BeginAbort(o, a) ==
    /\ At(o, "idle") /\ Current(a, "PREPARED")
    /\ lock = a /\ target[a] = NoDatabase
    /\ Begin(o, a, "aborting")
    /\ UNCHANGED <<source, target, objects, records, point, lock, failures, unconfirmed>>

RecordAborted(o) ==
    /\ At(o, "aborting")
    /\ AppendPhase(o, "ABORTED", "PREPARED") /\ Go(o, "releasing")
    /\ UNCHANGED <<source, target, objects, point, lock, failures, unconfirmed>>

(* Repeating a command that reached its end releases the lock it left. *)
ReleaseAgain(o, a) ==
    /\ At(o, "idle") /\ lock = a
    /\ Recorded(a, "ACTIVATED") \/ Recorded(a, "ABORTED")
    /\ Begin(o, a, "releasing")
    /\ UNCHANGED <<source, target, objects, records, point, lock, failures, unconfirmed>>

ReleaseLock(o) ==
    /\ At(o, "releasing")
    /\ lock' = IF lock = Attempt(o) THEN None ELSE lock
    /\ End(o)
    /\ UNCHANGED <<source, target, objects, records, point, failures, unconfirmed>>

-----------------------------------------------------------------------------
(* A process dies, as it also ends when the condition of its next step does *)
(* not hold any more; or a step fails and the handler of the command runs.     *)
Crash(o) ==
    /\ ~At(o, "idle") /\ failures < MaxFailures
    /\ End(o) /\ failures' = failures + 1
    /\ UNCHANGED <<source, target, objects, records, point, lock, unconfirmed>>

RestoreFails(o) ==
    /\ command[o].step \in {"loading", "fencingTarget", "recordingRestore"}
    /\ failures < MaxFailures
    /\ Go(o, "cleaning") /\ failures' = failures + 1
    /\ UNCHANGED <<source, target, objects, records, point, lock, unconfirmed>>

PrepareFails(o) ==
    /\ At(o, "preparing") /\ failures < MaxFailures
    /\ Go(o, "releasing") /\ failures' = failures + 1
    /\ UNCHANGED <<source, target, objects, records, point, lock, unconfirmed>>

(* The storage keeps a record although its writer fails: the answer, or the *)
(* reading back that ends a write, is lost. The handler runs all the same.  *)
RestoreUnconfirmed(o) ==
    /\ At(o, "recordingRestore") /\ failures < MaxFailures
    /\ AppendPhase(o, "DATABASE_RESTORED", "SOURCE_FENCED") /\ Go(o, "cleaning")
    /\ failures' = failures + 1 /\ unconfirmed' = unconfirmed \cup {Attempt(o)}
    /\ UNCHANGED <<source, target, objects, point, lock>>

PrepareUnconfirmed(o) ==
    /\ At(o, "preparing") /\ failures < MaxFailures
    /\ records' = [records EXCEPT ![Attempt(o)] = {"PREPARED"}] /\ Go(o, "releasing")
    /\ failures' = failures + 1
    /\ UNCHANGED <<source, target, objects, point, lock, unconfirmed>>

(* The job that creates recovery points runs under the same lock.           *)
JobAcquires ==
    /\ LockFree /\ lock # "job"
    /\ lock' = "job"
    /\ UNCHANGED <<source, target, objects, records, point, command, failures, unconfirmed>>

JobReleases ==
    /\ lock = "job" /\ lock' = None
    /\ UNCHANGED <<source, target, objects, records, point, command, failures, unconfirmed>>

-----------------------------------------------------------------------------
(* The next phase of an attempt, begun at an idle console. *)
Advance(o) ==
    \E a \in Attempts :
        \/ BeginRestore(o, a)
        \/ BeginAttachments(o, a)
        \/ BeginVerify(o, a)
        \/ BeginApprove(o, a)
        \/ BeginActivate(o, a)
        \/ ReleaseAgain(o, a)

(* The command under way goes on. *)
Continue(o) ==
    \/ AcquireLock(o) \/ LockTaken(o) \/ WritePrepared(o)
    \/ FenceSource(o) \/ RecordFence(o) \/ RemoveTarget(o) \/ CreateTarget(o)
    \/ LoadTarget(o) \/ FenceTarget(o) \/ LineageMismatch(o)
    \/ RecordRestore(o) \/ DropTarget(o)
    \/ CopySome(o) \/ CopyRest(o) \/ RecordCopy(o)
    \/ RecordVerified(o) \/ RecordApproved(o)
    \/ ActivateTarget(o) \/ RecordActivated(o) \/ RecordAborted(o) \/ ReleaseLock(o)

Fail(o) ==
    \/ Crash(o) \/ RestoreFails(o) \/ PrepareFails(o)
    \/ RestoreUnconfirmed(o) \/ PrepareUnconfirmed(o)

Next ==
    \/ \E o \in Operators :
         \/ \E a \in Attempts :
              BeginPrepare(o, a) \/ RepeatAttachments(o, a) \/ BeginAbort(o, a)
         \/ Advance(o)
         \/ Continue(o)
         \/ Fail(o)
    \/ JobAcquires
    \/ JobReleases

Spec == Init /\ [][Next]_vars

(* The operator repeats the next command until it succeeds. *)
FairSpec ==
    Spec /\ \A o \in Operators : WF_vars(Continue(o)) /\ SF_vars(Advance(o))

-----------------------------------------------------------------------------
(* Properties *)

TypeOK ==
    /\ source \in {"ACTIVE", "FENCED"}
    /\ target \in [Attempts -> Database]
    /\ objects \in [Attempts -> {"none", "some", "all"}]
    /\ records \in [Attempts -> SUBSET Phases]
    /\ point \in [Attempts -> Points]
    /\ lock \in Attempts \cup {None, "job"}
    /\ command \in [Operators -> [step : Steps, attempt : Attempts \cup {None}]]
    /\ failures \in 0 .. MaxFailures
    /\ unconfirmed \subseteq Attempts

(* Whatever crashes and is repeated, at most one database accepts writes    *)
(* (recovery-execution.ts:142, :381).                                       *)
OneWritableAuthority ==
    /\ Cardinality({a \in Attempts : target[a].control = "ACTIVE"}) <= 1
    /\ source = "ACTIVE" => \A a \in Attempts : target[a].control # "ACTIVE"

(* A record is evidence as long as it counts: what the chain of an attempt  *)
(* says was fenced, restored and copied is there, and what serves the       *)
(* platform was approved and is whole (recovery-execution.ts:437). A record *)
(* of a restore whose writer failed is none: its database is dropped (:231). *)
Lost(a) == a \in unconfirmed /\ target[a] = NoDatabase
Evidence(a) ==
    /\ Recorded(a, "SOURCE_FENCED") => source = "FENCED" /\ ~Recorded(a, "ABORTED")
    /\ Recorded(a, "DATABASE_RESTORED") =>
         TargetFenced(a) \/ target[a].generation = "new" \/ Lost(a)
    /\ Recorded(a, "ATTACHMENTS_RESTORED") => objects[a] = "all"
    /\ target[a].generation = "new" => Reached(a, 6)
    /\ Recorded(a, "ACTIVATED") => target[a].generation = "new"
RecordsAreEvidence == \A a \in Attempts : Evidence(a)

(* What holds at every step, so that a record written at the end of a       *)
(* command is true: the steps of a restore know the source fenced and the   *)
(* attempt neither restored nor aborted, the later ones that their target   *)
(* waits fenced; and no other attempt holds the lock meanwhile.             *)
Restoring(o) == command[o].step \in
    {"dropping", "creating", "loading", "fencingTarget", "recordingRestore", "cleaning"}
Knows(o) ==
    /\ ~At(o, "idle") => Attempt(o) \in Attempts
    /\ At(o, "locking") \/ At(o, "preparing") =>
         records[Attempt(o)] = {} /\ source = "ACTIVE"
    /\ At(o, "fencing") \/ At(o, "recordingFence") \/ At(o, "aborting") =>
         Current(Attempt(o), "PREPARED")
    /\ At(o, "recordingFence") \/ Restoring(o) => source = "FENCED"
    /\ ~At(o, "idle") /\ ~At(o, "locking") => lock \in {Attempt(o), None, "job"}
    /\ Restoring(o) =>
         \/ Current(Attempt(o), "SOURCE_FENCED")
         \/ /\ At(o, "cleaning") /\ Attempt(o) \in unconfirmed
            /\ Current(Attempt(o), "DATABASE_RESTORED")
    /\ At(o, "fencingTarget") /\ point[Attempt(o)] = "usable" =>
         target[Attempt(o)] = [control |-> "ACTIVE", generation |-> "source"]
    /\ At(o, "recordingRestore") => TargetFenced(Attempt(o))
    /\ At(o, "copying") =>
         TargetFenced(Attempt(o)) /\ Recorded(Attempt(o), "DATABASE_RESTORED")
    /\ At(o, "recordingCopy") =>
         objects[Attempt(o)] = "all" /\ Current(Attempt(o), "DATABASE_RESTORED")
    /\ At(o, "activating") => Current(Attempt(o), "APPROVED")
    /\ At(o, "confirming") =>
         target[Attempt(o)].generation = "new" /\ Current(Attempt(o), "APPROVED")
StepsKnow == \A o \in Operators : Knows(o)

(* A target beyond an empty database belongs to an attempt that has fenced  *)
(* the source; there is one such attempt, and no other gets the lock.       *)
OneFence ==
    /\ \A a \in Attempts : target[a].control \in {"ACTIVE", "FENCED"} =>
         Recorded(a, "SOURCE_FENCED")
    /\ \A a, b \in Attempts : Recorded(b, "SOURCE_FENCED") /\ a # b =>
         /\ ~Recorded(a, "SOURCE_FENCED") /\ lock # a
         /\ \A o \in Operators : At(o, "idle") \/ Attempt(o) # a

ChainIsClosed ==
    \A a \in Attempts : \A i \in 1 .. 6 : Recorded(a, Order[i + 1]) => Recorded(a, Order[i])

IInv == TypeOK /\ RecordsAreEvidence /\ StepsKnow /\ OneFence /\ ChainIsClosed

(* A database that serves the platform is never dropped or restored over    *)
(* (recovery-execution.ts:156).                                             *)
ServedIsKept ==
    [][\A a \in Attempts : target[a].generation = "new" => target'[a] = target[a]]_vars

(* However often restoring crashes or fails, an attempt whose source is     *)
(* fenced and whose recovery point is of the source's lineage gets to a     *)
(* serving target, unless the record of the restore outlived its writer:    *)
(* that one is stuck (recovery-execution.ts:156, :231).                     *)
Serves(a) == target[a] = [control |-> "ACTIVE", generation |-> "new"]
FencedIsServedAgain ==
    \A a \in Attempts :
        Recorded(a, "SOURCE_FENCED") /\ point[a] = "usable"
            ~> Serves(a) \/ lock # a \/ Lost(a)

(* The orchestration is restartable: once the target serves, repeating      *)
(* activate records the activation and frees the lock                       *)
(* (recovery-execution.ts:363).                                             *)
ActivationIsRestartable ==
    \A a \in Attempts : Serves(a) ~> Recorded(a, "ACTIVATED") \/ lock # a
=============================================================================
