--------------------------- MODULE RecoveryProofs ---------------------------
(* Proofs about RecoveryExecution and RecoveryFencing. The restore keeps its *)
(* invariants for any attempts, any recovery points and any number of        *)
(* failures, as long as the commands are entered at one console. The         *)
(* inductive invariant is IInv: that a record is evidence follows from what  *)
(* every step of a command knows, and that no second attempt gets between    *)
(* follows from the one fence and the job lock. The write gate keeps its own *)
(* for any requests and bounds: FencingIInv, at the end of the module.       *)
EXTENDS RecoveryFencing, RecoveryExecution, FiniteSetTheorems, TLAPS

(* One console: a command ends before the next one begins.                  *)
OneConsole == \A o, p \in Operators : o = p

-----------------------------------------------------------------------------
(* What the order of the phases comes to, phase by phase.                   *)
LEMMA OrderIs ==
    /\ DOMAIN Order = 1 .. 7
    /\ Order[1] = "PREPARED" /\ Order[2] = "SOURCE_FENCED"
    /\ Order[3] = "DATABASE_RESTORED" /\ Order[4] = "ATTACHMENTS_RESTORED"
    /\ Order[5] = "VERIFIED" /\ Order[6] = "APPROVED" /\ Order[7] = "ACTIVATED"
BY DEF Order

(* The phases, listed.                                                     *)
LEMMA PhasesAre ==
    Phases = {"PREPARED", "SOURCE_FENCED", "DATABASE_RESTORED", "ATTACHMENTS_RESTORED",
              "VERIFIED", "APPROVED", "ACTIVATED", "ABORTED"}
<1>1. 1 .. 7 = {1, 2, 3, 4, 5, 6, 7}
  OBVIOUS
<1> QED
  BY <1>1, OrderIs DEF Phases

(* The current phase of an attempt is the recorded one without a successor. *)
LEMMA CurrentIs ==
    ASSUME NEW a
    PROVE  /\ Current(a, "PREPARED") <=>
                Recorded(a, "PREPARED") /\ ~Recorded(a, "ABORTED")
                /\ ~Recorded(a, "SOURCE_FENCED")
           /\ Current(a, "SOURCE_FENCED") <=>
                Recorded(a, "SOURCE_FENCED") /\ ~Recorded(a, "DATABASE_RESTORED")
           /\ Current(a, "DATABASE_RESTORED") <=>
                Recorded(a, "DATABASE_RESTORED") /\ ~Recorded(a, "ATTACHMENTS_RESTORED")
           /\ Current(a, "ATTACHMENTS_RESTORED") <=>
                Recorded(a, "ATTACHMENTS_RESTORED") /\ ~Recorded(a, "VERIFIED")
           /\ Current(a, "VERIFIED") <=>
                Recorded(a, "VERIFIED") /\ ~Recorded(a, "APPROVED")
           /\ Current(a, "APPROVED") <=>
                Recorded(a, "APPROVED") /\ ~Recorded(a, "ACTIVATED")
<1>1. 1 .. 6 = {1, 2, 3, 4, 5, 6}
  OBVIOUS
<1>2. /\ Order[1 + 1] = "SOURCE_FENCED" /\ Order[2 + 1] = "DATABASE_RESTORED"
      /\ Order[3 + 1] = "ATTACHMENTS_RESTORED" /\ Order[4 + 1] = "VERIFIED"
      /\ Order[5 + 1] = "APPROVED" /\ Order[6 + 1] = "ACTIVATED"
  BY OrderIs
<1> QED
  BY <1>1, <1>2, OrderIs DEF Current

(* A closed chain has no gaps.                                              *)
Closed(R) ==
    /\ "SOURCE_FENCED" \in R => "PREPARED" \in R
    /\ "DATABASE_RESTORED" \in R => "SOURCE_FENCED" \in R
    /\ "ATTACHMENTS_RESTORED" \in R => "DATABASE_RESTORED" \in R
    /\ "VERIFIED" \in R => "ATTACHMENTS_RESTORED" \in R
    /\ "APPROVED" \in R => "VERIFIED" \in R
    /\ "ACTIVATED" \in R => "APPROVED" \in R

(* ChainIsClosed says that every chain is closed.                          *)
LEMMA ChainIs == ChainIsClosed <=> \A a \in Attempts : Closed(records[a])
<1>1. 1 .. 6 = {1, 2, 3, 4, 5, 6}
  OBVIOUS
<1>2. /\ Order[1 + 1] = "SOURCE_FENCED" /\ Order[2 + 1] = "DATABASE_RESTORED"
      /\ Order[3 + 1] = "ATTACHMENTS_RESTORED" /\ Order[4 + 1] = "VERIFIED"
      /\ Order[5 + 1] = "APPROVED" /\ Order[6 + 1] = "ACTIVATED"
  BY OrderIs
<1> QED
  BY <1>1, <1>2, OrderIs DEF ChainIsClosed, Closed, Recorded

(* An approved attempt has every phase up to APPROVED.                     *)
LEMMA ReachedIs ==
    ASSUME NEW a
    PROVE  Reached(a, 6) <=>
             /\ Recorded(a, "PREPARED") /\ Recorded(a, "SOURCE_FENCED")
             /\ Recorded(a, "DATABASE_RESTORED") /\ Recorded(a, "ATTACHMENTS_RESTORED")
             /\ Recorded(a, "VERIFIED") /\ Recorded(a, "APPROVED")
<1>1. 1 .. 6 = {1, 2, 3, 4, 5, 6}
  OBVIOUS
<1> QED
  BY <1>1, OrderIs DEF Reached

(* The same, gathered so that a proof of a step cites them on both sides.   *)
PhaseFacts ==
    /\ \A a : /\ Current(a, "PREPARED") <=>
                 Recorded(a, "PREPARED") /\ ~Recorded(a, "ABORTED")
                 /\ ~Recorded(a, "SOURCE_FENCED")
              /\ Current(a, "SOURCE_FENCED") <=>
                 Recorded(a, "SOURCE_FENCED") /\ ~Recorded(a, "DATABASE_RESTORED")
              /\ Current(a, "DATABASE_RESTORED") <=>
                 Recorded(a, "DATABASE_RESTORED") /\ ~Recorded(a, "ATTACHMENTS_RESTORED")
              /\ Current(a, "ATTACHMENTS_RESTORED") <=>
                 Recorded(a, "ATTACHMENTS_RESTORED") /\ ~Recorded(a, "VERIFIED")
              /\ Current(a, "VERIFIED") <=>
                 Recorded(a, "VERIFIED") /\ ~Recorded(a, "APPROVED")
              /\ Current(a, "APPROVED") <=>
                 Recorded(a, "APPROVED") /\ ~Recorded(a, "ACTIVATED")
    /\ \A a : Reached(a, 6) <=>
             /\ Recorded(a, "PREPARED") /\ Recorded(a, "SOURCE_FENCED")
             /\ Recorded(a, "DATABASE_RESTORED") /\ Recorded(a, "ATTACHMENTS_RESTORED")
             /\ Recorded(a, "VERIFIED") /\ Recorded(a, "APPROVED")
    /\ ChainIsClosed <=> \A a \in Attempts : Closed(records[a])

(* Holds in every state, so also after a step.                              *)
LEMMA PhaseFactsHold == PhaseFacts
BY CurrentIs, ReachedIs, ChainIs DEF PhaseFacts

(* And so after any step.                                                   *)
LEMMA PhaseFactsNext == PhaseFacts'
BY PhaseFactsHold, PTL

-----------------------------------------------------------------------------
(* With one console there is one command, and what it knows is all that     *)
(* StepsKnow says.                                                          *)
LEMMA OneCommand ==
    ASSUME OneConsole, IInv, NEW o \in Operators
    PROVE  Knows(o) /\ \A p \in Operators : p = o
BY DEF OneConsole, IInv, StepsKnow

(* A step that leaves the databases, the attachments and the records alone  *)
(* leaves every record true.                                                *)
LEMMA EvidenceStands ==
    ASSUME RecordsAreEvidence, UNCHANGED <<source, target, objects, records, unconfirmed>>
    PROVE  RecordsAreEvidence'
BY PhaseFactsHold, PhaseFactsNext
   DEF PhaseFacts, RecordsAreEvidence, Evidence, Recorded, Lost, TargetFenced

(* Chains change only with the records.                                     *)
LEMMA ChainStands == ASSUME ChainIsClosed, UNCHANGED records PROVE ChainIsClosed'
BY DEF ChainIsClosed, Recorded

(* A step of the one console keeps IInv when it keeps its parts and what    *)
(* its own command knows.                                                   *)
LEMMA StepKeeps ==
    ASSUME OneConsole, NEW o \in Operators,
           TypeOK', RecordsAreEvidence', Knows(o)', OneFence', ChainIsClosed'
    PROVE  IInv'
BY DEF OneConsole, IInv, StepsKnow

-----------------------------------------------------------------------------
(* prepare and the job lock                                                 *)

(* A new attempt has no records; the source was just read as active.        *)
LEMMA BeginPrepareKeeps ==
    ASSUME OneConsole, IInv, NEW o \in Operators, NEW a \in Attempts, BeginPrepare(o, a)
    PROVE  IInv'
<1> USE OneCommand, RecoveryAssumption
    DEF IInv, TypeOK, Knows, Restoring, Recorded, Closed, BeginPrepare, At, Attempt,
        Begin
<1>1. TypeOK'
  BY DEF Steps
<1> USE PhaseFactsHold, PhaseFactsNext DEF PhaseFacts
<1>2. RecordsAreEvidence'
  BY EvidenceStands
<1>3. Knows(o)'
  BY DEF RecordsAreEvidence, Evidence, OneFence, Lost, NoDatabase, TargetFenced
<1>4. OneFence'
  BY DEF RecordsAreEvidence, Evidence, OneFence, NoDatabase
<1>5. ChainIsClosed'
  BY ChainStands
<1> QED
  BY <1>1, <1>2, <1>3, <1>4, <1>5, StepKeeps

(* The source is still active, so no attempt is past its fence.             *)
LEMMA AcquireLockKeeps ==
    ASSUME OneConsole, IInv, NEW o \in Operators, AcquireLock(o)
    PROVE  IInv'
<1> USE OneCommand, RecoveryAssumption
    DEF IInv, TypeOK, Knows, Restoring, Recorded, Closed, AcquireLock, At, Attempt,
        Go, LockFree
<1>1. TypeOK'
  BY DEF Steps
<1> USE PhaseFactsHold, PhaseFactsNext DEF PhaseFacts
<1>2. RecordsAreEvidence'
  BY EvidenceStands
<1>3. Knows(o)'
  BY DEF RecordsAreEvidence, Evidence, OneFence, Lost, NoDatabase, TargetFenced
<1>4. OneFence'
  BY DEF RecordsAreEvidence, Evidence, OneFence, NoDatabase
<1>5. ChainIsClosed'
  BY ChainStands
<1> QED
  BY <1>1, <1>2, <1>3, <1>4, <1>5, StepKeeps

(* The command ends and leaves everything as it was.                        *)
LEMMA LockTakenKeeps ==
    ASSUME OneConsole, IInv, NEW o \in Operators, LockTaken(o)
    PROVE  IInv'
<1> USE OneCommand, RecoveryAssumption
    DEF IInv, TypeOK, Knows, Restoring, Recorded, Closed, LockTaken, At, End, Go,
        Attempt
<1>1. TypeOK'
  BY DEF Steps
<1> USE PhaseFactsHold, PhaseFactsNext DEF PhaseFacts
<1>2. RecordsAreEvidence'
  BY EvidenceStands
<1>3. Knows(o)'
  BY DEF RecordsAreEvidence, Evidence, OneFence, Lost, NoDatabase, TargetFenced
<1>4. OneFence'
  BY DEF RecordsAreEvidence, Evidence, OneFence, NoDatabase
<1>5. ChainIsClosed'
  BY ChainStands
<1> QED
  BY <1>1, <1>2, <1>3, <1>4, <1>5, StepKeeps

(* The first record of the attempt is only that it was prepared.            *)
LEMMA WritePreparedKeeps ==
    ASSUME OneConsole, IInv, NEW o \in Operators, WritePrepared(o)
    PROVE  IInv'
<1> USE OneCommand, RecoveryAssumption
    DEF IInv, TypeOK, Knows, Restoring, Recorded, Closed, WritePrepared, At,
        Attempt, End, Go
<1>1. TypeOK'
  BY PhasesAre DEF Steps
<1> USE PhaseFactsHold, PhaseFactsNext DEF PhaseFacts
<1>2. RecordsAreEvidence'
  BY DEF RecordsAreEvidence, Evidence, Lost, NoDatabase, TargetFenced
<1>3. Knows(o)'
  BY DEF RecordsAreEvidence, Evidence, OneFence, Lost, NoDatabase, TargetFenced
<1>4. OneFence'
  BY DEF RecordsAreEvidence, Evidence, OneFence, NoDatabase
<1>5. ChainIsClosed'
  OBVIOUS
<1> QED
  BY <1>1, <1>2, <1>3, <1>4, <1>5, StepKeeps

(* Releasing knows nothing but the attempt it is about.                     *)
LEMMA ReleaseAgainKeeps ==
    ASSUME OneConsole, IInv, NEW o \in Operators, NEW a \in Attempts, ReleaseAgain(o, a)
    PROVE  IInv'
<1> USE OneCommand, RecoveryAssumption
    DEF IInv, TypeOK, Knows, Restoring, Recorded, Closed, ReleaseAgain, At, Begin,
        Attempt
<1>1. TypeOK'
  BY DEF Steps
<1> USE PhaseFactsHold, PhaseFactsNext DEF PhaseFacts
<1>2. RecordsAreEvidence'
  BY EvidenceStands
<1>3. Knows(o)'
  BY DEF RecordsAreEvidence, Evidence, OneFence, Lost, NoDatabase, TargetFenced
<1>4. OneFence'
  BY DEF RecordsAreEvidence, Evidence, OneFence, NoDatabase
<1>5. ChainIsClosed'
  BY ChainStands
<1> QED
  BY <1>1, <1>2, <1>3, <1>4, <1>5, StepKeeps

(* A lock of this attempt becomes free, another's stays.                    *)
LEMMA ReleaseLockKeeps ==
    ASSUME OneConsole, IInv, NEW o \in Operators, ReleaseLock(o)
    PROVE  IInv'
<1> USE OneCommand, RecoveryAssumption
    DEF IInv, TypeOK, Knows, Restoring, Recorded, Closed, ReleaseLock, At, Attempt,
        End, Go
<1>1. TypeOK'
  BY DEF Steps
<1> USE PhaseFactsHold, PhaseFactsNext DEF PhaseFacts
<1>2. RecordsAreEvidence'
  BY EvidenceStands
<1>3. Knows(o)'
  BY DEF RecordsAreEvidence, Evidence, OneFence, Lost, NoDatabase, TargetFenced
<1>4. OneFence'
  BY DEF RecordsAreEvidence, Evidence, OneFence, NoDatabase
<1>5. ChainIsClosed'
  BY ChainStands
<1> QED
  BY <1>1, <1>2, <1>3, <1>4, <1>5, StepKeeps

-----------------------------------------------------------------------------
(* restore-database                                                         *)

(* Before the fence the attempt is prepared, after it not yet restored.     *)
LEMMA BeginRestoreKeeps ==
    ASSUME OneConsole, IInv, NEW o \in Operators, NEW a \in Attempts, BeginRestore(o, a)
    PROVE  IInv'
<1> USE OneCommand, RecoveryAssumption
    DEF IInv, TypeOK, Knows, Restoring, Recorded, Closed, BeginRestore, At, Begin,
        Attempt
<1>1. TypeOK'
  BY DEF Steps
<1> USE PhaseFactsHold, PhaseFactsNext DEF PhaseFacts
<1>2. RecordsAreEvidence'
  BY EvidenceStands
<1>3. Knows(o)'
  BY DEF RecordsAreEvidence, Evidence, OneFence, Lost, NoDatabase, TargetFenced
<1>4. OneFence'
  BY DEF RecordsAreEvidence, Evidence, OneFence, NoDatabase
<1>5. ChainIsClosed'
  BY ChainStands
<1> QED
  BY <1>1, <1>2, <1>3, <1>4, <1>5, StepKeeps

(* Fencing makes what SOURCE_FENCED will say true before it is recorded.    *)
LEMMA FenceSourceKeeps ==
    ASSUME OneConsole, IInv, NEW o \in Operators, FenceSource(o)
    PROVE  IInv'
<1> USE OneCommand, RecoveryAssumption
    DEF IInv, TypeOK, Knows, Restoring, Recorded, Closed, FenceSource, At, Go,
        Attempt
<1>1. TypeOK'
  BY DEF Steps
<1> USE PhaseFactsHold, PhaseFactsNext DEF PhaseFacts
<1>2. RecordsAreEvidence'
  BY DEF RecordsAreEvidence, Evidence, Lost, NoDatabase, TargetFenced
<1>3. Knows(o)'
  BY DEF RecordsAreEvidence, Evidence, OneFence, Lost, NoDatabase, TargetFenced
<1>4. OneFence'
  BY DEF RecordsAreEvidence, Evidence, OneFence, NoDatabase
<1>5. ChainIsClosed'
  BY ChainStands
<1> QED
  BY <1>1, <1>2, <1>3, <1>4, <1>5, StepKeeps

(* The first attempt to record its fence: any other would hold the lock.    *)
LEMMA RecordFenceKeeps ==
    ASSUME OneConsole, IInv, NEW o \in Operators, RecordFence(o)
    PROVE  IInv'
<1> USE OneCommand, RecoveryAssumption
    DEF IInv, TypeOK, Knows, Restoring, Recorded, Closed, RecordFence, At, Go,
        AppendPhase, Attempt
<1>1. TypeOK'
  BY PhasesAre DEF Steps
<1> USE PhaseFactsHold, PhaseFactsNext DEF PhaseFacts
<1>2. RecordsAreEvidence'
  BY DEF RecordsAreEvidence, Evidence, Lost, NoDatabase, TargetFenced
<1>3. Knows(o)'
  BY DEF RecordsAreEvidence, Evidence, OneFence, Lost, NoDatabase, TargetFenced
<1>4. OneFence'
  BY DEF RecordsAreEvidence, Evidence, OneFence, NoDatabase
<1>5. ChainIsClosed'
  OBVIOUS
<1> QED
  BY <1>1, <1>2, <1>3, <1>4, <1>5, StepKeeps

(* The target dropped is one that no record speaks of.                      *)
LEMMA RemoveTargetKeeps ==
    ASSUME OneConsole, IInv, NEW o \in Operators, RemoveTarget(o)
    PROVE  IInv'
<1> USE OneCommand, RecoveryAssumption
    DEF IInv, TypeOK, Knows, Restoring, Recorded, Closed, RemoveTarget, At, Attempt,
        Go
<1>1. TypeOK'
  <2>1. target' \in [Attempts -> Database]
    BY DEF Database, NoDatabase
  <2>2. command' \in [Operators -> [step : Steps, attempt : Attempts \cup {None}]]
    BY DEF Steps
  <2> QED
    BY <2>1, <2>2
<1> USE PhaseFactsHold, PhaseFactsNext DEF PhaseFacts
<1>2. RecordsAreEvidence'
  BY DEF RecordsAreEvidence, Evidence, Lost, NoDatabase, TargetFenced
<1>3. Knows(o)'
  BY DEF RecordsAreEvidence, Evidence, OneFence, Lost, NoDatabase, TargetFenced
<1>4. OneFence'
  BY DEF RecordsAreEvidence, Evidence, OneFence, NoDatabase
<1>5. ChainIsClosed'
  BY ChainStands
<1> QED
  BY <1>1, <1>2, <1>3, <1>4, <1>5, StepKeeps

(* An empty target is no authority yet.                                     *)
LEMMA CreateTargetKeeps ==
    ASSUME OneConsole, IInv, NEW o \in Operators, CreateTarget(o)
    PROVE  IInv'
<1> USE OneCommand, RecoveryAssumption
    DEF IInv, TypeOK, Knows, Restoring, Recorded, Closed, CreateTarget, At, Attempt,
        Go, End
<1>1. TypeOK'
  <2>1. target' \in [Attempts -> Database]
    <3>1. CASE target[Attempt(o)] = NoDatabase
      <4>1. target' = [target EXCEPT ![Attempt(o)].control = "empty"]
        BY <3>1
      <4> QED
        BY <4>1 DEF Database
    <3>2. CASE target[Attempt(o)] # NoDatabase
      BY <3>2
    <3> QED
      BY <3>1, <3>2
  <2>2. command' \in [Operators -> [step : Steps, attempt : Attempts \cup {None}]]
    <3>1. \/ command' = [command EXCEPT ![o].step = "loading"]
          \/ command' = [command EXCEPT ![o].step = "idle"]
      OBVIOUS
    <3> QED
      BY <3>1 DEF Steps
  <2> QED
    BY <2>1, <2>2
<1> USE PhaseFactsHold, PhaseFactsNext DEF PhaseFacts
<1>2. RecordsAreEvidence'
  BY DEF RecordsAreEvidence, Evidence, Lost, NoDatabase, TargetFenced
<1>3. Knows(o)'
  BY DEF RecordsAreEvidence, Evidence, OneFence, Lost, NoDatabase, TargetFenced
<1>4. OneFence'
  BY DEF RecordsAreEvidence, Evidence, OneFence, NoDatabase
<1>5. ChainIsClosed'
  BY ChainStands
<1> QED
  BY <1>1, <1>2, <1>3, <1>4, <1>5, StepKeeps

(* The target is active for a moment, behind the fence of its attempt.      *)
LEMMA LoadTargetKeeps ==
    ASSUME OneConsole, IInv, NEW o \in Operators, LoadTarget(o)
    PROVE  IInv'
<1> USE OneCommand, RecoveryAssumption
    DEF IInv, TypeOK, Knows, Restoring, Recorded, Closed, LoadTarget, At, Attempt,
        Go
<1>1. TypeOK'
  <2>1. target' \in [Attempts -> Database]
    BY DEF Database, NoDatabase
  <2>2. command' \in [Operators -> [step : Steps, attempt : Attempts \cup {None}]]
    BY DEF Steps
  <2> QED
    BY <2>1, <2>2
<1> USE PhaseFactsHold, PhaseFactsNext DEF PhaseFacts
<1>2. RecordsAreEvidence'
  BY DEF RecordsAreEvidence, Evidence, Lost, NoDatabase, TargetFenced
<1>3. Knows(o)'
  BY DEF RecordsAreEvidence, Evidence, OneFence, Lost, NoDatabase, TargetFenced
<1>4. OneFence'
  BY DEF RecordsAreEvidence, Evidence, OneFence, NoDatabase
<1>5. ChainIsClosed'
  BY ChainStands
<1> QED
  BY <1>1, <1>2, <1>3, <1>4, <1>5, StepKeeps

(* The target of a usable point is now what DATABASE_RESTORED will say.     *)
LEMMA FenceTargetKeeps ==
    ASSUME OneConsole, IInv, NEW o \in Operators, FenceTarget(o)
    PROVE  IInv'
<1> USE OneCommand, RecoveryAssumption
    DEF IInv, TypeOK, Knows, Restoring, Recorded, Closed, FenceTarget, At, Attempt,
        Go
<1>1. TypeOK'
  <2>1. target' = [target EXCEPT ![Attempt(o)].control = "FENCED"]
    OBVIOUS
  <2>2. target' \in [Attempts -> Database]
    BY <2>1 DEF Database
  <2>3. command' \in [Operators -> [step : Steps, attempt : Attempts \cup {None}]]
    BY DEF Steps
  <2> QED
    BY <2>2, <2>3
<1> USE PhaseFactsHold, PhaseFactsNext DEF PhaseFacts
<1>2. RecordsAreEvidence'
  BY DEF RecordsAreEvidence, Evidence, Lost, NoDatabase, TargetFenced
<1>3. Knows(o)'
  BY DEF RecordsAreEvidence, Evidence, OneFence, Lost, NoDatabase, TargetFenced
<1>4. OneFence'
  BY DEF RecordsAreEvidence, Evidence, OneFence, NoDatabase
<1>5. ChainIsClosed'
  BY ChainStands
<1> QED
  BY <1>1, <1>2, <1>3, <1>4, <1>5, StepKeeps

(* A target of another lineage is about to be dropped, unrecorded.          *)
LEMMA LineageMismatchKeeps ==
    ASSUME OneConsole, IInv, NEW o \in Operators, LineageMismatch(o)
    PROVE  IInv'
<1> USE OneCommand, RecoveryAssumption
    DEF IInv, TypeOK, Knows, Restoring, Recorded, Closed, LineageMismatch, At,
        Attempt, Go
<1>1. TypeOK'
  BY DEF Steps
<1> USE PhaseFactsHold, PhaseFactsNext DEF PhaseFacts
<1>2. RecordsAreEvidence'
  BY EvidenceStands
<1>3. Knows(o)'
  BY DEF RecordsAreEvidence, Evidence, OneFence, Lost, NoDatabase, TargetFenced
<1>4. OneFence'
  BY DEF RecordsAreEvidence, Evidence, OneFence, NoDatabase
<1>5. ChainIsClosed'
  BY ChainStands
<1> QED
  BY <1>1, <1>2, <1>3, <1>4, <1>5, StepKeeps

(* The restore recorded is the target that waits fenced.                    *)
LEMMA RecordRestoreKeeps ==
    ASSUME OneConsole, IInv, NEW o \in Operators, RecordRestore(o)
    PROVE  IInv'
<1> USE OneCommand, RecoveryAssumption
    DEF IInv, TypeOK, Knows, Restoring, Recorded, Closed, RecordRestore, At, End,
        AppendPhase, Go, Attempt
<1>1. TypeOK'
  BY PhasesAre DEF Steps
<1> USE PhaseFactsHold, PhaseFactsNext DEF PhaseFacts
<1>2. RecordsAreEvidence'
  BY DEF RecordsAreEvidence, Evidence, Lost, NoDatabase, TargetFenced
<1>3. Knows(o)'
  BY DEF RecordsAreEvidence, Evidence, OneFence, Lost, NoDatabase, TargetFenced
<1>4. OneFence'
  BY DEF RecordsAreEvidence, Evidence, OneFence, NoDatabase
<1>5. ChainIsClosed'
  OBVIOUS
<1> QED
  BY <1>1, <1>2, <1>3, <1>4, <1>5, StepKeeps

(* Only a restore that was not recorded, or by a write that failed, goes.   *)
LEMMA DropTargetKeeps ==
    ASSUME OneConsole, IInv, NEW o \in Operators, DropTarget(o)
    PROVE  IInv'
<1> USE OneCommand, RecoveryAssumption
    DEF IInv, TypeOK, Knows, Restoring, Recorded, Closed, DropTarget, At, Attempt,
        End, Go
<1>1. TypeOK'
  <2>1. target' \in [Attempts -> Database]
    BY DEF Database, NoDatabase
  <2>2. command' \in [Operators -> [step : Steps, attempt : Attempts \cup {None}]]
    BY DEF Steps
  <2> QED
    BY <2>1, <2>2
<1> USE PhaseFactsHold, PhaseFactsNext DEF PhaseFacts
<1>2. RecordsAreEvidence'
  BY DEF RecordsAreEvidence, Evidence, Lost, NoDatabase, TargetFenced
<1>3. Knows(o)'
  BY DEF RecordsAreEvidence, Evidence, OneFence, Lost, NoDatabase, TargetFenced
<1>4. OneFence'
  BY DEF RecordsAreEvidence, Evidence, OneFence, NoDatabase
<1>5. ChainIsClosed'
  BY ChainStands
<1> QED
  BY <1>1, <1>2, <1>3, <1>4, <1>5, StepKeeps

-----------------------------------------------------------------------------
(* restore-attachments                                                      *)

(* Copying begins only into a restored, fenced target.                      *)
LEMMA BeginAttachmentsKeeps ==
    ASSUME OneConsole, IInv, NEW o \in Operators, NEW a \in Attempts, BeginAttachments(o, a)
    PROVE  IInv'
<1> USE OneCommand, RecoveryAssumption
    DEF IInv, TypeOK, Knows, Restoring, Recorded, Closed, BeginAttachments, At,
        Begin, CanCopy, TargetFenced, Attempt
<1>1. TypeOK'
  BY DEF Steps
<1> USE PhaseFactsHold, PhaseFactsNext DEF PhaseFacts
<1>2. RecordsAreEvidence'
  BY EvidenceStands
<1>3. Knows(o)'
  BY DEF RecordsAreEvidence, Evidence, OneFence, Lost, NoDatabase
<1>4. OneFence'
  BY DEF RecordsAreEvidence, Evidence, OneFence, NoDatabase
<1>5. ChainIsClosed'
  BY ChainStands
<1> QED
  BY <1>1, <1>2, <1>3, <1>4, <1>5, StepKeeps

(* Copying again changes no attachment that was there.                      *)
LEMMA RepeatAttachmentsKeeps ==
    ASSUME OneConsole, IInv, NEW o \in Operators, NEW a \in Attempts, RepeatAttachments(o, a)
    PROVE  IInv'
<1> USE OneCommand, RecoveryAssumption
    DEF IInv, TypeOK, Knows, Restoring, Recorded, Closed, RepeatAttachments, At,
        Begin, CanCopy, TargetFenced, Attempt
<1>1. TypeOK'
  BY DEF Steps
<1> USE PhaseFactsHold, PhaseFactsNext DEF PhaseFacts
<1>2. RecordsAreEvidence'
  BY EvidenceStands
<1>3. Knows(o)'
  BY DEF RecordsAreEvidence, Evidence, OneFence, Lost, NoDatabase
<1>4. OneFence'
  BY DEF RecordsAreEvidence, Evidence, OneFence, NoDatabase
<1>5. ChainIsClosed'
  BY ChainStands
<1> QED
  BY <1>1, <1>2, <1>3, <1>4, <1>5, StepKeeps

(* A partial copy never undoes one that was recorded.                       *)
LEMMA CopySomeKeeps ==
    ASSUME OneConsole, IInv, NEW o \in Operators, CopySome(o)
    PROVE  IInv'
<1> USE OneCommand, RecoveryAssumption
    DEF IInv, TypeOK, Knows, Restoring, Recorded, Closed, CopySome, At, Attempt
<1>1. TypeOK'
  OBVIOUS
<1> USE PhaseFactsHold, PhaseFactsNext DEF PhaseFacts
<1>2. RecordsAreEvidence'
  BY DEF RecordsAreEvidence, Evidence, Lost, NoDatabase, TargetFenced
<1>3. Knows(o)'
  BY DEF RecordsAreEvidence, Evidence, OneFence, Lost, NoDatabase, TargetFenced
<1>4. OneFence'
  BY DEF RecordsAreEvidence, Evidence, OneFence, NoDatabase
<1>5. ChainIsClosed'
  BY ChainStands
<1> QED
  BY <1>1, <1>2, <1>3, <1>4, <1>5, StepKeeps

(* The copy is whole before it is recorded.                                 *)
LEMMA CopyRestKeeps ==
    ASSUME OneConsole, IInv, NEW o \in Operators, CopyRest(o)
    PROVE  IInv'
<1> USE OneCommand, RecoveryAssumption
    DEF IInv, TypeOK, Knows, Restoring, Recorded, Closed, CopyRest, At, Attempt, Go
<1>1. TypeOK'
  BY DEF Steps
<1> USE PhaseFactsHold, PhaseFactsNext DEF PhaseFacts
<1>2. RecordsAreEvidence'
  BY DEF RecordsAreEvidence, Evidence, Lost, NoDatabase, TargetFenced
<1>3. Knows(o)'
  BY DEF RecordsAreEvidence, Evidence, OneFence, Lost, NoDatabase, TargetFenced
<1>4. OneFence'
  BY DEF RecordsAreEvidence, Evidence, OneFence, NoDatabase
<1>5. ChainIsClosed'
  BY ChainStands
<1> QED
  BY <1>1, <1>2, <1>3, <1>4, <1>5, StepKeeps

(* ATTACHMENTS_RESTORED follows the whole copy of a restored database.      *)
LEMMA RecordCopyKeeps ==
    ASSUME OneConsole, IInv, NEW o \in Operators, RecordCopy(o)
    PROVE  IInv'
<1> USE OneCommand, RecoveryAssumption
    DEF IInv, TypeOK, Knows, Restoring, Recorded, Closed, RecordCopy, At, End,
        AppendPhase, Go, Attempt
<1>1. TypeOK'
  BY PhasesAre DEF Steps
<1> USE PhaseFactsHold, PhaseFactsNext DEF PhaseFacts
<1>2. RecordsAreEvidence'
  BY DEF RecordsAreEvidence, Evidence, Lost, NoDatabase, TargetFenced
<1>3. Knows(o)'
  BY DEF RecordsAreEvidence, Evidence, OneFence, Lost, NoDatabase, TargetFenced
<1>4. OneFence'
  BY DEF RecordsAreEvidence, Evidence, OneFence, NoDatabase
<1>5. ChainIsClosed'
  OBVIOUS
<1> QED
  BY <1>1, <1>2, <1>3, <1>4, <1>5, StepKeeps

-----------------------------------------------------------------------------
(* verify-attempt and approve                                               *)

(* What is verified is read when the command begins.                        *)
LEMMA BeginVerifyKeeps ==
    ASSUME OneConsole, IInv, NEW o \in Operators, NEW a \in Attempts, BeginVerify(o, a)
    PROVE  IInv'
<1> USE OneCommand, RecoveryAssumption
    DEF IInv, TypeOK, Knows, Restoring, Recorded, Closed, BeginVerify, At, Begin,
        AttemptVerifies, TargetFenced, Attempt
<1>1. TypeOK'
  BY DEF Steps
<1> USE PhaseFactsHold, PhaseFactsNext DEF PhaseFacts
<1>2. RecordsAreEvidence'
  BY EvidenceStands
<1>3. Knows(o)'
  BY DEF RecordsAreEvidence, Evidence, OneFence, Lost, NoDatabase
<1>4. OneFence'
  BY DEF RecordsAreEvidence, Evidence, OneFence, NoDatabase
<1>5. ChainIsClosed'
  BY ChainStands
<1> QED
  BY <1>1, <1>2, <1>3, <1>4, <1>5, StepKeeps

(* VERIFIED adds no claim about the databases.                              *)
LEMMA RecordVerifiedKeeps ==
    ASSUME OneConsole, IInv, NEW o \in Operators, RecordVerified(o)
    PROVE  IInv'
<1> USE OneCommand, RecoveryAssumption
    DEF IInv, TypeOK, Knows, Restoring, Recorded, Closed, RecordVerified, At, End,
        AppendPhase, Go, Attempt
<1>1. TypeOK'
  BY PhasesAre DEF Steps
<1> USE PhaseFactsHold, PhaseFactsNext DEF PhaseFacts
<1>2. RecordsAreEvidence'
  BY DEF RecordsAreEvidence, Evidence, Lost, NoDatabase, TargetFenced
<1>3. Knows(o)'
  BY DEF RecordsAreEvidence, Evidence, OneFence, Lost, NoDatabase, TargetFenced
<1>4. OneFence'
  BY DEF RecordsAreEvidence, Evidence, OneFence, NoDatabase
<1>5. ChainIsClosed'
  OBVIOUS
<1> QED
  BY <1>1, <1>2, <1>3, <1>4, <1>5, StepKeeps

(* Approving adds no claim about the databases either.                      *)
LEMMA BeginApproveKeeps ==
    ASSUME OneConsole, IInv, NEW o \in Operators, NEW a \in Attempts, BeginApprove(o, a)
    PROVE  IInv'
<1> USE OneCommand, RecoveryAssumption
    DEF IInv, TypeOK, Knows, Restoring, Recorded, Closed, BeginApprove, At, Begin,
        Attempt
<1>1. TypeOK'
  BY DEF Steps
<1> USE PhaseFactsHold, PhaseFactsNext DEF PhaseFacts
<1>2. RecordsAreEvidence'
  BY EvidenceStands
<1>3. Knows(o)'
  BY DEF RecordsAreEvidence, Evidence, OneFence, Lost, NoDatabase, TargetFenced
<1>4. OneFence'
  BY DEF RecordsAreEvidence, Evidence, OneFence, NoDatabase
<1>5. ChainIsClosed'
  BY ChainStands
<1> QED
  BY <1>1, <1>2, <1>3, <1>4, <1>5, StepKeeps

(* APPROVED closes the chain up to activation.                              *)
LEMMA RecordApprovedKeeps ==
    ASSUME OneConsole, IInv, NEW o \in Operators, RecordApproved(o)
    PROVE  IInv'
<1> USE OneCommand, RecoveryAssumption
    DEF IInv, TypeOK, Knows, Restoring, Recorded, Closed, RecordApproved, At, End,
        AppendPhase, Go, Attempt
<1>1. TypeOK'
  BY PhasesAre DEF Steps
<1> USE PhaseFactsHold, PhaseFactsNext DEF PhaseFacts
<1>2. RecordsAreEvidence'
  BY DEF RecordsAreEvidence, Evidence, Lost, NoDatabase, TargetFenced
<1>3. Knows(o)'
  BY DEF RecordsAreEvidence, Evidence, OneFence, Lost, NoDatabase, TargetFenced
<1>4. OneFence'
  BY DEF RecordsAreEvidence, Evidence, OneFence, NoDatabase
<1>5. ChainIsClosed'
  OBVIOUS
<1> QED
  BY <1>1, <1>2, <1>3, <1>4, <1>5, StepKeeps

-----------------------------------------------------------------------------
(* activate and abort                                                       *)

(* The attempt is approved when its activation begins.                      *)
LEMMA BeginActivateKeeps ==
    ASSUME OneConsole, IInv, NEW o \in Operators, NEW a \in Attempts, BeginActivate(o, a)
    PROVE  IInv'
<1> USE OneCommand, RecoveryAssumption
    DEF IInv, TypeOK, Knows, Restoring, Recorded, Closed, BeginActivate, At, Begin,
        CanActivate, AttemptVerifies, TargetFenced, Attempt
<1>1. TypeOK'
  BY DEF Steps
<1> USE PhaseFactsHold, PhaseFactsNext DEF PhaseFacts
<1>2. RecordsAreEvidence'
  BY EvidenceStands
<1>3. Knows(o)'
  BY DEF RecordsAreEvidence, Evidence, OneFence, Lost, NoDatabase
<1>4. OneFence'
  BY DEF RecordsAreEvidence, Evidence, OneFence, NoDatabase
<1>5. ChainIsClosed'
  BY ChainStands
<1> QED
  BY <1>1, <1>2, <1>3, <1>4, <1>5, StepKeeps

(* The one writable target: its attempt reached APPROVED behind the fence.  *)
LEMMA ActivateTargetKeeps ==
    ASSUME OneConsole, IInv, NEW o \in Operators, ActivateTarget(o)
    PROVE  IInv'
<1> USE OneCommand, RecoveryAssumption
    DEF IInv, TypeOK, Knows, Restoring, Recorded, Closed, ActivateTarget, At,
        Attempt, Go, TargetFenced
<1>1. TypeOK'
  <2>1. target' \in [Attempts -> Database]
    BY DEF Database, NoDatabase
  <2>2. command' \in [Operators -> [step : Steps, attempt : Attempts \cup {None}]]
    BY DEF Steps
  <2> QED
    BY <2>1, <2>2
<1> USE PhaseFactsHold, PhaseFactsNext DEF PhaseFacts
<1>2. RecordsAreEvidence'
  BY DEF RecordsAreEvidence, Evidence, Lost, NoDatabase
<1>3. Knows(o)'
  BY DEF RecordsAreEvidence, Evidence, OneFence, Lost, NoDatabase
<1>4. OneFence'
  BY DEF RecordsAreEvidence, Evidence, OneFence, NoDatabase
<1>5. ChainIsClosed'
  BY ChainStands
<1> QED
  BY <1>1, <1>2, <1>3, <1>4, <1>5, StepKeeps

(* ACTIVATED is recorded of a target that serves.                           *)
LEMMA RecordActivatedKeeps ==
    ASSUME OneConsole, IInv, NEW o \in Operators, RecordActivated(o)
    PROVE  IInv'
<1> USE OneCommand, RecoveryAssumption
    DEF IInv, TypeOK, Knows, Restoring, Recorded, Closed, RecordActivated, At, Go,
        AppendPhase, Attempt
<1>1. TypeOK'
  BY PhasesAre DEF Steps
<1> USE PhaseFactsHold, PhaseFactsNext DEF PhaseFacts
<1>2. RecordsAreEvidence'
  BY DEF RecordsAreEvidence, Evidence, Lost, NoDatabase, TargetFenced
<1>3. Knows(o)'
  BY DEF RecordsAreEvidence, Evidence, OneFence, Lost, NoDatabase, TargetFenced
<1>4. OneFence'
  BY DEF RecordsAreEvidence, Evidence, OneFence, NoDatabase
<1>5. ChainIsClosed'
  OBVIOUS
<1> QED
  BY <1>1, <1>2, <1>3, <1>4, <1>5, StepKeeps

(* Only an attempt that is prepared and no further is aborted.              *)
LEMMA BeginAbortKeeps ==
    ASSUME OneConsole, IInv, NEW o \in Operators, NEW a \in Attempts, BeginAbort(o, a)
    PROVE  IInv'
<1> USE OneCommand, RecoveryAssumption
    DEF IInv, TypeOK, Knows, Restoring, Recorded, Closed, BeginAbort, At, Begin,
        Attempt
<1>1. TypeOK'
  BY DEF Steps
<1> USE PhaseFactsHold, PhaseFactsNext DEF PhaseFacts
<1>2. RecordsAreEvidence'
  BY EvidenceStands
<1>3. Knows(o)'
  BY DEF RecordsAreEvidence, Evidence, OneFence, Lost, NoDatabase, TargetFenced
<1>4. OneFence'
  BY DEF RecordsAreEvidence, Evidence, OneFence, NoDatabase
<1>5. ChainIsClosed'
  BY ChainStands
<1> QED
  BY <1>1, <1>2, <1>3, <1>4, <1>5, StepKeeps

(* An attempt is aborted instead of fencing the source.                     *)
LEMMA RecordAbortedKeeps ==
    ASSUME OneConsole, IInv, NEW o \in Operators, RecordAborted(o)
    PROVE  IInv'
<1> USE OneCommand, RecoveryAssumption
    DEF IInv, TypeOK, Knows, Restoring, Recorded, Closed, RecordAborted, At, Go,
        AppendPhase, Attempt
<1>1. TypeOK'
  BY PhasesAre DEF Steps
<1> USE PhaseFactsHold, PhaseFactsNext DEF PhaseFacts
<1>2. RecordsAreEvidence'
  BY DEF RecordsAreEvidence, Evidence, Lost, NoDatabase, TargetFenced
<1>3. Knows(o)'
  BY DEF RecordsAreEvidence, Evidence, OneFence, Lost, NoDatabase, TargetFenced
<1>4. OneFence'
  BY DEF RecordsAreEvidence, Evidence, OneFence, NoDatabase
<1>5. ChainIsClosed'
  OBVIOUS
<1> QED
  BY <1>1, <1>2, <1>3, <1>4, <1>5, StepKeeps

-----------------------------------------------------------------------------
(* crashes and failures                                                     *)

(* A command that dies leaves what its steps had made true.                 *)
LEMMA CrashKeeps ==
    ASSUME OneConsole, IInv, NEW o \in Operators, Crash(o)
    PROVE  IInv'
<1> USE OneCommand, RecoveryAssumption
    DEF IInv, TypeOK, Knows, Restoring, Recorded, Closed, Crash, At, End, Go,
        Attempt
<1>1. TypeOK'
  BY DEF Steps
<1> USE PhaseFactsHold, PhaseFactsNext DEF PhaseFacts
<1>2. RecordsAreEvidence'
  BY EvidenceStands
<1>3. Knows(o)'
  BY DEF RecordsAreEvidence, Evidence, OneFence, Lost, NoDatabase, TargetFenced
<1>4. OneFence'
  BY DEF RecordsAreEvidence, Evidence, OneFence, NoDatabase
<1>5. ChainIsClosed'
  BY ChainStands
<1> QED
  BY <1>1, <1>2, <1>3, <1>4, <1>5, StepKeeps

(* The handler drops a target that no record speaks of.                     *)
LEMMA RestoreFailsKeeps ==
    ASSUME OneConsole, IInv, NEW o \in Operators, RestoreFails(o)
    PROVE  IInv'
<1> USE OneCommand, RecoveryAssumption
    DEF IInv, TypeOK, Knows, Restoring, Recorded, Closed, RestoreFails, Go, At,
        Attempt
<1>1. TypeOK'
  BY DEF Steps
<1> USE PhaseFactsHold, PhaseFactsNext DEF PhaseFacts
<1>2. RecordsAreEvidence'
  BY EvidenceStands
<1>3. Knows(o)'
  BY DEF RecordsAreEvidence, Evidence, OneFence, Lost, NoDatabase, TargetFenced
<1>4. OneFence'
  BY DEF RecordsAreEvidence, Evidence, OneFence, NoDatabase
<1>5. ChainIsClosed'
  BY ChainStands
<1> QED
  BY <1>1, <1>2, <1>3, <1>4, <1>5, StepKeeps

(* The handler gives back the lock.                                         *)
LEMMA PrepareFailsKeeps ==
    ASSUME OneConsole, IInv, NEW o \in Operators, PrepareFails(o)
    PROVE  IInv'
<1> USE OneCommand, RecoveryAssumption
    DEF IInv, TypeOK, Knows, Restoring, Recorded, Closed, PrepareFails, At, Go,
        Attempt
<1>1. TypeOK'
  BY DEF Steps
<1> USE PhaseFactsHold, PhaseFactsNext DEF PhaseFacts
<1>2. RecordsAreEvidence'
  BY EvidenceStands
<1>3. Knows(o)'
  BY DEF RecordsAreEvidence, Evidence, OneFence, Lost, NoDatabase, TargetFenced
<1>4. OneFence'
  BY DEF RecordsAreEvidence, Evidence, OneFence, NoDatabase
<1>5. ChainIsClosed'
  BY ChainStands
<1> QED
  BY <1>1, <1>2, <1>3, <1>4, <1>5, StepKeeps

(* The record stays and the handler runs: the attempt is marked.            *)
LEMMA RestoreUnconfirmedKeeps ==
    ASSUME OneConsole, IInv, NEW o \in Operators, RestoreUnconfirmed(o)
    PROVE  IInv'
<1> USE OneCommand, RecoveryAssumption
    DEF IInv, TypeOK, Knows, Restoring, Recorded, Closed, RestoreUnconfirmed, At,
        Attempt, Go, AppendPhase
<1>1. TypeOK'
  BY PhasesAre DEF Steps
<1> USE PhaseFactsHold, PhaseFactsNext DEF PhaseFacts
<1>2. RecordsAreEvidence'
  BY DEF RecordsAreEvidence, Evidence, Lost, NoDatabase, TargetFenced
<1>3. Knows(o)'
  BY DEF RecordsAreEvidence, Evidence, OneFence, Lost, NoDatabase, TargetFenced
<1>4. OneFence'
  BY DEF RecordsAreEvidence, Evidence, OneFence, NoDatabase
<1>5. ChainIsClosed'
  OBVIOUS
<1> QED
  BY <1>1, <1>2, <1>3, <1>4, <1>5, StepKeeps

(* The record stays and the lock goes back.                                 *)
LEMMA PrepareUnconfirmedKeeps ==
    ASSUME OneConsole, IInv, NEW o \in Operators, PrepareUnconfirmed(o)
    PROVE  IInv'
<1> USE OneCommand, RecoveryAssumption
    DEF IInv, TypeOK, Knows, Restoring, Recorded, Closed, PrepareUnconfirmed, At,
        Attempt, Go
<1>1. TypeOK'
  BY PhasesAre DEF Steps
<1> USE PhaseFactsHold, PhaseFactsNext DEF PhaseFacts
<1>2. RecordsAreEvidence'
  BY DEF RecordsAreEvidence, Evidence, Lost, NoDatabase, TargetFenced
<1>3. Knows(o)'
  BY DEF RecordsAreEvidence, Evidence, OneFence, Lost, NoDatabase, TargetFenced
<1>4. OneFence'
  BY DEF RecordsAreEvidence, Evidence, OneFence, NoDatabase
<1>5. ChainIsClosed'
  OBVIOUS
<1> QED
  BY <1>1, <1>2, <1>3, <1>4, <1>5, StepKeeps

-----------------------------------------------------------------------------
(* The job that creates recovery points takes the lock when it is free and  *)
(* touches nothing else.                                                    *)
LEMMA JobKeeps ==
    ASSUME OneConsole, IInv, JobAcquires \/ JobReleases
    PROVE  IInv'
<1>1. lock' \in {"job", None} /\ UNCHANGED <<source, target, objects, records, point,
                                             command, failures, unconfirmed>>
  BY DEF JobAcquires, JobReleases
<1>2. TypeOK'
  BY <1>1 DEF IInv, TypeOK
<1>3. RecordsAreEvidence'
  BY <1>1, EvidenceStands DEF IInv
<1>4. StepsKnow'
  BY <1>1, PhaseFactsHold, PhaseFactsNext
     DEF IInv, StepsKnow, Knows, Restoring, At, Attempt, PhaseFacts, Recorded, TargetFenced
<1>5. OneFence'
  BY <1>1, RecoveryAssumption DEF IInv, OneFence, Recorded, At, Attempt
<1>6. ChainIsClosed'
  BY <1>1, ChainStands DEF IInv
<1> QED
  BY <1>2, <1>3, <1>4, <1>5, <1>6 DEF IInv

(* A stutter keeps it too.                                                 *)
LEMMA StutterKeeps == ASSUME IInv, UNCHANGED vars PROVE IInv'
<1>1. UNCHANGED <<source, target, objects, records, point, lock, command, failures,
                  unconfirmed>>
  BY DEF vars
<1>2. TypeOK'
  BY <1>1 DEF IInv, TypeOK
<1>3. RecordsAreEvidence'
  BY <1>1, EvidenceStands DEF IInv
<1>4. StepsKnow'
  BY <1>1, PhaseFactsHold, PhaseFactsNext
     DEF IInv, StepsKnow, Knows, Restoring, At, Attempt, PhaseFacts, Recorded, TargetFenced
<1>5. OneFence'
  BY <1>1 DEF IInv, OneFence, Recorded, At, Attempt
<1>6. ChainIsClosed'
  BY <1>1, ChainStands DEF IInv
<1> QED
  BY <1>2, <1>3, <1>4, <1>5, <1>6 DEF IInv

-----------------------------------------------------------------------------
(* Nothing is recorded or restored at first.                               *)
LEMMA InitIInv == Init => IInv
<1> SUFFICES ASSUME Init PROVE IInv
  OBVIOUS
<1>1. /\ \A a \in Attempts : records[a] = {} /\ target[a] = NoDatabase
      /\ \A o \in Operators : At(o, "idle")
  BY DEF Init, At
<1>2. TypeOK
  BY RecoveryAssumption DEF Init, TypeOK, Database, NoDatabase, Steps
<1>3. RecordsAreEvidence
  BY <1>1 DEF RecordsAreEvidence, Evidence, Recorded, NoDatabase
<1>4. StepsKnow
  BY <1>1 DEF StepsKnow, Knows, At, Restoring
<1>5. OneFence
  BY <1>1 DEF OneFence, Recorded, NoDatabase
<1>6. ChainIsClosed
  BY <1>1 DEF ChainIsClosed, Recorded
<1> QED
  BY <1>2, <1>3, <1>4, <1>5, <1>6 DEF IInv

(* Every step of a command, of its failure and of the backup job keeps IInv. *)
LEMMA NextIInv == ASSUME OneConsole, IInv, [Next]_vars PROVE IInv'
<1>1. ASSUME NEW o \in Operators, NEW a \in Attempts,
             BeginPrepare(o, a) \/ RepeatAttachments(o, a) \/ BeginAbort(o, a)
      PROVE  IInv'
  BY <1>1, BeginPrepareKeeps, RepeatAttachmentsKeeps, BeginAbortKeeps
<1>2. ASSUME NEW o \in Operators, Advance(o) PROVE IInv'
  BY <1>2, BeginRestoreKeeps, BeginAttachmentsKeeps, BeginVerifyKeeps, BeginApproveKeeps,
     BeginActivateKeeps, ReleaseAgainKeeps DEF Advance
<1>3. ASSUME NEW o \in Operators, Continue(o) PROVE IInv'
  BY <1>3, AcquireLockKeeps, LockTakenKeeps, WritePreparedKeeps, FenceSourceKeeps,
     RecordFenceKeeps, RemoveTargetKeeps, CreateTargetKeeps, LoadTargetKeeps,
     FenceTargetKeeps, LineageMismatchKeeps, RecordRestoreKeeps, DropTargetKeeps,
     CopySomeKeeps, CopyRestKeeps, RecordCopyKeeps, RecordVerifiedKeeps,
     RecordApprovedKeeps, ActivateTargetKeeps, RecordActivatedKeeps, RecordAbortedKeeps,
     ReleaseLockKeeps DEF Continue
<1>4. ASSUME NEW o \in Operators, Fail(o) PROVE IInv'
  BY <1>4, CrashKeeps, RestoreFailsKeeps, PrepareFailsKeeps, RestoreUnconfirmedKeeps,
     PrepareUnconfirmedKeeps DEF Fail
<1>5. CASE JobAcquires \/ JobReleases
  BY <1>5, JobKeeps
<1>6. CASE UNCHANGED vars
  BY <1>6, StutterKeeps
<1> QED
  BY <1>1, <1>2, <1>3, <1>4, <1>5, <1>6 DEF Next

(* What is recorded of an attempt is so, and what a command is about to     *)
(* record will be: IInv is an invariant at one console                      *)
(* (recovery-execution.ts:437, :142).                                       *)
THEOREM Invariance == ASSUME OneConsole PROVE Spec => []IInv
<1>1. Init => IInv
  BY InitIInv
<1>2. IInv /\ [Next]_vars => IInv'
  BY NextIInv
<1> QED
  BY <1>1, <1>2, PTL DEF Spec

-----------------------------------------------------------------------------
(* An active target has fenced the source and is the only one that did.     *)
LEMMA OneAuthority == IInv => OneWritableAuthority
<1> SUFFICES ASSUME IInv PROVE OneWritableAuthority
  OBVIOUS
<1> DEFINE A == {a \in Attempts : target[a].control = "ACTIVE"}
<1>1. \A a \in A : a \in Attempts /\ Recorded(a, "SOURCE_FENCED") /\ source = "FENCED"
  BY DEF IInv, OneFence, RecordsAreEvidence, Evidence
<1>2. \A a, b \in A : a = b
  BY <1>1 DEF IInv, OneFence
<1>3. Cardinality(A) <= 1
  <2>1. CASE A = {}
    BY <2>1, FS_EmptySet
  <2>2. CASE A # {}
    <3>1. PICK a \in A : TRUE
      BY <2>2
    <3>2. A = {a}
      BY <1>2, <3>1
    <3>3. Cardinality({a}) = 1
      BY FS_Singleton
    <3> QED
      BY <3>2, <3>3
  <2> QED
    BY <2>1, <2>2
<1>4. source = "ACTIVE" => \A a \in Attempts : target[a].control # "ACTIVE"
  BY <1>1
<1> QED
  BY <1>3, <1>4 DEF OneWritableAuthority

(* Whatever crashes and is repeated, at most one of the source and the      *)
(* targets accepts writes (recovery-execution.ts:142, :381).                *)
THEOREM OneWritable == ASSUME OneConsole PROVE Spec => []OneWritableAuthority
<1>1. Spec => []IInv
  BY Invariance
<1>2. IInv => OneWritableAuthority
  BY OneAuthority
<1> QED
  BY <1>1, <1>2, PTL

(* A target that serves is new because its attempt was approved: no step of *)
(* a restore, which only an attempt not yet restored takes, is one of it.   *)
LEMMA TargetKept ==
    ASSUME OneConsole, IInv, [Next]_vars, NEW a \in Attempts, target[a].generation = "new"
    PROVE  target'[a] = target[a]
<1>1. Recorded(a, "DATABASE_RESTORED") /\ Recorded(a, "ATTACHMENTS_RESTORED")
  BY PhaseFactsHold DEF IInv, RecordsAreEvidence, Evidence, PhaseFacts
<1>2. target[a] # NoDatabase /\ ~TargetFenced(a)
  BY DEF NoDatabase, TargetFenced
<1>3. ASSUME NEW o \in Operators,
             RemoveTarget(o) \/ CreateTarget(o) \/ LoadTarget(o) \/ FenceTarget(o)
             \/ DropTarget(o) \/ ActivateTarget(o)
      PROVE  target'[a] = target[a]
  <2>1. Knows(o) /\ Attempt(o) \in Attempts /\ target \in [Attempts -> Database]
    BY <1>3, OneCommand DEF Knows, At, IInv, TypeOK, RemoveTarget, CreateTarget, LoadTarget,
       FenceTarget, DropTarget, ActivateTarget
  <2>2. CASE ActivateTarget(o)
    <3>1. Attempt(o) # a
      BY <1>2, <2>2 DEF ActivateTarget
    <3> QED
      BY <2>1, <2>2, <3>1 DEF ActivateTarget
  <2>3. CASE RemoveTarget(o) \/ CreateTarget(o) \/ LoadTarget(o) \/ FenceTarget(o)
             \/ DropTarget(o)
    <3>1. Restoring(o)
      BY <2>3 DEF Restoring, At, RemoveTarget, CreateTarget, LoadTarget, FenceTarget,
         DropTarget
    <3>2. Attempt(o) # a
      BY <1>1, <2>1, <3>1, PhaseFactsHold DEF Knows, PhaseFacts
    <3> QED
      BY <2>1, <2>3, <3>2 DEF RemoveTarget, CreateTarget, LoadTarget, FenceTarget, DropTarget
  <2> QED
    BY <1>3, <2>2, <2>3
<1>4. CASE UNCHANGED target
  BY <1>4
<1>5. ASSUME [Next]_vars
      PROVE  \/ UNCHANGED target
             \/ \E o \in Operators :
                  RemoveTarget(o) \/ CreateTarget(o) \/ LoadTarget(o) \/ FenceTarget(o)
                  \/ DropTarget(o) \/ ActivateTarget(o)
  BY <1>5 DEF Next, vars, Advance, Continue, Fail, BeginPrepare, RepeatAttachments,
     BeginAbort, BeginRestore, BeginAttachments, BeginVerify, BeginApprove, BeginActivate,
     ReleaseAgain, AcquireLock, LockTaken, WritePrepared, FenceSource, RecordFence,
     LineageMismatch, RecordRestore, CopySome, CopyRest, RecordCopy, RecordVerified,
     RecordApproved, RecordActivated, RecordAborted, ReleaseLock, Crash, RestoreFails,
     PrepareFails, RestoreUnconfirmed, PrepareUnconfirmed, JobAcquires, JobReleases
<1> QED
  BY <1>3, <1>4, <1>5

(* A database that serves the platform is never dropped or restored over,   *)
(* whatever is repeated or fails (recovery-execution.ts:156, :231).         *)
THEOREM ServedKept == ASSUME OneConsole PROVE Spec => ServedIsKept
<1>1. Spec => []IInv
  BY Invariance
<1>2. IInv /\ [Next]_vars =>
        [\A a \in Attempts : target[a].generation = "new" => target'[a] = target[a]]_vars
  BY TargetKept
<1> QED
  BY <1>1, <1>2, PTL DEF Spec, ServedIsKept

-----------------------------------------------------------------------------
(* The write gate: requests against the operator who fences and activates.   *)
USE BoundsAssumption

\* The control row an operator writes is a control row.
LEMMA FirstControlType == FirstControl \in Controls
BY DEF FirstControl, Controls, Generations, Cutoffs, NoCutoff

LEMMA IdleTypes == IdleOperator \in OperatorStates /\ Idle \in RequestStates
BY FirstControlType
DEF IdleOperator, OperatorStates, Idle, RequestStates, Generations, NoGeneration

LEMMA Initially == FencingInit => FencingIInv
<1>1. SUFFICES ASSUME FencingInit PROVE FencingIInv
  OBVIOUS
<1>2. FencingTypeOK
  BY <1>1, FirstControlType, IdleTypes
  DEF FencingInit, AuthorityInit, FencingTypeOK, AuthorityTypeOK, Cutoffs
<1>3. WritersHold
  BY <1>1 DEF FencingInit, WritersHold, RequestAt, Idle
<1>4. ExclusionHolds
  BY <1>1 DEF FencingInit, AuthorityInit, ExclusionHolds
<1>5. QED BY <1>2, <1>3, <1>4 DEF FencingIInv

\* The operator's steps leave the requests and the lock's holders alone, and
\* change the control row under the lock only.
LEMMA OperatorKeeps ==
    ASSUME FencingIInv, OperatorNext, UNCHANGED connection PROVE FencingIInv'
<1> USE DEF FencingIInv
<1>1. holders' = holders
  BY DEF OperatorNext, OperatorBegin, OperatorProgress, OperatorLock, Fence, Activate,
         OperatorRefused, OperatorCommit, OperatorLost
<1>2. AuthorityTypeOK'
  <2> USE DEF FencingTypeOK, AuthorityTypeOK
  <2>1. ASSUME NEW k \in {"fence", "activate"}, NEW g \in 0 .. control.generation,
               OperatorBegin(k, g)
        PROVE  AuthorityTypeOK'
    <3>1. g \in Generations
      BY <2>1 DEF Controls, Generations
    <3>2. QED BY <2>1, <3>1 DEF OperatorBegin, OperatorStates
  <2>2. CASE OperatorLock
    BY <2>2 DEF OperatorLock, OperatorStates
  <2>3. CASE Fence
    BY <2>3 DEF Fence, OperatorStates, Controls
  <2>4. CASE Activate
    <3> DEFINE row == [generation |-> control.generation + 1, state |-> "ACTIVE",
                       notBefore |-> now + 1]
    <3>1. now + 1 \in Cutoffs /\ control.generation + 1 \in Generations
      BY <2>4 DEF Activate, RoomToActivate, Cutoffs, Controls, Generations
    <3>2. row \in Controls
      BY <3>1 DEF Controls
    <3>3. operator' = [operator EXCEPT !.pc = "decided", !.row = row]
      BY <2>4 DEF Activate
    <3>4. operator' \in OperatorStates
      BY <3>2, <3>3 DEF OperatorStates
    <3>5. QED BY <2>4, <3>1, <3>4 DEF Activate
  <2>5. CASE OperatorRefused
    BY <2>5, IdleTypes DEF OperatorRefused
  <2>6. CASE OperatorCommit
    BY <2>6, IdleTypes DEF OperatorCommit, OperatorStates
  <2>7. CASE OperatorLost
    BY <2>7, IdleTypes DEF OperatorLost
  <2>8. QED BY <2>1, <2>2, <2>3, <2>4, <2>5, <2>6, <2>7 DEF OperatorNext, OperatorProgress
<1>3. ExclusionHolds'
  <2>1. CASE operator'.pc \in {"locked", "decided"}
    <3>1. holders = {}
      <4>1. CASE OperatorLock
        BY <4>1 DEF OperatorLock
      <4>2. CASE Fence \/ Activate
        BY <4>2 DEF Fence, Activate, ExclusionHolds, ExclusiveHeld
      <4>3. CASE OperatorRefused \/ OperatorCommit \/ OperatorLost
        BY <2>1, <4>3 DEF OperatorRefused, OperatorCommit, OperatorLost, IdleOperator
      <4>4. ASSUME NEW k \in {"fence", "activate"}, NEW g \in 0 .. control.generation,
                   OperatorBegin(k, g)
            PROVE  holders = {}
        <5>1. operator'.pc = "waiting"
          BY <4>4 DEF OperatorBegin, FencingTypeOK, AuthorityTypeOK, OperatorStates
        <5>2. QED BY <2>1, <5>1
      <4>5. QED BY <4>1, <4>2, <4>3, <4>4 DEF OperatorNext, OperatorProgress
    <3>2. QED BY <1>1, <3>1 DEF ExclusionHolds
  <2>2. QED BY <2>1 DEF ExclusionHolds, ExclusiveHeld
<1>4. WritersHold'
  <2>1. CASE OperatorCommit
    <3>1. holders = {}
      BY <2>1 DEF OperatorCommit, ExclusionHolds, ExclusiveHeld
    <3>2. QED BY <1>1, <3>1 DEF WritersHold, RequestAt
  <2>2. CASE ~ OperatorCommit
    <3>1. control' = control
      BY <2>2 DEF OperatorNext, OperatorBegin, OperatorProgress, OperatorLock, Fence, Activate,
         OperatorRefused, OperatorLost
    <3>2. QED BY <1>1, <3>1 DEF WritersHold, RequestAt, Authority, Admits
  <2>3. QED BY <2>1, <2>2
<1>5. QED BY <1>2, <1>3, <1>4 DEF FencingTypeOK

\* What one request does leaves the others' authority alone.
LEMMA RequestKeeps ==
    ASSUME FencingIInv, NEW w \in Requests, RequestNext(w) PROVE FencingIInv'
<1> USE DEF FencingIInv
<1> DEFINE Moves == Authenticate(w) \/ Anonymous(w) \/ BeginWrite(w) \/ BeginSnapshot(w)
           Stops == WriteRefused(w) \/ SnapshotRefused(w)
           Ends == CommitWrite(w) \/ EndSnapshot(w) \/ RequestLost(w)
           Enters == AssertWrite(w) \/ AssertSnapshot(w)
<1>1. Moves \/ Stops \/ Ends \/ Enters
  BY DEF RequestNext, RequestProgress
<1>2. UNCHANGED <<control, operator, now>>
  BY <1>1 DEF Authenticate, Anonymous, BeginWrite, BeginSnapshot, WriteRefused,
     SnapshotRefused, CommitWrite, EndSnapshot, RequestLost, AssertWrite, AssertSnapshot,
     Share, Release, authorityVars
<1>3. holders' \in SUBSET Requests /\ holders' \ {w} = holders \ {w}
  BY <1>1 DEF Authenticate, Anonymous, BeginWrite, BeginSnapshot, WriteRefused,
     SnapshotRefused, CommitWrite, EndSnapshot, RequestLost, AssertWrite, AssertSnapshot,
     Share, Release, authorityVars, FencingTypeOK, AuthorityTypeOK
<1>4. \E r \in RequestStates :
         /\ connection' = [connection EXCEPT ![w] = r]
         /\ r.pc = "writing" => w \in holders' /\ Admits(control, r.generation, FALSE)
  <2> USE DEF FencingTypeOK, AuthorityTypeOK
  <2> connection[w] \in RequestStates
    OBVIOUS
  <2>1. CASE Moves
    <3>1. CASE Authenticate(w)
      <4> DEFINE r == [connection[w] EXCEPT !.pc = "authenticated", !.generation = control.generation]
      <4>1. r \in RequestStates /\ r.pc # "writing"
        BY DEF RequestStates, Controls
      <4>2. QED BY <3>1, <4>1 DEF Authenticate
    <3>2. CASE Anonymous(w)
      <4> DEFINE r == [connection[w] EXCEPT !.pc = "begun", !.generation = NoGeneration]
      <4>1. r \in RequestStates /\ r.pc # "writing"
        BY DEF RequestStates
      <4>2. QED BY <3>2, <4>1 DEF Anonymous
    <3>3. CASE BeginWrite(w)
      <4> DEFINE r == [connection[w] EXCEPT !.pc = "begun"]
      <4>1. r \in RequestStates /\ r.pc # "writing"
        BY DEF RequestStates
      <4>2. QED BY <3>3, <4>1 DEF BeginWrite, Goto
    <3>4. CASE BeginSnapshot(w)
      <4> DEFINE r == [connection[w] EXCEPT !.pc = "snapshot", !.snapshot = control]
      <4>1. r \in RequestStates /\ r.pc # "writing"
        BY DEF RequestStates
      <4>2. QED BY <3>4, <4>1 DEF BeginSnapshot
    <3>5. QED BY <2>1, <3>1, <3>2, <3>3, <3>4
  <2>2. CASE Stops \/ Ends
    <3>1. connection' = [connection EXCEPT ![w] = Idle]
      BY <2>2 DEF WriteRefused, SnapshotRefused, CommitWrite, EndSnapshot, RequestLost, FinishRequest
    <3>2. QED BY <3>1, IdleTypes DEF Idle
  <2>3. CASE AssertWrite(w)
    <3> DEFINE r == [connection[w] EXCEPT !.pc = "writing"]
    <3>1. r \in RequestStates /\ r.generation = connection[w].generation
      BY DEF RequestStates
    <3>2. QED BY <2>3, <3>1 DEF AssertWrite, Goto, Share
  <2>4. CASE AssertSnapshot(w)
    <3> DEFINE r == [connection[w] EXCEPT !.pc = "reading"]
    <3>1. r \in RequestStates /\ r.pc # "writing"
      BY DEF RequestStates
    <3>2. QED BY <2>4, <3>1 DEF AssertSnapshot, Goto
  <2>5. QED BY <1>1, <2>1, <2>2, <2>3, <2>4
<1>5. FencingTypeOK'
  BY <1>2, <1>3, <1>4 DEF FencingTypeOK, AuthorityTypeOK
<1>6. WritersHold'
  <2>1. PICK r \in RequestStates :
         /\ connection' = [connection EXCEPT ![w] = r]
         /\ r.pc = "writing" => w \in holders' /\ Admits(control, r.generation, FALSE)
    BY <1>4
  <2>2. SUFFICES ASSUME NEW v \in Requests, RequestAt(v, "writing")'
                 PROVE  v \in holders' /\ Authority(v)'
    BY DEF WritersHold
  <2>3. CASE v = w
    <3>1. connection'[v] = r
      BY <2>1, <2>3 DEF FencingTypeOK
    <3>2. QED BY <1>2, <2>1, <2>2, <2>3, <3>1 DEF RequestAt, Authority, Admits
  <2>4. CASE v # w
    <3>1. connection'[v] = connection[v]
      BY <2>1, <2>4 DEF FencingTypeOK
    <3>2. v \in holders /\ Authority(v)
      BY <2>2, <3>1 DEF WritersHold, RequestAt
    <3>3. QED BY <1>2, <1>3, <2>4, <3>1, <3>2 DEF Authority, Admits
  <2>5. QED BY <2>3, <2>4
<1>7. ExclusionHolds'
  <2>1. CASE Enters
    <3>1. ~ ExclusiveHeld
      BY <2>1 DEF AssertWrite, AssertSnapshot, Grantable, ExclusiveHeld
    <3>2. QED BY <1>2, <3>1 DEF ExclusionHolds, ExclusiveHeld
  <2>2. CASE ~ Enters
    <3>1. holders' \subseteq holders
      BY <1>1, <2>2 DEF Authenticate, Anonymous, BeginWrite, BeginSnapshot, WriteRefused,
         SnapshotRefused, CommitWrite, EndSnapshot, RequestLost, Release, authorityVars
    <3>2. QED BY <1>2, <3>1 DEF ExclusionHolds, ExclusiveHeld
  <2>3. QED BY <2>1, <2>2
<1>8. QED BY <1>5, <1>6, <1>7

LEMMA Inductive == FencingIInv /\ [FencingNext]_fencingVars => FencingIInv'
<1> SUFFICES ASSUME FencingIInv, [FencingNext]_fencingVars PROVE FencingIInv'
  OBVIOUS
<1>1. CASE OperatorNext /\ UNCHANGED connection
  BY <1>1, OperatorKeeps
<1>2. CASE \E w \in Requests : RequestNext(w)
  BY <1>2, RequestKeeps
<1>3. CASE UNCHANGED fencingVars
  BY <1>3 DEF fencingVars, authorityVars, FencingIInv, FencingTypeOK, AuthorityTypeOK, WritersHold, ExclusionHolds,
     ExclusiveHeld, RequestAt, Authority, Admits
<1>4. QED BY <1>1, <1>2, <1>3 DEF FencingNext

(* The inductive invariant of the fence: every writer holds the shared lock *)
(* and would be admitted still, and the exclusive lock excludes them.       *)
THEOREM FencingInvariance == FencingSpec => []FencingIInv
<1>1. FencingInit => FencingIInv
  BY Initially
<1>2. FencingIInv /\ [FencingNext]_fencingVars => FencingIInv'
  BY Inductive
<1>3. QED BY <1>1, <1>2, PTL DEF FencingSpec

(* A write commits under the generation it was admitted under, while the    *)
(* service is active, whatever the operator does meanwhile.                 *)
THEOREM WritesAreFenced == FencingSpec => WritesUnderCurrentAuthority
<1>1. FencingIInv => \A w \in Requests : CommitWrite(w) => Authority(w)
  BY DEF FencingIInv, WritersHold, CommitWrite
<1>2. QED BY <1>1, FencingInvariance, PTL DEF WritesUnderCurrentAuthority
=============================================================================
