---------------------------- MODULE PointsProofs ----------------------------
(***************************************************************************)
(* Proofs about Attachments and RecoveryPoints, for any attachments,       *)
(* points, retentions and processes.                                       *)
(***************************************************************************)
EXTENDS RecoveryPoints, FiniteSetTheorems, TLAPS

UploadSteps == {"none", "allowed", "stored", "recording", "compensating", "over"}

AttachmentTypes ==
    /\ today \in Nat
    /\ parents \in [Parents -> BOOLEAN]
    /\ parentLocks \in [Parents -> Attached \cup {Nil}]
    /\ uploads \in [Attached -> [step : UploadSteps, parent : Parents \cup {Nil}]]
    /\ attachments \in [Attached -> AttachmentRows \cup {Nil}]
    /\ binaries \in [Attached -> Nat \cup {Nil}]
    /\ sweep \in [removed : SUBSET Attached, listed : SUBSET Attached, orphans : SUBSET Attached]
    /\ lost \in SUBSET Attached
    /\ IsFiniteSet({i \in Attached : attachments[i] # Nil})

\* What the step of an upload tells of the row, of the binary and of the lock.
UploadKnows(i) ==
    /\ UploadStep(i) # "none" => Parent(i) \in Parents
    /\ UploadStep(i) \in {"none", "allowed"} => binaries[i] = Nil
    /\ UploadStep(i) \in {"none", "allowed", "stored", "recording"} => attachments[i] = Nil
    /\ UploadStep(i) \in {"stored", "recording"} =>
         binaries[i] # Nil /\ today - binaries[i] < OrphanRetention
    /\ UploadStep(i) = "recording" => parentLocks[Parent(i)] = i
    /\ UploadStep(i) = "compensating" => attachments[i] = Nil \/ i \in lost

\* What is listed for deletion may be deleted, however long that takes.
SweepKnows(i) ==
    /\ i \in sweep.removed =>
         /\ attachments[i] # Nil /\ attachments[i].removed # Nil
         /\ attachments[i].removed <= today - RemovedRetention
    /\ i \in sweep.listed \cup sweep.orphans => UploadStep(i) \in {"compensating", "over"}
    /\ i \in sweep.orphans => attachments[i] = Nil

\* A parent is locked by an upload that has counted its attachments.
LocksKnow ==
    \A p \in Parents : parentLocks[p] # Nil =>
        /\ UploadStep(parentLocks[p]) = "recording" /\ Parent(parentLocks[p]) = p
        /\ Cardinality(ActiveOf(p)) < MaxActive

AttachmentIInv ==
    /\ AttachmentTypes
    /\ \A i \in Attached : UploadKnows(i) /\ SweepKnows(i)
    /\ LocksKnow /\ WithinLimit /\ BinaryIsKept

-----------------------------------------------------------------------------
LEMMA UploadFields ==
    ASSUME AttachmentTypes, NEW i \in Attached
    PROVE  /\ UploadStep(i) \in UploadSteps /\ Parent(i) \in Parents \cup {Nil}
           /\ binaries[i] \in Nat \cup {Nil}
           /\ attachments[i] # Nil => attachments[i] \in AttachmentRows
           /\ attachments[i] # Nil => /\ attachments[i].parent \in Parents
                                       /\ attachments[i].removed \in Nat \cup {Nil}
           /\ today \in Nat
           /\ Nil \notin Nat /\ i # Nil
BY AttachmentAssumption DEF AttachmentTypes, AttachmentRows, UploadStep, Parent

LEMMA ActivesFinite ==
    ASSUME AttachmentTypes, NEW p
    PROVE  IsFiniteSet(ActiveOf(p)) /\ Cardinality(ActiveOf(p)) \in Nat
<1>1. ActiveOf(p) \subseteq {i \in Attached : attachments[i] # Nil} BY DEF ActiveOf, Active
<1>2. IsFiniteSet({i \in Attached : attachments[i] # Nil}) BY DEF AttachmentTypes
<1> QED BY <1>1, <1>2, FS_Subset, FS_CardinalityType

\* What is kept of an attachment and of the others when its parent, its locks and its row stay.
LEMMA RowsStay ==
    ASSUME AttachmentIInv, UNCHANGED <<attachments, today, lost>>,
           \A i \in Attached : binaries[i] # Nil /\ attachments[i] # Nil => binaries'[i] # Nil
    PROVE  /\ WithinLimit' /\ BinaryIsKept'
           /\ \A p : ActiveOf(p)' = ActiveOf(p)
<1>1. \A p : ActiveOf(p)' = ActiveOf(p) BY DEF ActiveOf, Active
<1>2. WithinLimit' BY <1>1 DEF AttachmentIInv, WithinLimit
<1>3. BinaryIsKept' BY DEF AttachmentIInv, BinaryIsKept, Active
<1> QED BY <1>1, <1>2, <1>3

LEMMA AssertUploadAllowedKeeps ==
    ASSUME AttachmentIInv, NEW i \in Attached, NEW p \in Parents, AssertUploadAllowed(i, p)
    PROVE  AttachmentIInv'
<1> USE DEF AttachmentIInv
<1>1. UNCHANGED <<today, parents, parentLocks, attachments, binaries, sweep, lost>>
      /\ UploadStep(i) = "none" /\ uploads' = [uploads EXCEPT ![i] = Upload("allowed", p)]
  BY DEF AssertUploadAllowed
<1>2. AttachmentTypes' BY <1>1 DEF AttachmentTypes, Upload, UploadSteps
<1>3. \A k \in Attached : UploadStep(k)' = (IF k = i THEN "allowed" ELSE UploadStep(k)) /\ Parent(k)' = (IF k = i THEN p ELSE Parent(k))
  BY <1>1 DEF AttachmentTypes, Upload, UploadStep, Parent
<1>4. \A k \in Attached : UploadKnows(k)' BY <1>1, <1>3 DEF UploadKnows
<1>5. \A k \in Attached : SweepKnows(k)' BY <1>1, <1>3 DEF SweepKnows
<1>6. WithinLimit' /\ BinaryIsKept' /\ \A q : ActiveOf(q)' = ActiveOf(q) BY <1>1, RowsStay
<1>7. LocksKnow' BY <1>1, <1>3, <1>6, UploadFields DEF LocksKnow, AttachmentTypes
<1> QED BY <1>2, <1>4, <1>5, <1>6, <1>7

LEMMA GoFacts ==
    ASSUME AttachmentTypes, NEW i \in Attached, NEW step \in UploadSteps, UploadGoes(i, step)
    PROVE  /\ uploads' \in [Attached -> [step : UploadSteps, parent : Parents \cup {Nil}]]
           /\ \A k \in Attached : UploadStep(k)' = (IF k = i THEN step ELSE UploadStep(k))
           /\ \A k \in Attached : Parent(k)' = Parent(k)
BY DEF AttachmentTypes, UploadGoes, UploadStep, Parent

LEMMA ScanRefusesKeeps ==
    ASSUME AttachmentIInv, NEW i \in Attached, ScanRefuses(i)
    PROVE  AttachmentIInv'
<1> USE DEF AttachmentIInv
<1>1. UNCHANGED <<today, parents, parentLocks, attachments, binaries, sweep, lost>>
      /\ UploadStep(i) = "allowed" /\ UploadGoes(i, "over")
  BY DEF ScanRefuses
<1>2. /\ uploads' \in [Attached -> [step : UploadSteps, parent : Parents \cup {Nil}]]
      /\ \A k \in Attached : UploadStep(k)' = (IF k = i THEN "over" ELSE UploadStep(k))
      /\ \A k \in Attached : Parent(k)' = Parent(k)
  BY <1>1, GoFacts DEF UploadSteps
<1>3. AttachmentTypes' BY <1>1, <1>2 DEF AttachmentTypes
<1>4. \A k \in Attached : UploadKnows(k)' BY <1>1, <1>2 DEF UploadKnows
<1>5. \A k \in Attached : SweepKnows(k)' BY <1>1, <1>2 DEF SweepKnows
<1>6. WithinLimit' /\ BinaryIsKept' /\ \A q : ActiveOf(q)' = ActiveOf(q) BY <1>1, RowsStay
<1>7. LocksKnow' BY <1>1, <1>2, <1>6, UploadFields DEF LocksKnow, AttachmentTypes
<1> QED BY <1>3, <1>4, <1>5, <1>6, <1>7

\* The row of the parent is not concerned, nor what the clean-ups have listed.
LEMMA PutObjectKeeps ==
    ASSUME AttachmentIInv, NEW i \in Attached, PutObject(i)
    PROVE  AttachmentIInv'
<1> USE DEF AttachmentIInv
<1>1. UNCHANGED <<today, parents, parentLocks, attachments, sweep, lost>>
      /\ UploadStep(i) = "allowed" /\ UploadGoes(i, "stored") /\ binaries' = [binaries EXCEPT ![i] = today]
  BY DEF PutObject
<1>2. /\ uploads' \in [Attached -> [step : UploadSteps, parent : Parents \cup {Nil}]]
      /\ \A k \in Attached : UploadStep(k)' = (IF k = i THEN "stored" ELSE UploadStep(k))
      /\ \A k \in Attached : Parent(k)' = Parent(k)
  BY <1>1, GoFacts DEF UploadSteps
<1>b. /\ binaries' \in [Attached -> Nat \cup {Nil}]
      /\ \A k \in Attached : binaries'[k] = IF k = i THEN today ELSE binaries[k]
  BY <1>1 DEF AttachmentTypes
<1>3. AttachmentTypes' BY <1>1, <1>2, <1>b DEF AttachmentTypes
<1>t. today \in Nat /\ Nil \notin Nat /\ OrphanRetention > 0 /\ today - today < OrphanRetention
  BY AttachmentAssumption DEF AttachmentTypes
<1>4. \A k \in Attached : UploadKnows(k)' BY <1>1, <1>2, <1>b, <1>t DEF UploadKnows
<1>5. \A k \in Attached : SweepKnows(k)' BY <1>1, <1>2 DEF SweepKnows
<1>6. WithinLimit' /\ BinaryIsKept' /\ \A q : ActiveOf(q)' = ActiveOf(q)
  BY <1>1, <1>b, <1>t, RowsStay
<1>7. LocksKnow' BY <1>1, <1>2, <1>6, UploadFields DEF LocksKnow, AttachmentTypes
<1> QED BY <1>3, <1>4, <1>5, <1>6, <1>7

LEMMA PutFailsKeeps ==
    ASSUME AttachmentIInv, NEW i \in Attached, PutFails(i)
    PROVE  AttachmentIInv'
<1> USE DEF AttachmentIInv
<1>1. PICK day \in {Nil, today} :
        /\ UNCHANGED <<today, parents, parentLocks, attachments, sweep, lost>>
        /\ UploadStep(i) = "allowed" /\ UploadGoes(i, "over") /\ binaries' = [binaries EXCEPT ![i] = day]
  BY DEF PutFails
<1>2. /\ uploads' \in [Attached -> [step : UploadSteps, parent : Parents \cup {Nil}]]
      /\ \A k \in Attached : UploadStep(k)' = (IF k = i THEN "over" ELSE UploadStep(k))
      /\ \A k \in Attached : Parent(k)' = Parent(k)
  BY <1>1, GoFacts DEF UploadSteps
<1>b. /\ binaries' \in [Attached -> Nat \cup {Nil}]
      /\ \A k \in Attached : k # i => binaries'[k] = binaries[k]
  BY <1>1 DEF AttachmentTypes
<1>3. AttachmentTypes' BY <1>1, <1>2, <1>b DEF AttachmentTypes
<1>4. \A k \in Attached : UploadKnows(k)' BY <1>1, <1>2, <1>b DEF UploadKnows
<1>5. \A k \in Attached : SweepKnows(k)' BY <1>1, <1>2 DEF SweepKnows
<1>i. attachments[i] = Nil BY <1>1 DEF UploadKnows
<1>6. WithinLimit' /\ BinaryIsKept' /\ \A q : ActiveOf(q)' = ActiveOf(q)
  BY <1>1, <1>b, <1>i, RowsStay
<1>7. LocksKnow' BY <1>1, <1>2, <1>6, UploadFields DEF LocksKnow, AttachmentTypes
<1> QED BY <1>3, <1>4, <1>5, <1>6, <1>7

LEMMA BeginCreateKeeps ==
    ASSUME AttachmentIInv, NEW i \in Attached, BeginCreate(i)
    PROVE  AttachmentIInv'
<1> USE DEF AttachmentIInv
<1>1. /\ UNCHANGED <<today, parents, attachments, binaries, sweep, lost>>
      /\ UploadStep(i) = "stored" /\ UploadGoes(i, "recording") /\ Accepts(Parent(i))
      /\ parentLocks[Parent(i)] = Nil
      /\ parentLocks' = [parentLocks EXCEPT ![Parent(i)] = i]
  BY DEF BeginCreate, LockParent
<1>2. /\ uploads' \in [Attached -> [step : UploadSteps, parent : Parents \cup {Nil}]]
      /\ \A k \in Attached : UploadStep(k)' = (IF k = i THEN "recording" ELSE UploadStep(k))
      /\ \A k \in Attached : Parent(k)' = Parent(k)
  BY <1>1, GoFacts DEF UploadSteps
<1>p. Parent(i) \in Parents BY <1>1 DEF UploadKnows
<1>b. /\ parentLocks' \in [Parents -> Attached \cup {Nil}]
      /\ \A p \in Parents : parentLocks'[p] = IF p = Parent(i) THEN i ELSE parentLocks[p]
  BY <1>1 DEF AttachmentTypes
<1>3. AttachmentTypes' BY <1>1, <1>2, <1>b DEF AttachmentTypes
<1>i. \A k \in Attached : Nil # k BY UploadFields
<1>4. \A k \in Attached : UploadKnows(k)' BY <1>1, <1>2, <1>b, <1>p, <1>i DEF UploadKnows
<1>5. \A k \in Attached : SweepKnows(k)' BY <1>1, <1>2 DEF SweepKnows
<1>6. WithinLimit' /\ BinaryIsKept' /\ \A q : ActiveOf(q)' = ActiveOf(q) BY <1>1, RowsStay
<1>7. LocksKnow'
  <2> SUFFICES ASSUME NEW p \in Parents, parentLocks'[p] # Nil
               PROVE  /\ UploadStep(parentLocks[p])' = "recording" /\ Parent(parentLocks[p])' = p
                      /\ Cardinality(ActiveOf(p)') < MaxActive
    BY DEF LocksKnow
  <2>1. CASE p = Parent(i) BY <1>1, <1>2, <1>6, <1>b, <2>1 DEF Accepts
  <2>2. CASE p # Parent(i)
    <3>1. parentLocks'[p] = parentLocks[p] /\ parentLocks[p] \in Attached
      BY <1>b, <2>2 DEF AttachmentTypes
    <3>2. UploadStep(parentLocks[p]) = "recording" /\ Parent(parentLocks[p]) = p
      /\ Cardinality(ActiveOf(p)) < MaxActive BY <3>1 DEF LocksKnow
    <3>3. parentLocks[p] # i BY <3>2, <1>1
    <3> QED BY <3>1, <3>2, <3>3, <1>2, <1>6
  <2> QED BY <2>1, <2>2
<1> QED BY <1>3, <1>4, <1>5, <1>6, <1>7

LEMMA UnlockFacts ==
    ASSUME AttachmentTypes, NEW i \in Attached, Unlock(i)
    PROVE  /\ parentLocks' \in [Parents -> Attached \cup {Nil}]
           /\ \A p \in Parents : parentLocks'[p] = (IF parentLocks[p] = i THEN Nil ELSE parentLocks[p])
BY DEF AttachmentTypes, Unlock

\* An upload that gives up, before or after it has the row of the parent.
LEMMA UploadEnds ==
    ASSUME AttachmentIInv, NEW i \in Attached, NEW step \in {"compensating", "over"}, UploadGoes(i, step),
           Unlock(i), UNCHANGED <<today, parents, attachments, binaries, sweep, lost>>,
           UploadStep(i) \in {"stored", "recording", "compensating"}
    PROVE  AttachmentIInv'
<1> USE DEF AttachmentIInv
<1>2. /\ uploads' \in [Attached -> [step : UploadSteps, parent : Parents \cup {Nil}]]
      /\ \A k \in Attached : UploadStep(k)' = (IF k = i THEN step ELSE UploadStep(k))
      /\ \A k \in Attached : Parent(k)' = Parent(k)
  BY GoFacts DEF UploadSteps
<1>b. /\ parentLocks' \in [Parents -> Attached \cup {Nil}]
      /\ \A p \in Parents : parentLocks'[p] = (IF parentLocks[p] = i THEN Nil ELSE parentLocks[p])
  BY UnlockFacts
<1>3. AttachmentTypes' BY <1>2, <1>b DEF AttachmentTypes
<1>4. \A k \in Attached : UploadKnows(k)' BY <1>2, <1>b DEF UploadKnows
<1>5. \A k \in Attached : SweepKnows(k)' BY <1>2 DEF SweepKnows
<1>6. WithinLimit' /\ BinaryIsKept' /\ \A q : ActiveOf(q)' = ActiveOf(q) BY RowsStay
<1>7. LocksKnow'
  <2> SUFFICES ASSUME NEW p \in Parents, parentLocks'[p] # Nil
               PROVE  /\ UploadStep(parentLocks[p])' = "recording" /\ Parent(parentLocks[p])' = p
                      /\ Cardinality(ActiveOf(p)') < MaxActive
    BY DEF LocksKnow
  <2>1. parentLocks[p] # i /\ parentLocks'[p] = parentLocks[p] /\ parentLocks[p] \in Attached
    BY <1>b DEF AttachmentTypes
  <2>2. UploadStep(parentLocks[p]) = "recording" /\ Parent(parentLocks[p]) = p
      /\ Cardinality(ActiveOf(p)) < MaxActive BY <2>1 DEF LocksKnow
  <2> QED BY <2>1, <2>2, <1>2, <1>6
<1> QED BY <1>3, <1>4, <1>5, <1>6, <1>7

LEMMA CreateFailsKeeps ==
    ASSUME AttachmentIInv, NEW i \in Attached, CreateFails(i)
    PROVE  AttachmentIInv'
BY UploadEnds DEF CreateFails

LEMMA UploadCrashesKeeps ==
    ASSUME AttachmentIInv, NEW i \in Attached, UploadCrashes(i)
    PROVE  AttachmentIInv'
BY UploadEnds DEF UploadCrashes

LEMMA CreateRefusedKeeps ==
    ASSUME AttachmentIInv, NEW i \in Attached, CreateRefused(i)
    PROVE  AttachmentIInv'
<1>1. /\ UNCHANGED <<today, parents, parentLocks, attachments, binaries, sweep, lost>>
      /\ UploadStep(i) = "stored" /\ UploadGoes(i, "compensating")
  BY DEF CreateRefused
<1>2. \A p \in Parents : parentLocks[p] # i
  BY <1>1, UploadFields DEF AttachmentIInv, LocksKnow
<1>3. Unlock(i) BY <1>1, <1>2 DEF Unlock, AttachmentIInv, AttachmentTypes
<1> QED BY <1>1, <1>3, UploadEnds

\* The row of an attachment is inserted: the parent has one more, and could have it.
LEMMA RecordFacts ==
    ASSUME AttachmentIInv, NEW i \in Attached, UploadStep(i) = "recording", Record(i)
    PROVE  /\ attachments' \in [Attached -> AttachmentRows \cup {Nil}]
           /\ IsFiniteSet({k \in Attached : attachments'[k] # Nil})
           /\ attachments'[i] # Nil /\ attachments'[i].removed = Nil
           /\ \A k \in Attached : k # i => attachments'[k] = attachments[k]
           /\ \A p \in Parents : Cardinality(ActiveOf(p)') <= MaxActive
           /\ \A p \in Parents : p # Parent(i) => ActiveOf(p)' = ActiveOf(p)
<1> DEFINE row == [parent |-> Parent(i), removed |-> Nil]
<1>0. PICK p \in Parents : p = Parent(i) BY DEF AttachmentIInv, UploadKnows
<1>1. parentLocks[p] = i /\ attachments[i] = Nil
  BY <1>0 DEF AttachmentIInv, UploadKnows
<1>2. row \in AttachmentRows /\ row # Nil BY <1>0, AttachmentAssumption DEF AttachmentRows
<1>3. attachments' = [attachments EXCEPT ![i] = row] BY DEF Record
<1>4. /\ attachments' \in [Attached -> AttachmentRows \cup {Nil}]
      /\ attachments'[i] = row
      /\ \A k \in Attached : k # i => attachments'[k] = attachments[k]
  BY <1>2, <1>3 DEF AttachmentIInv, AttachmentTypes
<1>6. IsFiniteSet({k \in Attached : attachments'[k] # Nil})
  <2> DEFINE old == {k \in Attached : attachments[k] # Nil}
             new == {k \in Attached : attachments'[k] # Nil}
  <2>1. new = old \cup {i} BY <1>1, <1>2, <1>4
  <2>2. IsFiniteSet(old) BY DEF AttachmentIInv, AttachmentTypes
  <2> HIDE DEF old, new
  <2>3. IsFiniteSet(new) BY <2>1, <2>2, FS_AddElement
  <2> QED BY <2>3 DEF new
<1>7. ActiveOf(p)' = ActiveOf(p) \cup {i} /\ i \notin ActiveOf(p)
  BY <1>0, <1>1, <1>2, <1>4 DEF ActiveOf, Active
<1>8. \A q \in Parents : q # p => ActiveOf(q)' = ActiveOf(q)
  BY <1>0, <1>1, <1>4 DEF ActiveOf, Active
<1>9. Cardinality(ActiveOf(p)) < MaxActive /\ Cardinality(ActiveOf(p)) \in Nat /\ IsFiniteSet(ActiveOf(p))
  BY <1>1, ActivesFinite, UploadFields DEF AttachmentIInv, LocksKnow
<1>10. Cardinality(ActiveOf(p)') <= MaxActive
  <2>1. Cardinality(ActiveOf(p) \cup {i}) = Cardinality(ActiveOf(p)) + 1
    BY <1>7, <1>9, FS_AddElement
  <2>2. Cardinality(ActiveOf(p)') = Cardinality(ActiveOf(p)) + 1 BY <1>7, <2>1
  <2> QED BY <1>9, <2>2, AttachmentAssumption
<1>11. \A q \in Parents : Cardinality(ActiveOf(q)') <= MaxActive
  <2> SUFFICES ASSUME NEW q \in Parents PROVE Cardinality(ActiveOf(q)') <= MaxActive
    OBVIOUS
  <2>1. CASE q = p BY <1>10, <2>1
  <2>2. CASE q # p BY <1>8, <2>2 DEF AttachmentIInv, WithinLimit
  <2> QED BY <2>1, <2>2
<1> QED BY <1>0, <1>2, <1>4, <1>6, <1>8, <1>11

LEMMA CreateKeeps ==
    ASSUME AttachmentIInv, NEW i \in Attached, UploadStep(i) = "recording", Record(i), Unlock(i),
           NEW step \in {"compensating", "over"}, UploadGoes(i, step),
           UNCHANGED <<today, parents, binaries, sweep>>,
           \/ step = "over" /\ lost' = lost
           \/ step = "compensating" /\ lost' = lost \cup {i}
    PROVE  AttachmentIInv'
<1> USE DEF AttachmentIInv
<1>1. /\ attachments' \in [Attached -> AttachmentRows \cup {Nil}]
      /\ IsFiniteSet({k \in Attached : attachments'[k] # Nil})
      /\ attachments'[i] # Nil /\ attachments'[i].removed = Nil
      /\ \A k \in Attached : k # i => attachments'[k] = attachments[k]
      /\ \A p \in Parents : Cardinality(ActiveOf(p)') <= MaxActive
      /\ \A p \in Parents : p # Parent(i) => ActiveOf(p)' = ActiveOf(p)
  BY RecordFacts
<1>2. /\ uploads' \in [Attached -> [step : UploadSteps, parent : Parents \cup {Nil}]]
      /\ \A k \in Attached : UploadStep(k)' = (IF k = i THEN step ELSE UploadStep(k))
      /\ \A k \in Attached : Parent(k)' = Parent(k)
  BY GoFacts DEF UploadSteps
<1>b. /\ parentLocks' \in [Parents -> Attached \cup {Nil}]
      /\ \A p \in Parents : parentLocks'[p] = (IF parentLocks[p] = i THEN Nil ELSE parentLocks[p])
  BY UnlockFacts
<1>l. /\ i \in lost' \/ step = "over"
      /\ \A k \in Attached : k # i => (k \in lost' <=> k \in lost)
      /\ lost' \in SUBSET Attached
  BY DEF AttachmentTypes
<1>3. AttachmentTypes' BY <1>1, <1>2, <1>b, <1>l DEF AttachmentTypes
<1>u. binaries[i] # Nil /\ attachments[i] = Nil BY DEF UploadKnows
<1>4. \A k \in Attached : UploadKnows(k)' BY <1>1, <1>2, <1>b, <1>l DEF UploadKnows
<1>5. \A k \in Attached : SweepKnows(k)'
  <2>1. i \notin sweep.listed \cup sweep.orphans \cup sweep.removed BY <1>u DEF SweepKnows
  <2> QED BY <1>1, <1>2, <2>1 DEF SweepKnows
<1>6. WithinLimit' BY <1>1 DEF WithinLimit
<1>7. BinaryIsKept'
  <2> SUFFICES ASSUME NEW k \in Attached, k \notin lost', attachments'[k] # Nil,
                      Active(k)' \/ today < attachments'[k].removed + RemovedRetention
               PROVE  binaries[k] # Nil
    BY DEF BinaryIsKept
  <2>1. CASE k = i BY <1>u, <2>1
  <2>2. CASE k # i BY <1>1, <1>l, <2>2 DEF BinaryIsKept, Active
  <2> QED BY <2>1, <2>2
<1>8. LocksKnow'
  <2> SUFFICES ASSUME NEW p \in Parents, parentLocks'[p] # Nil
               PROVE  /\ UploadStep(parentLocks[p])' = "recording" /\ Parent(parentLocks[p])' = p
                      /\ Cardinality(ActiveOf(p)') < MaxActive /\ parentLocks'[p] = parentLocks[p]
    BY DEF LocksKnow
  <2>1. parentLocks[p] # i /\ parentLocks'[p] = parentLocks[p] /\ parentLocks[p] \in Attached
    BY <1>b DEF AttachmentTypes
  <2>2. UploadStep(parentLocks[p]) = "recording" /\ Parent(parentLocks[p]) = p
      /\ Cardinality(ActiveOf(p)) < MaxActive BY <2>1 DEF LocksKnow
  <2>3. p # Parent(i) BY <2>1 DEF UploadKnows
  <2> QED BY <2>1, <2>2, <2>3, <1>1, <1>2
<1> QED BY <1>3, <1>4, <1>5, <1>6, <1>7, <1>8

LEMMA CommitCreateKeeps ==
    ASSUME AttachmentIInv, NEW i \in Attached, CommitCreate(i)
    PROVE  AttachmentIInv'
BY CreateKeeps DEF CommitCreate

LEMMA CreateAnswerLostKeeps ==
    ASSUME AttachmentIInv, NEW i \in Attached, CreateAnswerLost(i)
    PROVE  AttachmentIInv'
BY CreateKeeps DEF CreateAnswerLost

\* A binary may be deleted that no row refers to or will refer to, or whose retention is over.
Deletable(i) ==
    /\ UploadStep(i) \in {"compensating", "over"}
    /\ \/ attachments[i] = Nil \/ i \in lost
       \/ attachments[i].removed # Nil /\ attachments[i].removed <= today - RemovedRetention

LEMMA DeletionFacts ==
    ASSUME AttachmentIInv, NEW i \in Attached, Deletable(i), NEW day \in {Nil, binaries[i]},
           binaries' = [binaries EXCEPT ![i] = day], UNCHANGED <<today, attachments, lost>>
    PROVE  /\ binaries' \in [Attached -> Nat \cup {Nil}]
           /\ \A k \in Attached : k # i => binaries'[k] = binaries[k]
           /\ WithinLimit' /\ BinaryIsKept'
           /\ \A p : ActiveOf(p)' = ActiveOf(p)
<1>1. /\ binaries' \in [Attached -> Nat \cup {Nil}]
      /\ \A k \in Attached : k # i => binaries'[k] = binaries[k]
  BY DEF AttachmentIInv, AttachmentTypes
<1>2. \A p : ActiveOf(p)' = ActiveOf(p) BY DEF ActiveOf, Active
<1>3. WithinLimit' BY <1>2 DEF AttachmentIInv, WithinLimit
<1>4. BinaryIsKept'
  <2> SUFFICES ASSUME NEW k \in Attached, k \notin lost, attachments[k] # Nil,
                      Active(k) \/ today < attachments[k].removed + RemovedRetention
               PROVE  binaries'[k] # Nil
    BY DEF BinaryIsKept, Active
  <2>1. CASE k = i
    <3>1. attachments[i].removed \in Nat /\ attachments[i].removed <= today - RemovedRetention
          /\ today < attachments[i].removed + RemovedRetention
      BY <2>1, UploadFields DEF Deletable, Active, AttachmentIInv
    <3> QED BY <3>1, UploadFields, AttachmentAssumption DEF AttachmentIInv
  <2>2. CASE k # i BY <1>1, <2>2 DEF BinaryIsKept, AttachmentIInv
  <2> QED BY <2>1, <2>2
<1> QED BY <1>1, <1>2, <1>3, <1>4

LEMMA CompensateKeeps ==
    ASSUME AttachmentIInv, NEW i \in Attached, Compensate(i)
    PROVE  AttachmentIInv'
<1> USE DEF AttachmentIInv
<1>1. PICK day \in {Nil, binaries[i]} :
        /\ UNCHANGED <<today, parents, parentLocks, attachments, sweep, lost>>
        /\ UploadStep(i) = "compensating" /\ UploadGoes(i, "over") /\ binaries' = [binaries EXCEPT ![i] = day]
  BY DEF Compensate
<1>2. /\ uploads' \in [Attached -> [step : UploadSteps, parent : Parents \cup {Nil}]]
      /\ \A k \in Attached : UploadStep(k)' = (IF k = i THEN "over" ELSE UploadStep(k))
      /\ \A k \in Attached : Parent(k)' = Parent(k)
  BY <1>1, GoFacts DEF UploadSteps
<1>d. Deletable(i) BY <1>1 DEF UploadKnows, Deletable
<1>b. /\ binaries' \in [Attached -> Nat \cup {Nil}]
      /\ \A k \in Attached : k # i => binaries'[k] = binaries[k]
      /\ WithinLimit' /\ BinaryIsKept'
      /\ \A p : ActiveOf(p)' = ActiveOf(p)
  BY <1>1, <1>d, DeletionFacts
<1>3. AttachmentTypes' BY <1>1, <1>2, <1>b DEF AttachmentTypes
<1>4. \A k \in Attached : UploadKnows(k)' BY <1>1, <1>2, <1>b DEF UploadKnows
<1>5. \A k \in Attached : SweepKnows(k)' BY <1>1, <1>2 DEF SweepKnows
<1>7. LocksKnow' BY <1>1, <1>2, <1>b, UploadFields DEF LocksKnow, AttachmentTypes
<1> QED BY <1>3, <1>4, <1>5, <1>b, <1>7

\* A clean-up deletes one binary of those it has listed.
LEMMA PurgeKeeps ==
    ASSUME AttachmentIInv, NEW i \in Attached, Deletable(i), NEW day \in {Nil, binaries[i]},
           binaries' = [binaries EXCEPT ![i] = day],
           UNCHANGED <<today, parents, parentLocks, uploads, attachments, lost>>,
           sweep' \in [removed : SUBSET sweep.removed, listed : SUBSET sweep.listed,
                       orphans : SUBSET sweep.orphans]
    PROVE  AttachmentIInv'
<1> USE DEF AttachmentIInv
<1>b. /\ binaries' \in [Attached -> Nat \cup {Nil}]
      /\ \A k \in Attached : k # i => binaries'[k] = binaries[k]
      /\ WithinLimit' /\ BinaryIsKept'
      /\ \A p : ActiveOf(p)' = ActiveOf(p)
  BY DeletionFacts
<1>2. \A k \in Attached : UploadStep(k)' = UploadStep(k) /\ Parent(k)' = Parent(k) BY DEF UploadStep, Parent
<1>3. AttachmentTypes' BY <1>b DEF AttachmentTypes
<1>4. \A k \in Attached : UploadKnows(k)' BY <1>2, <1>b DEF UploadKnows, Deletable
<1>5. \A k \in Attached : SweepKnows(k)' BY <1>2 DEF SweepKnows
<1>7. LocksKnow' BY <1>2, <1>b, UploadFields DEF LocksKnow, AttachmentTypes
<1> QED BY <1>3, <1>4, <1>5, <1>b, <1>7

LEMMA PurgeRemovedBinaryKeeps ==
    ASSUME AttachmentIInv, NEW i \in Attached, PurgeRemovedBinary(i)
    PROVE  AttachmentIInv'
<1>1. PICK day \in {Nil, binaries[i]} :
        /\ UNCHANGED <<today, parents, parentLocks, uploads, attachments, lost>>
        /\ i \in sweep.removed /\ binaries' = [binaries EXCEPT ![i] = day]
        /\ sweep' = [sweep EXCEPT !.removed = @ \ {i}]
  BY DEF PurgeRemovedBinary
<1>2. Deletable(i)
  BY <1>1, UploadFields DEF AttachmentIInv, UploadKnows, SweepKnows, Deletable, UploadSteps
<1>3. sweep' \in [removed : SUBSET sweep.removed, listed : SUBSET sweep.listed,
                  orphans : SUBSET sweep.orphans]
  BY <1>1 DEF AttachmentIInv, AttachmentTypes
<1> QED BY <1>1, <1>2, <1>3, PurgeKeeps

LEMMA PurgeOrphanBinaryKeeps ==
    ASSUME AttachmentIInv, NEW i \in Attached, PurgeOrphanBinary(i)
    PROVE  AttachmentIInv'
<1>1. PICK day \in {Nil, binaries[i]} :
        /\ UNCHANGED <<today, parents, parentLocks, uploads, attachments, lost>>
        /\ i \in sweep.orphans /\ binaries' = [binaries EXCEPT ![i] = day]
        /\ sweep' = [sweep EXCEPT !.orphans = @ \ {i}]
  BY DEF PurgeOrphanBinary
<1>2. Deletable(i) BY <1>1 DEF AttachmentIInv, SweepKnows, Deletable
<1>3. sweep' \in [removed : SUBSET sweep.removed, listed : SUBSET sweep.listed,
                  orphans : SUBSET sweep.orphans]
  BY <1>1 DEF AttachmentIInv, AttachmentTypes
<1> QED BY <1>1, <1>2, <1>3, PurgeKeeps

\* A clean-up lists what it will delete.
LEMMA ListingKeeps ==
    ASSUME AttachmentIInv,
           UNCHANGED <<today, parents, parentLocks, uploads, attachments, binaries, lost>>,
           sweep' \in [removed : SUBSET Attached, listed : SUBSET Attached, orphans : SUBSET Attached],
           \A k \in Attached : SweepKnows(k)'
    PROVE  AttachmentIInv'
<1> USE DEF AttachmentIInv
<1>2. \A k \in Attached : UploadStep(k)' = UploadStep(k) /\ Parent(k)' = Parent(k) BY DEF UploadStep, Parent
<1>3. AttachmentTypes' BY DEF AttachmentTypes
<1>4. \A k \in Attached : UploadKnows(k)' BY <1>2 DEF UploadKnows
<1>6. WithinLimit' /\ BinaryIsKept' /\ \A p : ActiveOf(p)' = ActiveOf(p) BY RowsStay
<1>7. LocksKnow' BY <1>2, <1>6, UploadFields DEF LocksKnow, AttachmentTypes
<1> QED BY <1>3, <1>4, <1>6, <1>7

LEMMA ListRemovedForBinaryPurgeKeeps ==
    ASSUME AttachmentIInv, ListRemovedForBinaryPurge
    PROVE  AttachmentIInv'
<1>1. /\ UNCHANGED <<today, parents, parentLocks, uploads, attachments, binaries, lost>>
      /\ sweep' = [sweep EXCEPT !.removed =
           {i \in Attached : /\ attachments[i] # Nil
                             /\ attachments[i].removed # Nil
                             /\ attachments[i].removed <= today - RemovedRetention}]
  BY DEF ListRemovedForBinaryPurge
<1>2. sweep' \in [removed : SUBSET Attached, listed : SUBSET Attached, orphans : SUBSET Attached]
  BY <1>1 DEF AttachmentIInv, AttachmentTypes
<1>3. \A k \in Attached : SweepKnows(k)'
  BY <1>1 DEF AttachmentIInv, AttachmentTypes, SweepKnows, UploadStep
<1> QED BY <1>1, <1>2, <1>3, ListingKeeps

\* What is old enough is of no upload under way.
LEMMA ListObjectsKeeps ==
    ASSUME AttachmentIInv, ListObjects
    PROVE  AttachmentIInv'
<1> DEFINE old == {i \in Attached : binaries[i] # Nil /\ OldEnough(binaries[i])}
<1>1. /\ UNCHANGED <<today, parents, parentLocks, uploads, attachments, binaries, lost>>
      /\ sweep' = [sweep EXCEPT !.listed = old] /\ sweep.orphans = {}
  BY DEF ListObjects
<1>2. sweep' \in [removed : SUBSET Attached, listed : SUBSET Attached, orphans : SUBSET Attached]
  BY <1>1 DEF AttachmentIInv, AttachmentTypes
<1>3. ASSUME NEW k \in old PROVE UploadStep(k) \in {"compensating", "over"}
  <2>1. binaries[k] \in Nat /\ binaries[k] <= today - OrphanRetention /\ today \in Nat
    BY UploadFields DEF OldEnough, AttachmentIInv
  <2>2. ~(today - binaries[k] < OrphanRetention) BY <2>1, AttachmentAssumption
  <2> QED BY <2>2, UploadFields DEF UploadKnows, UploadSteps, AttachmentIInv
<1> HIDE DEF old
<1>4. sweep'.removed = sweep.removed /\ sweep'.listed = old /\ sweep'.orphans = {}
  BY <1>1 DEF AttachmentIInv, AttachmentTypes
<1>5. \A k \in Attached : SweepKnows(k)'
  BY <1>1, <1>3, <1>4 DEF AttachmentIInv, SweepKnows, UploadStep
<1> QED BY <1>1, <1>2, <1>5, ListingKeeps

LEMMA ReferencedObjectKeysKeeps ==
    ASSUME AttachmentIInv, ReferencedObjectKeys
    PROVE  AttachmentIInv'
<1>1. /\ UNCHANGED <<today, parents, parentLocks, uploads, attachments, binaries, lost>>
      /\ sweep' = [sweep EXCEPT !.listed = {}, !.orphans = {i \in sweep.listed : attachments[i] = Nil}]
  BY DEF ReferencedObjectKeys
<1>2. sweep' \in [removed : SUBSET Attached, listed : SUBSET Attached, orphans : SUBSET Attached]
  BY <1>1 DEF AttachmentIInv, AttachmentTypes
<1>3. \A k \in Attached : SweepKnows(k)'
  BY <1>1 DEF AttachmentIInv, AttachmentTypes, SweepKnows, UploadStep
<1> QED BY <1>1, <1>2, <1>3, ListingKeeps

\* A row is marked as removed, under the lock of its parent.
LEMMA RemoveFacts ==
    ASSUME AttachmentIInv, NEW i \in Attached, Remove(i)
    PROVE  /\ UNCHANGED <<today, parents, parentLocks, uploads, binaries, sweep, lost>>
           /\ attachments' \in [Attached -> AttachmentRows \cup {Nil}]
           /\ attachments[i] # Nil /\ attachments[i].removed = Nil
           /\ parentLocks[attachments[i].parent] = Nil
           /\ attachments'[i] # Nil /\ attachments'[i].removed = today
           /\ attachments'[i].parent = attachments[i].parent
           /\ \A k \in Attached : k # i => attachments'[k] = attachments[k]
<1>1. /\ UNCHANGED <<today, parents, parentLocks, uploads, binaries, sweep, lost>>
      /\ attachments' = [attachments EXCEPT ![i].removed = today]
      /\ attachments[i] # Nil /\ attachments[i].removed = Nil
      /\ parentLocks[attachments[i].parent] = Nil
  BY DEF Remove, Active
<1>2. attachments[i] \in AttachmentRows /\ today \in Nat BY <1>1, UploadFields DEF AttachmentIInv
<1> DEFINE row == [attachments[i] EXCEPT !.removed = today]
<1>3. row \in AttachmentRows /\ row.removed = today /\ row.parent = attachments[i].parent
  BY <1>2 DEF AttachmentRows
<1>4. row # Nil BY <1>3, AttachmentAssumption
<1>5. attachments' = [attachments EXCEPT ![i] = row] BY <1>1
<1> HIDE DEF row
<1>6. /\ attachments' \in [Attached -> AttachmentRows \cup {Nil}]
      /\ attachments'[i] = row
      /\ \A k \in Attached : k # i => attachments'[k] = attachments[k]
  BY <1>3, <1>5 DEF AttachmentIInv, AttachmentTypes
<1> QED BY <1>1, <1>3, <1>4, <1>6

LEMMA RemoveKeeps ==
    ASSUME AttachmentIInv, NEW i \in Attached, Remove(i)
    PROVE  AttachmentIInv'
<1> USE DEF AttachmentIInv
<1>1. /\ UNCHANGED <<today, parents, parentLocks, uploads, binaries, sweep, lost>>
      /\ attachments' \in [Attached -> AttachmentRows \cup {Nil}]
      /\ attachments[i] # Nil /\ attachments[i].removed = Nil
      /\ parentLocks[attachments[i].parent] = Nil
      /\ attachments'[i] # Nil /\ attachments'[i].removed = today
      /\ attachments'[i].parent = attachments[i].parent
      /\ \A k \in Attached : k # i => attachments'[k] = attachments[k]
  BY RemoveFacts
<1>2. \A k \in Attached : UploadStep(k)' = UploadStep(k) /\ Parent(k)' = Parent(k) BY <1>1 DEF UploadStep, Parent
<1>t. today \in Nat /\ Nil \notin Nat BY UploadFields
<1>r. \A k \in Attached : attachments'[k] = Nil <=> attachments[k] = Nil BY <1>1
<1>f. IsFiniteSet({k \in Attached : attachments'[k] # Nil})
  <2>1. {k \in Attached : attachments'[k] # Nil} = {k \in Attached : attachments[k] # Nil} BY <1>r
  <2> QED BY <2>1 DEF AttachmentTypes
<1>3. AttachmentTypes' BY <1>1, <1>f DEF AttachmentTypes
<1>4. \A k \in Attached : UploadKnows(k)' BY <1>1, <1>2, <1>r DEF UploadKnows
<1>5. \A k \in Attached : SweepKnows(k)'
  <2>1. i \notin sweep.removed BY <1>1 DEF SweepKnows
  <2> QED BY <1>1, <1>2, <1>r, <2>1 DEF SweepKnows
<1>6. \A p : ActiveOf(p)' = ActiveOf(p) \ {i} BY <1>1, <1>t DEF ActiveOf, Active
<1>7. \A p \in Parents : Cardinality(ActiveOf(p)') <= Cardinality(ActiveOf(p))
          /\ Cardinality(ActiveOf(p)') \in Nat /\ Cardinality(ActiveOf(p)) \in Nat
  BY <1>6, ActivesFinite, FS_Subset, FS_CardinalityType
<1>8. WithinLimit' BY <1>7, AttachmentAssumption DEF WithinLimit
<1>9. BinaryIsKept'
  <2> SUFFICES ASSUME NEW k \in Attached, k \notin lost, attachments'[k] # Nil,
                      Active(k)' \/ today < attachments'[k].removed + RemovedRetention
               PROVE  binaries[k] # Nil
    BY <1>1 DEF BinaryIsKept
  <2> QED BY <1>1 DEF BinaryIsKept, Active
<1>10. LocksKnow'
  <2> SUFFICES ASSUME NEW p \in Parents, parentLocks[p] # Nil
               PROVE  /\ UploadStep(parentLocks[p])' = "recording" /\ Parent(parentLocks[p])' = p
                      /\ Cardinality(ActiveOf(p)') < MaxActive
    BY <1>1 DEF LocksKnow
  <2>1. parentLocks[p] \in Attached BY DEF AttachmentTypes
  <2>2. UploadStep(parentLocks[p]) = "recording" /\ Parent(parentLocks[p]) = p
        /\ Cardinality(ActiveOf(p)) < MaxActive
    BY DEF LocksKnow
  <2>3. Cardinality(ActiveOf(p)') < MaxActive BY <1>7, <2>2, AttachmentAssumption
  <2>4. PICK k \in Attached : k = parentLocks[p] BY <2>1
  <2>5. UploadStep(k)' = "recording" /\ Parent(k)' = p BY <1>2, <2>2, <2>4
  <2> QED BY <1>1, <2>3, <2>4, <2>5
<1> QED BY <1>3, <1>4, <1>5, <1>8, <1>9, <1>10

LEMMA CycleParentKeeps ==
    ASSUME AttachmentIInv, NEW q \in Parents, CycleParent(q)
    PROVE  AttachmentIInv'
<1> USE DEF AttachmentIInv
<1>1. /\ UNCHANGED <<today, parentLocks, uploads, attachments, binaries, sweep, lost>>
      /\ parents' \in [Parents -> BOOLEAN]
  BY DEF CycleParent, AttachmentTypes
<1>2. \A k \in Attached : UploadStep(k)' = UploadStep(k) /\ Parent(k)' = Parent(k) BY <1>1 DEF UploadStep, Parent
<1>3. AttachmentTypes' BY <1>1 DEF AttachmentTypes
<1>4. \A k \in Attached : UploadKnows(k)' /\ SweepKnows(k)' BY <1>1, <1>2 DEF UploadKnows, SweepKnows
<1>6. WithinLimit' /\ BinaryIsKept' /\ \A p : ActiveOf(p)' = ActiveOf(p) BY <1>1, RowsStay
<1>7. LocksKnow' BY <1>1, <1>2, <1>6, UploadFields DEF LocksKnow, AttachmentTypes
<1> QED BY <1>3, <1>4, <1>6, <1>7

\* A day passes: no upload under way is as old as an orphan must be.
LEMMA TickKeepsAttachments ==
    ASSUME AttachmentIInv, Tick
    PROVE  AttachmentIInv'
<1> USE DEF AttachmentIInv
<1>1. /\ UNCHANGED <<parents, parentLocks, uploads, attachments, binaries, sweep, lost>>
      /\ today' = today + 1 /\ today \in Nat
  BY DEF Tick, AttachmentTypes
<1>2. \A k \in Attached : UploadStep(k)' = UploadStep(k) /\ Parent(k)' = Parent(k) BY <1>1 DEF UploadStep, Parent
<1>3. AttachmentTypes' BY <1>1 DEF AttachmentTypes
<1>4. \A k \in Attached : UploadKnows(k)'
  <2> SUFFICES ASSUME NEW k \in Attached PROVE UploadKnows(k)' OBVIOUS
  <2>1. UploadStep(k) \in {"stored", "recording"} =>
          binaries[k] # Nil /\ today' - binaries[k] < OrphanRetention
    <3>1. UploadStep(k) \in {"stored", "recording"} => binaries[k] # Nil BY DEF UploadKnows
    <3>2. UploadsAreShort BY DEF Tick
    <3>3. UploadStep(k) \in {"stored", "recording"} /\ binaries[k] # Nil
          => today + 1 - binaries[k] < OrphanRetention
      BY <3>2 DEF UploadsAreShort
    <3>4. binaries[k] \in Nat \cup {Nil} BY UploadFields
    <3> QED BY <1>1, <3>1, <3>3, <3>4, AttachmentAssumption
  <2> QED BY <1>1, <1>2, <2>1 DEF UploadKnows
<1>5. \A k \in Attached : SweepKnows(k)'
  <2> SUFFICES ASSUME NEW k \in Attached PROVE SweepKnows(k)' OBVIOUS
  <2>1. attachments[k] # Nil => attachments[k].removed \in Nat \cup {Nil} BY UploadFields
  <2>2. k \in sweep.removed => attachments[k].removed <= today' - RemovedRetention
    BY <1>1, <2>1, AttachmentAssumption DEF SweepKnows
  <2> QED BY <1>1, <1>2, <2>2 DEF SweepKnows
<1>6. \A p : ActiveOf(p)' = ActiveOf(p) BY <1>1 DEF ActiveOf, Active
<1>7. WithinLimit' BY <1>6 DEF WithinLimit
<1>8. BinaryIsKept'
  <2> SUFFICES ASSUME NEW k \in Attached, k \notin lost, attachments[k] # Nil,
                      Active(k) \/ today' < attachments[k].removed + RemovedRetention
               PROVE  binaries[k] # Nil
    BY <1>1 DEF BinaryIsKept, Active
  <2>1. attachments[k].removed \in Nat \cup {Nil} BY UploadFields
  <2>2. Active(k) \/ today < attachments[k].removed + RemovedRetention
    BY <1>1, <2>1, AttachmentAssumption DEF Active
  <2> QED BY <2>2 DEF BinaryIsKept
<1>9. LocksKnow' BY <1>1, <1>2, <1>6, UploadFields DEF LocksKnow, AttachmentTypes
<1> QED BY <1>3, <1>4, <1>5, <1>7, <1>8, <1>9

LEMMA AttachmentInitHolds ==
    ASSUME AttachmentInit
    PROVE  AttachmentIInv
<1> USE DEF AttachmentInit
<1>1. IsFiniteSet({i \in Attached : attachments[i] # Nil})
  <2>1. {i \in Attached : attachments[i] # Nil} = {} OBVIOUS
  <2> QED BY <2>1, FS_EmptySet
<1>2. AttachmentTypes BY <1>1 DEF AttachmentTypes, Upload, UploadSteps
<1>3. \A i \in Attached : UploadKnows(i) /\ SweepKnows(i)
  BY AttachmentAssumption DEF UploadKnows, SweepKnows, Upload, UploadStep, Parent
<1>4. LocksKnow BY DEF LocksKnow
<1>5. WithinLimit
  <2>1. \A p : ActiveOf(p) = {} BY DEF ActiveOf, Active
  <2>2. Cardinality({}) = 0 BY FS_EmptySet
  <2>3. 0 <= MaxActive BY AttachmentAssumption
  <2> QED BY <2>1, <2>2, <2>3 DEF WithinLimit
<1>6. BinaryIsKept BY DEF BinaryIsKept
<1> QED BY <1>2, <1>3, <1>4, <1>5, <1>6 DEF AttachmentIInv

LEMMA AttachmentNextKeeps ==
    ASSUME AttachmentIInv, AttachmentNext
    PROVE  AttachmentIInv'
BY AssertUploadAllowedKeeps, ScanRefusesKeeps, PutObjectKeeps, PutFailsKeeps, BeginCreateKeeps,
   CreateRefusedKeeps, CommitCreateKeeps, CreateAnswerLostKeeps, CreateFailsKeeps, CompensateKeeps,
   UploadCrashesKeeps, RemoveKeeps, PurgeRemovedBinaryKeeps, PurgeOrphanBinaryKeeps,
   CycleParentKeeps, ListRemovedForBinaryPurgeKeeps, ListObjectsKeeps, ReferencedObjectKeysKeeps
   DEF AttachmentNext

-----------------------------------------------------------------------------
(* Recovery points.                                                          *)

JobSteps == {"idle", "crashed", "dumping", "classifying", "reading", "protecting", "planning", "deleting"}

PointTypes ==
    /\ points \in [PointIds -> PointRows \cup {Nil}]
    /\ coherent \in [PointIds -> (SUBSET Attached) \cup {Nil}]
    /\ copies \in [Attached -> Nat \cup {Nil}]
    /\ jobs \in [Jobs -> [step : JobSteps, point : PointIds \cup {Nil},
                          work : SUBSET (Attached \cup PointIds), refs : SUBSET Attached,
                          day : Nat \cup {Nil}]]
    /\ jobLock \in Jobs \cup {Nil}
    /\ verified \in SUBSET PointIds
    /\ IsFiniteSet(verified)
    /\ published \in BOOLEAN
    /\ Listed \subseteq verified

\* An attachment that was active on that day, or later.
Since(i, day) ==
    /\ attachments[i] # Nil
    /\ attachments[i].removed = Nil \/ day <= attachments[i].removed

InventoriesKnow ==
    \A p \in Listed :
        /\ points[p].day <= today
        /\ \A i \in points[p].inventory : Since(i, points[p].day)

AtWork(j) == jobs[j].step \notin {"idle", "crashed"}

CreationKnows(j) ==
    /\ jobs[j].point \in PointIds \ verified
    /\ jobs[j].day \in Nat /\ jobs[j].day <= today

\* What a process that runs a command knows: no other runs one.
JobKnows(j) ==
    /\ AtWork(j) => jobLock = j
    /\ JobAt(j, "dumping") => CreationKnows(j)
    /\ JobAt(j, "classifying") =>
         /\ CreationKnows(j)
         /\ jobs[j].work \subseteq Attached
         /\ \A i \in jobs[j].work : Since(i, jobs[j].day)
    /\ JobAt(j, "reading") => jobs[j].point \in PointIds
    /\ JobAt(j, "protecting") =>
         /\ jobs[j].point \in Listed
         /\ jobs[j].work \cup jobs[j].refs = points[jobs[j].point].inventory
         /\ \A i \in jobs[j].refs : copies[i] # Nil
    /\ JobAt(j, "deleting") =>
         /\ \A p \in jobs[j].work : p \in Listed /\ IsRetentionExpired(p)
         /\ jobs[j].point \in jobs[j].work => coherent[jobs[j].point] = Nil
         /\ \A p \in PointIds : coherent[p] # Nil => p \in jobs[j].work \/ coherent[p] \subseteq jobs[j].refs
         /\ published => \E p \in Listed \ jobs[j].work : coherent[p] # Nil

PointIInv ==
    /\ PointTypes
    /\ \A j \in Jobs : JobKnows(j)
    /\ InventoriesKnow /\ CoherentIsComplete /\ SomePointRemains /\ MonthIsKept

IInv == AttachmentIInv /\ PointIInv

-----------------------------------------------------------------------------
\* Rows of attachments stay, and are removed on the day it is.
RowsGrow ==
    /\ today' \in Nat /\ today <= today'
    /\ \A i \in Attached : attachments[i] # Nil =>
         /\ attachments'[i] # Nil
         /\ attachments[i].removed = Nil => attachments'[i].removed = Nil \/ attachments'[i].removed = today
         /\ attachments[i].removed # Nil => attachments'[i].removed = attachments[i].removed

LEMMA SameRowsGrow ==
    ASSUME AttachmentIInv, UNCHANGED attachments, today' \in Nat, today <= today'
    PROVE  RowsGrow
BY UploadFields DEF AttachmentIInv, RowsGrow

LEMMA RecordGrows ==
    ASSUME AttachmentIInv, NEW i \in Attached, UploadStep(i) = "recording", Record(i), UNCHANGED today
    PROVE  RowsGrow
<1>1. \A k \in Attached : k # i => attachments'[k] = attachments[k] BY RecordFacts
<1>2. attachments[i] = Nil BY DEF AttachmentIInv, UploadKnows
<1>3. today \in Nat BY DEF AttachmentIInv, AttachmentTypes
<1> QED BY <1>1, <1>2, <1>3 DEF RowsGrow

LEMMA RemoveGrows ==
    ASSUME AttachmentIInv, NEW i \in Attached, Remove(i)
    PROVE  RowsGrow
<1>1. today \in Nat BY DEF AttachmentIInv, AttachmentTypes
<1> QED BY <1>1, RemoveFacts DEF RowsGrow

LEMMA AttachmentNextGrows ==
    ASSUME AttachmentIInv, AttachmentNext
    PROVE  RowsGrow
<1>0. today \in Nat BY DEF AttachmentIInv, AttachmentTypes
<1>1. ASSUME UNCHANGED <<today, attachments>> PROVE RowsGrow BY <1>0, <1>1, SameRowsGrow
<1>2. ASSUME NEW i \in Attached, CommitCreate(i) \/ CreateAnswerLost(i) PROVE RowsGrow
  BY <1>2, RecordGrows DEF CommitCreate, CreateAnswerLost
<1>3. ASSUME NEW i \in Attached, Remove(i) PROVE RowsGrow BY <1>3, RemoveGrows
<1>4. ASSUME NEW i \in Attached, NEW p \in Parents, AssertUploadAllowed(i, p)
      PROVE  UNCHANGED <<today, attachments>>
  BY <1>4 DEF AssertUploadAllowed
<1>5. ASSUME NEW i \in Attached,
             \/ ScanRefuses(i) \/ PutObject(i) \/ PutFails(i) \/ BeginCreate(i) \/ CreateRefused(i)
             \/ CreateFails(i) \/ Compensate(i) \/ UploadCrashes(i)
             \/ PurgeRemovedBinary(i) \/ PurgeOrphanBinary(i)
      PROVE  UNCHANGED <<today, attachments>>
  BY <1>5 DEF ScanRefuses, PutObject, PutFails, BeginCreate, CreateRefused, CreateFails, Compensate,
              UploadCrashes, PurgeRemovedBinary, PurgeOrphanBinary
<1>6. ASSUME \/ \E p \in Parents : CycleParent(p)
             \/ ListRemovedForBinaryPurge \/ ListObjects \/ ReferencedObjectKeys
      PROVE  UNCHANGED <<today, attachments>>
  BY <1>6 DEF CycleParent, ListRemovedForBinaryPurge, ListObjects, ReferencedObjectKeys
<1> QED BY <1>1, <1>2, <1>3, <1>4, <1>5, <1>6 DEF AttachmentNext

-----------------------------------------------------------------------------
LEMMA PointFields ==
    ASSUME PointTypes, NEW p \in PointIds
    PROVE  /\ Nil \notin Nat /\ p \in Nat /\ p # Nil
           /\ points[p] # Nil =>
                /\ points[p] \in PointRows
                /\ points[p].day \in Nat /\ points[p].class \in {"DAILY", "MONTHLY"}
                /\ points[p].inventory \subseteq Attached
           /\ coherent[p] # Nil => coherent[p] \subseteq Attached
BY AttachmentAssumption, PointsAssumption DEF PointTypes, PointRows

LEMMA JobFields ==
    ASSUME PointTypes, NEW j \in Jobs
    PROVE  /\ j # Nil
           /\ jobs[j].step \in JobSteps /\ jobs[j].point \in PointIds \cup {Nil}
           /\ jobs[j].work \subseteq Attached \cup PointIds /\ jobs[j].refs \subseteq Attached
           /\ jobs[j].day \in Nat \cup {Nil}
BY PointsAssumption DEF PointTypes

\* What one knew of an attachment stays true.
LEMMA SinceGrows ==
    ASSUME AttachmentTypes, RowsGrow, NEW i \in Attached, NEW day \in Nat, day <= today, Since(i, day)
    PROVE  Since(i, day)'
BY UploadFields DEF RowsGrow, Since

\* A point that was expired stays so.
LEMMA ExpiredStays ==
    ASSUME PointTypes, today \in Nat, today' \in Nat, today <= today', NEW p \in PointIds, points[p] # Nil,
           points'[p] = points[p], IsRetentionExpired(p)
    PROVE  IsRetentionExpired(p)'
BY PointFields, PointsAssumption DEF IsRetentionExpired

LEMMA PointsStay ==
    ASSUME IInv, RowsGrow, UNCHANGED pointVars
    PROVE  PointIInv'
<1> USE DEF IInv, PointIInv
<1>1. UNCHANGED <<points, coherent, copies, jobs, jobLock, run, verified, published>> BY DEF pointVars
<1>2. today \in Nat /\ today' \in Nat /\ today <= today' /\ AttachmentTypes
  BY DEF AttachmentIInv, AttachmentTypes, RowsGrow
<1>3. PointTypes' /\ CoherentIsComplete' /\ SomePointRemains' /\ Listed' = Listed
  BY <1>1 DEF PointTypes, CoherentIsComplete, SomePointRemains, Listed
<1>4. InventoriesKnow'
  <2> SUFFICES ASSUME NEW p \in PointIds, points[p] # Nil
               PROVE  /\ points[p].day <= today'
                      /\ \A i \in points[p].inventory : Since(i, points[p].day)'
    BY <1>1 DEF InventoriesKnow, Listed, Since
  <2>1. points[p].day \in Nat /\ points[p].day <= today /\ points[p].inventory \subseteq Attached
        /\ \A i \in points[p].inventory : Since(i, points[p].day)
    BY PointFields DEF InventoriesKnow, Listed
  <2>2. PICK day \in Nat : day = points[p].day BY <2>1
  <2>3. \A i \in points[p].inventory : Since(i, day)' BY <1>2, <2>1, <2>2, SinceGrows
  <2> QED BY <1>1, <1>2, <2>1, <2>2, <2>3 DEF Since
<1>5. ASSUME NEW j \in Jobs PROVE JobKnows(j)'
  <2>1. AtWork(j)' = AtWork(j) /\ \A step : JobAt(j, step)' = JobAt(j, step) BY <1>1 DEF AtWork, JobAt
  <2>2. CreationKnows(j) => CreationKnows(j)' BY <1>1, <1>2 DEF CreationKnows
  <2>3. JobAt(j, "classifying") => \A i \in jobs[j].work : Since(i, jobs[j].day)'
    <3> SUFFICES ASSUME JobAt(j, "classifying"), NEW i \in jobs[j].work PROVE Since(i, jobs[j].day)'
      BY <1>1 DEF Since
    <3>1. PICK day \in Nat : day = jobs[j].day /\ day <= today /\ i \in Attached /\ Since(i, day)
      BY DEF JobKnows, CreationKnows
    <3>2. Since(i, day)' BY <1>2, <3>1, SinceGrows
    <3> QED BY <1>1, <3>1, <3>2 DEF Since
  <2>4. JobAt(j, "deleting") => \A p \in jobs[j].work : p \in Listed /\ IsRetentionExpired(p)'
    <3> SUFFICES ASSUME JobAt(j, "deleting"), NEW p \in jobs[j].work
                 PROVE  p \in Listed /\ IsRetentionExpired(p)'
      OBVIOUS
    <3>1. p \in PointIds /\ points[p] # Nil /\ IsRetentionExpired(p) BY DEF JobKnows, Listed
    <3> QED BY <1>1, <1>2, <3>1, ExpiredStays DEF Listed
  <2>5. JobKnows(j) OBVIOUS
  <2> QED BY <1>1, <1>3, <2>1, <2>2, <2>3, <2>4, <2>5 DEF JobKnows
<1>6. MonthIsKept'
  <2> SUFFICES ASSUME NEW p \in Listed, points[p].class = "DAILY",
                      today - points[p].day > MonthlyRetention - DaysOfMonth
               PROVE  today' - points[p].day > MonthlyRetention - DaysOfMonth
    BY <1>1, <1>3 DEF MonthIsKept
  <2>1. points[p].day \in Nat BY PointFields DEF Listed
  <2> QED BY <1>2, <2>1, PointsAssumption
<1> QED BY <1>3, <1>4, <1>5, <1>6

-----------------------------------------------------------------------------
JobRows == [step : JobSteps, point : PointIds \cup {Nil}, work : SUBSET (Attached \cup PointIds),
            refs : SUBSET Attached, day : Nat \cup {Nil}]

LEMMA AttachmentsRest ==
    ASSUME AttachmentIInv, UNCHANGED attachmentVars
    PROVE  AttachmentIInv'
<1> USE DEF AttachmentIInv
<1>1. UNCHANGED <<today, parents, parentLocks, uploads, attachments, binaries, sweep, lost>>
  BY DEF attachmentVars
<1>2. \A i \in Attached : UploadStep(i)' = UploadStep(i) /\ Parent(i)' = Parent(i) BY <1>1 DEF UploadStep, Parent
<1>3. AttachmentTypes' BY <1>1 DEF AttachmentTypes
<1>4. \A i \in Attached : UploadKnows(i)' /\ SweepKnows(i)' BY <1>1, <1>2 DEF UploadKnows, SweepKnows
<1>5. WithinLimit' /\ BinaryIsKept' /\ \A p : ActiveOf(p)' = ActiveOf(p) BY <1>1, RowsStay
<1>6. LocksKnow' BY <1>1, <1>2, <1>5, UploadFields DEF LocksKnow, AttachmentTypes
<1> QED BY <1>3, <1>4, <1>5, <1>6

\* The processes exclude each other.
LEMMA Alone ==
    ASSUME PointIInv, NEW j \in Jobs, AtWork(j), NEW k \in Jobs, k # j
    PROVE  ~AtWork(k)
BY DEF PointIInv, JobKnows

LEMMA AtRestKnows ==
    ASSUME NEW j \in Jobs, ~AtWork(j)'
    PROVE  JobKnows(j)'
BY DEF AtWork, JobAt, JobKnows

LEMMA AtRest ==
    ASSUME NEW j \in Jobs, ~AtWork(j), jobs'[j] = jobs[j]
    PROVE  JobKnows(j)'
<1>1. ~AtWork(j)' BY DEF AtWork
<1> QED BY <1>1, AtRestKnows

\* What every step but those that write a point or delete one leaves as it is.
LEMMA BooksRest ==
    ASSUME PointIInv, UNCHANGED <<today, attachments, points, coherent, verified, published>>,
           \A i \in Attached : copies[i] # Nil => copies'[i] # Nil
    PROVE  /\ Listed' = Listed /\ Listed' \subseteq verified'
           /\ points' \in [PointIds -> PointRows \cup {Nil}]
           /\ coherent' \in [PointIds -> (SUBSET Attached) \cup {Nil}]
           /\ verified' \in SUBSET PointIds /\ IsFiniteSet(verified') /\ published' \in BOOLEAN
           /\ InventoriesKnow' /\ CoherentIsComplete' /\ SomePointRemains' /\ MonthIsKept'
<1> USE DEF PointIInv
<1>1. Listed' = Listed BY DEF Listed
<1>2. InventoriesKnow' BY <1>1 DEF InventoriesKnow, Since
<1>3. CoherentIsComplete' BY PointFields DEF CoherentIsComplete
<1>4. SomePointRemains' BY <1>1 DEF SomePointRemains
<1>5. MonthIsKept' BY <1>1 DEF MonthIsKept
<1> QED BY <1>1, <1>2, <1>3, <1>4, <1>5 DEF PointTypes

LEMMA StartKeeps ==
    ASSUME IInv, NEW j \in Jobs, NEW step \in {"dumping", "reading", "planning"},
           NEW p \in PointIds \cup {Nil}, Start(j, step, p),
           step = "dumping" => p \in PointIds \ verified,
           step = "reading" => p \in PointIds
    PROVE  IInv'
<1> USE DEF IInv, PointIInv
<1>1. /\ UNCHANGED <<attachmentVars, points, coherent, copies, verified, published>>
      /\ JobAt(j, "idle") /\ LockFree /\ jobLock' = j
      /\ jobs' = [k \in Jobs |->
                    IF k = j THEN [IdleJob EXCEPT !.step = step, !.point = p, !.day = today]
                    ELSE IF JobAt(k, "crashed") THEN IdleJob ELSE jobs[k]]
  BY DEF Start
<1>t. today \in Nat BY DEF AttachmentIInv, AttachmentTypes
<1>v. UNCHANGED <<today, attachments>> BY <1>1 DEF attachmentVars
<1>2. \A k \in Jobs : ~AtWork(k)
  <2> SUFFICES ASSUME NEW k \in Jobs, AtWork(k) PROVE FALSE OBVIOUS
  <2>1. jobLock = k /\ k # Nil BY JobFields DEF JobKnows
  <2> QED BY <1>1, <2>1 DEF LockFree, JobAt, AtWork
<1>3. /\ jobs'[j].step = step /\ jobs'[j].point = p /\ jobs'[j].day = today
      /\ \A k \in Jobs : k # j => ~AtWork(k)'
  BY <1>1, <1>2 DEF IdleJob, AtWork
<1>4. jobs' \in [Jobs -> JobRows] BY <1>1, <1>t DEF IdleJob, PointTypes, JobRows, JobSteps
<1>5. /\ Listed' = Listed /\ Listed' \subseteq verified'
      /\ points' \in [PointIds -> PointRows \cup {Nil}]
      /\ coherent' \in [PointIds -> (SUBSET Attached) \cup {Nil}]
      /\ verified' \in SUBSET PointIds /\ IsFiniteSet(verified') /\ published' \in BOOLEAN
      /\ InventoriesKnow' /\ CoherentIsComplete' /\ SomePointRemains' /\ MonthIsKept'
  BY <1>1, <1>v, BooksRest
<1>6. PointTypes' BY <1>1, <1>4, <1>5 DEF PointTypes, JobRows
<1>7. JobKnows(j)' BY <1>1, <1>3, <1>t, <1>v DEF JobKnows, CreationKnows, JobAt, AtWork
<1>8. \A k \in Jobs : JobKnows(k)' BY <1>3, <1>7, AtRestKnows
<1>9. AttachmentIInv' BY <1>1, AttachmentsRest
<1> QED BY <1>5, <1>6, <1>8, <1>9

LEMMA BeginCreatePointKeeps ==
    ASSUME IInv, NEW j \in Jobs, NEW p \in PointIds, BeginCreatePoint(j, p)
    PROVE  IInv'
<1>1. p \in Nat BY PointFields DEF IInv, PointIInv
<1>2. p >= p BY <1>1
<1> QED BY <1>2, StartKeeps DEF BeginCreatePoint

LEMMA BeginProtectKeeps ==
    ASSUME IInv, NEW j \in Jobs, NEW p \in PointIds, BeginProtect(j, p)
    PROVE  IInv'
BY StartKeeps DEF BeginProtect

LEMMA BeginCleanupKeeps ==
    ASSUME IInv, NEW j \in Jobs, BeginCleanup(j)
    PROVE  IInv'
BY StartKeeps DEF BeginCleanup

\* A process gives up, or is over: the others do nothing, and it does nothing any more.
LEMMA JobsRest ==
    ASSUME IInv, NEW j \in Jobs, AtWork(j), NEW row \in JobRows, row.step \in {"idle", "crashed"},
           jobs' = [jobs EXCEPT ![j] = row], jobLock' \in {jobLock, Nil}
    PROVE  /\ jobs' \in [Jobs -> JobRows] /\ jobLock' \in Jobs \cup {Nil}
           /\ \A k \in Jobs : JobKnows(k)'
<1> USE DEF IInv, PointIInv
<1>1. jobs' \in [Jobs -> JobRows] /\ jobLock' \in Jobs \cup {Nil} BY DEF PointTypes, JobRows
<1>2. jobs'[j] = row /\ \A k \in Jobs : k # j => jobs'[k] = jobs[k] BY DEF PointTypes
<1>3. ~AtWork(j)' BY <1>2 DEF AtWork
<1>4. \A k \in Jobs : k # j => ~AtWork(k)' BY <1>2, Alone DEF AtWork
<1> QED BY <1>1, <1>3, <1>4, AtRestKnows

LEMMA IdleRow ==
    /\ IdleJob \in JobRows /\ IdleJob.step = "idle"
    /\ [IdleJob EXCEPT !.step = "crashed"] \in JobRows /\ [IdleJob EXCEPT !.step = "crashed"].step = "crashed"
BY DEF IdleJob, JobRows, JobSteps

LEMMA StopsKeep ==
    ASSUME IInv, NEW j \in Jobs, AtWork(j), NEW row \in JobRows, row.step \in {"idle", "crashed"},
           jobs' = [jobs EXCEPT ![j] = row], jobLock' \in {jobLock, Nil},
           UNCHANGED <<attachmentVars, points, coherent, copies, verified, published>>
    PROVE  IInv'
<1> USE DEF IInv, PointIInv
<1>v. UNCHANGED <<today, attachments>> BY DEF attachmentVars
<1>1. /\ jobs' \in [Jobs -> JobRows] /\ jobLock' \in Jobs \cup {Nil}
      /\ \A k \in Jobs : JobKnows(k)'
  BY JobsRest
<1>5. /\ Listed' = Listed /\ Listed' \subseteq verified'
      /\ points' \in [PointIds -> PointRows \cup {Nil}]
      /\ coherent' \in [PointIds -> (SUBSET Attached) \cup {Nil}]
      /\ verified' \in SUBSET PointIds /\ IsFiniteSet(verified') /\ published' \in BOOLEAN
      /\ InventoriesKnow' /\ CoherentIsComplete' /\ SomePointRemains' /\ MonthIsKept'
  BY <1>v, BooksRest
<1>6. PointTypes' BY <1>1, <1>5 DEF PointTypes, JobRows
<1>9. AttachmentIInv' BY AttachmentsRest
<1> QED BY <1>1, <1>5, <1>6, <1>9

LEMMA FailsKeeps ==
    ASSUME IInv, NEW j \in Jobs, Fails(j)
    PROVE  IInv'
<1>1. jobLock' \in {jobLock, Nil} BY DEF Fails, End
<1>2. AtWork(j) /\ jobs' = [jobs EXCEPT ![j] = IdleJob] BY DEF Fails, End, AtWork
<1>3. UNCHANGED <<attachmentVars, points, coherent, copies, verified, published>> BY DEF Fails
<1> QED BY <1>1, <1>2, <1>3, IdleRow, StopsKeep

LEMMA CrashesKeeps ==
    ASSUME IInv, NEW j \in Jobs, Crashes(j)
    PROVE  IInv'
<1>2. AtWork(j) /\ jobs' = [jobs EXCEPT ![j] = [IdleJob EXCEPT !.step = "crashed"]] BY DEF Crashes, AtWork
<1>3. UNCHANGED <<attachmentVars, points, coherent, copies, jobLock, verified, published>> BY DEF Crashes
<1> QED BY <1>2, <1>3, IdleRow, StopsKeep

LEMMA EndCleanupKeeps ==
    ASSUME IInv, NEW j \in Jobs, EndCleanup(j)
    PROVE  IInv'
<1>1. jobLock' \in {jobLock, Nil} BY DEF EndCleanup, End
<1>2. AtWork(j) /\ jobs' = [jobs EXCEPT ![j] = IdleJob] BY DEF EndCleanup, End, AtWork, JobAt
<1>3. UNCHANGED <<attachmentVars, points, coherent, copies, verified, published>> BY DEF EndCleanup
<1> QED BY <1>1, <1>2, <1>3, IdleRow, StopsKeep

-----------------------------------------------------------------------------
\* A step of a command that writes nothing but copies.
LEMMA StepKeeps ==
    ASSUME IInv, NEW j \in Jobs, AtWork(j), jobs' \in [Jobs -> JobRows],
           \A k \in Jobs : k # j => jobs'[k] = jobs[k], JobKnows(j)',
           UNCHANGED <<attachmentVars, points, coherent, jobLock, verified, published>>,
           copies' \in [Attached -> Nat \cup {Nil}],
           \A i \in Attached : copies[i] # Nil => copies'[i] # Nil
    PROVE  IInv'
<1> USE DEF IInv, PointIInv
<1>v. UNCHANGED <<today, attachments>> BY DEF attachmentVars
<1>1. \A k \in Jobs : JobKnows(k)' BY Alone, AtRest
<1>5. /\ Listed' = Listed /\ Listed' \subseteq verified'
      /\ points' \in [PointIds -> PointRows \cup {Nil}]
      /\ coherent' \in [PointIds -> (SUBSET Attached) \cup {Nil}]
      /\ verified' \in SUBSET PointIds /\ IsFiniteSet(verified') /\ published' \in BOOLEAN
      /\ InventoriesKnow' /\ CoherentIsComplete' /\ SomePointRemains' /\ MonthIsKept'
  BY <1>v, BooksRest
<1>6. PointTypes' BY <1>5 DEF PointTypes, JobRows
<1>9. AttachmentIInv' BY AttachmentsRest
<1> QED BY <1>1, <1>5, <1>6, <1>9

LEMMA ExportSnapshotKeeps ==
    ASSUME IInv, NEW j \in Jobs, ExportSnapshot(j)
    PROVE  IInv'
<1> USE DEF IInv, PointIInv
<1> DEFINE actives == {i \in Attached : Active(i)}
<1>1. /\ UNCHANGED <<attachmentVars, points, coherent, copies, jobLock, verified, published>>
      /\ JobAt(j, "dumping") /\ AtWork(j)
      /\ JobDo(j, "classifying", jobs[j].point, actives, {}, jobs[j].day)
  BY DEF ExportSnapshot, JobAt, AtWork
<1>v. UNCHANGED <<today, attachments>> BY <1>1 DEF attachmentVars
<1>2. CreationKnows(j) /\ jobLock = j BY <1>1 DEF JobKnows
<1>3. /\ jobs' \in [Jobs -> JobRows]
      /\ \A k \in Jobs : k # j => jobs'[k] = jobs[k]
      /\ jobs'[j].step = "classifying" /\ jobs'[j].point = jobs[j].point /\ jobs'[j].work = actives
      /\ jobs'[j].refs = {} /\ jobs'[j].day = jobs[j].day
  BY <1>1, <1>2 DEF JobSteps, CreationKnows, JobDo, PointTypes, JobRows
<1>4. \A i \in actives : Since(i, jobs[j].day)' BY <1>v, <1>1, <1>3 DEF Active, Since
<1>5. CreationKnows(j)' BY <1>1, <1>2, <1>3, <1>v DEF CreationKnows
<1>6. JobKnows(j)'
  BY <1>1, <1>2, <1>3, <1>4, <1>5, <1>v DEF JobKnows, JobAt, AtWork, Since
<1>7. copies' \in [Attached -> Nat \cup {Nil}] BY <1>1 DEF PointTypes
<1> QED BY <1>1, <1>3, <1>6, <1>7, StepKeeps

LEMMA ReadInventoryKeeps ==
    ASSUME IInv, NEW j \in Jobs, ReadInventory(j)
    PROVE  IInv'
<1> USE DEF IInv, PointIInv
<1>0. PICK p \in PointIds : p = jobs[j].point BY DEF ReadInventory, JobKnows
<1>1. /\ UNCHANGED <<attachmentVars, points, coherent, copies, jobLock, verified, published>>
      /\ JobAt(j, "reading") /\ AtWork(j) /\ points[p] # Nil
      /\ JobDo(j, "protecting", p, points[p].inventory, {}, jobs[j].day)
  BY <1>0 DEF ReadInventory, JobAt, AtWork
<1>2. jobLock = j BY <1>1 DEF JobKnows
<1>i. points[p].inventory \in SUBSET (Attached \cup PointIds) /\ {} \in SUBSET Attached
  BY <1>1, PointFields
<1>d. jobs[j].day \in Nat \cup {Nil} BY JobFields
<1>3. /\ jobs' \in [Jobs -> JobRows]
      /\ \A k \in Jobs : k # j => jobs'[k] = jobs[k]
      /\ jobs'[j].step = "protecting" /\ jobs'[j].point = p /\ jobs'[j].work = points[p].inventory
      /\ jobs'[j].refs = {}
  BY <1>1, <1>i, <1>d DEF JobSteps, JobDo, PointTypes, JobRows
<1>6. JobKnows(j)' BY <1>1, <1>2, <1>3 DEF JobKnows, JobAt, AtWork, Listed
<1>7. copies' \in [Attached -> Nat \cup {Nil}] BY <1>1 DEF PointTypes
<1> QED BY <1>1, <1>3, <1>6, <1>7, StepKeeps

LEMMA ProtectOneKeeps ==
    ASSUME IInv, NEW j \in Jobs, NEW i \in Attached, ProtectOne(j, i)
    PROVE  IInv'
<1> USE DEF IInv, PointIInv
<1>1. /\ UNCHANGED <<attachmentVars, points, coherent, jobLock, verified, published>>
      /\ JobAt(j, "protecting") /\ AtWork(j) /\ i \in jobs[j].work
      /\ copies' = [copies EXCEPT ![i] = IF @ = Nil THEN today ELSE @]
      /\ jobs' = [jobs EXCEPT ![j].work = @ \ {i}, ![j].refs = @ \cup {i}]
  BY DEF ProtectOne, JobAt, AtWork
<1>t. today \in Nat /\ Nil \notin Nat BY AttachmentAssumption DEF AttachmentIInv, AttachmentTypes
<1>2. /\ jobLock = j /\ jobs[j].point \in Listed
      /\ jobs[j].work \cup jobs[j].refs = points[jobs[j].point].inventory
      /\ \A k \in jobs[j].refs : copies[k] # Nil
  BY <1>1 DEF JobKnows
<1>3. /\ jobs' \in [Jobs -> JobRows]
      /\ \A k \in Jobs : k # j => jobs'[k] = jobs[k]
      /\ jobs'[j].step = "protecting" /\ jobs'[j].point = jobs[j].point
      /\ jobs'[j].work = jobs[j].work \ {i} /\ jobs'[j].refs = jobs[j].refs \cup {i}
  <2> DEFINE row == [jobs[j] EXCEPT !.work = @ \ {i}, !.refs = @ \cup {i}]
  <2>1. jobs[j] \in JobRows /\ jobs[j].step = "protecting" BY <1>1 DEF PointTypes, JobRows, JobAt
  <2>2. /\ row \in JobRows /\ row.step = "protecting" /\ row.point = jobs[j].point
        /\ row.work = jobs[j].work \ {i} /\ row.refs = jobs[j].refs \cup {i}
    BY <2>1 DEF JobRows
  <2>3. jobs' = [jobs EXCEPT ![j] = row] BY <1>1
  <2> HIDE DEF row
  <2> QED BY <2>2, <2>3 DEF PointTypes, JobRows
<1>4. /\ copies' \in [Attached -> Nat \cup {Nil}] /\ copies'[i] # Nil
      /\ \A k \in Attached : copies[k] # Nil => copies'[k] # Nil
  BY <1>1, <1>t DEF PointTypes
<1>5. jobs'[j].work \cup jobs'[j].refs = jobs[j].work \cup jobs[j].refs BY <1>1, <1>3
<1>6. jobs[j].refs \subseteq Attached BY JobFields
<1>7. \A k \in jobs'[j].refs : copies'[k] # Nil BY <1>2, <1>3, <1>4, <1>6
<1>8. JobKnows(j)' BY <1>1, <1>2, <1>3, <1>5, <1>7 DEF JobKnows, JobAt, AtWork, Listed
<1> QED BY <1>1, <1>3, <1>4, <1>8, StepKeeps

\* A finite set of numbers that is not empty has a greatest: of the subsets that have none, a least
\* one would have a member more than another that has one.
HasLatest(S) == \E m \in S : \A n \in S : n <= m

LEMMA LatestOf ==
    ASSUME NEW S \in SUBSET Nat, IsFiniteSet(S), S # {}
    PROVE  HasLatest(S)
<1> DEFINE Bad == {T \in SUBSET S : T # {} /\ ~HasLatest(T)}
<1> SUFFICES ASSUME S \in Bad PROVE FALSE OBVIOUS
<1>1. Bad \subseteq FiniteSubsetsOf(S) /\ Bad # {} BY FS_FiniteSubsetsOfFinite
<1> HIDE DEF Bad
<1>2. PICK T \in Bad : \A U \in Bad : ~(<<U, T>> \in StrictSubsetOrdering(S))
  BY <1>1, FS_StrictSubsetOrderingWellFounded, WFMin
<1> USE DEF Bad
<1>3. PICK x \in T : x \in Nat OBVIOUS
<1> DEFINE U == T \ {x}
<1>4. <<U, T>> \in StrictSubsetOrdering(S) BY <1>3 DEF StrictSubsetOrdering
<1>5. U = {} \/ HasLatest(U) BY <1>2, <1>4
<1>6. CASE U = {}
  <2>1. \A n \in T : n <= x BY <1>3, <1>6
  <2> QED BY <1>3, <2>1 DEF HasLatest
<1>7. CASE HasLatest(U)
  <2>1. PICK m \in U : \A n \in U : n <= m BY <1>7 DEF HasLatest
  <2>2. m \in Nat /\ m \in T OBVIOUS
  <2>3. CASE m <= x
    <3>1. \A n \in T : n \in Nat /\ n <= x BY <1>3, <2>1, <2>2, <2>3
    <3> QED BY <1>3, <3>1 DEF HasLatest
  <2>4. CASE x <= m
    <3>1. \A n \in T : n <= m BY <1>3, <2>1, <2>2, <2>4
    <3> QED BY <2>2, <3>1 DEF HasLatest
  <2> QED BY <1>3, <2>2, <2>3, <2>4
<1> QED BY <1>5, <1>6, <1>7

\* The latest of the points that are listed never expires.
LEMMA SomeLatest ==
    ASSUME PointTypes, Listed # {}
    PROVE  \E p \in Listed : Latest(p)
<1>1. IsFiniteSet(Listed) BY FS_Subset DEF PointTypes
<1>2. \A q \in Listed : q \in Nat BY PointFields DEF Listed
<1> QED BY <1>1, <1>2, LatestOf DEF Latest, HasLatest

\* What stays is all that must be kept: the points that stay are coherent, and the latest stays.
LEMMA PlanRetentionKeeps ==
    ASSUME IInv, NEW j \in Jobs, PlanRetention(j)
    PROVE  IInv'
<1> USE DEF IInv, PointIInv
<1> DEFINE expired == {p \in Listed : ExpiredPoint(p)}
           survivors == Listed \ expired
           kept == UNION {coherent[p] : p \in survivors}
<1>1. /\ UNCHANGED <<attachmentVars, points, coherent, copies, jobLock, verified, published>>
      /\ JobAt(j, "planning") /\ AtWork(j)
      /\ \A p \in survivors : coherent[p] # Nil
      /\ JobDo(j, "deleting", Nil, expired, kept, jobs[j].day)
  BY DEF PlanRetention, JobAt, AtWork
<1>v. UNCHANGED today BY <1>1 DEF attachmentVars
<1>2. jobLock = j BY <1>1 DEF JobKnows
<1>l. Listed \subseteq PointIds BY DEF Listed
<1>k. kept \subseteq Attached /\ \A p \in survivors : coherent[p] \subseteq kept
  BY <1>1, <1>l, PointFields
<1>d. jobs[j].day \in Nat \cup {Nil} BY JobFields
<1>e. expired \in SUBSET (Attached \cup PointIds) /\ kept \in SUBSET Attached BY <1>k, <1>l
<1>x. \A p \in expired : p \in Listed /\ IsRetentionExpired(p) BY DEF ExpiredPoint
<1>c. \A p \in PointIds : coherent[p] # Nil => p \in expired \/ coherent[p] \subseteq kept
  BY <1>k DEF CoherentIsComplete, Listed
<1>p. published => \E p \in Listed \ expired : coherent[p] # Nil
  <2> SUFFICES ASSUME published PROVE \E p \in Listed \ expired : coherent[p] # Nil OBVIOUS
  <2>1. PICK p \in Listed : Latest(p) BY SomeLatest DEF SomePointRemains
  <2>2. p \in survivors BY <2>1 DEF ExpiredPoint
  <2> QED BY <1>1, <2>2
<1>n. Nil \notin expired BY <1>l, PointFields
<1> HIDE DEF expired, survivors, kept
<1>3. /\ jobs' \in [Jobs -> JobRows]
      /\ \A k \in Jobs : k # j => jobs'[k] = jobs[k]
      /\ jobs'[j].step = "deleting" /\ jobs'[j].point = Nil /\ jobs'[j].work = expired
      /\ jobs'[j].refs = kept
  BY <1>1, <1>d, <1>e DEF JobSteps, JobDo, PointTypes, JobRows
<1>4. \A p \in expired : p \in Listed' /\ IsRetentionExpired(p)'
  BY <1>1, <1>v, <1>x DEF IsRetentionExpired, Listed
<1>5. Listed' = Listed BY <1>1 DEF Listed
<1>6. JobKnows(j)'
  BY <1>1, <1>2, <1>3, <1>4, <1>5, <1>c, <1>p, <1>n DEF JobKnows, JobAt, AtWork
<1>7. copies' \in [Attached -> Nat \cup {Nil}] BY <1>1 DEF PointTypes
<1> QED BY <1>1, <1>3, <1>6, <1>7, StepKeeps

\* Days of one month are not further apart than a month is long.
LEMMA SameMonth ==
    ASSUME NEW a \in Nat, NEW b \in Nat, Month(a) = Month(b)
    PROVE  a - b < DaysOfMonth
<1>0. PICK d \in Nat : d = DaysOfMonth /\ d > 0 BY PointsAssumption
<1>1. a \div d = b \div d BY <1>0 DEF Month
<1>2. PICK q \in Nat : q = a \div d BY <1>0
<1>3. a < d * q + d /\ d * q <= b BY <1>0, <1>1, <1>2
<1>4. d * q \in Nat BY <1>0
<1> QED BY <1>0, <1>3, <1>4

\* Nothing else deletes copies, and no coherent point refers to this one.
LEMMA DeleteUnreferencedKeeps ==
    ASSUME IInv, NEW j \in Jobs, NEW i \in Attached, DeleteUnreferenced(j, i)
    PROVE  IInv'
<1> USE DEF IInv, PointIInv
<1>1. /\ UNCHANGED <<attachmentVars, points, coherent, jobs, jobLock, verified, published>>
      /\ JobAt(j, "deleting") /\ AtWork(j) /\ jobs[j].work = {} /\ i \notin jobs[j].refs
      /\ copies' = [copies EXCEPT ![i] = Nil]
  BY DEF DeleteUnreferenced, JobAt, AtWork
<1>v. UNCHANGED <<today, attachments>> BY <1>1 DEF attachmentVars
<1>2. /\ copies' \in [Attached -> Nat \cup {Nil}]
      /\ \A k \in Attached : k # i => copies'[k] = copies[k]
  BY <1>1 DEF PointTypes
<1>3. \A p \in PointIds : coherent[p] # Nil => coherent[p] \subseteq jobs[j].refs
  BY <1>1 DEF JobKnows
<1>4. Listed' = Listed BY <1>1 DEF Listed
<1>5. CoherentIsComplete'
  <2> SUFFICES ASSUME NEW p \in PointIds, coherent[p] # Nil
               PROVE  /\ points[p] # Nil /\ coherent[p] = points[p].inventory
                      /\ \A k \in coherent[p] : copies'[k] # Nil
    BY <1>1 DEF CoherentIsComplete
  <2>1. coherent[p] \subseteq Attached /\ i \notin coherent[p] BY <1>1, <1>3, PointFields
  <2> QED BY <1>2, <2>1 DEF CoherentIsComplete
<1>6. SomePointRemains' BY <1>1, <1>4 DEF SomePointRemains
<1>7. MonthIsKept' BY <1>1, <1>v, <1>4 DEF MonthIsKept
<1>8. InventoriesKnow' BY <1>1, <1>v, <1>4 DEF InventoriesKnow, Since
<1>9. PointTypes' BY <1>1, <1>2, <1>4 DEF PointTypes
<1>10. JobKnows(j)'
  <2>1. JobAt(j, "deleting")' /\ AtWork(j)' /\ jobs'[j] = jobs[j] BY <1>1 DEF JobAt, AtWork
  <2>2. \A p \in jobs[j].work : p \in Listed /\ IsRetentionExpired(p)' BY <1>1
  <2>3. JobKnows(j) /\ ~JobAt(j, "dumping") /\ ~JobAt(j, "classifying") /\ ~JobAt(j, "reading") /\ ~JobAt(j, "protecting")
    BY <1>1 DEF JobAt
  <2> QED BY <1>1, <1>4, <2>1, <2>2, <2>3 DEF JobKnows, JobAt, AtWork
<1>11. \A k \in Jobs : JobKnows(k)' BY <1>1, <1>10, Alone, AtRest
<1>12. AttachmentIInv' BY <1>1, AttachmentsRest
<1> QED BY <1>5, <1>6, <1>7, <1>8, <1>9, <1>11, <1>12

LEMMA DeleteAttachmentManifestKeeps ==
    ASSUME IInv, NEW j \in Jobs, NEW p \in PointIds, DeleteAttachmentManifest(j, p)
    PROVE  IInv'
<1> USE DEF IInv, PointIInv
<1>1. /\ UNCHANGED <<attachmentVars, points, copies, jobLock, verified, published>>
      /\ JobAt(j, "deleting") /\ AtWork(j) /\ p \in jobs[j].work
      /\ coherent' = [coherent EXCEPT ![p] = Nil]
      /\ jobs' = [jobs EXCEPT ![j].point = p]
  BY DEF DeleteAttachmentManifest, JobAt, AtWork
<1>v. UNCHANGED <<today, attachments>> BY <1>1 DEF attachmentVars
<1>2. /\ coherent' \in [PointIds -> (SUBSET Attached) \cup {Nil}] /\ coherent'[p] = Nil
      /\ \A q \in PointIds : q # p => coherent'[q] = coherent[q]
  BY <1>1 DEF PointTypes
<1>3. /\ jobs' \in [Jobs -> JobRows]
      /\ \A k \in Jobs : k # j => jobs'[k] = jobs[k]
      /\ jobs'[j].step = "deleting" /\ jobs'[j].point = p /\ jobs'[j].work = jobs[j].work
      /\ jobs'[j].refs = jobs[j].refs
  BY <1>1 DEF PointTypes, JobRows, JobAt
<1>4. Listed' = Listed /\ Listed \subseteq PointIds BY <1>1 DEF Listed
<1>j. /\ jobLock = j
      /\ \A q \in jobs[j].work : q \in Listed /\ IsRetentionExpired(q)
      /\ \A q \in PointIds : coherent[q] # Nil => q \in jobs[j].work \/ coherent[q] \subseteq jobs[j].refs
      /\ published => \E q \in Listed \ jobs[j].work : coherent[q] # Nil
  BY <1>1 DEF JobKnows
<1>r. published => \E q \in Listed \ jobs[j].work : coherent'[q] # Nil BY <1>1, <1>2, <1>4, <1>j
<1>5. CoherentIsComplete' BY <1>1, <1>2 DEF CoherentIsComplete
<1>6. SomePointRemains' BY <1>1, <1>4, <1>r DEF SomePointRemains
<1>7. MonthIsKept' BY <1>1, <1>v, <1>4 DEF MonthIsKept
<1>8. InventoriesKnow' BY <1>1, <1>v, <1>4 DEF InventoriesKnow, Since
<1>9. PointTypes' BY <1>1, <1>2, <1>3, <1>4 DEF PointTypes, JobRows
<1>10. JobKnows(j)'
  <2>1. \A q \in jobs[j].work : q \in Listed /\ IsRetentionExpired(q)'
    BY <1>1, <1>v, <1>j DEF IsRetentionExpired
  <2>2. \A q \in PointIds : coherent'[q] # Nil => q \in jobs[j].work \/ coherent'[q] \subseteq jobs[j].refs
    BY <1>2, <1>j
  <2> QED BY <1>1, <1>2, <1>3, <1>4, <1>j, <1>r, <2>1, <2>2 DEF JobKnows, JobAt, AtWork
<1>11. \A k \in Jobs : JobKnows(k)' BY <1>1, <1>3, <1>10, Alone, AtRest
<1>12. AttachmentIInv' BY <1>1, AttachmentsRest
<1> QED BY <1>5, <1>6, <1>7, <1>8, <1>9, <1>11, <1>12

\* A month loses the point of the class that is kept longer only when it has expired.
LEMMA DeleteRecoveryPointKeeps ==
    ASSUME IInv, NEW j \in Jobs, DeleteRecoveryPoint(j)
    PROVE  IInv'
<1> USE DEF IInv, PointIInv
<1>0. PICK p : p = jobs[j].point OBVIOUS
<1>1. /\ UNCHANGED <<attachmentVars, coherent, copies, jobLock, verified, published>>
      /\ JobAt(j, "deleting") /\ AtWork(j) /\ p \in jobs[j].work
      /\ points' = [points EXCEPT ![p] = Nil]
      /\ jobs' = [jobs EXCEPT ![j].work = @ \ {p}]
  BY <1>0 DEF DeleteRecoveryPoint, JobAt, AtWork
<1>v. UNCHANGED <<today, attachments>> BY <1>1 DEF attachmentVars
<1>j. /\ jobLock = j /\ coherent[p] = Nil
      /\ \A q \in jobs[j].work : q \in Listed /\ IsRetentionExpired(q)
      /\ \A q \in PointIds : coherent[q] # Nil => q \in jobs[j].work \/ coherent[q] \subseteq jobs[j].refs
      /\ published => \E q \in Listed \ jobs[j].work : coherent[q] # Nil
  BY <1>0, <1>1 DEF JobKnows
<1>p. p \in PointIds /\ points[p] # Nil /\ IsRetentionExpired(p) BY <1>1, <1>j DEF Listed
<1>2. /\ points' \in [PointIds -> PointRows \cup {Nil}] /\ points'[p] = Nil
      /\ \A q \in PointIds : q # p => points'[q] = points[q]
  BY <1>1, <1>p DEF PointTypes
<1>3. /\ jobs' \in [Jobs -> JobRows]
      /\ \A k \in Jobs : k # j => jobs'[k] = jobs[k]
      /\ jobs'[j].step = "deleting" /\ jobs'[j].point = p /\ jobs'[j].work = jobs[j].work \ {p}
      /\ jobs'[j].refs = jobs[j].refs
  BY <1>0, <1>1 DEF PointTypes, JobRows, JobAt
<1>4. Listed' = Listed \ {p} /\ Listed \subseteq PointIds BY <1>2 DEF Listed
<1>r. published => \E q \in Listed' \ jobs'[j].work : coherent[q] # Nil BY <1>1, <1>3, <1>4, <1>j
<1>5. CoherentIsComplete' BY <1>1, <1>2, <1>j DEF CoherentIsComplete
<1>6. SomePointRemains' BY <1>1, <1>r DEF SomePointRemains
<1>7. MonthIsKept'
  <2> SUFFICES ASSUME NEW q \in Listed, q # p, points[q].class = "DAILY",
                      ~(today - points[q].day > MonthlyRetention - DaysOfMonth)
               PROVE  \E m \in Listed \ {p} : /\ points'[m].class = "MONTHLY"
                                              /\ Month(points'[m].day) = Month(points'[q].day)
    BY <1>2, <1>4, <1>v DEF MonthIsKept
  <2>1. PICK m \in Listed : points[m].class = "MONTHLY" /\ Month(points[m].day) = Month(points[q].day)
    BY DEF MonthIsKept
  <2>2. CASE m = p
    <3>1. points[p].day \in Nat /\ points[q].day \in Nat BY <1>4, <1>p, PointFields DEF Listed
    <3>2. today - points[p].day >= MonthlyRetention BY <1>p, <2>1, <2>2 DEF IsRetentionExpired
    <3>3. points[q].day - points[p].day < DaysOfMonth BY <2>1, <2>2, <3>1, SameMonth
    <3>4. today \in Nat BY DEF AttachmentIInv, AttachmentTypes
    <3> QED BY <3>1, <3>2, <3>3, <3>4, PointsAssumption
  <2>3. CASE m # p BY <1>2, <1>4, <2>1, <2>3
  <2> QED BY <2>2, <2>3
<1>8. InventoriesKnow' BY <1>1, <1>2, <1>v, <1>4 DEF InventoriesKnow, Since
<1>9. PointTypes' BY <1>1, <1>2, <1>3, <1>4 DEF PointTypes, JobRows
<1>10. JobKnows(j)'
  <2>1. \A q \in jobs'[j].work : q \in Listed' /\ IsRetentionExpired(q)'
    BY <1>2, <1>3, <1>4, <1>v, <1>j DEF IsRetentionExpired
  <2>2. \A q \in PointIds : coherent[q] # Nil => q \in jobs'[j].work \/ coherent[q] \subseteq jobs[j].refs
    BY <1>3, <1>j
  <2> QED BY <1>1, <1>3, <1>j, <1>r, <2>1, <2>2 DEF JobKnows, JobAt, AtWork
<1>11. \A k \in Jobs : JobKnows(k)' BY <1>1, <1>3, <1>10, Alone, AtRest
<1>12. AttachmentIInv' BY <1>1, AttachmentsRest
<1> QED BY <1>5, <1>6, <1>7, <1>8, <1>9, <1>11, <1>12

\* A new point: it is of the class that is kept longer unless its month has one.
LEMMA WriteVerifiedManifestKeeps ==
    ASSUME IInv, NEW j \in Jobs, WriteVerifiedManifest(j)
    PROVE  IInv'
<1> USE DEF IInv, PointIInv
<1>c. JobAt(j, "classifying") /\ CreationKnows(j) BY DEF WriteVerifiedManifest, JobKnows
<1>0. PICK p \in PointIds, day \in Nat : p = jobs[j].point /\ day = jobs[j].day
  BY <1>c DEF CreationKnows
<1>a. PICK inventory \in SUBSET Attached : inventory = jobs[j].work BY <1>c DEF JobKnows
<1> DEFINE row == [day |-> day, class |-> ClassifyRetention(day), inventory |-> inventory]
<1>1. /\ UNCHANGED <<attachmentVars, coherent, copies, published>>
      /\ points' = [points EXCEPT ![p] = row] /\ verified' = verified \cup {p}
      /\ jobs' = [jobs EXCEPT ![j] = IdleJob] /\ jobLock' \in {jobLock, Nil} /\ AtWork(j)
  BY <1>0, <1>a DEF WriteVerifiedManifest, End, JobAt, AtWork
<1>v. UNCHANGED <<today, attachments>> BY <1>1 DEF attachmentVars
<1>p. p \notin verified /\ p \notin Listed /\ day <= today /\ points[p] = Nil
      /\ \A i \in inventory : Since(i, day)
  BY <1>0, <1>a, <1>c DEF JobKnows, CreationKnows, PointTypes, Listed
<1>r. row \in PointRows /\ row # Nil /\ row.day = day /\ row.inventory = inventory
      /\ row.class = ClassifyRetention(day)
  BY PointsAssumption DEF PointRows, ClassifyRetention
<1> HIDE DEF row
<1>2. /\ points' \in [PointIds -> PointRows \cup {Nil}] /\ points'[p] = row
      /\ \A q \in PointIds : q # p => points'[q] = points[q]
  BY <1>1, <1>r DEF PointTypes
<1>3. /\ jobs' \in [Jobs -> JobRows] /\ jobLock' \in Jobs \cup {Nil}
      /\ \A k \in Jobs : JobKnows(k)'
  BY <1>1, IdleRow, JobsRest
<1>4. Listed' = Listed \cup {p} /\ Listed \subseteq PointIds BY <1>2, <1>r DEF Listed
<1>5. CoherentIsComplete' BY <1>1, <1>2, <1>p DEF CoherentIsComplete
<1>6. SomePointRemains' BY <1>1, <1>4 DEF SomePointRemains
<1>7. MonthIsKept'
  <2> SUFFICES ASSUME NEW q \in Listed', points'[q].class = "DAILY"
               PROVE  \/ \E m \in Listed' : points'[m].class = "MONTHLY" /\ Month(points'[m].day) = Month(points'[q].day)
                      \/ today - points'[q].day > MonthlyRetention - DaysOfMonth
    BY <1>v DEF MonthIsKept
  <2>m. \A m \in Listed : m \in Listed' /\ points'[m] = points[m] BY <1>2, <1>4, <1>p
  <2>1. CASE q = p
    <3>1. PICK m \in Listed : points[m].class = "MONTHLY" /\ Month(points[m].day) = Month(day)
      BY <1>2, <1>r, <2>1 DEF ClassifyRetention
    <3> QED BY <1>2, <1>r, <2>m, <2>1, <3>1
  <2>2. CASE q # p
    <3>1. q \in Listed BY <1>4, <2>2
    <3> QED BY <2>m, <3>1 DEF MonthIsKept
  <2> QED BY <2>1, <2>2
<1>8. InventoriesKnow' BY <1>2, <1>4, <1>p, <1>r, <1>v DEF InventoriesKnow, Since
<1>9. PointTypes'
  <2>1. IsFiniteSet(verified') BY <1>1, FS_AddElement DEF PointTypes
  <2> QED BY <1>1, <1>2, <1>3, <1>4, <2>1 DEF PointTypes, JobRows
<1>12. AttachmentIInv' BY <1>1, AttachmentsRest
<1> QED BY <1>3, <1>5, <1>6, <1>7, <1>8, <1>9, <1>12

\* A point is coherent when all its inventory has copies.
LEMMA WriteAttachmentManifestKeeps ==
    ASSUME IInv, NEW j \in Jobs, WriteAttachmentManifest(j)
    PROVE  IInv'
<1> USE DEF IInv, PointIInv
<1>c. /\ JobAt(j, "protecting") /\ jobs[j].work = {} /\ jobs[j].point \in Listed
      /\ jobs[j].work \cup jobs[j].refs = points[jobs[j].point].inventory
      /\ \A i \in jobs[j].refs : copies[i] # Nil
  BY DEF WriteAttachmentManifest, JobKnows
<1>0. PICK p \in PointIds, refs \in SUBSET Attached :
        p = jobs[j].point /\ refs = jobs[j].refs /\ p \in Listed
  BY <1>c, JobFields DEF Listed
<1>1. /\ UNCHANGED <<attachmentVars, points, copies, verified>>
      /\ coherent' = [coherent EXCEPT ![p] = refs] /\ published'
      /\ published' \in BOOLEAN
      /\ jobs' = [jobs EXCEPT ![j] = IdleJob] /\ jobLock' \in {jobLock, Nil} /\ AtWork(j)
  BY <1>0 DEF WriteAttachmentManifest, End, JobAt, AtWork
<1>v. UNCHANGED <<today, attachments>> BY <1>1 DEF attachmentVars
<1>r. refs # Nil /\ refs = points[p].inventory /\ points[p] # Nil
  BY <1>0, <1>c, PointsAssumption DEF Listed
<1>2. /\ coherent' \in [PointIds -> (SUBSET Attached) \cup {Nil}] /\ coherent'[p] = refs
      /\ \A q \in PointIds : q # p => coherent'[q] = coherent[q]
  BY <1>1 DEF PointTypes
<1>3. /\ jobs' \in [Jobs -> JobRows] /\ jobLock' \in Jobs \cup {Nil}
      /\ \A k \in Jobs : JobKnows(k)'
  BY <1>1, IdleRow, JobsRest
<1>4. Listed' = Listed BY <1>1 DEF Listed
<1>5. CoherentIsComplete' BY <1>0, <1>1, <1>2, <1>c, <1>r DEF CoherentIsComplete
<1>6. SomePointRemains' BY <1>0, <1>2, <1>4, <1>r DEF SomePointRemains
<1>7. MonthIsKept' BY <1>1, <1>v, <1>4 DEF MonthIsKept
<1>8. InventoriesKnow' BY <1>1, <1>v, <1>4 DEF InventoriesKnow, Since
<1>9. PointTypes' BY <1>1, <1>2, <1>3, <1>4 DEF PointTypes, JobRows
<1>12. AttachmentIInv' BY <1>1, AttachmentsRest
<1> QED BY <1>3, <1>5, <1>6, <1>7, <1>8, <1>9, <1>12

-----------------------------------------------------------------------------
LEMMA InitHolds ==
    ASSUME PointsInit
    PROVE  IInv
<1>1. AttachmentIInv BY AttachmentInitHolds DEF PointsInit
<1> USE DEF PointsInit, PointInit
<1>2. Listed = {} BY DEF Listed
<1>3. PointTypes BY <1>2, FS_EmptySet DEF PointTypes, IdleJob, JobSteps
<1>4. \A j \in Jobs : JobKnows(j) BY DEF JobKnows, AtWork, JobAt, IdleJob
<1>5. InventoriesKnow /\ CoherentIsComplete /\ SomePointRemains /\ MonthIsKept
  BY <1>2 DEF InventoriesKnow, CoherentIsComplete, SomePointRemains, MonthIsKept
<1> QED BY <1>1, <1>3, <1>4, <1>5 DEF IInv, PointIInv

LEMMA PointNextKeeps ==
    ASSUME IInv, PointNext
    PROVE  IInv'
BY FailsKeeps, CrashesKeeps, BeginCreatePointKeeps, BeginProtectKeeps, ExportSnapshotKeeps,
   WriteVerifiedManifestKeeps, ReadInventoryKeeps, WriteAttachmentManifestKeeps, ProtectOneKeeps,
   DeleteUnreferencedKeeps, BeginCleanupKeeps, PlanRetentionKeeps, DeleteAttachmentManifestKeeps,
   DeleteRecoveryPointKeeps, EndCleanupKeeps DEF PointNext

LEMMA NextKeeps ==
    ASSUME IInv, [PointsNext]_pointsVars
    PROVE  IInv'
<1>1. CASE AttachmentNext /\ UNCHANGED pointVars
  BY <1>1, AttachmentNextKeeps, AttachmentNextGrows, PointsStay DEF IInv
<1>2. CASE PointNext BY <1>2, PointNextKeeps
<1>3. CASE Tick
  <2>1. AttachmentIInv' BY <1>3, TickKeepsAttachments DEF IInv
  <2>2. RowsGrow
    <3>1. today \in Nat /\ UNCHANGED attachments /\ today' = today + 1
      BY <1>3 DEF Tick, IInv, AttachmentIInv, AttachmentTypes
    <3> QED BY <3>1, SameRowsGrow DEF IInv
  <2>3. UNCHANGED pointVars BY <1>3 DEF Tick
  <2> QED BY <2>1, <2>2, <2>3, PointsStay DEF IInv
<1>4. CASE UNCHANGED pointsVars
  <2>1. UNCHANGED attachmentVars /\ UNCHANGED pointVars BY <1>4 DEF pointsVars
  <2>2. RowsGrow
    <3>1. today \in Nat /\ UNCHANGED <<attachments, today>>
      BY <2>1 DEF attachmentVars, IInv, AttachmentIInv, AttachmentTypes
    <3> QED BY <3>1, SameRowsGrow DEF IInv
  <2> QED BY <2>1, <2>2, AttachmentsRest, PointsStay DEF IInv
<1> QED BY <1>1, <1>2, <1>3, <1>4 DEF PointsNext

\* The invariant, for any attachments, points, retentions and processes
\* (AttachmentRepository.create, cleanupAttachmentRecovery).
THEOREM PointsInvariance == PointsSpec => []IInv
<1>1. PointsInit => IInv BY InitHolds
<1>2. IInv /\ [PointsNext]_pointsVars => IInv' BY NextKeeps
<1> QED BY <1>1, <1>2, PTL DEF PointsSpec

\* What the inventory of a point names is there to be copied as long as what is removed is kept.
LEMMA InventoryCanBeProtected ==
    ASSUME IInv
    PROVE  CanBeProtected
<1> SUFFICES ASSUME NEW p \in Listed, today < points[p].day + RemovedRetention,
                    NEW i \in points[p].inventory, i \notin lost
             PROVE  binaries[i] # Nil
  BY DEF CanBeProtected
<1>1. i \in Attached /\ points[p].day \in Nat BY PointFields DEF IInv, PointIInv, Listed
<1>2. Since(i, points[p].day) BY DEF IInv, PointIInv, InventoriesKnow
<1>3. attachments[i].removed \in Nat \cup {Nil} /\ today \in Nat
  BY <1>1, <1>2, UploadFields DEF IInv, AttachmentIInv, Since
<1>4. Active(i) \/ today < attachments[i].removed + RemovedRetention
  BY <1>1, <1>2, <1>3, AttachmentAssumption DEF Since, Active
<1> QED BY <1>1, <1>2, <1>4 DEF IInv, AttachmentIInv, BinaryIsKept, Since

\* The attachments and the recovery points taken of them are sound: a parent has no more attachments
\* than it may, no clean-up deletes what can be downloaded, what a point refers to, or the last
\* coherent point, and a month keeps one for longer.
THEOREM PointsAreSound == PointsSpec => []PointsSound
<1>1. IInv => PointsSound
  BY InventoryCanBeProtected DEF IInv, AttachmentIInv, PointIInv, PointsSound
<1> QED BY <1>1, PointsInvariance, PTL
=============================================================================
