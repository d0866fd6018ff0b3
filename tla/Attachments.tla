---------------------------- MODULE Attachments ----------------------------
(* Attachments of customers, products, suppliers and expenses: a row in the  *)
(* database and a binary in the object storage, which no transaction spans.  *)
(* An attachment is its identifier, drawn by its upload; the key of the      *)
(* binary is made of it.                                                     *)
EXTENDS RetentionPolicy, Integers, FiniteSets

CONSTANT MaxDay   \* bound on the days

VARIABLES
    today,        \* the day of the clocks
    parents,      \* does the parent accept attachments: "posted" or "active"
    parentLocks,  \* the upload that has the row of a parent locked
    uploads,      \* the request that uploads each of them
    attachments,  \* the rows
    binaries,     \* the objects in the storage, with the day they were put
    sweep,        \* the two clean-ups: what they are about to delete
    lost          \* history: recorded, but the upload was told it failed

attachmentVars == <<today, parents, parentLocks, uploads, attachments, binaries, sweep, lost>>

Upload(step, p) == [step |-> step, parent |-> p]

AttachmentInit ==
    /\ today = 0
    /\ parents = [p \in Parents |-> TRUE]
    /\ parentLocks = [p \in Parents |-> Nil]
    /\ uploads = [i \in Attached |-> Upload("none", Nil)]
    /\ attachments = [i \in Attached |-> Nil]
    /\ binaries = [i \in Attached |-> Nil]
    /\ sweep = [removed |-> {}, listed |-> {}, orphans |-> {}]
    /\ lost = {}

Active(i) == attachments[i] # Nil /\ attachments[i].removed = Nil
ActiveOf(p) == {i \in Attached : Active(i) /\ attachments[i].parent = p}
UploadStep(i) == uploads[i].step
Parent(i) == uploads[i].parent
UploadGoes(i, step) == uploads' = [uploads EXCEPT ![i].step = step]

(* What a transaction knows of the parent once it has its row.               *)
Accepts(p) == parents[p] /\ Cardinality(ActiveOf(p)) < MaxActive

-----------------------------------------------------------------------------
(* An upload.                                                                *)

(* The preflight is a transaction of its own; a refusal leaves nothing.      *)
AssertUploadAllowed(i, p) ==
    /\ UploadStep(i) = "none"
    /\ parentLocks[p] = Nil
    /\ Accepts(p)
    /\ uploads' = [uploads EXCEPT ![i] = Upload("allowed", p)]
    /\ UNCHANGED <<today, parents, parentLocks, attachments, binaries, sweep, lost>>

(* The scan finds it infected, or finds nothing out: either way it ends.     *)
ScanRefuses(i) ==
    /\ UploadStep(i) = "allowed"
    /\ UploadGoes(i, "over")
    /\ UNCHANGED <<today, parents, parentLocks, attachments, binaries, sweep, lost>>

PutObject(i) ==
    /\ UploadStep(i) = "allowed"
    /\ binaries' = [binaries EXCEPT ![i] = today]
    /\ UploadGoes(i, "stored")
    /\ UNCHANGED <<today, parents, parentLocks, attachments, sweep, lost>>

(* A time-out says nothing of the object, and nothing deletes it.            *)
PutFails(i) ==
    /\ UploadStep(i) = "allowed"
    /\ \E day \in {Nil, today} : binaries' = [binaries EXCEPT ![i] = day]
    /\ UploadGoes(i, "over")
    /\ UNCHANGED <<today, parents, parentLocks, attachments, sweep, lost>>

(* The transaction locks the parent and counts again.                        *)
LockParent(i) ==
    /\ UploadStep(i) = "stored"
    /\ parentLocks[Parent(i)] = Nil
    /\ parentLocks' = [parentLocks EXCEPT ![Parent(i)] = i]

BeginCreate(i) ==
    /\ LockParent(i)
    /\ Accepts(Parent(i))
    /\ UploadGoes(i, "recording")
    /\ UNCHANGED <<today, parents, attachments, binaries, sweep, lost>>

(* Refused: the transaction ends, the handler deletes the object.            *)
CreateRefused(i) ==
    /\ UploadStep(i) = "stored"
    /\ parentLocks[Parent(i)] = Nil
    /\ ~Accepts(Parent(i))
    /\ UploadGoes(i, "compensating")
    /\ UNCHANGED <<today, parents, parentLocks, attachments, binaries, sweep, lost>>

Unlock(i) == parentLocks' = [p \in Parents |-> IF parentLocks[p] = i THEN Nil ELSE parentLocks[p]]
Record(i) == attachments' = [attachments EXCEPT ![i] = [parent |-> Parent(i), removed |-> Nil]]

CommitCreate(i) ==
    /\ UploadStep(i) = "recording"
    /\ Record(i)
    /\ Unlock(i)
    /\ UploadGoes(i, "over")
    /\ UNCHANGED <<today, parents, binaries, sweep, lost>>

(* The row is there, the handler does not know.                              *)
CreateAnswerLost(i) ==
    /\ UploadStep(i) = "recording"
    /\ Record(i)
    /\ Unlock(i)
    /\ UploadGoes(i, "compensating")
    /\ lost' = lost \cup {i}
    /\ UNCHANGED <<today, parents, binaries, sweep>>

(* A lock was not granted in time, or the insert failed.                     *)
CreateFails(i) ==
    /\ UploadStep(i) \in {"stored", "recording"}
    /\ Unlock(i)
    /\ UploadGoes(i, "compensating")
    /\ UNCHANGED <<today, parents, attachments, binaries, sweep, lost>>

(* A failure to delete is swallowed.                                         *)
Compensate(i) ==
    /\ UploadStep(i) = "compensating"
    /\ \E day \in {Nil, binaries[i]} : binaries' = [binaries EXCEPT ![i] = day]
    /\ UploadGoes(i, "over")
    /\ UNCHANGED <<today, parents, parentLocks, attachments, sweep, lost>>

UploadCrashes(i) ==
    /\ UploadStep(i) \in {"stored", "recording", "compensating"}
    /\ Unlock(i)
    /\ UploadGoes(i, "over")
    /\ UNCHANGED <<today, parents, attachments, binaries, sweep, lost>>

-----------------------------------------------------------------------------
(* Other requests on the same rows.                                          *)

(* remove_attachment_v1, under the lock of the parent. The binary stays.     *)
Remove(i) ==
    /\ Active(i)
    /\ parentLocks[attachments[i].parent] = Nil
    /\ attachments' = [attachments EXCEPT ![i].removed = today]
    /\ UNCHANGED <<today, parents, parentLocks, uploads, binaries, sweep, lost>>

(* A parent is archived, cancelled, or reactivated, with its row locked.     *)
CycleParent(p) ==
    /\ parentLocks[p] = Nil
    /\ parents' = [parents EXCEPT ![p] = ~@]
    /\ UNCHANGED <<today, parentLocks, uploads, attachments, binaries, sweep, lost>>

-----------------------------------------------------------------------------
(* The clean-ups.                                                            *)

ListRemovedForBinaryPurge ==
    /\ sweep.removed = {}
    /\ sweep' = [sweep EXCEPT !.removed =
           {i \in Attached : /\ attachments[i] # Nil
                             /\ attachments[i].removed # Nil
                             /\ attachments[i].removed <= today - RemovedRetention}]
    /\ UNCHANGED <<today, parents, parentLocks, uploads, attachments, binaries, lost>>

(* One that cannot be deleted is counted, and listed again another time.     *)
PurgeRemovedBinary(i) ==
    /\ i \in sweep.removed
    /\ \E day \in {Nil, binaries[i]} : binaries' = [binaries EXCEPT ![i] = day]
    /\ sweep' = [sweep EXCEPT !.removed = @ \ {i}]
    /\ UNCHANGED <<today, parents, parentLocks, uploads, attachments, lost>>

(* First the objects that are old, then the rows that refer to them.         *)
OldEnough(day) == day <= today - OrphanRetention

ListObjects ==
    /\ sweep.listed = {} /\ sweep.orphans = {}
    /\ sweep' = [sweep EXCEPT !.listed = {i \in Attached : binaries[i] # Nil /\ OldEnough(binaries[i])}]
    /\ UNCHANGED <<today, parents, parentLocks, uploads, attachments, binaries, lost>>

ReferencedObjectKeys ==
    /\ sweep.listed # {}
    /\ sweep' = [sweep EXCEPT !.listed = {}, !.orphans = {i \in sweep.listed : attachments[i] = Nil}]
    /\ UNCHANGED <<today, parents, parentLocks, uploads, attachments, binaries, lost>>

PurgeOrphanBinary(i) ==
    /\ i \in sweep.orphans
    /\ \E day \in {Nil, binaries[i]} : binaries' = [binaries EXCEPT ![i] = day]
    /\ sweep' = [sweep EXCEPT !.orphans = @ \ {i}]
    /\ UNCHANGED <<today, parents, parentLocks, uploads, attachments, lost>>

-----------------------------------------------------------------------------
(* A day passes. No upload takes as long as an orphan is kept: the code says *)
(* so nowhere, its time-outs for statements and for the storage do.          *)
UploadsAreShort ==
    \A i \in Attached :
      UploadStep(i) \in {"stored", "recording"} /\ binaries[i] # Nil => today + 1 - binaries[i] < OrphanRetention

AttachmentNext ==
    \/ \E i \in Attached :
         \/ \E p \in Parents : AssertUploadAllowed(i, p)
         \/ ScanRefuses(i) \/ PutObject(i) \/ PutFails(i)
         \/ BeginCreate(i) \/ CreateRefused(i) \/ CommitCreate(i) \/ CreateAnswerLost(i)
         \/ CreateFails(i) \/ Compensate(i) \/ UploadCrashes(i)
         \/ Remove(i)
         \/ PurgeRemovedBinary(i) \/ PurgeOrphanBinary(i)
    \/ \E p \in Parents : CycleParent(p)
    \/ ListRemovedForBinaryPurge \/ ListObjects \/ ReferencedObjectKeys

-----------------------------------------------------------------------------
(* However many uploads pass their preflight together, a parent never has    *)
(* more active attachments than it may (AttachmentRepository.create).        *)
WithinLimit == \A p \in Parents : Cardinality(ActiveOf(p)) <= MaxActive

(* An attachment can be downloaded, and one that was removed is kept for its *)
(* retention, whatever the compensations and the clean-ups delete meanwhile. *)
(* The exception is an upload that was told it failed (lost).                *)
BinaryIsKept ==
    \A i \in Attached \ lost :
      attachments[i] # Nil /\ (Active(i) \/ today < attachments[i].removed + RemovedRetention)
        => binaries[i] # Nil
=============================================================================
