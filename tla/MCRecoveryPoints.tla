-------------------------- MODULE MCRecoveryPoints --------------------------
(* Either uploads with all that can fail, or recovery points: then one       *)
(* attachment has its point and its copy from the beginning, the others pass *)
(* their preflight, and what an upload can fail at is left to the uploads.   *)
EXTENDS RecoveryPoints

PointDesks == {"attachments", "recovery points"}

FirstAttached == CHOOSE i \in Attached : \A k \in Attached : i <= k
FirstParent == CHOOSE p \in Parents : TRUE
FirstPoint == CHOOSE p \in PointIds : \A q \in PointIds : p <= q

Of(f, i, v) == [f EXCEPT ![i] = v]

ProtectedInit ==
    /\ today = 0
    /\ parents = [p \in Parents |-> TRUE]
    /\ parentLocks = [p \in Parents |-> Nil]
    /\ uploads = [i \in Attached |-> Upload(IF i = FirstAttached THEN "over" ELSE "allowed", FirstParent)]
    /\ attachments = Of([i \in Attached |-> Nil], FirstAttached, [parent |-> FirstParent, removed |-> Nil])
    /\ binaries = Of([i \in Attached |-> Nil], FirstAttached, 0)
    /\ sweep = [removed |-> {}, listed |-> {}, orphans |-> {}]
    /\ lost = {}
    /\ points = Of([p \in PointIds |-> Nil], FirstPoint,
                   [day |-> 0, class |-> "MONTHLY", inventory |-> {FirstAttached}])
    /\ coherent = Of([p \in PointIds |-> Nil], FirstPoint, {FirstAttached})
    /\ copies = Of([i \in Attached |-> Nil], FirstAttached, 0)
    /\ jobs = [j \in Jobs |-> IdleJob]
    /\ jobLock = Nil
    /\ run = 0
    /\ verified = {FirstPoint}
    /\ published = TRUE

PointDeskInit(d) ==
    \/ d = "attachments" /\ AttachmentInit /\ PointInit
    \/ d = "recovery points" /\ ProtectedInit

UploadOrRemove ==
    \/ \E i \in Attached :
         \/ PutObject(i) \/ BeginCreate(i) \/ CommitCreate(i)
         \/ Remove(i)
         \/ PurgeRemovedBinary(i)
    \/ ListRemovedForBinaryPurge

Stop == today = MaxDay /\ UNCHANGED pointsVars

ServePoints(d) ==
    \/ d = "attachments" /\ AttachmentNext /\ UNCHANGED pointVars
    \/ d = "recovery points" /\ ((UploadOrRemove /\ UNCHANGED pointVars) \/ PointNext)
    \/ Tick \/ Stop
=============================================================================
