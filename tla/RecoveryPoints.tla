--------------------------- MODULE RecoveryPoints ---------------------------
(* Recovery points: a dump of the database with the inventory of its active  *)
(* attachments, and then, by a command of its own, protected copies of their *)
(* binaries. Clean-up deletes points by their class and age and the copies   *)
(* no remaining point refers to. The commands exclude each other by a lock   *)
(* in the recovery storage.                                                  *)
EXTENDS Attachments

CONSTANT MaxJobs   \* bound on the commands

VARIABLES
    points,     \* verified manifests with their artifacts: day, class, inventory
    coherent,   \* points with a verified attachment manifest: their entries
    copies,     \* protected binaries, with the day they were put
    jobs,       \* what each process is about to do
    jobLock,    \* the process that has the job lock
    run,        \* how many commands were run
    verified,   \* history: every point that was ever verified
    published   \* history: was there ever a coherent point

pointVars == <<points, coherent, copies, jobs, jobLock, run, verified, published>>
pointsVars == <<attachmentVars, pointVars>>

IdleJob == [step |-> "idle", point |-> Nil, work |-> {}, refs |-> {}, day |-> Nil]

PointInit ==
    /\ points = [p \in PointIds |-> Nil]
    /\ coherent = [p \in PointIds |-> Nil]
    /\ copies = [i \in Attached |-> Nil]
    /\ jobs = [j \in Jobs |-> IdleJob]
    /\ jobLock = Nil
    /\ run = 0
    /\ verified = {}
    /\ published = FALSE

PointsInit == AttachmentInit /\ PointInit

JobAt(j, step) == jobs[j].step = step
JobDo(j, step, p, work, refs, day) ==
    jobs' = [jobs EXCEPT ![j] = [step |-> step, point |-> p, work |-> work, refs |-> refs, day |-> day]]

Listed == {p \in PointIds : points[p] # Nil}
Month(day) == day \div DaysOfMonth
(* listVerifiedRecoveryPoints sorts by createdAt, and points are created in  *)
(* the order of their identifiers.                                           *)
Latest(p) == \A q \in Listed : q <= p

-----------------------------------------------------------------------------
(* The lock. A process that ends gives it back, one that crashes leaves it,  *)
(* and after 24 hours the next one takes it over: no command takes as long.  *)
LockFreeAlways == TRUE
LockFree == jobLock # Nil => JobAt(jobLock, "crashed")

Start(j, step, p) ==
    /\ JobAt(j, "idle")
    /\ run < MaxJobs
    /\ LockFree
    /\ jobLock' = j
    /\ jobs' = [k \in Jobs |->
                  IF k = j THEN [IdleJob EXCEPT !.step = step, !.point = p, !.day = today]
                  ELSE IF JobAt(k, "crashed") THEN IdleJob ELSE jobs[k]]
    /\ run' = run + 1
    /\ UNCHANGED <<attachmentVars, points, coherent, copies, verified, published>>

End(j) ==
    /\ jobs' = [jobs EXCEPT ![j] = IdleJob]
    /\ jobLock' = IF jobLock = j THEN Nil ELSE jobLock

(* Any step may throw; what was written stays, the lock is given back.       *)
Fails(j) ==
    /\ jobs[j].step \notin {"idle", "crashed"}
    /\ End(j)
    /\ UNCHANGED <<attachmentVars, points, coherent, copies, run, verified, published>>

Crashes(j) ==
    /\ jobs[j].step \notin {"idle", "crashed"}
    /\ jobs' = [jobs EXCEPT ![j] = [IdleJob EXCEPT !.step = "crashed"]]
    /\ UNCHANGED <<attachmentVars, points, coherent, copies, jobLock, run, verified, published>>

-----------------------------------------------------------------------------
(* createVerifiedRecoveryPoint.                                              *)
BeginCreatePoint(j, p) ==
    /\ \A q \in PointIds : q >= p => q \notin verified
    /\ \A q \in PointIds : q < p => q \in verified
    /\ Start(j, "dumping", p)

(* The dump and the inventory are of one exported snapshot.                  *)
ExportSnapshot(j) ==
    /\ JobAt(j, "dumping")
    /\ JobDo(j, "classifying", jobs[j].point, {i \in Attached : Active(i)}, {}, jobs[j].day)
    /\ UNCHANGED <<attachmentVars, points, coherent, copies, jobLock, run, verified, published>>

(* The first point of a month is kept longer.                                *)
ClassifyRetention(day) ==
    IF \E q \in Listed : points[q].class = "MONTHLY" /\ Month(points[q].day) = Month(day)
    THEN "DAILY" ELSE "MONTHLY"

(* Its verified manifest makes it a point; the writer may fail afterwards.   *)
WriteVerifiedManifest(j) ==
    /\ JobAt(j, "classifying")
    /\ LET p == jobs[j].point  day == jobs[j].day IN
       /\ points' = [points EXCEPT ![p] =
              [day |-> day, class |-> ClassifyRetention(day), inventory |-> jobs[j].work]]
       /\ verified' = verified \cup {p}
    /\ End(j)
    /\ UNCHANGED <<attachmentVars, coherent, copies, run, published>>

-----------------------------------------------------------------------------
(* protectAttachmentRecoveryPoint, of any point that is listed.              *)
BeginProtect(j, p) ==
    /\ points[p] # Nil /\ coherent[p] = Nil
    /\ Start(j, "reading", p)

ReadInventory(j) ==
    /\ JobAt(j, "reading")
    /\ points[jobs[j].point] # Nil
    /\ JobDo(j, "protecting", jobs[j].point, points[jobs[j].point].inventory, {}, jobs[j].day)
    /\ UNCHANGED <<attachmentVars, points, coherent, copies, jobLock, run, verified, published>>

(* A copy that is there is verified and used again; otherwise the binary is  *)
(* copied, and its absence ends the command.                                 *)
ProtectOne(j, i) ==
    /\ JobAt(j, "protecting")
    /\ i \in jobs[j].work
    /\ copies[i] # Nil \/ binaries[i] # Nil
    /\ copies' = [copies EXCEPT ![i] = IF @ = Nil THEN today ELSE @]
    /\ jobs' = [jobs EXCEPT ![j].work = @ \ {i}, ![j].refs = @ \cup {i}]
    /\ UNCHANGED <<attachmentVars, points, coherent, jobLock, run, verified, published>>

WriteAttachmentManifest(j) ==
    /\ JobAt(j, "protecting")
    /\ jobs[j].work = {}
    /\ coherent' = [coherent EXCEPT ![jobs[j].point] = jobs[j].refs]
    /\ published' = TRUE
    /\ End(j)
    /\ UNCHANGED <<attachmentVars, points, copies, run, verified>>

-----------------------------------------------------------------------------
(* cleanupAttachmentRecovery.                                                *)
BeginCleanup(j) == Start(j, "planning", Nil)

IsRetentionExpired(p) ==
    today - points[p].day >= (IF points[p].class = "DAILY" THEN DailyRetention ELSE MonthlyRetention)

ExpiredPoint(p) == ~Latest(p) /\ IsRetentionExpired(p)

(* Every point that stays must be coherent: its entries are what is kept.    *)
PlanRetention(j) ==
    /\ JobAt(j, "planning")
    /\ LET expired == {p \in Listed : ExpiredPoint(p)}
           survivors == Listed \ expired
       IN /\ \A p \in survivors : coherent[p] # Nil
          /\ JobDo(j, "deleting", Nil, expired, UNION {coherent[p] : p \in survivors}, jobs[j].day)
    /\ UNCHANGED <<attachmentVars, points, coherent, copies, jobLock, run, verified, published>>

(* First the attachment manifest, then the manifest of the point.            *)
DeleteAttachmentManifest(j, p) ==
    /\ JobAt(j, "deleting")
    /\ p \in jobs[j].work
    /\ jobs[j].point \notin jobs[j].work
    /\ coherent' = [coherent EXCEPT ![p] = Nil]
    /\ jobs' = [jobs EXCEPT ![j].point = p]
    /\ UNCHANGED <<attachmentVars, points, copies, jobLock, run, verified, published>>

DeleteRecoveryPoint(j) ==
    /\ JobAt(j, "deleting")
    /\ LET p == jobs[j].point IN
       /\ p \in jobs[j].work
       /\ points' = [points EXCEPT ![p] = Nil]
       /\ jobs' = [jobs EXCEPT ![j].work = @ \ {p}]
    /\ UNCHANGED <<attachmentVars, coherent, copies, jobLock, run, verified, published>>

DeleteUnreferenced(j, i) ==
    /\ JobAt(j, "deleting")
    /\ jobs[j].work = {}
    /\ i \notin jobs[j].refs
    /\ copies[i] # Nil
    /\ copies[i] <= today - CopyGrace
    /\ copies' = [copies EXCEPT ![i] = Nil]
    /\ UNCHANGED <<attachmentVars, points, coherent, jobs, jobLock, run, verified, published>>

EndCleanup(j) ==
    /\ JobAt(j, "deleting")
    /\ jobs[j].work = {}
    /\ End(j)
    /\ UNCHANGED <<attachmentVars, points, coherent, copies, run, verified, published>>

-----------------------------------------------------------------------------
Tick ==
    /\ today < MaxDay
    /\ UploadsAreShort
    /\ today' = today + 1
    /\ UNCHANGED <<parents, parentLocks, uploads, attachments, binaries, sweep, lost, pointVars>>

PointNext ==
    \E j \in Jobs :
      \/ Fails(j) \/ Crashes(j)
      \/ \E p \in PointIds : BeginCreatePoint(j, p) \/ BeginProtect(j, p)
      \/ ExportSnapshot(j) \/ WriteVerifiedManifest(j)
      \/ ReadInventory(j) \/ WriteAttachmentManifest(j)
      \/ \E i \in Attached : ProtectOne(j, i) \/ DeleteUnreferenced(j, i)
      \/ BeginCleanup(j) \/ PlanRetention(j)
      \/ \E p \in PointIds : DeleteAttachmentManifest(j, p)
      \/ DeleteRecoveryPoint(j) \/ EndCleanup(j)

PointsNext == (AttachmentNext /\ UNCHANGED pointVars) \/ PointNext \/ Tick

PointsSpec == PointsInit /\ [][PointsNext]_pointsVars

-----------------------------------------------------------------------------
(* A point that says it is coherent has every copy it says it has: clean-up  *)
(* and protection never pass each other (deleteUnreferencedProtectedObjects).*)
CoherentIsComplete ==
    \A p \in PointIds : coherent[p] # Nil =>
      /\ points[p] # Nil
      /\ coherent[p] = points[p].inventory
      /\ \A i \in coherent[p] : copies[i] # Nil

(* A point can still be protected as long as removed binaries are kept: what *)
(* its inventory names was not purged (purgeRemovedBinaries).                *)
CanBeProtected ==
    \A p \in Listed : today < points[p].day + RemovedRetention =>
      \A i \in points[p].inventory \ lost : copies[i] # Nil \/ binaries[i] # Nil

(* Once there was a coherent point, there always is one, whatever expires    *)
(* and wherever a clean-up stops (planRetention, readProtectedReferences).   *)
SomePointRemains == published => \E p \in Listed : coherent[p] # Nil

(* A month that has a point has one of the class that is kept longer, until  *)
(* that expires (classifyRetention).                                         *)
MonthIsKept ==
    \A p \in Listed : points[p].class = "DAILY" =>
      \/ \E q \in Listed : points[q].class = "MONTHLY" /\ Month(points[q].day) = Month(points[p].day)
      \/ today - points[p].day > MonthlyRetention - DaysOfMonth

(* The attachments and the recovery points taken of them are sound.          *)
PointsSound ==
    /\ WithinLimit /\ BinaryIsKept
    /\ CoherentIsComplete /\ CanBeProtected /\ SomePointRemains /\ MonthIsKept
=============================================================================
