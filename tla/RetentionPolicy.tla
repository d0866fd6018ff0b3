--------------------------- MODULE RetentionPolicy ---------------------------
(* What attachments and recovery points there may be, what their rows are    *)
(* made of, and how many and how long they are kept.                         *)
EXTENDS Integers

CONSTANTS
    Attached,          \* identifiers of attachments
    Parents,           \* what they are attached to
    MaxActive,         \* active attachments a parent may have
    OrphanRetention,   \* days before a binary without a row may go
    RemovedRetention,  \* days before the binary of a removed one may go
    PointIds,          \* recovery points, in the order they are created
    Jobs,              \* processes that run a command
    DaysOfMonth,       \* days of a month
    DailyRetention,    \* days a daily point is kept
    MonthlyRetention,  \* days a monthly point is kept
    CopyGrace,         \* days a copy no point refers to is kept
    Nil

AttachmentRows == [parent : Parents, removed : Nat \cup {Nil}]
PointRows == [day : Nat, class : {"DAILY", "MONTHLY"}, inventory : SUBSET Attached]

(* No orphan goes on the day it was put.                                     *)
ASSUME AttachmentAssumption ==
    /\ MaxActive \in Nat /\ OrphanRetention \in Nat \ {0} /\ RemovedRetention \in Nat
    /\ Nil \notin Nat \cup Parents \cup Attached \cup AttachmentRows

ASSUME PointsAssumption ==
    /\ PointIds \subseteq Nat /\ DaysOfMonth \in Nat \ {0}
    /\ DailyRetention \in Nat /\ MonthlyRetention \in Nat
    /\ Nil \notin PointIds \cup Jobs \cup PointRows
    /\ \A inventory \in SUBSET Attached : inventory # Nil
=============================================================================
