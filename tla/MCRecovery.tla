----------------------------- MODULE MCRecovery -----------------------------
(* Two requests and an operator who may activate two new generations, or one *)
(* console with two attempts and crashes, or two writers, two rows and a     *)
(* device of the change feed: a behavior is of one kind.                     *)
EXTENDS RecoveryFencing, RecoveryExecution, ChangeFeed

CONSTANTS w1, w2, a1, a2, o1, r1, r2, d1

VARIABLE kind   \* which of the three the behavior is about

allVars == <<kind, fencingVars, vars, feedVars>>

OfFencing(action) == kind = "fencing" /\ action /\ UNCHANGED <<kind, vars, feedVars>>
OfExecution(action) == kind = "execution" /\ action /\ UNCHANGED <<kind, fencingVars, feedVars>>
OfFeed(action) == kind = "feed" /\ action /\ UNCHANGED <<kind, fencingVars, vars>>

MCInit ==
    /\ kind \in {"fencing", "execution", "feed"}
    /\ FencingInit /\ Init /\ FeedInit
    /\ kind # "execution" => point = [a \in Attempts |-> "usable"]

(* Rows are alike until one of them is committed: the first has the first    *)
(* name.                                                                     *)
ByName ==
    (\A c \in cuts : c.books = Nothing) =>
        \A c \in cuts' : c.books[r2] > 0 => c.books[r1] > 0

MCNext == OfFencing(FencingNext) \/ OfExecution(Next) \/ OfFeed(FeedNext /\ ByName)

(* The fairness of the three modules.                                        *)
MCFairness ==
    /\ \A w \in Requests : WF_allVars(OfFencing(RequestProgress(w)))
    /\ WF_allVars(OfFencing(OperatorProgress /\ UNCHANGED connection))
    /\ \A o \in Operators :
         /\ WF_allVars(OfExecution(Continue(o)))
         /\ SF_allVars(OfExecution(Advance(o)))
    /\ \A d \in Devices :
         /\ WF_allVars(OfFeed(Request(d)))
         /\ SF_allVars(OfFeed(Apply(d)))
    /\ \A w \in Writers : WF_allVars(OfFeed(FinishWriter(w)))
    /\ WF_allVars(OfFeed(ActivateStore))

MCSpec == MCInit /\ [][MCNext]_allVars /\ MCFairness

-----------------------------------------------------------------------------
(* A fence that waits for the lock gets it: see RecoveryFencing.             *)
FencesGoThrough == kind = "fencing" => FenceGoesThrough

(* After the source is fenced the platform is served again: see              *)
(* RecoveryExecution.                                                        *)
PlatformIsServedAgain == kind = "execution" => FencedIsServedAgain

(* Every device comes to hold the books: see ChangeFeed.                     *)
FeedConverges == kind = "feed" => Converges
=============================================================================
