-------------------------- MODULE RecoveryFencing --------------------------
(* Business writes and synchronization reads against the recovery fence:    *)
(* DatabaseService.withBusinessWriteTransaction, which keeps the shared     *)
(* advisory lock until commit, and withTenantSnapshotTransaction, whose     *)
(* REPEATABLE READ snapshot is taken before the lock is asked for.          *)
EXTENDS RecoveryAuthority

VARIABLE connection    \* what the connection of each request is doing

fencingVars == <<authorityVars, connection>>

\* generation: of the principal the guard established; snapshot: the control
\* row the transaction's snapshot shows, once there is one.
RequestStates ==
    [pc : {"idle", "authenticated", "begun", "writing", "snapshot", "reading"},
     generation : Generations \cup {NoGeneration}, snapshot : Controls]

Idle == [pc |-> "idle", generation |-> NoGeneration, snapshot |-> FirstControl]

FencingTypeOK == AuthorityTypeOK /\ connection \in [Requests -> RequestStates]

FencingInit ==
    /\ AuthorityInit
    /\ connection = [w \in Requests |-> Idle]

RequestAt(w, pc) == connection[w].pc = pc
Goto(w, pc) == connection' = [connection EXCEPT ![w].pc = pc]
FinishRequest(w) == connection' = [connection EXCEPT ![w] = Idle]

-----------------------------------------------------------------------------
\* AuthenticationGuard: the session is validated in a statement of its own,
\* which holds the shared lock no longer than it runs, and the principal keeps
\* the generation it read.
Authenticate(w) ==
    /\ RequestAt(w, "idle")
    /\ Grantable
    /\ Admits(control, NoGeneration, TRUE)
    /\ connection' = [connection EXCEPT ![w].pc = "authenticated", ![w].generation = control.generation]
    /\ UNCHANGED authorityVars

\* A request that reaches the database without a generation.
Anonymous(w) ==
    /\ RequestAt(w, "idle")
    /\ connection' = [connection EXCEPT ![w].pc = "begun", ![w].generation = NoGeneration]
    /\ UNCHANGED authorityVars

BeginWrite(w) ==
    /\ RequestAt(w, "authenticated")
    /\ Goto(w, "begun")
    /\ UNCHANGED authorityVars

\* Broken variant: the lock ends with the statement.
AssertWriteBriefly(w) ==
    /\ RequestAt(w, "begun")
    /\ Grantable
    /\ Admits(control, connection[w].generation, FALSE)
    /\ Goto(w, "writing")
    /\ UNCHANGED authorityVars

\* assertPlatformWriteAuthority: the statement reads the row after it has the
\* lock, which the transaction then keeps.
AssertWrite(w) ==
    /\ RequestAt(w, "begun")
    /\ Grantable
    /\ Admits(control, connection[w].generation, FALSE)
    /\ Goto(w, "writing")
    /\ Share(w)

WriteRefused(w) ==
    /\ RequestAt(w, "begun")
    /\ Grantable
    /\ ~ Admits(control, connection[w].generation, FALSE)
    /\ FinishRequest(w)
    /\ UNCHANGED authorityVars

\* Broken variant: a commit that leaves the lock with the connection.
CommitKeepsLock(w) ==
    /\ RequestAt(w, "writing")
    /\ FinishRequest(w)
    /\ UNCHANGED authorityVars

CommitWrite(w) ==
    /\ RequestAt(w, "writing")
    /\ FinishRequest(w)
    /\ Release(w)

-----------------------------------------------------------------------------
\* ChangePullService.pull and BootstrapService.start: setTenantContext is the
\* first statement of the transaction and fixes its snapshot.
BeginSnapshot(w) ==
    /\ RequestAt(w, "authenticated")
    /\ connection' = [connection EXCEPT ![w].pc = "snapshot", ![w].snapshot = control]
    /\ UNCHANGED authorityVars

\* assertSyncRecoveryAuthority, or capturePlatformRecoveryAuthority and the
\* comparison with the principal's generation.
AssertSnapshot(w) ==
    /\ RequestAt(w, "snapshot")
    /\ Grantable
    /\ Admits(connection[w].snapshot, connection[w].generation, FALSE)
    /\ Goto(w, "reading")
    /\ Share(w)

SnapshotRefused(w) ==
    /\ RequestAt(w, "snapshot")
    /\ Grantable
    /\ ~ Admits(connection[w].snapshot, connection[w].generation, FALSE)
    /\ FinishRequest(w)
    /\ UNCHANGED authorityVars

EndSnapshot(w) ==
    /\ RequestAt(w, "reading")
    /\ FinishRequest(w)
    /\ Release(w)

\* The request fails or its connection is lost.
RequestLost(w) ==
    /\ ~ RequestAt(w, "idle")
    /\ FinishRequest(w)
    /\ Release(w)

-----------------------------------------------------------------------------
RequestProgress(w) ==
    \/ BeginWrite(w) \/ AssertWrite(w) \/ WriteRefused(w) \/ CommitWrite(w)
    \/ AssertSnapshot(w) \/ SnapshotRefused(w) \/ EndSnapshot(w)

RequestNext(w) ==
    Authenticate(w) \/ Anonymous(w) \/ BeginSnapshot(w) \/ RequestProgress(w) \/ RequestLost(w)

FencingNext ==
    \/ OperatorNext /\ UNCHANGED connection
    \/ \E w \in Requests : RequestNext(w)

\* The server and the operator's connection run; nothing makes requests arrive.
FencingFairness ==
    /\ \A w \in Requests : WF_fencingVars(RequestProgress(w))
    /\ WF_fencingVars(OperatorProgress /\ UNCHANGED connection)

FencingSpec == FencingInit /\ [][FencingNext]_fencingVars
FencingFairSpec == FencingSpec /\ FencingFairness

-----------------------------------------------------------------------------
(* A request without a generation may write before the first cutoff only.   *)
Authority(w) == Admits(control, connection[w].generation, FALSE)

(* No write commits after the fence has, and none of an earlier generation  *)
(* after an activation: what was admitted stays admitted until it commits   *)
(* (0033:141, database.service.ts:249).                                     *)
WritesUnderCurrentAuthority ==
    [][\A w \in Requests : CommitWrite(w) => Authority(w)]_fencingVars

(* A fence that waits for the lock gets it, however many requests keep      *)
(* arriving (0033:361).                                                     *)
FenceGoesThrough == operator.pc = "waiting" ~> operator.pc # "waiting"

-----------------------------------------------------------------------------
(* What makes the writes safe: a writer is a holder whose authority is      *)
(* current, and the operator changes the row under the lock only.           *)
WritersHold == \A w \in Requests : RequestAt(w, "writing") => w \in holders /\ Authority(w)
ExclusionHolds == ExclusiveHeld => holders = {}

FencingIInv == FencingTypeOK /\ WritersHold /\ ExclusionHolds
=============================================================================
