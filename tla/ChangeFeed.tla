----------------------------- MODULE ChangeFeed -----------------------------
(* The change feed of a Store: writers commit rows together with the events *)
(* their deferred triggers capture under the lock of the Store's watermark; *)
(* devices bootstrap from a snapshot of the rows and then pull the events   *)
(* page by page; the operator restores an earlier backup under a new        *)
(* recovery generation. A row is its version: the number of times it was    *)
(* written, 0 while it does not exist.                                      *)
EXTENDS Naturals, Sequences, FiniteSets

CONSTANTS
    Rows,            \* rows of the synchronized tables of one Store
    Writers,         \* transactions that write at the same time
    Devices,         \* clients that keep a copy
    PageSize,        \* largest page of a pull
    MaxSequence,     \* bound on the events of a generation
    MaxWrites,       \* bound on the row writes of a transaction
    MaxRestores,   \* bound on the restores
    NoRequest

ASSUME FeedAssumption ==
    /\ PageSize \in Nat \ {0}
    /\ MaxSequence \in Nat /\ MaxWrites \in Nat /\ MaxRestores \in Nat
    /\ NoRequest \notin Rows \cup Writers \cup Devices

VARIABLES
    store,      \* the committed database
    txn,        \* the writers' transactions
    backup,     \* the verified recovery point a restore would use
    request,    \* per device, the pull or bootstrap under way and its answer
    replica,    \* per device, its copy and its cursor
    cuts        \* history: the committed states, with their watermark

feedVars == <<store, txn, backup, request, replica, cuts>>

Version == 0 .. MaxSequence
Event == [sequence : 1 .. MaxSequence, row : Rows, version : 1 .. MaxSequence]
Write == [row : Rows, version : 1 .. MaxSequence]
Store == [books : [Rows -> Version], events : SUBSET Event, head : Version,
          state : {"ACTIVE", "FENCED"}, generation : 0 .. MaxRestores]
Transaction ==
    [pc : {"idle", "open", "committing"}, writes : Seq(Write), captured : SUBSET Event]
Replica ==
    [copy : [Rows -> Version], cursor : Version, generation : 0 .. MaxRestores,
     mode : {"bootstrap", "pull"}, complete : BOOLEAN]

(* A request before its snapshot is answered, and its two kinds of answer. *)
Snapshot == [at : {"snapshot"}, store : Store]
Page == [at : {"page"}, changes : SUBSET Event, next : Version, more : BOOLEAN,
         generation : 0 .. MaxRestores]
Dataset == [at : {"dataset"}, rows : [Rows -> Version], base : Version,
            generation : 0 .. MaxRestores]

IdleTransaction == [pc |-> "idle", writes |-> <<>>, captured |-> {}]
Nothing == [r \in Rows |-> 0]

FeedInit ==
    /\ store = [books |-> Nothing, events |-> {}, head |-> 0,
                state |-> "ACTIVE", generation |-> 0]
    /\ txn = [w \in Writers |-> IdleTransaction]
    /\ backup = store
    /\ request = [d \in Devices |-> NoRequest]
    /\ replica = [d \in Devices |-> [copy |-> Nothing, cursor |-> 0, generation |-> 0,
                                     mode |-> "bootstrap", complete |-> FALSE]]
    /\ cuts = {[generation |-> 0, head |-> 0, books |-> Nothing]}

-----------------------------------------------------------------------------
(* Writers. A row is locked from its first write to the end of the          *)
(* transaction, and so is the watermark from the first captured event.      *)
Locked(w, r) == \E i \in DOMAIN txn[w].writes : txn[w].writes[i].row = r
HoldsWatermark(w) == txn[w].captured # {}
RowFree(w, r) == \A v \in Writers \ {w} : ~Locked(v, r)
WatermarkUnlocked(w) == w \in Writers
WatermarkFree(w) == \A v \in Writers \ {w} : ~HoldsWatermark(v)

Written(w, r) == {i \in DOMAIN txn[w].writes : txn[w].writes[i].row = r}
VersionSeen(w, r) == store.books[r] + Cardinality(Written(w, r))
Pending == {p \in Writers \X (1 .. MaxWrites) : p[2] <= Len(txn[p[1]].writes)}

BeginWriter(w) ==
    /\ txn[w].pc = "idle" /\ store.state = "ACTIVE"
    /\ txn' = [txn EXCEPT ![w].pc = "open"]
    /\ UNCHANGED <<store, backup, request, replica, cuts>>

(* An INSERT or UPDATE; its trigger is queued for the end. *)
WriteRow(w, r) ==
    /\ txn[w].pc = "open" /\ RowFree(w, r)
    /\ Len(txn[w].writes) < MaxWrites
    /\ store.head + Cardinality(Pending) < MaxSequence
    /\ txn' = [txn EXCEPT ![w].writes =
                 Append(@, [row |-> r, version |-> VersionSeen(w, r) + 1])]
    /\ UNCHANGED <<store, backup, request, replica, cuts>>

(* COMMIT fires the queued triggers in the order of the writes. *)
StartCommit(w) ==
    /\ txn[w].pc = "open"
    /\ txn' = [txn EXCEPT ![w].pc = "committing"]
    /\ UNCHANGED <<store, backup, request, replica, cuts>>

NextSequence(w) == store.head + Cardinality(txn[w].captured) + 1

Capture(w) ==
    LET done == Cardinality(txn[w].captured) IN
    /\ txn[w].pc = "committing" /\ done < Len(txn[w].writes)
    /\ WatermarkFree(w)
    /\ txn' = [txn EXCEPT ![w].captured = @ \cup
                 {[sequence |-> NextSequence(w), row |-> txn[w].writes[done + 1].row,
                   version |-> txn[w].writes[done + 1].version]}]
    /\ UNCHANGED <<store, backup, request, replica, cuts>>

Captured(w) == Cardinality(txn[w].captured) = Len(txn[w].writes)

BooksAfter(w) == [r \in Rows |-> VersionSeen(w, r)]

Commit(w) ==
    /\ txn[w].pc = "committing" /\ Captured(w)
    /\ store' = [store EXCEPT !.books = BooksAfter(w),
                              !.events = @ \cup txn[w].captured,
                              !.head = @ + Cardinality(txn[w].captured)]
    /\ txn' = [txn EXCEPT ![w] = IdleTransaction]
    /\ cuts' = cuts \cup {[generation |-> store.generation,
                           head |-> store'.head, books |-> store'.books]}
    /\ UNCHANGED <<backup, request, replica>>

(* A refusal, a deadlock among row locks, a crash: rows and watermark alike *)
(* are rolled back.                                                         *)
Abort(w) ==
    /\ txn[w].pc # "idle"
    /\ txn' = [txn EXCEPT ![w] = IdleTransaction]
    /\ UNCHANGED <<store, backup, request, replica, cuts>>

-----------------------------------------------------------------------------
(* The operator. A recovery point is a dump of one snapshot; the fence      *)
(* waits for open writers; activation serves the restored database under a  *)
(* generation nobody has seen.                                              *)
TakeBackup ==
    /\ store.state = "ACTIVE" /\ store.generation < MaxRestores
    /\ backup' = store
    /\ UNCHANGED <<store, txn, request, replica, cuts>>

FenceStore ==
    /\ store.state = "ACTIVE" /\ store.generation < MaxRestores
    /\ \A w \in Writers : txn[w].pc = "idle"
    /\ store' = [store EXCEPT !.state = "FENCED"]
    /\ UNCHANGED <<txn, backup, request, replica, cuts>>

ActivateStore ==
    /\ store.state = "FENCED" /\ backup.generation = store.generation
    /\ store' = [backup EXCEPT !.generation = @ + 1]
    /\ cuts' = cuts \cup {[generation |-> store'.generation,
                           head |-> backup.head, books |-> backup.books]}
    /\ UNCHANGED <<txn, backup, request, replica>>

-----------------------------------------------------------------------------
(* Devices. A request reads everything in one REPEATABLE READ snapshot.     *)
OpenSnapshot(d) ==
    /\ request[d] = NoRequest
    /\ request' = [request EXCEPT ![d] = [at |-> "snapshot", store |-> store]]
    /\ UNCHANGED <<store, txn, backup, replica, cuts>>

InSnapshot(d, mode) ==
    /\ request[d] # NoRequest /\ request[d].at = "snapshot" /\ replica[d].mode = mode

SnapshotOf(d) == request[d].store

AnyGenerationServed(d, s) == s.state = "ACTIVE" /\ replica[d].cursor <= s.head

(* The cursor is of the generation the snapshot serves, and within bounds. *)
CursorServed(d, s) ==
    /\ s.state = "ACTIVE" /\ replica[d].generation = s.generation
    /\ replica[d].cursor <= s.head

PageOf(cursor, s) ==
    {e \in s.events : e.sequence > cursor /\ e.sequence <= cursor + PageSize}

(* assertPage: as many rows as the bounds promise, one for each sequence. *)
Contiguous(page, cursor, head) ==
    {e.sequence : e \in page} =
        cursor + 1 .. (IF head - cursor > PageSize THEN cursor + PageSize ELSE head)

AnswerPull(d) ==
    LET s == SnapshotOf(d)
        page == PageOf(replica[d].cursor, s)
        next == replica[d].cursor + Cardinality(page) IN
    /\ InSnapshot(d, "pull") /\ CursorServed(d, s)
    /\ Contiguous(page, replica[d].cursor, s.head)
    /\ request' = [request EXCEPT ![d] =
                     [at |-> "page", changes |-> page, next |-> next,
                      more |-> next < s.head, generation |-> s.generation]]
    /\ UNCHANGED <<store, txn, backup, replica, cuts>>

RequireBootstrapAhead(d) ==
    LET s == SnapshotOf(d) IN
    /\ InSnapshot(d, "pull") /\ s.state = "ACTIVE"
    /\ replica[d].cursor > s.head
    /\ replica' = [replica EXCEPT ![d].mode = "bootstrap"]
    /\ request' = [request EXCEPT ![d] = NoRequest]
    /\ UNCHANGED <<store, txn, backup, cuts>>

(* SYNC_REBOOTSTRAP_REQUIRED: the client starts over. *)
RequireBootstrap(d) ==
    LET s == SnapshotOf(d) IN
    /\ InSnapshot(d, "pull") /\ s.state = "ACTIVE"
    /\ ~CursorServed(d, s)
    /\ replica' = [replica EXCEPT ![d].mode = "bootstrap"]
    /\ request' = [request EXCEPT ![d] = NoRequest]
    /\ UNCHANGED <<store, txn, backup, cuts>>

CurrentBoundary(d) == store.head
Boundary(d) == SnapshotOf(d).head

AnswerBootstrap(d) ==
    LET s == SnapshotOf(d) IN
    /\ InSnapshot(d, "bootstrap") /\ s.state = "ACTIVE"
    /\ request' = [request EXCEPT ![d] =
                     [at |-> "dataset", rows |-> s.books, base |-> Boundary(d),
                      generation |-> s.generation]]
    /\ UNCHANGED <<store, txn, backup, replica, cuts>>

(* The client applies a page or swaps in a bootstrapped database, with the  *)
(* cursor, in one local transaction. Pages of a dataset are handed out only *)
(* to the generation they were made under.                                  *)
ApplyPage(d) ==
    LET page == request[d].changes
        last(r) == {e \in page : e.row = r /\ \A f \in page :
                                    f.row = r => f.sequence <= e.sequence} IN
    /\ request[d] # NoRequest /\ request[d].at = "page"
    /\ replica' = [replica EXCEPT
         ![d].copy = [r \in Rows |-> IF last(r) = {} THEN @[r]
                                     ELSE (CHOOSE e \in last(r) : TRUE).version],
         ![d].cursor = request[d].next,
         ![d].complete = ~request[d].more]
    /\ request' = [request EXCEPT ![d] = NoRequest]
    /\ UNCHANGED <<store, txn, backup, cuts>>

DatasetServed(d) ==
    store.state = "ACTIVE" /\ request[d].generation = store.generation

InstallDataset(d) ==
    /\ request[d] # NoRequest /\ request[d].at = "dataset" /\ DatasetServed(d)
    /\ replica' = [replica EXCEPT ![d] =
         [copy |-> request[d].rows, cursor |-> request[d].base,
          generation |-> request[d].generation, mode |-> "pull", complete |-> TRUE]]
    /\ request' = [request EXCEPT ![d] = NoRequest]
    /\ UNCHANGED <<store, txn, backup, cuts>>

(* The fence refuses what it finds in its way: a snapshot taken under it,   *)
(* the pages of a dataset whose generation is no longer served.             *)
Refuse(d) ==
    /\ request[d] # NoRequest
    /\ \/ request[d].at = "snapshot" /\ request[d].store.state = "FENCED"
       \/ request[d].at = "dataset" /\ ~DatasetServed(d)
    /\ request' = [request EXCEPT ![d] = NoRequest]
    /\ UNCHANGED <<store, txn, backup, replica, cuts>>

(* A lost answer, an expired dataset. A request that is lost itself, or     *)
(* fails in its transaction, leaves what no request leaves.                 *)
LoseAnswer(d) ==
    /\ request[d] # NoRequest /\ request[d].at # "snapshot"
    /\ request' = [request EXCEPT ![d] = NoRequest]
    /\ UNCHANGED <<store, txn, backup, replica, cuts>>

-----------------------------------------------------------------------------
WriterStep(w) ==
    \/ BeginWriter(w)
    \/ \E r \in Rows : WriteRow(w, r)
    \/ StartCommit(w)
    \/ Capture(w)
    \/ Commit(w)
    \/ Abort(w)

DeviceStep(d) ==
    \/ OpenSnapshot(d)
    \/ AnswerPull(d)
    \/ RequireBootstrap(d)
    \/ AnswerBootstrap(d)
    \/ ApplyPage(d)
    \/ InstallDataset(d)
    \/ Refuse(d)
    \/ LoseAnswer(d)

FeedNext ==
    \/ \E w \in Writers : WriterStep(w)
    \/ TakeBackup
    \/ FenceStore
    \/ ActivateStore
    \/ \E d \in Devices : DeviceStep(d)

FeedSpec == FeedInit /\ [][FeedNext]_feedVars

(* A device keeps asking and now and then an answer arrives; a transaction  *)
(* that has begun ends, and its triggers run on to the end unless it is     *)
(* aborted; an operator who has fenced goes on to activate.                 *)
Request(d) ==
    \/ OpenSnapshot(d) \/ AnswerPull(d) \/ AnswerBootstrap(d)
    \/ RequireBootstrap(d) \/ Refuse(d)
Apply(d) == ApplyPage(d) \/ InstallDataset(d)
FinishWriter(w) == StartCommit(w) \/ Capture(w) \/ Commit(w)

FeedFairSpec ==
    /\ FeedSpec
    /\ \A d \in Devices : WF_feedVars(Request(d)) /\ SF_feedVars(Apply(d))
    /\ \A w \in Writers : WF_feedVars(FinishWriter(w))
    /\ WF_feedVars(ActivateStore)

-----------------------------------------------------------------------------
(* Properties *)

FeedTypeOK ==
    /\ store \in Store /\ backup \in Store
    /\ \A w \in Writers : txn[w] \in Transaction
    /\ \A d \in Devices :
         /\ request[d] = NoRequest \/ request[d] \in Snapshot \cup Page \cup Dataset
         /\ replica[d] \in Replica

(* The feed is gap-free and tells the books: the sequences are exactly      *)
(* 1 .. head, and the events of a row are its versions, in the order they   *)
(* were committed, up to the one in the books (0022:154, 0027:541).         *)
FeedTellsBooks ==
    /\ {e.sequence : e \in store.events} = 1 .. store.head
    /\ \A r \in Rows :
         {e.version : e \in {f \in store.events : f.row = r}} = 1 .. store.books[r]
    /\ \A e, f \in store.events :
         /\ e.sequence = f.sequence => e = f
         /\ e.row = f.row /\ e.sequence < f.sequence => e.version < f.version

(* A device that was told there is nothing more holds a state the Store     *)
(* really had at the cursor it keeps, in the generation of the cursor:      *)
(* never a torn transaction, never rows of two histories                    *)
(* (change-pull.service.ts:77, 0022:390).                                   *)
CompleteIsACommit ==
    \A d \in Devices : replica[d].complete =>
        \E c \in cuts : /\ c.generation = replica[d].generation
                        /\ c.head = replica[d].cursor /\ c.books = replica[d].copy

(* In between, a copy that belongs to the current generation has exactly    *)
(* the events up to its cursor, so no committed change can be passed over   *)
(* (0027:595, change-pull.service.ts:132).                                  *)
NothingPassedOver ==
    \A d \in Devices :
        replica[d].mode = "pull" /\ replica[d].generation = store.generation =>
            \A e \in store.events :
                e.sequence <= replica[d].cursor <=> e.version <= replica[d].copy[e.row]

(* When the writers stop, every device comes to hold the books, whatever    *)
(* was lost or restored before (change-pull.service.ts:99).                 *)
UpToDate(d) ==
    replica[d].generation = store.generation /\ replica[d].copy = store.books

Converges == \A d \in Devices : <>[](store.state = "ACTIVE") => <>[]UpToDate(d)
=============================================================================
