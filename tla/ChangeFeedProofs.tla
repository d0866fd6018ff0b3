-------------------------- MODULE ChangeFeedProofs --------------------------
(* Proofs about ChangeFeed, for any rows, writers, devices and bounds.       *)
(*                                                                           *)
(* The argument: the watermark is held by one writer from its first captured *)
(* event to the end, so a commit appends to the feed; a cursor and a copy    *)
(* that stand at a position of the feed stand there after every commit of    *)
(* the generation, and a restore opens a generation no cursor is of.         *)
EXTENDS ChangeFeed, FiniteSetTheorems, WellFoundedInduction, TLAPS

USE FeedAssumption

-----------------------------------------------------------------------------
(* Facts about finite sets of numbers.                                       *)
LEMMA Largest ==
    ASSUME NEW S, NEW m \in Nat, S # {}, S \subseteq 0 .. m
    PROVE  \E x \in S : \A y \in S : y <= x
<1> DEFINE T == {m - x : x \in S}
<1>1. T \subseteq Nat /\ T # {}
  <2>1. \A x \in S : x \in 0 .. m
    OBVIOUS
  <2>2. \A x \in S : m - x \in Nat
    BY <2>1
  <2>3. QED BY <2>2
<1>2. PICK t \in T : \A u \in T : ~ (<<u, t>> \in OpToRel(<, Nat))
  BY <1>1, NatLessThanWellFounded, WFMin
<1>3. \A u \in T : ~ (u < t)
  BY <1>1, <1>2 DEF OpToRel
<1>4. PICK x \in S : t = m - x
  BY <1>2
<1>5. ASSUME NEW y \in S PROVE y <= x
  <2>1. m - y \in T
    OBVIOUS
  <2>2. QED BY <1>3, <1>4, <2>1
<1>6. QED BY <1>4, <1>5

\* A set of events numbered without repetition from a + 1 to b has b - a of them.
LEMMA Numbered ==
    ASSUME NEW E, NEW a \in Nat, NEW b \in Nat, a <= b,
           {e.sequence : e \in E} = a + 1 .. b,
           \A e, f \in E : e.sequence = f.sequence => e = f
    PROVE  IsFiniteSet(E) /\ Cardinality(E) = b - a
<1> DEFINE N == a + 1 .. b
           g == [n \in N |-> CHOOSE e \in E : e.sequence = n]
<1>1. IsFiniteSet(N) /\ Cardinality(N) = b - a
  <2>1. a + 1 \in Int /\ b \in Int /\ (a + 1 > b => b - a = 0) /\ b - (a + 1) + 1 = b - a
    OBVIOUS
  <2>2. QED BY <2>1, FS_Interval
<1>2. \A n \in N : \E e \in E : e.sequence = n
  OBVIOUS
<1>3. \A n \in N : g[n] \in E /\ g[n].sequence = n
  BY <1>2
<1>4. \A e \in E : e.sequence \in N /\ g[e.sequence] = e
  BY <1>3
<1>5. g \in Bijection(N, E)
  <2>1. g \in [N -> E]
    BY <1>3
  <2>2. \A m, n \in N : g[m] = g[n] => m = n
    BY <1>3
  <2>3. \A e \in E : \E n \in N : g[n] = e
    BY <1>4
  <2> HIDE DEF g
  <2>4. QED BY <2>1, <2>2, <2>3 DEF Bijection, Injection, Surjection, IsInjective
<1>6. ExistsBijection(N, E)
  BY <1>5 DEF ExistsBijection
<1> HIDE DEF N, g
<1>7. QED BY <1>1, <1>6, FS_Bijection

-----------------------------------------------------------------------------
(* The invariant. Numbers are left unbounded: only the bounds of the model   *)
(* would be added by FeedTypeOK.                                             *)
Events == [sequence : Nat, row : Rows, version : Nat]
Copies == [Rows -> Nat]
Stores == [books : Copies, events : SUBSET Events, head : Nat,
           state : {"ACTIVE", "FENCED"}, generation : Nat]
Writes == [row : Rows, version : Nat]
Transactions == [pc : {"idle", "open", "committing"},
                 writes : Seq(Writes), captured : SUBSET Events]
Replicas == [copy : Copies, cursor : Nat, generation : Nat,
             mode : {"bootstrap", "pull"}, complete : BOOLEAN]
Snapshots == [at : {"snapshot"}, store : Stores]
Pages == [at : {"page"}, changes : SUBSET Events, next : Nat, more : BOOLEAN, generation : Nat]
Datasets == [at : {"dataset"}, rows : Copies, base : Nat, generation : Nat]

Typed ==
    /\ store \in Stores /\ backup \in Stores
    /\ txn \in [Writers -> Transactions]
    /\ request \in [Devices -> Snapshots \cup Pages \cup Datasets \cup {NoRequest}]
    /\ replica \in [Devices -> Replicas]

\* What FeedTellsBooks says of the Store, of any state of it.
Told(s) ==
    /\ {e.sequence : e \in s.events} = 1 .. s.head
    /\ \A r \in Rows : {e.version : e \in {f \in s.events : f.row = r}} = 1 .. s.books[r]
    /\ \A e, f \in s.events :
         /\ e.sequence = f.sequence => e = f
         /\ e.row = f.row /\ e.sequence < f.sequence => e.version < f.version

\* A copy with exactly the events up to a cursor.
Position(s, cursor, copy) ==
    /\ cursor <= s.head
    /\ \A r \in Rows : copy[r] <= s.books[r]
    /\ \A e \in s.events : e.sequence <= cursor <=> e.version <= copy[e.row]

\* A committed state of the history.
Cut(history, generation, head, books) ==
    [generation |-> generation, head |-> head, books |-> books] \in history

StoreIInv ==
    /\ Told(store) /\ Cut(cuts, store.generation, store.head, store.books)
    /\ Told(backup) /\ backup.generation <= store.generation

\* The writes of a row, and the events captured of a transaction's writes.
RowsOf(writes, r) == {i \in DOMAIN writes : writes[i].row = r}
Seen(writes, books, r) == books[r] + Cardinality(RowsOf(writes, r))
EventOf(writes, head, i) ==
    [sequence |-> head + i, row |-> writes[i].row, version |-> writes[i].version]

\* The writes of a transaction number each row on from the books.
Versioned(writes, books) ==
    \A r \in Rows :
        /\ \A i \in RowsOf(writes, r) :
             /\ books[r] < writes[i].version
             /\ writes[i].version <= Seen(writes, books, r)
        /\ \A n \in books[r] + 1 .. Seen(writes, books, r) :
             \E i \in RowsOf(writes, r) : writes[i].version = n
        /\ \A i, j \in RowsOf(writes, r) : i < j => writes[i].version < writes[j].version

\* The captured events are those of the first writes, numbered on from the head.
Capturing(t, head) ==
    LET done == Cardinality(t.captured) IN
    /\ IsFiniteSet(t.captured) /\ done <= Len(t.writes)
    /\ t.captured = {EventOf(t.writes, head, i) : i \in 1 .. done}

Apart(t, u) ==
    /\ \A r \in Rows : RowsOf(t.writes, r) = {} \/ RowsOf(u.writes, r) = {}
    /\ t.captured = {} \/ u.captured = {}

\* A transaction under a Store: open only while it is served.
WriterSound(t, s) ==
    /\ t.pc = "idle" => t = IdleTransaction
    /\ t.pc # "idle" => s.state = "ACTIVE"
    /\ Versioned(t.writes, s.books)
    /\ Capturing(t, s.head)

WriterIInv ==
    /\ \A w \in Writers : WriterSound(txn[w], store)
    /\ \A w, v \in Writers : w # v => Apart(txn[w], txn[v])

\* The copy a page turns a copy into.
Applied(page, copy) ==
    [r \in Rows |->
       LET last == {e \in page : e.row = r /\ \A f \in page :
                                    f.row = r => f.sequence <= e.sequence} IN
       IF last = {} THEN copy[r] ELSE (CHOOSE e \in last : TRUE).version]

\* The events of an earlier snapshot s of a Store t are those up to its head.
Prefix(s, t) ==
    /\ Position(t, s.head, s.books)
    /\ \A e \in t.events : e.sequence <= s.head => e \in s.events

\* What a request q and a replica p are, of a Store t with its history.
SnapshotSound(s, p, t, history) ==
    /\ Told(s) /\ Cut(history, s.generation, s.head, s.books)
    /\ s.generation <= t.generation
    /\ p.mode = "pull" /\ p.generation = s.generation /\ p.cursor <= s.head =>
         Position(s, p.cursor, p.copy)
    /\ s.generation = t.generation => Prefix(s, t)

PageSound(q, p, t, history) ==
    /\ p.mode = "pull" /\ q.generation = p.generation
    /\ ~ q.more => Cut(history, q.generation, q.next, Applied(q.changes, p.copy))
    /\ q.generation = t.generation => Position(t, q.next, Applied(q.changes, p.copy))

DatasetSound(q, t, history) ==
    /\ Cut(history, q.generation, q.base, q.rows) /\ q.generation <= t.generation
    /\ q.generation = t.generation => Position(t, q.base, q.rows)

ReplicaSound(p, t, history) ==
    /\ p.generation <= t.generation
    /\ p.complete => Cut(history, p.generation, p.cursor, p.copy)
    /\ p.mode = "pull" /\ p.generation = t.generation => Position(t, p.cursor, p.copy)

RequestSound(q, p, t, history) ==
    q # NoRequest => /\ q.at = "snapshot" => SnapshotSound(q.store, p, t, history)
                     /\ q.at = "page" => PageSound(q, p, t, history)
                     /\ q.at = "dataset" => DatasetSound(q, t, history)

DeviceIInv ==
    \A d \in Devices :
        /\ ReplicaSound(replica[d], store, cuts)
        /\ RequestSound(request[d], replica[d], store, cuts)

FeedIInv == Typed /\ StoreIInv /\ WriterIInv /\ DeviceIInv

-----------------------------------------------------------------------------
(* Positions of a feed.                                                      *)

\* What happens to a Store in one generation: events are only appended.
Grows(s, t) ==
    /\ t.generation = s.generation /\ s.head <= t.head
    /\ \A r \in Rows : s.books[r] <= t.books[r]
    /\ s.events \subseteq t.events
    /\ \A e \in t.events \ s.events : s.head < e.sequence /\ s.books[e.row] < e.version

LEMMA NothingGrows == ASSUME NEW s \in Stores PROVE Grows(s, s)
BY DEF Grows, Stores, Copies

\* What stands at a position of a feed stands there when events are appended.
LEMMA PositionKept ==
    ASSUME NEW s \in Stores, NEW t \in Stores, Grows(s, t),
           NEW cursor \in Nat, NEW copy \in Copies, Position(s, cursor, copy)
    PROVE  Position(t, cursor, copy)
<1>1. cursor <= t.head
  BY DEF Grows, Position, Stores
<1>2. \A r \in Rows : copy[r] <= t.books[r]
  BY DEF Grows, Position, Stores, Copies
<1>3. ASSUME NEW e \in t.events PROVE e.sequence <= cursor <=> e.version <= copy[e.row]
  <2>1. e \in Events
    BY DEF Stores
  <2>2. CASE e \in s.events
    BY <2>2 DEF Position
  <2>3. CASE e \notin s.events
    BY <2>1, <2>3 DEF Grows, Position, Stores, Copies, Events
  <2>4. QED BY <2>2, <2>3
<1>4. QED BY <1>1, <1>2, <1>3 DEF Position

LEMMA PrefixKept ==
    ASSUME NEW s \in Stores, NEW t \in Stores, NEW u \in Stores, Grows(t, u), Prefix(s, t)
    PROVE  Prefix(s, u)
<1>1. Position(u, s.head, s.books)
  BY PositionKept DEF Prefix, Stores
<1>2. ASSUME NEW e \in u.events, e.sequence <= s.head PROVE e \in s.events
  <2>1. e \in Events /\ s.head \in Nat /\ t.head \in Nat /\ s.head <= t.head
    BY DEF Stores, Prefix, Position
  <2>2. e \in t.events
    BY <1>2, <2>1 DEF Grows, Events
  <2>3. QED BY <1>2, <2>2 DEF Prefix
<1>3. QED BY <1>1, <1>2 DEF Prefix

\* A position of a snapshot is one of the Store it was taken of.
LEMMA PositionMoved ==
    ASSUME NEW s \in Stores, NEW t \in Stores, Prefix(s, t),
           NEW cursor \in Nat, NEW copy \in Copies, Position(s, cursor, copy)
    PROVE  Position(t, cursor, copy)
<1>1. cursor <= t.head
  BY DEF Prefix, Position, Stores
<1>2. \A r \in Rows : copy[r] <= t.books[r]
  BY DEF Prefix, Position, Stores, Copies
<1>3. ASSUME NEW e \in t.events PROVE e.sequence <= cursor <=> e.version <= copy[e.row]
  <2>1. e \in Events
    BY DEF Stores
  <2>2. CASE e.sequence <= s.head
    BY <2>2 DEF Prefix, Position
  <2>3. CASE ~ (e.sequence <= s.head)
    <3>1. ~ (e.version <= s.books[e.row])
      BY <2>3 DEF Prefix, Position
    <3>2. QED BY <2>1, <2>3, <3>1 DEF Position, Stores, Copies, Events
  <2>4. QED BY <2>2, <2>3
<1>4. QED BY <1>1, <1>2, <1>3 DEF Position

\* The books stand at the head.
LEMMA AtHead ==
    ASSUME NEW s \in Stores, Told(s)
    PROVE  Position(s, s.head, s.books) /\ Prefix(s, s)
<1>1. \A e \in s.events : e.sequence \in 1 .. s.head
  BY DEF Told
<1>2. ASSUME NEW e \in s.events PROVE e.version \in 1 .. s.books[e.row]
  <2>1. e.row \in Rows
    BY DEF Stores, Events
  <2>2. QED BY <2>1 DEF Told
<1>3. QED BY <1>1, <1>2 DEF Position, Prefix, Stores, Copies

\* Nothing else stands there.
LEMMA Whole ==
    ASSUME NEW s \in Stores, Told(s), NEW copy \in Copies, Position(s, s.head, copy)
    PROVE  copy = s.books
<1>1. ASSUME NEW r \in Rows PROVE copy[r] = s.books[r]
  <2>1. copy[r] \in Nat /\ s.books[r] \in Nat /\ s.head \in Nat /\ copy[r] <= s.books[r]
    BY DEF Stores, Copies, Position
  <2>2. SUFFICES ASSUME copy[r] < s.books[r] PROVE FALSE
    BY <2>1
  <2>3. s.books[r] \in 1 .. s.books[r]
    BY <2>1, <2>2
  <2>4. PICK e \in {f \in s.events : f.row = r} : e.version = s.books[r]
    BY <2>3 DEF Told
  <2>5. e \in s.events /\ e.row = r /\ e.sequence <= s.head
    BY <2>4 DEF Told
  <2>6. QED BY <2>1, <2>2, <2>4, <2>5 DEF Position
<1>2. QED BY <1>1 DEF Copies, Stores

-----------------------------------------------------------------------------
(* Pages.                                                                    *)

\* The last event of a row among some events of a feed.
LEMMA LastOfRow ==
    ASSUME NEW s \in Stores, Told(s), NEW page, page \subseteq s.events,
           NEW r \in Rows, NEW e0 \in page, e0.row = r
    PROVE  \E l \in page : /\ l.row = r
                           /\ {e \in page : e.row = r /\ \A f \in page :
                                 f.row = r => f.sequence <= e.sequence} = {l}
<1> DEFINE S == {e.sequence : e \in {f \in page : f.row = r}}
<1>1. \A e \in page : e.sequence \in 1 .. s.head /\ e.sequence \in Nat
  BY DEF Told, Stores, Events
<1>2. S # {} /\ S \subseteq 0 .. s.head /\ s.head \in Nat
  <2>1. e0.sequence \in S
    OBVIOUS
  <2>2. QED BY <1>1, <2>1 DEF Stores
<1>3. PICK x \in S : \A y \in S : y <= x
  <2> HIDE DEF S
  <2>1. QED BY <1>2, Largest
<1>4. PICK l \in page : l.row = r /\ l.sequence = x
  BY <1>3
<1>5. \A f \in page : f.row = r => f.sequence <= l.sequence
  BY <1>3, <1>4
<1>6. ASSUME NEW e \in page, e.row = r, \A f \in page : f.row = r => f.sequence <= e.sequence
      PROVE  e = l
  <2>1. e.sequence = l.sequence
    BY <1>1, <1>4, <1>5, <1>6
  <2>2. QED BY <2>1 DEF Told
<1>7. QED BY <1>4, <1>5, <1>6

LEMMA AppliedType ==
    ASSUME NEW page \in SUBSET Events, NEW copy \in Copies
    PROVE  Applied(page, copy) \in Copies
<1>1. ASSUME NEW r \in Rows PROVE Applied(page, copy)[r] \in Nat
  <2> DEFINE last == {e \in page : e.row = r /\ \A f \in page :
                                      f.row = r => f.sequence <= e.sequence}
  <2>1. CASE last = {}
    BY <2>1 DEF Applied, Copies
  <2>2. CASE last # {}
    <3>1. (CHOOSE e \in last : TRUE) \in Events
      BY <2>2
    <3>2. (CHOOSE e \in last : TRUE).version \in Nat
      BY <3>1 DEF Events
    <3>3. QED BY <2>2, <3>2 DEF Applied
  <2>3. QED BY <2>1, <2>2
<1>2. QED BY <1>1 DEF Applied, Copies

\* What a page does to a row of a copy.
LEMMA AppliedRow ==
    ASSUME NEW s \in Stores, Told(s), NEW page, page \subseteq s.events,
           NEW copy \in Copies, NEW r \in Rows
    PROVE  \/ /\ \A e \in page : e.row # r
              /\ Applied(page, copy)[r] = copy[r]
           \/ \E l \in page : /\ l.row = r
                              /\ \A f \in page : f.row = r => f.sequence <= l.sequence
                              /\ Applied(page, copy)[r] = l.version
<1> DEFINE last == {e \in page : e.row = r /\ \A f \in page :
                                    f.row = r => f.sequence <= e.sequence}
<1>1. CASE \A e \in page : e.row # r
  <2>1. last = {}
    BY <1>1
  <2>2. QED BY <1>1, <2>1 DEF Applied
<1>2. CASE \E e \in page : e.row = r
  <2>1. PICK l \in page : l.row = r /\ last = {l}
    BY <1>2, LastOfRow
  <2>2. Applied(page, copy)[r] = l.version
    BY <2>1 DEF Applied
  <2>3. l \in last
    BY <2>1
  <2>4. QED BY <2>1, <2>2, <2>3
<1>3. QED BY <1>1, <1>2

\* A copy that stands at a cursor stands at the end of the page it applies.
LEMMA PageMoves ==
    ASSUME NEW s \in Stores, Told(s), NEW cursor \in Nat, NEW copy \in Copies,
           Position(s, cursor, copy), NEW m \in Nat, cursor <= m, m <= s.head,
           NEW page, page = {e \in s.events : e.sequence > cursor /\ e.sequence <= m}
    PROVE  Position(s, m, Applied(page, copy))
<1> DEFINE A == Applied(page, copy)
<1>0. page \subseteq s.events /\ A \in Copies
  BY AppliedType DEF Stores
<1>5. ASSUME NEW r \in Rows
      PROVE  \/ (\A e \in page : e.row # r) /\ A[r] = copy[r]
             \/ \E l \in page : /\ l.row = r
                                /\ \A f \in page : f.row = r => f.sequence <= l.sequence
                                /\ A[r] = l.version
  <2>1. page \subseteq s.events
    BY <1>0
  <2> HIDE DEF A
  <2>2. QED BY ONLY <2>1, AppliedRow, s \in Stores, Told(s), copy \in Copies, r \in Rows DEF A
<1> HIDE DEF A
<1>1. ASSUME NEW r \in Rows
      PROVE  /\ A[r] <= s.books[r]
             /\ \A e \in s.events : e.row = r => (e.sequence <= m <=> e.version <= A[r])
  <2>0. \A e \in s.events : e.sequence \in Nat /\ e.version \in Nat /\ e.row \in Rows
    BY DEF Stores, Events
  <2>1. CASE (\A e \in page : e.row # r) /\ A[r] = copy[r]
    <3>1. \A e \in s.events : e.row = r => (e.sequence <= m <=> e.sequence <= cursor)
      BY <2>0, <2>1
    <3>2. QED BY <2>1, <3>1 DEF Position
  <2>2. CASE \E l \in page : /\ l.row = r
                             /\ \A f \in page : f.row = r => f.sequence <= l.sequence
                             /\ A[r] = l.version
    <3>1. PICK l \in page : /\ l.row = r
                            /\ \A f \in page : f.row = r => f.sequence <= l.sequence
                            /\ A[r] = l.version
      BY <2>2
    <3>2. l \in s.events /\ cursor < l.sequence /\ l.sequence <= m
      BY <2>0, <3>1
    <3>3. A[r] <= s.books[r]
      <4>1. l.version \in 1 .. s.books[r]
        BY <3>1, <3>2 DEF Told
      <4>2. QED BY <3>1, <4>1
    <3>4. ASSUME NEW e \in s.events, e.row = r
          PROVE  e.sequence <= m <=> e.version <= A[r]
      <4>1. e.sequence <= m <=> e.sequence <= l.sequence
        <5>1. CASE e.sequence <= cursor
          BY <2>0, <3>2, <5>1
        <5>2. CASE cursor < e.sequence /\ e.sequence <= m
          <6>1. e \in page
            BY <2>0, <5>2
          <6>2. QED BY <3>1, <3>4, <5>2, <6>1
        <5>3. CASE m < e.sequence
          BY <2>0, <3>2, <5>3
        <5>4. QED BY <2>0, <5>1, <5>2, <5>3
      <4>2. e.sequence <= l.sequence <=> e.version <= l.version
        <5>1. /\ e.sequence < l.sequence => e.version < l.version
              /\ l.sequence < e.sequence => l.version < e.version
              /\ e.sequence = l.sequence => e = l
          BY <3>1, <3>2, <3>4 DEF Told
        <5>2. QED BY <2>0, <3>2, <5>1
      <4>3. QED BY <3>1, <4>1, <4>2
    <3>5. QED BY <3>3, <3>4
  <2>3. QED BY <1>5, <2>1, <2>2
<1>2. ASSUME NEW e \in s.events PROVE e.sequence <= m <=> e.version <= A[e.row]
  <2>1. e.row \in Rows
    BY DEF Stores, Events
  <2>2. QED BY <1>1, <2>1
<1>3. QED BY <1>1, <1>2 DEF Position, A

\* The page of a pull, as assertPage finds it: it is whole up to its last sequence.
LEMMA PageIsWhole ==
    ASSUME NEW s \in Stores, Told(s), NEW cursor \in Nat, cursor <= s.head,
           Contiguous(PageOf(cursor, s), cursor, s.head)
    PROVE  \E m \in Nat :
              /\ cursor <= m /\ m <= s.head
              /\ PageOf(cursor, s) = {e \in s.events : e.sequence > cursor /\ e.sequence <= m}
              /\ cursor + Cardinality(PageOf(cursor, s)) = m
<1> DEFINE page == PageOf(cursor, s)
           m == IF s.head - cursor > PageSize THEN cursor + PageSize ELSE s.head
<1>1. PageSize \in Nat /\ s.head \in Nat
  BY DEF Stores
<1>2. m \in Nat /\ cursor <= m /\ m <= s.head
  BY <1>1
<1>3. page \subseteq s.events /\ {e.sequence : e \in page} = cursor + 1 .. m
  BY DEF PageOf, Contiguous
<1>4. page = {e \in s.events : e.sequence > cursor /\ e.sequence <= m}
  <2>1. \A e \in s.events : e.sequence \in 1 .. s.head
    BY DEF Told
  <2>2. QED BY <1>1, <2>1 DEF PageOf
<1> HIDE DEF page, m
<1>5. Cardinality(page) = m - cursor
  BY <1>2, <1>3, Numbered DEF Told
<1>6. cursor + Cardinality(page) = m
  BY <1>2, <1>5
<1>7. QED BY <1>2, <1>4, <1>6 DEF page

-----------------------------------------------------------------------------
(* The writes of a transaction.                                              *)
LEMMA RowsOfFinite ==
    ASSUME NEW ws \in Seq(Writes), NEW r
    PROVE  /\ RowsOf(ws, r) \subseteq 1 .. Len(ws)
           /\ IsFiniteSet(RowsOf(ws, r)) /\ Cardinality(RowsOf(ws, r)) \in Nat
           /\ RowsOf(ws, r) = {} => Cardinality(RowsOf(ws, r)) = 0
<1>1. RowsOf(ws, r) \subseteq 1 .. Len(ws) /\ Len(ws) \in Nat
  BY DEF RowsOf
<1>2. IsFiniteSet(1 .. Len(ws))
  BY <1>1, FS_Interval
<1>3. IsFiniteSet(RowsOf(ws, r))
  BY <1>1, <1>2, FS_Subset
<1>4. QED BY <1>1, <1>3, FS_CardinalityType, FS_EmptySet

LEMMA SeenType ==
    ASSUME NEW ws \in Seq(Writes), NEW books \in Copies, NEW r \in Rows
    PROVE  Seen(ws, books, r) \in Nat /\ books[r] \in Nat /\ books[r] <= Seen(ws, books, r)
BY RowsOfFinite DEF Seen, Copies

\* One more write: the next version of its row.
LEMMA WriteVersioned ==
    ASSUME NEW ws \in Seq(Writes), NEW books \in Copies, Versioned(ws, books),
           NEW r \in Rows, NEW x \in Writes, x.row = r, x.version = Seen(ws, books, r) + 1
    PROVE  Versioned(Append(ws, x), books)
<1> DEFINE us == Append(ws, x)
           k == Len(ws) + 1
<1>1. /\ us \in Seq(Writes) /\ Len(us) = k /\ us[k] = x
      /\ \A i \in 1 .. Len(ws) : us[i] = ws[i]
      /\ DOMAIN us = 1 .. k /\ DOMAIN ws = 1 .. Len(ws) /\ Len(ws) \in Nat
  OBVIOUS
<1> HIDE DEF us
<1>2. RowsOf(us, r) = RowsOf(ws, r) \cup {k} /\ k \notin RowsOf(ws, r)
  <2>1. ASSUME NEW i PROVE i \in RowsOf(us, r) <=> i \in RowsOf(ws, r) \/ i = k
    <3>1. CASE i \in 1 .. Len(ws)
      BY <1>1, <3>1 DEF RowsOf
    <3>2. CASE i = k
      BY <1>1, <3>2 DEF RowsOf
    <3>3. CASE i \notin 1 .. k
      BY <1>1, <3>3 DEF RowsOf
    <3>4. QED BY <1>1, <3>1, <3>2, <3>3
  <2>2. QED BY <1>1, <2>1 DEF RowsOf
<1>3. Seen(us, books, r) = Seen(ws, books, r) + 1
  <2>1. Cardinality(RowsOf(us, r)) = Cardinality(RowsOf(ws, r)) + 1
    <3>1. IsFiniteSet(RowsOf(ws, r))
      BY RowsOfFinite
    <3>2. \A S, z : IsFiniteSet(S) /\ z \notin S => Cardinality(S \cup {z}) = Cardinality(S) + 1
      BY FS_AddElement
    <3>3. QED BY <1>2, <3>1, <3>2
  <2>2. Cardinality(RowsOf(ws, r)) \in Nat
    BY RowsOfFinite
  <2>3. books[r] \in Nat
    BY DEF Copies
  <2>4. QED BY <2>1, <2>2, <2>3 DEF Seen
<1>4. ASSUME NEW q \in Rows, q # r
      PROVE  RowsOf(us, q) = RowsOf(ws, q) /\ Seen(us, books, q) = Seen(ws, books, q)
  <2>1. ASSUME NEW i PROVE i \in RowsOf(us, q) <=> i \in RowsOf(ws, q)
    <3>1. CASE i \in 1 .. Len(ws)
      BY <1>1, <3>1 DEF RowsOf
    <3>2. CASE i = k
      BY <1>1, <1>4, <3>2 DEF RowsOf
    <3>3. CASE i \notin 1 .. k
      BY <1>1, <3>3 DEF RowsOf
    <3>4. QED BY <1>1, <3>1, <3>2, <3>3
  <2>2. RowsOf(us, q) = RowsOf(ws, q)
    BY <2>1
  <2>3. QED BY <2>2 DEF Seen
<1>5. ASSUME NEW q \in Rows, NEW i \in RowsOf(ws, q)
      PROVE  us[i] = ws[i] /\ i \in 1 .. Len(ws) /\ us[i].version \in Nat
  <2>1. i \in 1 .. Len(ws)
    BY RowsOfFinite
  <2>2. ws[i] \in Writes
    BY <2>1
  <2>3. QED BY <1>1, <2>1, <2>2 DEF Writes
<1>6. ASSUME NEW q \in Rows, NEW i \in RowsOf(us, q)
      PROVE  books[q] < us[i].version /\ us[i].version <= Seen(us, books, q)
  <2>1. CASE q = r
    BY <1>1, <1>2, <1>3, <1>5, <1>6, <2>1, SeenType DEF Versioned
  <2>2. CASE q # r
    BY <1>4, <1>5, <1>6, <2>2 DEF Versioned
  <2>3. QED BY <2>1, <2>2
<1>7. ASSUME NEW q \in Rows, NEW n \in books[q] + 1 .. Seen(us, books, q)
      PROVE  \E i \in RowsOf(us, q) : us[i].version = n
  <2>1. CASE q = r /\ n = Seen(us, books, q)
    BY <1>1, <1>2, <1>3, <2>1
  <2>2. CASE q = r /\ n # Seen(us, books, q)
    <3>1. n \in books[r] + 1 .. Seen(ws, books, r)
      BY <1>3, <1>7, <2>2, SeenType
    <3>2. PICK i \in RowsOf(ws, r) : ws[i].version = n
      BY <3>1 DEF Versioned
    <3>3. QED BY <1>2, <1>5, <2>2, <3>2
  <2>3. CASE q # r
    BY <1>4, <1>5, <1>7, <2>3 DEF Versioned
  <2>4. QED BY <2>1, <2>2, <2>3
<1>8. ASSUME NEW q \in Rows, NEW i \in RowsOf(us, q), NEW j \in RowsOf(us, q), i < j
      PROVE  us[i].version < us[j].version
  <2>1. CASE q # r
    BY <1>4, <1>5, <1>8, <2>1 DEF Versioned
  <2>2. CASE q = r /\ j = k
    <3>1. i \in RowsOf(ws, r)
      BY <1>2, <1>8, <2>2
    <3>2. us[i].version <= Seen(ws, books, r) /\ us[i].version \in Nat
      BY <1>5, <3>1 DEF Versioned
    <3>3. QED BY <1>1, <2>2, <3>2, SeenType
  <2>3. CASE q = r /\ j # k
    <3>1. j \in RowsOf(ws, r) /\ j \in 1 .. Len(ws)
      BY <1>2, <1>5, <1>8, <2>3
    <3>2. i # k
      BY <1>1, <1>8, <3>1
    <3>3. i \in RowsOf(ws, r)
      BY <1>2, <1>8, <2>3, <3>2
    <3>4. QED BY <1>5, <1>8, <3>1, <3>3 DEF Versioned
  <2>4. QED BY <2>1, <2>2, <2>3
<1>9. QED BY <1>6, <1>7, <1>8 DEF Versioned, us

\* Nothing changes for a transaction while the rows it wrote do not.
LEMMA VersionedKept ==
    ASSUME NEW ws \in Seq(Writes), NEW books \in Copies, NEW after \in Copies,
           Versioned(ws, books),
           \A r \in Rows : RowsOf(ws, r) = {} \/ after[r] = books[r]
    PROVE  Versioned(ws, after)
<1>1. ASSUME NEW r \in Rows, RowsOf(ws, r) = {}
      PROVE  after[r] + 1 .. Seen(ws, after, r) = {}
  <2>1. Seen(ws, after, r) = after[r] /\ after[r] \in Nat
    <3>1. Cardinality(RowsOf(ws, r)) = 0
      BY <1>1, RowsOfFinite
    <3>2. after[r] \in Nat
      BY DEF Copies
    <3>3. QED BY <3>1, <3>2 DEF Seen
  <2>2. QED BY <2>1
<1>2. ASSUME NEW r \in Rows, after[r] = books[r]
      PROVE  Seen(ws, after, r) = Seen(ws, books, r)
  BY <1>2 DEF Seen
<1>3. ASSUME NEW r \in Rows
      PROVE  /\ \A i \in RowsOf(ws, r) : /\ after[r] < ws[i].version
                                         /\ ws[i].version <= Seen(ws, after, r)
             /\ \A n \in after[r] + 1 .. Seen(ws, after, r) :
                  \E i \in RowsOf(ws, r) : ws[i].version = n
             /\ \A i, j \in RowsOf(ws, r) : i < j => ws[i].version < ws[j].version
  <2>1. CASE RowsOf(ws, r) = {}
    BY <1>1, <2>1
  <2>2. CASE after[r] = books[r]
    BY <1>2, <2>2 DEF Versioned
  <2>3. QED BY <2>1, <2>2
<1>4. QED BY <1>3 DEF Versioned

LEMMA IdleSound ==
    ASSUME NEW books \in Copies, NEW head \in Nat
    PROVE  /\ IdleTransaction \in Transactions
           /\ Versioned(IdleTransaction.writes, books) /\ Capturing(IdleTransaction, head)
<1>1. <<>> \in Seq(Writes) /\ \A r : RowsOf(<<>>, r) = {}
  BY DEF RowsOf
<1>2. IdleTransaction.writes = <<>> /\ IdleTransaction.captured = {}
  BY DEF IdleTransaction
<1>3. IdleTransaction \in Transactions
  BY <1>1 DEF IdleTransaction, Transactions
<1>4. Versioned(<<>>, books)
  <2>1. ASSUME NEW r \in Rows PROVE books[r] + 1 .. Seen(<<>>, books, r) = {}
    <3>1. Cardinality(RowsOf(<<>>, r)) = 0 /\ books[r] \in Nat
      BY <1>1, RowsOfFinite DEF Copies
    <3>2. Seen(<<>>, books, r) = books[r]
      BY <3>1 DEF Seen
    <3>3. QED BY <3>1, <3>2
  <2>2. QED BY <1>1, <2>1 DEF Versioned
<1>5. Capturing(IdleTransaction, head)
  <2>1. 1 .. 0 = {} /\ Len(<<>>) = 0
    OBVIOUS
  <2>2. QED BY <1>2, <2>1, FS_EmptySet DEF Capturing
<1>6. QED BY <1>2, <1>3, <1>4, <1>5

\* The next event captured is numbered on from those before it.
LEMMA CaptureOne ==
    ASSUME NEW t \in Transactions, NEW head \in Nat, Capturing(t, head),
           Cardinality(t.captured) < Len(t.writes),
           NEW e, e = EventOf(t.writes, head, Cardinality(t.captured) + 1),
           NEW u \in Transactions, u.writes = t.writes, u.captured = t.captured \cup {e}
    PROVE  Capturing(u, head)
<1> DEFINE done == Cardinality(t.captured)
<1>1. done \in Nat /\ IsFiniteSet(t.captured) /\ Len(t.writes) \in Nat /\ done < Len(t.writes)
  BY FS_CardinalityType DEF Capturing, Transactions
<1>2. t.captured = {EventOf(t.writes, head, i) : i \in 1 .. done}
  BY DEF Capturing
<1>3. e = EventOf(t.writes, head, done + 1) /\ Cardinality(t.captured) = done
  OBVIOUS
<1> HIDE DEF done
<1>4. \A i \in 1 .. done : EventOf(t.writes, head, i).sequence = head + i
  BY DEF EventOf
<1>5. e.sequence = head + done + 1
  BY <1>1, <1>3 DEF EventOf
<1>6. e \notin t.captured
  BY <1>1, <1>2, <1>4, <1>5
<1>7. IsFiniteSet(u.captured) /\ Cardinality(u.captured) = done + 1
  BY <1>1, <1>3, <1>6, FS_AddElement
<1>8. u.captured = {EventOf(t.writes, head, i) : i \in 1 .. done + 1}
  <2>1. 1 .. done + 1 = (1 .. done) \cup {done + 1}
    BY <1>1
  <2>2. QED BY <1>2, <1>3, <2>1
<1>9. done + 1 <= Len(u.writes)
  BY <1>1
<1>10. u.captured = {EventOf(u.writes, head, i) : i \in 1 .. done + 1}
  BY <1>8
<1>11. QED BY <1>7, <1>9, <1>10 DEF Capturing

\* A commit appends the events of its writes, and the feed tells the new books.
LEMMA CommitAppends ==
    ASSUME NEW s \in Stores, Told(s), NEW t \in Transactions, Versioned(t.writes, s.books),
           Capturing(t, s.head), Cardinality(t.captured) = Len(t.writes),
           NEW u \in Stores, u.generation = s.generation,
           u.books = [r \in Rows |-> Seen(t.writes, s.books, r)],
           u.events = s.events \cup t.captured, u.head = s.head + Cardinality(t.captured)
    PROVE  Told(u) /\ Grows(s, u)
<1> DEFINE ws == t.writes
           n == Len(ws)
           E(i) == EventOf(ws, s.head, i)
<1>1. /\ ws \in Seq(Writes) /\ n \in Nat /\ s.head \in Nat /\ s.books \in Copies
      /\ DOMAIN ws = 1 .. n
  BY DEF Transactions, Stores
<1>2. /\ t.captured = {E(i) : i \in 1 .. n} /\ u.head = s.head + n
      /\ u.events = s.events \cup {E(i) : i \in 1 .. n}
  BY DEF Capturing
<1>3. ASSUME NEW i \in 1 .. n
      PROVE  /\ E(i) \in u.events /\ E(i).sequence = s.head + i /\ E(i).row = ws[i].row
             /\ E(i).version = ws[i].version
             /\ ws[i].row \in Rows /\ ws[i].version \in Nat /\ i \in RowsOf(ws, ws[i].row)
  <2>1. ws[i] \in Writes
    BY <1>1
  <2>2. QED BY <1>1, <1>2, <2>1 DEF EventOf, Writes, RowsOf
<1>4. ASSUME NEW e \in s.events
      PROVE  /\ e.sequence \in 1 .. s.head /\ e.row \in Rows /\ e.version \in 1 .. s.books[e.row]
  <2>1. e \in Events
    BY DEF Stores
  <2>2. e.row \in Rows
    BY <2>1 DEF Events
  <2>3. QED BY <2>2 DEF Told
<1>5. \A r \in Rows : /\ u.books[r] = Seen(ws, s.books, r) /\ s.books[r] \in Nat
                      /\ u.books[r] \in Nat /\ s.books[r] <= u.books[r]
  BY <1>1, SeenType
<1>6. \A e \in u.events : e \in s.events \/ \E i \in 1 .. n : e = E(i)
  BY <1>2
<1> HIDE DEF n, E
<1>7. {e.sequence : e \in u.events} = 1 .. u.head
  <2>1. ASSUME NEW e \in u.events PROVE e.sequence \in 1 .. u.head
    <3>1. CASE e \in s.events
      BY <1>1, <1>2, <1>4, <3>1
    <3>2. CASE \E i \in 1 .. n : e = E(i)
      BY <1>1, <1>2, <1>3, <3>2
    <3>3. QED BY <1>6, <3>1, <3>2
  <2>2. ASSUME NEW q \in 1 .. u.head PROVE \E e \in u.events : e.sequence = q
    <3>1. CASE q \in 1 .. s.head
      <4>1. PICK e \in s.events : e.sequence = q
        BY <3>1 DEF Told
      <4>2. QED BY <1>2, <4>1
    <3>2. CASE q \notin 1 .. s.head
      <4>1. q - s.head \in 1 .. n /\ s.head + (q - s.head) = q
        BY <1>1, <1>2, <3>2
      <4>2. QED BY <1>3, <4>1
    <3>3. QED BY <3>1, <3>2
  <2>3. QED BY <2>1, <2>2
<1>8. ASSUME NEW i \in 1 .. n
      PROVE  s.books[ws[i].row] < ws[i].version /\ ws[i].version <= u.books[ws[i].row]
  BY <1>3, <1>5 DEF Versioned
<1>9. ASSUME NEW r \in Rows
      PROVE  {e.version : e \in {f \in u.events : f.row = r}} = 1 .. u.books[r]
  <2>1. ASSUME NEW e \in u.events, e.row = r PROVE e.version \in 1 .. u.books[r]
    <3>1. CASE e \in s.events
      BY <1>4, <1>5, <2>1, <3>1
    <3>2. CASE \E i \in 1 .. n : e = E(i)
      <4>1. PICK i \in 1 .. n : e = E(i)
        BY <3>2
      <4>2. /\ e.version = ws[i].version /\ ws[i].version \in Nat /\ s.books[r] \in Nat
            /\ s.books[r] < ws[i].version /\ ws[i].version <= u.books[r]
        BY <1>3, <1>5, <1>8, <2>1, <4>1
      <4>3. QED BY <1>5, <4>2
    <3>3. QED BY <1>6, <3>1, <3>2
  <2>2. ASSUME NEW q \in 1 .. u.books[r] PROVE \E e \in u.events : e.row = r /\ e.version = q
    <3>1. CASE q <= s.books[r]
      <4>1. q \in 1 .. s.books[r]
        BY <1>5, <3>1
      <4>2. PICK e \in {f \in s.events : f.row = r} : e.version = q
        BY <4>1 DEF Told
      <4>3. QED BY <1>2, <4>2
    <3>2. CASE ~ (q <= s.books[r])
      <4>1. q \in s.books[r] + 1 .. Seen(ws, s.books, r)
        BY <1>5, <3>2
      <4>2. PICK i \in RowsOf(ws, r) : ws[i].version = q
        BY <4>1 DEF Versioned
      <4>3. i \in 1 .. n /\ ws[i].row = r
        BY <1>1, <4>2 DEF RowsOf
      <4>4. QED BY <1>3, <4>2, <4>3
    <3>3. QED BY <3>1, <3>2
  <2>3. QED BY <2>1, <2>2
<1>10. ASSUME NEW e \in u.events, NEW f \in u.events
       PROVE  /\ e.sequence = f.sequence => e = f
              /\ e.row = f.row /\ e.sequence < f.sequence => e.version < f.version
  <2>1. CASE e \in s.events /\ f \in s.events
    BY <2>1 DEF Told
  <2>2. CASE e \in s.events /\ \E j \in 1 .. n : f = E(j)
    <3>1. PICK j \in 1 .. n : f = E(j)
      BY <2>2
    <3>2. e.sequence < f.sequence
      BY <1>1, <1>3, <1>4, <2>2, <3>1
    <3>3. ASSUME e.row = f.row PROVE e.version < f.version
      <4>1. e.version \in 1 .. s.books[e.row] /\ e.row \in Rows
        BY <1>4, <2>2
      <4>2. f.version = ws[j].version /\ f.row = ws[j].row /\ ws[j].version \in Nat
        BY <1>3, <3>1
      <4>3. s.books[e.row] < f.version /\ s.books[e.row] \in Nat
        BY <1>5, <1>8, <3>3, <4>1, <4>2
      <4>4. QED BY <4>1, <4>2, <4>3
    <3>4. e.sequence \in Nat /\ f.sequence \in Nat
      BY <1>1, <1>3, <1>4, <2>2, <3>1
    <3>5. QED BY <3>2, <3>3, <3>4
  <2>3. CASE (\E i \in 1 .. n : e = E(i)) /\ f \in s.events
    <3>1. PICK i \in 1 .. n : e = E(i)
      BY <2>3
    <3>2. f.sequence < e.sequence /\ e.sequence \in Nat /\ f.sequence \in Nat
      BY <1>1, <1>3, <1>4, <2>3, <3>1
    <3>3. QED BY <3>2
  <2>4. CASE (\E i \in 1 .. n : e = E(i)) /\ (\E j \in 1 .. n : f = E(j))
    <3>1. PICK i \in 1 .. n, j \in 1 .. n : e = E(i) /\ f = E(j)
      BY <2>4
    <3>2. e.sequence = s.head + i /\ f.sequence = s.head + j
      BY <1>3, <3>1
    <3>3. e.sequence = f.sequence => e = f
      BY <1>1, <3>1, <3>2
    <3>4. ASSUME e.row = f.row, e.sequence < f.sequence PROVE e.version < f.version
      <4>1. i < j
        BY <1>1, <3>2, <3>4
      <4>2. i \in RowsOf(ws, e.row) /\ j \in RowsOf(ws, e.row) /\ e.row \in Rows
        BY <1>3, <3>1, <3>4
      <4>3. ws[i].version < ws[j].version
        BY <4>1, <4>2 DEF Versioned
      <4>4. QED BY <1>3, <3>1, <4>3
    <3>5. QED BY <3>3, <3>4
  <2>5. QED BY <1>6, <2>1, <2>2, <2>3, <2>4
<1>11. Told(u)
  BY <1>7, <1>9, <1>10 DEF Told
<1>12. ASSUME NEW e \in u.events \ s.events
       PROVE  s.head < e.sequence /\ s.books[e.row] < e.version
  <2>1. PICK i \in 1 .. n : e = E(i)
    BY <1>6, <1>12
  <2>2. QED BY <1>1, <1>3, <1>8, <2>1
<1>13. QED BY <1>1, <1>2, <1>5, <1>11, <1>12 DEF Grows

-----------------------------------------------------------------------------
(* How the parts of the invariant move.                                      *)
Requests == Snapshots \cup Pages \cup Datasets \cup {NoRequest}

\* What a device has stays sound when the Store grows or is restored.
LEMMA DeviceKept ==
    ASSUME NEW t \in Stores, NEW u \in Stores, NEW before, NEW after, before \subseteq after,
           Grows(t, u) \/ t.generation < u.generation,
           NEW p \in Replicas, NEW q \in Requests,
           ReplicaSound(p, t, before), RequestSound(q, p, t, before)
    PROVE  ReplicaSound(p, u, after) /\ RequestSound(q, p, u, after)
<1>1. /\ t.generation \in Nat /\ u.generation \in Nat /\ t.generation <= u.generation
      /\ u.generation = t.generation => Grows(t, u)
  BY DEF Grows, Stores
<1>2. ASSUME NEW generation \in Nat, generation <= t.generation, generation = u.generation
      PROVE  generation = t.generation /\ Grows(t, u)
  BY <1>1, <1>2
<1>3. p.generation \in Nat /\ p.cursor \in Nat /\ p.copy \in Copies
  BY DEF Replicas
<1>4. ReplicaSound(p, u, after)
  <2>1. p.generation <= u.generation
    BY <1>1, <1>3 DEF ReplicaSound
  <2>2. p.complete => Cut(after, p.generation, p.cursor, p.copy)
    BY DEF ReplicaSound, Cut
  <2>3. p.mode = "pull" /\ p.generation = u.generation => Position(u, p.cursor, p.copy)
    BY <1>2, <1>3, PositionKept DEF ReplicaSound
  <2>4. QED BY <2>1, <2>2, <2>3 DEF ReplicaSound
<1>5. CASE q = NoRequest
  BY <1>4, <1>5 DEF RequestSound
<1>6. CASE q # NoRequest /\ q \in Snapshots
  <2>1. PICK s \in Stores : s = q.store
    BY <1>6 DEF Snapshots
  <2>2. q.at = "snapshot" /\ SnapshotSound(s, p, t, before) /\ s.generation \in Nat
    BY <1>6, <2>1 DEF Snapshots, RequestSound, Stores
  <2>3. s.generation <= u.generation
    BY <1>1, <2>2 DEF SnapshotSound
  <2>4. s.generation = u.generation => Prefix(s, u)
    BY <1>2, <2>2, PrefixKept DEF SnapshotSound
  <2>5. SnapshotSound(s, p, u, after)
    BY <2>2, <2>3, <2>4 DEF SnapshotSound, Cut
  <2>6. QED BY <1>4, <2>1, <2>2, <2>5 DEF RequestSound
<1>7. CASE q # NoRequest /\ q \in Pages
  <2>1. q.at = "page" /\ PageSound(q, p, t, before)
    BY <1>7 DEF Pages, RequestSound
  <2>2. q.changes \in SUBSET Events /\ q.next \in Nat /\ q.generation \in Nat
    BY <1>7 DEF Pages
  <2>3. q.generation <= t.generation
    BY <2>1 DEF PageSound, ReplicaSound
  <2>4. PICK copy \in Copies : copy = Applied(q.changes, p.copy)
    BY <1>3, <2>2, AppliedType
  <2>5. q.generation = u.generation => Position(u, q.next, copy)
    BY <1>2, <2>1, <2>2, <2>3, <2>4, PositionKept DEF PageSound
  <2>6. PageSound(q, p, u, after)
    BY <2>1, <2>4, <2>5 DEF PageSound, Cut
  <2>7. QED BY <1>4, <2>1, <2>6 DEF RequestSound
<1>8. CASE q # NoRequest /\ q \in Datasets
  <2>1. q.at = "dataset" /\ DatasetSound(q, t, before)
    BY <1>8 DEF Datasets, RequestSound
  <2>2. q.rows \in Copies /\ q.base \in Nat /\ q.generation \in Nat
    BY <1>8 DEF Datasets
  <2>3. q.generation <= u.generation
    BY <1>1, <2>1, <2>2 DEF DatasetSound
  <2>4. q.generation = u.generation => Position(u, q.base, q.rows)
    BY <1>2, <2>1, <2>2, PositionKept DEF DatasetSound
  <2>5. DatasetSound(q, u, after)
    BY <2>1, <2>3, <2>4 DEF DatasetSound, Cut
  <2>6. QED BY <1>4, <2>1, <2>5 DEF RequestSound
<1>9. QED BY <1>5, <1>6, <1>7, <1>8 DEF Requests

LEMMA DevicesKept ==
    ASSUME FeedIInv, store' \in Stores, cuts \subseteq cuts', UNCHANGED <<request, replica>>,
           Grows(store, store') \/ store.generation < store'.generation
    PROVE  DeviceIInv'
<1> SUFFICES ASSUME NEW d \in Devices
             PROVE  /\ ReplicaSound(replica'[d], store', cuts')
                    /\ RequestSound(request'[d], replica'[d], store', cuts')
  BY DEF DeviceIInv
<1>1. PICK p \in Replicas : p = replica[d]
  BY DEF FeedIInv, Typed
<1>2. PICK q \in Requests : q = request[d]
  BY DEF FeedIInv, Typed, Requests
<1>3. store \in Stores /\ ReplicaSound(p, store, cuts) /\ RequestSound(q, p, store, cuts)
  BY <1>1, <1>2 DEF FeedIInv, Typed, DeviceIInv
<1>4. ReplicaSound(p, store', cuts') /\ RequestSound(q, p, store', cuts')
  BY <1>3, DeviceKept
<1>5. QED BY <1>1, <1>2, <1>4

\* A step of one transaction that leaves the Store alone.
LEMMA OneWriter ==
    ASSUME FeedIInv, NEW w \in Writers, NEW u \in Transactions, txn' = [txn EXCEPT ![w] = u],
           UNCHANGED <<store, backup, request, replica, cuts>>,
           WriterSound(u, store), \A v \in Writers \ {w} : Apart(u, txn[v])
    PROVE  FeedIInv'
<1>1. Typed'
  BY DEF FeedIInv, Typed
<1>2. StoreIInv'
  BY DEF FeedIInv, StoreIInv
<1>3. DeviceIInv'
  BY NothingGrows, DevicesKept DEF FeedIInv, Typed
<1>4. \A v \in Writers : txn'[v] = IF v = w THEN u ELSE txn[v]
  BY DEF FeedIInv, Typed
<1>5. \A v \in Writers : WriterSound(txn'[v], store')
  BY <1>4 DEF FeedIInv, WriterIInv
<1>6. ASSUME NEW v \in Writers, NEW x \in Writers, v # x PROVE Apart(txn'[v], txn'[x])
  BY <1>4, <1>6 DEF FeedIInv, WriterIInv, Apart
<1>7. WriterIInv'
  BY <1>5, <1>6 DEF WriterIInv
<1>8. QED BY <1>1, <1>2, <1>3, <1>7 DEF FeedIInv

\* A step of one device.
LEMMA OneDevice ==
    ASSUME FeedIInv, NEW d \in Devices, NEW p \in Replicas, NEW q \in Requests,
           request' = [request EXCEPT ![d] = q], replica' = [replica EXCEPT ![d] = p],
           UNCHANGED <<store, txn, backup, cuts>>,
           ReplicaSound(p, store, cuts), RequestSound(q, p, store, cuts)
    PROVE  FeedIInv'
<1>1. Typed'
  BY DEF FeedIInv, Typed, Requests
<1>2. StoreIInv' /\ WriterIInv'
  BY DEF FeedIInv, StoreIInv, WriterIInv
<1>3. \A c \in Devices : /\ request'[c] = IF c = d THEN q ELSE request[c]
                         /\ replica'[c] = IF c = d THEN p ELSE replica[c]
  BY DEF FeedIInv, Typed
<1>4. \A c \in Devices : /\ ReplicaSound(replica'[c], store', cuts')
                         /\ RequestSound(request'[c], replica'[c], store', cuts')
  BY <1>3 DEF FeedIInv, DeviceIInv
<1>5. DeviceIInv'
  BY <1>4 DEF DeviceIInv
<1>6. QED BY <1>1, <1>2, <1>5 DEF FeedIInv

-----------------------------------------------------------------------------
(* The invariant holds at first, and every action keeps it.                  *)
LEMMA InitHolds == FeedInit => FeedIInv
<1> SUFFICES ASSUME FeedInit PROVE FeedIInv
  OBVIOUS
<1>1. Nothing \in Copies /\ \A r \in Rows : Nothing[r] = 0
  BY DEF Nothing, Copies
<1>2. /\ store \in Stores /\ backup = store /\ store.books = Nothing /\ store.events = {}
      /\ store.head = 0 /\ store.generation = 0
  BY <1>1 DEF FeedInit, Stores
<1>3. Typed
  <2>1. IdleTransaction \in Transactions
    BY <1>1, IdleSound
  <2>2. [copy |-> Nothing, cursor |-> 0, generation |-> 0, mode |-> "bootstrap",
         complete |-> FALSE] \in Replicas
    BY <1>1 DEF Replicas
  <2>3. QED BY <1>2, <2>1, <2>2 DEF FeedInit, Typed
<1>4. StoreIInv
  <2>1. 1 .. 0 = {}
    OBVIOUS
  <2>2. Told(store)
    BY <1>1, <1>2, <2>1 DEF Told
  <2>3. Cut(cuts, 0, 0, Nothing)
    BY DEF FeedInit, Cut
  <2>4. QED BY <1>2, <2>2, <2>3 DEF StoreIInv
<1>5. WriterIInv
  <2>1. \A w \in Writers : txn[w] = IdleTransaction
    BY DEF FeedInit
  <2>2. WriterSound(IdleTransaction, store)
    BY <1>1, <1>2, IdleSound DEF WriterSound, IdleTransaction
  <2>3. Apart(IdleTransaction, IdleTransaction)
    BY DEF Apart, IdleTransaction, RowsOf
  <2>4. QED BY <2>1, <2>2, <2>3 DEF WriterIInv
<1>6. DeviceIInv
  BY <1>2 DEF FeedInit, DeviceIInv, ReplicaSound, RequestSound
<1>7. QED BY <1>3, <1>4, <1>5, <1>6 DEF FeedIInv

LEMMA WriterType ==
    ASSUME FeedIInv, NEW w \in Writers
    PROVE  /\ txn[w] \in Transactions /\ txn[w].writes \in Seq(Writes)
           /\ store \in Stores /\ store.books \in Copies /\ store.head \in Nat
           /\ WriterSound(txn[w], store)
           /\ \A r \in Rows : Written(w, r) = RowsOf(txn[w].writes, r)
           /\ \A r \in Rows : VersionSeen(w, r) = Seen(txn[w].writes, store.books, r)
           /\ \A v \in Writers \ {w} : Apart(txn[w], txn[v])
BY DEF FeedIInv, Typed, WriterIInv, Transactions, Stores, Written, RowsOf, VersionSeen, Seen

LEMMA BeginWriterStep ==
    ASSUME FeedIInv, NEW w \in Writers, BeginWriter(w)
    PROVE  FeedIInv'
<1>1. PICK u : u = [txn[w] EXCEPT !.pc = "open"]
  OBVIOUS
<1>2. u \in Transactions /\ u.pc = "open" /\ u.writes = txn[w].writes /\ u.captured = txn[w].captured
  BY <1>1, WriterType DEF Transactions
<1>3. txn' = [txn EXCEPT ![w] = u]
  BY <1>1 DEF BeginWriter, FeedIInv, Typed
<1>4. WriterSound(u, store)
  BY <1>2, WriterType DEF WriterSound, Capturing, BeginWriter
<1>5. \A v \in Writers \ {w} : Apart(u, txn[v])
  BY <1>2, WriterType DEF Apart
<1>6. QED BY <1>2, <1>3, <1>4, <1>5, OneWriter DEF BeginWriter

LEMMA StartCommitStep ==
    ASSUME FeedIInv, NEW w \in Writers, StartCommit(w)
    PROVE  FeedIInv'
<1>1. PICK u : u = [txn[w] EXCEPT !.pc = "committing"]
  OBVIOUS
<1>2. u \in Transactions /\ u.pc = "committing" /\ u.writes = txn[w].writes /\ u.captured = txn[w].captured
  BY <1>1, WriterType DEF Transactions
<1>3. txn' = [txn EXCEPT ![w] = u]
  BY <1>1 DEF StartCommit, FeedIInv, Typed
<1>4. WriterSound(u, store)
  BY <1>2, WriterType DEF WriterSound, Capturing, StartCommit
<1>5. \A v \in Writers \ {w} : Apart(u, txn[v])
  BY <1>2, WriterType DEF Apart
<1>6. QED BY <1>2, <1>3, <1>4, <1>5, OneWriter DEF StartCommit

LEMMA WriteRowStep ==
    ASSUME FeedIInv, NEW w \in Writers, NEW r \in Rows, WriteRow(w, r)
    PROVE  FeedIInv'
<1>1. PICK x : x = [row |-> r, version |-> VersionSeen(w, r) + 1]
  OBVIOUS
<1>2. PICK u : u = [txn[w] EXCEPT !.writes = Append(@, x)]
  OBVIOUS
<1>3. /\ x \in Writes /\ x.row = r
      /\ x.version = Seen(txn[w].writes, store.books, r) + 1
  <2>1. VersionSeen(w, r) = Seen(txn[w].writes, store.books, r)
    BY WriterType
  <2>2. VersionSeen(w, r) \in Nat
    BY <2>1, WriterType, SeenType
  <2>3. QED BY <1>1, <2>1, <2>2 DEF Writes
<1>4. /\ u \in Transactions /\ u.pc = "open" /\ u.captured = txn[w].captured
      /\ u.writes = Append(txn[w].writes, x) /\ u.writes \in Seq(Writes)
  <2>1. Append(txn[w].writes, x) \in Seq(Writes)
    BY <1>3, WriterType
  <2>2. QED BY <1>2, <2>1, WriterType DEF WriteRow, Transactions
<1>5. txn' = [txn EXCEPT ![w] = u]
  BY <1>1, <1>2 DEF WriteRow, FeedIInv, Typed
<1>6. Len(u.writes) = Len(txn[w].writes) + 1 /\ Len(txn[w].writes) \in Nat
      /\ \A i \in 1 .. Len(txn[w].writes) : u.writes[i] = txn[w].writes[i]
  BY <1>3, <1>4, WriterType
<1>7. Versioned(u.writes, store.books)
  BY <1>3, <1>4, WriterType, WriteVersioned DEF WriterSound
<1>8. Capturing(u, store.head)
  <2> DEFINE done == Cardinality(txn[w].captured)
  <2>1. IsFiniteSet(txn[w].captured) /\ done <= Len(txn[w].writes) /\ done \in Nat
    BY WriterType, FS_CardinalityType DEF WriterSound, Capturing
  <2>2. \A i \in 1 .. done : EventOf(u.writes, store.head, i) = EventOf(txn[w].writes, store.head, i)
    BY <1>6, <2>1 DEF EventOf
  <2>3. txn[w].captured = {EventOf(txn[w].writes, store.head, i) : i \in 1 .. done}
    BY WriterType DEF WriterSound, Capturing
  <2>4. u.captured = {EventOf(u.writes, store.head, i) : i \in 1 .. done}
    BY <1>4, <2>2, <2>3
  <2>5. done <= Len(u.writes)
    BY <1>6, <2>1
  <2>6. QED BY <1>4, <2>1, <2>4, <2>5 DEF Capturing
<1>9. WriterSound(u, store)
  <2>1. store.state = "ACTIVE"
    BY WriterType DEF WriteRow, WriterSound
  <2>2. QED BY <1>4, <1>7, <1>8, <2>1 DEF WriterSound
<1>10. ASSUME NEW v \in Writers \ {w} PROVE Apart(u, txn[v])
  <2>1. RowsOf(txn[v].writes, r) = {}
    BY <1>10 DEF WriteRow, RowFree, Locked, RowsOf
  <2>2. ASSUME NEW q \in Rows, q # r PROVE RowsOf(u.writes, q) \subseteq RowsOf(txn[w].writes, q)
    <3>1. ASSUME NEW i \in RowsOf(u.writes, q) PROVE i \in RowsOf(txn[w].writes, q)
      <4>1. i \in 1 .. Len(txn[w].writes) + 1 /\ u.writes[i].row = q
        BY <1>4, <1>6, <3>1 DEF RowsOf
      <4>2. u.writes[Len(txn[w].writes) + 1] = x
        BY <1>3, <1>4, WriterType
      <4>3. i \in 1 .. Len(txn[w].writes)
        BY <1>3, <1>6, <2>2, <4>1, <4>2
      <4>4. i \in DOMAIN txn[w].writes
        BY <4>3, WriterType
      <4>5. QED BY <1>6, <4>1, <4>3, <4>4 DEF RowsOf
    <3>2. QED BY <3>1
  <2>3. Apart(txn[w], txn[v])
    BY <1>10, WriterType
  <2>4. QED BY <1>4, <2>1, <2>2, <2>3 DEF Apart
<1>11. QED BY <1>4, <1>5, <1>9, <1>10, OneWriter DEF WriteRow

LEMMA CaptureStep ==
    ASSUME FeedIInv, NEW w \in Writers, Capture(w)
    PROVE  FeedIInv'
<1> DEFINE done == Cardinality(txn[w].captured)
<1>1. PICK e : e = EventOf(txn[w].writes, store.head, done + 1)
  OBVIOUS
<1>2. PICK u : u = [txn[w] EXCEPT !.captured = @ \cup {e}]
  OBVIOUS
<1>3. /\ IsFiniteSet(txn[w].captured) /\ done \in Nat /\ Len(txn[w].writes) \in Nat
      /\ done < Len(txn[w].writes)
  BY WriterType, FS_CardinalityType DEF WriterSound, Capturing, Capture
<1>4. e \in Events
  <2>1. txn[w].writes[done + 1] \in Writes
    BY <1>3, WriterType
  <2>2. QED BY <1>1, <1>3, <2>1, WriterType DEF EventOf, Writes, Events
<1>5. e = [sequence |-> NextSequence(w), row |-> txn[w].writes[done + 1].row,
           version |-> txn[w].writes[done + 1].version]
  <2>1. store.head + (done + 1) = NextSequence(w)
    BY <1>3, WriterType DEF NextSequence
  <2>2. QED BY <1>1, <2>1 DEF EventOf
<1>6. /\ u \in Transactions /\ u.pc = "committing" /\ u.writes = txn[w].writes
      /\ u.captured = txn[w].captured \cup {e}
  BY <1>2, <1>4, WriterType DEF Transactions, Capture
<1>7. txn' = [txn EXCEPT ![w] = u]
  BY <1>2, <1>5 DEF Capture, FeedIInv, Typed
<1>8. WriterSound(u, store)
  <2>1. Capturing(u, store.head)
    BY <1>1, <1>3, <1>6, WriterType, CaptureOne DEF WriterSound
  <2>2. store.state = "ACTIVE" /\ Versioned(u.writes, store.books)
    BY <1>6, WriterType DEF WriterSound, Capture
  <2>3. QED BY <1>6, <2>1, <2>2 DEF WriterSound
<1>9. ASSUME NEW v \in Writers \ {w} PROVE Apart(u, txn[v])
  <2>1. txn[v].captured = {}
    BY <1>9 DEF Capture, WatermarkFree, HoldsWatermark
  <2>2. Apart(txn[w], txn[v])
    BY <1>9, WriterType
  <2>3. QED BY <1>6, <2>1, <2>2 DEF Apart
<1>10. QED BY <1>6, <1>7, <1>8, <1>9, OneWriter DEF Capture

LEMMA AbortStep ==
    ASSUME FeedIInv, NEW w \in Writers, Abort(w)
    PROVE  FeedIInv'
<1>1. IdleTransaction \in Transactions /\ WriterSound(IdleTransaction, store)
  BY WriterType, IdleSound DEF WriterSound, IdleTransaction
<1>2. \A v \in Writers \ {w} : Apart(IdleTransaction, txn[v])
  BY DEF Apart, IdleTransaction, RowsOf
<1>3. QED BY <1>1, <1>2, OneWriter DEF Abort

LEMMA CommitStep ==
    ASSUME FeedIInv, NEW w \in Writers, Commit(w)
    PROVE  FeedIInv'
<1> DEFINE added == Cardinality(txn[w].captured)
<1>1. PICK s : s = store'
  OBVIOUS
<1>2. PICK t \in Transactions : t = txn[w]
  BY WriterType
<1>3. /\ WriterSound(t, store) /\ store \in Stores /\ store.books \in Copies /\ store.head \in Nat
      /\ t.writes \in Seq(Writes) /\ Cardinality(t.captured) = Len(t.writes)
  BY <1>2, WriterType DEF Commit, Captured
<1>4. BooksAfter(w) = [r \in Rows |-> Seen(t.writes, store.books, r)]
  BY <1>2, WriterType DEF BooksAfter
<1>5. BooksAfter(w) \in Copies
  BY <1>3, <1>4, SeenType DEF Copies
<1>6. /\ s.books = BooksAfter(w) /\ s.events = store.events \cup t.captured
      /\ s.head = store.head + Cardinality(t.captured) /\ s.state = store.state
      /\ s.generation = store.generation
      /\ s = [books |-> BooksAfter(w), events |-> store.events \cup t.captured,
              head |-> store.head + Cardinality(t.captured), state |-> store.state,
              generation |-> store.generation]
  BY <1>1, <1>2, <1>3 DEF Commit, Stores
<1>7. s \in Stores
  <2>1. Cardinality(t.captured) \in Nat
    BY <1>3
  <2>2. t.captured \in SUBSET Events
    BY DEF Transactions
  <2>3. QED BY <1>3, <1>5, <1>6, <2>1, <2>2 DEF Stores
<1>8. Told(s) /\ Grows(store, s)
  <2>1. Told(store)
    BY DEF FeedIInv, StoreIInv
  <2>2. Versioned(t.writes, store.books) /\ Capturing(t, store.head)
    BY <1>3 DEF WriterSound
  <2>3. QED BY <1>3, <1>4, <1>6, <1>7, <2>1, <2>2, CommitAppends
<1>9. cuts \subseteq cuts' /\ Cut(cuts', s.generation, s.head, s.books)
  BY <1>1, <1>6 DEF Commit, Cut
<1>10. Typed'
  <2>1. IdleTransaction \in Transactions
    BY <1>3, IdleSound
  <2>2. QED BY <1>1, <1>7, <2>1 DEF FeedIInv, Typed, Commit
<1>11. StoreIInv'
  BY <1>1, <1>6, <1>8, <1>9 DEF FeedIInv, StoreIInv, Commit
<1>12. DeviceIInv'
  BY <1>1, <1>7, <1>8, <1>9, DevicesKept DEF Commit
<1>13. \A v \in Writers : txn'[v] = IF v = w THEN IdleTransaction ELSE txn[v]
  BY DEF FeedIInv, Typed, Commit
<1>14. WriterSound(IdleTransaction, s)
  BY <1>5, <1>6, <1>7, IdleSound DEF WriterSound, IdleTransaction, Stores
<1>15. ASSUME NEW v \in Writers \ {w} PROVE WriterSound(txn[v], s)
  <2>1. PICK u \in Transactions : u = txn[v]
    BY WriterType
  <2>2. Apart(t, u) /\ WriterSound(u, store) /\ u.writes \in Seq(Writes)
    BY <1>2, <1>15, <2>1, WriterType
  <2>3. Versioned(u.writes, s.books)
    <3>1. ASSUME NEW r \in Rows, RowsOf(t.writes, r) = {} PROVE s.books[r] = store.books[r]
      <4>1. Cardinality(RowsOf(t.writes, r)) = 0 /\ store.books[r] \in Nat
        BY <1>3, <3>1, RowsOfFinite DEF Copies
      <4>2. s.books[r] = Seen(t.writes, store.books, r)
        BY <1>4, <1>6
      <4>3. QED BY <4>1, <4>2 DEF Seen
    <3>2. \A r \in Rows : RowsOf(u.writes, r) = {} \/ s.books[r] = store.books[r]
      BY <2>2, <3>1 DEF Apart
    <3>3. Versioned(u.writes, store.books)
      BY <2>2 DEF WriterSound
    <3>4. QED BY <1>3, <1>5, <1>6, <2>2, <3>2, <3>3, VersionedKept
  <2>4. Capturing(u, s.head)
    <3>1. CASE u.captured = {}
      <4>1. Cardinality({}) = 0 /\ IsFiniteSet({}) /\ 1 .. 0 = {} /\ 0 <= Len(u.writes)
        BY <2>2, FS_EmptySet
      <4>2. QED BY <3>1, <4>1 DEF Capturing
    <3>2. CASE t.captured = {}
      <4>1. Cardinality(t.captured) = 0
        BY <3>2, FS_EmptySet
      <4>2. s.head = store.head
        BY <1>3, <1>6, <4>1
      <4>3. QED BY <2>2, <4>2 DEF WriterSound
    <3>3. QED BY <2>2, <3>1, <3>2 DEF Apart
  <2>5. QED BY <1>6, <2>1, <2>2, <2>3, <2>4 DEF WriterSound
<1>16. \A v \in Writers : WriterSound(txn'[v], store')
  BY <1>1, <1>13, <1>14, <1>15
<1>17. ASSUME NEW v \in Writers, NEW x \in Writers, v # x PROVE Apart(txn'[v], txn'[x])
  <2>1. \A y : Apart(IdleTransaction, y) /\ Apart(y, IdleTransaction)
    BY DEF Apart, IdleTransaction, RowsOf
  <2>2. QED BY <1>13, <1>17, <2>1 DEF FeedIInv, WriterIInv
<1>18. WriterIInv'
  BY <1>16, <1>17 DEF WriterIInv
<1>19. QED BY <1>10, <1>11, <1>12, <1>18 DEF FeedIInv

LEMMA TakeBackupStep == FeedIInv /\ TakeBackup => FeedIInv'
<1> SUFFICES ASSUME FeedIInv, TakeBackup PROVE FeedIInv'
  OBVIOUS
<1>1. Typed'
  BY DEF FeedIInv, Typed, TakeBackup
<1>2. StoreIInv'
  BY DEF FeedIInv, Typed, StoreIInv, TakeBackup, Stores
<1>3. WriterIInv' /\ DeviceIInv'
  BY DEF FeedIInv, WriterIInv, DeviceIInv, TakeBackup
<1>4. QED BY <1>1, <1>2, <1>3 DEF FeedIInv

LEMMA FenceStoreStep == FeedIInv /\ FenceStore => FeedIInv'
<1> SUFFICES ASSUME FeedIInv, FenceStore PROVE FeedIInv'
  OBVIOUS
<1>1. PICK s : s = store'
  OBVIOUS
<1>2. /\ s \in Stores /\ s.books = store.books /\ s.events = store.events
      /\ s.head = store.head /\ s.generation = store.generation /\ store \in Stores
  BY <1>1 DEF FeedIInv, Typed, FenceStore, Stores
<1>3. Typed'
  BY <1>1, <1>2 DEF FeedIInv, Typed, FenceStore
<1>4. StoreIInv'
  BY <1>1, <1>2 DEF FeedIInv, StoreIInv, FenceStore, Told
<1>5. Grows(store, s)
  BY <1>2, NothingGrows DEF Grows
<1>6. DeviceIInv'
  BY <1>1, <1>2, <1>5, DevicesKept DEF FenceStore
<1>7. \A w \in Writers : WriterSound(txn[w], s)
  BY <1>2 DEF FeedIInv, WriterIInv, WriterSound, FenceStore
<1>8. WriterIInv'
  BY <1>1, <1>7 DEF FeedIInv, WriterIInv, FenceStore
<1>9. QED BY <1>3, <1>4, <1>6, <1>8 DEF FeedIInv

LEMMA ActivateStoreStep == FeedIInv /\ ActivateStore => FeedIInv'
<1> SUFFICES ASSUME FeedIInv, ActivateStore PROVE FeedIInv'
  OBVIOUS
<1>1. PICK s : s = store'
  OBVIOUS
<1>2. /\ s \in Stores /\ s.books = backup.books /\ s.events = backup.events
      /\ s.head = backup.head /\ s.generation = store.generation + 1
      /\ store.generation \in Nat /\ s.books \in Copies /\ s.head \in Nat
  BY <1>1 DEF FeedIInv, Typed, ActivateStore, Stores
<1>3. Typed'
  BY <1>1, <1>2 DEF FeedIInv, Typed, ActivateStore
<1>4. StoreIInv'
  <2>1. Told(s)
    BY <1>2 DEF FeedIInv, StoreIInv, Told
  <2>2. Cut(cuts', s.generation, s.head, s.books)
    BY <1>1, <1>2 DEF ActivateStore, Cut
  <2>3. Told(backup) /\ backup' = backup /\ backup.generation <= s.generation
    BY <1>2 DEF FeedIInv, StoreIInv, ActivateStore
  <2>4. QED BY <1>1, <2>1, <2>2, <2>3 DEF StoreIInv
<1>5. DeviceIInv'
  <2>1. store.generation < s.generation /\ cuts \subseteq cuts'
    BY <1>2 DEF ActivateStore
  <2>2. QED BY <1>1, <1>2, <2>1, DevicesKept DEF ActivateStore
<1>6. WriterIInv'
  <2>1. \A w \in Writers : txn[w] = IdleTransaction
    BY DEF FeedIInv, WriterIInv, WriterSound, ActivateStore
  <2>2. WriterSound(IdleTransaction, s)
    BY <1>2, IdleSound DEF WriterSound, IdleTransaction
  <2>3. \A w \in Writers : WriterSound(txn'[w], store')
    BY <1>1, <2>1, <2>2 DEF ActivateStore
  <2>4. \A w, v \in Writers : w # v => Apart(txn'[w], txn'[v])
    BY DEF FeedIInv, WriterIInv, ActivateStore
  <2>5. QED BY <2>3, <2>4 DEF WriterIInv
<1>7. QED BY <1>3, <1>4, <1>5, <1>6 DEF FeedIInv

LEMMA DeviceType ==
    ASSUME FeedIInv, NEW d \in Devices
    PROVE  /\ store \in Stores /\ replica[d] \in Replicas /\ request[d] \in Requests
           /\ request = [request EXCEPT ![d] = request[d]]
           /\ replica = [replica EXCEPT ![d] = replica[d]]
           /\ ReplicaSound(replica[d], store, cuts)
           /\ RequestSound(request[d], replica[d], store, cuts)
           /\ Told(store) /\ Cut(cuts, store.generation, store.head, store.books)
BY DEF FeedIInv, Typed, StoreIInv, DeviceIInv, Requests

\* A request before its answer, in the invariant's terms.
LEMMA SnapshotType ==
    ASSUME FeedIInv, NEW d \in Devices, NEW mode, InSnapshot(d, mode)
    PROVE  /\ SnapshotOf(d) \in Stores /\ replica[d].mode = mode
           /\ SnapshotSound(SnapshotOf(d), replica[d], store, cuts)
<1>1. request[d] \in Requests /\ request[d] # NoRequest /\ request[d].at = "snapshot"
  BY DeviceType DEF InSnapshot
<1>2. request[d] \in Snapshots
  BY <1>1 DEF Requests, Snapshots, Pages, Datasets
<1>3. SnapshotOf(d) \in Stores
  BY <1>2 DEF Snapshots, SnapshotOf
<1>4. SnapshotSound(SnapshotOf(d), replica[d], store, cuts)
  BY <1>1, DeviceType DEF RequestSound, SnapshotOf
<1>5. QED BY <1>3, <1>4 DEF InSnapshot

LEMMA OpenSnapshotStep ==
    ASSUME FeedIInv, NEW d \in Devices, OpenSnapshot(d)
    PROVE  FeedIInv'
<1>1. PICK q : q = [at |-> "snapshot", store |-> store]
  OBVIOUS
<1>2. q \in Snapshots /\ q \in Requests /\ q.at = "snapshot" /\ q.store = store
  BY <1>1, DeviceType DEF Snapshots, Requests
<1>3. SnapshotSound(store, replica[d], store, cuts)
  <2>1. Prefix(store, store)
    BY DeviceType, AtHead
  <2>2. QED BY <2>1, DeviceType DEF SnapshotSound, ReplicaSound, Stores
<1>4. RequestSound(q, replica[d], store, cuts)
  BY <1>2, <1>3 DEF RequestSound
<1>5. request' = [request EXCEPT ![d] = q] /\ replica' = [replica EXCEPT ![d] = replica[d]]
  BY <1>1, DeviceType DEF OpenSnapshot
<1>6. QED BY <1>2, <1>4, <1>5, DeviceType, OneDevice DEF OpenSnapshot

LEMMA AnswerPullStep ==
    ASSUME FeedIInv, NEW d \in Devices, AnswerPull(d)
    PROVE  FeedIInv'
<1>1. PICK s \in Stores : s = SnapshotOf(d)
  BY SnapshotType DEF AnswerPull
<1>2. PICK p \in Replicas : p = replica[d]
  BY DeviceType
<1>3. /\ SnapshotSound(s, p, store, cuts) /\ p.mode = "pull" /\ p.generation = s.generation
      /\ p.cursor <= s.head /\ Contiguous(PageOf(p.cursor, s), p.cursor, s.head)
  BY <1>1, <1>2, SnapshotType DEF AnswerPull, CursorServed
<1>4. /\ p.cursor \in Nat /\ p.copy \in Copies /\ s.head \in Nat /\ s.generation \in Nat
      /\ store \in Stores
  BY DeviceType DEF Replicas, Stores
<1>5. Told(s) /\ Position(s, p.cursor, p.copy)
  BY <1>3 DEF SnapshotSound
<1>6. PICK page \in SUBSET Events : page = PageOf(p.cursor, s)
  BY DEF PageOf, Stores
<1>7. PICK m \in Nat :
        /\ p.cursor <= m /\ m <= s.head /\ p.cursor + Cardinality(page) = m
        /\ page = {e \in s.events : e.sequence > p.cursor /\ e.sequence <= m}
  BY <1>3, <1>4, <1>5, <1>6, PageIsWhole
<1>8. PICK copy \in Copies : copy = Applied(page, p.copy)
  BY <1>4, AppliedType
<1>9. Position(s, m, copy)
  BY <1>4, <1>5, <1>7, <1>8, PageMoves
<1>10. PICK q : q = [at |-> "page", changes |-> page, next |-> m, more |-> m < s.head,
                     generation |-> s.generation]
  OBVIOUS
<1>11. /\ q \in Pages /\ q \in Requests /\ q.at = "page" /\ q.changes = page /\ q.next = m
       /\ q.more = (m < s.head) /\ q.generation = s.generation
  <2>1. (m < s.head) \in BOOLEAN
    OBVIOUS
  <2>2. QED BY <1>4, <1>10, <2>1 DEF Pages, Requests
<1>12. PageSound(q, p, store, cuts)
  <2>1. ASSUME ~ q.more PROVE Cut(cuts, s.generation, m, copy)
    <3>0. ~ (m < s.head)
      BY <1>11, <2>1, Zenon
    <3>1. m = s.head
      BY <1>4, <1>7, <3>0
    <3>2. copy = s.books
      BY <1>5, <1>9, <3>1, Whole
    <3>3. QED BY <1>3, <3>1, <3>2 DEF SnapshotSound
  <2>2. ASSUME s.generation = store.generation PROVE Position(store, m, copy)
    BY <1>3, <1>4, <1>9, <2>2, PositionMoved DEF SnapshotSound
  <2>3. QED BY <1>3, <1>8, <1>11, <2>1, <2>2 DEF PageSound
<1>13. RequestSound(q, p, store, cuts)
  BY <1>11, <1>12 DEF RequestSound
<1>14. request' = [request EXCEPT ![d] = q] /\ replica' = [replica EXCEPT ![d] = p]
  BY <1>1, <1>2, <1>6, <1>7, <1>10, DeviceType DEF AnswerPull
<1>15. QED BY <1>2, <1>11, <1>13, <1>14, DeviceType, OneDevice DEF AnswerPull

LEMMA RequireBootstrapStep ==
    ASSUME FeedIInv, NEW d \in Devices, RequireBootstrap(d)
    PROVE  FeedIInv'
<1>1. PICK p : p = [replica[d] EXCEPT !.mode = "bootstrap"]
  OBVIOUS
<1>2. /\ p \in Replicas /\ p.mode = "bootstrap" /\ p.generation = replica[d].generation
      /\ p.complete = replica[d].complete /\ p.cursor = replica[d].cursor
      /\ p.copy = replica[d].copy
  BY <1>1, DeviceType DEF Replicas
<1>3. ReplicaSound(p, store, cuts) /\ RequestSound(NoRequest, p, store, cuts)
  BY <1>2, DeviceType DEF ReplicaSound, RequestSound
<1>4. replica' = [replica EXCEPT ![d] = p] /\ NoRequest \in Requests
  BY <1>1 DEF RequireBootstrap, Requests, FeedIInv, Typed
<1>5. QED BY <1>2, <1>3, <1>4, OneDevice DEF RequireBootstrap

LEMMA AnswerBootstrapStep ==
    ASSUME FeedIInv, NEW d \in Devices, AnswerBootstrap(d)
    PROVE  FeedIInv'
<1>1. PICK s \in Stores : s = SnapshotOf(d)
  BY SnapshotType DEF AnswerBootstrap
<1>2. SnapshotSound(s, replica[d], store, cuts) /\ store \in Stores
  BY <1>1, SnapshotType, DeviceType DEF AnswerBootstrap
<1>3. PICK q : q = [at |-> "dataset", rows |-> s.books, base |-> s.head,
                    generation |-> s.generation]
  OBVIOUS
<1>4. /\ q \in Datasets /\ q \in Requests /\ q.at = "dataset" /\ q.rows = s.books
      /\ q.base = s.head /\ q.generation = s.generation
  BY <1>3 DEF Datasets, Requests, Stores
<1>5. RequestSound(q, replica[d], store, cuts)
  BY <1>2, <1>4 DEF RequestSound, DatasetSound, SnapshotSound, Prefix
<1>6. /\ request' = [request EXCEPT ![d] = q] /\ replica' = [replica EXCEPT ![d] = replica[d]]
      /\ UNCHANGED <<store, txn, backup, cuts>>
  BY <1>1, <1>3, DeviceType DEF AnswerBootstrap, Boundary
<1>7. replica[d] \in Replicas /\ ReplicaSound(replica[d], store, cuts)
  BY DeviceType
<1>8. QED BY <1>4, <1>5, <1>6, <1>7, OneDevice

LEMMA ApplyPageStep ==
    ASSUME FeedIInv, NEW d \in Devices, ApplyPage(d)
    PROVE  FeedIInv'
<1>1. PICK q \in Requests : q = request[d]
  BY DeviceType
<1>2. q # NoRequest /\ q.at = "page"
  BY <1>1 DEF ApplyPage
<1>3. q \in Pages
  BY <1>2 DEF Requests, Snapshots, Pages, Datasets
<1>4. PICK copy \in Copies : copy = Applied(q.changes, replica[d].copy)
  BY <1>3, DeviceType, AppliedType DEF Pages, Replicas
<1>5. PICK p : p = [replica[d] EXCEPT !.copy = copy, !.cursor = q.next, !.complete = ~ q.more]
  OBVIOUS
<1>6. /\ p \in Replicas /\ p.copy = copy /\ p.cursor = q.next /\ p.complete = ~ q.more
      /\ p.generation = replica[d].generation /\ p.mode = replica[d].mode
  <2>1. (~ q.more) \in BOOLEAN /\ q.next \in Nat
    BY <1>3 DEF Pages
  <2>2. QED BY <1>4, <1>5, <2>1, DeviceType DEF Replicas
<1>7. PageSound(q, replica[d], store, cuts)
  BY <1>1, <1>2, DeviceType DEF RequestSound
<1>8. ReplicaSound(p, store, cuts) /\ RequestSound(NoRequest, p, store, cuts)
  <2>1. p.generation <= store.generation
    BY <1>6, DeviceType DEF ReplicaSound
  <2>2. p.complete => ~ q.more
    BY <1>6, Zenon
  <2>3. p.complete => Cut(cuts, p.generation, p.cursor, p.copy)
    BY <1>4, <1>6, <1>7, <2>2 DEF PageSound
  <2>4. p.generation = store.generation => Position(store, p.cursor, p.copy)
    BY <1>4, <1>6, <1>7 DEF PageSound
  <2>5. QED BY <2>1, <2>3, <2>4 DEF ReplicaSound, RequestSound
<1>9. replica' = [replica EXCEPT ![d] = p]
  <2>1. replica' = [replica EXCEPT ![d].copy = Applied(request[d].changes, replica[d].copy),
                                   ![d].cursor = request[d].next,
                                   ![d].complete = ~ request[d].more]
    BY Zenon DEF ApplyPage, Applied
  <2>2. Applied(request[d].changes, replica[d].copy) = copy
    BY <1>1, <1>4
  <2>3. QED BY <1>1, <1>5, <2>1, <2>2 DEF FeedIInv, Typed
<1>10. NoRequest \in Requests
  BY DEF Requests
<1>11. QED BY <1>6, <1>8, <1>9, <1>10, OneDevice DEF ApplyPage

LEMMA InstallDatasetStep ==
    ASSUME FeedIInv, NEW d \in Devices, InstallDataset(d)
    PROVE  FeedIInv'
<1>1. PICK q \in Requests : q = request[d]
  BY DeviceType
<1>2. q # NoRequest /\ q.at = "dataset"
  BY <1>1 DEF InstallDataset
<1>3. q \in Datasets
  BY <1>2 DEF Requests, Snapshots, Pages, Datasets
<1>4. PICK p : p = [copy |-> q.rows, cursor |-> q.base, generation |-> q.generation,
                    mode |-> "pull", complete |-> TRUE]
  OBVIOUS
<1>5. /\ p \in Replicas /\ p.copy = q.rows /\ p.cursor = q.base
      /\ p.generation = q.generation
  BY <1>3, <1>4 DEF Datasets, Replicas
<1>6. DatasetSound(q, store, cuts)
  BY <1>1, <1>2, DeviceType DEF RequestSound
<1>7. ReplicaSound(p, store, cuts) /\ RequestSound(NoRequest, p, store, cuts)
  BY <1>5, <1>6 DEF ReplicaSound, RequestSound, DatasetSound
<1>8. replica' = [replica EXCEPT ![d] = p] /\ NoRequest \in Requests
  BY <1>1, <1>4 DEF InstallDataset, Requests
<1>9. QED BY <1>5, <1>7, <1>8, OneDevice DEF InstallDataset

LEMMA NoAnswerStep ==
    ASSUME FeedIInv, NEW d \in Devices, Refuse(d) \/ LoseAnswer(d)
    PROVE  FeedIInv'
<1>1. RequestSound(NoRequest, replica[d], store, cuts) /\ NoRequest \in Requests
  BY DEF RequestSound, Requests
<1>2. /\ request' = [request EXCEPT ![d] = NoRequest] /\ UNCHANGED <<store, txn, backup, cuts>>
      /\ replica' = [replica EXCEPT ![d] = replica[d]]
  BY DeviceType DEF Refuse, LoseAnswer
<1>3. QED BY <1>1, <1>2, DeviceType, OneDevice

-----------------------------------------------------------------------------
(* Theorems.                                                                 *)

\* The invariant holds in every state of the feed: what a snapshot, a page, a
\* dataset and a copy are, of the Store they were taken of and of the Store now.
THEOREM Invariance == FeedSpec => []FeedIInv
<1>1. FeedIInv /\ [FeedNext]_feedVars => FeedIInv'
  <2> SUFFICES ASSUME FeedIInv, [FeedNext]_feedVars PROVE FeedIInv'
    OBVIOUS
  <2>1. ASSUME NEW w \in Writers, WriterStep(w) PROVE FeedIInv'
    BY <2>1, BeginWriterStep, WriteRowStep, StartCommitStep, CaptureStep, CommitStep, AbortStep
    DEF WriterStep
  <2>2. CASE TakeBackup \/ FenceStore \/ ActivateStore
    BY <2>2, TakeBackupStep, FenceStoreStep, ActivateStoreStep
  <2>3. ASSUME NEW d \in Devices, DeviceStep(d) PROVE FeedIInv'
    BY <2>3, OpenSnapshotStep, AnswerPullStep, RequireBootstrapStep, AnswerBootstrapStep,
       ApplyPageStep, InstallDatasetStep, NoAnswerStep DEF DeviceStep
  <2>4. CASE UNCHANGED feedVars
    BY <2>4 DEF feedVars, FeedIInv, Typed, StoreIInv, WriterIInv, DeviceIInv
  <2>5. QED BY <2>1, <2>2, <2>3, <2>4 DEF FeedNext
<1>2. QED BY InitHolds, <1>1, PTL DEF FeedSpec

\* The feed is gap-free and tells the books of the Store, whatever transactions
\* commit and whatever is restored.
THEOREM FeedIsWhole == FeedSpec => []FeedTellsBooks
<1>1. FeedIInv => FeedTellsBooks
  BY DEF FeedIInv, StoreIInv, Told, FeedTellsBooks
<1>2. QED BY <1>1, Invariance, PTL

\* A device that was told there is nothing more holds a state the Store committed.
THEOREM CopiesAreCommits == FeedSpec => []CompleteIsACommit
<1>1. FeedIInv => CompleteIsACommit
  <2> SUFFICES ASSUME FeedIInv, NEW d \in Devices, replica[d].complete
               PROVE  \E c \in cuts : /\ c.generation = replica[d].generation
                                      /\ c.head = replica[d].cursor
                                      /\ c.books = replica[d].copy
    BY DEF CompleteIsACommit
  <2>1. Cut(cuts, replica[d].generation, replica[d].cursor, replica[d].copy)
    BY DeviceType DEF ReplicaSound
  <2>2. QED BY <2>1 DEF Cut
<1>2. QED BY <1>1, Invariance, PTL

\* A copy of the current generation has exactly the events up to its cursor, so a
\* pull from the cursor passes over no committed change.
THEOREM CursorsPassOverNothing == FeedSpec => []NothingPassedOver
<1>1. FeedIInv => NothingPassedOver
  BY DeviceType DEF NothingPassedOver, ReplicaSound, Position
<1>2. QED BY <1>1, Invariance, PTL
=============================================================================
