------------------------------ MODULE Listings ------------------------------
(* The lists a client reads page by page while others write. A page ends     *)
(* with a cursor, and the next request tells from the cursor alone where to  *)
(* go on: by the values of the last row shown, or by its identifier, with    *)
(* the row read again. One table and one walk through one list of it.        *)
EXTENDS Integers, Sequences, FiniteSets

CONSTANTS
    ListIds,        \* row identifiers, in their order
    RowNames,       \* normalized names, in their order
    Instants,       \* when a document says it happened: whole milliseconds
    MaxListWrites,  \* bound on the writes during a walk
    MaxShown,       \* bound on the rows shown, for a walk without end
    Void            \* no row, no cursor, no position

VARIABLES
    table,   \* the rows of the table the list reads
    walk,    \* the requests of one client, from the first page on
    written  \* how many writes there were

listVars == <<table, walk, written>>

(* The clock of the database counts microseconds, here two a millisecond:    *)
(* every row of a transaction is of the same now().                          *)
Now == <<2 + (written \div 2), written % 2>>

(* Some lists mix types of rows; a type goes with the identifier.            *)
TypeOf(i) == i % 2

Row(name, at, status) ==
    [name |-> name, pinned |-> FALSE, at |-> at, status |-> status, version |-> 1, read |-> FALSE]

Present == {i \in ListIds : table[i] # Void}
WithStatus(statuses) == {i \in Present : table[i].status \in statuses}
Named(i) == <<table[i].name, i>>
Oldest(i) == <<table[i].at[1], table[i].at[2], i>>
Newest(i) == <<-table[i].at[1], -table[i].at[2], -i>>

(* toISOString keeps the milliseconds of an instant.                         *)
Milliseconds(i) == table[i].at[1]

-----------------------------------------------------------------------------
(* What the cursor of each list says of the last row shown. Where it has the *)
(* form of a rank, it is the position itself.                                *)
CustomerMark(i) == Named(i)
SupplierMarkUnversioned(i) == <<i>>
SupplierMark(i) == <<i, table[i].version>>
ProductMark(i) == <<i, table[i].version>>
SaleMark(i) == <<i, table[i].version>>
ReceivableMark(i) == <<i>>
CreditHistoryMark(i) == <<i, Milliseconds(i)>>
CustomerPaymentMark(i) == <<i, table[i].version>>
SupplierInvoiceMark(i) == <<i, table[i].version>>
SupplierPaymentMark(i) == <<i, table[i].version>>
ExpenseMark(i) == <<i, table[i].version>>
SaleReturnMark(i) == <<i, table[i].version>>
ReportMark(i) == <<i>>
TypedReportMark(i) == <<i, TypeOf(i)>>
NotificationMark(i) == <<-Milliseconds(i), 0, -i>>
AuditMark(i) == <<-Milliseconds(i), 0, -i>>
SearchMark(i) == <<IF table[i].name = 1 THEN 0 ELSE 1, -Milliseconds(i), 0, TypeOf(i), i>>
StoreMark(i) == <<Milliseconds(i), 0, i>>
AdminActionMark(i) == <<-Milliseconds(i), 0, -i>>

(* A list: its rows, their order, their marks, and how the row a cursor      *)
(* names is read again: "never", in a statement before the page ("before"),  *)
(* locked until the page is read ("locked"), or in the snapshot of the page. *)
List(ids, rank(_), mark(_), again) ==
    [ids |-> ids, rank |-> [i \in ids |-> rank(i)], mark |-> [i \in ids |-> mark(i)], again |-> again]

CustomerList(s) == List(WithStatus({s}), Named, CustomerMark, "never")
SupplierList(s) == List(WithStatus({s}), Named, SupplierMark, "locked")
PinnedFirst(i) == <<IF table[i].pinned THEN 0 ELSE 1, table[i].name, i>>
ProductList(s) == List(WithStatus({s}), PinnedFirst, ProductMark, "locked")

SaleList == List(WithStatus({"posted", "cancelled"}), Newest, SaleMark, "before")
ReceivableList == List(Present, Newest, ReceivableMark, "before")
CreditHistoryList == List(Present, Newest, CreditHistoryMark, "before")
CustomerPaymentList == List(WithStatus({"posted", "cancelled"}), Newest, CustomerPaymentMark, "locked")
SupplierInvoiceList == List(WithStatus({"posted", "cancelled"}), Newest, SupplierInvoiceMark, "locked")
SupplierPaymentList == List(WithStatus({"posted", "cancelled"}), Newest, SupplierPaymentMark, "locked")
ExpenseList == List(WithStatus({"posted"}), Newest, ExpenseMark, "before")
SaleReturnList == List(WithStatus({"posted", "cancelled"}), Newest, SaleReturnMark, "before")

(* A report reads all it shows in one snapshot, a dated one also the cursor. *)
SalesReport(s) == List(WithStatus({s}), Newest, ReportMark, "snapshot")
ExpensesReport(s) == List(WithStatus({s}), Newest, ReportMark, "snapshot")
MoneyMovementsReport == List(Present, Newest, ReportMark, "snapshot")
InventoryMovementsReport == List(Present, Newest, ReportMark, "snapshot")
OwnerLedgerReport == List(Present, Newest, ReportMark, "snapshot")
NewestByType(i) == <<-table[i].at[1], -table[i].at[2], TypeOf(i), -i>>
ReturnsCorrectionsReport == List(WithStatus({"cancelled"}), NewestByType, TypedReportMark, "snapshot")
CustomerReceivablesReport == List(Present, Named, ReportMark, "snapshot")
SupplierPayablesReport == List(Present, Named, ReportMark, "snapshot")
InventoryStockReport == List(Present, Named, ReportMark, "snapshot")
LiquidityReport == List(WithStatus({"active"}), Named, ReportMark, "snapshot")

NotificationList(s) ==
    List(IF s = "unread" THEN {i \in Present : ~table[i].read} ELSE WithStatus({s}),
         Newest, NotificationMark, "never")
AuditList == List(Present, Newest, AuditMark, "never")
BestMatch(i) ==
    <<IF table[i].name = 1 THEN 0 ELSE 1, -table[i].at[1], -table[i].at[2], TypeOf(i), i>>
SearchList == List(Present, BestMatch, SearchMark, "never")
StoreList == List(Present, Oldest, StoreMark, "never")
AdminActionList == List(Present, Newest, AdminActionMark, "never")

View ==
    CASE walk.list = "customers" -> CustomerList(walk.scope)
      [] walk.list = "suppliers" -> SupplierList(walk.scope)
      [] walk.list = "products" -> ProductList(walk.scope)
      [] walk.list = "sales" -> SaleList
      [] walk.list = "receivables" -> ReceivableList
      [] walk.list = "creditHistory" -> CreditHistoryList
      [] walk.list = "customerPayments" -> CustomerPaymentList
      [] walk.list = "supplierInvoices" -> SupplierInvoiceList
      [] walk.list = "supplierPayments" -> SupplierPaymentList
      [] walk.list = "expenses" -> ExpenseList
      [] walk.list = "saleReturns" -> SaleReturnList
      [] walk.list = "reportOfSales" -> SalesReport(walk.scope)
      [] walk.list = "reportOfExpenses" -> ExpensesReport(walk.scope)
      [] walk.list = "reportOfMoneyMovements" -> MoneyMovementsReport
      [] walk.list = "reportOfInventoryMovements" -> InventoryMovementsReport
      [] walk.list = "reportOfTheOwner" -> OwnerLedgerReport
      [] walk.list = "reportOfCorrections" -> ReturnsCorrectionsReport
      [] walk.list = "reportOfReceivables" -> CustomerReceivablesReport
      [] walk.list = "reportOfPayables" -> SupplierPayablesReport
      [] walk.list = "reportOfStock" -> InventoryStockReport
      [] walk.list = "reportOfLiquidity" -> LiquidityReport
      [] walk.list = "notifications" -> NotificationList(walk.scope)
      [] walk.list = "audit" -> AuditList
      [] walk.list = "search" -> SearchList
      [] walk.list = "stores" -> StoreList
      [] walk.list = "adminActions" -> AdminActionList

-----------------------------------------------------------------------------
(* The client. A cursor is bound to what was asked for: with other filters   *)
(* it is refused.                                                            *)
Walk(list, s, limit) ==
    [list |-> list, scope |-> s, limit |-> limit, phase |-> "asking", cursor |-> Void,
     position |-> Void, shown |-> <<>>, start |-> {}, moved |-> {}]

StartOver(why) == walk' = [walk EXCEPT !.phase = why] /\ UNCHANGED <<table, written>>

AskOutOfScope(s) ==
    /\ walk.phase = "asking" /\ walk.cursor # Void /\ s # walk.scope
    /\ StartOver("ofOtherFilters")

Anchors(view) == {i \in view.ids : view.mark[i] = walk.cursor}

LoseAnchor ==
    /\ walk.phase = "asking" /\ walk.cursor # Void
    /\ LET view == View IN view.again # "never" /\ Anchors(view) = {}
    /\ StartOver("anchorGone")

ResolvePosition ==
    /\ walk.phase = "asking" /\ walk.cursor # Void
    /\ LET view == View IN
       /\ view.again \in {"before", "locked"}
       /\ \E i \in Anchors(view) :
            walk' = [walk EXCEPT !.phase = "resolved", !.position = view.rank[i]]
    /\ UNCHANGED <<table, written>>

Before(p, q) == \E k \in DOMAIN p : p[k] < q[k] /\ \A j \in 1..(k - 1) : p[j] = q[j]

(* One row more than the page is read, to know whether another page follows. *)
(* Before the n-th row of a page come n - 1 others of the rest.              *)
Rest(view, position) == {i \in view.ids : position = Void \/ Before(position, view.rank[i])}
RowsBefore(view, rest, i) == {j \in rest : Before(view.rank[j], view.rank[i])}
RowsInOrder(view, rest, length) ==
    [n \in 1..length |-> CHOOSE i \in rest : Cardinality(RowsBefore(view, rest, i)) = n - 1]

Page(view, position) ==
    LET rest == Rest(view, position)
        more == Cardinality(rest) > walk.limit
        items == RowsInOrder(view, rest, IF more THEN walk.limit ELSE Cardinality(rest)) IN
    walk' = [walk EXCEPT
               !.phase = IF more THEN "asking" ELSE "over",
               !.cursor = IF more THEN view.mark[items[walk.limit]] ELSE Void,
               !.position = Void,
               !.shown = @ \o items,
               !.start = IF walk.cursor = Void THEN view.ids ELSE @,
               !.moved = IF walk.cursor = Void THEN {} ELSE @]

ReadPage ==
    /\ Len(walk.shown) <= MaxShown
    /\ LET view == View IN
       \/ /\ walk.phase = "asking" /\ (walk.cursor = Void \/ view.again = "never")
          /\ Page(view, walk.cursor)
       \/ /\ walk.phase = "resolved"
          /\ Page(view, walk.position)
    /\ UNCHANGED <<table, written>>

ReadReport ==
    /\ walk.phase = "asking" /\ walk.cursor # Void
    /\ LET view == View IN
       /\ view.again = "snapshot"
       /\ \E i \in Anchors(view) : Page(view, view.rank[i])
    /\ UNCHANGED <<table, written>>

-----------------------------------------------------------------------------
(* The writers. A row read for share is not written before the page is read. *)
Held(i) ==
    /\ walk.phase = "resolved"
    /\ LET view == View IN view.again = "locked" /\ i \in Anchors(view)

WriteRows(S, row(_)) ==
    /\ written < MaxListWrites
    /\ \A i \in S : ~Held(i)
    /\ table' = [i \in ListIds |-> IF i \in S THEN row(i) ELSE table[i]]
    /\ walk' = [walk EXCEPT !.moved = @ \cup S]
    /\ written' = written + 1

AddParty(i, n) == table[i] = Void /\ WriteRows({i}, LAMBDA k : Row(n, Now, "active"))

EditParty(i, n, pinned) ==
    LET row == [table[i] EXCEPT !.name = n, !.pinned = pinned, !.version = @ + 1, !.at = Now] IN
    /\ table[i] # Void /\ table[i].status = "active"
    /\ WriteRows({i}, LAMBDA k : row)

CycleParty(i) ==
    LET other == IF table[i].status = "active" THEN "archived" ELSE "active"
        row == [table[i] EXCEPT !.status = other, !.version = @ + 1, !.at = Now] IN
    table[i] # Void /\ WriteRows({i}, LAMBDA k : row)

PostDocument(i, at) == table[i] = Void /\ WriteRows({i}, LAMBDA k : Row(1, at, "posted"))

CancelDocument(i) ==
    LET row == [table[i] EXCEPT !.status = "cancelled", !.version = @ + 1] IN
    /\ table[i] # Void /\ table[i].status = "posted"
    /\ WriteRows({i}, LAMBDA k : row)

(* Also at the head of every request for notifications; a failure of it is   *)
(* only logged. Everything it inserts is of one instant.                     *)
Reconcile(fresh, stale) ==
    /\ \A i \in fresh : table[i] = Void
    /\ \A i \in stale : table[i] # Void /\ table[i].status = "active"
    /\ fresh \cup stale # {}
    /\ WriteRows(fresh \cup stale,
                 LAMBDA k : IF k \in fresh THEN Row(1, Now, "active")
                            ELSE [table[k] EXCEPT !.status = "resolved"])

SetReadState(i) ==
    table[i] # Void /\ WriteRows({i}, LAMBDA k : [table[i] EXCEPT !.read = ~@])

(* Events of one transaction, one store, one act of an administrator.        *)
RecordEvents(S) == S # {} /\ (\A i \in S : table[i] = Void) /\ WriteRows(S, LAMBDA k : Row(1, Now, "posted"))

-----------------------------------------------------------------------------
(* Which list is written by which of these, and what lists can be filtered   *)
(* by. Entries and movements are only added to.                              *)
ByMicrosecond == {"notifications", "audit", "search", "adminActions"}
ByNameOnly ==
    {"reportOfReceivables", "reportOfPayables", "reportOfStock", "reportOfLiquidity"}
PartyLists == {"customers", "suppliers", "products", "search"} \cup ByNameOnly
DocumentLists ==
    {"sales", "receivables", "creditHistory", "customerPayments", "supplierInvoices",
     "supplierPayments", "expenses", "saleReturns", "reportOfSales", "reportOfExpenses",
     "reportOfMoneyMovements", "reportOfInventoryMovements", "reportOfTheOwner",
     "reportOfCorrections"}
EventLists == {"audit", "stores", "adminActions"}
Lists == PartyLists \cup DocumentLists \cup EventLists \cup {"notifications"}

AddedTo ==
    {"receivables", "creditHistory", "reportOfMoneyMovements", "reportOfInventoryMovements",
     "reportOfTheOwner"}

Scopes(list) ==
    CASE list \in {"customers", "suppliers", "products"} -> {"active", "archived"}
      [] list \in {"reportOfSales", "reportOfExpenses"} -> {"posted", "cancelled"}
      [] list = "notifications" -> {"active", "unread"}
      [] OTHER -> {"all"}

PartyWriters(list) ==
    \E i \in ListIds :
       \/ \E n \in RowNames : AddParty(i, n) \/ EditParty(i, n, table[i].pinned)
       \/ list = "products" /\ EditParty(i, table[i].name, TRUE)
       \/ CycleParty(i)

DocumentWriters(list) ==
    \E i \in ListIds :
       \/ \E at \in Instants : PostDocument(i, at)
       \/ list \notin AddedTo /\ CancelDocument(i)

NotificationWriters ==
    \/ \E fresh, stale \in SUBSET ListIds : Reconcile(fresh, stale)
    \/ \E i \in ListIds : SetReadState(i)

Writers(list) ==
    \/ list \in PartyLists /\ PartyWriters(list)
    \/ list \in DocumentLists /\ DocumentWriters(list)
    \/ list = "notifications" /\ NotificationWriters
    \/ list \in EventLists /\ \E i \in ListIds : RecordEvents({i})

(* What ends stays ended; stores one by one are shown again and again.       *)
StopReading ==
    /\ walk.phase \notin {"asking", "resolved"} \/ Len(walk.shown) > MaxShown
    /\ UNCHANGED listVars

ServeListings ==
    \/ \E s \in Scopes(walk.list) : AskOutOfScope(s)
    \/ LoseAnchor
    \/ ResolvePosition
    \/ ReadPage
    \/ ReadReport
    \/ Writers(walk.list)
    \/ StopReading

(* Any rows, and the first request for any list.                             *)
Statuses == {"active", "archived", "posted", "cancelled", "resolved"}
ListedRows ==
    [name : Int, pinned : BOOLEAN, at : Int \X Nat, status : Statuses, version : Nat, read : BOOLEAN]
ListInit ==
    /\ table \in [ListIds -> ListedRows \cup {Void}]
    /\ \E list \in Lists, limit \in Nat \ {0} : \E s \in Scopes(list) : walk = Walk(list, s, limit)
    /\ written = 0
ListSpec == ListInit /\ [][ServeListings]_listVars

(* Identifiers, names and instants are in an order, and Void is neither a    *)
(* row nor a position.                                                       *)
ListingAssumption ==
    /\ ListIds \subseteq Int /\ IsFiniteSet(ListIds)
    /\ RowNames \subseteq Int
    /\ Instants \subseteq Int \X Nat
    /\ Void \notin ListedRows /\ Void \notin Seq(Int)

-----------------------------------------------------------------------------
(* Properties *)

Steady == walk.start \ walk.moved
Strictly(i, j) == LET rank == View.rank IN Before(rank[i], rank[j])
InOrder(before(_, _)) ==
    \A p, q \in DOMAIN walk.shown :
        p < q /\ walk.shown[p] \in Steady /\ walk.shown[q] \in Steady
          => before(walk.shown[p], walk.shown[q])
Shown == {walk.shown[p] : p \in DOMAIN walk.shown}
ShownSteady == Shown \subseteq Steady
AllShown(S) == walk.phase = "over" => S \subseteq Shown

(* A row that nobody touches from the first page to the last is listed once, *)
(* in its place, whatever is inserted, renamed, archived or cancelled around *)
(* it; the lists of instants that are not whole milliseconds and the reports *)
(* by name have theirs below (supplier-read.repository.ts:27,                *)
(* sale-read.repository.ts:470, reports.repository.ts:1090).                 *)
EachRowOnce ==
    walk.list \notin ByMicrosecond \cup ByNameOnly \cup {"stores"} =>
        AllShown(Steady) /\ InOrder(Strictly)

(* The newest-first lists of microsecond instants never repeat a row, and    *)
(* skip none that has its millisecond for itself; a search, if what it has   *)
(* shown was not written since (notification-cursor.ts:52).                  *)
GapsWithinAMillisecond ==
    walk.list \in ByMicrosecond /\ (walk.list = "search" => ShownSteady) =>
        /\ InOrder(Strictly)
        /\ AllShown({i \in Steady : \A j \in Present \ {i} : Milliseconds(j) # Milliseconds(i)})

(* Oldest first, a page may begin with rows of the millisecond the last one  *)
(* ended in; nothing is skipped, nothing older comes back                    *)
(* (platform-admin-cursor.ts:52).                                            *)
StoresOnlyRepeat ==
    walk.list = "stores" =>
        AllShown(Steady) /\ InOrder(LAMBDA i, j : Milliseconds(i) <= Milliseconds(j))

(* A report by name is complete unless a row it has shown was renamed        *)
(* (reports.repository.ts:1100).                                             *)
ReportsByName ==
    walk.list \in ByNameOnly /\ ShownSteady =>
        AllShown(Steady) /\ InOrder(Strictly)

(* Who is told to start over really met a change of the row the page ended   *)
(* with (supplier-read.repository.ts:48, expense-read.repository.ts:33).     *)
RefusedForCause ==
    walk.phase = "anchorGone" => walk.shown[Len(walk.shown)] \in walk.moved

(* The pages of every list: see the parts above.                             *)
ListingsSound ==
    /\ EachRowOnce
    /\ GapsWithinAMillisecond
    /\ StoresOnlyRepeat
    /\ ReportsByName
    /\ RefusedForCause

(* "Uses bounded scope-bound keyset pagination": the pages of the            *)
(* notifications hold every notification that was there all along           *)
(* (notification.repository.ts:223).                                         *)
NotificationsListed ==
    walk.list = "notifications" => AllShown(Steady)
=============================================================================
