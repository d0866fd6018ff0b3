---------------------------- MODULE CustomerReads ----------------------------
(* What the tables of the customers' books demand of their rows, and what the *)
(* reads check before they answer: a read of rows it takes for inconsistent   *)
(* fails, and a command whose rows a table refuses is rolled back.            *)
EXTENDS CustomerAccounts

(* customer_payments.amount_minor of a collection that has rows.              *)
Collections == {o \in CustomerOps : customerBooks.payments[o] # "absent"}
CollectionOf(o) == Document(customerOps[o].command)
AllocationsOf(o) == {a \in customerBooks.allocations : a.payment = o}

-----------------------------------------------------------------------------
(* The tables.                                                                *)
SaleRows ==
    \A s \in CustomerOps : customerBooks.sales[s] # None =>
        LET sale == customerBooks.sales[s]
            owed == sale.total - customerBooks.moved[s] - sale.credit IN
        /\ sale.total >= 0 /\ owed >= 0
        /\ owed > 0 => sale.customer # None
        /\ sale.status \in {"posted", "cancelled", "corrected"}
        /\ sale.correctionOf # None => customerBooks.sales[sale.correctionOf] # None

SaleItemRows ==
    \A s \in CustomerOps : customerBooks.sales[s] # None =>
        customerBooks.sales[s].units > 0 /\ customerBooks.sales[s].total >= 0

(* Every tender of a collection is allocated or became credit.                *)
CustomerPaymentRows ==
    \A o \in Collections :
        CollectionOf(o).amount =
          SumAmount(AllocationsOf(o))
            + SumCredit({e \in Written(customerBooks, o) : e.type = "credit_created"})

LedgerTypes ==
    {"sale_credit", "payment", "return", "settlement", "opening_balance", "credit_created",
     "credit_used", "refund", "correction"}
CustomerLedgerRows ==
    \A e \in customerBooks.entries :
        /\ e.type \in LedgerTypes /\ e.customer \in Customers
        /\ e.receivable # 0 \/ e.credit # 0
        /\ e.reverses # None =>
             Cardinality({f \in customerBooks.entries :
                /\ f.reverses = e.reverses /\ f.type = e.type /\ f.about = e.about
                /\ f.receivable = e.receivable /\ f.credit = e.credit}) = 1

CreditApplications(s) ==
    {e \in Written(customerBooks, s) : e.type = "credit_used" /\ e.sale = s}
CreditApplicationRows ==
    \A s \in CustomerOps : customerBooks.sales[s] # None =>
        Cardinality(CreditApplications(s)) <= 1

AllocationRows ==
    \A a \in customerBooks.allocations :
        /\ a.amount > 0
        /\ \A c \in AllocationsOf(a.payment) : c.target = a.target => c = a

SaleReturnRows ==
    \A r \in CustomerOps : customerBooks.returns[r] # None =>
        LET return == customerBooks.returns[r] IN
        /\ return.units > 0 /\ return.total >= 0
        /\ customerBooks.sales[return.sale] # None

(* A settlement has the entry or the movement its type asks for.              *)
ReturnSettlements(r) ==
    {[kind |-> "money_refund", amount |-> -customerBooks.moved[r]]}
      \cup {[kind |-> e.type, ref |-> e.ref, amount |-> e.credit - e.receivable] :
               e \in Written(customerBooks, r)}
SettlementRows ==
    \A r \in CustomerOps : customerBooks.returns[r] # None =>
        /\ customerBooks.moved[r] <= 0
        /\ \A e \in Written(customerBooks, r) : e.credit - e.receivable > 0

CustomerTablesHold ==
    /\ SaleRows /\ SaleItemRows /\ CustomerPaymentRows /\ CustomerLedgerRows
    /\ CreditApplicationRows /\ AllocationRows /\ SaleReturnRows /\ SettlementRows

-----------------------------------------------------------------------------
(* Sales: what was paid of them in money and in credit, and what is left.     *)
SaleSummaryReads(s) ==
    LET sale == customerBooks.sales[s]
        left == SaleOutstanding(customerBooks, s) IN
    /\ sale.credit > 0 => sale.customer # None
    /\ 0 <= left /\ left <= sale.total - customerBooks.moved[s] - sale.credit

SaleDetailReads(s) ==
    LET sale == customerBooks.sales[s]
        origins == Origins(customerBooks, s)
        used == CreditApplications(s) IN
    /\ Cardinality(origins) <= 1 /\ Cardinality(used) <= 1
    /\ (sale.total > customerBooks.moved[s] + sale.credit) <=> (origins # {})
    /\ (sale.credit > 0) <=> (used # {})
    /\ \A e \in used : e.customer = sale.customer /\ -e.credit = sale.credit

SalesReadable ==
    \A s \in CustomerOps : customerBooks.sales[s] # None =>
        SaleSummaryReads(s) /\ SaleDetailReads(s)

-----------------------------------------------------------------------------
(* Receivables. The read of an opening receivable leaves out the corrections  *)
(* of what was settled of it, which the writers count.                        *)
OpeningRead(o) ==
    SumReceivable({e \in Written(customerBooks, o) : e.type = "opening_balance"})
    + SumReceivable({e \in customerBooks.entries : e.ref = "opening" /\ e.about = o
                       /\ e.type \in {"credit_used", "settlement"}})
    - SumAmount({a \in customerBooks.allocations :
                   a.target = o /\ customerBooks.payments[a.payment] = "posted"})

ReceivableReads(o) ==
    LET origin == Origin(customerBooks, o)
        left == IF origin.type = "sale_credit" THEN SaleOutstanding(customerBooks, o)
                ELSE OpeningRead(o) IN
    /\ origin.receivable > 0
    /\ 0 <= left /\ left <= origin.receivable

(* The receivables of a customer can be listed: none of them reads as paid    *)
(* beyond what it was, or as less than nothing.                               *)
ReceivablesReadable ==
    \A o \in CustomerOps : Origins(customerBooks, o) # {} => ReceivableReads(o)

-----------------------------------------------------------------------------
(* Payments and the history of a customer's credit. Each row is shown with    *)
(* the line of corrections of the document that wrote it.                     *)
PaymentsReadable ==
    \A o \in Collections : \A a \in AllocationsOf(o) :
        Cardinality({e \in Written(customerBooks, o) :
           /\ e.type = "payment" /\ e.about = a.target /\ e.receivable = -a.amount /\ e.credit = 0
           /\ e.sale = (IF IsSaleTarget(customerBooks, a.target) THEN a.target ELSE None)}) = 1

CustomerMoneyKinds == {"collection", "financial_cancel", "financial_edit"} \cup FinancialKinds
Roots(o) == IsDone(o) /\ customerOps[o].command.kind \in CustomerMoneyKinds

HistoryRows ==
    {e \in customerBooks.entries :
       e.type \in {"credit_created", "credit_used", "refund", "settlement", "correction"}}

(* The line from a document to what stands for it now.                        *)
Successor(o) == IF Corrections(o) = {} THEN o ELSE CHOOSE r \in Corrections(o) : TRUE
LineEnd(o) ==
    LET line[n \in 0..Cardinality(CustomerOps)] == IF n = 0 THEN o ELSE Successor(line[n - 1])
    IN line[Cardinality(CustomerOps)]
CurrentActive(o) ==
    LET last == customerOps[LineEnd(o)].command IN
    IF IsCorrection(last) /\ ~IsEdit(last) THEN None ELSE LineEnd(o)

(* A row of a sale is shown with the sale's line of corrections. The rows of  *)
(* returns have no line the read could find: it fails (see README).           *)
ReturnReferences == {"sale_return", "sale_return_original_credit_restoration"}
RootOf(e) == IF e.ref = "sale" THEN e.sale ELSE e.op
HistoryReadable ==
    \A e \in {e \in HistoryRows : e.ref \notin ReturnReferences} :
        LET root == RootOf(e) IN
        /\ e.ref # "sale" => Roots(root)
        /\ CurrentActive(root) # None =>
             /\ IsDone(CurrentActive(root)) /\ Corrections(CurrentActive(root)) = {}

-----------------------------------------------------------------------------
(* Returns: how each was settled, whether it stands, what may still come back. *)
ReturnSummaryReads(r) ==
    LET return == customerBooks.returns[r] IN
    /\ SumAmount(ReturnSettlements(r)) = return.total
    /\ (return.status = "posted") <=> (Corrections(r) = {})

ReturnDetailReads(r) ==
    LET sale == customerBooks.returns[r].sale IN
    /\ \A e \in Written(customerBooks, r) :
         /\ e.sale = sale
         /\ e.type = "return" => e.credit = 0 /\ e.ref = "sale_return"
         /\ e.type = "credit_created" => e.receivable = 0
    /\ \A e, f \in Written(customerBooks, r) : (e.type = f.type /\ e.ref = f.ref) => e = f

EligibilityReads(s) ==
    /\ customerBooks.sales[s].units > 0
    /\ ReturnedUnits(customerBooks, s) <= customerBooks.sales[s].units

ReturnsReadable ==
    /\ \A r \in CustomerOps : customerBooks.returns[r] # None =>
         ReturnSummaryReads(r) /\ ReturnDetailReads(r)
    /\ \A s \in CustomerOps : customerBooks.sales[s] # None => EligibilityReads(s)

CustomerReadsAnswer == SalesReadable /\ PaymentsReadable /\ HistoryReadable /\ ReturnsReadable

-----------------------------------------------------------------------------
(* The books of the customers are sound after any sequence of commands.       *)
CustomerBooksSound ==
    /\ ReceivablesInRange /\ ReceivableIsItsDocuments /\ CreditNotNegative
    /\ MoneyAndClaimsAddUp /\ ReturnsWithinSale /\ CustomersCorrectedOnce
    /\ CustomerTablesHold /\ CustomerReadsAnswer
=============================================================================
