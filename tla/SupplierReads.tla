---------------------------- MODULE SupplierReads ----------------------------
(* What the tables of the suppliers' books demand of their rows, and what the *)
(* reads of invoices, payments and opening payables check before they answer. *)
EXTENDS SupplierAccounts

LOCAL INSTANCE FiniteSetsExt

Invoices == {o \in SupplierOps : supplierBooks.invoices[o] # None}
Payments == {o \in SupplierOps : supplierBooks.payments[o] # None}
SupplierReturns == {o \in SupplierOps : supplierBooks.returns[o] # None}
AllocationsOf(p) == {a \in supplierBooks.allocations : a.payment = p}

-----------------------------------------------------------------------------
(* The tables.                                                                *)
PurchaseInvoiceRows ==
    \A o \in Invoices :
        LET invoice == supplierBooks.invoices[o] IN
        /\ invoice.total >= 0 /\ invoice.supplier \in Suppliers
        /\ invoice.status \in {"draft", "open", "closed", "cancelled"}
        /\ invoice.correctionOf # None => invoice.correctionOf \in Invoices

(* A payment is wholly allocated, and its money came from where it says.      *)
SupplierPaymentRows ==
    \A p \in Payments :
        LET payment == supplierBooks.payments[p] IN
        /\ payment.amount > 0
        /\ payment.status = "posted" => SumAmount(AllocationsOf(p)) = payment.amount
        /\ supplierBooks.moved[p] = (IF payment.source = "money_account" THEN -payment.amount ELSE 0)

SupplierLedgerTypes ==
    {"supplier_invoice", "goods_receipt", "payment", "return", "opening_balance",
     "credit_created", "credit_used", "refund", "correction"}
SupplierLedgerRows ==
    \A e \in supplierBooks.entries :
        /\ e.type \in SupplierLedgerTypes /\ e.supplier \in Suppliers
        /\ e.payable # 0 \/ e.credit # 0
        /\ e.invoice # None => e.invoice \in Invoices

SupplierAllocationRows ==
    \A a \in supplierBooks.allocations :
        /\ a.amount > 0
        /\ a.target \in Invoices \/ \E s \in Suppliers : a.target \in Openings(supplierBooks, s)
        /\ \A c \in AllocationsOf(a.payment) : c.target = a.target => c = a

SupplierReturnRows ==
    \A r \in SupplierReturns :
        LET return == supplierBooks.returns[r] IN
        /\ return.amount >= 0 /\ return.invoice \in Invoices /\ return.supplier \in Suppliers

(* What a return settled, by lowering the payable or as credit.               *)
SettledBy(e) == e.credit - e.payable
SupplierSettlementRows ==
    \A r \in SupplierReturns :
        /\ \A e \in Written(supplierBooks, r) : SettledBy(e) > 0
        /\ MapThenSumSet(SettledBy, Written(supplierBooks, r)) = supplierBooks.returns[r].amount

SupplierTablesHold ==
    /\ PurchaseInvoiceRows /\ SupplierPaymentRows /\ SupplierLedgerRows
    /\ SupplierAllocationRows /\ SupplierReturnRows /\ SupplierSettlementRows

-----------------------------------------------------------------------------
(* The reads. An obligation and what was paid of it have to agree.            *)
SettlementState(obligation, paid) ==
    CASE obligation = 0 -> None
      [] obligation # 0 /\ paid = 0 -> "UNPAID"
      [] obligation # 0 /\ paid = obligation -> "PAID"
      [] OTHER -> "PARTIALLY_PAID"
SettlementReads(obligation, paid) == 0 <= paid /\ paid <= obligation

InvoiceReads(o) == SettlementReads(Obligation(supplierBooks, o), Allocated(supplierBooks, o))

(* An edited invoice is shown as replaced by the first that corrects it: one. *)
ReplacedBy(o) == {c \in Invoices : supplierBooks.invoices[c].correctionOf = o}
InvoiceDetailReads(o) ==
    /\ InvoiceReads(o)
    /\ Cardinality(ReplacedBy(o)) <= 1
    /\ ReplacedBy(o) # {} => supplierBooks.invoices[o].status = "cancelled"

ActiveOpenings(s) == {o \in Openings(supplierBooks, s) : ~IsReversed(supplierBooks, o)}
OpeningPayableReads(s) ==
    /\ Cardinality(ActiveOpenings(s)) <= 1
    /\ \A o \in ActiveOpenings(s) :
         LET amount == Obligation(supplierBooks, o)
             paid == Allocated(supplierBooks, o) IN
         SettlementReads(amount, paid) /\ SettlementState(amount, paid) # None

(* The balance shown of a supplier is what its invoices and opening payable   *)
(* show as outstanding.                                                       *)
FinancialPageReads(s) ==
    Payable(supplierBooks, s) =
      MapThenSumSet(LAMBDA o : Outstanding(supplierBooks, o),
        {o \in Invoices : supplierBooks.invoices[o].supplier = s} \cup ActiveOpenings(s))

(* Each allocation is of one invoice or of one opening payable, and of the    *)
(* supplier who was paid.                                                     *)
PaymentAllocationReads(a) ==
    /\ (a.target \in Invoices) # (\E s \in Suppliers : a.target \in Openings(supplierBooks, s))
    /\ SupplierOf(supplierBooks, a.target) = supplierBooks.payments[a.payment].supplier
PaymentDetailReads(p) == \A a \in AllocationsOf(p) : PaymentAllocationReads(a)

(* The returns of a supplier and what became of their credit. Each row must   *)
(* agree with the command that wrote it, and stand exactly if no correction   *)
(* in the operations names it.                                                *)
Snapshot(o) == IF IsEdit(supplierOps[o].command) THEN SupplierReplacement(supplierOps[o].command)
               ELSE supplierOps[o].command
IsActive(o) == Corrections(o) = {}
WrittenAs(o, type) == {e \in Written(supplierBooks, o) : e.type = type}

ReturnReads(r) ==
    LET return == supplierBooks.returns[r] IN
    /\ SumCredit(WrittenAs(r, "credit_created")) - SumPayable(WrittenAs(r, "return")) = return.amount
    /\ Snapshot(r).invoice = return.invoice /\ Snapshot(r).amount = return.amount
    /\ IsActive(r) <=> return.status = "posted"
ApplicationReads(e) ==
    /\ Snapshot(e.op).invoice = e.invoice /\ Snapshot(e.op).amount = -e.credit
    /\ IsActive(e.op) <=> ~IsReversed(supplierBooks, e.op)
RefundReads(e) ==
    /\ Snapshot(e.op).amount = -e.credit /\ supplierBooks.moved[e.op] = -e.credit
    /\ IsActive(e.op) <=> ~IsReversed(supplierBooks, e.op)

Replaced == {o \in SupplierOps : IsDone(o) /\ IsEdit(supplierOps[o].command)}
LineageReads ==
    \A o \in SupplierOps :
        /\ Cardinality(Corrections(o)) <= 1
        /\ o \in Replaced => Corrections(supplierOps[o].command.target) = {o}

FinancialReturnsRead(s) ==
    /\ Payable(supplierBooks, s) >= 0 /\ AvailableCredit(supplierBooks, s) >= 0
    /\ \A r \in SupplierReturns : supplierBooks.returns[r].supplier = s => ReturnReads(r)
    /\ \A o \in SupplierOps :
         /\ \A e \in WrittenAs(o, "credit_used") : e.supplier = s => ApplicationReads(e)
         /\ \A e \in WrittenAs(o, "refund") : e.supplier = s => RefundReads(e)

SupplierReadsAnswer ==
    /\ LineageReads /\ \A s \in Suppliers : FinancialReturnsRead(s)
    /\ \A o \in Invoices : InvoiceDetailReads(o)
    /\ \A s \in Suppliers : OpeningPayableReads(s) /\ FinancialPageReads(s)
    /\ \A p \in Payments : PaymentDetailReads(p)

-----------------------------------------------------------------------------
(* The books of the suppliers are sound after any sequence of commands: the   *)
(* claims add up, the tables take the rows, and no read fails over them.      *)
SupplierBooksSound ==
    /\ PayablesInRange /\ PayableIsItsDocuments /\ SupplierCreditNotNegative
    /\ ReturnsWithinInvoice /\ MoneyAndPayablesAddUp /\ OwnerPaidStands /\ SuppliersCorrectedOnce
    /\ SupplierTablesHold /\ SupplierReadsAnswer
=============================================================================
