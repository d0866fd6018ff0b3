-------------------------- MODULE SupplierAccounts --------------------------
(* What the store owes its suppliers and holds with them: invoices, opening  *)
(* payables, payments, returns, supplier credit, refunds and the corrections *)
(* of each. As in CustomerAccounts a command is one transaction, taken       *)
(* whole: it locks the supplier, then the invoice, before it reads them.     *)
EXTENDS Integers, FiniteSets

LOCAL INSTANCE FiniteSetsExt

CONSTANTS
    Suppliers,
    SupplierOps,      \* operation identifiers
    None

VARIABLES
    supplierOps,      \* sync.processed_operations: None, or the command and its status
    supplierBooks     \* the rows the commands write

supplierVars == <<supplierOps, supplierBooks>>

EmptySupplierBooks ==
    [entries |-> {}, allocations |-> {},
     invoices |-> [o \in SupplierOps |-> None],
     payments |-> [o \in SupplierOps |-> None],
     returns |-> [o \in SupplierOps |-> None],
     moved |-> [o \in SupplierOps |-> 0],     \* money a document moved
     till |-> 0,
     ownerPaid |-> 0,                         \* owner ledger: paid out of the owner's pocket
     archived |-> {}]

SupplierInit ==
    /\ supplierOps = [o \in SupplierOps |-> None]
    /\ supplierBooks = EmptySupplierBooks

-----------------------------------------------------------------------------
(* An entry: the invoice is its source_purchase_invoice_id.                   *)
Entry(op, type, supplier, invoice, payable, credit) ==
    [op |-> op, type |-> type, supplier |-> supplier, invoice |-> invoice,
     payable |-> payable, credit |-> credit, reverses |-> None]

Written(b, op) == {e \in b.entries : e.op = op /\ e.reverses = None}
Reversal(e, op) ==
    [e EXCEPT !.op = op, !.type = "correction", !.payable = -e.payable,
              !.credit = -e.credit, !.reverses = e.op]
IsReversed(b, op) == \E e \in b.entries : e.reverses = op

SumPayable(entries) == MapThenSumSet(LAMBDA e : e.payable, entries)
SumCredit(entries) == MapThenSumSet(LAMBDA e : e.credit, entries)
SumAmount(rows) == MapThenSumSet(LAMBDA r : r.amount, rows)

Payable(b, s) == SumPayable({e \in b.entries : e.supplier = s})
AvailableCredit(b, s) == SumCredit({e \in b.entries : e.supplier = s})

(* Payments are told by their allocations, everything else by entries under   *)
(* the invoice.                                                               *)
AllocatedEver(b, o) == SumAmount({a \in b.allocations : a.target = o})
Allocated(b, o) ==
    SumAmount({a \in b.allocations : a.target = o /\ b.payments[a.payment].status = "posted"})
Obligation(b, o) ==
    IF b.invoices[o] # None THEN SumPayable({e \in b.entries : e.invoice = o})
    ELSE SumPayable({e \in Written(b, o) : e.type = "opening_balance"})
Outstanding(b, o) == Obligation(b, o) - Allocated(b, o)

IsOpenInvoice(b, o) == b.invoices[o] # None /\ b.invoices[o].status = "open"
Openings(b, s) ==
    {o \in SupplierOps : \E e \in Written(b, o) : e.type = "opening_balance" /\ e.supplier = s}
SupplierOf(b, o) == (CHOOSE e \in Written(b, o) : e.type \in {"supplier_invoice", "opening_balance"}).supplier
IsPayable(b, o) ==
    \/ IsOpenInvoice(b, o)
    \/ \E s \in Suppliers : o \in Openings(b, s) /\ ~IsReversed(b, o)

IsActiveSupplier(b, s) == s \in Suppliers /\ s \notin b.archived

-----------------------------------------------------------------------------
(* Invoices and opening payables: an archived supplier still invoices. The    *)
(* first opening balance of a supplier is the only one, though it was         *)
(* cancelled; an edit replaces it.                                            *)
InvoiceAllowed(cmd) == cmd.supplier \in Suppliers
InvoiceWritten(b, cmd, of) ==
    [b EXCEPT !.entries = @ \cup {Entry(cmd.op, "supplier_invoice", cmd.supplier, cmd.op, cmd.amount, 0)},
              !.invoices[cmd.op] = [supplier |-> cmd.supplier, total |-> cmd.amount,
                                    status |-> "open", correctionOf |-> of]]

OpeningAllowed(b, cmd, isOriginal) ==
    /\ cmd.supplier \in Suppliers
    /\ \A o \in Openings(b, cmd.supplier) : ~isOriginal /\ IsReversed(b, o)
OpeningWritten(b, cmd) ==
    [b EXCEPT !.entries = @ \cup {Entry(cmd.op, "opening_balance", cmd.supplier, None, cmd.amount, 0)}]

-----------------------------------------------------------------------------
(* A payment names the obligations it pays, from an account or by the owner.  *)
PaymentAllowed(b, cmd) ==
    /\ cmd.supplier \in Suppliers
    /\ \A a \in cmd.allocations :
         /\ IsPayable(b, a.target) /\ SupplierOf(b, a.target) = cmd.supplier
         /\ a.amount <= Outstanding(b, a.target)

PaymentWritten(b, cmd) ==
    LET fromMoney == IF cmd.source = "money_account" THEN cmd.amount ELSE 0 IN
    [b EXCEPT !.entries = @ \cup {Entry(cmd.op, "payment", cmd.supplier, None, -cmd.amount, 0)},
              !.allocations = @ \cup {[payment |-> cmd.op, target |-> a.target, amount |-> a.amount] :
                                        a \in cmd.allocations},
              !.payments[cmd.op] = [supplier |-> cmd.supplier, amount |-> cmd.amount,
                                    source |-> cmd.source, status |-> "posted"],
              !.moved[cmd.op] = -fromMoney,
              !.till = @ - fromMoney,
              !.ownerPaid = @ + (cmd.amount - fromMoney)]

-----------------------------------------------------------------------------
(* A return lowers what is left of its invoice and becomes credit beyond it.  *)
LeastOf(m, n) == IF m < n THEN m ELSE n
Returned(b, o) ==
    MapThenSumSet(LAMBDA r : b.returns[r].amount,
      {r \in SupplierOps : b.returns[r] # None /\ b.returns[r].invoice = o /\ b.returns[r].status = "posted"})

(* lockInvoice refuses an invoice whose sums are out of range.                *)
InvoiceUsable(b, o, s) ==
    /\ IsOpenInvoice(b, o) /\ b.invoices[o].supplier = s
    /\ Allocated(b, o) <= Obligation(b, o) /\ Obligation(b, o) <= b.invoices[o].total

ReturnAllowed(b, cmd) ==
    /\ IsActiveSupplier(b, cmd.supplier) /\ InvoiceUsable(b, cmd.invoice, cmd.supplier)
    /\ Returned(b, cmd.invoice) + cmd.amount <= b.invoices[cmd.invoice].total

ReturnWritten(b, cmd) ==
    LET reduction == LeastOf(cmd.amount, Outstanding(b, cmd.invoice)) IN
    [b EXCEPT !.entries = @ \cup
                {e \in {Entry(cmd.op, "return", cmd.supplier, cmd.invoice, -reduction, 0),
                        Entry(cmd.op, "credit_created", cmd.supplier, cmd.invoice, 0, cmd.amount - reduction)} :
                   e.payable # 0 \/ e.credit # 0},
              !.returns[cmd.op] = [invoice |-> cmd.invoice, amount |-> cmd.amount,
                                   supplier |-> cmd.supplier, status |-> "posted"]]

(* Credit is applied to an invoice, or paid back by the supplier.             *)
ApplicationAllowed(b, cmd) ==
    /\ IsActiveSupplier(b, cmd.supplier) /\ InvoiceUsable(b, cmd.invoice, cmd.supplier)
    /\ cmd.amount <= AvailableCredit(b, cmd.supplier)
    /\ cmd.amount <= Outstanding(b, cmd.invoice)
ApplicationWritten(b, cmd) ==
    [b EXCEPT !.entries = @ \cup
        {Entry(cmd.op, "credit_used", cmd.supplier, cmd.invoice, -cmd.amount, -cmd.amount)}]

RefundAllowed(b, cmd) ==
    IsActiveSupplier(b, cmd.supplier) /\ cmd.amount <= AvailableCredit(b, cmd.supplier)
RefundWritten(b, cmd) ==
    [b EXCEPT !.entries = @ \cup {Entry(cmd.op, "refund", cmd.supplier, None, 0, -cmd.amount)},
              !.moved[cmd.op] = cmd.amount, !.till = @ + cmd.amount]

-----------------------------------------------------------------------------
(* Corrections. The document an operation left is its own or its replacement. *)
Families == {"invoice", "opening_payable", "payment", "return", "application", "refund"}
IsEdit(cmd) == cmd.kind = "edit"
IsCorrection(cmd) == cmd.kind \in {"edit", "cancel"}
Document(cmd) == IF IsEdit(cmd) THEN cmd.replacement ELSE cmd

IsDone(o) == supplierOps[o] # None /\ supplierOps[o].status = "applied"
Corrections(o) ==
    {r \in SupplierOps : IsDone(r) /\ IsCorrection(supplierOps[r].command)
                         /\ supplierOps[r].command.target = o}
IsCorrectable(o, family) ==
    /\ IsDone(o) /\ Corrections(o) = {}
    /\ supplierOps[o].command.kind # "cancel"
    /\ Document(supplierOps[o].command).kind = family

Undone(b, target, op) ==
    [b EXCEPT !.entries = @ \cup {Reversal(e, op) : e \in Written(b, target)},
              !.till = @ - b.moved[target]]

IsPaid(b, o) == Allocated(b, o) > 0
HasReturnFacts(b, o) ==
    \/ Returned(b, o) > 0
    \/ \E e \in b.entries : e.type = "credit_used" /\ e.invoice = o /\ ~IsReversed(b, e.op)

InvoiceCorrectionAllowed(b, cmd) ==
    /\ IsCorrectable(cmd.target, "invoice")
    /\ IsOpenInvoice(b, cmd.target) /\ ~IsReversed(b, cmd.target)
    /\ ~IsPaid(b, cmd.target) /\ ~HasReturnFacts(b, cmd.target)
InvoiceUndone(b, cmd) ==
    [Undone(b, cmd.target, cmd.op) EXCEPT !.invoices[cmd.target].status = "cancelled"]

OpeningCorrectionAllowed(b, cmd) ==
    /\ IsCorrectable(cmd.target, "opening_payable")
    /\ ~IsReversed(b, cmd.target) /\ ~IsPaid(b, cmd.target)

PaymentCorrectionAllowed(b, cmd) ==
    /\ IsCorrectable(cmd.target, "payment")
    /\ b.payments[cmd.target].status = "posted" /\ ~IsReversed(b, cmd.target)
    /\ IsEdit(cmd) => cmd.replacement.supplier = b.payments[cmd.target].supplier
PaymentUndone(b, cmd) ==
    LET paid == b.payments[cmd.target] IN
    [Undone(b, cmd.target, cmd.op) EXCEPT
       !.payments[cmd.target].status = "cancelled",
       !.ownerPaid = @ - (IF paid.source = "owner_pocket" THEN paid.amount ELSE 0)]

(* Credit a return created must still be there. The invoice of a return or an *)
(* application must still be open.                                            *)
ReturnCorrectionAllowed(b, cmd) ==
    /\ IsCorrectable(cmd.target, "return")
    /\ LET return == b.returns[cmd.target]
           created == SumCredit(Written(b, cmd.target)) IN
       /\ return.status = "posted" /\ InvoiceUsable(b, return.invoice, return.supplier)
       /\ created > 0 => created <= AvailableCredit(b, return.supplier)
ReturnUndone(b, cmd) ==
    [Undone(b, cmd.target, cmd.op) EXCEPT !.returns[cmd.target].status = "cancelled"]

ApplicationCorrectionAllowed(b, cmd) ==
    /\ IsCorrectable(cmd.target, "application")
    /\ ~IsReversed(b, cmd.target)
    /\ \A e \in Written(b, cmd.target) : InvoiceUsable(b, e.invoice, e.supplier)
RefundCorrectionAllowed(b, cmd) ==
    IsCorrectable(cmd.target, "refund") /\ ~IsReversed(b, cmd.target)

(* A replacement of a return is for its invoice, of any of the three for its  *)
(* supplier.                                                                  *)
SupplierReplacement(cmd) ==
    LET old == Document(supplierOps[cmd.target].command) IN
    IF old.kind = "return"
    THEN [cmd.replacement EXCEPT !.supplier = old.supplier, !.invoice = old.invoice]
    ELSE [cmd.replacement EXCEPT !.supplier = old.supplier]

-----------------------------------------------------------------------------
(* What is refused before a transaction: the bodies of the requests. A        *)
(* payment names each obligation once, and all of it is allocated.            *)
InvoiceAccepted(cmd) == cmd.amount > 0
OpeningPayableAccepted(cmd) == cmd.amount > 0
PaymentAccepted(cmd) ==
    /\ cmd.allocations # {} /\ SumAmount(cmd.allocations) = cmd.amount
    /\ \A a \in cmd.allocations :
         a.amount > 0 /\ \A c \in cmd.allocations : c.target = a.target => c = a
ReturnBodyAccepted(cmd) == cmd.amount > 0
ApplicationAccepted(cmd) == cmd.amount > 0
RefundAccepted(cmd) == cmd.amount > 0

InvoiceEditAccepted(cmd) == cmd.replacement.kind = "invoice" /\ InvoiceAccepted(cmd.replacement)
OpeningPayableEditAccepted(cmd) ==
    cmd.replacement.kind = "opening_payable" /\ OpeningPayableAccepted(cmd.replacement)
PaymentEditAccepted(cmd) == cmd.replacement.kind = "payment" /\ PaymentAccepted(cmd.replacement)
SupplierEditAccepted(cmd) == cmd.replacement.kind = cmd.family /\ cmd.replacement.amount > 0

SupplierAccepted(cmd) ==
    CASE cmd.kind = "invoice" -> InvoiceAccepted(cmd)
      [] cmd.kind = "opening_payable" -> OpeningPayableAccepted(cmd)
      [] cmd.kind = "payment" -> PaymentAccepted(cmd)
      [] cmd.kind = "return" -> ReturnBodyAccepted(cmd)
      [] cmd.kind = "application" -> ApplicationAccepted(cmd)
      [] cmd.kind = "refund" -> RefundAccepted(cmd)
      [] cmd.kind = "edit" ->
           (CASE cmd.family = "invoice" -> InvoiceEditAccepted(cmd)
              [] cmd.family = "opening_payable" -> OpeningPayableEditAccepted(cmd)
              [] cmd.family = "payment" -> PaymentEditAccepted(cmd)
              [] OTHER -> SupplierEditAccepted(cmd))
      [] OTHER -> TRUE

-----------------------------------------------------------------------------
(* One action per command. A refusal is recorded under the operation.         *)
SettleSupplier(cmd, allowed, books) ==
    /\ supplierOps[cmd.op] = None
    /\ supplierOps' = [supplierOps EXCEPT ![cmd.op] =
         [command |-> cmd, status |-> IF allowed THEN "applied" ELSE "rejected"]]
    /\ supplierBooks' = IF allowed THEN books ELSE supplierBooks

RepeatSupplier(cmd) == supplierOps[cmd.op] # None /\ UNCHANGED supplierVars

PostInvoice(cmd) ==
    /\ cmd.kind = "invoice"
    /\ SettleSupplier(cmd, InvoiceAllowed(cmd), InvoiceWritten(supplierBooks, cmd, None))
PostOpeningPayable(cmd) ==
    /\ cmd.kind = "opening_payable"
    /\ SettleSupplier(cmd, OpeningAllowed(supplierBooks, cmd, TRUE), OpeningWritten(supplierBooks, cmd))
PostPayment(cmd) ==
    /\ cmd.kind = "payment"
    /\ SettleSupplier(cmd, PaymentAllowed(supplierBooks, cmd), PaymentWritten(supplierBooks, cmd))
PostSupplierReturn(cmd) ==
    /\ cmd.kind = "return"
    /\ SettleSupplier(cmd, ReturnAllowed(supplierBooks, cmd), ReturnWritten(supplierBooks, cmd))
ApplySupplierCredit(cmd) ==
    /\ cmd.kind = "application"
    /\ SettleSupplier(cmd, ApplicationAllowed(supplierBooks, cmd), ApplicationWritten(supplierBooks, cmd))
RecordSupplierRefund(cmd) ==
    /\ cmd.kind = "refund"
    /\ SettleSupplier(cmd, RefundAllowed(supplierBooks, cmd), RefundWritten(supplierBooks, cmd))

(* A correction of each family: what it asks of its target, the books without *)
(* it, and those of an edit with its replacement.                             *)
Corrects(cmd, family) == IsCorrection(cmd) /\ cmd.family = family

CorrectInvoice(cmd) ==
    LET undone == InvoiceUndone(supplierBooks, cmd) IN
    /\ Corrects(cmd, "invoice")
    /\ SettleSupplier(cmd,
         InvoiceCorrectionAllowed(supplierBooks, cmd) /\ (IsEdit(cmd) => InvoiceAllowed(cmd.replacement)),
         IF IsEdit(cmd) THEN InvoiceWritten(undone, cmd.replacement, cmd.target) ELSE undone)
CorrectOpeningPayable(cmd) ==
    LET undone == Undone(supplierBooks, cmd.target, cmd.op) IN
    /\ Corrects(cmd, "opening_payable")
    /\ SettleSupplier(cmd,
         /\ OpeningCorrectionAllowed(supplierBooks, cmd)
         /\ IsEdit(cmd) => OpeningAllowed(undone, cmd.replacement, FALSE),
         IF IsEdit(cmd) THEN OpeningWritten(undone, cmd.replacement) ELSE undone)
CorrectPayment(cmd) ==
    LET undone == PaymentUndone(supplierBooks, cmd) IN
    /\ Corrects(cmd, "payment")
    /\ SettleSupplier(cmd,
         PaymentCorrectionAllowed(supplierBooks, cmd) /\ (IsEdit(cmd) => PaymentAllowed(undone, cmd.replacement)),
         IF IsEdit(cmd) THEN PaymentWritten(undone, cmd.replacement) ELSE undone)
CorrectSupplierReturn(cmd) ==
    LET undone == ReturnUndone(supplierBooks, cmd) IN
    /\ Corrects(cmd, "return")
    /\ SettleSupplier(cmd,
         /\ ReturnCorrectionAllowed(supplierBooks, cmd)
         /\ IsEdit(cmd) => ReturnAllowed(undone, SupplierReplacement(cmd)),
         IF IsEdit(cmd) THEN ReturnWritten(undone, SupplierReplacement(cmd)) ELSE undone)
CorrectApplication(cmd) ==
    LET undone == Undone(supplierBooks, cmd.target, cmd.op) IN
    /\ Corrects(cmd, "application")
    /\ SettleSupplier(cmd,
         /\ ApplicationCorrectionAllowed(supplierBooks, cmd)
         /\ IsEdit(cmd) => ApplicationAllowed(undone, SupplierReplacement(cmd)),
         IF IsEdit(cmd) THEN ApplicationWritten(undone, SupplierReplacement(cmd)) ELSE undone)
CorrectRefund(cmd) ==
    LET undone == Undone(supplierBooks, cmd.target, cmd.op) IN
    /\ Corrects(cmd, "refund")
    /\ SettleSupplier(cmd,
         /\ RefundCorrectionAllowed(supplierBooks, cmd)
         /\ IsEdit(cmd) => RefundAllowed(undone, SupplierReplacement(cmd)),
         IF IsEdit(cmd) THEN RefundWritten(undone, SupplierReplacement(cmd)) ELSE undone)

(* A supplier is archived without balances only.                              *)
ChangeSupplierLifecycle(cmd) ==
    \/ /\ cmd.kind = "archive"
       /\ SettleSupplier(cmd,
            Payable(supplierBooks, cmd.supplier) = 0 /\ AvailableCredit(supplierBooks, cmd.supplier) = 0,
            [supplierBooks EXCEPT !.archived = @ \cup {cmd.supplier}])
    \/ /\ cmd.kind = "restore"
       /\ SettleSupplier(cmd, TRUE, [supplierBooks EXCEPT !.archived = @ \ {cmd.supplier}])

ServeSuppliers(commands) ==
    \E cmd \in {c \in commands : SupplierAccepted(c)} :
        \/ PostInvoice(cmd) \/ PostOpeningPayable(cmd) \/ PostPayment(cmd)
        \/ PostSupplierReturn(cmd) \/ ApplySupplierCredit(cmd) \/ RecordSupplierRefund(cmd)
        \/ CorrectInvoice(cmd) \/ CorrectOpeningPayable(cmd) \/ CorrectPayment(cmd)
        \/ CorrectSupplierReturn(cmd) \/ CorrectApplication(cmd) \/ CorrectRefund(cmd)
        \/ ChangeSupplierLifecycle(cmd) \/ RepeatSupplier(cmd)

-----------------------------------------------------------------------------
(* No obligation is overpaid, and none is owed more than it was entered for.  *)
Payables == {o \in SupplierOps : IsPayable(supplierBooks, o)}
PayablesInRange ==
    \A o \in Payables :
        /\ Outstanding(supplierBooks, o) >= 0
        /\ Obligation(supplierBooks, o) <= SumPayable(Written(supplierBooks, o))

(* What a supplier is owed is what its open obligations are still worth.      *)
PayableIsItsDocuments ==
    \A s \in Suppliers :
        Payable(supplierBooks, s) =
          MapThenSumSet(LAMBDA o : Outstanding(supplierBooks, o),
                        {o \in Payables : SupplierOf(supplierBooks, o) = s})

(* Credit that was used cannot be taken back with the return that made it.    *)
SupplierCreditNotNegative == \A s \in Suppliers : AvailableCredit(supplierBooks, s) >= 0

(* Not more is returned of an invoice than it was for.                        *)
ReturnsWithinInvoice ==
    \A o \in SupplierOps : supplierBooks.invoices[o] # None =>
        Returned(supplierBooks, o) <= supplierBooks.invoices[o].total

(* Money, the owner's claim and the claims of suppliers add up to what the    *)
(* documents that stand are worth.                                            *)
SupplierWorth(o) ==
    LET cmd == supplierOps[o].command
        doc == Document(cmd) IN
    CASE doc.kind \in {"invoice", "opening_payable"} -> doc.amount
      [] doc.kind = "return" -> -doc.amount
      [] OTHER -> 0
MoneyAndPayablesAddUp ==
    SumPayable(supplierBooks.entries) - SumCredit(supplierBooks.entries)
      - supplierBooks.till + supplierBooks.ownerPaid
      = MapThenSumSet(SupplierWorth, {o \in SupplierOps : IsDone(o) /\ Corrections(o) = {}})

(* What the owner paid stands in payments: nothing else moves the claim here. *)
OwnerPaidStands ==
    supplierBooks.ownerPaid =
      MapThenSumSet(LAMBDA p : supplierBooks.payments[p].amount,
        {p \in SupplierOps : supplierBooks.payments[p] # None
           /\ supplierBooks.payments[p].source = "owner_pocket"
           /\ supplierBooks.payments[p].status = "posted"})

(* No document is corrected twice.                                            *)
SuppliersCorrectedOnce == \A o \in SupplierOps : Cardinality(Corrections(o)) <= 1
=============================================================================
