-------------------------- MODULE CustomerAccounts --------------------------
(* What customers owe and are owed: sales, opening receivables, collections, *)
(* customer credit, returns, and the corrections of all of them.             *)
(*                                                                           *)
(* Each command is one transaction, taken whole: it locks the customer, the  *)
(* sale and the rows it corrects before it reads them (LockOrder). Amounts   *)
(* are what the rows of a document add up to; a document has one line, its   *)
(* money goes to one account. A balance is a sum of entries, which are only  *)
(* ever inserted.                                                            *)
EXTENDS Integers, FiniteSets

LOCAL INSTANCE FiniteSetsExt

CONSTANTS
    Customers,
    CustomerOps,      \* operation identifiers; they order documents by occurrence
    CreditLimit,      \* the limit of every customer, under the policy "block"
    None

VARIABLES
    customerOps,      \* sync.processed_operations: None, or the command and its status
    customerBooks,    \* the rows the commands write
    returnable        \* FALSE once the 48 hours of a return have passed

customerVars == <<customerOps, customerBooks, returnable>>

FinancialKinds == {"apply_customer_credit", "refund_customer_credit", "settle_receivable"}
ReceivableTypes == {"sale_credit", "opening_balance"}

(* The books: ledger entries, allocations of payments to opening             *)
(* receivables and sales, and the documents, each under the operation that   *)
(* made it.                                                                  *)
EmptyCustomerBooks ==
    [entries |-> {}, allocations |-> {},
     payments |-> [o \in CustomerOps |-> "absent"],
     sales |-> [o \in CustomerOps |-> None],
     returns |-> [o \in CustomerOps |-> None],
     moved |-> [o \in CustomerOps |-> 0],     \* money a document moved
     till |-> 0,
     archived |-> {}]

CustomerInit ==
    /\ customerOps = [o \in CustomerOps |-> None]
    /\ customerBooks = EmptyCustomerBooks
    /\ returnable = TRUE

-----------------------------------------------------------------------------
(* Entries: the document they are about, source_sale_id, reference_type, and  *)
(* the operation whose entry reversal_of_id points at.                        *)
Entry(op, type, customer, about, sale, ref, receivable, credit) ==
    [op |-> op, type |-> type, customer |-> customer, about |-> about, sale |-> sale,
     ref |-> ref, receivable |-> receivable, credit |-> credit, reverses |-> None]

Written(b, op) == {e \in b.entries : e.op = op /\ e.reverses = None}
Reversal(e, op) ==
    [e EXCEPT !.op = op, !.type = "correction", !.receivable = -e.receivable,
              !.credit = -e.credit, !.reverses = e.op]
IsReversed(b, op) == \E e \in b.entries : e.reverses = op

SumReceivable(entries) == MapThenSumSet(LAMBDA e : e.receivable, entries)
SumCredit(entries) == MapThenSumSet(LAMBDA e : e.credit, entries)
SumAmount(rows) == MapThenSumSet(LAMBDA r : r.amount, rows)

Of(b, k) == {e \in b.entries : e.customer = k}
Receivable(b, k) == SumReceivable(Of(b, k))
Credit(b, k) == SumCredit(Of(b, k))

(* What is left of a receivable: for a sale everything entered under it, for  *)
(* an opening balance the posted payments allocated to it and the entries     *)
(* that refer to it.                                                          *)
SaleOutstanding(b, s) == SumReceivable({e \in b.entries : e.sale = s})
OpeningOutstandingEver(b, o) ==
    SumReceivable({e \in Written(b, o) : e.type = "opening_balance"})
    - SumAmount({a \in b.allocations : a.target = o})
    + SumReceivable({e \in b.entries : e.ref = "opening" /\ e.about = o
                       /\ e.type \in {"credit_used", "settlement", "correction"}})
OpeningOutstanding(b, o) ==
    SumReceivable({e \in Written(b, o) : e.type = "opening_balance"})
    - SumAmount({a \in b.allocations : a.target = o /\ b.payments[a.payment] = "posted"})
    + SumReceivable({e \in b.entries : e.ref = "opening" /\ e.about = o
                       /\ e.type \in {"credit_used", "settlement", "correction"}})

Origins(b, o) == {e \in Written(b, o) : e.type \in ReceivableTypes}
Origin(b, o) == CHOOSE e \in Origins(b, o) : TRUE
IsSalePosted(b, s) == b.sales[s] # None /\ b.sales[s].status = "posted"
IsSaleTarget(b, o) == Origin(b, o).type = "sale_credit"
Outstanding(b, o) ==
    IF IsSaleTarget(b, o) THEN SaleOutstanding(b, o) ELSE OpeningOutstanding(b, o)

(* A target that something can still be allocated to.                         *)
IsActiveTarget(b, o) ==
    /\ Origins(b, o) # {} /\ ~IsReversed(b, o)
    /\ IsSaleTarget(b, o) => IsSalePosted(b, o)

-----------------------------------------------------------------------------
(* Settlement plans: sets of a target and an amount. First in, first out,     *)
(* each target gets what the ones before it leave of the amount.              *)
LeastOf(m, n) == IF m < n THEN m ELSE n

FifoTargets(b, k) ==
    {o \in CustomerOps : IsActiveTarget(b, o) /\ Origin(b, o).customer = k /\ Outstanding(b, o) > 0}
FifoPlan(b, k, amount) ==
    LET open == FifoTargets(b, k)
        before(o) == MapThenSumSet(LAMBDA p : Outstanding(b, p), {p \in open : p < o})
        reached == {o \in open : before(o) < amount} IN
    {[target |-> o, amount |-> LeastOf(Outstanding(b, o), amount - before(o))] : o \in reached}

CustomAllowed(b, k, allocations) ==
    \A a \in allocations :
        /\ IsActiveTarget(b, a.target) /\ Origin(b, a.target).customer = k
        /\ a.amount <= Outstanding(b, a.target)

(* A command names its allocations, or leaves them to the order of the debts. *)
Plan(b, cmd) ==
    IF cmd.mode = "custom" THEN cmd.allocations ELSE FifoPlan(b, cmd.customer, cmd.amount)
PlanAllowed(b, cmd) == cmd.mode = "custom" => CustomAllowed(b, cmd.customer, cmd.allocations)

IsActiveCustomer(b, k) == k \in Customers /\ k \notin b.archived

-----------------------------------------------------------------------------
(* Sales and opening receivables. A sale is paid in money, with customer      *)
(* credit, or not yet.                                                        *)
OnCredit(cmd) == cmd.total - cmd.money - cmd.credit

WithinLimit(b, cmd) ==
    Receivable(b, cmd.customer) - Credit(b, cmd.customer) + cmd.credit + OnCredit(cmd)
      <= CreditLimit

SaleAllowed(b, cmd) ==
    /\ cmd.customer # None => IsActiveCustomer(b, cmd.customer)
    /\ cmd.credit > 0 => cmd.credit <= Credit(b, cmd.customer)
    /\ OnCredit(cmd) > 0 => WithinLimit(b, cmd)

CreditApplication(cmd) ==
    Entry(cmd.op, "credit_used", cmd.customer, cmd.op, cmd.op, "sale", 0, -cmd.credit)
SaleReceivable(cmd) ==
    Entry(cmd.op, "sale_credit", cmd.customer, cmd.op, cmd.op, "sale", OnCredit(cmd), 0)

SaleWritten(b, cmd, of) ==
    [b EXCEPT !.entries = @ \cup (IF cmd.credit > 0 THEN {CreditApplication(cmd)} ELSE {})
                            \cup (IF OnCredit(cmd) > 0 THEN {SaleReceivable(cmd)} ELSE {}),
              !.sales[cmd.op] = [customer |-> cmd.customer, units |-> cmd.units,
                                 total |-> cmd.total, credit |-> cmd.credit,
                                 status |-> "posted", correctionOf |-> of],
              !.moved[cmd.op] = cmd.money,
              !.till = @ + cmd.money]

OpeningWritten(b, cmd) ==
    [b EXCEPT !.entries = @ \cup
        {Entry(cmd.op, "opening_balance", cmd.customer, cmd.op, None, "opening", cmd.amount, 0)}]

-----------------------------------------------------------------------------
(* Collections. What the plan leaves over is kept as credit or paid back.     *)
CollectionPlan(b, cmd) == IF cmd.intent = "customer_advance" THEN {} ELSE Plan(b, cmd)
Excess(b, cmd) == cmd.amount - SumAmount(CollectionPlan(b, cmd))

CollectionAllowed(b, cmd) ==
    /\ IsActiveCustomer(b, cmd.customer)
    /\ cmd.intent = "collect_receivable" =>
         /\ PlanAllowed(b, cmd) /\ CollectionPlan(b, cmd) # {}
         /\ (Excess(b, cmd) > 0) <=> (cmd.overpayment # None)

(* An allocation and its entry. The entry refers to the payment: only its     *)
(* allocation tells the opening receivable it pays.                           *)
AllocationMatrix(b, cmd) ==
    {[payment |-> cmd.op, target |-> p.target, amount |-> p.amount] : p \in CollectionPlan(b, cmd)}
PaymentEntries(b, cmd) ==
    {Entry(cmd.op, "payment", cmd.customer, p.target,
           IF IsSaleTarget(b, p.target) THEN p.target ELSE None, "payment", -p.amount, 0) :
        p \in CollectionPlan(b, cmd)}
CreditCreated(b, cmd) ==
    IF Excess(b, cmd) = 0 THEN {}
    ELSE {Entry(cmd.op, "credit_created", cmd.customer, cmd.op, None, "payment", 0, Excess(b, cmd))}
ExcessRefund(b, cmd) ==
    IF cmd.overpayment # "refund_excess" THEN {}
    ELSE {Entry(cmd.op, "refund", cmd.customer, cmd.op, None, "refund", 0, -Excess(b, cmd))}
Collected(b, cmd) ==
    cmd.amount - (IF cmd.overpayment = "refund_excess" THEN Excess(b, cmd) ELSE 0)

CollectionWritten(b, cmd) ==
    [b EXCEPT !.entries = @ \cup PaymentEntries(b, cmd) \cup CreditCreated(b, cmd)
                            \cup ExcessRefund(b, cmd),
              !.allocations = @ \cup AllocationMatrix(b, cmd),
              !.payments[cmd.op] = "posted",
              !.moved[cmd.op] = Collected(b, cmd),
              !.till = @ + Collected(b, cmd)]

-----------------------------------------------------------------------------
(* Credit is applied to receivables or paid out; receivables are written off. *)
FinancialAllowed(b, cmd) ==
    /\ IsActiveCustomer(b, cmd.customer)
    /\ cmd.kind # "settle_receivable" => cmd.amount <= Credit(b, cmd.customer)
    /\ cmd.kind # "refund_customer_credit" =>
         PlanAllowed(b, cmd) /\ SumAmount(Plan(b, cmd)) = cmd.amount

CreditRefund(cmd) ==
    {Entry(cmd.op, "refund", cmd.customer, cmd.op, None, "refund", 0, -cmd.amount)}
TargetedEffects(b, cmd) ==
    {LET onSale == IsSaleTarget(b, p.target) IN
     Entry(cmd.op, IF cmd.kind = "apply_customer_credit" THEN "credit_used" ELSE "settlement",
           cmd.customer, p.target, IF onSale THEN p.target ELSE None,
           IF onSale THEN "sale" ELSE "opening", -p.amount,
           IF cmd.kind = "apply_customer_credit" THEN -p.amount ELSE 0) : p \in Plan(b, cmd)}

FinancialWritten(b, cmd) ==
    IF cmd.kind = "refund_customer_credit"
    THEN [b EXCEPT !.entries = @ \cup CreditRefund(cmd),
                   !.moved[cmd.op] = -cmd.amount, !.till = @ - cmd.amount]
    ELSE [b EXCEPT !.entries = @ \cup TargetedEffects(b, cmd)]

-----------------------------------------------------------------------------
(* Returns. The value of the units returned so far is rounded down; a return  *)
(* takes the difference to what was returned before, in posted returns.       *)
PostedReturns(b, s) ==
    {r \in CustomerOps : b.returns[r] # None /\ b.returns[r].sale = s /\ b.returns[r].status = "posted"}
ReturnedUnits(b, s) == MapThenSumSet(LAMBDA r : b.returns[r].units, PostedReturns(b, s))
RestoredCredit(b, s) == MapThenSumSet(LAMBDA r : b.returns[r].restored, PostedReturns(b, s))
CumulativeValue(sale, units) == (sale.total * units) \div sale.units

ReturnValue(b, cmd) ==
    LET before == ReturnedUnits(b, cmd.sale) IN
    CumulativeValue(b.sales[cmd.sale], before + cmd.units) - CumulativeValue(b.sales[cmd.sale], before)

(* It lowers the receivable, then gives back the credit the sale was paid     *)
(* with; the residual is refunded or becomes new credit.                      *)
Settlement(b, cmd) ==
    LET sale == b.sales[cmd.sale]
        value == ReturnValue(b, cmd)
        reduction == LeastOf(value, IF sale.customer = None THEN 0 ELSE SaleOutstanding(b, cmd.sale))
        restored == LeastOf(value - reduction, sale.credit - RestoredCredit(b, cmd.sale)) IN
    [value |-> value, reduction |-> reduction, restored |-> restored,
     residual |-> value - reduction - restored]

ReturnAllowed(b, cmd, inTime) ==
    /\ IsSalePosted(b, cmd.sale) /\ inTime
    /\ ReturnedUnits(b, cmd.sale) + cmd.units <= b.sales[cmd.sale].units
    /\ (Settlement(b, cmd).residual > 0) <=> (cmd.residual # None)
    /\ cmd.residual = "KEEP_AS_CUSTOMER_CREDIT" => IsActiveCustomer(b, b.sales[cmd.sale].customer)

ReturnEntries(b, cmd) ==
    LET plan == Settlement(b, cmd)
        effect(type, ref, receivable, credit) ==
          Entry(cmd.op, type, b.sales[cmd.sale].customer, cmd.sale, cmd.sale, ref, receivable, credit) IN
    {e \in {effect("return", "sale_return", -plan.reduction, 0),
            effect("credit_created", "sale_return_original_credit_restoration", 0, plan.restored),
            effect("credit_created", "sale_return", 0,
                   IF cmd.residual = "KEEP_AS_CUSTOMER_CREDIT" THEN plan.residual ELSE 0)} :
       e.receivable # 0 \/ e.credit # 0}

ReturnWritten(b, cmd) ==
    LET plan == Settlement(b, cmd)
        refund == IF cmd.residual = "REFUND" THEN plan.residual ELSE 0 IN
    [b EXCEPT !.entries = @ \cup ReturnEntries(b, cmd),
              !.returns[cmd.op] = [sale |-> cmd.sale, units |-> cmd.units, total |-> plan.value,
                                   restored |-> plan.restored, status |-> "posted"],
              !.moved[cmd.op] = -refund, !.till = @ - refund]

-----------------------------------------------------------------------------
(* Corrections reverse what their target wrote, in full; an edit then posts a *)
(* replacement on the books the reversal leaves.                              *)
Undone(b, target, op) ==
    [b EXCEPT !.entries = @ \cup {Reversal(e, op) : e \in Written(b, target)},
              !.till = @ - b.moved[target]]
CreatedCredit(b, target) == SumCredit(Written(b, target))

(* The document an operation left: its own, or its replacement.               *)
IsEdit(cmd) == cmd.kind \in {"financial_edit", "sale_edit", "return_replace"}
IsCorrection(cmd) ==
    IsEdit(cmd) \/ cmd.kind \in {"financial_cancel", "sale_cancel", "return_cancel"}
Document(cmd) == IF IsEdit(cmd) THEN cmd.replacement ELSE cmd
IsDone(o) == customerOps[o] # None /\ customerOps[o].status = "applied"
Corrections(o) ==
    {r \in CustomerOps : IsDone(r) /\ IsCorrection(customerOps[r].command)
                         /\ customerOps[r].command.target = o}
IsCorrectable(o, kinds) ==
    /\ IsDone(o) /\ Corrections(o) = {}
    /\ ~(IsCorrection(customerOps[o].command) /\ ~IsEdit(customerOps[o].command))
    /\ Document(customerOps[o].command).kind \in kinds

FinancialCorrectionAllowed(b, cmd) ==
    /\ IsCorrectable(cmd.target, {"collection"} \cup FinancialKinds)
    /\ LET doc == Document(customerOps[cmd.target].command)
           created == CreatedCredit(b, cmd.target) IN
       /\ IsEdit(cmd) => /\ cmd.replacement.kind = doc.kind
                         /\ cmd.replacement.customer = doc.customer
                         /\ IsActiveCustomer(b, doc.customer)
       /\ doc.kind = "collection" => b.payments[cmd.target] = "posted"
       /\ ~IsReversed(b, cmd.target)
       /\ created > 0 => created <= Credit(b, doc.customer)

FinancialUndone(b, cmd) ==
    [Undone(b, cmd.target, cmd.op) EXCEPT
       !.payments[cmd.target] = IF @ = "posted" THEN "cancelled" ELSE @]

FinancialReplacementAllowed(b, cmd) ==
    IF cmd.kind = "collection" THEN CollectionAllowed(b, cmd) ELSE FinancialAllowed(b, cmd)
FinancialReplacementWritten(b, cmd) ==
    IF cmd.kind = "collection" THEN CollectionWritten(b, cmd) ELSE FinancialWritten(b, cmd)

(* A sale anything else was entered under stays as it is, even when that was  *)
(* taken back since.                                                          *)
HasDependents(b, s) ==
    \/ \E e \in b.entries : e.sale = s /\ e \notin Written(b, s)
    \/ \E a \in b.allocations : a.target = s
    \/ \E r \in CustomerOps : b.returns[r] # None /\ b.returns[r].sale = s

SaleCorrectionAllowed(b, cmd) ==
    /\ IsCorrectable(cmd.target, {"sale"})
    /\ IsSalePosted(b, cmd.target) /\ ~HasDependents(b, cmd.target)

SaleUndone(b, cmd) ==
    [Undone(b, cmd.target, cmd.op) EXCEPT
       !.sales[cmd.target].status = IF IsEdit(cmd) THEN "corrected" ELSE "cancelled"]

ReturnCorrectionAllowed(b, cmd) ==
    /\ IsCorrectable(cmd.target, {"sale_return"})
    /\ LET return == b.returns[cmd.target]
           created == {e \in Written(b, cmd.target) : e.credit > 0} IN
       /\ return.status = "posted" /\ IsSalePosted(b, return.sale)
       /\ ~IsReversed(b, cmd.target)
       /\ created # {} => SumCredit(created) <= Credit(b, b.sales[return.sale].customer)

ReturnUndone(b, cmd) ==
    [Undone(b, cmd.target, cmd.op) EXCEPT !.returns[cmd.target].status = "cancelled"]

(* A replacement is for the sale of its target; after the 48 hours it may     *)
(* only take less back.                                                       *)
ReturnReplacement(cmd) ==
    [cmd.replacement EXCEPT !.sale = customerBooks.returns[cmd.target].sale]
ReturnReplacementAllowed(b, cmd, old) ==
    /\ ReturnAllowed(b, cmd, TRUE)
    /\ ~returnable => cmd.units <= old.units /\ ReturnValue(b, cmd) <= old.total

-----------------------------------------------------------------------------
(* What the parsers of the requests let through; nothing is recorded of the   *)
(* others. A sale without a customer is paid in full, in money.               *)
SaleAccepted(cmd) ==
    /\ cmd.total > 0 /\ OnCredit(cmd) >= 0
    /\ (cmd.credit > 0 \/ OnCredit(cmd) > 0) => cmd.customer # None

OpeningAccepted(cmd) == cmd.amount > 0

(* Targets named one by one are distinct, and what they get in sum.           *)
NamesEachOnce(allocations) ==
    /\ \A a \in allocations : a.amount > 0
    /\ \A a, c \in allocations : a.target = c.target => a = c
CollectionAccepted(cmd) ==
    cmd.mode = "custom" =>
        /\ NamesEachOnce(cmd.allocations)
        /\ SumAmount(cmd.allocations) <= cmd.amount
        /\ cmd.overpayment = None => SumAmount(cmd.allocations) = cmd.amount
TargetedAccepted(cmd) ==
    cmd.mode = "custom" =>
        NamesEachOnce(cmd.allocations) /\ SumAmount(cmd.allocations) = cmd.amount

FinancialReplacementAccepted(cmd) ==
    IF cmd.kind = "collection" THEN CollectionAccepted(cmd) ELSE TargetedAccepted(cmd)
ReturnAccepted(cmd) == cmd.units > 0

(* A replacement is parsed as the document it is, under the correction's own  *)
(* operation and time.                                                        *)
Accepted(cmd) ==
    CASE cmd.kind = "sale" -> SaleAccepted(cmd)
      [] cmd.kind = "opening_receivable" -> OpeningAccepted(cmd)
      [] cmd.kind = "collection" -> CollectionAccepted(cmd)
      [] cmd.kind \in FinancialKinds -> TargetedAccepted(cmd)
      [] cmd.kind = "sale_return" -> ReturnAccepted(cmd)
      [] cmd.kind = "sale_edit" -> SaleAccepted(cmd.replacement)
      [] cmd.kind = "return_replace" -> ReturnAccepted(cmd.replacement)
      [] cmd.kind = "financial_edit" -> FinancialReplacementAccepted(cmd.replacement)
      [] OTHER -> TRUE

-----------------------------------------------------------------------------
(* One action per command. A refusal is recorded under the operation.         *)
Settle(cmd, allowed, books) ==
    /\ customerOps[cmd.op] = None
    /\ customerOps' = [customerOps EXCEPT ![cmd.op] =
         [command |-> cmd, status |-> IF allowed THEN "applied" ELSE "rejected"]]
    /\ customerBooks' = IF allowed THEN books ELSE customerBooks
    /\ UNCHANGED returnable

(* A recorded operation is answered from its record.                          *)
RepeatCustomer(cmd) == customerOps[cmd.op] # None /\ UNCHANGED customerVars

PostSale(cmd) ==
    /\ cmd.kind = "sale"
    /\ Settle(cmd, SaleAllowed(customerBooks, cmd), SaleWritten(customerBooks, cmd, None))

PostOpeningReceivable(cmd) ==
    /\ cmd.kind = "opening_receivable"
    /\ Settle(cmd, IsActiveCustomer(customerBooks, cmd.customer), OpeningWritten(customerBooks, cmd))

PostCollection(cmd) ==
    /\ cmd.kind = "collection"
    /\ Settle(cmd, CollectionAllowed(customerBooks, cmd), CollectionWritten(customerBooks, cmd))

PostFinancial(cmd) ==
    /\ cmd.kind \in FinancialKinds
    /\ Settle(cmd, FinancialAllowed(customerBooks, cmd), FinancialWritten(customerBooks, cmd))

CorrectFinancial(cmd) ==
    LET undone == FinancialUndone(customerBooks, cmd) IN
    /\ cmd.kind \in {"financial_cancel", "financial_edit"}
    /\ Settle(cmd,
              /\ FinancialCorrectionAllowed(customerBooks, cmd)
              /\ IsEdit(cmd) => FinancialReplacementAllowed(undone, cmd.replacement),
              IF IsEdit(cmd) THEN FinancialReplacementWritten(undone, cmd.replacement) ELSE undone)

CorrectSale(cmd) ==
    LET undone == SaleUndone(customerBooks, cmd) IN
    /\ cmd.kind \in {"sale_cancel", "sale_edit"}
    /\ Settle(cmd,
              /\ SaleCorrectionAllowed(customerBooks, cmd)
              /\ IsEdit(cmd) => SaleAllowed(undone, cmd.replacement),
              IF IsEdit(cmd) THEN SaleWritten(undone, cmd.replacement, cmd.target) ELSE undone)

PostReturn(cmd) ==
    /\ cmd.kind = "sale_return"
    /\ Settle(cmd, ReturnAllowed(customerBooks, cmd, returnable), ReturnWritten(customerBooks, cmd))

CorrectReturn(cmd) ==
    LET undone == ReturnUndone(customerBooks, cmd) IN
    /\ cmd.kind \in {"return_cancel", "return_replace"}
    /\ Settle(cmd,
              /\ ReturnCorrectionAllowed(customerBooks, cmd)
              /\ IsEdit(cmd) => ReturnReplacementAllowed(undone, ReturnReplacement(cmd),
                                                         customerBooks.returns[cmd.target]),
              IF IsEdit(cmd) THEN ReturnWritten(undone, ReturnReplacement(cmd)) ELSE undone)

(* A customer is archived without balances only.                              *)
HasNoBalance(b, k) == Receivable(b, k) = 0 /\ Credit(b, k) = 0
ArchiveCustomer(cmd) ==
    LET archived == customerBooks.archived IN
    /\ cmd.kind \in {"archive_customer", "restore_customer"}
    /\ IF cmd.kind = "archive_customer"
       THEN Settle(cmd, cmd.customer \notin archived /\ HasNoBalance(customerBooks, cmd.customer),
                   [customerBooks EXCEPT !.archived = @ \cup {cmd.customer}])
       ELSE Settle(cmd, cmd.customer \in archived,
                   [customerBooks EXCEPT !.archived = @ \ {cmd.customer}])

ReturnWindowPasses ==
    /\ returnable /\ returnable' = FALSE
    /\ UNCHANGED <<customerOps, customerBooks>>

ServeCustomers(commands) ==
    \/ \E cmd \in {c \in commands : Accepted(c)} :
         \/ PostSale(cmd) \/ PostOpeningReceivable(cmd) \/ PostCollection(cmd) \/ PostFinancial(cmd)
         \/ PostReturn(cmd)
         \/ CorrectFinancial(cmd) \/ CorrectSale(cmd) \/ CorrectReturn(cmd)
         \/ ArchiveCustomer(cmd) \/ RepeatCustomer(cmd)
    \/ ReturnWindowPasses

-----------------------------------------------------------------------------
(* No receivable is overpaid, and none is owed more than was sold.            *)
ActiveTargets == {o \in CustomerOps : IsActiveTarget(customerBooks, o)}
ReceivablesInRange ==
    \A o \in ActiveTargets :
        /\ Outstanding(customerBooks, o) >= 0
        /\ Outstanding(customerBooks, o) <= Origin(customerBooks, o).receivable

(* The customer owes what the open documents say, whichever of the two        *)
(* formulas each of them is read with.                                        *)
ReceivableIsItsDocuments ==
    \A k \in Customers :
        Receivable(customerBooks, k) =
          MapThenSumSet(LAMBDA o : Outstanding(customerBooks, o),
                        {o \in ActiveTargets : Origin(customerBooks, o).customer = k})

(* Credit that was spent cannot be taken back by correcting what created it.  *)
CreditNotNegative == \A k \in Customers : Credit(customerBooks, k) >= 0

(* Money and claims add up to what the documents that stand are worth.        *)
StandingOps == {o \in CustomerOps : IsDone(o) /\ Corrections(o) = {}}
WorthOf(o) ==
    LET cmd == customerOps[o].command
        doc == Document(cmd) IN
    CASE IsCorrection(cmd) /\ ~IsEdit(cmd) -> 0
      [] doc.kind = "sale" -> doc.total
      [] doc.kind = "opening_receivable" -> doc.amount
      [] doc.kind = "settle_receivable" -> -doc.amount
      [] doc.kind = "sale_return" -> -customerBooks.returns[o].total
      [] OTHER -> 0
MoneyAndClaimsAddUp ==
    customerBooks.till + SumReceivable(customerBooks.entries) - SumCredit(customerBooks.entries)
      = MapThenSumSet(WorthOf, StandingOps)

(* Never more units come back than were sold, nor more of the customer's      *)
(* credit than the sale used.                                                 *)
ReturnsWithinSale ==
    \A s \in CustomerOps : customerBooks.sales[s] # None =>
        /\ ReturnedUnits(customerBooks, s) <= customerBooks.sales[s].units
        /\ RestoredCredit(customerBooks, s) <= customerBooks.sales[s].credit

(* No document is corrected twice.                                            *)
CustomersCorrectedOnce == \A o \in CustomerOps : Cardinality(Corrections(o)) <= 1

(* What is taken back of a sale is never worth more than the sale.            *)
ReturnsWithinValue ==
    \A s \in CustomerOps : customerBooks.sales[s] # None =>
        MapThenSumSet(LAMBDA r : customerBooks.returns[r].total, PostedReturns(customerBooks, s))
          <= customerBooks.sales[s].total
=============================================================================
