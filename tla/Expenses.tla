------------------------------ MODULE Expenses ------------------------------
(* Expenses, the payments that settle them and the categories they fall in.  *)
(* An expense is paid when it is recognized, from an account or by the owner, *)
(* or is due and paid later in parts. A command is one transaction: it locks *)
(* the expense and the payment it corrects before it reads them.             *)
EXTENDS Integers, FiniteSets

ExpenseSums == INSTANCE FiniteSetsExt

CONSTANTS
    ExpenseOps,       \* operation identifiers; later payments are told by theirs
    ExpenseIds,       \* identifiers the clients choose
    Categories,
    Blank

VARIABLES
    expenseOps,       \* sync.processed_operations: Blank, or the command and its status
    expenseBooks      \* the rows the commands write

expenseVars == <<expenseOps, expenseBooks>>

(* Facts are what a payment did to the till or to the owner's claim, and the  *)
(* reversals of such facts.                                                   *)
EmptyExpenseBooks ==
    [expenses |-> [i \in ExpenseIds |-> Blank],
     payments |-> {}, facts |-> {},
     archived |-> {}]          \* categories

ExpenseInit ==
    /\ expenseOps = [o \in ExpenseOps |-> Blank]
    /\ expenseBooks = EmptyExpenseBooks

-----------------------------------------------------------------------------
(* What a column of some rows adds up to.                                     *)
SumOf(column, rows) == ExpenseSums!MapThenSumSet(LAMBDA r : r[column], rows)

(* paid_minor and due_minor of the view of an expense.                        *)
PostedPayments(b, i) == {p \in b.payments : p.expense = i /\ p.status = "posted"}
Settled(b, i) == SumOf("amount", PostedPayments(b, i))
IsPosted(b, i) == b.expenses[i] # Blank /\ b.expenses[i].status = "posted"
Due(b, i) == b.expenses[i].amount - Settled(b, i)

(* A payment and its fact: money out of an account, or owed to the owner.     *)
PaymentOf(op, cmd, isRecognition) ==
    [op |-> op, expense |-> cmd.expense, amount |-> cmd.amount, source |-> cmd.source,
     recognition |-> isRecognition, status |-> "posted"]
FactOf(op, cmd) ==
    [op |-> op, reverses |-> Blank,
     money |-> IF cmd.source = "money_account" THEN -cmd.amount ELSE 0,
     owner |-> IF cmd.source = "owner_pocket" THEN cmd.amount ELSE 0]
Reversals(b, op, target) ==
    {[op |-> op, reverses |-> f.op, money |-> -f.money, owner |-> -f.owner] :
        f \in {f \in b.facts : f.op = target /\ f.reverses = Blank}}

-----------------------------------------------------------------------------
(* Recognition. An expense that is due has no source yet.                     *)
IsDue(cmd) == cmd.source = Blank
CategoryUsable(b, c) == c = Blank \/ (c \in Categories /\ c \notin b.archived)

RecognitionAllowed(b, cmd) == CategoryUsable(b, cmd.category) /\ b.expenses[cmd.expense] = Blank
RecognitionWritten(b, cmd) ==
    [b EXCEPT !.expenses[cmd.expense] = [op |-> cmd.op, amount |-> cmd.amount, category |-> cmd.category,
                                         isDue |-> IsDue(cmd), status |-> "posted"],
              !.payments = @ \cup (IF IsDue(cmd) THEN {} ELSE {PaymentOf(cmd.op, cmd, TRUE)}),
              !.facts = @ \cup (IF IsDue(cmd) THEN {} ELSE {FactOf(cmd.op, cmd)})]

(* A later payment: of what is due of an expense recognized as due.           *)
SettlementEligible(b, i) == IsPosted(b, i) /\ b.expenses[i].isDue
PaymentAllowed(b, cmd) == SettlementEligible(b, cmd.expense) /\ cmd.amount <= Due(b, cmd.expense)
PaymentWritten(b, cmd) ==
    [b EXCEPT !.payments = @ \cup {PaymentOf(cmd.op, cmd, FALSE)},
              !.facts = @ \cup {FactOf(cmd.op, cmd)}]

-----------------------------------------------------------------------------
(* Corrections. An edit is corrected through the operation that made it.      *)
IsEdit(cmd) == cmd.kind \in {"expense_edit", "payment_edit"}
IsCorrection(cmd) == IsEdit(cmd) \/ cmd.kind \in {"expense_cancel", "payment_cancel"}
Document(cmd) == IF IsEdit(cmd) THEN cmd.replacement ELSE cmd
IsDone(o) == expenseOps[o] # Blank /\ expenseOps[o].status = "applied"
CorrectionsOf(o) ==
    {r \in ExpenseOps : IsDone(r) /\ IsCorrection(expenseOps[r].command)
                        /\ expenseOps[r].command.target = o}
IsCorrectable(o, kind) ==
    IsDone(o) /\ CorrectionsOf(o) = {} /\ Document(expenseOps[o].command).kind = kind

Target(cmd) == Document(expenseOps[cmd.target].command)
(* A payment is corrected over the one fact it left, not reversed yet.         *)
FundingIntact(b, p) ==
    \E f \in b.facts :
        /\ f.op = p.op /\ f.reverses = Blank
        /\ f.money = (IF p.source = "money_account" THEN -p.amount ELSE 0)
        /\ f.owner = (IF p.source = "owner_pocket" THEN p.amount ELSE 0)
        /\ ~\E r \in b.facts : r.reverses = p.op
LaterPayments(b, i) == {p \in PostedPayments(b, i) : ~p.recognition}

ExpenseCorrectionPaidOrNot(b, cmd) ==
    IsCorrectable(cmd.target, "recognize") /\ IsPosted(b, Target(cmd).expense)
ExpenseCorrectionAllowed(b, cmd) ==
    /\ IsCorrectable(cmd.target, "recognize")
    /\ IsPosted(b, Target(cmd).expense)
    /\ LaterPayments(b, Target(cmd).expense) = {}
    /\ \A p \in PostedPayments(b, Target(cmd).expense) : FundingIntact(b, p)

PaymentsCancelled(b, op, target, payments) ==
    [b EXCEPT !.payments = (@ \ payments) \cup {[p EXCEPT !.status = "cancelled"] : p \in payments},
              !.facts = @ \cup Reversals(b, op, target)]

ExpenseUndone(b, cmd) ==
    LET i == Target(cmd).expense IN
    [PaymentsCancelled(b, cmd.op, cmd.target, PostedPayments(b, i)) EXCEPT !.expenses[i].status = "cancelled"]

PaymentTarget(b, cmd) == {p \in b.payments : p.op = cmd.target /\ ~p.recognition}
PaymentCorrectionAllowed(b, cmd) ==
    /\ IsCorrectable(cmd.target, "pay")
    /\ SettlementEligible(b, Target(cmd).expense)
    /\ \A p \in PaymentTarget(b, cmd) : p.status = "posted" /\ FundingIntact(b, p)
    /\ IsEdit(cmd) => cmd.replacement.expense = Target(cmd).expense
PaymentUndone(b, cmd) == PaymentsCancelled(b, cmd.op, cmd.target, PaymentTarget(b, cmd))

-----------------------------------------------------------------------------
(* What is refused before a transaction: the bodies of the requests.          *)
RecognitionAccepted(cmd) == cmd.amount > 0
ExpensePaymentAccepted(cmd) == cmd.amount > 0 /\ cmd.source \in {"money_account", "owner_pocket"}
ExpenseEditAccepted(cmd) == cmd.replacement.kind = "recognize" /\ RecognitionAccepted(cmd.replacement)
ExpensePaymentEditAccepted(cmd) ==
    cmd.replacement.kind = "pay" /\ ExpensePaymentAccepted(cmd.replacement)

ExpenseAccepted(cmd) ==
    CASE cmd.kind = "recognize" -> RecognitionAccepted(cmd)
      [] cmd.kind = "pay" -> ExpensePaymentAccepted(cmd)
      [] cmd.kind = "expense_edit" -> ExpenseEditAccepted(cmd)
      [] cmd.kind = "payment_edit" -> ExpensePaymentEditAccepted(cmd)
      [] OTHER -> TRUE

-----------------------------------------------------------------------------
(* One action per command. A refusal is recorded under the operation.         *)
SettleExpense(cmd, allowed, books) ==
    /\ expenseOps[cmd.op] = Blank
    /\ expenseOps' = [expenseOps EXCEPT ![cmd.op] =
         [command |-> cmd, status |-> IF allowed THEN "applied" ELSE "rejected"]]
    /\ expenseBooks' = IF allowed THEN books ELSE expenseBooks

RepeatExpense(cmd) == expenseOps[cmd.op] # Blank /\ UNCHANGED expenseVars

RecognizeExpense(cmd) ==
    /\ cmd.kind = "recognize"
    /\ SettleExpense(cmd, RecognitionAllowed(expenseBooks, cmd), RecognitionWritten(expenseBooks, cmd))

PayExpense(cmd) ==
    /\ cmd.kind = "pay"
    /\ SettleExpense(cmd, PaymentAllowed(expenseBooks, cmd), PaymentWritten(expenseBooks, cmd))

CorrectExpense(cmd) ==
    LET undone == ExpenseUndone(expenseBooks, cmd) IN
    /\ cmd.kind \in {"expense_cancel", "expense_edit"}
    /\ SettleExpense(cmd,
         /\ ExpenseCorrectionAllowed(expenseBooks, cmd)
         /\ IsEdit(cmd) => RecognitionAllowed(undone, cmd.replacement),
         IF IsEdit(cmd) THEN RecognitionWritten(undone, cmd.replacement) ELSE undone)

CorrectExpensePayment(cmd) ==
    LET undone == PaymentUndone(expenseBooks, cmd) IN
    /\ cmd.kind \in {"payment_cancel", "payment_edit"}
    /\ SettleExpense(cmd,
         /\ PaymentCorrectionAllowed(expenseBooks, cmd)
         /\ IsEdit(cmd) => PaymentAllowed(undone, cmd.replacement),
         IF IsEdit(cmd) THEN PaymentWritten(undone, cmd.replacement) ELSE undone)

(* A category is archived whether or not expenses fall in it.                 *)
ChangeCategory(cmd) ==
    /\ cmd.kind \in {"archive_category", "restore_category"}
    /\ SettleExpense(cmd, TRUE,
         [expenseBooks EXCEPT !.archived =
            IF cmd.kind = "archive_category" THEN @ \cup {cmd.category} ELSE @ \ {cmd.category}])

ServeExpenses(commands) ==
    \E cmd \in {c \in commands : ExpenseAccepted(c)} :
        \/ RecognizeExpense(cmd) \/ PayExpense(cmd)
        \/ CorrectExpense(cmd) \/ CorrectExpensePayment(cmd)
        \/ ChangeCategory(cmd) \/ RepeatExpense(cmd)

ExpenseSpec(commands) == ExpenseInit /\ [][ServeExpenses(commands)]_expenseVars

(* What a request may hold: its schema knows identifiers, whole amounts and   *)
(* the sources; an edit holds the document that replaces, under its own       *)
(* operation.                                                                 *)
ExpenseDocument(cmd) ==
    /\ cmd.op \in ExpenseOps /\ cmd.expense \in ExpenseIds /\ cmd.amount \in Int
    /\ cmd.source \in {"money_account", "owner_pocket", Blank}
ExpenseRequest(cmd) ==
    /\ cmd.op \in ExpenseOps
    /\ cmd.kind \in {"recognize", "pay"} => ExpenseDocument(cmd)
    /\ IsCorrection(cmd) => cmd.target \in ExpenseOps
    /\ IsEdit(cmd) => ExpenseDocument(cmd.replacement) /\ cmd.replacement.op = cmd.op

(* Nothing is an operation, an expense, or a row of either.                   *)
ExpenseAssumption(commands) ==
    /\ IsFiniteSet(ExpenseOps)
    /\ \A cmd \in commands : ExpenseRequest(cmd)
    /\ Blank \notin ExpenseOps /\ Blank \notin ExpenseIds
    /\ Blank \notin [command : commands, status : {"applied", "rejected"}]
    /\ Blank \notin [op : ExpenseOps, amount : Int, category : Categories \cup {Blank},
                     isDue : BOOLEAN, status : {"posted", "cancelled"}]

-----------------------------------------------------------------------------
(* An expense is never paid beyond its amount; recognized as paid, it is paid *)
(* in full while it stands and by nothing else.                               *)
SettledInRange ==
    \A i \in ExpenseIds : IsPosted(expenseBooks, i) =>
        /\ Due(expenseBooks, i) >= 0
        /\ ~expenseBooks.expenses[i].isDue =>
             Due(expenseBooks, i) = 0 /\ LaterPayments(expenseBooks, i) = {}

(* A cancelled expense has no payment that stands.                            *)
CancelledIsUnpaid ==
    \A i \in ExpenseIds : expenseBooks.expenses[i] # Blank /\ ~IsPosted(expenseBooks, i) =>
        PostedPayments(expenseBooks, i) = {}

(* The facts of the till and of the owner's claim are those of the payments   *)
(* that stand.                                                                *)
FactsFollowPayments ==
    LET posted == {p \in expenseBooks.payments : p.status = "posted"}
        paidBy(source) == SumOf("amount", {p \in posted : p.source = source}) IN
    /\ SumOf("money", expenseBooks.facts) = -paidBy("money_account")
    /\ SumOf("owner", expenseBooks.facts) = paidBy("owner_pocket")
=============================================================================
