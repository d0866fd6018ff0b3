----------------------------- MODULE ExpenseReads -----------------------------
(* What the tables of the expenses demand of their rows, and what is told of  *)
(* an expense and of its payments: how it was funded, what was settled, and   *)
(* what stands for it after corrections.                                      *)
EXTENDS Expenses

Recognized == {i \in ExpenseIds : expenseBooks.expenses[i] # Blank}

-----------------------------------------------------------------------------
(* The tables.                                                                *)
ExpenseRows ==
    \A i \in Recognized :
        LET expense == expenseBooks.expenses[i] IN
        /\ expense.amount > 0 /\ expense.status \in {"draft", "posted", "cancelled"}
        /\ expense.category # Blank => expense.category \in Categories
        /\ expense.status = "posted" /\ ~expense.isDue => Settled(expenseBooks, i) = expense.amount

(* A payment that was posted has the one fact its source asks for.            *)
FactsOf(p) == {f \in expenseBooks.facts : f.op = p.op /\ f.reverses = Blank}
ExpensePaymentRows ==
    \A p \in expenseBooks.payments :
        /\ p.amount > 0 /\ p.source \in {"money_account", "owner_pocket"}
        /\ Cardinality(FactsOf(p)) = 1
        /\ \A f \in FactsOf(p) :
             /\ (p.source = "money_account") <=> (f.money = -p.amount /\ f.owner = 0)
             /\ (p.source = "owner_pocket") <=> (f.money = 0 /\ f.owner = p.amount)

(* The view of the balances is of the expenses that stand.                    *)
ExpenseBalances ==
    {[expense |-> i, paid |-> Settled(expenseBooks, i), due |-> Due(expenseBooks, i)] :
        i \in {i \in ExpenseIds : IsPosted(expenseBooks, i)}}

ExpenseTablesHold ==
    /\ ExpenseRows /\ ExpensePaymentRows
    /\ \A b \in ExpenseBalances : b.paid >= 0 /\ b.due >= 0

-----------------------------------------------------------------------------
(* What a reader of an expense is told became of it: the last expense in its  *)
(* line of edits, unless that was corrected too.                              *)
Edits(o) == {r \in CorrectionsOf(o) : IsEdit(expenseOps[r].command)}
Leaf(o) ==
    LET line[n \in 0..Cardinality(ExpenseOps)] ==
          IF n = 0 THEN o
          ELSE IF Edits(line[n - 1]) = {} THEN line[n - 1] ELSE CHOOSE r \in Edits(line[n - 1]) : TRUE
    IN line[Cardinality(ExpenseOps)]
CurrentActive(i) ==
    LET leaf == Leaf(expenseBooks.expenses[i].op) IN
    IF CorrectionsOf(leaf) # {} THEN Blank ELSE Document(expenseOps[leaf].command).expense

(* The payment that stands for a payment: a recognition's own while its       *)
(* expense stands, else the last of its line of edits.                        *)
PaymentCurrentActive(p) ==
    IF p.recognition
    THEN IF IsPosted(expenseBooks, p.expense) THEN p.op ELSE Blank
    ELSE IF CorrectionsOf(Leaf(p.op)) # {} THEN Blank ELSE Leaf(p.op)

(* How an expense was funded is told by a payment: of one listed, by a        *)
(* posted one, of one shown alone by the first.                               *)
FundingOf(i, payments) ==
    IF expenseBooks.expenses[i].isDue THEN {Blank} ELSE {p.source : p \in payments}
ExpenseShown(i) ==
    LET asked == Document(expenseOps[expenseBooks.expenses[i].op].command).source IN
    /\ FundingOf(i, {p \in expenseBooks.payments : p.expense = i}) = {asked}
    /\ IsPosted(expenseBooks, i) => FundingOf(i, PostedPayments(expenseBooks, i)) = {asked}

PaymentShown(p) ==
    LET last == PaymentCurrentActive(p) IN
    /\ FactsOf(p) # {}
    /\ last # Blank => \E q \in expenseBooks.payments : q.op = last /\ q.status = "posted"
    /\ p.status = "posted" => last = p.op

(* The payments told of an expense add up to what is told of it as settled.   *)
HistoryShown(i) ==
    SumOf("amount",
      {p \in expenseBooks.payments : p.expense = i /\ PaymentCurrentActive(p) = p.op})
      = Settled(expenseBooks, i)

ExpenseReadsAnswer ==
    /\ \A i \in Recognized : ExpenseShown(i) /\ HistoryShown(i)
    /\ \A p \in expenseBooks.payments : PaymentShown(p)

-----------------------------------------------------------------------------
(* Every line of edits has one end, and the reader is led to the expense that *)
(* stands, or to none.                                                        *)
LineHasOneEnd ==
    /\ \A o \in ExpenseOps : Cardinality(CorrectionsOf(o)) <= 1
    /\ \A i \in Recognized :
         IF CurrentActive(i) = Blank THEN ~IsPosted(expenseBooks, i)
         ELSE /\ IsPosted(expenseBooks, CurrentActive(i))
              /\ IsPosted(expenseBooks, i) => CurrentActive(i) = i

(* The books of the expenses are sound after any sequence of commands, the    *)
(* tables take their rows, and what is told of them is so.                    *)
ExpenseBooksSound ==
    /\ SettledInRange /\ CancelledIsUnpaid /\ FactsFollowPayments /\ LineHasOneEnd
    /\ ExpenseTablesHold /\ ExpenseReadsAnswer
=============================================================================
