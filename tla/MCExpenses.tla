----------------------------- MODULE MCExpenses -----------------------------
(* Desks of a few expenses each.                                            *)
EXTENDS ExpenseReads

Recognize(o, i, c, n, source) ==
    [kind |-> "recognize", op |-> o, expense |-> i, category |-> c, amount |-> n, source |-> source]
Pay(o, i, n, source) == [kind |-> "pay", op |-> o, expense |-> i, amount |-> n, source |-> source]
Cancel(o, kind, t) == [kind |-> kind, op |-> o, target |-> t]
Edit(kind, t, r) == [kind |-> kind, op |-> r.op, target |-> t, replacement |-> r]
Category(o, kind, c) == [kind |-> kind, op |-> o, category |-> c]

ExpenseDesk(d) ==
    CASE d = "settling" ->
           {Recognize(1, "x", Blank, 3, Blank), Pay(2, "x", 2, "money_account"), Pay(3, "x", 1, "owner_pocket"),
            Pay(3, "x", 2, "owner_pocket"), Cancel(4, "payment_cancel", 2),
            Edit("payment_edit", 3, Pay(5, "x", 3, "money_account")), Cancel(6, "payment_cancel", 5),
            Pay(6, "x", 0, "money_account"), Pay(6, "x", 1, Blank),
            Edit("payment_edit", 2, Recognize(6, "z", Blank, 1, Blank)),
            Cancel(6, "expense_cancel", 1), Edit("expense_edit", 1, Recognize(4, "y", Blank, 2, "owner_pocket"))}
      [] d = "lines" ->
           {Recognize(1, "x", "rent", 2, "owner_pocket"), Recognize(2, "x", Blank, 1, "money_account"),
            Edit("expense_edit", 1, Recognize(3, "y", Blank, 1, Blank)),
            Edit("expense_edit", 2, Recognize(3, "y", "rent", 2, "money_account")),
            Edit("expense_edit", 3, Recognize(4, "z", "rent", 2, "owner_pocket")),
            Cancel(5, "expense_cancel", 4), Cancel(5, "expense_cancel", 3), Pay(5, "y", 1, "owner_pocket"),
            Category(6, "archive_category", "rent"), Category(5, "restore_category", "rent"),
            Cancel(6, "payment_cancel", 1), Recognize(6, "z", Blank, 0, Blank),
            Edit("expense_edit", 2, Recognize(6, "z", Blank, 0, "money_account"))}
ExpenseDesks == {"settling", "lines"}

(* What the proofs assume of the commands.                                   *)
ASSUME DesksAskForExpenses == \A d \in ExpenseDesks : ExpenseAssumption(ExpenseDesk(d))
=============================================================================
