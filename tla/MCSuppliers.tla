---------------------------- MODULE MCSuppliers ----------------------------
(* A supplier at desks of a few documents each; the second only to name it  *)
(* in a command for the wrong one.                                          *)
EXTENDS SupplierReads

Invoice(o, s, n) == [kind |-> "invoice", op |-> o, supplier |-> s, amount |-> n]
Owed(o, s, n) == [kind |-> "opening_payable", op |-> o, supplier |-> s, amount |-> n]
To(t, n) == [target |-> t, amount |-> n]
Pay(o, s, source, allocations) ==
    [kind |-> "payment", op |-> o, supplier |-> s, source |-> source,
     amount |-> SumAmount(allocations), allocations |-> allocations]
Misdrawn(cmd, n) == [cmd EXCEPT !.amount = n]
Give(o, s, i, n) == [kind |-> "return", op |-> o, supplier |-> s, invoice |-> i, amount |-> n]
Apply(o, s, i, n) == [kind |-> "application", op |-> o, supplier |-> s, invoice |-> i, amount |-> n]
Refund(o, s, n) == [kind |-> "refund", op |-> o, supplier |-> s, amount |-> n]
Cancel(o, family, t) == [kind |-> "cancel", op |-> o, family |-> family, target |-> t]
Edit(family, t, r) == [kind |-> "edit", op |-> r.op, family |-> family, target |-> t, replacement |-> r]
Lifecycle(o, kind, s) == [kind |-> kind, op |-> o, supplier |-> s]

SupplierDesk(d) ==
    CASE d = "payables" ->
           {Invoice(1, "s", 3), Owed(2, "s", 2), Owed(3, "s", 1),
            Pay(3, "s", "money_account", {To(1, 2), To(2, 1)}), Pay(4, "s", "owner_pocket", {To(1, 2)}),
            Pay(4, "t", "money_account", {To(1, 1)}),
            Cancel(5, "payment", 3), Edit("payment", 4, Pay(5, "s", "owner_pocket", {To(1, 1)})),
            Edit("invoice", 1, Invoice(6, "s", 2)), Edit("opening_payable", 2, Owed(6, "s", 1)),
            Cancel(4, "opening_payable", 2), Lifecycle(6, "archive", "s"),
            Invoice(5, "s", 0), Misdrawn(Pay(5, "s", "money_account", {To(1, 1)}), 2),
            Pay(6, "s", "money_account", {To(1, 1), To(1, 2)}), Edit("payment", 3, Owed(6, "s", 1)),
            Edit("invoice", 1, Invoice(6, "s", 0)), Pay(6, "s", "owner_pocket", {})}
      [] d = "credit" ->
           {Invoice(1, "s", 3), Invoice(2, "s", 2), Pay(3, "s", "money_account", {To(1, 2)}),
            Give(4, "s", 1, 2), Apply(5, "s", 2, 1), Refund(5, "s", 1), Refund(6, "s", 1),
            Cancel(6, "return", 4), Cancel(6, "application", 5), Cancel(6, "invoice", 2),
            Cancel(6, "payment", 3)}
      [] d = "replacements" ->
           {Invoice(1, "s", 2), Pay(2, "s", "money_account", {To(1, 2)}), Give(3, "s", 1, 2), Give(3, "s", 1, 1),
            Edit("return", 3, Give(4, "s", 1, 1)), Refund(5, "s", 1), Edit("refund", 5, Refund(6, "s", 2)),
            Cancel(6, "refund", 5), Cancel(6, "return", 4), Lifecycle(5, "archive", "s"),
            Give(5, "s", 1, 0), Edit("return", 3, Give(5, "s", 1, 0)), Refund(6, "s", 0),
            Lifecycle(6, "restore", "s")}
      [] d = "applications" ->
           {Invoice(1, "s", 2), Pay(2, "s", "owner_pocket", {To(1, 2)}), Give(3, "s", 1, 2), Invoice(4, "s", 2),
            Apply(5, "s", 4, 2), Edit("application", 5, Apply(6, "s", 4, 1)), Cancel(6, "invoice", 4),
            Cancel(6, "application", 5), Cancel(5, "invoice", 4)}
SupplierDesks == {"payables", "credit", "replacements", "applications"}
=============================================================================
