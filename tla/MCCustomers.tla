---------------------------- MODULE MCCustomers ----------------------------
(* A customer and a passer-by at desks of a few documents each. Operations   *)
(* are numbers, so that documents can occur in another order than they come. *)
EXTENDS CustomerReads

Sale(o, k, units, total, money, credit) ==
    [kind |-> "sale", op |-> o, customer |-> k, units |-> units, total |-> total,
     money |-> money, credit |-> credit]
OpeningOf(o, k, n) == [kind |-> "opening_receivable", op |-> o, customer |-> k, amount |-> n]
Collect(o, k, n, intent, mode, allocations, overpayment) ==
    [kind |-> "collection", op |-> o, customer |-> k, amount |-> n, intent |-> intent,
     mode |-> mode, allocations |-> allocations, overpayment |-> overpayment]
Fifo(o, k, n, overpayment) == Collect(o, k, n, "collect_receivable", "fifo", {}, overpayment)
Advance(o, k, n) == Collect(o, k, n, "customer_advance", "fifo", {}, None)
To(t, n) == [target |-> t, amount |-> n]
Financial(o, kind, k, n, mode, allocations) ==
    [kind |-> kind, op |-> o, customer |-> k, amount |-> n, mode |-> mode, allocations |-> allocations]
Return(o, s, units, residual) ==
    [kind |-> "sale_return", op |-> o, sale |-> s, units |-> units, residual |-> residual]
Cancel(o, kind, t) == [kind |-> kind, op |-> o, target |-> t]
Edit(kind, t, replacement) ==
    [kind |-> kind, op |-> replacement.op, target |-> t, replacement |-> replacement]
Archiving(o, kind, k) == [kind |-> kind, op |-> o, customer |-> k]

CustomerDesk(d) ==
    CASE d = "receivables" ->
           {Sale(2, "k", 2, 3, 0, 0), OpeningOf(1, "k", 2), Fifo(3, "k", 4, None),
            OpeningOf(1, "k", 0), Collect(4, "k", 1, "collect_receivable", "custom", {To(1, 1), To(2, 1)}, None),
            Financial(4, "settle_receivable", "k", 2, "custom", {To(1, 1), To(1, 2)}),
            Fifo(3, "k", 6, "keep_credit"), Collect(4, "k", 1, "collect_receivable", "custom", {To(1, 1)}, None),
            Cancel(5, "financial_cancel", 3), Cancel(6, "financial_cancel", 4),
            Edit("financial_edit", 3, Fifo(5, "k", 1, None)),
            Financial(4, "settle_receivable", "k", 2, "custom", {To(1, 2)}),
            Archiving(6, "archive_customer", "k")}
      [] d = "credit" ->
           {Advance(1, "k", 2), Sale(2, "k", 1, 3, 0, 2), Sale(2, "k", 1, 2, 0, 0),
            Financial(3, "apply_customer_credit", "k", 2, "fifo", {}),
            Financial(3, "refund_customer_credit", "k", 1, "fifo", {}),
            Cancel(4, "financial_cancel", 1), Cancel(5, "financial_cancel", 3),
            Edit("financial_edit", 1, Advance(4, "k", 1)),
            Cancel(6, "sale_cancel", 2), Archiving(5, "archive_customer", "k"),
            Archiving(6, "restore_customer", "k")}
      [] d = "sales" ->
           {Sale(1, "k", 1, 2, 0, 0), Sale(2, None, 1, 2, 2, 0), Sale(3, None, 1, 2, 1, 0), Sale(3, "k", 1, 2, 3, 0),
            Edit("sale_edit", 1, Sale(3, "l", 1, 3, 1, 0)), Edit("sale_edit", 2, Sale(3, "k", 1, 2, 0, 0)),
            Cancel(4, "sale_cancel", 1), Cancel(5, "sale_cancel", 3), Cancel(4, "sale_cancel", 2),
            Fifo(6, "l", 3, "refund_excess"), Sale(6, "k", 1, 4, 0, 0)}
      [] d = "returns" ->
           {Advance(1, "k", 1), Sale(2, "k", 3, 3, 1, 1), Sale(2, None, 3, 2, 2, 0),
            Return(3, 2, 1, None), Return(3, 2, 2, "REFUND"), Return(4, 2, 1, "REFUND"),
            Return(4, 2, 1, "KEEP_AS_CUSTOMER_CREDIT"), Return(5, 2, 1, None),
            Cancel(5, "return_cancel", 3), Edit("return_replace", 4, Return(5, 2, 2, "REFUND")),
            Edit("return_replace", 3, Return(6, 2, 2, "KEEP_AS_CUSTOMER_CREDIT")),
            Fifo(6, "k", 1, None), Financial(6, "refund_customer_credit", "k", 1, "fifo", {})}
      [] d = "rounding" ->
           {Sale(1, None, 2, 1, 1, 0), Return(2, 1, 1, None), Return(3, 1, 1, "REFUND"),
            Edit("return_replace", 2, Return(4, 1, 1, "REFUND"))}
CustomerDesks == {"rounding", "receivables", "credit", "sales", "returns"}
=============================================================================
