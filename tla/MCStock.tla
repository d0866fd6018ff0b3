------------------------------- MODULE MCStock -------------------------------
(* Desks of a few goods each.                                               *)
EXTENDS Stock

Line(g, u, n) == [good |-> g, unit |-> u, quantity |-> n]
Manual(o, kind, g, n, w) == [kind |-> kind, op |-> o, good |-> g, unit |-> "each", quantity |-> n, worth |-> w]
Halves(o, kind, g, n, w) == [Manual(o, kind, g, n, w) EXCEPT !.unit = "half"]
Count(o, full, items) == [kind |-> "count", op |-> o, full |-> full, items |-> items]
Sale(o, lines) == [kind |-> "sale", op |-> o, lines |-> lines]
Return(o, s, lines) == [kind |-> "return", op |-> o, sale |-> s, lines |-> lines]
Back(l, n, saleable) == [line |-> l, quantity |-> n, saleable |-> saleable]
Cancel(o, kind, t) == [kind |-> kind, op |-> o, target |-> t]
Edit(kind, t, r) == [kind |-> kind, op |-> r.op, target |-> t, replacement |-> r]
Policy(o, value) == [kind |-> "policy", op |-> o, value |-> value]

StockDesk(d) ==
    CASE d = "costs" ->
           {Manual(1, "opening", "tea", 2, 3), Manual(2, "increase", "tea", 1, None), Manual(2, "increase", "tea", 1, 1),
            Halves(3, "decrease", "tea", 4, None), Halves(3, "decrease", "tea", 1, None), Manual(3, "decrease", "tea", 1, None),
            Cancel(4, "reversal", 3), Cancel(4, "reversal", 2), Cancel(5, "reversal", 1), Cancel(5, "reversal", 4),
            Edit("replacement", 2, Manual(5, "increase", "tea", 2, 1)),
            Edit("replacement", 2, Manual(5, "decrease", "tea", 1, None)),
            Edit("replacement", 1, Manual(6, "opening", "rice", 1, 1)), Manual(6, "opening", "rice", 1, None),
            Manual(6, "decrease", "tea", 0, None)}
      [] d = "counting" ->
           {Manual(1, "opening", "tea", 2, 3), Count(2, TRUE, <<Line("rice", "each", 0), Line("tea", "each", 1)>>),
            Count(2, TRUE, <<Line("tea", "each", 1)>>), Count(3, FALSE, <<Line("tea", "half", 6)>>),
            Count(3, FALSE, <<Line("tea", "each", 0)>>), Cancel(4, "reversal", 3), Cancel(4, "reversal", 2),
            Edit("replacement", 3, Count(4, FALSE, <<Line("tea", "each", 2)>>)),
            [kind |-> "archive", op |-> 5, good |-> "rice"], [kind |-> "restore", op |-> 6, good |-> "rice"],
            Manual(5, "increase", "tea", 1, 2), Manual(6, "increase", "rice", 1, 1),
            Count(6, FALSE, <<Line("tea", "each", 1), Line("tea", "each", 2)>>)}
      [] d = "returns" ->
           {Manual(1, "opening", "tea", 3, 2), Manual(1, "opening", "tea", 2, None),
            Sale(2, <<Line("tea", "each", 2), Line("ice", "each", 1)>>), Sale(2, <<Line("tea", "each", 1), Line("tea", "each", 1)>>),
            Return(3, 2, <<Back(1, 1, TRUE), Back(2, 1, TRUE)>>), Return(4, 2, <<Back(1, 1, TRUE)>>),
            Return(4, 2, <<Back(1, 1, FALSE)>>), Cancel(5, "return_cancel", 3), Cancel(6, "sale_cancel", 2),
            Edit("return_replace", 4, Return(5, 2, <<Back(1, 1, TRUE)>>)), Cancel(6, "return_cancel", 5),
            Manual(5, "increase", "tea", 1, 2), Edit("sale_edit", 2, Sale(6, <<Line("tea", "each", 1)>>)),
            Return(6, 2, <<Back(1, 3, TRUE)>>), Return(6, 2, <<>>)}
      [] d = "negative" ->
           {Policy(1, TRUE), Manual(2, "increase", "tea", 1, 1), Sale(3, <<Line("tea", "each", 2)>>),
            Sale(3, <<Line("tea", "each", 1)>>), Cancel(4, "sale_cancel", 3), Return(4, 3, <<Back(1, 1, TRUE)>>),
            [kind |-> "override", op |-> 5, good |-> "tea", value |-> FALSE], Manual(5, "increase", "tea", 1, 2),
            Cancel(6, "reversal", 5), Cancel(6, "return_cancel", 4), Count(6, FALSE, <<Line("tea", "each", 1)>>),
            Edit("sale_edit", 3, Sale(4, <<Line("tea", "each", 1)>>))}
StockDesks == {"costs", "counting", "returns", "negative"}
=============================================================================
