-------------------------------- MODULE Stock --------------------------------
(* What a store has of its goods, and what it is worth. Every change of stock *)
(* is a movement, a row that is never changed: what was on hand before, what  *)
(* is after, and what is known of its cost. The stock of a good is what its   *)
(* last movement left. A command is one transaction that locks its goods.     *)
EXTENDS Integers, Sequences

LOCAL INSTANCE FiniteSetsExt
LOCAL INSTANCE SequencesExt

CONSTANTS
    StockOps,         \* operation identifiers; the documents are told by theirs
    Goods, Tracked,   \* the products, and those whose stock is kept
    StockUnits,       \* units of a product: <<numerator, denominator>> to the base
    None

VARIABLES
    stockOps,         \* sync.processed_operations: None, or the command and its status
    stockBooks        \* the rows the commands write

stockVars == <<stockOps, stockBooks>>

EmptyStockBooks ==
    [movements |-> <<>>,
     counts |-> [o \in StockOps |-> None],
     sales |-> [o \in StockOps |-> None],
     returns |-> [o \in StockOps |-> None],
     archived |-> {},                         \* goods
     negative |-> FALSE,                      \* the store's policy, and a good's own
     override |-> [g \in Goods |-> None]]

StockInit ==
    /\ stockOps = [o \in StockOps |-> None]
    /\ stockBooks = EmptyStockBooks

-----------------------------------------------------------------------------
(* Stock and movements.                                                       *)
Nothing == [quantity |-> 0, value |-> 0, state |-> "known"]

MovementsOf(b, g) == {i \in DOMAIN b.movements : b.movements[i].good = g}
IsLast(b, i) == \A j \in MovementsOf(b, b.movements[i].good) : j <= i
Projection(b, g) ==
    IF MovementsOf(b, g) = {} THEN None ELSE b.movements[Max(MovementsOf(b, g))].after
Before(b, g) == IF Projection(b, g) = None THEN Nothing ELSE Projection(b, g)

HasHistory(b, g) == \E i \in MovementsOf(b, g) : b.movements[i].reverses = None
IsReversed(b, i) == \E j \in DOMAIN b.movements : b.movements[j].reverses = i
Stocked(b, g) == g \in Tracked \ b.archived
NegativeAllowed(b, g) == IF b.override[g] = None THEN b.negative ELSE b.override[g]

Quantity(m) == m.after.quantity - m.before.quantity
Value(m) == m.after.value - m.before.value

Moved(b, op, type, g, before, after, cost, reverses) ==
    [b EXCEPT !.movements = Append(@,
        [op |-> op, type |-> type, good |-> g, before |-> before, after |-> after,
         cost |-> cost, reverses |-> reverses])]

-----------------------------------------------------------------------------
(* A quantity of a unit is a whole number of base units, or it is refused.    *)
Exact(line) == (line.quantity * StockUnits[line.unit][1]) % StockUnits[line.unit][2] = 0
Base(line) == (line.quantity * StockUnits[line.unit][1]) \div StockUnits[line.unit][2]

HalfUp(n, d) == (2 * n + d) \div (2 * d)

(* What a movement leaves. Stock of nothing is worth nothing, and known; stock *)
(* that was negative stays of pending cost until there is none again; stock of *)
(* unknown cost stays unknown.                                                *)
Inbound(v, n, cost, worth) ==
    LET q == v.quantity + n
        state == IF q = 0 THEN "known"
                 ELSE IF q < 0 \/ v.quantity < 0 \/ "pending" \in {v.state, cost} THEN "pending"
                 ELSE IF cost = "unknown" \/ (v.quantity > 0 /\ v.state = "unknown") THEN "unknown"
                 ELSE "known"
    IN [quantity |-> q, state |-> state,
        value |-> IF state = "known" /\ q # 0 THEN v.value + worth ELSE 0]

Outbound(v, n) ==
    LET q == v.quantity - n IN
    [quantity |-> q,
     state |-> IF q = 0 THEN "known" ELSE IF q < 0 THEN "pending" ELSE v.state,
     value |-> IF q > 0 /\ v.state = "known" THEN v.value - HalfUp(v.value * n, v.quantity) ELSE 0]
OutboundCost(v, n) == IF v.quantity < n THEN "pending" ELSE v.state

(* A count that finds more tells nothing of its cost; one that finds none of   *)
(* stock whose cost is not known leaves it not known.                          *)
Counted(v, actual) ==
    LET more == actual > v.quantity IN
    [quantity |-> actual,
     state |-> IF ~more THEN v.state
               ELSE IF v.quantity < 0 \/ v.state = "pending" THEN "pending" ELSE "unknown",
     value |-> IF more \/ actual = 0 \/ v.state # "known" THEN 0
               ELSE v.value - HalfUp(v.value * (v.quantity - actual), v.quantity)]
Uncounted == [Nothing EXCEPT !.state = "unknown"]

-----------------------------------------------------------------------------
(* Openings, increases and decreases.                                         *)
IsManual(kind) == kind \in {"opening", "increase", "decrease"}
CostGiven(cmd) == IF cmd.worth = None THEN "unknown" ELSE "known"
ManualAfter(b, cmd) ==
    IF cmd.kind = "decrease" THEN Outbound(Before(b, cmd.good), Base(cmd))
    ELSE Inbound(Before(b, cmd.good), Base(cmd), CostGiven(cmd), cmd.worth)

ManualAllowed(b, cmd, replaces) ==
    /\ Stocked(b, cmd.good)
    /\ cmd.kind = "opening" /\ ~replaces => ~HasHistory(b, cmd.good)
    /\ Exact(cmd)
    /\ ManualAfter(b, cmd).quantity < 0 => NegativeAllowed(b, cmd.good)
ManualWritten(b, cmd, replaces) ==
    Moved(b, cmd.op, IF replaces THEN "correction" ELSE cmd.kind, cmd.good,
          Before(b, cmd.good), ManualAfter(b, cmd),
          IF cmd.kind = "decrease" THEN OutboundCost(Before(b, cmd.good), Base(cmd)) ELSE CostGiven(cmd),
          None)

(* Counts, of some goods or of all. A good that never moved is established.    *)
Named(cmd) == {cmd.items[i].good : i \in DOMAIN cmd.items}
CountAllowed(b, cmd) ==
    /\ IF cmd.full THEN Named(cmd) = {g \in Goods : Stocked(b, g)}
                   ELSE \A g \in Named(cmd) : Stocked(b, g)
    /\ \A i \in DOMAIN cmd.items : Exact(cmd.items[i])
CountedItem(b, op, item) ==
    LET g == item.good
        before == IF Projection(b, g) = None THEN Uncounted ELSE Projection(b, g)
        after == Counted(before, Base(item)) IN
    IF Projection(b, g) # None /\ before.quantity = after.quantity THEN b
    ELSE Moved(b, op, "stock_count", g, before, after,
               IF after.quantity > before.quantity THEN "unknown" ELSE before.state, None)
CountWritten(b, cmd) ==
    FoldLeft(LAMBDA r, item : CountedItem(r, cmd.op, item),
      [b EXCEPT !.counts[cmd.op] =
         [goods |-> Named(cmd), establishes |-> \E g \in Named(cmd) : Projection(b, g) = None]],
      cmd.items)

-----------------------------------------------------------------------------
(* Sales. A line of a good whose stock is not kept moves nothing.              *)
SoldLine(r, cmd, line) ==
    LET before == Before(r, line.good)
        after == Outbound(before, Base(line))
        cost == IF line.good \in Tracked THEN OutboundCost(before, Base(line)) ELSE "unknown"
        row == [good |-> line.good, unit |-> line.unit, quantity |-> line.quantity, cost |-> cost,
                worth |-> before.value - after.value,
                movement |-> IF line.good \in Tracked THEN Len(r.movements) + 1 ELSE None]
        sold == [r EXCEPT !.sales[cmd.op].lines = Append(@, row)] IN
    IF line.good \notin Tracked THEN sold
    ELSE Moved(sold, cmd.op, "sale", line.good, before, after, cost, None)
SaleWritten(b, cmd) ==
    FoldLeft(LAMBDA r, line : SoldLine(r, cmd, line),
      [b EXCEPT !.sales[cmd.op] = [lines |-> <<>>, status |-> "posted"]], cmd.lines)
SaleAllowed(b, cmd) ==
    /\ \A i \in DOMAIN cmd.lines : cmd.lines[i].good \in Goods \ b.archived /\ Exact(cmd.lines[i])
    /\ LET after == SaleWritten(b, cmd).movements IN
       \A i \in (Len(b.movements) + 1)..Len(after) :
         after[i].after.quantity < 0 => NegativeAllowed(b, after[i].good)

(* Returns of lines of a sale. What comes back saleable is stocked at the      *)
(* share of the line's cost, where that was known.                             *)
PostedReturns(b, s) == {o \in StockOps : b.returns[o] # None /\ b.returns[o].sale = s
                                         /\ b.returns[o].status = "posted"}
ReturnedOf(b, s, l) ==
    LET of(o) == FoldLeft(LAMBDA n, x : IF x.line = l THEN n + x.quantity ELSE n, 0, b.returns[o].lines)
    IN MapThenSumSet(of, PostedReturns(b, s))
Share(row, prior, n) ==
    (row.worth * (prior + n)) \div row.quantity - (row.worth * prior) \div row.quantity

ReturnedLine(b, r, cmd, x) ==
    LET row == b.sales[cmd.sale].lines[x.line]
        before == Before(r, row.good)
        base == Base([unit |-> row.unit, quantity |-> x.quantity])
        restocks == x.saleable /\ row.movement # None
        kept == [r EXCEPT !.returns[cmd.op].lines = Append(@,
                  [line |-> x.line, quantity |-> x.quantity,
                   movement |-> IF restocks THEN Len(r.movements) + 1 ELSE None])] IN
    IF ~restocks THEN kept
    ELSE Moved(kept, cmd.op, "customer_return_saleable", row.good, before,
               Inbound(before, base, row.cost, Share(row, ReturnedOf(b, cmd.sale, x.line), x.quantity)),
               row.cost, None)
ReturnWritten(b, cmd) ==
    FoldLeft(LAMBDA r, x : ReturnedLine(b, r, cmd, x),
      [b EXCEPT !.returns[cmd.op] = [sale |-> cmd.sale, lines |-> <<>>, status |-> "posted"]], cmd.lines)
ReturnAllowed(b, cmd) ==
    /\ b.sales[cmd.sale] # None /\ b.sales[cmd.sale].status = "posted"
    /\ \A i \in DOMAIN cmd.lines :
         LET x == cmd.lines[i] row == b.sales[cmd.sale].lines[x.line] IN
         /\ x.line \in DOMAIN b.sales[cmd.sale].lines
         /\ ReturnedOf(b, cmd.sale, x.line) + x.quantity <= row.quantity
         /\ Exact([unit |-> row.unit, quantity |-> x.quantity])
         /\ x.saleable /\ row.movement # None => Stocked(b, row.good)

-----------------------------------------------------------------------------
(* Corrections. An edit is corrected through the operation that made it.       *)
IsEdit(cmd) == cmd.kind \in {"replacement", "sale_edit", "return_replace"}
IsCorrection(cmd) == IsEdit(cmd) \/ cmd.kind \in {"reversal", "sale_cancel", "return_cancel"}
Document(cmd) == IF IsEdit(cmd) THEN cmd.replacement ELSE cmd
IsDone(o) == stockOps[o] # None /\ stockOps[o].status = "applied"
Corrections(o) ==
    {r \in StockOps : IsDone(r) /\ IsCorrection(stockOps[r].command) /\ stockOps[r].command.target = o}
IsCorrectable(o) == IsDone(o) /\ Corrections(o) = {}
Family(o) == Document(stockOps[o].command).kind
FactsOf(b, o) == {i \in DOMAIN b.movements : b.movements[i].op = o /\ b.movements[i].reverses = None}

Restored(b, op, i) ==
    LET m == b.movements[i] IN Moved(b, op, "correction", m.good, m.after, m.before, m.before.state, i)
InventoryUndone(b, cmd) ==
    FoldLeft(LAMBDA r, i : Restored(r, cmd.op, i), b, SetToSeq(FactsOf(b, cmd.target)))

(* What it takes to recost what came after is not done: a correction is of the *)
(* last movement of its goods, whose cost it can put back as it was.           *)
NeedsNoRecost(b, i) ==
    LET m == b.movements[i] IN
    /\ IsLast(b, i)
    /\ m.after.state = "known" \/ m.before.state # "known" \/ 0 \in {m.after.quantity, m.before.quantity}
AffectedGoods(b, o) == IF Family(o) = "count" THEN b.counts[o].goods ELSE {Document(stockOps[o].command).good}
InventoryCorrectionAllowed(b, cmd) ==
    /\ IsCorrectable(cmd.target) /\ (IsManual(Family(cmd.target)) \/ Family(cmd.target) = "count")
    /\ IsEdit(cmd) => cmd.replacement.kind = Family(cmd.target)
    /\ Family(cmd.target) = "count" => ~b.counts[cmd.target].establishes
    /\ \A g \in AffectedGoods(b, cmd.target) : Stocked(b, g)
    /\ \A i \in FactsOf(b, cmd.target) :
         /\ NeedsNoRecost(b, i)
         /\ b.movements[i].before.quantity < 0 => NegativeAllowed(b, b.movements[i].good)
    /\ IsEdit(cmd) /\ cmd.replacement.kind = "opening"
         /\ cmd.replacement.good # Document(stockOps[cmd.target].command).good
           => ~HasHistory(b, cmd.replacement.good)

(* A sale is taken back at the cost it went out at, if that is what it adds.    *)
ReturnsOverlooked(b, s) == FALSE
HasReturns(b, s) == \E o \in StockOps : b.returns[o] # None /\ b.returns[o].sale = s
TakenBack(r, op, i) ==
    LET m == r.movements[i]
        before == Before(r, m.good) IN
    Moved(r, op, "correction", m.good, before,
          Inbound(before, -Quantity(m), IF m.cost = "known" THEN "known" ELSE "unknown", -Value(m)), m.cost, i)
SaleUndone(b, cmd, order) ==
    FoldLeft(LAMBDA r, i : TakenBack(r, cmd.op, i),
      [b EXCEPT !.sales[cmd.target].status = IF IsEdit(cmd) THEN "corrected" ELSE "cancelled"], order)
SaleCorrectionAllowed(b, cmd, order) ==
    /\ IsCorrectable(cmd.target) /\ Family(cmd.target) = "sale"
    /\ ~HasReturns(b, cmd.target)
    /\ LET undone == SaleUndone(b, cmd, order).movements IN
       \A i \in (Len(b.movements) + 1)..Len(undone) :
         Value(undone[i]) = -Value(undone[undone[i].reverses])

(* A return is taken back while nothing moved the goods it stocked since. The  *)
(* correction reads the movement with the answer given then, which tells no    *)
(* value where the cost was not known.                                         *)
ReturnUndone(b, cmd, order) ==
    FoldLeft(LAMBDA r, i :
        Moved(r, cmd.op, "correction", r.movements[i].good, r.movements[i].after, r.movements[i].before,
              r.movements[i].cost, i),
      [b EXCEPT !.returns[cmd.target].status = "cancelled"], order)
ReturnCorrectionAllowed(b, cmd, order) ==
    /\ IsCorrectable(cmd.target) /\ Family(cmd.target) = "return"
    /\ IsEdit(cmd) => cmd.replacement.sale = b.returns[cmd.target].sale
    /\ \A n \in DOMAIN order :
         LET i == order[n] m == b.movements[i] IN
         /\ m.cost # "known" => Value(m) = 0
         /\ IsLast(b, i) /\ \A k \in 1..(n - 1) : b.movements[order[k]].good # m.good
         /\ m.before.quantity < 0 => NegativeAllowed(b, m.good)

-----------------------------------------------------------------------------
(* What the tables take. A row they refuse fails the transaction: nothing is   *)
(* written, not even the refusal.                                              *)
CostsHold(m) ==
    /\ m.before.state # "known" => m.before.value = 0
    /\ m.after.state # "known" => m.after.value = 0
    /\ m.after.value >= 0 /\ (m.after.quantity = 0 => m.after.value = 0)
    /\ m.after.quantity < 0 => m.after.state = "pending"
    /\ m.cost = "unknown" /\ m.after.quantity # 0 => m.after.state # "known"
    /\ m.before.state # "known" /\ m.after.state = "known" => 0 \in {m.before.quantity, m.after.quantity}
MovementTaken(b, i) ==
    LET m == b.movements[i]
        earlier == {j \in MovementsOf(b, m.good) : j < i} IN
    /\ CostsHold(m)
    /\ Quantity(m) = 0 => m.type = "stock_count" /\ earlier = {} /\ m.before = Uncounted
    /\ IF earlier = {} THEN m.before = Nothing \/ (m.type = "stock_count" /\ m.before = Uncounted)
       ELSE m.before = b.movements[Max(earlier)].after
    /\ m.after.quantity < 0 => NegativeAllowed(b, m.good)
    /\ m.good \in Tracked /\ (m.reverses = None => m.good \notin b.archived)
    /\ m.reverses # None =>
         /\ Quantity(m) = -Quantity(b.movements[m.reverses])
         /\ Value(m) = -Value(b.movements[m.reverses])
         /\ \A j \in DOMAIN b.movements \ {i} : b.movements[j].reverses # m.reverses
RowsTaken(old, new) == \A i \in (Len(old.movements) + 1)..Len(new.movements) : MovementTaken(new, i)

-----------------------------------------------------------------------------
(* What is refused before a transaction: the bodies of the requests.           *)
LinesAccepted(lines) == lines # <<>> /\ \A i \in DOMAIN lines : lines[i].quantity > 0
ManualAccepted(cmd) == cmd.quantity > 0 /\ (cmd.kind = "decrease" => cmd.worth = None)
CountAccepted(cmd) ==
    /\ \A i \in DOMAIN cmd.items : cmd.items[i].quantity >= 0
    /\ \A i, j \in DOMAIN cmd.items : cmd.items[i].good = cmd.items[j].good => i = j
ReturnLinesAccepted(cmd) ==
    LinesAccepted(cmd.lines) /\ \A i, j \in DOMAIN cmd.lines : cmd.lines[i].line = cmd.lines[j].line => i = j
DocumentAccepted(cmd) ==
    CASE IsManual(cmd.kind) -> ManualAccepted(cmd)
      [] cmd.kind = "count" -> CountAccepted(cmd)
      [] cmd.kind = "sale" -> LinesAccepted(cmd.lines)
      [] cmd.kind = "return" -> ReturnLinesAccepted(cmd)
      [] OTHER -> TRUE
StockAccepted(cmd) == DocumentAccepted(Document(cmd))

-----------------------------------------------------------------------------
(* One action per command. A refusal is recorded under the operation.          *)
SettleStock(cmd, allowed, books) ==
    /\ stockOps[cmd.op] = None
    /\ allowed => RowsTaken(stockBooks, books)
    /\ stockOps' = [stockOps EXCEPT ![cmd.op] =
         [command |-> cmd, status |-> IF allowed THEN "applied" ELSE "rejected"]]
    /\ stockBooks' = IF allowed THEN books ELSE stockBooks

RepeatStock(cmd) == stockOps[cmd.op] # None /\ UNCHANGED stockVars

PostManual(cmd) ==
    /\ IsManual(cmd.kind)
    /\ SettleStock(cmd, ManualAllowed(stockBooks, cmd, FALSE), ManualWritten(stockBooks, cmd, FALSE))

PostCount(cmd) ==
    /\ cmd.kind = "count"
    /\ SettleStock(cmd, CountAllowed(stockBooks, cmd), CountWritten(stockBooks, cmd))

CorrectInventory(cmd) ==
    LET undone == InventoryUndone(stockBooks, cmd)
        again == cmd.replacement
        allowed == InventoryCorrectionAllowed(stockBooks, cmd) IN
    /\ cmd.kind \in {"reversal", "replacement"}
    /\ SettleStock(cmd,
         allowed /\ (IsEdit(cmd) => IF again.kind = "count" THEN CountAllowed(undone, again)
                                    ELSE ManualAllowed(undone, again, TRUE)),
         IF ~IsEdit(cmd) THEN undone
         ELSE IF again.kind = "count" THEN CountWritten(undone, again) ELSE ManualWritten(undone, again, TRUE))

PostSale(cmd) ==
    /\ cmd.kind = "sale"
    /\ SettleStock(cmd, SaleAllowed(stockBooks, cmd), SaleWritten(stockBooks, cmd))

(* The rows of a document are taken back in the order of identifiers that are  *)
(* hashes: in any order.                                                       *)
CorrectSale(cmd) ==
    /\ cmd.kind \in {"sale_cancel", "sale_edit"}
    /\ \E order \in SetToSeqs(FactsOf(stockBooks, cmd.target)) :
         LET undone == SaleUndone(stockBooks, cmd, order) IN
         SettleStock(cmd,
           SaleCorrectionAllowed(stockBooks, cmd, order) /\ (IsEdit(cmd) => SaleAllowed(undone, cmd.replacement)),
           IF IsEdit(cmd) THEN SaleWritten(undone, cmd.replacement) ELSE undone)

PostReturn(cmd) ==
    /\ cmd.kind = "return"
    /\ SettleStock(cmd, ReturnAllowed(stockBooks, cmd), ReturnWritten(stockBooks, cmd))

CorrectReturn(cmd) ==
    /\ cmd.kind \in {"return_cancel", "return_replace"}
    /\ \E order \in SetToSeqs(FactsOf(stockBooks, cmd.target)) :
         LET undone == ReturnUndone(stockBooks, cmd, order) IN
         SettleStock(cmd,
           ReturnCorrectionAllowed(stockBooks, cmd, order) /\ (IsEdit(cmd) => ReturnAllowed(undone, cmd.replacement)),
           IF IsEdit(cmd) THEN ReturnWritten(undone, cmd.replacement) ELSE undone)

(* The catalog changes whatever the stock is.                                  *)
ChangeCatalog(cmd) ==
    /\ cmd.kind \in {"archive", "restore", "override", "policy"}
    /\ SettleStock(cmd, TRUE,
         CASE cmd.kind = "archive" -> [stockBooks EXCEPT !.archived = @ \cup {cmd.good}]
           [] cmd.kind = "restore" -> [stockBooks EXCEPT !.archived = @ \ {cmd.good}]
           [] cmd.kind = "override" -> [stockBooks EXCEPT !.override[cmd.good] = cmd.value]
           [] cmd.kind = "policy" -> [stockBooks EXCEPT !.negative = cmd.value])

ServeStock(commands) ==
    \E cmd \in {c \in commands : StockAccepted(c)} :
        \/ PostManual(cmd) \/ PostCount(cmd) \/ CorrectInventory(cmd)
        \/ PostSale(cmd) \/ CorrectSale(cmd)
        \/ PostReturn(cmd) \/ CorrectReturn(cmd)
        \/ ChangeCatalog(cmd) \/ RepeatStock(cmd)

-----------------------------------------------------------------------------
(* What is on hand, and what it is worth, is what the documents that stand     *)
(* brought and took: a correction leaves no trace of what it corrected.        *)
Standing(i) ==
    LET m == stockBooks.movements[i] IN m.reverses = None /\ Corrections(m.op) = {}
StockTellsDocuments ==
    \A g \in Goods :
        LET facts == {i \in MovementsOf(stockBooks, g) : Standing(i)}
            total(part(_)) == MapThenSumSet(LAMBDA i : part(stockBooks.movements[i]), facts) IN
        /\ Before(stockBooks, g).quantity = total(Quantity)
        /\ Before(stockBooks, g).value = total(Value)

(* Stock is of known cost only where everything that came in since there was   *)
(* none, and stands, came at a known cost.                                     *)
KnownIsEarned ==
    \A g \in Goods :
        LET rows == MovementsOf(stockBooks, g)
            row(i) == stockBooks.movements[i]
            since(i) == \A j \in rows : j > i => row(j).before.quantity # 0
            now == Before(stockBooks, g) IN
        now.state = "known" /\ now.quantity > 0 =>
            \A i \in rows : since(i) /\ Standing(i) /\ Quantity(row(i)) > 0 => row(i).cost = "known"

(* Nothing stands as returned but of a sale that stands, and no more of a line *)
(* than was sold; what was returned saleable is in stock once.                 *)
ReturnsStandOnSales ==
    \A o \in StockOps : stockBooks.returns[o] # None /\ stockBooks.returns[o].status = "posted" =>
        LET sale == stockBooks.sales[stockBooks.returns[o].sale] IN
        /\ sale.status = "posted"
        /\ \A l \in DOMAIN sale.lines :
             ReturnedOf(stockBooks, stockBooks.returns[o].sale, l) <= sale.lines[l].quantity
        /\ \A i \in FactsOf(stockBooks, o) : Standing(i) /\ ~IsReversed(stockBooks, i)

(* A good has at most one opening that stands, however openings were replaced. *)
OpenedOnce ==
    \A o, p \in StockOps :
        LET opens(x) == IsCorrectable(x) /\ Family(x) = "opening" IN
        opens(o) /\ opens(p) /\ Document(stockOps[o].command).good = Document(stockOps[p].command).good => o = p

(* The stock of a store is sound after any sequence of commands.                *)
StockSound ==
    StockTellsDocuments /\ KnownIsEarned /\ ReturnsStandOnSales /\ OpenedOnce
=============================================================================
