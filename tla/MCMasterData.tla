---------------------------- MODULE MCMasterData ----------------------------
(* Desks of a few rows each.                                                *)
EXTENDS MasterData

CreateRow(o, kind, id, fields) == [action |-> "create", kind |-> kind, op |-> o, id |-> id, fields |-> fields]
Update(o, kind, id, v, fields) ==
    [action |-> "update", kind |-> kind, op |-> o, id |-> id, version |-> v, fields |-> fields]
Cycle(o, action, kind, id, v) == [action |-> action, kind |-> kind, op |-> o, id |-> id, version |-> v]
Party(name, phone) == [name |-> name, phone |-> phone]
Product(o, id, sku, unit) ==
    [action |-> "create", kind |-> "product", op |-> o, id |-> id,
     fields |-> [name |-> "tea", sku |-> sku, barcode |-> Missing], unit |-> unit, unitFields |-> [name |-> "bag"]]
Unit(o, id, product, name) ==
    [action |-> "create", kind |-> "unit", op |-> o, id |-> id, product |-> product, fields |-> [name |-> name]]

MasterDesk(d) ==
    CASE d = "customers" ->
           {CreateRow(1, "customer", "k1", Party("tea", "05")), CreateRow(2, "customer", "k2", Party("tea", "0 5")),
            CreateRow(2, "customer", "k2", Party("bag", "06")), Update(3, "customer", "k1", 1, [name |-> " bag"]),
            Update(4, "customer", "k1", 1, [phone |-> "06"]), Update(4, "customer", "k1", 2, [name |-> " "]),
            CreateRow(6, "customer", "k1", Party("box", "06"))}
      [] d = "customer archive" ->
           {CreateRow(1, "customer", "k1", Party("tea", "05")), CreateRow(2, "customer", "k2", Party("tea", "0 5")),
            Update(3, "customer", "k1", 1, [name |-> " bag"]), Update(4, "customer", "k1", 2, [name |-> "bag"]),
            Update(5, "customer", "k1", 3, [name |-> "tea"]),
            Cycle(5, "archive", "customer", "k1", 2), Cycle(6, "restore", "customer", "k1", 3)}
      [] d = "suppliers" ->
           {CreateRow(1, "supplier", "s1", Party("tea", "06")), CreateRow(2, "supplier", "s2", Party("tea", "07")),
            CreateRow(2, "supplier", "s2", Party("tea", " ")), CreateRow(2, "supplier", "s2", Party("tea", "0 5")),
            Update(3, "supplier", "s1", 1, [phone |-> "05"]), Update(4, "supplier", "s2", 1, [phone |-> "0 5"]),
            Update(4, "supplier", "s1", 2, [phone |-> "05"]), Cycle(5, "archive", "supplier", "s1", 1),
            Cycle(5, "archive", "supplier", "s2", 1), Cycle(5, "archive", "supplier", "s1", 2),
            Cycle(6, "restore", "supplier", "s1", 3), Cycle(6, "restore", "supplier", "s1", 2)}
      [] d = "products" ->
           {Product(1, "p1", "05", "u1"), Product(2, "p2", "05", "u2"), Product(2, "p2", Missing, "u1"),
            Unit(3, "u3", "p1", "box"), Update(4, "product", "p1", 1, [sku |-> Missing]),
            Update(4, "product", "p1", 1, [name |-> "tea"]), Cycle(6, "archive", "product", "p1", 1)}
      [] d = "product units" ->
           {Product(1, "p1", "05", "u1"), Unit(3, "u3", "p1", "box"), Unit(3, "u3", "p1", " bag"),
            Unit(4, "u3", "p1", "tea"), Update(5, "unit", "u3", 1, [name |-> "bag"]),
            Update(5, "unit", "u3", 1, [name |-> "tea"]), Cycle(6, "archive", "product", "p1", 1),
            Cycle(6, "archive", "unit", "u1", 1)}
      [] d = "units" ->
           {Product(1, "p1", Missing, "u1"), Unit(2, "u3", "p1", "box"), Cycle(3, "archive", "unit", "u1", 1),
            Cycle(4, "archive", "unit", "u3", 1), Cycle(5, "restore", "unit", "u3", 2),
            Cycle(5, "restore", "unit", "u1", 2), Cycle(6, "restore", "unit", "u3", 2),
            Cycle(6, "archive", "product", "p1", 1), Unit(6, "u2", "p1", "box")}
      [] d = "settings" ->
           {[action |-> "ensure", kind |-> "settings", op |-> 1, id |-> "store", fields |-> [policy |-> "warn"]],
            [action |-> "ensure", kind |-> "settings", op |-> 2, id |-> "store", fields |-> [policy |-> "warn"]],
            Update(3, "settings", "store", 1, [policy |-> "block"]), Update(4, "settings", "store", 1, [policy |-> "warn"]),
            Update(4, "settings", "store", 2, [policy |-> "warn"]), CreateRow(5, "category", "c1", [name |-> "tea"]),
            Update(6, "category", "c1", 1, [name |-> "TEA"])}
MasterDesks ==
    {"customers", "customer archive", "suppliers", "products", "product units", "units", "settings"}
MasterDeskOf == [d \in MasterDesks |-> MasterDesk(d)]
MCMasterCommands == UNION {MasterDesk(d) : d \in MasterDesks}
=============================================================================
