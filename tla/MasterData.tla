------------------------------ MODULE MasterData ------------------------------
(* What a store keeps about its customers, suppliers, products and their      *)
(* units, expense categories and settings. A row has a version; a command     *)
(* names the version its author saw. A command is a transaction: it locks the *)
(* rows it decides on, decides, and writes with the operation that it is.     *)
EXTENDS Integers

CONSTANTS
    MasterOps,       \* operation identifiers
    MasterCommands,  \* what may be asked, each any number of times
    RowIds,          \* the rows that may be: a row is of one kind
    KindOf,          \* [RowIds -> the kinds]
    InDebt,          \* the customers and suppliers with a balance
    Collapse, Fold,  \* a text with its blanks collapsed; as it is compared
    Missing

VARIABLES
    masterOps,       \* sync.processed_operations: Missing, or the command, its status and answer
    rows,            \* ledger.customers, suppliers, products, ...: Missing, or the row
    running          \* the transactions: Missing, or the command and what it decided

masterVars == <<masterOps, rows, running>>

MasterInit ==
    /\ masterOps = [o \in MasterOps |-> Missing]
    /\ rows = [i \in RowIds |-> Missing]
    /\ running = [o \in MasterOps |-> Missing]

-----------------------------------------------------------------------------
(* A request is about a row of its kind. A creation fills every column of its  *)
(* row: what the request leaves out is Missing. An update names some of them.  *)
Kinds == {"customer", "supplier", "product", "unit", "category", "settings"}
Columns(kind) ==
    CASE kind \in {"customer", "supplier"} -> {"name", "phone"}
      [] kind = "product" -> {"name", "sku", "barcode"}
      [] kind \in {"unit", "category"} -> {"name"}
      [] kind = "settings" -> {"policy"}
IsText(fields) == \A f \in DOMAIN fields : fields[f] \in DOMAIN Collapse
ASSUME MasterCommandsAssumption ==
    \A cmd \in MasterCommands :
        /\ cmd.op \in MasterOps /\ cmd.id \in RowIds
        /\ cmd.kind \in Kinds /\ KindOf[cmd.id] = cmd.kind
        /\ cmd.action \in {"ensure", "create", "update", "archive", "restore"}
        /\ cmd.action = "ensure" => cmd.kind = "settings"
        /\ cmd.action \in {"ensure", "create"} => DOMAIN cmd.fields = Columns(cmd.kind) /\ IsText(cmd.fields)
        /\ cmd.action = "update" => DOMAIN cmd.fields \subseteq Columns(cmd.kind) /\ IsText(cmd.fields)
        /\ (cmd.kind = "product" /\ cmd.action = "create") =>
             /\ cmd.unit \in RowIds /\ KindOf[cmd.unit] = "unit"
             /\ DOMAIN cmd.unitFields = Columns("unit") /\ IsText(cmd.unitFields)
        /\ (cmd.kind = "unit" /\ cmd.action = "create") => cmd.product \in RowIds

(* Texts are collapsed; what may be absent and is blank, is not. *)
Compared(kind, field) ==
    \/ (kind \in {"customer", "supplier"} /\ field = "phone")
    \/ (kind = "product" /\ field \in {"sku", "barcode"})
    \/ (kind \in {"unit", "category"} /\ field = "name")
Prepared(fields) ==
    [f \in DOMAIN fields |-> IF Collapse[fields[f]] = "" THEN Missing ELSE Collapse[fields[f]]]
Overlaid(fields, by) ==
    [f \in DOMAIN fields \cup DOMAIN by |-> IF f \in DOMAIN by THEN by[f] ELSE fields[f]]
NotBlank(fields, f) == f \in DOMAIN fields => Prepared(fields)[f] # Missing
Given(fields, f) == f \in DOMAIN fields /\ NotBlank(fields, f)
Changes(cmd) == DOMAIN cmd.fields # {} /\ cmd.version >= 1

CustomerAccepted(cmd) ==
    IF cmd.action = "create" THEN Given(cmd.fields, "name") /\ Given(cmd.fields, "phone")
    ELSE Changes(cmd) /\ NotBlank(cmd.fields, "name") /\ NotBlank(cmd.fields, "phone")
SupplierAccepted(cmd) == CustomerAccepted(cmd)
CategoryAccepted(cmd) == Given(cmd.fields, "name") /\ (cmd.action = "update" => cmd.version >= 1)
ProductCreateAccepted(cmd) == Given(cmd.fields, "name") /\ Given(cmd.unitFields, "name")
ProductUpdateAccepted(cmd) == Changes(cmd) /\ NotBlank(cmd.fields, "name")
UnitCreateAccepted(cmd) == Given(cmd.fields, "name")
UnitUpdateAccepted(cmd) == Changes(cmd) /\ NotBlank(cmd.fields, "name")
SettingsAccepted(cmd) == DOMAIN cmd.fields # {} /\ \A f \in DOMAIN cmd.fields : NotBlank(cmd.fields, f)
LifecycleAccepted(cmd) == cmd.version >= 1
MasterAccepted(cmd) ==
    CASE cmd.action = "ensure" -> TRUE
      [] cmd.action \in {"archive", "restore"} -> LifecycleAccepted(cmd)
      [] cmd.action \in {"create", "update"} ->
           CASE cmd.kind = "customer" -> CustomerAccepted(cmd)
             [] cmd.kind = "supplier" -> SupplierAccepted(cmd)
             [] cmd.kind = "category" -> CategoryAccepted(cmd)
             [] cmd.kind = "settings" -> SettingsAccepted(cmd)
             [] cmd.kind = "product" -> IF cmd.action = "create" THEN ProductCreateAccepted(cmd) ELSE ProductUpdateAccepted(cmd)
             [] cmd.kind = "unit" -> IF cmd.action = "create" THEN UnitCreateAccepted(cmd) ELSE UnitUpdateAccepted(cmd)

-----------------------------------------------------------------------------
(* The rows.                                                                  *)
UnitsOf(product) == {i \in RowIds : KindOf[i] = "unit" /\ rows[i] # Missing /\ rows[i].product = product}
IsActive(i) == rows[i] # Missing /\ rows[i].status = "active"
ActiveBases(product) == {u \in UnitsOf(product) : IsActive(u) /\ rows[u].base}
ActiveConversions(product) == {u \in UnitsOf(product) : IsActive(u) /\ ~rows[u].base}

FreshRow(op, fields) ==
    [version |-> 1, status |-> "active", op |-> op, fields |-> Prepared(fields),
     product |-> Missing, base |-> FALSE]

(* An update that changes nothing leaves the row, and its version, alone - but *)
(* of a customer, who is always written.                                       *)
IsNoOp(row, cmd) ==
    /\ cmd.kind # "customer"
    /\ \A f \in DOMAIN cmd.fields : f \in DOMAIN row.fields /\ row.fields[f] = Prepared(cmd.fields)[f]
Updated(row, cmd) ==
    IF IsNoOp(row, cmd) THEN row
    ELSE [row EXCEPT !.version = @ + 1, !.op = cmd.op, !.fields = Overlaid(@, Prepared(cmd.fields))]

StatusAfter(cmd) == IF cmd.action = "archive" THEN "archived" ELSE "active"
Cycled(row, cmd) ==
    IF row.status = StatusAfter(cmd) THEN row
    ELSE [row EXCEPT !.version = @ + 1, !.op = cmd.op, !.status = StatusAfter(cmd)]

(* The unique keys of the tables; a unit's name is of its product.             *)
Key(row, field) == IF field \in DOMAIN row.fields THEN Fold[row.fields[field]] ELSE Missing
Collides(id, row) ==
    \E i \in RowIds \ {id} :
        /\ KindOf[i] = KindOf[id] /\ rows[i] # Missing /\ rows[i].product = row.product
        /\ \E f \in DOMAIN row.fields :
             Compared(KindOf[id], f) /\ Key(row, f) # Missing /\ Key(row, f) = Key(rows[i], f)
(* What the database itself holds against a write.                             *)
Taken(id, row) ==
    \/ Collides(id, row)
    \/ \E i \in RowIds \ {id} : KindOf[i] = KindOf[id] /\ rows[i] # Missing /\ rows[i].op = row.op

-----------------------------------------------------------------------------
(* What a command locks, and what it decides once it has.                      *)
Stands(cmd) ==
    /\ rows[cmd.id] # Missing /\ rows[cmd.id].status = "active"
    /\ rows[cmd.id].version = cmd.version

PartyLifecycleAllowed(cmd) ==
    /\ rows[cmd.id] # Missing /\ rows[cmd.id].version = cmd.version
    /\ cmd.kind = "customer" => rows[cmd.id].status # StatusAfter(cmd)
    /\ cmd.action = "archive" => cmd.id \notin InDebt

UnitStructureAllows(unit, cmd) ==
    IF cmd.action = "archive" THEN rows[unit].base => ActiveConversions(rows[unit].product) = {}
    ELSE IF rows[unit].base THEN ActiveBases(rows[unit].product) \subseteq {unit}
    ELSE ActiveBases(rows[unit].product) # {}
UnitLifecycleAllowed(cmd) ==
    /\ rows[cmd.id] # Missing /\ rows[cmd.id].version = cmd.version
    /\ cmd.action = "restore" => IsActive(rows[cmd.id].product)
    /\ UnitStructureAllows(cmd.id, cmd)

UnitCreateAllowed(cmd) == IsActive(cmd.product) /\ ActiveBases(cmd.product) # {}

MasterDecision(cmd) ==
    CASE cmd.action = "create" /\ cmd.kind = "unit" -> UnitCreateAllowed(cmd)
      [] cmd.action = "update" /\ cmd.kind # "customer" -> Stands(cmd)
      [] cmd.action \in {"archive", "restore"} /\ cmd.kind = "unit" -> UnitLifecycleAllowed(cmd)
      [] cmd.action \in {"archive", "restore"} /\ cmd.kind # "unit" -> PartyLifecycleAllowed(cmd)
      [] OTHER -> TRUE

LocksRowOnly(cmd) ==
    IF cmd.action = "create" \/ (cmd.kind = "customer" /\ cmd.action = "update") THEN {} ELSE {cmd.id}
LocksWithoutProduct(cmd) ==
    IF cmd.kind = "unit" /\ cmd.action = "create" THEN {cmd.id} ELSE LocksRowOnly(cmd)
MasterLocks(cmd) ==
    CASE cmd.action = "create" /\ cmd.kind = "unit" -> {cmd.product}
      [] cmd.action \in {"archive", "restore"} /\ cmd.kind = "unit" ->
           {cmd.id} \cup (IF rows[cmd.id] = Missing THEN {} ELSE {rows[cmd.id].product})
      [] OTHER -> LocksRowOnly(cmd)
LockedFor(o) == UNION {MasterLocks(running[p].command) : p \in {q \in MasterOps \ {o} : running[q] # Missing}}

BeginMaster(cmd) ==
    /\ masterOps[cmd.op] = Missing /\ running[cmd.op] = Missing
    /\ MasterLocks(cmd) \cap LockedFor(cmd.op) = {}
    /\ running' = [running EXCEPT ![cmd.op] = [command |-> cmd, allowed |-> MasterDecision(cmd), missed |-> FALSE]]
    /\ UNCHANGED <<masterOps, rows>>

RepeatMaster(cmd) == masterOps[cmd.op] # Missing /\ UNCHANGED masterVars

-----------------------------------------------------------------------------
(* The transaction commits. An answer shows the rows it is about.              *)
Conclude(o, status, written, shown) ==
    /\ masterOps' = [masterOps EXCEPT ![o] =
         [command |-> running[o].command, status |-> status,
          answer |-> [i \in RowIds |-> IF i \in shown THEN written[i] ELSE Missing]]]
    /\ rows' = written
    /\ running' = [running EXCEPT ![o] = Missing]

RefuseMaster(o) == Conclude(o, "rejected", rows, {})

(* A row is written where nothing holds its keys; the rest is refused.         *)
WriteRow(o, id, row, shown) ==
    IF running[o].allowed /\ (row = rows[id] \/ ~Taken(id, row))
    THEN Conclude(o, "applied", [rows EXCEPT ![id] = row], shown)
    ELSE RefuseMaster(o)

IsRunning(o, kinds, actions) ==
    /\ running[o] # Missing /\ ~running[o].missed
    /\ running[o].command.kind \in kinds /\ running[o].command.action \in actions

CreateParty(o) ==
    /\ IsRunning(o, {"customer", "supplier", "category"}, {"create"})
    /\ LET cmd == running[o].command IN
       IF rows[cmd.id] # Missing THEN RefuseMaster(o) ELSE WriteRow(o, cmd.id, FreshRow(o, cmd.fields), {cmd.id})

UpdateParty(o) ==
    /\ IsRunning(o, {"supplier", "category"}, {"update"})
    /\ LET cmd == running[o].command IN
       IF running[o].allowed THEN WriteRow(o, cmd.id, Updated(rows[cmd.id], cmd), {cmd.id}) ELSE RefuseMaster(o)

(* A customer is updated without having been locked. What the update misses is *)
(* looked up for the refusal; should the row then be as the command wanted it, *)
(* nothing is answered and the transaction is undone.                          *)
UpdateCustomer(o) ==
    /\ IsRunning(o, {"customer"}, {"update"})
    /\ LET cmd == running[o].command IN
       /\ cmd.id \notin LockedFor(o)
       /\ IF Stands(cmd) THEN WriteRow(o, cmd.id, Updated(rows[cmd.id], cmd), {cmd.id})
          ELSE running' = [running EXCEPT ![o].missed = TRUE] /\ UNCHANGED <<masterOps, rows>>
ClassifyMissedUpdate(o) ==
    /\ running[o] # Missing /\ running[o].missed
    /\ IF Stands(running[o].command) THEN running' = [running EXCEPT ![o] = Missing] /\ UNCHANGED <<masterOps, rows>>
       ELSE RefuseMaster(o)

ChangePartyLifecycle(o) ==
    /\ IsRunning(o, {"customer", "supplier", "category"}, {"archive", "restore"})
    /\ LET cmd == running[o].command IN
       IF running[o].allowed THEN WriteRow(o, cmd.id, Cycled(rows[cmd.id], cmd), {cmd.id}) ELSE RefuseMaster(o)

(* A product is created with its base unit, both or neither.                   *)
CreateProduct(o) ==
    /\ IsRunning(o, {"product"}, {"create"})
    /\ LET cmd == running[o].command
           product == FreshRow(o, cmd.fields)
           unit == [FreshRow(o, cmd.unitFields) EXCEPT !.product = cmd.id, !.base = TRUE] IN
       IF rows[cmd.id] # Missing \/ rows[cmd.unit] # Missing \/ Taken(cmd.id, product) \/ Taken(cmd.unit, unit)
       THEN RefuseMaster(o)
       ELSE Conclude(o, "applied", [rows EXCEPT ![cmd.id] = product, ![cmd.unit] = unit], {cmd.id, cmd.unit})

UpdateProduct(o) ==
    /\ IsRunning(o, {"product"}, {"update"})
    /\ LET cmd == running[o].command IN
       IF running[o].allowed
       THEN WriteRow(o, cmd.id, Updated(rows[cmd.id], cmd), {cmd.id} \cup UnitsOf(cmd.id)) ELSE RefuseMaster(o)

ChangeProductLifecycle(o) ==
    /\ IsRunning(o, {"product"}, {"archive", "restore"})
    /\ LET cmd == running[o].command IN
       IF running[o].allowed
       THEN WriteRow(o, cmd.id, Cycled(rows[cmd.id], cmd), {cmd.id} \cup UnitsOf(cmd.id)) ELSE RefuseMaster(o)

CreateUnit(o) ==
    /\ IsRunning(o, {"unit"}, {"create"})
    /\ LET cmd == running[o].command IN
       IF rows[cmd.id] # Missing THEN RefuseMaster(o)
       ELSE WriteRow(o, cmd.id, [FreshRow(o, cmd.fields) EXCEPT !.product = cmd.product], {cmd.id})

UpdateUnit(o) ==
    /\ IsRunning(o, {"unit"}, {"update"})
    /\ LET cmd == running[o].command IN
       IF running[o].allowed THEN WriteRow(o, cmd.id, Updated(rows[cmd.id], cmd), {cmd.id}) ELSE RefuseMaster(o)

ChangeUnitLifecycle(o) ==
    /\ IsRunning(o, {"unit"}, {"archive", "restore"})
    /\ LET cmd == running[o].command IN
       IF running[o].allowed THEN WriteRow(o, cmd.id, Cycled(rows[cmd.id], cmd), {cmd.id}) ELSE RefuseMaster(o)

(* Settings are there once the store was provisioned, however often it is; the *)
(* provisioning stands here for an operation.                                  *)
EnsureSettings(o) ==
    /\ IsRunning(o, {"settings"}, {"ensure"})
    /\ LET cmd == running[o].command IN
       Conclude(o, "applied", IF rows[cmd.id] # Missing THEN rows ELSE [rows EXCEPT ![cmd.id] = FreshRow(o, cmd.fields)],
              {cmd.id})
UpdateSettings(o) ==
    /\ IsRunning(o, {"settings"}, {"update"})
    /\ LET cmd == running[o].command IN
       IF running[o].allowed THEN WriteRow(o, cmd.id, Updated(rows[cmd.id], cmd), {cmd.id}) ELSE RefuseMaster(o)

ServeMasterData(commands) ==
    \/ \E cmd \in {c \in commands : MasterAccepted(c)} : BeginMaster(cmd) \/ RepeatMaster(cmd)
    \/ \E o \in MasterOps :
        \/ CreateParty(o) \/ UpdateParty(o) \/ ChangePartyLifecycle(o)
        \/ UpdateCustomer(o) \/ ClassifyMissedUpdate(o)
        \/ CreateProduct(o) \/ UpdateProduct(o) \/ ChangeProductLifecycle(o)
        \/ CreateUnit(o) \/ UpdateUnit(o) \/ ChangeUnitLifecycle(o)
        \/ EnsureSettings(o) \/ UpdateSettings(o)

MasterSpec == MasterInit /\ [][ServeMasterData(MasterCommands)]_masterVars

-----------------------------------------------------------------------------
KeptTexts == {Collapse[t] : t \in DOMAIN Collapse} \cup {Missing}
KeptFields ==
    [Columns("customer") -> KeptTexts] \cup [Columns("product") -> KeptTexts]
      \cup [Columns("unit") -> KeptTexts] \cup [Columns("settings") -> KeptTexts]
MasterRows ==
    [version : Nat \ {0}, status : {"active", "archived"}, op : MasterOps, fields : KeptFields,
     product : RowIds \cup {Missing}, base : BOOLEAN]
RunningRows == [command : MasterCommands, allowed : BOOLEAN, missed : BOOLEAN]
CompletedRows ==
    [command : MasterCommands, status : {"applied", "rejected"},
     answer : [RowIds -> MasterRows \cup {Missing}]]
ASSUME MissingAssumption ==
    Missing \notin RowIds \cup MasterRows \cup RunningRows \cup CompletedRows

MasterTypeOK ==
    /\ masterOps \in [MasterOps -> CompletedRows \cup {Missing}]
    /\ rows \in [RowIds -> MasterRows \cup {Missing}]
    /\ running \in [MasterOps -> RunningRows \cup {Missing}]

AppliedCommands == {o \in MasterOps : masterOps[o] # Missing /\ masterOps[o].status = "applied"}
AnswersOf(i) == {masterOps[o].answer[i] : o \in AppliedCommands} \ {Missing}

(* Whoever asks by a unit finds the base unit its factor is of: no unit of a   *)
(* product is in use without its base, and no product has two.                 *)
UnitsHaveTheirBase ==
    \A i \in RowIds : KindOf[i] = "product" /\ rows[i] # Missing =>
        /\ ActiveConversions(i) # {} => ActiveBases(i) # {}
        /\ \A u, w \in ActiveBases(i) : u = w

(* A version of a row tells its content, to everyone who was answered with it,  *)
(* and every version there has been was some command's.                        *)
VersionTellsContent ==
    \A i \in RowIds : rows[i] # Missing =>
        /\ \A a, b \in AnswersOf(i) \cup {rows[i]} : a.version = b.version => a = b
        /\ {a.version : a \in AnswersOf(i)} = 1..rows[i].version

(* No change is lost: an applied command found the version it named, and what  *)
(* it did not name is as in that version.                                      *)
NothingLost ==
    \A o \in AppliedCommands :
        LET cmd == masterOps[o].command IN
        cmd.action \in {"update", "archive", "restore"} =>
            \E a \in AnswersOf(cmd.id) :
                /\ a.version = cmd.version
                /\ masterOps[o].answer[cmd.id] \in
                     {a, IF cmd.action = "update" THEN Updated(a, cmd) ELSE Cycled(a, cmd)}

(* Two of a kind never have the same key, nor the same operation, be they      *)
(* archived or not: a restore finds its keys free.                             *)
KeysTell == \A i \in RowIds : rows[i] # Missing => ~Taken(i, rows[i])

(* What a store keeps is sound under any interleaving of the commands.          *)
MasterDataSound == UnitsHaveTheirBase /\ VersionTellsContent /\ NothingLost /\ KeysTell
=============================================================================
