-------------------------- MODULE MasterDataProofs --------------------------
(***************************************************************************)
(* Proofs about MasterData, for any rows, operations and commands.         *)
(* A command decides under the locks of its rows and writes later.  What   *)
(* it decided still stands then (DecisionsStand), because two commands     *)
(* that may write never hold a row together (LocksApart), a unit belongs   *)
(* to one product for good (UnitsRefer), and the units of a product are    *)
(* created, archived and restored under the lock of the product.           *)
(***************************************************************************)
EXTENDS MasterData, TLAPS

RowsFit == \A i \in RowIds : rows[i] # Missing => DOMAIN rows[i].fields = Columns(KindOf[i])

\* A unit is of a product that is there.
UnitsRefer ==
    \A i \in RowIds : (KindOf[i] = "unit" /\ rows[i] # Missing) =>
        /\ rows[i].product \in RowIds /\ KindOf[rows[i].product] = "product"
        /\ rows[rows[i].product] # Missing

\* An operation is under way or done, and rows are written by what is done.
OperationsOnce ==
    /\ \A o \in MasterOps : running[o] # Missing =>
         running[o].command.op = o /\ masterOps[o] = Missing
    /\ \A i \in RowIds : rows[i] # Missing => masterOps[rows[i].op] # Missing

AnswersExist == \A i \in RowIds : AnswersOf(i) # {} => rows[i] # Missing

\* The commands that may write: what they decided, and what they hold.
Allowed(o) == running[o] # Missing /\ running[o].allowed
DecisionsStand == \A o \in MasterOps : Allowed(o) => MasterDecision(running[o].command)
LocksApart ==
    \A o, p \in MasterOps : (o # p /\ Allowed(o) /\ Allowed(p)) =>
        MasterLocks(running[o].command) \cap MasterLocks(running[p].command) = {}

MasterIInv ==
    /\ MasterTypeOK /\ RowsFit /\ UnitsRefer /\ OperationsOnce /\ AnswersExist
    /\ DecisionsStand /\ LocksApart
    /\ MasterDataSound

-----------------------------------------------------------------------------
(* Rows: what a creation, an edit and a change of status make of them.       *)
LEMMA CommandFacts ==
    ASSUME NEW cmd \in MasterCommands
    PROVE  /\ cmd.op \in MasterOps /\ cmd.id \in RowIds
           /\ cmd.kind \in Kinds /\ KindOf[cmd.id] = cmd.kind
           /\ cmd.action \in {"ensure", "create", "update", "archive", "restore"}
           /\ cmd.action = "ensure" => cmd.kind = "settings"
           /\ cmd.action \in {"ensure", "create"} =>
                DOMAIN cmd.fields = Columns(cmd.kind) /\ IsText(cmd.fields)
           /\ cmd.action = "update" =>
                DOMAIN cmd.fields \subseteq Columns(cmd.kind) /\ IsText(cmd.fields)
           /\ (cmd.kind = "product" /\ cmd.action = "create") =>
                /\ cmd.unit \in RowIds /\ KindOf[cmd.unit] = "unit"
                /\ DOMAIN cmd.unitFields = Columns("unit") /\ IsText(cmd.unitFields)
           /\ (cmd.kind = "unit" /\ cmd.action = "create") => cmd.product \in RowIds
BY MasterCommandsAssumption

LEMMA RowFacts ==
    ASSUME NEW row \in MasterRows
    PROVE  /\ row # Missing /\ row.version \in Nat \ {0} /\ row.status \in {"active", "archived"}
           /\ row.op \in MasterOps /\ row.fields \in KeptFields
           /\ row.product \in RowIds \cup {Missing} /\ row.base \in BOOLEAN
BY MissingAssumption DEF MasterRows

\* The columns of a kind with texts that are kept are fields of a row.
LEMMA FieldsKept ==
    ASSUME NEW kind \in Kinds, NEW fields \in [Columns(kind) -> KeptTexts]
    PROVE  fields \in KeptFields
<1>1. CASE kind \in {"customer", "supplier"} BY <1>1 DEF Columns, KeptFields
<1>2. CASE kind = "product" BY <1>2 DEF Columns, KeptFields
<1>3. CASE kind \in {"unit", "category"} BY <1>3 DEF Columns, KeptFields
<1>4. CASE kind = "settings" BY <1>4 DEF Columns, KeptFields
<1> QED BY <1>1, <1>2, <1>3, <1>4 DEF Kinds

LEMMA PreparedFits ==
    ASSUME NEW fields, IsText(fields)
    PROVE  Prepared(fields) \in [DOMAIN fields -> KeptTexts]
BY DEF Prepared, IsText, KeptTexts

LEMMA FreshFits ==
    ASSUME NEW op \in MasterOps, NEW kind \in Kinds, NEW fields,
           DOMAIN fields = Columns(kind), IsText(fields),
           NEW row, row = FreshRow(op, fields)
    PROVE  /\ row \in MasterRows /\ row.version = 1 /\ row.status = "active" /\ row.op = op
           /\ row.product = Missing /\ ~row.base /\ DOMAIN row.fields = Columns(kind)
<1>1. Prepared(fields) \in [Columns(kind) -> KeptTexts] BY PreparedFits
<1>2. Prepared(fields) \in KeptFields BY <1>1, FieldsKept
<1> QED BY <1>1, <1>2 DEF FreshRow, MasterRows

LEMMA CreatedFits ==
    ASSUME NEW cmd \in MasterCommands, cmd.action \in {"ensure", "create"},
           NEW op \in MasterOps, NEW row, row = FreshRow(op, cmd.fields)
    PROVE  /\ row \in MasterRows /\ row.version = 1 /\ row.status = "active" /\ row.op = op
           /\ row.product = Missing /\ ~row.base
           /\ DOMAIN row.fields = Columns(cmd.kind)
<1>1. /\ cmd.kind \in Kinds /\ DOMAIN cmd.fields = Columns(cmd.kind) /\ IsText(cmd.fields)
  BY CommandFacts
<1> QED BY <1>1, FreshFits

\* A row is put under a product, as its base or as another unit of it.
Base(row, product) == [row EXCEPT !.product = product, !.base = TRUE]
Conversion(row, product) == [row EXCEPT !.product = product]
LEMMA BaseFits ==
    ASSUME NEW row \in MasterRows, NEW product \in RowIds,
           NEW new, new = Base(row, product)
    PROVE  /\ new \in MasterRows /\ new.version = row.version /\ new.status = row.status
           /\ new.op = row.op /\ new.fields = row.fields
           /\ new.product = product /\ new.base
BY DEF MasterRows, Base

LEMMA ConversionFits ==
    ASSUME NEW row \in MasterRows, NEW product \in RowIds,
           NEW new, new = Conversion(row, product)
    PROVE  /\ new \in MasterRows /\ new.version = row.version /\ new.status = row.status
           /\ new.op = row.op /\ new.fields = row.fields
           /\ new.product = product /\ (~row.base => ~new.base)
BY DEF MasterRows, Conversion

LEMMA UpdatedFits ==
    ASSUME NEW row \in MasterRows, NEW cmd \in MasterCommands, cmd.action = "update",
           DOMAIN row.fields = Columns(cmd.kind)
    PROVE  LET new == Updated(row, cmd) IN
           /\ new \in MasterRows /\ new.status = row.status
           /\ new.product = row.product /\ new.base = row.base
           /\ DOMAIN new.fields = Columns(cmd.kind)
           /\ new = row \/ (new.version = row.version + 1 /\ new.op = cmd.op)
<1> DEFINE fields == Overlaid(row.fields, Prepared(cmd.fields))
           new == [row EXCEPT !.version = @ + 1, !.op = cmd.op, !.fields = fields]
<1>1. /\ cmd.op \in MasterOps /\ cmd.kind \in Kinds
      /\ DOMAIN cmd.fields \subseteq Columns(cmd.kind) /\ IsText(cmd.fields)
  BY CommandFacts
<1>2. Prepared(cmd.fields) \in [DOMAIN cmd.fields -> KeptTexts] BY <1>1, PreparedFits
<1>3. \A f \in Columns(cmd.kind) : row.fields[f] \in KeptTexts BY DEF MasterRows, KeptFields
<1>4. fields \in [Columns(cmd.kind) -> KeptTexts] BY <1>1, <1>2, <1>3 DEF Overlaid
<1>5. fields \in KeptFields /\ DOMAIN fields = Columns(cmd.kind) BY <1>1, <1>4, FieldsKept
<1>6. Updated(row, cmd) = row \/ Updated(row, cmd) = new BY DEF Updated
<1> HIDE DEF fields
<1>7. row.version \in Nat \ {0} /\ row.version + 1 \in Nat \ {0} BY DEF MasterRows
<1>8. /\ new \in MasterRows /\ new.status = row.status /\ new.product = row.product
      /\ new.base = row.base /\ new.fields = fields
      /\ new.version = row.version + 1 /\ new.op = cmd.op
  BY <1>1, <1>5, <1>7 DEF MasterRows
<1> HIDE DEF new
<1> QED BY <1>5, <1>6, <1>8

LEMMA CycledFits ==
    ASSUME NEW row \in MasterRows, NEW cmd \in MasterCommands
    PROVE  LET new == Cycled(row, cmd) IN
           /\ new \in MasterRows /\ new.status = StatusAfter(cmd)
           /\ new.product = row.product /\ new.base = row.base /\ new.fields = row.fields
           /\ new = row \/ (new.version = row.version + 1 /\ new.op = cmd.op)
<1> DEFINE new == [row EXCEPT !.version = @ + 1, !.op = cmd.op, !.status = StatusAfter(cmd)]
<1>1. cmd.op \in MasterOps BY CommandFacts
<1>2. (row.status = StatusAfter(cmd) /\ Cycled(row, cmd) = row) \/ Cycled(row, cmd) = new
  BY DEF Cycled
<1>3. StatusAfter(cmd) \in {"active", "archived"} BY DEF StatusAfter
<1>4. row.version \in Nat \ {0} /\ row.version + 1 \in Nat \ {0} BY DEF MasterRows
<1>5. /\ new \in MasterRows /\ new.status = StatusAfter(cmd) /\ new.product = row.product
      /\ new.base = row.base /\ new.fields = row.fields
      /\ new.version = row.version + 1 /\ new.op = cmd.op
  BY <1>1, <1>3, <1>4 DEF MasterRows
<1> HIDE DEF new
<1> QED BY <1>2, <1>5

-----------------------------------------------------------------------------
(* What is written leaves alone what the other commands have decided on.     *)
Untouched(written, locks) ==
    /\ \A i \in RowIds : rows[i] # Missing =>
         /\ written[i] # Missing
         /\ written[i].product = rows[i].product /\ written[i].base = rows[i].base
    /\ \A i \in RowIds \cap locks : rows[i] # Missing => written[i] = rows[i]
    /\ \A u \in RowIds :
         /\ KindOf[u] = "unit" /\ written[u] # Missing
         /\ written[u].product \in locks /\ rows[written[u].product] # Missing
         => rows[u] # Missing /\ written[u].status = rows[u].status

\* The units of a product that is held, and those of them in use, stay.
LEMMA HeldUnitsStay ==
    ASSUME NEW locks, Untouched(rows', locks),
           NEW product \in locks \cap RowIds, rows[product] # Missing
    PROVE  /\ ActiveBases(product)' = ActiveBases(product)
           /\ ActiveConversions(product)' = ActiveConversions(product)
<1>1. \A u \in RowIds : KindOf[u] = "unit" =>
        (rows'[u] # Missing /\ rows'[u].product = product)
          <=> (rows[u] # Missing /\ rows[u].product = product)
  BY DEF Untouched
<1>2. \A u \in RowIds : (KindOf[u] = "unit" /\ rows[u] # Missing /\ rows[u].product = product) =>
        /\ rows'[u].status = rows[u].status /\ rows'[u].base = rows[u].base
        /\ rows'[u] # Missing
  BY DEF Untouched
<1>3. UnitsOf(product)' = UnitsOf(product) BY <1>1 DEF UnitsOf
<1>4. \A u \in UnitsOf(product) : (IsActive(u)' <=> IsActive(u)) /\ rows'[u].base = rows[u].base
  BY <1>2 DEF UnitsOf, IsActive
<1> QED BY <1>3, <1>4 DEF ActiveBases, ActiveConversions

\* A decision stands, on the same rows, while its rows are left alone.
LEMMA DecisionStays ==
    ASSUME UnitsRefer, NEW cmd \in MasterCommands, MasterDecision(cmd),
           NEW locks, locks = MasterLocks(cmd), Untouched(rows', locks)
    PROVE  MasterDecision(cmd)' /\ MasterLocks(cmd)' = MasterLocks(cmd)
<1>1. cmd.id \in RowIds /\ KindOf[cmd.id] = cmd.kind BY CommandFacts
<1>2. CASE cmd.action = "create" /\ cmd.kind = "unit"
  <2>1. cmd.product \in RowIds BY <1>2, CommandFacts
  <2>2. locks = {cmd.product} /\ MasterLocks(cmd)' = {cmd.product} BY <1>2 DEF MasterLocks
  <2>3. UnitCreateAllowed(cmd) BY <1>2 DEF MasterDecision
  <2>4. rows[cmd.product] # Missing BY <2>3 DEF UnitCreateAllowed, IsActive
  <2>5. rows'[cmd.product] = rows[cmd.product] BY <2>1, <2>2, <2>4 DEF Untouched
  <2>6. ActiveBases(cmd.product)' = ActiveBases(cmd.product)
    BY <2>1, <2>2, <2>4, HeldUnitsStay
  <2>7. UnitCreateAllowed(cmd)' BY <2>3, <2>5, <2>6 DEF UnitCreateAllowed, IsActive
  <2> QED BY <1>2, <2>2, <2>7 DEF MasterDecision
<1>3. CASE cmd.action = "update" /\ cmd.kind # "customer"
  <2>1. locks = {cmd.id} /\ MasterLocks(cmd)' = {cmd.id} BY <1>3 DEF MasterLocks, LocksRowOnly
  <2>2. Stands(cmd) BY <1>3 DEF MasterDecision
  <2>3. rows'[cmd.id] = rows[cmd.id] BY <1>1, <2>1, <2>2 DEF Untouched, Stands
  <2>4. Stands(cmd)' BY <2>2, <2>3 DEF Stands
  <2> QED BY <1>3, <2>1, <2>4 DEF MasterDecision
<1>4. CASE cmd.action \in {"archive", "restore"} /\ cmd.kind = "unit"
  <2>0. PICK product : product = rows[cmd.id].product OBVIOUS
  <2>1. UnitLifecycleAllowed(cmd) BY <1>4 DEF MasterDecision
  <2>2. rows[cmd.id] # Missing BY <2>1 DEF UnitLifecycleAllowed
  <2>3. product \in RowIds /\ rows[product] # Missing BY <1>1, <1>4, <2>0, <2>2 DEF UnitsRefer
  <2>4. locks = {cmd.id, product} BY <1>4, <2>0, <2>2 DEF MasterLocks
  <2>5. rows'[cmd.id] = rows[cmd.id] /\ rows'[product] = rows[product]
    BY <1>1, <2>2, <2>3, <2>4 DEF Untouched
  <2>6. MasterLocks(cmd)' = {cmd.id, product} BY <1>4, <2>0, <2>2, <2>5 DEF MasterLocks
  <2>7. /\ ActiveBases(product)' = ActiveBases(product)
        /\ ActiveConversions(product)' = ActiveConversions(product)
    BY <2>3, <2>4, HeldUnitsStay
  <2>8. UnitStructureAllows(cmd.id, cmd)'
    <3>1. UnitStructureAllows(cmd.id, cmd) BY <2>1 DEF UnitLifecycleAllowed
    <3> QED BY <2>0, <2>5, <2>7, <3>1 DEF UnitStructureAllows
  <2>9. UnitLifecycleAllowed(cmd)'
    BY <2>0, <2>1, <2>5, <2>8 DEF UnitLifecycleAllowed, IsActive
  <2> QED BY <1>4, <2>4, <2>6, <2>9 DEF MasterDecision
<1>5. CASE cmd.action \in {"archive", "restore"} /\ cmd.kind # "unit"
  <2>1. locks = {cmd.id} /\ MasterLocks(cmd)' = {cmd.id} BY <1>5 DEF MasterLocks, LocksRowOnly
  <2>2. PartyLifecycleAllowed(cmd) BY <1>5 DEF MasterDecision
  <2>3. rows'[cmd.id] = rows[cmd.id]
    BY <1>1, <2>1, <2>2 DEF Untouched, PartyLifecycleAllowed
  <2>4. PartyLifecycleAllowed(cmd)' BY <2>2, <2>3 DEF PartyLifecycleAllowed
  <2> QED BY <1>5, <2>1, <2>4 DEF MasterDecision
<1>6. CASE /\ ~(cmd.action = "create" /\ cmd.kind = "unit")
           /\ ~(cmd.action = "update" /\ cmd.kind # "customer")
           /\ ~(cmd.action \in {"archive", "restore"})
  <2>1. MasterLocks(cmd) = LocksRowOnly(cmd) /\ MasterLocks(cmd)' = LocksRowOnly(cmd)
    BY <1>6 DEF MasterLocks, LocksRowOnly
  <2>2. MasterDecision(cmd)' BY <1>6 DEF MasterDecision
  <2> QED BY <2>1, <2>2
<1> QED BY <1>2, <1>3, <1>4, <1>5, <1>6

-----------------------------------------------------------------------------
(* An operation is applied: the rows it writes, and the rows it shows.       *)
WritesWell(o, written, shown) ==
    /\ \A i \in shown : written[i] # Missing
    /\ \A i \in RowIds : written[i] # rows[i] =>
         /\ i \in shown /\ written[i].op = o /\ ~Taken(i, written[i])
         /\ DOMAIN written[i].fields = Columns(KindOf[i])
         /\ rows[i] = Missing => written[i].version = 1
         /\ rows[i] # Missing =>
              /\ written[i].version = rows[i].version + 1
              /\ written[i].product = rows[i].product /\ written[i].base = rows[i].base
    /\ \A i, j \in RowIds :
         (written[i] # rows[i] /\ written[j] # rows[j] /\ KindOf[i] = KindOf[j]) => i = j

\* What an edit or a change of status makes of the version it names.
WritesNamed(cmd, written, shown) ==
    cmd.action \in {"update", "archive", "restore"} =>
        /\ cmd.id \in shown /\ rows[cmd.id] # Missing /\ rows[cmd.id].version = cmd.version
        /\ written[cmd.id] \in {rows[cmd.id],
             IF cmd.action = "update" THEN Updated(rows[cmd.id], cmd) ELSE Cycled(rows[cmd.id], cmd)}

LEMMA AppliedFacts ==
    ASSUME MasterTypeOK, OperationsOnce, NEW o \in MasterOps, running[o] # Missing,
           NEW written, written \in [RowIds -> MasterRows \cup {Missing}],
           NEW shown \in SUBSET RowIds, \A i \in shown : written[i] # Missing,
           Conclude(o, "applied", written, shown)
    PROVE  /\ masterOps[o] = Missing /\ masterOps'[o] # Missing
           /\ masterOps'[o].command = running[o].command
           /\ masterOps'[o].status = "applied"
           /\ \A i \in shown : masterOps'[o].answer[i] = written[i]
           /\ AppliedCommands' = AppliedCommands \cup {o}
           /\ \A p \in MasterOps \ {o} : masterOps'[p] = masterOps[p] /\ running'[p] = running[p]
           /\ \A i \in RowIds : AnswersOf(i)' = AnswersOf(i) \cup {written[j] : j \in {i} \cap shown}
           /\ MasterTypeOK'
<1> DEFINE answer == [i \in RowIds |-> IF i \in shown THEN written[i] ELSE Missing]
           done == [command |-> running[o].command, status |-> "applied", answer |-> answer]
<1>1. masterOps' = [masterOps EXCEPT ![o] = done] /\ rows' = written
      /\ running' = [running EXCEPT ![o] = Missing]
  BY DEF Conclude
<1>2. masterOps[o] = Missing BY DEF OperationsOnce
<1>3. running[o].command \in MasterCommands
  <2>1. running[o] \in RunningRows BY DEF MasterTypeOK
  <2> QED BY <2>1 DEF RunningRows
<1>4. answer \in [RowIds -> MasterRows \cup {Missing}] OBVIOUS
<1>5. \A i \in RowIds : answer[i] = IF i \in shown THEN written[i] ELSE Missing OBVIOUS
<1> HIDE DEF answer
<1>6. done \in CompletedRows BY <1>3, <1>4 DEF CompletedRows
<1>7. done # Missing BY <1>6, MissingAssumption
<1>8. done.command = running[o].command /\ done.status = "applied" /\ done.answer = answer OBVIOUS
<1> HIDE DEF done
<1>9. /\ masterOps'[o] = done
      /\ \A p \in MasterOps \ {o} : masterOps'[p] = masterOps[p] /\ running'[p] = running[p]
  BY <1>1 DEF MasterTypeOK
<1>10. MasterTypeOK'
  <2>1. masterOps' \in [MasterOps -> CompletedRows \cup {Missing}] BY <1>1, <1>6 DEF MasterTypeOK
  <2>2. rows' \in [RowIds -> MasterRows \cup {Missing}] BY <1>1
  <2>3. running' \in [MasterOps -> RunningRows \cup {Missing}] BY <1>1 DEF MasterTypeOK
  <2> QED BY <2>1, <2>2, <2>3 DEF MasterTypeOK
<1>11. AppliedCommands' = AppliedCommands \cup {o} BY <1>7, <1>8, <1>9 DEF AppliedCommands
<1>12. ASSUME NEW i \in RowIds
       PROVE  AnswersOf(i)' = AnswersOf(i) \cup {written[j] : j \in {i} \cap shown}
  <2>1. o \notin AppliedCommands BY <1>2 DEF AppliedCommands
  <2>2. \A p \in AppliedCommands : masterOps'[p] = masterOps[p] BY <1>9, <2>1 DEF AppliedCommands
  <2>3. {masterOps'[p].answer[i] : p \in AppliedCommands'}
          = {masterOps[p].answer[i] : p \in AppliedCommands} \cup {answer[i]}
    BY <1>8, <1>9, <1>11, <2>2
  <2>4. {answer[i]} \ {Missing} = {written[j] : j \in {i} \cap shown} BY <1>5
  <2> QED BY <2>3, <2>4 DEF AnswersOf
<1> QED BY <1>2, <1>5, <1>7, <1>8, <1>9, <1>10, <1>11, <1>12

\* The versions there have been are told apart by what was answered.
LEMMA VersionsStay ==
    ASSUME MasterTypeOK, VersionTellsContent, AnswersExist,
           NEW o \in MasterOps, NEW shown \in SUBSET RowIds,
           NEW written, written \in [RowIds -> MasterRows \cup {Missing}],
           WritesWell(o, written, shown), rows' = written,
           \A i \in RowIds : AnswersOf(i)' = AnswersOf(i) \cup {written[j] : j \in {i} \cap shown}
    PROVE  VersionTellsContent' /\ AnswersExist'
<1>1. AnswersExist'
  <2> SUFFICES ASSUME NEW i \in RowIds, AnswersOf(i)' # {} PROVE rows'[i] # Missing
    BY DEF AnswersExist
  <2>1. CASE i \in shown BY <2>1 DEF WritesWell
  <2>2. CASE i \notin shown
    <3>1. AnswersOf(i) # {} BY <2>2
    <3>2. written[i] = rows[i] BY <2>2 DEF WritesWell
    <3> QED BY <3>1, <3>2 DEF AnswersExist
  <2> QED BY <2>1, <2>2
<1> SUFFICES ASSUME NEW i \in RowIds, rows'[i] # Missing
             PROVE  /\ \A a, b \in AnswersOf(i)' \cup {rows'[i]} : a.version = b.version => a = b
                    /\ {a.version : a \in AnswersOf(i)'} = 1..rows'[i].version
  BY <1>1 DEF VersionTellsContent
<1> DEFINE old == AnswersOf(i)
           new == AnswersOf(i)'
<1>2. new = old \cup {written[j] : j \in {i} \cap shown} OBVIOUS
<1>3. rows[i] # Missing =>
        /\ \A a, b \in old \cup {rows[i]} : a.version = b.version => a = b
        /\ {a.version : a \in old} = 1..rows[i].version
  BY DEF VersionTellsContent
<1>4. rows[i] = Missing => old = {} BY DEF AnswersExist
<1>5. rows[i] # Missing => rows[i].version \in Nat \ {0}
  <2>1. rows[i] \in MasterRows \cup {Missing} BY DEF MasterTypeOK
  <2> QED BY <2>1 DEF MasterRows
<1> HIDE DEF old, new
<1>6. CASE written[i] = rows[i]
  <2>1. rows[i] # Missing BY <1>6
  <2>2. new \subseteq old \cup {rows[i]} /\ old \subseteq new BY <1>2, <1>6
  <2>3. \A a, b \in new \cup {rows[i]} : a.version = b.version => a = b BY <1>3, <2>1, <2>2
  <2>4. rows[i].version \in {a.version : a \in old} BY <1>3, <1>5, <2>1
  <2>5. {a.version : a \in new} = {a.version : a \in old} BY <2>2, <2>4
  <2> QED BY <1>3, <1>6, <2>1, <2>3, <2>5 DEF new
<1>7. CASE written[i] # rows[i] /\ rows[i] = Missing
  <2>1. i \in shown /\ written[i].version = 1 BY <1>7 DEF WritesWell
  <2>2. new = {written[i]} BY <1>2, <1>4, <1>7, <2>1
  <2>3. {a.version : a \in new} = {1} BY <2>1, <2>2
  <2> QED BY <2>1, <2>2, <2>3 DEF new
<1>8. CASE written[i] # rows[i] /\ rows[i] # Missing
  <2>1. i \in shown /\ written[i].version = rows[i].version + 1 BY <1>8 DEF WritesWell
  <2>2. new = old \cup {written[i]} BY <1>2, <2>1
  <2>3. \A a \in old : a.version \in 1..rows[i].version BY <1>3, <1>8
  <2>4. \A a \in old : a.version # written[i].version BY <1>5, <1>8, <2>1, <2>3
  <2>5. \A a, b \in new : a.version = b.version => a = b BY <1>3, <1>8, <2>2, <2>4
  <2>6. {a.version : a \in new} = {a.version : a \in old} \cup {rows[i].version + 1}
    BY <2>1, <2>2
  <2>7. {a.version : a \in new} = 1..rows[i].version \cup {rows[i].version + 1}
    BY <1>3, <1>8, <2>6
  <2>8. 1..rows[i].version \cup {rows[i].version + 1} = 1..(rows[i].version + 1)
    BY <1>5, <1>8
  <2> QED BY <2>1, <2>2, <2>5, <2>7, <2>8 DEF new
<1> QED BY <1>6, <1>7, <1>8

\* What was applied stays applied; a new operation finds the version it names.
LEMMA NothingIsLost ==
    ASSUME MasterTypeOK, VersionTellsContent, NothingLost, NEW o \in MasterOps,
           NEW shown \in SUBSET RowIds, NEW written,
           NEW asked, asked.id \in RowIds, WritesNamed(asked, written, shown),
           masterOps'[o].command = asked,
           \A i \in shown : masterOps'[o].answer[i] = written[i],
           AppliedCommands' = AppliedCommands \cup {o},
           \A p \in MasterOps \ {o} : masterOps'[p] = masterOps[p],
           \A p \in MasterOps : masterOps[p] # Missing => masterOps[p].command.id \in RowIds,
           \A i \in RowIds : AnswersOf(i)' = AnswersOf(i) \cup {written[j] : j \in {i} \cap shown}
    PROVE  NothingLost'
<1> SUFFICES ASSUME NEW p \in AppliedCommands',
                    NEW cmd, cmd = masterOps'[p].command,
                    cmd.action \in {"update", "archive", "restore"}
             PROVE  \E a \in AnswersOf(cmd.id)' :
                      /\ a.version = cmd.version
                      /\ masterOps'[p].answer[cmd.id] \in
                           {a, IF cmd.action = "update" THEN Updated(a, cmd) ELSE Cycled(a, cmd)}
  BY DEF NothingLost
<1>1. CASE p = o
  <2>1. cmd = asked BY <1>1
  <2>2. /\ cmd.id \in shown /\ rows[cmd.id] # Missing /\ rows[cmd.id].version = cmd.version
        /\ written[cmd.id] \in {rows[cmd.id],
             IF cmd.action = "update" THEN Updated(rows[cmd.id], cmd) ELSE Cycled(rows[cmd.id], cmd)}
    BY <2>1 DEF WritesNamed
  <2>3. cmd.id \in RowIds BY <2>1
  <2>4. rows[cmd.id].version \in Nat \ {0}
    <3>1. rows[cmd.id] \in MasterRows \cup {Missing} BY <2>3 DEF MasterTypeOK
    <3> QED BY <2>2, <3>1 DEF MasterRows
  <2>5. /\ \A a, b \in AnswersOf(cmd.id) \cup {rows[cmd.id]} : a.version = b.version => a = b
        /\ {a.version : a \in AnswersOf(cmd.id)} = 1..rows[cmd.id].version
    BY <2>2, <2>3 DEF VersionTellsContent
  <2>6. rows[cmd.id].version \in {a.version : a \in AnswersOf(cmd.id)} BY <2>4, <2>5
  <2>7. rows[cmd.id] \in AnswersOf(cmd.id) BY <2>5, <2>6
  <2>8. masterOps'[o].answer[cmd.id] = written[cmd.id] BY <2>2
  <2> QED BY <1>1, <2>2, <2>3, <2>7, <2>8
<1>2. CASE p # o
  <2>1. p \in AppliedCommands /\ masterOps'[p] = masterOps[p] BY <1>2 DEF AppliedCommands
  <2>2. cmd = masterOps[p].command /\ cmd.id \in RowIds BY <2>1 DEF AppliedCommands
  <2>3. PICK a \in AnswersOf(cmd.id) :
          /\ a.version = cmd.version
          /\ masterOps[p].answer[cmd.id] \in
               {a, IF cmd.action = "update" THEN Updated(a, cmd) ELSE Cycled(a, cmd)}
    BY <2>1, <2>2 DEF NothingLost
  <2>4. a \in AnswersOf(cmd.id)' BY <2>2
  <2> QED BY <2>1, <2>3, <2>4
<1> QED BY <1>1, <1>2

\* A row that is in the way of another of its kind.
Clash(kind, row, other) ==
    \/ /\ other.product = row.product
       /\ \E f \in DOMAIN row.fields :
            Compared(kind, f) /\ Key(row, f) # Missing /\ Key(row, f) = Key(other, f)
    \/ other.op = row.op

LEMMA TakenByClash ==
    ASSUME NEW id, NEW row
    PROVE  Taken(id, row) <=>
             \E i \in RowIds \ {id} :
                KindOf[i] = KindOf[id] /\ rows[i] # Missing /\ Clash(KindOf[id], row, rows[i])
BY DEF Taken, Collides, Clash

LEMMA ClashIsMutual ==
    ASSUME NEW kind, NEW row, NEW other, DOMAIN row.fields = DOMAIN other.fields,
           Clash(kind, row, other)
    PROVE  Clash(kind, other, row)
<1> HIDE DEF Compared
<1>1. \A f : f \notin DOMAIN row.fields => Key(row, f) = Missing BY DEF Key
<1> QED BY DEF Clash

\* A row that nothing held against keeps its keys, and so do the others.
LEMMA KeysStay ==
    ASSUME RowsFit, OperationsOnce, KeysTell, NEW o \in MasterOps, masterOps[o] = Missing,
           NEW shown, NEW written, WritesWell(o, written, shown), rows' = written
    PROVE  KeysTell' /\ RowsFit'
<1>1. RowsFit'
  <2> SUFFICES ASSUME NEW i \in RowIds, rows'[i] # Missing
               PROVE  DOMAIN rows'[i].fields = Columns(KindOf[i])
    BY DEF RowsFit
  <2> QED BY DEF RowsFit, WritesWell
<1> SUFFICES ASSUME NEW i \in RowIds, rows'[i] # Missing, Taken(i, rows[i])' PROVE FALSE
  BY <1>1 DEF KeysTell
<1>2. PICK j \in RowIds \ {i} :
        KindOf[j] = KindOf[i] /\ written[j] # Missing /\ Clash(KindOf[i], written[i], written[j])
  BY DEF Taken, Collides, Clash, Key
<1>3. Clash(KindOf[i], written[j], written[i])
  <2>1. DOMAIN written[i].fields = DOMAIN written[j].fields BY <1>1, <1>2 DEF RowsFit
  <2> QED BY <1>2, <2>1, ClashIsMutual
<1>4. CASE written[i] = rows[i] /\ written[j] = rows[j]
  <2>1. ~Taken(i, rows[i]) BY <1>4 DEF KeysTell
  <2> QED BY <1>2, <1>4, <2>1, TakenByClash
<1>5. CASE written[i] # rows[i] /\ written[j] = rows[j]
  <2>1. ~Taken(i, written[i]) BY <1>5 DEF WritesWell
  <2> QED BY <1>2, <1>5, <2>1, TakenByClash
<1>6. CASE written[i] = rows[i] /\ written[j] # rows[j]
  <2>1. ~Taken(j, written[j]) BY <1>2, <1>6 DEF WritesWell
  <2> QED BY <1>2, <1>3, <1>6, <2>1, TakenByClash
<1>7. CASE written[i] # rows[i] /\ written[j] # rows[j]
  BY <1>2, <1>7 DEF WritesWell
<1> QED BY <1>4, <1>5, <1>6, <1>7

\* What an operation writes is held by it, or by nobody.
WritesHeld(o, written) ==
    /\ \A i \in RowIds : (rows[i] # Missing /\ written[i] # rows[i]) =>
         (Allowed(o) /\ i \in MasterLocks(running[o].command)) \/ i \notin LockedFor(o)
    /\ \A u \in RowIds :
         /\ KindOf[u] = "unit" /\ written[u] # Missing
         /\ rows[u] = Missing \/ written[u].status # rows[u].status
         => \/ rows[written[u].product] = Missing
            \/ Allowed(o) /\ written[u].product \in MasterLocks(running[o].command)

LEMMA OthersStand ==
    ASSUME MasterTypeOK, UnitsRefer, DecisionsStand, LocksApart, NEW o \in MasterOps,
           NEW shown, NEW written, WritesWell(o, written, shown), WritesHeld(o, written),
           rows' = written, running' = [running EXCEPT ![o] = Missing]
    PROVE  DecisionsStand' /\ LocksApart'
<1>1. running'[o] = Missing /\ \A p \in MasterOps \ {o} : running'[p] = running[p]
  BY DEF MasterTypeOK
<1>2. ASSUME NEW p \in MasterOps, Allowed(p)'
      PROVE  /\ p # o /\ Allowed(p) /\ running'[p] = running[p]
             /\ MasterDecision(running[p].command)'
             /\ MasterLocks(running[p].command)' = MasterLocks(running[p].command)
  <2>1. p # o /\ running'[p] = running[p] /\ Allowed(p) BY <1>1, <1>2 DEF Allowed
  <2> PICK cmd : cmd = running[p].command OBVIOUS
  <2>2. cmd \in MasterCommands
    <3>1. running[p] \in RunningRows BY <2>1 DEF MasterTypeOK, Allowed
    <3> QED BY <3>1 DEF RunningRows
  <2>3. MasterDecision(cmd) BY <2>1 DEF DecisionsStand
  <2> PICK locks : locks = MasterLocks(cmd) OBVIOUS
  <2>4. locks \subseteq LockedFor(o) BY <2>1 DEF LockedFor, Allowed
  <2>5. Allowed(o) => locks \cap MasterLocks(running[o].command) = {}
    BY <2>1 DEF LocksApart
  <2>6. Untouched(written, locks)
    <3>1. \A i \in RowIds : rows[i] # Missing =>
            /\ written[i] # Missing
            /\ written[i].product = rows[i].product /\ written[i].base = rows[i].base
      BY DEF WritesWell
    <3>2. \A i \in RowIds \cap locks : rows[i] # Missing => written[i] = rows[i]
      BY <2>4, <2>5 DEF WritesHeld
    <3>3. ASSUME NEW u \in RowIds, KindOf[u] = "unit", written[u] # Missing,
                 written[u].product \in locks, rows[written[u].product] # Missing
          PROVE  rows[u] # Missing /\ written[u].status = rows[u].status
      BY <2>5, <3>3 DEF WritesHeld
    <3> QED BY <3>1, <3>2, <3>3 DEF Untouched
  <2>7. MasterDecision(cmd)' /\ MasterLocks(cmd)' = MasterLocks(cmd)
    BY <2>2, <2>3, <2>6, DecisionStays
  <2>8. MasterDecision(running[p].command)' /\ MasterLocks(running[p].command)' = MasterLocks(cmd)
    BY <2>1, <2>7
  <2> QED BY <2>1, <2>8
<1>3. DecisionsStand' BY <1>2 DEF DecisionsStand
<1>4. LocksApart' BY <1>2 DEF LocksApart
<1> QED BY <1>3, <1>4

-----------------------------------------------------------------------------
(* The units of a product.                                                   *)
LEMMA UnitsStayUnderProducts ==
    ASSUME UnitsRefer, NEW o, NEW shown, NEW written, WritesWell(o, written, shown),
           rows' = written,
           \A u \in RowIds : (KindOf[u] = "unit" /\ written[u] # Missing /\ rows[u] = Missing) =>
             /\ written[u].product \in RowIds /\ KindOf[written[u].product] = "product"
             /\ written[written[u].product] # Missing
    PROVE  UnitsRefer'
<1>1. \A i \in RowIds : rows[i] # Missing => written[i] # Missing BY DEF WritesWell
<1>2. \A u \in RowIds : rows[u] # Missing => written[u].product = rows[u].product
  BY DEF WritesWell
<1> QED BY <1>1, <1>2 DEF UnitsRefer

\* The units in use, one by one.
LEMMA InUse ==
    ASSUME NEW product
    PROVE  /\ \A u : u \in ActiveBases(product) <=>
                /\ u \in RowIds /\ KindOf[u] = "unit" /\ rows[u] # Missing
                /\ rows[u].product = product /\ rows[u].status = "active" /\ rows[u].base
           /\ \A u : u \in ActiveConversions(product) <=>
                /\ u \in RowIds /\ KindOf[u] = "unit" /\ rows[u] # Missing
                /\ rows[u].product = product /\ rows[u].status = "active" /\ ~rows[u].base
BY DEF ActiveBases, ActiveConversions, UnitsOf, IsActive

\* A product without a row has no units; so the rows need not be asked for.
LEMMA EveryProductHasItsBase ==
    ASSUME UnitsRefer, UnitsHaveTheirBase, NEW product \in RowIds
    PROVE  /\ ActiveConversions(product) # {} => ActiveBases(product) # {}
           /\ \A u, w \in ActiveBases(product) : u = w
<1>1. CASE KindOf[product] = "product" /\ rows[product] # Missing BY <1>1 DEF UnitsHaveTheirBase
<1>2. CASE ~(KindOf[product] = "product" /\ rows[product] # Missing)
  <2>1. ActiveBases(product) = {} /\ ActiveConversions(product) = {} BY <1>2, InUse DEF UnitsRefer
  <2> QED BY <2>1
<1> QED BY <1>1, <1>2

\* Nothing changes where no unit comes or goes.
LEMMA UnitsSteady ==
    ASSUME UnitsRefer, UnitsHaveTheirBase, NEW o, NEW shown, NEW written,
           WritesWell(o, written, shown), rows' = written,
           \A u \in RowIds : (KindOf[u] = "unit" /\ written[u] # Missing) =>
             rows[u] # Missing /\ written[u].status = rows[u].status
    PROVE  UnitsRefer' /\ UnitsHaveTheirBase'
<1>1. UnitsRefer' BY UnitsStayUnderProducts
<1>2. \A u \in RowIds : rows[u] # Missing =>
        /\ written[u] # Missing
        /\ written[u].product = rows[u].product /\ written[u].base = rows[u].base
  BY DEF WritesWell
<1> SUFFICES ASSUME NEW i \in RowIds
             PROVE  /\ ActiveConversions(i)' # {} => ActiveBases(i)' # {}
                    /\ \A u, w \in ActiveBases(i)' : u = w
  BY <1>1 DEF UnitsHaveTheirBase
<1>3. UnitsOf(i)' = UnitsOf(i) BY <1>2 DEF UnitsOf
<1>4. \A u \in UnitsOf(i) : (IsActive(u)' <=> IsActive(u)) /\ rows'[u].base = rows[u].base
  BY <1>2 DEF UnitsOf, IsActive
<1>5. ActiveBases(i)' = ActiveBases(i) /\ ActiveConversions(i)' = ActiveConversions(i)
  BY <1>3, <1>4 DEF ActiveBases, ActiveConversions
<1> QED BY <1>5, EveryProductHasItsBase

\* A unit is created in use, as another unit of a product that has its base.
LEMMA UnitComes ==
    ASSUME UnitsRefer, UnitsHaveTheirBase, NEW o, NEW shown, NEW written,
           WritesWell(o, written, shown), rows' = written,
           NEW unit \in RowIds, KindOf[unit] = "unit", rows[unit] = Missing, ~written[unit].base,
           \A i \in RowIds \ {unit} : written[i] = rows[i],
           written[unit].product \in RowIds, rows[written[unit].product] # Missing,
           ActiveBases(written[unit].product) # {}
    PROVE  UnitsRefer' /\ UnitsHaveTheirBase'
<1> PICK product : product = written[unit].product OBVIOUS
<1>1. KindOf[product] = "product" BY InUse DEF UnitsRefer
<1>2. UnitsRefer' BY <1>1, UnitsStayUnderProducts
<1> SUFFICES ASSUME NEW i \in RowIds
             PROVE  /\ ActiveConversions(i)' # {} => ActiveBases(i)' # {}
                    /\ \A u, w \in ActiveBases(i)' : u = w
  BY <1>2 DEF UnitsHaveTheirBase
<1>3. ActiveBases(i)' = ActiveBases(i)
  <2>1. \A u \in RowIds : u \in UnitsOf(i)' /\ rows'[u].base => u # unit OBVIOUS
  <2>2. \A u \in RowIds : u \in ActiveBases(i)' <=> u \in ActiveBases(i)
    BY DEF ActiveBases, UnitsOf, IsActive
  <2> QED BY <2>2 DEF ActiveBases, UnitsOf
<1>4. i # product => ActiveConversions(i)' = ActiveConversions(i)
  <2>1. i # product => \A u \in RowIds : u \in ActiveConversions(i)' <=> u \in ActiveConversions(i)
    BY DEF ActiveConversions, UnitsOf, IsActive
  <2> QED BY <2>1 DEF ActiveConversions, UnitsOf
<1> QED BY <1>3, <1>4, EveryProductHasItsBase

\* A product comes with one unit, its base.
LEMMA ProductComes ==
    ASSUME UnitsRefer, UnitsHaveTheirBase, NEW o, NEW shown, NEW written,
           WritesWell(o, written, shown), rows' = written,
           NEW product \in RowIds, NEW unit \in RowIds \ {product},
           KindOf[product] = "product", KindOf[unit] = "unit",
           rows[product] = Missing, rows[unit] = Missing,
           written[product] # Missing, written[unit].product = product,
           written[unit].base, written[unit].status = "active", written[unit] # Missing,
           \A i \in RowIds \ {product, unit} : written[i] = rows[i]
    PROVE  UnitsRefer' /\ UnitsHaveTheirBase'
<1>1. UnitsRefer' BY UnitsStayUnderProducts
<1> SUFFICES ASSUME NEW i \in RowIds
             PROVE  /\ ActiveConversions(i)' # {} => ActiveBases(i)' # {}
                    /\ \A u, w \in ActiveBases(i)' : u = w
  BY <1>1 DEF UnitsHaveTheirBase
<1>2. CASE i = product
  <2>1. \A u \in RowIds : KindOf[u] = "unit" /\ rows[u] # Missing => rows[u].product # product
    BY DEF UnitsRefer
  <2>2. ActiveBases(i)' = {unit} BY <1>2, <2>1 DEF ActiveBases, UnitsOf, IsActive
  <2> QED BY <2>2
<1>3. CASE i # product
  <2>1. \A u \in RowIds : u \in UnitsOf(i)' <=> u \in UnitsOf(i) BY <1>3 DEF UnitsOf
  <2>2. \A u \in UnitsOf(i) : rows'[u] = rows[u] BY <1>3 DEF UnitsOf
  <2>3. UnitsOf(i)' = UnitsOf(i) BY <2>1 DEF UnitsOf
  <2>4. ActiveBases(i)' = ActiveBases(i) /\ ActiveConversions(i)' = ActiveConversions(i)
    BY <2>2, <2>3 DEF ActiveBases, ActiveConversions, IsActive
  <2> QED BY <2>4, EveryProductHasItsBase
<1> QED BY <1>2, <1>3

\* A base goes out of use after the other units, and comes into use before them.
LEMMA UnitCycles ==
    ASSUME MasterTypeOK, UnitsRefer, UnitsHaveTheirBase, NEW o, NEW shown, NEW written,
           WritesWell(o, written, shown), rows' = written,
           NEW cmd, cmd.action \in {"archive", "restore"}, cmd.id \in RowIds,
           UnitLifecycleAllowed(cmd), KindOf[cmd.id] = "unit",
           written[cmd.id].status = StatusAfter(cmd),
           \A i \in RowIds \ {cmd.id} : written[i] = rows[i]
    PROVE  UnitsRefer' /\ UnitsHaveTheirBase'
<1> PICK unit \in RowIds : unit = cmd.id OBVIOUS
<1>1. rows[unit] # Missing /\ UnitStructureAllows(unit, cmd) BY DEF UnitLifecycleAllowed
<1> PICK product : product = rows[unit].product OBVIOUS
<1>2. written[unit] # Missing /\ written[unit].product = product
      /\ written[unit].base = rows[unit].base
  BY <1>1 DEF WritesWell
<1>3. product \in RowIds /\ rows[unit].base \in BOOLEAN
  <2>1. rows[unit] \in MasterRows BY <1>1 DEF MasterTypeOK
  <2> QED BY <1>1, <2>1 DEF UnitsRefer, MasterRows
<1>4. UnitsRefer' BY <1>1, UnitsStayUnderProducts
<1> SUFFICES ASSUME NEW i \in RowIds
             PROVE  /\ ActiveConversions(i)' # {} => ActiveBases(i)' # {}
                    /\ \A u, w \in ActiveBases(i)' : u = w
  BY <1>4 DEF UnitsHaveTheirBase
<1> DEFINE bases == ActiveBases(i)
           conversions == ActiveConversions(i)
<1>5. (conversions # {} => bases # {}) /\ \A u, w \in bases : u = w
  BY EveryProductHasItsBase
<1>6. \A u \in RowIds \ {unit} :
        /\ u \in bases' <=> u \in bases
        /\ u \in conversions' <=> u \in conversions
  BY DEF ActiveBases, ActiveConversions, UnitsOf, IsActive
<1>7. /\ unit \in bases <=> product = i /\ rows[unit].status = "active" /\ rows[unit].base
      /\ unit \in conversions <=> product = i /\ rows[unit].status = "active" /\ ~rows[unit].base
  BY <1>1 DEF ActiveBases, ActiveConversions, UnitsOf, IsActive
<1>8. /\ unit \in bases' <=> product = i /\ StatusAfter(cmd) = "active" /\ rows[unit].base
      /\ unit \in conversions' <=> product = i /\ StatusAfter(cmd) = "active" /\ ~rows[unit].base
  BY <1>2 DEF ActiveBases, ActiveConversions, UnitsOf, IsActive
<1>9. /\ bases \subseteq RowIds /\ conversions \subseteq RowIds
      /\ bases' \subseteq RowIds /\ conversions' \subseteq RowIds
  BY DEF ActiveBases, ActiveConversions, UnitsOf
<1>10. product = i =>
         /\ (cmd.action = "archive" /\ rows[unit].base) => conversions = {}
         /\ (cmd.action = "restore" /\ rows[unit].base) => bases \subseteq {unit}
         /\ (cmd.action = "restore" /\ ~rows[unit].base) => bases # {}
  BY <1>1 DEF UnitStructureAllows
<1> HIDE DEF bases, conversions
<1>11. CASE product # i
  <2>1. bases' = bases /\ conversions' = conversions BY <1>6, <1>7, <1>8, <1>9, <1>11
  <2> QED BY <1>5, <2>1 DEF bases, conversions
<1>12. CASE product = i /\ cmd.action = "archive"
  <2>1. StatusAfter(cmd) # "active" BY <1>12 DEF StatusAfter
  <2>2. bases' = bases \ {unit} /\ conversions' = conversions \ {unit}
    BY <1>6, <1>8, <1>9, <2>1
  <2>3. rows[unit].base => conversions' = {} BY <1>10, <1>12, <2>2
  <2>4. ~rows[unit].base => bases' = bases BY <1>7, <2>2
  <2>5. (conversions' # {} => bases' # {}) /\ \A u, w \in bases' : u = w
    BY <1>3, <1>5, <2>2, <2>3, <2>4
  <2> QED BY <2>5 DEF bases, conversions
<1>13. CASE product = i /\ cmd.action = "restore"
  <2>1. StatusAfter(cmd) = "active" BY <1>13 DEF StatusAfter
  <2>2. rows[unit].base => bases' = {unit} BY <1>6, <1>8, <1>9, <1>10, <1>13, <2>1
  <2>3. ~rows[unit].base => bases' = bases /\ bases # {}
    BY <1>6, <1>7, <1>8, <1>9, <1>10, <1>13
  <2>4. (conversions' # {} => bases' # {}) /\ \A u, w \in bases' : u = w
    BY <1>3, <1>5, <2>2, <2>3
  <2> QED BY <2>4 DEF bases, conversions
<1> QED BY <1>11, <1>12, <1>13

-----------------------------------------------------------------------------
(* Every step keeps the invariant, and keeps the rows.                       *)
RowsKept ==
    \A i \in RowIds : rows[i] # Missing =>
        /\ rows'[i] # Missing
        /\ rows'[i].product = rows[i].product /\ rows'[i].base = rows[i].base
        /\ rows'[i].version >= rows[i].version
        /\ rows'[i].version = rows[i].version => rows'[i] = rows[i]

LEMMA SameRowsKept == ASSUME MasterTypeOK, rows' = rows PROVE RowsKept
<1>1. \A i \in RowIds : rows[i] # Missing => rows[i].version \in Nat \ {0}
  BY DEF MasterTypeOK, MasterRows
<1> QED BY <1>1 DEF RowsKept

LEMMA WrittenRowsKept ==
    ASSUME MasterTypeOK, NEW o, NEW shown, NEW written, WritesWell(o, written, shown),
           rows' = written
    PROVE  RowsKept
<1>1. \A i \in RowIds : rows[i] # Missing => rows[i].version \in Nat \ {0}
  BY DEF MasterTypeOK, MasterRows
<1> QED BY <1>1 DEF RowsKept, WritesWell

LEMMA RunningFacts ==
    ASSUME MasterTypeOK, OperationsOnce, NEW o \in MasterOps, running[o] # Missing
    PROVE  /\ running[o].command \in MasterCommands /\ running[o].command.op = o
           /\ running[o].allowed \in BOOLEAN /\ running[o].missed \in BOOLEAN
           /\ masterOps[o] = Missing
<1>1. running[o] \in RunningRows BY DEF MasterTypeOK
<1> QED BY <1>1 DEF RunningRows, OperationsOnce

LEMMA DoneCommands ==
    ASSUME MasterTypeOK, NEW o \in MasterOps, masterOps[o] # Missing
    PROVE  masterOps[o].command \in MasterCommands
<1>1. masterOps[o] \in CompletedRows BY DEF MasterTypeOK
<1> QED BY <1>1 DEF CompletedRows

LEMMA AppliedKeeps ==
    ASSUME MasterIInv, NEW o \in MasterOps, running[o] # Missing,
           NEW written, written \in [RowIds -> MasterRows \cup {Missing}],
           NEW shown, shown \in SUBSET RowIds, Conclude(o, "applied", written, shown),
           WritesWell(o, written, shown), WritesNamed(running[o].command, written, shown),
           WritesHeld(o, written), UnitsRefer', UnitsHaveTheirBase'
    PROVE  MasterIInv' /\ RowsKept
<1>1. /\ MasterTypeOK /\ RowsFit /\ UnitsRefer /\ OperationsOnce /\ AnswersExist
      /\ DecisionsStand /\ LocksApart /\ VersionTellsContent /\ NothingLost /\ KeysTell
  BY DEF MasterIInv, MasterDataSound
<1>2. /\ rows' = written /\ running' = [running EXCEPT ![o] = Missing]
      /\ \A i \in shown : written[i] # Missing
  BY DEF Conclude, WritesWell
<1>3. /\ masterOps[o] = Missing /\ masterOps'[o] # Missing
      /\ masterOps'[o].command = running[o].command
      /\ masterOps'[o].status = "applied"
      /\ \A i \in shown : masterOps'[o].answer[i] = written[i]
      /\ AppliedCommands' = AppliedCommands \cup {o}
      /\ \A p \in MasterOps \ {o} : masterOps'[p] = masterOps[p] /\ running'[p] = running[p]
      /\ \A i \in RowIds : AnswersOf(i)' = AnswersOf(i) \cup {written[j] : j \in {i} \cap shown}
      /\ MasterTypeOK'
  BY <1>1, <1>2, AppliedFacts
<1>4. VersionTellsContent' /\ AnswersExist' BY <1>1, <1>2, <1>3, VersionsStay
<1>5. NothingLost'
  <2>1. \A p \in MasterOps : masterOps[p] # Missing => masterOps[p].command.id \in RowIds
    BY <1>1, DoneCommands, CommandFacts
  <2>2. running[o].command.id \in RowIds BY <1>1, RunningFacts, CommandFacts
  <2>3. \A i \in RowIds : AnswersOf(i)' = AnswersOf(i) \cup {written[j] : j \in {i} \cap shown}
    BY <1>3
  <2>4. \A p \in MasterOps \ {o} : masterOps'[p] = masterOps[p] BY <1>3
  <2> PICK asked : asked = running[o].command OBVIOUS
  <2>5. /\ MasterTypeOK /\ VersionTellsContent /\ NothingLost
        /\ asked.id \in RowIds
        /\ WritesNamed(asked, written, shown) /\ shown \in SUBSET RowIds
        /\ masterOps'[o].command = asked
        /\ \A i \in shown : masterOps'[o].answer[i] = written[i]
        /\ AppliedCommands' = AppliedCommands \cup {o}
    BY <1>1, <1>3, <2>2
  <2> QED BY <2>1, <2>3, <2>4, <2>5, NothingIsLost
<1>6. KeysTell' /\ RowsFit' BY <1>1, <1>2, <1>3, KeysStay
<1>7. DecisionsStand' /\ LocksApart' BY <1>1, <1>2, OthersStand
<1>8. OperationsOnce'
  <2>1. running'[o] = Missing BY <1>1, <1>2 DEF MasterTypeOK
  <2>2. \A p \in MasterOps : running'[p] # Missing =>
          running'[p].command.op = p /\ masterOps'[p] = Missing
    BY <1>1, <1>3, <2>1 DEF OperationsOnce
  <2>3. ASSUME NEW i \in RowIds, rows'[i] # Missing PROVE masterOps'[rows'[i].op] # Missing
    <3>1. CASE written[i] # rows[i] BY <1>2, <1>3, <3>1 DEF WritesWell
    <3>2. CASE written[i] = rows[i]
      <4>1. rows[i] \in MasterRows BY <1>1, <1>2, <2>3, <3>2 DEF MasterTypeOK
      <4>2. rows[i].op \in MasterOps BY <4>1 DEF MasterRows
      <4>3. masterOps[rows[i].op] # Missing BY <1>2, <1>1, <2>3, <3>2 DEF OperationsOnce
      <4> QED BY <1>2, <1>3, <3>2, <4>2, <4>3
    <3> QED BY <3>1, <3>2
  <2> QED BY <2>2, <2>3 DEF OperationsOnce
<1>9. RowsKept BY <1>1, <1>2, WrittenRowsKept
<1> QED BY <1>3, <1>4, <1>5, <1>6, <1>7, <1>8, <1>9 DEF MasterIInv, MasterDataSound

\* Where no row is written and nothing more is applied, the books stay.
LEMMA BooksSteady ==
    ASSUME MasterIInv, rows' = rows,
           AppliedCommands' = AppliedCommands,
           \A p \in AppliedCommands : masterOps'[p] = masterOps[p]
    PROVE  RowsFit' /\ UnitsRefer' /\ AnswersExist' /\ MasterDataSound'
<1>1. /\ RowsFit /\ UnitsRefer /\ AnswersExist /\ UnitsHaveTheirBase /\ VersionTellsContent
      /\ NothingLost /\ KeysTell
  BY DEF MasterIInv, MasterDataSound
<1>2. \A i : AnswersOf(i)' = AnswersOf(i)
  <2> SUFFICES ASSUME NEW i PROVE AnswersOf(i)' = AnswersOf(i) OBVIOUS
  <2>1. {masterOps'[p].answer[i] : p \in AppliedCommands'}
          = {masterOps[p].answer[i] : p \in AppliedCommands}
    OBVIOUS
  <2> QED BY <2>1 DEF AnswersOf
<1>3. RowsFit' /\ UnitsRefer' BY <1>1 DEF RowsFit, UnitsRefer
<1>4. AnswersExist' BY <1>1, <1>2 DEF AnswersExist
<1>5. UnitsHaveTheirBase'
  BY <1>1 DEF UnitsHaveTheirBase, ActiveBases, ActiveConversions, UnitsOf, IsActive
<1>6. VersionTellsContent' BY <1>1, <1>2 DEF VersionTellsContent
<1>7. NothingLost' BY <1>1, <1>2 DEF NothingLost
<1>8. KeysTell' BY <1>1 DEF KeysTell, Taken, Collides
<1> QED BY <1>3, <1>4, <1>5, <1>6, <1>7, <1>8 DEF MasterDataSound

\* What an operation holds and has decided depends on the rows alone.
LEMMA DecisionsSteady ==
    ASSUME NEW cmd, rows' = rows
    PROVE  MasterDecision(cmd)' = MasterDecision(cmd) /\ MasterLocks(cmd)' = MasterLocks(cmd)
<1>1. \A i : ActiveBases(i)' = ActiveBases(i) /\ ActiveConversions(i)' = ActiveConversions(i)
  BY DEF ActiveBases, ActiveConversions, UnitsOf, IsActive
<1>2. MasterLocks(cmd)' = MasterLocks(cmd) BY DEF MasterLocks, LocksRowOnly
<1>3. /\ UnitCreateAllowed(cmd)' = UnitCreateAllowed(cmd)
      /\ UnitLifecycleAllowed(cmd)' = UnitLifecycleAllowed(cmd)
      /\ Stands(cmd)' = Stands(cmd) /\ PartyLifecycleAllowed(cmd)' = PartyLifecycleAllowed(cmd)
  BY <1>1 DEF UnitCreateAllowed, UnitLifecycleAllowed, UnitStructureAllows, Stands,
              PartyLifecycleAllowed, IsActive
<1> QED BY <1>2, <1>3 DEF MasterDecision

\* Whoever goes on holds and has decided what it did.
LEMMA RunningSteady ==
    ASSUME DecisionsStand, LocksApart, rows' = rows,
           \A p \in MasterOps : running'[p] # Missing =>
             /\ running[p] # Missing /\ running'[p].command = running[p].command
             /\ running'[p].allowed = running[p].allowed
    PROVE  DecisionsStand' /\ LocksApart'
<1>1. ASSUME NEW p \in MasterOps, Allowed(p)'
      PROVE  /\ Allowed(p) /\ MasterDecision(running[p].command)'
             /\ MasterLocks(running[p].command)' = MasterLocks(running[p].command)
  <2>1. Allowed(p) /\ running'[p].command = running[p].command BY <1>1 DEF Allowed
  <2> PICK cmd : cmd = running[p].command OBVIOUS
  <2>2. MasterDecision(cmd) BY <2>1 DEF DecisionsStand
  <2>3. MasterDecision(cmd)' /\ MasterLocks(cmd)' = MasterLocks(cmd) BY <2>2, DecisionsSteady
  <2> QED BY <2>1, <2>3
<1>2. DecisionsStand' BY <1>1 DEF DecisionsStand
<1>3. LocksApart' BY <1>1 DEF LocksApart
<1> QED BY <1>2, <1>3

LEMMA RefuseKeeps ==
    ASSUME MasterIInv, NEW o \in MasterOps, running[o] # Missing, RefuseMaster(o)
    PROVE  MasterIInv' /\ RowsKept
<1> DEFINE answer == [i \in RowIds |-> IF i \in {} THEN rows[i] ELSE Missing]
           done == [command |-> running[o].command, status |-> "rejected", answer |-> answer]
<1>1. /\ masterOps' = [masterOps EXCEPT ![o] = done] /\ rows' = rows
      /\ running' = [running EXCEPT ![o] = Missing]
  BY DEF RefuseMaster, Conclude
<1>2. MasterTypeOK /\ OperationsOnce /\ DecisionsStand /\ LocksApart BY DEF MasterIInv
<1>3. running[o].command \in MasterCommands /\ masterOps[o] = Missing BY <1>2, RunningFacts
<1>4. answer \in [RowIds -> MasterRows \cup {Missing}] OBVIOUS
<1> HIDE DEF answer
<1>5. done \in CompletedRows BY <1>3, <1>4 DEF CompletedRows
<1>6. done # Missing /\ done.status # "applied" BY <1>5, MissingAssumption
<1> HIDE DEF done
<1>7. /\ masterOps'[o] = done /\ running'[o] = Missing
      /\ \A p \in MasterOps \ {o} : masterOps'[p] = masterOps[p] /\ running'[p] = running[p]
  BY <1>1, <1>2 DEF MasterTypeOK
<1>8. AppliedCommands' = AppliedCommands BY <1>3, <1>6, <1>7 DEF AppliedCommands
<1>9. \A p \in AppliedCommands : masterOps'[p] = masterOps[p] BY <1>3, <1>7 DEF AppliedCommands
<1>10. RowsFit' /\ UnitsRefer' /\ AnswersExist' /\ MasterDataSound'
  BY <1>1, <1>8, <1>9, BooksSteady
<1>11. MasterTypeOK' BY <1>1, <1>2, <1>5 DEF MasterTypeOK
<1>12. OperationsOnce'
  <2>1. \A p \in MasterOps : running'[p] # Missing =>
          running'[p].command.op = p /\ masterOps'[p] = Missing
    BY <1>2, <1>7 DEF OperationsOnce
  <2>2. \A p \in MasterOps : masterOps[p] # Missing => masterOps'[p] # Missing BY <1>3, <1>7
  <2>3. \A i \in RowIds : rows[i] # Missing => rows[i].op \in MasterOps
    BY <1>2 DEF MasterTypeOK, MasterRows
  <2> QED BY <1>1, <1>2, <2>1, <2>2, <2>3 DEF OperationsOnce
<1>13. DecisionsStand' /\ LocksApart'
  <2>1. \A p \in MasterOps : running'[p] # Missing =>
          /\ running[p] # Missing /\ running'[p].command = running[p].command
          /\ running'[p].allowed = running[p].allowed
    BY <1>7
  <2> QED BY <1>1, <1>2, <2>1, RunningSteady
<1>14. RowsKept BY <1>1, <1>2, SameRowsKept
<1> QED BY <1>10, <1>11, <1>12, <1>13, <1>14 DEF MasterIInv

\* A transaction that is undone, or has missed its row, changes nothing else.
LEMMA RunningKeeps ==
    ASSUME MasterIInv, UNCHANGED <<masterOps, rows>>,
           running' \in [MasterOps -> RunningRows \cup {Missing}],
           \A p \in MasterOps : running'[p] # Missing =>
             /\ running[p] # Missing /\ running'[p].command = running[p].command
             /\ running'[p].allowed = running[p].allowed
    PROVE  MasterIInv' /\ RowsKept
<1>1. MasterTypeOK /\ OperationsOnce /\ DecisionsStand /\ LocksApart BY DEF MasterIInv
<1>2. AppliedCommands' = AppliedCommands BY DEF AppliedCommands
<1>3. RowsFit' /\ UnitsRefer' /\ AnswersExist' /\ MasterDataSound' BY <1>2, BooksSteady
<1>4. MasterTypeOK' BY <1>1 DEF MasterTypeOK
<1>5. OperationsOnce' BY <1>1 DEF OperationsOnce
<1>6. DecisionsStand' /\ LocksApart' BY <1>1, RunningSteady
<1>7. RowsKept BY <1>1, SameRowsKept
<1> QED BY <1>3, <1>4, <1>5, <1>6, <1>7 DEF MasterIInv

\* A command decides on rows that no other holds.
LEMMA BeginKeeps ==
    ASSUME MasterIInv, NEW cmd \in MasterCommands, BeginMaster(cmd)
    PROVE  MasterIInv' /\ RowsKept
<1> DEFINE fresh == [command |-> cmd, allowed |-> MasterDecision(cmd), missed |-> FALSE]
<1> PICK o : o = cmd.op OBVIOUS
<1>1. /\ masterOps[o] = Missing /\ running[o] = Missing
      /\ MasterLocks(cmd) \cap LockedFor(o) = {}
      /\ running' = [running EXCEPT ![o] = fresh] /\ masterOps' = masterOps /\ rows' = rows
  BY DEF BeginMaster
<1>2. o \in MasterOps BY CommandFacts
<1>3. MasterTypeOK /\ OperationsOnce /\ DecisionsStand /\ LocksApart BY DEF MasterIInv
<1>4. MasterDecision(cmd) \in BOOLEAN
  BY DEF MasterDecision, UnitCreateAllowed, UnitLifecycleAllowed, Stands, PartyLifecycleAllowed,
         IsActive
<1>5. fresh \in RunningRows BY <1>4 DEF RunningRows
<1>6. fresh # Missing /\ fresh.command = cmd /\ fresh.allowed = MasterDecision(cmd)
  BY <1>5, MissingAssumption
<1> HIDE DEF fresh
<1>7. running'[o] = fresh /\ \A p \in MasterOps \ {o} : running'[p] = running[p]
  BY <1>1, <1>2, <1>3 DEF MasterTypeOK
<1>8. RowsFit' /\ UnitsRefer' /\ AnswersExist' /\ MasterDataSound'
  <2>1. AppliedCommands' = AppliedCommands BY <1>1 DEF AppliedCommands
  <2> QED BY <1>1, <2>1, BooksSteady
<1>9. MasterTypeOK' BY <1>1, <1>3, <1>5 DEF MasterTypeOK
<1>10. OperationsOnce' BY <1>1, <1>3, <1>6, <1>7 DEF OperationsOnce
<1>11. ASSUME NEW p \in MasterOps, Allowed(p)'
       PROVE  /\ MasterDecision(running[p].command)'
              /\ MasterLocks(running[p].command)' = MasterLocks(running'[p].command)
              /\ p # o => Allowed(p)
              /\ p = o => running'[p].command = cmd
              /\ p # o => running'[p].command = running[p].command
  <2> PICK asked : asked = running'[p].command OBVIOUS
  <2>1. CASE p = o
    <3>1. asked = cmd /\ MasterDecision(cmd) BY <1>6, <1>7, <1>11, <2>1 DEF Allowed
    <3>2. MasterDecision(asked)' /\ MasterLocks(asked)' = MasterLocks(asked)
      BY <1>1, <3>1, DecisionsSteady
    <3> QED BY <2>1, <3>1, <3>2
  <2>2. CASE p # o
    <3>1. Allowed(p) /\ asked = running[p].command BY <1>7, <1>11, <2>2 DEF Allowed
    <3>2. MasterDecision(asked) BY <1>3, <3>1 DEF DecisionsStand
    <3>3. MasterDecision(asked)' /\ MasterLocks(asked)' = MasterLocks(asked)
      BY <1>1, <3>2, DecisionsSteady
    <3> QED BY <2>2, <3>1, <3>3
  <2> QED BY <2>1, <2>2
<1>12. DecisionsStand' BY <1>11 DEF DecisionsStand
<1>13. LocksApart'
  <2>1. \A p \in MasterOps \ {o} : Allowed(p) =>
          MasterLocks(cmd) \cap MasterLocks(running[p].command) = {}
    BY <1>1 DEF LockedFor, Allowed
  <2> QED BY <1>3, <1>11, <2>1 DEF LocksApart
<1>14. RowsKept BY <1>1, <1>3, SameRowsKept
<1> QED BY <1>8, <1>9, <1>10, <1>12, <1>13, <1>14 DEF MasterIInv

\* One row is written by an operation that may, in a version of its own.
WritesRow(o, cmd, id, row, shown) ==
    /\ id \in shown /\ \A j \in shown \ {id} : rows[j] # Missing
    /\ row # rows[id] => /\ row.op = o /\ ~Taken(id, row)
                         /\ DOMAIN row.fields = Columns(KindOf[id])
    /\ rows[id] = Missing => row.version = 1
    /\ (row # rows[id] /\ rows[id] # Missing) =>
         /\ row.version = rows[id].version + 1
         /\ row.product = rows[id].product /\ row.base = rows[id].base
         /\ (Allowed(o) /\ id \in MasterLocks(cmd)) \/ id \notin LockedFor(o)
    /\ (KindOf[id] = "unit" /\ (rows[id] = Missing \/ row.status # rows[id].status)) =>
         Allowed(o) /\ row.product \in MasterLocks(cmd)

RowWritten(written, id, row) ==
    /\ written \in [RowIds -> MasterRows \cup {Missing}]
    /\ written[id] = row /\ \A i \in RowIds \ {id} : written[i] = rows[i]

LEMMA RowIsWritten ==
    ASSUME MasterTypeOK, NEW id \in RowIds, NEW row \in MasterRows
    PROVE  RowWritten([rows EXCEPT ![id] = row], id, row)
BY DEF MasterTypeOK, RowWritten

LEMMA OneRowWritten ==
    ASSUME MasterTypeOK, NEW o \in MasterOps, NEW cmd, cmd = running[o].command,
           NEW id \in RowIds, NEW row \in MasterRows, NEW shown \in SUBSET RowIds,
           WritesRow(o, cmd, id, row, shown),
           NEW written, RowWritten(written, id, row)
    PROVE  WritesWell(o, written, shown) /\ WritesHeld(o, written)
<1>1. /\ written \in [RowIds -> MasterRows \cup {Missing}]
      /\ written[id] = row /\ \A i \in RowIds \ {id} : written[i] = rows[i]
  BY DEF RowWritten
<1>2. row # Missing BY RowFacts
<1>3. WritesWell(o, written, shown) BY <1>1, <1>2 DEF WritesWell, WritesRow
<1>4. WritesHeld(o, written)
  <2> PICK locks : locks = MasterLocks(cmd) OBVIOUS
  <2>1. \A i \in RowIds : (rows[i] # Missing /\ written[i] # rows[i]) =>
          (Allowed(o) /\ i \in locks) \/ i \notin LockedFor(o)
    BY <1>1 DEF WritesRow
  <2>2. \A u \in RowIds :
          /\ KindOf[u] = "unit" /\ written[u] # Missing
          /\ rows[u] = Missing \/ written[u].status # rows[u].status
          => \/ rows[written[u].product] = Missing
             \/ Allowed(o) /\ written[u].product \in locks
    BY <1>1 DEF WritesRow
  <2> QED BY <2>1, <2>2 DEF WritesHeld
<1> QED BY <1>3, <1>4

\* What a command does to the row it names, in the version it names.
Edited(row, cmd) == IF cmd.action = "update" THEN Updated(row, cmd) ELSE Cycled(row, cmd)

LEMMA EditedFits ==
    ASSUME NEW cmd \in MasterCommands, cmd.action \in {"update", "archive", "restore"},
           NEW row \in MasterRows, DOMAIN row.fields = Columns(cmd.kind)
    PROVE  /\ Edited(row, cmd) \in MasterRows
           /\ Edited(row, cmd).product = row.product /\ Edited(row, cmd).base = row.base
           /\ DOMAIN Edited(row, cmd).fields = Columns(cmd.kind)
           /\ cmd.action = "update" => Edited(row, cmd).status = row.status
           /\ cmd.action # "update" => Edited(row, cmd).status = StatusAfter(cmd)
           /\ Edited(row, cmd) # row =>
                Edited(row, cmd).version = row.version + 1 /\ Edited(row, cmd).op = cmd.op
<1>1. CASE cmd.action = "update"
  <2> PICK new : new = Updated(row, cmd) OBVIOUS
  <2>1. /\ new \in MasterRows /\ new.status = row.status
        /\ new.product = row.product /\ new.base = row.base
        /\ DOMAIN new.fields = Columns(cmd.kind)
        /\ new = row \/ (new.version = row.version + 1 /\ new.op = cmd.op)
    BY <1>1, UpdatedFits
  <2>2. Edited(row, cmd) = new BY <1>1 DEF Edited
  <2> QED BY <1>1, <2>1, <2>2
<1>2. CASE cmd.action # "update"
  <2> PICK new : new = Cycled(row, cmd) OBVIOUS
  <2>1. /\ new \in MasterRows /\ new.status = StatusAfter(cmd)
        /\ new.product = row.product /\ new.base = row.base /\ new.fields = row.fields
        /\ new = row \/ (new.version = row.version + 1 /\ new.op = cmd.op)
    BY <1>2, CycledFits
  <2>2. Edited(row, cmd) = new BY <1>2 DEF Edited
  <2> QED BY <1>2, <2>1, <2>2
<1> QED BY <1>1, <1>2

\* An edit of the row that was locked, or that nobody has locked.
EditsRow(o, cmd, id, old, shown) ==
    /\ old # Missing /\ old.version = cmd.version
    /\ id \in shown /\ \A j \in shown : rows[j] # Missing
    /\ id \in MasterLocks(cmd) \/ id \notin LockedFor(o)
    /\ (cmd.kind = "unit" /\ cmd.action # "update") =>
         UnitLifecycleAllowed(cmd) /\ old.product \in MasterLocks(cmd)

LEMMA EditedRow ==
    ASSUME MasterTypeOK, RowsFit, NEW cmd \in MasterCommands,
           cmd.action \in {"update", "archive", "restore"},
           NEW id, id = cmd.id, NEW old, old = rows[id], old # Missing,
           NEW row, row = Edited(old, cmd)
    PROVE  /\ id \in RowIds /\ row \in MasterRows
           /\ row.product = old.product /\ row.base = old.base
           /\ DOMAIN row.fields = Columns(cmd.kind)
           /\ cmd.action = "update" => row.status = old.status
           /\ cmd.action # "update" => row.status = StatusAfter(cmd)
           /\ row # old => row.version = old.version + 1 /\ row.op = cmd.op
<1>1. id \in RowIds /\ KindOf[id] = cmd.kind BY CommandFacts
<1>2. old \in MasterRows /\ DOMAIN old.fields = Columns(cmd.kind)
  BY <1>1 DEF MasterTypeOK, RowsFit
<1> QED BY <1>1, <1>2, EditedFits

LEMMA EditWrites ==
    ASSUME MasterTypeOK, RowsFit, UnitsRefer, UnitsHaveTheirBase, NEW o \in MasterOps,
           NEW cmd \in MasterCommands, cmd = running[o].command, cmd.op = o,
           cmd.action \in {"update", "archive", "restore"},
           NEW id, id = cmd.id, NEW old, old = rows[id], NEW shown \in SUBSET RowIds,
           EditsRow(o, cmd, id, old, shown), NEW row, row = Edited(old, cmd),
           row = old \/ (Allowed(o) /\ ~Taken(id, row)),
           NEW written, RowWritten(written, id, row), rows' = written
    PROVE  /\ WritesWell(o, written, shown) /\ WritesHeld(o, written)
           /\ WritesNamed(cmd, written, shown)
           /\ UnitsRefer' /\ UnitsHaveTheirBase'
<1>1. id \in RowIds /\ KindOf[id] = cmd.kind BY CommandFacts
<1>2. old \in MasterRows /\ old # Missing BY <1>1 DEF MasterTypeOK, EditsRow
<1>3. /\ row \in MasterRows
      /\ row.product = old.product /\ row.base = old.base
      /\ DOMAIN row.fields = Columns(cmd.kind)
      /\ cmd.action = "update" => row.status = old.status
      /\ cmd.action # "update" => row.status = StatusAfter(cmd)
      /\ row # old => row.version = old.version + 1 /\ row.op = cmd.op
  BY <1>2, EditedRow
<1>4. WritesRow(o, cmd, id, row, shown)
  BY <1>1, <1>3 DEF WritesRow, EditsRow
<1>5. /\ written \in [RowIds -> MasterRows \cup {Missing}]
      /\ written[id] = row /\ \A i \in RowIds \ {id} : written[i] = rows[i]
      /\ WritesWell(o, written, shown) /\ WritesHeld(o, written)
  <2>1. WritesWell(o, written, shown) /\ WritesHeld(o, written)
    BY <1>1, <1>3, <1>4, OneRowWritten
  <2> QED BY <2>1 DEF RowWritten
<1>6. WritesNamed(cmd, written, shown) BY <1>5 DEF WritesNamed, Edited, EditsRow
<1>7. CASE cmd.kind = "unit" /\ cmd.action # "update"
  <2>1. UnitLifecycleAllowed(cmd) BY <1>7 DEF EditsRow
  <2>2. cmd.action \in {"archive", "restore"} BY <1>7
  <2>3. KindOf[cmd.id] = "unit" /\ cmd.id \in RowIds BY <1>1, <1>7
  <2>4. written[cmd.id].status = StatusAfter(cmd) BY <1>3, <1>5, <1>7
  <2>5. \A i \in RowIds \ {cmd.id} : written[i] = rows[i] BY <1>5
  <2>6. UnitsRefer' /\ UnitsHaveTheirBase'
    BY <1>5, <2>1, <2>2, <2>3, <2>4, <2>5, UnitCycles
  <2> QED BY <1>5, <1>6, <2>6
<1>8. CASE ~(cmd.kind = "unit" /\ cmd.action # "update")
  <2>1. \A u \in RowIds : (KindOf[u] = "unit" /\ written[u] # Missing) =>
          rows[u] # Missing /\ written[u].status = rows[u].status
    <3> SUFFICES ASSUME NEW u \in RowIds, KindOf[u] = "unit", written[u] # Missing
                 PROVE  rows[u] # Missing /\ written[u].status = rows[u].status
      OBVIOUS
    <3>1. CASE u = id BY <1>1, <1>2, <1>3, <1>5, <1>8, <3>1, MissingAssumption
    <3>2. CASE u # id BY <1>5, <3>2
    <3> QED BY <3>1, <3>2
  <2>2. UnitsRefer' /\ UnitsHaveTheirBase' BY <1>5, <2>1, UnitsSteady
  <2> QED BY <1>5, <1>6, <2>2
<1> QED BY <1>7, <1>8

LEMMA EditKeeps ==
    ASSUME MasterIInv, NEW o \in MasterOps, running[o] # Missing,
           NEW cmd, cmd = running[o].command, cmd.action \in {"update", "archive", "restore"},
           NEW id, id = cmd.id, NEW old, old = rows[id], NEW shown \in SUBSET RowIds,
           EditsRow(o, cmd, id, old, shown), NEW row, row = Edited(old, cmd),
           WriteRow(o, id, row, shown)
    PROVE  MasterIInv' /\ RowsKept
<1>1. /\ MasterTypeOK /\ OperationsOnce /\ RowsFit /\ UnitsRefer /\ UnitsHaveTheirBase
  BY DEF MasterIInv, MasterDataSound
<1>2. cmd \in MasterCommands /\ cmd.op = o BY <1>1, RunningFacts
<1>3. CASE running[o].allowed /\ (row = rows[id] \/ ~Taken(id, row))
  <2>1. id \in RowIds /\ row \in MasterRows BY <1>1, <1>2, EditedRow DEF EditsRow
  <2>2. Conclude(o, "applied", [rows EXCEPT ![id] = row], shown) BY <1>3 DEF WriteRow
  <2>3. RowWritten([rows EXCEPT ![id] = row], id, row) BY <1>1, <2>1, RowIsWritten
  <2>4. PICK written : Conclude(o, "applied", written, shown) /\ RowWritten(written, id, row)
    BY <2>2, <2>3
  <2>5. rows' = written BY <2>4 DEF Conclude
  <2>6. row = old \/ (Allowed(o) /\ ~Taken(id, row)) BY <1>3 DEF Allowed
  <2>7. /\ WritesWell(o, written, shown) /\ WritesHeld(o, written)
        /\ WritesNamed(cmd, written, shown)
        /\ UnitsRefer' /\ UnitsHaveTheirBase'
    BY <1>1, <1>2, <2>4, <2>5, <2>6, EditWrites
  <2>8. written \in [RowIds -> MasterRows \cup {Missing}] BY <2>4 DEF RowWritten
  <2> QED BY <2>4, <2>7, <2>8, AppliedKeeps
<1>4. CASE ~(running[o].allowed /\ (row = rows[id] \/ ~Taken(id, row)))
  <2>1. RefuseMaster(o) BY <1>4 DEF WriteRow
  <2> QED BY <2>1, RefuseKeeps
<1> QED BY <1>3, <1>4

\* A row that is new, in a text of its own.
LEMMA NewKeeps ==
    ASSUME MasterIInv, NEW o \in MasterOps, running[o] # Missing,
           NEW cmd, cmd = running[o].command, cmd.action = "create",
           NEW id, id = cmd.id, rows[id] = Missing,
           NEW row \in MasterRows, row.version = 1, row.op = o, row.status = "active",
           DOMAIN row.fields = Columns(cmd.kind),
           cmd.kind = "unit" => row.product = cmd.product /\ ~row.base,
           WriteRow(o, id, row, {id})
    PROVE  MasterIInv' /\ RowsKept
<1>1. /\ MasterTypeOK /\ OperationsOnce /\ UnitsRefer /\ UnitsHaveTheirBase /\ DecisionsStand
  BY DEF MasterIInv, MasterDataSound
<1>2. cmd \in MasterCommands /\ cmd.op = o BY <1>1, RunningFacts
<1>3. id \in RowIds /\ KindOf[id] = cmd.kind BY <1>2, CommandFacts
<1>4. CASE running[o].allowed /\ (row = rows[id] \/ ~Taken(id, row))
  <2>1. ~Taken(id, row) BY <1>4, RowFacts
  <2>2. Conclude(o, "applied", [rows EXCEPT ![id] = row], {id}) BY <1>4 DEF WriteRow
  <2>3. RowWritten([rows EXCEPT ![id] = row], id, row) BY <1>1, <1>3, RowIsWritten
  <2>4. PICK written : Conclude(o, "applied", written, {id}) /\ RowWritten(written, id, row)
    BY <2>2, <2>3
  <2>5. rows' = written BY <2>4 DEF Conclude
  <2>6. /\ written \in [RowIds -> MasterRows \cup {Missing}]
        /\ written[id] = row /\ \A i \in RowIds \ {id} : written[i] = rows[i]
    BY <2>4 DEF RowWritten
  <2>7. Allowed(o) /\ MasterDecision(cmd) BY <1>1, <1>4 DEF Allowed, DecisionsStand
  <2>8. cmd.kind = "unit" =>
          /\ row.product \in MasterLocks(cmd) /\ row.product \in RowIds
          /\ rows[row.product] # Missing /\ ActiveBases(row.product) # {}
    <3> SUFFICES ASSUME cmd.kind = "unit"
                 PROVE  /\ row.product \in MasterLocks(cmd) /\ row.product \in RowIds
                        /\ rows[row.product] # Missing /\ ActiveBases(row.product) # {}
      OBVIOUS
    <3>1. row.product = cmd.product /\ cmd.product \in RowIds BY <1>2, CommandFacts
    <3>2. MasterLocks(cmd) = {cmd.product} BY DEF MasterLocks
    <3>3. UnitCreateAllowed(cmd) BY <2>7 DEF MasterDecision
    <3> QED BY <3>1, <3>2, <3>3 DEF UnitCreateAllowed, IsActive
  <2>9. WritesRow(o, cmd, id, row, {id}) BY <1>3, <2>1, <2>7, <2>8 DEF WritesRow
  <2>10. {id} \in SUBSET RowIds BY <1>3
  <2>11. WritesWell(o, written, {id}) /\ WritesHeld(o, written)
    BY <1>1, <1>3, <2>4, <2>9, <2>10, OneRowWritten
  <2>12. WritesNamed(cmd, written, {id}) BY DEF WritesNamed
  <2>13. UnitsRefer' /\ UnitsHaveTheirBase'
    <3>1. CASE cmd.kind = "unit"
      <4>1. KindOf[id] = "unit" /\ ~written[id].base BY <1>3, <2>6, <3>1
      <4>2. /\ written[id].product \in RowIds /\ rows[written[id].product] # Missing
            /\ ActiveBases(written[id].product) # {}
        BY <2>6, <2>8, <3>1
      <4>3. \A i \in RowIds \ {id} : written[i] = rows[i] BY <2>6
      <4> QED BY <1>1, <1>3, <2>5, <2>11, <4>1, <4>2, <4>3, UnitComes
    <3>2. CASE cmd.kind # "unit"
      <4>1. \A u \in RowIds : (KindOf[u] = "unit" /\ written[u] # Missing) =>
              rows[u] # Missing /\ written[u].status = rows[u].status
        BY <1>3, <2>6, <3>2
      <4> QED BY <1>1, <2>5, <2>11, <4>1, UnitsSteady
    <3> QED BY <3>1, <3>2
  <2> QED BY <2>4, <2>6, <2>10, <2>11, <2>12, <2>13, AppliedKeeps
<1>5. CASE ~(running[o].allowed /\ (row = rows[id] \/ ~Taken(id, row)))
  <2>1. RefuseMaster(o) BY <1>5 DEF WriteRow
  <2> QED BY <2>1, RefuseKeeps
<1> QED BY <1>4, <1>5

\* An edit that was decided on under the lock of its row.
LEMMA DecidedEditKeeps ==
    ASSUME MasterIInv, NEW o \in MasterOps, running[o] # Missing,
           NEW cmd, cmd = running[o].command, cmd.action \in {"update", "archive", "restore"},
           ~(cmd.kind = "customer" /\ cmd.action = "update"),
           NEW shown \in SUBSET RowIds, cmd.id \in shown,
           \A j \in shown \ {cmd.id} : rows[j] # Missing,
           NEW row, row = Edited(rows[cmd.id], cmd),
           IF running[o].allowed THEN WriteRow(o, cmd.id, row, shown) ELSE RefuseMaster(o)
    PROVE  MasterIInv' /\ RowsKept
<1>1. MasterTypeOK /\ OperationsOnce /\ UnitsRefer /\ DecisionsStand BY DEF MasterIInv
<1>2. cmd \in MasterCommands BY <1>1, RunningFacts
<1>3. cmd.id \in RowIds /\ KindOf[cmd.id] = cmd.kind BY <1>2, CommandFacts
<1>4. CASE ~running[o].allowed BY <1>4, RefuseKeeps
<1>5. CASE running[o].allowed
  <2> PICK id : id = cmd.id OBVIOUS
  <2> PICK old : old = rows[id] OBVIOUS
  <2>1. Allowed(o) /\ MasterDecision(cmd) BY <1>1, <1>5 DEF Allowed, DecisionsStand
  <2>2. EditsRow(o, cmd, id, old, shown)
    <3>1. CASE cmd.action = "update"
      <4>1. cmd.kind # "customer" BY <3>1
      <4>2. Stands(cmd) BY <2>1, <3>1, <4>1 DEF MasterDecision
      <4>3. MasterLocks(cmd) = {id} BY <3>1, <4>1 DEF MasterLocks, LocksRowOnly
      <4>4. old # Missing /\ old.version = cmd.version BY <4>2 DEF Stands
      <4>5. \A j \in shown : rows[j] # Missing BY <4>4
      <4> QED BY <2>1, <3>1, <4>3, <4>4, <4>5 DEF EditsRow
    <3>2. CASE cmd.action \in {"archive", "restore"} /\ cmd.kind # "unit"
      <4>1. PartyLifecycleAllowed(cmd) BY <2>1, <3>2 DEF MasterDecision
      <4>2. MasterLocks(cmd) = {id} BY <3>2 DEF MasterLocks, LocksRowOnly
      <4>3. old # Missing /\ old.version = cmd.version BY <4>1 DEF PartyLifecycleAllowed
      <4>4. \A j \in shown : rows[j] # Missing BY <4>3
      <4> QED BY <2>1, <3>2, <4>2, <4>3, <4>4 DEF EditsRow
    <3>3. CASE cmd.action \in {"archive", "restore"} /\ cmd.kind = "unit"
      <4>1. UnitLifecycleAllowed(cmd) BY <2>1, <3>3 DEF MasterDecision
      <4>2. old # Missing /\ old.version = cmd.version BY <4>1 DEF UnitLifecycleAllowed
      <4>3. MasterLocks(cmd) = {id, old.product} BY <3>3, <4>2 DEF MasterLocks
      <4>4. \A j \in shown : rows[j] # Missing BY <4>2
      <4> QED BY <2>1, <3>3, <4>1, <4>2, <4>3, <4>4 DEF EditsRow
    <3> QED BY <3>1, <3>2, <3>3
  <2>3. WriteRow(o, id, row, shown) /\ row = Edited(old, cmd) BY <1>5
  <2> QED BY <2>2, <2>3, EditKeeps
<1> QED BY <1>4, <1>5

\* Settings are there, or come with what provisioning gives them.
LEMMA EnsureKeeps ==
    ASSUME MasterIInv, NEW o \in MasterOps, EnsureSettings(o)
    PROVE  MasterIInv' /\ RowsKept
<1> PICK cmd : cmd = running[o].command OBVIOUS
<1> PICK id : id = cmd.id OBVIOUS
<1> PICK row : row = FreshRow(o, cmd.fields) OBVIOUS
<1>1. /\ MasterTypeOK /\ OperationsOnce /\ UnitsRefer /\ UnitsHaveTheirBase
  BY DEF MasterIInv, MasterDataSound
<1>2. running[o] # Missing /\ cmd.kind = "settings" /\ cmd.action = "ensure"
  BY DEF EnsureSettings, IsRunning
<1>3. Conclude(o, "applied", IF rows[id] # Missing THEN rows ELSE [rows EXCEPT ![id] = row], {id})
  BY DEF EnsureSettings
<1>4. cmd \in MasterCommands /\ masterOps[o] = Missing BY <1>1, <1>2, RunningFacts
<1>5. /\ id \in RowIds /\ KindOf[id] = "settings"
      /\ DOMAIN cmd.fields = Columns("settings") /\ IsText(cmd.fields)
  BY <1>2, <1>4, CommandFacts
<1>6. "settings" \in Kinds BY DEF Kinds
<1>7. /\ row \in MasterRows /\ row.version = 1 /\ row.status = "active" /\ row.op = o
      /\ DOMAIN row.fields = Columns("settings")
  BY <1>2, <1>4, <1>5, CreatedFits
<1>8. ~Taken(id, row)
  <2>1. \A f : ~Compared("settings", f) BY DEF Compared
  <2>2. ~Collides(id, row) BY <1>5, <2>1 DEF Collides
  <2>3. \A i \in RowIds : rows[i] # Missing => rows[i].op # o BY <1>4, <1>1 DEF OperationsOnce
  <2> QED BY <1>7, <2>2, <2>3 DEF Taken
<1>9. {id} \in SUBSET RowIds BY <1>5
<1>10. PICK written : /\ Conclude(o, "applied", written, {id})
                      /\ \/ rows[id] # Missing /\ written = rows
                         \/ rows[id] = Missing /\ RowWritten(written, id, row)
  <2>1. CASE rows[id] # Missing BY <1>3, <2>1
  <2>2. CASE rows[id] = Missing
    <3>1. RowWritten([rows EXCEPT ![id] = row], id, row) BY <1>1, <1>5, <1>7, RowIsWritten
    <3> QED BY <1>3, <2>2, <3>1
  <2> QED BY <2>1, <2>2
<1>11. rows' = written BY <1>10 DEF Conclude
<1>12. WritesNamed(cmd, written, {id}) BY <1>2 DEF WritesNamed
<1>13. CASE rows[id] # Missing
  <2>1. written = rows BY <1>10, <1>13
  <2>2. WritesWell(o, written, {id}) BY <1>13, <2>1 DEF WritesWell
  <2>3. WritesHeld(o, written) BY <2>1 DEF WritesHeld
  <2>4. UnitsRefer' /\ UnitsHaveTheirBase'
    <3>1. \A u \in RowIds : (KindOf[u] = "unit" /\ written[u] # Missing) =>
            rows[u] # Missing /\ written[u].status = rows[u].status
      BY <2>1
    <3> QED BY <1>1, <1>11, <2>2, <3>1, UnitsSteady
  <2>5. written \in [RowIds -> MasterRows \cup {Missing}] BY <1>1, <2>1 DEF MasterTypeOK
  <2> QED BY <1>2, <1>9, <1>10, <1>12, <2>2, <2>3, <2>4, <2>5, AppliedKeeps
<1>14. CASE rows[id] = Missing
  <2>1. RowWritten(written, id, row) BY <1>10, <1>14
  <2>2. WritesRow(o, cmd, id, row, {id}) BY <1>5, <1>7, <1>8, <1>14 DEF WritesRow
  <2>3. WritesWell(o, written, {id}) /\ WritesHeld(o, written)
    BY <1>1, <1>5, <1>7, <1>9, <2>1, <2>2, OneRowWritten
  <2>4. UnitsRefer' /\ UnitsHaveTheirBase'
    <3>1. \A u \in RowIds : (KindOf[u] = "unit" /\ written[u] # Missing) =>
            rows[u] # Missing /\ written[u].status = rows[u].status
      BY <1>5, <2>1 DEF RowWritten
    <3> QED BY <1>1, <1>11, <2>3, <3>1, UnitsSteady
  <2>5. written \in [RowIds -> MasterRows \cup {Missing}] BY <2>1 DEF RowWritten
  <2> QED BY <1>2, <1>9, <1>10, <1>12, <2>3, <2>4, <2>5, AppliedKeeps
<1> QED BY <1>13, <1>14

\* A product and its base unit, both or neither.
TwoRowsWritten(written, id, row, other, by) ==
    /\ written \in [RowIds -> MasterRows \cup {Missing}]
    /\ written[id] = row /\ written[other] = by
    /\ \A i \in RowIds \ {id, other} : written[i] = rows[i]

LEMMA RowsAreWritten ==
    ASSUME MasterTypeOK, NEW id \in RowIds, NEW row \in MasterRows,
           NEW other \in RowIds \ {id}, NEW by \in MasterRows
    PROVE  TwoRowsWritten([rows EXCEPT ![id] = row, ![other] = by], id, row, other, by)
BY DEF MasterTypeOK, TwoRowsWritten

LEMMA ProductKeeps ==
    ASSUME MasterIInv, NEW o \in MasterOps, CreateProduct(o)
    PROVE  MasterIInv' /\ RowsKept
<1> PICK cmd : cmd = running[o].command OBVIOUS
<1> PICK id : id = cmd.id OBVIOUS
<1> PICK unit : unit = cmd.unit OBVIOUS
<1> PICK product : product = FreshRow(o, cmd.fields) OBVIOUS
<1> PICK loose : loose = FreshRow(o, cmd.unitFields) OBVIOUS
<1> PICK base : base = Base(loose, id) OBVIOUS
<1>1. /\ MasterTypeOK /\ OperationsOnce /\ UnitsRefer /\ UnitsHaveTheirBase
  BY DEF MasterIInv, MasterDataSound
<1>2. running[o] # Missing /\ cmd.kind = "product" /\ cmd.action = "create"
  BY DEF CreateProduct, IsRunning
<1>3. IF rows[id] # Missing \/ rows[unit] # Missing \/ Taken(id, product) \/ Taken(unit, base)
      THEN RefuseMaster(o)
      ELSE Conclude(o, "applied", [rows EXCEPT ![id] = product, ![unit] = base], {id, unit})
  BY DEF CreateProduct, Base
<1>4. cmd \in MasterCommands BY <1>1, <1>2, RunningFacts
<1>5. /\ id \in RowIds /\ KindOf[id] = "product" /\ unit \in RowIds /\ KindOf[unit] = "unit"
      /\ DOMAIN cmd.unitFields = Columns("unit") /\ IsText(cmd.unitFields)
  BY <1>2, <1>4, CommandFacts
<1>6. /\ product \in MasterRows /\ product.version = 1 /\ product.op = o
      /\ DOMAIN product.fields = Columns("product")
  BY <1>2, <1>4, CreatedFits
<1>7. /\ base \in MasterRows /\ base.version = 1 /\ base.op = o /\ base.status = "active"
      /\ DOMAIN base.fields = Columns("unit") /\ base.product = id /\ base.base
  <2>1. "unit" \in Kinds BY DEF Kinds
  <2>2. /\ loose \in MasterRows /\ loose.version = 1 /\ loose.op = o /\ loose.status = "active"
        /\ DOMAIN loose.fields = Columns("unit")
    BY <1>5, <2>1, FreshFits
  <2>3. /\ base \in MasterRows /\ base.version = loose.version /\ base.status = loose.status
        /\ base.op = loose.op /\ base.fields = loose.fields
        /\ base.product = id /\ base.base
    BY <1>5, <2>2, BaseFits
  <2> QED BY <2>2, <2>3
<1>8. id # unit BY <1>5
<1>9. CASE rows[id] # Missing \/ rows[unit] # Missing \/ Taken(id, product) \/ Taken(unit, base)
  BY <1>2, <1>3, <1>9, RefuseKeeps
<1>10. CASE ~(rows[id] # Missing \/ rows[unit] # Missing \/ Taken(id, product) \/ Taken(unit, base))
  <2> PICK shown : shown = {id, unit} OBVIOUS
  <2>1. TwoRowsWritten([rows EXCEPT ![id] = product, ![unit] = base], id, product, unit, base)
    BY <1>1, <1>5, <1>6, <1>7, <1>8, RowsAreWritten
  <2>2. PICK written : /\ Conclude(o, "applied", written, shown)
                       /\ TwoRowsWritten(written, id, product, unit, base)
    BY <1>3, <1>10, <2>1
  <2>3. /\ written \in [RowIds -> MasterRows \cup {Missing}]
        /\ written[id] = product /\ written[unit] = base
        /\ \A i \in RowIds \ {id, unit} : written[i] = rows[i]
    BY <2>2 DEF TwoRowsWritten
  <2>4. rows' = written BY <2>2 DEF Conclude
  <2>5. product # Missing /\ base # Missing BY <1>6, <1>7, MissingAssumption
  <2>6. rows[id] = Missing /\ rows[unit] = Missing /\ ~Taken(id, product) /\ ~Taken(unit, base)
    BY <1>10
  <2>7. \A i \in RowIds : written[i] # rows[i] => i \in {id, unit} BY <2>3
  <2>8. WritesWell(o, written, shown)
    BY <1>5, <1>6, <1>7, <1>8, <2>3, <2>5, <2>6, <2>7 DEF WritesWell
  <2>9. WritesHeld(o, written)
    <3>1. \A i \in RowIds : rows[i] # Missing => written[i] = rows[i] BY <2>6, <2>7
    <3>2. \A u \in RowIds :
            (KindOf[u] = "unit" /\ (rows[u] = Missing \/ written[u].status # rows[u].status)
              /\ written[u] # Missing) => written[u].product = id
      BY <1>5, <1>7, <2>3, <2>7
    <3> QED BY <2>6, <3>1, <3>2 DEF WritesHeld
  <2>10. WritesNamed(cmd, written, shown) BY <1>2 DEF WritesNamed
  <2>11. UnitsRefer' /\ UnitsHaveTheirBase'
    <3>1. /\ written[id] # Missing /\ written[unit] # Missing /\ written[unit].product = id
          /\ written[unit].base /\ written[unit].status = "active"
      BY <1>7, <2>3, <2>5
    <3>2. \A i \in RowIds \ {id, unit} : written[i] = rows[i] BY <2>3
    <3> QED BY <1>1, <1>5, <1>8, <2>4, <2>6, <2>8, <3>1, <3>2, ProductComes
  <2>12. shown \in SUBSET RowIds BY <1>5
  <2> QED BY <1>2, <2>2, <2>3, <2>8, <2>9, <2>10, <2>11, <2>12, AppliedKeeps
<1> QED BY <1>9, <1>10

\* The actions that edit one row decide before they write it.
LEMMA EditStepKeeps ==
    ASSUME MasterIInv, NEW o \in MasterOps, running[o] # Missing,
           NEW cmd, cmd = running[o].command, cmd.action \in {"update", "archive", "restore"},
           ~(cmd.kind = "customer" /\ cmd.action = "update"),
           NEW shown, shown \in {{cmd.id}, {cmd.id} \cup UnitsOf(cmd.id)},
           NEW row, row = Edited(rows[cmd.id], cmd),
           IF running[o].allowed THEN WriteRow(o, cmd.id, row, shown) ELSE RefuseMaster(o)
    PROVE  MasterIInv' /\ RowsKept
<1>1. cmd \in MasterCommands BY RunningFacts DEF MasterIInv
<1>2. cmd.id \in RowIds BY <1>1, CommandFacts
<1>3. shown \in SUBSET RowIds /\ cmd.id \in shown BY <1>2 DEF UnitsOf
<1>4. \A j \in shown \ {cmd.id} : rows[j] # Missing BY DEF UnitsOf
<1> QED BY <1>3, <1>4, DecidedEditKeeps

LEMMA EditActionsKeep ==
    ASSUME MasterIInv, NEW o \in MasterOps,
           \/ UpdateParty(o) \/ ChangePartyLifecycle(o) \/ UpdateProduct(o)
           \/ ChangeProductLifecycle(o) \/ UpdateUnit(o) \/ ChangeUnitLifecycle(o)
           \/ UpdateSettings(o)
    PROVE  MasterIInv' /\ RowsKept
<1> PICK cmd : cmd = running[o].command OBVIOUS
<1> PICK alone : alone = {cmd.id} OBVIOUS
<1> PICK all : all = {cmd.id} \cup UnitsOf(cmd.id) OBVIOUS
<1> PICK row : row = Edited(rows[cmd.id], cmd) OBVIOUS
<1>1. CASE UpdateParty(o) \/ UpdateUnit(o) \/ UpdateSettings(o)
  <2>1. /\ running[o] # Missing /\ cmd.kind # "customer" /\ cmd.action = "update"
        /\ IF running[o].allowed THEN WriteRow(o, cmd.id, Updated(rows[cmd.id], cmd), alone)
           ELSE RefuseMaster(o)
    BY <1>1 DEF UpdateParty, UpdateUnit, UpdateSettings, IsRunning
  <2>2. row = Updated(rows[cmd.id], cmd) BY <2>1 DEF Edited
  <2> QED BY <2>1, <2>2, EditStepKeeps
<1>2. CASE UpdateProduct(o)
  <2>1. /\ running[o] # Missing /\ cmd.kind # "customer" /\ cmd.action = "update"
        /\ IF running[o].allowed THEN WriteRow(o, cmd.id, Updated(rows[cmd.id], cmd), all)
           ELSE RefuseMaster(o)
    BY <1>2 DEF UpdateProduct, IsRunning
  <2>2. row = Updated(rows[cmd.id], cmd) BY <2>1 DEF Edited
  <2> QED BY <2>1, <2>2, EditStepKeeps
<1>3. CASE ChangePartyLifecycle(o) \/ ChangeUnitLifecycle(o)
  <2>1. /\ running[o] # Missing /\ cmd.action \in {"archive", "restore"}
        /\ IF running[o].allowed THEN WriteRow(o, cmd.id, Cycled(rows[cmd.id], cmd), alone)
           ELSE RefuseMaster(o)
    BY <1>3 DEF ChangePartyLifecycle, ChangeUnitLifecycle, IsRunning
  <2>2. row = Cycled(rows[cmd.id], cmd) BY <2>1 DEF Edited
  <2> QED BY <2>1, <2>2, EditStepKeeps
<1>4. CASE ChangeProductLifecycle(o)
  <2>1. /\ running[o] # Missing /\ cmd.action \in {"archive", "restore"}
        /\ IF running[o].allowed THEN WriteRow(o, cmd.id, Cycled(rows[cmd.id], cmd), all)
           ELSE RefuseMaster(o)
    BY <1>4 DEF ChangeProductLifecycle, IsRunning
  <2>2. row = Cycled(rows[cmd.id], cmd) BY <2>1 DEF Edited
  <2> QED BY <2>1, <2>2, EditStepKeeps
<1> QED BY <1>1, <1>2, <1>3, <1>4

\* A customer is edited unlocked: nobody else holds the row.
LEMMA CustomerKeeps ==
    ASSUME MasterIInv, NEW o \in MasterOps, UpdateCustomer(o)
    PROVE  MasterIInv' /\ RowsKept
<1> PICK cmd : cmd = running[o].command OBVIOUS
<1> PICK id : id = cmd.id OBVIOUS
<1> PICK old : old = rows[id] OBVIOUS
<1>1. /\ running[o] # Missing /\ cmd.kind = "customer" /\ cmd.action = "update"
      /\ id \notin LockedFor(o)
      /\ IF Stands(cmd) THEN WriteRow(o, id, Updated(old, cmd), {id})
         ELSE running' = [running EXCEPT ![o].missed = TRUE] /\ UNCHANGED <<masterOps, rows>>
  BY DEF UpdateCustomer, IsRunning
<1>2. MasterTypeOK /\ OperationsOnce BY DEF MasterIInv
<1>3. id \in RowIds BY <1>1, <1>2, RunningFacts, CommandFacts
<1>4. CASE Stands(cmd)
  <2> PICK row : row = Edited(old, cmd) OBVIOUS
  <2> PICK shown : shown = {id} OBVIOUS
  <2>1. WriteRow(o, id, row, shown) BY <1>1, <1>4 DEF Edited
  <2>2. old # Missing /\ old.version = cmd.version BY <1>4 DEF Stands
  <2>3. EditsRow(o, cmd, id, old, shown) BY <1>1, <2>2 DEF EditsRow
  <2>4. shown \in SUBSET RowIds BY <1>3
  <2> QED BY <1>1, <2>1, <2>3, <2>4, EditKeeps
<1>5. CASE ~Stands(cmd)
  <2>1. running' = [running EXCEPT ![o].missed = TRUE] /\ UNCHANGED <<masterOps, rows>>
    BY <1>1, <1>5
  <2>2. running[o] \in RunningRows BY <1>1, <1>2 DEF MasterTypeOK
  <2>3. /\ [running[o] EXCEPT !.missed = TRUE] \in RunningRows
        /\ [running[o] EXCEPT !.missed = TRUE].command = running[o].command
        /\ [running[o] EXCEPT !.missed = TRUE].allowed = running[o].allowed
    BY <2>2 DEF RunningRows
  <2>4. /\ running' \in [MasterOps -> RunningRows \cup {Missing}]
        /\ running'[o] = [running[o] EXCEPT !.missed = TRUE]
        /\ \A p \in MasterOps \ {o} : running'[p] = running[p]
    BY <1>2, <2>1, <2>3 DEF MasterTypeOK
  <2>5. \A p \in MasterOps : running'[p] # Missing =>
          /\ running[p] # Missing /\ running'[p].command = running[p].command
          /\ running'[p].allowed = running[p].allowed
    BY <1>1, <2>3, <2>4
  <2> QED BY <2>1, <2>4, <2>5, RunningKeeps
<1> QED BY <1>4, <1>5

LEMMA ClassifyKeeps ==
    ASSUME MasterIInv, NEW o \in MasterOps, ClassifyMissedUpdate(o)
    PROVE  MasterIInv' /\ RowsKept
<1>1. MasterTypeOK BY DEF MasterIInv
<1>2. CASE Stands(running[o].command)
  <2>1. running' = [running EXCEPT ![o] = Missing] /\ UNCHANGED <<masterOps, rows>>
    BY <1>2 DEF ClassifyMissedUpdate
  <2>2. /\ running' \in [MasterOps -> RunningRows \cup {Missing}] /\ running'[o] = Missing
        /\ \A p \in MasterOps \ {o} : running'[p] = running[p]
    BY <1>1, <2>1 DEF MasterTypeOK
  <2>3. \A p \in MasterOps : running'[p] # Missing =>
          /\ running[p] # Missing /\ running'[p].command = running[p].command
          /\ running'[p].allowed = running[p].allowed
    BY <2>2
  <2> QED BY <2>1, <2>2, <2>3, RunningKeeps
<1>3. CASE ~Stands(running[o].command)
  <2>1. running[o] # Missing /\ RefuseMaster(o) BY <1>3 DEF ClassifyMissedUpdate
  <2> QED BY <2>1, RefuseKeeps
<1> QED BY <1>2, <1>3

LEMMA CreatePartyKeeps ==
    ASSUME MasterIInv, NEW o \in MasterOps, CreateParty(o)
    PROVE  MasterIInv' /\ RowsKept
<1> PICK cmd : cmd = running[o].command OBVIOUS
<1> PICK id : id = cmd.id OBVIOUS
<1> PICK row : row = FreshRow(o, cmd.fields) OBVIOUS
<1>1. /\ running[o] # Missing /\ cmd.kind # "unit" /\ cmd.action = "create"
      /\ IF rows[id] # Missing THEN RefuseMaster(o) ELSE WriteRow(o, id, row, {id})
  BY DEF CreateParty, IsRunning
<1>2. cmd \in MasterCommands BY <1>1, RunningFacts DEF MasterIInv
<1>3. /\ row \in MasterRows /\ row.version = 1 /\ row.status = "active" /\ row.op = o
      /\ DOMAIN row.fields = Columns(cmd.kind)
  BY <1>1, <1>2, CreatedFits
<1>4. CASE rows[id] # Missing BY <1>1, <1>4, RefuseKeeps
<1>5. CASE rows[id] = Missing
  <2>1. WriteRow(o, id, row, {id}) BY <1>1, <1>5
  <2> QED BY <1>1, <1>3, <1>5, <2>1, NewKeeps
<1> QED BY <1>4, <1>5

LEMMA CreateUnitKeeps ==
    ASSUME MasterIInv, NEW o \in MasterOps, CreateUnit(o)
    PROVE  MasterIInv' /\ RowsKept
<1> PICK cmd : cmd = running[o].command OBVIOUS
<1> PICK id : id = cmd.id OBVIOUS
<1> PICK product : product = cmd.product OBVIOUS
<1> PICK loose : loose = FreshRow(o, cmd.fields) OBVIOUS
<1> PICK row : row = Conversion(loose, product) OBVIOUS
<1>1. /\ running[o] # Missing /\ cmd.kind = "unit" /\ cmd.action = "create"
      /\ IF rows[id] # Missing THEN RefuseMaster(o) ELSE WriteRow(o, id, row, {id})
  BY DEF CreateUnit, IsRunning, Conversion
<1>2. cmd \in MasterCommands BY <1>1, RunningFacts DEF MasterIInv
<1>3. product \in RowIds BY <1>1, <1>2, CommandFacts
<1>4. /\ loose \in MasterRows /\ loose.version = 1 /\ loose.status = "active" /\ loose.op = o
      /\ ~loose.base /\ DOMAIN loose.fields = Columns(cmd.kind)
  BY <1>1, <1>2, CreatedFits
<1>5. /\ row \in MasterRows /\ row.version = loose.version /\ row.status = loose.status
      /\ row.op = loose.op /\ row.fields = loose.fields
      /\ row.product = product /\ (~loose.base => ~row.base)
  BY <1>3, <1>4, ConversionFits
<1>6. CASE rows[id] # Missing BY <1>1, <1>6, RefuseKeeps
<1>7. CASE rows[id] = Missing
  <2>1. WriteRow(o, id, row, {id}) BY <1>1, <1>7
  <2>2. /\ row.version = 1 /\ row.status = "active" /\ row.op = o
        /\ DOMAIN row.fields = Columns(cmd.kind)
        /\ cmd.kind = "unit" => row.product = cmd.product /\ ~row.base
    BY <1>4, <1>5
  <2> QED BY <1>1, <1>5, <1>7, <2>1, <2>2, NewKeeps
<1> QED BY <1>6, <1>7

-----------------------------------------------------------------------------
LEMMA InitHolds == MasterInit => MasterIInv
<1> SUFFICES ASSUME MasterInit PROVE MasterIInv OBVIOUS
<1>1. /\ \A o \in MasterOps : masterOps[o] = Missing /\ running[o] = Missing
      /\ \A i \in RowIds : rows[i] = Missing
  BY DEF MasterInit
<1>2. MasterTypeOK BY DEF MasterInit, MasterTypeOK
<1>3. RowsFit /\ UnitsRefer /\ OperationsOnce BY <1>1 DEF RowsFit, UnitsRefer, OperationsOnce
<1>4. AppliedCommands = {} BY <1>1 DEF AppliedCommands
<1>5. AnswersExist BY <1>4 DEF AnswersExist, AnswersOf
<1>6. DecisionsStand /\ LocksApart BY <1>1 DEF DecisionsStand, LocksApart, Allowed
<1>7. UnitsHaveTheirBase BY <1>1 DEF UnitsHaveTheirBase
<1>8. VersionTellsContent /\ KeysTell BY <1>1 DEF VersionTellsContent, KeysTell
<1>9. NothingLost BY <1>4 DEF NothingLost
<1> QED BY <1>2, <1>3, <1>5, <1>6, <1>7, <1>8, <1>9 DEF MasterIInv, MasterDataSound

LEMMA StepKeeps == MasterIInv /\ [ServeMasterData(MasterCommands)]_masterVars => MasterIInv' /\ RowsKept
<1> SUFFICES ASSUME MasterIInv, [ServeMasterData(MasterCommands)]_masterVars
             PROVE  MasterIInv' /\ RowsKept
  OBVIOUS
<1>1. CASE UNCHANGED masterVars
  <2>1. UNCHANGED <<masterOps, rows>> /\ running' = running BY <1>1 DEF masterVars
  <2>2. running \in [MasterOps -> RunningRows \cup {Missing}] BY DEF MasterIInv, MasterTypeOK
  <2> QED BY <2>1, <2>2, RunningKeeps
<1>2. ASSUME NEW cmd \in MasterCommands, BeginMaster(cmd) PROVE MasterIInv' /\ RowsKept
  BY <1>2, BeginKeeps
<1>3. ASSUME NEW cmd \in MasterCommands, RepeatMaster(cmd) PROVE MasterIInv' /\ RowsKept
  BY <1>1, <1>3 DEF RepeatMaster
<1>4. ASSUME NEW o \in MasterOps, CreateParty(o) PROVE MasterIInv' /\ RowsKept
  BY <1>4, CreatePartyKeeps
<1>5. ASSUME NEW o \in MasterOps,
             \/ UpdateParty(o) \/ ChangePartyLifecycle(o) \/ UpdateProduct(o)
             \/ ChangeProductLifecycle(o) \/ UpdateUnit(o) \/ ChangeUnitLifecycle(o)
             \/ UpdateSettings(o)
      PROVE  MasterIInv' /\ RowsKept
  BY <1>5, EditActionsKeep
<1>6. ASSUME NEW o \in MasterOps, UpdateCustomer(o) PROVE MasterIInv' /\ RowsKept
  BY <1>6, CustomerKeeps
<1>7. ASSUME NEW o \in MasterOps, ClassifyMissedUpdate(o) PROVE MasterIInv' /\ RowsKept
  BY <1>7, ClassifyKeeps
<1>8. ASSUME NEW o \in MasterOps, CreateProduct(o) PROVE MasterIInv' /\ RowsKept
  BY <1>8, ProductKeeps
<1>9. ASSUME NEW o \in MasterOps, CreateUnit(o) PROVE MasterIInv' /\ RowsKept
  BY <1>9, CreateUnitKeeps
<1>10. ASSUME NEW o \in MasterOps, EnsureSettings(o) PROVE MasterIInv' /\ RowsKept
  BY <1>10, EnsureKeeps
<1> QED BY <1>1, <1>2, <1>3, <1>4, <1>5, <1>6, <1>7, <1>8, <1>9, <1>10 DEF ServeMasterData

-----------------------------------------------------------------------------
(* In every state of a store's master data the invariant holds: decisions    *)
(* stand until they are written, under locks that are held apart.            *)
THEOREM MasterInvariance == MasterSpec => []MasterIInv
BY InitHolds, StepKeeps, PTL DEF MasterSpec

(* Under any interleaving of any commands: no unit in use without the base   *)
(* of its product, no two bases, every version tells one content and was     *)
(* some command's, no change is lost, and no two of a kind have one key.     *)
THEOREM MasterDataIsSound == MasterSpec => []MasterDataSound
<1>1. MasterIInv => MasterDataSound BY DEF MasterIInv
<1> QED BY <1>1, MasterInvariance, PTL

(* What is kept never goes away, and a unit is of one product, base or not,  *)
(* for good; a version only grows, and the same version is the same row.     *)
THEOREM RowsAreKept == MasterSpec => [][RowsKept]_masterVars
BY MasterInvariance, StepKeeps, PTL DEF MasterSpec
=============================================================================
