------------------------------ MODULE Postings ------------------------------
(* Postings to the money accounts of one Store: opening balances, owner     *)
(* commands, transfers and their corrections, racing the lifecycle of the   *)
(* accounts and the closing of accounting periods.                          *)
(*                                                                          *)
(* A client runs one PostgreSQL transaction per command. Each row it locks  *)
(* is an action of its own, because it may have to wait there; what it      *)
(* writes is seen by others at its commit. Locks are the fields of txn[c]   *)
(* the other clients test. balance and liability are the views of the same  *)
(* name: sums over rows that are only ever inserted.                        *)
EXTENDS Integers, Sequences, FiniteSets

Sums == INSTANCE FiniteSetsExt

CONSTANTS
    Clients,     \* transactions under way at the same time
    Commands,    \* the commands clients may send, each any number of times
    Operations,  \* their operation identifiers
    Accounts,    \* money accounts, ordered as their identifiers
    Cash,        \* the account the Store is provisioned with
    Names,       \* normalized names of accounts
    Periods,     \* calendar months
    Amounts,     \* amounts in minor units
    None

OwnerKinds == {"owner_contribution", "owner_loan", "owner_reimbursement",
               "owner_personal_withdrawal", "owner_capital_withdrawal"}
Domains == OwnerKinds \cup {"opening_balance", "internal_transfer"}
Corrections == {"reversal", "replacement"}

(* The signs of a command in the money account, in what the Store owes its  *)
(* owner, and in the owner's equity.                                        *)
LiabilityFactor(domain) ==
    CASE domain = "owner_loan" -> 1
      [] domain = "owner_reimbursement" -> -1
      [] OTHER -> 0
EquityFactor(domain) ==
    CASE domain = "owner_contribution" -> 1
      [] domain \in {"owner_personal_withdrawal", "owner_capital_withdrawal"} -> -1
      [] OTHER -> 0
MoneyFactor(domain) ==
    IF LiabilityFactor(domain) = -1 \/ EquityFactor(domain) = -1 THEN -1 ELSE 1

Positive == {n \in Amounts : n > 0}

(* What the services accept: canonical identifiers, amounts with the sign   *)
(* their command allows, the month of the instant they name.                *)
OpeningCommand ==
    [kind : {"opening_balance"}, op : Operations, account : Accounts,
     amount : Amounts, period : Periods]
OwnerCommand ==
    [kind : OwnerKinds, op : Operations, account : Accounts,
     amount : Positive, period : Periods]
TransferCommand ==
    [kind : {"internal_transfer"}, op : Operations, account : Accounts,
     to : Accounts, amount : Positive, period : Periods]
ReversalCommand ==
    [kind : {"reversal"}, op : Operations, target : Operations, domain : Domains,
     account : {None}, to : {None}, amount : {0}, period : Periods]
ReplacementCommand ==
    LET asks(domains, accounts, tos, amounts) ==
          [kind : {"replacement"}, op : Operations, target : Operations, domain : domains,
           account : accounts, to : tos, amount : amounts, period : Periods]
    IN asks({"opening_balance"}, {None}, {None}, Amounts \ {0})
       \cup asks(OwnerKinds, Accounts, {None}, Positive)
       \cup asks({"internal_transfer"}, Accounts \cup {None}, Accounts, Positive)
LifecycleCommand ==
    [kind : {"archive", "restore"}, op : Operations, account : Accounts, version : Nat]
CreateCommand ==
    [kind : {"create"}, op : Operations, account : Accounts, name : Names]
CloseCommand ==
    [kind : {"close"}, op : Operations, period : Periods, version : Nat]
(* A sale of goods whose cost is not known yet, as far as a period sees it. *)
UncostedCommand ==
    [kind : {"uncosted"}, op : Operations, period : Periods]

Command == OpeningCommand \cup OwnerCommand \cup TransferCommand \cup ReversalCommand
           \cup ReplacementCommand \cup LifecycleCommand \cup CreateCommand \cup CloseCommand \cup UncostedCommand

ASSUME PostingsAssumption ==
    /\ Accounts \subseteq Nat /\ Cash \in Accounts
    /\ Amounts \subseteq Int /\ IsFiniteSet(Accounts)
    /\ None \notin Accounts /\ None \notin Operations /\ None \notin Periods /\ None \notin Names
    /\ Commands \subseteq Command

VARIABLES
    operation,  \* sync.processed_operations: None, or the command and its outcome
    account,    \* ledger.money_accounts
    period,     \* ledger.accounting_periods
    uncosted,   \* periods with a sale whose cost is pending
    balance,    \* ledger.v_money_account_balances
    liability,  \* what the Store owes its owner
    conflicts,  \* sync.conflicts: operation identifiers reused for another request
    txn         \* the transactions under way

vars == <<operation, account, period, uncosted, balance, liability, conflicts, txn>>

AccountRow == [status : {"absent", "active", "archived"}, name : Names \cup {None}, version : Nat]
PeriodRow == [status : {"absent", "open", "closed"}, version : Nat]
Roles == {"opening", "owner-money", "transfer-source", "transfer-destination"}
Phases == {"original", "reversal", "replacement"}
Movement == [phase : Phases, role : Roles, account : Accounts, amount : Int,
             reverses : Operations \cup {None}]
Entry == [phase : Phases, liability : Int, equity : Int, reverses : Operations \cup {None}]
(* The event an operation leaves to be corrected later.                     *)
Event == [domain : Domains, account : Accounts, to : Accounts \cup {None}, amount : Int]
Outcome == [command : Command, status : {"applied", "rejected"},
            movements : Seq(Movement), entries : Seq(Entry), event : Event \cup {None}]
ASSUME NoneAssumption == None \notin Outcome /\ None \notin Event

Locks == {"none", "share", "exclusive"}
Steps == {"idle", "store", "claim", "target", "period", "closing", "accounts",
          "lifecycle", "cash", "post", "commit"}
Idle == [pc |-> "idle", command |-> None, store |-> "none", claimed |-> FALSE,
         target |-> FALSE, period |-> "none", provisions |-> FALSE,
         accounts |-> {}, cash |-> FALSE, outcome |-> None]

Init ==
    /\ operation = [o \in Operations |-> None]
    /\ account = [a \in Accounts |->
                    [status |-> IF a = Cash THEN "active" ELSE "absent",
                     name |-> None, version |-> IF a = Cash THEN 1 ELSE 0]]
    /\ period = [p \in Periods |-> [status |-> "absent", version |-> 0]]
    /\ uncosted = {}
    /\ balance = [a \in Accounts |-> 0]
    /\ liability = 0
    /\ conflicts = {}
    /\ txn = [c \in Clients |-> Idle]

-----------------------------------------------------------------------------
(* Outcomes.                                                                *)
Applied(cmd, movements, entries, event) ==
    [command |-> cmd, status |-> "applied", movements |-> movements,
     entries |-> entries, event |-> event]
Rejected(cmd) ==
    [command |-> cmd, status |-> "rejected", movements |-> <<>>, entries |-> <<>>,
     event |-> None]

IsApplied(o) == operation[o] # None /\ operation[o].status = "applied"
Superseded(o) ==
    \E r \in Operations : IsApplied(r) /\ operation[r].command.kind \in Corrections
                          /\ operation[r].command.target = o

(* What an outcome adds to an account, to the liability and to the equity.  *)
AmountAt(movements, i, a) ==
    IF i \in DOMAIN movements /\ movements[i].account = a THEN movements[i].amount ELSE 0
Moved(movements, a) ==
    AmountAt(movements, 1, a) + AmountAt(movements, 2, a)
    + AmountAt(movements, 3, a) + AmountAt(movements, 4, a)
LiabilityAt(entries, i) == IF i \in DOMAIN entries THEN entries[i].liability ELSE 0
Owed(entries) == LiabilityAt(entries, 1) + LiabilityAt(entries, 2)

(* The rows of an event, and those of its reversal: the same with opposite  *)
(* amounts, each naming the row it reverses.                                *)
EventMovements(e, phase) ==
    CASE e.domain = "opening_balance" ->
           <<[phase |-> phase, role |-> "opening", account |-> e.account,
              amount |-> e.amount, reverses |-> None]>>
      [] e.domain = "internal_transfer" ->
           <<[phase |-> phase, role |-> "transfer-source", account |-> e.account,
              amount |-> -e.amount, reverses |-> None],
             [phase |-> phase, role |-> "transfer-destination", account |-> e.to,
              amount |-> e.amount, reverses |-> None]>>
      [] OTHER ->
           <<[phase |-> phase, role |-> "owner-money", account |-> e.account,
              amount |-> MoneyFactor(e.domain) * e.amount, reverses |-> None]>>
EventEntries(e, phase) ==
    IF e.domain \in OwnerKinds
    THEN <<[phase |-> phase, liability |-> LiabilityFactor(e.domain) * e.amount,
            equity |-> EquityFactor(e.domain) * e.amount, reverses |-> None]>>
    ELSE <<>>
ReversalMovements(e, target) ==
    LET rows == EventMovements(e, "reversal") IN
    [i \in DOMAIN rows |-> [rows[i] EXCEPT !.amount = -rows[i].amount, !.reverses = target]]
ReversalEntries(e, target) ==
    LET rows == EventEntries(e, "reversal") IN
    [i \in DOMAIN rows |-> [rows[i] EXCEPT !.liability = -rows[i].liability,
                                           !.equity = -rows[i].equity, !.reverses = target]]

(* What a replacement asks for, where the request leaves the account open.  *)
ReplacementEvent(cmd, e) ==
    [domain |-> e.domain,
     account |-> IF cmd.account = None THEN e.account ELSE cmd.account,
     to |-> cmd.to, amount |-> cmd.amount]

CorrectionOutcome(cmd, e) ==
    IF cmd.kind = "reversal"
    THEN Applied(cmd, ReversalMovements(e, cmd.target), ReversalEntries(e, cmd.target), None)
    ELSE LET new == ReplacementEvent(cmd, e) IN
         Applied(cmd, ReversalMovements(e, cmd.target) \o EventMovements(new, "replacement"),
                 ReversalEntries(e, cmd.target) \o EventEntries(new, "replacement"), new)

-----------------------------------------------------------------------------
(* Locks. A row is free for a client when no other holds it in a mode that  *)
(* conflicts.                                                               *)
Others(c) == Clients \ {c}
StoreFree(c, mode) ==
    \A d \in Others(c) : txn[d].store # "exclusive" /\ (mode = "exclusive" => txn[d].store = "none")
PeriodFreeOfClosing(c, p, mode) ==
    \A d \in Others(c) : ~(txn[d].period = "exclusive" /\ txn[d].command.period = p)
PeriodFree(c, p, mode) ==
    \A d \in Others(c) : (txn[d].period # "none" /\ txn[d].command.period = p) =>
                            (mode = "share" /\ txn[d].period = "share" /\ ~txn[d].provisions)
(* A broken variant: the row of an account is read and not locked.         *)
AccountUnlocked(c, a) == TRUE
AccountFree(c, a) ==
    \A d \in Others(c) : a \notin txn[d].accounts /\ (a = Cash => ~txn[d].cash)
CashShareable(c) == \A d \in Others(c) : Cash \notin txn[d].accounts
ClaimFree(c, o) == \A d \in Others(c) : ~(txn[d].claimed /\ txn[d].command.op = o)
TargetFree(c, o) == \A d \in Others(c) : ~(txn[d].target /\ txn[d].command.target = o)
(* The unique index on names makes an insert wait for one under way.        *)
NameFree(c, n) ==
    \A d \in Others(c) : ~(txn[d].pc = "commit" /\ txn[d].command.kind = "create"
                           /\ txn[d].outcome.status = "applied" /\ txn[d].command.name = n)

(* Owner liability is read and then reduced, so these take the Store alone. *)
SerializesLiability(cmd) ==
    \/ cmd.kind = "owner_reimbursement"
    \/ cmd.kind \in Corrections /\ cmd.domain \in {"owner_loan", "owner_reimbursement"}

FirstStep(cmd) ==
    CASE cmd.kind \in Corrections -> "target"
      [] cmd.kind = "close" -> "closing"
      [] cmd.kind \in {"archive", "restore"} -> "lifecycle"
      [] cmd.kind = "create" -> "cash"
      [] OTHER -> "period"

Decide(c, outcome) ==
    txn' = [txn EXCEPT ![c].pc = "commit", ![c].outcome = outcome]
(* A known refusal rolls back to the savepoint, which gives up the locks    *)
(* taken since, and is recorded.                                            *)
Reject(c) ==
    txn' = [txn EXCEPT ![c].pc = "commit", ![c].outcome = Rejected(txn[c].command),
                       ![c].target = FALSE, ![c].period = "none", ![c].provisions = FALSE,
                       ![c].accounts = {}]
Books == <<operation, account, period, uncosted, balance, liability, conflicts>>

(* A request for an operation already recorded is answered from the record, *)
(* and noted as a conflict when it is not the same request.                 *)
Resolve(o, cmd) ==
    conflicts' = IF operation[o].command = cmd THEN conflicts ELSE conflicts \cup {o}

Replay(c, cmd) ==
    /\ txn[c].pc = "idle" /\ operation[cmd.op] # None
    /\ Resolve(cmd.op, cmd)
    /\ UNCHANGED <<operation, account, period, uncosted, balance, liability, txn>>

Submit(c, cmd) ==
    /\ txn[c].pc = "idle" /\ operation[cmd.op] = None
    /\ txn' = [txn EXCEPT ![c] = [Idle EXCEPT !.pc = "store", !.command = cmd]]
    /\ UNCHANGED Books

StoreMode(cmd) == IF SerializesLiability(cmd) THEN "exclusive" ELSE "share"

LockStore(c) ==
    /\ txn[c].pc = "store" /\ StoreFree(c, StoreMode(txn[c].command))
    /\ txn' = [txn EXCEPT ![c].pc = "claim", ![c].store = StoreMode(txn[c].command)]
    /\ UNCHANGED Books

(* sync.claim_operation inserts the row of the operation: it waits for an   *)
(* insert of the same row under way and then finds what that one recorded.  *)
Claim(c) ==
    LET cmd == txn[c].command IN
    /\ txn[c].pc = "claim" /\ ClaimFree(c, cmd.op)
    /\ operation[cmd.op] = None
    /\ txn' = [txn EXCEPT ![c].pc = FirstStep(cmd), ![c].claimed = TRUE]
    /\ UNCHANGED Books

ClaimLost(c) ==
    LET cmd == txn[c].command IN
    /\ txn[c].pc = "claim" /\ ClaimFree(c, cmd.op)
    /\ operation[cmd.op] # None
    /\ Resolve(cmd.op, cmd)
    /\ txn' = [txn EXCEPT ![c] = Idle]
    /\ UNCHANGED <<operation, account, period, uncosted, balance, liability>>

-----------------------------------------------------------------------------
(* Corrections lock the row of the operation they correct and then ask      *)
(* whether it still is the active event of their domain.                    *)
Correctable(o, domain) ==
    /\ IsApplied(o) /\ ~Superseded(o)
    /\ operation[o].event # None /\ operation[o].event.domain = domain

ChangesTarget(cmd, e) ==
    \/ cmd.kind = "reversal"
    \/ /\ ReplacementEvent(cmd, e) # e
       /\ e.domain = "internal_transfer" => ReplacementEvent(cmd, e).account # cmd.to

LockTarget(c) ==
    LET cmd == txn[c].command IN
    /\ txn[c].pc = "target" /\ TargetFree(c, cmd.target)
    /\ IF Correctable(cmd.target, cmd.domain)
          /\ ChangesTarget(cmd, operation[cmd.target].event)
       THEN txn' = [txn EXCEPT ![c].pc = "period", ![c].target = TRUE]
       ELSE Reject(c)
    /\ UNCHANGED Books

(* The period of the posting: read under a share lock, opened when absent.  *)
(* An insert of the same month under way is waited for.                     *)
ResolvePeriod(c) ==
    LET p == txn[c].command.period IN
    /\ txn[c].pc = "period"
    /\ \/ /\ period[p].status = "open" /\ PeriodFree(c, p, "share")
          /\ txn' = [txn EXCEPT ![c].pc = "accounts", ![c].period = "share"]
       \/ /\ period[p].status = "absent" /\ PeriodFree(c, p, "share")
          /\ txn' = [txn EXCEPT ![c].pc = "accounts", ![c].period = "share",
                                ![c].provisions = TRUE]
       \/ /\ period[p].status = "closed" /\ PeriodFree(c, p, "share")
          /\ Reject(c)
    /\ UNCHANGED Books

(* The accounts a command touches, locked one by one in ascending order.    *)
AffectedAccounts(cmd) ==
    CASE cmd.kind \in OwnerKinds \cup {"opening_balance"} -> {cmd.account}
      [] cmd.kind = "internal_transfer" -> {cmd.account, cmd.to}
      [] cmd.kind \in Corrections ->
           LET e == operation[cmd.target].event IN
           {e.account, e.to, cmd.account, cmd.to} \ {None}
      [] OTHER -> {}

NextAccount(c) ==
    LET left == AffectedAccounts(txn[c].command) \ txn[c].accounts IN
    CHOOSE a \in left : \A b \in left : a <= b

LockAccount(c) ==
    /\ txn[c].pc = "accounts"
    /\ ~(AffectedAccounts(txn[c].command) \subseteq txn[c].accounts)
    /\ AccountFree(c, NextAccount(c))
    /\ IF account[NextAccount(c)].status = "absent"
       THEN Reject(c)
       ELSE txn' = [txn EXCEPT ![c].accounts = @ \cup {NextAccount(c)}]
    /\ UNCHANGED Books

ValidateAccounts(c) ==
    LET affected == AffectedAccounts(txn[c].command) IN
    /\ txn[c].pc = "accounts" /\ affected \subseteq txn[c].accounts
    /\ IF \A a \in affected : account[a].status = "active"
       THEN txn' = [txn EXCEPT ![c].pc = "post"]
       ELSE Reject(c)
    /\ UNCHANGED Books

-----------------------------------------------------------------------------
(* The postings, each with the last check before its rows are inserted.     *)
Posts(c, kinds) == txn[c].pc = "post" /\ txn[c].command.kind \in kinds

HasOpening(a) ==
    \E o \in Operations : IsApplied(o) /\ operation[o].command.kind = "opening_balance"
                          /\ operation[o].event # None /\ operation[o].event.account = a

PostOpening(c) ==
    LET cmd == txn[c].command
        e == [domain |-> "opening_balance", account |-> cmd.account, to |-> None,
              amount |-> cmd.amount] IN
    /\ Posts(c, {"opening_balance"})
    /\ CASE cmd.amount = 0 -> Decide(c, Applied(cmd, <<>>, <<>>, None))
         [] cmd.amount # 0 /\ HasOpening(cmd.account) -> Reject(c)
         [] OTHER -> Decide(c, Applied(cmd, EventMovements(e, "original"), <<>>, e))
    /\ UNCHANGED Books

PostOwnerCommand(c) ==
    LET cmd == txn[c].command
        e == [domain |-> cmd.kind, account |-> cmd.account, to |-> None,
              amount |-> cmd.amount] IN
    /\ Posts(c, OwnerKinds)
    /\ IF cmd.kind = "owner_reimbursement" /\ cmd.amount > liability
       THEN Reject(c)
       ELSE Decide(c, Applied(cmd, EventMovements(e, "original"),
                              EventEntries(e, "original"), e))
    /\ UNCHANGED Books

PostTransfer(c) ==
    LET cmd == txn[c].command
        e == [domain |-> "internal_transfer", account |-> cmd.account, to |-> cmd.to,
              amount |-> cmd.amount] IN
    /\ Posts(c, {"internal_transfer"})
    /\ IF cmd.account = cmd.to
       THEN Reject(c)
       ELSE Decide(c, Applied(cmd, EventMovements(e, "original"), <<>>, e))
    /\ UNCHANGED Books

ProjectedLiability(cmd, e) == liability + Owed(CorrectionOutcome(cmd, e).entries)

PostCorrection(c) ==
    LET cmd == txn[c].command
        e == operation[cmd.target].event IN
    /\ Posts(c, Corrections)
    /\ IF e.domain \in {"owner_loan", "owner_reimbursement"} /\ ProjectedLiability(cmd, e) < 0
       THEN Reject(c)
       ELSE Decide(c, CorrectionOutcome(cmd, e))
    /\ UNCHANGED Books

PostUncosted(c) ==
    /\ Posts(c, {"uncosted"})
    /\ Decide(c, Applied(txn[c].command, <<>>, <<>>, None))
    /\ UNCHANGED Books

-----------------------------------------------------------------------------
(* The lifecycle of an account, decided under the lock of its row. Nothing  *)
(* here is rolled back before a refusal is recorded.                        *)
LockLifecycle(c) ==
    LET a == txn[c].command.account IN
    /\ txn[c].pc = "lifecycle" /\ AccountFree(c, a)
    /\ IF account[a].status = "absent"
       THEN Decide(c, Rejected(txn[c].command))
       ELSE txn' = [txn EXCEPT ![c].pc = "post", ![c].accounts = {a}]
    /\ UNCHANGED Books

TargetStatus(cmd) == IF cmd.kind = "archive" THEN "archived" ELSE "active"
LifecycleAllowed(cmd) ==
    LET row == account[cmd.account] IN
    /\ cmd.account # Cash /\ row.version = cmd.version
    /\ (cmd.kind = "archive" /\ row.status = "active") => balance[cmd.account] = 0

PostLifecycle(c) ==
    LET cmd == txn[c].command IN
    /\ Posts(c, {"archive", "restore"})
    /\ IF LifecycleAllowed(cmd)
       THEN Decide(c, Applied(cmd, <<>>, <<>>, None))
       ELSE Decide(c, Rejected(cmd))
    /\ UNCHANGED Books

LockCash(c) ==
    /\ txn[c].pc = "cash" /\ CashShareable(c)
    /\ txn' = [txn EXCEPT ![c].pc = "post", ![c].cash = TRUE]
    /\ UNCHANGED Books

PostCreate(c) ==
    LET cmd == txn[c].command IN
    /\ Posts(c, {"create"}) /\ NameFree(c, cmd.name)
    /\ IF account[cmd.account].status = "absent" /\ \A a \in Accounts : account[a].name # cmd.name
       THEN Decide(c, Applied(cmd, <<>>, <<>>, None))
       ELSE Decide(c, Rejected(cmd))
    /\ UNCHANGED Books

(* Closing takes the row of the period alone: it waits for every posting    *)
(* that resolved it, and then looks for what must not be closed away.       *)
LockClosing(c) ==
    LET p == txn[c].command.period IN
    /\ txn[c].pc = "closing"
    /\ period[p].status # "absent" => PeriodFree(c, p, "exclusive")
    /\ txn' = [txn EXCEPT ![c].pc = "post",
                          ![c].period = IF period[p].status = "absent" THEN "none" ELSE "exclusive"]
    /\ UNCHANGED Books

HasCloseBlocker(p) == p \in uncosted
CloseAllowed(cmd) ==
    LET row == period[cmd.period] IN
    /\ row.status # "absent" /\ row.version = cmd.version
    /\ row.status = "open" => ~HasCloseBlocker(cmd.period)

PostClose(c) ==
    LET cmd == txn[c].command IN
    /\ Posts(c, {"close"})
    /\ IF txn[c].period = "exclusive" /\ CloseAllowed(cmd)
       THEN Decide(c, Applied(cmd, <<>>, <<>>, None))
       ELSE Decide(c, Rejected(cmd))
    /\ UNCHANGED Books

-----------------------------------------------------------------------------
(* Commit makes the rows of the outcome visible and gives up the locks.     *)
AccountsAfter(out) ==
    LET cmd == out.command IN
    CASE out.status = "applied" /\ cmd.kind = "create" ->
           [account EXCEPT ![cmd.account] =
              [status |-> "active", name |-> cmd.name, version |-> 1]]
      [] out.status = "applied" /\ cmd.kind \in {"archive", "restore"}
         /\ account[cmd.account].status # TargetStatus(cmd) ->
           [account EXCEPT ![cmd.account].status = TargetStatus(cmd),
                           ![cmd.account].version = @ + 1]
      [] OTHER -> account

PeriodsAfter(c, out) ==
    LET cmd == out.command IN
    CASE txn[c].provisions ->
           [period EXCEPT ![cmd.period] = [status |-> "open", version |-> 1]]
      [] out.status = "applied" /\ cmd.kind = "close" /\ period[cmd.period].status = "open" ->
           [period EXCEPT ![cmd.period] = [status |-> "closed", version |-> @.version + 1]]
      [] OTHER -> period

Commit(c) ==
    LET out == txn[c].outcome
        cmd == out.command IN
    /\ txn[c].pc = "commit"
    /\ operation' = [operation EXCEPT ![cmd.op] = out]
    /\ account' = AccountsAfter(out)
    /\ period' = PeriodsAfter(c, out)
    /\ uncosted' = IF out.status = "applied" /\ cmd.kind = "uncosted"
                   THEN uncosted \cup {cmd.period} ELSE uncosted
    /\ balance' = [a \in Accounts |-> balance[a] + Moved(out.movements, a)]
    /\ liability' = liability + Owed(out.entries)
    /\ txn' = [txn EXCEPT ![c] = Idle]
    /\ UNCHANGED conflicts

(* A refusal that is not recorded, a lost connection, a crash.              *)
Abort(c) ==
    /\ txn[c].pc # "idle"
    /\ txn' = [txn EXCEPT ![c] = Idle]
    /\ UNCHANGED Books

Step(c) ==
    \/ LockStore(c) \/ Claim(c) \/ ClaimLost(c) \/ LockTarget(c) \/ ResolvePeriod(c)
    \/ LockAccount(c) \/ ValidateAccounts(c)
    \/ PostOpening(c) \/ PostOwnerCommand(c) \/ PostTransfer(c) \/ PostCorrection(c)
    \/ PostUncosted(c) \/ LockLifecycle(c) \/ PostLifecycle(c) \/ LockCash(c) \/ PostCreate(c)
    \/ LockClosing(c) \/ PostClose(c) \/ Commit(c)

Serve(commands) ==
    \E c \in Clients :
        \/ \E cmd \in commands : Submit(c, cmd) \/ Replay(c, cmd)
        \/ Step(c)
        \/ Abort(c)

Next == Serve(Commands)

Spec == Init /\ [][Next]_vars

-----------------------------------------------------------------------------
TransactionRow ==
    [pc : Steps, command : Command \cup {None}, store : Locks, claimed : BOOLEAN,
     target : BOOLEAN, period : Locks, provisions : BOOLEAN, accounts : SUBSET Accounts,
     cash : BOOLEAN, outcome : Outcome \cup {None}]

(* Every variable has its type.                                             *)
TypeOK ==
    /\ operation \in [Operations -> Outcome \cup {None}]
    /\ account \in [Accounts -> AccountRow]
    /\ period \in [Periods -> PeriodRow]
    /\ uncosted \subseteq Periods
    /\ balance \in [Accounts -> Int]
    /\ liability \in Int
    /\ conflicts \subseteq Operations
    /\ txn \in [Clients -> TransactionRow]

(* An archived account is empty: archiving looks at the balance under the   *)
(* lock every posting takes before it looks at the status.                  *)
ArchivedIsEmpty == \A a \in Accounts : account[a].status = "archived" => balance[a] = 0

(* Nothing is posted into a closed period: what it holds when it is closed  *)
(* is all it ever holds, whatever was under way at that moment.             *)
PostedIn(p) ==
    {o \in Operations : IsApplied(o) /\ operation[o].movements # <<>>
                        /\ operation[o].command.period = p}
ClosedIsFinal ==
    [][\A p \in Periods : period[p].status = "closed" =>
          /\ PostedIn(p)' = PostedIn(p)
          /\ period'[p].status = "closed"]_vars

(* No sale whose cost is still pending is closed away.                      *)
ClosedIsCosted == \A p \in Periods : period[p].status = "closed" => p \notin uncosted

(* One correction at most is applied to an operation, and only to an event  *)
(* that was there to be corrected.                                          *)
CorrectedOnce ==
    \A o \in Operations :
        LET by == {r \in Operations : IsApplied(r) /\ operation[r].command.kind \in Corrections
                                      /\ operation[r].command.target = o} IN
        Cardinality(by) <= 1 /\ (by # {} => IsApplied(o) /\ operation[o].event # None)

(* The Store never owes its owner less than nothing, in whatever order      *)
(* loans, reimbursements and their corrections commit.                      *)
LiabilityNotNegative == liability >= 0

(* An account is given its opening balance once.                            *)
OneOpening ==
    \A o, r \in Operations :
        (/\ IsApplied(o) /\ IsApplied(r)
         /\ operation[o].command.kind = "opening_balance" /\ operation[o].event # None
         /\ operation[r].command.kind = "opening_balance" /\ operation[r].event # None
         /\ operation[o].event.account = operation[r].event.account) => o = r

(* The balances are those of the events that stand: a chain of corrections  *)
(* leaves exactly the last replacement, and a reversal nothing.             *)
Standing == {o \in Operations : IsApplied(o) /\ operation[o].event # None /\ ~Superseded(o)}
BooksFollowEvents ==
    \A a \in Accounts :
        balance[a] =
          Sums!MapThenSumSet(LAMBDA o : Moved(EventMovements(operation[o].event, "original"), a),
                             Standing)

(* No set of transactions waits for one another: while any is under way,    *)
(* one of them can go on.                                                   *)
Blocked(c) ==
    LET t == txn[c]
        cmd == t.command IN
    \/ t.pc = "store" /\ ~StoreFree(c, StoreMode(cmd))
    \/ t.pc = "claim" /\ ~ClaimFree(c, cmd.op)
    \/ t.pc = "target" /\ ~TargetFree(c, cmd.target)
    \/ t.pc = "period" /\ ~PeriodFree(c, cmd.period, "share")
    \/ t.pc = "closing" /\ period[cmd.period].status # "absent"
       /\ ~PeriodFree(c, cmd.period, "exclusive")
    \/ t.pc = "accounts" /\ ~(AffectedAccounts(cmd) \subseteq t.accounts)
       /\ ~AccountFree(c, NextAccount(c))
    \/ t.pc = "lifecycle" /\ ~AccountFree(c, cmd.account)
    \/ t.pc = "cash" /\ ~CashShareable(c)
    \/ t.pc = "post" /\ cmd.kind = "create" /\ ~NameFree(c, cmd.name)
NoCircularWait ==
    LET busy == {c \in Clients : txn[c].pc # "idle"} IN
    busy # {} => \E c \in busy : ~Blocked(c)

(* The books are sound, and the transactions that write them never stand    *)
(* still, however the commands of several clients interleave.               *)
PostingsSound ==
    /\ TypeOK
    /\ ArchivedIsEmpty
    /\ ClosedIsCosted
    /\ CorrectedOnce
    /\ LiabilityNotNegative
    /\ OneOpening
    /\ BooksFollowEvents
    /\ NoCircularWait
=============================================================================
