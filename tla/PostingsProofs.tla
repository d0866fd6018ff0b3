---------------------------- MODULE PostingsProofs ----------------------------
(***************************************************************************)
(* Proofs about Postings, for any clients, commands, accounts and periods, *)
(* and, in the second half, about the books of the expenses.               *)
(* A command decides what it records under locks it took one by one, and   *)
(* records it later, when others have committed. The inductive invariant   *)
(* says what the phase of a transaction tells of its locks (Shape), that   *)
(* what it has read under them still stands (Kept), what it decided to     *)
(* record (Decided), which locks two transactions never hold together      *)
(* (Apart), what is on record (Recorded), and that the balances are the    *)
(* sums of the events that stand (Balanced, Follows). Locks are taken in   *)
(* one order of stages, and of accounts within one of them: in a circle of *)
(* waiting transactions there would be no last account.                    *)
(***************************************************************************)
EXTENDS Postings, ExpenseReads, WellFoundedInduction, FiniteSetTheorems, TLAPS

-----------------------------------------------------------------------------
\* The tables as parameters: what is recorded, and what stands of it.
AppliedIn(op, o) == op[o] # None /\ op[o].status = "applied"
Corrects(op, r, o) ==
    AppliedIn(op, r) /\ op[r].command.kind \in Corrections /\ op[r].command.target = o
StandsIn(op, o, domain) ==
    /\ AppliedIn(op, o) /\ \A r \in Operations : ~Corrects(op, r, o)
    /\ op[o].event # None /\ op[o].event.domain = domain
Opens(out, a) ==
    /\ out.status = "applied" /\ out.command.kind = "opening_balance"
    /\ out.event # None /\ out.event.account = a
Affected(op, cmd) ==
    CASE cmd.kind \in OwnerKinds \cup {"opening_balance"} -> {cmd.account}
      [] cmd.kind = "internal_transfer" -> {cmd.account, cmd.to}
      [] cmd.kind \in Corrections ->
           LET e == op[cmd.target].event IN
           {e.account, e.to, cmd.account, cmd.to} \ {None}
      [] OTHER -> {}

PostingKinds == OwnerKinds \cup Corrections \cup {"opening_balance", "internal_transfer", "uncosted"}
Kinds == PostingKinds \cup {"archive", "restore", "create", "close"}

\* Money moves between two accounts.
WholeEvent(e) == e.domain = "internal_transfer" => e.to \in Accounts
WholeOutcome(out) == out.event # None => WholeEvent(out.event)

\* What a phase tells of the locks.
Shape(t) ==
    /\ t.pc = "idle" => t = Idle
    /\ t.pc # "idle" => t.command \in Command
    /\ t.store = (IF t.pc \in {"idle", "store"} THEN "none" ELSE StoreMode(t.command))
    /\ t.claimed <=> t.pc \notin {"idle", "store", "claim"}
    /\ t.target => t.command.kind \in Corrections /\ t.pc \in {"period", "accounts", "post", "commit"}
    /\ (t.pc \in {"period", "accounts", "post"} /\ t.command.kind \in Corrections) => t.target
    /\ t.pc \in {"period", "accounts"} => t.command.kind \in PostingKinds
    /\ t.pc = "target" => t.command.kind \in Corrections
    /\ t.pc = "closing" => t.command.kind = "close"
    /\ t.pc = "lifecycle" => t.command.kind \in {"archive", "restore"}
    /\ t.pc = "cash" => t.command.kind = "create"
    /\ (t.pc \in {"accounts", "post"} /\ t.command.kind \in PostingKinds) => t.period = "share"
    /\ t.period = "share" => t.pc \in {"accounts", "post", "commit"} /\ t.command.kind \in PostingKinds
    /\ t.period = "exclusive" => t.pc \in {"post", "commit"} /\ t.command.kind = "close"
    /\ t.provisions => t.period = "share"
    /\ t.accounts # {} => t.pc \in {"accounts", "post", "commit"}
    /\ t.cash => t.pc \in {"post", "commit"} /\ t.command.kind = "create"
    /\ (t.pc = "post" /\ t.command.kind \in {"archive", "restore"}) => t.accounts = {t.command.account}
    /\ t.pc = "commit" =>
         t.outcome \in Outcome /\ t.outcome.command = t.command /\ WholeOutcome(t.outcome)

\* What an event is worth in an account, and what an outcome moves: its event, less the one it
\* corrects.
Worth(e, a) == Moved(EventMovements(e, "original"), a)
Balanced(out, op) ==
    /\ out.event # None => out.status = "applied"
    /\ \A a \in Accounts :
         Moved(out.movements, a) =
           (IF out.event # None THEN Worth(out.event, a) ELSE 0)
           - (IF out.status = "applied" /\ out.command.kind \in Corrections
              THEN Worth(op[out.command.target].event, a) ELSE 0)

\* What a transaction is about to record: the accounts it moves money of are active and its
\* own, the liability stays covered, and the other reasons it was allowed for still hold.
Decided(t, out, op, ac, pe, un, ba, li) ==
    LET cmd == t.command IN
    /\ Balanced(out, op)
    /\ out.movements # <<>> => t.period = "share"
    /\ \A i \in DOMAIN out.movements :
         LET a == out.movements[i].account IN a \in t.accounts /\ ac[a].status = "active"
    /\ IF SerializesLiability(cmd) THEN li + Owed(out.entries) >= 0 ELSE Owed(out.entries) >= 0
    /\ \A a \in Accounts : Opens(out, a) =>
         a \in t.accounts /\ \A o \in Operations : op[o] # None => ~Opens(op[o], a)
    /\ out.status = "applied" =>
         /\ cmd.kind \in Corrections => t.target
         /\ cmd.kind = "archive" => cmd.account \in t.accounts /\ ba[cmd.account] = 0
         /\ cmd.kind = "close" =>
              t.period = "exclusive" /\ (pe[cmd.period].status = "open" => cmd.period \notin un)
         /\ cmd.kind = "uncosted" => t.period = "share"

\* What a transaction has read under its locks still stands.
Kept(t, op, ac, pe, un, ba, li) ==
    LET cmd == t.command IN
    /\ t.claimed => op[cmd.op] = None
    /\ t.target => StandsIn(op, cmd.target, cmd.domain)
    /\ t.period = "share" => pe[cmd.period].status = (IF t.provisions THEN "absent" ELSE "open")
    /\ t.pc = "accounts" => \A a \in t.accounts, b \in Affected(op, cmd) \ t.accounts : a < b
    /\ (t.pc = "post" /\ cmd.kind \in PostingKinds) =>
         Affected(op, cmd) \subseteq t.accounts /\ \A a \in Affected(op, cmd) : ac[a].status = "active"
    /\ (t.pc = "post" /\ cmd.kind \in {"archive", "restore"}) => ac[cmd.account].status # "absent"
    /\ t.pc = "commit" => Decided(t, t.outcome, op, ac, pe, un, ba, li)

\* The locks two transactions never hold together.
Apart(q, r) ==
    /\ (q.claimed /\ r.claimed) => q.command.op # r.command.op
    /\ (q.target /\ r.target) => q.command.target # r.command.target
    /\ (q.period # "none" /\ r.period # "none" /\ q.command.period = r.command.period) =>
         q.period = "share" /\ r.period = "share" /\ ~q.provisions /\ ~r.provisions
    /\ q.accounts \cap r.accounts = {}
    /\ q.store = "exclusive" => r.store = "none"
    /\ r.store = "exclusive" => q.store = "none"

\* What is recorded.
Recorded(op) ==
    /\ \A o \in Operations : op[o] # None => WholeOutcome(op[o])
    /\ \A o, r \in Operations : Corrects(op, r, o) =>
         /\ AppliedIn(op, o) /\ op[o].event # None
         /\ \A s \in Operations : Corrects(op, s, o) => s = r
    /\ \A o, r \in Operations : \A a \in Accounts :
         (op[o] # None /\ op[r] # None /\ Opens(op[o], a) /\ Opens(op[r], a)) => o = r

\* The events that stand, and the balances they make.
StandingIn(op) ==
    {o \in Operations : /\ AppliedIn(op, o) /\ op[o].event # None
                        /\ \A r \in Operations : ~Corrects(op, r, o)}
Worths(op, a) == [o \in StandingIn(op) |-> Worth(op[o].event, a)]
Total(f, S) == Sums!MapThenSumSet(LAMBDA x : f[x], S)
Follows(op, ba) ==
    /\ IsFiniteSet(StandingIn(op))
    /\ \A a \in Accounts : ba[a] = Total(Worths(op, a), StandingIn(op))

TransactionsShaped == \A c \in Clients : Shape(txn[c])
TransactionsKept ==
    \A c \in Clients : Kept(txn[c], operation, account, period, uncosted, balance, liability)
TransactionsApart == \A c, d \in Clients : c # d => Apart(txn[c], txn[d])

PostingsIInv ==
    /\ TypeOK
    /\ TransactionsShaped
    /\ TransactionsKept
    /\ TransactionsApart
    /\ Recorded(operation)
    /\ Follows(operation, balance)
    /\ ArchivedIsEmpty
    /\ ClosedIsCosted
    /\ LiabilityNotNegative

-----------------------------------------------------------------------------
LEMMA CommandFields ==
    ASSUME NEW cmd \in Command
    PROVE  /\ cmd.op \in Operations /\ cmd.kind \in Kinds
           /\ cmd.kind \in OwnerKinds \cup {"opening_balance", "internal_transfer"} =>
                cmd.account \in Accounts /\ cmd.amount \in Amounts
           /\ cmd.kind \in OwnerKinds \cup {"internal_transfer"} => cmd.amount > 0
           /\ cmd.kind = "internal_transfer" => cmd.to \in Accounts
           /\ cmd.kind \in Corrections =>
                /\ cmd.target \in Operations /\ cmd.domain \in Domains
                /\ cmd.account \in Accounts \cup {None} /\ cmd.to \in Accounts \cup {None}
                /\ cmd.amount \in Int
           /\ (cmd.kind = "replacement" /\ cmd.domain = "internal_transfer") => cmd.to \in Accounts
           /\ cmd.kind \in PostingKinds \cup {"close"} => cmd.period \in Periods
           /\ cmd.kind \in {"archive", "restore"} => cmd.account \in Accounts
           /\ cmd.kind = "create" => cmd.account \in Accounts /\ cmd.name \in Names
<1> USE DEF Kinds, PostingKinds, OwnerKinds, Corrections
<1>1. CASE cmd \in OpeningCommand BY <1>1 DEF OpeningCommand
<1>2. CASE cmd \in OwnerCommand BY <1>2 DEF OwnerCommand, Positive
<1>3. CASE cmd \in TransferCommand BY <1>3 DEF TransferCommand, Positive
<1>4. CASE cmd \in ReversalCommand BY <1>4 DEF ReversalCommand
<1>5. CASE cmd \in ReplacementCommand
  BY <1>5, PostingsAssumption DEF ReplacementCommand, Positive, Domains
<1>6. CASE cmd \in LifecycleCommand BY <1>6 DEF LifecycleCommand
<1>7. CASE cmd \in CreateCommand BY <1>7 DEF CreateCommand
<1>8. CASE cmd \in CloseCommand BY <1>8 DEF CloseCommand
<1>9. CASE cmd \in UncostedCommand BY <1>9 DEF UncostedCommand
<1> QED BY <1>1, <1>2, <1>3, <1>4, <1>5, <1>6, <1>7, <1>8, <1>9 DEF Command

LEMMA Element ==
    ASSUME NEW S, NEW q \in Seq(S)
    PROVE  \A i \in DOMAIN q : q[i] \in S
OBVIOUS

LEMMA ConcatFacts ==
    ASSUME NEW S, NEW p \in Seq(S), NEW q \in Seq(S)
    PROVE  /\ p \o q \in Seq(S) /\ Len(p \o q) = Len(p) + Len(q)
           /\ \A i \in DOMAIN (p \o q) :
                \/ i \in DOMAIN p /\ (p \o q)[i] = p[i]
                \/ i - Len(p) \in DOMAIN q /\ (p \o q)[i] = q[i - Len(p)]
OBVIOUS

LEMMA MovementFields ==
    ASSUME NEW m \in Seq(Movement)
    PROVE  \A i \in DOMAIN m : m[i] \in Movement /\ m[i].account \in Accounts /\ m[i].amount \in Int
<1>1. \A i \in DOMAIN m : m[i] \in Movement BY Element
<1> QED BY <1>1 DEF Movement

LEMMA EntryFields ==
    ASSUME NEW m \in Seq(Entry)
    PROVE  \A i \in DOMAIN m : m[i] \in Entry /\ m[i].liability \in Int /\ m[i].equity \in Int
<1>1. \A i \in DOMAIN m : m[i] \in Entry BY Element
<1> QED BY <1>1 DEF Entry

LEMMA MovedFacts ==
    ASSUME NEW m \in Seq(Movement), NEW a
    PROVE  /\ Moved(m, a) \in Int
           /\ (\A i \in DOMAIN m : m[i].account # a) => Moved(m, a) = 0
<1>1. \A i : AmountAt(m, i, a) \in Int BY MovementFields DEF AmountAt
<1>2. (\A i \in DOMAIN m : m[i].account # a) => \A i : AmountAt(m, i, a) = 0 BY DEF AmountAt
<1> QED BY <1>1, <1>2 DEF Moved

LEMMA OwedFacts ==
    ASSUME NEW m \in Seq(Entry)
    PROVE  /\ Owed(m) \in Int
           /\ (\A i \in DOMAIN m : m[i].liability = 0) => Owed(m) = 0
<1>1. \A i : LiabilityAt(m, i) \in Int BY EntryFields DEF LiabilityAt
<1>2. (\A i \in DOMAIN m : m[i].liability = 0) => \A i : LiabilityAt(m, i) = 0 BY DEF LiabilityAt
<1> QED BY <1>1, <1>2 DEF Owed

LEMMA FactorFacts ==
    ASSUME NEW domain, NEW n \in Int
    PROVE  /\ MoneyFactor(domain) * n \in Int /\ EquityFactor(domain) * n \in Int
           /\ LiabilityFactor(domain) * n \in Int
           /\ LiabilityFactor(domain) * n =
                (CASE domain = "owner_loan" -> n
                   [] domain = "owner_reimbursement" -> -n
                   [] OTHER -> 0)
<1>1. MoneyFactor(domain) \in {-1, 1} BY DEF MoneyFactor
<1>2. EquityFactor(domain) \in {-1, 0, 1} BY DEF EquityFactor
<1>3. LiabilityFactor(domain) = (CASE domain = "owner_loan" -> 1
                                   [] domain = "owner_reimbursement" -> -1
                                   [] OTHER -> 0)
  BY DEF LiabilityFactor
<1>4. MoneyFactor(domain) * n \in Int BY <1>1
<1>5. EquityFactor(domain) * n \in Int BY <1>2
<1>6. CASE domain = "owner_loan" BY <1>3, <1>4, <1>5, <1>6
<1>7. CASE domain = "owner_reimbursement" BY <1>3, <1>4, <1>5, <1>7
<1>8. CASE domain \notin {"owner_loan", "owner_reimbursement"} BY <1>3, <1>4, <1>5, <1>8
<1> QED BY <1>6, <1>7, <1>8
LEMMA EventFields ==
    ASSUME NEW e \in Event
    PROVE  /\ e.domain \in Domains /\ e.account \in Accounts /\ e.to \in Accounts \cup {None}
           /\ e.amount \in Int /\ e.account # None
BY PostingsAssumption DEF Event

\* The rows of an event.
LEMMA EventMovementFacts ==
    ASSUME NEW e \in Event, WholeEvent(e), NEW phase \in Phases
    PROVE  /\ EventMovements(e, phase) \in Seq(Movement)
           /\ \A i \in DOMAIN EventMovements(e, phase) :
                EventMovements(e, phase)[i].account \in {e.account, e.to} \ {None}
<1> DEFINE row(role, a, n) == [phase |-> phase, role |-> role, account |-> a, amount |-> n, reverses |-> None]
<1>1. \A role \in Roles : \A a \in Accounts : \A n \in Int :
        row(role, a, n) \in Movement /\ row(role, a, n).account = a
  BY DEF Movement
<1> HIDE DEF row
<1>2. \A x \in Movement : <<x>> \in Seq(Movement) /\ DOMAIN <<x>> = {1} /\ <<x>>[1] = x
  OBVIOUS
<1>3. \A x, y \in Movement :
        /\ <<x, y>> \in Seq(Movement) /\ DOMAIN <<x, y>> = {1, 2}
        /\ <<x, y>>[1] = x /\ <<x, y>>[2] = y
  OBVIOUS
<1>4. CASE e.domain = "opening_balance"
  <2>1. EventMovements(e, phase) = <<row("opening", e.account, e.amount)>>
    BY <1>4 DEF EventMovements, row
  <2> QED BY <1>1, <1>2, <2>1, EventFields DEF Roles
<1>5. CASE e.domain = "internal_transfer"
  <2>1. EventMovements(e, phase) = <<row("transfer-source", e.account, -e.amount),
                                     row("transfer-destination", e.to, e.amount)>>
    BY <1>5 DEF EventMovements, row
  <2>2. e.to \in Accounts /\ e.to # None /\ -e.amount \in Int
    BY <1>5, EventFields, PostingsAssumption DEF WholeEvent
  <2> DEFINE x == row("transfer-source", e.account, -e.amount)
             y == row("transfer-destination", e.to, e.amount)
  <2>3. x \in Movement /\ y \in Movement /\ x.account = e.account /\ y.account = e.to
    BY <1>1, <2>2, EventFields DEF Roles
  <2>4. EventMovements(e, phase) = <<x, y>> BY <2>1
  <2> HIDE DEF x, y
  <2> QED BY <1>3, <2>2, <2>3, <2>4, EventFields
<1>6. CASE e.domain \notin {"opening_balance", "internal_transfer"}
  <2>1. EventMovements(e, phase) = <<row("owner-money", e.account, MoneyFactor(e.domain) * e.amount)>>
    BY <1>6 DEF EventMovements, row
  <2>2. MoneyFactor(e.domain) * e.amount \in Int BY EventFields, FactorFacts
  <2> QED BY <1>1, <1>2, <2>1, <2>2, EventFields DEF Roles
<1> QED BY <1>4, <1>5, <1>6

\* The phase of the rows of an event does not change what they move.
LEMMA EventRows ==
    ASSUME NEW e \in Event, WholeEvent(e), NEW phase \in Phases
    PROVE  LET rows == EventMovements(e, phase)
               first == EventMovements(e, "original") IN
           /\ Len(rows) \in {1, 2} /\ DOMAIN rows = DOMAIN first
           /\ \A i \in DOMAIN first :
                rows[i].account = first[i].account /\ rows[i].amount = first[i].amount
<1> DEFINE row(ph, role, a, n) ==
             [phase |-> ph, role |-> role, account |-> a, amount |-> n, reverses |-> None]
           one(ph, role, a, n) == <<row(ph, role, a, n)>>
           two(ph) == <<row(ph, "transfer-source", e.account, -e.amount),
                        row(ph, "transfer-destination", e.to, e.amount)>>
<1>1. \A ph, role, a, n : row(ph, role, a, n).account = a /\ row(ph, role, a, n).amount = n
  OBVIOUS
<1>2. \A x : DOMAIN <<x>> = {1} /\ Len(<<x>>) = 1 /\ <<x>>[1] = x OBVIOUS
<1>3. \A x, y : /\ DOMAIN <<x, y>> = {1, 2} /\ Len(<<x, y>>) = 2
                /\ <<x, y>>[1] = x /\ <<x, y>>[2] = y
  OBVIOUS
<1>4. CASE e.domain = "opening_balance"
  <2>1. \A ph : EventMovements(e, ph) = one(ph, "opening", e.account, e.amount)
    BY <1>4 DEF EventMovements
  <2> HIDE DEF row
  <2> QED BY <1>1, <1>2, <2>1
<1>5. CASE e.domain = "internal_transfer"
  <2>1. \A ph : EventMovements(e, ph) = two(ph) BY <1>5 DEF EventMovements
  <2> HIDE DEF row
  <2> QED BY <1>1, <1>3, <2>1
<1>6. CASE e.domain \notin {"opening_balance", "internal_transfer"}
  <2>1. \A ph : EventMovements(e, ph) =
                  one(ph, "owner-money", e.account, MoneyFactor(e.domain) * e.amount)
    BY <1>6 DEF EventMovements
  <2> HIDE DEF row
  <2> QED BY <1>1, <1>2, <2>1
<1> QED BY <1>4, <1>5, <1>6

LEMMA EventMoves ==
    ASSUME NEW e \in Event, WholeEvent(e), NEW phase \in Phases, NEW a
    PROVE  Moved(EventMovements(e, phase), a) = Worth(e, a) /\ Worth(e, a) \in Int
<1> DEFINE rows == EventMovements(e, phase)
           first == EventMovements(e, "original")
<1>1. /\ DOMAIN rows = DOMAIN first
      /\ \A i \in DOMAIN first :
           rows[i].account = first[i].account /\ rows[i].amount = first[i].amount
  BY EventRows
<1>2. rows \in Seq(Movement) BY EventMovementFacts
<1>3. Worth(e, a) = Moved(first, a) BY DEF Worth
<1> HIDE DEF rows, first
<1>4. \A i : AmountAt(rows, i, a) = AmountAt(first, i, a) BY <1>1 DEF AmountAt
<1>5. Moved(rows, a) = Moved(first, a) BY <1>4 DEF Moved
<1>6. Moved(rows, a) \in Int BY <1>2, MovedFacts
<1> QED BY <1>3, <1>5, <1>6 DEF rows

\* Two short runs of rows move what each of them moves.
LEMMA ConcatMoves ==
    ASSUME NEW p \in Seq(Movement), NEW q \in Seq(Movement), Len(p) \in {1, 2}, Len(q) \in {1, 2},
           NEW a
    PROVE  Moved(p \o q, a) = Moved(p, a) + Moved(q, a)
<1> DEFINE m == p \o q
<1>1. \A i : AmountAt(p, i, a) \in Int /\ AmountAt(q, i, a) \in Int
  BY MovementFields DEF AmountAt
<1>2. DOMAIN p = 1..Len(p) /\ DOMAIN q = 1..Len(q) /\ DOMAIN m = 1..(Len(p) + Len(q))
  OBVIOUS
<1>3. /\ \A i \in 1..Len(p) : m[i] = p[i]
      /\ \A i \in 1..Len(q) : m[Len(p) + i] = q[i]
  OBVIOUS
<1> HIDE DEF m
<1>4. /\ AmountAt(p, 3, a) = 0 /\ AmountAt(p, 4, a) = 0
      /\ AmountAt(q, 3, a) = 0 /\ AmountAt(q, 4, a) = 0
  BY <1>2 DEF AmountAt
<1>5. CASE Len(p) = 1
  <2>1. AmountAt(m, 1, a) = AmountAt(p, 1, a) /\ AmountAt(p, 2, a) = 0
    BY <1>2, <1>3, <1>5 DEF AmountAt
  <2>2. AmountAt(m, 2, a) = AmountAt(q, 1, a) BY <1>2, <1>3, <1>5 DEF AmountAt
  <2>3. AmountAt(m, 3, a) = AmountAt(q, 2, a) BY <1>2, <1>3, <1>5 DEF AmountAt
  <2>4. AmountAt(m, 4, a) = 0
    <3>1. \A n \in {1, 2} : 4 \notin 1..(1 + n) OBVIOUS
    <3>2. DOMAIN m = 1..(1 + Len(q)) BY <1>2, <1>5
    <3>3. 4 \notin DOMAIN m BY <3>1, <3>2
    <3> QED BY <3>3 DEF AmountAt
  <2> QED BY <1>1, <1>4, <2>1, <2>2, <2>3, <2>4 DEF Moved, m
<1>6. CASE Len(p) = 2
  <2>1. AmountAt(m, 1, a) = AmountAt(p, 1, a) /\ AmountAt(m, 2, a) = AmountAt(p, 2, a)
    BY <1>2, <1>3, <1>6 DEF AmountAt
  <2>2. AmountAt(m, 3, a) = AmountAt(q, 1, a) BY <1>2, <1>3, <1>6 DEF AmountAt
  <2>3. AmountAt(m, 4, a) = AmountAt(q, 2, a) BY <1>2, <1>3, <1>6 DEF AmountAt
  <2> QED BY <1>1, <1>4, <2>1, <2>2, <2>3 DEF Moved, m
<1> QED BY <1>5, <1>6

LEMMA EventEntryFacts ==
    ASSUME NEW e \in Event, NEW phase \in Phases
    PROVE  /\ EventEntries(e, phase) \in Seq(Entry)
           /\ \A i \in DOMAIN EventEntries(e, phase) :
                EventEntries(e, phase)[i].liability = LiabilityFactor(e.domain) * e.amount
           /\ Owed(EventEntries(e, phase)) =
                (IF e.domain \in OwnerKinds THEN LiabilityFactor(e.domain) * e.amount ELSE 0)
<1> DEFINE x == [phase |-> phase, liability |-> LiabilityFactor(e.domain) * e.amount,
                 equity |-> EquityFactor(e.domain) * e.amount, reverses |-> None]
<1>1. x \in Entry /\ x.liability = LiabilityFactor(e.domain) * e.amount /\ x.liability \in Int
  BY EventFields, FactorFacts DEF Entry
<1>2. EventEntries(e, phase) = IF e.domain \in OwnerKinds THEN <<x>> ELSE <<>>
  BY DEF EventEntries
<1> HIDE DEF x
<1>3. DOMAIN <<x>> = {1} /\ <<x>>[1] = x /\ <<x>> \in Seq(Entry) BY <1>1
<1>4. DOMAIN <<>> = {} OBVIOUS
<1>5. Owed(<<x>>) = x.liability BY <1>1, <1>3 DEF Owed, LiabilityAt
<1>6. Owed(<<>>) = 0 BY <1>4 DEF Owed, LiabilityAt
<1> QED BY <1>1, <1>2, <1>3, <1>4, <1>5, <1>6

LEMMA ReversedMovement ==
    ASSUME NEW x \in Movement, NEW target \in Operations
    PROVE  LET y == [x EXCEPT !.amount = -x.amount, !.reverses = target] IN
           y \in Movement /\ y.account = x.account /\ y.amount = -x.amount
<1>1. x.amount \in Int /\ -x.amount \in Int BY DEF Movement
<1> QED BY <1>1 DEF Movement

LEMMA ReversedEntry ==
    ASSUME NEW x \in Entry, NEW target \in Operations
    PROVE  LET y == [x EXCEPT !.liability = -x.liability, !.equity = -x.equity, !.reverses = target] IN
           y \in Entry /\ y.liability = -x.liability
<1>1. -x.liability \in Int /\ -x.equity \in Int BY DEF Entry
<1> QED BY <1>1 DEF Entry

LEMMA ReversalFacts ==
    ASSUME NEW e \in Event, WholeEvent(e), NEW target \in Operations
    PROVE  /\ ReversalMovements(e, target) \in Seq(Movement)
           /\ \A i \in DOMAIN ReversalMovements(e, target) :
                ReversalMovements(e, target)[i].account \in {e.account, e.to} \ {None}
           /\ ReversalEntries(e, target) \in Seq(Entry)
           /\ \A i \in DOMAIN ReversalEntries(e, target) :
                ReversalEntries(e, target)[i].liability = -(LiabilityFactor(e.domain) * e.amount)
<1> DEFINE rows == EventMovements(e, "reversal")
           entries == EventEntries(e, "reversal")
<1>1. /\ rows \in Seq(Movement)
      /\ \A i \in DOMAIN rows : rows[i].account \in {e.account, e.to} \ {None}
  BY EventMovementFacts DEF Phases
<1>2. /\ entries \in Seq(Entry)
      /\ \A i \in DOMAIN entries : entries[i].liability = LiabilityFactor(e.domain) * e.amount
  BY EventEntryFacts DEF Phases
<1>3. ReversalMovements(e, target) =
        [i \in DOMAIN rows |-> [rows[i] EXCEPT !.amount = -rows[i].amount, !.reverses = target]]
  BY DEF ReversalMovements
<1>4. ReversalEntries(e, target) =
        [i \in DOMAIN entries |-> [entries[i] EXCEPT !.liability = -entries[i].liability,
                                                     !.equity = -entries[i].equity,
                                                     !.reverses = target]]
  BY DEF ReversalEntries
<1> HIDE DEF rows, entries
<1>5. \A x \in Movement :
        /\ [x EXCEPT !.amount = -x.amount, !.reverses = target] \in Movement
        /\ [x EXCEPT !.amount = -x.amount, !.reverses = target].account = x.account
  BY ReversedMovement
<1>6. \A x \in Entry :
        /\ [x EXCEPT !.liability = -x.liability, !.equity = -x.equity, !.reverses = target] \in Entry
        /\ [x EXCEPT !.liability = -x.liability, !.equity = -x.equity, !.reverses = target].liability
             = -x.liability
  BY ReversedEntry
<1>7. DOMAIN rows = 1..Len(rows) /\ Len(rows) \in Nat /\ \A i \in DOMAIN rows : rows[i] \in Movement
  BY <1>1, Element
<1>8. DOMAIN entries = 1..Len(entries) /\ Len(entries) \in Nat
      /\ \A i \in DOMAIN entries : entries[i] \in Entry
  BY <1>2, Element
<1>9. /\ ReversalMovements(e, target) \in [1..Len(rows) -> Movement]
      /\ \A i \in DOMAIN ReversalMovements(e, target) :
           i \in DOMAIN rows /\ ReversalMovements(e, target)[i].account = rows[i].account
  <2> DEFINE x(i) == [rows[i] EXCEPT !.amount = -rows[i].amount, !.reverses = target]
  <2>1. \A i \in DOMAIN rows : x(i) \in Movement /\ x(i).account = rows[i].account
    BY <1>5, <1>7
  <2>2. ReversalMovements(e, target) = [i \in DOMAIN rows |-> x(i)] BY <1>3
  <2> HIDE DEF x
  <2> QED BY <2>1, <2>2, <1>7
<1>10. /\ ReversalEntries(e, target) \in [1..Len(entries) -> Entry]
       /\ \A i \in DOMAIN ReversalEntries(e, target) :
            i \in DOMAIN entries /\ ReversalEntries(e, target)[i].liability = -entries[i].liability
  <2> DEFINE y(i) == [entries[i] EXCEPT !.liability = -entries[i].liability,
                                        !.equity = -entries[i].equity, !.reverses = target]
  <2>1. \A i \in DOMAIN entries : y(i) \in Entry /\ y(i).liability = -entries[i].liability
    BY <1>6, <1>8
  <2>2. ReversalEntries(e, target) = [i \in DOMAIN entries |-> y(i)] BY <1>4
  <2> HIDE DEF y
  <2> QED BY <1>8, <2>1, <2>2
<1>11. \A S : \A n \in Nat : \A f \in [1..n -> S] : f \in Seq(S) OBVIOUS
<1> QED BY <1>1, <1>2, <1>7, <1>8, <1>9, <1>10, <1>11

\* A reversal takes back what the event moved.
LEMMA ReversalMoves ==
    ASSUME NEW e \in Event, WholeEvent(e), NEW target \in Operations, NEW a
    PROVE  /\ Moved(ReversalMovements(e, target), a) = -Worth(e, a)
           /\ Len(ReversalMovements(e, target)) \in {1, 2}
<1> DEFINE rows == EventMovements(e, "reversal")
           back == ReversalMovements(e, target)
           reversed(x) == [x EXCEPT !.amount = -x.amount, !.reverses = target]
<1>1. /\ rows \in Seq(Movement) /\ Len(rows) \in {1, 2}
      /\ Moved(rows, a) = Worth(e, a) /\ Worth(e, a) \in Int
  BY EventMovementFacts, EventRows, EventMoves DEF Phases
<1>2. back = [i \in DOMAIN rows |-> reversed(rows[i])] BY DEF ReversalMovements
<1>3. \A x \in Movement : reversed(x).account = x.account /\ reversed(x).amount = -x.amount
  BY ReversedMovement
<1>4. back \in Seq(Movement) BY ReversalFacts
<1> HIDE DEF rows, back, reversed
<1>5. \A i \in DOMAIN rows : rows[i] \in Movement /\ rows[i].amount \in Int
  BY <1>1, MovementFields
<1>6. DOMAIN back = DOMAIN rows /\ Len(back) = Len(rows) BY <1>1, <1>2, <1>4
<1>7. \A i \in DOMAIN rows : back[i].account = rows[i].account /\ back[i].amount = -rows[i].amount
  BY <1>2, <1>3, <1>5
<1>8. \A i : AmountAt(rows, i, a) \in Int /\ AmountAt(back, i, a) = -AmountAt(rows, i, a)
  BY <1>5, <1>6, <1>7 DEF AmountAt
<1>9. Moved(back, a) = -Moved(rows, a) BY <1>8 DEF Moved
<1> QED BY <1>1, <1>6, <1>9 DEF back

\* An outcome that was applied, of rows of the right kinds.
LEMMA AppliedFacts ==
    ASSUME NEW cmd \in Command, NEW m \in Seq(Movement), NEW n \in Seq(Entry),
           NEW e \in Event \cup {None}
    PROVE  LET out == Applied(cmd, m, n, e) IN
           /\ out \in Outcome /\ out.command = cmd /\ out.status = "applied"
           /\ out.movements = m /\ out.entries = n /\ out.event = e
BY DEF Applied, Outcome

LEMMA AppliedWithoutEntries ==
    ASSUME NEW cmd \in Command, NEW m \in Seq(Movement), NEW e \in Event \cup {None}
    PROVE  LET out == Applied(cmd, m, <<>>, e) IN
           /\ out \in Outcome /\ out.command = cmd /\ out.status = "applied"
           /\ out.movements = m /\ out.entries = <<>> /\ out.event = e
BY DEF Applied, Outcome

LEMMA RejectedFacts ==
    ASSUME NEW cmd \in Command
    PROVE  LET out == Rejected(cmd) IN
           /\ out \in Outcome /\ out.command = cmd /\ out.status = "rejected"
           /\ out.movements = <<>> /\ out.entries = <<>> /\ out.event = None
           /\ WholeOutcome(out)
BY DEF Rejected, Outcome, WholeOutcome

LEMMA NoRows ==
    /\ <<>> \in Seq(Movement) /\ <<>> \in Seq(Entry) /\ DOMAIN <<>> = {}
    /\ Owed(<<>>) = 0 /\ \A a : Moved(<<>>, a) = 0
<1>1. <<>> \in Seq(Movement) /\ <<>> \in Seq(Entry) /\ DOMAIN <<>> = {} OBVIOUS
<1> QED BY <1>1, OwedFacts, MovedFacts

\* An outcome that neither posts nor corrects anything.
LEMMA EmptyBalances ==
    ASSUME NEW out, NEW op, out.movements = <<>>, out.event = None,
           out.status = "applied" => out.command.kind \notin Corrections
    PROVE  Balanced(out, op)
BY NoRows DEF Balanced

\* A correction takes back the rows of the event and inserts those of its replacement.
LEMMA CorrectionFacts ==
    ASSUME NEW cmd \in Command, cmd.kind \in Corrections, NEW e \in Event, WholeEvent(e),
           e.domain = cmd.domain
    PROVE  LET out == CorrectionOutcome(cmd, e) IN
           /\ out \in Outcome /\ out.command = cmd /\ out.status = "applied" /\ WholeOutcome(out)
           /\ \A i \in DOMAIN out.movements :
                out.movements[i].account \in {e.account, e.to, cmd.account, cmd.to} \ {None}
           /\ e.domain \notin {"owner_loan", "owner_reimbursement"} => Owed(out.entries) = 0
           /\ \A a : Moved(out.movements, a) =
                      (IF out.event # None THEN Worth(out.event, a) ELSE 0) - Worth(e, a)
<1> DEFINE new == ReplacementEvent(cmd, e)
           back == ReversalMovements(e, cmd.target)
           backEntries == ReversalEntries(e, cmd.target)
           settles == e.domain \notin {"owner_loan", "owner_reimbursement"}
<1>1. /\ back \in Seq(Movement) /\ backEntries \in Seq(Entry)
      /\ \A i \in DOMAIN back : back[i].account \in {e.account, e.to} \ {None}
      /\ \A i \in DOMAIN backEntries :
           backEntries[i].liability = -(LiabilityFactor(e.domain) * e.amount)
  BY CommandFields, ReversalFacts
<1>2. e.amount \in Int /\ (settles => LiabilityFactor(e.domain) * e.amount = 0)
  BY EventFields, FactorFacts
<1>3. settles => \A i \in DOMAIN backEntries : backEntries[i].liability = 0
  BY <1>1, <1>2
<1>a. \A a : Moved(back, a) = -Worth(e, a) /\ Worth(e, a) \in Int /\ Len(back) \in {1, 2}
  BY CommandFields, ReversalMoves, EventMoves DEF Phases
<1>4. CASE cmd.kind = "reversal"
  <2>1. CorrectionOutcome(cmd, e) = Applied(cmd, back, backEntries, None)
    BY <1>4 DEF CorrectionOutcome
  <2> HIDE DEF back, backEntries, settles
  <2>2. settles => Owed(backEntries) = 0 BY <1>1, <1>3, OwedFacts
  <2> QED BY <1>1, <1>a, <2>1, <2>2, AppliedFacts DEF WholeOutcome, settles
<1>5. CASE cmd.kind = "replacement"
  <2> DEFINE forth == EventMovements(new, "replacement")
             forthEntries == EventEntries(new, "replacement")
  <2>1. CorrectionOutcome(cmd, e) = Applied(cmd, back \o forth, backEntries \o forthEntries, new)
    BY <1>5 DEF CorrectionOutcome
  <2>2. /\ new \in Event /\ new.domain = e.domain /\ new.to = cmd.to /\ new.amount \in Int
        /\ new.account \in {e.account, cmd.account}
    BY <1>5, CommandFields, EventFields DEF ReplacementEvent, Event, Corrections
  <2>3. WholeEvent(new) BY <1>5, <2>2, CommandFields DEF WholeEvent
  <2> HIDE DEF new
  <2>4. /\ forth \in Seq(Movement)
        /\ \A i \in DOMAIN forth : forth[i].account \in {new.account, new.to} \ {None}
    BY <2>2, <2>3, EventMovementFacts DEF Phases
  <2>5. /\ forthEntries \in Seq(Entry)
        /\ \A i \in DOMAIN forthEntries :
             forthEntries[i].liability = LiabilityFactor(new.domain) * new.amount
    BY <2>2, EventEntryFacts DEF Phases
  <2>6. settles => LiabilityFactor(new.domain) * new.amount = 0 BY <2>2, FactorFacts
  <2>a. new # None BY <2>2, NoneAssumption
  <2>b. \A a : Moved(forth, a) = Worth(new, a) /\ Worth(new, a) \in Int /\ Len(forth) \in {1, 2}
    BY <2>2, <2>3, EventRows, EventMoves DEF Phases
  <2> HIDE DEF back, backEntries, forth, forthEntries, settles
  <2> DEFINE m == back \o forth
             n == backEntries \o forthEntries
  <2>7. /\ m \in Seq(Movement)
        /\ \A i \in DOMAIN m :
             m[i].account \in {e.account, e.to, cmd.account, cmd.to} \ {None}
    BY <1>1, <2>2, <2>4, ConcatFacts
  <2>8. n \in Seq(Entry) /\ (settles => \A i \in DOMAIN n : n[i].liability = 0)
    BY <1>1, <1>3, <2>5, <2>6, ConcatFacts
  <2>c. \A a : Moved(m, a) = Worth(new, a) - Worth(e, a)
    BY <1>1, <1>a, <2>4, <2>b, ConcatMoves
  <2> HIDE DEF m, n
  <2>9. settles => Owed(n) = 0 BY <2>8, OwedFacts
  <2>10. CorrectionOutcome(cmd, e) = Applied(cmd, m, n, new) BY <2>1 DEF m, n
  <2> QED BY <2>2, <2>3, <2>7, <2>8, <2>9, <2>10, <2>a, <2>c, AppliedFacts DEF WholeOutcome, settles
<1> QED BY <1>4, <1>5 DEF Corrections

-----------------------------------------------------------------------------
\* Any set of accounts has a first one: well-foundedness of the order of Nat.
LEMMA FirstAccount ==
    ASSUME NEW S \in SUBSET Nat, S # {}
    PROVE  \E a \in S : \A b \in S : a <= b
<1>1. PICK a \in S : \A b \in S : ~(<<b, a>> \in OpToRel(<, Nat))
  BY NatLessThanWellFounded, WFMin, Zenon
<1>2. \A b \in S : ~(b < a) BY <1>1 DEF OpToRel
<1> QED BY <1>2

-----------------------------------------------------------------------------
\* Sums over finite sets. What a fold computes is a function of the subsets of its set, that
\* takes one member away at a time.
Pick(s) == CHOOSE x \in s : TRUE
Adds(g, f, S) ==
    g = [s \in SUBSET S |-> IF s = {} THEN 0 ELSE f[Pick(s)] + g[s \ {Pick(s)}]]

\* Among finite sets one has no smaller one below it.
LEMMA SmallestSet ==
    ASSUME NEW W, IsFiniteSet(W), NEW B \in SUBSET (SUBSET W), B # {}
    PROVE  \E U \in B : \A V \in B : V \subseteq U => V = U
<1> DEFINE sizes == {Cardinality(U) : U \in B}
<1>1. \A U \in B : IsFiniteSet(U) /\ Cardinality(U) \in Nat
  BY FS_Subset, FS_CardinalityType
<1>2. sizes \in SUBSET Nat /\ sizes # {} BY <1>1
<1>3. PICK n \in sizes : \A m \in sizes : n <= m
  <2> HIDE DEF sizes
  <2> QED BY <1>2, FirstAccount
<1>4. PICK U \in B : n = Cardinality(U) BY <1>3
<1>5. ASSUME NEW V \in B, V \subseteq U PROVE V = U
  <2>1. Cardinality(U) <= Cardinality(V) BY <1>3, <1>4
  <2>2. Cardinality(V) <= Cardinality(U) /\ (Cardinality(U) = Cardinality(V) => U = V)
    BY <1>1, <1>5, FS_Subset
  <2>3. Cardinality(U) \in Nat /\ Cardinality(V) \in Nat BY <1>1
  <2> QED BY <2>1, <2>2, <2>3
<1> QED BY <1>5

LEMMA PickFacts ==
    ASSUME NEW s, s # {}
    PROVE  Pick(s) \in s
BY DEF Pick

LEMMA AddsFacts ==
    ASSUME NEW S, NEW f, NEW g, Adds(g, f, S)
    PROVE  /\ g[{}] = 0
           /\ \A s \in SUBSET S : s # {} => g[s] = f[Pick(s)] + g[s \ {Pick(s)}]
<1>1. g = [s \in SUBSET S |-> IF s = {} THEN 0 ELSE f[Pick(s)] + g[s \ {Pick(s)}]]
  BY DEF Adds
<1> QED BY <1>1

\* Two of them agree where what they add agrees.
LEMMA AddsAgree ==
    ASSUME NEW S, NEW T, NEW f, NEW e, NEW g, NEW h, Adds(g, f, S), Adds(h, e, T),
           NEW W, IsFiniteSet(W), W \subseteq S, W \subseteq T, \A x \in W : f[x] = e[x]
    PROVE  g[W] = h[W]
<1> DEFINE B == {U \in SUBSET W : g[U] # h[U]}
<1> SUFFICES ASSUME B # {} PROVE FALSE OBVIOUS
<1>1. PICK U \in B : \A V \in B : V \subseteq U => V = U
  <2>1. B \in SUBSET (SUBSET W) OBVIOUS
  <2> HIDE DEF B
  <2> QED BY <2>1, SmallestSet
<1>2. U # {} BY AddsFacts
<1>3. Pick(U) \in U BY <1>2, PickFacts
<1>4. U \ {Pick(U)} \notin B BY <1>1, <1>3
<1>5. g[U \ {Pick(U)}] = h[U \ {Pick(U)}] BY <1>4
<1>6. g[U] = f[Pick(U)] + g[U \ {Pick(U)}] /\ h[U] = e[Pick(U)] + h[U \ {Pick(U)}]
  BY <1>2, AddsFacts
<1> QED BY <1>3, <1>5, <1>6

\* There is one for every finite set.
LEMMA AddsExists ==
    ASSUME NEW S, IsFiniteSet(S), NEW f
    PROVE  \E g : Adds(g, f, S)
<1> DEFINE B == {U \in SUBSET S : ~ \E g : Adds(g, f, U)}
           total(s) == (CHOOSE g : Adds(g, f, s))[s]
<1> SUFFICES ASSUME B # {} PROVE FALSE OBVIOUS
<1>1. PICK U \in B : \A V \in B : V \subseteq U => V = U
  <2>1. B \in SUBSET (SUBSET S) OBVIOUS
  <2> HIDE DEF B
  <2> QED BY <2>1, SmallestSet
<1>2. \A V \in SUBSET U : V # U => Adds(CHOOSE g : Adds(g, f, V), f, V)
  <2> SUFFICES ASSUME NEW V \in SUBSET U, V # U PROVE \E g : Adds(g, f, V)
    OBVIOUS
  <2> QED BY <1>1
<1>3. \A V \in SUBSET U : IsFiniteSet(V) BY <1>1, FS_Subset
<1>4. ASSUME NEW V \in SUBSET U, V # U, V # {}
      PROVE  total(V) = f[Pick(V)] + total(V \ {Pick(V)})
  <2> DEFINE p == Pick(V)
             g == CHOOSE g : Adds(g, f, V)
             h == CHOOSE h : Adds(h, f, V \ {p})
  <2>1. p \in V BY <1>4, PickFacts
  <2>2. Adds(g, f, V) /\ Adds(h, f, V \ {p}) BY <1>2, <1>4, <2>1
  <2>3. total(V) = g[V] /\ total(V \ {p}) = h[V \ {p}] OBVIOUS
  <2> HIDE DEF total, g, h
  <2>4. g[V] = f[p] + g[V \ {p}] BY <1>4, <2>2, AddsFacts
  <2>5. g[V \ {p}] = h[V \ {p}]
    <3>1. IsFiniteSet(V \ {p}) BY <1>3
    <3>2. V \ {p} \subseteq V OBVIOUS
    <3> QED BY <2>2, <3>1, <3>2, AddsAgree
  <2> QED BY <2>3, <2>4, <2>5
<1> DEFINE sum(s) == IF s = {} THEN 0 ELSE IF s = U THEN f[Pick(U)] + (IF U \ {Pick(U)} = {} THEN 0 ELSE total(U \ {Pick(U)})) ELSE total(s)
           k == [s \in SUBSET U |-> sum(s)]
<1>5. U # {} => total({}) = 0
  BY <1>2, AddsFacts
<1> HIDE DEF total, B
<1>6. \A s \in SUBSET U : s # {} => sum(s) = f[Pick(s)] + sum(s \ {Pick(s)})
  <2> SUFFICES ASSUME NEW s \in SUBSET U, s # {}
               PROVE  sum(s) = f[Pick(s)] + sum(s \ {Pick(s)})
    OBVIOUS
  <2>1. Pick(s) \in s BY PickFacts
  <2>2. s \ {Pick(s)} # U BY <2>1
  <2>3. sum(s \ {Pick(s)}) = IF s \ {Pick(s)} = {} THEN 0 ELSE total(s \ {Pick(s)})
    BY <2>2
  <2>4. CASE s = U BY <2>3, <2>4
  <2>5. CASE s # U BY <1>4, <1>5, <2>3, <2>5
  <2> QED BY <2>4, <2>5
<1>7. \A s \in SUBSET U : k[s] = sum(s) OBVIOUS
<1>8. \A s \in SUBSET U : sum(s) = IF s = {} THEN 0 ELSE f[Pick(s)] + k[s \ {Pick(s)}]
  <2>1. \A s \in SUBSET U : s \ {Pick(s)} \in SUBSET U OBVIOUS
  <2>2. sum({}) = 0 OBVIOUS
  <2> HIDE DEF sum, k
  <2> QED BY <1>6, <1>7, <2>1, <2>2
<1>9. Adds(k, f, U)
  <2> HIDE DEF sum
  <2> QED BY <1>8 DEF Adds
<1> QED BY <1>1, <1>9 DEF B

\* Any member may be taken away first.
LEMMA AddsAny ==
    ASSUME NEW S, IsFiniteSet(S), NEW f, \A x \in S : f[x] \in Int,
           NEW g, Adds(g, f, S)
    PROVE  /\ \A U \in SUBSET S : g[U] \in Int
           /\ \A U \in SUBSET S : \A x \in U : g[U] = f[x] + g[U \ {x}]
<1>0. /\ g[{}] = 0
      /\ \A s \in SUBSET S : s # {} => g[s] = f[Pick(s)] + g[s \ {Pick(s)}]
  BY AddsFacts
<1>1. \A U \in SUBSET S : g[U] \in Int
  <2> DEFINE B == {U \in SUBSET S : g[U] \notin Int}
  <2> SUFFICES ASSUME B # {} PROVE FALSE OBVIOUS
  <2>1. PICK U \in B : \A V \in B : V \subseteq U => V = U
    <3>1. B \in SUBSET (SUBSET S) OBVIOUS
    <3> HIDE DEF B
    <3> QED BY <3>1, SmallestSet
  <2>2. U # {}
    <3>1. g[{}] \in Int BY <1>0
    <3>2. g[U] \notin Int OBVIOUS
    <3> QED BY <3>1, <3>2
  <2>3. Pick(U) \in U BY <2>2, PickFacts
  <2>4. g[U \ {Pick(U)}] \in Int BY <2>1, <2>3
  <2>5. g[U] = f[Pick(U)] + g[U \ {Pick(U)}] BY <1>0, <2>2
  <2> QED BY <2>3, <2>4, <2>5
<1>2. \A U \in SUBSET S : \A x \in U : g[U] = f[x] + g[U \ {x}]
  <2> DEFINE B == {U \in SUBSET S : \E x \in U : g[U] # f[x] + g[U \ {x}]}
  <2> SUFFICES ASSUME B # {} PROVE FALSE OBVIOUS
  <2>1. PICK U \in B : \A V \in B : V \subseteq U => V = U
    <3>1. B \in SUBSET (SUBSET S) OBVIOUS
    <3> HIDE DEF B
    <3> QED BY <3>1, SmallestSet
  <2>2. PICK x \in U : g[U] # f[x] + g[U \ {x}] OBVIOUS
  <2> DEFINE y == Pick(U)
  <2>3. y \in U BY <2>2, PickFacts
  <2>4. g[U] = f[y] + g[U \ {y}] BY <1>0, <2>2
  <2>5. x # y BY <2>2, <2>4
  <2> HIDE DEF y
  <2>6. U \ {x} \notin B /\ U \ {y} \notin B BY <2>1, <2>2, <2>3
  <2>7. g[U \ {y}] = f[x] + g[(U \ {y}) \ {x}]
    BY <2>2, <2>5, <2>6
  <2>8. g[U \ {x}] = f[y] + g[(U \ {x}) \ {y}]
    BY <2>3, <2>5, <2>6
  <2> DEFINE rest == (U \ {x}) \ {y}
  <2>9. (U \ {y}) \ {x} = rest OBVIOUS
  <2>10. /\ f[x] \in Int /\ f[y] \in Int /\ g[rest] \in Int
    <3>1. x \in S /\ y \in S /\ rest \in SUBSET S BY <2>2, <2>3
    <3> QED BY <1>1, <3>1
  <2>11. g[U \ {y}] = f[x] + g[rest] /\ g[U \ {x}] = f[y] + g[rest]
    BY <2>7, <2>8, <2>9
  <2> HIDE DEF rest
  <2> QED BY <2>2, <2>4, <2>10, <2>11
<1> QED BY <1>1, <1>2

LEMMA TotalAdds ==
    ASSUME NEW S, IsFiniteSet(S), NEW f
    PROVE  \E g : Adds(g, f, S) /\ Total(f, S) = g[S]
<1>1. PICK g : Adds(g, f, S) BY AddsExists
<1> QED BY <1>1, Zenon DEF Total, Sums!MapThenSumSet, Sums!MapThenFoldSet, Adds, Pick

LEMMA TotalsAgree ==
    ASSUME NEW S, IsFiniteSet(S), NEW f, NEW e, \A x \in S : f[x] = e[x]
    PROVE  Total(f, S) = Total(e, S)
<1>1. PICK g : Adds(g, f, S) /\ Total(f, S) = g[S] BY TotalAdds
<1>2. PICK h : Adds(h, e, S) /\ Total(e, S) = h[S] BY TotalAdds
<1>3. S \subseteq S OBVIOUS
<1>4. g[S] = h[S] BY <1>1, <1>2, <1>3, AddsAgree
<1> QED BY <1>1, <1>2, <1>4

\* The sum of a finite set: none, and one more or less.
LEMMA TotalFacts ==
    ASSUME NEW S, IsFiniteSet(S), NEW f, \A x \in S : f[x] \in Int
    PROVE  /\ Total(f, S) \in Int
           /\ S = {} => Total(f, S) = 0
           /\ \A x \in S : \A e :
                (\A y \in S \ {x} : e[y] = f[y]) => Total(f, S) = f[x] + Total(e, S \ {x})
<1>1. PICK g : Adds(g, f, S) /\ Total(f, S) = g[S] BY TotalAdds
<1>2. /\ \A U \in SUBSET S : g[U] \in Int
      /\ \A U \in SUBSET S : \A x \in U : g[U] = f[x] + g[U \ {x}]
  BY <1>1, AddsAny
<1>3. S = {} => Total(f, S) = 0 BY <1>1, AddsFacts
<1>4. ASSUME NEW x \in S, NEW e, \A y \in S \ {x} : e[y] = f[y]
      PROVE  Total(f, S) = f[x] + Total(e, S \ {x})
  <2>1. IsFiniteSet(S \ {x}) BY FS_Subset
  <2>2. PICK h : Adds(h, e, S \ {x}) /\ Total(e, S \ {x}) = h[S \ {x}] BY <2>1, TotalAdds
  <2>3. g[S] = f[x] + g[S \ {x}]
    <3>1. S \in SUBSET S OBVIOUS
    <3> QED BY <1>2, <3>1
  <2>4. g[S \ {x}] = h[S \ {x}]
    <3>1. S \ {x} \subseteq S OBVIOUS
    <3> QED BY <1>1, <1>4, <2>1, <2>2, <3>1, AddsAgree
  <2> QED BY <1>1, <2>2, <2>3, <2>4
<1>5. Total(f, S) \in Int BY <1>1, <1>2
<1> QED BY <1>3, <1>4, <1>5

-----------------------------------------------------------------------------
\* The next account to lock is the first one left.
LEMMA NextAccountFacts ==
    ASSUME NEW c \in Clients, AffectedAccounts(txn[c].command) \subseteq Accounts,
           ~(AffectedAccounts(txn[c].command) \subseteq txn[c].accounts)
    PROVE  LET left == AffectedAccounts(txn[c].command) \ txn[c].accounts IN
           NextAccount(c) \in left /\ \A b \in left : NextAccount(c) <= b
<1> DEFINE left == AffectedAccounts(txn[c].command) \ txn[c].accounts
<1>1. left \in SUBSET Nat /\ left # {} BY PostingsAssumption
<1>2. NextAccount(c) = CHOOSE a \in left : \A b \in left : a <= b BY DEF NextAccount
<1> HIDE DEF left
<1>3. \E a \in left : \A b \in left : a <= b BY <1>1, FirstAccount
<1>4. NextAccount(c) \in left /\ \A b \in left : NextAccount(c) <= b BY <1>2, <1>3
<1> QED BY <1>4 DEF left

-----------------------------------------------------------------------------
LEMMA Types ==
    ASSUME PostingsIInv
    PROVE  /\ operation \in [Operations -> Outcome \cup {None}]
           /\ account \in [Accounts -> AccountRow] /\ period \in [Periods -> PeriodRow]
           /\ uncosted \subseteq Periods /\ balance \in [Accounts -> Int] /\ liability \in Int
           /\ conflicts \subseteq Operations /\ txn \in [Clients -> TransactionRow]
BY DEF PostingsIInv, TypeOK

\* What is known of the transaction of a client.
LEMMA UnderWay ==
    ASSUME PostingsIInv, NEW c \in Clients
    PROVE  /\ txn[c] \in TransactionRow /\ Shape(txn[c])
           /\ Kept(txn[c], operation, account, period, uncosted, balance, liability)
           /\ \A d \in Clients \ {c} : Apart(txn[d], txn[c]) /\ Shape(txn[d])
           /\ txn[c].pc # "idle" => txn[c].command \in Command
BY DEF PostingsIInv, TypeOK, TransactionsShaped, TransactionsKept, TransactionsApart, Shape

LEMMA RowFields ==
    ASSUME NEW t \in TransactionRow
    PROVE  /\ t.pc \in Steps /\ t.command \in Command \cup {None} /\ t.store \in Locks
           /\ t.claimed \in BOOLEAN /\ t.target \in BOOLEAN /\ t.period \in Locks
           /\ t.provisions \in BOOLEAN /\ t.accounts \in SUBSET Accounts /\ t.cash \in BOOLEAN
           /\ t.outcome \in Outcome \cup {None}
BY DEF TransactionRow

\* One transaction goes on, and what it goes on to is as it should be.
LEMMA OneClientMoves ==
    ASSUME PostingsIInv, NEW c \in Clients, NEW t \in TransactionRow,
           txn' = [txn EXCEPT ![c] = t],
           UNCHANGED <<operation, account, period, uncosted, balance, liability>>,
           conflicts' \subseteq Operations,
           Shape(t), Kept(t, operation, account, period, uncosted, balance, liability),
           \A d \in Clients \ {c} : Apart(txn[d], t)
    PROVE  PostingsIInv'
<1>1. txn'[c] = t /\ \A d \in Clients \ {c} : txn'[d] = txn[d] BY Types
<1>2. TypeOK' BY Types DEF TypeOK
<1>3. TransactionsShaped' BY <1>1 DEF PostingsIInv, TransactionsShaped
<1>4. TransactionsKept' BY <1>1 DEF PostingsIInv, TransactionsKept
<1>5. \A q, r : Apart(q, r) => Apart(r, q) BY DEF Apart
<1>6. TransactionsApart' BY <1>1, <1>5 DEF PostingsIInv, TransactionsApart
<1>7. Recorded(operation)' BY DEF PostingsIInv
<1>a. Follows(operation, balance)' BY DEF PostingsIInv
<1>8. ArchivedIsEmpty' BY DEF PostingsIInv, ArchivedIsEmpty
<1>9. ClosedIsCosted' BY DEF PostingsIInv, ClosedIsCosted
<1>10. LiabilityNotNegative' BY DEF PostingsIInv, LiabilityNotNegative
<1> QED BY <1>2, <1>3, <1>4, <1>6, <1>7, <1>8, <1>9, <1>10, <1>a DEF PostingsIInv

LEMMA IdleFacts ==
    /\ Idle \in TransactionRow /\ Shape(Idle)
    /\ \A op, ac, pe, un, ba, li : Kept(Idle, op, ac, pe, un, ba, li)
    /\ \A q : Apart(q, Idle)
<1>1. /\ Idle.pc = "idle" /\ Idle.store = "none" /\ Idle.claimed = FALSE /\ Idle.target = FALSE
      /\ Idle.period = "none" /\ Idle.provisions = FALSE /\ Idle.accounts = {}
      /\ Idle.command = None /\ Idle.outcome = None /\ Idle.cash = FALSE
  BY DEF Idle
<1>2. Idle \in TransactionRow BY DEF Idle, TransactionRow, Steps, Locks
<1>3. Shape(Idle) BY <1>1 DEF Shape
<1>4. \A op, ac, pe, un, ba, li : Kept(Idle, op, ac, pe, un, ba, li) BY <1>1 DEF Kept
<1>5. \A q : Apart(q, Idle) BY <1>1 DEF Apart
<1> QED BY <1>2, <1>3, <1>4, <1>5

\* A transaction that ends without a commit.
LEMMA EndKeeps ==
    ASSUME PostingsIInv, NEW c \in Clients, txn' = [txn EXCEPT ![c] = Idle],
           UNCHANGED <<operation, account, period, uncosted, balance, liability>>,
           conflicts' \subseteq Operations
    PROVE  PostingsIInv'
<1> DEFINE t == Idle
<1>1. t \in TransactionRow /\ Shape(t)
  BY IdleFacts
<1>2. Kept(t, operation, account, period, uncosted, balance, liability)
  BY IdleFacts
<1>3. \A d \in Clients \ {c} : Apart(txn[d], t)
  BY IdleFacts
<1>4. txn' = [txn EXCEPT ![c] = t] OBVIOUS
<1>5. UNCHANGED <<operation, account, period, uncosted, balance, liability>>
      /\ conflicts' \subseteq Operations
  OBVIOUS
<1> HIDE DEF t
<1> QED BY <1>1, <1>2, <1>3, <1>4, <1>5, OneClientMoves

\* A refusal gives up the locks taken since the savepoint.
LEMMA RejectKeeps ==
    ASSUME PostingsIInv, NEW c \in Clients, Reject(c), UNCHANGED Books,
           txn[c].pc \in {"target", "period", "accounts", "post"},
           txn[c].command.kind \in PostingKinds
    PROVE  PostingsIInv'
<1> DEFINE q == txn[c]
           out == Rejected(q.command)
           t == [q EXCEPT !.pc = "commit", !.outcome = out, !.target = FALSE, !.period = "none",
                          !.provisions = FALSE, !.accounts = {}]
<1>1. /\ q \in TransactionRow /\ Shape(q)
      /\ Kept(q, operation, account, period, uncosted, balance, liability)
      /\ \A d \in Clients \ {c} : Apart(txn[d], q) /\ Shape(txn[d])
      /\ q.command \in Command
  BY UnderWay
<1>2. txn' = [txn EXCEPT ![c] = t] BY Types DEF Reject
<1>3. UNCHANGED <<operation, account, period, uncosted, balance, liability>>
      /\ conflicts' \subseteq Operations
  BY Types DEF Books
<1>4. /\ out \in Outcome /\ out.command = q.command /\ out.status = "rejected"
      /\ out.movements = <<>> /\ out.entries = <<>> /\ out.event = None /\ WholeOutcome(out)
  BY <1>1, RejectedFacts
<1> HIDE DEF out
<1>5. t \in TransactionRow BY <1>1, <1>4 DEF TransactionRow, Steps, Locks
<1>6. /\ t.pc = "commit" /\ t.outcome = out /\ t.target = FALSE /\ t.period = "none"
      /\ t.provisions = FALSE /\ t.accounts = {} /\ t.command = q.command /\ t.store = q.store
      /\ t.claimed = q.claimed /\ t.cash = q.cash
  BY <1>1 DEF TransactionRow
<1> HIDE DEF t
<1>7. q.claimed = TRUE /\ q.store = StoreMode(q.command)
  BY <1>1, RowFields DEF Shape
<1>8. Shape(t) BY <1>1, <1>4, <1>6, <1>7 DEF Shape, PostingKinds, OwnerKinds, Corrections
<1>9. Decided(t, out, operation, account, period, uncosted, balance, liability)
  <2>1. liability >= 0 /\ liability \in Int
    BY Types DEF PostingsIInv, LiabilityNotNegative
  <2>2. DOMAIN out.movements = {} /\ Owed(out.entries) = 0 BY <1>4, NoRows
  <2>3. Balanced(out, operation) BY <1>4, EmptyBalances
  <2> QED BY <1>4, <1>6, <2>1, <2>2, <2>3 DEF Decided, Opens
<1>10. Kept(t, operation, account, period, uncosted, balance, liability)
  BY <1>1, <1>6, <1>9 DEF Kept
<1>11. \A d \in Clients \ {c} : Apart(txn[d], t) BY <1>1, <1>6 DEF Apart
<1> QED BY <1>2, <1>3, <1>5, <1>8, <1>10, <1>11, OneClientMoves

\* A transaction decides what it will record.
LEMMA DecideKeeps ==
    ASSUME PostingsIInv, NEW c \in Clients, NEW out \in Outcome, Decide(c, out), UNCHANGED Books,
           txn[c].pc \in {"post", "lifecycle"}, out.command = txn[c].command, WholeOutcome(out),
           Decided(txn[c], out, operation, account, period, uncosted, balance, liability)
    PROVE  PostingsIInv'
<1> DEFINE q == txn[c]
           t == [q EXCEPT !.pc = "commit", !.outcome = out]
<1>1. /\ q \in TransactionRow /\ Shape(q)
      /\ Kept(q, operation, account, period, uncosted, balance, liability)
      /\ \A d \in Clients \ {c} : Apart(txn[d], q) /\ Shape(txn[d])
      /\ q.command \in Command
  BY UnderWay
<1>2. txn' = [txn EXCEPT ![c] = t] BY Types DEF Decide
<1>3. UNCHANGED <<operation, account, period, uncosted, balance, liability>>
      /\ conflicts' \subseteq Operations
  BY Types DEF Books
<1>4. t \in TransactionRow BY <1>1 DEF TransactionRow, Steps
<1>5. /\ t.pc = "commit" /\ t.outcome = out /\ t.target = q.target /\ t.period = q.period
      /\ t.provisions = q.provisions /\ t.accounts = q.accounts /\ t.command = q.command
      /\ t.store = q.store /\ t.claimed = q.claimed /\ t.cash = q.cash
  BY <1>1 DEF TransactionRow
<1> HIDE DEF t
<1>6. Shape(t) BY <1>1, <1>5 DEF Shape, PostingKinds, OwnerKinds, Corrections
<1>7. Decided(t, out, operation, account, period, uncosted, balance, liability)
  BY <1>5 DEF Decided
<1>8. Kept(t, operation, account, period, uncosted, balance, liability)
  BY <1>1, <1>5, <1>7 DEF Kept
<1>9. \A d \in Clients \ {c} : Apart(txn[d], t) BY <1>1, <1>5 DEF Apart
<1> QED BY <1>2, <1>3, <1>4, <1>6, <1>8, <1>9, OneClientMoves

\* Only the conflicts are noted.
LEMMA NotingKeeps ==
    ASSUME PostingsIInv, conflicts' \subseteq Operations,
           UNCHANGED <<operation, account, period, uncosted, balance, liability, txn>>
    PROVE  PostingsIInv'
<1>1. TypeOK' BY Types DEF TypeOK
<1>2. TransactionsShaped' BY DEF PostingsIInv, TransactionsShaped
<1>3. TransactionsKept' BY DEF PostingsIInv, TransactionsKept
<1>4. TransactionsApart' BY DEF PostingsIInv, TransactionsApart
<1>5. Recorded(operation)' BY DEF PostingsIInv
<1>a. Follows(operation, balance)' BY DEF PostingsIInv
<1>6. ArchivedIsEmpty' /\ ClosedIsCosted' /\ LiabilityNotNegative'
  BY DEF PostingsIInv, ArchivedIsEmpty, ClosedIsCosted, LiabilityNotNegative
<1> QED BY <1>1, <1>2, <1>3, <1>4, <1>5, <1>6, <1>a DEF PostingsIInv

LEMMA ReplayKeeps ==
    ASSUME PostingsIInv, NEW c \in Clients, NEW cmd \in Command, Replay(c, cmd)
    PROVE  PostingsIInv'
<1>1. conflicts' \subseteq Operations BY Types, CommandFields DEF Replay, Resolve
<1>2. UNCHANGED <<operation, account, period, uncosted, balance, liability, txn>> BY DEF Replay
<1> QED BY <1>1, <1>2, NotingKeeps

LEMMA SubmitKeeps ==
    ASSUME PostingsIInv, NEW c \in Clients, NEW cmd \in Command, Submit(c, cmd)
    PROVE  PostingsIInv'
<1> DEFINE t == [Idle EXCEPT !.pc = "store", !.command = cmd]
<1>1. txn' = [txn EXCEPT ![c] = t] BY DEF Submit
<1>2. UNCHANGED <<operation, account, period, uncosted, balance, liability>>
      /\ conflicts' \subseteq Operations
  BY Types DEF Books, Submit
<1>3. t \in TransactionRow BY DEF TransactionRow, Steps, Locks, Idle
<1>4. /\ t.pc = "store" /\ t.target = FALSE /\ t.period = "none"
      /\ t.provisions = FALSE /\ t.accounts = {} /\ t.command = cmd
      /\ t.store = "none" /\ t.claimed = FALSE /\ t.cash = FALSE
  BY DEF Idle
<1> HIDE DEF t
<1>5. Shape(t) BY <1>4 DEF Shape
<1>6. Kept(t, operation, account, period, uncosted, balance, liability) BY <1>4 DEF Kept
<1>7. \A d \in Clients \ {c} : Apart(txn[d], t) BY <1>4 DEF Apart
<1> QED BY <1>1, <1>2, <1>3, <1>5, <1>6, <1>7, OneClientMoves

LEMMA LockStoreKeeps ==
    ASSUME PostingsIInv, NEW c \in Clients, LockStore(c)
    PROVE  PostingsIInv'
<1> DEFINE q == txn[c]
           mode == StoreMode(q.command)
           t == [q EXCEPT !.pc = "claim", !.store = mode]
<1>1. /\ q \in TransactionRow /\ Shape(q)
      /\ Kept(q, operation, account, period, uncosted, balance, liability)
      /\ \A d \in Clients \ {c} : Apart(txn[d], q) /\ Shape(txn[d])
      /\ q.pc = "store" /\ q.command \in Command
  BY UnderWay DEF LockStore
<1>2. txn' = [txn EXCEPT ![c] = t] BY Types DEF LockStore
<1>3. UNCHANGED <<operation, account, period, uncosted, balance, liability>>
      /\ conflicts' \subseteq Operations
  BY Types DEF Books, LockStore
<1>4. mode \in {"share", "exclusive"} BY DEF StoreMode
<1>5. t \in TransactionRow BY <1>1, <1>4 DEF TransactionRow, Steps, Locks
<1>6. /\ t.pc = "claim" /\ t.target = q.target /\ t.period = q.period
      /\ t.provisions = q.provisions /\ t.accounts = q.accounts /\ t.command = q.command
      /\ t.store = mode /\ t.claimed = q.claimed /\ t.cash = q.cash
  BY <1>1 DEF TransactionRow
<1> HIDE DEF t
<1>7. Shape(t) BY <1>1, <1>6 DEF Shape
<1>8. Kept(t, operation, account, period, uncosted, balance, liability) BY <1>1, <1>6 DEF Kept
<1>9. \A d \in Clients \ {c} :
        /\ txn[d].store # "exclusive" /\ (mode = "exclusive" => txn[d].store = "none")
        /\ txn[d].store \in Locks
  BY Types, RowFields DEF LockStore, StoreFree, Others
<1>10. \A d \in Clients \ {c} : Apart(txn[d], t) BY <1>1, <1>6, <1>9 DEF Apart
<1> QED BY <1>2, <1>3, <1>5, <1>7, <1>8, <1>10, OneClientMoves

LEMMA ClaimKeeps ==
    ASSUME PostingsIInv, NEW c \in Clients, Claim(c)
    PROVE  PostingsIInv'
<1> DEFINE q == txn[c]
           step == FirstStep(q.command)
           t == [q EXCEPT !.pc = step, !.claimed = TRUE]
<1>1. /\ q \in TransactionRow /\ Shape(q)
      /\ Kept(q, operation, account, period, uncosted, balance, liability)
      /\ \A d \in Clients \ {c} : Apart(txn[d], q) /\ Shape(txn[d])
      /\ q.pc = "claim" /\ q.command \in Command
  BY UnderWay DEF Claim
<1>2. txn' = [txn EXCEPT ![c] = t] BY Types DEF Claim
<1>3. UNCHANGED <<operation, account, period, uncosted, balance, liability>>
      /\ conflicts' \subseteq Operations
  BY Types DEF Books, Claim
<1>4. /\ step \in {"target", "closing", "lifecycle", "cash", "period"}
      /\ step = "target" => q.command.kind \in Corrections
      /\ step = "closing" => q.command.kind = "close"
      /\ step = "lifecycle" => q.command.kind \in {"archive", "restore"}
      /\ step = "cash" => q.command.kind = "create"
      /\ step = "period" => q.command.kind \in PostingKinds
  BY <1>1, CommandFields DEF FirstStep, PostingKinds, OwnerKinds, Corrections, Kinds
<1>5. t \in TransactionRow BY <1>1, <1>4 DEF TransactionRow, Steps
<1>6. /\ t.pc = step /\ t.target = q.target /\ t.period = q.period
      /\ t.provisions = q.provisions /\ t.accounts = q.accounts /\ t.command = q.command
      /\ t.store = q.store /\ t.claimed = TRUE /\ t.cash = q.cash
  BY <1>1 DEF TransactionRow
<1> HIDE DEF t, step
<1>7. q.target = FALSE /\ q.accounts = {} /\ q.period = "none" /\ q.provisions = FALSE
  BY <1>1, RowFields DEF Shape, Locks
<1>8. operation[q.command.op] = None BY DEF Claim
<1>9. step = "period" => q.command.kind \notin Corrections
  BY DEF step, FirstStep
<1>10. Shape(t) BY <1>1, <1>4, <1>6, <1>7, <1>9 DEF Shape
<1>11. Kept(t, operation, account, period, uncosted, balance, liability)
  BY <1>4, <1>6, <1>7, <1>8 DEF Kept
<1>12. \A d \in Clients \ {c} : ~(txn[d].claimed /\ txn[d].command.op = q.command.op)
  BY DEF Claim, ClaimFree, Others
<1>13. \A d \in Clients \ {c} : Apart(txn[d], t) BY <1>1, <1>6, <1>12 DEF Apart
<1> QED BY <1>2, <1>3, <1>5, <1>10, <1>11, <1>13, OneClientMoves

LEMMA ClaimLostKeeps ==
    ASSUME PostingsIInv, NEW c \in Clients, ClaimLost(c)
    PROVE  PostingsIInv'
<1>1. txn[c].command \in Command BY UnderWay DEF ClaimLost
<1>2. txn' = [txn EXCEPT ![c] = Idle] BY DEF ClaimLost
<1>3. UNCHANGED <<operation, account, period, uncosted, balance, liability>>
  BY DEF ClaimLost
<1>4. conflicts' \subseteq Operations BY <1>1, Types, CommandFields DEF ClaimLost, Resolve
<1> QED BY <1>2, <1>3, <1>4, EndKeeps

LEMMA AbortKeeps ==
    ASSUME PostingsIInv, NEW c \in Clients, Abort(c)
    PROVE  PostingsIInv'
<1>1. txn' = [txn EXCEPT ![c] = Idle] BY DEF Abort
<1>2. UNCHANGED <<operation, account, period, uncosted, balance, liability>>
      /\ conflicts' \subseteq Operations
  BY Types DEF Abort, Books
<1> QED BY <1>1, <1>2, EndKeeps

-----------------------------------------------------------------------------
\* The locks of a posting: the row it corrects, its period, its accounts.
LEMMA LockTargetKeeps ==
    ASSUME PostingsIInv, NEW c \in Clients, LockTarget(c)
    PROVE  PostingsIInv'
<1> DEFINE q == txn[c]
           cmd == q.command
           t == [q EXCEPT !.pc = "period", !.target = TRUE]
<1>1. /\ q \in TransactionRow /\ Shape(q)
      /\ Kept(q, operation, account, period, uncosted, balance, liability)
      /\ \A d \in Clients \ {c} : Apart(txn[d], q) /\ Shape(txn[d])
      /\ q.pc = "target" /\ q.command \in Command /\ UNCHANGED Books
      /\ cmd.kind \in Corrections
  BY UnderWay DEF LockTarget, Shape
<1>2. CASE Correctable(cmd.target, cmd.domain) /\ txn' = [txn EXCEPT ![c].pc = "period", ![c].target = TRUE]
  <2>1. txn' = [txn EXCEPT ![c] = t] BY <1>2, Types
  <2>2. UNCHANGED <<operation, account, period, uncosted, balance, liability>>
        /\ conflicts' \subseteq Operations
    BY <1>1, Types DEF Books
  <2>3. t \in TransactionRow BY <1>1 DEF TransactionRow, Steps
  <2>4. /\ t.pc = "period" /\ t.target = TRUE /\ t.period = q.period
        /\ t.provisions = q.provisions /\ t.accounts = q.accounts /\ t.command = cmd
        /\ t.store = q.store /\ t.claimed = q.claimed /\ t.cash = q.cash
    BY <1>1 DEF TransactionRow
  <2> HIDE DEF t
  <2>5. StandsIn(operation, cmd.target, cmd.domain)
    BY <1>2 DEF Correctable, IsApplied, Superseded, StandsIn, AppliedIn, Corrects
  <2>6. Shape(t) BY <1>1, <2>4 DEF Shape, PostingKinds
  <2>7. Kept(t, operation, account, period, uncosted, balance, liability)
    BY <1>1, <2>4, <2>5 DEF Kept
  <2>8. \A d \in Clients \ {c} : ~(txn[d].target /\ txn[d].command.target = cmd.target)
    BY DEF LockTarget, TargetFree, Others
  <2>9. \A d \in Clients \ {c} : Apart(txn[d], t) BY <1>1, <2>4, <2>8 DEF Apart
  <2> QED BY <2>1, <2>2, <2>3, <2>6, <2>7, <2>9, OneClientMoves
<1>3. CASE Reject(c) BY <1>1, <1>3, RejectKeeps DEF PostingKinds
<1> QED BY <1>2, <1>3 DEF LockTarget

LEMMA ResolvePeriodKeeps ==
    ASSUME PostingsIInv, NEW c \in Clients, ResolvePeriod(c)
    PROVE  PostingsIInv'
<1> DEFINE q == txn[c]
           cmd == q.command
           p == cmd.period
<1>1. /\ q \in TransactionRow /\ Shape(q)
      /\ Kept(q, operation, account, period, uncosted, balance, liability)
      /\ \A d \in Clients \ {c} : Apart(txn[d], q) /\ Shape(txn[d])
      /\ q.pc = "period" /\ q.command \in Command /\ UNCHANGED Books
      /\ cmd.kind \in PostingKinds /\ PeriodFree(c, p, "share")
  BY UnderWay DEF ResolvePeriod, Shape
<1>2. ASSUME NEW new \in BOOLEAN, period[p].status = IF new THEN "absent" ELSE "open",
             txn' = [txn EXCEPT ![c] = [q EXCEPT !.pc = "accounts", !.period = "share",
                                                  !.provisions = new]]
      PROVE  PostingsIInv'
  <2> DEFINE t == [q EXCEPT !.pc = "accounts", !.period = "share", !.provisions = new]
  <2>1. txn' = [txn EXCEPT ![c] = t] BY <1>2
  <2>2. UNCHANGED <<operation, account, period, uncosted, balance, liability>>
        /\ conflicts' \subseteq Operations
    BY <1>1, Types DEF Books
  <2>3. t \in TransactionRow BY <1>1, <1>2 DEF TransactionRow, Steps, Locks
  <2>4. /\ t.pc = "accounts" /\ t.target = q.target /\ t.period = "share"
        /\ t.provisions = new /\ t.accounts = q.accounts /\ t.command = cmd
        /\ t.store = q.store /\ t.claimed = q.claimed /\ t.cash = q.cash
    BY <1>1 DEF TransactionRow
  <2> HIDE DEF t
  <2>5. Shape(t) BY <1>1, <2>4 DEF Shape, PostingKinds, OwnerKinds, Corrections
  <2>6. Kept(t, operation, account, period, uncosted, balance, liability)
    <3>1. q.accounts = {} BY <1>1 DEF Shape
    <3> QED BY <1>1, <1>2, <2>4, <3>1 DEF Kept
  <2>7. \A d \in Clients \ {c} :
          (txn[d].period # "none" /\ txn[d].command.period = p) =>
             txn[d].period = "share" /\ ~txn[d].provisions
    BY <1>1 DEF PeriodFree, Others
  <2>8. \A d \in Clients \ {c} : Kept(txn[d], operation, account, period, uncosted, balance, liability)
    BY DEF PostingsIInv, TransactionsKept
  <2>9. \A d \in Clients \ {c} :
          (txn[d].period # "none" /\ txn[d].command.period = p) => ~new
    BY <1>2, <2>7, <2>8 DEF Kept
  <2>10. \A d \in Clients \ {c} : Apart(txn[d], t) BY <1>1, <2>4, <2>7, <2>9 DEF Apart
  <2> QED BY <2>1, <2>2, <2>3, <2>5, <2>6, <2>10, OneClientMoves
<1>3. CASE period[p].status = "open"
           /\ txn' = [txn EXCEPT ![c].pc = "accounts", ![c].period = "share"]
  <2>1. q.provisions = FALSE BY <1>1, RowFields DEF Shape
  <2>2. [q EXCEPT !.pc = "accounts", !.period = "share"] =
          [q EXCEPT !.pc = "accounts", !.period = "share", !.provisions = FALSE]
    BY <1>1, <2>1 DEF TransactionRow
  <2>3. txn' = [txn EXCEPT ![c] = [q EXCEPT !.pc = "accounts", !.period = "share"]]
    BY <1>3, Types
  <2> QED BY <1>2, <1>3, <2>2, <2>3
<1>4. CASE period[p].status = "absent"
           /\ txn' = [txn EXCEPT ![c].pc = "accounts", ![c].period = "share",
                                 ![c].provisions = TRUE]
  <2>1. txn' = [txn EXCEPT ![c] = [q EXCEPT !.pc = "accounts", !.period = "share",
                                            !.provisions = TRUE]]
    BY <1>4, Types
  <2> QED BY <1>2, <1>4, <2>1
<1>5. CASE Reject(c) BY <1>1, <1>5, RejectKeeps
<1> QED BY <1>3, <1>4, <1>5 DEF ResolvePeriod

\* The accounts of a command are accounts.
LEMMA AffectedFacts ==
    ASSUME PostingsIInv, NEW c \in Clients, txn[c].pc # "idle",
           txn[c].command.kind \in Corrections => txn[c].target
    PROVE  /\ AffectedAccounts(txn[c].command) = Affected(operation, txn[c].command)
           /\ Affected(operation, txn[c].command) \subseteq Accounts
<1> DEFINE cmd == txn[c].command
<1>1. /\ cmd \in Command
      /\ Kept(txn[c], operation, account, period, uncosted, balance, liability)
  BY UnderWay
<1>2. AffectedAccounts(cmd) = Affected(operation, cmd) BY DEF AffectedAccounts, Affected
<1>3. CASE cmd.kind \in Corrections
  <2>1. StandsIn(operation, cmd.target, cmd.domain) BY <1>1, <1>3 DEF Kept
  <2>2. cmd.target \in Operations BY <1>1, <1>3, CommandFields
  <2>3. operation[cmd.target] \in Outcome BY <2>1, <2>2, Types DEF StandsIn, AppliedIn
  <2>4. operation[cmd.target].event \in Event BY <2>1, <2>3 DEF StandsIn, Outcome
  <2> QED BY <1>1, <1>2, <1>3, <2>4, EventFields, CommandFields
         DEF Affected, Corrections, OwnerKinds
<1>4. CASE cmd.kind \notin Corrections
  BY <1>1, <1>2, <1>4, CommandFields DEF Affected
<1> QED BY <1>3, <1>4

LEMMA LockAccountKeeps ==
    ASSUME PostingsIInv, NEW c \in Clients, LockAccount(c)
    PROVE  PostingsIInv'
<1> DEFINE q == txn[c]
           cmd == q.command
           a == NextAccount(c)
           held == q.accounts \cup {a}
           t == [q EXCEPT !.accounts = held]
<1>1. /\ q \in TransactionRow /\ Shape(q)
      /\ Kept(q, operation, account, period, uncosted, balance, liability)
      /\ \A d \in Clients \ {c} : Apart(txn[d], q) /\ Shape(txn[d])
      /\ q.pc = "accounts" /\ q.command \in Command /\ UNCHANGED Books
      /\ cmd.kind \in PostingKinds /\ (cmd.kind \in Corrections => q.target)
  BY UnderWay DEF LockAccount, Shape
<1>2. /\ a \in Accounts /\ Affected(operation, cmd) \subseteq Accounts
      /\ \A b \in Affected(operation, cmd) \ q.accounts : a <= b
  BY <1>1, AffectedFacts, NextAccountFacts DEF LockAccount
<1> HIDE DEF a
<1>3. CASE txn' = [txn EXCEPT ![c].accounts = @ \cup {a}]
  <2>1. txn' = [txn EXCEPT ![c] = t] BY <1>3, Types
  <2>2. UNCHANGED <<operation, account, period, uncosted, balance, liability>>
        /\ conflicts' \subseteq Operations
    BY <1>1, Types DEF Books
  <2>3. t \in TransactionRow BY <1>1, <1>2 DEF TransactionRow
  <2>4. /\ t.pc = "accounts" /\ t.target = q.target /\ t.period = q.period
        /\ t.provisions = q.provisions /\ t.accounts = held /\ t.command = cmd
        /\ t.store = q.store /\ t.claimed = q.claimed /\ t.cash = q.cash
    BY <1>1 DEF TransactionRow
  <2> HIDE DEF t
  <2>5. Shape(t) BY <1>1, <2>4 DEF Shape
  <2>6. Kept(t, operation, account, period, uncosted, balance, liability)
    <3>1. \A x \in q.accounts, b \in Affected(operation, cmd) \ q.accounts : x < b
      BY <1>1 DEF Kept
    <3>2. \A b \in Affected(operation, cmd) \ held : a < b
      <4> TAKE b \in Affected(operation, cmd) \ held
      <4>1. b \in Affected(operation, cmd) /\ b \notin q.accounts /\ b # a OBVIOUS
      <4>2. b \in Nat /\ a \in Nat /\ a <= b BY <1>2, <4>1, PostingsAssumption
      <4> HIDE DEF cmd, q, held
      <4> QED BY <4>1, <4>2
    <3>3. \A x \in held, b \in Affected(operation, cmd) \ held : x < b BY <3>1, <3>2
    <3> QED BY <1>1, <2>4, <3>3 DEF Kept
  <2>7. \A d \in Clients \ {c} : a \notin txn[d].accounts
    BY DEF LockAccount, AccountFree, Others, a
  <2>8. \A d \in Clients \ {c} : Apart(txn[d], t) BY <1>1, <2>4, <2>7 DEF Apart
  <2> QED BY <2>1, <2>2, <2>3, <2>5, <2>6, <2>8, OneClientMoves
<1>4. CASE Reject(c) BY <1>1, <1>4, RejectKeeps
<1> QED BY <1>3, <1>4 DEF LockAccount, a

LEMMA ValidateAccountsKeeps ==
    ASSUME PostingsIInv, NEW c \in Clients, ValidateAccounts(c)
    PROVE  PostingsIInv'
<1> DEFINE q == txn[c]
           cmd == q.command
           t == [q EXCEPT !.pc = "post"]
<1>1. /\ q \in TransactionRow /\ Shape(q)
      /\ Kept(q, operation, account, period, uncosted, balance, liability)
      /\ \A d \in Clients \ {c} : Apart(txn[d], q) /\ Shape(txn[d])
      /\ q.pc = "accounts" /\ q.command \in Command /\ UNCHANGED Books
      /\ cmd.kind \in PostingKinds /\ (cmd.kind \in Corrections => q.target)
  BY UnderWay DEF ValidateAccounts, Shape
<1>2. AffectedAccounts(cmd) = Affected(operation, cmd) /\ Affected(operation, cmd) \subseteq q.accounts
  BY <1>1, AffectedFacts DEF ValidateAccounts
<1>3. CASE (\A a \in AffectedAccounts(cmd) : account[a].status = "active")
           /\ txn' = [txn EXCEPT ![c].pc = "post"]
  <2>1. txn' = [txn EXCEPT ![c] = t] BY <1>3, Types
  <2>2. UNCHANGED <<operation, account, period, uncosted, balance, liability>>
        /\ conflicts' \subseteq Operations
    BY <1>1, Types DEF Books
  <2>3. t \in TransactionRow BY <1>1 DEF TransactionRow, Steps
  <2>4. /\ t.pc = "post" /\ t.target = q.target /\ t.period = q.period
        /\ t.provisions = q.provisions /\ t.accounts = q.accounts /\ t.command = cmd
        /\ t.store = q.store /\ t.claimed = q.claimed /\ t.cash = q.cash
    BY <1>1 DEF TransactionRow
  <2> HIDE DEF t
  <2>5. Shape(t) BY <1>1, <2>4 DEF Shape, PostingKinds, OwnerKinds, Corrections
  <2>6. Kept(t, operation, account, period, uncosted, balance, liability)
    BY <1>1, <1>2, <1>3, <2>4 DEF Kept, PostingKinds, OwnerKinds, Corrections
  <2>7. \A d \in Clients \ {c} : Apart(txn[d], t) BY <1>1, <2>4 DEF Apart
  <2> QED BY <2>1, <2>2, <2>3, <2>5, <2>6, <2>7, OneClientMoves
<1>4. CASE Reject(c) BY <1>1, <1>4, RejectKeeps
<1> QED BY <1>3, <1>4 DEF ValidateAccounts

-----------------------------------------------------------------------------
\* The postings, each with the reasons its outcome was allowed for.
LEMMA PostingFacts ==
    ASSUME PostingsIInv, NEW c \in Clients, txn[c].pc = "post",
           txn[c].command.kind \in PostingKinds
    PROVE  /\ txn[c].command \in Command /\ txn[c].period = "share"
           /\ Affected(operation, txn[c].command) \subseteq txn[c].accounts
           /\ \A a \in Affected(operation, txn[c].command) : account[a].status = "active"
           /\ txn[c].command.kind \in Corrections =>
                /\ txn[c].target
                /\ StandsIn(operation, txn[c].command.target, txn[c].command.domain)
<1>1. /\ txn[c].command \in Command /\ Shape(txn[c])
      /\ Kept(txn[c], operation, account, period, uncosted, balance, liability)
  BY UnderWay
<1>2. txn[c].period = "share" /\ (txn[c].command.kind \in Corrections => txn[c].target)
  BY <1>1 DEF Shape
<1> QED BY <1>1, <1>2 DEF Kept

\* Outcomes of postings: their rows are of the accounts locked, and they cover what is owed.
LEMMA PostedKeeps ==
    ASSUME PostingsIInv, NEW c \in Clients, NEW out \in Outcome, Decide(c, out), UNCHANGED Books,
           txn[c].pc = "post", txn[c].command.kind \in PostingKinds,
           out.command = txn[c].command, WholeOutcome(out), Balanced(out, operation),
           \A i \in DOMAIN out.movements :
             out.movements[i].account \in Affected(operation, txn[c].command),
           IF SerializesLiability(txn[c].command)
           THEN liability + Owed(out.entries) >= 0 ELSE Owed(out.entries) >= 0,
           \A a \in Accounts : Opens(out, a) =>
             /\ a \in Affected(operation, txn[c].command)
             /\ \A o \in Operations : operation[o] # None => ~Opens(operation[o], a)
    PROVE  PostingsIInv'
<1>1. /\ txn[c].period = "share"
      /\ Affected(operation, txn[c].command) \subseteq txn[c].accounts
      /\ \A a \in Affected(operation, txn[c].command) : account[a].status = "active"
      /\ txn[c].command.kind \in Corrections => txn[c].target
  BY PostingFacts
<1>2. txn[c].command.kind \notin {"archive", "close"}
  BY DEF PostingKinds, OwnerKinds, Corrections
<1>3. Decided(txn[c], out, operation, account, period, uncosted, balance, liability)
  BY <1>1, <1>2 DEF Decided
<1> QED BY <1>3, DecideKeeps

LEMMA NothingPosted ==
    ASSUME PostingsIInv, NEW c \in Clients, txn[c].pc = "post",
           txn[c].command.kind \in PostingKinds \ Corrections,
           Decide(c, Applied(txn[c].command, <<>>, <<>>, None)), UNCHANGED Books
    PROVE  PostingsIInv'
<1> DEFINE out == Applied(txn[c].command, <<>>, <<>>, None)
<1>1. txn[c].command \in Command BY PostingFacts
<1>2. /\ out \in Outcome /\ out.command = txn[c].command
      /\ out.status = "applied" /\ out.movements = <<>> /\ out.entries = <<>> /\ out.event = None
  BY <1>1 DEF Applied, Outcome
<1> HIDE DEF out
<1>3. Decide(c, out) BY DEF out
<1>4. liability >= 0 /\ liability \in Int BY Types DEF PostingsIInv, LiabilityNotNegative
<1>5. DOMAIN out.movements = {} /\ Owed(out.entries) = 0 BY <1>2, NoRows
<1>6. WholeOutcome(out) /\ \A a : ~Opens(out, a) BY <1>2 DEF WholeOutcome, Opens
<1>7. Balanced(out, operation) BY <1>2, EmptyBalances
<1> QED BY <1>2, <1>3, <1>4, <1>5, <1>6, <1>7, PostedKeeps

LEMMA PostOpeningKeeps ==
    ASSUME PostingsIInv, NEW c \in Clients, PostOpening(c)
    PROVE  PostingsIInv'
<1> DEFINE cmd == txn[c].command
           e == [domain |-> "opening_balance", account |-> cmd.account, to |-> None,
                 amount |-> cmd.amount]
           m == EventMovements(e, "original")
           out == Applied(cmd, m, <<>>, e)
<1>1. txn[c].pc = "post" /\ cmd.kind = "opening_balance" /\ cmd.kind \in PostingKinds \ Corrections
      /\ UNCHANGED Books
  BY DEF PostOpening, Posts, PostingKinds, Corrections
<1>2. cmd \in Command /\ cmd.account \in Accounts /\ cmd.amount \in Int
  BY <1>1, PostingFacts, CommandFields, PostingsAssumption
<1>3. CASE Decide(c, Applied(cmd, <<>>, <<>>, None)) BY <1>1, <1>3, NothingPosted
<1>4. CASE Reject(c) BY <1>1, <1>4, RejectKeeps
<1>5. CASE ~HasOpening(cmd.account) /\ Decide(c, out)
  <2>1. e \in Event /\ e.account = cmd.account /\ e.to = None /\ e.domain = "opening_balance"
    BY <1>2 DEF Event, Domains
  <2> HIDE DEF e
  <2>2. WholeEvent(e) BY <2>1 DEF WholeEvent
  <2>3. /\ m \in Seq(Movement)
        /\ \A i \in DOMAIN m : m[i].account = cmd.account
    BY <2>1, <2>2, EventMovementFacts DEF Phases
  <2>a. e # None /\ \A a : Moved(m, a) = Worth(e, a) /\ Worth(e, a) \in Int
    BY <2>1, <2>2, EventMoves, NoneAssumption DEF Phases
  <2> HIDE DEF m
  <2>4. /\ out \in Outcome /\ out.command = cmd /\ out.status = "applied"
        /\ out.movements = m /\ out.entries = <<>> /\ out.event = e
    BY <1>2, <2>1, <2>3, AppliedWithoutEntries
  <2> HIDE DEF out
  <2>5. Affected(operation, cmd) = {cmd.account} BY <1>1 DEF Affected, OwnerKinds, Corrections
  <2>6. ~SerializesLiability(cmd) BY <1>1 DEF SerializesLiability, Corrections
  <2>7. Owed(out.entries) >= 0 BY <2>4, NoRows
  <2>8. \A a \in Accounts : Opens(out, a) => a = cmd.account BY <2>1, <2>4 DEF Opens
  <2>9. \A o \in Operations : operation[o] # None => ~Opens(operation[o], cmd.account)
    BY <1>5 DEF HasOpening, IsApplied, Opens
  <2>10. WholeOutcome(out) BY <2>2, <2>4 DEF WholeOutcome
  <2>b. Balanced(out, operation) BY <1>1, <2>a, <2>4 DEF Balanced, OwnerKinds, Corrections
  <2> QED BY <1>1, <1>5, <2>3, <2>4, <2>5, <2>6, <2>7, <2>8, <2>9, <2>10, <2>b, PostedKeeps
<1> QED BY <1>3, <1>4, <1>5 DEF PostOpening

LEMMA PostOwnerCommandKeeps ==
    ASSUME PostingsIInv, NEW c \in Clients, PostOwnerCommand(c)
    PROVE  PostingsIInv'
<1> DEFINE cmd == txn[c].command
           e == [domain |-> cmd.kind, account |-> cmd.account, to |-> None,
                 amount |-> cmd.amount]
           m == EventMovements(e, "original")
           n == EventEntries(e, "original")
           out == Applied(cmd, m, n, e)
<1>1. txn[c].pc = "post" /\ cmd.kind \in OwnerKinds /\ cmd.kind \in PostingKinds /\ UNCHANGED Books
  BY DEF PostOwnerCommand, Posts, PostingKinds
<1>2. cmd \in Command /\ cmd.account \in Accounts /\ cmd.amount \in Int /\ cmd.amount > 0
  BY <1>1, PostingFacts, CommandFields, PostingsAssumption
<1>3. CASE Reject(c) BY <1>1, <1>3, RejectKeeps
<1>4. CASE ~(cmd.kind = "owner_reimbursement" /\ cmd.amount > liability) /\ Decide(c, out)
  <2>1. e \in Event /\ e.account = cmd.account /\ e.to = None /\ e.domain = cmd.kind
        /\ e.amount = cmd.amount
    BY <1>1, <1>2 DEF Event, Domains
  <2> HIDE DEF e
  <2>2. WholeEvent(e) BY <1>1, <2>1 DEF WholeEvent, OwnerKinds
  <2>3. /\ m \in Seq(Movement)
        /\ \A i \in DOMAIN m : m[i].account = cmd.account
    BY <2>1, <2>2, EventMovementFacts DEF Phases
  <2>4. n \in Seq(Entry) /\ Owed(n) = LiabilityFactor(cmd.kind) * cmd.amount
    BY <1>1, <2>1, EventEntryFacts DEF Phases
  <2>a. e # None /\ \A a : Moved(m, a) = Worth(e, a) /\ Worth(e, a) \in Int
    BY <2>1, <2>2, EventMoves, NoneAssumption DEF Phases
  <2> HIDE DEF m, n
  <2>5. /\ out \in Outcome /\ out.command = cmd /\ out.status = "applied"
        /\ out.movements = m /\ out.entries = n /\ out.event = e
    BY <1>2, <2>1, <2>3, <2>4, AppliedFacts
  <2> HIDE DEF out
  <2>6. Affected(operation, cmd) = {cmd.account} BY <1>1 DEF Affected, OwnerKinds, Corrections
  <2>7. SerializesLiability(cmd) <=> cmd.kind = "owner_reimbursement"
    BY <1>1 DEF SerializesLiability, Corrections, OwnerKinds
  <2>8. LiabilityFactor(cmd.kind) * cmd.amount =
          (CASE cmd.kind = "owner_loan" -> cmd.amount
             [] cmd.kind = "owner_reimbursement" -> -cmd.amount
             [] OTHER -> 0)
    BY <1>2, FactorFacts
  <2>9. IF SerializesLiability(cmd)
        THEN liability + Owed(out.entries) >= 0 ELSE Owed(out.entries) >= 0
    BY <1>2, <1>4, <2>4, <2>5, <2>7, <2>8, Types
  <2>10. \A a \in Accounts : ~Opens(out, a) BY <1>1, <2>5 DEF Opens, OwnerKinds
  <2>11. WholeOutcome(out) BY <2>2, <2>5 DEF WholeOutcome
  <2>b. Balanced(out, operation) BY <1>1, <2>a, <2>5 DEF Balanced, OwnerKinds, Corrections
  <2> QED BY <1>1, <1>4, <2>3, <2>5, <2>6, <2>9, <2>10, <2>11, <2>b, PostedKeeps
<1> QED BY <1>3, <1>4 DEF PostOwnerCommand

LEMMA PostTransferKeeps ==
    ASSUME PostingsIInv, NEW c \in Clients, PostTransfer(c)
    PROVE  PostingsIInv'
<1> DEFINE cmd == txn[c].command
           e == [domain |-> "internal_transfer", account |-> cmd.account, to |-> cmd.to,
                 amount |-> cmd.amount]
           m == EventMovements(e, "original")
           out == Applied(cmd, m, <<>>, e)
<1>1. txn[c].pc = "post" /\ cmd.kind = "internal_transfer" /\ cmd.kind \in PostingKinds /\ UNCHANGED Books
  BY DEF PostTransfer, Posts, PostingKinds
<1>2. cmd \in Command /\ cmd.account \in Accounts /\ cmd.to \in Accounts /\ cmd.amount \in Int
  BY <1>1, PostingFacts, CommandFields, PostingsAssumption
<1>3. CASE Reject(c) BY <1>1, <1>3, RejectKeeps
<1>4. CASE Decide(c, out)
  <2>1. e \in Event /\ e.account = cmd.account /\ e.to = cmd.to
    BY <1>2 DEF Event, Domains
  <2> HIDE DEF e
  <2>2. WholeEvent(e) BY <1>2, <2>1 DEF WholeEvent
  <2>3. /\ m \in Seq(Movement)
        /\ \A i \in DOMAIN m : m[i].account \in {cmd.account, cmd.to}
    BY <2>1, <2>2, EventMovementFacts DEF Phases
  <2>a. e # None /\ \A a : Moved(m, a) = Worth(e, a) /\ Worth(e, a) \in Int
    BY <2>1, <2>2, EventMoves, NoneAssumption DEF Phases
  <2> HIDE DEF m
  <2>4. /\ out \in Outcome /\ out.command = cmd /\ out.status = "applied"
        /\ out.movements = m /\ out.entries = <<>> /\ out.event = e
    BY <1>2, <2>1, <2>3, AppliedWithoutEntries
  <2> HIDE DEF out
  <2>5. Affected(operation, cmd) = {cmd.account, cmd.to} BY <1>1 DEF Affected, OwnerKinds, Corrections
  <2>6. ~SerializesLiability(cmd) BY <1>1 DEF SerializesLiability, Corrections
  <2>7. Owed(out.entries) >= 0 BY <2>4, NoRows
  <2>8. \A a \in Accounts : ~Opens(out, a) BY <1>1, <2>4 DEF Opens
  <2>9. WholeOutcome(out) BY <2>2, <2>4 DEF WholeOutcome
  <2>b. Balanced(out, operation) BY <1>1, <2>a, <2>4 DEF Balanced, OwnerKinds, Corrections
  <2> QED BY <1>1, <1>4, <2>3, <2>4, <2>5, <2>6, <2>7, <2>8, <2>9, <2>b, PostedKeeps
<1> QED BY <1>3, <1>4 DEF PostTransfer

LEMMA PostCorrectionKeeps ==
    ASSUME PostingsIInv, NEW c \in Clients, PostCorrection(c)
    PROVE  PostingsIInv'
<1> DEFINE cmd == txn[c].command
           e == operation[cmd.target].event
           out == CorrectionOutcome(cmd, e)
<1>1. txn[c].pc = "post" /\ cmd.kind \in Corrections /\ cmd.kind \in PostingKinds /\ UNCHANGED Books
  BY DEF PostCorrection, Posts, PostingKinds
<1>2. cmd \in Command /\ cmd.target \in Operations /\ StandsIn(operation, cmd.target, cmd.domain)
  BY <1>1, PostingFacts, CommandFields
<1>3. CASE Reject(c) BY <1>1, <1>3, RejectKeeps
<1>4. CASE /\ ~(e.domain \in {"owner_loan", "owner_reimbursement"} /\ ProjectedLiability(cmd, e) < 0)
           /\ Decide(c, out)
  <2>1. operation[cmd.target] \in Outcome /\ operation[cmd.target] # None
    BY <1>2, Types DEF StandsIn, AppliedIn
  <2>2. e \in Event /\ e # None /\ e.domain = cmd.domain
    BY <1>2, <2>1 DEF StandsIn, Outcome
  <2>3. WholeEvent(e)
    BY <1>2, <2>1, <2>2 DEF PostingsIInv, Recorded, WholeOutcome
  <2>4. Affected(operation, cmd) = {e.account, e.to, cmd.account, cmd.to} \ {None}
    BY <1>1 DEF Affected, Corrections, OwnerKinds
  <2>5. ProjectedLiability(cmd, e) = liability + Owed(out.entries) BY DEF ProjectedLiability
  <2> HIDE DEF e
  <2>6. /\ out \in Outcome /\ out.command = cmd /\ out.status = "applied" /\ WholeOutcome(out)
        /\ \A i \in DOMAIN out.movements :
             out.movements[i].account \in {e.account, e.to, cmd.account, cmd.to} \ {None}
        /\ e.domain \notin {"owner_loan", "owner_reimbursement"} => Owed(out.entries) = 0
        /\ \A a : Moved(out.movements, a) =
                   (IF out.event # None THEN Worth(out.event, a) ELSE 0) - Worth(e, a)
    BY <1>1, <1>2, <2>2, <2>3, CorrectionFacts
  <2>b. Balanced(out, operation) BY <1>1, <2>6 DEF Balanced, e
  <2> HIDE DEF out
  <2>7. Owed(out.entries) \in Int BY <2>6, OwedFacts DEF Outcome
  <2>8. SerializesLiability(cmd) <=> cmd.domain \in {"owner_loan", "owner_reimbursement"}
    BY <1>1 DEF SerializesLiability, Corrections
  <2>9. IF SerializesLiability(cmd)
        THEN liability + Owed(out.entries) >= 0 ELSE Owed(out.entries) >= 0
    BY <1>4, <2>2, <2>5, <2>6, <2>7, <2>8, Types
  <2>10. \A a \in Accounts : ~Opens(out, a) BY <1>1, <2>6 DEF Opens, Corrections
  <2> QED BY <1>1, <1>4, <2>4, <2>6, <2>9, <2>10, <2>b, PostedKeeps
<1> QED BY <1>3, <1>4 DEF PostCorrection

LEMMA PostUncostedKeeps ==
    ASSUME PostingsIInv, NEW c \in Clients, PostUncosted(c)
    PROVE  PostingsIInv'
<1>1. txn[c].pc = "post" /\ txn[c].command.kind \in PostingKinds \ Corrections /\ UNCHANGED Books
      /\ Decide(c, Applied(txn[c].command, <<>>, <<>>, None))
  BY DEF PostUncosted, Posts, PostingKinds, Corrections
<1> QED BY <1>1, NothingPosted

-----------------------------------------------------------------------------
\* A refusal with nothing to roll back.
LEMMA RefusedKeeps ==
    ASSUME PostingsIInv, NEW c \in Clients, Decide(c, Rejected(txn[c].command)), UNCHANGED Books,
           txn[c].pc \in {"post", "lifecycle"}
    PROVE  PostingsIInv'
<1> DEFINE out == Rejected(txn[c].command)
<1>1. txn[c].command \in Command BY UnderWay
<1>2. /\ out \in Outcome /\ out.command = txn[c].command /\ out.status = "rejected"
      /\ out.movements = <<>> /\ out.entries = <<>> /\ out.event = None /\ WholeOutcome(out)
  BY <1>1, RejectedFacts
<1>3. Decide(c, out) OBVIOUS
<1> HIDE DEF out
<1>4. liability >= 0 /\ liability \in Int BY Types DEF PostingsIInv, LiabilityNotNegative
<1>5. DOMAIN out.movements = {} /\ Owed(out.entries) = 0 BY <1>2, NoRows
<1>a. Balanced(out, operation) BY <1>2, EmptyBalances
<1>6. Decided(txn[c], out, operation, account, period, uncosted, balance, liability)
  BY <1>2, <1>4, <1>5, <1>a DEF Decided, Opens
<1> QED BY <1>2, <1>3, <1>6, DecideKeeps

\* An outcome without rows that was allowed under the locks it holds.
LEMMA AllowedKeeps ==
    ASSUME PostingsIInv, NEW c \in Clients,
           Decide(c, Applied(txn[c].command, <<>>, <<>>, None)), UNCHANGED Books,
           txn[c].pc = "post", txn[c].command.kind \in {"archive", "restore", "create", "close"},
           txn[c].command.kind = "archive" =>
             txn[c].command.account \in txn[c].accounts /\ balance[txn[c].command.account] = 0,
           txn[c].command.kind = "close" =>
             /\ txn[c].period = "exclusive"
             /\ period[txn[c].command.period].status = "open" =>
                  txn[c].command.period \notin uncosted
    PROVE  PostingsIInv'
<1> DEFINE out == Applied(txn[c].command, <<>>, <<>>, None)
<1>1. txn[c].command \in Command BY UnderWay
<1>2. /\ out \in Outcome /\ out.command = txn[c].command
      /\ out.movements = <<>> /\ out.entries = <<>> /\ out.event = None
  BY <1>1 DEF Applied, Outcome
<1>3. Decide(c, out) OBVIOUS
<1> HIDE DEF out
<1>4. liability >= 0 /\ liability \in Int BY Types DEF PostingsIInv, LiabilityNotNegative
<1>5. DOMAIN out.movements = {} /\ Owed(out.entries) = 0 BY <1>2, NoRows
<1>6. txn[c].command.kind \notin Corrections \cup {"uncosted"} BY DEF Corrections
<1>a. Balanced(out, operation) BY <1>2, <1>6, EmptyBalances
<1>7. Decided(txn[c], out, operation, account, period, uncosted, balance, liability)
  BY <1>2, <1>4, <1>5, <1>6, <1>a DEF Decided, Opens
<1>8. WholeOutcome(out) BY <1>2 DEF WholeOutcome
<1> QED BY <1>2, <1>3, <1>7, <1>8, DecideKeeps

LEMMA LockLifecycleKeeps ==
    ASSUME PostingsIInv, NEW c \in Clients, LockLifecycle(c)
    PROVE  PostingsIInv'
<1> DEFINE q == txn[c]
           cmd == q.command
           a == cmd.account
           t == [q EXCEPT !.pc = "post", !.accounts = {a}]
<1>1. /\ q \in TransactionRow /\ Shape(q)
      /\ Kept(q, operation, account, period, uncosted, balance, liability)
      /\ \A d \in Clients \ {c} : Apart(txn[d], q) /\ Shape(txn[d])
      /\ q.pc = "lifecycle" /\ q.command \in Command /\ UNCHANGED Books
      /\ cmd.kind \in {"archive", "restore"}
  BY UnderWay DEF LockLifecycle, Shape
<1>2. CASE Decide(c, Rejected(cmd)) BY <1>1, <1>2, RefusedKeeps
<1>3. CASE account[a].status # "absent"
           /\ txn' = [txn EXCEPT ![c].pc = "post", ![c].accounts = {a}]
  <2>1. txn' = [txn EXCEPT ![c] = t] BY <1>3, Types
  <2>2. UNCHANGED <<operation, account, period, uncosted, balance, liability>>
        /\ conflicts' \subseteq Operations
    BY <1>1, Types DEF Books
  <2>3. a \in Accounts BY <1>1, CommandFields
  <2>4. t \in TransactionRow BY <1>1, <2>3 DEF TransactionRow, Steps
  <2>5. /\ t.pc = "post" /\ t.target = q.target /\ t.period = q.period
        /\ t.provisions = q.provisions /\ t.accounts = {a} /\ t.command = cmd
        /\ t.store = q.store /\ t.claimed = q.claimed /\ t.cash = q.cash
    BY <1>1 DEF TransactionRow
  <2> HIDE DEF t
  <2>6. Shape(t) BY <1>1, <2>5 DEF Shape, PostingKinds, OwnerKinds, Corrections
  <2>7. Kept(t, operation, account, period, uncosted, balance, liability)
    BY <1>1, <1>3, <2>5 DEF Kept, PostingKinds, OwnerKinds, Corrections
  <2>8. \A d \in Clients \ {c} : a \notin txn[d].accounts
    BY DEF LockLifecycle, AccountFree, Others
  <2>9. q.accounts = {} BY <1>1 DEF Shape
  <2>10. \A d \in Clients \ {c} : Apart(txn[d], t) BY <1>1, <2>5, <2>8, <2>9 DEF Apart
  <2> QED BY <2>1, <2>2, <2>4, <2>6, <2>7, <2>10, OneClientMoves
<1> QED BY <1>2, <1>3 DEF LockLifecycle

LEMMA PostLifecycleKeeps ==
    ASSUME PostingsIInv, NEW c \in Clients, PostLifecycle(c)
    PROVE  PostingsIInv'
<1> DEFINE cmd == txn[c].command
<1>1. /\ txn[c].pc = "post" /\ cmd.kind \in {"archive", "restore"} /\ UNCHANGED Books
      /\ cmd \in Command /\ Shape(txn[c])
  BY UnderWay DEF PostLifecycle, Posts
<1>2. CASE Decide(c, Rejected(cmd)) BY <1>1, <1>2, RefusedKeeps
<1>3. CASE LifecycleAllowed(cmd) /\ Decide(c, Applied(cmd, <<>>, <<>>, None))
  <2>1. cmd.account \in txn[c].accounts /\ cmd.account \in Accounts
    BY <1>1, CommandFields DEF Shape
  <2>2. cmd.kind = "archive" => balance[cmd.account] = 0
    <3>1. account[cmd.account].status \in {"absent", "active", "archived"}
      BY <2>1, Types DEF AccountRow
    <3>2. account[cmd.account].status = "archived" => balance[cmd.account] = 0
      BY <2>1 DEF PostingsIInv, ArchivedIsEmpty
    <3>3. account[cmd.account].status # "absent"
      BY <1>1, UnderWay DEF Kept
    <3> QED BY <1>3, <3>1, <3>2, <3>3 DEF LifecycleAllowed
  <2> QED BY <1>1, <1>3, <2>1, <2>2, AllowedKeeps
<1> QED BY <1>2, <1>3 DEF PostLifecycle

LEMMA LockCashKeeps ==
    ASSUME PostingsIInv, NEW c \in Clients, LockCash(c)
    PROVE  PostingsIInv'
<1> DEFINE q == txn[c]
           cmd == q.command
           t == [q EXCEPT !.pc = "post", !.cash = TRUE]
<1>1. /\ q \in TransactionRow /\ Shape(q)
      /\ Kept(q, operation, account, period, uncosted, balance, liability)
      /\ \A d \in Clients \ {c} : Apart(txn[d], q) /\ Shape(txn[d])
      /\ q.pc = "cash" /\ q.command \in Command /\ UNCHANGED Books /\ cmd.kind = "create"
  BY UnderWay DEF LockCash, Shape
<1>2. txn' = [txn EXCEPT ![c] = t] BY Types DEF LockCash
<1>3. UNCHANGED <<operation, account, period, uncosted, balance, liability>>
      /\ conflicts' \subseteq Operations
  BY <1>1, Types DEF Books
<1>4. t \in TransactionRow BY <1>1 DEF TransactionRow, Steps
<1>5. /\ t.pc = "post" /\ t.target = q.target /\ t.period = q.period
      /\ t.provisions = q.provisions /\ t.accounts = q.accounts /\ t.command = cmd
      /\ t.store = q.store /\ t.claimed = q.claimed
  BY <1>1 DEF TransactionRow
<1> HIDE DEF t
<1>6. Shape(t) BY <1>1, <1>5 DEF Shape, PostingKinds, OwnerKinds, Corrections
<1>7. Kept(t, operation, account, period, uncosted, balance, liability)
  BY <1>1, <1>5 DEF Kept, PostingKinds, OwnerKinds, Corrections
<1>8. \A d \in Clients \ {c} : Apart(txn[d], t) BY <1>1, <1>5 DEF Apart
<1> QED BY <1>2, <1>3, <1>4, <1>6, <1>7, <1>8, OneClientMoves

LEMMA PostCreateKeeps ==
    ASSUME PostingsIInv, NEW c \in Clients, PostCreate(c)
    PROVE  PostingsIInv'
<1>1. txn[c].pc = "post" /\ txn[c].command.kind = "create" /\ UNCHANGED Books
  BY DEF PostCreate, Posts
<1>2. CASE Decide(c, Rejected(txn[c].command)) BY <1>1, <1>2, RefusedKeeps
<1>3. CASE Decide(c, Applied(txn[c].command, <<>>, <<>>, None)) BY <1>1, <1>3, AllowedKeeps
<1> QED BY <1>2, <1>3 DEF PostCreate

LEMMA LockClosingKeeps ==
    ASSUME PostingsIInv, NEW c \in Clients, LockClosing(c)
    PROVE  PostingsIInv'
<1> DEFINE q == txn[c]
           cmd == q.command
           p == cmd.period
           mode == IF period[p].status = "absent" THEN "none" ELSE "exclusive"
           t == [q EXCEPT !.pc = "post", !.period = mode]
<1>1. /\ q \in TransactionRow /\ Shape(q)
      /\ Kept(q, operation, account, period, uncosted, balance, liability)
      /\ \A d \in Clients \ {c} : Apart(txn[d], q) /\ Shape(txn[d])
      /\ q.pc = "closing" /\ q.command \in Command /\ UNCHANGED Books /\ cmd.kind = "close"
  BY UnderWay DEF LockClosing, Shape
<1>2. txn' = [txn EXCEPT ![c] = t] BY Types DEF LockClosing
<1>3. UNCHANGED <<operation, account, period, uncosted, balance, liability>>
      /\ conflicts' \subseteq Operations
  BY <1>1, Types DEF Books
<1>4. \A d \in Clients \ {c} :
        mode # "none" => ~(txn[d].period # "none" /\ txn[d].command.period = p)
  BY DEF LockClosing, PeriodFree, Others
<1>5. mode \in {"none", "exclusive"} OBVIOUS
<1> HIDE DEF mode
<1>6. t \in TransactionRow BY <1>1, <1>5 DEF TransactionRow, Steps, Locks
<1>7. /\ t.pc = "post" /\ t.target = q.target /\ t.period = mode
      /\ t.provisions = q.provisions /\ t.accounts = q.accounts /\ t.command = cmd
      /\ t.store = q.store /\ t.claimed = q.claimed /\ t.cash = q.cash
  BY <1>1 DEF TransactionRow
<1> HIDE DEF t
<1>8. q.target = FALSE /\ q.provisions = FALSE /\ q.accounts = {} /\ q.cash = FALSE
  BY <1>1, RowFields DEF Shape
<1>9. Shape(t) BY <1>1, <1>5, <1>7, <1>8 DEF Shape, PostingKinds, OwnerKinds, Corrections
<1>10. Kept(t, operation, account, period, uncosted, balance, liability)
  BY <1>1, <1>5, <1>7, <1>8 DEF Kept, PostingKinds, OwnerKinds, Corrections
<1>11. \A d \in Clients \ {c} : Apart(txn[d], t) BY <1>1, <1>4, <1>5, <1>7 DEF Apart
<1> QED BY <1>2, <1>3, <1>6, <1>9, <1>10, <1>11, OneClientMoves

LEMMA PostCloseKeeps ==
    ASSUME PostingsIInv, NEW c \in Clients, PostClose(c)
    PROVE  PostingsIInv'
<1> DEFINE cmd == txn[c].command
<1>1. txn[c].pc = "post" /\ cmd.kind = "close" /\ UNCHANGED Books
  BY DEF PostClose, Posts
<1>2. CASE Decide(c, Rejected(cmd)) BY <1>1, <1>2, RefusedKeeps
<1>3. CASE txn[c].period = "exclusive" /\ CloseAllowed(cmd)
           /\ Decide(c, Applied(cmd, <<>>, <<>>, None))
  BY <1>1, <1>3, AllowedKeeps DEF CloseAllowed, HasCloseBlocker
<1> QED BY <1>2, <1>3 DEF PostClose

-----------------------------------------------------------------------------
\* What a commit writes, table by table.
LEMMA CommitFacts ==
    ASSUME PostingsIInv, NEW c \in Clients, Commit(c)
    PROVE  LET q == txn[c]
               out == q.outcome IN
           /\ q \in TransactionRow /\ Shape(q) /\ q.pc = "commit" /\ q.claimed
           /\ Kept(q, operation, account, period, uncosted, balance, liability)
           /\ Decided(q, out, operation, account, period, uncosted, balance, liability)
           /\ q.command \in Command /\ out \in Outcome /\ out.command = q.command /\ WholeOutcome(out)
           /\ out.movements \in Seq(Movement) /\ out.entries \in Seq(Entry)
           /\ \A d \in Clients \ {c} : Apart(txn[d], q) /\ Shape(txn[d])
           /\ txn' = [txn EXCEPT ![c] = Idle]
<1> DEFINE q == txn[c]
<1>1. /\ q \in TransactionRow /\ Shape(q) /\ q.pc = "commit"
      /\ Kept(q, operation, account, period, uncosted, balance, liability)
      /\ \A d \in Clients \ {c} : Apart(txn[d], q) /\ Shape(txn[d])
      /\ q.command \in Command /\ txn' = [txn EXCEPT ![c] = Idle]
  BY UnderWay DEF Commit
<1>2. /\ q.claimed /\ q.outcome \in Outcome /\ q.outcome.command = q.command
      /\ WholeOutcome(q.outcome)
  BY <1>1 DEF Shape
<1>3. Decided(q, q.outcome, operation, account, period, uncosted, balance, liability)
  BY <1>1 DEF Kept
<1>4. q.outcome.movements \in Seq(Movement) /\ q.outcome.entries \in Seq(Entry)
  BY <1>2 DEF Outcome
<1> QED BY <1>1, <1>2, <1>3, <1>4

LEMMA CommitOperation ==
    ASSUME PostingsIInv, NEW c \in Clients, Commit(c)
    PROVE  LET o == txn[c].command.op IN
           /\ o \in Operations /\ operation[o] = None /\ operation'[o] = txn[c].outcome
           /\ \A r \in Operations \ {o} : operation'[r] = operation[r]
           /\ operation' \in [Operations -> Outcome \cup {None}]
<1> DEFINE q == txn[c]
<1>1. /\ q.command \in Command /\ q.outcome \in Outcome /\ q.outcome.command = q.command
      /\ q.claimed /\ Kept(q, operation, account, period, uncosted, balance, liability)
  BY CommitFacts
<1>2. q.command.op \in Operations /\ operation[q.command.op] = None
  BY <1>1, CommandFields DEF Kept
<1>3. operation' = [operation EXCEPT ![q.command.op] = q.outcome] BY <1>1 DEF Commit
<1> QED BY <1>1, <1>2, <1>3, Types

LEMMA RowTurned ==
    ASSUME NEW x \in AccountRow, NEW y \in {"archived", "active"}
    PROVE  LET row == [x EXCEPT !.status = y, !.version = x.version + 1] IN
           row \in AccountRow /\ row.status = y
<1>1. x.version + 1 \in Nat BY DEF AccountRow
<1> QED BY <1>1 DEF AccountRow

LEMMA CommitAccount ==
    ASSUME PostingsIInv, NEW c \in Clients, Commit(c)
    PROVE  LET q == txn[c]
               cmd == q.command IN
           /\ account' \in [Accounts -> AccountRow]
           /\ \A a \in Accounts :
                \/ account'[a].status = account[a].status
                \/ account'[a].status = "active"
                \/ /\ account'[a].status = "archived" /\ q.outcome.status = "applied"
                   /\ cmd.kind = "archive" /\ a = cmd.account
<1> DEFINE q == txn[c]
           cmd == q.command
           out == q.outcome
<1>1. cmd \in Command /\ out.command = cmd /\ account' = AccountsAfter(out)
  BY CommitFacts DEF Commit
<1>2. CASE out.status = "applied" /\ cmd.kind = "create"
  <2> DEFINE row == [status |-> "active", name |-> cmd.name, version |-> 1]
  <2>1. row \in AccountRow /\ row.status = "active" /\ cmd.account \in Accounts
    BY <1>1, <1>2, CommandFields DEF AccountRow
  <2>2. account' = [account EXCEPT ![cmd.account] = row]
    BY <1>1, <1>2 DEF AccountsAfter
  <2> HIDE DEF row
  <2> QED BY <2>1, <2>2, Types
<1>3. CASE out.status = "applied" /\ cmd.kind \in {"archive", "restore"}
           /\ account[cmd.account].status # TargetStatus(cmd)
  <2> DEFINE row == [account[cmd.account] EXCEPT !.status = TargetStatus(cmd),
                                                 !.version = account[cmd.account].version + 1]
  <2>1. cmd.account \in Accounts /\ account[cmd.account] \in AccountRow
    BY <1>1, <1>3, CommandFields, Types
  <2>2. row \in AccountRow /\ row.status = TargetStatus(cmd)
    <3>1. TargetStatus(cmd) \in {"archived", "active"} BY DEF TargetStatus
    <3> QED BY <2>1, <3>1, RowTurned
  <2>3. account' = [account EXCEPT ![cmd.account] = row]
    BY <1>1, <1>3, <2>1, Types DEF AccountsAfter
  <2> HIDE DEF row
  <2> QED BY <1>3, <2>1, <2>2, <2>3, Types DEF TargetStatus
<1>4. CASE account' = account BY <1>4, Types
<1> QED BY <1>1, <1>2, <1>3, <1>4 DEF AccountsAfter

LEMMA CommitPeriod ==
    ASSUME PostingsIInv, NEW c \in Clients, Commit(c)
    PROVE  LET q == txn[c]
               cmd == q.command IN
           /\ period' \in [Periods -> PeriodRow]
           /\ \A p \in Periods :
                \/ period'[p] = period[p]
                \/ /\ p = cmd.period /\ q.provisions /\ q.period = "share"
                   /\ period[p].status = "absent" /\ period'[p].status = "open"
                \/ /\ p = cmd.period /\ q.outcome.status = "applied" /\ cmd.kind = "close"
                   /\ q.period = "exclusive" /\ p \notin uncosted
                   /\ period[p].status = "open" /\ period'[p].status = "closed"
<1> DEFINE q == txn[c]
           cmd == q.command
           out == q.outcome
<1>1. cmd \in Command /\ out.command = cmd /\ period' = PeriodsAfter(c, out)
  BY CommitFacts DEF Commit
<1>2. CASE q.provisions
  <2> DEFINE row == [status |-> "open", version |-> 1]
  <2>1. q.period = "share" /\ cmd.kind \in PostingKinds /\ period[cmd.period].status = "absent"
    BY <1>2, CommitFacts DEF Shape, Kept
  <2>2. row \in PeriodRow /\ row.status = "open" /\ cmd.period \in Periods
    BY <1>1, <2>1, CommandFields DEF PeriodRow
  <2>3. period' = [period EXCEPT ![cmd.period] = row]
    <3>1. cmd.kind # "close" BY <2>1 DEF PostingKinds, OwnerKinds, Corrections
    <3>2. PeriodsAfter(c, out) = [period EXCEPT ![cmd.period] = row]
      BY <1>1, <1>2, <3>1 DEF PeriodsAfter
    <3> QED BY <1>1, <3>2
  <2> HIDE DEF row
  <2> QED BY <1>2, <2>1, <2>2, <2>3, Types
<1>3. CASE ~q.provisions /\ out.status = "applied" /\ cmd.kind = "close"
           /\ period[cmd.period].status = "open"
  <2> DEFINE row == [status |-> "closed", version |-> period[cmd.period].version + 1]
  <2>1. cmd.period \in Periods /\ period[cmd.period] \in PeriodRow
    BY <1>1, <1>3, CommandFields, Types
  <2>2. row \in PeriodRow /\ row.status = "closed"
    BY <2>1 DEF PeriodRow
  <2>3. period' = [period EXCEPT ![cmd.period] = row]
    <3>1. PeriodsAfter(c, out) =
            [period EXCEPT ![cmd.period] = [status |-> "closed", version |-> @.version + 1]]
      BY <1>1, <1>3, Zenon DEF PeriodsAfter
    <3> QED BY <1>1, <2>1, <3>1, Types
  <2>4. q.period = "exclusive" /\ cmd.period \notin uncosted
    BY <1>3, CommitFacts DEF Decided
  <2> HIDE DEF row
  <2> QED BY <1>3, <2>1, <2>2, <2>3, <2>4, Types
<1>4. CASE period' = period BY <1>4, Types
<1> QED BY <1>1, <1>2, <1>3, <1>4 DEF PeriodsAfter

LEMMA CommitBooks ==
    ASSUME PostingsIInv, NEW c \in Clients, Commit(c)
    PROVE  LET q == txn[c]
               cmd == q.command IN
           /\ uncosted' \subseteq Periods
           /\ \A p \in uncosted' : p \in uncosted \/ (p = cmd.period /\ q.period = "share")
           /\ balance' \in [Accounts -> Int]
           /\ \A a \in Accounts : (account[a].status # "active" \/ a \notin q.accounts) =>
                balance'[a] = balance[a]
           /\ liability' = liability + Owed(q.outcome.entries)
           /\ Owed(q.outcome.entries) \in Int /\ liability' \in Int
           /\ liability' >= 0
<1> DEFINE q == txn[c]
           cmd == q.command
           out == q.outcome
<1>1. /\ cmd \in Command /\ out.command = cmd /\ out.movements \in Seq(Movement)
      /\ out.entries \in Seq(Entry) /\ Shape(q)
      /\ Decided(q, out, operation, account, period, uncosted, balance, liability)
  BY CommitFacts
<1>2. /\ uncosted' \subseteq Periods
      /\ \A p \in uncosted' : p \in uncosted \/ (p = cmd.period /\ q.period = "share")
  <2>1. (out.status = "applied" /\ cmd.kind = "uncosted") =>
          q.period = "share" /\ cmd.period \in Periods
    BY <1>1, CommandFields DEF Decided, PostingKinds
  <2>2. uncosted' = IF out.status = "applied" /\ cmd.kind = "uncosted"
                    THEN uncosted \cup {cmd.period} ELSE uncosted
    BY <1>1 DEF Commit
  <2> QED BY <2>1, <2>2, Types
<1>3. balance' = [a \in Accounts |-> balance[a] + Moved(out.movements, a)] BY DEF Commit
<1>4. \A a \in Accounts :
        /\ Moved(out.movements, a) \in Int /\ balance[a] \in Int
        /\ (account[a].status # "active" \/ a \notin q.accounts) => Moved(out.movements, a) = 0
  BY <1>1, MovedFacts, Types DEF Decided
<1>5. liability' = liability + Owed(out.entries) BY DEF Commit
<1>6. Owed(out.entries) \in Int /\ liability \in Int /\ liability >= 0
  BY <1>1, OwedFacts, Types DEF PostingsIInv, LiabilityNotNegative
<1>7. liability' >= 0
  BY <1>1, <1>5, <1>6 DEF Decided
<1>8. balance' \in [Accounts -> Int] BY <1>3, <1>4
<1>9. \A a \in Accounts : (account[a].status # "active" \/ a \notin q.accounts) =>
        balance'[a] = balance[a]
  BY <1>3, <1>4
<1> QED BY <1>2, <1>5, <1>6, <1>7, <1>8, <1>9

\* What is recorded stays consistent: the operation was claimed, its target and the accounts it
\* opens are locked.
LEMMA CommitRecords ==
    ASSUME PostingsIInv, NEW c \in Clients, Commit(c)
    PROVE  Recorded(operation)'
<1> DEFINE q == txn[c]
           out == q.outcome
           w == q.command.op
           new == operation'
<1>1. /\ Shape(q) /\ out.command = q.command /\ WholeOutcome(out)
      /\ Kept(q, operation, account, period, uncosted, balance, liability)
      /\ Decided(q, out, operation, account, period, uncosted, balance, liability)
  BY CommitFacts
<1>2. /\ w \in Operations /\ operation[w] = None /\ new[w] = out
      /\ \A r \in Operations \ {w} : new[r] = operation[r]
  BY CommitOperation
<1>3. Recorded(operation) BY DEF PostingsIInv
<1>4. \A o \in Operations : new[o] # None => WholeOutcome(new[o])
  BY <1>1, <1>2, <1>3 DEF Recorded
<1> HIDE DEF new
<1>5. \A r, o \in Operations : (r # w /\ Corrects(new, r, o)) => Corrects(operation, r, o)
  BY <1>2 DEF Corrects, AppliedIn
<1>6. \A o \in Operations : Corrects(new, w, o) =>
        /\ o = q.command.target /\ StandsIn(operation, o, q.command.domain)
  BY <1>1, <1>2 DEF Corrects, AppliedIn, Decided, Kept
<1>7. \A o \in Operations : AppliedIn(operation, o) =>
        o # w /\ AppliedIn(new, o) /\ new[o] = operation[o]
  BY <1>2 DEF AppliedIn
<1>8. ASSUME NEW o \in Operations, NEW r \in Operations, Corrects(new, r, o)
      PROVE  /\ AppliedIn(new, o) /\ new[o].event # None
             /\ \A s \in Operations : Corrects(new, s, o) => s = r
  <2>1. CASE r = w
    <3>1. StandsIn(operation, o, q.command.domain) BY <1>6, <1>8, <2>1
    <3>2. /\ AppliedIn(operation, o) /\ operation[o].event # None
          /\ \A s \in Operations : ~Corrects(operation, s, o)
      BY <3>1 DEF StandsIn
    <3> QED BY <1>5, <1>7, <2>1, <3>2
  <2>2. CASE r # w
    <3>1. Corrects(operation, r, o) BY <1>5, <1>8, <2>2
    <3>2. /\ AppliedIn(operation, o) /\ operation[o].event # None
          /\ \A s \in Operations : Corrects(operation, s, o) => s = r
      BY <1>3, <3>1 DEF Recorded
    <3>3. ~Corrects(new, w, o) BY <1>6, <3>1 DEF StandsIn
    <3> QED BY <1>5, <1>7, <3>2, <3>3
  <2> QED BY <2>1, <2>2
<1>9. ASSUME NEW o \in Operations, NEW r \in Operations, NEW a \in Accounts,
             new[o] # None, new[r] # None, Opens(new[o], a), Opens(new[r], a)
      PROVE  o = r
  <2>1. Opens(out, a) => \A s \in Operations : operation[s] # None => ~Opens(operation[s], a)
    BY <1>1 DEF Decided
  <2>2. CASE o # w /\ r # w BY <1>2, <1>3, <1>9, <2>2 DEF Recorded
  <2>3. CASE o = w \/ r = w BY <1>2, <1>9, <2>1, <2>3
  <2> QED BY <2>2, <2>3
<1>10. Recorded(new) BY <1>4, <1>8, <1>9 DEF Recorded
<1> QED BY <1>10 DEF new, Recorded, Corrects, AppliedIn

\* A balance is moved in an active account only, so what is archived stays empty.
LEMMA CommitEmpties ==
    ASSUME PostingsIInv, NEW c \in Clients, Commit(c)
    PROVE  ArchivedIsEmpty'
<1> DEFINE q == txn[c]
           out == q.outcome
<1>1. /\ out.movements \in Seq(Movement) /\ out.command = q.command /\ Shape(q)
      /\ q.command \in Command
      /\ Decided(q, out, operation, account, period, uncosted, balance, liability)
  BY CommitFacts
<1> SUFFICES ASSUME NEW a \in Accounts, account'[a].status = "archived"
             PROVE  balance'[a] = 0
  BY DEF ArchivedIsEmpty
<1>2. CASE account[a].status = "archived"
  BY <1>2, CommitBooks DEF PostingsIInv, ArchivedIsEmpty
<1>3. CASE out.status = "applied" /\ q.command.kind = "archive" /\ a = q.command.account
  <2>1. balance[a] = 0 BY <1>1, <1>3 DEF Decided
  <2>2. q.period # "share"
    BY <1>1, <1>3 DEF Shape, PostingKinds, OwnerKinds, Corrections
  <2>3. out.movements = <<>> BY <1>1, <2>2 DEF Decided
  <2>4. balance' = [x \in Accounts |-> balance[x] + Moved(out.movements, x)] BY DEF Commit
  <2>5. Moved(out.movements, a) = 0 BY <2>3, NoRows
  <2> QED BY <2>1, <2>4, <2>5
<1> QED BY <1>2, <1>3, CommitAccount

LEMMA CommitCosts ==
    ASSUME PostingsIInv, NEW c \in Clients, Commit(c)
    PROVE  ClosedIsCosted'
<1> DEFINE q == txn[c]
           p0 == q.command.period
<1>1. /\ Shape(q) /\ Kept(q, operation, account, period, uncosted, balance, liability)
  BY CommitFacts
<1>2. q.period = "share" => period[p0].status \in {"absent", "open"} BY <1>1 DEF Kept
<1> SUFFICES ASSUME NEW p \in Periods, period'[p].status = "closed"
             PROVE  p \notin uncosted'
  BY DEF ClosedIsCosted
<1>3. \/ period[p].status = "closed" /\ p \notin uncosted
      \/ q.period = "exclusive" /\ p \notin uncosted /\ p = p0
  BY CommitPeriod DEF PostingsIInv, ClosedIsCosted
<1>4. \A x \in uncosted' : x \in uncosted \/ (x = p0 /\ q.period = "share") BY CommitBooks
<1> QED BY <1>2, <1>3, <1>4

\* The reasons of another transaction still hold: what it has read is under locks of its own.
LEMMA CommitLeavesOthers ==
    ASSUME PostingsIInv, NEW c \in Clients, Commit(c), NEW d \in Clients \ {c}
    PROVE  Kept(txn[d], operation, account, period, uncosted, balance, liability)'
<1> DEFINE q == txn[c]
           out == q.outcome
           w == q.command.op
           t == txn[d]
           cmd == t.command
           op == operation'
           ac == account'
           pe == period'
           un == uncosted'
           ba == balance'
           li == liability'
<1>1. /\ Shape(q) /\ q.pc = "commit" /\ q.claimed /\ out.command = q.command
      /\ Kept(q, operation, account, period, uncosted, balance, liability)
      /\ Decided(q, out, operation, account, period, uncosted, balance, liability)
      /\ Apart(t, q) /\ Shape(t) /\ txn' = [txn EXCEPT ![c] = Idle]
  BY CommitFacts
<1>2. /\ t \in TransactionRow
      /\ Kept(t, operation, account, period, uncosted, balance, liability)
      /\ t.pc # "idle" => cmd \in Command
  BY UnderWay
<1>3. /\ w \in Operations /\ operation[w] = None /\ op[w] = out
      /\ \A r \in Operations \ {w} : op[r] = operation[r]
  BY CommitOperation
<1>4. /\ ac \in [Accounts -> AccountRow]
      /\ \A a \in Accounts :
           \/ ac[a].status = account[a].status
           \/ ac[a].status = "active"
           \/ /\ ac[a].status = "archived" /\ out.status = "applied"
              /\ q.command.kind = "archive" /\ a = q.command.account
  BY CommitAccount
<1>5. \A p \in Periods :
        \/ pe[p] = period[p]
        \/ p = q.command.period /\ q.provisions /\ q.period = "share"
        \/ p = q.command.period /\ q.period = "exclusive"
  BY CommitPeriod
<1>6. /\ \A p \in un : p \in uncosted \/ (p = q.command.period /\ q.period = "share")
      /\ \A a \in Accounts : a \notin q.accounts => ba[a] = balance[a]
  BY CommitBooks
<1>7. txn'[d] = t BY <1>1, Types
<1>8. t.claimed => op[cmd.op] = None
  <2>1. t.claimed => /\ cmd.op \in Operations /\ cmd.op # w /\ operation[cmd.op] = None
    BY <1>1, <1>2, CommandFields DEF Apart, Kept, Shape
  <2> QED BY <1>3, <2>1
<1>9. t.target => /\ cmd.target \in Operations /\ op[cmd.target] = operation[cmd.target]
                  /\ StandsIn(op, cmd.target, cmd.domain)
  <2> SUFFICES ASSUME t.target
               PROVE  /\ cmd.target \in Operations /\ op[cmd.target] = operation[cmd.target]
                      /\ StandsIn(op, cmd.target, cmd.domain)
    OBVIOUS
  <2>1. cmd.target \in Operations BY <1>1, <1>2, CommandFields DEF Shape
  <2>2. StandsIn(operation, cmd.target, cmd.domain) BY <1>2 DEF Kept
  <2>3. op[cmd.target] = operation[cmd.target] BY <1>3, <2>1, <2>2 DEF StandsIn, AppliedIn
  <2>4. ~Corrects(op, w, cmd.target)
    BY <1>1, <1>3 DEF Corrects, AppliedIn, Decided, Apart
  <2> HIDE DEF op
  <2>5. \A r \in Operations : ~Corrects(op, r, cmd.target)
    BY <1>3, <2>2, <2>4 DEF StandsIn, Corrects, AppliedIn
  <2> QED BY <2>1, <2>2, <2>3, <2>5 DEF StandsIn, AppliedIn
<1>10. (cmd.kind \in Corrections => t.target) => Affected(op, cmd) = Affected(operation, cmd)
  BY <1>9 DEF Affected
<1>11. t.period # "none" => /\ cmd.period \in Periods /\ pe[cmd.period] = period[cmd.period]
  <2> SUFFICES ASSUME t.period # "none"
               PROVE  cmd.period \in Periods /\ pe[cmd.period] = period[cmd.period]
    OBVIOUS
  <2>1. t.period \in {"share", "exclusive"} BY <1>2, RowFields DEF Locks
  <2>2. cmd.period \in Periods BY <1>1, <1>2, <2>1, CommandFields DEF Shape
  <2> HIDE DEF pe
  <2> QED BY <1>1, <1>5, <2>1, <2>2 DEF Apart
<1>12. \A a \in Accounts : (a \in t.accounts /\ account[a].status = "active") => ac[a].status = "active"
  <2>1. (out.status = "applied" /\ q.command.kind = "archive") => q.command.account \in q.accounts
    BY <1>1 DEF Decided
  <2> HIDE DEF ac
  <2> QED BY <1>1, <1>4, <2>1 DEF Apart
<1>13. \A a \in Accounts : account[a].status # "absent" => ac[a].status # "absent"
  <2> HIDE DEF ac
  <2> QED BY <1>4
<1>14. t.pc = "commit" => Decided(t, t.outcome, op, ac, pe, un, ba, li)
  <2> SUFFICES ASSUME t.pc = "commit" PROVE Decided(t, t.outcome, op, ac, pe, un, ba, li)
    OBVIOUS
  <2>1. /\ Decided(t, t.outcome, operation, account, period, uncosted, balance, liability)
        /\ t.outcome \in Outcome /\ cmd \in Command
    BY <1>1, <1>2 DEF Kept, Shape
  <2>2. \A i \in DOMAIN t.outcome.movements : t.outcome.movements[i].account \in Accounts
    BY <2>1, MovementFields DEF Outcome
  <2>3. ~SerializesLiability(cmd)
    <3>1. q.store # "none" BY <1>1 DEF Shape, StoreMode
    <3> QED BY <1>1, <3>1 DEF Apart, Shape, StoreMode
  <2> HIDE DEF op, ac, pe, un, ba, li
  <2>a. Balanced(t.outcome, op)
    <3>1. t.outcome.command = cmd /\ Balanced(t.outcome, operation)
      BY <1>1, <2>1 DEF Shape, Decided
    <3>2. (t.outcome.status = "applied" /\ cmd.kind \in Corrections) =>
            op[cmd.target] = operation[cmd.target]
      BY <1>9, <2>1 DEF Decided
    <3> QED BY <3>1, <3>2 DEF Balanced
  <2>4. \A a \in Accounts : Opens(t.outcome, a) =>
          \A o \in Operations : op[o] # None => ~Opens(op[o], a)
    <3> SUFFICES ASSUME NEW a \in Accounts, Opens(t.outcome, a), NEW o \in Operations, op[o] # None
                 PROVE  ~Opens(op[o], a)
      OBVIOUS
    <3>1. a \in t.accounts /\ (operation[o] # None => ~Opens(operation[o], a)) BY <2>1 DEF Decided
    <3>2. Opens(out, a) => a \in q.accounts BY <1>1 DEF Decided
    <3> QED BY <1>1, <1>3, <3>1, <3>2 DEF Apart
  <2>5. (t.outcome.status = "applied" /\ cmd.kind = "archive") =>
          cmd.account \in t.accounts /\ ba[cmd.account] = 0
    BY <1>1, <1>6, <2>1, CommandFields DEF Decided, Apart
  <2>6. (t.outcome.status = "applied" /\ cmd.kind = "close") =>
          t.period = "exclusive" /\ (pe[cmd.period].status = "open" => cmd.period \notin un)
    BY <1>1, <1>6, <1>11, <2>1 DEF Decided, Apart
  <2>7. \A i \in DOMAIN t.outcome.movements :
          LET a == t.outcome.movements[i].account IN a \in t.accounts /\ ac[a].status = "active"
    BY <1>12, <2>1, <2>2 DEF Decided
  <2> QED BY <2>1, <2>3, <2>4, <2>5, <2>6, <2>7, <2>a DEF Decided
<1>15. t.pc \in {"accounts", "post"} /\ cmd.kind \in PostingKinds => (cmd.kind \in Corrections => t.target)
  BY <1>1 DEF Shape
<1>16. t.pc = "accounts" => cmd.kind \in PostingKinds BY <1>1 DEF Shape
<1>17. (t.pc = "post" /\ cmd.kind \in {"archive", "restore"}) => cmd.account \in Accounts
  BY <1>2, CommandFields
<1>18. \A a \in t.accounts : a \in Accounts BY <1>2, RowFields
<1> HIDE DEF op, ac, pe, un, ba, li
<1>19. Kept(t, op, ac, pe, un, ba, li)
  BY <1>2, <1>8, <1>9, <1>10, <1>11, <1>12, <1>13, <1>14, <1>15, <1>16, <1>17, <1>18 DEF Kept
<1> USE DEF op, ac, pe, un, ba, li
<1> QED BY <1>7, <1>19

\* A commit adds the event of its outcome to those that stand, and takes the one it corrects away.
LEMMA CommitStands ==
    ASSUME PostingsIInv, NEW c \in Clients, Commit(c)
    PROVE  LET w == txn[c].command.op
               out == txn[c].outcome
               corrects == out.status = "applied" /\ txn[c].command.kind \in Corrections
               target == txn[c].command.target
               left == IF corrects THEN StandingIn(operation) \ {target} ELSE StandingIn(operation) IN
           /\ w \notin StandingIn(operation)
           /\ corrects => target \in StandingIn(operation)
           /\ StandingIn(operation') = IF out.event # None THEN left \cup {w} ELSE left
           /\ \A o \in StandingIn(operation) : operation'[o] = operation[o]
<1> DEFINE q == txn[c]
           out == q.outcome
           w == q.command.op
           target == q.command.target
           new == operation'
           corrects == out.status = "applied" /\ q.command.kind \in Corrections
<1>1. /\ out.command = q.command /\ out \in Outcome
      /\ Kept(q, operation, account, period, uncosted, balance, liability)
      /\ Decided(q, out, operation, account, period, uncosted, balance, liability)
      /\ q.command \in Command
  BY CommitFacts
<1>2. /\ w \in Operations /\ operation[w] = None /\ new[w] = out /\ out # None
      /\ \A r \in Operations \ {w} : new[r] = operation[r]
  BY <1>1, CommitOperation, NoneAssumption
<1>3. out.event # None => out.status = "applied" BY <1>1 DEF Decided, Balanced
<1>4. corrects => target \in Operations /\ StandsIn(operation, target, q.command.domain)
  BY <1>1, CommandFields DEF Decided, Kept
<1> HIDE DEF new
<1>5. \A r, o \in Operations : r # w => (Corrects(new, r, o) <=> Corrects(operation, r, o))
  BY <1>2 DEF Corrects, AppliedIn
<1>6. \A o \in Operations : Corrects(new, w, o) <=> (corrects /\ o = target)
  BY <1>1, <1>2 DEF Corrects, AppliedIn
<1>7. \A r, o \in Operations : Corrects(operation, r, o) => r # w /\ o # w
  BY <1>2 DEF PostingsIInv, Recorded, Corrects, AppliedIn
<1>8. corrects => target # w BY <1>2, <1>4 DEF StandsIn, AppliedIn
<1>9. w \in StandingIn(new) <=> out.event # None
  BY <1>2, <1>3, <1>5, <1>6, <1>7, <1>8 DEF StandingIn, AppliedIn
<1>10. \A o \in Operations \ {w} :
         o \in StandingIn(new) <=> (o \in StandingIn(operation) /\ ~(corrects /\ o = target))
  BY <1>2, <1>5, <1>6, <1>7 DEF StandingIn, AppliedIn
<1>11. w \notin StandingIn(operation) BY <1>2 DEF StandingIn, AppliedIn
<1>12. corrects => target \in StandingIn(operation) BY <1>4 DEF StandsIn, StandingIn
<1>13. StandingIn(new) \subseteq Operations /\ StandingIn(operation) \subseteq Operations
  BY DEF StandingIn
<1> HIDE DEF corrects
<1>14. StandingIn(new) = IF out.event # None
                         THEN (IF corrects THEN StandingIn(operation) \ {target}
                               ELSE StandingIn(operation)) \cup {w}
                         ELSE IF corrects THEN StandingIn(operation) \ {target}
                              ELSE StandingIn(operation)
  BY <1>2, <1>9, <1>10, <1>11, <1>12, <1>13
<1> QED BY <1>2, <1>11, <1>12, <1>13, <1>14 DEF new, corrects

\* The worth of what stands is a number.
LEMMA StandingWorth ==
    ASSUME PostingsIInv, NEW a
    PROVE  \A o \in StandingIn(operation) :
             Worths(operation, a)[o] = Worth(operation[o].event, a)
             /\ Worth(operation[o].event, a) \in Int
<1> TAKE o \in StandingIn(operation)
<1>1. o \in Operations /\ operation[o] # None /\ operation[o].event # None
  BY DEF StandingIn, AppliedIn
<1>2. operation[o] \in Outcome BY <1>1, Types
<1>3. operation[o].event \in Event BY <1>1, <1>2 DEF Outcome
<1>4. WholeEvent(operation[o].event)
  BY <1>1, <1>3 DEF PostingsIInv, Recorded, WholeOutcome
<1>5. Worth(operation[o].event, a) \in Int BY <1>3, <1>4, EventMoves DEF Phases
<1> QED BY <1>5 DEF Worths

LEMMA CommitFollows ==
    ASSUME PostingsIInv, NEW c \in Clients, Commit(c)
    PROVE  Follows(operation, balance)'
<1> DEFINE q == txn[c]
           out == q.outcome
           w == q.command.op
           target == q.command.target
           corrects == out.status = "applied" /\ q.command.kind \in Corrections
           S == StandingIn(operation)
           left == IF corrects THEN S \ {target} ELSE S
           N == StandingIn(operation')
<1>1. /\ w \notin S /\ (corrects => target \in S)
      /\ N = IF out.event # None THEN left \cup {w} ELSE left
      /\ \A o \in S : operation'[o] = operation[o]
  BY CommitStands
<1>2. /\ Balanced(out, operation) /\ WholeOutcome(out) /\ out.movements \in Seq(Movement)
      /\ out \in Outcome /\ out.command = q.command /\ operation'[w] = out
  BY CommitFacts, CommitOperation DEF Decided
<1>3. IsFiniteSet(S) /\ \A a \in Accounts : balance[a] = Total(Worths(operation, a), S)
  BY DEF PostingsIInv, Follows
<1>4. IsFiniteSet(left) /\ left \in SUBSET S BY <1>3, FS_Subset
<1>5. IsFiniteSet(N)
  <2>1. IsFiniteSet(left \cup {w}) BY <1>4, FS_AddElement
  <2> QED BY <1>1, <1>4, <2>1
<1>6. balance' = [a \in Accounts |-> balance[a] + Moved(out.movements, a)] BY DEF Commit
<1>7. ASSUME NEW a \in Accounts PROVE balance'[a] = Total(Worths(operation', a), N)
  <2> DEFINE f == Worths(operation, a)
             e == [o \in left |-> f[o]]
             g == Worths(operation', a)
             gain == IF out.event # None THEN Worth(out.event, a) ELSE 0
             loss == IF corrects THEN Worth(operation[target].event, a) ELSE 0
  <2>1. \A o \in S : f[o] = Worth(operation[o].event, a) /\ f[o] \in Int BY StandingWorth
  <2>2. \A o \in N : g[o] = Worth(operation'[o].event, a) BY DEF Worths
  <2>3. \A o \in left : e[o] = f[o] /\ e[o] \in Int BY <1>4, <2>1
  <2>4. \A o \in left : o \in N /\ g[o] = e[o] BY <1>1, <1>4, <2>1, <2>2, <2>3
  <2>5. Moved(out.movements, a) = gain - loss BY <1>2 DEF Balanced
  <2>6. balance'[a] = balance[a] + (gain - loss) BY <1>6, <2>5
  <2>7. out.event # None => Worth(out.event, a) \in Int
    <3>1. out.event # None => out.event \in Event /\ WholeEvent(out.event)
      BY <1>2 DEF Outcome, WholeOutcome
    <3> QED BY <3>1, EventMoves DEF Phases
  <2>8. gain \in Int BY <2>7
  <2>9. loss \in Int BY <1>1, <2>1
  <2>10. balance[a] = Total(f, S) BY <1>3
  <2> HIDE DEF f, e, g, S, N, left, corrects
  <2>11. Total(f, S) = loss + Total(e, left) /\ Total(e, left) \in Int
    <3>1. Total(e, left) \in Int BY <1>4, <2>3, TotalFacts
    <3>2. CASE corrects
      <4>1. left = S \ {target} /\ target \in S BY <1>1, <3>2 DEF left
      <4>2. Total(f, S) = f[target] + Total(e, S \ {target})
        <5>1. \A y \in S \ {target} : e[y] = f[y] BY <2>3, <4>1
        <5>2. \A y \in S : f[y] \in Int BY <2>1
        <5> QED BY <1>3, <4>1, <5>1, <5>2, TotalFacts
      <4> QED BY <2>1, <3>1, <3>2, <4>1, <4>2
    <3>3. CASE ~corrects
      <4>1. left = S BY <3>3 DEF left
      <4>2. Total(f, S) = Total(e, S) BY <1>3, <2>3, <4>1, TotalsAgree
      <4> QED BY <3>1, <3>3, <4>1, <4>2
    <3> QED BY <3>2, <3>3
  <2>12. Total(g, N) = gain + Total(e, left)
    <3>1. CASE out.event # None
      <4>1. w \in N /\ N \ {w} = left /\ g[w] = gain
        BY <1>1, <1>2, <1>4, <2>2, <3>1
      <4>2. \A o \in N : g[o] \in Int BY <2>3, <2>4, <2>8, <4>1
      <4>3. Total(g, N) = g[w] + Total(e, N \ {w})
        BY <1>5, <2>4, <4>1, <4>2, TotalFacts
      <4> QED BY <4>1, <4>3
    <3>2. CASE out.event = None
      <4>1. N = left BY <1>1, <3>2
      <4>2. Total(g, N) = Total(e, N) BY <1>5, <2>4, <4>1, TotalsAgree
      <4> QED BY <2>11, <3>2, <4>1, <4>2
    <3> QED BY <3>1, <3>2
  <2> QED BY <2>6, <2>8, <2>9, <2>10, <2>11, <2>12 DEF g, N
<1> QED BY <1>5, <1>7 DEF Follows

LEMMA CommitKeeps ==
    ASSUME PostingsIInv, NEW c \in Clients, Commit(c)
    PROVE  PostingsIInv'
<1>1. txn' = [txn EXCEPT ![c] = Idle] BY CommitFacts
<1>2. txn'[c] = Idle /\ \A d \in Clients \ {c} : txn'[d] = txn[d] BY <1>1, Types
<1>3. TypeOK'
  <2>1. txn' \in [Clients -> TransactionRow] BY <1>1, IdleFacts, Types
  <2>2. conflicts' \subseteq Operations BY Types DEF Commit
  <2> QED BY <2>1, <2>2, CommitOperation, CommitAccount, CommitPeriod, CommitBooks DEF TypeOK
<1>4. TransactionsShaped' BY <1>2, IdleFacts DEF PostingsIInv, TransactionsShaped
<1>5. TransactionsKept'
  <2> SUFFICES ASSUME NEW d \in Clients
               PROVE  Kept(txn[d], operation, account, period, uncosted, balance, liability)'
    BY DEF TransactionsKept
  <2>1. CASE d = c BY <1>2, <2>1, IdleFacts
  <2>2. CASE d # c BY <2>2, CommitLeavesOthers
  <2> QED BY <2>1, <2>2
<1>6. \A q, r : Apart(q, r) => Apart(r, q) BY DEF Apart
<1>7. TransactionsApart'
  BY <1>2, <1>6, IdleFacts DEF PostingsIInv, TransactionsApart
<1>8. LiabilityNotNegative' BY CommitBooks DEF LiabilityNotNegative
<1> QED BY <1>3, <1>4, <1>5, <1>7, <1>8, CommitRecords, CommitFollows, CommitEmpties,
       CommitCosts DEF PostingsIInv

-----------------------------------------------------------------------------
LEMMA InitHolds ==
    ASSUME Init
    PROVE  PostingsIInv
<1>1. \A c \in Clients : txn[c] = Idle BY DEF Init
<1>2. TypeOK
  <2>1. \A a \in Accounts :
          [status |-> IF a = Cash THEN "active" ELSE "absent",
           name |-> None, version |-> IF a = Cash THEN 1 ELSE 0] \in AccountRow
    BY DEF AccountRow
  <2>2. account \in [Accounts -> AccountRow] BY <2>1 DEF Init
  <2>3. period \in [Periods -> PeriodRow] BY DEF Init, PeriodRow
  <2> QED BY <2>2, <2>3, IdleFacts DEF Init, TypeOK
<1>3. TransactionsShaped BY <1>1, IdleFacts DEF TransactionsShaped
<1>4. TransactionsKept BY <1>1, IdleFacts DEF TransactionsKept
<1>5. TransactionsApart BY <1>1, IdleFacts DEF TransactionsApart
<1>6. \A o \in Operations : operation[o] = None BY DEF Init
<1>7. Recorded(operation) BY <1>6 DEF Recorded, Corrects, AppliedIn
<1>a. Follows(operation, balance)
  <2>1. StandingIn(operation) = {} BY <1>6 DEF StandingIn, AppliedIn
  <2>2. IsFiniteSet({}) BY FS_EmptySet
  <2>3. \A f : Total(f, {}) = 0 BY <2>2, TotalFacts
  <2>4. \A a \in Accounts : balance[a] = 0 BY DEF Init
  <2> QED BY <2>1, <2>2, <2>3, <2>4 DEF Follows
<1>8. ArchivedIsEmpty /\ ClosedIsCosted /\ LiabilityNotNegative
  BY DEF Init, ArchivedIsEmpty, ClosedIsCosted, LiabilityNotNegative
<1> QED BY <1>2, <1>3, <1>4, <1>5, <1>7, <1>8, <1>a DEF PostingsIInv

LEMMA StepKeeps ==
    ASSUME PostingsIInv, [Next]_vars
    PROVE  PostingsIInv'
<1>1. ASSUME NEW c \in Clients, Step(c) PROVE PostingsIInv'
  BY <1>1, LockStoreKeeps, ClaimKeeps, ClaimLostKeeps, LockTargetKeeps, ResolvePeriodKeeps,
     LockAccountKeeps, ValidateAccountsKeeps, PostOpeningKeeps, PostOwnerCommandKeeps,
     PostTransferKeeps, PostCorrectionKeeps, PostUncostedKeeps, LockLifecycleKeeps,
     PostLifecycleKeeps, LockCashKeeps, PostCreateKeeps, LockClosingKeeps, PostCloseKeeps,
     CommitKeeps DEF Step
<1>2. ASSUME NEW c \in Clients, NEW cmd \in Commands, Submit(c, cmd) \/ Replay(c, cmd)
      PROVE  PostingsIInv'
  BY <1>2, PostingsAssumption, SubmitKeeps, ReplayKeeps
<1>3. ASSUME NEW c \in Clients, Abort(c) PROVE PostingsIInv' BY <1>3, AbortKeeps
<1>4. CASE UNCHANGED vars
  <2>1. conflicts' \subseteq Operations BY <1>4, Types DEF vars
  <2> QED BY <1>4, <2>1, NotingKeeps DEF vars
<1> QED BY <1>1, <1>2, <1>3, <1>4 DEF Next, Serve

(* The transactions of the books hold the locks their phase calls for, no two hold locks that
   exclude each other, and what each has read under its locks stands until it commits. With that:
   every variable has its type, an archived account is empty, nothing whose cost is pending is
   closed away, and the Store owes its owner no less than nothing. *)
THEOREM PostingsInvariance == Spec => []PostingsIInv
<1>1. Init => PostingsIInv BY InitHolds
<1>2. PostingsIInv /\ [Next]_vars => PostingsIInv' BY StepKeeps
<1> QED BY <1>1, <1>2, PTL DEF Spec

(* One correction at most is applied to an operation, and to an event that was there: the row of
   the operation is locked from the moment it is found standing until the correction commits. *)
THEOREM CorrectionsOnce == Spec => []CorrectedOnce
<1>1. PostingsIInv => CorrectedOnce
  <2> SUFFICES ASSUME PostingsIInv, NEW o \in Operations
               PROVE  LET by == {r \in Operations :
                                   IsApplied(r) /\ operation[r].command.kind \in Corrections
                                   /\ operation[r].command.target = o} IN
                      Cardinality(by) <= 1 /\ (by # {} => IsApplied(o) /\ operation[o].event # None)
    BY DEF CorrectedOnce
  <2> DEFINE by == {r \in Operations :
                      IsApplied(r) /\ operation[r].command.kind \in Corrections
                      /\ operation[r].command.target = o}
  <2>1. by = {r \in Operations : Corrects(operation, r, o)} BY DEF Corrects, AppliedIn, IsApplied
  <2>2. \A r \in by :
          /\ AppliedIn(operation, o) /\ operation[o].event # None
          /\ \A s \in by : s = r
    BY <2>1 DEF PostingsIInv, Recorded
  <2> HIDE DEF by
  <2>3. CASE by = {}
    <3>1. Cardinality(by) = 0 BY <2>3, FS_EmptySet
    <3> QED BY <2>3, <3>1 DEF by
  <2>4. CASE by # {}
    <3>1. PICK r : r \in by BY <2>4
    <3>2. by = {r} BY <2>2, <3>1
    <3>3. Cardinality(by) = 1 BY <3>2, FS_Singleton
    <3>4. IsApplied(o) /\ operation[o].event # None BY <2>2, <3>1 DEF AppliedIn, IsApplied
    <3> QED BY <3>3, <3>4 DEF by
  <2> QED BY <2>3, <2>4 DEF by
<1> QED BY <1>1, PostingsInvariance, PTL

(* An account is given its opening balance once: the check and the posting are under the lock of
   the account's row. *)
THEOREM OpeningsOnce == Spec => []OneOpening
<1>1. PostingsIInv => OneOpening
  <2> SUFFICES ASSUME PostingsIInv, NEW o \in Operations, NEW r \in Operations,
                      IsApplied(o), IsApplied(r),
                      operation[o].command.kind = "opening_balance", operation[o].event # None,
                      operation[r].command.kind = "opening_balance", operation[r].event # None,
                      operation[o].event.account = operation[r].event.account
               PROVE  o = r
    BY DEF OneOpening
  <2> DEFINE a == operation[o].event.account
  <2>1. operation[o] \in Outcome /\ operation[o] # None /\ operation[r] # None
    BY Types DEF IsApplied
  <2>2. operation[o].event \in Event BY <2>1 DEF Outcome
  <2>3. a \in Accounts BY <2>2, EventFields
  <2>4. Opens(operation[o], a) /\ Opens(operation[r], a) BY DEF Opens, IsApplied
  <2> QED BY <2>1, <2>3, <2>4 DEF PostingsIInv, Recorded
<1> QED BY <1>1, PostingsInvariance, PTL

-----------------------------------------------------------------------------
\* Only a commit writes what is recorded, and the periods.
LEMMA OnlyCommitsWrite ==
    ASSUME [Next]_vars
    PROVE  UNCHANGED <<operation, period>> \/ \E c \in Clients : Commit(c)
<1>1. ASSUME NEW c \in Clients, Step(c)
      PROVE  UNCHANGED <<operation, period>> \/ Commit(c)
  BY <1>1 DEF Step, LockStore, Claim, ClaimLost, LockTarget, ResolvePeriod, LockAccount,
     ValidateAccounts, PostOpening, PostOwnerCommand, PostTransfer, PostCorrection, PostUncosted,
     LockLifecycle, PostLifecycle, LockCash, PostCreate, LockClosing, PostClose, Books
<1>2. ASSUME NEW c \in Clients, NEW cmd \in Commands, Submit(c, cmd) \/ Replay(c, cmd)
      PROVE  UNCHANGED <<operation, period>>
  BY <1>2 DEF Submit, Replay, Books
<1>3. ASSUME NEW c \in Clients, Abort(c) PROVE UNCHANGED <<operation, period>>
  BY <1>3 DEF Abort, Books
<1>4. CASE UNCHANGED vars BY <1>4 DEF vars
<1> QED BY <1>1, <1>2, <1>3, <1>4 DEF Next, Serve

(* A closed period is closed for good, and holds what it held: a posting keeps the share lock of
   its period from the moment it finds it open, and closing waits for that lock. *)
THEOREM ClosedStaysClosed == Spec => ClosedIsFinal
<1> DEFINE Final == \A p \in Periods : period[p].status = "closed" =>
                       /\ PostedIn(p)' = PostedIn(p)
                       /\ period'[p].status = "closed"
<1>1. PostingsIInv /\ [Next]_vars => [Final]_vars
  <2> SUFFICES ASSUME PostingsIInv, [Next]_vars, NEW p \in Periods, period[p].status = "closed"
               PROVE  PostedIn(p)' = PostedIn(p) /\ period'[p].status = "closed"
    OBVIOUS
  <2>1. CASE UNCHANGED <<operation, period>> BY <2>1 DEF PostedIn, IsApplied
  <2>2. ASSUME NEW c \in Clients, Commit(c)
        PROVE  PostedIn(p)' = PostedIn(p) /\ period'[p].status = "closed"
    <3> DEFINE q == txn[c]
               w == q.command.op
    <3>1. /\ Kept(q, operation, account, period, uncosted, balance, liability)
          /\ Decided(q, q.outcome, operation, account, period, uncosted, balance, liability)
          /\ q.outcome.command = q.command
      BY <2>2, CommitFacts
    <3>2. q.outcome.movements # <<>> => q.command.period # p
      BY <3>1 DEF Kept, Decided
    <3>3. /\ w \in Operations /\ operation[w] = None /\ operation'[w] = q.outcome
          /\ \A r \in Operations \ {w} : operation'[r] = operation[r]
      BY <2>2, CommitOperation
    <3>4. \A o \in Operations :
            (o \in PostedIn(p)') <=> (o \in PostedIn(p))
      BY <3>1, <3>2, <3>3 DEF PostedIn, IsApplied
    <3>5. PostedIn(p)' = PostedIn(p) BY <3>4 DEF PostedIn
    <3>6. period'[p].status = "closed" BY <2>2, CommitPeriod
    <3> QED BY <3>5, <3>6
  <2> QED BY <2>1, <2>2, OnlyCommitsWrite
<1>2. Spec => [][Next]_vars BY DEF Spec
<1> QED BY <1>1, <1>2, PostingsInvariance, PTL DEF ClosedIsFinal

-----------------------------------------------------------------------------
\* A finite set of accounts has a last one.
LEMMA LastAccount ==
    ASSUME NEW S \in SUBSET Nat, IsFiniteSet(S), S # {}
    PROVE  \E a \in S : \A b \in S : b <= a
<1> DEFINE above(a) == {b \in S : a < b}
           counts == {Cardinality(above(a)) : a \in S}
<1>1. \A a \in S : IsFiniteSet(above(a)) /\ Cardinality(above(a)) \in Nat
  <2> TAKE a \in S
  <2>1. above(a) \in SUBSET S OBVIOUS
  <2> HIDE DEF above
  <2> QED BY <2>1, FS_Subset, FS_CardinalityType
<1>2. counts \in SUBSET Nat /\ counts # {} BY <1>1
<1>3. PICK n \in counts : \A m \in counts : n <= m
  <2> HIDE DEF counts
  <2> QED BY <1>2, FirstAccount
<1>4. PICK a \in S : n = Cardinality(above(a)) BY <1>3
<1>5. ASSUME NEW b \in S, a < b PROVE FALSE
  <2>1. /\ above(b) \in SUBSET above(a) /\ b \in above(a) /\ b \notin above(b)
    <3>1. a \in Nat /\ b \in Nat /\ ~(b < b) OBVIOUS
    <3>2. \A x \in S : b < x => a < x BY <1>5, <3>1
    <3> QED BY <1>5, <3>1, <3>2
  <2>2. n <= Cardinality(above(b)) BY <1>3
  <2>3. Cardinality(above(b)) <= Cardinality(above(a)) /\ above(a) # above(b)
    <3> HIDE DEF above
    <3> QED BY <1>1, <2>1, FS_Subset
  <2>4. Cardinality(above(a)) # Cardinality(above(b))
    <3> HIDE DEF above
    <3> QED BY <1>1, <2>1, <2>3, FS_Subset
  <2>5. Cardinality(above(a)) \in Nat /\ Cardinality(above(b)) \in Nat BY <1>1
  <2> HIDE DEF above
  <2> QED BY <1>4, <2>2, <2>3, <2>4, <2>5
<1> QED BY <1>5

\* A transaction that waits for an account waits for one that waits for a later account, or goes on.
LEMMA WaitsUpwards ==
    ASSUME PostingsIInv, NEW c \in Clients, txn[c].pc = "accounts", Blocked(c)
    PROVE  /\ NextAccount(c) \in Accounts
           /\ \E d \in Clients :
                \/ txn[d].pc \in {"post", "commit"}
                \/ /\ txn[d].pc = "accounts"
                   /\ Blocked(d) => NextAccount(c) < NextAccount(d)
<1>1. /\ Shape(txn[c]) /\ txn[c].command.kind \in PostingKinds
      /\ ~(AffectedAccounts(txn[c].command) \subseteq txn[c].accounts)
      /\ ~AccountFree(c, NextAccount(c))
  BY UnderWay DEF Blocked, Shape
<1>2. txn[c].command.kind \in Corrections => txn[c].target BY <1>1 DEF Shape
<1>3. NextAccount(c) \in Accounts
  BY <1>1, <1>2, AffectedFacts, NextAccountFacts
<1>4. PICK d \in Clients \ {c} : NextAccount(c) \in txn[d].accounts \/ txn[d].cash
  BY <1>1 DEF AccountFree, Others
<1>5. Shape(txn[d]) /\ Kept(txn[d], operation, account, period, uncosted, balance, liability)
  BY UnderWay
<1>6. CASE txn[d].cash BY <1>3, <1>5, <1>6 DEF Shape
<1>7. CASE NextAccount(c) \in txn[d].accounts
  <2>1. txn[d].pc \in {"accounts", "post", "commit"} BY <1>5, <1>7 DEF Shape
  <2>2. ASSUME txn[d].pc = "accounts", Blocked(d) PROVE NextAccount(c) < NextAccount(d)
    <3>1. /\ txn[d].command.kind \in Corrections => txn[d].target
          /\ ~(AffectedAccounts(txn[d].command) \subseteq txn[d].accounts)
      BY <1>5, <2>2 DEF Shape, Blocked
    <3>2. /\ NextAccount(d) \in AffectedAccounts(txn[d].command) \ txn[d].accounts
          /\ AffectedAccounts(txn[d].command) = Affected(operation, txn[d].command)
      BY <2>2, <3>1, AffectedFacts, NextAccountFacts
    <3> QED BY <1>5, <1>7, <2>2, <3>2 DEF Kept
  <2> QED BY <1>3, <2>1, <2>2
<1> QED BY <1>4, <1>6, <1>7

LEMMA SomeoneGoesOn ==
    ASSUME PostingsIInv, NEW b \in Clients, txn[b].pc # "idle",
           \A c \in Clients : txn[c].pc # "idle" => Blocked(c)
    PROVE  FALSE
<1>1. \A c \in Clients : txn[c] \in TransactionRow /\ txn[c].pc \in Steps /\ Shape(txn[c])
  BY UnderWay, RowFields
<1>2. \A c \in Clients : txn[c].pc # "commit" BY DEF Blocked
<1>3. \A c \in Clients : txn[c].pc # "post" BY <1>2 DEF Blocked, NameFree, Others
<1>4. \A c \in Clients : txn[c].pc # "accounts"
  <2> DEFINE waiting == {c \in Clients : txn[c].pc = "accounts"}
             next == {NextAccount(c) : c \in waiting}
  <2> SUFFICES ASSUME waiting # {} PROVE FALSE OBVIOUS
  <2>1. \A c \in waiting : Blocked(c) OBVIOUS
  <2>2. \A c \in waiting :
          /\ NextAccount(c) \in Accounts
          /\ \E d \in waiting : NextAccount(c) < NextAccount(d)
    BY <1>2, <1>3, <2>1, WaitsUpwards
  <2>3. next \in SUBSET Accounts /\ next # {} BY <2>2
  <2>4. \A x \in next : \E y \in next : x < y BY <2>2
  <2> HIDE DEF next
  <2>5. IsFiniteSet(next) /\ next \in SUBSET Nat BY <2>3, FS_Subset, PostingsAssumption
  <2>6. PICK x \in next : \A y \in next : y <= x BY <2>3, <2>5, LastAccount
  <2> QED BY <2>4, <2>5, <2>6
<1>5. \A c \in Clients :
        txn[c].accounts = {} /\ txn[c].cash = FALSE /\ txn[c].period = "none"
  BY <1>1, <1>2, <1>3, <1>4, RowFields DEF Shape, Locks
<1>6. \A c \in Clients : txn[c].pc \notin {"lifecycle", "cash"}
  BY <1>5 DEF Blocked, AccountFree, CashShareable, Others
<1>7. \A c \in Clients : txn[c].pc \notin {"closing", "period"}
  BY <1>5 DEF Blocked, PeriodFree, Others
<1>8. \A c \in Clients : txn[c].target = FALSE
  BY <1>1, <1>2, <1>3, <1>4, <1>7, RowFields DEF Shape
<1>9. \A c \in Clients : txn[c].pc # "target" BY <1>8 DEF Blocked, TargetFree, Others
<1>10. \A c \in Clients : txn[c].pc \in {"idle", "store", "claim"}
  BY <1>1, <1>2, <1>3, <1>4, <1>6, <1>7, <1>9 DEF Steps
<1>11. \A c \in Clients : txn[c].claimed = FALSE BY <1>1, <1>10, RowFields DEF Shape
<1>12. \A c \in Clients : txn[c].pc # "claim" BY <1>11 DEF Blocked, ClaimFree, Others
<1>13. \A c \in Clients : txn[c].store = "none" BY <1>1, <1>10, <1>12 DEF Shape
<1>14. \A c \in Clients : txn[c].pc # "store" BY <1>13 DEF Blocked, StoreFree, Others
<1> QED BY <1>10, <1>12, <1>14

(* Transactions never wait for one another in a circle: every lock is taken in one order - the
   Store, the operation, the operation corrected, the period, the accounts as their identifiers -
   whatever commands meet, so that while any is under way one of them can go on. *)
THEOREM NoDeadlock == Spec => []NoCircularWait
<1>1. PostingsIInv => NoCircularWait
  <2> SUFFICES ASSUME PostingsIInv, NEW b \in Clients, txn[b].pc # "idle",
                      \A c \in Clients : txn[c].pc # "idle" => Blocked(c)
               PROVE  FALSE
    BY DEF NoCircularWait
  <2> QED BY SomeoneGoesOn
<1> QED BY <1>1, PostingsInvariance, PTL

-----------------------------------------------------------------------------
\* The fold of BooksFollowEvents is the sum of the worths.
LEMMA FollowsBooks ==
    ASSUME PostingsIInv
    PROVE  BooksFollowEvents
<1> SUFFICES ASSUME NEW a \in Accounts
             PROVE  balance[a] =
                      Sums!MapThenSumSet(LAMBDA o : Moved(EventMovements(operation[o].event, "original"), a),
                                         Standing)
  BY Zenon DEF BooksFollowEvents
<1> DEFINE worth(o) == Moved(EventMovements(operation[o].event, "original"), a)
           S == StandingIn(operation)
           f == Worths(operation, a)
<1>1. Standing = S
  BY DEF Standing, StandingIn, Superseded, IsApplied, AppliedIn, Corrects
<1>2. f = [o \in S |-> worth(o)] BY DEF Worths, Worth
<1>3. IsFiniteSet(S) /\ balance[a] = Total(f, S) BY DEF PostingsIInv, Follows
<1>4. PICK g : Adds(g, f, S) BY <1>3, AddsExists
<1> HIDE DEF S, f, worth
<1>5. \A s \in SUBSET S : s # {} => f[Pick(s)] = worth(Pick(s))
  BY <1>2, PickFacts
<1>6. \A h : Adds(h, f, S) <=>
        h = [s \in SUBSET S |-> IF s = {} THEN 0 ELSE worth(Pick(s)) + h[s \ {Pick(s)}]]
  BY <1>5 DEF Adds
<1>7. g = [s \in SUBSET S |-> IF s = {} THEN 0 ELSE worth(Pick(s)) + g[s \ {Pick(s)}]]
  BY <1>4, <1>6
<1>8. \E h : /\ h = [s \in SUBSET S |-> IF s = {} THEN 0 ELSE worth(Pick(s)) + h[s \ {Pick(s)}]]
             /\ Sums!MapThenSumSet(LAMBDA o : worth(o), S) = h[S]
  BY <1>7, Zenon DEF Sums!MapThenSumSet, Sums!MapThenFoldSet, Pick
<1>9. PICK h : Adds(h, f, S) /\ Sums!MapThenSumSet(LAMBDA o : worth(o), S) = h[S]
  BY <1>6, <1>8, Zenon
<1>10. PICK k : Adds(k, f, S) /\ Total(f, S) = k[S] BY <1>3, TotalAdds
<1>11. h[S] = k[S]
  <2>1. S \subseteq S OBVIOUS
  <2> QED BY <1>3, <1>9, <1>10, <2>1, AddsAgree
<1>12. Sums!MapThenSumSet(LAMBDA o : worth(o), S) = balance[a]
  BY <1>3, <1>9, <1>10, <1>11, Zenon
<1> QED BY <1>1, <1>12, Zenon DEF worth

(* The balances are those of the events that stand: whatever commands were applied, corrected,
   replaced and corrected again, each account holds what its last replacements are worth. *)
THEOREM BalancesFollow == Spec => []BooksFollowEvents
<1>1. PostingsIInv => BooksFollowEvents BY FollowsBooks
<1> QED BY <1>1, PostingsInvariance, PTL

(* All that is checked of the books at every state, for any number of clients and accounts: typed
   variables, empty archives, costed closed periods, one correction and one opening at most, a
   covered liability, balances that follow the events, and no deadlock. *)
THEOREM PostingsAreSound == Spec => []PostingsSound
<1>1. PostingsIInv => TypeOK /\ ArchivedIsEmpty /\ ClosedIsCosted /\ LiabilityNotNegative
  BY DEF PostingsIInv
<1>2. (/\ TypeOK /\ ArchivedIsEmpty /\ ClosedIsCosted /\ LiabilityNotNegative
       /\ CorrectedOnce /\ OneOpening /\ BooksFollowEvents /\ NoCircularWait) => PostingsSound
  BY DEF PostingsSound
<1> QED BY <1>1, <1>2, PostingsInvariance, CorrectionsOnce, OpeningsOnce, BalancesFollow,
           NoDeadlock, PTL

-----------------------------------------------------------------------------
(***************************************************************************)
(* The books of the expenses, for any commands. A command that is done     *)
(* stays done, and the rows are the documents of the operations that are   *)
(* done: an expense or a payment stands as long as no operation corrects   *)
(* its own. The inductive invariant says this of the operations among      *)
(* themselves (OperationsKnow), and of each row, of each fact and of the   *)
(* sums (BooksKnow). A correction that replaces is taken in two parts: the *)
(* operation is recorded and the old rows are undone while the document of *)
(* the new one is late, then it is written.                                *)
(***************************************************************************)

\* Who corrects whom.
DoneIn(ops, o) == ops[o] # Blank /\ ops[o].status = "applied"
DocumentIn(ops, o) == Document(ops[o].command)
CorrectsIn(ops, r, o) == DoneIn(ops, r) /\ IsCorrection(ops[r].command) /\ ops[r].command.target = o
CorrectedIn(ops, o) == \E r \in ExpenseOps : CorrectsIn(ops, r, o)

\* What is recorded of the operations: their commands, and one correction of each.
OperationsKnow(ops, commands) ==
    /\ DOMAIN ops = ExpenseOps
    /\ \A o \in ExpenseOps : ops[o] = Blank \/ ops[o] \in [command : commands, status : {"applied", "rejected"}]
    /\ \A o \in ExpenseOps : ops[o] # Blank => ExpenseAccepted(ops[o].command) /\ ops[o].command.op = o
    /\ \A o \in ExpenseOps : \A r, s \in ExpenseOps :
         CorrectsIn(ops, r, o) /\ CorrectsIn(ops, s, o) => r = s
    /\ \A r, o \in ExpenseOps : CorrectsIn(ops, r, o) =>
         /\ DoneIn(ops, o)
         /\ IsEdit(ops[r].command) => DocumentIn(ops, r).kind = DocumentIn(ops, o).kind

\* An expense is the document of its operation, and stands until that is corrected. The
\* documents of the operations in late are not written yet.
ExpenseKnows(ops, b, i) ==
    LET e == b.expenses[i] IN
    e # Blank =>
      /\ e \in [op : ExpenseOps, amount : Nat \ {0}, category : Categories \cup {Blank},
                isDue : BOOLEAN, status : {"posted", "cancelled"}]
      /\ DoneIn(ops, e.op) /\ DocumentIn(ops, e.op).kind = "recognize"
      /\ DocumentIn(ops, e.op).expense = i
      /\ DocumentIn(ops, e.op).amount = e.amount
      /\ e.isDue <=> IsDue(DocumentIn(ops, e.op))
      /\ e.status = "posted" <=> ~CorrectedIn(ops, e.op)
      /\ ~e.isDue => \E p \in b.payments : p.expense = i /\ p.recognition

\* So is a payment; that of a recognition stands with its expense.
PaymentRows ==
    [op : ExpenseOps, expense : ExpenseIds, amount : Nat \ {0},
     source : {"money_account", "owner_pocket"}, recognition : BOOLEAN, status : {"posted", "cancelled"}]
PaymentKnows(ops, b, p) ==
    LET e == b.expenses[p.expense] IN
    /\ p \in PaymentRows
    /\ DoneIn(ops, p.op) /\ e # Blank
    /\ \A q \in b.payments : q.op = p.op => q = p
    /\ p.recognition =>
         /\ e.op = p.op /\ ~e.isDue /\ p.amount = e.amount
         /\ p.source = DocumentIn(ops, p.op).source /\ p.status = e.status
    /\ ~p.recognition =>
         /\ e.isDue
         /\ DocumentIn(ops, p.op).kind = "pay" /\ DocumentIn(ops, p.op).expense = p.expense
         /\ p.status = "posted" <=> ~CorrectedIn(ops, p.op)
         /\ p.status = "posted" => e.status = "posted"

OperationWritten(ops, b, o) ==
    DoneIn(ops, o) =>
      /\ DocumentIn(ops, o).kind = "recognize" =>
           /\ b.expenses[DocumentIn(ops, o).expense] # Blank
           /\ b.expenses[DocumentIn(ops, o).expense].op = o
      /\ DocumentIn(ops, o).kind = "pay" => \E p \in b.payments : p.op = o /\ ~p.recognition

\* A payment has left its fact; every other fact reverses one that was corrected.
Funding(p) ==
    [op |-> p.op, reverses |-> Blank,
     money |-> IF p.source = "money_account" THEN -p.amount ELSE 0,
     owner |-> IF p.source = "owner_pocket" THEN p.amount ELSE 0]
FactKnows(ops, b, f) ==
    /\ f \in [op : ExpenseOps, reverses : ExpenseOps \cup {Blank}, money : Int, owner : Int]
    /\ DoneIn(ops, f.op)
    /\ f.reverses = Blank => \E p \in b.payments : f = Funding(p)
    /\ f.reverses # Blank => CorrectsIn(ops, f.op, f.reverses)

PaidFrom(b, source) == {p \in b.payments : p.status = "posted" /\ p.source = source}
SumsKnow(b) ==
    /\ IsFiniteSet(b.payments) /\ IsFiniteSet(b.facts)
    /\ \A i \in ExpenseIds : IsPosted(b, i) /\ b.expenses[i].isDue => Settled(b, i) <= b.expenses[i].amount
    /\ SumOf("money", b.facts) = -SumOf("amount", PaidFrom(b, "money_account"))
    /\ SumOf("owner", b.facts) = SumOf("amount", PaidFrom(b, "owner_pocket"))

BooksKnow(ops, b, late) ==
    /\ b = [expenses |-> b.expenses, payments |-> b.payments, facts |-> b.facts, archived |-> b.archived]
    /\ DOMAIN b.expenses = ExpenseIds
    /\ \A i \in ExpenseIds : ExpenseKnows(ops, b, i)
    /\ \A p \in b.payments : PaymentKnows(ops, b, p) /\ Funding(p) \in b.facts /\ p.op \notin late
    /\ \A o \in ExpenseOps \ late : OperationWritten(ops, b, o)
    /\ \A f \in b.facts : FactKnows(ops, b, f)
    /\ SumsKnow(b)

ExpenseIInv(commands) ==
    OperationsKnow(expenseOps, commands) /\ BooksKnow(expenseOps, expenseBooks, {})

-----------------------------------------------------------------------------
\* The sum of a column of rows, as a sum of the theory above.
Column(column, S) == [r \in S |-> r[column]]
AddsColumn(g, column, S) ==
    g = [s \in SUBSET S |-> IF s = {} THEN 0 ELSE Pick(s)[column] + g[s \ {Pick(s)}]]

LEMMA ColumnAdds ==
    ASSUME NEW S, NEW column, NEW g
    PROVE  AddsColumn(g, column, S) <=> Adds(g, Column(column, S), S)
<1>1. \A s \in SUBSET S : s # {} => Column(column, S)[Pick(s)] = Pick(s)[column]
  BY PickFacts DEF Column
<1>2. [s \in SUBSET S |-> IF s = {} THEN 0 ELSE Pick(s)[column] + g[s \ {Pick(s)}]]
        = [s \in SUBSET S |-> IF s = {} THEN 0 ELSE Column(column, S)[Pick(s)] + g[s \ {Pick(s)}]]
  BY <1>1
<1> QED BY <1>2 DEF AddsColumn, Adds

LEMMA ColumnTotal ==
    ASSUME NEW S, IsFiniteSet(S), NEW column
    PROVE  SumOf(column, S) = Total(Column(column, S), S)
<1>1. PICK g : Adds(g, Column(column, S), S) /\ Total(Column(column, S), S) = g[S] BY TotalAdds
<1>2. AddsColumn(g, column, S) BY <1>1, ColumnAdds
<1>3. \E h : AddsColumn(h, column, S) /\ SumOf(column, S) = h[S]
  BY <1>2, Zenon DEF SumOf, ExpenseSums!MapThenSumSet, ExpenseSums!MapThenFoldSet, AddsColumn, Pick
<1>4. PICK h : AddsColumn(h, column, S) /\ SumOf(column, S) = h[S] BY <1>3
<1>5. Adds(h, Column(column, S), S) BY <1>4, ColumnAdds
<1>6. g[S] = h[S]
  <2>1. S \subseteq S OBVIOUS
  <2> QED BY <1>1, <1>5, <2>1, AddsAgree
<1> QED BY <1>1, <1>4, <1>6

\* It is a number, nothing of no rows, and grows by a row that is added.
LEMMA SumOfFacts ==
    ASSUME NEW S, IsFiniteSet(S), NEW column, \A r \in S : r[column] \in Int
    PROVE  /\ SumOf(column, S) \in Int
           /\ S = {} => SumOf(column, S) = 0
           /\ \A r \in S : SumOf(column, S) = SumOf(column, S \ {r}) + r[column]
<1> DEFINE f == Column(column, S)
<1>1. \A r \in S : f[r] = r[column] BY DEF Column
<1>2. SumOf(column, S) = Total(f, S) BY ColumnTotal
<1>3. /\ Total(f, S) \in Int
      /\ S = {} => Total(f, S) = 0
      /\ \A x \in S : \A e :
           (\A y \in S \ {x} : e[y] = f[y]) => Total(f, S) = f[x] + Total(e, S \ {x})
  <2>1. \A r \in S : f[r] \in Int BY <1>1
  <2> HIDE DEF f
  <2> QED BY <2>1, TotalFacts
<1>4. ASSUME NEW r \in S PROVE SumOf(column, S) = SumOf(column, S \ {r}) + r[column]
  <2> DEFINE e == Column(column, S \ {r})
  <2>1. IsFiniteSet(S \ {r}) BY FS_Subset
  <2>2. SumOf(column, S \ {r}) = Total(e, S \ {r}) BY <2>1, ColumnTotal
  <2>3. \A y \in S \ {r} : e[y] = f[y] BY DEF Column
  <2>4. \A y \in S \ {r} : e[y] \in Int BY DEF Column
  <2> HIDE DEF e, f
  <2>5. Total(e, S \ {r}) \in Int BY <2>1, <2>4, TotalFacts
  <2>6. Total(f, S) = f[r] + Total(e, S \ {r}) BY <1>3, <2>3
  <2> QED BY <1>1, <1>2, <2>2, <2>5, <2>6
<1> QED BY <1>2, <1>3, <1>4

LEMMA SumOfMore ==
    ASSUME NEW S, IsFiniteSet(S), NEW column, \A q \in S : q[column] \in Int,
           NEW r, r \notin S, r[column] \in Int
    PROVE  IsFiniteSet(S \cup {r}) /\ SumOf(column, S \cup {r}) = SumOf(column, S) + r[column]
<1>1. IsFiniteSet(S \cup {r}) BY FS_AddElement
<1>2. (S \cup {r}) \ {r} = S OBVIOUS
<1>3. SumOf(column, S \cup {r}) = SumOf(column, (S \cup {r}) \ {r}) + r[column]
  <2>1. \A q \in S \cup {r} : q[column] \in Int OBVIOUS
  <2>2. r \in S \cup {r} OBVIOUS
  <2> QED BY <1>1, <2>1, <2>2, SumOfFacts
<1> QED BY <1>1, <1>2, <1>3

LEMMA SumOfOne ==
    ASSUME NEW r, NEW column, r[column] \in Int
    PROVE  SumOf(column, {r}) = r[column]
<1>1. SumOf(column, {}) = 0 BY FS_EmptySet, SumOfFacts
<1>2. {} \cup {r} = {r} OBVIOUS
<1>3. SumOf(column, {} \cup {r}) = SumOf(column, {}) + r[column] BY FS_EmptySet, SumOfMore
<1> QED BY <1>1, <1>2, <1>3

LEMMA SumOfNaturals ==
    ASSUME NEW S, IsFiniteSet(S), NEW column, \A r \in S : r[column] \in Nat
    PROVE  SumOf(column, S) \in Nat
<1> DEFINE B == {U \in SUBSET S : SumOf(column, U) \notin Nat}
<1> SUFFICES ASSUME B # {} PROVE FALSE OBVIOUS
<1>1. PICK U \in B : \A V \in B : V \subseteq U => V = U
  <2>1. B \in SUBSET (SUBSET S) OBVIOUS
  <2> HIDE DEF B
  <2> QED BY <2>1, SmallestSet
<1>2. IsFiniteSet(U) /\ \A r \in U : r[column] \in Int BY FS_Subset
<1>3. U # {} BY <1>2, SumOfFacts
<1>4. PICK r \in U : TRUE BY <1>3
<1>5. SumOf(column, U) = SumOf(column, U \ {r}) + r[column] BY <1>2, SumOfFacts
<1>6. U \ {r} \notin B BY <1>1, <1>4
<1>7. SumOf(column, U \ {r}) \in Nat BY <1>6
<1>8. r[column] \in Nat OBVIOUS
<1> QED BY <1>5, <1>7, <1>8

-----------------------------------------------------------------------------
\* A command is recorded: an operation that was not there. A correction is of one that is
\* done and was not corrected, and replaces a document by one of its kind.
Records(ops, ops1, cmd, status) ==
    /\ ops[cmd.op] = Blank
    /\ ops1 = [ops EXCEPT ![cmd.op] = [command |-> cmd, status |-> status]]
Corrects1(cmd, status) == status = "applied" /\ IsCorrection(cmd)
MayRecord(ops, cmd, status) ==
    Corrects1(cmd, status) =>
      /\ DoneIn(ops, cmd.target) /\ ~CorrectedIn(ops, cmd.target)
      /\ IsEdit(cmd) => cmd.replacement.kind = DocumentIn(ops, cmd.target).kind

Taken(ops, ops1, cmd, status) ==
    /\ cmd.op \in ExpenseOps /\ DOMAIN ops1 = ExpenseOps
    /\ \A o \in ExpenseOps : o # cmd.op => ops1[o] = ops[o]
    /\ ops1[cmd.op] = [command |-> cmd, status |-> status]
    /\ ops1[cmd.op] # Blank
    /\ ~DoneIn(ops, cmd.op)
    /\ DoneIn(ops1, cmd.op) <=> status = "applied"
    /\ DocumentIn(ops1, cmd.op) = Document(cmd)
    /\ \A o \in ExpenseOps : DoneIn(ops, o) =>
         o # cmd.op /\ DoneIn(ops1, o) /\ DocumentIn(ops1, o) = DocumentIn(ops, o)
    /\ \A r, o \in ExpenseOps :
         CorrectsIn(ops1, r, o) <=>
           \/ CorrectsIn(ops, r, o)
           \/ r = cmd.op /\ Corrects1(cmd, status) /\ o = cmd.target
    /\ \A o \in ExpenseOps :
         CorrectedIn(ops1, o) <=> CorrectedIn(ops, o) \/ (Corrects1(cmd, status) /\ o = cmd.target)
    /\ ~CorrectedIn(ops1, cmd.op)

LEMMA RecordFacts1 ==
    ASSUME NEW commands, ExpenseAssumption(commands), NEW ops, OperationsKnow(ops, commands),
           NEW cmd \in commands, NEW status \in {"applied", "rejected"},
           NEW ops1, Records(ops, ops1, cmd, status), MayRecord(ops, cmd, status)
    PROVE  Taken(ops, ops1, cmd, status)
<1>1. cmd.op \in ExpenseOps BY DEF ExpenseAssumption, ExpenseRequest
<1>2. DOMAIN ops = ExpenseOps BY DEF OperationsKnow
<1>3. DOMAIN ops1 = ExpenseOps BY <1>2 DEF Records
<1>4. \A o \in ExpenseOps : o # cmd.op => ops1[o] = ops[o] BY <1>2 DEF Records
<1>5. ops1[cmd.op] = [command |-> cmd, status |-> status] BY <1>1, <1>2 DEF Records
<1>6. ops1[cmd.op] # Blank
  <2>1. [command |-> cmd, status |-> status] \in [command : commands, status : {"applied", "rejected"}]
    OBVIOUS
  <2> QED BY <1>5, <2>1 DEF ExpenseAssumption
<1>7. ~DoneIn(ops, cmd.op) BY DEF Records, DoneIn
<1>8. ops1[cmd.op].command = cmd /\ ops1[cmd.op].status = status BY <1>5
<1>9. DoneIn(ops1, cmd.op) <=> status = "applied" BY <1>6, <1>8 DEF DoneIn
<1>10. DocumentIn(ops1, cmd.op) = Document(cmd) BY <1>8 DEF DocumentIn
<1>11. \A o \in ExpenseOps : DoneIn(ops, o) =>
          o # cmd.op /\ DoneIn(ops1, o) /\ DocumentIn(ops1, o) = DocumentIn(ops, o)
  BY <1>4, <1>7 DEF DoneIn, DocumentIn
<1>12. \A r, o \in ExpenseOps :
         CorrectsIn(ops1, r, o) <=>
           \/ CorrectsIn(ops, r, o)
           \/ r = cmd.op /\ Corrects1(cmd, status) /\ o = cmd.target
  <2> TAKE r, o \in ExpenseOps
  <2>1. CASE r = cmd.op
    BY <2>1, <1>7, <1>8, <1>9 DEF CorrectsIn, Corrects1
  <2>2. CASE r # cmd.op
    BY <2>2, <1>4 DEF CorrectsIn, DoneIn
  <2> QED BY <2>1, <2>2
<1>13. \A o \in ExpenseOps :
         CorrectedIn(ops1, o) <=> CorrectedIn(ops, o) \/ (Corrects1(cmd, status) /\ o = cmd.target)
  BY <1>1, <1>12 DEF CorrectedIn
<1>14. ~CorrectedIn(ops, cmd.op) BY <1>1, <1>7 DEF OperationsKnow, CorrectedIn
<1>15. ~(Corrects1(cmd, status) /\ cmd.op = cmd.target) BY <1>7 DEF MayRecord
<1>16. ~CorrectedIn(ops1, cmd.op) BY <1>1, <1>13, <1>14, <1>15
<1> QED BY <1>1, <1>3, <1>4, <1>5, <1>6, <1>7, <1>9, <1>10, <1>11, <1>12, <1>13, <1>16 DEF Taken

LEMMA OperationsKept ==
    ASSUME NEW commands, ExpenseAssumption(commands), NEW ops, OperationsKnow(ops, commands),
           NEW cmd \in commands, ExpenseAccepted(cmd), NEW status \in {"applied", "rejected"},
           NEW ops1, Records(ops, ops1, cmd, status), MayRecord(ops, cmd, status)
    PROVE  OperationsKnow(ops1, commands)
<1>0. Taken(ops, ops1, cmd, status) BY RecordFacts1
<1>1. /\ cmd.op \in ExpenseOps /\ DOMAIN ops1 = ExpenseOps
      /\ \A o \in ExpenseOps : o # cmd.op => ops1[o] = ops[o]
      /\ ops1[cmd.op] = [command |-> cmd, status |-> status]
      /\ \A o \in ExpenseOps : DoneIn(ops, o) =>
           o # cmd.op /\ DoneIn(ops1, o) /\ DocumentIn(ops1, o) = DocumentIn(ops, o)
      /\ DocumentIn(ops1, cmd.op) = Document(cmd)
  BY <1>0 DEF Taken
<1>2. \A r, o \in ExpenseOps :
         CorrectsIn(ops1, r, o) <=>
           \/ CorrectsIn(ops, r, o)
           \/ r = cmd.op /\ Corrects1(cmd, status) /\ o = cmd.target
  BY <1>0 DEF Taken
<1>3. ASSUME NEW o \in ExpenseOps, ops1[o] # Blank
      PROVE  /\ ops1[o] \in [command : commands, status : {"applied", "rejected"}]
             /\ ExpenseAccepted(ops1[o].command) /\ ops1[o].command.op = o
  <2>1. CASE o = cmd.op BY <1>1, <2>1
  <2>2. CASE o # cmd.op BY <1>1, <1>3, <2>2 DEF OperationsKnow
  <2> QED BY <2>1, <2>2
<1>4. ASSUME NEW o \in ExpenseOps, NEW r \in ExpenseOps, NEW s \in ExpenseOps,
             CorrectsIn(ops1, r, o), CorrectsIn(ops1, s, o)
      PROVE  r = s
  <2>1. CASE CorrectsIn(ops, r, o) /\ CorrectsIn(ops, s, o) BY <2>1 DEF OperationsKnow
  <2>2. CASE ~CorrectsIn(ops, r, o) /\ ~CorrectsIn(ops, s, o) BY <1>2, <1>4, <2>2
  <2>3. CorrectsIn(ops, r, o) \/ CorrectsIn(ops, s, o) =>
          CorrectsIn(ops, r, o) /\ CorrectsIn(ops, s, o)
    BY <1>2, <1>4 DEF MayRecord, CorrectedIn
  <2> QED BY <2>1, <2>2, <2>3
<1>5. ASSUME NEW r \in ExpenseOps, NEW o \in ExpenseOps, CorrectsIn(ops1, r, o)
      PROVE  /\ DoneIn(ops1, o)
             /\ IsEdit(ops1[r].command) => DocumentIn(ops1, r).kind = DocumentIn(ops1, o).kind
  <2>1. CASE CorrectsIn(ops, r, o)
    <3>1. DoneIn(ops, r) BY <2>1 DEF CorrectsIn
    <3>2. /\ DoneIn(ops, o)
          /\ IsEdit(ops[r].command) => DocumentIn(ops, r).kind = DocumentIn(ops, o).kind
      BY <2>1 DEF OperationsKnow
    <3>3. ops1[r] = ops[r] BY <1>1, <3>1
    <3> QED BY <1>1, <3>1, <3>2, <3>3
  <2>2. CASE ~CorrectsIn(ops, r, o)
    <3>1. r = cmd.op /\ Corrects1(cmd, status) /\ o = cmd.target BY <1>2, <1>5, <2>2
    <3>2. DoneIn(ops, o) /\ (IsEdit(cmd) => cmd.replacement.kind = DocumentIn(ops, o).kind)
      BY <3>1 DEF MayRecord
    <3>3. ops1[r].command = cmd BY <1>1, <3>1
    <3>4. IsEdit(cmd) => Document(cmd) = cmd.replacement BY DEF Document
    <3> QED BY <1>1, <3>1, <3>2, <3>3, <3>4
  <2> QED BY <2>1, <2>2
<1>6. \A o \in ExpenseOps : ops1[o] = Blank \/ ops1[o] \in [command : commands, status : {"applied", "rejected"}]
  BY <1>3
<1>7. \A o \in ExpenseOps : ops1[o] # Blank => ExpenseAccepted(ops1[o].command) /\ ops1[o].command.op = o
  BY <1>3
<1>8. DOMAIN ops1 = ExpenseOps BY <1>1
<1> QED BY <1>4, <1>5, <1>6, <1>7, <1>8 DEF OperationsKnow

-----------------------------------------------------------------------------
\* The rows stay when a command is recorded that corrects nothing. What it asks for is not
\* written yet.
LEMMA BooksStay ==
    ASSUME NEW commands, ExpenseAssumption(commands), NEW ops, OperationsKnow(ops, commands),
           NEW cmd \in commands, NEW status \in {"applied", "rejected"},
           NEW ops1, Records(ops, ops1, cmd, status), ~Corrects1(cmd, status),
           NEW b, BooksKnow(ops, b, {})
    PROVE  /\ BooksKnow(ops1, b, {cmd.op})
           /\ status = "rejected" => BooksKnow(ops1, b, {})
<1>0. Taken(ops, ops1, cmd, status)
  <2>1. MayRecord(ops, cmd, status) BY DEF MayRecord
  <2> QED BY <2>1, RecordFacts1
<1>1. /\ cmd.op \in ExpenseOps
      /\ \A o \in ExpenseOps : o # cmd.op => ops1[o] = ops[o]
      /\ ~DoneIn(ops, cmd.op)
      /\ DoneIn(ops1, cmd.op) <=> status = "applied"
      /\ \A o \in ExpenseOps : DoneIn(ops, o) =>
           o # cmd.op /\ DoneIn(ops1, o) /\ DocumentIn(ops1, o) = DocumentIn(ops, o)
  BY <1>0 DEF Taken
<1>2. \A o \in ExpenseOps : CorrectedIn(ops1, o) <=> CorrectedIn(ops, o)
  BY <1>0 DEF Taken
<1>3. \A r, o \in ExpenseOps : CorrectsIn(ops1, r, o) <=> CorrectsIn(ops, r, o)
  BY <1>0 DEF Taken
<1>4. ASSUME NEW i \in ExpenseIds PROVE ExpenseKnows(ops1, b, i)
  <2>1. ExpenseKnows(ops, b, i) BY DEF BooksKnow
  <2>2. b.expenses[i] # Blank => b.expenses[i].op \in ExpenseOps BY <2>1 DEF ExpenseKnows
  <2> QED BY <1>1, <1>2, <2>1, <2>2 DEF ExpenseKnows
<1>5. ASSUME NEW p \in b.payments
      PROVE  PaymentKnows(ops1, b, p) /\ Funding(p) \in b.facts /\ p.op # cmd.op
  <2>1. PaymentKnows(ops, b, p) /\ Funding(p) \in b.facts BY DEF BooksKnow
  <2>2. p.op \in ExpenseOps /\ DoneIn(ops, p.op) BY <2>1 DEF PaymentKnows, PaymentRows
  <2>3. PaymentKnows(ops1, b, p) BY <1>1, <1>2, <2>1, <2>2 DEF PaymentKnows
  <2> QED BY <1>1, <2>1, <2>2, <2>3
<1>6. ASSUME NEW o \in ExpenseOps, o # cmd.op PROVE OperationWritten(ops1, b, o)
  <2>1. OperationWritten(ops, b, o) BY DEF BooksKnow
  <2>2. DoneIn(ops1, o) => DoneIn(ops, o) BY <1>1, <1>6 DEF DoneIn
  <2> QED BY <1>1, <2>1, <2>2 DEF OperationWritten
<1>7. ASSUME NEW f \in b.facts PROVE FactKnows(ops1, b, f)
  <2>1. FactKnows(ops, b, f) BY DEF BooksKnow
  <2>2. f.op \in ExpenseOps /\ f.reverses \in ExpenseOps \cup {Blank} BY <2>1 DEF FactKnows
  <2> QED BY <1>1, <1>3, <2>1, <2>2 DEF FactKnows
<1>8. status = "rejected" => OperationWritten(ops1, b, cmd.op) BY <1>1 DEF OperationWritten
<1>9. BooksKnow(ops1, b, {cmd.op}) BY <1>4, <1>5, <1>6, <1>7 DEF BooksKnow
<1>10. status = "rejected" => BooksKnow(ops1, b, {}) BY <1>4, <1>5, <1>6, <1>7, <1>8 DEF BooksKnow
<1> QED BY <1>9, <1>10

-----------------------------------------------------------------------------
\* What an operation that asks for an expense or a payment holds.
LEMMA DocumentFacts ==
    ASSUME NEW commands, ExpenseAssumption(commands), NEW cmd \in commands, ExpenseAccepted(cmd),
           NEW doc, doc = Document(cmd), doc.kind \in {"recognize", "pay"}
    PROVE  /\ ExpenseDocument(doc) /\ doc.op = cmd.op /\ doc.amount \in Nat \ {0}
           /\ doc.kind = "pay" => doc.source \in {"money_account", "owner_pocket"}
<1>1. ExpenseRequest(cmd) BY DEF ExpenseAssumption
<1>2. CASE IsEdit(cmd)
  <2>1. doc = cmd.replacement BY <1>2 DEF Document
  <2>2. ExpenseDocument(doc) /\ doc.op = cmd.op BY <1>1, <1>2, <2>1 DEF ExpenseRequest
  <2>3. CASE cmd.kind = "expense_edit"
    <3>1. doc.kind = "recognize" /\ doc.amount > 0
      BY <2>1, <2>3 DEF ExpenseAccepted, ExpenseEditAccepted, RecognitionAccepted
    <3> QED BY <2>2, <3>1 DEF ExpenseDocument
  <2>4. CASE cmd.kind = "payment_edit"
    <3>1. doc.amount > 0 /\ doc.source \in {"money_account", "owner_pocket"}
      BY <2>1, <2>4 DEF ExpenseAccepted, ExpensePaymentEditAccepted, ExpensePaymentAccepted
    <3> QED BY <2>2, <3>1 DEF ExpenseDocument
  <2> QED BY <1>2, <2>3, <2>4 DEF IsEdit
<1>3. CASE ~IsEdit(cmd)
  <2>1. doc = cmd BY <1>3 DEF Document
  <2>2. ExpenseDocument(doc) BY <1>1, <2>1 DEF ExpenseRequest
  <2>3. CASE cmd.kind = "recognize"
    <3>1. doc.amount > 0 BY <2>1, <2>3 DEF ExpenseAccepted, RecognitionAccepted
    <3> QED BY <2>1, <2>2, <2>3, <3>1 DEF ExpenseDocument
  <2>4. CASE cmd.kind = "pay"
    <3>1. doc.amount > 0 /\ doc.source \in {"money_account", "owner_pocket"}
      BY <2>1, <2>4 DEF ExpenseAccepted, ExpensePaymentAccepted
    <3> QED BY <2>1, <2>2, <3>1 DEF ExpenseDocument
  <2> QED BY <2>1, <2>3, <2>4
<1> QED BY <1>2, <1>3

LEMMA DocumentInFacts ==
    ASSUME NEW commands, ExpenseAssumption(commands), NEW ops, OperationsKnow(ops, commands),
           NEW o \in ExpenseOps, DoneIn(ops, o), DocumentIn(ops, o).kind \in {"recognize", "pay"}
    PROVE  /\ ExpenseDocument(DocumentIn(ops, o)) /\ DocumentIn(ops, o).op = o
           /\ DocumentIn(ops, o).amount \in Nat \ {0}
<1>1. ops[o] # Blank BY DEF DoneIn
<1>2. ops[o] \in [command : commands, status : {"applied", "rejected"}] BY <1>1 DEF OperationsKnow
<1>3. ops[o].command \in commands /\ ExpenseAccepted(ops[o].command) /\ ops[o].command.op = o
  BY <1>1, <1>2 DEF OperationsKnow
<1>4. DocumentIn(ops, o) = Document(ops[o].command) BY DEF DocumentIn
<1> QED BY <1>3, <1>4, DocumentFacts

\* The document of a late operation that asks for none is written.
LEMMA NotLate ==
    ASSUME NEW ops, NEW b, NEW o, BooksKnow(ops, b, {o}),
           DocumentIn(ops, o).kind \notin {"recognize", "pay"}
    PROVE  BooksKnow(ops, b, {})
<1>1. ASSUME NEW x \in ExpenseOps PROVE OperationWritten(ops, b, x)
  <2>1. CASE x = o BY <2>1 DEF OperationWritten
  <2>2. CASE x # o BY <2>2 DEF BooksKnow
  <2> QED BY <2>1, <2>2
<1> QED BY <1>1 DEF BooksKnow

-----------------------------------------------------------------------------
\* The payments of an operation are cancelled, and their facts reversed by another.
PaymentsBy(b, t) == {p \in b.payments : p.op = t}
Turned(p, t) == IF p.op = t THEN [p EXCEPT !.status = "cancelled"] ELSE p
Undoing(p, op) ==
    [op |-> op, reverses |-> p.op, money |-> -Funding(p).money, owner |-> -Funding(p).owner]
Cancels(b, b1, op, t) ==
    /\ \A p \in PaymentsBy(b, t) : p.status = "posted"
    /\ b1.payments = (b.payments \ PaymentsBy(b, t))
                       \cup {[p EXCEPT !.status = "cancelled"] : p \in PaymentsBy(b, t)}
    /\ b1.facts = b.facts \cup Reversals(b, op, t)

LEMMA TurnedFields ==
    ASSUME NEW p \in PaymentRows, NEW t
    PROVE  /\ Turned(p, t) \in PaymentRows
           /\ Turned(p, t).op = p.op /\ Turned(p, t).expense = p.expense
           /\ Turned(p, t).amount = p.amount /\ Turned(p, t).source = p.source
           /\ Turned(p, t).recognition = p.recognition
           /\ Turned(p, t).status = (IF p.op = t THEN "cancelled" ELSE p.status)
           /\ Funding(Turned(p, t)) = Funding(p)
<1>1. /\ Turned(p, t) \in PaymentRows
      /\ Turned(p, t).op = p.op /\ Turned(p, t).expense = p.expense
      /\ Turned(p, t).amount = p.amount /\ Turned(p, t).source = p.source
      /\ Turned(p, t).recognition = p.recognition
      /\ Turned(p, t).status = (IF p.op = t THEN "cancelled" ELSE p.status)
  BY DEF Turned, PaymentRows
<1> QED BY <1>1 DEF Funding

LEMMA PaymentsByOne ==
    ASSUME NEW ops, NEW b, NEW late, BooksKnow(ops, b, late), NEW t
    PROVE  PaymentsBy(b, t) = {} \/ \E p \in b.payments : p.op = t /\ PaymentsBy(b, t) = {p}
<1>1. ASSUME NEW p \in PaymentsBy(b, t), NEW q \in PaymentsBy(b, t) PROVE p = q
  BY DEF PaymentsBy, BooksKnow, PaymentKnows
<1> QED BY <1>1 DEF PaymentsBy

LEMMA TurnedPayments ==
    ASSUME NEW ops, NEW b, BooksKnow(ops, b, {}), NEW b1, NEW op, NEW t, Cancels(b, b1, op, t)
    PROVE  /\ \A p \in b.payments : p \in PaymentRows
           /\ \A p \in b.payments : Turned(p, t) \in b1.payments
           /\ \A q \in b1.payments : \E p \in b.payments : q = Turned(p, t)
           /\ IsFiniteSet(b1.payments)
           /\ \A i : PostedPayments(b1, i) = PostedPayments(b, i) \ PaymentsBy(b, t)
           /\ \A s : PaidFrom(b1, s) = PaidFrom(b, s) \ PaymentsBy(b, t)
<1>1. \A p \in b.payments : p \in PaymentRows BY DEF BooksKnow, PaymentKnows
<1>2. \A p \in b.payments : Turned(p, t) \in b1.payments BY DEF Cancels, Turned, PaymentsBy
<1>3. \A q \in b1.payments : \E p \in b.payments : q = Turned(p, t) BY DEF Cancels, Turned, PaymentsBy
<1>4. IsFiniteSet(b1.payments)
  <2> DEFINE C == {[p EXCEPT !.status = "cancelled"] : p \in PaymentsBy(b, t)}
  <2>1. IsFiniteSet(C)
    <3>1. CASE PaymentsBy(b, t) = {}
      <4>1. C = {} BY <3>1
      <4> QED BY <4>1, FS_EmptySet
    <3>2. CASE \E p \in b.payments : p.op = t /\ PaymentsBy(b, t) = {p}
      <4>1. PICK p : PaymentsBy(b, t) = {p} BY <3>2
      <4>2. C = {[p EXCEPT !.status = "cancelled"]} BY <4>1
      <4> HIDE DEF C
      <4> QED BY <4>2, FS_Singleton
    <3> QED BY <3>1, <3>2, PaymentsByOne
  <2>2. b1.payments = (b.payments \ PaymentsBy(b, t)) \cup C BY DEF Cancels
  <2>3. IsFiniteSet(b.payments) BY DEF BooksKnow, SumsKnow
  <2> HIDE DEF C
  <2>4. IsFiniteSet(b.payments \ PaymentsBy(b, t)) BY <2>3, FS_Subset
  <2> QED BY <2>1, <2>2, <2>4, FS_Union
<1>5. \A p \in b.payments :
        /\ Turned(p, t).expense = p.expense /\ Turned(p, t).source = p.source
        /\ Turned(p, t).op = p.op
        /\ Turned(p, t).status = (IF p.op = t THEN "cancelled" ELSE p.status)
        /\ p.op # t => Turned(p, t) = p
  BY <1>1, TurnedFields DEF Turned
<1>6. ASSUME NEW i PROVE PostedPayments(b1, i) = PostedPayments(b, i) \ PaymentsBy(b, t)
  <2>1. ASSUME NEW q \in PostedPayments(b1, i) PROVE q \in PostedPayments(b, i) \ PaymentsBy(b, t)
    BY <1>3, <1>5 DEF PostedPayments, PaymentsBy
  <2>2. ASSUME NEW q \in PostedPayments(b, i) \ PaymentsBy(b, t) PROVE q \in PostedPayments(b1, i)
    BY <1>2, <1>5 DEF PostedPayments, PaymentsBy
  <2> QED BY <2>1, <2>2
<1>7. ASSUME NEW s PROVE PaidFrom(b1, s) = PaidFrom(b, s) \ PaymentsBy(b, t)
  <2>1. ASSUME NEW q \in PaidFrom(b1, s) PROVE q \in PaidFrom(b, s) \ PaymentsBy(b, t)
    BY <1>3, <1>5 DEF PaidFrom, PaymentsBy
  <2>2. ASSUME NEW q \in PaidFrom(b, s) \ PaymentsBy(b, t) PROVE q \in PaidFrom(b1, s)
    BY <1>2, <1>5 DEF PaidFrom, PaymentsBy
  <2> QED BY <2>1, <2>2
<1> QED BY <1>1, <1>2, <1>3, <1>4, <1>6, <1>7

\* The reversals are of the facts of these payments.
LEMMA ReversalsOf ==
    ASSUME NEW ops, NEW b, BooksKnow(ops, b, {}), NEW op, NEW t \in ExpenseOps, Blank \notin ExpenseOps
    PROVE  /\ \A r \in Reversals(b, op, t) : \E p \in PaymentsBy(b, t) : r = Undoing(p, op)
           /\ \A p \in PaymentsBy(b, t) : Undoing(p, op) \in Reversals(b, op, t)
<1>1. ASSUME NEW r \in Reversals(b, op, t) PROVE \E p \in PaymentsBy(b, t) : r = Undoing(p, op)
  <2>1. PICK f \in b.facts :
          /\ f.op = t /\ f.reverses = Blank
          /\ r = [op |-> op, reverses |-> f.op, money |-> -f.money, owner |-> -f.owner]
    BY DEF Reversals
  <2>2. PICK p \in b.payments : f = Funding(p) BY <2>1 DEF BooksKnow, FactKnows
  <2>3. f.op = p.op BY <2>2 DEF Funding
  <2>4. p \in PaymentsBy(b, t) BY <2>1, <2>3 DEF PaymentsBy
  <2>5. r = Undoing(p, op) BY <2>1, <2>2, <2>3 DEF Undoing
  <2> QED BY <2>4, <2>5
<1>2. ASSUME NEW p \in PaymentsBy(b, t) PROVE Undoing(p, op) \in Reversals(b, op, t)
  <2>1. p \in b.payments /\ p.op = t BY DEF PaymentsBy
  <2>2. Funding(p) \in b.facts BY <2>1 DEF BooksKnow
  <2>3. Funding(p).op = t /\ Funding(p).reverses = Blank BY <2>1 DEF Funding
  <2>4. Undoing(p, op) = [op |-> op, reverses |-> Funding(p).op,
                          money |-> -Funding(p).money, owner |-> -Funding(p).owner]
    BY <2>1, <2>3 DEF Undoing
  <2> QED BY <2>2, <2>3, <2>4 DEF Reversals
<1> QED BY <1>1, <1>2

LEMMA FactNumbers ==
    ASSUME NEW ops, NEW b, NEW late, BooksKnow(ops, b, late)
    PROVE  /\ \A f \in b.facts : f["money"] \in Int /\ f["owner"] \in Int
           /\ \A p \in b.payments : p["amount"] \in Nat
BY DEF BooksKnow, FactKnows, PaymentKnows, PaymentRows

LEMMA PaidNumbers ==
    ASSUME NEW ops, NEW b, NEW late, BooksKnow(ops, b, late), NEW S \in SUBSET b.payments
    PROVE  /\ IsFiniteSet(S) /\ \A p \in S : p["amount"] \in Int
           /\ SumOf("amount", S) \in Nat
           /\ \A p \in S : SumOf("amount", S) = SumOf("amount", S \ {p}) + p.amount
<1>1. IsFiniteSet(S) BY FS_Subset DEF BooksKnow, SumsKnow
<1>2. \A p \in S : p["amount"] \in Nat BY FactNumbers
<1>3. \A p \in S : p["amount"] \in Int BY <1>2
<1>4. SumOf("amount", S) \in Nat BY <1>1, <1>2, SumOfNaturals
<1>5. \A p \in S : SumOf("amount", S) = SumOf("amount", S \ {p}) + p["amount"] BY <1>1, <1>3, SumOfFacts
<1> QED BY <1>1, <1>3, <1>4, <1>5

\* The sums follow when the payments of an operation are cancelled.
LEMMA CancelsSums ==
    ASSUME NEW ops, NEW b, BooksKnow(ops, b, {}), Blank \notin ExpenseOps,
           NEW b1, NEW op, ~DoneIn(ops, op), NEW t \in ExpenseOps, Cancels(b, b1, op, t)
    PROVE  /\ IsFiniteSet(b1.facts)
           /\ SumOf("money", b1.facts) = -SumOf("amount", PaidFrom(b1, "money_account"))
           /\ SumOf("owner", b1.facts) = SumOf("amount", PaidFrom(b1, "owner_pocket"))
<1>1. /\ IsFiniteSet(b.facts)
      /\ SumOf("money", b.facts) = -SumOf("amount", PaidFrom(b, "money_account"))
      /\ SumOf("owner", b.facts) = SumOf("amount", PaidFrom(b, "owner_pocket"))
  BY DEF BooksKnow, SumsKnow
<1>2. \A s : PaidFrom(b1, s) = PaidFrom(b, s) \ PaymentsBy(b, t) BY TurnedPayments
<1>3. b1.facts = b.facts \cup Reversals(b, op, t) BY DEF Cancels
<1>4. CASE PaymentsBy(b, t) = {}
  <2>1. Reversals(b, op, t) = {} BY <1>4, ReversalsOf
  <2>2. b1.facts = b.facts BY <1>3, <2>1
  <2>3. \A s : PaidFrom(b1, s) = PaidFrom(b, s) BY <1>2, <1>4
  <2> QED BY <1>1, <2>2, <2>3
<1>5. CASE \E p \in b.payments : p.op = t /\ PaymentsBy(b, t) = {p}
  <2>1. PICK p \in b.payments : p.op = t /\ PaymentsBy(b, t) = {p} BY <1>5
  <2> DEFINE rev == Undoing(p, op)
  <2>2. p \in PaymentRows /\ p.status = "posted" BY <2>1 DEF BooksKnow, PaymentKnows, Cancels
  <2>3. Reversals(b, op, t) = {rev}
    <3>1. \A r \in Reversals(b, op, t) : r = rev BY <2>1, ReversalsOf
    <3>2. rev \in Reversals(b, op, t) BY <2>1, ReversalsOf
    <3> HIDE DEF rev
    <3> QED BY <3>1, <3>2
  <2>4. rev.op = op BY DEF Undoing
  <2>5. rev \notin b.facts
    <3>1. \A f \in b.facts : DoneIn(ops, f.op) BY DEF BooksKnow, FactKnows
    <3> HIDE DEF rev
    <3> QED BY <2>4, <3>1
  <2>6. p.amount \in Nat /\ p.source \in {"money_account", "owner_pocket"} BY <2>2 DEF PaymentRows
  <2>7. /\ rev["money"] = (IF p.source = "money_account" THEN p.amount ELSE 0)
        /\ rev["owner"] = (IF p.source = "owner_pocket" THEN -p.amount ELSE 0)
    BY <2>6 DEF Undoing, Funding
  <2>8. \A f \in b.facts : f["money"] \in Int /\ f["owner"] \in Int BY FactNumbers
  <2>9. rev["money"] \in Int /\ rev["owner"] \in Int BY <2>6, <2>7
  <2> HIDE DEF rev
  <2>10. /\ IsFiniteSet(b.facts \cup {rev})
         /\ SumOf("money", b.facts \cup {rev}) = SumOf("money", b.facts) + rev["money"]
    BY <1>1, <2>5, <2>8, <2>9, SumOfMore
  <2>11. SumOf("owner", b.facts \cup {rev}) = SumOf("owner", b.facts) + rev["owner"]
    BY <1>1, <2>5, <2>8, <2>9, SumOfMore
  <2>12. b1.facts = b.facts \cup {rev} BY <1>3, <2>3
  <2>13. \A s : /\ SumOf("amount", PaidFrom(b, s)) \in Int
                /\ SumOf("amount", PaidFrom(b1, s)) =
                     (IF p.source = s THEN SumOf("amount", PaidFrom(b, s)) - p.amount
                      ELSE SumOf("amount", PaidFrom(b, s)))
    <3> TAKE s
    <3>1. PaidFrom(b, s) \in SUBSET b.payments BY DEF PaidFrom
    <3>2. SumOf("amount", PaidFrom(b, s)) \in Int BY <3>1, PaidNumbers
    <3>3. PaidFrom(b1, s) = PaidFrom(b, s) \ {p} BY <1>2, <2>1
    <3>4. CASE p.source = s
      <4>1. p \in PaidFrom(b, s) BY <2>2, <3>4 DEF PaidFrom
      <4>2. SumOf("amount", PaidFrom(b, s)) = SumOf("amount", PaidFrom(b, s) \ {p}) + p.amount
        BY <3>1, <4>1, PaidNumbers
      <4>3. SumOf("amount", PaidFrom(b, s) \ {p}) \in Nat
        <5>1. PaidFrom(b, s) \ {p} \in SUBSET b.payments BY <3>1
        <5> QED BY <5>1, PaidNumbers
      <4> QED BY <2>6, <3>2, <3>3, <3>4, <4>2, <4>3
    <3>5. CASE p.source # s
      <4>1. PaidFrom(b1, s) = PaidFrom(b, s) BY <3>3, <3>5 DEF PaidFrom
      <4> QED BY <3>2, <3>5, <4>1
    <3> QED BY <3>4, <3>5
  <2>14. /\ SumOf("amount", PaidFrom(b, "money_account")) \in Int
         /\ SumOf("amount", PaidFrom(b, "owner_pocket")) \in Int
    BY <2>13
  <2>15. SumOf("money", b1.facts) = -SumOf("amount", PaidFrom(b1, "money_account"))
    <3>1. SumOf("amount", PaidFrom(b1, "money_account")) =
            (IF p.source = "money_account" THEN SumOf("amount", PaidFrom(b, "money_account")) - p.amount
             ELSE SumOf("amount", PaidFrom(b, "money_account")))
      BY <2>13
    <3> QED BY <1>1, <2>6, <2>7, <2>10, <2>12, <2>14, <3>1
  <2>16. SumOf("owner", b1.facts) = SumOf("amount", PaidFrom(b1, "owner_pocket"))
    <3>1. SumOf("amount", PaidFrom(b1, "owner_pocket")) =
            (IF p.source = "owner_pocket" THEN SumOf("amount", PaidFrom(b, "owner_pocket")) - p.amount
             ELSE SumOf("amount", PaidFrom(b, "owner_pocket")))
      BY <2>13
    <3> QED BY <1>1, <2>6, <2>7, <2>11, <2>12, <2>14, <3>1
  <2> QED BY <2>10, <2>12, <2>15, <2>16
<1> QED BY <1>4, <1>5, PaymentsByOne

\* The facts are known when the payments of a corrected operation are cancelled.
LEMMA CancelsFacts ==
    ASSUME NEW ops, NEW b, BooksKnow(ops, b, {}), Blank \notin ExpenseOps,
           NEW cmd, NEW ops1, Taken(ops, ops1, cmd, "applied"), IsCorrection(cmd),
           NEW t \in ExpenseOps, t = cmd.target, NEW b1, Cancels(b, b1, cmd.op, t)
    PROVE  /\ \A f \in b1.facts : FactKnows(ops1, b1, f)
           /\ \A q \in b1.payments : Funding(q) \in b1.facts /\ q.op # cmd.op
<1>1. /\ cmd.op \in ExpenseOps /\ ~DoneIn(ops, cmd.op) /\ DoneIn(ops1, cmd.op)
      /\ \A o \in ExpenseOps : DoneIn(ops, o) => o # cmd.op /\ DoneIn(ops1, o)
      /\ \A r, o \in ExpenseOps :
           CorrectsIn(ops1, r, o) <=> CorrectsIn(ops, r, o) \/ (r = cmd.op /\ o = cmd.target)
  BY DEF Taken, Corrects1
<1>2. /\ \A p \in b.payments : p \in PaymentRows
      /\ \A p \in b.payments : Turned(p, t) \in b1.payments
      /\ \A q \in b1.payments : \E p \in b.payments : q = Turned(p, t)
  BY TurnedPayments
<1>3. \A p \in b.payments : Funding(Turned(p, t)) = Funding(p) /\ Turned(p, t).op = p.op
  BY <1>2, TurnedFields
<1>4. b1.facts = b.facts \cup Reversals(b, cmd.op, t) BY DEF Cancels
<1>5. ASSUME NEW f \in b.facts PROVE FactKnows(ops1, b1, f)
  <2>1. FactKnows(ops, b, f) BY DEF BooksKnow
  <2>2. f.op \in ExpenseOps /\ f.reverses \in ExpenseOps \cup {Blank} BY <2>1 DEF FactKnows
  <2>3. f.reverses = Blank => \E q \in b1.payments : f = Funding(q)
    <3>1. HAVE f.reverses = Blank
    <3>2. PICK p \in b.payments : f = Funding(p) BY <2>1, <3>1 DEF FactKnows
    <3>3. f = Funding(Turned(p, t)) /\ Turned(p, t) \in b1.payments BY <1>2, <1>3, <3>2
    <3> QED BY <3>3
  <2> QED BY <1>1, <2>1, <2>2, <2>3 DEF FactKnows
<1>6. ASSUME NEW f \in Reversals(b, cmd.op, t) PROVE FactKnows(ops1, b1, f)
  <2>1. PICK p \in PaymentsBy(b, t) : f = Undoing(p, cmd.op) BY ReversalsOf
  <2>2. p \in PaymentRows /\ p.op = t BY <1>2 DEF PaymentsBy
  <2>3. Funding(p).money \in Int /\ Funding(p).owner \in Int BY <2>2 DEF Funding, PaymentRows
  <2>4. /\ f = [op |-> cmd.op, reverses |-> t, money |-> -Funding(p).money, owner |-> -Funding(p).owner]
        /\ -Funding(p).money \in Int /\ -Funding(p).owner \in Int
    BY <2>1, <2>2, <2>3 DEF Undoing
  <2>5. /\ f \in [op : ExpenseOps, reverses : ExpenseOps \cup {Blank}, money : Int, owner : Int]
        /\ f.op = cmd.op /\ f.reverses = t
    BY <1>1, <2>4
  <2>6. CorrectsIn(ops1, cmd.op, t) BY <1>1
  <2> QED BY <1>1, <2>5, <2>6 DEF FactKnows
<1>7. ASSUME NEW q \in b1.payments PROVE Funding(q) \in b1.facts /\ q.op # cmd.op
  <2>1. PICK p \in b.payments : q = Turned(p, t) BY <1>2
  <2>2. Funding(p) \in b.facts /\ p.op \in ExpenseOps /\ DoneIn(ops, p.op)
    BY DEF BooksKnow, PaymentKnows, PaymentRows
  <2> QED BY <1>1, <1>3, <1>4, <2>1, <2>2
<1> QED BY <1>4, <1>5, <1>6, <1>7

\* A recognition is corrected: its expense is cancelled, and its own payment with it.
ExpenseUndoing(b, b1, op, t, i) ==
    b1 = [expenses |-> [b.expenses EXCEPT ![i] = [b.expenses[i] EXCEPT !.status = "cancelled"]],
          payments |-> (b.payments \ PostedPayments(b, i))
                         \cup {[p EXCEPT !.status = "cancelled"] : p \in PostedPayments(b, i)},
          facts |-> b.facts \cup Reversals(b, op, t),
          archived |-> b.archived]

LEMMA UndoExpense ==
    ASSUME NEW commands, ExpenseAssumption(commands), NEW ops, OperationsKnow(ops, commands),
           NEW cmd \in commands, NEW ops1, Taken(ops, ops1, cmd, "applied"), IsCorrection(cmd),
           NEW b, BooksKnow(ops, b, {}), NEW t \in ExpenseOps, t = cmd.target, DoneIn(ops, t),
           DocumentIn(ops, t).kind = "recognize", NEW i, i = DocumentIn(ops, t).expense,
           IsPosted(b, i), LaterPayments(b, i) = {},
           NEW b1, ExpenseUndoing(b, b1, cmd.op, t, i)
    PROVE  BooksKnow(ops1, b1, {cmd.op})
<1> DEFINE e == b.expenses[i]
<1>1. i \in ExpenseIds /\ Blank \notin ExpenseOps
  BY DocumentInFacts DEF ExpenseDocument, ExpenseAssumption
<1>2. e # Blank /\ e.op = t /\ e.status = "posted" /\ ExpenseKnows(ops, b, i)
  BY <1>1 DEF BooksKnow, OperationWritten, IsPosted
<1>3. ASSUME NEW p \in b.payments, p.op = t
      PROVE  p.recognition /\ p.expense = i /\ p.status = "posted"
  <2>1. PaymentKnows(ops, b, p) /\ p \in PaymentRows BY DEF BooksKnow, PaymentKnows
  <2>2. p.recognition BY <1>3, <2>1 DEF PaymentKnows
  <2>3. p.expense \in ExpenseIds BY <2>1 DEF PaymentRows
  <2>4. b.expenses[p.expense] # Blank /\ b.expenses[p.expense].op = t
        /\ p.status = b.expenses[p.expense].status
    BY <1>3, <2>1, <2>2 DEF PaymentKnows
  <2>5. ExpenseKnows(ops, b, p.expense) BY <2>3 DEF BooksKnow
  <2>6. p.expense = i BY <2>4, <2>5 DEF ExpenseKnows
  <2> QED BY <1>2, <2>2, <2>4, <2>6
<1>4. PaymentsBy(b, t) = PostedPayments(b, i)
  <2>1. ASSUME NEW p \in PostedPayments(b, i) PROVE p.op = t
    <3>1. p \in b.payments /\ p.expense = i /\ p.recognition BY DEF LaterPayments, PostedPayments
    <3>2. PaymentKnows(ops, b, p) BY <3>1 DEF BooksKnow
    <3> QED BY <1>2, <3>1, <3>2 DEF PaymentKnows
  <2> QED BY <1>3, <2>1 DEF PaymentsBy, PostedPayments
<1>5. /\ b1.payments = (b.payments \ PostedPayments(b, i))
                         \cup {[p EXCEPT !.status = "cancelled"] : p \in PostedPayments(b, i)}
      /\ b1.facts = b.facts \cup Reversals(b, cmd.op, t)
      /\ b1.expenses = [b.expenses EXCEPT ![i] = [b.expenses[i] EXCEPT !.status = "cancelled"]]
      /\ b1 = [expenses |-> b1.expenses, payments |-> b1.payments, facts |-> b1.facts, archived |-> b1.archived]
  BY DEF ExpenseUndoing
<1>6. Cancels(b, b1, cmd.op, t) BY <1>4, <1>5 DEF Cancels, PostedPayments
<1>7. DOMAIN b.expenses = ExpenseIds BY DEF BooksKnow
<1>8. /\ DOMAIN b1.expenses = ExpenseIds
      /\ b1.expenses[i] = [e EXCEPT !.status = "cancelled"]
      /\ \A j \in ExpenseIds : j # i => b1.expenses[j] = b.expenses[j]
  BY <1>1, <1>5, <1>7
<1> DEFINE e1 == b1.expenses[i]
<1>9. e \in [op : ExpenseOps, amount : Nat \ {0}, category : Categories \cup {Blank},
             isDue : BOOLEAN, status : {"posted", "cancelled"}]
  BY <1>2 DEF ExpenseKnows
<1>10. /\ e1 \in [op : ExpenseOps, amount : Nat \ {0}, category : Categories \cup {Blank},
                  isDue : BOOLEAN, status : {"posted", "cancelled"}]
       /\ e1.op = t /\ e1.amount = e.amount /\ e1.isDue = e.isDue /\ e1.status = "cancelled"
  <2> HIDE DEF e
  <2>1. e1 = [e EXCEPT !.status = "cancelled"] BY <1>8 DEF e
  <2>2. e.op = t BY <1>2 DEF e
  <2> QED BY <1>9, <2>1, <2>2
<1>11. e1 # Blank
  BY <1>10 DEF ExpenseAssumption
<1>12. /\ cmd.op \in ExpenseOps /\ ~DoneIn(ops, cmd.op) /\ CorrectedIn(ops1, t)
       /\ \A o \in ExpenseOps : o # cmd.op => ops1[o] = ops[o]
       /\ \A o \in ExpenseOps : DoneIn(ops, o) =>
            o # cmd.op /\ DoneIn(ops1, o) /\ DocumentIn(ops1, o) = DocumentIn(ops, o)
       /\ \A o \in ExpenseOps : o # t => (CorrectedIn(ops1, o) <=> CorrectedIn(ops, o))
  BY DEF Taken, Corrects1
<1>13. /\ \A p \in b.payments : p \in PaymentRows
       /\ \A p \in b.payments : Turned(p, t) \in b1.payments
       /\ \A q \in b1.payments : \E p \in b.payments : q = Turned(p, t)
       /\ IsFiniteSet(b1.payments)
       /\ \A j : PostedPayments(b1, j) = PostedPayments(b, j) \ PaymentsBy(b, t)
  BY <1>6, TurnedPayments
<1>14. \A p \in b.payments :
         /\ Turned(p, t) \in PaymentRows
         /\ Turned(p, t).op = p.op /\ Turned(p, t).expense = p.expense
         /\ Turned(p, t).amount = p.amount /\ Turned(p, t).source = p.source
         /\ Turned(p, t).recognition = p.recognition
         /\ Turned(p, t).status = (IF p.op = t THEN "cancelled" ELSE p.status)
  BY <1>13, TurnedFields
<1> HIDE DEF e, e1
<1>15. ASSUME NEW j \in ExpenseIds PROVE ExpenseKnows(ops1, b1, j)
  <2>0. ExpenseKnows(ops, b, j) BY DEF BooksKnow
  <2>1. CASE j = i
    <3>1. /\ DocumentIn(ops, t).amount = e.amount
          /\ e.isDue <=> IsDue(DocumentIn(ops, t))
          /\ ~e.isDue => \E p \in b.payments : p.expense = i /\ p.recognition
      BY <1>2 DEF ExpenseKnows, e
    <3>2. ~e1.isDue => \E p \in b1.payments : p.expense = i /\ p.recognition
      <4>1. HAVE ~e1.isDue
      <4>2. PICK p \in b.payments : p.expense = i /\ p.recognition BY <1>10, <3>1, <4>1
      <4> QED BY <1>13, <1>14, <4>2
    <3>3. b1.expenses[j] = e1 BY <2>1 DEF e1
    <3>4. DoneIn(ops1, t) /\ DocumentIn(ops1, t) = DocumentIn(ops, t) BY <1>12
    <3> QED BY <1>10, <1>12, <2>1, <3>1, <3>2, <3>3, <3>4 DEF ExpenseKnows
  <2>2. CASE j # i
    <3>1. b1.expenses[j] = b.expenses[j] BY <1>8, <2>2
    <3>2. CASE b.expenses[j] = Blank BY <3>1, <3>2 DEF ExpenseKnows
    <3>3. CASE b.expenses[j] # Blank
      <4>1. b.expenses[j].op \in ExpenseOps /\ b.expenses[j].op # t
        BY <2>0, <2>2, <3>3 DEF ExpenseKnows
      <4>2. ~b.expenses[j].isDue => \E p \in b1.payments : p.expense = j /\ p.recognition
        <5>1. HAVE ~b.expenses[j].isDue
        <5>2. PICK p \in b.payments : p.expense = j /\ p.recognition BY <2>0, <3>3, <5>1 DEF ExpenseKnows
        <5> QED BY <1>13, <1>14, <5>2
      <4> QED BY <1>12, <2>0, <3>1, <3>3, <4>1, <4>2 DEF ExpenseKnows
    <3> QED BY <3>2, <3>3
  <2> QED BY <2>1, <2>2
<1>16. ASSUME NEW q \in b1.payments PROVE PaymentKnows(ops1, b1, q)
  <2>1. PICK p \in b.payments : q = Turned(p, t) BY <1>13
  <2>2. PaymentKnows(ops, b, p) BY DEF BooksKnow
  <2>3. p.op \in ExpenseOps /\ p.expense \in ExpenseIds /\ DoneIn(ops, p.op)
    BY <1>13, <2>2 DEF PaymentKnows, PaymentRows
  <2>4. \A r \in b1.payments : r.op = q.op => r = q
    <3> TAKE r \in b1.payments
    <3>1. PICK s \in b.payments : r = Turned(s, t) BY <1>13
    <3>2. HAVE r.op = q.op
    <3>3. s.op = p.op BY <1>14, <2>1, <3>1, <3>2
    <3> QED BY <2>1, <2>2, <3>1, <3>3 DEF PaymentKnows
  <2>5. CASE p.op = t
    <3>1. p.recognition /\ p.expense = i BY <1>3, <2>5
    <3>2. ~e.isDue /\ p.amount = e.amount /\ p.source = DocumentIn(ops, p.op).source
      BY <2>2, <3>1 DEF PaymentKnows, e
    <3>3. /\ q \in PaymentRows /\ q.op = t /\ q.expense = i /\ q.amount = e1.amount
          /\ q.source = DocumentIn(ops1, t).source /\ q.recognition /\ q.status = "cancelled"
      BY <1>10, <1>12, <1>14, <2>1, <2>5, <3>1, <3>2
    <3>4. DoneIn(ops1, t) /\ b1.expenses[i] # Blank /\ b1.expenses[i].op = t
          /\ ~b1.expenses[i].isDue /\ b1.expenses[i].status = "cancelled" /\ b1.expenses[i].amount = e1.amount
      BY <1>10, <1>11, <1>12, <3>2 DEF e1
    <3> QED BY <2>4, <3>3, <3>4 DEF PaymentKnows
  <2>6. CASE p.op # t /\ p.expense # i
    <3>1. q = p /\ b1.expenses[p.expense] = b.expenses[p.expense] BY <1>8, <2>1, <2>3, <2>6 DEF Turned
    <3>2. DoneIn(ops1, p.op) /\ DocumentIn(ops1, p.op) = DocumentIn(ops, p.op)
          /\ (CorrectedIn(ops1, p.op) <=> CorrectedIn(ops, p.op))
      BY <1>12, <2>3, <2>6
    <3> QED BY <2>2, <2>4, <3>1, <3>2 DEF PaymentKnows
  <2>7. CASE p.op # t /\ p.expense = i
    <3>1. q = p BY <2>1, <2>7 DEF Turned
    <3>2. ~p.recognition BY <1>2, <2>2, <2>7 DEF PaymentKnows, e
    <3>3. p.status # "posted" BY <1>4, <2>7 DEF PaymentsBy, PostedPayments
    <3>4. DoneIn(ops1, p.op) /\ DocumentIn(ops1, p.op) = DocumentIn(ops, p.op)
          /\ (CorrectedIn(ops1, p.op) <=> CorrectedIn(ops, p.op))
      BY <1>12, <2>3, <2>7
    <3>5. e.isDue BY <2>2, <2>7, <3>2 DEF PaymentKnows, e
    <3>6. b1.expenses[p.expense] # Blank /\ b1.expenses[p.expense].isDue
      BY <1>10, <1>11, <2>7, <3>5 DEF e1
    <3>7. q \in PaymentRows BY <1>13, <3>1
    <3> QED BY <2>2, <2>4, <3>1, <3>2, <3>3, <3>4, <3>6, <3>7 DEF PaymentKnows
  <2> QED BY <2>5, <2>6, <2>7
<1>17. ASSUME NEW o \in ExpenseOps, o # cmd.op PROVE OperationWritten(ops1, b1, o)
  <2>1. OperationWritten(ops, b, o) BY DEF BooksKnow
  <2>2. CASE ~DoneIn(ops1, o) BY <2>2 DEF OperationWritten
  <2>3. CASE DoneIn(ops1, o)
    <3>1. DoneIn(ops, o) /\ DocumentIn(ops1, o) = DocumentIn(ops, o) BY <1>12, <1>17, <2>3 DEF DoneIn
    <3>2. ASSUME DocumentIn(ops, o).kind = "recognize"
          PROVE  /\ b1.expenses[DocumentIn(ops, o).expense] # Blank
                 /\ b1.expenses[DocumentIn(ops, o).expense].op = o
      <4>1. DocumentIn(ops, o).expense \in ExpenseIds BY <3>1, <3>2, DocumentInFacts DEF ExpenseDocument
      <4>2. /\ b.expenses[DocumentIn(ops, o).expense] # Blank
            /\ b.expenses[DocumentIn(ops, o).expense].op = o
        BY <2>1, <3>1, <3>2 DEF OperationWritten
      <4>3. CASE DocumentIn(ops, o).expense = i
        BY <1>2, <1>10, <1>11, <4>2, <4>3 DEF e, e1
      <4>4. CASE DocumentIn(ops, o).expense # i
        BY <1>8, <4>1, <4>2, <4>4
      <4> QED BY <4>3, <4>4
    <3>3. DocumentIn(ops, o).kind = "pay" => \E q \in b1.payments : q.op = o /\ ~q.recognition
      <4>1. HAVE DocumentIn(ops, o).kind = "pay"
      <4>2. PICK p \in b.payments : p.op = o /\ ~p.recognition BY <2>1, <3>1, <4>1 DEF OperationWritten
      <4> QED BY <1>13, <1>14, <4>2
    <3> QED BY <3>1, <3>2, <3>3 DEF OperationWritten
  <2> QED BY <2>2, <2>3
<1>18. /\ \A f \in b1.facts : FactKnows(ops1, b1, f)
       /\ \A q \in b1.payments : Funding(q) \in b1.facts /\ q.op # cmd.op
  BY <1>1, <1>6, CancelsFacts
<1>19. SumsKnow(b1)
  <2>1. ASSUME NEW j \in ExpenseIds, IsPosted(b1, j), b1.expenses[j].isDue
        PROVE  Settled(b1, j) <= b1.expenses[j].amount
    <3>1. j # i BY <1>10, <2>1 DEF IsPosted, e1
    <3>2. b1.expenses[j] = b.expenses[j] BY <1>8, <3>1
    <3>3. PostedPayments(b1, j) = PostedPayments(b, j)
      <4>1. \A p \in PaymentsBy(b, t) : p \notin PostedPayments(b, j)
        BY <1>4, <3>1 DEF PostedPayments
      <4> QED BY <1>13, <4>1
    <3>4. Settled(b, j) <= b.expenses[j].amount BY <2>1, <3>2 DEF BooksKnow, SumsKnow, IsPosted
    <3> QED BY <3>2, <3>3, <3>4 DEF Settled
  <2>2. /\ IsFiniteSet(b1.facts)
        /\ SumOf("money", b1.facts) = -SumOf("amount", PaidFrom(b1, "money_account"))
        /\ SumOf("owner", b1.facts) = SumOf("amount", PaidFrom(b1, "owner_pocket"))
    BY <1>1, <1>6, <1>12, CancelsSums
  <2> QED BY <1>13, <2>1, <2>2 DEF SumsKnow
<1> QED BY <1>5, <1>8, <1>15, <1>16, <1>17, <1>18, <1>19 DEF BooksKnow

\* A later payment is corrected: it alone is cancelled.
PaymentUndoing(b, b1, op, t) ==
    b1 = [expenses |-> b.expenses,
          payments |-> (b.payments \ {p \in b.payments : p.op = t /\ ~p.recognition})
                         \cup {[p EXCEPT !.status = "cancelled"] :
                                 p \in {p \in b.payments : p.op = t /\ ~p.recognition}},
          facts |-> b.facts \cup Reversals(b, op, t),
          archived |-> b.archived]

LEMMA UndoPayment ==
    ASSUME NEW commands, ExpenseAssumption(commands), NEW ops, OperationsKnow(ops, commands),
           NEW cmd \in commands, NEW ops1, Taken(ops, ops1, cmd, "applied"), IsCorrection(cmd),
           NEW b, BooksKnow(ops, b, {}), NEW t \in ExpenseOps, t = cmd.target, DoneIn(ops, t),
           DocumentIn(ops, t).kind = "pay",
           \A p \in b.payments : p.op = t /\ ~p.recognition => p.status = "posted",
           NEW b1, PaymentUndoing(b, b1, cmd.op, t)
    PROVE  BooksKnow(ops1, b1, {cmd.op})
<1>1. Blank \notin ExpenseOps BY DEF ExpenseAssumption
<1>2. ASSUME NEW j \in ExpenseIds, b.expenses[j] # Blank PROVE b.expenses[j].op # t
  <2>1. ExpenseKnows(ops, b, j) BY DEF BooksKnow
  <2> QED BY <1>2, <2>1 DEF ExpenseKnows
<1>3. ASSUME NEW p \in b.payments, p.op = t PROVE ~p.recognition
  <2>1. PaymentKnows(ops, b, p) /\ p.expense \in ExpenseIds BY DEF BooksKnow, PaymentKnows, PaymentRows
  <2> QED BY <1>2, <1>3, <2>1 DEF PaymentKnows
<1>4. PaymentsBy(b, t) = {p \in b.payments : p.op = t /\ ~p.recognition}
  BY <1>3 DEF PaymentsBy
<1>5. /\ b1.payments = (b.payments \ PaymentsBy(b, t))
                         \cup {[p EXCEPT !.status = "cancelled"] : p \in PaymentsBy(b, t)}
      /\ b1.facts = b.facts \cup Reversals(b, cmd.op, t)
      /\ b1.expenses = b.expenses
      /\ b1 = [expenses |-> b1.expenses, payments |-> b1.payments, facts |-> b1.facts, archived |-> b1.archived]
  BY <1>4 DEF PaymentUndoing
<1>6. Cancels(b, b1, cmd.op, t) BY <1>3, <1>5 DEF Cancels, PaymentsBy
<1>7. DOMAIN b.expenses = ExpenseIds BY DEF BooksKnow
<1>12. /\ cmd.op \in ExpenseOps /\ ~DoneIn(ops, cmd.op) /\ CorrectedIn(ops1, t)
       /\ \A o \in ExpenseOps : o # cmd.op => ops1[o] = ops[o]
       /\ \A o \in ExpenseOps : DoneIn(ops, o) =>
            o # cmd.op /\ DoneIn(ops1, o) /\ DocumentIn(ops1, o) = DocumentIn(ops, o)
       /\ \A o \in ExpenseOps : o # t => (CorrectedIn(ops1, o) <=> CorrectedIn(ops, o))
  BY DEF Taken, Corrects1
<1>13. /\ \A p \in b.payments : p \in PaymentRows
       /\ \A p \in b.payments : Turned(p, t) \in b1.payments
       /\ \A q \in b1.payments : \E p \in b.payments : q = Turned(p, t)
       /\ IsFiniteSet(b1.payments)
       /\ \A j : PostedPayments(b1, j) = PostedPayments(b, j) \ PaymentsBy(b, t)
  BY <1>6, TurnedPayments
<1>14. \A p \in b.payments :
         /\ Turned(p, t) \in PaymentRows
         /\ Turned(p, t).op = p.op /\ Turned(p, t).expense = p.expense
         /\ Turned(p, t).amount = p.amount /\ Turned(p, t).source = p.source
         /\ Turned(p, t).recognition = p.recognition
         /\ Turned(p, t).status = (IF p.op = t THEN "cancelled" ELSE p.status)
  BY <1>13, TurnedFields
<1>15. ASSUME NEW j \in ExpenseIds PROVE ExpenseKnows(ops1, b1, j)
  <2>0. ExpenseKnows(ops, b, j) BY DEF BooksKnow
  <2>1. b1.expenses[j] = b.expenses[j] BY <1>5
  <2>2. CASE b.expenses[j] = Blank BY <2>1, <2>2 DEF ExpenseKnows
  <2>3. CASE b.expenses[j] # Blank
    <3>1. b.expenses[j].op \in ExpenseOps /\ b.expenses[j].op # t
      BY <1>2, <2>0, <2>3 DEF ExpenseKnows
    <3>2. ~b.expenses[j].isDue => \E p \in b1.payments : p.expense = j /\ p.recognition
      <4>1. HAVE ~b.expenses[j].isDue
      <4>2. PICK p \in b.payments : p.expense = j /\ p.recognition BY <2>0, <2>3, <4>1 DEF ExpenseKnows
      <4> QED BY <1>13, <1>14, <4>2
    <3> QED BY <1>12, <2>0, <2>1, <2>3, <3>1, <3>2 DEF ExpenseKnows
  <2> QED BY <2>2, <2>3
<1>16. ASSUME NEW q \in b1.payments PROVE PaymentKnows(ops1, b1, q)
  <2>1. PICK p \in b.payments : q = Turned(p, t) BY <1>13
  <2>2. PaymentKnows(ops, b, p) BY DEF BooksKnow
  <2>3. p.op \in ExpenseOps /\ p.expense \in ExpenseIds /\ DoneIn(ops, p.op)
    BY <1>13, <2>2 DEF PaymentKnows, PaymentRows
  <2>4. \A r \in b1.payments : r.op = q.op => r = q
    <3> TAKE r \in b1.payments
    <3>1. PICK s \in b.payments : r = Turned(s, t) BY <1>13
    <3>2. HAVE r.op = q.op
    <3>3. s.op = p.op BY <1>14, <2>1, <3>1, <3>2
    <3> QED BY <2>1, <2>2, <3>1, <3>3 DEF PaymentKnows
  <2>5. DoneIn(ops1, p.op) /\ DocumentIn(ops1, p.op) = DocumentIn(ops, p.op) /\ b1.expenses = b.expenses
    BY <1>5, <1>12, <2>3
  <2>6. CASE p.op = t
    <3>1. ~p.recognition BY <1>3, <2>6
    <3>2. b.expenses[p.expense] # Blank /\ b.expenses[p.expense].isDue
          /\ DocumentIn(ops, t).kind = "pay" /\ DocumentIn(ops, t).expense = p.expense
      BY <2>2, <2>6, <3>1 DEF PaymentKnows
    <3>3. /\ q \in PaymentRows /\ q.op = t /\ q.expense = p.expense
          /\ ~q.recognition /\ q.status = "cancelled"
      BY <1>14, <2>1, <2>6, <3>1
    <3> QED BY <1>12, <2>4, <2>5, <2>6, <3>2, <3>3 DEF PaymentKnows
  <2>7. CASE p.op # t
    <3>1. q = p BY <2>1, <2>7 DEF Turned
    <3>2. CorrectedIn(ops1, p.op) <=> CorrectedIn(ops, p.op) BY <1>12, <2>3, <2>7
    <3> QED BY <2>2, <2>4, <2>5, <3>1, <3>2 DEF PaymentKnows
  <2> QED BY <2>6, <2>7
<1>17. ASSUME NEW o \in ExpenseOps, o # cmd.op PROVE OperationWritten(ops1, b1, o)
  <2>1. OperationWritten(ops, b, o) BY DEF BooksKnow
  <2>2. CASE ~DoneIn(ops1, o) BY <2>2 DEF OperationWritten
  <2>3. CASE DoneIn(ops1, o)
    <3>1. DoneIn(ops, o) /\ DocumentIn(ops1, o) = DocumentIn(ops, o) BY <1>12, <1>17, <2>3 DEF DoneIn
    <3>2. DocumentIn(ops, o).kind = "pay" => \E q \in b1.payments : q.op = o /\ ~q.recognition
      <4>1. HAVE DocumentIn(ops, o).kind = "pay"
      <4>2. PICK p \in b.payments : p.op = o /\ ~p.recognition BY <2>1, <3>1, <4>1 DEF OperationWritten
      <4> QED BY <1>13, <1>14, <4>2
    <3> QED BY <1>5, <2>1, <3>1, <3>2 DEF OperationWritten
  <2> QED BY <2>2, <2>3
<1>18. /\ \A f \in b1.facts : FactKnows(ops1, b1, f)
       /\ \A q \in b1.payments : Funding(q) \in b1.facts /\ q.op # cmd.op
  BY <1>1, <1>6, CancelsFacts
<1>19. SumsKnow(b1)
  <2>1. ASSUME NEW j \in ExpenseIds, IsPosted(b1, j), b1.expenses[j].isDue
        PROVE  Settled(b1, j) <= b1.expenses[j].amount
    <3>1. b1.expenses[j] = b.expenses[j] BY <1>5
    <3>2. Settled(b, j) <= b.expenses[j].amount BY <2>1, <3>1 DEF BooksKnow, SumsKnow, IsPosted
    <3>3. PostedPayments(b, j) \in SUBSET b.payments BY DEF PostedPayments
    <3>4. Settled(b, j) \in Nat BY <3>3, PaidNumbers DEF Settled
    <3>5. ExpenseKnows(ops, b, j) BY DEF BooksKnow
    <3>6. b.expenses[j].amount \in Nat BY <2>1, <3>1, <3>5 DEF ExpenseKnows, IsPosted
    <3>7. Settled(b1, j) \in Nat /\ Settled(b1, j) <= Settled(b, j)
      <4>1. CASE PostedPayments(b1, j) = PostedPayments(b, j) BY <3>4, <4>1 DEF Settled
      <4>2. CASE PostedPayments(b1, j) # PostedPayments(b, j)
        <5>1. PICK p \in PostedPayments(b, j) : p \in PaymentsBy(b, t) BY <1>13, <4>2
        <5>2. PaymentsBy(b, t) = {p} BY <5>1, PaymentsByOne
        <5>3. PostedPayments(b1, j) = PostedPayments(b, j) \ {p} BY <1>13, <5>2
        <5>4. Settled(b, j) = Settled(b1, j) + p.amount BY <3>3, <5>3, PaidNumbers DEF Settled
        <5>5. PostedPayments(b1, j) \in SUBSET b.payments BY <3>3, <5>3
        <5>6. Settled(b1, j) \in Nat BY <5>5, PaidNumbers DEF Settled
        <5>7. p.amount \in Nat BY <1>13, <3>3 DEF PaymentRows
        <5> QED BY <3>4, <5>4, <5>6, <5>7
      <4> QED BY <4>1, <4>2
    <3> QED BY <3>1, <3>2, <3>4, <3>6, <3>7
  <2>2. /\ IsFiniteSet(b1.facts)
        /\ SumOf("money", b1.facts) = -SumOf("amount", PaidFrom(b1, "money_account"))
        /\ SumOf("owner", b1.facts) = SumOf("amount", PaidFrom(b1, "owner_pocket"))
    BY <1>1, <1>6, <1>12, CancelsSums
  <2> QED BY <1>13, <2>1, <2>2 DEF SumsKnow
<1> QED BY <1>5, <1>7, <1>15, <1>16, <1>17, <1>18, <1>19 DEF BooksKnow

-----------------------------------------------------------------------------
\* A payment, or none, is written with its fact under an operation that has none yet.
AddsRows(b, b2, new) ==
    b2.payments = b.payments \cup new /\ b2.facts = b.facts \cup {Funding(p) : p \in new}
NewOf(new, o) ==
    /\ new = {} \/ \E p : new = {p}
    /\ \A p \in new : p \in PaymentRows /\ p.op = o /\ p.status = "posted"

LEMMA AddedSums ==
    ASSUME NEW ops, NEW o \in ExpenseOps, NEW b, BooksKnow(ops, b, {o}),
           NEW new, NewOf(new, o), NEW b2, AddsRows(b, b2, new)
    PROVE  /\ IsFiniteSet(b2.payments) /\ IsFiniteSet(b2.facts)
           /\ SumOf("money", b2.facts) = -SumOf("amount", PaidFrom(b2, "money_account"))
           /\ SumOf("owner", b2.facts) = SumOf("amount", PaidFrom(b2, "owner_pocket"))
<1>1. /\ IsFiniteSet(b.payments) /\ IsFiniteSet(b.facts)
      /\ SumOf("money", b.facts) = -SumOf("amount", PaidFrom(b, "money_account"))
      /\ SumOf("owner", b.facts) = SumOf("amount", PaidFrom(b, "owner_pocket"))
  BY DEF BooksKnow, SumsKnow
<1>2. CASE new = {}
  <2>1. b2.payments = b.payments /\ b2.facts = b.facts BY <1>2 DEF AddsRows
  <2>2. \A s : PaidFrom(b2, s) = PaidFrom(b, s) BY <2>1 DEF PaidFrom
  <2> QED BY <1>1, <2>1, <2>2
<1>3. CASE \E p : new = {p}
  <2>1. PICK p : new = {p} BY <1>3
  <2>2. p \in PaymentRows /\ p.op = o /\ p.status = "posted" BY <2>1 DEF NewOf
  <2> DEFINE f == Funding(p)
  <2>3. b2.payments = b.payments \cup {p} /\ b2.facts = b.facts \cup {f} BY <2>1 DEF AddsRows
  <2>4. p \notin b.payments BY <2>2 DEF BooksKnow
  <2>5. f \notin b.facts
    <3>1. f.op = o /\ f.reverses = Blank BY <2>2 DEF Funding
    <3>2. ASSUME f \in b.facts PROVE FALSE
      <4>1. PICK q \in b.payments : f = Funding(q) BY <3>1, <3>2 DEF BooksKnow, FactKnows
      <4>2. q.op = o BY <3>1, <4>1 DEF Funding
      <4> QED BY <4>2 DEF BooksKnow
    <3> QED BY <3>2
  <2>6. p.amount \in Nat /\ p["amount"] \in Int /\ p.source \in {"money_account", "owner_pocket"}
    BY <2>2 DEF PaymentRows
  <2>7. /\ f["money"] = (IF p.source = "money_account" THEN -p.amount ELSE 0)
        /\ f["owner"] = (IF p.source = "owner_pocket" THEN p.amount ELSE 0)
    BY DEF Funding
  <2>8. \A g \in b.facts : g["money"] \in Int /\ g["owner"] \in Int BY FactNumbers
  <2>9. f["money"] \in Int /\ f["owner"] \in Int BY <2>6, <2>7
  <2> HIDE DEF f
  <2>10. /\ IsFiniteSet(b.facts \cup {f})
         /\ SumOf("money", b.facts \cup {f}) = SumOf("money", b.facts) + f["money"]
    BY <1>1, <2>5, <2>8, <2>9, SumOfMore
  <2>11. SumOf("owner", b.facts \cup {f}) = SumOf("owner", b.facts) + f["owner"]
    BY <1>1, <2>5, <2>8, <2>9, SumOfMore
  <2>12. \A s : /\ SumOf("amount", PaidFrom(b, s)) \in Int
                /\ SumOf("amount", PaidFrom(b2, s)) =
                     (IF p.source = s THEN SumOf("amount", PaidFrom(b, s)) + p.amount
                      ELSE SumOf("amount", PaidFrom(b, s)))
    <3> TAKE s
    <3>1. PaidFrom(b, s) \in SUBSET b.payments BY DEF PaidFrom
    <3>2. /\ IsFiniteSet(PaidFrom(b, s)) /\ \A q \in PaidFrom(b, s) : q["amount"] \in Int
          /\ SumOf("amount", PaidFrom(b, s)) \in Int
      BY <3>1, PaidNumbers
    <3>3. CASE p.source = s
      <4>1. PaidFrom(b2, s) = PaidFrom(b, s) \cup {p} BY <2>2, <2>3, <3>3 DEF PaidFrom
      <4>2. p \notin PaidFrom(b, s) BY <2>4, <3>1
      <4>3. SumOf("amount", PaidFrom(b, s) \cup {p}) = SumOf("amount", PaidFrom(b, s)) + p["amount"]
        BY <2>6, <3>2, <4>2, SumOfMore
      <4> QED BY <3>2, <3>3, <4>1, <4>3
    <3>4. CASE p.source # s
      <4>1. PaidFrom(b2, s) = PaidFrom(b, s) BY <2>3, <3>4 DEF PaidFrom
      <4> QED BY <3>2, <3>4, <4>1
    <3> QED BY <3>3, <3>4
  <2>13. /\ SumOf("amount", PaidFrom(b, "money_account")) \in Int
         /\ SumOf("amount", PaidFrom(b, "owner_pocket")) \in Int
    BY <2>12
  <2>14. SumOf("money", b2.facts) = -SumOf("amount", PaidFrom(b2, "money_account"))
    <3>1. SumOf("amount", PaidFrom(b2, "money_account")) =
            (IF p.source = "money_account" THEN SumOf("amount", PaidFrom(b, "money_account")) + p.amount
             ELSE SumOf("amount", PaidFrom(b, "money_account")))
      BY <2>12
    <3> QED BY <1>1, <2>3, <2>6, <2>7, <2>10, <2>13, <3>1
  <2>15. SumOf("owner", b2.facts) = SumOf("amount", PaidFrom(b2, "owner_pocket"))
    <3>1. SumOf("amount", PaidFrom(b2, "owner_pocket")) =
            (IF p.source = "owner_pocket" THEN SumOf("amount", PaidFrom(b, "owner_pocket")) + p.amount
             ELSE SumOf("amount", PaidFrom(b, "owner_pocket")))
      BY <2>12
    <3> QED BY <1>1, <2>3, <2>6, <2>7, <2>11, <2>13, <3>1
  <2>16. IsFiniteSet(b2.payments) BY <1>1, <2>3, FS_AddElement
  <2> QED BY <2>3, <2>10, <2>14, <2>15, <2>16
<1> QED BY <1>2, <1>3 DEF NewOf

Added(ops, b, b2, new) ==
    /\ \A f \in b2.facts : FactKnows(ops, b2, f)
    /\ \A p \in b2.payments : Funding(p) \in b2.facts
    /\ \A p, q \in b2.payments : q.op = p.op => q = p
    /\ \A j, p : p \in PostedPayments(b2, j) <=> p \in PostedPayments(b, j) \/ (p \in new /\ p.expense = j)

LEMMA AddedRows ==
    ASSUME NEW ops, NEW o \in ExpenseOps, DoneIn(ops, o), NEW b, BooksKnow(ops, b, {o}),
           NEW new, NewOf(new, o), NEW b2, AddsRows(b, b2, new)
    PROVE  Added(ops, b, b2, new)
<1>1. b2.payments = b.payments \cup new /\ b2.facts = b.facts \cup {Funding(p) : p \in new} BY DEF AddsRows
<1>2. \A p \in new : p \in PaymentRows /\ p.op = o /\ p.status = "posted" BY DEF NewOf
<1>3. ASSUME NEW f \in b.facts PROVE FactKnows(ops, b2, f)
  BY <1>1 DEF BooksKnow, FactKnows
<1>4. ASSUME NEW p \in new PROVE FactKnows(ops, b2, Funding(p))
  <2>1. p.amount \in Nat /\ -p.amount \in Int /\ p.op = o BY <1>2 DEF PaymentRows
  <2>2. Funding(p) \in [op : ExpenseOps, reverses : ExpenseOps \cup {Blank}, money : Int, owner : Int]
        /\ Funding(p).op = o /\ Funding(p).reverses = Blank
    BY <2>1 DEF Funding
  <2>3. p \in b2.payments BY <1>1
  <2> QED BY <2>2, <2>3 DEF FactKnows
<1>5. \A p \in b2.payments : Funding(p) \in b2.facts BY <1>1 DEF BooksKnow
<1>6. \A p, q \in b2.payments : q.op = p.op => q = p
  <2>1. \A p, q \in b.payments : q.op = p.op => q = p BY DEF BooksKnow, PaymentKnows
  <2>2. \A p \in b.payments, q \in new : q.op # p.op BY <1>2 DEF BooksKnow
  <2>3. \A p, q \in new : q = p BY DEF NewOf
  <2> QED BY <1>1, <2>1, <2>2, <2>3
<1>7. \A j, p : p \in PostedPayments(b2, j) <=> p \in PostedPayments(b, j) \/ (p \in new /\ p.expense = j)
  BY <1>1, <1>2 DEF PostedPayments
<1> QED BY <1>1, <1>3, <1>4, <1>5, <1>6, <1>7 DEF Added

-----------------------------------------------------------------------------
\* An expense is recognized, under an identifier that is free.
Recognizes(b, b2, doc) ==
    b2 = [expenses |-> [b.expenses EXCEPT ![doc.expense] =
                          [op |-> doc.op, amount |-> doc.amount, category |-> doc.category,
                           isDue |-> IsDue(doc), status |-> "posted"]],
          payments |-> b.payments \cup (IF IsDue(doc) THEN {} ELSE {PaymentOf(doc.op, doc, TRUE)}),
          facts |-> b.facts \cup (IF IsDue(doc) THEN {} ELSE {FactOf(doc.op, doc)}),
          archived |-> b.archived]

LEMMA WriteRecognition ==
    ASSUME NEW commands, ExpenseAssumption(commands), NEW ops, OperationsKnow(ops, commands),
           NEW o \in ExpenseOps, DoneIn(ops, o), ~CorrectedIn(ops, o),
           NEW doc, doc = DocumentIn(ops, o), doc.kind = "recognize",
           NEW b, BooksKnow(ops, b, {o}), RecognitionAllowed(b, doc),
           NEW b2, Recognizes(b, b2, doc)
    PROVE  BooksKnow(ops, b2, {})
<1> DEFINE i == doc.expense
           pn == PaymentOf(o, doc, TRUE)
           new == IF IsDue(doc) THEN {} ELSE {pn}
           e == [op |-> o, amount |-> doc.amount, category |-> doc.category,
                 isDue |-> IsDue(doc), status |-> "posted"]
<1>1. /\ i \in ExpenseIds /\ doc.op = o /\ doc.amount \in Nat \ {0}
      /\ doc.source \in {"money_account", "owner_pocket", Blank}
  BY DocumentInFacts DEF ExpenseDocument
<1>2. b.expenses[i] = Blank /\ doc.category \in Categories \cup {Blank}
  BY DEF RecognitionAllowed, CategoryUsable
<1>3. DOMAIN b.expenses = ExpenseIds BY DEF BooksKnow
<1>4. /\ b2.expenses = [b.expenses EXCEPT ![i] = e]
      /\ b2 = [expenses |-> b2.expenses, payments |-> b2.payments, facts |-> b2.facts, archived |-> b2.archived]
  BY <1>1 DEF Recognizes
<1>5. AddsRows(b, b2, new)
  <2>1. FactOf(o, doc) = Funding(pn) BY DEF FactOf, Funding, PaymentOf
  <2>2. {Funding(p) : p \in new} = IF IsDue(doc) THEN {} ELSE {FactOf(o, doc)} BY <2>1
  <2>3. /\ b2.payments = b.payments \cup new
        /\ b2.facts = b.facts \cup (IF IsDue(doc) THEN {} ELSE {FactOf(o, doc)})
    BY <1>1 DEF Recognizes
  <2> HIDE DEF new
  <2> QED BY <2>2, <2>3 DEF AddsRows
<1>6. ~IsDue(doc) =>
        /\ pn \in PaymentRows /\ pn.op = o /\ pn.status = "posted" /\ pn.recognition /\ pn.expense = i
        /\ pn.amount = doc.amount /\ pn.source = doc.source
  BY <1>1 DEF PaymentOf, PaymentRows, IsDue
<1>7. NewOf(new, o)
  <2>1. CASE IsDue(doc) BY <2>1 DEF NewOf
  <2>2. CASE ~IsDue(doc)
    <3>1. new = {pn} BY <2>2
    <3> HIDE DEF new, pn
    <3> QED BY <1>6, <2>2, <3>1 DEF NewOf
  <2> QED BY <2>1, <2>2
<1>8. /\ e \in [op : ExpenseOps, amount : Nat \ {0}, category : Categories \cup {Blank},
                isDue : BOOLEAN, status : {"posted", "cancelled"}]
      /\ e.op = o /\ e.amount = doc.amount /\ (e.isDue <=> IsDue(doc)) /\ e.status = "posted"
  BY <1>1, <1>2 DEF IsDue
<1>9. e # Blank BY <1>8 DEF ExpenseAssumption
<1>10. \A p \in new : ~IsDue(doc) /\ p = pn OBVIOUS
<1>11. ~IsDue(doc) => pn \in new OBVIOUS
<1>12. b2.payments = b.payments \cup new BY <1>5 DEF AddsRows
<1>13. /\ DOMAIN b2.expenses = ExpenseIds /\ b2.expenses[i] = e
       /\ \A j \in ExpenseIds : j # i => b2.expenses[j] = b.expenses[j]
  <2> HIDE DEF e, i
  <2> QED BY <1>1, <1>3, <1>4 DEF i
<1> HIDE DEF new, pn, e
<1>14. ASSUME NEW p \in b.payments
       PROVE  p.expense \in ExpenseIds /\ p.expense # i /\ p.op # o /\ PaymentKnows(ops, b, p)
  <2>1. PaymentKnows(ops, b, p) /\ p.op # o BY DEF BooksKnow
  <2>2. p.expense \in ExpenseIds /\ b.expenses[p.expense] # Blank BY <2>1 DEF PaymentKnows, PaymentRows
  <2> QED BY <1>2, <2>1, <2>2
<1>15. /\ \A f \in b2.facts : FactKnows(ops, b2, f)
       /\ \A p \in b2.payments : Funding(p) \in b2.facts
       /\ \A p, q \in b2.payments : q.op = p.op => q = p
       /\ \A j, p : p \in PostedPayments(b2, j) <=> p \in PostedPayments(b, j) \/ (p \in new /\ p.expense = j)
  <2>1. Added(ops, b, b2, new) BY <1>5, <1>7, AddedRows
  <2> QED BY <2>1 DEF Added
<1>16. ASSUME NEW j \in ExpenseIds PROVE ExpenseKnows(ops, b2, j)
  <2>1. CASE j = i
    <3>1. ~e.isDue => \E p \in b2.payments : p.expense = i /\ p.recognition
      BY <1>6, <1>8, <1>11, <1>12
    <3>2. DocumentIn(ops, o).kind = "recognize" /\ DocumentIn(ops, o).expense = j
          /\ DocumentIn(ops, o).amount = e.amount /\ (e.isDue <=> IsDue(DocumentIn(ops, o)))
      BY <1>8, <2>1
    <3> QED BY <1>8, <1>13, <2>1, <3>1, <3>2 DEF ExpenseKnows
  <2>2. CASE j # i
    <3>1. ExpenseKnows(ops, b, j) BY DEF BooksKnow
    <3>2. b2.expenses[j] = b.expenses[j] BY <1>13, <2>2
    <3> QED BY <1>12, <3>1, <3>2 DEF ExpenseKnows
  <2> QED BY <2>1, <2>2
<1>17. ASSUME NEW p \in b2.payments PROVE PaymentKnows(ops, b2, p)
  <2>0. \A q \in b2.payments : q.op = p.op => q = p BY <1>15
  <2>1. CASE p \in b.payments
    <3>1. b2.expenses[p.expense] = b.expenses[p.expense] BY <1>13, <1>14, <2>1
    <3>2. PaymentKnows(ops, b, p) BY <1>14, <2>1
    <3> QED BY <2>0, <3>1, <3>2 DEF PaymentKnows
  <2>2. CASE p \in new
    <3>1. p = pn /\ ~IsDue(doc) BY <1>10, <2>2
    <3>2. /\ p \in PaymentRows /\ p.op = o /\ p.status = "posted" /\ p.recognition /\ p.expense = i
          /\ p.amount = e.amount /\ p.source = DocumentIn(ops, p.op).source
      BY <1>6, <1>8, <3>1
    <3>3. b2.expenses[p.expense] = e BY <1>13, <3>2
    <3>4. ~e.isDue BY <1>8, <3>1
    <3> QED BY <1>8, <1>9, <2>0, <3>2, <3>3, <3>4 DEF PaymentKnows
  <2> QED BY <1>12, <2>1, <2>2
<1>18. ASSUME NEW x \in ExpenseOps PROVE OperationWritten(ops, b2, x)
  <2>1. CASE x = o
    <3>1. b2.expenses[DocumentIn(ops, x).expense] = e /\ DocumentIn(ops, x).kind = "recognize"
      BY <1>13, <2>1
    <3> QED BY <1>8, <1>9, <2>1, <3>1 DEF OperationWritten
  <2>2. CASE x # o
    <3>1. OperationWritten(ops, b, x) BY <2>2 DEF BooksKnow
    <3>2. CASE DoneIn(ops, x) /\ DocumentIn(ops, x).kind = "recognize"
      <4>1. DocumentIn(ops, x).expense \in ExpenseIds BY <3>2, DocumentInFacts DEF ExpenseDocument
      <4>2. /\ b.expenses[DocumentIn(ops, x).expense] # Blank
            /\ b.expenses[DocumentIn(ops, x).expense].op = x
        BY <3>1, <3>2 DEF OperationWritten
      <4>3. b2.expenses[DocumentIn(ops, x).expense] = b.expenses[DocumentIn(ops, x).expense]
        BY <1>2, <1>13, <4>1, <4>2
      <4> QED BY <3>2, <4>2, <4>3 DEF OperationWritten
    <3>3. CASE ~(DoneIn(ops, x) /\ DocumentIn(ops, x).kind = "recognize")
      BY <1>12, <3>1, <3>3 DEF OperationWritten
    <3> QED BY <3>2, <3>3
  <2> QED BY <2>1, <2>2
<1>19. SumsKnow(b2)
  <2>1. ASSUME NEW j \in ExpenseIds, IsPosted(b2, j), b2.expenses[j].isDue
        PROVE  Settled(b2, j) <= b2.expenses[j].amount
    <3>1. CASE j = i
      <4>1. PostedPayments(b, j) = {} BY <1>14, <3>1 DEF PostedPayments
      <4>2. new = {} BY <1>8, <1>10, <1>13, <2>1, <3>1
      <4>3. PostedPayments(b2, j) = {} BY <1>15, <4>1, <4>2
      <4>4. SumOf("amount", {}) = 0 BY FS_EmptySet, SumOfFacts
      <4> QED BY <1>1, <1>8, <1>13, <3>1, <4>3, <4>4 DEF Settled
    <3>2. CASE j # i
      <4>1. b2.expenses[j] = b.expenses[j] BY <1>13, <3>2
      <4>2. PostedPayments(b2, j) = PostedPayments(b, j)
        <5>1. \A p : p \in PostedPayments(b2, j) <=> p \in PostedPayments(b, j)
          BY <1>6, <1>10, <1>15, <3>2
        <5> QED BY <5>1
      <4>3. Settled(b, j) <= b.expenses[j].amount BY <2>1, <4>1 DEF BooksKnow, SumsKnow, IsPosted
      <4> QED BY <4>1, <4>2, <4>3 DEF Settled
    <3> QED BY <3>1, <3>2
  <2>2. /\ IsFiniteSet(b2.payments) /\ IsFiniteSet(b2.facts)
        /\ SumOf("money", b2.facts) = -SumOf("amount", PaidFrom(b2, "money_account"))
        /\ SumOf("owner", b2.facts) = SumOf("amount", PaidFrom(b2, "owner_pocket"))
    BY <1>5, <1>7, AddedSums
  <2> QED BY <2>1, <2>2 DEF SumsKnow
<1> QED BY <1>4, <1>13, <1>15, <1>16, <1>17, <1>18, <1>19 DEF BooksKnow

\* A part of what is due is paid.
Pays(b, b2, doc) ==
    b2 = [expenses |-> b.expenses,
          payments |-> b.payments \cup {PaymentOf(doc.op, doc, FALSE)},
          facts |-> b.facts \cup {FactOf(doc.op, doc)},
          archived |-> b.archived]

LEMMA WritePayment ==
    ASSUME NEW commands, ExpenseAssumption(commands), NEW ops, OperationsKnow(ops, commands),
           NEW o \in ExpenseOps, DoneIn(ops, o), ~CorrectedIn(ops, o),
           NEW doc, doc = DocumentIn(ops, o), doc.kind = "pay",
           doc.source \in {"money_account", "owner_pocket"},
           NEW b, BooksKnow(ops, b, {o}), PaymentAllowed(b, doc),
           NEW b2, Pays(b, b2, doc)
    PROVE  BooksKnow(ops, b2, {})
<1> DEFINE i == doc.expense
           pn == PaymentOf(o, doc, FALSE)
<1>1. i \in ExpenseIds /\ doc.op = o /\ doc.amount \in Nat \ {0}
  BY DocumentInFacts DEF ExpenseDocument
<1>2. /\ b.expenses[i] # Blank /\ b.expenses[i].status = "posted" /\ b.expenses[i].isDue
      /\ IsPosted(b, i) /\ doc.amount <= Due(b, i)
  BY DEF PaymentAllowed, SettlementEligible, IsPosted
<1>3. /\ b2.expenses = b.expenses
      /\ b2 = [expenses |-> b2.expenses, payments |-> b2.payments, facts |-> b2.facts, archived |-> b2.archived]
  BY DEF Pays
<1>4. /\ pn \in PaymentRows /\ pn.op = o /\ pn.status = "posted" /\ ~pn.recognition /\ pn.expense = i
      /\ pn.amount = doc.amount
  BY <1>1 DEF PaymentOf, PaymentRows
<1>5. AddsRows(b, b2, {pn})
  <2>1. FactOf(o, doc) = Funding(pn) BY DEF FactOf, Funding, PaymentOf
  <2>2. b2.payments = b.payments \cup {pn} /\ b2.facts = b.facts \cup {FactOf(o, doc)}
    BY <1>1 DEF Pays
  <2> HIDE DEF pn
  <2> QED BY <2>1, <2>2 DEF AddsRows
<1> HIDE DEF pn
<1>6. NewOf({pn}, o) BY <1>4 DEF NewOf
<1>7. b2.payments = b.payments \cup {pn} BY <1>5 DEF AddsRows
<1>8. /\ \A f \in b2.facts : FactKnows(ops, b2, f)
      /\ \A p \in b2.payments : Funding(p) \in b2.facts
      /\ \A p, q \in b2.payments : q.op = p.op => q = p
      /\ \A j, p : p \in PostedPayments(b2, j) <=> p \in PostedPayments(b, j) \/ (p \in {pn} /\ p.expense = j)
  <2>1. Added(ops, b, b2, {pn}) BY <1>5, <1>6, AddedRows
  <2> QED BY <2>1 DEF Added
<1>9. ASSUME NEW j \in ExpenseIds PROVE ExpenseKnows(ops, b2, j)
  <2>1. ExpenseKnows(ops, b, j) BY DEF BooksKnow
  <2> QED BY <1>3, <1>7, <2>1 DEF ExpenseKnows
<1>10. ASSUME NEW p \in b2.payments PROVE PaymentKnows(ops, b2, p)
  <2>0. \A q \in b2.payments : q.op = p.op => q = p BY <1>8
  <2>1. CASE p \in b.payments
    <3>1. PaymentKnows(ops, b, p) BY <2>1 DEF BooksKnow
    <3> QED BY <1>3, <2>0, <3>1 DEF PaymentKnows
  <2>2. CASE p = pn
    <3>1. /\ p \in PaymentRows /\ p.op = o /\ p.status = "posted" /\ ~p.recognition /\ p.expense = i
      BY <1>4, <2>2
    <3> QED BY <1>2, <1>3, <2>0, <3>1 DEF PaymentKnows
  <2> QED BY <1>7, <2>1, <2>2
<1>11. ASSUME NEW x \in ExpenseOps PROVE OperationWritten(ops, b2, x)
  <2>1. CASE x = o
    <3>1. \E p \in b2.payments : p.op = x /\ ~p.recognition BY <1>4, <1>7, <2>1
    <3>2. DocumentIn(ops, x).kind # "recognize" BY <2>1
    <3> QED BY <3>1, <3>2 DEF OperationWritten
  <2>2. CASE x # o
    <3>1. OperationWritten(ops, b, x) BY <2>2 DEF BooksKnow
    <3> QED BY <1>3, <1>7, <3>1 DEF OperationWritten
  <2> QED BY <2>1, <2>2
<1>12. SumsKnow(b2)
  <2>1. ASSUME NEW j \in ExpenseIds, IsPosted(b2, j), b2.expenses[j].isDue
        PROVE  Settled(b2, j) <= b2.expenses[j].amount
    <3>0. b2.expenses[j] = b.expenses[j] BY <1>3
    <3>1. CASE j = i
      <4>1. PostedPayments(b, i) \in SUBSET b.payments BY DEF PostedPayments
      <4>2. /\ IsFiniteSet(PostedPayments(b, i)) /\ \A p \in PostedPayments(b, i) : p["amount"] \in Int
            /\ SumOf("amount", PostedPayments(b, i)) \in Nat
        BY <4>1, PaidNumbers
      <4>3. pn \notin PostedPayments(b, i) BY <1>4, <4>1 DEF BooksKnow
      <4>4. PostedPayments(b2, i) = PostedPayments(b, i) \cup {pn} BY <1>4, <1>8
      <4>5. pn["amount"] \in Int BY <1>1, <1>4
      <4>6. SumOf("amount", PostedPayments(b, i) \cup {pn}) = SumOf("amount", PostedPayments(b, i)) + pn["amount"]
        BY <4>2, <4>3, <4>5, SumOfMore
      <4>7. Settled(b2, i) = Settled(b, i) + doc.amount /\ Settled(b, i) \in Nat
        BY <1>4, <4>2, <4>4, <4>6 DEF Settled
      <4>8. doc.amount <= b.expenses[i].amount - Settled(b, i) BY <1>2 DEF Due
      <4>9. b.expenses[i].amount \in Nat BY <1>1, <1>2 DEF BooksKnow, ExpenseKnows
      <4> QED BY <1>1, <3>0, <3>1, <4>7, <4>8, <4>9
    <3>2. CASE j # i
      <4>1. PostedPayments(b2, j) = PostedPayments(b, j) BY <1>4, <1>8, <3>2
      <4>2. Settled(b, j) <= b.expenses[j].amount BY <2>1, <3>0 DEF BooksKnow, SumsKnow, IsPosted
      <4> QED BY <3>0, <4>1, <4>2 DEF Settled
    <3> QED BY <3>1, <3>2
  <2>2. /\ IsFiniteSet(b2.payments) /\ IsFiniteSet(b2.facts)
        /\ SumOf("money", b2.facts) = -SumOf("amount", PaidFrom(b2, "money_account"))
        /\ SumOf("owner", b2.facts) = SumOf("amount", PaidFrom(b2, "owner_pocket"))
    BY <1>5, <1>6, AddedSums
  <2> QED BY <2>1, <2>2 DEF SumsKnow
<1>13. DOMAIN b2.expenses = ExpenseIds BY <1>3 DEF BooksKnow
<1> QED BY <1>3, <1>8, <1>9, <1>10, <1>11, <1>12, <1>13 DEF BooksKnow

\* What becomes of a category leaves the rows alone.
LEMMA OtherArchive ==
    ASSUME NEW ops, NEW b, NEW late, BooksKnow(ops, b, late), NEW archived, NEW b1,
           b1 = [expenses |-> b.expenses, payments |-> b.payments, facts |-> b.facts, archived |-> archived]
    PROVE  BooksKnow(ops, b1, late)
<1>1. /\ b1.expenses = b.expenses /\ b1.payments = b.payments /\ b1.facts = b.facts
      /\ b1 = [expenses |-> b1.expenses, payments |-> b1.payments, facts |-> b1.facts, archived |-> b1.archived]
  OBVIOUS
<1>2. \A i \in ExpenseIds : ExpenseKnows(ops, b1, i) BY <1>1 DEF BooksKnow, ExpenseKnows
<1>3. \A p \in b1.payments : PaymentKnows(ops, b1, p) /\ Funding(p) \in b1.facts /\ p.op \notin late
  BY <1>1 DEF BooksKnow, PaymentKnows
<1>4. \A o \in ExpenseOps \ late : OperationWritten(ops, b1, o) BY <1>1 DEF BooksKnow, OperationWritten
<1>5. \A f \in b1.facts : FactKnows(ops, b1, f) BY <1>1 DEF BooksKnow, FactKnows
<1>6. SumsKnow(b1)
  <2>1. \A i : PostedPayments(b1, i) = PostedPayments(b, i) BY <1>1 DEF PostedPayments
  <2>2. \A s : PaidFrom(b1, s) = PaidFrom(b, s) BY <1>1 DEF PaidFrom
  <2>3. \A i : Settled(b1, i) = Settled(b, i) BY <2>1 DEF Settled
  <2> QED BY <1>1, <2>2, <2>3 DEF BooksKnow, SumsKnow, IsPosted
<1>7. DOMAIN b1.expenses = ExpenseIds BY <1>1 DEF BooksKnow
<1> QED BY <1>1, <1>2, <1>3, <1>4, <1>5, <1>6, <1>7 DEF BooksKnow

-----------------------------------------------------------------------------
\* The steps: what is refused, what corrects nothing, what corrects.
LEMMA RefusedStays ==
    ASSUME NEW commands, ExpenseAssumption(commands), NEW ops, OperationsKnow(ops, commands),
           NEW cmd \in commands, ExpenseAccepted(cmd), NEW b, BooksKnow(ops, b, {}),
           NEW ops1, Records(ops, ops1, cmd, "rejected")
    PROVE  OperationsKnow(ops1, commands) /\ BooksKnow(ops1, b, {})
<1>1. ~Corrects1(cmd, "rejected") /\ MayRecord(ops, cmd, "rejected") BY DEF Corrects1, MayRecord
<1>2. "rejected" \in {"applied", "rejected"} OBVIOUS
<1>3. OperationsKnow(ops1, commands) BY <1>1, <1>2, OperationsKept
<1>4. BooksKnow(ops1, b, {}) BY <1>1, <1>2, BooksStay
<1> QED BY <1>3, <1>4

LEMMA PlainTaken ==
    ASSUME NEW commands, ExpenseAssumption(commands), NEW ops, OperationsKnow(ops, commands),
           NEW cmd \in commands, ExpenseAccepted(cmd), ~IsCorrection(cmd), NEW b, BooksKnow(ops, b, {}),
           NEW ops1, Records(ops, ops1, cmd, "applied")
    PROVE  /\ OperationsKnow(ops1, commands) /\ BooksKnow(ops1, b, {cmd.op})
           /\ cmd.op \in ExpenseOps /\ DoneIn(ops1, cmd.op) /\ ~CorrectedIn(ops1, cmd.op)
           /\ DocumentIn(ops1, cmd.op) = cmd
<1>1. ~Corrects1(cmd, "applied") /\ MayRecord(ops, cmd, "applied") BY DEF Corrects1, MayRecord
<1>2. "applied" \in {"applied", "rejected"} OBVIOUS
<1>3. OperationsKnow(ops1, commands) BY <1>1, <1>2, OperationsKept
<1>4. BooksKnow(ops1, b, {cmd.op}) BY <1>1, <1>2, BooksStay
<1>5. Taken(ops, ops1, cmd, "applied") BY <1>1, <1>2, RecordFacts1
<1>6. Document(cmd) = cmd BY DEF Document, IsCorrection
<1> QED BY <1>3, <1>4, <1>5, <1>6 DEF Taken

LEMMA CorrectionTaken ==
    ASSUME NEW commands, ExpenseAssumption(commands), NEW ops, OperationsKnow(ops, commands),
           NEW cmd \in commands, ExpenseAccepted(cmd), IsCorrection(cmd),
           NEW t, t = cmd.target, DoneIn(ops, t), ~CorrectedIn(ops, t),
           IsEdit(cmd) => cmd.replacement.kind = DocumentIn(ops, t).kind,
           NEW ops1, Records(ops, ops1, cmd, "applied")
    PROVE  /\ OperationsKnow(ops1, commands) /\ Taken(ops, ops1, cmd, "applied")
           /\ t \in ExpenseOps /\ cmd.op \in ExpenseOps
           /\ DoneIn(ops1, cmd.op) /\ ~CorrectedIn(ops1, cmd.op)
           /\ DocumentIn(ops1, cmd.op) = Document(cmd)
<1>1. MayRecord(ops, cmd, "applied") BY DEF MayRecord
<1>2. "applied" \in {"applied", "rejected"} OBVIOUS
<1>3. OperationsKnow(ops1, commands) BY <1>1, <1>2, OperationsKept
<1>4. Taken(ops, ops1, cmd, "applied") BY <1>1, <1>2, RecordFacts1
<1>5. t \in ExpenseOps BY DEF ExpenseAssumption, ExpenseRequest
<1> QED BY <1>3, <1>4, <1>5 DEF Taken

\* What the actions read of the operations.
LEMMA CorrectableFacts ==
    ASSUME NEW ops, ops = expenseOps, NEW t \in ExpenseOps, NEW kind, IsCorrectable(t, kind)
    PROVE  DoneIn(ops, t) /\ ~CorrectedIn(ops, t) /\ DocumentIn(ops, t).kind = kind
<1>1. DoneIn(ops, t) /\ DocumentIn(ops, t).kind = kind
  BY DEF IsCorrectable, IsDone, DoneIn, DocumentIn
<1>2. \A r \in ExpenseOps : ~CorrectsIn(ops, r, t)
  BY DEF IsCorrectable, CorrectionsOf, IsDone, DoneIn, CorrectsIn
<1> QED BY <1>1, <1>2 DEF CorrectedIn

LEMMA SettleFacts ==
    ASSUME NEW cmd, NEW allowed \in BOOLEAN, NEW books, SettleExpense(cmd, allowed, books)
    PROVE  \/ allowed /\ Records(expenseOps, expenseOps', cmd, "applied") /\ expenseBooks' = books
           \/ ~allowed /\ Records(expenseOps, expenseOps', cmd, "rejected") /\ expenseBooks' = expenseBooks
<1>1. CASE allowed BY <1>1 DEF SettleExpense, Records
<1>2. CASE ~allowed BY <1>2 DEF SettleExpense, Records
<1> QED BY <1>1, <1>2

LEMMA RecognizeKeeps ==
    ASSUME NEW commands, ExpenseAssumption(commands), NEW ops, ops = expenseOps, NEW b, b = expenseBooks,
           NEW ops1, ops1 = expenseOps', NEW b1, b1 = expenseBooks',
           OperationsKnow(ops, commands), BooksKnow(ops, b, {}),
           NEW cmd \in commands, ExpenseAccepted(cmd), RecognizeExpense(cmd)
    PROVE  OperationsKnow(ops1, commands) /\ BooksKnow(ops1, b1, {})
<1>1. cmd.kind = "recognize" BY DEF RecognizeExpense
<1>2. ~IsCorrection(cmd) BY <1>1 DEF IsCorrection, IsEdit
<1>3. \/ /\ RecognitionAllowed(b, cmd) /\ Records(ops, ops1, cmd, "applied")
         /\ b1 = RecognitionWritten(b, cmd)
      \/ Records(ops, ops1, cmd, "rejected") /\ b1 = b
  <2>1. RecognitionAllowed(b, cmd) \in BOOLEAN BY DEF RecognitionAllowed, CategoryUsable
  <2> QED BY <2>1, SettleFacts DEF RecognizeExpense
<1>4. CASE Records(ops, ops1, cmd, "rejected") /\ b1 = b BY <1>4, RefusedStays
<1>5. CASE /\ RecognitionAllowed(b, cmd) /\ Records(ops, ops1, cmd, "applied")
           /\ b1 = RecognitionWritten(b, cmd)
  <2>1. /\ OperationsKnow(ops1, commands) /\ BooksKnow(ops1, b, {cmd.op})
        /\ cmd.op \in ExpenseOps /\ DoneIn(ops1, cmd.op) /\ ~CorrectedIn(ops1, cmd.op)
        /\ DocumentIn(ops1, cmd.op) = cmd
    BY <1>2, <1>5, PlainTaken
  <2>2. b = [expenses |-> b.expenses, payments |-> b.payments, facts |-> b.facts, archived |-> b.archived]
    BY DEF BooksKnow
  <2>3. Recognizes(b, b1, cmd)
    BY <1>5, <2>2 DEF RecognitionWritten, Recognizes
  <2>4. BooksKnow(ops1, b1, {}) BY <1>1, <1>5, <2>1, <2>3, WriteRecognition
  <2> QED BY <2>1, <2>4
<1> QED BY <1>3, <1>4, <1>5

LEMMA PayKeeps ==
    ASSUME NEW commands, ExpenseAssumption(commands), NEW ops, ops = expenseOps, NEW b, b = expenseBooks,
           NEW ops1, ops1 = expenseOps', NEW b1, b1 = expenseBooks',
           OperationsKnow(ops, commands), BooksKnow(ops, b, {}),
           NEW cmd \in commands, ExpenseAccepted(cmd), PayExpense(cmd)
    PROVE  OperationsKnow(ops1, commands) /\ BooksKnow(ops1, b1, {})
<1>1. cmd.kind = "pay" BY DEF PayExpense
<1>2. ~IsCorrection(cmd) BY <1>1 DEF IsCorrection, IsEdit
<1>3. \/ /\ PaymentAllowed(b, cmd) /\ Records(ops, ops1, cmd, "applied")
         /\ b1 = PaymentWritten(b, cmd)
      \/ Records(ops, ops1, cmd, "rejected") /\ b1 = b
  <2>1. PaymentAllowed(b, cmd) \in BOOLEAN BY DEF PaymentAllowed, SettlementEligible, IsPosted
  <2> QED BY <2>1, SettleFacts DEF PayExpense
<1>4. CASE Records(ops, ops1, cmd, "rejected") /\ b1 = b BY <1>4, RefusedStays
<1>5. CASE /\ PaymentAllowed(b, cmd) /\ Records(ops, ops1, cmd, "applied")
           /\ b1 = PaymentWritten(b, cmd)
  <2>1. /\ OperationsKnow(ops1, commands) /\ BooksKnow(ops1, b, {cmd.op})
        /\ cmd.op \in ExpenseOps /\ DoneIn(ops1, cmd.op) /\ ~CorrectedIn(ops1, cmd.op)
        /\ DocumentIn(ops1, cmd.op) = cmd
    BY <1>2, <1>5, PlainTaken
  <2>2. b = [expenses |-> b.expenses, payments |-> b.payments, facts |-> b.facts, archived |-> b.archived]
    BY DEF BooksKnow
  <2>3. Pays(b, b1, cmd)
    BY <1>5, <2>2 DEF PaymentWritten, Pays
  <2>4. cmd.source \in {"money_account", "owner_pocket"}
    BY <1>1 DEF ExpenseAccepted, ExpensePaymentAccepted
  <2>5. BooksKnow(ops1, b1, {}) BY <1>1, <1>5, <2>1, <2>3, <2>4, WritePayment
  <2> QED BY <2>1, <2>5
<1> QED BY <1>3, <1>4, <1>5

LEMMA CorrectExpenseKeeps ==
    ASSUME NEW commands, ExpenseAssumption(commands), NEW ops, ops = expenseOps, NEW b, b = expenseBooks,
           NEW ops1, ops1 = expenseOps', NEW b1, b1 = expenseBooks',
           OperationsKnow(ops, commands), BooksKnow(ops, b, {}),
           NEW cmd \in commands, ExpenseAccepted(cmd), CorrectExpense(cmd)
    PROVE  OperationsKnow(ops1, commands) /\ BooksKnow(ops1, b1, {})
<1>1. cmd.kind \in {"expense_cancel", "expense_edit"} BY DEF CorrectExpense
<1>2. IsCorrection(cmd) /\ (IsEdit(cmd) <=> cmd.kind = "expense_edit") BY <1>1 DEF IsCorrection, IsEdit
<1>3. PICK t : t = cmd.target OBVIOUS
<1>4. t \in ExpenseOps BY <1>2, <1>3 DEF ExpenseAssumption, ExpenseRequest
<1>5. PICK i : i = DocumentIn(ops, t).expense OBVIOUS
<1>6. Target(cmd).expense = i BY <1>3, <1>5 DEF Target, DocumentIn
<1>7. PICK u : u = ExpenseUndone(b, cmd) OBVIOUS
<1>8. \/ /\ ExpenseCorrectionAllowed(b, cmd) /\ (IsEdit(cmd) => RecognitionAllowed(u, cmd.replacement))
         /\ Records(ops, ops1, cmd, "applied")
         /\ b1 = IF IsEdit(cmd) THEN RecognitionWritten(u, cmd.replacement) ELSE u
      \/ Records(ops, ops1, cmd, "rejected") /\ b1 = b
  <2> DEFINE allowed == /\ ExpenseCorrectionAllowed(b, cmd)
                        /\ IsEdit(cmd) => RecognitionAllowed(u, cmd.replacement)
             books == IF IsEdit(cmd) THEN RecognitionWritten(u, cmd.replacement) ELSE u
  <2>1. allowed \in BOOLEAN OBVIOUS
  <2>2. SettleExpense(cmd, allowed, books) BY <1>7 DEF CorrectExpense
  <2> HIDE DEF allowed, books
  <2>3. \/ allowed /\ Records(expenseOps, expenseOps', cmd, "applied") /\ expenseBooks' = books
        \/ ~allowed /\ Records(expenseOps, expenseOps', cmd, "rejected") /\ expenseBooks' = expenseBooks
    BY <2>1, <2>2, SettleFacts
  <2> QED BY <2>3 DEF allowed, books
<1>9. CASE Records(ops, ops1, cmd, "rejected") /\ b1 = b BY <1>9, RefusedStays
<1>10. CASE /\ ExpenseCorrectionAllowed(b, cmd) /\ (IsEdit(cmd) => RecognitionAllowed(u, cmd.replacement))
            /\ Records(ops, ops1, cmd, "applied")
            /\ b1 = IF IsEdit(cmd) THEN RecognitionWritten(u, cmd.replacement) ELSE u
  <2>1. IsCorrectable(t, "recognize") /\ IsPosted(b, i) /\ LaterPayments(b, i) = {}
    BY <1>3, <1>6, <1>10 DEF ExpenseCorrectionAllowed
  <2>2. DoneIn(ops, t) /\ ~CorrectedIn(ops, t) /\ DocumentIn(ops, t).kind = "recognize"
    BY <1>4, <2>1, CorrectableFacts
  <2>3. IsEdit(cmd) => cmd.replacement.kind = "recognize"
    BY <1>2 DEF ExpenseAccepted, ExpenseEditAccepted
  <2>4. /\ OperationsKnow(ops1, commands) /\ Taken(ops, ops1, cmd, "applied")
        /\ cmd.op \in ExpenseOps
        /\ DoneIn(ops1, cmd.op) /\ ~CorrectedIn(ops1, cmd.op)
        /\ DocumentIn(ops1, cmd.op) = Document(cmd)
    BY <1>2, <1>3, <1>10, <2>2, <2>3, CorrectionTaken
  <2>5. b = [expenses |-> b.expenses, payments |-> b.payments, facts |-> b.facts, archived |-> b.archived]
    BY DEF BooksKnow
  <2>6. ExpenseUndoing(b, u, cmd.op, t, i)
    BY <1>3, <1>6, <1>7, <2>5 DEF ExpenseUndone, PaymentsCancelled, ExpenseUndoing
  <2>7. BooksKnow(ops1, u, {cmd.op})
    BY <1>2, <1>3, <1>4, <1>5, <2>1, <2>2, <2>4, <2>6, UndoExpense
  <2>8. CASE IsEdit(cmd)
    <3>1. PICK doc : doc = cmd.replacement OBVIOUS
    <3>2. doc = DocumentIn(ops1, cmd.op) /\ doc.kind = "recognize"
      BY <2>3, <2>4, <2>8, <3>1 DEF Document
    <3>3. u = [expenses |-> u.expenses, payments |-> u.payments, facts |-> u.facts, archived |-> u.archived]
      BY <2>7 DEF BooksKnow
    <3>4. b1 = RecognitionWritten(u, doc) /\ RecognitionAllowed(u, doc) BY <1>10, <2>8, <3>1
    <3>5. Recognizes(u, b1, doc) BY <3>3, <3>4 DEF RecognitionWritten, Recognizes
    <3>6. BooksKnow(ops1, b1, {})
      BY <2>4, <2>7, <3>2, <3>4, <3>5, WriteRecognition
    <3> QED BY <2>4, <3>6
  <2>9. CASE ~IsEdit(cmd)
    <3>1. b1 = u BY <1>10, <2>9
    <3>2. DocumentIn(ops1, cmd.op).kind \notin {"recognize", "pay"} BY <1>1, <2>4, <2>9 DEF Document
    <3>3. BooksKnow(ops1, u, {}) BY <2>7, <3>2, NotLate
    <3> QED BY <2>4, <3>1, <3>3
  <2> QED BY <2>8, <2>9
<1> QED BY <1>8, <1>9, <1>10

LEMMA CorrectPaymentKeeps ==
    ASSUME NEW commands, ExpenseAssumption(commands), NEW ops, ops = expenseOps, NEW b, b = expenseBooks,
           NEW ops1, ops1 = expenseOps', NEW b1, b1 = expenseBooks',
           OperationsKnow(ops, commands), BooksKnow(ops, b, {}),
           NEW cmd \in commands, ExpenseAccepted(cmd), CorrectExpensePayment(cmd)
    PROVE  OperationsKnow(ops1, commands) /\ BooksKnow(ops1, b1, {})
<1>1. cmd.kind \in {"payment_cancel", "payment_edit"} BY DEF CorrectExpensePayment
<1>2. IsCorrection(cmd) /\ (IsEdit(cmd) <=> cmd.kind = "payment_edit") BY <1>1 DEF IsCorrection, IsEdit
<1>3. PICK t : t = cmd.target OBVIOUS
<1>4. t \in ExpenseOps BY <1>2, <1>3 DEF ExpenseAssumption, ExpenseRequest
<1>7. PICK u : u = PaymentUndone(b, cmd) OBVIOUS
<1>8. \/ /\ PaymentCorrectionAllowed(b, cmd) /\ (IsEdit(cmd) => PaymentAllowed(u, cmd.replacement))
         /\ Records(ops, ops1, cmd, "applied")
         /\ b1 = IF IsEdit(cmd) THEN PaymentWritten(u, cmd.replacement) ELSE u
      \/ Records(ops, ops1, cmd, "rejected") /\ b1 = b
  <2> DEFINE allowed == /\ PaymentCorrectionAllowed(b, cmd)
                        /\ IsEdit(cmd) => PaymentAllowed(u, cmd.replacement)
             books == IF IsEdit(cmd) THEN PaymentWritten(u, cmd.replacement) ELSE u
  <2>1. allowed \in BOOLEAN OBVIOUS
  <2>2. SettleExpense(cmd, allowed, books) BY <1>7 DEF CorrectExpensePayment
  <2> HIDE DEF allowed, books
  <2>3. \/ allowed /\ Records(expenseOps, expenseOps', cmd, "applied") /\ expenseBooks' = books
        \/ ~allowed /\ Records(expenseOps, expenseOps', cmd, "rejected") /\ expenseBooks' = expenseBooks
    BY <2>1, <2>2, SettleFacts
  <2> QED BY <2>3 DEF allowed, books
<1>9. CASE Records(ops, ops1, cmd, "rejected") /\ b1 = b BY <1>9, RefusedStays
<1>10. CASE /\ PaymentCorrectionAllowed(b, cmd) /\ (IsEdit(cmd) => PaymentAllowed(u, cmd.replacement))
            /\ Records(ops, ops1, cmd, "applied")
            /\ b1 = IF IsEdit(cmd) THEN PaymentWritten(u, cmd.replacement) ELSE u
  <2>1. /\ IsCorrectable(t, "pay")
        /\ \A p \in b.payments : p.op = t /\ ~p.recognition => p.status = "posted"
    BY <1>3, <1>10 DEF PaymentCorrectionAllowed, PaymentTarget
  <2>2. DoneIn(ops, t) /\ ~CorrectedIn(ops, t) /\ DocumentIn(ops, t).kind = "pay"
    BY <1>4, <2>1, CorrectableFacts
  <2>3. IsEdit(cmd) => /\ cmd.replacement.kind = "pay"
                       /\ cmd.replacement.source \in {"money_account", "owner_pocket"}
    BY <1>2 DEF ExpenseAccepted, ExpensePaymentEditAccepted, ExpensePaymentAccepted
  <2>4. /\ OperationsKnow(ops1, commands) /\ Taken(ops, ops1, cmd, "applied")
        /\ cmd.op \in ExpenseOps
        /\ DoneIn(ops1, cmd.op) /\ ~CorrectedIn(ops1, cmd.op)
        /\ DocumentIn(ops1, cmd.op) = Document(cmd)
    BY <1>2, <1>3, <1>10, <2>2, <2>3, CorrectionTaken
  <2>5. b = [expenses |-> b.expenses, payments |-> b.payments, facts |-> b.facts, archived |-> b.archived]
    BY DEF BooksKnow
  <2>6. PaymentUndoing(b, u, cmd.op, t)
    BY <1>3, <1>7, <2>5 DEF PaymentUndone, PaymentsCancelled, PaymentTarget, PaymentUndoing
  <2>7. BooksKnow(ops1, u, {cmd.op})
    BY <1>2, <1>3, <1>4, <2>1, <2>2, <2>4, <2>6, UndoPayment
  <2>8. CASE IsEdit(cmd)
    <3>1. PICK doc : doc = cmd.replacement OBVIOUS
    <3>2. doc = DocumentIn(ops1, cmd.op) /\ doc.kind = "pay" /\ doc.source \in {"money_account", "owner_pocket"}
      BY <2>3, <2>4, <2>8, <3>1 DEF Document
    <3>3. u = [expenses |-> u.expenses, payments |-> u.payments, facts |-> u.facts, archived |-> u.archived]
      BY <2>7 DEF BooksKnow
    <3>4. b1 = PaymentWritten(u, doc) /\ PaymentAllowed(u, doc) BY <1>10, <2>8, <3>1
    <3>5. Pays(u, b1, doc) BY <3>3, <3>4 DEF PaymentWritten, Pays
    <3>6. BooksKnow(ops1, b1, {})
      BY <2>4, <2>7, <3>2, <3>4, <3>5, WritePayment
    <3> QED BY <2>4, <3>6
  <2>9. CASE ~IsEdit(cmd)
    <3>1. b1 = u BY <1>10, <2>9
    <3>2. DocumentIn(ops1, cmd.op).kind \notin {"recognize", "pay"} BY <1>1, <2>4, <2>9 DEF Document
    <3>3. BooksKnow(ops1, u, {}) BY <2>7, <3>2, NotLate
    <3> QED BY <2>4, <3>1, <3>3
  <2> QED BY <2>8, <2>9
<1> QED BY <1>8, <1>9, <1>10

LEMMA ChangeCategoryKeeps ==
    ASSUME NEW commands, ExpenseAssumption(commands), NEW ops, ops = expenseOps, NEW b, b = expenseBooks,
           NEW ops1, ops1 = expenseOps', NEW b1, b1 = expenseBooks',
           OperationsKnow(ops, commands), BooksKnow(ops, b, {}),
           NEW cmd \in commands, ExpenseAccepted(cmd), ChangeCategory(cmd)
    PROVE  OperationsKnow(ops1, commands) /\ BooksKnow(ops1, b1, {})
<1>1. cmd.kind \in {"archive_category", "restore_category"} BY DEF ChangeCategory
<1>2. ~IsCorrection(cmd) BY <1>1 DEF IsCorrection, IsEdit
<1>3. PICK archived : archived = IF cmd.kind = "archive_category" THEN b.archived \cup {cmd.category}
                                 ELSE b.archived \ {cmd.category}
  OBVIOUS
<1>4. b = [expenses |-> b.expenses, payments |-> b.payments, facts |-> b.facts, archived |-> b.archived]
  BY DEF BooksKnow
<1>5. Records(ops, ops1, cmd, "applied") /\ b1 = [b EXCEPT !.archived = archived]
  BY <1>3 DEF ChangeCategory, SettleExpense, Records
<1>6. b1 = [expenses |-> b.expenses, payments |-> b.payments, facts |-> b.facts, archived |-> archived]
  BY <1>4, <1>5
<1>7. OperationsKnow(ops1, commands) /\ BooksKnow(ops1, b, {cmd.op}) /\ DocumentIn(ops1, cmd.op) = cmd
  BY <1>2, <1>5, PlainTaken
<1>8. BooksKnow(ops1, b, {}) BY <1>1, <1>7, NotLate
<1>9. BooksKnow(ops1, b1, {}) BY <1>6, <1>8, OtherArchive
<1> QED BY <1>7, <1>9

LEMMA EmptyBooksKnown ==
    ASSUME NEW commands, ExpenseInit
    PROVE  ExpenseIInv(commands)
<1>1. PICK ops : ops = expenseOps OBVIOUS
<1>2. PICK b : b = expenseBooks OBVIOUS
<1>3. DOMAIN ops = ExpenseOps /\ \A o \in ExpenseOps : ops[o] = Blank BY <1>1 DEF ExpenseInit
<1>4. b = [expenses |-> [i \in ExpenseIds |-> Blank], payments |-> {}, facts |-> {}, archived |-> {}]
  BY <1>2 DEF ExpenseInit, EmptyExpenseBooks
<1>5. \A o \in ExpenseOps : ~DoneIn(ops, o) BY <1>3 DEF DoneIn
<1>6. OperationsKnow(ops, commands) BY <1>3, <1>5 DEF OperationsKnow, CorrectsIn
<1>7. /\ DOMAIN b.expenses = ExpenseIds /\ \A i \in ExpenseIds : b.expenses[i] = Blank
      /\ b.payments = {} /\ b.facts = {}
      /\ b = [expenses |-> b.expenses, payments |-> b.payments, facts |-> b.facts, archived |-> b.archived]
  BY <1>4
<1>8. SumsKnow(b)
  <2>1. IsFiniteSet(b.payments) /\ IsFiniteSet(b.facts) BY <1>7, FS_EmptySet
  <2>2. \A c : SumOf(c, {}) = 0 BY FS_EmptySet, SumOfFacts
  <2>3. \A s : PaidFrom(b, s) = {} BY <1>7 DEF PaidFrom
  <2>4. \A i \in ExpenseIds : ~IsPosted(b, i) BY <1>7 DEF IsPosted
  <2> QED BY <1>7, <2>1, <2>2, <2>3, <2>4 DEF SumsKnow
<1>9. BooksKnow(ops, b, {})
  <2>1. \A i \in ExpenseIds : ExpenseKnows(ops, b, i) BY <1>7 DEF ExpenseKnows
  <2>2. \A o \in ExpenseOps : OperationWritten(ops, b, o) BY <1>5 DEF OperationWritten
  <2> QED BY <1>7, <1>8, <2>1, <2>2 DEF BooksKnow
<1> QED BY <1>1, <1>2, <1>6, <1>9 DEF ExpenseIInv

LEMMA ExpenseStepKeeps ==
    ASSUME NEW commands, ExpenseAssumption(commands), ExpenseIInv(commands), ServeExpenses(commands)
    PROVE  ExpenseIInv(commands)'
<1>1. PICK cmd \in commands :
        /\ ExpenseAccepted(cmd)
        /\ \/ RecognizeExpense(cmd) \/ PayExpense(cmd)
           \/ CorrectExpense(cmd) \/ CorrectExpensePayment(cmd)
           \/ ChangeCategory(cmd) \/ RepeatExpense(cmd)
  BY DEF ServeExpenses
<1>2. PICK ops : ops = expenseOps OBVIOUS
<1>3. PICK b : b = expenseBooks OBVIOUS
<1>4. PICK ops1 : ops1 = expenseOps' OBVIOUS
<1>5. PICK b1 : b1 = expenseBooks' OBVIOUS
<1>6. OperationsKnow(ops, commands) /\ BooksKnow(ops, b, {}) BY <1>2, <1>3 DEF ExpenseIInv
<1>7. SUFFICES OperationsKnow(ops1, commands) /\ BooksKnow(ops1, b1, {})
  BY <1>4, <1>5 DEF ExpenseIInv
<1>8. CASE RecognizeExpense(cmd) BY <1>1, <1>2, <1>3, <1>4, <1>5, <1>6, <1>8, RecognizeKeeps
<1>9. CASE PayExpense(cmd) BY <1>1, <1>2, <1>3, <1>4, <1>5, <1>6, <1>9, PayKeeps
<1>10. CASE CorrectExpense(cmd) BY <1>1, <1>2, <1>3, <1>4, <1>5, <1>6, <1>10, CorrectExpenseKeeps
<1>11. CASE CorrectExpensePayment(cmd) BY <1>1, <1>2, <1>3, <1>4, <1>5, <1>6, <1>11, CorrectPaymentKeeps
<1>12. CASE ChangeCategory(cmd) BY <1>1, <1>2, <1>3, <1>4, <1>5, <1>6, <1>12, ChangeCategoryKeeps
<1>13. CASE RepeatExpense(cmd)
  <2>1. ops1 = ops /\ b1 = b BY <1>2, <1>3, <1>4, <1>5, <1>13 DEF RepeatExpense, expenseVars
  <2> QED BY <1>6, <2>1
<1> QED BY <1>1, <1>8, <1>9, <1>10, <1>11, <1>12, <1>13

-----------------------------------------------------------------------------
\* Lines of edits: one follows the line as long as there is an edit.
Follow(x) == IF Edits(x) = {} THEN x ELSE CHOOSE r \in Edits(x) : TRUE
Line(l, m, o) == l = [n \in 0..m |-> IF n = 0 THEN o ELSE Follow(l[n - 1])]

LEMMA LineExists ==
    ASSUME NEW o
    PROVE  \A m \in Nat : \E l : Line(l, m, o)
<1> DEFINE B == {m \in Nat : ~\E l : Line(l, m, o)}
<1> SUFFICES ASSUME B # {} PROVE FALSE OBVIOUS
<1>1. PICK m \in B : \A k \in B : m <= k
  <2>1. B \in SUBSET Nat OBVIOUS
  <2> HIDE DEF B
  <2> QED BY <2>1, FirstAccount
<1>2. CASE m = 0
  <2> DEFINE l == [n \in 0..m |-> o]
  <2>1. l = [n \in 0..m |-> IF n = 0 THEN o ELSE Follow(l[n - 1])] BY <1>2
  <2>2. Line(l, m, o) BY <2>1 DEF Line
  <2> QED BY <2>2
<1>3. CASE m # 0
  <2>1. m \in Nat /\ m - 1 \in Nat /\ m - 1 \notin B BY <1>1, <1>3
  <2>2. PICK k : Line(k, m - 1, o) BY <2>1
  <2>3. /\ k[0] = o
        /\ \A n \in 1..(m - 1) : k[n] = Follow(k[n - 1])
    BY <2>1, <2>2 DEF Line
  <2> DEFINE l == [n \in 0..m |-> IF n = m THEN Follow(k[m - 1]) ELSE k[n]]
  <2>4. \A n \in 0..m : l[n] = (IF n = 0 THEN o ELSE Follow(l[n - 1]))
    <3> TAKE n \in 0..m
    <3>1. CASE n = 0 BY <1>3, <2>1, <2>3, <3>1
    <3>2. CASE n = m BY <1>3, <2>1, <3>2
    <3>3. CASE n # 0 /\ n # m
      <4>1. n \in 1..(m - 1) /\ n - 1 \in 0..m /\ n - 1 # m BY <2>1, <3>3
      <4>2. l[n - 1] = k[n - 1] /\ l[n] = k[n] BY <3>3, <4>1
      <4> QED BY <2>3, <3>3, <4>1, <4>2
    <3> QED BY <3>1, <3>2, <3>3
  <2>5. l = [n \in 0..m |-> l[n]] OBVIOUS
  <2> HIDE DEF l
  <2>6. l = [n \in 0..m |-> IF n = 0 THEN o ELSE Follow(l[n - 1])] BY <2>4, <2>5
  <2>7. Line(l, m, o) BY <2>6 DEF Line
  <2> QED BY <2>7
<1> QED BY <1>2, <1>3

\* The end of a line is in every set one cannot leave by an edit.
LEMMA LeafStays ==
    ASSUME IsFiniteSet(ExpenseOps), NEW S, NEW o \in S, \A x \in S : Follow(x) \in S
    PROVE  Leaf(o) \in S
<1> DEFINE N == Cardinality(ExpenseOps)
<1>1. N \in Nat BY FS_CardinalityType
<1>2. \E l : Line(l, N, o) BY <1>1, LineExists
<1>3. \E l : Line(l, N, o) /\ Leaf(o) = l[N] BY <1>2, Zenon DEF Leaf, Line, Follow
<1>4. PICK l : Line(l, N, o) /\ Leaf(o) = l[N] BY <1>3
<1> HIDE DEF N
<1>5. l[0] = o /\ \A n \in 1..N : l[n] = Follow(l[n - 1]) BY <1>1, <1>4 DEF Line
<1> DEFINE B == {n \in 0..N : l[n] \notin S}
<1>6. B = {}
  <2> SUFFICES ASSUME B # {} PROVE FALSE OBVIOUS
  <2>1. PICK m \in B : \A k \in B : m <= k
    <3>1. B \in SUBSET Nat OBVIOUS
    <3> HIDE DEF B
    <3> QED BY <3>1, FirstAccount
  <2>2. m # 0 BY <1>5, <2>1
  <2>3. m \in 1..N /\ m - 1 \in 0..N /\ m - 1 \notin B BY <1>1, <2>1, <2>2
  <2>4. l[m - 1] \in S BY <2>3
  <2>5. l[m] \in S BY <1>5, <2>3, <2>4
  <2> QED BY <2>1, <2>5
<1>7. N \in 0..N BY <1>1
<1> QED BY <1>4, <1>6, <1>7

LEMMA CorrectionsFacts ==
    ASSUME NEW ops, ops = expenseOps, NEW o \in ExpenseOps
    PROVE  /\ \A r : r \in CorrectionsOf(o) <=> r \in ExpenseOps /\ CorrectsIn(ops, r, o)
           /\ CorrectionsOf(o) = {} <=> ~CorrectedIn(ops, o)
           /\ Edits(o) = {r \in CorrectionsOf(o) : IsEdit(ops[r].command)}
<1>1. \A r : r \in CorrectionsOf(o) <=> r \in ExpenseOps /\ CorrectsIn(ops, r, o)
  BY DEF CorrectionsOf, IsDone, CorrectsIn, DoneIn
<1> QED BY <1>1 DEF CorrectedIn, Edits

LEMMA LeafFacts ==
    ASSUME NEW commands, OperationsKnow(expenseOps, commands), IsFiniteSet(ExpenseOps),
           NEW o \in ExpenseOps, DoneIn(expenseOps, o), NEW kind, DocumentIn(expenseOps, o).kind = kind
    PROVE  /\ Leaf(o) \in ExpenseOps /\ DoneIn(expenseOps, Leaf(o))
           /\ DocumentIn(expenseOps, Leaf(o)).kind = kind
           /\ ~CorrectedIn(expenseOps, o) => Leaf(o) = o
<1>1. PICK ops : ops = expenseOps OBVIOUS
<1> DEFINE S == {x \in ExpenseOps : DoneIn(ops, x) /\ DocumentIn(ops, x).kind = kind}
<1>2. ASSUME NEW x \in S PROVE Follow(x) \in S
  <2>1. CASE Edits(x) = {} BY <2>1 DEF Follow
  <2>2. CASE Edits(x) # {}
    <3>1. Follow(x) \in Edits(x) BY <2>2 DEF Follow
    <3>2. PICK r : r = Follow(x) OBVIOUS
    <3>3. r \in ExpenseOps /\ CorrectsIn(ops, r, x) /\ IsEdit(ops[r].command)
      BY <1>1, <3>1, <3>2, CorrectionsFacts
    <3>4. DocumentIn(ops, r).kind = DocumentIn(ops, x).kind BY <1>1, <3>3 DEF OperationsKnow
    <3>5. DoneIn(ops, r) BY <3>3 DEF CorrectsIn
    <3> QED BY <3>2, <3>3, <3>4, <3>5
  <2> QED BY <2>1, <2>2
<1>3. o \in S BY <1>1
<1>4. Leaf(o) \in S
  <2> HIDE DEF S
  <2> QED BY <1>2, <1>3, LeafStays
<1>5. ASSUME ~CorrectedIn(ops, o) PROVE Leaf(o) = o
  <2>1. Edits(o) = {} BY <1>1, <1>5, CorrectionsFacts
  <2>2. Follow(o) = o BY <2>1 DEF Follow
  <2>3. \A x \in {o} : Follow(x) \in {o} BY <2>2
  <2>4. o \in {o} OBVIOUS
  <2>5. Leaf(o) \in {o} BY <2>3, <2>4, LeafStays
  <2> QED BY <2>5
<1> QED BY <1>1, <1>4, <1>5

-----------------------------------------------------------------------------
\* What the invariant says of the rows of an expense.
LEMMA PaidAtOnce ==
    ASSUME NEW ops, NEW b, BooksKnow(ops, b, {}), NEW i \in ExpenseIds,
           b.expenses[i] # Blank, ~b.expenses[i].isDue
    PROVE  \E p \in b.payments :
             /\ {q \in b.payments : q.expense = i} = {p}
             /\ p.recognition /\ p.op = b.expenses[i].op /\ p.amount = b.expenses[i].amount
             /\ p.status = b.expenses[i].status /\ p.source = DocumentIn(ops, p.op).source
<1>1. PICK p \in b.payments : p.expense = i /\ p.recognition BY DEF BooksKnow, ExpenseKnows
<1>2. PaymentKnows(ops, b, p) BY DEF BooksKnow
<1>3. /\ p.op = b.expenses[i].op /\ p.amount = b.expenses[i].amount
      /\ p.status = b.expenses[i].status /\ p.source = DocumentIn(ops, p.op).source
  BY <1>1, <1>2 DEF PaymentKnows
<1>4. ASSUME NEW q \in b.payments, q.expense = i PROVE q = p
  <2>1. PaymentKnows(ops, b, q) BY DEF BooksKnow
  <2>2. q.recognition BY <1>4, <2>1 DEF PaymentKnows
  <2>3. q.op = p.op BY <1>3, <1>4, <2>1, <2>2 DEF PaymentKnows
  <2> QED BY <1>2, <2>3 DEF PaymentKnows
<1>5. {q \in b.payments : q.expense = i} = {p} BY <1>1, <1>4
<1> QED BY <1>1, <1>3, <1>5

LEMMA PostedAtOnce ==
    ASSUME NEW ops, NEW b, BooksKnow(ops, b, {}), NEW i \in ExpenseIds,
           IsPosted(b, i), ~b.expenses[i].isDue
    PROVE  /\ \E p \in b.payments :
                /\ PostedPayments(b, i) = {p} /\ p.recognition /\ p.op = b.expenses[i].op
                /\ p.source = DocumentIn(ops, p.op).source
           /\ Settled(b, i) = b.expenses[i].amount /\ LaterPayments(b, i) = {}
<1>1. PICK p \in b.payments :
             /\ {q \in b.payments : q.expense = i} = {p}
             /\ p.recognition /\ p.op = b.expenses[i].op /\ p.amount = b.expenses[i].amount
             /\ p.status = b.expenses[i].status /\ p.source = DocumentIn(ops, p.op).source
  BY PaidAtOnce DEF IsPosted
<1>2. p.status = "posted" /\ p.expense = i BY <1>1 DEF IsPosted
<1>3. PostedPayments(b, i) = {p} BY <1>1, <1>2 DEF PostedPayments
<1>4. LaterPayments(b, i) = {} BY <1>1, <1>3 DEF LaterPayments
<1>5. p["amount"] \in Int BY FactNumbers
<1>6. SumOf("amount", {p}) = p["amount"] BY <1>5, SumOfOne
<1>7. Settled(b, i) = b.expenses[i].amount BY <1>1, <1>3, <1>6 DEF Settled
<1> QED BY <1>1, <1>3, <1>4, <1>7

LEMMA CancelledUnpaid ==
    ASSUME NEW ops, NEW b, BooksKnow(ops, b, {}), NEW i \in ExpenseIds,
           b.expenses[i] # Blank, ~IsPosted(b, i)
    PROVE  PostedPayments(b, i) = {}
<1>1. ASSUME NEW p \in b.payments, p.expense = i, p.status = "posted" PROVE FALSE
  <2>1. PaymentKnows(ops, b, p) BY DEF BooksKnow
  <2>2. b.expenses[i].status # "posted" BY DEF IsPosted
  <2> QED BY <1>1, <2>1, <2>2 DEF PaymentKnows
<1> QED BY <1>1 DEF PostedPayments

LEMMA DueInRange ==
    ASSUME NEW ops, NEW b, BooksKnow(ops, b, {}), NEW i \in ExpenseIds, IsPosted(b, i)
    PROVE  /\ Settled(b, i) \in Nat /\ Due(b, i) \in Nat
           /\ ~b.expenses[i].isDue => Due(b, i) = 0
<1>1. PostedPayments(b, i) \in SUBSET b.payments BY DEF PostedPayments
<1>2. Settled(b, i) \in Nat BY <1>1, PaidNumbers DEF Settled
<1>3. b.expenses[i].amount \in Nat BY DEF BooksKnow, ExpenseKnows, IsPosted
<1>4. CASE b.expenses[i].isDue
  <2>1. Settled(b, i) <= b.expenses[i].amount BY <1>4 DEF BooksKnow, SumsKnow
  <2> QED BY <1>2, <1>3, <1>4, <2>1 DEF Due
<1>5. CASE ~b.expenses[i].isDue
  <2>1. Settled(b, i) = b.expenses[i].amount BY <1>5, PostedAtOnce
  <2> QED BY <1>2, <1>3, <2>1 DEF Due
<1> QED BY <1>4, <1>5

LEMMA OneFact ==
    ASSUME NEW ops, NEW b, b = expenseBooks, BooksKnow(ops, b, {}), NEW p \in b.payments
    PROVE  FactsOf(p) = {Funding(p)}
<1>1. Funding(p) \in b.facts /\ Funding(p).op = p.op /\ Funding(p).reverses = Blank
  BY DEF BooksKnow, Funding
<1>2. ASSUME NEW f \in b.facts, f.op = p.op, f.reverses = Blank PROVE f = Funding(p)
  <2>1. PICK q \in b.payments : f = Funding(q) BY <1>2 DEF BooksKnow, FactKnows
  <2>2. q.op = p.op BY <1>2, <2>1 DEF Funding
  <2>3. q = p BY <2>2 DEF BooksKnow, PaymentKnows
  <2> QED BY <2>1, <2>3
<1>3. FactsOf(p) = {f \in b.facts : f.op = p.op /\ f.reverses = Blank} BY DEF FactsOf
<1> QED BY <1>1, <1>2, <1>3

-----------------------------------------------------------------------------
\* What follows from the invariant.
LEMMA RangeSound ==
    ASSUME NEW ops, NEW b, b = expenseBooks, BooksKnow(ops, b, {})
    PROVE  SettledInRange /\ CancelledIsUnpaid
<1>1. ASSUME NEW i \in ExpenseIds, IsPosted(b, i)
      PROVE  /\ Due(b, i) >= 0
             /\ ~b.expenses[i].isDue => Due(b, i) = 0 /\ LaterPayments(b, i) = {}
  <2>1. Due(b, i) \in Nat /\ (~b.expenses[i].isDue => Due(b, i) = 0) BY <1>1, DueInRange
  <2>2. ~b.expenses[i].isDue => LaterPayments(b, i) = {} BY <1>1, PostedAtOnce
  <2> QED BY <2>1, <2>2
<1>2. ASSUME NEW i \in ExpenseIds, b.expenses[i] # Blank, ~IsPosted(b, i)
      PROVE  PostedPayments(b, i) = {}
  BY <1>2, CancelledUnpaid
<1>3. SettledInRange BY <1>1 DEF SettledInRange
<1>4. CancelledIsUnpaid BY <1>2 DEF CancelledIsUnpaid
<1> QED BY <1>3, <1>4

LEMMA FactsSound ==
    ASSUME NEW ops, NEW b, b = expenseBooks, BooksKnow(ops, b, {})
    PROVE  FactsFollowPayments
<1>1. ASSUME NEW s PROVE {p \in {p \in b.payments : p.status = "posted"} : p.source = s} = PaidFrom(b, s)
  BY DEF PaidFrom
<1>2. /\ SumOf("money", b.facts) = -SumOf("amount", PaidFrom(b, "money_account"))
      /\ SumOf("owner", b.facts) = SumOf("amount", PaidFrom(b, "owner_pocket"))
  BY DEF BooksKnow, SumsKnow
<1> QED BY <1>1, <1>2, Zenon DEF FactsFollowPayments

\* An expense, and the operation it is of.
LEMMA RecognizedFacts ==
    ASSUME NEW ops, NEW b, BooksKnow(ops, b, {}), NEW i \in ExpenseIds,
           NEW e, e = b.expenses[i], e # Blank
    PROVE  /\ e.op \in ExpenseOps /\ DoneIn(ops, e.op) /\ DocumentIn(ops, e.op).kind = "recognize"
           /\ DocumentIn(ops, e.op).expense = i
           /\ e.isDue <=> DocumentIn(ops, e.op).source = Blank
           /\ IsPosted(b, i) <=> ~CorrectedIn(ops, e.op)
<1>1. ExpenseKnows(ops, b, i) BY DEF BooksKnow
<1>2. /\ e.op \in ExpenseOps /\ DoneIn(ops, e.op) /\ DocumentIn(ops, e.op).kind = "recognize"
      /\ DocumentIn(ops, e.op).expense = i
      /\ e.isDue <=> DocumentIn(ops, e.op).source = Blank
      /\ e.status = "posted" <=> ~CorrectedIn(ops, e.op)
  BY <1>1 DEF ExpenseKnows, IsDue
<1>3. IsPosted(b, i) <=> e.status = "posted" BY DEF IsPosted
<1> QED BY <1>2, <1>3

LEMMA LinesSound ==
    ASSUME NEW commands, ExpenseAssumption(commands),
           NEW ops, ops = expenseOps, OperationsKnow(ops, commands),
           NEW b, b = expenseBooks, BooksKnow(ops, b, {})
    PROVE  LineHasOneEnd
<1>1. ASSUME NEW o \in ExpenseOps PROVE Cardinality(CorrectionsOf(o)) <= 1
  <2>1. \A r, s \in CorrectionsOf(o) : r = s
    <3>1. \A r \in CorrectionsOf(o) : r \in ExpenseOps /\ CorrectsIn(ops, r, o) BY CorrectionsFacts
    <3> QED BY <3>1 DEF OperationsKnow
  <2>2. CASE CorrectionsOf(o) = {} BY <2>2, FS_EmptySet
  <2>3. CASE CorrectionsOf(o) # {}
    <3>1. PICK r \in CorrectionsOf(o) : TRUE BY <2>3
    <3>2. CorrectionsOf(o) = {r} BY <2>1, <3>1
    <3>3. Cardinality({r}) = 1 BY FS_Singleton
    <3> QED BY <3>2, <3>3
  <2> QED BY <2>2, <2>3
<1>2. ASSUME NEW i \in ExpenseIds, b.expenses[i] # Blank
      PROVE  IF CurrentActive(i) = Blank THEN ~IsPosted(b, i)
             ELSE /\ IsPosted(b, CurrentActive(i))
                  /\ IsPosted(b, i) => CurrentActive(i) = i
  <2>1. PICK e : e = b.expenses[i] OBVIOUS
  <2>2. /\ e.op \in ExpenseOps /\ DoneIn(ops, e.op) /\ DocumentIn(ops, e.op).kind = "recognize"
        /\ DocumentIn(ops, e.op).expense = i
        /\ IsPosted(b, i) <=> ~CorrectedIn(ops, e.op)
    BY <1>2, <2>1, RecognizedFacts
  <2>3. PICK leaf : leaf = Leaf(e.op) OBVIOUS
  <2>4. /\ leaf \in ExpenseOps /\ DoneIn(ops, leaf) /\ DocumentIn(ops, leaf).kind = "recognize"
        /\ ~CorrectedIn(ops, e.op) => leaf = e.op
    BY <2>2, <2>3, LeafFacts DEF ExpenseAssumption
  <2>5. CurrentActive(i) = IF CorrectedIn(ops, leaf) THEN Blank ELSE DocumentIn(ops, leaf).expense
    <3>1. CurrentActive(i) = IF CorrectionsOf(leaf) # {} THEN Blank ELSE Document(ops[leaf].command).expense
      BY <2>1, <2>3 DEF CurrentActive
    <3>2. CorrectionsOf(leaf) # {} <=> CorrectedIn(ops, leaf) BY <2>4, CorrectionsFacts
    <3> QED BY <3>1, <3>2 DEF DocumentIn
  <2>6. CASE CorrectedIn(ops, leaf)
    <3>1. CurrentActive(i) = Blank BY <2>5, <2>6
    <3>2. ~IsPosted(b, i) BY <2>2, <2>4, <2>6
    <3> QED BY <3>1, <3>2
  <2>7. CASE ~CorrectedIn(ops, leaf)
    <3>1. PICK x : x = DocumentIn(ops, leaf).expense OBVIOUS
    <3>2. x \in ExpenseIds BY <2>4, <3>1, DocumentInFacts DEF ExpenseDocument
    <3>3. CurrentActive(i) = x /\ x # Blank BY <2>5, <2>7, <3>1, <3>2 DEF ExpenseAssumption
    <3>4. b.expenses[x] # Blank /\ b.expenses[x].op = leaf
      BY <2>4, <3>1 DEF BooksKnow, OperationWritten
    <3>5. IsPosted(b, x)
      <4>1. PICK f : f = b.expenses[x] OBVIOUS
      <4>2. IsPosted(b, x) <=> ~CorrectedIn(ops, f.op) BY <3>2, <3>4, <4>1, RecognizedFacts
      <4> QED BY <2>7, <3>4, <4>1, <4>2
    <3>6. IsPosted(b, i) => x = i BY <2>2, <2>4, <3>1
    <3> QED BY <3>3, <3>5, <3>6
  <2> QED BY <2>6, <2>7
<1> QED BY <1>1, <1>2 DEF LineHasOneEnd, Recognized

LEMMA TablesSound ==
    ASSUME NEW ops, NEW b, b = expenseBooks, BooksKnow(ops, b, {})
    PROVE  ExpenseTablesHold
<1>1. ASSUME NEW i \in ExpenseIds, NEW e, e = b.expenses[i], e # Blank
      PROVE  /\ e.amount > 0 /\ e.status \in {"draft", "posted", "cancelled"}
             /\ e.category # Blank => e.category \in Categories
             /\ e.status = "posted" /\ ~e.isDue => Settled(b, i) = e.amount
  <2>1. e \in [op : ExpenseOps, amount : Nat \ {0}, category : Categories \cup {Blank},
               isDue : BOOLEAN, status : {"posted", "cancelled"}]
    BY <1>1 DEF BooksKnow, ExpenseKnows
  <2>2. e.status = "posted" /\ ~e.isDue => Settled(b, i) = e.amount
    BY <1>1, PostedAtOnce DEF IsPosted
  <2> QED BY <2>1, <2>2
<1>2. ASSUME NEW p \in b.payments
      PROVE  /\ p.amount > 0 /\ p.source \in {"money_account", "owner_pocket"}
             /\ Cardinality(FactsOf(p)) = 1
             /\ \A f \in FactsOf(p) :
                  /\ (p.source = "money_account") <=> (f.money = -p.amount /\ f.owner = 0)
                  /\ (p.source = "owner_pocket") <=> (f.money = 0 /\ f.owner = p.amount)
  <2>1. p \in PaymentRows BY DEF BooksKnow, PaymentKnows
  <2>2. p.amount \in Nat \ {0} /\ p.source \in {"money_account", "owner_pocket"} BY <2>1 DEF PaymentRows
  <2>3. FactsOf(p) = {Funding(p)} BY OneFact
  <2>4. Cardinality(FactsOf(p)) = 1 BY <2>3, FS_Singleton
  <2>5. /\ Funding(p).money = (IF p.source = "money_account" THEN -p.amount ELSE 0)
        /\ Funding(p).owner = (IF p.source = "owner_pocket" THEN p.amount ELSE 0)
    BY DEF Funding
  <2>6. ASSUME NEW f \in FactsOf(p)
        PROVE  /\ (p.source = "money_account") <=> (f.money = -p.amount /\ f.owner = 0)
               /\ (p.source = "owner_pocket") <=> (f.money = 0 /\ f.owner = p.amount)
    <3>1. f = Funding(p) BY <2>3
    <3> QED BY <2>2, <2>5, <3>1
  <2> QED BY <2>2, <2>4, <2>6
<1>3. ASSUME NEW i \in ExpenseIds, IsPosted(b, i) PROVE Settled(b, i) >= 0 /\ Due(b, i) >= 0
  BY <1>3, DueInRange
<1>4. ExpenseRows BY <1>1 DEF ExpenseRows, Recognized
<1>5. ExpensePaymentRows BY <1>2 DEF ExpensePaymentRows
<1>6. \A r \in ExpenseBalances : r.paid >= 0 /\ r.due >= 0 BY <1>3 DEF ExpenseBalances
<1> QED BY <1>4, <1>5, <1>6 DEF ExpenseTablesHold

LEMMA FundingSound ==
    ASSUME NEW ops, ops = expenseOps, NEW b, b = expenseBooks, BooksKnow(ops, b, {}),
           NEW i \in ExpenseIds, b.expenses[i] # Blank
    PROVE  ExpenseShown(i)
<1>1. PICK e : e = b.expenses[i] OBVIOUS
<1>2. PICK asked : asked = DocumentIn(ops, e.op).source OBVIOUS
<1>3. e.isDue <=> asked = Blank BY <1>1, <1>2, RecognizedFacts
<1>4. FundingOf(i, {p \in b.payments : p.expense = i}) = {asked}
  <2>1. CASE e.isDue BY <1>1, <1>3, <2>1 DEF FundingOf
  <2>2. CASE ~e.isDue
    <3>1. PICK p \in b.payments : {q \in b.payments : q.expense = i} = {p} /\ p.source = asked
      BY <1>1, <1>2, <2>2, PaidAtOnce
    <3> QED BY <1>1, <2>2, <3>1 DEF FundingOf
  <2> QED BY <2>1, <2>2
<1>5. IsPosted(b, i) => FundingOf(i, PostedPayments(b, i)) = {asked}
  <2> HAVE IsPosted(b, i)
  <2>1. CASE e.isDue BY <1>1, <1>3, <2>1 DEF FundingOf
  <2>2. CASE ~e.isDue
    <3>1. PICK p \in b.payments : PostedPayments(b, i) = {p} /\ p.source = asked
      BY <1>1, <1>2, <2>2, PostedAtOnce
    <3> QED BY <1>1, <2>2, <3>1 DEF FundingOf
  <2> QED BY <2>1, <2>2
<1> QED BY <1>1, <1>2, <1>4, <1>5 DEF ExpenseShown, DocumentIn

LEMMA PaymentSound ==
    ASSUME NEW commands, ExpenseAssumption(commands),
           NEW ops, ops = expenseOps, OperationsKnow(ops, commands),
           NEW b, b = expenseBooks, BooksKnow(ops, b, {}), NEW p \in b.payments
    PROVE  PaymentShown(p) /\ (PaymentCurrentActive(p) = p.op <=> p.status = "posted")
<1>1. PICK last : last = PaymentCurrentActive(p) OBVIOUS
<1>2. PaymentKnows(ops, b, p) BY DEF BooksKnow
<1>3. p.op \in ExpenseOps /\ p.expense \in ExpenseIds /\ DoneIn(ops, p.op)
  BY <1>2 DEF PaymentKnows, PaymentRows
<1>4. FactsOf(p) # {} BY OneFact
<1>5. /\ last # Blank => \E q \in b.payments : q.op = last /\ q.status = "posted"
      /\ p.status = "posted" => last = p.op
  <2>1. CASE p.recognition
    <3>1. last = IF IsPosted(b, p.expense) THEN p.op ELSE Blank BY <1>1, <2>1 DEF PaymentCurrentActive
    <3>2. p.status = "posted" <=> IsPosted(b, p.expense) BY <1>2, <2>1 DEF PaymentKnows, IsPosted
    <3> QED BY <3>1, <3>2
  <2>2. CASE ~p.recognition
    <3>1. DocumentIn(ops, p.op).kind = "pay" /\ (p.status = "posted" <=> ~CorrectedIn(ops, p.op))
      BY <1>2, <2>2 DEF PaymentKnows
    <3>2. PICK leaf : leaf = Leaf(p.op) OBVIOUS
    <3>3. /\ leaf \in ExpenseOps /\ DoneIn(ops, leaf) /\ DocumentIn(ops, leaf).kind = "pay"
          /\ ~CorrectedIn(ops, p.op) => leaf = p.op
      BY <1>3, <3>1, <3>2, LeafFacts DEF ExpenseAssumption
    <3>4. CorrectionsOf(leaf) # {} <=> CorrectedIn(ops, leaf) BY <3>3, CorrectionsFacts
    <3>5. last = IF CorrectedIn(ops, leaf) THEN Blank ELSE leaf
      BY <1>1, <2>2, <3>2, <3>4 DEF PaymentCurrentActive
    <3>6. PICK q \in b.payments : q.op = leaf /\ ~q.recognition
      BY <3>3 DEF BooksKnow, OperationWritten
    <3>7. q.status = "posted" <=> ~CorrectedIn(ops, leaf) BY <3>6 DEF BooksKnow, PaymentKnows
    <3> QED BY <3>1, <3>3, <3>5, <3>6, <3>7
  <2> QED BY <2>1, <2>2
<1>6. last = p.op => p.status = "posted"
  <2> HAVE last = p.op
  <2>1. last # Blank BY <1>3 DEF ExpenseAssumption
  <2>2. PICK q \in b.payments : q.op = p.op /\ q.status = "posted" BY <1>5, <2>1
  <2>3. q = p BY <1>2, <2>2 DEF PaymentKnows
  <2> QED BY <2>2, <2>3
<1>7. PaymentShown(p) BY <1>1, <1>4, <1>5 DEF PaymentShown
<1> QED BY <1>1, <1>5, <1>6, <1>7

LEMMA ReadsSound ==
    ASSUME NEW commands, ExpenseAssumption(commands),
           NEW ops, ops = expenseOps, OperationsKnow(ops, commands),
           NEW b, b = expenseBooks, BooksKnow(ops, b, {})
    PROVE  ExpenseReadsAnswer
<1>1. \A p \in b.payments : PaymentShown(p) /\ (PaymentCurrentActive(p) = p.op <=> p.status = "posted")
  BY PaymentSound
<1>2. ASSUME NEW i \in ExpenseIds PROVE HistoryShown(i)
  <2>1. {p \in b.payments : p.expense = i /\ PaymentCurrentActive(p) = p.op} = PostedPayments(b, i)
    BY <1>1 DEF PostedPayments
  <2> QED BY <2>1 DEF HistoryShown, Settled
<1>3. \A i \in ExpenseIds : b.expenses[i] # Blank => ExpenseShown(i) BY FundingSound
<1> QED BY <1>1, <1>2, <1>3 DEF ExpenseReadsAnswer, Recognized

LEMMA ExpenseSound ==
    ASSUME NEW commands, ExpenseAssumption(commands), ExpenseIInv(commands)
    PROVE  ExpenseBooksSound
<1>1. PICK ops : ops = expenseOps OBVIOUS
<1>2. PICK b : b = expenseBooks OBVIOUS
<1>3. OperationsKnow(ops, commands) /\ BooksKnow(ops, b, {}) BY <1>1, <1>2 DEF ExpenseIInv
<1>4. SettledInRange /\ CancelledIsUnpaid BY <1>2, <1>3, RangeSound
<1>5. FactsFollowPayments BY <1>2, <1>3, FactsSound
<1>6. LineHasOneEnd BY <1>1, <1>2, <1>3, LinesSound
<1>7. ExpenseTablesHold BY <1>2, <1>3, TablesSound
<1>8. ExpenseReadsAnswer BY <1>1, <1>2, <1>3, ReadsSound
<1> QED BY <1>4, <1>5, <1>6, <1>7, <1>8 DEF ExpenseBooksSound

\* The invariant of the expenses holds of every run of their commands.
THEOREM ExpensesAreKnown ==
    ASSUME NEW CONSTANT commands, ExpenseAssumption(commands)
    PROVE  ExpenseSpec(commands) => []ExpenseIInv(commands)
<1>1. ExpenseInit => ExpenseIInv(commands) BY EmptyBooksKnown DEF ExpenseIInv
<1>2. ExpenseIInv(commands) /\ [ServeExpenses(commands)]_expenseVars => ExpenseIInv(commands)'
  <2> SUFFICES ASSUME ExpenseIInv(commands), [ServeExpenses(commands)]_expenseVars
               PROVE  ExpenseIInv(commands)'
    OBVIOUS
  <2>1. CASE ServeExpenses(commands) BY <2>1, ExpenseStepKeeps
  <2>2. CASE UNCHANGED expenseVars BY <2>2 DEF expenseVars, ExpenseIInv
  <2> QED BY <2>1, <2>2
<1> QED BY <1>1, <1>2, PTL DEF ExpenseSpec

\* ExpenseBooksSound: no expense is paid beyond its amount, a cancelled one is paid by nothing,
\* the till and the owner's claim hold what the standing payments say, every line of edits has
\* one end, and what a reader is told of an expense and of a payment is so.
THEOREM ExpenseBooksAreSound ==
    ASSUME NEW CONSTANT commands, ExpenseAssumption(commands)
    PROVE  ExpenseSpec(commands) => []ExpenseBooksSound
<1>1. ExpenseIInv(commands) => ExpenseBooksSound BY ExpenseSound
<1>2. ExpenseSpec(commands) => []ExpenseIInv(commands) BY ExpensesAreKnown
<1> QED BY <1>1, <1>2, PTL
=============================================================================
