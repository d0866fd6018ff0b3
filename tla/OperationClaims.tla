--------------------------- MODULE OperationClaims ---------------------------
(* How every write of the program is claimed and answered under its operation *)
(* identifier. One row per identifier is shared by all the writers of a Store, *)
(* each of which has its own code for reading, claiming, comparing and         *)
(* completing it; a writer is described by what that code does. A request is a *)
(* transaction of a few statements; retries and reuses arrive in any order,    *)
(* and the right to write may be withdrawn between any two of them.            *)
EXTENDS Naturals, Sequences

CONSTANTS
    Callers,          \* connections that serve requests
    ClaimedOps,       \* operation identifiers
    Requests,         \* what clients may send, each any number of times
    Absent

VARIABLES
    claims,           \* sync.processed_operations, as committed
    reports,          \* sync.conflicts: the identifiers reported as reused
    effects,          \* how often the work of an identifier was committed
    writable,         \* whether the Store accepts new writes
    calls,            \* the transaction each connection is in
    first,            \* the first outcome that was told of each identifier
    heard             \* the answer the last step gave, if it gave one

claimVars == <<claims, reports, effects, writable, calls, first, heard>>

-----------------------------------------------------------------------------
(* A writer: the aggregate types it claims under; what the aggregate's        *)
(* identifier is, a row the client names, the operation or the Store itself; *)
(* whether the right to write is asked of every transaction or only of those  *)
(* about to claim; and how its outcomes are kept.                             *)
Writer(aggregates, id, gate, outcome) ==
    [aggregates |-> aggregates, id |-> id, gate |-> gate, outcome |-> outcome]

(* A refusal is replayed in the words that were stored, or in the words its   *)
(* code has in the replaying writer; or it is not kept, and the transaction   *)
(* is rolled back by the error that reports it.                               *)
InStoredWords == [keeps |-> TRUE, words |-> "stored"]
InWordsOfCode == [keeps |-> TRUE, words |-> "code"]
RolledBack == [keeps |-> FALSE, words |-> "stored"]

CustomerOutcome == InWordsOfCode
CustomerWrites == Writer({"customers"}, "row", "transaction", CustomerOutcome)
SupplierOutcome == InWordsOfCode
SupplierWrites == Writer({"suppliers"}, "row", "claim", SupplierOutcome)
ProductOutcome == InWordsOfCode
ProductWrites == Writer({"products", "product_units"}, "row", "claim", ProductOutcome)
CategoryOutcome == InStoredWords
CategoryWrites == Writer({"expense_categories"}, "row", "claim", CategoryOutcome)
SettingsOutcome == InStoredWords
SettingsWrites == Writer({"app_settings"}, "store", "claim", SettingsOutcome)
MoneyAccountOutcome == InStoredWords
MoneyAccountWrites == Writer({"money_accounts"}, "row", "claim", MoneyAccountOutcome)
PeriodOutcome == InStoredWords
PeriodWrites == Writer({"accounting_periods"}, "row", "claim", PeriodOutcome)

MovementOutcome == RolledBack
MovementPostings == Writer({"money_movements"}, "operation", "transaction", MovementOutcome)
AccountingCorrectionOutcome == InWordsOfCode
AccountingCorrections == Writer({"money_movements"}, "operation", "claim", AccountingCorrectionOutcome)
OwnerOutcome == InStoredWords
OwnerPostings ==
    Writer({"money_movements", "owner_ledger_entries"}, "operation", "claim", OwnerOutcome)
TransferOutcome == InStoredWords
TransferPostings == Writer({"money_transfers"}, "operation", "claim", TransferOutcome)

SaleOutcome == InStoredWords
SalePostings == Writer({"sales", "customer_ledger_entries"}, "operation", "claim", SaleOutcome)
SaleCorrectionOutcome == InWordsOfCode
SaleCorrections == Writer({"sale_corrections"}, "operation", "claim", SaleCorrectionOutcome)
CollectionOutcome == InStoredWords
CollectionPostings ==
    Writer({"customer_collections"}, "operation", "transaction", CollectionOutcome)
CreditOutcome == InStoredWords
CreditPostings ==
    Writer({"customer_financial_adjustments"}, "operation", "transaction", CreditOutcome)
FinancialCorrectionOutcome == InWordsOfCode
FinancialCorrections ==
    Writer({"customer_financial_corrections"}, "operation", "claim", FinancialCorrectionOutcome)
SaleReturnOutcome == InStoredWords
SaleReturnPostings == Writer({"sale_returns"}, "operation", "transaction", SaleReturnOutcome)
SaleReturnCorrectionOutcome == InWordsOfCode
SaleReturnCorrections ==
    Writer({"sale_return_corrections"}, "row", "claim", SaleReturnCorrectionOutcome)

InvoiceOutcome == InStoredWords
InvoicePostings ==
    Writer({"purchase_invoices", "supplier_ledger_entries"}, "operation", "claim", InvoiceOutcome)
InvoiceCorrectionOutcome == InWordsOfCode
InvoiceCorrections ==
    Writer({"supplier_financial_corrections"}, "operation", "claim", InvoiceCorrectionOutcome)
SupplierReturnOutcome == InWordsOfCode
SupplierReturnWrites ==
    Writer({"supplier_financial_returns", "supplier_financial_corrections"}, "operation", "claim",
           SupplierReturnOutcome)
SupplierPaymentOutcome == InStoredWords
SupplierPaymentPostings == Writer({"supplier_payments"}, "operation", "claim", SupplierPaymentOutcome)
SupplierPaymentCorrectionOutcome == InWordsOfCode
SupplierPaymentCorrections ==
    Writer({"supplier_payment_corrections"}, "operation", "claim", SupplierPaymentCorrectionOutcome)

ExpenseOutcome == InStoredWords
ExpenseRecognitions == Writer({"expenses"}, "row", "claim", ExpenseOutcome)
ExpensePaymentOutcome == InStoredWords
ExpensePayments == Writer({"expense_payments"}, "operation", "claim", ExpensePaymentOutcome)
ExpenseCorrectionOutcome == InWordsOfCode
ExpenseCorrections == Writer({"expense_corrections"}, "operation", "claim", ExpenseCorrectionOutcome)

StockOutcome == InStoredWords
StockPostings == Writer({"manual_inventory_entries"}, "operation", "claim", StockOutcome)
CountOutcome == InStoredWords
StockCounts == Writer({"stock_counts"}, "operation", "claim", CountOutcome)
StockCorrectionOutcome == InWordsOfCode
StockCorrections == Writer({"inventory_corrections"}, "operation", "claim", StockCorrectionOutcome)

(* All of them, each next to one whose rows its own resemble.                 *)
AllWriters ==
    <<CustomerWrites, SupplierWrites, ProductWrites, CategoryWrites, SettingsWrites,
      MoneyAccountWrites, PeriodWrites, MovementPostings, AccountingCorrections, OwnerPostings,
      TransferPostings, SalePostings, SaleCorrections, CollectionPostings, CreditPostings,
      FinancialCorrections, SaleReturnPostings, SaleReturnCorrections, InvoicePostings,
      InvoiceCorrections, SupplierReturnWrites, SupplierPaymentPostings,
      SupplierPaymentCorrections, ExpenseRecognitions, ExpensePayments, ExpenseCorrections,
      StockPostings, StockCounts, StockCorrections>>

-----------------------------------------------------------------------------
(* A request names its writer by the record above and by an action of it.     *)
(* What of a request the row keeps and is compared with.                      *)
Identity(r) ==
    [device |-> r.device, aggregate |-> r.aggregate,
     id |-> [row |-> r.row, operation |-> r.op, store |-> Absent][r.writer.id],
     action |-> r.action, hash |-> r.hash]

(* A correction words a refusal of the replacement as the document's own      *)
(* writer does. The corrections of customer money replay the word a receivable *)
(* adjustment has for the code, also where a collection said it otherwise.    *)
Words(r) == IF r.writer = FinancialCorrections THEN {"usual", "other"} ELSE {"usual"}
Replayed(r, row) == IF r.writer.outcome.words = "stored" THEN row.words ELSE "usual"

(* A request is sent to one of the writers, about an aggregate it claims.     *)
ASSUME RequestsAssumption ==
    \A r \in Requests :
        /\ r.op \in ClaimedOps
        /\ \E n \in DOMAIN AllWriters : r.writer = AllWriters[n]
        /\ r.aggregate \in r.writer.aggregates

IdleCall == [pc |-> "idle", request |-> Absent, wasSettled |-> FALSE]

ClaimInit ==
    /\ claims = [o \in ClaimedOps |-> Absent]
    /\ reports = {}
    /\ effects = [o \in ClaimedOps |-> 0]
    /\ writable = TRUE
    /\ calls = [c \in Callers |-> IdleCall]
    /\ first = [o \in ClaimedOps |-> Absent]
    /\ heard = Absent

Request(c) == calls[c].request
At(c, pc) == calls[c].pc = pc
GoTo(c, pc) == calls' = [calls EXCEPT ![c].pc = pc]
Silent == heard' = Absent /\ UNCHANGED first
IsOutcome(answer) == answer.status \in {"applied", "rejected"}
Answer(c, status, words) ==
    LET o == Request(c).op
        answer == [request |-> Request(c), status |-> status, words |-> words,
                   wasSettled |-> calls[c].wasSettled] IN
    /\ heard' = answer
    /\ first' = IF first[o] = Absent /\ IsOutcome(answer) THEN [first EXCEPT ![o] = answer] ELSE first
    /\ calls' = [calls EXCEPT ![c] = IdleCall]

(* The row is there: a reuse is reported and kept in sync.conflicts, unless    *)
(* the report is an error that rolls the transaction back.                    *)
ResolvePrior(c) ==
    LET row == claims[Request(c).op] IN
    /\ \/ /\ row.identity # Identity(Request(c))
          /\ reports' = IF Request(c).writer.outcome.keeps THEN reports \cup {Request(c).op}
                          ELSE reports
          /\ Answer(c, "conflict", "usual")
       \/ /\ row.identity = Identity(Request(c))
          /\ Answer(c, row.status, IF row.status = "applied" THEN row.words
                                   ELSE Replayed(Request(c), row))
          /\ UNCHANGED reports
    /\ UNCHANGED <<claims, effects, writable>>

Arrive(c, r) ==
    /\ At(c, "idle")
    /\ Silent
    /\ calls' = [calls EXCEPT ![c] =
         [pc |-> IF r.writer.gate = "transaction" THEN "gate" ELSE "read",
          request |-> r, wasSettled |-> claims[r.op] # Absent]]
    /\ UNCHANGED <<claims, reports, effects, writable>>

PassGate(c) ==
    /\ At(c, "gate")
    /\ \/ writable /\ GoTo(c, IF Request(c).writer.gate = "transaction" THEN "read" ELSE "claim")
                   /\ Silent
       \/ ~writable /\ Answer(c, "not_allowed", "usual")
    /\ UNCHANGED <<claims, reports, effects, writable>>

ReadPrior(c) ==
    /\ At(c, "read")
    /\ \/ claims[Request(c).op] # Absent /\ ResolvePrior(c)
       \/ /\ claims[Request(c).op] = Absent
          /\ GoTo(c, IF Request(c).writer.gate = "transaction" THEN "claim" ELSE "gate")
          /\ Silent
          /\ UNCHANGED <<claims, reports, effects, writable>>

(* The insert of the row waits for the transaction that has inserted it.      *)
IdentifierUnlocked(c) == c \in Callers
IdentifierFree(c) ==
    \A d \in Callers \ {c} : At(d, "work") => Request(d).op # Request(c).op

ClaimOperation(c) ==
    /\ At(c, "claim") /\ IdentifierFree(c)
    /\ \/ claims[Request(c).op] # Absent /\ ResolvePrior(c)
       \/ /\ claims[Request(c).op] = Absent
          /\ GoTo(c, "work")
          /\ Silent
          /\ UNCHANGED <<claims, reports, effects, writable>>

Complete(c, status, words) ==
    /\ claims' = [claims EXCEPT ![Request(c).op] =
         [identity |-> Identity(Request(c)), status |-> status, words |-> words]]
    /\ Answer(c, status, words)

Apply(c) ==
    /\ At(c, "work")
    /\ effects' = [effects EXCEPT ![Request(c).op] = @ + 1]
    /\ Complete(c, "applied", "usual")
    /\ UNCHANGED <<reports, writable>>

Refuse(c) ==
    /\ At(c, "work")
    /\ \E w \in Words(Request(c)) :
         IF Request(c).writer.outcome.keeps THEN Complete(c, "rejected", w)
         ELSE Answer(c, "refused", w) /\ UNCHANGED claims
    /\ UNCHANGED <<reports, effects, writable>>

(* The transaction fails or its connection is lost: nothing of it stays, and  *)
(* the client is told nothing of use.                                         *)
AbortCall(c) ==
    /\ ~At(c, "idle")
    /\ calls' = [calls EXCEPT ![c] = IdleCall]
    /\ Silent
    /\ UNCHANGED <<claims, reports, effects, writable>>

ChangeAuthority ==
    /\ writable' = ~writable
    /\ Silent
    /\ UNCHANGED <<claims, reports, effects, calls>>

ServeClaims(requests) ==
    \/ \E c \in Callers :
         \/ \E r \in requests : Arrive(c, r)
         \/ PassGate(c) \/ ReadPrior(c) \/ ClaimOperation(c)
         \/ Apply(c) \/ Refuse(c) \/ AbortCall(c)
    \/ ChangeAuthority

ClaimSpec == ClaimInit /\ [][ServeClaims(Requests)]_claimVars

-----------------------------------------------------------------------------
Wordings == {"usual", "other"}
Rows == [identity : {Identity(r) : r \in Requests}, status : {"applied", "rejected"}, words : Wordings]
Heard ==
    [request : Requests, status : {"applied", "rejected", "refused", "conflict", "not_allowed"},
     words : Wordings, wasSettled : BOOLEAN]
ASSUME AbsentAssumption == Absent \notin Rows \cup Heard

ClaimTypeOK ==
    /\ claims \in [ClaimedOps -> Rows \cup {Absent}]
    /\ reports \subseteq ClaimedOps
    /\ effects \in [ClaimedOps -> Nat]
    /\ writable \in BOOLEAN
    /\ calls \in [Callers -> [pc : {"idle", "gate", "read", "claim", "work"},
                            request : Requests \cup {Absent}, wasSettled : BOOLEAN]]
    /\ \A c \in Callers : ~At(c, "idle") => Request(c) \in Requests
    /\ first \in [ClaimedOps -> Heard \cup {Absent}]
    /\ heard \in Heard \cup {Absent}

Answers == {heard} \ {Absent}

(* The work of an identifier is done at most once, and it is done exactly     *)
(* when someone may be told so.                                               *)
EffectOnce ==
    \A o \in ClaimedOps :
        effects[o] = (IF claims[o] # Absent /\ claims[o].status = "applied" THEN 1 ELSE 0)

(* All that are told an outcome of an identifier sent the request that was    *)
(* told it first and are told the same, in the same words but for one writer. *)
AnswersAgree ==
    \A h \in Answers : IsOutcome(h) =>
        LET f == first[h.request.op] IN
        /\ Identity(f.request) = Identity(h.request)
        /\ f.status = h.status
        /\ h.request.writer # FinancialCorrections => f.words = h.words

(* Whoever is told that the identifier was reused left a report of it.        *)
ConflictsReported ==
    \A h \in Answers :
        (h.status = "conflict" /\ h.request.writer.outcome.keeps) => h.request.op \in reports

(* A settled operation is answered whatever became of the right to write, by  *)
(* the writers that ask for it only when they claim.                          *)
ReplayOutlivesAuthority ==
    \A h \in Answers :
        (h.wasSettled /\ h.request.writer.gate = "claim") => h.status # "not_allowed"

(* However requests are repeated and identifiers reused, across all writers,  *)
(* an identifier has one request, one outcome and one effect.                 *)
ClaimsSound == EffectOnce /\ AnswersAgree /\ ConflictsReported /\ ReplayOutlivesAuthority

-----------------------------------------------------------------------------
(* Why: the row of an identifier and the answer that was told of it first are *)
(* of one transaction, and the words that only one writer has stay with it.   *)
FirstIsRow ==
    \A o \in ClaimedOps :
        /\ first[o] = Absent <=> claims[o] = Absent
        /\ first[o] # Absent =>
             /\ first[o].request.op = o
             /\ claims[o] = [identity |-> Identity(first[o].request), status |-> first[o].status,
                             words |-> first[o].words]
             /\ first[o].words = "other" => first[o].request.writer = FinancialCorrections
             /\ first[o].status = "applied" => first[o].words = "usual"

(* One transaction at most works for an identifier, and only for a free one.  *)
WorksAlone ==
    \A c \in Callers : At(c, "work") =>
        /\ claims[Request(c).op] = Absent
        /\ \A d \in Callers \ {c} : At(d, "work") => Request(d).op # Request(c).op

(* A settled operation stays settled, and the writers that read it before     *)
(* they ask for the right to write do not come to ask.                        *)
SettledStays ==
    \A c \in Callers : (~At(c, "idle") /\ calls[c].wasSettled) =>
        /\ claims[Request(c).op] # Absent
        /\ At(c, "gate") => Request(c).writer.gate = "transaction"

ClaimIInv == ClaimTypeOK /\ FirstIsRow /\ WorksAlone /\ SettledStays /\ ClaimsSound
=============================================================================
