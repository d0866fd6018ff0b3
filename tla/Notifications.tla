---------------------------- MODULE Notifications ----------------------------
(* The notifications of one store. They are not events: a reconciliation     *)
(* compares the causes in the books with the notifications that are open and *)
(* opens, rewrites and ends them. Every request for the list begins with     *)
(* one, and a timer of the process runs one more after it.                   *)
EXTENDS Integers, Sequences, FiniteSets

LOCAL INSTANCE SequencesExt

CONSTANTS
    Runs,            \* reconciliations, each of one request or of the timer
    MaxChanges,      \* bound on the changes of the books
    MaxMarks,        \* bound on the marks of the reader
    MaxTicks,        \* bound on the timer: half a minute each
    KeptTicks,       \* how long an ended notification is kept
    DeleteLimit,     \* how many a reconciliation deletes
    None

VARIABLES
    books,     \* what the causes are read from
    alerts,    \* the notifications, in the order they were opened
    runs,      \* the reconciliations
    scheduled, \* until when the timer may reconcile for the store
    open,      \* does the platform accept writes
    ticks, changes, marks

alertVars == <<books, alerts, runs, scheduled, open, ticks, changes, marks>>

-----------------------------------------------------------------------------
(* The causes: one statement for each kind, in this order. The debt of a     *)
(* customer, what a supplier is owed, a product, an expense, the days the    *)
(* subscription has left. The limit of credit is read with the balances, the *)
(* other settings before.                                                    *)
Given(holds, key, text) == IF holds THEN {[key |-> key, text |-> text]} ELSE {}

BalanceCauses(s, now, c) ==
    Given(c.due > 0 /\ c.due >= s.amount, "customer_debt_amount", c.due)
      \cup Given(c.due > 0 /\ now.limit # None /\ c.due >= now.limit, "customer_credit_limit", 0)
AgeCauses(s, c) == Given(c.age # None /\ c.age >= s.days, "customer_debt_age", c.age)
DueCauses(p) == Given(p.due > 0, "supplier_due", p.due)
CreditCauses(p) == Given(p.net < 0, "review_required", -p.net)
StockCauses(s, q) ==
    IF q.amount < 0 THEN Given(TRUE, "negative_stock", q.amount)
    ELSE Given(q.amount = 0 \/ (s.low /\ q.threshold # None /\ q.amount <= q.threshold),
               "low_stock", q.amount)
ExpenseCauses(due) == Given(due > 0, "expense_due", due)
SubscriptionCauses(left) == Given(left # None /\ left <= 7, "subscription_expiry", 0)
BackupCauses(attention) == Given(attention, "backup_failure", 0)

Statements == <<"balances", "aged", "due", "credits", "stock", "expense", "subscription">>
FactOf(st) ==
    CASE st \in {"balances", "aged"} -> "customer"
      [] st \in {"due", "credits"} -> "supplier"
      [] OTHER -> st
KeysOf(st) ==
    CASE st = "balances" -> {"customer_debt_amount", "customer_credit_limit"}
      [] st = "aged" -> {"customer_debt_age"}
      [] st = "due" -> {"supplier_due"}
      [] st = "credits" -> {"review_required"}
      [] st = "stock" -> {"negative_stock", "low_stock"}
      [] st = "expense" -> {"expense_due"}
      [] st = "subscription" -> {"subscription_expiry"}
CausesOf(st, s, now, fact) ==
    CASE st = "balances" -> BalanceCauses(s, now, fact)
      [] st = "aged" -> AgeCauses(s, fact)
      [] st = "due" -> DueCauses(fact)
      [] st = "credits" -> CreditCauses(fact)
      [] st = "stock" -> StockCauses(s, fact)
      [] st = "expense" -> ExpenseCauses(fact)
      [] st = "subscription" -> SubscriptionCauses(fact)

(* A store without a customer, say, has nothing for that statement to find.  *)
Asked == SelectSeq(Statements, LAMBDA st : FactOf(st) \in DOMAIN books)
CausesIn(b) == UNION {CausesOf(st, b.settings, b.settings, b[FactOf(st)]) : st \in ToSet(Asked)}

-----------------------------------------------------------------------------
(* The rows, the runs. What the books have held since a run began, and      *)
(* whether a cause may have lapsed since its row was opened, are kept to     *)
(* state the properties.                                                     *)
Alert(cause, lapsed) ==
    [key |-> cause.key, text |-> cause.text, ended |-> None, read |-> FALSE, lapsed |-> lapsed]

Present == {i \in DOMAIN alerts : alerts[i] # None}
Unresolved == {i \in Present : alerts[i].ended = None}

Idle == [phase |-> "idle"]
Began(by) ==
    [phase |-> "begun", by |-> by, had |-> [f \in DOMAIN books |-> {books[f]}],
     settings |-> None, left |-> <<>>, causes |-> {}, found |-> {}, reconciled |-> "no",
     shown |-> {}]

Live(r) == runs[r].phase \notin {"idle", "over"}
InTransaction(r) == runs[r].phase \in {"reading", "matched"}
LockFree == \A r \in Runs : ~InTransaction(r)

NotificationsInit(initialBooks, initialAlerts) ==
    /\ books = initialBooks
    /\ alerts = initialAlerts
    /\ runs = [r \in Runs |-> Idle]
    /\ scheduled = None
    /\ open = TRUE
    /\ ticks = 0 /\ changes = 0 /\ marks = 0

-----------------------------------------------------------------------------
(* The request: the timer learns of the store, for a minute at most or until *)
(* the session ends.                                                         *)
Ask(r, until) ==
    /\ runs[r].phase = "idle"
    /\ runs' = [runs EXCEPT ![r] = Began("request")]
    /\ scheduled' = until
    /\ UNCHANGED <<books, alerts, open, ticks, changes, marks>>

(* The timer forgets every store, whatever it then does for it.              *)
Tick ==
    /\ ticks < MaxTicks
    /\ ticks' = ticks + 1
    /\ scheduled' = None
    /\ IF scheduled # None /\ scheduled > ticks + 1
       THEN \E r \in Runs :
              runs[r].phase = "idle" /\ runs' = [runs EXCEPT ![r] = Began("timer")]
       ELSE UNCHANGED runs
    /\ UNCHANGED <<books, alerts, open, changes, marks>>

(* The health of the backups is asked before the transaction.                *)
ReadBackup(r) ==
    LET backup == IF "backup" \in DOMAIN books THEN BackupCauses(books.backup) ELSE {} IN
    /\ runs[r].phase = "begun"
    /\ runs' = [runs EXCEPT ![r].phase = "locking", ![r].causes = backup]
    /\ UNCHANGED <<books, alerts, scheduled, open, ticks, changes, marks>>

(* The lock of the store, then the settings: the causes are read under it.   *)
ReadSettings(r) ==
    /\ runs[r].phase = "locking" /\ open
    /\ LockFree
    /\ runs' = [runs EXCEPT ![r].phase = "reading", ![r].settings = books.settings,
                            ![r].left = Asked]
    /\ UNCHANGED <<books, alerts, scheduled, open, ticks, changes, marks>>

ReadCauses(r) ==
    /\ runs[r].phase = "reading" /\ runs[r].left # <<>>
    /\ LET st == Head(runs[r].left)
           more == CausesOf(st, runs[r].settings, books.settings, books[FactOf(st)]) IN
       runs' = [runs EXCEPT ![r].causes = @ \cup more, ![r].left = Tail(@)]
    /\ UNCHANGED <<books, alerts, scheduled, open, ticks, changes, marks>>

Match(r) ==
    /\ runs[r].phase = "reading" /\ runs[r].left = <<>>
    /\ runs' = [runs EXCEPT ![r].phase = "matched", ![r].found = Unresolved]
    /\ UNCHANGED <<books, alerts, scheduled, open, ticks, changes, marks>>

-----------------------------------------------------------------------------
(* The rows as the transaction leaves them; an ended row gives its key back. *)
CauseOf(r, i) == {c \in runs[r].causes : c.key = alerts[i].key}
NewCauses(r) == {c \in runs[r].causes : \A i \in runs[r].found : alerts[i].key # c.key}
Taken(r) == \E i \in Unresolved, c \in NewCauses(r) : alerts[i].key = c.key

Rewritten(r, i) == [alerts[i] EXCEPT !.text = (CHOOSE c \in CauseOf(r, i) : TRUE).text]
Resolved(i) == [alerts[i] EXCEPT !.ended = ticks]
Opened(r) ==
    LET changed == \E f \in DOMAIN books : runs[r].had[f] # {books[f]} IN
    SetToSeq({Alert(c, changed) : c \in NewCauses(r)})

Outdated == {i \in Present : alerts[i].ended # None /\ ticks - alerts[i].ended > KeptTicks}
Earlier(i, j) ==
    alerts[i].ended < alerts[j].ended \/ (alerts[i].ended = alerts[j].ended /\ i < j)
Deleted == {i \in Outdated : Cardinality({j \in Outdated : Earlier(j, i)}) < DeleteLimit}

EndOf(r) == IF runs[r].by = "timer" THEN "over" ELSE "listing"

Commit(r) ==
    /\ runs[r].phase = "matched" /\ ~Taken(r)
    /\ alerts' =
         [i \in DOMAIN alerts |->
            CASE i \in Deleted -> None
              [] i \in runs[r].found /\ CauseOf(r, i) = {} -> Resolved(i)
              [] i \in runs[r].found /\ CauseOf(r, i) # {} -> Rewritten(r, i)
              [] OTHER -> alerts[i]] \o Opened(r)
    /\ runs' = [runs EXCEPT ![r].phase = EndOf(r), ![r].reconciled = "yes"]
    /\ UNCHANGED <<books, scheduled, open, ticks, changes, marks>>

(* A failure is only logged: the writes are refused, a key is taken already, *)
(* a statement fails.                                                        *)
Fail(r) ==
    /\ \/ runs[r].phase = "locking" /\ ~open
       \/ InTransaction(r)
    /\ LET taken == runs[r].phase = "matched" /\ Taken(r) IN
       runs' = [runs EXCEPT ![r].phase = EndOf(r), ![r].reconciled = IF taken THEN "taken" ELSE "no"]
    /\ UNCHANGED <<books, alerts, scheduled, open, ticks, changes, marks>>

(* What the request answers with.                                            *)
List(r) ==
    /\ runs[r].phase = "listing"
    /\ runs' = [runs EXCEPT ![r].phase = "over",
                            ![r].shown = {[key |-> alerts[i].key, text |-> alerts[i].text] :
                                            i \in Unresolved}]
    /\ UNCHANGED <<books, alerts, scheduled, open, ticks, changes, marks>>

(* A mark waits for a reconciliation that has the row; it stays with the row.*)
SetReadState(i, read) ==
    /\ i \in Present /\ open
    /\ \A r \in Runs : runs[r].phase = "matched" => i \notin runs[r].found
    /\ marks < MaxMarks /\ marks' = marks + 1
    /\ alerts' = [alerts EXCEPT ![i].read = read]
    /\ UNCHANGED <<books, runs, scheduled, open, ticks, changes>>

(* The books change, by whoever posts, edits the settings or lets time pass. *)
Change(f, value) ==
    LET next == [books EXCEPT ![f] = value]
        keys == {c.key : c \in CausesIn(next)} IN
    /\ changes < MaxChanges /\ changes' = changes + 1
    /\ value # books[f]
    /\ books' = next
    /\ alerts' = [i \in DOMAIN alerts |->
                    IF i \in Unresolved /\ (f = "settings" \/ alerts[i].key \notin keys)
                    THEN [alerts[i] EXCEPT !.lapsed = TRUE] ELSE alerts[i]]
    /\ runs' = [r \in Runs |->
                  IF Live(r) THEN [runs[r] EXCEPT !.had[f] = @ \cup {value}] ELSE runs[r]]
    /\ UNCHANGED <<scheduled, open, ticks, marks>>

(* The platform is fenced: that waits for whoever asserted its right before. *)
Close ==
    /\ open /\ open' = FALSE
    /\ \A r \in Runs : ~InTransaction(r)
    /\ UNCHANGED <<books, alerts, runs, scheduled, ticks, changes, marks>>

-----------------------------------------------------------------------------
(* Properties *)

(* A list that was reconciled is no older than its request: for every kind   *)
(* of cause it shows what the books (under the settings) held at one moment  *)
(* since the request began, nothing less, nothing that had ended, whatever   *)
(* other reconciliations commit in between (notification.repository.ts:107). *)
ListIsFresh ==
    \A r \in Runs :
        runs[r].phase = "over" /\ runs[r].by = "request" /\ runs[r].reconciled = "yes" =>
            \A st \in ToSet(Asked) :
                \E s, now \in runs[r].had.settings, fact \in runs[r].had[FactOf(st)] :
                    {c \in runs[r].shown : c.key \in KeysOf(st)} = CausesOf(st, s, now, fact)

(* Two reconciliations never both open an episode of one cause: none fails   *)
(* because the key is taken (notification.repository.ts:169).                *)
NoKeyTaken == \A r \in Runs : Live(r) \/ runs[r].phase = "over" => runs[r].reconciled # "taken"

(* A notification ends only if its cause did lapse, or the settings changed: *)
(* else its row, with the mark of its reader, stays. The backups are asked   *)
(* before the lock and have no such promise (notification.repository.ts:181).*)
EpisodesAreStable ==
    \A i \in Present :
        alerts[i].ended # None /\ alerts[i].key # "backup_failure" => alerts[i].lapsed

(* What the notifications say of the books: see the parts above.             *)
NotificationsSound == ListIsFresh /\ NoKeyTaken /\ EpisodesAreStable
=============================================================================
