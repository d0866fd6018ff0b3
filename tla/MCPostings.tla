----------------------------- MODULE MCPostings -----------------------------
(* Two clients, two accounts and two months. Each desk is a set of commands *)
(* that meet on the same rows.                                              *)
EXTENDS Postings, TLC

CONSTANTS c1, c2

Symmetry == Permutations({c1, c2})
MCAmounts == {-1, 0, 1, 2}

Opening(o, a, n) ==
    [kind |-> "opening_balance", op |-> o, account |-> a, amount |-> n, period |-> "may"]
Owner(o, kind, a, n) ==
    [kind |-> kind, op |-> o, account |-> a, amount |-> n, period |-> "may"]
Transfer(o, a, b, n) ==
    [kind |-> "internal_transfer", op |-> o, account |-> a, to |-> b, amount |-> n,
     period |-> "may"]
Reverse(o, target, domain) ==
    [kind |-> "reversal", op |-> o, target |-> target, domain |-> domain, account |-> None,
     to |-> None, amount |-> 0, period |-> "may"]
Replace(o, target, domain, a, b, n) ==
    [kind |-> "replacement", op |-> o, target |-> target, domain |-> domain, account |-> a,
     to |-> b, amount |-> n, period |-> "may"]
Lifecycle(o, kind, v) == [kind |-> kind, op |-> o, account |-> 2, version |-> v]
Create(o, a) == [kind |-> "create", op |-> o, account |-> a, name |-> "bank"]
Close(o, v) == [kind |-> "close", op |-> o, period |-> "may", version |-> v]
Uncosted(o) == [kind |-> "uncosted", op |-> o, period |-> "may"]

CommandsOf(d) ==
    CASE d = "owner" ->
           {Create("e", 2), Owner("a", "owner_loan", Cash, 2), Owner("b", "owner_reimbursement", Cash, 2),
            Owner("c", "owner_reimbursement", 2, 1), Reverse("d", "a", "owner_loan"),
            Replace("d", "a", "owner_loan", Cash, None, 1)}
      [] d = "chain" ->
           {Opening("a", Cash, 1), Opening("b", Cash, 2), Opening("b", Cash, 0),
            Replace("c", "a", "opening_balance", None, None, -1),
            Reverse("d", "c", "opening_balance")}
      [] d = "transfers" ->
           {Create("a", 2), Transfer("b", 1, 2, 1), Transfer("c", 2, 1, 1),
            Replace("d", "b", "internal_transfer", 2, 1, 1)}
      [] d = "lifecycle" ->
           {Create("a", 2), Create("d", 1), Opening("b", 2, 1), Lifecycle("c", "archive", 1),
            Lifecycle("e", "restore", 2)}
      [] d = "closing" ->
           {Owner("a", "owner_contribution", Cash, 1), Uncosted("b"), Close("c", 1),
            Reverse("d", "a", "owner_contribution")}
      [] d = "month end" ->
           {Owner("a", "owner_contribution", Cash, 1), Owner("b", "owner_contribution", Cash, 2), Close("c", 1),
            Reverse("d", "a", "owner_contribution")}
Desks == {"owner", "chain", "transfers", "lifecycle", "closing", "month end"}

(* Two of the desks find the month open: an opening balance of nothing, which *)
(* leaves no event, was posted in it.                                         *)
PostingsInit(d) ==
    \/ d \notin {"chain", "month end"} /\ Init
    \/ /\ d \in {"chain", "month end"}
       /\ operation = [o \in Operations |->
                         IF o = "e" THEN Applied(Opening("e", Cash, 0), <<>>, <<>>, None) ELSE None]
       /\ account = [a \in Accounts |->
                       [status |-> IF a = Cash THEN "active" ELSE "absent",
                        name |-> None, version |-> IF a = Cash THEN 1 ELSE 0]]
       /\ period = [p \in Periods |-> [status |-> "open", version |-> 1]]
       /\ uncosted = {} /\ conflicts = {}
       /\ balance = [a \in Accounts |-> 0] /\ liability = 0
       /\ txn = [c \in Clients |-> Idle]

AllCommands == UNION {CommandsOf(d) : d \in Desks} \cup {Opening("e", Cash, 0)}
=============================================================================
