-------------------------- MODULE OperationLedger --------------------------
(***************************************************************************)
(* What the idempotency protocol promises, without transactions, locks,    *)
(* provenance or retries: a book in which an operation is entered once,    *)
(* for one request, and clients are told of entries that are in it.        *)
(***************************************************************************)
CONSTANTS Ops, Requests, NoRequest

VARIABLES
    ledger,        \* the request whose effect each operation had
    acknowledged   \* the <<operation, request>> pairs reported as applied

Init ==
    /\ ledger = [o \in Ops |-> NoRequest]
    /\ acknowledged = {}

\* The effect is entered and reported.
Apply(o, r) ==
    /\ ledger[o] = NoRequest
    /\ ledger' = [ledger EXCEPT ![o] = r]
    /\ acknowledged' = acknowledged \cup {<<o, r>>}

\* A replay reports the entry again.
Replay(o, r) ==
    /\ ledger[o] = r
    /\ acknowledged' = acknowledged \cup {<<o, r>>}
    /\ UNCHANGED ledger

Next == \E o \in Ops, r \in Requests : Apply(o, r) \/ Replay(o, r)

Spec == Init /\ [][Next]_<<ledger, acknowledged>>
=============================================================================
