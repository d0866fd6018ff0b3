----------------------------- MODULE MCRequests -----------------------------
(* Desks of the platform: the life of a subscription, the suspension of a     *)
(* Store under what relies on it, and the licenses of a device. And claims:   *)
(* two writers at a time, each next to one whose rows its own resemble most.  *)
EXTENDS PlatformAuthority, OperationClaims

Provision(o, activate) == [kind |-> "provision", op |-> o, activate |-> activate]
Do(o, kind) == [kind |-> kind, op |-> o]
Store(o, kind, v) == [kind |-> kind, op |-> o, version |-> v]
Revoke(o, license) == [kind |-> "revoke", op |-> o, license |-> license]
Write == [kind |-> "write", op |-> Unset]

PlatformDesk(d) ==
    CASE d = "foundation" ->
           {Provision(1, FALSE), Provision(1, TRUE), Do(1, "extend"), Do(2, "activate"), Do(3, "activate")}
      [] d = "subscriptions" ->
           {Do(2, "activate"), Do(3, "extend"), Do(4, "cancel"), Do(5, "reactivate"), Do(3, "activate")}
      [] d = "suspension" ->
           {Store(2, "suspend", 1), Store(3, "suspend", 1), Store(3, "restore", 2),
            Store(4, "suspend", 3), Do(2, "extend"), Write}
      [] d = "licenses" ->
           {Do(2, "issue"), Do(3, "issue"), Revoke(4, 1), Do(5, "cancel")}
PlatformDesks == {"foundation", "subscriptions", "suspension", "licenses"}
MCPlatformCommands == UNION {PlatformDesk(d) : d \in PlatformDesks}

(* All desks but the first find the Store provisioned.                        *)
PlatformDeskInit(d) ==
    \/ d = "foundation" /\ PlatformInit
    \/ /\ d # "foundation"
       /\ clock = 0 /\ licenses = <<>>
       /\ store = [status |-> "active", version |-> 1]
       /\ subscriptions = <<Subscription(0)>>
       /\ decisions = <<[op |-> 1, kind |-> "provision", row |-> 1, version |-> Unset]>>
       /\ requests = [c \in Requesters |-> Unset]

ServePlatform(d) == PlatformNext(PlatformDesk(d))

-----------------------------------------------------------------------------
(* The request, its repetition on another device or with another body (they   *)
(* take turns: all compare the same) and, where the client names it, about    *)
(* another row, and a request to the next writer under the same identifier.   *)
RequestTo(n, aggregate, device, row, hash) ==
    [op |-> 1, writer |-> AllWriters[n], action |-> n, aggregate |-> aggregate,
     device |-> device, row |-> row, hash |-> hash]
ClaimDesk(n, of) ==
    LET next == 1 + (n % Len(AllWriters))
        shared == AllWriters[n].aggregates \cap AllWriters[next].aggregates
        pick(S) == IF shared # {} THEN CHOOSE a \in shared : TRUE ELSE CHOOSE a \in S : TRUE
        mine == pick(AllWriters[n].aggregates) IN
    {RequestTo(n, mine, 1, 1, 1)} \cup
      CASE of = "next" -> {RequestTo(next, pick(AllWriters[next].aggregates), 1, 1, 1)}
        [] of = "again" -> {RequestTo(n, mine, 1 + (n % 2), 1, 2 - (n % 2))}
             \cup IF AllWriters[n].id = "row" THEN {RequestTo(n, mine, 1, 2, 1)} ELSE {}
ClaimDesks == (1..Len(AllWriters)) \X {"again", "next"}
ClaimDeskOf == [d \in ClaimDesks |-> ClaimDesk(d[1], d[2])]
MCRequests == UNION {ClaimDeskOf[d] : d \in ClaimDesks}
=============================================================================
