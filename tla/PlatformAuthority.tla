-------------------------- MODULE PlatformAuthority --------------------------
(* What the platform decides about one Store - it is provisioned, suspended   *)
(* and restored, its subscription begins, is extended, cancelled and begun    *)
(* again - and what relies on it: business writes, and the offline licenses   *)
(* of a device. A request is one transaction. It reads the clock before it    *)
(* waits for its locks, and the rows after it.                                *)
EXTENDS Integers, Sequences

CONSTANTS
    Requesters,    \* requests under way at the same time
    PlatformCommands, \* what may be asked of the platform, each any number of times
    PlanDays,      \* duration of the plan
    LicenseDays,   \* how long a device may go without the server: 168 hours
    LastDay,       \* bound on the clock
    Unset

VARIABLES
    clock,         \* the day
    store,         \* ledger.stores, with the owner, settings and Cash: Unset, or the row
    subscriptions, \* platform.subscriptions, in the order they were made
    licenses,      \* platform.license_issuances of a device, in the order they were made
    decisions,     \* platform.admin_actions and the completed issues, in the same way
    requests       \* the transactions: Unset, or the command and how far it is

platformVars == <<clock, store, subscriptions, licenses, decisions, requests>>

PlatformInit ==
    /\ clock = 0
    /\ store = Unset
    /\ subscriptions = <<>>
    /\ licenses = <<>>
    /\ decisions = <<>>
    /\ requests = [c \in Requesters |-> Unset]

-----------------------------------------------------------------------------
(* Commands of one family look for each other under an operation identifier.  *)
SubscriptionActions == {"activate", "extend", "cancel", "reactivate"}
StoreActions == {"suspend", "restore"}
Family(kind) ==
    CASE kind \in SubscriptionActions \cup {"provision"} -> "subscription"
      [] kind \in StoreActions -> "store"
      [] OTHER -> kind

(* The identifier of the Store is made of that of the operation that          *)
(* provisions it: no other does.                                              *)
PlatformKinds == SubscriptionActions \cup StoreActions \cup {"provision", "write", "issue", "revoke"}
ASSUME CommandsAssumption ==
    /\ \A cmd \in PlatformCommands :
         cmd.kind \in PlatformKinds /\ (cmd.kind = "provision" => cmd.activate \in BOOLEAN)
    /\ \A a, b \in PlatformCommands : (a.kind = "provision" /\ b.kind = "provision") => a.op = b.op
ASSUME DaysAssumption == PlanDays \in Nat /\ LicenseDays \in Nat \ {0} /\ LastDay \in Nat

(* The advisory lock of a command: three prefixes before the identifier.      *)
LockKey(cmd) ==
    CASE Family(cmd.kind) \in {"subscription", "store"} -> <<"s18", cmd.op>>
      [] cmd.kind = "revoke" -> <<"license admin", cmd.op>>
      [] cmd.kind = "issue" -> <<"license", cmd.op>>

(* The rows that make a command a replay, or a reuse of its identifier:       *)
(* either way it decides nothing. A subscription command sees those of its    *)
(* own family; the others see whatever an administrator did.                  *)
Earlier(cmd) ==
    {i \in DOMAIN decisions :
       /\ decisions[i].op = cmd.op
       /\ IF Family(cmd.kind) \in {"subscription", "issue"}
          THEN Family(decisions[i].kind) = Family(cmd.kind)
          ELSE decisions[i].kind # "issue"}

-----------------------------------------------------------------------------
(* What the Store and its subscriptions allow.                                *)
Running == {i \in DOMAIN subscriptions : subscriptions[i].status = "active"}
Covers(i, day) == subscriptions[i].starts <= day /\ day < subscriptions[i].ends
Later(i, j) ==
    \/ subscriptions[i].starts > subscriptions[j].starts
    \/ subscriptions[i].starts = subscriptions[j].starts /\ subscriptions[i].ends > subscriptions[j].ends
Last(i) == \A j \in DOMAIN subscriptions : ~Later(j, i)

(* write_eligible of the effective entitlement, at the day it was asked.      *)
Entitled(day) == store.status = "active" /\ \E i \in Running : Covers(i, day)

SubscriptionAllows(kind, day) ==
    /\ store.status # "suspended"
    /\ CASE kind = "activate" -> Running = {}
         [] kind = "extend" -> \E i \in Running : Covers(i, day)
         [] kind = "cancel" -> \E i \in Running : day < subscriptions[i].ends
         [] kind = "reactivate" ->
              \/ \E i \in Running : day >= subscriptions[i].ends
              \/ /\ Running = {}
                 /\ \E i \in DOMAIN subscriptions : Last(i) /\ subscriptions[i].status = "expired"

StoreAllows(cmd) ==
    /\ store.version = cmd.version
    /\ store.status = IF cmd.kind = "suspend" THEN "active" ELSE "suspended"

Allows(cmd, day) ==
    CASE cmd.kind = "provision" -> store = Unset
      [] cmd.kind \in SubscriptionActions -> store # Unset /\ SubscriptionAllows(cmd.kind, day)
      [] cmd.kind \in StoreActions -> store # Unset /\ StoreAllows(cmd)
      [] cmd.kind \in {"write", "issue"} -> store # Unset /\ Entitled(day)
      [] cmd.kind = "revoke" -> store # Unset

-----------------------------------------------------------------------------
(* Locks: on the operation, on the Store (and with it on its subscriptions,   *)
(* in the same mode), on a license.                                           *)
AtStep(c, step) == requests[c] # Unset /\ requests[c].step = step
OtherRequests(c) == {d \in Requesters \ {c} : requests[d] # Unset}
HasOperation(d) == requests[d].step # "begun" /\ requests[d].cmd.kind # "write"
HasStore(d) == requests[d].step \in {"locked", "latest", "decided"} /\ requests[d].cmd.kind # "provision"
Exclusive(cmd) == cmd.kind \in SubscriptionActions \cup StoreActions

(* A broken variant: whoever reads the entitlement does not lock it.          *)
StoreRowUnlocked(c) == TRUE
StoreRowFree(c) ==
    \A d \in OtherRequests(c) :
      HasStore(d) => ~Exclusive(requests[d].cmd) /\ ~Exclusive(requests[c].cmd)

(* An issue keeps the latest license it saw, a revocation its own.            *)
LicenseFree(c, license) ==
    \A d \in OtherRequests(c) :
      (requests[d].step = "decided" /\ requests[d].license = license) =>
        /\ requests[d].cmd.kind # "revoke"
        /\ requests[c].cmd.kind # "revoke"

-----------------------------------------------------------------------------
(* The steps of a request.                                                    *)
NewRequest(cmd) ==
    [step |-> "begun", cmd |-> cmd, day |-> clock, subscription |-> Unset, version |-> Unset, license |-> Unset]
Go(c, step) == requests' = [requests EXCEPT ![c].step = step]
Over(c) == requests' = [requests EXCEPT ![c] = Unset]
Undecided == UNCHANGED <<clock, store, subscriptions, licenses, decisions>>

Begin(c, cmd) ==
    /\ requests[c] = Unset
    /\ requests' = [requests EXCEPT ![c] = NewRequest(cmd)]
    /\ Undecided

(* An issue asks for the entitlement, and its clock, after its operation.     *)
LockOperation(c) ==
    /\ AtStep(c, "begun")
    /\ requests[c].cmd.kind # "write"
    /\ \A d \in OtherRequests(c) : HasOperation(d) => LockKey(requests[d].cmd) # LockKey(requests[c].cmd)
    /\ IF Earlier(requests[c].cmd) # {} THEN Over(c)
       ELSE requests' = [requests EXCEPT ![c].step = "identified",
                                         ![c].day = IF requests[c].cmd.kind = "issue" THEN clock ELSE @]
    /\ Undecided

DecidesWithStore(cmd) == cmd.kind \notin {"issue", "revoke"}
LockStoreRow(c) ==
    LET cmd == requests[c].cmd IN
    /\ AtStep(c, IF requests[c] # Unset /\ cmd.kind = "write" THEN "begun" ELSE "identified")
    /\ StoreRowFree(c)
    /\ IF ~Allows(cmd, requests[c].day) THEN Over(c)
       ELSE \E i \in IF Running = {} THEN {Unset} ELSE Running :
              requests' = [requests EXCEPT
                ![c].step = IF DecidesWithStore(cmd) THEN "decided" ELSE "locked",
                ![c].subscription = i,
                ![c].version = IF i = Unset THEN Unset ELSE subscriptions[i].version]
    /\ Undecided

(* The latest license is looked for by one statement, which then waits for    *)
(* the row; what another request has issued meanwhile it does not see. Of one *)
(* instant the serial decides, which need not follow the commits.             *)
NewestLicenses == {i \in DOMAIN licenses : \A j \in DOMAIN licenses : licenses[j].issued <= licenses[i].issued}
FindLatest(c) ==
    /\ AtStep(c, "locked")
    /\ requests[c].cmd.kind = "issue"
    /\ \E i \in IF licenses = <<>> THEN {Unset} ELSE NewestLicenses :
         requests' = [requests EXCEPT ![c].step = "latest", ![c].license = i]
    /\ Undecided

(* Prepared and, outside of the database, signed.                             *)
ShareLatest(c) ==
    /\ AtStep(c, "latest")
    /\ LicenseFree(c, requests[c].license)
    /\ IF \/ (requests[c].license # Unset /\ licenses[requests[c].license].revoked)
          \/ ~Covers(requests[c].subscription, clock)
       THEN Over(c)
       ELSE requests' = [requests EXCEPT ![c].step = "decided", ![c].day = clock]
    /\ Undecided

LockLicense(c) ==
    LET license == requests[c].cmd.license IN
    /\ AtStep(c, "locked")
    /\ requests[c].cmd.kind = "revoke"
    /\ LicenseFree(c, license)
    /\ IF license \notin DOMAIN licenses \/ licenses[license].revoked THEN Over(c)
       ELSE requests' = [requests EXCEPT ![c].step = "decided", ![c].license = license]
    /\ Undecided

-----------------------------------------------------------------------------
(* What a request commits.                                                    *)
Subscription(day) ==
    [status |-> "active", starts |-> day, ends |-> day + PlanDays, version |-> 1, cancelled |-> Unset]
Changed(row) == [row EXCEPT !.version = @ + 1]
Extended(row) == Changed([row EXCEPT !.ends = @ + PlanDays])
Cancelled(row, day) == Changed([row EXCEPT !.status = "cancelled", !.cancelled = day])
Expired(row) == Changed([row EXCEPT !.status = "expired"])

SubscriptionsAfter(cmd, day, i) ==
    CASE cmd.kind = "activate" \/ (cmd.kind = "provision" /\ cmd.activate) ->
           Append(subscriptions, Subscription(day))
      [] cmd.kind = "extend" ->
           [subscriptions EXCEPT ![i] = Extended(subscriptions[i])]
      [] cmd.kind = "cancel" ->
           [subscriptions EXCEPT ![i] = Cancelled(subscriptions[i], day)]
      [] cmd.kind = "reactivate" ->
           Append(IF i = Unset THEN subscriptions
                  ELSE [subscriptions EXCEPT ![i] = Expired(subscriptions[i])],
                  Subscription(day))
      [] OTHER -> subscriptions

StoreAfter(cmd) ==
    CASE cmd.kind = "provision" -> [status |-> "active", version |-> 1]
      [] cmd.kind = "suspend" -> Changed([store EXCEPT !.status = "suspended"])
      [] cmd.kind = "restore" -> Changed([store EXCEPT !.status = "active"])
      [] OTHER -> store

Least(a, b) == IF a < b THEN a ELSE b
License(r) ==
    [subscription |-> r.subscription, issued |-> r.day, prior |-> r.license, revoked |-> FALSE,
     ends |-> Least(r.day + LicenseDays, subscriptions[r.subscription].ends)]
LicensesAfter(r) ==
    CASE r.cmd.kind = "issue" -> Append(licenses, License(r))
      [] r.cmd.kind = "revoke" -> [licenses EXCEPT ![r.license].revoked = TRUE]
      [] OTHER -> licenses

(* The decision tells the row it made or changed, as it is then.              *)
Decision(r) ==
    LET cmd == r.cmd
        made == SubscriptionsAfter(cmd, r.day, r.subscription)
        row == IF Len(made) > Len(subscriptions) THEN Len(made) ELSE r.subscription
    IN [op |-> cmd.op, kind |-> cmd.kind,
        row |-> CASE cmd.kind = "issue" -> Len(licenses) + 1
                  [] cmd.kind = "revoke" -> r.license
                  [] cmd.kind \in StoreActions -> Unset
                  [] OTHER -> row,
        version |-> CASE cmd.kind \in StoreActions -> StoreAfter(cmd).version
                      [] cmd.kind \in SubscriptionActions -> made[row].version
                      [] OTHER -> Unset]

CommitRequest(c) ==
    LET r == requests[c] IN
    /\ AtStep(c, "decided")
    /\ store' = StoreAfter(r.cmd)
    /\ subscriptions' = SubscriptionsAfter(r.cmd, r.day, r.subscription)
    /\ licenses' = LicensesAfter(r)
    /\ decisions' = IF r.cmd.kind = "write" THEN decisions ELSE Append(decisions, Decision(r))
    /\ Over(c)
    /\ UNCHANGED clock

(* An error, or a connection lost: nothing of the transaction stays.          *)
AbortRequest(c) ==
    /\ requests[c] # Unset
    /\ Over(c)
    /\ Undecided

Midnight ==
    /\ clock < LastDay
    /\ clock' = clock + 1
    /\ UNCHANGED <<store, subscriptions, licenses, decisions, requests>>

PlatformNext(commands) ==
    \/ \E c \in Requesters :
         \/ \E cmd \in commands : Begin(c, cmd)
         \/ LockOperation(c) \/ LockStoreRow(c)
         \/ FindLatest(c) \/ ShareLatest(c) \/ LockLicense(c)
         \/ CommitRequest(c) \/ AbortRequest(c)
    \/ Midnight

PlatformSpec == PlatformInit /\ [][PlatformNext(PlatformCommands)]_platformVars

-----------------------------------------------------------------------------
StoreRows == [status : {"active", "suspended"}, version : Nat \ {0}]
SubscriptionRows ==
    [status : {"active", "cancelled", "expired"}, starts : Nat, ends : Nat, version : Nat \ {0},
     cancelled : Nat \cup {Unset}]
LicenseRows ==
    [subscription : Nat \ {0}, issued : Nat, prior : Nat \cup {Unset}, revoked : BOOLEAN, ends : Nat]
DecisionRows ==
    [op : {cmd.op : cmd \in PlatformCommands}, kind : PlatformKinds, row : Nat \cup {Unset},
     version : Nat \cup {Unset}]
RequestRows ==
    [step : {"begun", "identified", "locked", "latest", "decided"}, cmd : PlatformCommands, day : Nat,
     subscription : Nat \cup {Unset}, version : Nat \cup {Unset}, license : Nat \cup {Unset}]
ASSUME UnsetAssumption == Unset \notin Nat \cup StoreRows \cup RequestRows

PlatformTypeOK ==
    /\ clock \in Nat
    /\ store \in StoreRows \cup {Unset}
    /\ subscriptions \in Seq(SubscriptionRows)
    /\ licenses \in Seq(LicenseRows)
    /\ decisions \in Seq(DecisionRows)
    /\ requests \in [Requesters -> RequestRows \cup {Unset}]

(* A Store has one subscription at a time; one that expired was over when the *)
(* one that took its place began (manage_subscription_lifecycle). One that is *)
(* activated later may begin earlier: its request read the clock and waited.  *)
OneSubscription ==
    \A i \in DOMAIN subscriptions :
      i < Len(subscriptions) =>
        /\ subscriptions[i].status # "active"
        /\ subscriptions[i].status = "expired" => subscriptions[i].ends <= subscriptions[i + 1].starts

(* The history of a subscription tells every version once and in order, and   *)
(* nothing after it was cancelled, whatever waited for it meanwhile.          *)
HistoryInOrder ==
    \A i, j \in DOMAIN decisions :
      (/\ i < j /\ decisions[i].kind \in SubscriptionActions /\ decisions[j].kind \in SubscriptionActions
       /\ decisions[i].row = decisions[j].row)
      => decisions[i].kind # "cancel" /\ decisions[i].version < decisions[j].version

(* Of two administrators who saw the same version of the Store one decides:   *)
(* suspensions and restorations alternate, and every version has its decision. *)
StoreActionsAlternate ==
    \A i \in DOMAIN decisions :
      decisions[i].kind \in StoreActions =>
        LET before == {j \in 1..(i - 1) : decisions[j].kind \in StoreActions} IN
        /\ decisions[i].version \notin {decisions[j].version : j \in before}
        /\ \E v \in {decisions[i].version - 1} :
             IF v = 1 THEN decisions[i].kind = "suspend"
             ELSE \E j \in before : decisions[j].version = v /\ decisions[j].kind # decisions[i].kind

(* An operation identifier decides once within a family, and what suspends or *)
(* restores the Store never reuses the identifier of a subscription command.  *)
DecidedOnce ==
    \A i, j \in DOMAIN decisions :
      (i < j /\ decisions[i].op = decisions[j].op) =>
        /\ Family(decisions[i].kind) # Family(decisions[j].kind)
        /\ ~(Family(decisions[i].kind) = "subscription" /\ Family(decisions[j].kind) = "store")

(* What a write or a license relies on still stands when it is committed: the *)
(* Store is active, and its subscription the one that was read, unchanged.    *)
EntitlementStands ==
    \A c \in Requesters :
      (AtStep(c, "decided") /\ requests[c].cmd.kind \in {"write", "issue"}) =>
        /\ store.status = "active"
        /\ subscriptions[requests[c].subscription].status = "active"
        /\ subscriptions[requests[c].subscription].version = requests[c].version

(* A license never outlasts the subscription it was issued under, and is      *)
(* never issued over a license that was revoked by then.                      *)
LicensesSound ==
    \A i \in DOMAIN decisions :
      decisions[i].kind = "issue" =>
        LET l == licenses[decisions[i].row] IN
        /\ l.issued < l.ends /\ l.ends <= subscriptions[l.subscription].ends
        /\ ~\E j \in 1..(i - 1) : decisions[j].kind = "revoke" /\ decisions[j].row = l.prior

(* What the platform decides is sound, and so is what relies on it.           *)
PlatformSound ==
    /\ OneSubscription
    /\ HistoryInOrder
    /\ StoreActionsAlternate
    /\ DecidedOnce
    /\ EntitlementStands
    /\ LicensesSound
=============================================================================
