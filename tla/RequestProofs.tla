--------------------------- MODULE RequestProofs ---------------------------
(***************************************************************************)
(* Proofs about the three modules in which a request decides from what was  *)
(* read before another one commits.                                        *)
(*                                                                         *)
(* PlatformAuthority, for any number of requests under way and any         *)
(* commands.  Every property is about rows that only a commit writes,      *)
(* while what a commit writes was decided from rows read earlier.  The     *)
(* inductive invariant says what the committed rows are like (Committed),  *)
(* why what a request has read still stands (Stands), and which of two     *)
(* requests would have had to wait for the other (Apart).                  *)
(*                                                                         *)
(* OperationClaims, for any number of connections, operation identifiers   *)
(* and requests.  The answers of a step are compared with the first answer *)
(* of the identifier, and no property says how that one is related to the  *)
(* row that later answers are read from: FirstIsRow does.  That the row is *)
(* written once is WorksAlone, from the wait for the insert of another     *)
(* transaction; SettledStays is about the time between the arrival of a    *)
(* request and the question for the right to write.                        *)
(*                                                                         *)
(* Listings, for any rows, pages of any length and any number of writes    *)
(* between them.  What a cursor says is compared with the rank of every    *)
(* row that was not written since the first page: those shown lie up to    *)
(* it, and those up to it were shown (Passed).  A position read again from *)
(* a row is the one where the page ended as long as the row is what the    *)
(* cursor says of it, a cursor that was cut to the millisecond is behind   *)
(* it by rows of that millisecond only (EndFacts), and where the order is  *)
(* by what may be renamed it takes that what was shown stayed as it was    *)
(* (Undisturbed).                                                          *)
(***************************************************************************)
EXTENDS PlatformAuthority, OperationClaims, Listings, FiniteSetTheorems, WellFoundedInduction,
        TLAPS

-----------------------------------------------------------------------------
\* Only the last subscription runs; one expires when the next one begins.
SubscriptionsOK(s) ==
    \A i \in DOMAIN s :
      /\ s[i].status = "active" => i = Len(s)
      /\ s[i].status = "expired" => i < Len(s) /\ s[i].ends <= s[i + 1].starts

\* What is decided of a subscription is what its row came to be.
HistoryOK(s, d) ==
    /\ \A i \in DOMAIN d : d[i].kind \in SubscriptionActions =>
         /\ d[i].row \in DOMAIN s /\ d[i].version \in Nat
         /\ d[i].version <= s[d[i].row].version
         /\ d[i].kind = "cancel" => s[d[i].row].status # "active"
    /\ \A i, j \in DOMAIN d :
         (/\ i < j /\ d[i].kind \in SubscriptionActions /\ d[j].kind \in SubscriptionActions
          /\ d[i].row = d[j].row)
         => d[i].kind # "cancel" /\ d[i].version < d[j].version

\* The version of the Store counts the decisions about it; the last one tells its status.
Alternates(d, i) ==
    /\ \A j \in 1..(i - 1) : d[j].kind \in StoreActions => d[j].version # d[i].version
    /\ d[i].version - 1 = 1 => d[i].kind = "suspend"
    /\ d[i].version - 1 # 1 =>
         \E j \in 1..(i - 1) : /\ d[j].kind \in StoreActions /\ d[j].version = d[i].version - 1
                               /\ d[j].kind # d[i].kind
ActionsOK(t, d) ==
    /\ \A i \in DOMAIN d : d[i].kind \in StoreActions =>
         /\ t # Unset /\ d[i].version \in 2..t.version
         /\ Alternates(d, i)
    /\ t # Unset =>
         \/ t.version = 1 /\ t.status = "active"
         \/ /\ t.version > 1
            /\ \E i \in DOMAIN d :
                 /\ d[i].kind = (IF t.status = "active" THEN "restore" ELSE "suspend")
                 /\ d[i].version = t.version

\* Two commands of one identifier of which the second is refused as a reuse.
Clash(earlier, later) ==
    \/ Family(earlier) = Family(later)
    \/ Family(earlier) = "subscription" /\ Family(later) = "store"
OnceOK(d) ==
    \A i, j \in DOMAIN d : (i < j /\ d[i].op = d[j].op) => ~Clash(d[i].kind, d[j].kind)

\* A license ends with its subscription, and is not issued over a revoked one.
LicensesOK(s, l, d) ==
    /\ \A k \in DOMAIN l :
         /\ l[k].subscription \in DOMAIN s
         /\ l[k].issued < l[k].ends /\ l[k].ends <= s[l[k].subscription].ends
    /\ \A i \in DOMAIN d : d[i].kind = "revoke" => d[i].row \in DOMAIN l /\ l[d[i].row].revoked
    /\ \A i \in DOMAIN d : d[i].kind = "issue" =>
         /\ d[i].row \in DOMAIN l
         /\ \A j \in 1..(i - 1) : d[j].kind = "revoke" => d[j].row # l[d[i].row].prior

\* What is committed.
Committed(t, s, l, d) ==
    /\ t = Unset => s = <<>>
    /\ SubscriptionsOK(s) /\ HistoryOK(s, d) /\ ActionsOK(t, d) /\ OnceOK(d) /\ LicensesOK(s, l, d)

-----------------------------------------------------------------------------
HoldsOperation(r) == r.step # "begun" /\ r.cmd.kind # "write"
HoldsStore(r) == r.step \in {"locked", "latest", "decided"} /\ r.cmd.kind # "provision"

\* Nothing is decided that would make the command a replay or a reuse.
Fresh(cmd, d) == \A i \in DOMAIN d : d[i].op = cmd.op => ~Clash(d[i].kind, cmd.kind)

\* The subscription a request has read is as it was read.
ReadsStand(r, s) ==
    \/ r.subscription = Unset /\ \A i \in DOMAIN s : s[i].status # "active"
    \/ /\ r.subscription \in DOMAIN s
       /\ s[r.subscription].status = "active" /\ s[r.subscription].version = r.version

\* What a request was allowed for still stands.
StillAllowed(r, t, s) ==
    LET kind == r.cmd.kind IN
    /\ kind = "activate" => r.subscription = Unset
    /\ kind \in {"extend", "cancel"} => r.subscription # Unset
    /\ (kind = "reactivate" /\ r.subscription # Unset) => s[r.subscription].ends <= r.day
    /\ kind = "suspend" => t.status = "active"
    /\ kind = "restore" => t.status = "suspended"
    /\ kind \in {"write", "issue"} => t.status = "active" /\ r.subscription # Unset

\* The license a request has read is there, and stays as it was read once it is locked.
LicenseStands(r, s, l) ==
    /\ r.step = "latest" => r.cmd.kind = "issue"
    /\ r.cmd.kind \notin {"issue", "revoke"} => r.license = Unset
    /\ (r.cmd.kind = "issue" /\ r.step \in {"latest", "decided"}) =>
         r.license = Unset \/ r.license \in DOMAIN l
    /\ (r.cmd.kind = "issue" /\ r.step = "decided") =>
         /\ r.license # Unset => ~l[r.license].revoked
         /\ r.day < s[r.subscription].ends
    /\ (r.cmd.kind = "revoke" /\ r.step = "decided") => r.license \in DOMAIN l

Stands(r, t, s, l, d) ==
    /\ HoldsOperation(r) => Fresh(r.cmd, d)
    /\ HoldsStore(r) => t # Unset /\ ReadsStand(r, s) /\ StillAllowed(r, t, s)
    /\ (r.cmd.kind = "provision" /\ r.step = "decided") => t = Unset
    /\ LicenseStands(r, s, l)

\* What the locks keep apart.
Apart(q, r) ==
    /\ (HoldsOperation(q) /\ HoldsOperation(r)) => LockKey(q.cmd) # LockKey(r.cmd)
    /\ (HoldsStore(q) /\ HoldsStore(r)) => ~Exclusive(q.cmd) /\ ~Exclusive(r.cmd)
    /\ (q.step = "decided" /\ r.step = "decided" /\ q.license = r.license) =>
         q.cmd.kind # "revoke" /\ r.cmd.kind # "revoke"

RequestsStand ==
    \A c \in Requesters : requests[c] # Unset =>
        Stands(requests[c], store, subscriptions, licenses, decisions)
RequestsApart ==
    \A c, e \in Requesters : (c # e /\ requests[c] # Unset /\ requests[e] # Unset) =>
        Apart(requests[c], requests[e])

PlatformIInv ==
    /\ PlatformTypeOK
    /\ Committed(store, subscriptions, licenses, decisions)
    /\ RequestsStand
    /\ RequestsApart

-----------------------------------------------------------------------------
LEMMA AppendFacts ==
    ASSUME NEW S, NEW q \in Seq(S), NEW x \in S
    PROVE  /\ Append(q, x) \in Seq(S) /\ Len(q) \in Nat
           /\ Len(Append(q, x)) = Len(q) + 1
           /\ DOMAIN q = 1..Len(q) /\ DOMAIN Append(q, x) = 1..(Len(q) + 1)
           /\ Append(q, x)[Len(q) + 1] = x
           /\ \A i \in 1..Len(q) : Append(q, x)[i] = q[i] /\ q[i] \in S
OBVIOUS

LEMMA Element ==
    ASSUME NEW S, NEW q \in Seq(S)
    PROVE  \A i \in DOMAIN q : q[i] \in S
OBVIOUS

LEMMA SubscriptionFields ==
    ASSUME NEW s \in Seq(SubscriptionRows)
    PROVE  \A i \in DOMAIN s :
             /\ s[i] \in SubscriptionRows
             /\ s[i].status \in {"active", "cancelled", "expired"}
             /\ s[i].starts \in Nat /\ s[i].ends \in Nat /\ s[i].version \in Nat \ {0}
<1>1. \A i \in DOMAIN s : s[i] \in SubscriptionRows BY Element
<1> QED BY <1>1 DEF SubscriptionRows

LEMMA LicenseFields ==
    ASSUME NEW l \in Seq(LicenseRows)
    PROVE  \A i \in DOMAIN l :
             /\ l[i] \in LicenseRows
             /\ l[i].issued \in Nat /\ l[i].ends \in Nat /\ l[i].revoked \in BOOLEAN
             /\ l[i].prior \in Nat \cup {Unset} /\ l[i].subscription \in Nat
<1>1. \A i \in DOMAIN l : l[i] \in LicenseRows BY Element
<1> QED BY <1>1 DEF LicenseRows

LEMMA DecisionFields ==
    ASSUME NEW d \in Seq(DecisionRows)
    PROVE  \A i \in DOMAIN d : d[i] \in DecisionRows /\ d[i].kind \in PlatformKinds
<1>1. \A i \in DOMAIN d : d[i] \in DecisionRows BY Element
<1> QED BY <1>1 DEF DecisionRows

LEMMA FamilyOf ==
    ASSUME NEW k \in PlatformKinds
    PROVE  /\ Family(k) = "subscription" <=> k \in SubscriptionActions \cup {"provision"}
           /\ Family(k) = "store" <=> k \in StoreActions
           /\ k \in {"write", "issue", "revoke"} => Family(k) = k
BY DEF Family, PlatformKinds, SubscriptionActions, StoreActions

\* Of two commands that clash, both take the same lock.
LEMMA ClashSameKey ==
    ASSUME NEW a \in PlatformCommands, NEW b \in PlatformCommands,
           a.kind # "write", b.kind # "write", a.op = b.op, Clash(a.kind, b.kind)
    PROVE  LockKey(a) = LockKey(b)
<1>1. a.kind \in PlatformKinds /\ b.kind \in PlatformKinds BY CommandsAssumption
<1>2. CASE b.kind \in SubscriptionActions \cup StoreActions \cup {"provision"}
  <2>1. Family(b.kind) \in {"subscription", "store"} BY <1>1, <1>2, FamilyOf
  <2>2. Family(a.kind) \in {"subscription", "store"} BY <2>1 DEF Clash
  <2>3. a.kind \notin {"issue", "revoke"} /\ b.kind \notin {"issue", "revoke"}
    BY <1>1, <2>1, <2>2, FamilyOf
  <2> QED BY <2>1, <2>2, <2>3 DEF LockKey
<1>3. CASE b.kind \in {"issue", "revoke"}
  <2>1. Family(b.kind) = b.kind BY <1>1, <1>3, FamilyOf
  <2>2. Family(a.kind) = b.kind BY <1>3, <2>1 DEF Clash
  <2>3. a.kind = b.kind
    BY <1>1, <1>3, <2>2 DEF Family, PlatformKinds, SubscriptionActions, StoreActions
  <2> QED BY <1>3, <2>1, <2>3 DEF LockKey
<1> QED BY <1>1, <1>2, <1>3 DEF PlatformKinds

\* Nothing of an identifier is decided yet that a command would replay or reuse.
LEMMA EarlierIsClash ==
    ASSUME PlatformTypeOK, NEW cmd \in PlatformCommands, cmd.kind # "write", Earlier(cmd) = {}
    PROVE  Fresh(cmd, decisions)
<1>1. cmd.kind \in PlatformKinds BY CommandsAssumption
<1>2. SUFFICES ASSUME NEW i \in DOMAIN decisions, decisions[i].op = cmd.op,
                      Clash(decisions[i].kind, cmd.kind)
               PROVE  FALSE
  BY DEF Fresh
<1>3. decisions[i].kind \in PlatformKinds BY DecisionFields DEF PlatformTypeOK
<1>4. i \notin Earlier(cmd) OBVIOUS
<1>5. CASE Family(cmd.kind) \in {"subscription", "issue"}
  <2>1. Family(decisions[i].kind) = Family(cmd.kind) BY <1>2, <1>5 DEF Clash
  <2> QED BY <1>2, <1>4, <1>5, <2>1 DEF Earlier
<1>6. CASE Family(cmd.kind) \notin {"subscription", "issue"}
  <2>1. decisions[i].kind # "issue"
    BY <1>1, <1>2, <1>3, <1>6, FamilyOf DEF Clash, PlatformKinds
  <2> QED BY <1>2, <1>4, <1>6, <2>1 DEF Earlier
<1> QED BY <1>5, <1>6

\* A decision more under an identifier another request does not hold.
LEMMA FreshStays ==
    ASSUME NEW d \in Seq(DecisionRows), NEW x \in DecisionRows,
           NEW q \in PlatformCommands, NEW r \in PlatformCommands,
           q.kind # "write", r.kind # "write", x.op = r.op, x.kind = r.kind,
           LockKey(q) # LockKey(r), Fresh(q, d)
    PROVE  Fresh(q, Append(d, x))
<1>1. ~(x.op = q.op /\ Clash(x.kind, q.kind)) BY ClashSameKey
<1> QED BY <1>1, AppendFacts DEF Fresh

\* A decision more under an identifier that is still free.
LEMMA OnceStays ==
    ASSUME NEW d \in Seq(DecisionRows), NEW x \in DecisionRows, NEW r \in PlatformCommands,
           x.op = r.op, x.kind = r.kind, OnceOK(d), Fresh(r, d)
    PROVE  OnceOK(Append(d, x))
<1> DEFINE a == Append(d, x)
<1>1. /\ Len(d) \in Nat /\ DOMAIN d = 1..Len(d) /\ DOMAIN a = 1..(Len(d) + 1)
      /\ a[Len(d) + 1] = x /\ \A i \in 1..Len(d) : a[i] = d[i]
  BY AppendFacts
<1> HIDE DEF a
<1>2. ASSUME NEW i \in DOMAIN a, NEW j \in DOMAIN a, i < j, a[i].op = a[j].op
      PROVE  ~Clash(a[i].kind, a[j].kind)
  <2>1. i \in DOMAIN d /\ a[i] = d[i] BY <1>1, <1>2
  <2>2. CASE j = Len(d) + 1 BY <1>1, <1>2, <2>1, <2>2 DEF Fresh
  <2>3. CASE j # Len(d) + 1
    <3>1. j \in DOMAIN d /\ a[j] = d[j] BY <1>1, <2>3
    <3> QED BY <1>2, <2>1, <3>1 DEF OnceOK
  <2> QED BY <2>2, <2>3
<1> QED BY <1>2 DEF OnceOK, a

-----------------------------------------------------------------------------
\* How the subscriptions may change: the ones that do not run stay as they are.
Grows(s, s2) ==
    /\ DOMAIN s \subseteq DOMAIN s2
    /\ \A i \in DOMAIN s :
         /\ s[i].version <= s2[i].version /\ s[i].ends <= s2[i].ends
         /\ s[i].status # "active" => s2[i] = s[i]

LEMMA HistoryGrows ==
    ASSUME NEW s \in Seq(SubscriptionRows), NEW s2 \in Seq(SubscriptionRows),
           NEW d \in Seq(DecisionRows), Grows(s, s2), HistoryOK(s, d)
    PROVE  HistoryOK(s2, d)
<1>1. ASSUME NEW i \in DOMAIN d, d[i].kind \in SubscriptionActions
      PROVE  /\ d[i].row \in DOMAIN s2 /\ d[i].version \in Nat
             /\ d[i].version <= s2[d[i].row].version
             /\ d[i].kind = "cancel" => s2[d[i].row].status # "active"
  <2>1. /\ d[i].row \in DOMAIN s /\ d[i].version \in Nat /\ d[i].version <= s[d[i].row].version
        /\ d[i].kind = "cancel" => s[d[i].row].status # "active"
    BY <1>1 DEF HistoryOK
  <2>2. d[i].row \in DOMAIN s2 BY <2>1 DEF Grows
  <2>3. s[d[i].row].version \in Nat /\ s2[d[i].row].version \in Nat
    BY <2>1, <2>2, SubscriptionFields
  <2>4. s[d[i].row].version <= s2[d[i].row].version BY <2>1 DEF Grows
  <2>5. s[d[i].row].status # "active" => s2[d[i].row].status # "active" BY <2>1 DEF Grows
  <2> QED BY <2>1, <2>2, <2>3, <2>4, <2>5
<1> QED BY <1>1 DEF HistoryOK

LEMMA LicensesGrow ==
    ASSUME NEW s \in Seq(SubscriptionRows), NEW s2 \in Seq(SubscriptionRows),
           NEW l \in Seq(LicenseRows), NEW d, Grows(s, s2), LicensesOK(s, l, d)
    PROVE  LicensesOK(s2, l, d)
<1>1. ASSUME NEW k \in DOMAIN l
      PROVE  l[k].subscription \in DOMAIN s2 /\ l[k].ends <= s2[l[k].subscription].ends
  <2>1. l[k].subscription \in DOMAIN s /\ l[k].ends <= s[l[k].subscription].ends
    BY DEF LicensesOK
  <2>2. l[k].subscription \in DOMAIN s2 /\ s[l[k].subscription].ends <= s2[l[k].subscription].ends
    BY <2>1 DEF Grows
  <2>3. l[k].ends \in Nat /\ s[l[k].subscription].ends \in Nat /\ s2[l[k].subscription].ends \in Nat
    BY <2>1, <2>2, LicenseFields, SubscriptionFields
  <2> QED BY <2>1, <2>2, <2>3
<1> QED BY <1>1 DEF LicensesOK

\* The decisions that concern neither a subscription, the Store nor a license.
LEMMA HistoryAppends ==
    ASSUME NEW s \in Seq(SubscriptionRows), NEW d \in Seq(DecisionRows), NEW x \in DecisionRows,
           HistoryOK(s, d),
           x.kind \in SubscriptionActions =>
             /\ x.row \in DOMAIN s /\ x.version = s[x.row].version
             /\ x.kind = "cancel" => s[x.row].status # "active"
             /\ \A i \in DOMAIN d : (d[i].kind \in SubscriptionActions /\ d[i].row = x.row) =>
                  d[i].kind # "cancel" /\ d[i].version < x.version
    PROVE  HistoryOK(s, Append(d, x))
<1> DEFINE a == Append(d, x)
<1>1. /\ Len(d) \in Nat /\ DOMAIN d = 1..Len(d) /\ DOMAIN a = 1..(Len(d) + 1)
      /\ a[Len(d) + 1] = x /\ \A i \in 1..Len(d) : a[i] = d[i]
  BY AppendFacts
<1>2. \A i \in DOMAIN s : s[i].version \in Nat BY SubscriptionFields
<1> HIDE DEF a
<1>3. ASSUME NEW i \in DOMAIN a, a[i].kind \in SubscriptionActions
      PROVE  /\ a[i].row \in DOMAIN s /\ a[i].version \in Nat
             /\ a[i].version <= s[a[i].row].version
             /\ a[i].kind = "cancel" => s[a[i].row].status # "active"
  <2>1. CASE i \in DOMAIN d BY <1>1, <1>3, <2>1 DEF HistoryOK
  <2>2. CASE i \notin DOMAIN d
    <3>1. a[i] = x BY <1>1, <2>2
    <3>2. /\ x.row \in DOMAIN s /\ x.version = s[x.row].version
          /\ x.kind = "cancel" => s[x.row].status # "active"
      BY <1>3, <3>1
    <3>3. s[x.row].version \in Nat BY <1>2, <3>2
    <3> QED BY <3>1, <3>2, <3>3
  <2> QED BY <2>1, <2>2
<1>4. ASSUME NEW i \in DOMAIN a, NEW j \in DOMAIN a, i < j, a[i].kind \in SubscriptionActions,
             a[j].kind \in SubscriptionActions, a[i].row = a[j].row
      PROVE  a[i].kind # "cancel" /\ a[i].version < a[j].version
  <2>1. i \in DOMAIN d /\ a[i] = d[i] BY <1>1, <1>4
  <2>2. CASE j \in DOMAIN d BY <1>1, <1>4, <2>1, <2>2 DEF HistoryOK
  <2>3. CASE j \notin DOMAIN d
    <3>1. a[j] = x BY <1>1, <2>3
    <3> QED BY <1>4, <2>1, <3>1
  <2> QED BY <2>2, <2>3
<1> QED BY <1>3, <1>4 DEF HistoryOK, a

\* The decisions about the Store stay the ones that are counted.
LEMMA ActionsAppend ==
    ASSUME NEW t \in StoreRows, NEW t2 \in StoreRows \cup {Unset},
           NEW d \in Seq(DecisionRows), NEW x \in DecisionRows, ActionsOK(t2, d),
           \/ x.kind \notin StoreActions /\ t = t2
           \/ /\ x.kind \in StoreActions /\ t2 # Unset
              /\ t2.status = (IF x.kind = "suspend" THEN "active" ELSE "suspended")
              /\ t.status = (IF x.kind = "suspend" THEN "suspended" ELSE "active")
              /\ t.version = t2.version + 1 /\ x.version = t.version
           \/ /\ x.kind \notin StoreActions /\ t2 = Unset /\ t.version = 1 /\ t.status = "active"
    PROVE  ActionsOK(t, Append(d, x))
<1> DEFINE a == Append(d, x)
<1>1. /\ Len(d) \in Nat /\ DOMAIN d = 1..Len(d) /\ DOMAIN a = 1..(Len(d) + 1)
      /\ a[Len(d) + 1] = x /\ \A i \in 1..Len(d) : a[i] = d[i]
  BY AppendFacts
<1>2. t # Unset /\ t.version \in Nat /\ t.version >= 1 /\ t.status \in {"active", "suspended"}
  BY UnsetAssumption DEF StoreRows
<1>3. t2 # Unset => t2.version \in Nat /\ t2.version >= 1 BY DEF StoreRows
<1> HIDE DEF a
<1>4. \A i \in DOMAIN d : Alternates(d, i) => Alternates(a, i)
  <2> SUFFICES ASSUME NEW i \in DOMAIN d, Alternates(d, i) PROVE Alternates(a, i) OBVIOUS
  <2>1. a[i] = d[i] /\ \A j \in 1..(i - 1) : a[j] = d[j] BY <1>1
  <2> QED BY <2>1 DEF Alternates
<1>5. ASSUME NEW i \in DOMAIN d, a[i].kind \in StoreActions
      PROVE  a[i].version \in 2..t.version /\ Alternates(a, i)
  <2>1. d[i].kind \in StoreActions /\ a[i] = d[i] BY <1>1, <1>5
  <2>2. t2 # Unset /\ d[i].version \in 2..t2.version /\ Alternates(d, i)
    BY <2>1 DEF ActionsOK
  <2>3. t.version \in {t2.version, t2.version + 1} BY <2>2
  <2> QED BY <1>2, <1>3, <1>4, <2>1, <2>2, <2>3
<1>6. CASE x.kind \notin StoreActions
  <2>1. ASSUME NEW i \in DOMAIN a, a[i].kind \in StoreActions
        PROVE  a[i].version \in 2..t.version /\ Alternates(a, i)
    <3>1. i \in DOMAIN d BY <1>1, <1>6, <2>1
    <3> QED BY <1>5, <2>1, <3>1
  <2>2. \/ t.version = 1 /\ t.status = "active"
        \/ /\ t.version > 1
           /\ \E i \in DOMAIN a :
                /\ a[i].kind = (IF t.status = "active" THEN "restore" ELSE "suspend")
                /\ a[i].version = t.version
    <3>1. CASE t = t2
      <4>1. CASE t.version = 1 /\ t.status = "active" BY <4>1
      <4>2. CASE ~(t.version = 1 /\ t.status = "active")
        <5>1. PICK i \in DOMAIN d : /\ d[i].kind = (IF t.status = "active" THEN "restore" ELSE "suspend")
                                    /\ d[i].version = t.version
          BY <1>2, <3>1, <4>2 DEF ActionsOK
        <5>2. t.version > 1 BY <1>2, <3>1, <4>2 DEF ActionsOK
        <5>3. i \in DOMAIN a /\ a[i] = d[i] BY <1>1
        <5> QED BY <5>1, <5>2, <5>3
      <4> QED BY <4>1, <4>2
    <3>2. CASE t # t2 BY <1>6, <3>2
    <3> QED BY <3>1, <3>2
  <2> QED BY <1>2, <2>1, <2>2 DEF ActionsOK, a
<1>7. CASE x.kind \in StoreActions
  <2> DEFINE n == Len(d) + 1
  <2>1. /\ t2 # Unset /\ t.version = t2.version + 1 /\ x.version = t.version
        /\ t2.status = (IF x.kind = "suspend" THEN "active" ELSE "suspended")
        /\ t.status = (IF x.kind = "suspend" THEN "suspended" ELSE "active")
        /\ x.kind \in {"suspend", "restore"}
    BY <1>7 DEF StoreActions
  <2>2. n \in DOMAIN a /\ a[n] = x /\ \A j \in 1..(n - 1) : j \in DOMAIN d /\ a[j] = d[j] BY <1>1
  <2>3. Alternates(a, n)
    <3>1. \A j \in 1..(n - 1) : a[j].kind \in StoreActions => a[j].version # x.version
      BY <1>3, <2>1, <2>2 DEF ActionsOK
    <3>2. x.version - 1 = 1 => x.kind = "suspend"
      BY <1>3, <2>1 DEF ActionsOK
    <3>3. ASSUME x.version - 1 # 1
          PROVE  \E j \in 1..(n - 1) : /\ a[j].kind \in StoreActions /\ a[j].version = x.version - 1
                                       /\ a[j].kind # x.kind
      <4>1. t2.version # 1 BY <1>3, <2>1, <3>3
      <4>2. PICK j \in DOMAIN d :
              d[j].kind = (IF t2.status = "active" THEN "restore" ELSE "suspend") /\ d[j].version = t2.version
        BY <2>1, <4>1 DEF ActionsOK
      <4>3. j \in 1..(n - 1) /\ a[j] = d[j] BY <1>1
      <4>4. d[j].kind # x.kind /\ d[j].kind \in StoreActions BY <2>1, <4>2 DEF StoreActions
      <4> QED BY <1>3, <2>1, <4>2, <4>3, <4>4
    <3> QED BY <2>2, <3>1, <3>2, <3>3 DEF Alternates
  <2>4. ASSUME NEW i \in DOMAIN a, a[i].kind \in StoreActions
        PROVE  a[i].version \in 2..t.version /\ Alternates(a, i)
    <3>1. CASE i \in DOMAIN d BY <1>5, <2>4, <3>1
    <3>2. CASE i \notin DOMAIN d
      <4>1. i = n BY <1>1, <3>2
      <4> QED BY <1>2, <1>3, <2>1, <2>2, <2>3, <4>1
    <3> QED BY <3>1, <3>2
  <2>5. t.version > 1 /\ x.kind = (IF t.status = "active" THEN "restore" ELSE "suspend")
    BY <1>3, <2>1
  <2> QED BY <1>2, <2>1, <2>2, <2>4, <2>5 DEF ActionsOK, a
<1> QED BY <1>6, <1>7

\* A decision about a license, with what it does to the licenses.
LEMMA LicensesAppend ==
    ASSUME NEW s, NEW l \in Seq(LicenseRows), NEW l2 \in Seq(LicenseRows),
           NEW d \in Seq(DecisionRows), NEW x \in DecisionRows, LicensesOK(s, l, d),
           \/ x.kind \notin {"issue", "revoke"} /\ l2 = l
           \/ /\ x.kind = "issue" /\ x.row = Len(l) + 1
              /\ \E y \in LicenseRows :
                   /\ l2 = Append(l, y)
                   /\ y.subscription \in DOMAIN s
                   /\ y.issued < y.ends /\ y.ends <= s[y.subscription].ends
                   /\ \A j \in DOMAIN d : d[j].kind = "revoke" => d[j].row # y.prior
           \/ /\ x.kind = "revoke" /\ x.row \in DOMAIN l
              /\ l2 = [l EXCEPT ![x.row].revoked = TRUE]
    PROVE  LicensesOK(s, l2, Append(d, x))
<1> DEFINE a == Append(d, x)
<1>1. /\ Len(d) \in Nat /\ DOMAIN d = 1..Len(d) /\ DOMAIN a = 1..(Len(d) + 1)
      /\ a[Len(d) + 1] = x /\ \A i \in 1..Len(d) : a[i] = d[i]
  BY AppendFacts
<1> HIDE DEF a
<1>2. /\ DOMAIN l \subseteq DOMAIN l2
      /\ \A k \in DOMAIN l :
           /\ l2[k].prior = l[k].prior /\ l2[k].subscription = l[k].subscription
           /\ l2[k].issued = l[k].issued /\ l2[k].ends = l[k].ends
           /\ l[k].revoked => l2[k].revoked
  <2>1. CASE x.kind \notin {"issue", "revoke"} BY <2>1
  <2>2. CASE x.kind = "issue"
    <3>1. PICK y \in LicenseRows : l2 = Append(l, y) BY <2>2
    <3>2. DOMAIN l \subseteq DOMAIN l2 /\ \A k \in DOMAIN l : l2[k] = l[k] BY <3>1, AppendFacts
    <3> QED BY <3>2
  <2>3. CASE x.kind = "revoke"
    <3>1. l2 = [l EXCEPT ![x.row].revoked = TRUE] BY <2>3
    <3>2. DOMAIN l2 = DOMAIN l BY <3>1
    <3>3. \A k \in DOMAIN l : l[k] \in LicenseRows BY LicenseFields
    <3>4. ASSUME NEW k \in DOMAIN l
          PROVE  /\ l2[k].prior = l[k].prior /\ l2[k].subscription = l[k].subscription
                 /\ l2[k].issued = l[k].issued /\ l2[k].ends = l[k].ends
                 /\ l[k].revoked => l2[k].revoked
      <4>1. CASE k = x.row
        <5>1. l2[k] = [l[k] EXCEPT !.revoked = TRUE] BY <3>1, <4>1
        <5> QED BY <3>3, <5>1 DEF LicenseRows
      <4>2. CASE k # x.row BY <3>1, <4>2
      <4> QED BY <4>1, <4>2
    <3> QED BY <3>2, <3>4
  <2> QED BY <2>1, <2>2, <2>3
<1>3. ASSUME NEW k \in DOMAIN l2
      PROVE  /\ l2[k].subscription \in DOMAIN s
             /\ l2[k].issued < l2[k].ends /\ l2[k].ends <= s[l2[k].subscription].ends
  <2>1. CASE k \in DOMAIN l BY <1>2, <2>1 DEF LicensesOK
  <2>2. CASE k \notin DOMAIN l
    <3>1. x.kind = "issue"
      <4>1. x.kind = "revoke" => DOMAIN l2 = DOMAIN l OBVIOUS
      <4> QED BY <2>2, <4>1
    <3>2. PICK y \in LicenseRows :
            /\ l2 = Append(l, y)
            /\ y.subscription \in DOMAIN s
            /\ y.issued < y.ends /\ y.ends <= s[y.subscription].ends
      BY <3>1
    <3>3. l2[k] = y BY <2>2, <3>2, AppendFacts
    <3> QED BY <3>2, <3>3
  <2> QED BY <2>1, <2>2
<1>4. ASSUME NEW i \in DOMAIN a, a[i].kind = "revoke"
      PROVE  a[i].row \in DOMAIN l2 /\ l2[a[i].row].revoked
  <2>1. CASE i \in DOMAIN d
    <3>1. d[i].row \in DOMAIN l /\ l[d[i].row].revoked BY <1>1, <1>4, <2>1 DEF LicensesOK
    <3> QED BY <1>1, <1>2, <2>1, <3>1
  <2>2. CASE i \notin DOMAIN d
    <3>1. a[i] = x BY <1>1, <2>2
    <3>2. x.row \in DOMAIN l /\ l2 = [l EXCEPT ![x.row].revoked = TRUE] BY <1>4, <3>1
    <3>3. l2[x.row] = [l[x.row] EXCEPT !.revoked = TRUE] /\ l[x.row] \in LicenseRows
      BY <3>2, LicenseFields
    <3>4. l2[x.row].revoked BY <3>3 DEF LicenseRows
    <3> QED BY <1>2, <3>1, <3>2, <3>4
  <2> QED BY <2>1, <2>2
<1>5. ASSUME NEW i \in DOMAIN a, a[i].kind = "issue"
      PROVE  /\ a[i].row \in DOMAIN l2
             /\ \A j \in 1..(i - 1) : a[j].kind = "revoke" => a[j].row # l2[a[i].row].prior
  <2>1. \A j \in 1..(i - 1) : j \in DOMAIN d /\ a[j] = d[j] BY <1>1
  <2>2. CASE i \in DOMAIN d
    <3>1. d[i].row \in DOMAIN l /\ a[i] = d[i] BY <1>1, <1>5, <2>2 DEF LicensesOK
    <3>2. \A j \in 1..(i - 1) : d[j].kind = "revoke" => d[j].row # l[d[i].row].prior
      BY <1>5, <2>2, <3>1 DEF LicensesOK
    <3> QED BY <1>2, <2>1, <3>1, <3>2
  <2>3. CASE i \notin DOMAIN d
    <3>1. a[i] = x BY <1>1, <2>3
    <3>2. PICK y \in LicenseRows :
            l2 = Append(l, y) /\ \A j \in DOMAIN d : d[j].kind = "revoke" => d[j].row # y.prior
      BY <1>5, <3>1
    <3>3. x.row = Len(l) + 1 BY <1>5, <3>1
    <3>4. x.row \in DOMAIN l2 /\ l2[x.row] = y BY <3>2, <3>3, AppendFacts
    <3> QED BY <2>1, <3>1, <3>2, <3>4
  <2> QED BY <2>2, <2>3
<1> QED BY <1>3, <1>4, <1>5 DEF LicensesOK, a

-----------------------------------------------------------------------------
\* A subscription begins when none runs.
LEMMA SubscriptionBegins ==
    ASSUME NEW s \in Seq(SubscriptionRows), SubscriptionsOK(s), NEW y \in SubscriptionRows,
           y.status = "active", \A i \in DOMAIN s : s[i].status # "active"
    PROVE  SubscriptionsOK(Append(s, y)) /\ Grows(s, Append(s, y))
<1> DEFINE a == Append(s, y)
<1>1. /\ Len(s) \in Nat /\ DOMAIN s = 1..Len(s) /\ DOMAIN a = 1..(Len(s) + 1)
      /\ a[Len(s) + 1] = y /\ \A i \in 1..Len(s) : a[i] = s[i]
      /\ Len(a) = Len(s) + 1
  BY AppendFacts
<1>2. \A i \in DOMAIN s : s[i].version \in Nat /\ s[i].ends \in Nat BY SubscriptionFields
<1> HIDE DEF a
<1>3. Grows(s, a) BY <1>1, <1>2 DEF Grows
<1>4. ASSUME NEW i \in DOMAIN a
      PROVE  /\ a[i].status = "active" => i = Len(a)
             /\ a[i].status = "expired" => i < Len(a) /\ a[i].ends <= a[i + 1].starts
  <2>1. CASE i = Len(s) + 1 BY <1>1, <2>1
  <2>2. CASE i # Len(s) + 1
    <3>1. i \in DOMAIN s /\ a[i] = s[i] BY <1>1, <2>2
    <3>2. s[i].status = "expired" => i < Len(s) /\ s[i].ends <= s[i + 1].starts
      BY <3>1 DEF SubscriptionsOK
    <3> QED BY <1>1, <3>1, <3>2
  <2> QED BY <2>1, <2>2
<1> QED BY <1>3, <1>4 DEF SubscriptionsOK, a

\* The subscription that runs is extended or cancelled.
LEMMA SubscriptionChanges ==
    ASSUME NEW s \in Seq(SubscriptionRows), SubscriptionsOK(s), NEW y \in SubscriptionRows,
           NEW i \in DOMAIN s, s[i].status = "active",
           y.status \in {"active", "cancelled"}, y.starts = s[i].starts,
           s[i].ends <= y.ends, s[i].version <= y.version
    PROVE  LET s2 == [s EXCEPT ![i] = y] IN
           s2 \in Seq(SubscriptionRows) /\ s2[i] = y /\ SubscriptionsOK(s2) /\ Grows(s, s2)
<1> DEFINE a == [s EXCEPT ![i] = y]
<1>1. a \in Seq(SubscriptionRows) /\ Len(a) = Len(s) /\ DOMAIN a = DOMAIN s /\ DOMAIN s = 1..Len(s)
      /\ Len(s) \in Nat
  OBVIOUS
<1>2. a[i] = y /\ \A j \in DOMAIN s : j # i => a[j] = s[j] OBVIOUS
<1>3. i = Len(s) BY DEF SubscriptionsOK
<1>4. \A j \in DOMAIN s : s[j].version \in Nat /\ s[j].ends \in Nat BY SubscriptionFields
<1> HIDE DEF a
<1>5. Grows(s, a) BY <1>1, <1>2, <1>4 DEF Grows
<1>6. ASSUME NEW j \in DOMAIN a
      PROVE  /\ a[j].status = "active" => j = Len(a)
             /\ a[j].status = "expired" => j < Len(a) /\ a[j].ends <= a[j + 1].starts
  <2>1. CASE j = i BY <1>1, <1>2, <1>3, <2>1
  <2>2. CASE j # i
    <3>1. a[j] = s[j] /\ j < Len(s) /\ j + 1 \in DOMAIN s BY <1>1, <1>2, <1>3, <2>2
    <3>2. a[j + 1].starts = s[j + 1].starts BY <1>2, <3>1
    <3> QED BY <1>1, <3>1, <3>2 DEF SubscriptionsOK
  <2> QED BY <2>1, <2>2
<1>7. SubscriptionsOK(a) BY <1>6 DEF SubscriptionsOK
<1> QED BY <1>1, <1>2, <1>5, <1>7 DEF a

\* The subscription that ran out expires as the next one begins.
LEMMA SubscriptionExpires ==
    ASSUME NEW s \in Seq(SubscriptionRows), SubscriptionsOK(s), NEW y \in SubscriptionRows,
           NEW z \in SubscriptionRows, NEW i \in DOMAIN s, s[i].status = "active",
           y.status = "expired", y.starts = s[i].starts, y.ends = s[i].ends,
           s[i].version <= y.version, z.status = "active", y.ends <= z.starts
    PROVE  LET s2 == Append([s EXCEPT ![i] = y], z) IN
           s2 \in Seq(SubscriptionRows) /\ SubscriptionsOK(s2) /\ Grows(s, s2)
<1> DEFINE b == [s EXCEPT ![i] = y]
           a == Append(b, z)
<1>1. b \in Seq(SubscriptionRows) /\ Len(b) = Len(s) /\ DOMAIN b = DOMAIN s /\ DOMAIN s = 1..Len(s)
      /\ Len(s) \in Nat
  OBVIOUS
<1>2. b[i] = y /\ \A j \in DOMAIN s : j # i => b[j] = s[j] OBVIOUS
<1>3. i = Len(s) BY DEF SubscriptionsOK
<1>4. \A j \in DOMAIN s : s[j].version \in Nat /\ s[j].ends \in Nat BY SubscriptionFields
<1> HIDE DEF b
<1>5. /\ a \in Seq(SubscriptionRows) /\ DOMAIN a = 1..(Len(s) + 1) /\ Len(a) = Len(s) + 1
      /\ a[Len(s) + 1] = z /\ \A j \in 1..Len(s) : a[j] = b[j]
  BY <1>1, AppendFacts
<1> HIDE DEF a
<1>6. Grows(s, a) BY <1>1, <1>2, <1>4, <1>5 DEF Grows
<1>7. ASSUME NEW j \in DOMAIN a
      PROVE  /\ a[j].status = "active" => j = Len(a)
             /\ a[j].status = "expired" => j < Len(a) /\ a[j].ends <= a[j + 1].starts
  <2>1. CASE j = Len(s) + 1 BY <1>5, <2>1
  <2>2. CASE j = i
    <3>1. a[j] = y /\ a[j + 1] = z BY <1>1, <1>2, <1>3, <1>5, <2>2
    <3>2. j < Len(a) BY <1>1, <1>3, <1>5, <2>2
    <3> QED BY <3>1, <3>2
  <2>3. CASE j # i /\ j # Len(s) + 1
    <3>1. a[j] = s[j] /\ j < Len(s) /\ j \in DOMAIN s /\ j + 1 \in DOMAIN s
      BY <1>1, <1>2, <1>3, <1>5, <2>3
    <3>2. a[j + 1].starts = s[j + 1].starts BY <1>1, <1>2, <1>5, <3>1
    <3> QED BY <1>5, <3>1, <3>2 DEF SubscriptionsOK
  <2> QED BY <2>1, <2>2, <2>3
<1>8. SubscriptionsOK(a) BY <1>7 DEF SubscriptionsOK
<1> QED BY <1>5, <1>6, <1>8 DEF a, b

-----------------------------------------------------------------------------
\* What a commit may do to the rows, as far as the other requests are concerned.
LeavesOthers(r, t, s, l, d, t2, s2, l2, d2) ==
    /\ \/ r.cmd.kind = "write" /\ d2 = d
       \/ r.cmd.kind # "write"
          /\ \E x \in DecisionRows : x.op = r.cmd.op /\ x.kind = r.cmd.kind /\ d2 = Append(d, x)
    /\ (t2 = t /\ s2 = s) \/ Exclusive(r.cmd) \/ r.cmd.kind = "provision"
    /\ DOMAIN l \subseteq DOMAIN l2
    /\ \A k \in DOMAIN l : l2[k].revoked => l[k].revoked \/ (r.cmd.kind = "revoke" /\ k = r.license)

LEMMA OthersStand ==
    ASSUME NEW q \in RequestRows, NEW r \in RequestRows, NEW t, NEW s, NEW l,
           NEW d \in Seq(DecisionRows), NEW t2, NEW s2, NEW l2, NEW d2,
           Stands(q, t, s, l, d), Stands(r, t, s, l, d), Apart(q, r), r.step = "decided",
           LeavesOthers(r, t, s, l, d, t2, s2, l2, d2)
    PROVE  Stands(q, t2, s2, l2, d2)
<1>1. /\ q.cmd \in PlatformCommands /\ r.cmd \in PlatformCommands
      /\ q.cmd.kind \in PlatformKinds /\ r.cmd.kind \in PlatformKinds
  BY CommandsAssumption DEF RequestRows
<1>2. ASSUME HoldsOperation(q) PROVE Fresh(q.cmd, d2)
  <2>1. Fresh(q.cmd, d) /\ q.cmd.kind # "write" BY <1>2 DEF Stands, HoldsOperation
  <2>2. CASE r.cmd.kind = "write" BY <2>1, <2>2 DEF LeavesOthers
  <2>3. CASE r.cmd.kind # "write"
    <3>1. PICK x \in DecisionRows : x.op = r.cmd.op /\ x.kind = r.cmd.kind /\ d2 = Append(d, x)
      BY <2>3 DEF LeavesOthers
    <3>2. LockKey(q.cmd) # LockKey(r.cmd) BY <1>2, <2>3 DEF Apart, HoldsOperation
    <3> QED BY <1>1, <2>1, <2>3, <3>1, <3>2, FreshStays
  <2> QED BY <2>2, <2>3
<1>3. ~(q.cmd.kind = "provision" /\ q.step = "decided" /\ r.cmd.kind = "provision")
  <2> SUFFICES ASSUME q.cmd.kind = "provision", q.step = "decided", r.cmd.kind = "provision"
               PROVE  FALSE
    OBVIOUS
  <2>1. LockKey(q.cmd) # LockKey(r.cmd) BY DEF Apart, HoldsOperation
  <2>2. q.cmd.op = r.cmd.op BY <1>1, CommandsAssumption
  <2>3. Clash(q.cmd.kind, r.cmd.kind) BY DEF Clash
  <2> QED BY <1>1, <2>1, <2>2, <2>3, ClashSameKey
<1>4. HoldsStore(q) => t2 = t /\ s2 = s
  <2>1. CASE r.cmd.kind = "provision" BY <2>1 DEF Stands
  <2>2. CASE r.cmd.kind # "provision"
    <3>1. HoldsStore(r) BY <2>2 DEF HoldsStore
    <3> QED BY <2>2, <3>1 DEF Apart, LeavesOthers
  <2> QED BY <2>1, <2>2
<1>5. (q.cmd.kind = "provision" /\ q.step = "decided") => t2 = t
  <2> SUFFICES ASSUME q.cmd.kind = "provision", q.step = "decided" PROVE t2 = t OBVIOUS
  <2>1. t = Unset /\ r.cmd.kind # "provision" BY <1>3 DEF Stands
  <2>2. HoldsStore(r) BY <2>1 DEF HoldsStore
  <2> QED BY <2>1, <2>2 DEF Stands
<1>6. LicenseStands(q, s2, l2)
  <2>1. DOMAIN l \subseteq DOMAIN l2 BY DEF LeavesOthers
  <2>2. (q.cmd.kind = "issue" /\ q.step = "decided") =>
          /\ q.license # Unset => ~l2[q.license].revoked
          /\ q.day < s2[q.subscription].ends
    <3> SUFFICES ASSUME q.cmd.kind = "issue", q.step = "decided"
                 PROVE  /\ q.license # Unset => ~l2[q.license].revoked
                        /\ q.day < s2[q.subscription].ends
      OBVIOUS
    <3>1. HoldsStore(q) BY DEF HoldsStore
    <3>2. q.day < s2[q.subscription].ends BY <1>4, <3>1 DEF Stands, LicenseStands
    <3>3. ASSUME q.license # Unset, l2[q.license].revoked PROVE FALSE
      <4>1. q.license \in DOMAIN l /\ ~l[q.license].revoked
        BY <3>3 DEF Stands, LicenseStands
      <4>2. r.cmd.kind = "revoke" /\ q.license = r.license BY <3>3, <4>1 DEF LeavesOthers
      <4> QED BY <4>2 DEF Apart
    <3> QED BY <3>2, <3>3
  <2> QED BY <2>1, <2>2 DEF Stands, LicenseStands
<1> QED BY <1>2, <1>4, <1>5, <1>6 DEF Stands

-----------------------------------------------------------------------------
\* What a commit has to do, as far as the rows themselves are concerned.
Sound(t2, s2, l2, d2) ==
    /\ t2 \in StoreRows \cup {Unset} /\ s2 \in Seq(SubscriptionRows)
    /\ l2 \in Seq(LicenseRows) /\ d2 \in Seq(DecisionRows)
    /\ Committed(t2, s2, l2, d2)

\* A request that is about to commit.
LEMMA Deciding ==
    ASSUME PlatformIInv, NEW c \in Requesters, CommitRequest(c)
    PROVE  LET r == requests[c] IN
           /\ r \in RequestRows /\ r.step = "decided" /\ r.cmd \in PlatformCommands
           /\ r.cmd.kind \in PlatformKinds /\ r.cmd.op \in {cmd.op : cmd \in PlatformCommands}
           /\ r.day \in Nat
           /\ Stands(r, store, subscriptions, licenses, decisions)
           /\ r.cmd.kind # "write" => Fresh(r.cmd, decisions)
           /\ r.cmd.kind # "provision" =>
                /\ store \in StoreRows /\ store # Unset
                /\ ReadsStand(r, subscriptions) /\ StillAllowed(r, store, subscriptions)
<1>1. requests[c] # Unset /\ requests[c].step = "decided" BY DEF CommitRequest, AtStep
<1>2. requests[c] \in RequestRows BY <1>1 DEF PlatformIInv, PlatformTypeOK
<1>3. requests[c].cmd \in PlatformCommands /\ requests[c].day \in Nat BY <1>2 DEF RequestRows
<1>4. requests[c].cmd.kind \in PlatformKinds BY <1>3, CommandsAssumption
<1>5. Stands(requests[c], store, subscriptions, licenses, decisions)
  BY <1>1 DEF PlatformIInv, RequestsStand
<1>6. store \in StoreRows \cup {Unset} BY DEF PlatformIInv, PlatformTypeOK
<1> QED BY <1>1, <1>2, <1>3, <1>4, <1>5, <1>6 DEF Stands, HoldsOperation, HoldsStore

\* A write, and what suspends or restores the Store.
LEMMA WriteCommits ==
    ASSUME PlatformIInv, NEW c \in Requesters, CommitRequest(c), requests[c].cmd.kind = "write"
    PROVE  /\ Sound(store', subscriptions', licenses', decisions')
           /\ LeavesOthers(requests[c], store, subscriptions, licenses, decisions,
                           store', subscriptions', licenses', decisions')
<1>1. UNCHANGED <<store, subscriptions, licenses, decisions>>
  BY DEF CommitRequest, StoreAfter, SubscriptionsAfter, LicensesAfter
<1>2. Sound(store, subscriptions, licenses, decisions)
  BY DEF Sound, PlatformIInv, PlatformTypeOK
<1>3. \A k \in DOMAIN licenses : licenses[k].revoked => licenses[k].revoked OBVIOUS
<1> QED BY <1>1, <1>2, <1>3 DEF LeavesOthers

LEMMA StoreActionCommits ==
    ASSUME PlatformIInv, NEW c \in Requesters, CommitRequest(c),
           requests[c].cmd.kind \in StoreActions
    PROVE  /\ Sound(store', subscriptions', licenses', decisions')
           /\ LeavesOthers(requests[c], store, subscriptions, licenses, decisions,
                           store', subscriptions', licenses', decisions')
<1> DEFINE r == requests[c]
           x == Decision(r)
<1>1. /\ r \in RequestRows /\ r.step = "decided" /\ r.cmd \in PlatformCommands
      /\ r.cmd.kind \in PlatformKinds /\ r.cmd.op \in {cmd.op : cmd \in PlatformCommands}
      /\ r.cmd.kind \in {"suspend", "restore"}
      /\ Fresh(r.cmd, decisions)
      /\ store \in StoreRows /\ store # Unset
      /\ StillAllowed(r, store, subscriptions)
  BY Deciding DEF StoreActions
<1>2. subscriptions' = subscriptions /\ licenses' = licenses /\ decisions' = Append(decisions, x)
  BY <1>1 DEF CommitRequest, SubscriptionsAfter, LicensesAfter
<1>3. store.version \in Nat /\ store.version >= 1 /\ store.version + 1 \in Nat \ {0}
  BY <1>1 DEF StoreRows
<1>4. store' = [status |-> IF r.cmd.kind = "suspend" THEN "suspended" ELSE "active",
                version |-> store.version + 1]
  BY <1>1 DEF CommitRequest, StoreAfter, Changed, StoreRows
<1>5. store' \in StoreRows BY <1>3, <1>4 DEF StoreRows
<1>6. x = [op |-> r.cmd.op, kind |-> r.cmd.kind, row |-> Unset, version |-> StoreAfter(r.cmd).version]
  BY <1>1 DEF Decision, StoreActions, SubscriptionActions
<1>7. StoreAfter(r.cmd) = store' BY DEF CommitRequest
<1>8. x.op = r.cmd.op /\ x.kind = r.cmd.kind /\ x.version = store'.version
  BY <1>6, <1>7
<1>9. x \in DecisionRows BY <1>1, <1>3, <1>4, <1>6, <1>7 DEF DecisionRows
<1> HIDE DEF r, x
<1>10. /\ subscriptions \in Seq(SubscriptionRows) /\ licenses \in Seq(LicenseRows)
       /\ decisions \in Seq(DecisionRows)
       /\ SubscriptionsOK(subscriptions) /\ HistoryOK(subscriptions, decisions)
       /\ ActionsOK(store, decisions) /\ OnceOK(decisions)
       /\ LicensesOK(subscriptions, licenses, decisions)
  BY DEF PlatformIInv, PlatformTypeOK, Committed
<1>11. HistoryOK(subscriptions, decisions')
  BY <1>1, <1>2, <1>8, <1>9, <1>10, HistoryAppends DEF SubscriptionActions
<1>12. ActionsOK(store', decisions')
  <2>1. /\ store.status = (IF x.kind = "suspend" THEN "active" ELSE "suspended")
        /\ store'.status = (IF x.kind = "suspend" THEN "suspended" ELSE "active")
        /\ store'.version = store.version + 1
        /\ x.kind \in StoreActions
    BY <1>1, <1>4, <1>8 DEF StillAllowed, StoreActions
  <2> QED BY <1>1, <1>2, <1>5, <1>8, <1>9, <1>10, <2>1, ActionsAppend
<1>13. OnceOK(decisions') BY <1>1, <1>2, <1>8, <1>9, <1>10, OnceStays
<1>14. LicensesOK(subscriptions, licenses, decisions')
  BY <1>1, <1>2, <1>8, <1>9, <1>10, LicensesAppend
<1>15. decisions' \in Seq(DecisionRows) BY <1>2, <1>9, <1>10, AppendFacts
<1>16. store' # Unset BY <1>5, UnsetAssumption
<1>17. Sound(store', subscriptions', licenses', decisions')
  BY <1>2, <1>5, <1>10, <1>11, <1>12, <1>13, <1>14, <1>15, <1>16 DEF Sound, Committed
<1>18. LeavesOthers(r, store, subscriptions, licenses, decisions,
                    store', subscriptions', licenses', decisions')
  BY <1>1, <1>2, <1>8, <1>9 DEF LeavesOthers, Exclusive, StoreActions
<1> QED BY <1>17, <1>18 DEF r

-----------------------------------------------------------------------------
\* An issue, and a revocation, of a license.
LEMMA IssueCommits ==
    ASSUME PlatformIInv, NEW c \in Requesters, CommitRequest(c), requests[c].cmd.kind = "issue"
    PROVE  /\ Sound(store', subscriptions', licenses', decisions')
           /\ LeavesOthers(requests[c], store, subscriptions, licenses, decisions,
                           store', subscriptions', licenses', decisions')
<1> DEFINE r == requests[c]
           x == Decision(r)
           y == License(r)
<1>1. /\ r \in RequestRows /\ r.step = "decided" /\ r.cmd \in PlatformCommands
      /\ r.cmd.kind \in PlatformKinds /\ r.cmd.op \in {cmd.op : cmd \in PlatformCommands}
      /\ r.cmd.kind = "issue" /\ r.day \in Nat
      /\ Fresh(r.cmd, decisions)
      /\ store \in StoreRows /\ store # Unset
      /\ ReadsStand(r, subscriptions) /\ StillAllowed(r, store, subscriptions)
      /\ LicenseStands(r, subscriptions, licenses)
  BY Deciding DEF Stands
<1>2. /\ subscriptions' = subscriptions /\ store' = store /\ decisions' = Append(decisions, x)
      /\ licenses' = Append(licenses, y)
  BY <1>1 DEF CommitRequest, SubscriptionsAfter, StoreAfter, LicensesAfter
<1>3. /\ subscriptions \in Seq(SubscriptionRows) /\ licenses \in Seq(LicenseRows)
      /\ decisions \in Seq(DecisionRows)
      /\ SubscriptionsOK(subscriptions) /\ HistoryOK(subscriptions, decisions)
      /\ ActionsOK(store, decisions) /\ OnceOK(decisions)
      /\ LicensesOK(subscriptions, licenses, decisions)
  BY DEF PlatformIInv, PlatformTypeOK, Committed
<1>4. r.subscription # Unset /\ r.subscription \in DOMAIN subscriptions
  BY <1>1 DEF ReadsStand, StillAllowed
<1> DEFINE end == subscriptions[r.subscription].ends
<1>5. end \in Nat /\ r.day < end BY <1>1, <1>3, <1>4, SubscriptionFields DEF LicenseStands
<1>6. r.subscription \in Nat \ {0} BY <1>3, <1>4
<1>7. r.license \in Nat \cup {Unset} BY <1>1 DEF RequestRows
<1>8. y = [subscription |-> r.subscription, issued |-> r.day, prior |-> r.license, revoked |-> FALSE,
           ends |-> Least(r.day + LicenseDays, end)]
  BY DEF License
<1> HIDE DEF end
<1>9. Least(r.day + LicenseDays, end) \in Nat /\ r.day < Least(r.day + LicenseDays, end)
      /\ Least(r.day + LicenseDays, end) <= end
  BY <1>1, <1>5, DaysAssumption DEF Least
<1>10. y \in LicenseRows BY <1>1, <1>6, <1>7, <1>8, <1>9 DEF LicenseRows
<1>11. /\ y.subscription \in DOMAIN subscriptions /\ y.issued < y.ends
       /\ y.ends <= subscriptions[y.subscription].ends /\ y.prior = r.license
  BY <1>4, <1>8, <1>9 DEF end
<1>12. \A j \in DOMAIN decisions : decisions[j].kind = "revoke" => decisions[j].row # y.prior
  <2> SUFFICES ASSUME NEW j \in DOMAIN decisions, decisions[j].kind = "revoke",
                      decisions[j].row = r.license
               PROVE  FALSE
    BY <1>11
  <2>1. r.license \in DOMAIN licenses /\ licenses[r.license].revoked BY <1>3 DEF LicensesOK
  <2>2. r.license # Unset BY <1>3, <2>1, UnsetAssumption
  <2> QED BY <1>1, <2>1, <2>2 DEF LicenseStands
<1>13. x = [op |-> r.cmd.op, kind |-> r.cmd.kind, row |-> Len(licenses) + 1, version |-> Unset]
  BY <1>1 DEF Decision, StoreActions, SubscriptionActions
<1>14. x.op = r.cmd.op /\ x.kind = "issue" /\ x.row = Len(licenses) + 1 BY <1>1, <1>13
<1>15. Len(licenses) + 1 \in Nat BY <1>3
<1>16. x \in DecisionRows BY <1>1, <1>13, <1>15 DEF DecisionRows
<1> HIDE DEF r, x, y
<1>17. HistoryOK(subscriptions, decisions')
  BY <1>2, <1>3, <1>14, <1>16, HistoryAppends DEF SubscriptionActions
<1>18. ActionsOK(store, decisions')
  BY <1>1, <1>2, <1>3, <1>14, <1>16, ActionsAppend DEF StoreActions
<1>19. OnceOK(decisions') BY <1>1, <1>2, <1>3, <1>14, <1>16, OnceStays
<1>20. licenses' \in Seq(LicenseRows) /\ decisions' \in Seq(DecisionRows)
  BY <1>2, <1>3, <1>10, <1>16, AppendFacts
<1>21. LicensesOK(subscriptions, licenses', decisions')
  BY <1>2, <1>3, <1>10, <1>11, <1>12, <1>14, <1>16, <1>20, LicensesAppend
<1>22. Sound(store', subscriptions', licenses', decisions')
  BY <1>1, <1>2, <1>3, <1>17, <1>18, <1>19, <1>20, <1>21 DEF Sound, Committed
<1>23. DOMAIN licenses \subseteq DOMAIN licenses' /\ \A k \in DOMAIN licenses : licenses'[k] = licenses[k]
  BY <1>2, <1>3, <1>10, AppendFacts
<1>24. LeavesOthers(r, store, subscriptions, licenses, decisions,
                    store', subscriptions', licenses', decisions')
  BY <1>1, <1>2, <1>14, <1>16, <1>23 DEF LeavesOthers
<1> QED BY <1>22, <1>24 DEF r

LEMMA RevokeCommits ==
    ASSUME PlatformIInv, NEW c \in Requesters, CommitRequest(c), requests[c].cmd.kind = "revoke"
    PROVE  /\ Sound(store', subscriptions', licenses', decisions')
           /\ LeavesOthers(requests[c], store, subscriptions, licenses, decisions,
                           store', subscriptions', licenses', decisions')
<1> DEFINE r == requests[c]
           x == Decision(r)
<1>1. /\ r \in RequestRows /\ r.step = "decided" /\ r.cmd \in PlatformCommands
      /\ r.cmd.kind \in PlatformKinds /\ r.cmd.op \in {cmd.op : cmd \in PlatformCommands}
      /\ r.cmd.kind = "revoke"
      /\ Fresh(r.cmd, decisions)
      /\ store \in StoreRows /\ store # Unset
      /\ r.license \in DOMAIN licenses
  BY Deciding DEF Stands, LicenseStands
<1>2. /\ subscriptions' = subscriptions /\ store' = store /\ decisions' = Append(decisions, x)
      /\ licenses' = [licenses EXCEPT ![r.license].revoked = TRUE]
  BY <1>1 DEF CommitRequest, SubscriptionsAfter, StoreAfter, LicensesAfter
<1>3. /\ subscriptions \in Seq(SubscriptionRows) /\ licenses \in Seq(LicenseRows)
      /\ decisions \in Seq(DecisionRows)
      /\ SubscriptionsOK(subscriptions) /\ HistoryOK(subscriptions, decisions)
      /\ ActionsOK(store, decisions) /\ OnceOK(decisions)
      /\ LicensesOK(subscriptions, licenses, decisions)
  BY DEF PlatformIInv, PlatformTypeOK, Committed
<1>4. x = [op |-> r.cmd.op, kind |-> r.cmd.kind, row |-> r.license, version |-> Unset]
  BY <1>1 DEF Decision, StoreActions, SubscriptionActions
<1>5. x.op = r.cmd.op /\ x.kind = "revoke" /\ x.row = r.license BY <1>1, <1>4
<1>6. r.license \in Nat BY <1>1, <1>3
<1>7. x \in DecisionRows BY <1>1, <1>4, <1>6 DEF DecisionRows
<1> HIDE DEF r, x
<1>8. licenses[r.license] \in LicenseRows BY <1>1, <1>3, LicenseFields
<1>9. [licenses[r.license] EXCEPT !.revoked = TRUE] \in LicenseRows BY <1>8 DEF LicenseRows
<1>10. licenses' = [licenses EXCEPT ![r.license] = [licenses[r.license] EXCEPT !.revoked = TRUE]]
  BY <1>2
<1>11. licenses' \in Seq(LicenseRows) BY <1>1, <1>3, <1>9, <1>10
<1>12. DOMAIN licenses' = DOMAIN licenses
       /\ \A k \in DOMAIN licenses : k # r.license => licenses'[k] = licenses[k]
  BY <1>10
<1>13. HistoryOK(subscriptions, decisions')
  BY <1>2, <1>3, <1>5, <1>7, HistoryAppends DEF SubscriptionActions
<1>14. ActionsOK(store, decisions')
  BY <1>1, <1>2, <1>3, <1>5, <1>7, ActionsAppend DEF StoreActions
<1>15. OnceOK(decisions') BY <1>1, <1>2, <1>3, <1>5, <1>7, OnceStays
<1>16. decisions' \in Seq(DecisionRows) BY <1>2, <1>3, <1>7, AppendFacts
<1>17. LicensesOK(subscriptions, licenses', decisions')
  BY <1>1, <1>2, <1>3, <1>5, <1>7, <1>11, LicensesAppend
<1>18. Sound(store', subscriptions', licenses', decisions')
  BY <1>1, <1>2, <1>3, <1>11, <1>13, <1>14, <1>15, <1>16, <1>17 DEF Sound, Committed
<1>19. LeavesOthers(r, store, subscriptions, licenses, decisions,
                    store', subscriptions', licenses', decisions')
  BY <1>1, <1>2, <1>5, <1>7, <1>12 DEF LeavesOthers
<1> QED BY <1>18, <1>19 DEF r

-----------------------------------------------------------------------------
\* A decision of the subscription family that brings the subscriptions to s2.
LEMMA SubscriptionDecided ==
    ASSUME PlatformIInv, NEW c \in Requesters, CommitRequest(c),
           requests[c].cmd.kind \in SubscriptionActions, NEW i \in Nat,
           subscriptions' \in Seq(SubscriptionRows), SubscriptionsOK(subscriptions'),
           Grows(subscriptions, subscriptions'), i \in DOMAIN subscriptions',
           i = (IF Len(subscriptions') > Len(subscriptions) THEN Len(subscriptions')
                ELSE requests[c].subscription),
           requests[c].cmd.kind = "cancel" => subscriptions'[i].status # "active",
           i \in DOMAIN subscriptions =>
             /\ subscriptions[i].status = "active"
             /\ subscriptions'[i].version = subscriptions[i].version + 1
    PROVE  /\ Sound(store', subscriptions', licenses', decisions')
           /\ LeavesOthers(requests[c], store, subscriptions, licenses, decisions,
                           store', subscriptions', licenses', decisions')
<1> DEFINE r == requests[c]
           x == Decision(r)
           s2 == subscriptions'
<1>1. /\ r \in RequestRows /\ r.step = "decided" /\ r.cmd \in PlatformCommands
      /\ r.cmd.kind \in PlatformKinds /\ r.cmd.op \in {cmd.op : cmd \in PlatformCommands}
      /\ r.cmd.kind \in {"activate", "extend", "cancel", "reactivate"}
      /\ Fresh(r.cmd, decisions)
      /\ store \in StoreRows /\ store # Unset
  BY Deciding DEF SubscriptionActions
<1>2. store' = store /\ licenses' = licenses /\ decisions' = Append(decisions, x)
  BY <1>1 DEF CommitRequest, StoreAfter, LicensesAfter
<1>3. SubscriptionsAfter(r.cmd, r.day, r.subscription) = s2 BY DEF CommitRequest
<1>4. /\ subscriptions \in Seq(SubscriptionRows) /\ licenses \in Seq(LicenseRows)
      /\ decisions \in Seq(DecisionRows)
      /\ HistoryOK(subscriptions, decisions)
      /\ ActionsOK(store, decisions) /\ OnceOK(decisions)
      /\ LicensesOK(subscriptions, licenses, decisions)
  BY DEF PlatformIInv, PlatformTypeOK, Committed
<1>5. x = [op |-> r.cmd.op, kind |-> r.cmd.kind, row |-> i, version |-> s2[i].version]
  BY <1>1, <1>3 DEF Decision, StoreActions, SubscriptionActions
<1>6. s2[i].version \in Nat BY SubscriptionFields
<1>7. x \in DecisionRows BY <1>1, <1>5, <1>6 DEF DecisionRows
<1>8. x.op = r.cmd.op /\ x.kind = r.cmd.kind /\ x.row = i /\ x.version = s2[i].version BY <1>5
<1> HIDE DEF r, x
<1>9. \A j \in DOMAIN decisions :
        (decisions[j].kind \in SubscriptionActions /\ decisions[j].row = i) =>
          decisions[j].kind # "cancel" /\ decisions[j].version < s2[i].version
  <2> SUFFICES ASSUME NEW j \in DOMAIN decisions, decisions[j].kind \in SubscriptionActions,
                      decisions[j].row = i
               PROVE  decisions[j].kind # "cancel" /\ decisions[j].version < s2[i].version
    OBVIOUS
  <2>1. /\ i \in DOMAIN subscriptions /\ decisions[j].version \in Nat
        /\ decisions[j].version <= subscriptions[i].version
        /\ decisions[j].kind = "cancel" => subscriptions[i].status # "active"
    BY <1>4 DEF HistoryOK
  <2>2. subscriptions[i].version \in Nat BY <1>4, <2>1, SubscriptionFields
  <2> QED BY <2>1, <2>2
<1>10. HistoryOK(s2, decisions) BY <1>4, HistoryGrows
<1>11. HistoryOK(s2, decisions')
  <2>1. /\ x.row \in DOMAIN s2 /\ x.version = s2[x.row].version
        /\ x.kind = "cancel" => s2[x.row].status # "active"
        /\ \A j \in DOMAIN decisions :
             (decisions[j].kind \in SubscriptionActions /\ decisions[j].row = x.row) =>
               decisions[j].kind # "cancel" /\ decisions[j].version < x.version
    BY <1>8, <1>9 DEF r
  <2> QED BY <1>2, <1>4, <1>7, <1>10, <2>1, HistoryAppends
<1>12. ActionsOK(store, decisions')
  BY <1>1, <1>2, <1>4, <1>7, <1>8, ActionsAppend DEF StoreActions
<1>13. OnceOK(decisions') BY <1>1, <1>2, <1>4, <1>7, <1>8, OnceStays
<1>14. LicensesOK(s2, licenses, decisions) BY <1>4, LicensesGrow
<1>15. LicensesOK(s2, licenses, decisions') BY <1>1, <1>2, <1>4, <1>7, <1>8, <1>14, LicensesAppend
<1>16. decisions' \in Seq(DecisionRows) BY <1>2, <1>4, <1>7, AppendFacts
<1>17. Sound(store', s2, licenses', decisions')
  BY <1>1, <1>2, <1>4, <1>11, <1>12, <1>13, <1>15, <1>16 DEF Sound, Committed
<1>18. LeavesOthers(r, store, subscriptions, licenses, decisions, store', s2, licenses', decisions')
  BY <1>1, <1>2, <1>7, <1>8 DEF LeavesOthers, Exclusive, SubscriptionActions
<1> QED BY <1>17, <1>18 DEF r

\* The row of a subscription that begins.
LEMMA NewSubscription ==
    ASSUME NEW day \in Nat
    PROVE  /\ Subscription(day) \in SubscriptionRows
           /\ Subscription(day).status = "active" /\ Subscription(day).starts = day
BY DaysAssumption DEF Subscription, SubscriptionRows

\* The row of a subscription that changes.
LEMMA ChangedSubscription ==
    ASSUME NEW y \in SubscriptionRows, NEW day \in Nat
    PROVE  /\ Extended(y) \in SubscriptionRows /\ Extended(y).status = y.status
           /\ Extended(y).starts = y.starts /\ Extended(y).ends = y.ends + PlanDays
           /\ Extended(y).version = y.version + 1
           /\ Cancelled(y, day) \in SubscriptionRows /\ Cancelled(y, day).status = "cancelled"
           /\ Cancelled(y, day).starts = y.starts /\ Cancelled(y, day).ends = y.ends
           /\ Cancelled(y, day).version = y.version + 1
           /\ Expired(y) \in SubscriptionRows /\ Expired(y).status = "expired"
           /\ Expired(y).starts = y.starts /\ Expired(y).ends = y.ends
           /\ Expired(y).version = y.version + 1
<1>1. ASSUME NEW z \in SubscriptionRows
      PROVE  /\ Changed(z) \in SubscriptionRows /\ Changed(z).status = z.status
             /\ Changed(z).starts = z.starts /\ Changed(z).ends = z.ends
             /\ Changed(z).version = z.version + 1
  BY DEF Changed, SubscriptionRows
<1> DEFINE a == [y EXCEPT !.ends = @ + PlanDays]
           b == [y EXCEPT !.status = "cancelled", !.cancelled = day]
           e == [y EXCEPT !.status = "expired"]
<1>2. a \in SubscriptionRows /\ a.status = y.status /\ a.starts = y.starts
      /\ a.ends = y.ends + PlanDays /\ a.version = y.version
  BY DaysAssumption DEF SubscriptionRows
<1>3. b \in SubscriptionRows /\ b.status = "cancelled" /\ b.starts = y.starts
      /\ b.ends = y.ends /\ b.version = y.version
  BY DEF SubscriptionRows
<1>4. e \in SubscriptionRows /\ e.status = "expired" /\ e.starts = y.starts
      /\ e.ends = y.ends /\ e.version = y.version
  BY DEF SubscriptionRows
<1>5. Extended(y) = Changed(a) /\ Cancelled(y, day) = Changed(b) /\ Expired(y) = Changed(e)
  BY DEF Extended, Cancelled, Expired
<1> HIDE DEF a, b, e
<1> QED BY <1>1, <1>2, <1>3, <1>4, <1>5

LEMMA ActivateCommits ==
    ASSUME PlatformIInv, NEW c \in Requesters, CommitRequest(c), requests[c].cmd.kind = "activate"
    PROVE  /\ Sound(store', subscriptions', licenses', decisions')
           /\ LeavesOthers(requests[c], store, subscriptions, licenses, decisions,
                           store', subscriptions', licenses', decisions')
<1> DEFINE y == Subscription(requests[c].day)
<1>1. subscriptions' = Append(subscriptions, y) BY DEF CommitRequest, SubscriptionsAfter
<1>2. \A i \in DOMAIN subscriptions : subscriptions[i].status # "active"
  <2>1. requests[c].subscription = Unset /\ ReadsStand(requests[c], subscriptions)
    BY Deciding DEF StillAllowed
  <2>2. subscriptions \in Seq(SubscriptionRows) BY DEF PlatformIInv, PlatformTypeOK
  <2>3. Unset \notin DOMAIN subscriptions BY <2>2, UnsetAssumption
  <2> QED BY <2>1, <2>3 DEF ReadsStand
<1>3. subscriptions \in Seq(SubscriptionRows) /\ SubscriptionsOK(subscriptions)
  BY DEF PlatformIInv, PlatformTypeOK, Committed
<1>4. y \in SubscriptionRows /\ y.status = "active" BY Deciding, NewSubscription
<1> HIDE DEF y
<1>5. SubscriptionsOK(subscriptions') /\ Grows(subscriptions, subscriptions')
  BY <1>1, <1>2, <1>3, <1>4, SubscriptionBegins
<1> DEFINE n == Len(subscriptions) + 1
<1>6. /\ subscriptions' \in Seq(SubscriptionRows) /\ n \in Nat /\ n = Len(subscriptions')
      /\ n > Len(subscriptions) /\ n \in DOMAIN subscriptions' /\ n \notin DOMAIN subscriptions
  BY <1>1, <1>3, <1>4, AppendFacts
<1> HIDE DEF n
<1> QED BY <1>5, <1>6, SubscriptionDecided DEF SubscriptionActions

LEMMA ExtendOrCancelCommits ==
    ASSUME PlatformIInv, NEW c \in Requesters, CommitRequest(c),
           requests[c].cmd.kind \in {"extend", "cancel"}
    PROVE  /\ Sound(store', subscriptions', licenses', decisions')
           /\ LeavesOthers(requests[c], store, subscriptions, licenses, decisions,
                           store', subscriptions', licenses', decisions')
<1> DEFINE r == requests[c]
           i == r.subscription
           y == subscriptions'[i]
<1>1. /\ i \in DOMAIN subscriptions /\ subscriptions[i].status = "active"
      /\ r.day \in Nat /\ r.cmd.kind \in {"extend", "cancel"}
  BY Deciding DEF StillAllowed, ReadsStand
<1>2. subscriptions \in Seq(SubscriptionRows) /\ SubscriptionsOK(subscriptions)
  BY DEF PlatformIInv, PlatformTypeOK, Committed
<1>3. subscriptions[i] \in SubscriptionRows /\ subscriptions[i].ends \in Nat
      /\ subscriptions[i].version \in Nat \ {0}
  BY <1>1, <1>2, SubscriptionFields
<1>4. \E row \in SubscriptionRows :
        /\ subscriptions' = [subscriptions EXCEPT ![i] = row]
        /\ row.starts = subscriptions[i].starts /\ row.version = subscriptions[i].version + 1
        /\ subscriptions[i].ends <= row.ends /\ row.status \in {"active", "cancelled"}
        /\ r.cmd.kind = "cancel" => row.status # "active"
  <2>1. CASE r.cmd.kind = "extend"
    <3>1. subscriptions' = [subscriptions EXCEPT ![i] = Extended(subscriptions[i])]
      BY <2>1 DEF CommitRequest, SubscriptionsAfter
    <3> DEFINE row == Extended(subscriptions[i])
    <3>2. /\ row \in SubscriptionRows /\ row.status = "active"
          /\ row.starts = subscriptions[i].starts /\ row.ends = subscriptions[i].ends + PlanDays
          /\ row.version = subscriptions[i].version + 1
      BY <1>1, <1>3, ChangedSubscription
    <3> HIDE DEF row
    <3>3. subscriptions[i].ends <= row.ends BY <1>3, <3>2, DaysAssumption
    <3> QED BY <2>1, <3>1, <3>2, <3>3 DEF row
  <2>2. CASE r.cmd.kind = "cancel"
    <3>1. subscriptions' = [subscriptions EXCEPT ![i] = Cancelled(subscriptions[i], r.day)]
      BY <2>2 DEF CommitRequest, SubscriptionsAfter
    <3>2. subscriptions[i].ends <= subscriptions[i].ends BY <1>3
    <3> QED BY <1>1, <1>3, <2>2, <3>1, <3>2, ChangedSubscription
  <2> QED BY <1>1, <2>1, <2>2
<1>5. PICK row \in SubscriptionRows :
        /\ subscriptions' = [subscriptions EXCEPT ![i] = row]
        /\ row.starts = subscriptions[i].starts /\ row.version = subscriptions[i].version + 1
        /\ subscriptions[i].ends <= row.ends /\ row.status \in {"active", "cancelled"}
        /\ r.cmd.kind = "cancel" => row.status # "active"
  BY <1>4
<1>6. subscriptions[i].version <= row.version BY <1>3, <1>5
<1>7. /\ subscriptions' \in Seq(SubscriptionRows) /\ subscriptions'[i] = row
      /\ SubscriptionsOK(subscriptions') /\ Grows(subscriptions, subscriptions')
  BY <1>1, <1>2, <1>5, <1>6, SubscriptionChanges
<1>8. Len(subscriptions') = Len(subscriptions) /\ i \in DOMAIN subscriptions' /\ i \in Nat
      /\ Len(subscriptions) \in Nat
  BY <1>1, <1>2, <1>5
<1>9. i = (IF Len(subscriptions') > Len(subscriptions) THEN Len(subscriptions') ELSE r.subscription)
  BY <1>8
<1> HIDE DEF i
<1> QED BY <1>1, <1>5, <1>7, <1>8, <1>9, SubscriptionDecided DEF SubscriptionActions

LEMMA ReactivateCommits ==
    ASSUME PlatformIInv, NEW c \in Requesters, CommitRequest(c), requests[c].cmd.kind = "reactivate"
    PROVE  /\ Sound(store', subscriptions', licenses', decisions')
           /\ LeavesOthers(requests[c], store, subscriptions, licenses, decisions,
                           store', subscriptions', licenses', decisions')
<1> DEFINE r == requests[c]
           i == r.subscription
           z == Subscription(r.day)
           n == Len(subscriptions) + 1
<1>1. r.day \in Nat /\ ReadsStand(r, subscriptions) /\ StillAllowed(r, store, subscriptions)
  BY Deciding
<1>2. subscriptions \in Seq(SubscriptionRows) /\ SubscriptionsOK(subscriptions)
  BY DEF PlatformIInv, PlatformTypeOK, Committed
<1>3. z \in SubscriptionRows /\ z.status = "active" /\ z.starts = r.day BY <1>1, NewSubscription
<1>4. /\ subscriptions' \in Seq(SubscriptionRows) /\ SubscriptionsOK(subscriptions')
      /\ Grows(subscriptions, subscriptions') /\ Len(subscriptions') = n
  <2>1. CASE i = Unset
    <3>1. subscriptions' = Append(subscriptions, z) BY <2>1 DEF CommitRequest, SubscriptionsAfter
    <3>2. Unset \notin DOMAIN subscriptions BY <1>2, UnsetAssumption
    <3>3. \A j \in DOMAIN subscriptions : subscriptions[j].status # "active"
      BY <1>1, <2>1, <3>2 DEF ReadsStand
    <3> HIDE DEF z
    <3> QED BY <1>2, <1>3, <3>1, <3>3, SubscriptionBegins, AppendFacts
  <2>2. CASE i # Unset
    <3> DEFINE y == Expired(subscriptions[i])
    <3>1. subscriptions' = Append([subscriptions EXCEPT ![i] = y], z)
      BY <2>2 DEF CommitRequest, SubscriptionsAfter
    <3>2. i \in DOMAIN subscriptions /\ subscriptions[i].status = "active"
      BY <1>1, <2>2 DEF ReadsStand
    <3>3. subscriptions[i].ends <= r.day BY <2>2, <1>1 DEF StillAllowed
    <3>4. subscriptions[i] \in SubscriptionRows /\ subscriptions[i].version \in Nat
      BY <1>2, <3>2, SubscriptionFields
    <3>5. /\ y \in SubscriptionRows /\ y.status = "expired"
          /\ y.starts = subscriptions[i].starts /\ y.ends = subscriptions[i].ends
          /\ y.version = subscriptions[i].version + 1
      BY <1>1, <3>4, ChangedSubscription
    <3> HIDE DEF y, z
    <3>6. subscriptions[i].version <= y.version /\ y.ends <= z.starts BY <1>3, <3>3, <3>4, <3>5
    <3>7. /\ subscriptions' \in Seq(SubscriptionRows) /\ SubscriptionsOK(subscriptions')
          /\ Grows(subscriptions, subscriptions')
      BY <1>2, <1>3, <3>1, <3>2, <3>5, <3>6, SubscriptionExpires
    <3> DEFINE b == [subscriptions EXCEPT ![i] = y]
    <3>8. b \in Seq(SubscriptionRows) /\ Len(b) = Len(subscriptions) BY <1>2, <3>2, <3>5
    <3> HIDE DEF b
    <3>9. Len(Append(b, z)) = Len(b) + 1 BY <1>3, <3>8, AppendFacts
    <3>10. Len(subscriptions') = n BY <3>1, <3>8, <3>9 DEF b
    <3> QED BY <3>7, <3>10
  <2> QED BY <2>1, <2>2
<1>5. /\ n \in Nat /\ n > Len(subscriptions) /\ n \in DOMAIN subscriptions'
      /\ n \notin DOMAIN subscriptions
  BY <1>2, <1>4
<1> HIDE DEF n
<1> QED BY <1>4, <1>5, SubscriptionDecided DEF SubscriptionActions

\* The Store is provisioned when there is nothing of it yet.
LEMMA ProvisionCommits ==
    ASSUME PlatformIInv, NEW c \in Requesters, CommitRequest(c), requests[c].cmd.kind = "provision"
    PROVE  /\ Sound(store', subscriptions', licenses', decisions')
           /\ LeavesOthers(requests[c], store, subscriptions, licenses, decisions,
                           store', subscriptions', licenses', decisions')
<1> DEFINE r == requests[c]
           x == Decision(r)
           y == Subscription(r.day)
<1>1. /\ r \in RequestRows /\ r.step = "decided" /\ r.cmd \in PlatformCommands
      /\ r.cmd.kind \in PlatformKinds /\ r.cmd.op \in {cmd.op : cmd \in PlatformCommands}
      /\ r.cmd.kind = "provision" /\ r.day \in Nat /\ r.cmd.activate \in BOOLEAN
      /\ Fresh(r.cmd, decisions) /\ store = Unset
      /\ r.subscription \in Nat \cup {Unset}
  BY Deciding, CommandsAssumption DEF Stands, RequestRows
<1>2. /\ subscriptions \in Seq(SubscriptionRows) /\ licenses \in Seq(LicenseRows)
      /\ decisions \in Seq(DecisionRows)
      /\ SubscriptionsOK(subscriptions) /\ HistoryOK(subscriptions, decisions)
      /\ ActionsOK(Unset, decisions) /\ OnceOK(decisions)
      /\ LicensesOK(subscriptions, licenses, decisions)
      /\ subscriptions = <<>>
  BY <1>1 DEF PlatformIInv, PlatformTypeOK, Committed
<1>3. store' = [status |-> "active", version |-> 1] /\ licenses' = licenses
      /\ decisions' = Append(decisions, x)
  BY <1>1 DEF CommitRequest, StoreAfter, LicensesAfter
<1>4. store' \in StoreRows /\ store'.version = 1 /\ store'.status = "active" BY <1>3 DEF StoreRows
<1>5. store' # Unset BY <1>4, UnsetAssumption
<1>6. y \in SubscriptionRows /\ y.status = "active" BY <1>1, NewSubscription
<1>7. subscriptions' = IF r.cmd.activate THEN Append(subscriptions, y) ELSE subscriptions
  BY <1>1 DEF CommitRequest, SubscriptionsAfter
<1>8. /\ subscriptions' \in Seq(SubscriptionRows) /\ SubscriptionsOK(subscriptions')
      /\ Grows(subscriptions, subscriptions') /\ Len(subscriptions') \in Nat
  <2>1. \A i \in DOMAIN subscriptions : subscriptions[i].status # "active" BY <1>2
  <2>2. Grows(subscriptions, subscriptions) BY <1>2 DEF Grows
  <2> HIDE DEF y
  <2> QED BY <1>2, <1>6, <1>7, <2>1, <2>2, SubscriptionBegins, AppendFacts
<1>9. \E row \in Nat \cup {Unset} :
        x = [op |-> r.cmd.op, kind |-> r.cmd.kind, row |-> row, version |-> Unset]
  BY <1>1, <1>8 DEF CommitRequest, Decision, StoreActions, SubscriptionActions
<1>10. x \in DecisionRows /\ x.op = r.cmd.op /\ x.kind = "provision"
  BY <1>1, <1>9 DEF DecisionRows
<1> HIDE DEF r, x, y
<1>11. HistoryOK(subscriptions', decisions) BY <1>2, <1>8, HistoryGrows
<1>12. HistoryOK(subscriptions', decisions')
  BY <1>2, <1>3, <1>8, <1>10, <1>11, HistoryAppends DEF SubscriptionActions
<1>13. ActionsOK(store', decisions')
  BY <1>2, <1>3, <1>4, <1>10, ActionsAppend DEF StoreActions
<1>14. OnceOK(decisions') BY <1>1, <1>2, <1>3, <1>10, OnceStays
<1>15. LicensesOK(subscriptions', licenses, decisions) BY <1>2, <1>8, LicensesGrow
<1>16. LicensesOK(subscriptions', licenses', decisions')
  BY <1>1, <1>2, <1>3, <1>10, <1>15, LicensesAppend
<1>17. decisions' \in Seq(DecisionRows) BY <1>2, <1>3, <1>10, AppendFacts
<1>18. Sound(store', subscriptions', licenses', decisions')
  BY <1>2, <1>3, <1>4, <1>5, <1>8, <1>12, <1>13, <1>14, <1>16, <1>17 DEF Sound, Committed
<1>19. LeavesOthers(r, store, subscriptions, licenses, decisions,
                    store', subscriptions', licenses', decisions')
  BY <1>1, <1>3, <1>10 DEF LeavesOthers
<1> QED BY <1>18, <1>19 DEF r

-----------------------------------------------------------------------------
\* The requests that are not under way are apart from all others.
LEMMA OneRequestChanges ==
    ASSUME PlatformIInv, NEW c \in Requesters, NEW r \in RequestRows \cup {Unset},
           requests' = [requests EXCEPT ![c] = r],
           UNCHANGED <<store, subscriptions, licenses, decisions>>, clock' \in Nat,
           r # Unset => Stands(r, store, subscriptions, licenses, decisions),
           r # Unset =>
             \A e \in Requesters \ {c} : requests[e] # Unset => Apart(requests[e], r)
    PROVE  PlatformIInv'
<1>1. requests \in [Requesters -> RequestRows \cup {Unset}] BY DEF PlatformIInv, PlatformTypeOK
<1>2. requests'[c] = r /\ \A e \in Requesters \ {c} : requests'[e] = requests[e] BY <1>1
<1>3. PlatformTypeOK' BY <1>1 DEF PlatformIInv, PlatformTypeOK
<1>4. Committed(store, subscriptions, licenses, decisions)' BY DEF PlatformIInv
<1>5. RequestsStand' BY <1>2 DEF PlatformIInv, RequestsStand
<1>6. \A q, p : Apart(q, p) => Apart(p, q) BY DEF Apart
<1>7. RequestsApart' BY <1>2, <1>6 DEF PlatformIInv, RequestsApart
<1> QED BY <1>3, <1>4, <1>5, <1>7 DEF PlatformIInv

LEMMA CommitKeeps ==
    ASSUME PlatformIInv, NEW c \in Requesters, CommitRequest(c)
    PROVE  PlatformIInv'
<1> DEFINE r == requests[c]
<1>1. /\ r \in RequestRows /\ r.step = "decided" /\ r.cmd.kind \in PlatformKinds
      /\ Stands(r, store, subscriptions, licenses, decisions)
  BY Deciding
<1>2. /\ Sound(store', subscriptions', licenses', decisions')
      /\ LeavesOthers(r, store, subscriptions, licenses, decisions,
                      store', subscriptions', licenses', decisions')
  BY <1>1, WriteCommits, StoreActionCommits, IssueCommits, RevokeCommits, ActivateCommits,
     ExtendOrCancelCommits, ReactivateCommits, ProvisionCommits
     DEF PlatformKinds, SubscriptionActions
<1>3. requests \in [Requesters -> RequestRows \cup {Unset}] /\ decisions \in Seq(DecisionRows)
      /\ clock \in Nat
  BY DEF PlatformIInv, PlatformTypeOK
<1>4. requests' = [requests EXCEPT ![c] = Unset] /\ UNCHANGED clock BY DEF CommitRequest, Over
<1>5. requests'[c] = Unset /\ \A e \in Requesters \ {c} : requests'[e] = requests[e]
  BY <1>3, <1>4
<1>6. requests' \in [Requesters -> RequestRows \cup {Unset}] BY <1>3, <1>4
<1>7. PlatformTypeOK' BY <1>2, <1>3, <1>4, <1>6 DEF Sound, PlatformTypeOK
<1>8. Committed(store, subscriptions, licenses, decisions)' BY <1>2 DEF Sound
<1>9. r # Unset BY <1>1, UnsetAssumption
<1>10. RequestsStand'
  <2> SUFFICES ASSUME NEW e \in Requesters, requests'[e] # Unset
               PROVE  Stands(requests'[e], store', subscriptions', licenses', decisions')
    BY DEF RequestsStand
  <2>1. e # c /\ requests'[e] = requests[e] /\ requests[e] \in RequestRows BY <1>3, <1>5
  <2>2. Stands(requests[e], store, subscriptions, licenses, decisions) /\ Apart(requests[e], r)
    BY <1>9, <2>1 DEF PlatformIInv, RequestsStand, RequestsApart
  <2> HIDE DEF r
  <2> QED BY <1>1, <1>2, <1>3, <2>1, <2>2, OthersStand
<1>11. RequestsApart' BY <1>5 DEF PlatformIInv, RequestsApart
<1> QED BY <1>7, <1>8, <1>10, <1>11 DEF PlatformIInv
\* What is known of a request under way.
LEMMA UnderWay ==
    ASSUME PlatformIInv, NEW c \in Requesters, requests[c] # Unset
    PROVE  LET r == requests[c] IN
           /\ r \in RequestRows /\ r.cmd \in PlatformCommands /\ r.cmd.kind \in PlatformKinds
           /\ r.step \in {"begun", "identified", "locked", "latest", "decided"}
           /\ r.day \in Nat /\ r.subscription \in Nat \cup {Unset}
           /\ r.version \in Nat \cup {Unset} /\ r.license \in Nat \cup {Unset}
           /\ Stands(r, store, subscriptions, licenses, decisions)
           /\ \A e \in Requesters \ {c} : requests[e] # Unset =>
                Apart(requests[e], r) /\ requests[e] \in RequestRows
<1>1. requests[c] \in RequestRows BY DEF PlatformIInv, PlatformTypeOK
<1>2. \A e \in Requesters \ {c} : requests[e] # Unset =>
        Apart(requests[e], requests[c]) /\ requests[e] \in RequestRows
  BY DEF PlatformIInv, PlatformTypeOK, RequestsApart
<1> QED BY <1>1, <1>2, CommandsAssumption DEF PlatformIInv, RequestsStand, RequestRows

LEMMA CommittedTypes ==
    ASSUME PlatformIInv
    PROVE  /\ clock \in Nat /\ store \in StoreRows \cup {Unset}
           /\ subscriptions \in Seq(SubscriptionRows) /\ licenses \in Seq(LicenseRows)
           /\ decisions \in Seq(DecisionRows)
           /\ requests \in [Requesters -> RequestRows \cup {Unset}]
           /\ SubscriptionsOK(subscriptions)
BY DEF PlatformIInv, PlatformTypeOK, Committed

\* A request that ends without a commit changes nothing.
LEMMA OverKeeps ==
    ASSUME PlatformIInv, NEW c \in Requesters, Over(c), Undecided
    PROVE  PlatformIInv'
<1>1. clock' \in Nat BY CommittedTypes DEF Undecided
<1>2. requests' = [requests EXCEPT ![c] = Unset] BY DEF Over
<1>3. UNCHANGED <<store, subscriptions, licenses, decisions>> BY DEF Undecided
<1> DEFINE r == Unset
<1>4. r \in RequestRows \cup {Unset} /\ r = Unset OBVIOUS
<1> HIDE DEF r
<1> QED BY <1>1, <1>2, <1>3, <1>4, OneRequestChanges

LEMMA BeginKeeps ==
    ASSUME PlatformIInv, NEW c \in Requesters, NEW cmd \in PlatformCommands, Begin(c, cmd)
    PROVE  PlatformIInv'
<1> DEFINE r == NewRequest(cmd)
<1>1. clock \in Nat BY CommittedTypes
<1>2. r \in RequestRows BY <1>1 DEF NewRequest, RequestRows
<1>3. r.step = "begun" /\ r.license = Unset /\ r.cmd = cmd BY DEF NewRequest
<1>4. requests' = [requests EXCEPT ![c] = r] BY DEF Begin
<1>5. UNCHANGED <<clock, store, subscriptions, licenses, decisions>> BY DEF Begin, Undecided
<1> HIDE DEF r
<1>6. Stands(r, store, subscriptions, licenses, decisions)
  BY <1>3 DEF Stands, LicenseStands, HoldsOperation, HoldsStore
<1>7. \A q : Apart(q, r) BY <1>3 DEF Apart, HoldsOperation, HoldsStore
<1> QED BY <1>1, <1>2, <1>4, <1>5, <1>6, <1>7, OneRequestChanges

LEMMA LockOperationKeeps ==
    ASSUME PlatformIInv, NEW c \in Requesters, LockOperation(c)
    PROVE  PlatformIInv'
<1> DEFINE q == requests[c]
           r == [q EXCEPT !.step = "identified", !.day = IF q.cmd.kind = "issue" THEN clock ELSE q.day]
<1>1. /\ q # Unset /\ q.step = "begun" /\ q.cmd.kind # "write" /\ Undecided
      /\ \A e \in OtherRequests(c) : HasOperation(e) => LockKey(requests[e].cmd) # LockKey(q.cmd)
  BY DEF LockOperation, AtStep
<1>2. CASE Earlier(q.cmd) # {} BY <1>1, <1>2, OverKeeps DEF LockOperation
<1>3. CASE Earlier(q.cmd) = {}
  <2>1. /\ q \in RequestRows /\ q.cmd \in PlatformCommands /\ q.day \in Nat
        /\ q.license \in Nat \cup {Unset}
        /\ LicenseStands(q, subscriptions, licenses)
        /\ \A e \in Requesters \ {c} : requests[e] # Unset => Apart(requests[e], q)
    BY <1>1, UnderWay DEF Stands
  <2>2. clock \in Nat BY CommittedTypes
  <2>3. requests' = [requests EXCEPT ![c] = r]
    <3>1. requests' = [requests EXCEPT ![c].step = "identified",
                                       ![c].day = IF q.cmd.kind = "issue" THEN clock ELSE @]
      BY <1>3 DEF LockOperation
    <3> QED BY <3>1, CommittedTypes
  <2>4. UNCHANGED <<clock, store, subscriptions, licenses, decisions>> BY <1>1 DEF Undecided
  <2>5. r \in RequestRows BY <2>1, <2>2 DEF RequestRows
  <2>6. /\ r.step = "identified" /\ r.cmd = q.cmd /\ r.license = q.license
    BY <2>1 DEF RequestRows
  <2> HIDE DEF r
  <2>7. Fresh(r.cmd, decisions)
    BY <1>1, <1>3, <2>1, <2>6, EarlierIsClash DEF PlatformIInv
  <2>8. Stands(r, store, subscriptions, licenses, decisions)
    BY <2>1, <2>6, <2>7 DEF Stands, HoldsStore, LicenseStands
  <2>9. ASSUME NEW e \in Requesters \ {c}, requests[e] # Unset
        PROVE  Apart(requests[e], r)
    <3>1. HoldsOperation(requests[e]) => LockKey(requests[e].cmd) # LockKey(r.cmd)
      BY <1>1, <2>6, <2>9 DEF OtherRequests, HasOperation, HoldsOperation
    <3> QED BY <2>6, <3>1 DEF Apart, HoldsStore
  <2> QED BY <2>2, <2>3, <2>4, <2>5, <2>8, <2>9, OneRequestChanges
<1> QED BY <1>2, <1>3
\* What is asked of the Store is allowed by its subscription that runs.
LEMMA AllowedStands ==
    ASSUME PlatformIInv, NEW r \in RequestRows, r.cmd.kind \in PlatformKinds \ {"provision"},
           Allows(r.cmd, r.day),
           r.subscription \in (IF Running = {} THEN {Unset} ELSE Running),
           r.subscription # Unset => r.version = subscriptions[r.subscription].version
    PROVE  /\ store # Unset
           /\ ReadsStand(r, subscriptions)
           /\ StillAllowed(r, store, subscriptions)
<1> DEFINE kind == r.cmd.kind
<1>1. /\ subscriptions \in Seq(SubscriptionRows) /\ SubscriptionsOK(subscriptions)
      /\ r.day \in Nat
  BY CommittedTypes DEF RequestRows
<1>2. Unset \notin DOMAIN subscriptions BY <1>1, UnsetAssumption
<1>3. Running \subseteq DOMAIN subscriptions
      /\ \A i \in Running : subscriptions[i].status = "active" /\ i = Len(subscriptions)
  BY <1>1 DEF Running, SubscriptionsOK
<1>4. ReadsStand(r, subscriptions)
  <2>1. CASE Running = {} BY <2>1 DEF ReadsStand, Running
  <2>2. CASE Running # {} BY <1>2, <1>3, <2>2 DEF ReadsStand
  <2> QED BY <2>1, <2>2
<1>5. r.subscription # Unset <=> Running # {} BY <1>2, <1>3
<1>6. /\ kind \in SubscriptionActions => store # Unset /\ SubscriptionAllows(kind, r.day)
      /\ kind \in StoreActions => store # Unset /\ StoreAllows(r.cmd)
      /\ kind \in {"write", "issue"} => store # Unset /\ Entitled(r.day)
      /\ kind = "revoke" => store # Unset
  BY DEF Allows, SubscriptionActions, StoreActions
<1>7. store # Unset BY <1>6 DEF PlatformKinds
<1>8. kind = "activate" => r.subscription = Unset
  BY <1>5, <1>6 DEF SubscriptionAllows, SubscriptionActions
<1>9. kind \in {"extend", "cancel"} => r.subscription # Unset
  BY <1>5, <1>6 DEF SubscriptionAllows, SubscriptionActions
<1>10. (kind = "reactivate" /\ r.subscription # Unset) =>
          subscriptions[r.subscription].ends <= r.day
  <2> SUFFICES ASSUME kind = "reactivate", r.subscription # Unset
               PROVE  subscriptions[r.subscription].ends <= r.day
    OBVIOUS
  <2>1. \E i \in Running : r.day >= subscriptions[i].ends
    BY <1>5, <1>6 DEF SubscriptionAllows, SubscriptionActions
  <2>2. PICK i \in Running : r.day >= subscriptions[i].ends BY <2>1
  <2>3. i = r.subscription BY <1>3
  <2>4. subscriptions[i].ends \in Nat BY <1>1, <1>3, SubscriptionFields
  <2> QED BY <1>1, <2>2, <2>3, <2>4
<1>11. /\ kind = "suspend" => store.status = "active"
       /\ kind = "restore" => store.status = "suspended"
  BY <1>6 DEF StoreAllows, StoreActions
<1>12. kind \in {"write", "issue"} => store.status = "active" /\ r.subscription # Unset
  BY <1>5, <1>6 DEF Entitled
<1> QED BY <1>4, <1>7, <1>8, <1>9, <1>10, <1>11, <1>12 DEF StillAllowed

LEMMA LockStoreRowKeeps ==
    ASSUME PlatformIInv, NEW c \in Requesters, LockStoreRow(c)
    PROVE  PlatformIInv'
<1> DEFINE q == requests[c]
<1>1. q # Unset /\ Undecided /\ StoreRowFree(c)
      /\ q.step = (IF q.cmd.kind = "write" THEN "begun" ELSE "identified")
  BY DEF LockStoreRow, AtStep
<1>2. CASE ~Allows(q.cmd, q.day) BY <1>1, <1>2, OverKeeps DEF LockStoreRow
<1>3. CASE Allows(q.cmd, q.day)
  <2>1. /\ q \in RequestRows /\ q.cmd \in PlatformCommands /\ q.cmd.kind \in PlatformKinds
        /\ q.license \in Nat \cup {Unset} /\ q.subscription \in Nat \cup {Unset}
        /\ Stands(q, store, subscriptions, licenses, decisions)
        /\ \A e \in Requesters \ {c} : requests[e] # Unset =>
             Apart(requests[e], q) /\ requests[e] \in RequestRows
    BY <1>1, UnderWay
  <2>2. /\ clock \in Nat /\ subscriptions \in Seq(SubscriptionRows)
        /\ requests \in [Requesters -> RequestRows \cup {Unset}]
    BY CommittedTypes
  <2>3. UNCHANGED <<clock, store, subscriptions, licenses, decisions>> BY <1>1 DEF Undecided
  <2> DEFINE found == IF Running = {} THEN {Unset} ELSE Running
  <2>4. PICK i \in found :
          requests' = [requests EXCEPT
            ![c].step = IF DecidesWithStore(q.cmd) THEN "decided" ELSE "locked",
            ![c].subscription = i,
            ![c].version = IF i = Unset THEN Unset ELSE subscriptions[i].version]
    BY <1>3 DEF LockStoreRow
  <2> DEFINE version == IF i = Unset THEN Unset ELSE subscriptions[i].version
             step == IF DecidesWithStore(q.cmd) THEN "decided" ELSE "locked"
             r == [q EXCEPT !.step = step, !.subscription = i, !.version = version]
  <2>5. requests' = [requests EXCEPT ![c] = r] BY <2>2, <2>4
  <2>6. found \subseteq DOMAIN subscriptions \cup {Unset} BY DEF Running
  <2>7. i \in Nat \cup {Unset} BY <2>2, <2>6
  <2>8. version \in Nat \cup {Unset} BY <2>2, <2>6, SubscriptionFields
  <2>9. step \in {"locked", "decided"} OBVIOUS
  <2>10. step = "decided" <=> q.cmd.kind \notin {"issue", "revoke"} BY DEF DecidesWithStore
  <2>11. i # Unset => version = subscriptions[i].version OBVIOUS
  <2> HIDE DEF version, step, found
  <2>12. r \in RequestRows BY <2>1, <2>7, <2>8, <2>9 DEF RequestRows
  <2>13. /\ r.step = step /\ r.cmd = q.cmd /\ r.license = q.license /\ r.day = q.day
         /\ r.subscription = i /\ r.version = version
    BY <2>1 DEF RequestRows
  <2> HIDE DEF r
  <2>14. q.cmd.kind # "provision" =>
           store # Unset /\ ReadsStand(r, subscriptions) /\ StillAllowed(r, store, subscriptions)
    BY <1>3, <2>1, <2>11, <2>12, <2>13, AllowedStands DEF found
  <2>15. q.cmd.kind = "provision" => store = Unset BY <1>3 DEF Allows, SubscriptionActions, StoreActions
  <2>16. HoldsOperation(r) => Fresh(r.cmd, decisions)
    BY <1>1, <2>1, <2>13 DEF Stands, HoldsOperation
  <2>17. LicenseStands(r, subscriptions, licenses)
    BY <2>1, <2>9, <2>10, <2>13 DEF Stands, LicenseStands
  <2>18. Stands(r, store, subscriptions, licenses, decisions)
    BY <2>13, <2>14, <2>15, <2>16, <2>17 DEF Stands, HoldsStore
  <2>19. ASSUME NEW e \in Requesters \ {c}, requests[e] # Unset
         PROVE  Apart(requests[e], r)
    <3>1. Apart(requests[e], q) BY <2>1, <2>19
    <3>2. (HoldsOperation(requests[e]) /\ HoldsOperation(r)) => LockKey(requests[e].cmd) # LockKey(r.cmd)
      BY <1>1, <2>13, <3>1 DEF Apart, HoldsOperation
    <3>3. HoldsStore(requests[e]) => ~Exclusive(requests[e].cmd) /\ ~Exclusive(q.cmd)
      BY <1>1, <2>19 DEF StoreRowFree, OtherRequests, HoldsStore, HasStore
    <3>4. (requests[e].step = "decided" /\ r.step = "decided" /\ requests[e].license = r.license) =>
            requests[e].cmd.kind # "revoke" /\ r.cmd.kind # "revoke"
      <4> SUFFICES ASSUME requests[e].step = "decided", r.step = "decided",
                          requests[e].license = r.license
                   PROVE  requests[e].cmd.kind # "revoke" /\ r.cmd.kind # "revoke"
        OBVIOUS
      <4>1. r.cmd.kind \notin {"issue", "revoke"} /\ r.license = Unset
        BY <2>10, <2>13, <2>17 DEF LicenseStands
      <4>2. LicenseStands(requests[e], subscriptions, licenses) BY <2>19, UnderWay DEF Stands
      <4>3. Unset \notin DOMAIN licenses
        BY CommittedTypes, UnsetAssumption
      <4> QED BY <4>1, <4>2, <4>3 DEF LicenseStands
    <3> QED BY <2>13, <3>2, <3>3, <3>4 DEF Apart
  <2> QED BY <2>2, <2>3, <2>5, <2>12, <2>18, <2>19, OneRequestChanges
<1> QED BY <1>2, <1>3
LEMMA FindLatestKeeps ==
    ASSUME PlatformIInv, NEW c \in Requesters, FindLatest(c)
    PROVE  PlatformIInv'
<1> DEFINE q == requests[c]
<1>1. q # Unset /\ q.step = "locked" /\ q.cmd.kind = "issue" BY DEF FindLatest, AtStep
<1>2. /\ q \in RequestRows /\ Stands(q, store, subscriptions, licenses, decisions)
      /\ \A e \in Requesters \ {c} : requests[e] # Unset => Apart(requests[e], q)
  BY <1>1, UnderWay
<1>3. /\ clock \in Nat /\ licenses \in Seq(LicenseRows)
      /\ requests \in [Requesters -> RequestRows \cup {Unset}]
  BY CommittedTypes
<1>4. UNCHANGED <<clock, store, subscriptions, licenses, decisions>> BY DEF FindLatest, Undecided
<1> DEFINE found == IF licenses = <<>> THEN {Unset} ELSE NewestLicenses
<1>5. PICK i \in found : requests' = [requests EXCEPT ![c].step = "latest", ![c].license = i]
  BY DEF FindLatest
<1>6. i \in DOMAIN licenses \/ i = Unset BY DEF NewestLicenses
<1>7. i \in Nat \cup {Unset} BY <1>3, <1>6
<1> DEFINE r == [q EXCEPT !.step = "latest", !.license = i]
<1>8. requests' = [requests EXCEPT ![c] = r] BY <1>3, <1>5
<1>9. r \in RequestRows BY <1>2, <1>7 DEF RequestRows
<1>10. /\ r.step = "latest" /\ r.cmd = q.cmd /\ r.day = q.day /\ r.license = i
       /\ r.subscription = q.subscription /\ r.version = q.version
  BY <1>2 DEF RequestRows
<1> HIDE DEF r, found
<1>11. Stands(r, store, subscriptions, licenses, decisions)
  BY <1>1, <1>2, <1>6, <1>10
     DEF Stands, HoldsOperation, HoldsStore, ReadsStand, StillAllowed, LicenseStands
<1>12. \A e \in Requesters \ {c} : requests[e] # Unset => Apart(requests[e], r)
  BY <1>1, <1>2, <1>10 DEF Apart, HoldsOperation, HoldsStore
<1> QED BY <1>3, <1>4, <1>8, <1>9, <1>11, <1>12, OneRequestChanges

\* The locks of a request on a license, and on what it already had.
LEMMA LicenseApart ==
    ASSUME PlatformIInv, NEW c \in Requesters, requests[c] # Unset, NEW r \in RequestRows,
           requests[c].step \in {"locked", "latest"}, requests[c].cmd.kind # "provision",
           r.cmd = requests[c].cmd, LicenseFree(c, r.license)
    PROVE  \A e \in Requesters \ {c} : requests[e] # Unset => Apart(requests[e], r)
<1> SUFFICES ASSUME NEW e \in Requesters \ {c}, requests[e] # Unset
             PROVE  Apart(requests[e], r)
  OBVIOUS
<1>1. Apart(requests[e], requests[c]) BY UnderWay
<1>2. (requests[e].step = "decided" /\ requests[e].license = r.license) =>
        requests[e].cmd.kind # "revoke" /\ r.cmd.kind # "revoke"
  BY DEF LicenseFree, OtherRequests
<1> QED BY <1>1, <1>2 DEF Apart, HoldsOperation, HoldsStore

LEMMA ShareLatestKeeps ==
    ASSUME PlatformIInv, NEW c \in Requesters, ShareLatest(c)
    PROVE  PlatformIInv'
<1> DEFINE q == requests[c]
           Refused == \/ q.license # Unset /\ licenses[q.license].revoked
                      \/ ~Covers(q.subscription, clock)
<1>1. q # Unset /\ q.step = "latest" /\ LicenseFree(c, q.license) /\ Undecided
  BY DEF ShareLatest, AtStep
<1>2. CASE Refused BY <1>1, <1>2, OverKeeps DEF ShareLatest
<1>3. CASE ~Refused
  <2>1. /\ q \in RequestRows /\ Stands(q, store, subscriptions, licenses, decisions)
    BY <1>1, UnderWay
  <2>2. clock \in Nat /\ requests \in [Requesters -> RequestRows \cup {Unset}]
    BY CommittedTypes
  <2>3. UNCHANGED <<clock, store, subscriptions, licenses, decisions>> BY <1>1 DEF Undecided
  <2> DEFINE r == [q EXCEPT !.step = "decided", !.day = clock]
  <2>4. requests' = [requests EXCEPT ![c] = r]
    <3>1. requests' = [requests EXCEPT ![c].step = "decided", ![c].day = clock]
      BY <1>3 DEF ShareLatest
    <3> QED BY <2>2, <3>1
  <2>5. r \in RequestRows BY <2>1, <2>2 DEF RequestRows
  <2>6. /\ r.step = "decided" /\ r.cmd = q.cmd /\ r.day = clock /\ r.license = q.license
        /\ r.subscription = q.subscription /\ r.version = q.version
    BY <2>1 DEF RequestRows
  <2> HIDE DEF r
  <2>7. q.cmd.kind = "issue" BY <1>1, <2>1 DEF Stands, LicenseStands
  <2>8. r.license # Unset => ~licenses[r.license].revoked BY <1>3, <2>6
  <2>9. r.day < subscriptions[r.subscription].ends BY <1>3, <2>6 DEF Covers
  <2>10. Stands(r, store, subscriptions, licenses, decisions)
    BY <1>1, <2>1, <2>6, <2>7, <2>8, <2>9
       DEF Stands, HoldsOperation, HoldsStore, ReadsStand, StillAllowed, LicenseStands
  <2>11. \A e \in Requesters \ {c} : requests[e] # Unset => Apart(requests[e], r)
    BY <1>1, <2>5, <2>6, <2>7, LicenseApart
  <2> QED BY <2>2, <2>3, <2>4, <2>5, <2>10, <2>11, OneRequestChanges
<1> QED BY <1>2, <1>3

LEMMA LockLicenseKeeps ==
    ASSUME PlatformIInv, NEW c \in Requesters, LockLicense(c)
    PROVE  PlatformIInv'
<1> DEFINE q == requests[c]
           license == q.cmd.license
           Refused == license \notin DOMAIN licenses \/ licenses[license].revoked
<1>1. q # Unset /\ q.step = "locked" /\ q.cmd.kind = "revoke" /\ LicenseFree(c, license) /\ Undecided
  BY DEF LockLicense, AtStep
<1>2. CASE Refused BY <1>1, <1>2, OverKeeps DEF LockLicense
<1>3. CASE ~Refused
  <2>1. /\ q \in RequestRows /\ Stands(q, store, subscriptions, licenses, decisions)
    BY <1>1, UnderWay
  <2>2. /\ clock \in Nat /\ licenses \in Seq(LicenseRows)
        /\ requests \in [Requesters -> RequestRows \cup {Unset}]
    BY CommittedTypes
  <2>3. UNCHANGED <<clock, store, subscriptions, licenses, decisions>> BY <1>1 DEF Undecided
  <2>4. license \in DOMAIN licenses /\ license \in Nat BY <1>3, <2>2
  <2> DEFINE r == [q EXCEPT !.step = "decided", !.license = license]
  <2>5. requests' = [requests EXCEPT ![c] = r]
    <3>1. requests' = [requests EXCEPT ![c].step = "decided", ![c].license = license]
      BY <1>3 DEF LockLicense
    <3> QED BY <2>2, <3>1
  <2>6. r \in RequestRows BY <2>1, <2>4 DEF RequestRows
  <2>7. /\ r.step = "decided" /\ r.cmd = q.cmd /\ r.day = q.day /\ r.license = license
        /\ r.subscription = q.subscription /\ r.version = q.version
    BY <2>1 DEF RequestRows
  <2> HIDE DEF r
  <2>8. Stands(r, store, subscriptions, licenses, decisions)
    BY <1>1, <2>1, <2>4, <2>7
       DEF Stands, HoldsOperation, HoldsStore, ReadsStand, StillAllowed, LicenseStands
  <2>9. \A e \in Requesters \ {c} : requests[e] # Unset => Apart(requests[e], r)
    BY <1>1, <2>6, <2>7, LicenseApart
  <2> QED BY <2>2, <2>3, <2>5, <2>6, <2>8, <2>9, OneRequestChanges
<1> QED BY <1>2, <1>3

LEMMA MidnightKeeps ==
    ASSUME PlatformIInv, Midnight
    PROVE  PlatformIInv'
<1>1. clock' \in Nat BY CommittedTypes DEF Midnight
<1>2. UNCHANGED <<store, subscriptions, licenses, decisions, requests>> BY DEF Midnight
<1> QED BY <1>1, <1>2 DEF PlatformIInv, PlatformTypeOK, RequestsStand, RequestsApart

-----------------------------------------------------------------------------
LEMMA PlatformBegins ==
    ASSUME PlatformInit
    PROVE  PlatformIInv
<1>1. /\ clock = 0 /\ store = Unset /\ subscriptions = <<>> /\ licenses = <<>>
      /\ decisions = <<>> /\ requests = [c \in Requesters |-> Unset]
  BY DEF PlatformInit
<1>2. PlatformTypeOK BY <1>1 DEF PlatformTypeOK
<1>3. Committed(store, subscriptions, licenses, decisions)
  BY <1>1 DEF Committed, SubscriptionsOK, HistoryOK, ActionsOK, OnceOK, LicensesOK
<1>4. RequestsStand /\ RequestsApart BY <1>1 DEF RequestsStand, RequestsApart
<1> QED BY <1>2, <1>3, <1>4 DEF PlatformIInv

LEMMA PlatformStepKeeps ==
    ASSUME PlatformIInv, [PlatformNext(PlatformCommands)]_platformVars
    PROVE  PlatformIInv'
<1>1. CASE UNCHANGED platformVars
  BY <1>1 DEF platformVars, PlatformIInv, PlatformTypeOK, RequestsStand, RequestsApart
<1>2. CASE Midnight BY <1>2, MidnightKeeps
<1>3. ASSUME NEW c \in Requesters, NEW cmd \in PlatformCommands, Begin(c, cmd)
      PROVE  PlatformIInv'
  BY <1>3, BeginKeeps
<1>4. ASSUME NEW c \in Requesters, LockOperation(c) PROVE PlatformIInv'
  BY <1>4, LockOperationKeeps
<1>5. ASSUME NEW c \in Requesters, LockStoreRow(c) PROVE PlatformIInv'
  BY <1>5, LockStoreRowKeeps
<1>6. ASSUME NEW c \in Requesters, FindLatest(c) PROVE PlatformIInv'
  BY <1>6, FindLatestKeeps
<1>7. ASSUME NEW c \in Requesters, ShareLatest(c) PROVE PlatformIInv'
  BY <1>7, ShareLatestKeeps
<1>8. ASSUME NEW c \in Requesters, LockLicense(c) PROVE PlatformIInv'
  BY <1>8, LockLicenseKeeps
<1>9. ASSUME NEW c \in Requesters, CommitRequest(c) PROVE PlatformIInv'
  BY <1>9, CommitKeeps
<1>10. ASSUME NEW c \in Requesters, AbortRequest(c) PROVE PlatformIInv'
  BY <1>10, OverKeeps DEF AbortRequest
<1> QED BY <1>1, <1>2, <1>3, <1>4, <1>5, <1>6, <1>7, <1>8, <1>9, <1>10 DEF PlatformNext

\* In every reachable state the committed rows are sound, and what each request has read still
\* stands, whatever the requests under way have committed since.
THEOREM PlatformInvariance == PlatformSpec => []PlatformIInv
<1>1. PlatformInit => PlatformIInv BY PlatformBegins
<1>2. PlatformIInv /\ [PlatformNext(PlatformCommands)]_platformVars => PlatformIInv'
  BY PlatformStepKeeps
<1> QED BY <1>1, <1>2, PTL DEF PlatformSpec
LEMMA CommittedIsSound ==
    ASSUME PlatformIInv
    PROVE  /\ OneSubscription /\ HistoryInOrder /\ StoreActionsAlternate
           /\ DecidedOnce /\ LicensesSound
<1>1. /\ SubscriptionsOK(subscriptions) /\ HistoryOK(subscriptions, decisions)
      /\ ActionsOK(store, decisions) /\ OnceOK(decisions)
      /\ LicensesOK(subscriptions, licenses, decisions)
  BY DEF PlatformIInv, Committed
<1>2. /\ subscriptions \in Seq(SubscriptionRows) /\ licenses \in Seq(LicenseRows)
      /\ decisions \in Seq(DecisionRows)
  BY CommittedTypes
<1>3. OneSubscription
  <2>1. Len(subscriptions) \in Nat /\ DOMAIN subscriptions = 1..Len(subscriptions) BY <1>2
  <2> QED BY <1>1, <2>1 DEF OneSubscription, SubscriptionsOK
<1>4. HistoryInOrder BY <1>1 DEF HistoryInOrder, HistoryOK
<1>5. StoreActionsAlternate
  <2> SUFFICES ASSUME NEW i \in DOMAIN decisions, decisions[i].kind \in StoreActions
               PROVE  LET before == {j \in 1..(i - 1) : decisions[j].kind \in StoreActions} IN
                      /\ decisions[i].version \notin {decisions[j].version : j \in before}
                      /\ \E v \in {decisions[i].version - 1} :
                           IF v = 1 THEN decisions[i].kind = "suspend"
                           ELSE \E j \in before : /\ decisions[j].version = v
                                                  /\ decisions[j].kind # decisions[i].kind
    BY DEF StoreActionsAlternate
  <2>1. Alternates(decisions, i) BY <1>1 DEF ActionsOK
  <2> QED BY <2>1 DEF Alternates
<1>6. DecidedOnce BY <1>1 DEF DecidedOnce, OnceOK, Clash
<1>7. LicensesSound
  <2> SUFFICES ASSUME NEW i \in DOMAIN decisions, decisions[i].kind = "issue"
               PROVE  LET l == licenses[decisions[i].row] IN
                      /\ l.issued < l.ends /\ l.ends <= subscriptions[l.subscription].ends
                      /\ ~\E j \in 1..(i - 1) : decisions[j].kind = "revoke" /\ decisions[j].row = l.prior
    BY DEF LicensesSound
  <2>1. /\ decisions[i].row \in DOMAIN licenses
        /\ \A j \in 1..(i - 1) : decisions[j].kind = "revoke" =>
             decisions[j].row # licenses[decisions[i].row].prior
    BY <1>1 DEF LicensesOK
  <2> QED BY <1>1, <2>1 DEF LicensesOK
<1> QED BY <1>3, <1>4, <1>5, <1>6, <1>7

LEMMA WhatIsReadStands ==
    ASSUME PlatformIInv
    PROVE  EntitlementStands
<1> SUFFICES ASSUME NEW c \in Requesters, AtStep(c, "decided"),
                    requests[c].cmd.kind \in {"write", "issue"}
             PROVE  /\ store.status = "active"
                    /\ subscriptions[requests[c].subscription].status = "active"
                    /\ subscriptions[requests[c].subscription].version = requests[c].version
  BY DEF EntitlementStands
<1>1. Stands(requests[c], store, subscriptions, licenses, decisions)
  BY UnderWay DEF AtStep
<1> QED BY <1>1 DEF AtStep, Stands, HoldsStore, StillAllowed, ReadsStand

\* Subscriptions follow one another, histories and the suspensions of the Store tell every
\* version once and in order, an identifier decides once, and what a business write or a license
\* relies on still stands when it is committed: with any number of requests under way.
THEOREM PlatformDecidesSoundly == PlatformSpec => []PlatformSound
<1>1. PlatformIInv => PlatformSound BY CommittedIsSound, WhatIsReadStands DEF PlatformSound
<1> QED BY <1>1, PlatformInvariance, PTL

-----------------------------------------------------------------------------
(* The claims of operation identifiers.                                      *)

CallRow ==
    [pc : {"idle", "gate", "read", "claim", "work"}, request : Requests \cup {Absent},
     wasSettled : BOOLEAN]

\* The words "other" exist for one aggregate, which only one writer claims.
LEMMA OneWriterOfCorrections ==
    ASSUME NEW r \in Requests, NEW q \in Requests,
           Identity(r) = Identity(q), q.writer = FinancialCorrections
    PROVE  r.writer = FinancialCorrections
<1>1. r.aggregate = q.aggregate BY DEF Identity
<1>2. q.aggregate = "customer_financial_corrections"
  BY RequestsAssumption DEF FinancialCorrections, Writer
<1>3. "customer_financial_corrections" \in r.writer.aggregates
  BY <1>1, <1>2, RequestsAssumption
<1>4. PICK n \in DOMAIN AllWriters : r.writer = AllWriters[n] BY RequestsAssumption
<1> DEFINE w == r.writer
<1>5. n \in 1..29 BY <1>4 DEF AllWriters
<1>6. n # 16 => "customer_financial_corrections" \notin AllWriters[n].aggregates
  <2>1. CASE n \in 1..10
    BY <2>1 DEF AllWriters, Writer, CustomerWrites, SupplierWrites, ProductWrites, CategoryWrites,
       SettingsWrites, MoneyAccountWrites, PeriodWrites, MovementPostings, AccountingCorrections,
       OwnerPostings
  <2>2. CASE n \in 11..20
    BY <2>2 DEF AllWriters, Writer, TransferPostings, SalePostings, SaleCorrections,
       CollectionPostings, CreditPostings, FinancialCorrections, SaleReturnPostings,
       SaleReturnCorrections, InvoicePostings, InvoiceCorrections
  <2>3. CASE n \in 21..29
    BY <2>3 DEF AllWriters, Writer, SupplierReturnWrites, SupplierPaymentPostings,
       SupplierPaymentCorrections, ExpenseRecognitions, ExpensePayments, ExpenseCorrections,
       StockPostings, StockCounts, StockCorrections
  <2> QED BY <1>5, <2>1, <2>2, <2>3
<1>7. n = 16 BY <1>3, <1>4, <1>6
<1> QED BY <1>4, <1>7 DEF AllWriters

-----------------------------------------------------------------------------
\* A step that answers nothing and writes nothing keeps what is about answers.
LEMMA SilentKeeps ==
    ASSUME ClaimIInv, Silent, UNCHANGED <<claims, reports, effects>>
    PROVE  FirstIsRow' /\ ClaimsSound'
<1>1. FirstIsRow' BY DEF ClaimIInv, FirstIsRow, Silent
<1>2. EffectOnce' BY DEF ClaimIInv, ClaimsSound, EffectOnce
<1>3. Answers' = {} BY DEF Answers, Silent
<1> QED BY <1>1, <1>2, <1>3 DEF ClaimsSound, AnswersAgree, ConflictsReported, ReplayOutlivesAuthority

\* What a transaction that goes on has to be for the others to be left alone.
MayBe(c, t) ==
    /\ t \in CallRow
    /\ t.pc # "idle" => t.request \in Requests
    /\ t.pc = "work" =>
         /\ claims[t.request.op] = Absent
         /\ \A d \in Callers \ {c} : At(d, "work") => Request(d).op # t.request.op
    /\ (t.pc # "idle" /\ t.wasSettled) =>
         /\ claims[t.request.op] # Absent
         /\ t.pc = "gate" => t.request.writer.gate = "transaction"

\* Replacing one transaction by such a one keeps what is about transactions.
LEMMA CallChanges ==
    ASSUME ClaimIInv, NEW c \in Callers, NEW t, MayBe(c, t),
           calls' = [calls EXCEPT ![c] = t], UNCHANGED claims
    PROVE  /\ calls' \in [Callers -> CallRow]
           /\ \A d \in Callers : ~(calls'[d].pc = "idle") => calls'[d].request \in Requests
           /\ WorksAlone' /\ SettledStays'
<1>1. calls \in [Callers -> CallRow] BY DEF ClaimIInv, ClaimTypeOK, CallRow
<1>2. calls'[c] = t /\ \A d \in Callers \ {c} : calls'[d] = calls[d] BY <1>1
<1>3. calls' \in [Callers -> CallRow] BY <1>1 DEF MayBe
<1>4. \A d \in Callers : ~(calls'[d].pc = "idle") => calls'[d].request \in Requests
  BY <1>2 DEF MayBe, ClaimIInv, ClaimTypeOK, At, Request
<1>5. WorksAlone' BY <1>2 DEF MayBe, ClaimIInv, WorksAlone, At, Request
<1>6. SettledStays' BY <1>2 DEF MayBe, ClaimIInv, SettledStays, At, Request
<1> QED BY <1>3, <1>4, <1>5, <1>6

\* The silent steps of a transaction.
LEMMA GoesOn ==
    ASSUME ClaimIInv, NEW c \in Callers, NEW t, MayBe(c, t), Silent,
           calls' = [calls EXCEPT ![c] = t], UNCHANGED <<claims, reports, effects, writable>>
    PROVE  ClaimIInv'
<1>1. FirstIsRow' /\ ClaimsSound' BY SilentKeeps
<1>2. /\ calls' \in [Callers -> CallRow]
      /\ \A d \in Callers : ~(calls'[d].pc = "idle") => calls'[d].request \in Requests
      /\ WorksAlone' /\ SettledStays'
  BY CallChanges
<1>3. ClaimTypeOK' BY <1>2 DEF ClaimIInv, ClaimTypeOK, CallRow, Silent, At, Request
<1> QED BY <1>1, <1>2, <1>3 DEF ClaimIInv

LEMMA GoesTo ==
    ASSUME ClaimIInv, NEW c \in Callers, ~At(c, "idle"), NEW pc \in {"read", "claim", "work"},
           GoTo(c, pc), Silent, UNCHANGED <<claims, reports, effects, writable>>,
           pc = "work" => claims[Request(c).op] = Absent /\ IdentifierFree(c)
    PROVE  ClaimIInv'
<1> DEFINE t == [calls[c] EXCEPT !.pc = pc]
<1>1. calls[c] \in CallRow BY DEF ClaimIInv, ClaimTypeOK, CallRow
<1>2. t \in CallRow /\ t.pc = pc /\ t.request = Request(c) /\ t.wasSettled = calls[c].wasSettled
  BY <1>1 DEF CallRow, Request
<1>3. Request(c) \in Requests BY DEF ClaimIInv, ClaimTypeOK
<1>4. calls' = [calls EXCEPT ![c] = t] BY DEF GoTo
<1>5. MayBe(c, t)
  BY <1>2, <1>3 DEF MayBe, ClaimIInv, SettledStays, IdentifierFree
<1> QED BY <1>4, <1>5, GoesOn

\* A transaction that ends leaves nothing behind but its commit.
LEMMA EndsAsIdle ==
    ASSUME ClaimIInv, NEW c \in Callers
    PROVE  MayBe(c, IdleCall)
BY DEF MayBe, IdleCall, CallRow

-----------------------------------------------------------------------------
\* The answer of a transaction, as the record it is.
Told(c, status, words) ==
    [request |-> Request(c), status |-> status, words |-> words, wasSettled |-> calls[c].wasSettled]

\* An answer that does not come with the row of its identifier.
LEMMA AnswerKeeps ==
    ASSUME ClaimIInv, NEW c \in Callers, ~At(c, "idle"),
           NEW status \in {"applied", "rejected", "refused", "conflict", "not_allowed"},
           NEW words \in Wordings, Answer(c, status, words),
           UNCHANGED <<claims, effects, writable>>,
           reports \subseteq reports', reports' \subseteq ClaimedOps,
           status \in {"applied", "rejected"} =>
             LET f == first[Request(c).op] IN
             /\ claims[Request(c).op] # Absent
             /\ Identity(f.request) = Identity(Request(c))
             /\ f.status = status
             /\ Request(c).writer # FinancialCorrections => f.words = words,
           (status = "conflict" /\ Request(c).writer.outcome.keeps) => Request(c).op \in reports',
           (calls[c].wasSettled /\ Request(c).writer.gate = "claim") => status # "not_allowed"
    PROVE  ClaimIInv'
<1> DEFINE h == Told(c, status, words)
           o == Request(c).op
<1>1. Request(c) \in Requests /\ o \in ClaimedOps
  BY RequestsAssumption DEF ClaimIInv, ClaimTypeOK
<1>2. calls[c] \in CallRow BY DEF ClaimIInv, ClaimTypeOK, CallRow
<1>3. h \in Heard BY <1>1, <1>2 DEF Told, Heard, CallRow
<1>4. h.request = Request(c) /\ h.status = status /\ h.words = words
      /\ h.wasSettled = calls[c].wasSettled
  BY DEF Told
<1>5. heard' = h BY DEF Answer, Told
<1>6. UNCHANGED first
  <2>1. CASE status \in {"applied", "rejected"}
    <3>1. first[o] # Absent BY <2>1, <1>1 DEF ClaimIInv, FirstIsRow
    <3> QED BY <3>1 DEF Answer
  <2>2. CASE status \notin {"applied", "rejected"}
    BY <2>2 DEF Answer, IsOutcome
  <2> QED BY <2>1, <2>2
<1>7. calls' = [calls EXCEPT ![c] = IdleCall] BY DEF Answer
<1>8. /\ calls' \in [Callers -> CallRow]
      /\ \A d \in Callers : ~(calls'[d].pc = "idle") => calls'[d].request \in Requests
      /\ WorksAlone' /\ SettledStays'
  BY <1>7, CallChanges, EndsAsIdle
<1>9. ClaimTypeOK'
  BY <1>3, <1>5, <1>6, <1>8 DEF ClaimIInv, ClaimTypeOK, CallRow, At, Request
<1>10. FirstIsRow' BY <1>6 DEF ClaimIInv, FirstIsRow
<1>11. EffectOnce' BY DEF ClaimIInv, ClaimsSound, EffectOnce
<1> HIDE DEF h
<1>12. Answers' \subseteq {h} BY <1>5 DEF Answers
<1>13. AnswersAgree' BY <1>12, <1>4, <1>6 DEF AnswersAgree, IsOutcome
<1>14. ConflictsReported' BY <1>12, <1>4 DEF ConflictsReported
<1>15. ReplayOutlivesAuthority' BY <1>12, <1>4 DEF ReplayOutlivesAuthority
<1> QED BY <1>8, <1>9, <1>10, <1>11, <1>13, <1>14, <1>15 DEF ClaimIInv, ClaimsSound

\* The answer read from the row of the identifier.
LEMMA ResolveKeeps ==
    ASSUME ClaimIInv, NEW c \in Callers, ~At(c, "idle"), claims[Request(c).op] # Absent,
           ResolvePrior(c)
    PROVE  ClaimIInv'
<1> DEFINE o == Request(c).op
           row == claims[o]
           f == first[o]
<1>1. Request(c) \in Requests /\ o \in ClaimedOps
  BY RequestsAssumption DEF ClaimIInv, ClaimTypeOK
<1>2. f # Absent /\ f \in Heard /\ row \in Rows
  BY <1>1 DEF ClaimIInv, ClaimTypeOK, FirstIsRow
<1>3. /\ row.identity = Identity(f.request) /\ row.status = f.status /\ row.words = f.words
      /\ f.words = "other" => f.request.writer = FinancialCorrections
      /\ f.status = "applied" => f.words = "usual"
  <2>1. /\ row = [identity |-> Identity(f.request), status |-> f.status, words |-> f.words]
        /\ f.words = "other" => f.request.writer = FinancialCorrections
        /\ f.status = "applied" => f.words = "usual"
    BY <1>1, <1>2, Zenon DEF ClaimIInv, FirstIsRow
  <2> HIDE DEF row, f
  <2> QED BY <2>1
<1>4. f.request \in Requests /\ f.status \in {"applied", "rejected"} /\ f.words \in Wordings
  BY <1>2, <1>3 DEF Heard, Rows
<1> HIDE DEF row, f
<1>5. reports \subseteq ClaimedOps BY DEF ClaimIInv, ClaimTypeOK
<1>6. CASE row.identity # Identity(Request(c))
  <2>1. /\ reports' = IF Request(c).writer.outcome.keeps THEN reports \cup {o} ELSE reports
        /\ Answer(c, "conflict", "usual")
        /\ UNCHANGED <<claims, effects, writable>>
    BY <1>6 DEF ResolvePrior, row
  <2> QED BY <2>1, <1>1, <1>5, AnswerKeeps DEF Wordings
<1>7. CASE row.identity = Identity(Request(c))
  <2> DEFINE words == IF row.status = "applied" THEN row.words ELSE Replayed(Request(c), row)
  <2>1. Answer(c, row.status, words) /\ UNCHANGED <<claims, reports, effects, writable>>
    BY <1>7 DEF ResolvePrior, row
  <2>2. words \in Wordings BY <1>3, <1>4 DEF Replayed, Wordings
  <2>3. Request(c).writer # FinancialCorrections => f.words = words
    <3>1. SUFFICES ASSUME Request(c).writer # FinancialCorrections PROVE f.words = words
      OBVIOUS
    <3>2. f.request.writer # FinancialCorrections
      BY <1>1, <1>3, <1>4, <1>7, <3>1, OneWriterOfCorrections
    <3>3. f.words = "usual" BY <1>3, <1>4, <3>2 DEF Wordings
    <3> QED BY <1>3, <3>3 DEF Replayed
  <2> HIDE DEF words
  <2> QED BY <2>1, <2>2, <2>3, <1>1, <1>3, <1>4, <1>5, <1>7, AnswerKeeps DEF f
<1> QED BY <1>6, <1>7

-----------------------------------------------------------------------------
LEMMA ArriveKeeps ==
    ASSUME ClaimIInv, NEW c \in Callers, NEW r \in Requests, Arrive(c, r)
    PROVE  ClaimIInv'
<1> DEFINE t == [pc |-> IF r.writer.gate = "transaction" THEN "gate" ELSE "read",
                 request |-> r, wasSettled |-> claims[r.op] # Absent]
<1>1. r.writer.gate = "transaction" => t = [pc |-> "gate", request |-> r, wasSettled |-> claims[r.op] # Absent]
  OBVIOUS
<1>2. (claims[r.op] # Absent) \in BOOLEAN OBVIOUS
<1>3. t \in CallRow BY <1>2, Zenon DEF CallRow
<1>4. /\ t.pc = (IF r.writer.gate = "transaction" THEN "gate" ELSE "read") /\ t.request = r
      /\ t.wasSettled <=> claims[r.op] # Absent
  BY Zenon
<1>5. calls' = [calls EXCEPT ![c] = t] /\ Silent /\ UNCHANGED <<claims, reports, effects, writable>>
  BY DEF Arrive
<1> HIDE DEF t
<1>6. MayBe(c, t) BY <1>3, <1>4 DEF MayBe
<1> QED BY <1>5, <1>6, GoesOn

LEMMA PassGateKeeps ==
    ASSUME ClaimIInv, NEW c \in Callers, PassGate(c)
    PROVE  ClaimIInv'
<1>1. At(c, "gate") /\ ~At(c, "idle") BY DEF PassGate, At
<1>2. UNCHANGED <<claims, reports, effects, writable>> BY DEF PassGate
<1>3. CASE writable
  <2>1. PICK pc \in {"read", "claim"} : GoTo(c, pc) /\ Silent BY <1>3 DEF PassGate
  <2> QED BY <1>1, <1>2, <2>1, GoesTo
<1>4. CASE ~writable
  <2>1. Answer(c, "not_allowed", "usual") BY <1>4 DEF PassGate
  <2>2. ~(calls[c].wasSettled /\ Request(c).writer.gate = "claim")
    BY <1>1 DEF ClaimIInv, SettledStays
  <2>3. reports \subseteq ClaimedOps BY DEF ClaimIInv, ClaimTypeOK
  <2> QED BY <1>1, <1>2, <2>1, <2>2, <2>3, AnswerKeeps DEF Wordings
<1> QED BY <1>3, <1>4

\* Who read that there is no row goes on to ask, or to claim.
LEMMA ReadPriorKeeps ==
    ASSUME ClaimIInv, NEW c \in Callers, ReadPrior(c)
    PROVE  ClaimIInv'
<1>1. ~At(c, "idle") BY DEF ReadPrior, At
<1>2. CASE claims[Request(c).op] # Absent BY <1>1, <1>2, ResolveKeeps DEF ReadPrior
<1>3. CASE claims[Request(c).op] = Absent
  <2>1. PICK pc \in {"claim", "gate"} : GoTo(c, pc) BY <1>3 DEF ReadPrior
  <2>2. Silent /\ UNCHANGED <<claims, reports, effects, writable>> BY <1>3 DEF ReadPrior
  <2> DEFINE t == [calls[c] EXCEPT !.pc = pc]
  <2>3. calls[c] \in CallRow BY DEF ClaimIInv, ClaimTypeOK, CallRow
  <2>4. t \in CallRow /\ t.pc = pc /\ t.request = Request(c) /\ t.wasSettled = calls[c].wasSettled
    BY <2>3 DEF CallRow, Request
  <2>5. Request(c) \in Requests BY <1>1 DEF ClaimIInv, ClaimTypeOK
  <2>6. calls' = [calls EXCEPT ![c] = t] BY <2>1 DEF GoTo
  <2>7. ~calls[c].wasSettled BY <1>1, <1>3 DEF ClaimIInv, SettledStays
  <2> HIDE DEF t
  <2>8. MayBe(c, t) BY <2>1, <2>4, <2>5, <2>7 DEF MayBe
  <2> QED BY <2>2, <2>6, <2>8, GoesOn
<1> QED BY <1>2, <1>3

LEMMA ClaimOperationKeeps ==
    ASSUME ClaimIInv, NEW c \in Callers, ClaimOperation(c)
    PROVE  ClaimIInv'
<1>1. ~At(c, "idle") /\ IdentifierFree(c) BY DEF ClaimOperation, At
<1>2. CASE claims[Request(c).op] # Absent BY <1>1, <1>2, ResolveKeeps DEF ClaimOperation
<1>3. CASE claims[Request(c).op] = Absent BY <1>1, <1>3, GoesTo DEF ClaimOperation
<1> QED BY <1>2, <1>3

\* The row of an identifier, and the first answer told of it.
LEMMA CompleteKeeps ==
    ASSUME ClaimIInv, NEW c \in Callers, At(c, "work"),
           NEW status \in {"applied", "rejected"}, NEW words \in Words(Request(c)),
           status = "applied" => words = "usual",
           Complete(c, status, words), UNCHANGED <<reports, writable>>,
           effects' = IF status = "applied"
                      THEN [effects EXCEPT ![Request(c).op] = @ + 1] ELSE effects
    PROVE  ClaimIInv'
<1> DEFINE h == Told(c, status, words)
           o == Request(c).op
           row == [identity |-> Identity(Request(c)), status |-> status, words |-> words]
<1>1. Request(c) \in Requests /\ o \in ClaimedOps
  BY RequestsAssumption DEF ClaimIInv, ClaimTypeOK, At
<1>2. calls[c] \in CallRow BY DEF ClaimIInv, ClaimTypeOK, CallRow
<1>3. words \in Wordings /\ (words = "other" => Request(c).writer = FinancialCorrections)
  BY DEF Words, Wordings
<1>4. h \in Heard /\ row \in Rows BY <1>1, <1>2, <1>3 DEF Told, Heard, CallRow, Rows
<1>5. h.request = Request(c) /\ h.status = status /\ h.words = words
      /\ h.wasSettled = calls[c].wasSettled
      /\ row = [identity |-> Identity(h.request), status |-> h.status, words |-> h.words]
      /\ row.status = status
  BY DEF Told
<1>6. h # Absent /\ row # Absent BY <1>4, AbsentAssumption
<1>7. claims[o] = Absent /\ first[o] = Absent /\ effects[o] = 0
  BY <1>1 DEF ClaimIInv, WorksAlone, FirstIsRow, ClaimsSound, EffectOnce
<1>8. heard' = h /\ calls' = [calls EXCEPT ![c] = IdleCall] BY DEF Complete, Answer, Told
<1>9. IsOutcome(h) BY <1>5 DEF IsOutcome
<1>10. first' = [first EXCEPT ![o] = h] BY <1>7, <1>9 DEF Complete, Answer, Told
<1>11. claims' = [claims EXCEPT ![o] = row] BY DEF Complete
<1>12. /\ claims \in [ClaimedOps -> Rows \cup {Absent}] /\ first \in [ClaimedOps -> Heard \cup {Absent}]
       /\ effects \in [ClaimedOps -> Nat] /\ calls \in [Callers -> CallRow]
       /\ \A d \in Callers : ~At(d, "idle") => Request(d) \in Requests
  BY DEF ClaimIInv, ClaimTypeOK, CallRow
<1> HIDE DEF h, row
<1>13. /\ claims' \in [ClaimedOps -> Rows \cup {Absent}] /\ first' \in [ClaimedOps -> Heard \cup {Absent}]
       /\ effects' \in [ClaimedOps -> Nat]
  <2>1. claims' \in [ClaimedOps -> Rows \cup {Absent}] BY <1>4, <1>11, <1>12
  <2>2. first' \in [ClaimedOps -> Heard \cup {Absent}] BY <1>4, <1>10, <1>12
  <2>3. effects' \in [ClaimedOps -> Nat] BY <1>1, <1>12
  <2> QED BY <2>1, <2>2, <2>3
<1>14. claims'[o] = row /\ first'[o] = h
       /\ \A p \in ClaimedOps \ {o} :
            claims'[p] = claims[p] /\ first'[p] = first[p] /\ effects'[p] = effects[p]
  BY <1>1, <1>10, <1>11, <1>12
<1>15. effects'[o] = IF status = "applied" THEN 1 ELSE 0 BY <1>1, <1>7, <1>12
<1>16. calls'[c] = IdleCall /\ \A d \in Callers \ {c} : calls'[d] = calls[d] BY <1>8, <1>12
<1>17. calls' \in [Callers -> CallRow] BY <1>8, <1>12 DEF IdleCall, CallRow
<1>18. IdleCall.pc = "idle" BY DEF IdleCall
<1>19. ClaimTypeOK'
  <2>1. \A d \in Callers : ~(calls'[d].pc = "idle") => calls'[d].request \in Requests
    BY <1>12, <1>16, <1>18 DEF At, Request
  <2> QED BY <1>4, <1>8, <1>13, <1>17, <2>1 DEF ClaimIInv, ClaimTypeOK, CallRow, At, Request
<1>20. FirstIsRow'
  <2>1. ASSUME NEW p \in ClaimedOps, p # o
        PROVE  /\ first'[p] = Absent <=> claims'[p] = Absent
               /\ first'[p] # Absent =>
                    /\ first'[p].request.op = p
                    /\ claims'[p] = [identity |-> Identity(first'[p].request),
                                     status |-> first'[p].status, words |-> first'[p].words]
                    /\ first'[p].words = "other" => first'[p].request.writer = FinancialCorrections
                    /\ first'[p].status = "applied" => first'[p].words = "usual"
    BY <2>1, <1>14 DEF ClaimIInv, FirstIsRow
  <2>2. /\ first'[o] # Absent /\ claims'[o] # Absent /\ first'[o].request.op = o
        /\ first'[o].words = "other" => first'[o].request.writer = FinancialCorrections
        /\ first'[o].status = "applied" => first'[o].words = "usual"
    BY <1>3, <1>5, <1>6, <1>14
  <2>3. claims'[o] = [identity |-> Identity(first'[o].request), status |-> first'[o].status,
                      words |-> first'[o].words]
    BY <1>5, <1>14, Zenon
  <2> QED BY <2>1, <2>2, <2>3 DEF FirstIsRow
<1>21. WorksAlone'
  <2>1. ASSUME NEW d \in Callers, calls'[d].pc = "work"
        PROVE  /\ claims'[calls'[d].request.op] = Absent
               /\ \A e \in Callers \ {d} :
                    calls'[e].pc = "work" => calls'[e].request.op # calls'[d].request.op
    <3>1. d # c /\ At(d, "work") BY <2>1, <1>16, <1>18 DEF At
    <3>2. Request(d).op # o BY <3>1 DEF ClaimIInv, WorksAlone
    <3>3. Request(d).op \in ClaimedOps BY <3>1, <1>12, RequestsAssumption DEF At
    <3> QED BY <1>14, <1>16, <1>18, <3>1, <3>2, <3>3 DEF ClaimIInv, WorksAlone, At, Request
  <2> QED BY <2>1 DEF WorksAlone, At, Request
<1>22. SettledStays'
  <2>1. ASSUME NEW d \in Callers, calls'[d].pc # "idle", calls'[d].wasSettled
        PROVE  /\ claims'[calls'[d].request.op] # Absent
               /\ calls'[d].pc = "gate" => calls'[d].request.writer.gate = "transaction"
    <3>1. d # c /\ ~At(d, "idle") BY <2>1, <1>16, <1>18 DEF At
    <3>2. Request(d).op \in ClaimedOps BY <3>1, <1>12, RequestsAssumption DEF At
    <3> QED BY <1>6, <1>14, <1>16, <2>1, <3>1, <3>2 DEF ClaimIInv, SettledStays, At, Request
  <2> QED BY <2>1 DEF SettledStays, At, Request
<1>23. EffectOnce' BY <1>5, <1>6, <1>14, <1>15 DEF EffectOnce, ClaimIInv, ClaimsSound
<1>24. Answers' \subseteq {h} BY <1>8 DEF Answers
<1>25. AnswersAgree' BY <1>5, <1>14, <1>24 DEF AnswersAgree
<1>26. ConflictsReported' /\ ReplayOutlivesAuthority'
  BY <1>5, <1>24 DEF ConflictsReported, ReplayOutlivesAuthority
<1> QED BY <1>19, <1>20, <1>21, <1>22, <1>23, <1>25, <1>26 DEF ClaimIInv, ClaimsSound

LEMMA ApplyKeeps ==
    ASSUME ClaimIInv, NEW c \in Callers, Apply(c)
    PROVE  ClaimIInv'
<1>1. "usual" \in Words(Request(c)) BY DEF Words
<1> QED BY <1>1, CompleteKeeps DEF Apply

LEMMA RefuseKeeps ==
    ASSUME ClaimIInv, NEW c \in Callers, Refuse(c)
    PROVE  ClaimIInv'
<1>1. PICK w \in Words(Request(c)) :
        IF Request(c).writer.outcome.keeps THEN Complete(c, "rejected", w)
        ELSE Answer(c, "refused", w) /\ UNCHANGED claims
  BY DEF Refuse
<1>2. At(c, "work") /\ ~At(c, "idle") /\ UNCHANGED <<reports, effects, writable>>
  BY DEF Refuse, At
<1>3. CASE Request(c).writer.outcome.keeps BY <1>1, <1>2, <1>3, CompleteKeeps
<1>4. CASE ~Request(c).writer.outcome.keeps
  <2>1. w \in Wordings BY DEF Words, Wordings
  <2>2. reports \subseteq ClaimedOps BY DEF ClaimIInv, ClaimTypeOK
  <2> QED BY <1>1, <1>2, <1>4, <2>1, <2>2, AnswerKeeps
<1> QED BY <1>3, <1>4

LEMMA AuthorityKeeps ==
    ASSUME ClaimIInv, ChangeAuthority
    PROVE  ClaimIInv'
<1>1. FirstIsRow' /\ ClaimsSound' BY SilentKeeps DEF ChangeAuthority
<1>2. ClaimTypeOK' BY DEF ClaimIInv, ClaimTypeOK, ChangeAuthority, Silent, At, Request
<1>3. WorksAlone' /\ SettledStays'
  BY DEF ClaimIInv, WorksAlone, SettledStays, ChangeAuthority, At, Request
<1> QED BY <1>1, <1>2, <1>3 DEF ClaimIInv

-----------------------------------------------------------------------------
(* The row and the first answer of an identifier are one, it is worked for    *)
(* by one transaction at a time, and what is settled stays settled - for any  *)
(* connections, identifiers and requests of the writers (claim_operation and  *)
(* the resolveProcessedOperation of each writer).                             *)
THEOREM ClaimInvariance == ClaimSpec => []ClaimIInv
<1>1. ClaimInit => ClaimIInv
  <2> SUFFICES ASSUME ClaimInit PROVE ClaimIInv OBVIOUS
  <2>1. ClaimTypeOK BY DEF ClaimInit, ClaimTypeOK, IdleCall, At, Request
  <2>2. FirstIsRow /\ WorksAlone /\ SettledStays
    BY DEF ClaimInit, FirstIsRow, WorksAlone, SettledStays, IdleCall, At
  <2>3. ClaimsSound
    BY DEF ClaimInit, ClaimsSound, EffectOnce, AnswersAgree, ConflictsReported,
       ReplayOutlivesAuthority, Answers
  <2> QED BY <2>1, <2>2, <2>3 DEF ClaimIInv
<1>2. ClaimIInv /\ [ServeClaims(Requests)]_claimVars => ClaimIInv'
  <2> SUFFICES ASSUME ClaimIInv, [ServeClaims(Requests)]_claimVars PROVE ClaimIInv' OBVIOUS
  <2>1. ASSUME NEW c \in Callers, NEW r \in Requests, Arrive(c, r) PROVE ClaimIInv'
    BY <2>1, ArriveKeeps
  <2>2. ASSUME NEW c \in Callers, PassGate(c) PROVE ClaimIInv' BY <2>2, PassGateKeeps
  <2>3. ASSUME NEW c \in Callers, ReadPrior(c) PROVE ClaimIInv' BY <2>3, ReadPriorKeeps
  <2>4. ASSUME NEW c \in Callers, ClaimOperation(c) PROVE ClaimIInv' BY <2>4, ClaimOperationKeeps
  <2>5. ASSUME NEW c \in Callers, Apply(c) PROVE ClaimIInv' BY <2>5, ApplyKeeps
  <2>6. ASSUME NEW c \in Callers, Refuse(c) PROVE ClaimIInv' BY <2>6, RefuseKeeps
  <2>7. ASSUME NEW c \in Callers, AbortCall(c) PROVE ClaimIInv'
    BY <2>7, EndsAsIdle, GoesOn DEF AbortCall
  <2>8. CASE ChangeAuthority BY <2>8, AuthorityKeeps
  <2>9. CASE UNCHANGED claimVars
    BY <2>9 DEF claimVars, ClaimIInv, ClaimTypeOK, FirstIsRow, WorksAlone, SettledStays, ClaimsSound,
       EffectOnce, AnswersAgree, ConflictsReported, ReplayOutlivesAuthority, Answers, At, Request
  <2> QED BY <2>1, <2>2, <2>3, <2>4, <2>5, <2>6, <2>7, <2>8, <2>9 DEF ServeClaims
<1> QED BY <1>1, <1>2, PTL DEF ClaimSpec

(* However requests are repeated and identifiers reused across the writers,   *)
(* an identifier has one request, one outcome and one effect; a reuse is      *)
(* reported and a replay answered whatever became of the right to write.      *)
THEOREM OneRequestOneOutcome == ClaimSpec => []ClaimsSound
<1>1. ClaimIInv => ClaimsSound BY DEF ClaimIInv
<1> QED BY <1>1, ClaimInvariance, PTL

(* Two transactions never work for one identifier at the same time, and the   *)
(* one that does finds its row still absent.                                  *)
THEOREM OneWorkerPerIdentifier == ClaimSpec => []WorksAlone
<1>1. ClaimIInv => WorksAlone BY DEF ClaimIInv
<1> QED BY <1>1, ClaimInvariance, PTL

-----------------------------------------------------------------------------
(* Ranks are tuples of numbers of one length, in lexicographic order.      *)
Tuples(n) == [1..n -> Int]

LEMMA FirstOf ==
    ASSUME NEW S \in SUBSET Nat, S # {}
    PROVE  \E a \in S : \A b \in S : a <= b
<1>1. PICK a \in S : \A b \in S : ~(<<b, a>> \in OpToRel(<, Nat))
  BY NatLessThanWellFounded, WFMin, Zenon
<1>2. \A b \in S : ~(b < a) BY <1>1 DEF OpToRel
<1> QED BY <1>2

LEMMA BeforeIsTotal ==
    ASSUME NEW n \in Nat, NEW p \in Tuples(n), NEW q \in Tuples(n), p # q
    PROVE  Before(p, q) \/ Before(q, p)
<1> DEFINE apart == {k \in 1..n : p[k] # q[k]}
<1>1. apart \in SUBSET Nat /\ apart # {} BY DEF Tuples
<1>2. PICK k \in apart : \A j \in apart : k <= j
  <2> HIDE DEF apart
  <2> QED BY <1>1, FirstOf
<1>3. k \in 1..n /\ p[k] # q[k] /\ \A j \in 1..(k - 1) : p[j] = q[j] BY <1>2
<1>4. p[k] \in Int /\ q[k] \in Int /\ DOMAIN p = 1..n /\ DOMAIN q = 1..n BY <1>3 DEF Tuples
<1> QED BY <1>3, <1>4 DEF Before

LEMMA BeforeIsStrict ==
    ASSUME NEW n \in Nat, NEW p \in Tuples(n), NEW q \in Tuples(n), Before(p, q)
    PROVE  ~Before(q, p) /\ p # q
<1>1. PICK k \in 1..n : p[k] < q[k] /\ \A j \in 1..(k - 1) : p[j] = q[j] BY DEF Before, Tuples
<1>2. \A j \in 1..n : p[j] \in Int /\ q[j] \in Int BY DEF Tuples
<1>3. ASSUME Before(q, p) PROVE FALSE
  <2>1. PICK m \in 1..n : q[m] < p[m] /\ \A j \in 1..(m - 1) : q[j] = p[j] BY <1>3 DEF Before, Tuples
  <2>2. m = k \/ m \in 1..(k - 1) \/ k \in 1..(m - 1) BY <1>1, <2>1
  <2> QED BY <1>1, <1>2, <2>1, <2>2
<1> QED BY <1>1, <1>2, <1>3

LEMMA BeforeIsTransitive ==
    ASSUME NEW n \in Nat, NEW p \in Tuples(n), NEW q \in Tuples(n), NEW r \in Tuples(n),
           Before(p, q), Before(q, r)
    PROVE  Before(p, r)
<1>1. PICK k \in 1..n : p[k] < q[k] /\ \A j \in 1..(k - 1) : p[j] = q[j] BY DEF Before, Tuples
<1>2. PICK m \in 1..n : q[m] < r[m] /\ \A j \in 1..(m - 1) : q[j] = r[j] BY DEF Before, Tuples
<1>3. \A j \in 1..n : p[j] \in Int /\ q[j] \in Int /\ r[j] \in Int BY DEF Tuples
<1> DEFINE l == IF k <= m THEN k ELSE m
<1>4. l \in 1..n /\ l <= k /\ l <= m OBVIOUS
<1>5. p[l] < r[l]
  <2>1. CASE k < m BY <1>1, <1>2, <1>3, <2>1
  <2>2. CASE k = m BY <1>1, <1>2, <1>3, <2>2
  <2>3. CASE m < k BY <1>1, <1>2, <1>3, <2>3
  <2> QED BY <2>1, <2>2, <2>3
<1>6. \A j \in 1..(l - 1) : p[j] = r[j]
  <2> TAKE j \in 1..(l - 1)
  <2>1. j \in 1..(k - 1) /\ j \in 1..(m - 1) BY <1>4
  <2> QED BY <1>1, <1>2, <2>1
<1> HIDE DEF l
<1> QED BY <1>4, <1>5, <1>6 DEF Before, Tuples

\* What is not before a position is before what comes after it.
LEMMA UpToIsBefore ==
    ASSUME NEW n \in Nat, NEW p \in Tuples(n), NEW q \in Tuples(n), NEW r \in Tuples(n),
           ~Before(p, q), Before(p, r)
    PROVE  Before(q, r)
<1>1. CASE q = p BY <1>1
<1>2. CASE q # p
  <2>1. Before(q, p) BY <1>2, BeforeIsTotal
  <2> QED BY <2>1, BeforeIsTransitive
<1> QED BY <1>1, <1>2

-----------------------------------------------------------------------------
(* A page: before its n-th row come n - 1 of the rest.                     *)
RankedApart(rank, rest, n) ==
    /\ \A i \in rest : rank[i] \in Tuples(n)
    /\ \A i, j \in rest : rank[i] = rank[j] => i = j

LEMMA PlaceInRest ==
    ASSUME NEW view, NEW rest, IsFiniteSet(rest), NEW n \in Nat, RankedApart(view.rank, rest, n)
    PROVE  /\ \A i \in rest : Cardinality(RowsBefore(view, rest, i)) \in 0..(Cardinality(rest) - 1)
           /\ \A i, j \in rest : Before(view.rank[i], view.rank[j]) =>
                Cardinality(RowsBefore(view, rest, i)) < Cardinality(RowsBefore(view, rest, j))
           /\ \A m \in 1..Cardinality(rest) :
                \E i \in rest : Cardinality(RowsBefore(view, rest, i)) = m - 1
<1> DEFINE place == [i \in rest |-> Cardinality(RowsBefore(view, rest, i))]
           N == Cardinality(rest)
<1>1. N \in Nat BY FS_CardinalityType
<1>2. \A i \in rest : RowsBefore(view, rest, i) \in SUBSET rest /\ i \notin RowsBefore(view, rest, i)
  BY BeforeIsStrict DEF RowsBefore, RankedApart
<1>3. ASSUME NEW i \in rest PROVE place[i] \in 0..(N - 1)
  <2>1. RowsBefore(view, rest, i) # rest BY <1>2
  <2>2. Cardinality(RowsBefore(view, rest, i)) <= N /\ Cardinality(RowsBefore(view, rest, i)) # N
        /\ IsFiniteSet(RowsBefore(view, rest, i))
    BY <1>2, <2>1, FS_Subset
  <2>3. Cardinality(RowsBefore(view, rest, i)) \in Nat BY <2>2, FS_CardinalityType
  <2> HIDE DEF N
  <2> QED BY <1>1, <2>2, <2>3
<1>4. ASSUME NEW i \in rest, NEW j \in rest, Before(view.rank[i], view.rank[j])
      PROVE  place[i] < place[j]
  <2> DEFINE before == RowsBefore(view, rest, i)
             later == RowsBefore(view, rest, j)
  <2>1. \A k \in before : k \in later BY <1>4, BeforeIsTransitive DEF RowsBefore, RankedApart
  <2>2. i \in later /\ i \notin before BY <1>2, <1>4 DEF RowsBefore
  <2>3. IsFiniteSet(later) BY <1>2, FS_Subset
  <2>4. before \in SUBSET later /\ before # later BY <2>1, <2>2
  <2>5. IsFiniteSet(before) /\ Cardinality(before) <= Cardinality(later) /\ Cardinality(before) # Cardinality(later)
    BY <2>3, <2>4, FS_Subset
  <2>6. Cardinality(before) \in Nat /\ Cardinality(later) \in Nat BY <2>3, <2>5, FS_CardinalityType
  <2>7. place[i] = Cardinality(before) /\ place[j] = Cardinality(later) OBVIOUS
  <2> HIDE DEF before, later, place
  <2> QED BY <2>5, <2>6, <2>7
<1>5. ASSUME NEW i \in rest, NEW j \in rest, place[i] = place[j] PROVE i = j
  <2> SUFFICES ASSUME i # j PROVE FALSE OBVIOUS
  <2>1. Before(view.rank[i], view.rank[j]) \/ Before(view.rank[j], view.rank[i])
    BY BeforeIsTotal DEF RankedApart
  <2>2. place[i] \in Int /\ place[j] \in Int BY <1>3
  <2> HIDE DEF place
  <2> QED BY <1>4, <1>5, <2>1, <2>2
<1>6. place \in Injection(rest, 0..(N - 1))
  <2>1. place \in [rest -> 0..(N - 1)] BY <1>3
  <2> HIDE DEF place, N
  <2> QED BY <1>5, <2>1 DEF Injection, IsInjective
<1>7. IsFiniteSet(0..(N - 1)) /\ Cardinality(0..(N - 1)) = N
  <2> HIDE DEF N
  <2>1. Cardinality(0..(N - 1)) = IF 0 > N - 1 THEN 0 ELSE (N - 1) - 0 + 1 BY <1>1, FS_Interval
  <2> QED BY <1>1, <2>1, FS_Interval
<1>8. place \in Surjection(rest, 0..(N - 1))
  <2> HIDE DEF place
  <2> QED BY <1>6, <1>7, FS_Injection
<1>9. ASSUME NEW m \in 1..N PROVE \E i \in rest : place[i] = m - 1
  <2>1. m - 1 \in 0..(N - 1) BY <1>1
  <2> HIDE DEF place, N
  <2> QED BY <1>8, <2>1 DEF Surjection
<1> QED BY <1>3, <1>4, <1>9
-----------------------------------------------------------------------------
(* The lists, as functions of a row: which rows are in a list, their rank, *)
(* and what a cursor says of them.                                         *)
ByCursor == {"customers", "stores"} \cup ByMicrosecond
Versioned == {"suppliers", "products"}
NamedFirst == {"customers", "suppliers"} \cup ByNameOnly
WithVersion ==
    {"suppliers", "products", "sales", "customerPayments", "supplierInvoices", "supplierPayments",
     "expenses", "saleReturns"}
Snapshots ==
    ByNameOnly \cup
    {"reportOfSales", "reportOfExpenses", "reportOfMoneyMovements",
     "reportOfInventoryMovements", "reportOfTheOwner", "reportOfCorrections"}

Width(list) ==
    CASE list \in NamedFirst -> 2
      [] list = "search" -> 5
      [] list = "reportOfCorrections" -> 4
      [] OTHER -> 3

RankOf(list, row, i) ==
    CASE list \in NamedFirst -> <<row.name, i>>
      [] list = "products" -> <<IF row.pinned THEN 0 ELSE 1, row.name, i>>
      [] list = "search" -> <<IF row.name = 1 THEN 0 ELSE 1, -row.at[1], -row.at[2], TypeOf(i), i>>
      [] list = "reportOfCorrections" -> <<-row.at[1], -row.at[2], TypeOf(i), -i>>
      [] list = "stores" -> <<row.at[1], row.at[2], i>>
      [] OTHER -> <<-row.at[1], -row.at[2], -i>>

MarkOf(list, row, i) ==
    CASE list = "customers" -> <<row.name, i>>
      [] list = "stores" -> <<row.at[1], 0, i>>
      [] list = "search" -> <<IF row.name = 1 THEN 0 ELSE 1, -row.at[1], 0, TypeOf(i), i>>
      [] list \in {"notifications", "audit", "adminActions"} -> <<-row.at[1], 0, -i>>
      [] list \in WithVersion -> <<i, row.version>>
      [] list = "creditHistory" -> <<i, row.at[1]>>
      [] list = "reportOfCorrections" -> <<i, TypeOf(i)>>
      [] OTHER -> <<i>>

IsListed(list, scope, row) ==
    CASE list \in Versioned \cup {"customers", "reportOfSales", "reportOfExpenses"} -> row.status = scope
      [] list \in (WithVersion \ Versioned) \ {"expenses"} -> row.status \in {"posted", "cancelled"}
      [] list = "expenses" -> row.status = "posted"
      [] list = "reportOfCorrections" -> row.status = "cancelled"
      [] list = "reportOfLiquidity" -> row.status = "active"
      [] list = "notifications" -> IF scope = "unread" THEN ~row.read ELSE row.status = scope
      [] OTHER -> TRUE

AgainOf(list) ==
    CASE list \in ByCursor -> "never"
      [] list \in Snapshots -> "snapshot"
      [] list \in {"suppliers", "products", "customerPayments", "supplierInvoices", "supplierPayments"} -> "locked"
      [] OTHER -> "before"

IdsOf(t, w) == {i \in ListIds : t[i] # Void /\ IsListed(w.list, w.scope, t[i])}
RankIn(t, w, i) == RankOf(w.list, t[i], i)
Seen(t, w) ==
    [ids |-> IdsOf(t, w), rank |-> [i \in IdsOf(t, w) |-> RankIn(t, w, i)],
     mark |-> [i \in IdsOf(t, w) |-> MarkOf(w.list, t[i], i)], again |-> AgainOf(w.list)]

\* What the code reads is what the functions say.
LEMMA ViewIsSeen ==
    ASSUME walk.list \in Lists
    PROVE  View = Seen(table, walk)
<1> DEFINE list == walk.list
           ids == IdsOf(table, walk)
           rank == [i \in ids |-> RankIn(table, walk, i)]
           mark == [i \in ids |-> MarkOf(list, table[i], i)]
<1> USE DEF WithStatus, Present
<1>1. CASE list \in {"customers", "suppliers", "products"}
  <2>1. ids = WithStatus({walk.scope}) BY <1>1 DEF IdsOf, IsListed, Versioned, WithVersion
  <2>2. \A i \in ids : PinnedFirst(i) = <<IF table[i].pinned THEN 0 ELSE 1, table[i].name, i>>
    BY DEF PinnedFirst
  <2>3. CASE list = "customers"
    <3>1. rank = [i \in ids |-> Named(i)] BY <2>3 DEF RankIn, RankOf, NamedFirst, ByNameOnly, Named
    <3>2. mark = [i \in ids |-> CustomerMark(i)] BY <2>3 DEF MarkOf, WithVersion, CustomerMark, Named
    <3>3. View = CustomerList(walk.scope) BY <2>3 DEF View
    <3>4. AgainOf(list) = "never" BY <2>3 DEF AgainOf, ByCursor, Snapshots, ByNameOnly, ByMicrosecond
    <3> QED BY <2>1, <3>1, <3>2, <3>3, <3>4 DEF CustomerList, List, Seen
  <2>4. CASE list = "suppliers"
    <3>1. rank = [i \in ids |-> Named(i)] BY <2>4 DEF RankIn, RankOf, NamedFirst, Named
    <3>2. mark = [i \in ids |-> SupplierMark(i)] BY <2>4 DEF MarkOf, WithVersion, SupplierMark
    <3>3. View = SupplierList(walk.scope) BY <2>4 DEF View
    <3>4. AgainOf(list) = "locked" BY <2>4 DEF AgainOf, ByCursor, Snapshots, ByNameOnly, ByMicrosecond
    <3> QED BY <2>1, <3>1, <3>2, <3>3, <3>4 DEF SupplierList, List, Seen
  <2>5. CASE list = "products"
    <3>1. rank = [i \in ids |-> PinnedFirst(i)] BY <2>2, <2>5 DEF RankIn, RankOf, NamedFirst, ByNameOnly
    <3>2. mark = [i \in ids |-> ProductMark(i)] BY <2>5 DEF MarkOf, WithVersion, ProductMark
    <3>3. View = ProductList(walk.scope) BY <2>5 DEF View
    <3>4. AgainOf(list) = "locked" BY <2>5 DEF AgainOf, ByCursor, Snapshots, ByNameOnly, ByMicrosecond
    <3> QED BY <2>1, <3>1, <3>2, <3>3, <3>4 DEF ProductList, List, Seen
  <2> QED BY <1>1, <2>3, <2>4, <2>5
<1>2. CASE list = "sales"
  <2>1. ids = WithStatus({"posted", "cancelled"}) BY <1>2 DEF IdsOf, IsListed, Versioned, WithVersion
  <2>2. rank = [i \in ids |-> Newest(i)] BY <1>2 DEF RankIn, RankOf, NamedFirst, ByNameOnly, Newest
  <2>3. mark = [i \in ids |-> SaleMark(i)] BY <1>2 DEF MarkOf, WithVersion, SaleMark, Milliseconds
  <2>4. View = SaleList BY <1>2 DEF View
  <2>5. AgainOf(list) = "before" BY <1>2 DEF AgainOf, ByCursor, Snapshots, ByNameOnly, ByMicrosecond
  <2> QED BY <2>1, <2>2, <2>3, <2>4, <2>5 DEF SaleList, List, Seen
<1>3. CASE list = "receivables"
  <2>1. ids = Present BY <1>3 DEF IdsOf, IsListed, Versioned, WithVersion
  <2>2. rank = [i \in ids |-> Newest(i)] BY <1>3 DEF RankIn, RankOf, NamedFirst, ByNameOnly, Newest
  <2>3. mark = [i \in ids |-> ReceivableMark(i)] BY <1>3 DEF MarkOf, WithVersion, ReceivableMark, Milliseconds
  <2>4. View = ReceivableList BY <1>3 DEF View
  <2>5. AgainOf(list) = "before" BY <1>3 DEF AgainOf, ByCursor, Snapshots, ByNameOnly, ByMicrosecond
  <2> QED BY <2>1, <2>2, <2>3, <2>4, <2>5 DEF ReceivableList, List, Seen
<1>4. CASE list = "creditHistory"
  <2>1. ids = Present BY <1>4 DEF IdsOf, IsListed, Versioned, WithVersion
  <2>2. rank = [i \in ids |-> Newest(i)] BY <1>4 DEF RankIn, RankOf, NamedFirst, ByNameOnly, Newest
  <2>3. mark = [i \in ids |-> CreditHistoryMark(i)] BY <1>4 DEF MarkOf, WithVersion, CreditHistoryMark, Milliseconds
  <2>4. View = CreditHistoryList BY <1>4 DEF View
  <2>5. AgainOf(list) = "before" BY <1>4 DEF AgainOf, ByCursor, Snapshots, ByNameOnly, ByMicrosecond
  <2> QED BY <2>1, <2>2, <2>3, <2>4, <2>5 DEF CreditHistoryList, List, Seen
<1>5. CASE list = "customerPayments"
  <2>1. ids = WithStatus({"posted", "cancelled"}) BY <1>5 DEF IdsOf, IsListed, Versioned, WithVersion
  <2>2. rank = [i \in ids |-> Newest(i)] BY <1>5 DEF RankIn, RankOf, NamedFirst, ByNameOnly, Newest
  <2>3. mark = [i \in ids |-> CustomerPaymentMark(i)] BY <1>5 DEF MarkOf, WithVersion, CustomerPaymentMark, Milliseconds
  <2>4. View = CustomerPaymentList BY <1>5 DEF View
  <2>5. AgainOf(list) = "locked" BY <1>5 DEF AgainOf, ByCursor, Snapshots, ByNameOnly, ByMicrosecond
  <2> QED BY <2>1, <2>2, <2>3, <2>4, <2>5 DEF CustomerPaymentList, List, Seen
<1>6. CASE list = "supplierInvoices"
  <2>1. ids = WithStatus({"posted", "cancelled"}) BY <1>6 DEF IdsOf, IsListed, Versioned, WithVersion
  <2>2. rank = [i \in ids |-> Newest(i)] BY <1>6 DEF RankIn, RankOf, NamedFirst, ByNameOnly, Newest
  <2>3. mark = [i \in ids |-> SupplierInvoiceMark(i)] BY <1>6 DEF MarkOf, WithVersion, SupplierInvoiceMark, Milliseconds
  <2>4. View = SupplierInvoiceList BY <1>6 DEF View
  <2>5. AgainOf(list) = "locked" BY <1>6 DEF AgainOf, ByCursor, Snapshots, ByNameOnly, ByMicrosecond
  <2> QED BY <2>1, <2>2, <2>3, <2>4, <2>5 DEF SupplierInvoiceList, List, Seen
<1>7. CASE list = "supplierPayments"
  <2>1. ids = WithStatus({"posted", "cancelled"}) BY <1>7 DEF IdsOf, IsListed, Versioned, WithVersion
  <2>2. rank = [i \in ids |-> Newest(i)] BY <1>7 DEF RankIn, RankOf, NamedFirst, ByNameOnly, Newest
  <2>3. mark = [i \in ids |-> SupplierPaymentMark(i)] BY <1>7 DEF MarkOf, WithVersion, SupplierPaymentMark, Milliseconds
  <2>4. View = SupplierPaymentList BY <1>7 DEF View
  <2>5. AgainOf(list) = "locked" BY <1>7 DEF AgainOf, ByCursor, Snapshots, ByNameOnly, ByMicrosecond
  <2> QED BY <2>1, <2>2, <2>3, <2>4, <2>5 DEF SupplierPaymentList, List, Seen
<1>8. CASE list = "expenses"
  <2>1. ids = WithStatus({"posted"}) BY <1>8 DEF IdsOf, IsListed, Versioned, WithVersion
  <2>2. rank = [i \in ids |-> Newest(i)] BY <1>8 DEF RankIn, RankOf, NamedFirst, ByNameOnly, Newest
  <2>3. mark = [i \in ids |-> ExpenseMark(i)] BY <1>8 DEF MarkOf, WithVersion, ExpenseMark, Milliseconds
  <2>4. View = ExpenseList BY <1>8 DEF View
  <2>5. AgainOf(list) = "before" BY <1>8 DEF AgainOf, ByCursor, Snapshots, ByNameOnly, ByMicrosecond
  <2> QED BY <2>1, <2>2, <2>3, <2>4, <2>5 DEF ExpenseList, List, Seen
<1>9. CASE list = "saleReturns"
  <2>1. ids = WithStatus({"posted", "cancelled"}) BY <1>9 DEF IdsOf, IsListed, Versioned, WithVersion
  <2>2. rank = [i \in ids |-> Newest(i)] BY <1>9 DEF RankIn, RankOf, NamedFirst, ByNameOnly, Newest
  <2>3. mark = [i \in ids |-> SaleReturnMark(i)] BY <1>9 DEF MarkOf, WithVersion, SaleReturnMark, Milliseconds
  <2>4. View = SaleReturnList BY <1>9 DEF View
  <2>5. AgainOf(list) = "before" BY <1>9 DEF AgainOf, ByCursor, Snapshots, ByNameOnly, ByMicrosecond
  <2> QED BY <2>1, <2>2, <2>3, <2>4, <2>5 DEF SaleReturnList, List, Seen
<1>10. CASE list = "reportOfSales"
  <2>1. ids = WithStatus({walk.scope}) BY <1>10 DEF IdsOf, IsListed, Versioned, WithVersion
  <2>2. rank = [i \in ids |-> Newest(i)] BY <1>10 DEF RankIn, RankOf, NamedFirst, ByNameOnly, Newest
  <2>3. mark = [i \in ids |-> ReportMark(i)] BY <1>10 DEF MarkOf, WithVersion, ReportMark, Milliseconds
  <2>4. View = SalesReport(walk.scope) BY <1>10 DEF View
  <2>5. AgainOf(list) = "snapshot" BY <1>10 DEF AgainOf, ByCursor, Snapshots, ByNameOnly, ByMicrosecond
  <2> QED BY <2>1, <2>2, <2>3, <2>4, <2>5 DEF SalesReport, List, Seen
<1>11. CASE list = "reportOfExpenses"
  <2>1. ids = WithStatus({walk.scope}) BY <1>11 DEF IdsOf, IsListed, Versioned, WithVersion
  <2>2. rank = [i \in ids |-> Newest(i)] BY <1>11 DEF RankIn, RankOf, NamedFirst, ByNameOnly, Newest
  <2>3. mark = [i \in ids |-> ReportMark(i)] BY <1>11 DEF MarkOf, WithVersion, ReportMark, Milliseconds
  <2>4. View = ExpensesReport(walk.scope) BY <1>11 DEF View
  <2>5. AgainOf(list) = "snapshot" BY <1>11 DEF AgainOf, ByCursor, Snapshots, ByNameOnly, ByMicrosecond
  <2> QED BY <2>1, <2>2, <2>3, <2>4, <2>5 DEF ExpensesReport, List, Seen
<1>12. CASE list = "reportOfMoneyMovements"
  <2>1. ids = Present BY <1>12 DEF IdsOf, IsListed, Versioned, WithVersion
  <2>2. rank = [i \in ids |-> Newest(i)] BY <1>12 DEF RankIn, RankOf, NamedFirst, ByNameOnly, Newest
  <2>3. mark = [i \in ids |-> ReportMark(i)] BY <1>12 DEF MarkOf, WithVersion, ReportMark, Milliseconds
  <2>4. View = MoneyMovementsReport BY <1>12 DEF View
  <2>5. AgainOf(list) = "snapshot" BY <1>12 DEF AgainOf, ByCursor, Snapshots, ByNameOnly, ByMicrosecond
  <2> QED BY <2>1, <2>2, <2>3, <2>4, <2>5 DEF MoneyMovementsReport, List, Seen
<1>13. CASE list = "reportOfInventoryMovements"
  <2>1. ids = Present BY <1>13 DEF IdsOf, IsListed, Versioned, WithVersion
  <2>2. rank = [i \in ids |-> Newest(i)] BY <1>13 DEF RankIn, RankOf, NamedFirst, ByNameOnly, Newest
  <2>3. mark = [i \in ids |-> ReportMark(i)] BY <1>13 DEF MarkOf, WithVersion, ReportMark, Milliseconds
  <2>4. View = InventoryMovementsReport BY <1>13 DEF View
  <2>5. AgainOf(list) = "snapshot" BY <1>13 DEF AgainOf, ByCursor, Snapshots, ByNameOnly, ByMicrosecond
  <2> QED BY <2>1, <2>2, <2>3, <2>4, <2>5 DEF InventoryMovementsReport, List, Seen
<1>14. CASE list = "reportOfTheOwner"
  <2>1. ids = Present BY <1>14 DEF IdsOf, IsListed, Versioned, WithVersion
  <2>2. rank = [i \in ids |-> Newest(i)] BY <1>14 DEF RankIn, RankOf, NamedFirst, ByNameOnly, Newest
  <2>3. mark = [i \in ids |-> ReportMark(i)] BY <1>14 DEF MarkOf, WithVersion, ReportMark, Milliseconds
  <2>4. View = OwnerLedgerReport BY <1>14 DEF View
  <2>5. AgainOf(list) = "snapshot" BY <1>14 DEF AgainOf, ByCursor, Snapshots, ByNameOnly, ByMicrosecond
  <2> QED BY <2>1, <2>2, <2>3, <2>4, <2>5 DEF OwnerLedgerReport, List, Seen
<1>15. CASE list = "audit"
  <2>1. ids = Present BY <1>15 DEF IdsOf, IsListed, Versioned, WithVersion
  <2>2. rank = [i \in ids |-> Newest(i)] BY <1>15 DEF RankIn, RankOf, NamedFirst, ByNameOnly, Newest
  <2>3. mark = [i \in ids |-> AuditMark(i)] BY <1>15 DEF MarkOf, WithVersion, AuditMark, Milliseconds
  <2>4. View = AuditList BY <1>15 DEF View
  <2>5. AgainOf(list) = "never" BY <1>15 DEF AgainOf, ByCursor, Snapshots, ByNameOnly, ByMicrosecond
  <2> QED BY <2>1, <2>2, <2>3, <2>4, <2>5 DEF AuditList, List, Seen
<1>16. CASE list = "adminActions"
  <2>1. ids = Present BY <1>16 DEF IdsOf, IsListed, Versioned, WithVersion
  <2>2. rank = [i \in ids |-> Newest(i)] BY <1>16 DEF RankIn, RankOf, NamedFirst, ByNameOnly, Newest
  <2>3. mark = [i \in ids |-> AdminActionMark(i)] BY <1>16 DEF MarkOf, WithVersion, AdminActionMark, Milliseconds
  <2>4. View = AdminActionList BY <1>16 DEF View
  <2>5. AgainOf(list) = "never" BY <1>16 DEF AgainOf, ByCursor, Snapshots, ByNameOnly, ByMicrosecond
  <2> QED BY <2>1, <2>2, <2>3, <2>4, <2>5 DEF AdminActionList, List, Seen
<1>17. CASE list = "notifications"
  <2>1. ids = IF walk.scope = "unread" THEN {i \in Present : ~table[i].read} ELSE WithStatus({walk.scope})
    BY <1>17 DEF IdsOf, IsListed, Versioned, WithVersion
  <2>2. rank = [i \in ids |-> Newest(i)] BY <1>17 DEF RankIn, RankOf, NamedFirst, ByNameOnly, Newest
  <2>3. mark = [i \in ids |-> NotificationMark(i)] BY <1>17 DEF MarkOf, WithVersion, NotificationMark, Milliseconds
  <2>4. View = NotificationList(walk.scope) BY <1>17 DEF View
  <2>5. AgainOf(list) = "never" BY <1>17 DEF AgainOf, ByCursor, Snapshots, ByNameOnly, ByMicrosecond
  <2> QED BY <2>1, <2>2, <2>3, <2>4, <2>5 DEF NotificationList, List, Seen
<1>18. CASE list = "reportOfReceivables"
  <2>1. ids = Present BY <1>18 DEF IdsOf, IsListed, Versioned, WithVersion
  <2>2. rank = [i \in ids |-> Named(i)] BY <1>18 DEF RankIn, RankOf, NamedFirst, ByNameOnly, Named
  <2>3. mark = [i \in ids |-> ReportMark(i)] BY <1>18 DEF MarkOf, WithVersion, ReportMark, Milliseconds
  <2>4. View = CustomerReceivablesReport BY <1>18 DEF View
  <2>5. AgainOf(list) = "snapshot" BY <1>18 DEF AgainOf, ByCursor, Snapshots, ByNameOnly, ByMicrosecond
  <2> QED BY <2>1, <2>2, <2>3, <2>4, <2>5 DEF CustomerReceivablesReport, List, Seen
<1>19. CASE list = "reportOfPayables"
  <2>1. ids = Present BY <1>19 DEF IdsOf, IsListed, Versioned, WithVersion
  <2>2. rank = [i \in ids |-> Named(i)] BY <1>19 DEF RankIn, RankOf, NamedFirst, ByNameOnly, Named
  <2>3. mark = [i \in ids |-> ReportMark(i)] BY <1>19 DEF MarkOf, WithVersion, ReportMark, Milliseconds
  <2>4. View = SupplierPayablesReport BY <1>19 DEF View
  <2>5. AgainOf(list) = "snapshot" BY <1>19 DEF AgainOf, ByCursor, Snapshots, ByNameOnly, ByMicrosecond
  <2> QED BY <2>1, <2>2, <2>3, <2>4, <2>5 DEF SupplierPayablesReport, List, Seen
<1>20. CASE list = "reportOfStock"
  <2>1. ids = Present BY <1>20 DEF IdsOf, IsListed, Versioned, WithVersion
  <2>2. rank = [i \in ids |-> Named(i)] BY <1>20 DEF RankIn, RankOf, NamedFirst, ByNameOnly, Named
  <2>3. mark = [i \in ids |-> ReportMark(i)] BY <1>20 DEF MarkOf, WithVersion, ReportMark, Milliseconds
  <2>4. View = InventoryStockReport BY <1>20 DEF View
  <2>5. AgainOf(list) = "snapshot" BY <1>20 DEF AgainOf, ByCursor, Snapshots, ByNameOnly, ByMicrosecond
  <2> QED BY <2>1, <2>2, <2>3, <2>4, <2>5 DEF InventoryStockReport, List, Seen
<1>21. CASE list = "reportOfLiquidity"
  <2>1. ids = WithStatus({"active"}) BY <1>21 DEF IdsOf, IsListed, Versioned, WithVersion
  <2>2. rank = [i \in ids |-> Named(i)] BY <1>21 DEF RankIn, RankOf, NamedFirst, ByNameOnly, Named
  <2>3. mark = [i \in ids |-> ReportMark(i)] BY <1>21 DEF MarkOf, WithVersion, ReportMark, Milliseconds
  <2>4. View = LiquidityReport BY <1>21 DEF View
  <2>5. AgainOf(list) = "snapshot" BY <1>21 DEF AgainOf, ByCursor, Snapshots, ByNameOnly, ByMicrosecond
  <2> QED BY <2>1, <2>2, <2>3, <2>4, <2>5 DEF LiquidityReport, List, Seen
<1>22. CASE list = "reportOfCorrections"
  <2>1. ids = WithStatus({"cancelled"}) BY <1>22 DEF IdsOf, IsListed, Versioned, WithVersion
  <2>2. rank = [i \in ids |-> NewestByType(i)] BY <1>22 DEF RankIn, RankOf, NamedFirst, ByNameOnly, NewestByType
  <2>3. mark = [i \in ids |-> TypedReportMark(i)] BY <1>22 DEF MarkOf, WithVersion, TypedReportMark, Milliseconds
  <2>4. View = ReturnsCorrectionsReport BY <1>22 DEF View
  <2>5. AgainOf(list) = "snapshot" BY <1>22 DEF AgainOf, ByCursor, Snapshots, ByNameOnly, ByMicrosecond
  <2> QED BY <2>1, <2>2, <2>3, <2>4, <2>5 DEF ReturnsCorrectionsReport, List, Seen
<1>23. CASE list = "search"
  <2>1. ids = Present BY <1>23 DEF IdsOf, IsListed, Versioned, WithVersion
  <2>2. rank = [i \in ids |-> BestMatch(i)] BY <1>23 DEF RankIn, RankOf, NamedFirst, ByNameOnly, BestMatch
  <2>3. mark = [i \in ids |-> SearchMark(i)] BY <1>23 DEF MarkOf, WithVersion, SearchMark, Milliseconds
  <2>4. View = SearchList BY <1>23 DEF View
  <2>5. AgainOf(list) = "never" BY <1>23 DEF AgainOf, ByCursor, Snapshots, ByNameOnly, ByMicrosecond
  <2> QED BY <2>1, <2>2, <2>3, <2>4, <2>5 DEF SearchList, List, Seen
<1>24. CASE list = "stores"
  <2>1. ids = Present BY <1>24 DEF IdsOf, IsListed, Versioned, WithVersion
  <2>2. rank = [i \in ids |-> Oldest(i)] BY <1>24 DEF RankIn, RankOf, NamedFirst, ByNameOnly, Oldest
  <2>3. mark = [i \in ids |-> StoreMark(i)] BY <1>24 DEF MarkOf, WithVersion, StoreMark, Milliseconds
  <2>4. View = StoreList BY <1>24 DEF View
  <2>5. AgainOf(list) = "never" BY <1>24 DEF AgainOf, ByCursor, Snapshots, ByNameOnly, ByMicrosecond
  <2> QED BY <2>1, <2>2, <2>3, <2>4, <2>5 DEF StoreList, List, Seen
<1> QED BY <1>1, <1>2, <1>3, <1>4, <1>5, <1>6, <1>7, <1>8, <1>9, <1>10, <1>11, <1>12,
       <1>13, <1>14, <1>15, <1>16, <1>17, <1>18, <1>19, <1>20, <1>21, <1>22, <1>23, <1>24
    DEF Lists, PartyLists, DocumentLists, EventLists, ByNameOnly

-----------------------------------------------------------------------------
(* Ranks and marks.                                                        *)
LEMMA BeforeAtHead ==
    ASSUME NEW n \in Nat, n >= 2, NEW p \in Tuples(n), NEW q \in Tuples(n), Before(p, q)
    PROVE  p[1] < q[1] \/ (p[1] = q[1] /\ p[2] <= q[2])
<1>1. PICK k \in 1..n : p[k] < q[k] /\ \A j \in 1..(k - 1) : p[j] = q[j] BY DEF Before, Tuples
<1>2. CASE k = 1 BY <1>1, <1>2
<1>3. CASE k = 2
  <2>1. 1 \in 1..(k - 1) BY <1>3
  <2>2. p[2] \in Int /\ q[2] \in Int BY <1>3 DEF Tuples
  <2> QED BY <1>1, <1>3, <2>1, <2>2
<1>4. CASE k > 2
  <2>1. 1 \in 1..(k - 1) /\ 2 \in 1..(k - 1) BY <1>4
  <2>2. p[2] \in Int /\ q[2] \in Int BY DEF Tuples
  <2> QED BY <1>1, <2>1, <2>2
<1> QED BY <1>1, <1>2, <1>3, <1>4

LEMMA UpToAtHead ==
    ASSUME NEW n \in Nat, n >= 2, NEW p \in Tuples(n), NEW q \in Tuples(n), ~Before(p, q)
    PROVE  q[1] < p[1] \/ (q[1] = p[1] /\ q[2] <= p[2])
<1>1. CASE p = q
  <2>1. q[2] \in Int BY DEF Tuples
  <2> QED BY <1>1, <2>1
<1>2. CASE p # q
  <2>1. Before(q, p) BY <1>2, BeforeIsTotal
  <2> QED BY <2>1, BeforeAtHead
<1> QED BY <1>1, <1>2

LEMMA RowParts ==
    ASSUME NEW row \in ListedRows
    PROVE  /\ row.name \in Int /\ row.version \in Nat /\ row.at[1] \in Int /\ row.at[2] \in Nat
           /\ row.pinned \in BOOLEAN
BY DEF ListedRows

LEMMA WidthFacts ==
    ASSUME NEW list
    PROVE  Width(list) \in Nat /\ Width(list) >= 2
BY DEF Width

LEMMA TypeOfFacts ==
    ASSUME ListingAssumption, NEW i \in ListIds
    PROVE  i \in Int /\ TypeOf(i) \in Int
<1>1. i \in Int BY DEF ListingAssumption
<1> QED BY <1>1 DEF TypeOf

LEMMA RankFacts ==
    ASSUME ListingAssumption, NEW list \in Lists, NEW row \in ListedRows, NEW i \in ListIds
    PROVE  RankOf(list, row, i) \in Tuples(Width(list))
<1>1. row.name \in Int /\ row.version \in Nat /\ row.at[1] \in Int /\ row.at[2] \in Nat BY RowParts
<1>2. i \in Int /\ TypeOf(i) \in Int BY TypeOfFacts
<1>3. \A a, b \in Int : <<a, b>> \in Tuples(2) BY DEF Tuples
<1>4. \A a, b, c \in Int : <<a, b, c>> \in Tuples(3) BY DEF Tuples
<1>5. \A a, b, c, d \in Int : <<a, b, c, d>> \in Tuples(4) BY DEF Tuples
<1>6. \A a, b, c, d, e \in Int : <<a, b, c, d, e>> \in Tuples(5) BY DEF Tuples
<1> DEFINE pin == IF row.pinned THEN 0 ELSE 1
           match == IF row.name = 1 THEN 0 ELSE 1
           m == -row.at[1]
           u == -row.at[2]
<1>7. pin \in Int /\ match \in Int /\ m \in Int /\ u \in Int /\ -i \in Int BY <1>1, <1>2
<1>8. CASE list \in NamedFirst
  <2>1. RankOf(list, row, i) = <<row.name, i>> /\ Width(list) = 2 BY <1>8 DEF RankOf, Width, NamedFirst, ByNameOnly
  <2> QED BY <1>1, <1>2, <1>3, <2>1
<1>9. CASE list = "products"
  <2>1. RankOf(list, row, i) = <<pin, row.name, i>> /\ Width(list) = 3
    BY <1>9 DEF RankOf, Width, NamedFirst, ByNameOnly
  <2> QED BY <1>1, <1>2, <1>4, <1>7, <2>1
<1>10. CASE list = "search"
  <2>1. RankOf(list, row, i) = <<match, m, u, TypeOf(i), i>> /\ Width(list) = 5
    BY <1>10 DEF RankOf, Width, NamedFirst, ByNameOnly
  <2> HIDE DEF match, m, u
  <2> QED BY <1>2, <1>6, <1>7, <2>1
<1>11. CASE list = "reportOfCorrections"
  <2>1. RankOf(list, row, i) = <<m, u, TypeOf(i), -i>> /\ Width(list) = 4
    BY <1>11 DEF RankOf, Width, NamedFirst, ByNameOnly
  <2> QED BY <1>1, <1>2, <1>5, <1>7, <2>1
<1>12. CASE list = "stores"
  <2>1. RankOf(list, row, i) = <<row.at[1], row.at[2], i>> /\ Width(list) = 3
    BY <1>12 DEF RankOf, Width, NamedFirst, ByNameOnly
  <2> QED BY <1>1, <1>2, <1>4, <2>1
<1>13. CASE list \notin NamedFirst \cup {"products", "search", "reportOfCorrections", "stores"}
  <2>1. RankOf(list, row, i) = <<m, u, -i>> /\ Width(list) = 3 BY <1>13 DEF RankOf, Width
  <2> QED BY <1>2, <1>4, <1>7, <2>1
<1> QED BY <1>8, <1>9, <1>10, <1>11, <1>12, <1>13

\* Rows are ranked apart by their identifiers.
LEMMA RankNames ==
    ASSUME ListingAssumption, NEW list \in Lists, NEW row \in ListedRows, NEW other \in ListedRows,
           NEW i \in ListIds, NEW j \in ListIds, RankOf(list, row, i) = RankOf(list, other, j)
    PROVE  i = j
<1>1. i \in Int /\ j \in Int BY TypeOfFacts
<1> QED BY <1>1 DEF RankOf

LEMMA MarkFacts ==
    ASSUME ListingAssumption, NEW list \in Lists, NEW row \in ListedRows, NEW i \in ListIds
    PROVE  /\ MarkOf(list, row, i) # Void
           /\ list \in ByCursor => MarkOf(list, row, i) \in Tuples(Width(list))
           /\ list \notin ByCursor => MarkOf(list, row, i)[1] = i
           /\ list \in Versioned => MarkOf(list, row, i) = <<i, row.version>>
<1>1. row.name \in Int /\ row.version \in Nat /\ row.at[1] \in Int /\ row.at[2] \in Nat BY RowParts
<1>2. i \in Int /\ TypeOf(i) \in Int BY TypeOfFacts
<1>3. \A a, b \in Int : <<a, b>> \in Tuples(2) /\ <<a, b>> \in Seq(Int) BY DEF Tuples
<1>4. \A a, b, c \in Int : <<a, b, c>> \in Tuples(3) /\ <<a, b, c>> \in Seq(Int) BY DEF Tuples
<1>5. \A a, b, c, d, e \in Int : <<a, b, c, d, e>> \in Tuples(5) /\ <<a, b, c, d, e>> \in Seq(Int)
  BY DEF Tuples
<1>6. \A a \in Int : <<a>> \in Seq(Int) OBVIOUS
<1> DEFINE match == IF row.name = 1 THEN 0 ELSE 1
           m == -row.at[1]
<1>7. match \in Int /\ m \in Int /\ -i \in Int /\ 0 \in Int /\ row.version \in Int BY <1>1, <1>2
<1>8. Void \notin Seq(Int) BY DEF ListingAssumption
<1>9. CASE list = "customers"
  <2>1. MarkOf(list, row, i) = <<row.name, i>> /\ Width(list) = 2
    BY <1>9 DEF MarkOf, Width, NamedFirst, ByNameOnly, WithVersion
  <2> QED BY <1>1, <1>2, <1>3, <1>8, <1>9, <2>1 DEF ByCursor, Versioned
<1>10. CASE list = "stores"
  <2>1. MarkOf(list, row, i) = <<row.at[1], 0, i>> /\ Width(list) = 3
    BY <1>10 DEF MarkOf, Width, NamedFirst, ByNameOnly, WithVersion
  <2> QED BY <1>1, <1>2, <1>4, <1>7, <1>8, <1>10, <2>1 DEF ByCursor, Versioned
<1>11. CASE list = "search"
  <2>1. MarkOf(list, row, i) = <<match, m, 0, TypeOf(i), i>> /\ Width(list) = 5
    BY <1>11 DEF MarkOf, Width, NamedFirst, ByNameOnly, WithVersion
  <2> HIDE DEF match, m
  <2>2. MarkOf(list, row, i) \in Tuples(5) /\ MarkOf(list, row, i) \in Seq(Int) BY <1>2, <1>5, <1>7, <2>1
  <2> QED BY <1>8, <1>11, <2>1, <2>2 DEF ByCursor, ByMicrosecond, Versioned
<1>12. CASE list \in {"notifications", "audit", "adminActions"}
  <2>1. MarkOf(list, row, i) = <<m, 0, -i>> /\ Width(list) = 3
    BY <1>12 DEF MarkOf, Width, NamedFirst, ByNameOnly, WithVersion
  <2> QED BY <1>4, <1>7, <1>8, <1>12, <2>1 DEF ByCursor, ByMicrosecond, Versioned
<1>13. CASE list \in WithVersion
  <2>1. MarkOf(list, row, i) = <<i, row.version>> BY <1>13 DEF MarkOf, WithVersion
  <2>2. list \notin ByCursor BY <1>13 DEF WithVersion, ByCursor, ByMicrosecond
  <2>3. MarkOf(list, row, i) \in Seq(Int) BY <1>2, <1>3, <1>7, <2>1
  <2>4. MarkOf(list, row, i) # Void BY <1>8, <2>3
  <2>5. MarkOf(list, row, i)[1] = i BY <2>1
  <2> QED BY <2>1, <2>2, <2>4, <2>5
<1>14. CASE list \notin WithVersion \cup ByCursor
  <2>1. \/ MarkOf(list, row, i) = <<i, row.at[1]>>
        \/ MarkOf(list, row, i) = <<i, TypeOf(i)>>
        \/ MarkOf(list, row, i) = <<i>>
    BY <1>14 DEF MarkOf, ByCursor, ByMicrosecond, WithVersion
  <2>2. list \notin Versioned BY <1>14 DEF WithVersion, Versioned
  <2>3. MarkOf(list, row, i) \in Seq(Int) BY <1>1, <1>2, <1>3, <1>6, <2>1
  <2>4. MarkOf(list, row, i) # Void BY <1>8, <2>3
  <2>5. MarkOf(list, row, i)[1] = i BY <2>1
  <2> QED BY <1>14, <2>2, <2>4, <2>5
<1> QED BY <1>9, <1>10, <1>11, <1>12, <1>13, <1>14 DEF ByCursor, ByMicrosecond

\* A mark of milliseconds covers its row, and others of its millisecond only.
LEMMA MarkOfMilliseconds ==
    ASSUME ListingAssumption, NEW list \in ByMicrosecond,
           NEW row \in ListedRows, NEW i \in ListIds, NEW other \in ListedRows, NEW j \in ListIds
    PROVE  /\ ~Before(MarkOf(list, row, i), RankOf(list, row, i))
           /\ Before(RankOf(list, row, i), RankOf(list, other, j))
                /\ ~Before(MarkOf(list, row, i), RankOf(list, other, j))
                => other.at[1] = row.at[1]
<1>0. list \in Lists BY DEF Lists, PartyLists, EventLists, ByMicrosecond
<1>1. /\ row.name \in Int /\ row.at[1] \in Int /\ row.at[2] \in Nat
      /\ other.name \in Int /\ other.at[1] \in Int /\ other.at[2] \in Nat
  BY RowParts
<1>2. i \in Int /\ TypeOf(i) \in Int BY TypeOfFacts
<1> DEFINE n == Width(list)
           mark == MarkOf(list, row, i)
           mine == RankOf(list, row, i)
           its == RankOf(list, other, j)
<1>3. n \in Nat /\ n >= 2 BY WidthFacts
<1>4. mine \in Tuples(n) /\ its \in Tuples(n) BY <1>0, RankFacts
<1>5. mark \in Tuples(n) BY <1>0, MarkFacts DEF ByCursor
<1>6. CASE list = "search"
  <2> DEFINE match == IF row.name = 1 THEN 0 ELSE 1
             matched == IF other.name = 1 THEN 0 ELSE 1
  <2>1. /\ mark = <<match, -row.at[1], 0, TypeOf(i), i>>
        /\ mine = <<match, -row.at[1], -row.at[2], TypeOf(i), i>>
        /\ its = <<matched, -other.at[1], -other.at[2], TypeOf(j), j>>
    BY <1>6 DEF MarkOf, RankOf, NamedFirst, ByNameOnly, WithVersion
  <2>2. match \in Int /\ matched \in Int OBVIOUS
  <2>3. ASSUME Before(mark, mine) PROVE FALSE
    <3>1. PICK k \in 1..5 : mark[k] < mine[k] BY <2>1, <2>3 DEF Before
    <3> HIDE DEF match, matched, mark, mine
    <3>2. mark[1] = match /\ mark[2] = -row.at[1] /\ mark[3] = 0 /\ mark[4] = TypeOf(i) /\ mark[5] = i
          /\ mine[1] = match /\ mine[2] = -row.at[1] /\ mine[3] = -row.at[2] /\ mine[4] = TypeOf(i) /\ mine[5] = i
      BY <2>1
    <3>3. k = 1 \/ k = 2 \/ k = 3 \/ k = 4 \/ k = 5 BY <3>1
    <3> QED BY <1>1, <1>2, <2>2, <3>1, <3>2, <3>3
  <2>4. ASSUME Before(mine, its), ~Before(mark, its) PROVE other.at[1] = row.at[1]
    <3>1. mine[1] < its[1] \/ (mine[1] = its[1] /\ mine[2] <= its[2])
      BY <1>3, <1>4, <2>4, BeforeAtHead
    <3>2. its[1] < mark[1] \/ (its[1] = mark[1] /\ its[2] <= mark[2])
      BY <1>3, <1>4, <1>5, <2>4, UpToAtHead
    <3>3. mine[1] = match /\ mine[2] = -row.at[1] /\ mark[1] = match /\ mark[2] = -row.at[1]
          /\ its[1] = matched /\ its[2] = -other.at[1]
      BY <2>1
    <3> HIDE DEF match, matched, mark, mine, its
    <3> QED BY <1>1, <2>2, <3>1, <3>2, <3>3
  <2> QED BY <2>3, <2>4
<1>7. CASE list # "search"
  <2>1. /\ mark = <<-row.at[1], 0, -i>>
        /\ mine = <<-row.at[1], -row.at[2], -i>>
        /\ its = <<-other.at[1], -other.at[2], -j>>
    BY <1>7 DEF MarkOf, RankOf, NamedFirst, ByNameOnly, ByMicrosecond, WithVersion
  <2>3. ASSUME Before(mark, mine) PROVE FALSE
    <3>1. PICK k \in 1..3 : mark[k] < mine[k] BY <2>1, <2>3 DEF Before
    <3> HIDE DEF mark, mine
    <3>2. mark[1] = -row.at[1] /\ mark[2] = 0 /\ mark[3] = -i
          /\ mine[1] = -row.at[1] /\ mine[2] = -row.at[2] /\ mine[3] = -i
      BY <2>1
    <3>3. k = 1 \/ k = 2 \/ k = 3 BY <3>1
    <3> QED BY <1>1, <1>2, <3>1, <3>2, <3>3
  <2>4. ASSUME Before(mine, its), ~Before(mark, its) PROVE other.at[1] = row.at[1]
    <3>1. mine[1] < its[1] \/ mine[1] = its[1] BY <1>3, <1>4, <2>4, BeforeAtHead
    <3>2. its[1] < mark[1] \/ its[1] = mark[1] BY <1>3, <1>4, <1>5, <2>4, UpToAtHead
    <3>3. mine[1] = -row.at[1] /\ mark[1] = -row.at[1] /\ its[1] = -other.at[1] BY <2>1
    <3> HIDE DEF mark, mine, its
    <3> QED BY <1>1, <3>1, <3>2, <3>3
  <2> QED BY <2>3, <2>4
<1> QED BY <1>6, <1>7

\* The mark of a store does not come after its row.
LEMMA MarkOfStores ==
    ASSUME ListingAssumption, NEW row \in ListedRows, NEW i \in ListIds
    PROVE  /\ ~Before(RankOf("stores", row, i), MarkOf("stores", row, i))
           /\ RankOf("stores", row, i)[1] = row.at[1] /\ MarkOf("stores", row, i)[1] = row.at[1]
<1>1. row.at[1] \in Int /\ row.at[2] \in Nat BY RowParts
<1>2. i \in Int BY TypeOfFacts
<1> DEFINE mark == MarkOf("stores", row, i)
           mine == RankOf("stores", row, i)
<1>3. mark = <<row.at[1], 0, i>> /\ mine = <<row.at[1], row.at[2], i>>
  BY DEF MarkOf, RankOf, NamedFirst, ByNameOnly, WithVersion
<1>4. ASSUME Before(mine, mark) PROVE FALSE
  <2>1. PICK k \in 1..3 : mine[k] < mark[k] BY <1>3, <1>4 DEF Before
  <2> HIDE DEF mark, mine
  <2>2. mark[1] = row.at[1] /\ mark[2] = 0 /\ mark[3] = i
        /\ mine[1] = row.at[1] /\ mine[2] = row.at[2] /\ mine[3] = i
    BY <1>3
  <2>3. k = 1 \/ k = 2 \/ k = 3 BY <2>1
  <2> QED BY <1>1, <1>2, <2>1, <2>2, <2>3
<1> QED BY <1>3, <1>4

-----------------------------------------------------------------------------
(* The inductive invariant, as operators of a table t and a walk w.  What  *)
(* the client holds between two pages is a position: its cursor, or the    *)
(* rank that the row it names has when it is read again.  The rows nobody  *)
(* touched are shown up to this position and not beyond (Passed).          *)
SteadyIn(w) == w.start \ w.moved
ShownIn(w) == {w.shown[p] : p \in DOMAIN w.shown}
LastOf(w) == w.shown[Len(w.shown)]

\* A report by name and a search keep their place only by rows that were not written since.
Undisturbed(w) == w.list \in ByNameOnly \cup {"search"} => ShownIn(w) \subseteq SteadyIn(w)

Reached(t, w, P, j) ==
    IF w.list = "stores" THEN t[j].at[1] <= P[1] ELSE ~Before(P, RankIn(t, w, j))
Accounted(t, w, j) ==
    \/ j \in ShownIn(w)
    \/ w.list \in ByMicrosecond /\ \E k \in ShownIn(w) \ {j} : t[k].at[1] = t[j].at[1]
Passed(t, w, P) ==
    \A j \in SteadyIn(w) :
        /\ j \in ShownIn(w) => Reached(t, w, P, j)
        /\ ~Before(P, RankIn(t, w, j)) => Accounted(t, w, j)

Phases == {"asking", "resolved", "over", "anchorGone", "ofOtherFilters"}
WalkType(w) ==
    /\ w = [list |-> w.list, scope |-> w.scope, limit |-> w.limit, phase |-> w.phase,
            cursor |-> w.cursor, position |-> w.position, shown |-> w.shown,
            start |-> w.start, moved |-> w.moved]
    /\ w.list \in Lists /\ w.limit \in Nat \ {0} /\ w.phase \in Phases
    /\ w.shown \in Seq(ListIds) /\ w.start \subseteq ListIds

RowsKnow(t, w) ==
    /\ t \in [ListIds -> ListedRows \cup {Void}]
    /\ SteadyIn(w) \subseteq IdsOf(t, w)
    /\ \A i \in ShownIn(w) : t[i] # Void

CursorKnows(t, w) ==
    (w.phase \in {"asking", "resolved"} /\ w.cursor # Void) =>
        LET a == LastOf(w) IN
        /\ w.shown # <<>>
        /\ a \notin w.moved => a \in IdsOf(t, w) /\ MarkOf(w.list, t[a], a) = w.cursor
        /\ w.list \in ByCursor =>
             w.cursor \in Tuples(Width(w.list)) /\ (Undisturbed(w) => Passed(t, w, w.cursor))
        /\ w.list \notin ByCursor => w.cursor[1] = a
        /\ w.list \in Versioned => w.cursor = <<a, w.cursor[2]>> /\ w.cursor[2] \in Nat /\ w.cursor[2] <= t[a].version
        /\ (/\ w.list \notin ByCursor /\ Undisturbed(w)
            /\ w.list \in Versioned => t[a].version = w.cursor[2]) =>
               Passed(t, w, RankIn(t, w, a))

StartKnows(w) ==
    /\ w.phase = "asking" /\ w.cursor = Void => w.shown = <<>>
    /\ w.phase = "resolved" => w.cursor # Void

PositionKnows(t, w) ==
    w.phase = "resolved" =>
        w.position \in Tuples(Width(w.list)) /\ (Undisturbed(w) => Passed(t, w, w.position))

Follows(t, w, i, j) ==
    IF w.list = "stores" THEN t[i].at[1] <= t[j].at[1]
    ELSE Before(RankIn(t, w, i), RankIn(t, w, j))
OrderKnows(t, w) ==
    Undisturbed(w) =>
        \A p, q \in DOMAIN w.shown :
            p < q /\ w.shown[p] \in SteadyIn(w) /\ w.shown[q] \in SteadyIn(w)
              => Follows(t, w, w.shown[p], w.shown[q])

EndKnows(t, w) ==
    w.phase = "over" /\ Undisturbed(w) => \A j \in SteadyIn(w) : Accounted(t, w, j)

RefusalKnows(w) == w.phase = "anchorGone" => LastOf(w) \in w.moved

WalkKnows(t, w) ==
    /\ WalkType(w) /\ RowsKnow(t, w) /\ CursorKnows(t, w) /\ StartKnows(w) /\ PositionKnows(t, w)
    /\ OrderKnows(t, w) /\ EndKnows(t, w) /\ RefusalKnows(w)

ListIInv == WalkKnows(table, walk) /\ written \in Nat

-----------------------------------------------------------------------------
(* What a page shows.                                                      *)
LEMMA SeenFacts ==
    ASSUME ListingAssumption, NEW t, NEW w, WalkType(w), RowsKnow(t, w)
    PROVE  /\ \A i \in IdsOf(t, w) : i \in ListIds /\ t[i] \in ListedRows
           /\ \A i \in IdsOf(t, w) : Seen(t, w).rank[i] = RankIn(t, w, i)
           /\ \A i \in IdsOf(t, w) : RankIn(t, w, i) \in Tuples(Width(w.list))
           /\ \A i, j \in IdsOf(t, w) : RankIn(t, w, i) = RankIn(t, w, j) => i = j
<1>1. \A i \in IdsOf(t, w) : i \in ListIds /\ t[i] \in ListedRows BY DEF IdsOf, RowsKnow
<1>2. \A i \in IdsOf(t, w) : Seen(t, w).rank[i] = RankIn(t, w, i) BY DEF Seen
<1>3. w.list \in Lists BY DEF WalkType
<1>4. \A i \in IdsOf(t, w) : RankIn(t, w, i) \in Tuples(Width(w.list)) BY <1>1, <1>3, RankFacts DEF RankIn
<1>5. \A i, j \in IdsOf(t, w) : RankIn(t, w, i) = RankIn(t, w, j) => i = j
  BY <1>1, <1>3, RankNames DEF RankIn
<1> QED BY <1>1, <1>2, <1>4, <1>5

LEMMA PageItems ==
    ASSUME ListingAssumption, NEW t, NEW w, WalkType(w), RowsKnow(t, w),
           NEW rest \in SUBSET IdsOf(t, w), NEW length \in Nat, length <= Cardinality(rest),
           NEW items, items = RowsInOrder(Seen(t, w), rest, length)
    PROVE  /\ items \in Seq(ListIds) /\ Len(items) = length
           /\ \A m \in 1..length : items[m] \in rest
           /\ \A m, n \in 1..length : m < n => Before(RankIn(t, w, items[m]), RankIn(t, w, items[n]))
           /\ \A i \in rest :
                \/ \E m \in 1..length : items[m] = i
                \/ length # Cardinality(rest)
                   /\ (length > 0 => Before(RankIn(t, w, items[length]), RankIn(t, w, i)))
<1> DEFINE view == Seen(t, w)
           n == Width(w.list)
           N == Cardinality(rest)
           place == [i \in rest |-> Cardinality(RowsBefore(view, rest, i))]
<1>1. \A i \in rest : i \in ListIds /\ view.rank[i] = RankIn(t, w, i) /\ view.rank[i] \in Tuples(n)
  BY SeenFacts
<1>2. \A i, j \in rest : view.rank[i] = view.rank[j] => i = j
  <2> HIDE DEF view
  <2> QED BY <1>1, SeenFacts
<1>3. IsFiniteSet(rest)
  <2>1. rest \in SUBSET ListIds BY <1>1
  <2> QED BY <2>1, FS_Subset DEF ListingAssumption
<1>4. n \in Nat BY WidthFacts
<1>5. N \in Nat BY <1>3, FS_CardinalityType
<1>6. RankedApart(view.rank, rest, n)
  <2> HIDE DEF view, n
  <2> QED BY <1>1, <1>2 DEF RankedApart
<1> HIDE DEF view, n
<1>7. /\ \A i \in rest : place[i] \in 0..(N - 1)
      /\ \A i, j \in rest : Before(view.rank[i], view.rank[j]) => place[i] < place[j]
      /\ \A m \in 1..N : \E i \in rest : place[i] = m - 1
  BY <1>3, <1>4, <1>6, PlaceInRest
<1>8. items = [m \in 1..length |-> CHOOSE i \in rest : place[i] = m - 1]
  <2>1. items = [m \in 1..length |-> CHOOSE i \in rest : Cardinality(RowsBefore(view, rest, i)) = m - 1]
    BY DEF RowsInOrder, view
  <2>2. ASSUME NEW m PROVE (CHOOSE i \in rest : Cardinality(RowsBefore(view, rest, i)) = m - 1)
                             = (CHOOSE i \in rest : place[i] = m - 1)
    <3>1. \A i \in rest : place[i] = Cardinality(RowsBefore(view, rest, i)) OBVIOUS
    <3> HIDE DEF place
    <3> QED BY <3>1
  <2> HIDE DEF place
  <2> QED BY <2>1, <2>2
<1> HIDE DEF place
<1>9. ASSUME NEW m \in 1..length PROVE items[m] \in rest /\ place[items[m]] = m - 1
  <2>1. m \in 1..N BY <1>5
  <2>2. \E i \in rest : place[i] = m - 1 BY <1>7, <2>1
  <2>3. items[m] = CHOOSE i \in rest : place[i] = m - 1 BY <1>8
  <2> QED BY <2>2, <2>3
<1>10. items \in Seq(ListIds) /\ Len(items) = length
  <2>1. items \in [1..length -> ListIds] BY <1>1, <1>8, <1>9
  <2> QED BY <2>1
<1>11. ASSUME NEW i \in rest, NEW j \in rest, place[i] < place[j]
       PROVE  Before(view.rank[i], view.rank[j])
  <2>1. place[i] \in Int /\ place[j] \in Int BY <1>7
  <2>2. i # j /\ ~Before(view.rank[j], view.rank[i]) BY <1>7, <1>11, <2>1
  <2> QED BY <1>1, <1>2, <1>4, <2>2, BeforeIsTotal
<1>12. ASSUME NEW i \in rest, NEW j \in rest, place[i] = place[j] PROVE i = j
  <2>1. place[i] \in Int /\ place[j] \in Int BY <1>7
  <2>2. ~Before(view.rank[i], view.rank[j]) /\ ~Before(view.rank[j], view.rank[i]) BY <1>7, <1>12, <2>1
  <2> QED BY <1>1, <1>2, <1>4, <2>2, BeforeIsTotal
<1>13. ASSUME NEW k \in 1..length, NEW m \in 1..length, k < m
       PROVE  Before(RankIn(t, w, items[k]), RankIn(t, w, items[m]))
  <2>1. place[items[k]] < place[items[m]] BY <1>9, <1>13
  <2> QED BY <1>1, <1>9, <1>11, <2>1
<1>14. ASSUME NEW i \in rest, ~ \E m \in 1..length : items[m] = i
       PROVE  length # N /\ (length > 0 => Before(RankIn(t, w, items[length]), RankIn(t, w, i)))
  <2>1. place[i] \in 0..(N - 1) BY <1>7
  <2>2. place[i] + 1 \notin 1..length
    <3> SUFFICES ASSUME place[i] + 1 \in 1..length PROVE FALSE OBVIOUS
    <3>1. place[items[place[i] + 1]] = place[i] /\ items[place[i] + 1] \in rest BY <1>9, <2>1
    <3> QED BY <1>12, <1>14, <3>1
  <2>3. length <= place[i] /\ length # N BY <1>5, <2>1, <2>2
  <2>4. ASSUME length > 0 PROVE Before(RankIn(t, w, items[length]), RankIn(t, w, i))
    <3>1. items[length] \in rest /\ place[items[length]] = length - 1 BY <1>9, <2>4
    <3>2. place[items[length]] < place[i] BY <2>1, <2>3, <3>1
    <3> QED BY <1>1, <1>11, <3>1, <3>2
  <2> QED BY <2>3, <2>4
<1> QED BY <1>9, <1>10, <1>13, <1>14

\* The position after a page whose last row is i.
EndOf(list, row, i) == IF list \in ByCursor THEN MarkOf(list, row, i) ELSE RankOf(list, row, i)

LEMMA EndFacts ==
    ASSUME ListingAssumption, NEW list \in Lists, NEW row \in ListedRows, NEW i \in ListIds,
           NEW other \in ListedRows, NEW j \in ListIds
    PROVE  /\ EndOf(list, row, i) \in Tuples(Width(list))
           /\ list # "stores" => ~Before(EndOf(list, row, i), RankOf(list, row, i))
           /\ list = "stores" => EndOf(list, row, i)[1] = row.at[1]
           /\ ~Before(EndOf(list, row, i), RankOf(list, other, j))
                /\ Before(RankOf(list, row, i), RankOf(list, other, j))
                => list \in ByMicrosecond /\ other.at[1] = row.at[1]
<1> DEFINE n == Width(list)
           mine == RankOf(list, row, i)
           its == RankOf(list, other, j)
           end == EndOf(list, row, i)
<1>1. mine \in Tuples(n) /\ its \in Tuples(n) /\ n \in Nat BY RankFacts, WidthFacts
<1>2. CASE list \in ByMicrosecond
  <2>1. end = MarkOf(list, row, i) /\ list # "stores" BY <1>2 DEF EndOf, ByCursor, ByMicrosecond
  <2>2. end \in Tuples(n) BY <1>2, <2>1, MarkFacts DEF ByCursor
  <2>3. ~Before(end, mine) /\ (Before(mine, its) /\ ~Before(end, its) => other.at[1] = row.at[1])
    BY <1>2, <2>1, MarkOfMilliseconds
  <2> QED BY <1>2, <2>1, <2>2, <2>3
<1>3. CASE list = "stores"
  <2>1. end = MarkOf(list, row, i) /\ list \notin ByMicrosecond
    BY <1>3 DEF EndOf, ByCursor, ByMicrosecond
  <2>2. end \in Tuples(n) BY <1>3, <2>1, MarkFacts DEF ByCursor
  <2>3. ~Before(mine, end) /\ end[1] = row.at[1] BY <1>3, <2>1, MarkOfStores
  <2>4. Before(mine, its) => Before(end, its) BY <1>1, <2>2, <2>3, UpToIsBefore
  <2> QED BY <1>3, <2>2, <2>3, <2>4
<1>4. CASE list \notin ByMicrosecond \cup {"stores"}
  <2>1. end = mine
    <3>1. CASE list = "customers" BY <3>1 DEF EndOf, ByCursor, MarkOf, RankOf, NamedFirst, ByNameOnly, WithVersion
    <3>2. CASE list # "customers" BY <1>4, <3>2 DEF EndOf, ByCursor
    <3> QED BY <3>1, <3>2
  <2>2. ~Before(mine, mine) BY <1>1, BeforeIsStrict
  <2> QED BY <1>1, <1>4, <2>1, <2>2
<1> QED BY <1>2, <1>3, <1>4

\* The step of a page, from the position P on.
PageFrom(t, w, v, P) ==
    LET view == Seen(t, w)
        rest == Rest(view, P)
        more == Cardinality(rest) > w.limit
        items == RowsInOrder(view, rest, IF more THEN w.limit ELSE Cardinality(rest)) IN
    v = [w EXCEPT
           !.phase = IF more THEN "asking" ELSE "over",
           !.cursor = IF more THEN view.mark[items[w.limit]] ELSE Void,
           !.position = Void,
           !.shown = @ \o items,
           !.start = IF w.cursor = Void THEN view.ids ELSE @,
           !.moved = IF w.cursor = Void THEN {} ELSE @]

\* What is known before the page: nothing was shown, or all up to the position.
PageMayStart(t, w, P) ==
    \/ w.cursor = Void /\ w.phase = "asking" /\ P = Void
    \/ /\ w.cursor # Void /\ P \in Tuples(Width(w.list)) /\ P # Void
       /\ Undisturbed(w) => Passed(t, w, P)

LEMMA AppendedIs ==
    ASSUME NEW S, NEW a \in Seq(S), NEW b \in Seq(S), NEW s, s = a \o b
    PROVE  /\ s \in Seq(S) /\ Len(s) = Len(a) + Len(b) /\ DOMAIN s = 1..(Len(a) + Len(b))
           /\ \A p \in 1..Len(a) : s[p] = a[p]
           /\ \A p \in 1..Len(b) : s[Len(a) + p] = b[p]
           /\ \A p \in DOMAIN s : p \in 1..Len(a) \/ (p - Len(a) \in 1..Len(b) /\ s[p] = b[p - Len(a)])
OBVIOUS

\* The rows of a page, and what it leaves.
PageIs(t, w, v, P, items) ==
    LET rest == {i \in IdsOf(t, w) : P = Void \/ Before(P, RankIn(t, w, i))}
        last == items[Len(items)] IN
    /\ \A m \in 1..Len(items) : items[m] \in rest
    /\ \A m, n \in 1..Len(items) : m < n => Before(RankIn(t, w, items[m]), RankIn(t, w, items[n]))
    /\ \A i \in rest : \/ \E m \in 1..Len(items) : items[m] = i
                       \/ v.phase = "asking" /\ Before(RankIn(t, w, last), RankIn(t, w, i))
    /\ v = [list |-> w.list, scope |-> w.scope, limit |-> w.limit, phase |-> v.phase,
            cursor |-> v.cursor, position |-> Void, shown |-> w.shown \o items,
            start |-> IF w.cursor = Void THEN IdsOf(t, w) ELSE w.start,
            moved |-> IF w.cursor = Void THEN {} ELSE w.moved]
    /\ \/ v.phase = "asking" /\ Len(items) > 0 /\ v.cursor = MarkOf(w.list, t[last], last)
       \/ v.phase = "over" /\ v.cursor = Void

LEMMA PageParts ==
    ASSUME ListingAssumption, NEW t, NEW w, WalkType(w), RowsKnow(t, w), StartKnows(w),
           w.phase \in {"asking", "resolved"},
           NEW P, PageMayStart(t, w, P), NEW v, PageFrom(t, w, v, P)
    PROVE  \E items \in Seq(ListIds) : PageIs(t, w, v, P, items)
<1> DEFINE view == Seen(t, w)
           rest == Rest(view, P)
           kept == {i \in IdsOf(t, w) : P = Void \/ Before(P, RankIn(t, w, i))}
           more == Cardinality(rest) > w.limit
           length == IF more THEN w.limit ELSE Cardinality(rest)
           items == RowsInOrder(view, rest, length)
<1>1. view.ids = IdsOf(t, w) /\ \A i \in view.ids : view.rank[i] = RankIn(t, w, i)
  BY DEF Seen
<1>2. rest = kept BY <1>1 DEF Rest
<1>3. rest \in SUBSET IdsOf(t, w) BY <1>2
<1>4. IsFiniteSet(rest) /\ Cardinality(rest) \in Nat
  <2>1. rest \in SUBSET ListIds BY <1>3 DEF IdsOf
  <2>2. IsFiniteSet(rest) BY <2>1, FS_Subset DEF ListingAssumption
  <2> QED BY <2>2, FS_CardinalityType
<1>5. w.limit \in Nat /\ w.limit > 0 BY DEF WalkType
<1>6. length \in Nat /\ length <= Cardinality(rest) BY <1>4, <1>5
<1>7. /\ items \in Seq(ListIds) /\ Len(items) = length
      /\ \A m \in 1..length : items[m] \in rest
      /\ \A m, n \in 1..length : m < n => Before(RankIn(t, w, items[m]), RankIn(t, w, items[n]))
      /\ \A i \in rest :
           \/ \E m \in 1..length : items[m] = i
           \/ length # Cardinality(rest)
              /\ (length > 0 => Before(RankIn(t, w, items[length]), RankIn(t, w, i)))
  <2> HIDE DEF view, rest, length
  <2> QED BY <1>3, <1>6, PageItems DEF view
<1>8. v = [w EXCEPT
           !.phase = IF more THEN "asking" ELSE "over",
           !.cursor = IF more THEN view.mark[items[w.limit]] ELSE Void,
           !.position = Void,
           !.shown = w.shown \o items,
           !.start = IF w.cursor = Void THEN view.ids ELSE w.start,
           !.moved = IF w.cursor = Void THEN {} ELSE w.moved]
  BY DEF PageFrom
<1>9. more => items[w.limit] \in IdsOf(t, w) /\ view.mark[items[w.limit]] = MarkOf(w.list, t[items[w.limit]], items[w.limit])
  <2> SUFFICES ASSUME more PROVE items[w.limit] \in IdsOf(t, w)
                 /\ view.mark[items[w.limit]] = MarkOf(w.list, t[items[w.limit]], items[w.limit])
    OBVIOUS
  <2>1. w.limit \in 1..length BY <1>5
  <2>2. items[w.limit] \in IdsOf(t, w)
    <3> HIDE DEF items, rest, length
    <3> QED BY <1>3, <1>7, <2>1
  <2> HIDE DEF items
  <2> QED BY <2>2 DEF Seen
<1> HIDE DEF view, rest, items
<1>10. /\ v.phase = IF more THEN "asking" ELSE "over"
       /\ v.cursor = IF more THEN view.mark[items[w.limit]] ELSE Void
       /\ v = [list |-> w.list, scope |-> w.scope, limit |-> w.limit, phase |-> v.phase,
               cursor |-> v.cursor, position |-> Void, shown |-> w.shown \o items,
               start |-> IF w.cursor = Void THEN IdsOf(t, w) ELSE w.start,
               moved |-> IF w.cursor = Void THEN {} ELSE w.moved]
  BY <1>1, <1>8 DEF WalkType
<1>11. more => length = w.limit /\ length # Cardinality(rest) /\ Len(items) > 0 BY <1>4, <1>5, <1>7
<1>12. ~more => length = Cardinality(rest) OBVIOUS
<1> HIDE DEF more, length
<1>13. \A i \in kept : \/ \E m \in 1..Len(items) : items[m] = i
                       \/ v.phase = "asking" /\ Before(RankIn(t, w, items[Len(items)]), RankIn(t, w, i))
  BY <1>2, <1>7, <1>10, <1>11, <1>12
<1>14. \/ v.phase = "asking" /\ Len(items) > 0 /\ v.cursor = MarkOf(w.list, t[items[Len(items)]], items[Len(items)])
       \/ v.phase = "over" /\ v.cursor = Void
  BY <1>7, <1>9, <1>10, <1>11
<1>15. /\ \A m \in 1..Len(items) : items[m] \in kept
       /\ \A m, n \in 1..Len(items) : m < n => Before(RankIn(t, w, items[m]), RankIn(t, w, items[n]))
  BY <1>2, <1>7
<1>16. PageIs(t, w, v, P, items) BY <1>10, <1>13, <1>14, <1>15 DEF PageIs
<1> QED BY <1>7, <1>16

\* A page keeps the invariant.
LEMMA PageKeeps ==
    ASSUME ListingAssumption, NEW t, NEW w, WalkKnows(t, w), w.phase \in {"asking", "resolved"},
           NEW P, PageMayStart(t, w, P), NEW v, PageFrom(t, w, v, P)
    PROVE  WalkKnows(t, v)
<1> DEFINE ids == IdsOf(t, w)
           R(i) == RankIn(t, w, i)
           n == Width(w.list)
<1>1. WalkType(w) /\ RowsKnow(t, w) /\ StartKnows(w) /\ OrderKnows(t, w) BY DEF WalkKnows
<1>2. PICK items \in Seq(ListIds) : PageIs(t, w, v, P, items)
  BY <1>1, PageParts
<1> DEFINE rest == {i \in ids : P = Void \/ Before(P, R(i))}
           last == items[Len(items)]
           steady == SteadyIn(v)
<1>3. /\ v.list = w.list /\ v.scope = w.scope /\ v.limit = w.limit /\ v.position = Void
      /\ v.shown = w.shown \o items
      /\ v.start = IF w.cursor = Void THEN ids ELSE w.start
      /\ v.moved = IF w.cursor = Void THEN {} ELSE w.moved
      /\ v = [list |-> w.list, scope |-> w.scope, limit |-> w.limit, phase |-> v.phase,
              cursor |-> v.cursor, position |-> Void, shown |-> v.shown,
              start |-> v.start, moved |-> v.moved]
  BY <1>2 DEF PageIs
<1>4. /\ \A m \in 1..Len(items) : items[m] \in rest
      /\ \A m, k \in 1..Len(items) : m < k => Before(R(items[m]), R(items[k]))
      /\ \A i \in rest : \/ \E m \in 1..Len(items) : items[m] = i
                         \/ v.phase = "asking" /\ Before(R(last), R(i))
      /\ \/ v.phase = "asking" /\ Len(items) > 0 /\ v.cursor = MarkOf(w.list, t[last], last)
         \/ v.phase = "over" /\ v.cursor = Void
  BY <1>2, Zenon DEF PageIs
<1>5. IdsOf(t, v) = ids /\ \A i : RankIn(t, v, i) = R(i) BY <1>3 DEF IdsOf, RankIn
<1>6. /\ \A i \in ids : i \in ListIds /\ t[i] \in ListedRows /\ R(i) \in Tuples(n)
      /\ n \in Nat /\ n >= 2 /\ w.list \in Lists
  BY <1>1, SeenFacts, WidthFacts DEF WalkType
<1>7. w.shown \in Seq(ListIds) BY <1>1 DEF WalkType
<1>8. /\ v.shown \in Seq(ListIds) /\ Len(v.shown) = Len(w.shown) + Len(items)
      /\ DOMAIN v.shown = 1..(Len(w.shown) + Len(items))
      /\ \A p \in 1..Len(w.shown) : v.shown[p] = w.shown[p]
      /\ \A p \in 1..Len(items) : v.shown[Len(w.shown) + p] = items[p]
      /\ \A p \in DOMAIN v.shown :
           p \in 1..Len(w.shown) \/ (p - Len(w.shown) \in 1..Len(items) /\ v.shown[p] = items[p - Len(w.shown)])
  BY <1>2, <1>3, <1>7, AppendedIs
<1>9. ShownIn(v) = ShownIn(w) \cup {items[m] : m \in 1..Len(items)}
  <2>1. ASSUME NEW i \in ShownIn(v) PROVE i \in ShownIn(w) \cup {items[m] : m \in 1..Len(items)}
    <3>1. PICK p \in DOMAIN v.shown : i = v.shown[p] BY <2>1 DEF ShownIn
    <3>2. DOMAIN w.shown = 1..Len(w.shown) BY <1>7
    <3> QED BY <1>8, <3>1, <3>2 DEF ShownIn
  <2>2. ASSUME NEW i \in ShownIn(w) PROVE i \in ShownIn(v)
    <3>1. PICK p \in 1..Len(w.shown) : i = w.shown[p] BY <1>7, <2>2 DEF ShownIn
    <3>2. p \in DOMAIN v.shown BY <1>2, <1>7, <1>8
    <3> QED BY <1>8, <3>1, <3>2 DEF ShownIn
  <2>3. ASSUME NEW m \in 1..Len(items) PROVE items[m] \in ShownIn(v)
    <3>1. Len(w.shown) + m \in DOMAIN v.shown BY <1>2, <1>7, <1>8
    <3> QED BY <1>8, <3>1 DEF ShownIn
  <2> QED BY <2>1, <2>2, <2>3
<1>10. w.cursor = Void => ShownIn(w) = {} /\ w.shown = <<>> /\ P = Void
  BY <1>1 DEF StartKnows, ShownIn, PageMayStart
<1>11. w.cursor # Void => P # Void /\ P \in Tuples(n) /\ steady = SteadyIn(w) /\ (Undisturbed(w) => Passed(t, w, P))
  BY <1>3 DEF PageMayStart, SteadyIn
<1>12. steady \subseteq ids
  <2>1. CASE w.cursor = Void BY <1>3, <2>1 DEF SteadyIn
  <2>2. CASE w.cursor # Void BY <1>1, <1>11, <2>2 DEF RowsKnow
  <2> QED BY <2>1, <2>2
<1>13. Undisturbed(v) => Undisturbed(w) BY <1>3, <1>9, <1>10, <1>11 DEF Undisturbed
<1>14. ASSUME NEW i \in ShownIn(w), Undisturbed(v), i \in steady
       PROVE  w.cursor # Void /\ i \in SteadyIn(w) /\ Reached(t, w, P, i)
  BY <1>10, <1>11, <1>13, <1>14 DEF Passed
<1>15. ASSUME NEW j \in steady, Undisturbed(v), j \notin rest
       PROVE  Accounted(t, v, j)
  <2>1. P # Void /\ ~Before(P, R(j)) BY <1>12, <1>15
  <2>2. Accounted(t, w, j) BY <1>10, <1>11, <1>13, <1>15, <2>1 DEF Passed
  <2> QED BY <1>3, <1>9, <2>2 DEF Accounted
<1> HIDE DEF ids, R, n, rest, steady, last
<1>16. \A m \in 1..Len(items) : items[m] \in rest /\ items[m] \in ids BY <1>4 DEF rest
<1>17. \A i \in rest : i \in ids /\ (P # Void => Before(P, R(i))) BY DEF rest
\* What was shown before comes before the rows of the page.
<1>18. ASSUME NEW i \in ShownIn(w), Undisturbed(v), i \in steady, NEW j \in rest
       PROVE  Follows(t, v, i, j) /\ (w.list # "stores" => Before(R(i), R(j)))
  <2>1. w.cursor # Void /\ Reached(t, w, P, i) BY <1>14, <1>18
  <2>2. P \in Tuples(n) /\ Before(P, R(j)) BY <1>11, <1>17, <2>1
  <2>3. i \in ids /\ j \in ids BY <1>12, <1>17, <1>18
  <2>4. CASE w.list = "stores"
    <3>1. t[i].at[1] <= P[1] BY <2>1, <2>4 DEF Reached
    <3>2. P[1] <= R(j)[1]
      <4>1. P[1] < R(j)[1] \/ P[1] = R(j)[1] BY <1>6, <2>2, <2>3, BeforeAtHead
      <4>2. P[1] \in Int /\ R(j)[1] \in Int BY <1>6, <2>2, <2>3 DEF Tuples
      <4> QED BY <4>1, <4>2
    <3>3. R(j)[1] = t[j].at[1] BY <1>6, <2>3, <2>4, MarkOfStores DEF R, RankIn
    <3>4. t[i].at[1] \in Int /\ t[j].at[1] \in Int BY <1>6, <2>3, RowParts
    <3>5. P[1] \in Int BY <1>6, <2>2 DEF Tuples
    <3>6. t[i].at[1] <= t[j].at[1] BY <3>1, <3>2, <3>3, <3>4, <3>5
    <3> QED BY <1>3, <2>4, <3>6 DEF Follows
  <2>5. CASE w.list # "stores"
    <3>1. ~Before(P, R(i)) BY <2>1, <2>5 DEF Reached, R
    <3>2. Before(R(i), R(j)) BY <1>6, <2>2, <2>3, <3>1, UpToIsBefore
    <3> QED BY <1>3, <1>5, <2>5, <3>2 DEF Follows
  <2> QED BY <2>4, <2>5
\* The rows of the page follow each other.
<1>19. ASSUME NEW k \in 1..Len(items), NEW m \in 1..Len(items), k < m
       PROVE  Follows(t, v, items[k], items[m])
  <2>1. Before(R(items[k]), R(items[m])) BY <1>4, <1>19
  <2>2. items[k] \in ids /\ items[m] \in ids BY <1>16
  <2>3. CASE w.list = "stores"
    <3>1. R(items[k])[1] < R(items[m])[1] \/ R(items[k])[1] = R(items[m])[1]
      BY <1>6, <2>1, <2>2, BeforeAtHead
    <3>2. R(items[k])[1] = t[items[k]].at[1] /\ R(items[m])[1] = t[items[m]].at[1]
      BY <1>6, <2>2, <2>3, MarkOfStores DEF R, RankIn
    <3>3. t[items[k]].at[1] \in Int /\ t[items[m]].at[1] \in Int BY <1>6, <2>2, RowParts
    <3>4. t[items[k]].at[1] <= t[items[m]].at[1] BY <3>1, <3>2, <3>3
    <3> QED BY <1>3, <2>3, <3>4 DEF Follows
  <2>4. CASE w.list # "stores" BY <1>3, <1>5, <2>1, <2>4 DEF Follows
  <2> QED BY <2>3, <2>4
<1>20. OrderKnows(t, v)
  <2> SUFFICES ASSUME Undisturbed(v), NEW p \in DOMAIN v.shown, NEW q \in DOMAIN v.shown, p < q,
                      v.shown[p] \in steady, v.shown[q] \in steady
               PROVE  Follows(t, v, v.shown[p], v.shown[q])
    BY DEF OrderKnows, steady
  <2>1. p \in Nat /\ q \in Nat /\ Len(w.shown) \in Nat /\ Len(items) \in Nat BY <1>2, <1>7, <1>8
  <2>2. CASE q \in 1..Len(w.shown)
    <3>1. p \in 1..Len(w.shown) BY <1>8, <2>1, <2>2
    <3>2. v.shown[p] = w.shown[p] /\ v.shown[q] = w.shown[q] /\ p \in DOMAIN w.shown /\ q \in DOMAIN w.shown
      BY <1>7, <1>8, <2>2, <3>1
    <3>3. w.shown[p] \in ShownIn(w) /\ w.shown[q] \in ShownIn(w) BY <3>2 DEF ShownIn
    <3>4. w.shown[p] \in SteadyIn(w) /\ w.shown[q] \in SteadyIn(w) BY <1>14, <3>2, <3>3
    <3>5. Follows(t, w, w.shown[p], w.shown[q]) BY <1>1, <1>13, <3>2, <3>4 DEF OrderKnows
    <3> QED BY <1>3, <3>2, <3>5 DEF Follows, RankIn
  <2>3. CASE q \notin 1..Len(w.shown)
    <3>1. q - Len(w.shown) \in 1..Len(items) /\ v.shown[q] = items[q - Len(w.shown)] BY <1>8, <2>3
    <3>2. CASE p \in 1..Len(w.shown)
      <4>1. v.shown[p] = w.shown[p] /\ p \in DOMAIN w.shown BY <1>7, <1>8, <3>2
      <4>2. v.shown[p] \in ShownIn(w) BY <4>1 DEF ShownIn
      <4>3. v.shown[q] \in rest BY <1>16, <3>1
      <4> QED BY <1>18, <4>2, <4>3
    <3>3. CASE p \notin 1..Len(w.shown)
      <4>1. p - Len(w.shown) \in 1..Len(items) /\ v.shown[p] = items[p - Len(w.shown)] BY <1>8, <3>3
      <4>2. p - Len(w.shown) < q - Len(w.shown) BY <2>1
      <4> QED BY <1>19, <3>1, <4>1, <4>2
    <3> QED BY <3>2, <3>3
  <2> QED BY <2>2, <2>3
<1>21. EndKnows(t, v)
  <2> SUFFICES ASSUME v.phase = "over", Undisturbed(v), NEW j \in steady PROVE Accounted(t, v, j)
    BY DEF EndKnows, steady
  <2>1. CASE j \notin rest BY <1>15, <2>1
  <2>2. CASE j \in rest
    <3>1. \E m \in 1..Len(items) : items[m] = j BY <1>4, <2>2
    <3> QED BY <1>9, <3>1 DEF Accounted
  <2> QED BY <2>1, <2>2
<1>22. WalkType(v)
  <2>1. v.list \in Lists /\ v.limit \in Nat \ {0} BY <1>1, <1>3 DEF WalkType
  <2>2. v.phase \in Phases BY <1>4 DEF Phases
  <2>3. v.start \subseteq ListIds BY <1>1, <1>3, <1>6 DEF WalkType
  <2>4. v = [list |-> v.list, scope |-> v.scope, limit |-> v.limit, phase |-> v.phase,
             cursor |-> v.cursor, position |-> v.position, shown |-> v.shown,
             start |-> v.start, moved |-> v.moved]
    BY <1>3
  <2> QED BY <1>8, <2>1, <2>2, <2>3, <2>4 DEF WalkType
<1>23. RowsKnow(t, v)
  <2>1. \A i \in ShownIn(v) : t[i] # Void
    BY <1>1, <1>9, <1>16 DEF RowsKnow, IdsOf, ids
  <2>2. SteadyIn(v) \subseteq IdsOf(t, v) BY <1>5, <1>12 DEF steady
  <2> QED BY <1>1, <2>1, <2>2 DEF RowsKnow
<1>24. CASE v.phase = "over"
  <2>1. v.cursor = Void BY <1>4, <1>24
  <2> QED BY <1>20, <1>21, <1>22, <1>23, <1>24, <2>1
        DEF WalkKnows, CursorKnows, StartKnows, PositionKnows, RefusalKnows
<1>25. CASE v.phase = "asking"
  <2>1. Len(items) > 0 /\ v.cursor = MarkOf(w.list, t[last], last) BY <1>4, <1>25
  <2>2. Len(items) \in 1..Len(items) BY <1>2, <2>1
  <2>3. last \in rest /\ last \in ids /\ last \in ListIds /\ t[last] \in ListedRows
    BY <1>6, <1>16, <2>2 DEF last
  <2>4. LastOf(v) = last /\ v.shown # <<>>
    <3>1. Len(v.shown) = Len(w.shown) + Len(items) /\ Len(v.shown) > 0 BY <1>2, <1>7, <1>8, <2>1
    <3>2. v.shown[Len(w.shown) + Len(items)] = items[Len(items)] BY <1>8, <2>2
    <3>3. v.shown # <<>> BY <3>1
    <3> QED BY <3>1, <3>2, <3>3 DEF LastOf, last
  <2>5. /\ MarkOf(w.list, t[last], last) # Void
        /\ w.list \notin ByCursor => MarkOf(w.list, t[last], last)[1] = last
        /\ w.list \in Versioned => MarkOf(w.list, t[last], last) = <<last, t[last].version>>
    BY <1>6, <2>3, MarkFacts
  <2> DEFINE Q == EndOf(w.list, t[last], last)
  <2>6. /\ Q \in Tuples(n)
        /\ w.list # "stores" => ~Before(Q, R(last))
        /\ w.list = "stores" => Q[1] = t[last].at[1]
    BY <1>6, <2>3, EndFacts DEF R, RankIn, n
  <2>7. ASSUME NEW j \in ids, ~Before(Q, R(j)), Before(R(last), R(j))
        PROVE  w.list \in ByMicrosecond /\ t[j].at[1] = t[last].at[1]
    <3>1. j \in ListIds /\ t[j] \in ListedRows BY <1>6
    <3> QED BY <1>6, <2>3, <2>7, <3>1, EndFacts DEF R, RankIn
  <2> HIDE DEF Q
  <2>8. ASSUME Undisturbed(v), NEW j \in steady, j \in ShownIn(v), j # last
        PROVE  Follows(t, v, j, last) /\ (w.list # "stores" => Before(R(j), R(last)))
    <3>1. CASE j \in ShownIn(w) BY <1>18, <2>3, <2>8, <3>1
    <3>2. CASE j \notin ShownIn(w)
      <4>1. PICK m \in 1..Len(items) : j = items[m] BY <1>9, <2>8, <3>2
      <4>2. m < Len(items) BY <1>2, <2>8, <4>1 DEF last
      <4> QED BY <1>4, <1>19, <2>2, <4>1, <4>2 DEF last
    <3> QED BY <3>1, <3>2
  <2>9. ASSUME Undisturbed(v), NEW j \in steady, j \in ShownIn(v) PROVE Reached(t, v, Q, j)
    <3>1. j \in ids BY <1>12
    <3>2. CASE w.list = "stores"
      <4>1. t[j].at[1] <= t[last].at[1]
        <5>1. CASE j = last
          <6>1. t[last].at[1] \in Int BY <2>3, RowParts
          <6> QED BY <5>1, <6>1
        <5>2. CASE j # last BY <1>3, <2>8, <2>9, <3>2, <5>2 DEF Follows
        <5> QED BY <5>1, <5>2
      <4> QED BY <1>3, <2>6, <3>2, <4>1 DEF Reached
    <3>3. CASE w.list # "stores"
      <4>1. ~Before(Q, R(j))
        <5>1. CASE j = last BY <2>6, <3>3, <5>1
        <5>2. CASE j # last
          <6>1. Before(R(j), R(last)) BY <2>8, <2>9, <3>3, <5>2
          <6> QED BY <1>6, <2>3, <2>6, <3>1, <3>3, <6>1, BeforeIsTransitive
        <5> QED BY <5>1, <5>2
      <4> QED BY <1>3, <1>5, <3>3, <4>1 DEF Reached
    <3> QED BY <3>2, <3>3
  <2>10. ASSUME Undisturbed(v), NEW j \in steady, ~Before(Q, R(j)) PROVE Accounted(t, v, j)
    <3>1. CASE j \notin rest BY <1>15, <2>10, <3>1
    <3>2. CASE \E m \in 1..Len(items) : items[m] = j BY <1>9, <3>2 DEF Accounted
    <3>3. CASE j \in rest /\ ~ \E m \in 1..Len(items) : items[m] = j
      <4>1. Before(R(last), R(j)) BY <1>4, <3>3
      <4>2. w.list \in ByMicrosecond /\ t[j].at[1] = t[last].at[1] BY <1>12, <2>7, <2>10, <4>1
      <4>3. last \in ShownIn(v) /\ last # j BY <1>9, <2>2, <3>3 DEF last
      <4> QED BY <1>3, <4>2, <4>3 DEF Accounted
    <3> QED BY <3>1, <3>2, <3>3
  <2>11. Undisturbed(v) => Passed(t, v, Q) BY <1>5, <2>9, <2>10 DEF Passed, steady
  <2>12. CursorKnows(t, v)
    <3>1. w.list \in ByCursor => v.cursor = Q BY <2>1 DEF Q, EndOf
    <3>2. w.list \notin ByCursor => Q = RankIn(t, v, last) BY <1>5 DEF Q, EndOf, R, RankIn
    <3>3. last \in IdsOf(t, v) /\ MarkOf(v.list, t[last], last) = v.cursor BY <1>3, <1>5, <2>1, <2>3
    <3>4. w.list \in Versioned => v.cursor = <<last, t[last].version>> /\ t[last].version \in Nat
      BY <2>1, <2>3, <2>5, RowParts
    <3>5. w.list \in Versioned => v.cursor = <<last, v.cursor[2]>> /\ v.cursor[2] \in Nat /\ v.cursor[2] <= t[last].version
      BY <3>4
    <3> QED BY <1>3, <2>1, <2>4, <2>5, <2>6, <2>11, <3>1, <3>2, <3>3, <3>5 DEF CursorKnows, n
  <2> QED BY <1>20, <1>21, <1>22, <1>23, <1>25, <2>1, <2>5, <2>12
        DEF WalkKnows, StartKnows, PositionKnows, RefusalKnows
<1> QED BY <1>4, <1>24, <1>25

-----------------------------------------------------------------------------
(* What a write leaves.  Rows stay in the table; a party has a new version *)
(* with every write, and of everything else the instant is written once.   *)
WriteIs(t, w, u, v, S) ==
    /\ u \in [ListIds -> ListedRows \cup {Void}]
    /\ \A i \in ListIds \ S : u[i] = t[i]
    /\ \A i \in ListIds : t[i] # Void =>
         /\ u[i] # Void
         /\ w.list \notin PartyLists => u[i].at = t[i].at
         /\ w.list \in PartyLists /\ i \in S => u[i].version > t[i].version
    /\ v = [list |-> w.list, scope |-> w.scope, limit |-> w.limit, phase |-> w.phase,
            cursor |-> w.cursor, position |-> w.position, shown |-> w.shown,
            start |-> w.start, moved |-> w.moved \cup S]

LEMMA RankByInstant ==
    ASSUME NEW list, list \notin NamedFirst \cup {"products", "search"},
           NEW row, NEW other, NEW i, row.at = other.at
    PROVE  RankOf(list, row, i) = RankOf(list, other, i)
BY DEF RankOf

LEMMA WriteKeeps ==
    ASSUME ListingAssumption, NEW t, NEW w, WalkKnows(t, w), NEW u, NEW v, NEW S, WriteIs(t, w, u, v, S)
    PROVE  WalkKnows(u, v)
<1>1. /\ v.list = w.list /\ v.scope = w.scope /\ v.limit = w.limit /\ v.phase = w.phase
      /\ v.cursor = w.cursor /\ v.position = w.position /\ v.shown = w.shown /\ v.start = w.start
      /\ v.moved = w.moved \cup S
  BY DEF WriteIs
<1>2. WalkType(w) /\ RowsKnow(t, w) BY DEF WalkKnows
<1>3. SteadyIn(v) = SteadyIn(w) \ S /\ ShownIn(v) = ShownIn(w) /\ LastOf(v) = LastOf(w)
  BY <1>1 DEF SteadyIn, ShownIn, LastOf
<1>4. ShownIn(w) \subseteq ListIds /\ SteadyIn(w) \subseteq ListIds
  BY <1>2 DEF WalkType, ShownIn, SteadyIn
<1>5. \A j \in SteadyIn(v) : j \in SteadyIn(w) /\ u[j] = t[j] /\ RankIn(u, v, j) = RankIn(t, w, j)
  BY <1>1, <1>3, <1>4 DEF WriteIs, RankIn
<1>6. Undisturbed(v) => Undisturbed(w) BY <1>1, <1>3 DEF Undisturbed
<1>7. ASSUME Undisturbed(v), NEW j \in SteadyIn(v), Accounted(t, w, j) PROVE Accounted(u, v, j)
  <2>1. CASE j \in ShownIn(w) BY <1>3, <2>1 DEF Accounted
  <2>2. CASE j \notin ShownIn(w)
    <3>1. w.list \in ByMicrosecond /\ \E k \in ShownIn(w) \ {j} : t[k].at[1] = t[j].at[1]
      BY <1>7, <2>2 DEF Accounted
    <3>2. PICK k \in ShownIn(w) \ {j} : t[k].at[1] = t[j].at[1] BY <3>1
    <3>3. u[k].at = t[k].at
      <4>1. CASE w.list = "search"
        <5>1. k \in SteadyIn(v) BY <1>1, <1>3, <1>7, <4>1 DEF Undisturbed
        <5> QED BY <1>5, <5>1
      <4>2. CASE w.list # "search"
        <5>1. w.list \notin PartyLists BY <3>1, <4>2 DEF ByMicrosecond, PartyLists, ByNameOnly
        <5>2. k \in ListIds /\ t[k] # Void BY <1>2, <1>4 DEF RowsKnow
        <5> QED BY <5>1, <5>2 DEF WriteIs
      <4> QED BY <4>1, <4>2
    <3>4. u[k].at[1] = u[j].at[1] BY <1>5, <3>2, <3>3
    <3> QED BY <1>1, <1>3, <3>1, <3>4 DEF Accounted
  <2> QED BY <2>1, <2>2
<1>8. ASSUME Undisturbed(v), NEW P, Passed(t, w, P) PROVE Passed(u, v, P)
  <2>1. ASSUME NEW j \in SteadyIn(v), j \in ShownIn(v) PROVE Reached(u, v, P, j)
    <3>1. Reached(t, w, P, j) BY <1>3, <1>5, <1>8, <2>1 DEF Passed
    <3> QED BY <1>1, <1>5, <3>1 DEF Reached
  <2>2. ASSUME NEW j \in SteadyIn(v), ~Before(P, RankIn(u, v, j)) PROVE Accounted(u, v, j)
    <3>1. Accounted(t, w, j) BY <1>5, <1>8, <2>2 DEF Passed
    <3> QED BY <1>7, <1>8, <3>1
  <2> QED BY <2>1, <2>2 DEF Passed
<1>9. WalkType(v) BY <1>1, <1>2 DEF WalkType, WriteIs
<1>10. RowsKnow(u, v)
  <2>1. SteadyIn(v) \subseteq IdsOf(u, v) BY <1>1, <1>2, <1>5 DEF RowsKnow, IdsOf
  <2>2. \A i \in ShownIn(v) : u[i] # Void BY <1>2, <1>3, <1>4 DEF RowsKnow, WriteIs
  <2> QED BY <2>1, <2>2 DEF RowsKnow, WriteIs
<1>11. CursorKnows(u, v)
  <2> SUFFICES ASSUME v.phase \in {"asking", "resolved"}, v.cursor # Void
               PROVE  LET a == LastOf(w) IN
                 /\ v.shown # <<>>
                 /\ a \notin v.moved => a \in IdsOf(u, v) /\ MarkOf(w.list, u[a], a) = w.cursor
                 /\ w.list \in ByCursor =>
                      w.cursor \in Tuples(Width(w.list)) /\ (Undisturbed(v) => Passed(u, v, w.cursor))
                 /\ w.list \notin ByCursor => w.cursor[1] = a
                 /\ w.list \in Versioned => w.cursor = <<a, w.cursor[2]>> /\ w.cursor[2] \in Nat /\ w.cursor[2] <= u[a].version
                 /\ (/\ w.list \notin ByCursor /\ Undisturbed(v)
                     /\ w.list \in Versioned => u[a].version = w.cursor[2]) =>
                        Passed(u, v, RankIn(u, v, a))
    BY <1>1, <1>3 DEF CursorKnows
  <2> DEFINE a == LastOf(w)
  <2>1. CursorKnows(t, w) /\ w.phase \in {"asking", "resolved"} /\ w.cursor # Void BY <1>1 DEF WalkKnows
  <2>2. w.shown # <<>> BY <2>1 DEF CursorKnows
  <2>3. a \in ShownIn(w) /\ a \in ListIds /\ t[a] # Void
    <3>1. Len(w.shown) \in DOMAIN w.shown BY <1>2, <2>2 DEF WalkType
    <3>2. a \in ShownIn(w) BY <3>1 DEF ShownIn, LastOf
    <3> QED BY <1>2, <1>4, <3>2 DEF RowsKnow
  <2>4. t[a] \in ListedRows /\ u[a] \in ListedRows /\ u[a] # Void BY <1>2, <2>3 DEF RowsKnow, WriteIs
  <2>5. t[a].version \in Nat /\ u[a].version \in Nat BY <2>4, RowParts
  <2> HIDE DEF a
  <2>6. a \notin S => u[a] = t[a] BY <2>3 DEF WriteIs
  <2>7. /\ a \notin w.moved => a \in IdsOf(t, w) /\ MarkOf(w.list, t[a], a) = w.cursor
        /\ w.list \in ByCursor =>
             w.cursor \in Tuples(Width(w.list)) /\ (Undisturbed(w) => Passed(t, w, w.cursor))
        /\ w.list \notin ByCursor => w.cursor[1] = a
        /\ w.list \in Versioned => w.cursor = <<a, w.cursor[2]>> /\ w.cursor[2] \in Nat /\ w.cursor[2] <= t[a].version
        /\ (/\ w.list \notin ByCursor /\ Undisturbed(w)
            /\ w.list \in Versioned => t[a].version = w.cursor[2]) =>
               Passed(t, w, RankIn(t, w, a))
    BY <2>1 DEF CursorKnows, a
  <2>8. ASSUME a \notin v.moved PROVE a \in IdsOf(u, v) /\ MarkOf(w.list, u[a], a) = w.cursor
    <3>1. a \notin w.moved /\ u[a] = t[a] BY <1>1, <2>6, <2>8
    <3> QED BY <1>1, <2>7, <3>1 DEF IdsOf
  <2>9. w.list \in Versioned => w.cursor[2] \in Nat /\ w.cursor[2] <= u[a].version
    <3>1. w.list \in Versioned => w.list \in PartyLists BY DEF Versioned, PartyLists
    <3>2. w.list \in Versioned /\ a \in S => u[a].version > t[a].version BY <2>3, <3>1 DEF WriteIs
    <3> QED BY <2>5, <2>6, <2>7, <3>2
  <2>10. ASSUME w.list \notin ByCursor, Undisturbed(v), w.list \in Versioned => u[a].version = w.cursor[2]
         PROVE  Passed(u, v, RankIn(u, v, a))
    <3>1. RankIn(u, v, a) = RankIn(t, w, a) /\ (w.list \in Versioned => t[a].version = w.cursor[2])
      <4>1. CASE a \notin S BY <1>1, <2>6, <2>10, <4>1 DEF RankIn
      <4>2. CASE a \in S
        <5>1. w.list \notin Versioned
          <6>1. w.list \in Versioned => w.list \in PartyLists BY DEF Versioned, PartyLists
          <6>2. w.list \in Versioned => u[a].version > t[a].version BY <2>3, <4>2, <6>1 DEF WriteIs
          <6> QED BY <2>5, <2>7, <2>10, <6>2
        <5>2. w.list \notin ByNameOnly
          <6>1. w.list \in ByNameOnly => a \in SteadyIn(v) BY <1>1, <1>3, <2>3, <2>10 DEF Undisturbed
          <6> QED BY <1>3, <4>2, <6>1
        <5>3. w.list \notin PartyLists
          BY <2>10, <5>1, <5>2 DEF PartyLists, Versioned, ByCursor, ByMicrosecond
        <5>4. w.list \notin NamedFirst \cup {"products", "search"}
          BY <5>3 DEF PartyLists, NamedFirst
        <5>5. u[a].at = t[a].at BY <2>3, <5>3 DEF WriteIs
        <5> QED BY <1>1, <5>1, <5>4, <5>5, RankByInstant DEF RankIn
      <4> QED BY <4>1, <4>2
    <3>2. Passed(t, w, RankIn(t, w, a)) BY <1>6, <2>7, <2>10, <3>1
    <3> QED BY <1>8, <2>10, <3>1, <3>2
  <2>11. w.list \in ByCursor =>
            w.cursor \in Tuples(Width(w.list)) /\ (Undisturbed(v) => Passed(u, v, w.cursor))
    BY <1>6, <1>8, <2>7
  <2> QED BY <1>1, <2>2, <2>7, <2>8, <2>9, <2>10, <2>11 DEF a
<1>12. StartKnows(v) BY <1>1 DEF WalkKnows, StartKnows
<1>13. PositionKnows(u, v) BY <1>1, <1>6, <1>8 DEF WalkKnows, PositionKnows
<1>14. OrderKnows(u, v)
  <2> SUFFICES ASSUME Undisturbed(v), NEW p \in DOMAIN v.shown, NEW q \in DOMAIN v.shown, p < q,
                      v.shown[p] \in SteadyIn(v), v.shown[q] \in SteadyIn(v)
               PROVE  Follows(u, v, v.shown[p], v.shown[q])
    BY DEF OrderKnows
  <2>1. Follows(t, w, v.shown[p], v.shown[q]) BY <1>1, <1>5, <1>6 DEF WalkKnows, OrderKnows
  <2> QED BY <1>1, <1>5, <2>1 DEF Follows
<1>15. EndKnows(u, v) BY <1>1, <1>5, <1>6, <1>7 DEF WalkKnows, EndKnows
<1>16. RefusalKnows(v) BY <1>1, <1>3 DEF WalkKnows, RefusalKnows
<1> QED BY <1>9, <1>10, <1>11, <1>12, <1>13, <1>14, <1>15, <1>16 DEF WalkKnows

Marked(w, v, S) ==
    v = [list |-> w.list, scope |-> w.scope, limit |-> w.limit, phase |-> w.phase,
         cursor |-> w.cursor, position |-> w.position, shown |-> w.shown,
         start |-> w.start, moved |-> w.moved \cup S]

LEMMA MarkedIs ==
    ASSUME NEW w, WalkType(w), NEW S, NEW v, v = [w EXCEPT !.moved = @ \cup S]
    PROVE  Marked(w, v, S)
<1>1. w = [list |-> w.list, scope |-> w.scope, limit |-> w.limit, phase |-> w.phase,
           cursor |-> w.cursor, position |-> w.position, shown |-> w.shown,
           start |-> w.start, moved |-> w.moved]
  BY DEF WalkType
<1> QED BY <1>1 DEF Marked

LEMMA WriteOf ==
    ASSUME ListingAssumption, NEW t, NEW w, WalkKnows(t, w),
           NEW S \in SUBSET ListIds, NEW r \in [S -> ListedRows],
           \A i \in S : t[i] # Void =>
               /\ w.list \notin PartyLists => r[i].at = t[i].at
               /\ w.list \in PartyLists => r[i].version > t[i].version,
           NEW u, u = [i \in ListIds |-> IF i \in S THEN r[i] ELSE t[i]],
           NEW v, Marked(w, v, S)
    PROVE  WalkKnows(u, v)
<1>1. t \in [ListIds -> ListedRows \cup {Void}] /\ Void \notin ListedRows
  BY DEF WalkKnows, RowsKnow, ListingAssumption
<1>2. u \in [ListIds -> ListedRows \cup {Void}] BY <1>1
<1>3. \A i \in ListIds \ S : u[i] = t[i] OBVIOUS
<1>4. ASSUME NEW i \in ListIds, t[i] # Void
      PROVE  /\ u[i] # Void
             /\ w.list \notin PartyLists => u[i].at = t[i].at
             /\ w.list \in PartyLists /\ i \in S => u[i].version > t[i].version
  <2>1. CASE i \in S
    <3>1. u[i] = r[i] /\ r[i] \in ListedRows BY <2>1
    <3> QED BY <1>1, <1>4, <2>1, <3>1
  <2>2. CASE i \notin S
    <3>1. u[i] = t[i] BY <2>2
    <3> QED BY <1>4, <2>2, <3>1
  <2> QED BY <2>1, <2>2
<1>5. WriteIs(t, w, u, v, S) BY <1>2, <1>3, <1>4 DEF WriteIs, Marked
<1> QED BY <1>5, WriteKeeps

\* The rows that are written.
LEMMA RowFacts ==
    ASSUME NEW n \in Int, NEW at \in Int \X Nat, NEW status \in Statuses
    PROVE  Row(n, at, status) \in ListedRows
BY DEF Row, ListedRows

LEMMA NowFacts ==
    ASSUME written \in Nat
    PROVE  Now \in Int \X Nat
BY DEF Now

LEMMA RowIs ==
    ASSUME NEW row \in ListedRows
    PROVE  row = [name |-> row.name, pinned |-> row.pinned, at |-> row.at, status |-> row.status,
                  version |-> row.version, read |-> row.read]
           /\ row.name \in Int /\ row.pinned \in BOOLEAN /\ row.at \in Int \X Nat
           /\ row.status \in Statuses /\ row.version \in Nat /\ row.read \in BOOLEAN
BY DEF ListedRows

LEMMA PartyRow ==
    ASSUME NEW row \in ListedRows, NEW n \in Int, NEW pinned \in BOOLEAN, NEW at \in Int \X Nat,
           NEW status \in Statuses,
           NEW new, new = [name |-> n, pinned |-> pinned, at |-> at, status |-> status,
                           version |-> row.version + 1, read |-> row.read]
    PROVE  new \in ListedRows /\ new.version > row.version
BY RowIs DEF ListedRows

LEMMA DatedRow ==
    ASSUME NEW row \in ListedRows, NEW status \in Statuses, NEW version \in Nat, NEW read \in BOOLEAN,
           NEW new, new = [name |-> row.name, pinned |-> row.pinned, at |-> row.at, status |-> status,
                           version |-> version, read |-> read]
    PROVE  new \in ListedRows /\ new.at = row.at
BY RowIs DEF ListedRows

-----------------------------------------------------------------------------
(* Each writer keeps what the walk knows.                                  *)
LEMMA PartyWritersKeep ==
    ASSUME ListingAssumption, ListIInv, walk.list \in PartyLists, PartyWriters(walk.list)
    PROVE  ListIInv'
<1>0. PICK t, w, u, v : t = table /\ w = walk /\ u = table' /\ v = walk' OBVIOUS
<1>1. WalkKnows(t, w) /\ written \in Nat /\ w.list \in PartyLists BY <1>0 DEF ListIInv
<1>2. t \in [ListIds -> ListedRows \cup {Void}] BY <1>1 DEF WalkKnows, RowsKnow
<1>3. RowNames \subseteq Int BY DEF ListingAssumption
<1>4. PICK at : at = Now /\ at \in Int \X Nat BY <1>1, NowFacts
<1>5. WalkType(w) BY <1>1 DEF WalkKnows
<1>6. SUFFICES ASSUME NEW i \in ListIds, NEW row \in ListedRows, t[i] # Void => row.version > t[i].version,
                      u = [k \in ListIds |-> IF k \in {i} THEN row ELSE t[k]],
                      v = [w EXCEPT !.moved = @ \cup {i}], written' = written + 1
               PROVE  ListIInv'
  <2>1. PICK i \in ListIds :
           \/ \E n \in RowNames : AddParty(i, n) \/ EditParty(i, n, table[i].pinned)
           \/ EditParty(i, table[i].name, TRUE)
           \/ CycleParty(i)
    BY DEF PartyWriters
  <2>2. ASSUME NEW n \in RowNames, AddParty(i, n) PROVE ListIInv'
    <3>1. PICK row : row = Row(n, at, "active") OBVIOUS
    <3>2. row \in ListedRows BY <1>3, <1>4, <3>1, RowFacts DEF Statuses
    <3>3. /\ t[i] = Void /\ u = [k \in ListIds |-> IF k \in {i} THEN row ELSE t[k]]
          /\ v = [w EXCEPT !.moved = @ \cup {i}] /\ written' = written + 1
      BY <1>0, <1>4, <2>2, <3>1 DEF AddParty, WriteRows
    <3> QED BY <1>6, <3>2, <3>3
  <2>3. ASSUME NEW n \in Int, NEW pinned \in BOOLEAN, EditParty(i, n, pinned) PROVE ListIInv'
    <3>1. t[i] \in ListedRows BY <1>0, <1>2, <2>3 DEF EditParty
    <3>2. PICK row : row = [t[i] EXCEPT !.name = n, !.pinned = pinned, !.version = @ + 1, !.at = at]
      OBVIOUS
    <3>3. row = [name |-> n, pinned |-> pinned, at |-> at, status |-> t[i].status,
                 version |-> t[i].version + 1, read |-> t[i].read] /\ t[i].status \in Statuses
      <4>1. PICK old : old = t[i] OBVIOUS
      <4>2. /\ old = [name |-> old.name, pinned |-> old.pinned, at |-> old.at, status |-> old.status,
                      version |-> old.version, read |-> old.read]
            /\ old.status \in Statuses
        BY <3>1, <4>1, RowIs
      <4>3. row = [old EXCEPT !.name = n, !.pinned = pinned, !.version = @ + 1, !.at = at]
        BY <3>2, <4>1
      <4>4. row = [name |-> n, pinned |-> pinned, at |-> at, status |-> old.status,
                   version |-> old.version + 1, read |-> old.read]
        BY <4>2, <4>3
      <4> QED BY <4>1, <4>2, <4>4
    <3>4. row \in ListedRows /\ row.version > t[i].version BY <1>4, <3>1, <3>3, PartyRow
    <3>5. /\ u = [k \in ListIds |-> IF k \in {i} THEN row ELSE t[k]]
          /\ v = [w EXCEPT !.moved = @ \cup {i}] /\ written' = written + 1
      BY <1>0, <1>4, <2>3, <3>2 DEF EditParty, WriteRows
    <3> QED BY <1>6, <3>4, <3>5
  <2>4. ASSUME CycleParty(i) PROVE ListIInv'
    <3>1. t[i] \in ListedRows BY <1>0, <1>2, <2>4 DEF CycleParty
    <3>2. PICK status : status = IF t[i].status = "active" THEN "archived" ELSE "active" OBVIOUS
    <3>3. status \in Statuses BY <3>2 DEF Statuses
    <3>4. PICK row : row = [t[i] EXCEPT !.status = status, !.version = @ + 1, !.at = at] OBVIOUS
    <3>5. row = [name |-> t[i].name, pinned |-> t[i].pinned, at |-> at, status |-> status,
                 version |-> t[i].version + 1, read |-> t[i].read]
          /\ t[i].name \in Int /\ t[i].pinned \in BOOLEAN
      <4>1. PICK old : old = t[i] OBVIOUS
      <4>2. /\ old = [name |-> old.name, pinned |-> old.pinned, at |-> old.at, status |-> old.status,
                      version |-> old.version, read |-> old.read]
            /\ old.name \in Int /\ old.pinned \in BOOLEAN
        BY <3>1, <4>1, RowIs
      <4>3. row = [old EXCEPT !.status = status, !.version = @ + 1, !.at = at] BY <3>4, <4>1
      <4>4. row = [name |-> old.name, pinned |-> old.pinned, at |-> at, status |-> status,
                   version |-> old.version + 1, read |-> old.read]
        BY <4>2, <4>3
      <4> QED BY <4>1, <4>2, <4>4
    <3>6. row \in ListedRows /\ row.version > t[i].version BY <1>4, <3>1, <3>3, <3>5, PartyRow
    <3>7. /\ u = [k \in ListIds |-> IF k \in {i} THEN row ELSE t[k]]
          /\ v = [w EXCEPT !.moved = @ \cup {i}] /\ written' = written + 1
      BY <1>0, <1>4, <2>4, <3>2, <3>4 DEF CycleParty, WriteRows
    <3> QED BY <1>6, <3>6, <3>7
  <2>5. \A n, pinned : EditParty(i, n, pinned) => t[i] \in ListedRows BY <1>0, <1>2 DEF EditParty
  <2>6. t[i] \in ListedRows => t[i].name \in Int /\ t[i].pinned \in BOOLEAN BY RowIs
  <2>7. CASE \E n \in RowNames : AddParty(i, n) \/ EditParty(i, n, table[i].pinned)
    <3>1. PICK n \in RowNames : AddParty(i, n) \/ EditParty(i, n, t[i].pinned) BY <1>0, <2>7
    <3> QED BY <1>3, <2>2, <2>3, <2>5, <2>6, <3>1
  <2>8. CASE EditParty(i, table[i].name, TRUE)
    <3>1. EditParty(i, t[i].name, TRUE) BY <1>0, <2>8
    <3> QED BY <2>3, <2>5, <2>6, <3>1
  <2> QED BY <2>1, <2>4, <2>7, <2>8
<1>7. PICK r : r = [k \in {i} |-> row] OBVIOUS
<1>8. r \in [{i} -> ListedRows] /\ {i} \in SUBSET ListIds BY <1>6, <1>7
<1>9. u = [k \in ListIds |-> IF k \in {i} THEN r[k] ELSE t[k]] BY <1>6, <1>7
<1>10. \A k \in {i} : t[k] # Void =>
          /\ w.list \notin PartyLists => r[k].at = t[k].at
          /\ w.list \in PartyLists => r[k].version > t[k].version
  BY <1>1, <1>6, <1>7
<1>11. Marked(w, v, {i}) BY <1>5, <1>6, MarkedIs
<1>12. WalkKnows(u, v) BY <1>1, <1>8, <1>9, <1>10, <1>11, WriteOf
<1> QED BY <1>0, <1>1, <1>6, <1>12 DEF ListIInv

LEMMA DocumentWritersKeep ==
    ASSUME ListingAssumption, ListIInv, walk.list \in DocumentLists, DocumentWriters(walk.list)
    PROVE  ListIInv'
<1>0. PICK t, w, u, v : t = table /\ w = walk /\ u = table' /\ v = walk' OBVIOUS
<1>1. WalkKnows(t, w) /\ written \in Nat /\ w.list \notin PartyLists
  BY <1>0 DEF ListIInv, DocumentLists, PartyLists, ByNameOnly
<1>2. t \in [ListIds -> ListedRows \cup {Void}] /\ WalkType(w) BY <1>1 DEF WalkKnows, RowsKnow
<1>3. SUFFICES ASSUME NEW i \in ListIds, NEW row \in ListedRows, t[i] # Void => row.at = t[i].at,
                      u = [k \in ListIds |-> IF k \in {i} THEN row ELSE t[k]],
                      v = [w EXCEPT !.moved = @ \cup {i}], written' = written + 1
               PROVE  ListIInv'
  <2>1. PICK i \in ListIds : (\E at \in Instants : PostDocument(i, at)) \/ CancelDocument(i)
    BY DEF DocumentWriters
  <2>2. ASSUME NEW at \in Instants, PostDocument(i, at) PROVE ListIInv'
    <3>1. PICK row : row = Row(1, at, "posted") OBVIOUS
    <3>2. row \in ListedRows
      <4>1. 1 \in Int /\ at \in Int \X Nat /\ "posted" \in Statuses BY DEF Statuses, ListingAssumption
      <4> QED BY <3>1, <4>1, RowFacts
    <3>3. /\ t[i] = Void /\ u = [k \in ListIds |-> IF k \in {i} THEN row ELSE t[k]]
          /\ v = [w EXCEPT !.moved = @ \cup {i}] /\ written' = written + 1
      BY <1>0, <2>2, <3>1 DEF PostDocument, WriteRows
    <3> QED BY <1>3, <3>2, <3>3
  <2>3. ASSUME CancelDocument(i) PROVE ListIInv'
    <3>1. t[i] \in ListedRows BY <1>0, <1>2, <2>3 DEF CancelDocument
    <3>2. PICK row : row = [t[i] EXCEPT !.status = "cancelled", !.version = @ + 1] OBVIOUS
    <3>3. row \in ListedRows /\ row.at = t[i].at
      <4>1. PICK old : old = t[i] OBVIOUS
      <4>2. /\ old = [name |-> old.name, pinned |-> old.pinned, at |-> old.at, status |-> old.status,
                      version |-> old.version, read |-> old.read]
            /\ old.read \in BOOLEAN /\ old.version \in Nat
        BY <3>1, <4>1, RowIs
      <4>3. row = [old EXCEPT !.status = "cancelled", !.version = @ + 1] BY <3>2, <4>1
      <4>4. row = [name |-> old.name, pinned |-> old.pinned, at |-> old.at, status |-> "cancelled",
                   version |-> old.version + 1, read |-> old.read]
        BY <4>2, <4>3
      <4>5. "cancelled" \in Statuses /\ old.version + 1 \in Nat BY <4>2 DEF Statuses
      <4> QED BY <3>1, <4>1, <4>2, <4>4, <4>5, DatedRow
    <3>4. /\ u = [k \in ListIds |-> IF k \in {i} THEN row ELSE t[k]]
          /\ v = [w EXCEPT !.moved = @ \cup {i}] /\ written' = written + 1
      BY <1>0, <2>3, <3>2 DEF CancelDocument, WriteRows
    <3> QED BY <1>3, <3>3, <3>4
  <2> QED BY <2>1, <2>2, <2>3
<1>4. PICK r : r = [k \in {i} |-> row] OBVIOUS
<1>5. r \in [{i} -> ListedRows] /\ {i} \in SUBSET ListIds BY <1>3, <1>4
<1>6. u = [k \in ListIds |-> IF k \in {i} THEN r[k] ELSE t[k]] BY <1>3, <1>4
<1>7. \A k \in {i} : t[k] # Void =>
          /\ w.list \notin PartyLists => r[k].at = t[k].at
          /\ w.list \in PartyLists => r[k].version > t[k].version
  BY <1>1, <1>3, <1>4
<1>8. Marked(w, v, {i}) BY <1>2, <1>3, MarkedIs
<1>9. WalkKnows(u, v) BY <1>1, <1>5, <1>6, <1>7, <1>8, WriteOf
<1> QED BY <1>0, <1>1, <1>3, <1>9 DEF ListIInv

LEMMA NotificationWritersKeep ==
    ASSUME ListingAssumption, ListIInv, walk.list = "notifications", NotificationWriters
    PROVE  ListIInv'
<1>0. PICK t, w, u, v : t = table /\ w = walk /\ u = table' /\ v = walk' OBVIOUS
<1>1. WalkKnows(t, w) /\ written \in Nat /\ w.list \notin PartyLists
  BY <1>0 DEF ListIInv, PartyLists, ByNameOnly
<1>2. t \in [ListIds -> ListedRows \cup {Void}] /\ WalkType(w) BY <1>1 DEF WalkKnows, RowsKnow
<1>3. PICK at : at = Now /\ at \in Int \X Nat BY <1>1, NowFacts
<1>4. SUFFICES ASSUME NEW S \in SUBSET ListIds, NEW r \in [S -> ListedRows],
                      \A k \in S : t[k] # Void => r[k].at = t[k].at,
                      u = [k \in ListIds |-> IF k \in S THEN r[k] ELSE t[k]],
                      v = [w EXCEPT !.moved = @ \cup S], written' = written + 1
               PROVE  ListIInv'
  <2>1. ASSUME NEW fresh \in SUBSET ListIds, NEW stale \in SUBSET ListIds, Reconcile(fresh, stale)
        PROVE  ListIInv'
    <3> DEFINE S == fresh \cup stale
               resolved(k) == [t[k] EXCEPT !.status = "resolved"]
    <3>1. PICK new : new = Row(1, at, "active") OBVIOUS
    <3>2. PICK r : r = [k \in S |-> IF k \in fresh THEN new ELSE resolved(k)] OBVIOUS
    <3>3. new \in ListedRows BY <1>3, <3>1, RowFacts DEF Statuses
    <3>4. (\A k \in fresh : t[k] = Void) /\ (\A k \in stale : t[k] # Void) BY <1>0, <2>1 DEF Reconcile
    <3>5. ASSUME NEW k \in stale PROVE resolved(k) \in ListedRows /\ resolved(k).at = t[k].at
      <4>1. PICK old : old = t[k] OBVIOUS
      <4>2. old \in ListedRows BY <1>2, <3>4, <4>1
      <4>3. /\ old = [name |-> old.name, pinned |-> old.pinned, at |-> old.at, status |-> old.status,
                      version |-> old.version, read |-> old.read]
            /\ old.read \in BOOLEAN /\ old.version \in Nat
        BY <4>2, RowIs
      <4>4. PICK row : row = resolved(k) OBVIOUS
      <4>5. row = [old EXCEPT !.status = "resolved"] BY <4>1, <4>4
      <4>6. row = [name |-> old.name, pinned |-> old.pinned, at |-> old.at, status |-> "resolved",
                   version |-> old.version, read |-> old.read]
        BY <4>3, <4>5
      <4>7. "resolved" \in Statuses BY DEF Statuses
      <4>8. row \in ListedRows /\ row.at = old.at BY <4>2, <4>3, <4>6, <4>7, DatedRow
      <4> QED BY <4>1, <4>4, <4>8
    <3>6. /\ u = [k \in ListIds |-> IF k \in S THEN IF k \in fresh THEN new ELSE resolved(k) ELSE t[k]]
          /\ v = [w EXCEPT !.moved = @ \cup S] /\ written' = written + 1
      BY <1>0, <1>3, <2>1, <3>1 DEF Reconcile, WriteRows
    <3> HIDE DEF resolved
    <3>7. r \in [S -> ListedRows] /\ S \in SUBSET ListIds BY <3>2, <3>3, <3>5
    <3>8. \A k \in S : t[k] # Void => r[k].at = t[k].at BY <3>2, <3>4, <3>5
    <3>9. u = [k \in ListIds |-> IF k \in S THEN r[k] ELSE t[k]] BY <3>2, <3>6
    <3> QED BY <1>4, <3>6, <3>7, <3>8, <3>9
  <2>2. ASSUME NEW i \in ListIds, SetReadState(i) PROVE ListIInv'
    <3>1. t[i] \in ListedRows BY <1>0, <1>2, <2>2 DEF SetReadState
    <3>2. PICK row : row = [t[i] EXCEPT !.read = ~@] OBVIOUS
    <3>3. row \in ListedRows /\ row.at = t[i].at
      <4>1. PICK old : old = t[i] OBVIOUS
      <4>2. /\ old = [name |-> old.name, pinned |-> old.pinned, at |-> old.at, status |-> old.status,
                      version |-> old.version, read |-> old.read]
            /\ old.status \in Statuses /\ old.version \in Nat
        BY <3>1, <4>1, RowIs
      <4>3. row = [old EXCEPT !.read = ~@] BY <3>2, <4>1
      <4>4. row = [name |-> old.name, pinned |-> old.pinned, at |-> old.at, status |-> old.status,
                   version |-> old.version, read |-> ~old.read]
        BY <4>2, <4>3
      <4>5. (~old.read) \in BOOLEAN BY Zenon
      <4> QED BY <3>1, <4>1, <4>2, <4>4, <4>5, DatedRow
    <3>4. /\ u = [k \in ListIds |-> IF k \in {i} THEN row ELSE t[k]]
          /\ v = [w EXCEPT !.moved = @ \cup {i}] /\ written' = written + 1
      BY <1>0, <2>2, <3>2 DEF SetReadState, WriteRows
    <3>5. PICK r : r = [k \in {i} |-> row] OBVIOUS
    <3>6. r \in [{i} -> ListedRows] /\ {i} \in SUBSET ListIds BY <3>3, <3>5
    <3>7. u = [k \in ListIds |-> IF k \in {i} THEN r[k] ELSE t[k]] BY <3>4, <3>5
    <3>8. \A k \in {i} : t[k] # Void => r[k].at = t[k].at BY <3>3, <3>5
    <3> QED BY <1>4, <3>4, <3>6, <3>7, <3>8
  <2> QED BY <2>1, <2>2 DEF NotificationWriters
<1>5. \A k \in S : t[k] # Void =>
          /\ w.list \notin PartyLists => r[k].at = t[k].at
          /\ w.list \in PartyLists => r[k].version > t[k].version
  BY <1>1, <1>4
<1>6. Marked(w, v, S) BY <1>2, <1>4, MarkedIs
<1>7. WalkKnows(u, v) BY <1>1, <1>4, <1>5, <1>6, WriteOf
<1> QED BY <1>0, <1>1, <1>4, <1>7 DEF ListIInv

LEMMA RecordKeeps ==
    ASSUME ListingAssumption, ListIInv, walk.list \in EventLists, NEW i \in ListIds, RecordEvents({i})
    PROVE  ListIInv'
<1>0. PICK t, w, u, v : t = table /\ w = walk /\ u = table' /\ v = walk' OBVIOUS
<1>1. WalkKnows(t, w) /\ written \in Nat /\ w.list \notin PartyLists
  BY <1>0 DEF ListIInv, EventLists, PartyLists, ByNameOnly
<1>2. WalkType(w) BY <1>1 DEF WalkKnows
<1>3. PICK at : at = Now /\ at \in Int \X Nat BY <1>1, NowFacts
<1>4. PICK row : row = Row(1, at, "posted") OBVIOUS
<1>5. row \in ListedRows BY <1>3, <1>4, RowFacts DEF Statuses
<1>6. /\ t[i] = Void /\ u = [k \in ListIds |-> IF k \in {i} THEN row ELSE t[k]]
      /\ v = [w EXCEPT !.moved = @ \cup {i}] /\ written' = written + 1
  BY <1>0, <1>3, <1>4 DEF RecordEvents, WriteRows
<1>7. PICK r : r = [k \in {i} |-> row] OBVIOUS
<1>8. r \in [{i} -> ListedRows] /\ {i} \in SUBSET ListIds BY <1>5, <1>7
<1>9. u = [k \in ListIds |-> IF k \in {i} THEN r[k] ELSE t[k]] BY <1>6, <1>7
<1>10. Marked(w, v, {i}) BY <1>2, <1>6, MarkedIs
<1>11. \A k \in {i} : t[k] = Void BY <1>6
<1>12. WalkKnows(u, v) BY <1>1, <1>8, <1>9, <1>10, <1>11, WriteOf
<1> QED BY <1>0, <1>1, <1>6, <1>12 DEF ListIInv

LEMMA WritersKeep ==
    ASSUME ListingAssumption, ListIInv, Writers(walk.list)
    PROVE  ListIInv'
<1>1. CASE walk.list \in PartyLists /\ PartyWriters(walk.list) BY <1>1, PartyWritersKeep
<1>2. CASE walk.list \in DocumentLists /\ DocumentWriters(walk.list) BY <1>2, DocumentWritersKeep
<1>3. CASE walk.list = "notifications" /\ NotificationWriters BY <1>3, NotificationWritersKeep
<1>4. CASE walk.list \in EventLists /\ \E i \in ListIds : RecordEvents({i}) BY <1>4, RecordKeeps
<1> QED BY <1>1, <1>2, <1>3, <1>4 DEF Writers

-----------------------------------------------------------------------------
(* What the client asks for.                                               *)
LEMMA AgainFacts ==
    ASSUME NEW list
    PROVE  AgainOf(list) = "never" <=> list \in ByCursor
<1>1. CASE list \in ByCursor
  <2>1. /\ list \notin Snapshots
        /\ list \notin {"suppliers", "products", "customerPayments", "supplierInvoices", "supplierPayments"}
    BY <1>1 DEF ByCursor, Snapshots, ByNameOnly, ByMicrosecond
  <2> QED BY <1>1, <2>1 DEF AgainOf
<1>2. CASE list \notin ByCursor
  <2>1. AgainOf(list) \in {"snapshot", "locked", "before"} BY <1>2 DEF AgainOf
  <2> QED BY <1>2, <2>1
<1> QED BY <1>1, <1>2

LEMMA PositionIsSome ==
    ASSUME ListingAssumption, NEW n \in Nat, NEW p \in Tuples(n)
    PROVE  p # Void
<1>1. p \in Seq(Int) BY DEF Tuples
<1> QED BY <1>1 DEF ListingAssumption

\* The row a cursor names, if it is still there unchanged, is the last row shown.
LEMMA AnchorFacts ==
    ASSUME ListingAssumption, NEW t, NEW w, WalkKnows(t, w), w.phase = "asking", w.cursor # Void,
           w.list \notin ByCursor, NEW i \in IdsOf(t, w), MarkOf(w.list, t[i], i) = w.cursor
    PROVE  RankIn(t, w, i) \in Tuples(Width(w.list)) /\ (Undisturbed(w) => Passed(t, w, RankIn(t, w, i)))
<1>1. WalkType(w) /\ RowsKnow(t, w) /\ CursorKnows(t, w) BY DEF WalkKnows
<1>2. i \in ListIds /\ t[i] \in ListedRows /\ RankIn(t, w, i) \in Tuples(Width(w.list))
  BY <1>1, SeenFacts
<1>3. w.list \in Lists BY <1>1 DEF WalkType
<1>4. /\ MarkOf(w.list, t[i], i)[1] = i
      /\ w.list \in Versioned => MarkOf(w.list, t[i], i) = <<i, t[i].version>>
  BY <1>2, <1>3, MarkFacts
<1>5. w.cursor[1] = LastOf(w) BY <1>1 DEF CursorKnows
<1>6. i = LastOf(w) BY <1>4, <1>5
<1>7. w.list \in Versioned => t[i].version = w.cursor[2] BY <1>4
<1>8. Undisturbed(w) => Passed(t, w, RankIn(t, w, i)) BY <1>1, <1>6, <1>7 DEF CursorKnows
<1> QED BY <1>2, <1>8

LEMMA PhaseMoves ==
    ASSUME NEW t, NEW w, WalkKnows(t, w), w.phase = "asking", w.cursor # Void,
           NEW phase \in {"resolved", "anchorGone", "ofOtherFilters"}, NEW P,
           phase = "anchorGone" => LastOf(w) \in w.moved,
           phase = "resolved" => P \in Tuples(Width(w.list)) /\ (Undisturbed(w) => Passed(t, w, P)),
           NEW v, v = [list |-> w.list, scope |-> w.scope, limit |-> w.limit, phase |-> phase,
                       cursor |-> w.cursor, position |-> P, shown |-> w.shown,
                       start |-> w.start, moved |-> w.moved]
    PROVE  WalkKnows(t, v)
<1>1. /\ v.list = w.list /\ v.scope = w.scope /\ v.limit = w.limit /\ v.phase = phase
      /\ v.cursor = w.cursor /\ v.position = P /\ v.shown = w.shown /\ v.start = w.start
      /\ v.moved = w.moved
  OBVIOUS
<1>2. /\ SteadyIn(v) = SteadyIn(w) /\ ShownIn(v) = ShownIn(w) /\ LastOf(v) = LastOf(w)
      /\ IdsOf(t, v) = IdsOf(t, w) /\ \A j : RankIn(t, v, j) = RankIn(t, w, j)
  BY <1>1 DEF SteadyIn, ShownIn, LastOf, IdsOf, RankIn
<1>3. (Undisturbed(v) <=> Undisturbed(w)) /\ \A Q : Passed(t, w, Q) => Passed(t, v, Q)
  BY <1>1, <1>2 DEF Undisturbed, Passed, Reached, Accounted
<1>4. WalkType(v) BY <1>1 DEF WalkKnows, WalkType, Phases
<1>5. RowsKnow(t, v) BY <1>1, <1>2 DEF WalkKnows, RowsKnow
<1>6. CursorKnows(t, v)
  <2> DEFINE a == LastOf(w)
  <2>1. /\ w.shown # <<>>
        /\ a \notin w.moved => a \in IdsOf(t, w) /\ MarkOf(w.list, t[a], a) = w.cursor
        /\ w.list \in ByCursor =>
             w.cursor \in Tuples(Width(w.list)) /\ (Undisturbed(w) => Passed(t, w, w.cursor))
        /\ w.list \notin ByCursor => w.cursor[1] = a
        /\ w.list \in Versioned => w.cursor = <<a, w.cursor[2]>> /\ w.cursor[2] \in Nat /\ w.cursor[2] <= t[a].version
        /\ (/\ w.list \notin ByCursor /\ Undisturbed(w)
            /\ w.list \in Versioned => t[a].version = w.cursor[2]) =>
               Passed(t, w, RankIn(t, w, a))
    BY DEF WalkKnows, CursorKnows
  <2> QED BY <1>1, <1>2, <1>3, <2>1 DEF CursorKnows
<1>7. StartKnows(v) BY <1>1 DEF StartKnows
<1>8. PositionKnows(t, v) BY <1>1, <1>3 DEF PositionKnows
<1>9. OrderKnows(t, v) BY <1>1, <1>2, <1>3 DEF WalkKnows, OrderKnows, Follows
<1>10. EndKnows(t, v) BY <1>1 DEF EndKnows
<1>11. RefusalKnows(v) BY <1>1, <1>2 DEF RefusalKnows
<1> QED BY <1>4, <1>5, <1>6, <1>7, <1>8, <1>9, <1>10, <1>11 DEF WalkKnows

LEMMA StartOverKeeps ==
    ASSUME ListIInv, walk.phase = "asking", walk.cursor # Void, NEW why \in {"anchorGone", "ofOtherFilters"},
           why = "anchorGone" => LastOf(walk) \in walk.moved, StartOver(why)
    PROVE  ListIInv'
<1>0. PICK t, w, u, v : t = table /\ w = walk /\ u = table' /\ v = walk' OBVIOUS
<1>1. WalkKnows(t, w) /\ written \in Nat BY <1>0 DEF ListIInv
<1>2. v = [w EXCEPT !.phase = why] /\ u = t /\ written' = written BY <1>0 DEF StartOver
<1>3. w = [list |-> w.list, scope |-> w.scope, limit |-> w.limit, phase |-> w.phase,
           cursor |-> w.cursor, position |-> w.position, shown |-> w.shown,
           start |-> w.start, moved |-> w.moved]
  BY <1>1 DEF WalkKnows, WalkType
<1>4. v = [list |-> w.list, scope |-> w.scope, limit |-> w.limit, phase |-> why,
           cursor |-> w.cursor, position |-> w.position, shown |-> w.shown,
           start |-> w.start, moved |-> w.moved]
  BY <1>2, <1>3
<1>5. w.phase = "asking" /\ w.cursor # Void /\ (why = "anchorGone" => LastOf(w) \in w.moved) BY <1>0
<1>6. why \in {"resolved", "anchorGone", "ofOtherFilters"} /\ why # "resolved" OBVIOUS
<1>7. WalkKnows(t, v) BY <1>1, <1>4, <1>5, <1>6, PhaseMoves
<1> QED BY <1>0, <1>1, <1>2, <1>7 DEF ListIInv

LEMMA LoseAnchorKeeps ==
    ASSUME ListIInv, LoseAnchor
    PROVE  ListIInv'
<1>0. PICK t, w : t = table /\ w = walk OBVIOUS
<1>1. WalkKnows(t, w) BY <1>0 DEF ListIInv
<1>2. View = Seen(t, w) BY <1>0, <1>1, ViewIsSeen DEF WalkKnows, WalkType
<1>3. w.phase = "asking" /\ w.cursor # Void /\ AgainOf(w.list) # "never"
      /\ \A i \in IdsOf(t, w) : MarkOf(w.list, t[i], i) # w.cursor
  BY <1>0, <1>2 DEF LoseAnchor, Anchors, Seen
<1>4. LastOf(w) \in w.moved BY <1>1, <1>3 DEF WalkKnows, CursorKnows
<1>5. walk.phase = "asking" /\ walk.cursor # Void /\ LastOf(walk) \in walk.moved BY <1>0, <1>3, <1>4
<1>6. StartOver("anchorGone") BY DEF LoseAnchor
<1> QED BY <1>5, <1>6, StartOverKeeps

LEMMA ResolvedKeeps ==
    ASSUME ListingAssumption, ListIInv, ResolvePosition
    PROVE  ListIInv'
<1>0. PICK t, w, u, v : t = table /\ w = walk /\ u = table' /\ v = walk' OBVIOUS
<1>1. WalkKnows(t, w) /\ written \in Nat BY <1>0 DEF ListIInv
<1>2. View = Seen(t, w) BY <1>0, <1>1, ViewIsSeen DEF WalkKnows, WalkType
<1>3. w.phase = "asking" /\ w.cursor # Void /\ AgainOf(w.list) \in {"before", "locked"}
      /\ u = t /\ written' = written
  BY <1>0, <1>2 DEF ResolvePosition, Seen
<1>4. PICK i \in IdsOf(t, w) : MarkOf(w.list, t[i], i) = w.cursor
                               /\ v = [w EXCEPT !.phase = "resolved", !.position = Seen(t, w).rank[i]]
  <2>1. PICK V : V = View OBVIOUS
  <2>2. V.ids = IdsOf(t, w) /\ \A i \in IdsOf(t, w) : V.mark[i] = MarkOf(w.list, t[i], i)
    BY <1>2, <2>1 DEF Seen
  <2>3. \E i \in Anchors(View) : walk' = [walk EXCEPT !.phase = "resolved", !.position = View.rank[i]]
    BY Zenon DEF ResolvePosition
  <2>4. PICK i \in Anchors(V) : v = [w EXCEPT !.phase = "resolved", !.position = V.rank[i]]
    BY <1>0, <2>1, <2>3, Zenon
  <2>5. i \in V.ids /\ V.mark[i] = w.cursor BY <1>0, <2>4 DEF Anchors
  <2> QED BY <1>2, <2>1, <2>2, <2>4, <2>5, Zenon
<1>5. w.list \notin ByCursor BY <1>3, AgainFacts
<1>6. PICK P : P = RankIn(t, w, i) OBVIOUS
<1>7. P \in Tuples(Width(w.list)) /\ (Undisturbed(w) => Passed(t, w, P))
  BY <1>1, <1>3, <1>4, <1>5, <1>6, AnchorFacts
<1>8. v = [w EXCEPT !.phase = "resolved", !.position = P] BY <1>4, <1>6 DEF Seen
<1>9. w = [list |-> w.list, scope |-> w.scope, limit |-> w.limit, phase |-> w.phase,
           cursor |-> w.cursor, position |-> w.position, shown |-> w.shown,
           start |-> w.start, moved |-> w.moved]
  BY <1>1 DEF WalkKnows, WalkType
<1>10. v = [list |-> w.list, scope |-> w.scope, limit |-> w.limit, phase |-> "resolved",
            cursor |-> w.cursor, position |-> P, shown |-> w.shown,
            start |-> w.start, moved |-> w.moved]
  BY <1>8, <1>9
<1>11. WalkKnows(t, v) BY <1>1, <1>3, <1>7, <1>10, PhaseMoves
<1> QED BY <1>0, <1>1, <1>3, <1>11 DEF ListIInv

LEMMA ReadPageKeeps ==
    ASSUME ListingAssumption, ListIInv, ReadPage
    PROVE  ListIInv'
<1>0. PICK t, w, u, v : t = table /\ w = walk /\ u = table' /\ v = walk' OBVIOUS
<1>1. WalkKnows(t, w) /\ written \in Nat BY <1>0 DEF ListIInv
<1>2. View = Seen(t, w) BY <1>0, <1>1, ViewIsSeen DEF WalkKnows, WalkType
<1>3. u = t /\ written' = written BY <1>0 DEF ReadPage
<1>4. ASSUME NEW P, Page(View, P) PROVE PageFrom(t, w, v, P) BY <1>0, <1>2, <1>4 DEF Page, PageFrom
<1>5. CASE w.phase = "asking" /\ (w.cursor = Void \/ AgainOf(w.list) = "never") /\ PageFrom(t, w, v, w.cursor)
  <2>1. PageMayStart(t, w, w.cursor)
    <3>1. CASE w.cursor = Void BY <1>5, <3>1 DEF PageMayStart
    <3>2. CASE w.cursor # Void
      <4>1. w.list \in ByCursor BY <1>5, <3>2, AgainFacts
      <4>2. w.cursor \in Tuples(Width(w.list)) /\ (Undisturbed(w) => Passed(t, w, w.cursor))
        BY <1>1, <1>5, <3>2, <4>1 DEF WalkKnows, CursorKnows
      <4> QED BY <3>2, <4>2 DEF PageMayStart
    <3> QED BY <3>1, <3>2
  <2>2. WalkKnows(t, v) BY <1>1, <1>5, <2>1, PageKeeps
  <2> QED BY <1>0, <1>1, <1>3, <2>2 DEF ListIInv
<1>6. CASE w.phase = "resolved" /\ PageFrom(t, w, v, w.position)
  <2>1. w.cursor # Void /\ w.position \in Tuples(Width(w.list))
        /\ (Undisturbed(w) => Passed(t, w, w.position))
    BY <1>1, <1>6 DEF WalkKnows, StartKnows, PositionKnows
  <2>2. w.position # Void BY <2>1, WidthFacts, PositionIsSome
  <2>3. PageMayStart(t, w, w.position) BY <2>1, <2>2 DEF PageMayStart
  <2>4. WalkKnows(t, v) BY <1>1, <1>6, <2>3, PageKeeps
  <2> QED BY <1>0, <1>1, <1>3, <2>4 DEF ListIInv
<1>7. \/ w.phase = "asking" /\ (w.cursor = Void \/ AgainOf(w.list) = "never") /\ Page(View, w.cursor)
      \/ w.phase = "resolved" /\ Page(View, w.position)
  <2>1. View.again = AgainOf(w.list) BY <1>2 DEF Seen
  <2> QED BY <1>0, <2>1 DEF ReadPage
<1> QED BY <1>4, <1>5, <1>6, <1>7

LEMMA ReadReportKeeps ==
    ASSUME ListingAssumption, ListIInv, ReadReport
    PROVE  ListIInv'
<1>0. PICK t, w, u, v : t = table /\ w = walk /\ u = table' /\ v = walk' OBVIOUS
<1>1. WalkKnows(t, w) /\ written \in Nat BY <1>0 DEF ListIInv
<1>2. View = Seen(t, w) BY <1>0, <1>1, ViewIsSeen DEF WalkKnows, WalkType
<1>3. w.phase = "asking" /\ w.cursor # Void /\ AgainOf(w.list) = "snapshot" /\ u = t /\ written' = written
  BY <1>0, <1>2 DEF ReadReport, Seen
<1>4. PICK i \in IdsOf(t, w) : MarkOf(w.list, t[i], i) = w.cursor /\ Page(View, View.rank[i])
  <2>1. View.ids = IdsOf(t, w) /\ \A i \in IdsOf(t, w) : View.mark[i] = MarkOf(w.list, t[i], i)
    BY <1>2 DEF Seen
  <2> QED BY <1>0, <2>1 DEF ReadReport, Anchors
<1>5. PICK P : P = RankIn(t, w, i) OBVIOUS
<1>6. View.rank[i] = P BY <1>2, <1>4, <1>5 DEF Seen
<1>7. PageFrom(t, w, v, P)
  <2>1. Page(View, P) BY <1>4, <1>6
  <2> QED BY <1>0, <1>2, <2>1 DEF Page, PageFrom
<1>8. w.list \notin ByCursor BY <1>3, AgainFacts
<1>9. P \in Tuples(Width(w.list)) /\ (Undisturbed(w) => Passed(t, w, P))
  BY <1>1, <1>3, <1>4, <1>5, <1>8, AnchorFacts
<1>10. P # Void BY <1>9, WidthFacts, PositionIsSome
<1>11. PageMayStart(t, w, P) BY <1>3, <1>9, <1>10 DEF PageMayStart
<1>12. WalkKnows(t, v) BY <1>1, <1>3, <1>7, <1>11, PageKeeps
<1> QED BY <1>0, <1>1, <1>3, <1>12 DEF ListIInv

LEMMA ListSteps ==
    ASSUME ListingAssumption, ListIInv, ServeListings
    PROVE  ListIInv'
<1>1. CASE \E s \in Scopes(walk.list) : AskOutOfScope(s)
  <2>1. walk.phase = "asking" /\ walk.cursor # Void /\ StartOver("ofOtherFilters") BY <1>1 DEF AskOutOfScope
  <2> QED BY <2>1, StartOverKeeps
<1>2. CASE LoseAnchor BY <1>2, LoseAnchorKeeps
<1>3. CASE ResolvePosition BY <1>3, ResolvedKeeps
<1>4. CASE ReadPage BY <1>4, ReadPageKeeps
<1>5. CASE ReadReport BY <1>5, ReadReportKeeps
<1>6. CASE Writers(walk.list) BY <1>6, WritersKeep
<1>7. CASE StopReading
  <2>1. table' = table /\ walk' = walk /\ written' = written BY <1>7 DEF StopReading, listVars
  <2> QED BY <2>1 DEF ListIInv
<1> QED BY <1>1, <1>2, <1>3, <1>4, <1>5, <1>6, <1>7 DEF ServeListings

LEMMA ListStart ==
    ASSUME ListInit
    PROVE  ListIInv
<1>1. PICK list \in Lists, limit \in Nat \ {0} : \E s \in Scopes(list) : walk = Walk(list, s, limit)
  BY DEF ListInit
<1>2. PICK s \in Scopes(list) : walk = Walk(list, s, limit) BY <1>1
<1>3. PICK t, w : t = table /\ w = walk OBVIOUS
<1>4. w = [list |-> list, scope |-> s, limit |-> limit, phase |-> "asking", cursor |-> Void,
           position |-> Void, shown |-> <<>>, start |-> {}, moved |-> {}]
  BY <1>2, <1>3 DEF Walk
<1>5. t \in [ListIds -> ListedRows \cup {Void}] BY <1>3 DEF ListInit
<1>6. SteadyIn(w) = {} /\ ShownIn(w) = {} BY <1>4 DEF SteadyIn, ShownIn
<1>7. WalkType(w) BY <1>4 DEF WalkType, Phases
<1>8. RowsKnow(t, w) BY <1>5, <1>6 DEF RowsKnow
<1>9. CursorKnows(t, w) /\ StartKnows(w) /\ PositionKnows(t, w) /\ EndKnows(t, w) /\ RefusalKnows(w)
  BY <1>4 DEF CursorKnows, StartKnows, PositionKnows, EndKnows, RefusalKnows
<1>10. OrderKnows(t, w) BY <1>6 DEF OrderKnows
<1>11. WalkKnows(t, w) BY <1>7, <1>8, <1>9, <1>10 DEF WalkKnows
<1> QED BY <1>3, <1>11 DEF ListIInv, ListInit

\* What the walk knows is what the lists promise.
LEMMA ListsPromise ==
    ASSUME ListingAssumption, ListIInv
    PROVE  ListingsSound
<1>0. PICK t, w : t = table /\ w = walk OBVIOUS
<1>1. WalkKnows(t, w) BY <1>0 DEF ListIInv
<1>2. WalkType(w) /\ RowsKnow(t, w) /\ OrderKnows(t, w) /\ EndKnows(t, w) /\ RefusalKnows(w)
  BY <1>1 DEF WalkKnows
<1>3. View = Seen(t, w) BY <1>0, <1>2, ViewIsSeen DEF WalkType
<1>4. Steady = SteadyIn(w) /\ Shown = ShownIn(w) BY <1>0 DEF Steady, SteadyIn, Shown, ShownIn
<1>5. ASSUME NEW i \in SteadyIn(w), NEW j \in SteadyIn(w)
      PROVE  Strictly(i, j) <=> Before(RankIn(t, w, i), RankIn(t, w, j))
  <2>1. i \in IdsOf(t, w) /\ j \in IdsOf(t, w) BY <1>2 DEF RowsKnow
  <2>2. View.rank[i] = RankIn(t, w, i) /\ View.rank[j] = RankIn(t, w, j) BY <1>2, <1>3, <2>1, SeenFacts
  <2> QED BY <2>2 DEF Strictly
<1>6. ASSUME Undisturbed(w), w.list # "stores" PROVE InOrder(Strictly)
  <2> SUFFICES ASSUME NEW p \in DOMAIN walk.shown, NEW q \in DOMAIN walk.shown, p < q,
                      walk.shown[p] \in Steady, walk.shown[q] \in Steady
               PROVE  Strictly(walk.shown[p], walk.shown[q])
    BY DEF InOrder
  <2>1. Follows(t, w, w.shown[p], w.shown[q]) BY <1>0, <1>2, <1>4, <1>6 DEF OrderKnows
  <2> QED BY <1>0, <1>4, <1>5, <1>6, <2>1 DEF Follows
<1>7. ASSUME Undisturbed(w), w.list \notin ByMicrosecond PROVE AllShown(Steady)
  <2>1. w.phase = "over" => \A j \in SteadyIn(w) : j \in ShownIn(w) BY <1>2, <1>7 DEF EndKnows, Accounted
  <2> QED BY <1>0, <1>4, <2>1 DEF AllShown
<1>8. EachRowOnce
  <2> SUFFICES ASSUME w.list \notin ByMicrosecond \cup ByNameOnly \cup {"stores"}
               PROVE  AllShown(Steady) /\ InOrder(Strictly)
    BY <1>0 DEF EachRowOnce
  <2>1. Undisturbed(w) BY DEF Undisturbed, ByMicrosecond
  <2> QED BY <1>6, <1>7, <2>1
<1>9. GapsWithinAMillisecond
  <2> SUFFICES ASSUME w.list \in ByMicrosecond, w.list = "search" => ShownSteady
               PROVE  /\ InOrder(Strictly)
                      /\ AllShown({i \in Steady : \A j \in Present \ {i} : Milliseconds(j) # Milliseconds(i)})
    BY <1>0 DEF GapsWithinAMillisecond
  <2>1. Undisturbed(w) /\ w.list # "stores"
    BY <1>4 DEF Undisturbed, ByMicrosecond, ByNameOnly, ShownSteady
  <2>2. ASSUME w.phase = "over", NEW i \in Steady,
               \A j \in Present \ {i} : Milliseconds(j) # Milliseconds(i)
        PROVE  i \in Shown
    <3>1. Accounted(t, w, i) BY <1>2, <1>4, <2>1, <2>2 DEF EndKnows
    <3>2. ASSUME NEW k \in ShownIn(w) \ {i} PROVE t[k].at[1] # t[i].at[1]
      <4>1. ShownIn(w) \subseteq ListIds BY <1>2 DEF WalkType, ShownIn
      <4>2. k \in Present \ {i} BY <1>0, <1>2, <3>2, <4>1 DEF RowsKnow, Present
      <4> QED BY <1>0, <2>2, <4>2 DEF Milliseconds
    <3> QED BY <1>4, <3>1, <3>2 DEF Accounted
  <2>3. AllShown({i \in Steady : \A j \in Present \ {i} : Milliseconds(j) # Milliseconds(i)})
    BY <1>0, <2>2 DEF AllShown
  <2> QED BY <1>6, <2>1, <2>3
<1>10. StoresOnlyRepeat
  <2> SUFFICES ASSUME w.list = "stores"
               PROVE  /\ AllShown(Steady)
                      /\ \A p, q \in DOMAIN walk.shown :
                           p < q /\ walk.shown[p] \in Steady /\ walk.shown[q] \in Steady
                             => Milliseconds(walk.shown[p]) <= Milliseconds(walk.shown[q])
    BY <1>0 DEF StoresOnlyRepeat, InOrder
  <2>1. Undisturbed(w) /\ w.list \notin ByMicrosecond BY DEF Undisturbed, ByMicrosecond, ByNameOnly
  <2>2. ASSUME NEW p \in DOMAIN walk.shown, NEW q \in DOMAIN walk.shown, p < q,
               walk.shown[p] \in Steady, walk.shown[q] \in Steady
        PROVE  Milliseconds(walk.shown[p]) <= Milliseconds(walk.shown[q])
    <3>1. Follows(t, w, w.shown[p], w.shown[q]) BY <1>0, <1>2, <1>4, <2>1, <2>2 DEF OrderKnows
    <3> QED BY <1>0, <3>1 DEF Follows, Milliseconds
  <2> QED BY <1>7, <2>1, <2>2
<1>11. ReportsByName
  <2> SUFFICES ASSUME w.list \in ByNameOnly, ShownSteady
               PROVE  AllShown(Steady) /\ InOrder(Strictly)
    BY <1>0 DEF ReportsByName
  <2>1. Undisturbed(w) /\ w.list \notin ByMicrosecond /\ w.list # "stores"
    BY <1>4 DEF Undisturbed, ByMicrosecond, ByNameOnly, ShownSteady
  <2> QED BY <1>6, <1>7, <2>1
<1>12. RefusedForCause BY <1>0, <1>2 DEF RefusedForCause, RefusalKnows, LastOf
<1> QED BY <1>8, <1>9, <1>10, <1>11, <1>12 DEF ListingsSound

-----------------------------------------------------------------------------
(* Whatever page length and whatever is written between two pages: the     *)
(* walk knows where it is.                                                 *)
THEOREM ListsKeepPlace ==
    ASSUME ListingAssumption
    PROVE  ListSpec => []ListIInv
<1>1. ListInit => ListIInv BY ListStart
<1>2. ListIInv /\ [ServeListings]_listVars => ListIInv'
  <2>1. CASE ServeListings BY <2>1, ListSteps
  <2>2. CASE UNCHANGED listVars
    <3>1. table' = table /\ walk' = walk /\ written' = written BY <2>2 DEF listVars
    <3> QED BY <3>1 DEF ListIInv
  <2> QED BY <2>1, <2>2
<1> QED BY <1>1, <1>2, PTL DEF ListSpec

(* Every list keeps what it promises of its pages: what ListingsSound says *)
(* of each kind (supplier-read.repository.ts:27, notification-cursor.ts:52, *)
(* platform-admin-cursor.ts:52, reports.repository.ts:1090).               *)
THEOREM ListsAreSound ==
    ASSUME ListingAssumption
    PROVE  ListSpec => []ListingsSound
<1>1. ListSpec => []ListIInv BY ListsKeepPlace
<1>2. ListIInv => ListingsSound BY ListsPromise
<1> QED BY <1>1, <1>2, PTL
=============================================================================
