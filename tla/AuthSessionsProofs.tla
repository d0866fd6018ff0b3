------------------------- MODULE AuthSessionsProofs -------------------------
(* Proofs about AuthSessions, for any requests, sessions, tokens and bounds. *)
(*                                                                           *)
(* The argument: a transaction that decides about a session or revokes it    *)
(* holds the session's row, so what commits meanwhile is about other         *)
(* sessions and leaves this one's row and tokens as the decision saw them.   *)
EXTENDS AuthSessions, TLAPS

USE BoundsAssumption, NamesAssumption, NoneAssumption

-----------------------------------------------------------------------------
(* The parts of the invariant: the rows with the requests, and the authority. *)
RowsTypeOK ==
    /\ sessions \in [Sessions -> SessionRows \cup {None}]
    /\ tokens \in [Tokens -> TokenRows \cup {None}]
    /\ lapsed \in SUBSET (Sessions \cup Tokens)
    /\ eligibility \in Eligibilities
    /\ tx \in [Requests -> Transactions]

RowsIInv ==
    /\ RowsTypeOK /\ LocksExclude /\ RequestsShaped /\ RowsRefer /\ DrawnOnce /\ RequestsRefer
    /\ DecisionsHold /\ OneUsableToken /\ RevokedIsClosed

AuthorityIInv == AuthorityTypeOK /\ AuthorityHeld

LEMMA Parts == IInv <=> RowsIInv /\ AuthorityIInv /\ answer \in Answers \cup {None}
BY DEF IInv, TypeOK, RowsIInv, RowsTypeOK, AuthorityIInv

\* Which record a request may take on while no row changes.
Suits(w, r) ==
    /\ r \in Transactions /\ Shaped(r) /\ Refers(r) /\ Decided(r)
    /\ \A v \in Requests \ {w} :
          /\ r.locks \cap tx[v].locks \subseteq {Device}
          /\ Drawn(r) \cap Drawn(tx[v]) = {}
          /\ r.kind = "login" \/ tx[v].kind = "login" => tx[v].session # r.session
    /\ \A t \in Drawn(r) : tokens[t] = None
    /\ r.kind = "login" => sessions[r.session] = None

LEMMA IdleType == Idle \in Transactions /\ Shaped(Idle) /\ Drawn(Idle) = {}
BY DEF Idle, Transactions, Shaped, Drawn, Cutoffs, Generations, Kinds

LEMMA IdleSuits ==
    ASSUME RowsIInv, NEW w \in Requests PROVE Suits(w, Idle)
<1>1. Refers(Idle) /\ Decided(Idle)
  BY DEF Idle, Refers, Decided, Kinds
<1>2. ASSUME NEW v \in Requests, tx[v].kind = "login" PROVE tx[v].session # Idle.session
  BY <1>2 DEF RowsIInv, RequestsShaped, Shaped, Idle
<1>3. Idle.locks = {} /\ Idle.kind # "login"
  BY DEF Idle, Kinds
<1>4. QED BY <1>1, <1>2, <1>3, IdleType DEF Suits

\* A request's own record is one that suits it.
LEMMA OwnSuits ==
    ASSUME RowsIInv, NEW w \in Requests PROVE Suits(w, tx[w])
<1>1. tx[w] \in Transactions
  BY DEF RowsIInv, RowsTypeOK
<1>2. Shaped(tx[w]) /\ Refers(tx[w]) /\ Decided(tx[w])
  BY DEF RowsIInv, RequestsShaped, RequestsRefer, DecisionsHold
<1>3. QED BY <1>1, <1>2 DEF Suits, RowsIInv, LocksExclude, DrawnOnce

LEMMA StepChanges ==
    ASSUME RowsTypeOK, NEW w \in Requests, NEW r, Step(w, r)
    PROVE  tx'[w] = r /\ \A v \in Requests \ {w} : tx'[v] = tx[v]
BY DEF RowsTypeOK, Step

\* While no row changes, a record that suits its request keeps the invariant.
LEMMA QuietKeeps ==
    ASSUME RowsIInv, NEW w \in Requests, NEW r, Suits(w, r), Step(w, r), Quiet
    PROVE  RowsIInv'
<1> USE DEF RowsIInv
<1>1. /\ tx'[w] = r
      /\ \A v \in Requests \ {w} : tx'[v] = tx[v]
  BY StepChanges
<1>2. UNCHANGED <<sessions, tokens, lapsed, eligibility>>
  BY DEF Quiet, rows
<1>3. RowsTypeOK'
  BY <1>2 DEF RowsTypeOK, Step, Suits
<1>4. LocksExclude'
  BY <1>1 DEF LocksExclude, Suits
<1>5. RequestsShaped'
  BY <1>1 DEF RequestsShaped, Suits
<1>6. (RowsRefer /\ OneUsableToken /\ RevokedIsClosed)'
  BY <1>2 DEF RowsRefer, OneUsableToken, RevokedIsClosed, Usable
<1>7. DrawnOnce'
  <2>1. ASSUME NEW u \in Requests, NEW v \in Requests, u # v
        PROVE  Drawn(tx'[u]) \cap Drawn(tx'[v]) = {}
    BY <1>1, <2>1 DEF DrawnOnce, Suits
  <2>2. ASSUME NEW u \in Requests, NEW t \in Drawn(tx'[u]) PROVE tokens[t] = None
    BY <1>1 DEF DrawnOnce, Suits
  <2>3. ASSUME NEW u \in Requests, NEW v \in Requests, tx'[u].kind = "login"
        PROVE  sessions[tx'[u].session] = None /\ (u # v => tx'[v].session # tx'[u].session)
    BY <1>1, <2>3 DEF DrawnOnce, Suits
  <2>4. \A u \in Requests : Drawn(tx[u])' = Drawn(tx'[u])
    BY DEF Drawn
  <2>5. QED BY <1>2, <2>1, <2>2, <2>3, <2>4 DEF DrawnOnce
<1>8. RequestsRefer'
  <2>1. \A u \in Requests : Refers(tx'[u])
    BY <1>1 DEF RequestsRefer, Suits
  <2>2. QED BY <1>2, <2>1 DEF RequestsRefer, Refers
<1>9. DecisionsHold'
  <2>1. \A u \in Requests : Decided(tx'[u])
    BY <1>1 DEF DecisionsHold, Suits
  <2>2. QED BY <1>2, <2>1 DEF DecisionsHold, Decided, TokensOf, Usable
<1>10. QED BY <1>3, <1>4, <1>5, <1>6, <1>7, <1>8, <1>9

-----------------------------------------------------------------------------
(* The steps that change no row: each takes a record that suits its request. *)
LEMMA IssueSuits ==
    ASSUME RowsIInv, NEW w \in Requests, NEW s \in Sessions, NEW t \in Tokens,
           AuthorityTypeOK, IssueSession(w, s, t)
    PROVE  \E r : Suits(w, r) /\ Step(w, r)
<1> DEFINE r == [Idle EXCEPT !.kind = "login", !.pc = "asking", !.session = s, !.token = t,
                             !.time = now, !.locks = {Device}]
<1>1. /\ r.kind = "login" /\ r.pc = "asking" /\ r.session = s /\ r.token = t /\ r.fresh = None
      /\ r.time = now /\ r.outcome = None /\ r.locks = {Device} /\ r.seen = {}
      /\ r.generation = 0
  BY DEF Idle
<1>2. r \in Transactions
  BY <1>1, IdleType DEF Transactions, AuthorityTypeOK, Kinds, LockRows
<1> HIDE DEF r
<1>3. Shaped(r) /\ Refers(r) /\ Decided(r)
  BY <1>1 DEF Shaped, Refers, Decided, Kinds
<1>4. /\ sessions[s] = None /\ \A v \in Requests : tx[v].session # s
      /\ tokens[t] = None /\ \A v \in Requests : tx[v].token # t /\ tx[v].fresh # t
  BY DEF IssueSession, FreshSessions, FreshTokens
<1>5. Drawn(r) = {t}
  BY <1>1 DEF Drawn
<1>6. \A v \in Requests \ {w} : t \notin Drawn(tx[v])
  BY <1>4 DEF Drawn
<1>7. Suits(w, r)
  BY <1>1, <1>2, <1>3, <1>4, <1>5, <1>6 DEF Suits
<1>8. Step(w, r)
  BY DEF IssueSession, r
<1>9. QED BY <1>7, <1>8

LEMMA BeginRefreshSuits ==
    ASSUME RowsIInv, NEW w \in Requests, NEW t \in Tokens, NEW f \in Tokens,
           BeginRefresh(w, t, f)
    PROVE  \E r : Suits(w, r) /\ Step(w, r)
<1> DEFINE s == tokens[t].session
           r == [Idle EXCEPT !.kind = "refresh", !.pc = "asking", !.session = s, !.token = t,
                             !.fresh = f, !.time = sessions[s].issuedAt]
<1>1. /\ r.kind = "refresh" /\ r.pc = "asking" /\ r.session = s /\ r.token = t /\ r.fresh = f
      /\ r.time = sessions[s].issuedAt /\ r.outcome = None /\ r.locks = {} /\ r.seen = {}
      /\ r.generation = 0
  BY DEF Idle
<1>2. tokens[t] # None /\ s \in Sessions /\ sessions[s] # None /\ sessions[s].issuedAt \in Cutoffs
  BY DEF BeginRefresh, RowsIInv, RowsRefer, RowsTypeOK, TokenRows, SessionRows
<1>3. Step(w, r)
  BY DEF BeginRefresh
<1>4. r \in Transactions
  BY <1>2, IdleType DEF Transactions, Kinds
<1> HIDE DEF s, r
<1>5. Shaped(r) /\ Decided(r)
  BY <1>1, <1>2 DEF Shaped, Decided, Kinds
<1>6. Refers(r)
  BY <1>1, <1>2 DEF Refers, s
<1>7. Drawn(r) = {f} /\ tokens[f] = None
  BY <1>1 DEF Drawn, BeginRefresh, FreshTokens
<1>8. ASSUME NEW v \in Requests \ {w}
      PROVE  f \notin Drawn(tx[v]) /\ (tx[v].kind = "login" => tx[v].session # s)
  BY <1>2 DEF BeginRefresh, FreshTokens, Drawn, RowsIInv, DrawnOnce
<1>9. Suits(w, r)
  BY <1>1, <1>4, <1>5, <1>6, <1>7, <1>8 DEF Suits
<1>10. QED BY <1>3, <1>9

\* Who logs out or pushes has a session, which no login is about to create.
LEMMA BeginOtherSuits ==
    ASSUME RowsIInv, AuthorityTypeOK, NEW w \in Requests, NEW s \in Sessions,
           BeginLogout(w, s) \/ BeginPush(w, s)
    PROVE  \E r : Suits(w, r) /\ Step(w, r)
<1>1. sessions[s] # None
  BY DEF BeginLogout, BeginPush, ValidAccess, ValidSession, Live
<1>2. ASSUME NEW v \in Requests, tx[v].kind = "login" PROVE tx[v].session # s
  BY <1>1, <1>2 DEF RowsIInv, DrawnOnce
<1>3. CASE BeginLogout(w, s)
  <2> DEFINE r == [Idle EXCEPT !.kind = "logout", !.pc = "locking", !.session = s]
  <2>1. /\ r.kind = "logout" /\ r.pc = "locking" /\ r.session = s /\ r.fresh = None
        /\ r.locks = {}
    BY DEF Idle
  <2>2. r \in Transactions
    BY IdleType DEF Transactions, Kinds
  <2>3. Step(w, r)
    BY <1>3 DEF BeginLogout
  <2> HIDE DEF r
  <2>4. Shaped(r) /\ Refers(r) /\ Decided(r) /\ Drawn(r) = {}
    BY <1>1, <2>1 DEF Shaped, Refers, Decided, Drawn, Kinds
  <2>5. QED BY <1>2, <2>1, <2>2, <2>3, <2>4 DEF Suits
<1>4. CASE BeginPush(w, s)
  <2> DEFINE r == [Idle EXCEPT !.kind = "push", !.pc = "asking", !.session = s,
                               !.generation = control.generation]
  <2>1. /\ r.kind = "push" /\ r.pc = "asking" /\ r.session = s /\ r.fresh = None
        /\ r.locks = {}
    BY DEF Idle
  <2>2. r \in Transactions
    BY IdleType DEF Transactions, Kinds, AuthorityTypeOK, Controls
  <2>3. Step(w, r)
    BY <1>4 DEF BeginPush
  <2> HIDE DEF r
  <2>4. Shaped(r) /\ Refers(r) /\ Decided(r) /\ Drawn(r) = {}
    BY <1>1, <2>1 DEF Shaped, Refers, Decided, Drawn, Kinds
  <2>5. QED BY <1>2, <2>1, <2>2, <2>3, <2>4 DEF Suits
<1>5. QED BY <1>3, <1>4

\* A record that differs from the request's own in pc, outcome, seen and locks.
Follows(r, w) ==
    /\ r \in Transactions
    /\ r.kind = tx[w].kind /\ r.session = tx[w].session /\ r.token = tx[w].token
    /\ r.fresh = tx[w].fresh /\ r.time = tx[w].time

LEMMA FollowsSuits ==
    ASSUME RowsIInv, NEW w \in Requests, NEW r, Follows(r, w), Shaped(r), Decided(r),
           \A v \in Requests \ {w} : r.locks \cap tx[v].locks \subseteq {Device}
    PROVE  Suits(w, r)
<1>1. Suits(w, tx[w])
  BY OwnSuits
<1>2. Drawn(r) = Drawn(tx[w])
  BY DEF Follows, Drawn
<1>3. Refers(r)
  BY <1>1 DEF Follows, Suits, Refers
<1>4. QED BY <1>1, <1>2, <1>3 DEF Suits, Follows

\* Going on without another lock.
LEMMA GoesOnSuits ==
    ASSUME RowsIInv, NEW w \in Requests,
           NEW p \in {"locking", "ready"},
           \/ tx[w].kind = "login" /\ p = "ready"
           \/ tx[w].kind \in {"refresh", "push"} /\ tx[w].pc = "asking" /\ p = "locking"
    PROVE  Suits(w, [tx[w] EXCEPT !.pc = p])
<1> DEFINE r == [tx[w] EXCEPT !.pc = p]
<1>1. tx[w] \in Transactions /\ Shaped(tx[w])
  BY OwnSuits DEF Suits
<1>2. r \in Transactions /\ r.pc = p /\ r.locks = tx[w].locks /\ Follows(r, w)
  BY <1>1 DEF Transactions, Follows
<1> HIDE DEF r
<1>3. Shaped(r)
  BY <1>1, <1>2 DEF Shaped, Follows, Kinds
<1>4. Decided(r)
  BY <1>1, <1>2 DEF Decided, Follows, Kinds
<1>5. \A v \in Requests \ {w} : r.locks \cap tx[v].locks \subseteq {Device}
  BY <1>2 DEF RowsIInv, LocksExclude
<1>6. Suits(w, r)
  BY <1>2, <1>3, <1>4, <1>5, FollowsSuits
<1>7. QED BY <1>6 DEF r

\* A rotation locks its session and its token, and nothing else.
LEMMA OrderRows ==
    ASSUME NEW w \in Requests
    PROVE  /\ \A i \in Unlocked(w) : RotationOrder(w)[i] \in {tx[w].session, tx[w].token}
           /\ Unlocked(w) = {} => {tx[w].session, tx[w].token} \subseteq tx[w].locks
<1>1. /\ DOMAIN RotationOrder(w) = {1, 2}
      /\ RotationOrder(w)[1] = tx[w].session /\ RotationOrder(w)[2] = tx[w].token
  BY DEF RotationOrder
<1>2. QED BY <1>1 DEF Unlocked

LEMMA RotationLockSuits ==
    ASSUME RowsIInv, NEW w \in Requests, LockForRotation(w)
    PROVE  \E r : Suits(w, r) /\ Step(w, r)
<1>1. PICK i \in Unlocked(w) :
         /\ Free(w, RotationOrder(w)[i])
         /\ Step(w, [tx[w] EXCEPT !.locks = @ \cup {RotationOrder(w)[i]}])
  BY DEF LockForRotation
<1> DEFINE row == RotationOrder(w)[i]
           r == [tx[w] EXCEPT !.locks = tx[w].locks \cup {row}]
<1>2. tx[w] \in Transactions /\ Shaped(tx[w]) /\ Decided(tx[w])
  BY OwnSuits DEF Suits
<1>3. tx[w].kind = "refresh" /\ tx[w].pc = "locking"
  BY DEF LockForRotation, At
<1>4. row \in {tx[w].session, tx[w].token} /\ row \in LockRows
  <2>1. row \in {tx[w].session, tx[w].token}
    BY OrderRows
  <2>2. tx[w].session \in Sessions /\ tx[w].token \in Tokens
    BY <1>2, <1>3 DEF Shaped, Transactions
  <2>3. QED BY <2>1, <2>2 DEF LockRows
<1> HIDE DEF row
<1>5. /\ r \in Transactions /\ Follows(r, w)
      /\ r.kind = "refresh" /\ r.pc = "locking" /\ r.session = tx[w].session
      /\ r.token = tx[w].token /\ r.fresh = tx[w].fresh /\ r.locks = tx[w].locks \cup {row}
  BY <1>2, <1>3, <1>4 DEF Transactions, Follows
<1>6. Step(w, r)
  BY <1>1 DEF row
<1> HIDE DEF r
<1>7. Shaped(r)
  BY <1>2, <1>3, <1>4, <1>5 DEF Shaped, Kinds
<1>8. Decided(r)
  BY <1>5 DEF Decided
<1>9. ASSUME NEW v \in Requests \ {w} PROVE r.locks \cap tx[v].locks \subseteq {Device}
  <2>1. row \notin tx[v].locks
    BY <1>1 DEF Free, row
  <2>2. tx[w].locks \cap tx[v].locks \subseteq {Device}
    BY DEF RowsIInv, LocksExclude
  <2>3. QED BY <1>5, <2>1, <2>2
<1>10. Suits(w, r)
  BY <1>5, <1>7, <1>8, <1>9, FollowsSuits
<1>11. QED BY <1>6, <1>10

\* What DecideRotation finds in the locked rows is what Decided asks for.
LEMMA DecisionSuits ==
    ASSUME RowsIInv, NEW w \in Requests, DecideRotation(w)
    PROVE  \E r : Suits(w, r) /\ Step(w, r)
<1> DEFINE o == RotationOutcome(w)
           q == [tx[w] EXCEPT !.outcome = o, !.pc = "revoking", !.seen = TokensOf(tx[w].session)]
           d == [tx[w] EXCEPT !.outcome = o, !.pc = "ready"]
           r == IF o \in {"reused", "ineligible"} THEN q ELSE d
<1>1. tx[w] \in Transactions /\ Shaped(tx[w]) /\ Refers(tx[w])
  BY OwnSuits DEF Suits
<1>2. tx[w].kind = "refresh" /\ tx[w].pc = "locking"
  BY DEF DecideRotation, At
<1>3. {tx[w].session, tx[w].token} \subseteq tx[w].locks
  BY OrderRows DEF DecideRotation
<1>4. o \in Outcomes /\ TokensOf(tx[w].session) \in SUBSET Tokens
  BY DEF RotationOutcome, Outcomes, TokensOf
<1>5. /\ o = "rotated" => Usable(tx[w].token) /\ ~ sessions[tx[w].session].revoked
      /\ o = "invalid" => tokens[tx[w].token].replacedBy = None
  BY <1>1, <1>2 DEF RotationOutcome, Usable, Refers
<1>6. Step(w, r)
  BY DEF DecideRotation
<1> HIDE DEF o
<1>7. /\ Follows(r, w) /\ r.locks = tx[w].locks /\ r.outcome = o
      /\ r.pc = IF o \in {"reused", "ineligible"} THEN "revoking" ELSE "ready"
      /\ o \in {"reused", "ineligible"} => r.seen = TokensOf(tx[w].session)
  <2>1. CASE o \in {"reused", "ineligible"}
    <3>1. r = q
      BY <2>1
    <3>2. q \in Transactions
      BY <1>1, <1>4 DEF Transactions
    <3>3. QED BY <2>1, <3>1, <3>2, <1>1 DEF Transactions, Follows
  <2>2. CASE o \notin {"reused", "ineligible"}
    <3>1. r = d
      BY <2>2
    <3>2. d \in Transactions
      BY <1>1, <1>4 DEF Transactions
    <3>3. QED BY <2>2, <3>1, <3>2, <1>1 DEF Transactions, Follows
  <2>3. QED BY <2>1, <2>2
<1> HIDE DEF r
<1>8. Shaped(r)
  BY <1>1, <1>2, <1>3, <1>4, <1>7 DEF Shaped, Follows, Kinds
<1>9. Decided(r)
  BY <1>2, <1>4, <1>5, <1>7 DEF Decided, Follows
<1>10. \A v \in Requests \ {w} : r.locks \cap tx[v].locks \subseteq {Device}
  BY <1>7 DEF RowsIInv, LocksExclude
<1>11. Suits(w, r)
  BY <1>7, <1>8, <1>9, <1>10, FollowsSuits
<1>12. QED BY <1>6, <1>11

LEMMA RevocationLockSuits ==
    ASSUME RowsIInv, NEW w \in Requests, LockToRevoke(w)
    PROVE  \E r : Suits(w, r) /\ Step(w, r)
<1> DEFINE family == tx[w].seen \cup {tx[w].session}
           r == [tx[w] EXCEPT !.pc = "ready", !.locks = tx[w].locks \cup family]
<1>1. tx[w] \in Transactions /\ Shaped(tx[w]) /\ Decided(tx[w])
  BY OwnSuits DEF Suits
<1>2. tx[w].pc = "revoking" /\ tx[w].kind \in {"refresh", "logout"} /\ tx[w].session \in Sessions
  BY <1>1 DEF LockToRevoke, Shaped, Transactions, Kinds, Idle
<1>3. Step(w, r) /\ \A row \in family : Free(w, row)
  BY <1>1 DEF LockToRevoke, Transactions
<1>4. family \subseteq LockRows
  BY <1>1, <1>2 DEF Transactions, LockRows
<1> HIDE DEF family
<1>5. /\ Follows(r, w) /\ r.locks = tx[w].locks \cup family /\ r.pc = "ready"
      /\ r.seen = tx[w].seen /\ r.outcome = tx[w].outcome
  BY <1>1, <1>4 DEF Transactions, Follows
<1> HIDE DEF r
<1>6. Shaped(r)
  BY <1>1, <1>2, <1>5 DEF Shaped, Follows, Kinds
<1>7. Decided(r)
  BY <1>1, <1>2, <1>5 DEF Decided, Follows, Shaped, Outcomes
<1>8. ASSUME NEW v \in Requests \ {w} PROVE r.locks \cap tx[v].locks \subseteq {Device}
  <2>1. tx[w].locks \cap tx[v].locks \subseteq {Device}
    BY DEF RowsIInv, LocksExclude
  <2>2. \A row \in family : row \notin tx[v].locks
    BY <1>3 DEF Free
  <2>3. QED BY <1>5, <2>1, <2>2
<1>9. Suits(w, r)
  BY <1>5, <1>6, <1>7, <1>8, FollowsSuits
<1>10. QED BY <1>3, <1>9

LEMMA LogoutSuits ==
    ASSUME RowsIInv, NEW w \in Requests, LogoutSession(w)
    PROVE  \E r : Suits(w, r) /\ Step(w, r)
<1> DEFINE r == [tx[w] EXCEPT !.locks = {tx[w].session}, !.pc = "revoking",
                              !.seen = TokensOf(tx[w].session)]
<1>1. tx[w] \in Transactions /\ Shaped(tx[w]) /\ Decided(tx[w])
  BY OwnSuits DEF Suits
<1>2. tx[w].kind = "logout" /\ tx[w].session \in Sessions
  BY <1>1 DEF LogoutSession, At, Shaped, Transactions
<1>3. Step(w, r) /\ Free(w, tx[w].session)
  BY DEF LogoutSession
<1>4. /\ Follows(r, w) /\ r.locks = {tx[w].session} /\ r.pc = "revoking"
      /\ r.seen = TokensOf(tx[w].session) /\ r.outcome = tx[w].outcome
  BY <1>1, <1>2 DEF Transactions, Follows, TokensOf, LockRows
<1> HIDE DEF r
<1>5. Shaped(r) /\ Decided(r)
  BY <1>1, <1>2, <1>4 DEF Shaped, Decided, Follows, Kinds
<1>6. \A v \in Requests \ {w} : r.locks \cap tx[v].locks \subseteq {Device}
  BY <1>3, <1>4 DEF Free
<1>7. Suits(w, r)
  BY <1>4, <1>5, <1>6, FollowsSuits
<1>8. QED BY <1>3, <1>7

LEMMA DeviceSuits ==
    ASSUME RowsIInv, NEW w \in Requests, LockDevice(w)
    PROVE  \E r : Suits(w, r) /\ Step(w, r)
<1> DEFINE r == [tx[w] EXCEPT !.pc = "ready", !.locks = {Device}]
<1>1. tx[w] \in Transactions /\ Shaped(tx[w])
  BY OwnSuits DEF Suits
<1>2. tx[w].kind = "push" /\ Step(w, r)
  BY DEF LockDevice, At
<1>3. Follows(r, w) /\ r.locks = {Device} /\ r.pc = "ready"
  BY <1>1 DEF Transactions, Follows, LockRows
<1> HIDE DEF r
<1>4. Shaped(r) /\ Decided(r)
  BY <1>1, <1>2, <1>3 DEF Shaped, Decided, Follows, Kinds
<1>5. Suits(w, r)
  BY <1>3, <1>4, FollowsSuits
<1>6. QED BY <1>2, <1>5

-----------------------------------------------------------------------------
(* The steps that commit: each changes the row and the tokens of one session. *)
SessionIInv(s) ==
    /\ \A t \in TokensOf(s) : sessions[s] # None
    /\ sessions[s] # None => /\ sessions[s].jti \in TokensOf(s)
                             /\ tokens[sessions[s].jti].replacedBy = None
    /\ \A t, u \in TokensOf(s) : Usable(t) /\ Usable(u) => t = u
    /\ \A t \in TokensOf(s) : Usable(t) => ~ sessions[s].revoked

LEMMA NeverNone == \A row \in SessionRows \cup TokenRows : row # None
OBVIOUS

LEMMA SessionWise ==
    RowsTypeOK => (RowsRefer /\ OneUsableToken /\ RevokedIsClosed
                   <=> \A s \in Sessions : SessionIInv(s))
<1> SUFFICES ASSUME RowsTypeOK
             PROVE  RowsRefer /\ OneUsableToken /\ RevokedIsClosed
                    <=> \A s \in Sessions : SessionIInv(s)
  OBVIOUS
<1>1. \A t \in Tokens : tokens[t] # None => tokens[t].session \in Sessions
  BY DEF RowsTypeOK, TokenRows
<1>2. \A s \in Sessions : sessions[s] # None => sessions[s].jti \in Tokens
  BY DEF RowsTypeOK, SessionRows
<1>3. ASSUME RowsRefer, OneUsableToken, RevokedIsClosed, NEW s \in Sessions
      PROVE  SessionIInv(s)
  BY <1>2, <1>3 DEF RowsRefer, OneUsableToken, RevokedIsClosed, SessionIInv, TokensOf
<1>4. ASSUME \A s \in Sessions : SessionIInv(s)
      PROVE  RowsRefer /\ OneUsableToken /\ RevokedIsClosed
  <2>1. RowsRefer
    BY <1>1, <1>4 DEF RowsRefer, SessionIInv, TokensOf
  <2>2. OneUsableToken
    BY <1>1, <1>4 DEF OneUsableToken, SessionIInv, TokensOf, Usable
  <2>3. RevokedIsClosed
    BY <1>1, <1>4 DEF RevokedIsClosed, SessionIInv, TokensOf, Usable
  <2>4. QED BY <2>1, <2>2, <2>3
<1>5. QED BY <1>3, <1>4

LEMMA SessionWiseNext ==
    (RowsTypeOK => (RowsRefer /\ OneUsableToken /\ RevokedIsClosed
                    <=> \A s \in Sessions : SessionIInv(s)))'
BY SessionWise, PTL

SessionKept(s) ==
    /\ sessions'[s] = sessions[s]
    /\ \A t \in TokensOf(s) \cup TokensOf(s)' : tokens'[t] = tokens[t]

\* A step is about session s and fills no token row but those of drawn.
About(s, drawn) ==
    /\ \A u \in Sessions \ {s} : SessionKept(u)
    /\ \A t \in Tokens : IF tokens[t] # None
                         THEN tokens'[t] # None /\ tokens'[t].session = tokens[t].session
                         ELSE t \notin drawn => tokens'[t] = None
    /\ sessions[s] # None => sessions'[s] # None /\ sessions'[s].issuedAt = sessions[s].issuedAt

LEMMA KeptFamily ==
    ASSUME NEW s, SessionKept(s)
    PROVE  /\ TokensOf(s)' = TokensOf(s)
           /\ \A t \in TokensOf(s) : tokens'[t] = tokens[t] /\ (Usable(t)' <=> Usable(t))
BY DEF SessionKept, TokensOf, Usable

LEMMA KeptIInv ==
    ASSUME RowsTypeOK, NEW s \in Sessions, SessionKept(s), SessionIInv(s) PROVE SessionIInv(s)'
<1>1. /\ TokensOf(s)' = TokensOf(s) /\ sessions'[s] = sessions[s]
      /\ \A t \in TokensOf(s) : tokens'[t] = tokens[t] /\ (Usable(t)' <=> Usable(t))
  BY KeptFamily DEF SessionKept
<1>2. QED BY <1>1 DEF SessionIInv

\* Two transactions that may change rows are about different sessions.
LEMMA Apart ==
    ASSUME RowsIInv, NEW w \in Requests, NEW v \in Requests \ {w},
           tx[w].kind = "login" \/ tx[w].session \in tx[w].locks,
           tx[w].session \in Sessions,
           tx[v].kind = "login" \/ tx[v].session \in tx[v].locks
    PROVE  tx[v].session # tx[w].session
BY DEF RowsIInv, DrawnOnce, LocksExclude

LEMMA CommitKeeps ==
    ASSUME RowsIInv, NEW w \in Requests, Step(w, Idle),
           NEW s \in Sessions, s = tx[w].session,
           tx[w].kind = "login" \/ s \in tx[w].locks,
           About(s, Drawn(tx[w])), SessionIInv(s)',
           sessions' \in [Sessions -> SessionRows \cup {None}],
           tokens' \in [Tokens -> TokenRows \cup {None}],
           UNCHANGED <<lapsed, eligibility>>
    PROVE  RowsIInv'
<1> USE DEF RowsIInv
<1>1. tx'[w] = Idle /\ \A v \in Requests \ {w} : tx'[v] = tx[v]
  BY StepChanges
<1>2. RowsTypeOK'
  BY IdleType DEF RowsTypeOK, Step
<1>3. LocksExclude' /\ RequestsShaped'
  BY <1>1, IdleType DEF LocksExclude, RequestsShaped, Idle
<1>4. (RowsRefer /\ OneUsableToken /\ RevokedIsClosed)'
  <2>1. \A u \in Sessions : SessionIInv(u)
    BY SessionWise
  <2>2. \A u \in Sessions \ {s} : SessionIInv(u)'
    BY <2>1, KeptIInv DEF About
  <2>3. \A u \in Sessions : SessionIInv(u)'
    BY <2>2
  <2>4. QED BY <1>2, <2>3, SessionWiseNext
<1>5. ASSUME NEW v \in Requests \ {w}
      PROVE  /\ Refers(tx[v])' /\ Decided(tx[v])'
             /\ \A t \in Drawn(tx[v]) : tokens'[t] = None
             /\ tx[v].kind = "login" => sessions'[tx[v].session] = None
  <2>0. PICK u : u = tx[v].session
    OBVIOUS
  <2>1. tx[v] \in Transactions /\ Shaped(tx[v]) /\ Refers(tx[v]) /\ Decided(tx[v])
        /\ Suits(v, tx[v])
    BY OwnSuits DEF Suits
  <2>2. tx'[v] = tx[v]
    BY <1>1
  <2>3. Refers(tx[v])'
    <3>1. CASE tx[v].kind \in {"refresh", "logout"}
      <4>1. u \in Sessions /\ (tx[v].kind = "refresh" => tx[v].token \in Tokens)
        BY <2>0, <2>1, <3>1 DEF Shaped, Transactions
      <4>2. sessions'[u] # None /\ sessions'[u].issuedAt = sessions[u].issuedAt
        BY <2>0, <2>1, <3>1, <4>1 DEF Refers, About, SessionKept
      <4>3. QED BY <2>0, <2>1, <2>2, <4>1, <4>2 DEF Refers, About
    <3>2. QED BY <2>2, <3>1 DEF Refers
  <2>4. Decided(tx[v])'
    <3>1. CASE tx[v].kind \in {"refresh", "logout"} /\ tx[v].pc \in {"revoking", "ready"}
      <4>1. u \in Sessions /\ u \in tx[v].locks
        BY <2>0, <2>1, <3>1 DEF Shaped, Transactions
      <4>2. SessionKept(u)
        BY <2>0, <4>1, Apart DEF About
      <4>3. /\ TokensOf(u)' = TokensOf(u) /\ sessions'[u] = sessions[u]
            /\ \A t \in TokensOf(u) : tokens'[t] = tokens[t] /\ (Usable(t)' <=> Usable(t))
        BY <4>2, KeptFamily DEF SessionKept
      <4>4. tx[v].kind = "refresh" => tx[v].token \in TokensOf(u)
        BY <2>0, <2>1 DEF Refers, TokensOf, Shaped, Transactions
      <4>5. QED BY <2>0, <2>1, <2>2, <4>3, <4>4 DEF Decided
    <3>2. CASE ~ (tx[v].kind \in {"refresh", "logout"} /\ tx[v].pc \in {"revoking", "ready"})
      <4>1. tx[v].pc # "revoking" /\ (tx[v].pc = "ready" => tx[v].kind \notin {"refresh", "logout"})
        BY <2>1, <3>2 DEF Shaped, Idle, Transactions, Kinds
      <4>2. QED BY <2>2, <4>1 DEF Decided
    <3>3. QED BY <3>1, <3>2
  <2>5. \A t \in Drawn(tx[v]) : tokens'[t] = None
    <3>1. Drawn(tx[v]) \subseteq Tokens
      BY <2>1 DEF Drawn, Transactions
    <3>2. \A t \in Drawn(tx[v]) : tokens[t] = None /\ t \notin Drawn(tx[w])
      BY DEF DrawnOnce
    <3>3. QED BY <3>1, <3>2 DEF About
  <2>6. ASSUME tx[v].kind = "login" PROVE sessions'[u] = None
    <3>1. u \in Sessions /\ sessions[u] = None
      BY <2>0, <2>1, <2>6 DEF Shaped, Transactions, DrawnOnce
    <3>2. u # s
      BY <2>0, <2>6, Apart
    <3>3. QED BY <2>0, <3>1, <3>2 DEF About, SessionKept
  <2>7. QED BY <2>0, <2>3, <2>4, <2>5, <2>6
<1>6. Refers(Idle)' /\ Decided(Idle)' /\ Drawn(Idle) = {} /\ Idle.kind # "login"
  BY IdleType DEF Idle, Refers, Decided, Kinds
<1>7. RequestsRefer' /\ DecisionsHold'
  <2>1. ASSUME NEW v \in Requests PROVE Refers(tx[v])' /\ Decided(tx[v])'
    <3>1. CASE v = w
      BY <1>1, <1>6, <3>1 DEF Refers, Decided
    <3>2. CASE v # w
      BY <1>5, <3>2
    <3>3. QED BY <3>1, <3>2
  <2>2. QED BY <2>1 DEF RequestsRefer, DecisionsHold
<1>8. DrawnOnce'
  <2>1. \A v \in Requests : Drawn(tx[v])' = Drawn(tx'[v])
    BY DEF Drawn
  <2>2. \A u, v \in Requests : u # v => Drawn(tx'[u]) \cap Drawn(tx'[v]) = {}
    BY <1>1, <1>6 DEF DrawnOnce
  <2>3. \A u \in Requests : \A t \in Drawn(tx'[u]) : tokens'[t] = None
    BY <1>1, <1>5, <1>6
  <2>4. ASSUME NEW u \in Requests, NEW v \in Requests, tx'[u].kind = "login"
        PROVE  sessions'[tx'[u].session] = None /\ (u # v => tx'[v].session # tx'[u].session)
    <3>1. u # w /\ tx'[u] = tx[u]
      BY <1>1, <1>6, <2>4
    <3>2. CASE v = w
      <4>1. tx[u].session # None
        BY <2>4, <3>1 DEF RequestsShaped, Shaped
      <4>2. QED BY <1>1, <1>5, <2>4, <3>1, <3>2, <4>1 DEF Idle
    <3>3. CASE v # w
      BY <1>1, <1>5, <2>4, <3>1, <3>3 DEF DrawnOnce
    <3>4. QED BY <3>2, <3>3
  <2>5. QED BY <2>1, <2>2, <2>3, <2>4 DEF DrawnOnce
<1>9. QED BY <1>2, <1>3, <1>4, <1>7, <1>8

LEMMA LoginKeeps ==
    ASSUME RowsIInv, NEW w \in Requests, CommitLogin(w) PROVE RowsIInv'
<1>1. PICK s, t : s = tx[w].session /\ t = tx[w].token
  OBVIOUS
<1>2. /\ tx[w].kind = "login" /\ Step(w, Idle) /\ UNCHANGED <<lapsed, eligibility>>
      /\ sessions' = [sessions EXCEPT ![s] =
                         [issuedAt |-> tx[w].time, jti |-> t, revoked |-> FALSE]]
      /\ tokens' = [tokens EXCEPT ![t] =
                         [session |-> s, replacedBy |-> None, revoked |-> FALSE]]
  BY <1>1 DEF CommitLogin, At
<1>3. tx[w] \in Transactions /\ Suits(w, tx[w]) /\ Shaped(tx[w])
  BY OwnSuits DEF Suits
<1>4. s \in Sessions /\ t \in Tokens /\ tx[w].time \in Cutoffs
  BY <1>1, <1>2, <1>3 DEF Transactions, Shaped
<1>5. Drawn(tx[w]) = {t} /\ tokens[t] = None /\ sessions[s] = None
  BY <1>1, <1>2, <1>3, <1>4 DEF Drawn, Suits
<1> DEFINE m == [session |-> s, replacedBy |-> None, revoked |-> FALSE]
           n == [issuedAt |-> tx[w].time, jti |-> t, revoked |-> FALSE]
<1>6. m \in TokenRows /\ m # None /\ n \in SessionRows /\ n # None
  <2>1. m \in TokenRows /\ n \in SessionRows
    BY <1>4 DEF TokenRows, SessionRows
  <2>2. QED BY <2>1, NeverNone
<1>7. /\ m.session = s /\ m.replacedBy = None /\ m.revoked = FALSE
      /\ n.issuedAt = tx[w].time /\ n.jti = t /\ n.revoked = FALSE
  OBVIOUS
<1> HIDE DEF m, n
<1>8. /\ sessions' \in [Sessions -> SessionRows \cup {None}]
      /\ tokens' \in [Tokens -> TokenRows \cup {None}]
      /\ sessions'[s] = n /\ \A u \in Sessions \ {s} : sessions'[u] = sessions[u]
      /\ tokens'[t] = m /\ \A u \in Tokens \ {t} : tokens'[u] = tokens[u]
  BY <1>2, <1>4, <1>6 DEF RowsIInv, RowsTypeOK, m, n
<1>9. About(s, Drawn(tx[w]))
  BY <1>4, <1>5, <1>6, <1>7, <1>8 DEF About, SessionKept, TokensOf
<1>10. SessionIInv(s)'
  <2>1. TokensOf(s)' = {t}
    <3>1. \A u \in Tokens \ {t} : tokens[u] # None => tokens[u].session # s
      BY <1>5 DEF RowsIInv, RowsRefer
    <3>2. QED BY <1>4, <1>6, <1>7, <1>8, <3>1 DEF TokensOf
  <2>2. QED BY <1>6, <1>7, <1>8, <2>1 DEF SessionIInv
<1>11. QED BY <1>1, <1>2, <1>4, <1>8, <1>9, <1>10, CommitKeeps

LEMMA RotateKeeps ==
    ASSUME RowsIInv, NEW w \in Requests, At(w, "refresh", "ready"), tx[w].outcome = "rotated",
           Rotate(tx[w].session, tx[w].token, tx[w].fresh), Step(w, Idle),
           UNCHANGED <<lapsed, eligibility>>
    PROVE  RowsIInv' /\ sessions'[tx[w].session].issuedAt = tx[w].time
                     /\ ~ sessions'[tx[w].session].revoked
<1>1. PICK s, t, f : s = tx[w].session /\ t = tx[w].token /\ f = tx[w].fresh
  OBVIOUS
<1>2. /\ tokens' = [tokens EXCEPT ![t].replacedBy = f,
                    ![f] = [session |-> s, replacedBy |-> None, revoked |-> FALSE]]
      /\ sessions' = [sessions EXCEPT ![s].jti = f]
  BY <1>1 DEF Rotate
<1>3. tx[w] \in Transactions /\ Suits(w, tx[w]) /\ Shaped(tx[w]) /\ Refers(tx[w])
      /\ Decided(tx[w]) /\ tx[w].kind = "refresh" /\ tx[w].pc = "ready"
  BY OwnSuits DEF Suits, At
<1>4. s \in Sessions /\ t \in Tokens /\ f \in Tokens /\ s \in tx[w].locks
  BY <1>1, <1>3 DEF Transactions, Shaped
<1>5. Drawn(tx[w]) = {f} /\ tokens[f] = None
  BY <1>1, <1>3, <1>4 DEF Drawn, Suits
<1>6. /\ tokens[t] # None /\ tokens[t].session = s /\ sessions[s] # None
      /\ sessions[s].issuedAt = tx[w].time /\ Usable(t) /\ ~ sessions[s].revoked
  BY <1>1, <1>3 DEF Refers, Decided
<1>7. tokens[t] \in TokenRows /\ sessions[s] \in SessionRows /\ t # f
  BY <1>4, <1>5, <1>6 DEF RowsIInv, RowsTypeOK
<1> DEFINE m == [session |-> s, replacedBy |-> None, revoked |-> FALSE]
           o == [tokens[t] EXCEPT !.replacedBy = f]
           n == [sessions[s] EXCEPT !.jti = f]
<1>8. /\ m \in TokenRows /\ o \in TokenRows /\ n \in SessionRows
      /\ m # None /\ o # None /\ n # None
  <2>1. m \in TokenRows /\ o \in TokenRows /\ n \in SessionRows
    BY <1>4, <1>7 DEF TokenRows, SessionRows
  <2>2. QED BY <2>1, NeverNone
<1>9. /\ m.session = s /\ m.replacedBy = None /\ m.revoked = FALSE
      /\ o.session = s /\ o.replacedBy = f
      /\ n.issuedAt = tx[w].time /\ n.jti = f /\ n.revoked = FALSE
  BY <1>6, <1>7 DEF TokenRows, SessionRows
<1> HIDE DEF m, n, o
<1>10. /\ sessions' \in [Sessions -> SessionRows \cup {None}]
       /\ tokens' \in [Tokens -> TokenRows \cup {None}]
       /\ sessions'[s] = n /\ \A u \in Sessions \ {s} : sessions'[u] = sessions[u]
       /\ tokens'[f] = m /\ tokens'[t] = o
       /\ \A u \in Tokens \ {t, f} : tokens'[u] = tokens[u]
  BY <1>2, <1>4, <1>7, <1>8 DEF RowsIInv, RowsTypeOK, m, n, o
<1>11. About(s, Drawn(tx[w]))
  BY <1>4, <1>5, <1>6, <1>8, <1>9, <1>10 DEF About, SessionKept, TokensOf
<1>12. SessionIInv(s)'
  <2>1. TokensOf(s)' = TokensOf(s) \cup {f}
    BY <1>4, <1>5, <1>6, <1>8, <1>9, <1>10 DEF TokensOf
  <2>2. \A u \in TokensOf(s) : ~ Usable(u)'
    <3>1. \A u \in TokensOf(s) \ {t} : u \in Tokens /\ ~ Usable(u) /\ u # f
      BY <1>4, <1>5, <1>6 DEF RowsIInv, OneUsableToken, TokensOf
    <3>2. ~ Usable(t)'
      BY <1>4, <1>9, <1>10 DEF Usable
    <3>3. QED BY <1>10, <3>1, <3>2 DEF Usable
  <2>3. QED BY <1>8, <1>9, <1>10, <2>1, <2>2 DEF SessionIInv
<1>13. RowsIInv'
  BY <1>1, <1>4, <1>10, <1>11, <1>12, CommitKeeps
<1>14. QED BY <1>1, <1>9, <1>10, <1>13

\* A revocation closes the session, and every token it had.
LEMMA RevokeKeeps ==
    ASSUME RowsIInv, NEW w \in Requests, tx[w].kind \in {"refresh", "logout"},
           tx[w].pc = "ready", tx[w].kind = "refresh" => tx[w].outcome \in {"reused", "ineligible"},
           Revoke(tx[w].session, tx[w].seen), Step(w, Idle), UNCHANGED <<lapsed, eligibility>>
    PROVE  /\ RowsIInv' /\ sessions'[tx[w].session].revoked
           /\ \A u \in TokensOf(tx[w].session) : ~ Usable(u)'
<1>1. PICK s : s = tx[w].session
  OBVIOUS
<1>2. tx[w] \in Transactions /\ Suits(w, tx[w]) /\ Shaped(tx[w]) /\ Refers(tx[w]) /\ Decided(tx[w])
  BY OwnSuits DEF Suits
<1>3. s \in Sessions /\ s \in tx[w].locks /\ sessions[s] # None /\ tx[w].seen = TokensOf(s)
  BY <1>1, <1>2 DEF Transactions, Shaped, Refers, Decided
<1>4. /\ sessions' = [sessions EXCEPT ![s].revoked = TRUE]
      /\ tokens' = [t \in Tokens |-> IF t \in TokensOf(s) THEN [tokens[t] EXCEPT !.revoked = TRUE]
                                     ELSE tokens[t]]
  BY <1>1, <1>3 DEF Revoke
<1> DEFINE n == [sessions[s] EXCEPT !.revoked = TRUE]
           closed(t) == [tokens[t] EXCEPT !.revoked = TRUE]
<1>5. n \in SessionRows /\ n # None /\ n.revoked /\ n.jti = sessions[s].jti
      /\ n.issuedAt = sessions[s].issuedAt
  <2>1. sessions[s] \in SessionRows
    BY <1>3 DEF RowsIInv, RowsTypeOK
  <2>2. n \in SessionRows /\ n.revoked /\ n.jti = sessions[s].jti
        /\ n.issuedAt = sessions[s].issuedAt
    BY <2>1 DEF SessionRows
  <2>3. QED BY <2>2, NeverNone
<1>6. ASSUME NEW t \in TokensOf(s)
      PROVE  /\ t \in Tokens /\ closed(t) \in TokenRows /\ closed(t) # None
             /\ closed(t).revoked /\ closed(t).session = tokens[t].session
             /\ closed(t).session = s /\ closed(t).replacedBy = tokens[t].replacedBy
  <2>1. t \in Tokens /\ tokens[t] \in TokenRows /\ tokens[t].session = s
    BY DEF RowsIInv, RowsTypeOK, TokensOf
  <2>2. /\ closed(t) \in TokenRows /\ closed(t).revoked
        /\ closed(t).session = tokens[t].session /\ closed(t).replacedBy = tokens[t].replacedBy
    BY <2>1 DEF TokenRows
  <2>3. QED BY <2>1, <2>2, NeverNone
<1> HIDE DEF n, closed
<1>7. /\ sessions' \in [Sessions -> SessionRows \cup {None}]
      /\ sessions'[s] = n /\ \A u \in Sessions \ {s} : sessions'[u] = sessions[u]
  BY <1>3, <1>4, <1>5 DEF RowsIInv, RowsTypeOK, n
<1>8. \A t \in Tokens : tokens'[t] = IF t \in TokensOf(s) THEN closed(t) ELSE tokens[t]
  BY <1>4 DEF closed
<1>9. tokens' \in [Tokens -> TokenRows \cup {None}]
  <2>1. tokens' = [t \in Tokens |-> IF t \in TokensOf(s) THEN closed(t) ELSE tokens[t]]
    BY <1>4 DEF closed
  <2>2. QED BY <1>6, <2>1 DEF RowsIInv, RowsTypeOK
<1>10. /\ TokensOf(s)' = TokensOf(s)
       /\ \A u \in Sessions \ {s} : TokensOf(u)' \cap TokensOf(s) = {}
  BY <1>6, <1>8 DEF TokensOf
<1>11. \A u \in TokensOf(s) : ~ Usable(u)'
  BY <1>6, <1>8 DEF Usable
<1>12. About(s, Drawn(tx[w]))
  <2>1. \A u \in Sessions \ {s} : SessionKept(u)
    BY <1>6, <1>7, <1>8, <1>10 DEF SessionKept, TokensOf
  <2>2. QED BY <1>3, <1>5, <1>6, <1>7, <1>8, <2>1 DEF About, TokensOf
<1>13. SessionIInv(s)'
  <2>1. sessions[s].jti \in TokensOf(s) /\ tokens[sessions[s].jti].replacedBy = None
    BY <1>3 DEF RowsIInv, RowsTypeOK, SessionRows, RowsRefer, TokensOf
  <2>2. QED BY <1>5, <1>6, <1>7, <1>8, <1>10, <1>11, <2>1 DEF SessionIInv
<1>14. RowsIInv'
  BY <1>1, <1>3, <1>7, <1>9, <1>12, <1>13, CommitKeeps
<1>15. QED BY <1>1, <1>5, <1>7, <1>11, <1>14

LEMMA RequestKeepsRows ==
    ASSUME RowsIInv, AuthorityTypeOK, NEW w \in Requests, Begin(w) \/ Progress(w) \/ Lost(w)
    PROVE  RowsIInv'
<1>1. CASE Begin(w)
  <2>1. \E r : Suits(w, r) /\ Step(w, r)
    BY <1>1, IssueSuits, BeginRefreshSuits, BeginOtherSuits DEF Begin
  <2>2. Quiet
    BY <1>1 DEF Begin, IssueSession, BeginRefresh, BeginLogout, BeginPush, Waiting
  <2>3. QED BY <2>1, <2>2, QuietKeeps
<1>2. CASE \/ LoginRefused(w) \/ RefreshRefused(w) \/ PushRefused(w) \/ CommitPush(w)
           \/ Lost(w)
  <2>1. Step(w, Idle) /\ Quiet
    BY <1>2 DEF LoginRefused, RefreshRefused, PushRefused, CommitPush, Lost, Drop
  <2>2. QED BY <2>1, IdleSuits, QuietKeeps
<1>3. CASE ValidateIssued(w) \/ RefreshAdmitted(w) \/ PushAdmitted(w)
  <2>1. \E r : Suits(w, r) /\ Step(w, r)
    BY <1>3, GoesOnSuits DEF ValidateIssued, RefreshAdmitted, PushAdmitted, At
  <2>2. Quiet
    BY <1>3 DEF ValidateIssued, RefreshAdmitted, PushAdmitted
  <2>3. QED BY <2>1, <2>2, QuietKeeps
<1>4. CASE \/ LockForRotation(w) \/ DecideRotation(w) \/ LockToRevoke(w) \/ LogoutSession(w)
           \/ LockDevice(w)
  <2>1. \E r : Suits(w, r) /\ Step(w, r)
    BY <1>4, RotationLockSuits, DecisionSuits, RevocationLockSuits, LogoutSuits, DeviceSuits
  <2>2. Quiet
    BY <1>4 DEF LockForRotation, DecideRotation, LockToRevoke, LogoutSession, LockDevice, Waiting
  <2>3. QED BY <2>1, <2>2, QuietKeeps
<1>5. CASE CommitLogin(w)
  BY <1>5, LoginKeeps
<1>6. CASE CommitRefresh(w)
  <2>1. /\ At(w, "refresh", "ready") /\ Step(w, Idle) /\ UNCHANGED <<lapsed, eligibility>>
        /\ tx[w].kind = "refresh" /\ tx[w].pc = "ready"
    BY <1>6 DEF CommitRefresh, At
  <2>2. CASE tx[w].outcome = "rotated" /\ Rotate(tx[w].session, tx[w].token, tx[w].fresh)
    BY <2>1, <2>2, RotateKeeps
  <2>3. CASE tx[w].outcome \in {"reused", "ineligible"} /\ Revoke(tx[w].session, tx[w].seen)
    BY <2>1, <2>3, RevokeKeeps
  <2>4. CASE UNCHANGED rows
    BY <2>1, <2>4, IdleSuits, QuietKeeps DEF Quiet
  <2>5. QED BY <1>6, <2>2, <2>3, <2>4 DEF CommitRefresh
<1>7. CASE CommitLogout(w)
  <2>1. /\ tx[w].kind = "logout" /\ tx[w].pc = "ready" /\ Step(w, Idle)
        /\ UNCHANGED <<lapsed, eligibility>> /\ Revoke(tx[w].session, tx[w].seen)
    BY <1>7 DEF CommitLogout, At
  <2>2. QED BY <2>1, RevokeKeeps
<1>8. QED BY <1>1, <1>2, <1>3, <1>4, <1>5, <1>6, <1>7 DEF Progress

-----------------------------------------------------------------------------
(* The recovery authority: the lock's holders keep the operator out.         *)
LEMMA RequestKeepsAuthority ==
    ASSUME RowsIInv, AuthorityIInv, NEW w \in Requests, Begin(w) \/ Progress(w) \/ Lost(w)
    PROVE  AuthorityIInv'
<1> DEFINE Keeps(r) == UnderAuthority(r) => w \in holders' /\ AdmitsSession(control, r.time)
<1>1. tx[w] \in Transactions /\ Shaped(tx[w])
  BY OwnSuits DEF Suits
<1>2. UnderAuthority(tx[w]) => w \in holders /\ AdmitsSession(control, tx[w].time)
  BY DEF AuthorityIInv, AuthorityHeld
<1>3. /\ UNCHANGED <<control, operator, now>>
      /\ holders' \in SUBSET Requests /\ holders' \ {w} = holders \ {w}
      /\ ExclusiveHeld => holders' \subseteq holders
      /\ \E r : Step(w, r) /\ Keeps(r)
  <2> USE DEF AuthorityIInv, AuthorityTypeOK
  <2>1. CASE Begin(w)
    <3>1. UNCHANGED <<control, operator, now, holders>>
      BY <2>1 DEF Begin, IssueSession, BeginRefresh, BeginLogout, BeginPush, Waiting, authorityVars
    <3>2. ASSUME NEW r, r.kind = "logout" \/ r.kind = "push" \/ r.pc = "asking" PROVE Keeps(r)
      BY <3>2 DEF UnderAuthority
    <3>3. \E r : Step(w, r) /\ (r.kind = "logout" \/ r.kind = "push" \/ r.pc = "asking")
      <4>1. ASSUME NEW s \in Sessions, NEW t \in Tokens, IssueSession(w, s, t)
            PROVE  \E r : Step(w, r) /\ r.pc = "asking"
        <5> DEFINE r == [Idle EXCEPT !.kind = "login", !.pc = "asking", !.session = s,
                                     !.token = t, !.time = now, !.locks = {Device}]
        <5>1. Step(w, r) /\ r.pc = "asking"
          BY <4>1 DEF IssueSession, Idle
        <5> HIDE DEF r
        <5>2. QED BY <5>1
      <4>2. ASSUME NEW t \in Tokens, NEW f \in Tokens, BeginRefresh(w, t, f)
            PROVE  \E r : Step(w, r) /\ r.pc = "asking"
        <5> DEFINE r == [Idle EXCEPT !.kind = "refresh", !.pc = "asking",
                                     !.session = tokens[t].session, !.token = t, !.fresh = f,
                                     !.time = sessions[tokens[t].session].issuedAt]
        <5>1. Step(w, r) /\ r.pc = "asking"
          BY <4>2 DEF BeginRefresh, Idle
        <5> HIDE DEF r
        <5>2. QED BY <5>1
      <4>3. ASSUME NEW s \in Sessions, BeginLogout(w, s)
            PROVE  \E r : Step(w, r) /\ r.kind = "logout"
        <5> DEFINE r == [Idle EXCEPT !.kind = "logout", !.pc = "locking", !.session = s]
        <5>1. Step(w, r) /\ r.kind = "logout"
          BY <4>3 DEF BeginLogout, Idle
        <5> HIDE DEF r
        <5>2. QED BY <5>1
      <4>4. ASSUME NEW s \in Sessions, BeginPush(w, s)
            PROVE  \E r : Step(w, r) /\ r.kind = "push"
        <5> DEFINE r == [Idle EXCEPT !.kind = "push", !.pc = "asking", !.session = s,
                                     !.generation = control.generation]
        <5>1. Step(w, r) /\ r.kind = "push"
          BY <4>4 DEF BeginPush, Idle
        <5> HIDE DEF r
        <5>2. QED BY <5>1
      <4>5. QED BY <2>1, <4>1, <4>2, <4>3, <4>4 DEF Begin
    <3>4. QED BY <3>1, <3>2, <3>3
  <2>2. CASE \/ LoginRefused(w) \/ RefreshRefused(w) \/ PushRefused(w) \/ CommitPush(w)
             \/ Lost(w) \/ CommitLogin(w) \/ CommitRefresh(w) \/ CommitLogout(w)
    <3>1. Step(w, Idle) /\ Release(w)
      BY <2>2 DEF LoginRefused, RefreshRefused, PushRefused, CommitPush, Lost, Drop,
         CommitLogin, CommitRefresh, CommitLogout
    <3>2. Keeps(Idle)
      BY DEF UnderAuthority, Idle, Kinds
    <3>3. QED BY <3>1, <3>2 DEF Release
  <2>3. CASE ValidateIssued(w) \/ RefreshAdmitted(w) \/ PushAdmitted(w)
    <3>1. Share(w) /\ ~ ExclusiveHeld
      BY <2>3 DEF ValidateIssued, RefreshAdmitted, PushAdmitted, Granted, Grantable,
         Overtakes, ExclusiveHeld
    <3>2. PICK p \in {"ready", "locking"} : Step(w, [tx[w] EXCEPT !.pc = p])
      BY <2>3 DEF ValidateIssued, RefreshAdmitted, PushAdmitted
    <3> DEFINE r == [tx[w] EXCEPT !.pc = p]
    <3>3. r.kind = tx[w].kind /\ r.time = tx[w].time
      BY <1>1 DEF Transactions
    <3>4. tx[w].kind \in {"login", "refresh"} => AdmitsSession(control, tx[w].time)
      BY <2>3 DEF ValidateIssued, RefreshAdmitted, PushAdmitted, At
    <3>5. w \in holders'
      BY <3>1 DEF Share
    <3> HIDE DEF r
    <3>6. Keeps(r)
      BY <3>3, <3>4, <3>5 DEF UnderAuthority
    <3>7. QED BY <3>1, <3>2, <3>6 DEF Share, r
  <2>4. CASE LockForRotation(w) \/ DecideRotation(w) \/ LockToRevoke(w)
    <3>1. \E r : Step(w, r) /\ r.kind = tx[w].kind /\ r.time = tx[w].time
      <4>1. CASE LockForRotation(w)
        <5>1. PICK i \in Unlocked(w) :
                 Step(w, [tx[w] EXCEPT !.locks = @ \cup {RotationOrder(w)[i]}])
          BY <4>1 DEF LockForRotation
        <5> DEFINE r == [tx[w] EXCEPT !.locks = tx[w].locks \cup {RotationOrder(w)[i]}]
        <5>2. Step(w, r) /\ r.kind = tx[w].kind /\ r.time = tx[w].time
          BY <1>1, <5>1 DEF Transactions
        <5> HIDE DEF r
        <5>3. QED BY <5>2
      <4>2. CASE DecideRotation(w)
        <5> DEFINE o == RotationOutcome(w)
                   r == IF o \in {"reused", "ineligible"}
                        THEN [tx[w] EXCEPT !.outcome = o, !.pc = "revoking",
                                           !.seen = TokensOf(tx[w].session)]
                        ELSE [tx[w] EXCEPT !.outcome = o, !.pc = "ready"]
        <5>1. Step(w, r)
          BY <4>2 DEF DecideRotation
        <5>2. r.kind = tx[w].kind /\ r.time = tx[w].time
          BY <1>1 DEF Transactions
        <5> HIDE DEF r
        <5>3. QED BY <5>1, <5>2
      <4>3. CASE LockToRevoke(w)
        <5> DEFINE r == [tx[w] EXCEPT !.pc = "ready",
                             !.locks = tx[w].locks \cup tx[w].seen \cup {tx[w].session}]
        <5>1. Step(w, r) /\ r.kind = tx[w].kind /\ r.time = tx[w].time
          BY <1>1, <4>3 DEF LockToRevoke, Transactions
        <5> HIDE DEF r
        <5>2. QED BY <5>1
      <4>4. QED BY <2>4, <4>1, <4>2, <4>3
    <3>2. tx[w].kind = "logout" \/ UnderAuthority(tx[w])
      BY <1>1, <2>4 DEF LockForRotation, DecideRotation, LockToRevoke, At, UnderAuthority, Shaped,
         Transactions, Kinds, Idle
    <3>3. UNCHANGED <<control, operator, now, holders>>
      BY <2>4 DEF LockForRotation, DecideRotation, LockToRevoke, Waiting, authorityVars
    <3>4. ASSUME NEW r, r.kind = tx[w].kind, r.time = tx[w].time PROVE Keeps(r)
      BY <1>2, <3>2, <3>3, <3>4 DEF UnderAuthority
    <3>5. QED BY <3>1, <3>3, <3>4
  <2>5. CASE LogoutSession(w) \/ LockDevice(w)
    <3>1. \E r : Step(w, r) /\ r.kind \in {"logout", "push"}
      <4>1. CASE LogoutSession(w)
        <5> DEFINE r == [tx[w] EXCEPT !.locks = {tx[w].session}, !.pc = "revoking",
                                      !.seen = TokensOf(tx[w].session)]
        <5>1. Step(w, r) /\ r.kind = "logout"
          BY <1>1, <4>1 DEF LogoutSession, At, Transactions
        <5> HIDE DEF r
        <5>2. QED BY <5>1
      <4>2. CASE LockDevice(w)
        <5> DEFINE r == [tx[w] EXCEPT !.pc = "ready", !.locks = {Device}]
        <5>1. Step(w, r) /\ r.kind = "push"
          BY <1>1, <4>2 DEF LockDevice, At, Transactions
        <5> HIDE DEF r
        <5>2. QED BY <5>1
      <4>3. QED BY <2>5, <4>1, <4>2
    <3>2. UNCHANGED <<control, operator, now, holders>>
      BY <2>5 DEF LogoutSession, LockDevice, Waiting, authorityVars
    <3>3. ASSUME NEW r, r.kind \in {"logout", "push"} PROVE Keeps(r)
      BY <3>3 DEF UnderAuthority
    <3>4. QED BY <3>1, <3>2, <3>3
  <2>6. QED BY <2>1, <2>2, <2>3, <2>4, <2>5 DEF Progress
<1>4. PICK r : Step(w, r) /\ Keeps(r)
  BY <1>3
<1>5. tx'[w] = r /\ \A v \in Requests \ {w} : tx'[v] = tx[v]
  BY <1>4, StepChanges DEF RowsIInv
<1>6. AuthorityTypeOK'
  BY <1>3 DEF AuthorityIInv, AuthorityTypeOK
<1>7. (ExclusiveHeld => holders = {})'
  BY <1>3 DEF ExclusiveHeld, AuthorityIInv, AuthorityHeld
<1>8. ASSUME NEW v \in Requests, UnderAuthority(tx'[v])
      PROVE  v \in holders' /\ AdmitsSession(control, tx'[v].time)
  <2>1. CASE v = w
    BY <1>4, <1>5, <1>8, <2>1
  <2>2. CASE v # w
    <3>1. v \in holders /\ AdmitsSession(control, tx[v].time)
      BY <1>5, <1>8, <2>2 DEF AuthorityIInv, AuthorityHeld
    <3>2. QED BY <1>3, <1>5, <2>2, <3>1
  <2>3. QED BY <2>1, <2>2
<1>9. AuthorityHeld'
  BY <1>3, <1>7, <1>8 DEF AuthorityHeld, UnderAuthority, AdmitsSession, Admits
<1>10. QED BY <1>6, <1>9 DEF AuthorityIInv

LEMMA FirstControlType == FirstControl \in Controls /\ IdleOperator \in OperatorStates
BY DEF FirstControl, IdleOperator, OperatorStates, Controls, Generations, Cutoffs, NoCutoff

LEMMA OperatorKeepsAuthority ==
    ASSUME AuthorityIInv, OperatorNext, UNCHANGED tx PROVE AuthorityIInv'
<1> USE DEF AuthorityIInv, AuthorityTypeOK
<1>1. holders' = holders
  BY DEF OperatorNext, OperatorBegin, OperatorProgress, OperatorLock, Fence, Activate,
         OperatorRefused, OperatorCommit, OperatorLost
<1>2. AuthorityTypeOK' /\ (OperatorCommit \/ control' = control)
      /\ (ExclusiveHeld' => holders = {})
  <2>1. ASSUME NEW k \in {"fence", "activate"}, NEW g \in 0 .. control.generation,
               OperatorBegin(k, g)
        PROVE  AuthorityTypeOK' /\ control' = control /\ ~ ExclusiveHeld'
    <3>1. g \in Generations
      BY <2>1 DEF Controls, Generations
    <3>2. QED BY <2>1, <3>1 DEF OperatorBegin, OperatorStates, ExclusiveHeld
  <2>2. CASE OperatorLock
    BY <2>2 DEF OperatorLock, OperatorStates
  <2>3. CASE Fence
    BY <2>3 DEF Fence, OperatorStates, Controls, AuthorityHeld, ExclusiveHeld
  <2>4. CASE Activate
    <3> DEFINE row == [generation |-> control.generation + 1, state |-> "ACTIVE",
                       notBefore |-> now + 1]
    <3>1. now + 1 \in Cutoffs /\ control.generation + 1 \in Generations
      BY <2>4 DEF Activate, RoomToActivate, Cutoffs, Controls, Generations
    <3>2. row \in Controls
      BY <3>1 DEF Controls
    <3>3. operator' = [operator EXCEPT !.pc = "decided", !.row = row]
      BY <2>4 DEF Activate
    <3>4. operator' \in OperatorStates
      BY <3>2, <3>3 DEF OperatorStates
    <3>5. QED BY <2>4, <3>1, <3>4 DEF Activate, AuthorityHeld, ExclusiveHeld
  <2>5. CASE OperatorRefused \/ OperatorCommit \/ OperatorLost
    <3>1. operator' = IdleOperator /\ now' = now
      BY <2>5 DEF OperatorRefused, OperatorCommit, OperatorLost
    <3>2. control' \in Controls /\ (OperatorCommit \/ control' = control)
      BY <2>5 DEF OperatorRefused, OperatorCommit, OperatorLost, OperatorStates
    <3>3. ~ ExclusiveHeld'
      BY <3>1 DEF ExclusiveHeld, IdleOperator
    <3>4. QED BY <1>1, <3>1, <3>2, <3>3, FirstControlType
  <2>6. QED BY <2>1, <2>2, <2>3, <2>4, <2>5 DEF OperatorNext, OperatorProgress
<1>3. AuthorityHeld'
  <2>1. CASE OperatorCommit
    <3>1. holders = {}
      BY <2>1 DEF OperatorCommit, AuthorityHeld, ExclusiveHeld
    <3>2. \A w \in Requests : ~ UnderAuthority(tx[w])
      BY <3>1 DEF AuthorityHeld
    <3>3. QED BY <1>1, <3>1, <3>2 DEF AuthorityHeld, UnderAuthority
  <2>2. CASE control' = control
    BY <1>1, <1>2, <2>2 DEF AuthorityHeld, UnderAuthority, AdmitsSession, Admits
  <2>3. QED BY <1>2, <2>1, <2>2
<1>4. QED BY <1>2, <1>3

-----------------------------------------------------------------------------
(* Together.                                                                 *)
LEMMA Initially == Init => IInv
<1> SUFFICES ASSUME Init PROVE IInv
  OBVIOUS
<1>1. RowsTypeOK /\ AuthorityTypeOK /\ answer \in Answers \cup {None}
  BY IdleType, FirstControlType DEF Init, AuthorityInit, RowsTypeOK, AuthorityTypeOK, Eligibilities,
     Cutoffs
<1>2. \A w \in Requests : tx[w] = Idle
  BY DEF Init
<1>3. \A t \in Tokens : tokens[t] = None /\ ~ Usable(t)
  BY DEF Init, Usable
<1>4. LocksExclude /\ RequestsShaped
  BY <1>2, IdleType DEF LocksExclude, RequestsShaped, Idle
<1>5. RowsRefer /\ OneUsableToken /\ RevokedIsClosed
  BY <1>3 DEF RowsRefer, OneUsableToken, RevokedIsClosed, Init
<1>6. DrawnOnce
  BY <1>2, IdleType DEF DrawnOnce, Idle, Kinds
<1>7. RequestsRefer /\ DecisionsHold
  BY <1>2 DEF RequestsRefer, DecisionsHold, Refers, Decided, Idle, Kinds
<1>8. AuthorityHeld
  BY <1>2 DEF Init, AuthorityInit, AuthorityHeld, UnderAuthority, Idle, Kinds
<1>9. QED BY <1>1, <1>4, <1>5, <1>6, <1>7, <1>8, Parts DEF RowsIInv, AuthorityIInv

\* Who is answered, and by which step.
LEMMA Answering ==
    ASSUME [Next]_vars
    PROVE  \/ answer' \in {None, answer}
           \/ \E w \in Requests : CommitLogin(w) \/ CommitRefresh(w) \/ CommitLogout(w)
           \/ \E s \in Sessions, t \in Tokens : Authenticate(s, t)
           \/ \E t \in Tokens : SyncAuthenticate(t)
<1>1. ASSUME NEW w \in Requests, Begin(w) PROVE answer' = None
  BY <1>1 DEF Begin, IssueSession, BeginRefresh, BeginLogout, BeginPush, Waiting, Silent
<1>2. ASSUME NEW w \in Requests, Progress(w), ~ CommitLogin(w), ~ CommitRefresh(w),
             ~ CommitLogout(w)
      PROVE  answer' = None
  BY <1>2 DEF Progress, ValidateIssued, LoginRefused, RefreshAdmitted, RefreshRefused,
     LockForRotation, DecideRotation, LockToRevoke, LogoutSession, PushAdmitted, PushRefused,
     LockDevice, CommitPush, Drop, Waiting, Silent
<1>3. ASSUME NEW w \in Requests, Lost(w) PROVE answer' = None
  BY <1>3 DEF Lost, Drop, Silent
<1>4. CASE Elsewhere \/ Environment
  BY <1>4 DEF Elsewhere, Environment, TokenLapses, SessionLapses, EligibilityChanges, Silent
<1>5. CASE UNCHANGED vars
  BY <1>5 DEF vars
<1>6. QED BY <1>1, <1>2, <1>3, <1>4, <1>5 DEF Next

LEMMA AnswerTyped ==
    ASSUME IInv, [Next]_vars PROVE answer' \in Answers \cup {None}
<1>1. RowsIInv /\ answer \in Answers \cup {None}
  BY Parts
<1>2. ASSUME NEW w \in Requests, CommitLogin(w) \/ CommitRefresh(w) \/ CommitLogout(w)
      PROVE  answer' \in Answers
  <2>1. tx[w] \in Transactions /\ Shaped(tx[w]) /\ Decided(tx[w])
    BY <1>1, OwnSuits DEF Suits
  <2>2. CASE CommitLogin(w)
    <3>1. tx[w].session \in Sessions
      BY <2>1, <2>2 DEF CommitLogin, At, Shaped, Transactions
    <3>2. QED BY <2>1, <2>2, <3>1 DEF CommitLogin, Reply, Answers, Transactions
  <2>3. CASE CommitRefresh(w)
    <3>1. tx[w].session \in Sessions /\ tx[w].outcome \in Outcomes
      BY <2>1, <2>3 DEF CommitRefresh, At, Shaped, Decided, Transactions
    <3>2. QED BY <2>1, <2>3, <3>1 DEF CommitRefresh, Reply, Answers, Transactions
  <2>4. CASE CommitLogout(w)
    <3>1. tx[w].session \in Sessions
      BY <2>1, <2>4 DEF CommitLogout, At, Shaped, Transactions
    <3>2. QED BY <2>1, <2>4, <3>1 DEF CommitLogout, Reply, Answers
  <2>5. QED BY <1>2, <2>2, <2>3, <2>4
<1>3. ASSUME NEW s \in Sessions, NEW t \in Tokens, Authenticate(s, t) PROVE answer' \in Answers
  BY <1>3 DEF Authenticate, Answers
<1>4. ASSUME NEW t \in Tokens, SyncAuthenticate(t) PROVE answer' \in Answers
  <2>1. tokens[t].session \in Sessions
    BY <1>1, <1>4 DEF SyncAuthenticate, Usable, RowsIInv, RowsTypeOK, TokenRows
  <2>2. QED BY <1>4, <2>1 DEF SyncAuthenticate, Answers
<1>5. QED BY <1>1, <1>2, <1>3, <1>4, Answering

LEMMA ElsewhereKeepsRows ==
    ASSUME RowsIInv, UNCHANGED <<sessions, tokens, tx>>,
           lapsed' \in SUBSET (Sessions \cup Tokens), eligibility' \in Eligibilities
    PROVE  RowsIInv'
<1>1. RowsTypeOK'
  BY DEF RowsIInv, RowsTypeOK
<1>2. LocksExclude' /\ RequestsShaped' /\ DrawnOnce'
  BY DEF RowsIInv, LocksExclude, RequestsShaped, Shaped, DrawnOnce, Drawn
<1>3. RowsRefer' /\ OneUsableToken' /\ RevokedIsClosed'
  BY DEF RowsIInv, RowsRefer, OneUsableToken, RevokedIsClosed, Usable
<1>4. RequestsRefer' /\ DecisionsHold'
  BY DEF RowsIInv, RequestsRefer, Refers, DecisionsHold, Decided, TokensOf, Usable
<1>5. QED BY <1>1, <1>2, <1>3, <1>4 DEF RowsIInv

LEMMA Inductive == IInv /\ [Next]_vars => IInv'
<1> SUFFICES ASSUME IInv, [Next]_vars PROVE IInv'
  OBVIOUS
<1>1. RowsIInv /\ AuthorityIInv
  BY Parts
<1>2. lapsed \in SUBSET (Sessions \cup Tokens) /\ eligibility \in Eligibilities
  BY <1>1 DEF RowsIInv, RowsTypeOK
<1>3. RowsIInv' /\ AuthorityIInv'
  <2>1. CASE OperatorNext /\ Elsewhere
    BY <1>1, <1>2, <2>1, ElsewhereKeepsRows, OperatorKeepsAuthority DEF Elsewhere, Quiet, rows
  <2>2. ASSUME NEW w \in Requests, Begin(w) \/ Progress(w) \/ Lost(w)
        PROVE  RowsIInv' /\ AuthorityIInv'
    BY <1>1, <2>2, RequestKeepsRows, RequestKeepsAuthority DEF AuthorityIInv
  <2>3. CASE /\ UNCHANGED <<authorityVars, sessions, tokens, tx>>
             /\ lapsed' \in SUBSET (Sessions \cup Tokens) /\ eligibility' \in Eligibilities
    <3>1. AuthorityIInv'
      BY <1>1, <2>3 DEF AuthorityIInv, AuthorityTypeOK, AuthorityHeld, authorityVars,
         ExclusiveHeld, UnderAuthority, AdmitsSession, Admits
    <3>2. QED BY <1>1, <2>3, <3>1, ElsewhereKeepsRows
  <2>4. CASE \/ \E s \in Sessions, t \in Tokens : Authenticate(s, t)
             \/ \E t \in Tokens : SyncAuthenticate(t)
             \/ UNCHANGED vars
    BY <1>2, <2>3, <2>4 DEF Authenticate, SyncAuthenticate, Quiet, rows, vars
  <2>5. CASE Environment
    BY <1>2, <2>3, <2>5 DEF Environment, TokenLapses, SessionLapses, EligibilityChanges, rows,
       TokensOf, Eligibilities
  <2>6. QED BY <2>1, <2>2, <2>4, <2>5 DEF Next
<1>4. (IInv <=> RowsIInv /\ AuthorityIInv /\ answer \in Answers \cup {None})'
  BY DEF IInv, TypeOK, RowsIInv, RowsTypeOK, AuthorityIInv
<1>5. QED BY <1>3, <1>4, AnswerTyped

(* The inductive invariant of sessions and tokens: rows refer to each other, *)
(* transactions hold what they decided about, and the authority they were    *)
(* admitted under is still in force.                                         *)
THEOREM Invariance == Spec => []IInv
<1>1. QED BY Initially, Inductive, PTL DEF Spec

(* rotate_refresh_token, issue_session and revoke_session leave a session    *)
(* open through at most one refresh token, whatever runs at the same time.   *)
THEOREM OneTokenAtATime == Spec => []OneUsableToken
<1>1. IInv => OneUsableToken
  BY DEF IInv
<1>2. QED BY <1>1, Invariance, PTL

(* No token of a revoked session is usable, not even one that a rotation was *)
(* minting while revoke_session or a detected reuse ran.                     *)
THEOREM RevocationIsFinal == Spec => []RevokedIsClosed
<1>1. IInv => RevokedIsClosed
  BY DEF IInv
<1>2. QED BY <1>1, Invariance, PTL

(* A replaced token that rotate_refresh_token answers costs its session: the *)
(* session is revoked and none of its tokens is usable afterwards.           *)
THEOREM ReuseIsFinal == Spec => ReuseEndsSession
<1> DEFINE Ends(t) == LET s == tokens[t].session IN
                      sessions'[s].revoked /\ \A u \in TokensOf(s) : ~ Usable(u)'
<1>1. ASSUME IInv, [Next]_vars, NEW t \in Tokens, Answered, answer'.to = "refresh",
             answer'.token = t, tokens[t].replacedBy # None
      PROVE  Ends(t)
  <2>1. PICK w \in Requests : CommitRefresh(w)
    <3>1. answer' \notin {None, answer}
      BY <1>1 DEF Answered
    <3>2. ASSUME NEW w \in Requests, CommitLogin(w) \/ CommitLogout(w) PROVE FALSE
      BY <1>1, <3>2 DEF CommitLogin, CommitLogout, Reply
    <3>3. ASSUME NEW s \in Sessions, NEW u \in Tokens, Authenticate(s, u)
          PROVE  FALSE
      BY <1>1, <3>3 DEF Authenticate
    <3>4. ASSUME NEW u \in Tokens, SyncAuthenticate(u) PROVE FALSE
      BY <1>1, <3>4 DEF SyncAuthenticate
    <3>5. QED BY <1>1, <3>1, <3>2, <3>3, <3>4, Answering
  <2>2. RowsIInv
    BY <1>1, Parts
  <2>3. Refers(tx[w]) /\ Decided(tx[w])
    BY <2>2, OwnSuits DEF Suits
  <2>4. /\ tx[w].kind = "refresh" /\ tx[w].pc = "ready" /\ Step(w, Idle)
        /\ UNCHANGED <<lapsed, eligibility>> /\ tx[w].token = t
    BY <1>1, <2>1 DEF CommitRefresh, At, Reply
  <2>5. tx[w].outcome \notin {"rotated", "invalid"} /\ tokens[t].session = tx[w].session
    BY <1>1, <2>3, <2>4 DEF Decided, Usable, Refers
  <2>6. Revoke(tx[w].session, tx[w].seen) /\ tx[w].outcome \in {"reused", "ineligible"}
    BY <2>1, <2>5 DEF CommitRefresh
  <2>7. sessions'[tx[w].session].revoked /\ \A u \in TokensOf(tx[w].session) : ~ Usable(u)'
    BY <2>2, <2>4, <2>6, RevokeKeeps
  <2>8. QED BY <2>5, <2>7
<1>2. IInv /\ [Next]_vars =>
        \A t \in Tokens : /\ Answered /\ answer'.to = "refresh" /\ answer'.token = t
                          /\ tokens[t].replacedBy # None
                          => Ends(t)
  BY <1>1
<1>3. QED BY <1>2, Invariance, PTL DEF ReuseEndsSession, Spec

(* The guard lets nobody in on an access token whose refresh token has been  *)
(* replaced: the rotation leaves the session to the new token alone.         *)
THEOREM RotationEndsAccess == Spec => AccessDiesWithRotation
<1>1. ASSUME IInv, [Next]_vars, Answered, answer'.to = "access"
      PROVE  tokens[answer'.token].replacedBy = None
  <2>1. PICK s \in Sessions, t \in Tokens : Authenticate(s, t)
    <3>1. answer' \notin {None, answer}
      BY <1>1 DEF Answered
    <3>2. ASSUME NEW w \in Requests, CommitLogin(w) \/ CommitRefresh(w) \/ CommitLogout(w)
          PROVE  FALSE
      BY <1>1, <3>2 DEF CommitLogin, CommitRefresh, CommitLogout, Reply
    <3>3. ASSUME NEW u \in Tokens, SyncAuthenticate(u) PROVE FALSE
      BY <1>1, <3>3 DEF SyncAuthenticate
    <3>4. QED BY <1>1, <3>1, <3>2, <3>3, Answering
  <2>2. sessions[s] # None /\ sessions[s].jti = t /\ answer'.token = t
    BY <2>1 DEF Authenticate, ValidAccess, ValidSession, Live
  <2>3. QED BY <1>1, <2>2 DEF IInv, RowsRefer
<1>2. IInv /\ [Next]_vars => (Answered /\ answer'.to = "access"
                              => tokens[answer'.token].replacedBy = None)
  BY <1>1
<1>3. QED BY <1>2, Invariance, PTL DEF AccessDiesWithRotation, Spec

(* Login, rotation, the access guard and the sync guard let in only while    *)
(* the service is active, and only sessions issued after the last cutoff     *)
(* that nobody has revoked.                                                  *)
THEOREM GrantsUnderAuthority == Spec => GrantsAreCurrent
<1> DEFINE Current == LET s == answer'.session IN
               /\ control.state = "ACTIVE"
               /\ sessions'[s].issuedAt >= control.notBefore
               /\ ~ sessions'[s].revoked
<1>1. ASSUME IInv, [Next]_vars, Answered, answer'.outcome \in {"granted", "rotated"}
      PROVE  Current
  <2>1. RowsIInv /\ AuthorityHeld /\ answer' \notin {None, answer}
    BY <1>1, Parts DEF AuthorityIInv, Answered
  <2>2. ASSUME NEW w \in Requests, CommitLogin(w) PROVE Current
    <3>1. tx[w] \in Transactions /\ Shaped(tx[w])
      BY <2>1, OwnSuits DEF Suits
    <3>2. tx[w].session \in Sessions
      BY <2>2, <3>1 DEF CommitLogin, At, Shaped, Transactions
    <3>3. AdmitsSession(control, tx[w].time)
      BY <2>1, <2>2 DEF CommitLogin, At, AuthorityHeld, UnderAuthority
    <3>4. /\ answer'.session = tx[w].session
          /\ sessions'[tx[w].session].issuedAt = tx[w].time
          /\ ~ sessions'[tx[w].session].revoked
      BY <2>1, <2>2, <3>2 DEF CommitLogin, Reply, RowsIInv, RowsTypeOK
    <3>5. QED BY <3>3, <3>4 DEF AdmitsSession, Admits
  <2>3. ASSUME NEW w \in Requests, CommitRefresh(w) PROVE Current
    <3>1. /\ At(w, "refresh", "ready") /\ Step(w, Idle) /\ UNCHANGED <<lapsed, eligibility>>
          /\ answer'.session = tx[w].session /\ tx[w].outcome = "rotated"
          /\ Rotate(tx[w].session, tx[w].token, tx[w].fresh)
      BY <1>1, <2>3 DEF CommitRefresh, Reply
    <3>2. AdmitsSession(control, tx[w].time)
      BY <2>1, <3>1 DEF At, AuthorityHeld, UnderAuthority
    <3>3. /\ sessions'[tx[w].session].issuedAt = tx[w].time
          /\ ~ sessions'[tx[w].session].revoked
      BY <2>1, <3>1, RotateKeeps
    <3>4. QED BY <3>1, <3>2, <3>3 DEF AdmitsSession, Admits
  <2>4. ASSUME NEW w \in Requests, CommitLogout(w) PROVE FALSE
    BY <1>1, <2>4 DEF CommitLogout, Reply
  <2>5. ASSUME NEW s, ValidSession(s), answer'.session = s, UNCHANGED sessions PROVE Current
    BY <2>5 DEF ValidSession, Live, AdmitsSession, Admits
  <2>6. ASSUME NEW s \in Sessions, NEW t \in Tokens, Authenticate(s, t) PROVE Current
    <3>1. ValidSession(s) /\ answer'.session = s /\ UNCHANGED sessions
      BY <2>6 DEF Authenticate, ValidAccess, Quiet, rows
    <3>2. QED BY <2>5, <3>1
  <2>7. ASSUME NEW t \in Tokens, SyncAuthenticate(t) PROVE Current
    <3>1. /\ ValidSession(tokens[t].session) /\ answer'.session = tokens[t].session
          /\ UNCHANGED sessions
      BY <2>7 DEF SyncAuthenticate, Quiet, rows
    <3>2. QED BY <2>5, <3>1
  <2>8. QED BY <1>1, <2>1, <2>2, <2>3, <2>4, <2>6, <2>7, Answering
<1>2. IInv /\ [Next]_vars => (Answered /\ answer'.outcome \in {"granted", "rotated"} => Current)
  BY <1>1
<1>3. QED BY <1>2, Invariance, PTL DEF GrantsAreCurrent, Spec
=============================================================================
