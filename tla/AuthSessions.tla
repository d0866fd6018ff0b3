---------------------------- MODULE AuthSessions ----------------------------
(* Sessions and their rotating refresh tokens: the auth_api functions of    *)
(* migrations 0004, 0005, 0024, 0033 and 0037 as AuthenticationDatabase-    *)
(* Service runs them, one transaction per request, against logout, reuse of *)
(* a token, Store suspension, time and the recovery fence.                  *)
(*                                                                          *)
(* One user signs in from one device to one Store.  Every request runs its  *)
(* statements in order and keeps its row locks until it ends; what it       *)
(* writes becomes visible when it commits.                                  *)
EXTENDS RecoveryAuthority, FiniteSets

CONSTANTS
    Sessions,   \* identifiers of platform.auth_sessions
    Tokens,     \* refresh tokens; one also names the access token minted with it
    Device,     \* the row of ledger.devices
    Expiring,   \* bound: the sessions and tokens whose expiry may pass
    Standings,  \* bound: what user, membership, Store and device may come to allow
    None        \* SQL NULL, no row

ASSUME NamesAssumption ==
    /\ None \notin Sessions \cup Tokens \cup {Device}
    /\ Device \notin Sessions \cup Tokens
    /\ Sessions \cap Tokens = {}
    /\ Standings \subseteq {"full", "sync", "none"}

VARIABLES
    sessions,   \* committed rows of platform.auth_sessions, or None
    tokens,     \* committed rows of platform.refresh_tokens, or None
    lapsed,     \* sessions and tokens whose expiry has passed
    eligibility,    \* what user, membership, Store and device allow together
    tx,         \* the transaction of each request
    answer      \* the last answer the server gave

rows == <<sessions, tokens>>
vars == <<authorityVars, sessions, tokens, lapsed, eligibility, tx, answer>>

SessionRows == [issuedAt : Cutoffs, jti : Tokens, revoked : BOOLEAN]
TokenRows == [session : Sessions, replacedBy : Tokens \cup {None}, revoked : BOOLEAN]
LockRows == Sessions \cup Tokens \cup {Device}

\* Every status allows the Store's members to sign in and to synchronize; a
\* suspended Store keeps synchronization only (0024:750).
Eligibilities == {"full", "sync", "none"}

Kinds == {"login", "refresh", "logout", "push"}
Outcomes == {"rotated", "reused", "ineligible", "invalid"}

Transactions ==
    [kind : Kinds \cup {None},
     pc : {"idle", "asking", "locking", "revoking", "ready"},
     session : Sessions \cup {None},
     token : Tokens \cup {None},        \* inserted by a login, presented to a refresh
     fresh : Tokens \cup {None},        \* what a refresh would replace it with
     time : Cutoffs,                    \* issued_at of the session
     generation : Generations,          \* of the principal that pushes
     outcome : Outcomes \cup {None},
     seen : SUBSET Tokens,              \* the family as the revoking statement sees it
     locks : SUBSET LockRows]

Idle == [kind |-> None, pc |-> "idle", session |-> None, token |-> None, fresh |-> None,
         time |-> 0, generation |-> 0, outcome |-> None, seen |-> {}, locks |-> {}]

ASSUME NoneAssumption == None \notin Kinds \cup Outcomes \cup SessionRows \cup TokenRows

Answers == [to : {"login", "refresh", "logout", "access", "sync"}, session : Sessions,
            token : Tokens \cup {None}, outcome : Outcomes \cup {"granted", "done"}]

TypeOK ==
    /\ AuthorityTypeOK
    /\ sessions \in [Sessions -> SessionRows \cup {None}]
    /\ tokens \in [Tokens -> TokenRows \cup {None}]
    /\ lapsed \in SUBSET (Sessions \cup Tokens)
    /\ eligibility \in Eligibilities
    /\ tx \in [Requests -> Transactions]
    /\ answer \in Answers \cup {None}

Init ==
    /\ AuthorityInit
    /\ sessions = [s \in Sessions |-> None]
    /\ tokens = [t \in Tokens |-> None]
    /\ lapsed = {}
    /\ eligibility = "full"
    /\ tx = [w \in Requests |-> Idle]
    /\ answer = None

-----------------------------------------------------------------------------
At(w, kind, pc) == tx[w].kind = kind /\ tx[w].pc = pc
Free(w, row) == \A v \in Requests \ {w} : row \notin tx[v].locks

\* Random identifiers are never drawn twice.
FreshSessions == {s \in Sessions : sessions[s] = None /\ \A w \in Requests : tx[w].session # s}
FreshTokens == {t \in Tokens : tokens[t] = None
                               /\ \A w \in Requests : tx[w].token # t /\ tx[w].fresh # t}

TokensOf(s) == {t \in Tokens : tokens[t] # None /\ tokens[t].session = s}
Usable(t) == tokens[t] # None /\ tokens[t].replacedBy = None /\ ~ tokens[t].revoked

Live(s) == sessions[s] # None /\ ~ sessions[s].revoked /\ s \notin lapsed

Quiet == UNCHANGED <<rows, lapsed, eligibility>>
Silent == answer' = None
Waiting == Quiet /\ Silent /\ UNCHANGED authorityVars
Step(w, r) == tx' = [tx EXCEPT ![w] = r]

\* The transaction is rolled back, or ends with nothing to write.
Drop(w) == Step(w, Idle) /\ Quiet /\ Release(w) /\ Silent
Reply(w, to, s, t, o) ==
    answer' = [to |-> to, session |-> s, token |-> t, outcome |-> o]

\* PostgreSQL moves a waiting shared request ahead of a waiting exclusive one
\* when the queue would otherwise deadlock: a holder waits for a row the
\* request has locked.
Overtakes(w) ==
    /\ operator.pc = "waiting"
    /\ \E v \in holders : At(v, "push", "locking") /\ Device \in tx[w].locks
Granted(w) == Grantable \/ Overtakes(w)

-----------------------------------------------------------------------------
\* AuthenticationService.login: issue_session inserts the session and its
\* first token and updates the device, then validate_session_recovery_v1 asks
\* for the recovery authority in the same transaction.
IssueSession(w, s, t) ==
    /\ tx[w] = Idle
    /\ s \in FreshSessions /\ t \in FreshTokens
    /\ eligibility = "full"
    /\ Free(w, Device)
    /\ Step(w, [Idle EXCEPT !.kind = "login", !.pc = "asking", !.session = s, !.token = t,
                            !.time = now, !.locks = {Device}])
    /\ Waiting

\* Broken variant: the authority is read without keeping the lock.
ValidateIssuedBriefly(w) ==
    /\ At(w, "login", "asking")
    /\ Granted(w)
    /\ AdmitsSession(control, tx[w].time)
    /\ eligibility = "full"
    /\ Step(w, [tx[w] EXCEPT !.pc = "ready"])
    /\ Waiting

ValidateIssued(w) ==
    /\ At(w, "login", "asking")
    /\ Granted(w)
    /\ AdmitsSession(control, tx[w].time)
    /\ eligibility = "full"
    /\ Step(w, [tx[w] EXCEPT !.pc = "ready"])
    /\ Share(w)
    /\ Quiet /\ Silent

LoginRefused(w) ==
    /\ At(w, "login", "asking")
    /\ Granted(w)
    /\ ~ AdmitsSession(control, tx[w].time) \/ eligibility # "full"
    /\ Drop(w)

CommitLogin(w) ==
    /\ At(w, "login", "ready")
    /\ sessions' = [sessions EXCEPT ![tx[w].session] =
           [issuedAt |-> tx[w].time, jti |-> tx[w].token, revoked |-> FALSE]]
    /\ tokens' = [tokens EXCEPT ![tx[w].token] =
           [session |-> tx[w].session, replacedBy |-> None, revoked |-> FALSE]]
    /\ Reply(w, "login", tx[w].session, tx[w].token, "granted")
    /\ Step(w, Idle)
    /\ Release(w)
    /\ UNCHANGED <<lapsed, eligibility>>

-----------------------------------------------------------------------------
\* AuthenticationService.refresh.  An unknown token is answered `invalid' and
\* changes nothing; a known one leads to its session.
BeginRefresh(w, t, f) ==
    /\ tx[w] = Idle
    /\ tokens[t] # None
    /\ f \in FreshTokens
    /\ LET s == tokens[t].session IN
       Step(w, [Idle EXCEPT !.kind = "refresh", !.pc = "asking", !.session = s, !.token = t,
                            !.fresh = f, !.time = sessions[s].issuedAt])
    /\ Waiting

RefreshAdmitted(w) ==
    /\ At(w, "refresh", "asking")
    /\ Granted(w)
    /\ AdmitsSession(control, tx[w].time)
    /\ Step(w, [tx[w] EXCEPT !.pc = "locking"])
    /\ Share(w)
    /\ Quiet /\ Silent

RefreshRefused(w) ==
    /\ At(w, "refresh", "asking")
    /\ Granted(w)
    /\ ~ AdmitsSession(control, tx[w].time)
    /\ Drop(w)

\* Broken variants: only the token, or the token first (as before 0037).
TokenOnly(w) == <<tx[w].token>>
TokenFirst(w) == <<tx[w].token, tx[w].session>>

\* rotate_refresh_token locks the session before the token.
RotationOrder(w) == <<tx[w].session, tx[w].token>>

\* The rows of that order w has still to lock.
Unlocked(w) == {i \in DOMAIN RotationOrder(w) : RotationOrder(w)[i] \notin tx[w].locks}

LockForRotation(w) ==
    /\ At(w, "refresh", "locking")
    /\ \E i \in Unlocked(w) :
          /\ \A j \in Unlocked(w) : i <= j
          /\ Free(w, RotationOrder(w)[i])
          /\ Step(w, [tx[w] EXCEPT !.locks = @ \cup {RotationOrder(w)[i]}])
    /\ Waiting

\* The outcome as the rows say once both are locked.
RotationOutcome(w) ==
    LET token == tokens[tx[w].token] IN
    IF token.replacedBy # None THEN "reused"
    ELSE IF token.revoked \/ sessions[tx[w].session].revoked
            \/ {tx[w].token, tx[w].session} \cap lapsed # {} THEN "invalid"
    ELSE IF eligibility # "full" THEN "ineligible"
    ELSE "rotated"

\* A refused reuse or an ineligible member goes on to revoke the family.
DecideRotation(w) ==
    /\ At(w, "refresh", "locking")
    /\ Unlocked(w) = {}
    /\ LET o == RotationOutcome(w) IN
       Step(w, IF o \in {"reused", "ineligible"}
               THEN [tx[w] EXCEPT !.outcome = o, !.pc = "revoking",
                                  !.seen = TokensOf(tx[w].session)]
               ELSE [tx[w] EXCEPT !.outcome = o, !.pc = "ready"])
    /\ Waiting

\* The revoking UPDATEs wait for the rows their statement sees.
LockToRevoke(w) ==
    /\ tx[w].pc = "revoking"
    /\ \A r \in tx[w].seen \cup {tx[w].session} : Free(w, r)
    /\ Step(w, [tx[w] EXCEPT !.pc = "ready",
                             !.locks = @ \cup tx[w].seen \cup {tx[w].session}])
    /\ Waiting

Revoke(s, seen) ==
    /\ sessions' = [sessions EXCEPT ![s].revoked = TRUE]
    /\ tokens' = [t \in Tokens |-> IF t \in seen THEN [tokens[t] EXCEPT !.revoked = TRUE]
                                   ELSE tokens[t]]

\* Broken variants: the old token stays usable, or the old access token does.
RotateUnmarked(s, t, f) ==
    /\ tokens' = [tokens EXCEPT ![f] = [session |-> s, replacedBy |-> None, revoked |-> FALSE]]
    /\ sessions' = [sessions EXCEPT ![s].jti = f]
RotateKeepsAccess(s, t, f) ==
    /\ tokens' = [tokens EXCEPT ![t].replacedBy = f,
                                ![f] = [session |-> s, replacedBy |-> None, revoked |-> FALSE]]
    /\ UNCHANGED sessions

\* The old token points to the new one, which alone opens the session from now on.
Rotate(s, t, f) ==
    /\ tokens' = [tokens EXCEPT ![t].replacedBy = f,
                                ![f] = [session |-> s, replacedBy |-> None, revoked |-> FALSE]]
    /\ sessions' = [sessions EXCEPT ![s].jti = f]

\* Broken variant: what is not rotated is rolled back.
CommitRotationsOnly(w) ==
    /\ At(w, "refresh", "ready")
    /\ IF tx[w].outcome = "rotated" THEN Rotate(tx[w].session, tx[w].token, tx[w].fresh)
       ELSE UNCHANGED rows
    /\ Reply(w, "refresh", tx[w].session, tx[w].token, tx[w].outcome)
    /\ Step(w, Idle)
    /\ Release(w)
    /\ UNCHANGED <<lapsed, eligibility>>

\* Only a rotation's answer is prepared inside the transaction; every outcome
\* is committed.
CommitRefresh(w) ==
    /\ At(w, "refresh", "ready")
    /\ \/ tx[w].outcome = "rotated" /\ Rotate(tx[w].session, tx[w].token, tx[w].fresh)
       \/ tx[w].outcome \in {"reused", "ineligible"} /\ Revoke(tx[w].session, tx[w].seen)
       \/ tx[w].outcome = "invalid" /\ UNCHANGED rows
    /\ Reply(w, "refresh", tx[w].session, tx[w].token, tx[w].outcome)
    /\ Step(w, Idle)
    /\ Release(w)
    /\ UNCHANGED <<lapsed, eligibility>>

-----------------------------------------------------------------------------
\* AuthenticationGuard: an access token is accepted while it is the session's
\* last one.  One statement, which holds the lock while it runs.
ValidSession(s) == Live(s) /\ AdmitsSession(control, sessions[s].issuedAt)
ValidAccess(s, t) == ValidSession(s) /\ sessions[s].jti = t /\ eligibility = "full"

Authenticate(s, t) ==
    /\ Grantable
    /\ ValidAccess(s, t)
    /\ answer' = [to |-> "access", session |-> s, token |-> t, outcome |-> "granted"]
    /\ Quiet /\ UNCHANGED <<authorityVars, tx>>

\* AuthenticationService.logout, behind the guard: revoke_session takes no
\* recovery authority of its own.
BeginLogout(w, s) ==
    /\ tx[w] = Idle
    /\ Grantable
    /\ \E t \in Tokens : ValidAccess(s, t)
    /\ Step(w, [Idle EXCEPT !.kind = "logout", !.pc = "locking", !.session = s])
    /\ Waiting

\* Its first UPDATE locks the session, its second sees the tokens there are.
LogoutSession(w) ==
    /\ At(w, "logout", "locking")
    /\ Free(w, tx[w].session)
    /\ Step(w, [tx[w] EXCEPT !.locks = {tx[w].session}, !.pc = "revoking",
                             !.seen = TokensOf(tx[w].session)])
    /\ Waiting

CommitLogout(w) ==
    /\ At(w, "logout", "ready")
    /\ Revoke(tx[w].session, tx[w].seen)
    /\ Reply(w, "logout", tx[w].session, None, "done")
    /\ Step(w, Idle)
    /\ Release(w)
    /\ UNCHANGED <<lapsed, eligibility>>

-----------------------------------------------------------------------------
\* SyncAuthenticationService: a usable refresh token buys a sync token, which
\* opens the push channel while its session lives.
SyncAuthenticate(t) ==
    /\ Grantable
    /\ Usable(t) /\ t \notin lapsed
    /\ ValidSession(tokens[t].session)
    /\ eligibility \in {"full", "sync"}
    /\ answer' = [to |-> "sync", session |-> tokens[t].session, token |-> t, outcome |-> "granted"]
    /\ Quiet /\ UNCHANGED <<authorityVars, tx>>

\* A push behind SyncAuthenticationGuard: the recovery authority first, then
\* the device it came from.  A sync token may outlive the refresh token it was
\* bought with, so any live session may push.
BeginPush(w, s) ==
    /\ tx[w] = Idle
    /\ Grantable
    /\ ValidSession(s)
    /\ eligibility \in {"full", "sync"}
    /\ Step(w, [Idle EXCEPT !.kind = "push", !.pc = "asking", !.session = s,
                            !.generation = control.generation])
    /\ Waiting

PushAdmitted(w) ==
    /\ At(w, "push", "asking")
    /\ Granted(w)
    /\ Admits(control, tx[w].generation, FALSE)
    /\ Step(w, [tx[w] EXCEPT !.pc = "locking"])
    /\ Share(w)
    /\ Quiet /\ Silent

PushRefused(w) ==
    /\ At(w, "push", "asking")
    /\ Granted(w)
    /\ ~ Admits(control, tx[w].generation, FALSE)
    /\ Drop(w)

\* FOR SHARE of the device, which waits for a login's update of it.
LockDevice(w) ==
    /\ At(w, "push", "locking")
    /\ \A v \in Requests : tx[v].kind = "login" => Device \notin tx[v].locks
    /\ Step(w, [tx[w] EXCEPT !.pc = "ready", !.locks = {Device}])
    /\ Waiting

CommitPush(w) == At(w, "push", "ready") /\ Drop(w)

-----------------------------------------------------------------------------
\* The connection is lost, or the response cannot be signed: rolled back.
Lost(w) == tx[w] # Idle /\ Drop(w)

TokenLapses(t) ==
    /\ t \in Expiring \ lapsed /\ tokens[t] # None
    /\ lapsed' = lapsed \cup {t}
    /\ Silent /\ UNCHANGED <<authorityVars, rows, eligibility, tx>>

\* No token outlives its session.
SessionLapses(s) ==
    /\ s \in Expiring \ lapsed /\ sessions[s] # None
    /\ lapsed' = lapsed \cup {s} \cup TokensOf(s)
    /\ Silent /\ UNCHANGED <<authorityVars, rows, eligibility, tx>>

EligibilityChanges ==
    /\ eligibility' \in Standings \ {eligibility}
    /\ Silent /\ UNCHANGED <<authorityVars, rows, lapsed, tx>>

Progress(w) ==
    \/ ValidateIssued(w) \/ LoginRefused(w) \/ CommitLogin(w)
    \/ RefreshAdmitted(w) \/ RefreshRefused(w) \/ LockForRotation(w) \/ DecideRotation(w)
    \/ LockToRevoke(w) \/ CommitRefresh(w)
    \/ LogoutSession(w) \/ CommitLogout(w)
    \/ PushAdmitted(w) \/ PushRefused(w) \/ LockDevice(w) \/ CommitPush(w)

Begin(w) ==
    \/ \E s \in Sessions, t \in Tokens : IssueSession(w, s, t)
    \/ \E t, f \in Tokens : BeginRefresh(w, t, f)
    \/ \E s \in Sessions : BeginLogout(w, s) \/ BeginPush(w, s)

Environment ==
    \/ \E t \in Tokens : TokenLapses(t)
    \/ \E s \in Sessions : SessionLapses(s)
    \/ EligibilityChanges

Elsewhere == Quiet /\ Silent /\ UNCHANGED tx     \* the operator's step, seen from here

Next ==
    \/ OperatorNext /\ Elsewhere
    \/ \E w \in Requests : Begin(w) \/ Progress(w) \/ Lost(w)
    \/ \E s \in Sessions, t \in Tokens : Authenticate(s, t)
    \/ \E t \in Tokens : SyncAuthenticate(t)
    \/ Environment

\* Locks are granted in turn, so a request that can proceed again and again
\* does; clients and the operator need not ask for anything.
Fairness ==
    /\ \A w \in Requests : SF_vars(Progress(w))
    /\ WF_vars(OperatorProgress /\ Elsewhere)

Spec == Init /\ [][Next]_vars
FairSpec == Spec /\ Fairness

-----------------------------------------------------------------------------
Answered == answer' \notin {None, answer}

(* A session is open through one refresh token at a time.                   *)
OneUsableToken ==
    \A t, u \in Tokens : Usable(t) /\ Usable(u) /\ t # u => tokens[t].session # tokens[u].session

(* Nothing opens a revoked session: whoever revoked it, no token of it is   *)
(* usable, not even one that was being minted.                              *)
RevokedIsClosed ==
    \A t \in Tokens : Usable(t) => ~ sessions[tokens[t].session].revoked

(* A replaced token that is presented again and answered ends its session   *)
(* and every token of it.                                                   *)
ReuseEndsSession ==
    [][\A t \in Tokens :
         /\ Answered /\ answer'.to = "refresh" /\ answer'.token = t
         /\ tokens[t].replacedBy # None
         => LET s == tokens[t].session IN
            sessions'[s].revoked /\ \A u \in TokensOf(s) : ~ Usable(u)']_vars

(* Who is let in -- by password, rotation, access or sync token -- has a    *)
(* session issued after the cutoff, that nobody has revoked, while the      *)
(* service is active.                                                       *)
GrantsAreCurrent ==
    [][Answered /\ answer'.outcome \in {"granted", "rotated"}
       => LET s == answer'.session IN
          /\ control.state = "ACTIVE"
          /\ sessions'[s].issuedAt >= control.notBefore
          /\ ~ sessions'[s].revoked]_vars

(* An access token dies with the rotation of the refresh token it came with. *)
AccessDiesWithRotation ==
    [][Answered /\ answer'.to = "access" => tokens[answer'.token].replacedBy = None]_vars

(* Requests never wait for each other in a circle: refresh, reuse, logout,   *)
(* login and push all end, whatever the operator does.                       *)
RequestsEnd == \A w \in Requests : tx[w] # Idle ~> tx[w] = Idle

-----------------------------------------------------------------------------
(* Why: whoever changes a session's tokens holds the session's row.         *)
LocksExclude ==
    \A w, v \in Requests : w # v => tx[w].locks \cap tx[v].locks \subseteq {Device}

\* A transaction holds the rows its place in the program has locked.
Shaped(r) ==
    /\ r.kind = None => r = Idle
    /\ r.kind = "login" =>
          /\ r.pc \in {"asking", "ready"} /\ r.locks = {Device}
          /\ r.session # None /\ r.token # None
    /\ r.kind = "refresh" =>
          /\ r.pc # "idle"
          /\ r.session # None /\ r.token # None /\ r.fresh # None
          /\ r.pc = "asking" => r.locks = {}
          /\ r.pc = "locking" => r.locks \subseteq {r.session, r.token}
          /\ r.pc \in {"revoking", "ready"} => {r.session, r.token} \subseteq r.locks
          /\ r.pc = "revoking" => r.outcome \in {"reused", "ineligible"}
    /\ r.kind = "logout" =>
          /\ r.pc \in {"locking", "revoking", "ready"} /\ r.session # None
          /\ r.pc # "locking" => r.session \in r.locks
    /\ r.kind \in {"logout", "push"} => r.fresh = None
    /\ r.kind = "push" => r.pc \in {"asking", "locking", "ready"} /\ r.locks \subseteq {Device}

RequestsShaped == \A w \in Requests : Shaped(tx[w])

RowsRefer ==
    /\ \A t \in Tokens : tokens[t] # None => sessions[tokens[t].session] # None
    /\ \A s \in Sessions : sessions[s] # None => LET last == tokens[sessions[s].jti] IN
          last # None /\ last.session = s /\ last.replacedBy = None

Drawn(r) == (IF r.kind = "login" THEN {r.token} ELSE {r.fresh}) \ {None}

DrawnOnce ==
    /\ \A w, v \in Requests : w # v => Drawn(tx[w]) \cap Drawn(tx[v]) = {}
    /\ \A w \in Requests : \A t \in Drawn(tx[w]) : tokens[t] = None
    /\ \A w, v \in Requests :
          tx[w].kind = "login" => /\ sessions[tx[w].session] = None
                                  /\ w # v => tx[v].session # tx[w].session

Refers(r) ==
    /\ r.kind \in {"refresh", "logout"} => sessions[r.session] # None
    /\ r.kind = "refresh" => /\ tokens[r.token] # None
                             /\ tokens[r.token].session = r.session
                             /\ sessions[r.session].issuedAt = r.time

RequestsRefer == \A w \in Requests : Refers(tx[w])

\* What has been decided under the locks stays true until it commits.
Decided(r) ==
    /\ \/ r.pc = "revoking"
       \/ r.kind = "logout" /\ r.pc = "ready"
       \/ r.kind = "refresh" /\ r.pc = "ready" /\ r.outcome \in {"reused", "ineligible"}
       => r.seen = TokensOf(r.session)
    /\ r.kind = "refresh" /\ r.pc = "ready" =>
          /\ r.outcome # None
          /\ r.outcome = "rotated" => Usable(r.token) /\ ~ sessions[r.session].revoked
          /\ r.outcome = "invalid" => tokens[r.token].replacedBy = None

DecisionsHold == \A w \in Requests : Decided(tx[w])

\* The recovery authority a request was admitted under is shared until it ends.
UnderAuthority(r) == \/ r.kind = "login" /\ r.pc = "ready"
                     \/ r.kind = "refresh" /\ r.pc # "asking"
AuthorityHeld ==
    /\ ExclusiveHeld => holders = {}
    /\ \A w \in Requests :
          UnderAuthority(tx[w]) => w \in holders /\ AdmitsSession(control, tx[w].time)

IInv ==
    /\ TypeOK /\ LocksExclude /\ RequestsShaped /\ RowsRefer /\ DrawnOnce /\ RequestsRefer
    /\ DecisionsHold /\ AuthorityHeld /\ OneUsableToken /\ RevokedIsClosed
=============================================================================
