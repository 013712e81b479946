-------------------------- MODULE RefreshRotation --------------------------
(***************************************************************************)
(* Refresh tokens of one user: login, sign-on by OAuth, the rotation done  *)
(* by /auth/refresh, logout, revocation of one session and of all the      *)
(* others, blocking and unblocking of the user, expiry, pool timeouts and  *)
(* restarts.                                                               *)
(*                                                                         *)
(* A request is a sequence of transactions.  Reads are one step, the       *)
(* commit of what was decided from them another; a request between two of  *)
(* its transactions holds no connection.  The ORM writes back the rows it  *)
(* loaded, without looking at them again.                                  *)
(***************************************************************************)
EXTENDS DbPool

CONSTANTS
    Token,  \* refresh tokens, each the row of refresh_tokens it would have
    None    \* no token

ASSUME NoneAssumption == None \notin Token

VARIABLES
    row,      \* the row of each token
    active,   \* users.is_active, and users.status = "active" with it
    hasId,    \* users.crypto_hash, user_hash and universe_id are set
    pc,       \* where each request is
    cookie,   \* the refresh token that came with the request
    loaded,   \* the rows its ORM session is about to mark as revoked
    parent,   \* history: the token whose refresh issued this one
    family    \* history: the first token, issued at login or sign-on, it descends from

dbVars   == <<row, active, hasId>>
history  == <<parent, family>>
reqVars  == <<pc, cookie, loaded>>
vars     == <<dbVars, reqVars, history, conn>>

\* "expired": not revoked, but past expires_at.
RowState == {"absent", "live", "expired", "revoked"}

\* States in which a request is inside a transaction ...
InTx == {"login", "backfill", "sso", "lookup", "checked", "logout", "authed",
         "revoke", "revokeAll"}
\* ... and between two: it will need a connection again.
Between == {"loginGap", "ssoGap", "gap", "audit"}

\* Rows with revoked_at IS NULL, the filter of every lookup but one.
Unrevoked == {t \in Token : row[t] \in {"live", "expired"}}
Issued    == {t \in Token : row[t] # "absent"}

-----------------------------------------------------------------------------
(* Steps shared by the handlers.                                            *)

Goto(r, where) == pc' = [pc EXCEPT ![r] = where]

\* The handler returns or raises; its session is closed.
Finish(r) ==
    /\ pc'     = [pc EXCEPT ![r] = "idle"]
    /\ cookie' = [cookie EXCEPT ![r] = None]
    /\ loaded' = [loaded EXCEPT ![r] = {}]

\* The UPDATE of every loaded row at commit.
RevokeLoaded(r) ==
    row' = [t \in Token |-> IF t \in loaded[r] THEN "revoked" ELSE row[t]]

\* INSERT of a fresh token, descending from p, in family f.
Insert(t, p, f) ==
    /\ row[t] = "absent"
    /\ row'    = [row EXCEPT ![t] = "live"]
    /\ parent' = [parent EXCEPT ![t] = p]
    /\ family' = [family EXCEPT ![t] = f]

-----------------------------------------------------------------------------
(* POST /auth/login                                                         *)

\* The user is read by e-mail and status, the password matches.
LoginRead(r) ==
    /\ pc[r] = "idle" /\ active
    /\ Checkout(r)
    /\ Goto(r, IF hasId THEN "login" ELSE "backfill")
    /\ UNCHANGED <<dbVars, history, cookie, loaded>>

\* A user without cryptographic identity gets one, in a commit of its own.
LoginBackfill(r) ==
    /\ pc[r] = "backfill"
    /\ hasId' = TRUE
    /\ Return(r)
    /\ Goto(r, "loginGap")
    /\ UNCHANGED <<row, active, history, cookie, loaded>>

\* The membership is read in a second transaction; the user is not re-read.
LoginResume(r) ==
    /\ pc[r] = "loginGap"
    /\ Checkout(r)
    /\ Goto(r, "login")
    /\ UNCHANGED <<dbVars, history, cookie, loaded>>

LoginCommit(r) ==
    /\ pc[r] = "login"
    /\ \E t \in Token : Insert(t, None, t)
    /\ Return(r)
    /\ Finish(r)
    /\ UNCHANGED <<active, hasId>>

-----------------------------------------------------------------------------
(* The OAuth callback, for an e-mail that has a user.                       *)

\* By e-mail alone: a blocked user is found as well.
SsoRead(r) ==
    /\ pc[r] = "idle"
    /\ Checkout(r)
    /\ Goto(r, "sso")
    /\ UNCHANGED <<dbVars, history, cookie, loaded>>

\* last_login_at and, if it is missing, the cryptographic identity.
SsoCommit(r) ==
    /\ pc[r] = "sso"
    /\ hasId' = TRUE
    /\ Return(r)
    /\ Goto(r, "ssoGap")
    /\ UNCHANGED <<row, active, history, cookie, loaded>>

\* After the audit record, whose transaction changes nothing here, the token
\* is inserted in _issue_refresh_token.
SsoIssue(r) ==
    /\ pc[r] = "ssoGap"
    /\ OneShot
    /\ \E t \in Token : Insert(t, None, t)
    /\ Finish(r)
    /\ UNCHANGED <<active, hasId>>

-----------------------------------------------------------------------------
(* POST /auth/refresh                                                       *)

\* Mutant: the filter on revoked_at is forgotten.
RefreshLookup_RevokedToo(r, t) ==
    /\ pc[r] = "idle" /\ row[t] \in {"live", "revoked"}
    /\ Checkout(r)
    /\ Goto(r, "lookup")
    /\ cookie' = [cookie EXCEPT ![r] = t]
    /\ loaded' = [loaded EXCEPT ![r] = {t}]
    /\ UNCHANGED <<dbVars, history>>

\* The row is found: same hash, not revoked, not expired.
RefreshLookup(r, t) ==
    /\ pc[r] = "idle" /\ row[t] = "live"
    /\ Checkout(r)
    /\ Goto(r, "lookup")
    /\ cookie' = [cookie EXCEPT ![r] = t]
    /\ loaded' = [loaded EXCEPT ![r] = {t}]
    /\ UNCHANGED <<dbVars, history>>

\* Mutant: the new token is issued before the old one is revoked.
RefreshCheckUser_IssuesFirst(r) ==
    /\ pc[r] = "lookup" /\ active
    /\ Goto(r, "gap")
    /\ Return(r)
    /\ loaded' = [loaded EXCEPT ![r] = {}]
    /\ UNCHANGED <<dbVars, history, cookie>>

\* The user is read; an inactive one gets 401.
RefreshCheckUser(r) ==
    /\ pc[r] = "lookup"
    /\ \/ active /\ Goto(r, "checked") /\ UNCHANGED <<cookie, loaded, conn>>
       \/ ~active /\ Finish(r) /\ Return(r)
    /\ UNCHANGED <<dbVars, history>>

\* Mutant: the UPDATE of the old token is forgotten.
RefreshRevoke_WithoutUpdate(r) ==
    /\ pc[r] = "checked"
    /\ Return(r)
    /\ Goto(r, "gap")
    /\ loaded' = [loaded EXCEPT ![r] = {}]
    /\ UNCHANGED <<dbVars, history, cookie>>

\* "Revoke old token": the first commit.
RefreshRevoke(r) ==
    /\ pc[r] = "checked"
    /\ RevokeLoaded(r)
    /\ Return(r)
    /\ Goto(r, "gap")
    /\ loaded' = [loaded EXCEPT ![r] = {}]
    /\ UNCHANGED <<active, hasId, history, cookie>>

\* Mutant: the new token is taken for a login of its own.
RefreshIssue_NewFamily(r) ==
    /\ pc[r] = "gap"
    /\ OneShot
    /\ \E t \in Token : Insert(t, cookie[r], t)
    /\ Finish(r)
    /\ UNCHANGED <<active, hasId>>

\* "Issue new tokens": the second commit, in _issue_refresh_token.
RefreshIssue(r) ==
    /\ pc[r] = "gap"
    /\ OneShot
    /\ \E t \in Token : Insert(t, cookie[r], family[cookie[r]])
    /\ Finish(r)
    /\ UNCHANGED <<active, hasId>>

-----------------------------------------------------------------------------
(* POST /auth/logout                                                        *)

LogoutLookup(r, t) ==
    /\ pc[r] = "idle" /\ t \in Unrevoked
    /\ Checkout(r)
    /\ Goto(r, "logout")
    /\ cookie' = [cookie EXCEPT ![r] = t]
    /\ loaded' = [loaded EXCEPT ![r] = {t}]
    /\ UNCHANGED <<dbVars, history>>

\* Mutant: the session is not closed.
LogoutCommit_WithoutClose(r) ==
    /\ pc[r] = "logout"
    /\ RevokeLoaded(r)
    /\ Finish(r)
    /\ UNCHANGED <<active, hasId, history, conn>>

LogoutCommit(r) ==
    /\ pc[r] = "logout"
    /\ RevokeLoaded(r)
    /\ Return(r)
    /\ Finish(r)
    /\ UNCHANGED <<active, hasId, history>>

-----------------------------------------------------------------------------
(* DELETE /auth/sessions/{id} and POST /auth/sessions/revoke-all            *)

\* _get_identity_from_request: the access token decodes, the user is active.
Authenticate(r) ==
    /\ pc[r] = "idle" /\ active
    /\ Checkout(r)
    /\ Goto(r, "authed")
    /\ UNCHANGED <<dbVars, history, cookie, loaded>>

RevokeLookup(r, t) ==
    /\ pc[r] = "authed"
    /\ t \in Unrevoked
    /\ Goto(r, "revoke")
    /\ loaded' = [loaded EXCEPT ![r] = {t}]
    /\ UNCHANGED <<dbVars, history, conn, cookie>>

\* Mutant: the session is not closed on the error path.
RevokeNotFound_WithoutClose(r) ==
    /\ pc[r] = "authed"
    /\ Finish(r)
    /\ UNCHANGED <<dbVars, history, conn>>

\* "Session not found or already revoked": 404.
RevokeNotFound(r) ==
    /\ pc[r] = "authed"
    /\ Return(r)
    /\ Finish(r)
    /\ UNCHANGED <<dbVars, history>>

RevokeCommit(r) ==
    /\ pc[r] = "revoke"
    /\ RevokeLoaded(r)
    /\ Return(r)
    /\ Goto(r, "audit")
    /\ loaded' = [loaded EXCEPT ![r] = {}]
    /\ UNCHANGED <<active, hasId, history, cookie>>

\* Mutant: expired rows are left out, as get_active_sessions does.
RevokeAllLookup_LiveOnly(r, c) ==
    /\ pc[r] = "authed"
    /\ c \in Issued \cup {None}
    /\ Goto(r, "revokeAll")
    /\ cookie' = [cookie EXCEPT ![r] = c]
    /\ loaded' = [loaded EXCEPT ![r] = {t \in Token : row[t] = "live"} \ {c}]
    /\ UNCHANGED <<dbVars, history, conn>>

\* c is the refresh cookie, looked up whatever its state (None: no cookie or
\* no such row); every other unrevoked row is loaded, expired or not.
RevokeAllLookup(r, c) ==
    /\ pc[r] = "authed"
    /\ c \in Issued \cup {None}
    /\ Goto(r, "revokeAll")
    /\ cookie' = [cookie EXCEPT ![r] = c]
    /\ loaded' = [loaded EXCEPT ![r] = Unrevoked \ {c}]
    /\ UNCHANGED <<dbVars, history, conn>>

RevokeAllCommit(r) ==
    /\ pc[r] = "revokeAll"
    /\ RevokeLoaded(r)
    /\ Return(r)
    /\ Goto(r, "audit")
    /\ loaded' = [loaded EXCEPT ![r] = {}]
    /\ UNCHANGED <<active, hasId, parent, family, cookie>>

\* The audit record of either is committed in a second transaction.
LogAudit(r) ==
    /\ pc[r] = "audit"
    /\ OneShot
    /\ Finish(r)
    /\ UNCHANGED <<dbVars, history>>

-----------------------------------------------------------------------------
(* The rest of the world.                                                   *)

\* admin_block_user and admin_unblock_user, one transaction each.
SetActive(value) ==
    /\ active # value
    /\ OneShot
    /\ active' = value
    /\ UNCHANGED <<row, hasId, history, reqVars>>

\* Time passes expires_at.
Expire(t) ==
    /\ row[t] = "live"
    /\ row' = [row EXCEPT ![t] = "expired"]
    /\ UNCHANGED <<active, hasId, history, reqVars, conn>>

\* AUTH_DB_POOL_TIMEOUT passes while the request waits for a connection: 500.
PoolTimeout(r) ==
    /\ pc[r] \in Between
    /\ ~Free
    /\ Finish(r)
    /\ UNCHANGED <<dbVars, history, conn>>

\* A statement or a commit fails: the transaction is rolled back, 500.
DbError(r) ==
    /\ \/ pc[r] \in InTx
       \/ pc[r] \in Between /\ Free
    /\ Return(r)
    /\ Finish(r)
    /\ UNCHANGED <<dbVars, history>>

\* The process dies and restarts: what was committed stays, requests are lost.
Crash ==
    /\ \E r \in Req : pc[r] # "idle"
    /\ pc'     = [r \in Req |-> "idle"]
    /\ cookie' = [r \in Req |-> None]
    /\ loaded' = [r \in Req |-> {}]
    /\ conn'   = {}
    /\ UNCHANGED <<dbVars, history>>

-----------------------------------------------------------------------------
Init ==
    /\ row    = [t \in Token |-> "absent"]
    /\ active = TRUE
    /\ hasId  \in BOOLEAN
    /\ pc     = [r \in Req |-> "idle"]
    /\ cookie = [r \in Req |-> None]
    /\ loaded = [r \in Req |-> {}]
    /\ parent = [t \in Token |-> None]
    /\ family = [t \in Token |-> None]
    /\ conn   = {}

\* A request that has begun goes on.
Continue(r) ==
    \/ LoginBackfill(r) \/ LoginResume(r) \/ LoginCommit(r)
    \/ SsoCommit(r) \/ SsoIssue(r)
    \/ RefreshCheckUser(r) \/ RefreshRevoke(r) \/ RefreshIssue(r)
    \/ LogoutCommit(r)
    \/ \E t \in Token : RevokeLookup(r, t)
    \/ \E c \in Token \cup {None} : RevokeAllLookup(r, c)
    \/ RevokeNotFound(r) \/ RevokeCommit(r) \/ RevokeAllCommit(r) \/ LogAudit(r)

Begin(r) ==
    \/ LoginRead(r) \/ SsoRead(r) \/ Authenticate(r)
    \/ \E t \in Token : RefreshLookup(r, t) \/ LogoutLookup(r, t)

Next ==
    \/ \E r \in Req : Begin(r) \/ Continue(r) \/ PoolTimeout(r) \/ DbError(r)
    \/ \E b \in BOOLEAN : SetActive(b)
    \/ \E t \in Token : Expire(t)
    \/ Crash

Spec == Init /\ [][Next]_vars

\* A handler inside a transaction waits for nothing but the database, which
\* answers each statement or fails it.
FairSpec == Spec /\ \A r \in Req : WF_vars(Continue(r) \/ DbError(r))

-----------------------------------------------------------------------------
(* Types, and what a request may hold in each of its states: exactly the    *)
(* requests inside a transaction hold a connection, rows loaded for an      *)
(* UPDATE never outlive the transaction that loaded them, and a refresh     *)
(* keeps the token it was called with.                                      *)
TypeOK ==
    /\ row    \in [Token -> RowState]
    /\ active \in BOOLEAN
    /\ hasId  \in BOOLEAN
    /\ pc     \in [Req -> {"idle"} \cup InTx \cup Between]
    /\ cookie \in [Req -> Token \cup {None}]
    /\ loaded \in [Req -> SUBSET Token]
    /\ parent \in [Token -> Token \cup {None}]
    /\ family \in [Token -> Token \cup {None}]
    /\ conn = {r \in Req : pc[r] \in InTx}
    /\ \A r \in Req : pc[r] \notin {"lookup", "checked", "logout", "revoke", "revokeAll"}
                        => loaded[r] = {}
    /\ \A r \in Req : pc[r] \in {"lookup", "checked", "gap"} => cookie[r] \in Token

(* No login has two tokens that could be refreshed: rotation replaces, it   *)
(* never multiplies (/auth/refresh, "Revoke old token, issue new tokens").  *)
OneUnrevokedPerFamily ==
    \A t, u \in Unrevoked : family[t] = family[u] => t = u

(* A refresh token is redeemed at most once: no two tokens were issued for  *)
(* the same one (/auth/refresh).                                            *)
RedeemedOnce ==
    \A t, u \in Token : parent[t] # None /\ parent[t] = parent[u] => t = u

(* With more connections, no more often than there are connections: the     *)
(* commit of one redemption turns away every other that has not begun.      *)
RedeemedWithinPool ==
    \A p \in Token :
        LET children == {t \in Token : parent[t] = p} IN
        IsFiniteSet(children) /\ Cardinality(children) <= PoolSize

(* A token is only ever issued in exchange for one that is revoked, and     *)
(* stays so: whatever the pool, a redeemed token is dead (/auth/refresh).   *)
IssuedForRevoked ==
    \A t \in Token : parent[t] # None => row[parent[t]] = "revoked"

(* When a revoke-all commits, the caller's is the only unrevoked row left:  *)
(* the list it read is not stale (revoke_all_sessions).                     *)
RevokeAllLeavesNoOther ==
    [][\A r \in Req : pc[r] = "revokeAll" /\ pc'[r] = "audit"
          => \A t \in Unrevoked' : t = cookie[r]]_vars

(* The life of a login as the interface presents it: SessionFamily.         *)
UnrevokedOf(f) == {t \in Unrevoked : family[t] = f}

phaseMap == [f \in Token |->
    IF family[f] # f THEN "unborn"
    ELSE IF UnrevokedOf(f) # {} THEN "live"
    ELSE IF \E r \in Req : pc[r] = "gap" /\ family[cookie[r]] = f THEN "rotating"
    ELSE "ended"]

currentMap == [f \in Token |->
    IF UnrevokedOf(f) # {} THEN CHOOSE t \in UnrevokedOf(f) : TRUE ELSE None]

Families == INSTANCE SessionFamily
                WITH phase <- phaseMap, current <- currentMap, used <- Issued

(* Each login goes through the phases of SessionFamily and no other: it     *)
(* begins, is rotated from one token to the next, and once ended stays so.  *)
ImplementsSessionFamily == Families!Spec

(* A request inside a transaction gives its connection back.                *)
ConnectionsReturn ==
    \A r \in Req : (r \in conn) ~> (r \notin conn)
=============================================================================
