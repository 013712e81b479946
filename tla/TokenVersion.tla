---------------------------- MODULE TokenVersion ----------------------------
(***************************************************************************)
(* users.token_version of one user: the handlers that increment it to      *)
(* invalidate what was issued before (password change and reset, MFA       *)
(* enabled and disabled, password set and account blocked by the owner),   *)
(* the ones that put it into an access token (login, refresh, sign-on by   *)
(* OAuth), and the two checks made of an access token: /auth/verify        *)
(* compares versions, _get_identity_from_request only decodes the token.   *)
(*                                                                         *)
(* token_version += 1 writes the value the request loaded, plus one; the   *)
(* other columns are written only if they differ from the loaded ones.     *)
(***************************************************************************)
EXTENDS DbPool

CONSTANTS
    MaxEpoch,   \* bound: invalidations stop being requested after so many
    MaxJwt      \* bound: access tokens somebody still holds

ASSUME BoundAssumption == MaxEpoch \in Nat /\ MaxJwt \in Nat

VARIABLES
    ver,     \* users.token_version
    active,  \* users.is_active, and users.status = "active" with it
    hasId,   \* the user has a cryptographic identity
    mfa,     \* users.mfa_enabled
    jwts,    \* access tokens that have been handed out and have not expired
    logins,  \* when the logins with a usable refresh token were made
    pc,      \* where each request is
    snap,    \* the user row in the request's ORM session
    epoch    \* history: the number of invalidations committed

dbVars == <<ver, active, hasId, mfa>>
vars   == <<dbVars, jwts, logins, pc, snap, epoch, conn>>

\* `since` is the epoch at which the user row behind a token was read, and
\* `login` the one at which the login it descends from was checked; `sso`
\* says that it is made by a sign-on.
Jwt  == [ver : Nat, since : Nat, login : Nat, sso : BOOLEAN]
User == [ver : Nat, active : BOOLEAN, mfa : BOOLEAN,
         since : Nat, login : Nat, sso : BOOLEAN]
Blank == [ver |-> 0, active |-> FALSE, mfa |-> FALSE,
          since |-> 0, login |-> 0, sso |-> FALSE]

InTx == {"login", "backfill", "sso", "refresh", "password", "mfa", "block", "unblock"}
Between == {"loginGap", "ssoGap", "gap"}

\* validate_access_token: the version must be the user's current one.
VerifyAccepts(t) == t.ver = ver

\* _get_identity_from_request: the signature and the user's is_active.
IdentityAccepts(t) == active

-----------------------------------------------------------------------------
(* Steps shared by the handlers.                                            *)

Goto(r, where) == pc' = [pc EXCEPT ![r] = where]

Finish(r) ==
    /\ pc'   = [pc EXCEPT ![r] = "idle"]
    /\ snap' = [snap EXCEPT ![r] = Blank]

\* The request's first SELECT of the user; l is the login it acts for.
LoadUser(r, l, where) ==
    /\ pc[r] = "idle"
    /\ Checkout(r)
    /\ snap' = [snap EXCEPT ![r] =
          [ver |-> ver, active |-> active, mfa |-> mfa,
           since |-> epoch, login |-> l, sso |-> where = "sso"]]
    /\ Goto(r, where)
    /\ UNCHANGED <<dbVars, jwts, logins, epoch>>

\* The token is kept by its holder, or never presented again.
HandOut(r) ==
    LET t == [ver |-> snap[r].ver, since |-> snap[r].since,
              login |-> snap[r].login, sso |-> snap[r].sso]
    IN  \/ UNCHANGED jwts
        \/ Cardinality(jwts) < MaxJwt /\ jwts' = jwts \cup {t}

\* Mutant: the version is not written.
Increment_Forgotten(r) == ver' = ver /\ epoch' = epoch + 1

\* token_version += 1, written with the commit.
Increment(r) == ver' = snap[r].ver + 1 /\ epoch' = epoch + 1

\* The commit of a handler's last transaction.
CommitAndFinish(r) == Return(r) /\ Finish(r)

\* The new refresh token is committed, in a transaction of its own; then the
\* access token is handed out, which was made from the row loaded before.
IssueTokens(r) ==
    /\ pc[r] = "gap"
    /\ OneShot
    /\ logins' = logins \cup {snap[r].login}
    /\ HandOut(r)
    /\ Finish(r)
    /\ UNCHANGED <<dbVars, epoch>>

-----------------------------------------------------------------------------
(* POST /auth/login                                                         *)

LoginRead(r) ==
    /\ active
    /\ LoadUser(r, epoch, IF hasId THEN "login" ELSE "backfill")

LoginBackfill(r) ==
    /\ pc[r] = "backfill"
    /\ hasId' = TRUE
    /\ Return(r)
    /\ Goto(r, "loginGap")
    /\ UNCHANGED <<ver, active, mfa, jwts, logins, snap, epoch>>

\* The memberships are read; the user row is the one loaded before.
LoginResume(r) ==
    /\ pc[r] = "loginGap"
    /\ Checkout(r)
    /\ Goto(r, "login")
    /\ UNCHANGED <<dbVars, jwts, logins, snap, epoch>>

LoginCommit(r) ==
    /\ pc[r] = "login"
    /\ logins' = logins \cup {snap[r].login}
    /\ HandOut(r)
    /\ CommitAndFinish(r)
    /\ UNCHANGED <<dbVars, epoch>>

-----------------------------------------------------------------------------
(* POST /auth/refresh.  The refresh token itself is RefreshRotation's.      *)

RefreshRead(r, l) ==
    /\ l \in logins
    /\ active
    /\ LoadUser(r, l, "refresh")

\* Mutant: the connection is kept between the two commits.
RefreshRevoke_KeepsConnection(r) ==
    /\ pc[r] = "refresh"
    /\ Goto(r, "gap")
    /\ UNCHANGED <<dbVars, jwts, logins, snap, epoch, conn>>

\* The old refresh token is revoked; IssueTokens follows.
RefreshRevoke(r) ==
    /\ pc[r] = "refresh"
    /\ Return(r)
    /\ Goto(r, "gap")
    /\ UNCHANGED <<dbVars, jwts, logins, snap, epoch>>

-----------------------------------------------------------------------------
(* The OAuth callback, for an e-mail that has a user.  IssueTokens follows. *)

\* The user is looked up by e-mail alone: neither is_active nor status nor
\* MFA is asked for.
SsoRead(r) == LoadUser(r, epoch, "sso")

\* last_login_at and, if it is missing, the cryptographic identity.
SsoCommit(r) ==
    /\ pc[r] = "sso"
    /\ hasId' = TRUE
    /\ Return(r)
    /\ Goto(r, "ssoGap")
    /\ UNCHANGED <<ver, active, mfa, jwts, logins, snap, epoch>>

\* The membership is read and the sign-on recorded; the user is not re-read.
SsoAudit(r) ==
    /\ pc[r] = "ssoGap"
    /\ OneShot
    /\ Goto(r, "gap")
    /\ UNCHANGED <<dbVars, jwts, logins, snap, epoch>>

-----------------------------------------------------------------------------
(* The handlers that increment the version.                                 *)

\* POST /auth/change-password, with an access token.
ChangePasswordRead(r) ==
    /\ epoch < MaxEpoch
    /\ \E t \in jwts : IdentityAccepts(t)
    /\ LoadUser(r, 0, "password")

\* POST /auth/reset-password, with a reset token (see PasswordReset).
ResetPasswordRead(r) ==
    /\ epoch < MaxEpoch
    /\ active
    /\ LoadUser(r, 0, "password")

\* POST /auth/admin/set-password/{id}.
AdminSetPasswordRead(r) ==
    /\ epoch < MaxEpoch
    /\ LoadUser(r, 0, "password")

PasswordCommit(r) ==
    /\ pc[r] = "password"
    /\ Increment(r)
    /\ CommitAndFinish(r)
    /\ UNCHANGED <<active, hasId, mfa, jwts, logins>>

\* POST /auth/mfa/verify and /auth/mfa/disable, with an access token: MFA is
\* enabled if the loaded row says it is not, and conversely.
MfaRead(r) ==
    /\ epoch < MaxEpoch
    /\ \E t \in jwts : IdentityAccepts(t)
    /\ LoadUser(r, 0, "mfa")

\* Mutant: the version is not incremented.
MfaCommit_KeepsTokens(r) ==
    /\ pc[r] = "mfa"
    /\ mfa' = ~snap[r].mfa
    /\ CommitAndFinish(r)
    /\ UNCHANGED <<ver, active, hasId, jwts, logins, epoch>>

MfaCommit(r) ==
    /\ pc[r] = "mfa"
    /\ mfa' = ~snap[r].mfa
    /\ Increment(r)
    /\ CommitAndFinish(r)
    /\ UNCHANGED <<active, hasId, jwts, logins>>

\* POST /auth/admin/block-user/{id} and unblock-user/{id}.
BlockRead(r) ==
    /\ epoch < MaxEpoch
    /\ LoadUser(r, 0, "block")

BlockCommit(r) ==
    /\ pc[r] = "block"
    /\ active' = IF snap[r].active THEN FALSE ELSE active
    /\ Increment(r)
    /\ CommitAndFinish(r)
    /\ UNCHANGED <<hasId, mfa, jwts, logins>>

UnblockRead(r) == LoadUser(r, 0, "unblock")

UnblockCommit(r) ==
    /\ pc[r] = "unblock"
    /\ active' = IF snap[r].active THEN active ELSE TRUE
    /\ CommitAndFinish(r)
    /\ UNCHANGED <<ver, hasId, mfa, jwts, logins, epoch>>

-----------------------------------------------------------------------------
(* The rest of the world.                                                   *)

\* A check of the handler fails (password, MFA code), a statement fails, or
\* the pool times out: the transaction is rolled back.
Abort(r) ==
    /\ pc[r] \in InTx \cup Between
    /\ CommitAndFinish(r)
    /\ UNCHANGED <<dbVars, jwts, logins, epoch>>

\* ACCESS_TOKEN_EXPIRE_MINUTES pass.
JwtExpire(t) ==
    /\ jwts' = jwts \ {t}
    /\ UNCHANGED <<dbVars, logins, pc, snap, epoch, conn>>

\* The last refresh token of the logins of an epoch is revoked or expires.
LoginEnds(l) ==
    /\ logins' = logins \ {l}
    /\ UNCHANGED <<dbVars, jwts, pc, snap, epoch, conn>>

Init ==
    /\ ver = 1
    /\ active = TRUE
    /\ hasId \in BOOLEAN
    /\ mfa = FALSE
    /\ jwts = {}
    /\ logins = {}
    /\ pc = [r \in Req |-> "idle"]
    /\ snap = [r \in Req |-> Blank]
    /\ epoch = 0
    /\ conn = {}

Read(r) ==
    \/ LoginRead(r) \/ SsoRead(r) \/ \E l \in logins : RefreshRead(r, l)
    \/ ChangePasswordRead(r) \/ ResetPasswordRead(r) \/ AdminSetPasswordRead(r)
    \/ MfaRead(r) \/ BlockRead(r) \/ UnblockRead(r)

Continue(r) ==
    \/ LoginBackfill(r) \/ LoginResume(r) \/ LoginCommit(r)
    \/ SsoCommit(r) \/ SsoAudit(r) \/ RefreshRevoke(r) \/ IssueTokens(r)
    \/ PasswordCommit(r) \/ MfaCommit(r) \/ BlockCommit(r) \/ UnblockCommit(r)

Next ==
    \/ \E r \in Req : Read(r) \/ Continue(r) \/ Abort(r)
    \/ \E t \in jwts : JwtExpire(t)
    \/ \E l \in logins : LoginEnds(l)

Spec == Init /\ [][Next]_vars

-----------------------------------------------------------------------------
(* Types; a request holds a connection exactly inside its transactions.     *)
TypeOK ==
    /\ ver \in Nat /\ epoch \in Nat
    /\ active \in BOOLEAN /\ hasId \in BOOLEAN /\ mfa \in BOOLEAN
    /\ jwts \in SUBSET Jwt
    /\ logins \in SUBSET Nat
    /\ pc \in [Req -> {"idle"} \cup InTx \cup Between]
    /\ snap \in [Req -> User]
    /\ conn = {r \in Req : pc[r] \in InTx}

(* /auth/verify accepts an access token only if no invalidation was         *)
(* committed since the user row it was made from was read                   *)
(* (validate_access_token, "Token version mismatch - token invalidated").   *)
VerifiedIsCurrent == \A t \in jwts : VerifyAccepts(t) => t.since = epoch

(* A token that /auth/verify rejects is never accepted again.               *)
NoRevival == [][\A t \in jwts : ~VerifyAccepts(t) => ~VerifyAccepts(t)']_vars

\* The tokens as /auth/verify sees them.
valid == {t \in jwts : VerifyAccepts(t)}

Grants == INSTANCE AccessGrants WITH valid <- valid

(* Reading the row, writing it and handing out a token made from it, with   *)
(* others in between, do what AccessGrants does in single steps: but for    *)
(* the sign-on, a blocked account is given no token that is accepted.       *)
ImplementsAccessGrants == Grants!Spec

(* "Invalidate all existing sessions" (change_password, reset_password): no *)
(* access token descends from a login older than the last invalidation.     *)
OldLoginsRejected == \A t \in jwts : VerifyAccepts(t) => t.login = epoch
=============================================================================
