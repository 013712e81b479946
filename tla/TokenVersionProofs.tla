------------------------ MODULE TokenVersionProofs ------------------------
(***************************************************************************)
(* Proofs about TokenVersion, for any requests and any bounds: the types   *)
(* for every pool; for the default pool of one connection, that            *)
(* /auth/verify accepts current tokens only and never a rejected one       *)
(* again, and that each step is a step of AccessGrants or a stutter of it. *)
(***************************************************************************)
EXTENDS TokenVersion, DbPoolProofs

(* All a step does to the pool (every handler of the model).                *)
LEMMA PoolUse ==
    ASSUME [Next]_vars
    PROVE  \/ \E r \in Req : Checkout(r) \/ Return(r)
           \/ UNCHANGED conn
           \/ conn' = {}
<1> USE DEF CommitAndFinish, LoadUser, OneShot
<1>1. ASSUME NEW r \in Req, Read(r) PROVE Checkout(r)
  BY <1>1 DEF Read, LoginRead, SsoRead, RefreshRead, ChangePasswordRead, ResetPasswordRead,
     AdminSetPasswordRead, MfaRead, BlockRead, UnblockRead
<1>2. ASSUME NEW r \in Req, Continue(r) \/ Abort(r)
      PROVE  Checkout(r) \/ Return(r) \/ UNCHANGED conn
  BY <1>2 DEF Continue, LoginBackfill, LoginResume, LoginCommit, SsoCommit, SsoAudit,
     RefreshRevoke, IssueTokens, PasswordCommit, MfaCommit, BlockCommit, UnblockCommit, Abort
<1>3. ASSUME \/ \E t \in jwts : JwtExpire(t)
             \/ \E l \in logins : LoginEnds(l)
             \/ UNCHANGED vars
      PROVE  UNCHANGED conn
  BY <1>3 DEF JwtExpire, LoginEnds, vars
<1>4. QED
  BY <1>1, <1>2, <1>3 DEF Next

(* A token made from a loaded row is a token (HandOut, login and refresh).  *)
LEMMA HandOutType ==
    ASSUME TypeOK, NEW r \in Req, HandOut(r)
    PROVE  jwts' \in SUBSET Jwt
BY DEF TypeOK, HandOut, User, Jwt

(* Every step keeps the types (every handler of the model).                 *)
LEMMA TypeOKStep == TypeOK /\ [Next]_vars => TypeOK'
<1> SUFFICES ASSUME TypeOK, [Next]_vars PROVE TypeOK'
  OBVIOUS
<1> USE DEF TypeOK, InTx, Between, dbVars, Goto, Finish, CommitAndFinish, Return,
            Checkout, OneShot
<1>1. ASSUME NEW r \in Req, NEW l \in Nat, NEW where \in InTx, LoadUser(r, l, where)
      PROVE  TypeOK'
  BY <1>1 DEF LoadUser, User
<1>2. ASSUME NEW r \in Req, Read(r) PROVE TypeOK'
  BY <1>1, <1>2 DEF Read, LoginRead, SsoRead, RefreshRead, ChangePasswordRead,
     ResetPasswordRead, AdminSetPasswordRead, MfaRead, BlockRead, UnblockRead
<1>3. Blank \in User
  BY DEF Blank, User
<1>4. ASSUME NEW r \in Req, LoginBackfill(r) \/ LoginResume(r) PROVE TypeOK'
  <2>1. CASE LoginBackfill(r)
    BY <2>1 DEF LoginBackfill
  <2>2. CASE LoginResume(r)
    BY <2>2 DEF LoginResume
  <2>3. QED
    BY <1>4, <2>1, <2>2
<1>5. ASSUME NEW r \in Req, LoginCommit(r) PROVE TypeOK'
  <2>1. jwts' \in SUBSET Jwt
    BY <1>5, HandOutType DEF LoginCommit
  <2>2. snap[r].login \in Nat
    BY DEF User
  <2>3. QED
    BY <1>3, <1>5, <2>1, <2>2 DEF LoginCommit
<1>6. ASSUME NEW r \in Req, SsoCommit(r) \/ SsoAudit(r) \/ RefreshRevoke(r) PROVE TypeOK'
  <2>1. CASE SsoCommit(r)
    BY <2>1 DEF SsoCommit
  <2>2. CASE SsoAudit(r)
    BY <2>2 DEF SsoAudit
  <2>3. CASE RefreshRevoke(r)
    BY <2>3 DEF RefreshRevoke
  <2>4. QED
    BY <1>6, <2>1, <2>2, <2>3
<1>7. ASSUME NEW r \in Req, IssueTokens(r) PROVE TypeOK'
  <2>1. jwts' \in SUBSET Jwt
    BY <1>7, HandOutType DEF IssueTokens
  <2>2. snap[r].login \in Nat
    BY DEF User
  <2>3. QED
    BY <1>3, <1>7, <2>1, <2>2 DEF IssueTokens
<1>8. ASSUME NEW r \in Req, PasswordCommit(r) \/ MfaCommit(r) \/ BlockCommit(r)
      PROVE  TypeOK'
  <2>1. snap[r].ver + 1 \in Nat /\ epoch + 1 \in Nat
    BY DEF User
  <2>2. QED
    BY <1>3, <1>8, <2>1 DEF PasswordCommit, MfaCommit, BlockCommit, Increment
<1>9. ASSUME NEW r \in Req, UnblockCommit(r) \/ Abort(r) PROVE TypeOK'
  <2>1. CASE UnblockCommit(r)
    <3>1. active' \in BOOLEAN
      BY <2>1 DEF UnblockCommit
    <3>2. QED
      BY <1>3, <2>1, <3>1 DEF UnblockCommit
  <2>2. CASE Abort(r)
    BY <1>3, <2>2 DEF Abort
  <2>3. QED
    BY <1>9, <2>1, <2>2
<1>10. ASSUME \/ \E t \in jwts : JwtExpire(t)
              \/ \E l \in logins : LoginEnds(l)
              \/ UNCHANGED vars
       PROVE  TypeOK'
  BY <1>10 DEF JwtExpire, LoginEnds, vars
<1>11. QED
  BY <1>2, <1>4, <1>5, <1>6, <1>7, <1>8, <1>9, <1>10 DEF Next, Continue

(* The types hold throughout, for every pool.                               *)
THEOREM TypeCorrect == Spec => []TypeOK
<1>1. Blank \in User
  BY DEF Blank, User
<1>2. Init => TypeOK
  <2> SUFFICES ASSUME Init PROVE TypeOK
    OBVIOUS
  <2>1. snap \in [Req -> User] /\ jwts \in SUBSET Jwt /\ logins \in SUBSET Nat
    BY <1>1 DEF Init
  <2>2. ver \in Nat /\ epoch \in Nat
    BY DEF Init
  <2>3. active \in BOOLEAN /\ hasId \in BOOLEAN /\ mfa \in BOOLEAN
    BY DEF Init
  <2>4. /\ pc \in [Req -> {"idle"} \cup InTx \cup Between]
        /\ conn = {r \in Req : pc[r] \in InTx}
    BY DEF Init, InTx, Between
  <2>5. QED
    BY <2>1, <2>2, <2>3, <2>4 DEF TypeOK
<1>3. QED
  BY <1>2, TypeOKStep, PTL DEF Spec

-----------------------------------------------------------------------------
(* What holds for the default pool.                                         *)

(* The inductive invariant, in addition to TypeOK: one transaction is open  *)
(* at most; the version counts the invalidations (it starts at 1); every    *)
(* loaded row and every token carries the version of the time it was read;  *)
(* and inside a transaction the row is still the current one.               *)
Reading == {"login", "loginGap", "backfill", "sso", "ssoGap", "gap"}
Dated(x) == x.ver = x.since + 1 /\ x.since <= epoch
SerialInv ==
    /\ SingleTransaction
    /\ ver = epoch + 1
    /\ \A r \in Req : pc[r] # "idle" => Dated(snap[r])
    /\ \A r \in Req : pc[r] \in InTx \ Reading => snap[r].ver = ver
    /\ \A t \in jwts : Dated(t)

(* The token made from a loaded row is dated as the row is (HandOut).       *)
LEMMA HandOutDated ==
    ASSUME TypeOK, SerialInv, NEW r \in Req, pc[r] # "idle", HandOut(r),
           epoch' = epoch
    PROVE  \A t \in jwts' : Dated(t)'
<1>1. Dated(snap[r])
  BY DEF SerialInv
<1>2. CASE UNCHANGED jwts
  BY <1>2 DEF SerialInv, Dated
<1>3. CASE jwts' = jwts \cup {[ver |-> snap[r].ver, since |-> snap[r].since,
                               login |-> snap[r].login, sso |-> snap[r].sso]}
  BY <1>1, <1>3 DEF SerialInv, Dated
<1>4. QED
  BY <1>2, <1>3 DEF HandOut

(* Every step keeps the invariant.  A commit that increments the version    *)
(* writes snap.ver + 1, which is ver + 1 because its transaction is alone.  *)
LEMMA SerialStep ==
    ASSUME PoolSize = 1, TypeOK, SerialInv, [Next]_vars
    PROVE  SerialInv'
<1>0. SingleTransaction'
  BY PoolUse, SerialStepOfPool DEF SerialInv, TypeOK
<1>1. Free => conn = {}
  BY SerialPool DEF TypeOK
<1> USE DEF Goto, Finish, CommitAndFinish, dbVars, InTx, Reading
<1>2. ASSUME NEW r \in Req, Read(r) PROVE SerialInv'
  <2>0. PICK l, where : LoadUser(r, l, where)
    BY <1>2 DEF Read, LoginRead, SsoRead, RefreshRead, ChangePasswordRead, ResetPasswordRead,
       AdminSetPasswordRead, MfaRead, BlockRead, UnblockRead
  <2>1. /\ snap' = [snap EXCEPT ![r] =
                       [ver |-> ver, active |-> active, mfa |-> mfa,
                        since |-> epoch, login |-> l, sso |-> where = "sso"]]
        /\ pc' = [pc EXCEPT ![r] = where]
        /\ UNCHANGED <<ver, jwts, epoch>>
    BY <2>0 DEF LoadUser
  <2>2. epoch \in Nat /\ ver = epoch + 1 /\ snap'[r].ver = ver /\ snap'[r].since = epoch
    BY <2>1 DEF TypeOK, SerialInv
  <2>3. \A s \in Req : s # r => snap'[s] = snap[s] /\ pc'[s] = pc[s]
    BY <2>1 DEF TypeOK
  <2>4. \A s \in Req : pc'[s] # "idle" => Dated(snap[s])'
    BY <2>1, <2>2, <2>3 DEF SerialInv, Dated
  <2>5. \A s \in Req : pc'[s] \in InTx \ Reading => snap'[s].ver = ver'
    BY <2>1, <2>2, <2>3 DEF SerialInv
  <2>6. \A t \in jwts' : Dated(t)'
    BY <2>1 DEF SerialInv, Dated
  <2>7. QED
    BY <1>0, <2>1, <2>2, <2>4, <2>5, <2>6 DEF SerialInv
<1>3. ASSUME NEW r \in Req, \/ LoginBackfill(r) \/ LoginResume(r)
                            \/ SsoCommit(r) \/ SsoAudit(r) \/ RefreshRevoke(r)
      PROVE  SerialInv'
  <2>1. /\ \A s \in Req : pc'[s] # "idle" => pc[s] # "idle"
        /\ \A s \in Req : pc'[s] \in InTx \ Reading => pc'[s] = pc[s]
        /\ UNCHANGED <<ver, jwts, snap, epoch>>
    BY <1>3 DEF LoginBackfill, LoginResume, SsoCommit, SsoAudit, RefreshRevoke, TypeOK
  <2>2. QED
    BY <1>0, <2>1 DEF SerialInv, Dated
<1>4. ASSUME \/ \E r \in Req : \/ LoginCommit(r) \/ IssueTokens(r)
                               \/ UnblockCommit(r) \/ Abort(r)
             \/ \E t \in jwts : JwtExpire(t)
             \/ \E l \in logins : LoginEnds(l)
             \/ UNCHANGED vars
      PROVE  SerialInv'
  <2>1. UNCHANGED <<ver, epoch>>
    BY <1>4 DEF LoginCommit, IssueTokens, UnblockCommit, Abort, JwtExpire, LoginEnds, vars
  <2>2. \A s \in Req : pc'[s] # "idle" => pc'[s] = pc[s] /\ snap'[s] = snap[s]
    BY <1>4 DEF LoginCommit, IssueTokens, UnblockCommit, Abort, JwtExpire, LoginEnds,
       vars, TypeOK
  <2>3. \A t \in jwts' : Dated(t)'
    <3>1. CASE \E r \in Req : LoginCommit(r) \/ IssueTokens(r)
      BY <2>1, <3>1, HandOutDated DEF LoginCommit, IssueTokens
    <3>2. CASE jwts' \subseteq jwts
      BY <2>1, <3>2 DEF SerialInv, Dated
    <3>3. QED
      BY <1>4, <3>1, <3>2 DEF UnblockCommit, Abort, JwtExpire, LoginEnds, vars
  <2>4. QED
    BY <1>0, <2>1, <2>2, <2>3 DEF SerialInv, Dated
<1>5. ASSUME NEW r \in Req, PasswordCommit(r) \/ MfaCommit(r) \/ BlockCommit(r)
      PROVE  SerialInv'
  <2>1. r \in conn /\ snap[r].ver = ver
    BY <1>5 DEF PasswordCommit, MfaCommit, BlockCommit, SerialInv, TypeOK
  <2>2. epoch \in Nat /\ ver = epoch + 1 /\ ver' = ver + 1 /\ epoch' = epoch + 1
    BY <1>5, <2>1 DEF PasswordCommit, MfaCommit, BlockCommit, Increment, SerialInv, TypeOK
  <2>3. \A s \in Req : pc'[s] # "idle" => s # r /\ pc'[s] = pc[s] /\ snap'[s] = snap[s]
    BY <1>5 DEF PasswordCommit, MfaCommit, BlockCommit, TypeOK
  <2>4. \A s \in Req : pc'[s] # "idle" => pc'[s] \notin InTx
    BY <2>1, <2>3 DEF SerialInv, SingleTransaction, TypeOK
  <2>5. \A x : x.since \in Nat /\ Dated(x) => x.ver = x.since + 1 /\ x.since <= epoch'
    BY <2>2 DEF Dated
  <2>6. \A s \in Req : pc'[s] # "idle" => Dated(snap[s])'
    <3> SUFFICES ASSUME NEW s \in Req, pc'[s] # "idle" PROVE Dated(snap[s])'
      OBVIOUS
    <3>1. Dated(snap[s]) /\ snap'[s] = snap[s] /\ snap[s].since \in Nat
      BY <2>3 DEF SerialInv, TypeOK, User
    <3>2. QED
      BY <2>5, <3>1 DEF Dated
  <2>7. \A t \in jwts' : Dated(t)'
    <3>1. jwts' = jwts
      BY <1>5 DEF PasswordCommit, MfaCommit, BlockCommit
    <3>2. \A t \in jwts : Dated(t) /\ t.since \in Nat
      BY DEF SerialInv, TypeOK, Jwt
    <3>3. QED
      BY <2>5, <3>1, <3>2 DEF Dated
  <2>8. QED
    BY <1>0, <2>2, <2>4, <2>6, <2>7 DEF SerialInv
<1>6. QED
  BY <1>2, <1>3, <1>4, <1>5 DEF Next, Continue

(* The types and the invariant together, for the default pool.              *)
LEMMA SerialCorrect ==
    ASSUME PoolSize = 1
    PROVE  Spec => [](TypeOK /\ SerialInv)
<1>1. Init => SerialInv
  BY DEF Init, SerialInv, SingleTransaction, InTx, Reading
<1>2. SerialInv /\ TypeOK /\ [Next]_vars => SerialInv'
  BY SerialStep
<1>3. QED
  BY <1>1, <1>2, TypeCorrect, PTL DEF Spec

(* With the default pool, /auth/verify accepts an access token only if no   *)
(* invalidation was committed since its row was read.                       *)
THEOREM VerifyRejectsOld ==
    ASSUME PoolSize = 1
    PROVE  Spec => []VerifiedIsCurrent
<1>1. TypeOK /\ SerialInv => VerifiedIsCurrent
  BY DEF TypeOK, Jwt, SerialInv, Dated, VerifiedIsCurrent, VerifyAccepts
<1>2. QED
  BY <1>1, SerialCorrect, PTL

(* A step commits one invalidation at most (every handler of the model).    *)
LEMMA EpochStep ==
    ASSUME Next
    PROVE  epoch' = epoch \/ epoch' = epoch + 1
<1>1. ASSUME NEW r \in Req, Read(r) PROVE epoch' = epoch
  BY <1>1 DEF Read, LoginRead, SsoRead, RefreshRead, ChangePasswordRead, ResetPasswordRead,
     AdminSetPasswordRead, MfaRead, BlockRead, UnblockRead, LoadUser
<1>2. ASSUME NEW r \in Req, Continue(r) PROVE epoch' = epoch \/ epoch' = epoch + 1
  BY <1>2 DEF Continue, LoginBackfill, LoginResume, LoginCommit, SsoCommit, SsoAudit,
     RefreshRevoke, IssueTokens, PasswordCommit, MfaCommit, BlockCommit, UnblockCommit, Increment
<1>3. ASSUME \/ \E r \in Req : Abort(r)
             \/ \E t \in jwts : JwtExpire(t)
             \/ \E l \in logins : LoginEnds(l)
      PROVE  epoch' = epoch
  BY <1>3 DEF Abort, JwtExpire, LoginEnds
<1>4. QED
  BY <1>1, <1>2, <1>3 DEF Next

(* With the default pool, a token /auth/verify rejects stays rejected.      *)
THEOREM RejectionIsFinal ==
    ASSUME PoolSize = 1
    PROVE  Spec => NoRevival
<1> DEFINE A == \A t \in jwts : ~VerifyAccepts(t) => ~VerifyAccepts(t)'
<1>1. ASSUME TypeOK, SerialInv, TypeOK', SerialInv', Next PROVE A
  <2>1. epoch \in Nat /\ epoch' \in Nat /\ epoch <= epoch'
    <3>1. epoch' = epoch \/ epoch' = epoch + 1
      BY <1>1, EpochStep
    <3>2. QED
      BY <1>1, <3>1 DEF TypeOK
  <2>2. ver = epoch + 1 /\ ver' = epoch' + 1
    BY <1>1 DEF SerialInv
  <2>3. \A t \in jwts : t.since \in Nat /\ t.ver = t.since + 1 /\ t.since <= epoch
    BY <1>1 DEF SerialInv, Dated, TypeOK, Jwt
  <2>4. QED
    BY <2>1, <2>2, <2>3 DEF VerifyAccepts
<1>2. TypeOK /\ SerialInv /\ (TypeOK /\ SerialInv)' /\ [Next]_vars => [A]_vars
  BY <1>1
<1>3. QED
  BY <1>2, SerialCorrect, PTL DEF Spec, NoRevival

-----------------------------------------------------------------------------
(* The refinement of AccessGrants, for the default pool.                    *)

(* What it needs beside SerialInv: inside a transaction the loaded columns  *)
(* are the current ones, and but for a sign-on a token is only being made   *)
(* from a row of the current epoch while the account is active.             *)
Granting == Reading \cup {"refresh"}
GrantInv ==
    /\ \A r \in Req : pc[r] \in InTx \ Reading =>
          snap[r].active = active /\ snap[r].mfa = mfa
    /\ \A r \in Req : pc[r] \in Granting /\ ~snap[r].sso /\ snap[r].since = epoch => active

(* The commits that invalidate: the loaded row is the current one, so the   *)
(* version goes up by one and every token is rejected (Increment).          *)
LEMMA Rejection ==
    ASSUME TypeOK, SerialInv, NEW r \in Req,
           PasswordCommit(r) \/ MfaCommit(r) \/ BlockCommit(r)
    PROVE  /\ pc[r] \in InTx \ Reading /\ snap[r].ver = ver
           /\ ver' = ver + 1 /\ epoch' = epoch + 1 /\ jwts' = jwts
           /\ valid' = {}
<1>1. /\ pc[r] \in InTx \ Reading /\ snap[r].ver = ver
      /\ ver' = ver + 1 /\ epoch' = epoch + 1 /\ jwts' = jwts
  BY DEF PasswordCommit, MfaCommit, BlockCommit, Increment, SerialInv, InTx, Reading
<1>2. \A t \in jwts : t.ver # ver + 1
  <2>1. epoch \in Nat /\ ver = epoch + 1
    BY DEF TypeOK, SerialInv
  <2>2. \A t \in jwts : t.since \in Nat /\ t.ver = t.since + 1 /\ t.since <= epoch
    BY DEF TypeOK, Jwt, SerialInv, Dated
  <2>3. QED
    BY <2>1, <2>2
<1>3. QED
  BY <1>1, <1>2 DEF valid, VerifyAccepts

(* When the one transaction there is ends, no request is inside one and no  *)
(* other request has moved (Finish).                                        *)
LEMMA Ending ==
    ASSUME TypeOK, SerialInv, NEW r \in Req, pc[r] \in InTx, Finish(r), NEW s \in Req
    PROVE  /\ pc'[s] \notin InTx
           /\ pc'[s] = "idle" \/ (pc'[s] = pc[s] /\ snap'[s] = snap[s])
<1>1. pc[s] \in InTx => s = r
  BY DEF SerialInv, SingleTransaction, TypeOK, InTx
<1>2. QED
  BY <1>1 DEF Finish, TypeOK, InTx

(* Every step keeps the invariant (every handler of the model).             *)
LEMMA GrantStep ==
    ASSUME PoolSize = 1, TypeOK, SerialInv, GrantInv, [Next]_vars
    PROVE  GrantInv'
<1> USE DEF Goto, Finish, CommitAndFinish, dbVars, InTx, Reading, Granting
<1>1. ASSUME NEW r \in Req, Read(r) PROVE GrantInv'
  <2>0. PICK l, where : /\ LoadUser(r, l, where)
                        /\ where \in Granting /\ where # "sso" => active
    BY <1>1 DEF Read, LoginRead, SsoRead, RefreshRead, ChangePasswordRead, ResetPasswordRead,
       AdminSetPasswordRead, MfaRead, BlockRead, UnblockRead
  <2>1. /\ snap' = [snap EXCEPT ![r] =
                       [ver |-> ver, active |-> active, mfa |-> mfa,
                        since |-> epoch, login |-> l, sso |-> where = "sso"]]
        /\ pc' = [pc EXCEPT ![r] = where]
        /\ UNCHANGED <<active, mfa, epoch>>
    BY <2>0 DEF LoadUser
  <2>2. /\ snap'[r].active = active /\ snap'[r].mfa = mfa /\ pc'[r] = where
        /\ \A s \in Req : s # r => snap'[s] = snap[s] /\ pc'[s] = pc[s]
    BY <2>1 DEF TypeOK
  <2>3. pc'[r] \in Granting /\ ~snap'[r].sso => active
    BY <2>0, <2>1, <2>2 DEF TypeOK
  <2>4. QED
    BY <2>1, <2>2, <2>3 DEF GrantInv
<1>2. ASSUME UNCHANGED <<active, mfa, epoch>>,
             \A s \in Req : \/ pc'[s] = "idle"
                           \/ /\ snap'[s] = snap[s]
                              /\ pc'[s] \in InTx \ Reading => pc'[s] = pc[s]
                              /\ pc'[s] \in Granting => pc[s] \in Granting
      PROVE  GrantInv'
  BY <1>2 DEF GrantInv
<1>3. ASSUME NEW r \in Req, \/ LoginBackfill(r) \/ LoginResume(r)
                            \/ SsoCommit(r) \/ SsoAudit(r) \/ RefreshRevoke(r)
      PROVE  GrantInv'
  <2>1. /\ UNCHANGED <<active, mfa, epoch, snap>>
        /\ \A s \in Req : /\ pc'[s] \in InTx \ Reading => pc'[s] = pc[s]
                          /\ pc'[s] \in Granting => pc[s] \in Granting
    BY <1>3 DEF LoginBackfill, LoginResume, SsoCommit, SsoAudit, RefreshRevoke, TypeOK
  <2>2. QED
    BY <1>2, <2>1
<1>4. ASSUME \/ \E r \in Req : LoginCommit(r) \/ IssueTokens(r) \/ Abort(r)
             \/ \E t \in jwts : JwtExpire(t)
             \/ \E l \in logins : LoginEnds(l)
             \/ UNCHANGED vars
      PROVE  GrantInv'
  <2>1. UNCHANGED <<active, mfa, epoch>>
    BY <1>4 DEF LoginCommit, IssueTokens, Abort, JwtExpire, LoginEnds, vars
  <2>2. \A s \in Req : pc'[s] = "idle" \/ (snap'[s] = snap[s] /\ pc'[s] = pc[s])
    BY <1>4 DEF LoginCommit, IssueTokens, Abort, JwtExpire, LoginEnds, vars, TypeOK
  <2>3. QED
    BY <2>1, <2>2 DEF GrantInv
<1>5. ASSUME NEW r \in Req, PasswordCommit(r) \/ MfaCommit(r) \/ BlockCommit(r)
      PROVE  GrantInv'
  <2>1. pc[r] \in InTx /\ Finish(r) /\ epoch' = epoch + 1
    BY <1>5, Rejection DEF PasswordCommit, MfaCommit, BlockCommit
  <2>2. \A s \in Req : pc'[s] \notin InTx
    BY <2>1, Ending
  <2>3. ASSUME NEW s \in Req, pc'[s] \in Granting PROVE snap'[s].since # epoch'
    <3>1. pc'[s] # "idle" /\ pc'[s] \in Granting
      BY <2>3
    <3>2. pc[s] = pc'[s] /\ snap'[s] = snap[s]
      BY <2>1, <3>1, Ending
    <3>3. snap[s].since <= epoch
      BY <3>1, <3>2 DEF SerialInv, Dated
    <3>4. epoch \in Nat /\ snap[s].since \in Nat
      BY DEF TypeOK, User
    <3>5. QED
      BY <2>1, <3>2, <3>3, <3>4
  <2>4. QED
    BY <2>2, <2>3 DEF GrantInv
<1>6. ASSUME NEW r \in Req, UnblockCommit(r) PROVE GrantInv'
  <2>1. pc[r] \in InTx /\ Finish(r) /\ epoch' = epoch /\ active' = TRUE
    <3>1. pc[r] \in InTx \ Reading /\ (active' = IF snap[r].active THEN active ELSE TRUE)
      BY <1>6 DEF UnblockCommit
    <3>2. snap[r].active = active /\ active \in BOOLEAN
      BY <3>1 DEF GrantInv, TypeOK
    <3>3. QED
      BY <1>6, <3>1, <3>2 DEF UnblockCommit
  <2>2. \A s \in Req : pc'[s] \notin InTx
    BY <2>1, Ending
  <2>3. QED
    BY <2>1, <2>2 DEF GrantInv
<1>7. QED
  BY <1>1, <1>3, <1>4, <1>5, <1>6 DEF Next, Continue

(* A token that is handed out is accepted if its row is still of the        *)
(* current epoch, and a blocked account is given such a token by a sign-on  *)
(* only (HandOut, in login, refresh and the OAuth callback).                *)
LEMMA Issuing ==
    ASSUME TypeOK, SerialInv, GrantInv, NEW r \in Req, LoginCommit(r) \/ IssueTokens(r)
    PROVE  \/ \E t \in valid' : Grants!Issue(t) \/ Grants!SignOn(t)
           \/ UNCHANGED Grants!vars
<1>1. /\ HandOut(r) /\ pc[r] \in {"login", "gap"}
      /\ UNCHANGED <<ver, active, mfa, epoch>>
  BY DEF LoginCommit, IssueTokens, dbVars
<1> DEFINE t == [ver |-> snap[r].ver, since |-> snap[r].since,
                 login |-> snap[r].login, sso |-> snap[r].sso]
<1>2. CASE UNCHANGED jwts
  BY <1>1, <1>2 DEF Grants!vars, valid, VerifyAccepts
<1>3. CASE jwts' = jwts \cup {t} /\ t.ver # ver
  <2>1. valid' = valid
    BY <1>1, <1>3 DEF valid, VerifyAccepts
  <2>2. QED
    BY <1>1, <2>1 DEF Grants!vars
<1>4. CASE jwts' = jwts \cup {t} /\ t.ver = ver
  <2>1. valid' = valid \cup {t} /\ t \in valid'
    BY <1>1, <1>4 DEF valid, VerifyAccepts
  <2>2. t.since = epoch
    <3>1. t.ver = t.since + 1 /\ t.since \in Nat /\ epoch \in Nat /\ ver = epoch + 1
      BY <1>1 DEF SerialInv, Dated, TypeOK, User
    <3>2. QED
      BY <1>4, <3>1
  <2>3. t.sso \/ (active /\ ~t.sso)
    BY <1>1, <2>2 DEF GrantInv, Granting, Reading
  <2>4. Grants!Issue(t) \/ Grants!SignOn(t)
    BY <1>1, <2>1, <2>2, <2>3 DEF Grants!Issue, Grants!SignOn, Grants!Give
  <2>5. QED
    BY <2>1, <2>4
<1>5. QED
  BY <1>1, <1>2, <1>3, <1>4 DEF HandOut

(* The invalidations, each with the change it belongs to (change_password,  *)
(* reset_password, verify_mfa, disable_mfa, admin_set_password,             *)
(* admin_block_user).                                                       *)
LEMMA Invalidating ==
    ASSUME TypeOK, SerialInv, GrantInv, NEW r \in Req,
           PasswordCommit(r) \/ MfaCommit(r) \/ BlockCommit(r)
    PROVE  Grants!ChangePassword \/ Grants!SwitchMfa \/ Grants!Block
<1>1. Grants!Invalidate
  BY Rejection DEF Grants!Invalidate
<1>2. snap[r].active = active /\ snap[r].mfa = mfa /\ active \in BOOLEAN
  BY Rejection DEF GrantInv, TypeOK
<1>3. CASE PasswordCommit(r)
  BY <1>1, <1>3 DEF PasswordCommit, Grants!ChangePassword
<1>4. CASE MfaCommit(r)
  BY <1>1, <1>2, <1>4 DEF MfaCommit, Grants!SwitchMfa
<1>5. CASE BlockCommit(r)
  <2>1. active' = FALSE /\ UNCHANGED mfa
    BY <1>2, <1>5 DEF BlockCommit
  <2>2. QED
    BY <1>1, <2>1 DEF Grants!Block
<1>6. QED
  BY <1>3, <1>4, <1>5

(* admin_unblock_user lets nothing be accepted that was rejected.           *)
LEMMA Unblocking ==
    ASSUME TypeOK, GrantInv, NEW r \in Req, UnblockCommit(r)
    PROVE  Grants!Unblock
<1>1. snap[r].active = active /\ active \in BOOLEAN
  BY DEF UnblockCommit, GrantInv, TypeOK, InTx, Reading
<1>2. active' = TRUE /\ UNCHANGED <<ver, jwts, mfa, epoch>>
  BY <1>1 DEF UnblockCommit
<1>3. QED
  BY <1>2 DEF Grants!Unblock, valid, VerifyAccepts

(* A token's time is over.                                                  *)
LEMMA ExpiringJwt ==
    ASSUME NEW t \in jwts, JwtExpire(t)
    PROVE  (\E u \in valid : Grants!Expire(u)) \/ UNCHANGED Grants!vars
<1>1. jwts' = jwts \ {t} /\ UNCHANGED <<ver, active, mfa, epoch>>
  BY DEF JwtExpire, dbVars
<1>2. CASE VerifyAccepts(t)
  <2>1. t \in valid /\ valid' = valid \ {t}
    BY <1>1, <1>2 DEF valid, VerifyAccepts
  <2>2. QED
    BY <1>1, <2>1 DEF Grants!Expire
<1>3. CASE ~VerifyAccepts(t)
  BY <1>1, <1>3 DEF valid, VerifyAccepts, Grants!vars
<1>4. QED
  BY <1>2, <1>3

(* With the default pool, the handlers do what AccessGrants says (every     *)
(* handler of the model).                                                   *)
THEOREM ImplementsGrants ==
    ASSUME PoolSize = 1
    PROVE  Spec => ImplementsAccessGrants
<1>1. Init => GrantInv /\ Grants!Init
  BY DEF Init, GrantInv, InTx, Granting, Reading, Grants!Init, valid
<1>2. TypeOK /\ SerialInv /\ GrantInv /\ [Next]_vars => GrantInv'
  BY GrantStep
<1>3. TypeOK /\ SerialInv /\ GrantInv /\ [Next]_vars => [Grants!Next]_(Grants!vars)
  <2> SUFFICES ASSUME TypeOK, SerialInv, GrantInv, [Next]_vars
               PROVE  Grants!Next \/ UNCHANGED Grants!vars
    OBVIOUS
  <2>1. ASSUME UNCHANGED <<ver, active, mfa, jwts, epoch>> PROVE UNCHANGED Grants!vars
    BY <2>1 DEF Grants!vars, valid, VerifyAccepts
  <2>2. ASSUME NEW r \in Req, Read(r) PROVE UNCHANGED Grants!vars
    BY <2>1, <2>2 DEF Read, LoginRead, SsoRead, RefreshRead, ChangePasswordRead, ResetPasswordRead,
       AdminSetPasswordRead, MfaRead, BlockRead, UnblockRead, LoadUser, dbVars
  <2>3. ASSUME NEW r \in Req, \/ LoginBackfill(r) \/ LoginResume(r) \/ SsoCommit(r)
                              \/ SsoAudit(r) \/ RefreshRevoke(r) \/ Abort(r)
        PROVE  UNCHANGED Grants!vars
    BY <2>1, <2>3 DEF LoginBackfill, LoginResume, SsoCommit, SsoAudit, RefreshRevoke,
       Abort, dbVars
  <2>4. ASSUME NEW r \in Req, LoginCommit(r) \/ IssueTokens(r)
        PROVE  Grants!Next \/ UNCHANGED Grants!vars
    BY <2>4, Issuing DEF Grants!Next
  <2>5. ASSUME NEW r \in Req, PasswordCommit(r) \/ MfaCommit(r) \/ BlockCommit(r)
        PROVE  Grants!Next
    BY <2>5, Invalidating DEF Grants!Next
  <2>6. ASSUME NEW r \in Req, UnblockCommit(r) PROVE Grants!Next
    BY <2>6, Unblocking DEF Grants!Next
  <2>7. ASSUME NEW t \in jwts, JwtExpire(t) PROVE Grants!Next \/ UNCHANGED Grants!vars
    BY <2>7, ExpiringJwt DEF Grants!Next
  <2>8. ASSUME (\E l \in logins : LoginEnds(l)) \/ UNCHANGED vars
        PROVE  UNCHANGED Grants!vars
    BY <2>1, <2>8 DEF LoginEnds, vars, dbVars
  <2>9. QED
    BY <2>2, <2>3, <2>4, <2>5, <2>6, <2>7, <2>8 DEF Next, Continue
<1>4. QED
  BY <1>1, <1>2, <1>3, SerialCorrect, PTL DEF Spec, ImplementsAccessGrants, Grants!Spec

(* What AccessGrants promises is enough, whatever made it true: a token     *)
(* that is accepted descends from a row read since the last invalidation    *)
(* (verify_token).                                                          *)
THEOREM GrantsAreCurrent == ImplementsAccessGrants => []VerifiedIsCurrent
<1> DEFINE Current == \A t \in valid : t.since = epoch
<1>1. Grants!Init => Current
  BY DEF Grants!Init
<1>2. Current /\ [Grants!Next]_(Grants!vars) => Current'
  BY DEF Grants!Next, Grants!vars, Grants!Issue, Grants!SignOn, Grants!Give, Grants!Expire,
     Grants!Invalidate, Grants!ChangePassword, Grants!SwitchMfa, Grants!Block, Grants!Unblock
<1>3. Current => VerifiedIsCurrent
  BY DEF valid, VerifiedIsCurrent
<1>4. QED
  BY <1>1, <1>2, <1>3, PTL DEF ImplementsAccessGrants, Grants!Spec
=============================================================================
