----------------------- MODULE RefreshRotationProofs -----------------------
(***************************************************************************)
(* Proofs about RefreshRotation, for any sets of requests and tokens.      *)
(*                                                                         *)
(* For every pool: the types, the bound on the pool, IssuedForRevoked, and *)
(* that a token is redeemed no more often than there are connections.      *)
(* For the default pool of one connection: OneUnrevokedPerFamily,          *)
(* RedeemedOnce, RevokeAllLeavesNoOther and the refinement of              *)
(* SessionFamily.  What makes the difference is SerialPool (DbPoolProofs): *)
(* a transaction begins when no other is open, so a row it reads is as it  *)
(* was read until its commit.                                              *)
(***************************************************************************)
EXTENDS RefreshRotation, DbPoolProofs

-----------------------------------------------------------------------------
(* Type correctness.                                                        *)

(* Every step keeps the types and the link between a request's state, its   *)
(* connection and the rows it loaded (every handler of the model).          *)
LEMMA TypeOKStep == TypeOK /\ [Next]_vars => TypeOK'
<1> SUFFICES ASSUME TypeOK, [Next]_vars PROVE TypeOK'
  OBVIOUS
<1> USE DEF TypeOK, RowState, InTx, Between, dbVars, history, reqVars, Goto,
            Finish, Return, Checkout, OneShot
<1>1. ASSUME NEW r \in Req, LoginRead(r) PROVE TypeOK'
  BY <1>1 DEF LoginRead
<1>2. ASSUME NEW r \in Req, LoginBackfill(r) PROVE TypeOK'
  BY <1>2 DEF LoginBackfill
<1>3. ASSUME NEW r \in Req, LoginResume(r) PROVE TypeOK'
  BY <1>3 DEF LoginResume
<1>4. ASSUME NEW r \in Req, LoginCommit(r) PROVE TypeOK'
  BY <1>4 DEF LoginCommit, Insert
<1>5. ASSUME NEW r \in Req, NEW t \in Token, RefreshLookup(r, t) PROVE TypeOK'
  BY <1>5 DEF RefreshLookup
<1>6. ASSUME NEW r \in Req, RefreshCheckUser(r) PROVE TypeOK'
  BY <1>6 DEF RefreshCheckUser
<1>7. ASSUME NEW r \in Req, RefreshRevoke(r) PROVE TypeOK'
  BY <1>7 DEF RefreshRevoke, RevokeLoaded
<1>8. ASSUME NEW r \in Req, RefreshIssue(r) PROVE TypeOK'
  BY <1>8 DEF RefreshIssue, Insert
<1>9. ASSUME NEW r \in Req, NEW t \in Token, LogoutLookup(r, t) PROVE TypeOK'
  BY <1>9 DEF LogoutLookup
<1>10. ASSUME NEW r \in Req, LogoutCommit(r) PROVE TypeOK'
  BY <1>10 DEF LogoutCommit, RevokeLoaded
<1>11. ASSUME NEW r \in Req, Authenticate(r) PROVE TypeOK'
  BY <1>11 DEF Authenticate
<1>12. ASSUME NEW r \in Req, NEW t \in Token, RevokeLookup(r, t) PROVE TypeOK'
  BY <1>12 DEF RevokeLookup
<1>13. ASSUME NEW r \in Req, RevokeNotFound(r) PROVE TypeOK'
  BY <1>13 DEF RevokeNotFound
<1>14. ASSUME NEW r \in Req, RevokeCommit(r) PROVE TypeOK'
  BY <1>14 DEF RevokeCommit, RevokeLoaded
<1>15. ASSUME NEW r \in Req, NEW c \in Token \cup {None}, RevokeAllLookup(r, c)
       PROVE TypeOK'
  BY <1>15 DEF RevokeAllLookup, Unrevoked, Issued
<1>16. ASSUME NEW r \in Req, RevokeAllCommit(r) PROVE TypeOK'
  BY <1>16 DEF RevokeAllCommit, RevokeLoaded, Issued
<1>17. ASSUME NEW r \in Req, LogAudit(r) PROVE TypeOK'
  BY <1>17 DEF LogAudit
<1>18. ASSUME NEW r \in Req, PoolTimeout(r) \/ DbError(r) PROVE TypeOK'
  BY <1>18 DEF PoolTimeout, DbError
<1>19. ASSUME NEW b \in BOOLEAN, SetActive(b) PROVE TypeOK'
  BY <1>19 DEF SetActive
<1>20. ASSUME NEW t \in Token, Expire(t) PROVE TypeOK'
  BY <1>20 DEF Expire
<1>21. ASSUME Crash PROVE TypeOK'
  BY <1>21 DEF Crash
<1>22. ASSUME UNCHANGED vars PROVE TypeOK'
  BY <1>22 DEF vars
<1>23. ASSUME NEW r \in Req, SsoRead(r) PROVE TypeOK'
  BY <1>23 DEF SsoRead
<1>24. ASSUME NEW r \in Req, SsoCommit(r) PROVE TypeOK'
  BY <1>24 DEF SsoCommit
<1>25. ASSUME NEW r \in Req, SsoIssue(r) PROVE TypeOK'
  BY <1>25 DEF SsoIssue, Insert
<1>26. QED
  BY <1>1, <1>2, <1>3, <1>4, <1>5, <1>6, <1>7, <1>8, <1>9, <1>10, <1>11, <1>12,
     <1>13, <1>14, <1>15, <1>16, <1>17, <1>18, <1>19, <1>20, <1>21, <1>22,
     <1>23, <1>24, <1>25
     DEF Next, Begin, Continue

(* The types hold throughout, for every pool.                               *)
THEOREM TypeCorrect == Spec => []TypeOK
<1>1. Init => TypeOK
  BY DEF Init, TypeOK, RowState, InTx, Between
<1>2. QED
  BY <1>1, TypeOKStep, PTL DEF Spec

-----------------------------------------------------------------------------
(* All a step does to the pool: one checkout, one return, nothing, or the   *)
(* loss of every connection (every handler of the model).                   *)
LEMMA PoolUse ==
    ASSUME [Next]_vars
    PROVE  \/ \E r \in Req : Checkout(r) \/ Return(r)
           \/ UNCHANGED conn
           \/ conn' = {}
<1> USE DEF OneShot
<1>1. ASSUME NEW r \in Req, Begin(r) PROVE Checkout(r)
  BY <1>1 DEF Begin, LoginRead, SsoRead, Authenticate, RefreshLookup, LogoutLookup
<1>2. ASSUME NEW r \in Req, Continue(r)
      PROVE  Checkout(r) \/ Return(r) \/ UNCHANGED conn
  BY <1>2 DEF Continue, LoginBackfill, LoginResume, LoginCommit, SsoCommit, SsoIssue,
     RefreshCheckUser, RefreshRevoke, RefreshIssue, LogoutCommit, RevokeLookup, RevokeAllLookup,
     RevokeNotFound, RevokeCommit, RevokeAllCommit, LogAudit
<1>3. ASSUME NEW r \in Req, PoolTimeout(r) \/ DbError(r)
      PROVE  Return(r) \/ UNCHANGED conn
  BY <1>3 DEF PoolTimeout, DbError
<1>4. CASE (\E b \in BOOLEAN : SetActive(b)) \/ (\E t \in Token : Expire(t))
  BY <1>4 DEF SetActive, Expire
<1>5. CASE Crash \/ UNCHANGED vars
  BY <1>5 DEF Crash, vars
<1>6. QED
  BY <1>1, <1>2, <1>3, <1>4, <1>5 DEF Next

(* The pool never hands out more connections than it has (app/db.py).       *)
THEOREM PoolNeverOverdrawn == Spec => []PoolBounded
<1>1. Init => PoolBounded
  BY PoolAssumption, FS_EmptySet DEF Init, PoolBounded
<1>2. PoolBounded /\ [Next]_vars => PoolBounded'
  BY PoolUse, PoolStep
<1>3. QED
  BY <1>1, <1>2, PTL DEF Spec

-----------------------------------------------------------------------------
(* What holds for every pool.                                               *)

(* A refresh that has checked its token is about to revoke that token, and  *)
(* one that has committed has revoked it.                                   *)
RedemptionInv ==
    /\ \A r \in Req : pc[r] \in {"lookup", "checked"} => loaded[r] = {cookie[r]}
    /\ \A r \in Req : pc[r] = "gap" => row[cookie[r]] = "revoked"
    /\ IssuedForRevoked

(* No step clears revoked_at.                                               *)
LEMMA RevokedStays ==
    ASSUME TypeOK, [Next]_vars, NEW t \in Token, row[t] = "revoked"
    PROVE  row'[t] = "revoked"
<1> USE DEF TypeOK, RowState, dbVars, history, reqVars, RevokeLoaded, Insert
<1>1. ASSUME NEW r \in Req, Begin(r) PROVE row'[t] = "revoked"
  BY <1>1 DEF Begin, LoginRead, SsoRead, Authenticate, RefreshLookup, LogoutLookup
<1>2. ASSUME NEW r \in Req, Continue(r) PROVE row'[t] = "revoked"
  BY <1>2 DEF Continue, LoginBackfill, LoginResume, LoginCommit, SsoCommit, SsoIssue,
     RefreshCheckUser, RefreshRevoke, RefreshIssue, LogoutCommit, RevokeLookup, RevokeAllLookup,
     RevokeNotFound, RevokeCommit, RevokeAllCommit, LogAudit
<1>3. ASSUME NEW r \in Req, PoolTimeout(r) \/ DbError(r) PROVE row'[t] = "revoked"
  BY <1>3 DEF PoolTimeout, DbError
<1>4. CASE \E b \in BOOLEAN : SetActive(b)
  BY <1>4 DEF SetActive
<1>5. CASE \E u \in Token : Expire(u)
  BY <1>5 DEF Expire
<1>6. CASE Crash \/ UNCHANGED vars
  BY <1>6 DEF Crash, vars
<1>7. QED
  BY <1>1, <1>2, <1>3, <1>4, <1>5, <1>6 DEF Next

(* Every step keeps it (every handler of the model).                        *)
LEMMA RedemptionStep == TypeOK /\ RedemptionInv /\ [Next]_vars => RedemptionInv'
<1> SUFFICES ASSUME TypeOK, RedemptionInv, [Next]_vars PROVE RedemptionInv'
  OBVIOUS
<1> USE NoneAssumption DEF TypeOK, RedemptionInv, IssuedForRevoked, RowState, InTx,
            Between, dbVars, history, reqVars, Goto, Finish, Insert, RevokeLoaded
<1>0. \A t \in Token : row[t] = "revoked" => row'[t] = "revoked"
  BY RevokedStays
<1>1. ASSUME NEW r \in Req, LoginRead(r) \/ SsoRead(r) \/ Authenticate(r) PROVE RedemptionInv'
  BY <1>1 DEF LoginRead, SsoRead, Authenticate
<1>2. ASSUME NEW r \in Req, LoginBackfill(r) \/ LoginResume(r) \/ SsoCommit(r)
      PROVE  RedemptionInv'
  BY <1>2 DEF LoginBackfill, LoginResume, SsoCommit
<1>3. ASSUME NEW r \in Req, LoginCommit(r) \/ SsoIssue(r) PROVE RedemptionInv'
  BY <1>0, <1>3 DEF LoginCommit, SsoIssue
<1>4. ASSUME NEW r \in Req, NEW t \in Token, RefreshLookup(r, t) \/ LogoutLookup(r, t)
      PROVE  RedemptionInv'
  BY <1>4 DEF RefreshLookup, LogoutLookup
<1>5. ASSUME NEW r \in Req, RefreshCheckUser(r) PROVE RedemptionInv'
  BY <1>5 DEF RefreshCheckUser
<1>6. ASSUME NEW r \in Req, RefreshRevoke(r) PROVE RedemptionInv'
  BY <1>0, <1>6 DEF RefreshRevoke
<1>7. ASSUME NEW r \in Req, RefreshIssue(r) PROVE RedemptionInv'
  BY <1>0, <1>7 DEF RefreshIssue
<1>8. ASSUME NEW r \in Req, LogoutCommit(r) \/ RevokeCommit(r) \/ RevokeAllCommit(r)
      PROVE  RedemptionInv'
  BY <1>0, <1>8 DEF LogoutCommit, RevokeCommit, RevokeAllCommit
<1>9. ASSUME NEW r \in Req, NEW c \in Token \cup {None},
             RevokeLookup(r, c) \/ RevokeAllLookup(r, c)
      PROVE  RedemptionInv'
  BY <1>9 DEF RevokeLookup, RevokeAllLookup
<1>10. ASSUME NEW r \in Req,
              RevokeNotFound(r) \/ LogAudit(r) \/ PoolTimeout(r) \/ DbError(r)
       PROVE  RedemptionInv'
  BY <1>10 DEF RevokeNotFound, LogAudit, PoolTimeout, DbError
<1>11. CASE \E b \in BOOLEAN : SetActive(b)
  BY <1>11 DEF SetActive
<1>12. CASE \E u \in Token : Expire(u)
  BY <1>0, <1>12 DEF Expire
<1>13. CASE Crash \/ UNCHANGED vars
  BY <1>13 DEF Crash, vars
<1>14. QED
  BY <1>1, <1>2, <1>3, <1>4, <1>5, <1>6, <1>7, <1>8, <1>9, <1>10, <1>11, <1>12,
     <1>13 DEF Next, Begin, Continue

(* Whatever the pool, a token is issued only in exchange for a revoked one. *)
THEOREM ExchangeOnly == Spec => []IssuedForRevoked
<1>1. Init => RedemptionInv
  BY DEF Init, RedemptionInv, IssuedForRevoked
<1>2. RedemptionInv => IssuedForRevoked
  BY DEF RedemptionInv
<1>3. QED
  BY <1>1, <1>2, RedemptionStep, TypeCorrect, PTL DEF Spec

-----------------------------------------------------------------------------
(* How often a token is redeemed, for every pool.                           *)

(* The tokens issued for p, and the refreshes that have found p usable and  *)
(* may still issue one, together fit into the pool.                         *)
Children(p)  == {t \in Token : parent[t] = p}
Exchanges(p) == {r \in Req : pc[r] \in {"lookup", "checked", "gap"} /\ cookie[r] = p}
ExchangeInv ==
    /\ PoolBounded
    /\ \A p \in Token : /\ IsFiniteSet(Children(p))
                         /\ Cardinality(Children(p)) + Cardinality(Exchanges(p)) <= PoolSize

(* There are finitely many of them, whatever the state.                     *)
LEMMA FiniteExchanges ==
    ASSUME NEW p
    PROVE  IsFiniteSet(Exchanges(p)) /\ Cardinality(Exchanges(p)) \in Nat
BY PoolAssumption, FS_Subset, FS_CardinalityType DEF Exchanges

(* A step that adds to neither keeps the bound.                             *)
LEMMA NoneAdded ==
    ASSUME ExchangeInv, NEW p \in Token,
           Children(p)' \subseteq Children(p), Exchanges(p)' \subseteq Exchanges(p)
    PROVE  /\ IsFiniteSet(Children(p)')
           /\ Cardinality(Children(p)') + Cardinality(Exchanges(p)') <= PoolSize
<1>1. IsFiniteSet(Children(p)) /\ Cardinality(Children(p)) \in Nat
  BY FS_CardinalityType DEF ExchangeInv
<1>2. /\ IsFiniteSet(Children(p)') /\ Cardinality(Children(p)') \in Nat
      /\ Cardinality(Children(p)') <= Cardinality(Children(p))
  BY <1>1, FS_Subset, FS_CardinalityType
<1>3. IsFiniteSet(Exchanges(p)) /\ Cardinality(Exchanges(p)) \in Nat
  BY FiniteExchanges
<1>4. /\ Cardinality(Exchanges(p)') \in Nat
      /\ Cardinality(Exchanges(p)') <= Cardinality(Exchanges(p))
  BY <1>3, FS_Subset, FS_CardinalityType
<1>5. Cardinality(Children(p)) + Cardinality(Exchanges(p)) <= PoolSize
  BY DEF ExchangeInv
<1>6. QED
  BY <1>1, <1>2, <1>3, <1>4, <1>5, PoolAssumption

(* Nor does the second commit of a refresh, which adds one token and ends   *)
(* one exchange (RefreshIssue).                                             *)
LEMMA OneForOne ==
    ASSUME ExchangeInv, NEW p \in Token, NEW t, NEW r \in Exchanges(p),
           Children(p)' \subseteq Children(p) \cup {t},
           Exchanges(p)' \subseteq Exchanges(p) \ {r}
    PROVE  /\ IsFiniteSet(Children(p)')
           /\ Cardinality(Children(p)') + Cardinality(Exchanges(p)') <= PoolSize
<1>1. IsFiniteSet(Children(p)) /\ Cardinality(Children(p)) \in Nat
  BY FS_CardinalityType DEF ExchangeInv
<1>2. /\ IsFiniteSet(Children(p) \cup {t}) /\ Cardinality(Children(p) \cup {t}) \in Nat
      /\ Cardinality(Children(p) \cup {t}) <= Cardinality(Children(p)) + 1
  BY <1>1, FS_AddElement
<1>3. /\ IsFiniteSet(Children(p)') /\ Cardinality(Children(p)') \in Nat
      /\ Cardinality(Children(p)') <= Cardinality(Children(p) \cup {t})
  BY <1>2, FS_Subset, FS_CardinalityType
<1>4. IsFiniteSet(Exchanges(p)) /\ Cardinality(Exchanges(p)) \in Nat
  BY FiniteExchanges
<1>5. /\ IsFiniteSet(Exchanges(p) \ {r})
      /\ Cardinality(Exchanges(p) \ {r}) = Cardinality(Exchanges(p)) - 1
  BY <1>4, FS_RemoveElement
<1>6. /\ Cardinality(Exchanges(p)') \in Nat
      /\ Cardinality(Exchanges(p)') <= Cardinality(Exchanges(p) \ {r})
  BY <1>5, FS_Subset, FS_CardinalityType
<1>7. Cardinality(Children(p)) + Cardinality(Exchanges(p)) <= PoolSize
  BY DEF ExchangeInv
<1>8. QED
  BY <1>1, <1>2, <1>3, <1>4, <1>5, <1>6, <1>7, PoolAssumption

(* Every step keeps the bound (every handler of the model).                 *)
LEMMA ExchangeStep ==
    ASSUME TypeOK, TypeOK', RedemptionInv, ExchangeInv, [Next]_vars
    PROVE  ExchangeInv'
<1>0. PoolBounded'
  BY PoolUse, PoolStep DEF ExchangeInv
<1>1. ASSUME \A p \in Token : /\ Children(p)' \subseteq Children(p)
                              /\ Exchanges(p)' \subseteq Exchanges(p)
      PROVE  ExchangeInv'
  BY <1>0, <1>1, NoneAdded DEF ExchangeInv
<1> USE DEF dbVars, history, reqVars, Goto, Finish
<1>2. ASSUME NEW r \in Req, NEW t \in Token, RefreshLookup(r, t) PROVE ExchangeInv'
  <2>1. \A p \in Token : p # t => /\ Children(p)' \subseteq Children(p)
                                 /\ Exchanges(p)' \subseteq Exchanges(p)
    BY <1>2 DEF RefreshLookup, Children, Exchanges, TypeOK
  <2>2. Children(t)' = {}
    BY <1>2, NoneAssumption DEF RefreshLookup, Children, RedemptionInv, IssuedForRevoked
  <2>3. Exchanges(t)' \in SUBSET conn'
    <3>1. \A s \in Req : pc'[s] = "gap" => cookie'[s] # t
      BY <1>2 DEF RefreshLookup, RedemptionInv, TypeOK
    <3>2. \A s \in Req : pc'[s] \in {"lookup", "checked"} => s \in conn'
      BY DEF TypeOK, InTx
    <3>3. QED
      BY <3>1, <3>2 DEF Exchanges
  <2>4. Cardinality(Exchanges(t)') \in Nat /\ Cardinality(Exchanges(t)') <= PoolSize
    <3>1. conn' \in SUBSET Req /\ Cardinality(conn') <= PoolSize
      BY <1>0 DEF PoolBounded
    <3>2. QED
      BY <2>3, <3>1, WithinPool
  <2>5. IsFiniteSet(Children(t)') /\ Cardinality(Children(t)') = 0
    BY <2>2, FS_EmptySet
  <2>6. QED
    BY <1>0, <2>1, <2>4, <2>5, NoneAdded DEF ExchangeInv
<1>3. ASSUME NEW r \in Req, RefreshIssue(r) PROVE ExchangeInv'
  <2>1. PICK t \in Token : Insert(t, cookie[r], family[cookie[r]])
    BY <1>3 DEF RefreshIssue
  <2>2. PICK p \in Token : p = cookie[r]
    BY <1>3 DEF RefreshIssue, TypeOK
  <2>3. r \in Exchanges(p)
    BY <1>3, <2>2 DEF RefreshIssue, Exchanges
  <2>4. Children(p)' \subseteq Children(p) \cup {t}
    BY <2>1 DEF Insert, Children, TypeOK
  <2>5. Exchanges(p)' \subseteq Exchanges(p) \ {r}
    BY <1>3 DEF RefreshIssue, Exchanges, TypeOK
  <2>6. \A u \in Token : u # p => /\ Children(u)' \subseteq Children(u)
                                 /\ Exchanges(u)' \subseteq Exchanges(u)
    <3>1. \A u \in Token : u # p => Children(u)' \subseteq Children(u)
      BY <2>1, <2>2 DEF Insert, Children, TypeOK
    <3>2. \A u \in Token : Exchanges(u)' \subseteq Exchanges(u)
      BY <1>3 DEF RefreshIssue, Exchanges, TypeOK
    <3>3. QED
      BY <3>1, <3>2
  <2>7. QED
    BY <1>0, <2>3, <2>4, <2>5, <2>6, NoneAdded, OneForOne DEF ExchangeInv
<1>4. ASSUME NEW r \in Req, LoginCommit(r) \/ SsoIssue(r) PROVE ExchangeInv'
  BY <1>1, <1>4, NoneAssumption DEF LoginCommit, SsoIssue, Insert, Children, Exchanges, TypeOK
<1>5. ASSUME NEW r \in Req, RefreshCheckUser(r) \/ RefreshRevoke(r) PROVE ExchangeInv'
  BY <1>1, <1>5 DEF RefreshCheckUser, RefreshRevoke, Children, Exchanges, TypeOK
<1>6. ASSUME NEW r \in Req,
             \/ LoginRead(r) \/ LoginBackfill(r) \/ LoginResume(r)
             \/ SsoRead(r) \/ SsoCommit(r) \/ Authenticate(r)
             \/ RevokeNotFound(r) \/ LogAudit(r) \/ PoolTimeout(r) \/ DbError(r)
      PROVE  ExchangeInv'
  BY <1>1, <1>6 DEF LoginRead, LoginBackfill, LoginResume, SsoRead, SsoCommit,
     Authenticate, RevokeNotFound, LogAudit, PoolTimeout, DbError, Children, Exchanges, TypeOK
<1>7. ASSUME NEW r \in Req, LogoutCommit(r) \/ RevokeCommit(r) \/ RevokeAllCommit(r)
      PROVE  ExchangeInv'
  BY <1>1, <1>7 DEF LogoutCommit, RevokeCommit, RevokeAllCommit, Children, Exchanges, TypeOK
<1>8. ASSUME NEW r \in Req, NEW c \in Token \cup {None},
             LogoutLookup(r, c) \/ RevokeLookup(r, c) \/ RevokeAllLookup(r, c)
      PROVE  ExchangeInv'
  BY <1>1, <1>8 DEF LogoutLookup, RevokeLookup, RevokeAllLookup, Children, Exchanges, TypeOK
<1>9. ASSUME \/ \E b \in BOOLEAN : SetActive(b)
             \/ \E t \in Token : Expire(t)
             \/ Crash \/ UNCHANGED vars
      PROVE  ExchangeInv'
  BY <1>1, <1>9 DEF SetActive, Expire, Crash, vars, Children, Exchanges
<1>10. QED
  BY <1>2, <1>3, <1>4, <1>5, <1>6, <1>7, <1>8, <1>9 DEF Next, Begin, Continue

(* For every pool, a token is redeemed no more often than the pool has      *)
(* connections (/auth/refresh).                                             *)
THEOREM RedeemedWithinPoolAlways == Spec => []RedeemedWithinPool
<1>1. Init => RedemptionInv
  BY DEF Init, RedemptionInv, IssuedForRevoked
<1>2. Init => ExchangeInv
  <2> SUFFICES ASSUME Init PROVE ExchangeInv
    OBVIOUS
  <2>1. PoolBounded
    BY PoolAssumption, FS_EmptySet DEF Init, PoolBounded
  <2>2. \A p \in Token : Children(p) = {} /\ Exchanges(p) = {}
    BY NoneAssumption DEF Init, Children, Exchanges
  <2>3. QED
    BY <2>1, <2>2, PoolAssumption, FS_EmptySet DEF ExchangeInv
<1>3. TypeOK /\ TypeOK' /\ RedemptionInv /\ ExchangeInv /\ [Next]_vars => ExchangeInv'
  BY ExchangeStep
<1>4. ExchangeInv => RedeemedWithinPool
  <2> SUFFICES ASSUME ExchangeInv, NEW p \in Token
               PROVE  IsFiniteSet(Children(p)) /\ Cardinality(Children(p)) <= PoolSize
    BY DEF RedeemedWithinPool, Children
  <2>1. Cardinality(Children(p)) \in Nat /\ Cardinality(Exchanges(p)) \in Nat
    BY FiniteExchanges, FS_CardinalityType DEF ExchangeInv
  <2>2. Cardinality(Children(p)) + Cardinality(Exchanges(p)) <= PoolSize
    BY DEF ExchangeInv
  <2>3. QED
    BY <2>1, <2>2, PoolAssumption DEF ExchangeInv
<1>5. QED
  BY <1>1, <1>2, <1>3, <1>4, RedemptionStep, TypeCorrect, PTL DEF Spec

-----------------------------------------------------------------------------
(* What holds for the default pool.                                         *)

(* The inductive invariant, in addition to TypeOK and RedemptionInv: one    *)
(* transaction is open at most, what it read still holds, and a login whose *)
(* refresh is between its two commits has no other token and no other       *)
(* refresh.                                                                 *)
ReadsAreCurrent ==
    /\ \A r \in Req : pc[r] \in {"lookup", "checked"} => cookie[r] \in Unrevoked
    /\ \A r \in Req : pc[r] = "revokeAll" => loaded[r] = Unrevoked \ {cookie[r]}
FamilyIssued == \A t \in Token : family[t] # None => row[family[t]] # "absent"
RotationExclusive ==
    \A r \in Req : pc[r] = "gap" =>
        /\ \A t \in Unrevoked : family[t] # family[cookie[r]]
        /\ \A s \in Req : pc[s] = "gap" /\ family[cookie[s]] = family[cookie[r]] => s = r
        /\ \A t \in Token : parent[t] # cookie[r]
SerialInv ==
    /\ SingleTransaction
    /\ ReadsAreCurrent
    /\ FamilyIssued
    /\ RotationExclusive
    /\ OneUnrevokedPerFamily
    /\ RedeemedOnce

(* Every step keeps the invariant.  The steps that matter are the commits;  *)
(* each uses that no other request was inside a transaction (SingleTrans-   *)
(* action), so that what it read at its lookup is still so.                 *)
LEMMA SerialStep ==
    ASSUME PoolSize = 1, TypeOK, RedemptionInv, SerialInv, [Next]_vars
    PROVE  SerialInv'
<1> USE NoneAssumption DEF TypeOK, RowState, InTx, Between, dbVars, history, reqVars,
            Goto, Finish, Insert, RevokeLoaded, Unrevoked, Issued
<1>0. SingleTransaction'
  BY PoolUse, SerialStepOfPool DEF SerialInv, TypeOK
<1>1. Free => conn = {}
  BY SerialPool
<1>a. \A t \in Token : row[t] = "revoked" => row'[t] = "revoked"
  BY RevokedStays
<1> USE DEF RedemptionInv, IssuedForRevoked, SerialInv, ReadsAreCurrent, FamilyIssued,
            RotationExclusive, OneUnrevokedPerFamily, RedeemedOnce
<1>2. ASSUME NEW r \in Req, LoginRead(r) \/ SsoRead(r) \/ Authenticate(r) PROVE SerialInv'
  BY <1>0, <1>2 DEF LoginRead, SsoRead, Authenticate
<1>3. ASSUME NEW r \in Req, LoginBackfill(r) \/ LoginResume(r) \/ SsoCommit(r)
      PROVE  SerialInv'
  BY <1>0, <1>3 DEF LoginBackfill, LoginResume, SsoCommit
<1>4. ASSUME NEW r \in Req, LoginCommit(r) \/ SsoIssue(r) PROVE SerialInv'
  <2>1. \A s \in Req : pc[s] \in InTx => s = r
    BY <1>1, <1>4 DEF LoginCommit, SsoIssue, OneShot, SingleTransaction
  <2>2. PICK t \in Token : Insert(t, None, t)
    BY <1>4 DEF LoginCommit, SsoIssue
  <2>3. pc' = [pc EXCEPT ![r] = "idle"] /\ cookie' = [cookie EXCEPT ![r] = None]
        /\ loaded' = [loaded EXCEPT ![r] = {}]
    BY <1>4 DEF LoginCommit, SsoIssue
  <2>4. ReadsAreCurrent' /\ FamilyIssued'
    BY <2>1, <2>2, <2>3
  <2>5. RotationExclusive'
    BY <1>a, <2>2, <2>3
  <2>6. OneUnrevokedPerFamily' /\ RedeemedOnce'
    BY <2>2
  <2>7. QED
    BY <1>0, <2>4, <2>5, <2>6
<1>5. ASSUME NEW r \in Req, NEW t \in Token, RefreshLookup(r, t) \/ LogoutLookup(r, t)
      PROVE  SerialInv'
  BY <1>0, <1>5 DEF RefreshLookup, LogoutLookup
<1>6. ASSUME NEW r \in Req, RefreshCheckUser(r) PROVE SerialInv'
  BY <1>0, <1>6 DEF RefreshCheckUser
<1>7. ASSUME NEW r \in Req, RefreshRevoke(r) PROVE SerialInv'
  <2>1. \A s \in Req : pc[s] \in InTx => s = r
    BY <1>7 DEF RefreshRevoke, SingleTransaction
  <2>2. cookie[r] \in Token /\ cookie[r] \in Unrevoked /\ loaded[r] = {cookie[r]}
    BY <1>7 DEF RefreshRevoke
  <2>3. /\ row' = [row EXCEPT ![cookie[r]] = "revoked"]
        /\ pc' = [pc EXCEPT ![r] = "gap"]
        /\ UNCHANGED <<cookie, parent, family>>
    BY <1>7, <2>2 DEF RefreshRevoke
  <2>4. ReadsAreCurrent' /\ FamilyIssued'
    BY <2>1, <2>2, <2>3
  <2>5. \A s \in Req : pc[s] = "gap" => family[cookie[s]] # family[cookie[r]]
    BY <2>2
  <2>6. \A t \in Unrevoked' : t \in Unrevoked /\ family[t] # family[cookie[r]]
    BY <2>2, <2>3
  <2>7. \A t \in Token : parent[t] # cookie[r]
    BY <2>2
  <2>8. RotationExclusive'
    BY <2>3, <2>5, <2>6, <2>7
  <2>9. OneUnrevokedPerFamily' /\ RedeemedOnce'
    BY <2>3, <2>6
  <2>10. QED
    BY <1>0, <2>4, <2>8, <2>9
<1>8. ASSUME NEW r \in Req, RefreshIssue(r) PROVE SerialInv'
  <2>1. conn = {} /\ pc[r] = "gap" /\ cookie[r] \in Token
    BY <1>1, <1>8 DEF RefreshIssue, OneShot
  <2>2. PICK t \in Token : Insert(t, cookie[r], family[cookie[r]])
    BY <1>8 DEF RefreshIssue
  <2>3. pc' = [pc EXCEPT ![r] = "idle"] /\ cookie' = [cookie EXCEPT ![r] = None]
    BY <1>8 DEF RefreshIssue
  <2>4. ReadsAreCurrent'
    BY <2>1, <2>3
  <2>5. FamilyIssued'
    BY <2>1, <2>2
  <2>6. \A s \in Req : pc'[s] = "gap" =>
          /\ s # r /\ pc[s] = "gap" /\ cookie'[s] = cookie[s] /\ cookie[s] # t
          /\ family'[cookie[s]] = family[cookie[s]]
          /\ family[cookie[s]] # family[cookie[r]]
    BY <2>1, <2>2, <2>3
  <2>7. RotationExclusive'
    BY <2>2, <2>6
  <2>8. OneUnrevokedPerFamily'
    BY <2>1, <2>2
  <2>9. RedeemedOnce'
    BY <2>1, <2>2
  <2>10. QED
    BY <1>0, <2>4, <2>5, <2>7, <2>8, <2>9
<1>9. ASSUME NEW r \in Req, LogoutCommit(r) \/ RevokeCommit(r) \/ RevokeAllCommit(r)
      PROVE  SerialInv'
  <2>1. \A s \in Req : pc[s] \in InTx => s = r
    BY <1>9 DEF LogoutCommit, RevokeCommit, RevokeAllCommit, SingleTransaction
  <2>2. \A s \in Req : s # r => pc'[s] = pc[s] /\ cookie'[s] = cookie[s]
    BY <1>9 DEF LogoutCommit, RevokeCommit, RevokeAllCommit
  <2>3. pc'[r] \in {"idle", "audit"} /\ UNCHANGED <<parent, family>>
    BY <1>9 DEF LogoutCommit, RevokeCommit, RevokeAllCommit
  <2>4. row' = [t \in Token |-> IF t \in loaded[r] THEN "revoked" ELSE row[t]]
    BY <1>9 DEF LogoutCommit, RevokeCommit, RevokeAllCommit
  <2>5. ReadsAreCurrent'
    BY <2>1, <2>2, <2>3
  <2>6. FamilyIssued' /\ OneUnrevokedPerFamily' /\ RedeemedOnce'
    BY <2>3, <2>4
  <2>7. RotationExclusive'
    BY <2>2, <2>3, <2>4
  <2>8. QED
    BY <1>0, <2>5, <2>6, <2>7
<1>10. ASSUME NEW r \in Req, NEW c \in Token \cup {None},
              RevokeLookup(r, c) \/ RevokeAllLookup(r, c)
       PROVE  SerialInv'
  BY <1>0, <1>10 DEF RevokeLookup, RevokeAllLookup
<1>11. ASSUME NEW r \in Req,
              RevokeNotFound(r) \/ LogAudit(r) \/ PoolTimeout(r) \/ DbError(r)
       PROVE  SerialInv'
  BY <1>0, <1>11 DEF RevokeNotFound, LogAudit, PoolTimeout, DbError
<1>12. CASE \E b \in BOOLEAN : SetActive(b)
  BY <1>0, <1>12 DEF SetActive
<1>13. ASSUME NEW u \in Token, Expire(u) PROVE SerialInv'
  <2>1. row' = [row EXCEPT ![u] = "expired"] /\ row[u] = "live"
        /\ UNCHANGED <<pc, cookie, loaded, parent, family>>
    BY <1>13 DEF Expire
  <2>2. Unrevoked' = Unrevoked
    BY <2>1
  <2>3. ReadsAreCurrent' /\ FamilyIssued'
    BY <2>1, <2>2
  <2>4. RotationExclusive' /\ OneUnrevokedPerFamily' /\ RedeemedOnce'
    BY <2>1, <2>2
  <2>5. QED
    BY <1>0, <2>3, <2>4
<1>14. CASE Crash \/ UNCHANGED vars
  BY <1>0, <1>14 DEF Crash, vars
<1>15. QED
  BY <1>2, <1>3, <1>4, <1>5, <1>6, <1>7, <1>8, <1>9, <1>10, <1>11, <1>12, <1>13,
     <1>14 DEF Next, Begin, Continue

(* The three invariants together, for the default pool.                     *)
LEMMA SerialCorrect ==
    ASSUME PoolSize = 1
    PROVE  Spec => [](TypeOK /\ RedemptionInv /\ SerialInv)
<1>1. Init => TypeOK /\ RedemptionInv /\ SerialInv
  BY DEF Init, TypeOK, RowState, InTx, Between, RedemptionInv, IssuedForRevoked,
     SerialInv, SingleTransaction, ReadsAreCurrent, FamilyIssued, RotationExclusive,
     OneUnrevokedPerFamily, RedeemedOnce, Unrevoked
<1>2. TypeOK /\ RedemptionInv /\ SerialInv /\ [Next]_vars
        => (TypeOK /\ RedemptionInv /\ SerialInv)'
  BY TypeOKStep, RedemptionStep, SerialStep
<1>3. QED
  BY <1>1, <1>2, PTL DEF Spec

(* With the default pool, rotation replaces a token and never multiplies it *)
(* (/auth/refresh).                                                         *)
THEOREM OneTokenPerLogin ==
    ASSUME PoolSize = 1
    PROVE  Spec => []OneUnrevokedPerFamily
<1>1. SerialInv => OneUnrevokedPerFamily
  BY DEF SerialInv
<1>2. QED
  BY <1>1, SerialCorrect, PTL

(* With the default pool, a token is exchanged once (/auth/refresh).        *)
THEOREM NoDoubleRedemption ==
    ASSUME PoolSize = 1
    PROVE  Spec => []RedeemedOnce
<1>1. SerialInv => RedeemedOnce
  BY DEF SerialInv
<1>2. QED
  BY <1>1, SerialCorrect, PTL

(* With the default pool, a revoke-all leaves no unrevoked row but the      *)
(* caller's (revoke_all_sessions).                                          *)
THEOREM RevokeAllIsComplete ==
    ASSUME PoolSize = 1
    PROVE  Spec => RevokeAllLeavesNoOther
<1> DEFINE A == \A r \in Req : pc[r] = "revokeAll" /\ pc'[r] = "audit"
                  => \A t \in Unrevoked' : t = cookie[r]
<1>1. ASSUME TypeOK, SerialInv, Next PROVE A
  <2> SUFFICES ASSUME NEW r \in Req, pc[r] = "revokeAll", pc'[r] = "audit"
               PROVE  \A t \in Unrevoked' : t = cookie[r]
    OBVIOUS
  <2> USE DEF TypeOK, Goto, Finish, InTx, Between, dbVars, history, reqVars
  <2>1. RevokeAllCommit(r)
    <3>1. ~(\E s \in Req : Begin(s))
      BY <1>1 DEF Begin, LoginRead, SsoRead, Authenticate, RefreshLookup, LogoutLookup
    <3>2. ~(\E s \in Req : PoolTimeout(s) \/ DbError(s))
      BY <1>1 DEF PoolTimeout, DbError
    <3>3. ~Crash /\ ~(\E b \in BOOLEAN : SetActive(b)) /\ ~(\E t \in Token : Expire(t))
      BY DEF Crash, SetActive, Expire
    <3>4. PICK s \in Req : Continue(s)
      BY <1>1, <3>1, <3>2, <3>3 DEF Next
    <3>5. s = r
      BY <1>1, <3>4 DEF Continue, LoginBackfill, LoginResume, LoginCommit,
         SsoCommit, SsoIssue, RefreshCheckUser, RefreshRevoke, RefreshIssue, LogoutCommit, RevokeLookup,
         RevokeAllLookup, RevokeNotFound, RevokeCommit, RevokeAllCommit, LogAudit
    <3>6. QED
      BY <1>1, <3>4, <3>5 DEF Continue, LoginBackfill, LoginResume, LoginCommit,
         SsoCommit, SsoIssue, RefreshCheckUser, RefreshRevoke, RefreshIssue, LogoutCommit, RevokeLookup,
         RevokeAllLookup, RevokeNotFound, RevokeCommit, LogAudit
  <2>2. loaded[r] = Unrevoked \ {cookie[r]}
    BY <1>1 DEF SerialInv, ReadsAreCurrent
  <2>3. QED
    BY <2>1, <2>2 DEF RevokeAllCommit, RevokeLoaded, Unrevoked
<1>2. TypeOK /\ SerialInv /\ [Next]_vars => [A]_vars
  BY <1>1
<1>3. QED
  BY <1>2, SerialCorrect, PTL DEF Spec, RevokeAllLeavesNoOther

-----------------------------------------------------------------------------
(* The refinement of SessionFamily, for the default pool.                   *)

\* A token belongs to a login from the time it is issued, a login is named by
\* its first token, and only rows that exist are loaded.
FamilyInv ==
    /\ \A t \in Token : row[t] = "absent" <=> family[t] = None
    /\ \A t \in Token : family[t] # None => family[family[t]] = family[t]
    /\ \A r \in Req : loaded[r] \subseteq Issued

(* Every step keeps it (every handler of the model).                        *)
LEMMA FamilyStep == TypeOK /\ RedemptionInv /\ FamilyInv /\ [Next]_vars => FamilyInv'
<1> SUFFICES ASSUME TypeOK, RedemptionInv, FamilyInv, [Next]_vars PROVE FamilyInv'
  OBVIOUS
<1> USE NoneAssumption DEF TypeOK, FamilyInv, RowState, dbVars, history, reqVars,
            Goto, Finish, RevokeLoaded, Issued
<1>1. ASSUME NEW r \in Req, LoginCommit(r) \/ SsoIssue(r) PROVE FamilyInv'
  BY <1>1 DEF LoginCommit, SsoIssue, Insert
<1>2. ASSUME NEW r \in Req, RefreshIssue(r) PROVE FamilyInv'
  <2>1. row[cookie[r]] = "revoked" /\ cookie[r] \in Token
    BY <1>2 DEF RefreshIssue, RedemptionInv
  <2>2. family[cookie[r]] \in Token
    BY <2>1
  <2>3. PICK t \in Token : Insert(t, cookie[r], family[cookie[r]])
    BY <1>2 DEF RefreshIssue
  <2>4. family[family[cookie[r]]] = family[cookie[r]] /\ family[cookie[r]] # t
    BY <2>1, <2>2, <2>3 DEF Insert
  <2>5. QED
    BY <1>2, <2>1, <2>2, <2>3, <2>4 DEF RefreshIssue, Insert
<1>3. ASSUME NEW r \in Req, LoginRead(r) \/ SsoRead(r) \/ Authenticate(r) PROVE FamilyInv'
  BY <1>3 DEF LoginRead, SsoRead, Authenticate
<1>4. ASSUME NEW r \in Req, NEW t \in Token, RefreshLookup(r, t) \/ LogoutLookup(r, t)
      PROVE  FamilyInv'
  BY <1>4 DEF RefreshLookup, LogoutLookup, Unrevoked
<1>5. ASSUME NEW r \in Req, \/ LoginBackfill(r) \/ LoginResume(r)
                            \/ SsoCommit(r) \/ RefreshCheckUser(r)
      PROVE  FamilyInv'
  BY <1>5 DEF LoginBackfill, LoginResume, SsoCommit, RefreshCheckUser
<1>6. ASSUME NEW r \in Req, RefreshRevoke(r) \/ LogoutCommit(r)
      PROVE  FamilyInv'
  BY <1>6 DEF RefreshRevoke, LogoutCommit
<1>7. ASSUME NEW r \in Req, RevokeCommit(r) \/ RevokeAllCommit(r)
      PROVE  FamilyInv'
  BY <1>7 DEF RevokeCommit, RevokeAllCommit
<1>8. ASSUME NEW r \in Req, NEW c \in Token \cup {None},
             RevokeLookup(r, c) \/ RevokeAllLookup(r, c)
      PROVE  FamilyInv'
  BY <1>8 DEF RevokeLookup, RevokeAllLookup, Unrevoked
<1>9. ASSUME NEW r \in Req,
             RevokeNotFound(r) \/ LogAudit(r) \/ PoolTimeout(r) \/ DbError(r)
      PROVE  FamilyInv'
  BY <1>9 DEF RevokeNotFound, LogAudit, PoolTimeout, DbError
<1>10. CASE \/ \E b \in BOOLEAN : SetActive(b)
            \/ \E u \in Token : Expire(u)
  BY <1>10 DEF SetActive, Expire
<1>11. CASE Crash \/ UNCHANGED vars
  BY <1>11 DEF Crash, vars
<1>12. QED
  BY <1>1, <1>2, <1>3, <1>4, <1>5, <1>6, <1>7, <1>8, <1>9, <1>10, <1>11
     DEF Next, Begin, Continue

\* What the mapping looks at: the logins, their unrevoked tokens, and those
\* with a refresh between its two commits.
Logins   == {f \in Token : family[f] = f}
Members  == [f \in Token |-> UnrevokedOf(f)]
Rotating == {f \in Token : \E r \in Req : pc[r] = "gap" /\ family[cookie[r]] = f}

PhaseOf(born, members, rotating) ==
    IF ~born THEN "unborn"
    ELSE IF members # {} THEN "live"
    ELSE IF rotating THEN "rotating"
    ELSE "ended"

CurrentOf(members) == IF members # {} THEN CHOOSE t \in members : TRUE ELSE None

(* The mapping of RefreshRotation in these terms ...                        *)
LEMMA MapNow ==
    /\ phaseMap = [f \in Token |-> PhaseOf(f \in Logins, Members[f], f \in Rotating)]
    /\ currentMap = [f \in Token |-> CurrentOf(Members[f])]
BY DEF phaseMap, currentMap, PhaseOf, CurrentOf, Logins, Members, Rotating

(* ... and after a step.                                                    *)
LEMMA MapNext ==
    /\ phaseMap' = [f \in Token |-> PhaseOf(f \in Logins', Members'[f], f \in Rotating')]
    /\ currentMap' = [f \in Token |-> CurrentOf(Members'[f])]
BY DEF phaseMap, currentMap, PhaseOf, CurrentOf, Logins, Members, Rotating

(* A login with one unrevoked token has it as its current one.              *)
LEMMA CurrentOne == CurrentOf({}) = None /\ \A t : CurrentOf({t}) = t
BY DEF CurrentOf

\* A login has tokens, is between two of them, or neither.
Disjoint ==
    /\ \A f \in Token : Members[f] # {} => f \in Logins /\ f \notin Rotating
    /\ Rotating \subseteq Logins

(* The invariants say so (the refresh revokes before it issues).            *)
LEMMA DisjointHolds ==
    ASSUME TypeOK, RedemptionInv, SerialInv, FamilyInv
    PROVE  Disjoint
<1> USE NoneAssumption DEF TypeOK
<1>1. ASSUME NEW f \in Token, NEW t \in UnrevokedOf(f) PROVE f \in Logins /\ f \notin Rotating
  <2>1. t \in Token /\ t \in Unrevoked /\ family[t] = f /\ row[t] # "absent"
    BY DEF UnrevokedOf, Unrevoked
  <2>2. f \in Logins
    BY <2>1 DEF FamilyInv, Logins
  <2>3. f \notin Rotating
    BY <2>1 DEF Rotating, SerialInv, RotationExclusive
  <2>4. QED
    BY <2>2, <2>3
<1>2. ASSUME NEW r \in Req, pc[r] = "gap" PROVE family[cookie[r]] \in Logins
  <2>1. cookie[r] \in Token /\ row[cookie[r]] = "revoked"
    BY <1>2 DEF RedemptionInv
  <2>2. QED
    BY <2>1 DEF FamilyInv, Logins
<1>3. QED
  BY <1>1, <1>2 DEF Disjoint, Members, Rotating

(* A step after which some logins have lost their tokens or their refresh,  *)
(* and nothing else has changed, ends those logins or none (logout,         *)
(* revocation, errors, a restart).                                          *)
LEMMA Ending ==
    ASSUME Disjoint, Logins' = Logins, Issued' = Issued, Rotating' \subseteq Rotating,
           \A f \in Token : Members'[f] \in {Members[f], {}}
    PROVE  [Families!Next]_(Families!vars)
<1> DEFINE S == {f \in Token : Members'[f] # Members[f]} \cup (Rotating \ Rotating')
<1>1. S \subseteq Token
  BY DEF Rotating
<1>2. ASSUME NEW f \in S
      PROVE  /\ PhaseOf(f \in Logins, Members[f], f \in Rotating) \in {"live", "rotating"}
             /\ PhaseOf(f \in Logins', Members'[f], f \in Rotating') = "ended"
             /\ CurrentOf(Members'[f]) = None
  <2>1. f \in Token /\ f \in Logins /\ Members'[f] = {} /\ f \notin Rotating'
    BY <1>1 DEF Disjoint, Rotating
  <2>2. Members[f] # {} \/ f \in Rotating
    BY <2>1
  <2>3. QED
    BY <2>1, <2>2, CurrentOne DEF PhaseOf
<1>3. ASSUME NEW f \in Token, f \notin S
      PROVE  /\ PhaseOf(f \in Logins', Members'[f], f \in Rotating')
                  = PhaseOf(f \in Logins, Members[f], f \in Rotating)
             /\ CurrentOf(Members'[f]) = CurrentOf(Members[f])
  <2>1. Members'[f] = Members[f] /\ (f \in Rotating' <=> f \in Rotating)
    BY <1>3
  <2>2. QED
    BY <2>1 DEF PhaseOf
<1>4. CASE S = {}
  <2>1. phaseMap' = phaseMap /\ currentMap' = currentMap
    BY <1>3, <1>4, MapNow, MapNext
  <2>2. QED
    BY <2>1 DEF Families!vars
<1>5. CASE S # {}
  <2>1. \A f \in S : phaseMap[f] \in {"live", "rotating"}
    BY <1>1, <1>2, MapNow
  <2>2. phaseMap' = [f \in Token |-> IF f \in S THEN "ended" ELSE phaseMap[f]]
    BY <1>2, <1>3, MapNow, MapNext
  <2>3. currentMap' = [f \in Token |-> IF f \in S THEN None ELSE currentMap[f]]
    BY <1>2, <1>3, MapNow, MapNext
  <2> HIDE DEF S
  <2>4. Families!End(S)
    BY <1>5, <2>1, <2>2, <2>3 DEF Families!End
  <2>5. QED
    BY <1>1, <2>4 DEF Families!Next
<1>6. QED
  BY <1>4, <1>5

(* The first commit of a refresh retires the current token of its login     *)
(* (/auth/refresh, "Revoke old token").                                     *)
LEMMA Retiring ==
    ASSUME TypeOK, RedemptionInv, SerialInv, FamilyInv, NEW r \in Req, RefreshRevoke(r)
    PROVE  Families!Next
<1> DEFINE f == family[cookie[r]]
<1> USE NoneAssumption DEF TypeOK
<1>1. /\ pc[r] = "checked" /\ cookie[r] \in Token /\ cookie[r] \in Unrevoked
      /\ loaded[r] = {cookie[r]}
  BY DEF RefreshRevoke, SerialInv, ReadsAreCurrent, RedemptionInv
<1>2. /\ row' = [row EXCEPT ![cookie[r]] = "revoked"]
      /\ pc' = [pc EXCEPT ![r] = "gap"]
      /\ UNCHANGED <<cookie, parent, family>>
  BY <1>1 DEF RefreshRevoke, RevokeLoaded, Goto, history
<1>3. f \in Token /\ family[f] = f /\ f \in Logins
  BY <1>1 DEF FamilyInv, Logins, Unrevoked
<1>4. UnrevokedOf(f) = {cookie[r]}
  BY <1>1 DEF UnrevokedOf, SerialInv, OneUnrevokedPerFamily
<1>5. Members[f] = {cookie[r]}
  BY <1>3, <1>4 DEF Members
<1>6. f \notin Rotating
  BY <1>3, <1>5, DisjointHolds DEF Disjoint
<1>7. Logins' = Logins /\ Issued' = Issued
  BY <1>1, <1>2 DEF Logins, Issued, Unrevoked, RowState
<1>8. Rotating' = Rotating \cup {f}
  BY <1>1, <1>2, <1>3 DEF Rotating
<1>9. Unrevoked' = Unrevoked \ {cookie[r]}
  BY <1>1, <1>2 DEF Unrevoked
<1>10. Members' = [Members EXCEPT ![f] = {}]
  BY <1>2, <1>3, <1>4, <1>9 DEF Members, UnrevokedOf
<1> HIDE DEF f
<1>11. phaseMap[f] = "live"
  BY <1>3, <1>5, MapNow DEF PhaseOf
<1>12. ASSUME NEW g \in Token, g # f
       PROVE  /\ PhaseOf(g \in Logins', Members'[g], g \in Rotating')
                   = PhaseOf(g \in Logins, Members[g], g \in Rotating)
              /\ CurrentOf(Members'[g]) = CurrentOf(Members[g])
  <2>1. Members'[g] = Members[g] /\ (g \in Logins' <=> g \in Logins)
        /\ (g \in Rotating' <=> g \in Rotating)
    BY <1>7, <1>8, <1>10, <1>12 DEF Members
  <2>2. QED
    BY <2>1 DEF PhaseOf
<1>13. PhaseOf(f \in Logins', Members'[f], f \in Rotating') = "rotating"
  BY <1>3, <1>7, <1>8, <1>10 DEF PhaseOf, Members
<1>14. CurrentOf(Members'[f]) = None
  BY <1>3, <1>10, CurrentOne DEF Members
<1>15. phaseMap' = [phaseMap EXCEPT ![f] = "rotating"]
  BY <1>3, <1>12, <1>13, MapNow, MapNext
<1>16. currentMap' = [currentMap EXCEPT ![f] = None]
  BY <1>3, <1>12, <1>14, MapNow, MapNext
<1>17. Families!Retire(f)
  BY <1>7, <1>11, <1>15, <1>16 DEF Families!Retire
<1>18. QED
  BY <1>3, <1>17 DEF Families!Next

(* The second commit issues the login's next token (/auth/refresh, "Issue   *)
(* new tokens").                                                            *)
LEMMA Reissuing ==
    ASSUME TypeOK, RedemptionInv, SerialInv, FamilyInv, NEW r \in Req, RefreshIssue(r)
    PROVE  Families!Next
<1> DEFINE f == family[cookie[r]]
<1> USE NoneAssumption DEF TypeOK
<1>1. /\ pc[r] = "gap" /\ cookie[r] \in Token /\ row[cookie[r]] = "revoked"
      /\ pc' = [pc EXCEPT ![r] = "idle"] /\ cookie' = [cookie EXCEPT ![r] = None]
  BY DEF RefreshIssue, RedemptionInv, Finish
<1>2. PICK t \in Token : /\ row[t] = "absent"
                         /\ row' = [row EXCEPT ![t] = "live"]
                         /\ family' = [family EXCEPT ![t] = f]
  BY DEF RefreshIssue, Insert
<1>3. f \in Token /\ family[f] = f /\ f \in Logins /\ f \in Rotating
  BY <1>1 DEF FamilyInv, Logins, Rotating
<1>4. family[t] = None /\ t # f /\ t \notin Issued /\ t \notin Unrevoked
  BY <1>2, <1>3 DEF FamilyInv, Issued, Unrevoked
<1>5. Members[f] = {}
  BY <1>3, DisjointHolds DEF Disjoint
<1>6. Logins' = Logins
  BY <1>2, <1>3, <1>4 DEF Logins
<1>7. Issued' = Issued \cup {t}
  BY <1>2 DEF Issued
<1>8. Rotating' = Rotating \ {f}
  <2>1. ASSUME NEW g \in Token, NEW s \in Req, s # r, pc[s] = "gap", family[cookie[s]] = g
        PROVE  g # f /\ g \in Rotating'
    <3>1. cookie[s] \in Token /\ cookie[s] # t
      BY <1>2, <2>1 DEF RedemptionInv
    <3>2. g # f
      BY <1>1, <2>1 DEF SerialInv, RotationExclusive
    <3>3. pc'[s] = "gap" /\ cookie'[s] = cookie[s] /\ family'[cookie[s]] = g
      BY <1>1, <1>2, <2>1, <3>1
    <3>4. QED
      BY <2>1, <3>2, <3>3 DEF Rotating
  <2>2. ASSUME NEW g \in Rotating', g \notin Rotating \ {f} PROVE FALSE
    <3>1. PICK s \in Req : pc'[s] = "gap" /\ family'[cookie'[s]] = g
      BY <2>2 DEF Rotating
    <3>2. s # r /\ pc[s] = "gap" /\ cookie'[s] = cookie[s] /\ cookie[s] \in Token
          /\ row[cookie[s]] = "revoked"
      BY <1>1, <3>1 DEF RedemptionInv
    <3>3. family[cookie[s]] = g /\ g \in Token
      BY <1>2, <2>2, <3>1, <3>2 DEF Rotating
    <3>4. QED
      BY <2>1, <2>2, <3>2, <3>3 DEF Rotating
  <2>3. ASSUME NEW g \in Rotating \ {f} PROVE g \in Rotating'
    <3>1. PICK s \in Req : pc[s] = "gap" /\ family[cookie[s]] = g
      BY DEF Rotating
    <3>2. s # r /\ g \in Token
      BY <3>1 DEF Rotating
    <3>3. QED
      BY <2>1, <3>1, <3>2
  <2>4. QED
    BY <2>2, <2>3
<1>9. Unrevoked' = Unrevoked \cup {t}
  BY <1>2 DEF Unrevoked
<1>10. Members' = [Members EXCEPT ![f] = {t}]
  <2>1. UnrevokedOf(f) = {}
    BY <1>3, <1>5 DEF Members
  <2>2. \A u \in Token : u # t => family'[u] = family[u]
    BY <1>2
  <2>3. family'[t] = f
    BY <1>2
  <2>4. \A g \in Token : {u \in Unrevoked' : family'[u] = g}
                           = IF g = f THEN {t} ELSE UnrevokedOf(g)
    BY <1>4, <1>9, <2>1, <2>2, <2>3 DEF UnrevokedOf, Unrevoked
  <2>5. QED
    BY <2>4 DEF Members, UnrevokedOf
<1> HIDE DEF f
<1>11. phaseMap[f] = "rotating"
  BY <1>3, <1>5, MapNow DEF PhaseOf
<1>12. ASSUME NEW g \in Token, g # f
       PROVE  /\ PhaseOf(g \in Logins', Members'[g], g \in Rotating')
                   = PhaseOf(g \in Logins, Members[g], g \in Rotating)
              /\ CurrentOf(Members'[g]) = CurrentOf(Members[g])
  <2>1. Members'[g] = Members[g] /\ (g \in Logins' <=> g \in Logins)
        /\ (g \in Rotating' <=> g \in Rotating)
    BY <1>6, <1>8, <1>10, <1>12 DEF Members
  <2>2. QED
    BY <2>1 DEF PhaseOf
<1>13. PhaseOf(f \in Logins', Members'[f], f \in Rotating') = "live"
  BY <1>3, <1>6, <1>10 DEF PhaseOf, Members
<1>14. CurrentOf(Members'[f]) = t
  BY <1>3, <1>10, CurrentOne DEF Members
<1>15. phaseMap' = [phaseMap EXCEPT ![f] = "live"]
  BY <1>3, <1>12, <1>13, MapNow, MapNext
<1>16. currentMap' = [currentMap EXCEPT ![f] = t]
  BY <1>3, <1>12, <1>14, MapNow, MapNext
<1>17. Families!Reissue(f, t)
  BY <1>4, <1>7, <1>11, <1>15, <1>16 DEF Families!Reissue
<1>18. QED
  BY <1>2, <1>3, <1>17 DEF Families!Next

(* A login begins a session with its first token (/auth/login, the OAuth    *)
(* callback).                                                               *)
LEMMA Beginning ==
    ASSUME TypeOK, RedemptionInv, SerialInv, FamilyInv, NEW r \in Req,
           LoginCommit(r) \/ SsoIssue(r)
    PROVE  Families!Next
<1> USE NoneAssumption DEF TypeOK
<1>1. PICK t \in Token : /\ row[t] = "absent"
                         /\ row' = [row EXCEPT ![t] = "live"]
                         /\ family' = [family EXCEPT ![t] = t]
  BY DEF LoginCommit, SsoIssue, Insert
<1>2. /\ pc' = [pc EXCEPT ![r] = "idle"] /\ cookie' = [cookie EXCEPT ![r] = None]
      /\ pc[r] \in {"login", "ssoGap"}
  BY DEF LoginCommit, SsoIssue, Finish
<1>3. family[t] = None /\ t \notin Issued /\ t \notin Unrevoked /\ t \notin Logins
  BY <1>1 DEF FamilyInv, Issued, Unrevoked, Logins
<1>4. \A u \in Token : family[u] # t
  BY <1>3 DEF FamilyInv
<1>5. Logins' = Logins \cup {t}
  BY <1>1 DEF Logins
<1>6. Issued' = Issued \cup {t}
  BY <1>1 DEF Issued
<1>7. Rotating' = Rotating
  <2>1. \A s \in Req : pc[s] = "gap" => cookie[s] \in Token /\ cookie[s] # t /\ s # r
    BY <1>1, <1>2 DEF RedemptionInv
  <2>2. \A s \in Req : pc'[s] = "gap" <=> pc[s] = "gap"
    BY <1>2
  <2>3. \A s \in Req : pc[s] = "gap" => family'[cookie'[s]] = family[cookie[s]]
    BY <1>1, <1>2, <2>1
  <2>4. QED
    BY <2>2, <2>3 DEF Rotating
<1>8. Unrevoked' = Unrevoked \cup {t}
  BY <1>1 DEF Unrevoked
<1>9. Members' = [Members EXCEPT ![t] = {t}]
  <2>1. \A g \in Token : {u \in Unrevoked' : family'[u] = g}
                           = IF g = t THEN {t} ELSE UnrevokedOf(g)
    BY <1>1, <1>3, <1>4, <1>8 DEF UnrevokedOf, Unrevoked
  <2>2. QED
    BY <2>1 DEF Members, UnrevokedOf
<1>10. ASSUME NEW g \in Token, g # t
       PROVE  /\ PhaseOf(g \in Logins', Members'[g], g \in Rotating')
                   = PhaseOf(g \in Logins, Members[g], g \in Rotating)
              /\ CurrentOf(Members'[g]) = CurrentOf(Members[g])
  <2>1. Members'[g] = Members[g] /\ (g \in Logins' <=> g \in Logins)
        /\ (g \in Rotating' <=> g \in Rotating)
    BY <1>5, <1>7, <1>9, <1>10 DEF Members
  <2>2. QED
    BY <2>1 DEF PhaseOf
<1>11. PhaseOf(t \in Logins', Members'[t], t \in Rotating') = "live"
  <2>1. Members'[t] = {t} /\ t \in Logins'
    BY <1>5, <1>9 DEF Members
  <2>2. QED
    BY <2>1 DEF PhaseOf
<1>12. CurrentOf(Members'[t]) = t
  BY <1>9, CurrentOne DEF Members
<1>13. phaseMap' = [phaseMap EXCEPT ![t] = "live"]
  BY <1>10, <1>11, MapNow, MapNext
<1>14. currentMap' = [currentMap EXCEPT ![t] = t]
  BY <1>10, <1>12, MapNow, MapNext
<1>15. Families!BeginSession(t)
  BY <1>3, <1>6, <1>13, <1>14 DEF Families!BeginSession
<1>16. QED
  BY <1>15 DEF Families!Next

(* Every other step ends logins or none.                                    *)
LEMMA Others ==
    ASSUME TypeOK, RedemptionInv, SerialInv, FamilyInv, [Next]_vars,
           \A r \in Req : /\ ~LoginCommit(r) /\ ~SsoIssue(r)
                          /\ ~RefreshRevoke(r) /\ ~RefreshIssue(r)
    PROVE  [Families!Next]_(Families!vars)
<1> USE NoneAssumption DEF TypeOK, RowState, dbVars, history, reqVars, Goto, Finish
<1> DEFINE Quiet == /\ UNCHANGED family
                    /\ \A t \in Token : row'[t] = "absent" <=> row[t] = "absent"
                    /\ \A s \in Req : pc'[s] = "gap" => pc[s] = "gap" /\ cookie'[s] = cookie[s]
                    /\ \/ Unrevoked' = Unrevoked
                       \/ \E s \in Req : Unrevoked' = Unrevoked \ loaded[s]
<1>1. ASSUME NEW r \in Req, Begin(r) PROVE Quiet
  BY <1>1 DEF Begin, LoginRead, SsoRead, Authenticate, RefreshLookup, LogoutLookup, Unrevoked
<1>2. ASSUME NEW r \in Req,
             \/ LoginBackfill(r) \/ LoginResume(r) \/ SsoCommit(r) \/ RefreshCheckUser(r)
             \/ RevokeNotFound(r) \/ LogAudit(r) \/ PoolTimeout(r) \/ DbError(r)
      PROVE  Quiet
  BY <1>2 DEF LoginBackfill, LoginResume, SsoCommit, RefreshCheckUser, RevokeNotFound,
     LogAudit, PoolTimeout, DbError, Unrevoked
<1>3. ASSUME NEW r \in Req, NEW c \in Token \cup {None},
             RevokeLookup(r, c) \/ RevokeAllLookup(r, c)
      PROVE  Quiet
  BY <1>3 DEF RevokeLookup, RevokeAllLookup, Unrevoked
<1>4. ASSUME NEW r \in Req, LogoutCommit(r) \/ RevokeCommit(r) \/ RevokeAllCommit(r)
      PROVE  Quiet
  <2>1. row' = [t \in Token |-> IF t \in loaded[r] THEN "revoked" ELSE row[t]]
    BY <1>4 DEF LogoutCommit, RevokeCommit, RevokeAllCommit, RevokeLoaded
  <2>2. loaded[r] \subseteq Issued
    BY DEF FamilyInv
  <2>3. UNCHANGED family /\ (\A s \in Req : pc'[s] = "gap" => pc[s] = "gap" /\ cookie'[s] = cookie[s])
    BY <1>4 DEF LogoutCommit, RevokeCommit, RevokeAllCommit
  <2>4. Unrevoked' = Unrevoked \ loaded[r]
    BY <2>1 DEF Unrevoked
  <2>5. QED
    BY <2>1, <2>2, <2>3, <2>4 DEF Issued
<1>5. ASSUME NEW b \in BOOLEAN, SetActive(b) PROVE Quiet
  BY <1>5 DEF SetActive, Unrevoked
<1>6. ASSUME NEW u \in Token, Expire(u) PROVE Quiet
  BY <1>6 DEF Expire, Unrevoked
<1>7. ASSUME Crash \/ UNCHANGED vars PROVE Quiet
  BY <1>7 DEF Crash, vars, Unrevoked
<1>8. Quiet
  <2> HIDE DEF Quiet
  <2>1. QED
    BY <1>1, <1>2, <1>3, <1>4, <1>5, <1>6, <1>7 DEF Next, Continue
<1>9. Logins' = Logins /\ Issued' = Issued
  BY <1>8 DEF Logins, Issued
<1>10. Rotating' \subseteq Rotating
  BY <1>8 DEF Rotating
<1>11. ASSUME NEW f \in Token PROVE Members'[f] \in {Members[f], {}}
  <2>1. \A t, u \in UnrevokedOf(f) : t = u
    BY DEF UnrevokedOf, SerialInv, OneUnrevokedPerFamily
  <2>2. {t \in Unrevoked' : family'[t] = f} \subseteq UnrevokedOf(f)
    BY <1>8 DEF UnrevokedOf
  <2>3. {t \in Unrevoked' : family'[t] = f} \in {UnrevokedOf(f), {}}
    BY <2>1, <2>2
  <2>4. QED
    BY <2>3 DEF Members, UnrevokedOf
<1>12. QED
  BY <1>9, <1>10, <1>11, DisjointHolds, Ending

(* With the default pool, each login lives as SessionFamily says (every     *)
(* handler of the model).                                                   *)
THEOREM ImplementsFamilies ==
    ASSUME PoolSize = 1
    PROVE  Spec => ImplementsSessionFamily
<1>1. Init => FamilyInv /\ Families!Init
  <2> SUFFICES ASSUME Init PROVE FamilyInv /\ Families!Init
    OBVIOUS
  <2>1. FamilyInv
    BY NoneAssumption DEF Init, FamilyInv
  <2>2. Logins = {} /\ Issued = {} /\ \A f \in Token : Members[f] = {}
    BY NoneAssumption DEF Init, Logins, Issued, Members, UnrevokedOf, Unrevoked
  <2>3. Families!Init
    BY <2>2, MapNow, CurrentOne DEF PhaseOf, Families!Init
  <2>4. QED
    BY <2>1, <2>3
<1>2. TypeOK /\ RedemptionInv /\ FamilyInv /\ [Next]_vars => FamilyInv'
  BY FamilyStep
<1>3. TypeOK /\ RedemptionInv /\ SerialInv /\ FamilyInv /\ [Next]_vars
        => [Families!Next]_(Families!vars)
  BY Beginning, Retiring, Reissuing, Others
<1>4. QED
  BY <1>1, <1>2, <1>3, SerialCorrect, PTL DEF Spec, ImplementsSessionFamily, Families!Spec

(* What SessionFamily promises is enough, whatever made it true: a token    *)
(* that a login comes to hold is new, so that one that was exchanged or     *)
(* revoked never returns (/auth/refresh, revoke_session).                   *)
THEOREM FamiliesReviveNoToken ==
    ImplementsSessionFamily =>
        [][\A f \in Token : currentMap'[f] \notin {currentMap[f], None}
              => currentMap'[f] \in Issued' \ Issued]_<<currentMap, Issued>>
<1> DEFINE NotRevived ==
      \A f \in Token : currentMap'[f] \notin {currentMap[f], None}
         => currentMap'[f] \in Issued' \ Issued
<1>1. DOMAIN currentMap = Token
  BY DEF currentMap
<1>2. ASSUME NEW f \in Token, Families!BeginSession(f) PROVE NotRevived
  BY <1>1, <1>2 DEF Families!BeginSession
<1>3. ASSUME NEW f \in Token, Families!Retire(f) PROVE NotRevived
  BY <1>1, <1>3 DEF Families!Retire
<1>4. ASSUME NEW f \in Token, NEW t \in Token, Families!Reissue(f, t) PROVE NotRevived
  BY <1>1, <1>4 DEF Families!Reissue
<1>5. ASSUME NEW S \in SUBSET Token, Families!End(S) PROVE NotRevived
  BY <1>5 DEF Families!End
<1>6. ASSUME UNCHANGED Families!vars PROVE NotRevived
  BY <1>6 DEF Families!vars
<1>7. [Families!Next]_(Families!vars) => [NotRevived]_<<currentMap, Issued>>
  BY <1>2, <1>3, <1>4, <1>5, <1>6 DEF Families!Next
<1>8. QED
  BY <1>7, PTL DEF ImplementsSessionFamily, Families!Spec
=============================================================================
