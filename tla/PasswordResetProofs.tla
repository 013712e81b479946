------------------------ MODULE PasswordResetProofs ------------------------
(***************************************************************************)
(* Proofs about PasswordReset, for any requests and tokens.  For every     *)
(* pool: the types, and that a link sets the password no more often, and   *)
(* that no more links are open at once, than there are connections.  For   *)
(* the default pool of one connection: that only the newest link a user    *)
(* asked for is open, that a link sets the password once, and never that   *)
(* of a blocked user, and that each step is a step of ResetLink or a       *)
(* stutter of it.                                                          *)
(***************************************************************************)
EXTENDS PasswordReset, DbPoolProofs

(* All a step does to the pool (every handler of the model).                *)
LEMMA PoolUse ==
    ASSUME [Next]_vars
    PROVE  \/ \E r \in Req : Checkout(r) \/ Return(r)
           \/ UNCHANGED conn
           \/ conn' = {}
<1> USE DEF OneShot
<1>1. ASSUME NEW r \in Req, Begin(r) PROVE Checkout(r) \/ UNCHANGED conn
  BY <1>1 DEF Begin, ForgotRead, OwnerRead, ResetLookup, ResetRefused
<1>2. ASSUME NEW r \in Req, Continue(r) \/ DbError(r) PROVE Return(r) \/ UNCHANGED conn
  BY <1>2 DEF Continue, ForgotCommit, OwnerCommit, Issue, Mail, ResetCheckUser,
     ResetCommit, DbError
<1>3. ASSUME \/ \E b \in BOOLEAN : SetActive(b)
             \/ \E t \in Token : Expire(t)
             \/ Crash \/ UNCHANGED vars
      PROVE  UNCHANGED conn \/ conn' = {}
  BY <1>3 DEF SetActive, Expire, Crash, vars
<1>4. QED
  BY <1>1, <1>2, <1>3 DEF Next

(* The end of a handler keeps the types of the requests (Finish).           *)
LEMMA FinishTypes ==
    ASSUME TypeOK, NEW r \in Req, Finish(r)
    PROVE  /\ pc'     \in [Req -> {"idle", "mail"} \cup InTx]
           /\ tok'    \in [Req -> Token \cup {None}]
           /\ loaded' \in [Req -> SUBSET Token]
           /\ conn = {s \in Req : pc[s] \in InTx}
           /\ Return(r) => conn' = {s \in Req : pc'[s] \in InTx}
           /\ pc[r] \notin InTx => conn = {s \in Req : pc'[s] \in InTx}
           /\ \A s \in Req : pc'[s] \in {"found", "checked", "mail"} => tok'[s] \in Token
BY DEF TypeOK, Finish, Return, InTx

(* Every step keeps the types (every handler of the model).                 *)
LEMMA TypeOKStep == TypeOK /\ [Next]_vars => TypeOK'
<1> SUFFICES ASSUME TypeOK, [Next]_vars PROVE TypeOK'
  OBVIOUS
<1> USE DEF rowVars, history, reqVars, InTx, RowState
<1>1. ASSUME NEW r \in Req, Begin(r) PROVE TypeOK'
  <2>1. CASE ForgotRead(r) \/ OwnerRead(r)
    BY <2>1 DEF ForgotRead, OwnerRead, Checkout, Goto, Unused, TypeOK
  <2>2. CASE \E t \in Token : ResetLookup(r, t)
    BY <2>2 DEF ResetLookup, Checkout, Goto, TypeOK
  <2>3. CASE \E t \in Token : ResetRefused(r, t)
    BY <2>3 DEF ResetRefused, OneShot, TypeOK
  <2>4. QED
    BY <1>1, <2>1, <2>2, <2>3 DEF Begin
<1>2. ASSUME NEW r \in Req, NEW t \in Token, NEW S \in SUBSET Token,
             NEW how \in {"sha256", "salted"}, Issue(r, t, S, how),
             latest' \in Token \cup {None}, UNCHANGED <<active, mailed, uses, refused>>
      PROVE  TypeOK'
  BY <1>2 DEF Issue, Goto, Return, TypeOK
<1>3. ASSUME NEW r \in Req, ForgotCommit(r) \/ OwnerCommit(r) PROVE TypeOK'
  <2>1. loaded[r] \in SUBSET Token /\ latest \in Token \cup {None}
    BY DEF TypeOK
  <2>2. QED
    BY <1>2, <1>3, <2>1 DEF ForgotCommit, OwnerCommit
<1>4. ASSUME NEW r \in Req, Mail(r) PROVE TypeOK'
  <2>1. mailed' \in SUBSET Token
    BY <1>4 DEF Mail, TypeOK
  <2>2. QED
    BY <1>4, <2>1, FinishTypes DEF Mail, TypeOK
<1>5. ASSUME NEW r \in Req, ResetCheckUser(r) PROVE TypeOK'
  <2>1. CASE active /\ Goto(r, "checked") /\ UNCHANGED <<tok, loaded, conn>>
    BY <1>5, <2>1 DEF ResetCheckUser, Goto, TypeOK
  <2>2. CASE Finish(r) /\ Return(r)
    BY <1>5, <2>2, FinishTypes DEF ResetCheckUser, TypeOK
  <2>3. QED
    BY <1>5, <2>1, <2>2 DEF ResetCheckUser
<1>6. ASSUME NEW r \in Req, ResetCommit(r) PROVE TypeOK'
  <2>1. tok[r] \in Token /\ uses' \in [Token -> Nat] /\ row' \in [Token -> RowState]
    BY <1>6 DEF ResetCommit, TypeOK
  <2>2. QED
    BY <1>6, <2>1, FinishTypes DEF ResetCommit, TypeOK
<1>7. ASSUME NEW r \in Req, DbError(r) PROVE TypeOK'
  BY <1>7, FinishTypes DEF DbError, TypeOK
<1>8. ASSUME \/ \E b \in BOOLEAN : SetActive(b)
             \/ \E t \in Token : Expire(t)
             \/ UNCHANGED vars
      PROVE  TypeOK'
  BY <1>8 DEF SetActive, Expire, OneShot, vars, TypeOK
<1>9. CASE Crash
  BY <1>9 DEF Crash, TypeOK
<1>10. QED
  BY <1>1, <1>3, <1>4, <1>5, <1>6, <1>7, <1>8, <1>9 DEF Next, Continue

(* The types hold throughout, for every pool.                               *)
THEOREM TypeCorrect == Spec => []TypeOK
<1>1. Init => TypeOK
  BY DEF Init, TypeOK, RowState, InTx
<1>2. QED
  BY <1>1, TypeOKStep, PTL DEF Spec

-----------------------------------------------------------------------------
(* How often a link works, for every pool.                                  *)

(* The resets that have found the token unused and are still to mark it,    *)
(* together with the times it has set the password, fit into the pool; and  *)
(* a token that has set the password is marked.                             *)
Redeemers(t) == {r \in Req : pc[r] \in {"found", "checked"} /\ tok[r] = t}
PoolInv ==
    /\ PoolBounded
    /\ \A t \in Token : uses[t] > 0 => row[t] = "used"
    /\ \A t \in Token : uses[t] + Cardinality(Redeemers(t)) <= PoolSize

(* No step clears used_at (Issue, Expire and ResetCommit write the rows).   *)
LEMMA UsedStays ==
    ASSUME TypeOK, [Next]_vars, NEW t \in Token, row[t] = "used"
    PROVE  row'[t] = "used"
<1> USE DEF rowVars, history, reqVars, TypeOK, RowState
<1>1. ASSUME NEW r \in Req, Begin(r) \/ Mail(r) \/ ResetCheckUser(r) \/ DbError(r)
      PROVE  row' = row
  BY <1>1 DEF Begin, ForgotRead, OwnerRead, ResetLookup, ResetRefused, Mail,
     ResetCheckUser, DbError
<1>2. ASSUME NEW r \in Req, ForgotCommit(r) \/ OwnerCommit(r) \/ ResetCommit(r)
      PROVE  row'[t] = "used"
  BY <1>2 DEF ForgotCommit, OwnerCommit, Issue, ResetCommit
<1>3. ASSUME NEW u \in Token, Expire(u) PROVE row'[t] = "used"
  BY <1>3 DEF Expire
<1>4. ASSUME (\E b \in BOOLEAN : SetActive(b)) \/ Crash \/ UNCHANGED vars
      PROVE  row' = row
  BY <1>4 DEF SetActive, Crash, vars
<1>5. QED
  BY <1>1, <1>2, <1>3, <1>4 DEF Next, Continue

(* Every step keeps it (every handler of the model).                        *)
LEMMA PoolInvStep ==
    ASSUME TypeOK, TypeOK', PoolInv, [Next]_vars
    PROVE  PoolInv'
<1>0. PoolBounded'
  BY PoolUse, PoolStep DEF PoolInv
<1>1. \A t \in Token : row[t] = "used" => row'[t] = "used"
  BY UsedStays
<1>2. /\ \A t \in Token : uses[t] \in Nat /\ uses'[t] \in Nat
      /\ PoolSize \in Nat
  BY PoolAssumption DEF TypeOK
<1>3. ASSUME NEW t \in Token, uses'[t] = uses[t], Redeemers(t)' \subseteq Redeemers(t)
      PROVE  uses'[t] + Cardinality(Redeemers(t)') <= PoolSize
  <2>1. IsFiniteSet(Redeemers(t)) /\ Cardinality(Redeemers(t)) \in Nat
    BY PoolAssumption, FS_Subset, FS_CardinalityType DEF Redeemers
  <2>2. /\ Cardinality(Redeemers(t)') <= Cardinality(Redeemers(t))
        /\ Cardinality(Redeemers(t)') \in Nat
    BY <1>3, <2>1, FS_Subset, FS_CardinalityType
  <2>3. QED
    BY <1>2, <1>3, <2>1, <2>2 DEF PoolInv
<1>4. ASSUME uses' = uses, \A t \in Token : Redeemers(t)' \subseteq Redeemers(t)
      PROVE  PoolInv'
  BY <1>0, <1>1, <1>3, <1>4 DEF PoolInv
<1> USE DEF rowVars, history, reqVars, InTx, Goto, Finish
<1>5. ASSUME NEW r \in Req, NEW t \in Token, ResetLookup(r, t) PROVE PoolInv'
  <2>1. uses' = uses /\ uses[t] = 0
    BY <1>2, <1>5 DEF ResetLookup, Found, PoolInv
  <2>2. \A u \in Token : u # t => Redeemers(u)' \subseteq Redeemers(u)
    BY <1>5 DEF ResetLookup, Redeemers, TypeOK
  <2>3. Cardinality(Redeemers(t)') \in Nat /\ Cardinality(Redeemers(t)') <= PoolSize
    <3>1. conn' \in SUBSET Req /\ Cardinality(conn') <= PoolSize
      BY <1>0 DEF PoolBounded
    <3>2. Redeemers(t)' \in SUBSET conn'
      BY DEF Redeemers, TypeOK
    <3>3. QED
      BY <3>1, <3>2, WithinPool
  <2>4. QED
    BY <1>0, <1>1, <1>2, <1>3, <2>1, <2>2, <2>3 DEF PoolInv
<1>6. ASSUME NEW r \in Req, ResetCommit(r) PROVE PoolInv'
  <2>1. PICK t \in Token : t = tok[r]
    BY <1>6 DEF ResetCommit, TypeOK
  <2>2. r \in Redeemers(t) /\ uses'[t] = uses[t] + 1 /\ row'[t] = "used"
    BY <1>6, <2>1 DEF ResetCommit, TypeOK, Redeemers
  <2>3. \A u \in Token : u # t => uses'[u] = uses[u] /\ Redeemers(u)' \subseteq Redeemers(u)
    BY <1>6, <2>1 DEF ResetCommit, Redeemers, TypeOK
  <2>4. Redeemers(t)' \subseteq Redeemers(t) \ {r}
    BY <1>6 DEF ResetCommit, Redeemers, TypeOK
  <2>5. uses'[t] + Cardinality(Redeemers(t)') <= PoolSize
    <3> DEFINE S == Redeemers(t)
    <3>1. IsFiniteSet(S) /\ Cardinality(S) \in Nat
      BY PoolAssumption, FS_Subset, FS_CardinalityType DEF Redeemers
    <3>2. IsFiniteSet(S \ {r}) /\ Cardinality(S \ {r}) = Cardinality(S) - 1
      BY <2>2, <3>1, FS_RemoveElement
    <3>3. Cardinality(S') \in Nat /\ Cardinality(S') <= Cardinality(S \ {r})
      BY <2>4, <3>2, FS_Subset, FS_CardinalityType
    <3>4. uses[t] + Cardinality(S) <= PoolSize
      BY DEF PoolInv
    <3> HIDE DEF S
    <3>5. QED
      BY <1>2, <2>2, <3>1, <3>2, <3>3, <3>4 DEF S
  <2>6. QED
    BY <1>0, <1>1, <1>3, <2>2, <2>3, <2>5 DEF PoolInv
<1>7. ASSUME NEW r \in Req, \/ ForgotRead(r) \/ OwnerRead(r) \/ ForgotCommit(r)
                           \/ OwnerCommit(r) \/ Mail(r) \/ ResetCheckUser(r) \/ DbError(r)
                           \/ \E t \in Token : ResetRefused(r, t)
      PROVE  PoolInv'
  <2>1. uses' = uses
    BY <1>7 DEF ForgotRead, OwnerRead, ForgotCommit, OwnerCommit, Mail, ResetCheckUser,
       DbError, ResetRefused
  <2>2. \A t \in Token : Redeemers(t)' \subseteq Redeemers(t)
    BY <1>7 DEF ForgotRead, OwnerRead, ForgotCommit, OwnerCommit, Issue, Mail,
       ResetCheckUser, DbError, ResetRefused, Redeemers, TypeOK
  <2>3. QED
    BY <1>4, <2>1, <2>2
<1>8. ASSUME \/ \E b \in BOOLEAN : SetActive(b)
             \/ \E t \in Token : Expire(t)
             \/ Crash \/ UNCHANGED vars
      PROVE  PoolInv'
  <2>1. uses' = uses
    BY <1>8 DEF SetActive, Expire, Crash, vars
  <2>2. \A t \in Token : Redeemers(t)' \subseteq Redeemers(t)
    BY <1>8 DEF SetActive, Expire, Crash, vars, Redeemers
  <2>3. QED
    BY <1>4, <2>1, <2>2
<1>9. QED
  BY <1>5, <1>6, <1>7, <1>8 DEF Next, Begin, Continue

(* For every pool, a link sets the password no more often than the pool has *)
(* connections (reset_password).                                            *)
THEOREM LinkWorksWithinPool == Spec => []SetsPasswordWithinPool
<1>1. Init => PoolInv
  <2> SUFFICES ASSUME Init PROVE PoolInv
    OBVIOUS
  <2>1. PoolBounded
    BY PoolAssumption, FS_EmptySet DEF Init, PoolBounded
  <2>2. \A t \in Token : uses[t] = 0 /\ Redeemers(t) = {}
    BY DEF Init, Redeemers
  <2>3. QED
    BY <2>1, <2>2, PoolAssumption, FS_EmptySet DEF PoolInv
<1>2. TypeOK /\ TypeOK' /\ PoolInv /\ [Next]_vars => PoolInv'
  BY PoolInvStep
<1>3. TypeOK /\ PoolInv => SetsPasswordWithinPool
  <2> SUFFICES ASSUME TypeOK, PoolInv, NEW t \in Token PROVE uses[t] <= PoolSize
    BY DEF SetsPasswordWithinPool
  <2>1. Cardinality(Redeemers(t)) \in Nat
    BY PoolAssumption, FS_Subset, FS_CardinalityType DEF Redeemers
  <2>2. QED
    BY <2>1, PoolAssumption DEF PoolInv, TypeOK
<1>4. QED
  BY <1>1, <1>2, <1>3, TypeCorrect, PTL DEF Spec

-----------------------------------------------------------------------------
(* How many links are open, for every pool.                                 *)

(* The requests that will leave u open, because they read the rows before   *)
(* u was committed.  Of any set of open links the oldest was committed when *)
(* every request that opened another of them was under way, and so were     *)
(* those that miss it still.  The order is not kept in the rows, so the     *)
(* invariant says that some link of the set has that property.              *)
Missing(u) == {r \in Req : pc[r] = "forgot" /\ u \notin loaded[r]}
OpenInv ==
    /\ IsFiniteSet(OpenLinks)
    /\ \A S \in SUBSET OpenLinks : S # {} =>
          \E u \in S : Cardinality(S) + Cardinality(Missing(u)) <= PoolSize

(* There are finitely many requests, whatever the state.                    *)
LEMMA FiniteMissing ==
    ASSUME NEW u
    PROVE  /\ IsFiniteSet(Missing(u)) /\ Cardinality(Missing(u)) \in Nat
           /\ IsFiniteSet(Missing(u)') /\ Cardinality(Missing(u)') \in Nat
<1>1. Missing(u) \in SUBSET Req /\ Missing(u)' \in SUBSET Req
  BY DEF Missing
<1>2. QED
  BY <1>1, PoolAssumption, FS_Subset, FS_CardinalityType

(* A step after which no more links are open, and none is missed by a       *)
(* request that did not miss it before, keeps the invariant.                *)
LEMMA NoneOpened ==
    ASSUME OpenInv, OpenLinks' \subseteq OpenLinks,
           \A u \in OpenLinks' : Missing(u)' \subseteq Missing(u)
    PROVE  OpenInv'
<1>1. IsFiniteSet(OpenLinks')
  BY FS_Subset DEF OpenInv
<1>2. ASSUME NEW S \in SUBSET OpenLinks', S # {}
      PROVE  \E u \in S : Cardinality(S) + Cardinality(Missing(u)') <= PoolSize
  <2>1. PICK u \in S : Cardinality(S) + Cardinality(Missing(u)) <= PoolSize
    BY <1>2 DEF OpenInv
  <2>2. Cardinality(Missing(u)') <= Cardinality(Missing(u))
    BY FiniteMissing, FS_Subset
  <2>3. Cardinality(S) \in Nat
    BY <1>1, FS_Subset, FS_CardinalityType
  <2>4. Cardinality(S) + Cardinality(Missing(u)') <= PoolSize
    BY <2>1, <2>2, <2>3, FiniteMissing, PoolAssumption
  <2>5. QED
    BY <2>4
<1>3. QED
  BY <1>1, <1>2 DEF OpenInv

(* A request for a link closes those that it had read, and commits one that *)
(* the others under way will miss (ForgotCommit).                           *)
LEMMA OneOpened ==
    ASSUME TypeOK, PoolBounded, OpenInv, NEW r \in Req, pc[r] = "forgot", NEW t \in Token,
           OpenLinks' \subseteq (OpenLinks \ loaded[r]) \cup {t},
           \A u \in Token : Missing(u)' \subseteq Missing(u) \ {r},
           Missing(t)' \subseteq conn \ {r}
    PROVE  OpenInv'
<1>1. IsFiniteSet(OpenLinks')
  <2>1. IsFiniteSet(OpenLinks \ loaded[r])
    BY FS_Subset DEF OpenInv
  <2>2. IsFiniteSet((OpenLinks \ loaded[r]) \cup {t})
    BY <2>1, FS_AddElement
  <2>3. QED
    BY <2>2, FS_Subset
<1>2. ASSUME NEW S \in SUBSET OpenLinks', S # {}, S \subseteq OpenLinks
      PROVE  \E u \in S : Cardinality(S) + Cardinality(Missing(u)') <= PoolSize
  <2>1. PICK u \in S : Cardinality(S) + Cardinality(Missing(u)) <= PoolSize
    BY <1>2 DEF OpenInv
  <2>2. Missing(u)' \in SUBSET Missing(u)
    BY <1>2 DEF OpenLinks
  <2>3. Cardinality(Missing(u)') <= Cardinality(Missing(u))
    BY <2>2, FiniteMissing, FS_Subset
  <2>4. Cardinality(S) \in Nat
    BY <1>1, FS_Subset, FS_CardinalityType
  <2>5. Cardinality(S) + Cardinality(Missing(u)') <= PoolSize
    BY <2>1, <2>3, <2>4, FiniteMissing, PoolAssumption
  <2>6. QED
    BY <2>5
<1>3. ASSUME NEW S, S = {t}
      PROVE  \E u \in S : Cardinality(S) + Cardinality(Missing(u)') <= PoolSize
  <2>1. /\ IsFiniteSet(conn) /\ Cardinality(conn) \in Nat
        /\ Cardinality(conn) <= PoolSize /\ r \in conn
    BY WithinPool DEF PoolBounded, TypeOK, InTx
  <2>2. IsFiniteSet(conn \ {r}) /\ Cardinality(conn \ {r}) = Cardinality(conn) - 1
    BY <2>1, FS_RemoveElement
  <2>3. Cardinality(Missing(t)') <= Cardinality(conn \ {r})
    BY <2>2, FS_Subset
  <2>4. Cardinality(S) = 1
    BY <1>3, FS_Singleton
  <2>5. Cardinality(S) + Cardinality(Missing(t)') <= PoolSize
    BY <2>1, <2>2, <2>3, <2>4, FiniteMissing, PoolAssumption
  <2>6. QED
    BY <1>3, <2>5
<1>4. ASSUME NEW S \in SUBSET OpenLinks', t \in S, S \ {t} # {}
      PROVE  \E u \in S : Cardinality(S) + Cardinality(Missing(u)') <= PoolSize
  <2> DEFINE R == S \ {t}
  <2>1. R \in SUBSET OpenLinks /\ R # {} /\ \A v \in R : v \notin loaded[r] /\ v \in Token
    BY <1>4 DEF OpenLinks
  <2>2. PICK u \in R : Cardinality(R) + Cardinality(Missing(u)) <= PoolSize
    BY <2>1 DEF OpenInv
  <2>3. r \in Missing(u) /\ Missing(u)' \subseteq Missing(u) \ {r}
    BY <2>1 DEF Missing
  <2>4. /\ IsFiniteSet(Missing(u) \ {r})
        /\ Cardinality(Missing(u) \ {r}) = Cardinality(Missing(u)) - 1
    BY <2>3, FiniteMissing, FS_RemoveElement
  <2>5. Cardinality(Missing(u)') <= Cardinality(Missing(u) \ {r})
    BY <2>3, <2>4, FS_Subset
  <2>6. IsFiniteSet(S) /\ Cardinality(S) \in Nat /\ Cardinality(R) = Cardinality(S) - 1
    BY <1>1, <1>4, FS_Subset, FS_CardinalityType, FS_RemoveElement
  <2>7. Cardinality(S) + Cardinality(Missing(u)') <= PoolSize
    <3> HIDE DEF R
    <3>1. QED
      BY <2>2, <2>4, <2>5, <2>6, FiniteMissing, PoolAssumption
  <2>8. QED
    BY <2>7
<1>5. QED
  BY <1>1, <1>2, <1>3, <1>4 DEF OpenInv

(* Every step keeps it (every handler of the model).                        *)
LEMMA OpenStep ==
    ASSUME TypeOK, TypeOK', PoolBounded, OpenInv, [Next]_vars
    PROVE  OpenInv'
<1> USE DEF rowVars, history, reqVars, Goto, Finish
<1>1. ASSUME NEW r \in Req, ForgotRead(r) PROVE OpenInv'
  <2>1. OpenLinks' = OpenLinks
    BY <1>1 DEF ForgotRead, OpenLinks, Found
  <2>2. ASSUME NEW u \in OpenLinks' PROVE Missing(u)' \subseteq Missing(u)
    <3>1. u \in Unused
      BY <2>1, <2>2 DEF OpenLinks, Found, Unused
    <3>2. QED
      BY <1>1, <3>1 DEF ForgotRead, Missing, TypeOK
  <2>3. QED
    BY <2>1, <2>2, NoneOpened
<1>2. ASSUME NEW r \in Req, ForgotCommit(r) PROVE OpenInv'
  <2>1. PICK t \in Token : Issue(r, t, loaded[r], "sha256")
    BY <1>2 DEF ForgotCommit
  <2>2. OpenLinks' \subseteq (OpenLinks \ loaded[r]) \cup {t}
    BY <2>1 DEF Issue, OpenLinks, Found, TypeOK
  <2>3. \A u \in Token : Missing(u)' \subseteq Missing(u) \ {r}
    BY <2>1 DEF Issue, Missing, TypeOK
  <2>4. Missing(t)' \subseteq conn \ {r}
    BY <2>3 DEF Missing, TypeOK, InTx
  <2>5. QED
    BY <1>2, <2>2, <2>3, <2>4, OneOpened DEF ForgotCommit
<1>3. ASSUME NEW r \in Req, OwnerCommit(r) PROVE OpenInv'
  <2>1. PICK t \in Token : Issue(r, t, {}, "salted")
    BY <1>3 DEF OwnerCommit
  <2>2. OpenLinks' \subseteq OpenLinks
    BY <2>1 DEF Issue, OpenLinks, Found, TypeOK
  <2>3. \A u \in OpenLinks' : Missing(u)' \subseteq Missing(u)
    BY <2>1 DEF Issue, Missing, TypeOK
  <2>4. QED
    BY <2>2, <2>3, NoneOpened
<1>4. ASSUME NEW r \in Req, \/ OwnerRead(r) \/ Mail(r) \/ ResetCheckUser(r) \/ DbError(r)
                           \/ \E t \in Token : ResetLookup(r, t) \/ ResetRefused(r, t)
      PROVE  OpenInv'
  <2>1. OpenLinks' = OpenLinks
    BY <1>4 DEF OwnerRead, Mail, ResetCheckUser, DbError, ResetLookup, ResetRefused,
       OpenLinks, Found
  <2>2. \A u : Missing(u)' \subseteq Missing(u)
    BY <1>4 DEF OwnerRead, Mail, ResetCheckUser, DbError, ResetLookup, ResetRefused,
       Missing, TypeOK
  <2>3. QED
    BY <2>1, <2>2, NoneOpened
<1>5. ASSUME NEW r \in Req, ResetCommit(r) PROVE OpenInv'
  <2>1. OpenLinks' \subseteq OpenLinks
    BY <1>5 DEF ResetCommit, OpenLinks, Found, TypeOK
  <2>2. \A u : Missing(u)' \subseteq Missing(u)
    BY <1>5 DEF ResetCommit, Missing, TypeOK
  <2>3. QED
    BY <2>1, <2>2, NoneOpened
<1>6. ASSUME \/ \E b \in BOOLEAN : SetActive(b)
             \/ \E t \in Token : Expire(t)
             \/ Crash \/ UNCHANGED vars
      PROVE  OpenInv'
  <2>1. OpenLinks' \subseteq OpenLinks
    BY <1>6 DEF SetActive, Expire, Crash, vars, OpenLinks, Found, TypeOK
  <2>2. \A u : Missing(u)' \subseteq Missing(u)
    BY <1>6 DEF SetActive, Expire, Crash, vars, Missing
  <2>3. QED
    BY <2>1, <2>2, NoneOpened
<1>7. QED
  BY <1>1, <1>2, <1>3, <1>4, <1>5, <1>6 DEF Next, Begin, Continue

(* For every pool, no more links are open than the pool has connections     *)
(* (forgot_password).                                                       *)
THEOREM FewLinksOpen == Spec => []OpenWithinPool
<1>1. Init => PoolBounded /\ OpenInv
  <2> SUFFICES ASSUME Init PROVE PoolBounded /\ OpenInv
    OBVIOUS
  <2>1. OpenLinks = {} /\ conn = {}
    BY DEF Init, OpenLinks, Found
  <2>2. QED
    BY <2>1, PoolAssumption, FS_EmptySet DEF PoolBounded, OpenInv
<1>2. PoolBounded /\ [Next]_vars => PoolBounded'
  BY PoolUse, PoolStep
<1>3. TypeOK /\ TypeOK' /\ PoolBounded /\ OpenInv /\ [Next]_vars => OpenInv'
  BY OpenStep
<1>4. OpenInv => OpenWithinPool
  <2> SUFFICES ASSUME OpenInv PROVE Cardinality(OpenLinks) <= PoolSize
    BY DEF OpenInv, OpenWithinPool
  <2>1. CASE OpenLinks = {}
    BY <2>1, FS_EmptySet, PoolAssumption
  <2>2. CASE OpenLinks # {}
    <3>1. PICK u \in OpenLinks : Cardinality(OpenLinks) + Cardinality(Missing(u)) <= PoolSize
      BY <2>2 DEF OpenInv
    <3>2. Cardinality(OpenLinks) \in Nat
      BY FS_CardinalityType DEF OpenInv
    <3>3. QED
      BY <3>1, <3>2, FiniteMissing, PoolAssumption
  <2>3. QED
    BY <2>1, <2>2
<1>5. QED
  BY <1>1, <1>2, <1>3, <1>4, TypeCorrect, PTL DEF Spec

-----------------------------------------------------------------------------
(* What holds for the default pool.                                         *)

(* The inductive invariant, in addition to TypeOK: one transaction is open  *)
(* at most, so what it read is still so: a request for a link has loaded    *)
(* every unused row, a reset's token is unused and its user active; and a   *)
(* token that has set the password has done so once and is marked.          *)
SerialInv ==
    /\ SingleTransaction
    /\ \A r \in Req : pc[r] = "forgot" => loaded[r] = Unused
    /\ \A r \in Req : pc[r] \in {"found", "checked"} => tok[r] \in Unused
    /\ \A r \in Req : pc[r] = "checked" => active
    /\ \A t \in Token : uses[t] = 0 \/ (uses[t] = 1 /\ row[t] = "used")
    /\ OnlyLatestOpen

(* After a step that ends the only transaction nothing is under way that    *)
(* the invariant speaks of.                                                 *)
LEMMA NoneOpen ==
    ASSUME TypeOK, SerialInv, NEW r \in Req, pc[r] \in InTx, NEW next \in {"idle", "mail"},
           pc' = [pc EXCEPT ![r] = next]
    PROVE  \A s \in Req : pc'[s] \notin InTx
BY DEF TypeOK, SerialInv, SingleTransaction, InTx

(* Every step keeps the invariant (every handler of the model).             *)
LEMMA SerialStep ==
    ASSUME PoolSize = 1, TypeOK, SerialInv, [Next]_vars
    PROVE  SerialInv'
<1>0. SingleTransaction'
  BY PoolUse, SerialStepOfPool DEF SerialInv, TypeOK
<1>1. Free => \A r \in Req : pc[r] \notin InTx
  BY SerialPool DEF TypeOK
<1> USE DEF rowVars, history, reqVars, InTx, Found
<1>2. ASSUME NEW r \in Req, ForgotRead(r) \/ OwnerRead(r) PROVE SerialInv'
  BY <1>0, <1>1, <1>2
  DEF ForgotRead, OwnerRead, Checkout, Goto, SerialInv, Unused, OnlyLatestOpen, TypeOK
<1>3. ASSUME NEW r \in Req, NEW t \in Token, ResetLookup(r, t) PROVE SerialInv'
  BY <1>0, <1>1, <1>3
  DEF ResetLookup, Checkout, Goto, SerialInv, Unused, OnlyLatestOpen, TypeOK
<1>4. ASSUME NEW r \in Req, NEW t \in Token, ResetRefused(r, t) PROVE SerialInv'
  BY <1>0, <1>4 DEF ResetRefused, SerialInv, Unused, OnlyLatestOpen
<1>5. ASSUME NEW r \in Req, ForgotCommit(r) PROVE SerialInv'
  <2>1. PICK t \in Token : Issue(r, t, Unused, "sha256") /\ latest' = t /\ uses' = uses
    BY <1>5 DEF ForgotCommit, SerialInv
  <2>2. \A s \in Req : pc'[s] \notin InTx
    BY <1>5, <2>1, NoneOpen DEF ForgotCommit, Issue, Goto
  <2>3. \A u \in Token : u # t => row'[u] \notin {"open", "expired"}
    BY <2>1 DEF Issue, Unused, TypeOK, RowState
  <2>4. \A u \in Token : row[u] = "used" => row'[u] = "used"
    BY <2>1 DEF Issue, Unused, TypeOK
  <2>5. QED
    BY <1>0, <2>1, <2>2, <2>3, <2>4 DEF SerialInv, OnlyLatestOpen
<1>6. ASSUME NEW r \in Req, OwnerCommit(r) PROVE SerialInv'
  <2>1. PICK t \in Token : Issue(r, t, {}, "salted") /\ latest' = latest /\ uses' = uses
    BY <1>6 DEF OwnerCommit
  <2>2. \A s \in Req : pc'[s] \notin InTx
    BY <1>6, <2>1, NoneOpen DEF OwnerCommit, Issue, Goto
  <2>3. \A u \in Token : u # t => row'[u] = row[u] /\ hash'[u] = hash[u]
    BY <2>1 DEF Issue, TypeOK
  <2>4. hash'[t] = "salted" /\ row[t] = "absent"
    BY <2>1 DEF Issue, TypeOK
  <2>5. QED
    BY <1>0, <2>1, <2>2, <2>3, <2>4 DEF SerialInv, OnlyLatestOpen
<1>7. ASSUME NEW r \in Req, Mail(r) PROVE SerialInv'
  BY <1>0, <1>7 DEF Mail, Finish, SerialInv, Unused, OnlyLatestOpen, TypeOK
<1>8. ASSUME NEW r \in Req, ResetCheckUser(r) PROVE SerialInv'
  <2>1. CASE active /\ Goto(r, "checked") /\ UNCHANGED <<tok, loaded, conn>>
    BY <1>0, <1>8, <2>1
    DEF ResetCheckUser, Goto, SerialInv, Unused, OnlyLatestOpen, TypeOK
  <2>2. CASE Finish(r) /\ Return(r)
    BY <1>0, <1>8, <2>2
    DEF ResetCheckUser, Finish, SerialInv, Unused, OnlyLatestOpen, TypeOK
  <2>3. QED
    BY <1>8, <2>1, <2>2 DEF ResetCheckUser
<1>9. ASSUME NEW r \in Req, ResetCommit(r) PROVE SerialInv'
  <2>1. tok[r] \in Token /\ uses[tok[r]] = 0
    BY <1>9 DEF ResetCommit, SerialInv, Unused
  <2>2. \A s \in Req : pc'[s] \notin InTx
    BY <1>9, NoneOpen DEF ResetCommit, Finish
  <2>3. \A t \in Token : /\ row'[t]  = IF t = tok[r] THEN "used" ELSE row[t]
                         /\ uses'[t] = IF t = tok[r] THEN 1 ELSE uses[t]
    BY <1>9, <2>1 DEF ResetCommit, TypeOK
  <2>4. hash' = hash /\ latest' = latest
    BY <1>9 DEF ResetCommit
  <2>5. QED
    BY <1>0, <2>2, <2>3, <2>4 DEF SerialInv, OnlyLatestOpen
<1>10. ASSUME NEW r \in Req, DbError(r) PROVE SerialInv'
  <2>1. \A s \in Req : pc'[s] \notin InTx
    BY <1>10, NoneOpen DEF DbError, Finish
  <2>2. QED
    BY <1>0, <1>10, <2>1 DEF DbError, SerialInv, OnlyLatestOpen
<1>11. ASSUME NEW b \in BOOLEAN, SetActive(b) PROVE SerialInv'
  BY <1>0, <1>1, <1>11 DEF SetActive, OneShot, SerialInv, Unused, OnlyLatestOpen
<1>12. ASSUME NEW t \in Token, Expire(t) PROVE SerialInv'
  <2>1. Unused' = Unused
    BY <1>12 DEF Expire, Unused, TypeOK
  <2>2. \A u \in Token : row'[u] # row[u] => row[u] = "open" /\ row'[u] = "expired"
    BY <1>12 DEF Expire, TypeOK
  <2>3. QED
    BY <1>0, <1>12, <2>1, <2>2 DEF Expire, SerialInv, OnlyLatestOpen
<1>13. CASE Crash
  BY <1>0, <1>13 DEF Crash, SerialInv, OnlyLatestOpen
<1>14. CASE UNCHANGED vars
  BY <1>0, <1>14 DEF vars, SerialInv, Unused, OnlyLatestOpen
<1>15. QED
  BY <1>2, <1>3, <1>4, <1>5, <1>6, <1>7, <1>8, <1>9, <1>10, <1>11, <1>12, <1>13, <1>14
  DEF Next, Begin, Continue

(* The invariant, for the default pool.                                     *)
LEMMA SerialCorrect ==
    ASSUME PoolSize = 1
    PROVE  Spec => []SerialInv
<1>1. Init => SerialInv
  BY DEF Init, SerialInv, SingleTransaction, OnlyLatestOpen, Found
<1>2. TypeOK /\ SerialInv /\ [Next]_vars => SerialInv'
  BY SerialStep
<1>3. QED
  BY <1>1, <1>2, TypeCorrect, PTL DEF Spec

(* With the default pool, only the newest link a user asked for is open.    *)
THEOREM NewestLinkOnly ==
    ASSUME PoolSize = 1
    PROVE  Spec => []OnlyLatestOpen
BY SerialCorrect, PTL DEF SerialInv

(* With the default pool, a link sets the password once at most.            *)
THEOREM LinkWorksOnce ==
    ASSUME PoolSize = 1
    PROVE  Spec => []SetsPasswordOnce
<1>1. SerialInv => SetsPasswordOnce
  BY DEF SerialInv, SetsPasswordOnce
<1>2. QED
  BY <1>1, SerialCorrect, PTL

(* With the default pool, the password of a blocked user is never reset.    *)
THEOREM BlockedNotReset ==
    ASSUME PoolSize = 1
    PROVE  Spec => OnlyActiveReset
<1>1. SerialInv /\ [Next]_vars => [uses' # uses => active]_vars
  <2> SUFFICES ASSUME SerialInv, Next, uses' # uses PROVE active
    BY DEF vars, history
  <2> USE DEF rowVars, history, reqVars
  <2>1. PICK r \in Req : ResetCommit(r)
    BY DEF Next, Begin, Continue, ForgotRead, OwnerRead, ResetLookup, ResetRefused,
       ForgotCommit, OwnerCommit, Mail, ResetCheckUser, DbError, SetActive, Expire, Crash
  <2>2. QED
    BY <2>1 DEF ResetCommit, SerialInv
<1>2. QED
  BY <1>1, SerialCorrect, PTL DEF Spec, OnlyActiveReset

-----------------------------------------------------------------------------
(* The refinement of ResetLink, for the default pool.                       *)

(* What it needs beside SerialInv: a request for a link was made by an      *)
(* active user who still is; only tokens that exist are mailed; and a reset *)
(* is at work for a token it was mailed and can find.                       *)
LinkInv ==
    /\ \A r \in Req : pc[r] = "forgot" => active
    /\ \A r \in Req : pc[r] = "mail" => row[tok[r]] # "absent"
    /\ \A r \in Req : pc[r] \in {"found", "checked"} =>
          hash[tok[r]] = "sha256" /\ tok[r] \in mailed

(* No step makes a row that exists disappear, nor changes how its hash was  *)
(* made (Issue only takes a token without a row).                           *)
LEMMA RowsStay ==
    ASSUME TypeOK, [Next]_vars
    PROVE  \A t \in Token : row[t] # "absent" => row'[t] # "absent" /\ hash'[t] = hash[t]
<1> USE DEF rowVars, history, reqVars, TypeOK, RowState
<1>1. ASSUME NEW r \in Req, Begin(r)
      PROVE  UNCHANGED <<row, hash>>
  BY <1>1 DEF Begin, ForgotRead, OwnerRead, ResetLookup, ResetRefused
<1>2. ASSUME NEW r \in Req, NEW t \in Token, NEW S, NEW how, Issue(r, t, S, how),
             NEW u \in Token, row[u] # "absent"
      PROVE  row'[u] # "absent" /\ hash'[u] = hash[u]
  BY <1>2 DEF Issue
<1>3. ASSUME NEW r \in Req, ResetCommit(r)
      PROVE  \A u \in Token : row[u] # "absent" => row'[u] # "absent" /\ hash'[u] = hash[u]
  BY <1>3 DEF ResetCommit
<1>4. ASSUME NEW r \in Req, Mail(r) \/ ResetCheckUser(r) \/ DbError(r)
      PROVE  UNCHANGED <<row, hash>>
  BY <1>4 DEF Mail, ResetCheckUser, DbError
<1>5. ASSUME NEW t \in Token, Expire(t)
      PROVE  \A u \in Token : row[u] # "absent" => row'[u] # "absent" /\ hash'[u] = hash[u]
  BY <1>5 DEF Expire
<1>6. ASSUME (\E b \in BOOLEAN : SetActive(b)) \/ Crash \/ UNCHANGED vars
      PROVE  UNCHANGED <<row, hash>>
  BY <1>6 DEF SetActive, Crash, vars
<1>7. QED
  BY <1>1, <1>2, <1>3, <1>4, <1>5, <1>6 DEF Next, Continue, ForgotCommit, OwnerCommit

(* Every step keeps it (every handler of the model).                        *)
LEMMA LinkStep ==
    ASSUME PoolSize = 1, TypeOK, SerialInv, LinkInv, [Next]_vars
    PROVE  LinkInv'
<1> USE DEF rowVars, history, reqVars, InTx
<1>0. /\ \A t \in Token : row[t] # "absent" => row'[t] # "absent" /\ hash'[t] = hash[t]
      /\ \A r \in Req : pc[r] \in {"found", "checked"} => row[tok[r]] # "absent"
  BY RowsStay DEF SerialInv, Unused
<1> DEFINE Before(s) == \/ pc'[s] \in {"idle", "owner"}
                        \/ pc'[s] = pc[s] /\ tok'[s] = tok[s]
<1>1. ASSUME active' = active, mailed \subseteq mailed', \A s \in Req : Before(s)
      PROVE  LinkInv'
  BY <1>0, <1>1 DEF LinkInv, TypeOK
<1>2. ASSUME NEW r \in Req, ForgotRead(r) PROVE LinkInv'
  BY <1>2 DEF ForgotRead, Goto, LinkInv, TypeOK
<1>3. ASSUME NEW r \in Req, OwnerRead(r) PROVE LinkInv'
  BY <1>1, <1>3 DEF OwnerRead, Goto, TypeOK
<1>4. ASSUME NEW r \in Req, NEW t \in Token, ResetLookup(r, t) PROVE LinkInv'
  BY <1>4 DEF ResetLookup, Found, Goto, LinkInv, TypeOK
<1>5. ASSUME NEW r \in Req, NEW t \in Token, ResetRefused(r, t) PROVE LinkInv'
  BY <1>1, <1>5 DEF ResetRefused
<1>6. ASSUME NEW r \in Req, NEW t \in Token, NEW S, NEW how, Issue(r, t, S, how),
             UNCHANGED <<active, mailed>>
      PROVE  LinkInv'
  <2>1. /\ row'[t] = "open"
        /\ pc' = [pc EXCEPT ![r] = "mail"] /\ tok' = [tok EXCEPT ![r] = t]
    BY <1>6 DEF Issue, Goto, TypeOK
  <2>2. QED
    BY <1>0, <1>6, <2>1 DEF LinkInv, TypeOK
<1>7. ASSUME NEW r \in Req, ForgotCommit(r) \/ OwnerCommit(r) PROVE LinkInv'
  BY <1>6, <1>7 DEF ForgotCommit, OwnerCommit
<1>8. ASSUME NEW r \in Req, Mail(r) \/ ResetCommit(r) \/ DbError(r) PROVE LinkInv'
  <2>1. Finish(r) /\ active' = active /\ mailed \subseteq mailed'
    BY <1>8 DEF Mail, ResetCommit, DbError
  <2>2. \A s \in Req : Before(s)
    BY <2>1 DEF Finish, TypeOK
  <2>3. QED
    BY <1>1, <2>1, <2>2
<1>9. ASSUME NEW r \in Req, ResetCheckUser(r) PROVE LinkInv'
  <2>1. CASE active /\ Goto(r, "checked") /\ UNCHANGED <<tok, loaded, conn>>
    BY <1>0, <1>9, <2>1 DEF ResetCheckUser, Goto, LinkInv, TypeOK
  <2>2. CASE Finish(r)
    <3>1. active' = active /\ mailed \subseteq mailed'
      BY <1>9 DEF ResetCheckUser
    <3>2. \A s \in Req : Before(s)
      BY <2>2 DEF Finish, TypeOK
    <3>3. QED
      BY <1>1, <3>1, <3>2
  <2>3. QED
    BY <1>9, <2>1, <2>2 DEF ResetCheckUser
<1>10. ASSUME NEW b \in BOOLEAN, SetActive(b) PROVE LinkInv'
  <2>1. \A r \in Req : pc[r] \notin InTx
    BY <1>10, SerialPool DEF SetActive, OneShot, TypeOK
  <2>2. QED
    BY <1>10, <2>1 DEF SetActive, LinkInv
<1>11. ASSUME NEW t \in Token, Expire(t) PROVE LinkInv'
  BY <1>1, <1>11 DEF Expire
<1>12. CASE Crash
  <2>1. active' = active /\ mailed \subseteq mailed' /\ \A s \in Req : Before(s)
    BY <1>12 DEF Crash
  <2>2. QED
    BY <1>1, <2>1
<1>13. CASE UNCHANGED vars
  BY <1>1, <1>13 DEF vars
<1>14. QED
  BY <1>2, <1>3, <1>4, <1>5, <1>7, <1>8, <1>9, <1>10, <1>11, <1>12, <1>13
  DEF Next, Begin, Continue

(* While a request is in a transaction, no other has a link in hand         *)
(* (reset_password under the default pool).                                 *)
LEMMA OneHand ==
    ASSUME TypeOK, SerialInv, NEW r \in Req, pc[r] \in InTx
    PROVE  \A t \in Token : InHand(t) <=> pc[r] \in {"found", "checked"} /\ tok[r] = t
BY DEF TypeOK, SerialInv, SingleTransaction, InHand, InTx

(* When no transaction is open, the usable links are the open ones.         *)
LEMMA UsableAtRest ==
    ASSUME \A s \in Req : pc'[s] \notin InTx
    PROVE  usable' = {t \in Token : hash'[t] = "sha256" /\ row'[t] = "open"}
BY DEF usable, InHand, InTx

(* A request that ends without a commit may have been the last chance of a  *)
(* link that expired in its hands (a refusal, a failure, a restart).        *)
LEMMA Giving ==
    ASSUME TypeOK, SerialInv, \A s \in Req : pc'[s] \notin InTx,
           UNCHANGED <<row, hash, active, mailed, uses>>
    PROVE  (\E t \in Token : Link!Lapse(t)) \/ UNCHANGED Link!vars
<1>1. usable' = {t \in Token : hash[t] = "sha256" /\ row[t] = "open"} /\ made' = made
  BY UsableAtRest DEF made
<1>2. usable' \subseteq usable
  BY <1>1 DEF usable
<1>3. \A t, u \in usable \ usable' : t = u
  <2>1. \A t \in usable \ usable' : InHand(t)
    BY <1>1 DEF usable
  <2>2. \A t, u \in Token : InHand(t) /\ InHand(u) => t = u
    BY DEF InHand, SerialInv, SingleTransaction, TypeOK, InTx
  <2>3. QED
    BY <2>1, <2>2 DEF usable
<1>4. CASE usable' = usable
  BY <1>1, <1>4 DEF Link!vars
<1>5. CASE usable' # usable
  <2>1. PICK t \in usable : t \notin usable'
    BY <1>2, <1>5
  <2>2. usable' = usable \ {t} /\ t \in Token
    BY <1>2, <1>3, <2>1 DEF usable
  <2>3. QED
    BY <1>1, <2>1, <2>2 DEF Link!Lapse
<1>6. QED
  BY <1>4, <1>5

(* forgot_password closes what was open and opens one.                      *)
LEMMA Asking ==
    ASSUME TypeOK, SerialInv, LinkInv, NEW r \in Req, ForgotCommit(r)
    PROVE  \E t \in Token : Link!Ask(t)
<1>1. PICK t \in Token : Issue(r, t, Unused, "sha256") /\ UNCHANGED <<active, mailed, uses>>
  BY DEF ForgotCommit, SerialInv
<1>2. \A s \in Req : pc'[s] \notin InTx
  BY <1>1, NoneOpen DEF ForgotCommit, Issue, Goto, InTx
<1>3. \A u \in Token : row'[u] = "open" <=> u = t
  BY <1>1 DEF Issue, Unused, TypeOK
<1>4. hash'[t] = "sha256" /\ row[t] = "absent"
  BY <1>1 DEF Issue, TypeOK
<1>5. usable' = {t}
  BY <1>2, <1>3, <1>4, UsableAtRest
<1>6. t \notin made /\ made' = made \cup {t}
  <2>1. \A u \in Token : row'[u] # "absent" <=> row[u] # "absent" \/ u = t
    BY <1>1 DEF Issue, Unused, TypeOK, RowState
  <2>2. QED
    BY <1>4, <2>1 DEF made
<1>7. active
  BY DEF ForgotCommit, LinkInv
<1>8. QED
  BY <1>1, <1>5, <1>6, <1>7 DEF Link!Ask

(* admin_reset_password adds a token that reset_password does not find.     *)
LEMMA SendingUseless ==
    ASSUME TypeOK, SerialInv, NEW r \in Req, OwnerCommit(r)
    PROVE  \E t \in Token : Link!SendUseless(t)
<1>1. PICK t \in Token : Issue(r, t, {}, "salted") /\ UNCHANGED <<active, mailed, uses>>
  BY DEF OwnerCommit, history
<1>2. \A s \in Req : pc'[s] \notin InTx
  BY <1>1, NoneOpen DEF OwnerCommit, Issue, Goto, InTx
<1>3. /\ row[t] = "absent" /\ hash'[t] = "salted" /\ row'[t] = "open"
      /\ \A u \in Token : u # t => row'[u] = row[u] /\ hash'[u] = hash[u]
  BY <1>1 DEF Issue, TypeOK
<1>4. \A u \in Token : ~InHand(u)
  BY OneHand DEF OwnerCommit, InTx
<1>5. usable' = usable
  BY <1>2, <1>3, <1>4, UsableAtRest DEF usable
<1>6. t \notin made /\ made' = made \cup {t}
  BY <1>3 DEF made
<1>7. QED
  BY <1>1, <1>5, <1>6 DEF Link!SendUseless

(* reset_password redeems the link it has in hand, expired by now or not.   *)
LEMMA Redeeming ==
    ASSUME TypeOK, SerialInv, LinkInv, NEW r \in Req, ResetCommit(r)
    PROVE  \E t \in Token : Link!Redeem(t)
<1>1. /\ tok[r] \in Token /\ pc[r] = "checked" /\ pc[r] \in InTx
      /\ row'  = [row EXCEPT ![tok[r]] = "used"]
      /\ uses' = [uses EXCEPT ![tok[r]] = @ + 1]
      /\ UNCHANGED <<hash, active, mailed>>
  BY DEF ResetCommit, TypeOK, InTx
<1>2. \A s \in Req : pc'[s] \notin InTx
  BY <1>1, NoneOpen DEF ResetCommit, Finish
<1>3. \A t \in Token : InHand(t) <=> t = tok[r]
  BY <1>1, OneHand
<1>4. tok[r] \in usable /\ tok[r] \in mailed /\ active
  BY <1>1, <1>3 DEF SerialInv, LinkInv, Unused, usable
<1>5. \A t \in Token : row'[t] = IF t = tok[r] THEN "used" ELSE row[t]
  BY <1>1 DEF TypeOK
<1>6. usable' = usable \ {tok[r]}
  BY <1>1, <1>2, <1>3, <1>5, UsableAtRest DEF usable
<1>7. made' = made
  BY <1>1, <1>4, <1>5 DEF made, usable
<1>8. QED
  BY <1>1, <1>4, <1>6, <1>7 DEF Link!Redeem

(* A link expires, unless a request has it in hand.                         *)
LEMMA Expiring ==
    ASSUME TypeOK, NEW t \in Token, Expire(t)
    PROVE  Link!Lapse(t) \/ UNCHANGED Link!vars
<1>1. /\ row[t] = "open" /\ row' = [row EXCEPT ![t] = "expired"]
      /\ UNCHANGED <<hash, active, mailed, uses, pc, tok>>
  BY DEF Expire, reqVars, history
<1>2. \A u \in Token : row'[u] = IF u = t THEN "expired" ELSE row[u]
  BY <1>1 DEF TypeOK
<1>3. \A u \in Token : InHand(u)' <=> InHand(u)
  BY <1>1 DEF InHand
<1>4. made' = made
  BY <1>1, <1>2 DEF made
<1>5. CASE hash[t] # "sha256" \/ InHand(t)
  <2>1. usable' = usable
    BY <1>1, <1>2, <1>3, <1>5 DEF usable
  <2>2. QED
    BY <1>1, <1>4, <2>1 DEF Link!vars
<1>6. CASE hash[t] = "sha256" /\ ~InHand(t)
  <2>1. t \in usable /\ usable' = usable \ {t}
    BY <1>1, <1>2, <1>3, <1>6 DEF usable
  <2>2. QED
    BY <1>1, <1>4, <2>1 DEF Link!Lapse
<1>7. QED
  BY <1>5, <1>6

(* Steps that leave the rows alone and every link in the hands it was in    *)
(* (the lookups, a refused link, the check of the user, the mail).          *)
LEMMA HandsKept ==
    ASSUME UNCHANGED <<row, hash>>,
           \A t \in Token : row[t] = "open" \/ (InHand(t)' <=> InHand(t))
    PROVE  usable' = usable /\ made' = made
<1>1. \A t \in Token : row'[t] = row[t] /\ hash'[t] = hash[t]
  OBVIOUS
<1>2. made' = made
  BY DEF made
<1>3. \A t \in Token : t \in usable' <=> t \in usable
  BY <1>1 DEF usable
<1>4. QED
  BY <1>2, <1>3 DEF usable

(* The other steps of a request (ForgotRead, OwnerRead, ResetLookup,        *)
(* ResetRefused, ResetCheckUser, Mail).                                     *)
LEMMA InBetween ==
    ASSUME TypeOK, SerialInv, LinkInv, NEW r \in Req,
           Begin(r) \/ Mail(r) \/ ResetCheckUser(r)
    PROVE  \/ \E t \in Token : Link!Deliver(t) \/ Link!Lapse(t)
           \/ UNCHANGED Link!vars
<1> USE DEF rowVars, history, reqVars
<1>1. ASSUME ForgotRead(r) \/ OwnerRead(r) PROVE UNCHANGED Link!vars
  <2>1. UNCHANGED <<row, hash, active, mailed, uses>>
        /\ \A t \in Token : InHand(t)' <=> InHand(t)
    BY <1>1 DEF ForgotRead, OwnerRead, Goto, InHand, TypeOK
  <2>2. QED
    BY <2>1, HandsKept DEF Link!vars
<1>2. ASSUME NEW t \in Token, ResetLookup(r, t) PROVE UNCHANGED Link!vars
  <2>1. UNCHANGED <<row, hash, active, mailed, uses>> /\ row[t] = "open"
        /\ \A u \in Token : u # t => (InHand(u)' <=> InHand(u))
    BY <1>2 DEF ResetLookup, Found, Goto, InHand, TypeOK
  <2>2. QED
    BY <2>1, HandsKept DEF Link!vars
<1>3. ASSUME NEW t \in Token, ResetRefused(r, t) PROVE UNCHANGED Link!vars
  <2>1. UNCHANGED <<row, hash, active, mailed, uses>>
        /\ \A u \in Token : InHand(u)' <=> InHand(u)
    BY <1>3 DEF ResetRefused, InHand
  <2>2. QED
    BY <2>1, HandsKept DEF Link!vars
<1>4. ASSUME Mail(r) PROVE (\E t \in Token : Link!Deliver(t)) \/ UNCHANGED Link!vars
  <2>1. UNCHANGED <<row, hash, active, uses>>
        /\ \A u \in Token : InHand(u)' <=> InHand(u)
    BY <1>4 DEF Mail, Finish, InHand, TypeOK
  <2>2. usable' = usable /\ made' = made
    BY <2>1, HandsKept
  <2>3. tok[r] \in made
    BY <1>4 DEF Mail, TypeOK, LinkInv, made
  <2>4. CASE mailed' = mailed \cup {tok[r]}
    BY <2>1, <2>2, <2>3, <2>4 DEF Link!Deliver, made
  <2>5. CASE UNCHANGED mailed
    BY <2>1, <2>2, <2>5 DEF Link!vars
  <2>6. QED
    BY <1>4, <2>4, <2>5 DEF Mail
<1>5. ASSUME ResetCheckUser(r) PROVE (\E t \in Token : Link!Lapse(t)) \/ UNCHANGED Link!vars
  <2>1. UNCHANGED <<row, hash, active, mailed, uses>> /\ pc[r] = "found"
    BY <1>5 DEF ResetCheckUser
  <2>2. CASE Goto(r, "checked") /\ UNCHANGED tok
    <3>1. \A u \in Token : InHand(u)' <=> InHand(u)
      BY <2>1, <2>2 DEF Goto, InHand, TypeOK
    <3>2. QED
      BY <2>1, <3>1, HandsKept DEF Link!vars
  <2>3. CASE Finish(r)
    <3>1. \A s \in Req : pc'[s] \notin InTx
      BY <2>1, <2>3, NoneOpen DEF Finish, InTx
    <3>2. QED
      BY <2>1, <3>1, Giving
  <2>4. QED
    BY <1>5, <2>2, <2>3 DEF ResetCheckUser
<1>6. QED
  BY <1>1, <1>2, <1>3, <1>4, <1>5 DEF Begin

(* With the default pool, the links live as ResetLink says (every handler   *)
(* of the model).                                                           *)
THEOREM ImplementsLink ==
    ASSUME PoolSize = 1
    PROVE  Spec => ImplementsResetLink
<1> USE DEF rowVars, history, reqVars
<1>1. Init => LinkInv /\ Link!Init
  BY DEF Init, LinkInv, Link!Init, made, usable
<1>2. TypeOK /\ SerialInv /\ LinkInv /\ [Next]_vars => LinkInv'
  BY LinkStep
<1>3. TypeOK /\ SerialInv /\ LinkInv /\ [Next]_vars => [Link!Next]_(Link!vars)
  <2> SUFFICES ASSUME TypeOK, SerialInv, LinkInv, [Next]_vars
               PROVE  Link!Next \/ UNCHANGED Link!vars
    OBVIOUS
  <2>1. ASSUME NEW r \in Req, Begin(r) \/ Mail(r) \/ ResetCheckUser(r)
        PROVE  Link!Next \/ UNCHANGED Link!vars
    BY <2>1, InBetween DEF Link!Next
  <2>2. ASSUME NEW r \in Req, ForgotCommit(r) \/ OwnerCommit(r) \/ ResetCommit(r)
        PROVE  Link!Next
    BY <2>2, Asking, SendingUseless, Redeeming DEF Link!Next
  <2>3. ASSUME NEW r \in Req, DbError(r)
        PROVE  Link!Next \/ UNCHANGED Link!vars
    <3>1. \A s \in Req : pc'[s] \notin InTx
      BY <2>3, NoneOpen DEF DbError, Finish
    <3>2. QED
      BY <2>3, <3>1, Giving DEF DbError, Link!Next
  <2>4. CASE Crash
    BY <2>4, Giving DEF Crash, InTx, Link!Next
  <2>5. ASSUME NEW b \in BOOLEAN, SetActive(b)
        PROVE  Link!Next
    <3>1. UNCHANGED <<row, hash, mailed, uses>> /\ active' = b
          /\ \A t \in Token : InHand(t)' <=> InHand(t)
      BY <2>5 DEF SetActive, InHand
    <3>2. Link!SetActive(b)
      BY <3>1, HandsKept DEF Link!SetActive
    <3>3. QED
      BY <3>2 DEF Link!Next
  <2>6. ASSUME NEW t \in Token, Expire(t)
        PROVE  Link!Next \/ UNCHANGED Link!vars
    BY <2>6, Expiring DEF Link!Next
  <2>7. CASE UNCHANGED vars
    BY <2>7, HandsKept DEF vars, InHand, Link!vars
  <2>8. QED
    BY <2>1, <2>2, <2>3, <2>4, <2>5, <2>6, <2>7 DEF Next, Continue
<1>4. QED
  BY <1>1, <1>2, <1>3, TypeCorrect, SerialCorrect, PTL
  DEF Spec, ImplementsResetLink, Link!Spec

(* What ResetLink promises is enough, whatever made it true: a link sets    *)
(* the password once (reset_password).                                      *)
THEOREM LinkPromisesOnce == ImplementsResetLink => []SetsPasswordOnce
<1> DEFINE Once == /\ usable \subseteq made
                   /\ uses \in [Token -> {0, 1}]
                   /\ \A t \in Token : uses[t] = 1 => t \in made \ usable
<1>1. Link!Init => Once
  BY DEF Link!Init
<1>2. Once /\ [Link!Next]_(Link!vars) => Once'
  <2> SUFFICES ASSUME Once, [Link!Next]_(Link!vars) PROVE Once'
    OBVIOUS
  <2>0. made \subseteq Token
    BY DEF made
  <2>1. ASSUME NEW t \in Token, Link!Ask(t) PROVE Once'
    BY <2>0, <2>1 DEF Link!Ask
  <2>2. ASSUME NEW t \in Token, Link!Redeem(t) PROVE Once'
    <3>1. uses[t] = 0
      BY <2>2 DEF Link!Redeem
    <3>2. QED
      BY <2>2, <3>1 DEF Link!Redeem
  <2>3. ASSUME NEW t \in Token, Link!SendUseless(t) \/ Link!Deliver(t) \/ Link!Lapse(t) PROVE Once'
    BY <2>3 DEF Link!SendUseless, Link!Deliver, Link!Lapse
  <2>4. CASE (\E b \in BOOLEAN : Link!SetActive(b)) \/ UNCHANGED Link!vars
    BY <2>4 DEF Link!SetActive, Link!vars
  <2>5. QED
    BY <2>1, <2>2, <2>3, <2>4 DEF Link!Next
<1>3. Once => SetsPasswordOnce
  BY DEF SetsPasswordOnce
<1>4. QED
  BY <1>1, <1>2, <1>3, PTL DEF ImplementsResetLink, Link!Spec
=============================================================================
