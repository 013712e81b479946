---------------------------- MODULE DbPoolProofs ----------------------------
(***************************************************************************)
(* Facts about the pool that the proofs of every component rest on: its    *)
(* bound, and the serialisation of transactions by a pool of one.          *)
(***************************************************************************)
EXTENDS DbPool, FiniteSetTheorems, TLAPS

(* With one connection, a transaction only begins when none is open         *)
(* (AUTH_DB_POOL_SIZE 1, AUTH_DB_MAX_OVERFLOW 0).                           *)
LEMMA SerialPool ==
    ASSUME PoolSize = 1, conn \in SUBSET Req, Free
    PROVE  conn = {}
<1>1. IsFiniteSet(conn)
  BY PoolAssumption, FS_Subset
<1>2. Cardinality(conn) \in Nat
  BY <1>1, FS_CardinalityType
<1>3. Cardinality(conn) = 0
  BY <1>2 DEF Free
<1>4. QED
  BY <1>1, <1>3, FS_EmptySet

(* The four things a step does to the pool keep it within its bound         *)
(* (app/db.py, the engine's pool_size and max_overflow).                    *)
LEMMA PoolStep ==
    ASSUME PoolBounded,
           \/ \E r \in Req : Checkout(r) \/ Return(r)
           \/ UNCHANGED conn
           \/ conn' = {}
    PROVE  PoolBounded'
<1>1. IsFiniteSet(conn) /\ Cardinality(conn) \in Nat
  BY PoolAssumption, FS_Subset, FS_CardinalityType DEF PoolBounded
<1>2. ASSUME NEW r \in Req, Checkout(r)
      PROVE  PoolBounded'
  <2>1. Cardinality(conn') = Cardinality(conn) + 1
    BY <1>1, <1>2, FS_AddElement DEF Checkout
  <2>2. Cardinality(conn') <= PoolSize
    BY <1>1, <1>2, <2>1, PoolAssumption DEF Checkout, Free
  <2>3. QED
    BY <1>2, <2>2 DEF Checkout, PoolBounded
<1>3. ASSUME NEW r \in Req, Return(r)
      PROVE  PoolBounded'
  <2>1. conn' \subseteq conn
    BY <1>3 DEF Return
  <2>2. Cardinality(conn') <= Cardinality(conn) /\ Cardinality(conn') \in Nat
    BY <1>1, <2>1, FS_Subset, FS_CardinalityType
  <2>3. Cardinality(conn') <= PoolSize
    BY <1>1, <2>2, PoolAssumption DEF PoolBounded
  <2>4. QED
    BY <2>1, <2>3 DEF PoolBounded
<1>4. ASSUME UNCHANGED conn
      PROVE  PoolBounded'
  BY <1>4 DEF PoolBounded
<1>5. ASSUME conn' = {}
      PROVE  PoolBounded'
  <2>1. Cardinality(conn') = 0
    BY <1>5, FS_EmptySet
  <2>2. QED
    BY <1>5, <2>1, PoolAssumption DEF PoolBounded
<1>6. QED
  BY <1>2, <1>3, <1>4, <1>5

(* Requests that each hold a connection are no more than the pool has.      *)
LEMMA WithinPool ==
    ASSUME NEW C \in SUBSET Req, Cardinality(C) <= PoolSize, NEW S \in SUBSET C
    PROVE  IsFiniteSet(S) /\ Cardinality(S) \in Nat /\ Cardinality(S) <= PoolSize
<1>1. IsFiniteSet(C) /\ Cardinality(C) \in Nat
  BY PoolAssumption, FS_Subset, FS_CardinalityType
<1>2. IsFiniteSet(S) /\ Cardinality(S) \in Nat /\ Cardinality(S) <= Cardinality(C)
  BY <1>1, FS_Subset, FS_CardinalityType
<1>3. QED
  BY <1>1, <1>2, PoolAssumption

\* At most one transaction is open.
SingleTransaction == \A r, s \in conn : r = s

(* With one connection, a transaction is alone from its first statement to  *)
(* its end, if that is all a step does to the pool (app/db.py).             *)
LEMMA SerialStepOfPool ==
    ASSUME PoolSize = 1, conn \in SUBSET Req, SingleTransaction,
           \/ \E r \in Req : Checkout(r) \/ Return(r)
           \/ UNCHANGED conn
           \/ conn' = {}
    PROVE  SingleTransaction'
<1>1. Free => conn = {}
  BY SerialPool
<1>2. QED
  BY <1>1 DEF Checkout, Return, SingleTransaction
=============================================================================
