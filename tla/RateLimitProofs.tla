-------------------------- MODULE RateLimitProofs --------------------------
(***************************************************************************)
(* Proofs about RateLimit, for any processes, requests, limit and window:  *)
(* the types, how many requests each backend lets through, and that only   *)
(* a full window refuses.                                                  *)
(***************************************************************************)
EXTENDS RateLimit, FiniteSetTheorems, TLAPS

(* Every step keeps the types (both limiters, restarts and time).           *)
LEMMA TypeOKStep == TypeOK /\ [Next]_vars => TypeOK'
<1> SUFFICES ASSUME TypeOK, [Next]_vars PROVE TypeOK'
  OBVIOUS
<1> USE NoneAssumption DEF redisVars, Verdict, Live, Judge
<1>1. ASSUME NEW p \in Proc, PickBackend(p) PROVE TypeOK'
  BY <1>1 DEF PickBackend, TypeOK
<1>2. ASSUME NEW p \in Proc, NEW q \in Request, MemoryAdmit(p, q) \/ MemoryRefuse(p, q)
      PROVE  TypeOK'
  BY <1>2 DEF MemoryAdmit, MemoryRefuse, TypeOK
<1>3. ASSUME NEW p \in Proc, NEW q \in Request, RedisCount(p, q) PROVE TypeOK'
  BY <1>3 DEF RedisCount, TypeOK
<1>4. ASSUME NEW p \in Proc, RedisAdd(p) \/ RedisError(p) PROVE TypeOK'
  BY <1>4, LimitAssumption DEF RedisAdd, RedisError, TypeOK
<1>5. ASSUME NEW p \in Proc, Restart(p) PROVE TypeOK'
  BY <1>5 DEF Restart, TypeOK
<1>6. CASE Tick \/ UNCHANGED vars
  BY <1>6 DEF Tick, vars, TypeOK
<1>7. QED
  BY <1>1, <1>2, <1>3, <1>4, <1>5, <1>6 DEF Next, IsAllowed

(* The types hold throughout.                                               *)
THEOREM TypeCorrect == Spec => []TypeOK
<1>1. Init => TypeOK
  BY NoneAssumption DEF Init, TypeOK, Verdict
<1>2. QED
  BY <1>1, TypeOKStep, PTL DEF Spec

-----------------------------------------------------------------------------
(* What the backends hold.                                                  *)

(* The lists hold what their backend has recorded, and of that at least     *)
(* what is inside the window; the sorted set expires after its last entry   *)
(* has left the window.                                                     *)
Recorded ==
    /\ \A q \in Request : stamp[q] <= now
    /\ \A p \in Proc : \A q \in mem[p] : limiter[q] = p /\ verdict[q] = "passed"
    /\ \A p \in Proc, q \in Request :
          limiter[q] = p /\ verdict[q] = "passed" /\ stamp[q] + Window > now => q \in mem[p]
    /\ \A q \in zset : /\ limiter[q] = Redis /\ verdict[q] \in {"passed", "failed"}
                       /\ stamp[q] + Window < ttl
    /\ \A q \in Request :
          limiter[q] = Redis /\ verdict[q] = "passed" /\ stamp[q] + Window > now => q \in zset
    /\ \A q \in Request : verdict[q] = "counted" => \E p \in Proc : counted[p] = q

(* Every step keeps this (both limiters, restarts and time).                *)
LEMMA RecordedStep ==
    ASSUME TypeOK, Recorded, [Next]_vars
    PROVE  Recorded'
<1> USE NoneAssumption, LimitAssumption DEF redisVars, Verdict, Live, Judge
<1>1. ASSUME NEW p \in Proc, PickBackend(p) PROVE Recorded'
  BY <1>1 DEF PickBackend, Recorded
<1>2. ASSUME NEW p \in Proc, NEW q \in Request, MemoryAdmit(p, q) PROVE Recorded'
  BY <1>2 DEF MemoryAdmit, TypeOK, Recorded
<1>3. ASSUME NEW p \in Proc, NEW q \in Request, MemoryRefuse(p, q) PROVE Recorded'
  BY <1>3 DEF MemoryRefuse, TypeOK, Recorded
<1>4. ASSUME NEW p \in Proc, NEW q \in Request, RedisCount(p, q) PROVE Recorded'
  BY <1>4 DEF RedisCount, TypeOK, Recorded
<1>5. ASSUME NEW p \in Proc, RedisAdd(p) PROVE Recorded'
  BY <1>5 DEF RedisAdd, TypeOK, Recorded
<1>6. ASSUME NEW p \in Proc, RedisError(p) PROVE Recorded'
  BY <1>6 DEF RedisError, TypeOK, Recorded
<1>7. ASSUME NEW p \in Proc, Restart(p) PROVE Recorded'
  BY <1>7 DEF Restart, TypeOK, Recorded
<1>8. CASE Tick
  BY <1>8 DEF Tick, TypeOK, Recorded
<1>9. CASE UNCHANGED vars
  BY <1>9 DEF vars, Recorded
<1>10. QED
  BY <1>1, <1>2, <1>3, <1>4, <1>5, <1>6, <1>7, <1>8, <1>9 DEF Next, IsAllowed

-----------------------------------------------------------------------------
(* How many requests pass.                                                  *)

(* Sets of requests are finite, and a subset is not larger.                 *)
LEMMA Smaller ==
    ASSUME NEW T \in SUBSET Request, NEW S \in SUBSET T
    PROVE  /\ IsFiniteSet(S) /\ IsFiniteSet(T)
           /\ Cardinality(S) \in Nat /\ Cardinality(T) \in Nat
           /\ Cardinality(S) <= Cardinality(T)
<1>1. IsFiniteSet(T)
  BY ProcAssumption, FS_Subset
<1>2. QED
  BY <1>1, FS_Subset, FS_CardinalityType

(* The size of a union and of a set with one more element.                  *)
LEMMA Larger ==
    ASSUME NEW S \in SUBSET Request, NEW T \in SUBSET Request, NEW x
    PROVE  /\ Cardinality(S \cup T) <= Cardinality(S) + Cardinality(T)
           /\ Cardinality(S \cup {x}) <= Cardinality(S) + 1
<1>1. /\ IsFiniteSet(S) /\ Cardinality(S) \in Nat
      /\ IsFiniteSet(T) /\ Cardinality(T) \in Nat
      /\ IsFiniteSet(S \cap T) /\ Cardinality(S \cap T) \in Nat
  BY Smaller
<1>2. Cardinality(S \cup T) = Cardinality(S) + Cardinality(T) - Cardinality(S \cap T)
  BY <1>1, FS_Union
<1>3. Cardinality(S \cup {x}) = IF x \in S THEN Cardinality(S) ELSE Cardinality(S) + 1
  BY <1>1, FS_AddElement
<1>4. QED
  BY <1>1, <1>2, <1>3

InFlight == {q \in Request : verdict[q] = "counted"}

(* Each process adds one request at a time, so there are no more of them    *)
(* than busy processes (RedisRateLimiter.is_allowed is synchronous).        *)
LEMMA FewInFlight ==
    ASSUME TypeOK, Recorded, NEW P \in SUBSET Proc, \A p \in Proc \ P : counted[p] = None
    PROVE  Cardinality(InFlight) <= Cardinality(P)
<1> DEFINE Busy == {p \in P : counted[p] # None}
           f == [p \in Busy |-> counted[p]]
<1>1. /\ IsFiniteSet(Busy) /\ Cardinality(Busy) <= Cardinality(P)
      /\ Cardinality(Busy) \in Nat /\ Cardinality(P) \in Nat
  BY ProcAssumption, FS_Subset, FS_CardinalityType
<1>2. f \in Surjection(Busy, InFlight)
  <2>1. f \in [Busy -> InFlight]
    BY DEF TypeOK, InFlight
  <2>2. ASSUME NEW q \in InFlight PROVE \E p \in Busy : f[p] = q
    BY <2>2, NoneAssumption DEF Recorded, InFlight
  <2>3. QED
    BY <2>1, <2>2 DEF Surjection
<1>3. Cardinality(InFlight) <= Cardinality(Busy) /\ Cardinality(InFlight) \in Nat
  BY <1>1, <1>2, FS_Surjection, FS_CardinalityType
<1>4. QED
  BY <1>1, <1>3

\* The requests that Redis let through, or is about to, in the window that
\* ends at t.
Through(t) ==
    {q \in Request : /\ limiter[q] = Redis /\ verdict[q] \in {"passed", "counted"}
                     /\ stamp[q] <= t /\ t < stamp[q] + Window}

ThroughLimit == \A t \in 0 .. now : Cardinality(Through(t)) < Limit + Cardinality(Proc)

(* A part of what passed in some window is within the limits (both          *)
(* is_allowed).                                                             *)
LEMMA PartPassed ==
    ASSUME MemoryLimit, NEW p \in Proc, NEW u \in 0 .. now, NEW S \in SUBSET PassedIn(p, u)
    PROVE  Cardinality(S) <= Limit
<1>1. PassedIn(p, u) \in SUBSET Request
  BY DEF PassedIn
<1>2. QED
  BY <1>1, Smaller, LimitAssumption DEF MemoryLimit

LEMMA PartThrough ==
    ASSUME ThroughLimit, NEW u \in 0 .. now, NEW S \in SUBSET Through(u)
    PROVE  Cardinality(S) < Limit + Cardinality(Proc)
<1>1. Through(u) \in SUBSET Request
  BY DEF Through
<1>2. Cardinality(Proc) \in Nat
  BY ProcAssumption, FS_CardinalityType
<1>3. QED
  BY <1>1, <1>2, Smaller, LimitAssumption DEF ThroughLimit

(* A process on its own memory keeps the limit when it lets q through: what *)
(* passed in the window that ends now is on its list                        *)
(* (InMemoryRateLimiter.is_allowed).                                        *)
LEMMA MemoryAdmits ==
    ASSUME TypeOK, Recorded, MemoryLimit,
           NEW p \in Proc, NEW q \in Request, MemoryAdmit(p, q)
    PROVE  MemoryLimit'
<1> USE DEF Judge, redisVars
<1>1. ASSUME NEW o \in Proc, NEW t \in 0 .. now, t < now \/ o # p
      PROVE  Cardinality(PassedIn(o, t)') <= Limit
  <2>1. PassedIn(o, t)' \subseteq PassedIn(o, t)
    BY <1>1 DEF MemoryAdmit, PassedIn, TypeOK
  <2>2. QED
    BY <2>1, PartPassed
<1>2. Cardinality(PassedIn(p, now)') <= Limit
  <2>1. PassedIn(p, now)' \subseteq Live(mem[p]) \cup {q}
    BY DEF MemoryAdmit, PassedIn, Live, TypeOK, Recorded
  <2>2. Live(mem[p]) \in SUBSET Request /\ Live(mem[p]) \cup {q} \in SUBSET Request
    BY DEF Live, TypeOK
  <2>3. IsFiniteSet(Live(mem[p])) /\ Cardinality(Live(mem[p])) \in Nat
    BY <2>2, Smaller
  <2>4. Cardinality(Live(mem[p]) \cup {q}) <= Cardinality(Live(mem[p])) + 1
    BY <2>2, Larger
  <2>5. Cardinality(Live(mem[p])) + 1 <= Limit
    BY <2>3, LimitAssumption DEF MemoryAdmit
  <2>6. /\ Cardinality(PassedIn(p, now)') <= Cardinality(Live(mem[p]) \cup {q})
        /\ Cardinality(PassedIn(p, now)') \in Nat
        /\ Cardinality(Live(mem[p]) \cup {q}) \in Nat
    BY <2>1, <2>2, Smaller
  <2>7. QED
    BY <2>3, <2>4, <2>5, <2>6, LimitAssumption
<1>3. now' = now /\ now \in Nat
  BY DEF MemoryAdmit, TypeOK
<1>4. QED
  BY <1>1, <1>2, <1>3 DEF MemoryLimit

(* The sorted set has fewer than Limit entries of the window that ends now, *)
(* and no other process adds more than one (RedisRateLimiter.is_allowed).   *)
LEMMA RedisAdmits ==
    ASSUME TypeOK, Recorded, ThroughLimit,
           NEW p \in Proc, NEW q \in Request, RedisCount(p, q)
    PROVE  ThroughLimit'
<1> USE DEF Judge, redisVars
<1> DEFINE P == Proc \ {p}
<1>1. ASSUME NEW t \in 0 .. now, t < now \/ verdict'[q] # "counted"
      PROVE  Cardinality(Through(t)') < Limit + Cardinality(Proc)
  <2>1. Through(t)' \subseteq Through(t)
    BY <1>1 DEF RedisCount, Through, TypeOK
  <2>2. QED
    BY <2>1, PartThrough
<1>2. ASSUME verdict'[q] = "counted"
      PROVE  Cardinality(Through(now)') < Limit + Cardinality(Proc)
  <2> DEFINE L == Live(zset)
  <2>1. Cardinality(L) < Limit
    BY <1>2 DEF RedisCount, TypeOK
  <2>2. Through(now)' \subseteq (L \cup InFlight) \cup {q}
    BY <1>2 DEF RedisCount, Through, InFlight, Live, TypeOK, Recorded
  <2>3. L \in SUBSET Request /\ InFlight \in SUBSET Request
    BY DEF Live, InFlight, TypeOK
  <2>4. /\ L \cup InFlight \in SUBSET Request
        /\ Cardinality(L) \in Nat /\ Cardinality(InFlight) \in Nat
        /\ Cardinality(L \cup InFlight) \in Nat
    BY <2>3, Smaller
  <2>5. Cardinality(InFlight) <= Cardinality(P)
    BY FewInFlight DEF RedisCount
  <2>6. Cardinality(P) = Cardinality(Proc) - 1 /\ Cardinality(Proc) \in Nat
    BY ProcAssumption, FS_RemoveElement, FS_CardinalityType
  <2>7. Cardinality(L \cup InFlight) <= Cardinality(L) + Cardinality(InFlight)
    BY <2>3, Larger
  <2>8. Cardinality((L \cup InFlight) \cup {q}) <= Cardinality(L \cup InFlight) + 1
    BY <2>4, Larger
  <2>9. /\ Cardinality(Through(now)') <= Cardinality((L \cup InFlight) \cup {q})
        /\ Cardinality(Through(now)') \in Nat
        /\ Cardinality((L \cup InFlight) \cup {q}) \in Nat
    BY <2>2, <2>3, Smaller
  <2>10. QED
    BY <2>1, <2>4, <2>5, <2>6, <2>7, <2>8, <2>9, LimitAssumption
<1>3. now' = now /\ now \in Nat
  BY DEF RedisCount, TypeOK
<1>4. QED
  BY <1>1, <1>2, <1>3 DEF ThroughLimit

(* The other steps let no request through that was not under way already    *)
(* (refusals, the second pipeline, errors, restarts, time).                 *)
LEMMA OthersAdmitNone ==
    ASSUME TypeOK, Recorded, MemoryLimit, ThroughLimit, [Next]_vars
    PROVE  /\ MemoryLimit' \/ \E p \in Proc, q \in Request : MemoryAdmit(p, q)
           /\ ThroughLimit' \/ \E p \in Proc, q \in Request : RedisCount(p, q)
<1> USE DEF Judge, redisVars
<1>1. ASSUME now' = now,
             \A t \in 0 .. now : /\ \A p \in Proc : PassedIn(p, t)' \subseteq PassedIn(p, t)
                                 /\ Through(t)' \subseteq Through(t)
      PROVE  MemoryLimit' /\ ThroughLimit'
  BY <1>1, PartPassed, PartThrough DEF MemoryLimit, ThroughLimit
<1>2. ASSUME NEW p \in Proc, PickBackend(p) \/ RedisAdd(p) \/ RedisError(p) \/ Restart(p)
      PROVE  MemoryLimit' /\ ThroughLimit'
  <2>1. now' = now
    BY <1>2 DEF PickBackend, RedisAdd, RedisError, Restart
  <2>2. ASSUME NEW t \in 0 .. now, NEW o \in Proc
        PROVE  PassedIn(o, t)' \subseteq PassedIn(o, t) /\ Through(t)' \subseteq Through(t)
    BY <1>2, NoneAssumption
    DEF PickBackend, RedisAdd, RedisError, Restart, PassedIn, Through, TypeOK
  <2>3. QED
    BY <1>1, <2>1, <2>2
<1>3. ASSUME NEW p \in Proc, NEW q \in Request, MemoryRefuse(p, q)
      PROVE  MemoryLimit' /\ ThroughLimit'
  <2>1. now' = now
    BY <1>3 DEF MemoryRefuse
  <2>2. ASSUME NEW t \in 0 .. now, NEW o \in Proc
        PROVE  PassedIn(o, t)' \subseteq PassedIn(o, t) /\ Through(t)' \subseteq Through(t)
    BY <1>3 DEF MemoryRefuse, PassedIn, Through, TypeOK
  <2>3. QED
    BY <1>1, <1>3, <2>1, <2>2
<1>4. ASSUME NEW p \in Proc, NEW q \in Request, MemoryAdmit(p, q) PROVE ThroughLimit'
  <2>1. now' = now
    BY <1>4 DEF MemoryAdmit
  <2>2. ASSUME NEW t \in 0 .. now PROVE Through(t)' \subseteq Through(t)
    BY <1>4, NoneAssumption DEF MemoryAdmit, Through, TypeOK
  <2>3. QED
    BY <2>1, <2>2, PartThrough DEF ThroughLimit
<1>5. ASSUME NEW p \in Proc, NEW q \in Request, RedisCount(p, q) PROVE MemoryLimit'
  <2>1. now' = now
    BY <1>5 DEF RedisCount
  <2>2. ASSUME NEW t \in 0 .. now, NEW o \in Proc PROVE PassedIn(o, t)' \subseteq PassedIn(o, t)
    BY <1>5, NoneAssumption DEF RedisCount, PassedIn, TypeOK
  <2>3. QED
    BY <2>1, <2>2, PartPassed DEF MemoryLimit
<1>6. CASE Tick
  <2>1. ASSUME NEW t \in 0 .. now'
        PROVE  \E u \in 0 .. now :
                  /\ \A o \in Proc : PassedIn(o, t)' \subseteq PassedIn(o, u)
                  /\ Through(t)' \subseteq Through(u)
    <3>1. CASE t \in 0 .. now
      BY <1>6, <3>1 DEF Tick, PassedIn, Through
    <3>2. CASE t = now + 1
      <4>1. now \in 0 .. now
        BY DEF TypeOK
      <4>2. /\ \A o \in Proc : PassedIn(o, t)' \subseteq PassedIn(o, now)
            /\ Through(t)' \subseteq Through(now)
        BY <1>6, <3>2, LimitAssumption DEF Tick, PassedIn, Through, TypeOK, Recorded
      <4>3. QED
        BY <4>1, <4>2
    <3>3. QED
      BY <1>6, <2>1, <3>1, <3>2 DEF Tick, TypeOK
  <2>2. MemoryLimit'
    BY <2>1, PartPassed DEF MemoryLimit
  <2>3. ThroughLimit'
    BY <2>1, PartThrough DEF ThroughLimit
  <2>4. QED
    BY <2>2, <2>3
<1>7. CASE UNCHANGED vars
  BY <1>7 DEF vars, MemoryLimit, ThroughLimit, PassedIn, Through
<1>8. QED
  BY <1>2, <1>3, <1>4, <1>5, <1>6, <1>7 DEF Next, IsAllowed

-----------------------------------------------------------------------------
(* The theorems.                                                            *)

\* The inductive invariant.  MemoryLimit and RedisLimit alone are not: they
\* say neither what a backend still has on its list nor what is being added.
LimitInv == TypeOK /\ Recorded /\ MemoryLimit /\ ThroughLimit

(* The invariant holds throughout (both limiters).                          *)
LEMMA LimitInvCorrect == Spec => []LimitInv
<1>1. Init => LimitInv
  <2> SUFFICES ASSUME Init PROVE LimitInv
    OBVIOUS
  <2>1. TypeOK
    BY NoneAssumption DEF Init, TypeOK, Verdict
  <2>2. Recorded
    BY NoneAssumption DEF Init, Recorded
  <2>3. ASSUME NEW t \in 0 .. now
        PROVE  Through(t) = {} /\ \A p \in Proc : PassedIn(p, t) = {}
    BY NoneAssumption DEF Init, PassedIn, Through
  <2>4. Cardinality({}) = 0 /\ Cardinality(Proc) \in Nat
    BY FS_EmptySet, ProcAssumption, FS_CardinalityType
  <2>5. MemoryLimit
    BY <2>3, <2>4, LimitAssumption DEF MemoryLimit
  <2>6. ThroughLimit
    BY <2>3, <2>4, LimitAssumption DEF ThroughLimit
  <2>7. QED
    BY <2>1, <2>2, <2>5, <2>6 DEF LimitInv
<1>2. LimitInv /\ [Next]_vars => LimitInv'
  <2> SUFFICES ASSUME LimitInv, [Next]_vars PROVE LimitInv'
    OBVIOUS
  <2> USE DEF LimitInv
  <2>1. TypeOK' /\ Recorded'
    BY TypeOKStep, RecordedStep
  <2>2. MemoryLimit' /\ ThroughLimit'
    BY OthersAdmitNone, MemoryAdmits, RedisAdmits
  <2>3. QED
    BY <2>1, <2>2
<1>3. QED
  BY <1>1, <1>2, PTL DEF Spec

(* A process on its own memory never lets more than Limit requests through  *)
(* in a window (InMemoryRateLimiter).                                       *)
THEOREM MemoryKeepsLimit == Spec => []MemoryLimit
<1>1. LimitInv => MemoryLimit
  BY DEF LimitInv
<1>2. QED
  BY <1>1, LimitInvCorrect, PTL

(* Processes that share Redis exceed the limit by less than their number    *)
(* (RedisRateLimiter).                                                      *)
THEOREM RedisNearLimit == Spec => []RedisLimit
<1>1. LimitInv => RedisLimit
  <2> SUFFICES ASSUME LimitInv, NEW t \in 0 .. now
               PROVE  Cardinality(PassedIn(Redis, t)) < Limit + Cardinality(Proc)
    BY DEF RedisLimit
  <2>1. PassedIn(Redis, t) \subseteq Through(t)
    BY DEF PassedIn, Through
  <2>2. QED
    BY <2>1, PartThrough DEF LimitInv
<1>2. QED
  BY <1>1, LimitInvCorrect, PTL

(* No request is refused unless the window is full of requests that were    *)
(* not (both is_allowed).                                                   *)
THEOREM RefusalsJustified == Spec => RefusedOnlyWhenFull
<1> DEFINE Full(L) == {e \in Request : /\ limiter[e] = L
                                       /\ verdict[e] \in {"passed", "failed"}
                                       /\ stamp[e] + Window > now}
           Justified == \A q \in Request :
               verdict'[q] = "refused" /\ verdict[q] # "refused" =>
                   Cardinality(Full(limiter'[q])) >= Limit
<1>1. LimitInv /\ [Next]_vars => [Justified]_vars
  <2> SUFFICES ASSUME LimitInv, Next PROVE Justified
    OBVIOUS
  <2> USE DEF LimitInv, Judge
  <2>1. ASSUME NEW L \in Proc \cup {Redis}, NEW S \in SUBSET Full(L), Cardinality(S) >= Limit
        PROVE  Cardinality(Full(L)) >= Limit
    <3>1. Full(L) \in SUBSET Request
      OBVIOUS
    <3>2. QED
      BY <2>1, <3>1, Smaller, LimitAssumption
  <2>2. ASSUME NEW p \in Proc, NEW q \in Request, MemoryRefuse(p, q) PROVE Justified
    <3>1. Live(mem[p]) \in SUBSET Full(p)
      BY DEF Live, TypeOK, Recorded
    <3>2. Cardinality(Full(p)) >= Limit
      BY <2>1, <2>2, <3>1 DEF MemoryRefuse
    <3>3. \A e \in Request : verdict'[e] # verdict[e] => limiter'[e] = p
      BY <2>2 DEF MemoryRefuse, TypeOK
    <3>4. QED
      BY <3>2, <3>3
  <2>3. ASSUME NEW p \in Proc, NEW q \in Request, RedisCount(p, q) PROVE Justified
    <3>1. CASE verdict'[q] = "refused"
      <4>1. Live(zset) \in SUBSET Full(Redis)
        BY DEF Live, TypeOK, Recorded
      <4>2. Cardinality(Full(Redis)) >= Limit
        BY <2>1, <2>3, <3>1, <4>1 DEF RedisCount, TypeOK
      <4>3. \A e \in Request : verdict'[e] # verdict[e] => limiter'[e] = Redis
        BY <2>3 DEF RedisCount, TypeOK
      <4>4. QED
        BY <4>2, <4>3
    <3>2. CASE verdict'[q] # "refused"
      BY <2>3, <3>2 DEF RedisCount, TypeOK
    <3>3. QED
      BY <3>1, <3>2
  <2>4. ASSUME NEW p \in Proc, NEW q \in Request, MemoryAdmit(p, q) PROVE Justified
    BY <2>4 DEF MemoryAdmit, TypeOK
  <2>5. ASSUME NEW p \in Proc, PickBackend(p) \/ RedisAdd(p) \/ RedisError(p) \/ Restart(p)
        PROVE  Justified
    BY <2>5 DEF PickBackend, RedisAdd, RedisError, Restart, TypeOK
  <2>6. CASE Tick
    BY <2>6 DEF Tick
  <2>7. QED
    BY <2>2, <2>3, <2>4, <2>5, <2>6 DEF Next, IsAllowed
<1>2. QED
  BY <1>1, LimitInvCorrect, PTL DEF Spec, RefusedOnlyWhenFull
=============================================================================
