----------------------------- MODULE RateLimit -----------------------------
(***************************************************************************)
(* The sliding-window limiter in front of registration, refresh and reset  *)
(* (app/rate_limit.py), for one key (endpoint and client address).  Each   *)
(* process picks a backend at its first request: Redis, which the          *)
(* processes share, or its own memory if REDIS_URL is unset or the         *)
(* connection fails.  The calls are synchronous, so a process handles one  *)
(* request at a time; the two pipelines of different processes interleave. *)
(* Clocks agree, the time a call reads is that of its first pipeline, and  *)
(* Redis keeps its data.                                                   *)
(***************************************************************************)
EXTENDS Naturals, FiniteSets

CONSTANTS
    Proc,     \* the processes of the service
    Request,  \* requests with the same key
    Redis,    \* the shared backend
    None,     \* no backend, no request
    Limit,    \* limit
    Window,   \* window_seconds
    MaxTime   \* bound of the clock in TLC's instances

ASSUME ProcAssumption == IsFiniteSet(Proc) /\ IsFiniteSet(Request)
ASSUME NoneAssumption ==
    Redis \notin Proc /\ Redis # None /\ None \notin Proc \cup Request
ASSUME LimitAssumption == Limit \in Nat \ {0} /\ Window \in Nat \ {0} /\ MaxTime \in Nat

VARIABLES
    now,      \* time.time()
    backend,  \* _limiter of each process: None, Redis or the process itself
    mem,      \* the requests in _requests of each process
    zset,     \* the members of the sorted set in Redis
    ttl,      \* when the key of the sorted set expires
    counted,  \* the request a process is adding to the sorted set
    stamp,    \* the timestamp of each request
    verdict,  \* what became of each request
    limiter   \* history: the backend that saw it, None once that has restarted

redisVars == <<zset, ttl>>
vars == <<now, backend, mem, redisVars, counted, stamp, verdict, limiter>>

\* The members of S that are still inside the window.
Live(S) == {q \in S : stamp[q] + Window > now}

Judge(q, L, v) ==
    /\ limiter' = [limiter EXCEPT ![q] = L]
    /\ verdict' = [verdict EXCEPT ![q] = v]

-----------------------------------------------------------------------------
(* get_limiter at the first request of a process.                           *)
PickBackend(p) ==
    /\ backend[p] = None
    /\ \E L \in {Redis, p} : backend' = [backend EXCEPT ![p] = L]
    /\ UNCHANGED <<now, mem, redisVars, counted, stamp, verdict, limiter>>

-----------------------------------------------------------------------------
(* InMemoryRateLimiter.is_allowed                                           *)

\* Mutant: off by one.
MemoryAdmit_OneMore(p, q) ==
    /\ backend[p] = p /\ verdict[q] = "new"
    /\ Cardinality(Live(mem[p])) <= Limit
    /\ mem'   = [mem EXCEPT ![p] = Live(mem[p]) \cup {q}]
    /\ stamp' = [stamp EXCEPT ![q] = now]
    /\ Judge(q, p, "passed")
    /\ UNCHANGED <<now, backend, redisVars, counted>>

MemoryAdmit(p, q) ==
    /\ backend[p] = p /\ verdict[q] = "new"
    /\ Cardinality(Live(mem[p])) < Limit
    /\ mem'   = [mem EXCEPT ![p] = Live(mem[p]) \cup {q}]
    /\ stamp' = [stamp EXCEPT ![q] = now]
    /\ Judge(q, p, "passed")
    /\ UNCHANGED <<now, backend, redisVars, counted>>

MemoryRefuse(p, q) ==
    /\ backend[p] = p /\ verdict[q] = "new"
    /\ Cardinality(Live(mem[p])) >= Limit
    /\ mem' = [mem EXCEPT ![p] = Live(mem[p])]
    /\ Judge(q, p, "refused")
    /\ UNCHANGED <<now, backend, redisVars, counted, stamp>>

-----------------------------------------------------------------------------
(* RedisRateLimiter.is_allowed                                              *)

\* Mutant: the old entries are not removed first.
RedisCount_WithoutClean(p, q) ==
    /\ backend[p] = Redis /\ counted[p] = None /\ verdict[q] = "new"
    /\ \/ /\ Cardinality(zset) < Limit
          /\ counted' = [counted EXCEPT ![p] = q]
          /\ stamp'   = [stamp EXCEPT ![q] = now]
          /\ Judge(q, Redis, "counted")
       \/ /\ Cardinality(zset) >= Limit
          /\ Judge(q, Redis, "refused")
          /\ UNCHANGED <<counted, stamp>>
    /\ UNCHANGED <<now, backend, mem, redisVars>>

\* The first pipeline: old entries are removed, the rest counted.
RedisCount(p, q) ==
    /\ backend[p] = Redis /\ counted[p] = None /\ verdict[q] = "new"
    /\ zset' = Live(zset)
    /\ \/ /\ Cardinality(Live(zset)) < Limit
          /\ counted' = [counted EXCEPT ![p] = q]
          /\ stamp'   = [stamp EXCEPT ![q] = now]
          /\ Judge(q, Redis, "counted")
       \/ /\ Cardinality(Live(zset)) >= Limit
          /\ Judge(q, Redis, "refused")
          /\ UNCHANGED <<counted, stamp>>
    /\ UNCHANGED <<now, backend, mem, ttl>>

\* Mutant: the key expires as soon as its first second is over.
RedisAdd_ExpiresEarly(p) ==
    /\ counted[p] # None
    /\ zset' = zset \cup {counted[p]}
    /\ ttl'  = now + 1
    /\ verdict' = [verdict EXCEPT ![counted[p]] = "passed"]
    /\ counted' = [counted EXCEPT ![p] = None]
    /\ UNCHANGED <<now, backend, mem, stamp, limiter>>

\* The second pipeline: the request is added with the time it was counted at.
RedisAdd(p) ==
    /\ counted[p] # None
    /\ zset' = zset \cup {counted[p]}
    /\ ttl'  = now + Window + 1
    /\ verdict' = [verdict EXCEPT ![counted[p]] = "passed"]
    /\ counted' = [counted EXCEPT ![p] = None]
    /\ UNCHANGED <<now, backend, mem, stamp, limiter>>

\* Mutant: the request stays where the error found it.
RedisError_KeepsRequest(p) ==
    /\ counted[p] # None
    /\ verdict' = [verdict EXCEPT ![counted[p]] = "failed"]
    /\ UNCHANGED <<now, backend, mem, redisVars, counted, stamp, limiter>>

\* A timeout of the second pipeline, which may have taken effect: the request
\* ends in a 500.  (The first one leaves nothing but a cleaned set.)
RedisError(p) ==
    /\ counted[p] # None
    /\ verdict' = [verdict EXCEPT ![counted[p]] = "failed"]
    /\ counted' = [counted EXCEPT ![p] = None]
    /\ \/ zset' = zset \cup {counted[p]} /\ ttl' = now + Window + 1
       \/ UNCHANGED redisVars
    /\ UNCHANGED <<now, backend, mem, stamp, limiter>>

-----------------------------------------------------------------------------
(* Restarts and time.                                                       *)

\* The memory of a process goes with it, and so does the request in it.
Restart(p) ==
    /\ backend[p] # None
    /\ backend' = [backend EXCEPT ![p] = None]
    /\ mem'     = [mem EXCEPT ![p] = {}]
    /\ counted' = [counted EXCEPT ![p] = None]
    /\ verdict' = [q \in Request |-> IF q = counted[p] THEN "failed" ELSE verdict[q]]
    /\ limiter' = [q \in Request |-> IF limiter[q] = p THEN None ELSE limiter[q]]
    /\ UNCHANGED <<now, redisVars, stamp>>

Tick ==
    /\ now < MaxTime
    /\ now' = now + 1
    /\ zset' = IF now' >= ttl THEN {} ELSE zset
    /\ UNCHANGED <<backend, mem, ttl, counted, stamp, verdict, limiter>>

Init ==
    /\ now = 0
    /\ backend = [p \in Proc |-> None]
    /\ mem     = [p \in Proc |-> {}]
    /\ zset = {} /\ ttl = 0
    /\ counted = [p \in Proc |-> None]
    /\ stamp   = [q \in Request |-> 0]
    /\ verdict = [q \in Request |-> "new"]
    /\ limiter = [q \in Request |-> None]

IsAllowed(p, q) == MemoryAdmit(p, q) \/ MemoryRefuse(p, q) \/ RedisCount(p, q)

Next ==
    \/ \E p \in Proc : PickBackend(p) \/ RedisAdd(p) \/ RedisError(p) \/ Restart(p)
    \/ \E p \in Proc, q \in Request : IsAllowed(p, q)
    \/ Tick

Spec == Init /\ [][Next]_vars

-----------------------------------------------------------------------------
Verdict == {"new", "counted", "passed", "refused", "failed"}

(* Types; a process adds only a request that Redis has counted, and no two  *)
(* add the same one.                                                        *)
TypeOK ==
    /\ now \in Nat /\ ttl \in Nat
    /\ backend \in [Proc -> Proc \cup {Redis, None}]
    /\ mem  \in [Proc -> SUBSET Request]
    /\ zset \in SUBSET Request
    /\ counted \in [Proc -> Request \cup {None}]
    /\ stamp   \in [Request -> Nat]
    /\ verdict \in [Request -> Verdict]
    /\ limiter \in [Request -> Proc \cup {Redis, None}]
    /\ \A p \in Proc : counted[p] # None =>
        /\ backend[p] = Redis
        /\ verdict[counted[p]] = "counted" /\ limiter[counted[p]] = Redis
        /\ \A o \in Proc : counted[o] = counted[p] => o = p

\* The requests L let through in the window that ends at t.
PassedIn(L, t) ==
    {q \in Request : /\ limiter[q] = L /\ verdict[q] = "passed"
                     /\ stamp[q] <= t /\ t < stamp[q] + Window}

(* "limit: Maximum requests allowed in window": a process on its own memory *)
(* lets no more than Limit requests through in any window of its life       *)
(* (InMemoryRateLimiter.is_allowed).                                        *)
MemoryLimit == \A p \in Proc, t \in 0 .. now : Cardinality(PassedIn(p, t)) <= Limit

(* Through Redis the processes together exceed the limit by as many         *)
(* requests as there are other processes at most, whatever the delay        *)
(* between the two pipelines, and the key never expires with a live entry   *)
(* (RedisRateLimiter.is_allowed).                                           *)
RedisLimit ==
    \A t \in 0 .. now : Cardinality(PassedIn(Redis, t)) < Limit + Cardinality(Proc)

(* A request is refused only if its backend has recorded Limit requests of  *)
(* the last window that were not refused themselves: old entries and        *)
(* refused requests do not count (both is_allowed).                         *)
RefusedOnlyWhenFull ==
    [][\A q \in Request :
        verdict'[q] = "refused" /\ verdict[q] # "refused" =>
            Cardinality({e \in Request : /\ limiter[e] = limiter'[q]
                                         /\ verdict[e] \in {"passed", "failed"}
                                         /\ stamp[e] + Window > now}) >= Limit]_vars
=============================================================================
