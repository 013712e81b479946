----------------------------- MODULE OAuthState -----------------------------
(***************************************************************************)
(* The state parameter of single sign-on and of service connections:       *)
(* stored when a flow is started, looked up, deleted and checked by one of *)
(* the callbacks (app/oauth.py, app/oauth_redis.py, the callbacks of       *)
(* app/routers.py and app/routers_services.py).                            *)
(*                                                                         *)
(* Each process keeps states in Redis, or in its own memory if Redis did   *)
(* not answer when it was first needed.  The Redis client is synchronous:  *)
(* a callback's calls to it are not interleaved with other requests of the *)
(* same process, but they are with other processes.                        *)
(***************************************************************************)
EXTENDS Handlers

CONSTANTS
    Proc,       \* processes and replicas of the service
    ProcOf,     \* the process that serves each request
    State,      \* state tokens
    Service     \* what a service state connects: "gmail", "slack", ...

ASSUME ProcAssumption == ProcOf \in [Req -> Proc]

VARIABLES
    backend,    \* where each process keeps states
    redis,      \* the states in Redis
    mem,        \* the states in each process's _memory_store
    kind,       \* what each state was made for: "login" or a service
    young,      \* the states younger than OAUTH_STATE_EXPIRY_SECONDS
    accepted    \* history: how often each process went on with a state

oauthVars == <<backend, redis, mem, kind, young, accepted>>

OAuthInit ==
    /\ backend  = [p \in Proc |-> "untried"]
    /\ redis    = {}
    /\ mem      = [p \in Proc |-> {}]
    /\ kind     = [s \in State |-> None]
    /\ young    = {}
    /\ accepted = [s \in State |-> [p \in Proc |-> 0]]

\* Inside a callback's calls to the store, which block the event loop.
InStore == {"peeked", "got"}
Busy(p) == \E r \in Req : ProcOf[r] = p /\ pc[r] \in InStore

\* get_oauth_state finds s from process p.
Holds(p, s) == s \in (IF backend[p] = "redis" THEN redis ELSE mem[p])

\* Mutant: the key in Redis is missed.
Forget_MemoryOnly(p, s) ==
    /\ UNCHANGED redis
    /\ mem' = IF backend[p] = "memory" THEN [mem EXCEPT ![p] = @ \ {s}] ELSE mem

\* delete_oauth_state
Forget(p, s) ==
    /\ redis' = IF backend[p] = "redis" THEN redis \ {s} ELSE redis
    /\ mem'   = IF backend[p] = "memory" THEN [mem EXCEPT ![p] = @ \ {s}] ELSE mem

\* The process goes on with s.
Accept(p, s) == accepted' = [accepted EXCEPT ![s][p] = @ + 1]

-----------------------------------------------------------------------------
(* Starting a flow.                                                         *)

\* The first call of get_redis_client decides for good.
ChooseBackend(p) ==
    /\ backend[p] = "untried"
    /\ \E b \in {"redis", "memory"} : backend' = [backend EXCEPT ![p] = b]
    /\ UNCHANGED <<redis, mem, kind, young, accepted, reqVars>>

\* generate_oauth_state with the token s.
Generate(p, s, what) ==
    /\ backend[p] # "untried" /\ ~Busy(p)
    /\ kind[s] = None
    /\ kind'  = [kind EXCEPT ![s] = what]
    /\ young' = young \cup {s}
    /\ redis' = IF backend[p] = "redis" THEN redis \cup {s} ELSE redis
    /\ mem'   = IF backend[p] = "memory" THEN [mem EXCEPT ![p] = @ \cup {s}] ELSE mem
    /\ UNCHANGED <<backend, accepted, reqVars>>

InitiateLogin(p, s) == Generate(p, s, "login")

\* For a user whose identity is read first.
InitiateService(p, s, service) == Free /\ Generate(p, s, service)

-----------------------------------------------------------------------------
(* The callbacks.                                                           *)

\* Mutant: the calls to Redis are awaited, and other requests run meanwhile.
Callback_Awaits(r, s) == kind[s] # None /\ pc[r] = "idle"

Callback(r, s) == ~Busy(ProcOf[r]) /\ kind[s] # None /\ pc[r] = "idle"

At(s, route) == [state |-> s, route |-> route]

\* The routes with a provider hand s to validate_oauth_state, which reads it;
\* what the state was made for is not looked at.
PathCallback(r, s) ==
    /\ Callback(r, s) /\ Holds(ProcOf[r], s)
    /\ Goto(r, "got", At(s, "path"))
    /\ UNCHANGED <<oauthVars, conn>>

\* The routes without one read s twice: here to learn what it is for.
CompatCallback(r, s) ==
    /\ Callback(r, s) /\ Holds(ProcOf[r], s)
    /\ Goto(r, "peeked", At(s, "compat"))
    /\ UNCHANGED <<oauthVars, conn>>

\* The callbacks of the service routes read the user first, and keep the
\* connection.
ServiceCallback(r, s) ==
    /\ Callback(r, s) /\ Holds(ProcOf[r], s)
    /\ Checkout(r)
    /\ Goto(r, "got", At(s, "service"))
    /\ UNCHANGED oauthVars

\* validate_oauth_state reads s again.  It may be gone: 400, except for a
\* service connection, which ignores the result.
ValidateRead(r) ==
    LET s == arg[r].state
        p == ProcOf[r] IN
    /\ pc[r] = "peeked"
    /\ \/ /\ Holds(p, s)
          /\ Goto(r, "got", arg[r])
          /\ UNCHANGED <<accepted, conn>>
       \/ /\ ~Holds(p, s) /\ kind[s] \in Service
          /\ Goto(r, "exchange", arg[r])
          /\ Accept(p, s)
          /\ UNCHANGED conn
       \/ /\ ~Holds(p, s) /\ kind[s] = "login"
          /\ Answer(r)
          /\ UNCHANGED accepted
    /\ UNCHANGED <<backend, redis, mem, kind, young>>

\* The compatibility route connects a service with the data it peeked at.
IgnoresResult(r) == arg[r].route = "compat" /\ kind[arg[r].state] \in Service

\* The result is a sign-on: any fresh state, on a route that looks no further.
ValidatedForLogin(r) ==
    /\ \/ arg[r].route = "path"
       \/ arg[r].route = "compat" /\ kind[arg[r].state] = "login"
    /\ arg[r].state \in young

\* The service routes ask for a fresh state of a service.
ValidatedForService(r) ==
    /\ arg[r].route = "service"
    /\ kind[arg[r].state] \in Service
    /\ arg[r].state \in young

\* delete_oauth_state, the expiry, and what the route makes of the result.
\* The sign-on itself, which follows, is Account's.
ValidateConsume(r) ==
    LET s == arg[r].state
        p == ProcOf[r] IN
    /\ pc[r] = "got"
    /\ Forget(p, s)
    /\ \/ ValidatedForLogin(r) /\ Accept(p, s) /\ Answer(r)
       \/ /\ IgnoresResult(r) \/ ValidatedForService(r)
          /\ Accept(p, s)
          /\ Goto(r, "exchange", arg[r])
          /\ UNCHANGED conn
       \/ ~IgnoresResult(r) /\ Answer(r) /\ UNCHANGED accepted
    /\ UNCHANGED <<backend, kind, young>>

\* Redis fails inside a callback: 500, the deletion done or not.
RedisError(r) ==
    LET p == ProcOf[r] IN
    /\ pc[r] \in InStore /\ backend[p] = "redis"
    /\ Answer(r)
    /\ \/ UNCHANGED <<redis, mem>>
       \/ pc[r] = "got" /\ Forget(p, arg[r].state)
    /\ UNCHANGED <<backend, kind, young, accepted>>

-----------------------------------------------------------------------------
(* Time.                                                                    *)

\* Ten minutes are over.
Age(s) ==
    /\ s \in young
    /\ young' = young \ {s}
    /\ UNCHANGED <<backend, redis, mem, kind, accepted, reqVars>>

\* Redis drops the key; nothing drops one kept in memory.
RedisExpire(s) ==
    /\ s \in redis \ young
    /\ redis' = redis \ {s}
    /\ UNCHANGED <<backend, mem, kind, young, accepted, reqVars>>

\* What a restart of process p does to the states.
ForgetProcess(p) ==
    /\ backend' = [backend EXCEPT ![p] = "untried"]
    /\ mem'     = [mem EXCEPT ![p] = {}]
    /\ UNCHANGED <<redis, kind, young, accepted>>

OAuthStep(r) == ValidateRead(r) \/ ValidateConsume(r) \/ RedisError(r)

OAuthNext ==
    \/ \E p \in Proc : ChooseBackend(p)
    \/ \E p \in Proc, s \in State :
          InitiateLogin(p, s) \/ \E service \in Service : InitiateService(p, s, service)
    \/ \E r \in Req, s \in State :
          PathCallback(r, s) \/ CompatCallback(r, s) \/ ServiceCallback(r, s)
    \/ \E r \in Req : OAuthStep(r)
    \/ \E s \in State : Age(s) \/ RedisExpire(s)

OAuthTypes ==
    /\ backend \in [Proc -> {"untried", "redis", "memory"}]
    /\ redis \in SUBSET State
    /\ mem   \in [Proc -> SUBSET State]
    /\ kind  \in [State -> Service \cup {"login", None}]
    /\ young \in SUBSET State
    /\ accepted \in [State -> [Proc -> Nat]]
    /\ \A r \in Req : pc[r] \in InStore =>
          arg[r] \in [state : {s \in State : kind[s] # None}, route : {"path", "compat", "service"}]
    /\ \A r \in Req : pc[r] = "peeked" => arg[r].route = "compat"

-----------------------------------------------------------------------------
(* "Validate and consume OAuth state": a process goes on with a state once  *)
(* at most, whichever callbacks it is sent to, restarts and errors of Redis *)
(* included (validate_oauth_state, also where its result is ignored).       *)
AcceptedOncePerProcess == \A s \in State, p \in Proc : accepted[s][p] <= 1

(* A state that any process has gone on with is found by none of them: only  *)
(* callbacks that overlap can both use it, never a later one (get and       *)
(* delete in oauth_redis.py).                                               *)
AcceptedIsGone ==
    \A s \in State : (\E q \in Proc : accepted[s][q] > 0) => \A p \in Proc : ~Holds(p, s)
=============================================================================
