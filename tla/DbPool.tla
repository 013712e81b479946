------------------------------- MODULE DbPool -------------------------------
(***************************************************************************)
(* The connection pool behind get_db (app/db.py).  A request's             *)
(* AsyncSession checks a connection out at its first statement and gives   *)
(* it back when the transaction ends (commit, or close of the session), so *)
(* `conn` is the set of requests inside a transaction.                     *)
(*                                                                         *)
(* PoolSize is pool_size + max_overflow.  The default (1 + 0) serialises   *)
(* the transactions of the process; a larger pool, or a second replica of  *)
(* the service on the same database, lets them interleave statement by     *)
(* statement (READ COMMITTED, no row is locked by any SELECT of app/).     *)
(***************************************************************************)
EXTENDS Naturals, FiniteSets

CONSTANTS
    Req,        \* the request handlers (asyncio tasks)
    PoolSize    \* AUTH_DB_POOL_SIZE + AUTH_DB_MAX_OVERFLOW, over all replicas

ASSUME PoolAssumption == IsFiniteSet(Req) /\ PoolSize \in Nat \ {0}

VARIABLE conn   \* the requests that hold a connection

\* A checkout would not have to wait.
Free == Cardinality(conn) < PoolSize

\* The first statement of a transaction.
Checkout(r) == Free /\ r \notin conn /\ conn' = conn \cup {r}

\* The commit, the rollback or the close that ends it.
Return(r) == conn' = conn \ {r}

\* A transaction that one step of a model runs from its first statement to
\* its commit.
OneShot == Free /\ UNCHANGED conn

\* The pool never hands out more connections than it has.
PoolBounded == conn \in SUBSET Req /\ Cardinality(conn) <= PoolSize
=============================================================================
