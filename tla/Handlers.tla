------------------------------ MODULE Handlers ------------------------------
(***************************************************************************)
(* What the request handlers of the modules that extend this one have in   *)
(* common: where each is, what it has read or was given, and how it begins *)
(* and ends its transaction (app/db.py, get_db).                           *)
(***************************************************************************)
EXTENDS DbPool

CONSTANT None   \* nothing read, no row, no owner

VARIABLES
    pc,     \* where each request is
    arg     \* what it was given and has read so far

reqVars == <<pc, arg, conn>>

HandlersInit ==
    /\ pc   = [r \in Req |-> "idle"]
    /\ arg  = [r \in Req |-> None]
    /\ conn = {}

\* Request r goes on to another state, knowing a.
Goto(r, to, a) ==
    /\ pc'  = [pc EXCEPT ![r] = to]
    /\ arg' = [arg EXCEPT ![r] = a]

\* An idle request runs its first statements.
Start(r, to, a) == pc[r] = "idle" /\ Checkout(r) /\ Goto(r, to, a)

\* The answer, or the exception: whatever is open is closed.
Answer(r) == Goto(r, "idle", None) /\ Return(r)

\* An idle request does all it does in one transaction.
AtOnce(r) == pc[r] = "idle" /\ OneShot /\ UNCHANGED <<pc, arg>>

\* The process of the requests S dies; its successor knows nothing of them.
Restart(S) ==
    /\ pc'   = [r \in Req |-> IF r \in S THEN "idle" ELSE pc[r]]
    /\ arg'  = [r \in Req |-> IF r \in S THEN None ELSE arg[r]]
    /\ conn' = conn \ S
=============================================================================
