----------------------------- MODULE MemberRole -----------------------------
(***************************************************************************)
(* The role in one user's active membership: the updates that billing      *)
(* sends, signed, dated and numbered by a nonce (app/routers.py), and the  *)
(* script that replaces the role "owner" (migrations/migrate_owner_roles). *)
(* The network may deliver an update more than once, late or never.        *)
(***************************************************************************)
EXTENDS Handlers

CONSTANTS
    Update,     \* signed updates, each with a nonce of its own
    Role        \* roles; "owner" is the one the script replaces

ASSUME RoleAssumption == "owner" \in Role /\ None \notin Role

VARIABLES
    role,       \* role of the active membership, None without one
    asks,       \* the role that each update sent asks for, None before
    fresh,      \* the updates whose timestamp is within five minutes
    nonces,     \* the nonces in Redis
    script,     \* the role the script is about to write, None otherwise
    applied,    \* history: how often each update was written: 0, 1, 2 or more
    unchecked   \* history: Redis failed, and an update went on without it

roleVars == <<role, asks, fresh, nonces, script, applied, unchecked>>

RolesInit ==
    /\ role = "owner"
    /\ asks = [u \in Update |-> None]
    /\ fresh = {} /\ nonces = {}
    /\ script = None
    /\ applied = [u \in Update |-> 0]
    /\ unchecked = FALSE

-----------------------------------------------------------------------------
(* POST /auth/users/{user_id}/role                                          *)

\* Billing signs an update.
Send(u, x) ==
    /\ asks[u] = None
    /\ asks' = [asks EXCEPT ![u] = x]
    /\ fresh' = fresh \cup {u}
    /\ UNCHANGED <<role, nonces, script, applied, unchecked, reqVars>>

\* An update arrives, the first time or again: timestamp and signature.
Arrive(r, u) ==
    /\ pc[r] = "idle" /\ u \in fresh
    /\ Goto(r, "nonce", u)
    /\ UNCHANGED <<roleVars, conn>>

\* Is the nonce known?  If so, the exception is raised inside the try that
\* logs it and goes on.
CheckNonce(r) ==
    /\ pc[r] = "nonce"
    /\ Goto(r, IF arg[r] \in nonces THEN "load" ELSE "setNonce", arg[r])
    /\ UNCHANGED <<roleVars, conn>>

SetNonce(r) ==
    /\ pc[r] = "setNonce"
    /\ nonces' = nonces \cup {arg[r]}
    /\ Goto(r, "load", arg[r])
    /\ UNCHANGED <<role, asks, fresh, script, applied, unchecked, conn>>

\* "If Redis is unavailable, fail open for now".
NonceFails(r) ==
    /\ pc[r] \in {"nonce", "setNonce"}
    /\ Goto(r, "load", arg[r])
    /\ unchecked' = TRUE
    /\ UNCHANGED <<role, asks, fresh, nonces, script, applied, conn>>

\* The active membership: 404 without one.
LoadMembership(r) ==
    /\ pc[r] = "load"
    /\ \/ role # None /\ Checkout(r) /\ Goto(r, "write", [update |-> arg[r], read |-> role])
       \/ role = None /\ Free /\ Answer(r)
    /\ UNCHANGED roleVars

\* The role is written if it differs from the one that was read; a membership
\* that is gone raises.
WriteRole(r) ==
    LET u == arg[r].update IN
    /\ pc[r] = "write"
    /\ role' = IF role = None \/ asks[u] = arg[r].read THEN role ELSE asks[u]
    /\ applied' = IF role = None \/ applied[u] = 2 THEN applied
                  ELSE [applied EXCEPT ![u] = @ + 1]
    /\ Answer(r)
    /\ UNCHANGED <<asks, fresh, nonces, script, unchecked>>

\* The five minutes are over, and then the key in Redis.
Stale(u) ==
    /\ u \in fresh
    /\ fresh' = fresh \ {u}
    /\ UNCHANGED <<role, asks, nonces, script, applied, unchecked, reqVars>>

NonceExpires(u) ==
    /\ u \in nonces \ fresh
    /\ nonces' = nonces \ {u}
    /\ UNCHANGED <<role, asks, fresh, script, applied, unchecked, reqVars>>

-----------------------------------------------------------------------------
(* The script, in a process and on a connection of its own.                 *)

\* Mutant: a tier that is not known leaves the role as it is.
TierRoles_Owner == Role

\* What a tier maps to; none, or a failure, to "unsubscribed".
TierRoles == Role \ {"owner"}

\* It selects the owners and asks billing for the tier of each.
MigrateRead ==
    /\ script = None
    /\ role = "owner"
    /\ \E x \in TierRoles : script' = x
    /\ UNCHANGED <<role, asks, fresh, nonces, applied, unchecked, reqVars>>

\* UPDATE by id, whatever the role has become; then the commit.
MigrateCommit ==
    /\ script # None
    /\ role' = IF role = None THEN None ELSE script
    /\ script' = None
    /\ UNCHANGED <<asks, fresh, nonces, applied, unchecked, reqVars>>

\* It is interrupted, or was a dry run.
MigrateEnds ==
    /\ script # None
    /\ script' = None
    /\ UNCHANGED <<role, asks, fresh, nonces, applied, unchecked, reqVars>>

\* admin_delete_user, which ends the membership with the user.
EndMembership ==
    /\ role # None
    /\ OneShot
    /\ role' = None
    /\ UNCHANGED <<asks, fresh, nonces, script, applied, unchecked, pc, arg>>

InRoleTx == {"write"}
InRoleGap == {"nonce", "setNonce", "load"}

RolesNext ==
    \/ \E u \in Update : Stale(u) \/ NonceExpires(u)
    \/ \E u \in Update, x \in Role : Send(u, x)
    \/ \E r \in Req :
          \/ \E u \in Update : Arrive(r, u)
          \/ CheckNonce(r) \/ SetNonce(r) \/ NonceFails(r) \/ LoadMembership(r) \/ WriteRole(r)
    \/ MigrateRead \/ MigrateCommit \/ MigrateEnds
    \/ EndMembership

Sent == {u \in Update : asks[u] # None}

RoleTypes ==
    /\ role \in Role \cup {None}
    /\ asks \in [Update -> Role \cup {None}]
    /\ fresh \subseteq Sent
    /\ nonces \subseteq Sent
    /\ script \in Role \cup {None}
    /\ applied \in [Update -> 0..2]
    /\ unchecked \in BOOLEAN
    /\ \A r \in Req :
          /\ pc[r] \in InRoleGap => arg[r] \in Sent
          /\ pc[r] \in InRoleTx => arg[r] \in [update : Sent, read : Role]

(* "Check nonce to prevent replay attacks within the timestamp window":     *)
(* while Redis answers, an update is applied once (update_user_role).       *)
AppliedOnce == ~unchecked => \A u \in Update : applied[u] <= 1

(* A user who is not an owner becomes one only if billing asks for it: what *)
(* the script writes over an update that came while it was asking billing   *)
(* is never "owner" again (migrate_owner_roles, update_user_role).          *)
OwnerOnlyIfAsked ==
    [][role # "owner" /\ role' = "owner" =>
          \E r \in Req : pc[r] = "write" /\ asks[arg[r].update] = "owner"]_role
=============================================================================
