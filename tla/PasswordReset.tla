--------------------------- MODULE PasswordReset ---------------------------
(***************************************************************************)
(* Password reset links of one user: requested by the user                 *)
(* (/auth/forgot-password), sent by the owner (admin/reset-password), and  *)
(* redeemed (/auth/reset-password), with the e-mail that carries the link, *)
(* its expiry, blocking of the user and restarts.  What a reset does to    *)
(* the access tokens is TokenVersion's.                                    *)
(***************************************************************************)
EXTENDS DbPool

CONSTANTS
    Token,  \* reset tokens, each the row of password_reset_tokens it would have
    None    \* no token

ASSUME NoneAssumption == None \notin Token

VARIABLES
    row,      \* the row of each token
    hash,     \* how its token_hash was made
    active,   \* users.status = "active"
    pc,       \* where each request is
    tok,      \* the token it has made or was given
    loaded,   \* the rows its ORM session is about to mark as used
    mailed,   \* the tokens whose link has been delivered
    latest,   \* history: the last token that forgot_password committed
    uses,     \* history: how often each token has set the password
    refused   \* history: delivered tokens turned away though unused and unexpired

rowVars == <<row, hash>>
history == <<latest, uses, refused>>
reqVars == <<pc, tok, loaded>>
vars    == <<rowVars, active, reqVars, mailed, history, conn>>

\* "expired": not used, but past expires_at.
RowState == {"absent", "open", "expired", "used"}

\* States inside a transaction; "mail" comes after it.
InTx == {"forgot", "owner", "found", "checked"}

\* Rows with used_at IS NULL.
Unused == {t \in Token : row[t] \in {"open", "expired"}}

-----------------------------------------------------------------------------
(* Steps shared by the handlers.                                            *)

Goto(r, where) == pc' = [pc EXCEPT ![r] = where]

Finish(r) ==
    /\ pc'     = [pc EXCEPT ![r] = "idle"]
    /\ tok'    = [tok EXCEPT ![r] = None]
    /\ loaded' = [loaded EXCEPT ![r] = {}]

\* One commit: S is marked as used, t is inserted with its hash; the link to
\* t is mailed afterwards.
Issue(r, t, S, how) ==
    /\ row[t] = "absent"
    /\ row' = [u \in Token |-> IF u = t THEN "open" ELSE IF u \in S THEN "used" ELSE row[u]]
    /\ hash' = [hash EXCEPT ![t] = how]
    /\ tok'  = [tok EXCEPT ![r] = t]
    /\ loaded' = [loaded EXCEPT ![r] = {}]
    /\ Goto(r, "mail")
    /\ Return(r)

-----------------------------------------------------------------------------
(* POST /auth/forgot-password                                               *)

\* The user is read by e-mail and status, then the unused rows.
ForgotRead(r) ==
    /\ pc[r] = "idle" /\ active
    /\ Checkout(r)
    /\ Goto(r, "forgot")
    /\ loaded' = [loaded EXCEPT ![r] = Unused]
    /\ UNCHANGED <<rowVars, active, tok, mailed, history>>

\* Mutant: the earlier links stay open.
ForgotCommit_KeepsOld(r) ==
    /\ pc[r] = "forgot"
    /\ \E t \in Token : Issue(r, t, {}, "sha256") /\ latest' = t
    /\ UNCHANGED <<active, mailed, uses, refused>>

ForgotCommit(r) ==
    /\ pc[r] = "forgot"
    /\ \E t \in Token : Issue(r, t, loaded[r], "sha256") /\ latest' = t
    /\ UNCHANGED <<active, mailed, uses, refused>>

\* The mail arrives or not; the answer is the same.
Mail(r) ==
    /\ pc[r] = "mail"
    /\ \/ mailed' = mailed \cup {tok[r]}
       \/ UNCHANGED mailed
    /\ Finish(r)
    /\ UNCHANGED <<rowVars, active, history, conn>>

-----------------------------------------------------------------------------
(* POST /owner/auth/admin/reset-password/{id}                               *)

OwnerRead(r) ==
    /\ pc[r] = "idle"
    /\ Checkout(r)
    /\ Goto(r, "owner")
    /\ UNCHANGED <<rowVars, active, tok, loaded, mailed, history>>

\* hash_token salts the hash, and other rows are left as they are.
OwnerCommit(r) ==
    /\ pc[r] = "owner"
    /\ \E t \in Token : Issue(r, t, {}, "salted")
    /\ UNCHANGED <<active, mailed, history>>

-----------------------------------------------------------------------------
(* POST /auth/reset-password                                                *)

\* The row is looked up by the unsalted hash.
Found(t) == hash[t] = "sha256" /\ row[t] = "open"

\* Mutant: the filter on used_at is forgotten.
ResetLookup_UsedToo(r, t) ==
    /\ pc[r] = "idle" /\ t \in mailed
    /\ hash[t] = "sha256" /\ row[t] \in {"open", "used"}
    /\ Checkout(r)
    /\ Goto(r, "found")
    /\ tok' = [tok EXCEPT ![r] = t]
    /\ UNCHANGED <<rowVars, active, loaded, mailed, history>>

ResetLookup(r, t) ==
    /\ pc[r] = "idle" /\ t \in mailed
    /\ Found(t)
    /\ Checkout(r)
    /\ Goto(r, "found")
    /\ tok' = [tok EXCEPT ![r] = t]
    /\ UNCHANGED <<rowVars, active, loaded, mailed, history>>

\* No unused row, an expired one, or none with that hash: 400.
ResetRefused(r, t) ==
    /\ pc[r] = "idle" /\ t \in mailed
    /\ ~Found(t)
    /\ OneShot
    /\ refused' = IF row[t] = "open" THEN refused \cup {t} ELSE refused
    /\ UNCHANGED <<rowVars, active, reqVars, mailed, latest, uses>>

\* Mutant: the user's status is not looked at.
ResetCheckUser_AnyStatus(r) ==
    /\ pc[r] = "found"
    /\ Goto(r, "checked")
    /\ UNCHANGED <<rowVars, active, tok, loaded, mailed, history, conn>>

\* The user is read: 400 unless the status is "active".
ResetCheckUser(r) ==
    /\ pc[r] = "found"
    /\ \/ active /\ Goto(r, "checked") /\ UNCHANGED <<tok, loaded, conn>>
       \/ ~active /\ Finish(r) /\ Return(r)
    /\ UNCHANGED <<rowVars, active, mailed, history>>

\* Mutant: the connection is not given back.
ResetCommit_WithoutClose(r) ==
    /\ pc[r] = "checked"
    /\ row'  = [row EXCEPT ![tok[r]] = "used"]
    /\ uses' = [uses EXCEPT ![tok[r]] = @ + 1]
    /\ Finish(r)
    /\ UNCHANGED <<hash, active, mailed, latest, refused, conn>>

\* The password is set, the token marked as used.
ResetCommit(r) ==
    /\ pc[r] = "checked"
    /\ row'  = [row EXCEPT ![tok[r]] = "used"]
    /\ uses' = [uses EXCEPT ![tok[r]] = @ + 1]
    /\ Return(r)
    /\ Finish(r)
    /\ UNCHANGED <<hash, active, mailed, latest, refused>>

-----------------------------------------------------------------------------
(* The rest of the world.                                                   *)

\* admin_block_user and admin_unblock_user, one transaction each.
SetActive(value) ==
    /\ active # value
    /\ OneShot
    /\ active' = value
    /\ UNCHANGED <<rowVars, reqVars, mailed, history>>

\* Time passes expires_at.
Expire(t) ==
    /\ row[t] = "open"
    /\ row' = [row EXCEPT ![t] = "expired"]
    /\ UNCHANGED <<hash, active, reqVars, mailed, history, conn>>

\* A statement or the commit fails.
DbError(r) ==
    /\ pc[r] \in InTx
    /\ Return(r)
    /\ Finish(r)
    /\ UNCHANGED <<rowVars, active, mailed, history>>

\* The process dies and restarts: a link not mailed yet never is.
Crash ==
    /\ \E r \in Req : pc[r] # "idle"
    /\ pc'     = [r \in Req |-> "idle"]
    /\ tok'    = [r \in Req |-> None]
    /\ loaded' = [r \in Req |-> {}]
    /\ conn'   = {}
    /\ UNCHANGED <<rowVars, active, mailed, history>>

Init ==
    /\ row     = [t \in Token |-> "absent"]
    /\ hash    = [t \in Token |-> "none"]
    /\ active  = TRUE
    /\ pc      = [r \in Req |-> "idle"]
    /\ tok     = [r \in Req |-> None]
    /\ loaded  = [r \in Req |-> {}]
    /\ mailed  = {}
    /\ latest  = None
    /\ uses    = [t \in Token |-> 0]
    /\ refused = {}
    /\ conn    = {}

Begin(r) ==
    \/ ForgotRead(r) \/ OwnerRead(r)
    \/ \E t \in Token : ResetLookup(r, t) \/ ResetRefused(r, t)

Continue(r) ==
    \/ ForgotCommit(r) \/ OwnerCommit(r) \/ Mail(r)
    \/ ResetCheckUser(r) \/ ResetCommit(r)

Next ==
    \/ \E r \in Req : Begin(r) \/ Continue(r) \/ DbError(r)
    \/ \E b \in BOOLEAN : SetActive(b)
    \/ \E t \in Token : Expire(t)
    \/ Crash

Spec == Init /\ [][Next]_vars

-----------------------------------------------------------------------------
(* Types; a request holds a connection exactly inside its transactions, and *)
(* a reset keeps the token it was given.                                    *)
TypeOK ==
    /\ row  \in [Token -> RowState]
    /\ hash \in [Token -> {"none", "sha256", "salted"}]
    /\ active \in BOOLEAN
    /\ pc     \in [Req -> {"idle", "mail"} \cup InTx]
    /\ tok    \in [Req -> Token \cup {None}]
    /\ loaded \in [Req -> SUBSET Token]
    /\ mailed \in SUBSET Token
    /\ latest \in Token \cup {None}
    /\ uses \in [Token -> Nat]
    /\ refused \in SUBSET Token
    /\ conn = {r \in Req : pc[r] \in InTx}
    /\ \A r \in Req : pc[r] \in {"found", "checked", "mail"} => tok[r] \in Token

(* "Invalidate any existing reset tokens for this user": of the links a     *)
(* user asked for, only the newest can still be used (forgot_password).     *)
OnlyLatestOpen == \A t \in Token : Found(t) => t = latest

(* With more connections, no more links than there are connections: those   *)
(* who asked for them did so at the same time.                              *)
OpenLinks == {t \in Token : Found(t)}
OpenWithinPool == IsFiniteSet(OpenLinks) /\ Cardinality(OpenLinks) <= PoolSize

(* A link sets the password once at most (reset_password, "Mark token as    *)
(* used").                                                                  *)
SetsPasswordOnce == \A t \in Token : uses[t] <= 1

(* With more connections, no more often than there are connections: the     *)
(* commit of one reset turns away every other that has not begun.           *)
SetsPasswordWithinPool == \A t \in Token : uses[t] <= PoolSize

(* The password of a blocked user is not reset: the status that was checked *)
(* is still the status at the commit (reset_password).                      *)
OnlyActiveReset == [][uses' # uses => active]_vars

\* What ResetLink sees of the rows.  A link that expires while a request that
\* found it open is being served is still usable by that request.
InHand(t) == \E r \in Req : pc[r] \in {"found", "checked"} /\ tok[r] = t
made   == {t \in Token : row[t] # "absent"}
usable ==
    {t \in Token : /\ hash[t] = "sha256"
                   /\ row[t] = "open" \/ (row[t] = "expired" /\ InHand(t))}

Link == INSTANCE ResetLink WITH made <- made, usable <- usable, delivered <- mailed

(* Requests, redemptions, blocking, expiry, failures and restarts, however  *)
(* they interleave, do what ResetLink does in single steps.                 *)
ImplementsResetLink == Link!Spec

(* "Token is created, user can use it": a link that was delivered, is not   *)
(* used and has not expired is not refused (admin_reset_password).          *)
OpenLinkWorks == refused = {}
=============================================================================
