-------------------------------- MODULE Mfa --------------------------------
(***************************************************************************)
(* MFA of one user: setup, verification (which enables it), disabling,     *)
(* regeneration and use of backup codes (app/mfa_routes.py), and the code  *)
(* that a password change asks for (app/mfa_enforcement.py).               *)
(*                                                                         *)
(* Every handler is one transaction: the user row is loaded, checked, and  *)
(* written back column by column, each only if it differs from what was    *)
(* loaded.  Secrets and backup codes are numbered by the generation that   *)
(* made them.                                                              *)
(***************************************************************************)
EXTENDS DbPool

CONSTANTS
    None,       \* a NULL column, or no code in the request
    BatchSize,  \* BACKUP_CODE_COUNT
    MaxGen      \* bound: setups and regenerations

ASSUME NoneAssumption == None \notin {"recent", "old"}
ASSUME MfaAssumption == BatchSize \in Nat \ {0} /\ MaxGen \in Nat

VARIABLES
    user,    \* the mfa_* columns of the row
    pc,      \* what each request is doing
    input,   \* the secret behind the TOTP code, or the backup code, it sent
    snap,    \* the row in its ORM session
    gen,     \* the generations made so far
    batch,   \* history: the generation of the backup codes committed last
    proved,  \* history: stored secrets whose codes /auth/mfa/verify accepted
    used,    \* history: backup codes /auth/mfa/verify-backup has consumed
    refused  \* history: right TOTP codes that a password change turned away

history == <<batch, proved, used, refused>>
vars    == <<user, pc, input, snap, gen, history, conn>>

Secret == [base32 : 1..MaxGen]
Code   == [gen : 1..MaxGen, nr : 1..BatchSize]

SecretOf(g)  == [base32 |-> g]
BatchOf(g)   == [gen : {g}, nr : 1..BatchSize]

\* encrypt_mfa_secret and its inverse.
Encrypted(s) == [fernet |-> s]
Decrypted(x) == x.fernet

\* verify_totp_code: the code was made with the key it is checked against.
Totp(key, s) == key = s

\* The columns that may be NULL.
StoredSecret == [fernet : Secret] \cup {None}
StoredCodes  == (SUBSET Code) \cup {None}
VerifiedAt   == {None, "recent", "old"}

\* NULL is no value of these columns.
ASSUME NullAssumption == \A x \in [fernet : Secret] \cup SUBSET Code : x # None

Row == [enabled : BOOLEAN, secret : StoredSecret, codes : StoredCodes,
        verified : VerifiedAt]

Blank == [enabled |-> FALSE, secret |-> None, codes |-> None, verified |-> None]

InTx == {"setup", "verify", "disable", "regenerate", "backup", "password"}

-----------------------------------------------------------------------------
(* Steps shared by the handlers.                                            *)

\* _get_identity_from_request and db.get(User): the row is loaded.
Load(r, what, i) ==
    /\ pc[r] = "idle"
    /\ Checkout(r)
    /\ pc'    = [pc EXCEPT ![r] = what]
    /\ input' = [input EXCEPT ![r] = i]
    /\ snap'  = [snap EXCEPT ![r] = user]
    /\ UNCHANGED <<user, gen, history>>

\* Mutant: the session is not closed.
Finish_WithoutClose(r) ==
    /\ UNCHANGED conn
    /\ pc'    = [pc EXCEPT ![r] = "idle"]
    /\ input' = [input EXCEPT ![r] = None]
    /\ snap'  = [snap EXCEPT ![r] = Blank]

\* The handler returns or raises; its session is closed.
Finish(r) ==
    /\ Return(r)
    /\ pc'    = [pc EXCEPT ![r] = "idle"]
    /\ input' = [input EXCEPT ![r] = None]
    /\ snap'  = [snap EXCEPT ![r] = Blank]

\* Mutant: the whole row is written back.
Write_WholeRow(r, new) ==
    user' = [c \in DOMAIN user |-> new[c]]

\* The UPDATE at commit: the columns in which new differs from the loaded row.
Write(r, new) ==
    user' = [c \in DOMAIN user |-> IF new[c] = snap[r][c] THEN user[c] ELSE new[c]]

-----------------------------------------------------------------------------
(* POST /auth/mfa/setup                                                     *)

\* Mutant: an enabled MFA can be set up again.
SetupCommit_WhenEnabled(r) ==
    /\ pc[r] = "setup"
    /\ gen < MaxGen
    /\ gen' = gen + 1
    /\ Write(r, [snap[r] EXCEPT !.secret = Encrypted(SecretOf(gen + 1)),
                                !.codes  = BatchOf(gen + 1)])
    /\ batch' = gen + 1
    /\ Finish(r)
    /\ UNCHANGED <<proved, used, refused>>

SetupCommit(r) ==
    /\ pc[r] = "setup"
    /\ ~snap[r].enabled
    /\ gen < MaxGen
    /\ gen' = gen + 1
    /\ Write(r, [snap[r] EXCEPT !.secret = Encrypted(SecretOf(gen + 1)),
                                !.codes  = BatchOf(gen + 1)])
    /\ batch' = gen + 1
    /\ Finish(r)
    /\ UNCHANGED <<proved, used, refused>>

-----------------------------------------------------------------------------
(* POST /auth/mfa/verify                                                    *)

\* A right code enables MFA; if it is enabled already, nothing is written.
VerifyCommit(r) ==
    /\ pc[r] = "verify"
    /\ snap[r].secret # None /\ Totp(Decrypted(snap[r].secret), input[r])
    /\ ~snap[r].enabled
    /\ Write(r, [snap[r] EXCEPT !.enabled = TRUE, !.verified = "recent"])
    /\ proved' = proved \cup {snap[r].secret}
    /\ Finish(r)
    /\ UNCHANGED <<gen, batch, used, refused>>

-----------------------------------------------------------------------------
(* POST /auth/mfa/disable                                                   *)

\* The password is right; a TOTP or backup code is checked only if one came.
DisableCommit(r) ==
    /\ pc[r] = "disable"
    /\ snap[r].enabled
    /\ Write(r, Blank)
    /\ Finish(r)
    /\ UNCHANGED <<gen, history>>

-----------------------------------------------------------------------------
(* POST /auth/mfa/backup-codes/regenerate                                   *)

\* Mutant: the new codes are added to the old ones.
RegenerateCommit_Adds(r) ==
    /\ pc[r] = "regenerate"
    /\ snap[r].enabled
    /\ gen < MaxGen
    /\ gen' = gen + 1
    /\ Write(r, [snap[r] EXCEPT !.codes =
                    BatchOf(gen + 1) \cup (IF @ = None THEN {} ELSE @)])
    /\ batch' = gen + 1
    /\ Finish(r)
    /\ UNCHANGED <<proved, used, refused>>

RegenerateCommit(r) ==
    /\ pc[r] = "regenerate"
    /\ snap[r].enabled
    /\ gen < MaxGen
    /\ gen' = gen + 1
    /\ Write(r, [snap[r] EXCEPT !.codes = BatchOf(gen + 1)])
    /\ batch' = gen + 1
    /\ Finish(r)
    /\ UNCHANGED <<proved, used, refused>>

-----------------------------------------------------------------------------
(* POST /auth/mfa/verify-backup                                             *)

\* Mutant: the code is accepted and stays.
BackupCommit_Keeps(r) ==
    /\ pc[r] = "backup"
    /\ snap[r].enabled /\ snap[r].codes # None /\ input[r] \in snap[r].codes
    /\ used' = used \cup {input[r]}
    /\ Finish(r)
    /\ UNCHANGED <<user, gen, batch, proved, refused>>

BackupCommit(r) ==
    /\ pc[r] = "backup"
    /\ snap[r].enabled /\ snap[r].codes # None /\ input[r] \in snap[r].codes
    /\ Write(r, [snap[r] EXCEPT !.codes = @ \ {input[r]}])
    /\ used' = used \cup {input[r]}
    /\ Finish(r)
    /\ UNCHANGED <<gen, batch, proved, refused>>

-----------------------------------------------------------------------------
(* POST /auth/change-password, as far as MFA is concerned                   *)

\* check_mfa_required: enabled, and not verified in the last five minutes.
CodeRequired(row) == row.enabled /\ row.verified # "recent"

\* A code is checked against the column as it is stored (_hotp raises).
ChangePassword(r) ==
    /\ pc[r] = "password"
    /\ CodeRequired(snap[r]) /\ input[r] # None /\ snap[r].secret # None
    /\ ~Totp(snap[r].secret, input[r])
    /\ refused' = IF input[r] = Decrypted(snap[r].secret)
                  THEN refused \cup {input[r]} ELSE refused
    /\ Finish(r)
    /\ UNCHANGED <<user, gen, batch, proved, used>>

-----------------------------------------------------------------------------
(* The rest of the world.                                                   *)

\* A check fails, a statement fails, or there was nothing to write.
Abort(r) ==
    /\ pc[r] \in InTx
    /\ Finish(r)
    /\ UNCHANGED <<user, gen, history>>

\* MFA_VERIFICATION_WINDOW_MINUTES pass.
WindowPasses ==
    /\ user.verified = "recent"
    /\ user' = [user EXCEPT !.verified = "old"]
    /\ UNCHANGED <<pc, input, snap, gen, history, conn>>

Init ==
    /\ user    = Blank
    /\ pc      = [r \in Req |-> "idle"]
    /\ input   = [r \in Req |-> None]
    /\ snap    = [r \in Req |-> Blank]
    /\ gen     = 0
    /\ batch   = 0
    /\ proved  = {}
    /\ used    = {}
    /\ refused = {}
    /\ conn    = {}

\* Requests bring codes of the secrets and batches made so far.
Begin(r) ==
    \/ \E what \in {"setup", "disable", "regenerate"} : Load(r, what, None)
    \/ \E g \in 1..gen, what \in {"verify", "password"} : Load(r, what, SecretOf(g))
    \/ \E g \in 1..gen : \E c \in BatchOf(g) : Load(r, "backup", c)

Commit(r) ==
    \/ SetupCommit(r) \/ VerifyCommit(r) \/ DisableCommit(r)
    \/ RegenerateCommit(r) \/ BackupCommit(r) \/ ChangePassword(r)

Next ==
    \/ \E r \in Req : Begin(r) \/ Commit(r) \/ Abort(r)
    \/ WindowPasses

Spec == Init /\ [][Next]_vars

-----------------------------------------------------------------------------
(* Types; a request holds a connection exactly while it is at work.         *)
TypeOK ==
    /\ user \in Row
    /\ pc \in [Req -> {"idle"} \cup InTx]
    /\ input \in [Req -> Secret \cup Code \cup {None}]
    /\ snap \in [Req -> Row]
    /\ gen \in 0..MaxGen
    /\ batch \in 0..gen
    /\ proved \in SUBSET [fernet : Secret]
    /\ used \in SUBSET Code
    /\ refused \in SUBSET Secret
    /\ conn = {r \in Req : pc[r] \in InTx}

(* MFA is enabled exactly when the row has a date of verification, by which *)
(* a password change decides whether to ask for a code (verify_mfa,         *)
(* disable_mfa, check_mfa_required).                                        *)
EnabledIffDated == user.enabled <=> user.verified # None

(* "User must verify with /auth/mfa/verify to enable MFA": the secret in    *)
(* force is one whose code was accepted.                                    *)
EnabledIsProved == user.enabled => user.secret \in proved

(* "Invalidates all existing backup codes": only codes of the generation    *)
(* committed last are left (setup_mfa, regenerate_backup_codes).            *)
CodesOfLastBatch == user.codes # None => user.codes \subseteq BatchOf(batch)

(* "Each backup code can only be used once" (verify_backup_code_endpoint).  *)
UsedIsGone == user.codes # None => user.codes \cap used = {}

\* The row as SecondFactor sees it.
state ==
    IF user.enabled THEN IF user.verified = "recent" THEN "fresh" ELSE "on"
    ELSE IF user.secret = None THEN "off" ELSE "offered"
secret == IF user.secret = None THEN None ELSE Decrypted(user.secret).base32
codes  == IF user.codes = None THEN {} ELSE user.codes

Factor == INSTANCE SecondFactor WITH
    Draw <- 1..MaxGen, Nr <- 1..BatchSize,
    state <- state, secret <- secret, codes <- codes, drawn <- 1..gen

(* Load, check and write, interleaved with the other requests and with the  *)
(* passing of the window, do what SecondFactor does in single steps.        *)
ImplementsSecondFactor == Factor!Spec

(* A password change with the right TOTP code is not turned away            *)
(* (verify_mfa_for_operation).                                              *)
RightCodeAccepted == refused = {}
=============================================================================
