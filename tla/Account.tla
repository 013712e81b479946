------------------------------ MODULE Account ------------------------------
(***************************************************************************)
(* The account behind one e-mail address: registration                     *)
(* (/auth/register), creation by a first single sign-on                    *)
(* (_handle_oauth_callback), the state that billing keeps for it, the      *)
(* verification of the address (email_verification.py), and deletion by    *)
(* the owner.  Cookies and tokens of the answers are RefreshRotation's;    *)
(* the audit records the handlers end with are transactions that write     *)
(* nothing modelled here.  SAML, which would create verified users, cannot *)
(* be enabled: the settings have no SAML_ENABLED.                          *)
(* REQUIRE_EMAIL_VERIFICATION is on, as by default: registering an         *)
(* address that is not verified yet sends a new link.                      *)
(***************************************************************************)
EXTENDS DbPool

CONSTANTS
    Id,     \* the ids of the rows of users with this address
    Token,  \* verification tokens
    None    \* no id, no token

ASSUME NoneAssumption == None \notin Id \cup Token

VARIABLES
    life,      \* what became of the row of each id
    member,    \* the ids with an active membership
    verified,  \* the ids with email_verified
    vtok,      \* email_verification_token of each row
    age,       \* how long ago email_verification_sent_at is
    billing,   \* external: the ids with an economic state in billing_service
    mailed,    \* the tokens whose link has been delivered
    madeFor,   \* history: the id each token was made for
    pc,        \* where each request is
    own,       \* the id it has loaded or inserted
    tok        \* the token it has made or was given

rowVars == <<life, member, verified, vtok, age>>
linkVars == <<mailed, madeFor>>
reqVars == <<pc, own, tok>>
vars    == <<rowVars, billing, linkVars, reqVars, conn>>

\* "inserted": flushed, not committed; "gone": rolled back or deleted.
Life == {"unused", "inserted", "live", "gone"}

\* "cooling": less than 60 seconds; "expired": more than 24 hours.
Age == {"never", "cooling", "fresh", "expired"}

\* States with an insertion not committed, and all those of a transaction.
Inserting == {"inserted", "billed", "ssoInserted"}
InTx == {"absent", "ssoAbsent", "resend", "verify"} \cup Inserting

Live == {u \in Id : life[u] = "live"}

-----------------------------------------------------------------------------
(* Steps shared by the handlers.                                            *)

Goto(r, where) == pc' = [pc EXCEPT ![r] = where]

Finish(r) ==
    /\ pc'  = [pc EXCEPT ![r] = "idle"]
    /\ own' = [own EXCEPT ![r] = None]
    /\ tok' = [tok EXCEPT ![r] = None]

\* No row with this address: the handler is going to create one.
LookupAbsent(r, where) ==
    /\ pc[r] = "idle"
    /\ Live = {}
    /\ Checkout(r)
    /\ Goto(r, where)
    /\ UNCHANGED <<rowVars, billing, linkVars, own, tok>>

\* Mutant: the address is not unique.
Insert_NoConstraint(r, from, to) ==
    /\ pc[r] = from
    /\ \E u \in Id :
          /\ life[u] = "unused"
          /\ life' = [life EXCEPT ![u] = "inserted"]
          /\ own'  = [own EXCEPT ![r] = u]
    /\ Goto(r, to)
    /\ UNCHANGED <<tok, conn, member, verified, vtok, age, billing, linkVars>>

\* The flush: the unique index waits for another insertion to be committed or
\* rolled back, and refuses a second row.
Insert(r, from, to) ==
    /\ pc[r] = from
    /\ \A u \in Id : life[u] # "inserted"
    /\ \/ /\ Live = {}
          /\ \E u \in Id :
                /\ life[u] = "unused"
                /\ life' = [life EXCEPT ![u] = "inserted"]
                /\ own'  = [own EXCEPT ![r] = u]
          /\ Goto(r, to)
          /\ UNCHANGED <<tok, conn>>
       \/ Live # {} /\ Finish(r) /\ Return(r) /\ UNCHANGED life
    /\ UNCHANGED <<member, verified, vtok, age, billing, linkVars>>

\* Mutant: the whole row is written as it was loaded.
StoreToken_WholeRow(r) ==
    /\ life[own[r]] = "live"
    /\ \E t \in Token :
          /\ madeFor[t] = None
          /\ madeFor' = [madeFor EXCEPT ![t] = own[r]]
          /\ vtok'    = [vtok EXCEPT ![own[r]] = t]
          /\ tok'     = [tok EXCEPT ![r] = t]
    /\ age' = [age EXCEPT ![own[r]] = "cooling"]
    /\ verified' = verified \ {own[r]}
    /\ UNCHANGED <<life, member, mailed, billing, own>>

\* create_verification_token: the two columns that differ are written.
StoreToken(r) ==
    /\ life[own[r]] = "live"
    /\ \E t \in Token :
          /\ madeFor[t] = None
          /\ madeFor' = [madeFor EXCEPT ![t] = own[r]]
          /\ vtok'    = [vtok EXCEPT ![own[r]] = t]
          /\ tok'     = [tok EXCEPT ![r] = t]
    /\ age' = [age EXCEPT ![own[r]] = "cooling"]
    /\ UNCHANGED <<life, member, verified, mailed, billing, own>>

\* The link is delivered or not; the handler goes on.
Mail(r) ==
    /\ pc[r] = "mail"
    /\ \/ mailed' = mailed \cup {tok[r]}
       \/ UNCHANGED mailed
    /\ Finish(r)
    /\ UNCHANGED <<rowVars, billing, madeFor, conn>>

-----------------------------------------------------------------------------
(* POST /auth/register                                                      *)

RegisterRead(r)   == LookupAbsent(r, "absent")
RegisterInsert(r) == Insert(r, "absent", "inserted")

\* create_user_economic_state; its failure is logged.
RegisterBill(r) ==
    /\ pc[r] = "inserted"
    /\ \/ billing' = billing \cup {own[r]}
       \/ UNCHANGED billing
    /\ Goto(r, "billed")
    /\ UNCHANGED <<rowVars, linkVars, own, tok, conn>>

\* Mutant: the membership is left for a later commit.
RegisterCommit_UserOnly(r) ==
    /\ pc[r] = "billed"
    /\ life' = [life EXCEPT ![own[r]] = "live"]
    /\ Return(r)
    /\ Goto(r, "registered")
    /\ UNCHANGED <<member, verified, vtok, age, billing, linkVars, own, tok>>

\* Organisation, user and membership in one commit.
RegisterCommit(r) ==
    /\ pc[r] = "billed"
    /\ life'   = [life EXCEPT ![own[r]] = "live"]
    /\ member' = member \cup {own[r]}
    /\ Return(r)
    /\ Goto(r, "registered")
    /\ UNCHANGED <<verified, vtok, age, billing, linkVars, own, tok>>

\* A second transaction stores the token of the first link.
RegisterToken(r) ==
    /\ pc[r] = "registered"
    /\ OneShot
    /\ StoreToken(r)
    /\ Goto(r, "mail")

\* It fails, or the pool times out: the registration stands, without a link.
RegisterTokenFails(r) ==
    /\ pc[r] = "registered"
    /\ Finish(r)
    /\ UNCHANGED <<rowVars, billing, linkVars, conn>>

-----------------------------------------------------------------------------
(* The first single sign-on with the address.                               *)

SsoRead(r)   == LookupAbsent(r, "ssoAbsent")
SsoInsert(r) == Insert(r, "ssoAbsent", "ssoInserted")

\* Mutant: the provider's word is taken for the address.
SsoCommit_Trusting(r) ==
    /\ pc[r] = "ssoInserted"
    /\ life'   = [life EXCEPT ![own[r]] = "live"]
    /\ member' = member \cup {own[r]}
    /\ verified' = verified \cup {own[r]}
    /\ Return(r)
    /\ Finish(r)
    /\ UNCHANGED <<vtok, age, billing, linkVars>>

\* email_verified is left at its default, billing is not told.
SsoCommit(r) ==
    /\ pc[r] = "ssoInserted"
    /\ life'   = [life EXCEPT ![own[r]] = "live"]
    /\ member' = member \cup {own[r]}
    /\ Return(r)
    /\ Finish(r)
    /\ UNCHANGED <<verified, vtok, age, billing, linkVars>>

-----------------------------------------------------------------------------
(* POST /auth/resend-verification, /auth/register once more, and            *)
(* POST /auth/verify-email                                                  *)

ResendRead(r) ==
    /\ pc[r] = "idle"
    /\ Checkout(r)
    /\ \E u \in Live \ verified :
          /\ age[u] # "cooling"
          /\ own' = [own EXCEPT ![r] = u]
    /\ Goto(r, "resend")
    /\ UNCHANGED <<rowVars, billing, linkVars, tok>>

\* Mutant: the connection is kept while the mail is sent.
ResendCommit_KeepsConnection(r) ==
    /\ pc[r] = "resend"
    /\ StoreToken(r)
    /\ Goto(r, "mail")
    /\ UNCHANGED conn

ResendCommit(r) ==
    /\ pc[r] = "resend"
    /\ StoreToken(r)
    /\ Return(r)
    /\ Goto(r, "mail")

\* The row with this token, not verified and not older than 24 hours.
VerifyRead(r, t) ==
    /\ pc[r] = "idle" /\ t \in mailed
    /\ Checkout(r)
    /\ \E u \in Live \ verified :
          /\ vtok[u] = t /\ age[u] # "expired"
          /\ own' = [own EXCEPT ![r] = u]
    /\ tok' = [tok EXCEPT ![r] = t]
    /\ Goto(r, "verify")
    /\ UNCHANGED <<rowVars, billing, linkVars>>

VerifyCommit(r) ==
    /\ pc[r] = "verify"
    /\ life[own[r]] = "live"
    /\ verified' = verified \cup {own[r]}
    /\ vtok' = [vtok EXCEPT ![own[r]] = None]
    /\ Return(r)
    /\ Finish(r)
    /\ UNCHANGED <<life, member, age, billing, linkVars>>

-----------------------------------------------------------------------------
(* The rest of the world.                                                   *)

\* admin_delete_user: the row goes, the membership stays.
DeleteUser(u) ==
    /\ life[u] = "live"
    /\ OneShot
    /\ life' = [life EXCEPT ![u] = "gone"]
    /\ UNCHANGED <<member, verified, vtok, age, billing, linkVars, reqVars>>

\* Time passes the cooldown, then the expiry.
GrowOld(u) ==
    /\ age[u] \in {"cooling", "fresh"}
    /\ age' = [age EXCEPT ![u] = IF @ = "cooling" THEN "fresh" ELSE "expired"]
    /\ UNCHANGED <<life, member, verified, vtok, billing, linkVars, reqVars, conn>>

\* A statement or the commit fails, or the row has been deleted meanwhile.
DbError(r) ==
    /\ pc[r] \in InTx
    /\ life' = [u \in Id |->
                  IF pc[r] \in Inserting /\ u = own[r] THEN "gone" ELSE life[u]]
    /\ Return(r)
    /\ Finish(r)
    /\ UNCHANGED <<member, verified, vtok, age, billing, linkVars>>

\* The process dies and restarts; what was not committed is rolled back.
Crash ==
    /\ \E r \in Req : pc[r] # "idle"
    /\ life' = [u \in Id |-> IF life[u] = "inserted" THEN "gone" ELSE life[u]]
    /\ pc'   = [r \in Req |-> "idle"]
    /\ own'  = [r \in Req |-> None]
    /\ tok'  = [r \in Req |-> None]
    /\ conn' = {}
    /\ UNCHANGED <<member, verified, vtok, age, billing, linkVars>>

Init ==
    /\ life = [u \in Id |-> "unused"]
    /\ member = {} /\ verified = {}
    /\ vtok = [u \in Id |-> None]
    /\ age  = [u \in Id |-> "never"]
    /\ billing = {}
    /\ mailed = {}
    /\ madeFor = [t \in Token |-> None]
    /\ pc   = [r \in Req |-> "idle"]
    /\ own  = [r \in Req |-> None]
    /\ tok  = [r \in Req |-> None]
    /\ conn = {}

Begin(r) ==
    \/ RegisterRead(r) \/ SsoRead(r) \/ ResendRead(r)
    \/ \E t \in Token : VerifyRead(r, t)

Continue(r) ==
    \/ RegisterInsert(r) \/ RegisterBill(r) \/ RegisterCommit(r)
    \/ RegisterToken(r) \/ RegisterTokenFails(r)
    \/ SsoInsert(r) \/ SsoCommit(r)
    \/ ResendCommit(r) \/ VerifyCommit(r) \/ Mail(r)

Next ==
    \/ \E r \in Req : Begin(r) \/ Continue(r) \/ DbError(r)
    \/ \E u \in Id : DeleteUser(u) \/ GrowOld(u)
    \/ Crash

Spec == Init /\ [][Next]_vars

-----------------------------------------------------------------------------
(* Types; a request holds a connection exactly inside its transactions, and *)
(* an insertion that is not committed belongs to one request.               *)
TypeOK ==
    /\ life \in [Id -> Life]
    /\ member \in SUBSET Id /\ verified \in SUBSET Id /\ billing \in SUBSET Id
    /\ vtok \in [Id -> Token \cup {None}]
    /\ age  \in [Id -> Age]
    /\ mailed \in SUBSET Token
    /\ madeFor \in [Token -> Id \cup {None}]
    /\ pc  \in [Req -> {"idle", "registered", "mail"} \cup InTx]
    /\ own \in [Req -> Id \cup {None}]
    /\ tok \in [Req -> Token \cup {None}]
    /\ conn = {r \in Req : pc[r] \in InTx}
    /\ \A r \in Req : pc[r] \in Inserting =>
        /\ own[r] \in Id /\ life[own[r]] = "inserted"
        /\ \A s \in Req : pc[s] \in Inserting /\ own[s] = own[r] => s = r
    /\ \A r \in Req : pc[r] \in {"registered", "resend", "verify"} => own[r] \in Id
    /\ \A r \in Req : pc[r] \in {"verify", "mail"} => tok[r] \in Token

(* However many registrations and sign-ons of an address are under way, on  *)
(* however many connections, one row comes of it (the unique index on       *)
(* users.email behind the lookups of register and _handle_oauth_callback).  *)
OneUser == \A u, v \in Live : u = v

(* A user never exists without an active membership, whatever failed or     *)
(* stopped on the way: the 500 "User has no active membership" and the 403  *)
(* "No active organizations" are for accounts made elsewhere.               *)
MembershipWithUser == Live \subseteq member

(* An address counts as verified only if a link made for that very account  *)
(* was delivered to it, also when accounts with the address are deleted and *)
(* created again (verify_email_token, _handle_oauth_callback).              *)
VerifiedByMail == \A u \in verified : \E t \in mailed : madeFor[t] = u

(* A verification is never undone, not even by a handler that loaded the    *)
(* row before it and writes it after it (create_verification_token).        *)
VerificationKept == [][verified \subseteq verified']_vars

\* What Address sees of an id: an insertion that is not committed is nothing.
PhaseOf(l) == IF l = "live" THEN "open" ELSE IF l = "gone" THEN "closed" ELSE "free"

phase == [u \in Id |-> PhaseOf(life[u])]

Promise == INSTANCE Address WITH phase <- phase, delivered <- mailed

(* The interleaved transactions of all these handlers, with their failures  *)
(* and crashes, do what Address promises in single steps.                   *)
ImplementsAddress == Promise!Spec
=============================================================================
