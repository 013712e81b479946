--------------------------- MODULE AccountProofs ---------------------------
(***************************************************************************)
(* Proofs about Account, for any requests, ids, tokens and pool: the       *)
(* types, one user per address, with a membership, verified only by a link *)
(* that was delivered, and for good; and that each step is a step of       *)
(* Address or a stutter of it.                                             *)
(***************************************************************************)
EXTENDS Account, DbPoolProofs

(* The end of a handler keeps the types of the requests (Finish).           *)
LEMMA FinishTypes ==
    ASSUME TypeOK, NEW r \in Req, Finish(r)
    PROVE  /\ pc'  \in [Req -> {"idle", "registered", "mail"} \cup InTx]
           /\ own' \in [Req -> Id \cup {None}]
           /\ tok' \in [Req -> Token \cup {None}]
           /\ Return(r) => conn' = {s \in Req : pc'[s] \in InTx}
           /\ pc[r] \notin InTx => conn = {s \in Req : pc'[s] \in InTx}
           /\ \A s \in Req : pc'[s] # "idle" => /\ s # r /\ pc'[s] = pc[s]
                                                /\ own'[s] = own[s] /\ tok'[s] = tok[s]
BY DEF TypeOK, Finish, Return, InTx, Inserting

(* The lookups and the insertions keep the types (register and              *)
(* _handle_oauth_callback).                                                 *)
LEMMA InsertTypes ==
    ASSUME TypeOK, NEW r \in Req, NEW from \in {"absent", "ssoAbsent"},
           NEW to \in {"inserted", "ssoInserted"},
           LookupAbsent(r, from) \/ Insert(r, from, to)
    PROVE  TypeOK'
<1> USE DEF rowVars, linkVars, reqVars, Life, Age, InTx, Inserting
<1>1. CASE LookupAbsent(r, from)
  BY <1>1 DEF LookupAbsent, Checkout, Goto, TypeOK
<1>2. ASSUME NEW u \in Id, pc[r] = from, life[u] = "unused",
             life' = [life EXCEPT ![u] = "inserted"], own' = [own EXCEPT ![r] = u],
             Goto(r, to), UNCHANGED <<tok, conn>>,
             UNCHANGED <<member, verified, vtok, age, billing, linkVars>>
      PROVE  TypeOK'
  BY <1>2 DEF Goto, TypeOK
<1>3. ASSUME Finish(r), Return(r), UNCHANGED life,
             UNCHANGED <<member, verified, vtok, age, billing, linkVars>>
      PROVE  TypeOK'
  BY <1>3, FinishTypes DEF TypeOK
<1>4. QED
  BY <1>1, <1>2, <1>3 DEF Insert

(* Every step keeps the types (every handler of the model).                 *)
LEMMA TypeOKStep == TypeOK /\ [Next]_vars => TypeOK'
<1> SUFFICES ASSUME TypeOK, [Next]_vars PROVE TypeOK'
  OBVIOUS
<1> USE NoneAssumption DEF rowVars, linkVars, reqVars, Life, Age, InTx, Inserting
<1>1. ASSUME NEW r \in Req, RegisterRead(r) \/ RegisterInsert(r) \/ SsoRead(r) \/ SsoInsert(r)
      PROVE  TypeOK'
  BY <1>1, InsertTypes DEF RegisterRead, RegisterInsert, SsoRead, SsoInsert
<1>2. ASSUME NEW r \in Req, RegisterBill(r) PROVE TypeOK'
  BY <1>2 DEF RegisterBill, Goto, TypeOK
<1>3. ASSUME NEW r \in Req, RegisterCommit(r) PROVE TypeOK'
  BY <1>3 DEF RegisterCommit, Goto, Return, TypeOK
<1>4. ASSUME NEW r \in Req, SsoCommit(r) PROVE TypeOK'
  <2>1. own[r] \in Id /\ life' = [life EXCEPT ![own[r]] = "live"]
    BY <1>4 DEF SsoCommit, TypeOK
  <2>2. life' \in [Id -> Life] /\ member' \in SUBSET Id
    BY <1>4, <2>1 DEF SsoCommit, TypeOK
  <2>3. \A s \in Req \ {r} : pc[s] \in Inserting => life'[own[s]] = "inserted"
    BY <1>4, <2>1 DEF SsoCommit, TypeOK
  <2>4. Finish(r) /\ Return(r) /\ UNCHANGED <<verified, vtok, age, billing, linkVars>>
    BY <1>4 DEF SsoCommit
  <2>5. QED
    BY <2>2, <2>3, <2>4, FinishTypes DEF TypeOK
<1>5. ASSUME NEW r \in Req, pc[r] \in {"registered", "resend"}, StoreToken(r), Goto(r, "mail"),
             \/ pc[r] = "registered" /\ UNCHANGED conn
             \/ pc[r] = "resend" /\ Return(r)
      PROVE  TypeOK'
  BY <1>5 DEF StoreToken, Goto, Return, TypeOK
<1>6. ASSUME NEW r \in Req, RegisterToken(r) \/ ResendCommit(r) PROVE TypeOK'
  BY <1>5, <1>6 DEF RegisterToken, ResendCommit, OneShot
<1>7. ASSUME NEW r \in Req, RegisterTokenFails(r) \/ Mail(r) PROVE TypeOK'
  <2>1. Finish(r) /\ pc[r] \notin InTx /\ mailed' \in SUBSET Token
        /\ UNCHANGED <<rowVars, billing, madeFor, conn>>
    BY <1>7 DEF RegisterTokenFails, Mail, TypeOK
  <2>2. QED
    BY <2>1, FinishTypes DEF TypeOK
<1>8. ASSUME NEW r \in Req, ResendRead(r) PROVE TypeOK'
  BY <1>8 DEF ResendRead, Checkout, Goto, Live, TypeOK
<1>9. ASSUME NEW r \in Req, NEW t \in Token, VerifyRead(r, t) PROVE TypeOK'
  BY <1>9 DEF VerifyRead, Checkout, Goto, Live, TypeOK
<1>10. ASSUME NEW r \in Req, VerifyCommit(r) PROVE TypeOK'
  <2>1. verified' \in SUBSET Id /\ vtok' \in [Id -> Token \cup {None}]
    BY <1>10 DEF VerifyCommit, TypeOK
  <2>2. QED
    BY <1>10, <2>1, FinishTypes DEF VerifyCommit, TypeOK
<1>11. ASSUME NEW r \in Req, DbError(r) PROVE TypeOK'
  <2>1. life' \in [Id -> Life]
    BY <1>11 DEF DbError, TypeOK
  <2>2. \A s \in Req \ {r} : pc[s] \in Inserting => life'[own[s]] = "inserted"
    BY <1>11 DEF DbError, TypeOK
  <2>3. Finish(r) /\ Return(r) /\ UNCHANGED <<member, verified, vtok, age, billing, linkVars>>
    BY <1>11 DEF DbError
  <2>4. QED
    BY <2>1, <2>2, <2>3, FinishTypes DEF TypeOK
<1>12. ASSUME NEW u \in Id, DeleteUser(u) \/ GrowOld(u) PROVE TypeOK'
  BY <1>12 DEF DeleteUser, GrowOld, OneShot, TypeOK
<1>13. CASE Crash
  BY <1>13 DEF Crash, TypeOK
<1>14. CASE UNCHANGED vars
  BY <1>14 DEF vars, TypeOK
<1>15. QED
  BY <1>1, <1>2, <1>3, <1>4, <1>6, <1>7, <1>8, <1>9, <1>10, <1>11, <1>12, <1>13, <1>14
  DEF Next, Begin, Continue

(* The types hold throughout, for every pool.                               *)
THEOREM TypeCorrect == Spec => []TypeOK
<1>1. Init => TypeOK
  BY DEF Init, TypeOK, Life, Age, InTx, Inserting
<1>2. QED
  BY <1>1, TypeOKStep, PTL DEF Spec

-----------------------------------------------------------------------------
(* What the properties rest on.                                             *)

\* The inductive invariant, in addition to TypeOK.  OneUser has to cover the
\* row that is inserted and not committed; VerifiedByMail, what a request has
\* looked up, and that the token of a row, and of a mail under way, was made.
AccountInv ==
    /\ \A u, v \in Id : life[u] \in {"inserted", "live"} /\ life[v] \in {"inserted", "live"} => u = v
    /\ MembershipWithUser
    /\ \A u \in Id : vtok[u] # None => madeFor[vtok[u]] = u
    /\ \A r \in Req : pc[r] = "verify" => tok[r] \in mailed /\ madeFor[tok[r]] = own[r]
    /\ \A r \in Req : pc[r] = "mail" => madeFor[tok[r]] # None
    /\ VerifiedByMail

(* Every step keeps the invariant (every handler of the model).             *)
LEMMA AccountStep ==
    ASSUME TypeOK, AccountInv, [Next]_vars
    PROVE  AccountInv'
<1> USE NoneAssumption
    DEF rowVars, linkVars, reqVars, Life, Inserting, Live, MembershipWithUser, VerifiedByMail
<1>1. ASSUME NEW r \in Req, NEW where \in {"absent", "ssoAbsent"}, LookupAbsent(r, where)
      PROVE  AccountInv'
  BY <1>1 DEF LookupAbsent, Goto, TypeOK, AccountInv
<1>2. ASSUME NEW r \in Req, NEW from \in {"absent", "ssoAbsent"},
             NEW to \in {"inserted", "ssoInserted"}, Insert(r, from, to)
      PROVE  AccountInv'
  BY <1>2 DEF Insert, Goto, Finish, TypeOK, AccountInv
<1>3. ASSUME NEW r \in Req, RegisterBill(r) PROVE AccountInv'
  BY <1>3 DEF RegisterBill, Goto, TypeOK, AccountInv
<1>4. ASSUME NEW r \in Req, RegisterCommit(r) \/ SsoCommit(r) PROVE AccountInv'
  BY <1>4 DEF RegisterCommit, SsoCommit, Goto, Finish, TypeOK, AccountInv
<1>5. ASSUME NEW r \in Req, pc[r] \in {"registered", "resend"}, StoreToken(r), Goto(r, "mail")
      PROVE  AccountInv'
  BY <1>5 DEF StoreToken, Goto, TypeOK, AccountInv
<1>6. ASSUME NEW r \in Req, RegisterTokenFails(r) \/ Mail(r) PROVE AccountInv'
  BY <1>6 DEF RegisterTokenFails, Mail, Finish, TypeOK, AccountInv
<1>7. ASSUME NEW r \in Req, ResendRead(r) PROVE AccountInv'
  BY <1>7 DEF ResendRead, Goto, TypeOK, AccountInv
<1>8. ASSUME NEW r \in Req, NEW t \in Token, VerifyRead(r, t) PROVE AccountInv'
  BY <1>8 DEF VerifyRead, Goto, TypeOK, AccountInv
<1>9. ASSUME NEW r \in Req, VerifyCommit(r) PROVE AccountInv'
  BY <1>9 DEF VerifyCommit, Finish, TypeOK, AccountInv
<1>10. ASSUME NEW r \in Req, DbError(r) PROVE AccountInv'
  BY <1>10 DEF DbError, Finish, TypeOK, AccountInv
<1>11. ASSUME NEW u \in Id, DeleteUser(u) \/ GrowOld(u) PROVE AccountInv'
  BY <1>11 DEF DeleteUser, GrowOld, TypeOK, AccountInv
<1>12. CASE Crash
  BY <1>12 DEF Crash, TypeOK, AccountInv
<1>13. CASE UNCHANGED vars
  BY <1>13 DEF vars, AccountInv
<1>14. QED
  BY <1>1, <1>2, <1>3, <1>4, <1>5, <1>6, <1>7, <1>8, <1>9, <1>10, <1>11, <1>12, <1>13
  DEF Next, Begin, Continue, RegisterRead, SsoRead, RegisterInsert, SsoInsert,
      RegisterToken, ResendCommit

(* The invariant holds throughout (every handler of the model).             *)
LEMMA AccountInvCorrect == Spec => [](TypeOK /\ AccountInv)
<1>1. Init => TypeOK
  BY DEF Init, TypeOK, Life, Age, InTx, Inserting
<1>2. Init => AccountInv
  BY DEF Init, AccountInv, MembershipWithUser, VerifiedByMail, Live
<1>3. (TypeOK /\ AccountInv) /\ [Next]_vars => (TypeOK /\ AccountInv)'
  BY TypeOKStep, AccountStep
<1>4. QED
  BY <1>1, <1>2, <1>3, PTL DEF Spec

-----------------------------------------------------------------------------
(* The theorems.                                                            *)

(* One user comes of an address (the unique index on users.email).          *)
THEOREM OneAccount == Spec => []OneUser
<1>1. AccountInv => OneUser
  BY DEF AccountInv, OneUser, Live
<1>2. QED
  BY <1>1, AccountInvCorrect, PTL

(* A user has a membership (register, _handle_oauth_callback).              *)
THEOREM MembershipComplete == Spec => []MembershipWithUser
<1>1. AccountInv => MembershipWithUser
  BY DEF AccountInv
<1>2. QED
  BY <1>1, AccountInvCorrect, PTL

(* A verified address has had a link of this account (verify_email_token).  *)
THEOREM VerifiedMeansMailed == Spec => []VerifiedByMail
<1>1. AccountInv => VerifiedByMail
  BY DEF AccountInv
<1>2. QED
  BY <1>1, AccountInvCorrect, PTL

(* A verification is not undone (create_verification_token).                *)
THEOREM VerificationIsFinal == Spec => VerificationKept
<1>1. [Next]_vars => [verified \subseteq verified']_vars
  <2> SUFFICES ASSUME Next PROVE verified \subseteq verified'
    OBVIOUS
  <2> USE DEF rowVars, linkVars, reqVars
  <2>1. ASSUME NEW r \in Req, Begin(r) PROVE verified \subseteq verified'
    BY <2>1 DEF Begin, RegisterRead, SsoRead, LookupAbsent, ResendRead, VerifyRead
  <2>2. ASSUME NEW r \in Req, Continue(r) PROVE verified \subseteq verified'
    BY <2>2 DEF Continue, RegisterInsert, SsoInsert, Insert, RegisterBill, RegisterCommit,
       RegisterToken, RegisterTokenFails, SsoCommit, ResendCommit, StoreToken,
       VerifyCommit, Mail
  <2>3. ASSUME NEW r \in Req, DbError(r) PROVE verified \subseteq verified'
    BY <2>3 DEF DbError
  <2>4. ASSUME NEW u \in Id, DeleteUser(u) \/ GrowOld(u) PROVE verified \subseteq verified'
    BY <2>4 DEF DeleteUser, GrowOld
  <2>5. CASE Crash
    BY <2>5 DEF Crash
  <2>6. QED
    BY <2>1, <2>2, <2>3, <2>4, <2>5 DEF Next
<1>2. QED
  BY <1>1, PTL DEF Spec, VerificationKept

-----------------------------------------------------------------------------
(* The refinement of Address.                                               *)

(* A step that opens or closes one account, in the terms of Address         *)
(* (RegisterCommit, SsoCommit, DeleteUser, DbError and Crash).              *)
LEMMA PhaseChange ==
    ASSUME TypeOK, NEW u \in Id, NEW l \in Life, life' = [life EXCEPT ![u] = l]
    PROVE  phase' = [phase EXCEPT ![u] = PhaseOf(l)]
BY DEF TypeOK, phase, PhaseOf

(* A transaction that has not inserted the row of an account is nothing to  *)
(* Address (the lookups and the failures).                                  *)
LEMMA PhaseKept ==
    ASSUME \A u \in Id : PhaseOf(life'[u]) = PhaseOf(life[u])
    PROVE  phase' = phase
BY DEF phase

(* The commits of register and _handle_oauth_callback open the account.     *)
LEMMA Opening ==
    ASSUME TypeOK, AccountInv, NEW r \in Req, RegisterCommit(r) \/ SsoCommit(r)
    PROVE  Promise!Open(own[r])
<1>1. own[r] \in Id /\ life[own[r]] = "inserted"
  BY DEF RegisterCommit, SsoCommit, TypeOK, Inserting
<1>2. life' = [life EXCEPT ![own[r]] = "live"] /\ member' = member \cup {own[r]}
      /\ UNCHANGED <<verified, madeFor, mailed>>
  BY DEF RegisterCommit, SsoCommit, linkVars
<1>3. phase' = [phase EXCEPT ![own[r]] = "open"]
  BY <1>1, <1>2, PhaseChange DEF Life, PhaseOf
<1>4. phase[own[r]] = "free" /\ \A v \in Id : phase[v] # "open"
  BY <1>1 DEF AccountInv, TypeOK, Life, phase, PhaseOf
<1>5. QED
  BY <1>2, <1>3, <1>4 DEF Promise!Open

(* Deletion closes it; a failure or a crash closes the one it was about to  *)
(* open (admin_delete_user, the rollback of get_db).                        *)
LEMMA Closing ==
    ASSUME TypeOK, AccountInv,
           \/ \E r \in Req : DbError(r)
           \/ \E u \in Id : DeleteUser(u)
           \/ Crash
    PROVE  (\E u \in Id : Promise!Close(u)) \/ UNCHANGED Promise!vars
<1>1. UNCHANGED <<member, verified, madeFor, mailed>>
  BY DEF DbError, DeleteUser, Crash, linkVars
<1>2. ASSUME NEW u \in Id, life[u] \in {"inserted", "live"}, life' = [life EXCEPT ![u] = "gone"]
      PROVE  Promise!Close(u)
  <2>1. phase' = [phase EXCEPT ![u] = "closed"]
    BY <1>2, PhaseChange DEF Life, PhaseOf
  <2>2. phase[u] \in {"free", "open"}
    BY <1>2 DEF phase, PhaseOf
  <2>3. QED
    BY <1>1, <2>1, <2>2 DEF Promise!Close
<1>3. ASSUME life' = life PROVE UNCHANGED Promise!vars
  BY <1>1, <1>3, PhaseKept DEF Promise!vars
<1>4. life' = life \/ \E u \in Id : /\ life[u] \in {"inserted", "live"}
                                   /\ life' = [life EXCEPT ![u] = "gone"]
  <2>1. ASSUME NEW r \in Req, DbError(r), pc[r] \in Inserting PROVE <1>4!2
    <3>1. own[r] \in Id /\ life[own[r]] = "inserted"
      BY <2>1 DEF TypeOK
    <3>2. life' = [life EXCEPT ![own[r]] = "gone"]
      BY <2>1, <3>1 DEF DbError, TypeOK
    <3>3. QED
      BY <3>1, <3>2
  <2>2. ASSUME NEW r \in Req, DbError(r), pc[r] \notin Inserting PROVE life' = life
    BY <2>2 DEF DbError, TypeOK
  <2>3. ASSUME NEW u \in Id, DeleteUser(u) PROVE <1>4!2
    BY <2>3 DEF DeleteUser
  <2>4. ASSUME Crash, NEW u \in Id, life[u] = "inserted" PROVE <1>4!2
    <3>1. \A v \in Id : life[v] = "inserted" => v = u
      BY <2>4 DEF AccountInv
    <3>2. life' = [life EXCEPT ![u] = "gone"]
      BY <2>4, <3>1 DEF Crash, TypeOK
    <3>3. QED
      BY <2>4, <3>2
  <2>5. ASSUME Crash, \A u \in Id : life[u] # "inserted" PROVE life' = life
    BY <2>5 DEF Crash, TypeOK
  <2>6. QED
    BY <2>1, <2>2, <2>3, <2>4, <2>5
<1>5. QED
  BY <1>2, <1>3, <1>4

(* Links are made for an open account, delivered once made, and verify the  *)
(* account they were made for (create_verification_token,                   *)
(* verify_email_token).                                                     *)
LEMMA Linking ==
    ASSUME TypeOK, AccountInv, NEW r \in Req,
           RegisterToken(r) \/ ResendCommit(r) \/ Mail(r) \/ VerifyCommit(r)
    PROVE  \/ \E u \in Id, t \in Token : Promise!MakeLink(u, t) \/ Promise!Verify(u, t)
           \/ \E t \in Token : Promise!Deliver(t)
           \/ UNCHANGED Promise!vars
<1>1. UNCHANGED <<life, member>> /\ phase' = phase
  <2>1. UNCHANGED <<life, member>>
    BY DEF RegisterToken, ResendCommit, StoreToken, Mail, VerifyCommit, rowVars
  <2>2. QED
    BY <2>1, PhaseKept
<1>2. CASE RegisterToken(r) \/ ResendCommit(r)
  <2>1. own[r] \in Id /\ phase[own[r]] = "open" /\ UNCHANGED <<verified, mailed>>
    BY <1>2 DEF RegisterToken, ResendCommit, StoreToken, TypeOK, phase, PhaseOf
  <2>2. PICK t \in Token : madeFor[t] = None /\ madeFor' = [madeFor EXCEPT ![t] = own[r]]
    BY <1>2 DEF RegisterToken, ResendCommit, StoreToken
  <2>3. Promise!MakeLink(own[r], t)
    BY <1>1, <2>1, <2>2 DEF Promise!MakeLink
  <2>4. QED
    BY <2>1, <2>3
<1>3. CASE Mail(r)
  <2>1. tok[r] \in Token /\ madeFor[tok[r]] # None
        /\ UNCHANGED <<verified, madeFor>>
    BY <1>3 DEF Mail, TypeOK, AccountInv, rowVars
  <2>2. CASE mailed' = mailed \cup {tok[r]}
    BY <1>1, <2>1, <2>2 DEF Promise!Deliver
  <2>3. CASE UNCHANGED mailed
    BY <1>1, <2>1, <2>3 DEF Promise!vars
  <2>4. QED
    BY <1>3, <2>2, <2>3 DEF Mail
<1>4. CASE VerifyCommit(r)
  <2>1. own[r] \in Id /\ tok[r] \in Token /\ tok[r] \in mailed /\ madeFor[tok[r]] = own[r]
    BY <1>4 DEF VerifyCommit, TypeOK, AccountInv
  <2>2. phase[own[r]] = "open" /\ verified' = verified \cup {own[r]}
        /\ UNCHANGED <<madeFor, mailed>>
    BY <1>4, <2>1 DEF VerifyCommit, linkVars, phase, PhaseOf
  <2>3. Promise!Verify(own[r], tok[r])
    BY <1>1, <2>1, <2>2 DEF Promise!Verify
  <2>4. QED
    BY <2>1, <2>3
<1>5. QED
  BY <1>2, <1>3, <1>4

(* The other steps are nothing to Address (the lookups, the insertions that *)
(* are not committed, billing, a token that could not be stored, time).     *)
LEMMA Unseen ==
    ASSUME TypeOK,
           \/ \E r \in Req : Begin(r) \/ RegisterInsert(r) \/ SsoInsert(r)
                             \/ RegisterBill(r) \/ RegisterTokenFails(r)
           \/ \E u \in Id : GrowOld(u)
           \/ UNCHANGED vars
    PROVE  UNCHANGED Promise!vars
<1> USE DEF rowVars, linkVars
<1>1. UNCHANGED <<member, verified, madeFor, mailed>>
  BY DEF Begin, RegisterRead, SsoRead, LookupAbsent, ResendRead, VerifyRead, RegisterInsert,
     SsoInsert, Insert, RegisterBill, RegisterTokenFails, GrowOld, vars
<1>2. ASSUME NEW r \in Req, RegisterInsert(r) \/ SsoInsert(r) PROVE phase' = phase
  <2>1. \A u \in Id : PhaseOf(life'[u]) = PhaseOf(life[u])
    BY <1>2 DEF RegisterInsert, SsoInsert, Insert, TypeOK, PhaseOf
  <2>2. QED
    BY <2>1, PhaseKept
<1>3. ASSUME life' = life PROVE phase' = phase
  BY <1>3, PhaseKept
<1>4. (\E r \in Req : RegisterInsert(r) \/ SsoInsert(r)) \/ life' = life
  BY DEF Begin, RegisterRead, SsoRead, LookupAbsent, ResendRead, VerifyRead,
     RegisterBill, RegisterTokenFails, GrowOld, vars
<1>5. QED
  BY <1>1, <1>2, <1>3, <1>4 DEF Promise!vars

(* One address lives as Address says, whatever interleaves and whatever     *)
(* fails, on any pool (register, _handle_oauth_callback,                    *)
(* email_verification.py, admin_delete_user).                               *)
THEOREM ImplementsPromise == Spec => ImplementsAddress
<1>1. Init => Promise!Init
  BY DEF Init, Promise!Init, phase, PhaseOf
<1>2. TypeOK /\ AccountInv /\ [Next]_vars => [Promise!Next]_(Promise!vars)
  <2> SUFFICES ASSUME TypeOK, AccountInv, [Next]_vars
               PROVE  Promise!Next \/ UNCHANGED Promise!vars
    OBVIOUS
  <2>1. ASSUME NEW r \in Req, RegisterCommit(r) \/ SsoCommit(r) PROVE Promise!Next
    <3>1. own[r] \in Id
      BY <2>1 DEF RegisterCommit, SsoCommit, TypeOK, Inserting
    <3>2. QED
      BY <2>1, <3>1, Opening DEF Promise!Next
  <2>2. ASSUME \/ \E r \in Req : DbError(r)
               \/ \E u \in Id : DeleteUser(u)
               \/ Crash
        PROVE  Promise!Next \/ UNCHANGED Promise!vars
    BY <2>2, Closing DEF Promise!Next
  <2>3. ASSUME NEW r \in Req,
               RegisterToken(r) \/ ResendCommit(r) \/ Mail(r) \/ VerifyCommit(r)
        PROVE  Promise!Next \/ UNCHANGED Promise!vars
    BY <2>3, Linking DEF Promise!Next
  <2>4. QED
    BY <2>1, <2>2, <2>3, Unseen DEF Next, Continue
<1>3. QED
  BY <1>1, <1>2, AccountInvCorrect, PTL DEF Spec, ImplementsAddress, Promise!Spec

(* What Address promises is enough, whatever made it true: one account, its *)
(* membership, and a verification that rests on a delivered link and stays  *)
(* (register, _handle_oauth_callback, verify_email_token).                  *)
THEOREM PromiseSuffices ==
    ImplementsAddress => /\ [](OneUser /\ MembershipWithUser /\ VerifiedByMail)
                         /\ VerificationKept
<1> DEFINE Kept == /\ \A u, v \in Id : phase[u] = "open" /\ phase[v] = "open" => u = v
                   /\ \A u \in Id : phase[u] = "open" => u \in member
                   /\ mailed \subseteq Token
                   /\ \A t \in mailed : madeFor[t] # None
                   /\ \A u \in verified : \E t \in mailed : madeFor[t] = u
                   /\ DOMAIN phase = Id /\ DOMAIN madeFor = Token
<1> USE DEF Promise!Open, Promise!Close, Promise!MakeLink, Promise!Deliver, Promise!Verify
<1>1. Promise!Init => Kept
  BY DEF Promise!Init
<1>2. Kept /\ [Promise!Next]_(Promise!vars) => Kept'
  <2> SUFFICES ASSUME Kept, [Promise!Next]_(Promise!vars) PROVE Kept'
    OBVIOUS
  <2>1. ASSUME NEW u \in Id, Promise!Open(u) \/ Promise!Close(u) PROVE Kept'
    BY <2>1
  <2>2. ASSUME NEW u \in Id, NEW t \in Token, Promise!MakeLink(u, t) PROVE Kept'
    BY <2>2
  <2>3. ASSUME NEW u \in Id, NEW t \in Token, Promise!Verify(u, t) PROVE Kept'
    BY <2>3
  <2>4. ASSUME NEW t \in Token, Promise!Deliver(t) PROVE Kept'
    BY <2>4
  <2>5. CASE UNCHANGED Promise!vars
    BY <2>5 DEF Promise!vars
  <2>6. QED
    BY <2>1, <2>2, <2>3, <2>4, <2>5 DEF Promise!Next
<1>3. Kept => OneUser /\ MembershipWithUser /\ VerifiedByMail
  BY DEF OneUser, MembershipWithUser, VerifiedByMail, Live, phase, PhaseOf
<1>4. [Promise!Next]_(Promise!vars) => verified \subseteq verified'
  BY DEF Promise!Next, Promise!vars
<1>5. QED
  BY <1>1, <1>2, <1>3, <1>4, PTL DEF ImplementsAddress, Promise!Spec, VerificationKept
=============================================================================
