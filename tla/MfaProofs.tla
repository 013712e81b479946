----------------------------- MODULE MfaProofs -----------------------------
(***************************************************************************)
(* Proofs about Mfa, for any requests and any bounds: the types and        *)
(* EnabledIffDated for every pool; for the default pool of one connection, *)
(* where a loaded row is still the row at the commit (SnapIsCurrent),      *)
(* EnabledIsProved, CodesOfLastBatch, UsedIsGone, and that each step is a  *)
(* step of SecondFactor or a stutter of it.                                *)
(***************************************************************************)
EXTENDS Mfa, DbPoolProofs

(* All a step does to the pool (every handler of the model).                *)
LEMMA PoolUse ==
    ASSUME [Next]_vars
    PROVE  \/ \E r \in Req : Checkout(r) \/ Return(r)
           \/ UNCHANGED conn
           \/ conn' = {}
<1>1. ASSUME NEW r \in Req, Begin(r) PROVE Checkout(r)
  BY <1>1 DEF Begin, Load
<1>2. ASSUME NEW r \in Req, Commit(r) \/ Abort(r) PROVE Return(r)
  BY <1>2 DEF Commit, SetupCommit, VerifyCommit, DisableCommit, RegenerateCommit,
     BackupCommit, ChangePassword, Abort, Finish
<1>3. CASE WindowPasses \/ UNCHANGED vars
  BY <1>3 DEF WindowPasses, vars
<1>4. QED
  BY <1>1, <1>2, <1>3 DEF Next

-----------------------------------------------------------------------------
(* The write of the ORM (Write, for the five handlers that commit).         *)

(* The columns of a record that is a row.                                   *)
LEMMA RowFields ==
    ASSUME NEW x \in Row
    PROVE  /\ DOMAIN x = {"enabled", "secret", "codes", "verified"}
           /\ x.enabled \in BOOLEAN
           /\ x.secret \in StoredSecret
           /\ x.codes \in StoredCodes
           /\ x.verified \in VerifiedAt
BY DEF Row

(* A row written over a row is a row, and each column is the new one where  *)
(* that differs from the loaded one (the ORM's flush).                      *)
LEMMA WriteFields ==
    ASSUME user \in Row, NEW r \in Req, snap[r] \in Row, NEW new \in Row, Write(r, new)
    PROVE  /\ user' \in Row
           /\ user'.enabled  = IF new.enabled  = snap[r].enabled  THEN user.enabled  ELSE new.enabled
           /\ user'.secret   = IF new.secret   = snap[r].secret   THEN user.secret   ELSE new.secret
           /\ user'.codes    = IF new.codes    = snap[r].codes    THEN user.codes    ELSE new.codes
           /\ user'.verified = IF new.verified = snap[r].verified THEN user.verified ELSE new.verified
<1> DEFINE col(c) == IF new[c] = snap[r][c] THEN user[c] ELSE new[c]
<1>1. user' = [c \in {"enabled", "secret", "codes", "verified"} |-> col(c)]
  BY RowFields DEF Write
<1>2. user' = [enabled |-> col("enabled"), secret |-> col("secret"),
               codes |-> col("codes"), verified |-> col("verified")]
  BY <1>1
<1>3. /\ col("enabled") \in BOOLEAN
      /\ col("secret") \in StoredSecret
      /\ col("codes") \in StoredCodes
      /\ col("verified") \in VerifiedAt
  BY RowFields
<1>4. user' \in Row
  BY <1>2, <1>3 DEF Row
<1>5. QED
  BY <1>2, <1>4

(* The secret and the codes that a generation makes, and the rows that      *)
(* setup_mfa and regenerate_backup_codes write.                             *)
LEMMA NewBatch ==
    ASSUME NEW x \in Row, gen \in Nat, gen < MaxGen
    PROVE  /\ Encrypted(SecretOf(gen + 1)) \in [fernet : Secret]
           /\ BatchOf(gen + 1) \in SUBSET Code
           /\ [x EXCEPT !.secret = Encrypted(SecretOf(gen + 1)),
                        !.codes  = BatchOf(gen + 1)] \in Row
           /\ [x EXCEPT !.codes = BatchOf(gen + 1)] \in Row
<1>1. gen + 1 \in 1..MaxGen
  BY MfaAssumption
<1>2. Encrypted(SecretOf(gen + 1)) \in [fernet : Secret]
  BY <1>1 DEF Encrypted, SecretOf, Secret
<1>3. BatchOf(gen + 1) \in SUBSET Code
  BY <1>1 DEF BatchOf, Code
<1>4. /\ Encrypted(SecretOf(gen + 1)) \in StoredSecret
      /\ BatchOf(gen + 1) \in StoredCodes
  BY <1>2, <1>3 DEF StoredSecret, StoredCodes
<1>5. [x EXCEPT !.secret = Encrypted(SecretOf(gen + 1)),
               !.codes  = BatchOf(gen + 1)] \in Row
  BY <1>4 DEF Row
<1>6. [x EXCEPT !.codes = BatchOf(gen + 1)] \in Row
  BY <1>4 DEF Row
<1>7. QED
  BY <1>2, <1>3, <1>5, <1>6

(* The rows that verify_mfa and verify_backup_code_endpoint write.          *)
LEMMA ChangedRows ==
    ASSUME NEW x \in Row
    PROVE  /\ [x EXCEPT !.enabled = TRUE, !.verified = "recent"] \in Row
           /\ \A c : x.codes # None => [x EXCEPT !.codes = @ \ {c}] \in Row
<1>1. "recent" \in VerifiedAt
  BY DEF VerifiedAt
<1>2. [x EXCEPT !.enabled = TRUE, !.verified = "recent"] \in Row
  BY <1>1 DEF Row
<1>3. ASSUME NEW c, x.codes # None PROVE [x EXCEPT !.codes = @ \ {c}] \in Row
  <2>1. x.codes \ {c} \in StoredCodes
    BY <1>3 DEF Row, StoredCodes
  <2>2. QED
    BY <2>1 DEF Row
<1>4. QED
  BY <1>2, <1>3

(* The row that disable_mfa writes.                                         *)
LEMMA BlankRow == Blank \in Row
BY DEF Blank, Row, StoredSecret, StoredCodes, VerifiedAt

(* Every step keeps the types (every handler of the model).                 *)
LEMMA TypeOKStep == TypeOK /\ [Next]_vars => TypeOK'
<1> SUFFICES ASSUME TypeOK, [Next]_vars PROVE TypeOK'
  OBVIOUS
<1> USE DEF TypeOK, InTx, history
<1>0. gen \in Nat /\ \A r \in Req : snap[r] \in Row
  BY MfaAssumption
<1>1. ASSUME NEW r \in Req, Begin(r) PROVE TypeOK'
  <2>1. ASSUME NEW what \in InTx, NEW i \in Secret \cup Code \cup {None}, Load(r, what, i)
        PROVE  TypeOK'
    BY <2>1 DEF Load, Checkout
  <2>2. \A g \in 1..gen : SecretOf(g) \in Secret /\ BatchOf(g) \subseteq Code
    BY MfaAssumption DEF SecretOf, BatchOf, Secret, Code
  <2>3. QED
    BY <1>1, <2>1, <2>2 DEF Begin
<1>2. ASSUME NEW r \in Req, Finish(r)
      PROVE  /\ pc' \in [Req -> {"idle"} \cup InTx]
             /\ input' \in [Req -> Secret \cup Code \cup {None}]
             /\ snap' \in [Req -> Row]
             /\ conn' = {s \in Req : pc'[s] \in InTx}
  BY <1>2, BlankRow DEF Finish, Return
<1>3. ASSUME NEW r \in Req, SetupCommit(r) \/ RegenerateCommit(r) PROVE TypeOK'
  <2>1. gen' \in 0..MaxGen /\ batch' \in 0..gen'
    BY <1>0, <1>3, MfaAssumption DEF SetupCommit, RegenerateCommit
  <2>2. user' \in Row
    BY <1>0, <1>3, NewBatch, WriteFields DEF SetupCommit, RegenerateCommit
  <2>3. QED
    BY <1>2, <1>3, <2>1, <2>2 DEF SetupCommit, RegenerateCommit
<1>4. ASSUME NEW r \in Req, VerifyCommit(r) PROVE TypeOK'
  <2>1. user' \in Row
    BY <1>0, <1>4, ChangedRows, WriteFields DEF VerifyCommit
  <2>2. proved' \in SUBSET [fernet : Secret]
    <3>1. snap[r].secret \in StoredSecret
      BY <1>0, RowFields
    <3>2. QED
      BY <1>4, <3>1 DEF VerifyCommit, StoredSecret
  <2>3. QED
    BY <1>2, <1>4, <2>1, <2>2 DEF VerifyCommit
<1>5. ASSUME NEW r \in Req, DisableCommit(r) PROVE TypeOK'
  <2>1. user' \in Row
    BY <1>0, <1>5, BlankRow, WriteFields DEF DisableCommit
  <2>2. QED
    BY <1>2, <1>5, <2>1 DEF DisableCommit
<1>6. ASSUME NEW r \in Req, BackupCommit(r) PROVE TypeOK'
  <2>1. user' \in Row
    BY <1>0, <1>6, ChangedRows, WriteFields DEF BackupCommit
  <2>2. used' \in SUBSET Code
    <3>1. snap[r].codes \in StoredCodes
      BY <1>0, RowFields
    <3>2. QED
      BY <1>6, <3>1 DEF BackupCommit, StoredCodes
  <2>3. QED
    BY <1>2, <1>6, <2>1, <2>2 DEF BackupCommit
<1>7. ASSUME NEW r \in Req, ChangePassword(r) PROVE TypeOK'
  <2>1. refused' \in SUBSET Secret
    BY <1>0, <1>7, RowFields DEF ChangePassword, Decrypted, StoredSecret
  <2>2. QED
    BY <1>2, <1>7, <2>1 DEF ChangePassword
<1>8. ASSUME NEW r \in Req, Abort(r) PROVE TypeOK'
  BY <1>2, <1>8 DEF Abort
<1>9. CASE WindowPasses
  <2>1. [user EXCEPT !.verified = "old"] \in Row
    <3>1. \A v \in VerifiedAt : [user EXCEPT !.verified = v] \in Row
      BY DEF Row
    <3>2. QED
      BY <3>1 DEF VerifiedAt
  <2>2. QED
    BY <1>9, <2>1 DEF WindowPasses
<1>10. CASE UNCHANGED vars
  BY <1>10 DEF vars
<1>11. QED
  BY <1>1, <1>3, <1>4, <1>5, <1>6, <1>7, <1>8, <1>9, <1>10 DEF Next, Commit

(* The types hold throughout, for every pool.                               *)
THEOREM TypeCorrect == Spec => []TypeOK
<1>1. Init => TypeOK
  BY BlankRow, MfaAssumption DEF Init, TypeOK, InTx
<1>2. QED
  BY <1>1, TypeOKStep, PTL DEF Spec

-----------------------------------------------------------------------------
(* EnabledIffDated, for every pool.                                         *)

(* A row has a date of verification exactly when it is enabled, and so do   *)
(* the loaded ones: the two columns are always written together.            *)
DatedRow(x) == x.enabled <=> x.verified # None
DatedInv == DatedRow(user) /\ \A r \in Req : DatedRow(snap[r])

(* A step of the two columns that verify_mfa and disable_mfa write, and     *)
(* setup_mfa, regeneration and use of a backup code leave alone.            *)
LEMMA DatedWrite ==
    ASSUME NEW r \in Req, TypeOK, DatedInv, NEW new \in Row, Write(r, new),
           \/ new.enabled = snap[r].enabled /\ new.verified = snap[r].verified
           \/ new.enabled # snap[r].enabled /\ DatedRow(new)
    PROVE  DatedRow(user')
<1>1. snap[r] \in Row /\ user \in Row /\ DatedRow(user) /\ DatedRow(snap[r])
  BY DEF TypeOK, DatedInv
<1>2. /\ user'.enabled  = IF new.enabled  = snap[r].enabled  THEN user.enabled  ELSE new.enabled
      /\ user'.verified = IF new.verified = snap[r].verified THEN user.verified ELSE new.verified
  BY <1>1, WriteFields
<1>3. CASE new.enabled = snap[r].enabled /\ new.verified = snap[r].verified
  BY <1>1, <1>2, <1>3 DEF DatedRow
<1>4. CASE new.enabled # snap[r].enabled /\ DatedRow(new)
  <2>1. new.enabled \in BOOLEAN /\ snap[r].enabled \in BOOLEAN
    BY <1>1, RowFields
  <2>2. new.verified # snap[r].verified
    BY <1>1, <1>4, <2>1 DEF DatedRow
  <2>3. QED
    BY <1>2, <1>4, <2>2 DEF DatedRow
<1>5. QED
  BY <1>3, <1>4

(* Every step keeps the two columns together (every handler of the model).  *)
LEMMA DatedStep ==
    ASSUME TypeOK, DatedInv, [Next]_vars
    PROVE  DatedInv'
<1>1. DatedRow(Blank) /\ \A r \in Req : snap[r] \in Row
  BY DEF DatedRow, Blank, TypeOK
<1>2. ASSUME NEW r \in Req, Finish(r), DatedRow(user') PROVE DatedInv'
  <2>1. \A s \in Req : snap'[s] = Blank \/ snap'[s] = snap[s]
    BY <1>2 DEF Finish, TypeOK
  <2>2. QED
    BY <1>1, <1>2, <2>1 DEF DatedInv, DatedRow
<1>3. ASSUME NEW r \in Req, Begin(r) PROVE DatedInv'
  <2>1. user' = user /\ \A s \in Req : snap'[s] = user \/ snap'[s] = snap[s]
    BY <1>3 DEF Begin, Load, TypeOK
  <2>2. QED
    BY <2>1 DEF DatedInv, DatedRow
<1>4. ASSUME NEW r \in Req, SetupCommit(r) PROVE DatedInv'
  <2> DEFINE new == [snap[r] EXCEPT !.secret = Encrypted(SecretOf(gen + 1)),
                                    !.codes  = BatchOf(gen + 1)]
  <2>1. new \in Row
    <3>1. gen \in Nat /\ gen < MaxGen
      BY <1>4, MfaAssumption DEF SetupCommit, TypeOK
    <3>2. QED
      BY <1>1, <3>1, NewBatch
  <2>2. new.enabled = snap[r].enabled /\ new.verified = snap[r].verified
    BY <1>1, RowFields
  <2>3. Write(r, new) /\ Finish(r)
    BY <1>4 DEF SetupCommit
  <2>4. QED
    BY <1>2, <2>1, <2>2, <2>3, DatedWrite
<1>5. ASSUME NEW r \in Req, VerifyCommit(r) PROVE DatedInv'
  <2> DEFINE new == [snap[r] EXCEPT !.enabled = TRUE, !.verified = "recent"]
  <2>1. new \in Row
    BY <1>1, ChangedRows
  <2>2. new.enabled /\ new.verified = "recent"
    BY <1>1, RowFields
  <2>3. Write(r, new) /\ Finish(r) /\ ~snap[r].enabled
    BY <1>5 DEF VerifyCommit
  <2>4. "recent" # None
    BY <2>3, NoneAssumption
  <2>5. QED
    BY <1>2, <2>1, <2>2, <2>3, <2>4, DatedWrite DEF DatedRow
<1>6. ASSUME NEW r \in Req, DisableCommit(r) PROVE DatedInv'
  <2>1. ~Blank.enabled /\ snap[r].enabled /\ Write(r, Blank) /\ Finish(r)
    BY <1>6 DEF DisableCommit, Blank
  <2>2. QED
    BY <1>1, <1>2, <2>1, BlankRow, DatedWrite
<1>7. ASSUME NEW r \in Req, RegenerateCommit(r) PROVE DatedInv'
  <2> DEFINE new == [snap[r] EXCEPT !.codes = BatchOf(gen + 1)]
  <2>1. new \in Row
    <3>1. gen \in Nat /\ gen < MaxGen
      BY <1>7, MfaAssumption DEF RegenerateCommit, TypeOK
    <3>2. QED
      BY <1>1, <3>1, NewBatch
  <2>2. new.enabled = snap[r].enabled /\ new.verified = snap[r].verified
    BY <1>1, RowFields
  <2>3. Write(r, new) /\ Finish(r)
    BY <1>7 DEF RegenerateCommit
  <2>4. QED
    BY <1>2, <2>1, <2>2, <2>3, DatedWrite
<1>8. ASSUME NEW r \in Req, BackupCommit(r) PROVE DatedInv'
  <2> DEFINE new == [snap[r] EXCEPT !.codes = @ \ {input[r]}]
  <2>1. new \in Row
    BY <1>1, <1>8, ChangedRows DEF BackupCommit
  <2>2. new.enabled = snap[r].enabled /\ new.verified = snap[r].verified
    BY <1>1, RowFields
  <2>3. Write(r, new) /\ Finish(r)
    BY <1>8 DEF BackupCommit
  <2>4. QED
    BY <1>2, <2>1, <2>2, <2>3, DatedWrite
<1>9. ASSUME NEW r \in Req, ChangePassword(r) \/ Abort(r) PROVE DatedInv'
  BY <1>2, <1>9 DEF ChangePassword, Abort, DatedInv
<1>10. CASE WindowPasses
  <2>1. user'.enabled = user.enabled /\ user'.verified = "old"
    BY <1>10, RowFields DEF WindowPasses, TypeOK
  <2>2. user.verified = "recent" /\ snap' = snap /\ "recent" # None /\ "old" # None
    BY <1>10, NoneAssumption DEF WindowPasses
  <2>3. QED
    BY <2>1, <2>2 DEF DatedInv, DatedRow
<1>11. CASE UNCHANGED vars
  BY <1>11 DEF vars, DatedInv, DatedRow
<1>12. QED
  BY <1>3, <1>4, <1>5, <1>6, <1>7, <1>8, <1>9, <1>10, <1>11 DEF Next, Commit

(* Whatever the pool, MFA is enabled exactly when it has a date.            *)
THEOREM EnabledMeansDated == Spec => []EnabledIffDated
<1>1. Init => DatedInv
  BY DEF Init, DatedInv, DatedRow, Blank
<1>2. TypeOK /\ DatedInv /\ [Next]_vars => DatedInv'
  BY DatedStep
<1>3. DatedInv => EnabledIffDated
  BY DEF DatedInv, DatedRow, EnabledIffDated
<1>4. QED
  BY <1>1, <1>2, <1>3, TypeCorrect, PTL DEF Spec

-----------------------------------------------------------------------------
(* What holds for the default pool.                                         *)

\* The columns that only the handlers write; `verified` also ages.
SameMfa(x, y) == x.enabled = y.enabled /\ x.secret = y.secret /\ x.codes = y.codes

SnapIsCurrent == \A r \in Req : pc[r] \in InTx => SameMfa(snap[r], user)

(* The inductive invariant, in addition to TypeOK: a loaded row is still    *)
(* the row, because its transaction is alone; and a code that was used is   *)
(* of a generation already made, so that no later batch contains it.        *)
SerialInv ==
    /\ SingleTransaction
    /\ SnapIsCurrent
    /\ \A c \in used : c.gen <= gen
    /\ EnabledIsProved
    /\ CodesOfLastBatch
    /\ UsedIsGone

(* What is written over a current row is what the row becomes (Write).      *)
LEMMA CurrentWrite ==
    ASSUME TypeOK, SerialInv, NEW r \in Req, pc[r] \in InTx, NEW new \in Row, Write(r, new)
    PROVE  SameMfa(user', new) /\ SameMfa(snap[r], user)
<1>1. user \in Row /\ snap[r] \in Row /\ SameMfa(snap[r], user)
  BY DEF TypeOK, SerialInv, SnapIsCurrent
<1>2. QED
  BY <1>1, WriteFields DEF SameMfa

(* After the last step of a transaction none is open (Finish).              *)
LEMMA AllIdle ==
    ASSUME TypeOK, SerialInv, NEW r \in Req, pc[r] \in InTx, Finish(r)
    PROVE  SnapIsCurrent'
<1>1. \A s \in Req : pc[s] \in InTx => s = r
  BY DEF TypeOK, SerialInv, SingleTransaction
<1>2. QED
  BY <1>1 DEF Finish, SnapIsCurrent, TypeOK, InTx

(* Every step keeps the invariant (every handler of the model).             *)
LEMMA SerialStep ==
    ASSUME PoolSize = 1, TypeOK, SerialInv, [Next]_vars
    PROVE  SerialInv'
<1>0. /\ SingleTransaction'
      /\ gen \in Nat /\ batch \in Nat /\ batch <= gen
      /\ user \in Row /\ \A r \in Req : snap[r] \in Row
  BY PoolUse, SerialStepOfPool, MfaAssumption DEF SerialInv, TypeOK
<1> USE DEF InTx, history
<1>1. ASSUME NEW r \in Req, Begin(r) PROVE SerialInv'
  <2>0. PICK what, i : Load(r, what, i)
    BY <1>1 DEF Begin
  <2>1. /\ UNCHANGED <<user, gen, history>>
        /\ \A s \in Req : \/ snap'[s] = user
                          \/ snap'[s] = snap[s] /\ pc'[s] = pc[s]
    <3>1. /\ UNCHANGED <<user, gen, history>>
          /\ snap' = [snap EXCEPT ![r] = user]
          /\ pc'   = [pc EXCEPT ![r] = what]
      BY <2>0 DEF Load
    <3>2. QED
      BY <3>1 DEF TypeOK
  <2>2. SnapIsCurrent'
    BY <2>1 DEF SerialInv, SnapIsCurrent, SameMfa
  <2>3. QED
    BY <1>0, <2>1, <2>2 DEF SerialInv, EnabledIsProved, CodesOfLastBatch, UsedIsGone,
       BatchOf
<1>2. ASSUME NEW r \in Req, SetupCommit(r) PROVE SerialInv'
  <2> DEFINE new == [snap[r] EXCEPT !.secret = Encrypted(SecretOf(gen + 1)),
                                    !.codes  = BatchOf(gen + 1)]
  <2>1. /\ pc[r] \in InTx /\ gen < MaxGen /\ ~snap[r].enabled
        /\ Write(r, new) /\ Finish(r)
        /\ gen' = gen + 1 /\ batch' = gen + 1 /\ used' = used
    BY <1>2 DEF SetupCommit
  <2>2. new \in Row
    BY <1>0, <2>1, NewBatch
  <2>3. ~new.enabled /\ new.codes = BatchOf(gen + 1)
    BY <1>0, <2>1, RowFields
  <2>4. ~user'.enabled /\ user'.codes = BatchOf(gen + 1)
    BY <2>1, <2>2, <2>3, CurrentWrite DEF SameMfa
  <2>5. SnapIsCurrent'
    BY <2>1, AllIdle
  <2>6. \A c \in used' : c.gen <= gen'
    <3>1. used \in SUBSET Code /\ \A c \in used : c.gen \in Nat /\ c.gen <= gen
      BY DEF TypeOK, SerialInv, Code
    <3>2. QED
      BY <1>0, <2>1, <3>1
  <2>7. BatchOf(gen + 1) \cap used = {}
    BY <1>0 DEF SerialInv, BatchOf
  <2>8. QED
    BY <1>0, <2>1, <2>4, <2>5, <2>6, <2>7
    DEF SerialInv, EnabledIsProved, CodesOfLastBatch, UsedIsGone, BatchOf
<1>3. ASSUME NEW r \in Req, VerifyCommit(r) PROVE SerialInv'
  <2> DEFINE new == [snap[r] EXCEPT !.enabled = TRUE, !.verified = "recent"]
  <2>1. /\ pc[r] \in InTx /\ Write(r, new) /\ Finish(r)
        /\ proved' = proved \cup {snap[r].secret}
        /\ UNCHANGED <<gen, batch, used>>
    BY <1>3 DEF VerifyCommit
  <2>2. new \in Row /\ new.secret = snap[r].secret /\ new.codes = snap[r].codes
    BY <1>0, ChangedRows, RowFields
  <2>3. user'.secret = snap[r].secret /\ user'.codes = user.codes
    BY <2>1, <2>2, CurrentWrite DEF SameMfa
  <2>4. SnapIsCurrent'
    BY <2>1, AllIdle
  <2>5. QED
    BY <1>0, <2>1, <2>3, <2>4
    DEF SerialInv, EnabledIsProved, CodesOfLastBatch, UsedIsGone, BatchOf
<1>4. ASSUME NEW r \in Req, DisableCommit(r) PROVE SerialInv'
  <2>1. /\ pc[r] \in InTx /\ Write(r, Blank) /\ Finish(r)
        /\ UNCHANGED <<gen, history>>
    BY <1>4 DEF DisableCommit
  <2>2. ~user'.enabled /\ user'.codes = None
    BY <2>1, BlankRow, CurrentWrite DEF SameMfa, Blank
  <2>3. SnapIsCurrent'
    BY <2>1, AllIdle
  <2>4. QED
    BY <1>0, <2>1, <2>2, <2>3
    DEF SerialInv, EnabledIsProved, CodesOfLastBatch, UsedIsGone
<1>5. ASSUME NEW r \in Req, RegenerateCommit(r) PROVE SerialInv'
  <2> DEFINE new == [snap[r] EXCEPT !.codes = BatchOf(gen + 1)]
  <2>1. /\ pc[r] \in InTx /\ gen < MaxGen /\ Write(r, new) /\ Finish(r)
        /\ gen' = gen + 1 /\ batch' = gen + 1 /\ UNCHANGED <<used, proved>>
    BY <1>5 DEF RegenerateCommit
  <2>2. new \in Row
    BY <1>0, <2>1, NewBatch
  <2>3. /\ new.enabled = snap[r].enabled /\ new.secret = snap[r].secret
        /\ new.codes = BatchOf(gen + 1)
    BY <1>0, RowFields
  <2>4. /\ user'.enabled = user.enabled /\ user'.secret = user.secret
        /\ user'.codes = BatchOf(gen + 1)
    BY <2>1, <2>2, <2>3, CurrentWrite DEF SameMfa
  <2>5. SnapIsCurrent'
    BY <2>1, AllIdle
  <2>6. \A c \in used' : c.gen <= gen'
    <3>1. used \in SUBSET Code /\ \A c \in used : c.gen \in Nat /\ c.gen <= gen
      BY DEF TypeOK, SerialInv, Code
    <3>2. QED
      BY <1>0, <2>1, <3>1
  <2>7. BatchOf(gen + 1) \cap used = {}
    BY <1>0 DEF SerialInv, BatchOf
  <2>8. QED
    BY <1>0, <2>1, <2>4, <2>5, <2>6, <2>7
    DEF SerialInv, EnabledIsProved, CodesOfLastBatch, UsedIsGone, BatchOf
<1>6. ASSUME NEW r \in Req, BackupCommit(r) PROVE SerialInv'
  <2> DEFINE new == [snap[r] EXCEPT !.codes = @ \ {input[r]}]
  <2>1. /\ pc[r] \in InTx /\ snap[r].codes # None /\ input[r] \in snap[r].codes
        /\ Write(r, new) /\ Finish(r)
        /\ used' = used \cup {input[r]} /\ UNCHANGED <<gen, batch, proved>>
    BY <1>6 DEF BackupCommit
  <2>2. new \in Row
    BY <1>0, <2>1, ChangedRows
  <2>3. /\ new.enabled = snap[r].enabled /\ new.secret = snap[r].secret
        /\ new.codes = snap[r].codes \ {input[r]}
    BY <1>0, RowFields
  <2>4. /\ user'.enabled = user.enabled /\ user'.secret = user.secret
        /\ user'.codes = user.codes \ {input[r]}
        /\ user.codes # None /\ input[r] \in user.codes
    BY <2>1, <2>2, <2>3, CurrentWrite DEF SameMfa
  <2>5. SnapIsCurrent'
    BY <2>1, AllIdle
  <2>6. user.codes \subseteq BatchOf(batch) /\ user.codes \cap used = {}
    BY <2>4 DEF SerialInv, CodesOfLastBatch, UsedIsGone
  <2>7. input[r].gen = batch
    BY <2>4, <2>6 DEF BatchOf
  <2>8. QED
    BY <1>0, <2>1, <2>4, <2>5, <2>6, <2>7
    DEF SerialInv, EnabledIsProved, CodesOfLastBatch, UsedIsGone, BatchOf
<1>7. ASSUME NEW r \in Req, ChangePassword(r) \/ Abort(r) PROVE SerialInv'
  <2>1. /\ pc[r] \in InTx /\ Finish(r)
        /\ UNCHANGED <<user, gen, batch, proved, used>>
    BY <1>7 DEF ChangePassword, Abort
  <2>2. SnapIsCurrent'
    BY <2>1, AllIdle
  <2>3. QED
    BY <1>0, <2>1, <2>2
    DEF SerialInv, EnabledIsProved, CodesOfLastBatch, UsedIsGone, BatchOf
<1>8. CASE WindowPasses
  <2>1. SameMfa(user', user) /\ UNCHANGED <<pc, snap, gen, history>>
    BY <1>0, <1>8, RowFields DEF WindowPasses, SameMfa
  <2>2. QED
    BY <1>0, <2>1 DEF SerialInv, SnapIsCurrent, SameMfa, EnabledIsProved,
       CodesOfLastBatch, UsedIsGone, BatchOf
<1>9. CASE UNCHANGED vars
  BY <1>0, <1>9 DEF vars, SerialInv, SnapIsCurrent, SameMfa, EnabledIsProved,
     CodesOfLastBatch, UsedIsGone, BatchOf
<1>10. QED
  BY <1>1, <1>2, <1>3, <1>4, <1>5, <1>6, <1>7, <1>8, <1>9 DEF Next, Commit

(* The invariant, for the default pool.                                     *)
LEMMA SerialCorrect ==
    ASSUME PoolSize = 1
    PROVE  Spec => []SerialInv
<1>1. Init => SerialInv
  BY DEF Init, SerialInv, SingleTransaction, SnapIsCurrent, InTx, Blank,
     EnabledIsProved, CodesOfLastBatch, UsedIsGone
<1>2. TypeOK /\ SerialInv /\ [Next]_vars => SerialInv'
  BY SerialStep
<1>3. QED
  BY <1>1, <1>2, TypeCorrect, PTL DEF Spec

(* With the default pool, MFA is never in force with a secret whose code    *)
(* /auth/mfa/verify has not accepted.                                       *)
THEOREM EnabledAfterProof ==
    ASSUME PoolSize = 1
    PROVE  Spec => []EnabledIsProved
BY SerialCorrect, PTL DEF SerialInv

(* With the default pool, new backup codes replace all the old ones.        *)
THEOREM OldCodesInvalid ==
    ASSUME PoolSize = 1
    PROVE  Spec => []CodesOfLastBatch
BY SerialCorrect, PTL DEF SerialInv

(* With the default pool, a backup code works once.                         *)
THEOREM CodeWorksOnce ==
    ASSUME PoolSize = 1
    PROVE  Spec => []UsedIsGone
BY SerialCorrect, PTL DEF SerialInv

-----------------------------------------------------------------------------
(* The refinement of SecondFactor, for the default pool.                    *)

(* A step that leaves the row and the generations alone is nothing to       *)
(* SecondFactor (the loads, the refusals, change_password).                 *)
LEMMA Unseen ==
    ASSUME UNCHANGED <<user, gen>>
    PROVE  UNCHANGED Factor!vars
BY DEF Factor!vars, state, secret, codes

(* What a commit writes, column by column (Write over a current row; the    *)
(* date is the one column that time may have changed since the load).       *)
LEMMA Commits ==
    ASSUME TypeOK, SerialInv, DatedInv, NEW r \in Req, pc[r] \in InTx,
           NEW new \in Row, Write(r, new)
    PROVE  /\ SameMfa(user', new) /\ SameMfa(snap[r], user)
           /\ user \in Row /\ snap[r] \in Row /\ DatedRow(user) /\ DatedRow(snap[r])
           /\ new.verified = snap[r].verified => user'.verified = user.verified
           /\ new.verified # snap[r].verified => user'.verified = new.verified
<1>1. user \in Row /\ snap[r] \in Row /\ DatedRow(user) /\ DatedRow(snap[r])
  BY DEF TypeOK, DatedInv
<1>2. QED
  BY <1>1, WriteFields, CurrentWrite

(* setup_mfa offers what it generated.                                      *)
LEMMA Offering ==
    ASSUME TypeOK, SerialInv, DatedInv, NEW r \in Req, SetupCommit(r)
    PROVE  Factor!Offer(gen + 1)
<1> DEFINE new == [snap[r] EXCEPT !.secret = Encrypted(SecretOf(gen + 1)),
                                  !.codes  = BatchOf(gen + 1)]
<1>1. /\ pc[r] \in InTx /\ gen < MaxGen /\ gen \in Nat /\ ~snap[r].enabled
      /\ Write(r, new) /\ gen' = gen + 1 /\ snap[r] \in Row
  BY MfaAssumption DEF SetupCommit, InTx, TypeOK
<1>2. /\ Encrypted(SecretOf(gen + 1)) \in [fernet : Secret]
      /\ BatchOf(gen + 1) \in SUBSET Code
      /\ new \in Row
  BY <1>1, NewBatch
<1>3. /\ ~new.enabled /\ new.codes = BatchOf(gen + 1)
      /\ new.secret = Encrypted(SecretOf(gen + 1))
  BY <1>1, RowFields
<1>4. /\ ~user'.enabled /\ user'.codes = BatchOf(gen + 1) /\ ~user.enabled
      /\ user'.secret = Encrypted(SecretOf(gen + 1))
  BY <1>1, <1>2, <1>3, Commits DEF SameMfa
<1>5. ~Factor!Enabled
  BY <1>4 DEF Factor!Enabled, state
<1>6. state' = "offered"
  BY <1>2, <1>4, NullAssumption DEF state
<1>7. secret' = gen + 1
  BY <1>2, <1>4, NullAssumption DEF secret, Encrypted, Decrypted, SecretOf
<1>8. codes' = Factor!Batch(gen + 1)
  BY <1>2, <1>4, NullAssumption DEF codes, BatchOf, Factor!Batch
<1>9. gen + 1 \notin 1..gen /\ (1..gen)' = (1..gen) \cup {gen + 1}
  BY <1>1
<1>10. QED
  BY <1>5, <1>6, <1>7, <1>8, <1>9 DEF Factor!Offer

(* verify_mfa enables it.                                                   *)
LEMMA Enabling ==
    ASSUME TypeOK, SerialInv, DatedInv, NEW r \in Req, VerifyCommit(r)
    PROVE  Factor!Enable
<1> DEFINE new == [snap[r] EXCEPT !.enabled = TRUE, !.verified = "recent"]
<1>1. /\ pc[r] \in InTx /\ Write(r, new) /\ snap[r] \in Row
      /\ snap[r].secret # None /\ ~snap[r].enabled /\ UNCHANGED gen
  BY DEF VerifyCommit, InTx, TypeOK
<1>2. /\ new \in Row /\ new.enabled /\ new.verified = "recent"
      /\ new.secret = snap[r].secret /\ new.codes = snap[r].codes
  BY <1>1, ChangedRows, RowFields
<1>3. DatedRow(snap[r]) /\ SameMfa(user', new) /\ SameMfa(snap[r], user)
      /\ (new.verified # snap[r].verified => user'.verified = new.verified)
  BY <1>1, <1>2, Commits
<1>4. user'.verified = "recent"
  BY <1>1, <1>2, <1>3, NoneAssumption DEF DatedRow
<1>5. /\ user'.enabled /\ user'.secret = user.secret /\ user'.codes = user.codes
      /\ ~user.enabled /\ user.secret # None
  BY <1>1, <1>2, <1>3 DEF SameMfa
<1>6. QED
  BY <1>1, <1>4, <1>5 DEF Factor!Enable, state, secret, codes

(* regenerate_backup_codes renews the batch.                                *)
LEMMA Renewing ==
    ASSUME TypeOK, SerialInv, DatedInv, NEW r \in Req, RegenerateCommit(r)
    PROVE  Factor!Renew(gen + 1)
<1> DEFINE new == [snap[r] EXCEPT !.codes = BatchOf(gen + 1)]
<1>1. /\ pc[r] \in InTx /\ gen < MaxGen /\ gen \in Nat /\ snap[r].enabled
      /\ Write(r, new) /\ gen' = gen + 1 /\ snap[r] \in Row
  BY MfaAssumption DEF RegenerateCommit, InTx, TypeOK
<1>2. BatchOf(gen + 1) \in SUBSET Code /\ new \in Row
  BY <1>1, NewBatch
<1>3. /\ new.enabled = snap[r].enabled /\ new.secret = snap[r].secret
      /\ new.codes = BatchOf(gen + 1) /\ new.verified = snap[r].verified
  BY <1>1, RowFields
<1>4. /\ user'.enabled = user.enabled /\ user'.secret = user.secret
      /\ user'.codes = BatchOf(gen + 1) /\ user'.verified = user.verified /\ user.enabled
  BY <1>1, <1>2, <1>3, Commits DEF SameMfa
<1>5. codes' = Factor!Batch(gen + 1)
  BY <1>2, <1>4, NullAssumption DEF codes, BatchOf, Factor!Batch
<1>6. gen + 1 \notin 1..gen /\ (1..gen)' = (1..gen) \cup {gen + 1}
  BY <1>1
<1>7. Factor!Enabled /\ state' = state /\ secret' = secret
  BY <1>4 DEF Factor!Enabled, state, secret
<1>8. QED
  BY <1>5, <1>6, <1>7 DEF Factor!Renew

(* verify_backup_code_endpoint spends a code.                               *)
LEMMA Spending ==
    ASSUME TypeOK, SerialInv, DatedInv, NEW r \in Req, BackupCommit(r)
    PROVE  \E c \in codes : Factor!Spend(c)
<1> DEFINE new == [snap[r] EXCEPT !.codes = @ \ {input[r]}]
<1>1. /\ pc[r] \in InTx /\ snap[r].enabled /\ snap[r].codes # None
      /\ input[r] \in snap[r].codes /\ Write(r, new) /\ UNCHANGED gen /\ snap[r] \in Row
  BY DEF BackupCommit, InTx, TypeOK
<1>2. new \in Row
  BY <1>1, ChangedRows
<1>3. /\ new.enabled = snap[r].enabled /\ new.secret = snap[r].secret
      /\ new.codes = snap[r].codes \ {input[r]} /\ new.verified = snap[r].verified
  BY <1>1, RowFields
<1>4. /\ user'.enabled = user.enabled /\ user'.secret = user.secret
      /\ user'.codes = user.codes \ {input[r]} /\ user'.verified = user.verified
      /\ user.enabled /\ user.codes # None /\ input[r] \in user.codes
  BY <1>1, <1>2, <1>3, Commits DEF SameMfa
<1>5. user'.codes # None
  <2>1. user.codes \in StoredCodes
    BY RowFields DEF TypeOK
  <2>2. user.codes \ {input[r]} \in SUBSET Code
    BY <1>4, <2>1 DEF StoredCodes
  <2>3. QED
    BY <1>4, <2>2, NullAssumption
<1>6. input[r] \in codes /\ codes' = codes \ {input[r]}
  BY <1>4, <1>5 DEF codes
<1>7. Factor!Enabled /\ state' = state /\ secret' = secret
  BY <1>4 DEF Factor!Enabled, state, secret
<1>8. QED
  BY <1>1, <1>6, <1>7 DEF Factor!Spend

(* disable_mfa drops it, whatever was left.                                 *)
LEMMA Disabling ==
    ASSUME TypeOK, SerialInv, DatedInv, NEW r \in Req, DisableCommit(r)
    PROVE  Factor!Disable
<1>1. /\ pc[r] \in InTx /\ snap[r].enabled /\ Write(r, Blank) /\ UNCHANGED gen
  BY DEF DisableCommit, InTx
<1>2. SameMfa(user', Blank) /\ SameMfa(snap[r], user)
  BY <1>1, BlankRow, Commits
<1>3. ~user'.enabled /\ user'.secret = None /\ user'.codes = None /\ user.enabled
  BY <1>1, <1>2 DEF SameMfa, Blank
<1>4. QED
  BY <1>1, <1>3 DEF Factor!Disable, Factor!Enabled, state, secret, codes

(* Time passes for both alike (check_mfa_required).                         *)
LEMMA Lapsing ==
    ASSUME TypeOK, DatedInv, WindowPasses
    PROVE  Factor!Lapse
<1>1. /\ user'.enabled = user.enabled /\ user'.secret = user.secret
      /\ user'.codes = user.codes /\ user'.verified = "old"
  BY RowFields DEF WindowPasses, TypeOK
<1>2. user.enabled /\ user.verified = "recent"
  BY NoneAssumption DEF WindowPasses, DatedInv, DatedRow
<1>3. QED
  BY <1>1, <1>2 DEF WindowPasses, Factor!Lapse, state, secret, codes

(* With the default pool, the handlers do what SecondFactor says (all of    *)
(* app/mfa_routes.py, verify_mfa_for_operation).                            *)
THEOREM ImplementsFactor ==
    ASSUME PoolSize = 1
    PROVE  Spec => ImplementsSecondFactor
<1>1. Init => DatedInv /\ Factor!Init
  BY DEF Init, DatedInv, DatedRow, Blank, Factor!Init, state, secret, codes
<1>2. TypeOK /\ DatedInv /\ [Next]_vars => DatedInv'
  BY DatedStep
<1>3. TypeOK /\ SerialInv /\ DatedInv /\ [Next]_vars => [Factor!Next]_(Factor!vars)
  <2> SUFFICES ASSUME TypeOK, SerialInv, DatedInv, [Next]_vars
               PROVE  Factor!Next \/ UNCHANGED Factor!vars
    OBVIOUS
  <2>1. ASSUME NEW r \in Req, SetupCommit(r) \/ RegenerateCommit(r)
        PROVE  Factor!Next
    <3>1. gen + 1 \in 1..MaxGen
      BY <2>1, MfaAssumption DEF SetupCommit, RegenerateCommit, TypeOK
    <3>2. QED
      BY <2>1, <3>1, Offering, Renewing DEF Factor!Next
  <2>2. ASSUME NEW r \in Req, VerifyCommit(r) \/ BackupCommit(r) \/ DisableCommit(r)
        PROVE  Factor!Next
    BY <2>2, Enabling, Spending, Disabling DEF Factor!Next
  <2>3. ASSUME NEW r \in Req, Begin(r) \/ ChangePassword(r) \/ Abort(r)
        PROVE  UNCHANGED Factor!vars
    BY <2>3, Unseen DEF Begin, Load, ChangePassword, Abort
  <2>4. CASE WindowPasses
    BY <2>4, Lapsing DEF Factor!Next
  <2>5. CASE UNCHANGED vars
    BY <2>5, Unseen DEF vars
  <2>6. QED
    BY <2>1, <2>2, <2>3, <2>4, <2>5 DEF Next, Commit
<1>4. QED
  BY <1>1, <1>2, <1>3, TypeCorrect, SerialCorrect, PTL
  DEF Spec, ImplementsSecondFactor, Factor!Spec

(* What SecondFactor promises is enough, whatever made it true: a code that *)
(* does not work never comes to work, unless it is of a batch made anew; so *)
(* neither a code that was used nor one that was replaced comes back        *)
(* (verify_backup_code_endpoint, setup_mfa, regenerate_backup_codes).       *)
THEOREM FactorRevivesNoCode ==
    ImplementsSecondFactor =>
        [][\A c \in codes' \ codes : c.gen \in 1..gen' /\ c.gen \notin 1..gen]_<<codes, gen>>
<1> DEFINE NotRevived == \A c \in codes' \ codes : c.gen \in 1..gen' /\ c.gen \notin 1..gen
<1>1. ASSUME NEW g, Factor!Offer(g) \/ Factor!Renew(g) PROVE NotRevived
  <2>1. codes' = [gen : {g}, nr : 1..BatchSize] /\ g \notin 1..gen /\ g \in 1..gen'
    BY <1>1 DEF Factor!Offer, Factor!Renew, Factor!Batch
  <2>2. QED
    BY <2>1
<1>2. ASSUME \/ \E c \in codes : Factor!Spend(c)
             \/ Factor!Enable \/ Factor!Lapse \/ Factor!Disable
             \/ UNCHANGED Factor!vars
      PROVE  NotRevived
  BY <1>2 DEF Factor!vars, Factor!Spend, Factor!Enable, Factor!Lapse, Factor!Disable
<1>3. [Factor!Next]_(Factor!vars) => [NotRevived]_<<codes, gen>>
  BY <1>1, <1>2 DEF Factor!Next
<1>4. QED
  BY <1>3, PTL DEF ImplementsSecondFactor, Factor!Spec
=============================================================================
