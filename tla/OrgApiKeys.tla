----------------------------- MODULE OrgApiKeys -----------------------------
(***************************************************************************)
(* API keys of an organisation (app/api_keys_routes.py): created, revoked  *)
(* by deletion, and verified for the gateway, which marks the use with a   *)
(* commit and reads the role in a second transaction.                      *)
(***************************************************************************)
EXTENDS Handlers

CONSTANT OrgKey     \* rows of api_keys

VARIABLE
    orgKey          \* the state of each row

OrgKeysInit == orgKey = [k \in OrgKey |-> "absent"]

CreateOrgKey(r, k) ==
    /\ orgKey[k] = "absent"
    /\ AtOnce(r)
    /\ orgKey' = [orgKey EXCEPT ![k] = "valid"]

RevokeOrgKey(r, k) ==
    /\ orgKey[k] \in {"valid", "expired"}
    /\ AtOnce(r)
    /\ orgKey' = [orgKey EXCEPT ![k] = "revoked"]

\* The row is found by its prefix, its hash compared, its expiry checked.
VerifyKeyRead(r, k) ==
    /\ orgKey[k] = "valid"
    /\ Start(r, "verify", k)
    /\ UNCHANGED orgKey

\* last_used_at is written; if the row is gone, the UPDATE raises.
VerifyKeyCommit(r) ==
    /\ pc[r] = "verify"
    /\ \/ orgKey[arg[r]] # "revoked" /\ Goto(r, "accepted", arg[r]) /\ Return(r)
       \/ orgKey[arg[r]] = "revoked" /\ Answer(r)
    /\ UNCHANGED orgKey

\* The membership, on a connection that is kept while billing is asked.
VerifyKeyMembership(r) ==
    /\ pc[r] = "accepted"
    /\ Checkout(r)
    /\ Goto(r, "membership", arg[r])
    /\ UNCHANGED orgKey

VerifyKeyAnswer(r) ==
    /\ pc[r] = "membership"
    /\ Answer(r)
    /\ UNCHANGED orgKey

ExpireOrgKey(k) ==
    /\ orgKey[k] = "valid"
    /\ orgKey' = [orgKey EXCEPT ![k] = "expired"]
    /\ UNCHANGED reqVars

OrgKeysNext ==
    \/ \E r \in Req :
          \/ \E k \in OrgKey : CreateOrgKey(r, k) \/ RevokeOrgKey(r, k) \/ VerifyKeyRead(r, k)
          \/ VerifyKeyCommit(r) \/ VerifyKeyMembership(r) \/ VerifyKeyAnswer(r)
    \/ \E k \in OrgKey : ExpireOrgKey(k)

InOrgKeyTx == {"verify", "membership"}

OrgKeyTypes ==
    /\ orgKey \in [OrgKey -> {"absent", "valid", "expired", "revoked"}]
    /\ \A r \in Req : pc[r] \in InOrgKeyTx \cup {"accepted"} => arg[r] \in OrgKey
=============================================================================
