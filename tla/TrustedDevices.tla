--------------------------- MODULE TrustedDevices ---------------------------
(***************************************************************************)
(* The trusted devices of one user (app/sessions.py, the routes of         *)
(* app/sessions_routes.py).  A row is updated and deleted by its id; the   *)
(* pair of user and fingerprint is unique.                                 *)
(***************************************************************************)
EXTENDS Handlers

CONSTANTS
    Device,     \* fingerprints
    DeviceRow   \* rows of trusted_devices, used once

ASSUME DeviceAssumption == None \notin Device

VARIABLES
    deviceOf,   \* the device of each row, None without one
    lapsed,     \* rows past trusted_until
    rowsUsed,   \* history: rows that exist or existed
    mfaOn       \* users.mfa_enabled, written by the handlers of Mfa

deviceVars == <<deviceOf, lapsed, rowsUsed, mfaOn>>

DevicesInit ==
    /\ deviceOf = [w \in DeviceRow |-> None]
    /\ lapsed = {} /\ rowsUsed = {} /\ mfaOn = TRUE

Trusts     == {w \in DeviceRow : deviceOf[w] # None}
RowsFor(d) == {w \in DeviceRow : deviceOf[w] = d}

Drop(S) ==
    /\ deviceOf' = [w \in DeviceRow |-> IF w \in S THEN None ELSE deviceOf[w]]
    /\ lapsed' = lapsed \ S
    /\ UNCHANGED <<rowsUsed, mfaOn>>

\* What get_trusted_devices lists.
Listed == Trusts \ lapsed

-----------------------------------------------------------------------------
(* POST /auth/trusted-devices                                               *)

\* The user must have MFA; then the row of this device is looked up.
TrustRead(r, d) ==
    /\ mfaOn
    /\ Start(r, "trust", [device |-> d, rows |-> RowsFor(d)])
    /\ UNCHANGED deviceVars

\* Mutant: the row is written whether it is still there or not.
TrustExtend_Upserts(r) ==
    /\ pc[r] = "trust" /\ arg[r].rows # {}
    /\ lapsed' = lapsed \ arg[r].rows
    /\ deviceOf' = [w \in DeviceRow |-> IF w \in arg[r].rows THEN arg[r].device ELSE deviceOf[w]]
    /\ Answer(r)
    /\ UNCHANGED <<rowsUsed, mfaOn>>

\* "Extend trust period".  The UPDATE of a row that is gone raises.
TrustExtend(r) ==
    /\ pc[r] = "trust" /\ arg[r].rows # {}
    /\ lapsed' = IF arg[r].rows \subseteq Trusts THEN lapsed \ arg[r].rows ELSE lapsed
    /\ Answer(r)
    /\ UNCHANGED <<deviceOf, rowsUsed, mfaOn>>

\* A new row, unless another request inserted one meanwhile: the constraint
\* raises.
TrustInsert(r) ==
    /\ pc[r] = "trust" /\ arg[r].rows = {}
    /\ \/ /\ RowsFor(arg[r].device) = {}
          /\ \E w \in DeviceRow \ rowsUsed :
                /\ deviceOf' = [deviceOf EXCEPT ![w] = arg[r].device]
                /\ rowsUsed' = rowsUsed \cup {w}
       \/ RowsFor(arg[r].device) # {} /\ UNCHANGED <<deviceOf, rowsUsed>>
    /\ Answer(r)
    /\ UNCHANGED <<lapsed, mfaOn>>

-----------------------------------------------------------------------------
(* DELETE /auth/trusted-devices/{id} and revoke-all                         *)

RevokeDevice(r, w) ==
    /\ w \in Trusts
    /\ AtOnce(r)
    /\ Drop({w})

RevokeDevicesRead(r) ==
    /\ Start(r, "revokeAll", [rows |-> Trusts])
    /\ UNCHANGED deviceVars

\* Rows that are gone by now are only warned about.
RevokeDevicesCommit(r) ==
    /\ pc[r] = "revokeAll"
    /\ Drop(arg[r].rows)
    /\ Answer(r)

-----------------------------------------------------------------------------

LapseTrust(w) ==
    /\ w \in Listed
    /\ lapsed' = lapsed \cup {w}
    /\ UNCHANGED <<deviceOf, rowsUsed, mfaOn, reqVars>>

\* verify_mfa and disable_mfa, which leave the devices alone.
ToggleMfa ==
    /\ OneShot
    /\ mfaOn' = ~mfaOn
    /\ UNCHANGED <<deviceOf, lapsed, rowsUsed, pc, arg>>

InDeviceTx == {"trust", "revokeAll"}

DevicesNext ==
    \/ \E r \in Req :
          \/ \E d \in Device : TrustRead(r, d)
          \/ \E w \in DeviceRow : RevokeDevice(r, w)
          \/ TrustExtend(r) \/ TrustInsert(r)
          \/ RevokeDevicesRead(r) \/ RevokeDevicesCommit(r)
    \/ \E w \in DeviceRow : LapseTrust(w)
    \/ ToggleMfa

DeviceTypes ==
    /\ deviceOf \in [DeviceRow -> Device \cup {None}]
    /\ Trusts \subseteq rowsUsed /\ rowsUsed \subseteq DeviceRow
    /\ lapsed \subseteq Trusts
    /\ mfaOn \in BOOLEAN
    /\ \A r \in Req :
          /\ pc[r] = "trust" => arg[r] \in [device : Device, rows : SUBSET DeviceRow]
          /\ pc[r] = "revokeAll" => arg[r] \in [rows : SUBSET DeviceRow]

(* A device that was revoked is trusted again only by a request that found  *)
(* it untrusted: extending it at the same time does not bring it back       *)
(* (trust_device against revoke_trusted_device).                            *)
NotResurrected ==
    [][\A d \in Device : RowsFor(d) = {} /\ RowsFor(d)' # {} =>
          \E r \in Req : pc[r] = "trust" /\ arg[r] = [device |-> d, rows |-> {}]]_deviceVars
=============================================================================
