---------------------------- MODULE SecondFactor ----------------------------
(***************************************************************************)
(* What app/mfa_routes.py promises about the second factor of one user, as *)
(* if each request were served in one step.  A secret is offered together  *)
(* with a batch of backup codes, enabled, and dropped; whatever is handed  *)
(* out is new; the codes that work are those of the last batch that have   *)
(* not been spent.                                                         *)
(***************************************************************************)
CONSTANTS Draw, Nr, None    \* what is drawn at random; the codes of a batch

VARIABLES
    state,    \* of the factor; "fresh" while a password change asks for no code
    secret,   \* the draw the secret comes from
    codes,    \* the backup codes that work
    drawn     \* the draws made

vars == <<state, secret, codes, drawn>>

Batch(g) == [gen : {g}, nr : Nr]

Enabled == state \in {"on", "fresh"}

Init ==
    /\ state = "off"
    /\ secret = None
    /\ codes = {}
    /\ drawn = {}

\* Setup, as often as wanted until the factor is enabled.
Offer(g) ==
    /\ ~Enabled /\ g \notin drawn
    /\ state'  = "offered"
    /\ secret' = g
    /\ codes'  = Batch(g)
    /\ drawn'  = drawn \cup {g}

\* A right code for the secret on offer.
Enable ==
    /\ state = "offered"
    /\ state' = "fresh"
    /\ UNCHANGED <<secret, codes, drawn>>

\* Five minutes pass.
Lapse ==
    /\ state = "fresh"
    /\ state' = "on"
    /\ UNCHANGED <<secret, codes, drawn>>

\* A new batch instead of what is left of the old one.
Renew(g) ==
    /\ Enabled /\ g \notin drawn
    /\ codes' = Batch(g)
    /\ drawn' = drawn \cup {g}
    /\ UNCHANGED <<state, secret>>

\* A backup code is accepted.
Spend(c) ==
    /\ Enabled /\ c \in codes
    /\ codes' = codes \ {c}
    /\ UNCHANGED <<state, secret, drawn>>

Disable ==
    /\ Enabled
    /\ state'  = "off"
    /\ secret' = None
    /\ codes'  = {}
    /\ UNCHANGED drawn

Next ==
    \/ \E g \in Draw : Offer(g) \/ Renew(g)
    \/ \E c \in codes : Spend(c)
    \/ Enable \/ Lapse \/ Disable

Spec == Init /\ [][Next]_vars
=============================================================================
