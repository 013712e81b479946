----------------------------- MODULE ResetLink -----------------------------
(***************************************************************************)
(* What /auth/forgot-password and /auth/reset-password promise a user, as  *)
(* if each request were served in one step: asking for a link closes the   *)
(* one before, a link that reached the user sets the password of an        *)
(* account that is not blocked, once, and a closed link stays closed.      *)
(***************************************************************************)
EXTENDS Naturals

CONSTANT Token

VARIABLES
    made,       \* the tokens made so far
    usable,     \* those that can still set the password
    delivered,  \* those whose link has reached the user
    active,     \* the account is not blocked
    uses        \* how often each has set the password

vars == <<made, usable, delivered, active, uses>>

Init ==
    /\ made = {} /\ usable = {} /\ delivered = {}
    /\ active = TRUE
    /\ uses = [t \in Token |-> 0]

\* The user asks for a link.
Ask(t) ==
    /\ active /\ t \notin made
    /\ made' = made \cup {t}
    /\ usable' = {t}
    /\ UNCHANGED <<delivered, active, uses>>

\* The owner sends one, which never works.
SendUseless(t) ==
    /\ t \notin made
    /\ made' = made \cup {t}
    /\ UNCHANGED <<usable, delivered, active, uses>>

Deliver(t) ==
    /\ t \in made
    /\ delivered' = delivered \cup {t}
    /\ UNCHANGED <<made, usable, active, uses>>

Redeem(t) ==
    /\ active /\ t \in usable \cap delivered
    /\ usable' = usable \ {t}
    /\ uses' = [uses EXCEPT ![t] = @ + 1]
    /\ UNCHANGED <<made, delivered, active>>

\* An hour passes.
Lapse(t) ==
    /\ t \in usable
    /\ usable' = usable \ {t}
    /\ UNCHANGED <<made, delivered, active, uses>>

\* Block, unblock.
SetActive(value) ==
    /\ active' = value
    /\ UNCHANGED <<made, usable, delivered, uses>>

Next ==
    \/ \E t \in Token : Ask(t) \/ SendUseless(t) \/ Deliver(t) \/ Redeem(t) \/ Lapse(t)
    \/ \E value \in BOOLEAN : SetActive(value)

Spec == Init /\ [][Next]_vars
=============================================================================
