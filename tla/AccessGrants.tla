---------------------------- MODULE AccessGrants ----------------------------
(***************************************************************************)
(* What the handlers that invalidate sessions promise to whoever asks      *)
(* /auth/verify about an access token of one user, as if each were one     *)
(* step: a change of the password, of MFA or of the account's standing     *)
(* takes effect together with the rejection of every token made before it, *)
(* and a blocked account is given none that is accepted, unless it signs   *)
(* on by OAuth: there the code asks nobody whether it is blocked.          *)
(***************************************************************************)
EXTENDS Naturals

VARIABLES
    valid,      \* the tokens that are accepted
    active,     \* the account is not blocked
    mfa,        \* the account has MFA
    epoch       \* the number of invalidations

vars == <<valid, active, mfa, epoch>>

Init ==
    /\ valid = {}
    /\ active = TRUE /\ mfa = FALSE
    /\ epoch = 0

\* Whoever is given t: it is made from a row read since the last invalidation.
Give(t) ==
    /\ t.since = epoch
    /\ valid' = valid \cup {t}
    /\ UNCHANGED <<active, mfa, epoch>>

\* Login or refresh.
Issue(t) == active /\ ~t.sso /\ Give(t)

\* Sign-on by OAuth, of a blocked account too.
SignOn(t) == t.sso /\ Give(t)

Expire(t) ==
    /\ valid' = valid \ {t}
    /\ UNCHANGED <<active, mfa, epoch>>

Invalidate == valid' = {} /\ epoch' = epoch + 1

\* Change or reset, by the user or the owner.
ChangePassword == Invalidate /\ UNCHANGED <<active, mfa>>

SwitchMfa == Invalidate /\ mfa' = ~mfa /\ UNCHANGED active

Block == Invalidate /\ active' = FALSE /\ UNCHANGED mfa

\* What the block rejected stays rejected.
Unblock == active' = TRUE /\ UNCHANGED <<valid, mfa, epoch>>

Next ==
    \/ \E t \in valid' : Issue(t) \/ SignOn(t)
    \/ \E t \in valid : Expire(t)
    \/ ChangePassword \/ SwitchMfa \/ Block \/ Unblock

Spec == Init /\ [][Next]_vars
=============================================================================
