--------------------------- MODULE SessionFamily ---------------------------
(***************************************************************************)
(* What the refresh tokens of app/routers.py and app/sessions.py promise:  *)
(* a login is one session, named here by the token it was given first.     *)
(* The session has one current token; a refresh retires it and then issues *)
(* the next; a session that has ended never comes back, and no token is    *)
(* ever issued twice.                                                      *)
(***************************************************************************)
CONSTANTS Token, None

VARIABLES
    phase,      \* where the session begun with each token is
    current,    \* its current token
    used        \* the tokens issued so far

vars == <<phase, current, used>>

Phase == {"unborn", "live", "rotating", "ended"}

Init ==
    /\ phase   = [f \in Token |-> "unborn"]
    /\ current = [f \in Token |-> None]
    /\ used    = {}

\* Login.
BeginSession(f) ==
    /\ f \notin used
    /\ phase'   = [phase EXCEPT ![f] = "live"]
    /\ current' = [current EXCEPT ![f] = f]
    /\ used'    = used \cup {f}

\* A refresh revokes the current token ...
Retire(f) ==
    /\ phase[f] = "live"
    /\ phase'   = [phase EXCEPT ![f] = "rotating"]
    /\ current' = [current EXCEPT ![f] = None]
    /\ UNCHANGED used

\* ... and issues its successor.
Reissue(f, t) ==
    /\ phase[f] = "rotating"
    /\ t \notin used
    /\ phase'   = [phase EXCEPT ![f] = "live"]
    /\ current' = [current EXCEPT ![f] = t]
    /\ used'    = used \cup {t}

\* Logout, revocation, revoke-all, or the loss of the requests that were
\* rotating: any number of sessions end together.
End(S) ==
    /\ S # {}
    /\ \A f \in S : phase[f] \in {"live", "rotating"}
    /\ phase'   = [f \in Token |-> IF f \in S THEN "ended" ELSE phase[f]]
    /\ current' = [f \in Token |-> IF f \in S THEN None ELSE current[f]]
    /\ UNCHANGED used

Next ==
    \/ \E f \in Token : BeginSession(f) \/ Retire(f) \/ \E t \in Token : Reissue(f, t)
    \/ \E S \in SUBSET Token : End(S)

Spec == Init /\ [][Next]_vars
=============================================================================
