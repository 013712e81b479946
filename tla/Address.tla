------------------------------ MODULE Address ------------------------------
(***************************************************************************)
(* What the handlers of app/routers.py and app/email_verification.py       *)
(* promise about one e-mail address.  It has at most one account; an       *)
(* account is opened together with its membership, and, once closed, is    *)
(* never opened again.  The account counts as verified after a link made   *)
(* for it has reached the address, and from then on for good.              *)
(***************************************************************************)
CONSTANTS Id, Token, None

VARIABLES
    phase,      \* what became of the account with each id
    member,     \* the ids with a membership
    verified,   \* the ids that count as verified
    madeFor,    \* the id each link was made for
    delivered   \* the links that have reached the address

vars == <<phase, member, verified, madeFor, delivered>>

Init ==
    /\ phase = [u \in Id |-> "free"]
    /\ member = {} /\ verified = {}
    /\ madeFor = [t \in Token |-> None]
    /\ delivered = {}

\* Registration, or a first single sign-on, at an address without an account.
Open(u) ==
    /\ phase[u] = "free"
    /\ \A v \in Id : phase[v] # "open"
    /\ phase'  = [phase EXCEPT ![u] = "open"]
    /\ member' = member \cup {u}
    /\ UNCHANGED <<verified, madeFor, delivered>>

\* Deletion; or a registration that comes to nothing and uses up its id.
Close(u) ==
    /\ phase[u] \in {"free", "open"}
    /\ phase' = [phase EXCEPT ![u] = "closed"]
    /\ UNCHANGED <<member, verified, madeFor, delivered>>

\* A new link for the account, ...
MakeLink(u, t) ==
    /\ phase[u] = "open" /\ madeFor[t] = None
    /\ madeFor' = [madeFor EXCEPT ![t] = u]
    /\ UNCHANGED <<phase, member, verified, delivered>>

\* ... which the mail server may deliver ...
Deliver(t) ==
    /\ madeFor[t] # None
    /\ delivered' = delivered \cup {t}
    /\ UNCHANGED <<phase, member, verified, madeFor>>

\* ... and whoever reads the mail opens.
Verify(u, t) ==
    /\ phase[u] = "open"
    /\ t \in delivered /\ madeFor[t] = u
    /\ verified' = verified \cup {u}
    /\ UNCHANGED <<phase, member, madeFor, delivered>>

Next ==
    \/ \E u \in Id : Open(u) \/ Close(u)
    \/ \E u \in Id, t \in Token : MakeLink(u, t) \/ Verify(u, t)
    \/ \E t \in Token : Deliver(t)

Spec == Init /\ [][Next]_vars
=============================================================================
