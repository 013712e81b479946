------------------------------- MODULE SignOn -------------------------------
(***************************************************************************)
(* Sign-on and service connections together: a callback consumes its state *)
(* (OAuthState), exchanges the code with the provider and stores the       *)
(* connection among the user's keys (UserKeys), beside the requests that   *)
(* change those keys and restarts of the processes.                        *)
(***************************************************************************)
EXTENDS OAuthState, UserKeys

ASSUME ServiceAssumption == Service \subseteq Provider /\ None \notin Provider \cup Key \cup {"login"}

signOnVars == <<oauthVars, keyVars, reqVars>>

SignOnInit == HandlersInit /\ OAuthInit /\ KeysInit

\* A request whose code has been exchanged goes on to the keys: of the
\* service its state names, or in Slack's callback always of Slack.
Connect(r) == \E p \in Service : ConnectRead(r, p) \/ ConnectAmbiguous(r, p)

\* Process p dies and starts again.
Crash(p) ==
    /\ Restart({r \in Req : ProcOf[r] = p})
    /\ ForgetProcess(p)
    /\ UNCHANGED keyVars

SignOnNext ==
    \/ OAuthNext /\ UNCHANGED keyVars
    \/ /\ \E r \in Req : KeysBegin(r) \/ KeysStep(r) \/ Connect(r)
       /\ UNCHANGED oauthVars
    \/ \E p \in Proc : Crash(p)

SignOnSpec == SignOnInit /\ [][SignOnNext]_signOnVars

\* Before the keys, only the service routes are inside a transaction.
OnServiceRoute(r) == pc[r] \in {"got", "exchange"} /\ arg[r].route = "service"

(* Types, and a request holds a connection exactly inside its transactions, *)
(* the exchange of the service routes included.                             *)
SignOnTypes ==
    /\ OAuthTypes
    /\ KeysTypes
    /\ DOMAIN arg = Req
    /\ pc \in [Req -> {"idle", "exchange"} \cup InStore \cup InKeyTx]
    /\ \A r \in Req : pc[r] = "exchange" =>
          /\ arg[r] \in [state : State, route : {"compat", "service"}]
          /\ kind[arg[r].state] \in Service
    /\ conn = {r \in Req : pc[r] \in InKeyTx \/ OnServiceRoute(r)}
=============================================================================
