------------------------------ MODULE UserKeys ------------------------------
(***************************************************************************)
(* user_api_keys of one user: the keys of AI providers that the user adds, *)
(* removes and ranks (app/byok_routes.py), and the connections to services *)
(* that a callback stores in the same table (app/routers_services.py and   *)
(* the compatibility callback of app/routers.py).                          *)
(***************************************************************************)
EXTENDS Handlers

CONSTANTS
    Key,        \* rows of user_api_keys, used once
    Provider    \* values of its column provider, names of services included

VARIABLES
    provider,   \* the provider of each row, None without one
    primary,    \* the rows with is_primary
    used,       \* history: the rows that exist or existed
    byHand      \* history: those that the user added

keyVars == <<provider, primary, used, byHand>>

KeysInit ==
    /\ provider = [k \in Key |-> None]
    /\ primary  = {}
    /\ used     = {}
    /\ byHand   = {}

Rows     == {k \in Key : provider[k] # None}
Of(p)    == {k \in Key : provider[k] = p}

\* What a handler has read: the row it is about, the provider, that
\* provider's rows, and which of the rows read were primary.
Read(k, p, rows, prim) == [target |-> k, of |-> p, rows |-> rows, primary |-> prim]

Insert(p, prim, hand) ==
    \E k \in Key \ used :
        /\ provider' = [provider EXCEPT ![k] = p]
        /\ primary'  = IF prim THEN primary \cup {k} ELSE primary
        /\ used'     = used \cup {k}
        /\ byHand'   = IF hand THEN byHand \cup {k} ELSE byHand

\* A row that is gone by now is only warned about.
Delete(S) ==
    /\ provider' = [k \in Key |-> IF k \in S THEN None ELSE provider[k]]
    /\ primary'  = primary \ S
    /\ UNCHANGED <<used, byHand>>

-----------------------------------------------------------------------------
(* POST /auth/user/api-keys                                                 *)

AddRead(r, p) ==
    /\ Start(r, "add", Read(None, p, Of(p), {}))
    /\ UNCHANGED keyVars

\* "First key for this provider becomes primary automatically".
AddCommit(r) ==
    /\ pc[r] = "add"
    /\ Insert(arg[r].of, arg[r].rows = {}, TRUE)
    /\ Answer(r)

-----------------------------------------------------------------------------
(* DELETE /auth/user/api-keys/{key_id} and .../by-provider/{provider}       *)

DeleteKey(r, k) ==
    /\ k \in Rows
    /\ AtOnce(r)
    /\ Delete({k})

DeleteAllRead(r, p) ==
    /\ Of(p) # {}
    /\ Start(r, "deleteAll", Read(None, p, Of(p), {}))
    /\ UNCHANGED keyVars

DeleteAllCommit(r) ==
    /\ pc[r] = "deleteAll"
    /\ Delete(arg[r].rows)
    /\ Answer(r)

-----------------------------------------------------------------------------
(* PUT /auth/user/api-keys/{key_id}/set-primary                             *)

SetPrimaryFind(r, k) ==
    /\ k \in Rows
    /\ Start(r, "found", Read(k, provider[k], {}, primary \cap {k}))
    /\ UNCHANGED keyVars

\* The siblings; the row found before is not read again.
SetPrimaryRead(r) ==
    LET a == arg[r] IN
    /\ pc[r] = "found"
    /\ Goto(r, "setPrimary",
            Read(a.target, a.of, Of(a.of), a.primary \cup ((primary \cap Of(a.of)) \ {a.target})))
    /\ UNCHANGED <<keyVars, conn>>

\* The rows that get an UPDATE: those whose flag changes.
Changed(a) == {k \in a.rows : (k \in a.primary) # (k = a.target)}

\* Mutant: k.id is compared to the text of the path, and never equal.
NewPrimary_None(a) == primary \ Changed(a)

NewPrimary(a) == (primary \ Changed(a)) \cup (Changed(a) \cap {a.target})

\* Mutant: the siblings keep their flag.
SetPrimaryCommit_KeepsSiblings(r) ==
    /\ pc[r] = "setPrimary"
    /\ primary' = primary \cup {arg[r].target}
    /\ Answer(r)
    /\ UNCHANGED <<provider, used, byHand>>

\* An UPDATE that finds no row fails the commit as a whole.
SetPrimaryCommit(r) ==
    /\ pc[r] = "setPrimary"
    /\ primary' = IF Changed(arg[r]) \subseteq Rows THEN NewPrimary(arg[r]) ELSE primary
    /\ Answer(r)
    /\ UNCHANGED <<provider, used, byHand>>

-----------------------------------------------------------------------------
(* The end of a callback that connects a service.                           *)

\* Mutant: the session is left open.
ExchangeFails_WithoutClose(r) ==
    /\ pc[r] = "exchange"
    /\ Goto(r, "idle", None) /\ UNCHANGED conn
    /\ UNCHANGED keyVars

\* Exchange with the provider fails, or the provider is not configured.
ExchangeFails(r) ==
    /\ pc[r] = "exchange"
    /\ Answer(r)
    /\ UNCHANGED keyVars

\* Mutant: the connection is always a new row.
ConnectRead_Anew(r, p) ==
    /\ pc[r] = "exchange"
    /\ IF r \in conn THEN UNCHANGED conn ELSE Checkout(r)
    /\ Goto(r, "connect", Read(None, p, {}, {}))
    /\ UNCHANGED keyVars

\* scalar_one_or_none, on the connection held since the user was read or on
\* one of its own.
ConnectRead(r, p) ==
    /\ pc[r] = "exchange"
    /\ IF r \in conn THEN UNCHANGED conn ELSE Checkout(r)
    /\ \/ Of(p) = {} /\ Goto(r, "connect", Read(None, p, {}, {}))
       \/ \E k \in Key : Of(p) = {k} /\ Goto(r, "connect", Read(k, p, {}, {}))
    /\ UNCHANGED keyVars

\* Two rows of the provider: MultipleResultsFound, 500.
ConnectAmbiguous(r, p) ==
    /\ pc[r] = "exchange" /\ (r \in conn \/ Free)
    /\ Cardinality(Of(p)) > 1
    /\ Answer(r)
    /\ UNCHANGED keyVars

\* The token of the one row is replaced (unless it is gone: 500), or a row
\* is inserted, which is not primary.
ConnectCommit(r) ==
    /\ pc[r] = "connect"
    /\ \/ arg[r].target = None /\ Insert(arg[r].of, FALSE, FALSE)
       \/ arg[r].target # None /\ UNCHANGED keyVars
    /\ Answer(r)

-----------------------------------------------------------------------------

InKeyTx == {"add", "deleteAll", "found", "setPrimary", "connect"}

\* A statement or the commit fails.
KeysDbError(r) ==
    /\ pc[r] \in InKeyTx
    /\ Answer(r)
    /\ UNCHANGED keyVars

KeysBegin(r) ==
    \/ \E p \in Provider : AddRead(r, p) \/ DeleteAllRead(r, p)
    \/ \E k \in Key : DeleteKey(r, k) \/ SetPrimaryFind(r, k)

KeysStep(r) ==
    \/ AddCommit(r) \/ DeleteAllCommit(r)
    \/ SetPrimaryRead(r) \/ SetPrimaryCommit(r)
    \/ ConnectCommit(r) \/ ExchangeFails(r) \/ KeysDbError(r)

KeysTypes ==
    /\ provider \in [Key -> Provider \cup {None}]
    /\ primary \subseteq Rows
    /\ Rows \subseteq used /\ used \in SUBSET Key
    /\ byHand \in SUBSET used
    /\ \A r \in Req : pc[r] \in InKeyTx =>
          arg[r] \in [target : Key \cup {None}, of : Provider,
                      rows : SUBSET Key, primary : SUBSET Key]

-----------------------------------------------------------------------------
\* The rows that may come first when a service fetches the user's keys of a
\* provider: "Sort so primary keys come first".
FirstServed(p) == IF Of(p) \cap primary = {} THEN Of(p) ELSE Of(p) \cap primary

(* "is_primary marks the default": once a provider has a primary key, the   *)
(* key that services are given first is a definite one (add_user_api_key,   *)
(* set_primary_api_key, get_user_api_keys_internal).                        *)
OnePrimary ==
    \A p \in Provider : Of(p) \cap primary # {} => \A j, k \in FirstServed(p) : j = k

(* A key that stays loses its rank only to another key of its provider: a   *)
(* set-primary that fails half way leaves the default as it was             *)
(* (set_primary_api_key).                                                   *)
PrimaryHandedOver ==
    [][\A k \in primary : k \notin primary' /\ provider'[k] # None =>
          \E j \in primary' : provider'[j] = provider'[k]]_keyVars

(* A service has one connection at most, whichever callbacks made it; the   *)
(* reads by scalar_one_or_none, which two rows make fail for good, depend   *)
(* on it (google_service_callback, slack_service_callback,                  *)
(* oauth_callback_compatibility, integration_status).                       *)
OneConnection == \A p \in Provider : \A j, k \in Of(p) \ byHand : j = k

(* Whatever the pool, its size bounds what concurrent callbacks can make of *)
(* a service's connection before one of them finds it: a connection is only *)
(* inserted by a transaction that found none (google_service_callback,      *)
(* oauth_callback_compatibility).                                           *)
ConnectionsWithinPool ==
    \A p \in Provider :
       IsFiniteSet(Of(p) \ byHand) /\ Cardinality(Of(p) \ byHand) <= PoolSize
=============================================================================
