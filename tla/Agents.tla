------------------------------- MODULE Agents -------------------------------
(***************************************************************************)
(* One user's agents and their API keys (app/routers.py, the CRUD of       *)
(* agents; app/agent_settings_routes.py).  Of an agent's columns the       *)
(* restrictions are modelled, which are read, merged and checked before    *)
(* they are written; the others are written by one handler each or         *)
(* replaced as sent.                                                       *)
(***************************************************************************)
EXTENDS Handlers

CONSTANTS
    Agent,      \* rows of agents, used once
    AgentKey,   \* rows of agent_api_keys, used once
    Name,       \* names of keys
    Limit       \* the restrictions with a maximum

ASSUME AgentAssumption == None \notin Agent \cup AgentKey \cup Name

VARIABLES
    agents,     \* the agents with a row
    agentsUsed, \* history: those that have or had one
    templates,  \* agents with is_template
    restrictions, \* the value of each limit, "unset" where the column has none
    keyRow      \* agent_api_keys: the agent, name and is_active of each row

agentVars == <<agents, agentsUsed, templates, restrictions, keyRow>>

\* Values of a limit, as far as the checks tell them apart.
LimitValue == {"unset", "within", "beyond"}

AgentsInit ==
    /\ agents = {} /\ agentsUsed = {} /\ templates = {}
    /\ restrictions = [a \in Agent |-> [l \in Limit |-> "unset"]]
    /\ keyRow = [k \in AgentKey |-> None]

NewAgent(r, a) ==
    /\ a \notin agentsUsed
    /\ AtOnce(r)
    /\ agents' = agents \cup {a}
    /\ agentsUsed' = agentsUsed \cup {a}
    /\ UNCHANGED <<templates, restrictions, keyRow>>

-----------------------------------------------------------------------------
(* The agents.                                                              *)

\* POST /auth/settings/agents, also the import: no restrictions.
CreateAgent(r, a) == NewAgent(r, a)

\* A copy of any user's template, without its restrictions.
CreateFromTemplate(r, a, t) == t \in templates /\ NewAgent(r, a)

SaveTemplate(r, a) ==
    /\ a \in agents
    /\ AtOnce(r)
    /\ templates' = templates \cup {a}
    /\ UNCHANGED <<agents, agentsUsed, restrictions, keyRow>>

\* The keys of the agent keep their rows.
DeleteAgent(r, a) ==
    /\ a \in agents
    /\ AtOnce(r)
    /\ agents' = agents \ {a}
    /\ templates' = templates \ {a}
    /\ UNCHANGED <<agentsUsed, restrictions, keyRow>>

-----------------------------------------------------------------------------
(* PUT /auth/settings/agents/{agent_id}/restrictions                        *)

\* What was loaded, with what was sent in its place.
Merge(old, sent) == [l \in Limit |-> IF sent[l] = "unset" THEN old[l] ELSE sent[l]]

WithinLimits(old, sent) == \A l \in Limit : Merge(old, sent)[l] # "beyond"

\* 400 if the result is out of its limits.
RestrictRead(r, a, sent) ==
    /\ a \in agents
    /\ WithinLimits(restrictions[a], sent)
    /\ Start(r, "restrict", [agent |-> a, new |-> Merge(restrictions[a], sent),
                             changes |-> Merge(restrictions[a], sent) # restrictions[a]])
    /\ UNCHANGED agentVars

\* The column is written whole if it differs from the one that was read; if
\* the agent is gone, the UPDATE raises.
RestrictCommit(r) ==
    /\ pc[r] = "restrict"
    /\ restrictions' = IF arg[r].changes /\ arg[r].agent \in agents
                       THEN [restrictions EXCEPT ![arg[r].agent] = arg[r].new]
                       ELSE restrictions
    /\ Answer(r)
    /\ UNCHANGED <<agents, agentsUsed, templates, keyRow>>

-----------------------------------------------------------------------------
(* .../api-keys                                                             *)

KeysOf(a) == {k \in AgentKey : keyRow[k] # None /\ keyRow[k].agent = a}
Named(a, n) == {k \in KeysOf(a) : keyRow[k].name = n}

\* Mutant: the unique constraint on agent and name is missing.
NameFree_Unchecked(a, n, k) == TRUE

\* uq_agent_api_keys_agent_name allows n for the row k of agent a.
NameFree(a, n, k) == Named(a, n) \subseteq {k}

\* The agent and the name are looked up: 404, 400.
CreateKeyRead(r, a, n) ==
    /\ a \in agents
    /\ Named(a, n) = {}
    /\ Start(r, "createKey", [agent |-> a, name |-> n])
    /\ UNCHANGED agentVars

\* The agent may be gone by now; a name taken meanwhile raises.
CreateKeyCommit(r) ==
    /\ pc[r] = "createKey"
    /\ \/ \E k \in AgentKey :
             /\ keyRow[k] = None
             /\ NameFree(arg[r].agent, arg[r].name, k)
             /\ keyRow' = [keyRow EXCEPT ![k] =
                              [agent |-> arg[r].agent, name |-> arg[r].name, active |-> TRUE]]
       \/ Named(arg[r].agent, arg[r].name) # {} /\ UNCHANGED keyRow
    /\ Answer(r)
    /\ UNCHANGED <<agents, agentsUsed, templates, restrictions>>

DeleteAgentKey(r, a, k) ==
    /\ a \in agents /\ k \in KeysOf(a)
    /\ AtOnce(r)
    /\ keyRow' = [keyRow EXCEPT ![k] = None]
    /\ UNCHANGED <<agents, agentsUsed, templates, restrictions>>

\* A new name, which nothing looks up before.
RenameKey(r, a, k, n) ==
    /\ a \in agents /\ k \in KeysOf(a)
    /\ NameFree(a, n, k)
    /\ AtOnce(r)
    /\ keyRow' = [keyRow EXCEPT ![k].name = n]
    /\ UNCHANGED <<agents, agentsUsed, templates, restrictions>>

SetKeyActive(r, a, k, active) ==
    /\ a \in agents /\ k \in KeysOf(a)
    /\ AtOnce(r)
    /\ keyRow' = [keyRow EXCEPT ![k].active = active]
    /\ UNCHANGED <<agents, agentsUsed, templates, restrictions>>

InAgentTx == {"restrict", "createKey"}

AgentsNext ==
    \E r \in Req :
        \/ \E a \in Agent :
              \/ CreateAgent(r, a) \/ SaveTemplate(r, a) \/ DeleteAgent(r, a)
              \/ \E t \in Agent : CreateFromTemplate(r, a, t)
              \/ \E sent \in [Limit -> LimitValue] : RestrictRead(r, a, sent)
              \/ \E n \in Name : CreateKeyRead(r, a, n)
              \/ \E k \in AgentKey :
                    \/ DeleteAgentKey(r, a, k)
                    \/ \E n \in Name : RenameKey(r, a, k, n)
                    \/ \E b \in BOOLEAN : SetKeyActive(r, a, k, b)
        \/ RestrictCommit(r) \/ CreateKeyCommit(r)

KeyRecord == [agent : Agent, name : Name, active : BOOLEAN]

AgentTypes ==
    /\ agents \subseteq agentsUsed /\ agentsUsed \subseteq Agent
    /\ templates \subseteq agents
    /\ restrictions \in [Agent -> [Limit -> LimitValue]]
    /\ keyRow \in [AgentKey -> KeyRecord \cup {None}]
    /\ \A k \in AgentKey : keyRow[k] # None => keyRow[k].agent \in agentsUsed
    /\ \A r \in Req :
          /\ pc[r] = "restrict" => arg[r] \in [agent : agentsUsed, new : [Limit -> LimitValue],
                                               changes : BOOLEAN]
          /\ pc[r] = "createKey" => arg[r] \in [agent : agentsUsed, name : Name]

(* "API key with name ... already exists": an agent has one key of a name,  *)
(* although creation looks for it before and renaming does not              *)
(* (create_agent_api_key, update_agent_api_key).                            *)
OneKeyPerName == \A a \in Agent, n \in Name : \A j, k \in Named(a, n) : j = k
=============================================================================
