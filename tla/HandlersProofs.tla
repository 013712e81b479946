--------------------------- MODULE HandlersProofs ---------------------------
(***************************************************************************)
(* Proofs about the two compositions of modules that extend Handlers, for  *)
(* any requests and rows: OwnedRows, and then SignOn.  The pool is any, or *)
(* of one connection where the theorem says so.                            *)
(***************************************************************************)
EXTENDS OwnedRows, SignOn, DbPoolProofs

Labels == {"idle"} \cup InRowTx \cup InRowGap

\* What the requests look like, whatever part of the rows they are about.
Requests ==
    /\ DOMAIN arg = Req
    /\ pc \in [Req -> Labels]
    /\ conn = {r \in Req : pc[r] \in InRowTx}

\* Every request that a step moves is idle or in S afterwards.
Confined(S) ==
    \A r \in Req : pc'[r] \in S \cup {"idle"} \/ (pc'[r] = pc[r] /\ arg'[r] = arg[r])

(* What Goto does to the request it moves, and to the others.               *)
LEMMA GotoFacts ==
    ASSUME Requests, NEW r \in Req, NEW to, NEW a, Goto(r, to, a)
    PROVE  /\ pc'[r] = to /\ arg'[r] = a
           /\ \A s \in Req \ {r} : pc'[s] = pc[s] /\ arg'[s] = arg[s]
           /\ DOMAIN arg' = Req /\ DOMAIN pc' = Req
           /\ to \in Labels => pc' \in [Req -> Labels]
<1>1. arg' = [arg EXCEPT ![r] = a] /\ DOMAIN arg = Req
  BY DEF Goto, Requests
<1>2. DOMAIN arg' = Req /\ arg'[r] = a
  BY <1>1
<1>3. \A s \in Req \ {r} : arg'[s] = arg[s]
  BY <1>1
<1>4. QED
  BY <1>2, <1>3 DEF Goto, Requests

\* Request r is at `to` with a, the others are where they were.
Moved(r, to, a) ==
    /\ pc'[r] = to /\ arg'[r] = a
    /\ \A s \in Req \ {r} : pc'[s] = pc[s] /\ arg'[s] = arg[s]

(* A request that begins its transaction (get_db, the first statement).     *)
LEMMA StartStep ==
    ASSUME Requests, NEW S, NEW r \in Req, NEW to \in S \cap InRowTx, NEW a, Start(r, to, a)
    PROVE  Requests' /\ Confined(S) /\ Moved(r, to, a)
<1>1. Goto(r, to, a) /\ Checkout(r)
  BY DEF Start
<1>2. Moved(r, to, a) /\ DOMAIN arg' = Req /\ pc' \in [Req -> Labels]
  BY <1>1, GotoFacts DEF Labels, Moved
<1>3. conn' = conn \cup {r}
  BY <1>1 DEF Checkout
<1>4. QED
  BY <1>2, <1>3 DEF Requests, Confined, Moved

(* A request that answers (get_db, the close of the session).               *)
LEMMA AnswerStep ==
    ASSUME Requests, NEW S, NEW r \in Req, Answer(r)
    PROVE  Requests' /\ Confined(S) /\ Moved(r, "idle", None)
<1>1. Goto(r, "idle", None) /\ Return(r)
  BY DEF Answer
<1>2. Moved(r, "idle", None) /\ DOMAIN arg' = Req /\ pc' \in [Req -> Labels]
  BY <1>1, GotoFacts DEF Labels, Moved
<1>3. conn' = conn \ {r} /\ "idle" \notin InRowTx
  BY <1>1 DEF Return, InRowTx, InDeviceTx, InOrgKeyTx, InWorkspaceTx, InSshTx, InAgentTx, InRoleTx
<1>4. QED
  BY <1>2, <1>3 DEF Requests, Confined, Moved

(* A step that leaves the requests where they are.                          *)
LEMMA StillStep ==
    ASSUME Requests, NEW S, UNCHANGED <<pc, arg, conn>>
    PROVE  Requests' /\ Confined(S)
BY DEF Requests, Confined

-----------------------------------------------------------------------------
(* The rows that a step leaves alone keep their types.                      *)

LEMMA DevicesKept ==
    ASSUME DeviceTypes, UNCHANGED deviceVars, NEW S, Confined(S), S \cap InDeviceTx = {}
    PROVE  DeviceTypes'
BY DEF DeviceTypes, deviceVars, Confined, InDeviceTx, Trusts

LEMMA OrgKeysKept ==
    ASSUME OrgKeyTypes, UNCHANGED orgKey, NEW S, Confined(S),
           S \cap (InOrgKeyTx \cup {"accepted"}) = {}
    PROVE  OrgKeyTypes'
BY DEF OrgKeyTypes, Confined, InOrgKeyTx

LEMMA WorkspacesKept ==
    ASSUME WorkspaceTypes, UNCHANGED workspaceVars, NEW S, Confined(S),
           S \cap InWorkspaceTx = {}
    PROVE  WorkspaceTypes'
BY DEF WorkspaceTypes, workspaceVars, Confined, InWorkspaceTx

LEMMA SshKept ==
    ASSUME SshTypes, UNCHANGED sshVars, NEW S, Confined(S), S \cap InSshTx = {}
    PROVE  SshTypes'
BY DEF SshTypes, sshVars, Confined, InSshTx, SshRow

LEMMA AgentsKept ==
    ASSUME AgentTypes, UNCHANGED agentVars, NEW S, Confined(S), S \cap InAgentTx = {}
    PROVE  AgentTypes'
BY DEF AgentTypes, agentVars, Confined, InAgentTx

LEMMA RolesKept ==
    ASSUME RoleTypes, UNCHANGED roleVars, NEW S, Confined(S),
           S \cap (InRoleTx \cup InRoleGap) = {}
    PROVE  RoleTypes'
BY DEF RoleTypes, roleVars, Confined, InRoleTx, InRoleGap, Sent

-----------------------------------------------------------------------------
(* The steps of each part keep the types of its rows.                       *)

(* The handlers of trusted devices (sessions.py).                           *)
LEMMA DevicesStep ==
    ASSUME Requests, DeviceTypes, DevicesNext
    PROVE  Requests' /\ DeviceTypes' /\ Confined(InDeviceTx)
<1> DEFINE Goal == Requests' /\ DeviceTypes' /\ Confined(InDeviceTx)
<1> USE DEF deviceVars, Moved
<1>1. {"trust", "revokeAll"} \subseteq InDeviceTx \cap InRowTx
  BY DEF InDeviceTx, InRowTx
<1>2. ASSUME NEW r \in Req, NEW d \in Device, TrustRead(r, d) PROVE Goal
  <2>1. Start(r, "trust", [device |-> d, rows |-> RowsFor(d)]) /\ UNCHANGED deviceVars
    BY <1>2 DEF TrustRead
  <2>2. Requests' /\ Confined(InDeviceTx) /\ Moved(r, "trust", [device |-> d, rows |-> RowsFor(d)])
    BY <2>1, <1>1, StartStep
  <2>3. QED
    BY <2>1, <2>2 DEF DeviceTypes, Trusts, RowsFor
<1>3. ASSUME NEW r \in Req, NEW w \in DeviceRow, RevokeDevice(r, w) PROVE Goal
  <2>1. UNCHANGED <<pc, arg, conn>> /\ Drop({w})
    BY <1>3 DEF RevokeDevice, AtOnce, OneShot
  <2>2. Requests' /\ Confined(InDeviceTx)
    BY <2>1, StillStep
  <2>3. QED
    BY <2>1, <2>2 DEF DeviceTypes, Drop, Trusts
<1>4. ASSUME NEW r \in Req, TrustExtend(r) \/ TrustInsert(r) \/ RevokeDevicesCommit(r) PROVE Goal
  <2>1. Answer(r)
    BY <1>4 DEF TrustExtend, TrustInsert, RevokeDevicesCommit
  <2>2. Requests' /\ Confined(InDeviceTx) /\ Moved(r, "idle", None)
    BY <2>1, AnswerStep
  <2>3. CASE TrustExtend(r)
    BY <2>2, <2>3 DEF DeviceTypes, TrustExtend, Trusts
  <2>4. CASE TrustInsert(r)
    <3>1. arg[r].device \in Device
      BY <2>4 DEF TrustInsert, DeviceTypes
    <3>2. QED
      BY <2>2, <2>4, <3>1 DEF DeviceTypes, TrustInsert, Trusts
  <2>5. CASE RevokeDevicesCommit(r)
    BY <2>2, <2>5 DEF DeviceTypes, RevokeDevicesCommit, Drop, Trusts
  <2>6. QED
    BY <1>4, <2>3, <2>4, <2>5
<1>5. ASSUME NEW r \in Req, RevokeDevicesRead(r) PROVE Goal
  <2>1. Start(r, "revokeAll", [rows |-> Trusts]) /\ UNCHANGED deviceVars
    BY <1>5 DEF RevokeDevicesRead
  <2>2. Requests' /\ Confined(InDeviceTx) /\ Moved(r, "revokeAll", [rows |-> Trusts])
    BY <2>1, <1>1, StartStep
  <2>3. QED
    BY <2>1, <2>2 DEF DeviceTypes, Trusts
<1>6. ASSUME NEW w \in DeviceRow, LapseTrust(w) PROVE Goal
  BY <1>6, StillStep DEF LapseTrust, Listed, Trusts, DeviceTypes, reqVars
<1>7. ASSUME ToggleMfa PROVE Goal
  BY <1>7, StillStep DEF ToggleMfa, OneShot, Trusts, DeviceTypes
<1>8. QED
  BY <1>2, <1>3, <1>4, <1>5, <1>6, <1>7 DEF DevicesNext

(* The handlers of an organisation's keys (api_keys_routes.py).             *)
LEMMA OrgKeysStep ==
    ASSUME Requests, OrgKeyTypes, OrgKeysNext
    PROVE  Requests' /\ OrgKeyTypes' /\ Confined(InOrgKeyTx \cup {"accepted"})
<1> DEFINE S    == InOrgKeyTx \cup {"accepted"}
           Goal == Requests' /\ OrgKeyTypes' /\ Confined(S)
<1> USE DEF Moved
<1>1. /\ {"verify", "membership"} \subseteq S \cap InRowTx
      /\ "accepted" \in Labels /\ "accepted" \notin InRowTx
  BY DEF Labels, InRowGap, InRowTx, InDeviceTx, InOrgKeyTx, InWorkspaceTx, InSshTx, InAgentTx, InRoleTx
<1>2. ASSUME NEW r \in Req, NEW k \in OrgKey, CreateOrgKey(r, k) \/ RevokeOrgKey(r, k) PROVE Goal
  BY <1>2, StillStep DEF CreateOrgKey, RevokeOrgKey, AtOnce, OneShot, OrgKeyTypes
<1>3. ASSUME NEW r \in Req, NEW k \in OrgKey, VerifyKeyRead(r, k) PROVE Goal
  <2>1. Requests' /\ Confined(S) /\ Moved(r, "verify", k)
    BY <1>1, <1>3, StartStep DEF VerifyKeyRead
  <2>2. QED
    BY <1>3, <2>1 DEF VerifyKeyRead, OrgKeyTypes
<1>4. ASSUME NEW r \in Req, VerifyKeyCommit(r) PROVE Goal
  <2>1. CASE Goto(r, "accepted", arg[r]) /\ Return(r)
    <3>1. Moved(r, "accepted", arg[r]) /\ DOMAIN arg' = Req /\ pc' \in [Req -> Labels]
      BY <1>1, <2>1, GotoFacts
    <3>2. conn' = conn \ {r}
      BY <2>1 DEF Return
    <3>3. Requests' /\ Confined(S)
      BY <1>1, <3>1, <3>2 DEF Requests, Confined
    <3>4. QED
      BY <1>4, <3>1, <3>3 DEF VerifyKeyCommit, OrgKeyTypes, InOrgKeyTx
  <2>2. CASE Answer(r)
    <3>1. Requests' /\ Confined(S) /\ Moved(r, "idle", None)
      BY <2>2, AnswerStep
    <3>2. QED
      BY <1>4, <3>1 DEF VerifyKeyCommit, OrgKeyTypes, InOrgKeyTx
  <2>3. QED
    BY <1>4, <2>1, <2>2 DEF VerifyKeyCommit
<1>5. ASSUME NEW r \in Req, VerifyKeyMembership(r) PROVE Goal
  <2>1. Goto(r, "membership", arg[r]) /\ conn' = conn \cup {r} /\ arg[r] \in OrgKey
    BY <1>5 DEF VerifyKeyMembership, Checkout, OrgKeyTypes
  <2>2. Moved(r, "membership", arg[r]) /\ DOMAIN arg' = Req /\ pc' \in [Req -> Labels]
    BY <1>1, <2>1, GotoFacts DEF Labels
  <2>3. Requests' /\ Confined(S)
    BY <1>1, <2>1, <2>2 DEF Requests, Confined
  <2>4. QED
    BY <1>5, <2>1, <2>2, <2>3 DEF VerifyKeyMembership, OrgKeyTypes
<1>6. ASSUME NEW r \in Req, VerifyKeyAnswer(r) PROVE Goal
  <2>1. Requests' /\ Confined(S) /\ Moved(r, "idle", None)
    BY <1>6, AnswerStep DEF VerifyKeyAnswer
  <2>2. QED
    BY <1>6, <2>1 DEF VerifyKeyAnswer, OrgKeyTypes, InOrgKeyTx
<1>7. ASSUME NEW k \in OrgKey, ExpireOrgKey(k) PROVE Goal
  BY <1>7, StillStep DEF ExpireOrgKey, OrgKeyTypes, reqVars
<1>8. QED
  BY <1>2, <1>3, <1>4, <1>5, <1>6, <1>7 DEF OrgKeysNext

(* The handlers of workspaces and their tokens (workspaces_routes.py,       *)
(* workspace_tokens_routes.py).                                             *)
LEMMA WorkspacesStep ==
    ASSUME Requests, WorkspaceTypes, WorkspacesNext
    PROVE  Requests' /\ WorkspaceTypes' /\ Confined(InWorkspaceTx)
<1> DEFINE S    == InWorkspaceTx
           Goal == Requests' /\ WorkspaceTypes' /\ Confined(S)
<1> USE DEF workspaceVars, Moved
<1>1. {"deleteWorkspace", "upsert", "mint"} \subseteq S \cap InRowTx
  BY DEF InWorkspaceTx, InRowTx
<1>2. ASSUME NEW r \in Req, NEW u \in User, NEW w \in Workspace,
             CreateWorkspace(r, u, w) \/ MintInternal(r, u, w)
      PROVE  Goal
  <2>1. Requests' /\ Confined(S) /\ UNCHANGED <<pc, arg>>
    BY <1>2, StillStep DEF CreateWorkspace, MintInternal, AtOnce, OneShot
  <2>2. QED
    BY <1>2, <2>1 DEF CreateWorkspace, MintInternal, Own, WorkspaceTypes
<1>3. ASSUME NEW r \in Req, NEW u \in User, NEW w \in Workspace,
             NEW to \in {"deleteWorkspace", "upsert", "mint"},
             Start(r, to, [user |-> u, workspace |-> w]), UNCHANGED workspaceVars
      PROVE  Goal
  <2>1. Requests' /\ Confined(S) /\ Moved(r, to, [user |-> u, workspace |-> w])
    BY <1>1, <1>3, StartStep
  <2>2. QED
    BY <1>3, <2>1 DEF WorkspaceTypes
<1>4. ASSUME NEW r \in Req, DeleteWorkspaceCommit(r) \/ UpsertCommit(r) \/ MintCommit(r)
      PROVE  Goal
  <2>1. Requests' /\ Confined(S) /\ Moved(r, "idle", None)
    BY <1>4, AnswerStep DEF DeleteWorkspaceCommit, UpsertCommit, MintCommit
  <2>2. arg[r] \in [user : User, workspace : Workspace]
    BY <1>4 DEF DeleteWorkspaceCommit, UpsertCommit, MintCommit, WorkspaceTypes, InWorkspaceTx
  <2>3. \A s \in Req : pc'[s] \in InWorkspaceTx => arg'[s] \in [user : User, workspace : Workspace]
    BY <2>1 DEF WorkspaceTypes, InWorkspaceTx
  <2>4. QED
    BY <1>4, <2>1, <2>2, <2>3
       DEF DeleteWorkspaceCommit, UpsertCommit, MintCommit, Own, WorkspaceTypes
<1>5. QED
  BY <1>2, <1>3, <1>4
     DEF WorkspacesNext, DeleteWorkspaceRead, UpsertRead, MintRead

(* The handlers of the SSH host (ssh_hosts_routes.py).                      *)
LEMMA SshStep ==
    ASSUME Requests, SshTypes, SshNext
    PROVE  Requests' /\ SshTypes' /\ Confined(InSshTx)
<1> DEFINE S    == InSshTx
           Goal == Requests' /\ SshTypes' /\ Confined(S)
<1> USE DEF sshVars, Moved
<1>1. {"register", "confirm"} \subseteq S \cap InRowTx
  BY DEF InSshTx, InRowTx
<1>2. ASSUME NEW r \in Req, NEW h \in Host, RegisterRead(r, h) PROVE Goal
  <2>1. Requests' /\ Confined(S) /\ Moved(r, "register", [host |-> h, read |-> ssh])
    BY <1>1, <1>2, StartStep DEF RegisterRead
  <2>2. QED
    BY <1>2, <2>1 DEF RegisterRead, SshTypes
<1>3. ASSUME NEW r \in Req, NEW f \in Fingerprint, ConfirmRead(r, f) PROVE Goal
  <2>1. Requests' /\ Confined(S) /\ Moved(r, "confirm", [fingerprint |-> f, read |-> ssh])
    BY <1>1, <1>3, StartStep DEF ConfirmRead
  <2>2. ssh \in SshRow
    BY <1>3 DEF ConfirmRead, SshTypes
  <2>3. QED
    BY <1>3, <2>1, <2>2 DEF ConfirmRead, SshTypes
<1>4. ASSUME NEW r \in Req, RegisterUpdate(r) \/ RegisterInsert(r) \/ ConfirmCommit(r) PROVE Goal
  <2>1. Requests' /\ Confined(S) /\ Moved(r, "idle", None)
    BY <1>4, AnswerStep DEF RegisterUpdate, RegisterInsert, ConfirmCommit
  <2>2. /\ ssh' \in SshRow \cup {None} /\ hostRowsUsed' \subseteq HostRow
        /\ ssh' # None => ssh'.row \in hostRowsUsed'
    <3>1. CASE RegisterUpdate(r)
      <4>1. CASE Still(arg[r].read)
        <5>1. ssh \in SshRow /\ arg[r].host \in Host
          BY <3>1, <4>1 DEF RegisterUpdate, Still, SshTypes
        <5>2. /\ Column(ssh.host, arg[r].read.host, arg[r].host) \in Host
              /\ Column(ssh.fingerprint, arg[r].read.fingerprint, None) \in Fingerprint \cup {None}
          BY <5>1 DEF Column, SshRow
        <5>3. ssh' \in SshRow /\ ssh'.row = ssh.row /\ hostRowsUsed' = hostRowsUsed
          BY <3>1, <4>1, <5>1, <5>2 DEF RegisterUpdate, SshRow
        <5>4. QED
          BY <4>1, <5>3 DEF Still, SshTypes
      <4>2. CASE ~Still(arg[r].read)
        BY <3>1, <4>2 DEF RegisterUpdate, SshTypes
      <4>3. QED
        BY <4>1, <4>2
    <3>2. CASE RegisterInsert(r)
      <4>1. arg[r].host \in Host
        BY <3>2 DEF RegisterInsert, SshTypes
      <4>2. QED
        BY <3>2, <4>1 DEF RegisterInsert, SshTypes, SshRow
    <3>3. CASE ConfirmCommit(r)
      <4>1. CASE Still(arg[r].read)
        <5>1. ssh \in SshRow /\ arg[r].fingerprint \in Fingerprint
          BY <3>3, <4>1 DEF ConfirmCommit, Still, SshTypes
        <5>2. Column(ssh.fingerprint, arg[r].read.fingerprint, arg[r].fingerprint)
                 \in Fingerprint \cup {None}
          BY <5>1 DEF Column, SshRow
        <5>3. ssh' \in SshRow /\ ssh'.row = ssh.row /\ hostRowsUsed' = hostRowsUsed
          BY <3>3, <4>1, <5>1, <5>2 DEF ConfirmCommit, SshRow
        <5>4. QED
          BY <4>1, <5>3 DEF Still, SshTypes
      <4>2. CASE ~Still(arg[r].read)
        BY <3>3, <4>2 DEF ConfirmCommit, SshTypes
      <4>3. QED
        BY <4>1, <4>2
    <3>4. QED
      BY <1>4, <3>1, <3>2, <3>3
  <2>3. QED
    BY <2>1, <2>2 DEF SshTypes
<1>5. ASSUME NEW r \in Req, DeleteHost(r) PROVE Goal
  BY <1>5, StillStep DEF DeleteHost, AtOnce, OneShot, SshTypes
<1>6. QED
  BY <1>2, <1>3, <1>4, <1>5 DEF SshNext

(* A merge of restrictions has a value for each limit (Merge).              *)
LEMMA MergeType ==
    ASSUME NEW old \in [Limit -> LimitValue], NEW sent \in [Limit -> LimitValue]
    PROVE  Merge(old, sent) \in [Limit -> LimitValue]
BY DEF Merge

(* One row of agent_api_keys is written or deleted                          *)
(* (agent_settings_routes.py, the handlers of keys).                        *)
LEMMA KeyWritten ==
    ASSUME AgentTypes, agentsUsed' = agentsUsed,
           NEW k \in AgentKey, NEW new \in KeyRecord \cup {None},
           new # None => new.agent \in agentsUsed,
           keyRow' = [keyRow EXCEPT ![k] = new]
    PROVE  /\ keyRow' \in [AgentKey -> KeyRecord \cup {None}]
           /\ \A j \in AgentKey : keyRow'[j] # None => keyRow'[j].agent \in agentsUsed'
<1>1. keyRow \in [AgentKey -> KeyRecord \cup {None}]
  BY DEF AgentTypes
<1>2. keyRow' \in [AgentKey -> KeyRecord \cup {None}]
  BY <1>1
<1>3. \A j \in AgentKey : keyRow'[j] = IF j = k THEN new ELSE keyRow[j]
  BY <1>1
<1>4. QED
  BY <1>2, <1>3 DEF AgentTypes

(* The handlers of agents and their keys (routers.py,                       *)
(* agent_settings_routes.py).                                               *)
LEMMA AgentsStep ==
    ASSUME Requests, AgentTypes, AgentsNext
    PROVE  Requests' /\ AgentTypes' /\ Confined(InAgentTx)
<1> DEFINE S    == InAgentTx
           Goal == Requests' /\ AgentTypes' /\ Confined(S)
<1> USE DEF agentVars, Moved
<1>1. {"restrict", "createKey"} \subseteq S \cap InRowTx
  BY DEF InAgentTx, InRowTx
<1>2. ASSUME NEW r \in Req, AtOnce(r),
             agents' \subseteq agentsUsed', agentsUsed \subseteq agentsUsed', agentsUsed' \subseteq Agent,
             templates' \subseteq agents', UNCHANGED <<restrictions, keyRow>>
      PROVE  Goal
  <2>1. Requests' /\ Confined(S) /\ UNCHANGED <<pc, arg>>
    BY <1>2, StillStep DEF AtOnce, OneShot
  <2>2. QED
    BY <1>2, <2>1 DEF AgentTypes
<1>3. ASSUME NEW r \in Req, NEW a \in Agent, NEW t \in Agent,
             CreateAgent(r, a) \/ CreateFromTemplate(r, a, t) \/ SaveTemplate(r, a) \/ DeleteAgent(r, a)
      PROVE  Goal
  BY <1>2, <1>3 DEF CreateAgent, CreateFromTemplate, NewAgent, SaveTemplate, DeleteAgent, AgentTypes
<1>4. ASSUME NEW r \in Req, NEW a \in Agent, NEW sent \in [Limit -> LimitValue],
             RestrictRead(r, a, sent)
      PROVE  Goal
  <2> DEFINE new == [agent |-> a, new |-> Merge(restrictions[a], sent),
                     changes |-> Merge(restrictions[a], sent) # restrictions[a]]
  <2>1. Start(r, "restrict", new) /\ UNCHANGED agentVars /\ a \in agents
    BY <1>4 DEF RestrictRead
  <2>2. Requests' /\ Confined(S) /\ Moved(r, "restrict", new)
    <3>1. Requests /\ Start(r, "restrict", new) /\ "restrict" \in S \cap InRowTx
      BY <1>1, <2>1
    <3> HIDE DEF new, S, Moved
    <3>2. QED
      BY <3>1, StartStep
  <2>3. restrictions[a] \in [Limit -> LimitValue] /\ a \in agentsUsed
    BY <2>1 DEF AgentTypes
  <2>4. new \in [agent : agentsUsed, new : [Limit -> LimitValue], changes : BOOLEAN]
    BY <2>3, MergeType
  <2>5. QED
    BY <2>1, <2>2, <2>4 DEF AgentTypes
<1>5. ASSUME NEW r \in Req, NEW a \in Agent, NEW n \in Name, CreateKeyRead(r, a, n) PROVE Goal
  <2>1. Requests' /\ Confined(S) /\ Moved(r, "createKey", [agent |-> a, name |-> n])
    BY <1>1, <1>5, StartStep DEF CreateKeyRead
  <2>2. QED
    BY <1>5, <2>1 DEF CreateKeyRead, AgentTypes
<1>6. ASSUME NEW r \in Req, RestrictCommit(r) PROVE Goal
  <2>1. Requests' /\ Confined(S) /\ Moved(r, "idle", None)
    BY <1>6, AnswerStep DEF RestrictCommit
  <2>2. arg[r].new \in [Limit -> LimitValue]
    BY <1>6 DEF RestrictCommit, AgentTypes
  <2>3. restrictions' \in [Agent -> [Limit -> LimitValue]]
    BY <1>6, <2>2 DEF RestrictCommit, AgentTypes
  <2>4. QED
    BY <1>6, <2>1, <2>3 DEF RestrictCommit, AgentTypes
<1>7. ASSUME NEW r \in Req, CreateKeyCommit(r) PROVE Goal
  <2>1. Requests' /\ Confined(S) /\ Moved(r, "idle", None)
    BY <1>7, AnswerStep DEF CreateKeyCommit
  <2>2. arg[r].agent \in agentsUsed /\ arg[r].agent \in Agent /\ arg[r].name \in Name
    BY <1>7 DEF CreateKeyCommit, AgentTypes
  <2>3. /\ keyRow' \in [AgentKey -> KeyRecord \cup {None}]
        /\ \A k \in AgentKey : keyRow'[k] # None => keyRow'[k].agent \in agentsUsed'
    <3> DEFINE new == [agent |-> arg[r].agent, name |-> arg[r].name, active |-> TRUE]
    <3>1. new \in KeyRecord /\ new.agent \in agentsUsed
      BY <2>2 DEF KeyRecord
    <3>2. agentsUsed' = agentsUsed
      BY <1>7 DEF CreateKeyCommit
    <3>3. ASSUME NEW k \in AgentKey, keyRow' = [keyRow EXCEPT ![k] = new]
          PROVE  /\ keyRow' \in [AgentKey -> KeyRecord \cup {None}]
                 /\ \A j \in AgentKey : keyRow'[j] # None => keyRow'[j].agent \in agentsUsed'
      <4> HIDE DEF new
      <4>1. QED
        BY <3>1, <3>2, <3>3, KeyWritten
    <3>4. CASE UNCHANGED keyRow
      BY <3>2, <3>4 DEF AgentTypes
    <3>5. QED
      BY <1>7, <3>3, <3>4 DEF CreateKeyCommit
  <2>4. QED
    BY <1>7, <2>1, <2>3 DEF CreateKeyCommit, AgentTypes
<1>8. ASSUME NEW r \in Req, NEW a \in Agent, NEW k \in AgentKey,
             \/ DeleteAgentKey(r, a, k)
             \/ \E n \in Name : RenameKey(r, a, k, n)
             \/ \E b \in BOOLEAN : SetKeyActive(r, a, k, b)
      PROVE  Goal
  <2>1. Requests' /\ Confined(S) /\ UNCHANGED <<pc, arg>>
    BY <1>8, StillStep DEF DeleteAgentKey, RenameKey, SetKeyActive, AtOnce, OneShot
  <2>2. keyRow[k] \in KeyRecord /\ keyRow[k].agent \in agentsUsed
    BY <1>8 DEF DeleteAgentKey, RenameKey, SetKeyActive, KeysOf, AgentTypes
  <2>3. PICK new \in KeyRecord \cup {None} :
          /\ new # None => new.agent \in agentsUsed
          /\ keyRow' = [keyRow EXCEPT ![k] = new]
    <3>1. CASE DeleteAgentKey(r, a, k)
      BY <3>1 DEF DeleteAgentKey
    <3>2. ASSUME NEW n \in Name, RenameKey(r, a, k, n)
          PROVE  \E row \in KeyRecord \cup {None} :
                    /\ row # None => row.agent \in agentsUsed
                    /\ keyRow' = [keyRow EXCEPT ![k] = row]
      <4> DEFINE new == [agent |-> keyRow[k].agent, name |-> n, active |-> keyRow[k].active]
      <4>1. new \in KeyRecord /\ new.agent \in agentsUsed
        BY <2>2 DEF KeyRecord
      <4>2. [keyRow[k] EXCEPT !.name = n] = new
        BY <2>2 DEF KeyRecord
      <4>3. keyRow' = [keyRow EXCEPT ![k] = new]
        BY <3>2, <4>2 DEF RenameKey
      <4> HIDE DEF new
      <4>4. QED
        BY <4>1, <4>3
    <3>3. ASSUME NEW b \in BOOLEAN, SetKeyActive(r, a, k, b)
          PROVE  \E row \in KeyRecord \cup {None} :
                    /\ row # None => row.agent \in agentsUsed
                    /\ keyRow' = [keyRow EXCEPT ![k] = row]
      <4> DEFINE new == [agent |-> keyRow[k].agent, name |-> keyRow[k].name, active |-> b]
      <4>1. new \in KeyRecord /\ new.agent \in agentsUsed
        BY <2>2 DEF KeyRecord
      <4>2. [keyRow[k] EXCEPT !.active = b] = new
        BY <2>2 DEF KeyRecord
      <4>3. keyRow' = [keyRow EXCEPT ![k] = new]
        BY <3>3, <4>2 DEF SetKeyActive
      <4> HIDE DEF new
      <4>4. QED
        BY <4>1, <4>3
    <3>4. QED
      BY <1>8, <3>1, <3>2, <3>3
  <2>4. /\ keyRow' \in [AgentKey -> KeyRecord \cup {None}]
        /\ \A j \in AgentKey : keyRow'[j] # None => keyRow'[j].agent \in agentsUsed'
    <3>1. agentsUsed' = agentsUsed
      BY <1>8 DEF DeleteAgentKey, RenameKey, SetKeyActive
    <3>2. QED
      BY <2>3, <3>1, KeyWritten
  <2>5. QED
    BY <1>8, <2>1, <2>4 DEF DeleteAgentKey, RenameKey, SetKeyActive, AgentTypes
<1>9. QED
  BY <1>3, <1>4, <1>5, <1>6, <1>7, <1>8 DEF AgentsNext

(* The role updates and the script (routers.py, migrate_owner_roles.py).    *)
LEMMA RolesStep ==
    ASSUME Requests, RoleTypes, RolesNext
    PROVE  Requests' /\ RoleTypes' /\ Confined(InRoleTx \cup InRoleGap)
<1> DEFINE S    == InRoleTx \cup InRoleGap
           Goal == Requests' /\ RoleTypes' /\ Confined(S)
<1> USE DEF roleVars, Moved
<1>1. /\ "write" \in S \cap InRowTx
      /\ \A to \in InRoleGap : to \in S /\ to \in Labels /\ to \notin InRowTx
      /\ \A to \in InRoleGap : to # "write"
  BY DEF Labels, InRowGap, InRoleGap, InRowTx, InDeviceTx, InOrgKeyTx, InWorkspaceTx, InSshTx,
         InAgentTx, InRoleTx
<1>2. ASSUME NEW r \in Req, NEW to \in InRoleGap, NEW u \in Update, Goto(r, to, u), UNCHANGED conn,
             pc[r] \in InRoleGap \cup {"idle"}
      PROVE  Requests' /\ Confined(S) /\ Moved(r, to, u)
  <2>1. Moved(r, to, u) /\ DOMAIN arg' = Req /\ pc' \in [Req -> Labels]
    BY <1>1, <1>2, GotoFacts
  <2>2. pc[r] \notin InRowTx
    BY <1>1, <1>2 DEF InRowTx, InDeviceTx, InOrgKeyTx, InWorkspaceTx, InSshTx, InAgentTx, InRoleTx
  <2>3. QED
    BY <1>1, <1>2, <2>1, <2>2 DEF Requests, Confined
<1>3. ASSUME NEW r \in Req, NEW u \in Update, Arrive(r, u) PROVE Goal
  <2>1. Requests' /\ Confined(S) /\ Moved(r, "nonce", u)
    BY <1>2, <1>3 DEF Arrive, InRoleGap
  <2>2. u \in Sent
    BY <1>3 DEF Arrive, RoleTypes
  <2>3. QED
    BY <1>3, <2>1, <2>2 DEF Arrive, RoleTypes, InRoleTx, Sent
<1>4. ASSUME NEW r \in Req, CheckNonce(r) \/ SetNonce(r) \/ NonceFails(r) PROVE Goal
  <2>1. arg[r] \in Sent /\ arg[r] \in Update
    BY <1>4 DEF CheckNonce, SetNonce, NonceFails, RoleTypes, InRoleGap, Sent
  <2>2. PICK to \in InRoleGap : Goto(r, to, arg[r])
    BY <1>4 DEF CheckNonce, SetNonce, NonceFails, InRoleGap
  <2>3. pc[r] \in InRoleGap /\ UNCHANGED <<conn, role, asks, fresh, script, applied>>
        /\ nonces' \subseteq Sent /\ unchecked' \in BOOLEAN
    BY <1>4, <2>1 DEF CheckNonce, SetNonce, NonceFails, InRoleGap, RoleTypes
  <2>4. Requests' /\ Confined(S) /\ Moved(r, to, arg[r])
    BY <1>2, <2>1, <2>2, <2>3
  <2>5. Sent' = Sent
    BY <2>3 DEF Sent
  <2>6. \A s \in Req : /\ pc'[s] \in InRoleGap => arg'[s] \in Sent
                       /\ pc'[s] \in InRoleTx => arg'[s] \in [update : Sent, read : Role]
    BY <1>1, <2>1, <2>4 DEF RoleTypes, InRoleTx
  <2>7. QED
    BY <2>3, <2>4, <2>5, <2>6 DEF RoleTypes
<1>5. ASSUME NEW r \in Req, LoadMembership(r) PROVE Goal
  <2>1. CASE role = None /\ Answer(r)
    <3>1. Requests' /\ Confined(S) /\ Moved(r, "idle", None)
      BY <2>1, AnswerStep
    <3>2. QED
      BY <1>5, <3>1 DEF LoadMembership, RoleTypes, InRoleGap, InRoleTx, Sent
  <2>2. CASE role # None /\ Checkout(r) /\ Goto(r, "write", [update |-> arg[r], read |-> role])
    <3>1. Moved(r, "write", [update |-> arg[r], read |-> role])
          /\ DOMAIN arg' = Req /\ pc' \in [Req -> Labels]
      BY <1>1, <2>2, GotoFacts DEF Labels
    <3>2. conn' = conn \cup {r}
      BY <2>2 DEF Checkout
    <3>3. Requests' /\ Confined(S)
      BY <1>1, <3>1, <3>2 DEF Requests, Confined
    <3>4. arg[r] \in Sent /\ role \in Role /\ UNCHANGED roleVars
      BY <1>5, <2>2 DEF LoadMembership, RoleTypes, InRoleGap
    <3>5. QED
      BY <1>1, <3>1, <3>3, <3>4 DEF RoleTypes, InRoleTx, Sent
  <2>3. QED
    BY <1>5, <2>1, <2>2 DEF LoadMembership
<1>6. ASSUME NEW r \in Req, WriteRole(r) PROVE Goal
  <2>1. Requests' /\ Confined(S) /\ Moved(r, "idle", None)
    BY <1>6, AnswerStep DEF WriteRole
  <2>2. arg[r].update \in Update /\ asks[arg[r].update] \in Role
    BY <1>6 DEF WriteRole, RoleTypes, InRoleTx, Sent
  <2>3. role' \in Role \cup {None} /\ applied' \in [Update -> 0..2]
    <3>1. role' \in Role \cup {None}
      BY <1>6, <2>2 DEF WriteRole, RoleTypes
    <3>2. applied[arg[r].update] # 2 => applied[arg[r].update] + 1 \in 0..2
      BY <2>2 DEF RoleTypes
    <3>3. QED
      BY <1>6, <2>2, <3>1, <3>2 DEF WriteRole, RoleTypes
  <2>4. QED
    BY <1>6, <2>1, <2>3 DEF WriteRole, RoleTypes, InRoleGap, InRoleTx, Sent
<1>7. ASSUME NEW u \in Update, NEW x \in Role, Send(u, x) PROVE Goal
  <2>1. Requests' /\ Confined(S) /\ UNCHANGED <<pc, arg>>
    BY <1>7, StillStep DEF Send, reqVars
  <2>2. asks' \in [Update -> Role \cup {None}] /\ Sent' = Sent \cup {u}
    BY <1>7, RoleAssumption DEF Send, RoleTypes, Sent
  <2>3. \A s \in Req : /\ pc'[s] \in InRoleGap => arg'[s] \in Sent'
                       /\ pc'[s] \in InRoleTx => arg'[s] \in [update : Sent', read : Role]
    BY <2>1, <2>2 DEF RoleTypes
  <2>4. QED
    BY <1>7, <2>1, <2>2, <2>3 DEF Send, RoleTypes
<1>8. ASSUME NEW u \in Update, Stale(u) \/ NonceExpires(u) PROVE Goal
  BY <1>8, StillStep DEF Stale, NonceExpires, RoleTypes, Sent, reqVars
<1>9. ASSUME MigrateRead \/ MigrateCommit \/ MigrateEnds \/ EndMembership PROVE Goal
  BY <1>9, StillStep
     DEF MigrateRead, MigrateCommit, MigrateEnds, EndMembership, TierRoles, RoleTypes, Sent,
         reqVars, OneShot
<1>10. QED
  BY <1>3, <1>4, <1>5, <1>6, <1>7, <1>8, <1>9 DEF RolesNext

-----------------------------------------------------------------------------
(* All parts together.                                                      *)

\* A step of the requests that brings none into S.
Away(S) == \E T : Confined(T) /\ T \cap S = {}

\* What a step of the whole is for each of the parts: one of its own, or one
\* that leaves its rows and the requests about them alone.
PartStep ==
    /\ Requests /\ Requests'
    /\ \/ DevicesNext /\ DeviceTypes'
       \/ UNCHANGED deviceVars /\ Away(InDeviceTx)
    /\ \/ OrgKeysNext /\ OrgKeyTypes'
       \/ UNCHANGED orgKey /\ Away(InOrgKeyTx \cup {"accepted"})
    /\ \/ WorkspacesNext /\ WorkspaceTypes'
       \/ UNCHANGED workspaceVars /\ Away(InWorkspaceTx)
    /\ \/ SshNext /\ SshTypes'
       \/ UNCHANGED sshVars /\ Away(InSshTx)
    /\ \/ AgentsNext /\ AgentTypes'
       \/ UNCHANGED agentVars /\ Away(InAgentTx)
    /\ \/ RolesNext /\ RoleTypes'
       \/ UNCHANGED roleVars /\ Away(InRoleTx \cup InRoleGap)

(* A step of the whole is one of one part, and brings no request into a     *)
(* transaction of another (OwnedRows).                                      *)
LEMMA PartSteps ==
    ASSUME RowsTypes, [RowsNext]_rowsVars
    PROVE  PartStep
<1>1. Requests
  BY DEF RowsTypes, Requests, Labels
<1> USE <1>1 DEF RowsTypes, DevicesPart, OrgKeysPart, WorkspacesPart, SshPart, AgentsPart, RolesPart
<1>2. /\ InDeviceTx = {"trust", "revokeAll"} /\ InOrgKeyTx = {"verify", "membership"}
      /\ InWorkspaceTx = {"deleteWorkspace", "upsert", "mint"} /\ InSshTx = {"register", "confirm"}
      /\ InAgentTx = {"restrict", "createKey"} /\ InRoleTx = {"write"}
      /\ InRoleGap = {"nonce", "setNonce", "load"}
  BY DEF InDeviceTx, InOrgKeyTx, InWorkspaceTx, InSshTx, InAgentTx, InRoleTx, InRoleGap
<1>3. CASE DevicesNext /\ DevicesPart
  <2>1. Requests' /\ DeviceTypes' /\ Confined(InDeviceTx)
    BY <1>3, DevicesStep
  <2>2. QED
    BY <1>2, <1>3, <2>1 DEF Away, PartStep
<1>4. CASE OrgKeysNext /\ OrgKeysPart
  <2>1. Requests' /\ OrgKeyTypes' /\ Confined(InOrgKeyTx \cup {"accepted"})
    BY <1>4, OrgKeysStep
  <2>2. QED
    BY <1>2, <1>4, <2>1 DEF Away, PartStep
<1>5. CASE WorkspacesNext /\ WorkspacesPart
  <2>1. Requests' /\ WorkspaceTypes' /\ Confined(InWorkspaceTx)
    BY <1>5, WorkspacesStep
  <2>2. QED
    BY <1>2, <1>5, <2>1 DEF Away, PartStep
<1>6. CASE SshNext /\ SshPart
  <2>1. Requests' /\ SshTypes' /\ Confined(InSshTx)
    BY <1>6, SshStep
  <2>2. QED
    BY <1>2, <1>6, <2>1 DEF Away, PartStep
<1>7. CASE AgentsNext /\ AgentsPart
  <2>1. Requests' /\ AgentTypes' /\ Confined(InAgentTx)
    BY <1>7, AgentsStep
  <2>2. QED
    BY <1>2, <1>7, <2>1 DEF Away, PartStep
<1>8. CASE RolesNext /\ RolesPart
  <2>1. Requests' /\ RoleTypes' /\ Confined(InRoleTx \cup InRoleGap)
    BY <1>8, RolesStep
  <2>2. QED
    BY <1>2, <1>8, <2>1 DEF Away, PartStep
<1>9. ASSUME RowsKept, Requests', Confined({}) PROVE PartStep
  BY <1>9 DEF RowsKept, Away, PartStep
<1>10. CASE \E r \in Req : RequestFails(r)
  <2>1. PICK r \in Req : Answer(r) /\ RowsKept
    BY <1>10 DEF RequestFails
  <2>2. Requests' /\ Confined({})
    BY <2>1, AnswerStep
  <2>3. QED
    BY <1>9, <2>1, <2>2
<1>11. CASE RowsCrash
  <2>1. /\ pc' = [r \in Req |-> "idle"] /\ arg' = [r \in Req |-> None] /\ conn' = {}
    <3>1. conn \subseteq Req
      BY DEF Requests
    <3>2. QED
      BY <1>11, <3>1 DEF RowsCrash, Restart
  <2>2. "idle" \notin InRowTx
    BY DEF InRowTx, InDeviceTx, InOrgKeyTx, InWorkspaceTx, InSshTx, InAgentTx, InRoleTx
  <2>3. Requests' /\ Confined({})
    BY <2>1, <2>2 DEF Requests, Confined, Labels
  <2>4. QED
    BY <1>9, <1>11, <2>3 DEF RowsCrash
<1>12. CASE UNCHANGED rowsVars
  <2>1. RowsKept /\ UNCHANGED <<pc, arg, conn>>
    BY <1>12 DEF rowsVars, reqVars, RowsKept
  <2>2. Requests' /\ Confined({})
    BY <2>1, StillStep
  <2>3. QED
    BY <1>9, <2>1, <2>2
<1>13. QED
  BY <1>3, <1>4, <1>5, <1>6, <1>7, <1>8, <1>10, <1>11, <1>12 DEF RowsNext

(* Types and connections are kept by every step (the handlers of the six    *)
(* parts, the failures and the crash).                                      *)
LEMMA RowsTypesStep == RowsTypes /\ [RowsNext]_rowsVars => RowsTypes'
<1> SUFFICES ASSUME RowsTypes, [RowsNext]_rowsVars PROVE RowsTypes'
  OBVIOUS
<1>1. Requests'
  BY PartSteps DEF PartStep
<1>2. DeviceTypes'
  BY PartSteps, DevicesKept DEF PartStep, RowsTypes, Away
<1>3. OrgKeyTypes'
  BY PartSteps, OrgKeysKept DEF PartStep, RowsTypes, Away
<1>4. WorkspaceTypes'
  BY PartSteps, WorkspacesKept DEF PartStep, RowsTypes, Away
<1>5. SshTypes'
  BY PartSteps, SshKept DEF PartStep, RowsTypes, Away
<1>6. AgentTypes'
  BY PartSteps, AgentsKept DEF PartStep, RowsTypes, Away
<1>7. RoleTypes'
  BY PartSteps, RolesKept DEF PartStep, RowsTypes, Away
<1>8. QED
  BY <1>1, <1>2, <1>3, <1>4, <1>5, <1>6, <1>7 DEF RowsTypes, Requests, Labels

(* The processes start without rows and requests, but for the owner of the  *)
(* organisation (create_user makes the membership with the role "owner").   *)
LEMMA RowsTypesInit == RowsInit => RowsTypes
<1> SUFFICES ASSUME RowsInit PROVE RowsTypes
  OBVIOUS
<1> USE DEF RowsInit, HandlersInit, InDeviceTx, InOrgKeyTx, InWorkspaceTx, InSshTx, InAgentTx,
            InRoleTx, InRoleGap
<1>1. DOMAIN arg = Req /\ pc \in [Req -> {"idle"} \cup InRowTx \cup InRowGap] /\ conn = {}
  OBVIOUS
<1>2. \A r \in Req : pc[r] = "idle" /\ "idle" \notin InRowTx
  BY DEF InRowTx
<1>3. DeviceTypes
  BY <1>2 DEF DevicesInit, DeviceTypes, Trusts
<1>4. OrgKeyTypes
  BY <1>2 DEF OrgKeysInit, OrgKeyTypes
<1>5. WorkspaceTypes
  BY <1>2 DEF WorkspacesInit, WorkspaceTypes
<1>6. SshTypes
  BY <1>2 DEF SshInit, SshTypes
<1>7. AgentTypes
  BY <1>2 DEF AgentsInit, AgentTypes, LimitValue
<1>8. RoleTypes
  <2>1. 0 \in 0..2
    OBVIOUS
  <2>2. applied \in [Update -> 0..2] /\ asks \in [Update -> Role \cup {None}]
    BY <2>1 DEF RolesInit
  <2>3. QED
    BY <1>2, <2>2, RoleAssumption DEF RolesInit, RoleTypes, Sent
<1>9. QED
  BY <1>1, <1>2, <1>3, <1>4, <1>5, <1>6, <1>7, <1>8 DEF RowsTypes

(* Rows have their types, and a request holds a connection exactly inside   *)
(* its transactions, whatever fails (get_db; the handlers of owned rows).   *)
THEOREM RowsTypesAlways == RowsSpec => []RowsTypes
BY RowsTypesInit, RowsTypesStep, PTL DEF RowsSpec

-----------------------------------------------------------------------------
(* What the rows owe their owners.                                          *)

(* A fingerprint comes to a row only by a confirmation that found this row, *)
(* whatever happened to the row meanwhile, for every pool                   *)
(* (set_user_ssh_host_fingerprint).                                         *)
THEOREM ConfirmationsKeepToTheirRow == RowsSpec => ConfirmedOfThisRow
<1> DEFINE A == \A p \in Shown' \ Shown :
                   \E r \in Req : pc[r] = "confirm" /\ p = <<arg[r].read.row, arg[r].fingerprint>>
<1>1. ASSUME RowsTypes, [RowsNext]_rowsVars PROVE A \/ UNCHANGED ssh
  <2>1. PartStep /\ SshTypes
    BY <1>1, PartSteps DEF RowsTypes
  <2>2. CASE UNCHANGED sshVars
    BY <2>2 DEF sshVars
  <2>3. CASE SshNext
    <3>1. ASSUME NEW r \in Req, RegisterUpdate(r) PROVE Shown' \subseteq Shown
      <4>1. CASE UNCHANGED ssh
        BY <4>1 DEF Shown
      <4>2. CASE /\ Still(arg[r].read)
                 /\ ssh' = [ssh EXCEPT !.host = Column(@, arg[r].read.host, arg[r].host),
                                       !.fingerprint = Column(@, arg[r].read.fingerprint, None)]
        <5>1. ssh \in SshRow /\ ssh # None
          BY <2>1, <4>2 DEF SshTypes, Still
        <5>2. ssh'.row = ssh.row /\ ssh'.fingerprint \in {ssh.fingerprint, None}
          BY <4>2, <5>1 DEF Column, SshRow
        <5>3. QED
          BY <5>1, <5>2 DEF Shown
      <4>3. QED
        BY <3>1, <4>1, <4>2 DEF RegisterUpdate
    <3>2. ASSUME NEW r \in Req, RegisterInsert(r) PROVE Shown' \subseteq Shown
      BY <3>2 DEF RegisterInsert, sshVars, Shown
    <3>3. ASSUME NEW r \in Req, ConfirmCommit(r) PROVE A \/ UNCHANGED ssh
      <4>1. CASE UNCHANGED ssh
        BY <4>1
      <4>2. CASE /\ Still(arg[r].read)
                 /\ ssh' = [ssh EXCEPT !.fingerprint =
                              Column(@, arg[r].read.fingerprint, arg[r].fingerprint)]
        <5>1. ssh \in SshRow /\ ssh # None /\ ssh.row = arg[r].read.row
          BY <2>1, <4>2 DEF SshTypes, Still
        <5>2. /\ ssh'.row = ssh.row
              /\ ssh'.fingerprint \in {ssh.fingerprint, arg[r].fingerprint}
          BY <4>2, <5>1 DEF Column, SshRow
        <5>3. Shown' \subseteq Shown \cup {<<arg[r].read.row, arg[r].fingerprint>>}
          BY <5>1, <5>2 DEF Shown
        <5>4. QED
          BY <3>3, <5>3 DEF ConfirmCommit
      <4>3. QED
        BY <3>3, <4>1, <4>2 DEF ConfirmCommit
    <3>4. ASSUME NEW r \in Req, DeleteHost(r) PROVE Shown' \subseteq Shown
      BY <3>4 DEF DeleteHost, Shown
    <3>5. ASSUME NEW r \in Req,
                 \/ \E h \in Host : RegisterRead(r, h)
                 \/ \E f \in Fingerprint : ConfirmRead(r, f)
          PROVE  UNCHANGED ssh
      BY <3>5 DEF RegisterRead, ConfirmRead, sshVars
    <3>6. QED
      BY <2>3, <3>1, <3>2, <3>3, <3>4, <3>5 DEF SshNext
  <2>4. QED
    BY <2>1, <2>2, <2>3 DEF PartStep
<1>2. QED
  BY <1>1, RowsTypesAlways, PTL DEF RowsSpec, ConfirmedOfThisRow

(* Whatever writes a row of agent_api_keys leaves the constraint on agent   *)
(* and name (agent_settings_routes.py).                                     *)
LEMMA AgentKeysStep ==
    ASSUME RowsTypes, OneKeyPerName, [RowsNext]_rowsVars
    PROVE  OneKeyPerName'
<1>1. PartStep
  BY PartSteps
<1>2. CASE UNCHANGED keyRow
  BY <1>2 DEF OneKeyPerName, Named, KeysOf
<1>3. ASSUME NEW k \in AgentKey, NEW a \in Agent, NEW n \in Name, NEW new \in KeyRecord,
             new.agent = a, new.name = n, NameFree(a, n, k), keyRow' = [keyRow EXCEPT ![k] = new]
      PROVE  OneKeyPerName'
  <2>1. \A j \in AgentKey : keyRow'[j] = IF j = k THEN new ELSE keyRow[j]
    BY <1>3 DEF RowsTypes, AgentTypes
  <2>2. \A j \in AgentKey \ {k} :
           keyRow[j] # None => ~(keyRow[j].agent = a /\ keyRow[j].name = n)
    BY <1>3 DEF NameFree, Named, KeysOf
  <2>3. QED
    BY <1>3, <2>1, <2>2 DEF OneKeyPerName, Named, KeysOf
<1>4. ASSUME NEW k \in AgentKey, keyRow' = [keyRow EXCEPT ![k] = None]
      PROVE  OneKeyPerName'
  <2>1. \A j \in AgentKey : keyRow'[j] # None => keyRow'[j] = keyRow[j] /\ keyRow[j] # None
    BY <1>4 DEF RowsTypes, AgentTypes
  <2>2. QED
    BY <2>1 DEF OneKeyPerName, Named, KeysOf
<1>5. CASE AgentsNext
  <2>1. ASSUME NEW r \in Req, CreateKeyCommit(r) PROVE OneKeyPerName'
    <3> DEFINE new == [agent |-> arg[r].agent, name |-> arg[r].name, active |-> TRUE]
    <3>1. arg[r].agent \in Agent /\ arg[r].name \in Name
      BY <2>1 DEF CreateKeyCommit, RowsTypes, AgentTypes
    <3>2. new \in KeyRecord /\ new.agent = arg[r].agent /\ new.name = arg[r].name
      BY <3>1 DEF KeyRecord
    <3>3. \/ UNCHANGED keyRow
          \/ \E k \in AgentKey : NameFree(arg[r].agent, arg[r].name, k)
                               /\ keyRow' = [keyRow EXCEPT ![k] = new]
      BY <2>1 DEF CreateKeyCommit
    <3> HIDE DEF new
    <3>4. QED
      BY <1>2, <1>3, <3>1, <3>2, <3>3
  <2>2. ASSUME NEW r \in Req, NEW a \in Agent, NEW k \in AgentKey, NEW n \in Name,
               RenameKey(r, a, k, n)
        PROVE  OneKeyPerName'
    <3> DEFINE new == [agent |-> keyRow[k].agent, name |-> n, active |-> keyRow[k].active]
    <3>1. keyRow[k] \in KeyRecord /\ keyRow[k].agent = a /\ NameFree(a, n, k)
      BY <2>2 DEF RenameKey, KeysOf, RowsTypes, AgentTypes
    <3>2. new \in KeyRecord /\ new.agent = a /\ new.name = n
      BY <3>1 DEF KeyRecord
    <3>3. [keyRow[k] EXCEPT !.name = n] = new
      BY <3>1 DEF KeyRecord
    <3>4. keyRow' = [keyRow EXCEPT ![k] = new]
      BY <2>2, <3>3 DEF RenameKey
    <3> HIDE DEF new
    <3>5. QED
      BY <1>3, <3>1, <3>2, <3>4
  <2>3. ASSUME NEW r \in Req, NEW a \in Agent, NEW k \in AgentKey, NEW b \in BOOLEAN,
               SetKeyActive(r, a, k, b)
        PROVE  OneKeyPerName'
    <3> DEFINE new == [agent |-> keyRow[k].agent, name |-> keyRow[k].name, active |-> b]
    <3>1. keyRow[k] \in KeyRecord /\ keyRow[k] # None
      BY <2>3 DEF SetKeyActive, KeysOf, RowsTypes, AgentTypes
    <3>2. new \in KeyRecord /\ new.agent = keyRow[k].agent /\ new.name = keyRow[k].name
          /\ keyRow[k].agent \in Agent /\ keyRow[k].name \in Name
      BY <3>1 DEF KeyRecord
    <3>3. NameFree(keyRow[k].agent, keyRow[k].name, k)
      BY <3>1, <3>2 DEF OneKeyPerName, NameFree, Named, KeysOf
    <3>4. [keyRow[k] EXCEPT !.active = b] = new
      BY <3>1 DEF KeyRecord
    <3>5. keyRow' = [keyRow EXCEPT ![k] = new]
      BY <2>3, <3>4 DEF SetKeyActive
    <3> HIDE DEF new
    <3>6. QED
      BY <1>3, <3>2, <3>3, <3>5
  <2>4. QED
    BY <1>2, <1>4, <1>5, <2>1, <2>2, <2>3
       DEF AgentsNext, CreateAgent, CreateFromTemplate, NewAgent, SaveTemplate, DeleteAgent,
           RestrictRead, RestrictCommit, CreateKeyRead, DeleteAgentKey, agentVars
<1>6. QED
  BY <1>1, <1>2, <1>5 DEF PartStep, agentVars

(* An agent has one key of a name, although creation looks for the name     *)
(* before and renaming does not look (create_agent_api_key,                 *)
(* update_agent_api_key).                                                   *)
THEOREM OneKeyPerNameAlways == RowsSpec => []OneKeyPerName
<1>1. RowsInit => OneKeyPerName
  BY DEF RowsInit, AgentsInit, OneKeyPerName, Named, KeysOf
<1>2. RowsTypes /\ OneKeyPerName /\ [RowsNext]_rowsVars => OneKeyPerName'
  BY AgentKeysStep
<1>3. QED
  BY <1>1, <1>2, RowsTypesAlways, PTL DEF RowsSpec

(* Only a request that found the device untrusted makes it trusted: rows    *)
(* are extended by their id, and revoked by it (trust_device,               *)
(* revoke_trusted_device, revoke_all_trusted_devices).                      *)
THEOREM RevokedStaysRevoked == RowsSpec => NotResurrected
<1> DEFINE Found(d) == \E r \in Req : pc[r] = "trust" /\ arg[r] = [device |-> d, rows |-> {}]
           Step     == \A d \in Device : RowsFor(d) = {} /\ RowsFor(d)' # {} => Found(d)
<1>1. ASSUME RowsTypes, [RowsNext]_rowsVars PROVE [Step]_deviceVars
  <2>1. PartStep /\ DeviceTypes
    BY <1>1, PartSteps DEF RowsTypes
  <2> SUFFICES ASSUME DevicesNext, NEW d \in Device, RowsFor(d) = {}, RowsFor(d)' # {}
               PROVE  Found(d)
    BY <2>1 DEF PartStep
  <2>2. PICK w \in DeviceRow : deviceOf'[w] = d /\ deviceOf[w] # d
    BY DEF RowsFor
  <2>3. ASSUME NEW r \in Req, TrustInsert(r) PROVE Found(d)
    <3>1. pc[r] = "trust" /\ arg[r].rows = {} /\ arg[r].device = d
      BY <2>1, <2>2, <2>3 DEF TrustInsert, DeviceTypes
    <3>2. arg[r] \in [device : Device, rows : SUBSET DeviceRow]
      BY <2>1, <3>1 DEF DeviceTypes
    <3>3. arg[r] = [device |-> d, rows |-> {}]
      BY <3>1, <3>2
    <3>4. QED
      BY <3>1, <3>3
  <2>4. ASSUME NEW W, Drop(W) PROVE FALSE
    <3>1. deviceOf'[w] = None
      BY <2>2, <2>4 DEF Drop
    <3>2. QED
      BY <2>2, <3>1, DeviceAssumption
  <2>5. deviceOf' # deviceOf
    BY <2>2
  <2>6. QED
    BY <2>3, <2>4, <2>5
       DEF DevicesNext, TrustRead, TrustExtend, RevokeDevice, RevokeDevicesRead,
           RevokeDevicesCommit, LapseTrust, ToggleMfa, deviceVars
<1>2. QED
  BY <1>1, RowsTypesAlways, PTL DEF RowsSpec, NotResurrected

(* A workspace never passes from one user to another: an id is inserted, or *)
(* the primary key raises (create_workspace, upsert_workspace_internal).    *)
THEOREM OwnerNeverChanges == RowsSpec => OwnerFixed
<1> DEFINE Step == \A w \in Workspace : owner[w] # None /\ owner'[w] # None => owner'[w] = owner[w]
<1>1. ASSUME RowsTypes, [RowsNext]_rowsVars PROVE [Step]_owner
  <2>1. PartStep /\ WorkspaceTypes
    BY <1>1, PartSteps DEF RowsTypes
  <2> SUFFICES ASSUME WorkspacesNext, owner' # owner, NEW w \in Workspace, owner[w] # None,
                      owner'[w] # None
               PROVE  owner'[w] = owner[w]
    BY <2>1 DEF PartStep, workspaceVars
  <2>2. PICK x \in Workspace, u \in User \cup {None} :
          owner' = [owner EXCEPT ![x] = u] /\ (owner[x] = None \/ u = None)
    <3>1. ASSUME NEW r \in Req, NEW u \in User, NEW x \in Workspace, CreateWorkspace(r, u, x)
          PROVE  owner' = [owner EXCEPT ![x] = u] /\ owner[x] = None
      BY <2>1, <3>1 DEF CreateWorkspace, Own, WorkspaceTypes
    <3>2. ASSUME NEW r \in Req, DeleteWorkspaceCommit(r) \/ UpsertCommit(r)
          PROVE  /\ arg[r].workspace \in Workspace /\ arg[r].user \in User
                 /\ \/ owner' = [owner EXCEPT ![arg[r].workspace] = None]
                    \/ /\ owner' = [owner EXCEPT ![arg[r].workspace] = arg[r].user]
                       /\ owner[arg[r].workspace] = None
      BY <2>1, <3>2 DEF DeleteWorkspaceCommit, UpsertCommit, Own, WorkspaceTypes, InWorkspaceTx
    <3>3. PICK r \in Req :
            \/ \E u \in User, x \in Workspace : CreateWorkspace(r, u, x)
            \/ DeleteWorkspaceCommit(r) \/ UpsertCommit(r)
      BY DEF WorkspacesNext, DeleteWorkspaceRead, UpsertRead, MintRead, MintCommit, MintInternal,
             workspaceVars
    <3>4. QED
      BY <3>1, <3>2, <3>3
  <2>3. owner'[w] = IF w = x THEN u ELSE owner[w]
    BY <2>1, <2>2 DEF WorkspaceTypes
  <2>4. QED
    BY <2>2, <2>3
<1>2. QED
  BY <1>1, RowsTypesAlways, PTL DEF RowsSpec, OwnerFixed

\* The script never has "owner" in hand.
ScriptInv == script # "owner"

(* No tier maps to "owner" (migrate_owner_roles.py, TIER_TO_ROLE).          *)
LEMMA ScriptStep ==
    ASSUME RowsTypes, ScriptInv, [RowsNext]_rowsVars
    PROVE  ScriptInv'
<1>1. PartStep
  BY PartSteps
<1>2. QED
  BY <1>1, RoleAssumption
     DEF PartStep, RolesNext, roleVars, ScriptInv, TierRoles, Stale, NonceExpires, Send, Arrive,
         CheckNonce, SetNonce, NonceFails, LoadMembership, WriteRole, MigrateRead, MigrateCommit,
         MigrateEnds, EndMembership

(* The role becomes "owner" only where an update asks for it, also when the *)
(* script and an update overtake one another (update_user_role,             *)
(* migrate_owner_roles.py).                                                 *)
THEOREM OwnerOnlyIfAskedAlways == RowsSpec => OwnerOnlyIfAsked
<1> DEFINE Asked == \E r \in Req : pc[r] = "write" /\ asks[arg[r].update] = "owner"
           Step  == role # "owner" /\ role' = "owner" => Asked
<1>1. RowsInit => ScriptInv
  BY RoleAssumption DEF RowsInit, RolesInit, ScriptInv
<1>2. RowsTypes /\ ScriptInv /\ [RowsNext]_rowsVars => ScriptInv'
  BY ScriptStep
<1>3. ASSUME RowsTypes, ScriptInv, [RowsNext]_rowsVars PROVE [Step]_role
  <2>1. PartStep
    BY <1>3, PartSteps
  <2> SUFFICES ASSUME RolesNext, role # "owner", role' = "owner"
               PROVE  Asked
    BY <2>1 DEF PartStep, roleVars
  <2>2. ASSUME NEW r \in Req, WriteRole(r) PROVE Asked
    BY <2>2 DEF WriteRole
  <2>3. ~MigrateCommit /\ ~EndMembership
    BY <1>3, RoleAssumption DEF MigrateCommit, EndMembership, ScriptInv
  <2>4. QED
    BY <2>2, <2>3
       DEF RolesNext, Stale, NonceExpires, Send, Arrive, CheckNonce, SetNonce, NonceFails,
           LoadMembership, MigrateRead, MigrateEnds, roleVars
<1>4. QED
  BY <1>1, <1>2, <1>3, RowsTypesAlways, PTL DEF RowsSpec, OwnerOnlyIfAsked

-----------------------------------------------------------------------------
(* Sign-on: types.                                                          *)

CallLabels == {"idle", "exchange"} \cup InStore \cup InKeyTx

\* The parts of the types that are about the requests.
CallTypes ==
    \A r \in Req :
       /\ pc[r] \in InStore =>
             arg[r] \in [state : {s \in State : kind[s] # None}, route : {"path", "compat", "service"}]
       /\ pc[r] = "peeked" => arg[r].route = "compat"
       /\ pc[r] \in InKeyTx =>
             arg[r] \in [target : Key \cup {None}, of : Provider, rows : SUBSET Key, primary : SUBSET Key]
       /\ pc[r] = "exchange" =>
             /\ arg[r] \in [state : State, route : {"compat", "service"}]
             /\ kind[arg[r].state] \in Service

Calls ==
    /\ DOMAIN arg = Req
    /\ pc \in [Req -> CallLabels]
    /\ conn = {r \in Req : pc[r] \in InKeyTx \/ OnServiceRoute(r)}

\* The parts that are about the store of states and about the keys.
StoreTypes ==
    /\ backend \in [Proc -> {"untried", "redis", "memory"}]
    /\ redis \in SUBSET State
    /\ mem   \in [Proc -> SUBSET State]
    /\ kind  \in [State -> Service \cup {"login", None}]
    /\ young \in SUBSET State
    /\ accepted \in [State -> [Proc -> Nat]]

RowTypes ==
    /\ provider \in [Key -> Provider \cup {None}]
    /\ primary \subseteq Rows
    /\ Rows \subseteq used /\ used \in SUBSET Key
    /\ byHand \in SUBSET used

(* SignOnTypes, part by part (SignOn).                                      *)
LEMMA SignOnParts ==
    SignOnTypes <=> Calls /\ CallTypes /\ StoreTypes /\ RowTypes
BY DEF SignOnTypes, OAuthTypes, KeysTypes, Calls, CallTypes, CallLabels, StoreTypes, RowTypes

\* A call is inside a transaction at `to` with a.
Inside(to, a) == to \in InKeyTx \/ (to \in {"got", "exchange"} /\ a.route = "service")

\* Request r may be at `to` with a.
Typed(to, a) ==
    /\ to \in InStore =>
          a \in [state : {s \in State : kind[s] # None}, route : {"path", "compat", "service"}]
    /\ to = "peeked" => a.route = "compat"
    /\ to \in InKeyTx =>
          a \in [target : Key \cup {None}, of : Provider, rows : SUBSET Key, primary : SUBSET Key]
    /\ to = "exchange" =>
          a \in [state : State, route : {"compat", "service"}] /\ kind[a.state] \in Service

(* A call that goes on: it keeps its connection, takes one or gives it back *)
(* (the callbacks of app/oauth.py, the handlers of byok_routes.py).         *)
LEMMA CallStep ==
    ASSUME Calls, CallTypes, UNCHANGED kind, NEW r \in Req, NEW to \in CallLabels, NEW a, Typed(to, a),
           Goto(r, to, a),
           conn' = IF Inside(to, a) THEN conn \cup {r} ELSE conn \ {r}
    PROVE  Calls' /\ CallTypes' /\ Moved(r, to, a)
<1>1. arg' = [arg EXCEPT ![r] = a] /\ DOMAIN arg = Req
  BY DEF Goto, Calls
<1>2. DOMAIN arg' = Req /\ arg'[r] = a /\ \A s \in Req \ {r} : arg'[s] = arg[s]
  BY <1>1
<1>3. pc' \in [Req -> CallLabels] /\ Moved(r, to, a)
  BY <1>2 DEF Goto, Calls, Moved
<1>4. \A s \in Req \ {r} : OnServiceRoute(s)' <=> OnServiceRoute(s)
  BY <1>3 DEF Moved, OnServiceRoute
<1>5. (to \in InKeyTx \/ OnServiceRoute(r)') <=> Inside(to, a)
  BY <1>3 DEF Moved, OnServiceRoute, Inside
<1>6. conn' = {s \in Req : pc'[s] \in InKeyTx \/ OnServiceRoute(s)'}
  BY <1>3, <1>4, <1>5 DEF Calls, Moved
<1>7. CallTypes'
  BY <1>3 DEF CallTypes, Typed, Moved
<1>8. QED
  BY <1>2, <1>3, <1>6, <1>7 DEF Calls

(* A call that answers, or fails (get_db).                                  *)
LEMMA CallAnswers ==
    ASSUME Calls, CallTypes, UNCHANGED kind, NEW r \in Req, Answer(r)
    PROVE  Calls' /\ CallTypes' /\ Moved(r, "idle", None)
<1>1. "idle" \in CallLabels /\ "idle" \notin InKeyTx /\ "idle" \notin InStore
  BY DEF CallLabels, InKeyTx, InStore
<1>2. ~Inside("idle", None) /\ Typed("idle", None)
  BY <1>1 DEF Inside, Typed
<1>3. QED
  BY <1>1, <1>2, CallStep DEF Answer, Return

(* A step that moves no call, and makes states but no other's.              *)
LEMMA CallsStay ==
    ASSUME Calls, CallTypes, StoreTypes, UNCHANGED <<pc, arg, conn>>,
           \A s \in State : kind[s] # None => kind'[s] = kind[s]
    PROVE  Calls' /\ CallTypes'
<1>1. None \notin Service
  BY ServiceAssumption
<1>2. Calls'
  BY DEF Calls, OnServiceRoute
<1>3. CallTypes'
  BY <1>1 DEF CallTypes
<1>4. QED
  BY <1>2, <1>3

(* One more acceptance (validate_oauth_state and its callers).              *)
LEMMA AcceptFacts ==
    ASSUME StoreTypes, NEW p \in Proc, NEW s \in State, Accept(p, s)
    PROVE  /\ accepted' \in [State -> [Proc -> Nat]]
           /\ accepted'[s][p] = accepted[s][p] + 1
           /\ \A t \in State, q \in Proc : <<t, q>> # <<s, p>> => accepted'[t][q] = accepted[t][q]
<1> DEFINE new == [accepted[s] EXCEPT ![p] = @ + 1]
<1>1. accepted[s] \in [Proc -> Nat]
  BY DEF StoreTypes
<1>2. /\ new \in [Proc -> Nat] /\ new[p] = accepted[s][p] + 1
      /\ \A q \in Proc \ {p} : new[q] = accepted[s][q]
  BY <1>1
<1>3. accepted' = [accepted EXCEPT ![s] = new]
  BY DEF Accept
<1> HIDE DEF new
<1>4. QED
  BY <1>2, <1>3 DEF StoreTypes

(* Deleting a state (delete_oauth_state).                                   *)
LEMMA ForgetFacts ==
    ASSUME StoreTypes, NEW p \in Proc, NEW s \in State, Forget(p, s)
    PROVE  /\ redis' \in SUBSET State /\ mem' \in [Proc -> SUBSET State]
           /\ redis' \subseteq redis /\ \A q \in Proc : mem'[q] \subseteq mem[q]
           /\ backend[p] = "redis" => s \notin redis'
           /\ backend[p] = "memory" => s \notin mem'[p]
BY DEF StoreTypes, Forget

(* The states and the callbacks keep the types (oauth.py, oauth_redis.py).  *)
LEMMA OAuthStepTypes ==
    ASSUME SignOnTypes, OAuthNext, UNCHANGED keyVars
    PROVE  SignOnTypes'
<1>1. Calls /\ CallTypes /\ StoreTypes /\ RowTypes
  BY SignOnParts
<1>2. RowTypes'
  BY <1>1 DEF RowTypes, keyVars, Rows
<1> SUFFICES Calls' /\ CallTypes' /\ StoreTypes'
  BY <1>2, SignOnParts DEF SignOnTypes, OAuthTypes, KeysTypes, Calls, CallTypes, CallLabels,
                           StoreTypes, RowTypes
<1> DEFINE Goal == Calls' /\ CallTypes' /\ StoreTypes'
<1>3. InStore = {"peeked", "got"} /\ InKeyTx = {"add", "deleteAll", "found", "setPrimary", "connect"}
  BY DEF InStore, InKeyTx
<1>4. /\ {"idle", "peeked", "got", "exchange"} \subseteq CallLabels
      /\ \A a : ~Inside("peeked", a) /\ ~Inside("idle", a)
      /\ \A a : Inside("got", a) <=> a.route = "service"
      /\ \A a : Inside("exchange", a) <=> a.route = "service"
  BY <1>3 DEF CallLabels, Inside
<1>5. ASSUME NEW p \in Proc, NEW s \in State, NEW what \in Service \cup {"login"}, Generate(p, s, what)
      PROVE  Goal
  <2>1. UNCHANGED <<pc, arg, conn>>
    BY <1>5 DEF Generate, reqVars
  <2>2. \A t \in State : kind[t] # None => kind'[t] = kind[t]
    BY <1>1, <1>5 DEF Generate, StoreTypes
  <2>3. StoreTypes'
    BY <1>1, <1>5 DEF Generate, StoreTypes
  <2>4. QED
    BY <1>1, <2>1, <2>2, <2>3, CallsStay
<1>6. ASSUME \/ \E p \in Proc : ChooseBackend(p)
             \/ \E s \in State : Age(s) \/ RedisExpire(s)
      PROVE  Goal
  <2>1. UNCHANGED <<pc, arg, conn, kind>> /\ StoreTypes'
    BY <1>1, <1>6 DEF ChooseBackend, Age, RedisExpire, reqVars, StoreTypes
  <2>2. QED
    BY <1>1, <2>1, CallsStay
<1>7. ASSUME NEW r \in Req, NEW s \in State,
             PathCallback(r, s) \/ CompatCallback(r, s) \/ ServiceCallback(r, s)
      PROVE  Goal
  <2>1. pc[r] = "idle" /\ kind[s] # None /\ UNCHANGED oauthVars
    BY <1>7 DEF PathCallback, CompatCallback, ServiceCallback, Callback
  <2>2. r \notin conn
    BY <1>1, <1>3, <2>1 DEF Calls, OnServiceRoute
  <2>3. StoreTypes' /\ UNCHANGED kind
    BY <1>1, <2>1 DEF oauthVars, StoreTypes
  <2>4. CASE PathCallback(r, s)
    <3>1. Goto(r, "got", At(s, "path")) /\ conn' = conn \ {r} /\ ~Inside("got", At(s, "path"))
      BY <1>4, <2>2, <2>4 DEF PathCallback, At
    <3>2. Typed("got", At(s, "path"))
      BY <1>3, <2>1 DEF Typed, At
    <3>3. QED
      BY <1>1, <1>4, <2>3, <3>1, <3>2, CallStep
  <2>5. CASE CompatCallback(r, s)
    <3>1. Goto(r, "peeked", At(s, "compat")) /\ conn' = conn \ {r}
          /\ ~Inside("peeked", At(s, "compat"))
      BY <1>4, <2>2, <2>5 DEF CompatCallback
    <3>2. Typed("peeked", At(s, "compat"))
      BY <1>3, <2>1 DEF Typed, At
    <3>3. QED
      BY <1>1, <1>4, <2>3, <3>1, <3>2, CallStep
  <2>6. CASE ServiceCallback(r, s)
    <3>1. Goto(r, "got", At(s, "service")) /\ conn' = conn \cup {r} /\ Inside("got", At(s, "service"))
      BY <1>4, <2>6 DEF ServiceCallback, Checkout, At
    <3>2. Typed("got", At(s, "service"))
      BY <1>3, <2>1 DEF Typed, At
    <3>3. QED
      BY <1>1, <1>4, <2>3, <3>1, <3>2, CallStep
  <2>7. QED
    BY <1>7, <2>4, <2>5, <2>6
<1>8. ASSUME NEW r \in Req, OAuthStep(r)
      PROVE  Goal
  <2> DEFINE s == arg[r].state
             p == ProcOf[r]
  <2>1. /\ pc[r] \in {"peeked", "got"} /\ s \in State /\ p \in Proc /\ UNCHANGED kind
        /\ arg[r] \in [state : {t \in State : kind[t] # None}, route : {"path", "compat", "service"}]
    BY <1>1, <1>3, <1>8, ProcAssumption
       DEF CallTypes, OAuthStep, ValidateRead, ValidateConsume, RedisError
  <2>2. pc[r] = "peeked" => arg[r].route = "compat"
    BY <1>1 DEF CallTypes
  <2>3. r \in conn <=> pc[r] = "got" /\ arg[r].route = "service"
    BY <1>1, <1>3, <2>1 DEF Calls, OnServiceRoute
  <2>4. StoreTypes'
    <3>1. CASE UNCHANGED <<redis, mem>>
      <4>1. CASE UNCHANGED accepted
        BY <1>1, <1>8, <2>1, <3>1, <4>1
           DEF OAuthStep, ValidateRead, ValidateConsume, RedisError, StoreTypes
      <4>2. CASE Accept(p, s)
        BY <1>1, <1>8, <2>1, <3>1, <4>2, AcceptFacts
           DEF OAuthStep, ValidateRead, ValidateConsume, RedisError, StoreTypes
      <4>3. QED
        BY <1>8, <4>1, <4>2 DEF OAuthStep, ValidateRead, ValidateConsume, RedisError
    <3>2. CASE Forget(p, s)
      <4>1. CASE UNCHANGED accepted
        BY <1>1, <1>8, <2>1, <3>2, <4>1, ForgetFacts
           DEF OAuthStep, ValidateRead, ValidateConsume, RedisError, StoreTypes
      <4>2. CASE Accept(p, s)
        BY <1>1, <1>8, <2>1, <3>2, <4>2, AcceptFacts, ForgetFacts
           DEF OAuthStep, ValidateRead, ValidateConsume, RedisError, StoreTypes
      <4>3. QED
        BY <1>8, <4>1, <4>2 DEF OAuthStep, ValidateRead, ValidateConsume, RedisError
    <3>3. QED
      BY <1>8, <3>1, <3>2 DEF OAuthStep, ValidateRead, ValidateConsume, RedisError
  <2>5. CASE Answer(r)
    BY <1>1, <2>1, <2>4, <2>5, CallAnswers
  <2>6. CASE pc[r] = "peeked" /\ Goto(r, "got", arg[r]) /\ UNCHANGED conn
    <3>1. Typed("got", arg[r]) /\ ~Inside("got", arg[r]) /\ conn' = conn \ {r}
      BY <1>3, <1>4, <2>1, <2>2, <2>3, <2>6 DEF Typed
    <3>2. QED
      BY <1>1, <1>4, <2>1, <2>4, <2>6, <3>1, CallStep
  <2>7. CASE /\ Goto(r, "exchange", arg[r]) /\ UNCHANGED conn /\ kind[s] \in Service
             /\ arg[r].route \in {"compat", "service"}
    <3>1. Typed("exchange", arg[r])
      BY <1>3, <2>1, <2>7 DEF Typed
    <3>2. Inside("exchange", arg[r]) <=> r \in conn
      BY <1>4, <2>1, <2>2, <2>3
    <3>3. conn' = IF Inside("exchange", arg[r]) THEN conn \cup {r} ELSE conn \ {r}
      BY <2>7, <3>2
    <3>4. QED
      BY <1>1, <1>4, <2>1, <2>4, <2>7, <3>1, <3>3, CallStep
  <2>8. QED
    BY <1>8, <2>1, <2>2, <2>5, <2>6, <2>7
       DEF OAuthStep, ValidateRead, ValidateConsume, RedisError, IgnoresResult, ValidatedForService
<1>9. CASE \E p \in Proc, s \in State :
             InitiateLogin(p, s) \/ \E service \in Service : InitiateService(p, s, service)
  BY <1>5, <1>9 DEF InitiateLogin, InitiateService
<1>10. QED
  BY <1>6, <1>7, <1>8, <1>9 DEF OAuthNext

\* A write of the keys: rows that are new or gone, and ranks.
RowsWritten ==
    \/ UNCHANGED keyVars
    \/ \E p \in Provider, prim, hand \in BOOLEAN : Insert(p, prim, hand)
    \/ \E S \in SUBSET Key : Delete(S)
    \/ primary' \subseteq Rows /\ UNCHANGED <<provider, used, byHand>>

(* The rows of user_api_keys keep their types (byok_routes.py).             *)
LEMMA RowsWrittenTypes ==
    ASSUME RowTypes, RowsWritten
    PROVE  RowTypes'
<1>1. CASE UNCHANGED keyVars
  BY <1>1 DEF keyVars, RowTypes, Rows
<1>2. ASSUME NEW p \in Provider, NEW prim \in BOOLEAN, NEW hand \in BOOLEAN, Insert(p, prim, hand)
      PROVE  RowTypes'
  <2>1. PICK k \in Key \ used :
          /\ provider' = [provider EXCEPT ![k] = p]
          /\ primary'  = IF prim THEN primary \cup {k} ELSE primary
          /\ used'     = used \cup {k}
          /\ byHand'   = IF hand THEN byHand \cup {k} ELSE byHand
    BY <1>2 DEF Insert
  <2>2. Rows' = Rows \cup {k}
    BY <2>1, ServiceAssumption DEF RowTypes, Rows
  <2>3. QED
    BY <2>1, <2>2 DEF RowTypes
<1>3. ASSUME NEW S \in SUBSET Key, Delete(S)
      PROVE  RowTypes'
  <2>1. Rows' = Rows \ S
    BY <1>3 DEF Delete, Rows
  <2>2. QED
    BY <1>3, <2>1 DEF Delete, RowTypes
<1>4. CASE primary' \subseteq Rows /\ UNCHANGED <<provider, used, byHand>>
  BY <1>4 DEF RowTypes, Rows
<1>5. QED
  BY <1>1, <1>2, <1>3, <1>4 DEF RowsWritten

(* The handlers of keys, and the callbacks that store a connection, keep    *)
(* the types (byok_routes.py, routers_services.py).                         *)
LEMMA KeysStepTypes ==
    ASSUME SignOnTypes, UNCHANGED oauthVars,
           NEW r \in Req, KeysBegin(r) \/ KeysStep(r) \/ Connect(r)
    PROVE  SignOnTypes' /\ RowsWritten
<1>1. Calls /\ CallTypes /\ StoreTypes /\ RowTypes
  BY SignOnParts
<1>2. StoreTypes' /\ UNCHANGED kind
  BY <1>1 DEF StoreTypes, oauthVars
<1> SUFFICES Calls' /\ CallTypes' /\ RowsWritten
  BY <1>1, <1>2, SignOnParts, RowsWrittenTypes
     DEF SignOnTypes, OAuthTypes, KeysTypes, Calls, CallTypes, CallLabels, StoreTypes, RowTypes
<1> DEFINE Goal == Calls' /\ CallTypes' /\ RowsWritten
           A    == [target : Key \cup {None}, of : Provider, rows : SUBSET Key, primary : SUBSET Key]
<1>3. InStore = {"peeked", "got"} /\ InKeyTx = {"add", "deleteAll", "found", "setPrimary", "connect"}
  BY DEF InStore, InKeyTx
<1>4. /\ InKeyTx \subseteq CallLabels
      /\ \A to \in InKeyTx, a \in A : Inside(to, a) /\ Typed(to, a)
  BY <1>3 DEF CallLabels, Inside, Typed
<1>5. \A p \in Provider : Of(p) \in SUBSET Key
  BY DEF Of
<1>6. \A k \in Rows : k \in Key /\ provider[k] \in Provider
  BY <1>1 DEF Rows, RowTypes
<1>7. \A k \in Key \cup {None}, p \in Provider, rows \in SUBSET Key, prim \in SUBSET Key :
         Read(k, p, rows, prim) \in A
  BY DEF Read
<1>8. primary \in SUBSET Key
  BY <1>1 DEF RowTypes, Rows
<1>9. pc[r] \in InKeyTx => r \in conn /\ arg[r] \in A
  BY <1>1 DEF Calls, CallTypes
<1>10. ASSUME Answer(r), RowsWritten PROVE Goal
  BY <1>1, <1>2, <1>10, CallAnswers
<1>11. ASSUME NEW to \in InKeyTx, NEW a \in A, Goto(r, to, a), conn' = conn \cup {r}, UNCHANGED keyVars
       PROVE  Goal
  <2>1. Inside(to, a) /\ Typed(to, a) /\ to \in CallLabels
    BY <1>4
  <2>2. QED
    BY <1>1, <1>2, <1>11, <2>1, CallStep DEF RowsWritten
<1>12. CASE KeysBegin(r)
  <2>1. ASSUME NEW p \in Provider, AddRead(r, p) \/ DeleteAllRead(r, p) PROVE Goal
    <3>1. Read(None, p, Of(p), {}) \in A
      BY <1>5, <1>7
    <3>2. QED
      BY <1>3, <1>11, <2>1, <3>1 DEF AddRead, DeleteAllRead, Start, Checkout
  <2>2. ASSUME NEW k \in Key, DeleteKey(r, k) PROVE Goal
    <3>1. UNCHANGED <<pc, arg, conn>> /\ Delete({k})
      BY <2>2 DEF DeleteKey, AtOnce, OneShot
    <3>2. Calls' /\ CallTypes'
      BY <1>1, <1>2, <3>1, CallsStay
    <3>3. QED
      BY <3>1, <3>2 DEF RowsWritten
  <2>3. ASSUME NEW k \in Key, SetPrimaryFind(r, k) PROVE Goal
    <3>1. Read(k, provider[k], {}, primary \cap {k}) \in A
      BY <1>6, <1>7, <1>8, <2>3 DEF SetPrimaryFind
    <3>2. QED
      BY <1>3, <1>11, <2>3, <3>1 DEF SetPrimaryFind, Start, Checkout
  <2>4. QED
    BY <1>12, <2>1, <2>2, <2>3 DEF KeysBegin
<1>13. CASE KeysStep(r)
  <2>1. CASE AddCommit(r)
    <3>1. arg[r].of \in Provider
      BY <1>3, <1>9, <2>1 DEF AddCommit
    <3>2. QED
      BY <1>10, <2>1, <3>1 DEF AddCommit, RowsWritten
  <2>2. CASE DeleteAllCommit(r)
    <3>1. arg[r].rows \in SUBSET Key
      BY <1>3, <1>9, <2>2 DEF DeleteAllCommit
    <3>2. QED
      BY <1>10, <2>2, <3>1 DEF DeleteAllCommit, RowsWritten
  <2>3. CASE SetPrimaryRead(r)
    <3> DEFINE a   == arg[r]
               new == Read(a.target, a.of, Of(a.of),
                           a.primary \cup ((primary \cap Of(a.of)) \ {a.target}))
    <3>1. a \in A /\ r \in conn
      BY <1>3, <1>9, <2>3 DEF SetPrimaryRead
    <3>2. a.primary \cup ((primary \cap Of(a.of)) \ {a.target}) \in SUBSET Key
      BY <1>8, <3>1
    <3>3. new \in A
      BY <1>5, <1>7, <3>1, <3>2
    <3>4. Goto(r, "setPrimary", new) /\ conn' = conn \cup {r} /\ UNCHANGED keyVars
      BY <2>3, <3>1 DEF SetPrimaryRead
    <3>5. QED
      BY <1>3, <1>11, <3>3, <3>4
  <2>4. CASE SetPrimaryCommit(r)
    <3>1. primary' \subseteq Rows
      BY <1>1, <2>4 DEF SetPrimaryCommit, NewPrimary, RowTypes
    <3>2. QED
      BY <1>10, <2>4, <3>1 DEF SetPrimaryCommit, RowsWritten
  <2>5. CASE ConnectCommit(r)
    <3>1. arg[r].of \in Provider
      BY <1>3, <1>9, <2>5 DEF ConnectCommit
    <3>2. QED
      BY <1>10, <2>5, <3>1 DEF ConnectCommit, RowsWritten
  <2>6. CASE ExchangeFails(r) \/ KeysDbError(r)
    BY <1>10, <2>6 DEF ExchangeFails, KeysDbError, RowsWritten
  <2>7. QED
    BY <1>13, <2>1, <2>2, <2>3, <2>4, <2>5, <2>6 DEF KeysStep
<1>14. CASE Connect(r)
  <2>1. PICK p \in Provider : ConnectRead(r, p) \/ ConnectAmbiguous(r, p)
    BY <1>14, ServiceAssumption DEF Connect
  <2>2. CASE ConnectRead(r, p)
    <3>1. conn' = conn \cup {r} /\ UNCHANGED keyVars
      BY <2>2 DEF ConnectRead, Checkout
    <3>2. PICK k \in Key \cup {None} : Goto(r, "connect", Read(k, p, {}, {}))
      BY <2>2 DEF ConnectRead
    <3>3. Read(k, p, {}, {}) \in A
      BY <1>7
    <3>4. QED
      BY <1>3, <1>11, <3>1, <3>2, <3>3
  <2>3. CASE ConnectAmbiguous(r, p)
    BY <1>10, <2>3 DEF ConnectAmbiguous, RowsWritten
  <2>4. QED
    BY <2>1, <2>2, <2>3
<1>15. QED
  BY <1>12, <1>13, <1>14

(* A crash forgets the calls of a process and the states in its memory.     *)
LEMMA CrashTypes ==
    ASSUME SignOnTypes, NEW p \in Proc, Crash(p)
    PROVE  SignOnTypes'
<1>1. Calls /\ CallTypes /\ StoreTypes /\ RowTypes
  BY SignOnParts
<1>2. /\ pc'   = [r \in Req |-> IF ProcOf[r] = p THEN "idle" ELSE pc[r]]
      /\ arg'  = [r \in Req |-> IF ProcOf[r] = p THEN None ELSE arg[r]]
      /\ conn' = conn \ {r \in Req : ProcOf[r] = p}
  BY DEF Crash, Restart
<1>3. "idle" \in CallLabels /\ "idle" \notin InKeyTx /\ "idle" \notin InStore
  BY DEF CallLabels, InKeyTx, InStore
<1>4. Calls'
  BY <1>1, <1>2, <1>3 DEF Calls, OnServiceRoute
<1>5. CallTypes' /\ StoreTypes' /\ RowTypes'
  <2>1. UNCHANGED kind
    BY DEF Crash, ForgetProcess
  <2>2. CallTypes'
    BY <1>1, <1>2, <1>3, <2>1 DEF CallTypes
  <2>3. StoreTypes' /\ RowTypes'
    BY <1>1 DEF Crash, ForgetProcess, StoreTypes, RowTypes, keyVars, Rows
  <2>4. QED
    BY <2>2, <2>3
<1>6. QED
  BY <1>4, <1>5 DEF SignOnTypes, OAuthTypes, KeysTypes, Calls, CallTypes, CallLabels, StoreTypes, RowTypes

(* Every step keeps the types (SignOn).                                     *)
LEMMA SignOnTypesStep == SignOnTypes /\ [SignOnNext]_signOnVars => SignOnTypes'
<1> SUFFICES ASSUME SignOnTypes, [SignOnNext]_signOnVars PROVE SignOnTypes'
  OBVIOUS
<1>1. CASE OAuthNext /\ UNCHANGED keyVars
  BY <1>1, OAuthStepTypes
<1>2. CASE (\E r \in Req : KeysBegin(r) \/ KeysStep(r) \/ Connect(r)) /\ UNCHANGED oauthVars
  BY <1>2, KeysStepTypes
<1>3. CASE \E p \in Proc : Crash(p)
  BY <1>3, CrashTypes
<1>4. CASE UNCHANGED signOnVars
  BY <1>4 DEF signOnVars, oauthVars, keyVars, reqVars, SignOnTypes, OAuthTypes, KeysTypes, Rows,
              OnServiceRoute
<1>5. QED
  BY <1>1, <1>2, <1>3, <1>4 DEF SignOnNext

(* The processes start without states, keys and requests.                   *)
LEMMA SignOnTypesInit == SignOnInit => SignOnTypes
<1> SUFFICES ASSUME SignOnInit PROVE SignOnTypes
  OBVIOUS
<1>1. DOMAIN arg = Req /\ pc \in [Req -> CallLabels] /\ conn = {} /\ \A r \in Req : pc[r] = "idle"
  BY DEF SignOnInit, HandlersInit, CallLabels
<1>2. "idle" \notin InStore /\ "idle" \notin InKeyTx
  BY DEF InStore, InKeyTx
<1>3. Calls /\ CallTypes
  BY <1>1, <1>2 DEF Calls, CallTypes, OnServiceRoute
<1>4. StoreTypes
  BY DEF SignOnInit, OAuthInit, StoreTypes
<1>5. RowTypes
  BY DEF SignOnInit, KeysInit, RowTypes, Rows
<1>6. QED
  BY <1>3, <1>4, <1>5, SignOnParts

(* States, keys and calls have their types, and a call holds a connection   *)
(* exactly inside its transactions, the service routes while they wait for  *)
(* the provider too (routers_services.py, google_service_callback).         *)
THEOREM SignOnTypesAlways == SignOnSpec => []SignOnTypes
BY SignOnTypesInit, SignOnTypesStep, PTL DEF SignOnSpec

-----------------------------------------------------------------------------
(* Sign-on: a state is used once.                                           *)

Nowhere(s) == s \notin redis /\ \A p \in Proc : s \notin mem[p]

\* State s is kept nowhere after a step.
NowhereNext(s) == s \notin redis' /\ \A p \in Proc : s \notin mem'[p]

\* Only process p can find s, or with Redis others that use it too.
OnlyWith(p, s) ==
    /\ s \in redis => backend[p] = "redis"
    /\ \A q \in Proc : s \in mem[q] => q = p /\ backend[p] = "memory"

\* Where a state is kept, and that it is kept nowhere once it was used.
KeptOnce ==
    /\ \A s \in State : kind[s] = None => Nowhere(s) /\ \A p \in Proc : accepted[s][p] = 0
    /\ \A s \in State, p \in Proc : accepted[s][p] # 0 => accepted[s][p] = 1 /\ Nowhere(s)
    /\ \A p \in Proc : backend[p] # "memory" => mem[p] = {}
    /\ \A s \in redis, p \in Proc : s \notin mem[p]
    /\ \A p, q \in Proc : \A s \in mem[p] \cap mem[q] : p = q

\* A callback inside its calls to the store: alone in its process, which has
\* not used the state before, and whose place is the only one to find it in.
StoreCalls ==
    /\ \A r \in Req : pc[r] \in InStore =>
          /\ backend[ProcOf[r]] # "untried"
          /\ OnlyWith(ProcOf[r], arg[r].state)
          /\ accepted[arg[r].state][ProcOf[r]] = 0
    /\ \A r, t \in Req :
          pc[r] \in InStore /\ pc[t] \in InStore /\ ProcOf[r] = ProcOf[t] => r = t

(* A step that takes states away, or none, and accepts none.                *)
LEMMA NoneAccepted ==
    ASSUME SignOnTypes, KeptOnce, StoreCalls, UNCHANGED <<accepted, kind, backend>>,
           redis' \subseteq redis, \A p \in Proc : mem'[p] \subseteq mem[p],
           \A r \in Req : pc'[r] \in InStore =>
              pc[r] \in InStore /\ arg'[r].state = arg[r].state
    PROVE  KeptOnce' /\ StoreCalls'
<1>1. KeptOnce'
  BY DEF KeptOnce, Nowhere
<1>2. \A r \in Req : pc[r] \in InStore => ProcOf[r] \in Proc
  BY ProcAssumption
<1>3. StoreCalls'
  BY <1>2 DEF StoreCalls, OnlyWith
<1>4. QED
  BY <1>1, <1>3

(* The process of r goes on with s, which is nowhere afterwards.            *)
LEMMA OneAccepted ==
    ASSUME SignOnTypes, KeptOnce, StoreCalls, UNCHANGED <<kind, backend>>,
           NEW r \in Req, pc[r] \in InStore, Accept(ProcOf[r], arg[r].state),
           NowhereNext(arg[r].state), redis' \subseteq redis, \A p \in Proc : mem'[p] \subseteq mem[p],
           pc'[r] \notin InStore, \A t \in Req \ {r} : pc'[t] = pc[t] /\ arg'[t] = arg[t]
    PROVE  KeptOnce' /\ StoreCalls'
<1> DEFINE s == arg[r].state
           p == ProcOf[r]
<1>1. StoreTypes /\ p \in Proc /\ s \in State /\ kind[s] # None
  BY SignOnParts, ProcAssumption DEF CallTypes
<1>2. /\ accepted'[s][p] = accepted[s][p] + 1
      /\ \A t \in State, q \in Proc : <<t, q>> # <<s, p>> => accepted'[t][q] = accepted[t][q]
  BY <1>1, AcceptFacts
<1>3. accepted[s][p] = 0
  BY DEF StoreCalls
<1>4. KeptOnce'
  <2>1. \A t \in State : kind'[t] = None => Nowhere(t)' /\ \A q \in Proc : accepted'[t][q] = 0
    BY <1>1, <1>2 DEF KeptOnce, Nowhere
  <2>2. \A t \in State, q \in Proc : accepted'[t][q] # 0 => accepted'[t][q] = 1 /\ Nowhere(t)'
    <3>1. ASSUME NEW t \in State, NEW q \in Proc, accepted'[t][q] # 0, <<t, q>> # <<s, p>>
          PROVE  accepted'[t][q] = 1 /\ NowhereNext(t)
      BY <1>2, <3>1 DEF KeptOnce, Nowhere, NowhereNext
    <3>2. accepted'[s][p] = 1 /\ NowhereNext(s)
      BY <1>2, <1>3
    <3>3. QED
      BY <3>1, <3>2 DEF NowhereNext, Nowhere
  <2>3. QED
    BY <2>1, <2>2 DEF KeptOnce
<1>5. StoreCalls'
  <2>1. ASSUME NEW t \in Req, pc'[t] \in InStore
        PROVE  /\ backend'[ProcOf[t]] # "untried"
               /\ OnlyWith(ProcOf[t], arg[t].state)'
               /\ accepted'[arg'[t].state][ProcOf[t]] = 0
               /\ t # r /\ arg'[t] = arg[t] /\ pc[t] \in InStore
    <3>1. t # r /\ pc[t] \in InStore /\ arg'[t] = arg[t]
      BY <2>1
    <3>2. ProcOf[t] \in Proc /\ arg[t].state \in State /\ ProcOf[t] # p
      BY <3>1, SignOnParts, ProcAssumption DEF CallTypes, StoreCalls
    <3>3. QED
      BY <1>2, <3>1, <3>2 DEF StoreCalls, OnlyWith
  <2>2. QED
    BY <2>1 DEF StoreCalls
<1>6. QED
  BY <1>4, <1>5

(* The states and the callbacks (oauth.py, oauth_redis.py).                 *)
LEMMA OAuthStepKeepsOnce ==
    ASSUME SignOnTypes, KeptOnce, StoreCalls, OAuthNext
    PROVE  KeptOnce' /\ StoreCalls'
<1>1. Calls /\ CallTypes /\ StoreTypes
  BY SignOnParts
<1>2. InStore = {"peeked", "got"}
  BY DEF InStore
<1> DEFINE Goal == KeptOnce' /\ StoreCalls'
<1>3. ASSUME NEW p \in Proc, ChooseBackend(p) PROVE Goal
  <2>1. /\ backend[p] = "untried" /\ mem[p] = {}
        /\ \A q \in Proc \ {p} : backend'[q] = backend[q]
        /\ UNCHANGED <<redis, mem, kind, accepted, pc, arg>>
    BY <1>3, <1>1 DEF ChooseBackend, reqVars, KeptOnce, StoreTypes
  <2>2. KeptOnce'
    BY <2>1 DEF KeptOnce, Nowhere
  <2>3. \A r \in Req : pc[r] \in InStore => ProcOf[r] \in Proc \ {p}
    BY <2>1, ProcAssumption DEF StoreCalls
  <2>4. QED
    BY <2>1, <2>2, <2>3 DEF StoreCalls, OnlyWith
<1>4. ASSUME NEW p \in Proc, NEW s \in State, NEW what \in Service \cup {"login"}, Generate(p, s, what)
      PROVE  Goal
  <2>1. /\ backend[p] # "untried" /\ kind[s] = None /\ what # None
        /\ kind' = [kind EXCEPT ![s] = what]
        /\ UNCHANGED <<backend, accepted, pc, arg>>
    BY <1>4, ServiceAssumption DEF Generate, reqVars
  <2>2. Nowhere(s) /\ \A q \in Proc : accepted[s][q] = 0
    BY <2>1 DEF KeptOnce
  <2>3. CASE redis' = redis \cup {s} /\ mem' = mem /\ backend[p] = "redis"
    <3>1. KeptOnce'
      BY <1>1, <2>1, <2>2, <2>3 DEF KeptOnce, Nowhere, StoreTypes
    <3>2. \A r \in Req : pc[r] \in InStore => arg[r].state # s
      BY <1>1, <2>1 DEF CallTypes
    <3>3. QED
      BY <2>1, <2>3, <3>1, <3>2 DEF StoreCalls, OnlyWith
  <2>4. CASE redis' = redis /\ mem' = [mem EXCEPT ![p] = @ \cup {s}] /\ backend[p] = "memory"
    <3>1. \A q \in Proc : mem'[q] = IF q = p THEN mem[q] \cup {s} ELSE mem[q]
      BY <1>1, <2>4 DEF StoreTypes
    <3>2. KeptOnce'
      BY <1>1, <2>1, <2>2, <2>4, <3>1 DEF KeptOnce, Nowhere, StoreTypes
    <3>3. \A r \in Req : pc[r] \in InStore => arg[r].state # s
      BY <1>1, <2>1 DEF CallTypes
    <3>4. QED
      BY <2>1, <2>4, <3>1, <3>2, <3>3 DEF StoreCalls, OnlyWith
  <2>5. QED
    BY <1>1, <1>4, <2>1, <2>3, <2>4 DEF Generate, StoreTypes
<1>5. ASSUME NEW r \in Req, NEW s \in State,
             PathCallback(r, s) \/ CompatCallback(r, s) \/ ServiceCallback(r, s)
      PROVE  Goal
  <2> DEFINE p == ProcOf[r]
  <2>1. ~Busy(p) /\ kind[s] # None /\ Holds(p, s) /\ UNCHANGED oauthVars /\ p \in Proc
    BY <1>5, ProcAssumption DEF PathCallback, CompatCallback, ServiceCallback, Callback
  <2>2. /\ pc'[r] \in InStore /\ arg'[r].state = s
        /\ \A t \in Req \ {r} : pc'[t] = pc[t] /\ arg'[t] = arg[t]
    BY <1>1, <1>2, <1>5
       DEF PathCallback, CompatCallback, ServiceCallback, Goto, At, Calls
  <2>3. backend[p] # "untried" /\ OnlyWith(p, s) /\ accepted[s][p] = 0
    BY <1>1, <2>1 DEF Holds, KeptOnce, Nowhere, OnlyWith, StoreTypes
  <2>4. \A t \in Req : pc[t] \in InStore => ProcOf[t] # p
    BY <2>1 DEF Busy
  <2>5. KeptOnce'
    BY <2>1 DEF oauthVars, KeptOnce, Nowhere
  <2>6. StoreCalls'
    BY <2>1, <2>2, <2>3, <2>4 DEF oauthVars, StoreCalls, OnlyWith
  <2>7. QED
    BY <2>5, <2>6
<1>6. ASSUME NEW r \in Req, OAuthStep(r)
      PROVE  Goal
  <2> DEFINE s == arg[r].state
             p == ProcOf[r]
  <2>1. /\ pc[r] \in InStore /\ s \in State /\ p \in Proc /\ UNCHANGED <<kind, backend>>
        /\ backend[p] \in {"redis", "memory"} /\ OnlyWith(p, s)
    BY <1>1, <1>2, <1>6, ProcAssumption
       DEF CallTypes, OAuthStep, ValidateRead, ValidateConsume, RedisError, StoreCalls, StoreTypes
  <2>2. PICK to \in {"idle", "got", "exchange"}, a \in {None, arg[r]} :
           Goto(r, to, a) /\ (to = "got" => a = arg[r])
    BY <1>6 DEF OAuthStep, ValidateRead, ValidateConsume, RedisError, Answer
  <2>3. /\ pc'[r] = to /\ arg'[r] = a
        /\ \A t \in Req \ {r} : pc'[t] = pc[t] /\ arg'[t] = arg[t]
    BY <1>1, <2>2 DEF Goto, Calls
  <2>4. redis' \subseteq redis /\ \A q \in Proc : mem'[q] \subseteq mem[q]
    <3>1. UNCHANGED <<redis, mem>> \/ Forget(p, s)
      BY <1>6 DEF OAuthStep, ValidateRead, ValidateConsume, RedisError
    <3>2. QED
      BY <1>1, <2>1, <3>1, ForgetFacts
  <2>5. CASE UNCHANGED accepted
    <3>1. \A t \in Req : pc'[t] \in InStore => pc[t] \in InStore /\ arg'[t].state = arg[t].state
      BY <1>2, <2>1, <2>2, <2>3
    <3>2. QED
      BY <2>1, <2>4, <2>5, <3>1, NoneAccepted
  <2>6. CASE Accept(p, s) /\ to # "got"
    <3>1. NowhereNext(s)
      <4>1. CASE ValidateRead(r)
        <5>1. UNCHANGED <<redis, mem>> /\ ~Holds(p, s)
          <6>1. Holds(p, s) => pc'[r] = "got" \/ UNCHANGED accepted
            BY <1>1, <4>1 DEF ValidateRead, Goto, Calls
          <6>2. accepted' # accepted
            <7>1. accepted'[s][p] = accepted[s][p] + 1 /\ accepted[s][p] \in Nat
              BY <1>1, <2>1, <2>6, AcceptFacts DEF StoreTypes
            <7>2. QED
              BY <7>1
          <6>3. QED
            BY <2>3, <2>6, <4>1, <6>1, <6>2 DEF ValidateRead
        <5>2. QED
          BY <2>1, <5>1 DEF Holds, OnlyWith, NowhereNext
      <4>2. CASE ValidateConsume(r)
        <5>1. Forget(p, s)
          BY <4>2 DEF ValidateConsume
        <5>2. /\ redis' \subseteq redis /\ \A q \in Proc : mem'[q] \subseteq mem[q]
              /\ backend[p] = "redis" => s \notin redis'
              /\ backend[p] = "memory" => s \notin mem'[p]
          BY <1>1, <2>1, <5>1, ForgetFacts
        <5>3. QED
          BY <2>1, <5>2 DEF OnlyWith, NowhereNext
      <4>3. CASE RedisError(r)
        <5>1. accepted'[s][p] = accepted[s][p] + 1 /\ accepted[s][p] \in Nat
          BY <1>1, <2>1, <2>6, AcceptFacts DEF StoreTypes
        <5>2. QED
          BY <4>3, <5>1 DEF RedisError
      <4>4. QED
        BY <1>6, <4>1, <4>2, <4>3 DEF OAuthStep
    <3>2. pc'[r] \notin InStore
      BY <1>2, <2>3, <2>6
    <3>3. QED
      BY <2>1, <2>3, <2>4, <2>6, <3>1, <3>2, OneAccepted
  <2>7. QED
    <3>1. to = "got" => UNCHANGED accepted
      BY <1>1, <1>6, <2>3
         DEF OAuthStep, ValidateRead, ValidateConsume, RedisError, Answer, Goto, Calls
    <3>2. UNCHANGED accepted \/ Accept(p, s)
      BY <1>6 DEF OAuthStep, ValidateRead, ValidateConsume, RedisError
    <3>3. QED
      BY <2>5, <2>6, <3>1, <3>2
<1>7. CASE \E s \in State : Age(s) \/ RedisExpire(s)
  BY <1>7, NoneAccepted DEF Age, RedisExpire, reqVars
<1>8. CASE \E p \in Proc, s \in State :
             InitiateLogin(p, s) \/ \E service \in Service : InitiateService(p, s, service)
  BY <1>4, <1>8 DEF InitiateLogin, InitiateService
<1>9. QED
  BY <1>3, <1>5, <1>6, <1>7, <1>8 DEF OAuthNext

(* Neither the keys nor a crash bring a state back (SignOn).                *)
LEMMA OnceStep ==
    ASSUME SignOnTypes, KeptOnce, StoreCalls, [SignOnNext]_signOnVars
    PROVE  KeptOnce' /\ StoreCalls'
<1>1. CASE OAuthNext
  BY <1>1, OAuthStepKeepsOnce
<1>2. ASSUME NEW r \in Req, KeysBegin(r) \/ KeysStep(r) \/ Connect(r), UNCHANGED oauthVars
      PROVE  KeptOnce' /\ StoreCalls'
  <2>1. \/ UNCHANGED <<pc, arg>>
        \/ \E to \in InKeyTx \cup {"idle"} : \E a : Goto(r, to, a)
    BY <1>2
       DEF KeysBegin, KeysStep, Connect, AddRead, DeleteAllRead, DeleteKey, SetPrimaryFind, AddCommit,
           DeleteAllCommit, SetPrimaryRead, SetPrimaryCommit, ConnectCommit, ExchangeFails,
           KeysDbError, ConnectRead, ConnectAmbiguous, Answer, Start, AtOnce, InKeyTx
  <2>2. \A to \in InKeyTx \cup {"idle"} : to \notin InStore
    BY DEF InKeyTx, InStore
  <2>3. \A t \in Req : pc'[t] \in InStore => pc[t] \in InStore /\ arg'[t].state = arg[t].state
    BY <2>1, <2>2, SignOnParts DEF Goto, Calls
  <2>4. QED
    BY <1>2, <2>3, NoneAccepted DEF oauthVars
<1>3. ASSUME NEW p \in Proc, Crash(p)
      PROVE  KeptOnce' /\ StoreCalls'
  <2>1. /\ \A q \in Proc : backend'[q] = IF q = p THEN "untried" ELSE backend[q]
        /\ \A q \in Proc : mem'[q] = IF q = p THEN {} ELSE mem[q]
        /\ UNCHANGED <<redis, kind, accepted>>
    BY <1>3, SignOnParts DEF Crash, ForgetProcess, StoreTypes
  <2>2. \A r \in Req : pc'[r] \in InStore =>
           ProcOf[r] # p /\ pc[r] \in InStore /\ arg'[r] = arg[r] /\ ProcOf[r] \in Proc
    BY <1>3, ProcAssumption DEF Crash, Restart, InStore
  <2>3. KeptOnce'
    BY <2>1 DEF KeptOnce, Nowhere
  <2>4. QED
    BY <2>1, <2>2, <2>3 DEF StoreCalls, OnlyWith
<1>4. CASE UNCHANGED signOnVars
  BY <1>4, NoneAccepted DEF signOnVars, oauthVars, reqVars
<1>5. QED
  BY <1>1, <1>2, <1>3, <1>4 DEF SignOnNext

(* A state is kept in one place and taken from it before it is used         *)
(* (validate_oauth_state, oauth_redis.py).                                  *)
LEMMA UsedOnce == SignOnSpec => [](KeptOnce /\ StoreCalls)
<1>1. SignOnInit => KeptOnce /\ StoreCalls
  BY DEF SignOnInit, HandlersInit, OAuthInit, KeptOnce, StoreCalls, Nowhere, InStore
<1>2. SignOnTypes /\ KeptOnce /\ StoreCalls /\ [SignOnNext]_signOnVars => KeptOnce' /\ StoreCalls'
  BY OnceStep
<1>3. QED
  BY <1>1, <1>2, SignOnTypesAlways, PTL DEF SignOnSpec

(* A process goes on with a state once at most, whichever callbacks it is   *)
(* sent to (validate_oauth_state, also where its result is ignored).        *)
THEOREM StatesAcceptedOnce == SignOnSpec => []AcceptedOncePerProcess
<1>1. KeptOnce => AcceptedOncePerProcess
  <2> SUFFICES ASSUME KeptOnce, NEW s \in State, NEW p \in Proc PROVE accepted[s][p] <= 1
    BY DEF AcceptedOncePerProcess
  <2>1. accepted[s][p] = 0 \/ accepted[s][p] = 1
    BY DEF KeptOnce
  <2>2. QED
    BY <2>1
<1>2. QED
  BY <1>1, UsedOnce, PTL

(* A state that a process has gone on with is found by none of them         *)
(* (delete_oauth_state).                                                    *)
THEOREM AcceptedStatesAreGone == SignOnSpec => []AcceptedIsGone
<1>1. SignOnTypes /\ KeptOnce => AcceptedIsGone
  <2> SUFFICES ASSUME KeptOnce, NEW s \in State, NEW q \in Proc, accepted[s][q] > 0, NEW p \in Proc
               PROVE  ~Holds(p, s)
    BY DEF AcceptedIsGone
  <2>1. accepted[s][q] # 0
    OBVIOUS
  <2>2. QED
    BY <2>1 DEF KeptOnce, Nowhere, Holds
<1>2. QED
  BY <1>1, UsedOnce, SignOnTypesAlways, PTL

-----------------------------------------------------------------------------
(* Keys on one connection.                                                  *)

\* What the transaction in progress has read is what the table holds.
ReadsCurrent ==
    \A r \in Req :
       LET a == arg[r] IN
       /\ pc[r] = "add" => a.rows = Of(a.of)
       /\ pc[r] = "connect" => (a.target = None => Of(a.of) = {})
       /\ pc[r] \in {"found", "setPrimary"} => a.target \in Of(a.of)
       /\ pc[r] = "found" => a.primary = primary \cap {a.target}
       /\ pc[r] = "setPrimary" => a.rows = Of(a.of) /\ a.primary = primary \cap Of(a.of)

\* A provider has one primary key at most, and one connection.
Ranked ==
    /\ \A p \in Provider : \A j, k \in Of(p) \cap primary : j = k
    /\ OneConnection

SerialKeys == SingleTransaction /\ ReadsCurrent /\ Ranked

\* What PrimaryHandedOver says of a step.
HandedOver ==
    \A k \in primary : k \notin primary' /\ provider'[k] # None =>
       \E j \in primary' : provider'[j] = provider'[k]

(* A transaction begins only when no other is open (AUTH_DB_POOL_SIZE 1).   *)
LEMMA OneAtATime ==
    ASSUME PoolSize = 1, SignOnTypes, SingleTransaction, [SignOnNext]_signOnVars
    PROVE  SingleTransaction'
<1>1. conn \in SUBSET Req
  BY DEF SignOnTypes
<1>2. ASSUME conn' \subseteq conn \/ \E r \in Req : Checkout(r)
      PROVE  SingleTransaction'
  BY <1>1, <1>2, SerialPool DEF Checkout, SingleTransaction
<1>3. CASE OAuthNext
  BY <1>2, <1>3
     DEF OAuthNext, ChooseBackend, InitiateLogin, InitiateService, Generate, PathCallback,
         CompatCallback, ServiceCallback, OAuthStep, ValidateRead, ValidateConsume, RedisError, Age,
         RedisExpire, Answer, Return, reqVars
<1>4. ASSUME NEW r \in Req, KeysBegin(r) \/ KeysStep(r) \/ Connect(r)
      PROVE  SingleTransaction'
  BY <1>2, <1>4
     DEF KeysBegin, KeysStep, Connect, AddRead, DeleteAllRead, DeleteKey, SetPrimaryFind, AddCommit,
         DeleteAllCommit, SetPrimaryRead, SetPrimaryCommit, ConnectCommit, ExchangeFails,
         KeysDbError, ConnectRead, ConnectAmbiguous, Answer, Start, AtOnce, OneShot, Return
<1>5. CASE \E p \in Proc : Crash(p)
  BY <1>2, <1>5 DEF Crash, Restart
<1>6. CASE UNCHANGED signOnVars
  BY <1>2, <1>6 DEF signOnVars, reqVars
<1>7. QED
  BY <1>3, <1>4, <1>5, <1>6 DEF SignOnNext

(* A step that writes no key, and moves no transaction on the keys but r's, *)
(* which reads.                                                             *)
LEMMA ReadStep ==
    ASSUME ReadsCurrent, Ranked, UNCHANGED keyVars,
           NEW S \in SUBSET Req,
           \A t \in Req \ S : pc'[t] \in InKeyTx => pc'[t] = pc[t] /\ arg'[t] = arg[t],
           \A r \in S :
              LET a == arg'[r] IN
              /\ pc'[r] = "add" => a.rows = Of(a.of)
              /\ pc'[r] = "connect" => (a.target = None => Of(a.of) = {})
              /\ pc'[r] \in {"found", "setPrimary"} => a.target \in Of(a.of)
              /\ pc'[r] = "found" => a.primary = primary \cap {a.target}
              /\ pc'[r] = "setPrimary" => a.rows = Of(a.of) /\ a.primary = primary \cap Of(a.of)
    PROVE  ReadsCurrent' /\ Ranked' /\ HandedOver
<1>1. Ranked' /\ HandedOver
  BY DEF Ranked, OneConnection, HandedOver, Of, keyVars
<1>2. \A p : Of(p)' = Of(p)
  BY DEF Of, keyVars
<1>3. ReadsCurrent'
  <2> SUFFICES ASSUME NEW r \in Req
               PROVE  LET a == arg'[r] IN
                      /\ pc'[r] = "add" => a.rows = Of(a.of)
                      /\ pc'[r] = "connect" => (a.target = None => Of(a.of) = {})
                      /\ pc'[r] \in {"found", "setPrimary"} => a.target \in Of(a.of)
                      /\ pc'[r] = "found" => a.primary = primary \cap {a.target}
                      /\ pc'[r] = "setPrimary" => a.rows = Of(a.of) /\ a.primary = primary \cap Of(a.of)
    BY <1>2 DEF ReadsCurrent, keyVars, Of
  <2>1. CASE r \in S
    BY <2>1
  <2>2. CASE r \notin S
    BY <2>2 DEF ReadsCurrent, InKeyTx
  <2>3. QED
    BY <2>1, <2>2
<1>4. QED
  BY <1>1, <1>3

(* A write: it ends the only transaction, or needs a pool without one, so   *)
(* that nothing that was read is left to go stale.                          *)
LEMMA WriteStep ==
    ASSUME SignOnTypes, SingleTransaction, NEW r \in Req,
           \/ pc[r] \in InKeyTx /\ Answer(r)
           \/ conn = {} /\ UNCHANGED <<pc, arg>>
    PROVE  ReadsCurrent'
<1>1. \A t \in Req : pc[t] \in InKeyTx => t \in conn
  BY DEF SignOnTypes
<1>2. \A t \in Req : pc'[t] \notin InKeyTx
  <2>1. CASE pc[r] \in InKeyTx /\ Answer(r)
    <3>1. pc'[r] = "idle" /\ \A t \in Req \ {r} : pc'[t] = pc[t]
      BY <2>1 DEF Answer, Goto, SignOnTypes
    <3>2. \A t \in Req \ {r} : pc[t] \notin InKeyTx
      BY <1>1, <2>1 DEF SingleTransaction
    <3>3. QED
      BY <3>1, <3>2 DEF InKeyTx
  <2>2. CASE conn = {} /\ UNCHANGED <<pc, arg>>
    BY <1>1, <2>2
  <2>3. QED
    BY <2>1, <2>2
<1>3. QED
  BY <1>2 DEF ReadsCurrent, InKeyTx

(* A row is inserted: as the first of its provider if it is ranked, and as  *)
(* its first connection if the user did not add it.                         *)
LEMMA InsertStep ==
    ASSUME RowTypes, Ranked, NEW p \in Provider, NEW prim \in BOOLEAN, NEW hand \in BOOLEAN,
           Insert(p, prim, hand), prim => Of(p) = {}, hand \/ Of(p) = {}
    PROVE  Ranked' /\ HandedOver
<1>1. PICK k \in Key \ used :
        /\ provider' = [provider EXCEPT ![k] = p]
        /\ primary'  = IF prim THEN primary \cup {k} ELSE primary
        /\ used'     = used \cup {k}
        /\ byHand'   = IF hand THEN byHand \cup {k} ELSE byHand
  BY DEF Insert
<1>2. provider[k] = None /\ k \notin primary
  BY <1>1 DEF RowTypes, Rows
<1>3. \A j \in Key : provider'[j] = IF j = k THEN p ELSE provider[j]
  BY <1>1 DEF RowTypes
<1>4. \A q \in Provider, j \in Key : provider'[j] = q <=> IF j = k THEN q = p ELSE provider[j] = q
  BY <1>3
<1>5. ASSUME NEW q \in Provider, NEW i \in Of(q)' \cap primary', NEW j \in Of(q)' \cap primary'
      PROVE  i = j
  <2>1. \A x \in {i, j} : x \in Key /\ IF x = k THEN q = p /\ prim ELSE x \in Of(q) \cap primary
    BY <1>1, <1>2, <1>4, <1>5 DEF Of
  <2>2. q = p /\ prim => Of(q) = {}
    OBVIOUS
  <2>3. QED
    BY <2>1, <2>2 DEF Ranked
<1>6. ASSUME NEW q \in Provider, NEW i \in Of(q)' \ byHand', NEW j \in Of(q)' \ byHand'
      PROVE  i = j
  <2>1. \A x \in {i, j} : x \in Key /\ IF x = k THEN q = p /\ ~hand ELSE x \in Of(q) \ byHand
    BY <1>1, <1>2, <1>4, <1>6 DEF Of
  <2>2. q = p /\ ~hand => Of(q) = {}
    OBVIOUS
  <2>3. QED
    BY <2>1, <2>2 DEF Ranked, OneConnection
<1>7. HandedOver
  BY <1>1 DEF HandedOver
<1>8. QED
  BY <1>5, <1>6, <1>7 DEF Ranked, OneConnection

(* Rows are deleted: nothing is ranked, or connected, that was not.         *)
LEMMA DeleteStep ==
    ASSUME Ranked, RowTypes, NEW S \in SUBSET Key, Delete(S)
    PROVE  Ranked' /\ HandedOver
<1>1. \A k \in Key : provider'[k] = IF k \in S THEN None ELSE provider[k]
  BY DEF Delete
<1>2. \A p \in Provider : Of(p)' \subseteq Of(p)
  BY <1>1, ServiceAssumption DEF Of
<1>3. Ranked'
  BY <1>2 DEF Delete, Ranked, OneConnection
<1>4. HandedOver
  <2> SUFFICES ASSUME NEW k \in primary, k \notin primary', provider'[k] # None
               PROVE  FALSE
    BY DEF HandedOver
  <2>1. k \in S /\ k \in Key
    BY DEF Delete, RowTypes, Rows
  <2>2. QED
    BY <1>1, <2>1
<1>5. QED
  BY <1>3, <1>4

(* One key of a provider gets the rank, and the others lose it              *)
(* (set_primary_api_key).                                                   *)
LEMMA RankStep ==
    ASSUME SignOnTypes, ReadsCurrent, Ranked, NEW r \in Req, SetPrimaryCommit(r)
    PROVE  Ranked' /\ HandedOver
<1> DEFINE a == arg[r]
<1>1. /\ pc[r] = "setPrimary" /\ a.target \in Of(a.of) /\ a.rows = Of(a.of)
      /\ a.primary = primary \cap Of(a.of) /\ UNCHANGED <<provider, used, byHand>>
  BY DEF SetPrimaryCommit, ReadsCurrent
<1>2. a.of \in Provider /\ Of(a.of) \subseteq Rows /\ RowTypes
  BY <1>1, SignOnParts, ServiceAssumption DEF CallTypes, InKeyTx, Of, Rows
<1>3. Changed(a) = {k \in Of(a.of) : (k \in primary) # (k = a.target)}
  BY <1>1 DEF Changed
<1>4. primary' = (primary \ Changed(a)) \cup (Changed(a) \cap {a.target})
  BY <1>2, <1>3 DEF SetPrimaryCommit, NewPrimary
<1>5. /\ a.target \in primary' /\ primary' \cap Of(a.of) = {a.target}
      /\ \A k \in Key \ Of(a.of) : k \in primary' <=> k \in primary
  BY <1>1, <1>3, <1>4
<1>6. \A p : Of(p)' = Of(p)
  BY <1>1 DEF Of
<1>7. \A p \in Provider \ {a.of} : Of(p) \cap Of(a.of) = {} /\ Of(p) \subseteq Key
  BY DEF Of
<1>8. \A p \in Provider : \A j, k \in Of(p)' \cap primary' : j = k
  BY <1>5, <1>6, <1>7 DEF Ranked
<1>9. OneConnection'
  BY <1>1, <1>6 DEF Ranked, OneConnection
<1>10. HandedOver
  <2> SUFFICES ASSUME NEW k \in primary, k \notin primary', provider'[k] # None
               PROVE  \E j \in primary' : provider'[j] = provider'[k]
    BY DEF HandedOver
  <2>1. k \in Of(a.of)
    BY <1>2, <1>5 DEF RowTypes, Rows
  <2>2. provider'[a.target] = a.of /\ provider'[k] = a.of
    BY <1>1, <2>1 DEF Of
  <2>3. QED
    BY <1>5, <2>2
<1>11. QED
  BY <1>8, <1>9, <1>10 DEF Ranked

(* The handlers of keys and the end of a callback, one at a time            *)
(* (byok_routes.py, routers_services.py).                                   *)
LEMMA SerialKeysStep ==
    ASSUME PoolSize = 1, SignOnTypes, SingleTransaction, ReadsCurrent, Ranked,
           NEW r \in Req, KeysBegin(r) \/ KeysStep(r) \/ Connect(r)
    PROVE  ReadsCurrent' /\ Ranked' /\ HandedOver
<1>1. Calls /\ CallTypes /\ RowTypes
  BY SignOnParts
<1> DEFINE Goal == ReadsCurrent' /\ Ranked' /\ HandedOver
<1>2. InKeyTx = {"add", "deleteAll", "found", "setPrimary", "connect"}
  BY DEF InKeyTx
<1>3. pc[r] \in InKeyTx =>
         arg[r] \in [target : Key \cup {None}, of : Provider, rows : SUBSET Key, primary : SUBSET Key]
  BY <1>1 DEF CallTypes
<1>4. ASSUME NEW to, NEW a, Goto(r, to, a), UNCHANGED keyVars,
             /\ to = "add" => a.rows = Of(a.of)
             /\ to = "connect" => (a.target = None => Of(a.of) = {})
             /\ to \in {"found", "setPrimary"} => a.target \in Of(a.of)
             /\ to = "found" => a.primary = primary \cap {a.target}
             /\ to = "setPrimary" => a.rows = Of(a.of) /\ a.primary = primary \cap Of(a.of)
      PROVE  Goal
  <2>1. arg' = [arg EXCEPT ![r] = a] /\ DOMAIN arg = Req
    BY <1>1, <1>4 DEF Goto, Calls
  <2>2. arg'[r] = a /\ \A t \in Req \ {r} : arg'[t] = arg[t]
    BY <2>1
  <2>3. pc'[r] = to /\ \A t \in Req \ {r} : pc'[t] = pc[t]
    BY <1>1, <1>4 DEF Goto, Calls
  <2>4. {r} \in SUBSET Req
        /\ \A t \in Req \ {r} : pc'[t] \in InKeyTx => pc'[t] = pc[t] /\ arg'[t] = arg[t]
    BY <2>2, <2>3
  <2>5. \A t \in {r} :
           LET b == arg'[t] IN
           /\ pc'[t] = "add" => b.rows = Of(b.of)
           /\ pc'[t] = "connect" => (b.target = None => Of(b.of) = {})
           /\ pc'[t] \in {"found", "setPrimary"} => b.target \in Of(b.of)
           /\ pc'[t] = "found" => b.primary = primary \cap {b.target}
           /\ pc'[t] = "setPrimary" => b.rows = Of(b.of) /\ b.primary = primary \cap Of(b.of)
    BY <1>4, <2>2, <2>3
  <2>6. QED
    BY <1>4, <2>4, <2>5, ReadStep
<1>5. ASSUME Answer(r), UNCHANGED keyVars PROVE Goal
  BY <1>4, <1>5 DEF Answer
<1>6. ASSUME pc[r] \in InKeyTx, Answer(r), Ranked', HandedOver PROVE Goal
  BY <1>6, WriteStep
<1>7. CASE KeysBegin(r)
  <2>1. ASSUME NEW p \in Provider, AddRead(r, p) \/ DeleteAllRead(r, p) PROVE Goal
    BY <1>4, <2>1 DEF AddRead, DeleteAllRead, Start, Read
  <2>2. ASSUME NEW k \in Key, DeleteKey(r, k) PROVE Goal
    <3>1. conn = {} /\ UNCHANGED <<pc, arg>> /\ Delete({k})
      BY <2>2, SerialPool DEF DeleteKey, AtOnce, OneShot, SignOnTypes
    <3>2. QED
      BY <1>1, <3>1, WriteStep, DeleteStep
  <2>3. ASSUME NEW k \in Key, SetPrimaryFind(r, k) PROVE Goal
    <3>1. k \in Of(provider[k])
      BY DEF Of
    <3>2. QED
      BY <1>4, <2>3, <3>1 DEF SetPrimaryFind, Start, Read
  <2>4. QED
    BY <1>7, <2>1, <2>2, <2>3 DEF KeysBegin
<1>8. CASE KeysStep(r)
  <2>1. CASE AddCommit(r)
    <3>1. pc[r] = "add" /\ arg[r].rows = Of(arg[r].of) /\ arg[r].of \in Provider
      BY <1>2, <1>3, <2>1 DEF AddCommit, ReadsCurrent
    <3>2. Insert(arg[r].of, arg[r].rows = {}, TRUE)
      BY <2>1 DEF AddCommit
    <3>3. Ranked' /\ HandedOver
      BY <1>1, <3>1, <3>2, InsertStep
    <3>4. QED
      BY <1>2, <1>6, <2>1, <3>3 DEF AddCommit
  <2>2. CASE DeleteAllCommit(r)
    <3>1. arg[r].rows \in SUBSET Key
      BY <1>2, <1>3, <2>2 DEF DeleteAllCommit
    <3>2. QED
      BY <1>1, <1>2, <1>6, <2>2, <3>1, DeleteStep DEF DeleteAllCommit
  <2>3. CASE SetPrimaryRead(r)
    <3> DEFINE a == arg[r]
    <3>1. pc[r] = "found" /\ a.target \in Of(a.of) /\ a.primary = primary \cap {a.target}
      BY <2>3 DEF SetPrimaryRead, ReadsCurrent
    <3>2. a.primary \cup ((primary \cap Of(a.of)) \ {a.target}) = primary \cap Of(a.of)
      BY <3>1
    <3>3. Goto(r, "setPrimary", Read(a.target, a.of, Of(a.of), primary \cap Of(a.of)))
          /\ UNCHANGED keyVars
      BY <2>3, <3>2 DEF SetPrimaryRead
    <3>4. QED
      BY <1>4, <3>1, <3>3 DEF Read
  <2>4. CASE SetPrimaryCommit(r)
    BY <1>2, <1>6, <2>4, RankStep DEF SetPrimaryCommit
  <2>5. CASE ConnectCommit(r)
    <3>1. pc[r] = "connect" /\ arg[r].of \in Provider /\ (arg[r].target = None => Of(arg[r].of) = {})
      BY <1>2, <1>3, <2>5 DEF ConnectCommit, ReadsCurrent
    <3>2. CASE arg[r].target = None
      <4>1. Insert(arg[r].of, FALSE, FALSE)
        BY <2>5, <3>2 DEF ConnectCommit
      <4>2. Ranked' /\ HandedOver
        BY <1>1, <3>1, <3>2, <4>1, InsertStep
      <4>3. QED
        BY <1>2, <1>6, <2>5, <3>1, <4>2 DEF ConnectCommit
    <3>3. CASE arg[r].target # None
      BY <1>5, <2>5, <3>3 DEF ConnectCommit
    <3>4. QED
      BY <3>2, <3>3
  <2>6. CASE ExchangeFails(r) \/ KeysDbError(r)
    BY <1>5, <2>6 DEF ExchangeFails, KeysDbError
  <2>7. QED
    BY <1>8, <2>1, <2>2, <2>3, <2>4, <2>5, <2>6 DEF KeysStep
<1>9. CASE Connect(r)
  <2>1. PICK p \in Provider : ConnectRead(r, p) \/ ConnectAmbiguous(r, p)
    BY <1>9, ServiceAssumption DEF Connect
  <2>2. CASE ConnectRead(r, p)
    <3>1. CASE Of(p) = {} /\ Goto(r, "connect", Read(None, p, {}, {}))
      BY <1>4, <2>2, <3>1 DEF ConnectRead, Read
    <3>2. ASSUME NEW k \in Key, Goto(r, "connect", Read(k, p, {}, {}))
          PROVE  Goal
      BY <1>4, <2>2, <3>2, ServiceAssumption DEF ConnectRead, Read
    <3>3. QED
      BY <2>2, <3>1, <3>2 DEF ConnectRead
  <2>3. CASE ConnectAmbiguous(r, p)
    BY <1>5, <2>3 DEF ConnectAmbiguous
  <2>4. QED
    BY <2>1, <2>2, <2>3
<1>10. QED
  BY <1>7, <1>8, <1>9

(* Every step of sign-on and the keys, on one connection (SignOn).          *)
LEMMA SerialSignOnStep ==
    ASSUME PoolSize = 1, SignOnTypes, SerialKeys, [SignOnNext]_signOnVars
    PROVE  SerialKeys' /\ HandedOver
<1>1. SingleTransaction /\ ReadsCurrent /\ Ranked
  BY DEF SerialKeys
<1>2. SingleTransaction'
  BY <1>1, OneAtATime
<1>3. ASSUME UNCHANGED keyVars,
             \A t \in Req : pc'[t] \in InKeyTx => pc'[t] = pc[t] /\ arg'[t] = arg[t]
      PROVE  ReadsCurrent' /\ Ranked' /\ HandedOver
  <2>1. /\ {} \in SUBSET Req
        /\ \A t \in Req \ {} : pc'[t] \in InKeyTx => pc'[t] = pc[t] /\ arg'[t] = arg[t]
    BY <1>3
  <2>2. \A r \in {} :
           LET a == arg'[r] IN
           /\ pc'[r] = "add" => a.rows = Of(a.of)
           /\ pc'[r] = "connect" => (a.target = None => Of(a.of) = {})
           /\ pc'[r] \in {"found", "setPrimary"} => a.target \in Of(a.of)
           /\ pc'[r] = "found" => a.primary = primary \cap {a.target}
           /\ pc'[r] = "setPrimary" => a.rows = Of(a.of) /\ a.primary = primary \cap Of(a.of)
    OBVIOUS
  <2>3. QED
    BY <1>1, <1>3, <2>1, <2>2, ReadStep
<1>4. CASE OAuthNext /\ UNCHANGED keyVars
  <2>1. \/ UNCHANGED <<pc, arg>>
        \/ \E r \in Req, to \in {"idle", "peeked", "got", "exchange"} : \E a : Goto(r, to, a)
    BY <1>4
       DEF OAuthNext, ChooseBackend, InitiateLogin, InitiateService, Generate, PathCallback,
           CompatCallback, ServiceCallback, OAuthStep, ValidateRead, ValidateConsume, RedisError,
           Age, RedisExpire, Answer, reqVars
  <2>2. \A to \in {"idle", "peeked", "got", "exchange"} : to \notin InKeyTx
    BY DEF InKeyTx
  <2>3. \A t \in Req : pc'[t] \in InKeyTx => pc'[t] = pc[t] /\ arg'[t] = arg[t]
    BY <2>1, <2>2, SignOnParts DEF Goto, Calls
  <2>4. QED
    BY <1>1, <1>2, <1>3, <1>4, <2>3 DEF SerialKeys
<1>5. CASE \E r \in Req : KeysBegin(r) \/ KeysStep(r) \/ Connect(r)
  BY <1>1, <1>2, <1>5, SerialKeysStep DEF SerialKeys
<1>6. CASE \E p \in Proc : Crash(p)
  <2>1. UNCHANGED keyVars
        /\ \A t \in Req : pc'[t] \in InKeyTx => pc'[t] = pc[t] /\ arg'[t] = arg[t]
    BY <1>6 DEF Crash, Restart, InKeyTx
  <2>2. QED
    BY <1>1, <1>2, <1>3, <2>1 DEF SerialKeys
<1>7. CASE UNCHANGED signOnVars
  BY <1>1, <1>2, <1>3, <1>7 DEF SerialKeys, signOnVars, reqVars
<1>8. QED
  BY <1>4, <1>5, <1>6, <1>7 DEF SignOnNext

(* With one connection, what a transaction on the keys has read is what the *)
(* table holds until it ends (app/db.py).                                   *)
LEMMA SerialKeysAlways == PoolSize = 1 /\ SignOnSpec => []SerialKeys
<1>1. SignOnInit => SerialKeys
  BY ServiceAssumption
     DEF SignOnInit, HandlersInit, KeysInit, SerialKeys, SingleTransaction, ReadsCurrent, Ranked,
         OneConnection, Of
<1>2. PoolSize = 1 /\ SignOnTypes /\ SerialKeys /\ [SignOnNext]_signOnVars => SerialKeys'
  BY SerialSignOnStep
<1>3. CASE PoolSize = 1
  BY <1>1, <1>2, <1>3, SignOnTypesAlways, PTL DEF SignOnSpec
<1>4. QED
  BY <1>3

(* The key that services are given first is a definite one, with the        *)
(* default pool (add_user_api_key, set_primary_api_key).                    *)
THEOREM SerialOnePrimary == PoolSize = 1 /\ SignOnSpec => []OnePrimary
<1>1. SerialKeys => OnePrimary
  BY DEF SerialKeys, Ranked, OnePrimary, FirstServed
<1>2. QED
  BY <1>1, SerialKeysAlways, PTL

(* A service has one connection at most, with the default pool, whichever   *)
(* callbacks made it (google_service_callback,                              *)
(* oauth_callback_compatibility).                                           *)
THEOREM SerialOneConnection == PoolSize = 1 /\ SignOnSpec => []OneConnection
<1>1. SerialKeys => OneConnection
  BY DEF SerialKeys, Ranked
<1>2. QED
  BY <1>1, SerialKeysAlways, PTL

(* A key that stays loses its rank only to another of its provider, with    *)
(* the default pool (set_primary_api_key, delete_user_api_key).             *)
THEOREM SerialPrimaryHandedOver == PoolSize = 1 /\ SignOnSpec => PrimaryHandedOver
<1>1. PoolSize = 1 /\ SignOnTypes /\ SerialKeys /\ [SignOnNext]_signOnVars => [HandedOver]_keyVars
  BY SerialSignOnStep
<1>2. PrimaryHandedOver <=> [][HandedOver]_keyVars
  BY PTL DEF PrimaryHandedOver, HandedOver
<1>3. CASE PoolSize = 1
  BY <1>1, <1>2, <1>3, SerialKeysAlways, SignOnTypesAlways, PTL DEF SignOnSpec
<1>4. QED
  BY <1>3

-----------------------------------------------------------------------------
(* The connections of a service, for every pool.                            *)

\* The callbacks that found no connection of service p and will insert one.
Connecting(p) == {r \in Req : pc[r] = "connect" /\ arg[r].target = None /\ arg[r].of = p}

Connections(p) == Of(p) \ byHand

\* Those there are and those to come are within the pool: when the first of a
\* provider's callbacks begins there are none, and each holds a connection
\* until it has inserted its row.
ConnectionInv ==
    /\ PoolBounded
    /\ \A p \in Provider :
          /\ IsFiniteSet(Connections(p))
          /\ Cardinality(Connections(p)) + Cardinality(Connecting(p)) <= PoolSize

(* A process that dies loses several connections at once, every other step  *)
(* takes one or gives one back (app/db.py).                                 *)
LEMMA SignOnPoolStep ==
    ASSUME SignOnTypes, PoolBounded, [SignOnNext]_signOnVars
    PROVE  PoolBounded'
<1>1. ASSUME conn' \subseteq conn \/ \E r \in Req : Checkout(r)
      PROVE  PoolBounded'
  <2>1. CASE conn' \subseteq conn
    <3>1. Cardinality(conn') <= PoolSize
      BY <2>1, WithinPool DEF PoolBounded
    <3>2. QED
      BY <2>1, <3>1 DEF PoolBounded
  <2>2. CASE \E r \in Req : Checkout(r)
    BY <2>2, PoolStep
  <2>3. QED
    BY <1>1, <2>1, <2>2
<1>2. CASE OAuthNext
  BY <1>1, <1>2
     DEF OAuthNext, ChooseBackend, InitiateLogin, InitiateService, Generate, PathCallback,
         CompatCallback, ServiceCallback, OAuthStep, ValidateRead, ValidateConsume, RedisError, Age,
         RedisExpire, Answer, Return, reqVars
<1>3. ASSUME NEW r \in Req, KeysBegin(r) \/ KeysStep(r) \/ Connect(r)
      PROVE  PoolBounded'
  BY <1>1, <1>3
     DEF KeysBegin, KeysStep, Connect, AddRead, DeleteAllRead, DeleteKey, SetPrimaryFind, AddCommit,
         DeleteAllCommit, SetPrimaryRead, SetPrimaryCommit, ConnectCommit, ExchangeFails,
         KeysDbError, ConnectRead, ConnectAmbiguous, Answer, Start, AtOnce, OneShot, Return
<1>4. CASE \E p \in Proc : Crash(p)
  BY <1>1, <1>4 DEF Crash, Restart
<1>5. CASE UNCHANGED signOnVars
  BY <1>1, <1>5 DEF signOnVars, reqVars
<1>6. QED
  BY <1>2, <1>3, <1>4, <1>5 DEF SignOnNext

(* A step that adds neither a connection nor a callback about to insert one *)
(* (deletions, failures, restarts, everything about other keys).            *)
LEMMA FewerConnections ==
    ASSUME ConnectionInv, PoolBounded', NEW p \in Provider,
           Connections(p)' \subseteq Connections(p),
           Connecting(p)' \subseteq Connecting(p)
    PROVE  IsFiniteSet(Connections(p))'
           /\ (Cardinality(Connections(p)) + Cardinality(Connecting(p)) <= PoolSize)'
<1> DEFINE S == Connections(p)
           W == Connecting(p)
           T == Connections(p)'
           V == Connecting(p)'
<1>1. IsFiniteSet(S) /\ Cardinality(S) \in Nat /\ Cardinality(S) + Cardinality(W) <= PoolSize
  BY FS_CardinalityType DEF ConnectionInv
<1>2. IsFiniteSet(W) /\ Cardinality(W) \in Nat
  BY PoolAssumption, FS_Subset, FS_CardinalityType DEF Connecting
<1>3. IsFiniteSet(T) /\ Cardinality(T) \in Nat /\ Cardinality(T) <= Cardinality(S)
  BY <1>1, FS_Subset, FS_CardinalityType
<1>4. Cardinality(V) \in Nat /\ Cardinality(V) <= Cardinality(W)
  BY <1>2, FS_Subset, FS_CardinalityType
<1>5. IsFiniteSet(T) /\ Cardinality(T) + Cardinality(V) <= PoolSize
  <2> HIDE DEF S, W, T, V
  <2>1. QED
    BY <1>1, <1>2, <1>3, <1>4, PoolAssumption
<1>6. QED
  BY <1>5

(* A step that leaves the keys alone and takes r to another place: unless r *)
(* has found no connection there is nothing new to count, and if it has,    *)
(* there is nothing but the callbacks in the pool (ConnectRead, AddRead).   *)
LEMMA ConnectionsRead ==
    ASSUME SignOnTypes, SignOnTypes', ConnectionInv, PoolBounded', UNCHANGED keyVars,
           NEW r \in Req, NEW to, NEW a, Goto(r, to, a),
           to = "connect" => (a.target = None => Of(a.of) = {})
    PROVE  ConnectionInv'
<1>1. pc'[r] = to /\ \A t \in Req \ {r} : pc'[t] = pc[t]
  BY SignOnParts DEF Goto, Calls
<1>2. arg'[r] = a /\ \A t \in Req \ {r} : arg'[t] = arg[t]
  BY SignOnParts DEF Goto, Calls
<1>3. \A p : Connections(p)' = Connections(p)
  BY DEF Connections, Of, keyVars
<1> SUFFICES ASSUME NEW p \in Provider
             PROVE  IsFiniteSet(Connections(p))'
                    /\ (Cardinality(Connections(p)) + Cardinality(Connecting(p)) <= PoolSize)'
  BY DEF ConnectionInv
<1>4. CASE to = "connect" /\ a.target = None /\ a.of = p
  <2>1. Connections(p)' = {}
    BY <1>3, <1>4 DEF Connections
  <2>2. conn' \in SUBSET Req /\ Cardinality(conn') <= PoolSize
    BY DEF PoolBounded
  <2>3. Connecting(p)' \in SUBSET conn'
    BY DEF Connecting, SignOnTypes, InKeyTx
  <2>4. Cardinality(Connecting(p)') \in Nat /\ Cardinality(Connecting(p)') <= PoolSize
    BY <2>2, <2>3, WithinPool
  <2>5. IsFiniteSet({}) /\ Cardinality({}) = 0
    BY FS_EmptySet
  <2>6. QED
    BY <2>1, <2>4, <2>5, PoolAssumption
<1>5. CASE ~(to = "connect" /\ a.target = None /\ a.of = p)
  <2>1. Connecting(p)' \subseteq Connecting(p)
    BY <1>1, <1>2, <1>5 DEF Connecting
  <2>2. QED
    BY <1>3, <2>1, FewerConnections
<1>6. QED
  BY <1>4, <1>5

(* A transaction that ends having made no connection (AddCommit, the        *)
(* deletions, SetPrimaryCommit).                                            *)
LEMMA ConnectionsKept ==
    ASSUME SignOnTypes, ConnectionInv, PoolBounded', NEW r \in Req,
           Answer(r) \/ UNCHANGED <<pc, arg>>,
           \A p \in Provider : Connections(p)' \subseteq Connections(p)
    PROVE  ConnectionInv'
<1>1. \A p : Connecting(p)' \subseteq Connecting(p)
  <2>1. CASE Answer(r)
    <3>1. pc'[r] = "idle" /\ \A t \in Req \ {r} : pc'[t] = pc[t] /\ arg'[t] = arg[t]
      BY <2>1, SignOnParts DEF Answer, Goto, Calls
    <3>2. QED
      BY <3>1 DEF Connecting
  <2>2. CASE UNCHANGED <<pc, arg>>
    BY <2>2 DEF Connecting
  <2>3. QED
    BY <2>1, <2>2
<1>2. QED
  BY <1>1, FewerConnections DEF ConnectionInv

(* A callback inserts the connection it did not find (ConnectCommit): one   *)
(* more there is, one fewer to come.                                        *)
LEMMA ConnectionMade ==
    ASSUME SignOnTypes, ConnectionInv, PoolBounded', NEW r \in Req,
           pc[r] = "connect", arg[r].target = None, arg[r].of \in Provider,
           Insert(arg[r].of, FALSE, FALSE), Answer(r)
    PROVE  ConnectionInv'
<1>1. PICK q \in Provider : q = arg[r].of
  OBVIOUS
<1>2. PICK k \in Key \ used : provider' = [provider EXCEPT ![k] = q] /\ byHand' = byHand
  BY <1>1 DEF Insert
<1>3. RowTypes
  BY SignOnParts
<1>4. \A j \in Key : provider'[j] = IF j = k THEN q ELSE provider[j]
  BY <1>2, <1>3 DEF RowTypes
<1>5. pc'[r] = "idle" /\ \A t \in Req \ {r} : pc'[t] = pc[t] /\ arg'[t] = arg[t]
  BY SignOnParts DEF Answer, Goto, Calls
<1> SUFFICES ASSUME NEW p \in Provider
             PROVE  IsFiniteSet(Connections(p))'
                    /\ (Cardinality(Connections(p)) + Cardinality(Connecting(p)) <= PoolSize)'
  BY DEF ConnectionInv
<1>6. CASE p = q
  <2> DEFINE S == Connections(q)
             W == Connecting(q)
             T == Connections(q)'
             V == Connecting(q)'
  <2>1. T \subseteq S \cup {k} /\ V \subseteq W \ {r} /\ r \in W
    BY <1>1, <1>2, <1>4, <1>5 DEF Connections, Of, Connecting
  <2>2. IsFiniteSet(S) /\ Cardinality(S) \in Nat /\ Cardinality(S) + Cardinality(W) <= PoolSize
    BY FS_CardinalityType DEF ConnectionInv
  <2>3. IsFiniteSet(W) /\ Cardinality(W) \in Nat
    BY PoolAssumption, FS_Subset, FS_CardinalityType DEF Connecting
  <2>4. /\ IsFiniteSet(S \cup {k}) /\ Cardinality(S \cup {k}) \in Nat
        /\ Cardinality(S \cup {k}) <= Cardinality(S) + 1
    <3>1. IsFiniteSet(S \cup {k})
          /\ Cardinality(S \cup {k}) = IF k \in S THEN Cardinality(S) ELSE Cardinality(S) + 1
      BY <2>2, FS_AddElement
    <3> HIDE DEF S
    <3>2. QED
      BY <2>2, <3>1
  <2>5. IsFiniteSet(W \ {r}) /\ Cardinality(W \ {r}) = Cardinality(W) - 1
    BY <2>1, <2>3, FS_RemoveElement
  <2>6. IsFiniteSet(T) /\ Cardinality(T) \in Nat /\ Cardinality(T) <= Cardinality(S \cup {k})
    BY <2>1, <2>4, FS_Subset, FS_CardinalityType
  <2>7. Cardinality(V) \in Nat /\ Cardinality(V) <= Cardinality(W \ {r})
    BY <2>1, <2>5, FS_Subset, FS_CardinalityType
  <2>8. IsFiniteSet(T) /\ Cardinality(T) + Cardinality(V) <= PoolSize
    <3> HIDE DEF S, W, T, V
    <3>1. QED
      BY <2>2, <2>3, <2>4, <2>5, <2>6, <2>7, PoolAssumption
  <2>9. QED
    BY <1>6, <2>8
<1>7. CASE p # q
  <2>1. Connections(p)' \subseteq Connections(p) /\ Connecting(p)' \subseteq Connecting(p)
    BY <1>2, <1>4, <1>5, <1>7 DEF Connections, Of, Connecting
  <2>2. QED
    BY <2>1, FewerConnections
<1>8. QED
  BY <1>6, <1>7

(* Every handler of the keys and the end of a callback (byok_routes.py,     *)
(* routers_services.py, oauth_callback_compatibility).                      *)
LEMMA KeysStepKeepsConnections ==
    ASSUME SignOnTypes, SignOnTypes', ConnectionInv, PoolBounded',
           NEW r \in Req, KeysBegin(r) \/ KeysStep(r) \/ Connect(r)
    PROVE  ConnectionInv'
<1>1. pc[r] \in InKeyTx =>
         arg[r] \in [target : Key \cup {None}, of : Provider, rows : SUBSET Key, primary : SUBSET Key]
  BY SignOnParts DEF CallTypes
<1>2. InKeyTx = {"add", "deleteAll", "found", "setPrimary", "connect"}
  BY DEF InKeyTx
<1>3. ASSUME Answer(r), UNCHANGED keyVars PROVE ConnectionInv'
  BY <1>3, ConnectionsRead DEF Answer
<1>4. ASSUME NEW S \in SUBSET Key, Delete(S) PROVE \A p \in Provider : Connections(p)' \subseteq Connections(p)
  <2>1. \A k \in Key : provider'[k] = IF k \in S THEN None ELSE provider[k]
    BY <1>4 DEF Delete
  <2>2. byHand' = byHand
    BY <1>4 DEF Delete
  <2>3. QED
    BY <2>1, <2>2, ServiceAssumption DEF Connections, Of
<1>5. CASE KeysBegin(r)
  <2>1. ASSUME NEW p \in Provider, AddRead(r, p) \/ DeleteAllRead(r, p) PROVE ConnectionInv'
    BY <2>1, ConnectionsRead DEF AddRead, DeleteAllRead, Start
  <2>2. ASSUME NEW k \in Key, DeleteKey(r, k) PROVE ConnectionInv'
    BY <1>4, <2>2, ConnectionsKept DEF DeleteKey, AtOnce
  <2>3. ASSUME NEW k \in Key, SetPrimaryFind(r, k) PROVE ConnectionInv'
    BY <2>3, ConnectionsRead DEF SetPrimaryFind, Start
  <2>4. QED
    BY <1>5, <2>1, <2>2, <2>3 DEF KeysBegin
<1>6. CASE AddCommit(r)
  <2>1. PICK q \in Provider, k \in Key \ used :
           provider' = [provider EXCEPT ![k] = q] /\ byHand' = byHand \cup {k}
    BY <1>1, <1>2, <1>6, SignOnParts DEF AddCommit, Insert, CallTypes
  <2>2. \A j \in Key : j # k => provider'[j] = provider[j]
    BY <2>1, SignOnParts DEF RowTypes
  <2>3. \A p \in Provider : Connections(p)' \subseteq Connections(p)
    BY <2>1, <2>2 DEF Connections, Of
  <2>4. QED
    BY <1>6, <2>3, ConnectionsKept DEF AddCommit
<1>7. CASE DeleteAllCommit(r)
  <2>1. arg[r].rows \in SUBSET Key
    BY <1>2, <1>7, SignOnParts DEF DeleteAllCommit, CallTypes
  <2>2. QED
    BY <1>4, <1>7, <2>1, ConnectionsKept DEF DeleteAllCommit
<1>8. CASE SetPrimaryRead(r)
  BY <1>8, ConnectionsRead DEF SetPrimaryRead
<1>9. CASE SetPrimaryCommit(r)
  <2>1. \A p \in Provider : Connections(p)' \subseteq Connections(p)
    BY <1>9 DEF SetPrimaryCommit, Connections, Of
  <2>2. QED
    BY <1>9, <2>1, ConnectionsKept DEF SetPrimaryCommit
<1>10. CASE ConnectCommit(r)
  <2>1. CASE arg[r].target = None
    <3>1. arg[r].of \in Provider
      BY <1>2, <1>10, SignOnParts DEF ConnectCommit, CallTypes
    <3>2. QED
      BY <1>10, <2>1, <3>1, ConnectionMade DEF ConnectCommit
  <2>2. CASE arg[r].target # None
    BY <1>3, <1>10, <2>2 DEF ConnectCommit
  <2>3. QED
    BY <2>1, <2>2
<1>11. CASE ExchangeFails(r) \/ KeysDbError(r)
  BY <1>3, <1>11 DEF ExchangeFails, KeysDbError
<1>12. CASE Connect(r)
  <2>1. PICK p \in Provider : ConnectRead(r, p) \/ ConnectAmbiguous(r, p)
    BY <1>12, ServiceAssumption DEF Connect
  <2>2. CASE ConnectRead(r, p)
    <3>1. CASE Of(p) = {} /\ Goto(r, "connect", Read(None, p, {}, {}))
      BY <2>2, <3>1, ConnectionsRead DEF ConnectRead, Read
    <3>2. ASSUME NEW k \in Key, Goto(r, "connect", Read(k, p, {}, {}))
          PROVE  ConnectionInv'
      <4>1. k # None
        BY ServiceAssumption
      <4>2. QED
        BY <2>2, <3>2, <4>1, ConnectionsRead DEF ConnectRead, Read
    <3>3. QED
      BY <2>2, <3>1, <3>2 DEF ConnectRead
  <2>3. CASE ConnectAmbiguous(r, p)
    BY <1>3, <2>3 DEF ConnectAmbiguous
  <2>4. QED
    BY <2>1, <2>2, <2>3
<1>13. QED
  BY <1>5, <1>6, <1>7, <1>8, <1>9, <1>10, <1>11, <1>12 DEF KeysStep

(* Every step of sign-on and the keys (SignOn).                             *)
LEMMA ConnectionStep ==
    SignOnTypes /\ SignOnTypes' /\ ConnectionInv /\ [SignOnNext]_signOnVars => ConnectionInv'
<1> SUFFICES ASSUME SignOnTypes, SignOnTypes', ConnectionInv, [SignOnNext]_signOnVars
             PROVE  ConnectionInv'
  OBVIOUS
<1>1. PoolBounded'
  BY SignOnPoolStep DEF ConnectionInv
<1>2. ASSUME UNCHANGED keyVars, \A t \in Req : pc'[t] = "connect" => pc'[t] = pc[t] /\ arg'[t] = arg[t]
      PROVE  ConnectionInv'
  <2>1. \A p : Connections(p)' \subseteq Connections(p) /\ Connecting(p)' \subseteq Connecting(p)
    BY <1>2 DEF Connections, Of, keyVars, Connecting
  <2>2. QED
    BY <1>1, <2>1, FewerConnections DEF ConnectionInv
<1>3. CASE OAuthNext /\ UNCHANGED keyVars
  <2>1. \/ UNCHANGED <<pc, arg>>
        \/ \E r \in Req, to \in {"idle", "peeked", "got", "exchange"} : \E a : Goto(r, to, a)
    BY <1>3
       DEF OAuthNext, ChooseBackend, InitiateLogin, InitiateService, Generate, PathCallback,
           CompatCallback, ServiceCallback, OAuthStep, ValidateRead, ValidateConsume, RedisError,
           Age, RedisExpire, Answer, reqVars
  <2>2. \A t \in Req : pc'[t] = "connect" => pc'[t] = pc[t] /\ arg'[t] = arg[t]
    BY <2>1, SignOnParts DEF Goto, Calls
  <2>3. QED
    BY <1>2, <1>3, <2>2
<1>4. CASE \E r \in Req : KeysBegin(r) \/ KeysStep(r) \/ Connect(r)
  BY <1>1, <1>4, KeysStepKeepsConnections
<1>5. CASE \E p \in Proc : Crash(p)
  BY <1>2, <1>5 DEF Crash, Restart
<1>6. CASE UNCHANGED signOnVars
  BY <1>2, <1>6 DEF signOnVars, reqVars
<1>7. QED
  BY <1>3, <1>4, <1>5, <1>6 DEF SignOnNext

(* For every pool, a service has no more connections than the pool          *)
(* (google_service_callback, oauth_callback_compatibility).                 *)
THEOREM FewConnections == SignOnSpec => []ConnectionsWithinPool
<1>1. SignOnInit => ConnectionInv
  <2> SUFFICES ASSUME SignOnInit PROVE ConnectionInv
    OBVIOUS
  <2>1. PoolBounded
    BY PoolAssumption, FS_EmptySet DEF SignOnInit, HandlersInit, PoolBounded
  <2>2. \A p \in Provider : Connections(p) = {} /\ Connecting(p) = {}
    BY ServiceAssumption DEF SignOnInit, HandlersInit, KeysInit, Connections, Of, Connecting
  <2>3. QED
    BY <2>1, <2>2, PoolAssumption, FS_EmptySet DEF ConnectionInv
<1>2. SignOnTypes /\ SignOnTypes' /\ ConnectionInv /\ [SignOnNext]_signOnVars => ConnectionInv'
  BY ConnectionStep
<1>3. ConnectionInv => ConnectionsWithinPool
  <2> SUFFICES ASSUME ConnectionInv, NEW p \in Provider
               PROVE  IsFiniteSet(Connections(p)) /\ Cardinality(Connections(p)) <= PoolSize
    BY DEF ConnectionsWithinPool, Connections
  <2>1. Cardinality(Connecting(p)) \in Nat
    BY PoolAssumption, FS_Subset, FS_CardinalityType DEF Connecting
  <2>2. IsFiniteSet(Connections(p)) /\ Cardinality(Connections(p)) \in Nat
        /\ Cardinality(Connections(p)) + Cardinality(Connecting(p)) <= PoolSize
    BY FS_CardinalityType DEF ConnectionInv
  <2>3. QED
    BY <2>1, <2>2, PoolAssumption
<1>4. QED
  BY <1>1, <1>2, <1>3, SignOnTypesAlways, PTL DEF SignOnSpec
=============================================================================
