----------------------------- MODULE OwnedRows ------------------------------
(***************************************************************************)
(* The handlers of rows that a user or an organisation owns, on one pool:  *)
(* trusted devices, API keys of an organisation, workspaces, the SSH host, *)
(* agents and the role.  None reads rows of another; what they share is    *)
(* the connections, the requests and their failures.                       *)
(***************************************************************************)
EXTENDS TrustedDevices, OrgApiKeys, Workspaces, SshHosts, Agents, MemberRole

rowsVars == <<deviceVars, orgKey, workspaceVars, sshVars, agentVars, roleVars, reqVars>>

RowsInit ==
    /\ HandlersInit
    /\ DevicesInit /\ OrgKeysInit /\ WorkspacesInit
    /\ SshInit /\ AgentsInit /\ RolesInit

InRowTx == InDeviceTx \cup InOrgKeyTx \cup InWorkspaceTx \cup InSshTx \cup InAgentTx \cup InRoleTx
InRowGap == {"accepted"} \cup InRoleGap

DevicesPart    == UNCHANGED <<orgKey, workspaceVars, sshVars, agentVars, roleVars>>
OrgKeysPart    == UNCHANGED <<deviceVars, workspaceVars, sshVars, agentVars, roleVars>>
WorkspacesPart == UNCHANGED <<deviceVars, orgKey, sshVars, agentVars, roleVars>>
SshPart        == UNCHANGED <<deviceVars, orgKey, workspaceVars, agentVars, roleVars>>
AgentsPart     == UNCHANGED <<deviceVars, orgKey, workspaceVars, sshVars, roleVars>>
RolesPart      == UNCHANGED <<deviceVars, orgKey, workspaceVars, sshVars, agentVars>>
RowsKept       == DevicesPart /\ UNCHANGED deviceVars

\* Mutant: the session of a failed request is not closed.
RequestFails_WithoutClose(r) ==
    /\ pc[r] \in InRowTx \cup {"accepted", "load"}
    /\ Goto(r, "idle", None) /\ UNCHANGED conn
    /\ RowsKept

\* A statement or a commit fails, or the wait for a connection times out:
\* what was not committed is not there.
RequestFails(r) ==
    /\ pc[r] \in InRowTx \cup {"accepted", "load"}
    /\ Answer(r)
    /\ RowsKept

\* The processes die and start again.
RowsCrash == Restart(Req) /\ RowsKept

RowsNext ==
    \/ DevicesNext    /\ DevicesPart
    \/ OrgKeysNext    /\ OrgKeysPart
    \/ WorkspacesNext /\ WorkspacesPart
    \/ SshNext        /\ SshPart
    \/ AgentsNext     /\ AgentsPart
    \/ RolesNext      /\ RolesPart
    \/ \E r \in Req : RequestFails(r)
    \/ RowsCrash

RowsSpec == RowsInit /\ [][RowsNext]_rowsVars

(* Types, and a request holds a connection exactly inside its transactions: *)
(* none is kept between the two of a verification, nor while the nonce of a *)
(* role update is looked up.                                                *)
RowsTypes ==
    /\ DeviceTypes /\ OrgKeyTypes /\ WorkspaceTypes
    /\ SshTypes /\ AgentTypes /\ RoleTypes
    /\ DOMAIN arg = Req
    /\ pc \in [Req -> {"idle"} \cup InRowTx \cup InRowGap]
    /\ conn = {r \in Req : pc[r] \in InRowTx}
=============================================================================
