----------------------------- MODULE MCOwnedRows ----------------------------
EXTENDS OwnedRows, TLC

\* The rows, or requests, that have left their initial state.
DevicesTouched    == rowsUsed # {} \/ lapsed # {} \/ ~mfaOn
                     \/ \E r \in Req : pc[r] \in InDeviceTx
OrgKeysTouched    == (\E k \in OrgKey : orgKey[k] # "absent")
                     \/ \E r \in Req : pc[r] \in InOrgKeyTx \cup {"accepted"}
WorkspacesTouched == tokens # {} \/ idsUsed # {} \/ \E r \in Req : pc[r] \in InWorkspaceTx
SshTouched        == hostRowsUsed # {} \/ \E r \in Req : pc[r] \in InSshTx
AgentsTouched     == agentsUsed # {} \/ \E r \in Req : pc[r] \in InAgentTx
RolesTouched      == role # "owner" \/ script # None \/ \E u \in Update : asks[u] # None

\* Bound: one part of the rows at a time.  No part reads what another writes.
OnePart ==
    LET touched == {<<"devices", DevicesTouched>>, <<"orgKeys", OrgKeysTouched>>,
                    <<"workspaces", WorkspacesTouched>>, <<"ssh", SshTouched>>,
                    <<"agents", AgentsTouched>>, <<"roles", RolesTouched>>}
    IN  Cardinality({t \in touched : t[2]}) <= 1

Symmetry ==
    Permutations(Req) \cup Permutations(DeviceRow)
    \cup Permutations(HostRow) \cup Permutations(AgentKey)
=============================================================================
