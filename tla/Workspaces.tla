----------------------------- MODULE Workspaces -----------------------------
(***************************************************************************)
(* Workspaces and the tokens minted for them (app/workspaces_routes.py,    *)
(* app/workspace_tokens_routes.py).  The id of a workspace is its primary  *)
(* key and may be given by another service.  Titles and dates are left     *)
(* out, and with them the update of a workspace.                           *)
(***************************************************************************)
EXTENDS Handlers

CONSTANTS
    User,       \* users
    Workspace   \* workspace ids

VARIABLES
    owner,      \* the user_id of each workspace's row, None without one
    tokens,     \* workspace_access_tokens: pairs of user and workspace
    idsUsed     \* history: the workspaces that have or had a row

workspaceVars == <<owner, tokens, idsUsed>>

WorkspacesInit ==
    /\ owner = [w \in Workspace |-> None]
    /\ tokens = {} /\ idsUsed = {}

Own(u, w) ==
    /\ owner' = [owner EXCEPT ![w] = u]
    /\ idsUsed' = idsUsed \cup {w}

\* POST /auth/user/workspaces: an id that never was.
CreateWorkspace(r, u, w) ==
    /\ w \notin idsUsed
    /\ AtOnce(r)
    /\ Own(u, w)
    /\ UNCHANGED tokens

\* DELETE: the owner is checked on the row that was read, the row deleted by
\* its id.  Its tokens stay.
DeleteWorkspaceRead(r, u, w) ==
    /\ owner[w] = u
    /\ Start(r, "deleteWorkspace", [user |-> u, workspace |-> w])
    /\ UNCHANGED workspaceVars

DeleteWorkspaceCommit(r) ==
    /\ pc[r] = "deleteWorkspace"
    /\ owner' = [owner EXCEPT ![arg[r].workspace] = None]
    /\ Answer(r)
    /\ UNCHANGED <<tokens, idsUsed>>

\* POST /auth/internal/workspaces/upsert with an id that has no row.  If it
\* has one, 409 or a new date.
UpsertRead(r, u, w) ==
    /\ owner[w] = None
    /\ Start(r, "upsert", [user |-> u, workspace |-> w])
    /\ UNCHANGED workspaceVars

\* Mutant: the row is merged instead of inserted.
UpsertCommit_Merges(r) ==
    /\ pc[r] = "upsert"
    /\ Own(arg[r].user, arg[r].workspace)
    /\ Answer(r)
    /\ UNCHANGED tokens

\* The INSERT, or the primary key raises.
UpsertCommit(r) ==
    /\ pc[r] = "upsert"
    /\ \/ owner[arg[r].workspace] = None /\ Own(arg[r].user, arg[r].workspace)
       \/ owner[arg[r].workspace] # None /\ UNCHANGED <<owner, idsUsed>>
    /\ Answer(r)
    /\ UNCHANGED tokens

\* POST /auth/user/workspaces/{id}/token
MintRead(r, u, w) ==
    /\ owner[w] = u
    /\ Start(r, "mint", [user |-> u, workspace |-> w])
    /\ UNCHANGED workspaceVars

MintCommit(r) ==
    /\ pc[r] = "mint"
    /\ tokens' = tokens \cup {<<arg[r].user, arg[r].workspace>>}
    /\ Answer(r)
    /\ UNCHANGED <<owner, idsUsed>>

\* The internal mint believes its caller.
MintInternal(r, u, w) ==
    /\ AtOnce(r)
    /\ tokens' = tokens \cup {<<u, w>>}
    /\ UNCHANGED <<owner, idsUsed>>

InWorkspaceTx == {"deleteWorkspace", "upsert", "mint"}

WorkspacesNext ==
    \E r \in Req :
        \/ \E u \in User, w \in Workspace :
              \/ CreateWorkspace(r, u, w) \/ DeleteWorkspaceRead(r, u, w)
              \/ UpsertRead(r, u, w) \/ MintRead(r, u, w) \/ MintInternal(r, u, w)
        \/ DeleteWorkspaceCommit(r) \/ UpsertCommit(r) \/ MintCommit(r)

WorkspaceTypes ==
    /\ owner \in [Workspace -> User \cup {None}]
    /\ tokens \subseteq User \X Workspace
    /\ idsUsed \subseteq Workspace
    /\ \A w \in Workspace : owner[w] # None => w \in idsUsed
    /\ \A r \in Req : pc[r] \in InWorkspaceTx => arg[r] \in [user : User, workspace : Workspace]

(* "Workspace id owned by a different user": a workspace never passes from  *)
(* one user to another, also when two builds bring the same id at once      *)
(* (upsert_workspace_internal).                                             *)
OwnerFixed ==
    [][\A w \in Workspace : owner[w] # None /\ owner'[w] # None =>
          owner'[w] = owner[w]]_owner
=============================================================================
