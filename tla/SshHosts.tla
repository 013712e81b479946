------------------------------ MODULE SshHosts ------------------------------
(***************************************************************************)
(* The one SSH target a user may register (app/ssh_hosts_routes.py): a row *)
(* with a unique user_id, written by the user and, for the fingerprint, by *)
(* the terminal sandbox.  The ORM writes the columns whose value differs   *)
(* from the one it loaded.                                                 *)
(***************************************************************************)
EXTENDS Handlers

CONSTANTS
    HostRow,        \* rows of user_ssh_hosts, used once
    Host,           \* targets
    Fingerprint     \* public key fingerprints

VARIABLES
    ssh,            \* the user's row, None without one
    hostRowsUsed    \* history: rows that exist or existed

sshVars == <<ssh, hostRowsUsed>>

SshInit == ssh = None /\ hostRowsUsed = {}

SshRow == [row : HostRow, host : Host, fingerprint : Fingerprint \cup {None}]

\* The row a request loaded is still there.
Still(read) == ssh # None /\ read # None /\ ssh.row = read.row

\* A column after a session that loaded old has set it to new.
Column(current, old, new) == IF new = old THEN current ELSE new

-----------------------------------------------------------------------------
(* POST /auth/user/ssh-hosts                                                *)

RegisterRead(r, h) ==
    /\ Start(r, "register", [host |-> h, read |-> ssh])
    /\ UNCHANGED sshVars

\* "Registering a new host invalidates any previously shown fingerprint".
RegisterUpdate(r) ==
    /\ pc[r] = "register" /\ arg[r].read # None
    /\ ssh' = IF ~Still(arg[r].read) THEN ssh
              ELSE [ssh EXCEPT !.host = Column(@, arg[r].read.host, arg[r].host),
                               !.fingerprint = Column(@, arg[r].read.fingerprint, None)]
    /\ Answer(r)
    /\ UNCHANGED hostRowsUsed

\* The first target, unless the unique index raises.
RegisterInsert(r) ==
    /\ pc[r] = "register" /\ arg[r].read = None
    /\ \/ /\ ssh = None
          /\ \E w \in HostRow \ hostRowsUsed :
                /\ ssh' = [row |-> w, host |-> arg[r].host, fingerprint |-> None]
                /\ hostRowsUsed' = hostRowsUsed \cup {w}
       \/ ssh # None /\ UNCHANGED sshVars
    /\ Answer(r)

DeleteHost(r) ==
    /\ ssh # None
    /\ AtOnce(r)
    /\ ssh' = None
    /\ UNCHANGED hostRowsUsed

-----------------------------------------------------------------------------
(* PATCH /auth/internal/user-ssh-hosts/{user_id}/fingerprint                *)

ConfirmRead(r, f) ==
    /\ ssh # None
    /\ Start(r, "confirm", [fingerprint |-> f, read |-> ssh])
    /\ UNCHANGED sshVars

\* Mutant: the UPDATE names the user and not the row.
ConfirmCommit_OfUser(r) ==
    /\ pc[r] = "confirm"
    /\ ssh' = IF ssh = None THEN ssh ELSE [ssh EXCEPT !.fingerprint = arg[r].fingerprint]
    /\ Answer(r)
    /\ UNCHANGED hostRowsUsed

\* The UPDATE of a row that is gone raises; another target of the same row
\* is not noticed.
ConfirmCommit(r) ==
    /\ pc[r] = "confirm"
    /\ ssh' = IF ~Still(arg[r].read) THEN ssh
              ELSE [ssh EXCEPT !.fingerprint =
                        Column(@, arg[r].read.fingerprint, arg[r].fingerprint)]
    /\ Answer(r)
    /\ UNCHANGED hostRowsUsed

InSshTx == {"register", "confirm"}

SshNext ==
    \E r \in Req :
        \/ \E h \in Host : RegisterRead(r, h)
        \/ \E f \in Fingerprint : ConfirmRead(r, f)
        \/ RegisterUpdate(r) \/ RegisterInsert(r) \/ ConfirmCommit(r) \/ DeleteHost(r)

SshTypes ==
    /\ ssh \in SshRow \cup {None}
    /\ hostRowsUsed \subseteq HostRow
    /\ ssh # None => ssh.row \in hostRowsUsed
    /\ \A r \in Req :
          /\ pc[r] = "register" => arg[r] \in [host : Host, read : SshRow \cup {None}]
          /\ pc[r] = "confirm" => arg[r] \in [fingerprint : Fingerprint, read : SshRow]

\* The fingerprint that is shown with the user's row, if there is one.
Shown == IF ssh = None \/ ssh.fingerprint = None THEN {}
         ELSE {<<ssh.row, ssh.fingerprint>>}

(* "so the fingerprint can be shown back to the user for verification": a   *)
(* fingerprint comes to a row only by a confirmation that found this very   *)
(* row, never by one that was under way when the target was deleted and     *)
(* another registered, nor by a registration (upsert_user_ssh_host,         *)
(* delete_user_ssh_host, set_user_ssh_host_fingerprint).                    *)
ConfirmedOfThisRow ==
    [][\A p \in Shown' \ Shown :
          \E r \in Req : pc[r] = "confirm" /\ p = <<arg[r].read.row, arg[r].fingerprint>>]_ssh
=============================================================================
