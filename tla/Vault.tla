------------------------------- MODULE Vault -------------------------------
(***************************************************************************)
(* What the server keeps for builds and agents: secrets (encrypted with    *)
(* the key the process was started with), SSH keys and environment groups. *)
(* The handlers of secrets run in sessions of their own, which read a row  *)
(* and later write the columns they changed: both are steps here.          *)
(***************************************************************************)
EXTENDS Naturals, FiniteSets

CONSTANTS
    SecretName,      \* names of secrets
    FernetKey,       \* values of CI_ENGINE_FERNET_KEY
    VaultSession,    \* handlers at work at a time
    Fingerprint,     \* fingerprints of SSH keys, with "" for what does not parse
    Group,           \* names of environment groups
    MaxWrites        \* bound: handlers begun

ASSUME VaultAssumption == MaxWrites \in Nat

VARIABLES
    secrets,      \* [SecretName -> the row, or none: exists = FALSE]
    fernet,       \* the key of the running server
    session,      \* [VaultSession -> the handler and the row it read]
    sshKeys,      \* [Fingerprint -> "none", "active" or "inactive"]
    keyUsed,      \* fingerprints with a last_used_at
    groups,       \* [Group -> number of its variables, or 0 for no row]
    writes        \* handlers begun

vaultVars == <<secrets, fernet, session, sshKeys, keyUsed, groups, writes>>

NoSecret == [exists |-> FALSE, active |-> FALSE, version |-> 1, key |-> "none", by |-> "none"]
AtRest == [op |-> "none", name |-> "none", row |-> NoSecret]

VaultInit ==
    /\ secrets = [n \in SecretName |-> NoSecret]
    /\ fernet \in FernetKey
    /\ session = [s \in VaultSession |-> AtRest]
    /\ sshKeys = [f \in Fingerprint |-> "none"] /\ keyUsed = {}
    /\ groups = [g \in Group |-> 0] /\ writes = 0

-----------------------------------------------------------------------------
(* Secrets. *)

\* create finds no row, update, rotate and delete find one, whether or not it
\* is active; the other handlers answer 400 or 404 and end.
Reads(s, op, n) ==
    /\ session[s].op = "none" /\ writes < MaxWrites /\ writes' = writes + 1
    /\ secrets[n].exists = (op # "create")
    /\ session' = [session EXCEPT ![s] = [op |-> op, name |-> n, row |-> secrets[n]]]
    /\ UNCHANGED <<secrets, fernet, sshKeys, keyUsed, groups>>

ReadSecret(s) == \E op \in {"create", "update", "rotate", "delete"}, n \in SecretName : Reads(s, op, n)

\* A handler writes the row of its name and ends.
Commits(s, op, row) ==
    /\ session[s].op = op
    /\ secrets' = [secrets EXCEPT ![session[s].name] = row]
    /\ session' = [session EXCEPT ![s] = AtRest]
    /\ UNCHANGED <<fernet, sshKeys, keyUsed, groups, writes>>

\* The name is unique in the table: of two creates the second fails.
CommitCreate(s) ==
    LET row == secrets[session[s].name] IN
    Commits(s, "create", IF row.exists THEN row ELSE
        [exists |-> TRUE, active |-> TRUE, version |-> 1, key |-> fernet, by |-> "create"])

\* The row after an UPDATE with a newly encrypted value: the columns whose value
\* differs from what the session read, and no others, replace those of the table.
WrittenWhole(row, h, version) ==
    [h.row EXCEPT !.by = h.op, !.key = fernet, !.version = version]
Written(row, h, version) ==
    [row EXCEPT !.by = h.op, !.key = fernet,
                !.version = IF version # h.row.version THEN version ELSE @]

\* _encrypt_value always names version 1; rotate adds one to that.
CommitUpdate(s) == Commits(s, "update", Written(secrets[session[s].name], session[s], 1))
CommitRotate(s) == Commits(s, "rotate", Written(secrets[session[s].name], session[s], 2))
CommitDelete(s) == Commits(s, "delete", [secrets[session[s].name] EXCEPT !.active = FALSE])

\* A restart of the server ends its handlers and may bring another key.
RestartServer ==
    /\ fernet' \in FernetKey
    /\ session' = [s \in VaultSession |-> AtRest]
    /\ UNCHANGED <<secrets, sshKeys, keyUsed, groups, writes>>

Decrypts(n) == secrets[n].key = fernet

\* get_build_env_vars: every active secret that decrypts, whatever the build.
BuildEnv == {n \in SecretName : secrets[n].active /\ Decrypts(n)}

-----------------------------------------------------------------------------
(* SSH keys and environment groups; each function is one step. *)

CreateSSHKey(f) ==
    /\ sshKeys[f] = "none" /\ sshKeys' = [sshKeys EXCEPT ![f] = "active"]
    /\ UNCHANGED <<secrets, fernet, session, keyUsed, groups, writes>>

UpdateSSHKey(f) ==
    /\ sshKeys[f] # "none"
    /\ \E state \in {"active", "inactive"} : sshKeys' = [sshKeys EXCEPT ![f] = state]
    /\ UNCHANGED <<secrets, fernet, session, keyUsed, groups, writes>>

DeleteSSHKey(f) ==
    /\ sshKeys[f] # "none" /\ sshKeys' = [sshKeys EXCEPT ![f] = "none"]
    /\ keyUsed' = keyUsed \ {f}
    /\ UNCHANGED <<secrets, fernet, session, groups, writes>>

\* A key that does not parse has the fingerprint "" and is never valid.
ValidateAgentKey(f) ==
    /\ f # "" /\ sshKeys[f] = "active" /\ keyUsed' = keyUsed \union {f}
    /\ UNCHANGED <<secrets, fernet, session, sshKeys, groups, writes>>

\* The variables of a group are replaced as a whole; the name is unique.
WriteGroup(g) ==
    /\ \E variables \in 1 .. 2 : groups' = [groups EXCEPT ![g] = variables]
    /\ UNCHANGED <<secrets, fernet, session, sshKeys, keyUsed, writes>>

RenameGroup(g, name) ==
    /\ groups[g] # 0 /\ groups[name] = 0
    /\ groups' = [groups EXCEPT ![g] = 0, ![name] = groups[g]]
    /\ UNCHANGED <<secrets, fernet, session, sshKeys, keyUsed, writes>>

DeleteGroup(g) ==
    /\ groups[g] # 0 /\ groups' = [groups EXCEPT ![g] = 0]
    /\ UNCHANGED <<secrets, fernet, session, sshKeys, keyUsed, writes>>

VaultNext ==
    \/ \E s \in VaultSession :
          ReadSecret(s) \/ CommitCreate(s) \/ CommitUpdate(s) \/ CommitRotate(s) \/ CommitDelete(s)
    \/ RestartServer
    \/ \E f \in Fingerprint :
          CreateSSHKey(f) \/ UpdateSSHKey(f) \/ DeleteSSHKey(f) \/ ValidateAgentKey(f)
    \/ \E g \in Group : WriteGroup(g) \/ DeleteGroup(g) \/ \E name \in Group : RenameGroup(g, name)

VaultSpec == VaultInit /\ [][VaultNext]_vaultVars

-----------------------------------------------------------------------------
(* Properties. *)

SecretRow == [exists : BOOLEAN, active : BOOLEAN, version : 1 .. 2,
              key : FernetKey \union {"none"}, by : {"none", "create", "update", "rotate"}]
Handler == [op : {"none", "create", "update", "rotate", "delete"},
            name : SecretName \union {"none"}, row : SecretRow]

VaultTypeOK ==
    /\ secrets \in [SecretName -> SecretRow]
    /\ session \in [VaultSession -> Handler]
    /\ fernet \in FernetKey /\ keyUsed \subseteq Fingerprint \ {""}
    /\ sshKeys \in [Fingerprint -> {"none", "active", "inactive"}]
    /\ groups \in [Group -> 0 .. 2] /\ writes \in 0 .. MaxWrites

\* A deleted secret never reaches a build again, whatever handlers that read
\* it before the deletion write after it, and whatever keys the server is
\* started with: no handler writes is_active but the one that clears it.
DeletedSecretStaysDeleted ==
    [][\A n \in SecretName :
          secrets[n].exists /\ ~secrets[n].active => ~secrets'[n].active /\ n \notin BuildEnv']_vaultVars
=============================================================================
