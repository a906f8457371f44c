------------------------------ MODULE MC_Rows ------------------------------
(* Small instances of what servers write into the same rows at once, for   *)
(* TLC: requests about agents, the package that a deployment boots with,   *)
(* and the keys that administrators store.  They share no state, so each   *)
(* behaviour moves one of them, and the run is as large as their sum and   *)
(* not their product.                                                      *)
EXTENDS AgentStore, TenantPackage, CredentialVault

Version(of, declares, withRoom, permits) ==
    [tenant |-> of, agents |-> declares, channel |-> withRoom, permitted |-> permits]
MCPackages == {
    Version("acme", <<1, 2>>, TRUE, {1}), Version("acme", <<2>>, TRUE, {2}), Version("acme", <<1>>, FALSE, {}),
    Version("other", <<2>>, TRUE, {2}), Version("other", <<>>, FALSE, {})}

VARIABLE moving  \* the part that moves

rowsVars == <<vars, packageVars, vaultVars, moving>>

MCInit ==
    /\ moving \in {"agents", "package", "vault"}
    /\ Init /\ PackageInit /\ VaultInit
    \* One initial state of a part that does not move is enough.
    /\ moving # "package" => \A a \in AgentIds : agentRecord[a] = NoRecord
    /\ moving # "agents" => \A a \in Agents \ Founding : row[a] = NoAgent

MCNext ==
    /\ UNCHANGED moving
    /\ \/ moving = "agents" /\ Next /\ UNCHANGED <<packageVars, vaultVars>>
       \/ moving = "package" /\ PackageNext /\ UNCHANGED <<vars, vaultVars>>
       \/ moving = "vault" /\ VaultNext /\ UNCHANGED <<vars, packageVars>>

\* The fairness of AgentStore, as that module states it.
MCSpec ==
    /\ MCInit /\ [][MCNext]_rowsVars
    /\ \A r \in Requests : WF_vars(moving = "agents" /\ Continue(r))

(* Types, of the agents, the package and the keys.                         *)
RowsTypeOK == TypeOK /\ PackageTypeOK /\ VaultTypeOK
=============================================================================
