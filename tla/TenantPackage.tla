---------------------------- MODULE TenantPackage ----------------------------
(***************************************************************************)
(* The package a deployment boots with, server/src/tenant-package.ts: one  *)
(* transaction at the start of every server writes the package's row, its  *)
(* agents and its channel, and drops what the package no longer declares.  *)
(* Several servers may boot at once, with other versions of the package or *)
(* with another tenant's, over rows that people made too.  A statement     *)
(* that meets a row another boot has written waits for it to commit or to  *)
(* roll back, and then judges the row by what was committed.               *)
(*                                                                         *)
(* External: Postgres, which ends one boot of a cycle of waiters and       *)
(* deletes the links of what is deleted.  Left out: names, prompts and     *)
(* groups, which a version stands for; an agent's profile, which is        *)
(* written with it and is never a person's; and what people do to their    *)
(* own agents, whom no boot touches (people may not change a package's).   *)
(***************************************************************************)
EXTENDS Naturals, SequencesExt

CONSTANTS
    Servers,   \* servers that may be booting at once
    Packages   \* versions: a tenant, its agents in order, has it the channel, and whom that permits

ASSUME PackageAssumption ==
    \A p \in Packages :
        /\ p.tenant \notin {"people", "none"} /\ p.agents \in Seq(ToSet(p.agents))
        /\ p.permitted \subseteq ToSet(p.agents) /\ (~p.channel => p.permitted = {})

Tenants == {p.tenant : p \in Packages}
AgentIds == UNION {ToSet(p.agents) : p \in Packages}
NoPackage == [tenant |-> "none", agents |-> <<>>, channel |-> FALSE, permitted |-> {}]
\* A row: the tenant whose package it is of, if not "people"'s or "none", and the version in it.
NoRecord == [of |-> "none", as |-> NoPackage]
Records == [of : Tenants \cup {"people", "none"}, as : Packages \cup {NoPackage}]
Down == [at |-> "down", package |-> NoPackage, upserted |-> 0, dropping |-> {}]

VARIABLES
    deployed,    \* every tenant's row in deployment_packages
    agentRecord, \* every agent, as committed
    room,        \* the channel that packages declare
    roomAgents,  \* its links to agents
    chatted,     \* the agents that channels of people's link
    booting      \* the servers' transactions

packageVars == <<deployed, agentRecord, room, roomAgents, chatted, booting>>

PackageInit ==
    /\ deployed = [t \in Tenants |-> NoPackage]
    /\ agentRecord \in [AgentIds -> {NoRecord, [NoRecord EXCEPT !.of = "people"]}]
    /\ room = NoRecord /\ roomAgents = {} /\ chatted = {}
    /\ booting = [s \in Servers |-> Down]

-----------------------------------------------------------------------------

Committed == <<deployed, agentRecord, room, roomAgents, chatted>>
Tenant(s) == booting[s].package.tenant
Declared(s) == ToSet(booting[s].package.agents)
Rivals(s) == {r \in Servers \ {s} : booting[r].at # "down"}
Proceeds(s, to) == booting' = [booting EXCEPT ![s] = to] /\ UNCHANGED Committed

\* What a transaction has written and nobody else may write until it ends.
Loading(r) == booting[r].at \notin {"down", "package"}
Wrote(r) ==
    {booting[r].package.agents[i] : i \in 1 .. booting[r].upserted} \cup booting[r].dropping
WroteRoom(r) == booting[r].at \in {"agentsDropped", "roomWritten"}

Unwritten(s, a) == \A r \in Rivals(s) : a \notin Wrote(r)
RoomUnwritten(s) == \A r \in Rivals(s) : ~WroteRoom(r)

Boots(s) ==
    /\ booting[s] = Down
    /\ \E p \in Packages : Proceeds(s, [Down EXCEPT !.at = "package", !.package = p])

\* A statement fails, is the victim of a deadlock, or the process goes; and the server with it.
RollsBack(s) == booting[s].at # "down" /\ Proceeds(s, Down)

\* Mutant: boots of one tenant do not wait for each other.
WaitsForNobody(s) == TRUE
\* The upsert of the package's row, by tenant.
FirstOfTenant(s) == \A r \in Rivals(s) : Loading(r) => Tenant(r) # Tenant(s)

LoadPackage(s) ==
    /\ booting[s].at = "package"
    /\ FirstOfTenant(s)
    /\ Proceeds(s, [booting[s] EXCEPT !.at = "agents"])

\* The upsert updates what is already this package's; a row of another's is returned by none.
MayUpsert(s, a) == agentRecord[a].of \in {Tenant(s), "none"}

UpsertAgent(s) ==
    /\ booting[s].at = "agents" /\ booting[s].upserted < Len(booting[s].package.agents)
    /\ LET a == booting[s].package.agents[booting[s].upserted + 1] IN
         /\ Unwritten(s, a)
         /\ IF MayUpsert(s, a)
            THEN Proceeds(s, [booting[s] EXCEPT !.upserted = @ + 1])
            ELSE Proceeds(s, Down)

\* Whose the channel was is not asked.  Its links are written again, and dropped with it.
UpsertOrDropRoom(s) ==
    /\ booting[s].at = "agents" /\ booting[s].upserted = Len(booting[s].package.agents)
    /\ LET writes == booting[s].package.channel \/ room.of = Tenant(s) IN
         /\ writes => RoomUnwritten(s)
         /\ Proceeds(s, [booting[s] EXCEPT !.at = IF writes THEN "roomWritten" ELSE "roomLeft"])

DropAgents(s) ==
    /\ booting[s].at \in {"roomWritten", "roomLeft"}
    /\ LET drops == {a \in AgentIds \ Declared(s) : agentRecord[a].of = Tenant(s)} IN
         /\ \A a \in drops : Unwritten(s, a)
         /\ Proceeds(s, [booting[s] EXCEPT !.dropping = drops, !.at =
                           IF @ = "roomWritten" THEN "agentsDropped" ELSE "agentsDroppedAlone"])

Commits(s) ==
    /\ booting[s].at \in {"agentsDropped", "agentsDroppedAlone"}
    /\ LET p == booting[s].package
           new == [of |-> p.tenant, as |-> p]
           dropped == booting[s].dropping
       IN  /\ deployed' = [deployed EXCEPT ![p.tenant] = p]
           /\ agentRecord' = [a \in AgentIds |->
                IF a \in Declared(s) THEN new ELSE IF a \in dropped THEN NoRecord ELSE agentRecord[a]]
           /\ room' = IF ~WroteRoom(s) THEN room ELSE IF p.channel THEN new ELSE NoRecord
           /\ roomAgents' = (IF WroteRoom(s) THEN p.permitted ELSE roomAgents) \ dropped
           /\ chatted' = chatted \ dropped
    /\ booting' = [booting EXCEPT ![s] = Down]

\* create of channels/routes.ts, of agents no boot has written: it waits for the others.
PeopleChat(on) ==
    /\ \A a \in on : agentRecord[a].of # "none" /\ \A s \in Servers : a \notin Wrote(s)
    /\ chatted' = chatted \cup on
    /\ UNCHANGED <<deployed, agentRecord, room, roomAgents, booting>>

BootStep(s) ==
    \/ Boots(s) \/ RollsBack(s) \/ LoadPackage(s) \/ UpsertAgent(s) \/ UpsertOrDropRoom(s)
    \/ DropAgents(s) \/ Commits(s)

PackageNext ==
    \/ \E s \in Servers : BootStep(s)
    \/ \E on \in SUBSET AgentIds \ {{}} : PeopleChat(on)

PackageSpec == PackageInit /\ [][PackageNext]_packageVars

(* Types.                                                                  *)
PackageTypeOK ==
    /\ deployed \in [Tenants -> Packages \cup {NoPackage}]
    /\ agentRecord \in [AgentIds -> Records] /\ room \in Records
    /\ roomAgents \cup chatted \subseteq AgentIds
    /\ booting \in [Servers -> [at : {"down", "package", "agents", "roomWritten", "roomLeft",
                                      "agentsDropped", "agentsDroppedAlone"},
                                package : Packages \cup {NoPackage},
                                upserted : Nat, dropping : SUBSET AgentIds]]
    /\ \A s \in Servers : booting[s].upserted <= Len(booting[s].package.agents)

\* A tenant's agents are one version's, all of it and no others, and its channel likewise.
DeployedWhole ==
    \A t \in Tenants :
        LET theirs == {a \in AgentIds : agentRecord[a].of = t} IN
        /\ theirs = ToSet(deployed[t].agents)
        /\ \A a \in theirs : agentRecord[a].as = deployed[t]
        /\ room.of = t =>
              /\ room.as = deployed[t] /\ deployed[t].channel
              /\ roomAgents = deployed[t].permitted

(* What a deployment runs is one version of its package, whole, and what   *)
(* its people made beside it: whichever servers boot at once, with which   *)
(* version or tenant, and wherever one stops (synchronizeTenantPackage and *)
(* the refusals it throws).                                                *)
PackagesAreWhole ==
    [][/\ DeployedWhole'
       /\ \A a \in AgentIds : agentRecord[a].of = "people" => UNCHANGED agentRecord[a]]_packageVars
=============================================================================
