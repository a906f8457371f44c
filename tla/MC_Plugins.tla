------------------------------ MODULE MC_Plugins ------------------------------
(* Small instances of what a Bot is given, for TLC: tools, skills,         *)
(* components, and its place among the coworkers a request may run.  They  *)
(* share no state, so each behaviour moves one of them and the run is as   *)
(* large as their sum, not their product.                                  *)
EXTENDS PluginTools, Skills, Components, RuntimeAgents, TLC

CONSTANTS ann, bob, a1, a2, a3

MCAgentOwner == a1 :> ann @@ a2 :> bob @@ a3 :> NoOne

\* Bots are interchangeable to the tools, and no liveness is checked here.
Symmetry == Permutations(Bots)

VARIABLE moving  \* the part that moves

givenVars == <<toolVars, skillVars, componentVars, runtimeVars, moving>>

MCInit ==
    /\ moving \in {"tools", "skills", "components", "coworkers"}
    /\ ToolsInit /\ SkillsInit /\ ComponentsInit /\ RuntimeInit
    \* One initial state of a part that does not move is enough.
    /\ moving # "components" => kind = "compiled"
    /\ moving # "tools" => permits = {}
    /\ moving # "coworkers" =>
          worked = {} /\ profileOf = [a \in Coworkers |-> [live |-> TRUE, visibility |-> "public",
                                                         key |-> NoKey, tool |-> FALSE]]

MCNext ==
    /\ UNCHANGED moving
    /\ \/ moving = "tools" /\ ToolsNext /\ UNCHANGED <<skillVars, componentVars, runtimeVars>>
       \/ moving = "skills" /\ SkillsNext /\ UNCHANGED <<toolVars, componentVars, runtimeVars>>
       \/ moving = "components" /\ ComponentsNext /\ UNCHANGED <<toolVars, skillVars, runtimeVars>>
       \/ moving = "coworkers" /\ RuntimeNext /\ UNCHANGED <<toolVars, skillVars, componentVars>>
MCSpec == MCInit /\ [][MCNext]_givenVars

(* Types, of the tools, the skills, the components and the coworkers.      *)
GivenTypeOK == ToolsTypeOK /\ SkillsTypeOK /\ ComponentsTypeOK /\ RuntimeTypeOK
=============================================================================
