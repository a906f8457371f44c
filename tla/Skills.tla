-------------------------------- MODULE Skills --------------------------------
(***************************************************************************)
(* Skills and the Bots that are told them: POST and DELETE of /skills and  *)
(* /grants, server/src/plugins/routes.ts, over installSkill,               *)
(* uninstallSkill, grant and revoke, server/src/plugins/store.ts.  A route *)
(* asks whose the skill is (and whose the Bot is), then writes: each is a  *)
(* query of its own, so what was true when it asked may not be when it     *)
(* writes.  Whose a Bot is never changes.                                  *)
(***************************************************************************)
EXTENDS Naturals, FiniteSets

CONSTANTS
    Slugs,
    People,
    Admins,       \* the people who are administrators
    Agents,       \* Bots
    AgentOwner,   \* whose each is; NoOne's if the deployment shares it
    NoOne,        \* owner of what is the deployment's
    Visits        \* requests that may be served at once

ASSUME SkillsAssumption ==
    /\ Admins \subseteq People
    /\ NoOne \notin People
    /\ AgentOwner \in [Agents -> People \cup {NoOne}]

VARIABLES
    skill,      \* every slug: is there a skill, whose, and who wrote its words
    enabled,    \* the grants: which Bot is told which skill, and who said so
    visit,      \* the requests being served
    contested   \* history: the slugs of which people's requests met, or that were given up

skillVars == <<skill, enabled, visit, contested>>

Owners == People \cup {NoOne}
Skill == [there : BOOLEAN, owner : Owners, words : Owners]
NoSkill == [there |-> FALSE, owner |-> NoOne, words |-> NoOne]
Grants == [slug : Slugs, agent : Agents, by : People]

Visit == [op     : {"save", "delete", "enable", "disable"},
          by     : People,
          slug   : Slugs,
          agent  : Agents,           \* of a grant or a revocation
          global : BOOLEAN,          \* of a save
          at     : {"skill", "agent", "write"}]
Vacant == [at |-> "none"]

SkillsInit ==
    /\ skill = [s \in Slugs |-> NoSkill]
    /\ enabled = {}
    /\ visit = [v \in Visits |-> Vacant]
    /\ contested = {}

-----------------------------------------------------------------------------

Leaves(v) == visit' = [visit EXCEPT ![v] = Vacant]
On(s, by) == \E v \in Visits : visit[v] # Vacant /\ visit[v].slug = s /\ visit[v].by # by

\* A request; only an administrator may ask for a global skill, and asks nobody's leave.
Comes(v) ==
    /\ visit[v] = Vacant
    /\ \E q \in [op : {"save", "delete", "enable", "disable"}, by : People, slug : Slugs,
                 agent : Agents, global : BOOLEAN] :
         /\ q.global => q.op = "save" /\ q.by \in Admins
         /\ visit' = [visit EXCEPT ![v] = [op |-> q.op, by |-> q.by, slug |-> q.slug, agent |-> q.agent,
                          global |-> q.global, at |-> IF q.by \in Admins THEN "write" ELSE "skill"]]
         /\ contested' = contested \cup (IF On(q.slug, q.by) THEN {q.slug} ELSE {})
    /\ UNCHANGED <<skill, enabled>>

\* Mutant: a deployment's skill is everybody's to edit.
MayEditShared(q) == ~skill[q.slug].there \/ skill[q.slug].owner \in {q.by, NoOne}
\* skillRefusal: a new slug, or one's own.
MayEdit(q) == ~skill[q.slug].there \/ skill[q.slug].owner = q.by
\* enablementRefusal, its first half: one's own.
IsOwn(q) == skill[q.slug].there /\ skill[q.slug].owner = q.by

\* skillOwner, and the refusal or the next step.
AskSkill(v) ==
    /\ visit[v].at = "skill"
    /\ LET q == visit[v] IN
         IF q.op \in {"save", "delete"}
         THEN IF MayEdit(q) THEN visit' = [visit EXCEPT ![v].at = "write"] ELSE Leaves(v)
         ELSE IF IsOwn(q)   THEN visit' = [visit EXCEPT ![v].at = "agent"] ELSE Leaves(v)
    /\ UNCHANGED <<skill, enabled, contested>>

\* enablementRefusal, its second half.
OwnsAgent(q) == AgentOwner[q.agent] = q.by

AskAgent(v) ==
    /\ visit[v].at = "agent"
    /\ IF OwnsAgent(visit[v]) THEN visit' = [visit EXCEPT ![v].at = "write"] ELSE Leaves(v)
    /\ UNCHANGED <<skill, enabled, contested>>

\* Mutant: a skill of the deployment's has an owner that is undefined, which is not none.
NewOwnerUndefined(q) == IF q.global THEN "undefined" ELSE q.by
NewOwner(q) == IF q.global THEN NoOne ELSE q.by

\* installSkill: whose a skill is stays as it was when the slug is taken.
InstallSkill(v) ==
    /\ visit[v].at = "write" /\ visit[v].op = "save"
    /\ LET q == visit[v] IN
         skill' = [skill EXCEPT ![q.slug] =
             [there |-> TRUE, words |-> q.by,
              owner |-> IF @.there THEN @.owner ELSE NewOwner(q)]]
    /\ Leaves(v)
    /\ UNCHANGED <<enabled, contested>>

\* uninstallSkill: the grants stay.
UninstallSkill(v) ==
    /\ visit[v].at = "write" /\ visit[v].op = "delete"
    /\ skill' = [skill EXCEPT ![visit[v].slug] = NoSkill]
    /\ contested' = contested \cup {visit[v].slug}
    /\ Leaves(v)
    /\ UNCHANGED enabled

Others(q) == {g \in enabled : g.slug # q.slug \/ g.agent # q.agent}

\* grant: one row for a skill and a Bot.
Enable(v) ==
    /\ visit[v].at = "write" /\ visit[v].op = "enable"
    /\ LET q == visit[v] IN enabled' = Others(q) \cup {[slug |-> q.slug, agent |-> q.agent, by |-> q.by]}
    /\ Leaves(v)
    /\ UNCHANGED <<skill, contested>>

\* revoke.
Disable(v) ==
    /\ visit[v].at = "write" /\ visit[v].op = "disable"
    /\ enabled' = Others(visit[v])
    /\ Leaves(v)
    /\ UNCHANGED <<skill, contested>>

SkillsNext == \E v \in Visits :
    \/ Comes(v) \/ AskSkill(v) \/ AskAgent(v)
    \/ InstallSkill(v) \/ UninstallSkill(v) \/ Enable(v) \/ Disable(v)
SkillsSpec == SkillsInit /\ [][SkillsNext]_skillVars

-----------------------------------------------------------------------------

(* Types.                                                                  *)
SkillsTypeOK ==
    /\ skill \in [Slugs -> Skill]
    /\ enabled \subseteq Grants
    /\ visit \in [Visits -> Visit \cup {Vacant}]
    /\ contested \subseteq Slugs

(* Whose words a Bot follows.  Of a skill whose name was not given up and  *)
(* about which no two people's requests met: its words are its owner's or  *)
(* an administrator's, and a Bot is told it because an administrator said  *)
(* so or because both are the owner's (skillRefusal, enablementRefusal).   *)
SkillsStayWithTheirOwner ==
    \A s \in Slugs \ contested :
        skill[s].there =>
            /\ skill[s].words \in {skill[s].owner} \cup Admins
            /\ \A g \in enabled :
                 g.slug = s => \/ g.by \in Admins
                               \/ g.by = skill[s].owner /\ g.by = AgentOwner[g.agent]
=============================================================================
