---------------------------- MODULE RuntimeAgents ----------------------------
(***************************************************************************)
(* The coworkers a request of the chat runtime may run, read anew for      *)
(* every request: createRuntimeAgentLoader of agents/runtime-agents.ts,    *)
(* resolveRuntimeAgents and buildAgents of copilot.ts.  One request reads  *)
(* the profiles, the tombstones, every remote coworker's key, the model's  *)
(* key and every coworker's tools, one query at a time, while people edit, *)
(* publish and delete coworkers and administrators revoke keys and grants. *)
(*                                                                         *)
(* External: Postgres, where each query reads one moment, and the session  *)
(* that says who asks.  Left out: rows whose configuration cannot be       *)
(* understood, which are skipped, the words of a standing role, and what a *)
(* run does with what it was given (PluginTools, StallGuard, BotRun).      *)
(***************************************************************************)
EXTENDS Naturals, FiniteSets

CONSTANTS
    Coworkers,  \* the agents with a profile
    BuiltIn,    \* those that run on the deployment's own model; the rest are remote
    Owned,      \* those of the person who asks
    MaxKeys,    \* bound: keys that one coworker has had
    MaxEdits    \* bound: changes while the request is served

ASSUME RuntimeAssumption ==
    BuiltIn \subseteq Coworkers /\ Owned \subseteq Coworkers /\ {MaxKeys, MaxEdits} \subseteq Nat

NoKey == 0
Keys == 1 .. MaxKeys
Remote == Coworkers \ BuiltIn

VARIABLES
    profileOf,  \* every coworker's row: live, its visibility, which of its keys it names, and
                \* whether it holds the grant of a tool
    revokedKeys, \* the keys that were revoked
    worked,     \* the coworkers of the person's channels
    edits,      \* changes so far
    loading,    \* the request: where it is, who asks, and what it has read
    given,      \* what the runtime is handed for every coworker
    past        \* history: the rows since the request began, and the keys revoked before it

runtimeVars == <<profileOf, revokedKeys, worked, edits, loading, given, past>>

Profile == [live : BOOLEAN, visibility : {"private", "public"}, key : 0 .. MaxKeys, tool : BOOLEAN]
Given == [as : {"nothing", "agent", "unavailable"}, key : 0 .. MaxKeys, tool : BOOLEAN]
Nothing == [as |-> "nothing", key |-> NoKey, tool |-> FALSE]
NotAsking == [at |-> "idle", actor |-> "nobody", unread |-> {}, due |-> {}, gone |-> {}]

RuntimeInit ==
    /\ profileOf \in [Coworkers -> {p \in Profile : p.key <= 1}]
    /\ \A a \in BuiltIn : profileOf[a].key = NoKey
    /\ revokedKeys = {} /\ edits = 0
    /\ worked \in SUBSET Coworkers
    /\ loading = NotAsking
    /\ given = [a \in Coworkers |-> Nothing]
    /\ past = [rows |-> [a \in Coworkers |-> {}], revoked |-> {}]

-----------------------------------------------------------------------------
(* The request.                                                            *)

NoEdit == UNCHANGED <<profileOf, revokedKeys, worked, edits>>
Onward(at) == loading' = [loading EXCEPT !.at = at]

\* identifyActor: a session that cannot be read is nobody's.
RequestArrives ==
    /\ loading.at = "idle"
    /\ \E actor \in {"user", "admin", "nobody"} :
         loading' = [NotAsking EXCEPT !.at = "profiles", !.actor = actor, !.unread = {"active", "tombstones"}]
    /\ UNCHANGED given /\ NoEdit

maySee(actor, a, p) ==
    p.live /\ (p.visibility = "public" \/ actor = "admin" \/ (actor = "user" /\ a \in Owned))

\* Mutant: whether it was deleted is left to the tombstones.
ActiveOrDeleted(a) == maySee(loading.actor, a, [profileOf[a] EXCEPT !.live = TRUE])
Active(a) == maySee(loading.actor, a, profileOf[a])

\* The key is the row's, and is looked up later.
selectActiveAgents ==
    /\ loading.at = "profiles" /\ "active" \in loading.unread
    /\ LET active == {a \in Coworkers : Active(a)}
       IN  /\ given' = [a \in Coworkers |->
                IF a \in active THEN [Nothing EXCEPT !.as = "agent", !.key = profileOf[a].key] ELSE given[a]]
           /\ loading' = [loading EXCEPT !.unread = @ \ {"active"},
                                         !.due = {a \in active : profileOf[a].key # NoKey}]
    /\ NoEdit

\* Membership of a channel it worked in is what admits a tombstone.
selectTombstoneAgents ==
    /\ loading.at = "profiles" /\ "tombstones" \in loading.unread
    /\ loading' = [loading EXCEPT
         !.unread = @ \ {"tombstones"},
         !.gone = {a \in worked : loading.actor # "nobody" /\ ~profileOf[a].live}]
    /\ UNCHANGED given /\ NoEdit

BothRead ==
    /\ loading.at = "profiles" /\ loading.unread = {}
    /\ Onward("keys")
    /\ UNCHANGED given /\ NoEdit

\* agentAuthHeaders: a revoked key is not sent.
ReadKey(a) ==
    /\ loading.at = "keys" /\ a \in loading.due
    /\ loading' = [loading EXCEPT !.due = @ \ {a}]
    /\ given' = [given EXCEPT ![a].key = IF <<a, @>> \in revokedKeys THEN NoKey ELSE @]
    /\ NoEdit

Served == {a \in Coworkers : given[a].as = "agent"}
\* A tombstone never overwrites a live coworker.  With nobody to serve the request throws.
Register ==
    /\ loading.at = "keys" /\ loading.due = {}
    /\ given' = [a \in Coworkers |->
         IF a \in loading.gone \ Served THEN [Nothing EXCEPT !.as = "unavailable"] ELSE given[a]]
    /\ loading' = [loading EXCEPT
         !.at = IF Served \cup loading.gone = {} THEN "failed"
                ELSE IF Served \cap BuiltIn # {} THEN "model" ELSE "tools",
         !.due = Served]
    /\ NoEdit

\* resolveModelApiKey: without one the built-in coworkers say so when they run.
ModelKey == loading.at = "model" /\ Onward("tools") /\ UNCHANGED given /\ NoEdit

\* buildAgents: the tools of all of them at once.
LoadTools(a) ==
    /\ loading.at = "tools" /\ a \in loading.due
    /\ loading' = [loading EXCEPT !.due = @ \ {a}]
    /\ given' = [given EXCEPT ![a].tool = profileOf[a].tool]
    /\ NoEdit

Serve ==
    /\ loading.at = "tools" /\ loading.due = {}
    /\ Onward("served")
    /\ UNCHANGED given /\ NoEdit

\* Any query may fail, and the request with it.
QueryFails ==
    /\ loading.at \in {"profiles", "keys", "model", "tools"}
    /\ Onward("failed")
    /\ UNCHANGED given /\ NoEdit

-----------------------------------------------------------------------------
(* What people change meanwhile, each in one transaction.                  *)

Edits(p) ==
    /\ edits < MaxEdits /\ edits' = edits + 1
    /\ profileOf' = p
    /\ UNCHANGED <<worked, loading, given>>

\* update: another visibility, or a key of its own.
Publishes(a) ==
    /\ profileOf[a].live
    /\ \E v \in {"private", "public"} : Edits([profileOf EXCEPT ![a].visibility = v])
    /\ UNCHANGED revokedKeys
StoresKey(a) ==
    /\ profileOf[a].live /\ a \in Remote
    /\ profileOf[a].key < MaxKeys /\ Edits([profileOf EXCEPT ![a].key = @ + 1])
    /\ UNCHANGED revokedKeys
Deletes(a) ==
    /\ profileOf[a].live
    /\ Edits([profileOf EXCEPT ![a].live = FALSE])
    /\ UNCHANGED revokedKeys
ChangesGrant(a) == Edits([profileOf EXCEPT ![a].tool = ~@]) /\ UNCHANGED revokedKeys
RevokesKey(a, k) ==
    /\ k <= profileOf[a].key /\ <<a, k>> \notin revokedKeys
    /\ Edits(profileOf) /\ revokedKeys' = revokedKeys \cup {<<a, k>>}

-----------------------------------------------------------------------------

\* What has been so since the request began.
Remembers ==
    past' = [rows |-> [a \in Coworkers |->
                 IF loading'.at = "idle" THEN {} ELSE past.rows[a] \cup {profileOf'[a]}],
             revoked |-> IF loading.at = "idle" THEN revokedKeys' ELSE past.revoked]

Reads ==
    \/ RequestArrives \/ selectActiveAgents \/ selectTombstoneAgents \/ BothRead \/ Register \/ ModelKey
    \/ Serve \/ QueryFails
    \/ \E a \in Coworkers : ReadKey(a) \/ LoadTools(a)

RuntimeNext ==
    /\ \/ Reads
       \/ \E a \in Coworkers : Publishes(a) \/ StoresKey(a) \/ Deletes(a) \/ ChangesGrant(a)
       \/ \E a \in Remote, k \in Keys : RevokesKey(a, k)
    /\ Remembers

RuntimeSpec == RuntimeInit /\ [][RuntimeNext]_runtimeVars

(* Types.                                                                  *)
RuntimeTypeOK ==
    /\ profileOf \in [Coworkers -> Profile] /\ revokedKeys \subseteq Remote \X Keys
    /\ worked \subseteq Coworkers /\ edits \in 0 .. MaxEdits
    /\ given \in [Coworkers -> Given]
    /\ loading \in [at : {"idle", "profiles", "keys", "model", "tools", "served", "failed"},
                    actor : {"user", "admin", "nobody"}, unread : SUBSET {"active", "tombstones"},
                    due : SUBSET Coworkers, gone : SUBSET Coworkers]

(* What a request is given of a coworker was so while it was being served, *)
(* whatever was changed between its queries.  A coworker it may run was    *)
(* one that whoever asks might see, is given the key of that same row, and *)
(* neither a key revoked before nor a tool it never held meanwhile; one it *)
(* may only read was deleted; and one that it is given nothing of was, at  *)
(* some moment, not to be seen, and at some moment no tombstone of theirs  *)
(* (createRequestAgents: "a private coworker must be absent for everybody  *)
(* else, and a role edited a moment ago must apply to the next run").      *)
CoworkersAreAsTheyWere ==
    loading.at = "served" => \A a \in Coworkers :
        LET rows == past.rows[a]
            theirs == loading.actor # "nobody" /\ a \in worked
        IN  CASE given[a].as = "agent" ->
                   /\ \E p \in rows :
                        /\ maySee(loading.actor, a, p)
                        /\ \/ given[a].key = p.key
                           \/ given[a].key = NoKey /\ <<a, p.key>> \in revokedKeys
                   /\ <<a, given[a].key>> \notin past.revoked
                   /\ given[a].tool \in {p.tool : p \in rows}
              [] given[a].as = "unavailable" -> theirs /\ \E p \in rows : ~p.live
              [] OTHER ->
                   /\ \E p \in rows : ~maySee(loading.actor, a, p)
                   /\ theirs => \E p \in rows : p.live
=============================================================================
