------------------------------ MODULE AgentStore ------------------------------
(***************************************************************************)
(* Agents and the channels that link them, server/src/agents/profile-      *)
(* store.ts, auth-header.ts and create of channels/routes.ts: transactions *)
(* of several statements, the row locks they take in Postgres, and the     *)
(* pool of connections they run on.  What a transaction writes is seen by  *)
(* the others when it commits; the vault is written on a connection of its *)
(* own, and so at once.  Postgres is external: it grants a lock when no    *)
(* other transaction holds one that conflicts and ends one transaction of  *)
(* a cycle of waiters.  Which actor may see or manage which agent is       *)
(* abstracted to a transaction that may be refused.                        *)
(***************************************************************************)
EXTENDS Naturals, FiniteSets

CONSTANTS
    Agents,       \* agent ids, compared as sort() compares them
    Founding,     \* agents that are there from the start; others may be
    MaxRequests,  \* how many requests come
    Pool          \* connections the pool may hold

ASSUME AgentAssumption ==
    /\ Agents \subseteq Nat
    /\ MaxRequests \in Nat
    /\ Pool \in Nat \ {0}

\* Requests, numbered as they arrive; each is served once.
Requests == 1 .. MaxRequests
\* No key, no token, no operation yet.
None == 0

VARIABLES
    row,          \* every agent and its profile, as committed
    vault,        \* the requests whose key the vault holds
    channel,      \* the agents every request linked to a committed channel
    req           \* every request: what it asks and where it is

vars == <<row, vault, channel, req>>

Mutations == {"update", "softDelete", "issue", "revoke"}
Ops == Mutations \cup {"create", "hide", "link"}

Row == [state : {"absent", "live", "deleted"},
        key   : Requests \cup {None},      \* whose key the configuration names
        token : Requests \cup {None}]      \* whose callback token is in force
NoAgent == [state |-> "absent", key |-> None, token |-> None]
NewAgent(key) == [state |-> "live", key |-> key, token |-> None]

Tables == {"agents", "profiles"}
Lock == [table : Tables, agent : Agents, mode : {"update", "share", "keyshare"}]
Conflict(l, m) == /\ l.table = m.table
                  /\ l.agent = m.agent
                  /\ l.mode = "update" \/ m.mode = "update"

Waits == {"agents", "profiles", "hold", "refer", "pref"}
InTransaction == Waits \cup {"find", "key", "write"}
Request == [op      : Ops \cup {"none"},
            on      : SUBSET Agents,
            withKey : BOOLEAN,
            at      : {"idle", "begin", "done"} \cup InTransaction,
            holds   : SUBSET Lock,
            seen    : Requests \cup {None}]  \* the key the configuration it read names
Idle == [op |-> "none", on |-> {}, withKey |-> FALSE, at |-> "idle", holds |-> {}, seen |-> None]

Init ==
    /\ row \in [Agents -> {NoAgent, NewAgent(None)}]
    /\ \A a \in Agents \cap Founding : row[a] = NewAgent(None)
    /\ vault = {}
    /\ channel = [r \in Requests |-> {}]
    /\ req = [r \in Requests |-> Idle]

-----------------------------------------------------------------------------
(* Locks, connections and who waits for whom.                              *)

Ends(r) == req' = [req EXCEPT ![r] = [Idle EXCEPT !.at = "done"]]
Goes(r, at) == req' = [req EXCEPT ![r].at = at]

InUse == Cardinality({r \in Requests : req[r].at \in InTransaction})
Free(r, locks) == \A s \in Requests \ {r} : \A l \in req[s].holds, m \in locks : ~Conflict(l, m)

Lowest(S) == {a \in S : \A b \in S : a <= b}
Held(q, table, mode) == {a \in q.on : [table |-> table, agent |-> a, mode |-> mode] \in q.holds}
NotShared(q) == q.on \ Held(q, "profiles", "share")
NotReferred(q) == q.on \ Held(q, "agents", "keyshare")

\* Mutant: lockProfileMutationRows is not called.
LockMutationRowMissing(table, q) == {}
\* lockProfileMutationRows, one table at a time: FOR UPDATE.
LockMutationRow(table, q) == {[table |-> table, agent |-> a, mode |-> "update"] : a \in q.on}

\* Mutant: getWithin reads without locking.
LockReadRowMissing(a) == {}
\* lockProfileReadRow: FOR SHARE.
LockReadRow(a) == {[table |-> "profiles", agent |-> a, mode |-> "share"]}

\* What a row that references an agent locks: FOR KEY SHARE, by the foreign key.
Refers(a) == {[table |-> "agents", agent |-> a, mode |-> "keyshare"]}

\* The locks of the statement a request is at.
Wanted(q) ==
    CASE q.at \in Tables -> LockMutationRow(q.at, q)
      [] q.at = "hold"   -> UNION {LockReadRow(a) : a \in Lowest(NotShared(q))}
      [] q.at = "refer"  -> UNION {Refers(a) : a \in Lowest(NotReferred(q))}
      [] q.at = "pref"   -> UNION {Refers(a) : a \in q.on}
      [] OTHER           -> {}

WaitsFor(r, s) == \E l \in req[s].holds, m \in Wanted(req[r]) : Conflict(l, m)
Deadlocked(r) ==
    \E S \in SUBSET Requests :
        /\ r \in S
        /\ \A s \in S : (\E t \in S \ {s} : WaitsFor(s, t)) /\ (\E t \in S \ {s} : WaitsFor(t, s))

\* Mutant: the profiles of a channel are read through get, on another connection.
SecondConnectionForLinks(q) == q.at \in {"key", "hold"}
\* The statements that borrow a connection besides the transaction's own.
SecondConnection(q) == q.at = "key"
HasConnection(r) == SecondConnection(req[r]) => InUse < Pool

-----------------------------------------------------------------------------
(* A request, from its arrival to its commit.                              *)

Claimed == UNION {req[r].on : r \in {s \in Requests : req[s].op = "create"}}

\* create writes an id of its own, and so does duplicate, which brings no key; nobody
\* asks for an id before it is there.
Arrives(r) ==
    /\ req[r].at = "idle" /\ \A s \in 1 .. r - 1 : req[s].at # "idle"
    /\ \E op \in Ops, on \in SUBSET Agents \ {{}}, withKey \in BOOLEAN :
         /\ op # "link" => \E a \in Agents : on = {a}
         /\ op = "create" => on \cap Claimed = {}
         /\ \A a \in on : op = "create" <=> row[a] = NoAgent
         /\ withKey => op \in {"create", "update"}
         /\ req' = [req EXCEPT ![r] = [Idle EXCEPT !.op = op, !.on = on,
                                                   !.withKey = withKey, !.at = "begin"]]
    /\ UNCHANGED <<row, vault, channel>>

FirstStatement(q) ==
    CASE q.op \in Mutations          -> "agents"
      [] q.op = "hide"               -> "find"
      [] q.op = "link"               -> "hold"
      [] q.op = "create" /\ q.withKey -> "key"
      [] OTHER                       -> "write"

Begin(r) ==
    /\ req[r].at = "begin"
    /\ InUse < Pool
    /\ Goes(r, FirstStatement(req[r]))
    /\ UNCHANGED <<row, vault, channel>>

Takes(r, locks, at) ==
    /\ Free(r, locks)
    /\ HasConnection(r)
    /\ req' = [req EXCEPT ![r].holds = @ \cup locks, ![r].at = at]
    /\ UNCHANGED <<row, vault, channel>>

LockAgent(r) == req[r].at = "agents" /\ Takes(r, LockMutationRow("agents", req[r]), "profiles")
LockProfile(r) == req[r].at = "profiles" /\ Takes(r, LockMutationRow("profiles", req[r]), "find")

\* findAccessibleProfile, and in update the configuration read after it.
Find(r) ==
    /\ req[r].at = "find"
    /\ \E a \in req[r].on :
         /\ row[a].state = "live"
         /\ req' = [req EXCEPT
              ![r].seen = row[a].key,
              ![r].at = IF req[r].op = "hide" THEN "pref"
                        ELSE IF req[r].withKey THEN "key" ELSE "write"]
    /\ UNCHANGED <<row, vault, channel>>

\* getWithin, for the agents of a channel in the order of their ids.
Hold(r) ==
    /\ req[r].at = "hold"
    /\ \E a \in Lowest(NotShared(req[r])) :
         /\ row[a].state = "live"
         /\ Takes(r, LockReadRow(a), IF NotShared(req[r]) = {a} THEN "refer" ELSE "hold")

\* The row of channel_agents, or of agent_preferences.
Refer(r) ==
    /\ req[r].at = "refer"
    /\ \E a \in Lowest(NotReferred(req[r])) :
         Takes(r, Refers(a), IF NotReferred(req[r]) = {a} THEN "write" ELSE "refer")
Prefer(r) == req[r].at = "pref" /\ Takes(r, Wanted(req[r]), "write")

\* storeAgentAuth: the vault's own connection, its own commit.
StoreKey(r) ==
    /\ req[r].at = "key"
    /\ HasConnection(r)
    /\ vault' = vault \cup {r}
    /\ Goes(r, "write")
    /\ UNCHANGED <<row, channel>>

Written(r, old) ==
    CASE req[r].op = "update"     -> [old EXCEPT !.key = IF req[r].withKey THEN r ELSE req[r].seen]
      [] req[r].op = "softDelete" -> [old EXCEPT !.state = "deleted"]
      [] req[r].op = "issue"      -> [old EXCEPT !.token = r]
      [] req[r].op = "revoke"     -> [old EXCEPT !.token = None]
      [] req[r].op = "create"     -> NewAgent(IF req[r].withKey THEN r ELSE None)
      [] OTHER                    -> old

\* The last writes, and the commit that shows them and drops the locks.
Commit(r) ==
    /\ req[r].at = "write"
    /\ row' = [a \in Agents |-> IF a \in req[r].on THEN Written(r, row[a]) ELSE row[a]]
    /\ channel' = [channel EXCEPT ![r] = IF req[r].op = "link" THEN req[r].on ELSE @]
    /\ Ends(r)
    /\ UNCHANGED vault

\* Not found, refused, or a statement that fails: what the vault took stays there.
Rollback(r) ==
    /\ req[r].at \in InTransaction
    /\ HasConnection(r)
    /\ Ends(r)
    /\ UNCHANGED <<row, vault, channel>>

\* Nothing to find.
NotFound(r) ==
    /\ \/ req[r].at = "find" /\ \E a \in req[r].on : row[a].state # "live"
       \/ /\ req[r].at = "hold"
          /\ \E a \in Lowest(NotShared(req[r])) : row[a].state # "live"
          /\ Free(r, Wanted(req[r]))
    /\ Rollback(r)

\* Postgres ends a transaction of a cycle.
EndedByPostgres(r) == Deadlocked(r) /\ Rollback(r)

Continue(r) ==
    \/ Begin(r) \/ LockAgent(r) \/ LockProfile(r) \/ Find(r) \/ Hold(r) \/ Refer(r)
    \/ Prefer(r) \/ StoreKey(r) \/ Commit(r) \/ NotFound(r) \/ EndedByPostgres(r)

Next == \E r \in Requests : Arrives(r) \/ Continue(r) \/ Rollback(r)

Spec == Init /\ [][Next]_vars

\* A statement that can run does, and Postgres looks for deadlocks.
FairSpec == Spec /\ \A r \in Requests : WF_vars(Continue(r))

-----------------------------------------------------------------------------
(* Types of the rows, the vault, the channels and the requests.            *)
TypeOK ==
    /\ row \in [Agents -> Row]
    /\ vault \subseteq Requests
    /\ channel \in [Requests -> SUBSET Agents]
    /\ req \in [Requests -> Request]

(* A deleted agent is final: no token is issued to it, no key set on it and *)
(* nothing brings it back, whatever was in flight when it was deleted       *)
(* (lockProfileMutationRows and the find after it).                         *)
TombstonesAreFinal ==
    [][\A a \in Agents : row[a].state = "deleted" => row'[a] = row[a]]_vars

(* A channel is created over agents that are live as it commits: no        *)
(* deletion slips between the check and the link (the comment on           *)
(* getWithin).                                                             *)
LinksAreLive ==
    [][\A r \in Requests : channel'[r] # channel[r] =>
         \A a \in channel'[r] : row[a].state = "live"]_vars

(* A key leaves a configuration only for the key of the request that ends  *)
(* in that very step: an edit that brings none leaves it alone (the        *)
(* comment in update), however edits overlap.                              *)
EditsKeepTheKey ==
    [][\A a \in Agents : row'[a].key # row[a].key =>
         \E r \in Requests : /\ row'[a].key = r
                             /\ r \in vault
                             /\ req[r].at = "write" /\ req'[r].at = "done"]_vars

\* Every connection belongs to a transaction, and one of them waits for another connection.
Starved == InUse = Pool /\ \E r \in Requests : req[r].at = "key"

(* Every request that arrives ends, unless the pool is starved for good by *)
(* a transaction that stores a key: no order of locks and no other         *)
(* statement can leave one waiting (the comments on getWithin and on       *)
(* createDatabase).                                                        *)
EveryRequestEnds ==
    \/ <>[]Starved
    \/ \A r \in Requests : req[r].at = "begin" ~> req[r].at = "done"
=============================================================================
