----------------------------- MODULE PolicyStore -----------------------------
(***************************************************************************)
(* The policy in force and the row that outlives the process,              *)
(* server/src/computer/policy-store.ts, with the PUT /policy route that    *)
(* calls set.  get is synchronous and reads memory; set and reset await    *)
(* the database and only then change memory, so calls of several           *)
(* administrators interleave at that await.  Postgres is external: a       *)
(* statement takes effect, fails, or takes effect and loses its reply.     *)
(***************************************************************************)
EXTENDS ActionPolicy

CONSTANTS
    Admins,          \* administrators with a call in flight at most each
    Configured,      \* the policy configuration states
    Writable,        \* the policies an administrator may write
    NoRow,           \* the table holds no policy
    MayLoseReplies   \* whether a connection may drop after the statement ran

ASSUME PolicyAssumption ==
    /\ Configured \in ActionPolicies
    /\ Writable \subseteq ActionPolicies
    /\ NoRow \notin ActionPolicies
    /\ MayLoseReplies \in BOOLEAN

VARIABLES
    current,         \* the memory copy, what get() answers
    row,             \* the row of the action_policy table
    change,          \* every administrator's call: where it is, what it writes
    overtaken,       \* history: calls whose row another statement has replaced
    astray           \* history: memory may not be the record, until a call sets it right

storeVars == <<current, row, change, overtaken, astray>>

Idle == [at |-> "idle", next |-> NoRow]
Change == [at : {"idle", "sent", "done"}, next : Writable \cup {NoRow}]

\* What a process that boots now would enforce.
OnRecord(r) == IF r = NoRow THEN Configured ELSE r

StoreInit ==
    /\ row \in Writable \cup {NoRow}
    /\ current = OnRecord(row)
    /\ change = [a \in Admins |-> Idle]
    /\ overtaken = {}
    /\ astray = FALSE

ChangeIs(a, at) == change' = [change EXCEPT ![a].at = at]

\* set(policy) with a policy, reset() with NoRow: the statement is sent.
Send(a, next) ==
    /\ change[a].at = "idle"
    /\ change' = [change EXCEPT ![a] = [at |-> "sent", next |-> next]]
    /\ overtaken' = overtaken \ {a}
    /\ UNCHANGED <<current, row, astray>>

\* The upsert, or the delete, takes effect.
Writes(a) ==
    /\ change[a].at = "sent"
    /\ row' = change[a].next
    /\ ChangeIs(a, "done")
    /\ overtaken' = overtaken \cup {b \in Admins : b # a /\ change[b].at = "done"}
    /\ UNCHANGED <<current, astray>>

\* Mutant: a policy that could not be saved is enforced all the same.
InForceAfterFailureApplied(a) == OnRecord(change[a].next)
InForceAfterFailure(a) == current

\* set throws and the route answers 503: either nothing ran, or the reply was lost.
Refused(a) ==
    /\ change[a].at = "sent" \/ (change[a].at = "done" /\ MayLoseReplies)
    /\ current' = InForceAfterFailure(a)
    /\ change' = [change EXCEPT ![a] = Idle]
    /\ astray' = (astray \/ change[a].at = "done")
    /\ UNCHANGED <<row, overtaken>>

\* The await resolves: memory takes the policy this call wrote.
Applies(a) ==
    /\ change[a].at = "done"
    /\ current' = OnRecord(change[a].next)
    /\ change' = [change EXCEPT ![a] = Idle]
    /\ astray' = (a \in overtaken)
    /\ UNCHANGED <<row, overtaken>>

\* The process dies and boots; it serves nothing before load() has answered.
\* A statement the database already has still takes effect or is rolled back.
Restart ==
    /\ \E landed \in {change[a].next : a \in {b \in Admins : change[b].at = "sent"}} \cup {row} :
         /\ row' = landed
         /\ current' = OnRecord(landed)
    /\ change' = [a \in Admins |-> Idle]
    /\ overtaken' = {}
    /\ astray' = FALSE

StoreNext ==
    \/ Restart
    \/ \E a \in Admins :
         \/ \E next \in Writable \cup {NoRow} : Send(a, next)
         \/ Writes(a) \/ Refused(a) \/ Applies(a)

StoreSpec == StoreInit /\ [][StoreNext]_storeVars

-----------------------------------------------------------------------------
(* Types of the memory copy, the row and the calls.                        *)
StoreTypeOK ==
    /\ current \in Writable \cup {Configured}
    /\ row \in Writable \cup {NoRow}
    /\ change \in [Admins -> Change]
    /\ overtaken \subseteq Admins
    /\ astray \in BOOLEAN

InBetween == \E a \in Admins : change[a].at = "done"

(* What is enforced is what a restart would enforce, however the calls of  *)
(* administrators cross, fail and restart, but while the reply to a        *)
(* statement that ran is on its way; and but after one that was lost or    *)
(* came behind another's statement, until a reply comes in order again     *)
(* (the head of policy-store.ts, set and reset).                           *)
MemoryIsTheRecord == ~astray /\ ~InBetween => current = OnRecord(row)

(* Replacing the policy in force by a tighter one, a restart included,     *)
(* permits nothing that was not permitted before (deny beats allow,        *)
(* policy.ts).                                                             *)
TighterPermitsNoMore ==
    [][Tighter(current', current) =>
         \A c \in Contexts : Permits(current', c) => Permits(current, c)]_storeVars

(* A rule that starts to throw never opens what was closed: a broken deny  *)
(* still denies, a broken allow does not permit (the comment on matches).  *)
BrokenOpensNothing ==
    [][Breaks(current', current) =>
         \A c \in Contexts : Permits(current', c) => Permits(current, c)]_storeVars
=============================================================================
