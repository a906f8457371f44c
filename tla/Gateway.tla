------------------------------- MODULE Gateway -------------------------------
(***************************************************************************)
(* The only way an action reaches a Bot's computer: govern, snapshot and   *)
(* the handovers of server/src/computer/gateway.ts, with what client.ts    *)
(* makes of a lost reply.  Deciding is synchronous; the audit insert, the  *)
(* call to the computer and the failure row are awaits, at which the calls *)
(* of a channel's participants interleave.                                 *)
(*                                                                         *)
(* The computer is the one of AgentComputer seen from outside: a snapshot  *)
(* or a navigation moves its generation on, an action naming another one   *)
(* is refused, and a computer that was stopped, reset or died counts from  *)
(* 0 again, which this server is not told.  The audit table is external:   *)
(* an insert lands or throws.  One ref is followed: an element is what     *)
(* that ref names in a snapshot, Unknown when it names nothing.            *)
(***************************************************************************)
EXTENDS ActionPolicy, FiniteSets

CONSTANTS
    Calls,           \* acting calls of Bots, each made once
    Handovers,       \* stop, reset and wheel calls, each made once
    Elements,        \* what the ref may name
    Unknown,         \* the context of a ref the cached snapshot does not hold
    Policies,        \* what options.policy() may answer, at one call or another
    MaxGen,          \* bound: generations a computer counts up to
    MaxLives,        \* bound: times the computer starts anew
    MaxCrashes,      \* bound: restarts of this server
    MaxBusy,         \* bound: calls and snapshots under way at once
    AuditMayFail     \* whether an audit insert may throw

ASSUME GatewayAssumption ==
    /\ Contexts = Elements \cup {Unknown} /\ Unknown \notin Elements
    /\ Policies \subseteq ActionPolicies /\ Policies # {}
    /\ Calls \cap Handovers = {}
    /\ AuditMayFail \in BOOLEAN

VARIABLES
    screen,          \* the computer: its life, its generation, what the ref names
    replies,         \* /snapshot replies on their way to this server
    cached,          \* snapshots.get(computerId), as what it says the ref names
    held,            \* history: generations the present computer gave this server
    call,            \* every call: its await, the generation it names, its decision
    audit,           \* the rows written: the call and the kind of event
    landed,          \* actions that reached the page, with what they touched
    crashes          \* restarts so far

vars == <<screen, replies, cached, held, call, audit, landed, crashes>>

Snapshots == [life : Nat, gen : Nat, names : Contexts]
NoRef == 0           \* a scroll, or a key pressed on the page itself

\* orphan: on the wire when this server died; unrecorded: over, and the row
\* that should say how could not be written.
Awaits == {"new", "record", "act", "reply", "failure", "wheel", "note",
           "over", "orphan", "unrecorded"}
InFlight == {"record", "act", "reply", "failure", "wheel", "note"}

\* policy is the one in force when the call was decided, and given says that
\* the generation it names was held then.
CallState == [at : Awaits, gen : Nat, given : BOOLEAN, judged : Contexts, policy : Policies]

\* action_refused that was carried out is a dry run's.
RowKinds == {"allowed", "refused", "dry-run", "failed", "handover"}

NotMade == [at |-> "new", gen |-> NoRef, given |-> FALSE, judged |-> Unknown,
            policy |-> CHOOSE p \in Policies : TRUE]

Init ==
    /\ screen = [life |-> 0, gen |-> 0, names |-> Unknown]
    /\ replies = {}
    /\ cached = Unknown
    /\ held = {}
    /\ call = [c \in Calls \cup Handovers |-> NotMade]
    /\ audit = {}
    /\ landed = {}
    /\ crashes = 0

-----------------------------------------------------------------------------
At(c, await) == call[c].at = await
Goes(c, await) == call' = [call EXCEPT ![c].at = await]
Rows(kind, c) == audit' = audit \cup {<<c, kind>>}

UnderWay == {c \in Calls \cup Handovers : call[c].at \in InFlight}
Free == Cardinality(UnderWay) + Cardinality(replies) < MaxBusy

-----------------------------------------------------------------------------
(* snapshot                                                                *)

TakeSnapshot ==
    /\ Free /\ screen.gen < MaxGen
    /\ \E names \in Elements : screen' = [screen EXCEPT !.gen = @ + 1, !.names = names]
    /\ replies' = replies \cup {screen'}
    /\ UNCHANGED <<cached, held, call, audit, landed, crashes>>

\* The map is set from each reply as it arrives, whatever it held and
\* whichever computer sent it.
SnapshotReplies(r) ==
    /\ replies' = replies \ {r}
    /\ cached' = r.names
    /\ held' = IF r.life = screen.life THEN held \cup {r.gen} ELSE held
    /\ UNCHANGED <<screen, call, audit, landed, crashes>>

SnapshotFails(r) ==
    /\ replies' = replies \ {r}
    /\ UNCHANGED <<screen, cached, held, call, audit, landed, crashes>>

-----------------------------------------------------------------------------
(* govern                                                                  *)

\* Mutant: the policy is asked about whatever the caller says it clicks.
resolveClaimed(gen) ==
    CHOOSE e \in Elements : \E policy \in Policies : evaluateActionPolicy(policy, e).allowed

\* The ref is looked up in the last snapshot cached, not in the one it came from.
resolve(gen) == IF gen = NoRef THEN Unknown ELSE cached

Govern(c, gen, policy) ==
    /\ At(c, "new") /\ Free
    /\ call' = [call EXCEPT ![c] =
                  [at |-> "record", gen |-> gen, given |-> gen \in held,
                   judged |-> resolve(gen), policy |-> policy]]
    /\ UNCHANGED <<screen, replies, cached, held, audit, landed, crashes>>

Decided(c) == evaluateActionPolicy(call[c].policy, call[c].judged)

RowOf(d) == IF d.allowed THEN "allowed" ELSE IF d.forward THEN "dry-run" ELSE "refused"

Record(c) ==
    /\ At(c, "record")
    /\ Rows(RowOf(Decided(c)), c)
    /\ Goes(c, IF Decided(c).forward THEN "act" ELSE "over")
    /\ UNCHANGED <<screen, replies, cached, held, landed, crashes>>

\* Mutant: a row that could not be written does not stop the action.
AfterUnrecordedActs == "act"
AfterUnrecorded == "unrecorded"

RecordFails(c) ==
    /\ At(c, "record") /\ AuditMayFail
    /\ Goes(c, AfterUnrecorded)
    /\ UNCHANGED <<screen, replies, cached, held, audit, landed, crashes>>

\* A navigation moves the generation on and leaves nothing for a ref to name.
Navigates ==
    /\ screen.gen < MaxGen
    /\ screen' = [screen EXCEPT !.gen = @ + 1, !.names = Unknown]

\* The computer compares generations, then acts on what is on the screen.
Lands(c) ==
    /\ At(c, "act") \/ At(c, "orphan")
    /\ \/ call[c].gen = NoRef /\ (UNCHANGED screen \/ Navigates)
       \/ call[c].gen = screen.gen /\ screen.names # Unknown /\ UNCHANGED screen
    /\ landed' = landed \cup {[call |-> c, touched |-> screen.names]}
    /\ Goes(c, IF At(c, "act") THEN "reply" ELSE "unrecorded")
    /\ UNCHANGED <<replies, cached, held, audit, crashes>>

\* 409, a failed locator, a computer that is away, a Stop before it left.
DoesNotLand(c) ==
    /\ At(c, "act") \/ At(c, "orphan")
    /\ Goes(c, IF At(c, "act") THEN "failure" ELSE "unrecorded")
    /\ UNCHANGED <<screen, replies, cached, held, audit, landed, crashes>>

Answered(c) ==
    /\ At(c, "reply")
    /\ Goes(c, "over")
    /\ UNCHANGED <<screen, replies, cached, held, audit, landed, crashes>>

\* The timeout or the Stop fires after the action has landed.
ReplyLost(c) ==
    /\ At(c, "reply")
    /\ Goes(c, "failure")
    /\ UNCHANGED <<screen, replies, cached, held, audit, landed, crashes>>

\* Mutant: the error is rethrown without its row.
FailureRowSkipped(c) == audit' = audit
FailureRow(c) == Rows("failed", c)

RecordFailure(c) ==
    /\ At(c, "failure")
    /\ FailureRow(c)
    /\ Goes(c, "over")
    /\ UNCHANGED <<screen, replies, cached, held, landed, crashes>>

FailureUnrecorded(c) ==
    /\ At(c, "failure") /\ AuditMayFail
    /\ Goes(c, "unrecorded")
    /\ UNCHANGED <<screen, replies, cached, held, audit, landed, crashes>>

-----------------------------------------------------------------------------
(* Handovers, stop and reset: the computer first, the row afterwards.      *)

\* Another process has the computer's place: it counts from 0, and what was
\* on its way to the old one dies with it.  The map of snapshots is kept.
NewComputer ==
    /\ screen.life < MaxLives
    /\ screen' = [life |-> screen.life + 1, gen |-> 0, names |-> Unknown]
    /\ held' = {}

Bereft == [c \in DOMAIN call |->
             IF At(c, "orphan") THEN [call[c] EXCEPT !.at = "unrecorded"] ELSE call[c]]

\* The computer is handed over, or stopped or reset with its container.
ComputerDoes(h, await) ==
    \/ UNCHANGED <<screen, held>> /\ Goes(h, await)
    \/ NewComputer /\ call' = [Bereft EXCEPT ![h].at = await]

FirstOfHandover == "wheel"

AskHandover(h) ==
    /\ At(h, "new") /\ Free
    /\ Goes(h, FirstOfHandover)
    /\ UNCHANGED <<screen, replies, cached, held, audit, landed, crashes>>

HandoverLands(h) ==
    /\ At(h, "wheel")
    /\ landed' = landed \cup {[call |-> h, touched |-> screen.names]}
    /\ ComputerDoes(h, "note")
    /\ UNCHANGED <<replies, cached, audit, crashes>>

\* The computer refused, or its reply was lost after it did as it was told.
HandoverFails(h) ==
    /\ At(h, "wheel")
    /\ \/ UNCHANGED <<screen, held, landed>> /\ Goes(h, "over")
       \/ /\ landed' = landed \cup {[call |-> h, touched |-> screen.names]}
          /\ ComputerDoes(h, "over")
    /\ UNCHANGED <<replies, cached, audit, crashes>>

RecordHandover(h) ==
    /\ At(h, "note")
    /\ Rows("handover", h)
    /\ Goes(h, "over")
    /\ UNCHANGED <<screen, replies, cached, held, landed, crashes>>

HandoverUnrecorded(h) ==
    /\ At(h, "note") /\ AuditMayFail
    /\ Goes(h, "unrecorded")
    /\ UNCHANGED <<screen, replies, cached, held, audit, landed, crashes>>

-----------------------------------------------------------------------------
\* This server dies: what was on the wire to the computer may still land.
Crash ==
    /\ crashes < MaxCrashes
    /\ crashes' = crashes + 1
    /\ cached' = Unknown
    /\ replies' = {}
    /\ call' = [c \in DOMAIN call |->
                  IF c \in UnderWay
                  THEN [call[c] EXCEPT !.at = IF @ = "act" THEN "orphan" ELSE "unrecorded"]
                  ELSE call[c]]
    /\ UNCHANGED <<screen, held, audit, landed>>

\* The computer's process dies and is started again.
ComputerDies ==
    /\ NewComputer
    /\ call' = Bereft
    /\ UNCHANGED <<replies, cached, audit, landed, crashes>>

\* A caller may name any generation, one it was never given included.
Acting(c) ==
    \/ \E gen \in 0..MaxGen, policy \in Policies : Govern(c, gen, policy)
    \/ Record(c) \/ RecordFails(c)
    \/ Lands(c) \/ DoesNotLand(c) \/ Answered(c) \/ ReplyLost(c)
    \/ RecordFailure(c) \/ FailureUnrecorded(c)

Handing(h) ==
    \/ AskHandover(h) \/ HandoverLands(h) \/ HandoverFails(h)
    \/ RecordHandover(h) \/ HandoverUnrecorded(h)

Next ==
    \/ TakeSnapshot
    \/ \E r \in replies : SnapshotReplies(r) \/ SnapshotFails(r)
    \/ \E c \in Calls : Acting(c)
    \/ \E h \in Handovers : Handing(h)
    \/ Crash
    \/ ComputerDies

Spec == Init /\ [][Next]_vars

-----------------------------------------------------------------------------
(* Types of the computer, the cache, the calls and the trail.              *)
TypeOK ==
    /\ screen \in Snapshots
    /\ replies \subseteq Snapshots
    /\ cached \in Contexts
    /\ held \subseteq Nat
    /\ call \in [Calls \cup Handovers -> CallState]
    /\ audit \subseteq (Calls \cup Handovers) \X RowKinds
    /\ landed \subseteq [call : Calls \cup Handovers, touched : Contexts]
    /\ crashes \in Nat

(* No action of a Bot reaches the page without a row that says it was      *)
(* forwarded, whatever fails or restarts (the head of gateway.ts).         *)
NothingActsUnrecorded ==
    \A l \in landed : l.call \in Calls =>
        <<l.call, "allowed">> \in audit \/ <<l.call, "dry-run">> \in audit

(* What the policy refuses in enforce mode never reaches the page: the     *)
(* element touched, when the map held it, is the one it was asked about.   *)
(* A call is excepted whose generation the computer of that time had not   *)
(* given this server: one that is guessed, or was given by an earlier one. *)
DecidedOnWhatItTouches ==
    \A l \in landed : (l.call \in Calls /\ call[l.call].given) =>
        call[l.call].judged \in {l.touched, Unknown}

(* The trail tells what happened: a call that was let through, and that    *)
(* this server saw to its end, reached the page or has a row saying it did *)
(* not, and a row about the wheel, a stop or a reset is about one that     *)
(* happened (the comment on the failure row; takeControl, stopComputer and *)
(* resetComputer ask the computer first).                                  *)
TrailIsTrue ==
    /\ \A c \in Calls : (At(c, "over") /\ \E k \in {"allowed", "dry-run"} : <<c, k>> \in audit) =>
          <<c, "failed">> \in audit \/ \E l \in landed : l.call = c
    /\ \A h \in Handovers : <<h, "handover">> \in audit => \E l \in landed : l.call = h
=============================================================================
