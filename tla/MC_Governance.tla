---------------------------- MODULE MC_Governance ----------------------------
(* Small instances of what governs a Bot's actions, for TLC: the policy    *)
(* store, the gateway that asks a policy and keeps the trail, and the      *)
(* Bot's computer, which asks who drives and what a ref names.  Each       *)
(* behaviour moves one of them.  To the gateway the ref names a plain      *)
(* control or a submit button, and the policy forbids the button, or       *)
(* would; to the store every policy is written with at most two rules that *)
(* deny and one that allows, each the same answer whatever it is asked.    *)
EXTENDS Gateway, PolicyStore, AgentComputer, TLC

MCElements == {"plain", "submit"}
MCContexts == MCElements \cup {"unknown"}

Is(e) == [c \in MCContexts |-> IF c = e THEN "true" ELSE "other"]
Always == [c \in MCContexts |-> "true"]

Enforced == [mode |-> "enforce", deny |-> <<Is("submit")>>, allow |-> <<Always>>]
DryRun   == [Enforced EXCEPT !.mode = "dry-run"]
MCPolicies == {Enforced, DryRun}

Rule == {[c \in MCContexts |-> outcome] : outcome \in Outcomes}
AtMostOne == {<<>>} \cup {<<r>> : r \in Rule}
AtMostTwo == AtMostOne \cup {<<r, s>> : r, s \in Rule}
MCWritable == [mode : Modes, deny : AtMostTwo, allow : AtMostOne]
MCConfigured == [mode |-> "enforce", deny |-> <<>>, allow |-> <<Always>>]

CONSTANT MaxEvents \* bound: the gateway's calls, handovers, restarts and new computers, together

\* For the run that checks no liveness.
Symmetry == Permutations(Calls) \cup Permutations(Slots)

VARIABLES
    moving,      \* the part that moves
    overlapped,  \* history: calls, snapshots and computers of the gateway met
    crowded      \* history: two of the Bot's own requests were in flight on the computer

governanceVars == <<storeVars, vars, computerVars, overlapped, crowded, moving>>

\* The computer dies under a Bot's call; what a stop or a reset ends is AtOnce.
ComputerDiesUnder == screen'.life # screen.life /\ \E c \in Calls : call[c].at \in InFlight

AtOnce ==
    \/ UnderWay # {} /\ replies # {}
    \/ (\E c, d \in UnderWay : c # d) \/ (\E r, q \in replies : r # q)

Made == {c \in Calls \cup Handovers : call[c].at # "new"}
Events == Cardinality(Made) + crashes + screen.life

OfBot == {s \in Slots : req[s].kind \in BotKinds \cup {"snapshot"}}

MCInit ==
    /\ moving \in {"store", "gateway", "computer"}
    /\ StoreInit /\ Init /\ ComputerInit
    /\ overlapped = FALSE /\ crowded = FALSE
    \* One initial state of a part that does not move is enough.
    /\ moving # "store" => row = NoRow
MCNext ==
    /\ UNCHANGED moving
    /\ \/ /\ moving = "store" /\ StoreNext
          /\ UNCHANGED <<vars, computerVars, overlapped, crowded>>
       \/ /\ moving = "gateway" /\ Next
          /\ Events' <= MaxEvents
          /\ overlapped' = (overlapped \/ AtOnce' \/ ComputerDiesUnder)
          /\ UNCHANGED <<storeVars, computerVars, crowded>>
       \/ /\ moving = "computer" /\ ComputerNext
          /\ crowded' = (crowded \/ (\E s, t \in OfBot : s # t)')
          /\ UNCHANGED <<storeVars, vars, overlapped>>

\* The fairness of the computer, as its own module states it.
ComputerIsFair == \A s \in Slots : WF_computerVars(moving = "computer" /\ Continue(s))

MCSpec == MCInit /\ [][MCNext]_governanceVars /\ ComputerIsFair

(* When a Bot's calls, its snapshots and the replacements of its computer  *)
(* come one at a time, restarts of this server wherever they fall, the     *)
(* policy was asked about what the call touches, although generations come *)
(* again and the map is kept (resolve and the snapshots map).              *)
DecidedOnWhatItTouchesAlone == ~overlapped => DecidedOnWhatItTouches

(* As long as the Bot's own requests come one at a time, whatever the      *)
(* person, stop and the page do meanwhile: a call let past the generation  *)
(* check is about the newest capture (locateRef, snapshotPage).            *)
ListedStillNewestAlone == ~crowded => ListedStillNewest
=============================================================================
