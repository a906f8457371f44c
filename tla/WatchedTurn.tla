----------------------------- MODULE WatchedTurn -----------------------------
(***************************************************************************)
(* What the watch on a Bot's stream promises, after the head comments of   *)
(* server/src/channels/turn-watchdog.ts and stall-guard.ts: a turn ends    *)
(* once and in one way, and it is ended for silence only after the         *)
(* process waited on the Bot, unbroken, for the whole of StallMs.  Time    *)
(* spent handing a chunk to the reader counts for nothing.                 *)
(***************************************************************************)
EXTENDS Naturals

CONSTANTS Streams, StallMs

VARIABLES
    phase,      \* what the process is doing with each stream
    quiet,      \* how long it has waited on the Bot, unbroken
    verdict     \* how the turn ended, for whoever reads it

vars == <<phase, quiet, verdict>>

Init ==
    /\ phase = [s \in Streams |-> "unopened"]
    /\ quiet = [s \in Streams |-> 0]
    /\ verdict = [s \in Streams |-> "none"]

Open(s) ==
    /\ phase[s] = "unopened"
    /\ phase' = [phase EXCEPT ![s] = "listening"]
    /\ UNCHANGED <<quiet, verdict>>

Hear(s) ==
    /\ phase[s] = "listening"
    /\ phase' = [phase EXCEPT ![s] = "delivering"]
    /\ quiet' = [quiet EXCEPT ![s] = 0]
    /\ UNCHANGED verdict

Deliver(s) ==
    /\ phase[s] = "delivering"
    /\ phase' = [phase EXCEPT ![s] = "listening"]
    /\ UNCHANGED <<quiet, verdict>>

Pass ==
    /\ quiet' = [s \in Streams |->
                   IF phase[s] = "listening" /\ quiet[s] < StallMs THEN quiet[s] + 1 ELSE quiet[s]]
    /\ UNCHANGED <<phase, verdict>>

\* The turn ends the way its Bot, or its reader, ended it.
Finish(s) ==
    /\ phase[s] \in {"listening", "delivering"}
    /\ phase' = [phase EXCEPT ![s] = "ended"]
    /\ quiet' = [quiet EXCEPT ![s] = 0]
    /\ \E v \in {"closed", "aborted"} : verdict' = [verdict EXCEPT ![s] = v]

\* All the turns that have been silent for too long end together.
GiveUp ==
    LET silent == {s \in Streams : phase[s] = "listening" /\ quiet[s] = StallMs}
    IN  /\ phase' = [s \in Streams |-> IF s \in silent THEN "ended" ELSE phase[s]]
        /\ quiet' = [s \in Streams |-> IF s \in silent THEN 0 ELSE quiet[s]]
        /\ \E v \in [silent -> {"told", "closed"}] :
             verdict' = [s \in Streams |-> IF s \in silent THEN v[s] ELSE verdict[s]]

Next == Pass \/ GiveUp \/ \E s \in Streams : Open(s) \/ Hear(s) \/ Deliver(s) \/ Finish(s)

Spec == Init /\ [][Next]_vars
=============================================================================
