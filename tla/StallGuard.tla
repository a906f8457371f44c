------------------------------ MODULE StallGuard ------------------------------
(***************************************************************************)
(* The relay that watches a Bot's stream, createStallGuard of              *)
(* server/src/channels/stall-guard.ts, with the TurnWatchdog it owns       *)
(* (turn-watchdog.ts).  A pump per stream alternates two waits, a read     *)
(* from the Bot and a write to the reader; a sweep shared by all of them   *)
(* runs on a timer and may end a stream under its pump.                    *)
(*                                                                         *)
(* The clock is kept as an age, now - lastChunkAt, which is all sweep      *)
(* compares; ages above StallMs are alike.  Bytes, the audit row and the   *)
(* sentence written are left out; the Bot, the reader and the streams of   *)
(* the platform are external.  A watchdog switched off (stallMs <= 0)      *)
(* wraps nothing, so StallMs is positive.                                  *)
(***************************************************************************)
EXTENDS Naturals

CONSTANTS
    Streams,     \* streams that may be opened, each a fresh randomUUID
    StallMs,     \* silence this long ends the turn, in ticks
    MayStop      \* whether stop() is called: at shutdown, and in tests

ASSUME StallAssumption == StallMs \in Nat \ {0} /\ MayStop \in BOOLEAN

VARIABLES
    body,        \* the Bot's response body, as a read would find it
    sse,         \* whether an event may be written into the stream
    gone,        \* whoever read the relayed stream cancelled it
    relay,       \* how the relayed stream ended
    pump,        \* what pump(id) awaits
    streams,     \* the guard's map: ids not yet released
    watched,     \* the watchdog's map: ids whose clock is kept
    age,         \* now - lastChunkAt
    paused,
    sweeper      \* the interval is armed

vars == <<body, sse, gone, relay, pump, streams, watched, age, paused, sweeper>>

Init ==
    /\ body = [s \in Streams |-> "none"]
    /\ sse = [s \in Streams |-> FALSE]
    /\ gone = {}
    /\ relay = [s \in Streams |-> "none"]
    /\ pump = [s \in Streams |-> "none"]
    /\ streams = {}
    /\ watched = {}
    /\ age = [s \in Streams |-> 0]
    /\ paused = {}
    /\ sweeper = FALSE

-----------------------------------------------------------------------------
(* The watchdog.                                                           *)

Due == {s \in watched : s \notin paused /\ age[s] >= StallMs}

\* A tick of the clock.
Tick ==
    /\ age' = [s \in Streams |-> IF s \in watched /\ age[s] < StallMs THEN age[s] + 1 ELSE age[s]]
    /\ UNCHANGED <<body, sse, gone, relay, pump, streams, watched, paused, sweeper>>

\* record then pause, when a read resolves; ids off the watch are ignored.
RecordAndPause(s) ==
    /\ age' = IF s \in watched THEN [age EXCEPT ![s] = 0] ELSE age
    /\ paused' = IF s \in watched THEN paused \cup {s} ELSE paused

\* Mutant: the clock runs on from the last chunk.
RestartedKeepsRunning(s) == age[s]
Restarted(s) == 0

resume(s) ==
    /\ age' = IF s \in watched THEN [age EXCEPT ![s] = Restarted(s)] ELSE age
    /\ paused' = paused \ {s}

-----------------------------------------------------------------------------
(* release: off both maps, for the first caller only.                      *)

FirstToRelease(s) == s \in streams

Released(S) ==
    /\ streams' = streams \ S
    /\ watched' = watched \ S
    /\ paused' = paused \ S
    /\ age' = [s \in Streams |-> IF s \in S THEN 0 ELSE age[s]]

Returns(s, verdict) ==
    /\ pump' = [pump EXCEPT ![s] = "returned"]
    /\ relay' = IF FirstToRelease(s) THEN [relay EXCEPT ![s] = verdict] ELSE relay
    /\ Released({s})

-----------------------------------------------------------------------------
(* watch and pump                                                          *)

\* The Bot answered: both maps, the timer and the pump start together.
Watch(s) ==
    /\ body[s] = "none"
    /\ body' = [body EXCEPT ![s] = "open"]
    /\ \E b \in BOOLEAN : sse' = [sse EXCEPT ![s] = b]
    /\ pump' = [pump EXCEPT ![s] = "reading"]
    /\ streams' = streams \cup {s}
    /\ watched' = watched \cup {s}
    /\ age' = [age EXCEPT ![s] = 0]
    /\ sweeper' = TRUE
    /\ UNCHANGED <<gone, relay, paused>>

Chunk(s) ==
    /\ pump[s] = "reading" /\ body[s] = "open"
    /\ pump' = [pump EXCEPT ![s] = "writing"]
    /\ RecordAndPause(s)
    /\ UNCHANGED <<body, sse, gone, relay, streams, watched, sweeper>>

Delivered(s) ==
    /\ pump[s] = "writing" /\ s \notin gone
    /\ pump' = [pump EXCEPT ![s] = "reading"]
    /\ resume(s)
    /\ UNCHANGED <<body, sse, gone, relay, streams, watched, sweeper>>

\* done: the Bot closed its body, or giveUp cancelled the reader.
EndOfBody(s) ==
    /\ pump[s] = "reading" /\ body[s] \in {"done", "cancelled"}
    /\ Returns(s, "closed")
    /\ UNCHANGED <<body, sse, gone, sweeper>>

\* The read rejects, or the write does because the reader has gone.
Throws(s) ==
    /\ \/ pump[s] = "reading" /\ body[s] = "broken"
       \/ pump[s] = "writing" /\ s \in gone
    /\ Returns(s, "aborted")
    /\ UNCHANGED <<body, sse, gone, sweeper>>

-----------------------------------------------------------------------------
(* The sweep, with giveUp for every stream it reports: all of it before    *)
(* the audit insert happens within the timer's turn.                       *)

\* Mutant: one sweep is taken to be enough.
StillArmedNever(w) == FALSE
StillArmed(w) == w # {}

Sweep ==
    /\ sweeper
    /\ LET over == Due \cap streams IN
         /\ body' = [s \in Streams |-> IF s \in over THEN "cancelled" ELSE body[s]]
         /\ relay' = [s \in Streams |-> IF s \notin over THEN relay[s]
                                        ELSE IF sse[s] THEN "told" ELSE "closed"]
         /\ Released(Due)
    /\ sweeper' = StillArmed(watched')
    /\ UNCHANGED <<sse, gone, pump>>

stop ==
    /\ MayStop
    /\ sweeper' = FALSE
    /\ UNCHANGED <<body, sse, gone, relay, pump, streams, watched, age, paused>>

-----------------------------------------------------------------------------
(* The Bot and the reader.                                                 *)

BotEnds(s) ==
    /\ body[s] = "open"
    /\ \E end \in {"done", "broken"} : body' = [body EXCEPT ![s] = end]
    /\ UNCHANGED <<sse, gone, relay, pump, streams, watched, age, paused, sweeper>>

ReaderCancels(s) ==
    /\ pump[s] # "none" /\ s \notin gone
    /\ gone' = gone \cup {s}
    /\ UNCHANGED <<body, sse, relay, pump, streams, watched, age, paused, sweeper>>

Pump(s) == Chunk(s) \/ Delivered(s) \/ EndOfBody(s) \/ Throws(s)

Next ==
    \/ Tick \/ Sweep \/ stop
    \/ \E s \in Streams : Watch(s) \/ Pump(s) \/ BotEnds(s) \/ ReaderCancels(s)

Spec == Init /\ [][Next]_vars

\* Time passes, an armed interval fires, and a read of a body that is over
\* resolves.  Nothing is assumed of the Bot or of the reader.
Fairness ==
    /\ WF_vars(Tick) /\ WF_vars(Sweep)
    /\ \A s \in Streams : WF_vars(EndOfBody(s) \/ Throws(s))

-----------------------------------------------------------------------------
(* The promise, with this module's state read as WatchedTurn's.            *)

phase == [s \in Streams |->
            IF pump[s] = "none" THEN "unopened"
            ELSE IF s \notin streams THEN "ended"
            ELSE IF pump[s] = "writing" THEN "delivering" ELSE "listening"]

quiet == [s \in Streams |-> IF s \in paused THEN 0 ELSE age[s]]

Turn == INSTANCE WatchedTurn WITH phase <- phase, quiet <- quiet, verdict <- relay

-----------------------------------------------------------------------------
(* Types of the maps and of the streams.                                   *)
TypeOK ==
    /\ body \in [Streams -> {"none", "open", "done", "broken", "cancelled"}]
    /\ sse \in [Streams -> BOOLEAN]
    /\ gone \subseteq Streams
    /\ relay \in [Streams -> {"none", "closed", "aborted", "told"}]
    /\ pump \in [Streams -> {"none", "reading", "writing", "returned"}]
    /\ streams \subseteq Streams
    /\ watched \subseteq Streams
    /\ age \in [Streams -> 0 .. StallMs]
    /\ paused \subseteq watched
    /\ sweeper \in BOOLEAN

(* The guard's map and the watchdog's hold the same streams, and those     *)
(* whose pump still runs: a stream dropped from one only would never be    *)
(* ended, or be ended twice (release, open and sweep).                     *)
MapsAgree ==
    /\ watched = streams
    /\ \A s \in streams : pump[s] \in {"reading", "writing"}
    /\ \A s \in streams : s \in paused <=> pump[s] = "writing"

(* Every stream behaves as a WatchedTurn: ended once, and for silence only *)
(* when the Bot alone was waited for throughout StallMs.                   *)
ImplementsWatchedTurn == Turn!Spec
=============================================================================
