---------------------------- MODULE ComposerQueue ----------------------------
(***************************************************************************)
(* Typing at a Bot that is already working: reduceQueue of the composer's  *)
(* queue.ts, the queue ConversationView keeps and drains, the send lock of *)
(* Composer, and the turns of ChannelChat.  It all runs in one browser     *)
(* tab, between two moments at which React decides what the components     *)
(* see: a handler reads the values of the last commit, and an effect runs  *)
(* some time after the commit that caused it.  React, the run on the wire  *)
(* and the person are external.                                            *)
(*                                                                         *)
(* A message is its number in the order typed.  The words, the chips and   *)
(* the sentence joinQueued glues together are left out: a turn is the      *)
(* messages it says.  One mount is modelled; leaving the channel ends it,  *)
(* and the queue with it.                                                  *)
(***************************************************************************)
EXTENDS Naturals, FiniteSets, SequencesExt

CONSTANTS
    MaxTyped,     \* bound: messages typed
    MaxAsks       \* bound: buttons pressed in rendered components

ASSUME ComposerAssumption == MaxTyped \in Nat /\ MaxAsks \in Nat

VARIABLES
    typed,        \* messages typed so far
    queue,        \* queuedRef.current
    said,         \* the messages whose turn was started, in that order
    removed,      \* the messages taken back
    turns,        \* turns not yet over
    running,      \* ConversationView: a turn it started has not settled
    isSubmitting, \* Composer: its own send has not settled; submitInFlight too
    disabled,     \* the channel's coworker was deleted
    asked,        \* buttons pressed so far
    shown,        \* what the last commit was drawn from
    due           \* the drain effect of that commit has yet to run

queueVars == <<typed, queue, said, removed, turns, running, isSubmitting, disabled, asked, shown, due>>

Messages == 1 .. MaxTyped

\* joining: say waits for the runtime agent.  run: a run is on the wire.
\* gap: the run ended so that the browser can answer a tool call.
ChatTurn == [by : {"composer", "drain", "component", "restored"},
         says : Seq(Messages), phase : {"joining", "run", "gap"}]

-----------------------------------------------------------------------------
(* reduceQueue: the queue afterwards, and the turn to start now.           *)

\* Mutant: the counter has moved on when the message is named.
OnSubmitLate(q, message, busy) ==
    IF busy THEN [queue |-> Append(q, message + 1), run |-> <<>>]
            ELSE [queue |-> <<>>, run |-> Append(q, message + 1)]

\* Mutant: an idle send empties the queue and takes nothing along.
OnSubmitForgets(q, message, busy) ==
    IF busy THEN [queue |-> Append(q, message), run |-> <<>>]
            ELSE [queue |-> <<>>, run |-> <<message>>]

OnSubmit(q, message, busy) ==
    IF busy THEN [queue |-> Append(q, message), run |-> <<>>]
            ELSE [queue |-> <<>>, run |-> Append(q, message)]

OnSettle(q) == [queue |-> <<>>, run |-> q]

\* By its id, which no two parked messages share: it is at one position.
OnRemove(q, i) == RemoveAt(q, i)

-----------------------------------------------------------------------------
(* What the components make of a state.                                    *)

isRunning(ts) == \E t \in ts : t.phase = "run"
turnsInFlight(ts) == {t \in ts : t.by # "restored"}

\* Mutant: the run on the wire is taken for the turn.
pendingIsRun(ts) == isRunning(ts)
pending(ts) == isRunning(ts) \/ turnsInFlight(ts) # {}

inFlight(screen) == pending(screen.turns) \/ screen.running
isBusy(screen) == inFlight(screen) \/ screen.isSubmitting

Screen == [turns |-> turns, running |-> running,
           isSubmitting |-> isSubmitting, disabled |-> disabled]

QueueInit ==
    /\ typed = 0 /\ asked = 0
    /\ queue = <<>> /\ said = <<>>
    /\ removed = {}
    /\ turns \in {{}, {[by |-> "restored", says |-> <<>>, phase |-> "run"]}}
    /\ running = FALSE /\ isSubmitting = FALSE /\ disabled = FALSE
    /\ shown = Screen
    /\ due = FALSE

-----------------------------------------------------------------------------
(* Turns.                                                                  *)

\* start: the turn of a transition that has one.
Starts(by, run) ==
    /\ turns' = turns \cup {[by |-> by, says |-> run, phase |-> "joining"]}
    /\ running' = TRUE
    /\ said' = said \o run

\* A button in a rendered component speaks without going through start.
AskFromComponent ==
    /\ asked < MaxAsks /\ \A t \in turns : t.by # "component"
    /\ asked' = asked + 1
    /\ turns' = turns \cup {[by |-> "component", says |-> <<>>, phase |-> "joining"]}
    /\ UNCHANGED <<typed, queue, said, removed, running, isSubmitting, disabled, shown, due>>

\* The run opens, ends for a tool call, and another opens with the answer.
RunMoves(t) ==
    /\ t.by # "restored"
    /\ turns' = (turns \ {t})
                  \cup {[t EXCEPT !.phase = IF @ = "run" THEN "gap" ELSE "run"]}
    /\ UNCHANGED <<typed, queue, said, removed, running, isSubmitting, disabled, asked, shown, due>>

\* Finished, failed or stopped: every finally runs before the next event.
TurnEnds(t) ==
    /\ turns' = turns \ {t}
    /\ running' = (running /\ t.by \notin {"composer", "drain"})
    /\ isSubmitting' = (isSubmitting /\ t.by # "composer")
    /\ UNCHANGED <<typed, queue, said, removed, disabled, asked, shown, due>>

-----------------------------------------------------------------------------
(* The person.                                                             *)

\* submitDraft, while the screen says a turn is in flight.
Park ==
    /\ typed < MaxTyped /\ ~shown.disabled /\ isBusy(shown)
    /\ typed' = typed + 1
    /\ queue' = OnSubmit(queue, typed', TRUE).queue
    /\ UNCHANGED <<said, removed, turns, running, isSubmitting, disabled, asked, shown, due>>

\* submitDraft, while it does not: the send lock refuses a second Enter.
Send ==
    /\ typed < MaxTyped /\ ~shown.disabled /\ ~isBusy(shown)
    /\ ~isSubmitting
    /\ typed' = typed + 1
    /\ LET next == OnSubmit(queue, typed', FALSE)
       IN  queue' = next.queue /\ Starts("composer", next.run)
    /\ isSubmitting' = TRUE
    /\ UNCHANGED <<removed, disabled, asked, shown, due>>

TakeBack(message) ==
    /\ \E i \in DOMAIN queue : queue[i] = message /\ queue' = OnRemove(queue, i)
    /\ removed' = removed \cup {message}
    /\ UNCHANGED <<typed, said, turns, running, isSubmitting, disabled, asked, shown, due>>

\* Somebody deletes the coworker.
CoworkerDeleted ==
    /\ ~disabled
    /\ disabled' = TRUE
    /\ UNCHANGED <<typed, queue, said, removed, turns, running, isSubmitting, asked, shown, due>>

-----------------------------------------------------------------------------
(* React.                                                                  *)

\* Mutant: the effect is not told that the turn ended.
DrainDependsOnDisabled(old, new) == old.disabled # new.disabled
DrainDepends(old, new) == old.disabled # new.disabled \/ inFlight(old) # inFlight(new)

\* A commit; the effects of the one before have run by then.
Draw ==
    /\ ~due /\ shown # Screen
    /\ shown' = Screen
    /\ due' = DrainDepends(shown, Screen)
    /\ UNCHANGED <<typed, queue, said, removed, turns, running, isSubmitting, disabled, asked>>

MayDrain == ~shown.disabled /\ ~inFlight(shown) /\ queue # <<>>

\* The effect reads the queue as it is now, and the rest as it was drawn.
Drain ==
    /\ due /\ due' = FALSE
    /\ IF MayDrain
       THEN queue' = OnSettle(queue).queue /\ Starts("drain", OnSettle(queue).run)
       ELSE UNCHANGED <<queue, turns, running, said>>
    /\ UNCHANGED <<typed, removed, isSubmitting, disabled, asked, shown>>

-----------------------------------------------------------------------------
QueueNext ==
    \/ Park \/ Send \/ CoworkerDeleted \/ AskFromComponent
    \/ \E message \in Messages : TakeBack(message)
    \/ \E t \in turns : RunMoves(t) \/ TurnEnds(t)
    \/ Draw \/ Drain

QueueSpec == QueueInit /\ [][QueueNext]_queueVars

\* React commits and runs its effects; every turn is over some time, were it
\* by the server ending a silent one.  Nothing is assumed of the person.
QueueFairSpec ==
    /\ QueueSpec
    /\ WF_queueVars(Draw) /\ WF_queueVars(Drain)
    /\ \A by \in {"composer", "drain", "component", "restored"} :
         WF_queueVars(\E t \in turns : t.by = by /\ TurnEnds(t))

-----------------------------------------------------------------------------
(* Types of the queue, the turns and what was drawn.                       *)
QueueTypeOK ==
    /\ typed \in 0 .. MaxTyped /\ asked \in 0 .. MaxAsks
    /\ queue \in Seq(Messages) /\ said \in Seq(Messages)
    /\ removed \subseteq Messages
    /\ turns \subseteq ChatTurn
    /\ running \in BOOLEAN /\ isSubmitting \in BOOLEAN /\ disabled \in BOOLEAN
    /\ shown \in [turns : SUBSET ChatTurn, running : BOOLEAN,
                  isSubmitting : BOOLEAN, disabled : BOOLEAN]
    /\ due \in BOOLEAN

(* What was typed runs in the order it was typed, and once: what has been  *)
(* said, with what is waiting after it, never goes back (the comment on    *)
(* submit in reduceQueue), and is all that was typed and not taken back,   *)
(* whichever of a send and the drain comes first.                          *)
OnceInTheOrderTyped ==
    LET words == said \o queue
    IN  /\ \A i, j \in DOMAIN words : i < j => words[i] < words[j]
        /\ ToSet(words) = (1 .. typed) \ removed

(* Nothing is sent or drained over a turn that is on the screen and still  *)
(* going, the gaps between its runs included (the comment on pending).     *)
NothingOverAnAnswer ==
    [][said' # said =>
         \A t \in turns, u \in shown.turns : ~(t.by = u.by /\ t.says = u.says)]_queueVars

(* A parked message does not wait for ever: it runs, or is taken back, or  *)
(* the conversation is over (the comment on the drain effect: a queue that *)
(* never drains).                                                          *)
ParkedRuns ==
    \A m \in Messages : (m \in ToSet(queue)) ~> (m \notin ToSet(queue) \/ disabled)

(* A message waits for the answers before it and no longer (the comments   *)
(* on pending and on the drain effect).                                    *)
WaitsItsTurn == NothingOverAnAnswer /\ ParkedRuns
=============================================================================
