---------------------------- MODULE ChannelThread ----------------------------
(***************************************************************************)
(* The messages of one channel's conversation, as one mounted ChannelChat  *)
(* keeps, restores, repairs and sends them: channel-chat.tsx with          *)
(* repair-history.ts and transcript-messages.ts.  A turn is a message said *)
(* by the compose screen, the composer or a button in a component; it      *)
(* waits for the runtime agent, adds its message, answers for calls that   *)
(* were never answered, and then is one run after another, with a tool     *)
(* call answered by the browser in every gap.  It may end anywhere: a run  *)
(* fails, stalls, or is stopped by the person.                             *)
(*                                                                         *)
(* External: CopilotKit, whose join of the thread may empty the agent,     *)
(* fill it with the thread, stall or fail, whose runs work on a copy of    *)
(* the messages they were given, and the service that keeps the thread.    *)
(* Left out: what a message says, the system message in front of it that   *)
(* a skill adds, and what the roster is told.                              *)
(***************************************************************************)
EXTENDS Naturals, SequencesExt

CONSTANTS
    MaxSaid,    \* bound: messages said after the first
    MaxMade     \* bound: tool calls the Bot makes

ASSUME ThreadAssumption == MaxSaid \in Nat \ {0} /\ MaxMade \in Nat \ {0, 1}

First == 0      \* the message the channel was created by
Said == 0 .. MaxSaid
Made == 1 .. MaxMade

VARIABLES
    agentMessages,  \* what the agent of this screen holds
    thread,         \* what the service holds: what the last run was given
    isReady,        \* the runtime agent is there
    join,           \* the join effect: "due", "connecting", "reading", "read", "over"
    stored,         \* what it read
    waited,         \* the first message has waited SEND_WITHOUT_JOIN_AFTER_MS
    turnOf,         \* every message's turn: where it is, what its run works on, and the
                    \* calls it owes an answer
    made,           \* calls made so far
    overlapped      \* history: a turn began under another

threadVars == <<agentMessages, thread, isReady, join, stored, waited, turnOf, made, overlapped>>

\* A person's message, the Bot's with the calls it makes, or the result of a call.
user(t) == [role |-> "user", says |-> t, toolCalls |-> <<>>, toolCallId |-> 0]
assistant(calls) == [role |-> "assistant", says |-> First, toolCalls |-> calls, toolCallId |-> 0]
tool(c) == [role |-> "tool", says |-> First, toolCalls |-> <<>>, toolCallId |-> c]

ThreadMessage ==
    [role : {"user", "assistant", "tool"}, says : Said, toolCalls : Seq(Made), toolCallId : 0 .. MaxMade]

\* What earlier mounts may have left: nothing, or an answer with a call, or
\* with two of which the second was answered.
Histories ==
    {<<>>, <<user(1), assistant(<<1>>)>>, <<user(1), assistant(<<1, 2>>), tool(2)>>}

\* takeFirstMessage: a channel opened with a first message has no history yet.
ThreadInit ==
    /\ \E first \in {"none", "held"} :
         /\ turnOf = [t \in Said |->
              [at |-> IF t = First THEN first ELSE "unsaid", works |-> <<>>, owes |-> <<>>]]
         /\ thread \in IF first = "held" THEN {<<>>} ELSE Histories
    /\ made = Max({0} \cup UNION {ToSet(m.toolCalls) : m \in ToSet(thread)})
    /\ agentMessages = <<>> /\ stored = <<>>
    /\ isReady = FALSE /\ join = "due" /\ waited = FALSE
    /\ overlapped = FALSE

-----------------------------------------------------------------------------
(* repairUnansweredToolCalls.                                              *)

Results(messages) == {m.toolCallId : m \in {n \in ToSet(messages) : n.role = "tool"}}

\* A call is given a result, unless it has one.
GivenResult(done, c) ==
    IF c \in done.answered THEN done
    ELSE [messages |-> Append(done.messages, tool(c)), answered |-> done.answered \cup {c}]

\* One message, and after it a result for every call of its that has none.
Repaired(done, message) ==
    FoldLeft(GivenResult, [done EXCEPT !.messages = Append(@, message)], message.toolCalls)

\* Mutant: the results that are there are not looked for.
repairEveryToolCall(messages) ==
    FoldLeft(Repaired, [messages |-> <<>>, answered |-> {}], messages).messages

repairUnansweredToolCalls(messages) ==
    FoldLeft(Repaired, [messages |-> <<>>, answered |-> Results(messages)], messages).messages

-----------------------------------------------------------------------------
(* What is on the screen.                                                  *)

\* transcriptMessages: the seed, kept for as long as the agent has nothing.
transcriptMessages ==
    IF agentMessages # <<>> \/ turnOf[First].at = "none" THEN agentMessages ELSE <<user(First)>>

-----------------------------------------------------------------------------
(* The join effect.                                                        *)

TurnVars == <<waited, turnOf, made>>
Sending == {t \in Said : turnOf[t].at \in {"run", "tools"}}

BecomesReady ==
    /\ ~isReady /\ isReady' = TRUE
    /\ UNCHANGED <<agentMessages, thread, join, stored, overlapped, TurnVars>>

Connect ==
    /\ isReady /\ join = "due"
    /\ join' = "connecting"
    /\ UNCHANGED <<agentMessages, thread, isReady, stored, overlapped, TurnVars>>

\* While it connects the agent may be emptied, or given the thread.
Rejoin ==
    /\ join = "connecting"
    /\ agentMessages' \in {<<>>, thread} /\ agentMessages' # agentMessages
    /\ UNCHANGED <<thread, isReady, join, stored, overlapped, TurnVars>>

\* connectAgent resolves or throws: the history is asked for.
JoinEnds ==
    /\ join = "connecting"
    /\ join' = "reading"
    /\ UNCHANGED <<agentMessages, thread, isReady, stored, overlapped, TurnVars>>

ReadHistory ==
    /\ join = "reading"
    /\ join' = "read" /\ stored' = thread
    /\ UNCHANGED <<agentMessages, thread, isReady, overlapped, TurnVars>>

ReadFails ==
    /\ join = "reading"
    /\ join' = "over"
    /\ UNCHANGED <<agentMessages, thread, isReady, stored, overlapped, TurnVars>>

\* Local messages that arrived meanwhile are never overwritten.
Restore ==
    /\ join = "read"
    /\ agentMessages' = IF agentMessages = <<>> THEN stored ELSE agentMessages
    /\ join' = "over"
    /\ UNCHANGED <<thread, isReady, stored, overlapped, TurnVars>>

-----------------------------------------------------------------------------
(* Turns.                                                                  *)

JoinVars == <<isReady, join, stored, waited>>

\* deliver, from the runtime agent on.
Delivers(t) ==
    LET messages == repairUnansweredToolCalls(Append(agentMessages, user(t)))
    IN  /\ agentMessages' = messages /\ thread' = messages
        /\ turnOf' = [turnOf EXCEPT ![t].at = "run", ![t].works = messages]
        /\ overlapped' = (overlapped \/ Sending # {})
        /\ UNCHANGED <<made, JoinVars>>

WaitsForRuntime(t) ==
    /\ turnOf' = [turnOf EXCEPT ![t].at = "ready"]
    /\ UNCHANGED <<agentMessages, thread, made, overlapped, JoinVars>>

say(t) == IF isReady THEN Delivers(t) ELSE WaitsForRuntime(t)

\* The agent is there, or has been waited for long enough.
DeliverLate(t) == turnOf[t].at = "ready" /\ Delivers(t)

\* Mutant: without the backstop, a join that stalls holds the message.
joinGate == join = "over"
gateOrBackstop == joinGate \/ waited

Backstop ==
    /\ turnOf[First].at = "held" /\ ~waited
    /\ waited' = TRUE
    /\ UNCHANGED <<agentMessages, thread, isReady, join, stored, turnOf, made, overlapped>>

SayFirst == turnOf[First].at = "held" /\ gateOrBackstop /\ say(First)

\* Bound: two turns that overlap are not followed any further.
TurnOver == [at |-> "over", works |-> <<>>, owes |-> <<>>]
Goes(t, at) == ~overlapped /\ turnOf[t].at = at

\* The composer's message, or a button's: neither waits for the turns in flight here.
SayNext(t) ==
    /\ Goes(t, "unsaid") /\ \A u \in 1 .. (t - 1) : turnOf[u].at # "unsaid"
    /\ say(t)

\* A message is added to what the run works on, which becomes the agent's.
Adds(t, message, next) ==
    LET messages == Append(turnOf[t].works, message)
    IN  /\ agentMessages' = messages
        /\ turnOf' = [turnOf EXCEPT ![t] = [next EXCEPT !.works = messages]]
        /\ UNCHANGED <<thread, overlapped, JoinVars>>

\* A run ends with words, or with calls for the browser.
Reply(t) ==
    /\ Goes(t, "run")
    /\ agentMessages' = Append(turnOf[t].works, assistant(<<>>))
    /\ turnOf' = [turnOf EXCEPT ![t] = TurnOver]
    /\ UNCHANGED <<thread, made, overlapped, JoinVars>>

MakesCalls(t) ==
    /\ Goes(t, "run")
    /\ \E n \in {1, 2} :
         LET calls == [i \in 1 .. n |-> made + i]
         IN  /\ made + n <= MaxMade
             /\ made' = made + n
             /\ Adds(t, assistant(calls), [turnOf[t] EXCEPT !.at = "tools", !.owes = calls])

CallReturns(t) ==
    /\ Goes(t, "tools") /\ turnOf[t].owes # <<>>
    /\ Adds(t, tool(Head(turnOf[t].owes)), [turnOf[t] EXCEPT !.owes = Tail(@)])
    /\ UNCHANGED made

\* Every call is answered: the next run carries the answers.
NextRun(t) ==
    /\ Goes(t, "tools") /\ turnOf[t].owes = <<>>
    /\ thread' = turnOf[t].works
    /\ turnOf' = [turnOf EXCEPT ![t].at = "run"]
    /\ UNCHANGED <<agentMessages, made, overlapped, JoinVars>>

\* Stopped, failed or stalled: what it owed is never answered.
EndsEarly(t) ==
    /\ t \in Sending
    /\ ~overlapped /\ turnOf' = [turnOf EXCEPT ![t] = TurnOver]
    /\ UNCHANGED <<agentMessages, thread, made, overlapped, JoinVars>>

-----------------------------------------------------------------------------

ThreadNext ==
    \/ BecomesReady \/ Connect \/ Rejoin \/ JoinEnds \/ ReadHistory \/ ReadFails \/ Restore
    \/ Backstop \/ SayFirst
    \/ \E t \in Said \ {First} : SayNext(t)
    \/ \E t \in Said : \/ DeliverLate(t) \/ Reply(t) \/ MakesCalls(t)
                       \/ CallReturns(t) \/ NextRun(t) \/ EndsEarly(t)

(* Types.                                                                  *)
ThreadTypeOK ==
    /\ {agentMessages, thread, stored} \subseteq Seq(ThreadMessage)
    /\ isReady \in BOOLEAN /\ waited \in BOOLEAN /\ overlapped \in BOOLEAN
    /\ join \in {"due", "connecting", "reading", "read", "over"}
    /\ made \in 0 .. MaxMade
    /\ turnOf \in [Said -> [at : {"none", "held", "unsaid", "ready", "run", "tools", "over"},
                            works : Seq(ThreadMessage), owes : Seq(Made)]]

(* In what a run is given every tool call has one result, after the call   *)
(* and before anything else the person says, and every result has its      *)
(* call, wherever the turns before were ended and whatever was restored;   *)
(* providers refuse a history that is otherwise.  Turns that overlapped    *)
(* left out: a button may be pressed while a call still executes           *)
(* (repairUnansweredToolCalls, deliver).                                   *)
CallsAnsweredOnce ==
    ~overlapped /\ (\E t \in Said : turnOf[t].at \in {"run", "tools", "over"}) =>
        /\ \A i \in DOMAIN thread : \A c \in ToSet(thread[i].toolCalls) :
             \E j \in DOMAIN thread :
                /\ j > i /\ \A k \in i + 1 .. j : thread[k].role = "tool"
                /\ {k \in DOMAIN thread : thread[k].toolCallId = c} = {j}
        /\ \A j \in DOMAIN thread : thread[j].role = "tool" =>
             \E i \in 1 .. (j - 1) : thread[j].toolCallId \in ToSet(thread[i].toolCalls)

(* The message that a channel was created by stays on the screen, through  *)
(* the join, whatever it empties or restores and however late, until       *)
(* something else is said (transcriptMessages and the seed).               *)
FirstMessageIsShown ==
    /\ turnOf[First].at # "none"
    /\ \A t \in Said \ {First} : turnOf[t].at \in {"unsaid", "ready"}
    => user(First) \in ToSet(transcriptMessages)

ThreadFairness ==
    WF_threadVars(Backstop) /\ WF_threadVars(SayFirst) /\ WF_threadVars(DeliverLate(First))

ThreadSpec == ThreadInit /\ [][ThreadNext]_threadVars /\ ThreadFairness

(* It is sent, though the join stalls for ever (the backstop).             *)
FirstMessageIsSaid == turnOf[First].at = "held" ~> turnOf[First].at \notin {"held", "ready"}

(* The message that a channel was created by is never lost.                *)
FirstMessageIsKept == []FirstMessageIsShown /\ FirstMessageIsSaid
=============================================================================
