-------------------------------- MODULE BotRun --------------------------------
(***************************************************************************)
(* One run of a shipped Bot, as the events it sends: runAgent of           *)
(* agent-bot, examples/langgraph-bot and examples/mastra-bot, where the    *)
(* model answers once and its calls are sent for the surface to make; and  *)
(* of agent-langgraph, where a graph makes the deployment's calls itself   *)
(* and lets the model answer again.  The model, the deployment that runs a *)
(* tool and the reader of the stream are external: the model says anything *)
(* and calls anything, or breaks; a call may be refused or lost, and the   *)
(* model is told so; the reader may go.                                    *)
(***************************************************************************)
EXTENDS Naturals, SequencesExt

CONSTANTS
    Ours,      \* the deployment's tools, as openbotDeploymentTools names them
    Surfaces,  \* the tools that live in the browser
    MaxCalls,  \* calls in one answer
    MaxTurns   \* the graph's recursion limit, in answers

ASSUME RunAssumption ==
    Ours \cap Surfaces = {} /\ MaxCalls \in Nat /\ MaxTurns \in Nat \ {0}

\* A call of the model's: its place, its tool, and whether the provider gave it an id.
Call == [turn : 1 .. MaxTurns, nth : 1 .. MaxCalls, tool : Ours \cup Surfaces, named : BOOLEAN]

VARIABLES
    harness,    \* "once" or "graph"
    node,       \* "new", "answer", "tools", "ending", "finished", "failed", "gone"
    turn,       \* the answer that is being given
    textOpen,
    messageIndex,
    calls,      \* of the last answer, in order
    remembered, \* calls seen on the way past, by id or name
    flying,     \* calls being made
    sent,       \* the events
    ran,        \* history: calls the deployment ran
    confused    \* history: two calls of one answer went by one name

runVars == <<harness, node, turn, textOpen, messageIndex, calls, remembered, flying, sent, ran, confused>>

Text(type) == [type |-> type, message |-> messageIndex]
CallEvent(id, c) == [type |-> "call", id |-> id, call |-> c]

RunInit ==
    /\ harness \in {"once", "graph"}
    /\ node = "new" /\ turn = 1
    /\ textOpen = FALSE /\ messageIndex = 0
    /\ calls = <<>> /\ remembered = {} /\ flying = {} /\ ran = {} /\ confused = FALSE
    /\ sent = <<>>

-----------------------------------------------------------------------------

Begin ==
    /\ node = "new"
    /\ node' = "answer"
    /\ sent' = <<[type |-> "started"]>>
    /\ UNCHANGED <<harness, turn, textOpen, messageIndex, calls, remembered, flying, ran, confused>>

\* A chunk of prose: the first opens a message, the others say more of it.
Prose ==
    /\ node = "answer" /\ ~textOpen
    /\ textOpen' = TRUE
    /\ sent' = sent \o <<Text("textStart"), Text("textContent")>>
    /\ UNCHANGED <<harness, node, turn, messageIndex, calls, remembered, flying, ran, confused>>

\* call.id ?? call.name, of the graph; the others make an id up.
Key(c) == IF c.named \/ harness = "once" THEN <<c.turn, c.nth>> ELSE c.tool

\* pending.set, in order: a later call takes the place of one with its id.
Seen(cs) ==
    LET IsLast(c) == \A d \in ToSet(cs) : Key(d) = Key(c) => d.nth <= c.nth
        now == {[id |-> Key(c), call |-> c] : c \in {d \in ToSet(cs) : IsLast(d)}}
    IN  now \cup {p \in remembered : \A q \in now : q.id # p.id}

callsTheSurface(cs) == \E c \in ToSet(cs) : c.tool \notin Ours

\* What the model may call in one answer.
Answers == {cs \in UNION {[1 .. n -> Call] : n \in 0 .. MaxCalls} :
                \A i \in DOMAIN cs : cs[i].turn = turn /\ cs[i].nth = i}

\* The model's message is whole; the graph's edge is taken.
ModelEnds(cs) ==
    /\ node = "answer"
    /\ calls' = cs
    /\ IF harness = "once" \/ cs = <<>> \/ callsTheSurface(cs)
       THEN node' = "ending" /\ UNCHANGED flying
       ELSE node' = "tools" /\ flying' = ToSet(cs)
    /\ remembered' = IF harness = "once" THEN {} ELSE Seen(cs)
    /\ confused' = (confused \/ \E i, j \in DOMAIN cs : i < j /\ Key(cs[i]) = Key(cs[j]))
    /\ UNCHANGED <<harness, turn, textOpen, messageIndex, ran, sent>>

\* callTool: the deployment runs it, refuses it, or is not heard of; it never throws.
CallTool(c) ==
    /\ c \in flying
    /\ flying' = flying \ {c}
    /\ ran' = ran \cup {c} \/ UNCHANGED ran
    /\ UNCHANGED <<harness, node, turn, textOpen, messageIndex, calls, remembered, confused, sent>>

\* closeText: the next stretch is another message.
Closed == IF textOpen THEN messageIndex + 1 ELSE messageIndex

End == IF textOpen THEN <<Text("textEnd")>> ELSE <<>>
closeText == textOpen' = FALSE /\ messageIndex' = Closed

\* Mutant: prose goes on while calls are reported.
OpenReport == <<>>
\* Prose and tool calls cannot interleave inside one message.
BeforeReport == End

Found(c) == {p \in remembered : p.id = Key(c)}

\* A result is reported with the call remembered under its id, the first time.
Results ==
    LET Again(i) == \E j \in 1 .. i - 1 : Key(calls[j]) = Key(calls[i])
        One(i) == IF Again(i) THEN <<>>
                  ELSE LET id == Key(calls[i])
                           p == CHOOSE p \in Found(calls[i]) : TRUE
                       IN  <<CallEvent(id, p.call), [type |-> "result", id |-> id, call |-> calls[i]]>>
    IN  FlattenSeq([i \in DOMAIN calls |-> One(i)])

\* The tools node has finished: all of its calls have an answer.
ToolsEnd ==
    /\ node = "tools" /\ flying = {} /\ turn < MaxTurns
    /\ sent' = sent \o BeforeReport \o Results
    /\ closeText
    /\ remembered' = remembered \ UNION {Found(c) : c \in ToSet(calls)}
    /\ node' = "answer" /\ turn' = turn + 1
    /\ calls' = <<>>
    /\ UNCHANGED <<harness, flying, ran, confused>>

\* The calls of the one answer, for the surface to make.
AskedAll == [i \in DOMAIN calls |-> CallEvent(Key(calls[i]), calls[i])]

Finish ==
    /\ node = "ending"
    /\ sent' = sent \o End \o (IF harness = "once" THEN AskedAll ELSE <<>>) \o <<[type |-> "finished"]>>
    /\ closeText
    /\ node' = "finished"
    /\ UNCHANGED <<harness, turn, calls, remembered, flying, ran, confused>>

\* Only the graph closes its message before the error.
BeforeError == IF harness = "graph" THEN End ELSE <<>>

\* The model breaks, or the recursion limit is reached.
Fails ==
    /\ node = "answer" \/ (node = "tools" /\ flying = {} /\ turn = MaxTurns)
    /\ sent' = sent \o BeforeError \o <<[type |-> "error"]>>
    /\ node' = "failed"
    /\ UNCHANGED <<harness, turn, textOpen, messageIndex, calls, remembered, flying, ran, confused>>

\* The reader goes: nothing more can be sent, and calls being made may still run.
ReaderGoes ==
    /\ node \in {"answer", "tools", "ending"}
    /\ node' = "gone"
    /\ UNCHANGED <<harness, turn, textOpen, messageIndex, calls, remembered, flying, ran, confused, sent>>

-----------------------------------------------------------------------------

RunNext ==
    \/ Begin \/ Prose \/ ToolsEnd \/ Finish \/ Fails \/ ReaderGoes
    \/ \E cs \in Answers : ModelEnds(cs)
    \/ \E c \in flying : CallTool(c)

RunSpec == RunInit /\ [][RunNext]_runVars

-----------------------------------------------------------------------------

Over == {"finished", "failed"}
At(type) == {i \in DOMAIN sent : sent[i].type = type}
Same(i, j) == sent[i].message = sent[j].message

(* Types.                                                                  *)
RunTypeOK ==
    /\ harness \in {"once", "graph"}
    /\ node \in {"new", "answer", "tools", "ending", "gone"} \cup Over
    /\ turn \in 1 .. MaxTurns /\ textOpen \in BOOLEAN /\ confused \in BOOLEAN /\ messageIndex \in 0 .. MaxTurns
    /\ ToSet(calls) \cup flying \cup ran \cup {p.call : p \in remembered} \subseteq Call

(* The stream is one the surface can read: it starts once and ends once; a *)
(* message is opened once and never reopened, no call is told inside one,  *)
(* and one is left open at the end only by a Bot without a graph whose     *)
(* model broke (closeText, the catch of runAgent).                         *)
StreamIsWellFormed ==
    /\ At("started") \subseteq {1} /\ At("finished") \cup At("error") \subseteq {Len(sent)}
    /\ node \in Over => At("finished") \cup At("error") # {}
    /\ \A i, j \in At("textStart") : Same(i, j) => i = j
    /\ \A i \in At("textStart") : \A k \in At("call") \cup At("result") :
          i < k => \E j \in At("textEnd") : Same(i, j) /\ j < k
    /\ (node = "finished" \/ (node = "failed" /\ harness = "graph")) =>
          \A i \in At("textStart") : \E j \in At("textEnd") : Same(i, j)

(* What the graph had the deployment run is told to the surface, with the  *)
(* arguments it ran on and its result, before the Bot speaks again; unless *)
(* two calls of one answer came without an id.  A Bot without a graph that *)
(* finishes has sent every call of its model's (pending, the tools node,   *)
(* the loop over toolCalls).                                               *)
CallsAreTold ==
    /\ ~confused => \A c \in {d \in ran : d.turn < turn} :
          /\ \E i \in At("call") : sent[i].call = c
          /\ \E i \in At("result") : sent[i].call = c
    /\ harness = "once" /\ node = "finished" =>
          \A c \in ToSet(calls) : \E i \in At("call") : sent[i].call = c

(* A call that the surface owns ends the run, and the surface is asked to  *)
(* make it (the comment on the edge of the graph).                         *)
SurfaceIsAsked ==
    node = "finished" =>
        \A c \in ToSet(calls) : c.tool \in Surfaces => \E i \in At("call") : sent[i].call = c
=============================================================================
