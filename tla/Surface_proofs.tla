---------------------------- MODULE Surface_proofs ----------------------------
(* Proofs about what one person's browser does, for any number of tool     *)
(* calls, fields, messages and changes of driver: what it asks a person    *)
(* for the Bot (Asking), and the messages of a channel's conversation      *)
(* (ChannelThread).                                                        *)
EXTENDS MC_Surface, Sequence_lemmas, TLAPS

-----------------------------------------------------------------------------
(* Asking a person.                                                        *)

\* What was asked for is over, going by a state of the wheel.
IsOver(w, state) == IF asking[w].kind = "help" THEN HelpIsOver(state) ELSE SecretIsOver(state)

\* A call whose request has landed and was not closed sees it standing, in the
\* wheel and in whatever it has read.
StandsUntilClosed ==
    \A w \in Waiters \ closed :
        /\ asking[w].at \in {"landed", "waiting", "read"} => ~IsOver(w, wheel)
        /\ asking[w].at = "read" => ~IsOver(w, asking[w].saw)

\* A call that is somewhere has asked for something, a secret of a field.
HasAsked ==
    \A w \in Waiters :
        asking[w].at \in {"asked", "landed", "waiting", "read", "answered"} =>
            /\ asking[w].kind \in {"help", "secret"}
            /\ asking[w].kind = "secret" => asking[w].ref \in Refs

IInv == AskingTypeOK /\ HasAsked /\ StandsUntilClosed /\ ToldOnlyAfterAnAnswer

AskingState == [kind : {"none", "help", "secret"}, ref : Refs \cup {NoSecret},
                at : {"idle", "asked", "landed", "waiting", "read", "answered", "unanswered"},
                saw : View]

-----------------------------------------------------------------------------
(* The operations of the wheel.                                            *)

(* Every operation answers a state of the wheel.                           *)
LEMMA WheelTyped ==
  ASSUME NEW c \in ControlState, NEW ref \in Refs
  PROVE  /\ requestHelp(c) \in ControlState /\ requestSecret(c, ref) \in ControlState
         /\ secretSupplied(c) \in ControlState
         /\ take(c) \in ControlState /\ release(c) \in ControlState
<1>1. requestHelp(c) \in ControlState
  BY DEF ControlState, requestHelp
<1>2. requestSecret(c, ref) \in ControlState
  BY DEF ControlState, requestSecret
<1>3. secretSupplied(c) \in ControlState
  BY DEF ControlState, secretSupplied
<1>4. take(c) \in ControlState /\ release(c) \in ControlState
  BY DEF ControlState, take, release
<1> QED
  BY <1>1, <1>2, <1>3, <1>4

(* The start of the wheel, and the view of nothing.                        *)
LEMMA StartTyped == createControl \in ControlState /\ NoView \in View
  BY DEF createControl, ControlState, NoView, View

(* What a request asks for stands once it has landed.                      *)
LEMMA LandingStands ==
  ASSUME NEW c \in ControlState, NEW ref \in Refs
  PROVE  ~HelpIsOver(requestHelp(c)) /\ ~SecretIsOver(requestSecret(c, ref))
  BY NoSecretAssumption, AskingAssumption
     DEF ControlState, requestHelp, requestSecret, NamesField, HelpIsOver, SecretIsOver

(* And another request does not end it.                                    *)
LEMMA AnotherRequestKeeps ==
  ASSUME NEW c \in ControlState, NEW ref \in Refs
  PROVE  /\ ~HelpIsOver(c) => ~HelpIsOver(requestSecret(c, ref))
         /\ ~SecretIsOver(c) => ~SecretIsOver(requestHelp(c))
  BY NoSecretAssumption
     DEF ControlState, requestHelp, requestSecret, NamesField, HelpIsOver, SecretIsOver

(* What a person does ends a request for help only by handing back, and a  *)
(* request for a secret only by leaving none.                              *)
LEMMA OnlyClosingEnds ==
  ASSUME NEW c \in ControlState,
         NEW d \in {take(c), release(c), secretSupplied(c)}
  PROVE  /\ ~HelpIsOver(c) /\ HelpIsOver(d) => d.since # c.since /\ d.holder = "bot"
         /\ SecretIsOver(d) => d.secret = NoSecret
<1>1. CASE d = take(c)
  BY <1>1 DEF ControlState, take, HelpIsOver, SecretIsOver
<1>2. CASE d = release(c)
  BY <1>2 DEF ControlState, release, HelpIsOver, SecretIsOver
<1>3. CASE d = secretSupplied(c)
  BY <1>3 DEF ControlState, secretSupplied, HelpIsOver, SecretIsOver
<1> QED
  BY <1>1, <1>2, <1>3

-----------------------------------------------------------------------------
(* The kinds of step.                                                      *)

(* The wheel turns, and what that closes is remembered.                    *)
LEMMA TurnsKeeps ==
  ASSUME IInv, NEW next \in {take(wheel), release(wheel), secretSupplied(wheel)},
         Turns(next), UNCHANGED asking, entered' \subseteq Waiters,
         screen' \in View,
         poll' \in [at : {"due", "refused", "read", "dead"}, value : View],
         hand' \in [at : {"idle", "sent", "typing", "over", "due"}, ref : Refs \cup {NoSecret}, value : View]
  PROVE  IInv'
<1>1. wheel \in ControlState /\ next \in ControlState /\ wheel' = next
  <2>2. wheel \in ControlState
    BY DEF IInv, AskingTypeOK
  <2>3. take(wheel) \in ControlState /\ release(wheel) \in ControlState /\ secretSupplied(wheel) \in ControlState
    BY <2>2 DEF ControlState, take, release, secretSupplied
  <2> QED
    BY <2>2, <2>3 DEF Turns
<1>2. closed \subseteq closed' /\ closed' \subseteq Waiters
  BY DEF Turns, IInv, AskingTypeOK
<1>3. AskingTypeOK'
  BY <1>1, <1>2 DEF IInv, AskingTypeOK
<1>4. HasAsked'
  BY DEF IInv, HasAsked
<1>5. StandsUntilClosed'
  <2> SUFFICES ASSUME NEW w \in Waiters \ closed', asking[w].at \in {"landed", "waiting", "read"}
               PROVE  /\ ~IsOver(w, wheel)'
                      /\ asking[w].at = "read" => ~IsOver(w, asking[w].saw)'
    BY DEF StandsUntilClosed
  <2>1. w \notin closed /\ ~IsOver(w, wheel)
    BY <1>2 DEF IInv, StandsUntilClosed
  <2>2. asking[w].kind \in {"help", "secret"}
    BY DEF IInv, HasAsked
  <2>3. asking[w].kind = "help" => ~HelpIsOver(next)
    <3> SUFFICES ASSUME asking[w].kind = "help", HelpIsOver(next) PROVE FALSE
      OBVIOUS
    <3>1. ~HelpIsOver(wheel)
      BY <2>1 DEF IsOver
    <3>2. next.since # wheel.since /\ next.holder = "bot"
      BY <3>1, <1>1, OnlyClosingEnds
    <3> QED
      BY <3>2 DEF Turns, Standing
  <2>4. asking[w].kind = "secret" => ~SecretIsOver(next)
    BY DEF Turns, Standing, SecretIsOver
  <2>5. asking[w].at = "read" => ~IsOver(w, asking[w].saw)
    BY <2>1 DEF IInv, StandsUntilClosed
  <2> QED
    BY <1>1, <2>2, <2>3, <2>4, <2>5 DEF IsOver
<1>6. ToldOnlyAfterAnAnswer'
  BY <1>2 DEF IInv, ToldOnlyAfterAnAnswer
<1> QED
  BY <1>3, <1>4, <1>5, <1>6 DEF IInv

(* The view alone moves.                                                   *)
LEMMA ViewKeeps ==
  ASSUME IInv, UNCHANGED <<wheel, asking, closed, entered>>,
         screen' \in View,
         poll' \in [at : {"due", "refused", "read", "dead"}, value : View],
         hand' \in [at : {"idle", "sent", "typing", "over", "due"}, ref : Refs \cup {NoSecret}, value : View]
  PROVE  IInv'
  BY DEF IInv, AskingTypeOK, HasAsked, StandsUntilClosed, ToldOnlyAfterAnAnswer, IsOver

(* One tool call moves, and the wheel with it in no way that ends what     *)
(* another call has asked for.                                             *)
LEMMA CallKeeps ==
  ASSUME IInv, NEW w \in Waiters, NEW next \in AskingState,
         asking' = [asking EXCEPT ![w] = next],
         UNCHANGED <<closed, entered, screen, poll, hand>>,
         wheel' \in ControlState,
         ~HelpIsOver(wheel) => ~HelpIsOver(wheel'),
         ~SecretIsOver(wheel) => ~SecretIsOver(wheel'),
         next.at \in {"asked", "landed", "waiting", "read", "answered"} =>
             next.kind \in {"help", "secret"} /\ (next.kind = "secret" => next.ref \in Refs),
         w \notin closed =>
             /\ next.at \in {"landed", "waiting", "read"} =>
                    IF next.kind = "help" THEN ~HelpIsOver(wheel') ELSE ~SecretIsOver(wheel')
             /\ next.at = "read" =>
                    IF next.kind = "help" THEN ~HelpIsOver(next.saw) ELSE ~SecretIsOver(next.saw)
             /\ next.at # "answered"
  PROVE  IInv'
<1>1. asking \in [Waiters -> AskingState] /\ asking' \in [Waiters -> AskingState]
  BY DEF IInv, AskingTypeOK, AskingState
<1>2. asking'[w] = next /\ \A v \in Waiters : v # w => asking'[v] = asking[v]
  BY <1>1
<1>3. AskingTypeOK'
  BY <1>1 DEF IInv, AskingTypeOK, AskingState
<1>4. HasAsked'
  BY <1>2 DEF IInv, HasAsked
<1>5. StandsUntilClosed'
  <2> SUFFICES ASSUME NEW v \in Waiters \ closed
               PROVE  /\ asking'[v].at \in {"landed", "waiting", "read"} => ~IsOver(v, wheel)'
                      /\ asking'[v].at = "read" => ~IsOver(v, asking[v].saw)'
    BY DEF StandsUntilClosed
  <2>1. CASE v = w
    BY <2>1, <1>2 DEF IsOver
  <2>2. CASE v # w
    <3>1. asking'[v] = asking[v]
      BY <2>2, <1>2
    <3> QED
      BY <3>1 DEF IInv, StandsUntilClosed, IsOver
  <2> QED
    BY <2>1, <2>2
<1>6. ToldOnlyAfterAnAnswer'
  BY <1>2 DEF IInv, ToldOnlyAfterAnAnswer
<1> QED
  BY <1>3, <1>4, <1>5, <1>6 DEF IInv

-----------------------------------------------------------------------------

LEMMA InitIInv == AskingInit => IInv
<1> SUFFICES ASSUME AskingInit PROVE IInv
  OBVIOUS
<1>1. AskingTypeOK
  BY StartTyped DEF AskingInit, AskingTypeOK, NoCall, Free, View
<1>2. HasAsked /\ StandsUntilClosed /\ ToldOnlyAfterAnAnswer
  BY DEF AskingInit, NoCall, HasAsked, StandsUntilClosed, ToldOnlyAfterAnAnswer
<1> QED
  BY <1>1, <1>2 DEF IInv

(* A step of a tool call.                                                  *)
LEMMA CallStep ==
  ASSUME IInv, NEW w \in Waiters,
         Ask(w) \/ AskFails(w) \/ ReadLost(w) \/ GivesUp(w) \/ Waits(w)
  PROVE  IInv'
<1>1. /\ wheel \in ControlState
      /\ asking \in [Waiters -> AskingState] /\ asking[w] \in AskingState
      /\ wheel \in View /\ NoView \in View
  BY StartTyped DEF IInv, AskingTypeOK, AskingState, View
<1>2. CASE Ask(w)
  <2>1. ASSUME NEW next \in AskingState, asking' = [asking EXCEPT ![w] = next],
               next.at = "asked", next.kind \in {"help", "secret"}, next.kind = "secret" => next.ref \in Refs
        PROVE  IInv'
    BY <1>1, <1>2, <2>1, CallKeeps DEF Ask, PersonVars
  <2>2. CASE asking' = [asking EXCEPT ![w] = [NoCall EXCEPT !.kind = "help", !.at = "asked"]]
    <3> DEFINE next == [NoCall EXCEPT !.kind = "help", !.at = "asked"]
    <3>1. next \in AskingState /\ next.at = "asked" /\ next.kind = "help"
      BY <1>1 DEF NoCall, AskingState
    <3> QED
      BY <2>1, <2>2, <3>1
  <2>3. CASE \E ref \in Refs :
               asking' = [asking EXCEPT ![w] = [NoCall EXCEPT !.kind = "secret", !.ref = ref, !.at = "asked"]]
    <3>1. PICK ref \in Refs :
               asking' = [asking EXCEPT ![w] = [NoCall EXCEPT !.kind = "secret", !.ref = ref, !.at = "asked"]]
      BY <2>3
    <3> DEFINE next == [NoCall EXCEPT !.kind = "secret", !.ref = ref, !.at = "asked"]
    <3>2. next \in AskingState /\ next.at = "asked" /\ next.kind = "secret" /\ next.ref = ref
      BY <1>1 DEF NoCall, AskingState
    <3> QED
      BY <2>1, <3>1, <3>2
  <2> QED
    BY <1>2, <2>2, <2>3 DEF Ask
<1>3. CASE AskLands(w)
  <2> DEFINE next == [asking[w] EXCEPT !.at = "landed", !.saw = NoView]
  <2>1. /\ asking' = [asking EXCEPT ![w] = next] /\ next \in AskingState
        /\ next.at = "landed" /\ next.kind = asking[w].kind /\ next.ref = asking[w].ref
    BY <1>1, <1>3 DEF AskLands, Now, AskingState
  <2>2. next.kind \in {"help", "secret"} /\ (next.kind = "secret" => next.ref \in Refs)
    BY <2>1, <1>3 DEF AskLands, IInv, HasAsked
  <2>3. CASE next.kind = "help"
    <3>1. wheel' = requestHelp(wheel)
      BY <2>1, <2>3, <1>3 DEF AskLands
    <3>2. wheel' \in ControlState /\ ~HelpIsOver(wheel') /\ (~SecretIsOver(wheel) => ~SecretIsOver(wheel'))
      BY <3>1, <1>1 DEF requestHelp, ControlState, HelpIsOver, SecretIsOver
    <3> HIDE DEF next
    <3> QED
      BY <1>3, <2>1, <2>3, <3>2, CallKeeps DEF AskLands, PersonVars
  <2>4. CASE next.kind = "secret"
    <3>1. wheel' = requestSecret(wheel, next.ref) /\ next.ref \in Refs
      BY <2>1, <2>2, <2>4, <1>3 DEF AskLands
    <3>2. wheel' \in ControlState /\ ~SecretIsOver(wheel') /\ (~HelpIsOver(wheel) => ~HelpIsOver(wheel'))
      BY <3>1, <1>1, WheelTyped, LandingStands, AnotherRequestKeeps
    <3> HIDE DEF next
    <3> QED
      BY <1>3, <2>1, <2>2, <2>4, <3>2, CallKeeps DEF AskLands, PersonVars
  <2> QED
    BY <2>2, <2>3, <2>4
<1>4. CASE Unanswered(w)
  <2>1. [NoCall EXCEPT !.at = "unanswered"] \in AskingState
    BY <1>1 DEF NoCall, AskingState
  <2>2. [NoCall EXCEPT !.at = "unanswered"].at = "unanswered"
    BY DEF NoCall
  <2> QED
    BY <1>1, <1>4, <2>1, <2>2, CallKeeps DEF Unanswered, PersonVars
<1>5. ASSUME UNCHANGED <<wheel, closed, entered, PersonVars>>,
             NEW at \in {"waiting", "read", "answered"}, NEW saw \in View,
             asking' = [asking EXCEPT ![w].at = at, ![w].saw = saw],
             asking[w].at \in {"landed", "waiting", "read"},
             w \notin closed => (at = "read" => saw = wheel) /\ at # "answered"
      PROVE  IInv'
  <2> DEFINE next == [asking[w] EXCEPT !.at = at, !.saw = saw]
  <2>1. /\ asking' = [asking EXCEPT ![w] = next] /\ next \in AskingState
        /\ next.at = at /\ next.kind = asking[w].kind /\ next.ref = asking[w].ref /\ next.saw = saw
    BY <1>1, <1>5 DEF AskingState
  <2>2. next.kind \in {"help", "secret"} /\ (next.kind = "secret" => next.ref \in Refs)
    BY <2>1, <1>5 DEF IInv, HasAsked
  <2>3. w \notin closed => IF next.kind = "help" THEN ~HelpIsOver(wheel) ELSE ~SecretIsOver(wheel)
    BY <2>1, <1>5 DEF IInv, StandsUntilClosed, IsOver
  <2>4. wheel' = wheel /\ wheel' \in ControlState /\ UNCHANGED <<closed, entered, screen, poll, hand>>
    BY <1>1, <1>5 DEF PersonVars
  <2>5. w \notin closed => (next.at = "read" => next.saw = wheel)
    BY <1>5, <2>1
  <2>6. w \notin closed => next.at # "answered"
    BY <1>5, <2>1
  <2> HIDE DEF next
  <2> QED
    BY <2>1, <2>2, <2>3, <2>4, <2>5, <2>6, CallKeeps
<1>6. CASE AskAnswered(w)
  BY <1>1, <1>5, <1>6 DEF AskAnswered, Now
<1>7. CASE ReadControl(w)
  BY <1>1, <1>5, <1>7 DEF ReadControl
<1>8. CASE Hears(w)
  <2>1. Done(w) => w \in closed
    BY <1>8 DEF Hears, Done, IInv, StandsUntilClosed, IsOver
  <2> QED
    BY <1>1, <1>5, <1>8, <2>1 DEF Hears, Now
<1>9. CASE ReadLost(w)
  BY <1>1, <1>5, <1>9 DEF ReadLost, Now
<1> QED
  BY <1>2, <1>3, <1>4, <1>6, <1>7, <1>8, <1>9 DEF AskFails, GivesUp, Waits

(* A step of the view, or of its person.                                   *)
LEMMA PersonStep ==
  ASSUME IInv,
         \/ Polls \/ PollRefused \/ PollThrows
         \/ TakeControl \/ HandBack \/ SendSecret \/ Fills \/ FillFails \/ FormReads \/ Answered
         \/ Others
  PROVE  IInv'
<1>1. /\ wheel \in ControlState /\ wheel \in View /\ NoView \in View
      /\ screen \in View /\ entered \subseteq Waiters
      /\ poll \in [at : {"due", "refused", "read", "dead"}, value : View]
      /\ hand \in [at : {"idle", "sent", "typing", "over", "due"}, ref : Refs \cup {NoSecret}, value : View]
      /\ wheel.secret \in Refs \cup {NoSecret}
      /\ take(wheel) \in View /\ release(wheel) \in View
  BY StartTyped DEF IInv, AskingTypeOK, View, ControlState, take, release
<1>2. CASE PollReads \/ PollArrives \/ PollRefused \/ PollThrows
  BY <1>1, <1>2, ViewKeeps DEF PollReads, PollArrives, PollRefused, PollThrows, AfterRefusal, BotVars
<1>3. CASE SendSecret \/ SecretArrives \/ FormReads \/ Answered
  <2>1. CASE SendSecret
    BY <1>1, <2>1, ViewKeeps DEF SendSecret, Free, BotVars
  <2>2. CASE SecretArrives
    BY <1>1, <2>2, ViewKeeps DEF SecretArrives, Free, BotVars
  <2>3. CASE FormReads
    BY <1>1, <2>3, ViewKeeps DEF FormReads, AnswerIs, Free, BotVars
  <2>4. CASE Answered
    BY <1>1, <2>4, ViewKeeps DEF Answered, Free, BotVars
  <2> QED
    BY <1>3, <2>1, <2>2, <2>3, <2>4
<1>4. CASE TakeControl \/ HandBack
  BY <1>1, <1>4, TurnsKeeps DEF TakeControl, HandBack, AnswerIs, Free
<1>5. CASE FillLands \/ FillFails
  <2>1. /\ Turns(secretSupplied(wheel)) /\ entered' \subseteq Waiters
        /\ hand' = [Free EXCEPT !.at = "over"] /\ UNCHANGED <<asking, screen, poll>>
    BY <1>1, <1>5 DEF FillLands, FillFails
  <2> QED
    BY <1>1, <2>1, TurnsKeeps DEF Free
<1>6. CASE Others
  BY <1>1, <1>6, TurnsKeeps DEF Others, PersonVars
<1> QED
  BY <1>2, <1>3, <1>4, <1>5, <1>6 DEF Polls, Fills

LEMMA NextIInv == IInv /\ [AskingNext]_askingVars => IInv'
<1> SUFFICES ASSUME IInv, [AskingNext]_askingVars PROVE IInv'
  OBVIOUS
<1>1. CASE AskingNext
  BY <1>1, CallStep, PersonStep DEF AskingNext
<1>2. CASE UNCHANGED askingVars
  BY <1>2, ViewKeeps DEF askingVars, IInv, AskingTypeOK
<1> QED
  BY <1>1, <1>2

-----------------------------------------------------------------------------
(* repairUnansweredToolCalls.                                              *)

Repairing == [messages : Seq(ThreadMessage), answered : SUBSET (0 .. MaxMade)]

LEMMA ToolTyped == ASSUME NEW c \in Made PROVE tool(c) \in ThreadMessage /\ tool(c).role = "tool" /\ tool(c).toolCallId = c /\ tool(c).toolCalls = <<>>
<1>1. First \in Said /\ c \in 0 .. MaxMade /\ <<>> \in Seq(Made)
  BY ThreadAssumption DEF First, Said, Made
<1> QED
  BY <1>1 DEF tool, ThreadMessage

LEMMA GivenResultTyped == ASSUME NEW x \in Repairing, NEW c \in Made PROVE GivenResult(x, c) \in Repairing
<1>1. c \in 0 .. MaxMade /\ tool(c) \in ThreadMessage
  BY ToolTyped, ThreadAssumption DEF Made
<1>2. Append(x.messages, tool(c)) \in Seq(ThreadMessage)
  BY <1>1 DEF Repairing
<1> QED
  BY <1>1, <1>2 DEF GivenResult, Repairing

(* The inner loop, call by call.                                           *)
AnswerSteps(g, base, cs, n) ==
    /\ g[0] = base /\ FoldLeft(GivenResult, base, cs) = g[n]
    /\ \A k \in 1 .. n : g[k] = GivenResult(g[k - 1], cs[k])
    /\ \A k \in 0 .. n : g[k] \in Repairing

LEMMA AnsweringStepByStep ==
  ASSUME NEW base \in Repairing, NEW cs \in Seq(Made), NEW n \in Nat, n = Len(cs)
  PROVE  \E g : AnswerSteps(g, base, cs, n)
<1>1. DOMAIN cs = 1 .. n /\ \A i \in 1 .. n : cs[i] \in Made
  OBVIOUS
<1>2. PICK op : op = [i \in Nat |-> [x \in Repairing |-> IF i \in 1 .. n THEN GivenResult(x, cs[i]) ELSE x]]
  OBVIOUS
<1>3. op \in [Nat -> [Repairing -> Repairing]]
  BY <1>1, <1>2, GivenResultTyped
<1>15. PICK f : Folding(f, Repairing, base, n, op)
  BY <1>3, FoldExists
<1>4. /\ f \in [SUBSET (1 .. n) -> Repairing]
      /\ \A s \in SUBSET (1 .. n) : f[s] = IF s = {} THEN base ELSE op[Max(s)][f[s \ {Max(s)}]]
  BY <1>15, Zenon DEF Folding
<1> DEFINE Body(h) == [s \in SUBSET DOMAIN cs |->
                         IF s = {} THEN base ELSE GivenResult(h[s \ {Max(s)}], cs[Max(s)])]
<1>5. f = Body(f)
  <2>1. ASSUME NEW s \in SUBSET (1 .. n), s # {}
        PROVE  op[Max(s)][f[s \ {Max(s)}]] = GivenResult(f[s \ {Max(s)}], cs[Max(s)])
    <3>1. PICK m : m = Max(s)
      OBVIOUS
    <3>6. m \in s
      BY <2>1, <3>1, MaxIsIn, Zenon
    <3>2. m \in 1 .. n /\ m \in Nat
      BY <3>6
    <3>3. PICK x : x = f[s \ {m}]
      OBVIOUS
    <3>4. x \in Repairing
      BY <1>4, <3>3
    <3>5. op[m][x] = GivenResult(x, cs[m])
      BY <1>2, <3>2, <3>4
    <3> QED
      BY <3>1, <3>3, <3>5, Zenon
  <2>2. f = [s \in SUBSET (1 .. n) |-> f[s]]
    BY <1>4
  <2>3. \A s \in SUBSET (1 .. n) : f[s] = IF s = {} THEN base ELSE op[Max(s)][f[s \ {Max(s)}]]
    BY <1>4, Zenon
  <2>4. \A s \in SUBSET (1 .. n) : f[s] = IF s = {} THEN base ELSE GivenResult(f[s \ {Max(s)}], cs[Max(s)])
    BY <2>1, <2>3, Zenon
  <2> QED
    BY <1>1, <2>2, <2>4, Zenon
<1>6. FoldLeft(GivenResult, base, cs) = (CHOOSE h : h = Body(h))[DOMAIN cs]
  BY Zenon DEF FoldLeft, MapThenFoldSet
<1>7. PICK h : h = CHOOSE hh : hh = Body(hh)
  OBVIOUS
<1>8. h = Body(h)
  <2> HIDE DEF Body
  <2> QED
    BY <1>5, <1>7, Zenon
<1>9. PICK g : g = [k \in 0 .. n |-> h[1 .. k]]
  OBVIOUS
<1>10. \A s \in SUBSET (1 .. n) : h[s] = IF s = {} THEN base ELSE GivenResult(h[s \ {Max(s)}], cs[Max(s)])
  BY <1>1, <1>8, Zenon
<1> HIDE DEF Body
<1>11. g[0] = base
  <2>1. 1 .. 0 = {} /\ 0 \in 0 .. n
    OBVIOUS
  <2>2. g[0] = h[{}]
    BY <1>9, <2>1
  <2> QED
    BY <1>10, <2>2
<1>12. ASSUME NEW k \in 1 .. n PROVE g[k] = GivenResult(g[k - 1], cs[k])
  <2>1. k \in Nat \ {0} /\ k \in 0 .. n /\ k - 1 \in 0 .. n /\ 1 .. k \in SUBSET (1 .. n)
    OBVIOUS
  <2>2. g[k] = h[1 .. k] /\ g[k - 1] = h[1 .. (k - 1)]
    BY <1>9, <2>1
  <2>3. h[1 .. k] = GivenResult(h[(1 .. k) \ {Max(1 .. k)}], cs[Max(1 .. k)])
    BY <1>10, <2>1, MaxOfInterval, Zenon
  <2>4. Max(1 .. k) = k /\ (1 .. k) \ {k} = 1 .. (k - 1)
    BY <2>1, MaxOfInterval
  <2> QED
    BY <2>2, <2>3, <2>4, Zenon
<1>13. FoldLeft(GivenResult, base, cs) = g[n]
  <2>1. g[n] = h[1 .. n]
    BY <1>9
  <2> QED
    BY <1>1, <1>6, <1>7, <2>1, Zenon
<1>14. \A k \in 0 .. n : g[k] \in Repairing
  <2> DEFINE T == {k \in Nat : k <= n => g[k] \in Repairing}
  <2>1. 0 \in T
    BY <1>11
  <2>2. ASSUME NEW k \in Nat, k \in T PROVE k + 1 \in T
    <3> SUFFICES ASSUME k + 1 <= n PROVE g[k + 1] \in Repairing
      OBVIOUS
    <3>1. g[k] \in Repairing /\ k + 1 \in 1 .. n /\ (k + 1) - 1 = k
      BY <2>2
    <3>2. PICK x : x = g[k]
      OBVIOUS
    <3>3. PICK c : c = cs[k + 1]
      OBVIOUS
    <3>4. x \in Repairing /\ c \in Made
      BY <1>1, <3>1, <3>2, <3>3
    <3>5. g[k + 1] = GivenResult(g[(k + 1) - 1], cs[k + 1])
      BY <1>12, <3>1
    <3>6. g[k + 1] = GivenResult(x, c)
      BY <3>1, <3>2, <3>3, <3>5, Zenon
    <3> QED
      BY <3>4, <3>6, GivenResultTyped
  <2> HIDE DEF T
  <2>3. Nat \subseteq T
    BY <2>1, <2>2, SetInduction
  <2> QED
    BY <2>3 DEF T
<1> QED
  BY <1>11, <1>12, <1>13, <1>14 DEF AnswerSteps

LEMMA RepairedTyped == ASSUME NEW x \in Repairing, NEW m \in ThreadMessage PROVE Repaired(x, m) \in Repairing
<1>1. PICK y : y = [x EXCEPT !.messages = Append(@, m)]
  OBVIOUS
<1>2. y \in Repairing
  <2>1. Append(x.messages, m) \in Seq(ThreadMessage)
    BY DEF Repairing
  <2> QED
    BY <1>1, <2>1 DEF Repairing
<1>3. PICK cs : cs = m.toolCalls
  OBVIOUS
<1>4. cs \in Seq(Made)
  BY <1>3 DEF ThreadMessage
<1>5. PICK n \in Nat : n = Len(cs)
  BY <1>4
<1>6. FoldLeft(GivenResult, y, cs) \in Repairing
  <2>1. PICK g : AnswerSteps(g, y, cs, n)
    BY <1>2, <1>4, <1>5, AnsweringStepByStep
  <2>2. g[n] \in Repairing
    BY <2>1 DEF AnswerSteps
  <2> QED
    BY <2>1, <2>2, Zenon DEF AnswerSteps
<1>7. Repaired(x, m) = FoldLeft(GivenResult, y, cs)
  BY <1>1, <1>3, Zenon DEF Repaired
<1> QED
  BY <1>6, <1>7, Zenon

(* The outer loop, message by message.                                     *)
RepairSteps(g, base, ms, n) ==
    /\ g[0] = base /\ FoldLeft(Repaired, base, ms) = g[n]
    /\ \A k \in 1 .. n : g[k] = Repaired(g[k - 1], ms[k])
    /\ \A k \in 0 .. n : g[k] \in Repairing

LEMMA RepairingStepByStep ==
  ASSUME NEW base \in Repairing, NEW ms \in Seq(ThreadMessage), NEW n \in Nat, n = Len(ms)
  PROVE  \E g : RepairSteps(g, base, ms, n)
<1>1. DOMAIN ms = 1 .. n /\ \A i \in 1 .. n : ms[i] \in ThreadMessage
  OBVIOUS
<1>2. PICK op : op = [i \in Nat |-> [x \in Repairing |-> IF i \in 1 .. n THEN Repaired(x, ms[i]) ELSE x]]
  OBVIOUS
<1>3. op \in [Nat -> [Repairing -> Repairing]]
  BY <1>1, <1>2, RepairedTyped
<1>15. PICK f : Folding(f, Repairing, base, n, op)
  BY <1>3, FoldExists
<1>4. /\ f \in [SUBSET (1 .. n) -> Repairing]
      /\ \A s \in SUBSET (1 .. n) : f[s] = IF s = {} THEN base ELSE op[Max(s)][f[s \ {Max(s)}]]
  BY <1>15, Zenon DEF Folding
<1> DEFINE Body(h) == [s \in SUBSET DOMAIN ms |->
                         IF s = {} THEN base ELSE Repaired(h[s \ {Max(s)}], ms[Max(s)])]
<1>5. f = Body(f)
  <2>1. ASSUME NEW s \in SUBSET (1 .. n), s # {}
        PROVE  op[Max(s)][f[s \ {Max(s)}]] = Repaired(f[s \ {Max(s)}], ms[Max(s)])
    <3>1. PICK m : m = Max(s)
      OBVIOUS
    <3>6. m \in s
      BY <2>1, <3>1, MaxIsIn, Zenon
    <3>2. m \in 1 .. n /\ m \in Nat
      BY <3>6
    <3>3. PICK x : x = f[s \ {m}]
      OBVIOUS
    <3>4. x \in Repairing
      BY <1>4, <3>3
    <3>5. op[m][x] = Repaired(x, ms[m])
      BY <1>2, <3>2, <3>4
    <3> QED
      BY <3>1, <3>3, <3>5, Zenon
  <2>2. f = [s \in SUBSET (1 .. n) |-> f[s]]
    BY <1>4
  <2>3. \A s \in SUBSET (1 .. n) : f[s] = IF s = {} THEN base ELSE op[Max(s)][f[s \ {Max(s)}]]
    BY <1>4, Zenon
  <2>4. \A s \in SUBSET (1 .. n) : f[s] = IF s = {} THEN base ELSE Repaired(f[s \ {Max(s)}], ms[Max(s)])
    BY <2>1, <2>3, Zenon
  <2> QED
    BY <1>1, <2>2, <2>4, Zenon
<1>6. FoldLeft(Repaired, base, ms) = (CHOOSE h : h = Body(h))[DOMAIN ms]
  BY Zenon DEF FoldLeft, MapThenFoldSet
<1>7. PICK h : h = CHOOSE hh : hh = Body(hh)
  OBVIOUS
<1>8. h = Body(h)
  <2> HIDE DEF Body
  <2> QED
    BY <1>5, <1>7, Zenon
<1>9. PICK g : g = [k \in 0 .. n |-> h[1 .. k]]
  OBVIOUS
<1>10. \A s \in SUBSET (1 .. n) : h[s] = IF s = {} THEN base ELSE Repaired(h[s \ {Max(s)}], ms[Max(s)])
  BY <1>1, <1>8, Zenon
<1> HIDE DEF Body
<1>11. g[0] = base
  <2>1. 1 .. 0 = {} /\ 0 \in 0 .. n
    OBVIOUS
  <2>2. g[0] = h[{}]
    BY <1>9, <2>1
  <2> QED
    BY <1>10, <2>2
<1>12. ASSUME NEW k \in 1 .. n PROVE g[k] = Repaired(g[k - 1], ms[k])
  <2>1. k \in Nat \ {0} /\ k \in 0 .. n /\ k - 1 \in 0 .. n /\ 1 .. k \in SUBSET (1 .. n)
    OBVIOUS
  <2>2. g[k] = h[1 .. k] /\ g[k - 1] = h[1 .. (k - 1)]
    BY <1>9, <2>1
  <2>3. h[1 .. k] = Repaired(h[(1 .. k) \ {Max(1 .. k)}], ms[Max(1 .. k)])
    BY <1>10, <2>1, MaxOfInterval, Zenon
  <2>4. Max(1 .. k) = k /\ (1 .. k) \ {k} = 1 .. (k - 1)
    BY <2>1, MaxOfInterval
  <2> QED
    BY <2>2, <2>3, <2>4, Zenon
<1>13. FoldLeft(Repaired, base, ms) = g[n]
  <2>1. g[n] = h[1 .. n]
    BY <1>9
  <2> QED
    BY <1>1, <1>6, <1>7, <2>1, Zenon
<1>14. \A k \in 0 .. n : g[k] \in Repairing
  <2> DEFINE T == {k \in Nat : k <= n => g[k] \in Repairing}
  <2>1. 0 \in T
    BY <1>11
  <2>2. ASSUME NEW k \in Nat, k \in T PROVE k + 1 \in T
    <3> SUFFICES ASSUME k + 1 <= n PROVE g[k + 1] \in Repairing
      OBVIOUS
    <3>1. g[k] \in Repairing /\ k + 1 \in 1 .. n /\ (k + 1) - 1 = k
      BY <2>2
    <3>2. PICK x : x = g[k]
      OBVIOUS
    <3>3. PICK m0 : m0 = ms[k + 1]
      OBVIOUS
    <3>4. x \in Repairing /\ m0 \in ThreadMessage
      BY <1>1, <3>1, <3>2, <3>3
    <3>5. g[k + 1] = Repaired(g[(k + 1) - 1], ms[k + 1])
      BY <1>12, <3>1
    <3>6. g[k + 1] = Repaired(x, m0)
      BY <3>1, <3>2, <3>3, <3>5, Zenon
    <3> QED
      BY <3>4, <3>6, RepairedTyped
  <2> HIDE DEF T
  <2>3. Nat \subseteq T
    BY <2>1, <2>2, SetInduction
  <2> QED
    BY <2>3 DEF T
<1> QED
  BY <1>11, <1>12, <1>13, <1>14 DEF RepairSteps

-----------------------------------------------------------------------------
(* Histories a provider takes.  Of a sequence of messages what matters is  *)
(* which calls each makes, and which call each is the result of.           *)

CallsOf(messages) == [i \in 1 .. Len(messages) |-> ToSet(messages[i].toolCalls)]
ResultsOf(messages) == [i \in 1 .. Len(messages) |-> messages[i].toolCallId]

Shaped(m) ==
    /\ m.role = "tool" <=> m.toolCallId # 0
    /\ m.role = "tool" => m.toolCalls = <<>>
    /\ \A p, q \in DOMAIN m.toolCalls : m.toolCalls[p] = m.toolCalls[q] => p = q

(* A call is made once, and what results there are come in one row after   *)
(* the message that called, one for each call.                             *)
Neat(n, calls, results) ==
    /\ \A i, k \in 1 .. n : \A c \in calls[i] : c \in calls[k] => i = k
    /\ \A j \in 1 .. n : results[j] # 0 =>
          /\ calls[j] = {}
          /\ \E i \in 1 .. (j - 1) : results[j] \in calls[i] /\ \A k \in i + 1 .. j : results[k] # 0
    /\ \A j, k \in 1 .. n : results[j] = results[k] /\ results[j] # 0 => j = k

(* What has no result yet is owed, and its result may still be added.      *)
Held(n, calls, results, owed) ==
    /\ \A i \in 1 .. n : \A c \in calls[i] : c \in owed \/ \E j \in 1 .. n : results[j] = c
    /\ \A c \in owed : \E i \in 1 .. n : c \in calls[i] /\ \A k \in i + 1 .. n : results[k] # 0
    /\ \A c \in owed : \A j \in 1 .. n : results[j] # c

Tidy(messages) ==
    /\ messages \in Seq(ThreadMessage)
    /\ \A i \in 1 .. Len(messages) : Shaped(messages[i])
    /\ Neat(Len(messages), CallsOf(messages), ResultsOf(messages))

Kept(messages, owed) ==
    Tidy(messages) /\ Held(Len(messages), CallsOf(messages), ResultsOf(messages), owed)

(* A message added to the end.                                             *)
Longer(R, r, m, W) ==
    /\ W \in Seq(ThreadMessage) /\ Len(W) = r + 1
    /\ \A i \in 1 .. r : W[i] = R[i] /\ CallsOf(W)[i] = CallsOf(R)[i] /\ ResultsOf(W)[i] = ResultsOf(R)[i]
    /\ W[r + 1] = m /\ CallsOf(W)[r + 1] = ToSet(m.toolCalls) /\ ResultsOf(W)[r + 1] = m.toolCallId

LEMMA MessageAdded ==
  ASSUME NEW R \in Seq(ThreadMessage), NEW m \in ThreadMessage, NEW r \in Nat, r = Len(R),
         NEW W, W = Append(R, m)
  PROVE  Longer(R, r, m, W)
<1>1. /\ W \in Seq(ThreadMessage) /\ Len(W) = r + 1 /\ W[r + 1] = m
      /\ \A i \in 1 .. r : W[i] = R[i]
  BY AppendProperties
<1>2. PICK k : k = r + 1
  OBVIOUS
<1>3. CallsOf(W)[k] = ToSet(m.toolCalls) /\ ResultsOf(W)[k] = m.toolCallId
  <2>1. k \in 1 .. Len(W) /\ W[k] = m
    BY <1>1, <1>2
  <2> QED
    BY <2>1, Zenon DEF CallsOf, ResultsOf
<1>4. ASSUME NEW i \in 1 .. r
      PROVE  CallsOf(W)[i] = CallsOf(R)[i] /\ ResultsOf(W)[i] = ResultsOf(R)[i]
  <2>1. i \in 1 .. Len(W) /\ i \in 1 .. Len(R) /\ W[i] = R[i]
    BY <1>1
  <2> QED
    BY <2>1, Zenon DEF CallsOf, ResultsOf
<1> QED
  BY <1>1, <1>2, <1>3, <1>4 DEF Longer

(* A person's message, or the Bot's with calls that are new.               *)
LEMMA PlainAdded ==
  ASSUME NEW R, NEW m \in ThreadMessage, Shaped(m), m.role # "tool", NEW W, W = Append(R, m), Tidy(R),
         \A i \in 1 .. Len(R) : \A c \in ToSet(m.toolCalls) : c \notin CallsOf(R)[i]
  PROVE  Tidy(W) /\ (Kept(R, {}) => Kept(W, ToSet(m.toolCalls)))
<1>1. PICK r \in Nat : r = Len(R)
  BY DEF Tidy
<1>2. PICK C : C = CallsOf(R)
  OBVIOUS
<1>3. PICK D : D = ResultsOf(R)
  OBVIOUS
<1>4. PICK E : E = CallsOf(W)
  OBVIOUS
<1>5. PICK F : F = ResultsOf(W)
  OBVIOUS
<1>6. PICK N : N = ToSet(m.toolCalls)
  OBVIOUS
<1>7. /\ W \in Seq(ThreadMessage) /\ Len(W) = r + 1 /\ W[r + 1] = m
      /\ \A i \in 1 .. r : W[i] = R[i] /\ E[i] = C[i] /\ F[i] = D[i]
      /\ E[r + 1] = N /\ F[r + 1] = 0
  <2>1. Longer(R, r, m, W)
    BY <1>1, MessageAdded DEF Tidy
  <2>2. m.toolCallId = 0
    BY DEF Shaped
  <2> QED
    BY <1>2, <1>3, <1>4, <1>5, <1>6, <2>1, <2>2 DEF Longer
<1>8. Neat(r, C, D)
  BY <1>1, <1>2, <1>3 DEF Tidy
<1>9. \A i \in 1 .. r : \A c \in N : c \notin C[i]
  BY <1>1, <1>2, <1>6
<1>10. \A i \in 1 .. r + 1 : i = r + 1 \/ i \in 1 .. r
  OBVIOUS
<1>11. Neat(r + 1, E, F)
  <2>1. \A i, k \in 1 .. r + 1 : \A c \in E[i] : c \in E[k] => i = k
    BY <1>7, <1>8, <1>9, <1>10 DEF Neat
  <2>2. ASSUME NEW j \in 1 .. r + 1, F[j] # 0
        PROVE  /\ E[j] = {}
               /\ \E i \in 1 .. (j - 1) : F[j] \in E[i] /\ \A k \in i + 1 .. j : F[k] # 0
    <3>1. j \in 1 .. r /\ D[j] # 0
      BY <1>7, <2>2
    <3>2. C[j] = {}
      BY <1>8, <3>1 DEF Neat
    <3>3. PICK i \in 1 .. (j - 1) : D[j] \in C[i] /\ \A k \in i + 1 .. j : D[k] # 0
      BY <1>8, <3>1 DEF Neat
    <3>4. i \in 1 .. r /\ \A k \in i + 1 .. j : k \in 1 .. r
      BY <3>1
    <3> QED
      BY <1>7, <3>1, <3>2, <3>3, <3>4
  <2>3. \A j, k \in 1 .. r + 1 : F[j] = F[k] /\ F[j] # 0 => j = k
    BY <1>7, <1>8, <1>10 DEF Neat
  <2> QED
    BY <2>1, <2>2, <2>3 DEF Neat
<1>12. Tidy(W)
  <2>1. \A i \in 1 .. r + 1 : Shaped(W[i])
    <3>1. \A i \in 1 .. r : Shaped(R[i])
      BY <1>1 DEF Tidy
    <3>2. ASSUME NEW i \in 1 .. r PROVE Shaped(W[i])
      <4>1. W[i] = R[i]
        BY <1>7
      <4> QED
        BY <3>1, <4>1, Zenon
    <3>3. Shaped(W[r + 1])
      BY <1>7, Zenon
    <3> QED
      BY <1>10, <3>2, <3>3, Zenon
  <2> QED
    BY <1>4, <1>5, <1>7, <1>11, <2>1 DEF Tidy
<1>13. ASSUME Kept(R, {}) PROVE Kept(W, N)
  <2>1. Held(r, C, D, {})
    BY <1>1, <1>2, <1>3, <1>13 DEF Kept
  <2>2. Held(r + 1, E, F, N)
    <3>1. \A i \in 1 .. r + 1 : \A c \in E[i] : c \in N \/ \E j \in 1 .. r + 1 : F[j] = c
      <4>1. ASSUME NEW i \in 1 .. r, NEW c \in E[i] PROVE \E j \in 1 .. r + 1 : F[j] = c
        <5>1. PICK j \in 1 .. r : D[j] = c
          BY <1>7, <2>1, <4>1 DEF Held
        <5> QED
          BY <1>7, <5>1
      <4> QED
        BY <1>7, <1>10, <4>1
    <3>2. \A c \in N : \E i \in 1 .. r + 1 : c \in E[i] /\ \A k \in i + 1 .. r + 1 : F[k] # 0
      BY <1>7
    <3>3. ASSUME NEW c \in N, NEW j \in 1 .. r + 1, F[j] = c PROVE FALSE
      <4>0. c \in Made
        BY <1>6 DEF ToSet, ThreadMessage
      <4>1. c # 0
        BY <4>0 DEF Made
      <4>2. j \in 1 .. r /\ D[j] = c
        BY <1>7, <3>3, <4>1
      <4>3. PICK i \in 1 .. (j - 1) : c \in C[i]
        BY <1>8, <4>1, <4>2 DEF Neat
      <4>4. i \in 1 .. r
        BY <4>2
      <4> QED
        BY <1>9, <4>3, <4>4
    <3> QED
      BY <3>1, <3>2, <3>3 DEF Held
  <2> QED
    BY <1>4, <1>5, <1>7, <1>12, <2>2 DEF Kept
<1> QED
  BY <1>6, <1>12, <1>13

(* The result of a call that is owed one.                                  *)
LEMMA ResultAdded ==
  ASSUME NEW R, NEW m \in ThreadMessage, Shaped(m), m.role = "tool", NEW W, W = Append(R, m), Tidy(R),
         \E i \in 1 .. Len(R) : /\ m.toolCallId \in CallsOf(R)[i]
                                /\ \A k \in i + 1 .. Len(R) : ResultsOf(R)[k] # 0,
         \A j \in 1 .. Len(R) : ResultsOf(R)[j] # m.toolCallId
  PROVE  /\ Tidy(W)
         /\ \A owed : m.toolCallId \in owed /\ Kept(R, owed) => Kept(W, owed \ {m.toolCallId})
<1>1. PICK r \in Nat : r = Len(R)
  BY DEF Tidy
<1>2. PICK C : C = CallsOf(R)
  OBVIOUS
<1>3. PICK D : D = ResultsOf(R)
  OBVIOUS
<1>4. PICK E : E = CallsOf(W)
  OBVIOUS
<1>5. PICK F : F = ResultsOf(W)
  OBVIOUS
<1>6. PICK c : c = m.toolCallId
  OBVIOUS
<1>7. /\ W \in Seq(ThreadMessage) /\ Len(W) = r + 1 /\ W[r + 1] = m
      /\ \A i \in 1 .. r : W[i] = R[i] /\ E[i] = C[i] /\ F[i] = D[i]
      /\ E[r + 1] = {} /\ F[r + 1] = c /\ c # 0
  <2>1. Longer(R, r, m, W)
    BY <1>1, MessageAdded DEF Tidy
  <2>2. m.toolCallId # 0 /\ m.toolCalls = <<>>
    BY DEF Shaped
  <2>3. ToSet(m.toolCalls) = {}
    BY <2>2 DEF ToSet
  <2> QED
    BY <1>2, <1>3, <1>4, <1>5, <1>6, <2>1, <2>2, <2>3 DEF Longer
<1>8. Neat(r, C, D)
  BY <1>1, <1>2, <1>3 DEF Tidy
<1>9. PICK a \in 1 .. r : c \in C[a] /\ \A k \in a + 1 .. r : D[k] # 0
  BY <1>1, <1>2, <1>3, <1>6
<1>10. /\ \A i \in 1 .. r + 1 : i = r + 1 \/ i \in 1 .. r
       /\ \A j \in 1 .. r : D[j] # c
  BY <1>1, <1>3, <1>6
<1>11. Neat(r + 1, E, F)
  <2>1. \A i, k \in 1 .. r + 1 : \A d \in E[i] : d \in E[k] => i = k
    BY <1>7, <1>8, <1>10 DEF Neat
  <2>2. ASSUME NEW j \in 1 .. r, F[j] # 0
        PROVE  /\ E[j] = {}
               /\ \E i \in 1 .. (j - 1) : F[j] \in E[i] /\ \A k \in i + 1 .. j : F[k] # 0
    <3>1. j \in 1 .. r /\ D[j] # 0
      BY <1>7, <2>2
    <3>2. C[j] = {}
      BY <1>8, <3>1 DEF Neat
    <3>3. PICK i \in 1 .. (j - 1) : D[j] \in C[i] /\ \A k \in i + 1 .. j : D[k] # 0
      BY <1>8, <3>1 DEF Neat
    <3>4. i \in 1 .. r /\ \A k \in i + 1 .. j : k \in 1 .. r
      BY <3>1
    <3> QED
      BY <1>7, <3>1, <3>2, <3>3, <3>4
  <2>3. /\ E[r + 1] = {}
        /\ \E i \in 1 .. r : F[r + 1] \in E[i] /\ \A k \in i + 1 .. r + 1 : F[k] # 0
    <3>1. a \in 1 .. r /\ F[r + 1] \in E[a]
      BY <1>7, <1>9
    <3>2. ASSUME NEW k \in a + 1 .. r + 1 PROVE F[k] # 0
      <4>1. k = r + 1 \/ (k \in 1 .. r /\ k \in a + 1 .. r)
        OBVIOUS
      <4>2. F[r + 1] # 0
        BY <1>7
      <4>3. ASSUME k \in 1 .. r, k \in a + 1 .. r PROVE F[k] # 0
        BY <1>7, <1>9, <4>3
      <4> QED
        BY <4>1, <4>2, <4>3
    <3>3. E[r + 1] = {}
      BY <1>7
    <3> QED
      BY <3>1, <3>2, <3>3
  <2>4. ASSUME NEW j \in 1 .. r + 1, NEW k \in 1 .. r + 1, F[j] = F[k], F[j] # 0 PROVE j = k
    <3>1. CASE j \in 1 .. r /\ k \in 1 .. r
      <4>1. D[j] = D[k] /\ D[j] # 0
        BY <1>7, <2>4, <3>1
      <4> QED
        BY <1>8, <3>1, <4>1 DEF Neat
    <3>2. \A i \in 1 .. r : F[i] # F[r + 1]
      BY <1>7, <1>10
    <3> QED
      BY <1>10, <2>4, <3>1, <3>2
  <2>5. \A j \in 1 .. r + 1 : F[j] # 0 =>
          /\ E[j] = {}
          /\ \E i \in 1 .. (j - 1) : F[j] \in E[i] /\ \A k \in i + 1 .. j : F[k] # 0
    <3>1. (r + 1) - 1 = r
      OBVIOUS
    <3> QED
      BY <1>10, <2>2, <2>3, <3>1
  <2> QED
    BY <2>1, <2>4, <2>5 DEF Neat
<1>12. Tidy(W)
  <2>1. \A i \in 1 .. r + 1 : Shaped(W[i])
    <3>1. \A i \in 1 .. r : Shaped(R[i])
      BY <1>1 DEF Tidy
    <3>2. ASSUME NEW i \in 1 .. r PROVE Shaped(W[i])
      <4>1. W[i] = R[i]
        BY <1>7
      <4> QED
        BY <3>1, <4>1, Zenon
    <3>3. Shaped(W[r + 1])
      BY <1>7, Zenon
    <3> QED
      BY <1>10, <3>2, <3>3, Zenon
  <2> QED
    BY <1>4, <1>5, <1>7, <1>11, <2>1 DEF Tidy
<1>13. ASSUME NEW owed, c \in owed, Kept(R, owed) PROVE Kept(W, owed \ {c})
  <2>1. Held(r, C, D, owed)
    BY <1>1, <1>2, <1>3, <1>13 DEF Kept
  <2>2. Held(r + 1, E, F, owed \ {c})
    <3>1. \A i \in 1 .. r + 1 : \A d \in E[i] : d \in owed \ {c} \/ \E j \in 1 .. r + 1 : F[j] = d
      <4>1. ASSUME NEW i \in 1 .. r, NEW d \in E[i], d \notin owed \ {c} PROVE \E j \in 1 .. r + 1 : F[j] = d
        <5>1. CASE d = c
          BY <1>7, <5>1
        <5>2. CASE d # c
          <6>1. PICK j \in 1 .. r : D[j] = d
            BY <1>7, <2>1, <4>1, <5>2 DEF Held
          <6> QED
            BY <1>7, <6>1
        <5> QED
          BY <5>1, <5>2
      <4> QED
        BY <1>7, <1>10, <4>1
    <3>2. ASSUME NEW d \in owed \ {c}
          PROVE  \E i \in 1 .. r + 1 : d \in E[i] /\ \A k \in i + 1 .. r + 1 : F[k] # 0
      <4>1. PICK i \in 1 .. r : d \in C[i] /\ \A k \in i + 1 .. r : D[k] # 0
        BY <2>1 DEF Held
      <4>2. i \in 1 .. r + 1 /\ d \in E[i]
        BY <1>7, <4>1
      <4>3. \A k \in i + 1 .. r + 1 : F[k] # 0
        BY <1>7, <1>10, <4>1
      <4> QED
        BY <4>2, <4>3
    <3>3. \A d \in owed \ {c} : \A j \in 1 .. r + 1 : F[j] # d
      BY <1>7, <1>10, <2>1 DEF Held
    <3> QED
      BY <3>1, <3>2, <3>3 DEF Held
  <2> QED
    BY <1>4, <1>5, <1>7, <1>12, <2>2 DEF Kept
<1> QED
  BY <1>6, <1>12, <1>13

AllCalls(messages) == {c \in Made : \E i \in 1 .. Len(messages) : c \in CallsOf(messages)[i]}

LEMMA CallsAdded ==
  ASSUME NEW R \in Seq(ThreadMessage), NEW m \in ThreadMessage, NEW W, W = Append(R, m)
  PROVE  AllCalls(W) = AllCalls(R) \cup ToSet(m.toolCalls)
<1>1. PICK r \in Nat : r = Len(R)
  OBVIOUS
<1>2. Longer(R, r, m, W)
  BY <1>1, MessageAdded
<1>3. PICK C : C = CallsOf(R)
  OBVIOUS
<1>4. PICK E : E = CallsOf(W)
  OBVIOUS
<1>5. PICK N : N = ToSet(m.toolCalls)
  OBVIOUS
<1>6. Len(W) = r + 1 /\ E[r + 1] = N /\ \A i \in 1 .. r : E[i] = C[i]
  BY <1>2, <1>3, <1>4, <1>5 DEF Longer
<1>7. N \subseteq Made
  BY <1>5 DEF ToSet, ThreadMessage
<1>8. \A i \in 1 .. r + 1 : i = r + 1 \/ i \in 1 .. r
  OBVIOUS
<1>9. \A i \in 1 .. r : i \in 1 .. r + 1
  OBVIOUS
<1>10. r + 1 \in 1 .. r + 1
  OBVIOUS
<1>11. \A c \in Made : (\E i \in 1 .. r + 1 : c \in E[i]) <=> (\E i \in 1 .. r : c \in C[i]) \/ c \in N
  BY <1>6, <1>8, <1>9, <1>10
<1>12. AllCalls(W) = {c \in Made : \E i \in 1 .. r + 1 : c \in E[i]}
  BY <1>4, <1>6 DEF AllCalls
<1>13. AllCalls(R) = {c \in Made : \E i \in 1 .. r : c \in C[i]}
  BY <1>1, <1>3 DEF AllCalls
<1> QED
  BY <1>5, <1>7, <1>11, <1>12, <1>13

(* Whatever call is owed a result may be given it.                         *)
LEMMA ResultKept ==
  ASSUME NEW R, NEW owed \in SUBSET Made, Kept(R, owed), NEW m \in ThreadMessage, Shaped(m), m.role = "tool",
         m.toolCallId \in owed, NEW W, W = Append(R, m)
  PROVE  Kept(W, owed \ {m.toolCallId}) /\ AllCalls(W) = AllCalls(R)
<1>1. Tidy(R) /\ Held(Len(R), CallsOf(R), ResultsOf(R), owed)
  BY DEF Kept
<1>2. PICK c : c = m.toolCallId
  OBVIOUS
<1>3. PICK r : r = Len(R)
  OBVIOUS
<1>4. PICK C : C = CallsOf(R)
  OBVIOUS
<1>5. PICK D : D = ResultsOf(R)
  OBVIOUS
<1>6. Held(r, C, D, owed) /\ c \in owed
  BY <1>1, <1>2, <1>3, <1>4, <1>5, Zenon
<1>7. /\ \E i \in 1 .. r : c \in C[i] /\ \A k \in i + 1 .. r : D[k] # 0
      /\ \A j \in 1 .. r : D[j] # c
  BY <1>6 DEF Held
<1>8. /\ \E i \in 1 .. Len(R) : /\ m.toolCallId \in CallsOf(R)[i]
                                /\ \A k \in i + 1 .. Len(R) : ResultsOf(R)[k] # 0
      /\ \A j \in 1 .. Len(R) : ResultsOf(R)[j] # m.toolCallId
  BY <1>2, <1>3, <1>4, <1>5, <1>7, Zenon
<1>9. Kept(W, owed \ {m.toolCallId})
  BY <1>1, <1>8, ResultAdded
<1>10. ToSet(m.toolCalls) = {}
  <2>1. m.toolCalls = <<>>
    BY DEF Shaped
  <2> QED
    BY <2>1 DEF ToSet
<1>11. AllCalls(W) = AllCalls(R) \cup ToSet(m.toolCalls)
  BY <1>1, CallsAdded DEF Tidy
<1> QED
  BY <1>9, <1>10, <1>11

LEMMA ToolShaped == ASSUME NEW c \in Made PROVE Shaped(tool(c))
BY ToolTyped DEF Shaped, Made

(* The inner loop gives every call of a message its result but those that  *)
(* are found to have one further on.                                       *)
LEMMA AnsweringKeeps ==
  ASSUME NEW y \in Repairing, NEW cs \in Seq(Made), NEW z, z = FoldLeft(GivenResult, y, cs),
         \A p, q \in DOMAIN cs : cs[p] = cs[q] => p = q,
         Kept(y.messages, ToSet(cs))
  PROVE  /\ Kept(z.messages, ToSet(cs) \cap y.answered)
         /\ AllCalls(z.messages) = AllCalls(y.messages)
         /\ z.answered = y.answered \cup ToSet(cs)
<1>1. PICK n \in Nat : n = Len(cs)
  OBVIOUS
<1>2. PICK h : AnswerSteps(h, y, cs, n)
  BY <1>1, AnsweringStepByStep
<1>3. /\ h[0] = y /\ z = h[n]
      /\ \A k \in 1 .. n : h[k] = GivenResult(h[k - 1], cs[k])
      /\ \A k \in 0 .. n : h[k] \in Repairing
  BY <1>2, Zenon DEF AnswerSteps
<1>4. PICK all : all = ToSet(cs)
  OBVIOUS
<1>13. all \in SUBSET Made
  BY <1>4 DEF ToSet
<1>5. all = {cs[p] : p \in 1 .. n}
  BY <1>1, <1>4 DEF ToSet
<1>6. PICK A : A = y.answered
  OBVIOUS
<1>7. PICK K : K = AllCalls(y.messages)
  OBVIOUS
<1> DEFINE Owed(k) == {c \in all : c \in A \/ \E p \in k + 1 .. n : cs[p] = c}
           So(k) == /\ Kept(h[k].messages, Owed(k)) /\ AllCalls(h[k].messages) = K
                    /\ h[k].answered = A \cup {cs[p] : p \in 1 .. k}
           T == {k \in Nat : k <= n => So(k)}
<1>8. 0 \in T
  <2>1. Owed(0) = all
    BY <1>5
  <2>2. {cs[p] : p \in 1 .. 0} = {}
    OBVIOUS
  <2>3. Kept(h[0].messages, Owed(0))
    BY <1>3, <1>4, <2>1, Zenon
  <2>4. AllCalls(h[0].messages) = K /\ h[0].answered = A
    BY <1>3, <1>6, <1>7, Zenon
  <2> QED
    BY <2>2, <2>3, <2>4
<1>9. ASSUME NEW k \in Nat, k \in T PROVE k + 1 \in T
  <2> SUFFICES ASSUME k + 1 <= n PROVE So(k + 1)
    OBVIOUS
  <2>1. So(k) /\ k \in 0 .. n /\ k + 1 \in 1 .. n /\ (k + 1) - 1 = k
    BY <1>9
  <2>2. PICK x : x = h[k]
    OBVIOUS
  <2>3. PICK c : c = cs[k + 1]
    OBVIOUS
  <2>4. PICK u : u = h[k + 1]
    OBVIOUS
  <2>5. x \in Repairing /\ c \in Made /\ c \in all
    BY <1>1, <1>3, <1>5, <2>1, <2>2, <2>3
  <2>6. u = GivenResult(x, c)
    <3>1. h[k + 1] = GivenResult(h[(k + 1) - 1], cs[k + 1])
      BY <1>3, <2>1
    <3> QED
      BY <2>1, <2>2, <2>3, <2>4, <3>1, Zenon
  <2>7. \A p \in 1 .. n : cs[p] = c => p = k + 1
    BY <1>1, <2>1, <2>3
  <2>8. PICK owed : owed = Owed(k)
    OBVIOUS
  <2>9. Kept(x.messages, owed) /\ AllCalls(x.messages) = K /\ x.answered = A \cup {cs[p] : p \in 1 .. k}
    BY <2>1, <2>2, <2>8, Zenon
  <2>10. owed \in SUBSET Made /\ c \in owed
    BY <1>13, <2>1, <2>3, <2>5, <2>8
  <2>11. \A p \in 1 .. k + 1 : p = k + 1 \/ p \in 1 .. k
    OBVIOUS
  <2>12. {cs[p] : p \in 1 .. k + 1} = {cs[p] : p \in 1 .. k} \cup {c}
    BY <2>3, <2>11
  <2>13. CASE c \in x.answered
    <3>1. u = x
      BY <2>6, <2>13 DEF GivenResult
    <3>2. c \in A
      <4>1. \A p \in 1 .. k : cs[p] # c
        BY <2>1, <2>7
      <4> QED
        BY <2>9, <2>13, <4>1
    <3>3. Owed(k + 1) = owed
      <4>1. \A d \in all : d # c => ((\E p \in k + 1 .. n : cs[p] = d) <=> (\E p \in (k + 1) + 1 .. n : cs[p] = d))
        <5>1. ASSUME NEW d \in all, d # c, NEW p \in k + 1 .. n, cs[p] = d PROVE p \in (k + 1) + 1 .. n
          BY <2>3, <5>1
        <5> QED
          BY <5>1
      <4> QED
        BY <2>8, <3>2, <4>1
    <3>4. u.answered = A \cup {cs[p] : p \in 1 .. k + 1}
      BY <2>9, <2>12, <3>1, <3>2
    <3> QED
      BY <2>4, <2>9, <3>1, <3>3, <3>4, Zenon
  <2>14. CASE c \notin x.answered
    <3>1. PICK m : m = tool(c)
      OBVIOUS
    <3>2. m \in ThreadMessage /\ m.role = "tool" /\ m.toolCallId = c /\ Shaped(m)
      BY <2>5, <3>1, ToolTyped, ToolShaped
    <3>3. PICK R : R = x.messages
      OBVIOUS
    <3>4. PICK W : W = Append(R, m)
      OBVIOUS
    <3>5. u.messages = W /\ u.answered = x.answered \cup {c}
      <4>1. u = [messages |-> Append(x.messages, tool(c)), answered |-> x.answered \cup {c}]
        BY <2>6, <2>14 DEF GivenResult
      <4> QED
        BY <3>1, <3>3, <3>4, <4>1
    <3>6. Kept(W, owed \ {c}) /\ AllCalls(W) = K
      <4>1. Kept(R, owed) /\ AllCalls(R) = K
        BY <2>9, <3>3, Zenon
      <4>2. Kept(W, owed \ {m.toolCallId}) /\ AllCalls(W) = AllCalls(R)
        BY <2>10, <3>2, <3>4, <4>1, ResultKept
      <4> QED
        BY <3>2, <4>1, <4>2
    <3>7. Owed(k + 1) = owed \ {c}
      <4>1. c \notin A
        BY <2>9, <2>14
      <4>2. ASSUME NEW d \in Owed(k + 1) PROVE d \in owed \ {c}
        BY <2>7, <2>8, <4>1, <4>2
      <4>3. ASSUME NEW d \in owed \ {c} PROVE d \in Owed(k + 1)
        <5>1. d \in all /\ (d \in A \/ \E p \in k + 1 .. n : cs[p] = d)
          BY <2>8, <4>3
        <5>2. CASE d \in A
          BY <5>1, <5>2
        <5>3. ASSUME NEW p \in k + 1 .. n, cs[p] = d PROVE d \in Owed(k + 1)
          <6>1. p \in (k + 1) + 1 .. n
            BY <2>3, <4>3, <5>3
          <6> QED
            BY <5>1, <5>3, <6>1
        <5> QED
          BY <5>1, <5>2, <5>3
      <4> QED
        BY <4>2, <4>3
    <3>8. u.answered = A \cup {cs[p] : p \in 1 .. k + 1}
      BY <2>9, <2>12, <3>5
    <3> QED
      BY <2>4, <3>5, <3>6, <3>7, <3>8, Zenon
  <2> QED
    BY <2>13, <2>14
<1>10. n \in T
  <2> HIDE DEF T
  <2> QED
    BY <1>8, <1>9, SetInduction
<1>11. So(n)
  BY <1>10
<1>12. Owed(n) = all \cap A
  <2>1. \A p \in n + 1 .. n : FALSE
    OBVIOUS
  <2> QED
    BY <2>1
<1> QED
  BY <1>3, <1>4, <1>5, <1>6, <1>7, <1>11, <1>12, Zenon

(* A result that is there is one of a call that is there.                  *)
LEMMA ResultsAre ==
  ASSUME NEW M, Tidy(M), NEW c \in Made
  PROVE  c \in Results(M) <=> \E j \in 1 .. Len(M) : ResultsOf(M)[j] = c
<1>1. PICK n \in Nat : n = Len(M)
  BY DEF Tidy
<1>2. PICK D : D = ResultsOf(M)
  OBVIOUS
<1>3. DOMAIN M = 1 .. n
  BY <1>1 DEF Tidy
<1>4. ASSUME NEW j \in 1 .. n PROVE D[j] = M[j].toolCallId
  BY <1>1, <1>2, Zenon DEF ResultsOf
<1>5. ASSUME NEW j \in 1 .. n PROVE M[j].role = "tool" <=> M[j].toolCallId # 0
  <2>1. Shaped(M[j])
    BY <1>1 DEF Tidy
  <2> QED
    BY <2>1 DEF Shaped
<1>6. Results(M) = {M[j].toolCallId : j \in {i \in 1 .. n : M[i].role = "tool"}}
  BY <1>3 DEF Results, ToSet
<1>7. c # 0
  BY DEF Made
<1>8. c \in Results(M) <=> \E j \in 1 .. n : M[j].toolCallId = c
  BY <1>5, <1>6, <1>7
<1> QED
  BY <1>1, <1>2, <1>4, <1>8

(* It begins with what results there are.                                  *)
LEMMA StartRepairing ==
  ASSUME NEW M \in Seq(ThreadMessage), NEW base, base = [messages |-> <<>>, answered |-> Results(M)]
  PROVE  base \in Repairing
<1>1. PICK n \in Nat : n = Len(M)
  OBVIOUS
<1>2. Results(M) \in SUBSET (0 .. MaxMade)
  <2>1. \A i \in 1 .. n : M[i].toolCallId \in 0 .. MaxMade
    <3>1. \A i \in 1 .. n : M[i] \in ThreadMessage
      BY <1>1
    <3> QED
      BY <3>1 DEF ThreadMessage
  <2>2. DOMAIN M = 1 .. n
    BY <1>1
  <2> QED
    BY <2>1, <2>2 DEF Results, ToSet
<1>3. <<>> \in Seq(ThreadMessage)
  OBVIOUS
<1> QED
  BY <1>2, <1>3 DEF Repairing

(* The repair of a tidy history answers every call of it, and makes none.  *)
LEMMA RepairKeeps ==
  ASSUME NEW M, Tidy(M), NEW W, W = repairUnansweredToolCalls(M)
  PROVE  Kept(W, {}) /\ AllCalls(W) = AllCalls(M)
<1>1. PICK n \in Nat : n = Len(M)
  BY DEF Tidy
<1>2. PICK C : C = CallsOf(M)
  OBVIOUS
<1>3. PICK D : D = ResultsOf(M)
  OBVIOUS
<1>4. Neat(n, C, D) /\ M \in Seq(ThreadMessage) /\ \A i \in 1 .. n : Shaped(M[i]) /\ M[i] \in ThreadMessage
  BY <1>1, <1>2, <1>3 DEF Tidy
<1>5. ASSUME NEW i \in 1 .. n PROVE C[i] = ToSet(M[i].toolCalls) /\ D[i] = M[i].toolCallId /\ C[i] \subseteq Made
  <2>1. C[i] = ToSet(M[i].toolCalls) /\ D[i] = M[i].toolCallId
    BY <1>1, <1>2, <1>3, Zenon DEF CallsOf, ResultsOf
  <2>2. M[i].toolCalls \in Seq(Made)
    BY <1>4 DEF ThreadMessage
  <2> QED
    BY <2>1, <2>2 DEF ToSet
<1>6. PICK base : base = [messages |-> <<>>, answered |-> Results(M)]
  OBVIOUS
<1>7. base \in Repairing /\ base.messages = <<>> /\ base.answered = Results(M)
  <2>1. base \in Repairing
    BY <1>4, <1>6, StartRepairing
  <2> QED
    BY <1>6, <2>1
<1>8. PICK g : RepairSteps(g, base, M, n)
  BY <1>1, <1>4, <1>7, RepairingStepByStep
<1>9. /\ g[0] = base
      /\ \A k \in 1 .. n : g[k] = Repaired(g[k - 1], M[k])
      /\ \A k \in 0 .. n : g[k] \in Repairing
  BY <1>8, Zenon DEF RepairSteps
<1>10. W = g[n].messages
  <2>1. FoldLeft(Repaired, base, M) = g[n]
    BY <1>8, Zenon DEF RepairSteps
  <2> QED
    BY <1>6, <2>1, Zenon DEF repairUnansweredToolCalls
<1> DEFINE Upto(k) == {c \in Made : \E i \in 1 .. k : c \in C[i]}
           Later(k) == {c \in Made : \E j \in k + 1 .. n : D[j] = c}
           Answers == {c \in Made : \E j \in 1 .. n : D[j] = c}
           So(k) == /\ Kept(g[k].messages, Upto(k) \cap Later(k))
                    /\ AllCalls(g[k].messages) = Upto(k)
                    /\ g[k].answered \cap Made = Answers \cup Upto(k)
           T == {k \in Nat : k <= n => So(k)}
<1>11. 0 \in T
  <2>1. Upto(0) = {}
    OBVIOUS
  <2>2. PICK R : R = g[0].messages
    OBVIOUS
  <2>3. R = <<>> /\ Len(R) = 0 /\ R \in Seq(ThreadMessage)
    BY <1>7, <1>9, <2>2
  <2>4. Kept(R, {})
    BY <2>3 DEF Kept, Tidy, Neat, Held
  <2>5. AllCalls(R) = {}
    BY <2>3 DEF AllCalls
  <2>6. g[0].answered \cap Made = Answers
    <3>1. \A c \in Made : c \in Results(M) <=> \E j \in 1 .. n : D[j] = c
      BY <1>1, <1>3, ResultsAre
    <3> QED
      BY <1>7, <1>9, <3>1
  <2>7. Upto(0) \cap Later(0) = {} /\ Answers \cup Upto(0) = Answers
    BY <2>1
  <2> QED
    BY <2>1, <2>2, <2>4, <2>5, <2>6, <2>7, Zenon
<1>12. ASSUME NEW k \in Nat, k \in T PROVE k + 1 \in T
  <2> SUFFICES ASSUME k + 1 <= n PROVE So(k + 1)
    OBVIOUS
  <2>1. So(k) /\ k \in 0 .. n /\ k + 1 \in 1 .. n /\ (k + 1) - 1 = k
    BY <1>12
  <2>2. PICK q \in 1 .. n : q = k + 1
    BY <2>1
  <2>3. PICK x : x = g[k]
    OBVIOUS
  <2>4. PICK m : m = M[q]
    OBVIOUS
  <2>5. PICK cs : cs = m.toolCalls
    OBVIOUS
  <2>6. PICK R : R = x.messages
    OBVIOUS
  <2>7. PICK V : V = Append(R, m)
    OBVIOUS
  <2>8. PICK y : y = [x EXCEPT !.messages = V]
    OBVIOUS
  <2>9. PICK z : z = g[q]
    OBVIOUS
  <2>10. /\ x \in Repairing /\ m \in ThreadMessage /\ Shaped(m) /\ cs \in Seq(Made)
         /\ R \in Seq(ThreadMessage) /\ V \in Seq(ThreadMessage)
         /\ y \in Repairing /\ y.messages = V /\ y.answered = x.answered
    <3>1. x \in Repairing /\ m \in ThreadMessage
      BY <1>4, <1>9, <2>1, <2>3, <2>4
    <3>2. Shaped(m)
      BY <1>4, <2>4, Zenon
    <3>3. cs \in Seq(Made) /\ R \in Seq(ThreadMessage)
      BY <2>5, <2>6, <3>1 DEF ThreadMessage, Repairing
    <3>4. V \in Seq(ThreadMessage)
      BY <2>7, <3>1, <3>3
    <3> QED
      BY <2>8, <3>1, <3>2, <3>3, <3>4 DEF Repairing
  <2>11. z = FoldLeft(GivenResult, y, cs)
    <3>1. g[k + 1] = Repaired(g[(k + 1) - 1], M[k + 1])
      BY <1>9, <2>1
    <3>2. z = Repaired(x, m)
      BY <2>1, <2>2, <2>3, <2>4, <2>9, <3>1, Zenon
    <3> QED
      BY <2>5, <2>6, <2>7, <2>8, <3>2, Zenon DEF Repaired
  <2>12. C[q] = ToSet(cs) /\ D[q] = m.toolCallId /\ C[q] \subseteq Made
    BY <1>5, <2>4, <2>5, Zenon
  <2>13. \A i \in 1 .. q : i = q \/ i \in 1 .. k
    BY <2>2
  <2>14. Upto(q) = Upto(k) \cup C[q]
    BY <2>2, <2>12, <2>13
  <2>15. PICK owed : owed = Upto(k) \cap Later(k)
    OBVIOUS
  <2>16. Kept(R, owed) /\ AllCalls(R) = Upto(k) /\ x.answered \cap Made = Answers \cup Upto(k)
    BY <2>1, <2>3, <2>6, <2>15, Zenon
  <2>17. AllCalls(V) = Upto(q)
    <3>1. AllCalls(V) = AllCalls(R) \cup ToSet(m.toolCalls)
      BY <2>7, <2>10, CallsAdded
    <3>2. ToSet(m.toolCalls) = C[q]
      BY <2>5, <2>12, Zenon
    <3>3. AllCalls(V) = Upto(k) \cup C[q]
      BY <2>16, <3>1, <3>2, Zenon
    <3> QED
      BY <2>14, <3>3, Zenon
  <2>18. CASE m.role = "tool"
    <3>1. D[q] # 0 /\ D[q] \in Made /\ cs = <<>>
      <4>1. m.toolCallId # 0 /\ cs = <<>> /\ m.toolCallId \in 0 .. MaxMade
        BY <2>5, <2>10, <2>18 DEF Shaped, ThreadMessage
      <4> QED
        BY <2>12, <4>1, ThreadAssumption DEF Made
    <3>2. z = y
      <4>1. Len(cs) = 0 /\ 0 \in Nat
        BY <3>1
      <4>2. PICK h : AnswerSteps(h, y, cs, 0)
        BY <2>10, <4>1, AnsweringStepByStep
      <4> QED
        BY <2>11, <4>2, Zenon DEF AnswerSteps
    <3>3. PICK c : c = D[q]
      OBVIOUS
    <3>4. c \in owed /\ owed \in SUBSET Made
      <4>1. PICK i \in 1 .. (q - 1) : c \in C[i]
        BY <1>4, <3>1, <3>3 DEF Neat
      <4>2. i \in 1 .. k
        BY <2>2, <4>1
      <4>3. q \in k + 1 .. n
        BY <2>2
      <4> QED
        BY <2>15, <3>1, <3>3, <4>1, <4>2, <4>3
    <3>5. Kept(V, owed \ {c})
      <4>1. m.toolCallId \in owed
        BY <2>12, <3>3, <3>4
      <4>2. Kept(V, owed \ {m.toolCallId})
        BY <2>7, <2>10, <2>16, <2>18, <3>4, <4>1, ResultKept
      <4> QED
        BY <2>12, <3>3, <4>2, Zenon
    <3>6. Upto(q) = Upto(k)
      <4>1. C[q] = {}
        BY <2>12, <3>1 DEF ToSet
      <4> QED
        BY <2>14, <4>1
    <3>7. Later(q) = Later(k) \ {c}
      <4>1. ASSUME NEW d \in Later(k), d # c PROVE d \in Later(q)
        <5>1. PICK j \in k + 1 .. n : D[j] = d
          OBVIOUS
        <5>2. j # q
          BY <3>3, <4>1, <5>1
        <5>3. j \in q + 1 .. n
          BY <2>2, <5>1, <5>2
        <5> QED
          BY <5>1, <5>3
      <4>2. ASSUME NEW d \in Later(q) PROVE d \in Later(k) \ {c}
        <5>1. PICK j \in q + 1 .. n : D[j] = d
          OBVIOUS
        <5>2. j \in k + 1 .. n /\ j \in 1 .. n /\ j # q
          BY <2>2, <5>1
        <5>3. d # c
          BY <1>4, <3>1, <3>3, <5>1, <5>2 DEF Neat
        <5> QED
          BY <5>1, <5>2, <5>3
      <4>3. c \notin Later(q)
        BY <4>2
      <4> QED
        BY <4>1, <4>2, <4>3
    <3>8. Upto(q) \cap Later(q) = owed \ {c}
      BY <2>15, <3>6, <3>7
    <3>9. z.messages = V /\ z.answered = x.answered
      BY <2>10, <3>2
    <3>10. So(q)
      BY <2>9, <2>16, <2>17, <3>5, <3>6, <3>8, <3>9, Zenon
    <3> QED
      BY <2>2, <3>10, Zenon
  <2>19. CASE m.role # "tool"
    <3>1. D[q] = 0
      BY <2>10, <2>12, <2>19 DEF Shaped
    <3>2. ASSUME NEW c \in Upto(k), c \in Later(k) PROVE FALSE
      <4>1. PICK i \in 1 .. k : c \in C[i]
        OBVIOUS
      <4>2. PICK j \in k + 1 .. n : D[j] = c
        BY <3>2
      <4>3. c # 0 /\ j # q /\ j \in 1 .. n /\ i \in 1 .. n /\ q < j /\ i < q
        BY <2>1, <2>2, <3>1, <4>1, <4>2 DEF Made
      <4>4. PICK a \in 1 .. (j - 1) : c \in C[a] /\ \A b \in a + 1 .. j : D[b] # 0
        BY <1>4, <4>2, <4>3 DEF Neat
      <4>5. a \in 1 .. n
        BY <4>3
      <4>6. a = i
        BY <1>4, <4>1, <4>3, <4>4, <4>5 DEF Neat
      <4>7. q \in a + 1 .. j
        BY <4>3, <4>6
      <4> QED
        BY <3>1, <4>4, <4>7
    <3>3. owed = {}
      BY <2>15, <3>2
    <3>4. \A i \in 1 .. Len(R) : \A c \in ToSet(m.toolCalls) : c \notin CallsOf(R)[i]
      <4>1. ASSUME NEW c \in C[q], c \in Upto(k) PROVE FALSE
        <5>1. PICK i \in 1 .. k : c \in C[i]
          BY <4>1
        <5>2. i \in 1 .. n /\ i # q
          BY <2>2, <5>1
        <5> QED
          BY <1>4, <4>1, <5>1, <5>2 DEF Neat
      <4>2. \A c \in C[q] : c \in Made /\ c \notin AllCalls(R)
        BY <2>12, <2>16, <4>1
      <4>3. \A c \in C[q] : \A i \in 1 .. Len(R) : c \notin CallsOf(R)[i]
        BY <4>2 DEF AllCalls
      <4> QED
        BY <2>5, <2>12, <4>3
    <3>5. Kept(V, ToSet(cs))
      <4>1. Kept(R, {}) /\ Tidy(R)
        BY <2>16, <3>3 DEF Kept
      <4> QED
        BY <2>5, <2>7, <2>10, <2>19, <3>4, <4>1, PlainAdded
    <3>6. \A a, b \in DOMAIN cs : cs[a] = cs[b] => a = b
      BY <2>5, <2>10 DEF Shaped
    <3>7. /\ Kept(z.messages, ToSet(cs) \cap y.answered)
          /\ AllCalls(z.messages) = AllCalls(y.messages)
          /\ z.answered = y.answered \cup ToSet(cs)
      <4>1. Kept(y.messages, ToSet(cs))
        BY <2>10, <3>5, Zenon
      <4> QED
        BY <2>10, <2>11, <3>6, <4>1, AnsweringKeeps
    <3>8. AllCalls(z.messages) = Upto(q)
      BY <2>10, <2>17, <3>7, Zenon
    <3>9. z.answered \cap Made = Answers \cup Upto(q)
      BY <2>10, <2>12, <2>14, <2>16, <3>7
    <3>10. ToSet(cs) \cap y.answered = Upto(q) \cap Later(q)
      <4>1. ASSUME NEW c \in C[q], c \in x.answered PROVE c \in Upto(q) /\ c \in Later(q)
        <5>1. c \in Made /\ c \in Answers \cup Upto(k)
          BY <2>12, <2>16, <4>1
        <5>2. c \notin Upto(k)
          <6>1. SUFFICES ASSUME NEW i \in 1 .. k, c \in C[i] PROVE FALSE
            OBVIOUS
          <6>2. i \in 1 .. n /\ i # q
            BY <2>2
          <6> QED
            BY <1>4, <4>1, <6>1, <6>2 DEF Neat
        <5>3. PICK j \in 1 .. n : D[j] = c
          BY <5>1, <5>2
        <5>4. c # 0
          BY <5>1 DEF Made
        <5>5. PICK a \in 1 .. (j - 1) : c \in C[a]
          BY <1>4, <5>3, <5>4 DEF Neat
        <5>6. a \in 1 .. n
          BY <5>3
        <5>7. a = q
          BY <1>4, <4>1, <5>5, <5>6 DEF Neat
        <5>8. j \in q + 1 .. n
          BY <5>3, <5>5, <5>7
        <5> QED
          BY <2>14, <4>1, <5>1, <5>3, <5>8
      <4>2. ASSUME NEW c \in Upto(q), c \in Later(q) PROVE c \in C[q] /\ c \in x.answered
        <5>1. PICK j \in q + 1 .. n : D[j] = c
          BY <4>2
        <5>2. j \in k + 1 .. n /\ j \in 1 .. n /\ c \in Made
          BY <2>2, <5>1
        <5>3. c \in Later(k) /\ c \in Answers
          BY <5>1, <5>2
        <5>4. c \notin Upto(k)
          BY <3>2, <5>3
        <5> QED
          BY <2>14, <2>16, <5>3, <5>4
      <4> QED
        BY <2>10, <2>12, <4>1, <4>2
    <3>11. So(q)
      BY <2>9, <3>7, <3>8, <3>9, <3>10, Zenon
    <3> QED
      BY <2>2, <3>11, Zenon
  <2> QED
    BY <2>18, <2>19
<1>13. n \in T
  <2> HIDE DEF T
  <2> QED
    BY <1>11, <1>12, SetInduction
<1>14. So(n)
  BY <1>13
<1>15. Upto(n) \cap Later(n) = {}
  <2>1. \A j \in n + 1 .. n : FALSE
    OBVIOUS
  <2> QED
    BY <2>1
<1>16. AllCalls(M) = Upto(n)
  BY <1>1, <1>2 DEF AllCalls
<1> QED
  BY <1>10, <1>14, <1>15, <1>16, Zenon

(* And of any history at all it makes one.                                 *)
LEMMA RepairTyped ==
  ASSUME NEW M \in Seq(ThreadMessage), NEW W, W = repairUnansweredToolCalls(M)
  PROVE  W \in Seq(ThreadMessage)
<1>1. PICK n \in Nat : n = Len(M)
  OBVIOUS
<1>2. PICK base : base = [messages |-> <<>>, answered |-> Results(M)]
  OBVIOUS
<1>3. base \in Repairing
  BY <1>2, StartRepairing
<1>4. PICK g : RepairSteps(g, base, M, n)
  BY <1>1, <1>3, RepairingStepByStep
<1>5. PICK last : last = g[n]
  OBVIOUS
<1>6. last \in Repairing
  <2>1. n \in 0 .. n
    OBVIOUS
  <2>2. \A k \in 0 .. n : g[k] \in Repairing
    BY <1>4, Zenon DEF RepairSteps
  <2> QED
    BY <1>5, <2>1, <2>2
<1>7. W = last.messages
  <2>1. FoldLeft(Repaired, base, M) = last
    BY <1>4, <1>5, Zenon DEF RepairSteps
  <2> QED
    BY <1>2, <2>1, Zenon DEF repairUnansweredToolCalls
<1> QED
  BY <1>6, <1>7 DEF Repairing

-----------------------------------------------------------------------------
(* The turns.                                                              *)

TurnState ==
    [at : {"none", "held", "unsaid", "ready", "run", "tools", "over"},
     works : Seq(ThreadMessage), owes : Seq(Made)]

Within(messages, n) == Tidy(messages) /\ AllCalls(messages) \subseteq 1 .. n

\* What a turn works on is answered but for what it owes.
TurnKept(turn, n) ==
    /\ turn.at = "run" => Kept(turn.works, {}) /\ AllCalls(turn.works) \subseteq 1 .. n
    /\ turn.at = "tools" =>
          /\ Kept(turn.works, ToSet(turn.owes)) /\ AllCalls(turn.works) \subseteq 1 .. n
          /\ \A p, q \in DOMAIN turn.owes : turn.owes[p] = turn.owes[q] => p = q

Running == {"run", "tools"}
Started == {"run", "tools", "over"}

ThreadInv ==
    /\ ThreadTypeOK
    /\ ~overlapped =>
         /\ \A t, u \in Said : turnOf[t].at \in Running /\ turnOf[u].at \in Running => t = u
         /\ Within(agentMessages, made) /\ Within(thread, made) /\ Within(stored, made)
         /\ \A t \in Said : TurnKept(turnOf[t], made)
         /\ (\E t \in Said : turnOf[t].at \in Started) => Kept(thread, {})

(* More calls made leave what was within them within them.                 *)
LEMMA WithinMore ==
  ASSUME NEW n \in Nat, NEW k \in Nat, n <= k
  PROVE  /\ \A messages : Within(messages, n) => Within(messages, k)
         /\ \A turn : TurnKept(turn, n) => TurnKept(turn, k)
<1>1. 1 .. n \subseteq 1 .. k
  OBVIOUS
<1>2. ASSUME NEW messages, Within(messages, n) PROVE Within(messages, k)
  BY <1>1, <1>2, Zenon DEF Within
<1>3. ASSUME NEW turn, TurnKept(turn, n) PROVE TurnKept(turn, k)
  BY <1>1, <1>3, Zenon DEF TurnKept
<1> QED
  BY <1>2, <1>3

(* One turn moves.                                                         *)
LEMMA TurnMoves ==
  ASSUME ThreadInv, NEW t \in Said, NEW next \in TurnState,
         turnOf' = [turnOf EXCEPT ![t] = next],
         UNCHANGED <<isReady, join, stored>>, waited' \in BOOLEAN, overlapped' \in BOOLEAN,
         agentMessages' \in Seq(ThreadMessage), thread' \in Seq(ThreadMessage),
         made' \in 0 .. MaxMade, made <= made',
         ~overlapped' =>
            /\ ~overlapped
            /\ Within(agentMessages', made') /\ Within(thread', made') /\ TurnKept(next, made')
            /\ next.at \in Running => Sending \subseteq {t}
            /\ next.at \in Started => Kept(thread', {})
            /\ thread' = thread \/ Kept(thread', {})
  PROVE  ThreadInv'
<1>1. /\ turnOf \in [Said -> TurnState] /\ stored \in Seq(ThreadMessage) /\ made \in 0 .. MaxMade
      /\ isReady \in BOOLEAN /\ join \in {"due", "connecting", "reading", "read", "over"}
  BY DEF ThreadInv, ThreadTypeOK, TurnState
<1>2. turnOf' \in [Said -> TurnState] /\ turnOf'[t] = next /\ \A u \in Said : u # t => turnOf'[u] = turnOf[u]
  BY <1>1
<1>3. ThreadTypeOK'
  BY <1>1, <1>2 DEF ThreadTypeOK, TurnState
<1>4. ASSUME ~overlapped'
      PROVE  /\ \A v, u \in Said : turnOf'[v].at \in Running /\ turnOf'[u].at \in Running => v = u
             /\ Within(stored', made')
             /\ \A u \in Said : TurnKept(turnOf'[u], made')
             /\ (\E u \in Said : turnOf'[u].at \in Started) => Kept(thread', {})
  <2>1. /\ ~overlapped
        /\ \A v, u \in Said : turnOf[v].at \in Running /\ turnOf[u].at \in Running => v = u
        /\ \A u \in Said : TurnKept(turnOf[u], made)
        /\ Within(stored, made)
        /\ (\E u \in Said : turnOf[u].at \in Started) => Kept(thread, {})
    BY <1>4 DEF ThreadInv
  <2>2. made \in Nat /\ made' \in Nat
    BY <1>1, ThreadAssumption
  <2>3. \A u \in Said : TurnKept(turnOf'[u], made')
    <3>1. ASSUME NEW u \in Said, u # t PROVE TurnKept(turnOf'[u], made')
      <4>1. turnOf'[u] = turnOf[u]
        BY <1>2, <3>1
      <4>2. TurnKept(turnOf[u], made)
        BY <2>1
      <4>3. TurnKept(turnOf[u], made')
        BY <2>2, <4>2, WithinMore
      <4> QED
        BY <4>1, <4>3, Zenon
    <3>2. TurnKept(turnOf'[t], made')
      BY <1>2, <1>4, Zenon
    <3> QED
      BY <3>1, <3>2, Zenon
  <2>4. Within(stored', made')
    <3>1. Within(stored, made')
      BY <2>1, <2>2, WithinMore
    <3> QED
      BY <3>1
  <2>5. \A v, u \in Said : turnOf'[v].at \in Running /\ turnOf'[u].at \in Running => v = u
    <3>1. next.at \in Running => \A u \in Said : u # t => turnOf[u].at \notin Running
      BY <1>4 DEF Sending, Running
    <3>2. ASSUME NEW v \in Said, NEW u \in Said, turnOf'[v].at \in Running, turnOf'[u].at \in Running
          PROVE  v = u
      <4>1. CASE v # t /\ u # t
        BY <1>2, <2>1, <3>2, <4>1
      <4>2. CASE v = t /\ u # t
        BY <1>2, <3>1, <3>2, <4>2
      <4>3. CASE v # t /\ u = t
        BY <1>2, <3>1, <3>2, <4>3
      <4> QED
        BY <4>1, <4>2, <4>3
    <3> QED
      BY <3>2
  <2>6. ASSUME NEW u \in Said, turnOf'[u].at \in Started PROVE Kept(thread', {})
    <3>1. CASE u = t
      BY <1>2, <1>4, <2>6, <3>1
    <3>2. CASE u # t
      <4>1. turnOf[u].at \in Started
        BY <1>2, <2>6, <3>2
      <4>2. Kept(thread, {})
        BY <2>1, <4>1
      <4> QED
        BY <1>4, <4>2
    <3> QED
      BY <3>1, <3>2
  <2> QED
    BY <2>3, <2>4, <2>5, <2>6
<1> QED
  BY <1>3, <1>4 DEF ThreadInv

(* A message of each kind.                                                 *)
LEMMA UserTyped ==
  ASSUME NEW t \in Said, NEW m, m = user(t)
  PROVE  m \in ThreadMessage /\ Shaped(m) /\ m.role # "tool" /\ ToSet(m.toolCalls) = {}
<1>1. 0 \in 0 .. MaxMade /\ <<>> \in Seq(Made) /\ ToSet(<<>>) = {}
  BY ThreadAssumption DEF ToSet
<1>2. m = [role |-> "user", says |-> t, toolCalls |-> <<>>, toolCallId |-> 0]
  BY DEF user
<1>3. m \in ThreadMessage /\ m.role = "user" /\ m.toolCalls = <<>> /\ m.toolCallId = 0
  BY <1>1, <1>2 DEF ThreadMessage
<1> QED
  BY <1>1, <1>3 DEF Shaped

LEMMA AssistantTyped ==
  ASSUME NEW calls \in Seq(Made), \A p, q \in DOMAIN calls : calls[p] = calls[q] => p = q,
         NEW m, m = assistant(calls)
  PROVE  m \in ThreadMessage /\ Shaped(m) /\ m.role # "tool" /\ m.toolCalls = calls
<1>1. 0 \in 0 .. MaxMade /\ First \in Said
  BY ThreadAssumption DEF First, Said
<1>2. m = [role |-> "assistant", says |-> First, toolCalls |-> calls, toolCallId |-> 0]
  BY DEF assistant
<1>3. m \in ThreadMessage /\ m.role = "assistant" /\ m.toolCalls = calls /\ m.toolCallId = 0
  BY <1>1, <1>2 DEF ThreadMessage
<1> QED
  BY <1>3 DEF Shaped

(* What a person says, after it is repaired, is a history of kept calls.   *)
LEMMA DeliversKeeps ==
  ASSUME ThreadInv, NEW t \in Said, turnOf[t].at \notin Started, Delivers(t)
  PROVE  ThreadInv'
<1>1. PICK m : m = user(t)
  OBVIOUS
<1>2. m \in ThreadMessage /\ Shaped(m) /\ m.role # "tool" /\ ToSet(m.toolCalls) = {}
  BY <1>1, UserTyped
<1>3. PICK M : M = Append(agentMessages, m)
  OBVIOUS
<1>4. agentMessages \in Seq(ThreadMessage) /\ M \in Seq(ThreadMessage)
  BY <1>2, <1>3 DEF ThreadInv, ThreadTypeOK
<1>5. PICK W : W = repairUnansweredToolCalls(M)
  OBVIOUS
<1>6. W \in Seq(ThreadMessage)
  BY <1>4, <1>5, RepairTyped
<1>7. /\ agentMessages' = W /\ thread' = W
      /\ turnOf' = [turnOf EXCEPT ![t].at = "run", ![t].works = W]
      /\ overlapped' = (overlapped \/ Sending # {})
      /\ UNCHANGED <<made, isReady, join, stored, waited>>
  BY <1>1, <1>3, <1>5, Zenon DEF Delivers, JoinVars
<1>8. turnOf[t] \in TurnState /\ made \in 0 .. MaxMade /\ overlapped \in BOOLEAN /\ waited \in BOOLEAN
  BY DEF ThreadInv, ThreadTypeOK, TurnState
<1>9. PICK next : next = [turnOf[t] EXCEPT !.at = "run", !.works = W]
  OBVIOUS
<1>10. next \in TurnState /\ next.at = "run" /\ next.works = W /\ turnOf' = [turnOf EXCEPT ![t] = next]
  BY <1>6, <1>7, <1>8, <1>9 DEF TurnState
<1>11. ASSUME ~overlapped'
       PROVE  ~overlapped /\ Sending = {} /\ Within(W, made) /\ Kept(W, {})
  <2>1. ~overlapped /\ Sending = {}
    BY <1>7, <1>11
  <2>2. Tidy(agentMessages) /\ AllCalls(agentMessages) \subseteq 1 .. made
    BY <2>1 DEF ThreadInv, Within
  <2>3. Tidy(M)
    BY <1>2, <1>3, <2>2, PlainAdded
  <2>4. AllCalls(M) = AllCalls(agentMessages)
    <3>1. AllCalls(M) = AllCalls(agentMessages) \cup ToSet(m.toolCalls)
      BY <1>2, <1>3, <1>4, CallsAdded
    <3> QED
      BY <1>2, <3>1
  <2>5. Kept(W, {}) /\ AllCalls(W) = AllCalls(M)
    BY <1>5, <2>3, RepairKeeps
  <2>6. Tidy(W) /\ AllCalls(W) \subseteq 1 .. made
    BY <2>2, <2>4, <2>5, Zenon DEF Kept
  <2> QED
    BY <2>1, <2>5, <2>6 DEF Within
<1>12. ASSUME ~overlapped' PROVE TurnKept(next, made)
  <2>1. AllCalls(W) \subseteq 1 .. made /\ Kept(W, {})
    BY <1>11, <1>12 DEF Within
  <2> QED
    BY <1>10, <2>1, Zenon DEF TurnKept
<1>13. next.at # "tools"
  BY <1>10
<1>14. made <= made' /\ made' \in 0 .. MaxMade /\ waited' \in BOOLEAN /\ overlapped' \in BOOLEAN
  BY <1>7, <1>8, ThreadAssumption
<1>15. ~overlapped' =>
            /\ ~overlapped
            /\ Within(agentMessages', made') /\ Within(thread', made') /\ TurnKept(next, made')
            /\ next.at \in Running => Sending \subseteq {t}
            /\ next.at \in Started => Kept(thread', {})
            /\ thread' = thread \/ Kept(thread', {})
  BY <1>7, <1>11, <1>12, Zenon
<1> QED
  BY <1>6, <1>7, <1>10, <1>14, <1>15, TurnMoves

(* A turn that only waits, or is over, keeps the histories as they are.    *)
LEMMA RestingKeeps ==
  ASSUME ThreadInv, NEW t \in Said, NEW next \in TurnState, next.at \notin Running,
         turnOf' = [turnOf EXCEPT ![t] = next],
         next.at \in Started => turnOf[t].at \in Started,
         UNCHANGED <<isReady, join, stored, overlapped, thread, made>>, waited' \in BOOLEAN,
         agentMessages' \in Seq(ThreadMessage), ~overlapped => Within(agentMessages', made)
  PROVE  ThreadInv'
<1>1. made \in 0 .. MaxMade /\ overlapped \in BOOLEAN /\ thread \in Seq(ThreadMessage)
  BY DEF ThreadInv, ThreadTypeOK
<1>2. made <= made' /\ made' \in 0 .. MaxMade /\ overlapped' \in BOOLEAN /\ thread' \in Seq(ThreadMessage)
  BY <1>1, ThreadAssumption
<1>3. TurnKept(next, made')
  BY DEF TurnKept, Running
<1>4. ASSUME ~overlapped'
      PROVE  /\ ~overlapped /\ Within(agentMessages', made') /\ Within(thread', made')
             /\ next.at \in Started => Kept(thread', {})
  <2>1. ~overlapped /\ Within(thread, made) /\ ((\E u \in Said : turnOf[u].at \in Started) => Kept(thread, {}))
    BY <1>4 DEF ThreadInv
  <2>2. Within(agentMessages', made') /\ Within(thread', made')
    BY <2>1
  <2> QED
    BY <2>1, <2>2
<1> QED
  BY <1>2, <1>3, <1>4, TurnMoves

LEMMA WaitsForRuntimeKeeps ==
  ASSUME ThreadInv, NEW t \in Said, turnOf[t].at \notin Started, WaitsForRuntime(t)
  PROVE  ThreadInv'
<1>1. turnOf[t] \in TurnState /\ agentMessages \in Seq(ThreadMessage) /\ waited \in BOOLEAN
  BY DEF ThreadInv, ThreadTypeOK, TurnState
<1>2. PICK next : next = [turnOf[t] EXCEPT !.at = "ready"]
  OBVIOUS
<1>3. /\ next \in TurnState /\ next.at = "ready" /\ turnOf' = [turnOf EXCEPT ![t] = next]
      /\ next.at \notin Running /\ next.at \notin Started
  BY <1>1, <1>2 DEF TurnState, WaitsForRuntime, Running, Started
<1>4. UNCHANGED <<agentMessages, thread, made, overlapped, isReady, join, stored, waited>>
  BY DEF WaitsForRuntime, JoinVars
<1>5. ~overlapped => Within(agentMessages', made)
  <2>1. ~overlapped => Within(agentMessages, made)
    BY DEF ThreadInv
  <2> QED
    BY <1>4, <2>1
<1> QED
  BY <1>1, <1>3, <1>4, <1>5, RestingKeeps

LEMMA OverTyped == TurnOver \in TurnState /\ TurnOver.at = "over"
  BY DEF TurnOver, TurnState

LEMMA ReplyKeeps ==
  ASSUME ThreadInv, NEW t \in Said, Reply(t)
  PROVE  ThreadInv'
<1>1. turnOf[t].at = "run" /\ ~overlapped
  BY DEF Reply, Goes
<1>2. turnOf[t] \in TurnState /\ waited \in BOOLEAN
  BY DEF ThreadInv, ThreadTypeOK, TurnState
<1>3. PICK R : R = turnOf[t].works
  OBVIOUS
<1>4. PICK m : m = assistant(<<>>)
  OBVIOUS
<1>5. /\ m \in ThreadMessage /\ Shaped(m) /\ m.role # "tool" /\ m.toolCalls = <<>>
      /\ ToSet(m.toolCalls) = {}
  <2>1. PICK calls : calls = <<>>
    OBVIOUS
  <2>2. calls \in Seq(Made) /\ ToSet(calls) = {} /\ \A p, q \in DOMAIN calls : calls[p] = calls[q] => p = q
    BY <2>1 DEF ToSet
  <2>3. m = assistant(calls)
    BY <1>4, <2>1, Zenon
  <2> QED
    BY <2>1, <2>2, <2>3, AssistantTyped
<1>6. PICK W : W = Append(R, m)
  OBVIOUS
<1>7. R \in Seq(ThreadMessage) /\ W \in Seq(ThreadMessage)
  BY <1>2, <1>3, <1>5, <1>6 DEF TurnState
<1>8. TurnKept(turnOf[t], made)
  BY <1>1 DEF ThreadInv
<1>9. Tidy(R) /\ AllCalls(R) \subseteq 1 .. made
  <2>1. Kept(turnOf[t].works, {}) /\ AllCalls(turnOf[t].works) \subseteq 1 .. made
    BY <1>1, <1>8 DEF TurnKept
  <2> QED
    BY <1>3, <2>1, Zenon DEF Kept
<1>10. Within(W, made)
  <2>1. Tidy(W)
    BY <1>5, <1>6, <1>9, PlainAdded
  <2>2. AllCalls(W) = AllCalls(R) \cup ToSet(m.toolCalls)
    BY <1>5, <1>6, <1>7, CallsAdded
  <2> QED
    BY <1>5, <1>9, <2>1, <2>2 DEF Within
<1>11. agentMessages' = W
  BY <1>3, <1>4, <1>6, Zenon DEF Reply
<1>12. turnOf' = [turnOf EXCEPT ![t] = TurnOver] /\ UNCHANGED <<thread, made, overlapped, isReady, join, stored, waited>>
  BY DEF Reply, JoinVars
<1>13. TurnOver \in TurnState /\ TurnOver.at \notin Running /\ turnOf[t].at \in Started
  BY <1>1, OverTyped DEF Running, Started
<1>14. PICK over : over = TurnOver
  OBVIOUS
<1> QED
  BY <1>2, <1>7, <1>10, <1>11, <1>12, <1>13, <1>14, RestingKeeps

LEMMA EndsEarlyKeeps ==
  ASSUME ThreadInv, NEW t \in Said, EndsEarly(t)
  PROVE  ThreadInv'
<1>1. turnOf[t].at \in Started /\ ~overlapped
  BY DEF EndsEarly, Sending, Started
<1>2. waited \in BOOLEAN /\ agentMessages \in Seq(ThreadMessage)
  BY DEF ThreadInv, ThreadTypeOK
<1>3. /\ turnOf' = [turnOf EXCEPT ![t] = TurnOver]
      /\ UNCHANGED <<agentMessages, thread, made, overlapped, isReady, join, stored, waited>>
  BY DEF EndsEarly, JoinVars
<1>4. PICK over : over = TurnOver
  OBVIOUS
<1>5. over \in TurnState /\ over.at \notin Running
  BY <1>4, OverTyped DEF Running
<1>6. Within(agentMessages', made)
  <2>1. Within(agentMessages, made)
    BY <1>1 DEF ThreadInv
  <2> QED
    BY <1>3, <2>1
<1> QED
  BY <1>1, <1>2, <1>3, <1>4, <1>5, <1>6, RestingKeeps

(* A run that is going is the only one, and what it works on is kept.      *)
LEMMA GoingKept ==
  ASSUME ThreadInv, ~overlapped, NEW t \in Said, turnOf[t].at \in Running
  PROVE  /\ Sending \subseteq {t} /\ Kept(thread, {}) /\ Within(thread, made)
         /\ Within(agentMessages, made) /\ TurnKept(turnOf[t], made)
         /\ turnOf[t] \in TurnState /\ waited \in BOOLEAN /\ made \in 0 .. MaxMade
         /\ thread \in Seq(ThreadMessage) /\ agentMessages \in Seq(ThreadMessage)
<1>1. turnOf[t] \in TurnState /\ waited \in BOOLEAN /\ made \in 0 .. MaxMade /\ thread \in Seq(ThreadMessage)
      /\ agentMessages \in Seq(ThreadMessage)
  BY DEF ThreadInv, ThreadTypeOK, TurnState
<1>2. turnOf[t].at \in Started
  BY DEF Running, Started
<1>3. Sending \subseteq {t}
  BY DEF ThreadInv, Sending, Running
<1> QED
  BY <1>1, <1>2, <1>3 DEF ThreadInv

(* A step of a run that goes on.                                           *)
LEMMA GoingMoves ==
  ASSUME ThreadInv, ~overlapped, NEW t \in Said, turnOf[t].at \in Running,
         NEW next \in TurnState, next.at \in Running, turnOf' = [turnOf EXCEPT ![t] = next],
         UNCHANGED <<overlapped, isReady, join, stored, waited>>,
         made' \in 0 .. MaxMade, made <= made',
         agentMessages' \in Seq(ThreadMessage), thread' \in Seq(ThreadMessage),
         TurnKept(next, made'), Within(agentMessages', made'),
         thread' # thread => Kept(thread', {}) /\ Within(thread', made')
  PROVE  ThreadInv'
<1>1. /\ Sending \subseteq {t} /\ Kept(thread, {}) /\ Within(thread, made)
      /\ waited \in BOOLEAN /\ made \in 0 .. MaxMade
  BY GoingKept
<1>2. overlapped' \in BOOLEAN /\ waited' \in BOOLEAN
  BY <1>1 DEF ThreadInv, ThreadTypeOK
<1>3. Within(thread, made')
  <2>1. made \in Nat /\ made' \in Nat
    BY <1>1, ThreadAssumption
  <2> QED
    BY <1>1, <2>1, WithinMore
<1>4. Kept(thread', {}) /\ Within(thread', made')
  <2>1. CASE thread' = thread
    BY <1>1, <1>3, <2>1, Zenon
  <2> QED
    BY <2>1
<1> QED
  BY <1>1, <1>2, <1>4, TurnMoves

LEMMA NextRunKeeps ==
  ASSUME ThreadInv, NEW t \in Said, NextRun(t)
  PROVE  ThreadInv'
<1>1. turnOf[t].at = "tools" /\ turnOf[t].at \in Running /\ ~overlapped /\ turnOf[t].owes = <<>>
  BY DEF NextRun, Goes, Running
<1>2. /\ TurnKept(turnOf[t], made) /\ turnOf[t] \in TurnState /\ made \in 0 .. MaxMade
      /\ agentMessages \in Seq(ThreadMessage) /\ Within(agentMessages, made)
  BY <1>1, GoingKept
<1>3. PICK W : W = turnOf[t].works
  OBVIOUS
<1>4. PICK owes : owes = turnOf[t].owes
  OBVIOUS
<1>5. Kept(W, ToSet(owes)) /\ AllCalls(W) \subseteq 1 .. made
  BY <1>1, <1>2, <1>3, <1>4, Zenon DEF TurnKept
<1>6. Kept(W, {})
  <2>1. ToSet(owes) = {}
    BY <1>1, <1>4 DEF ToSet
  <2> QED
    BY <1>5, <2>1, Zenon
<1>7. PICK next : next = [turnOf[t] EXCEPT !.at = "run"]
  OBVIOUS
<1>8. /\ next \in TurnState /\ next.at = "run" /\ next.works = W /\ turnOf' = [turnOf EXCEPT ![t] = next]
      /\ next.at \in Running
  BY <1>2, <1>3, <1>7 DEF TurnState, NextRun, Running
<1>9. thread' = W /\ UNCHANGED <<agentMessages, made, overlapped, isReady, join, stored, waited>>
  BY <1>3 DEF NextRun, JoinVars
<1>10. W \in Seq(ThreadMessage)
  BY <1>2, <1>3 DEF TurnState
<1>11. made <= made' /\ made' \in 0 .. MaxMade
  BY <1>2, <1>9, ThreadAssumption
<1>12. next.at # "tools"
  BY <1>8
<1>13. TurnKept(next, made)
  BY <1>5, <1>6, <1>8, <1>12, Zenon DEF TurnKept
<1>14. Within(W, made)
  BY <1>5, <1>6 DEF Within, Kept
<1>15. TurnKept(next, made') /\ Within(agentMessages', made') /\ Kept(thread', {}) /\ Within(thread', made')
  BY <1>2, <1>6, <1>9, <1>13, <1>14, Zenon
<1> QED
  BY <1>1, <1>8, <1>9, <1>10, <1>2, <1>11, <1>15, GoingMoves

LEMMA CallReturnsKeeps ==
  ASSUME ThreadInv, NEW t \in Said, CallReturns(t)
  PROVE  ThreadInv'
<1>1. turnOf[t].at = "tools" /\ turnOf[t].at \in Running /\ ~overlapped /\ turnOf[t].owes # <<>>
  BY DEF CallReturns, Goes, Running
<1>2. /\ TurnKept(turnOf[t], made) /\ turnOf[t] \in TurnState /\ made \in 0 .. MaxMade
      /\ thread \in Seq(ThreadMessage)
  BY <1>1, GoingKept
<1>3. PICK R : R = turnOf[t].works
  OBVIOUS
<1>4. PICK owes : owes = turnOf[t].owes
  OBVIOUS
<1>5. /\ R \in Seq(ThreadMessage) /\ owes \in Seq(Made) /\ owes # <<>>
  BY <1>1, <1>2, <1>3, <1>4 DEF TurnState
<1>6. /\ Kept(R, ToSet(owes)) /\ AllCalls(R) \subseteq 1 .. made
      /\ \A p, q \in DOMAIN owes : owes[p] = owes[q] => p = q
  BY <1>1, <1>2, <1>3, <1>4, Zenon DEF TurnKept
<1>7. PICK c : c = Head(owes)
  OBVIOUS
<1>8. PICK rest : rest = Tail(owes)
  OBVIOUS
<1>9. PICK n \in Nat : n + 1 = Len(owes)
  <2>1. PICK k \in Nat : k = Len(owes)
    BY <1>5
  <2>2. k # 0
    BY <1>5, <2>1
  <2> QED
    BY <2>1, <2>2
<1>10. /\ c = owes[1] /\ rest \in Seq(Made) /\ Len(rest) = n
       /\ \A i \in 1 .. n : rest[i] = owes[i + 1]
  BY <1>5, <1>7, <1>8, <1>9
<1>11. /\ ToSet(owes) \in SUBSET Made /\ c \in ToSet(owes) /\ c \in Made
       /\ ToSet(rest) = ToSet(owes) \ {c}
       /\ \A p, q \in DOMAIN rest : rest[p] = rest[q] => p = q
  <2>1. DOMAIN owes = 1 .. n + 1 /\ DOMAIN rest = 1 .. n /\ 1 \in 1 .. n + 1
    BY <1>5, <1>9, <1>10
  <2>2. \A i \in 1 .. n : i + 1 \in 1 .. n + 1 /\ i + 1 # 1
    OBVIOUS
  <2>3. \A i \in 1 .. n + 1 : i = 1 \/ (i - 1 \in 1 .. n /\ (i - 1) + 1 = i)
    OBVIOUS
  <2>4. \A i \in 1 .. n + 1 : owes[i] \in Made
    BY <1>5, <2>1
  <2>5. \A p, q \in DOMAIN rest : rest[p] = rest[q] => p = q
    <3>1. ASSUME NEW p \in 1 .. n, NEW q \in 1 .. n, rest[p] = rest[q] PROVE p = q
      <4>1. owes[p + 1] = owes[q + 1]
        BY <1>10, <3>1
      <4>2. p + 1 = q + 1
        BY <1>6, <2>1, <2>2, <4>1
      <4> QED
        BY <4>2
    <3> QED
      BY <2>1, <3>1
  <2>6. ASSUME NEW d \in ToSet(rest) PROVE d \in ToSet(owes) /\ d # c
    <3>1. PICK i \in 1 .. n : d = rest[i]
      BY <2>1 DEF ToSet
    <3>2. d = owes[i + 1] /\ i + 1 \in 1 .. n + 1 /\ i + 1 # 1
      BY <1>10, <2>2, <3>1
    <3> QED
      BY <1>6, <1>10, <2>1, <3>2 DEF ToSet
  <2>7. ASSUME NEW d \in ToSet(owes), d # c PROVE d \in ToSet(rest)
    <3>1. PICK i \in 1 .. n + 1 : d = owes[i]
      BY <2>1 DEF ToSet
    <3>2. i - 1 \in 1 .. n /\ (i - 1) + 1 = i
      BY <1>10, <2>3, <2>7, <3>1
    <3>3. rest[i - 1] = d
      BY <1>10, <3>1, <3>2
    <3> QED
      BY <2>1, <3>2, <3>3 DEF ToSet
  <2>8. ToSet(rest) = ToSet(owes) \ {c}
    <3>1. c \notin ToSet(rest)
      BY <2>6
    <3> QED
      BY <2>6, <2>7, <3>1
  <2>9. ToSet(owes) \in SUBSET Made /\ c \in ToSet(owes)
    BY <1>10, <2>1, <2>4 DEF ToSet
  <2> QED
    BY <2>5, <2>8, <2>9
<1>12. PICK m : m = tool(c)
  OBVIOUS
<1>13. m \in ThreadMessage /\ m.role = "tool" /\ m.toolCallId = c /\ Shaped(m)
  BY <1>11, <1>12, ToolTyped, ToolShaped
<1>14. PICK W : W = Append(R, m)
  OBVIOUS
<1>15. Kept(W, ToSet(rest)) /\ AllCalls(W) \subseteq 1 .. made /\ Within(W, made)
  <2>1. Kept(W, ToSet(owes) \ {m.toolCallId}) /\ AllCalls(W) = AllCalls(R)
    BY <1>6, <1>11, <1>13, <1>14, ResultKept
  <2>2. ToSet(owes) \ {m.toolCallId} = ToSet(rest)
    BY <1>11, <1>13
  <2>3. Kept(W, ToSet(rest)) /\ AllCalls(W) \subseteq 1 .. made
    BY <1>6, <2>1, <2>2, Zenon
  <2> QED
    BY <2>3 DEF Within, Kept
<1>16. W \in Seq(ThreadMessage)
  BY <1>5, <1>13, <1>14
<1>17. PICK next : next = [turnOf[t] EXCEPT !.owes = rest, !.works = W]
  OBVIOUS
<1>18. /\ next \in TurnState /\ next.at = "tools" /\ next.works = W /\ next.owes = rest
       /\ next.at \in Running
  BY <1>1, <1>2, <1>10, <1>16, <1>17 DEF TurnState, Running
<1>19. agentMessages' = W /\ turnOf' = [turnOf EXCEPT ![t] = next]
  <2>1. Adds(t, m, [turnOf[t] EXCEPT !.owes = rest])
    BY <1>4, <1>7, <1>8, <1>12 DEF CallReturns
  <2> QED
    BY <1>2, <1>3, <1>14, <1>17, <2>1 DEF Adds, TurnState
<1>20. UNCHANGED <<thread, made, overlapped, isReady, join, stored, waited>>
  BY DEF CallReturns, Adds, JoinVars
<1>21. made <= made' /\ made' \in 0 .. MaxMade
  BY <1>2, <1>20, ThreadAssumption
<1>22. next.at # "run"
  BY <1>18
<1>23. TurnKept(next, made)
  BY <1>11, <1>15, <1>18, <1>22, Zenon DEF TurnKept
<1>24. TurnKept(next, made') /\ Within(agentMessages', made') /\ thread' \in Seq(ThreadMessage)
  BY <1>2, <1>15, <1>19, <1>20, <1>23, Zenon
<1>25. thread' = thread /\ agentMessages' \in Seq(ThreadMessage)
  BY <1>16, <1>19, <1>20
<1>26. UNCHANGED <<overlapped, isReady, join, stored, waited>>
  BY <1>20
<1> QED
  BY <1>1, <1>18, <1>19, <1>21, <1>24, <1>25, <1>26, GoingMoves

LEMMA MakesCallsKeeps ==
  ASSUME ThreadInv, NEW t \in Said, MakesCalls(t)
  PROVE  ThreadInv'
<1>1. turnOf[t].at = "run" /\ turnOf[t].at \in Running /\ ~overlapped
  BY DEF MakesCalls, Goes, Running
<1>2. /\ TurnKept(turnOf[t], made) /\ turnOf[t] \in TurnState /\ made \in 0 .. MaxMade
      /\ thread \in Seq(ThreadMessage)
  BY <1>1, GoingKept
<1>3. PICK n \in {1, 2} :
         /\ made + n <= MaxMade /\ made' = made + n
         /\ Adds(t, assistant([i \in 1 .. n |-> made + i]),
                 [turnOf[t] EXCEPT !.at = "tools", !.owes = [i \in 1 .. n |-> made + i]])
  BY DEF MakesCalls
<1>4. PICK calls : calls = [i \in 1 .. n |-> made + i]
  OBVIOUS
<1>5. PICK R : R = turnOf[t].works
  OBVIOUS
<1>6. PICK m : m = assistant(calls)
  OBVIOUS
<1>7. made \in Nat /\ made' \in 0 .. MaxMade /\ made <= made' /\ made' \in Nat
  BY <1>2, <1>3, ThreadAssumption
<1>8. /\ calls \in Seq(Made) /\ DOMAIN calls = 1 .. n
      /\ \A p, q \in DOMAIN calls : calls[p] = calls[q] => p = q
      /\ ToSet(calls) \subseteq Made /\ \A c \in ToSet(calls) : c \notin 1 .. made /\ c \in 1 .. made'
  <2>1. DOMAIN calls = 1 .. n /\ \A i \in 1 .. n : calls[i] = made + i
    BY <1>4
  <2>2. \A i \in 1 .. n : made + i \in Made /\ made + i \notin 1 .. made /\ made + i \in 1 .. made'
    BY <1>3, <1>7, ThreadAssumption DEF Made
  <2>3. \A p, q \in 1 .. n : made + p = made + q => p = q
    BY <1>7
  <2>4. calls \in Seq(Made)
    <3>1. calls \in [1 .. n -> Made]
      BY <1>4, <2>2
    <3>2. n \in Nat
      OBVIOUS
    <3> QED
      BY <3>1, <3>2
  <2> QED
    BY <2>1, <2>2, <2>3, <2>4 DEF ToSet
<1>9. m \in ThreadMessage /\ Shaped(m) /\ m.role # "tool" /\ m.toolCalls = calls
  BY <1>6, <1>8, AssistantTyped
<1>10. PICK W : W = Append(R, m)
  OBVIOUS
<1>11. R \in Seq(ThreadMessage) /\ W \in Seq(ThreadMessage)
  BY <1>2, <1>5, <1>9, <1>10 DEF TurnState
<1>12. Kept(R, {}) /\ AllCalls(R) \subseteq 1 .. made /\ Tidy(R)
  <2>1. Kept(R, {}) /\ AllCalls(R) \subseteq 1 .. made
    BY <1>1, <1>2, <1>5, Zenon DEF TurnKept
  <2> QED
    BY <2>1 DEF Kept
<1>13. \A i \in 1 .. Len(R) : \A c \in ToSet(m.toolCalls) : c \notin CallsOf(R)[i]
  <2>1. \A c \in ToSet(calls) : c \in Made /\ c \notin AllCalls(R)
    BY <1>8, <1>12
  <2>2. \A c \in ToSet(calls) : \A i \in 1 .. Len(R) : c \notin CallsOf(R)[i]
    BY <2>1 DEF AllCalls
  <2> QED
    BY <1>9, <2>2
<1>14. Kept(W, ToSet(calls)) /\ AllCalls(W) \subseteq 1 .. made' /\ Within(W, made')
  <2>1. Kept(W, ToSet(m.toolCalls))
    BY <1>9, <1>10, <1>12, <1>13, PlainAdded
  <2>2. AllCalls(W) = AllCalls(R) \cup ToSet(m.toolCalls)
    BY <1>9, <1>10, <1>11, CallsAdded
  <2>3. 1 .. made \subseteq 1 .. made'
    BY <1>7
  <2>4. ToSet(calls) \subseteq 1 .. made'
    BY <1>8
  <2>5. Kept(W, ToSet(calls)) /\ AllCalls(W) = AllCalls(R) \cup ToSet(calls)
    BY <1>9, <2>1, <2>2, Zenon
  <2>6. AllCalls(W) \subseteq 1 .. made'
    BY <1>12, <2>3, <2>4, <2>5
  <2> QED
    BY <2>5, <2>6 DEF Within, Kept
<1>15. PICK next : next = [turnOf[t] EXCEPT !.at = "tools", !.owes = calls, !.works = W]
  OBVIOUS
<1>16. /\ next \in TurnState /\ next.at = "tools" /\ next.works = W /\ next.owes = calls
       /\ next.at \in Running
  BY <1>2, <1>8, <1>11, <1>15 DEF TurnState, Running
<1>17. agentMessages' = W /\ turnOf' = [turnOf EXCEPT ![t] = next]
  <2>1. Adds(t, m, [turnOf[t] EXCEPT !.at = "tools", !.owes = calls])
    BY <1>3, <1>4, <1>6
  <2> QED
    BY <1>2, <1>5, <1>10, <1>15, <2>1 DEF Adds, TurnState
<1>18. UNCHANGED <<thread, overlapped, isReady, join, stored, waited>>
  BY <1>3 DEF Adds, JoinVars
<1>19. next.at # "run"
  BY <1>16
<1>20. TurnKept(next, made')
  BY <1>8, <1>14, <1>16, <1>19, Zenon DEF TurnKept
<1>21. Within(agentMessages', made') /\ thread' \in Seq(ThreadMessage)
  BY <1>2, <1>14, <1>17, <1>18, Zenon
<1>22. thread' = thread /\ agentMessages' \in Seq(ThreadMessage)
  BY <1>11, <1>17, <1>18
<1>23. UNCHANGED <<overlapped, isReady, join, stored, waited>>
  BY <1>18
<1> QED
  BY <1>1, <1>7, <1>16, <1>17, <1>20, <1>21, <1>22, <1>23, GoingMoves

-----------------------------------------------------------------------------
(* What earlier mounts may have left.                                      *)

LEMMA NothingKept ==
  ASSUME NEW R, R = <<>>
  PROVE  R \in Seq(ThreadMessage) /\ Kept(R, {}) /\ AllCalls(R) = {}
<1>1. R \in Seq(ThreadMessage) /\ Len(R) = 0
  OBVIOUS
<1>2. Kept(R, {})
  BY <1>1 DEF Kept, Tidy, Neat, Held
<1>3. AllCalls(R) = {}
  BY <1>1 DEF AllCalls
<1> QED
  BY <1>1, <1>2, <1>3

LEMMA TwoMessages ==
  \A x \in ThreadMessage, y \in ThreadMessage : Append(Append(<<>>, x), y) = <<x, y>>
<1> SUFFICES ASSUME NEW x \in ThreadMessage, NEW y \in ThreadMessage
             PROVE  Append(Append(<<>>, x), y) = <<x, y>>
  OBVIOUS
<1>1. PICK s : s = <<x, y>>
  OBVIOUS
<1>2. s \in Seq(ThreadMessage) /\ Len(s) = 2 /\ s[1] = x /\ s[2] = y
  BY <1>1
<1>3. PICK r : r = Append(Append(<<>>, x), y)
  OBVIOUS
<1>4. r \in Seq(ThreadMessage) /\ Len(r) = 2 /\ r[1] = x /\ r[2] = y
  BY <1>3
<1>5. \A i \in 1 .. 2 : i = 1 \/ i = 2
  OBVIOUS
<1>6. s = r
  BY <1>2, <1>4, <1>5, SeqEqual
<1> QED
  BY <1>1, <1>3, <1>6

LEMMA ThreeMessages ==
  \A x \in ThreadMessage, y \in ThreadMessage, z \in ThreadMessage :
      Append(Append(Append(<<>>, x), y), z) = <<x, y, z>>
<1> SUFFICES ASSUME NEW x \in ThreadMessage, NEW y \in ThreadMessage, NEW z \in ThreadMessage
             PROVE  Append(Append(Append(<<>>, x), y), z) = <<x, y, z>>
  OBVIOUS
<1>1. PICK s : s = <<x, y, z>>
  OBVIOUS
<1>2. s \in Seq(ThreadMessage) /\ Len(s) = 3 /\ s[1] = x /\ s[2] = y /\ s[3] = z
  BY <1>1
<1>3. PICK r : r = Append(Append(Append(<<>>, x), y), z)
  OBVIOUS
<1>4. r \in Seq(ThreadMessage) /\ Len(r) = 3 /\ r[1] = x /\ r[2] = y /\ r[3] = z
  BY <1>3
<1>5. \A i \in 1 .. 3 : i = 1 \/ i = 2 \/ i = 3
  OBVIOUS
<1>6. s = r
  BY <1>2, <1>4, <1>5, SeqEqual
<1> QED
  BY <1>1, <1>3, <1>6

LEMMA HistoriesTidy == \A h \in Histories : Tidy(h)
<1>1. PICK none : none = <<>>
  OBVIOUS
<1>2. PICK u : u = user(1)
  OBVIOUS
<1>3. 1 \in Said /\ 1 \in Made /\ 2 \in Made
  BY ThreadAssumption DEF Said, Made
<1>4. u \in ThreadMessage /\ Shaped(u) /\ u.role # "tool" /\ ToSet(u.toolCalls) = {}
  BY <1>2, <1>3, UserTyped
<1>5. none \in Seq(ThreadMessage) /\ Kept(none, {}) /\ AllCalls(none) = {} /\ Tidy(none) /\ Len(none) = 0
  <2>1. Kept(none, {}) /\ AllCalls(none) = {}
    BY <1>1, NothingKept
  <2> QED
    BY <1>1, <2>1 DEF Kept
<1>6. PICK R : R = Append(none, u)
  OBVIOUS
<1>7. R \in Seq(ThreadMessage) /\ Kept(R, {}) /\ Tidy(R) /\ AllCalls(R) = {}
  <2>1. \A i \in 1 .. Len(none) : \A c \in ToSet(u.toolCalls) : c \notin CallsOf(none)[i]
    BY <1>4
  <2>2. Kept(R, ToSet(u.toolCalls))
    BY <1>4, <1>5, <1>6, <2>1, PlainAdded
  <2>3. AllCalls(R) = AllCalls(none) \cup ToSet(u.toolCalls)
    BY <1>4, <1>5, <1>6, CallsAdded
  <2>4. Kept(R, {}) /\ AllCalls(R) = {}
    BY <1>4, <1>5, <2>2, <2>3, Zenon
  <2> QED
    BY <2>4 DEF Kept, Tidy
<1>8. \A c \in Made : \A i \in 1 .. Len(R) : c \notin CallsOf(R)[i]
  BY <1>7 DEF AllCalls
<1>9. ASSUME NEW calls \in Seq(Made), \A p, q \in DOMAIN calls : calls[p] = calls[q] => p = q,
             NEW a, a = assistant(calls)
      PROVE  Kept(Append(R, a), ToSet(calls)) /\ Tidy(Append(R, a)) /\ a \in ThreadMessage
  <2>1. a \in ThreadMessage /\ Shaped(a) /\ a.role # "tool" /\ a.toolCalls = calls
    BY <1>9, AssistantTyped
  <2>2. \A i \in 1 .. Len(R) : \A c \in ToSet(a.toolCalls) : c \notin CallsOf(R)[i]
    <3>1. ToSet(a.toolCalls) \subseteq Made
      BY <2>1 DEF ToSet
    <3> QED
      BY <1>8, <3>1
  <2>3. PICK W : W = Append(R, a)
    OBVIOUS
  <2>4. Tidy(W) /\ Kept(W, ToSet(a.toolCalls))
    BY <1>7, <2>1, <2>2, <2>3, PlainAdded
  <2> QED
    BY <2>1, <2>3, <2>4, Zenon
<1>10. Tidy(<<user(1), assistant(<<1>>)>>)
  <2>1. PICK calls : calls = <<1>>
    OBVIOUS
  <2>2. calls \in Seq(Made) /\ \A p, q \in DOMAIN calls : calls[p] = calls[q] => p = q
    BY <1>3, <2>1
  <2>3. PICK a : a = assistant(calls)
    OBVIOUS
  <2>4. Tidy(Append(R, a)) /\ a \in ThreadMessage
    BY <1>9, <2>2, <2>3
  <2>5. Append(R, a) = <<u, a>>
    BY <1>1, <1>4, <1>6, <2>4, TwoMessages, Zenon
  <2>6. Tidy(<<u, a>>)
    BY <2>4, <2>5, Zenon
  <2> QED
    BY <1>2, <2>1, <2>3, <2>6, Zenon
<1>11. Tidy(<<user(1), assistant(<<1, 2>>), tool(2)>>)
  <2>1. PICK calls : calls = <<1, 2>>
    OBVIOUS
  <2>2. /\ calls \in Seq(Made) /\ \A p, q \in DOMAIN calls : calls[p] = calls[q] => p = q
        /\ ToSet(calls) = {1, 2}
    <3>1. DOMAIN calls = {1, 2} /\ calls[1] = 1 /\ calls[2] = 2 /\ calls \in Seq(Made)
      BY <1>3, <2>1
    <3> QED
      BY <3>1 DEF ToSet
  <2>3. PICK a : a = assistant(calls)
    OBVIOUS
  <2>4. PICK S : S = Append(R, a)
    OBVIOUS
  <2>5. Kept(S, ToSet(calls)) /\ a \in ThreadMessage
    BY <1>9, <2>2, <2>3, <2>4, Zenon
  <2>6. PICK m : m = tool(2)
    OBVIOUS
  <2>7. m \in ThreadMessage /\ m.role = "tool" /\ m.toolCallId = 2 /\ Shaped(m)
    BY <1>3, <2>6, ToolTyped, ToolShaped
  <2>8. PICK W : W = Append(S, m)
    OBVIOUS
  <2>9. ToSet(calls) \in SUBSET Made /\ m.toolCallId \in ToSet(calls)
    BY <1>3, <2>2, <2>7
  <2>10. Kept(W, ToSet(calls) \ {m.toolCallId})
    BY <2>5, <2>7, <2>8, <2>9, ResultKept
  <2>11. Tidy(W)
    BY <2>10 DEF Kept
  <2>12. W = <<u, a, m>>
    BY <1>1, <1>4, <1>6, <2>4, <2>5, <2>7, <2>8, ThreeMessages, Zenon
  <2>13. Tidy(<<u, a, m>>)
    BY <2>11, <2>12, Zenon
  <2> QED
    BY <1>2, <2>1, <2>3, <2>6, <2>13, Zenon
<1>12. ASSUME NEW h \in Histories PROVE Tidy(h)
  <2>1. \/ h = <<>> \/ h = <<user(1), assistant(<<1>>)>>
        \/ h = <<user(1), assistant(<<1, 2>>), tool(2)>>
    BY Zenon DEF Histories
  <2>2. CASE h = <<>>
    BY <1>1, <1>5, <2>2, Zenon
  <2>3. CASE h = <<user(1), assistant(<<1>>)>>
    BY <1>10, <2>3, Zenon
  <2>4. CASE h = <<user(1), assistant(<<1, 2>>), tool(2)>>
    BY <1>11, <2>4, Zenon
  <2> QED
    BY <2>1, <2>2, <2>3, <2>4
<1> QED
  BY <1>12

LEMMA InitThread == ThreadInit => ThreadInv
<1> SUFFICES ASSUME ThreadInit PROVE ThreadInv
  OBVIOUS
<1>1. PICK none : none = <<>>
  OBVIOUS
<1>2. none \in Seq(ThreadMessage) /\ Kept(none, {}) /\ AllCalls(none) = {} /\ Tidy(none)
  <2>1. Kept(none, {}) /\ AllCalls(none) = {}
    BY <1>1, NothingKept
  <2> QED
    BY <2>1 DEF Kept, Tidy
<1>3. PICK th : th = thread
  OBVIOUS
<1>4. th = none \/ th \in Histories
  BY <1>1, <1>3 DEF ThreadInit
<1>5. Tidy(th) /\ th \in Seq(ThreadMessage)
  <2>1. Tidy(th)
    <3>1. CASE th = none
      BY <1>2, <3>1, Zenon
    <3>2. CASE th \in Histories
      BY <3>2, HistoriesTidy
    <3> QED
      BY <1>4, <3>1, <3>2
  <2> QED
    BY <2>1 DEF Tidy
<1>6. PICK S : S = {0} \cup UNION {ToSet(m.toolCalls) : m \in ToSet(th)}
  OBVIOUS
<1>7. made = Max(S)
  BY <1>3, <1>6 DEF ThreadInit
<1>8. PICK n \in Nat : n = Len(th)
  BY <1>5
<1>9. DOMAIN th = 1 .. n /\ \A i \in 1 .. n : th[i] \in ThreadMessage
  BY <1>5, <1>8
<1>10. S \in SUBSET (0 .. MaxMade) /\ 0 \in S
  <2>1. ASSUME NEW m \in ThreadMessage PROVE ToSet(m.toolCalls) \subseteq 0 .. MaxMade
    <3>1. PICK cs : cs = m.toolCalls
      OBVIOUS
    <3>2. cs \in Seq(Made)
      BY <3>1 DEF ThreadMessage
    <3>3. ToSet(cs) \subseteq Made
      BY <3>2 DEF ToSet
    <3>4. Made \subseteq 0 .. MaxMade
      BY ThreadAssumption DEF Made
    <3> QED
      BY <3>1, <3>3, <3>4
  <2>2. ToSet(th) \subseteq ThreadMessage
    BY <1>9 DEF ToSet
  <2>3. 0 \in 0 .. MaxMade
    BY ThreadAssumption
  <2> QED
    BY <1>6, <2>1, <2>2, <2>3
<1>11. made \in S /\ \A y \in S : y <= made
  <2>1. Max(S) \in S /\ \A y \in S : y <= Max(S)
    BY <1>10, ThreadAssumption, MaxBounds
  <2> QED
    BY <1>7, <2>1, Zenon
<1>12. made \in 0 .. MaxMade
  BY <1>10, <1>11
<1>13. AllCalls(th) \subseteq 1 .. made
  <2> SUFFICES ASSUME NEW c \in AllCalls(th) PROVE c \in 1 .. made
    OBVIOUS
  <2>1. PICK i \in 1 .. n : c \in CallsOf(th)[i]
    BY <1>8 DEF AllCalls
  <2>2. CallsOf(th)[i] = ToSet(th[i].toolCalls)
    BY <1>8, Zenon DEF CallsOf
  <2>3. th[i] \in ToSet(th)
    BY <1>9 DEF ToSet
  <2>4. c \in S
    BY <1>6, <2>1, <2>2, <2>3
  <2>5. c \in Made
    BY DEF AllCalls
  <2> QED
    BY <1>11, <1>12, <2>4, <2>5, ThreadAssumption DEF Made
<1>14. agentMessages = none /\ stored = none
  BY <1>1 DEF ThreadInit
<1>15. /\ isReady \in BOOLEAN /\ waited \in BOOLEAN /\ overlapped \in BOOLEAN
       /\ join \in {"due", "connecting", "reading", "read", "over"}
  BY DEF ThreadInit
<1>16. PICK first \in {"none", "held"} :
         turnOf = [t \in Said |->
              [at |-> IF t = First THEN first ELSE "unsaid", works |-> <<>>, owes |-> <<>>]]
  BY DEF ThreadInit
<1>17. turnOf \in [Said -> TurnState] /\ \A t \in Said : turnOf[t].at \in {"none", "held", "unsaid"}
  <2>1. <<>> \in Seq(ThreadMessage) /\ <<>> \in Seq(Made)
    OBVIOUS
  <2> QED
    BY <1>16, <2>1 DEF TurnState
<1>18. ThreadTypeOK
  BY <1>2, <1>3, <1>5, <1>12, <1>14, <1>15, <1>17 DEF ThreadTypeOK, TurnState
<1>19. Within(none, made) /\ Within(th, made)
  BY <1>2, <1>5, <1>13 DEF Within
<1>20. Within(agentMessages, made) /\ Within(thread, made) /\ Within(stored, made)
  BY <1>3, <1>14, <1>19, Zenon
<1>21. \A t \in Said : turnOf[t].at \notin Started /\ turnOf[t].at \notin Running
  BY <1>17 DEF Started, Running
<1>22. \A t \in Said : TurnKept(turnOf[t], made)
  <2>1. ASSUME NEW t \in Said PROVE TurnKept(turnOf[t], made)
    <3>1. turnOf[t].at # "run" /\ turnOf[t].at # "tools"
      BY <1>17
    <3> QED
      BY <3>1, Zenon DEF TurnKept
  <2> QED
    BY <2>1
<1> QED
  BY <1>18, <1>20, <1>21, <1>22 DEF ThreadInv

-----------------------------------------------------------------------------
(* The join, and the whole.                                                *)

LEMMA JoinKeeps ==
  ASSUME ThreadInv, UNCHANGED <<thread, turnOf, made, overlapped>>,
         isReady' \in BOOLEAN, waited' \in BOOLEAN,
         join' \in {"due", "connecting", "reading", "read", "over"},
         stored' \in {stored, thread}, agentMessages' \in {<<>>, agentMessages, thread, stored}
  PROVE  ThreadInv'
<1>1. PICK none : none = <<>>
  OBVIOUS
<1>2. none \in Seq(ThreadMessage) /\ Tidy(none) /\ AllCalls(none) = {}
  <2>1. Kept(none, {}) /\ AllCalls(none) = {}
    BY <1>1, NothingKept
  <2> QED
    BY <2>1 DEF Kept, Tidy
<1>3. ThreadTypeOK'
  BY <1>1, <1>2 DEF ThreadInv, ThreadTypeOK
<1>4. ASSUME ~overlapped'
      PROVE  Within(agentMessages', made') /\ Within(stored', made') /\ Within(thread', made')
  <2>1. Within(agentMessages, made) /\ Within(thread, made) /\ Within(stored, made)
    BY <1>4 DEF ThreadInv
  <2>2. Within(none, made)
    BY <1>2 DEF Within
  <2>3. Within(agentMessages', made)
    BY <1>1, <2>1, <2>2, Zenon
  <2>4. Within(stored', made)
    BY <2>1, Zenon
  <2> QED
    BY <2>1, <2>3, <2>4
<1>5. ASSUME ~overlapped'
      PROVE  /\ \A t, u \in Said : turnOf'[t].at \in Running /\ turnOf'[u].at \in Running => t = u
             /\ \A t \in Said : TurnKept(turnOf'[t], made')
             /\ (\E t \in Said : turnOf'[t].at \in Started) => Kept(thread', {})
  BY <1>5 DEF ThreadInv
<1> QED
  BY <1>3, <1>4, <1>5 DEF ThreadInv

LEMMA NextThread == ThreadInv /\ [ThreadNext]_threadVars => ThreadInv'
<1> SUFFICES ASSUME ThreadInv, [ThreadNext]_threadVars PROVE ThreadInv'
  OBVIOUS
<1>1. /\ isReady \in BOOLEAN /\ waited \in BOOLEAN
      /\ join \in {"due", "connecting", "reading", "read", "over"}
  BY DEF ThreadInv, ThreadTypeOK
<1>2. CASE BecomesReady \/ Connect \/ JoinEnds \/ ReadHistory \/ ReadFails \/ Backstop
  BY <1>1, <1>2, JoinKeeps DEF BecomesReady, Connect, JoinEnds, ReadHistory, ReadFails, Backstop, TurnVars
<1>3. CASE Rejoin
  BY <1>1, <1>3, JoinKeeps DEF Rejoin, TurnVars
<1>4. CASE Restore
  BY <1>1, <1>4, JoinKeeps DEF Restore, TurnVars
<1>5. ASSUME NEW t \in Said, turnOf[t].at \notin Started, say(t) PROVE ThreadInv'
  BY <1>5, DeliversKeeps, WaitsForRuntimeKeeps DEF say
<1>6. CASE SayFirst
  <2>1. First \in Said
    BY ThreadAssumption DEF First, Said
  <2>2. turnOf[First].at \notin Started /\ say(First)
    BY <1>6 DEF SayFirst, Started
  <2> QED
    BY <1>5, <2>1, <2>2
<1>7. ASSUME NEW t \in Said \ {First}, SayNext(t) PROVE ThreadInv'
  <2>1. turnOf[t].at \notin Started /\ say(t)
    BY <1>7 DEF SayNext, Goes, Started
  <2> QED
    BY <1>5, <2>1
<1>8. ASSUME NEW t \in Said, DeliverLate(t) PROVE ThreadInv'
  <2>1. turnOf[t].at \notin Started /\ Delivers(t)
    BY <1>8 DEF DeliverLate, Started
  <2> QED
    BY <2>1, DeliversKeeps
<1>9. ASSUME NEW t \in Said, Reply(t) \/ MakesCalls(t) \/ CallReturns(t) \/ NextRun(t) \/ EndsEarly(t)
      PROVE  ThreadInv'
  BY <1>9, ReplyKeeps, MakesCallsKeeps, CallReturnsKeeps, NextRunKeeps, EndsEarlyKeeps
<1>10. CASE UNCHANGED threadVars
  BY <1>1, <1>10, JoinKeeps DEF threadVars
<1> QED
  BY <1>2, <1>3, <1>4, <1>6, <1>7, <1>8, <1>9, <1>10 DEF ThreadNext

(* A kept history is one in which every call is answered once.             *)
LEMMA KeptAnswers == ThreadInv => CallsAnsweredOnce
<1> SUFFICES ASSUME ThreadInv, ~overlapped, NEW t \in Said, turnOf[t].at \in {"run", "tools", "over"}
             PROVE  /\ \A i \in DOMAIN thread : \A c \in ToSet(thread[i].toolCalls) :
                         \E j \in DOMAIN thread :
                            /\ j > i /\ \A k \in i + 1 .. j : thread[k].role = "tool"
                            /\ {k \in DOMAIN thread : thread[k].toolCallId = c} = {j}
                    /\ \A j \in DOMAIN thread : thread[j].role = "tool" =>
                         \E i \in 1 .. (j - 1) : thread[j].toolCallId \in ToSet(thread[i].toolCalls)
  BY DEF CallsAnsweredOnce
<1>1. Kept(thread, {})
  BY DEF ThreadInv, Started
<1>2. thread \in Seq(ThreadMessage) /\ \A i \in 1 .. Len(thread) : Shaped(thread[i])
  BY <1>1 DEF Kept, Tidy
<1>3. PICK n \in Nat : n = Len(thread)
  BY <1>2
<1>4. PICK C : C = CallsOf(thread)
  OBVIOUS
<1>5. PICK D : D = ResultsOf(thread)
  OBVIOUS
<1>6. Neat(n, C, D) /\ Held(n, C, D, {})
  BY <1>1, <1>3, <1>4, <1>5, Zenon DEF Kept, Tidy
<1>7. DOMAIN thread = 1 .. n
  BY <1>2, <1>3
<1>8. \A i \in 1 .. n : C[i] = ToSet(thread[i].toolCalls) /\ D[i] = thread[i].toolCallId
  BY <1>3, <1>4, <1>5, Zenon DEF CallsOf, ResultsOf
<1>9. \A i \in 1 .. n : D[i] # 0 <=> thread[i].role = "tool"
  BY <1>2, <1>3, <1>8 DEF Shaped
<1>10. \A i \in 1 .. n : C[i] \subseteq Made
  <2>1. ASSUME NEW i \in 1 .. n PROVE ToSet(thread[i].toolCalls) \subseteq Made
    <3>1. thread[i] \in ThreadMessage
      BY <1>2, <1>3
    <3>2. thread[i].toolCalls \in Seq(Made)
      BY <3>1 DEF ThreadMessage
    <3> QED
      BY <3>2 DEF ToSet
  <2> QED
    BY <1>8, <2>1
<1>11. ASSUME NEW i \in 1 .. n, NEW c \in C[i]
       PROVE  \E j \in 1 .. n :
                /\ j > i /\ \A k \in i + 1 .. j : thread[k].role = "tool"
                /\ {k \in 1 .. n : D[k] = c} = {j}
  <2>1. PICK j \in 1 .. n : D[j] = c
    BY <1>6, <1>11 DEF Held
  <2>2. c # 0
    BY <1>10, <1>11 DEF Made
  <2>3. PICK a \in 1 .. (j - 1) : c \in C[a] /\ \A k \in a + 1 .. j : D[k] # 0
    BY <1>6, <2>1, <2>2 DEF Neat
  <2>4. a = i
    BY <1>6, <1>11, <2>3 DEF Neat
  <2>5. \A k \in i + 1 .. j : thread[k].role = "tool"
    <3>1. \A k \in i + 1 .. j : k \in 1 .. n
      OBVIOUS
    <3> QED
      BY <1>9, <2>3, <2>4, <3>1
  <2>6. \A k \in 1 .. n : D[k] = c => k = j
    BY <1>6, <2>1, <2>2 DEF Neat
  <2>7. j > i
    BY <2>3, <2>4
  <2> QED
    BY <2>1, <2>5, <2>6, <2>7
<1>12. ASSUME NEW j \in 1 .. n, thread[j].role = "tool"
       PROVE  \E i \in 1 .. (j - 1) : thread[j].toolCallId \in ToSet(thread[i].toolCalls)
  <2>1. D[j] # 0
    BY <1>9, <1>12
  <2>2. PICK i \in 1 .. (j - 1) : D[j] \in C[i]
    BY <1>6, <2>1 DEF Neat
  <2>3. i \in 1 .. n
    OBVIOUS
  <2> QED
    BY <1>8, <2>2, <2>3
<1>13. \A i \in 1 .. n : \A c \in ToSet(thread[i].toolCalls) :
         \E j \in 1 .. n :
            /\ j > i /\ \A k \in i + 1 .. j : thread[k].role = "tool"
            /\ {k \in 1 .. n : thread[k].toolCallId = c} = {j}
  <2>1. ASSUME NEW i \in 1 .. n, NEW c \in ToSet(thread[i].toolCalls)
        PROVE  \E j \in 1 .. n :
                  /\ j > i /\ \A k \in i + 1 .. j : thread[k].role = "tool"
                  /\ {k \in 1 .. n : thread[k].toolCallId = c} = {j}
    <3>1. c \in C[i]
      BY <1>8, <2>1, Zenon
    <3>2. {k \in 1 .. n : thread[k].toolCallId = c} = {k \in 1 .. n : D[k] = c}
      BY <1>8
    <3>3. PICK j \in 1 .. n :
                /\ j > i /\ \A k \in i + 1 .. j : thread[k].role = "tool"
                /\ {k \in 1 .. n : D[k] = c} = {j}
      BY <1>11, <3>1
    <3> QED
      BY <3>2, <3>3, Zenon
  <2> QED
    BY <2>1, Zenon
<1>14. ASSUME NEW i \in DOMAIN thread, NEW c \in ToSet(thread[i].toolCalls)
       PROVE  \E j \in DOMAIN thread :
                 /\ j > i /\ \A k \in i + 1 .. j : thread[k].role = "tool"
                 /\ {k \in DOMAIN thread : thread[k].toolCallId = c} = {j}
  <2>1. i \in 1 .. n
    BY <1>7
  <2>2. PICK j \in 1 .. n :
            /\ j > i /\ \A k \in i + 1 .. j : thread[k].role = "tool"
            /\ {k \in 1 .. n : thread[k].toolCallId = c} = {j}
    BY <1>13, <1>14, <2>1, Zenon
  <2>3. {k \in DOMAIN thread : thread[k].toolCallId = c} = {k \in 1 .. n : thread[k].toolCallId = c}
    BY <1>7
  <2>4. j \in DOMAIN thread
    BY <1>7
  <2> QED
    BY <2>2, <2>3, <2>4, Zenon
<1>15. ASSUME NEW j \in DOMAIN thread, thread[j].role = "tool"
       PROVE  \E i \in 1 .. (j - 1) : thread[j].toolCallId \in ToSet(thread[i].toolCalls)
  BY <1>7, <1>12, <1>15
<1> QED
  BY <1>14, <1>15, Zenon

-----------------------------------------------------------------------------
(* The first message.                                                      *)

LEMMA AppendHolds ==
  ASSUME NEW R \in Seq(ThreadMessage), NEW m \in ThreadMessage, NEW W, W = Append(R, m)
  PROVE  W \in Seq(ThreadMessage) /\ ToSet(R) \subseteq ToSet(W) /\ m \in ToSet(W)
<1>1. PICK r \in Nat : r = Len(R)
  OBVIOUS
<1>2. /\ W \in Seq(ThreadMessage) /\ DOMAIN R = 1 .. r /\ DOMAIN W = 1 .. r + 1
      /\ W[r + 1] = m /\ \A i \in 1 .. r : W[i] = R[i]
  BY <1>1, AppendProperties
<1>3. r + 1 \in 1 .. r + 1 /\ \A i \in 1 .. r : i \in 1 .. r + 1
  OBVIOUS
<1> QED
  BY <1>2, <1>3 DEF ToSet

(* A repair takes no message away.                                         *)
LEMMA RepairedHolds ==
  ASSUME NEW x \in Repairing, NEW m \in ThreadMessage, NEW z, z = Repaired(x, m)
  PROVE  z \in Repairing /\ ToSet(x.messages) \subseteq ToSet(z.messages) /\ m \in ToSet(z.messages)
<1>1. PICK V : V = Append(x.messages, m)
  OBVIOUS
<1>2. V \in Seq(ThreadMessage) /\ ToSet(x.messages) \subseteq ToSet(V) /\ m \in ToSet(V)
  <2>1. PICK R : R = x.messages
    OBVIOUS
  <2>2. R \in Seq(ThreadMessage)
    BY <2>1 DEF Repairing
  <2>3. V \in Seq(ThreadMessage) /\ ToSet(R) \subseteq ToSet(V) /\ m \in ToSet(V)
    BY <1>1, <2>1, <2>2, AppendHolds
  <2> QED
    BY <2>1, <2>3
<1>3. PICK y : y = [x EXCEPT !.messages = V]
  OBVIOUS
<1>4. y \in Repairing /\ y.messages = V
  BY <1>2, <1>3 DEF Repairing
<1>5. PICK cs : cs = m.toolCalls
  OBVIOUS
<1>6. cs \in Seq(Made)
  BY <1>5 DEF ThreadMessage
<1>7. PICK n \in Nat : n = Len(cs)
  BY <1>6
<1>8. z = FoldLeft(GivenResult, y, cs)
  BY <1>1, <1>3, <1>5, Zenon DEF Repaired
<1>9. PICK h : AnswerSteps(h, y, cs, n)
  BY <1>4, <1>6, <1>7, AnsweringStepByStep
<1>10. /\ h[0] = y /\ z = h[n]
       /\ \A k \in 1 .. n : h[k] = GivenResult(h[k - 1], cs[k])
       /\ \A k \in 0 .. n : h[k] \in Repairing
  BY <1>8, <1>9, Zenon DEF AnswerSteps
<1> DEFINE T == {k \in Nat : k <= n => ToSet(V) \subseteq ToSet(h[k].messages)}
<1>11. 0 \in T
  BY <1>4, <1>10
<1>12. ASSUME NEW k \in Nat, k \in T PROVE k + 1 \in T
  <2> SUFFICES ASSUME k + 1 <= n PROVE ToSet(V) \subseteq ToSet(h[k + 1].messages)
    OBVIOUS
  <2>1. PICK u : u = h[k]
    OBVIOUS
  <2>2. PICK c : c = cs[k + 1]
    OBVIOUS
  <2>3. PICK w : w = h[k + 1]
    OBVIOUS
  <2>4. k \in 0 .. n /\ k + 1 \in 1 .. n /\ (k + 1) - 1 = k
    OBVIOUS
  <2>5. u \in Repairing /\ c \in Made /\ ToSet(V) \subseteq ToSet(u.messages)
    BY <1>6, <1>7, <1>10, <1>12, <2>1, <2>2, <2>4
  <2>6. w = GivenResult(u, c)
    <3>1. h[k + 1] = GivenResult(h[(k + 1) - 1], cs[k + 1])
      BY <1>10, <2>4
    <3> QED
      BY <2>1, <2>2, <2>3, <2>4, <3>1, Zenon
  <2>7. PICK S : S = u.messages
    OBVIOUS
  <2>8. ToSet(S) \subseteq ToSet(w.messages)
    <3>1. PICK W : W = Append(S, tool(c))
      OBVIOUS
    <3>2. ToSet(S) \subseteq ToSet(W)
      <4>1. S \in Seq(ThreadMessage) /\ tool(c) \in ThreadMessage
        BY <2>5, <2>7, ToolTyped DEF Repairing
      <4>2. PICK a : a = tool(c)
        OBVIOUS
      <4> QED
        BY <3>1, <4>1, <4>2, AppendHolds
    <3>3. w.messages = S \/ w.messages = W
      BY <2>6, <2>7, <3>1 DEF GivenResult
    <3> QED
      BY <3>2, <3>3, Zenon
  <2> QED
    BY <2>3, <2>5, <2>7, <2>8
<1>13. n \in T
  <2> HIDE DEF T
  <2> QED
    BY <1>11, <1>12, SetInduction
<1>14. ToSet(V) \subseteq ToSet(h[n].messages)
  BY <1>13
<1>15. z \in Repairing
  BY <1>10
<1> QED
  BY <1>2, <1>10, <1>14, <1>15

LEMMA RepairHolds ==
  ASSUME NEW M \in Seq(ThreadMessage), NEW W, W = repairUnansweredToolCalls(M)
  PROVE  ToSet(M) \subseteq ToSet(W)
<1>1. PICK n \in Nat : n = Len(M)
  OBVIOUS
<1>2. PICK base : base = [messages |-> <<>>, answered |-> Results(M)]
  OBVIOUS
<1>3. base \in Repairing
  BY <1>2, StartRepairing
<1>4. PICK g : RepairSteps(g, base, M, n)
  BY <1>1, <1>3, RepairingStepByStep
<1>5. /\ FoldLeft(Repaired, base, M) = g[n]
      /\ \A k \in 1 .. n : g[k] = Repaired(g[k - 1], M[k])
      /\ \A k \in 0 .. n : g[k] \in Repairing
  BY <1>4, Zenon DEF RepairSteps
<1>6. W = g[n].messages
  BY <1>2, <1>5, Zenon DEF repairUnansweredToolCalls
<1>7. DOMAIN M = 1 .. n /\ \A i \in 1 .. n : M[i] \in ThreadMessage
  BY <1>1
<1> DEFINE T == {k \in Nat : k <= n => \A i \in 1 .. k : M[i] \in ToSet(g[k].messages)}
<1>8. 0 \in T
  OBVIOUS
<1>9. ASSUME NEW k \in Nat, k \in T PROVE k + 1 \in T
  <2> SUFFICES ASSUME k + 1 <= n, NEW i \in 1 .. k + 1 PROVE M[i] \in ToSet(g[k + 1].messages)
    OBVIOUS
  <2>1. PICK x : x = g[k]
    OBVIOUS
  <2>2. PICK m : m = M[k + 1]
    OBVIOUS
  <2>3. PICK z : z = g[k + 1]
    OBVIOUS
  <2>4. k \in 0 .. n /\ k + 1 \in 1 .. n /\ (k + 1) - 1 = k
    OBVIOUS
  <2>5. x \in Repairing /\ m \in ThreadMessage
    BY <1>5, <1>7, <2>1, <2>2, <2>4
  <2>6. z = Repaired(x, m)
    <3>1. g[k + 1] = Repaired(g[(k + 1) - 1], M[k + 1])
      BY <1>5, <2>4
    <3> QED
      BY <2>1, <2>2, <2>3, <2>4, <3>1, Zenon
  <2>7. ToSet(x.messages) \subseteq ToSet(z.messages) /\ m \in ToSet(z.messages)
    BY <2>5, <2>6, RepairedHolds
  <2>8. CASE i = k + 1
    BY <2>2, <2>3, <2>7, <2>8, Zenon
  <2>9. CASE i # k + 1
    <3>1. i \in 1 .. k
      BY <2>9
    <3>2. M[i] \in ToSet(x.messages)
      BY <1>9, <2>1, <3>1
    <3> QED
      BY <2>3, <2>7, <3>2
  <2> QED
    BY <2>8, <2>9
<1>10. n \in T
  <2> HIDE DEF T
  <2> QED
    BY <1>8, <1>9, SetInduction
<1>11. \A i \in 1 .. n : M[i] \in ToSet(W)
  BY <1>6, <1>10
<1> QED
  BY <1>7, <1>11 DEF ToSet

OnlyFirst ==
    /\ turnOf[First].at # "none"
    /\ \A t \in Said \ {First} : turnOf[t].at \in {"unsaid", "ready"}

HoldsFirst(messages) == messages = <<>> \/ user(First) \in ToSet(messages)

\* Until something else is said, whatever holds messages holds the first.
FirstInv ==
    OnlyFirst =>
        /\ HoldsFirst(agentMessages) /\ HoldsFirst(thread) /\ HoldsFirst(stored)
        /\ turnOf[First].at \in Running => user(First) \in ToSet(turnOf[First].works)

LEMMA FirstSaid == First \in Said /\ user(First) \in ThreadMessage
<1>1. First \in Said
  BY ThreadAssumption DEF First, Said
<1> QED
  BY <1>1, UserTyped

LEMMA NothingHolds == ASSUME NEW R, R = <<>> PROVE HoldsFirst(R)
BY DEF HoldsFirst

LEMMA LongerHolds ==
  ASSUME NEW R \in Seq(ThreadMessage), user(First) \in ToSet(R), NEW m \in ThreadMessage,
         NEW W, W = Append(R, m)
  PROVE  user(First) \in ToSet(W) /\ HoldsFirst(W)
<1>1. ToSet(R) \subseteq ToSet(W)
  BY AppendHolds
<1> QED
  BY <1>1 DEF HoldsFirst

LEMMA InitFirst == ThreadInit => FirstInv
<1> SUFFICES ASSUME ThreadInit, OnlyFirst
             PROVE  /\ HoldsFirst(agentMessages) /\ HoldsFirst(thread) /\ HoldsFirst(stored)
                    /\ turnOf[First].at \notin Running
  BY DEF FirstInv
<1>1. PICK first \in {"none", "held"} :
        /\ turnOf = [t \in Said |->
              [at |-> IF t = First THEN first ELSE "unsaid", works |-> <<>>, owes |-> <<>>]]
        /\ thread \in IF first = "held" THEN {<<>>} ELSE Histories
  BY DEF ThreadInit
<1>2. turnOf[First].at = first
  BY <1>1, FirstSaid
<1>3. first = "held"
  BY <1>2 DEF OnlyFirst
<1>4. thread = <<>> /\ agentMessages = <<>> /\ stored = <<>>
  BY <1>1, <1>3 DEF ThreadInit
<1> QED
  BY <1>2, <1>3, <1>4 DEF HoldsFirst, Running

(* What moves the messages only among those that hold them.                *)
LEMMA FirstMoves ==
  ASSUME FirstInv, OnlyFirst' => OnlyFirst,
         agentMessages' \in {<<>>, agentMessages, thread, stored},
         thread' \in {<<>>, thread}, stored' \in {stored, thread},
         turnOf'[First].at \in Running => turnOf[First].at \in Running /\ turnOf'[First].works = turnOf[First].works
  PROVE  FirstInv'
<1> SUFFICES ASSUME OnlyFirst'
             PROVE  /\ HoldsFirst(agentMessages') /\ HoldsFirst(thread') /\ HoldsFirst(stored')
                    /\ turnOf'[First].at \in Running => user(First) \in ToSet(turnOf'[First].works)
  BY DEF FirstInv
<1>1. PICK none : none = <<>>
  OBVIOUS
<1>2. HoldsFirst(none)
  BY <1>1, NothingHolds
<1>3. /\ HoldsFirst(agentMessages) /\ HoldsFirst(thread) /\ HoldsFirst(stored)
      /\ turnOf[First].at \in Running => user(First) \in ToSet(turnOf[First].works)
  BY DEF FirstInv
<1>4. HoldsFirst(agentMessages')
  BY <1>1, <1>2, <1>3, Zenon
<1>5. HoldsFirst(thread') /\ HoldsFirst(stored')
  BY <1>1, <1>2, <1>3, Zenon
<1> QED
  BY <1>3, <1>4, <1>5, Zenon

(* Another turn that has begun leaves nothing to say of the first.         *)
LEMMA OtherBegun ==
  ASSUME NEW t \in Said \ {First}, turnOf'[t].at \in Started
  PROVE  FirstInv'
BY DEF FirstInv, OnlyFirst, Started

LEMMA DeliversFirst ==
  ASSUME ThreadInv, FirstInv, NEW t \in Said, turnOf[t].at # "none", Delivers(t)
  PROVE  FirstInv'
<1>1. PICK m : m = user(t)
  OBVIOUS
<1>2. m \in ThreadMessage
  BY <1>1, UserTyped
<1>3. PICK M : M = Append(agentMessages, m)
  OBVIOUS
<1>4. agentMessages \in Seq(ThreadMessage) /\ M \in Seq(ThreadMessage)
  BY <1>2, <1>3 DEF ThreadInv, ThreadTypeOK
<1>5. PICK W : W = repairUnansweredToolCalls(M)
  OBVIOUS
<1>6. m \in ToSet(W)
  <2>1. m \in ToSet(M)
    BY <1>2, <1>3, <1>4, AppendHolds
  <2>2. ToSet(M) \subseteq ToSet(W)
    BY <1>4, <1>5, RepairHolds
  <2> QED
    BY <2>1, <2>2
<1>7. /\ agentMessages' = W /\ thread' = W /\ stored' = stored
      /\ turnOf' = [turnOf EXCEPT ![t].at = "run", ![t].works = W]
  BY <1>1, <1>3, <1>5, Zenon DEF Delivers, JoinVars
<1>8. /\ turnOf \in [Said -> TurnState] /\ turnOf'[t].at = "run" /\ turnOf'[t].works = W
      /\ \A u \in Said : u # t => turnOf'[u] = turnOf[u]
  BY <1>7 DEF ThreadInv, ThreadTypeOK, TurnState
<1>9. CASE t # First
  BY <1>8, <1>9, OtherBegun DEF Started
<1>10. CASE t = First
  <2> SUFFICES ASSUME OnlyFirst'
               PROVE  /\ HoldsFirst(agentMessages') /\ HoldsFirst(thread') /\ HoldsFirst(stored')
                      /\ turnOf'[First].at \in Running => user(First) \in ToSet(turnOf'[First].works)
    BY DEF FirstInv
  <2>1. user(First) \in ToSet(W)
    BY <1>1, <1>6, <1>10, Zenon
  <2>2. HoldsFirst(W)
    BY <2>1 DEF HoldsFirst
  <2>3. OnlyFirst
    BY <1>8, <1>10 DEF OnlyFirst
  <2>4. HoldsFirst(stored)
    BY <2>3 DEF FirstInv
  <2>5. HoldsFirst(agentMessages') /\ HoldsFirst(thread') /\ HoldsFirst(stored')
    BY <1>7, <2>2, <2>4, Zenon
  <2> QED
    BY <1>8, <1>10, <2>1, <2>5, Zenon
<1> QED
  BY <1>9, <1>10

(* A step of a run.                                                        *)
LEMMA RunFirst ==
  ASSUME ThreadInv, FirstInv, NEW t \in Said, turnOf[t].at \in Running, NEW next \in TurnState,
         turnOf' = [turnOf EXCEPT ![t] = next], next.at \in Started, stored' = stored,
         t = First /\ OnlyFirst =>
            /\ HoldsFirst(agentMessages') /\ HoldsFirst(thread')
            /\ next.at \in Running => user(First) \in ToSet(next.works)
  PROVE  FirstInv'
<1>1. /\ turnOf \in [Said -> TurnState] /\ turnOf'[t] = next
      /\ \A u \in Said : u # t => turnOf'[u] = turnOf[u]
  BY DEF ThreadInv, ThreadTypeOK, TurnState
<1>2. CASE t # First
  BY <1>1, <1>2, OtherBegun
<1>3. CASE t = First
  <2> SUFFICES ASSUME OnlyFirst'
               PROVE  /\ HoldsFirst(agentMessages') /\ HoldsFirst(thread') /\ HoldsFirst(stored')
                      /\ turnOf'[First].at \in Running => user(First) \in ToSet(turnOf'[First].works)
    BY DEF FirstInv
  <2>1. OnlyFirst
    BY <1>1, <1>3 DEF OnlyFirst, Running
  <2>2. HoldsFirst(stored)
    BY <2>1 DEF FirstInv
  <2>3. turnOf'[First] = next
    BY <1>1, <1>3
  <2> QED
    BY <1>3, <2>1, <2>2, <2>3, Zenon
<1> QED
  BY <1>2, <1>3

(* What the first run works on, and holds.                                 *)
LEMMA FirstWorks ==
  ASSUME ThreadInv, FirstInv, NEW t \in Said, turnOf[t].at \in Running
  PROVE  /\ turnOf[t] \in TurnState /\ turnOf[t].works \in Seq(ThreadMessage) /\ turnOf[t].owes \in Seq(Made)
         /\ t = First /\ OnlyFirst =>
              /\ HoldsFirst(agentMessages) /\ HoldsFirst(thread)
              /\ user(First) \in ToSet(turnOf[t].works)
<1>1. turnOf[t] \in TurnState
  BY DEF ThreadInv, ThreadTypeOK, TurnState
<1>2. turnOf[t].works \in Seq(ThreadMessage) /\ turnOf[t].owes \in Seq(Made)
  BY <1>1 DEF TurnState
<1>3. ASSUME t = First, OnlyFirst
      PROVE  /\ HoldsFirst(agentMessages) /\ HoldsFirst(thread)
             /\ user(First) \in ToSet(turnOf[t].works)
  BY <1>3 DEF FirstInv
<1> QED
  BY <1>1, <1>2, <1>3

(* A message is added to what the run works on.                            *)
LEMMA AddsFirst ==
  ASSUME ThreadInv, FirstInv, NEW t \in Said, turnOf[t].at \in Running,
         NEW m \in ThreadMessage, NEW W, W = Append(turnOf[t].works, m), agentMessages' = W,
         NEW next \in TurnState, next.at \in Started, next.at \in Running => next.works = W,
         turnOf' = [turnOf EXCEPT ![t] = next], UNCHANGED <<thread, stored>>
  PROVE  FirstInv'
<1>1. PICK R : R = turnOf[t].works
  OBVIOUS
<1>2. R \in Seq(ThreadMessage)
  BY <1>1, FirstWorks
<1>3. ASSUME t = First, OnlyFirst
      PROVE  /\ HoldsFirst(agentMessages') /\ HoldsFirst(thread')
             /\ next.at \in Running => user(First) \in ToSet(next.works)
  <2>1. HoldsFirst(thread) /\ user(First) \in ToSet(R)
    <3>1. HoldsFirst(thread) /\ user(First) \in ToSet(turnOf[t].works)
      BY <1>3, FirstWorks
    <3> QED
      BY <1>1, <3>1, Zenon
  <2>2. user(First) \in ToSet(W) /\ HoldsFirst(W)
    BY <1>1, <1>2, <2>1, LongerHolds
  <2>3. thread' = thread
    OBVIOUS
  <2> QED
    BY <2>1, <2>2, <2>3, Zenon
<1>4. stored' = stored
  OBVIOUS
<1> QED
  BY <1>3, <1>4, RunFirst

LEMMA RunStepsFirst ==
  ASSUME ThreadInv, FirstInv, NEW t \in Said,
         Reply(t) \/ MakesCalls(t) \/ CallReturns(t) \/ NextRun(t) \/ EndsEarly(t)
  PROVE  FirstInv'
<1>1. turnOf[t].at \in Running /\ (CallReturns(t) \/ NextRun(t) => turnOf[t].at = "tools")
  BY DEF Reply, MakesCalls, CallReturns, NextRun, EndsEarly, Goes, Running, Sending
<1>2. turnOf[t] \in TurnState /\ turnOf[t].works \in Seq(ThreadMessage) /\ turnOf[t].owes \in Seq(Made)
  BY <1>1, FirstWorks
<1>3. PICK R : R = turnOf[t].works
  OBVIOUS
<1>4. CASE Reply(t)
  <2>1. PICK calls : calls = <<>>
    OBVIOUS
  <2>2. PICK m : m = assistant(calls)
    OBVIOUS
  <2>3. m \in ThreadMessage
    <3>1. calls \in Seq(Made) /\ \A p, q \in DOMAIN calls : calls[p] = calls[q] => p = q
      BY <2>1
    <3> QED
      BY <2>2, <3>1, AssistantTyped
  <2>4. PICK W : W = Append(turnOf[t].works, m)
    OBVIOUS
  <2>5. agentMessages' = W /\ turnOf' = [turnOf EXCEPT ![t] = TurnOver] /\ UNCHANGED <<thread, stored>>
    BY <1>4, <2>1, <2>2, <2>4 DEF Reply, JoinVars
  <2>6. PICK next : next = TurnOver
    OBVIOUS
  <2>7. next \in TurnState /\ next.at \in Started /\ next.at \notin Running
    BY <2>6, OverTyped DEF Started, Running
  <2> QED
    BY <1>1, <2>3, <2>4, <2>5, <2>6, <2>7, AddsFirst
<1>5. ASSUME NEW m \in ThreadMessage, NEW owes \in Seq(Made), NEW next, NEW at \in Running,
             next = [turnOf[t] EXCEPT !.at = at, !.owes = owes], Adds(t, m, next)
      PROVE  FirstInv'
  <2>1. PICK W : W = Append(turnOf[t].works, m)
    OBVIOUS
  <2>2. W \in Seq(ThreadMessage)
    BY <1>2, <1>5, <2>1
  <2>3. PICK last : last = [next EXCEPT !.works = W]
    OBVIOUS
  <2>4. last \in TurnState /\ last.at = at /\ last.works = W
    BY <1>2, <1>5, <2>2, <2>3 DEF TurnState, Running
  <2>5. agentMessages' = W /\ turnOf' = [turnOf EXCEPT ![t] = last] /\ UNCHANGED <<thread, stored>>
    BY <1>5, <2>1, <2>3 DEF Adds, JoinVars
  <2>6. last.at \in Started
    BY <2>4 DEF Running, Started
  <2> QED
    BY <1>1, <1>5, <2>1, <2>4, <2>5, <2>6, AddsFirst
<1>6. CASE MakesCalls(t)
  <2>1. PICK n \in {1, 2} :
           /\ made + n <= MaxMade
           /\ Adds(t, assistant([i \in 1 .. n |-> made + i]),
                   [turnOf[t] EXCEPT !.at = "tools", !.owes = [i \in 1 .. n |-> made + i]])
    BY <1>6 DEF MakesCalls
  <2>2. PICK calls : calls = [i \in 1 .. n |-> made + i]
    OBVIOUS
  <2>3. made \in Nat
    BY ThreadAssumption DEF ThreadInv, ThreadTypeOK
  <2>4. calls \in Seq(Made) /\ \A p, q \in DOMAIN calls : calls[p] = calls[q] => p = q
    <3>1. \A i \in 1 .. n : made + i \in Made
      BY <2>1, <2>3, ThreadAssumption DEF Made
    <3>2. calls \in [1 .. n -> Made] /\ n \in Nat
      BY <2>2, <3>1
    <3>3. \A p, q \in 1 .. n : made + p = made + q => p = q
      BY <2>3
    <3> QED
      BY <2>2, <3>2, <3>3
  <2>5. PICK m : m = assistant(calls)
    OBVIOUS
  <2>6. m \in ThreadMessage
    BY <2>4, <2>5, AssistantTyped
  <2>7. PICK next : next = [turnOf[t] EXCEPT !.at = "tools", !.owes = calls]
    OBVIOUS
  <2>8. Adds(t, m, next)
    BY <2>1, <2>2, <2>5, <2>7, Zenon
  <2> QED
    BY <1>5, <2>4, <2>6, <2>7, <2>8 DEF Running
<1>7. CASE CallReturns(t)
  <2>1. PICK owes : owes = turnOf[t].owes
    OBVIOUS
  <2>2. owes \in Seq(Made) /\ owes # <<>>
    BY <1>2, <1>7, <2>1 DEF CallReturns
  <2>3. Head(owes) \in Made /\ Tail(owes) \in Seq(Made)
    BY <2>2
  <2>4. PICK m : m = tool(Head(owes))
    OBVIOUS
  <2>5. PICK c \in Made : c = Head(owes)
    BY <2>3
  <2>6. m \in ThreadMessage
    BY <2>4, <2>5, ToolTyped
  <2>7. PICK rest : rest = Tail(owes)
    OBVIOUS
  <2>8. PICK next : next = [turnOf[t] EXCEPT !.at = "tools", !.owes = rest]
    OBVIOUS
  <2>9. [turnOf[t] EXCEPT !.owes = rest] = next
    BY <1>1, <1>2, <1>7, <2>8 DEF TurnState
  <2>10. Adds(t, m, [turnOf[t] EXCEPT !.owes = rest])
    BY <1>7, <2>1, <2>4, <2>7 DEF CallReturns
  <2>11. Adds(t, m, next)
    BY <2>9, <2>10, Zenon
  <2> QED
    BY <1>5, <2>3, <2>6, <2>7, <2>8, <2>11 DEF Running
<1>8. CASE NextRun(t)
  <2>1. PICK next : next = [turnOf[t] EXCEPT !.at = "run"]
    OBVIOUS
  <2>2. /\ next \in TurnState /\ next.at = "run" /\ next.works = R /\ turnOf' = [turnOf EXCEPT ![t] = next]
        /\ next.at \in Started
    BY <1>2, <1>3, <1>8, <2>1 DEF TurnState, NextRun, Started
  <2>3. thread' = R /\ agentMessages' = agentMessages /\ stored' = stored
    BY <1>3, <1>8 DEF NextRun, JoinVars
  <2>4. ASSUME t = First, OnlyFirst
        PROVE  /\ HoldsFirst(agentMessages') /\ HoldsFirst(thread')
               /\ next.at \in Running => user(First) \in ToSet(next.works)
    <3>1. HoldsFirst(agentMessages) /\ user(First) \in ToSet(turnOf[t].works)
      BY <1>1, <2>4, FirstWorks
    <3>2. user(First) \in ToSet(R)
      BY <1>3, <3>1, Zenon
    <3>3. HoldsFirst(R)
      BY <3>2 DEF HoldsFirst
    <3> QED
      BY <2>2, <2>3, <3>1, <3>2, <3>3, Zenon
  <2> QED
    BY <1>1, <2>2, <2>3, <2>4, RunFirst
<1>9. CASE EndsEarly(t)
  <2>1. turnOf' = [turnOf EXCEPT ![t] = TurnOver] /\ UNCHANGED <<agentMessages, thread, stored>>
    BY <1>9 DEF EndsEarly, JoinVars
  <2>2. PICK next : next = TurnOver
    OBVIOUS
  <2>3. next \in TurnState /\ next.at \in Started /\ next.at \notin Running
    BY <2>2, OverTyped DEF Started, Running
  <2>4. ASSUME t = First, OnlyFirst
        PROVE  HoldsFirst(agentMessages') /\ HoldsFirst(thread')
    <3>1. HoldsFirst(agentMessages) /\ HoldsFirst(thread)
      BY <1>1, <2>4, FirstWorks
    <3> QED
      BY <2>1, <3>1
  <2> QED
    BY <1>1, <2>1, <2>2, <2>3, <2>4, RunFirst
<1> QED
  BY <1>4, <1>6, <1>7, <1>8, <1>9

LEMMA NextFirst == ThreadInv /\ FirstInv /\ [ThreadNext]_threadVars => FirstInv'
<1> SUFFICES ASSUME ThreadInv, FirstInv, [ThreadNext]_threadVars PROVE FirstInv'
  OBVIOUS
<1>1. ASSUME BecomesReady \/ Connect \/ Rejoin \/ JoinEnds \/ ReadHistory \/ ReadFails \/ Restore
             \/ Backstop \/ UNCHANGED threadVars
      PROVE  FirstInv'
  <2>1. /\ turnOf' = turnOf /\ thread' = thread /\ stored' \in {stored, thread}
        /\ agentMessages' \in {<<>>, agentMessages, thread, stored}
    BY <1>1 DEF BecomesReady, Connect, Rejoin, JoinEnds, ReadHistory, ReadFails, Restore, Backstop,
                threadVars, TurnVars
  <2>2. OnlyFirst' => OnlyFirst
    BY <2>1 DEF OnlyFirst
  <2> QED
    BY <2>1, <2>2, FirstMoves
<1>2. ASSUME NEW t \in Said, WaitsForRuntime(t),
             turnOf[t].at = "unsaid" \/ (t = First /\ turnOf[t].at = "held")
      PROVE  FirstInv'
  <2>1. /\ turnOf \in [Said -> TurnState]
        /\ turnOf' = [turnOf EXCEPT ![t].at = "ready"] /\ UNCHANGED <<agentMessages, thread, stored>>
    BY <1>2 DEF WaitsForRuntime, JoinVars, ThreadInv, ThreadTypeOK, TurnState
  <2>2. turnOf'[t].at = "ready" /\ \A u \in Said : u # t => turnOf'[u] = turnOf[u]
    BY <2>1 DEF TurnState
  <2>3. turnOf'[First].at \in Running => turnOf'[First] = turnOf[First]
    BY <2>2, FirstSaid DEF Running
  <2>4. OnlyFirst' => OnlyFirst
    BY <1>2, <2>2, FirstSaid DEF OnlyFirst
  <2> QED
    BY <2>1, <2>3, <2>4, FirstMoves
<1>3. ASSUME NEW t \in Said, say(t), turnOf[t].at = "unsaid" \/ (t = First /\ turnOf[t].at = "held")
      PROVE  FirstInv'
  BY <1>2, <1>3, DeliversFirst DEF say
<1>4. CASE SayFirst
  BY <1>3, <1>4, FirstSaid DEF SayFirst
<1>5. ASSUME NEW t \in Said, SayNext(t) \/ DeliverLate(t) PROVE FirstInv'
  BY <1>3, <1>5, DeliversFirst DEF SayNext, Goes, DeliverLate
<1> QED
  BY <1>1, <1>4, <1>5, RunStepsFirst DEF ThreadNext

LEMMA FirstIsShown == ThreadInv /\ FirstInv => FirstMessageIsShown
<1> SUFFICES ASSUME ThreadInv, FirstInv, turnOf[First].at # "none",
                    \A t \in Said \ {First} : turnOf[t].at \in {"unsaid", "ready"}
             PROVE  user(First) \in ToSet(transcriptMessages)
  BY DEF FirstMessageIsShown
<1>1. HoldsFirst(agentMessages)
  BY DEF FirstInv, OnlyFirst
<1>2. CASE agentMessages # <<>>
  <2>1. transcriptMessages = agentMessages
    BY <1>2 DEF transcriptMessages
  <2>2. user(First) \in ToSet(agentMessages)
    BY <1>1, <1>2 DEF HoldsFirst
  <2> QED
    BY <2>1, <2>2, Zenon
<1>3. CASE agentMessages = <<>>
  <2>1. PICK m : m = user(First)
    OBVIOUS
  <2>2. PICK seed : seed = <<m>>
    OBVIOUS
  <2>3. m \in ToSet(seed)
    <3>1. DOMAIN seed = {1} /\ seed[1] = m
      BY <2>2
    <3> QED
      BY <3>1 DEF ToSet
  <2>4. transcriptMessages = seed
    BY <1>3, <2>1, <2>2 DEF transcriptMessages
  <2> QED
    BY <2>1, <2>3, <2>4, Zenon
<1> QED
  BY <1>2, <1>3

-----------------------------------------------------------------------------
(* The two together.                                                       *)

\* Of the asking, and of the messages of the channel.
SurfaceInv == IInv /\ ThreadInv /\ FirstInv

LEMMA InitSurface == MCInit => SurfaceInv
BY InitIInv, InitThread, InitFirst DEF MCInit, SurfaceInv

LEMMA NextSurface == SurfaceInv /\ [MCNext]_surfaceVars => SurfaceInv'
<1> SUFFICES ASSUME SurfaceInv, [MCNext]_surfaceVars PROVE SurfaceInv'
  OBVIOUS
<1>1. [AskingNext]_askingVars /\ [ThreadNext]_threadVars
  BY DEF MCNext, surfaceVars
<1> QED
  BY <1>1, NextIInv, NextThread, NextFirst DEF SurfaceInv

(* What is asked of the wheel, what each conversation holds and what a     *)
(* run may be given stay as the invariant says, from any start and through *)
(* every step (waitForPerson, deliver, repairUnansweredToolCalls).         *)
THEOREM InductiveInvariant == MCSpec => []SurfaceInv
BY InitSurface, NextSurface, PTL DEF MCSpec

(* The variables always have their types.                                  *)
THEOREM SurfaceTypeCorrect == MCSpec => []SurfaceTypeOK
<1>1. SurfaceInv => SurfaceTypeOK
  BY DEF SurfaceInv, IInv, ThreadInv, SurfaceTypeOK
<1> QED
  BY InductiveInvariant, <1>1, PTL

(* A Bot that is told its person has answered had asked, and what it asked *)
(* for was closed after that: however many Bots' calls ask of one wheel,   *)
(* however old the state is that one read, whoever takes and hands back    *)
(* (waitForPerson of computer-tools.tsx).                                  *)
THEOREM ToldAfterAnAnswer == MCSpec => []ToldOnlyAfterAnAnswer
<1>1. SurfaceInv => ToldOnlyAfterAnAnswer
  BY DEF SurfaceInv, IInv
<1> QED
  BY InductiveInvariant, <1>1, PTL

(* In what a run is given every tool call has one result, after the call   *)
(* and before anything else the person says, and every result has its      *)
(* call: through any number of messages and calls, wherever the turns      *)
(* before were ended and whatever was restored, as long as no two turns    *)
(* overlapped (deliver of channel-chat.tsx, repairUnansweredToolCalls).    *)
THEOREM CallsAreAnswered == MCSpec => []CallsAnsweredOnce
<1>1. SurfaceInv => CallsAnsweredOnce
  BY KeptAnswers DEF SurfaceInv
<1> QED
  BY InductiveInvariant, <1>1, PTL

(* The message that a channel was created by stays on the screen until     *)
(* something else is said, whatever the join empties or restores: the half *)
(* of FirstMessageIsKept that is a matter of states (transcriptMessages).  *)
THEOREM FirstStaysShown == MCSpec => []FirstMessageIsShown
<1>1. SurfaceInv => FirstMessageIsShown
  BY FirstIsShown DEF SurfaceInv
<1> QED
  BY InductiveInvariant, <1>1, PTL
=============================================================================
