-------------------------------- MODULE Asking --------------------------------
(***************************************************************************)
(* A Bot that asks a person: computer_request_help and                     *)
(* computer_request_secret of app/src/lib/copilot/computer-tools.tsx, each *)
(* holding its tool call open while it polls the wheel; and the person's   *)
(* ComputerView, which polls the same wheel, shows the prompts, and takes, *)
(* hands back or sends the secret.  The wheel is Control's.  Requests      *)
(* cross: each reads the wheel when the computer answers and is heard of   *)
(* some time later, or fails.  Other people's take and release, and stop,  *)
(* are Others.  The browser that fills the field is external.              *)
(***************************************************************************)
EXTENDS Control

CONSTANTS
    Waiters,   \* tool calls that ask, each made once
    MaxSince   \* bound: changes of driver

ASSUME AskingAssumption == MaxSince \in Nat /\ Blank \notin Refs

VARIABLES
    wheel,     \* the computer's control
    asking,    \* every tool call: what it asks, where it is, and what it last read
    screen,    \* what ComputerView shows, or NoView
    poll,      \* its poll: "due", or "refused" and due again, "read" with a value, or "dead"
    hand,      \* what its person does: "idle", a secret "sent", "typing" at a field or
               \* "over", or an answer with the wheel's state is "due"
    closed,    \* history: calls whose request was closed after it was made
    entered    \* history: calls whose field was filled after they asked

askingVars == <<wheel, asking, screen, poll, hand, closed, entered>>

NoView == [createControl EXCEPT !.holder = "nobody"]
View == ControlState \cup {NoView}
NoCall == [kind |-> "none", ref |-> NoSecret, at |-> "idle", saw |-> NoView]

Free == [at |-> "idle", ref |-> NoSecret, value |-> NoView]

AskingInit ==
    /\ wheel = createControl
    /\ asking = [w \in Waiters |-> NoCall]
    /\ screen = NoView
    /\ poll = [at |-> "due", value |-> NoView]
    /\ hand = Free
    /\ closed = {} /\ entered = {}

Standing(w, kind) == asking[w].kind = kind /\ asking[w].at \in {"landed", "waiting", "read"}

\* The wheel moves, and closes what it closes.
Turns(next) ==
    /\ wheel' = next
    /\ closed' = closed \cup {w \in Waiters :
          \/ Standing(w, "help") /\ next.since # wheel.since /\ next.holder = "bot"
          \/ Standing(w, "secret") /\ next.secret = NoSecret}

-----------------------------------------------------------------------------
(* The tool calls.                                                         *)

PersonVars == <<screen, poll, hand>>
Now(w, at) == asking' = [asking EXCEPT ![w].at = at, ![w].saw = NoView]

Ask(w) ==
    /\ asking[w].at = "idle"
    /\ \/ asking' = [asking EXCEPT ![w] = [NoCall EXCEPT !.kind = "help", !.at = "asked"]]
       \/ \E ref \in Refs :
            asking' = [asking EXCEPT ![w] = [NoCall EXCEPT !.kind = "secret", !.ref = ref, !.at = "asked"]]
    /\ UNCHANGED <<wheel, closed, entered, PersonVars>>

\* The computer hears of it.
AskLands(w) ==
    /\ asking[w].at = "asked"
    /\ wheel' = IF asking[w].kind = "help" THEN requestHelp(wheel)
                ELSE requestSecret(wheel, asking[w].ref)
    /\ Now(w, "landed")
    /\ UNCHANGED <<closed, entered, PersonVars>>

\* Told another story: a prompt that landed stands.
Unanswered(w) ==
    /\ asking' = [asking EXCEPT ![w] = [NoCall EXCEPT !.at = "unanswered"]]
    /\ UNCHANGED <<wheel, closed, entered, PersonVars>>

\* Refused, stopped, or not recorded.
AskFails(w) == asking[w].at \in {"asked", "landed"} /\ Unanswered(w)

AskAnswered(w) ==
    /\ asking[w].at = "landed"
    /\ Now(w, "waiting")
    /\ UNCHANGED <<wheel, closed, entered, PersonVars>>

\* waitForPerson: readControl, as the computer answers it.
ReadControl(w) ==
    /\ asking[w].at = "waiting"
    /\ asking' = [asking EXCEPT ![w].at = "read", ![w].saw = wheel]
    /\ UNCHANGED <<wheel, closed, entered, PersonVars>>

\* Mutant: the wheel is the Bot's, and it still asks.
HelpIsOverEarly(state) == state.holder = "bot"
HelpIsOver(state) == state.holder = "bot" /\ ~state.requested
SecretIsOver(state) == state.secret = NoSecret
Done(w) == IF asking[w].kind = "help" THEN HelpIsOver(asking[w].saw) ELSE SecretIsOver(asking[w].saw)

Hears(w) ==
    /\ asking[w].at = "read"
    /\ Now(w, IF Done(w) THEN "answered" ELSE "waiting")
    /\ UNCHANGED <<wheel, closed, entered, PersonVars>>

ReadLost(w) ==
    /\ asking[w].at = "read"
    /\ Now(w, "waiting")
    /\ UNCHANGED <<wheel, closed, entered, PersonVars>>

\* The ten minutes are over, or the person stopped the run.
GivesUp(w) == asking[w].at = "waiting" /\ Unanswered(w)

-----------------------------------------------------------------------------
(* The person's view.                                                      *)

BotVars == <<asking, closed, entered>>

PollReads ==
    /\ poll.at \in {"due", "refused"}
    /\ poll' = [at |-> "read", value |-> wheel]
    /\ UNCHANGED <<wheel, screen, hand, BotVars>>

PollArrives ==
    /\ poll.at = "read"
    /\ screen' = poll.value
    /\ poll' = [at |-> "due", value |-> NoView]
    /\ UNCHANGED <<wheel, hand, BotVars>>

\* Mutant: the next poll is set only after an answer.
AfterRefusalNone == "stopped"
\* tick: without a state there is nothing to show, and another tick follows.
AfterRefusal == "refused"

PollRefused ==
    /\ poll.at = "read"
    /\ poll' = [at |-> AfterRefusal, value |-> NoView]
    /\ UNCHANGED <<wheel, screen, hand, BotVars>>

\* The request is not answered at all: readControl throws out of tick, which sets no other.
PollThrows ==
    /\ poll.at = "read"
    /\ poll' = [at |-> "dead", value |-> NoView]
    /\ UNCHANGED <<wheel, screen, hand, BotVars>>

AnswerIs(value) == hand' = [Free EXCEPT !.at = "due", !.value = value]

\* Take control: offered while the view shows that help is asked for.
TakeControl ==
    /\ hand = Free /\ screen.requested /\ screen.holder = "bot"
    /\ wheel.since < MaxSince
    /\ Turns(take(wheel)) /\ AnswerIs(take(wheel))
    /\ UNCHANGED <<asking, entered, screen, poll>>

\* Hand back: offered while the view shows a person driving.
HandBack ==
    /\ hand = Free /\ screen.holder = "human"
    /\ wheel.since < MaxSince
    /\ Turns(release(wheel)) /\ AnswerIs(release(wheel))
    /\ UNCHANGED <<asking, entered, screen, poll>>

\* The form, shown while a secret is wanted and locked while one is being sent.
SendSecret ==
    /\ hand = Free /\ screen.secret # NoSecret
    /\ hand' = [Free EXCEPT !.at = "sent"]
    /\ UNCHANGED <<wheel, screen, poll, BotVars>>

\* /human/secret: refused when nothing is asked for, else the field of now is filled.
SecretArrives ==
    /\ hand.at = "sent"
    /\ hand' = [Free EXCEPT !.at = IF wheel.secret = NoSecret THEN "over" ELSE "typing", !.ref = wheel.secret]
    /\ UNCHANGED <<wheel, screen, poll, BotVars>>

FillLands ==
    /\ hand.at = "typing"
    /\ Turns(secretSupplied(wheel))
    /\ entered' = entered \cup {w \in Waiters : Standing(w, "secret") /\ asking[w].ref = hand.ref}
    /\ hand' = [Free EXCEPT !.at = "over"]
    /\ UNCHANGED <<asking, screen, poll>>

\* The field is gone: the request is closed too.
FillFails ==
    /\ hand.at = "typing"
    /\ Turns(secretSupplied(wheel))
    /\ hand' = [Free EXCEPT !.at = "over"]
    /\ UNCHANGED <<asking, entered, screen, poll>>

\* The form hears, and reads the wheel.
FormReads ==
    /\ hand.at = "over"
    /\ AnswerIs(wheel)
    /\ UNCHANGED <<wheel, screen, poll, BotVars>>

\* The answer arrives, a poll's of before or after notwithstanding; or it is an error's.
Answered ==
    /\ hand.at = "due"
    /\ hand' = Free
    /\ screen' = hand.value \/ UNCHANGED screen
    /\ UNCHANGED <<wheel, poll, BotVars>>

\* Another person drives or hands back, or the computer is stopped.
Others ==
    /\ wheel.since < MaxSince
    /\ Turns(take(wheel)) \/ Turns(release(wheel))
    /\ UNCHANGED <<asking, entered, PersonVars>>

-----------------------------------------------------------------------------

Waits(w) == AskLands(w) \/ AskAnswered(w) \/ ReadControl(w) \/ Hears(w)
Polls == PollReads \/ PollArrives
Fills == SecretArrives \/ FillLands

AskingNext ==
    \/ \E w \in Waiters : Ask(w) \/ AskFails(w) \/ ReadLost(w) \/ GivesUp(w) \/ Waits(w)
    \/ Polls \/ PollRefused \/ PollThrows
    \/ TakeControl \/ HandBack \/ SendSecret \/ Fills \/ FillFails \/ FormReads \/ Answered
    \/ Others

(* The view's requests are answered, one way or another.                   *)
AskingSpec == AskingInit /\ [][AskingNext]_askingVars /\ WF_askingVars(Polls)

-----------------------------------------------------------------------------

(* Types.                                                                  *)
AskingTypeOK ==
    /\ wheel \in ControlState
    /\ asking \in [Waiters -> [kind : {"none", "help", "secret"}, ref : Refs \cup {NoSecret},
                               at : {"idle", "asked", "landed", "waiting", "read",
                                     "answered", "unanswered"}, saw : View]]
    /\ screen \in View
    /\ poll \in [at : {"due", "refused", "read", "dead"}, value : View]
    /\ hand \in [at : {"idle", "sent", "typing", "over", "due"}, ref : Refs \cup {NoSecret}, value : View]
    /\ closed \subseteq Waiters /\ entered \subseteq Waiters

(* A Bot that is told its person has answered had asked, and what it asked *)
(* for was closed after that, whoever else asks, takes or hands back       *)
(* meanwhile and however old the state is that it read (waitForPerson).    *)
ToldOnlyAfterAnAnswer == \A w \in Waiters : asking[w].at = "answered" => w \in closed

(* The view comes to show the wheel as it is and goes on showing it,       *)
(* whatever crossed, unless its polls keep being refused, or one was not   *)
(* answered at all (the control poll of ComputerView).                     *)
ScreenSettles == []<>(poll.at = "refused") \/ <>[](poll.at = "dead" \/ screen = wheel)

(* A Bot that is told the person has entered the value was told the truth. *)
BotIsToldTheTruth ==
    \A w \in Waiters : asking[w].at = "answered" /\ asking[w].kind = "secret" => w \in entered
=============================================================================
