--------------------------- MODULE MC_Conversation ---------------------------
(* Small instances of what a conversation is made of, for TLC: the         *)
(* composer's queue, the stall guard over the Bot's streams, the events of *)
(* a run, the roster and the live screen.  They share no state, so each    *)
(* behaviour moves one of them, under its own fairness, and the run is as  *)
(* large as their sum and not their product.                               *)
EXTENDS ComposerQueue, StallGuard, BotRun, ChannelActivity, LiveScreen

VARIABLES
    moving,  \* the part that moves
    halted   \* history: the guard's stop() was called, and no stream has been opened since

stallVars == <<vars, halted>>
conversationVars == <<queueVars, stallVars, runVars, channelVars, screenVars, moving>>

MCInit ==
    /\ moving \in {"queue", "guard", "run", "roster", "screen"}
    /\ QueueInit /\ Init /\ halted = FALSE /\ RunInit /\ RosterInit /\ ScreenInit
    \* One initial state of a part that does not move is enough.
    /\ moving # "queue" => turns = {}
    /\ moving # "run" => harness = "once"

StallNext ==
    \/ stop /\ halted' = TRUE
    \/ (\E s \in Streams : Watch(s)) /\ halted' = FALSE
    \/ /\ Tick \/ Sweep \/ \E s \in Streams : Pump(s) \/ BotEnds(s) \/ ReaderCancels(s)
       /\ UNCHANGED halted

MCNext ==
    /\ UNCHANGED moving
    /\ \/ /\ moving = "queue" /\ QueueNext
          /\ UNCHANGED <<stallVars, runVars, channelVars, screenVars>>
       \/ /\ moving = "guard" /\ StallNext
          /\ UNCHANGED <<queueVars, runVars, channelVars, screenVars>>
       \/ /\ moving = "run" /\ RunNext
          /\ UNCHANGED <<queueVars, stallVars, channelVars, screenVars>>
       \/ /\ moving = "roster" /\ RosterNext
          /\ UNCHANGED <<queueVars, stallVars, runVars, screenVars>>
       \/ /\ moving = "screen" /\ ScreenNext
          /\ UNCHANGED <<queueVars, stallVars, runVars, channelVars>>

\* The fairness of each part, as its own module states it.
QueueIsFair ==
    /\ WF_queueVars(moving = "queue" /\ Draw) /\ WF_queueVars(moving = "queue" /\ Drain)
    /\ \A by \in {"composer", "drain", "component", "restored"} :
         WF_queueVars(moving = "queue" /\ \E t \in turns : t.by = by /\ TurnEnds(t))
GuardIsFair ==
    /\ WF_vars(moving = "guard" /\ Tick) /\ WF_vars(moving = "guard" /\ Sweep)
    /\ \A s \in Streams : WF_vars(moving = "guard" /\ (EndOfBody(s) \/ Throws(s)))
RosterIsFair ==
    /\ \A m \in News : WF_channelVars(moving = "roster" /\ Write(m))
    /\ WF_channelVars(moving = "roster" /\ Deliver)
    /\ WF_channelVars(moving = "roster" /\ ListenerReturns)
    /\ WF_channelVars(moving = "roster" /\ SocketConnects)
    /\ WF_channelVars(moving = "roster" /\ Hear)
    /\ WF_channelVars(moving = "roster" /\ HearsOfCreate)
    /\ WF_channelVars(moving = "roster" /\ Read)
    /\ WF_channelVars(moving = "roster" /\ Answer)
ScreenIsFair ==
    /\ \A s \in Sockets :
         /\ WF_screenVars(moving = "screen" /\ FirstAttach(s))
         /\ WF_screenVars(moving = "screen" /\ TimerFires(s))
         /\ WF_screenVars(moving = "screen" /\ CloseSocket(s))
    /\ \A a \in Attaches : WF_screenVars(moving = "screen" /\ Attaching(a))

MCSpec ==
    /\ MCInit /\ [][MCNext]_conversationVars
    /\ QueueIsFair /\ GuardIsFair /\ RosterIsFair /\ ScreenIsFair

(* Types, of every part but the guard.                                     *)
ConversationTypeOK == QueueTypeOK /\ RunTypeOK /\ RosterTypeOK /\ ScreenTypeOK

(* The stream of a run is one the surface can read, and tells it every     *)
(* tool call (StreamIsWellFormed, CallsAreTold).                           *)
RunIsTold == StreamIsWellFormed /\ CallsAreTold

(* A stream whose Bot falls silent does not stay open: something arrives   *)
(* or the turn is ended, whatever the reader and the other streams do and  *)
(* however often the timer was disarmed for want of streams, unless stop() *)
(* took the timer away (the sweep and open of turn-watchdog.ts).           *)
SilentTurnEnds ==
    \A s \in Streams :
        (moving = "guard" /\ s \in streams /\ pump[s] = "reading")
            ~> (s \notin streams \/ pump[s] = "writing" \/ halted)
=============================================================================
