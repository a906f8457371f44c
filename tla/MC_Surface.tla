------------------------------ MODULE MC_Surface ------------------------------
(* Small instances of what one person's browser does, for TLC: it asks     *)
(* them for the Bot, and keeps the messages of a channel.  The two share   *)
(* no state, so each behaviour moves one of them, under its own fairness,  *)
(* and the run is as large as their sum and not their product.             *)
EXTENDS Asking, ChannelThread

VARIABLE moving  \* the part that moves

surfaceVars == <<askingVars, threadVars, moving>>

MCInit ==
    /\ moving \in {"asking", "thread"}
    /\ AskingInit /\ ThreadInit
    \* One initial state of a part that does not move is enough.
    /\ moving # "thread" => turnOf[First].at = "none" /\ thread = <<>>

MCNext ==
    /\ UNCHANGED moving
    /\ \/ moving = "asking" /\ AskingNext /\ UNCHANGED threadVars
       \/ moving = "thread" /\ ThreadNext /\ UNCHANGED askingVars

\* The fairness of each part, as its own module states it.
MCFairness ==
    /\ WF_askingVars(moving = "asking" /\ Polls)
    /\ WF_threadVars(moving = "thread" /\ Backstop)
    /\ WF_threadVars(moving = "thread" /\ SayFirst)
    /\ WF_threadVars(moving = "thread" /\ DeliverLate(First))

MCSpec == MCInit /\ [][MCNext]_surfaceVars /\ MCFairness

(* Types.                                                                  *)
SurfaceTypeOK == AskingTypeOK /\ ThreadTypeOK

(* The view that asks comes to show the wheel as it is, or has stopped     *)
(* asking for good (ScreenSettles).                                        *)
ViewSettles == moving = "asking" => ScreenSettles
=============================================================================
