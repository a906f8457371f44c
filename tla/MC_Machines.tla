----------------------------- MODULE MC_Machines -----------------------------
(* Small instances of the machines that people and Bots are given, for     *)
(* TLC: the supervisor's container and volume, the browser on its profile  *)
(* inside it, and the Sprites of those who sign in.  Each behaviour moves  *)
(* one of them, under its own fairness.                                    *)
EXTENDS Supervisor, Profiles, SignIn

\* A user, two whose ids differ by one underscore, and what a Sprite runs.
Alone == {<<"a", "_", "a">>}
Alike == {<<"a", "_", "a">>, <<"a", "_", "_", "a">>}
TwoProducts == <<"tinypipe", "tinytail">>

VARIABLES
    moving,      \* the part that moves
    disturbed,   \* history: requests that ran beside one of the other kind, an ensure beside a stop or a reset
    bereft,      \* history: requests whose container another one's reset removed before they acted on it
    forestalled, \* history: ensures whose create found a stranger with the name
    overlapped   \* history: a call of Profiles or a signal began while another call was in flight

machineVars == <<vars, pageVars, signInVars, moving, disturbed, bereft, forestalled, overlapped>>

Opposed(r, q) ==
    /\ {call[r].verb, call[q].verb} \cap {"ensure"} # {}
    /\ {call[r].verb, call[q].verb} \cap {"stop", "reset"} # {}

\* The call it awaits is about whatever has the name.
GoesByName(r) == At(r, "ensure", "start") \/ At(r, "stop", "stop") \/ At(r, "reset", "remove")

InFlight == {c \in Callers \cup Signals : pageCall[c].at # "idle"}

MCInit ==
    /\ moving \in {"container", "browser", "sprite"}
    /\ Init /\ PagesInit /\ SignInInit /\ disturbed = {} /\ bereft = {} /\ forestalled = {}
    /\ overlapped = FALSE

ContainerNext ==
    /\ Next
    /\ disturbed' = {r \in Requests : call'[r].at # "idle" /\
                       (r \in disturbed \/ (\E q \in Requests : Opposed(r, q))')}
    /\ bereft' = {r \in Requests : GoesByName(r)' /\
                    (r \in bereft \/ (IsOurs /\ \E q \in Requests \ {r} : RemoveContainer(q)))}
    /\ forestalled' = {r \in Requests : GoesByName(r)' /\
                         (r \in forestalled \/ (Stranger /\ CreateConflicts(r)))}

BrowserNext == PagesNext /\ overlapped' = (overlapped \/ (\E c, d \in InFlight : c # d)')

MCNext ==
    /\ UNCHANGED moving
    /\ \/ moving = "container" /\ ContainerNext /\ UNCHANGED <<pageVars, signInVars, overlapped>>
       \/ moving = "browser" /\ BrowserNext /\ UNCHANGED <<vars, signInVars, disturbed, bereft, forestalled>>
       \/ moving = "sprite" /\ SignInNext /\ UNCHANGED <<vars, pageVars, disturbed, bereft, forestalled, overlapped>>

\* The fairness of each part, as its own module states it.
ContainerIsFair == \A r \in Requests : WF_vars(moving = "container" /\ Continue(r))
BrowserIsFair == \A c \in Callers : WF_pageVars(moving = "browser" /\ Resume(c))
SpriteIsFair == \A r \in SignIns : WF_signInVars(moving = "sprite" /\ Provisions(r))

MCSpec ==
    /\ MCInit /\ [][MCNext]_machineVars
    /\ ContainerIsFair /\ BrowserIsFair /\ SpriteIsFair

(* Types, of the browsers and the sign-ins.                                *)
MachinesTypeOK == PagesTypeOK /\ SignInTypeOK

(* Everyone is answered: a request for a container, and a call of the      *)
(* browser's pages (EveryRequestAnswered, EveryCallAnswered).              *)
EveryoneIsAnswered == EveryRequestAnswered /\ EveryCallAnswered

(* What a request answers is so, unless an ensure ran beside a stop or a   *)
(* reset.  Two messages to one Bot at the same moment do not race into two *)
(* containers: ensures all answer the one that is running, at the port it  *)
(* is on, and none fails for having lost a race; and a reset leaves        *)
(* neither a container of ours nor the profile, so that the next request   *)
(* builds a clean computer (the comments on ensure and reset).  A stranger *)
(* may take the name at any moment.                                        *)
UndisturbedAnswersAreTrue ==
    \A r \in Requests \ disturbed :
        /\ call[r].at # "lost"
        /\ (At(r, "ensure", "answer") /\ ~Stranger) =>
              /\ container.status = "running"
              /\ call[r].settled = [status |-> "running", port |-> container.port]
        /\ At(r, "reset", "gone") => ~IsOurs /\ profile = "absent"

(* A stranger's container is touched by two kinds of request only.  From   *)
(* the one, another's reset took our container away after the request had  *)
(* seen it or made it, the stranger took the name, and the start, the stop *)
(* or the removal then went by the name alone.  The other is an ensure     *)
(* whose create was answered 409 because of a stranger: it can start what  *)
(* has the name, and no more.  Whatever else has looked, and found none of *)
(* ours, leaves it alone (inspectOwned, ensure, stop, reset).              *)
StrangersAreSpared ==
    [][Stranger /\ container' # container =>
         \E r \in Requests : call'[r] # call[r] /\
            (r \in bereft \/ (r \in forestalled /\ container'.status = "running"))]_machineVars

(* A profile directory has one browser.  While none has died, lost its     *)
(* page or failed to get one, there is one launch at a time, none next to  *)
(* a live browser (the comment at the head of page), and none is left      *)
(* running that no call can close.  Whatever breaks, no call waits for a   *)
(* launch that is over (the finally of page), and a reset that is alone    *)
(* deletes under no browser but one that page() itself went on without: a  *)
(* half-dead one it did not let settle, or one whose first page could not  *)
(* be opened (the comment on reset).                                       *)
OneBrowserPerProfile ==
    /\ breaks = 0 => OneLaunch /\ NoOrphan
    /\ NobodyIsPinned
    /\ ~overlapped => wiped \subseteq leftBehind
=============================================================================
