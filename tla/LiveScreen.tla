------------------------------ MODULE LiveScreen ------------------------------
(***************************************************************************)
(* The live screen of one Bot: the /stream socket of                       *)
(* agent-computer/src/index.ts, its one viewer per session, the casts of   *)
(* screencast.ts, and LiveScreen in the browser that opens a socket and    *)
(* closes it.  open stops the viewer, attaches, and starts a timer that    *)
(* attaches again every second; attach waits for the page and for Chrome,  *)
(* and no tick waits for the one before.  close stops whichever viewer the *)
(* session has.  Chrome is external: it casts a page or fails to.  Frames  *)
(* are what a cast that has not been stopped sends to its socket.          *)
(***************************************************************************)
EXTENDS Naturals

CONSTANTS
    Sockets,    \* every connection is opened once
    MaxCasts,   \* casts that may run at a time
    MaxPages,   \* pages the Bot goes through
    Attaches    \* attaches that may be in flight

ASSUME ScreenAssumption == MaxCasts \in Nat /\ MaxPages \in Nat \ {0}

CastIds == 1 .. MaxCasts
NoSocket == "noSocket"
NoCast == 0
NoPage == 0
NoViewer == [socket |-> NoSocket, cast |-> NoCast, follow |-> NoSocket]
Idle == [socket |-> NoSocket, at |-> "idle", target |-> NoPage, previous |-> NoViewer]

VARIABLES
    tab,       \* a connection: "unopened", "open", "closed", and "gone" once the server has heard
    opening,   \* the server's open handler: "none", "stopping", "attaching", "done", "refused"
    viewer,    \* session.viewer; a timer is named by the socket whose open set it
    casting,   \* the page that each socket's attach last started a cast of
    timers,    \* running intervals
    attach,    \* the calls of attach in flight
    casts,     \* the casts not stopped, with their socket and page
    page,      \* the page the Bot is on
    crossed,   \* history: two sockets have met, or a close and an attach
    lapped,    \* history: an attach has begun before the last one ended
    failed     \* history: the last attach that ended had failed

screenVars == <<tab, opening, viewer, casting, timers, attach, casts, page, crossed, lapped, failed>>

ScreenInit ==
    /\ tab = [s \in Sockets |-> "unopened"]
    /\ opening = [s \in Sockets |-> "none"]
    /\ viewer = NoViewer
    /\ casting = [s \in Sockets |-> NoPage]
    /\ timers = {}
    /\ attach = [a \in Attaches |-> Idle]
    /\ casts = {}
    /\ page = 1
    /\ crossed = FALSE /\ lapped = FALSE /\ failed = FALSE

Flying == {a \in Attaches : attach[a].at # "idle"}
Connected == {s \in Sockets : tab[s] \in {"open", "closed"}}

-----------------------------------------------------------------------------

Without(c) == {cast \in casts : cast.id # c}

\* Mutant: the cast is stopped and stays the session's viewer.
StopLeavingViewer ==
    /\ timers' = timers \ {viewer.follow}
    /\ casts' = Without(viewer.cast)
    /\ UNCHANGED viewer
\* stopViewer, up to its await: from then on the cast sends nothing.
stopViewer ==
    /\ viewer' = NoViewer
    /\ timers' = timers \ {viewer.follow}
    /\ casts' = Without(viewer.cast)

\* The overlay opens a socket, and the server's open begins.
OpenSocket(s) ==
    /\ tab[s] = "unopened"
    /\ tab' = [tab EXCEPT ![s] = "open"]
    /\ opening' = [opening EXCEPT ![s] = "stopping"]
    /\ stopViewer
    /\ crossed' = (crossed \/ Flying # {} \/ Connected # {})
    /\ UNCHANGED <<casting, attach, page, lapped, failed>>

\* attach is called, by open or by the timer.
BeginsAttach(s) ==
    \E a \in Attaches \ Flying :
        /\ attach' = [attach EXCEPT ![a] = [Idle EXCEPT !.socket = s, !.at = "page"]]
        /\ lapped' = (lapped \/ Flying # {})

FirstAttach(s) ==
    /\ opening[s] = "stopping"
    /\ opening' = [opening EXCEPT ![s] = "attaching"]
    /\ BeginsAttach(s)
    /\ UNCHANGED <<tab, viewer, casting, timers, casts, page, crossed, failed>>

\* The interval, whose callback does not ask whether the last one has ended.
TimerFires(s) ==
    /\ s \in timers
    /\ BeginsAttach(s)
    /\ UNCHANGED <<tab, opening, viewer, casting, timers, casts, page, crossed, failed>>

Ends(a, badly) == attach' = [attach EXCEPT ![a] = Idle] /\ failed' = badly

\* The open handler goes on once its attach has ended: a timer, and the viewer is told of it.
Follows(s, now) ==
    IF opening[s] = "attaching"
    THEN /\ opening' = [opening EXCEPT ![s] = "done"]
         /\ timers' = timers \cup {s}
         /\ viewer' = IF now = NoViewer THEN NoViewer ELSE [now EXCEPT !.follow = s]
    ELSE /\ viewer' = now
         /\ UNCHANGED <<opening, timers>>

\* Mutant: the page of the first attach is taken for ever.
AlreadyCastingSomething(s) == casting[s] # NoPage
\* target === casting.
AlreadyCasting(s) == casting[s] = page

\* The page is known: nothing to do, or a cast is asked for and the viewer of now remembered.
GotTarget(a) ==
    LET s == attach[a].socket IN
    /\ attach[a].at = "page"
    /\ IF AlreadyCasting(s)
       THEN Ends(a, FALSE) /\ Follows(s, viewer)
       ELSE /\ attach' = [attach EXCEPT ![a] = [@ EXCEPT !.at = "cast", !.target = page, !.previous = viewer]]
            /\ UNCHANGED <<opening, timers, viewer, failed>>
    /\ UNCHANGED <<tab, casting, casts, page, crossed, lapped>>

\* previous?.cast.stop(), up to its await.
Replaced(previous) == Without(previous.cast)

Named == {cast.id : cast \in casts} \cup {viewer.cast} \cup {attach[a].previous.cast : a \in Attaches}

\* The cast runs: it takes the viewer's place, and the one remembered is stopped.
CastStarted(a) ==
    LET s == attach[a].socket
        previous == attach[a].previous
        id == CHOOSE c \in CastIds : c \notin Named
    IN
    /\ attach[a].at = "cast" /\ ~(CastIds \subseteq Named)
    /\ casts' = Replaced(previous) \cup {[id |-> id, socket |-> s, page |-> attach[a].target]}
    /\ casting' = [casting EXCEPT ![s] = attach[a].target]
    /\ Ends(a, FALSE)
    /\ Follows(s, [socket |-> s, cast |-> id, follow |-> previous.follow])
    /\ UNCHANGED <<tab, page, crossed, lapped>>

\* No page, or no cast: a tick forgets it, open tells the browser and closes.
AttachFails(a) ==
    LET s == attach[a].socket IN
    /\ attach[a].at # "idle"
    /\ Ends(a, TRUE)
    /\ opening' = [opening EXCEPT ![s] = IF @ = "attaching" THEN "refused" ELSE @]
    /\ UNCHANGED <<tab, viewer, casting, timers, casts, page, crossed, lapped>>

\* The overlay closes, or the connection breaks.
CloseTab(s) ==
    /\ tab[s] = "open"
    /\ tab' = [tab EXCEPT ![s] = "closed"]
    /\ UNCHANGED <<opening, viewer, casting, timers, attach, casts, page, crossed, lapped, failed>>

\* close: whose socket it was is not asked.
OnClose == stopViewer

\* The server hears of it.
CloseSocket(s) ==
    /\ tab[s] = "closed" \/ (tab[s] = "open" /\ opening[s] = "refused")
    /\ tab' = [tab EXCEPT ![s] = "gone"]
    /\ OnClose
    /\ crossed' = (crossed \/ Flying # {} \/ opening[s] = "stopping" \/ Connected # {s})
    /\ UNCHANGED <<opening, casting, attach, page, lapped, failed>>

\* The Bot's page is another from now on.
PageChanges ==
    /\ page < MaxPages
    /\ page' = page + 1
    /\ UNCHANGED <<tab, opening, viewer, casting, timers, attach, casts, crossed, lapped, failed>>

-----------------------------------------------------------------------------

Attaching(a) == GotTarget(a) \/ CastStarted(a)

ScreenNext ==
    \/ \E s \in Sockets : OpenSocket(s) \/ FirstAttach(s) \/ TimerFires(s) \/ CloseTab(s) \/ CloseSocket(s)
    \/ \E a \in Attaches : Attaching(a) \/ AttachFails(a)
    \/ PageChanges

(* Handlers go on, timers fire, Chrome answers, and a close is heard of.   *)
ScreenSpec ==
    /\ ScreenInit /\ [][ScreenNext]_screenVars
    /\ \A s \in Sockets : WF_screenVars(FirstAttach(s)) /\ WF_screenVars(TimerFires(s)) /\ WF_screenVars(CloseSocket(s))
    /\ \A a \in Attaches : WF_screenVars(Attaching(a))

-----------------------------------------------------------------------------

(* Types.                                                                  *)
ScreenTypeOK ==
    /\ tab \in [Sockets -> {"unopened", "open", "closed", "gone"}]
    /\ opening \in [Sockets -> {"none", "stopping", "attaching", "done", "refused"}]
    /\ viewer \in [socket : Sockets \cup {NoSocket}, cast : CastIds \cup {NoCast}, follow : Sockets \cup {NoSocket}]
    /\ casting \in [Sockets -> 0 .. MaxPages] /\ page \in 1 .. MaxPages
    /\ timers \subseteq Sockets
    /\ casts \subseteq [id : CastIds, socket : Sockets, page : 1 .. MaxPages]
    /\ crossed \in BOOLEAN /\ lapped \in BOOLEAN /\ failed \in BOOLEAN

(* A person's input goes to a cast that still takes it, and is not dropped *)
(* in silence by one that was stopped, whatever sockets, ticks and closes  *)
(* meet.  While a socket is alone and no attach outlasts its second, that  *)
(* is the one cast and the one timer, and none once the socket has closed  *)
(* (open, message, attach, stopViewer and close).                          *)
OneLiveCast ==
    /\ viewer # NoViewer => \E cast \in casts : cast.id = viewer.cast
    /\ ~crossed /\ ~lapped =>
          /\ \A c, d \in casts : c = d
          /\ \A s, t \in timers : s = t
          /\ \A s \in timers \cup {cast.socket : cast \in casts} : tab[s] # "gone"

Shows(s) == \E cast \in casts : cast.socket = s /\ cast.page = page

(* A lone socket that stays open comes to show the page the Bot is on and  *)
(* goes on showing it, unless attaches fail again and again (attach, the   *)
(* timer).                                                                 *)
FollowsTheBot ==
    \A s \in Sockets :
        []<>failed \/ []<>(tab[s] # "open") \/ <>[](crossed \/ Shows(s))

(* Whoever looks at the live screen has one cast, and sees by it what the  *)
(* Bot does (attach, the timer, stopViewer).                               *)
ViewersAreServed == []OneLiveCast /\ FollowsTheBot
=============================================================================
