------------------------------ MODULE Profiles ------------------------------
(***************************************************************************)
(* One Bot's browser and the profile directory it runs on,                 *)
(* agent-computer/src/profiles.ts: the live and starting maps, and the     *)
(* calls page, stop, reset and closeAll interleaved at their awaits.       *)
(* Browsers of different Bots share nothing but closeAll, so one Bot is    *)
(* enough.  Launching and closing Chromium is external.                    *)
(***************************************************************************)
EXTENDS Naturals, FiniteSets

CONSTANTS
    Callers,        \* calls into the module that may be in flight at once
    Signals,        \* SIGTERM and SIGINT: each runs closeAll, then exits
    Browsers,       \* bound: the numbers of the browsers that may ever be started
    MaxBreaks,      \* bound: browsers that die, lose their page or never get one
    None            \* an absent map entry

ASSUME NoneAssumption == Browsers \subseteq Nat /\ None \notin Browsers /\ Callers \cap Signals = {}

VARIABLES
    live,           \* live.get(botId), the browser page() hands out
    starting,       \* starting.get(botId), the launch page() makes others wait for
    browser,        \* every browser: what its process is doing
    wiped,          \* browsers whose directory was deleted while they used it
    leftBehind,     \* history: browsers page() went on without
    pageCall,       \* every call in flight: its await, and the browser it is about
    breaks,         \* browsers broken so far
    exited          \* process.exit(0) was called

pageVars == <<live, starting, browser, wiped, leftBehind, pageCall, breaks, exited>>

\* A broken browser has lost its page but still runs; a dead one does not.
BrowserStates == {"new", "launching", "up", "broken", "dead", "flushing", "closed"}

\* Processes that have the profile directory open.
Running == {b \in Browsers : browser[b] \in {"launching", "up", "broken", "flushing"}}

PageAwaits == {"idle", "join", "closeOld", "launch",
               "close", "settle", "resetClose", "resetSettle", "remove"}

Call == [at : PageAwaits, on : Browsers \cup {None}]
NoCall == [at |-> "idle", on |-> None]

PagesInit ==
    /\ live = None
    /\ starting = None
    /\ browser = [b \in Browsers |-> "new"]
    /\ wiped = {}
    /\ leftBehind = {}
    /\ pageCall = [c \in Callers \cup Signals |-> NoCall]
    /\ breaks = 0
    /\ exited = FALSE

-----------------------------------------------------------------------------
PageAt(c, await) == ~exited /\ pageCall[c].at = await
Awaiting(c, await, b) == pageCall' = [pageCall EXCEPT ![c] = [at |-> await, on |-> b]]
Return(c) == pageCall' = [pageCall EXCEPT ![c] = NoCall]
Becomes(b, state) == browser' = [browser EXCEPT ![b] = state]

\* Bound: a number is left for every relaunch already on its way.
Spare == Cardinality({b \in Browsers : browser[b] = "new"})
           > Cardinality({c \in Callers : pageCall[c].at = "closeOld"})

\* The rest of page() once nothing stands in the way: sweepLocks and the
\* launch begin, and starting names it, in one synchronous stretch.  Browsers
\* are numbered as they are started.
Launch(c, b, now) ==
    /\ now[b] = "new" /\ \A o \in Browsers : o < b => now[o] # "new"
    /\ browser' = [now EXCEPT ![b] = "launching"]
    /\ starting' = b
    /\ Awaiting(c, "launch", b)

-----------------------------------------------------------------------------
(* page                                                                    *)

PageJoins(c) ==
    /\ PageAt(c, "idle") /\ starting # None
    /\ Awaiting(c, "join", starting)
    /\ UNCHANGED <<live, starting, browser, wiped, leftBehind, breaks, exited>>

\* A healthy live browser is handed out at once: no state changes.
Healthy == live # None /\ browser[live] = "up"

\* Mutant: the launch in flight is not waited for.
NothingStartingForgotten == TRUE
NothingStarting == starting = None

PageLaunches(c) ==
    /\ PageAt(c, "idle") /\ NothingStarting /\ live = None /\ Spare
    /\ \E b \in Browsers : Launch(c, b, browser)
    /\ UNCHANGED <<live, wiped, leftBehind, breaks, exited>>

PageClosesHalfDead(c) ==
    /\ PageAt(c, "idle") /\ starting = None /\ live # None /\ ~Healthy /\ Spare
    /\ Awaiting(c, "closeOld", live)
    /\ UNCHANGED <<live, starting, browser, wiped, leftBehind, breaks, exited>>

\* close() only asks: a browser that still runs is left writing its cookies.
AfterClose(b) == IF browser[b] \in {"dead", "closed"} THEN "closed" ELSE "flushing"

\* After the await neither map is read again: the entry is dropped, whatever
\* it is now, and a launch begins, without letting the old browser settle.
PageRelaunches(c) ==
    /\ PageAt(c, "closeOld")
    /\ live' = None
    /\ leftBehind' = leftBehind \cup {pageCall[c].on}
    /\ \E b \in Browsers : Launch(c, b, [browser EXCEPT ![pageCall[c].on] = AfterClose(pageCall[c].on)])
    /\ UNCHANGED <<wiped, breaks, exited>>

LaunchDone(c) ==
    /\ PageAt(c, "launch")
    /\ Becomes(pageCall[c].on, "up")
    /\ live' = pageCall[c].on
    /\ starting' = None
    /\ Return(c)
    /\ UNCHANGED <<wiped, leftBehind, breaks, exited>>

\* Mutants: the entry is set to undefined, here the number of no browser, which
\* is not an absent entry; or it is left.
AfterFailureUndefined == 0
AfterFailurePinned == starting
AfterFailure == None

LaunchFails(c) ==
    /\ PageAt(c, "launch")
    /\ Becomes(pageCall[c].on, "closed")
    /\ starting' = AfterFailure
    /\ Return(c)
    /\ UNCHANGED <<live, wiped, leftBehind, breaks, exited>>

\* The browser comes up with no page and opening one throws: nobody closes
\* it, and neither map names it.
LaunchStrays(c) ==
    /\ PageAt(c, "launch") /\ breaks < MaxBreaks
    /\ Becomes(pageCall[c].on, "broken")
    /\ leftBehind' = leftBehind \cup {pageCall[c].on}
    /\ starting' = AfterFailure
    /\ Return(c)
    /\ breaks' = breaks + 1
    /\ UNCHANGED <<live, wiped, exited>>

\* A call that joined resumes once the launch it joined is over.
JoinReturns(c) ==
    /\ PageAt(c, "join") /\ browser[pageCall[c].on] # "launching"
    /\ Return(c)
    /\ UNCHANGED <<live, starting, browser, wiped, leftBehind, breaks, exited>>

-----------------------------------------------------------------------------
(* stop and reset: closeAndWait asks the browser to close, then lets it    *)
(* settle; reset then removes the directory.                               *)

\* stop() with nothing live answers false and changes nothing.
StopFindsNothing(c) == PageAt(c, "idle") /\ live = None /\ UNCHANGED pageVars

StopPages(c) ==
    /\ PageAt(c, "idle") /\ live # None
    /\ live' = None
    /\ Awaiting(c, "close", live)
    /\ UNCHANGED <<starting, browser, wiped, leftBehind, breaks, exited>>

ClosesFirst == live # None

ResetPages(c) ==
    /\ PageAt(c, "idle")
    /\ live' = None
    /\ Awaiting(c, IF ClosesFirst THEN "resetClose" ELSE "remove", live)
    /\ UNCHANGED <<starting, browser, wiped, leftBehind, breaks, exited>>

Closed(c) ==
    /\ PageAt(c, "close") \/ PageAt(c, "resetClose")
    /\ Becomes(pageCall[c].on, AfterClose(pageCall[c].on))
    /\ Awaiting(c, IF pageCall[c].at = "close" THEN "settle" ELSE "resetSettle", pageCall[c].on)
    /\ UNCHANGED <<live, starting, wiped, leftBehind, breaks, exited>>

IsSettled(c) == PageAt(c, "resetSettle") \/ PageAt(c, "settle")

Settled(c) ==
    /\ IsSettled(c) /\ c \in Callers
    /\ Becomes(pageCall[c].on, IF browser[pageCall[c].on] = "flushing" THEN "closed"
                           ELSE browser[pageCall[c].on])
    /\ IF pageCall[c].at = "settle" THEN Return(c) ELSE Awaiting(c, "remove", None)
    /\ UNCHANGED <<live, starting, wiped, leftBehind, breaks, exited>>

RemoveProfile(c) ==
    /\ PageAt(c, "remove")
    /\ wiped' = wiped \cup Running
    /\ Return(c)
    /\ UNCHANGED <<live, starting, browser, leftBehind, breaks, exited>>

-----------------------------------------------------------------------------
(* closeAll, run by each signal before process.exit(0).                    *)

Signal(g) ==
    /\ PageAt(g, "idle")
    /\ live' = None
    /\ Awaiting(g, IF live = None THEN "settle" ELSE "close", live)
    /\ UNCHANGED <<starting, browser, wiped, leftBehind, breaks, exited>>

Exit(g) ==
    /\ PageAt(g, "settle")
    /\ browser' = IF pageCall[g].on = None THEN browser
                  ELSE [browser EXCEPT ![pageCall[g].on] = "closed"]
    /\ exited' = TRUE
    /\ UNCHANGED <<live, starting, wiped, leftBehind, pageCall, breaks>>

-----------------------------------------------------------------------------
\* A browser that was asked to close has written everything and ends.
WritesOut(b) ==
    /\ ~exited /\ browser[b] = "flushing" /\ Becomes(b, "closed")
    /\ UNCHANGED <<live, starting, wiped, leftBehind, pageCall, breaks, exited>>

\* Chromium crashes, or its only page is closed.
Breaks(b) ==
    /\ ~exited /\ breaks < MaxBreaks /\ browser[b] = "up"
    /\ \E state \in {"broken", "dead"} : Becomes(b, state)
    /\ breaks' = breaks + 1
    /\ UNCHANGED <<live, starting, wiped, leftBehind, pageCall, exited>>

Begin(c) ==
    \/ PageJoins(c) \/ PageLaunches(c) \/ PageClosesHalfDead(c)
    \/ StopFindsNothing(c) \/ StopPages(c) \/ ResetPages(c)

Resume(c) ==
    \/ PageRelaunches(c) \/ LaunchDone(c) \/ LaunchFails(c) \/ LaunchStrays(c)
    \/ JoinReturns(c) \/ Closed(c) \/ Settled(c) \/ RemoveProfile(c)

PagesNext ==
    \/ \E c \in Callers : Begin(c) \/ Resume(c)
    \/ \E g \in Signals : Signal(g) \/ Closed(g) \/ Exit(g)
    \/ \E b \in Browsers : Breaks(b) \/ WritesOut(b)

\* A launch, a close and a settle each end by themselves.
PagesFairness == \A c \in Callers : WF_pageVars(Resume(c))
PagesSpec == PagesInit /\ [][PagesNext]_pageVars /\ PagesFairness

-----------------------------------------------------------------------------
(* Types of the maps and of the calls in flight.                           *)
PagesTypeOK ==
    /\ live \in Browsers \cup {None}
    /\ starting \in Browsers \cup {None}
    /\ browser \in [Browsers -> BrowserStates]
    /\ wiped \subseteq Browsers /\ leftBehind \subseteq Browsers
    /\ pageCall \in [Callers \cup Signals -> Call]
    /\ breaks \in Nat
    /\ exited \in BOOLEAN

Launching == {b \in Browsers : browser[b] = "launching"}

(* One launch at a time per Bot, and none next to a live browser (the      *)
(* comment at the head of page).                                           *)
OneLaunch == Cardinality(Launching) <= 1 /\ (Launching # {} => ~Healthy)

(* No browser is left running with nobody able to close it: one that is up *)
(* is the one page hands out, or some call is closing it.                  *)
NoOrphan ==
    \A b \in Browsers : browser[b] = "up" =>
        b = live \/ \E c \in Callers \cup Signals : pageCall[c].on = b

(* A launch that others wait for is under way: one that failed does not    *)
(* pin later calls to its rejected promise (the finally of page).          *)
NobodyIsPinned == starting # None => browser[starting] = "launching"

(* Every call is answered.                                                 *)
EveryCallAnswered == \A c \in Callers : []<>(pageCall[c].at = "idle" \/ exited)
=============================================================================
