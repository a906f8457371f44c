---------------------------- MODULE AgentComputer ----------------------------
(***************************************************************************)
(* The request handlers of one Bot's computer, agent-computer/src/index.ts,*)
(* around the wheel of Control.  The process is single threaded but every  *)
(* handler awaits the page, the browser or a body, so requests interleave  *)
(* at those points: a slot of req is one request in flight and its pc      *)
(* names the await it is parked at.                                        *)
(*                                                                         *)
(* The browser is external: Playwright's aria-ref engine resolves a ref    *)
(* against the most recent ariaSnapshot, and only while the document that  *)
(* snapshot described is still the page.                                   *)
(***************************************************************************)
EXTENDS Control

CONSTANTS
    Slots,        \* requests the process may be serving at once
    MaxSince,     \* bound: changes of driver
    MaxSnapshots, \* bound: snapshot generations
    MaxDoc,       \* bound: documents the page has shown
    MaxBrowser    \* bound: browsers started for this Bot

VARIABLES
    control,      \* session.control
    snapshotId,   \* session.snapshotId, the generation a caller must name
    page,         \* the browser: its incarnation and the document it shows
    capture,      \* the last ariaSnapshot taken: its number and its document
    listings,     \* the /snapshot replies the Bot holds
    req           \* the requests in flight

computerVars == <<control, snapshotId, page, capture, listings, req>>

\* A reply of /snapshot: the generation written on it and the capture it lists.
Listing   == [gen : Nat, serial : Nat]
NoListing == [gen |-> 0, serial |-> 0]    \* an action on the page itself
Unchecked(l) == l.gen = 0                 \* the call carries no snapshotId

BotKinds == {"act", "type", "navigate"}
Kinds    == BotKinds \cup {"snapshot", "human", "secret", "stop", "none"}
Pcs      == {"idle", "page", "count", "act", "enter", "goto", "loaded",
             "capture", "reply", "fill", "filled", "close", "settle"}

Request == [kind : Kinds, pc : Pcs, listing : Listing,
            ref : Refs \cup {NoSecret}, since : Nat, browser : Nat]

NoRequest == [kind |-> "none", pc |-> "idle", listing |-> NoListing,
              ref |-> NoSecret, since |-> 0, browser |-> 0]

ComputerInit ==
    /\ control = createControl
    /\ snapshotId = 0
    /\ page = [browser |-> 1, doc |-> 1]
    /\ capture = [serial |-> 0, doc |-> 0]
    /\ listings = {}
    /\ req = [s \in Slots |-> NoRequest]

-----------------------------------------------------------------------------
(* Moving a request along.                                                 *)

IsAt(s, kinds, pc) == req[s].kind \in kinds /\ req[s].pc = pc
GoesTo(s, pc)      == req' = [req EXCEPT ![s].pc = pc]
Answers(s)         == req' = [req EXCEPT ![s] = NoRequest]

\* A request is admitted: everything it read before its first await is fixed.
Admit(s, kind, pc, listing, ref) ==
    /\ req[s] = NoRequest
    /\ req' = [req EXCEPT ![s] =
                 [kind |-> kind, pc |-> pc, listing |-> listing, ref |-> ref,
                  since |-> control.since, browser |-> 0]]
    /\ UNCHANGED <<control, snapshotId, page, capture, listings>>

\* The browser a handler got from currentPage is still the one running.
OnItsBrowser(s) == req[s].browser = page.browser

\* Playwright resolves the ref: its capture is of the document on screen.
Resolves(s) == OnItsBrowser(s) /\ capture.doc = page.doc

\* Mutant: locateRef forgets to compare generations.
SupersededForgotten(l) == FALSE
Superseded(l) == ~Unchecked(l) /\ l.gen # snapshotId

-----------------------------------------------------------------------------
(* The wheel.                                                              *)

RequestHelp ==
    /\ control' = requestHelp(control)
    /\ UNCHANGED <<snapshotId, page, capture, listings, req>>

RequestSecret(ref) ==
    /\ control' = requestSecret(control, ref)
    /\ UNCHANGED <<snapshotId, page, capture, listings, req>>

TakeControl ==
    /\ control.since < MaxSince
    /\ control' = take(control)
    /\ UNCHANGED <<snapshotId, page, capture, listings, req>>

ReleaseControl ==
    /\ control.since < MaxSince
    /\ control' = release(control)
    /\ UNCHANGED <<snapshotId, page, capture, listings, req>>

-----------------------------------------------------------------------------
(* Acting calls of the Bot: /click, /type, /key, /scroll.  A refusal (409  *)
(* humanHasControl) leaves no trace, so it is not an action.               *)

StartAct(s) ==
    /\ assertBotMayAct(control)
    /\ \E kind \in {"act", "type"}, l \in listings \cup {NoListing}, named \in BOOLEAN :
         /\ kind = "type" => l # NoListing
         /\ Admit(s, kind, "page",
                  IF named THEN l ELSE [l EXCEPT !.gen = 0], NoSecret)

\* currentPage resolved; locateRef compares generations in the same step.
\* A superseded ref is answered 409 stale.
LocateRef(s) ==
    /\ IsAt(s, {"act", "type"}, "page")
    /\ req' = [req EXCEPT ![s] =
          IF Superseded(req[s].listing) THEN NoRequest
          ELSE [@ EXCEPT !.browser = page.browser,
                         !.pc = IF req[s].listing.serial = 0 THEN "act" ELSE "count"]]
    /\ UNCHANGED <<control, snapshotId, page, capture, listings>>

\* resolveRef: a ref that names nothing is answered 409 stale.
CountRef(s) ==
    /\ IsAt(s, {"act", "type"}, "count")
    /\ IF Resolves(s) THEN GoesTo(s, "act") ELSE Answers(s)
    /\ UNCHANGED <<control, snapshotId, page, capture, listings>>

\* The click, fill, key press or wheel event reaches the page.
BotActs(s) ==
    /\ IsAt(s, {"act", "type"}, "act")
    /\ IF req[s].listing.serial = 0 THEN OnItsBrowser(s) ELSE Resolves(s)
    /\ IF req[s].kind = "type" THEN GoesTo(s, "enter") ELSE Answers(s)
    /\ UNCHANGED <<control, snapshotId, page, capture, listings>>

\* submit: true presses Enter once the field is filled.
PressEnter(s) ==
    /\ IsAt(s, {"type"}, "enter")
    /\ Resolves(s)
    /\ Answers(s)
    /\ UNCHANGED <<control, snapshotId, page, capture, listings>>

-----------------------------------------------------------------------------
(* /navigate and /snapshot.                                                *)

StartNavigate(s) ==
    /\ assertBotMayAct(control)
    /\ Admit(s, "navigate", "page", NoListing, NoSecret)

\* currentPage resolved: the handler holds the page of this browser.
GotPage(s) ==
    /\ req[s].pc = "page"
    /\ \E pc \in Pcs :
         /\ <<req[s].kind, pc>> \in {<<"navigate", "goto">>, <<"human", "act">>, <<"secret", "fill">>}
         /\ req' = [req EXCEPT ![s] = [@ EXCEPT !.pc = pc, !.browser = page.browser]]
    /\ UNCHANGED <<control, snapshotId, page, capture, listings>>

\* goto commits a new document ...
Goto(s) ==
    /\ IsAt(s, {"navigate"}, "goto") /\ OnItsBrowser(s)
    /\ page.doc < MaxDoc
    /\ page' = [page EXCEPT !.doc = @ + 1]
    /\ GoesTo(s, "loaded")
    /\ UNCHANGED <<control, snapshotId, capture, listings>>

\* ... and only its return moves the generation on.
Navigated(s) ==
    /\ IsAt(s, {"navigate"}, "loaded")
    /\ snapshotId < MaxSnapshots
    /\ snapshotId' = snapshotId + 1
    /\ Answers(s)
    /\ UNCHANGED <<control, page, capture, listings>>

StartSnapshot(s) == Admit(s, "snapshot", "page", NoListing, NoSecret)

\* snapshotPage moves the generation on before it asks the browser ...
BumpSnapshot(s) ==
    /\ IsAt(s, {"snapshot"}, "page")
    /\ snapshotId < MaxSnapshots
    /\ snapshotId' = snapshotId + 1
    /\ req' = [req EXCEPT ![s] = [@ EXCEPT !.pc = "capture", !.browser = page.browser]]
    /\ UNCHANGED <<control, page, capture, listings>>

Capture(s) ==
    /\ IsAt(s, {"snapshot"}, "capture") /\ OnItsBrowser(s)
    /\ capture' = [serial |-> capture.serial + 1, doc |-> page.doc]
    /\ req' = [req EXCEPT ![s] = [@ EXCEPT !.pc = "reply",
                      !.listing = [gen |-> 0, serial |-> capture.serial + 1]]]
    /\ UNCHANGED <<control, snapshotId, page, listings>>

\* ... and reads it again, after the await, to label the reply.
SnapshotReply(s) ==
    /\ IsAt(s, {"snapshot"}, "reply")
    /\ listings' = listings \cup {[gen |-> snapshotId, serial |-> req[s].listing.serial]}
    /\ Answers(s)
    /\ UNCHANGED <<control, snapshotId, page, capture>>

-----------------------------------------------------------------------------
(* A person's input by pixel, over HTTP or over the live-screen socket.    *)

StartHuman(s) ==
    /\ humanMayDrive(control)
    /\ Admit(s, "human", "page", NoListing, NoSecret)

HumanActs(s) ==
    /\ IsAt(s, {"human"}, "act") /\ OnItsBrowser(s)
    /\ Answers(s)
    /\ UNCHANGED <<control, snapshotId, page, capture, listings>>

-----------------------------------------------------------------------------
(* /human/secret: the pending request is read before the first await.      *)

StartSecret(s) ==
    /\ control.secret # NoSecret
    /\ Admit(s, "secret", "page", NoListing, control.secret)

\* No generation check here: the code leaves it to aria-ref.
FillSecret(s) ==
    /\ IsAt(s, {"secret"}, "fill") /\ Resolves(s)
    /\ GoesTo(s, "filled")
    /\ UNCHANGED <<control, snapshotId, page, capture, listings>>

CloseSecret(s) ==
    /\ IsAt(s, {"secret"}, "filled")
    /\ control' = secretSupplied(control)
    /\ Answers(s)
    /\ UNCHANGED <<snapshotId, page, capture, listings>>

\* A body without a value is refused with the request left open (400).
RejectSecretBody(s) ==
    /\ IsAt(s, {"secret"}, "page")
    /\ Answers(s)
    /\ UNCHANGED <<control, snapshotId, page, capture, listings>>

\* Mutant: the catch branch leaves the request open.
AfterFailedFillOpen(c) == c
AfterFailedFill(c) == secretSupplied(c)

\* The page, the click or the fill failed: the catch branch closes the request.
FailSecret(s) ==
    /\ IsAt(s, {"secret"}, "page") \/ IsAt(s, {"secret"}, "fill")
    /\ control' = AfterFailedFill(control)
    /\ Answers(s)
    /\ UNCHANGED <<snapshotId, page, capture, listings>>

-----------------------------------------------------------------------------
(* /computers/stop and /computers/reset: close, settle, then release.      *)

StartStop(s) ==
    Admit(s, "stop", "close", NoListing, NoSecret)

CloseBrowser(s) ==
    /\ IsAt(s, {"stop"}, "close")
    /\ page.browser < MaxBrowser /\ page.doc < MaxDoc
    /\ page' = [browser |-> page.browser + 1, doc |-> page.doc + 1]
    /\ GoesTo(s, "settle")
    /\ UNCHANGED <<control, snapshotId, capture, listings>>

\* No browser was running: stop() returns at once.
NothingToClose(s) ==
    /\ IsAt(s, {"stop"}, "close")
    /\ GoesTo(s, "settle")
    /\ UNCHANGED <<control, snapshotId, page, capture, listings>>

Settled(s) ==
    /\ IsAt(s, {"stop"}, "settle")
    /\ control.since < MaxSince
    /\ control' = release(control)
    /\ Answers(s)
    /\ UNCHANGED <<snapshotId, page, capture, listings>>

-----------------------------------------------------------------------------
(* An await that rejects: a timeout, a closed page, a browser that will    *)
(* not start, or the caller aborting.  The handler answers 499 or 502.     *)

Fails(s) ==
    /\ req[s].kind \in BotKinds \cup {"snapshot", "human"}
    /\ Answers(s)
    /\ UNCHANGED <<control, snapshotId, page, capture, listings>>

\* The site, or a click that followed a link, shows another document.
PageMoves ==
    /\ page.doc < MaxDoc
    /\ page' = [page EXCEPT !.doc = @ + 1]
    /\ UNCHANGED <<control, snapshotId, capture, listings, req>>

-----------------------------------------------------------------------------
Start(s) == StartAct(s) \/ StartNavigate(s) \/ StartSnapshot(s)
            \/ StartHuman(s) \/ StartSecret(s) \/ StartStop(s)

Continue(s) ==
    \/ LocateRef(s) \/ CountRef(s) \/ BotActs(s) \/ PressEnter(s)
    \/ GotPage(s) \/ Goto(s) \/ Navigated(s)
    \/ BumpSnapshot(s) \/ Capture(s) \/ SnapshotReply(s)
    \/ HumanActs(s)
    \/ FillSecret(s) \/ CloseSecret(s) \/ RejectSecretBody(s) \/ FailSecret(s)
    \/ CloseBrowser(s) \/ NothingToClose(s) \/ Settled(s)
    \/ Fails(s)

Wheel == RequestHelp \/ TakeControl \/ ReleaseControl
         \/ \E ref \in Refs \cup {Blank} : RequestSecret(ref)

ComputerNext == Wheel \/ PageMoves \/ \E s \in Slots : Start(s) \/ Continue(s)

ComputerSpec == ComputerInit /\ [][ComputerNext]_computerVars

\* Every await of a handler ends: clicks, fills and navigations have deadlines
\* (ACTION_TIMEOUT_MS, NAVIGATION_TIMEOUT_MS), the rest end by Playwright's own
\* default or a prompt answer of the browser.
ComputerFairness == \A s \in Slots : WF_computerVars(Continue(s))

-----------------------------------------------------------------------------
(* Properties.                                                             *)

(* Types: the wheel, the generations and every request in flight are of    *)
(* the shapes control.ts and index.ts declare.                             *)
ComputerTypeOK ==
    /\ control \in ControlState
    /\ snapshotId \in Nat
    /\ page \in [browser : Nat, doc : Nat]
    /\ capture \in [serial : Nat, doc : Nat]
    /\ listings \subseteq Listing
    /\ req \in [Slots -> Request]

(* A request still in flight while the other driver has the wheel was      *)
(* admitted before this tenure began: nothing is let in under the wrong    *)
(* driver, so what can trespass is bounded by what was already running     *)
(* (assertBotMayAct, humanMayDrive and the handlers that call them).       *)
OnlyLateRequestsTrespass ==
    \A s \in Slots : req[s].since = control.since =>
        /\ req[s].kind \in BotKinds => control.holder = "bot"
        /\ req[s].kind = "human"    => control.holder = "human"

(* Once a person has the wheel the Bot's calls die out: either the person  *)
(* hands back or a moment comes with no acting call of the Bot in flight.  *)
QuiescesForHuman ==
    []<>(control.holder = "bot" \/ \A s \in Slots : req[s].kind \notin BotKinds)

(* A call that named its snapshot and was let past the generation check is *)
(* about the newest capture for as long as it is in flight.  True when the *)
(* Bot's calls come one at a time.                                         *)
ListedStillNewest ==
    \A s \in Slots :
        (req[s].kind \in {"act", "type"} /\ req[s].pc # "page" /\ ~Unchecked(req[s].listing))
            => req[s].listing.serial = capture.serial

(* Once a person's value is on its way to a field, the request for that    *)
(* field does not stay open for ever, whether the value lands or not.      *)
AnsweredSecretCloses ==
    \A ref \in Refs :
        (control.secret = ref /\ \E s \in Slots : IsAt(s, {"secret"}, "fill") /\ req[s].ref = ref)
            ~> control.secret # ref

(* What a person takes over comes to rest: the Bot's calls, and the        *)
(* request that a value answers (the handlers' awaits and their catches).  *)
TakenOverSettles == QuiescesForHuman /\ AnsweredSecretCloses
=============================================================================
