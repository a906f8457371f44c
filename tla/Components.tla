------------------------------ MODULE Components ------------------------------
(***************************************************************************)
(* One component Bots may draw, server/src/components: its governance row  *)
(* (store.ts, routes.ts) and, when it was written in the browser, the row  *)
(* with its source (sandboxed.ts).  save, publish and remove write both    *)
(* rows, one statement after the other with no transaction, and the        *)
(* component routes write the governance row alone.  A description or a    *)
(* source is named by the draft it came from.                              *)
(***************************************************************************)
EXTENDS Naturals

CONSTANTS
    Viewers,      \* the Bots that may draw it
    Handlers,     \* requests that may be served at once
    MaxDrafts     \* how many drafts are written

ASSUME ComponentsAssumption == MaxDrafts \in Nat

\* Nothing was ever written, or published.
Never == 0
Drafts == 0 .. MaxDrafts

VARIABLES
    kind,       \* does the build ship it, or was it written in the browser
    source,     \* the row of sandboxed_components
    listed,     \* the row of components
    withheld,   \* the Bots it is withheld from
    reads,      \* it was granted the data function
    drafts,     \* the last draft written
    handler,    \* the requests being served
    apart,      \* history: requests met, one was cut short, or the listing was published alone
    announced,  \* history: the listing was made by an announcement, and not published with its source since
    openings    \* history: for each request, the gates that have been open since it began

componentVars == <<kind, source, listed, withheld, reads, drafts, handler,
                   apart, announced, openings>>

Gates == {"drawable", "granted"}
Rows == [there : BOOLEAN, draft : Drafts, shown : Drafts, published : BOOLEAN]
NoRow == [there |-> FALSE, draft |-> Never, shown |-> Never, published |-> FALSE]

Handler == [op    : {"save", "publish", "remove", "publishListing", "call"},
            at    : {"first", "read", "source", "listing", "granted", "run"},
            draft : Drafts,
            by    : Viewers]
Free == [at |-> "none"]

ComponentsInit ==
    /\ kind \in {"compiled", "sandboxed"}
    /\ source = NoRow /\ listed = NoRow
    /\ withheld = {} /\ reads = FALSE
    /\ drafts = Never
    /\ handler = [h \in Handlers |-> Free]
    /\ apart = FALSE /\ announced = FALSE
    /\ openings = [h \in Handlers |-> {}]

-----------------------------------------------------------------------------

TableVars == <<source, listed, withheld, reads, drafts>>
Goes(h, at) == handler' = [handler EXCEPT ![h].at = at]
Done(h) == handler' = [handler EXCEPT ![h] = Free]
Writing == {h \in Handlers : handler[h] # Free /\ handler[h].op # "call"}

StartsAt(op) == IF op = "call" THEN "first" ELSE IF op \in {"save", "remove"} THEN "source" ELSE "read"

\* A request that takes several queries; a save brings a draft of its own.
Starts(h) ==
    /\ handler[h] = Free
    /\ \E op \in {"save", "publish", "remove", "publishListing", "call"}, b \in Viewers :
         /\ op \in {"save", "publish", "remove"} => kind = "sandboxed"
         /\ op = "save" => drafts < MaxDrafts
         /\ drafts' = IF op = "save" THEN drafts + 1 ELSE drafts
         /\ handler' = [handler EXCEPT ![h] = [op |-> op, at |-> StartsAt(op), by |-> b,
                                               draft |-> IF op = "save" THEN drafts + 1 ELSE Never]]
         /\ apart' = (apart \/ op = "publishListing" \/ (op # "call" /\ Writing # {}))
    /\ UNCHANGED <<kind, source, listed, withheld, reads, announced>>

\* A statement fails, or the process goes.
CutShort(h) ==
    /\ handler[h] # Free
    /\ Done(h)
    /\ apart' = (apart \/ h \in Writing)
    /\ UNCHANGED <<kind, TableVars, announced>>

Kept(row, draft) == [row EXCEPT !.there = TRUE, !.draft = draft]

SaveSource(h) ==
    /\ handler[h].at = "source" /\ handler[h].op = "save"
    /\ source' = Kept(source, handler[h].draft)
    /\ Goes(h, "listing")
    /\ UNCHANGED <<kind, listed, withheld, reads, drafts, apart, announced>>

\* The upsert of save: what is published is left alone.
SavedListing(row, draft) == Kept(row, draft)

SaveListing(h) ==
    /\ handler[h].at = "listing" /\ handler[h].op = "save"
    /\ listed' = SavedListing(listed, handler[h].draft)
    /\ Done(h)
    /\ UNCHANGED <<kind, source, withheld, reads, drafts, apart, announced>>

\* requireRow, of the source's row for a publish and of the listing's for its route.
ReadDraft(h) ==
    /\ handler[h].at = "read"
    /\ LET row == IF handler[h].op = "publish" THEN source ELSE listed IN
         IF row.there
         THEN handler' = [handler EXCEPT ![h] = [@ EXCEPT !.draft = row.draft,
                             !.at = IF handler[h].op = "publish" THEN "source" ELSE "listing"]]
         ELSE Done(h)
    /\ UNCHANGED <<kind, TableVars, apart, announced>>

\* An update of a row that is gone changes nothing.
Shown(row, draft) == IF row.there THEN [row EXCEPT !.shown = draft, !.published = TRUE] ELSE row

PublishSource(h) ==
    /\ handler[h].at = "source" /\ handler[h].op = "publish"
    /\ source' = Shown(source, handler[h].draft)
    /\ Goes(h, "listing")
    /\ UNCHANGED <<kind, listed, withheld, reads, drafts, apart, announced>>

PublishListing(h) ==
    /\ handler[h].at = "listing" /\ handler[h].op \in {"publish", "publishListing"}
    /\ listed' = Shown(listed, handler[h].draft)
    /\ announced' = (announced /\ handler[h].op = "publishListing")
    /\ Done(h)
    /\ UNCHANGED <<kind, source, withheld, reads, drafts, apart>>

RemoveSource(h) ==
    /\ handler[h].at = "source" /\ handler[h].op = "remove"
    /\ source' = NoRow
    /\ Goes(h, "listing")
    /\ UNCHANGED <<kind, listed, withheld, reads, drafts, apart, announced>>

\* The exclusions and the functions go with the listing.
RemoveListing(h) ==
    /\ handler[h].at = "listing" /\ handler[h].op = "remove"
    /\ listed' = NoRow /\ withheld' = {} /\ reads' = FALSE /\ announced' = FALSE
    /\ Done(h)
    /\ UNCHANGED <<kind, source, drafts, apart>>

-----------------------------------------------------------------------------
(* The routes that write one row.                                          *)

\* syncCatalogue: published on arrival, and nothing once it is there.  Anybody signed in may
\* announce, and any name: that of a component written in the browser too.
Announce ==
    /\ ~listed.there /\ drafts < MaxDrafts
    /\ drafts' = drafts + 1
    /\ listed' = [there |-> TRUE, draft |-> drafts', shown |-> drafts', published |-> TRUE]
    /\ announced' = TRUE
    /\ UNCHANGED <<kind, source, withheld, reads, handler, apart>>

SaveDraft ==
    /\ listed.there /\ drafts < MaxDrafts
    /\ drafts' = drafts + 1
    /\ listed' = [listed EXCEPT !.draft = drafts']
    /\ UNCHANGED <<kind, source, withheld, reads, handler, apart, announced>>

Unpublish ==
    /\ listed.there
    /\ listed' = [listed EXCEPT !.published = FALSE]
    /\ UNCHANGED <<kind, source, withheld, reads, drafts, handler, apart, announced>>

\* grant and revoke of a Bot; grantFunction and revokeFunction.
Withhold(b) == listed.there /\ withheld' \in {withheld \cup {b}, withheld \ {b}}
               /\ UNCHANGED <<kind, source, listed, reads, drafts, handler, apart, announced>>
GrantFunction == listed.there /\ reads' \in BOOLEAN
                 /\ UNCHANGED <<kind, source, listed, withheld, drafts, handler, apart, announced>>

-----------------------------------------------------------------------------
(* A component fetching its own data: POST /:name/call.                    *)

\* Mutant: what was once published may be drawn.
OnceShown(b) == listed.there /\ listed.shown # Never /\ b \notin withheld
\* decide.
Drawable(b) == listed.there /\ listed.published /\ listed.shown # Never /\ b \notin withheld

Decided(h) ==
    /\ handler[h].at = "first"
    /\ IF Drawable(handler[h].by) THEN Goes(h, "granted") ELSE Done(h)
    /\ UNCHANGED <<kind, TableVars, apart, announced>>

\* mayCall.
MayCall(h) ==
    /\ handler[h].at = "granted"
    /\ IF reads THEN Goes(h, "run") ELSE Done(h)
    /\ UNCHANGED <<kind, TableVars, apart, announced>>

\* callFunction, and its row; the data is answered once both are there.
Run(h) ==
    /\ handler[h].at = "run"
    /\ Done(h)
    /\ UNCHANGED <<kind, TableVars, apart, announced>>

OpenNow(h) == {g \in Gates : IF g = "granted" THEN reads
                               ELSE listed.published /\ listed.shown # Never /\ handler[h].by \notin withheld}
IsCall(h) == handler[h] # Free /\ handler[h].op = "call"
Notes == openings' = [h \in Handlers |-> IF IsCall(h)' THEN openings[h] \cup OpenNow(h)' ELSE {}]

ComponentsNext ==
    /\ \/ \E h \in Handlers :
            \/ Starts(h) \/ CutShort(h) \/ SaveSource(h) \/ SaveListing(h) \/ ReadDraft(h)
            \/ PublishSource(h) \/ PublishListing(h) \/ RemoveSource(h) \/ RemoveListing(h)
            \/ Decided(h) \/ MayCall(h) \/ Run(h)
       \/ Announce \/ SaveDraft \/ Unpublish \/ GrantFunction
       \/ \E b \in Viewers : Withhold(b)
    /\ Notes
ComponentsSpec == ComponentsInit /\ [][ComponentsNext]_componentVars

-----------------------------------------------------------------------------

(* Types.                                                                  *)
ComponentsTypeOK ==
    /\ kind \in {"compiled", "sandboxed"}
    /\ source \in Rows /\ listed \in Rows
    /\ withheld \subseteq Viewers /\ reads \in BOOLEAN /\ drafts \in Drafts
    /\ handler \in [Handlers -> Handler \cup {Free}]
    /\ apart \in BOOLEAN /\ announced \in BOOLEAN /\ openings \in [Handlers -> SUBSET Gates]

(* Unless requests that write met, or one was cut short, or the listing    *)
(* was published on its own, or somebody's announcement made it and nobody *)
(* has removed the component or published it since: a component written in *)
(* the browser that Bots are offered has a published source, from the same *)
(* draft as the description they are told, and neither row outlives the    *)
(* other (save, publish and remove of sandboxed.ts).                       *)
DrawnAsDescribed ==
    kind = "sandboxed" /\ ~apart /\ ~announced /\ Writing = {} =>
        /\ source.there = listed.there
        /\ listed.published => source.published /\ source.shown = listed.shown

(* A data function runs only for a Bot that could draw the component, and  *)
(* for a component granted it, at some moment after the call began,        *)
(* whatever is published, withheld or revoked meanwhile (decide, mayCall). *)
ReadsAreGoverned == \A h \in Handlers : handler[h].at = "run" => openings[h] = Gates

(* What Bots are told of a component is what they draw, and it reads only  *)
(* what it was granted (DrawnAsDescribed, ReadsAreGoverned).               *)
ComponentsAreGoverned == DrawnAsDescribed /\ ReadsAreGoverned
=============================================================================
