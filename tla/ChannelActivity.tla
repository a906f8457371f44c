---------------------------- MODULE ChannelActivity ----------------------------
(***************************************************************************)
(* The last thing said in a channel, and one person's roster of it:        *)
(* recordActivity and list, server/src/channels/routes.ts; the listener    *)
(* and the hub of events.ts; app/src/lib/channels.  A report writes the    *)
(* row and is announced by Postgres on commit; a listener passes it to the *)
(* sockets, whose browsers patch a cached roster that a query refetches.   *)
(* Postgres, the sockets and the query library are external: a listener or *)
(* a socket that drops loses what it carried, and a refetch replaces what  *)
(* is cached whatever was patched meanwhile.  Rosters do not interact, so  *)
(* one is enough, and rows do not either.                                  *)
(***************************************************************************)
EXTENDS Naturals, Sequences

CONSTANT MaxMessage   \* the last message, 2 + their number

ASSUME MessageAssumption == MaxMessage \in Nat /\ MaxMessage >= 2

\* What a roster may say of the channel, ordered as it happens.
NoRoster == 0            \* the roster is not there yet
Unlisted == 1            \* it has no such channel
Silent == 2              \* nothing was said
News == 3 .. MaxMessage
\* Messages are named by the time they were said, as the reporting browsers tell it.

VARIABLES
    row,        \* the channel, as committed
    writer,     \* the report whose transaction updated it, or NoRoster
    report,     \* every message's report
    notes,      \* announced, not yet with the listener
    listening,  \* the listener's connection is up
    socket,     \* the browser's is
    inbox,      \* what the socket carries to the browser
    cache,      \* the roster
    fetch,      \* the query in flight
    owed,       \* this browser created the channel, and is still to be answered
    astray      \* history: the roster may have missed something since it was last read

channelVars == <<row, writer, report, notes, listening, socket, inbox, cache, fetch, owed, astray>>

\* The socket's opening, as the browser hears of it.
Opened == 0
NoFetch == [at |-> "none", value |-> NoRoster]
Asked == [at |-> "asked", value |-> NoRoster]
Fetch == [at : {"none", "asked", "read"}, value : 0 .. MaxMessage]

RosterInit ==
    /\ row = Unlisted /\ writer = NoRoster
    /\ report = [m \in News |-> "unsent"]
    /\ notes = <<>> /\ listening = TRUE
    /\ socket = "down" /\ inbox = <<>>
    /\ cache = NoRoster /\ fetch = Asked
    /\ owed = FALSE /\ astray = FALSE

-----------------------------------------------------------------------------
(* The server and Postgres.                                                *)

BrowserVars == <<socket, inbox, cache, fetch>>
Reported(m, at) == report' = [report EXCEPT ![m] = at]

\* create: nothing announces it.  The browser that asked may be answered; any other, on
\* another device or in another tab, or the one whose answer is lost, hears nothing.
Create ==
    /\ row = Unlisted
    /\ row' = Silent
    /\ owed' \in BOOLEAN
    /\ astray' = (astray \/ ~owed')
    /\ UNCHANGED <<writer, report, notes, listening, BrowserVars>>

\* Somebody in the channel saw a message and tells the server, once.
Report(m) ==
    /\ row # Unlisted /\ report[m] = "unsent"
    /\ Reported(m, "sent")
    /\ UNCHANGED <<row, writer, notes, listening, owed, astray, BrowserVars>>

\* It is refused, or lost: nobody asks again.
ReportLost(m) ==
    /\ report[m] = "sent"
    /\ Reported(m, "done")
    /\ UNCHANGED <<row, writer, notes, listening, owed, astray, BrowserVars>>

\* Only ever move forwards.
IsNews(m) == row < m

\* The update: it waits for another's transaction, and its condition is of the row it finds then.
Update(m) ==
    /\ report[m] = "sent" /\ writer = NoRoster
    /\ IF IsNews(m) THEN writer' = m /\ Reported(m, "written")
       ELSE Reported(m, "done") /\ UNCHANGED writer
    /\ UNCHANGED <<row, notes, listening, owed, astray, BrowserVars>>

\* What was announced is sent on commit, to the listener if it listens.
Commit(m) ==
    /\ report[m] = "written"
    /\ row' = m /\ writer' = NoRoster
    /\ Reported(m, "done")
    /\ notes' = IF listening THEN Append(notes, m) ELSE notes
    /\ astray' = (astray \/ ~listening)
    /\ UNCHANGED <<listening, owed, BrowserVars>>

Rollback(m) ==
    /\ report[m] = "written"
    /\ writer' = NoRoster
    /\ Reported(m, "done")
    /\ UNCHANGED <<row, notes, listening, owed, astray, BrowserVars>>

\* The listener, and deliver of the hub: to the sockets there are.
Deliver ==
    /\ listening /\ notes # <<>>
    /\ notes' = Tail(notes)
    /\ inbox' = IF socket = "up" THEN Append(inbox, Head(notes)) ELSE inbox
    /\ UNCHANGED <<row, writer, report, listening, socket, cache, fetch, owed, astray>>

ListenerDrops ==
    /\ listening
    /\ listening' = FALSE /\ notes' = <<>>
    /\ astray' = (astray \/ notes # <<>>)
    /\ UNCHANGED <<row, writer, report, owed, BrowserVars>>

ListenerReturns ==
    /\ ~listening
    /\ listening' = TRUE
    /\ UNCHANGED <<row, writer, report, notes, owed, astray, BrowserVars>>

-----------------------------------------------------------------------------
(* The browser: useChannelEvents over the roster's query.                  *)

ServerVars == <<row, writer, report, notes, listening>>

\* The server attaches the connection as it opens; the browser hears of it first.
SocketConnects ==
    /\ socket = "down"
    /\ socket' = "up" /\ inbox' = <<Opened>>
    /\ UNCHANGED <<ServerVars, cache, fetch, owed, astray>>

SocketDrops ==
    /\ socket = "up"
    /\ socket' = "down" /\ inbox' = <<>>
    /\ UNCHANGED <<ServerVars, cache, fetch, owed, astray>>

\* invalidateQueries: a query in flight is joined while there is no roster, and replaced after.
Joins == fetch.at # "none" /\ cache = NoRoster
Invalidate ==
    /\ fetch' = IF Joins THEN fetch ELSE Asked
    /\ astray' = (astray \/ (Joins /\ fetch.at = "read"))
    /\ UNCHANGED cache

\* Mutant: what was missed while the socket was down is not recovered.
JustOpened == UNCHANGED <<cache, fetch, astray>>
\* onopen.
OnOpen == Invalidate

\* onmessage, for a channel that is not in the roster.
OnUnlisted == Invalidate

\* onmessage: the row is patched, whatever its time.
OnMessage(m) ==
    \/ cache = NoRoster /\ UNCHANGED <<cache, fetch>> /\ astray' = (astray \/ fetch.at # "asked")
    \/ cache = Unlisted /\ OnUnlisted
    \/ /\ cache \notin {NoRoster, Unlisted}
       /\ cache' = m
       /\ astray' = (astray \/ fetch.at = "read")
       /\ UNCHANGED fetch

Hear ==
    /\ inbox # <<>>
    /\ inbox' = Tail(inbox)
    /\ IF Head(inbox) = Opened THEN OnOpen ELSE OnMessage(Head(inbox))
    /\ UNCHANGED <<ServerVars, socket, owed>>

\* onSuccess of creating a channel.
HearsOfCreate ==
    /\ owed /\ owed' = FALSE
    /\ Invalidate
    /\ UNCHANGED <<ServerVars, socket, inbox>>

\* What is still to be heard begins with older news; it ends with the row, if nothing was lost.
Behind == LET coming == inbox \o notes IN coming # <<>> /\ coming[Len(coming)] \notin {Opened, row}

\* list reads the rows.
Read ==
    /\ fetch.at = "asked"
    /\ fetch' = [at |-> "read", value |-> row]
    /\ astray' = Behind
    /\ UNCHANGED <<ServerVars, socket, inbox, cache, owed>>

Answer ==
    /\ fetch.at = "read"
    /\ cache' = fetch.value /\ fetch' = NoFetch
    /\ UNCHANGED <<ServerVars, socket, inbox, owed, astray>>

\* Tried twice, and given up.
FetchFails ==
    /\ fetch.at # "none"
    /\ fetch' = NoFetch
    /\ astray' = TRUE
    /\ UNCHANGED <<ServerVars, socket, inbox, cache, owed>>

-----------------------------------------------------------------------------

Write(m) == Update(m) \/ Commit(m)
Browser == Hear \/ HearsOfCreate \/ Read \/ Answer

RosterNext ==
    \/ Create \/ Deliver \/ ListenerDrops \/ ListenerReturns
    \/ \E m \in News : Report(m) \/ ReportLost(m) \/ Write(m) \/ Rollback(m)
    \/ SocketConnects \/ SocketDrops \/ FetchFails \/ Browser

RosterSpec == RosterInit /\ [][RosterNext]_channelVars

(* Statements are executed, the listener and the browser reconnect, and a  *)
(* query is answered or fails.                                             *)
RosterFairSpec ==
    /\ RosterSpec
    /\ \A m \in News : WF_channelVars(Write(m))
    /\ WF_channelVars(Deliver) /\ WF_channelVars(ListenerReturns)
    /\ WF_channelVars(SocketConnects)
    /\ WF_channelVars(Hear) /\ WF_channelVars(HearsOfCreate)
    /\ WF_channelVars(Read) /\ WF_channelVars(Answer)

-----------------------------------------------------------------------------

(* Types.                                                                  *)
RosterTypeOK ==
    /\ row \in Unlisted .. MaxMessage
    /\ writer \in {NoRoster} \cup News
    /\ report \in [News -> {"unsent", "sent", "written", "done"}]
    /\ notes \in Seq(News) /\ listening \in BOOLEAN
    /\ socket \in {"up", "down"} /\ inbox \in Seq({Opened} \cup News)
    /\ cache \in 0 .. MaxMessage /\ fetch \in Fetch
    /\ owed \in BOOLEAN /\ astray \in BOOLEAN

(* If the socket and the listener stay up in the end, the roster comes to  *)
(* say what the row says and keeps saying it; unless, since the roster was *)
(* last read, the channel was created where this browser does not hear of  *)
(* it (create announces nothing; onSuccess is for the tab that asked), the *)
(* listener lost an announcement, a query failed, or an event met a query  *)
(* that had already read (useChannelEvents, list).                         *)
RosterSettles == <>[](socket = "up" /\ listening) => <>[](astray \/ cache = row)
=============================================================================
