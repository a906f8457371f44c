------------------------------ MODULE PluginTools ------------------------------
(***************************************************************************)
(* One MCP server of a deployment, server/src/plugins/store.ts: what the   *)
(* administrators do to it (add, refresh, remove, grant, policy, vault),   *)
(* and callTool, which decides, records and then acts.  Every query is a   *)
(* step of its own and nothing runs in a transaction, so what a handler    *)
(* read may be gone when it uses it.  The vendor's answers, the vault and  *)
(* the policy store are external.  Servers share nothing but grants and    *)
(* policy, so one is enough; a grant here is of one of its tools.          *)
(***************************************************************************)
EXTENDS Naturals

CONSTANTS
    Names,        \* tool names
    ReadNames,    \* those the catalogue entry does not list as writes; none of a custom server's
    Bots,
    Policies,     \* the effects a policy in force forwards, one set per policy
    Calls,        \* tool calls, each made once
    MaxChanges,   \* how many requests administrators make about the server
    Keyed,        \* those of them that name a credential, should they be adds
    MaxTokens     \* how many callback tokens are issued

\* Requests about the server, numbered as they come.
Changes == 1 .. MaxChanges

ASSUME ToolsAssumption ==
    /\ ReadNames \subseteq Names
    /\ Policies \subseteq SUBSET {"read", "write"}
    /\ MaxChanges \in Nat
    /\ Keyed \subseteq Changes
    /\ MaxTokens \in Nat

\* No row, no credential, no token.
None == 0

VARIABLES
    server,    \* its row: the adds that wrote the url and the credential
    tools,     \* the tools held for it
    grants,    \* <<tool, Bot>> pairs
    permits,   \* the effects the policy in force forwards
    revoked,   \* revoked credentials, by the add that named them
    token,     \* every Bot's callback token in force
    issued,    \* the last token issued
    change,    \* every request about the server
    call,      \* every tool call
    trail,     \* the row a call left in the audit trail
    since      \* history: what has held at some moment since a call began

toolVars == <<server, tools, grants, permits, revoked, token, issued,
              change, call, trail, since>>

Row == [url : Changes \cup {None}, credential : Changes \cup {None}]
NoServer == [url |-> None, credential |-> None]

Change == [at         : {"idle", "upsert", "audit", "remove", "find", "token", "list",
                         "delete", "insert", "update", "unanswered", "fail", "done"},
           row        : Row,                      \* the row it read
           secret     : Changes \cup {None},
           listing    : SUBSET Names,
           held       : SUBSET Names,             \* history: the tools when it began
           alone      : BOOLEAN]                  \* history: it has met no other request
Call == [at      : {"idle", "lookup", "decide", "reject", "find", "judge", "record",
                    "token", "remote", "done"},
         name    : Names,
         bot     : Bots,                          \* whose run it is
         shows   : 0 .. MaxTokens,                \* the token presented; None where none is asked for
         row     : Row,
         forward : BOOLEAN,
         secret  : Changes \cup {None}]

NewChange == [at |-> "idle", row |-> NoServer, secret |-> None, listing |-> {}, held |-> {},
              alone |-> TRUE]

ToolsInit ==
    /\ server = NoServer
    /\ tools = {} /\ grants = {}
    /\ permits \in Policies
    /\ revoked = {}
    /\ token = [b \in Bots |-> None] /\ issued = 0
    /\ change = [r \in Changes |-> NewChange]
    /\ call \in [Calls -> {[at |-> "idle", name |-> n, bot |-> b, shows |-> None, row |-> NoServer,
                            forward |-> FALSE, secret |-> None] : n \in Names, b \in Bots}]
    /\ trail = [c \in Calls |-> "none"]
    /\ since = [c \in Calls |-> {}]

-----------------------------------------------------------------------------
(* Requests about the server: addServer and addCustomServer, removeServer, *)
(* and refreshTools, which both adds end with.                             *)

WorldVars == <<grants, permits, token, issued>>
CallVars == <<call, trail>>

UnderWay(r) == change[r].at \notin {"idle", "done"}

\* A request of the route; any other under way has now met another.
Asks(r, at) ==
    /\ change[r].at = "idle" /\ \A s \in 1 .. r - 1 : change[s].at # "idle"
    /\ change' = [s \in Changes |->
         IF s = r THEN [NewChange EXCEPT !.at = at, !.held = tools, !.alone = ~\E t \in Changes : UnderWay(t)]
         ELSE [change[s] EXCEPT !.alone = @ /\ ~UnderWay(s)]]
    /\ UNCHANGED <<server, tools, revoked, WorldVars, CallVars>>

Moves(r, at) == change' = [change EXCEPT ![r].at = at]
Ends(r) == change' = [change EXCEPT ![r] = [NewChange EXCEPT !.at = "done"]]

\* The process dies, or a query that nothing catches fails.
CutOff(r) ==
    /\ UnderWay(r)
    /\ Ends(r)
    /\ UNCHANGED <<server, tools, revoked, WorldVars, CallVars>>

\* addServer, addCustomServer: the url and the credential are written together.
AddServer(r) ==
    /\ change[r].at = "upsert"
    /\ server' = [url |-> r, credential |-> IF r \in Keyed THEN r ELSE None]
    /\ Moves(r, "audit")
    /\ UNCHANGED <<tools, revoked, WorldVars, CallVars>>

\* The audit row of an add; an add that cannot be recorded throws and lists nothing.
RecordAdd(r) ==
    /\ change[r].at = "audit"
    /\ Moves(r, "find") \/ Ends(r)
    /\ UNCHANGED <<server, tools, revoked, WorldVars, CallVars>>

\* removeServer: the tools go with the row, the grants stay.
RemoveServer(r) ==
    /\ change[r].at = "remove"
    /\ server' = NoServer /\ tools' = {}
    /\ Ends(r)
    /\ UNCHANGED <<revoked, WorldVars, CallVars>>

\* requireServer, for refreshTools.
FindForRefresh(r) ==
    /\ change[r].at = "find"
    /\ IF server.url = None THEN Ends(r)
       ELSE change' = [change EXCEPT ![r] = [@ EXCEPT !.at = "token", !.row = server]]
    /\ UNCHANGED <<server, tools, revoked, WorldVars, CallVars>>

\* Mutant: the server's row is read again for its credential.
CurrentPointer(q) == server.credential
\* The credential named by the row a handler read.
Pointer(q) == q.row.credential

\* Mutant: a credential that was revoked still serves.
UsableRevoked(q) == TRUE
\* tokenFor: a revoked credential throws.
Usable(q) == Pointer(q) \notin revoked

TokenForRefresh(r) ==
    /\ change[r].at = "token"
    /\ change' = [change EXCEPT ![r] = [@ EXCEPT !.at = IF Usable(change[r]) THEN "list" ELSE "unanswered",
                                                 !.secret = Pointer(change[r])]]
    /\ UNCHANGED <<server, tools, revoked, WorldVars, CallVars>>

\* The vendor answers with what it offers now, or does not answer.
ListTools(r) ==
    /\ change[r].at = "list"
    /\ \/ \E offered \in SUBSET Names :
            change' = [change EXCEPT ![r] = [@ EXCEPT !.at = "delete", !.listing = offered]]
       \/ Moves(r, "unanswered")
    /\ UNCHANGED <<server, tools, revoked, WorldVars, CallVars>>

\* Mutant: the listing is merged into the tools held.
Merged(listing) == tools \ listing
\* What the delete leaves.
Cleared(listing) == {}

\* A statement of its own, which may fail like any other.
DeleteTools(r) ==
    /\ change[r].at = "delete"
    /\ \/ /\ tools' = Cleared(change[r].listing)
          /\ Moves(r, IF change[r].listing = {} THEN "update" ELSE "insert")
       \/ UNCHANGED tools /\ Moves(r, "fail")
    /\ UNCHANGED <<server, revoked, WorldVars, CallVars>>

\* The table's key is <<server, name>> and its rows refer to the server's; where neither
\* stands in the way the insert may still fail (on a listing with a name twice, for one).
InsertTools(r) ==
    /\ change[r].at = "insert"
    /\ \/ /\ server.url # None /\ change[r].listing \cap tools = {}
          /\ tools' = tools \cup change[r].listing
          /\ Moves(r, "update")
       \/ UNCHANGED tools /\ Moves(r, "fail")
    /\ UNCHANGED <<server, revoked, WorldVars, CallVars>>

\* The time of the listing is kept with the row and the request answered, or that
\* statement fails; what failed is kept with the row.
EndRefresh(r) ==
    /\ \/ change[r].at \in {"update", "unanswered", "fail"} /\ Ends(r)
       \/ change[r].at = "update" /\ Moves(r, "fail")
    /\ UNCHANGED <<server, tools, revoked, WorldVars, CallVars>>

-----------------------------------------------------------------------------
(* What else administrators do: grants, the policy, the vault, and an      *)
(* agent's callback token (issued, revoked, or gone with the agent).       *)

WorldChanges == UNCHANGED <<server, tools, change, CallVars>>

Grant(n, b) == grants' = grants \cup {<<n, b>>} /\ UNCHANGED <<permits, revoked, token, issued>> /\ WorldChanges
RevokeGrant(n, b) == grants' = grants \ {<<n, b>>} /\ UNCHANGED <<permits, revoked, token, issued>> /\ WorldChanges
SetPolicy == permits' \in Policies /\ UNCHANGED <<grants, revoked, token, issued>> /\ WorldChanges
RevokeCredential(k) == revoked' = revoked \cup {k} /\ UNCHANGED <<WorldVars>> /\ WorldChanges

IssueToken(b) ==
    /\ issued < MaxTokens
    /\ issued' = issued + 1
    /\ token' = [token EXCEPT ![b] = issued + 1]
    /\ UNCHANGED <<grants, permits, revoked>> /\ WorldChanges

DropToken(b) == token' = [token EXCEPT ![b] = None] /\ UNCHANGED <<grants, permits, revoked, issued>> /\ WorldChanges

-----------------------------------------------------------------------------
(* A tool call: authoriseAgentCall where it comes from an agent's own      *)
(* process, then callTool.                                                 *)

Quiet == UNCHANGED <<server, tools, revoked, change, WorldVars>>
Steps(c, at) == call' = [call EXCEPT ![c].at = at]
Returns(c) == call' = [call EXCEPT ![c] = [@ EXCEPT !.at = "done", !.shows = None, !.row = NoServer,
                                                    !.forward = FALSE, !.secret = None]]

\* From a run or a page of ours, or over the callback route with a run assertion that verifies.
CallArrives(c) ==
    /\ call[c].at = "idle"
    /\ \/ Steps(c, "decide")
       \/ \E t \in 1 .. issued :
            call' = [call EXCEPT ![c] = [@ EXCEPT !.at = "lookup", !.shows = t]]
    /\ UNCHANGED trail /\ Quiet

\* The token is the one in force of the Bot the assertion names.
CallerIs(t, b) == token[b] = t

Authorise(c) ==
    /\ call[c].at = "lookup"
    /\ IF CallerIs(call[c].shows, call[c].bot) THEN Steps(c, "decide") ELSE Returns(c)
    /\ UNCHANGED trail /\ Quiet

\* decide: a missing row is a refusal.
Granted(n, b) == <<n, b>> \in grants

Decide(c) ==
    /\ call[c].at = "decide"
    /\ Steps(c, IF Granted(call[c].name, call[c].bot) THEN "find" ELSE "reject")
    /\ UNCHANGED trail /\ Quiet

FindServer(c) ==
    /\ call[c].at = "find"
    /\ IF server.url = None THEN Returns(c)
       ELSE call' = [call EXCEPT ![c] = [@ EXCEPT !.at = "judge", !.row = server]]
    /\ UNCHANGED trail /\ Quiet

\* classifyTool: a read is a tool the server listed and the catalogue does not list as a write.
Effect(n) == IF n \in ReadNames \cap tools THEN "read" ELSE "write"

\* The tool's row is read, and the policy in force judges the call at once.
Judge(c) ==
    /\ call[c].at = "judge"
    /\ call' = [call EXCEPT ![c] = [@ EXCEPT !.at = "record", !.forward = Effect(call[c].name) \in permits]]
    /\ UNCHANGED trail /\ Quiet

\* Whether a call goes on once its row is written.
LetThrough(q) == q.at = "record" /\ q.forward

\* The audit row; a call whose row cannot be written throws and goes no further.
Record(c) ==
    /\ call[c].at \in {"reject", "record"}
    /\ \/ /\ trail' = [trail EXCEPT ![c] = IF LetThrough(call[c]) THEN "succeeded" ELSE "rejected"]
          /\ IF LetThrough(call[c]) THEN Steps(c, "token") ELSE Returns(c)
       \/ UNCHANGED trail /\ Returns(c)
    /\ Quiet

TokenForCall(c) ==
    /\ call[c].at = "token"
    /\ IF Usable(call[c])
       THEN call' = [call EXCEPT ![c] = [@ EXCEPT !.at = "remote", !.secret = Pointer(call[c])]]
       ELSE Returns(c)
    /\ UNCHANGED trail /\ Quiet

\* The vendor answers, or does not.
VendorAnswers(c) == call[c].at = "remote" /\ Returns(c) /\ UNCHANGED trail /\ Quiet

-----------------------------------------------------------------------------

\* The call has read the server's row, which names its credential.
HasRow(q) == q.at \in {"judge", "record", "token", "remote"}

\* The gates a call would pass now.
Open(c) ==
    LET q == call[c] IN
    {g \in {"granted", "permitted", "its token", "its credential"} :
        CASE g = "granted"        -> <<q.name, q.bot>> \in grants
          [] g = "permitted"      -> Effect(q.name) \in permits
          [] g = "its token"      -> q.shows \in {None, token[q.bot]}
          [] g = "its credential" -> HasRow(q) /\ q.row.credential \notin revoked}

\* History: the gates that have been open since a call began.
Remember == since' = [c \in Calls |-> IF call'[c].at \in {"idle", "done"} THEN {} ELSE since[c] \cup Open(c)']

ChangeAsked == \E r \in Changes, at \in {"upsert", "find", "remove"} : Asks(r, at)
ChangeGoes == \E r \in Changes :
    \/ AddServer(r) \/ RecordAdd(r) \/ RemoveServer(r) \/ FindForRefresh(r) \/ TokenForRefresh(r)
    \/ ListTools(r) \/ DeleteTools(r) \/ InsertTools(r) \/ EndRefresh(r) \/ CutOff(r)
WorldMoves ==
    \/ \E n \in Names, b \in Bots : Grant(n, b) \/ RevokeGrant(n, b)
    \/ SetPolicy
    \/ \E k \in Keyed : RevokeCredential(k)
    \/ \E b \in Bots : IssueToken(b) \/ DropToken(b)
CallGoes == \E c \in Calls :
    \/ CallArrives(c) \/ Authorise(c) \/ Decide(c) \/ FindServer(c) \/ Judge(c)
    \/ Record(c) \/ TokenForCall(c) \/ VendorAnswers(c)

ToolsNext == (ChangeAsked \/ ChangeGoes \/ WorldMoves \/ CallGoes) /\ Remember
ToolsSpec == ToolsInit /\ [][ToolsNext]_toolVars

-----------------------------------------------------------------------------

(* Types.                                                                  *)
ToolsTypeOK ==
    /\ server \in Row
    /\ tools \subseteq Names /\ grants \subseteq Names \X Bots
    /\ permits \in Policies /\ revoked \subseteq Changes
    /\ token \in [Bots -> 0 .. MaxTokens] /\ issued \in 0 .. MaxTokens
    /\ change \in [Changes -> Change]
    /\ call \in [Calls -> Call]
    /\ trail \in [Calls -> {"none", "rejected", "succeeded"}]
    /\ since \in [Calls -> SUBSET {"granted", "permitted", "its token", "its credential"}]

(* Whatever administrators change meanwhile, a call that reaches the       *)
(* vendor found every gate open at some moment after it began, and its     *)
(* row says it was let through; a call whose row says it was rejected      *)
(* never gets there (callTool, authoriseAgentCall).  Its credential was    *)
(* good at some moment after the call read which one it is: one revoked    *)
(* before stays refused, tokenFor asking after every other gate.           *)
Governed ==
    \A c \in Calls :
        call[c].at = "remote" =>
            /\ since[c] = {"granted", "permitted", "its token", "its credential"}
            /\ trail[c] = "succeeded"

(* A credential is sent only to the url it was added with, though the      *)
(* server may be added again, or removed, between any two steps of a call  *)
(* or a refresh (requireServer, tokenFor).                                 *)
SecretsGoHome ==
    /\ \A c \in Calls : call[c].at = "remote" => call[c].secret \in {None, call[c].row.url}
    /\ \A r \in Changes : change[r].at = "list" => change[r].secret \in {None, change[r].row.url}

(* A refresh that met no other request about the server never merges: the  *)
(* tools become the listing; where the credential is revoked or the vendor *)
(* does not answer they are those held before; and whichever of its        *)
(* statements fails they are all of those, all of the listing, or none     *)
(* (refreshTools).                                                         *)
RefreshAloneIsWholesale ==
    \A r \in Changes :
        LET q == change[r] IN
        q.alone =>
            /\ q.at = "update" => tools = q.listing
            /\ q.at = "unanswered" => tools = q.held
            /\ q.at = "fail" => tools \in {q.held, q.listing, {}}
=============================================================================
