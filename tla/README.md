# Verification of tinybot

tinybot is a chat workspace whose Bots drive a real browser. A message goes from the web app
(`app/`) to the API server (`server/`), which runs the Bot's agent and relays what it says as a
stream of events. When the agent uses its computer, the server's gateway asks the action policy,
writes an audit row, and calls the Bot's computer (`agent-computer/`), a process around Chromium
that a supervisor (`supervisor/`) keeps in a container of its own. A person watching may take the
wheel at any time, give a secret the Bot never sees, and hand back. Who may be talked to, with
which tools, skills, components and keys, is rows in one Postgres.

Most of what can go wrong here goes wrong *between* two awaits. Every process is single threaded
JavaScript, so one synchronous stretch is atomic and the modules are cut exactly at the `await`s: a
request that is parked has a program counter naming the await, everything it read before stays as
it was, and anything else may run meanwhile. A query of Postgres is a step of its own unless the
code opens a transaction.

    tlc -workers 2 -config Governance_rules.cfg MC_Governance   # model-check one run
    tlapm Gateway_proofs.tla                                    # check the proofs of one module

`PROJECT.json` lists the runs, a mutation of the code for every property that is checked, the source
lines that every definition stands for, the hazards with the properties that cover them, and the
theorems.

## 1. Inventory

For each component: the state it keeps, its operations, what is hard, and what makes it correct.

| component | state | operations | what is hard | correct when |
|---|---|---|---|---|
| **Wheel** `agent-computer/src/control.ts` | holder, since, requested, reason, the secret waited for | requestHelp, requestSecret, secretSupplied, take, release, the two checks | synchronous itself, but checked before awaits and changed during them | nobody acts under the other's tenure; a secret request closes |
| **Computer handlers** `agent-computer/src/index.ts` | a session per Bot: wheel, snapshot generation, viewer | navigate, snapshot, click, type, key, scroll, the person's input, secret, stop, reset | every handler awaits page, element and body; documents change by themselves | a ref names what the Bot saw; calls admitted under a driver act under that driver |
| **Profiles** `agent-computer/src/profiles.ts` | `live` and `starting` maps, the profile directory | page, stop, reset, closeAll, signals | launches and closes take seconds; browsers die | one browser per directory, none orphaned, no directory deleted under a browser |
| **Live screen** `screencast.ts`, `/stream`, `app` LiveScreen | a viewer per session, a follow timer, a cast per page | open, attach, follow, close | attaches overlap; two sockets share one viewer slot | one cast sends at a time, and it is of the page the Bot is on |
| **Asking a person** `app/.../computer-tools.tsx`, ComputerView | a tool call held open, a poll, the person's view | request help, request a secret, take, hand back, submit | three parties poll one wheel and answers cross | a Bot is told what happened, once its own request was closed |
| **Supervisor** `supervisor/src/docker.ts` | none: Docker's containers and volumes | ensure, stop, reset, list | several requests for one Bot; a daemon that answers 304, 404, 409 | one container per Bot, a reset Bot starts clean, only owned things are touched |
| **Action policy** `server/src/computer/policy.ts` | none | evaluateActionPolicy | rules that throw | deny beats allow; a broken rule opens nothing |
| **Policy store** `policy-store.ts`, `PUT /policy` | memory copy, one row | get, set, reset, load | memory changes after the await | what is enforced is what a restart would enforce |
| **Gateway** `gateway.ts`, `client.ts` | last snapshot per computer, the audit trail | snapshot, govern for each tool, handovers, stop, reset | insert and call may fail, replies come late or never | nothing acts unrecorded; the trail tells what happened; the policy judges what is touched |
| **Stall guard** `stall-guard.ts`, `turn-watchdog.ts` | the guard's map, the watchdog's map, one timer | watch, pump, sweep, giveUp, release, stop | pump and sweep race to end a stream; slow readers | a silent turn ends, once; time given to a reader is not the Bot's |
| **Shipped Bots** `agent-bot`, `agent-langgraph`, `examples` | one run | runAgent | a graph that answers several times; failures after tool calls were sent | events nest, every call is told and answered |
| **Composer queue** `composer/queue.ts`, `conversation-view.tsx`, `composer.tsx` | queue, a turn's counters, the send lock, what was drawn | submit, settle, remove, start, drain, say | handlers read the last commit, effects run after it | typed order kept, nothing lost, doubled or sent over an answer |
| **Channel thread** `channel-chat.tsx`, `repair-history.ts`, `transcript-messages.ts` | the messages, pending deliveries, the join | seed, join, deliver, say, repair, stop | a join that empties or restores beside a first message | the first message is shown and sent; each call has one result |
| **Channels** `server/src/channels/`, `app/src/lib/channels` | channel rows, last message, NOTIFY, cached rosters | create, list, recordActivity, socket fan-out | one listener, sockets that drop, refetches that replace patches | rosters come to show the row |
| **Agents** `server/src/agents/` | profiles, keys, callback tokens, links | create, duplicate, update, hide, soft delete, issue, revoke | row locks in different orders, a second connection inside a transaction | nothing changes a deleted agent; channels link live ones |
| **Coworkers of a run** `runtime-agents.ts`, `copilot.ts` | none | one request's reads | seven queries of one world that changes | a coworker is run as it was at some moment of the request |
| **Plugins** `server/src/plugins/store.ts` | servers, tools, grants, credentials | add, remove, refreshTools, grant, revoke, callTool | no transactions | a tool call passes every gate; a credential goes home |
| **Skills** `plugins/routes.ts`, `store.ts` | skills and grants of them | install, uninstall, enable | ownership is asked in one query and used in another | only what its owner may write reaches a Bot |
| **Components** `server/src/components/` | a governance row, a source row, withholdings | save, publish, remove, decide, data call | two rows, no transaction | what is drawn is what was published |
| **Sign-in, Sprites** `auth/tinyfish`, `sprites` | sessions, a row per user, machines of a service | signIn, ensure | another service's failures; sign-ins that overlap | a user is given a whole Sprite of their own |
| **Credentials, connectors** `credentials.ts`, `connectors.ts` | credential rows, connector rows | create, rotate, revoke, set up Google Drive | statements without transactions | a key stays readable while it is replaced |
| **Audit** `audit.ts` | rows | insert, list | an insert that fails | see Gateway, Plugins |
| **Tenant package** `tenant-package.ts` | the package's row, its agents and channel | synchronize at boot | several servers booting, other tenants, people's rows | one version, whole; nobody's own agent taken over |
| **Inference, TinyFish backends** | none | one completion, one forwarded request | another service's failures | out of scope (section 8) |
| **Wiring, boot** `index.ts`, `app.ts` | wiring | boot, serve | boot order | the policy is loaded before anything is served |
| **Web app** `app/` | React state | rendering, routing, queries | the parts above | the parts above |

How they interact: the composer starts turns of a channel; a turn adds a message to the thread and is
a run; the runtime loads the coworkers the person may run, and relays the Bot's events through the
stall guard; a run's tool calls go through the gateway, which reads the policy store's memory copy
synchronously, inserts into the audit table, and calls the computer over HTTP, or through the
plugin store to a vendor; the computer asks the wheel and the profiles; the server asks the
supervisor where a computer is. What was last said is written to a row, announced by Postgres,
and fanned out to sockets. Between the parts lie only HTTP, one Postgres, and the browser's event loop.

## 2. Modules

| module | models | composed of |
|---|---|---|
| `Control` | every operation of `createControl`, as an operator from one wheel to the next | |
| `AgentComputer` | the handlers of `index.ts` around the wheel, one pc per await | extends `Control` |
| `Profiles` | `page`, `stop`, `reset`, `closeAll` and the signals for one Bot | |
| `LiveScreen` | the `/stream` socket, its viewer, timer and casts, and the browser's socket | |
| `Asking` | two kinds of tool call that ask, ComputerView's poll, and its person | extends `Control` |
| `ActionPolicy` | `matches`, `evaluateActionPolicy`, and what "tighter" and "broken" mean | |
| `PolicyStore` | memory, the row, and every administrator's call around the database | extends `ActionPolicy` |
| `Gateway` | snapshot, resolve, govern, rows, handovers, lost replies, restarts | extends `ActionPolicy` |
| `WatchedTurn` | *abstract*: what a watch on a Bot's stream promises | |
| `StallGuard` | the two maps, the clocks, the pumps and the sweep | implements `WatchedTurn` |
| `BotRun` | one run of a shipped Bot, as the events it sends | |
| `ComposerQueue` | reducer, queue, send lock, turns, commits and effects | |
| `ChannelThread` | the messages of one mounted channel: seed, join, repair, runs, results | |
| `ChannelActivity` | the last message: row, NOTIFY, listener, sockets, cached roster | |
| `Supervisor` | `ensure`, `stop`, `reset` over a Docker daemon | |
| `SignIn` | sign-ins, the Sprite's name, its services and the row | |
| `AgentStore` | transactions about agents and channels: statements, row locks, the pool | |
| `TenantPackage` | the boots of servers that synchronize a package, as transactions | |
| `CredentialVault` | requests about stored keys and the Google Drive connector, one statement at a time | |
| `PluginTools` | one MCP server under its administrators, and `callTool` | |
| `Skills` | the requests about skills and grants of them, one query at a time | |
| `Components` | two rows of a component, the routes that write them, and a Bot that draws it | |
| `RuntimeAgents` | one request of the chat runtime, up to the map of coworkers it is given | |
| `MC_*` | constants, history variables and compositions for TLC | the modules above |
| `AgentComputer_proofs` | lemmas and theorems about `AgentComputer` and its histories in `MC_Governance` | `MC_Governance` |
| `Gateway_proofs` | the same about `Gateway`, `ActionPolicy`, `PolicyStore` | `MC_Governance` |
| `Machines_proofs` | `Supervisor`, `Profiles`, `SignIn` | `MC_Machines` |
| `Rows_proofs` | `AgentStore`, `TenantPackage`, `CredentialVault` | `MC_Rows` |
| `Plugins_proofs` | `PluginTools`, `Skills`, `Components`, `RuntimeAgents` | `MC_Plugins` |
| `Conversation_proofs` | `StallGuard`, `ComposerQueue`, `BotRun`, `LiveScreen`, the types of `ChannelActivity` | `MC_Conversation` |
| `Surface_proofs` | `Asking`, `ChannelThread` | `MC_Surface` |
| `Sequence_lemmas` | induction over a set of numbers, greatest numbers, folds, concatenation, flattening | |

**AgentComputer.** A slot of `req` is one request in flight. `Start*` is the handler up to its first
await, with the check the code makes there (`assertBotMayAct`, `humanMayDrive`, the pending secret);
the following actions are the stretches between later awaits, in the order of the code. `Fails` is
any await that rejects. `snapshotId` is the session's generation, `capture` what Playwright's
aria-ref engine resolves against (external), and a listing the pair a Bot holds: the generation
printed on its snapshot and the capture it really lists. Those two differ when `snapshotPage` is
interleaved, which is the point. `since` counts tenures. `/human/click`, `/human/type` and the
socket's input are one action: they differ in what reaches the page.

**Profiles.** `live` and `starting` are the maps at one Bot. The synchronous stretches of `page` are
`Page*`; `closeOld`, `launch`, `close` and `settle` are awaits. A browser is launching, up, broken
(lost its page, still running), dead, flushing or closed. A launch fails before there is a process
(`LaunchFails`) or after it, when no first page can be opened: then the browser runs on and neither
map names it (`LaunchStrays`). A close only asks: what still runs is flushing until it has written
out (`AfterClose`, `WritesOut`), which `stop` and `reset` wait for and the half-dead path of `page`
does not. `leftBehind` is history: the browsers `page` itself went on without. Browsers are
numbered as they are started.

**LiveScreen.** A connection is opened once. The server's `open` stops the viewer, attaches and
starts a timer; every tick is an attach of its own, since no tick waits for the one before.
`Attaching` is an attach after each of its awaits. A cast that has not been stopped sends frames to
the socket it was started for.

**Asking.** `asking` is every tool call held open, with what its last poll read; `screen` is what the
person is looking at. Reads travel: what a poll heard may be old by the time it is used. `Others` are
the other people and the stop that move the same wheel. `closed` and `entered` are histories that
say what really happened to a call's request.

**PolicyStore.** `Send` is the call up to the await on the database, `Writes` the statement,
`Applies` the assignment after it, `Refused` the 503. `Restart` drops the calls and loads the row;
a statement already sent may still land. `overtaken` and `astray` are history: whose row another
statement has replaced, and that memory need not be the record until a reply comes in order again. A CEL rule is what it evaluates to in each context: true,
something else, or an exception, which is all that `matches` distinguishes.

**Gateway.** `Govern` is everything up to the audit insert: the ref is resolved from the cached
snapshot, the policy asked, the decision fixed. `Lands` is the computer acting; it compares
generations as `AgentComputer` does. `Crash` is a restart of the server: what is on the wire may
still land. A computer that is stopped, reset or dies is followed by one that counts from 0
(`NewComputer`), while the server keeps the snapshot it has and is told nothing. A caller may name
any generation; `held` is history, the generations that the present computer gave this server. The per-tool methods differ in the context that they build.

**StallGuard.** The pump's two waits are `reading` and `writing`. A clock is an age that stops
counting at `StallMs`. `Sweep` is one timer turn: `watchdog.sweep` and `giveUp` of everything due,
up to the audit insert, and disarming. The mapping to `WatchedTurn` reads a released stream as
ended, and a paused clock as no silence at all.

**BotRun.** Two harnesses: `once`, where the model answers and its calls are sent for the surface to
make, and `graph`, where the deployment's calls are made by a node of their own and the model answers
again, up to the recursion limit. The model may say and call anything, name its calls or not, or break.

**ComposerQueue.** `shown` is what the last commit was drawn from; a handler reads it, `Draw` is a
commit, `Drain` the effect of the last one. A turn is joining, in a run, or in the gap while the
browser answers a tool call. `said` records, in order, the messages whose turn was started.

**ChannelThread.** A turn is a message said by the compose screen, the composer or a button in a
component. It waits for the runtime agent, adds its message, answers for the calls that were never
answered, and is then one run after another with a call answered in each gap. `thread` is what the
service was last given; the join may empty the agent, fill it, stall or fail.

**ChannelActivity.** A report writes the row under its lock and is announced on commit. A listener
or a socket that drops loses what it carried; the browser refetches on reconnecting, and a refetch
replaces what is cached whatever was patched meanwhile. A create is announced to nobody: this browser
refetches if it was the one that asked and hears the answer, and is `astray` if not.

**Supervisor.** One Bot's container (absent, created, running, exited; ours or a stranger's) and
profile volume (absent or present), which live in Docker, and the requests, which are all the
supervisor itself has. A stranger may take the name whenever it is free (`StrangerArrives`), between
an inspection and the call by name that follows it included. Each Docker call is an await and an action; 304, 404 and 409 are the
branches the code takes on them, `DockerFails` is every other answer. `settled` is what `ensure`
read before it waited for the health check. A restart of the supervisor is its requests failing.

**SignIn.** Each sign-in is past its credential and asks for its Sprite: read the row, find or make
the Sprite by name, start every service, save the row. Any call may fail before or after it took
effect, and the server may stop between two. The row keeps its url when a later save names only a
status, because the query builder leaves alone what is undefined. A name is the id's characters,
folded as the code folds them, with a hash that never meets another's (external).

**AgentStore.** A request is a transaction of statements on a connection of the pool. Its locks,
what it has read under them and what it has written are its own until it commits. The vault is
written on a second connection, and so at once. Postgres grants a lock when nobody holds a
conflicting one and ends one transaction of a cycle.

**TenantPackage.** A boot is one transaction of statements. A row that another boot has written cannot
be written until that one commits or rolls back; the package's row, which is upserted first, therefore
puts the boots of one tenant one after the other. Every statement may fail, and ends the server.
People link agents in their channels meanwhile, and own agents whose id a package may name.

**CredentialVault.** A request is the list of its statements (`Statements`), each of which commits by
itself; between any two another request runs, and any may be the last. `givenUp` and `met` are
history.

**PluginTools.** Every query of `callTool`, `decide` and the administrators' requests is a step.
`since` records, for each call, the gates that were open at some moment of its life; the gate of the
credential counts from when the call has read which one it is. A credential is named by the url it was
stored with, so that "goes home" can be said. Every statement of a refresh may fail, and the process
may die between any two (`CutOff`).

**Skills.** A route reads whose a skill is and writes in another query; `contested` names the slugs
about which two people's requests overlapped or were given up.

**Components.** The listing row and the source row are written apart, or alone; a draft names what
was written together. `apart` says that they were; `announced` that the listing came from somebody's
announcement of a build, which may be of any name; `openings` what each request could have read.

**RuntimeAgents.** The request reads profiles, tombstones, each key, the model's key and each
coworker's tools in turn. `worked` collects every state a coworker was in while the request was
served; the map it is given must be made of those.

**MC_Governance, MC_Machines, MC_Rows, MC_Plugins, MC_Conversation, MC_Surface** compose parts that share no
state. `moving` names the part that moves and never changes: each behaviour is one of one part, under
that part's own fairness, so that the run is as large as the sum of its parts and not their
product. A part that does not move has one initial state. Where parts do interact, the interaction is
inside one module: the gateway and the computer's generations in `Gateway`, the wheel under the
handlers in `AgentComputer` and under the askers in `Asking`, channels over agents in `AgentStore`,
tokens and grants under `callTool` in `PluginTools`.

## 3. Runs

States are distinct states; times are with two workers on one machine.

| passing run | parts and instance | states | time |
|---|---|---|---|
| `Governance_rules` | *store*: every policy with at most two rules that deny and one that allows over one context (104), 1 administrator. *Computer*: 2 requests, 2 changes of driver, 1 generation, 2 documents, 2 browsers (no calls to the gateway) | 680k | 150 s |
| `Gateway_calls` | *Gateway*: 2 calls, 1 handover, generations up to 2 of 2 computers, 1 restart, of all these 3 in one behaviour, inserts that fail. *Computer*: 2 requests, 1 change of driver, 2 generations, 2 documents. *Store*: 2 policies, 2 administrators, replies that are lost | 6.5M | 180 s |
| `Machines_shared` | *container*: 3 requests, 2 ports, strangers at any time. *Browser*: 2 calls, 1 signal, 3 browsers of which 1 breaks or never gets its page. *Sprite*: 2 sign-ins of one user, 2 products, 2 faults | 373k | 60 s |
| `Rows_shared` | *agents*: 3 requests about 2 agents, one of them there from the start, 2 connections. *Package*: 2 servers, 5 versions of 2 tenants with 2 agents and a channel. *Keys*: 2 requests, 2 names, 3 credentials | 819k | 185 s |
| `Plugins_given` | *tools*: 1 tool, 2 Bots, 2 policies, 1 call, 2 changes by administrators, 1 token. *Skills*: 1 slug, 3 people, 3 Bots, 2 requests. *Components*: 2 requests, 3 drafts. *Coworkers*: 2, of which 1 built in and 1 owned, 2 keys, 2 edits | 4.5M | 185 s |
| `Conversation_turns` | *queue*: 3 messages, 1 component turn. *Guard*: 2 streams, silence of 2 ticks. *Run*: 2 answers of 2 calls. *Roster*: 3 messages. *Screen*: 2 sockets, 2 pages, 2 attaches, 5 casts | 370k | 155 s |
| `Surface_person` | *asking*: 2 tool calls, 2 changes of driver. *Thread*: the first message, one more, 3 tool calls | 1.8M | 140 s |

What the properties say, and where the code could go wrong:

* `Governance_rules`: a tighter policy permits no more (`TighterPermitsNoMore`, policy.ts:204); what runs
  under the wrong driver was admitted before that tenure (`OnlyLateRequestsTrespass`, index.ts:817); once a
  person drives, the Bot's calls die out (`QuiescesForHuman`), and a secret on its way to a field closes its
  request (`AnsweredSecretCloses`, index.ts:536-550), together `TakenOverSettles`.
* `Gateway_calls`: nothing acts unrecorded (`NothingActsUnrecorded`, gateway.ts:193); a call let through
  and seen to its end reached the page or has a row saying it did not, and a handover's row is about one
  that happened (`TrailIsTrue`, gateway.ts:381, 681, client.ts:198); a lone call that names a generation the
  computer gave is judged on what it touches, although generations come again and the map of snapshots is
  kept (`DecidedOnWhatItTouchesAlone`, 111, 137); a lone Bot's checked ref is about the newest capture
  (`ListedStillNewestAlone`, index.ts:223-241); what is enforced is what a restart would enforce, while two
  administrators' calls cross, fail and are cut off, but while a reply is on its way, and but from a reply
  that is lost or comes behind another's statement to the next that comes in order (`MemoryIsTheRecord`,
  policy-store.ts:91).
* `Machines_shared`: what `ensure` and `reset` answer is so when nothing opposed ran beside them
  (`UndisturbedAnswersAreTrue`, docker.ts:300-387); one browser per profile until one breaks, nobody
  waiting for a launch that is over, and a lone reset deletes under no browser but one that `page` went
  on without (`OneBrowserPerProfile`, profiles.ts:137-212); a stranger's container is touched only by
  a request that goes by the name after another's reset took away the one of ours it had seen, or started by
  an ensure whose create the stranger forestalled (`StrangersAreSpared`, docker.ts:300-380);
  everyone is answered; whoever keeps signing
  in is given a Sprite with all its services, and a url is shown only of one (`SpritesAreServed`,
  provision.ts).
* `Rows_shared`: a deleted agent stays as it was (`TombstonesAreFinal`); a channel is committed over
  live agents only (`LinksAreLive`); every request ends, and only those that store a key
  inside a transaction can starve the pool (`EveryRequestEnds`, db/client.ts:5-10); a tenant's agents are
  one version's, all of it and no others, its channel likewise, and no agent of a person's is taken over
  (`PackagesAreWhole`, tenant-package.ts:386-534); under a name nobody gave up the newest key is always
  the one that is read, and setups of Google Drive that do not meet keep one row (`VaultIsKept`,
  credentials.ts:314-335, connectors.ts:76-118).
* `Plugins_given`: a call that reaches a vendor passed every gate within its own life, and a credential
  revoked before the call had read which one it is stays refused (`Governed`, store.ts:746-841); a
  credential is sent only to the url it was stored for (`SecretsGoHome`); a refresh that met no other
  leaves what was listed, what was held when the vendor did not answer, and one of these or nothing when a
  statement failed (`RefreshAloneIsWholesale`, store.ts:375-405); when people do
  not meet over a slug, a Bot is told only what its owner's side wrote (`SkillsStayWithTheirOwner`);
  a component is drawn as described, unless an announcement made its listing, and reads only what it was
  granted (`ComponentsAreGoverned`);
  a request runs each coworker as it was at some moment while it was served (`CoworkersAreAsTheyWere`).
* `Conversation_turns`: messages are said once and in the order typed (`OnceInTheOrderTyped`,
  conversation-view.tsx:179-192); never over an answer (`NothingOverAnAnswer`), and parked ones run
  (`ParkedRuns`), together `WaitsItsTurn`; a run's stream nests and tells every call (`RunIsTold`); the guard implements
  `WatchedTurn`, and a silent turn ends (`ImplementsWatchedTurn`, `SilentTurnEnds`); a person's input
  goes to a cast that still takes it, and a socket alone, with no attach that outlasts its second, has
  one cast, one timer and leaves none (`OneLiveCast`); the screen of a lone socket follows the Bot
  unless attaches go on failing (`FollowsTheBot`), together `ViewersAreServed`; a roster comes to show the row once socket and
  listener stay up, unless since it was last read an announcement was lost, a query failed, an
  event met a query that had already read, or the channel was created where this browser does not hear
  of it (`RosterSettles`).
* `Surface_person`: a Bot is told of an answer only after its own request was put and closed
  (`ToldOnlyAfterAnAnswer`); the person's view comes to show the wheel or has stopped asking
  (`ViewSettles`); every call of a run has one result, in its place (`CallsAnsweredOnce`,
  repair-history.ts) as long as turns do not overlap; the first message is shown and sent
  whatever the join does (`FirstMessageIsKept`).

Runs that end in a counterexample, each about a sentence of the repository (`findings`):

| run | property | the sentence | what happens |
|---|---|---|---|
| `Gateway_concurrent` | `DecidedOnWhatItTouches` | gateway.ts:11-12, the element it actually points at | a late snapshot reply overwrites a newer one |
| `Profiles_twolaunches` | `OneLaunch` | profiles.ts:137-138, one launch at a time | the half-dead path awaits a close before it announces its launch |
| `BotRun_surface` | `SurfaceIsAsked` | agent-langgraph/src/index.ts:390-392, the run finishes and the surface draws | the edge that ends the run skips the node whose end sends the calls |
| `Asking_truth` | `BotIsToldTheTruth` | computer-tools.tsx:446, "The person has entered …" | said whenever the wheel no longer wants a secret, whatever closed it |
| `SignIn_names` | `SpriteOfOnesOwn` | names.ts:23-25, two users never share a name | runs of underscores fold into one hyphen, without a hash |

**Bounds, and why they are enough.** Every race here is between two requests (or one request and the
person, the page, a signal or a restart), so two slots, callers, calls, sockets or streams show it,
and the third participant is an action that is always there. Two tenures are a take and a hand-back;
two generations of two computers, with snapshots that also travel, an older, a cached and a newer one,
and one that comes again; three browsers an old, a relaunched and a racing
one, and one break leaves the first of them half-dead or without a page; three requests two that race and one that disturbs them; three keys one that is replaced by two requests
at once; five versions one that adds, one that drops an agent, one that drops the channel, and another
tenant's with and without an agent of the same name; three messages one said, one waiting
and one being typed; two connections are what one transaction and its borrowed second one need, so two
of them starve. Two policies of two rules per list are all that `evaluateActionPolicy` can distinguish
beyond "first hit", which only names the rule. In `Plugins_given` the tool's name is of no account to
the gates, so one is enough; two changes are an addition and whatever meets it. `MaxCasts` is
larger than the casts that two overlapping attaches and two sockets can leave running. The bounds are
constants named `Max…`; `MaxEvents` bounds the gateway's calls, handovers, restarts and new computers
together, so that any three of them meet. Reaching one merely disables the action, never the answers to requests in
flight. `Supervisor`, `StallGuard` and `Skills` need none beyond their sets.

**Deadlock** is not looked for by TLC, because the system may stop: every message has been typed and answered, every call of a finite set made, the
process exited after a signal, every request served, every socket opened and closed. What must not stop is stated by the liveness
properties instead.

**Symmetry** is used on requests, calls and Bots, in runs without liveness only.

## 4. Fairness

Each is weak fairness of one action, of what the code itself bounds or repeats.

| module | assumed | because |
|---|---|---|
| `AgentComputer` | `Continue(s)` of each request | `ACTION_TIMEOUT_MS`, `NAVIGATION_TIMEOUT_MS`, Playwright's default; nothing is assumed of the person |
| `Profiles` | `Resume` of each call | a launch, a close and a settle end; signals are not assumed |
| `Supervisor` | `Continue(r)` | Docker answers or fails; the wait for health has a deadline |
| `StallGuard` | `Tick`, `Sweep`, the end or the error of a body that is over | the clock ticks and an armed interval fires; the Bot may be silent for ever and the reader never read |
| `ComposerQueue` | `Draw`, `Drain`, `TurnEnds` of each kind of turn | React commits and runs effects; a turn ends, were it by the stall guard (`SilentTurnEnds`) |
| `AgentStore` | `Continue(r)`: a statement that can run does, and Postgres ends a cycle of waiters | locks are granted in turn; `deadlock_timeout` |
| `ChannelActivity` | statements run, listener and browser reconnect, queries are answered or fail | retry timers of events.ts and of the socket hook |
| `LiveScreen` | attaches go on, the timer fires, a closed socket is heard of | one second's interval; the session to Chrome answers or fails |
| `Asking` | the polls only | an interval; people may never answer |
| `ChannelThread` | the backstop timer, the first message's effect and its late delivery | timers of channel-chat.tsx |
| `SignIn` | `Provisions(r)` | requests to the Sprites API and Postgres end; the code sets no deadline of its own, so this is an assumption about both |

`PolicyStore`, `Gateway`, `BotRun`, `TenantPackage`, `CredentialVault`, `PluginTools`, `Skills`, `Components` and `RuntimeAgents` have
safety properties only.

## 5. Proofs

TLAPS proves these for every value of the constants. The assumptions are the named `ASSUME`s of
the modules (types of constants, disjointness, bounds above zero), which TLC evaluates in the runs. Every state
invariant that a passing run checks is stated by a theorem; where the property speaks of histories that
an `MC_*` module adds, or of the types of several parts, the theorem is about that module's `MCSpec`.

| theorem | says |
|---|---|
| `AgentComputer_proofs!TypeCorrect` | types |
| `!TrespassOnlyByLateRequests` | a request in flight under the wrong driver was admitted before this tenure |
| `!NewestAlone` | while a Bot's requests come one at a time, a checked ref names the newest capture |
| `Gateway_proofs!TypeCorrect`, `!StoreTypeCorrect` | types |
| `!RecordedBeforeActed`, `!TrailStaysTrue` | no action lands without the row that let it through; no row tells what did not happen |
| `!DecidedAlone` | while calls and snapshots come one at a time, the policy was asked about what is touched, whichever computer it is and however often generations come again |
| `!CacheIsRecord` | the cache is the record, however calls cross, fail and restart, but after a reply lost or out of order |
| `!TighterTheorem`, `!BrokenTheorem` | a tighter policy permits no more, a broken rule opens nothing, for lists of any length |
| `Machines_proofs!TypeCorrect`, `!MachinesTypeCorrect` | types |
| `!StrangersAreLeft`, `!AnswersStayTrue` | a stranger's container is touched only by a request from under which another's reset took ours, or started by an ensure it forestalled; what an undisturbed request answers is so |
| `!OneBrowserStays` | one browser per profile until one breaks, nobody pinned; a lone reset deletes under no browser that `page` did not leave |
| `!UrlsStayServed` | a url that was handed out leads to a whole Sprite (the safety half of `SpritesAreServed`) |
| `Rows_proofs!TypeCorrect`, `!RowsTypeCorrect` | types |
| `!TombstonesTheorem`, `!LinksTheorem`, `!EditsTheorem` | nothing changes a deleted agent; channels are committed over live agents; a key leaves a configuration only for the committing request's key |
| `!PackagesStayWhole`, `!VaultStaysKept` | a tenant has one version, whole; a name nobody gave up can always be read |
| `Plugins_proofs!TypeCorrect`, `!GivenTypeCorrect` | types |
| `!CallsAreGoverned`, `!SecretsStayHome`, `!RefreshesAreWholesale` | every gate passed; every credential at home; a lone refresh leaves what was listed or, failing, what was held or nothing |
| `!SkillsStay`, `!ComponentsStayGoverned`, `!CoworkersStayAsTheyWere` | the properties of `Skills`, `Components` and `RuntimeAgents` |
| `Conversation_proofs!TypeCorrect`, `!ConversationTypeCorrect` | types |
| `!MapsStayTogether`, `!Refinement` | the guard's two maps hold the same streams; it implements `WatchedTurn` (safety) |
| `!QueueKeepsOrder`, `!QueueKeepsQuiet` | said once and in the order typed; never over an answer (the safety half of `WaitsItsTurn`) |
| `!RunStaysTold`, `!OneCastLives` | a run's events can be read and tell every call; one cast, one timer (the safety half of `ViewersAreServed`) |
| `Surface_proofs!InductiveInvariant`, `!SurfaceTypeCorrect` | the whole invariant; types |
| `!ToldAfterAnAnswer` | told only after one's own request was put and closed |
| `!CallsAreAnswered` | every call in what a run is given has one result, in its place, for histories of any length |
| `!FirstStaysShown` | the first message stays on the screen (the safety half of `FirstMessageIsKept`) |

None of the theorems has a hypothesis of its own: what a property excepts is said in the property, by
a history variable of the module or of its `MC_*` module.

The inductive invariants, and why the properties are not inductive alone. Most add what a
request that waits at an await may rely on, whatever ran since it last looked.

*The computer*

* `AgentComputer_proofs!IInv` adds `StampedInThePast`: no request carries a tenure that has not
  begun. Without it a take could begin the very tenure that an old request is stamped with. One
  lemma per kind of step (`MovesOnSafe`, `NewTenureSafe`, `AdmitSafe`); every handler is one of them.
* `NewestInv` adds that generations were reached by counting (`GenerationsReached`) and, while
  the Bot has not been crowded, `Calm`: at most one request is the Bot's, every listing with the present
  generation lists the newest capture, and the one request is `InOrder` at its await.
* Supervisor: `StrangersInv` adds `LooksStillHold`: while a start, a stop or a removal is awaited from
  under which no reset took our container, what has the name is ours, unless a stranger forestalled the
  create, since nothing else takes ours away. `AnswersInv` says for each undisturbed
  request what its await relies on (`Undisturbed`), and that whoever opposed it marked it.
* `PagesInv` gives every call its browser (`HasItsBrowser`), says that while none has broken every browser is
  in exactly one place of the two maps or on its way out (`Unbroken`), and that calls which do not overlap are
  `OneAtATime`: whatever runs is then live, launching, being closed, or left behind. `SpritesInv` rests on the order of services: the gateway is created last, so whoever
  finds it finds all, and a sign-in past a service has seen to it (`SeenTo`).

*Governance*

* `Gateway_proofs!IInv` adds `PastItsRow`: a call that has got as far as the computer, orphans of a
  dead process included, was forwarded and has its row. `TrailInv` tells, call by call and pc by pc, what
  has landed and which rows are there (`CallTold`, `HandoverTold`).
* `AloneInv`: snapshots and what was held of them are of this life of the computer or an earlier one
  (`TakenBefore`), only what the Bot made lands (`OnlyTheMadeLand`), and, for calls that do not overlap, the
  cache is `InStep`: a reply under way is newer than all that is held, and what the present generation
  names, if it was given, is what the cache says and what a call that names it was judged by. A computer
  that is replaced empties `held`, so that a generation which comes again counts only once it is given anew.
* `StoreInv` adds `RowIsWritten`: a call past its statement that none has overtaken has its policy in
  the row, so that whichever of them is answered sets memory right.

*Rows*

* `Rows_proofs!IInv` is the types, `Sound` of every request (where it is and what it has
  written agree, what it found it still holds a lock on, what it links is live and held shared) and that locks
  are `Compatible` and requests `Apart`. The heart of it: what was read under a lock cannot
  change before the transaction commits, because whoever commits a change holds a lock that
  excludes the reader's.
* `PackInv` says what a boot has written between any two of its statements (`Placed`), and that boots
  that run at once are of different tenants and write different agents (`Disjoint`): the package's row,
  upserted first, keeps those of one tenant apart.
* `VaultInv` says that what a request is about to revoke is older than what it has stored, or was given
  up (`InOrder`), and that setups of Google Drive that have not met are one at a time (`OneSetup`).

*What Bots are given*

* Tools: `Plugins_proofs!IInv` adds `EveryRowIsHome` (the credential of the server's row was written with
  the url beside it, and so was that of every copy of the row a request has read) and
  `EveryGateIsPassed` (how far a call has come, the gates that have been open since it began, and its
  row). `RefreshInv` says at each await of a refresh that met no other what the listing holds.
* `SkillsInv` says what each visit may rely on of what it was `Told`, and that while a slug is not contested
  one person asks about it (`OneAsks`). `ComponentsInv` has one writer at a time unless pieces
  were written `apart`, what lies `Between` its two statements, and the gates each call passes.
  `RuntimeInv` says that what a request has read was so since it began, and is covered by the history (`HistoryCovers`,
  `ActiveRead`, `TombstonesRead`, `Registered`).

*The conversation*

* Guard: `IInv` adds `Untouched`: a stream nobody has opened has no clock, no pause and
  no verdict. The refinement maps `Watch`, `Chunk`, `Delivered`, the returns, `Sweep` and `Tick`
  to `Open`, `Hear`, `Deliver`, `Finish`, `GiveUp` and `Pass`; the pump of a stream the sweep has
  ended, and everything of the Bot and the reader, stutters.
* `QueueInv` adds to the order of what was said and waits that only what was typed was removed, and
  that a turn found on the screen at first is in its run, in fact and as last drawn (`RestoredRuns`): the
  handlers read what was drawn.
* `RunInv` is three invariants: the stream so far is readable and can go on from where the run is
  (`StreamInv`), the calls found in the model's answer are the ones remembered (`CallsInv`), and what was told
  has its result (`ToldInv`).
* `ScreenInv`: the viewer is a live cast, and, while neither sockets nor attaches have crossed, whatever goes
  on is of the one connected socket, and the cast and the timer there are are the viewer's (`Calm`).

*The surface*

* Asking: `IInv` adds `HasAsked` (a call that is anywhere has asked for something) and
  `StandsUntilClosed` (a request that landed and was not closed stands in the wheel, and in whatever
  its call has read). A poll that read "nothing is wanted" therefore read it after the request was closed.
* `ThreadInv`: every history is tidy, calls are numbered within those made, at most one turn runs,
  and what it works on is `Kept` but for the calls it owes; the thread is `Kept` once a turn started. The work is in
  `repairUnansweredToolCalls`, a fold of folds: each is turned into a function over its
  steps (`FoldExists`) and the step's invariant is carried by `SetInduction`.
* `FirstInv`: whatever holds any message holds the first one, until something else is said.

The provers cannot use the library's induction theorems, which take a predicate. `SetInduction`
states induction over a *set* of numbers, and is proved by counting (the first missing
number would let the successor map a finite set into less of itself). With it the facts of
`Sequence_lemmas` about folds and flattening are proved for sequences of any length, and so what
`repairUnansweredToolCalls` returns and what a run sends. `RECURSIVE` operators appear nowhere in the project.

Only model-checked is everything under fairness: `TakenOverSettles`, `EveryoneIsAnswered`, `EveryRequestEnds`, `SilentTurnEnds`,
`RosterSettles`, `ViewSettles`, and the liveness halves of `SpritesAreServed`, `WaitsItsTurn`, `ViewersAreServed` and
`FirstMessageIsKept`. These need `ENABLED` and temporal reasoning over data, which the installed provers do not do.
The findings are counterexamples, and have no theorem.

## 6. What is external

Playwright and Chromium (aria captures, launches, closes, casts), the Docker daemon, Postgres (a
statement takes effect, fails, or takes effect and loses its reply; locks; NOTIFY), React's
scheduling, CopilotKit (its join may empty, fill, stall or fail; a run works on a copy of the
messages) and the service that keeps the thread, the query library, the Sprites API, the vendors
behind MCP servers, the model behind a Bot, and whoever reads a stream. Each is modelled from
how the code uses it, with every answer it can give: success, failure, an answer that comes late,
and one that is lost.

## 7. Met on the way, without a run

Behaviours of the code, read while modelling, that a maintainer may want to look at. Those with a
run are the findings above; those a property excludes by name are marked (*).

**The computer**

* `snapshotPage` moves the generation on before its await and reads it again after (index.ts:223-226):
  two overlapping snapshots are labelled alike, and a ref of the older one passes the check of
  `locateRef`, which refuses "anything from a superseded snapshot" (index.ts:234). (*
  `ListedStillNewestAlone` asks for one request of the Bot at a time.)
* A call admitted before a take still acts during it (control.ts:6-8 says every acting call is
  refused; index.ts:817). (* `OnlyLateRequestsTrespass`.) Stop and reset release the wheel after a
  settle (625).
* `requestHelp` sets `requested` while a person already has the wheel, although it is documented as
  true when "no person has taken the wheel yet" (control.ts:22, 93-103).
* `secretSupplied` closes whatever request is open, a newer one that the Bot made during the fill
  included (control.ts:141-153, index.ts:540). A failed secret closes its request (index.ts:550);
  control.ts:143-144 and index.ts:538-539 say a failure leaves it open.
* `reset` removes the directory of whatever launches meanwhile (profiles.ts:204, 209-212); stop and
  `closeAll` do not see a launch in flight (193-195, 253-257). A launch whose `newPage` throws leaves
  its context running and in neither map (161-185), and the half-dead path starts a browser without
  letting the old one settle (153, unlike 69-76): a lone reset deletes under either. (*
  `OneBrowserPerProfile` excepts the browsers that `page` left behind).
* Live screen: with two sockets, the close of the old one stops the new viewer (the comment at
  index.ts:298 says otherwise). Ticks do not wait for the attach before, so two casts can start and the first is
  never stopped; a close during open leaves the interval running. (* `OneLiveCast`.)

**The supervisor**

* `ensure` starts, by name, a container that it has found not to be the supervisor's, and on a
  shared network answers its address (docker.ts:311, 335); stop and reset act by name on a container
  inspected an await before, and may reach a stranger's that took the name since (350-353, 370-375). The
  head of the file says such a container "is treated as absent" and "every write is scoped by
  ownership". (* `StrangersAreSpared` excepts the ensures that a stranger forestalled, and the requests
  whose container another's reset removed.)
* An `ensure` beside a `reset` can put the new container on the old profile: removing the volume
  answers 409, which is taken for success (docker.ts:385-387). A reset that fails between the
  container and the volume cannot be repeated: the next one finds no container (docker.ts:370).
* The error after the loop of `ensure` (docker.ts:343) is unreachable: the last attempt throws the
  general one first (317-321).

**Policy, gateway and trail**

* Two administrators' overlapping writes leave memory and row different (policy-store.ts:9 says the
  table is the record; 91). (* `MemoryIsTheRecord` excepts the time from a reply that came
  behind another's statement, or was lost, to the next that comes in order.)
* A `PUT /policy` whose reply is lost answers "nothing changed" about a row that did
  (routes.ts:361-364); the next restart enforces it. `MayLoseReplies` models it.
* The server's map of snapshots outlives the computer it was taken from (gateway.ts:97, 333-389), and the
  computer counts from 0 again (agent-computer/src/index.ts:122-130): until the next snapshot is answered, a
  call that remembers a generation of the old computer, or guesses one (`asRef`, routes.ts:480-486, takes any
  number), is judged by the old snapshot and may pass the check of the new computer. (*
  `DecidedOnWhatItTouches` asks for a generation that the computer of that time had given this server, and
  `DecidedOnWhatItTouchesAlone` that the computer did not die under a call.)
* A failure row may tell of an action that did happen (gateway.ts:681-682, client.ts:200-208). An
  error with an empty message makes the failure row read as an ordinary allowed one (683). The audit
  insert has no deadline (193).
* "The row is written whatever happens next" (gateway.ts:367-368) is not so when the computer's
  reply to a reset is lost.
* The audit list's cursor is a JavaScript time in milliseconds while Postgres keeps microseconds
  (audit.ts:308-318, 340), so a page can skip rows of one millisecond. The app's audit page never
  follows the cursor.

**Turns and messages**

* A reader that stops for good keeps its stream in both maps; the pump does not cancel the Bot's
  side when the reader has gone (stall-guard.ts:320).
* An idle submit with a queue waiting, "not supposed to be reachable" (queue.ts:86-89), is reachable
  between the commit that frees the composer and its effect; the reducer handles it, and
  `OnceInTheOrderTyped` depends on that it does.
* Between the drain's `setRunning` and its commit a second composer turn can start
  (conversation-view.tsx:89-113).
* A message typed in the first second and a half is sent before the seed, and hides it. A button
  pressed while a call executes makes the repair fabricate a result for that call
  (channel-chat.tsx:165-167, 374-380). (* `CallsAnsweredOnce` stops following once turns overlap.) A
  message delivered by the backstop and then emptied by the join stays off the screen once something
  else is said. A reload before the first run loses the first message (transcript-messages.ts:32-34).
* agent-langgraph never sends the calls that the surface owns (the finding); the comment at 540,
  "agent-bot has the same hazard and the same ordering", is not so. Calls without an id of one
  answer collide by name.
* "The person has entered …" (the finding); a Bot that gives up leaves its prompt standing
  (control.ts:176-179); ComputerView's poll has no catch, and one fetch that rejects ends it. (*
  `ScreenSettles`.)
* A roster goes astray when the listener drops, a query fails twice, or an event meets a refetch
  that already read (events.ts:9). A create is announced to nobody: another tab or device of the author's,
  or the same one when the answer is lost (mutations.ts:9-29 acts on success only), does not list the channel
  until something is said in it or the roster is read again. (* `RosterSettles`, for all of these.)

**Agents, plugins, skills, components**

* A create or update that stores a key borrows a second connection inside an open transaction
  (db/client.ts:5-10): as many of them as the pool has connections wait for ever. (*
  `EveryRequestEnds`.) Creating a channel locks in another order than the edits, so that Postgres ends one
  of two (a 500). The vault row commits by itself: a rollback leaves it; a replaced key is never
  revoked.
* Rotating a credential inserts, revokes and records without a transaction, and makes a row with another
  id: agents, MCP servers and connectors that name the old one by its id go on naming a revoked one, although
  db/schema/plugins.ts:61 says "the vault owns encryption, rotation and revocation". Two setups of Google
  Drive that meet make two rows, and the next setup updates either. (* `VaultIsKept`.)
* A refresh whose insert fails, as on a listing that names a tool twice, or that dies after its delete,
  leaves no tools, though store.ts:404-405 says "The tools already held are left alone"
  (`RefreshAloneIsWholesale` allows it); overlapping refreshes may leave the older listing. (*
  `RefreshAloneIsWholesale`.) A refusal of `requireServer` leaves no row; grants
  survive `removeServer`; "mcp.call_succeeded" is written before the call.
* Requests of two people that meet over a new skill's name, and a name that was given up and taken again,
  put words of one person's before another's Bots; tests/skill-ownership.integration.test.ts:13-19
  states the scoping. (* `contested`.)
* The publication route publishes the listing row alone of a component written in the browser
  (sandboxed.ts:235-238); the playground saves and publishes in two requests; a data call's row is
  written after it ran. (* `apart`.)
* Anybody signed in may announce a component of any name and kind, which is then listed as published
  (components/routes.ts:74-111, store.ts:118-148), before a component of that name is written in the browser or
  between the two statements of its first save, although sandboxed.ts:149-150 says that "no
  Bot can draw it yet". (* `announced`, until the component is removed
  or published with its source.)
* An agent deleted between two reads of a request may be neither among the coworkers nor among the
  tombstones. Any error while the actor is identified makes the request anonymous, and private coworkers
  vanish from it. One key that cannot be decrypted, or one failed query of tools, fails the request
  for every coworker.

**Sign-in, Sprites, boot**

* A later or failed provisioning overwrites the status with "error" while the url stays, and the
  proxy reads only the url. The save inside the catch can itself throw, out to the sign-in, though
  provision.ts:13 and service.ts:37-38 say a failure must not fail it. No request to the Sprites API has
  a deadline. Without the token a sign-in reports no Sprite while `/api/me` still shows the stored one.
  A session row is orphaned when `signIn` throws after making it.
* Renaming the package's tenant makes the boot fail with a message about "a user-created agent". A
  package agent that is no longer declared is deleted with its links, not tombstoned, so that channels of
  people's that linked only it cannot be read (channels/routes.ts:183-184). The upsert of a channel does
  not ask whose it was: another tenant's package takes it over (tenant-package.ts:486-495).
  (* `PackagesAreWhole` says what a tenant's channel is while it is that tenant's.)
* The stream proxy drops frames and inputs while its inward socket opens; SIGTERM waits only for the
  listener.

## 8. Not modelled, and the plan

Not modelled, for good:

* About half of the implementation is rendering: React components, styles, forms and routes without
  state beyond a field. Nothing of it is a property for TLC, and the map's share of the lines stays
  low for that reason.
* Pure text: `aria-snapshot.ts`, `egress.ts`, the path checks of `workspace.ts`, URL and slug checks,
  translation of messages to a provider's. What they return is used as a value.
* Request shaping without state: the inference gateway, the TinyFish backends, listings.
* `sync-persistence` of the connectors (nothing outside its tests calls it) and `worker`, which logs.
* Wiring, configuration and the reading of a package's files; that the policy is loaded before the server listens is an assumption of
  `PolicyStore`.

Abstractions to keep in mind: `Gateway` has the computer's generation check inlined rather than
`AgentComputer` itself; the server's proxy of the live screen is a socket; one Bot, one server, one
component, one channel stand for many because they share no row; who may see an agent is a
transaction that may be refused.

What could come next, in this order:

1. An abstract specification of a Bot's computer (who drives, what a ref names) that
   `AgentComputer` implements for a Bot that asks one thing at a time, with the refinement proved, and
   `Gateway` over it; another of a vault that always has a key to read.
2. What a roster shows may lag but never invents a message (`ChannelActivity` has its types proved only).
3. The server's proxy of the live screen, and the pages of the audit list.
