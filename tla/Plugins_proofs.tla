---------------------------- MODULE Plugins_proofs ----------------------------
(* Proofs about what Bots are given, for any number of tools, Bots,        *)
(* people, calls and changes: PluginTools, Skills, Components and          *)
(* RuntimeAgents.                                                          *)
EXTENDS MC_Plugins, TLAPS

-----------------------------------------------------------------------------
(* The tools of an MCP server: which gates a call has passed since it      *)
(* began.                                                                  *)

GateNames == {"granted", "permitted", "its token", "its credential"}

\* A credential, where there is one, was written with the url beside it.
Home(place) == place.credential \in {None, place.url}

EveryRowIsHome ==
    /\ Home(server)
    /\ \A c \in Calls : Home(call[c].row)
    /\ \A r \in Changes : Home(change[r].row)

\* How far a call has come, the gates it found open on its way and its row.
GatesPassed(q, gates, recorded) ==
    /\ q.at = "idle" => q.shows = None
    /\ q.at \in {"decide", "find", "judge", "record", "token", "remote"} => "its token" \in gates
    /\ q.at \in {"find", "judge", "record", "token", "remote"} => "granted" \in gates
    /\ q.at \in {"record", "token", "remote"} /\ q.forward => "permitted" \in gates
    /\ q.at \in {"token", "remote"} => q.forward /\ recorded = "succeeded"
    /\ q.at = "remote" => "its credential" \in gates

EveryGateIsPassed == \A c \in Calls : GatesPassed(call[c], since[c], trail[c])

IInv == ToolsTypeOK /\ EveryRowIsHome /\ EveryGateIsPassed /\ SecretsGoHome

Trail == {"none", "rejected", "succeeded"}

-----------------------------------------------------------------------------
(* Lemmas about the parts of a step.                                       *)

(* No row, no request: the values everything starts from.                  *)
LEMMA NothingTyped == NoServer \in Row /\ NewChange \in Change /\ Home(NoServer) /\ NewChange.row = NoServer
<1>1. NoServer \in Row /\ Home(NoServer)
  BY DEF NoServer, Row, Home
<1>2. NewChange \in Change /\ NewChange.row = NoServer
  BY <1>1 DEF NewChange, Change
<1> QED
  BY <1>1, <1>2

(* What a call has found open it has found open for good, and with it what *)
(* is open now.                                                            *)
LEMMA Remembered ==
  ASSUME ToolsTypeOK, Remember
  PROVE  /\ since' \in [Calls -> SUBSET GateNames]
         /\ \A c \in Calls : call'[c].at \notin {"idle", "done"} =>
                since[c] \subseteq since'[c] /\ Open(c)' \subseteq since'[c]
<1>1. \A c \in Calls : since[c] \in SUBSET GateNames /\ Open(c)' \in SUBSET GateNames
  BY DEF ToolsTypeOK, GateNames, Open
<1>2. since' = [c \in Calls |-> IF call'[c].at \in {"idle", "done"} THEN {} ELSE since[c] \cup Open(c)']
  BY DEF Remember
<1> QED
  BY <1>1, <1>2

(* A call that does not move passes no gate and loses none.                *)
LEMMA WaitingKeepsItsGates ==
  ASSUME IInv, Remember, NEW c \in Calls, call'[c] = call[c], trail'[c] = trail[c]
  PROVE  GatesPassed(call'[c], since'[c], trail'[c])
<1>1. GatesPassed(call[c], since[c], trail[c])
  BY DEF IInv, EveryGateIsPassed
<1>2. call[c].at \notin {"idle", "done"} => since[c] \subseteq since'[c]
  BY Remembered DEF IInv
<1> QED
  BY <1>1, <1>2 DEF GatesPassed

-----------------------------------------------------------------------------
(* The kinds of step.                                                      *)

(* The calls stand still while one request of the administrators moves.    *)
LEMMA ChangeKeeps ==
  ASSUME IInv, Remember, UNCHANGED <<call, trail, grants, permits, token, issued>>,
         server' \in Row, Home(server'),
         tools' \subseteq Names, revoked' \subseteq Changes,
         change' \in [Changes -> Change],
         \A r \in Changes :
             /\ Home(change'[r].row)
             /\ change'[r].at = "list" => change'[r].secret \in {None, change'[r].row.url}
  PROVE  IInv'
<1>1. ToolsTypeOK'
  BY Remembered DEF IInv, ToolsTypeOK, GateNames
<1>2. EveryRowIsHome'
  BY DEF IInv, EveryRowIsHome
<1>3. EveryGateIsPassed'
  BY WaitingKeepsItsGates DEF EveryGateIsPassed
<1>4. SecretsGoHome'
  BY DEF IInv, SecretsGoHome
<1> QED
  BY <1>1, <1>2, <1>3, <1>4 DEF IInv

(* One call moves.                                                         *)
LEMMA CallKeeps ==
  ASSUME IInv, Remember, Quiet, NEW c \in Calls, NEW next \in Call,
         call' = [call EXCEPT ![c] = next],
         trail' \in [Calls -> Trail], \A d \in Calls : d # c => trail'[d] = trail[d],
         Home(next.row),
         next.at = "remote" => next.secret \in {None, next.row.url},
         GatesPassed(next, since'[c], trail'[c])
  PROVE  IInv'
<1>1. call \in [Calls -> Call] /\ call' \in [Calls -> Call]
  BY DEF IInv, ToolsTypeOK
<1>2. call'[c] = next /\ \A d \in Calls : d # c => call'[d] = call[d]
  BY <1>1
<1>3. ToolsTypeOK'
  BY <1>1, Remembered DEF IInv, ToolsTypeOK, Quiet, WorldVars, GateNames, Trail
<1>4. EveryRowIsHome'
  BY <1>2 DEF IInv, EveryRowIsHome, Quiet
<1>5. EveryGateIsPassed'
  <2> SUFFICES ASSUME NEW d \in Calls PROVE GatesPassed(call'[d], since'[d], trail'[d])
    BY DEF EveryGateIsPassed
  <2>1. CASE d = c
    BY <2>1, <1>2
  <2>2. CASE d # c
    BY <2>2, <1>2, WaitingKeepsItsGates
  <2> QED
    BY <2>1, <2>2
<1>6. SecretsGoHome'
  BY <1>2 DEF IInv, SecretsGoHome, Quiet
<1> QED
  BY <1>3, <1>4, <1>5, <1>6 DEF IInv

-----------------------------------------------------------------------------
(* The administrators.                                                     *)

LEMMA AskedKeeps ==
  ASSUME IInv, Remember, NEW r \in Changes, NEW at \in {"upsert", "find", "remove"}, Asks(r, at)
  PROVE  IInv'
<1>1. change \in [Changes -> Change] /\ tools \subseteq Names
  BY DEF IInv, ToolsTypeOK
<1>2. ASSUME NEW s \in Changes
      PROVE  /\ change'[s] \in Change
             /\ Home(change'[s].row)
             /\ change'[s].at = "list" => change'[s].secret \in {None, change'[s].row.url}
  <2>1. CASE s = r
    <3> DEFINE asked == [NewChange EXCEPT !.at = at, !.held = tools, !.alone = ~\E t \in Changes : UnderWay(t)]
    <3>1. change'[s] = asked
      BY <2>1 DEF Asks
    <3>2. asked \in Change /\ asked.row = NoServer /\ asked.at = at
      BY <1>1, NothingTyped DEF NewChange, Change
    <3> QED
      BY <3>1, <3>2, NothingTyped
  <2>2. CASE s # r
    <3> DEFINE met == [change[s] EXCEPT !.alone = @ /\ ~UnderWay(s)]
    <3>1. change'[s] = met
      BY <2>2 DEF Asks
    <3>2. change[s] \in Change
      BY <1>1
    <3>3. met \in Change /\ met.row = change[s].row /\ met.at = change[s].at /\ met.secret = change[s].secret
      BY <3>2 DEF Change
    <3> QED
      BY <3>1, <3>3 DEF IInv, EveryRowIsHome, SecretsGoHome
  <2> QED
    BY <2>1, <2>2
<1>3. change' \in [Changes -> Change]
  BY <1>2 DEF Asks
<1>4. server \in Row /\ Home(server) /\ revoked \subseteq Changes
  BY DEF IInv, ToolsTypeOK, EveryRowIsHome
<1> QED
  BY <1>1, <1>2, <1>3, <1>4, ChangeKeeps DEF Asks, WorldVars, CallVars

(* One request's record moves on.                                          *)
LEMMA RequestKeeps ==
  ASSUME IInv, Remember, UNCHANGED <<revoked, WorldVars, CallVars>>,
         server' \in Row, Home(server'), tools' \subseteq Names,
         NEW r \in Changes, NEW next \in Change, change' = [change EXCEPT ![r] = next],
         Home(next.row),
         next.at = "list" => next.secret \in {None, next.row.url}
  PROVE  IInv'
<1>1. change \in [Changes -> Change] /\ revoked \subseteq Changes
  BY DEF IInv, ToolsTypeOK
<1>2. change' \in [Changes -> Change]
      /\ change'[r] = next /\ \A s \in Changes : s # r => change'[s] = change[s]
  BY <1>1
<1>3. \A s \in Changes :
          /\ Home(change'[s].row)
          /\ change'[s].at = "list" => change'[s].secret \in {None, change'[s].row.url}
  BY <1>2 DEF IInv, EveryRowIsHome, SecretsGoHome
<1> QED
  BY <1>1, <1>2, <1>3, ChangeKeeps DEF WorldVars, CallVars

(* A request moves to another await that sends no credential, or ends.     *)
LEMMA MovesOrEnds ==
  ASSUME IInv, Remember, UNCHANGED <<revoked, WorldVars, CallVars>>,
         server' \in Row, Home(server'), tools' \subseteq Names,
         NEW r \in Changes,
         NEW at \in {"audit", "find", "delete", "insert", "update", "unanswered", "fail"},
         Moves(r, at) \/ Ends(r)
  PROVE  IInv'
<1>1. change[r] \in Change /\ Home(change[r].row)
  BY DEF IInv, ToolsTypeOK, EveryRowIsHome
<1>2. CASE Moves(r, at)
  <2> DEFINE next == [change[r] EXCEPT !.at = at]
  <2>1. next \in Change /\ next.row = change[r].row /\ next.at = at
    BY <1>1 DEF Change
  <2>2. change' = [change EXCEPT ![r] = next]
    BY <1>2 DEF Moves
  <2> HIDE DEF next
  <2> QED
    BY <1>1, <2>1, <2>2, RequestKeeps
<1>3. CASE Ends(r)
  <2> DEFINE next == [NewChange EXCEPT !.at = "done"]
  <2>1. next \in Change /\ next.row = NoServer /\ next.at = "done"
    BY NothingTyped DEF Change, NewChange
  <2>2. change' = [change EXCEPT ![r] = next]
    BY <1>3 DEF Ends
  <2> HIDE DEF next
  <2> QED
    BY <2>1, <2>2, RequestKeeps, NothingTyped
<1> QED
  BY <1>2, <1>3

LEMMA ChangeStep ==
  ASSUME IInv, Remember, ChangeGoes
  PROVE  IInv'
<1>1. PICK r \in Changes :
          \/ AddServer(r) \/ RecordAdd(r) \/ RemoveServer(r) \/ FindForRefresh(r) \/ TokenForRefresh(r)
          \/ ListTools(r) \/ DeleteTools(r) \/ InsertTools(r) \/ EndRefresh(r) \/ CutOff(r)
  BY DEF ChangeGoes
<1>2. /\ server \in Row /\ Home(server) /\ tools \subseteq Names
      /\ change[r] \in Change /\ Home(change[r].row)
  BY DEF IInv, ToolsTypeOK, EveryRowIsHome
<1>3. CASE AddServer(r)
  <2>1. server' \in Row /\ Home(server')
    BY <1>3 DEF AddServer, Row, Home
  <2> QED
    BY <1>2, <1>3, <2>1, MovesOrEnds DEF AddServer
<1>4. CASE RecordAdd(r)
  BY <1>2, <1>4, MovesOrEnds DEF RecordAdd
<1>5. CASE RemoveServer(r)
  BY <1>2, <1>5, NothingTyped, MovesOrEnds DEF RemoveServer
<1>6. CASE FindForRefresh(r)
  <2>1. CASE server.url = None
    BY <1>2, <1>6, <2>1, MovesOrEnds DEF FindForRefresh
  <2>2. CASE server.url # None
    <3> DEFINE next == [change[r] EXCEPT !.at = "token", !.row = server]
    <3>1. next \in Change /\ next.row = server /\ next.at = "token"
      BY <1>2 DEF Change
    <3>2. change' = [change EXCEPT ![r] = next]
      BY <1>6, <2>2 DEF FindForRefresh
    <3> HIDE DEF next
    <3> QED
      BY <1>2, <1>6, <3>1, <3>2, RequestKeeps DEF FindForRefresh
  <2> QED
    BY <2>1, <2>2
<1>7. CASE TokenForRefresh(r)
  <2> DEFINE next == [change[r] EXCEPT !.at = IF Usable(change[r]) THEN "list" ELSE "unanswered",
                                       !.secret = Pointer(change[r])]
  <2>1. next \in Change /\ next.row = change[r].row /\ next.secret = change[r].row.credential
    BY <1>2 DEF Change, Row, Pointer
  <2>2. change' = [change EXCEPT ![r] = next]
    BY <1>7 DEF TokenForRefresh
  <2>3. next.secret \in {None, next.row.url}
    BY <1>2, <2>1 DEF Home
  <2> HIDE DEF next
  <2> QED
    BY <1>2, <1>7, <2>1, <2>2, <2>3, RequestKeeps DEF TokenForRefresh
<1>8. CASE ListTools(r)
  <2>1. CASE Moves(r, "unanswered")
    BY <1>2, <1>8, <2>1, MovesOrEnds DEF ListTools
  <2>2. CASE \E offered \in SUBSET Names :
               change' = [change EXCEPT ![r] = [@ EXCEPT !.at = "delete", !.listing = offered]]
    <3>1. PICK offered \in SUBSET Names :
               change' = [change EXCEPT ![r] = [@ EXCEPT !.at = "delete", !.listing = offered]]
      BY <2>2
    <3> DEFINE next == [change[r] EXCEPT !.at = "delete", !.listing = offered]
    <3>2. next \in Change /\ next.row = change[r].row /\ next.at = "delete"
      BY <1>2 DEF Change
    <3>3. change' = [change EXCEPT ![r] = next]
      BY <3>1
    <3> HIDE DEF next
    <3> QED
      BY <1>2, <1>8, <3>2, <3>3, RequestKeeps DEF ListTools
  <2> QED
    BY <1>8, <2>1, <2>2 DEF ListTools
<1>9. CASE DeleteTools(r)
  <2>1. tools' \subseteq Names /\ (Moves(r, "update") \/ Moves(r, "insert") \/ Moves(r, "fail"))
    BY <1>2, <1>9 DEF DeleteTools, Cleared
  <2> QED
    BY <1>2, <1>9, <2>1, MovesOrEnds DEF DeleteTools
<1>10. CASE InsertTools(r)
  <2>1. tools' \subseteq Names /\ (Moves(r, "update") \/ Moves(r, "fail"))
    BY <1>2, <1>10 DEF InsertTools, Change
  <2> QED
    BY <1>2, <1>10, <2>1, MovesOrEnds DEF InsertTools
<1>11. CASE EndRefresh(r)
  BY <1>2, <1>11, MovesOrEnds DEF EndRefresh
<1>12. CASE CutOff(r)
  BY <1>2, <1>12, MovesOrEnds DEF CutOff
<1> QED
  BY <1>1, <1>3, <1>4, <1>5, <1>6, <1>7, <1>8, <1>9, <1>10, <1>11, <1>12

(* Grants, the policy, the vault and the tokens move no call and no row.   *)
LEMMA WorldStep ==
  ASSUME IInv, Remember, WorldMoves
  PROVE  IInv'
<1>1. UNCHANGED <<server, tools, change, call, trail>>
  BY DEF WorldMoves, WorldChanges, CallVars, Grant, RevokeGrant, SetPolicy, RevokeCredential, IssueToken, DropToken
<1>2. /\ grants' \subseteq Names \X Bots /\ permits' \in Policies /\ revoked' \subseteq Changes
      /\ token' \in [Bots -> 0 .. MaxTokens] /\ issued' \in 0 .. MaxTokens
  <2>1. /\ grants \subseteq Names \X Bots /\ permits \in Policies /\ revoked \subseteq Changes
        /\ token \in [Bots -> 0 .. MaxTokens] /\ issued \in 0 .. MaxTokens
    BY DEF IInv, ToolsTypeOK
  <2>2. CASE \E n \in Names, b \in Bots : Grant(n, b) \/ RevokeGrant(n, b)
    BY <2>1, <2>2 DEF Grant, RevokeGrant
  <2>3. CASE SetPolicy
    BY <2>1, <2>3 DEF SetPolicy
  <2>4. CASE \E k \in Keyed : RevokeCredential(k)
    BY <2>1, <2>4, ToolsAssumption DEF RevokeCredential, WorldVars
  <2>5. CASE \E b \in Bots : IssueToken(b) \/ DropToken(b)
    BY <2>1, <2>5, ToolsAssumption DEF IssueToken, DropToken, None
  <2> QED
    BY <2>2, <2>3, <2>4, <2>5 DEF WorldMoves
<1>3. ToolsTypeOK'
  BY <1>1, <1>2, Remembered DEF IInv, ToolsTypeOK, GateNames
<1>4. EveryRowIsHome' /\ SecretsGoHome'
  BY <1>1 DEF IInv, EveryRowIsHome, SecretsGoHome
<1>5. EveryGateIsPassed'
  BY <1>1, WaitingKeepsItsGates DEF EveryGateIsPassed
<1> QED
  BY <1>3, <1>4, <1>5 DEF IInv

-----------------------------------------------------------------------------
(* A tool call.                                                            *)

LEMMA CallStep ==
  ASSUME IInv, Remember, CallGoes
  PROVE  IInv'
<1>1. PICK c \in Calls :
          \/ CallArrives(c) \/ Authorise(c) \/ Decide(c) \/ FindServer(c) \/ Judge(c)
          \/ Record(c) \/ TokenForCall(c) \/ VendorAnswers(c)
  BY DEF CallGoes
<1>2. /\ call \in [Calls -> Call] /\ call[c] \in Call /\ Home(call[c].row)
      /\ server \in Row /\ Home(server) /\ trail \in [Calls -> Trail]
      /\ issued \in 0 .. MaxTokens /\ None \in 0 .. MaxTokens
  <2>1. None \in 0 .. MaxTokens
    BY ToolsAssumption DEF None
  <2> QED
    BY <2>1 DEF IInv, ToolsTypeOK, EveryRowIsHome, Trail
<1>3. GatesPassed(call[c], since[c], trail[c])
  BY DEF IInv, EveryGateIsPassed
<1>4. call'[c].at \notin {"idle", "done"} =>
          /\ since[c] \subseteq since'[c]
          /\ call'[c].shows \in {None, token'[call'[c].bot]} => "its token" \in since'[c]
          /\ <<call'[c].name, call'[c].bot>> \in grants' => "granted" \in since'[c]
          /\ Effect(call[c].name)' \in permits' => "permitted" \in since'[c]
          /\ call'[c].at = "remote" /\ call'[c].row.credential \notin revoked' => "its credential" \in since'[c]
  <2> SUFFICES ASSUME call'[c].at \notin {"idle", "done"}
               PROVE  /\ since[c] \subseteq since'[c]
                      /\ call'[c].shows \in {None, token'[call'[c].bot]} => "its token" \in since'[c]
                      /\ <<call'[c].name, call'[c].bot>> \in grants' => "granted" \in since'[c]
                      /\ Effect(call[c].name)' \in permits' => "permitted" \in since'[c]
                      /\ call'[c].at = "remote" /\ call'[c].row.credential \notin revoked' =>
                            "its credential" \in since'[c]
    OBVIOUS
  <2>1. since[c] \subseteq since'[c] /\ Open(c)' \subseteq since'[c]
    BY Remembered DEF IInv
  <2>2. call'[c].shows \in {None, token'[call'[c].bot]} => "its token" \in Open(c)'
    BY DEF Open
  <2>3. <<call'[c].name, call'[c].bot>> \in grants' => "granted" \in Open(c)'
    BY DEF Open
  <2>4. Effect(call[c].name)' \in permits' => "permitted" \in Open(c)'
    BY DEF Open
  <2>5. call'[c].at = "remote" /\ call'[c].row.credential \notin revoked' => "its credential" \in Open(c)'
    BY DEF Open, HasRow
  <2> QED
    BY <2>1, <2>2, <2>3, <2>4, <2>5
<1>5. ASSUME Quiet, Returns(c), trail' \in [Calls -> Trail], \A d \in Calls : d # c => trail'[d] = trail[d]
      PROVE  IInv'
  <2> DEFINE next == [call[c] EXCEPT !.at = "done", !.shows = None, !.row = NoServer,
                                     !.forward = FALSE, !.secret = None]
  <2>1. next \in Call /\ next.at = "done" /\ next.row = NoServer
    BY <1>2, NothingTyped DEF Call
  <2>2. call' = [call EXCEPT ![c] = next]
    BY <1>5 DEF Returns
  <2> HIDE DEF next
  <2>3. GatesPassed(next, since'[c], trail'[c])
    BY <2>1 DEF GatesPassed
  <2> QED
    BY <1>5, <2>1, <2>2, <2>3, NothingTyped, CallKeeps
<1>6. ASSUME Quiet, UNCHANGED trail,
             NEW next \in Call, call' = [call EXCEPT ![c] = next],
             Home(next.row),
             next.at = "remote" => next.secret \in {None, next.row.url},
             GatesPassed(next, since'[c], trail[c])
      PROVE  IInv'
  BY <1>2, <1>6, CallKeeps
<1>7. ASSUME Quiet, trail' \in [Calls -> Trail], \A d \in Calls : d # c => trail'[d] = trail[d],
             NEW at \in {"decide", "reject", "find", "token"}, Steps(c, at),
             at \in {"decide", "find", "token"} => "its token" \in since'[c],
             at \in {"find", "token"} => "granted" \in since'[c],
             at = "token" => "permitted" \in since'[c] /\ call[c].forward /\ trail'[c] = "succeeded"
      PROVE  IInv'
  <2> DEFINE next == [call[c] EXCEPT !.at = at]
  <2>1. next \in Call /\ next.at = at /\ next.row = call[c].row /\ next.forward = call[c].forward
    BY <1>2 DEF Call
  <2>2. call' = [call EXCEPT ![c] = next]
    BY <1>7 DEF Steps
  <2> HIDE DEF next
  <2>3. GatesPassed(next, since'[c], trail'[c])
    BY <1>7, <2>1 DEF GatesPassed
  <2> QED
    BY <1>2, <1>7, <2>1, <2>2, <2>3, CallKeeps
<1>8. CASE CallArrives(c)
  <2>1. CASE Steps(c, "decide")
    <3>2. call[c].shows = None
      BY <1>3, <1>8 DEF CallArrives, GatesPassed
    <3>3. call'[c].at = "decide" /\ call'[c].shows = call[c].shows
      BY <1>2, <2>1 DEF Steps, Call
    <3>1. "its token" \in since'[c]
      BY <1>4, <3>2, <3>3
    <3> QED
      BY <1>2, <1>7, <1>8, <2>1, <3>1 DEF CallArrives
  <2>2. CASE \E t \in 1 .. issued : call' = [call EXCEPT ![c] = [@ EXCEPT !.at = "lookup", !.shows = t]]
    <3>1. PICK t \in 1 .. issued : call' = [call EXCEPT ![c] = [@ EXCEPT !.at = "lookup", !.shows = t]]
      BY <2>2
    <3> DEFINE next == [call[c] EXCEPT !.at = "lookup", !.shows = t]
    <3>2. t \in 0 .. MaxTokens
      BY <1>2, ToolsAssumption
    <3>3. next \in Call /\ next.at = "lookup" /\ next.row = call[c].row
      BY <1>2, <3>2 DEF Call
    <3>4. call' = [call EXCEPT ![c] = next]
      BY <3>1
    <3> HIDE DEF next
    <3>5. GatesPassed(next, since'[c], trail[c])
      BY <3>3 DEF GatesPassed
    <3> QED
      BY <1>2, <1>6, <1>8, <3>3, <3>4, <3>5 DEF CallArrives
  <2> QED
    BY <1>8, <2>1, <2>2 DEF CallArrives
<1>9. CASE Authorise(c)
  <2>1. CASE ~CallerIs(call[c].shows, call[c].bot)
    BY <1>2, <1>5, <1>9, <2>1 DEF Authorise
  <2>2. CASE CallerIs(call[c].shows, call[c].bot)
    <3>1. Steps(c, "decide") /\ token' = token
      BY <1>9, <2>2 DEF Authorise, Quiet, WorldVars
    <3>2. "its token" \in since'[c]
      <4>1. call'[c].at = "decide" /\ call'[c].shows = call[c].shows /\ call'[c].bot = call[c].bot
        BY <1>2, <3>1 DEF Steps, Call
      <4> QED
        BY <1>4, <2>2, <3>1, <4>1 DEF CallerIs
    <3> QED
      BY <1>2, <1>7, <1>9, <3>1, <3>2 DEF Authorise
  <2> QED
    BY <2>1, <2>2
<1>10. CASE Decide(c)
  <2>1. "its token" \in since[c]
    BY <1>3, <1>10 DEF Decide, GatesPassed
  <2>2. CASE Granted(call[c].name, call[c].bot)
    <3>1. Steps(c, "find") /\ grants' = grants
      BY <1>10, <2>2 DEF Decide, Quiet, WorldVars
    <3>2. {"its token", "granted"} \subseteq since'[c]
      <4>1. call'[c].at = "find" /\ call'[c].name = call[c].name /\ call'[c].bot = call[c].bot
        BY <1>2, <3>1 DEF Steps, Call
      <4> QED
        BY <1>4, <2>1, <2>2, <3>1, <4>1 DEF Granted
    <3> QED
      BY <1>2, <1>7, <1>10, <3>1, <3>2 DEF Decide
  <2>3. CASE ~Granted(call[c].name, call[c].bot)
    BY <1>2, <1>7, <1>10, <2>3 DEF Decide
  <2> QED
    BY <2>2, <2>3
<1>11. CASE FindServer(c)
  <2>1. CASE server.url = None
    BY <1>2, <1>5, <1>11, <2>1 DEF FindServer
  <2>2. CASE server.url # None
    <3> DEFINE next == [call[c] EXCEPT !.at = "judge", !.row = server]
    <3>1. next \in Call /\ next.at = "judge" /\ next.row = server
      BY <1>2 DEF Call
    <3>2. call' = [call EXCEPT ![c] = next] /\ call'[c] = next
      BY <1>2, <1>11, <2>2 DEF FindServer
    <3> HIDE DEF next
    <3>3. GatesPassed(next, since'[c], trail[c])
      BY <1>3, <1>4, <1>11, <3>1, <3>2 DEF FindServer, GatesPassed
    <3> QED
      BY <1>2, <1>6, <1>11, <3>1, <3>2, <3>3 DEF FindServer
  <2> QED
    BY <2>1, <2>2
<1>12. CASE Judge(c)
  <2> DEFINE goes == Effect(call[c].name) \in permits
             next == [call[c] EXCEPT !.at = "record", !.forward = goes]
  <2>2. call' = [call EXCEPT ![c] = next] /\ call'[c] = next
    BY <1>2, <1>12 DEF Judge
  <2>6. goes \in BOOLEAN
    OBVIOUS
  <2>7. goes => Effect(call[c].name) \in permits
    OBVIOUS
  <2> HIDE DEF goes
  <2>1. /\ next \in Call /\ next.at = "record" /\ next.row = call[c].row /\ next.name = call[c].name
        /\ next.forward = goes
    BY <1>2, <2>6 DEF Call
  <2>3. permits' = permits /\ tools' = tools
    BY <1>12 DEF Judge, Quiet, WorldVars
  <2> HIDE DEF next
  <2>4. next.forward => "permitted" \in since'[c]
    BY <1>4, <2>1, <2>2, <2>3, <2>7 DEF Effect
  <2>5. GatesPassed(next, since'[c], trail[c])
    BY <1>3, <1>4, <1>12, <2>1, <2>2, <2>4 DEF Judge, GatesPassed
  <2> QED
    BY <1>2, <1>6, <1>12, <2>1, <2>2, <2>5 DEF Judge
<1>13. CASE Record(c)
  <2>1. trail' \in [Calls -> Trail] /\ \A d \in Calls : d # c => trail'[d] = trail[d]
    BY <1>2, <1>13 DEF Record, Trail
  <2>2. CASE Returns(c)
    BY <1>5, <1>13, <2>1, <2>2 DEF Record
  <2>3. CASE Steps(c, "token") /\ LetThrough(call[c]) /\ trail'[c] = "succeeded"
    <3>1. call[c].at = "record" /\ call[c].forward
      BY <2>3 DEF LetThrough
    <3>2. {"its token", "granted", "permitted"} \subseteq since[c]
      BY <1>3, <3>1 DEF GatesPassed
    <3>3. {"its token", "granted", "permitted"} \subseteq since'[c]
      <4>1. call'[c].at = "token"
        BY <1>2, <2>3 DEF Steps, Call
      <4> QED
        BY <1>4, <3>2, <4>1
    <3>4. Quiet
      BY <1>13 DEF Record
    <3> QED
      BY <1>7, <2>1, <2>3, <3>1, <3>3, <3>4
  <2> QED
    BY <1>2, <1>13, <2>2, <2>3 DEF Record
<1>14. CASE TokenForCall(c)
  <2>1. CASE ~Usable(call[c])
    BY <1>2, <1>5, <1>14, <2>1 DEF TokenForCall
  <2>2. CASE Usable(call[c])
    <3> DEFINE next == [call[c] EXCEPT !.at = "remote", !.secret = Pointer(call[c])]
    <3>1. /\ next \in Call /\ next.at = "remote" /\ next.row = call[c].row
          /\ next.forward = call[c].forward /\ next.secret = call[c].row.credential
      BY <1>2 DEF Call, Row, Pointer
    <3>2. call' = [call EXCEPT ![c] = next] /\ call'[c] = next
      BY <1>2, <1>14, <2>2 DEF TokenForCall
    <3>3. revoked' = revoked
      BY <1>14 DEF TokenForCall, Quiet
    <3> HIDE DEF next
    <3>4. "its credential" \in since'[c]
      <4>1. call'[c].at = "remote" /\ call'[c].row.credential \notin revoked'
        BY <2>2, <3>1, <3>2, <3>3 DEF Usable, Pointer
      <4> QED
        BY <1>4, <4>1
    <3>5. GatesPassed(next, since'[c], trail[c])
      BY <1>3, <1>4, <1>14, <3>1, <3>2, <3>4 DEF TokenForCall, GatesPassed
    <3>6. next.secret \in {None, next.row.url}
      BY <1>2, <3>1 DEF Home
    <3> QED
      BY <1>2, <1>6, <1>14, <3>1, <3>2, <3>5, <3>6 DEF TokenForCall
  <2> QED
    BY <2>1, <2>2
<1>15. CASE VendorAnswers(c)
  BY <1>2, <1>5, <1>15 DEF VendorAnswers
<1> QED
  BY <1>1, <1>8, <1>9, <1>10, <1>11, <1>12, <1>13, <1>14, <1>15

-----------------------------------------------------------------------------

LEMMA InitIInv == ToolsInit => IInv
<1> SUFFICES ASSUME ToolsInit PROVE IInv
  OBVIOUS
<1>1. ASSUME NEW c \in Calls
      PROVE  call[c] \in Call /\ call[c].at = "idle" /\ call[c].shows = None /\ call[c].row = NoServer
  <2>1. PICK n \in Names, b \in Bots :
            call[c] = [at |-> "idle", name |-> n, bot |-> b, shows |-> None, row |-> NoServer,
                       forward |-> FALSE, secret |-> None]
    BY DEF ToolsInit
  <2>2. None \in 0 .. MaxTokens
    BY ToolsAssumption DEF None
  <2> QED
    BY <2>1, <2>2, NothingTyped DEF Call
<1>2. \A r \in Changes : change[r] = NewChange
  BY DEF ToolsInit
<1>3. ToolsTypeOK
  BY <1>1, NothingTyped, ToolsAssumption DEF ToolsInit, ToolsTypeOK, None
<1>4. EveryRowIsHome
  BY <1>1, <1>2, NothingTyped DEF ToolsInit, EveryRowIsHome
<1>5. EveryGateIsPassed
  BY <1>1 DEF EveryGateIsPassed, GatesPassed
<1>6. SecretsGoHome
  BY <1>1, <1>2 DEF SecretsGoHome, NewChange
<1> QED
  BY <1>3, <1>4, <1>5, <1>6 DEF IInv

LEMMA NextIInv == IInv /\ [ToolsNext]_toolVars => IInv'
<1> SUFFICES ASSUME IInv, [ToolsNext]_toolVars PROVE IInv'
  OBVIOUS
<1>1. CASE ToolsNext
  BY <1>1, AskedKeeps, ChangeStep, WorldStep, CallStep DEF ToolsNext, ChangeAsked
<1>2. CASE UNCHANGED toolVars
  <2>1. ToolsTypeOK' /\ EveryRowIsHome'
    BY <1>2 DEF toolVars, IInv, ToolsTypeOK, EveryRowIsHome
  <2>2. EveryGateIsPassed'
    BY <1>2 DEF toolVars, IInv, EveryGateIsPassed
  <2>3. SecretsGoHome'
    BY <1>2 DEF toolVars, IInv, SecretsGoHome
  <2> QED
    BY <2>1, <2>2, <2>3 DEF IInv
<1> QED
  BY <1>1, <1>2

(* The variables always have their types.                                  *)
THEOREM TypeCorrect == ToolsSpec => []ToolsTypeOK
<1>1. IInv => ToolsTypeOK
  BY DEF IInv
<1> QED
  BY InitIInv, NextIInv, <1>1, PTL DEF ToolsSpec

(* A call that reaches the vendor found its grant, the policy, its token   *)
(* and its credential good at some moment since it began, and has its row, *)
(* whatever administrators change between any two of its steps (callTool). *)
THEOREM CallsAreGoverned == ToolsSpec => []Governed
<1>1. IInv => Governed
  <2> SUFFICES ASSUME IInv, NEW c \in Calls, call[c].at = "remote"
               PROVE  since[c] = GateNames /\ trail[c] = "succeeded"
    BY DEF Governed, GateNames
  <2>1. GatesPassed(call[c], since[c], trail[c]) /\ since[c] \subseteq GateNames
    BY DEF IInv, EveryGateIsPassed, ToolsTypeOK, GateNames
  <2> QED
    BY <2>1 DEF GatesPassed, GateNames
<1> QED
  BY InitIInv, NextIInv, <1>1, PTL DEF ToolsSpec

(* A credential is sent only to the url that it was added with, however    *)
(* often the server is added again or removed between the read of its row  *)
(* and the use of the credential (requireServer, tokenFor).                *)
THEOREM SecretsStayHome == ToolsSpec => []SecretsGoHome
<1>1. IInv => SecretsGoHome
  BY DEF IInv
<1> QED
  BY InitIInv, NextIInv, <1>1, PTL DEF ToolsSpec

-----------------------------------------------------------------------------
(* A refresh that has met no other request: none is under way beside it,   *)
(* and how far it has come says what the tools are now.                    *)
Wholesale(q, now, url) ==
    /\ q.at \in {"upsert", "audit", "remove", "find", "token", "list", "delete", "unanswered"} => now = q.held
    /\ q.at = "insert" => now = {}
    /\ q.at = "update" => now = q.listing
    /\ q.at = "fail" => now \in {q.held, q.listing, {}}
    /\ q.at \in {"token", "list", "delete", "insert"} => url # None

RefreshInv ==
    /\ ToolsTypeOK
    /\ \A r \in Changes : change[r].alone /\ UnderWay(r) =>
          /\ \A s \in Changes : s # r => ~UnderWay(s)
          /\ Wholesale(change[r], tools, server.url)

(* A request that is under way moves: if it was alone, the tools are still *)
(* what its place says, and no other was under way to be told of.          *)
LEMMA LoneMoves ==
  ASSUME RefreshInv, ToolsTypeOK', NEW r \in Changes, UnderWay(r), NEW next \in Change,
         change' = [change EXCEPT ![r] = next],
         next.at # "done" =>
            /\ next.alone => change[r].alone
            /\ change[r].alone => Wholesale(next, tools', server'.url)
  PROVE  RefreshInv'
<1>1. change'[r] = next /\ \A s \in Changes : s # r => change'[s] = change[s]
  BY DEF RefreshInv, ToolsTypeOK
<1>2. ASSUME NEW s \in Changes, change'[s].alone, UnderWay(s)'
      PROVE  (\A t \in Changes : t # s => ~UnderWay(t)') /\ Wholesale(change'[s], tools', server'.url)
  <2>1. CASE s = r
    <3>1. next.at # "done" /\ next.alone
      BY <1>1, <1>2, <2>1 DEF UnderWay
    <3>2. \A t \in Changes : t # r => ~UnderWay(t)
      BY <3>1 DEF RefreshInv
    <3>3. \A t \in Changes : t # r => ~UnderWay(t)'
      BY <1>1, <3>2 DEF UnderWay
    <3> QED
      BY <1>1, <2>1, <3>1, <3>3
  <2>2. CASE s # r
    <3>1. change[s].alone /\ UnderWay(s)
      BY <1>1, <1>2, <2>2 DEF UnderWay
    <3> QED
      BY <2>2, <3>1 DEF RefreshInv
  <2> QED
    BY <2>1, <2>2
<1> QED
  BY <1>2 DEF RefreshInv

(* A request arrives: it is alone if it finds none, and any it finds is    *)
(* alone no more.                                                          *)
LEMMA AskedTells ==
  ASSUME RefreshInv, ToolsTypeOK', NEW r \in Changes, NEW at \in {"upsert", "find", "remove"}, Asks(r, at)
  PROVE  RefreshInv'
<1>1. PICK alone \in BOOLEAN : alone <=> ~\E t \in Changes : UnderWay(t)
  OBVIOUS
<1>2. /\ change[r].at = "idle" /\ UNCHANGED <<server, tools>> /\ DOMAIN change' = Changes
      /\ change'[r].at = at /\ change'[r].held = tools /\ (change'[r].alone => alone)
  <2>1. PICK n : n = [NewChange EXCEPT !.at = at, !.held = tools, !.alone = ~\E t \in Changes : UnderWay(t)]
    OBVIOUS
  <2>2. n.at = at /\ n.held = tools /\ (n.alone => alone)
    BY <1>1, <2>1 DEF NewChange
  <2>3. /\ change[r].at = "idle" /\ UNCHANGED <<server, tools>>
        /\ change' = [s \in Changes |-> IF s = r THEN n ELSE [change[s] EXCEPT !.alone = @ /\ ~UnderWay(s)]]
    BY <2>1 DEF Asks
  <2> QED
    BY <2>2, <2>3
<1>3. ASSUME NEW s \in Changes, s # r
      PROVE  change'[s].at = change[s].at /\ (change'[s].alone => ~UnderWay(s))
  <2>1. change[s] \in Change
    BY DEF RefreshInv, ToolsTypeOK
  <2>2. PICK alone2 \in BOOLEAN : alone2 = (change[s].alone /\ ~UnderWay(s))
    OBVIOUS
  <2>3. PICK q : q = [change[s] EXCEPT !.alone = alone2]
    OBVIOUS
  <2>4. q.at = change[s].at /\ q.alone = alone2
    BY <2>1, <2>3 DEF Change
  <2>5. change'[s] = q
    BY <1>3, <2>2, <2>3 DEF Asks
  <2> QED
    BY <2>2, <2>4, <2>5
<1>4. ASSUME NEW s \in Changes, change'[s].alone, UnderWay(s)'
      PROVE  (\A t \in Changes : t # s => ~UnderWay(t)') /\ Wholesale(change'[s], tools', server'.url)
  <2>1. s = r
    BY <1>3, <1>4 DEF UnderWay
  <2>2. \A t \in Changes : ~UnderWay(t)
    BY <1>1, <1>2, <1>4, <2>1
  <2>3. \A t \in Changes : t # s => ~UnderWay(t)'
    BY <1>3, <2>1, <2>2 DEF UnderWay
  <2>4. Wholesale(change'[s], tools', server'.url)
    BY <1>2, <2>1 DEF Wholesale
  <2> QED
    BY <2>3, <2>4
<1> QED
  BY <1>4 DEF RefreshInv

(* Every step of a request keeps it.                                       *)
LEMMA RequestTells ==
  ASSUME RefreshInv, ToolsTypeOK', ChangeGoes
  PROVE  RefreshInv'
<1>1. PICK r \in Changes :
          \/ AddServer(r) \/ RecordAdd(r) \/ RemoveServer(r) \/ FindForRefresh(r) \/ TokenForRefresh(r)
          \/ ListTools(r) \/ DeleteTools(r) \/ InsertTools(r) \/ EndRefresh(r) \/ CutOff(r)
  BY DEF ChangeGoes
<1>2. PICK q : q = change[r]
  OBVIOUS
<1>3. q \in Change /\ change \in [Changes -> Change] /\ tools \subseteq Names /\ server \in Row
  BY <1>2 DEF RefreshInv, ToolsTypeOK
<1>4. q.alone /\ UnderWay(r) => Wholesale(q, tools, server.url)
  BY <1>2 DEF RefreshInv
<1>5. CASE Ends(r) /\ UnderWay(r)
  <2>1. PICK n : n = [NewChange EXCEPT !.at = "done"]
    OBVIOUS
  <2>2. n \in Change /\ n.at = "done"
    BY <2>1, NothingTyped DEF Change
  <2>3. change' = [change EXCEPT ![r] = n]
    BY <1>5, <2>1 DEF Ends
  <2> QED
    BY <1>5, <2>2, <2>3, LoneMoves
<1>6. ASSUME NEW at, Moves(r, at), UnderWay(r),
             at \in {"audit", "find", "delete", "insert", "update", "unanswered", "fail"},
             q.alone => Wholesale([q EXCEPT !.at = at], tools', server'.url)
      PROVE  RefreshInv'
  <2>1. PICK n : n = [q EXCEPT !.at = at]
    OBVIOUS
  <2>2. n \in Change /\ n.at = at /\ n.alone = q.alone
    BY <1>3, <1>6, <2>1 DEF Change
  <2>3. change' = [change EXCEPT ![r] = n]
    BY <1>2, <1>6, <2>1 DEF Moves
  <2> QED
    BY <1>2, <1>6, <2>1, <2>2, <2>3, LoneMoves
<1>7. \A at : /\ [q EXCEPT !.at = at].at = at /\ [q EXCEPT !.at = at].held = q.held
              /\ [q EXCEPT !.at = at].listing = q.listing
  BY <1>3 DEF Change
<1>8. CASE AddServer(r)
  <2>1. q.at = "upsert" /\ Moves(r, "audit") /\ tools' = tools /\ UnderWay(r)
    BY <1>2, <1>8 DEF AddServer, UnderWay
  <2>2. PICK n : n = [q EXCEPT !.at = "audit"]
    OBVIOUS
  <2>3. n.at = "audit" /\ n.held = q.held
    BY <1>7, <2>2
  <2>4. q.alone => Wholesale(n, tools', server'.url)
    BY <1>4, <2>1, <2>3 DEF Wholesale
  <2> QED
    BY <1>6, <2>1, <2>2, <2>4
<1>9. CASE RecordAdd(r)
  <2>1. q.at = "audit" /\ (Moves(r, "find") \/ Ends(r)) /\ tools' = tools /\ UnderWay(r)
    BY <1>2, <1>9 DEF RecordAdd, UnderWay
  <2>2. PICK n : n = [q EXCEPT !.at = "find"]
    OBVIOUS
  <2>3. n.at = "find" /\ n.held = q.held
    BY <1>7, <2>2
  <2>4. q.alone => Wholesale(n, tools', server'.url)
    BY <1>4, <2>1, <2>3 DEF Wholesale
  <2> QED
    BY <1>5, <1>6, <2>1, <2>2, <2>4
<1>10. CASE RemoveServer(r)
  BY <1>5, <1>10 DEF RemoveServer, UnderWay
<1>11. CASE FindForRefresh(r)
  <2>1. q.at = "find" /\ UnderWay(r) /\ UNCHANGED <<server, tools>>
    BY <1>2, <1>11 DEF FindForRefresh, UnderWay
  <2>2. CASE server.url # None
    <3>1. PICK m : m = [q EXCEPT !.at = "token"]
      OBVIOUS
    <3>2. m \in Change /\ m.at = "token" /\ m.held = q.held /\ m.alone = q.alone
      BY <1>3, <3>1 DEF Change
    <3>3. PICK n : n = [m EXCEPT !.row = server]
      OBVIOUS
    <3>4. n \in Change /\ n.at = "token" /\ n.held = q.held /\ n.alone = q.alone
      BY <1>3, <3>2, <3>3 DEF Change
    <3>5. change' = [change EXCEPT ![r] = n]
      BY <1>2, <1>11, <2>2, <3>1, <3>3 DEF FindForRefresh
    <3>6. q.alone => Wholesale(n, tools', server'.url)
      BY <1>4, <2>1, <2>2, <3>4 DEF Wholesale
    <3> QED
      BY <1>2, <2>1, <3>4, <3>5, <3>6, LoneMoves
  <2>3. CASE server.url = None
    BY <1>5, <1>11, <2>1, <2>3 DEF FindForRefresh
  <2> QED
    BY <2>2, <2>3
<1>12. CASE TokenForRefresh(r)
  <2>1. q.at = "token" /\ UnderWay(r) /\ UNCHANGED <<server, tools>>
    BY <1>2, <1>12 DEF TokenForRefresh, UnderWay
  <2>2. PICK secret : secret = q.row.credential
    OBVIOUS
  <2>3. secret \in Changes \cup {None}
    BY <1>3, <2>2 DEF Change, Row
  <2>4. PICK at \in {"unanswered", "list"} : at = IF secret \notin revoked THEN "list" ELSE "unanswered"
    OBVIOUS
  <2>5. PICK m : m = [q EXCEPT !.at = at]
    OBVIOUS
  <2>6. m \in Change /\ m.at = at /\ m.held = q.held /\ m.alone = q.alone
    BY <1>3, <2>5 DEF Change
  <2>7. PICK n : n = [m EXCEPT !.secret = secret]
    OBVIOUS
  <2>8. n \in Change /\ n.at = at /\ n.held = q.held /\ n.alone = q.alone
    BY <2>3, <2>6, <2>7 DEF Change
  <2>9. change' = [change EXCEPT ![r] = n]
    BY <1>2, <1>12, <2>2, <2>4, <2>5, <2>7 DEF TokenForRefresh, Usable, Pointer
  <2>10. q.alone => Wholesale(n, tools', server'.url)
    BY <1>4, <2>1, <2>8 DEF Wholesale
  <2> QED
    BY <1>2, <2>1, <2>8, <2>9, <2>10, LoneMoves
<1>13. CASE ListTools(r)
  <2>1. q.at = "list" /\ UnderWay(r) /\ UNCHANGED <<server, tools>>
    BY <1>2, <1>13 DEF ListTools, UnderWay
  <2>2. ASSUME NEW offered \in SUBSET Names,
               change' = [change EXCEPT ![r] = [@ EXCEPT !.at = "delete", !.listing = offered]]
        PROVE  RefreshInv'
    <3>1. PICK k : k = [q EXCEPT !.at = "delete"]
      OBVIOUS
    <3>2. k \in Change /\ k.at = "delete" /\ k.held = q.held /\ k.alone = q.alone
      BY <1>3, <3>1 DEF Change
    <3>5. PICK n : n = [k EXCEPT !.listing = offered]
      OBVIOUS
    <3>6. n \in Change /\ n.at = "delete" /\ n.held = q.held /\ n.alone = q.alone
      BY <3>2, <3>5 DEF Change
    <3>7. change' = [change EXCEPT ![r] = n]
      BY <1>2, <2>2, <3>1, <3>5
    <3>8. q.alone => Wholesale(n, tools', server'.url)
      BY <1>4, <2>1, <3>6 DEF Wholesale
    <3> QED
      BY <1>2, <2>1, <3>6, <3>7, <3>8, LoneMoves
  <2>3. CASE Moves(r, "unanswered")
    <3>1. PICK n : n = [q EXCEPT !.at = "unanswered"]
      OBVIOUS
    <3>2. n.at = "unanswered" /\ n.held = q.held
      BY <1>7, <3>1
    <3>3. q.alone => Wholesale(n, tools', server'.url)
      BY <1>4, <2>1, <3>2 DEF Wholesale
    <3> QED
      BY <1>6, <2>1, <2>3, <3>1, <3>3
  <2> QED
    BY <1>13, <2>2, <2>3 DEF ListTools
<1>14. CASE DeleteTools(r)
  <2>1. q.at = "delete" /\ UnderWay(r) /\ UNCHANGED server
    BY <1>2, <1>14 DEF DeleteTools, UnderWay
  <2>2. PICK at \in {"update", "insert"} : at = IF q.listing = {} THEN "update" ELSE "insert"
    OBVIOUS
  <2>3. CASE tools' = {} /\ Moves(r, at)
    <3>1. PICK n : n = [q EXCEPT !.at = at]
      OBVIOUS
    <3>2. n.at = at /\ n.listing = q.listing
      BY <1>7, <3>1
    <3>3. q.alone => Wholesale(n, tools', server'.url)
      BY <1>4, <2>1, <2>2, <2>3, <3>2 DEF Wholesale
    <3> QED
      BY <1>6, <2>1, <2>3, <3>1, <3>3
  <2>4. CASE tools' = tools /\ Moves(r, "fail")
    <3>1. PICK n : n = [q EXCEPT !.at = "fail"]
      OBVIOUS
    <3>2. n.at = "fail" /\ n.held = q.held
      BY <1>7, <3>1
    <3>3. q.alone => Wholesale(n, tools', server'.url)
      BY <1>4, <2>1, <2>4, <3>2 DEF Wholesale
    <3> QED
      BY <1>6, <2>1, <2>4, <3>1, <3>3
  <2> QED
    BY <1>2, <1>14, <2>2, <2>3, <2>4 DEF DeleteTools, Cleared
<1>15. CASE InsertTools(r)
  <2>1. q.at = "insert" /\ UnderWay(r) /\ UNCHANGED server
    BY <1>2, <1>15 DEF InsertTools, UnderWay
  <2>2. CASE tools' = tools \cup q.listing /\ Moves(r, "update")
    <3>2. PICK n : n = [q EXCEPT !.at = "update"]
      OBVIOUS
    <3>3. n.at = "update" /\ n.listing = q.listing
      BY <1>7, <3>2
    <3>4. q.alone => Wholesale(n, tools', server'.url)
      BY <1>4, <2>1, <2>2, <3>3 DEF Wholesale
    <3> QED
      BY <1>6, <2>1, <2>2, <3>2, <3>4
  <2>3. CASE tools' = tools /\ Moves(r, "fail")
    <3>2. PICK n : n = [q EXCEPT !.at = "fail"]
      OBVIOUS
    <3>3. n.at = "fail"
      BY <1>7, <3>2
    <3>4. q.alone => tools' = {}
      BY <1>4, <2>1, <2>3 DEF Wholesale
    <3>5. q.alone => Wholesale(n, tools', server'.url)
      BY <3>3, <3>4 DEF Wholesale
    <3> QED
      BY <1>6, <2>1, <2>3, <3>2, <3>5
  <2> QED
    BY <1>2, <1>15, <2>2, <2>3 DEF InsertTools
<1>16. CASE EndRefresh(r)
  <2>1. UnderWay(r) /\ UNCHANGED <<server, tools>>
    BY <1>16 DEF EndRefresh, UnderWay
  <2>2. CASE q.at = "update" /\ Moves(r, "fail")
    <3>1. PICK n : n = [q EXCEPT !.at = "fail"]
      OBVIOUS
    <3>2. n.at = "fail" /\ n.listing = q.listing
      BY <1>7, <3>1
    <3>3. q.alone => Wholesale(n, tools', server'.url)
      BY <1>4, <2>1, <2>2, <3>2 DEF Wholesale
    <3> QED
      BY <1>6, <2>1, <2>2, <3>1, <3>3
  <2>3. CASE Ends(r)
    BY <1>5, <2>1, <2>3
  <2> QED
    BY <1>2, <1>16, <2>2, <2>3 DEF EndRefresh
<1>17. CASE CutOff(r)
  BY <1>5, <1>17 DEF CutOff
<1> QED
  BY <1>1, <1>8, <1>9, <1>10, <1>11, <1>12, <1>13, <1>14, <1>15, <1>16, <1>17

(* A refresh that met no other request replaces the tools wholesale,       *)
(* leaves them alone where the vendor does not answer, and whichever of    *)
(* its statements fails never leaves a mixture (RefreshAloneIsWholesale),  *)
(* whatever calls, grants, policies, credentials and tokens do meanwhile.  *)
THEOREM RefreshesAreWholesale == ToolsSpec => []RefreshAloneIsWholesale
<1>1. ToolsInit /\ ToolsTypeOK => RefreshInv
  BY DEF ToolsInit, RefreshInv, UnderWay, NewChange
<1>2. RefreshInv /\ ToolsTypeOK' /\ [ToolsNext]_toolVars => RefreshInv'
  <2> SUFFICES ASSUME RefreshInv, ToolsTypeOK', [ToolsNext]_toolVars PROVE RefreshInv'
    OBVIOUS
  <2>1. CASE UNCHANGED <<server, tools, change>>
    BY <2>1 DEF RefreshInv, UnderWay
  <2>2. CASE UNCHANGED toolVars
    BY <2>1, <2>2 DEF toolVars
  <2>3. CASE WorldMoves
    BY <2>1, <2>3 DEF WorldMoves, WorldChanges, Grant, RevokeGrant, SetPolicy, RevokeCredential, IssueToken,
       DropToken
  <2>4. CASE CallGoes
    BY <2>1, <2>4 DEF CallGoes, Quiet, CallArrives, Authorise, Decide, FindServer, Judge, Record, TokenForCall,
       VendorAnswers
  <2> QED
    BY <2>2, <2>3, <2>4, AskedTells, RequestTells DEF ToolsNext, ChangeAsked
<1>3. RefreshInv => RefreshAloneIsWholesale
  BY DEF RefreshInv, RefreshAloneIsWholesale, UnderWay, Wholesale
<1> QED
  BY <1>1, <1>2, <1>3, TypeCorrect, PTL DEF ToolsSpec

-----------------------------------------------------------------------------
(* The skills: what a request was told when it asked stays so until it     *)
(* writes, of a skill that no two people's requests met over.              *)

AsksOfSkill(v) == visit[v] # Vacant

\* What a person who is no administrator was told when asked is still so, of a
\* skill that is not contested.
ToldStill(v) ==
    LET q == visit[v] IN
    /\ q.op = "save" => MayEdit(q)
    /\ q.op = "enable" => IsOwn(q)
    /\ q.op = "enable" /\ q.at = "write" => OwnsAgent(q)
Told(v) ==
    AsksOfSkill(v) =>
        /\ visit[v].global => visit[v].by \in Admins
        /\ visit[v].slug \notin contested /\ visit[v].by \notin Admins /\ visit[v].at # "skill" =>
             ToldStill(v)

\* About a skill that is not contested one person asks at a time.
OneAsks ==
    \A v, w \in Visits :
        AsksOfSkill(v) /\ AsksOfSkill(w) /\ visit[v].slug = visit[w].slug /\ visit[v].slug \notin contested
            => visit[v].by = visit[w].by

Rightful(g, s) == skill[s].there /\ g.by = skill[s].owner /\ g.by = AgentOwner[g.agent]
WordsAreTheirs ==
    \A s \in Slugs \ contested :
        /\ skill[s].there => skill[s].words \in {skill[s].owner} \cup Admins
        /\ \A g \in enabled : g.slug = s => g.by \in Admins \/ Rightful(g, s)

SkillsInv == SkillsTypeOK /\ (\A v \in Visits : Told(v)) /\ OneAsks /\ WordsAreTheirs

-----------------------------------------------------------------------------
(* A request that is somewhere is a request.                               *)
LEMMA VisitsAre ==
  ASSUME SkillsTypeOK, NEW v \in Visits
  PROVE  /\ AsksOfSkill(v) => visit[v] \in Visit
         /\ visit[v].at \in {"skill", "agent", "write"} => AsksOfSkill(v)
<1>1. visit[v] \in Visit \cup {Vacant}
  BY DEF SkillsTypeOK
<1>2. Vacant.at \notin {"skill", "agent", "write"}
  BY DEF Vacant
<1> QED
  BY <1>1, <1>2 DEF AsksOfSkill

(* No request is the empty one.                                            *)
LEMMA NoVisitIsVacant == \A q \in Visit : q # Vacant
<1> SUFFICES ASSUME NEW q \in Visit PROVE q # Vacant
  OBVIOUS
<1>1. q.at # "none"
  BY DEF Visit
<1>2. Vacant.at = "none"
  BY DEF Vacant
<1> QED
  BY <1>1, <1>2

LEMMA VisitsMove ==
  ASSUME NEW q \in Visit, NEW at \in {"skill", "agent", "write"}
  PROVE  LET m == [q EXCEPT !.at = at]
         IN  /\ m \in Visit /\ m.at = at /\ m.op = q.op /\ m.by = q.by /\ m.slug = q.slug
             /\ m.agent = q.agent /\ m.global = q.global
  BY DEF Visit

(* What a request was told stays so, as long as the skill's owner does.    *)
LEMMA ToldStays ==
  ASSUME SkillsInv, NEW v \in Visits, visit'[v] = visit[v], contested \subseteq contested',
         AsksOfSkill(v) /\ visit[v].slug \notin contested' /\ visit[v].by \notin Admins =>
             \/ UNCHANGED skill
             \/ skill'[visit[v].slug].there /\
                skill'[visit[v].slug].owner =
                    IF skill[visit[v].slug].there THEN skill[visit[v].slug].owner ELSE visit[v].by
             \/ skill'[visit[v].slug] = skill[visit[v].slug]
  PROVE  Told(v)'
<1>1. Told(v)
  BY DEF SkillsInv
<1>2. PICK q : q = visit[v]
  OBVIOUS
<1> QED
  BY <1>1, <1>2 DEF Told, ToldStill, AsksOfSkill, MayEdit, IsOwn, OwnsAgent

(* A request that moves on asks about the same, or is over.                *)
LEMMA OneStillAsks ==
  ASSUME SkillsInv, NEW v \in Visits, NEW next, visit' = [visit EXCEPT ![v] = next],
         contested \subseteq contested',
         next = Vacant \/ (AsksOfSkill(v) /\ next.slug = visit[v].slug /\ next.by = visit[v].by)
  PROVE  OneAsks'
<1>1. visit'[v] = next /\ \A w \in Visits \ {v} : visit'[w] = visit[w]
  BY DEF SkillsInv, SkillsTypeOK
<1> QED
  BY <1>1 DEF SkillsInv, OneAsks, AsksOfSkill

LEMMA SkillsStart == SkillsInit => SkillsInv
<1> SUFFICES ASSUME SkillsInit PROVE SkillsInv
  OBVIOUS
<1>1. SkillsTypeOK
  BY DEF SkillsInit, SkillsTypeOK, Skill, NoSkill, Owners
<1>2. \A v \in Visits : ~AsksOfSkill(v)
  BY DEF SkillsInit, AsksOfSkill
<1>3. WordsAreTheirs
  BY DEF SkillsInit, WordsAreTheirs, NoSkill
<1> QED
  BY <1>1, <1>2, <1>3 DEF SkillsInv, Told, OneAsks

LEMMA ComingKeeps == ASSUME SkillsInv, NEW v \in Visits, Comes(v) PROVE SkillsInv'
<1>1. PICK q \in [op : {"save", "delete", "enable", "disable"}, by : People, slug : Slugs,
                  agent : Agents, global : BOOLEAN] :
        /\ q.global => q.op = "save" /\ q.by \in Admins
        /\ visit' = [visit EXCEPT ![v] = [op |-> q.op, by |-> q.by, slug |-> q.slug, agent |-> q.agent,
                        global |-> q.global, at |-> IF q.by \in Admins THEN "write" ELSE "skill"]]
        /\ contested' = contested \cup (IF On(q.slug, q.by) THEN {q.slug} ELSE {})
  BY DEF Comes
<1>2. ~AsksOfSkill(v) /\ UNCHANGED <<skill, enabled>> /\ SkillsTypeOK
  BY DEF Comes, AsksOfSkill, SkillsInv
<1>3. PICK at : at = IF q.by \in Admins THEN "write" ELSE "skill"
  OBVIOUS
<1>4. PICK next : next = [op |-> q.op, by |-> q.by, slug |-> q.slug, agent |-> q.agent,
                          global |-> q.global, at |-> at]
  OBVIOUS
<1>5. visit' = [visit EXCEPT ![v] = next]
  BY <1>1, <1>3, <1>4
<1>6. /\ next \in Visit /\ next.by = q.by /\ next.slug = q.slug /\ next.global = q.global
      /\ next.at = at
  BY <1>3, <1>4 DEF Visit
<1>7. visit'[v] = next /\ \A w \in Visits \ {v} : visit'[w] = visit[w]
  BY <1>2, <1>5 DEF SkillsTypeOK
<1>8. SkillsTypeOK'
  <2>1. visit' \in [Visits -> Visit \cup {Vacant}]
    BY <1>2, <1>5, <1>6 DEF SkillsTypeOK
  <2>2. contested' \subseteq Slugs
    BY <1>1, <1>2 DEF SkillsTypeOK
  <2> QED
    BY <1>2, <2>1, <2>2 DEF SkillsTypeOK
<1>9. ASSUME NEW w \in Visits PROVE Told(w)'
  <2>1. CASE w = v
    BY <1>1, <1>3, <1>6, <1>7, <2>1 DEF Told
  <2>2. CASE w # v
    BY <1>1, <1>2, <1>7, <2>2, ToldStays
  <2> QED
    BY <2>1, <2>2
<1>10. OneAsks'
  <2> SUFFICES ASSUME NEW w \in Visits, NEW x \in Visits, AsksOfSkill(w)', AsksOfSkill(x)',
                      visit'[w].slug = visit'[x].slug, visit'[w].slug \notin contested'
               PROVE  visit'[w].by = visit'[x].by
    BY DEF OneAsks
  <2>1. \A y \in Visits \ {v} : AsksOfSkill(y)' /\ visit'[y].slug = q.slug /\ q.slug \notin contested'
                                  => visit'[y].by = q.by
    BY <1>1, <1>7 DEF On, AsksOfSkill
  <2>2. \A y, z \in Visits \ {v} : AsksOfSkill(y)' /\ AsksOfSkill(z)' /\ visit'[y].slug = visit'[z].slug
                                   /\ visit'[y].slug \notin contested' => visit'[y].by = visit'[z].by
    BY <1>1, <1>7 DEF SkillsInv, OneAsks, AsksOfSkill
  <2> QED
    BY <1>6, <1>7, <2>1, <2>2
<1>11. WordsAreTheirs'
  BY <1>1, <1>2 DEF SkillsInv, WordsAreTheirs, Rightful
<1> QED
  BY <1>8, <1>9, <1>10, <1>11 DEF SkillsInv

(* A step that leaves the skills and the grants alone and takes a request  *)
(* on, or ends it.                                                         *)
LEMMA MovingKeeps ==
  ASSUME SkillsInv, NEW v \in Visits, AsksOfSkill(v), UNCHANGED <<skill, enabled, contested>>,
         NEW next \in Visit \cup {Vacant}, visit' = [visit EXCEPT ![v] = next],
         next = Vacant \/ (next \in Visit /\ next.slug = visit[v].slug /\ next.by = visit[v].by),
         Told(v)'
  PROVE  SkillsInv'
<1>1. SkillsTypeOK'
  BY DEF SkillsInv, SkillsTypeOK
<1>2. visit'[v] = next /\ \A w \in Visits \ {v} : visit'[w] = visit[w]
  BY DEF SkillsInv, SkillsTypeOK
<1>3. ASSUME NEW w \in Visits PROVE Told(w)'
  <2>1. CASE w # v
    BY <1>2, <2>1, ToldStays
  <2> QED
    BY <2>1
<1>4. OneAsks'
  BY OneStillAsks
<1>5. WordsAreTheirs'
  BY DEF SkillsInv, WordsAreTheirs, Rightful
<1> QED
  BY <1>1, <1>3, <1>4, <1>5 DEF SkillsInv

LEMMA AskingSkillKeeps == ASSUME SkillsInv, NEW v \in Visits, AskSkill(v) PROVE SkillsInv'
<1>1. PICK q : q = visit[v]
  OBVIOUS
<1>2. AsksOfSkill(v) /\ q \in Visit /\ q.at = "skill" /\ UNCHANGED <<skill, enabled, contested>>
  BY <1>1, VisitsAre DEF SkillsInv, AskSkill
<1>3. Told(v)
  BY DEF SkillsInv
<1>4. CASE q.op \in {"save", "delete"} /\ MayEdit(q)
  <2>1. PICK next \in Visit : next = [q EXCEPT !.at = "write"]
    BY <1>2, VisitsMove
  <2>2. /\ next.op = q.op /\ next.by = q.by /\ next.slug = q.slug /\ next.global = q.global
    BY <1>2, <2>1, VisitsMove
  <2>3. visit' = [visit EXCEPT ![v] = next]
    BY <1>1, <1>4, <2>1 DEF AskSkill
  <2>4. visit'[v] = next
    BY <2>3 DEF SkillsInv, SkillsTypeOK
  <2>5. Told(v)'
    BY <1>1, <1>2, <1>3, <1>4, <2>2, <2>4 DEF Told, ToldStill, AsksOfSkill, MayEdit
  <2> QED
    BY <1>1, <1>2, <2>2, <2>3, <2>5, MovingKeeps
<1>5. CASE q.op \notin {"save", "delete"} /\ IsOwn(q)
  <2>1. PICK next \in Visit : next = [q EXCEPT !.at = "agent"]
    BY <1>2, VisitsMove
  <2>2. /\ next.op = q.op /\ next.by = q.by /\ next.slug = q.slug /\ next.global = q.global
        /\ next.at = "agent"
    BY <1>2, <2>1, VisitsMove
  <2>3. visit' = [visit EXCEPT ![v] = next]
    BY <1>1, <1>5, <2>1 DEF AskSkill
  <2>4. visit'[v] = next
    BY <2>3 DEF SkillsInv, SkillsTypeOK
  <2>5. Told(v)'
    BY <1>1, <1>2, <1>3, <1>5, <2>2, <2>4 DEF Told, ToldStill, AsksOfSkill, IsOwn
  <2> QED
    BY <1>1, <1>2, <2>2, <2>3, <2>5, MovingKeeps
<1>6. CASE Leaves(v)
  <2>1. visit' = [visit EXCEPT ![v] = Vacant]
    BY <1>6 DEF Leaves
  <2>2. visit'[v] = Vacant
    BY <2>1 DEF SkillsInv, SkillsTypeOK
  <2>3. Told(v)'
    BY <2>2 DEF Told, AsksOfSkill
  <2> QED
    BY <1>2, <2>1, <2>3, MovingKeeps
<1> QED
  BY <1>1, <1>4, <1>5, <1>6 DEF AskSkill

LEMMA AskingAgentKeeps == ASSUME SkillsInv, NEW v \in Visits, AskAgent(v) PROVE SkillsInv'
<1>1. PICK q : q = visit[v]
  OBVIOUS
<1>2. AsksOfSkill(v) /\ q \in Visit /\ q.at = "agent" /\ UNCHANGED <<skill, enabled, contested>>
  BY <1>1, VisitsAre DEF SkillsInv, AskAgent
<1>3. Told(v)
  BY DEF SkillsInv
<1>4. CASE OwnsAgent(q)
  <2>1. PICK next \in Visit : next = [q EXCEPT !.at = "write"]
    BY <1>2, VisitsMove
  <2>2. /\ next.op = q.op /\ next.by = q.by /\ next.slug = q.slug /\ next.global = q.global
        /\ next.agent = q.agent /\ next.at = "write"
    BY <1>2, <2>1, VisitsMove
  <2>3. visit' = [visit EXCEPT ![v] = next]
    BY <1>1, <1>4, <2>1 DEF AskAgent
  <2>4. visit'[v] = next
    BY <2>3 DEF SkillsInv, SkillsTypeOK
  <2>5. Told(v)'
    BY <1>1, <1>2, <1>3, <1>4, <2>2, <2>4 DEF Told, ToldStill, AsksOfSkill, IsOwn, MayEdit, OwnsAgent
  <2> QED
    BY <1>1, <1>2, <2>2, <2>3, <2>5, MovingKeeps
<1>5. CASE Leaves(v)
  <2>1. visit' = [visit EXCEPT ![v] = Vacant]
    BY <1>5 DEF Leaves
  <2>2. visit'[v] = Vacant
    BY <2>1 DEF SkillsInv, SkillsTypeOK
  <2>3. Told(v)'
    BY <2>2 DEF Told, AsksOfSkill
  <2> QED
    BY <1>2, <2>1, <2>3, MovingKeeps
<1> QED
  BY <1>1, <1>4, <1>5 DEF AskAgent

(* What a write leaves of the invariant: its request is over.              *)
LEMMA LeavingKeeps ==
  ASSUME SkillsInv, NEW v \in Visits, Leaves(v), contested \subseteq contested',
         contested' \subseteq Slugs, skill' \in [Slugs -> Skill], enabled' \subseteq Grants,
         \A w \in Visits \ {v} : AsksOfSkill(w) /\ visit[w].slug \notin contested' /\ visit[w].by \notin Admins =>
             \/ UNCHANGED skill
             \/ skill'[visit[w].slug].there /\
                skill'[visit[w].slug].owner =
                    IF skill[visit[w].slug].there THEN skill[visit[w].slug].owner ELSE visit[w].by
             \/ skill'[visit[w].slug] = skill[visit[w].slug],
         WordsAreTheirs'
  PROVE  SkillsInv'
<1>1. visit' = [visit EXCEPT ![v] = Vacant] /\ SkillsTypeOK
  BY DEF Leaves, SkillsInv
<1>2. visit'[v] = Vacant /\ \A w \in Visits \ {v} : visit'[w] = visit[w]
  BY <1>1 DEF SkillsTypeOK
<1>3. SkillsTypeOK'
  BY <1>1 DEF SkillsTypeOK
<1>4. ASSUME NEW w \in Visits PROVE Told(w)'
  <2>1. CASE w = v
    BY <1>2, <2>1 DEF Told, AsksOfSkill
  <2>2. CASE w # v
    BY <1>2, <2>2, ToldStays
  <2> QED
    BY <2>1, <2>2
<1>5. OneAsks'
  BY <1>1, OneStillAsks
<1> QED
  BY <1>3, <1>4, <1>5 DEF SkillsInv

LEMMA InstallingKeeps == ASSUME SkillsInv, NEW v \in Visits, InstallSkill(v) PROVE SkillsInv'
<1>1. PICK q : q = visit[v]
  OBVIOUS
<1>2. AsksOfSkill(v) /\ q \in Visit /\ q.at = "write" /\ q.op = "save" /\ UNCHANGED <<enabled, contested>>
  BY <1>1, VisitsAre DEF SkillsInv, InstallSkill
<1>3. PICK was \in Skill : was = skill[q.slug]
  BY <1>2 DEF SkillsInv, SkillsTypeOK, Visit
<1>4. PICK owner : owner = IF was.there THEN was.owner ELSE NewOwner(q)
  OBVIOUS
<1>5. skill' = [skill EXCEPT ![q.slug] = [there |-> TRUE, words |-> q.by, owner |-> owner]]
  BY <1>1, <1>3, <1>4 DEF InstallSkill
<1>6. owner \in Owners /\ q.by \in Owners /\ q.slug \in Slugs
  BY <1>2, <1>3, <1>4 DEF NewOwner, Owners, Skill, Visit
<1>7. /\ skill' \in [Slugs -> Skill] /\ (\A s \in Slugs \ {q.slug} : skill'[s] = skill[s])
      /\ skill'[q.slug].there /\ skill'[q.slug].words = q.by /\ skill'[q.slug].owner = owner
  BY <1>5, <1>6 DEF SkillsInv, SkillsTypeOK, Skill
<1>8. \/ q.slug \in contested \/ was.there \/ owner = q.by \/ q.by \in Admins
  BY <1>1, <1>2, <1>4 DEF SkillsInv, Told, NewOwner
<1>9. WordsAreTheirs'
  <2> SUFFICES ASSUME NEW s \in Slugs \ contested
               PROVE  /\ skill'[s].there => skill'[s].words \in {skill'[s].owner} \cup Admins
                      /\ \A g \in enabled : g.slug = s => g.by \in Admins \/ Rightful(g, s)'
    BY <1>2 DEF WordsAreTheirs
  <2>1. CASE s # q.slug
    BY <1>7, <2>1 DEF SkillsInv, WordsAreTheirs, Rightful
  <2>2. CASE s = q.slug
    <3>1. q.by = owner \/ q.by \in Admins
      BY <1>1, <1>2, <1>3, <1>4, <1>8, <2>2 DEF SkillsInv, Told, ToldStill, MayEdit
    <3>2. \A g \in enabled : g.slug = s => g.by \in Admins \/ Rightful(g, s)'
      BY <1>3, <1>4, <1>7, <2>2 DEF SkillsInv, WordsAreTheirs, Rightful
    <3> QED
      BY <1>7, <2>2, <3>1, <3>2
  <2> QED
    BY <2>1, <2>2
<1>10. ASSUME NEW w \in Visits \ {v}, AsksOfSkill(w), visit[w].slug \notin contested', visit[w].by \notin Admins
       PROVE  \/ skill'[visit[w].slug].there /\
                 skill'[visit[w].slug].owner =
                    IF skill[visit[w].slug].there THEN skill[visit[w].slug].owner ELSE visit[w].by
              \/ skill'[visit[w].slug] = skill[visit[w].slug]
  <2>1. visit[w] \in Visit
    BY <1>10, VisitsAre DEF SkillsInv
  <2>2. CASE visit[w].slug # q.slug
    BY <1>7, <2>1, <2>2 DEF Visit
  <2>3. CASE visit[w].slug = q.slug
    <3>1. visit[w].by = q.by
      BY <1>1, <1>2, <1>10, <2>3 DEF SkillsInv, OneAsks
    <3> QED
      BY <1>2, <1>3, <1>4, <1>7, <1>8, <1>10, <2>3, <3>1
  <2> QED
    BY <2>2, <2>3
<1>11. Leaves(v) /\ enabled' \subseteq Grants /\ contested' \subseteq Slugs
  BY <1>2 DEF InstallSkill, SkillsInv, SkillsTypeOK
<1> QED
  BY <1>2, <1>7, <1>9, <1>10, <1>11, LeavingKeeps

LEMMA UninstallingKeeps == ASSUME SkillsInv, NEW v \in Visits, UninstallSkill(v) PROVE SkillsInv'
<1>1. PICK q : q = visit[v]
  OBVIOUS
<1>2. /\ AsksOfSkill(v) /\ q \in Visit /\ Leaves(v) /\ UNCHANGED enabled
      /\ skill' = [skill EXCEPT ![q.slug] = NoSkill] /\ contested' = contested \cup {q.slug}
  BY <1>1, VisitsAre DEF SkillsInv, UninstallSkill
<1>3. q.slug \in Slugs
  BY <1>2 DEF Visit
<1>4. /\ skill' \in [Slugs -> Skill] /\ contested' \subseteq Slugs /\ enabled' \subseteq Grants
      /\ \A s \in Slugs \ contested' : skill'[s] = skill[s]
  BY <1>2, <1>3 DEF SkillsInv, SkillsTypeOK, Skill, NoSkill, Owners
<1>5. WordsAreTheirs'
  BY <1>2, <1>4 DEF SkillsInv, WordsAreTheirs, Rightful
<1>6. \A w \in Visits \ {v} : AsksOfSkill(w) /\ visit[w].slug \notin contested' =>
         skill'[visit[w].slug] = skill[visit[w].slug]
  BY <1>4, VisitsAre DEF SkillsInv, Visit
<1> QED
  BY <1>2, <1>4, <1>5, <1>6, LeavingKeeps

LEMMA EnablingKeeps == ASSUME SkillsInv, NEW v \in Visits, Enable(v) PROVE SkillsInv'
<1>1. PICK q : q = visit[v]
  OBVIOUS
<1>2. PICK new : new = [slug |-> q.slug, agent |-> q.agent, by |-> q.by]
  OBVIOUS
<1>3. /\ AsksOfSkill(v) /\ q \in Visit /\ q.at = "write" /\ q.op = "enable" /\ Leaves(v)
      /\ enabled' = Others(q) \cup {new} /\ UNCHANGED <<skill, contested>>
  BY <1>1, <1>2, VisitsAre DEF SkillsInv, Enable
<1>4. new \in Grants /\ new.slug = q.slug /\ new.agent = q.agent /\ new.by = q.by
  BY <1>2, <1>3 DEF Visit, Grants
<1>5. enabled' \subseteq enabled \cup {new} /\ enabled' \subseteq Grants
  BY <1>3, <1>4 DEF Others, SkillsInv, SkillsTypeOK
<1>6. q.slug \in contested \/ q.by \in Admins \/ Rightful(new, q.slug)
  BY <1>1, <1>3, <1>4 DEF SkillsInv, Told, ToldStill, IsOwn, OwnsAgent, Rightful
<1>7. WordsAreTheirs'
  <2> SUFFICES ASSUME NEW s \in Slugs \ contested, NEW g \in enabled', g.slug = s
               PROVE  g.by \in Admins \/ Rightful(g, s)
    BY <1>3 DEF SkillsInv, WordsAreTheirs, Rightful
  <2>1. CASE g = new
    BY <1>4, <1>6, <2>1
  <2>2. CASE g \in enabled
    BY <2>2 DEF SkillsInv, WordsAreTheirs
  <2> QED
    BY <1>5, <2>1, <2>2
<1>8. contested' \subseteq Slugs /\ skill' \in [Slugs -> Skill]
  BY <1>3 DEF SkillsInv, SkillsTypeOK
<1> QED
  BY <1>3, <1>5, <1>7, <1>8, LeavingKeeps

LEMMA DisablingKeeps == ASSUME SkillsInv, NEW v \in Visits, Disable(v) PROVE SkillsInv'
<1>1. Leaves(v) /\ UNCHANGED <<skill, contested>> /\ enabled' \subseteq enabled
  BY DEF Disable, Others
<1>2. WordsAreTheirs'
  BY <1>1 DEF SkillsInv, WordsAreTheirs, Rightful
<1>3. contested' \subseteq Slugs /\ skill' \in [Slugs -> Skill] /\ enabled' \subseteq Grants
  BY <1>1 DEF SkillsInv, SkillsTypeOK
<1> QED
  BY <1>1, <1>2, <1>3, LeavingKeeps

LEMMA SkillStepsKeep == SkillsInv /\ [SkillsNext]_skillVars => SkillsInv'
<1> SUFFICES ASSUME SkillsInv, [SkillsNext]_skillVars PROVE SkillsInv'
  OBVIOUS
<1>1. CASE UNCHANGED skillVars
  BY <1>1 DEF skillVars, SkillsInv, SkillsTypeOK, Told, ToldStill, AsksOfSkill, MayEdit, IsOwn, OwnsAgent, OneAsks,
     WordsAreTheirs, Rightful
<1>2. CASE SkillsNext
  BY <1>2, ComingKeeps, AskingSkillKeeps, AskingAgentKeeps, InstallingKeeps, UninstallingKeeps,
     EnablingKeeps, DisablingKeeps DEF SkillsNext
<1> QED
  BY <1>1, <1>2

(* A Bot follows its owner's words or an administrator's, of a skill about *)
(* which no two people's requests met: what a request was told when it     *)
(* asked whose the skill is stays so until it writes (skillRefusal and     *)
(* enablementRefusal, for any number of people, Bots and requests).        *)
THEOREM SkillsStay == SkillsSpec => []SkillsStayWithTheirOwner
<1>1. SkillsInv => SkillsStayWithTheirOwner
  BY DEF SkillsInv, WordsAreTheirs, Rightful, SkillsStayWithTheirOwner
<1> QED
  BY <1>1, SkillsStart, SkillStepsKeep, PTL DEF SkillsSpec

-----------------------------------------------------------------------------
(* The sandboxed components: what the rows are between the two statements  *)
(* of a request that writes.                                               *)

\* Both rows are there or neither, and what Bots are told is what they draw; unless
\* the listing is as somebody announced it.
SamePublished == announced \/ (listed.published => source.published /\ source.shown = listed.shown)
Agree == (announced \/ source.there = listed.there) /\ SamePublished

\* What the rows are between the two statements of the request that writes.
Between(q) ==
    /\ q.op # "publishListing" /\ (q.at = "read" => q.op = "publish")
    /\ q.at # "listing" => Agree
    /\ q.at = "source" /\ q.op = "publish" => source.there
    /\ q.at = "listing" /\ q.op = "save" => source.there /\ SamePublished
    /\ q.at = "listing" /\ q.op = "publish" =>
          source.there /\ listed.there /\ source.published /\ source.shown = q.draft
    /\ q.at = "listing" /\ q.op = "remove" => ~source.there

OneWriterAtATime ==
    kind = "sandboxed" /\ ~apart =>
        /\ Writing = {} => Agree
        /\ \A h \in Writing : Between(handler[h]) /\ Writing = {h}

\* How far a call has come, and the gates it found open.
CallsPassGates ==
    \A h \in Handlers :
        /\ handler[h].at \in {"granted", "run"} => "drawable" \in openings[h]
        /\ handler[h].at = "run" => "granted" \in openings[h]
        /\ handler[h].at \in {"first", "granted", "run"} => handler[h] # Free /\ handler[h].op = "call"

HiddenWhenGone == (~listed.there => ~listed.published) /\ (announced => listed.there)

ComponentsInv == ComponentsTypeOK /\ OneWriterAtATime /\ CallsPassGates /\ HiddenWhenGone

-----------------------------------------------------------------------------
LEMMA NothingWritten == NoRow \in Rows /\ Free \notin Handler /\ Free.at = "none" /\ Never \in Drafts
<1>1. NoRow \in Rows /\ Never \in Drafts
  BY ComponentsAssumption DEF NoRow, Rows, Drafts, Never
<1>2. Free.at = "none"
  BY DEF Free
<1>3. Free \notin Handler
  BY <1>2 DEF Handler
<1> QED
  BY <1>1, <1>2, <1>3

LEMMA ComponentsStart == ComponentsInit => ComponentsInv
<1> SUFFICES ASSUME ComponentsInit PROVE ComponentsInv
  OBVIOUS
<1>1. \A h \in Handlers : handler[h] = Free
  BY DEF ComponentsInit
<1>2. ComponentsTypeOK
  BY NothingWritten DEF ComponentsInit, ComponentsTypeOK
<1>3. source = NoRow /\ listed = NoRow /\ ~NoRow.published /\ ~NoRow.there
  BY DEF ComponentsInit, NoRow
<1>4. Agree /\ HiddenWhenGone
  BY <1>3 DEF ComponentsInit, Agree, SamePublished, HiddenWhenGone
<1>5. Writing = {}
  BY <1>1 DEF Writing
<1>6. CallsPassGates
  BY <1>1, NothingWritten DEF CallsPassGates
<1> QED
  BY <1>2, <1>4, <1>5, <1>6 DEF ComponentsInv, OneWriterAtATime

(* What a request is, when it is at some step.                             *)
LEMMA AtWork ==
  ASSUME ComponentsInv, NEW h \in Handlers, handler[h].at # "none"
  PROVE  handler[h] \in Handler /\ handler[h] # Free
  BY NothingWritten DEF ComponentsInv, ComponentsTypeOK

(* The gates found open stay found, and with them what is open now.        *)
LEMMA GatesNoted ==
  ASSUME ComponentsTypeOK, Notes
  PROVE  /\ openings' \in [Handlers -> SUBSET Gates]
         /\ \A h \in Handlers : IsCall(h)' => openings[h] \subseteq openings'[h] /\ OpenNow(h)' \subseteq openings'[h]
<1>1. \A h \in Handlers : openings[h] \in SUBSET Gates /\ OpenNow(h)' \in SUBSET Gates
  BY DEF ComponentsTypeOK, Gates, OpenNow
<1>2. openings' = [h \in Handlers |-> IF IsCall(h)' THEN openings[h] \cup OpenNow(h)' ELSE {}]
  BY DEF Notes
<1> QED
  BY <1>1, <1>2

(* Requests that do not move pass no gate and lose none.                   *)
LEMMA OthersKeepGates ==
  ASSUME ComponentsInv, Notes, NEW h \in Handlers, handler'[h] = handler[h]
  PROVE  /\ handler'[h].at \in {"granted", "run"} => "drawable" \in openings'[h]
         /\ handler'[h].at = "run" => "granted" \in openings'[h]
         /\ handler'[h].at \in {"first", "granted", "run"} => handler'[h] # Free /\ handler'[h].op = "call"
<1>1. IsCall(h)' => openings[h] \subseteq openings'[h]
  BY GatesNoted DEF ComponentsInv
<1>2. IsCall(h)' <=> (handler'[h] # Free /\ handler'[h].op = "call")
  BY DEF IsCall
<1>3. /\ handler[h].at \in {"granted", "run"} => "drawable" \in openings[h]
      /\ handler[h].at = "run" => "granted" \in openings[h]
      /\ handler[h].at \in {"first", "granted", "run"} => handler[h] # Free /\ handler[h].op = "call"
  BY DEF ComponentsInv, CallsPassGates
<1> QED
  BY <1>1, <1>2, <1>3

(* One request moves on or is over: the gates it has passed.               *)
LEMMA MovesKeepGates ==
  ASSUME ComponentsInv, Notes, NEW h \in Handlers, NEW n \in Handler \cup {Free},
         handler' = [handler EXCEPT ![h] = n],
         n.at \in {"granted", "run"} => "drawable" \in openings'[h],
         n.at = "run" => "granted" \in openings'[h],
         n.at \in {"first", "granted", "run"} => n # Free /\ n.op = "call"
  PROVE  CallsPassGates' /\ handler' \in [Handlers -> Handler \cup {Free}]
<1>1. handler \in [Handlers -> Handler \cup {Free}]
  BY DEF ComponentsInv, ComponentsTypeOK
<1>2. handler'[h] = n /\ \A g \in Handlers : g # h => handler'[g] = handler[g]
  BY <1>1
<1>3. ASSUME NEW g \in Handlers
      PROVE  /\ handler'[g].at \in {"granted", "run"} => "drawable" \in openings'[g]
             /\ handler'[g].at = "run" => "granted" \in openings'[g]
             /\ handler'[g].at \in {"first", "granted", "run"} => handler'[g] # Free /\ handler'[g].op = "call"
  <2>1. CASE g = h
    BY <1>2, <2>1
  <2>2. CASE g # h
    BY <1>2, <2>2, OthersKeepGates
  <2> QED
    BY <2>1, <2>2
<1> QED
  BY <1>1, <1>3 DEF CallsPassGates

-----------------------------------------------------------------------------
(* The rows.                                                               *)

(* The request that writes moves: between its statements the rows are as   *)
(* its place says, and once it is over they agree.                         *)
LEMMA WriterMoves ==
  ASSUME ComponentsInv, NEW h \in Handlers, handler[h] # Free, NEW n \in Handler \cup {Free},
         handler' = [handler EXCEPT ![h] = n], UNCHANGED <<kind, apart>>,
         handler[h].op # "call",
         kind = "sandboxed" /\ ~apart =>
            IF n = Free THEN Agree' ELSE n.op = handler[h].op /\ Between(n)'
  PROVE  OneWriterAtATime'
<1>1. handler \in [Handlers -> Handler \cup {Free}]
  BY DEF ComponentsInv, ComponentsTypeOK
<1>2. handler'[h] = n /\ \A g \in Handlers : g # h => handler'[g] = handler[g]
  BY <1>1
<1>3. SUFFICES ASSUME kind = "sandboxed", ~apart
               PROVE  /\ Writing' = {} => Agree'
                      /\ \A g \in Writing' : Between(handler[g])' /\ Writing' = {g}
  BY DEF OneWriterAtATime
<1>4. h \in Writing /\ Writing = {h}
  BY <1>3 DEF Writing, ComponentsInv, OneWriterAtATime
<1>5. Writing' = IF n = Free THEN {} ELSE {h}
  <2>1. \A g \in Handlers : g # h => g \notin Writing'
    BY <1>2, <1>4 DEF Writing
  <2>2. h \in Writing' <=> n # Free
    BY <1>2, <1>3 DEF Writing
  <2> QED
    BY <2>1, <2>2 DEF Writing
<1>6. CASE n = Free
  BY <1>3, <1>5, <1>6
<1>7. CASE n # Free
  <2>1. PICK m : m = handler'[h] /\ m = n
    BY <1>2
  <2>2. Between(handler[h])'
    BY <1>3, <1>7, <2>1 DEF Between, Agree, SamePublished
  <2> QED
    BY <1>5, <1>7, <2>2
<1> QED
  BY <1>6, <1>7

(* A step that leaves the writing requests where they are, and what is     *)
(* between their statements true.                                          *)
LEMMA WritersStay ==
  ASSUME ComponentsInv, UNCHANGED kind, apart' = apart, UNCHANGED source,
         Writing' = Writing, \A h \in Writing : handler'[h] = handler[h],
         listed.there => listed'.there, Agree => Agree', SamePublished => SamePublished'
  PROVE  OneWriterAtATime'
<1> SUFFICES ASSUME kind = "sandboxed", ~apart
             PROVE  /\ Writing' = {} => Agree'
                    /\ \A h \in Writing' : Between(handler[h])' /\ Writing' = {h}
  BY DEF OneWriterAtATime
<1>2. Writing = {} => Agree
  BY DEF ComponentsInv, OneWriterAtATime
<1>3. ASSUME NEW h \in Writing PROVE Between(handler[h])' /\ Writing = {h}
  <2>1. Between(handler[h]) /\ Writing = {h}
    BY DEF ComponentsInv, OneWriterAtATime
  <2>2. PICK q : q = handler[h] /\ q = handler'[h]
    OBVIOUS
  <2> QED
    BY <2>1, <2>2 DEF Between
<1> QED
  BY <1>2, <1>3

(* A call moves, or is over: nothing is written.                           *)
LEMMA CallMoves ==
  ASSUME ComponentsInv, NEW h \in Handlers, handler[h].op = "call", NEW n \in Handler \cup {Free},
         handler' = [handler EXCEPT ![h] = n], n # Free => n.op = "call",
         UNCHANGED <<kind, apart, announced, source, listed>>
  PROVE  OneWriterAtATime'
<1>1. handler \in [Handlers -> Handler \cup {Free}]
  BY DEF ComponentsInv, ComponentsTypeOK
<1>2. handler'[h] = n /\ \A g \in Handlers : g # h => handler'[g] = handler[g]
  BY <1>1
<1>3. h \notin Writing /\ h \notin Writing'
  BY <1>2 DEF Writing
<1>4. Writing' = Writing
  BY <1>2, <1>3 DEF Writing
<1>5. \A g \in Writing : handler'[g] = handler[g]
  BY <1>2, <1>3 DEF Writing
<1>6. (Agree => Agree') /\ (SamePublished => SamePublished')
  BY DEF Agree, SamePublished
<1> QED
  BY <1>4, <1>5, <1>6, WritersStay

(* A row that is kept or shown is a row; keeping it leaves what was        *)
(* published.                                                              *)
LEMMA RowsWritten ==
  ASSUME NEW row \in Rows, NEW draft \in Drafts
  PROVE  /\ Kept(row, draft) \in Rows /\ Kept(row, draft).there
         /\ Kept(row, draft).published = row.published /\ Kept(row, draft).shown = row.shown
         /\ Shown(row, draft) \in Rows /\ Shown(row, draft).there = row.there
         /\ row.there => Shown(row, draft).published /\ Shown(row, draft).shown = draft
         /\ ~row.there => Shown(row, draft) = row
<1>1. PICK k : k = [row EXCEPT !.there = TRUE]
  OBVIOUS
<1>2. k \in Rows /\ k.there = TRUE /\ k.published = row.published /\ k.shown = row.shown
  BY <1>1 DEF Rows
<1>3. PICK m : m = [k EXCEPT !.draft = draft]
  OBVIOUS
<1>4. m \in Rows /\ m.there = TRUE /\ m.published = row.published /\ m.shown = row.shown
  BY <1>2, <1>3 DEF Rows
<1>5. Kept(row, draft) = m
  BY <1>1, <1>3 DEF Kept
<1>6. PICK a : a = [row EXCEPT !.shown = draft]
  OBVIOUS
<1>7. a \in Rows /\ a.there = row.there /\ a.shown = draft
  BY <1>6 DEF Rows
<1>8. PICK b : b = [a EXCEPT !.published = TRUE]
  OBVIOUS
<1>9. b \in Rows /\ b.there = row.there /\ b.published = TRUE /\ b.shown = draft
  BY <1>7, <1>8 DEF Rows
<1>10. Shown(row, draft) = IF row.there THEN b ELSE row
  BY <1>6, <1>8 DEF Shown
<1> QED
  BY <1>4, <1>5, <1>9, <1>10

(* A request goes on to another step.                                      *)
LEMMA Onwards ==
  ASSUME NEW q \in Handler, NEW at \in {"first", "read", "source", "listing", "granted", "run"}
  PROVE  \E n \in Handler : n = [q EXCEPT !.at = at] /\ n.at = at /\ n.op = q.op /\ n.draft = q.draft /\ n.by = q.by
<1>1. PICK n : n = [q EXCEPT !.at = at]
  OBVIOUS
<1>2. n \in Handler /\ n.at = at /\ n.op = q.op /\ n.draft = q.draft /\ n.by = q.by
  BY <1>1 DEF Handler
<1> QED
  BY <1>1, <1>2

-----------------------------------------------------------------------------
(* The requests that write.                                                *)

LEMMA WritingKeeps ==
  ASSUME ComponentsInv, Notes, NEW h \in Handlers,
         \/ SaveSource(h) \/ SaveListing(h) \/ PublishSource(h) \/ PublishListing(h)
         \/ RemoveSource(h) \/ RemoveListing(h)
  PROVE  ComponentsInv'
<1>1. PICK q : q = handler[h]
  OBVIOUS
<1>2. q \in Handler /\ q # Free /\ q.op # "call"
  <2>1. handler[h].at # "none" /\ q.op # "call"
    BY <1>1 DEF SaveSource, SaveListing, PublishSource, PublishListing, RemoveSource, RemoveListing
  <2> QED
    BY <1>1, <2>1, AtWork
<1>3. /\ source \in Rows /\ listed \in Rows /\ withheld \subseteq Viewers /\ reads \in BOOLEAN
      /\ drafts \in Drafts /\ apart \in BOOLEAN /\ announced \in BOOLEAN /\ kind \in {"compiled", "sandboxed"}
  BY DEF ComponentsInv, ComponentsTypeOK
<1>4. q.draft \in Drafts
  BY <1>2 DEF Handler
<1>5. PICK n \in Handler : n = [q EXCEPT !.at = "listing"] /\ n.at = "listing" /\ n.op = q.op /\ n.draft = q.draft
  BY <1>2, Onwards
<1>6. UNCHANGED <<kind, drafts, apart>>
  BY DEF SaveSource, SaveListing, PublishSource, PublishListing, RemoveSource, RemoveListing
<1>7. openings' \in [Handlers -> SUBSET Gates]
  BY GatesNoted DEF ComponentsInv
<1>8. ASSUME NEW m \in Handler \cup {Free}, handler' = [handler EXCEPT ![h] = m],
             m = n \/ m = Free, source' \in Rows, listed' \in Rows, withheld' \subseteq Viewers, reads' \in BOOLEAN,
             HiddenWhenGone', announced' \in BOOLEAN,
             kind = "sandboxed" /\ ~apart => IF m = Free THEN Agree' ELSE Between(m)'
      PROVE  ComponentsInv'
  <2>1. m.at \notin {"first", "granted", "run"} /\ (m # Free => m.op = q.op)
    BY <1>5, <1>8, NothingWritten
  <2>2. CallsPassGates' /\ handler' \in [Handlers -> Handler \cup {Free}]
    BY <1>8, <2>1, MovesKeepGates
  <2>3. OneWriterAtATime'
    BY <1>1, <1>2, <1>6, <1>8, <2>1, WriterMoves
  <2>4. ComponentsTypeOK'
    BY <1>3, <1>6, <1>7, <1>8, <2>2 DEF ComponentsTypeOK
  <2> QED
    BY <1>8, <2>2, <2>3, <2>4 DEF ComponentsInv
<1>9. kind = "sandboxed" /\ ~apart => Between(q)
  BY <1>1, <1>2 DEF ComponentsInv, OneWriterAtATime, Writing
<1>10. HiddenWhenGone
  BY DEF ComponentsInv
<1>11. PICK d : d = q.draft
  OBVIOUS
<1>12. CASE SaveSource(h)
  <2>1. q.at = "source" /\ q.op = "save" /\ source' = Kept(source, d)
        /\ UNCHANGED <<listed, withheld, reads, announced>>
    BY <1>1, <1>11, <1>12 DEF SaveSource
  <2>2. handler' = [handler EXCEPT ![h] = n]
    BY <1>1, <1>5, <1>12 DEF SaveSource, Goes
  <2>3. /\ source' \in Rows /\ source'.there /\ source'.published = source.published
        /\ source'.shown = source.shown
    BY <1>3, <1>4, <1>11, <2>1, RowsWritten
  <2>4. Between(q) => Between(n)'
    BY <1>5, <2>1, <2>3 DEF Between, Agree, SamePublished
  <2>5. HiddenWhenGone'
    BY <1>10, <2>1 DEF HiddenWhenGone
  <2>6. n # Free
    BY NothingWritten
  <2> QED
    BY <1>3, <1>8, <1>9, <2>1, <2>2, <2>3, <2>4, <2>5, <2>6
<1>13. CASE SaveListing(h)
  <2>1. /\ q.at = "listing" /\ q.op = "save" /\ listed' = Kept(listed, d)
        /\ UNCHANGED <<source, withheld, reads, announced>> /\ handler' = [handler EXCEPT ![h] = Free]
    BY <1>1, <1>11, <1>13 DEF SaveListing, SavedListing, Done
  <2>2. /\ listed' \in Rows /\ listed'.there /\ listed'.published = listed.published
        /\ listed'.shown = listed.shown
    BY <1>3, <1>4, <1>11, <2>1, RowsWritten
  <2>3. Between(q) => Agree'
    BY <1>3, <2>1, <2>2 DEF Between, Agree, SamePublished, Rows
  <2>4. HiddenWhenGone'
    BY <2>2 DEF HiddenWhenGone
  <2> QED
    BY <1>3, <1>8, <1>9, <2>1, <2>2, <2>3, <2>4
<1>14. CASE PublishSource(h)
  <2>1. q.at = "source" /\ q.op = "publish" /\ source' = Shown(source, d)
        /\ UNCHANGED <<listed, withheld, reads, announced>>
    BY <1>1, <1>11, <1>14 DEF PublishSource
  <2>2. handler' = [handler EXCEPT ![h] = n]
    BY <1>1, <1>5, <1>14 DEF PublishSource, Goes
  <2>3. /\ source' \in Rows /\ source'.there = source.there
        /\ source.there => source'.published /\ source'.shown = d
    BY <1>3, <1>4, <1>11, <2>1, RowsWritten
  <2>4. Between(q) => Between(n)'
    BY <1>3, <1>5, <1>10, <1>11, <2>1, <2>3 DEF Between, Agree, HiddenWhenGone, Rows
  <2>5. HiddenWhenGone'
    BY <1>10, <2>1 DEF HiddenWhenGone
  <2>6. n # Free
    BY NothingWritten
  <2> QED
    BY <1>3, <1>8, <1>9, <2>1, <2>2, <2>3, <2>4, <2>5, <2>6
<1>15. CASE PublishListing(h)
  <2>1. /\ q.at = "listing" /\ q.op \in {"publish", "publishListing"} /\ listed' = Shown(listed, d)
        /\ announced' = (announced /\ q.op = "publishListing")
        /\ UNCHANGED <<source, withheld, reads>> /\ handler' = [handler EXCEPT ![h] = Free]
    BY <1>1, <1>11, <1>15 DEF PublishListing, Done
  <2>2. /\ listed' \in Rows /\ listed'.there = listed.there
        /\ listed.there => listed'.published /\ listed'.shown = d
        /\ ~listed.there => listed' = listed
    BY <1>3, <1>4, <1>11, <2>1, RowsWritten
  <2>3. Between(q) => Agree'
    BY <1>3, <1>11, <2>1, <2>2 DEF Between, Agree, SamePublished, Rows
  <2>4. HiddenWhenGone'
    BY <1>10, <2>1, <2>2 DEF HiddenWhenGone
  <2> QED
    BY <1>3, <1>8, <1>9, <2>1, <2>2, <2>3, <2>4
<1>16. CASE RemoveSource(h)
  <2>1. q.at = "source" /\ q.op = "remove" /\ source' = NoRow
        /\ UNCHANGED <<listed, withheld, reads, announced>>
    BY <1>1, <1>16 DEF RemoveSource
  <2>2. handler' = [handler EXCEPT ![h] = n]
    BY <1>1, <1>5, <1>16 DEF RemoveSource, Goes
  <2>3. source' \in Rows /\ ~source'.there
    BY <2>1, NothingWritten DEF NoRow
  <2>4. Between(n)'
    BY <1>5, <2>1, <2>3 DEF Between
  <2>5. HiddenWhenGone'
    BY <1>10, <2>1 DEF HiddenWhenGone
  <2>6. n # Free
    BY NothingWritten
  <2> QED
    BY <1>3, <1>8, <2>1, <2>2, <2>3, <2>4, <2>5, <2>6
<1>17. CASE RemoveListing(h)
  <2>1. /\ q.at = "listing" /\ q.op = "remove" /\ listed' = NoRow /\ withheld' = {} /\ reads' = FALSE
        /\ announced' = FALSE /\ UNCHANGED source /\ handler' = [handler EXCEPT ![h] = Free]
    BY <1>1, <1>17 DEF RemoveListing, Done
  <2>2. listed' \in Rows /\ listed'.there = FALSE /\ listed'.published = FALSE
    BY <2>1, NothingWritten DEF NoRow
  <2>3. Between(q) => source.there = FALSE
    BY <1>3, <2>1 DEF Between, Rows
  <2>4. Between(q) => Agree'
    BY <2>1, <2>2, <2>3 DEF Agree, SamePublished
  <2>5. HiddenWhenGone'
    BY <2>1, <2>2 DEF HiddenWhenGone
  <2> QED
    BY <1>3, <1>8, <1>9, <2>1, <2>2, <2>4, <2>5
<1> QED
  BY <1>12, <1>13, <1>14, <1>15, <1>16, <1>17

(* The read before a publish.                                              *)
LEMMA ReadingKeeps == ASSUME ComponentsInv, Notes, NEW h \in Handlers, ReadDraft(h) PROVE ComponentsInv'
<1>1. PICK q : q = handler[h]
  OBVIOUS
<1>2. q.at = "read" /\ q \in Handler /\ q # Free
  BY <1>1, AtWork DEF ReadDraft
<1>3. PICK row \in Rows : row = IF q.op = "publish" THEN source ELSE listed
  BY DEF ComponentsInv, ComponentsTypeOK
<1>4. PICK at \in {"source", "listing"} : at = IF q.op = "publish" THEN "source" ELSE "listing"
  OBVIOUS
<1>5. row.draft \in Drafts
  BY DEF Rows
<1>6. PICK k : k = [q EXCEPT !.draft = row.draft]
  OBVIOUS
<1>7. k \in Handler /\ k.op = q.op
  BY <1>2, <1>5, <1>6 DEF Handler
<1>8. PICK n : n = [k EXCEPT !.at = at] /\ n \in Handler /\ n.at = at /\ n.op = q.op
  <2>1. PICK n : n = [k EXCEPT !.at = at]
    OBVIOUS
  <2>2. n \in Handler /\ n.at = at /\ n.op = k.op
    BY <1>7, <2>1 DEF Handler
  <2> QED
    BY <1>7, <2>1, <2>2
<1>9. UNCHANGED <<kind, source, listed, withheld, reads, drafts, apart, announced>>
  BY DEF ReadDraft, TableVars
<1>10. (row.there /\ handler' = [handler EXCEPT ![h] = n]) \/ handler' = [handler EXCEPT ![h] = Free]
  <2>1. CASE row.there
    BY <1>1, <1>3, <1>4, <1>6, <1>8, <2>1 DEF ReadDraft
  <2>2. CASE ~row.there
    BY <1>1, <1>3, <2>2 DEF ReadDraft, Done
  <2> QED
    BY <2>1, <2>2
<1>11. PICK m : /\ m \in Handler \cup {Free} /\ ((m = n /\ row.there) \/ m = Free)
                /\ handler' = [handler EXCEPT ![h] = m]
  <2>1. CASE row.there /\ handler' = [handler EXCEPT ![h] = n]
    BY <1>8, <2>1
  <2>2. CASE handler' = [handler EXCEPT ![h] = Free]
    BY <2>2
  <2> QED
    BY <1>10, <2>1, <2>2
<1>12. m.at \notin {"first", "granted", "run"} /\ (m # Free => m.op = q.op)
  BY <1>8, <1>11, NothingWritten
<1>13. CallsPassGates' /\ handler' \in [Handlers -> Handler \cup {Free}]
  BY <1>11, <1>12, MovesKeepGates
<1>14. CASE q.op = "call"
  <2>1. OneWriterAtATime'
    BY <1>1, <1>9, <1>11, <1>12, <1>14, CallMoves
  <2> QED
    BY <1>9, <1>13, <2>1, GatesNoted DEF ComponentsInv, ComponentsTypeOK, HiddenWhenGone
<1>15. CASE q.op # "call"
  <2>1. kind = "sandboxed" /\ ~apart => Between(q) /\ Agree
    BY <1>1, <1>2, <1>15 DEF ComponentsInv, OneWriterAtATime, Writing, Between
  <2>2. Agree => Agree'
    BY <1>9 DEF Agree, SamePublished
  <2>3. ASSUME kind = "sandboxed", ~apart, m # Free PROVE Between(m)'
    <3>1. q.op = "publish" /\ Agree'
      BY <1>2, <2>1, <2>2, <2>3 DEF Between
    <3>2. m = n /\ row.there
      BY <1>11, <2>3
    <3>3. m.op = "publish" /\ m.at = "source" /\ source'.there
      BY <1>3, <1>4, <1>8, <1>9, <3>1, <3>2
    <3> QED
      BY <3>1, <3>3 DEF Between
  <2>4. OneWriterAtATime'
    BY <1>1, <1>2, <1>9, <1>11, <1>12, <1>15, <2>1, <2>2, <2>3, WriterMoves
  <2> QED
    BY <1>9, <1>13, <2>4, GatesNoted DEF ComponentsInv, ComponentsTypeOK, HiddenWhenGone
<1> QED
  BY <1>14, <1>15

(* A call that is decided, is granted or answers.                          *)
LEMMA ComponentCallKeeps ==
  ASSUME ComponentsInv, Notes, NEW h \in Handlers, Decided(h) \/ MayCall(h) \/ Run(h)
  PROVE  ComponentsInv'
<1>1. PICK q : q = handler[h]
  OBVIOUS
<1>2. q.at \in {"first", "granted", "run"}
  BY <1>1 DEF Decided, MayCall, Run
<1>3. q \in Handler /\ q # Free /\ q.op = "call" /\ (q.at \in {"granted", "run"} => "drawable" \in openings[h])
  BY <1>1, <1>2, AtWork DEF ComponentsInv, CallsPassGates
<1>4. UNCHANGED <<kind, source, listed, withheld, reads, drafts, apart, announced>>
  BY DEF Decided, MayCall, Run, TableVars
<1>5. ASSUME NEW n \in Handler \cup {Free}, handler' = [handler EXCEPT ![h] = n], n # Free => n.op = "call",
             n.at \in {"granted", "run"} => "drawable" \in openings'[h],
             n.at = "run" => "granted" \in openings'[h]
      PROVE  ComponentsInv'
  <2>1. CallsPassGates' /\ handler' \in [Handlers -> Handler \cup {Free}]
    <3>1. n.at \in {"first", "granted", "run"} => n # Free
      BY NothingWritten
    <3> QED
      BY <1>5, <3>1, MovesKeepGates
  <2>2. OneWriterAtATime'
    BY <1>1, <1>3, <1>4, <1>5, CallMoves
  <2> QED
    BY <1>4, <2>1, <2>2, GatesNoted DEF ComponentsInv, ComponentsTypeOK, HiddenWhenGone
<1>6. CASE handler' = [handler EXCEPT ![h] = Free]
  <2>1. PICK n \in Handler \cup {Free} : n = Free
    OBVIOUS
  <2> QED
    BY <1>5, <1>6, <2>1, NothingWritten
<1>7. handler \in [Handlers -> Handler \cup {Free}]
  BY DEF ComponentsInv, ComponentsTypeOK
<1>8. ASSUME NEW n \in Handler, handler' = [handler EXCEPT ![h] = n], n.op = "call", n.by = q.by
      PROVE  openings[h] \subseteq openings'[h] /\ OpenNow(h)' \subseteq openings'[h] /\ handler'[h].by = q.by
  <2>1. handler'[h] = n /\ n # Free
    BY <1>7, <1>8, NothingWritten
  <2>2. IsCall(h)'
    BY <1>8, <2>1 DEF IsCall
  <2> QED
    BY <1>8, <2>1, <2>2, GatesNoted DEF ComponentsInv
<1>9. CASE Decided(h) /\ Drawable(q.by)
  <2>1. PICK n \in Handler : n = [q EXCEPT !.at = "granted"] /\ n.at = "granted" /\ n.op = q.op /\ n.by = q.by
    BY <1>3, Onwards
  <2>2. handler' = [handler EXCEPT ![h] = n]
    BY <1>1, <1>9, <2>1 DEF Decided, Goes
  <2>3. "drawable" \in OpenNow(h)'
    <3>1. handler'[h].by = q.by
      BY <1>3, <1>8, <2>1, <2>2
    <3>2. listed'.published /\ listed'.shown # Never /\ handler'[h].by \notin withheld'
      BY <1>4, <1>9, <3>1 DEF Drawable
    <3> QED
      BY <3>2 DEF OpenNow, Gates
  <2>4. "drawable" \in openings'[h]
    BY <1>3, <1>8, <2>1, <2>2, <2>3
  <2> QED
    BY <1>3, <1>5, <2>1, <2>2, <2>4
<1>10. CASE MayCall(h) /\ reads
  <2>1. PICK n \in Handler : n = [q EXCEPT !.at = "run"] /\ n.at = "run" /\ n.op = q.op /\ n.by = q.by
    BY <1>3, Onwards
  <2>2. handler' = [handler EXCEPT ![h] = n] /\ q.at = "granted"
    BY <1>1, <1>10, <2>1 DEF MayCall, Goes
  <2>3. "granted" \in OpenNow(h)'
    BY <1>4, <1>10 DEF OpenNow, Gates
  <2>4. "granted" \in openings'[h] /\ "drawable" \in openings'[h]
    BY <1>3, <1>8, <2>1, <2>2, <2>3
  <2> QED
    BY <1>3, <1>5, <2>1, <2>2, <2>4
<1> QED
  BY <1>1, <1>6, <1>9, <1>10 DEF Decided, MayCall, Run, Done

(* A request arrives, or is cut short.                                     *)
LEMMA StartingKeeps == ASSUME ComponentsInv, Notes, NEW h \in Handlers, Starts(h) PROVE ComponentsInv'
<1>1. PICK op \in {"save", "publish", "remove", "publishListing", "call"}, b \in Viewers :
         /\ op = "save" => drafts < MaxDrafts
         /\ drafts' = IF op = "save" THEN drafts + 1 ELSE drafts
         /\ handler' = [handler EXCEPT ![h] = [op |-> op, at |-> StartsAt(op), by |-> b,
                                               draft |-> IF op = "save" THEN drafts + 1 ELSE Never]]
         /\ apart' = (apart \/ op = "publishListing" \/ (op # "call" /\ Writing # {}))
  BY DEF Starts
<1>2. handler[h] = Free /\ UNCHANGED <<kind, source, listed, withheld, reads, announced>>
  BY DEF Starts
<1>3. drafts' \in Drafts
  BY <1>1, ComponentsAssumption DEF ComponentsInv, ComponentsTypeOK, Drafts
<1>4. PICK draft \in Drafts : draft = IF op = "save" THEN drafts + 1 ELSE Never
  BY <1>1, <1>3, NothingWritten
<1>5. PICK at \in {"first", "source", "read"} : at = StartsAt(op)
  BY DEF StartsAt
<1>6. /\ at = "first" <=> op = "call"
      /\ at = "read" => op \in {"publish", "publishListing"}
      /\ at = "source" => op \in {"save", "remove"}
  BY <1>5 DEF StartsAt
<1>7. PICK n : n = [op |-> op, at |-> at, by |-> b, draft |-> draft]
  OBVIOUS
<1>8. n \in Handler /\ n.op = op /\ n.at = at /\ n # Free
  <2>1. n \in Handler /\ n.op = op /\ n.at = at
    BY <1>7 DEF Handler
  <2> QED
    BY <2>1, NothingWritten
<1>9. handler' = [handler EXCEPT ![h] = n]
  BY <1>1, <1>4, <1>5, <1>7
<1>10. CallsPassGates' /\ handler' \in [Handlers -> Handler \cup {Free}]
  BY <1>6, <1>8, <1>9, MovesKeepGates
<1>11. handler'[h] = n /\ \A g \in Handlers : g # h => handler'[g] = handler[g]
  BY <1>9 DEF ComponentsInv, ComponentsTypeOK
<1>12. h \notin Writing
  BY <1>2 DEF Writing
<1>13. Writing' = IF op = "call" THEN Writing ELSE Writing \cup {h}
  BY <1>8, <1>11, <1>12 DEF Writing
<1>14. apart' \in BOOLEAN /\ (~apart' => ~apart /\ op # "publishListing" /\ (op = "call" \/ Writing = {}))
  BY <1>1
<1>15. OneWriterAtATime'
  <2> SUFFICES ASSUME kind' = "sandboxed", ~apart'
               PROVE  /\ Writing' = {} => Agree'
                      /\ \A g \in Writing' : Between(handler[g])' /\ Writing' = {g}
    BY DEF OneWriterAtATime
  <2>1. /\ Writing = {} => Agree
        /\ \A g \in Writing : Between(handler[g]) /\ Writing = {g}
    BY <1>2, <1>14 DEF ComponentsInv, OneWriterAtATime
  <2>2. (Agree => Agree') /\ (SamePublished => SamePublished')
    BY <1>2 DEF Agree, SamePublished
  <2>3. CASE op = "call"
    <3>1. ASSUME NEW g \in Writing PROVE Between(handler[g])' /\ Writing = {g}
      <4>1. PICK q : q = handler[g] /\ q = handler'[g]
        BY <1>11, <1>12 DEF Writing
      <4> QED
        BY <1>2, <2>1, <2>2, <4>1 DEF Between
    <3> QED
      BY <1>13, <2>1, <2>2, <2>3, <3>1
  <2>4. CASE op # "call"
    <3>1. Agree' /\ op # "publishListing" /\ Writing' = {h}
      BY <1>13, <1>14, <2>1, <2>2, <2>4
    <3>2. Between(n)'
      BY <1>6, <1>8, <3>1 DEF Between
    <3>3. Between(handler[h])'
      BY <1>11, <3>2 DEF Between
    <3> QED
      BY <3>1, <3>3
  <2> QED
    BY <2>3, <2>4
<1> QED
  BY <1>2, <1>3, <1>10, <1>14, <1>15, GatesNoted DEF ComponentsInv, ComponentsTypeOK, HiddenWhenGone

LEMMA CutShortKeeps == ASSUME ComponentsInv, Notes, NEW h \in Handlers, CutShort(h) PROVE ComponentsInv'
<1>1. /\ handler[h] # Free /\ handler' = [handler EXCEPT ![h] = Free] /\ apart' = (apart \/ h \in Writing)
      /\ UNCHANGED <<kind, source, listed, withheld, reads, drafts, announced>>
  BY DEF CutShort, Done, TableVars
<1>2. PICK n \in Handler \cup {Free} : n = Free
  OBVIOUS
<1>3. CallsPassGates' /\ handler' \in [Handlers -> Handler \cup {Free}]
  BY <1>1, <1>2, NothingWritten, MovesKeepGates
<1>4. OneWriterAtATime'
  <2>1. CASE handler[h].op = "call"
    <3>1. apart' = apart
      BY <1>1, <2>1 DEF Writing, ComponentsInv, ComponentsTypeOK
    <3> QED
      BY <1>1, <1>2, <2>1, <3>1, CallMoves
  <2>2. CASE handler[h].op # "call"
    BY <1>1, <2>2 DEF Writing, OneWriterAtATime
  <2> QED
    BY <2>1, <2>2
<1>5. apart' \in BOOLEAN
  BY <1>1
<1> QED
  BY <1>1, <1>3, <1>4, <1>5, GatesNoted DEF ComponentsInv, ComponentsTypeOK, HiddenWhenGone

(* The routes that write one row, and the grants.                          *)
LEMMA RoutesKeep ==
  ASSUME ComponentsInv, Notes,
         Announce \/ SaveDraft \/ Unpublish \/ GrantFunction \/ \E b \in Viewers : Withhold(b)
  PROVE  ComponentsInv'
<1>1. UNCHANGED <<kind, source, handler, apart>>
  BY DEF Announce, SaveDraft, Unpublish, GrantFunction, Withhold
<1>2. CallsPassGates'
  <2>1. \A h \in Handlers : handler'[h] = handler[h]
    BY <1>1
  <2> QED
    BY <2>1, OthersKeepGates DEF CallsPassGates
<1>3. openings' \in [Handlers -> SUBSET Gates]
  BY GatesNoted DEF ComponentsInv
<1>4. /\ source \in Rows /\ listed \in Rows /\ withheld \subseteq Viewers /\ reads \in BOOLEAN
      /\ drafts \in Drafts /\ announced \in BOOLEAN /\ HiddenWhenGone
  BY DEF ComponentsInv, ComponentsTypeOK
<1>5. Writing' = Writing
  BY <1>1 DEF Writing
<1>6. ASSUME listed' \in Rows, listed.there => listed'.there, Agree => Agree', SamePublished => SamePublished',
             HiddenWhenGone', announced' \in BOOLEAN,
             withheld' \subseteq Viewers, reads' \in BOOLEAN, drafts' \in Drafts
      PROVE  ComponentsInv'
  <2>1. OneWriterAtATime'
    BY <1>1, <1>5, <1>6, WritersStay
  <2> QED
    BY <1>1, <1>2, <1>3, <1>6, <2>1 DEF ComponentsInv, ComponentsTypeOK
<1>7. CASE Announce
  <2>1. PICK l : l = [there |-> TRUE, draft |-> drafts + 1, shown |-> drafts + 1, published |-> TRUE]
    OBVIOUS
  <2>2. /\ drafts < MaxDrafts /\ drafts' = drafts + 1 /\ listed' = l
        /\ announced' = TRUE /\ UNCHANGED <<withheld, reads>>
    BY <1>7, <2>1 DEF Announce
  <2>3. drafts + 1 \in Drafts
    BY <1>4, <2>2, ComponentsAssumption DEF Drafts
  <2>4. l \in Rows /\ l.there = TRUE
    BY <2>1, <2>3 DEF Rows
  <2>5. Agree' /\ SamePublished' /\ HiddenWhenGone'
    BY <2>2, <2>4 DEF Agree, SamePublished, HiddenWhenGone
  <2> QED
    BY <1>4, <1>6, <2>2, <2>3, <2>4, <2>5
<1>8. CASE SaveDraft
  <2>1. drafts < MaxDrafts /\ drafts' = drafts + 1 /\ UNCHANGED <<withheld, reads, announced>>
    BY <1>8 DEF SaveDraft
  <2>2. PICK d \in Drafts : d = drafts + 1
    BY <1>4, <2>1, ComponentsAssumption DEF Drafts
  <2>3. listed' = [listed EXCEPT !.draft = d]
    BY <1>8, <2>1, <2>2 DEF SaveDraft
  <2>4. /\ listed' \in Rows /\ listed'.there = listed.there /\ listed'.published = listed.published
        /\ listed'.shown = listed.shown
    BY <1>4, <2>3 DEF Rows
  <2> QED
    BY <1>1, <1>4, <1>6, <2>1, <2>2, <2>4 DEF Agree, SamePublished, HiddenWhenGone
<1>9. CASE Unpublish
  <2>1. listed' = [listed EXCEPT !.published = FALSE] /\ UNCHANGED <<withheld, reads, drafts, announced>>
    BY <1>9 DEF Unpublish
  <2>2. listed' \in Rows /\ listed'.there = listed.there /\ listed'.published = FALSE
    BY <1>4, <2>1 DEF Rows
  <2> QED
    BY <1>1, <1>4, <1>6, <2>1, <2>2 DEF Agree, SamePublished, HiddenWhenGone
<1>10. CASE GrantFunction
  <2>1. UNCHANGED <<listed, announced, withheld, drafts>> /\ reads' \in BOOLEAN
    BY <1>10 DEF GrantFunction
  <2> QED
    BY <1>1, <1>4, <1>6, <2>1 DEF Agree, SamePublished, HiddenWhenGone
<1>11. CASE \E b \in Viewers : Withhold(b)
  <2>1. UNCHANGED <<listed, announced, reads, drafts>> /\ withheld' \subseteq Viewers
    BY <1>4, <1>11 DEF Withhold
  <2> QED
    BY <1>1, <1>4, <1>6, <2>1 DEF Agree, SamePublished, HiddenWhenGone
<1> QED
  BY <1>7, <1>8, <1>9, <1>10, <1>11

LEMMA ComponentsStep == ComponentsInv /\ [ComponentsNext]_componentVars => ComponentsInv'
<1> SUFFICES ASSUME ComponentsInv, [ComponentsNext]_componentVars PROVE ComponentsInv'
  OBVIOUS
<1>1. CASE UNCHANGED componentVars
  BY <1>1 DEF componentVars, ComponentsInv, ComponentsTypeOK, OneWriterAtATime, CallsPassGates, HiddenWhenGone,
     Writing, Agree, SamePublished, Between
<1>2. CASE ComponentsNext
  BY <1>2, StartingKeeps, CutShortKeeps, WritingKeeps, ReadingKeeps, ComponentCallKeeps, RoutesKeep DEF ComponentsNext
<1> QED
  BY <1>1, <1>2

-----------------------------------------------------------------------------
(* A component written in the browser is drawn as Bots are told of it, and *)
(* a data function runs only for a Bot that could draw it and for a        *)
(* component that was granted it, since the call began                     *)
(* (ComponentsAreGoverned), whatever the routes interleave.                *)
THEOREM ComponentsStayGoverned == ComponentsSpec => []ComponentsAreGoverned
<1>1. ComponentsInv => ComponentsAreGoverned
  <2>1. ComponentsInv => DrawnAsDescribed
    BY DEF ComponentsInv, DrawnAsDescribed, OneWriterAtATime, Agree, SamePublished
  <2>2. ComponentsInv => ReadsAreGoverned
    BY DEF ComponentsInv, ComponentsTypeOK, ReadsAreGoverned, CallsPassGates, Gates
  <2> QED
    BY <2>1, <2>2 DEF ComponentsAreGoverned
<1> QED
  BY <1>1, ComponentsStart, ComponentsStep, PTL DEF ComponentsSpec

-----------------------------------------------------------------------------
(* What the runtime is given: what was read of a coworker was so at some   *)
(* moment since the request began.                                         *)

\* What was read of a coworker was so at some moment since the request began.
AgentAsRead(a) ==
    \E p \in past.rows[a] :
        /\ maySee(loading.actor, a, p)
        /\ \/ given[a].key = p.key
           \/ given[a].key = NoKey /\ <<a, p.key>> \in revokedKeys
AbsentAsRead(a) == \E p \in past.rows[a] : ~maySee(loading.actor, a, p)
Theirs(a) == loading.actor # "nobody" /\ a \in worked
DeletedAsRead(a) == Theirs(a) /\ \E p \in past.rows[a] : ~p.live
LiveAsRead(a) == Theirs(a) => \E p \in past.rows[a] : p.live
KeyIsGood(a) == <<a, given[a].key>> \notin past.revoked
ToolAsRead(a) == given[a].tool \in {p.tool : p \in past.rows[a]}

HistoryCovers ==
    /\ past.revoked \subseteq revokedKeys
    /\ loading.at # "idle" => \A a \in Coworkers : profileOf[a] \in past.rows[a]
ActiveRead ==
    loading.at \in {"profiles", "keys"} /\ "active" \notin loading.unread =>
        \A a \in Coworkers :
            /\ given[a].as = "agent" => AgentAsRead(a)
            /\ given[a].as = "nothing" => AbsentAsRead(a)
            /\ given[a].as # "unavailable"
            /\ a \notin loading.due => KeyIsGood(a)
NothingRead ==
    loading.at = "idle" \/ (loading.at = "profiles" /\ "active" \in loading.unread) =>
        \A a \in Coworkers : given[a] = Nothing
TombstonesRead ==
    loading.at \in {"profiles", "keys"} /\ "tombstones" \notin loading.unread =>
        \A a \in Coworkers :
            IF a \in loading.gone THEN DeletedAsRead(a) ELSE LiveAsRead(a)
Registered ==
    loading.at \in {"model", "tools", "served"} =>
        \A a \in Coworkers :
            /\ given[a].as = "agent" =>
                  AgentAsRead(a) /\ KeyIsGood(a) /\ (a \notin loading.due => ToolAsRead(a))
            /\ given[a].as = "unavailable" => DeletedAsRead(a)
            /\ given[a].as = "nothing" => AbsentAsRead(a) /\ LiveAsRead(a)
StagesInOrder ==
    (loading.at = "keys" => loading.unread = {}) /\ (loading.at = "served" => loading.due = {})

RuntimeInv ==
    /\ RuntimeTypeOK /\ HistoryCovers /\ ActiveRead /\ NothingRead /\ TombstonesRead /\ Registered
    /\ StagesInOrder

-----------------------------------------------------------------------------
(* What the history remembers after a step.                                *)
LEMMA HistoryGrows ==
  ASSUME RuntimeInv, Remembers
  PROVE  /\ loading'.at # "idle" => \A a \in Coworkers :
               past'.rows[a] = past.rows[a] \cup {profileOf'[a]}
         /\ past'.revoked = IF loading.at = "idle" THEN revokedKeys' ELSE past.revoked
  BY DEF Remembers

(* No revoked key is the one that stands for none.                         *)
LEMMA NoKeyIsGood == ASSUME RuntimeInv, NEW a PROVE <<a, NoKey>> \notin revokedKeys
  BY DEF RuntimeInv, RuntimeTypeOK, Keys, NoKey

LEMMA RuntimeStarts == RuntimeInit => RuntimeInv
<1> SUFFICES ASSUME RuntimeInit PROVE RuntimeInv
  OBVIOUS
<1>1. Nothing \in Given
  BY RuntimeAssumption DEF Nothing, Given, NoKey
<1>2. RuntimeTypeOK
  BY <1>1, RuntimeAssumption DEF RuntimeInit, RuntimeTypeOK, NotAsking
<1>3. loading.at = "idle" /\ past.revoked = {}
  BY DEF RuntimeInit, NotAsking
<1> QED
  BY <1>2, <1>3 DEF RuntimeInit, RuntimeInv, HistoryCovers, ActiveRead, NothingRead, TombstonesRead, Registered,
     StagesInOrder

(* What people change leaves what was read as it was read: the history     *)
(* only grows.                                                             *)
LEMMA ChangesKeep ==
  ASSUME RuntimeInv, UNCHANGED <<loading, given, worked>>, RuntimeTypeOK',
         revokedKeys \subseteq revokedKeys', Remembers
  PROVE  RuntimeInv'
<1>1. CASE loading.at = "idle"
  BY <1>1, HistoryGrows DEF RuntimeInv, HistoryCovers, ActiveRead, NothingRead, TombstonesRead, Registered,
     StagesInOrder
<1>2. CASE loading.at # "idle"
  <2>1. /\ \A a \in Coworkers : past'.rows[a] = past.rows[a] \cup {profileOf'[a]}
        /\ past'.revoked = past.revoked
    BY <1>2, HistoryGrows
  <2>2. HistoryCovers'
    BY <2>1 DEF RuntimeInv, HistoryCovers
  <2>3. \A a \in Coworkers :
          /\ AgentAsRead(a) => AgentAsRead(a)'
          /\ AbsentAsRead(a) => AbsentAsRead(a)'
          /\ DeletedAsRead(a) => DeletedAsRead(a)'
          /\ LiveAsRead(a) => LiveAsRead(a)'
          /\ KeyIsGood(a) => KeyIsGood(a)'
          /\ ToolAsRead(a) => ToolAsRead(a)'
    BY <2>1 DEF AgentAsRead, AbsentAsRead, DeletedAsRead, LiveAsRead, KeyIsGood, ToolAsRead, Theirs, maySee
  <2>4. ActiveRead' /\ NothingRead' /\ TombstonesRead' /\ Registered' /\ StagesInOrder'
    BY <2>3 DEF RuntimeInv, ActiveRead, NothingRead, TombstonesRead, Registered, StagesInOrder
  <2> QED
    BY <2>2, <2>4 DEF RuntimeInv
<1> QED
  BY <1>1, <1>2

LEMMA EditsKeep ==
  ASSUME RuntimeInv, Remembers, NEW a \in Coworkers,
         Publishes(a) \/ StoresKey(a) \/ Deletes(a) \/ ChangesGrant(a)
  PROVE  RuntimeInv'
<1>1. /\ UNCHANGED <<revokedKeys, worked, loading, given>>
      /\ edits < MaxEdits /\ edits' = edits + 1
  BY DEF Publishes, StoresKey, Deletes, ChangesGrant, Edits
<1>2. edits' \in 0 .. MaxEdits
  BY <1>1, RuntimeAssumption DEF RuntimeInv, RuntimeTypeOK
<1>3. PICK p \in Profile : p = profileOf[a]
  BY DEF RuntimeInv, RuntimeTypeOK
<1>4. \E n \in Profile : profileOf' = [profileOf EXCEPT ![a] = n]
  <2>1. CASE Publishes(a)
    <3>1. PICK v \in {"private", "public"} : profileOf' = [profileOf EXCEPT ![a] = [p EXCEPT !.visibility = v]]
      BY <1>3, <2>1 DEF Publishes, Edits
    <3> QED
      BY <3>1 DEF Profile
  <2>2. CASE StoresKey(a)
    <3>1. PICK k : k = p.key + 1
      OBVIOUS
    <3>2. k \in 0 .. MaxKeys
      BY <1>3, <2>2, <3>1, RuntimeAssumption DEF StoresKey, Profile
    <3>3. profileOf' = [profileOf EXCEPT ![a] = [p EXCEPT !.key = k]]
      BY <1>3, <2>2, <3>1 DEF StoresKey, Edits
    <3> QED
      BY <3>2, <3>3 DEF Profile
  <2>3. CASE Deletes(a)
    <3>1. profileOf' = [profileOf EXCEPT ![a] = [p EXCEPT !.live = FALSE]]
      BY <1>3, <2>3 DEF Deletes, Edits
    <3> QED
      BY <3>1 DEF Profile
  <2>4. CASE ChangesGrant(a)
    <3>1. PICK t \in BOOLEAN : profileOf' = [profileOf EXCEPT ![a] = [p EXCEPT !.tool = t]]
      BY <1>3, <2>4 DEF ChangesGrant, Edits, Profile
    <3> QED
      BY <3>1 DEF Profile
  <2> QED
    BY <2>1, <2>2, <2>3, <2>4
<1>5. RuntimeTypeOK'
  BY <1>1, <1>2, <1>4 DEF RuntimeInv, RuntimeTypeOK
<1> QED
  BY <1>1, <1>5, ChangesKeep

LEMMA RevokingKeysKeeps ==
  ASSUME RuntimeInv, Remembers, NEW a \in Remote, NEW k \in Keys, RevokesKey(a, k)
  PROVE  RuntimeInv'
<1>1. /\ UNCHANGED <<profileOf, worked, loading, given>> /\ edits < MaxEdits /\ edits' = edits + 1
      /\ revokedKeys' = revokedKeys \cup {<<a, k>>}
  BY DEF RevokesKey, Edits
<1>2. edits' \in 0 .. MaxEdits
  BY <1>1, RuntimeAssumption DEF RuntimeInv, RuntimeTypeOK
<1>3. RuntimeTypeOK'
  BY <1>1, <1>2 DEF RuntimeInv, RuntimeTypeOK
<1> QED
  BY <1>1, <1>3, ChangesKeep

(* A query of a request that is under way changes nothing that the history *)
(* does not hold already.                                                  *)
LEMMA QueriesOnlyRead ==
  ASSUME RuntimeInv, Remembers, NoEdit, loading.at # "idle", loading'.at # "idle",
         loading'.actor = loading.actor
  PROVE  /\ HistoryCovers' /\ past'.revoked = past.revoked
         /\ \A a \in Coworkers : past'.rows[a] = past.rows[a] /\ profileOf[a] \in past.rows[a]
         /\ \A a \in Coworkers :
              /\ given'[a].key = given[a].key => (AgentAsRead(a) => AgentAsRead(a)')
              /\ given'[a].key = given[a].key => (KeyIsGood(a) => KeyIsGood(a)')
              /\ AbsentAsRead(a) => AbsentAsRead(a)'
              /\ DeletedAsRead(a) => DeletedAsRead(a)'
              /\ LiveAsRead(a) => LiveAsRead(a)'
              /\ given'[a].tool = given[a].tool => (ToolAsRead(a) => ToolAsRead(a)')
<1>1. UNCHANGED <<profileOf, revokedKeys, worked>>
  BY DEF NoEdit
<1>2. past'.revoked = past.revoked /\
      \A a \in Coworkers : past'.rows[a] = past.rows[a] /\ profileOf[a] \in past.rows[a]
  <2>1. past'.revoked = past.revoked /\
        \A a \in Coworkers : past'.rows[a] = past.rows[a] \cup {profileOf[a]} /\ profileOf[a] \in past.rows[a]
    BY <1>1, HistoryGrows DEF RuntimeInv, HistoryCovers
  <2>2. ASSUME NEW a \in Coworkers PROVE past'.rows[a] = past.rows[a] /\ profileOf[a] \in past.rows[a]
    <3>1. PICK old, x : old = past.rows[a] /\ x = profileOf[a]
      OBVIOUS
    <3>2. past'.rows[a] = old \cup {x} /\ x \in old
      BY <2>1, <3>1
    <3>3. past'.rows[a] = old
      BY <3>2
    <3> QED
      BY <3>1, <3>2, <3>3
  <2> QED
    BY <2>1, <2>2
<1>3. HistoryCovers'
  BY <1>1, <1>2 DEF RuntimeInv, HistoryCovers
<1> QED
  BY <1>1, <1>2, <1>3
     DEF AgentAsRead, AbsentAsRead, DeletedAsRead, LiveAsRead, KeyIsGood, ToolAsRead, Theirs, maySee

Loadings == [at : {"idle", "profiles", "keys", "model", "tools", "served", "failed"},
             actor : {"user", "admin", "nobody"}, unread : SUBSET {"active", "tombstones"},
             due : SUBSET Coworkers, gone : SUBSET Coworkers]

LEMMA ReadsAreTyped ==
  ASSUME RuntimeInv, NoEdit, loading' \in Loadings, given' \in [Coworkers -> Given]
  PROVE  RuntimeTypeOK'
  BY DEF RuntimeInv, RuntimeTypeOK, NoEdit, Loadings

LEMMA ArrivingKeeps == ASSUME RuntimeInv, Remembers, RequestArrives PROVE RuntimeInv'
<1>1. PICK actor \in {"user", "admin", "nobody"} :
         loading' = [NotAsking EXCEPT !.at = "profiles", !.actor = actor, !.unread = {"active", "tombstones"}]
  BY DEF RequestArrives
<1>2. /\ loading' \in Loadings /\ loading'.at = "profiles" /\ loading'.unread = {"active", "tombstones"}
      /\ UNCHANGED <<given, profileOf, revokedKeys>> /\ loading.at = "idle" /\ NoEdit
  BY <1>1 DEF RequestArrives, NotAsking, Loadings, NoEdit
<1>3. RuntimeTypeOK'
  BY <1>2, ReadsAreTyped DEF RuntimeInv, RuntimeTypeOK
<1>4. HistoryCovers'
  BY <1>2, HistoryGrows DEF HistoryCovers
<1> QED
  BY <1>2, <1>3, <1>4 DEF RuntimeInv, ActiveRead, NothingRead, TombstonesRead, Registered, StagesInOrder

LEMMA ReadingActiveKeeps == ASSUME RuntimeInv, Remembers, selectActiveAgents PROVE RuntimeInv'
<1>1. PICK active : active = {a \in Coworkers : Active(a)}
  OBVIOUS
<1>2. PICK due : due = {a \in active : profileOf[a].key # NoKey}
  OBVIOUS
<1>3. /\ loading.at = "profiles" /\ "active" \in loading.unread /\ NoEdit
      /\ given' = [a \in Coworkers |->
              IF a \in active THEN [Nothing EXCEPT !.as = "agent", !.key = profileOf[a].key] ELSE given[a]]
      /\ loading' = [loading EXCEPT !.unread = @ \ {"active"}, !.due = due]
  BY <1>1, <1>2 DEF selectActiveAgents
<1>4. loading \in Loadings /\ given \in [Coworkers -> Given] /\ profileOf \in [Coworkers -> Profile]
  BY DEF RuntimeInv, RuntimeTypeOK, Loadings
<1>5. /\ loading' \in Loadings /\ loading'.at = "profiles" /\ loading'.actor = loading.actor
      /\ loading'.unread = loading.unread \ {"active"} /\ loading'.due = due /\ loading'.gone = loading.gone
  <2>1. PICK unread : unread = loading.unread \ {"active"}
    OBVIOUS
  <2>2. unread \in SUBSET {"active", "tombstones"} /\ due \in SUBSET Coworkers
    BY <1>1, <1>2, <1>4, <2>1 DEF Loadings
  <2>3. PICK l : l = [loading EXCEPT !.unread = unread]
    OBVIOUS
  <2>4. l \in Loadings /\ l.at = loading.at /\ l.actor = loading.actor /\ l.unread = unread /\ l.gone = loading.gone
    BY <1>4, <2>2, <2>3 DEF Loadings
  <2>5. loading' = [l EXCEPT !.due = due]
    BY <1>3, <2>1, <2>3
  <2> QED
    BY <1>3, <2>1, <2>2, <2>4, <2>5 DEF Loadings
<1>6. \A a \in Coworkers : given[a] = Nothing
  BY <1>3 DEF RuntimeInv, NothingRead
<1>7. ASSUME NEW a \in Coworkers
      PROVE  /\ given'[a] \in Given /\ given'[a].as = IF a \in active THEN "agent" ELSE "nothing"
             /\ given'[a].key = IF a \in active THEN profileOf[a].key ELSE NoKey
  <2>1. PICK k \in 0 .. MaxKeys : k = profileOf[a].key
    BY <1>4 DEF Profile
  <2>2. Nothing \in Given /\ Nothing.as = "nothing" /\ Nothing.key = NoKey
    BY <1>4, <1>6 DEF Nothing, NoKey
  <2>3. PICK named : named = [Nothing EXCEPT !.as = "agent"]
    OBVIOUS
  <2>4. PICK keyed : keyed = [named EXCEPT !.key = k]
    OBVIOUS
  <2>7. keyed \in Given /\ keyed.as = "agent" /\ keyed.key = k
    BY <2>2, <2>3, <2>4 DEF Given
  <2>5. CASE a \in active
    BY <1>3, <2>1, <2>3, <2>4, <2>5, <2>7
  <2>6. CASE a \notin active
    BY <1>3, <1>6, <2>2, <2>6
  <2> QED
    BY <2>5, <2>6
<1>8. RuntimeTypeOK'
  <2>1. given' \in [Coworkers -> Given]
    BY <1>3, <1>7
  <2> QED
    BY <1>3, <1>5, <2>1, ReadsAreTyped
<1>9. HistoryCovers'
  BY <1>3, <1>5, QueriesOnlyRead
<1>10. ActiveRead'
  <2> SUFFICES ASSUME NEW a \in Coworkers
               PROVE  /\ given'[a].as = "agent" => AgentAsRead(a)'
                      /\ given'[a].as = "nothing" => AbsentAsRead(a)'
                      /\ given'[a].as # "unavailable"
                      /\ a \notin loading'.due => KeyIsGood(a)'
    BY DEF ActiveRead
  <2>1. profileOf[a] \in past'.rows[a] /\ past'.revoked = past.revoked
    BY <1>3, <1>5, QueriesOnlyRead
  <2>2. a \in active <=> maySee(loading.actor, a, profileOf[a])
    BY <1>1 DEF Active
  <2>3. given'[a].as = "agent" => AgentAsRead(a)'
    BY <1>5, <1>7, <2>1, <2>2 DEF AgentAsRead, maySee
  <2>4. given'[a].as = "nothing" => AbsentAsRead(a)'
    BY <1>5, <1>7, <2>1, <2>2 DEF AbsentAsRead, maySee
  <2>5. a \notin loading'.due => KeyIsGood(a)'
    <3>1. a \notin due => given'[a].key = NoKey
      BY <1>2, <1>7
    <3> QED
      BY <1>5, <2>1, <3>1, NoKeyIsGood DEF KeyIsGood, RuntimeInv, HistoryCovers
  <2> QED
    BY <1>7, <2>3, <2>4, <2>5
<1>11. NothingRead' /\ Registered' /\ StagesInOrder'
  BY <1>5 DEF NothingRead, Registered, StagesInOrder
<1>12. TombstonesRead'
  BY <1>3, <1>5, QueriesOnlyRead DEF RuntimeInv, TombstonesRead
<1> QED
  BY <1>8, <1>9, <1>10, <1>11, <1>12 DEF RuntimeInv

(* A step that hands on what the request has read, to another place.       *)
LEMMA MovingOnKeeps ==
  ASSUME RuntimeInv, Remembers, NoEdit, UNCHANGED given, loading.at # "idle",
         NEW l \in Loadings, loading' = l, l.at # "idle", l.actor = loading.actor,
         ActiveRead', NothingRead', TombstonesRead', Registered', StagesInOrder'
  PROVE  RuntimeInv'
  BY QueriesOnlyRead, ReadsAreTyped DEF RuntimeInv, RuntimeTypeOK

LEMMA ReadingTombstonesKeeps == ASSUME RuntimeInv, Remembers, selectTombstoneAgents PROVE RuntimeInv'
<1>1. PICK gone : gone = {a \in worked : loading.actor # "nobody" /\ ~profileOf[a].live}
  OBVIOUS
<1>2. PICK unread : unread = loading.unread \ {"tombstones"}
  OBVIOUS
<1>3. /\ loading.at = "profiles" /\ NoEdit /\ UNCHANGED given
      /\ loading' = [loading EXCEPT !.unread = unread, !.gone = gone]
  BY <1>1, <1>2 DEF selectTombstoneAgents
<1>4. loading \in Loadings /\ worked \subseteq Coworkers
  BY DEF RuntimeInv, RuntimeTypeOK, Loadings
<1>5. PICK l : l = loading'
  OBVIOUS
<1>6. /\ l \in Loadings /\ l.at = "profiles" /\ l.actor = loading.actor
      /\ l.unread = unread /\ l.due = loading.due /\ l.gone = gone
  <2>1. unread \in SUBSET {"active", "tombstones"} /\ gone \in SUBSET Coworkers
    BY <1>1, <1>2, <1>4 DEF Loadings
  <2>2. PICK k : k = [loading EXCEPT !.unread = unread]
    OBVIOUS
  <2>3. k \in Loadings /\ k.at = loading.at /\ k.actor = loading.actor /\ k.unread = unread /\ k.due = loading.due
    BY <1>4, <2>1, <2>2 DEF Loadings
  <2>4. l = [k EXCEPT !.gone = gone]
    BY <1>3, <1>5, <2>2
  <2> QED
    BY <1>3, <2>1, <2>3, <2>4 DEF Loadings
<1>7. \A a \in Coworkers :
        /\ AgentAsRead(a) => AgentAsRead(a)'
        /\ KeyIsGood(a) => KeyIsGood(a)'
        /\ AbsentAsRead(a) => AbsentAsRead(a)'
  BY <1>3, <1>5, <1>6, QueriesOnlyRead
<1>8. ActiveRead'
  <2>1. "active" \notin l.unread => "active" \notin loading.unread
    BY <1>2, <1>6
  <2>2. UNCHANGED given
    BY <1>3
  <2>3. "active" \notin loading.unread =>
           \A a \in Coworkers :
              /\ given[a].as = "agent" => AgentAsRead(a)
              /\ given[a].as = "nothing" => AbsentAsRead(a)
              /\ given[a].as # "unavailable"
              /\ a \notin loading.due => KeyIsGood(a)
    BY <1>3 DEF RuntimeInv, ActiveRead
  <2>4. loading.at \in {"profiles", "keys"}
    BY <1>3
  <2> SUFFICES ASSUME l.at \in {"profiles", "keys"}, "active" \notin l.unread, NEW a \in Coworkers
               PROVE  /\ given'[a].as = "agent" => AgentAsRead(a)'
                      /\ given'[a].as = "nothing" => AbsentAsRead(a)'
                      /\ given'[a].as # "unavailable"
                      /\ a \notin l.due => KeyIsGood(a)'
    BY <1>5 DEF ActiveRead
  <2>5. l.due = loading.due
    BY <1>6
  <2>6. /\ given[a].as = "agent" => AgentAsRead(a)
        /\ given[a].as = "nothing" => AbsentAsRead(a)
        /\ given[a].as # "unavailable"
        /\ a \notin loading.due => KeyIsGood(a)
    BY <2>1, <2>3
  <2>7. PICK g : g = given[a] /\ g = given'[a]
    BY <2>2
  <2>8. /\ AgentAsRead(a) => AgentAsRead(a)'
        /\ KeyIsGood(a) => KeyIsGood(a)'
        /\ AbsentAsRead(a) => AbsentAsRead(a)'
    BY <1>7
  <2> QED
    BY <2>5, <2>6, <2>7, <2>8
<1>9. NothingRead'
  BY <1>2, <1>3, <1>5, <1>6 DEF RuntimeInv, NothingRead
<1>10. TombstonesRead'
  <2> SUFFICES ASSUME NEW a \in Coworkers
               PROVE  IF a \in gone THEN DeletedAsRead(a)' ELSE LiveAsRead(a)'
    BY <1>5, <1>6 DEF TombstonesRead
  <2>1. profileOf[a] \in past'.rows[a] /\ UNCHANGED worked
    BY <1>3, <1>5, <1>6, QueriesOnlyRead DEF NoEdit
  <2> QED
    BY <1>1, <1>5, <1>6, <2>1 DEF DeletedAsRead, LiveAsRead, Theirs
<1>11. Registered' /\ StagesInOrder'
  BY <1>5, <1>6 DEF Registered, StagesInOrder
<1> QED
  BY <1>3, <1>5, <1>6, <1>8, <1>9, <1>10, <1>11, MovingOnKeeps

(* The request in another place, with all it has read.                     *)
LEMMA RuntimeOnwards ==
  ASSUME RuntimeInv, NEW at \in {"keys", "tools", "served", "failed"}, Onward(at), NEW l, l = loading'
  PROVE  /\ l \in Loadings /\ l.at = at /\ l.actor = loading.actor /\ l.unread = loading.unread
         /\ l.due = loading.due /\ l.gone = loading.gone
<1>1. loading \in Loadings /\ l = [loading EXCEPT !.at = at]
  BY DEF RuntimeInv, RuntimeTypeOK, Loadings, Onward
<1> QED
  BY <1>1 DEF Loadings

LEMMA AdvancingKeeps ==
  ASSUME RuntimeInv, Remembers, BothRead \/ ModelKey \/ Serve \/ QueryFails
  PROVE  RuntimeInv'
<1>1. PICK l : l = loading'
  OBVIOUS
<1>2. /\ NoEdit /\ UNCHANGED given
      /\ \/ loading.at = "profiles" /\ loading.unread = {} /\ Onward("keys")
         \/ loading.at = "model" /\ Onward("tools")
         \/ loading.at = "tools" /\ loading.due = {} /\ Onward("served")
         \/ loading.at # "idle" /\ Onward("failed")
  BY DEF BothRead, ModelKey, Serve, QueryFails
<1>3. /\ l \in Loadings /\ l.actor = loading.actor /\ l.unread = loading.unread
      /\ l.due = loading.due /\ l.gone = loading.gone
      /\ \/ loading.at = "profiles" /\ loading.unread = {} /\ l.at = "keys"
         \/ loading.at = "model" /\ l.at = "tools"
         \/ loading.at = "tools" /\ loading.due = {} /\ l.at = "served"
         \/ loading.at # "idle" /\ l.at = "failed"
  BY <1>1, <1>2, RuntimeOnwards
<1>4. \A a \in Coworkers :
        /\ AgentAsRead(a) => AgentAsRead(a)'
        /\ KeyIsGood(a) => KeyIsGood(a)'
        /\ AbsentAsRead(a) => AbsentAsRead(a)'
        /\ DeletedAsRead(a) => DeletedAsRead(a)'
        /\ LiveAsRead(a) => LiveAsRead(a)'
        /\ ToolAsRead(a) => ToolAsRead(a)'
  BY <1>1, <1>2, <1>3, QueriesOnlyRead
<1>5. ActiveRead'
  BY <1>1, <1>2, <1>3, <1>4 DEF RuntimeInv, ActiveRead
<1>6. NothingRead' /\ StagesInOrder'
  BY <1>1, <1>3 DEF NothingRead, StagesInOrder
<1>7. TombstonesRead'
  BY <1>1, <1>3, <1>4 DEF RuntimeInv, TombstonesRead
<1>8. Registered'
  BY <1>1, <1>2, <1>3, <1>4 DEF RuntimeInv, Registered
<1> QED
  BY <1>1, <1>2, <1>3, <1>5, <1>6, <1>7, <1>8, MovingOnKeeps

LEMMA ReadingKeyKeeps == ASSUME RuntimeInv, Remembers, NEW a \in Coworkers, ReadKey(a) PROVE RuntimeInv'
<1>1. PICK due : due = loading.due \ {a}
  OBVIOUS
<1>2. PICK g \in Given : g = given[a]
  BY DEF RuntimeInv, RuntimeTypeOK
<1>3. PICK key : key = IF <<a, g.key>> \in revokedKeys THEN NoKey ELSE g.key
  OBVIOUS
<1>4. PICK h : h = [g EXCEPT !.key = key]
  OBVIOUS
<1>5. /\ loading.at = "keys" /\ a \in loading.due /\ NoEdit /\ loading' = [loading EXCEPT !.due = due]
      /\ given' = [given EXCEPT ![a] = h]
  BY <1>1, <1>2, <1>3, <1>4 DEF ReadKey
<1>6. loading \in Loadings /\ given \in [Coworkers -> Given]
  BY DEF RuntimeInv, RuntimeTypeOK, Loadings
<1>7. PICK l : l = loading'
  OBVIOUS
<1>8. /\ l \in Loadings /\ l.at = "keys" /\ l.actor = loading.actor
      /\ l.unread = loading.unread /\ l.due = due /\ l.gone = loading.gone
  BY <1>1, <1>5, <1>6, <1>7 DEF Loadings
<1>9. h \in Given /\ h.as = g.as /\ h.key = key /\ h.tool = g.tool
  BY <1>2, <1>3, <1>4, RuntimeAssumption DEF Given, NoKey
<1>10. given' \in [Coworkers -> Given] /\ given'[a] = h /\ \A b \in Coworkers \ {a} : given'[b] = given[b]
  BY <1>5, <1>6, <1>9
<1>11. RuntimeTypeOK'
  BY <1>5, <1>7, <1>8, <1>10, ReadsAreTyped
<1>12. HistoryCovers' /\ past'.revoked = past.revoked /\ past.revoked \subseteq revokedKeys
       /\ past'.rows[a] = past.rows[a]
  BY <1>5, <1>7, <1>8, QueriesOnlyRead DEF RuntimeInv, HistoryCovers
<1>13. loading.unread = {}
  BY <1>5 DEF RuntimeInv, StagesInOrder
<1>14. \A b \in Coworkers :
         /\ given[b].as = "agent" => AgentAsRead(b)
         /\ given[b].as = "nothing" => AbsentAsRead(b)
         /\ given[b].as # "unavailable"
         /\ b \notin loading.due => KeyIsGood(b)
  BY <1>5, <1>13 DEF RuntimeInv, ActiveRead
<1>15. ActiveRead'
  <2> SUFFICES ASSUME NEW b \in Coworkers
               PROVE  /\ given'[b].as = "agent" => AgentAsRead(b)'
                      /\ given'[b].as = "nothing" => AbsentAsRead(b)'
                      /\ given'[b].as # "unavailable"
                      /\ b \notin l.due => KeyIsGood(b)'
    BY <1>7 DEF ActiveRead
  <2>1. AbsentAsRead(b) => AbsentAsRead(b)'
    BY <1>5, <1>7, <1>8, QueriesOnlyRead
  <2>2. CASE b # a
    <3>1. (AgentAsRead(b) => AgentAsRead(b)') /\ (KeyIsGood(b) => KeyIsGood(b)')
      BY <1>5, <1>7, <1>8, <1>10, <2>2, QueriesOnlyRead
    <3> QED
      BY <1>1, <1>8, <1>10, <1>14, <2>1, <2>2, <3>1
  <2>3. CASE b = a
    <3>1. given'[a].as = given[a].as /\ given'[a].key = key
      BY <1>2, <1>9, <1>10
    <3>2. KeyIsGood(a)'
      <4>1. <<a, key>> \notin revokedKeys
        BY <1>3, NoKeyIsGood
      <4> QED
        BY <1>12, <3>1, <4>1 DEF KeyIsGood
    <3>3. given[a].as = "agent" => AgentAsRead(a)'
      <4> SUFFICES ASSUME given[a].as = "agent" PROVE AgentAsRead(a)'
        OBVIOUS
      <4>1. PICK p \in past.rows[a] :
               /\ maySee(loading.actor, a, p)
               /\ g.key = p.key \/ (g.key = NoKey /\ <<a, p.key>> \in revokedKeys)
        BY <1>2, <1>14 DEF AgentAsRead
      <4>2. maySee(l.actor, a, p)
        BY <1>8, <4>1 DEF maySee
      <4>3. key = p.key \/ (key = NoKey /\ <<a, p.key>> \in revokedKeys)
        BY <1>3, <4>1
      <4>4. UNCHANGED revokedKeys
        BY <1>5 DEF NoEdit
      <4> QED
        BY <1>7, <1>12, <3>1, <4>2, <4>3, <4>4 DEF AgentAsRead, maySee
    <3> QED
      BY <1>14, <2>1, <2>3, <3>1, <3>2, <3>3
  <2> QED
    BY <2>2, <2>3
<1>16. NothingRead' /\ Registered' /\ StagesInOrder'
  BY <1>7, <1>8, <1>13 DEF NothingRead, Registered, StagesInOrder
<1>17. TombstonesRead'
  <2>1. \A b \in Coworkers : (DeletedAsRead(b) => DeletedAsRead(b)') /\ (LiveAsRead(b) => LiveAsRead(b)')
    BY <1>5, <1>7, <1>8, QueriesOnlyRead
  <2> QED
    BY <1>5, <1>7, <1>8, <2>1 DEF RuntimeInv, TombstonesRead
<1> QED
  BY <1>11, <1>12, <1>15, <1>16, <1>17 DEF RuntimeInv

LEMMA RegisteringKeeps == ASSUME RuntimeInv, Remembers, Register PROVE RuntimeInv'
<1>1. PICK served : served = Served
  OBVIOUS
<1>2. PICK at \in {"failed", "model", "tools"} : loading' = [loading EXCEPT !.at = at, !.due = served]
  BY <1>1 DEF Register
<1>3. PICK hidden : hidden = [Nothing EXCEPT !.as = "unavailable"]
  OBVIOUS
<1>4. /\ loading.at = "keys" /\ loading.due = {} /\ NoEdit
      /\ given' = [a \in Coworkers |-> IF a \in loading.gone \ served THEN hidden ELSE given[a]]
  BY <1>1, <1>3 DEF Register
<1>5. loading \in Loadings /\ given \in [Coworkers -> Given] /\ served \in SUBSET Coworkers
  BY <1>1 DEF RuntimeInv, RuntimeTypeOK, Loadings, Served
<1>6. hidden \in Given /\ hidden.as = "unavailable"
  <2>1. Nothing \in Given
    BY RuntimeAssumption DEF Nothing, Given, NoKey
  <2>2. PICK n \in Given : n = Nothing
    BY <2>1
  <2> QED
    BY <1>3, <2>2 DEF Given
<1>7. PICK l : l = loading'
  OBVIOUS
<1>8. /\ l \in Loadings /\ l.at = at /\ l.actor = loading.actor
      /\ l.unread = loading.unread /\ l.due = served /\ l.gone = loading.gone
  <2>1. PICK k : k = [loading EXCEPT !.at = at]
    OBVIOUS
  <2>2. k \in Loadings /\ k.at = at /\ k.actor = loading.actor /\ k.unread = loading.unread /\ k.gone = loading.gone
    BY <1>5, <2>1 DEF Loadings
  <2>3. l = [k EXCEPT !.due = served]
    BY <1>2, <1>7, <2>1
  <2> QED
    BY <1>5, <2>2, <2>3 DEF Loadings
<1>9. RuntimeTypeOK'
  <2>1. given' \in [Coworkers -> Given]
    BY <1>4, <1>5, <1>6
  <2> QED
    BY <1>4, <1>7, <1>8, <2>1, ReadsAreTyped
<1>10. HistoryCovers'
  BY <1>4, <1>7, <1>8, QueriesOnlyRead
<1>11. loading.unread = {}
  BY <1>4 DEF RuntimeInv, StagesInOrder
<1>12. \A a \in Coworkers :
         /\ given[a].as = "agent" => AgentAsRead(a)
         /\ given[a].as = "nothing" => AbsentAsRead(a)
         /\ given[a].as # "unavailable"
         /\ KeyIsGood(a)
         /\ IF a \in loading.gone THEN DeletedAsRead(a) ELSE LiveAsRead(a)
  BY <1>4, <1>11 DEF RuntimeInv, ActiveRead, TombstonesRead
<1>13. Registered'
  <2> SUFFICES ASSUME NEW a \in Coworkers
               PROVE  /\ given'[a].as = "agent" => AgentAsRead(a)' /\ KeyIsGood(a)' /\ a \in served
                      /\ given'[a].as = "unavailable" => DeletedAsRead(a)'
                      /\ given'[a].as = "nothing" => AbsentAsRead(a)' /\ LiveAsRead(a)'
    BY <1>7, <1>8 DEF Registered
  <2>1. /\ given'[a].key = given[a].key => (AgentAsRead(a) => AgentAsRead(a)')
        /\ given'[a].key = given[a].key => (KeyIsGood(a) => KeyIsGood(a)')
        /\ AbsentAsRead(a) => AbsentAsRead(a)'
        /\ DeletedAsRead(a) => DeletedAsRead(a)'
        /\ LiveAsRead(a) => LiveAsRead(a)'
    BY <1>4, <1>7, <1>8, QueriesOnlyRead
  <2>2. a \in served <=> given[a].as = "agent"
    BY <1>1 DEF Served
  <2>3. CASE a \in loading.gone \ served
    BY <1>4, <1>6, <1>12, <2>1, <2>3
  <2>4. CASE a \notin loading.gone \ served
    <3>1. given'[a] = given[a]
      BY <1>4, <2>4
    <3> QED
      BY <1>12, <2>1, <2>2, <2>4, <3>1
  <2> QED
    BY <2>3, <2>4
<1>14. ActiveRead' /\ NothingRead' /\ TombstonesRead' /\ StagesInOrder'
  BY <1>7, <1>8 DEF ActiveRead, NothingRead, TombstonesRead, StagesInOrder
<1> QED
  BY <1>9, <1>10, <1>13, <1>14 DEF RuntimeInv

LEMMA LoadingToolsKeeps == ASSUME RuntimeInv, Remembers, NEW a \in Coworkers, LoadTools(a) PROVE RuntimeInv'
<1>1. PICK due : due = loading.due \ {a}
  OBVIOUS
<1>2. PICK g \in Given : g = given[a]
  BY DEF RuntimeInv, RuntimeTypeOK
<1>3. PICK tool \in BOOLEAN : tool = profileOf[a].tool
  BY DEF RuntimeInv, RuntimeTypeOK, Profile
<1>4. PICK h : h = [g EXCEPT !.tool = tool]
  OBVIOUS
<1>5. /\ loading.at = "tools" /\ NoEdit /\ loading' = [loading EXCEPT !.due = due]
      /\ given' = [given EXCEPT ![a] = h]
  BY <1>1, <1>2, <1>3, <1>4 DEF LoadTools
<1>6. loading \in Loadings /\ given \in [Coworkers -> Given]
  BY DEF RuntimeInv, RuntimeTypeOK, Loadings
<1>7. PICK l : l = loading'
  OBVIOUS
<1>8. /\ l \in Loadings /\ l.at = "tools" /\ l.actor = loading.actor
      /\ l.unread = loading.unread /\ l.due = due /\ l.gone = loading.gone
  BY <1>1, <1>5, <1>6, <1>7 DEF Loadings
<1>9. h \in Given /\ h.as = g.as /\ h.key = g.key /\ h.tool = tool
  BY <1>2, <1>3, <1>4 DEF Given
<1>10. given' \in [Coworkers -> Given] /\ given'[a] = h /\ \A b \in Coworkers \ {a} : given'[b] = given[b]
  BY <1>5, <1>6, <1>9
<1>11. RuntimeTypeOK'
  BY <1>5, <1>7, <1>8, <1>10, ReadsAreTyped
<1>12. HistoryCovers' /\ profileOf[a] \in past'.rows[a]
  BY <1>5, <1>7, <1>8, QueriesOnlyRead
<1>13. \A b \in Coworkers : given'[b].as = given[b].as /\ given'[b].key = given[b].key
  BY <1>2, <1>9, <1>10
<1>14. Registered'
  <2> SUFFICES ASSUME NEW b \in Coworkers
               PROVE  /\ given[b].as = "agent" =>
                            AgentAsRead(b)' /\ KeyIsGood(b)' /\ (b \notin due => ToolAsRead(b)')
                      /\ given[b].as = "unavailable" => DeletedAsRead(b)'
                      /\ given[b].as = "nothing" => AbsentAsRead(b)' /\ LiveAsRead(b)'
    BY <1>7, <1>8, <1>13 DEF Registered
  <2>1. /\ (AgentAsRead(b) => AgentAsRead(b)') /\ (KeyIsGood(b) => KeyIsGood(b)')
        /\ AbsentAsRead(b) => AbsentAsRead(b)'
        /\ DeletedAsRead(b) => DeletedAsRead(b)'
        /\ LiveAsRead(b) => LiveAsRead(b)'
        /\ given'[b].tool = given[b].tool => (ToolAsRead(b) => ToolAsRead(b)')
    BY <1>5, <1>7, <1>8, <1>13, QueriesOnlyRead
  <2>2. /\ given[b].as = "agent" => AgentAsRead(b) /\ KeyIsGood(b) /\ (b \notin loading.due => ToolAsRead(b))
        /\ given[b].as = "unavailable" => DeletedAsRead(b)
        /\ given[b].as = "nothing" => AbsentAsRead(b) /\ LiveAsRead(b)
    BY <1>5 DEF RuntimeInv, Registered
  <2>3. CASE b # a
    BY <1>1, <1>10, <2>1, <2>2, <2>3
  <2>4. CASE b = a
    <3>1. ToolAsRead(a)'
      BY <1>3, <1>9, <1>10, <1>12 DEF ToolAsRead
    <3> QED
      BY <2>1, <2>2, <2>4, <3>1
  <2> QED
    BY <2>3, <2>4
<1>15. ActiveRead' /\ NothingRead' /\ TombstonesRead' /\ StagesInOrder'
  BY <1>7, <1>8 DEF ActiveRead, NothingRead, TombstonesRead, StagesInOrder
<1> QED
  BY <1>11, <1>12, <1>14, <1>15 DEF RuntimeInv

LEMMA RuntimeStepsKeep == RuntimeInv /\ [RuntimeNext]_runtimeVars => RuntimeInv'
<1> SUFFICES ASSUME RuntimeInv, [RuntimeNext]_runtimeVars PROVE RuntimeInv'
  OBVIOUS
<1>1. CASE UNCHANGED runtimeVars
  <2>1. UNCHANGED <<profileOf, revokedKeys, worked, edits, loading, given, past>>
    BY <1>1 DEF runtimeVars
  <2>2. RuntimeTypeOK' /\ HistoryCovers' /\ ActiveRead' /\ NothingRead'
    BY <2>1 DEF RuntimeInv, RuntimeTypeOK, HistoryCovers, ActiveRead, NothingRead, AgentAsRead, AbsentAsRead,
       KeyIsGood, maySee
  <2>3. TombstonesRead' /\ Registered' /\ StagesInOrder'
    BY <2>1 DEF RuntimeInv, TombstonesRead, Registered, StagesInOrder, AgentAsRead, AbsentAsRead, DeletedAsRead,
       LiveAsRead, Theirs, KeyIsGood, ToolAsRead, maySee
  <2> QED
    BY <2>2, <2>3 DEF RuntimeInv
<1>2. CASE RuntimeNext
  <2>1. Remembers
    BY <1>2 DEF RuntimeNext
  <2>2. CASE Reads
    BY <2>1, <2>2, ArrivingKeeps, ReadingActiveKeeps, ReadingTombstonesKeeps, AdvancingKeeps, RegisteringKeeps,
       ReadingKeyKeeps, LoadingToolsKeeps DEF Reads
  <2>3. CASE \E a \in Coworkers : Publishes(a) \/ StoresKey(a) \/ Deletes(a) \/ ChangesGrant(a)
    BY <2>1, <2>3, EditsKeep
  <2>4. CASE \E a \in Remote, k \in Keys : RevokesKey(a, k)
    BY <2>1, <2>4, RevokingKeysKeeps
  <2> QED
    BY <1>2, <2>2, <2>3, <2>4 DEF RuntimeNext
<1> QED
  BY <1>1, <1>2

(* Of every coworker the runtime is given what was so at a moment of the   *)
(* request, never a private one of somebody else's, a key revoked before   *)
(* or a tool it did not hold, whatever people change between its queries   *)
(* (createRequestAgents).                                                  *)
THEOREM CoworkersStayAsTheyWere == RuntimeSpec => []CoworkersAreAsTheyWere
<1>1. RuntimeInv => CoworkersAreAsTheyWere
  <2> SUFFICES ASSUME RuntimeInv, loading.at = "served", NEW a \in Coworkers
               PROVE  LET rows == past.rows[a]
                          theirs == loading.actor # "nobody" /\ a \in worked
                      IN  CASE given[a].as = "agent" ->
                                 /\ \E p \in rows :
                                      /\ maySee(loading.actor, a, p)
                                      /\ \/ given[a].key = p.key
                                         \/ given[a].key = NoKey /\ <<a, p.key>> \in revokedKeys
                                 /\ <<a, given[a].key>> \notin past.revoked
                                 /\ given[a].tool \in {p.tool : p \in rows}
                            [] given[a].as = "unavailable" -> theirs /\ \E p \in rows : ~p.live
                            [] OTHER ->
                                 /\ \E p \in rows : ~maySee(loading.actor, a, p)
                                 /\ theirs => \E p \in rows : p.live
    BY DEF CoworkersAreAsTheyWere
  <2>1. loading.due = {}
    BY DEF RuntimeInv, StagesInOrder
  <2>2. /\ given[a].as = "agent" => AgentAsRead(a) /\ KeyIsGood(a) /\ ToolAsRead(a)
        /\ given[a].as = "unavailable" => DeletedAsRead(a)
        /\ given[a].as = "nothing" => AbsentAsRead(a) /\ LiveAsRead(a)
    BY <2>1 DEF RuntimeInv, Registered
  <2>3. CASE given[a].as = "agent"
    BY <2>2, <2>3 DEF AgentAsRead, KeyIsGood, ToolAsRead
  <2>4. CASE given[a].as = "unavailable"
    BY <2>2, <2>4 DEF DeletedAsRead, Theirs
  <2>5. CASE given[a].as = "nothing"
    BY <2>2, <2>5 DEF AbsentAsRead, LiveAsRead, Theirs
  <2>6. given[a].as \in {"nothing", "agent", "unavailable"}
    BY DEF RuntimeInv, RuntimeTypeOK, Given
  <2> QED
    BY <2>3, <2>4, <2>5, <2>6
<1> QED
  BY <1>1, RuntimeStarts, RuntimeStepsKeep, PTL DEF RuntimeSpec

-----------------------------------------------------------------------------
(* What Bots are given, and the calls, requests and reads that change it   *)
(* or go by it, are always of their types (GivenTypeOK).                   *)
THEOREM GivenTypeCorrect == MCSpec => []GivenTypeOK
<1>1. MCInit => IInv /\ SkillsInv /\ ComponentsInv /\ RuntimeInv
  BY InitIInv, SkillsStart, ComponentsStart, RuntimeStarts DEF MCInit
<1>2. [MCNext]_givenVars => /\ [ToolsNext]_toolVars /\ [SkillsNext]_skillVars
                           /\ [ComponentsNext]_componentVars /\ [RuntimeNext]_runtimeVars
  BY DEF MCNext, givenVars
<1>3. IInv /\ SkillsInv /\ ComponentsInv /\ RuntimeInv /\ [MCNext]_givenVars
         => (IInv /\ SkillsInv /\ ComponentsInv /\ RuntimeInv)'
  BY <1>2, NextIInv, SkillStepsKeep, ComponentsStep, RuntimeStepsKeep
<1>4. IInv /\ SkillsInv /\ ComponentsInv /\ RuntimeInv => GivenTypeOK
  BY DEF IInv, SkillsInv, ComponentsInv, RuntimeInv, GivenTypeOK
<1> QED
  BY <1>1, <1>3, <1>4, PTL DEF MCSpec

=============================================================================
