---------------------------- MODULE Gateway_proofs ----------------------------
(* Proofs about Gateway, for any calls, policy, bounds and failures, about *)
(* the history that MC_Governance adds to it, and about PolicyStore.       *)
EXTENDS MC_Governance, TLAPS

Forwarded(c) == <<c, "allowed">> \in audit \/ <<c, "dry-run">> \in audit

(* A call past its row, and not refused, has the row that let it through.  *)
PastItsRow ==
    \A c \in Calls : call[c].at \in {"act", "reply", "failure", "orphan"} => Forwarded(c)

IInv == TypeOK /\ PastItsRow /\ NothingActsUnrecorded

(* The name of a call and an await move the call and nothing else.         *)
LEMMA GoesTyped ==
  ASSUME TypeOK, NEW c \in Calls \cup Handovers, NEW await \in Awaits, Goes(c, await)
  PROVE  /\ call' \in [Calls \cup Handovers -> CallState]
         /\ call'[c].at = await
         /\ \A d \in Calls \cup Handovers : d # c => call'[d] = call[d]
<1>1. call[c] \in CallState
  BY DEF TypeOK
<1>2. [call[c] EXCEPT !.at = await] \in CallState /\ [call[c] EXCEPT !.at = await].at = await
  BY <1>1 DEF CallState
<1>3. call' = [call EXCEPT ![c] = [call[c] EXCEPT !.at = await]]
  BY DEF Goes
<1> HIDE DEF CallState
<1>4. call \in [Calls \cup Handovers -> CallState]
  BY DEF TypeOK
<1> QED
  BY <1>2, <1>3, <1>4

(* A step of one call that only adds rows, and lets the call past its row  *)
(* only with the row, keeps PastItsRow.                                    *)
LEMMA OneCallMoves ==
  ASSUME TypeOK, PastItsRow, NEW c \in Calls \cup Handovers, NEW await \in Awaits, Goes(c, await),
         audit \subseteq audit',
         c \in Calls /\ await \in {"act", "reply", "failure", "orphan"} => Forwarded(c)'
  PROVE  PastItsRow'
<1> SUFFICES ASSUME NEW d \in Calls, call'[d].at \in {"act", "reply", "failure", "orphan"}
             PROVE  Forwarded(d)'
  BY DEF PastItsRow
<1>1. CASE d = c
  BY <1>1, GoesTyped
<1>2. CASE d # c
  <2>1. call'[d] = call[d]
    BY <1>2, GoesTyped
  <2>2. Forwarded(d)
    BY <2>1 DEF PastItsRow
  <2> QED
    BY <2>2 DEF Forwarded
<1> QED
  BY <1>1, <1>2

(* Steps that leave landed alone and only add rows keep the trail whole.   *)
LEMMA TrailKept ==
  ASSUME NothingActsUnrecorded, audit \subseteq audit', landed' = landed
  PROVE  NothingActsUnrecorded'
BY DEF NothingActsUnrecorded

(* Steps that keep the row a call stands past keep PastItsRow.             *)
LEMMA RowsKept ==
  ASSUME PastItsRow, audit \subseteq audit',
         \A c \in Calls : call'[c].at \in {"act", "reply", "failure", "orphan"} => call[c].at = call'[c].at
  PROVE  PastItsRow'
BY DEF PastItsRow, Forwarded

(* A computer's end ends the requests that were on their way to it alone.  *)
LEMMA BereftTyped ==
  ASSUME TypeOK
  PROVE  /\ Bereft \in [Calls \cup Handovers -> CallState]
         /\ \A d \in Calls \cup Handovers :
              /\ \/ Bereft[d] = call[d] /\ call[d].at # "orphan"
                 \/ Bereft[d].at = "unrecorded"
              /\ Bereft[d].gen = call[d].gen /\ Bereft[d].given = call[d].given
              /\ Bereft[d].judged = call[d].judged
<1> SUFFICES ASSUME NEW d \in Calls \cup Handovers
             PROVE  /\ Bereft[d] \in CallState
                    /\ \/ Bereft[d] = call[d] /\ call[d].at # "orphan"
                       \/ Bereft[d].at = "unrecorded"
                    /\ Bereft[d].gen = call[d].gen /\ Bereft[d].given = call[d].given
                    /\ Bereft[d].judged = call[d].judged
  BY DEF TypeOK, Bereft
<1>1. call[d] \in CallState
  BY DEF TypeOK
<1>2. PICK r : r = [call[d] EXCEPT !.at = "unrecorded"]
  OBVIOUS
<1>3. /\ r \in CallState /\ r.at = "unrecorded"
      /\ r.gen = call[d].gen /\ r.given = call[d].given /\ r.judged = call[d].judged
  BY <1>1, <1>2 DEF CallState, Awaits
<1>4. Bereft[d] = IF At(d, "orphan") THEN r ELSE call[d]
  BY <1>2 DEF Bereft, TypeOK
<1> HIDE DEF CallState
<1> QED
  BY <1>1, <1>3, <1>4 DEF At

(* The generation moves on.                                                *)
LEMMA MovedOn ==
  ASSUME TypeOK, NEW names \in Contexts, screen' = [screen EXCEPT !.gen = @ + 1, !.names = names]
  PROVE  /\ screen' \in Snapshots
         /\ screen'.life = screen.life /\ screen'.gen = screen.gen + 1 /\ screen'.names = names
<1>1. screen \in [life : Nat, gen : Nat, names : Contexts]
  BY DEF TypeOK, Snapshots
<1>2. screen = [life |-> screen.life, gen |-> screen.gen, names |-> screen.names]
      /\ screen.life \in Nat /\ screen.gen \in Nat
  BY <1>1
<1>3. screen' = [life |-> screen.life, gen |-> screen.gen + 1, names |-> names]
  BY <1>2
<1> QED
  BY <1>2, <1>3 DEF Snapshots

(* What a new computer is.                                                 *)
LEMMA NewComputerTyped ==
  ASSUME TypeOK, NewComputer
  PROVE  /\ screen' \in Snapshots /\ held' = {}
         /\ screen'.gen = 0 /\ screen'.life # screen.life
BY GatewayAssumption DEF TypeOK, NewComputer, Snapshots

(* A handover moves itself, and ends what was bereft of its computer.      *)
LEMMA ComputerDoesTyped ==
  ASSUME TypeOK, NEW h \in Calls \cup Handovers, NEW await \in Awaits, ComputerDoes(h, await)
  PROVE  /\ call' \in [Calls \cup Handovers -> CallState]
         /\ call'[h].at = await
         /\ \A d \in Calls \cup Handovers : d # h => call'[d] = call[d] \/ call'[d].at = "unrecorded"
         /\ screen' \in Snapshots /\ held' \subseteq Nat
<1>1. CASE UNCHANGED <<screen, held>> /\ Goes(h, await)
  BY <1>1, GoesTyped DEF TypeOK
<1>2. CASE NewComputer /\ call' = [Bereft EXCEPT ![h].at = await]
  <2>1. Bereft[h] \in CallState
    BY BereftTyped
  <2>2. PICK r : r = [Bereft[h] EXCEPT !.at = await]
    OBVIOUS
  <2>3. r \in CallState /\ r.at = await
    BY <2>1, <2>2 DEF CallState
  <2>4. call' = [Bereft EXCEPT ![h] = r]
    BY <1>2, <2>2
  <2> HIDE DEF CallState
  <2>5. call' \in [Calls \cup Handovers -> CallState] /\ call'[h] = r
        /\ \A d \in Calls \cup Handovers : d # h => call'[d] = Bereft[d]
    BY <2>3, <2>4, BereftTyped
  <2>6. screen' \in Snapshots /\ held' = {}
    BY <1>2, NewComputerTyped
  <2> QED
    BY <2>3, <2>5, <2>6, BereftTyped
<1> QED
  BY <1>1, <1>2 DEF ComputerDoes

(* A handover never stands for an action of a Bot in the trail.            *)
LEMMA HandoverKeepsTrail ==
  ASSUME NothingActsUnrecorded, NEW h \in Handovers, audit' = audit,
         landed' \in {landed, landed \cup {[call |-> h, touched |-> screen.names]}}
  PROVE  NothingActsUnrecorded'
<1>1. h \notin Calls
  BY GatewayAssumption
<1> QED
  BY <1>1 DEF NothingActsUnrecorded

-----------------------------------------------------------------------------
(* A step of govern keeps the invariant.                                   *)
LEMMA ActingKeeps ==
  ASSUME IInv, NEW c \in Calls, Acting(c)
  PROVE  IInv'
<1> c \in Calls \cup Handovers
  OBVIOUS
<1>a. TypeOK /\ PastItsRow /\ NothingActsUnrecorded
  BY DEF IInv
<1>b. call[c] \in CallState
  BY <1>a DEF TypeOK
<1>1. ASSUME NEW gen \in 0..MaxGen, NEW policy \in Policies, Govern(c, gen, policy)
      PROVE  IInv'
  <2>1. gen \in Nat /\ resolve(gen) \in Contexts
    BY <1>a, GatewayAssumption DEF TypeOK, NoRef, resolve
  <2>2. [at |-> "record", gen |-> gen, given |-> gen \in held,
         judged |-> resolve(gen), policy |-> policy] \in CallState
    BY <2>1 DEF CallState, Awaits
  <2>3. TypeOK'
    BY <1>1, <1>a, <2>2 DEF TypeOK, Govern
  <2>4. \A d \in Calls : call'[d].at = IF d = c THEN "record" ELSE call[d].at
    BY <1>1, <1>a DEF TypeOK, Govern
  <2>5. PastItsRow'
    BY <1>1, <1>a, <2>4 DEF PastItsRow, Forwarded, Govern
  <2>6. NothingActsUnrecorded'
    BY <1>1, <1>a DEF NothingActsUnrecorded, Govern
  <2> QED
    BY <2>3, <2>5, <2>6 DEF IInv
<1>2. ASSUME Record(c) PROVE IInv'
  <2> DEFINE d == Decided(c)
             to == IF d.forward THEN "act" ELSE "over"
  <2>1. to \in Awaits /\ Goes(c, to)
    BY <1>2 DEF Record, Awaits
  <2>2. RowOf(d) \in RowKinds /\ (d.forward => RowOf(d) \in {"allowed", "dry-run"})
    BY DEF RowOf, RowKinds
  <2>3. audit' = audit \cup {<<c, RowOf(d)>>}
    BY <1>2 DEF Record, Rows
  <2> HIDE DEF d
  <2>4. audit' \subseteq (Calls \cup Handovers) \X RowKinds
    BY <1>a, <2>2, <2>3 DEF TypeOK
  <2>5. TypeOK'
    BY <1>2, <1>a, <2>1, <2>4, GoesTyped DEF TypeOK, Record
  <2>6. to \in {"act", "reply", "failure", "orphan"} => Forwarded(c)'
    BY <2>2, <2>3 DEF Forwarded
  <2>7. PastItsRow'
    BY <1>a, <2>1, <2>3, <2>6, OneCallMoves
  <2>8. NothingActsUnrecorded'
    BY <1>2, <1>a, <2>3, TrailKept DEF Record
  <2> QED
    BY <2>5, <2>7, <2>8 DEF IInv
<1>3. ASSUME Lands(c) PROVE IInv'
  <2>1. Forwarded(c)
    BY <1>3, <1>a DEF Lands, At, PastItsRow
  <2>2. PICK to \in {"reply", "unrecorded"} : Goes(c, to)
    BY <1>3 DEF Lands
  <2>3. to \in Awaits
    BY DEF Awaits
  <2>4. landed' = landed \cup {[call |-> c, touched |-> screen.names]} /\ audit' = audit
    BY <1>3 DEF Lands
  <2>5. landed' \subseteq [call : Calls \cup Handovers, touched : Contexts]
    BY <1>a, <2>4 DEF TypeOK, Snapshots
  <2>a. screen' \in Snapshots
    <3>1. CASE UNCHANGED screen
      BY <1>a, <3>1 DEF TypeOK
    <3>2. CASE Navigates
      BY <1>a, <3>2, MovedOn, GatewayAssumption DEF Navigates
    <3> QED
      BY <1>3, <3>1, <3>2 DEF Lands
  <2>6. TypeOK'
    BY <1>3, <1>a, <2>2, <2>3, <2>5, <2>a, GoesTyped DEF TypeOK, Lands
  <2>7. PastItsRow'
    BY <1>a, <2>1, <2>2, <2>3, <2>4, OneCallMoves DEF Forwarded
  <2>8. NothingActsUnrecorded'
    BY <1>a, <2>1, <2>4 DEF NothingActsUnrecorded, Forwarded
  <2> QED
    BY <2>6, <2>7, <2>8 DEF IInv
<1>4. ASSUME RecordFails(c) \/ DoesNotLand(c) \/ Answered(c) \/ ReplyLost(c)
             \/ RecordFailure(c) \/ FailureUnrecorded(c)
      PROVE  IInv'
  <2>1. PICK to \in {"over", "unrecorded", "failure"} :
          /\ Goes(c, to)
          /\ to = "failure" => call[c].at \in {"act", "reply", "orphan"}
    BY <1>4 DEF RecordFails, DoesNotLand, Answered, ReplyLost, RecordFailure,
                FailureUnrecorded, AfterUnrecorded, At
  <2>2. to \in Awaits
    BY DEF Awaits
  <2>3. audit' \in {audit, audit \cup {<<c, "failed">>}} /\ landed' = landed
        /\ UNCHANGED <<screen, replies, cached, held, crashes>>
    BY <1>4 DEF RecordFails, DoesNotLand, Answered, ReplyLost, RecordFailure,
                FailureUnrecorded, FailureRow, Rows
  <2>4. TypeOK'
    BY <1>a, <2>1, <2>2, <2>3, GoesTyped DEF TypeOK, RowKinds
  <2>5. to = "failure" => Forwarded(c)'
    BY <1>a, <2>1, <2>3 DEF PastItsRow, Forwarded
  <2>6. PastItsRow'
    BY <1>a, <2>1, <2>2, <2>3, <2>5, OneCallMoves
  <2>7. NothingActsUnrecorded'
    BY <1>a, <2>3, TrailKept
  <2> QED
    BY <2>4, <2>6, <2>7 DEF IInv
<1> QED
  BY <1>1, <1>2, <1>3, <1>4 DEF Acting

(* A step of a handover keeps the invariant.                               *)
LEMMA HandingKeeps ==
  ASSUME IInv, NEW h \in Handovers, Handing(h)
  PROVE  IInv'
<1> h \in Calls \cup Handovers /\ h \notin Calls
  BY GatewayAssumption
<1>a. TypeOK /\ PastItsRow /\ NothingActsUnrecorded
  BY DEF IInv
<1>0. PICK to \in {"wheel", "note", "over", "unrecorded"} : ComputerDoes(h, to)
  BY DEF FirstOfHandover, Handing, AskHandover, HandoverLands, HandoverFails, RecordHandover, HandoverUnrecorded,
         ComputerDoes
<1>1. to \in Awaits
  BY DEF Awaits
<1>2. /\ call' \in [Calls \cup Handovers -> CallState]
      /\ \A d \in Calls : call'[d] = call[d] \/ call'[d].at = "unrecorded"
      /\ screen' \in Snapshots /\ held' \subseteq Nat
  BY <1>a, <1>0, <1>1, ComputerDoesTyped
<1>3. UNCHANGED <<replies, cached, crashes>>
  BY DEF Handing, AskHandover, HandoverLands, HandoverFails, RecordHandover, HandoverUnrecorded
<1>4. \/ audit' = audit /\ landed' \in {landed, landed \cup {[call |-> h, touched |-> screen.names]}}
      \/ audit' = audit \cup {<<h, "handover">>} /\ landed' = landed
  BY DEF Handing, AskHandover, HandoverLands, HandoverFails, RecordHandover, HandoverUnrecorded, Rows
<1>5. audit \subseteq audit' /\ audit' \subseteq (Calls \cup Handovers) \X RowKinds
  BY <1>4, <1>a DEF TypeOK, RowKinds
<1>6. landed' \subseteq [call : Calls \cup Handovers, touched : Contexts]
  BY <1>4, <1>a DEF TypeOK, Snapshots
<1>7. TypeOK'
  BY <1>a, <1>2, <1>3, <1>5, <1>6 DEF TypeOK
<1>8. PastItsRow'
  BY <1>a, <1>2, <1>5, RowsKept
<1>9. NothingActsUnrecorded'
  <2>1. CASE audit' = audit
    BY <1>a, <1>4, <2>1, HandoverKeepsTrail
  <2>2. CASE landed' = landed
    BY <1>a, <1>5, <2>2, TrailKept
  <2> QED
    BY <1>4, <2>1, <2>2
<1> QED
  BY <1>7, <1>8, <1>9 DEF IInv

(* Snapshots touch neither the calls nor the trail.                        *)
LEMMA SnapshotKeeps ==
  ASSUME IInv,
         TakeSnapshot \/ \E r \in replies : SnapshotReplies(r) \/ SnapshotFails(r)
  PROVE  IInv'
<1>1. UNCHANGED <<call, audit, landed, crashes>>
  BY DEF TakeSnapshot, SnapshotReplies, SnapshotFails
<1>2. screen' \in Snapshots /\ replies' \subseteq Snapshots
      /\ cached' \in Contexts /\ held' \subseteq Nat
  <2>1. CASE TakeSnapshot
    <3>1. PICK names \in Elements : screen' = [screen EXCEPT !.gen = @ + 1, !.names = names]
      BY <2>1 DEF TakeSnapshot
    <3>2. screen' \in Snapshots
      BY <3>1, MovedOn, GatewayAssumption DEF IInv
    <3> QED
      BY <2>1, <3>2 DEF TakeSnapshot, IInv, TypeOK
  <2>2. ASSUME NEW r \in replies, SnapshotReplies(r) \/ SnapshotFails(r)
        PROVE  /\ screen' \in Snapshots /\ replies' \subseteq Snapshots
               /\ cached' \in Contexts /\ held' \subseteq Nat
    <3>1. r.gen \in Nat /\ r.names \in Contexts
      BY GatewayAssumption DEF IInv, TypeOK, Snapshots
    <3> QED
      BY <2>2, <3>1 DEF SnapshotReplies, SnapshotFails, IInv, TypeOK
  <2> QED
    BY <2>1, <2>2
<1>3. TypeOK'
  BY <1>1, <1>2 DEF IInv, TypeOK
<1> QED
  BY <1>1, <1>3 DEF IInv, PastItsRow, Forwarded, NothingActsUnrecorded

(* The end of a computer touches neither the rows nor the trail.           *)
LEMMA ComputerDiesKeeps ==
  ASSUME IInv, ComputerDies
  PROVE  IInv'
<1>1. UNCHANGED <<replies, cached, audit, landed, crashes>> /\ NewComputer /\ call' = Bereft
  BY DEF ComputerDies
<1>2. TypeOK'
  BY <1>1, BereftTyped, NewComputerTyped DEF IInv, TypeOK
<1>3. PastItsRow'
  BY <1>1, BereftTyped, RowsKept DEF IInv
<1> QED
  BY <1>1, <1>2, <1>3, TrailKept DEF IInv

(* A restart keeps the invariant: what it orphans had its row.             *)
LEMMA CrashKeeps ==
  ASSUME IInv, Crash
  PROVE  IInv'
<1>a. TypeOK /\ PastItsRow /\ NothingActsUnrecorded
  BY DEF IInv
<1> DEFINE To(c) == IF c \in UnderWay
                    THEN [call[c] EXCEPT !.at = IF @ = "act" THEN "orphan" ELSE "unrecorded"]
                    ELSE call[c]
<1>1. call' = [c \in Calls \cup Handovers |-> To(c)]
  BY <1>a DEF Crash, TypeOK
<1>2. ASSUME NEW c \in Calls \cup Handovers
      PROVE  /\ To(c) \in CallState
             /\ To(c).at = "unrecorded" \/ To(c).at = call[c].at
                \/ (To(c).at = "orphan" /\ call[c].at = "act")
  <2>1. call[c] \in CallState
    BY <1>a DEF TypeOK
  <2> QED
    BY <2>1 DEF CallState, Awaits
<1> HIDE DEF To
<1>3. call' \in [Calls \cup Handovers -> CallState]
  BY <1>1, <1>2
<1>4. TypeOK'
  BY <1>a, <1>3, GatewayAssumption DEF TypeOK, Crash
<1>5. PastItsRow'
  BY <1>a, <1>1, <1>2 DEF PastItsRow, Forwarded, Crash
<1>6. NothingActsUnrecorded'
  BY <1>a DEF NothingActsUnrecorded, Crash
<1> QED
  BY <1>4, <1>5, <1>6 DEF IInv

LEMMA InvInit == Init => IInv
<1>1. NotMade \in CallState /\ NotMade.at = "new"
  BY GatewayAssumption DEF NotMade, CallState, Awaits, NoRef
<1> QED
  BY <1>1, GatewayAssumption
  DEF Init, IInv, TypeOK, PastItsRow, NothingActsUnrecorded, Snapshots

LEMMA InvNext == IInv /\ [Next]_vars => IInv'
<1> SUFFICES ASSUME IInv, [Next]_vars PROVE IInv'
  OBVIOUS
<1>1. CASE UNCHANGED vars
  BY <1>1 DEF vars, IInv, TypeOK, PastItsRow, Forwarded, NothingActsUnrecorded
<1> QED
  BY <1>1, ActingKeeps, HandingKeeps, SnapshotKeeps, CrashKeeps, ComputerDiesKeeps DEF Next

(* The inductive invariant: types, PastItsRow and the property itself.     *)
THEOREM InductiveInvariant == Spec => []IInv
BY InvInit, InvNext, PTL DEF Spec

(* TypeOK holds in every state.                                            *)
THEOREM TypeCorrect == Spec => []TypeOK
<1>1. IInv => TypeOK
  BY DEF IInv
<1> QED
  BY <1>1, InductiveInvariant, PTL

(* No action of a Bot reaches its computer without the row that let it     *)
(* through, for any policy and any number of calls, restarts and failures. *)
THEOREM RecordedBeforeActed == Spec => []NothingActsUnrecorded
<1>1. IInv => NothingActsUnrecorded
  BY DEF IInv
<1> QED
  BY <1>1, InductiveInvariant, PTL

-----------------------------------------------------------------------------
(* The trail is true.  What a call's rows and its landing say, by where it *)
(* is: nothing is written of a call before its first row, what awaits its  *)
(* reply has landed, and so has a handover that awaits its row.            *)
Landed(c) == \E l \in landed : l.call = c
CallTold(c) ==
    /\ call[c].at \in {"new", "record"} => \A k \in RowKinds : <<c, k>> \notin audit
    /\ call[c].at = "reply" => Landed(c)
    /\ call[c].at = "over" /\ Forwarded(c) => <<c, "failed">> \in audit \/ Landed(c)
HandoverTold(h) ==
    /\ call[h].at = "note" => Landed(h)
    /\ <<h, "handover">> \in audit => Landed(h)

TrailInv ==
    /\ TypeOK
    /\ \A c \in Calls : CallTold(c)
    /\ \A h \in Handovers : HandoverTold(h)

(* A call, or a handover, that a step says nothing of is told as before.   *)
LEMMA OthersTold ==
  ASSUME TrailInv, NEW c \in Calls \cup Handovers, landed \subseteq landed',
         \A d \in Calls \cup Handovers : d # c => call'[d] = call[d] \/ call'[d].at = "unrecorded",
         \A d \in Calls \cup Handovers, k \in RowKinds :
            d # c => (<<d, k>> \in audit' <=> <<d, k>> \in audit)
  PROVE  /\ \A d \in Calls : d # c => CallTold(d)'
         /\ \A h \in Handovers : h # c => HandoverTold(h)'
<1>1. \A d : Landed(d) => Landed(d)'
  BY DEF Landed
<1>2. {"allowed", "dry-run", "failed", "handover"} \subseteq RowKinds
  BY DEF RowKinds
<1>3. ASSUME NEW d \in Calls, d # c PROVE CallTold(d)'
  <2>1. CallTold(d) /\ (call'[d] = call[d] \/ call'[d].at = "unrecorded")
    BY <1>3 DEF TrailInv
  <2>2. \A k \in RowKinds : <<d, k>> \in audit' <=> <<d, k>> \in audit
    BY <1>3
  <2> QED
    BY <1>1, <1>2, <2>1, <2>2 DEF CallTold, Forwarded
<1>4. ASSUME NEW h \in Handovers, h # c PROVE HandoverTold(h)'
  <2>1. HandoverTold(h) /\ (call'[h] = call[h] \/ call'[h].at = "unrecorded")
    BY <1>4 DEF TrailInv
  <2>2. <<h, "handover">> \in audit' <=> <<h, "handover">> \in audit
    BY <1>2, <1>4
  <2> QED
    BY <1>1, <2>1, <2>2 DEF HandoverTold
<1> QED
  BY <1>3, <1>4

(* A row of one call says nothing of another.                              *)
LEMMA RowOfOne ==
  ASSUME NEW c, NEW k, audit' = audit \cup {<<c, k>>}
  PROVE  \A d \in Calls \cup Handovers, j \in RowKinds : d # c => (<<d, j>> \in audit' <=> <<d, j>> \in audit)
OBVIOUS

(* A step of a call of a Bot that tells of it what CallTold asks.          *)
LEMMA CallMoves ==
  ASSUME TrailInv, TypeOK', NEW c \in Calls, landed \subseteq landed', CallTold(c)',
         \A d \in Calls \cup Handovers : d # c => call'[d] = call[d],
         audit' = audit \/ \E k \in RowKinds : audit' = audit \cup {<<c, k>>}
  PROVE  TrailInv'
<1>1. \A d \in Calls \cup Handovers, j \in RowKinds : d # c => (<<d, j>> \in audit' <=> <<d, j>> \in audit)
  BY RowOfOne
<1>2. \A h \in Handovers : h # c
  BY GatewayAssumption
<1>3. /\ \A d \in Calls : d # c => CallTold(d)'
      /\ \A h \in Handovers : h # c => HandoverTold(h)'
  BY <1>1, OthersTold
<1> QED
  BY <1>2, <1>3 DEF TrailInv

(* What the policy allows is forwarded.                                    *)
LEMMA AllowedIsForwarded ==
  ASSUME NEW policy, NEW context
  PROVE  evaluateActionPolicy(policy, context).allowed => evaluateActionPolicy(policy, context).forward
<1>1. PICK denied : denied = Hits(policy.deny, context, TRUE)
  OBVIOUS
<1>2. PICK allowed : allowed = Hits(policy.allow, context, FALSE)
  OBVIOUS
<1>3. PICK d : d = evaluateActionPolicy(policy, context)
  OBVIOUS
<1>4. PICK f : f = First(denied)
  OBVIOUS
<1>5. PICK g : g = First(allowed)
  OBVIOUS
<1>6. \/ d = Decision(policy, "deny", f) \/ d = Decision(policy, "allow", g)
      \/ d = Decision(policy, "default", 0)
  BY <1>1, <1>2, <1>3, <1>4, <1>5 DEF evaluateActionPolicy
<1>7. d.allowed => d.forward
  <2>1. ASSUME NEW source, NEW m, d = Decision(policy, source, m) PROVE d.allowed => d.forward
    <3>1. d.allowed = (source = "allow")
      BY <2>1 DEF Decision
    <3>2. d.forward = (source = "allow" \/ policy.mode = "dry-run")
      BY <2>1 DEF Decision
    <3> QED
      BY <3>1, <3>2
  <2> QED
    BY <1>6, <2>1
<1> QED
  BY <1>3, <1>7

LEMMA ActingTells ==
  ASSUME TrailInv, TypeOK', NEW c \in Calls, Acting(c)
  PROVE  TrailInv'
<1>a. c \in Calls \cup Handovers /\ TypeOK /\ CallTold(c)
  BY DEF TrailInv
<1>b. \A to : Goes(c, to) =>
         call'[c].at = to /\ \A d \in Calls \cup Handovers : d # c => call'[d] = call[d]
  <2>1. call \in [Calls \cup Handovers -> CallState]
    BY <1>a DEF TypeOK
  <2>2. call[c] \in CallState
    BY <1>a, <2>1
  <2> SUFFICES ASSUME NEW to, Goes(c, to)
               PROVE  call'[c].at = to /\ \A d \in Calls \cup Handovers : d # c => call'[d] = call[d]
    OBVIOUS
  <2>3. PICK r : r = [call[c] EXCEPT !.at = to]
    OBVIOUS
  <2>4. r.at = to
    BY <2>2, <2>3 DEF CallState
  <2>5. call' = [call EXCEPT ![c] = r]
    BY <2>3 DEF Goes
  <2> HIDE DEF CallState
  <2> QED
    BY <1>a, <2>1, <2>4, <2>5
<1>1. ASSUME NEW gen \in 0..MaxGen, NEW policy \in Policies, Govern(c, gen, policy)
      PROVE  TrailInv'
  <2>1. PICK r : r = [at |-> "record", gen |-> gen, given |-> gen \in held,
                      judged |-> resolve(gen), policy |-> policy]
    OBVIOUS
  <2>2. r.at = "record" /\ call' = [call EXCEPT ![c] = r] /\ call[c].at = "new"
    BY <1>1, <2>1 DEF Govern, At
  <2>3. call'[c] = r /\ \A d \in Calls \cup Handovers : d # c => call'[d] = call[d]
    BY <1>a, <2>2 DEF TypeOK
  <2>4. audit' = audit /\ landed' = landed
    BY <1>1 DEF Govern
  <2>5. CallTold(c)'
    BY <1>a, <2>2, <2>3, <2>4 DEF CallTold
  <2> QED
    BY <2>3, <2>4, <2>5, CallMoves
<1>2. ASSUME Record(c) PROVE TrailInv'
  <2>1. PICK d : d = Decided(c)
    OBVIOUS
  <2>2. d.allowed => d.forward
    BY <2>1, AllowedIsForwarded DEF Decided
  <2>3. PICK to \in {"act", "over"} : to = IF d.forward THEN "act" ELSE "over"
    OBVIOUS
  <2>4. PICK k \in RowKinds : k = IF d.allowed THEN "allowed" ELSE IF d.forward THEN "dry-run" ELSE "refused"
    BY DEF RowKinds
  <2>5. At(c, "record") /\ Goes(c, to) /\ audit' = audit \cup {<<c, k>>} /\ landed' = landed
    BY <1>2, <2>1, <2>3, <2>4 DEF Record, Rows, RowOf
  <2>6. call'[c].at = to /\ \A e \in Calls \cup Handovers : e # c => call'[e] = call[e]
    BY <1>b, <2>5
  <2>7. to = "over" => k = "refused"
    BY <2>2, <2>3, <2>4
  <2>8. <<c, "allowed">> \notin audit /\ <<c, "dry-run">> \notin audit
    BY <1>a, <2>5 DEF CallTold, At, RowKinds
  <2>9. CallTold(c)'
    BY <2>3, <2>5, <2>6, <2>7, <2>8 DEF CallTold, Forwarded
  <2> QED
    BY <2>5, <2>6, <2>9, CallMoves
<1>3. ASSUME Lands(c) PROVE TrailInv'
  <2>1. PICK l : l = [call |-> c, touched |-> screen.names]
    OBVIOUS
  <2>2. landed' = landed \cup {l} /\ l.call = c /\ audit' = audit
    BY <1>3, <2>1 DEF Lands
  <2>3. PICK to \in {"reply", "unrecorded"} : Goes(c, to)
    BY <1>3 DEF Lands
  <2>4. call'[c].at = to /\ \A e \in Calls \cup Handovers : e # c => call'[e] = call[e]
    BY <1>b, <2>3
  <2>5. Landed(c)'
    BY <2>2 DEF Landed
  <2>6. CallTold(c)'
    BY <2>3, <2>4, <2>5 DEF CallTold
  <2> QED
    BY <2>2, <2>4, <2>6, CallMoves
<1>4. ASSUME RecordFails(c) \/ DoesNotLand(c) \/ ReplyLost(c) \/ FailureUnrecorded(c) PROVE TrailInv'
  <2>1. PICK to \in {"unrecorded", "failure"} : Goes(c, to)
    BY <1>4 DEF RecordFails, DoesNotLand, ReplyLost, FailureUnrecorded, AfterUnrecorded
  <2>2. audit' = audit /\ landed' = landed
    BY <1>4 DEF RecordFails, DoesNotLand, ReplyLost, FailureUnrecorded
  <2>3. call'[c].at = to /\ \A e \in Calls \cup Handovers : e # c => call'[e] = call[e]
    BY <1>b, <2>1
  <2>4. CallTold(c)'
    BY <2>1, <2>3 DEF CallTold
  <2> QED
    BY <2>2, <2>3, <2>4, CallMoves
<1>5. ASSUME Answered(c) PROVE TrailInv'
  <2>1. At(c, "reply") /\ Goes(c, "over") /\ audit' = audit /\ landed' = landed
    BY <1>5 DEF Answered
  <2>2. call'[c].at = "over" /\ \A e \in Calls \cup Handovers : e # c => call'[e] = call[e]
    BY <1>b, <2>1
  <2>3. CallTold(c)'
    BY <1>a, <2>1, <2>2 DEF CallTold, Landed, At
  <2> QED
    BY <2>1, <2>2, <2>3, CallMoves
<1>6. ASSUME RecordFailure(c) PROVE TrailInv'
  <2>1. Goes(c, "over") /\ audit' = audit \cup {<<c, "failed">>} /\ landed' = landed /\ "failed" \in RowKinds
    BY <1>6 DEF RecordFailure, FailureRow, Rows, RowKinds
  <2>2. call'[c].at = "over" /\ \A e \in Calls \cup Handovers : e # c => call'[e] = call[e]
    BY <1>b, <2>1
  <2>3. CallTold(c)'
    BY <2>1, <2>2 DEF CallTold
  <2> QED
    BY <2>1, <2>2, <2>3, CallMoves
<1> QED
  BY <1>1, <1>2, <1>3, <1>4, <1>5, <1>6 DEF Acting

LEMMA HandingTells ==
  ASSUME TrailInv, TypeOK', NEW h \in Handovers, Handing(h)
  PROVE  TrailInv'
<1>a. h \in Calls \cup Handovers /\ h \notin Calls /\ TypeOK /\ HandoverTold(h)
  BY GatewayAssumption DEF TrailInv
<1>1. PICK to \in {"wheel", "note", "over", "unrecorded"} :
         /\ ComputerDoes(h, to)
         /\ to = "note" => \E l \in landed' : l.call = h
  <2>1. [call |-> h, touched |-> screen.names].call = h
    OBVIOUS
  <2> QED
    BY <2>1 DEF FirstOfHandover, Handing, AskHandover, HandoverLands, HandoverFails, RecordHandover,
                HandoverUnrecorded, ComputerDoes
<1>2. /\ call'[h].at = to
      /\ \A d \in Calls \cup Handovers : d # h => call'[d] = call[d] \/ call'[d].at = "unrecorded"
  <2>1. to \in Awaits
    BY DEF Awaits
  <2> QED
    BY <1>a, <1>1, <2>1, ComputerDoesTyped
<1>3. landed \subseteq landed'
  BY DEF Handing, AskHandover, HandoverLands, HandoverFails, RecordHandover, HandoverUnrecorded
<1>4. audit' = audit \/ (audit' = audit \cup {<<h, "handover">>} /\ call[h].at = "note")
  BY DEF Handing, AskHandover, HandoverLands, HandoverFails, RecordHandover, HandoverUnrecorded, Rows, At
<1>5. HandoverTold(h)'
  <2>1. Landed(h) => Landed(h)'
    BY <1>3 DEF Landed
  <2>2. to = "note" => Landed(h)'
    BY <1>1 DEF Landed
  <2> QED
    BY <1>a, <1>2, <1>4, <2>1, <2>2 DEF HandoverTold
<1>6. \A d \in Calls \cup Handovers, j \in RowKinds : d # h => (<<d, j>> \in audit' <=> <<d, j>> \in audit)
  BY <1>4, RowOfOne
<1>7. /\ \A d \in Calls : d # h => CallTold(d)'
      /\ \A g \in Handovers : g # h => HandoverTold(g)'
  BY <1>a, <1>2, <1>3, <1>6, OthersTold
<1> QED
  BY <1>a, <1>5, <1>7 DEF TrailInv

LEMMA ComputerDiesTells == ASSUME TrailInv, TypeOK', ComputerDies PROVE TrailInv'
<1>1. audit' = audit /\ landed' = landed /\ call' = Bereft
  BY DEF ComputerDies
<1>2. \A c \in Calls \cup Handovers : call'[c] = call[c] \/ call'[c].at = "unrecorded"
  BY <1>1, BereftTyped DEF TrailInv
<1> QED
  BY <1>1, <1>2 DEF TrailInv, CallTold, HandoverTold, Forwarded, Landed

LEMMA CrashTells == ASSUME TrailInv, TypeOK', Crash PROVE TrailInv'
<1>1. audit' = audit /\ landed' = landed
  BY DEF Crash
<1>2. ASSUME NEW c \in Calls \cup Handovers
      PROVE  call'[c] = call[c] \/ call'[c].at \in {"orphan", "unrecorded"}
  <2>1. call[c] \in CallState /\ DOMAIN call = Calls \cup Handovers
    BY DEF TrailInv, TypeOK
  <2>2. PICK to \in {"orphan", "unrecorded"} : to = IF call[c].at = "act" THEN "orphan" ELSE "unrecorded"
    OBVIOUS
  <2>3. PICK r : r = [call[c] EXCEPT !.at = to]
    OBVIOUS
  <2>4. r.at = to
    BY <2>1, <2>3 DEF CallState
  <2>5. call'[c] = IF c \in UnderWay THEN r ELSE call[c]
    BY <2>1, <2>2, <2>3 DEF Crash
  <2> QED
    BY <2>4, <2>5
<1>3. \A c \in Calls : CallTold(c)'
  BY <1>1, <1>2 DEF TrailInv, CallTold, Forwarded, Landed
<1>4. \A h \in Handovers : HandoverTold(h)'
  BY <1>1, <1>2 DEF TrailInv, HandoverTold, Landed
<1> QED
  BY <1>3, <1>4 DEF TrailInv

(* Where a call is tells what its rows and its landing say.                *)
LEMMA TrailInvariant == Spec => []TrailInv
<1>1. Init /\ TypeOK => TrailInv
  <2> SUFFICES ASSUME Init, TypeOK PROVE TrailInv
    OBVIOUS
  <2>1. \A c \in Calls \cup Handovers : call[c].at = "new"
    BY DEF Init, NotMade
  <2>2. audit = {}
    BY DEF Init
  <2> QED
    BY <2>1, <2>2 DEF TrailInv, CallTold, HandoverTold
<1>2. TrailInv /\ TypeOK' /\ [Next]_vars => TrailInv'
  <2> SUFFICES ASSUME TrailInv, TypeOK', [Next]_vars PROVE TrailInv'
    OBVIOUS
  <2>1. CASE UNCHANGED <<call, audit, landed>>
    BY <2>1 DEF TrailInv, CallTold, HandoverTold, Forwarded, Landed
  <2>2. CASE UNCHANGED vars
    BY <2>1, <2>2 DEF vars
  <2>3. CASE TakeSnapshot \/ \E r \in replies : SnapshotReplies(r) \/ SnapshotFails(r)
    BY <2>1, <2>3 DEF TakeSnapshot, SnapshotReplies, SnapshotFails
  <2> QED
    BY <2>2, <2>3, ActingTells, HandingTells, CrashTells, ComputerDiesTells DEF Next
<1> QED
  BY <1>1, <1>2, TypeCorrect, PTL DEF Spec

(* The trail is true, for any policy and any number of calls, restarts and *)
(* failures: a call that was let through and seen to its end landed or has *)
(* its failure row, and a handover's row is about one that happened.       *)
THEOREM TrailStaysTrue == Spec => []TrailIsTrue
<1>1. TrailInv => TrailIsTrue
  BY DEF TrailInv, TrailIsTrue, CallTold, HandoverTold, Forwarded, Landed, At
<1> QED
  BY <1>1, TrailInvariant, PTL

-----------------------------------------------------------------------------
(* One at a time.  What is held and what is on its way was given by a      *)
(* computer that was there, and what the present one gave is no newer than *)
(* its screen.  While no two calls, snapshots or ends of the computer met, *)
(* nothing was held since a listing left, the cache has what the present   *)
(* generation names if it was given, and so has what a call that was given *)
(* it was judged by.                                                       *)
TakenBefore ==
    /\ \A gen \in held : 1 <= gen /\ gen <= screen.gen
    /\ \A r \in replies :
         /\ 1 <= r.gen /\ r.life <= screen.life
         /\ r.life = screen.life => r.gen <= screen.gen /\ (r.gen = screen.gen => r = screen)
    /\ \A c \in Calls : call[c].given => 1 <= call[c].gen

OnlyTheMadeLand == \A l \in landed : l.call \in Calls => call[l.call].at # "new"

JudgedTrue(c) ==
    call[c].given /\ call[c].at \in {"record", "act", "orphan"} =>
        /\ call[c].gen <= screen.gen
        /\ call[c].gen = screen.gen => call[c].judged \in {Unknown, screen.names}

InStep ==
    /\ \A r, q \in replies : r = q
    /\ \A r \in replies, gen \in held : r.life = screen.life /\ gen < r.gen
    /\ screen.gen \in held => cached \in {Unknown, screen.names}
    /\ \A c \in Calls : JudgedTrue(c)
    /\ DecidedOnWhatItTouches

AloneInv == TypeOK /\ TakenBefore /\ OnlyTheMadeLand /\ (~overlapped => InStep)

\* What the history counts in a step.
Counted == overlapped' = (overlapped \/ AtOnce' \/ ComputerDiesUnder)

(* A call of which only the await changes.                                 *)
LEMMA GoesOn ==
  ASSUME TypeOK, NEW c \in Calls \cup Handovers, NEW to, Goes(c, to)
  PROVE  /\ call'[c].at = to /\ call'[c].gen = call[c].gen /\ call'[c].given = call[c].given
         /\ call'[c].judged = call[c].judged
         /\ \A d \in Calls \cup Handovers : d # c => call'[d] = call[d]
<1>1. call[c] \in CallState /\ call \in [Calls \cup Handovers -> CallState]
  BY DEF TypeOK
<1>2. PICK r : r = [call[c] EXCEPT !.at = to]
  OBVIOUS
<1>3. r.at = to /\ r.gen = call[c].gen /\ r.given = call[c].given /\ r.judged = call[c].judged
  BY <1>1, <1>2 DEF CallState
<1>4. call' = [call EXCEPT ![c] = r]
  BY <1>2 DEF Goes
<1> HIDE DEF CallState
<1> QED
  BY <1>1, <1>3, <1>4

(* The numbers are numbers.                                                *)
LEMMA Numbers ==
  ASSUME TypeOK
  PROVE  /\ screen.gen \in Nat /\ screen.life \in Nat /\ held \subseteq Nat
         /\ \A r \in replies : r.gen \in Nat /\ r.life \in Nat
         /\ \A c \in Calls : call[c].gen \in Nat /\ call[c].given \in BOOLEAN
BY DEF TypeOK, Snapshots, CallState

(* A call moves on.  It was before its action if it is now, and an action  *)
(* of a Bot lands when the generation it names is the computer's, or names *)
(* none and may navigate.                                                  *)
LEMMA MovingKeepsStep ==
  ASSUME AloneInv, TypeOK', Counted, NEW c \in Calls \cup Handovers, NEW to, Goes(c, to), to # "new",
         UNCHANGED <<replies, cached, held>>, UNCHANGED screen \/ Navigates,
         to \in {"record", "act", "orphan"} => call[c].at \in {"record", "act", "orphan"} \/ c \notin Calls,
         \/ landed' = landed
         \/ /\ landed' = landed \cup {[call |-> c, touched |-> screen.names]}
            /\ c \in Calls => call[c].at \in {"act", "orphan"} /\ call[c].gen \in {NoRef, screen.gen}
  PROVE  AloneInv'
<1>1. /\ call'[c].at = to /\ call'[c].gen = call[c].gen /\ call'[c].given = call[c].given
      /\ call'[c].judged = call[c].judged
      /\ \A d \in Calls \cup Handovers : d # c => call'[d] = call[d]
  BY GoesOn DEF AloneInv
<1>n. /\ screen.gen \in Nat /\ screen.life \in Nat /\ held \subseteq Nat
      /\ \A r \in replies : r.gen \in Nat /\ r.life \in Nat
      /\ \A d \in Calls : call[d].gen \in Nat /\ call[d].given \in BOOLEAN
  BY Numbers DEF AloneInv
<1>s. /\ screen'.life = screen.life
      /\ screen' = screen \/ screen'.gen = screen.gen + 1
  BY MovedOn, GatewayAssumption DEF Navigates, AloneInv
<1>2. TakenBefore'
  <2>1. \A d \in Calls : call'[d].given => 1 <= call'[d].gen
    BY <1>1 DEF AloneInv, TakenBefore
  <2>2. \A gen \in held' : 1 <= gen /\ gen <= screen'.gen
    BY <1>n, <1>s DEF AloneInv, TakenBefore
  <2>3. \A r \in replies' :
          /\ 1 <= r.gen /\ r.life <= screen'.life
          /\ r.life = screen'.life => r.gen <= screen'.gen /\ (r.gen = screen'.gen => r = screen')
    BY <1>n, <1>s DEF AloneInv, TakenBefore
  <2> QED
    BY <2>1, <2>2, <2>3 DEF TakenBefore
<1>3. OnlyTheMadeLand'
  BY <1>1 DEF AloneInv, OnlyTheMadeLand
<1>4. ASSUME InStep PROVE InStep'
  <2>1. \A d \in Calls : JudgedTrue(d)'
    <3> SUFFICES ASSUME NEW d \in Calls, call'[d].given, call'[d].at \in {"record", "act", "orphan"}
                 PROVE  /\ call'[d].gen <= screen'.gen
                        /\ call'[d].gen = screen'.gen => call'[d].judged \in {Unknown, screen'.names}
      BY DEF JudgedTrue
    <3>1. /\ call'[d].gen = call[d].gen /\ call'[d].judged = call[d].judged /\ call[d].given
          /\ call[d].at \in {"record", "act", "orphan"}
      BY <1>1
    <3>2. /\ call[d].gen <= screen.gen
          /\ call[d].gen = screen.gen => call[d].judged \in {Unknown, screen.names}
      BY <1>4, <3>1 DEF InStep, JudgedTrue
    <3> QED
      BY <1>n, <1>s, <3>1, <3>2
  <2>2. ASSUME NEW l \in landed', l.call \in Calls, call'[l.call].given
        PROVE  call'[l.call].judged \in {l.touched, Unknown}
    <3>1. PICK d \in Calls : d = l.call
      BY <2>2
    <3>2. call'[d].gen = call[d].gen /\ call'[d].judged = call[d].judged /\ call[d].given
      BY <1>1, <2>2, <3>1
    <3>3. CASE l \in landed
      BY <1>4, <2>2, <3>1, <3>2, <3>3 DEF InStep, DecidedOnWhatItTouches
    <3>4. CASE l = [call |-> c, touched |-> screen.names] /\ l \notin landed
      <4>1. d = c /\ l.touched = screen.names
        BY <3>1, <3>4
      <4>2. 1 <= call[d].gen
        BY <3>2 DEF AloneInv, TakenBefore
      <4>3. call[d].at \in {"act", "orphan"} /\ call[d].gen = screen.gen
        BY <2>2, <3>1, <3>2, <3>4, <4>1, <4>2 DEF NoRef
      <4> QED
        BY <1>4, <3>1, <3>2, <4>1, <4>3 DEF InStep, JudgedTrue
    <3> QED
      BY <2>2, <3>3, <3>4
  <2>3. screen'.gen \in held' => cached' \in {Unknown, screen'.names}
    BY <1>4, <1>n, <1>s DEF AloneInv, TakenBefore, InStep
  <2>4. \A r \in replies', gen \in held' : r.life = screen'.life /\ gen < r.gen
    BY <1>4, <1>s DEF InStep
  <2> QED
    BY <1>4, <2>1, <2>2, <2>3, <2>4 DEF InStep, DecidedOnWhatItTouches
<1> QED
  BY <1>2, <1>3, <1>4 DEF AloneInv, Counted

(* A call is decided.  It is judged by what the cache has.                 *)
LEMMA GoverningKeepsStep ==
  ASSUME AloneInv, TypeOK', Counted, NEW c \in Calls, NEW gen \in 0..MaxGen, NEW policy \in Policies,
         Govern(c, gen, policy)
  PROVE  AloneInv'
<1>1. PICK r : r = [at |-> "record", gen |-> gen, given |-> gen \in held,
                    judged |-> resolve(gen), policy |-> policy]
  OBVIOUS
<1>2. r.at = "record" /\ r.gen = gen /\ (r.given <=> gen \in held) /\ r.judged = resolve(gen)
  BY <1>1
<1>3. call' = [call EXCEPT ![c] = r] /\ call[c].at = "new"
      /\ UNCHANGED <<screen, replies, cached, held, landed>>
  BY <1>1 DEF Govern, At
<1>4. call'[c] = r /\ \A d \in Calls \cup Handovers : d # c => call'[d] = call[d]
  BY <1>3 DEF AloneInv, TypeOK
<1>5. gen \in held => 1 <= gen /\ gen <= screen.gen
  BY DEF AloneInv, TakenBefore
<1>6. TakenBefore'
  BY <1>2, <1>3, <1>4, <1>5 DEF AloneInv, TakenBefore
<1>7. OnlyTheMadeLand' /\ \A l \in landed : l.call # c
  BY <1>2, <1>3, <1>4 DEF AloneInv, OnlyTheMadeLand
<1>8. ASSUME InStep PROVE InStep'
  <2>1. r.given /\ gen = screen.gen => r.judged \in {Unknown, screen.names}
    BY <1>2, <1>8 DEF InStep, resolve
  <2>2. \A d \in Calls : JudgedTrue(d)'
    BY <1>2, <1>3, <1>4, <1>5, <1>8, <2>1 DEF InStep, JudgedTrue
  <2>3. DecidedOnWhatItTouches'
    BY <1>3, <1>4, <1>7, <1>8 DEF InStep, DecidedOnWhatItTouches
  <2> QED
    BY <1>3, <1>8, <2>2, <2>3 DEF InStep
<1> QED
  BY <1>6, <1>7, <1>8 DEF AloneInv, Counted

(* A snapshot is taken: nothing that was given names its generation yet.   *)
LEMMA SnapshotKeepsStep ==
  ASSUME AloneInv, TypeOK', Counted, TakeSnapshot
  PROVE  AloneInv'
<1>1. /\ screen'.gen = screen.gen + 1 /\ screen'.life = screen.life
      /\ replies' = replies \cup {screen'}
      /\ UNCHANGED <<cached, held, call, landed>>
  BY MovedOn, GatewayAssumption DEF TakeSnapshot, AloneInv
<1>n. /\ screen.gen \in Nat /\ screen.life \in Nat /\ held \subseteq Nat
      /\ \A r \in replies : r.gen \in Nat /\ r.life \in Nat
      /\ \A d \in Calls : call[d].gen \in Nat /\ call[d].given \in BOOLEAN
  BY Numbers DEF AloneInv
<1>2. TakenBefore'
  <2>1. \A gen \in held' : 1 <= gen /\ gen <= screen'.gen
    BY <1>1, <1>n DEF AloneInv, TakenBefore
  <2>2. ASSUME NEW r \in replies
        PROVE  /\ 1 <= r.gen /\ r.life <= screen'.life
               /\ r.life = screen'.life => r.gen < screen'.gen
    BY <1>1, <1>n DEF AloneInv, TakenBefore
  <2>3. 1 <= screen'.gen /\ screen'.life <= screen'.life /\ screen'.gen <= screen'.gen
    BY <1>1, <1>n
  <2>4. \A r \in replies' :
          /\ 1 <= r.gen /\ r.life <= screen'.life
          /\ r.life = screen'.life => r.gen <= screen'.gen /\ (r.gen = screen'.gen => r = screen')
    <3> SUFFICES ASSUME NEW r \in replies'
                 PROVE  /\ 1 <= r.gen /\ r.life <= screen'.life
                        /\ r.life = screen'.life => r.gen <= screen'.gen /\ (r.gen = screen'.gen => r = screen')
      OBVIOUS
    <3>1. CASE r = screen'
      BY <2>3, <3>1
    <3>2. CASE r \in replies
      BY <1>1, <1>n, <2>2, <3>2
    <3> QED
      BY <1>1, <3>1, <3>2
  <2> QED
    BY <1>1, <2>1, <2>4 DEF AloneInv, TakenBefore
<1>3. ASSUME ~overlapped' PROVE InStep'
  <2>0. InStep
    BY <1>3 DEF AloneInv, Counted
  <2>1. \A r, q \in replies' : r = q
    BY <1>3 DEF AtOnce, Counted
  <2>2. \A r \in replies', gen \in held' : r.life = screen'.life /\ gen < r.gen
    <3>1. \A r \in replies' : r = screen'
      BY <1>1, <2>1
    <3> QED
      BY <1>1, <1>n, <3>1 DEF AloneInv, TakenBefore
  <2>3. screen'.gen \notin held'
    BY <1>1, <1>n DEF AloneInv, TakenBefore
  <2>4. \A c \in Calls : JudgedTrue(c)'
    BY <1>1, <1>n, <2>0 DEF InStep, JudgedTrue
  <2>5. DecidedOnWhatItTouches'
    BY <1>1, <2>0 DEF InStep, DecidedOnWhatItTouches
  <2> QED
    BY <2>1, <2>2, <2>3, <2>4, <2>5 DEF InStep
<1>4. OnlyTheMadeLand'
  BY <1>1 DEF AloneInv, OnlyTheMadeLand
<1> QED
  BY <1>2, <1>3, <1>4 DEF AloneInv

LEMMA RepliesKeepStep ==
  ASSUME AloneInv, TypeOK', Counted, NEW r \in replies, SnapshotReplies(r) \/ SnapshotFails(r)
  PROVE  AloneInv'
<1>1. /\ UNCHANGED <<screen, call, landed>> /\ replies' = replies \ {r}
      /\ held' \subseteq held \cup {r.gen} /\ (r.life # screen.life => held' = held)
  BY DEF SnapshotReplies, SnapshotFails
<1>2. TakenBefore' /\ OnlyTheMadeLand'
  BY <1>1 DEF AloneInv, TakenBefore, OnlyTheMadeLand
<1>3. ASSUME InStep PROVE InStep'
  <2>1. replies' = {}
    BY <1>1, <1>3 DEF InStep
  <2>2. screen.gen \notin held
    <3>1. \A gen \in held : r.life = screen.life /\ gen < r.gen
      BY <1>3 DEF InStep
    <3> QED
      BY <3>1, Numbers DEF AloneInv, TakenBefore
  <2>3. screen.gen \in held' => r = screen
    BY <1>1, <2>2 DEF AloneInv, TakenBefore
  <2>4. screen'.gen \in held' => cached' \in {Unknown, screen'.names}
    BY <1>1, <2>2, <2>3 DEF SnapshotReplies, SnapshotFails
  <2> QED
    BY <1>1, <1>3, <2>1, <2>4 DEF InStep, JudgedTrue, DecidedOnWhatItTouches
<1> QED
  BY <1>2, <1>3 DEF AloneInv, Counted

LEMMA CrashKeepsStep ==
  ASSUME AloneInv, TypeOK', Counted, Crash
  PROVE  AloneInv'
<1>1. UNCHANGED <<screen, held, landed>> /\ replies' = {} /\ cached' = Unknown
  BY DEF Crash
<1>2. ASSUME NEW c \in Calls \cup Handovers
      PROVE  /\ call'[c].gen = call[c].gen /\ call'[c].given = call[c].given
             /\ call'[c].judged = call[c].judged
             /\ \/ call'[c].at = call[c].at \/ call'[c].at = "unrecorded"
                \/ call'[c].at = "orphan" /\ call[c].at = "act"
  <2>1. call[c] \in CallState /\ DOMAIN call = Calls \cup Handovers
    BY DEF AloneInv, TypeOK
  <2>2. PICK to : to = IF call[c].at = "act" THEN "orphan" ELSE "unrecorded"
    OBVIOUS
  <2>3. PICK r : r = [call[c] EXCEPT !.at = to]
    OBVIOUS
  <2>4. r.at = to /\ r.gen = call[c].gen /\ r.given = call[c].given /\ r.judged = call[c].judged
    BY <2>1, <2>3 DEF CallState
  <2>5. call'[c] = IF c \in UnderWay THEN r ELSE call[c]
    BY <2>1, <2>2, <2>3 DEF Crash
  <2> QED
    BY <2>2, <2>4, <2>5
<1>3. TakenBefore'
  BY <1>1, <1>2 DEF AloneInv, TakenBefore
<1>4. OnlyTheMadeLand'
  BY <1>1, <1>2 DEF AloneInv, OnlyTheMadeLand
<1>5. ASSUME InStep PROVE InStep'
  BY <1>1, <1>2, <1>5 DEF InStep, JudgedTrue, DecidedOnWhatItTouches
<1> QED
  BY <1>3, <1>4, <1>5 DEF AloneInv, Counted

(* Another computer has the place.  Nothing that may still land was given  *)
(* a generation, unless the computer ended under a call.                   *)
LEMMA NewComputerKeepsStep ==
  ASSUME AloneInv, TypeOK', Counted, NewComputer, UNCHANGED <<replies, cached>>,
         \A c \in Calls : call'[c] = Bereft[c],
         \A l \in landed' : l.call \in Calls => l \in landed
  PROVE  AloneInv'
<1>1. held' = {} /\ screen'.gen = 0 /\ screen'.life # screen.life /\ screen'.life = screen.life + 1
  BY NewComputerTyped DEF AloneInv, NewComputer
<1>n. /\ screen.gen \in Nat /\ screen.life \in Nat /\ held \subseteq Nat
      /\ \A r \in replies : r.gen \in Nat /\ r.life \in Nat
      /\ \A d \in Calls : call[d].gen \in Nat /\ call[d].given \in BOOLEAN
  BY Numbers DEF AloneInv
<1>2. ASSUME NEW c \in Calls
      PROVE  /\ \/ call'[c] = call[c] /\ call[c].at # "orphan"
                \/ call'[c].at = "unrecorded"
             /\ call'[c].gen = call[c].gen /\ call'[c].given = call[c].given
             /\ call'[c].judged = call[c].judged
  BY BereftTyped DEF AloneInv
<1>3. TakenBefore'
  <2>1. \A r \in replies : r.life # screen'.life /\ r.life <= screen'.life /\ 1 <= r.gen
    BY <1>1, <1>n DEF AloneInv, TakenBefore
  <2> QED
    BY <1>1, <1>2, <2>1 DEF AloneInv, TakenBefore
<1>4. OnlyTheMadeLand'
  BY <1>2 DEF AloneInv, OnlyTheMadeLand
<1>5. ASSUME ~overlapped' PROVE InStep'
  <2>1. InStep
    BY <1>5 DEF AloneInv, Counted
  <2>2. \A c \in Calls : call[c].at \notin InFlight
    BY <1>1, <1>5 DEF Counted, ComputerDiesUnder
  <2>3. \A c \in Calls : call'[c].at \notin {"record", "act", "orphan"}
    BY <1>2, <2>2 DEF InFlight
  <2>4. \A c \in Calls : JudgedTrue(c)'
    BY <2>3 DEF JudgedTrue
  <2>5. DecidedOnWhatItTouches'
    BY <1>2, <2>1 DEF InStep, DecidedOnWhatItTouches
  <2> QED
    BY <1>1, <2>1, <2>4, <2>5 DEF InStep
<1> QED
  BY <1>3, <1>4, <1>5 DEF AloneInv

LEMMA ComputerDiesKeepsStep ==
  ASSUME AloneInv, TypeOK', Counted, ComputerDies
  PROVE  AloneInv'
BY NewComputerKeepsStep DEF ComputerDies

LEMMA ActingKeepsStep ==
  ASSUME AloneInv, TypeOK', Counted, NEW c \in Calls, Acting(c)
  PROVE  AloneInv'
<1>1. ASSUME NEW gen \in 0..MaxGen, NEW policy \in Policies, Govern(c, gen, policy)
      PROVE  AloneInv'
  BY <1>1, GoverningKeepsStep
<1>2. CASE Record(c) \/ RecordFails(c)
  <2>1. PICK to \in {"act", "over", "unrecorded"} : Goes(c, to)
    BY <1>2 DEF Record, RecordFails, AfterUnrecorded
  <2>2. call[c].at = "record" /\ UNCHANGED <<screen, replies, cached, held, landed>>
    BY <1>2 DEF Record, RecordFails, At
  <2> QED
    BY <2>1, <2>2, MovingKeepsStep
<1>3. CASE Lands(c)
  <2>1. PICK to \in {"reply", "unrecorded"} : Goes(c, to)
    BY <1>3 DEF Lands
  <2>2. /\ call[c].at \in {"act", "orphan"} /\ call[c].gen \in {NoRef, screen.gen}
        /\ landed' = landed \cup {[call |-> c, touched |-> screen.names]}
        /\ UNCHANGED <<replies, cached, held>> /\ (UNCHANGED screen \/ Navigates)
    BY <1>3 DEF Lands, At
  <2> QED
    BY <2>1, <2>2, MovingKeepsStep
<1>4. CASE DoesNotLand(c) \/ Answered(c) \/ ReplyLost(c) \/ RecordFailure(c) \/ FailureUnrecorded(c)
  <2>1. PICK to \in {"failure", "over", "unrecorded"} : Goes(c, to)
    BY <1>4 DEF DoesNotLand, Answered, ReplyLost, RecordFailure, FailureUnrecorded
  <2>2. UNCHANGED <<screen, replies, cached, held, landed>>
    BY <1>4 DEF DoesNotLand, Answered, ReplyLost, RecordFailure, FailureUnrecorded
  <2> QED
    BY <2>1, <2>2, MovingKeepsStep
<1> QED
  BY <1>1, <1>2, <1>3, <1>4 DEF Acting

LEMMA HandingKeepsStep ==
  ASSUME AloneInv, TypeOK', Counted, NEW h \in Handovers, Handing(h)
  PROVE  AloneInv'
<1>1. h \notin Calls
  BY GatewayAssumption
<1>2. PICK to \in {"wheel", "note", "over", "unrecorded"} :
         \/ UNCHANGED <<screen, held>> /\ Goes(h, to)
         \/ NewComputer /\ call' = [Bereft EXCEPT ![h].at = to]
  BY DEF Handing, AskHandover, HandoverLands, HandoverFails, RecordHandover, HandoverUnrecorded,
         FirstOfHandover, ComputerDoes
<1>3. /\ landed' = landed \/ landed' = landed \cup {[call |-> h, touched |-> screen.names]}
      /\ UNCHANGED <<replies, cached>>
  BY DEF Handing, AskHandover, HandoverLands, HandoverFails, RecordHandover, HandoverUnrecorded
<1>4. CASE UNCHANGED <<screen, held>> /\ Goes(h, to)
  BY <1>1, <1>3, <1>4, MovingKeepsStep
<1>5. CASE NewComputer /\ call' = [Bereft EXCEPT ![h].at = to]
  <2>1. \A c \in Calls : call'[c] = Bereft[c]
    BY <1>1, <1>5, BereftTyped DEF AloneInv
  <2>2. \A l \in landed' : l.call \in Calls => l \in landed
    BY <1>1, <1>3
  <2> QED
    BY <1>3, <1>5, <2>1, <2>2, NewComputerKeepsStep
<1> QED
  BY <1>2, <1>4, <1>5

LEMMA AloneInvariant == MCSpec => []AloneInv
<1>1. MCInit => IInv /\ AloneInv
  <2> SUFFICES ASSUME MCInit PROVE IInv /\ AloneInv
    OBVIOUS
  <2>1. Init /\ IInv
    BY InvInit DEF MCInit
  <2>2. replies = {} /\ held = {} /\ landed = {}
    BY <2>1 DEF Init
  <2>3. \A c \in Calls : call[c].at = "new" /\ call[c].given = FALSE
    BY <2>1 DEF Init, NotMade
  <2>4. TakenBefore /\ OnlyTheMadeLand /\ InStep
    BY <2>2, <2>3 DEF TakenBefore, OnlyTheMadeLand, InStep, JudgedTrue, DecidedOnWhatItTouches
  <2> QED
    BY <2>1, <2>4 DEF IInv, AloneInv
<1>2. IInv /\ [MCNext]_governanceVars => IInv'
  <2> SUFFICES ASSUME IInv, [MCNext]_governanceVars PROVE IInv'
    OBVIOUS
  <2>1. [Next]_vars
    BY DEF MCNext, governanceVars
  <2> QED
    BY <2>1, InvNext
<1>3. AloneInv /\ IInv' /\ [MCNext]_governanceVars => AloneInv'
  <2> SUFFICES ASSUME AloneInv, IInv', [MCNext]_governanceVars PROVE AloneInv'
    OBVIOUS
  <2>1. CASE UNCHANGED <<vars, overlapped>>
    BY <2>1 DEF vars, AloneInv, TypeOK, TakenBefore, OnlyTheMadeLand, InStep, JudgedTrue, DecidedOnWhatItTouches
  <2>2. CASE Next /\ overlapped' = (overlapped \/ AtOnce' \/ ComputerDiesUnder)
    <3>1. Counted /\ TypeOK'
      BY <2>2 DEF IInv, Counted
    <3> QED
      BY <2>2, <3>1, SnapshotKeepsStep, RepliesKeepStep, ActingKeepsStep, HandingKeepsStep, CrashKeepsStep,
         ComputerDiesKeepsStep DEF Next
  <2> QED
    BY <2>1, <2>2 DEF MCNext, governanceVars
<1> QED
  BY <1>1, <1>2, <1>3, PTL DEF MCSpec

(* As long as a Bot's calls, its snapshots and the ends of its computer    *)
(* come one at a time, and however often this server restarts and          *)
(* generations come again, what the policy was asked about is what the     *)
(* action touches (resolve, the snapshots map, and the generation check    *)
(* behind it).                                                             *)
THEOREM DecidedAlone == MCSpec => []DecidedOnWhatItTouchesAlone
<1>1. AloneInv => DecidedOnWhatItTouchesAlone
  BY DEF AloneInv, InStep, DecidedOnWhatItTouchesAlone
<1> QED
  BY <1>1, AloneInvariant, PTL

-----------------------------------------------------------------------------
(* The policy store, for any policies, contexts and administrators.        *)

(* The order of the lists decides which rule is named, never the answer:   *)
(* an action is permitted when no deny rule hits and some allow rule does. *)
LEMMA PermitsUnordered ==
  ASSUME NEW p, NEW c
  PROVE  Permits(p, c) <=> Hits(p.deny, c, TRUE) = {} /\ Hits(p.allow, c, FALSE) # {}
BY DEF Permits, evaluateActionPolicy, Decision

(* A tighter policy permits no more (deny beats allow).                    *)
LEMMA TighterIsTighter ==
  ASSUME NEW p, NEW q, NEW c, Tighter(q, p), Permits(q, c)
  PROVE  Permits(p, c)
<1>1. Hits(q.deny, c, TRUE) = {} /\ Hits(q.allow, c, FALSE) # {}
  BY PermitsUnordered
<1>2. Hits(p.deny, c, TRUE) = {}
  <2>1. SUFFICES ASSUME NEW i \in DOMAIN p.deny, matches(p.deny[i], c, TRUE)
                 PROVE  FALSE
    BY DEF Hits
  <2>2. p.deny[i] \in Rules(q.deny)
    BY DEF Tighter, Rules
  <2>3. PICK j \in DOMAIN q.deny : q.deny[j] = p.deny[i]
    BY <2>2 DEF Rules
  <2>4. matches(q.deny[j], c, TRUE)
    BY <2>1, <2>3
  <2> QED
    BY <1>1, <2>4 DEF Hits
<1>3. Hits(p.allow, c, FALSE) # {}
  <2>1. PICK i \in DOMAIN q.allow : matches(q.allow[i], c, FALSE)
    BY <1>1 DEF Hits
  <2>2. PICK j \in DOMAIN p.allow : p.allow[j] = q.allow[i]
    BY <2>1 DEF Tighter, Rules
  <2> QED
    BY <2>1, <2>2 DEF Hits
<1> QED
  BY <1>2, <1>3, PermitsUnordered

(* Rules that start to throw permit no more (a broken deny still denies, a *)
(* broken allow does not permit).                                          *)
LEMMA BrokenIsTighter ==
  ASSUME NEW p, NEW q, NEW c \in Contexts, Breaks(q, p), Permits(q, c)
  PROVE  Permits(p, c)
<1>1. Hits(q.deny, c, TRUE) = {} /\ Hits(q.allow, c, FALSE) # {}
  BY PermitsUnordered
<1>2. Hits(p.deny, c, TRUE) = {}
  <2>1. SUFFICES ASSUME NEW i \in DOMAIN p.deny, matches(p.deny[i], c, TRUE)
                 PROVE  FALSE
    BY DEF Hits
  <2>2. i \in DOMAIN q.deny /\ q.deny[i][c] \in {p.deny[i][c], "broken"}
    BY DEF Breaks
  <2>3. matches(q.deny[i], c, TRUE)
    BY <2>1, <2>2 DEF matches
  <2> QED
    BY <1>1, <2>2, <2>3 DEF Hits
<1>3. Hits(p.allow, c, FALSE) # {}
  <2>1. PICK i \in DOMAIN q.allow : matches(q.allow[i], c, FALSE)
    BY <1>1 DEF Hits
  <2>2. i \in DOMAIN p.allow /\ q.allow[i][c] \in {p.allow[i][c], "broken"}
    BY <2>1 DEF Breaks
  <2>3. matches(p.allow[i], c, FALSE)
    BY <2>1, <2>2 DEF matches
  <2> QED
    BY <2>2, <2>3 DEF Hits
<1> QED
  BY <1>2, <1>3, PermitsUnordered

(* Replacing the policy by a tighter one permits nothing new: the property *)
(* TighterPermitsNoMore of every step, for every list of rules.            *)
THEOREM TighterTheorem == StoreSpec => TighterPermitsNoMore
<1>1. ASSUME [StoreNext]_storeVars
      PROVE  Tighter(current', current) =>
               \A c \in Contexts : Permits(current', c) => Permits(current, c)
  BY TighterIsTighter
<1> QED
  BY <1>1, PTL DEF StoreSpec, TighterPermitsNoMore

(* A rule that starts to throw opens nothing: BrokenOpensNothing.          *)
THEOREM BrokenTheorem == StoreSpec => BrokenOpensNothing
<1>1. ASSUME [StoreNext]_storeVars
      PROVE  Breaks(current', current) =>
               \A c \in Contexts : Permits(current', c) => Permits(current, c)
  BY BrokenIsTighter
<1> QED
  BY <1>1, PTL DEF StoreSpec, BrokenOpensNothing

-----------------------------------------------------------------------------
(* The record and the cache.                                               *)

(* A statement that took effect is what the row holds until its call ends  *)
(* or another's replaces it.                                               *)
RowIsWritten ==
    \A a \in Admins : change[a].at = "done" /\ a \notin overtaken => row = change[a].next

StoreInv == StoreTypeOK /\ RowIsWritten /\ MemoryIsTheRecord

(* What is on record is a policy an administrator may write, or the        *)
(* configured one.                                                         *)
LEMMA OnRecordTyped ==
  ASSUME NEW r \in Writable \cup {NoRow}
  PROVE  OnRecord(r) \in Writable \cup {Configured}
BY DEF OnRecord

LEMMA StoreTypeInit == StoreInit => StoreTypeOK
<1> SUFFICES ASSUME StoreInit PROVE StoreTypeOK
  OBVIOUS
<1>1. current \in Writable \cup {Configured} /\ row \in Writable \cup {NoRow}
  BY OnRecordTyped DEF StoreInit
<1>2. Idle \in Change
  BY DEF Idle, Change
<1> QED
  BY <1>1, <1>2 DEF StoreInit, StoreTypeOK

(* Types are kept by every step.                                           *)
LEMMA StoreTypeStep == StoreTypeOK /\ [StoreNext]_storeVars => StoreTypeOK'
<1> SUFFICES ASSUME StoreTypeOK, [StoreNext]_storeVars PROVE StoreTypeOK'
  OBVIOUS
<1> USE OnRecordTyped
<1>1. CASE Restart
  <2>1. PICK arrived \in {change[a].next : a \in {b \in Admins : change[b].at = "sent"}} \cup {row} :
          row' = arrived /\ current' = OnRecord(arrived)
    BY <1>1 DEF Restart
  <2>2. arrived \in Writable \cup {NoRow}
    BY DEF StoreTypeOK, Change
  <2> QED
    BY <1>1, <2>1, <2>2 DEF Restart, StoreTypeOK, Change, Idle
<1>2. ASSUME NEW a \in Admins, NEW next \in Writable \cup {NoRow}, Send(a, next)
      PROVE  StoreTypeOK'
  BY <1>2 DEF Send, StoreTypeOK, Change
<1>3. ASSUME NEW a \in Admins, Writes(a) PROVE StoreTypeOK'
  BY <1>3 DEF Writes, ChangeIs, StoreTypeOK, Change
<1>4. ASSUME NEW a \in Admins, Refused(a) PROVE StoreTypeOK'
  BY <1>4 DEF Refused, InForceAfterFailure, Idle, StoreTypeOK, Change
<1>5. ASSUME NEW a \in Admins, Applies(a) PROVE StoreTypeOK'
  BY <1>5 DEF Applies, Idle, StoreTypeOK, Change
<1>6. CASE UNCHANGED storeVars
  BY <1>6 DEF storeVars, StoreTypeOK
<1> QED
  BY <1>1, <1>2, <1>3, <1>4, <1>5, <1>6 DEF StoreNext

(* Types hold in every state.                                              *)
THEOREM StoreTypeCorrect == StoreSpec => []StoreTypeOK
<1> QED
  BY StoreTypeInit, StoreTypeStep, PTL DEF StoreSpec

(* For any administrators, whose calls cross, fail and lose their replies, *)
(* what is enforced is what a restart would enforce, but after a reply was *)
(* lost or came behind another's statement, until one comes in order.      *)
THEOREM CacheIsRecord == StoreSpec => []MemoryIsTheRecord
<1>1. StoreInit => StoreInv
  BY StoreTypeInit DEF StoreInit, StoreInv, Idle, RowIsWritten, MemoryIsTheRecord
<1>2. StoreInv /\ [StoreNext]_storeVars => StoreInv'
  <2> SUFFICES ASSUME StoreInv, [StoreNext]_storeVars PROVE RowIsWritten' /\ MemoryIsTheRecord'
    BY StoreTypeStep DEF StoreInv
  <2> USE DEF StoreInv, StoreTypeOK
  <2>1. CASE Restart
    BY <2>1 DEF Restart, Idle, RowIsWritten, MemoryIsTheRecord, InBetween
  <2>2. ASSUME NEW a \in Admins, NEW next \in Writable \cup {NoRow}, Send(a, next)
        PROVE  RowIsWritten' /\ MemoryIsTheRecord'
    BY <2>2 DEF Send, RowIsWritten, MemoryIsTheRecord, InBetween
  <2>3. ASSUME NEW a \in Admins, Writes(a)
        PROVE  RowIsWritten' /\ MemoryIsTheRecord'
    <3>1. change'[a].at = "done" /\ row' = change'[a].next
      BY <2>3 DEF Writes, ChangeIs, Change
    <3>2. \A b \in Admins : b # a /\ change'[b].at = "done" => b \in overtaken'
      BY <2>3 DEF Writes, ChangeIs
    <3> QED
      BY <3>1, <3>2 DEF RowIsWritten, MemoryIsTheRecord, InBetween
  <2>4. ASSUME NEW a \in Admins, Refused(a)
        PROVE  RowIsWritten' /\ MemoryIsTheRecord'
    BY <2>4 DEF Refused, InForceAfterFailure, Idle, RowIsWritten, MemoryIsTheRecord, InBetween
  <2>5. ASSUME NEW a \in Admins, Applies(a)
        PROVE  RowIsWritten' /\ MemoryIsTheRecord'
    BY <2>5 DEF Applies, Idle, RowIsWritten, MemoryIsTheRecord, InBetween
  <2>6. CASE UNCHANGED storeVars
    BY <2>6 DEF storeVars, RowIsWritten, MemoryIsTheRecord, InBetween
  <2> QED
    BY <2>1, <2>2, <2>3, <2>4, <2>5, <2>6 DEF StoreNext
<1>3. StoreInv => MemoryIsTheRecord
  BY DEF StoreInv
<1> QED
  BY <1>1, <1>2, <1>3, PTL DEF StoreSpec
=============================================================================
