------------------------- MODULE AgentComputer_proofs -------------------------
(***************************************************************************)
(* What holds of AgentComputer for every set of slots and refs and every   *)
(* bound: its types, that nothing is admitted under the wrong driver, and  *)
(* what a ref names, with the history that MC_Governance adds.             *)
(***************************************************************************)
EXTENDS MC_Governance, TLAPS

\* The requests in flight were admitted in this tenure or an earlier one:
\* without it, a new tenure could coincide with an old request's stamp.
StampedInThePast == \A s \in Slots : req[s].since <= control.since

IInv == ComputerTypeOK /\ StampedInThePast /\ OnlyLateRequestsTrespass

-----------------------------------------------------------------------------
(* A handler that moves on without admitting anything: it keeps the kind   *)
(* and the stamp of its request, or its slot is free again.                *)
MovesOn(s) == /\ req' \in [Slots -> Request]
              /\ \A t \in Slots : \/ req'[t] = req[t]
                                  \/ t = s /\ req'[t] = NoRequest
                                  \/ /\ t = s /\ req'[t].kind = req[t].kind
                                     /\ req'[t].since = req[t].since

(* Moving on preserves the invariant while the driver and the tenure stay  *)
(* (every handler but stop, reset and the wheel's own).                    *)
LEMMA MovesOnSafe ==
    ASSUME IInv, NEW s \in Slots, MovesOn(s), ComputerTypeOK',
           control'.since = control.since, control'.holder = control.holder
    PROVE  IInv'
<1>1. StampedInThePast'
  BY DEF NoRequest, ControlState, Request, Listing, NoListing, Kinds, BotKinds, Pcs, IInv, ComputerTypeOK, StampedInThePast, MovesOn
<1>2. OnlyLateRequestsTrespass'
  BY DEF NoRequest, ControlState, Request, Listing, NoListing, Kinds, BotKinds, Pcs, IInv, ComputerTypeOK, OnlyLateRequestsTrespass, MovesOn
<1> QED BY <1>1, <1>2 DEF IInv

(* A new tenure disarms every stamp there is: whatever is in flight is now *)
(* late (take, release, and the release at the end of a stop).             *)
LEMMA NewTenureSafe ==
    ASSUME IInv, NEW s \in Slots, MovesOn(s), ComputerTypeOK',
           control'.since = control.since + 1
    PROVE  IInv'
<1>1. \A t \in Slots : req'[t] = NoRequest \/ req'[t].since < control'.since
  BY DEF NoRequest, ControlState, Request, Listing, NoListing, Kinds, BotKinds, Pcs, IInv, ComputerTypeOK, StampedInThePast, MovesOn
<1>2. StampedInThePast'
  BY <1>1 DEF NoRequest, ControlState, Request, Listing, NoListing, Kinds, BotKinds, Pcs, IInv, ComputerTypeOK, StampedInThePast
<1>3. OnlyLateRequestsTrespass'
  BY <1>1 DEF NoRequest, ControlState, Request, Listing, NoListing, Kinds, BotKinds, Pcs, ComputerTypeOK, OnlyLateRequestsTrespass
<1> QED BY <1>2, <1>3 DEF IInv

(* Admission stamps a request with the tenure it was checked in, so it is  *)
(* enough that the driver of that tenure is the one the kind needs.        *)
LEMMA AdmitSafe ==
    ASSUME IInv, NEW s \in Slots, NEW kind \in Kinds, NEW pc \in Pcs,
           NEW listing \in Listing, NEW ref \in Refs \cup {NoSecret},
           Admit(s, kind, pc, listing, ref),
           kind \in BotKinds => control.holder = "bot",
           kind = "human" => control.holder = "human"
    PROVE  IInv'
<1>1. ComputerTypeOK'
  BY DEF NoRequest, ControlState, Request, Listing, NoListing, Kinds, BotKinds, Pcs, IInv, ComputerTypeOK, Admit
<1>2. StampedInThePast'
  BY DEF NoRequest, ControlState, Request, Listing, NoListing, Kinds, BotKinds, Pcs, IInv, ComputerTypeOK, Admit, StampedInThePast
<1>3. OnlyLateRequestsTrespass'
  BY DEF NoRequest, ControlState, Request, Listing, NoListing, Kinds, BotKinds, Pcs, IInv, ComputerTypeOK, Admit, OnlyLateRequestsTrespass
<1> QED BY <1>1, <1>2, <1>3 DEF IInv

-----------------------------------------------------------------------------
(* A slot whose request keeps its kind and stamp moves on.                 *)
LEMMA SameRequestMovesOn ==
    ASSUME IInv, NEW s \in Slots, NEW r \in Request,
           r.kind = req[s].kind, r.since = req[s].since,
           req' = [req EXCEPT ![s] = r]
    PROVE  MovesOn(s)
BY DEF MovesOn, IInv, ComputerTypeOK

(* The requests in flight are typed, in a form the records need.           *)
LEMMA ReqTyped == ASSUME IInv PROVE req \in [Slots -> Request]
BY DEF IInv, ComputerTypeOK

(* Every await of a handler preserves the invariant.                       *)
LEMMA ContinueSafe ==
    ASSUME IInv, NEW s \in Slots, Continue(s)
    PROVE  IInv'
<1>1. CASE LocateRef(s)
  <2>1. MovesOn(s)
    <3>1. CASE Superseded(req[s].listing)
      BY <1>1, <3>1, ReqTyped DEF MovesOn, LocateRef,
        NoRequest, Request, Listing, NoListing, Kinds, BotKinds, Pcs
    <3>2. CASE ~Superseded(req[s].listing)
      <4> DEFINE pc == IF req[s].listing.serial = 0 THEN "act" ELSE "count"
                 r  == [req[s] EXCEPT !.browser = page.browser, !.pc = pc]
      <4>1. req' = [req EXCEPT ![s] = r]
        BY <1>1, <3>2 DEF LocateRef
      <4>2. pc \in Pcs
        BY DEF Pcs
      <4> HIDE DEF pc
      <4>3. r \in Request /\ r.kind = req[s].kind /\ r.since = req[s].since
        BY <4>2 DEF IInv, ComputerTypeOK, Request
      <4> QED BY <4>1, <4>3, SameRequestMovesOn
    <3> QED BY <3>1, <3>2
  <2>2. ComputerTypeOK'
    BY <1>1, <2>1, ReqTyped DEF IInv, ComputerTypeOK, MovesOn, IsAt, Listing, ControlState, LocateRef
  <2>3. control'.since = control.since /\ control'.holder = control.holder
    BY <1>1 DEF IInv, ComputerTypeOK, ControlState, LocateRef
  <2> QED BY <2>1, <2>2, <2>3, MovesOnSafe
<1>2. CASE CountRef(s)
  <2>1. MovesOn(s)
    BY <1>2, ReqTyped DEF MovesOn, IsAt, GoesTo, Answers, CountRef,
      NoRequest, Request, Listing, NoListing, Kinds, BotKinds, Pcs
  <2>2. ComputerTypeOK'
    BY <1>2, <2>1, ReqTyped DEF IInv, ComputerTypeOK, MovesOn, IsAt, Listing, ControlState, CountRef
  <2>3. control'.since = control.since /\ control'.holder = control.holder
    BY <1>2 DEF IInv, ComputerTypeOK, ControlState, CountRef
  <2> QED BY <2>1, <2>2, <2>3, MovesOnSafe
<1>3. CASE BotActs(s)
  <2>1. MovesOn(s)
    BY <1>3, ReqTyped DEF MovesOn, IsAt, GoesTo, Answers, BotActs,
      NoRequest, Request, Listing, NoListing, Kinds, BotKinds, Pcs
  <2>2. ComputerTypeOK'
    BY <1>3, <2>1, ReqTyped DEF IInv, ComputerTypeOK, MovesOn, IsAt, Listing, ControlState, BotActs
  <2>3. control'.since = control.since /\ control'.holder = control.holder
    BY <1>3 DEF IInv, ComputerTypeOK, ControlState, BotActs
  <2> QED BY <2>1, <2>2, <2>3, MovesOnSafe
<1>4. CASE PressEnter(s) \/ HumanActs(s)
  <2>1. MovesOn(s)
    BY <1>4, ReqTyped DEF MovesOn, IsAt, GoesTo, Answers, PressEnter, HumanActs,
      NoRequest, Request, Listing, NoListing, Kinds, BotKinds, Pcs
  <2>2. ComputerTypeOK'
    BY <1>4, <2>1, ReqTyped DEF IInv, ComputerTypeOK, MovesOn, IsAt, Listing, ControlState, PressEnter, HumanActs
  <2>3. control'.since = control.since /\ control'.holder = control.holder
    BY <1>4 DEF IInv, ComputerTypeOK, ControlState, PressEnter, HumanActs
  <2> QED BY <2>1, <2>2, <2>3, MovesOnSafe
<1>5. CASE GotPage(s)
  <2>1. MovesOn(s)
    <3>1. PICK pc \in Pcs :
            req' = [req EXCEPT ![s] = [@ EXCEPT !.pc = pc, !.browser = page.browser]]
      BY <1>5 DEF GotPage
    <3> DEFINE r == [req[s] EXCEPT !.pc = pc, !.browser = page.browser]
    <3>2. r \in Request /\ r.kind = req[s].kind /\ r.since = req[s].since
      BY DEF IInv, ComputerTypeOK, Request
    <3> QED BY <3>1, <3>2, SameRequestMovesOn
  <2>2. ComputerTypeOK'
    BY <1>5, <2>1, ReqTyped DEF IInv, ComputerTypeOK, MovesOn, IsAt, Listing, ControlState, GotPage
  <2>3. control'.since = control.since /\ control'.holder = control.holder
    BY <1>5 DEF IInv, ComputerTypeOK, ControlState, GotPage
  <2> QED BY <2>1, <2>2, <2>3, MovesOnSafe
<1>6. CASE Goto(s)
  <2>1. MovesOn(s)
    BY <1>6, ReqTyped DEF MovesOn, IsAt, GoesTo, Answers, Goto,
      NoRequest, Request, Listing, NoListing, Kinds, BotKinds, Pcs
  <2>2. ComputerTypeOK'
    BY <1>6, <2>1, ReqTyped DEF IInv, ComputerTypeOK, MovesOn, IsAt, Listing, ControlState, Goto
  <2>3. control'.since = control.since /\ control'.holder = control.holder
    BY <1>6 DEF IInv, ComputerTypeOK, ControlState, Goto
  <2> QED BY <2>1, <2>2, <2>3, MovesOnSafe
<1>7. CASE Navigated(s)
  <2>1. MovesOn(s)
    BY <1>7, ReqTyped DEF MovesOn, IsAt, GoesTo, Answers, Navigated,
      NoRequest, Request, Listing, NoListing, Kinds, BotKinds, Pcs
  <2>2. ComputerTypeOK'
    BY <1>7, <2>1, ReqTyped DEF IInv, ComputerTypeOK, MovesOn, IsAt, Listing, ControlState, Navigated
  <2>3. control'.since = control.since /\ control'.holder = control.holder
    BY <1>7 DEF IInv, ComputerTypeOK, ControlState, Navigated
  <2> QED BY <2>1, <2>2, <2>3, MovesOnSafe
<1>8. CASE BumpSnapshot(s)
  <2>1. MovesOn(s)
    <3> DEFINE r == [req[s] EXCEPT !.pc = "capture", !.browser = page.browser]
    <3>1. req' = [req EXCEPT ![s] = r]
      BY <1>8 DEF BumpSnapshot
    <3>2. r \in Request /\ r.kind = req[s].kind /\ r.since = req[s].since
      BY DEF IInv, ComputerTypeOK, Request, Listing, Pcs
    <3> QED BY <3>1, <3>2, SameRequestMovesOn
  <2>2. ComputerTypeOK'
    BY <1>8, <2>1, ReqTyped DEF IInv, ComputerTypeOK, MovesOn, IsAt, Listing, ControlState, BumpSnapshot
  <2>3. control'.since = control.since /\ control'.holder = control.holder
    BY <1>8 DEF IInv, ComputerTypeOK, ControlState, BumpSnapshot
  <2> QED BY <2>1, <2>2, <2>3, MovesOnSafe
<1>9. CASE Capture(s)
  <2>1. MovesOn(s)
    <3> DEFINE r == [req[s] EXCEPT !.pc = "reply", !.listing = [gen |-> 0, serial |-> capture.serial + 1]]
    <3>1. req' = [req EXCEPT ![s] = r]
      BY <1>9 DEF Capture
    <3>4. [gen |-> 0, serial |-> capture.serial + 1] \in Listing
      BY DEF IInv, ComputerTypeOK, Listing
    <3>2. r \in Request /\ r.kind = req[s].kind /\ r.since = req[s].since
      BY <3>4 DEF IInv, ComputerTypeOK, Request, Pcs
    <3> QED BY <3>1, <3>2, SameRequestMovesOn
  <2>2. ComputerTypeOK'
    BY <1>9, <2>1, ReqTyped DEF IInv, ComputerTypeOK, MovesOn, IsAt, Listing, ControlState, Capture
  <2>3. control'.since = control.since /\ control'.holder = control.holder
    BY <1>9 DEF IInv, ComputerTypeOK, ControlState, Capture
  <2> QED BY <2>1, <2>2, <2>3, MovesOnSafe
<1>10. CASE SnapshotReply(s)
  <2>1. MovesOn(s)
    BY <1>10, ReqTyped DEF MovesOn, IsAt, GoesTo, Answers, SnapshotReply,
      NoRequest, Request, Listing, NoListing, Kinds, BotKinds, Pcs
  <2>2. ComputerTypeOK'
    BY <1>10, <2>1, ReqTyped DEF IInv, ComputerTypeOK, MovesOn, IsAt, Listing, ControlState, Request, SnapshotReply
  <2>3. control'.since = control.since /\ control'.holder = control.holder
    BY <1>10 DEF IInv, ComputerTypeOK, ControlState, Request, SnapshotReply
  <2> QED BY <2>1, <2>2, <2>3, MovesOnSafe
<1>11. CASE FillSecret(s) \/ RejectSecretBody(s)
  <2>1. MovesOn(s)
    BY <1>11, ReqTyped DEF MovesOn, IsAt, GoesTo, Answers, FillSecret, RejectSecretBody,
      NoRequest, Request, Listing, NoListing, Kinds, BotKinds, Pcs
  <2>2. ComputerTypeOK'
    BY <1>11, <2>1, ReqTyped DEF IInv, ComputerTypeOK, MovesOn, IsAt, Listing, ControlState, FillSecret, RejectSecretBody
  <2>3. control'.since = control.since /\ control'.holder = control.holder
    BY <1>11 DEF IInv, ComputerTypeOK, ControlState, FillSecret, RejectSecretBody
  <2> QED BY <2>1, <2>2, <2>3, MovesOnSafe
<1>12. CASE CloseSecret(s) \/ FailSecret(s)
  <2>1. MovesOn(s)
    BY <1>12, ReqTyped DEF MovesOn, IsAt, GoesTo, Answers, CloseSecret, FailSecret, AfterFailedFill, secretSupplied,
      NoRequest, Request, Listing, NoListing, Kinds, BotKinds, Pcs
  <2>2. ComputerTypeOK'
    BY <1>12, <2>1, ReqTyped DEF IInv, ComputerTypeOK, MovesOn, IsAt, Listing, ControlState, CloseSecret, FailSecret, AfterFailedFill, secretSupplied
  <2>3. control'.since = control.since /\ control'.holder = control.holder
    BY <1>12 DEF IInv, ComputerTypeOK, ControlState, CloseSecret, FailSecret, AfterFailedFill, secretSupplied
  <2> QED BY <2>1, <2>2, <2>3, MovesOnSafe
<1>13. CASE CloseBrowser(s) \/ NothingToClose(s)
  <2>1. MovesOn(s)
    BY <1>13, ReqTyped DEF MovesOn, IsAt, GoesTo, Answers, CloseBrowser, NothingToClose,
      NoRequest, Request, Listing, NoListing, Kinds, BotKinds, Pcs
  <2>2. ComputerTypeOK'
    BY <1>13, <2>1, ReqTyped DEF IInv, ComputerTypeOK, MovesOn, IsAt, Listing, ControlState, CloseBrowser, NothingToClose
  <2>3. control'.since = control.since /\ control'.holder = control.holder
    BY <1>13 DEF IInv, ComputerTypeOK, ControlState, CloseBrowser, NothingToClose
  <2> QED BY <2>1, <2>2, <2>3, MovesOnSafe
<1>14. CASE Settled(s)
  <2>1. MovesOn(s)
    BY <1>14, ReqTyped DEF MovesOn, IsAt, GoesTo, Answers, Settled, release,
      NoRequest, Request, Listing, NoListing, Kinds, BotKinds, Pcs
  <2>2. ComputerTypeOK'
    BY <1>14, <2>1, ReqTyped DEF IInv, ComputerTypeOK, MovesOn, IsAt, Listing, ControlState, Settled, release
  <2>3. control'.since = control.since + 1
    BY <1>14 DEF IInv, ComputerTypeOK, ControlState, Settled, release
  <2> QED BY <2>1, <2>2, <2>3, NewTenureSafe
<1>15. CASE Fails(s)
  <2>1. MovesOn(s)
    BY <1>15, ReqTyped DEF MovesOn, IsAt, GoesTo, Answers, Fails,
      NoRequest, Request, Listing, NoListing, Kinds, BotKinds, Pcs
  <2>2. ComputerTypeOK'
    BY <1>15, <2>1, ReqTyped DEF IInv, ComputerTypeOK, MovesOn, IsAt, Listing, ControlState, Fails
  <2>3. control'.since = control.since /\ control'.holder = control.holder
    BY <1>15 DEF IInv, ComputerTypeOK, ControlState, Fails
  <2> QED BY <2>1, <2>2, <2>3, MovesOnSafe
<1> QED
  BY <1>1, <1>2, <1>3, <1>4, <1>5, <1>6, <1>7, <1>8, <1>9, <1>10, <1>11, <1>12, <1>13, <1>14, <1>15
  DEF Continue

(* Every admission preserves the invariant: the two checks are exactly what*)
(* AdmitSafe asks of the kinds that need a driver.                         *)
LEMMA StartSafe ==
    ASSUME IInv, NEW s \in Slots, Start(s)
    PROVE  IInv'
<1>1. CASE StartAct(s)
  <2>1. PICK kind \in {"act", "type"}, l \in listings \cup {NoListing}, named \in BOOLEAN :
          Admit(s, kind, "page", IF named THEN l ELSE [l EXCEPT !.gen = 0], NoSecret)
    BY <1>1 DEF StartAct
  <2>2. (IF named THEN l ELSE [l EXCEPT !.gen = 0]) \in Listing
    BY DEF IInv, ComputerTypeOK, Listing, NoListing
  <2>3. control.holder = "bot"
    BY <1>1 DEF StartAct, assertBotMayAct
  <2>4. kind \in Kinds /\ "page" \in Pcs
    BY DEF Kinds, BotKinds, Pcs
  <2> QED BY <2>1, <2>2, <2>3, <2>4, AdmitSafe
<1>2. CASE StartNavigate(s)
  BY <1>2, AdmitSafe DEF StartNavigate, assertBotMayAct, Kinds, BotKinds, Pcs, Listing, NoListing
<1>3. CASE StartSnapshot(s)
  BY <1>3, AdmitSafe DEF StartSnapshot, Kinds, BotKinds, Pcs, Listing, NoListing
<1>4. CASE StartHuman(s)
  BY <1>4, AdmitSafe DEF StartHuman, humanMayDrive, Kinds, BotKinds, Pcs, Listing, NoListing
<1>5. CASE StartSecret(s)
  <2>1. control.secret \in Refs \cup {NoSecret}
    BY DEF IInv, ComputerTypeOK, ControlState
  <2> QED
    BY <1>5, <2>1, AdmitSafe DEF StartSecret, Kinds, BotKinds, Pcs, Listing, NoListing
<1>6. CASE StartStop(s)
  BY <1>6, AdmitSafe DEF StartStop, Kinds, BotKinds, Pcs, Listing, NoListing
<1> QED BY <1>1, <1>2, <1>3, <1>4, <1>5, <1>6 DEF Start

(* The wheel's own operations: asking keeps the tenure, taking and         *)
(* releasing begin one.                                                    *)
LEMMA WheelSafe ==
    ASSUME IInv, Wheel
    PROVE  IInv'
<1> USE DEF IInv, ComputerTypeOK, StampedInThePast, OnlyLateRequestsTrespass, ControlState, Request
<1>1. CASE RequestHelp
  BY <1>1 DEF RequestHelp, requestHelp
<1>2. CASE TakeControl
  BY <1>2 DEF TakeControl, take
<1>3. CASE ReleaseControl
  BY <1>3 DEF ReleaseControl, release
<1>4. CASE \E ref \in Refs \cup {Blank} : RequestSecret(ref)
  BY <1>4 DEF RequestSecret, requestSecret, NamesField
<1> QED BY <1>1, <1>2, <1>3, <1>4 DEF Wheel

LEMMA InvInit == ComputerInit => IInv
BY DEF ComputerInit, IInv, ComputerTypeOK, StampedInThePast, OnlyLateRequestsTrespass,
   createControl, NoRequest, ControlState, Request, Listing, NoListing, Kinds, BotKinds, Pcs

LEMMA InvNext == IInv /\ [ComputerNext]_computerVars => IInv'
<1> SUFFICES ASSUME IInv, [ComputerNext]_computerVars PROVE IInv'
  OBVIOUS
<1>1. CASE Wheel
  BY <1>1, WheelSafe
<1>2. CASE PageMoves
  BY <1>2 DEF PageMoves, IInv, ComputerTypeOK, StampedInThePast, OnlyLateRequestsTrespass
<1>3. ASSUME NEW s \in Slots, Start(s) PROVE IInv'
  BY <1>3, StartSafe
<1>4. ASSUME NEW s \in Slots, Continue(s) PROVE IInv'
  BY <1>4, ContinueSafe
<1>5. CASE UNCHANGED computerVars
  BY <1>5 DEF computerVars, IInv, ComputerTypeOK, StampedInThePast, OnlyLateRequestsTrespass
<1> QED BY <1>1, <1>2, <1>3, <1>4, <1>5 DEF ComputerNext

(* The inductive invariant.                                                *)
THEOREM InductiveInvariant == ComputerSpec => []IInv
BY InvInit, InvNext, PTL DEF ComputerSpec

(* The types of control.ts and index.ts hold throughout.                   *)
THEOREM TypeCorrect == ComputerSpec => []ComputerTypeOK
BY InductiveInvariant, PTL DEF IInv

(* Whatever trespasses on the other driver's tenure was already in flight  *)
(* when that tenure began: the checks of control.ts let nothing else in,   *)
(* however many requests are served at once.                               *)
THEOREM TrespassOnlyByLateRequests == ComputerSpec => []OnlyLateRequestsTrespass
BY InductiveInvariant, PTL DEF IInv

-----------------------------------------------------------------------------
(* The newest capture.  Replies of /snapshot bear generations that were    *)
(* reached; and while the Bot's own requests came one at a time, the one   *)
(* that bears the present generation lists the newest capture, and none    *)
(* bears it while a snapshot has moved it on and not yet been answered.    *)
Names(r) == r.kind \in {"act", "type"} /\ ~Unchecked(r.listing)
Present(l) == l.gen = snapshotId => l.serial = capture.serial

GenerationsReached ==
    /\ \A l \in listings : l.gen <= snapshotId
    /\ \A s \in Slots : Names(req[s]) => req[s].listing.gen <= snapshotId

OneOfBot == \A s, t \in OfBot : s = t

InOrder(r) ==
    /\ Names(r) => Present(r.listing) /\ (r.pc # "page" => r.listing.serial = capture.serial)
    /\ r.kind = "snapshot" /\ r.pc \in {"capture", "reply"} => \A l \in listings : l.gen < snapshotId
    /\ r.kind = "snapshot" /\ r.pc = "reply" => r.listing.serial = capture.serial

Calm == OneOfBot /\ (\A l \in listings : Present(l)) /\ \A s \in Slots : InOrder(req[s])

NewestInv == IInv /\ GenerationsReached /\ (~crowded => Calm)

LEMMA GoesOn ==
  ASSUME IInv, NEW s \in Slots, NEW pc, GoesTo(s, pc)
  PROVE  /\ req'[s].kind = req[s].kind /\ req'[s].listing = req[s].listing /\ req'[s].pc = pc
         /\ \A t \in Slots \ {s} : req'[t] = req[t]
<1>1. req \in [Slots -> Request] /\ req[s] \in Request
  BY DEF IInv, ComputerTypeOK
<1>2. PICK r : r = [req[s] EXCEPT !.pc = pc]
  OBVIOUS
<1>3. r.kind = req[s].kind /\ r.listing = req[s].listing /\ r.pc = pc
  BY <1>1, <1>2 DEF Request
<1>4. req' = [req EXCEPT ![s] = r]
  BY <1>2 DEF GoesTo
<1> HIDE DEF Request
<1> QED
  BY <1>1, <1>3, <1>4

LEMMA AnswersOne ==
  ASSUME IInv, NEW s \in Slots, Answers(s)
  PROVE  req'[s] = NoRequest /\ \A t \in Slots \ {s} : req'[t] = req[t]
BY DEF IInv, ComputerTypeOK, Answers

LEMMA NothingIsAsked == ~Names(NoRequest) /\ InOrder(NoRequest) /\ InOrder(NoRequest)'
BY DEF NoRequest, Names, InOrder, Unchecked

(* One request changes, and no snapshot moves.                             *)
LEMMA OneKeepsNewest ==
  ASSUME NewestInv, IInv', ~crowded' => ~crowded /\ OneOfBot', NEW s \in Slots,
         UNCHANGED <<snapshotId, capture, listings>>,
         \A t \in Slots \ {s} : req'[t] = req[t], NEW is, is = req'[s],
         Names(is) => is.listing.gen <= snapshotId, Calm => InOrder(is)
  PROVE  NewestInv'
<1>1. GenerationsReached'
  <2>1. ASSUME NEW t \in Slots, Names(req'[t]) PROVE req'[t].listing.gen <= snapshotId
    <3>1. CASE t # s
      <4>1. PICK r : r = req[t] /\ r = req'[t]
        BY <3>1
      <4> QED
        BY <2>1, <4>1 DEF NewestInv, GenerationsReached
    <3> QED
      BY <2>1, <3>1
  <2>2. ASSUME NEW t \in Slots PROVE Names(req[t])' = Names(req'[t])
    BY DEF Names, Unchecked
  <2> QED
    BY <2>1, <2>2 DEF NewestInv, GenerationsReached
<1>2. ASSUME ~crowded' PROVE Calm'
  <2>1. Calm /\ OneOfBot'
    BY <1>2 DEF NewestInv
  <2>2. ASSUME NEW t \in Slots PROVE InOrder(req[t])'
    <3>1. PICK r : r = req'[t]
      OBVIOUS
    <3>2. InOrder(r)
      <4>1. CASE t # s
        <5>1. r = req[t]
          BY <3>1, <4>1
        <5> QED
          BY <2>1, <5>1 DEF Calm
      <4> QED
        BY <2>1, <3>1, <4>1
    <3> QED
      BY <3>1, <3>2 DEF InOrder, Names, Unchecked, Present
  <2>3. \A l \in listings' : Present(l)'
    BY <2>1 DEF Calm, Present
  <2> QED
    BY <2>1, <2>2, <2>3 DEF Calm
<1> QED
  BY <1>1, <1>2 DEF NewestInv

(* A request goes on, or is over.                                          *)
LEMMA GoingOnKeepsNewest ==
  ASSUME NewestInv, IInv', ~crowded' => ~crowded /\ OneOfBot', NEW s \in Slots,
         UNCHANGED <<snapshotId, capture, listings>>,
         \A t \in Slots \ {s} : req'[t] = req[t],
         \/ req'[s] = NoRequest
         \/ /\ req'[s].kind = req[s].kind /\ req'[s].listing = req[s].listing
            /\ req[s].kind # "snapshot"
            /\ Names(req[s]) => req[s].pc # "page" \/ req[s].listing.gen = snapshotId
  PROVE  NewestInv'
<1>1. PICK was, is : was = req[s] /\ is = req'[s]
  OBVIOUS
<1>2. is = NoRequest \/ (is.kind = was.kind /\ is.listing = was.listing)
  BY <1>1
<1>3. Names(is) => Names(was) /\ is.listing = was.listing
  BY <1>2, NothingIsAsked DEF Names
<1>4. Names(is) => is.listing.gen <= snapshotId
  BY <1>1, <1>3 DEF NewestInv, GenerationsReached
<1>5. Calm => InOrder(is)
  <2>1. CASE is = NoRequest
    BY <2>1, NothingIsAsked
  <2>2. CASE is # NoRequest
    <3>1. is.kind = was.kind /\ is.listing = was.listing /\ was.kind # "snapshot"
          /\ (Names(was) => was.pc # "page" \/ was.listing.gen = snapshotId)
      BY <1>1, <2>2
    <3>2. Calm => InOrder(was)
      BY <1>1 DEF Calm
    <3> QED
      BY <1>3, <3>1, <3>2 DEF InOrder, Present
  <2> QED
    BY <2>1, <2>2
<1> QED
  BY <1>1, <1>4, <1>5, OneKeepsNewest

(* A request is admitted, with a listing the Bot holds or none it names.   *)
LEMMA AdmittingKeepsNewest ==
  ASSUME NewestInv, IInv', ~crowded' => ~crowded /\ OneOfBot', NEW s \in Slots,
         NEW kind, NEW pc, pc = "page" \/ (pc = "close" /\ kind = "stop"), NEW listing, NEW ref,
         Admit(s, kind, pc, listing, ref), Unchecked(listing) \/ listing \in listings
  PROVE  NewestInv'
<1>1. PICK is : is = [kind |-> kind, pc |-> pc, listing |-> listing, ref |-> ref,
                      since |-> control.since, browser |-> 0]
  OBVIOUS
<1>2. req' = [req EXCEPT ![s] = is] /\ UNCHANGED <<snapshotId, capture, listings>>
  BY <1>1 DEF Admit
<1>3. is = req'[s] /\ \A t \in Slots \ {s} : req'[t] = req[t]
  BY <1>2 DEF NewestInv, IInv, ComputerTypeOK
<1>4. is.kind = kind /\ is.pc = pc /\ is.listing = listing
  BY <1>1
<1>5. Names(is) => listing \in listings /\ is.listing.gen <= snapshotId
  BY <1>4 DEF Names, NewestInv, GenerationsReached
<1>6. Calm => InOrder(is)
  <2>1. Calm => (Names(is) => Present(listing))
    BY <1>5 DEF Calm
  <2>2. Names(is) => is.pc = "page"
    BY <1>4 DEF Names
  <2> QED
    BY <1>4, <2>1, <2>2 DEF InOrder
<1> QED
  BY <1>2, <1>3, <1>5, <1>6, OneKeepsNewest

(* The generation moves on: whatever was listed is superseded.             *)
LEMMA BumpingKeepsNewest ==
  ASSUME NewestInv, IInv', ~crowded' => ~crowded /\ OneOfBot', NEW s \in Slots,
         snapshotId' = snapshotId + 1, UNCHANGED <<capture, listings>>,
         \A t \in Slots \ {s} : req'[t] = req[t],
         req'[s] = NoRequest \/ (req'[s].kind = "snapshot" /\ req'[s].pc = "capture")
  PROVE  NewestInv'
<1>1. /\ snapshotId \in Nat /\ \A l \in listings : l.gen \in Nat /\ l.gen <= snapshotId
      /\ \A t \in Slots : req[t].listing.gen \in Nat
  BY DEF NewestInv, IInv, ComputerTypeOK, Request, Listing, GenerationsReached
<1>2. PICK is : is = req'[s]
  OBVIOUS
<1>3. ~Names(is) /\ (is = NoRequest \/ (is.kind = "snapshot" /\ is.pc = "capture"))
  <2>1. is = NoRequest \/ (is.kind = "snapshot" /\ is.pc = "capture")
    BY <1>2
  <2> QED
    BY <2>1, NothingIsAsked DEF Names
<1>4. ASSUME NEW t \in Slots, NEW r, r = req'[t], Names(r)
      PROVE  r = req[t] /\ r.listing.gen <= snapshotId /\ r.listing.gen < snapshotId'
  <2>1. t # s
    BY <1>2, <1>3, <1>4
  <2>2. r = req[t]
    BY <1>4, <2>1
  <2>3. r.listing.gen <= snapshotId
    BY <1>4, <2>2 DEF NewestInv, GenerationsReached
  <2> QED
    BY <1>1, <2>2, <2>3
<1>5. GenerationsReached'
  <2>1. ASSUME NEW t \in Slots, Names(req[t])' PROVE (req[t].listing.gen <= snapshotId)'
    <3>1. PICK r : r = req'[t]
      OBVIOUS
    <3>2. Names(r)
      BY <2>1, <3>1 DEF Names, Unchecked
    <3>3. r.listing.gen < snapshotId' /\ r = req[t]
      BY <1>4, <3>1, <3>2
    <3> QED
      BY <1>1, <3>1, <3>3
  <2> QED
    BY <1>1, <2>1 DEF GenerationsReached
<1>6. ASSUME ~crowded' PROVE Calm'
  <2>1. Calm /\ OneOfBot'
    BY <1>6 DEF NewestInv
  <2>2. \A l \in listings : l.gen < snapshotId'
    BY <1>1
  <2>3. ASSUME NEW t \in Slots PROVE InOrder(req[t])'
    <3>1. PICK r : r = req'[t]
      OBVIOUS
    <3>2. Names(r) => r.listing.gen # snapshotId' /\ (r.pc # "page" => r.listing.serial = capture.serial)
      <4> SUFFICES ASSUME Names(r)
                   PROVE  r.listing.gen # snapshotId' /\ (r.pc # "page" => r.listing.serial = capture.serial)
        OBVIOUS
      <4>1. r = req[t] /\ r.listing.gen < snapshotId'
        BY <1>4, <3>1
      <4>2. InOrder(r)
        BY <2>1, <4>1 DEF Calm
      <4>3. r.listing.gen # snapshotId'
        <5>1. PICK gen \in Nat : gen = r.listing.gen
          BY <1>1, <4>1
        <5> QED
          BY <1>1, <4>1, <5>1
      <4> QED
        BY <4>2, <4>3 DEF InOrder
    <3>3. r.kind = "snapshot" /\ r.pc = "reply" => r.listing.serial = capture.serial
      <4>1. CASE t = s
        BY <1>2, <1>3, <3>1, <4>1 DEF NoRequest
      <4>2. CASE t # s
        <5>1. r = req[t]
          BY <3>1, <4>2
        <5> QED
          BY <2>1, <5>1 DEF Calm, InOrder
      <4> QED
        BY <4>1, <4>2
    <3> QED
      BY <2>2, <3>1, <3>2, <3>3 DEF InOrder, Names, Unchecked, Present
  <2>4. \A l \in listings' : Present(l)'
    BY <1>1, <2>2 DEF Present
  <2> QED
    BY <2>1, <2>3, <2>4 DEF Calm
<1> QED
  BY <1>5, <1>6 DEF NewestInv

(* While a snapshot of the Bot is in flight nothing else of the Bot's is.  *)
LEMMA OthersAreNotBots ==
  ASSUME NEW s \in Slots, req[s].kind = "snapshot", OneOfBot, NEW t \in Slots \ {s}
  PROVE  req[t].kind \notin {"act", "type", "snapshot"}
BY DEF OneOfBot, OfBot, BotKinds

LEMMA CapturingKeepsNewest ==
  ASSUME NewestInv, IInv', ~crowded' => ~crowded /\ OneOfBot', NEW s \in Slots, Capture(s)
  PROVE  NewestInv'
<1>1. PICK was : was = req[s]
  OBVIOUS
<1>2. was \in Request /\ req \in [Slots -> Request] /\ capture.serial \in Nat
  BY <1>1 DEF NewestInv, IInv, ComputerTypeOK
<1>3. PICK is : is = [was EXCEPT !.pc = "reply", !.listing = [gen |-> 0, serial |-> capture.serial + 1]]
  OBVIOUS
<1>4. is.kind = was.kind /\ is.pc = "reply" /\ is.listing.serial = capture.serial + 1
  BY <1>2, <1>3 DEF Request
<1>5. /\ was.kind = "snapshot" /\ was.pc = "capture" /\ req' = [req EXCEPT ![s] = is]
      /\ capture'.serial = capture.serial + 1 /\ UNCHANGED <<snapshotId, listings>>
  BY <1>1, <1>3 DEF Capture, IsAt
<1>6. is = req'[s] /\ \A t \in Slots \ {s} : req'[t] = req[t]
  BY <1>2, <1>5
<1>7. GenerationsReached'
  <2>1. ASSUME NEW t \in Slots, Names(req[t])' PROVE (req[t].listing.gen <= snapshotId)'
    <3>1. PICK r : r = req'[t]
      OBVIOUS
    <3>2. Names(r)
      BY <2>1, <3>1 DEF Names, Unchecked
    <3>3. r = req[t]
      BY <1>4, <1>5, <1>6, <3>1, <3>2 DEF Names
    <3> QED
      BY <1>5, <3>1, <3>2, <3>3 DEF NewestInv, GenerationsReached
  <2> QED
    BY <1>5, <2>1 DEF NewestInv, GenerationsReached
<1>8. ASSUME ~crowded' PROVE Calm'
  <2>1. Calm /\ OneOfBot'
    BY <1>8 DEF NewestInv
  <2>2. \A l \in listings : l.gen < snapshotId
    BY <1>1, <1>5, <2>1 DEF Calm, InOrder
  <2>3. \A l \in listings : l.gen # snapshotId
    BY <2>2 DEF NewestInv, IInv, ComputerTypeOK, Listing
  <2>4. ASSUME NEW t \in Slots PROVE InOrder(req[t])'
    <3>1. PICK r : r = req'[t]
      OBVIOUS
    <3>2. CASE t = s
      <4>1. r.kind = "snapshot" /\ r.pc = "reply" /\ r.listing.serial = capture'.serial
        BY <1>4, <1>5, <1>6, <3>1, <3>2
      <4> QED
        BY <1>5, <2>2, <3>1, <4>1 DEF InOrder, Names
    <3>3. CASE t # s
      <4>1. r.kind \notin {"act", "type", "snapshot"}
        <5>1. r = req[t] /\ req[s].kind = "snapshot" /\ OneOfBot
          BY <1>1, <1>5, <1>6, <2>1, <3>1, <3>3 DEF Calm
        <5> QED
          BY <3>3, <5>1, OthersAreNotBots
      <4> QED
        BY <3>1, <4>1 DEF InOrder, Names
    <3> QED
      BY <3>2, <3>3
  <2> QED
    BY <1>5, <2>1, <2>3, <2>4 DEF Calm, Present
<1> QED
  BY <1>7, <1>8 DEF NewestInv

(* The reply bears the generation of now, and lists the newest capture.    *)
LEMMA ReplyingKeepsNewest ==
  ASSUME NewestInv, IInv', ~crowded' => ~crowded /\ OneOfBot', NEW s \in Slots, SnapshotReply(s)
  PROVE  NewestInv'
<1>1. /\ req[s].kind = "snapshot" /\ req[s].pc = "reply" /\ UNCHANGED <<snapshotId, capture>>
      /\ req'[s] = NoRequest /\ \A t \in Slots \ {s} : req'[t] = req[t]
  BY AnswersOne DEF NewestInv, SnapshotReply, IsAt
<1>2. PICK new : new = [gen |-> snapshotId, serial |-> req[s].listing.serial]
  OBVIOUS
<1>3. new.gen = snapshotId /\ new.serial = req[s].listing.serial /\ listings' = listings \cup {new}
  BY <1>2 DEF SnapshotReply
<1>4. GenerationsReached'
  <2>1. ASSUME NEW t \in Slots, Names(req[t])' PROVE (req[t].listing.gen <= snapshotId)'
    <3>1. PICK r : r = req'[t]
      OBVIOUS
    <3>2. Names(r)
      BY <2>1, <3>1 DEF Names, Unchecked
    <3>3. r = req[t]
      BY <1>1, <3>1, <3>2, NothingIsAsked
    <3> QED
      BY <1>1, <3>1, <3>2, <3>3 DEF NewestInv, GenerationsReached
  <2>2. snapshotId <= snapshotId
    BY DEF NewestInv, IInv, ComputerTypeOK
  <2> QED
    BY <1>1, <1>3, <2>1, <2>2 DEF NewestInv, GenerationsReached
<1>5. ASSUME ~crowded' PROVE Calm'
  <2>1. Calm /\ OneOfBot'
    BY <1>5 DEF NewestInv
  <2>2. req[s].listing.serial = capture.serial
    BY <1>1, <2>1 DEF Calm, InOrder
  <2>3. ASSUME NEW t \in Slots PROVE InOrder(req[t])'
    <3>1. PICK r : r = req'[t]
      OBVIOUS
    <3>2. r.kind \notin {"act", "type", "snapshot"}
      <4>1. CASE t = s
        BY <1>1, <3>1, <4>1 DEF NoRequest
      <4>2. CASE t # s
        <5>1. r = req[t] /\ OneOfBot
          BY <1>1, <2>1, <3>1, <4>2 DEF Calm
        <5> QED
          BY <1>1, <4>2, <5>1, OthersAreNotBots
      <4> QED
        BY <4>1, <4>2
    <3> QED
      BY <3>1, <3>2 DEF InOrder, Names
  <2> QED
    BY <1>1, <1>3, <2>1, <2>2, <2>3 DEF Calm, Present
<1> QED
  BY <1>4, <1>5 DEF NewestInv

LEMMA StartKeepsNewest ==
  ASSUME NewestInv, IInv', ~crowded' => ~crowded /\ OneOfBot', NEW s \in Slots, Start(s)
  PROVE  NewestInv'
<1>1. CASE StartAct(s)
  <2>1. PICK kind \in {"act", "type"}, l \in listings \cup {NoListing}, named \in BOOLEAN :
          Admit(s, kind, "page", IF named THEN l ELSE [l EXCEPT !.gen = 0], NoSecret)
    BY <1>1 DEF StartAct
  <2>2. PICK listing : listing = IF named THEN l ELSE [l EXCEPT !.gen = 0]
    OBVIOUS
  <2>3. l \in Listing
    BY DEF NewestInv, IInv, ComputerTypeOK, Listing, NoListing
  <2>4. Unchecked(listing) \/ listing \in listings
    BY <2>2, <2>3 DEF Unchecked, NoListing, Listing
  <2> QED
    BY <2>1, <2>2, <2>4, AdmittingKeepsNewest
<1>2. CASE ~StartAct(s)
  <2>1. Unchecked(NoListing)
    BY DEF Unchecked, NoListing
  <2> QED
    BY <1>2, <2>1, AdmittingKeepsNewest
    DEF Start, StartNavigate, StartSnapshot, StartHuman, StartSecret, StartStop
<1> QED
  BY <1>1, <1>2

LEMMA ContinueKeepsNewest ==
  ASSUME NewestInv, IInv', ~crowded' => ~crowded /\ OneOfBot', NEW s \in Slots, Continue(s)
  PROVE  NewestInv'
<1>a. IInv /\ req \in [Slots -> Request] /\ req[s] \in Request
  BY DEF NewestInv, IInv, ComputerTypeOK
<1>1. CASE LocateRef(s)
  <2>1. UNCHANGED <<snapshotId, capture, listings>>
    BY <1>1 DEF LocateRef
  <2>2. PICK was : was = req[s]
    OBVIOUS
  <2>3. CASE Superseded(was.listing)
    <3>1. req' = [req EXCEPT ![s] = NoRequest]
      BY <1>1, <2>2, <2>3 DEF LocateRef
    <3> QED
      BY <1>a, <2>1, <3>1, GoingOnKeepsNewest
  <2>4. CASE ~Superseded(was.listing)
    <3>1. PICK pc : pc = IF was.listing.serial = 0 THEN "act" ELSE "count"
      OBVIOUS
    <3>2. PICK is : is = [was EXCEPT !.browser = page.browser, !.pc = pc]
      OBVIOUS
    <3>3. is.kind = was.kind /\ is.listing = was.listing
      BY <1>a, <2>2, <3>2 DEF Request
    <3>4. req' = [req EXCEPT ![s] = is]
      BY <1>1, <2>2, <2>4, <3>1, <3>2 DEF LocateRef
    <3>5. is = req'[s] /\ \A t \in Slots \ {s} : req'[t] = req[t]
      BY <1>a, <3>4
    <3>6. Names(was) => was.listing.gen = snapshotId
      BY <2>4 DEF Names, Superseded
    <3>7. was.kind # "snapshot"
      BY <1>1, <2>2 DEF LocateRef, IsAt
    <3>8. req'[s].kind = req[s].kind /\ req'[s].listing = req[s].listing /\ req[s].kind # "snapshot"
      BY <2>2, <3>3, <3>5, <3>7
    <3>9. Names(req[s]) => req[s].listing.gen = snapshotId
      BY <2>2, <3>6
    <3> QED
      BY <2>1, <3>5, <3>8, <3>9, GoingOnKeepsNewest
  <2> QED
    BY <2>3, <2>4
<1>2. CASE GotPage(s)
  <2>1. PICK pc, is : /\ is = [req[s] EXCEPT !.pc = pc, !.browser = page.browser]
                      /\ req' = [req EXCEPT ![s] = is] /\ req[s].kind \in {"navigate", "human", "secret"}
    BY <1>2 DEF GotPage
  <2>2. is.kind = req[s].kind /\ is.listing = req[s].listing
    BY <1>a, <2>1 DEF Request
  <2>3. is = req'[s] /\ \A t \in Slots \ {s} : req'[t] = req[t]
    BY <1>a, <2>1
  <2>4. UNCHANGED <<snapshotId, capture, listings>>
    BY <1>2 DEF GotPage
  <2>5. ~Names(req[s])
    BY <2>1 DEF Names
  <2> QED
    BY <2>1, <2>2, <2>3, <2>4, <2>5, GoingOnKeepsNewest
<1>3. ASSUME NEW pc, GoesTo(s, pc), req[s].kind # "snapshot",
             Names(req[s]) => req[s].pc # "page", UNCHANGED <<snapshotId, capture, listings>>
      PROVE  NewestInv'
  BY <1>a, <1>3, GoesOn, GoingOnKeepsNewest
<1>4. ASSUME Answers(s), UNCHANGED <<snapshotId, capture, listings>> PROVE NewestInv'
  BY <1>a, <1>4, AnswersOne, GoingOnKeepsNewest
<1>5. CASE CountRef(s)
  BY <1>3, <1>4, <1>5 DEF CountRef, IsAt
<1>6. CASE BotActs(s) \/ PressEnter(s)
  BY <1>3, <1>4, <1>6 DEF BotActs, PressEnter, IsAt
<1>7. CASE Goto(s) \/ FillSecret(s) \/ CloseBrowser(s) \/ NothingToClose(s)
  <2>1. req[s].kind \in {"navigate", "secret", "stop"} /\ ~Names(req[s])
    BY <1>7 DEF Goto, FillSecret, CloseBrowser, NothingToClose, IsAt, Names
  <2> QED
    BY <1>3, <1>7, <2>1 DEF Goto, FillSecret, CloseBrowser, NothingToClose
<1>8. CASE HumanActs(s) \/ CloseSecret(s) \/ RejectSecretBody(s) \/ FailSecret(s) \/ Settled(s) \/ Fails(s)
  BY <1>4, <1>8 DEF HumanActs, CloseSecret, RejectSecretBody, FailSecret, Settled, Fails
<1>9. CASE Navigated(s)
  <2>1. Answers(s) /\ snapshotId' = snapshotId + 1 /\ UNCHANGED <<capture, listings>>
    BY <1>9 DEF Navigated
  <2> QED
    BY <1>a, <2>1, AnswersOne, BumpingKeepsNewest
<1>10. CASE BumpSnapshot(s)
  <2>1. PICK is : is = [req[s] EXCEPT !.pc = "capture", !.browser = page.browser]
    OBVIOUS
  <2>2. /\ req' = [req EXCEPT ![s] = is] /\ snapshotId' = snapshotId + 1
        /\ UNCHANGED <<capture, listings>> /\ req[s].kind = "snapshot"
    BY <1>10, <2>1 DEF BumpSnapshot, IsAt
  <2>3. is.kind = "snapshot" /\ is.pc = "capture"
    BY <1>a, <2>1, <2>2 DEF Request
  <2>4. is = req'[s] /\ \A t \in Slots \ {s} : req'[t] = req[t]
    BY <1>a, <2>2
  <2> QED
    BY <2>2, <2>3, <2>4, BumpingKeepsNewest
<1>11. CASE Capture(s) \/ SnapshotReply(s)
  BY <1>11, CapturingKeepsNewest, ReplyingKeepsNewest
<1> QED
  BY <1>1, <1>2, <1>5, <1>6, <1>7, <1>8, <1>9, <1>10, <1>11 DEF Continue

LEMMA NewestInvariant == MCSpec => []NewestInv
<1>1. MCInit => NewestInv
  <2> SUFFICES ASSUME MCInit PROVE NewestInv
    OBVIOUS
  <2>1. ComputerInit /\ IInv
    BY InvInit DEF MCInit
  <2>2. listings = {} /\ \A s \in Slots : req[s] = NoRequest
    BY <2>1 DEF ComputerInit
  <2>3. \A s \in Slots : ~Names(req[s]) /\ InOrder(req[s]) /\ s \notin OfBot
    BY <2>2, NothingIsAsked DEF OfBot, BotKinds, NoRequest
  <2> QED
    BY <2>1, <2>2, <2>3 DEF NewestInv, GenerationsReached, Calm, OneOfBot, OfBot
<1>2. NewestInv /\ [MCNext]_governanceVars => NewestInv'
  <2> SUFFICES ASSUME NewestInv, [MCNext]_governanceVars PROVE NewestInv'
    OBVIOUS
  <2>1. IInv'
    <3>1. [ComputerNext]_computerVars
      BY DEF MCNext, governanceVars
    <3> QED
      BY <3>1, InvNext DEF NewestInv
  <2>2. CASE UNCHANGED <<computerVars, crowded>>
    BY <2>1, <2>2 DEF computerVars, NewestInv, GenerationsReached, Calm, OneOfBot, OfBot, InOrder, Names, Unchecked, Present
  <2>3. CASE ComputerNext /\ crowded' = (crowded \/ (\E s, t \in OfBot : s # t)')
    <3>1. ~crowded' => ~crowded /\ OneOfBot'
      BY <2>3 DEF OneOfBot
    <3>2. CASE Wheel \/ PageMoves
      <4>1. UNCHANGED <<snapshotId, capture, listings, req>>
        BY <3>2 DEF Wheel, RequestHelp, RequestSecret, TakeControl, ReleaseControl, PageMoves
      <4> QED
        BY <2>1, <3>1, <4>1 DEF NewestInv, GenerationsReached, Calm, OneOfBot, OfBot, InOrder, Names, Unchecked, Present
    <3> QED
      BY <2>1, <2>3, <3>1, <3>2, StartKeepsNewest, ContinueKeepsNewest DEF ComputerNext
  <2> QED
    BY <2>2, <2>3 DEF MCNext, governanceVars
<1> QED
  BY <1>1, <1>2, PTL DEF MCSpec

(* As long as the Bot's own requests come one at a time, whatever the      *)
(* person, a stop and the page do meanwhile: a call let past the           *)
(* generation check is about the newest capture (locateRef, snapshotPage). *)
THEOREM NewestAlone == MCSpec => []ListedStillNewestAlone
<1>1. NewestInv => ListedStillNewestAlone
  BY DEF NewestInv, Calm, InOrder, Names, ListedStillNewest, ListedStillNewestAlone
<1> QED
  BY <1>1, NewestInvariant, PTL
=============================================================================
