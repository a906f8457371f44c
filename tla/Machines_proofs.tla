--------------------------- MODULE Machines_proofs ---------------------------
(* Proofs about the machines that people and Bots are given, for any       *)
(* number of requests, ports, callers and browsers: Supervisor, Profiles   *)
(* and SignIn, and what their histories add in MC_Machines.                *)
EXTENDS MC_Machines, SequenceTheorems, FiniteSetTheorems, TLAPS

-----------------------------------------------------------------------------
(* The supervisor.                                                         *)

(* A request whose await alone changes, keeps its type and its verb.       *)
LEMMA GoesTyped ==
  ASSUME TypeOK, NEW r \in Requests, NEW await \in Awaits, Goes(r, await)
  PROVE  /\ call' \in [Requests -> CallState]
         /\ call'[r].at = await /\ call'[r].verb = call[r].verb
         /\ \A q \in Requests : q # r => call'[q] = call[q]
<1>1. call \in [Requests -> CallState] /\ call[r] \in CallState
  BY DEF TypeOK
<1>2. [call[r] EXCEPT !.at = await] \in CallState
  BY <1>1 DEF CallState
<1>3. call' = [call EXCEPT ![r] = [call[r] EXCEPT !.at = await]]
  BY DEF Goes
<1>4. call'[r] = [call[r] EXCEPT !.at = await]
  BY <1>1, <1>3
<1> QED
  BY <1>1, <1>2, <1>3, <1>4 DEF CallState

(* An answered request is idle.                                            *)
LEMMA AnswersTyped ==
  ASSUME TypeOK, NEW r \in Requests, Answers(r)
  PROVE  /\ call' \in [Requests -> CallState]
         /\ call'[r] = Idle
         /\ \A q \in Requests : q # r => call'[q] = call[q]
<1>1. Idle \in CallState
  BY DEF Idle, CallState, Verbs, Awaits, ATTEMPTS, Seen, Nothing
<1> QED
  BY <1>1 DEF TypeOK, Answers

(* What inspectOwned answers is a status and a port, and nothing when the  *)
(* container is a stranger's.                                              *)
LEMMA SeenTyped ==
  ASSUME TypeOK
  PROVE  /\ inspectOwned \in Seen
         /\ inspectOwned # Nothing => container.status # "absent" /\ container.ours
<1>1. container.status \in {"absent", "created", "running", "exited"}
      /\ container.port \in Ports \cup {NoPort}
  BY DEF TypeOK, Container
<1> QED
  BY <1>1 DEF inspectOwned, IsOurs, Seen, Nothing

-----------------------------------------------------------------------------
(* A request that is received gets a type, and so does one that is read.   *)
LEMMA EdgeTyped ==
  ASSUME TypeOK, NEW r \in Requests, NEW verb \in Verbs \ {"none"}, Receive(r, verb)
  PROVE  call' \in [Requests -> CallState]
<1> DEFINE new == [verb |-> verb, at |-> "inspect", settled |-> Nothing,
                   attempt |-> IF verb = "ensure" THEN ATTEMPTS ELSE 0]
<1>1. new \in CallState
  BY DEF CallState, Awaits, ATTEMPTS, Seen, Nothing
<1>2. call' = [call EXCEPT ![r] = new]
  BY DEF Receive
<1> QED
  BY <1>1, <1>2 DEF TypeOK

(* What ensure does to the container and the volume keeps their types, and *)
(* so does what it notes of the request.                                   *)
LEMMA EnsureTyped ==
  ASSUME TypeOK, NEW r \in Requests, Ensure(r)
  PROVE  TypeOK'
<1>1. CASE Inspect(r)
  <2>1. PICK await \in Awaits : Goes(r, await) /\ UNCHANGED <<container, profile>>
    BY <1>1 DEF Inspect, Awaits
  <2> QED
    BY <2>1, GoesTyped DEF TypeOK
<1>2. CASE CreateVolumes(r)
  BY <1>2, GoesTyped DEF CreateVolumes, TypeOK, Volume, Awaits
<1>3. CASE CreateContainer(r)
  BY <1>3, GoesTyped DEF CreateContainer, TypeOK, Volume, Awaits, Container
<1>4. CASE CreateConflicts(r)
  BY <1>4, GoesTyped DEF CreateConflicts, AfterConflict, TypeOK, Awaits
<1>5. CASE Start(r)
  <2>1. Goes(r, "settle") /\ profile' = profile
    BY <1>5 DEF Start
  <2>2. container' \in Container
    BY <1>5 DEF Start, TypeOK, Container
  <2>3. "settle" \in Awaits
    BY DEF Awaits
  <2> QED
    BY <2>1, <2>2, <2>3, GoesTyped DEF TypeOK
<1>6. CASE StartFindsNone(r)
  <2>1. UNCHANGED <<container, profile>> /\ call[r] \in CallState
    BY <1>6 DEF StartFindsNone, TypeOK
  <2>2. CASE Goes(r, "lost")
    BY <2>1, <2>2, GoesTyped DEF TypeOK, Awaits
  <2>3. CASE /\ MayRetry(call[r].attempt)
             /\ call' = [call EXCEPT ![r] =
                   [@ EXCEPT !.at = "inspect", !.attempt = AttemptsLeft(call[r].attempt)]]
    <3> DEFINE new == [call[r] EXCEPT !.at = "inspect", !.attempt = AttemptsLeft(call[r].attempt)]
    <3>1. AttemptsLeft(call[r].attempt) \in 0 .. ATTEMPTS
      BY <2>1, <2>3 DEF MayRetry, AttemptsLeft, CallState, ATTEMPTS
    <3>2. new \in CallState
      BY <2>1, <3>1 DEF CallState, Awaits
    <3>3. call' = [call EXCEPT ![r] = new]
      BY <2>3
    <3> QED
      BY <2>1, <3>2, <3>3 DEF TypeOK
  <2> QED
    BY <1>6, <2>2, <2>3 DEF StartFindsNone
<1>7. CASE Settle(r)
  <2>1. call[r] \in CallState /\ inspectOwned \in Seen /\ UNCHANGED <<container, profile>>
    BY <1>7, SeenTyped DEF TypeOK, Settle
  <2> DEFINE new == [call[r] EXCEPT !.at = "answer", !.settled = inspectOwned]
  <2>2. new \in CallState
    BY <2>1 DEF CallState, Awaits
  <2>3. call' = [call EXCEPT ![r] = new]
    BY <1>7 DEF Settle
  <2> QED
    BY <2>1, <2>2, <2>3 DEF TypeOK
<1> QED
  BY <1>1, <1>2, <1>3, <1>4, <1>5, <1>6, <1>7 DEF Ensure

(* Stop and reset keep the types.                                          *)
LEMMA StopAndResetTyped ==
  ASSUME TypeOK, NEW r \in Requests, Look(r, "stop", "stop") \/ Stop(r) \/ Reset(r)
  PROVE  TypeOK'
<1>1. ASSUME NEW verb \in {"stop", "reset"}, NEW await \in {"stop", "remove"}, Look(r, verb, await)
      PROVE  TypeOK'
  <2>1. UNCHANGED <<container, profile>> /\ (Answers(r) \/ Goes(r, await)) /\ await \in Awaits
    BY <1>1 DEF Look, Awaits
  <2> QED
    BY <2>1, AnswersTyped, GoesTyped DEF TypeOK
<1>2. CASE Stop(r)
  <2>1. container' \in Container /\ profile' = profile /\ Answers(r)
    BY <1>2 DEF Stop, TypeOK, Container, NoPort
  <2> QED
    BY <2>1, AnswersTyped DEF TypeOK
<1>3. CASE RemoveContainer(r)
  <2>1. container' \in Container /\ profile' = profile /\ Goes(r, "removeVolume") /\ "removeVolume" \in Awaits
    BY <1>3 DEF RemoveContainer, AfterRemove, Container, NoContainer, NoPort, Awaits
  <2> QED
    BY <2>1, GoesTyped DEF TypeOK
<1>4. CASE RemoveVolume(r)
  <2>1. container' = container /\ profile' \in Volume /\ Goes(r, "gone") /\ "gone" \in Awaits
    BY <1>4 DEF RemoveVolume, TypeOK, Volume, Awaits
  <2> QED
    BY <2>1, GoesTyped DEF TypeOK
<1> QED
  BY <1>1, <1>2, <1>3, <1>4 DEF Reset

LEMMA TypeCorrectAtFirst == Init => TypeOK
<1>1. NoContainer \in Container /\ Idle \in CallState
  BY DEF Container, NoContainer, NoPort, Idle, CallState, Verbs, Awaits, ATTEMPTS, Seen, Nothing
<1> QED
  BY <1>1 DEF Init, TypeOK, Volume

(* Types hold in every state, whatever Docker answers and however requests *)
(* meet.                                                                   *)
THEOREM TypeCorrect == Spec => []TypeOK
<1>1. Init => TypeOK
  BY TypeCorrectAtFirst
<1>2. TypeOK /\ [Next]_vars => TypeOK'
  <2> SUFFICES ASSUME TypeOK, [Next]_vars PROVE TypeOK'
    OBVIOUS
  <2>1. CASE UNCHANGED vars
    BY <2>1 DEF vars, TypeOK
  <2>2. ASSUME NEW r \in Requests, NEW verb \in Verbs \ {"none"}, Receive(r, verb)
        PROVE  TypeOK'
    BY <2>2, EdgeTyped DEF Receive, TypeOK
  <2>3. ASSUME NEW r \in Requests, Continue(r)
        PROVE  TypeOK'
    <3>1. CASE DockerFails(r) \/ Reply(r)
      BY <3>1, AnswersTyped DEF DockerFails, Reply, TypeOK
    <3> QED
      BY <2>3, <3>1, EnsureTyped, StopAndResetTyped DEF Continue
  <2>4. CASE StrangerArrives
    BY <2>4 DEF StrangerArrives, TypeOK, Container
  <2> QED
    BY <2>1, <2>2, <2>3, <2>4 DEF Next
<1> QED
  BY <1>1, <1>2, PTL DEF Spec

-----------------------------------------------------------------------------
(* What a request answers that no opposed one ran beside.                  *)

\* Whoever runs beside an opposed request is known to.
DisturbedAreKnown ==
    \A r, q \in Requests : Opposed(r, q) => r \in disturbed

OnlyTheIdleAskNothing == \A r \in Requests : call[r].at = "idle" => call[r].verb = "none"

\* What an undisturbed request relies on at each of its awaits.
Undisturbed(r) ==
    /\ call[r].at # "lost"
    /\ At(r, "ensure", "start") => container.status # "absent"
    /\ At(r, "ensure", "settle") => container.status = "running"
    /\ At(r, "ensure", "answer") =>
          /\ container.status = "running"
          /\ container.ours => call[r].settled = [status |-> "running", port |-> container.port]
    /\ At(r, "reset", "removeVolume") => ~IsOurs
    /\ At(r, "reset", "gone") => ~IsOurs /\ profile = "absent"

AnswersInv ==
    /\ TypeOK /\ OnlyTheIdleAskNothing /\ DisturbedAreKnown
    /\ \A r \in Requests \ disturbed : Undisturbed(r)

(* The request that acts is the only one that moves.                       *)
LEMMA OneRequestMoves ==
  ASSUME TypeOK, NEW r \in Requests,
         (\E verb \in Verbs \ {"none"} : Receive(r, verb)) \/ Continue(r)
  PROVE  /\ \A q \in Requests \ {r} : call'[q] = call[q]
         /\ call'[r] = Idle \/ call'[r].at # "idle"
<1>1. call \in [Requests -> CallState]
  BY DEF TypeOK
<1>2. ASSUME NEW new, call' = [call EXCEPT ![r] = new]
      PROVE  call'[r] = new /\ \A q \in Requests \ {r} : call'[q] = call[q]
  BY <1>1, <1>2
<1>3. CASE \E verb \in Verbs \ {"none"} : Receive(r, verb)
  BY <1>2, <1>3 DEF Receive
<1>4. CASE Answers(r)
  BY <1>2, <1>4 DEF Answers
<1>5. ASSUME NEW await \in Awaits, Goes(r, await)
      PROVE  call'[r].at = await /\ \A q \in Requests \ {r} : call'[q] = call[q]
  BY <1>5, GoesTyped
<1>6. CASE StartFindsNone(r) \/ Settle(r)
  <2>1. CASE Goes(r, "lost")
    BY <1>5, <2>1 DEF Awaits
  <2>2. PICK number, found : \/ call' = [call EXCEPT ![r] = [@ EXCEPT !.at = "inspect", !.attempt = number]]
                             \/ call' = [call EXCEPT ![r] = [@ EXCEPT !.at = "answer", !.settled = found]]
                             \/ Goes(r, "lost")
    BY <1>6 DEF StartFindsNone, Settle
  <2>3. call[r] \in CallState
    BY <1>1
  <2>4. ASSUME NEW n, call' = [call EXCEPT ![r] = [@ EXCEPT !.at = "inspect", !.attempt = n]]
        PROVE  \E new : call' = [call EXCEPT ![r] = new] /\ new.at # "idle"
    <3>1. PICK new : new = [call[r] EXCEPT !.at = "inspect", !.attempt = n]
      OBVIOUS
    <3>2. new.at # "idle" /\ call' = [call EXCEPT ![r] = new]
      BY <2>3, <2>4, <3>1 DEF CallState
    <3> QED
      BY <3>2
  <2>5. ASSUME NEW seen, call' = [call EXCEPT ![r] = [@ EXCEPT !.at = "answer", !.settled = seen]]
        PROVE  \E new : call' = [call EXCEPT ![r] = new] /\ new.at # "idle"
    <3>1. PICK new : new = [call[r] EXCEPT !.at = "answer", !.settled = seen]
      OBVIOUS
    <3>2. new.at # "idle" /\ call' = [call EXCEPT ![r] = new]
      BY <2>3, <2>5, <3>1 DEF CallState
    <3> QED
      BY <3>2
  <2> QED
    BY <1>2, <2>1, <2>2, <2>4, <2>5
<1>7. ASSUME Continue(r), ~StartFindsNone(r), ~Settle(r), ~Answers(r)
      PROVE  \E await \in Awaits \ {"idle"} : Goes(r, await)
  BY <1>7 DEF Continue, Ensure, Reset, Look, Stop, DockerFails, Reply, Inspect, CreateVolumes, CreateContainer,
     CreateConflicts, AfterConflict, Start, RemoveContainer, AfterRemove, RemoveVolume, Awaits
<1> QED
  BY <1>3, <1>4, <1>5, <1>6, <1>7

(* A request that is idle relies on nothing.                               *)
LEMMA IdleReliesOnNothing ==
  ASSUME NEW r \in Requests, call'[r] = Idle
  PROVE  Undisturbed(r)' /\ (call'[r].at = "idle" => call'[r].verb = "none")
BY DEF Idle, Undisturbed, At

(* What an undisturbed request does leaves it what it relies on next.      *)
LEMMA OwnStepKeeps ==
  ASSUME AnswersInv, NEW r \in Requests \ disturbed,
         (\E verb \in Verbs \ {"none"} : Receive(r, verb)) \/ Continue(r)
  PROVE  Undisturbed(r)'
<1>0. /\ TypeOK /\ Undisturbed(r) /\ call \in [Requests -> CallState] /\ call[r] \in CallState
      /\ container \in Container /\ r \in Requests
  BY DEF AnswersInv, TypeOK
<1>1. CASE \E verb \in Verbs \ {"none"} : Receive(r, verb)
  <2>1. call'[r].at = "inspect"
    BY <1>0, <1>1 DEF Receive
  <2> QED
    BY <2>1 DEF Undisturbed, At
<1>2. CASE Answers(r)
  BY <1>0, <1>2, AnswersTyped, IdleReliesOnNothing
<1>3. ASSUME NEW await \in Awaits, Goes(r, await)
      PROVE  call'[r].at = await /\ call'[r].verb = call[r].verb
  BY <1>0, <1>3, GoesTyped
<1>4. CASE Inspect(r)
  <2>1. PICK await \in Awaits :
           /\ Goes(r, await) /\ UNCHANGED <<container, profile>> /\ call[r].verb = "ensure"
           /\ await \in {"volumes", "settle", "start"}
           /\ await # "volumes" => container.status # "absent"
           /\ await = "settle" => container.status = "running"
    BY <1>0, <1>4 DEF Inspect, Awaits, At, inspectOwned, IsOurs, Nothing
  <2> QED
    BY <1>3, <2>1 DEF Undisturbed, At
<1>5. CASE CreateVolumes(r)
  <2>1. call'[r].at = "create"
    BY <1>3, <1>5 DEF CreateVolumes, Awaits
  <2> QED
    BY <2>1 DEF Undisturbed, At
<1>6. CASE CreateContainer(r) \/ CreateConflicts(r)
  <2>1. Goes(r, "start") /\ container'.status # "absent"
    BY <1>6 DEF CreateContainer, CreateConflicts, AfterConflict
  <2>2. call'[r].at = "start"
    BY <1>3, <2>1 DEF Awaits
  <2> QED
    BY <2>1, <2>2 DEF Undisturbed, At
<1>7. CASE Start(r)
  <2>1. Goes(r, "settle") /\ container'.status = "running"
    BY <1>0, <1>7 DEF Start, Container
  <2>2. call'[r].at = "settle"
    BY <1>3, <2>1 DEF Awaits
  <2> QED
    BY <2>1, <2>2 DEF Undisturbed, At
<1>8. CASE StartFindsNone(r)
  BY <1>0, <1>8 DEF StartFindsNone, Undisturbed
<1>9. CASE Settle(r)
  <2>1. PICK new : new = [call[r] EXCEPT !.at = "answer", !.settled = inspectOwned]
    OBVIOUS
  <2>2. call'[r] = new /\ UNCHANGED <<container, profile>> /\ At(r, "ensure", "settle")
    BY <1>0, <1>9, <2>1 DEF Settle
  <2>3. new.at = "answer" /\ new.verb = "ensure" /\ new.settled = inspectOwned
    BY <1>0, <2>1, <2>2 DEF CallState, At
  <2>4. container.status = "running"
    BY <1>0, <2>2 DEF Undisturbed
  <2>5. container.ours => inspectOwned = [status |-> "running", port |-> container.port]
    BY <2>4 DEF inspectOwned, IsOurs
  <2> QED
    BY <2>2, <2>3, <2>4, <2>5 DEF Undisturbed, At
<1>10. CASE Look(r, "stop", "stop") \/ Look(r, "reset", "remove")
  <2>1. PICK await \in {"stop", "remove"} : Goes(r, await) \/ Answers(r)
    BY <1>10 DEF Look
  <2>2. CASE Goes(r, await)
    <3>1. call'[r].at = await
      BY <1>3, <2>2 DEF Awaits
    <3> QED
      BY <2>1, <3>1 DEF Undisturbed, At
  <2> QED
    BY <1>2, <2>1, <2>2
<1>11. CASE RemoveContainer(r)
  <2>1. Goes(r, "removeVolume") /\ ~IsOurs'
    BY <1>11 DEF RemoveContainer, AfterRemove, NoContainer, IsOurs
  <2>2. call'[r].at = "removeVolume"
    BY <1>3, <2>1 DEF Awaits
  <2> QED
    BY <2>1, <2>2 DEF Undisturbed, At
<1>12. CASE RemoveVolume(r)
  <2>1. Goes(r, "gone") /\ ~IsOurs' /\ profile' = "absent"
    BY <1>0, <1>12 DEF RemoveVolume, Undisturbed, IsOurs
  <2>2. call'[r].at = "gone" /\ call'[r].verb = "reset"
    BY <1>3, <1>12, <2>1 DEF Awaits, RemoveVolume, At
  <2> QED
    BY <2>1, <2>2 DEF Undisturbed, At
<1>13. CASE Stop(r) \/ DockerFails(r) \/ Reply(r)
  BY <1>2, <1>13 DEF Stop, DockerFails, Reply
<1> QED
  BY <1>1, <1>4, <1>5, <1>6, <1>7, <1>8, <1>9, <1>10, <1>11, <1>12, <1>13 DEF Continue, Ensure, Reset

(* What a request that is not opposed to it does leaves it that too.       *)
LEMMA OthersStepKeeps ==
  ASSUME AnswersInv, NEW r \in Requests \ disturbed, NEW q \in Requests \ {r},
         (\E verb \in Verbs \ {"none"} : Receive(q, verb)) \/ Continue(q)
  PROVE  Undisturbed(r)'
<1>0. /\ TypeOK /\ Undisturbed(r) /\ container \in Container /\ r \in Requests
      /\ call'[r] = call[r] /\ call[r] \in CallState
  BY OneRequestMoves DEF AnswersInv, TypeOK
<1>1. ~Opposed(r, q)
  BY DEF AnswersInv, DisturbedAreKnown
<1>2. CASE call[r].verb = "ensure"
  <2>1. call[q].verb \notin {"stop", "reset"}
    BY <1>1, <1>2 DEF Opposed
  <2>2. /\ container.status # "absent" => container'.status # "absent"
        /\ container.status = "running" => container' = container
    BY <1>0, <2>1 DEF Continue, Ensure, Reset, Look, Stop, DockerFails, Reply, Inspect, CreateVolumes,
       CreateContainer, CreateConflicts, Start, StartFindsNone, Settle, RemoveContainer, RemoveVolume, At,
       Receive, Container
  <2> QED
    BY <1>0, <1>2, <2>2 DEF Undisturbed, At
<1>3. CASE call[r].verb # "ensure"
  <2>1. CASE call[r].verb = "reset"
    <3>1. call[q].verb # "ensure"
      BY <1>1, <2>1 DEF Opposed
    <3>2. \/ UNCHANGED <<container, profile>>
          \/ Stop(q) \/ RemoveContainer(q) \/ RemoveVolume(q)
      BY <3>1 DEF Continue, Ensure, Reset, Look, DockerFails, Reply, Inspect, CreateVolumes,
         CreateContainer, CreateConflicts, Start, StartFindsNone, Settle, At, Receive
    <3>3. /\ ~IsOurs => ~IsOurs'
          /\ ~IsOurs /\ profile = "absent" => profile' = "absent"
      <4>1. CASE Stop(q)
        BY <1>0, <4>1 DEF Stop, IsOurs, Container
      <4>2. CASE RemoveContainer(q)
        BY <4>2 DEF RemoveContainer, NoContainer, IsOurs
      <4>3. CASE RemoveVolume(q)
        BY <4>3 DEF RemoveVolume, IsOurs
      <4> QED
        BY <3>2, <4>1, <4>2, <4>3 DEF IsOurs
    <3> QED
      BY <1>0, <2>1, <3>3 DEF Undisturbed, At
  <2>2. CASE call[r].verb # "reset"
    BY <1>0, <1>3, <2>2 DEF Undisturbed, At
  <2> QED
    BY <2>1, <2>2
<1> QED
  BY <1>2, <1>3

(* A stranger who takes the name leaves every request what it relies on.   *)
LEMMA ArrivalKeeps ==
  ASSUME StrangerArrives, NEW r \in Requests, Undisturbed(r)
  PROVE  Undisturbed(r)' /\ call'[r] = call[r]
BY DEF StrangerArrives, Undisturbed, At, IsOurs

LEMMA ContainerStepKeeps ==
  ASSUME AnswersInv, TypeOK', ContainerNext PROVE AnswersInv'
<1>1. StrangerArrives \/ \E r \in Requests : (\E verb \in Verbs \ {"none"} : Receive(r, verb)) \/ Continue(r)
  BY DEF ContainerNext, Next
<1>3. OnlyTheIdleAskNothing'
  <2>1. CASE StrangerArrives
    BY <2>1 DEF AnswersInv, OnlyTheIdleAskNothing, StrangerArrives
  <2>2. ASSUME NEW r \in Requests, (\E verb \in Verbs \ {"none"} : Receive(r, verb)) \/ Continue(r)
        PROVE  OnlyTheIdleAskNothing'
    BY <2>2, OneRequestMoves DEF AnswersInv, OnlyTheIdleAskNothing, Idle
  <2> QED
    BY <1>1, <2>1, <2>2
<1>4. DisturbedAreKnown'
  <2> SUFFICES ASSUME NEW q \in Requests, NEW p \in Requests, Opposed(q, p)' PROVE q \in disturbed'
    BY DEF DisturbedAreKnown
  <2>1. call'[q].verb # "none"
    BY DEF Opposed
  <2> QED
    BY <1>3, <2>1 DEF OnlyTheIdleAskNothing, ContainerNext
<1>5. ASSUME NEW q \in Requests, q \notin disturbed' PROVE Undisturbed(q)'
  <2>1. CASE call'[q].at = "idle"
    BY <2>1 DEF Undisturbed, At
  <2>2. CASE call'[q].at # "idle"
    <3>1. q \notin disturbed
      BY <1>5, <2>2 DEF ContainerNext
    <3> QED
      BY <1>1, <3>1, OwnStepKeeps, OthersStepKeeps, ArrivalKeeps DEF AnswersInv
  <2> QED
    BY <2>1, <2>2
<1> QED
  BY <1>3, <1>4, <1>5 DEF AnswersInv

(* The machines together move as each does alone.                          *)
LEMMA EachMovesAlone ==
  ASSUME [MCNext]_machineVars
  PROVE  /\ [Next]_vars /\ (UNCHANGED <<vars, disturbed, bereft, forestalled>> \/ ContainerNext)
         /\ [PagesNext]_pageVars /\ (UNCHANGED <<pageVars, overlapped>> \/ BrowserNext)
         /\ [SignInNext]_signInVars
BY DEF MCNext, machineVars, ContainerNext, BrowserNext

(* What a request answers is so, unless it ran beside an opposed one: all  *)
(* ensures answer the container that runs, and a reset leaves neither a    *)
(* container of ours nor the profile, for any number of requests and       *)
(* whenever a stranger takes the name (UndisturbedAnswersAreTrue).         *)
THEOREM AnswersStayTrue == MCSpec => []UndisturbedAnswersAreTrue
<1>1. MCInit => AnswersInv
  <2> SUFFICES ASSUME MCInit PROVE AnswersInv
    OBVIOUS
  <2>1. TypeOK
    BY TypeCorrectAtFirst DEF MCInit
  <2>2. \A r \in Requests : call[r] = Idle
    BY DEF MCInit, Init
  <2> QED
    BY <2>1, <2>2 DEF AnswersInv, OnlyTheIdleAskNothing, DisturbedAreKnown, Opposed, Undisturbed, At, Idle
<1>2. AnswersInv /\ TypeOK' /\ [MCNext]_machineVars => AnswersInv'
  <2> SUFFICES ASSUME AnswersInv, TypeOK', [MCNext]_machineVars PROVE AnswersInv'
    OBVIOUS
  <2>1. CASE UNCHANGED <<vars, disturbed, bereft, forestalled>>
    BY <2>1 DEF vars, AnswersInv, OnlyTheIdleAskNothing, DisturbedAreKnown, Opposed, Undisturbed, At, IsOurs
  <2> QED
    BY <2>1, EachMovesAlone, ContainerStepKeeps
<1>3. AnswersInv => UndisturbedAnswersAreTrue
  BY DEF AnswersInv, Undisturbed, UndisturbedAnswersAreTrue, Stranger
<1>4. MCInit /\ [][MCNext]_machineVars => Spec
  <2>1. [MCNext]_machineVars => [Next]_vars
    BY EachMovesAlone
  <2> QED
    BY <2>1, PTL DEF MCInit, Spec
<1> QED
  BY <1>1, <1>2, <1>3, <1>4, TypeCorrect, PTL DEF MCSpec

-----------------------------------------------------------------------------
(* Strangers.                                                              *)

\* A request that goes by the name has seen or made a container of ours, and
\* nobody has taken it away, unless a stranger forestalled it.
LooksStillHold ==
    \A r \in Requests \ bereft :
        /\ At(r, "stop", "stop") \/ At(r, "reset", "remove") => IsOurs
        /\ At(r, "ensure", "start") /\ r \notin forestalled => IsOurs

StrangersInv == TypeOK /\ LooksStillHold

\* A step of a request, and not a stranger's.
Acts(r) == (\E verb \in Verbs \ {"none"} : Receive(r, verb)) \/ Continue(r)

(* Whatever is ours stays ours, unless a reset removes it.                 *)
LEMMA OursStaysOurs ==
  ASSUME TypeOK, IsOurs, NEW q \in Requests, Acts(q), ~RemoveContainer(q)
  PROVE  IsOurs'
BY DEF TypeOK, Container, IsOurs, Acts, Receive, Continue, Ensure, Reset, Look, Stop, DockerFails, Reply, Inspect,
   CreateVolumes, CreateContainer, CreateConflicts, Start, StartFindsNone, Settle, RemoveVolume

(* A request gets to its stop or removal by looking at a container of ours. *)
LEMMA GetsThereByLooking ==
  ASSUME StrangersInv, NEW r \in Requests, Acts(r), At(r, "stop", "stop")' \/ At(r, "reset", "remove")'
  PROVE  IsOurs' /\ UNCHANGED container
<1>0. TypeOK /\ call[r] \in CallState /\ call \in [Requests -> CallState]
  BY DEF StrangersInv, TypeOK
<1>1. ASSUME NEW await \in Awaits, Goes(r, await)
      PROVE  call'[r].at = await
  BY <1>0, <1>1, GoesTyped
<1>2. ~Answers(r) /\ ~(\E verb \in Verbs \ {"none"} : Receive(r, verb))
  BY <1>0, AnswersTyped DEF At, Idle, Receive
<1>3. ~StartFindsNone(r) /\ ~Settle(r)
  <2>1. ~Goes(r, "lost")
    BY <1>1 DEF At, Awaits
  <2>2. ASSUME NEW n, call' = [call EXCEPT ![r] = [@ EXCEPT !.at = "inspect", !.attempt = n]]
        PROVE  FALSE
    BY <1>0, <2>2 DEF CallState, At
  <2>3. ASSUME NEW seen, call' = [call EXCEPT ![r] = [@ EXCEPT !.at = "answer", !.settled = seen]]
        PROVE  FALSE
    BY <1>0, <2>3 DEF CallState, At
  <2> QED
    BY <2>1, <2>2, <2>3 DEF StartFindsNone, Settle
<1>4. ~(\E await \in Awaits \ {"stop", "remove"} : Goes(r, await))
  BY <1>1 DEF At
<1>5. \E verb \in {"stop", "reset"}, await \in {"stop", "remove"} :
         Look(r, verb, await) /\ inspectOwned # Nothing
  BY <1>2, <1>3, <1>4 DEF Acts, Continue, Ensure, Reset, Look, Stop, DockerFails, Reply, Inspect,
     CreateVolumes, CreateContainer, CreateConflicts, AfterConflict, Start, RemoveContainer, AfterRemove,
     RemoveVolume, Awaits
<1> QED
  BY <1>0, <1>5, SeenTyped DEF Look, IsOurs

(* An ensure gets to its start by looking at a container of ours, by making *)
(* one, or by finding the name taken: by one of ours or by a stranger's.    *)
LEMMA GetsToItsStart ==
  ASSUME StrangersInv, NEW r \in Requests, Acts(r), At(r, "ensure", "start")',
         ~(Stranger /\ CreateConflicts(r))
  PROVE  IsOurs'
<1>0. TypeOK /\ call[r] \in CallState /\ call \in [Requests -> CallState]
  BY DEF StrangersInv, TypeOK
<1>1. ASSUME NEW await \in Awaits, Goes(r, await)
      PROVE  call'[r].at = await
  BY <1>0, <1>1, GoesTyped
<1>2. ~Answers(r) /\ ~(\E verb \in Verbs \ {"none"} : Receive(r, verb))
  BY <1>0, AnswersTyped DEF At, Idle, Receive
<1>3. ~StartFindsNone(r) /\ ~Settle(r)
  <2>1. ~Goes(r, "lost")
    BY <1>1 DEF At, Awaits
  <2>2. ASSUME NEW n, call' = [call EXCEPT ![r] = [@ EXCEPT !.at = "inspect", !.attempt = n]]
        PROVE  FALSE
    BY <1>0, <2>2 DEF CallState, At
  <2>3. ASSUME NEW seen, call' = [call EXCEPT ![r] = [@ EXCEPT !.at = "answer", !.settled = seen]]
        PROVE  FALSE
    BY <1>0, <2>3 DEF CallState, At
  <2> QED
    BY <2>1, <2>2, <2>3 DEF StartFindsNone, Settle
<1>4. ~(\E await \in Awaits \ {"start"} : Goes(r, await))
  BY <1>1 DEF At
<1>5. \/ Inspect(r) /\ inspectOwned # Nothing
      \/ CreateContainer(r) \/ CreateConflicts(r)
  BY <1>2, <1>3, <1>4 DEF Acts, Continue, Ensure, Reset, Look, Stop, DockerFails, Reply, Inspect,
     CreateVolumes, Start, RemoveContainer, AfterRemove, RemoveVolume, Awaits
<1> QED
  BY <1>0, <1>5, SeenTyped DEF Inspect, CreateContainer, CreateConflicts, Stranger, IsOurs

LEMMA LookingKeeps ==
  ASSUME StrangersInv, ContainerNext, NEW r \in Requests, r \notin bereft',
         \/ At(r, "stop", "stop")' \/ At(r, "reset", "remove")'
         \/ At(r, "ensure", "start")' /\ r \notin forestalled'
  PROVE  IsOurs'
<1>1. StrangerArrives \/ \E q \in Requests : Acts(q)
  BY DEF ContainerNext, Next, Acts
<1>2. GoesByName(r)' /\ (\A q \in Requests \ {r} : IsOurs => ~RemoveContainer(q)) /\ r \notin bereft
  BY DEF ContainerNext, GoesByName, At
<1>3. At(r, "ensure", "start")' => r \notin forestalled /\ ~(Stranger /\ CreateConflicts(r))
  BY <1>2 DEF ContainerNext, At
<1>4. CASE StrangerArrives
  <2>1. call' = call /\ ~IsOurs
    BY <1>4 DEF StrangerArrives, IsOurs
  <2> QED
    BY <1>2, <1>3, <2>1 DEF StrangersInv, LooksStillHold, At
<1>5. CASE Acts(r)
  BY <1>3, <1>5, GetsThereByLooking, GetsToItsStart
<1>6. ASSUME NEW q \in Requests \ {r}, Acts(q)
      PROVE  IsOurs'
  <2>1. call'[r] = call[r]
    BY <1>6, OneRequestMoves DEF StrangersInv, Acts
  <2>2. IsOurs
    BY <1>2, <1>3, <2>1 DEF StrangersInv, LooksStillHold, At
  <2> QED
    BY <1>2, <1>6, <2>2, OursStaysOurs DEF StrangersInv
<1> QED
  BY <1>1, <1>4, <1>5, <1>6

(* However many requests race and whenever a stranger takes the name, its  *)
(* container is touched only by a request whose container another's reset  *)
(* took away after it had looked, or started by an ensure whose create it  *)
(* forestalled (inspectOwned, ensure, stop and reset of docker.ts,         *)
(* StrangersAreSpared).                                                    *)
THEOREM StrangersAreLeft == MCSpec => StrangersAreSpared
<1>1. MCInit => StrangersInv
  <2> SUFFICES ASSUME MCInit PROVE StrangersInv
    OBVIOUS
  <2>1. TypeOK /\ \A r \in Requests : call[r] = Idle
    BY TypeCorrectAtFirst DEF MCInit, Init
  <2> QED
    BY <2>1 DEF StrangersInv, LooksStillHold, At, Idle
<1>2. StrangersInv /\ TypeOK' /\ [MCNext]_machineVars => StrangersInv'
  <2> SUFFICES ASSUME StrangersInv, TypeOK', [MCNext]_machineVars PROVE StrangersInv'
    OBVIOUS
  <2>1. CASE UNCHANGED <<vars, disturbed, bereft, forestalled>>
    BY <2>1 DEF vars, StrangersInv, LooksStillHold, At, IsOurs
  <2>2. CASE ContainerNext
    BY <2>2, LookingKeeps DEF StrangersInv, LooksStillHold
  <2> QED
    BY <2>1, <2>2, EachMovesAlone
<1>3. ASSUME StrangersInv, [MCNext]_machineVars, Stranger, container' # container
      PROVE  \E r \in Requests : call'[r] # call[r] /\
                (r \in bereft \/ (r \in forestalled /\ container'.status = "running"))
  <2>1. container' # container /\ [Next]_vars
    BY <1>3, EachMovesAlone
  <2>2. PICK q \in Requests : Stop(q) \/ RemoveContainer(q) \/ Start(q)
    <3>1. ~StrangerArrives
      BY <1>3 DEF StrangerArrives, Stranger
    <3>2. PICK q \in Requests : Acts(q)
      BY <2>1, <3>1 DEF Next, vars, Acts
    <3>3. ~CreateContainer(q)
      BY <1>3 DEF CreateContainer, Stranger
    <3> QED
      BY <2>1, <3>2, <3>3 DEF Acts, Receive, Continue, Ensure, Reset, Look, DockerFails, Reply,
         Inspect, CreateVolumes, CreateConflicts, StartFindsNone, Settle, RemoveVolume
  <2>3. TypeOK /\ call \in [Requests -> CallState] /\ container \in Container
    BY <1>3 DEF StrangersInv, TypeOK
  <2>4. CASE Stop(q)
    <3>1. call'[q] = Idle /\ At(q, "stop", "stop") /\ ~IsOurs
      BY <1>3, <2>3, <2>4, AnswersTyped DEF Stop, Stranger, IsOurs
    <3> QED
      BY <1>3, <3>1 DEF StrangersInv, LooksStillHold, At, Idle
  <2>5. CASE RemoveContainer(q)
    <3>1. Goes(q, "removeVolume") /\ At(q, "reset", "remove") /\ ~IsOurs
      BY <1>3, <2>5 DEF RemoveContainer, AfterRemove, Stranger, IsOurs
    <3>2. call'[q].at = "removeVolume"
      BY <2>3, <3>1, GoesTyped DEF Awaits
    <3> QED
      BY <1>3, <3>1, <3>2 DEF StrangersInv, LooksStillHold, At
  <2>6. CASE Start(q)
    <3>1. Goes(q, "settle") /\ At(q, "ensure", "start") /\ ~IsOurs
      BY <1>3, <2>6 DEF Start, Stranger, IsOurs
    <3>2. call'[q].at = "settle"
      BY <2>3, <3>1, GoesTyped DEF Awaits
    <3>3. container.status # "running"
      BY <2>1, <2>6 DEF Start
    <3>4. \E p : container' = [container EXCEPT !.status = "running", !.port = p]
      BY <2>6, <3>3 DEF Start
    <3>5. container'.status = "running"
      BY <2>3, <3>4 DEF Container
    <3> QED
      BY <1>3, <3>1, <3>2, <3>5 DEF StrangersInv, LooksStillHold, At
  <2> QED
    BY <2>2, <2>4, <2>5, <2>6
<1>4. MCInit /\ [][MCNext]_machineVars => Spec
  <2>1. [MCNext]_machineVars => [Next]_vars
    BY EachMovesAlone
  <2> QED
    BY <2>1, PTL DEF MCInit, Spec
<1>5. StrangersInv /\ [MCNext]_machineVars =>
        [Stranger /\ container' # container =>
           \E r \in Requests : call'[r] # call[r] /\
              (r \in bereft \/ (r \in forestalled /\ container'.status = "running"))]_machineVars
  BY <1>3
<1> QED
  BY <1>1, <1>2, <1>4, <1>5, TypeCorrect, PTL DEF MCSpec, StrangersAreSpared

-----------------------------------------------------------------------------
(* The browser and its profile directory.                                  *)

Everyone == Callers \cup Signals
Closing == {"close", "settle", "resetClose", "resetSettle"}
Flushed == {"settle", "resetSettle"}

\* A call that waits for a browser has one; a signal may settle without.
HasItsBrowser(c) ==
    /\ pageCall[c].at \in {"join", "closeOld", "launch"} \cup Closing =>
          pageCall[c].on \in Browsers \/ (c \in Signals /\ pageCall[c].at = "settle")
    /\ starting # None => starting \in Browsers

\* While none has broken: the live browser is up and nothing starts beside it,
\* and whoever launches or closes has a browser to itself.
Unbroken ==
    /\ live # None => browser[live] = "up" /\ starting = None
    /\ \A b \in Browsers : browser[b] = "launching" => starting = b
    /\ \A c \in Everyone :
          /\ pageCall[c].at # "closeOld"
          /\ pageCall[c].at = "launch" =>
                /\ starting = pageCall[c].on /\ browser[pageCall[c].on] = "launching" /\ live = None
                /\ \A d \in Everyone \ {c} : pageCall[d].at # "launch"
          /\ pageCall[c].at \in Closing /\ pageCall[c].on \in Browsers =>
                pageCall[c].on # live /\ browser[pageCall[c].on] \in {"up", "flushing", "closed"}
    /\ \A b \in Browsers : browser[b] = "up" =>
          b = live \/ \E c \in Everyone : pageCall[c].on = b /\ pageCall[c].at \in {"close", "resetClose"}

\* While calls come one at a time: every browser that runs is the live one,
\* the one that the call is about, or one that page() went on without.
OneAtATime ==
    /\ \A c, d \in Everyone : pageCall[c].at # "idle" /\ pageCall[d].at # "idle" => c = d
    /\ \A c \in Everyone :
          /\ pageCall[c].at \in {"launch", "resetClose", "resetSettle", "remove"} => live = None
          /\ pageCall[c].at = "closeOld" => live = pageCall[c].on
          /\ pageCall[c].at \in Flushed /\ pageCall[c].on \in Browsers =>
                browser[pageCall[c].on] \in {"flushing", "closed"}
    /\ \A b \in Browsers : browser[b] = "launching" =>
          \E c \in Everyone : pageCall[c].on = b /\ pageCall[c].at = "launch"
    /\ \A b \in Browsers : browser[b] \in {"up", "broken", "flushing"} =>
          \/ b = live \/ b \in leftBehind
          \/ \E c \in Everyone : pageCall[c].on = b /\ pageCall[c].at \in Closing
    /\ wiped \subseteq leftBehind

\* What is handed out or closed has been launched, so a launch that others
\* wait for ends by its own call alone.
Launched ==
    /\ NobodyIsPinned
    /\ live # None => browser[live] \notin {"new", "launching"}
    /\ \A c \in Everyone : pageCall[c].at \in Closing \cup {"closeOld"} /\ pageCall[c].on \in Browsers =>
          browser[pageCall[c].on] \notin {"new", "launching"}

PagesInv ==
    /\ PagesTypeOK
    /\ Launched
    /\ \A c \in Everyone : HasItsBrowser(c)
    /\ breaks = 0 => Unbroken
    /\ ~overlapped => OneAtATime

(* The call that moves is alone in moving.                                 *)
LEMMA PageMoves ==
  ASSUME PagesTypeOK, NEW c \in Everyone, NEW at \in PageAwaits, NEW b \in Browsers \cup {None},
         Awaiting(c, at, b)
  PROVE  /\ pageCall' \in [Everyone -> Call] /\ pageCall'[c].at = at /\ pageCall'[c].on = b
         /\ \A d \in Everyone \ {c} : pageCall'[d] = pageCall[d]
BY DEF PagesTypeOK, Awaiting, Everyone, Call

LEMMA PageReturns ==
  ASSUME PagesTypeOK, NEW c \in Everyone, Return(c)
  PROVE  /\ pageCall' \in [Everyone -> Call] /\ pageCall'[c].at = "idle" /\ pageCall'[c].on = None
         /\ \A d \in Everyone \ {c} : pageCall'[d] = pageCall[d]
BY DEF PagesTypeOK, Return, Everyone, Call, NoCall, PageAwaits

LEMMA Overlap ==
  ASSUME overlapped' = (overlapped \/ (\E c, d \in InFlight : c # d)'), ~overlapped', NEW c \in Everyone,
         NEW d \in Everyone
  PROVE  ~overlapped /\ (pageCall'[c].at # "idle" /\ pageCall'[d].at # "idle" => c = d)
BY DEF InFlight, Everyone

LEMMA BecomesTyped ==
  ASSUME PagesTypeOK, NEW b \in Browsers, NEW state \in BrowserStates, Becomes(b, state)
  PROVE  /\ browser' \in [Browsers -> BrowserStates] /\ browser'[b] = state
         /\ \A o \in Browsers \ {b} : browser'[o] = browser[o]
BY DEF PagesTypeOK, Becomes

LEMMA JoiningKeeps ==
  ASSUME PagesInv, BrowserNext, NEW c \in Callers, PageJoins(c) \/ JoinReturns(c) \/ StopFindsNothing(c)
  PROVE  PagesInv'
<1>0. PagesTypeOK /\ c \in Everyone /\ HasItsBrowser(c) /\ UNCHANGED <<live, starting, browser, wiped, leftBehind, breaks, exited>>
  BY NoneAssumption DEF PagesInv, Everyone, PageJoins, JoinReturns, StopFindsNothing, pageVars
<1>1. /\ pageCall' \in [Everyone -> Call]
      /\ \/ pageCall' = pageCall
         \/ pageCall[c].at \in {"idle", "join"} /\ pageCall'[c].at \in {"idle", "join"}
      /\ pageCall'[c].at = "join" => pageCall'[c].on \in Browsers
      /\ \A d \in Everyone \ {c} : pageCall'[d] = pageCall[d]
  BY <1>0, PageMoves, PageReturns DEF PageJoins, JoinReturns, StopFindsNothing, pageVars, PageAwaits, PageAt,
     PagesTypeOK, Everyone, HasItsBrowser
<1>2. PagesTypeOK'
  BY <1>0, <1>1 DEF PagesTypeOK, Everyone
<1>3. \A d \in Everyone : HasItsBrowser(d)'
  BY <1>0, <1>1 DEF PagesInv, HasItsBrowser, Closing
<1>4. breaks' = 0 => Unbroken'
  BY <1>0, <1>1 DEF PagesInv, Unbroken, Closing
<1>5. ~overlapped' => OneAtATime'
  BY <1>0, <1>1, Overlap DEF PagesInv, OneAtATime, Closing, Flushed, BrowserNext
<1>6. Launched'
  BY <1>0, <1>1 DEF PagesInv, PagesTypeOK, Launched, NobodyIsPinned, HasItsBrowser, Closing, Flushed
<1> QED
  BY <1>6, <1>2, <1>3, <1>4, <1>5 DEF PagesInv

LEMMA LaunchingKeeps ==
  ASSUME PagesInv, BrowserNext, NEW c \in Callers, PageLaunches(c)
  PROVE  PagesInv'
<1>0. /\ PagesTypeOK /\ c \in Everyone /\ UNCHANGED <<live, wiped, leftBehind, breaks, exited>> /\ None \notin Browsers
      /\ pageCall[c].at = "idle" /\ starting = None /\ live = None
  BY NoneAssumption DEF PagesInv, Everyone, PageLaunches, NothingStarting, PageAt
<1>1. PICK b \in Browsers : Launch(c, b, browser)
  BY DEF PageLaunches
<1>2. /\ pageCall' \in [Everyone -> Call] /\ pageCall'[c].at = "launch" /\ pageCall'[c].on = b
      /\ \A d \in Everyone \ {c} : pageCall'[d] = pageCall[d]
  BY <1>0, <1>1, PageMoves DEF Launch, PageAwaits
<1>3. /\ browser' \in [Browsers -> BrowserStates] /\ browser'[b] = "launching" /\ browser[b] = "new"
      /\ (\A o \in Browsers \ {b} : browser'[o] = browser[o]) /\ starting' = b
  BY <1>0, <1>1 DEF Launch, PagesTypeOK, BrowserStates
<1>4. PagesTypeOK'
  BY <1>0, <1>2, <1>3 DEF PagesTypeOK, Everyone
<1>5. \A d \in Everyone : HasItsBrowser(d)'
  BY <1>0, <1>2, <1>3 DEF PagesInv, HasItsBrowser, Closing
<1>6. breaks' = 0 => Unbroken'
  <2> SUFFICES ASSUME breaks' = 0 PROVE Unbroken'
    OBVIOUS
  <2>1. Unbroken /\ \A d \in Everyone : HasItsBrowser(d)
    BY <1>0 DEF PagesInv
  <2>2. \A d \in Everyone \ {c} : pageCall[d].at # "launch"
    BY <1>0, <2>1 DEF Unbroken, HasItsBrowser
  <2> QED
    BY <1>0, <1>2, <1>3, <2>1, <2>2 DEF Unbroken, Closing
<1>7. ~overlapped' => OneAtATime'
  BY <1>0, <1>2, <1>3, Overlap DEF PagesInv, OneAtATime, Closing, Flushed, BrowserNext
<1>8. Launched'
  BY <1>0, <1>2, <1>3 DEF PagesInv, PagesTypeOK, Launched, NobodyIsPinned, HasItsBrowser, Closing, Flushed
<1> QED
  BY <1>8, <1>4, <1>5, <1>6, <1>7 DEF PagesInv

LEMMA HalfDeadKeeps ==
  ASSUME PagesInv, BrowserNext, NEW c \in Callers, PageClosesHalfDead(c)
  PROVE  PagesInv'
<1>0. /\ PagesTypeOK /\ c \in Everyone /\ UNCHANGED <<live, starting, browser, wiped, leftBehind, breaks, exited>>
      /\ pageCall[c].at = "idle" /\ live \in Browsers /\ browser[live] # "up"
  BY NoneAssumption DEF PagesInv, Everyone, PageClosesHalfDead, PageAt, Healthy, PagesTypeOK
<1>1. /\ pageCall' \in [Everyone -> Call] /\ pageCall'[c].at = "closeOld" /\ pageCall'[c].on = live
      /\ \A d \in Everyone \ {c} : pageCall'[d] = pageCall[d]
  BY <1>0, PageMoves DEF PageClosesHalfDead, PageAwaits
<1>2. PagesTypeOK'
  BY <1>0, <1>1 DEF PagesTypeOK, Everyone
<1>3. \A d \in Everyone : HasItsBrowser(d)'
  BY <1>0, <1>1 DEF PagesInv, HasItsBrowser, Closing
<1>4. breaks' # 0
  BY <1>0, NoneAssumption DEF PagesInv, Unbroken
<1>5. ~overlapped' => OneAtATime'
  BY <1>0, <1>1, Overlap DEF PagesInv, OneAtATime, Closing, Flushed, BrowserNext
<1>6. Launched'
  BY <1>0, <1>1, NoneAssumption DEF PagesInv, PagesTypeOK, Launched, NobodyIsPinned, HasItsBrowser, Closing, Flushed
<1> QED
  BY <1>6, <1>2, <1>3, <1>4, <1>5 DEF PagesInv

LEMMA RelaunchingKeeps ==
  ASSUME PagesInv, BrowserNext, NEW c \in Callers, PageRelaunches(c)
  PROVE  PagesInv'
<1>0. /\ PagesTypeOK /\ c \in Everyone /\ UNCHANGED <<wiped, breaks, exited>> /\ None \notin Browsers
      /\ pageCall[c].at = "closeOld" /\ pageCall[c].on \in Browsers /\ live' = None
      /\ leftBehind' = leftBehind \cup {pageCall[c].on}
  BY NoneAssumption DEF PagesInv, Everyone, PageRelaunches, PageAt, HasItsBrowser
<1>1. PICK old \in {"closed", "flushing"} : old = AfterClose(pageCall[c].on)
  BY DEF AfterClose
<1>9. PICK now : now = [browser EXCEPT ![pageCall[c].on] = old]
  OBVIOUS
<1>2. PICK b \in Browsers : Launch(c, b, now)
  BY <1>1, <1>9 DEF PageRelaunches
<1>3. /\ pageCall' \in [Everyone -> Call] /\ pageCall'[c].at = "launch" /\ pageCall'[c].on = b
      /\ \A d \in Everyone \ {c} : pageCall'[d] = pageCall[d]
  BY <1>0, <1>2, PageMoves DEF Launch, PageAwaits
<1>4. /\ browser' \in [Browsers -> BrowserStates] /\ browser'[b] = "launching" /\ browser[b] = "new"
      /\ b # pageCall[c].on /\ browser'[pageCall[c].on] = old
      /\ (\A o \in Browsers \ {b, pageCall[c].on} : browser'[o] = browser[o]) /\ starting' = b
  BY <1>0, <1>9, <1>2 DEF Launch, PagesTypeOK, BrowserStates
<1>5. PagesTypeOK'
  BY <1>0, <1>3, <1>4 DEF PagesTypeOK, Everyone
<1>6. \A d \in Everyone : HasItsBrowser(d)'
  BY <1>0, <1>3, <1>4 DEF PagesInv, HasItsBrowser, Closing
<1>7. breaks' # 0
  BY <1>0 DEF PagesInv, Unbroken
<1>8. ~overlapped' => OneAtATime'
  BY <1>0, <1>3, <1>4, Overlap DEF PagesInv, OneAtATime, Closing, Flushed, BrowserNext
<1>10. Launched'
  BY <1>0, <1>1, <1>3, <1>4 DEF PagesInv, PagesTypeOK, Launched, NobodyIsPinned, HasItsBrowser, Closing, Flushed
<1> QED
  BY <1>10, <1>5, <1>6, <1>7, <1>8 DEF PagesInv

LEMMA LaunchEndKeeps ==
  ASSUME PagesInv, BrowserNext, NEW c \in Callers, LaunchDone(c) \/ LaunchFails(c) \/ LaunchStrays(c)
  PROVE  PagesInv'
<1>1. PICK b : b = pageCall[c].on
  OBVIOUS
<1>2. PICK state \in {"up", "closed", "broken"} :
         /\ state = "up" => LaunchDone(c)
         /\ Becomes(b, state) /\ Return(c) /\ starting' = None /\ UNCHANGED <<wiped, exited>>
         /\ live' = IF state = "up" THEN b ELSE live
         /\ IF state = "broken" THEN breaks' = breaks + 1 /\ leftBehind' = leftBehind \cup {b}
                                 ELSE UNCHANGED <<breaks, leftBehind>>
  BY <1>1 DEF LaunchDone, LaunchFails, LaunchStrays, AfterFailure
<1>3. /\ PagesTypeOK /\ c \in Everyone /\ b \in Browsers /\ pageCall[c].at = "launch" /\ None \notin Browsers
  BY <1>1, NoneAssumption DEF PagesInv, Everyone, LaunchDone, LaunchFails, LaunchStrays, PageAt, HasItsBrowser
<1>4. /\ browser' \in [Browsers -> BrowserStates] /\ browser'[b] = state
      /\ \A o \in Browsers \ {b} : browser'[o] = browser[o]
  BY <1>2, <1>3, BecomesTyped DEF BrowserStates
<1>5. /\ pageCall' \in [Everyone -> Call] /\ pageCall'[c].at = "idle" /\ pageCall'[c].on = None
      /\ \A d \in Everyone \ {c} : pageCall'[d] = pageCall[d]
  BY <1>2, <1>3, PageReturns
<1>6. PagesTypeOK'
  BY <1>2, <1>3, <1>4, <1>5 DEF PagesTypeOK, Everyone
<1>7. \A d \in Everyone : HasItsBrowser(d)'
  BY <1>2, <1>5 DEF PagesInv, HasItsBrowser, Closing
<1>8. breaks' = 0 => Unbroken'
  <2>1. CASE state = "broken"
    BY <1>2, <1>3, <2>1 DEF PagesTypeOK
  <2>2. CASE state # "broken"
    BY <1>1, <1>2, <1>3, <1>4, <1>5, <2>2 DEF PagesInv, Unbroken, Closing
  <2> QED
    BY <2>1, <2>2
<1>9. ~overlapped' => OneAtATime'
  BY <1>1, <1>2, <1>3, <1>4, <1>5, Overlap DEF PagesInv, OneAtATime, Closing, Flushed, BrowserNext
<1>10. Launched'
  BY <1>1, <1>2, <1>3, <1>4, <1>5 DEF PagesInv, PagesTypeOK, Launched, NobodyIsPinned, HasItsBrowser, Closing, Flushed
<1> QED
  BY <1>10, <1>6, <1>7, <1>8, <1>9 DEF PagesInv

LEMMA ClosingStaysUnbroken ==
  ASSUME Unbroken, UNCHANGED <<live, starting>>, None \notin Browsers, NEW c \in Everyone, NEW b \in Browsers \cup {None},
         pageCall[c].on = b, pageCall[c].at \in Closing,
         \A d \in Everyone : pageCall[d].at = "launch" => pageCall[d].on \in Browsers,
         b \in Browsers => b # live /\ browser'[b] \in {"up", "flushing", "closed"},
         b \in Browsers /\ browser'[b] = "up" => browser[b] = "up" /\ pageCall[c].at \in Flushed,
         \A o \in Browsers \ {b} : browser'[o] = browser[o],
         live = None \/ live \in Browsers,
         pageCall'[c].on \in {b, None}, pageCall'[c].at \in Flushed \cup {"idle", "remove"},
         \A d \in Everyone \ {c} : pageCall'[d] = pageCall[d]
  PROVE  Unbroken'
<1>1. b \in Browsers => browser[b] \in {"up", "flushing", "closed"}
  BY DEF Unbroken
<1>0. \A o \in Browsers :
         /\ browser'[o] = "launching" => browser[o] = "launching" /\ o # b
         /\ browser[o] \in {"up", "flushing", "closed"} => browser'[o] \in {"up", "flushing", "closed"}
         /\ browser'[o] = "up" => browser[o] = "up"
         /\ o # b => browser'[o] = browser[o]
  <2> SUFFICES ASSUME NEW o \in Browsers
               PROVE  /\ browser'[o] = "launching" => browser[o] = "launching" /\ o # b
                      /\ browser[o] \in {"up", "flushing", "closed"} => browser'[o] \in {"up", "flushing", "closed"}
                      /\ browser'[o] = "up" => browser[o] = "up"
                      /\ o # b => browser'[o] = browser[o]
    OBVIOUS
  <2>1. CASE o = b
    BY <2>1
  <2>2. CASE o # b
    <3>1. browser'[o] = browser[o]
      BY <2>2
    <3> QED
      BY <2>2, <3>1
  <2> QED
    BY <2>1, <2>2
<1>2. live' # None => browser'[live'] = "up" /\ starting' = None
  BY DEF Unbroken
<1>3. \A o \in Browsers : browser'[o] = "launching" => starting' = o
  BY <1>0 DEF Unbroken
<1>4. ASSUME NEW d \in Everyone
      PROVE  /\ pageCall'[d].at # "closeOld"
             /\ pageCall'[d].at = "launch" =>
                  /\ starting' = pageCall'[d].on /\ browser'[pageCall'[d].on] = "launching" /\ live' = None
                  /\ \A e \in Everyone \ {d} : pageCall'[e].at # "launch"
             /\ pageCall'[d].at \in Closing /\ pageCall'[d].on \in Browsers =>
                  pageCall'[d].on # live' /\ browser'[pageCall'[d].on] \in {"up", "flushing", "closed"}
  <2>1. CASE d = c
    <3>1. pageCall'[c].at \notin {"closeOld", "launch"}
      BY DEF Flushed
    <3>2. pageCall'[c].on \in Browsers => pageCall'[c].on = b
      OBVIOUS
    <3>3. pageCall'[c].on \in Browsers =>
             pageCall'[c].on # live' /\ browser'[pageCall'[c].on] \in {"up", "flushing", "closed"}
      BY <3>2
    <3> QED
      BY <2>1, <3>1, <3>3
  <2>2. CASE d # c
    <3>1. pageCall'[d] = pageCall[d] /\ pageCall[d].at # "closeOld"
      BY <2>2 DEF Unbroken
    <3>2. PICK o : o = pageCall[d].on
      OBVIOUS
    <3>3. ASSUME pageCall[d].at \in Closing, o \in Browsers
          PROVE  o # live' /\ browser'[o] \in {"up", "flushing", "closed"}
      <4>1. o # live /\ browser[o] \in {"up", "flushing", "closed"}
        BY <3>2, <3>3 DEF Unbroken
      <4> QED
        BY <1>0, <3>3, <4>1
    <3>4. ASSUME pageCall[d].at = "launch"
          PROVE  /\ starting' = o /\ browser'[o] = "launching" /\ live' = None
                 /\ \A e \in Everyone \ {d} : pageCall'[e].at # "launch"
      <4>1. /\ starting = o /\ browser[o] = "launching" /\ live = None
            /\ \A e \in Everyone \ {d} : pageCall[e].at # "launch"
        BY <3>2, <3>4 DEF Unbroken
      <4>2. o # b /\ o \in Browsers
        <5>1. o \in Browsers
          BY <3>2, <3>4
        <5> QED
          BY <1>1, <4>1, <5>1
      <4> QED
        BY <4>1, <4>2 DEF Flushed
    <3> QED
      BY <3>1, <3>2, <3>3, <3>4
  <2> QED
    BY <2>1, <2>2
<1>5. ASSUME NEW o \in Browsers, browser'[o] = "up"
      PROVE  o = live' \/ \E d \in Everyone : pageCall'[d].on = o /\ pageCall'[d].at \in {"close", "resetClose"}
  <2>1. browser[o] = "up" /\ (o = b => pageCall[c].at \in Flushed)
    BY <1>0, <1>5
  <2>2. CASE o # live
    <3>1. PICK d \in Everyone : pageCall[d].on = o /\ pageCall[d].at \in {"close", "resetClose"}
      BY <2>1, <2>2 DEF Unbroken
    <3>2. d # c
      BY <2>1, <3>1 DEF Flushed
    <3> QED
      BY <3>1, <3>2
  <2> QED
    BY <2>2
<1> QED
  BY <1>2, <1>3, <1>4, <1>5 DEF Unbroken

LEMMA TakingKeeps ==
  ASSUME PagesInv, BrowserNext, NEW c \in Everyone,
         (StopPages(c) /\ c \in Callers) \/ ResetPages(c) \/ (c \in Signals /\ Signal(c))
  PROVE  PagesInv'
<1>1. PICK at \in {"close", "resetClose", "remove", "settle"} :
         /\ Awaiting(c, at, live)
         /\ at \in {"close", "resetClose"} => live # None
         /\ at = "remove" => live = None
         /\ at = "settle" => c \in Signals /\ live = None
  BY DEF StopPages, ResetPages, Signal, ClosesFirst
<1>2. /\ PagesTypeOK /\ None \notin Browsers /\ live' = None /\ live \in Browsers \cup {None}
      /\ pageCall[c].at = "idle" /\ UNCHANGED <<starting, browser, wiped, leftBehind, breaks, exited>>
  BY NoneAssumption DEF PagesInv, StopPages, ResetPages, Signal, PageAt, PagesTypeOK
<1>3. /\ pageCall' \in [Everyone -> Call] /\ pageCall'[c].at = at /\ pageCall'[c].on = live
      /\ \A d \in Everyone \ {c} : pageCall'[d] = pageCall[d]
  BY <1>1, <1>2, PageMoves DEF PageAwaits
<1>4. PagesTypeOK'
  BY <1>2, <1>3 DEF PagesTypeOK, Everyone
<1>5. \A d \in Everyone : HasItsBrowser(d)'
  BY <1>1, <1>2, <1>3 DEF PagesInv, HasItsBrowser, Closing
<1>6. breaks' = 0 => Unbroken'
  <2> SUFFICES ASSUME breaks' = 0 PROVE Unbroken'
    OBVIOUS
  <2>1. Unbroken
    BY <1>2 DEF PagesInv
  <2>2. \A d \in Everyone \ {c} :
          /\ pageCall'[d].at # "closeOld"
          /\ pageCall'[d].at = "launch" =>
                /\ starting' = pageCall'[d].on /\ browser'[pageCall'[d].on] = "launching" /\ live' = None
                /\ \A e \in Everyone \ {d} : pageCall'[e].at # "launch"
          /\ pageCall'[d].at \in Closing /\ pageCall'[d].on \in Browsers =>
                pageCall'[d].on # live' /\ browser'[pageCall'[d].on] \in {"up", "flushing", "closed"}
    BY <1>1, <1>2, <1>3, <2>1 DEF Unbroken
  <2>3. pageCall'[c].on \in Browsers => pageCall'[c].on # live' /\ browser'[pageCall'[c].on] = "up"
    BY <1>2, <1>3, <2>1 DEF Unbroken
  <2>4. ASSUME NEW b \in Browsers, browser'[b] = "up"
        PROVE  \E d \in Everyone : pageCall'[d].on = b /\ pageCall'[d].at \in {"close", "resetClose"}
    <3>1. CASE b = live
      BY <1>1, <1>2, <1>3, <3>1
    <3>2. CASE b # live
      <4>1. PICK d \in Everyone : pageCall[d].on = b /\ pageCall[d].at \in {"close", "resetClose"}
        BY <1>2, <2>1, <2>4, <3>2 DEF Unbroken
      <4> QED
        BY <1>2, <1>3, <4>1
    <3> QED
      BY <3>1, <3>2
  <2> QED
    BY <1>1, <1>2, <1>3, <2>1, <2>2, <2>3, <2>4 DEF Unbroken
<1>7. ~overlapped' => OneAtATime'
  <2> SUFFICES ASSUME ~overlapped' PROVE OneAtATime'
    OBVIOUS
  <2>1. OneAtATime /\ \A d \in Everyone \ {c} : pageCall'[d].at = "idle" /\ pageCall[d].at = "idle"
    BY <1>1, <1>3, Overlap DEF PagesInv, BrowserNext
  <2>2. \A d, e \in Everyone : pageCall'[d].at # "idle" /\ pageCall'[e].at # "idle" => d = e
    BY <2>1
  <2>3. \A d \in Everyone : pageCall[d].at = "idle"
    BY <1>2, <2>1
  <2>4. \A b \in Browsers : browser[b] \in {"up", "broken", "flushing"} => b = live \/ b \in leftBehind
    BY <2>1, <2>3 DEF OneAtATime, Closing
  <2>5. \A b \in Browsers : browser[b] # "launching"
    BY <2>1, <2>3 DEF OneAtATime
  <2>6. \A b \in Browsers : browser'[b] \in {"up", "broken", "flushing"} =>
           b \in leftBehind' \/ (pageCall'[c].on = b /\ pageCall'[c].at \in Closing)
    BY <1>1, <1>2, <1>3, <2>4 DEF Closing
  <2> QED
    BY <1>1, <1>2, <1>3, <2>1, <2>2, <2>5, <2>6 DEF OneAtATime, Flushed
<1>8. Launched'
  BY <1>1, <1>2, <1>3 DEF PagesInv, PagesTypeOK, Launched, NobodyIsPinned, HasItsBrowser, Closing, Flushed
<1> QED
  BY <1>8, <1>4, <1>5, <1>6, <1>7 DEF PagesInv

LEMMA ClosedKeeps ==
  ASSUME PagesInv, BrowserNext, NEW c \in Everyone, Closed(c)
  PROVE  PagesInv'
<1>1. PICK b : b = pageCall[c].on
  OBVIOUS
<1>2. /\ PagesTypeOK /\ None \notin Browsers /\ b \in Browsers
      /\ pageCall[c].at \in {"close", "resetClose"} /\ UNCHANGED <<live, starting, wiped, leftBehind, breaks, exited>>
  BY <1>1, NoneAssumption DEF PagesInv, Closed, PageAt, HasItsBrowser, Closing
<1>3. PICK state \in {"closed", "flushing"} : Becomes(b, state)
  BY <1>1 DEF Closed, AfterClose
<1>4. PICK at \in Flushed : Awaiting(c, at, b) /\ (at = "resetSettle" <=> pageCall[c].at = "resetClose")
  BY <1>1, <1>2 DEF Closed, Flushed
<1>5. /\ browser' \in [Browsers -> BrowserStates] /\ browser'[b] = state
      /\ \A o \in Browsers \ {b} : browser'[o] = browser[o]
  BY <1>2, <1>3, BecomesTyped DEF BrowserStates
<1>6. /\ pageCall' \in [Everyone -> Call] /\ pageCall'[c].at = at /\ pageCall'[c].on = b
      /\ \A d \in Everyone \ {c} : pageCall'[d] = pageCall[d]
  BY <1>2, <1>4, PageMoves DEF PageAwaits, Flushed
<1>7. PagesTypeOK'
  BY <1>2, <1>5, <1>6 DEF PagesTypeOK, Everyone
<1>8. \A d \in Everyone : HasItsBrowser(d)'
  BY <1>2, <1>6 DEF PagesInv, HasItsBrowser, Closing
<1>9. breaks' = 0 => Unbroken'
  <2> SUFFICES ASSUME breaks' = 0 PROVE Unbroken'
    OBVIOUS
  <2>1. Unbroken
    BY <1>2 DEF PagesInv
  <2>2. b # live /\ browser[b] \in {"up", "flushing", "closed"}
    BY <1>1, <1>2, <2>1 DEF Unbroken, Closing
  <2>3. (\A d \in Everyone : pageCall[d].at = "launch" => pageCall[d].on \in Browsers) /\ live \in Browsers \cup {None}
    BY <1>2 DEF PagesInv, HasItsBrowser, PagesTypeOK
  <2>4. pageCall[c].at \in Closing /\ at \in Flushed /\ browser'[b] # "up"
    BY <1>2, <1>4, <1>5 DEF Closing
  <2> QED
    BY <1>1, <1>2, <1>5, <1>6, <2>1, <2>2, <2>3, <2>4, ClosingStaysUnbroken
<1>10. ~overlapped' => OneAtATime'
  BY <1>1, <1>2, <1>4, <1>5, <1>6, Overlap DEF PagesInv, OneAtATime, Closing, Flushed, BrowserNext
<1>11. Launched'
  BY <1>1, <1>2, <1>4, <1>5, <1>6 DEF PagesInv, PagesTypeOK, Launched, NobodyIsPinned, HasItsBrowser, Closing, Flushed
<1> QED
  BY <1>11, <1>7, <1>8, <1>9, <1>10 DEF PagesInv

LEMMA SettledKeeps ==
  ASSUME PagesInv, BrowserNext, NEW c \in Callers, Settled(c)
  PROVE  PagesInv'
<1>1. PICK b : b = pageCall[c].on
  OBVIOUS
<1>2. /\ PagesTypeOK /\ None \notin Browsers /\ b \in Browsers /\ c \in Everyone
      /\ pageCall[c].at \in Flushed /\ UNCHANGED <<live, starting, wiped, leftBehind, breaks, exited>>
  BY <1>1, NoneAssumption DEF PagesInv, Settled, IsSettled, PageAt, HasItsBrowser, Closing, Flushed, Everyone
<1>3. PICK state \in BrowserStates :
         /\ Becomes(b, state)
         /\ state = "closed" \/ (state = browser[b] /\ state # "flushing")
  BY <1>1, <1>2 DEF Settled, PagesTypeOK, BrowserStates
<1>4. /\ browser' \in [Browsers -> BrowserStates] /\ browser'[b] = state
      /\ \A o \in Browsers \ {b} : browser'[o] = browser[o]
  BY <1>2, <1>3, BecomesTyped
<1>5. /\ pageCall' \in [Everyone -> Call] /\ pageCall'[c].at \in {"idle", "remove"}
      /\ pageCall'[c].on = None /\ (pageCall'[c].at = "remove" => pageCall[c].at = "resetSettle")
      /\ \A d \in Everyone \ {c} : pageCall'[d] = pageCall[d]
  BY <1>2, PageMoves, PageReturns DEF Settled, PageAwaits, Flushed
<1>6. PagesTypeOK'
  BY <1>2, <1>4, <1>5 DEF PagesTypeOK, Everyone
<1>7. \A d \in Everyone : HasItsBrowser(d)'
  BY <1>2, <1>5 DEF PagesInv, HasItsBrowser, Closing
<1>8. breaks' = 0 => Unbroken'
  <2> SUFFICES ASSUME breaks' = 0 PROVE Unbroken'
    OBVIOUS
  <2>1. Unbroken
    BY <1>2 DEF PagesInv
  <2>2. b # live /\ browser[b] \in {"up", "flushing", "closed"}
    BY <1>1, <1>2, <2>1 DEF Unbroken, Closing, Flushed
  <2>3. (\A d \in Everyone : pageCall[d].at = "launch" => pageCall[d].on \in Browsers) /\ live \in Browsers \cup {None}
    BY <1>2 DEF PagesInv, HasItsBrowser, PagesTypeOK
  <2>4. pageCall[c].at \in Closing /\ browser'[b] \in {"up", "flushing", "closed"}
        /\ (browser'[b] = "up" => browser[b] = "up")
    BY <1>2, <1>3, <1>4, <2>2 DEF Closing, Flushed
  <2> QED
    BY <1>1, <1>2, <1>4, <1>5, <2>1, <2>2, <2>3, <2>4, ClosingStaysUnbroken
<1>9. ~overlapped' => OneAtATime'
  BY <1>1, <1>2, <1>3, <1>4, <1>5, Overlap DEF PagesInv, OneAtATime, Closing, Flushed, BrowserNext
<1>10. Launched'
  BY <1>1, <1>2, <1>3, <1>4, <1>5 DEF PagesInv, PagesTypeOK, Launched, NobodyIsPinned, HasItsBrowser, Closing, Flushed
<1> QED
  BY <1>10, <1>6, <1>7, <1>8, <1>9 DEF PagesInv

LEMMA RemovingKeeps ==
  ASSUME PagesInv, BrowserNext, NEW c \in Callers, RemoveProfile(c)
  PROVE  PagesInv'
<1>1. /\ PagesTypeOK /\ c \in Everyone /\ pageCall[c].at = "remove" /\ Return(c)
      /\ UNCHANGED <<live, starting, browser, leftBehind, breaks, exited>> /\ wiped' = wiped \cup Running
      /\ None \notin Browsers
  BY NoneAssumption DEF PagesInv, RemoveProfile, PageAt, Everyone
<1>2. /\ pageCall' \in [Everyone -> Call] /\ pageCall'[c].at = "idle" /\ pageCall'[c].on = None
      /\ \A d \in Everyone \ {c} : pageCall'[d] = pageCall[d]
  BY <1>1, PageReturns
<1>3. PagesTypeOK'
  BY <1>1, <1>2 DEF PagesTypeOK, Everyone, Running
<1>4. \A d \in Everyone : HasItsBrowser(d)'
  BY <1>1, <1>2 DEF PagesInv, HasItsBrowser, Closing
<1>5. breaks' = 0 => Unbroken'
  BY <1>1, <1>2 DEF PagesInv, Unbroken, Closing
<1>6. ~overlapped' => OneAtATime'
  <2> SUFFICES ASSUME ~overlapped' PROVE OneAtATime'
    OBVIOUS
  <2>1. OneAtATime
    BY <1>1, Overlap DEF PagesInv, BrowserNext
  <2>2. \A d \in Everyone \ {c} : pageCall[d].at = "idle"
    BY <1>1, <2>1 DEF OneAtATime
  <2>3. live = None
    BY <1>1, <2>1 DEF OneAtATime
  <2>4. Running \subseteq leftBehind
    BY <1>1, <2>1, <2>2, <2>3 DEF OneAtATime, Running, Closing
  <2> QED
    BY <1>1, <1>2, <2>1, <2>2, <2>4 DEF OneAtATime, Closing
<1>7. Launched'
  BY <1>1, <1>2 DEF PagesInv, PagesTypeOK, Launched, NobodyIsPinned, HasItsBrowser, Closing, Flushed
<1> QED
  BY <1>7, <1>3, <1>4, <1>5, <1>6 DEF PagesInv

LEMMA ExitKeeps ==
  ASSUME PagesInv, BrowserNext, NEW g \in Signals, Exit(g)
  PROVE  PagesInv'
<1>1. /\ PagesTypeOK /\ g \in Everyone /\ pageCall[g].at = "settle" /\ exited' = TRUE
      /\ UNCHANGED <<live, starting, wiped, leftBehind, pageCall, breaks>> /\ None \notin Browsers
  BY NoneAssumption DEF PagesInv, Exit, PageAt, Everyone
<1>2. PICK b \in Browsers \cup {None} : b = pageCall[g].on
  BY <1>1 DEF PagesTypeOK, Call, Everyone
<1>3. /\ browser' \in [Browsers -> BrowserStates]
      /\ b \in Browsers => browser'[b] = "closed"
      /\ \A o \in Browsers \ {b} : browser'[o] = browser[o]
  BY <1>1, <1>2 DEF Exit, PagesTypeOK, BrowserStates
<1>4. PagesTypeOK'
  BY <1>1, <1>3 DEF PagesTypeOK
<1>5. \A d \in Everyone : HasItsBrowser(d)'
  BY <1>1 DEF PagesInv, HasItsBrowser, Closing
<1>6. breaks' = 0 => Unbroken'
  <2> SUFFICES ASSUME breaks' = 0 PROVE Unbroken'
    OBVIOUS
  <2>1. Unbroken
    BY <1>1 DEF PagesInv
  <2>2. b \in Browsers => b # live /\ browser[b] \in {"up", "flushing", "closed"}
    BY <1>1, <1>2, <2>1 DEF Unbroken, Closing
  <2>3. (\A d \in Everyone : pageCall[d].at = "launch" => pageCall[d].on \in Browsers) /\ live \in Browsers \cup {None}
    BY <1>1 DEF PagesInv, HasItsBrowser, PagesTypeOK
  <2>4. pageCall[g].at \in Closing /\ pageCall'[g].at \in Flushed /\ pageCall'[g].on = b
    BY <1>1, <1>2 DEF Closing, Flushed
  <2> QED
    BY <1>1, <1>2, <1>3, <2>1, <2>2, <2>3, <2>4, ClosingStaysUnbroken
<1>7. ~overlapped' => OneAtATime'
  <2> SUFFICES ASSUME ~overlapped' PROVE OneAtATime'
    OBVIOUS
  <2>1. OneAtATime
    BY <1>1, Overlap DEF PagesInv, BrowserNext
  <2>2. \A d \in Everyone \ {g} : pageCall[d].at = "idle"
    BY <1>1, <2>1 DEF OneAtATime
  <2> QED
    BY <1>1, <1>2, <1>3, <2>1, <2>2 DEF OneAtATime, Closing, Flushed
<1>8. Launched'
  BY <1>1, <1>2, <1>3 DEF PagesInv, PagesTypeOK, Launched, NobodyIsPinned, HasItsBrowser, Closing, Flushed
<1> QED
  BY <1>8, <1>4, <1>5, <1>6, <1>7 DEF PagesInv

LEMMA BreakingKeeps ==
  ASSUME PagesInv, BrowserNext, NEW b \in Browsers, Breaks(b)
  PROVE  PagesInv'
<1>1. PICK state \in {"broken", "dead"} : Becomes(b, state)
  BY DEF Breaks
<1>2. /\ PagesTypeOK /\ browser[b] = "up" /\ breaks' = breaks + 1 /\ breaks' # 0
      /\ UNCHANGED <<live, starting, wiped, leftBehind, pageCall, exited>>
  BY DEF PagesInv, Breaks, PagesTypeOK
<1>3. /\ browser' \in [Browsers -> BrowserStates] /\ browser'[b] = state
      /\ \A o \in Browsers \ {b} : browser'[o] = browser[o]
  BY <1>1, <1>2, BecomesTyped DEF BrowserStates
<1>4. PagesTypeOK'
  BY <1>2, <1>3 DEF PagesTypeOK
<1>5. \A d \in Everyone : HasItsBrowser(d)'
  BY <1>2 DEF PagesInv, HasItsBrowser, Closing
<1>6. ~overlapped' => OneAtATime'
  <2> SUFFICES ASSUME ~overlapped' PROVE OneAtATime'
    OBVIOUS
  <2>1. OneAtATime
    BY DEF PagesInv, BrowserNext
  <2>2. b = live \/ b \in leftBehind \/ \E c \in Everyone : pageCall[c].on = b /\ pageCall[c].at \in Closing
    BY <1>2, <2>1 DEF OneAtATime
  <2>3. \A o \in Browsers : browser'[o] \in {"up", "broken", "flushing", "launching"} => browser[o] = browser'[o] \/ o = b
    BY <1>3
  <2>4. browser[b] \notin {"launching", "flushing", "closed"} /\ browser'[b] # "launching"
    BY <1>2, <1>3
  <2> QED
    BY <1>2, <1>3, <2>1, <2>2, <2>3, <2>4 DEF OneAtATime
<1>7. Launched'
  BY <1>1, <1>2, <1>3 DEF PagesInv, PagesTypeOK, Launched, NobodyIsPinned, HasItsBrowser, Closing, Flushed
<1> QED
  BY <1>7, <1>2, <1>4, <1>5, <1>6 DEF PagesInv

LEMMA WritingOutKeeps ==
  ASSUME PagesInv, BrowserNext, NEW b \in Browsers, WritesOut(b)
  PROVE  PagesInv'
<1>1. /\ PagesTypeOK /\ browser[b] = "flushing" /\ Becomes(b, "closed")
      /\ UNCHANGED <<live, starting, wiped, leftBehind, pageCall, breaks, exited>>
  BY DEF PagesInv, WritesOut
<1>2. /\ browser' \in [Browsers -> BrowserStates] /\ browser'[b] = "closed"
      /\ \A o \in Browsers \ {b} : browser'[o] = browser[o]
  BY <1>1, BecomesTyped DEF BrowserStates
<1>3. PagesTypeOK'
  BY <1>1, <1>2 DEF PagesTypeOK
<1>4. \A d \in Everyone : HasItsBrowser(d)'
  BY <1>1 DEF PagesInv, HasItsBrowser, Closing
<1>5. breaks' = 0 => Unbroken'
  <2> SUFFICES ASSUME breaks' = 0 PROVE Unbroken'
    OBVIOUS
  <2>1. Unbroken /\ live \in Browsers \cup {None}
    BY <1>1 DEF PagesInv, PagesTypeOK
  <2>2. \A d \in Everyone : pageCall[d].at = "launch" => pageCall[d].on \in Browsers
    BY <1>1 DEF PagesInv, HasItsBrowser
  <2> QED
    BY <1>1, <1>2, <2>1, <2>2 DEF Unbroken, Closing
<1>6. ~overlapped' => OneAtATime'
  <2> SUFFICES ASSUME ~overlapped' PROVE OneAtATime'
    OBVIOUS
  <2>1. OneAtATime
    BY DEF PagesInv, BrowserNext
  <2>2. /\ \A c \in Everyone : pageCall'[c].at \in Flushed /\ pageCall'[c].on \in Browsers =>
                browser'[pageCall'[c].on] \in {"flushing", "closed"}
        /\ \A o \in Browsers : browser'[o] \in {"launching", "up", "broken", "flushing"} => browser'[o] = browser[o]
    BY <1>1, <1>2, <2>1 DEF OneAtATime
  <2> QED
    BY <1>1, <2>1, <2>2 DEF OneAtATime
<1>7. Launched'
  BY <1>1, <1>2 DEF PagesInv, PagesTypeOK, Launched, NobodyIsPinned, HasItsBrowser, Closing, Flushed
<1> QED
  BY <1>7, <1>3, <1>4, <1>5, <1>6 DEF PagesInv

(* One browser starts at a time, and none is out of everybody's reach.     *)
LEMMA UnbrokenIsOne ==
  ASSUME Unbroken, PagesTypeOK PROVE OneLaunch /\ NoOrphan
<1>1. Launching \subseteq {starting}
  BY DEF Unbroken, Launching
<1>2. IsFiniteSet({starting}) /\ Cardinality({starting}) = 1
  BY FS_Singleton
<1>3. Cardinality(Launching) <= 1
  BY <1>1, <1>2, FS_Subset
<1>4. Launching # {} => ~Healthy
  BY NoneAssumption DEF Unbroken, Healthy, Launching
<1>5. NoOrphan
  BY DEF Unbroken, NoOrphan, Everyone
<1>6. OneLaunch <=> Cardinality(Launching) <= 1 /\ (Launching # {} => ~Healthy)
  BY DEF OneLaunch
<1>7. OneLaunch
  BY <1>3, <1>4, <1>6
<1> QED
  BY <1>5, <1>7

LEMMA BrowserStepKeeps == ASSUME PagesInv, BrowserNext PROVE PagesInv'
<1>1. ASSUME NEW c \in Callers, Begin(c) \/ Resume(c) PROVE PagesInv'
  <2>1. c \in Everyone
    BY DEF Everyone
  <2> QED
    BY <1>1, <2>1, JoiningKeeps, LaunchingKeeps, HalfDeadKeeps, RelaunchingKeeps, LaunchEndKeeps, TakingKeeps,
       ClosedKeeps, SettledKeeps, RemovingKeeps DEF Begin, Resume
<1>2. ASSUME NEW g \in Signals, Signal(g) \/ Closed(g) \/ Exit(g) PROVE PagesInv'
  BY <1>2, TakingKeeps, ClosedKeeps, ExitKeeps DEF Everyone
<1> QED
  BY <1>1, <1>2, BreakingKeeps, WritingOutKeeps DEF BrowserNext, PagesNext

LEMMA PagesInvariant == MCSpec => []PagesInv
<1>1. MCInit => PagesInv
  <2> SUFFICES ASSUME MCInit PROVE PagesInv
    OBVIOUS
  <2>1. PagesInit /\ overlapped = FALSE
    BY DEF MCInit
  <2>2. \A c \in Everyone : pageCall[c].at = "idle" /\ pageCall[c].on = None
    BY <2>1 DEF PagesInit, NoCall, Everyone
  <2>3. \A b \in Browsers : browser[b] = "new"
    BY <2>1 DEF PagesInit
  <2>4. PagesTypeOK
    BY <2>1, NoneAssumption DEF PagesInit, PagesTypeOK, BrowserStates, Call, NoCall, PageAwaits
  <2>5. \A c \in Everyone : HasItsBrowser(c)
    BY <2>1, <2>2 DEF HasItsBrowser, Closing, PagesInit
  <2>6. Unbroken
    BY <2>1, <2>2, <2>3 DEF Unbroken, Closing, PagesInit
  <2>7. OneAtATime
    BY <2>1, <2>2, <2>3 DEF OneAtATime, Closing, Flushed, PagesInit
  <2>8. Launched
    BY <2>1, <2>2 DEF Launched, NobodyIsPinned, Closing, PagesInit
  <2> QED
    BY <2>4, <2>5, <2>6, <2>7, <2>8 DEF PagesInv
<1>2. PagesInv /\ [MCNext]_machineVars => PagesInv'
  <2> SUFFICES ASSUME PagesInv, [MCNext]_machineVars PROVE PagesInv'
    OBVIOUS
  <2>1. CASE UNCHANGED <<pageVars, overlapped>>
    BY <2>1 DEF pageVars, PagesInv, PagesTypeOK, HasItsBrowser, Unbroken, OneAtATime, Launched, NobodyIsPinned
  <2> QED
    BY <2>1, EachMovesAlone, BrowserStepKeeps
<1> QED
  BY <1>1, <1>2, PTL DEF MCSpec

(* A profile directory has one browser: until one breaks there is one      *)
(* launch at a time, none next to a live browser, and none out of reach;   *)
(* and as long as calls come one at a time, whatever breaks, reset deletes *)
(* under no browser but one that page() itself went on without (page, stop *)
(* and reset, OneBrowserPerProfile).                                       *)
THEOREM OneBrowserStays == MCSpec => []OneBrowserPerProfile
<1>1. PagesInv => OneBrowserPerProfile
  BY UnbrokenIsOne DEF PagesInv, OneBrowserPerProfile, OneAtATime, Launched
<1> QED
  BY <1>1, PagesInvariant, PTL

-----------------------------------------------------------------------------
(* Sign-in and the Sprites: the gateway is put last, so a Sprite that      *)
(* lists it has everything.                                                *)

All == ToSet(spriteServiceDefinitions)
Sprite == [made : BOOLEAN, booted : BOOLEAN, services : SUBSET All]
SignInState ==
    [user : Users \cup {<<>>}, put : 0 .. Len(spriteServiceDefinitions),
     at : {"idle", "get", "create", "list", "exec", "put", "save", "saveError"}]

Whole(sprite) == sprite.booted /\ sprite.services = All

\* What a sign-in has seen to of its Sprite.
SeenTo(put, at, sprite) ==
    /\ at \in {"get", "create", "list", "exec"} => put = 0
    /\ at = "put" =>
          /\ sprite.booted /\ put < Len(spriteServiceDefinitions)
          /\ \A i \in 1 .. put : spriteServiceDefinitions[i] \in sprite.services
    /\ at = "save" => Whole(sprite)

SpritesInv ==
    /\ SignInTypeOK /\ UrlsAreServed
    /\ \A n \in Names : SpriteGateway \in sprites[n].services => Whole(sprites[n])
    /\ \A r \in SignIns : signing[r].at # "idle" =>
          /\ signing[r].user \in Users
          /\ \A n \in Names : n = Mine(r) => SeenTo(signing[r].put, signing[r].at, sprites[n])

(* The gateway is the last of the services, and there only.                *)
LEMMA TheGatewayIsLast ==
  /\ Len(spriteServiceDefinitions) \in Nat \ {0}
  /\ DOMAIN spriteServiceDefinitions = 1 .. Len(spriteServiceDefinitions)
  /\ \A i \in 1 .. Len(spriteServiceDefinitions) :
        spriteServiceDefinitions[i] = SpriteGateway <=> i = Len(spriteServiceDefinitions)
<1>1. PICK gateway, names : gateway = SpriteGateway /\ names = STRING \cup {gateway}
  OBVIOUS
<1>2. Products \in Seq(names) /\ gateway \in names
  <2>1. STRING \subseteq names /\ Products \in Seq(STRING)
    BY <1>1, SignInAssumption
  <2>2. PICK strings : strings = STRING
    OBVIOUS
  <2>3. PICK n \in Nat : n = Len(Products) /\ Products \in [1 .. n -> strings]
    BY <2>1, <2>2
  <2>4. Products \in [1 .. n -> names]
    BY <2>1, <2>2, <2>3
  <2> QED
    BY <1>1, <2>4
<1>3. PICK n \in Nat : n = Len(Products) /\ Products \in [1 .. n -> names]
  BY <1>2
<1>4. PICK defs : defs = Append(Products, gateway)
  OBVIOUS
<1>5. Len(defs) = n + 1 /\ DOMAIN defs = 1 .. n + 1 /\ defs[n + 1] = gateway
      /\ \A i \in 1 .. n : defs[i] = Products[i]
  BY <1>2, <1>3, <1>4, AppendProperties
<1>6. \A i \in 1 .. n : Products[i] # gateway
  BY <1>1, <1>3, SignInAssumption DEF ToSet
<1>7. \A i \in 1 .. n + 1 : defs[i] = gateway <=> i = n + 1
  BY <1>3, <1>5, <1>6
<1>8. defs = spriteServiceDefinitions
  BY <1>1, <1>4 DEF spriteServiceDefinitions
<1> QED
  BY <1>1, <1>5, <1>7, <1>8

(* A sign-in moves on, and no Sprite loses what it had.                    *)
LEMMA SignInMoves ==
  ASSUME SpritesInv, NEW r \in SignIns, NEW to \in SignInState, signing' = [signing EXCEPT ![r] = to],
         NEW m \in Names, to.at # "idle" => to.user \in Users /\ spriteNameFor(to.user) = m,
         sprites' \in [Names -> Sprite],
         \A n \in Names : /\ sprites[n].booted => sprites'[n].booted
                          /\ sprites[n].services \subseteq sprites'[n].services
                          /\ SpriteGateway \in sprites'[n].services => Whole(sprites'[n]),
         to.at # "idle" => SeenTo(to.put, to.at, sprites'[m]),
         spriteRow' \in [Users -> [status : {"none", "error", "assigned"}, url : BOOLEAN]],
         \A u \in Users : spriteRow'[u].url => spriteRow[u].url \/ Served(u)',
         faults' \in 0 .. MaxFaults
  PROVE  SpritesInv'
<1>1. signing \in [SignIns -> SignInState] /\ sprites \in [Names -> Sprite]
  BY DEF SpritesInv, SignInTypeOK, SignInState, Sprite, All
<1>2. signing' \in [SignIns -> SignInState] /\ signing'[r] = to /\ \A q \in SignIns \ {r} : signing'[q] = signing[q]
  BY <1>1
<1>3. SignInTypeOK'
  BY <1>2 DEF SignInTypeOK, SignInState, Sprite, All
<1>4. ASSUME NEW n \in Names, Whole(sprites[n]) PROVE Whole(sprites'[n])
  <2>1. PICK had, has : had = sprites[n].services /\ has = sprites'[n].services
    OBVIOUS
  <2>2. had = All /\ had \subseteq has /\ has \subseteq All
    BY <1>4, <2>1 DEF Whole, Sprite
  <2>3. sprites'[n].booted
    BY <1>4 DEF Whole
  <2> QED
    BY <2>1, <2>2, <2>3 DEF Whole
<1>5. UrlsAreServed'
  <2> SUFFICES ASSUME NEW u \in Users, spriteRow'[u].url PROVE Served(u)'
    BY DEF UrlsAreServed
  <2>1. CASE spriteRow[u].url
    <3>1. PICK n \in Names : n = spriteNameFor(u)
      BY DEF Names
    <3>2. Whole(sprites[n])
      BY <2>1, <3>1 DEF SpritesInv, UrlsAreServed, Served, Whole, All
    <3>3. Whole(sprites'[n])
      BY <1>4, <3>2
    <3> QED
      BY <3>1, <3>3 DEF Served, Whole, All
  <2> QED
    BY <2>1
<1>6. ASSUME NEW q \in SignIns, signing'[q].at # "idle", NEW n \in Names, n = spriteNameFor(signing'[q].user)
      PROVE  signing'[q].user \in Users /\ SeenTo(signing'[q].put, signing'[q].at, sprites'[n])
  <2>1. CASE q = r
    <3>1. signing'[q] = to /\ n = m
      BY <1>2, <1>6, <2>1
    <3> QED
      BY <1>6, <3>1
  <2>2. CASE q # r
    <3>1. PICK c \in SignInState : c = signing[q] /\ c = signing'[q]
      BY <1>1, <1>2, <2>2
    <3>2. PICK put, at : put = c.put /\ at = c.at
      OBVIOUS
    <3>3. n = Mine(q) /\ c.at # "idle"
      BY <1>6, <3>1 DEF Mine
    <3>4. c.user \in Users /\ SeenTo(put, at, sprites[n])
      BY <3>1, <3>2, <3>3 DEF SpritesInv
    <3>5. SeenTo(put, at, sprites'[n])
      BY <1>4, <3>4 DEF SeenTo
    <3> QED
      BY <3>1, <3>2, <3>4, <3>5
  <2> QED
    BY <2>1, <2>2
<1>7. \A q \in SignIns : signing'[q].at # "idle" => signing'[q].user \in Users
  BY <1>2 DEF SpritesInv
<1> QED
  BY <1>3, <1>5, <1>6, <1>7 DEF SpritesInv, Mine

(* The Sprites are as they were, or one has a service more.                *)
Grown(n) ==
    /\ sprites[n].booted => sprites'[n].booted
    /\ sprites[n].services \subseteq sprites'[n].services
    /\ SpriteGateway \in sprites'[n].services => Whole(sprites'[n])

RowsGood ==
    /\ spriteRow' \in [Users -> [status : {"none", "error", "assigned"}, url : BOOLEAN]]
    /\ \A u \in Users : spriteRow'[u].url => spriteRow[u].url \/ Served(u)'

LEMMA UntouchedIsGood ==
  ASSUME SpritesInv
  PROVE  /\ UNCHANGED sprites => sprites' \in [Names -> Sprite] /\ \A n \in Names : Grown(n)
         /\ UNCHANGED spriteRow => RowsGood
BY DEF SpritesInv, SignInTypeOK, Grown, RowsGood, Sprite, All

LEMMA WhatIsSigning ==
  ASSUME SpritesInv, NEW r \in SignIns, signing[r].at # "idle"
  PROVE  /\ signing[r] \in SignInState /\ signing[r].user \in Users /\ Mine(r) \in Names
         /\ Mine(r) = spriteNameFor(signing[r].user)
         /\ SeenTo(signing[r].put, signing[r].at, sprites[Mine(r)])
         /\ sprites \in [Names -> Sprite] /\ sprites[Mine(r)] \in Sprite
         /\ SpriteGateway \in sprites[Mine(r)].services => Whole(sprites[Mine(r)])
         /\ faults \in 0 .. MaxFaults
<1>1. /\ signing[r] \in SignInState /\ signing[r].user \in Users /\ sprites \in [Names -> Sprite]
      /\ faults \in 0 .. MaxFaults
  BY DEF SpritesInv, SignInTypeOK, SignInState, Sprite, All
<1>2. PICK n \in Names : n = Mine(r)
  BY <1>1 DEF Names, Mine
<1>3. SeenTo(signing[r].put, signing[r].at, sprites[n])
  BY <1>2 DEF SpritesInv
<1> QED
  BY <1>1, <1>2, <1>3 DEF SpritesInv, Mine

LEMMA SignInSteps ==
  ASSUME SpritesInv, NEW r \in SignIns, signing[r].at # "idle",
         NEW at \in {"create", "list", "exec", "put", "save", "saveError"}, Steps(r, at),
         sprites' \in [Names -> Sprite], \A n \in Names : Grown(n),
         SeenTo(signing[r].put, at, sprites'[Mine(r)]), RowsGood, faults' \in 0 .. MaxFaults
  PROVE  SpritesInv'
<1>1. PICK was \in SignInState : was = signing[r]
  BY WhatIsSigning
<1>2. PICK to : to = [was EXCEPT !.at = at]
  OBVIOUS
<1>3. to \in SignInState /\ to.user = was.user /\ to.put = was.put /\ to.at = at
  BY <1>1, <1>2 DEF SignInState
<1>4. signing' = [signing EXCEPT ![r] = to]
  BY <1>1, <1>2 DEF Steps
<1>5. PICK m \in Names : m = Mine(r)
  BY WhatIsSigning
<1>6. to.user \in Users /\ spriteNameFor(to.user) = m
  <2>1. PICK u : u = to.user
    OBVIOUS
  <2>2. u = signing[r].user
    BY <1>1, <1>3, <2>1
  <2> QED
    BY <1>5, <2>1, <2>2, WhatIsSigning
<1>7. SeenTo(to.put, to.at, sprites'[m])
  <2>1. PICK put, stands : put = signing[r].put /\ stands = sprites'[m]
    OBVIOUS
  <2>2. SeenTo(put, at, stands) /\ to.put = put
    BY <1>1, <1>3, <1>5, <2>1
  <2> QED
    BY <1>3, <2>1, <2>2
<1> QED
  BY <1>3, <1>4, <1>6, <1>7, SignInMoves DEF Grown, RowsGood

LEMMA NoneIsSigning ==
  0 \in 0 .. Len(spriteServiceDefinitions) /\ NoSignIn \in SignInState /\ NoSignIn.at = "idle"
<1>1. 0 \in 0 .. Len(spriteServiceDefinitions)
  <2>1. PICK len \in Nat : len = Len(spriteServiceDefinitions)
    BY TheGatewayIsLast
  <2> QED
    BY <2>1
<1>2. PICK nobody : nobody = <<>>
  OBVIOUS
<1>3. PICK idle : idle = [user |-> nobody, at |-> "idle", put |-> 0]
  OBVIOUS
<1>4. PICK put : put = 0 .. Len(spriteServiceDefinitions)
  OBVIOUS
<1>5. idle \in [user : Users \cup {nobody}, put : put,
                at : {"idle", "get", "create", "list", "exec", "put", "save", "saveError"}]
  BY <1>1, <1>3, <1>4
<1> QED
  BY <1>1, <1>2, <1>3, <1>4, <1>5 DEF NoSignIn, SignInState

(* A call that threw leaves the rest to the catch.                         *)
LEMMA ThrowingKeeps ==
  ASSUME SpritesInv, NEW r \in SignIns, signing[r].at # "idle", Throws(r),
         sprites' \in [Names -> Sprite], \A n \in Names : Grown(n), RowsGood
  PROVE  SpritesInv'
<1>1. faults' \in 0 .. MaxFaults /\ Steps(r, "saveError")
  <2>1. faults \in 0 .. MaxFaults /\ MaxFaults \in Nat
    BY WhatIsSigning, SignInAssumption
  <2>2. faults < MaxFaults /\ faults' = faults + 1 /\ Steps(r, "saveError")
    BY DEF Throws
  <2> QED
    BY <2>1, <2>2
<1>2. SeenTo(signing[r].put, "saveError", sprites'[Mine(r)])
  BY DEF SeenTo
<1> QED
  BY <1>1, <1>2, SignInSteps

LEMMA EndingKeeps ==
  ASSUME SpritesInv, NEW r \in SignIns, Ends(r), UNCHANGED sprites, RowsGood, faults' \in 0 .. MaxFaults,
         signing[r].at # "idle"
  PROVE  SpritesInv'
<1>1. NoSignIn \in SignInState /\ NoSignIn.at = "idle"
  BY NoneIsSigning
<1>2. signing' = [signing EXCEPT ![r] = NoSignIn]
  BY DEF Ends
<1> QED
  BY <1>1, <1>2, SignInMoves, UntouchedIsGood, WhatIsSigning DEF Grown, RowsGood

LEMMA AskingKeeps ==
  ASSUME SpritesInv, NEW r \in SignIns, SignsIn(r) \/ GetSprite(r) \/ ListServices(r)
  PROVE  SpritesInv'
<1>1. UNCHANGED <<sprites, spriteRow>>
  BY DEF SignsIn, GetSprite, ListServices
<1>2. CASE SignsIn(r)
  <2>1. PICK u \in Users : signing' = [signing EXCEPT ![r] = [user |-> u, at |-> "get", put |-> 0]]
    BY <1>2 DEF SignsIn
  <2>2. PICK to : to = [user |-> u, at |-> "get", put |-> 0]
    OBVIOUS
  <2>3. to \in SignInState /\ to.at = "get" /\ to.put = 0 /\ to.user = u
    BY <2>2, NoneIsSigning DEF SignInState
  <2>4. PICK m \in Names : m = spriteNameFor(u)
    BY DEF Names
  <2>5. SeenTo(to.put, to.at, sprites'[m])
    BY <2>3 DEF SeenTo
  <2>6. spriteNameFor(to.user) = m
    BY <2>3, <2>4
  <2>7. faults' \in 0 .. MaxFaults
    BY <1>2 DEF SignsIn, SpritesInv, SignInTypeOK
  <2> QED
    BY <1>1, <2>1, <2>2, <2>3, <2>5, <2>6, <2>7, UntouchedIsGood, SignInMoves DEF Grown, RowsGood
<1>3. CASE GetSprite(r) \/ ListServices(r)
  <2>1. signing[r].at \in {"get", "list"}
    BY <1>3 DEF GetSprite, ListServices
  <2>2. CASE Throws(r)
    BY <1>1, <2>1, <2>2, ThrowingKeeps, UntouchedIsGood
  <2>3. CASE ~Throws(r)
    <3>1. PICK at \in {"create", "list", "exec", "save"} :
             /\ Steps(r, at) /\ UNCHANGED faults
             /\ at = "save" => SpriteGateway \in sprites[Mine(r)].services
      BY <1>3, <2>3 DEF GetSprite, ListServices, ensureSprite, Proceeds
    <3>2. SeenTo(signing[r].put, at, sprites'[Mine(r)])
      <4>1. PICK put, now : put = signing[r].put /\ now = sprites[Mine(r)]
        OBVIOUS
      <4>2. SeenTo(put, signing[r].at, now) /\ (at = "save" => Whole(now))
        BY <2>1, <3>1, <4>1, WhatIsSigning
      <4>3. put = 0
        BY <2>1, <4>2 DEF SeenTo
      <4>4. SeenTo(put, at, now)
        BY <3>1, <4>2, <4>3 DEF SeenTo
      <4> QED
        BY <1>1, <4>1, <4>4
    <3> QED
      BY <1>1, <2>1, <3>1, <3>2, SignInSteps, UntouchedIsGood, WhatIsSigning
  <2> QED
    BY <2>2, <2>3
<1> QED
  BY <1>2, <1>3

(* One Sprite changes and loses nothing, its gateway comes when all is there. *)
LEMMA GrowingOne ==
  ASSUME SpritesInv, NEW m \in Names, NEW grown \in Sprite, sprites' = [sprites EXCEPT ![m] = grown],
         sprites[m].booted => grown.booted,
         sprites[m].services \subseteq grown.services,
         SpriteGateway \in grown.services => SpriteGateway \in sprites[m].services \/ Whole(grown)
  PROVE  sprites' \in [Names -> Sprite] /\ \A n \in Names : Grown(n)
<1>1. sprites \in [Names -> Sprite]
  BY DEF SpritesInv, SignInTypeOK, Sprite, All
<1>2. sprites' \in [Names -> Sprite] /\ sprites'[m] = grown
  BY <1>1
<1>3. ASSUME SpriteGateway \in sprites[m].services PROVE Whole(grown)
  <2>1. PICK had, has : had = sprites[m].services /\ has = grown.services
    OBVIOUS
  <2>2. had = All /\ sprites[m].booted
    BY <1>3, <2>1 DEF SpritesInv, Whole
  <2>3. has \subseteq All /\ had \subseteq has
    BY <2>1 DEF Sprite
  <2>4. has = All
    BY <2>2, <2>3
  <2> QED
    BY <2>1, <2>2, <2>4 DEF Whole
<1>4. Grown(m)
  BY <1>2, <1>3 DEF Grown
<1>5. ASSUME NEW n \in Names, n # m PROVE Grown(n)
  <2>1. sprites'[n] = sprites[n]
    BY <1>1, <1>5
  <2> QED
    BY <2>1 DEF Grown, SpritesInv
<1> QED
  BY <1>2, <1>4, <1>5

LEMMA SignInShape ==
  ASSUME NEW r, NEW f, NEW at, NEW put, NEW was, was = f[r]
  PROVE  [f EXCEPT ![r].at = at, ![r].put = put] = [f EXCEPT ![r] = [was EXCEPT !.at = at, !.put = put]]
OBVIOUS

LEMMA CreatingKeeps ==
  ASSUME SpritesInv, NEW r \in SignIns, CreateSprite(r)
  PROVE  SpritesInv'
<1>1. signing[r].at = "create" /\ UNCHANGED spriteRow
  BY DEF CreateSprite
<1>2. CASE UNCHANGED sprites /\ Throws(r)
  BY <1>1, <1>2, ThrowingKeeps, UntouchedIsGood
<1>3. CASE UNCHANGED sprites /\ Proceeds(r, "saveError")
  <2>1. SeenTo(signing[r].put, "saveError", sprites'[Mine(r)])
    BY DEF SeenTo
  <2> QED
    BY <1>1, <1>3, <2>1, SignInSteps, UntouchedIsGood, WhatIsSigning DEF Proceeds
<1>4. CASE /\ sprites' = [sprites EXCEPT ![Mine(r)].made = TRUE]
           /\ Proceeds(r, "list") \/ Throws(r)
  <2>1. PICK m \in Names : m = Mine(r)
    BY <1>1, WhatIsSigning
  <2>2. PICK now \in Sprite : now = sprites[m]
    BY <1>1, <2>1, WhatIsSigning
  <2>3. PICK made : made = [now EXCEPT !.made = TRUE]
    OBVIOUS
  <2>4. made \in Sprite /\ made.booted = now.booted /\ made.services = now.services
    BY <2>2, <2>3 DEF Sprite
  <2>5. sprites' = [sprites EXCEPT ![m] = made]
    BY <1>4, <2>1, <2>2, <2>3
  <2>6. sprites' \in [Names -> Sprite] /\ \A n \in Names : Grown(n)
    BY <1>1, <2>1, <2>2, <2>4, <2>5, GrowingOne
  <2>7. SeenTo(signing[r].put, "list", sprites'[Mine(r)])
    BY <1>1, WhatIsSigning DEF SeenTo
  <2>8. CASE Proceeds(r, "list")
    BY <1>1, <2>6, <2>7, <2>8, SignInSteps, UntouchedIsGood, WhatIsSigning DEF Proceeds
  <2>9. CASE Throws(r)
    BY <1>1, <2>6, <2>9, ThrowingKeeps, UntouchedIsGood
  <2> QED
    BY <1>4, <2>8, <2>9
<1> QED
  BY <1>2, <1>3, <1>4 DEF CreateSprite

LEMMA BootstrappingKeeps ==
  ASSUME SpritesInv, NEW r \in SignIns, Bootstrap(r)
  PROVE  SpritesInv'
<1>1. signing[r].at = "exec" /\ UNCHANGED spriteRow
  BY DEF Bootstrap
<1>2. CASE UNCHANGED sprites /\ Throws(r)
  BY <1>1, <1>2, ThrowingKeeps, UntouchedIsGood
<1>3. CASE /\ sprites' = [sprites EXCEPT ![Mine(r)].booted = TRUE]
           /\ Proceeds(r, "put") \/ Throws(r)
  <2>1. PICK m \in Names : m = Mine(r)
    BY <1>1, WhatIsSigning
  <2>2. PICK now \in Sprite : now = sprites[m]
    BY <1>1, <2>1, WhatIsSigning
  <2>3. PICK booted : booted = [now EXCEPT !.booted = TRUE]
    OBVIOUS
  <2>4. booted \in Sprite /\ booted.booted /\ booted.services = now.services
    BY <2>2, <2>3 DEF Sprite
  <2>5. sprites' = [sprites EXCEPT ![m] = booted]
    BY <1>3, <2>1, <2>2, <2>3
  <2>6. sprites' \in [Names -> Sprite] /\ \A n \in Names : Grown(n)
    BY <1>1, <2>1, <2>2, <2>4, <2>5, GrowingOne
  <2>7. SeenTo(signing[r].put, "put", sprites'[Mine(r)])
    <3>1. PICK put : put = signing[r].put
      OBVIOUS
    <3>2. put = 0
      BY <1>1, <3>1, WhatIsSigning DEF SeenTo
    <3>3. sprites'[m] = booted
      BY <1>1, <2>1, <2>4, <2>5, WhatIsSigning
    <3>4. SeenTo(put, "put", booted)
      <4>1. PICK len \in Nat \ {0} : len = Len(spriteServiceDefinitions)
        BY TheGatewayIsLast
      <4> QED
        BY <2>4, <3>2, <4>1 DEF SeenTo
    <3> QED
      BY <2>1, <3>1, <3>3, <3>4
  <2>8. CASE Proceeds(r, "put")
    BY <1>1, <2>6, <2>7, <2>8, SignInSteps, UntouchedIsGood, WhatIsSigning DEF Proceeds
  <2>9. CASE Throws(r)
    BY <1>1, <2>6, <2>9, ThrowingKeeps, UntouchedIsGood
  <2> QED
    BY <1>3, <2>8, <2>9
<1> QED
  BY <1>2, <1>3 DEF Bootstrap

LEMMA PuttingKeeps ==
  ASSUME SpritesInv, NEW r \in SignIns, PutService(r)
  PROVE  SpritesInv'
<1>1. signing[r].at = "put" /\ UNCHANGED spriteRow
  BY DEF PutService
<1>2. CASE UNCHANGED sprites /\ Throws(r)
  BY <1>1, <1>2, ThrowingKeeps, UntouchedIsGood
<1>3. CASE ~(UNCHANGED sprites /\ Throws(r))
  <2>1. PICK m \in Names : m = Mine(r)
    BY <1>1, WhatIsSigning
  <2>2. PICK now \in Sprite : now = sprites[m]
    BY <1>1, <2>1, WhatIsSigning
  <2>3. PICK put : put = signing[r].put
    OBVIOUS
  <2>4. PICK last \in Nat \ {0} : last = Len(spriteServiceDefinitions)
    BY TheGatewayIsLast
  <2>5. put \in 0 .. last
    BY <1>1, <2>3, <2>4, WhatIsSigning DEF SignInState
  <2>6. /\ now.booted /\ put < last
        /\ \A i \in 1 .. put : spriteServiceDefinitions[i] \in now.services
    <3>1. SeenTo(put, "put", now)
      BY <1>1, <2>1, <2>2, <2>3, WhatIsSigning
    <3> QED
      BY <2>4, <3>1 DEF SeenTo
  <2>7. PICK next \in 1 .. last : next = put + 1
    BY <2>5, <2>6
  <2>8. PICK service : service = spriteServiceDefinitions[next]
    OBVIOUS
  <2>9. PICK more : more = [now EXCEPT !.services = @ \cup {service}]
    OBVIOUS
  <2>10. service \in All
    BY <2>4, <2>7, <2>8, TheGatewayIsLast DEF All, ToSet
  <2>11. more \in Sprite /\ more.booted /\ more.services = now.services \cup {service}
    BY <2>2, <2>6, <2>9, <2>10 DEF Sprite
  <2>12. \A i \in 1 .. next : spriteServiceDefinitions[i] \in more.services
    BY <2>5, <2>6, <2>7, <2>8, <2>11
  <2>13. next = last => Whole(more)
    <3>1. All = {spriteServiceDefinitions[i] : i \in 1 .. last}
      BY <2>4, TheGatewayIsLast DEF All, ToSet
    <3> QED
      BY <2>11, <2>12, <3>1 DEF Sprite, Whole
  <2>14. service = SpriteGateway <=> next = last
    BY <2>4, <2>7, <2>8, TheGatewayIsLast
  <2>15. sprites' = [sprites EXCEPT ![m] = more]
    BY <1>3, <2>1, <2>2, <2>3, <2>7, <2>8, <2>9 DEF PutService
  <2>16. sprites' \in [Names -> Sprite] /\ \A n \in Names : Grown(n)
    BY <2>2, <2>6, <2>11, <2>13, <2>14, <2>15, GrowingOne
  <2>17. CASE Throws(r)
    BY <1>1, <2>16, <2>17, ThrowingKeeps, UntouchedIsGood
  <2>18. CASE ~Throws(r)
    <3>1. PICK was \in SignInState : was = signing[r]
      BY <1>1, WhatIsSigning
    <3>2. PICK at \in {"save", "put"} : at = IF next = last THEN "save" ELSE "put"
      OBVIOUS
    <3>3. PICK to : to = [was EXCEPT !.at = at, !.put = next]
      OBVIOUS
    <3>4. to \in SignInState /\ to.user = was.user /\ to.put = next /\ to.at = at
      <4>1. PICK users, puts : users = Users \cup {<<>>} /\ puts = 0 .. last
        OBVIOUS
      <4>2. next \in puts
        BY <2>7, <4>1
      <4>3. SignInState = [user : users, put : puts,
                  at : {"idle", "get", "create", "list", "exec", "put", "save", "saveError"}]
        BY <2>4, <4>1 DEF SignInState
      <4> QED
        BY <3>1, <3>2, <3>3, <4>2, <4>3
    <3>5. signing' = [signing EXCEPT ![r].at = at, ![r].put = next] /\ UNCHANGED faults
      BY <1>3, <2>3, <2>4, <2>7, <2>18, <3>2 DEF PutService
    <3>6. signing' = [signing EXCEPT ![r] = to]
      BY <3>1, <3>3, <3>5, SignInShape
    <3>7. to.user \in Users /\ spriteNameFor(to.user) = m
      <4>1. PICK u : u = to.user
        OBVIOUS
      <4>2. u = signing[r].user
        BY <3>1, <3>4, <4>1
      <4> QED
        BY <1>1, <2>1, <4>1, <4>2, WhatIsSigning
    <3>8. SeenTo(to.put, to.at, sprites'[m])
      <4>1. sprites'[m] = more
        BY <1>1, <2>15, <2>16, WhatIsSigning
      <4>2. SeenTo(next, at, more)
        BY <2>4, <2>7, <2>11, <2>12, <2>13, <3>2 DEF SeenTo
      <4> QED
        BY <3>4, <4>1, <4>2
    <3>9. faults' \in 0 .. MaxFaults
      BY <1>1, <3>5, WhatIsSigning
    <3> QED
      BY <1>1, <2>16, <3>4, <3>6, <3>7, <3>8, <3>9, SignInMoves, UntouchedIsGood DEF Grown, RowsGood
  <2> QED
    BY <2>17, <2>18
<1> QED
  BY <1>2, <1>3

(* The row is saved: an assigned one by a sign-in whose Sprite is whole.   *)
LEMMA SavingIsGood ==
  ASSUME SpritesInv, NEW r \in SignIns, signing[r].at # "idle", UNCHANGED sprites,
         NEW status \in {"error", "assigned"}, Saves(r, status),
         status = "assigned" => signing[r].at = "save"
  PROVE  RowsGood
<1>1. PICK u \in Users : u = signing[r].user
  BY WhatIsSigning
<1>2. PICK rows : rows = [status : {"none", "error", "assigned"}, url : BOOLEAN]
  OBVIOUS
<1>3. spriteRow \in [Users -> rows]
  BY <1>2 DEF SpritesInv, SignInTypeOK
<1>4. PICK was \in rows : was = spriteRow[u]
  BY <1>3
<1>5. PICK to : to = [status |-> status, url |-> was.url \/ status = "assigned"]
  OBVIOUS
<1>6. to \in rows /\ (to.url => was.url \/ status = "assigned")
  BY <1>2, <1>4, <1>5
<1>7. spriteRow' = [spriteRow EXCEPT ![u] = to]
  BY <1>1, <1>3, <1>4, <1>5 DEF Saves
<1>8. spriteRow' \in [Users -> rows] /\ spriteRow'[u] = to /\ \A v \in Users \ {u} : spriteRow'[v] = spriteRow[v]
  BY <1>3, <1>6, <1>7
<1>9. ASSUME status = "assigned" PROVE Served(u)'
  <2>1. PICK n \in Names : n = spriteNameFor(u)
    BY DEF Names
  <2>2. PICK put : put = signing[r].put
    OBVIOUS
  <2>3. SeenTo(put, "save", sprites[n])
    BY <1>1, <1>9, <2>1, <2>2, WhatIsSigning
  <2>4. Whole(sprites[n])
    BY <2>3 DEF SeenTo
  <2> QED
    BY <2>1, <2>4 DEF Served, Whole, All
<1>10. \A v \in Users : spriteRow'[v].url => spriteRow[v].url \/ Served(v)'
  BY <1>4, <1>6, <1>8, <1>9
<1> QED
  BY <1>2, <1>8, <1>10 DEF RowsGood

LEMMA SavingKeeps ==
  ASSUME SpritesInv, NEW r \in SignIns, Save(r) \/ SaveError(r)
  PROVE  SpritesInv'
<1>1. signing[r].at \in {"save", "saveError"} /\ UNCHANGED sprites
  BY DEF Save, SaveError
<1>2. RowsGood
  <2>1. CASE UNCHANGED spriteRow
    BY <2>1, UntouchedIsGood
  <2>2. CASE Saves(r, "assigned") /\ signing[r].at = "save"
    BY <1>1, <2>2, SavingIsGood
  <2>3. CASE Saves(r, "error")
    BY <1>1, <2>3, SavingIsGood
  <2> QED
    BY <2>1, <2>2, <2>3 DEF Save, SaveError
<1>3. faults' \in 0 .. MaxFaults
  <2>1. faults \in 0 .. MaxFaults /\ MaxFaults \in Nat
    BY <1>1, WhatIsSigning, SignInAssumption
  <2>2. faults' = faults \/ (faults < MaxFaults /\ faults' = faults + 1)
    BY DEF Save, SaveError, Throws
  <2> QED
    BY <2>1, <2>2
<1>4. CASE Ends(r)
  BY <1>1, <1>2, <1>3, <1>4, EndingKeeps
<1>5. CASE Throws(r)
  BY <1>1, <1>2, <1>5, ThrowingKeeps, UntouchedIsGood
<1> QED
  BY <1>4, <1>5 DEF Save, SaveError

LEMMA StoppingKeeps ==
  ASSUME SpritesInv, ServerStops
  PROVE  SpritesInv'
<1>1. faults' \in 0 .. MaxFaults
  <2>1. faults \in 0 .. MaxFaults /\ MaxFaults \in Nat
    BY SignInAssumption DEF SpritesInv, SignInTypeOK
  <2>2. faults < MaxFaults /\ faults' = faults + 1
    BY DEF ServerStops
  <2> QED
    BY <2>1, <2>2
<1>2. signing' \in [SignIns -> SignInState] /\ \A r \in SignIns : signing'[r].at = "idle"
  BY NoneIsSigning DEF ServerStops
<1>3. UNCHANGED <<sprites, spriteRow>>
  BY DEF ServerStops
<1>4. SignInTypeOK'
  BY <1>1, <1>2, <1>3 DEF SpritesInv, SignInTypeOK, SignInState
<1>5. UrlsAreServed' /\ \A n \in Names : SpriteGateway \in sprites'[n].services => Whole(sprites'[n])
  BY <1>3 DEF SpritesInv, UrlsAreServed, Served
<1> QED
  BY <1>2, <1>4, <1>5 DEF SpritesInv

LEMMA SpritesInvInit == SignInInit => SpritesInv
<1> SUFFICES ASSUME SignInInit PROVE SpritesInv
  OBVIOUS
<1>1. NoSprite \in Sprite /\ NoSprite.services = {}
  BY DEF NoSprite, Sprite
<1>2. sprites \in [Names -> Sprite] /\ \A n \in Names : sprites[n].services = {}
  BY <1>1 DEF SignInInit
<1>3. faults \in 0 .. MaxFaults
  <2>1. MaxFaults \in Nat
    BY SignInAssumption
  <2> QED
    BY <2>1 DEF SignInInit
<1>4. signing \in [SignIns -> SignInState] /\ \A r \in SignIns : signing[r].at = "idle"
  BY NoneIsSigning DEF SignInInit
<1>5. SignInTypeOK
  BY <1>2, <1>3, <1>4 DEF SignInInit, SignInTypeOK, SignInState, Sprite, All
<1>6. UrlsAreServed
  BY DEF SignInInit, UrlsAreServed
<1> QED
  BY <1>2, <1>4, <1>5, <1>6 DEF SpritesInv

LEMMA SpritesInvNext == SpritesInv /\ [SignInNext]_signInVars => SpritesInv'
<1> SUFFICES ASSUME SpritesInv, [SignInNext]_signInVars PROVE SpritesInv'
  OBVIOUS
<1>1. CASE ServerStops
  BY <1>1, StoppingKeeps
<1>2. ASSUME NEW r \in SignIns, SignsIn(r) \/ Provisions(r) PROVE SpritesInv'
  BY <1>2, AskingKeeps, CreatingKeeps, BootstrappingKeeps, PuttingKeeps, SavingKeeps DEF Provisions
<1>3. CASE UNCHANGED signInVars
  BY <1>3 DEF signInVars, SpritesInv, SignInTypeOK, UrlsAreServed, Served, SeenTo, Mine
<1> QED
  BY <1>1, <1>2, <1>3 DEF SignInNext

LEMMA SpritesInvariant == MCSpec => []SpritesInv
<1>1. MCInit => SpritesInv
  BY SpritesInvInit DEF MCInit
<1>2. SpritesInv /\ [MCNext]_machineVars => SpritesInv'
  <2> SUFFICES ASSUME SpritesInv, [MCNext]_machineVars PROVE SpritesInv'
    OBVIOUS
  <2>1. [SignInNext]_signInVars
    BY DEF MCNext, machineVars
  <2> QED
    BY <2>1, SpritesInvNext
<1> QED
  BY <1>1, <1>2, PTL DEF MCSpec

(* The browser's maps, the browsers and the calls, and the Sprites, their  *)
(* rows and the sign-ins, are always of their types (MachinesTypeOK).      *)
THEOREM MachinesTypeCorrect == MCSpec => []MachinesTypeOK
<1>1. PagesInv /\ SpritesInv => MachinesTypeOK
  BY DEF PagesInv, SpritesInv, MachinesTypeOK
<1> QED
  BY <1>1, PagesInvariant, SpritesInvariant, PTL

(* Whatever call fails and whenever the server stops, a user whose row has *)
(* a url has a Sprite with its gateway and every product behind it: the    *)
(* gateway is put last, so a Sprite that lists it is whole (ensureServices,*)
(* the safety half of SpritesAreServed).                                   *)
THEOREM UrlsStayServed == MCSpec => []UrlsAreServed
<1>1. SpritesInv => UrlsAreServed
  BY DEF SpritesInv
<1> QED
  BY <1>1, SpritesInvariant, PTL

=============================================================================
