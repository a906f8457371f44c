----------------------------- MODULE Supervisor -----------------------------
(***************************************************************************)
(* One Bot's container and profile volume, as the supervisor's ensure,     *)
(* stop and reset leave them (supervisor/src/docker.ts).  Every call to    *)
(* the Docker daemon is an await, so requests for one Bot interleave       *)
(* between them; the daemon itself is external and answers each call       *)
(* atomically, or fails.  Names are derived from the Bot, so Bots share    *)
(* nothing and one is enough.                                              *)
(*                                                                         *)
(* Left out: the workspace volume, which nothing removes, the identity     *)
(* entry, which no answer depends on, a container that Docker restarts of  *)
(* its own accord, and what the computer inside does until its health      *)
(* check passes: that wait ends by its deadline anyway.                    *)
(***************************************************************************)
EXTENDS Naturals

CONSTANTS
    Requests,     \* requests for this Bot under way at once
    Ports         \* host ports Docker may publish a started container on

ASSUME SupervisorAssumption == Ports \subseteq Nat \ {0}

ATTEMPTS == 2

VARIABLES
    container,    \* the container of this Bot's name
    profile,      \* its profile volume
    call          \* every request: its await and what it has read

vars == <<container, profile, call>>

NoPort == 0

\* ours: it carries the supervisor's label.
Container == [status : {"absent", "created", "running", "exited"},
              ours : BOOLEAN, port : Ports \cup {NoPort}]
NoContainer == [status |-> "absent", ours |-> FALSE, port |-> NoPort]

Volume == {"absent", "present"}

Verbs == {"none", "ensure", "stop", "reset"}
Awaits == {"idle", "inspect", "volumes", "create", "start", "settle", "answer",
           "lost", "stop", "remove", "removeVolume", "gone"}

\* What inspectOwned answers: the status and port, or nothing.
Seen == [status : {"unknown", "created", "running", "exited"}, port : Ports \cup {NoPort}]
Nothing == [status |-> "unknown", port |-> NoPort]

CallState == [verb : Verbs, at : Awaits, attempt : 0 .. ATTEMPTS, settled : Seen]
Idle == [verb |-> "none", at |-> "idle", attempt |-> 0, settled |-> Nothing]

Init ==
    /\ container = NoContainer
    /\ profile = "absent"
    /\ call = [r \in Requests |-> Idle]

-----------------------------------------------------------------------------
At(r, verb, await) == call[r].verb = verb /\ call[r].at = await
Goes(r, await) == call' = [call EXCEPT ![r] = [@ EXCEPT !.at = await]]
Answers(r) == call' = [call EXCEPT ![r] = Idle]

\* Mutant: any container of that name is taken for ours.
IsOursUnlabelled == container.status # "absent"
IsOurs == container.status # "absent" /\ container.ours

inspectOwned == IF IsOurs THEN [status |-> container.status, port |-> container.port]
                ELSE Nothing

Receive(r, verb) ==
    /\ call[r] = Idle
    /\ call' = [call EXCEPT ![r] =
                  [verb |-> verb, at |-> "inspect", settled |-> Nothing,
                   attempt |-> IF verb = "ensure" THEN ATTEMPTS ELSE 0]]
    /\ UNCHANGED <<container, profile>>

\* Docker fails, or cannot be reached: DockerUnavailableError, and a 503.
DockerFails(r) ==
    /\ call[r].at \notin {"idle", "answer", "lost", "gone"}
    /\ Answers(r)
    /\ UNCHANGED <<container, profile>>

-----------------------------------------------------------------------------
(* ensure                                                                  *)

\* An owned container is started if stopped, and otherwise left as it is.
Inspect(r) ==
    /\ At(r, "ensure", "inspect")
    /\ Goes(r, IF inspectOwned = Nothing THEN "volumes"
               ELSE IF inspectOwned.status = "running" THEN "settle" ELSE "start")
    /\ UNCHANGED <<container, profile>>

\* A volume that exists is success.
CreateVolumes(r) ==
    /\ At(r, "ensure", "volumes")
    /\ profile' = "present"
    /\ Goes(r, "create")
    /\ UNCHANGED container

\* Docker makes a bound volume that is missing.
CreateContainer(r) ==
    /\ At(r, "ensure", "create") /\ container.status = "absent"
    /\ container' = [status |-> "created", ours |-> TRUE, port |-> NoPort]
    /\ profile' = "present"
    /\ Goes(r, "start")

\* Mutant: losing the race to create is an error.
AfterConflictLost == "lost"
AfterConflict == "start"

\* 409: the name is taken, by another request's container or by a stranger's.
CreateConflicts(r) ==
    /\ At(r, "ensure", "create") /\ container.status # "absent"
    /\ Goes(r, AfterConflict)
    /\ UNCHANGED <<container, profile>>

\* 304 when it is running already.  A stranger's has storage and ports of its
\* own, which nobody here reads.
Start(r) ==
    /\ At(r, "ensure", "start") /\ container.status # "absent"
    /\ IF container.status = "running" THEN UNCHANGED container
       ELSE \E p \in IF container.ours THEN Ports ELSE {NoPort} :
              container' = [container EXCEPT !.status = "running", !.port = p]
    /\ Goes(r, "settle")
    /\ UNCHANGED profile

MayRetry(n) == n > 1

\* Mutant: the loop forgets to count.
AttemptsLeftUncounted(n) == n
AttemptsLeft(n) == n - 1

\* 404: gone since it was created, so it is built again, once.
StartFindsNone(r) ==
    /\ At(r, "ensure", "start") /\ container.status = "absent"
    /\ IF MayRetry(call[r].attempt)
       THEN call' = [call EXCEPT ![r] =
                [@ EXCEPT !.at = "inspect", !.attempt = AttemptsLeft(call[r].attempt)]]
       ELSE Goes(r, "lost")
    /\ UNCHANGED <<container, profile>>

\* What is answered is read before waiting for the computer inside.
Settle(r) ==
    /\ At(r, "ensure", "settle")
    /\ call' = [call EXCEPT ![r] = [@ EXCEPT !.at = "answer", !.settled = inspectOwned]]
    /\ UNCHANGED <<container, profile>>

-----------------------------------------------------------------------------
(* stop and reset: an unlabelled container is treated as absent.           *)

Look(r, verb, await) ==
    /\ At(r, verb, "inspect")
    /\ IF inspectOwned = Nothing THEN Answers(r) ELSE Goes(r, await)
    /\ UNCHANGED <<container, profile>>

\* 304 and 404 are success.
Stop(r) ==
    /\ At(r, "stop", "stop")
    /\ container' = IF container.status = "running"
                    THEN [container EXCEPT !.status = "exited", !.port = NoPort]
                    ELSE container
    /\ Answers(r)
    /\ UNCHANGED profile

AfterRemove == "removeVolume"

\* force: running or not.  404 is success.
RemoveContainer(r) ==
    /\ At(r, "reset", "remove")
    /\ container' = NoContainer
    /\ Goes(r, AfterRemove)
    /\ UNCHANGED profile

\* 404 and 409, still in use, are success.
RemoveVolume(r) ==
    /\ At(r, "reset", "removeVolume")
    /\ profile' = IF container.status # "absent" /\ container.ours THEN profile ELSE "absent"
    /\ Goes(r, "gone")
    /\ UNCHANGED container

\* The route answers with what it has.
Reply(r) ==
    /\ call[r].at \in {"answer", "lost", "gone"}
    /\ Answers(r)
    /\ UNCHANGED <<container, profile>>

-----------------------------------------------------------------------------
\* Somebody else makes a container of that name, before the Bot has one or
\* between any two awaits.  It does not go again of its own accord.
StrangerArrives ==
    /\ container.status = "absent"
    /\ \E status \in {"created", "running"} :
          container' = [status |-> status, ours |-> FALSE, port |-> NoPort]
    /\ UNCHANGED <<profile, call>>

Ensure(r) == Inspect(r) \/ CreateVolumes(r) \/ CreateContainer(r) \/ CreateConflicts(r)
             \/ Start(r) \/ StartFindsNone(r) \/ Settle(r)

Reset(r) == Look(r, "reset", "remove") \/ RemoveContainer(r) \/ RemoveVolume(r)

Continue(r) == Ensure(r) \/ Look(r, "stop", "stop") \/ Stop(r) \/ Reset(r)
               \/ DockerFails(r) \/ Reply(r)

Next ==
    \/ \E r \in Requests :
          \/ \E verb \in Verbs \ {"none"} : Receive(r, verb)
          \/ Continue(r)
    \/ StrangerArrives

Spec == Init /\ [][Next]_vars

\* Docker answers or is given up on, and the wait for health has a deadline.
Fairness == \A r \in Requests : WF_vars(Continue(r))

-----------------------------------------------------------------------------
(* Types of the container, the volume and the requests.                    *)
TypeOK ==
    /\ container \in Container
    /\ profile \in Volume
    /\ call \in [Requests -> CallState]

\* A container of that name which lacks the label.
Stranger == container.status # "absent" /\ ~container.ours

(* Every request is answered: the retry of ensure ends even when resets    *)
(* keep taking its container away (the comment on ATTEMPTS).               *)
EveryRequestAnswered == \A r \in Requests : []<>(call[r].at = "idle")
=============================================================================
