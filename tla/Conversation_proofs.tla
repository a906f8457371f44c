------------------------- MODULE Conversation_proofs --------------------------
(* Proofs about a conversation, for any number of streams, messages, turns *)
(* and sockets: the stall guard and the queue of the composer, the events  *)
(* of a run, the roster, the live screen, and the types of them all.       *)
EXTENDS MC_Conversation, Sequence_lemmas, TLAPS

-----------------------------------------------------------------------------
(* The stall guard over the Bot's streams.                                 *)

(* A stream that was never opened, and one that was released, keep no      *)
(* clock.                                                                  *)
Untouched ==
    /\ \A s \in Streams : body[s] = "none" <=> pump[s] = "none"
    /\ \A s \in Streams : s \notin watched => age[s] = 0

IInv == TypeOK /\ MapsAgree /\ Untouched

(* The invariant holds at first.                                           *)
LEMMA InitIInv == Init => IInv
<1> SUFFICES ASSUME Init PROVE IInv
  OBVIOUS
<1>1. age \in [Streams -> 0 .. StallMs]
  <2>1. 0 \in 0 .. StallMs
    BY StallAssumption
  <2> QED
    BY <2>1 DEF Init
<1>2. TypeOK
  BY <1>1 DEF Init, TypeOK
<1>3. MapsAgree /\ Untouched
  BY DEF Init, MapsAgree, Untouched
<1> QED
  BY <1>2, <1>3 DEF IInv

(* Opening a stream keeps the invariant.                                   *)
LEMMA WatchKeeps ==
  ASSUME IInv, NEW s \in Streams, Watch(s)
  PROVE  IInv'
<1>1. s \notin streams /\ s \notin paused
  BY DEF IInv, TypeOK, MapsAgree, Untouched, Watch
<1>2. TypeOK'
  BY StallAssumption DEF IInv, TypeOK, Watch
<1>3. MapsAgree'
  BY <1>1 DEF IInv, TypeOK, MapsAgree, Watch
<1>4. Untouched'
  BY DEF IInv, TypeOK, Untouched, Watch
<1> QED
  BY <1>2, <1>3, <1>4 DEF IInv

(* A chunk, and its delivery, keep the invariant.                          *)
LEMMA HandoverKeeps ==
  ASSUME IInv, NEW s \in Streams, Chunk(s) \/ Delivered(s)
  PROVE  IInv'
<1>1. TypeOK'
  BY StallAssumption DEF IInv, TypeOK, Chunk, Delivered, RecordAndPause, resume, Restarted
<1>2. MapsAgree'
  BY DEF IInv, TypeOK, MapsAgree, Chunk, Delivered, RecordAndPause, resume
<1>3. Untouched'
  BY DEF IInv, TypeOK, Untouched, Chunk, Delivered, RecordAndPause, resume, Restarted
<1> QED
  BY <1>1, <1>2, <1>3 DEF IInv

(* The end of a pump keeps the invariant.                                  *)
LEMMA ReturnKeeps ==
  ASSUME IInv, NEW s \in Streams, EndOfBody(s) \/ Throws(s)
  PROVE  IInv'
<1>1. PICK v \in {"closed", "aborted"} : Returns(s, v)
  BY DEF EndOfBody, Throws
<1>2. UNCHANGED <<body, sse, gone, sweeper>> /\ body[s] # "none"
  BY DEF EndOfBody, Throws, IInv, Untouched
<1>3. TypeOK'
  BY <1>1, <1>2, StallAssumption DEF IInv, TypeOK, Returns, Released
<1>4. MapsAgree'
  BY <1>1, <1>2 DEF IInv, TypeOK, MapsAgree, Returns, Released
<1>5. Untouched'
  BY <1>1, <1>2 DEF IInv, TypeOK, Untouched, Returns, Released
<1> QED
  BY <1>3, <1>4, <1>5 DEF IInv

(* A sweep keeps the invariant.                                            *)
LEMMA SweepKeeps ==
  ASSUME IInv, Sweep
  PROVE  IInv'
<1>1. Released(Due) /\ UNCHANGED <<sse, gone, pump>>
  BY DEF Sweep
<1>2. Due \subseteq streams
  BY DEF Due, IInv, MapsAgree
<1>3. body' = [s \in Streams |-> IF s \in Due THEN "cancelled" ELSE body[s]]
  BY <1>2 DEF Sweep
<1>4. relay' \in [Streams -> {"none", "closed", "aborted", "told"}]
  BY DEF Sweep, IInv, TypeOK
<1>5. sweeper' \in BOOLEAN
  BY DEF Sweep, StillArmed
<1> HIDE DEF Due
<1>6. TypeOK'
  BY <1>1, <1>3, <1>4, <1>5, StallAssumption DEF IInv, TypeOK, Released
<1>7. MapsAgree'
  BY <1>1 DEF IInv, TypeOK, MapsAgree, Released
<1>8. Untouched'
  BY <1>1, <1>2, <1>3 DEF IInv, TypeOK, MapsAgree, Untouched, Released
<1> QED
  BY <1>6, <1>7, <1>8 DEF IInv

(* The clock, shutdown, the Bot and the reader keep the invariant.         *)
LEMMA OutsideKeeps ==
  ASSUME IInv,
         Tick \/ stop \/ \E s \in Streams : BotEnds(s) \/ ReaderCancels(s)
  PROVE  IInv'
<1>1. CASE Tick
  <2>1. age' \in [Streams -> 0 .. StallMs]
    BY <1>1, StallAssumption DEF IInv, TypeOK, Tick
  <2> QED
    BY <1>1, <2>1 DEF IInv, TypeOK, MapsAgree, Untouched, Tick
<1>2. CASE stop
  BY <1>2 DEF IInv, TypeOK, MapsAgree, Untouched, stop
<1>3. ASSUME NEW s \in Streams, BotEnds(s)
      PROVE  IInv'
  BY <1>3 DEF IInv, TypeOK, MapsAgree, Untouched, BotEnds
<1>4. ASSUME NEW s \in Streams, ReaderCancels(s)
      PROVE  IInv'
  BY <1>4 DEF IInv, TypeOK, MapsAgree, Untouched, ReaderCancels
<1> QED
  BY <1>1, <1>2, <1>3, <1>4

(* IInv is inductive.                                                      *)
THEOREM InductiveInvariant == Spec => []IInv
<1>1. IInv /\ [Next]_vars => IInv'
  <2> SUFFICES ASSUME IInv, [Next]_vars PROVE IInv'
    OBVIOUS
  <2>1. CASE UNCHANGED vars
    BY <2>1 DEF vars, IInv, TypeOK, MapsAgree, Untouched
  <2> QED
    BY <2>1, WatchKeeps, HandoverKeeps, ReturnKeeps, SweepKeeps, OutsideKeeps DEF Next, Pump
<1> QED
  BY <1>1, InitIInv, PTL DEF Spec

(* TypeOK holds in every state.                                            *)
THEOREM TypeCorrect == Spec => []TypeOK
<1>1. IInv => TypeOK
  BY DEF IInv
<1> QED
  BY <1>1, InductiveInvariant, PTL

(* The two maps never drift apart, for any number of streams.              *)
THEOREM MapsStayTogether == Spec => []MapsAgree
<1>1. IInv => MapsAgree
  BY DEF IInv
<1> QED
  BY <1>1, InductiveInvariant, PTL

-----------------------------------------------------------------------------
(* The refinement.                                                         *)

(* The initial states are WatchedTurn's.                                   *)
LEMMA InitRefines == Init => Turn!Init
BY DEF Init, Turn!Init, phase, quiet

(* Opening a stream is Open.                                               *)
LEMMA WatchRefines ==
  ASSUME IInv, NEW s \in Streams, Watch(s)
  PROVE  Turn!Open(s)
<1>1. pump[s] = "none" /\ s \notin watched /\ s \notin paused /\ age[s] = 0
  BY DEF IInv, TypeOK, MapsAgree, Untouched, Watch
<1>2. phase[s] = "unopened"
  BY <1>1 DEF phase
<1>3. phase' = [phase EXCEPT ![s] = "listening"]
  BY <1>1 DEF IInv, TypeOK, phase, Watch
<1>4. quiet' = quiet /\ relay' = relay
  BY <1>1 DEF IInv, TypeOK, quiet, Watch
<1> QED
  BY <1>2, <1>3, <1>4 DEF Turn!Open

(* A chunk is Hear.                                                        *)
LEMMA ChunkRefines ==
  ASSUME IInv, NEW s \in Streams, Chunk(s), s \in streams
  PROVE  Turn!Hear(s)
<1>1. phase[s] = "listening"
  BY DEF Chunk, phase
<1>2. phase' = [phase EXCEPT ![s] = "delivering"]
  BY DEF IInv, TypeOK, phase, Chunk
<1>3. quiet' = [quiet EXCEPT ![s] = 0]
  BY DEF IInv, TypeOK, MapsAgree, quiet, Chunk, RecordAndPause
<1> QED
  BY <1>1, <1>2, <1>3 DEF Turn!Hear, Chunk

(* A delivery is Deliver: the clock starts again from nothing.             *)
LEMMA DeliveredRefines ==
  ASSUME IInv, NEW s \in Streams, Delivered(s), s \in streams
  PROVE  Turn!Deliver(s)
<1>1. phase[s] = "delivering"
  BY DEF Delivered, phase
<1>2. phase' = [phase EXCEPT ![s] = "listening"]
  BY DEF IInv, TypeOK, phase, Delivered
<1>3. quiet' = quiet
  BY DEF IInv, TypeOK, MapsAgree, quiet, Delivered, resume, Restarted
<1> QED
  BY <1>1, <1>2, <1>3 DEF Turn!Deliver, Delivered

(* Off the maps, a pump's steps are seen by nobody.                        *)
LEMMA ReleasedStutters ==
  ASSUME IInv, NEW s \in Streams, Pump(s), s \notin streams
  PROVE  UNCHANGED Turn!vars
<1>1. pump[s] \in {"reading", "writing"} /\ pump'[s] # "none"
      /\ \A t \in Streams : t # s => pump'[t] = pump[t]
  BY DEF Pump, Chunk, Delivered, EndOfBody, Throws, Returns, IInv, TypeOK
<1>2. s \notin watched /\ s \notin paused /\ age[s] = 0
  BY DEF IInv, TypeOK, MapsAgree, Untouched
<1>3. streams' = streams /\ paused' = paused /\ relay' = relay
  BY <1>2 DEF Pump, Chunk, Delivered, EndOfBody, Throws, Returns, Released,
              RecordAndPause, resume, FirstToRelease
<1>4. age' = age
  BY <1>2 DEF Pump, Chunk, Delivered, EndOfBody, Throws, Returns, Released,
              RecordAndPause, resume, IInv, TypeOK
<1>5. phase' = phase
  BY <1>1, <1>3 DEF phase
<1>6. quiet' = quiet
  BY <1>3, <1>4 DEF quiet
<1> QED
  BY <1>3, <1>5, <1>6 DEF Turn!vars

(* The end of a pump whose stream is still open is Finish.                 *)
LEMMA ReturnRefines ==
  ASSUME IInv, NEW s \in Streams, EndOfBody(s) \/ Throws(s), s \in streams
  PROVE  Turn!Finish(s)
<1>1. PICK v \in {"closed", "aborted"} : Returns(s, v)
  BY DEF EndOfBody, Throws
<1>2. phase[s] \in {"listening", "delivering"}
  BY DEF IInv, MapsAgree, phase
<1>3. phase' = [phase EXCEPT ![s] = "ended"]
  BY <1>1 DEF IInv, TypeOK, phase, Returns, Released
<1>4. quiet' = [quiet EXCEPT ![s] = 0]
  BY <1>1 DEF IInv, TypeOK, quiet, Returns, Released
<1>5. relay' = [relay EXCEPT ![s] = v]
  BY <1>1 DEF Returns, FirstToRelease
<1> QED
  BY <1>2, <1>3, <1>4, <1>5 DEF Turn!Finish

(* A sweep is GiveUp: it ends exactly the turns that were silent for long. *)
LEMMA SweepRefines ==
  ASSUME IInv, Sweep
  PROVE  Turn!GiveUp
<1> DEFINE silent == {s \in Streams : phase[s] = "listening" /\ quiet[s] = StallMs}
           v == [s \in silent |-> IF sse[s] THEN "told" ELSE "closed"]
<1>1. Due = silent
  <2>1. ASSUME NEW s \in Streams
        PROVE  s \in Due <=> s \in silent
    <3>1. age[s] \in 0 .. StallMs
      BY DEF IInv, TypeOK
    <3>2. age[s] >= StallMs <=> age[s] = StallMs
      BY <3>1, StallAssumption
    <3>3. phase[s] = "listening" <=> s \in watched /\ s \notin paused
      BY DEF IInv, TypeOK, MapsAgree, phase
    <3>4. s \notin paused => quiet[s] = age[s]
      BY DEF quiet
    <3> QED
      BY <3>2, <3>3, <3>4 DEF Due
  <2>2. Due \subseteq Streams
    BY DEF Due, IInv, TypeOK
  <2> QED
    BY <2>1, <2>2
<1>2. Due \subseteq streams /\ Due \cap paused = {} /\ Due \subseteq Streams
  BY DEF Due, IInv, TypeOK, MapsAgree
<1>3. Due \cap streams = Due
  BY <1>2
<1>4. Released(Due) /\ UNCHANGED pump
  BY DEF Sweep
<1>5. relay' = [s \in Streams |-> IF s \notin Due THEN relay[s]
                                  ELSE IF sse[s] THEN "told" ELSE "closed"]
  BY <1>3 DEF Sweep
<1> HIDE DEF Due
<1>6. \A s \in Due : pump[s] # "none"
  BY <1>2 DEF IInv, MapsAgree
<1>7. phase' = [s \in Streams |-> IF s \in Due THEN "ended" ELSE phase[s]]
  BY <1>4, <1>6 DEF phase, Released
<1>8. quiet' = [s \in Streams |-> IF s \in Due THEN 0 ELSE quiet[s]]
  BY <1>2, <1>4 DEF quiet, Released
<1>9. v \in [silent -> {"told", "closed"}]
  OBVIOUS
<1>10. relay' = [s \in Streams |-> IF s \in silent THEN v[s] ELSE relay[s]]
  BY <1>1, <1>5
<1> HIDE DEF v
<1> QED
  BY <1>1, <1>7, <1>8, <1>9, <1>10 DEF Turn!GiveUp

(* A tick is Pass: it counts only for those who wait on their Bot.         *)
LEMMA TickRefines ==
  ASSUME IInv, Tick
  PROVE  Turn!Pass
<1>1. phase' = phase /\ relay' = relay
  BY DEF Tick, phase
<1>2. \A s \in Streams : phase[s] = "listening" <=> s \in watched /\ s \notin paused
  BY DEF IInv, TypeOK, MapsAgree, phase
<1>3. \A s \in Streams : s \notin watched => age[s] = 0 /\ s \notin paused
  BY DEF IInv, TypeOK, Untouched
<1>4. quiet' = [s \in Streams |->
                  IF phase[s] = "listening" /\ quiet[s] < StallMs THEN quiet[s] + 1 ELSE quiet[s]]
  <2>1. ASSUME NEW s \in Streams
        PROVE  (IF s \in paused' THEN 0 ELSE age'[s]) =
                 IF phase[s] = "listening" /\ quiet[s] < StallMs THEN quiet[s] + 1 ELSE quiet[s]
    BY <1>2, <1>3, <2>1 DEF Tick, quiet
  <2> QED
    BY <2>1 DEF quiet
<1> QED
  BY <1>1, <1>4 DEF Turn!Pass

(* Every behaviour of the guard is one of WatchedTurn: no turn is ended    *)
(* twice, and none is ended for silence it did not keep.                   *)
THEOREM Refinement == Spec => ImplementsWatchedTurn
<1>1. IInv /\ [Next]_vars => [Turn!Next]_(Turn!vars)
  <2> SUFFICES ASSUME IInv, [Next]_vars PROVE [Turn!Next]_(Turn!vars)
    OBVIOUS
  <2>1. CASE Tick
    BY <2>1, TickRefines DEF Turn!Next
  <2>2. CASE Sweep
    BY <2>2, SweepRefines DEF Turn!Next
  <2>3. ASSUME NEW s \in Streams, Watch(s)
        PROVE  Turn!Next
    BY <2>3, WatchRefines DEF Turn!Next
  <2>4. ASSUME NEW s \in Streams, Pump(s)
        PROVE  [Turn!Next]_(Turn!vars)
    <3>1. CASE s \in streams
      <4>1. Turn!Hear(s) \/ Turn!Deliver(s) \/ Turn!Finish(s)
        BY <2>4, <3>1, ChunkRefines, DeliveredRefines, ReturnRefines DEF Pump
      <4> QED
        BY <4>1 DEF Turn!Next
    <3>2. CASE s \notin streams
      BY <2>4, <3>2, ReleasedStutters
    <3> QED
      BY <3>1, <3>2
  <2>5. CASE stop \/ UNCHANGED vars \/ \E s \in Streams : BotEnds(s) \/ ReaderCancels(s)
    <3>1. UNCHANGED <<relay, pump, streams, age, paused>>
      BY <2>5 DEF stop, vars, BotEnds, ReaderCancels
    <3> QED
      BY <3>1 DEF Turn!vars, phase, quiet
  <2> QED
    BY <2>1, <2>2, <2>3, <2>4, <2>5 DEF Next
<1> QED
  BY <1>1, InitRefines, InductiveInvariant, PTL DEF Spec, ImplementsWatchedTurn, Turn!Spec

-----------------------------------------------------------------------------
(* The composer's queue and the turns of a channel: what was said, with    *)
(* what waits after it, is in the order typed.                             *)

\* What was said, with what waits after it.
Ordered(w) == \A i, j \in DOMAIN w : i < j => w[i] < w[j]

\* Only a turn found on the screen at first comes from before, and it has no gaps.
RestoredRuns(ts) == \A t \in ts : t.by = "restored" => t.phase = "run"

QueueInv ==
    /\ QueueTypeOK /\ OnceInTheOrderTyped
    /\ removed \subseteq 1 .. typed
    /\ RestoredRuns(turns) /\ RestoredRuns(shown.turns)

-----------------------------------------------------------------------------
(* Sequences of messages in order.                                         *)

LEMMA AppendInOrder ==
  ASSUME NEW w \in Seq(Messages), Ordered(w),
         NEW x \in Messages, \A i \in DOMAIN w : w[i] < x
  PROVE  /\ Append(w, x) \in Seq(Messages) /\ Ordered(Append(w, x))
         /\ ToSet(Append(w, x)) = ToSet(w) \cup {x}
<1>1. PICK v : v = Append(w, x)
  OBVIOUS
<1>2. /\ v \in Seq(Messages) /\ Len(v) = Len(w) + 1 /\ Len(w) \in Nat
      /\ \A i \in 1 .. Len(w) : v[i] = w[i]
      /\ v[Len(w) + 1] = x
  BY <1>1, AppendProperties
<1>3. DOMAIN v = 1 .. Len(w) + 1 /\ DOMAIN w = 1 .. Len(w)
  BY <1>2
<1>4. Ordered(v)
  BY <1>2, <1>3 DEF Ordered
<1>5. ToSet(v) = ToSet(w) \cup {x}
  BY <1>2, <1>3 DEF ToSet
<1> QED
  BY <1>1, <1>2, <1>4, <1>5

LEMMA RemoveProperties ==
  ASSUME NEW w \in Seq(Messages), NEW k \in 1 .. Len(w)
  PROVE  /\ OnRemove(w, k) \in Seq(Messages) /\ Len(OnRemove(w, k)) = Len(w) - 1
         /\ \A i \in 1 .. Len(w) - 1 : OnRemove(w, k)[i] = IF i < k THEN w[i] ELSE w[i + 1]
<1>1. PICK n \in Nat : n = Len(w) /\ w \in [1 .. n -> Messages]
  BY LenProperties
<1>0. k \in Nat /\ 1 <= k /\ k <= n
  BY <1>1
<1>2. PICK a : a = SubSeq(w, 1, k - 1)
  OBVIOUS
<1>3. PICK b : b = SubSeq(w, k + 1, n)
  OBVIOUS
<1>4. a \in Seq(Messages) /\ Len(a) = k - 1 /\ \A i \in 1 .. k - 1 : a[i] = w[i]
  <2>1. \A i \in 1 .. k - 1 : w[i] \in Messages
    BY <1>1
  <2>2. 1 \in Int /\ k - 1 \in Int
    BY <1>1
  <2>3. /\ a \in Seq(Messages)
        /\ Len(a) = IF 1 <= k - 1 THEN k - 1 - 1 + 1 ELSE 0
        /\ \A i \in 1 .. k - 1 - 1 + 1 : a[i] = w[1 + i - 1]
    BY <1>2, <2>1, <2>2, SubSeqProperties
  <2> QED
    BY <1>1, <2>3
<1>5. b \in Seq(Messages) /\ Len(b) = n - k /\ \A i \in 1 .. n - k : b[i] = w[k + i]
  <2>1. \A i \in k + 1 .. n : w[i] \in Messages
    BY <1>1
  <2>2. k + 1 \in Int /\ n \in Int
    BY <1>1
  <2>3. /\ b \in Seq(Messages)
        /\ Len(b) = IF k + 1 <= n THEN n - (k + 1) + 1 ELSE 0
        /\ \A i \in 1 .. n - (k + 1) + 1 : b[i] = w[k + 1 + i - 1]
    BY <1>3, <2>1, <2>2, SubSeqProperties
  <2>4. n - (k + 1) + 1 = n - k /\ \A i \in 1 .. n - k : k + 1 + i - 1 = k + i
    BY <1>1
  <2>5. Len(b) = n - k
    <3>1. CASE k + 1 <= n
      BY <1>0, <2>3, <2>4, <3>1
    <3>2. CASE ~(k + 1 <= n)
      <4>1. k = n
        BY <1>0, <3>2
      <4> QED
        BY <2>3, <3>2, <4>1
    <3> QED
      BY <3>1, <3>2
  <2> QED
    BY <2>3, <2>4, <2>5
<1>6. OnRemove(w, k) = a \o b
  BY <1>1, <1>2, <1>3 DEF OnRemove, RemoveAt
<1>7. /\ a \o b \in Seq(Messages) /\ Len(a \o b) = Len(a) + Len(b)
      /\ \A i \in 1 .. Len(a) + Len(b) :
           (a \o b)[i] = IF i <= Len(a) THEN a[i] ELSE b[i - Len(a)]
  BY <1>4, <1>5, ConcatProperties
<1>8. PICK v : v = a \o b
  OBVIOUS
<1>9. v \in Seq(Messages) /\ Len(v) = n - 1
  <2>1. Len(v) = (k - 1) + (n - k)
    BY <1>4, <1>5, <1>7, <1>8
  <2>2. (k - 1) + (n - k) = n - 1
    BY <1>0
  <2> QED
    BY <1>7, <1>8, <2>1, <2>2
<1>10. ASSUME NEW i \in 1 .. n - 1
       PROVE  v[i] = IF i < k THEN w[i] ELSE w[i + 1]
  <2>1. v[i] = IF i <= k - 1 THEN a[i] ELSE b[i - (k - 1)]
    BY <1>1, <1>4, <1>5, <1>7, <1>8, <1>10
  <2>2. CASE i < k
    BY <1>1, <1>4, <2>1, <2>2
  <2>3. CASE ~(i < k)
    <3>1. i - (k - 1) \in 1 .. n - k /\ k + (i - (k - 1)) = i + 1 /\ ~(i <= k - 1)
      BY <1>1, <1>10, <2>3
    <3>2. b[i - (k - 1)] = w[k + (i - (k - 1))]
      BY <1>5, <3>1
    <3> QED
      BY <2>1, <2>3, <3>1, <3>2
  <2> QED
    BY <2>2, <2>3
<1> QED
  BY <1>1, <1>6, <1>8, <1>9, <1>10

LEMMA RemoveInOrder ==
  ASSUME NEW w \in Seq(Messages), Ordered(w), NEW k \in 1 .. Len(w)
  PROVE  /\ Ordered(OnRemove(w, k))
         /\ ToSet(OnRemove(w, k)) = ToSet(w) \ {w[k]}
<1>1. PICK v : v = OnRemove(w, k)
  OBVIOUS
<1>2. PICK n \in Nat : n = Len(w) /\ w \in [1 .. n -> Messages]
  BY LenProperties
<1>3. /\ v \in Seq(Messages) /\ Len(v) = n - 1
      /\ \A i \in 1 .. n - 1 : v[i] = IF i < k THEN w[i] ELSE w[i + 1]
  BY <1>1, <1>2, RemoveProperties
<1>4. DOMAIN v = 1 .. n - 1 /\ DOMAIN w = 1 .. n
  BY <1>2, <1>3
<1>5. Ordered(v)
  BY <1>2, <1>3, <1>4 DEF Ordered
<1>6. \A i, j \in 1 .. n : i # j => w[i] # w[j]
  BY <1>2, <1>4, ComposerAssumption DEF Ordered, Messages
<1>7. ASSUME NEW i \in 1 .. n, i # k PROVE \E j \in 1 .. n - 1 : v[j] = w[i]
  <2>1. CASE i < k
    BY <1>2, <1>3, <1>7, <2>1
  <2>2. CASE i > k
    <3>1. i - 1 \in 1 .. n - 1 /\ ~(i - 1 < k) /\ i - 1 + 1 = i
      BY <1>2, <2>2
    <3> QED
      BY <1>3, <3>1
  <2> QED
    BY <1>2, <1>7, <2>1, <2>2
<1>8. \A j \in 1 .. n - 1 : \E i \in 1 .. n : i # k /\ v[j] = w[i]
  <2> SUFFICES ASSUME NEW j \in 1 .. n - 1 PROVE \E i \in 1 .. n : i # k /\ v[j] = w[i]
    OBVIOUS
  <2>1. CASE j < k
    BY <1>2, <1>3, <2>1
  <2>2. CASE ~(j < k)
    <3>1. j + 1 \in 1 .. n /\ j + 1 # k
      BY <1>2, <2>2
    <3> QED
      BY <1>3, <2>2, <3>1
  <2> QED
    BY <2>1, <2>2
<1>9. ToSet(v) = ToSet(w) \ {w[k]}
  <2>1. \A m : m \in ToSet(v) <=> \E j \in 1 .. n - 1 : m = v[j]
    BY <1>4 DEF ToSet
  <2>2. \A m : m \in ToSet(w) <=> \E i \in 1 .. n : m = w[i]
    BY <1>4 DEF ToSet
  <2>3. \A m : (\E j \in 1 .. n - 1 : m = v[j]) <=> \E i \in 1 .. n : m = w[i] /\ i # k
    BY <1>7, <1>8
  <2>4. \A m : (\E i \in 1 .. n : m = w[i] /\ i # k) <=> (\E i \in 1 .. n : m = w[i]) /\ m # w[k]
    BY <1>2, <1>6
  <2> QED
    BY <2>1, <2>2, <2>3, <2>4
<1> QED
  BY <1>1, <1>5, <1>9

-----------------------------------------------------------------------------
(* The invariant.                                                          *)

(* It holds at first.                                                      *)
LEMMA QueueStarts == QueueInit => QueueInv
<1> SUFFICES ASSUME QueueInit PROVE QueueInv
  OBVIOUS
<1>0. <<>> \in Seq(Messages)
  BY EmptySeq
<1>1. turns \subseteq ChatTurn
  <2>1. PICK none \in Seq(Messages) : none = <<>>
    BY <1>0
  <2>2. PICK t : t = [by |-> "restored", says |-> none, phase |-> "run"]
    OBVIOUS
  <2>3. t \in ChatTurn
    BY <2>2 DEF ChatTurn
  <2>4. turns = {} \/ turns = {t}
    BY <2>1, <2>2 DEF QueueInit
  <2> QED
    BY <2>3, <2>4
<1>2. QueueTypeOK
  <2>1. shown \in [turns : SUBSET ChatTurn, running : BOOLEAN, isSubmitting : BOOLEAN, disabled : BOOLEAN]
    BY <1>1 DEF QueueInit, Screen
  <2>2. typed \in 0 .. MaxTyped /\ asked \in 0 .. MaxAsks
    BY ComposerAssumption DEF QueueInit
  <2>3. queue \in Seq(Messages) /\ said \in Seq(Messages)
    BY <1>0 DEF QueueInit
  <2>4. /\ removed \subseteq Messages /\ running \in BOOLEAN /\ isSubmitting \in BOOLEAN
        /\ disabled \in BOOLEAN /\ due \in BOOLEAN
    BY DEF QueueInit
  <2> QED
    BY <1>1, <2>1, <2>2, <2>3, <2>4 DEF QueueTypeOK
<1>3. <<>> \o <<>> = <<>> /\ DOMAIN <<>> = {}
  BY ConcatEmptySeq, EmptySeq
<1>4. OnceInTheOrderTyped /\ removed \subseteq 1 .. typed
  BY <1>3 DEF QueueInit, OnceInTheOrderTyped, ToSet
<1>5. RestoredRuns(turns) /\ shown.turns = turns
  BY DEF QueueInit, RestoredRuns, Screen
<1>6. RestoredRuns(shown.turns)
  BY <1>5 DEF RestoredRuns
<1> QED
  BY <1>2, <1>4, <1>5, <1>6 DEF QueueInv

(* What was said, with what waits after it, is a sequence of messages in   *)
(* order, and none of them has yet to be typed.                            *)
LEMMA WordsAreInOrder ==
  ASSUME QueueInv
  PROVE  \E w \in Seq(Messages) :
            /\ w = said \o queue /\ Ordered(w) /\ ToSet(w) = (1 .. typed) \ removed
            /\ \A i \in DOMAIN w : w[i] \in 1 .. typed
<1>1. PICK w \in Seq(Messages) : w = said \o queue
  BY ConcatProperties DEF QueueInv, QueueTypeOK
<1>2. Ordered(w) /\ ToSet(w) = (1 .. typed) \ removed
  BY <1>1 DEF QueueInv, OnceInTheOrderTyped, Ordered
<1>3. \A i \in DOMAIN w : w[i] \in ToSet(w)
  BY DEF ToSet
<1> QED
  BY <1>1, <1>2, <1>3

(* A sequence in order of the messages typed and not taken back is all     *)
(* there is to say and to wait.                                            *)
LEMMA WordsToProperty ==
  ASSUME NEW w, w = said \o queue, Ordered(w), ToSet(w) = (1 .. typed) \ removed
  PROVE  OnceInTheOrderTyped
  BY DEF OnceInTheOrderTyped, Ordered

(* A message that is typed, and parked or sent, is the last.               *)
LEMMA TypingKeeps ==
  ASSUME QueueInv, typed < MaxTyped, typed' = typed + 1, UNCHANGED removed,
         said' \o queue' = Append(said \o queue, typed + 1)
  PROVE  OnceInTheOrderTyped' /\ removed' \subseteq 1 .. typed' /\ typed' \in Messages
<1>1. PICK w \in Seq(Messages) :
         /\ w = said \o queue /\ Ordered(w) /\ ToSet(w) = (1 .. typed) \ removed
         /\ \A i \in DOMAIN w : w[i] \in 1 .. typed
  BY WordsAreInOrder
<1>2. typed \in Nat /\ typed + 1 \in Messages /\ removed \subseteq 1 .. typed
  BY ComposerAssumption DEF QueueInv, QueueTypeOK, Messages
<1>3. \A i \in DOMAIN w : w[i] < typed + 1
  BY <1>1, <1>2
<1>4. PICK v : v = Append(w, typed + 1)
  OBVIOUS
<1>5. Ordered(v) /\ ToSet(v) = ToSet(w) \cup {typed + 1}
  BY <1>1, <1>2, <1>3, <1>4, AppendInOrder
<1>6. ToSet(v) = (1 .. typed + 1) \ removed
  BY <1>1, <1>2, <1>5
<1>7. v = said' \o queue'
  BY <1>1, <1>4
<1>8. OnceInTheOrderTyped'
  BY <1>5, <1>6, <1>7 DEF OnceInTheOrderTyped, Ordered
<1> QED
  BY <1>2, <1>8

LEMMA ParkKeeps == ASSUME QueueInv, Park PROVE QueueInv'
<1>1. /\ typed < MaxTyped /\ typed' = typed + 1 /\ queue' = Append(queue, typed + 1)
      /\ UNCHANGED <<said, removed, turns, running, isSubmitting, disabled, asked, shown, due>>
  BY DEF Park, OnSubmit
<1>2. said \in Seq(Messages) /\ queue \in Seq(Messages) /\ typed + 1 \in Messages
  BY <1>1, ComposerAssumption DEF QueueInv, QueueTypeOK, Messages
<1>3. said' \o queue' = Append(said \o queue, typed + 1)
  BY <1>1, <1>2, AppendIsConcat, ConcatAssociative, ConcatProperties
<1>4. OnceInTheOrderTyped' /\ removed' \subseteq 1 .. typed' /\ typed' \in Messages
  BY <1>1, <1>3, TypingKeeps
<1>5. queue' \in Seq(Messages)
  BY <1>1, <1>2, AppendProperties
<1>6. QueueTypeOK'
  BY <1>1, <1>4, <1>5 DEF QueueInv, QueueTypeOK, Messages
<1>7. RestoredRuns(turns)' /\ RestoredRuns(shown.turns)'
  BY <1>1 DEF QueueInv, RestoredRuns
<1> QED
  BY <1>4, <1>6, <1>7 DEF QueueInv

(* A turn that is started is typed, and is none that was there before.     *)
LEMMA StartsTyped ==
  ASSUME QueueInv, NEW by \in {"composer", "drain"}, NEW run \in Seq(Messages), Starts(by, run)
  PROVE  /\ turns' \subseteq ChatTurn /\ RestoredRuns(turns)' /\ running' \in BOOLEAN
         /\ said' = said \o run /\ said' \in Seq(Messages)
<1>1. PICK t : t = [by |-> by, says |-> run, phase |-> "joining"]
  OBVIOUS
<1>2. t \in ChatTurn /\ t.by # "restored"
  BY <1>1 DEF ChatTurn
<1>3. turns' = turns \cup {t} /\ running' = TRUE /\ said' = said \o run
  BY <1>1 DEF Starts
<1>4. RestoredRuns(turns)'
  BY <1>2, <1>3 DEF QueueInv, RestoredRuns
<1>5. said' \in Seq(Messages)
  BY <1>3, ConcatProperties DEF QueueInv, QueueTypeOK
<1> QED
  BY <1>2, <1>3, <1>4, <1>5 DEF QueueInv, QueueTypeOK

LEMMA SendKeeps == ASSUME QueueInv, Send PROVE QueueInv'
<1>1. PICK run : run = Append(queue, typed + 1)
  OBVIOUS
<1>2. /\ typed < MaxTyped /\ typed' = typed + 1 /\ queue' = <<>> /\ Starts("composer", run)
      /\ isSubmitting' = TRUE /\ UNCHANGED <<removed, disabled, asked, shown, due>>
  BY <1>1 DEF Send, OnSubmit
<1>3. said \in Seq(Messages) /\ queue \in Seq(Messages) /\ typed + 1 \in Messages
  BY <1>2, ComposerAssumption DEF QueueInv, QueueTypeOK, Messages
<1>4. run \in Seq(Messages)
  BY <1>1, <1>3, AppendProperties
<1>5. /\ turns' \subseteq ChatTurn /\ RestoredRuns(turns)' /\ running' \in BOOLEAN
      /\ said' = said \o run /\ said' \in Seq(Messages)
  BY <1>2, <1>4, StartsTyped
<1>6. said' \o queue' = Append(said \o queue, typed + 1)
  <2>1. said' \o queue' = said'
    BY <1>2, <1>5, ConcatEmptySeq
  <2>2. said \o run = Append(said \o queue, typed + 1)
    BY <1>1, <1>3, AppendIsConcat, ConcatAssociative, ConcatProperties
  <2> QED
    BY <1>5, <2>1, <2>2
<1>7. OnceInTheOrderTyped' /\ removed' \subseteq 1 .. typed' /\ typed' \in Messages
  BY <1>2, <1>6, TypingKeeps
<1>8. QueueTypeOK'
  BY <1>2, <1>5, <1>7, EmptySeq DEF QueueInv, QueueTypeOK, Messages
<1>9. RestoredRuns(shown.turns)'
  BY <1>2 DEF QueueInv, RestoredRuns
<1> QED
  BY <1>5, <1>7, <1>8, <1>9 DEF QueueInv

LEMMA DrainKeeps == ASSUME QueueInv, Drain PROVE QueueInv'
<1>1. due' = FALSE /\ UNCHANGED <<typed, removed, isSubmitting, disabled, asked, shown>>
  BY DEF Drain
<1>2. RestoredRuns(shown.turns)' /\ removed' \subseteq 1 .. typed'
  BY <1>1 DEF QueueInv, RestoredRuns
<1>3. CASE MayDrain
  <2>1. queue' = <<>> /\ Starts("drain", queue)
    BY <1>3 DEF Drain, OnSettle
  <2>2. said \in Seq(Messages) /\ queue \in Seq(Messages)
    BY DEF QueueInv, QueueTypeOK
  <2>3. /\ turns' \subseteq ChatTurn /\ RestoredRuns(turns)' /\ running' \in BOOLEAN
        /\ said' = said \o queue /\ said' \in Seq(Messages)
    BY <2>1, <2>2, StartsTyped
  <2>4. said' \o queue' = said \o queue
    BY <2>1, <2>3, ConcatEmptySeq
  <2>5. OnceInTheOrderTyped'
    BY <1>1, <2>4 DEF QueueInv, OnceInTheOrderTyped
  <2>6. QueueTypeOK'
    BY <1>1, <2>1, <2>3, EmptySeq DEF QueueInv, QueueTypeOK
  <2> QED
    BY <1>2, <2>3, <2>5, <2>6 DEF QueueInv
<1>4. CASE ~MayDrain
  <2>1. UNCHANGED <<queue, turns, running, said>>
    BY <1>4 DEF Drain
  <2>2. QueueTypeOK' /\ OnceInTheOrderTyped' /\ RestoredRuns(turns)'
    BY <1>1, <2>1 DEF QueueInv, QueueTypeOK, OnceInTheOrderTyped, RestoredRuns
  <2> QED
    BY <1>2, <2>2 DEF QueueInv
<1> QED
  BY <1>3, <1>4

LEMMA TakeBackKeeps ==
  ASSUME QueueInv, NEW message \in Messages, TakeBack(message)
  PROVE  QueueInv'
<1>1. PICK i \in DOMAIN queue : queue[i] = message /\ queue' = OnRemove(queue, i)
  BY DEF TakeBack
<1>2. /\ removed' = removed \cup {message}
      /\ UNCHANGED <<typed, said, turns, running, isSubmitting, disabled, asked, shown, due>>
  BY DEF TakeBack
<1>3. /\ said \in Seq(Messages) /\ queue \in Seq(Messages) /\ i \in 1 .. Len(queue)
      /\ Len(said) \in Nat /\ Len(queue) \in Nat
  BY <1>1, LenProperties DEF QueueInv, QueueTypeOK
<1>4. PICK w \in Seq(Messages) :
         /\ w = said \o queue /\ Ordered(w) /\ ToSet(w) = (1 .. typed) \ removed
         /\ \A j \in DOMAIN w : w[j] \in 1 .. typed
  BY WordsAreInOrder
<1>5. PICK n \in Nat : n = Len(said)
  BY <1>3
<1>6. /\ Len(w) = n + Len(queue)
      /\ \A j \in 1 .. n + Len(queue) : w[j] = IF j <= n THEN said[j] ELSE queue[j - n]
  BY <1>3, <1>4, <1>5, ConcatProperties
<1>7. n + i \in 1 .. Len(w) /\ ~(n + i <= n) /\ n + i - n = i
  BY <1>3, <1>6
<1>8. w[n + i] = message /\ message \in 1 .. typed
  BY <1>1, <1>4, <1>6, <1>7, LenProperties
<1>9. PICK v : v = OnRemove(w, n + i)
  OBVIOUS
<1>10. /\ v \in Seq(Messages) /\ Len(v) = Len(w) - 1 /\ Ordered(v)
       /\ \A j \in 1 .. Len(w) - 1 : v[j] = IF j < n + i THEN w[j] ELSE w[j + 1]
       /\ ToSet(v) = ToSet(w) \ {message}
  BY <1>4, <1>7, <1>8, <1>9, RemoveProperties, RemoveInOrder
<1>11. /\ queue' \in Seq(Messages) /\ Len(queue') = Len(queue) - 1
       /\ \A j \in 1 .. Len(queue) - 1 : queue'[j] = IF j < i THEN queue[j] ELSE queue[j + 1]
  BY <1>1, <1>3, RemoveProperties
<1>12. PICK u : u = said \o queue'
  OBVIOUS
<1>13. /\ u \in Seq(Messages) /\ Len(u) = n + (Len(queue) - 1)
       /\ \A j \in 1 .. n + (Len(queue) - 1) : u[j] = IF j <= n THEN said[j] ELSE queue'[j - n]
  <2>1. PICK q \in Seq(Messages) : q = queue'
    BY <1>11
  <2>2. /\ said \o q \in Seq(Messages) /\ Len(said \o q) = Len(said) + Len(q)
        /\ \A j \in 1 .. Len(said) + Len(q) :
             (said \o q)[j] = IF j <= Len(said) THEN said[j] ELSE q[j - Len(said)]
    BY <1>3, <2>1, ConcatProperties
  <2> QED
    BY <1>5, <1>11, <1>12, <2>1, <2>2
<1>14. u = v
  <2>1. PICK l \in Nat : l = Len(queue) /\ i \in 1 .. l
    BY <1>3
  <2>2. Len(u) = n + l - 1 /\ Len(v) = n + l - 1
    BY <1>6, <1>10, <1>13, <2>1
  <2>3. ASSUME NEW j \in 1 .. n + l - 1 PROVE u[j] = v[j]
    <3>1. CASE j <= n
      <4>1. u[j] = said[j]
        BY <1>13, <2>1, <3>1
      <4>2. v[j] = w[j] /\ w[j] = said[j]
        BY <1>6, <1>10, <2>1, <3>1
      <4> QED
        BY <4>1, <4>2
    <3>2. CASE n < j /\ j < n + i
      <4>1. j - n \in 1 .. l - 1 /\ j - n < i
        BY <2>1, <3>2
      <4>2. u[j] = queue'[j - n] /\ queue'[j - n] = queue[j - n]
        BY <1>11, <1>13, <2>1, <3>2, <4>1
      <4>3. v[j] = w[j] /\ w[j] = queue[j - n]
        BY <1>6, <1>10, <2>1, <3>2
      <4> QED
        BY <4>2, <4>3
    <3>3. CASE n + i <= j
      <4>1. /\ j - n \in 1 .. l - 1 /\ ~(j - n < i) /\ j + 1 \in 1 .. n + l
            /\ ~(j + 1 <= n) /\ j + 1 - n = j - n + 1 /\ ~(j <= n) /\ ~(j < n + i)
        BY <2>1, <3>3
      <4>2. u[j] = queue'[j - n] /\ queue'[j - n] = queue[j - n + 1]
        BY <1>11, <1>13, <2>1, <4>1
      <4>3. v[j] = w[j + 1] /\ w[j + 1] = queue[j + 1 - n]
        BY <1>6, <1>10, <2>1, <4>1
      <4> QED
        BY <4>1, <4>2, <4>3
    <3> QED
      BY <2>1, <3>1, <3>2, <3>3
  <2> QED
    BY <1>10, <1>13, <2>2, <2>3, SeqEqual
<1>15. v = said' \o queue' /\ ToSet(v) = (1 .. typed) \ (removed \cup {message})
  BY <1>2, <1>4, <1>10, <1>12, <1>14
<1>16. OnceInTheOrderTyped'
  BY <1>2, <1>10, <1>15 DEF OnceInTheOrderTyped, Ordered
<1>17. removed' \subseteq 1 .. typed' /\ removed' \subseteq Messages
  BY <1>2, <1>8 DEF QueueInv, QueueTypeOK
<1>18. QueueTypeOK'
  BY <1>2, <1>11, <1>17 DEF QueueInv, QueueTypeOK
<1>19. RestoredRuns(turns)' /\ RestoredRuns(shown.turns)'
  BY <1>2 DEF QueueInv, RestoredRuns
<1> QED
  BY <1>16, <1>17, <1>18, <1>19 DEF QueueInv

LEMMA AskKeeps == ASSUME QueueInv, AskFromComponent PROVE QueueInv'
<1>1. PICK t : t = [by |-> "component", says |-> <<>>, phase |-> "joining"]
  OBVIOUS
<1>2. /\ asked < MaxAsks /\ asked' = asked + 1 /\ turns' = turns \cup {t}
      /\ UNCHANGED <<typed, queue, said, removed, running, isSubmitting, disabled, shown, due>>
  BY <1>1 DEF AskFromComponent
<1>3. t \in ChatTurn /\ t.by # "restored"
  <2>1. PICK none \in Seq(Messages) : none = <<>>
    BY EmptySeq
  <2> QED
    BY <1>1, <2>1 DEF ChatTurn
<1>4. QueueTypeOK'
  BY <1>2, <1>3, ComposerAssumption DEF QueueInv, QueueTypeOK
<1>5. OnceInTheOrderTyped' /\ removed' \subseteq 1 .. typed' /\ RestoredRuns(shown.turns)'
  BY <1>2 DEF QueueInv, OnceInTheOrderTyped, RestoredRuns
<1>6. RestoredRuns(turns)'
  BY <1>2, <1>3 DEF QueueInv, RestoredRuns
<1> QED
  BY <1>4, <1>5, <1>6 DEF QueueInv

(* The run of a turn moves, and a turn ends.                               *)
LEMMA TurnsKeep ==
  ASSUME QueueInv, NEW t \in turns, RunMoves(t) \/ TurnEnds(t)
  PROVE  QueueInv'
<1>1. UNCHANGED <<typed, queue, said, removed, disabled, asked, shown, due>>
  BY DEF RunMoves, TurnEnds
<1>2. OnceInTheOrderTyped' /\ removed' \subseteq 1 .. typed' /\ RestoredRuns(shown.turns)'
  BY <1>1 DEF QueueInv, OnceInTheOrderTyped, RestoredRuns
<1>3. turns' \subseteq ChatTurn /\ RestoredRuns(turns)'
  <2>1. CASE RunMoves(t)
    <3>1. PICK p \in {"run", "gap"} : p = IF t.phase = "run" THEN "gap" ELSE "run"
      OBVIOUS
    <3>2. PICK u : u = [t EXCEPT !.phase = p]
      OBVIOUS
    <3>3. t.by # "restored" /\ turns' = (turns \ {t}) \cup {u}
      BY <2>1, <3>1, <3>2 DEF RunMoves
    <3>4. t \in ChatTurn
      BY DEF QueueInv, QueueTypeOK
    <3>5. u \in ChatTurn /\ u.by = t.by
      BY <3>1, <3>2, <3>4 DEF ChatTurn
    <3> QED
      BY <3>3, <3>5 DEF QueueInv, QueueTypeOK, RestoredRuns
  <2>2. CASE TurnEnds(t)
    <3>1. turns' \subseteq turns
      BY <2>2 DEF TurnEnds
    <3> QED
      BY <3>1 DEF QueueInv, QueueTypeOK, RestoredRuns
  <2> QED
    BY <2>1, <2>2
<1>4. running' \in BOOLEAN /\ isSubmitting' \in BOOLEAN
  <2>1. CASE RunMoves(t)
    BY <2>1 DEF RunMoves, QueueInv, QueueTypeOK
  <2>2. CASE TurnEnds(t)
    BY <2>2 DEF TurnEnds, QueueInv, QueueTypeOK
  <2> QED
    BY <2>1, <2>2
<1>5. QueueTypeOK'
  BY <1>1, <1>3, <1>4 DEF QueueInv, QueueTypeOK
<1> QED
  BY <1>2, <1>3, <1>5 DEF QueueInv

LEMMA DeletionKeeps == ASSUME QueueInv, CoworkerDeleted PROVE QueueInv'
<1>1. /\ disabled' = TRUE
      /\ UNCHANGED <<typed, queue, said, removed, turns, running, isSubmitting, asked, shown, due>>
  BY DEF CoworkerDeleted
<1> QED
  BY <1>1 DEF QueueInv, QueueTypeOK, OnceInTheOrderTyped, RestoredRuns

LEMMA DrawKeeps == ASSUME QueueInv, Draw PROVE QueueInv'
<1>1. PICK s : s = Screen
  OBVIOUS
<1>2. /\ shown' = s /\ due' = DrainDepends(shown, s)
      /\ UNCHANGED <<typed, queue, said, removed, turns, running, isSubmitting, disabled, asked>>
  BY <1>1 DEF Draw
<1>3. /\ s.turns = turns
      /\ s \in [turns : SUBSET ChatTurn, running : BOOLEAN, isSubmitting : BOOLEAN, disabled : BOOLEAN]
  BY <1>1 DEF Screen, QueueInv, QueueTypeOK
<1>4. due' \in BOOLEAN
  BY <1>2 DEF DrainDepends
<1>5. QueueTypeOK'
  BY <1>2, <1>3, <1>4 DEF QueueInv, QueueTypeOK
<1>6. OnceInTheOrderTyped' /\ removed' \subseteq 1 .. typed' /\ RestoredRuns(turns)'
  BY <1>2 DEF QueueInv, OnceInTheOrderTyped, RestoredRuns
<1>7. RestoredRuns(shown.turns)'
  BY <1>2, <1>3 DEF QueueInv, RestoredRuns
<1> QED
  BY <1>5, <1>6, <1>7 DEF QueueInv

LEMMA QueueSteps == QueueInv /\ [QueueNext]_queueVars => QueueInv'
<1> SUFFICES ASSUME QueueInv, [QueueNext]_queueVars PROVE QueueInv'
  OBVIOUS
<1>1. CASE UNCHANGED queueVars
  BY <1>1 DEF queueVars, QueueInv, QueueTypeOK, OnceInTheOrderTyped, RestoredRuns
<1>2. CASE QueueNext
  BY <1>2, ParkKeeps, SendKeeps, DeletionKeeps, AskKeeps, TakeBackKeeps, TurnsKeep, DrawKeeps, DrainKeeps
     DEF QueueNext
<1> QED
  BY <1>1, <1>2

-----------------------------------------------------------------------------
(* What a person types at a working Bot runs once and in the order typed,  *)
(* and what has not run still waits unless it was taken back               *)
(* (OnceInTheOrderTyped of ComposerQueue), however the drain, a send and   *)
(* a late commit of the screen interleave.                                 *)
THEOREM QueueKeepsOrder == QueueSpec => []OnceInTheOrderTyped
<1>1. QueueInv => OnceInTheOrderTyped
  BY DEF QueueInv
<1> QED
  BY <1>1, QueueStarts, QueueSteps, PTL DEF QueueSpec

(* No turn is started over one that is on the screen and still going       *)
(* (NothingOverAnAnswer): the screen shows none when a send or a drain may *)
(* start one, because a turn of this tab counts in its gaps too and a      *)
(* restored one has none.                                                  *)
THEOREM QueueKeepsQuiet == QueueSpec => NothingOverAnAnswer
<1>1. ASSUME QueueInv, [QueueNext]_queueVars, said' # said
      PROVE  \A t \in turns, u \in shown.turns : ~(t.by = u.by /\ t.says = u.says)
  <2>1. ~pending(shown.turns)
    <3>1. CASE Send
      BY <3>1 DEF Send, isBusy, inFlight
    <3>2. CASE Drain
      BY <1>1, <3>2 DEF Drain, MayDrain, inFlight
    <3> QED
      BY <1>1, <3>1, <3>2 DEF QueueNext, queueVars, Park, CoworkerDeleted, AskFromComponent, TakeBack, RunMoves,
         TurnEnds, Draw
  <2>2. \A u \in shown.turns : u.by = "restored" /\ u.phase # "run"
    BY <2>1 DEF pending, isRunning, turnsInFlight
  <2>3. RestoredRuns(shown.turns)
    BY <1>1 DEF QueueInv
  <2> QED
    BY <2>2, <2>3 DEF RestoredRuns
<1> QED
  BY <1>1, QueueStarts, QueueSteps, PTL DEF QueueSpec, NothingOverAnAnswer

-----------------------------------------------------------------------------
(* The events of a run.                                                    *)

Ids == ((1 .. MaxTurns) \X (1 .. MaxCalls)) \cup Ours \cup Surfaces
CallEvents == [type : {"call", "result"}, id : Ids, call : Call]
Event ==
    [type : {"started", "finished", "error"}]
        \cup [type : {"textStart", "textContent", "textEnd"}, message : Nat]
        \cup CallEvents

IsStart(e) == e.type = "textStart"
IsEnded(s, e) == \E j \in 1 .. Len(s) : s[j].type = "textEnd" /\ s[j].message = e.message
Tells(e) == e.type \in {"call", "result"}
Closing(e) == e.type \in {"finished", "error"}

\* What any stream is, and one that may go on with message m, which is open or not.
Readable(s) ==
    /\ \A i \in 1 .. Len(s) : s[i].type = "started" => i = 1
    /\ \A i, j \in 1 .. Len(s) :
          IsStart(s[i]) /\ IsStart(s[j]) /\ s[i].message = s[j].message => i = j
    /\ \A i, k \in 1 .. Len(s) :
          IsStart(s[i]) /\ Tells(s[k]) /\ i < k =>
              \E j \in 1 .. k - 1 : s[j].type = "textEnd" /\ s[j].message = s[i].message
GoesOn(s, open, m) ==
    /\ Readable(s)
    /\ \A i \in 1 .. Len(s) : ~Closing(s[i])
    /\ \A i \in 1 .. Len(s) : IsStart(s[i]) => s[i].message \in 0 .. m - 1 \/ s[i].message \in open
    /\ \A i \in 1 .. Len(s) : IsStart(s[i]) => IsEnded(s, s[i]) \/ s[i].message \in open

(* Calls and results may follow when no message is open.                   *)
LEMMA CallsFollow ==
  ASSUME NEW s \in Seq(Event), NEW t \in Seq(Event), NEW m \in Nat,
         GoesOn(s, {}, m), \A i \in 1 .. Len(t) : Tells(t[i])
  PROVE  GoesOn(s \o t, {}, m)
<1>1. PICK w : w = s \o t
  OBVIOUS
<1>2. PICK a \in Nat : a = Len(s)
  OBVIOUS
<1>3. PICK b \in Nat : b = Len(t)
  OBVIOUS
<1>4. /\ Len(w) = a + b
      /\ \A i \in 1 .. a : i \in 1 .. a + b /\ w[i] = s[i]
      /\ \A k \in 1 .. a + b : k \in 1 .. a \/ (k > a /\ Tells(w[k]))
  BY <1>1, <1>2, <1>3, ConcatPlaces DEF Tells
<1>5. \A k \in 1 .. a + b : ~Tells(w[k]) => k \in 1 .. a /\ w[k] = s[k]
  BY <1>4
<1>6. \A k \in 1 .. a + b : IsStart(w[k]) \/ Closing(w[k]) \/ w[k].type = "started" => k \in 1 .. a /\ w[k] = s[k]
  BY <1>5 DEF IsStart, Closing, Tells
<1>7. \A i \in 1 .. a : IsStart(s[i]) => \E j \in 1 .. a : s[j].type = "textEnd" /\ s[j].message = s[i].message
  BY <1>2 DEF GoesOn, IsEnded
<1>8. Readable(w)
  <2>1. \A i \in 1 .. a + b : w[i].type = "started" => i = 1
    BY <1>2, <1>6 DEF GoesOn, Readable, IsStart
  <2>2. ASSUME NEW i \in 1 .. a + b, NEW j \in 1 .. a + b, IsStart(w[i]), IsStart(w[j]), w[i].message = w[j].message
        PROVE  i = j
    <3>1. i \in 1 .. a /\ j \in 1 .. a /\ w[i] = s[i] /\ w[j] = s[j]
      BY <1>6, <2>2
    <3> QED
      BY <1>2, <2>2, <3>1 DEF GoesOn, Readable, IsStart
  <2>3. ASSUME NEW i \in 1 .. a + b, NEW k \in 1 .. a + b, IsStart(w[i]), Tells(w[k]), i < k
        PROVE  \E j \in 1 .. k - 1 : w[j].type = "textEnd" /\ w[j].message = w[i].message
    <3>1. i \in 1 .. a /\ w[i] = s[i]
      BY <1>6, <2>3
    <3>2. CASE k \in 1 .. a
      <4>1. PICK j \in 1 .. k - 1 : s[j].type = "textEnd" /\ s[j].message = s[i].message
        BY <1>2, <1>4, <2>3, <3>1, <3>2 DEF GoesOn, Readable
      <4>2. j \in 1 .. a
        BY <3>2
      <4> QED
        BY <1>4, <3>1, <4>1, <4>2
    <3>3. CASE k > a
      <4>1. PICK j \in 1 .. a : s[j].type = "textEnd" /\ s[j].message = s[i].message
        BY <1>7, <2>3, <3>1
      <4>2. j \in 1 .. k - 1
        BY <3>3
      <4> QED
        BY <1>4, <3>1, <4>1, <4>2
    <3> QED
      BY <1>4, <3>2, <3>3
  <2> QED
    BY <1>4, <2>1, <2>2, <2>3 DEF Readable
<1>9. \A i \in 1 .. a + b : ~Closing(w[i])
  BY <1>2, <1>6 DEF GoesOn
<1>10. \A i \in 1 .. a + b : IsStart(w[i]) => w[i].message \in 0 .. m - 1
  BY <1>2, <1>6 DEF GoesOn
<1>11. \A i \in 1 .. a + b : IsStart(w[i]) => IsEnded(w, w[i])
  BY <1>4, <1>6, <1>7 DEF IsEnded
<1> QED
  BY <1>1, <1>4, <1>8, <1>9, <1>10, <1>11 DEF GoesOn

(* A stream stays readable with an event that does not start it again, nor *)
(* opens a message again, nor tells of a call inside one.                  *)
LEMMA ReadableGrows ==
  ASSUME NEW s \in Seq(Event), NEW e \in Event, Readable(s),
         e.type # "started",
         IsStart(e) => \A i \in 1 .. Len(s) : IsStart(s[i]) => s[i].message # e.message,
         Tells(e) => \A i \in 1 .. Len(s) : IsStart(s[i]) => IsEnded(s, s[i])
  PROVE  Readable(Append(s, e))
<1>1. PICK w : w = Append(s, e)
  OBVIOUS
<1>2. PICK a \in Nat : a = Len(s)
  OBVIOUS
<1>3. Len(w) = a + 1 /\ w[a + 1] = e /\ \A i \in 1 .. a : i \in 1 .. a + 1 /\ w[i] = s[i]
  BY <1>1, <1>2, OneMore
<1>4. \A k \in 1 .. a + 1 : k = a + 1 \/ (k \in 1 .. a /\ w[k] = s[k])
  BY <1>1, <1>2, <1>3, OneMore
<1>5. \A i \in 1 .. a + 1 : w[i].type = "started" => i = 1
  BY <1>2, <1>3, <1>4 DEF Readable
<1>6. ASSUME NEW i \in 1 .. a + 1, NEW j \in 1 .. a + 1, IsStart(w[i]), IsStart(w[j]), w[i].message = w[j].message
      PROVE  i = j
  BY <1>2, <1>3, <1>4, <1>6 DEF Readable, IsStart
<1>7. ASSUME NEW i \in 1 .. a + 1, NEW k \in 1 .. a + 1, IsStart(w[i]), Tells(w[k]), i < k
      PROVE  \E j \in 1 .. k - 1 : w[j].type = "textEnd" /\ w[j].message = w[i].message
  <2>1. i \in 1 .. a /\ w[i] = s[i]
    BY <1>4, <1>7
  <2>2. CASE k \in 1 .. a /\ w[k] = s[k]
    <3>1. PICK j \in 1 .. k - 1 : s[j].type = "textEnd" /\ s[j].message = s[i].message
      BY <1>2, <1>7, <2>1, <2>2 DEF Readable, IsStart, Tells
    <3>2. j \in 1 .. a
      BY <2>2
    <3> QED
      BY <1>3, <2>1, <3>1, <3>2
  <2>3. CASE k = a + 1
    <3>1. PICK j \in 1 .. a : s[j].type = "textEnd" /\ s[j].message = s[i].message
      BY <1>2, <1>3, <1>7, <2>1, <2>3 DEF IsStart, Tells, IsEnded
    <3>2. j \in 1 .. k - 1
      BY <2>3
    <3> QED
      BY <1>3, <2>1, <3>1, <3>2
  <2> QED
    BY <1>4, <2>2, <2>3
<1>8. Readable(w)
  BY <1>3, <1>5, <1>6, <1>7 DEF Readable
<1> QED
  BY <1>1, <1>8

(* A message may be opened when none is.                                   *)
LEMMA OpensText ==
  ASSUME NEW s \in Seq(Event), NEW m \in Nat, NEW e \in Event, e.type = "textStart", e.message = m,
         GoesOn(s, {}, m)
  PROVE  GoesOn(Append(s, e), {m}, m)
<1>1. PICK w : w = Append(s, e)
  OBVIOUS
<1>2. PICK a \in Nat : a = Len(s)
  OBVIOUS
<1>3. Len(w) = a + 1 /\ w[a + 1] = e /\ \A i \in 1 .. a : i \in 1 .. a + 1 /\ w[i] = s[i]
  BY <1>1, <1>2, OneMore
<1>4. \A k \in 1 .. a + 1 : k = a + 1 \/ (k \in 1 .. a /\ w[k] = s[k])
  BY <1>1, <1>2, <1>3, OneMore
<1>5. \A i \in 1 .. a : IsStart(s[i]) => s[i].message \in 0 .. m - 1
  BY <1>2 DEF GoesOn
<1>6. Readable(w)
  <2>1. \A i \in 1 .. a : IsStart(s[i]) => s[i].message # m
    BY <1>5
  <2> QED
    BY <1>1, <1>2, <2>1, ReadableGrows DEF GoesOn, Tells
<1>7. \A i \in 1 .. a + 1 : ~Closing(w[i])
  BY <1>2, <1>3, <1>4 DEF GoesOn, Closing
<1>8. \A i \in 1 .. a + 1 : IsStart(w[i]) => w[i].message \in 0 .. m - 1 \/ w[i].message = m
  BY <1>3, <1>4, <1>5 DEF IsStart
<1>9. \A i \in 1 .. a + 1 : IsStart(w[i]) => IsEnded(w, w[i]) \/ w[i].message = m
  BY <1>2, <1>3, <1>4 DEF GoesOn, IsEnded, IsStart
<1> QED
  BY <1>1, <1>3, <1>6, <1>7, <1>8, <1>9 DEF GoesOn

(* More of it may be said.                                                 *)
LEMMA SaysMore ==
  ASSUME NEW s \in Seq(Event), NEW m \in Nat, NEW e \in Event, e.type = "textContent",
         GoesOn(s, {m}, m)
  PROVE  GoesOn(Append(s, e), {m}, m)
<1>1. PICK w : w = Append(s, e)
  OBVIOUS
<1>2. PICK a \in Nat : a = Len(s)
  OBVIOUS
<1>3. Len(w) = a + 1 /\ w[a + 1] = e /\ \A i \in 1 .. a : i \in 1 .. a + 1 /\ w[i] = s[i]
  BY <1>1, <1>2, OneMore
<1>4. \A k \in 1 .. a + 1 : k = a + 1 \/ (k \in 1 .. a /\ w[k] = s[k])
  BY <1>1, <1>2, <1>3, OneMore
<1>5. Readable(w)
  BY <1>1, ReadableGrows DEF GoesOn, IsStart, Tells
<1>6. \A i \in 1 .. a + 1 : IsStart(w[i]) \/ Closing(w[i]) => i \in 1 .. a /\ w[i] = s[i]
  BY <1>3, <1>4 DEF IsStart, Closing
<1>7. \A i \in 1 .. a + 1 : ~Closing(w[i])
  BY <1>2, <1>6 DEF GoesOn, Closing
<1>8. \A i \in 1 .. a + 1 : IsStart(w[i]) => w[i].message \in 0 .. m - 1 \/ w[i].message = m
  BY <1>2, <1>6 DEF GoesOn, IsStart
<1>9. \A i \in 1 .. a + 1 : IsStart(w[i]) => IsEnded(w, w[i]) \/ w[i].message = m
  BY <1>2, <1>3, <1>6 DEF GoesOn, IsEnded, IsStart
<1> QED
  BY <1>1, <1>3, <1>5, <1>7, <1>8, <1>9 DEF GoesOn

(* The open message may be ended: the next stretch is another.             *)
LEMMA ClosesText ==
  ASSUME NEW s \in Seq(Event), NEW m \in Nat, NEW e \in Event, e.type = "textEnd", e.message = m,
         GoesOn(s, {m}, m)
  PROVE  GoesOn(Append(s, e), {}, m + 1)
<1>1. PICK w : w = Append(s, e)
  OBVIOUS
<1>2. PICK a \in Nat : a = Len(s)
  OBVIOUS
<1>3. Len(w) = a + 1 /\ w[a + 1] = e /\ \A i \in 1 .. a : i \in 1 .. a + 1 /\ w[i] = s[i]
  BY <1>1, <1>2, OneMore
<1>4. \A k \in 1 .. a + 1 : k = a + 1 \/ (k \in 1 .. a /\ w[k] = s[k])
  BY <1>1, <1>2, <1>3, OneMore
<1>5. Readable(w)
  BY <1>1, ReadableGrows DEF GoesOn, IsStart, Tells
<1>6. \A i \in 1 .. a + 1 : IsStart(w[i]) \/ Closing(w[i]) => i \in 1 .. a /\ w[i] = s[i]
  BY <1>3, <1>4 DEF IsStart, Closing
<1>7. \A i \in 1 .. a + 1 : ~Closing(w[i])
  BY <1>2, <1>6 DEF GoesOn, Closing
<1>8. \A i \in 1 .. a + 1 : IsStart(w[i]) => w[i].message \in 0 .. m + 1 - 1
  <2>1. \A x : x \in 0 .. m - 1 \/ x = m => x \in 0 .. m + 1 - 1
    OBVIOUS
  <2> QED
    BY <1>2, <1>6, <2>1 DEF GoesOn, IsStart
<1>9. ASSUME NEW i \in 1 .. a + 1, IsStart(w[i]) PROVE IsEnded(w, w[i])
  <2>1. i \in 1 .. a /\ w[i] = s[i]
    BY <1>6, <1>9
  <2>2. CASE w[i].message = m
    <3>1. a + 1 \in 1 .. a + 1
      OBVIOUS
    <3> QED
      BY <1>3, <2>2, <3>1 DEF IsEnded
  <2>3. CASE w[i].message # m
    BY <1>2, <1>3, <1>9, <2>1, <2>3 DEF GoesOn, IsStart, IsEnded
  <2> QED
    BY <2>2, <2>3
<1> QED
  BY <1>1, <1>3, <1>5, <1>7, <1>8, <1>9 DEF GoesOn

(* The last event: what the stream is then.                                *)
IsOver(s, open) ==
    /\ Readable(s)
    /\ Len(s) # 0 /\ \A i \in 1 .. Len(s) : Closing(s[i]) <=> i = Len(s)
    /\ \A i \in 1 .. Len(s) : IsStart(s[i]) => IsEnded(s, s[i]) \/ s[i].message \in open

LEMMA Closes ==
  ASSUME NEW s \in Seq(Event), NEW m \in Nat, NEW open, NEW e \in Event,
         e.type \in {"finished", "error"}, GoesOn(s, open, m)
  PROVE  IsOver(Append(s, e), open)
<1>1. PICK w : w = Append(s, e)
  OBVIOUS
<1>2. PICK a \in Nat : a = Len(s)
  OBVIOUS
<1>3. Len(w) = a + 1 /\ w[a + 1] = e /\ \A i \in 1 .. a : i \in 1 .. a + 1 /\ w[i] = s[i]
  BY <1>1, <1>2, OneMore
<1>4. \A k \in 1 .. a + 1 : k = a + 1 \/ (k \in 1 .. a /\ k # a + 1 /\ w[k] = s[k])
  BY <1>1, <1>2, <1>3, OneMore
<1>5. Readable(w)
  BY <1>1, ReadableGrows DEF GoesOn, IsStart, Tells
<1>6. \A i \in 1 .. a + 1 : Closing(w[i]) <=> i = a + 1
  BY <1>2, <1>3, <1>4 DEF GoesOn, Closing
<1>7. \A i \in 1 .. a + 1 : IsStart(w[i]) => i \in 1 .. a /\ w[i] = s[i]
  BY <1>3, <1>4 DEF IsStart
<1>8. \A i \in 1 .. a + 1 : IsStart(w[i]) => IsEnded(w, w[i]) \/ w[i].message \in open
  BY <1>2, <1>3, <1>7 DEF GoesOn, IsStart, IsEnded
<1> QED
  BY <1>1, <1>3, <1>5, <1>6, <1>8 DEF IsOver

-----------------------------------------------------------------------------
(* The calls of a run.                                                     *)

TellsOf(s, c) == \E i \in 1 .. Len(s) : s[i].type = "call" /\ s[i].call = c
HasResult(s, c) == \E i \in 1 .. Len(s) : s[i].type = "result" /\ s[i].call = c
Opening == IF textOpen THEN {messageIndex} ELSE {}
LeftOpen == IF node = "finished" \/ harness = "graph" THEN {} ELSE {messageIndex}

(* The stream so far, and how its place in it goes with the answers given. *)
StreamInv ==
    /\ harness \in {"once", "graph"}
    /\ node \in {"new", "answer", "tools", "ending", "gone", "finished", "failed"}
    /\ textOpen \in BOOLEAN /\ turn \in 1 .. MaxTurns
    /\ messageIndex \in 0 .. turn /\ (node # "finished" => messageIndex \in 0 .. turn - 1)
    /\ sent \in Seq(Event)
    /\ node = "new" => sent = <<>>
    /\ node \notin Over => GoesOn(sent, Opening, messageIndex)
    /\ node \in Over => IsOver(sent, LeftOpen)

(* What is being called, was called and is remembered are calls of the     *)
(* answers given, and each call whose result is awaited is remembered.     *)
CallsInv ==
    /\ confused \in BOOLEAN
    /\ calls \in Seq(Call) /\ remembered \subseteq [id : Ids, call : Call] /\ ran \subseteq Call
    /\ node \in {"new", "answer"} => calls = <<>>
    /\ node = "tools" => harness = "graph"
    /\ flying \subseteq ToSet(calls) /\ (flying # {} => node \in {"tools", "gone"})
    /\ \A c \in ToSet(calls) : c.turn = turn
    /\ \A c \in ran : c.turn \in 1 .. turn /\ (c.turn = turn => c \in ToSet(calls))
    /\ node = "tools" => \A c \in ToSet(calls) : Found(c) # {}
    /\ node = "tools" /\ ~confused =>
          /\ \A i, j \in 1 .. Len(calls) : Key(calls[i]) = Key(calls[j]) => i = j
          /\ \A c \in ToSet(calls) : \A p \in Found(c) : p.call = c

ToldInv ==
    /\ ~confused => \A c \in ran : c.turn < turn => TellsOf(sent, c) /\ HasResult(sent, c)
    /\ harness = "once" /\ node = "finished" => \A c \in ToSet(calls) : TellsOf(sent, c)

LEMMA KeyTyped == ASSUME NEW c \in Call PROVE Key(c) \in Ids
BY DEF Call, Key, Ids

(* What is told stays told.                                                *)
LEMMA ToldStays ==
  ASSUME NEW X, NEW s \in Seq(X), NEW t \in Seq(X), NEW c
  PROVE  /\ TellsOf(s, c) \/ TellsOf(t, c) => TellsOf(s \o t, c)
         /\ HasResult(s, c) \/ HasResult(t, c) => HasResult(s \o t, c)
<1>1. PICK w : w = s \o t
  OBVIOUS
<1>2. PICK a \in Nat : a = Len(s)
  OBVIOUS
<1>3. /\ \A i \in 1 .. a : i \in 1 .. Len(w) /\ w[i] = s[i]
      /\ \A i \in 1 .. Len(t) : a + i \in 1 .. Len(w) /\ w[a + i] = t[i]
  BY <1>1, <1>2, ConcatPlaces
<1>4. TellsOf(s, c) \/ TellsOf(t, c) => TellsOf(w, c)
  BY <1>2, <1>3 DEF TellsOf
<1>5. HasResult(s, c) \/ HasResult(t, c) => HasResult(w, c)
  BY <1>2, <1>3 DEF HasResult
<1> QED
  BY <1>1, <1>4, <1>5


(* Every call of an answer is remembered under its key, if not as itself   *)
(* then as a later call of that key; and as itself if the keys differ.     *)
LEMMA SeenRemembers ==
  ASSUME remembered \subseteq [id : Ids, call : Call], NEW cs \in Answers
  PROVE  /\ cs \in Seq(Call)
         /\ Seen(cs) \subseteq [id : Ids, call : Call]
         /\ \A c \in ToSet(cs) : \E p \in Seen(cs) : p.id = Key(c)
         /\ (\A i, j \in 1 .. Len(cs) : Key(cs[i]) = Key(cs[j]) => i = j) =>
               \A c \in ToSet(cs) : \A p \in Seen(cs) : p.id = Key(c) => p.call = c
<1> DEFINE IsLast(c) == \A d \in ToSet(cs) : Key(d) = Key(c) => d.nth <= c.nth
           now == {[id |-> Key(c), call |-> c] : c \in {d \in ToSet(cs) : IsLast(d)}}
<1>1. Seen(cs) = now \cup {p \in remembered : \A q \in now : q.id # p.id}
  BY DEF Seen
<1>2. PICK n \in 0 .. MaxCalls : cs \in [1 .. n -> Call]
  BY DEF Answers
<1>3. cs \in Seq(Call) /\ Len(cs) = n /\ DOMAIN cs = 1 .. n
  BY <1>2, RunAssumption
<1>4. \A c : c \in ToSet(cs) <=> \E i \in 1 .. n : c = cs[i]
  BY <1>3 DEF ToSet
<1>5. \A c \in ToSet(cs) : c \in Call
  BY <1>2, <1>4
<1>6. \A p \in now : \E c \in ToSet(cs) : IsLast(c) /\ p = [id |-> Key(c), call |-> c]
  OBVIOUS
<1>7. Seen(cs) \subseteq [id : Ids, call : Call]
  <2>1. now \subseteq [id : Ids, call : Call]
    BY <1>5, KeyTyped
  <2> HIDE DEF now
  <2> QED
    BY <1>1, <2>1
<1>8. ASSUME NEW c \in ToSet(cs) PROVE \E p \in Seen(cs) : p.id = Key(c)
  <2> DEFINE S == {d.nth : d \in {e \in ToSet(cs) : Key(e) = Key(c)}}
  <2>1. S \subseteq Nat /\ \A x \in S : x <= MaxCalls
    BY <1>5, RunAssumption DEF Call
  <2>2. S # {}
    OBVIOUS
  <2>3. PICK x \in S : \A y \in S : y <= x
    <3> HIDE DEF S
    <3> QED
      BY <2>1, <2>2, Greatest, RunAssumption
  <2>4. PICK d \in ToSet(cs) : Key(d) = Key(c) /\ d.nth = x
    BY <2>3
  <2>5. IsLast(d)
    <3> SUFFICES ASSUME NEW e \in ToSet(cs), Key(e) = Key(d) PROVE e.nth <= d.nth
      OBVIOUS
    <3>1. e.nth \in S
      BY <2>4
    <3> QED
      BY <2>3, <2>4, <3>1
  <2>6. PICK p : p = [id |-> Key(d), call |-> d]
    OBVIOUS
  <2>7. p \in now /\ p.id = Key(c)
    BY <2>4, <2>5, <2>6
  <2> HIDE DEF now
  <2> QED
    BY <1>1, <2>7
<1>9. ASSUME \A i, j \in 1 .. Len(cs) : Key(cs[i]) = Key(cs[j]) => i = j,
             NEW c \in ToSet(cs), NEW p \in Seen(cs), p.id = Key(c)
      PROVE  p.call = c
  <2>1. \A d \in ToSet(cs) : Key(d) = Key(c) => d = c
    <3> SUFFICES ASSUME NEW d \in ToSet(cs), Key(d) = Key(c) PROVE d = c
      OBVIOUS
    <3>1. PICK i \in 1 .. n : c = cs[i]
      BY <1>4
    <3>2. PICK j \in 1 .. n : d = cs[j]
      BY <1>4
    <3> QED
      BY <1>3, <1>9, <3>1, <3>2
  <2>2. IsLast(c)
    <3>1. c.nth \in Nat
      BY <1>5 DEF Call
    <3> QED
      BY <2>1, <3>1
  <2>3. PICK q : q = [id |-> Key(c), call |-> c]
    OBVIOUS
  <2>4. q \in now /\ q.id = p.id
    BY <1>9, <2>2, <2>3
  <2>5. p \in now
    <3> HIDE DEF now
    <3> QED
      BY <1>1, <2>4
  <2>6. PICK d \in ToSet(cs) : p = [id |-> Key(d), call |-> d]
    BY <2>5
  <2> QED
    BY <1>9, <2>1, <2>6
<1> QED
  BY <1>3, <1>7, <1>8, <1>9

(* What the tools node reports: calls and results and nothing else, and of *)
(* every call if no two share a key.                                       *)
LEMMA ResultsTell ==
  ASSUME CallsInv, node = "tools"
  PROVE  /\ Results \in Seq(CallEvents)
         /\ ~confused => \A c \in ToSet(calls) : TellsOf(Results, c) /\ HasResult(Results, c)
<1> DEFINE Again(i) == \E j \in 1 .. i - 1 : Key(calls[j]) = Key(calls[i])
           One(i) == IF Again(i) THEN <<>>
                     ELSE LET id == Key(calls[i])
                              p == CHOOSE p \in Found(calls[i]) : TRUE
                          IN  <<CallEvent(id, p.call), [type |-> "result", id |-> id, call |-> calls[i]]>>
<1>1. PICK n \in Nat : n = Len(calls) /\ DOMAIN calls = 1 .. n
  BY DEF CallsInv
<1>2. PICK S : S = [i \in 1 .. n |-> One(i)]
  OBVIOUS
<1>3. Results = FlattenSeq(S)
  BY <1>1, <1>2 DEF Results
<1>4. \A i \in 1 .. n : calls[i] \in Call /\ calls[i] \in ToSet(calls)
  BY <1>1 DEF CallsInv, ToSet
<1>5. ASSUME NEW i \in 1 .. n, ~Again(i)
      PROVE  \E e, f \in CallEvents : /\ S[i] = <<e, f>>
                                      /\ e.type = "call" /\ f.type = "result" /\ f.call = calls[i]
                                      /\ ~confused => e.call = calls[i]
  <2>1. PICK c : c = calls[i]
    OBVIOUS
  <2>2. c \in ToSet(calls) /\ c \in Call
    BY <1>4, <2>1
  <2>3. PICK p : p = CHOOSE q \in Found(c) : TRUE
    OBVIOUS
  <2>4. p \in Found(c)
    BY <2>2, <2>3 DEF CallsInv
  <2>5. p \in [id : Ids, call : Call]
    BY <2>4 DEF CallsInv, Found
  <2>6. ~confused => p.call = c
    BY <2>2, <2>4 DEF CallsInv
  <2>7. PICK id \in Ids : id = Key(c)
    BY <2>2, KeyTyped
  <2>8. PICK e : e = [type |-> "call", id |-> id, call |-> p.call]
    OBVIOUS
  <2>9. PICK f : f = [type |-> "result", id |-> id, call |-> c]
    OBVIOUS
  <2>10. e \in CallEvents /\ f \in CallEvents
    BY <2>2, <2>5, <2>8, <2>9 DEF CallEvents
  <2>11. S[i] = <<e, f>>
    BY <1>2, <1>5, <2>1, <2>3, <2>7, <2>8, <2>9 DEF CallEvent
  <2>12. e.type = "call" /\ f.type = "result" /\ f.call = c /\ (~confused => e.call = c)
    BY <2>6, <2>8, <2>9
  <2> QED
    BY <2>1, <2>10, <2>11, <2>12
<1>6. ASSUME NEW i \in 1 .. n, Again(i) PROVE S[i] = <<>>
  BY <1>2, <1>6
<1>7. S \in Seq(Seq(CallEvents)) /\ Len(S) = n
  <2>1. ASSUME NEW i \in 1 .. n PROVE S[i] \in Seq(CallEvents)
    <3>1. CASE Again(i)
      <4>1. S[i] = <<>>
        BY <1>6, <3>1
      <4> QED
        BY <4>1
    <3>2. CASE ~Again(i)
      <4>1. PICK e \in CallEvents, f \in CallEvents : S[i] = <<e, f>>
        BY <1>5, <3>2
      <4> QED
        BY <4>1
    <3> QED
      BY <3>1, <3>2
  <2> HIDE DEF One
  <2> QED
    BY <1>2, <2>1
<1> HIDE DEF Again, One
<1>8. PICK r : r = FlattenSeq(S)
  OBVIOUS
<1>9. r \in Seq(CallEvents) /\ ToSet(r) = UNION {ToSet(S[i]) : i \in 1 .. n}
  BY <1>7, <1>8, FlattenProperties
<1>10. ASSUME ~confused, NEW c \in ToSet(calls) PROVE TellsOf(r, c) /\ HasResult(r, c)
  <2>1. PICK i \in 1 .. n : c = calls[i]
    BY <1>1 DEF ToSet
  <2>2. ~Again(i)
    <3>1. \A j \in 1 .. i - 1 : j \in 1 .. n /\ j # i
      OBVIOUS
    <3> QED
      BY <1>1, <1>10, <3>1 DEF Again, CallsInv
  <2>3. PICK e \in CallEvents, f \in CallEvents :
           S[i] = <<e, f>> /\ e.type = "call" /\ f.type = "result" /\ f.call = c /\ e.call = c
    BY <1>5, <1>10, <2>1, <2>2
  <2>4. e \in ToSet(S[i]) /\ f \in ToSet(S[i])
    <3>1. PICK t : t = <<e, f>>
      OBVIOUS
    <3>2. DOMAIN t = 1 .. 2 /\ t[1] = e /\ t[2] = f
      BY <3>1
    <3>3. e \in ToSet(t) /\ f \in ToSet(t)
      BY <3>2 DEF ToSet
    <3> QED
      BY <2>3, <3>1, <3>3
  <2>5. e \in ToSet(r) /\ f \in ToSet(r)
    BY <1>9, <2>4
  <2>6. (\E k \in 1 .. Len(r) : e = r[k]) /\ (\E k \in 1 .. Len(r) : f = r[k])
    BY <1>9, <2>5 DEF ToSet
  <2> QED
    BY <2>3, <2>6 DEF TellsOf, HasResult
<1> QED
  BY <1>3, <1>8, <1>9, <1>10

RunInv == StreamInv /\ CallsInv /\ ToldInv

LEMMA RunStarts == RunInit => RunInv
<1> SUFFICES ASSUME RunInit PROVE RunInv
  OBVIOUS
<1>1. PICK s : s = sent
  OBVIOUS
<1>2. s \in Seq(Event) /\ Len(s) = 0 /\ 1 .. Len(s) = {}
  BY <1>1 DEF RunInit
<1>3. Readable(s)
  BY <1>2 DEF Readable
<1>4. GoesOn(s, Opening, messageIndex)
  BY <1>2, <1>3 DEF GoesOn
<1>5. StreamInv
  <2>1. turn \in 1 .. MaxTurns /\ messageIndex \in 0 .. turn - 1 /\ messageIndex \in 0 .. turn
    BY RunAssumption DEF RunInit
  <2> QED
    BY <1>1, <1>2, <1>4, <2>1 DEF StreamInv, RunInit, Over
<1>6. CallsInv
  <2>1. calls \in Seq(Call) /\ ToSet(calls) = {}
    BY DEF RunInit, ToSet
  <2> QED
    BY <2>1 DEF CallsInv, RunInit
<1>7. ToldInv
  BY DEF ToldInv, RunInit
<1> QED
  BY <1>5, <1>6, <1>7 DEF RunInv

(* Steps that send nothing keep the stream.                                *)
LEMMA NothingSent ==
  ASSUME StreamInv, UNCHANGED <<harness, turn, textOpen, messageIndex, sent>>,
         node \notin Over, node' \in {"answer", "tools", "ending", "gone"}
  PROVE  StreamInv'
BY DEF StreamInv, Opening, LeftOpen, Over

(* Steps that only leave off keep what is known of the calls.              *)
LEMMA CallsLeft ==
  ASSUME CallsInv, UNCHANGED <<harness, turn, calls, remembered, flying, ran, confused>>,
         node' \in {"failed", "gone", "finished"}, flying # {} => node' = "gone"
  PROVE  CallsInv'
BY DEF CallsInv, Found, Key

(* What was told stays told, whatever is sent after it.                    *)
LEMMA ToldMore ==
  ASSUME StreamInv, ToldInv, NEW t \in Seq(Event), sent' = sent \o t,
         UNCHANGED <<harness, turn, ran, confused>>,
         node # "finished", node' = "finished" => harness # "once" \/ \A c \in ToSet(calls') : TellsOf(sent', c)
  PROVE  ToldInv'
<1>1. ~confused => \A c \in ran : c.turn < turn => TellsOf(sent', c) /\ HasResult(sent', c)
  BY ToldStays DEF StreamInv, ToldInv
<1> QED
  BY <1>1 DEF ToldInv, TellsOf, HasResult

LEMMA BeginKeeps == ASSUME RunInv, Begin PROVE RunInv'
<1>1. PICK e : e = [type |-> "started"]
  OBVIOUS
<1>2. e \in Event /\ e.type = "started"
  BY <1>1 DEF Event
<1>3. PICK s : s = sent'
  OBVIOUS
<1>4. s \in Seq(Event) /\ Len(s) = 1 /\ s[1] = e
  BY <1>1, <1>2, <1>3 DEF Begin
<1>5. \A i \in 1 .. 1 : i = 1
  OBVIOUS
<1>6. Readable(s)
  BY <1>2, <1>4, <1>5 DEF Readable, IsStart, Tells
<1>7. GoesOn(s, Opening', messageIndex')
  BY <1>2, <1>4, <1>5, <1>6 DEF GoesOn, IsStart, Closing
<1>8. StreamInv'
  BY <1>3, <1>4, <1>7 DEF RunInv, StreamInv, Begin, Over
<1>9. CallsInv'
  BY DEF RunInv, CallsInv, Begin
<1>10. ToldInv'
  <2>1. calls = <<>> /\ ToSet(calls) = {}
    BY DEF RunInv, CallsInv, Begin, ToSet
  <2>2. turn' = turn /\ confused' = confused /\ ran' = ran
    BY DEF Begin
  <2>3. \A c : ~TellsOf(sent, c)
    BY DEF RunInv, StreamInv, Begin, TellsOf
  <2> QED
    BY <2>1, <2>2, <2>3 DEF RunInv, ToldInv, Begin
<1> QED
  BY <1>8, <1>9, <1>10 DEF RunInv

LEMMA ProseKeeps == ASSUME RunInv, Prose PROVE RunInv'
<1>1. PICK m \in Nat : m = messageIndex
  BY DEF RunInv, StreamInv
<1>2. PICK d : d = Text("textStart")
  OBVIOUS
<1>3. PICK e : e = Text("textContent")
  OBVIOUS
<1>4. /\ d \in Event /\ d.type = "textStart" /\ d.message = m
      /\ e \in Event /\ e.type = "textContent"
  BY <1>1, <1>2, <1>3 DEF Text, Event
<1>5. sent \in Seq(Event) /\ GoesOn(sent, {}, m)
  BY <1>1 DEF RunInv, StreamInv, Prose, Opening, Over
<1>6. PICK s : s = Append(sent, d)
  OBVIOUS
<1>7. s \in Seq(Event) /\ GoesOn(s, {m}, m)
  BY <1>4, <1>5, <1>6, OpensText
<1>8. GoesOn(Append(s, e), {m}, m)
  BY <1>4, <1>7, SaysMore
<1>9. sent' = Append(s, e)
  BY <1>2, <1>3, <1>4, <1>5, <1>6, ConcatTwo DEF Prose
<1>10. StreamInv'
  <2>1. sent' \in Seq(Event) /\ GoesOn(sent', {m}, m)
    BY <1>4, <1>7, <1>8, <1>9
  <2>2. Opening' = {m} /\ messageIndex' = m
    BY <1>1 DEF Prose, Opening
  <2> QED
    BY <2>1, <2>2 DEF RunInv, StreamInv, Prose, Over
<1>11. CallsInv'
  BY DEF RunInv, CallsInv, Prose
<1>12. ToldInv'
  <2>1. PICK t : t = <<d, e>>
    OBVIOUS
  <2>2. t \in Seq(Event) /\ sent' = sent \o t
    BY <1>2, <1>3, <1>4, <2>1 DEF Prose
  <2> QED
    BY <2>2, ToldMore DEF RunInv, Prose
<1> QED
  BY <1>10, <1>11, <1>12 DEF RunInv

LEMMA ModelKeeps == ASSUME RunInv, NEW cs \in Answers, ModelEnds(cs) PROVE RunInv'
<1>1. node = "answer" /\ node' \in {"ending", "tools"}
  BY DEF ModelEnds
<1>2. StreamInv'
  BY <1>1, NothingSent DEF RunInv, ModelEnds, Over
<1>3. cs \in Seq(Call) /\ DOMAIN cs = 1 .. Len(cs)
  BY SeenRemembers DEF RunInv, CallsInv
<1>4. \A c \in ToSet(cs) : c.turn = turn
  BY DEF Answers, ToSet
<1>5. calls' = cs /\ flying = {} /\ ToSet(calls) = {}
  BY <1>1 DEF RunInv, CallsInv, ModelEnds, ToSet
<1>6. \A c : Key(c)' = Key(c)
  BY DEF ModelEnds, Key
<1>7. CallsInv'
  <2>1. calls' \in Seq(Call) /\ ran' \subseteq Call /\ confused' \in BOOLEAN
    BY <1>3, <1>5 DEF RunInv, CallsInv, ModelEnds
  <2>2. (remembered \subseteq [id : Ids, call : Call])'
    BY SeenRemembers DEF RunInv, CallsInv, ModelEnds
  <2>3. node' = "tools" => harness' = "graph" /\ flying' = ToSet(cs) /\ remembered' = Seen(cs)
    BY DEF ModelEnds, RunInv, StreamInv
  <2>4. node' = "ending" => flying' = {}
    BY <1>1, <1>5 DEF ModelEnds
  <2>5. \A c \in ToSet(calls') : c.turn = turn'
    BY <1>4, <1>5 DEF ModelEnds
  <2>6. \A c \in ran' : c.turn \in 1 .. turn' /\ (c.turn = turn' => c \in ToSet(calls'))
    BY <1>5 DEF RunInv, CallsInv, ModelEnds
  <2>7. node' = "tools" => \A c \in ToSet(cs) : Found(c)' # {}
    <3> SUFFICES ASSUME node' = "tools", NEW c \in ToSet(cs) PROVE Found(c)' # {}
      OBVIOUS
    <3>1. PICK p \in Seen(cs) : p.id = Key(c)
      BY SeenRemembers DEF RunInv, CallsInv
    <3> QED
      BY <1>6, <2>3, <3>1 DEF Found
  <2>8. ASSUME node' = "tools", ~confused'
        PROVE  /\ \A i, j \in 1 .. Len(cs) : Key(cs[i]) = Key(cs[j]) => i = j
               /\ \A c \in ToSet(cs) : \A p \in Found(c)' : p.call = c
    <3>1. \A i, j \in 1 .. Len(cs) : Key(cs[i]) = Key(cs[j]) => i = j
      <4> SUFFICES ASSUME NEW i \in 1 .. Len(cs), NEW j \in 1 .. Len(cs), Key(cs[i]) = Key(cs[j]), i # j PROVE FALSE
        OBVIOUS
      <4>1. i \in DOMAIN cs /\ j \in DOMAIN cs /\ (i < j \/ j < i)
        BY <1>3
      <4> QED
        BY <2>8, <4>1 DEF ModelEnds
    <3>2. \A c \in ToSet(cs) : \A p \in Seen(cs) : p.id = Key(c) => p.call = c
      BY <3>1, SeenRemembers DEF RunInv, CallsInv
    <3>3. \A c : Found(c)' = {p \in Seen(cs) : p.id = Key(c)}
      BY <1>6, <2>3, <2>8 DEF Found
    <3> QED
      BY <3>1, <3>2, <3>3
  <2>9. node' = "tools" /\ ~confused' => \A i, j \in 1 .. Len(calls') : Key(calls[i])' = Key(calls[j])' => i = j
    BY <1>5, <2>8 DEF ModelEnds, Key
  <2>10. node' = "tools" /\ ~confused' => \A c \in ToSet(calls') : \A p \in Found(c)' : p.call = c
    BY <1>5, <2>8
  <2> QED
    BY <1>1, <1>5, <2>1, <2>2, <2>3, <2>4, <2>5, <2>6, <2>7, <2>9, <2>10 DEF CallsInv
<1>8. ToldInv'
  <2>1. ~confused' => ~confused
    BY DEF ModelEnds
  <2> QED
    BY <1>1, <2>1 DEF RunInv, ToldInv, ModelEnds, TellsOf, HasResult
<1> QED
  BY <1>2, <1>7, <1>8 DEF RunInv

LEMMA CallKeeps == ASSUME RunInv, NEW c \in flying, CallTool(c) PROVE RunInv'
<1>1. StreamInv'
  BY DEF RunInv, StreamInv, CallTool, Opening, LeftOpen, Over
<1>2. c \in ToSet(calls) /\ c \in Call /\ c.turn = turn /\ node \in {"tools", "gone"}
  <2>1. PICK i \in DOMAIN calls : c = calls[i]
    BY DEF RunInv, CallsInv, ToSet
  <2> QED
    BY <2>1 DEF RunInv, CallsInv
<1>3. ran' \subseteq ran \cup {c}
  BY DEF CallTool
<1>4. CallsInv'
  <2>1. \A d \in ran' : d.turn \in 1 .. turn /\ (d.turn = turn => d \in ToSet(calls))
    <3>1. turn \in 1 .. turn
      BY DEF RunInv, StreamInv
    <3> QED
      BY <1>2, <1>3, <3>1 DEF RunInv, CallsInv
  <2> QED
    BY <1>2, <1>3, <2>1 DEF RunInv, CallsInv, CallTool, Found, Key
<1>5. ToldInv'
  <2>1. \A d \in ran' : d.turn < turn => d \in ran
    <3>1. ~(c.turn < turn)
      BY <1>2 DEF RunInv, StreamInv
    <3> QED
      BY <1>3, <3>1
  <2> QED
    BY <1>2, <2>1 DEF RunInv, ToldInv, CallTool, TellsOf, HasResult
<1> QED
  BY <1>1, <1>4, <1>5 DEF RunInv

(* The open message is ended, if there is one.                             *)
LEMMA TextCloses ==
  ASSUME StreamInv, node \notin Over
  PROVE  /\ End \in Seq(Event) /\ Closed \in Nat
         /\ sent \o End \in Seq(Event) /\ GoesOn(sent \o End, {}, Closed)
<1>1. PICK m \in Nat : m = messageIndex
  BY DEF StreamInv
<1>2. sent \in Seq(Event) /\ GoesOn(sent, Opening, m)
  BY <1>1 DEF StreamInv
<1>3. CASE textOpen
  <2>1. PICK e : e = Text("textEnd")
    OBVIOUS
  <2>2. e \in Event /\ e.type = "textEnd" /\ e.message = m
    BY <1>1, <2>1 DEF Text, Event
  <2>3. GoesOn(sent, {m}, m)
    BY <1>1, <1>2, <1>3 DEF Opening
  <2>4. PICK s : s = Append(sent, e)
    OBVIOUS
  <2>5. s \in Seq(Event) /\ GoesOn(s, {}, m + 1)
    BY <1>2, <2>2, <2>3, <2>4, ClosesText
  <2>6. End = <<e>> /\ Closed = m + 1
    BY <1>1, <1>3, <2>1 DEF End, Closed
  <2>7. sent \o End = s /\ End \in Seq(Event) /\ Closed \in Nat
    BY <1>2, <2>2, <2>4, <2>6, ConcatOne
  <2> QED
    BY <2>5, <2>6, <2>7, Zenon
<1>4. CASE ~textOpen
  <2>1. End = <<>> /\ Closed = m
    BY <1>1, <1>4 DEF End, Closed
  <2>2. Opening = {}
    BY <1>4 DEF Opening
  <2>3. sent \o End = sent
    BY <1>2, <2>1
  <2> QED
    BY <1>2, <2>1, <2>2, <2>3
<1> QED
  BY <1>3, <1>4

LEMMA EventTypes == CallEvents \subseteq Event /\ \A e \in CallEvents : Tells(e)
BY DEF CallEvents, Event, Tells

LEMMA ToolsKeep == ASSUME RunInv, ToolsEnd PROVE RunInv'
<1>1. node = "tools" /\ node' = "answer" /\ node \notin Over /\ flying = {} /\ turn < MaxTurns /\ turn' = turn + 1
  BY DEF ToolsEnd, Over
<1>2. PICK s : s = sent \o End
  OBVIOUS
<1>3. PICK m \in Nat : m = Closed
  BY <1>1, TextCloses DEF RunInv
<1>4. End \in Seq(Event) /\ s \in Seq(Event) /\ GoesOn(s, {}, m)
  BY <1>1, <1>2, <1>3, TextCloses DEF RunInv
<1>5. PICK r : r = Results
  OBVIOUS
<1>6. r \in Seq(CallEvents)
  BY <1>1, <1>5, ResultsTell DEF RunInv
<1>7. r \in Seq(Event) /\ \A i \in 1 .. Len(r) : Tells(r[i])
  <2>1. r \in Seq(Event)
    BY <1>6, EventTypes, WiderSeq
  <2>2. \A i \in 1 .. Len(r) : r[i] \in CallEvents
    BY <1>6
  <2> QED
    BY <2>1, <2>2, EventTypes DEF Tells
<1>8. sent' = s \o r
  BY <1>2, <1>5 DEF ToolsEnd, BeforeReport
<1>9. sent' \in Seq(Event) /\ GoesOn(sent', {}, m)
  BY <1>4, <1>7, <1>8, CallsFollow
<1>10. StreamInv'
  <2>1. Opening' = {} /\ messageIndex' = m /\ textOpen' = FALSE
    BY <1>3 DEF ToolsEnd, closeText, Opening
  <2>2. m \in 0 .. turn' - 1 /\ m \in 0 .. turn' /\ turn' \in 1 .. MaxTurns
    <3>1. messageIndex \in 0 .. turn - 1 /\ turn \in 1 .. MaxTurns
      BY <1>1 DEF RunInv, StreamInv
    <3>2. m = messageIndex \/ m = messageIndex + 1
      BY <1>3 DEF Closed
    <3> QED
      BY <1>1, <3>1, <3>2, RunAssumption
  <2> QED
    BY <1>1, <1>9, <2>1, <2>2 DEF RunInv, StreamInv, ToolsEnd, Over
<1>11. CallsInv'
  <2>1. calls' = <<>> /\ calls' \in Seq(Call) /\ ToSet(calls') = {}
    BY DEF ToolsEnd, ToSet
  <2>2. \A c \in ran' : c.turn \in 1 .. turn' /\ c.turn # turn'
    BY <1>1 DEF RunInv, StreamInv, CallsInv, ToolsEnd
  <2>3. remembered' \subseteq remembered
    BY DEF ToolsEnd
  <2> QED
    BY <1>1, <2>1, <2>2, <2>3 DEF RunInv, CallsInv, ToolsEnd
<1>12. ToldInv'
  <2>1. ASSUME ~confused, NEW c \in ran, c.turn < turn + 1
        PROVE  TellsOf(sent', c) /\ HasResult(sent', c)
    <3>1. CASE c.turn = turn
      <4>1. c \in ToSet(calls)
        BY <3>1 DEF RunInv, CallsInv
      <4>2. TellsOf(r, c) /\ HasResult(r, c)
        BY <1>1, <1>5, <2>1, <4>1, ResultsTell DEF RunInv
      <4> QED
        BY <1>4, <1>7, <1>8, <4>2, ToldStays
    <3>2. CASE c.turn # turn
      <4>1. c.turn < turn
        BY <2>1, <3>2 DEF RunInv, StreamInv, CallsInv
      <4>2. TellsOf(sent, c) /\ HasResult(sent, c)
        BY <2>1, <4>1 DEF RunInv, ToldInv
      <4>3. sent \in Seq(Event)
        BY DEF RunInv, StreamInv
      <4>4. TellsOf(s, c) /\ HasResult(s, c)
        BY <1>2, <1>4, <4>2, <4>3, ToldStays
      <4> QED
        BY <1>4, <1>7, <1>8, <4>4, ToldStays
    <3> QED
      BY <3>1, <3>2
  <2> QED
    BY <1>1, <2>1 DEF ToldInv, ToolsEnd, TellsOf, HasResult
<1> QED
  BY <1>10, <1>11, <1>12 DEF RunInv

(* All of a last answer's calls, one event each.                           *)
LEMMA AskedTells ==
  ASSUME CallsInv
  PROVE  AskedAll \in Seq(CallEvents) /\ \A c \in ToSet(calls) : TellsOf(AskedAll, c)
<1>1. PICK n \in Nat : n = Len(calls) /\ DOMAIN calls = 1 .. n
  BY DEF CallsInv
<1>2. \A i \in 1 .. n : calls[i] \in Call
  BY <1>1 DEF CallsInv
<1>3. PICK r : r = AskedAll
  OBVIOUS
<1>4. r = [i \in 1 .. n |-> CallEvent(Key(calls[i]), calls[i])]
  BY <1>1, <1>3 DEF AskedAll
<1>5. ASSUME NEW i \in 1 .. n
      PROVE  r[i] \in CallEvents /\ r[i].type = "call" /\ r[i].call = calls[i]
  <2>1. PICK c \in Call : c = calls[i]
    BY <1>2
  <2>2. PICK id \in Ids : id = Key(c)
    BY KeyTyped
  <2>3. PICK e : e = [type |-> "call", id |-> id, call |-> c]
    OBVIOUS
  <2>4. e \in CallEvents /\ e.type = "call" /\ e.call = c
    BY <2>3 DEF CallEvents
  <2>5. r[i] = e
    BY <1>4, <2>1, <2>2, <2>3 DEF CallEvent
  <2> QED
    BY <2>1, <2>4, <2>5
<1>6. r \in Seq(CallEvents) /\ Len(r) = n
  BY <1>4, <1>5
<1>7. \A c \in ToSet(calls) : \E i \in 1 .. n : c = calls[i]
  BY <1>1 DEF ToSet
<1>8. \A c \in ToSet(calls) : TellsOf(r, c)
  BY <1>5, <1>6, <1>7 DEF TellsOf
<1> QED
  BY <1>3, <1>6, <1>8

LEMMA FinishKeeps == ASSUME RunInv, Finish PROVE RunInv'
<1>1. node = "ending" /\ node' = "finished" /\ node \notin Over
  BY DEF Finish, Over
<1>2. PICK s : s = sent \o End
  OBVIOUS
<1>3. PICK m \in Nat : m = Closed
  BY <1>1, TextCloses DEF RunInv
<1>4. End \in Seq(Event) /\ s \in Seq(Event) /\ GoesOn(s, {}, m)
  BY <1>1, <1>2, <1>3, TextCloses DEF RunInv
<1>5. PICK r : r = IF harness = "once" THEN AskedAll ELSE <<>>
  OBVIOUS
<1>6. r \in Seq(CallEvents)
  BY <1>5, AskedTells DEF RunInv
<1>7. r \in Seq(Event) /\ \A i \in 1 .. Len(r) : Tells(r[i])
  <2>1. r \in Seq(Event)
    BY <1>6, EventTypes, WiderSeq
  <2>2. \A i \in 1 .. Len(r) : r[i] \in CallEvents
    BY <1>6
  <2> QED
    BY <2>1, <2>2, EventTypes DEF Tells
<1>8. PICK w : w = s \o r
  OBVIOUS
<1>9. w \in Seq(Event) /\ GoesOn(w, {}, m)
  BY <1>4, <1>7, <1>8, CallsFollow
<1>10. PICK e : e = [type |-> "finished"]
  OBVIOUS
<1>11. e \in Event /\ e.type = "finished"
  BY <1>10 DEF Event
<1>12. sent' = w \o <<e>>
  BY <1>2, <1>5, <1>8, <1>10 DEF Finish
<1>13. sent' = Append(w, e)
  BY <1>9, <1>11, <1>12, ConcatOne
<1>14. sent' \in Seq(Event)
  BY <1>9, <1>11, <1>13
<1>15. IsOver(sent', {})
  BY <1>9, <1>11, <1>13, Closes
<1>16. StreamInv'
  <2>1. LeftOpen' = {} /\ messageIndex' = m /\ textOpen' = FALSE
    BY <1>1, <1>3 DEF Finish, closeText, LeftOpen
  <2>2. m \in 0 .. turn
    <3>1. messageIndex \in 0 .. turn - 1 /\ turn \in 1 .. MaxTurns
      BY <1>1 DEF RunInv, StreamInv
    <3>2. m = messageIndex \/ m = messageIndex + 1
      BY <1>3 DEF Closed
    <3> QED
      BY <3>1, <3>2, RunAssumption
  <2> QED
    BY <1>1, <1>14, <1>15, <2>1, <2>2 DEF RunInv, StreamInv, Finish, Over
<1>17. CallsInv'
  BY <1>1, CallsLeft DEF RunInv, CallsInv, Finish
<1>18. ToldInv'
  <2>1. PICK t : t = <<e>>
    OBVIOUS
  <2>2. t \in Seq(Event)
    BY <1>11, <2>1
  <2>3. sent \in Seq(Event)
    BY DEF RunInv, StreamInv
  <2>4. ASSUME NEW c, TellsOf(r, c) PROVE TellsOf(sent', c)
    BY <1>4, <1>7, <1>8, <1>9, <1>12, <2>1, <2>2, <2>4, ToldStays
  <2>5. ASSUME NEW c, TellsOf(sent, c) PROVE TellsOf(sent', c)
    <3>1. TellsOf(s, c)
      BY <1>2, <1>4, <2>3, <2>5, ToldStays
    <3>2. TellsOf(w, c)
      BY <1>4, <1>7, <1>8, <3>1, ToldStays
    <3> QED
      BY <1>9, <1>12, <2>1, <2>2, <3>2, ToldStays
  <2>6. ASSUME NEW c, HasResult(sent, c) PROVE HasResult(sent', c)
    <3>1. HasResult(s, c)
      BY <1>2, <1>4, <2>3, <2>6, ToldStays
    <3>2. HasResult(w, c)
      BY <1>4, <1>7, <1>8, <3>1, ToldStays
    <3> QED
      BY <1>9, <1>12, <2>1, <2>2, <3>2, ToldStays
  <2>7. harness = "once" => \A c \in ToSet(calls) : TellsOf(r, c)
    BY <1>5, AskedTells DEF RunInv
  <2> QED
    BY <2>4, <2>5, <2>6, <2>7 DEF RunInv, ToldInv, Finish, TellsOf, HasResult
<1> QED
  BY <1>16, <1>17, <1>18 DEF RunInv

LEMMA FailureKeeps == ASSUME RunInv, Fails PROVE RunInv'
<1>1. node \in {"answer", "tools"} /\ node' = "failed" /\ node \notin Over
  BY DEF Fails, Over
<1>2. PICK s : s = sent \o BeforeError
  OBVIOUS
<1>3. PICK e : e = [type |-> "error"]
  OBVIOUS
<1>4. e \in Event /\ e.type = "error"
  BY <1>3 DEF Event
<1>5. sent \in Seq(Event) /\ BeforeError \in Seq(Event)
  BY <1>1, TextCloses DEF BeforeError, RunInv, StreamInv
<1>6. s \in Seq(Event)
  BY <1>2, <1>5
<1>7. sent' = s \o <<e>>
  BY <1>2, <1>3 DEF Fails
<1>8. sent' = Append(s, e) /\ sent' \in Seq(Event)
  BY <1>4, <1>6, <1>7, ConcatOne
<1>9. PICK m \in Nat : m = messageIndex
  BY DEF RunInv, StreamInv
<1>10. IsOver(sent', LeftOpen')
  <2>1. CASE harness = "graph"
    <3>1. PICK k \in Nat : k = Closed
      BY <1>1, TextCloses DEF RunInv
    <3>2. GoesOn(s, {}, k)
      BY <1>1, <1>2, <2>1, <3>1, TextCloses DEF RunInv, BeforeError
    <3>3. IsOver(sent', {})
      BY <1>4, <1>6, <1>8, <3>2, Closes
    <3>4. LeftOpen' = {}
      BY <2>1 DEF Fails, LeftOpen
    <3> QED
      BY <3>3, <3>4
  <2>2. CASE harness # "graph"
    <3>1. s = sent
      BY <1>2, <1>5, <2>2 DEF BeforeError
    <3>2. GoesOn(s, Opening, m)
      BY <1>1, <1>9, <3>1 DEF RunInv, StreamInv
    <3>3. GoesOn(s, {m}, m)
      <4>1. Opening \subseteq {m}
        BY <1>9 DEF Opening
      <4> QED
        BY <3>2, <4>1 DEF GoesOn
    <3>4. IsOver(sent', {m})
      BY <1>4, <1>6, <1>8, <3>3, Closes
    <3>5. LeftOpen' = {m}
      BY <1>1, <1>9, <2>2 DEF Fails, LeftOpen
    <3> QED
      BY <3>4, <3>5
  <2> QED
    BY <2>1, <2>2
<1>11. StreamInv'
  BY <1>1, <1>8, <1>10 DEF RunInv, StreamInv, Fails, Over
<1>12. CallsInv'
  BY <1>1, CallsLeft DEF RunInv, CallsInv, Fails
<1>13. ToldInv'
  <2>1. PICK t : t = <<e>>
    OBVIOUS
  <2>2. t \in Seq(Event)
    BY <1>4, <2>1
  <2>3. ASSUME NEW c, TellsOf(sent, c) PROVE TellsOf(sent', c)
    <3>1. TellsOf(s, c)
      BY <1>2, <1>5, <2>3, ToldStays
    <3> QED
      BY <1>6, <1>7, <2>1, <2>2, <3>1, ToldStays
  <2>4. ASSUME NEW c, HasResult(sent, c) PROVE HasResult(sent', c)
    <3>1. HasResult(s, c)
      BY <1>2, <1>5, <2>4, ToldStays
    <3> QED
      BY <1>6, <1>7, <2>1, <2>2, <3>1, ToldStays
  <2> QED
    BY <1>1, <2>3, <2>4 DEF RunInv, ToldInv, Fails, TellsOf, HasResult
<1> QED
  BY <1>11, <1>12, <1>13 DEF RunInv

LEMMA GoingKeeps == ASSUME RunInv, ReaderGoes PROVE RunInv'
<1>1. StreamInv'
  BY NothingSent DEF RunInv, ReaderGoes, Over
<1>2. CallsInv'
  BY CallsLeft DEF RunInv, ReaderGoes
<1>3. ToldInv'
  BY DEF RunInv, ToldInv, ReaderGoes, TellsOf, HasResult
<1> QED
  BY <1>1, <1>2, <1>3 DEF RunInv

LEMMA RunSteps == RunInv /\ [RunNext]_runVars => RunInv'
<1> SUFFICES ASSUME RunInv, [RunNext]_runVars PROVE RunInv'
  OBVIOUS
<1>1. CASE UNCHANGED runVars
  <2>1. StreamInv'
    BY <1>1 DEF RunInv, runVars, StreamInv, Opening, LeftOpen, Over
  <2>2. CallsInv'
    BY <1>1 DEF RunInv, runVars, CallsInv, Found, Key
  <2>3. ToldInv'
    BY <1>1 DEF RunInv, runVars, ToldInv, TellsOf, HasResult
  <2> QED
    BY <2>1, <2>2, <2>3 DEF RunInv
<1>2. CASE RunNext
  BY <1>2, BeginKeeps, ProseKeeps, ModelKeeps, CallKeeps, ToolsKeep, FinishKeeps, FailureKeeps, GoingKeeps
     DEF RunNext
<1> QED
  BY <1>1, <1>2

(* What the invariant says of the stream is what the surface needs.        *)
LEMMA RunInvTells == ASSUME RunInv PROVE StreamIsWellFormed /\ CallsAreTold /\ RunTypeOK
<1>1. PICK n \in Nat : n = Len(sent) /\ DOMAIN sent = 1 .. n
  BY DEF RunInv, StreamInv
<1>2. \A type : At(type) = {i \in 1 .. n : sent[i].type = type}
  BY <1>1 DEF At
<1>3. \A i \in 1 .. n : Closing(sent[i]) <=> sent[i].type \in {"finished", "error"}
  BY DEF Closing
<1>4. /\ \A i \in 1 .. n : sent[i].type = "started" => i = 1
      /\ \A i, j \in 1 .. n : IsStart(sent[i]) /\ IsStart(sent[j]) /\ sent[i].message = sent[j].message => i = j
      /\ \A i, k \in 1 .. n : IsStart(sent[i]) /\ Tells(sent[k]) /\ i < k =>
             \E j \in 1 .. k - 1 : sent[j].type = "textEnd" /\ sent[j].message = sent[i].message
  <2>1. Readable(sent)
    BY DEF RunInv, StreamInv, GoesOn, IsOver
  <2> QED
    BY <1>1, <2>1 DEF Readable
<1>5. /\ At("finished") \cup At("error") \subseteq {Len(sent)}
      /\ node \in Over => At("finished") \cup At("error") # {}
  <2>1. CASE node \in Over
    <3>1. n # 0 /\ \A i \in 1 .. n : Closing(sent[i]) <=> i = n
      BY <1>1, <2>1 DEF RunInv, StreamInv, IsOver
    <3>2. n \in 1 .. n
      BY <3>1
    <3> QED
      BY <1>1, <1>2, <1>3, <3>1, <3>2
  <2>2. CASE node \notin Over
    <3>1. \A i \in 1 .. n : ~Closing(sent[i])
      BY <1>1, <2>2 DEF RunInv, StreamInv, GoesOn
    <3> QED
      BY <1>2, <1>3, <2>2, <3>1
  <2> QED
    BY <2>1, <2>2
<1>6. node = "finished" \/ (node = "failed" /\ harness = "graph") =>
         \A i \in 1 .. n : IsStart(sent[i]) => \E j \in 1 .. n : sent[j].type = "textEnd" /\ sent[j].message = sent[i].message
  <2> SUFFICES ASSUME node = "finished" \/ (node = "failed" /\ harness = "graph")
               PROVE  \A i \in 1 .. n : IsStart(sent[i]) =>
                         \E j \in 1 .. n : sent[j].type = "textEnd" /\ sent[j].message = sent[i].message
    OBVIOUS
  <2>1. IsOver(sent, LeftOpen) /\ LeftOpen = {}
    BY DEF RunInv, StreamInv, Over, LeftOpen
  <2> QED
    BY <1>1, <2>1 DEF IsOver, IsEnded
<1>7. StreamIsWellFormed
  <2>1. At("started") \subseteq {1}
    BY <1>2, <1>4
  <2>2. \A i, j \in At("textStart") : Same(i, j) => i = j
    BY <1>2, <1>4 DEF Same, IsStart
  <2>3. ASSUME NEW i \in At("textStart"), NEW k \in At("call") \cup At("result"), i < k
        PROVE  \E j \in At("textEnd") : Same(i, j) /\ j < k
    <3>1. i \in 1 .. n /\ k \in 1 .. n /\ IsStart(sent[i]) /\ Tells(sent[k])
      BY <1>2 DEF IsStart, Tells
    <3>2. PICK j \in 1 .. k - 1 : sent[j].type = "textEnd" /\ sent[j].message = sent[i].message
      BY <1>4, <2>3, <3>1
    <3>3. j \in 1 .. n /\ j < k
      BY <3>1
    <3>4. j \in At("textEnd") /\ Same(i, j)
      BY <1>2, <3>2, <3>3 DEF Same
    <3> QED
      BY <3>3, <3>4
  <2>4. node = "finished" \/ (node = "failed" /\ harness = "graph") =>
           \A i \in At("textStart") : \E j \in At("textEnd") : Same(i, j)
    BY <1>2, <1>6 DEF Same, IsStart
  <2> QED
    BY <1>5, <2>1, <2>2, <2>3, <2>4 DEF StreamIsWellFormed
<1>8. CallsAreTold
  BY <1>1, <1>2 DEF RunInv, ToldInv, CallsAreTold, TellsOf, HasResult
<1>9. RunTypeOK
  <2>1. messageIndex \in 0 .. MaxTurns
    BY RunAssumption DEF RunInv, StreamInv
  <2>2. ToSet(calls) \subseteq Call
    BY DEF RunInv, CallsInv, ToSet
  <2>3. flying \cup ran \cup {p.call : p \in remembered} \subseteq Call
    BY <2>2 DEF RunInv, CallsInv
  <2> QED
    BY <2>1, <2>2, <2>3 DEF RunInv, StreamInv, CallsInv, RunTypeOK, Over
<1> QED
  BY <1>7, <1>8, <1>9

-----------------------------------------------------------------------------
(* The roster.                                                             *)

(* Types are kept by what the server and Postgres do.                      *)
LEMMA ServerTyped ==
  ASSUME RosterTypeOK,
         \/ Create \/ Deliver \/ ListenerDrops \/ ListenerReturns
         \/ \E m \in News : Report(m) \/ ReportLost(m) \/ Write(m) \/ Rollback(m)
  PROVE  RosterTypeOK'
<1> USE MessageAssumption
<1>1. CASE Create
  <2>1. row' \in Unlisted .. MaxMessage
    BY <1>1, MessageAssumption DEF Create, Unlisted, Silent
  <2>2. owed' \in BOOLEAN /\ astray' \in BOOLEAN
    BY <1>1 DEF RosterTypeOK, Create
  <2> QED
    BY <1>1, <2>1, <2>2 DEF RosterTypeOK, Create, BrowserVars
<1>2. CASE Deliver
  <2>1. Head(notes) \in News /\ Tail(notes) \in Seq(News)
    BY <1>2 DEF RosterTypeOK, Deliver
  <2>2. inbox' \in Seq({Opened} \cup News)
    BY <1>2, <2>1 DEF RosterTypeOK, Deliver
  <2> QED
    BY <1>2, <2>1, <2>2 DEF RosterTypeOK, Deliver
<1>3. CASE ListenerDrops \/ ListenerReturns
  <2>1. notes' \in Seq(News)
    <3>1. <<>> \in Seq(News) /\ notes \in Seq(News)
      BY DEF RosterTypeOK
    <3>2. notes' = <<>> \/ notes' = notes
      BY <1>3 DEF ListenerDrops, ListenerReturns
    <3> QED
      BY <3>1, <3>2
  <2>2. astray' \in BOOLEAN /\ listening' \in BOOLEAN
    BY <1>3 DEF RosterTypeOK, ListenerDrops, ListenerReturns
  <2> QED
    BY <1>3, <2>1, <2>2 DEF RosterTypeOK, ListenerDrops, ListenerReturns, BrowserVars
<1>4. ASSUME NEW m \in News, Report(m) \/ ReportLost(m) \/ Rollback(m) PROVE RosterTypeOK'
  BY <1>4 DEF RosterTypeOK, Report, ReportLost, Rollback, Reported, BrowserVars
<1>5. ASSUME NEW m \in News, Update(m) PROVE RosterTypeOK'
  BY <1>5 DEF RosterTypeOK, Update, Reported, BrowserVars
<1>6. ASSUME NEW m \in News, Commit(m) PROVE RosterTypeOK'
  <2>1. row' \in Unlisted .. MaxMessage
    BY <1>6 DEF RosterTypeOK, Commit, News, Unlisted
  <2>2. notes' \in Seq(News)
    BY <1>6 DEF RosterTypeOK, Commit
  <2> QED
    BY <1>6, <2>1, <2>2 DEF RosterTypeOK, Commit, Reported, BrowserVars
<1> QED
  BY <1>1, <1>2, <1>3, <1>4, <1>5, <1>6 DEF Write

(* A query that is asked for again leaves the roster's parts typed.        *)
LEMMA InvalidateTyped ==
  ASSUME RosterTypeOK, Invalidate
  PROVE  cache' \in 0 .. MaxMessage /\ fetch' \in Fetch /\ astray' \in BOOLEAN
BY MessageAssumption DEF RosterTypeOK, Invalidate, Asked, Fetch, NoRoster

(* And by what the browser does.                                           *)
LEMMA BrowserTyped ==
  ASSUME RosterTypeOK, SocketConnects \/ SocketDrops \/ FetchFails \/ Browser
  PROVE  RosterTypeOK'
<1> USE MessageAssumption
<1>1. CASE SocketConnects \/ SocketDrops
  <2>1. inbox' \in Seq({Opened} \cup News)
    <3>1. PICK N : N = {Opened} \cup News
      OBVIOUS
    <3>2. PICK o : o = Opened
      OBVIOUS
    <3>3. <<>> \in Seq(N) /\ <<o>> \in Seq(N)
      BY <3>1, <3>2
    <3>4. inbox' = <<>> \/ inbox' = <<o>>
      BY <1>1, <3>2 DEF SocketConnects, SocketDrops
    <3> QED
      BY <3>1, <3>3, <3>4
  <2> QED
    BY <1>1, <2>1 DEF RosterTypeOK, SocketConnects, SocketDrops, ServerVars
<1>2. CASE FetchFails
  BY <1>2 DEF RosterTypeOK, FetchFails, ServerVars, NoFetch, Fetch, NoRoster
<1>3. CASE Hear
  <2>1. Head(inbox) \in {Opened} \cup News /\ Tail(inbox) \in Seq({Opened} \cup News)
    BY <1>3 DEF RosterTypeOK, Hear
  <2>2. cache' \in 0 .. MaxMessage /\ fetch' \in Fetch /\ astray' \in BOOLEAN
    <3>1. CASE Head(inbox) = Opened
      BY <1>3, <3>1, InvalidateTyped DEF Hear, OnOpen
    <3>2. CASE Head(inbox) # Opened
      <4>1. PICK m : m = Head(inbox)
        OBVIOUS
      <4>2. m \in News /\ m \in 0 .. MaxMessage /\ OnMessage(m)
        BY <1>3, <2>1, <3>2, <4>1 DEF Hear, News
      <4>3. CASE cache = Unlisted /\ OnUnlisted
        BY <4>3, InvalidateTyped DEF OnUnlisted
      <4> QED
        BY <4>2, <4>3 DEF OnMessage, RosterTypeOK
    <3> QED
      BY <3>1, <3>2
  <2> QED
    BY <1>3, <2>1, <2>2 DEF RosterTypeOK, Hear, ServerVars
<1>4. CASE HearsOfCreate
  BY <1>4, InvalidateTyped DEF RosterTypeOK, HearsOfCreate, ServerVars
<1>5. CASE Read
  BY <1>5 DEF RosterTypeOK, Read, ServerVars, Fetch, Behind, Unlisted
<1>6. CASE Answer
  <2>1. fetch.value \in 0 .. MaxMessage /\ NoFetch \in Fetch
    BY DEF RosterTypeOK, Fetch, NoFetch, NoRoster
  <2> QED
    BY <1>6, <2>1 DEF RosterTypeOK, Answer, ServerVars
<1> QED
  BY <1>1, <1>2, <1>3, <1>4, <1>5, <1>6 DEF Browser

LEMMA RosterSteps == RosterTypeOK /\ [RosterNext]_channelVars => RosterTypeOK'
<1> SUFFICES ASSUME RosterTypeOK, [RosterNext]_channelVars PROVE RosterTypeOK'
  OBVIOUS
<1>1. CASE UNCHANGED channelVars
  BY <1>1 DEF channelVars, RosterTypeOK
<1> QED
  BY <1>1, ServerTyped, BrowserTyped DEF RosterNext

LEMMA RosterStarts == RosterInit => RosterTypeOK
<1> SUFFICES ASSUME RosterInit PROVE RosterTypeOK
  OBVIOUS
<1>1. row \in Unlisted .. MaxMessage /\ cache \in 0 .. MaxMessage /\ fetch \in Fetch
  BY MessageAssumption DEF RosterInit, Unlisted, NoRoster, Asked, Fetch
<1>2. notes \in Seq(News) /\ inbox \in Seq({Opened} \cup News)
  BY DEF RosterInit
<1> QED
  BY <1>1, <1>2 DEF RosterInit, RosterTypeOK

-----------------------------------------------------------------------------
(* The live screen.                                                        *)

Viewers == [socket : Sockets \cup {NoSocket}, cast : CastIds \cup {NoCast}, follow : Sockets \cup {NoSocket}]
AttachCalls == {Idle} \cup [socket : Sockets, at : {"page", "cast"}, target : 0 .. MaxPages, previous : Viewers]

(* The types, with those of the calls of attach.                           *)
ScreenTyped ==
    /\ ScreenTypeOK
    /\ attach \in [Attaches -> AttachCalls]
    /\ \A a \in Attaches : attach[a].at = "cast" => attach[a].target \in 1 .. MaxPages

ViewerLives == viewer # NoViewer => \E cast \in casts : cast.id = viewer.cast

(* While no two sockets have met and no attach has begun under another:    *)
(* whatever is going on is of the one connected socket, and what runs is   *)
(* what its viewer names.                                                  *)
OfTheConnected ==
    /\ \A s, t \in Connected : s = t
    /\ \A a, b \in Flying : a = b
    /\ \A a \in Flying : /\ attach[a].socket \in Connected
                         /\ opening[attach[a].socket] \notin {"none", "stopping"}
    /\ \A s \in timers : s \in Connected /\ opening[s] = "done"
    /\ \A cast \in casts : cast.socket \in Connected
    /\ \A s \in Sockets : opening[s] \in {"stopping", "attaching"} => s \in Connected
    /\ \A s \in Sockets : opening[s] = "attaching" => Flying # {}
OfTheViewer ==
    /\ timers \subseteq {viewer.follow}
    /\ \A cast \in casts : cast.id = viewer.cast
    /\ \A c, d \in casts : c = d
    /\ \A a \in Attaches : attach[a].at = "cast" => attach[a].previous = viewer
FirstIsCast ==
    \A s \in Sockets :
        /\ opening[s] \in {"none", "stopping", "attaching"} => casting[s] = NoPage
        /\ tab[s] = "unopened" => opening[s] = "none"

Calm == OfTheConnected /\ OfTheViewer /\ FirstIsCast

ScreenInv == ScreenTyped /\ ViewerLives /\ (~crossed /\ ~lapped => Calm)

LEMMA NamesTyped == NoViewer \in Viewers /\ Idle \in AttachCalls
BY DEF Viewers, AttachCalls, NoViewer

LEMMA ScreenStarts == ScreenInit => ScreenInv
<1> SUFFICES ASSUME ScreenInit PROVE ScreenInv
  OBVIOUS
<1>1. Flying = {} /\ Connected = {}
  BY DEF ScreenInit, Flying, Connected, Idle
<1>2. ScreenTyped
  <2>1. ScreenTypeOK
    <3>1. /\ 1 \in 1 .. MaxPages /\ 0 \in 0 .. MaxPages
      BY ScreenAssumption
    <3>2. viewer \in [socket : Sockets \cup {NoSocket}, cast : CastIds \cup {NoCast}, follow : Sockets \cup {NoSocket}]
      BY NamesTyped DEF Viewers, ScreenInit
    <3> QED
      BY <3>1, <3>2 DEF ScreenInit, ScreenTypeOK, NoPage
  <2>2. attach \in [Attaches -> AttachCalls]
    BY NamesTyped DEF ScreenInit
  <2> QED
    BY <2>1, <2>2 DEF ScreenTyped, ScreenInit, Idle
<1>3. Calm
  BY <1>1 DEF ScreenInit, Calm, OfTheConnected, OfTheViewer, FirstIsCast, Idle
<1> QED
  BY <1>2, <1>3 DEF ScreenInv, ViewerLives, ScreenInit

(* A call of attach is idle, or knows its socket.                          *)
LEMMA AttachTyped ==
  ASSUME ScreenTyped, NEW a \in Attaches
  PROVE  /\ attach[a].at = "idle" \/ attach[a].at = "page" \/ attach[a].at = "cast"
         /\ attach[a].at # "idle" => /\ attach[a].socket \in Sockets
                                     /\ attach[a].target \in 0 .. MaxPages
                                     /\ attach[a].previous \in Viewers
<1>1. attach[a] \in AttachCalls
  BY DEF ScreenTyped
<1> QED
  BY <1>1 DEF AttachCalls, Idle

LEMMA OpenKeeps == ASSUME ScreenInv, NEW s \in Sockets, OpenSocket(s) PROVE ScreenInv'
<1>1. ScreenTyped'
  BY NamesTyped DEF ScreenInv, ScreenTyped, ScreenTypeOK, OpenSocket, stopViewer, Without, Viewers
<1>2. ViewerLives'
  BY DEF OpenSocket, stopViewer, ViewerLives
<1>3. ASSUME ~crossed', ~lapped' PROVE Calm'
  <2>1. Calm /\ Flying = {} /\ Connected = {}
    BY <1>3 DEF ScreenInv, OpenSocket
  <2>2. Flying' = {}
    BY <2>1 DEF Flying, OpenSocket
  <2>3. Connected' = {s}
    BY <2>1 DEF Connected, OpenSocket, ScreenInv, ScreenTyped, ScreenTypeOK
  <2>4. timers' = {} /\ casts' = {}
    BY <2>1 DEF OpenSocket, stopViewer, Without, Calm, OfTheConnected
  <2>5. \A t \in Sockets : opening'[t] = IF t = s THEN "stopping" ELSE opening[t]
    BY DEF OpenSocket, ScreenInv, ScreenTyped, ScreenTypeOK
  <2>6. OfTheConnected'
    BY <2>1, <2>2, <2>3, <2>4, <2>5 DEF Calm, OfTheConnected
  <2>7. OfTheViewer'
    BY <2>2, <2>4 DEF OfTheViewer, Flying
  <2>8. FirstIsCast'
    BY <2>1, <2>5 DEF Calm, FirstIsCast, OpenSocket, ScreenInv, ScreenTyped, ScreenTypeOK
  <2> QED
    BY <2>6, <2>7, <2>8 DEF Calm
<1> QED
  BY <1>1, <1>2, <1>3 DEF ScreenInv

LEMMA CloseKeeps == ASSUME ScreenInv, NEW s \in Sockets, CloseSocket(s) PROVE ScreenInv'
<1>1. ScreenTyped'
  BY NamesTyped DEF ScreenInv, ScreenTyped, ScreenTypeOK, CloseSocket, OnClose, stopViewer, Without, Viewers
<1>2. ViewerLives'
  BY DEF CloseSocket, OnClose, stopViewer, ViewerLives
<1>3. ASSUME ~crossed', ~lapped' PROVE Calm'
  <2>1. Calm /\ Flying = {} /\ Connected = {s} /\ opening[s] # "stopping"
    BY <1>3 DEF ScreenInv, CloseSocket
  <2>2. Flying' = {}
    BY <2>1 DEF Flying, CloseSocket
  <2>3. Connected' = {}
    BY <2>1 DEF Connected, CloseSocket, ScreenInv, ScreenTyped, ScreenTypeOK
  <2>4. timers' = {} /\ casts' = {}
    BY <2>1 DEF CloseSocket, OnClose, stopViewer, Without, Calm, OfTheViewer
  <2>5. opening' = opening /\ \A t \in Sockets : opening[t] \notin {"stopping", "attaching"}
    BY <2>1 DEF CloseSocket, Calm, OfTheConnected
  <2>6. OfTheConnected'
    BY <2>1, <2>2, <2>3, <2>4, <2>5 DEF OfTheConnected
  <2>7. OfTheViewer'
    BY <2>2, <2>4 DEF OfTheViewer, Flying
  <2>8. FirstIsCast'
    BY <2>1 DEF Calm, FirstIsCast, CloseSocket, ScreenInv, ScreenTyped, ScreenTypeOK
  <2> QED
    BY <2>6, <2>7, <2>8 DEF Calm
<1> QED
  BY <1>1, <1>2, <1>3 DEF ScreenInv

(* An attach that begins is the only one, or has lapped another.           *)
LEMMA BeginsTyped ==
  ASSUME ScreenTyped, NEW s \in Sockets, BeginsAttach(s)
  PROVE  \E a \in Attaches :
            /\ attach' \in [Attaches -> AttachCalls]
            /\ attach[a].at = "idle" /\ attach'[a].at = "page" /\ attach'[a].socket = s
            /\ \A b \in Attaches : b # a => attach'[b] = attach[b]
            /\ ~lapped' => ~lapped /\ Flying = {} /\ Flying' = {a}
            /\ lapped' \in BOOLEAN
<1>1. PICK a \in Attaches \ Flying : /\ attach' = [attach EXCEPT ![a] = [Idle EXCEPT !.socket = s, !.at = "page"]]
                                     /\ lapped' = (lapped \/ Flying # {})
  BY DEF BeginsAttach
<1>2. PICK r : r = [Idle EXCEPT !.socket = s, !.at = "page"]
  OBVIOUS
<1>3. r \in AttachCalls /\ r.at = "page" /\ r.socket = s
  <2>1. r = [socket |-> s, at |-> "page", target |-> 0, previous |-> NoViewer]
    BY <1>2 DEF Idle, NoPage
  <2> QED
    BY <2>1, NamesTyped, ScreenAssumption DEF AttachCalls
<1>4. attach' = [attach EXCEPT ![a] = r]
  BY <1>1, <1>2
<1>5. /\ attach' \in [Attaches -> AttachCalls] /\ attach'[a] = r
      /\ \A b \in Attaches : b # a => attach'[b] = attach[b]
  BY <1>3, <1>4 DEF ScreenTyped
<1>6. attach[a].at = "idle"
  BY DEF Flying
<1>7. ~lapped' => ~lapped /\ Flying = {} /\ Flying' = {a}
  BY <1>1, <1>3, <1>5 DEF Flying
<1> QED
  BY <1>1, <1>3, <1>5, <1>6, <1>7

LEMMA AttachBeginKeeps ==
  ASSUME ScreenInv, NEW s \in Sockets, FirstAttach(s) \/ TimerFires(s)
  PROVE  ScreenInv'
<1>1. PICK a \in Attaches :
         /\ attach' \in [Attaches -> AttachCalls]
         /\ attach[a].at = "idle" /\ attach'[a].at = "page" /\ attach'[a].socket = s
         /\ \A b \in Attaches : b # a => attach'[b] = attach[b]
         /\ ~lapped' => ~lapped /\ Flying = {} /\ Flying' = {a}
         /\ lapped' \in BOOLEAN
  BY BeginsTyped DEF ScreenInv, FirstAttach, TimerFires
<1>2. /\ UNCHANGED <<tab, viewer, casting, timers, casts, page, crossed, failed>>
      /\ \/ opening[s] = "stopping" /\ opening' = [opening EXCEPT ![s] = "attaching"]
         \/ s \in timers /\ opening' = opening
  BY DEF FirstAttach, TimerFires
<1>3. ScreenTyped'
  <2>1. opening' \in [Sockets -> {"none", "stopping", "attaching", "done", "refused"}]
    BY <1>2 DEF ScreenInv, ScreenTyped, ScreenTypeOK
  <2>2. \A b \in Attaches : attach'[b].at = "cast" => attach'[b].target \in 1 .. MaxPages
    BY <1>1 DEF ScreenInv, ScreenTyped
  <2> QED
    BY <1>1, <1>2, <2>1, <2>2 DEF ScreenInv, ScreenTyped, ScreenTypeOK
<1>4. ViewerLives'
  BY <1>2 DEF ScreenInv, ViewerLives
<1>5. ASSUME ~crossed', ~lapped' PROVE Calm'
  <2>1. Calm /\ Flying = {} /\ Flying' = {a} /\ Connected' = Connected
    BY <1>1, <1>2, <1>5 DEF ScreenInv, Connected
  <2>2. s \in Connected
    BY <1>2, <2>1 DEF Calm, OfTheConnected
  <2>3. \A t \in Sockets : /\ opening'[t] = "attaching" => opening[t] = "attaching" \/ t = s
                           /\ opening'[t] # "attaching" => opening'[t] = opening[t]
                           /\ opening[t] # "stopping" => opening'[t] = opening[t]
    BY <1>2 DEF ScreenInv, ScreenTyped, ScreenTypeOK
  <2>8. opening'[s] \notin {"none", "stopping"}
    BY <1>2, <2>1 DEF Calm, OfTheConnected, ScreenInv, ScreenTyped, ScreenTypeOK
  <2>4. OfTheConnected'
    BY <1>1, <1>2, <2>1, <2>2, <2>3, <2>8 DEF Calm, OfTheConnected
  <2>5. OfTheViewer'
    BY <1>1, <1>2, <2>1 DEF Calm, OfTheViewer
  <2>6. FirstIsCast'
    BY <1>2, <2>1, <2>2, <2>3 DEF Calm, FirstIsCast, Connected
  <2> QED
    BY <2>4, <2>5, <2>6 DEF Calm
<1> QED
  BY <1>3, <1>4, <1>5 DEF ScreenInv

LEMMA AttachEndKeeps ==
  ASSUME ScreenInv, NEW a \in Attaches, AttachFails(a)
  PROVE  ScreenInv'
<1> PICK s : s = attach[a].socket
  OBVIOUS
<1>1. s \in Sockets
  BY AttachTyped DEF ScreenInv, AttachFails
<1>2. /\ attach' = [attach EXCEPT ![a] = Idle] /\ failed' = TRUE
      /\ opening' = [opening EXCEPT ![s] = IF @ = "attaching" THEN "refused" ELSE @]
      /\ UNCHANGED <<tab, viewer, casting, timers, casts, page, crossed, lapped>>
  BY DEF AttachFails, Ends
<1>3. \A t \in Sockets : opening'[t] = IF t = s /\ opening[t] = "attaching" THEN "refused" ELSE opening[t]
  BY <1>1, <1>2 DEF ScreenInv, ScreenTyped, ScreenTypeOK
<1>4. ScreenTyped'
  <2>1. opening' \in [Sockets -> {"none", "stopping", "attaching", "done", "refused"}]
    BY <1>1, <1>2 DEF ScreenInv, ScreenTyped, ScreenTypeOK
  <2>2. /\ attach' \in [Attaches -> AttachCalls] 
        /\ \A b \in Attaches : attach'[b] = IF b = a THEN Idle ELSE attach[b]
    BY <1>2, NamesTyped DEF ScreenInv, ScreenTyped
  <2>3. \A b \in Attaches : attach'[b].at = "cast" => attach'[b].target \in 1 .. MaxPages
    BY <2>2 DEF ScreenInv, ScreenTyped, Idle
  <2> QED
    BY <1>2, <2>1, <2>2, <2>3 DEF ScreenInv, ScreenTyped, ScreenTypeOK
<1>5. ViewerLives'
  BY <1>2 DEF ScreenInv, ViewerLives
<1>6. ASSUME ~crossed', ~lapped' PROVE Calm'
  <2>1. Calm /\ Connected' = Connected /\ a \in Flying
    BY <1>2, <1>6 DEF ScreenInv, Connected, AttachFails, Flying
  <2>2. Flying' = {}
    BY <1>2, <2>1 DEF Calm, OfTheConnected, Flying, ScreenInv, ScreenTyped, Idle
  <2>3. s \in Connected
    BY <2>1 DEF Calm, OfTheConnected
  <2>4. \A t \in Sockets : opening'[t] # "attaching"
    BY <1>3, <2>1, <2>3 DEF Calm, OfTheConnected
  <2>5. OfTheConnected'
    BY <1>2, <1>3, <2>1, <2>2, <2>4 DEF Calm, OfTheConnected
  <2>6. OfTheViewer'
    BY <1>2, <2>1, <2>2 DEF Calm, OfTheViewer, Flying
  <2>7. FirstIsCast'
    BY <1>2, <1>3, <2>1 DEF Calm, FirstIsCast
  <2> QED
    BY <2>5, <2>6, <2>7 DEF Calm
<1> QED
  BY <1>4, <1>5, <1>6 DEF ScreenInv

LEMMA CastAskedKeeps ==
  ASSUME ScreenInv, NEW a \in Attaches, GotTarget(a), ~AlreadyCasting(attach[a].socket)
  PROVE  ScreenInv'
<1>1. PICK r : r = [attach[a] EXCEPT !.at = "cast", !.target = page, !.previous = viewer]
  OBVIOUS
<1>2. /\ attach' = [attach EXCEPT ![a] = r]
      /\ UNCHANGED <<opening, timers, viewer, failed, tab, casting, casts, page, crossed, lapped>>
  BY <1>1 DEF GotTarget
<1>3. /\ attach[a] \in [socket : Sockets, at : {"page", "cast"}, target : 0 .. MaxPages, previous : Viewers]
      /\ attach[a].at = "page"
  BY DEF ScreenInv, ScreenTyped, AttachCalls, Idle, GotTarget
<1>4. /\ r \in [socket : Sockets, at : {"page", "cast"}, target : 0 .. MaxPages, previous : Viewers]
      /\ r.at = "cast" /\ r.target = page /\ r.previous = viewer /\ r.socket = attach[a].socket
      /\ page \in 1 .. MaxPages
  <2>1. page \in 1 .. MaxPages /\ page \in 0 .. MaxPages
    BY ScreenAssumption DEF ScreenInv, ScreenTyped, ScreenTypeOK
  <2>2. viewer \in Viewers
    BY DEF ScreenInv, ScreenTyped, ScreenTypeOK, Viewers
  <2> QED
    BY <1>1, <1>3, <2>1, <2>2
<1>5. /\ attach' \in [Attaches -> AttachCalls]
      /\ \A b \in Attaches : attach'[b] = IF b = a THEN r ELSE attach[b]
  BY <1>2, <1>4 DEF ScreenInv, ScreenTyped, AttachCalls
<1>6. ScreenTyped'
  BY <1>2, <1>4, <1>5 DEF ScreenInv, ScreenTyped, ScreenTypeOK
<1>7. ViewerLives'
  BY <1>2 DEF ScreenInv, ViewerLives
<1>8. ASSUME ~crossed', ~lapped' PROVE Calm'
  <2>1. Calm /\ Connected' = Connected /\ Flying' = Flying
    BY <1>2, <1>3, <1>4, <1>5, <1>8 DEF ScreenInv, Connected, Flying
  <2>2. OfTheConnected'
    BY <1>2, <1>4, <1>5, <2>1 DEF Calm, OfTheConnected
  <2>3. OfTheViewer'
    BY <1>2, <1>4, <1>5, <2>1 DEF Calm, OfTheViewer
  <2>4. FirstIsCast'
    BY <1>2, <2>1 DEF Calm, FirstIsCast
  <2> QED
    BY <2>2, <2>3, <2>4 DEF Calm
<1> QED
  BY <1>6, <1>7, <1>8 DEF ScreenInv

(* A tick that finds its page cast already changes nothing; the attach of  *)
(* an open that does is not alone.                                         *)
LEMMA NothingToDoKeeps ==
  ASSUME ScreenInv, NEW a \in Attaches, GotTarget(a), AlreadyCasting(attach[a].socket)
  PROVE  ScreenInv'
<1> PICK s : s = attach[a].socket
  OBVIOUS
<1>1. s \in Sockets /\ attach[a].at = "page"
  BY AttachTyped DEF ScreenInv, GotTarget
<1>2. /\ attach' = [attach EXCEPT ![a] = Idle] /\ failed' = FALSE
      /\ Follows(s, viewer)
      /\ UNCHANGED <<tab, casting, casts, page, crossed, lapped>>
  BY DEF GotTarget, Ends
<1>3. /\ attach' \in [Attaches -> AttachCalls]
      /\ \A b \in Attaches : attach'[b] = IF b = a THEN Idle ELSE attach[b]
  BY <1>2, NamesTyped DEF ScreenInv, ScreenTyped
<1>4. /\ viewer' \in Viewers
      /\ viewer = NoViewer => viewer' = NoViewer
      /\ viewer # NoViewer => viewer'.cast = viewer.cast
  <2>1. viewer \in Viewers
    BY DEF ScreenInv, ScreenTyped, ScreenTypeOK, Viewers
  <2> QED
    BY <1>1, <1>2, <2>1, NamesTyped DEF Follows, Viewers
<1>5. ScreenTyped'
  <2>1. timers' \subseteq Sockets
    BY <1>1, <1>2 DEF Follows, ScreenInv, ScreenTyped, ScreenTypeOK
  <2>2. opening' \in [Sockets -> {"none", "stopping", "attaching", "done", "refused"}]
    BY <1>1, <1>2 DEF Follows, ScreenInv, ScreenTyped, ScreenTypeOK
  <2>3. \A b \in Attaches : attach'[b].at = "cast" => attach'[b].target \in 1 .. MaxPages
    BY <1>3 DEF ScreenInv, ScreenTyped, Idle
  <2> QED
    BY <1>2, <1>3, <1>4, <2>1, <2>2, <2>3 DEF ScreenInv, ScreenTyped, ScreenTypeOK, Viewers
<1>6. ViewerLives'
  BY <1>2, <1>4 DEF ScreenInv, ViewerLives
<1>7. ASSUME ~crossed', ~lapped' PROVE Calm'
  <2>1. Calm /\ Connected' = Connected /\ a \in Flying
    BY <1>1, <1>2, <1>7 DEF ScreenInv, Connected, Flying
  <2>2. page # NoPage
    BY DEF ScreenInv, ScreenTyped, ScreenTypeOK, NoPage
  <2>3. opening[s] # "attaching"
    BY <1>1, <2>1, <2>2 DEF Calm, FirstIsCast, AlreadyCasting
  <2>4. UNCHANGED <<opening, timers, viewer>>
    BY <1>2, <2>3 DEF Follows
  <2>5. Flying' = {}
    BY <1>3, <2>1 DEF Calm, OfTheConnected, Flying, Idle
  <2>6. s \in Connected
    BY <2>1 DEF Calm, OfTheConnected
  <2>7. \A t \in Sockets : opening[t] # "attaching"
    BY <2>1, <2>3, <2>6 DEF Calm, OfTheConnected
  <2>8. OfTheConnected'
    BY <1>2, <2>1, <2>4, <2>5, <2>7 DEF Calm, OfTheConnected
  <2>9. OfTheViewer'
    BY <1>2, <2>1, <2>4, <2>5 DEF Calm, OfTheViewer, Flying
  <2>10. FirstIsCast'
    BY <1>2, <2>1, <2>4 DEF Calm, FirstIsCast
  <2> QED
    BY <2>8, <2>9, <2>10 DEF Calm
<1> QED
  BY <1>5, <1>6, <1>7 DEF ScreenInv

(* The cast that starts takes the place of the one its attach remembered,  *)
(* which while all is calm is the only one.                                *)
LEMMA CastStartKeeps ==
  ASSUME ScreenInv, NEW a \in Attaches, CastStarted(a)
  PROVE  ScreenInv'
<1> PICK s, previous, id, target :
      /\ s = attach[a].socket /\ previous = attach[a].previous /\ target = attach[a].target
      /\ id = CHOOSE c \in CastIds : c \notin Named
  OBVIOUS
<1>1. /\ s \in Sockets /\ previous \in Viewers /\ target \in 1 .. MaxPages /\ attach[a].at = "cast"
  BY AttachTyped DEF ScreenInv, CastStarted, ScreenTyped
<1>2. id \in CastIds /\ id # NoCast /\ id \notin Named
  BY DEF CastStarted, CastIds, NoCast
<1> PICK cast : cast = [id |-> id, socket |-> s, page |-> target]
  OBVIOUS
<1> PICK now : now = [socket |-> s, cast |-> id, follow |-> previous.follow]
  OBVIOUS
<1>3. /\ casts' = Without(previous.cast) \cup {cast}
      /\ casting' = [casting EXCEPT ![s] = target]
      /\ attach' = [attach EXCEPT ![a] = Idle] /\ failed' = FALSE
      /\ Follows(s, now)
      /\ UNCHANGED <<tab, page, crossed, lapped>>
  BY DEF CastStarted, Replaced, Ends
<1>4. /\ attach' \in [Attaches -> AttachCalls]
      /\ \A b \in Attaches : attach'[b] = IF b = a THEN Idle ELSE attach[b]
  BY <1>3, NamesTyped DEF ScreenInv, ScreenTyped
<1>5. now \in Viewers /\ now # NoViewer /\ now.cast = id /\ now.follow = previous.follow
  BY <1>1, <1>2 DEF Viewers, NoViewer
<1>6. /\ viewer' \in Viewers /\ viewer'.cast = id
      /\ viewer'.follow = IF opening[s] = "attaching" THEN s ELSE previous.follow
  BY <1>1, <1>3, <1>5 DEF Follows, Viewers
<1>7. cast \in [id : CastIds, socket : Sockets, page : 1 .. MaxPages] /\ cast.id = id /\ cast.socket = s
  BY <1>1, <1>2
<1>8. ScreenTyped'
  <2>1. timers' \subseteq Sockets
    BY <1>1, <1>3 DEF Follows, ScreenInv, ScreenTyped, ScreenTypeOK
  <2>2. opening' \in [Sockets -> {"none", "stopping", "attaching", "done", "refused"}]
    BY <1>1, <1>3 DEF Follows, ScreenInv, ScreenTyped, ScreenTypeOK
  <2>3. \A b \in Attaches : attach'[b].at = "cast" => attach'[b].target \in 1 .. MaxPages
    BY <1>4 DEF ScreenInv, ScreenTyped, Idle
  <2>4. casts' \subseteq [id : CastIds, socket : Sockets, page : 1 .. MaxPages]
    BY <1>3, <1>7 DEF Without, ScreenInv, ScreenTyped, ScreenTypeOK
  <2>5. casting' \in [Sockets -> 0 .. MaxPages]
    <3>1. target \in 0 .. MaxPages
      BY <1>1, ScreenAssumption
    <3> QED
      BY <1>3, <3>1 DEF ScreenInv, ScreenTyped, ScreenTypeOK
  <2> QED
    BY <1>3, <1>4, <1>6, <2>1, <2>2, <2>3, <2>4, <2>5 DEF ScreenInv, ScreenTyped, ScreenTypeOK, Viewers
<1>9. ViewerLives'
  BY <1>3, <1>6, <1>7 DEF ViewerLives
<1>10. ASSUME ~crossed', ~lapped' PROVE Calm'
  <2>1. Calm /\ Connected' = Connected /\ a \in Flying
    BY <1>1, <1>3, <1>10 DEF ScreenInv, Connected, Flying
  <2>2. previous = viewer
    BY <1>1, <2>1 DEF Calm, OfTheViewer
  <2>3. casts' = {cast}
    BY <1>3, <2>1, <2>2 DEF Calm, OfTheViewer, Without
  <2>4. s \in Connected /\ Flying' = {}
    BY <1>4, <2>1 DEF Calm, OfTheConnected, Flying, Idle
  <2>5. /\ \A t \in Sockets : opening'[t] = IF t = s /\ opening[t] = "attaching" THEN "done" ELSE opening[t]
        /\ timers' \subseteq {viewer'.follow}
        /\ \A t \in timers' : t \in Connected /\ opening'[t] = "done"
    <3>1. CASE opening[s] = "attaching"
      <4>1. timers = {} /\ timers' = timers \cup {s} /\ opening' = [opening EXCEPT ![s] = "done"]
        BY <1>3, <2>1, <2>4, <3>1 DEF Follows, Calm, OfTheConnected
      <4> QED
        BY <1>1, <1>6, <2>4, <3>1, <4>1 DEF ScreenInv, ScreenTyped, ScreenTypeOK
    <3>2. CASE opening[s] # "attaching"
      <4>1. UNCHANGED <<opening, timers>> /\ viewer'.follow = viewer.follow
        BY <1>3, <1>6, <2>2, <3>2 DEF Follows
      <4> QED
        BY <2>1, <3>2, <4>1 DEF Calm, OfTheConnected, OfTheViewer
    <3> QED
      BY <3>1, <3>2
  <2>6. \A t \in Sockets : opening'[t] # "attaching"
    BY <2>1, <2>4, <2>5 DEF Calm, OfTheConnected
  <2>7. OfTheConnected'
    <3>1. \A t \in Sockets : opening'[t] = "stopping" => t \in Connected
      BY <2>1, <2>5 DEF Calm, OfTheConnected
    <3> QED
      BY <1>7, <2>1, <2>3, <2>4, <2>5, <2>6, <3>1 DEF Calm, OfTheConnected
  <2>8. OfTheViewer'
    BY <1>6, <1>7, <2>3, <2>4, <2>5 DEF OfTheViewer, Flying
  <2>9. FirstIsCast'
    <3>1. \A t \in Sockets : opening[t] \in {"stopping", "attaching"} => t = s
      BY <2>1, <2>4 DEF Calm, OfTheConnected
    <3>2. opening[s] # "none" /\ opening[s] # "stopping"
      BY <2>1 DEF Calm, OfTheConnected
    <3> QED
      BY <1>1, <1>3, <2>1, <2>5, <3>1, <3>2 DEF Calm, FirstIsCast, ScreenInv, ScreenTyped, ScreenTypeOK
  <2> QED
    BY <2>7, <2>8, <2>9 DEF Calm
<1> QED
  BY <1>8, <1>9, <1>10 DEF ScreenInv

LEMMA PageKeeps == ASSUME ScreenInv, PageChanges PROVE ScreenInv'
<1>1. page' \in 1 .. MaxPages
  BY ScreenAssumption DEF ScreenInv, ScreenTyped, ScreenTypeOK, PageChanges
<1>2. UNCHANGED <<tab, opening, viewer, casting, timers, attach, casts, crossed, lapped, failed>>
  BY DEF PageChanges
<1>3. ScreenTyped'
  BY <1>1, <1>2 DEF ScreenInv, ScreenTyped, ScreenTypeOK
<1> QED
  BY <1>2, <1>3 DEF ScreenInv, ViewerLives, Calm, OfTheConnected, OfTheViewer, FirstIsCast, Flying, Connected

LEMMA TabCloseKeeps == ASSUME ScreenInv, NEW s \in Sockets, CloseTab(s) PROVE ScreenInv'
<1>1. UNCHANGED <<opening, viewer, casting, timers, attach, casts, page, crossed, lapped, failed>>
  BY DEF CloseTab
<1>2. /\ tab' \in [Sockets -> {"unopened", "open", "closed", "gone"}]
      /\ \A t \in Sockets : tab'[t] = IF t = s THEN "closed" ELSE tab[t]
      /\ tab[s] = "open"
  BY DEF CloseTab, ScreenInv, ScreenTyped, ScreenTypeOK
<1>3. ScreenTyped'
  BY <1>1, <1>2 DEF ScreenInv, ScreenTyped, ScreenTypeOK
<1>4. Connected' = Connected /\ Flying' = Flying
  BY <1>1, <1>2 DEF Connected, Flying
<1>5. ViewerLives'
  BY <1>1 DEF ScreenInv, ViewerLives
<1>6. Calm => Calm'
  <2>1. OfTheConnected => OfTheConnected'
    BY <1>1, <1>4 DEF OfTheConnected
  <2>2. OfTheViewer => OfTheViewer'
    BY <1>1 DEF OfTheViewer
  <2>3. FirstIsCast => FirstIsCast'
    BY <1>1, <1>2 DEF FirstIsCast
  <2> QED
    BY <2>1, <2>2, <2>3 DEF Calm
<1> QED
  BY <1>1, <1>3, <1>5, <1>6 DEF ScreenInv

LEMMA ScreenSteps == ScreenInv /\ [ScreenNext]_screenVars => ScreenInv'
<1> SUFFICES ASSUME ScreenInv, [ScreenNext]_screenVars PROVE ScreenInv'
  OBVIOUS
<1>1. CASE \E s \in Sockets : OpenSocket(s) \/ FirstAttach(s) \/ TimerFires(s) \/ CloseTab(s) \/ CloseSocket(s)
  BY <1>1, OpenKeeps, AttachBeginKeeps, TabCloseKeeps, CloseKeeps
<1>2. CASE \E a \in Attaches : Attaching(a) \/ AttachFails(a)
  BY <1>2, CastAskedKeeps, NothingToDoKeeps, CastStartKeeps, AttachEndKeeps DEF Attaching
<1>3. CASE PageChanges
  BY <1>3, PageKeeps
<1>4. CASE UNCHANGED screenVars
  BY <1>4 DEF screenVars, ScreenInv, ScreenTyped, ScreenTypeOK, ViewerLives, Calm, OfTheConnected, OfTheViewer,
              FirstIsCast, Flying, Connected
<1> QED
  BY <1>1, <1>2, <1>3, <1>4 DEF ScreenNext

LEMMA ScreenInvTells == ScreenInv => ScreenTypeOK /\ OneLiveCast
<1> SUFFICES ASSUME ScreenInv PROVE ScreenTypeOK /\ OneLiveCast
  OBVIOUS
<1>1. ScreenTypeOK
  BY DEF ScreenInv, ScreenTyped
<1>2. ASSUME ~crossed, ~lapped
      PROVE  /\ \A c, d \in casts : c = d
             /\ \A s, t \in timers : s = t
             /\ \A s \in timers \cup {cast.socket : cast \in casts} : tab[s] # "gone"
  BY <1>2 DEF ScreenInv, Calm, OfTheConnected, OfTheViewer, Connected
<1> QED
  BY <1>1, <1>2 DEF ScreenInv, ViewerLives, OneLiveCast

-----------------------------------------------------------------------------
(* The conversation, whose parts move one at a time.                       *)

PartsInv == QueueInv /\ RunInv /\ RosterTypeOK /\ ScreenInv

LEMMA PartsStart == MCInit => PartsInv
BY QueueStarts, RunStarts, RosterStarts, ScreenStarts DEF MCInit, PartsInv

LEMMA PartsStep == PartsInv /\ [MCNext]_conversationVars => PartsInv'
<1> SUFFICES ASSUME PartsInv, [MCNext]_conversationVars PROVE PartsInv'
  OBVIOUS
<1>1. [QueueNext]_queueVars /\ [RunNext]_runVars /\ [RosterNext]_channelVars /\ [ScreenNext]_screenVars
  BY Zenon DEF MCNext, conversationVars
<1> QED
  BY <1>1, QueueSteps, RunSteps, RosterSteps, ScreenSteps DEF PartsInv

LEMMA PartsStay == MCSpec => []PartsInv
<1>1. MCInit /\ [][MCNext]_conversationVars => []PartsInv
  BY PartsStart, PartsStep, PTL
<1> QED
  BY <1>1, PTL DEF MCSpec

(* Every part has its types: the composer's queue, the events of a run,    *)
(* the roster and the live screen.                                         *)
THEOREM ConversationTypeCorrect == MCSpec => []ConversationTypeOK
<1>1. PartsInv => ConversationTypeOK
  BY RunInvTells, ScreenInvTells DEF PartsInv, QueueInv, ConversationTypeOK
<1> QED
  BY <1>1, PartsStay, PTL

(* A run of any number of turns, each with any calls, is a stream the      *)
(* surface can read, in which what the graph had the deployment run is     *)
(* told with its result before the Bot speaks again, and a Bot without a   *)
(* graph sends every call of its model's (closeText, the tools node and    *)
(* the loop over toolCalls of run.ts).                                     *)
THEOREM RunStaysTold == MCSpec => []RunIsTold
<1>1. PartsInv => RunIsTold
  BY RunInvTells DEF PartsInv, RunIsTold
<1> QED
  BY <1>1, PartsStay, PTL

(* The safety half of ViewersAreServed: the session's viewer is a cast     *)
(* that runs, and while a socket is alone and no attach outlasts its       *)
(* second it is the only one, with at most one timer, both of a socket     *)
(* that is still connected (open, attach, stopViewer and close).           *)
THEOREM OneCastLives == MCSpec => []OneLiveCast
<1>1. PartsInv => OneLiveCast
  BY ScreenInvTells DEF PartsInv
<1> QED
  BY <1>1, PartsStay, PTL

=============================================================================
