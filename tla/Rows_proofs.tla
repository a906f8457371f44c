----------------------------- MODULE Rows_proofs ------------------------------
(* Proofs about the rows that people, connectors and booting servers       *)
(* share, for any number of each: AgentStore, TenantPackage and            *)
(* CredentialVault.                                                        *)
EXTENDS MC_Rows, TLAPS

-----------------------------------------------------------------------------
(* Profiles, their connections and the callback routes: what a transaction *)
(* has read under a lock cannot change before it commits.                  *)

RowLock(a) == [table |-> "profiles", agent |-> a, mode |-> "update"]
ShareLock(a) == [table |-> "profiles", agent |-> a, mode |-> "share"]

\* Which operation is at which statement.
InPlace(q) ==
    /\ q.at \in Tables => q.op \in Mutations
    /\ q.at = "find" => q.op \in Mutations \cup {"hide"}
    /\ q.at \in {"hold", "refer"} => q.op = "link"
    /\ q.at = "pref" => q.op = "hide"
    /\ q.at = "key" => q.withKey
    /\ q.withKey => q.op \in {"create", "update"}
    /\ q.op # "link" => \A a, b \in q.on : a = b

\* A mutation that has found its agent holds it, and it is as it was found.
FoundIsHeld(q) ==
    q.op \in Mutations =>
        /\ q.at \in {"find", "key", "write"} => \A a \in q.on : RowLock(a) \in q.holds
        /\ q.at \in {"key", "write"} =>
             \A a \in q.on : /\ row[a].state = "live"
                             /\ q.op = "update" /\ ~q.withKey => q.seen = row[a].key

\* The agents of a channel to be are held, and live.
LinkedIsHeld(q) ==
    q.op = "link" =>
        /\ \A a \in q.on : ShareLock(a) \in q.holds => row[a].state = "live"
        /\ q.at \in {"refer", "write"} => \A a \in q.on : ShareLock(a) \in q.holds

NewIsNew(q) == \A a \in q.on : q.op = "create" <=> row[a] = NoAgent
KeyIsStored(r, q) == q.at = "write" /\ q.withKey => r \in vault

Sound(r, q) == InPlace(q) /\ FoundIsHeld(q) /\ LinkedIsHeld(q) /\ NewIsNew(q) /\ KeyIsStored(r, q)

Compatible(p, q) == \A l \in p.holds, m \in q.holds : ~Conflict(l, m)
Apart(p, q) == p.op = "create" /\ q.op = "create" => p.on \cap q.on = {}

IInv ==
    /\ TypeOK
    /\ \A r \in Requests : Sound(r, req[r])
    /\ \A r, s \in Requests : r # s => Compatible(req[r], req[s]) /\ Apart(req[r], req[s])

-----------------------------------------------------------------------------
(* Conflict does not depend on the order of the locks.                     *)
LEMMA ConflictSymmetric ==
  ASSUME NEW l, NEW m, Conflict(l, m)
  PROVE  Conflict(m, l)
  BY DEF Conflict

(* One request moves, no row changes.                                      *)
LEMMA MoveKeeps ==
  ASSUME IInv, NEW r \in Requests, NEW new \in Request,
         req' = [req EXCEPT ![r] = new],
         row' = row, vault \subseteq vault', vault' \subseteq Requests, channel' = channel,
         Sound(r, new)',
         \A s \in Requests \ {r} : Compatible(new, req[s]) /\ Apart(new, req[s])
  PROVE  IInv'
<1>1. req \in [Requests -> Request]
  BY DEF IInv, TypeOK
<1>2. req'[r] = new /\ \A s \in Requests \ {r} : req'[s] = req[s]
  BY <1>1
<1>3. TypeOK'
  BY <1>1 DEF IInv, TypeOK
<1>4. ASSUME NEW s \in Requests PROVE Sound(s, req[s])'
  <2>1. CASE s = r
    BY <2>1, <1>2
  <2>2. CASE s # r
    <3>1. Sound(s, req[s]) /\ req'[s] = req[s]
      BY <1>2, <2>2 DEF IInv
    <3> QED
      BY <3>1 DEF Sound, InPlace, FoundIsHeld, LinkedIsHeld, NewIsNew, KeyIsStored
  <2> QED
    BY <2>1, <2>2
<1>5. ASSUME NEW s \in Requests, NEW t \in Requests, s # t
      PROVE  Compatible(req[s], req[t])' /\ Apart(req[s], req[t])'
  <2>1. CASE s # r /\ t # r
    BY <2>1, <1>2, <1>5 DEF IInv, Compatible, Apart
  <2>2. CASE s = r
    BY <2>2, <1>2, <1>5 DEF Compatible, Apart
  <2>3. CASE t = r
    <3>1. Compatible(new, req[s]) /\ Apart(new, req[s]) /\ req'[s] = req[s] /\ req'[t] = new
      BY <2>3, <1>2, <1>5
    <3>2. ASSUME NEW l \in req'[s].holds, NEW m \in req'[t].holds PROVE ~Conflict(l, m)
      BY <3>1, <3>2, ConflictSymmetric DEF Compatible
    <3> QED
      BY <3>1, <3>2 DEF Compatible, Apart
  <2> QED
    BY <2>1, <2>2, <2>3
<1> QED
  BY <1>3, <1>4, <1>5 DEF IInv

(* A request that ends drops its locks.                                    *)
LEMMA EndKeeps ==
  ASSUME IInv, NEW r \in Requests, Ends(r), UNCHANGED <<row, vault, channel>>
  PROVE  IInv'
<1> DEFINE new == [Idle EXCEPT !.at = "done"]
<1>1. new \in Request
  BY DEF Idle, Request, None
<1>2. Sound(r, new)'
  BY DEF Sound, InPlace, FoundIsHeld, LinkedIsHeld, NewIsNew, KeyIsStored, Idle, Mutations, Tables
<1>3. \A s \in Requests \ {r} : Compatible(new, req[s]) /\ Apart(new, req[s])
  BY DEF Compatible, Apart, Idle
<1>4. req' = [req EXCEPT ![r] = new]
  BY DEF Ends
<1> HIDE DEF new
<1> QED
  BY <1>1, <1>2, <1>3, <1>4, MoveKeeps DEF IInv, TypeOK

Taken(q, locks, at) == [q EXCEPT !.holds = q.holds \cup locks, !.at = at]

(* A request takes free locks and moves on.                                *)
LEMMA TakeKeeps ==
  ASSUME IInv, NEW r \in Requests, NEW locks \in SUBSET Lock,
         NEW at \in InTransaction, Takes(r, locks, at),
         Sound(r, Taken(req[r], locks, at))
  PROVE  IInv'
<1>1. req[r] \in Request /\ req \in [Requests -> Request]
  BY DEF IInv, TypeOK
<1>2. Taken(req[r], locks, at) \in Request
  BY <1>1 DEF Request, Taken
<1>3. PICK new \in Request : new = Taken(req[r], locks, at)
  BY <1>2
<1>4. req' = [req EXCEPT ![r] = new] /\ UNCHANGED <<row, vault, channel>>
  BY <1>3 DEF Takes, Taken
<1>5. Sound(r, new)
  BY <1>3
<1>6. Sound(r, new)'
  BY <1>4, <1>5 DEF Sound, InPlace, FoundIsHeld, LinkedIsHeld, NewIsNew, KeyIsStored
<1>7. new.holds = req[r].holds \cup locks /\ new.op = req[r].op /\ new.on = req[r].on
  BY <1>1, <1>3 DEF Request, Taken
<1>8. ASSUME NEW s \in Requests \ {r} PROVE Compatible(new, req[s]) /\ Apart(new, req[s])
  <2>1. Compatible(req[r], req[s]) /\ Apart(req[r], req[s])
    BY DEF IInv
  <2>2. \A l \in req[s].holds, m \in locks : ~Conflict(l, m)
    BY DEF Takes, Free
  <2>3. ASSUME NEW l \in new.holds, NEW m \in req[s].holds PROVE ~Conflict(l, m)
    BY <2>1, <2>2, <2>3, <1>7, ConflictSymmetric DEF Compatible
  <2> QED
    BY <2>1, <1>7, <2>3 DEF Compatible, Apart
<1> QED
  BY <1>4, <1>6, <1>8, MoveKeeps DEF IInv, TypeOK

-----------------------------------------------------------------------------
(* A request arrives.                                                      *)
LEMMA ArriveKeeps ==
  ASSUME IInv, NEW r \in Requests, Arrives(r)
  PROVE  IInv'
<1>1. PICK op \in Ops, on \in SUBSET Agents \ {{}}, withKey \in BOOLEAN :
        /\ op # "link" => \E a \in Agents : on = {a}
        /\ op = "create" => on \cap Claimed = {}
        /\ \A a \in on : op = "create" <=> row[a] = NoAgent
        /\ withKey => op \in {"create", "update"}
        /\ req' = [req EXCEPT ![r] = [Idle EXCEPT !.op = op, !.on = on,
                                                  !.withKey = withKey, !.at = "begin"]]
  BY DEF Arrives
<1>2. PICK new \in Request :
        new = [op |-> op, on |-> on, withKey |-> withKey, at |-> "begin", holds |-> {}, seen |-> None]
  BY DEF Request, None
<1>3. req' = [req EXCEPT ![r] = new] /\ UNCHANGED <<row, vault, channel>>
  BY <1>1, <1>2 DEF Idle, Arrives
<1>4. Sound(r, new)'
  <2>1. InPlace(new)
    BY <1>1, <1>2 DEF InPlace, Tables
  <2>2. NewIsNew(new)'
    BY <1>1, <1>2, <1>3 DEF NewIsNew
  <2> QED
    BY <1>2, <2>1, <2>2 DEF Sound, InPlace, FoundIsHeld, LinkedIsHeld, KeyIsStored
<1>5. ASSUME NEW s \in Requests \ {r} PROVE Compatible(new, req[s]) /\ Apart(new, req[s])
  BY <1>1, <1>2 DEF Compatible, Apart, Claimed
<1> QED
  BY <1>3, <1>4, <1>5, MoveKeeps DEF IInv, TypeOK

(* A transaction begins.                                                   *)
LEMMA BeginKeeps ==
  ASSUME IInv, NEW r \in Requests, Begin(r)
  PROVE  IInv'
<1>1. req[r] \in Request /\ req \in [Requests -> Request] /\ Sound(r, req[r])
  BY DEF IInv, TypeOK
<1>2. FirstStatement(req[r]) \in InTransaction
  BY DEF FirstStatement, InTransaction, Waits
<1>3. PICK new \in Request : new = [req[r] EXCEPT !.at = FirstStatement(req[r])]
  BY <1>1, <1>2 DEF Request
<1>4. req' = [req EXCEPT ![r] = new] /\ UNCHANGED <<row, vault, channel>>
  BY <1>3 DEF Begin, Goes
<1>5. new.op = req[r].op /\ new.on = req[r].on /\ new.holds = req[r].holds
      /\ new.withKey = req[r].withKey /\ new.at = FirstStatement(req[r])
  BY <1>1, <1>3 DEF Request
<1>6. Sound(r, new)'
  <2>1. InPlace(new) /\ FoundIsHeld(new)' /\ KeyIsStored(r, new)'
    BY <1>1, <1>5 DEF Sound, InPlace, FoundIsHeld, KeyIsStored, FirstStatement, Tables, Mutations
  <2>2. LinkedIsHeld(new)' /\ NewIsNew(new)'
    BY <1>1, <1>4, <1>5 DEF Sound, LinkedIsHeld, NewIsNew, FirstStatement, Mutations
  <2> QED
    BY <2>1, <2>2 DEF Sound, InPlace
<1>7. ASSUME NEW s \in Requests \ {r} PROVE Compatible(new, req[s]) /\ Apart(new, req[s])
  BY <1>5 DEF IInv, Compatible, Apart
<1> QED
  BY <1>4, <1>6, <1>7, MoveKeeps DEF IInv, TypeOK

(* What taking locks leaves of a request.                                  *)
LEMMA TakenFields ==
  ASSUME NEW q \in Request, NEW locks, NEW at
  PROVE  LET new == Taken(q, locks, at)
         IN  /\ new.op = q.op /\ new.on = q.on /\ new.withKey = q.withKey /\ new.seen = q.seen
             /\ new.holds = q.holds \cup locks /\ new.at = at
  BY DEF Taken, Request

(* A mutation takes its two rows, the agent's first.                       *)
LEMMA MutationLocksKeep ==
  ASSUME IInv, NEW r \in Requests, LockAgent(r) \/ LockProfile(r)
  PROVE  IInv'
<1>1. req[r] \in Request /\ Sound(r, req[r])
  BY DEF IInv, TypeOK
<1>2. req[r].on \subseteq Agents
  BY <1>1 DEF Request
<1>3. CASE LockAgent(r)
  <2> DEFINE locks == LockMutationRow("agents", req[r])
  <2>1. locks \in SUBSET Lock /\ "profiles" \in InTransaction
    BY <1>2 DEF LockMutationRow, Lock, Tables, InTransaction, Waits
  <2>2. Sound(r, Taken(req[r], locks, "profiles"))
    <3> HIDE DEF locks
    <3> QED
      BY <1>1, <1>3, TakenFields
      DEF LockAgent, Sound, InPlace, FoundIsHeld, LinkedIsHeld, NewIsNew, KeyIsStored, Tables, Mutations
  <2> QED
    BY <1>3, <2>1, <2>2, TakeKeeps DEF LockAgent
<1>4. CASE LockProfile(r)
  <2> DEFINE locks == LockMutationRow("profiles", req[r])
  <2>1. locks \in SUBSET Lock /\ "find" \in InTransaction
    BY <1>2 DEF LockMutationRow, Lock, Tables, InTransaction, Waits
  <2>2. \A a \in req[r].on : RowLock(a) \in locks
    BY DEF LockMutationRow, RowLock
  <2>3. Sound(r, Taken(req[r], locks, "find"))
    <3> HIDE DEF locks
    <3> QED
      BY <1>1, <1>4, <2>2, TakenFields
      DEF LockProfile, Sound, InPlace, FoundIsHeld, LinkedIsHeld, NewIsNew, KeyIsStored, Tables, Mutations
  <2> QED
    BY <1>4, <2>1, <2>3, TakeKeeps DEF LockProfile
<1> QED
  BY <1>3, <1>4

(* getWithin holds one more agent of a channel to be.                      *)
LEMMA HoldKeeps ==
  ASSUME IInv, NEW r \in Requests, Hold(r)
  PROVE  IInv'
<1>1. req[r] \in Request /\ Sound(r, req[r])
  BY DEF IInv, TypeOK
<1>2. PICK a \in Lowest(NotShared(req[r])) :
        /\ row[a].state = "live"
        /\ Takes(r, LockReadRow(a), IF NotShared(req[r]) = {a} THEN "refer" ELSE "hold")
  BY DEF Hold
<1> DEFINE at == IF NotShared(req[r]) = {a} THEN "refer" ELSE "hold"
<1>3. a \in req[r].on /\ a \in Agents
  BY <1>1, <1>2 DEF Lowest, NotShared, Request
<1>4. LockReadRow(a) = {ShareLock(a)} /\ LockReadRow(a) \in SUBSET Lock /\ at \in InTransaction
  BY <1>3 DEF LockReadRow, ShareLock, Lock, Tables, InTransaction, Waits
<1>5. req[r].op = "link" /\ req[r].at = "hold"
  BY <1>1 DEF Hold, Sound, InPlace
<1>6. \A b \in req[r].on : ShareLock(b) = ShareLock(a) => b = a
  BY DEF ShareLock
<1>7. at = "refer" => \A b \in req[r].on : ShareLock(b) \in req[r].holds \cup LockReadRow(a)
  <2>1. NotShared(req[r]) = {a} => \A b \in req[r].on : b = a \/ ShareLock(b) \in req[r].holds
    BY DEF NotShared, Held, ShareLock
  <2> QED
    BY <1>4, <2>1
<1>8. Sound(r, Taken(req[r], LockReadRow(a), at))
  <2>1. at \in {"refer", "hold"}
    OBVIOUS
  <2> HIDE DEF at
  <2>2. LinkedIsHeld(Taken(req[r], LockReadRow(a), at))
    BY <1>1, <1>2, <1>4, <1>5, <1>6, <1>7, <2>1, TakenFields DEF LinkedIsHeld, Sound
  <2> QED
    BY <1>1, <1>5, <2>1, <2>2, TakenFields
    DEF Sound, InPlace, FoundIsHeld, NewIsNew, KeyIsStored, Tables, Mutations
<1> HIDE DEF at
<1>9. Takes(r, LockReadRow(a), at)
  BY <1>2 DEF at
<1> QED
  BY <1>4, <1>8, <1>9, TakeKeeps

(* The foreign keys take their locks.                                      *)
LEMMA ReferKeeps ==
  ASSUME IInv, NEW r \in Requests, Refer(r) \/ Prefer(r)
  PROVE  IInv'
<1>1. req[r] \in Request /\ Sound(r, req[r]) /\ req[r].on \subseteq Agents
  BY DEF IInv, TypeOK, Request
<1>2. \A a \in Agents : /\ Refers(a) \in SUBSET Lock
                        /\ \A b \in Agents : ShareLock(b) \notin Refers(a)
  BY DEF Refers, Lock, Tables, ShareLock
<1>3. "write" \in InTransaction /\ "refer" \in InTransaction
  BY DEF InTransaction, Waits
<1>4. CASE Refer(r)
  <2>1. PICK a \in Lowest(NotReferred(req[r])) :
          Takes(r, Refers(a), IF NotReferred(req[r]) = {a} THEN "write" ELSE "refer")
    BY <1>4 DEF Refer
  <2>2. PICK at \in {"write", "refer"} : Takes(r, Refers(a), at)
    BY <2>1
  <2>3. a \in Agents
    BY <1>1, <2>1 DEF Lowest, NotReferred
  <2>4. req[r].at = "refer" /\ req[r].op = "link"
    BY <1>1, <1>4 DEF Refer, Sound, InPlace
  <2>5. Sound(r, Taken(req[r], Refers(a), at))
    <3>1. LinkedIsHeld(Taken(req[r], Refers(a), at))
      BY <1>1, <1>2, <2>3, <2>4, TakenFields DEF LinkedIsHeld, Sound
    <3> QED
      BY <1>1, <2>4, <3>1, TakenFields
      DEF Sound, InPlace, FoundIsHeld, NewIsNew, KeyIsStored, Tables, Mutations
  <2> QED
    BY <1>2, <1>3, <2>2, <2>3, <2>5, TakeKeeps
<1>5. CASE Prefer(r)
  <2>1. req[r].at = "pref" /\ req[r].op = "hide" /\ Takes(r, Wanted(req[r]), "write")
    BY <1>1, <1>5 DEF Prefer, Sound, InPlace
  <2>2. Wanted(req[r]) = UNION {Refers(a) : a \in req[r].on}
    BY <2>1 DEF Wanted, Tables
  <2>3. PICK locks \in SUBSET Lock : locks = Wanted(req[r])
    BY <1>1, <1>2, <2>2
  <2>4. Sound(r, Taken(req[r], locks, "write"))
    BY <1>1, <2>1, TakenFields
    DEF Sound, InPlace, FoundIsHeld, LinkedIsHeld, NewIsNew, KeyIsStored, Tables, Mutations
  <2> QED
    BY <1>3, <2>1, <2>3, <2>4, TakeKeeps
<1> QED
  BY <1>4, <1>5

(* A request finds its agent, and an update what its configuration names.  *)
LEMMA FindKeeps ==
  ASSUME IInv, NEW r \in Requests, Find(r)
  PROVE  IInv'
<1>1. req[r] \in Request /\ req \in [Requests -> Request] /\ Sound(r, req[r])
  BY DEF IInv, TypeOK
<1>2. PICK a \in req[r].on :
        /\ row[a].state = "live"
        /\ req' = [req EXCEPT
              ![r].seen = row[a].key,
              ![r].at = IF req[r].op = "hide" THEN "pref"
                        ELSE IF req[r].withKey THEN "key" ELSE "write"]
  BY DEF Find
<1>3. PICK at \in {"pref", "key", "write"} :
        at = IF req[r].op = "hide" THEN "pref" ELSE IF req[r].withKey THEN "key" ELSE "write"
  OBVIOUS
<1>4. row[a].key \in Requests \cup {None}
  BY <1>1, <1>2 DEF IInv, TypeOK, Row, Request
<1>5. [req[r] EXCEPT !.seen = row[a].key, !.at = at] \in Request
  BY <1>1, <1>4 DEF Request, InTransaction, Waits
<1>6. PICK new \in Request : new = [req[r] EXCEPT !.seen = row[a].key, !.at = at]
  BY <1>5
<1>7. req' = [req EXCEPT ![r] = new] /\ UNCHANGED <<row, vault, channel>>
  BY <1>2, <1>3, <1>6 DEF Find
<1>8. /\ new.op = req[r].op /\ new.on = req[r].on /\ new.holds = req[r].holds
      /\ new.withKey = req[r].withKey /\ new.at = at /\ new.seen = row[a].key
  BY <1>1, <1>6 DEF Request
<1>9. req[r].at = "find" /\ req[r].op \in Mutations \cup {"hide"} /\ \A b \in req[r].on : b = a
  BY <1>1, <1>2 DEF Find, Sound, InPlace, Mutations
<1>10. Sound(r, new)
  BY <1>1, <1>2, <1>3, <1>8, <1>9
  DEF Sound, InPlace, FoundIsHeld, LinkedIsHeld, NewIsNew, KeyIsStored, Tables, Mutations
<1>11. Sound(r, new)'
  BY <1>7, <1>10 DEF Sound, InPlace, FoundIsHeld, LinkedIsHeld, NewIsNew, KeyIsStored
<1>12. ASSUME NEW s \in Requests \ {r} PROVE Compatible(new, req[s]) /\ Apart(new, req[s])
  BY <1>8 DEF IInv, Compatible, Apart
<1> QED
  BY <1>7, <1>11, <1>12, MoveKeeps DEF IInv, TypeOK

(* The vault takes a key.                                                  *)
LEMMA StoreKeeps ==
  ASSUME IInv, NEW r \in Requests, StoreKey(r)
  PROVE  IInv'
<1>1. req[r] \in Request /\ req \in [Requests -> Request] /\ Sound(r, req[r])
  BY DEF IInv, TypeOK
<1>2. PICK new \in Request : new = [req[r] EXCEPT !.at = "write"]
  BY <1>1 DEF Request, InTransaction
<1>3. /\ req' = [req EXCEPT ![r] = new] /\ UNCHANGED <<row, channel>>
      /\ vault \subseteq vault' /\ vault' \subseteq Requests /\ r \in vault'
  BY <1>2 DEF StoreKey, Goes, IInv, TypeOK
<1>4. /\ new.op = req[r].op /\ new.on = req[r].on /\ new.holds = req[r].holds
      /\ new.withKey = req[r].withKey /\ new.at = "write" /\ new.seen = req[r].seen
  BY <1>1, <1>2 DEF Request
<1>5. req[r].at = "key" /\ req[r].withKey /\ req[r].op \in {"create", "update"}
  BY <1>1 DEF StoreKey, Sound, InPlace
<1>6. Sound(r, new)'
  BY <1>1, <1>3, <1>4, <1>5
  DEF Sound, InPlace, FoundIsHeld, LinkedIsHeld, NewIsNew, KeyIsStored, Tables, Mutations
<1>7. ASSUME NEW s \in Requests \ {r} PROVE Compatible(new, req[s]) /\ Apart(new, req[s])
  BY <1>4 DEF IInv, Compatible, Apart
<1> QED
  BY <1>3, <1>6, <1>7, MoveKeeps

-----------------------------------------------------------------------------
(* What a commit does to a row: nothing, or what its request may do to it. *)
LEMMA CommitWrites ==
  ASSUME IInv, NEW r \in Requests, Commit(r), NEW a \in Agents, row'[a] # row[a]
  PROVE  /\ a \in req[r].on /\ row'[a] = Written(r, row[a])
         /\ \/ req[r].op = "create" /\ row[a] = NoAgent
            \/ req[r].op \in Mutations /\ row[a].state = "live" /\ RowLock(a) \in req[r].holds
<1>1. a \in req[r].on /\ row'[a] = Written(r, row[a])
  BY DEF Commit
<1>2. req[r] \in Request /\ Sound(r, req[r]) /\ req[r].at = "write"
  BY DEF IInv, TypeOK, Commit
<1>3. req[r].op \in Mutations \cup {"create"}
  BY <1>1 DEF Written, Mutations
<1> QED
  BY <1>1, <1>2, <1>3 DEF Sound, FoundIsHeld, NewIsNew

(* What is written is a row.                                               *)
LEMMA WrittenTyped ==
  ASSUME IInv, NEW r \in Requests, NEW old \in Row
  PROVE  Written(r, old) \in Row
<1>1. req[r] \in Request
  BY DEF IInv, TypeOK
<1> DEFINE key == IF req[r].withKey THEN r ELSE req[r].seen
<1>2. key \in Requests \cup {None} /\ (IF req[r].withKey THEN r ELSE None) \in Requests \cup {None}
  BY <1>1 DEF Request
<1>3. /\ [old EXCEPT !.key = key] \in Row
      /\ [old EXCEPT !.state = "deleted"] \in Row
      /\ [old EXCEPT !.token = r] \in Row
      /\ [old EXCEPT !.token = None] \in Row
      /\ NewAgent(IF req[r].withKey THEN r ELSE None) \in Row
  BY <1>2 DEF Row, NewAgent
<1> QED
  BY <1>3 DEF Written

(* A commit disturbs nobody: what another request has read it holds.       *)
LEMMA CommitKeeps ==
  ASSUME IInv, NEW r \in Requests, Commit(r)
  PROVE  IInv'
<1>1. req \in [Requests -> Request] /\ row \in [Agents -> Row] /\ req[r] \in Request
  BY DEF IInv, TypeOK
<1>2. Ends(r) /\ vault' = vault
  BY DEF Commit
<1>3. /\ req'[r] = [Idle EXCEPT !.at = "done"]
      /\ \A s \in Requests \ {r} : req'[s] = req[s]
  BY <1>1, <1>2 DEF Ends
<1>4. [Idle EXCEPT !.at = "done"] \in Request
  BY DEF Idle, Request, None
<1>5. TypeOK'
  <2>1. req' \in [Requests -> Request]
    BY <1>1, <1>2, <1>4 DEF Ends
  <2>2. row' \in [Agents -> Row]
    BY <1>1, WrittenTyped DEF Commit
  <2>3. channel' \in [Requests -> SUBSET Agents]
    <3>1. req[r].on \subseteq Agents
      BY <1>1 DEF Request
    <3> QED
      BY <3>1 DEF IInv, TypeOK, Commit
  <2> QED
    BY <1>2, <2>1, <2>2, <2>3 DEF IInv, TypeOK
<1>6. ASSUME NEW s \in Requests PROVE Sound(s, req[s])'
  <2>1. CASE s = r
    BY <1>3, <2>1
    DEF Sound, InPlace, FoundIsHeld, LinkedIsHeld, NewIsNew, KeyIsStored, Idle, Mutations, Tables
  <2>2. CASE s # r
    <3>1. req'[s] = req[s] /\ Sound(s, req[s]) /\ req[s].on \subseteq Agents
      BY <1>1, <1>3, <2>2 DEF IInv, Request
    <3>2. ASSUME NEW a \in req[s].on, row'[a] # row[a]
          PROVE  /\ RowLock(a) \notin req[s].holds
                 /\ ShareLock(a) \notin req[s].holds
                 /\ req[s].op # "create" /\ row'[a] # NoAgent
      <4>1. a \in Agents
        BY <3>1
      <4>2. ~(req[r].op = "create" /\ row[a] = NoAgent /\ a \in req[r].on)
        BY <2>2, <3>1 DEF IInv, Apart, Sound, NewIsNew
      <4>3. /\ req[r].op \in Mutations /\ row[a].state = "live" /\ RowLock(a) \in req[r].holds
            /\ row'[a] = Written(r, row[a])
        BY <3>2, <4>1, <4>2, CommitWrites
      <4>4. Conflict(RowLock(a), RowLock(a)) /\ Conflict(RowLock(a), ShareLock(a))
        BY DEF Conflict, RowLock, ShareLock
      <4>5. RowLock(a) \notin req[s].holds /\ ShareLock(a) \notin req[s].holds
        BY <2>2, <4>3, <4>4 DEF IInv, Compatible
      <4>6. row[a] \in Row
        BY <1>1, <4>1
      <4>7. row'[a].state \in {"live", "deleted"}
        BY <4>3, <4>6 DEF Written, Row, Mutations
      <4>8. req[s].op # "create"
        BY <3>1, <4>3 DEF Sound, NewIsNew, NoAgent
      <4> QED
        BY <4>5, <4>7, <4>8 DEF NoAgent
    <3> QED
      BY <1>2, <3>1, <3>2 DEF Sound, InPlace, FoundIsHeld, LinkedIsHeld, NewIsNew, KeyIsStored
  <2> QED
    BY <2>1, <2>2
<1>7. ASSUME NEW s \in Requests, NEW t \in Requests, s # t
      PROVE  Compatible(req[s], req[t])' /\ Apart(req[s], req[t])'
  <2>1. CASE s # r /\ t # r
    BY <2>1, <1>3, <1>7 DEF IInv, Compatible, Apart
  <2>2. CASE s = r \/ t = r
    BY <2>2, <1>3 DEF Compatible, Apart, Idle
  <2> QED
    BY <2>1, <2>2
<1> QED
  BY <1>5, <1>6, <1>7 DEF IInv

-----------------------------------------------------------------------------
LEMMA InitIInv == Init => IInv
<1> SUFFICES ASSUME Init PROVE IInv
  OBVIOUS
<1>1. TypeOK
  BY DEF Init, TypeOK, Row, Request, Idle, NoAgent, NewAgent, None
<1>2. \A r \in Requests : Sound(r, req[r])
  BY DEF Init, Sound, InPlace, FoundIsHeld, LinkedIsHeld, NewIsNew, KeyIsStored, Idle, Mutations, Tables
<1>3. \A r, s \in Requests : r # s => Compatible(req[r], req[s]) /\ Apart(req[r], req[s])
  BY DEF Init, Compatible, Apart, Idle
<1> QED
  BY <1>1, <1>2, <1>3 DEF IInv

LEMMA NextIInv == IInv /\ [Next]_vars => IInv'
<1> SUFFICES ASSUME IInv, [Next]_vars PROVE IInv'
  OBVIOUS
<1>1. CASE UNCHANGED vars
  BY <1>1 DEF vars, IInv, TypeOK, Sound, InPlace, FoundIsHeld, LinkedIsHeld, NewIsNew, KeyIsStored,
     Compatible, Apart
<1>2. ASSUME NEW r \in Requests, Arrives(r) \/ Continue(r) \/ Rollback(r) PROVE IInv'
  <2>1. CASE Arrives(r)
    BY <2>1, ArriveKeeps
  <2>2. CASE Begin(r)
    BY <2>2, BeginKeeps
  <2>3. CASE LockAgent(r) \/ LockProfile(r)
    BY <2>3, MutationLocksKeep
  <2>4. CASE Find(r)
    BY <2>4, FindKeeps
  <2>5. CASE Hold(r)
    BY <2>5, HoldKeeps
  <2>6. CASE Refer(r) \/ Prefer(r)
    BY <2>6, ReferKeeps
  <2>7. CASE StoreKey(r)
    BY <2>7, StoreKeeps
  <2>8. CASE Commit(r)
    BY <2>8, CommitKeeps
  <2>9. CASE NotFound(r) \/ EndedByPostgres(r) \/ Rollback(r)
    BY <2>9, EndKeeps DEF NotFound, EndedByPostgres, Rollback
  <2> QED
    BY <1>2, <2>1, <2>2, <2>3, <2>4, <2>5, <2>6, <2>7, <2>8, <2>9 DEF Continue
<1> QED
  BY <1>1, <1>2 DEF Next

(* Whoever waits on whose row, the invariant of the agents' transactions   *)
(* (their locks, rows, connections and keys) always holds.                 *)
THEOREM Invariance == Spec => []IInv
  BY InitIInv, NextIInv, PTL DEF Spec

(* The rows, the vault, the channels and the requests keep their types.    *)
THEOREM TypeCorrect == Spec => []TypeOK
<1>1. IInv => TypeOK
  BY DEF IInv
<1> QED
  BY <1>1, Invariance, PTL

(* Only a commit changes a row or creates a channel.                       *)
LEMMA OnlyCommits ==
  ASSUME [Next]_vars, ~(row' = row /\ channel' = channel)
  PROVE  \E r \in Requests : Commit(r)
  BY DEF Next, vars, Arrives, Continue, Begin, LockAgent, LockProfile, Takes, Find, Hold, Refer,
     Prefer, StoreKey, NotFound, EndedByPostgres, Rollback

(* A deleted agent is final, for any number of agents, requests and        *)
(* connections: TombstonesAreFinal.                                        *)
THEOREM TombstonesTheorem == Spec => TombstonesAreFinal
<1>1. IInv /\ [Next]_vars => [\A a \in Agents : row[a].state = "deleted" => row'[a] = row[a]]_vars
  <2> SUFFICES ASSUME IInv, [Next]_vars, NEW a \in Agents, row[a].state = "deleted",
                      row'[a] # row[a]
               PROVE  FALSE
    OBVIOUS
  <2>1. PICK r \in Requests : Commit(r)
    BY OnlyCommits
  <2> QED
    BY <2>1, CommitWrites DEF NoAgent
<1> QED
  BY <1>1, Invariance, PTL DEF Spec, TombstonesAreFinal

(* A channel is created over live agents: LinksAreLive.                    *)
THEOREM LinksTheorem == Spec => LinksAreLive
<1>1. IInv /\ [Next]_vars =>
        [\A r \in Requests : channel'[r] # channel[r] =>
           \A a \in channel'[r] : row[a].state = "live"]_vars
  <2> SUFFICES ASSUME IInv, [Next]_vars, NEW r \in Requests, channel'[r] # channel[r],
                      NEW a \in channel'[r]
               PROVE  row[a].state = "live"
    OBVIOUS
  <2>1. PICK s \in Requests : Commit(s)
    BY OnlyCommits
  <2>2. s = r /\ req[r].op = "link" /\ channel'[r] = req[r].on
    BY <2>1 DEF Commit, IInv, TypeOK
  <2>3. Sound(r, req[r]) /\ req[r].at = "write"
    BY <2>1, <2>2 DEF IInv, Commit
  <2> QED
    BY <2>2, <2>3 DEF Sound, LinkedIsHeld
<1> QED
  BY <1>1, Invariance, PTL DEF Spec, LinksAreLive

(* An edit that brings no key leaves the one there is: EditsKeepTheKey.    *)
THEOREM EditsTheorem == Spec => EditsKeepTheKey
<1> DEFINE Kept == \A a \in Agents : row'[a].key # row[a].key =>
                     \E r \in Requests : /\ row'[a].key = r
                                         /\ r \in vault
                                         /\ req[r].at = "write" /\ req'[r].at = "done"
<1>1. IInv /\ [Next]_vars => [Kept]_vars
  <2> SUFFICES ASSUME IInv, [Next]_vars, NEW a \in Agents, row'[a].key # row[a].key
               PROVE  \E r \in Requests : /\ row'[a].key = r
                                          /\ r \in vault
                                          /\ req[r].at = "write" /\ req'[r].at = "done"
    OBVIOUS
  <2>1. PICK r \in Requests : Commit(r)
    BY OnlyCommits
  <2>2. /\ a \in req[r].on /\ row'[a] = Written(r, row[a])
        /\ \/ req[r].op = "create" /\ row[a] = NoAgent
           \/ req[r].op \in Mutations /\ row[a].state = "live"
    BY <2>1, CommitWrites
  <2>3. Sound(r, req[r]) /\ req[r].at = "write" /\ row[a] \in Row
    BY <2>1 DEF IInv, TypeOK, Commit
  <2>4. req[r].withKey /\ row'[a].key = r
    BY <2>2, <2>3 DEF Sound, FoundIsHeld, Written, NoAgent, NewAgent, Mutations, Row
  <2>5. req'[r].at = "done"
    BY <2>1 DEF Commit, Ends, Idle, IInv, TypeOK
  <2> QED
    BY <2>3, <2>4, <2>5 DEF Sound, KeyIsStored
<1> QED
  BY <1>1, Invariance, PTL DEF Spec, EditsKeepTheKey

-----------------------------------------------------------------------------
(* The tenant package: one server at a time is between reading a package's *)
(* row and committing, because the row is locked.                          *)

Boot == [at : {"down", "package", "agents", "roomWritten", "roomLeft", "agentsDropped", "agentsDroppedAlone"},
         package : Packages \cup {NoPackage}, upserted : Nat, dropping : SUBSET AgentIds]
Dropped(b) == b.at \in {"agentsDropped", "agentsDroppedAlone"}
Opened(b) == b.at \notin {"down", "package"}
Holding(b) == {b.package.agents[i] : i \in 1 .. b.upserted} \cup b.dropping

\* A transaction has written only what was its tenant's or nobody's, and drops
\* what its tenant still has and no longer declares.
Placed(b) ==
    /\ b.at # "down" => b.package \in Packages
    /\ b.upserted <= Len(b.package.agents)
    /\ ~Opened(b) => b.upserted = 0
    /\ Opened(b) /\ b.at # "agents" => b.upserted = Len(b.package.agents)
    /\ b.dropping = IF Dropped(b)
                    THEN {a \in AgentIds \ ToSet(b.package.agents) : agentRecord[a].of = b.package.tenant}
                    ELSE {}
    /\ \A i \in 1 .. b.upserted : agentRecord[b.package.agents[i]].of \in {b.package.tenant, "none"}
    /\ b.at \in {"roomLeft", "agentsDroppedAlone"} => room.of # b.package.tenant

\* Transactions at once are of different tenants and write different agents.
Disjoint(b, c) ==
    Opened(b) /\ Opened(c) => b.package.tenant # c.package.tenant /\ Holding(b) \cap Holding(c) = {}

PackInv ==
    /\ PackageTypeOK /\ DeployedWhole
    /\ \A s \in Servers : Placed(booting[s])
    /\ \A r, s \in Servers : r # s => Disjoint(booting[r], booting[s])

-----------------------------------------------------------------------------
(* What a version is, and that no version is the empty one.                *)
LEMMA PackagesAre ==
  ASSUME NEW p \in Packages \cup {NoPackage}
  PROVE  /\ Len(p.agents) \in Nat /\ DOMAIN p.agents = 1 .. Len(p.agents)
         /\ \A i \in 1 .. Len(p.agents) : p.agents[i] \in ToSet(p.agents)
         /\ p \in Packages => /\ p.tenant \in Tenants /\ ToSet(p.agents) \subseteq AgentIds
                              /\ p.permitted \subseteq ToSet(p.agents)
<1>1. p.agents \in Seq(ToSet(p.agents))
  <2>1. CASE p \in Packages
    BY <2>1, PackageAssumption
  <2>2. CASE p = NoPackage
    <3>1. p.agents = <<>>
      BY <2>2 DEF NoPackage
    <3> QED
      BY <3>1
  <2> QED
    BY <2>1, <2>2
<1>2. \A S, q : q \in Seq(S) => Len(q) \in Nat /\ DOMAIN q = 1 .. Len(q)
  OBVIOUS
<1>3. PICK ags : ags = p.agents
  OBVIOUS
<1>4. \A i \in DOMAIN ags : ags[i] \in ToSet(ags)
  BY DEF ToSet
<1>5. p \in Packages => /\ p.tenant \in Tenants /\ ToSet(p.agents) \subseteq AgentIds
                        /\ p.permitted \subseteq ToSet(p.agents)
  BY PackageAssumption DEF Tenants, AgentIds
<1> QED
  BY <1>1, <1>2, <1>3, <1>4, <1>5

LEMMA BootsAre ==
  ASSUME PackageTypeOK
  PROVE  booting \in [Servers -> Boot]
  BY DEF PackageTypeOK, Boot

(* No tenant is called as the rows of people and of nobody are.            *)
LEMMA TenantsAreNamed == "none" \notin Tenants /\ "people" \notin Tenants
  BY PackageAssumption DEF Tenants

(* A step that commits nothing keeps the invariant, if the transaction it  *)
(* leaves is in place and meets no other.                                  *)
LEMMA ProceedingKeeps ==
  ASSUME PackInv, NEW s \in Servers, NEW to \in Boot, Proceeds(s, to), Placed(to),
         \A r \in Servers \ {s} : Disjoint(booting[r], to)
  PROVE  PackInv'
<1>1. /\ booting' = [booting EXCEPT ![s] = to] /\ booting \in [Servers -> Boot]
      /\ UNCHANGED <<deployed, agentRecord, room, roomAgents, chatted>>
  BY BootsAre DEF PackInv, Proceeds, Committed
<1>2. booting'[s] = to /\ (\A r \in Servers \ {s} : booting'[r] = booting[r]) /\ booting' \in [Servers -> Boot]
  BY <1>1
<1>3. ASSUME NEW r \in Servers PROVE Placed(booting[r])'
  <2>1. Placed(booting'[r])
    BY <1>2 DEF PackInv
  <2> QED
    BY <1>1, <2>1 DEF Placed, Opened, Dropped
<1>4. ASSUME NEW r \in Servers, NEW q \in Servers, r # q PROVE Disjoint(booting[r], booting[q])'
  <2>1. Disjoint(booting'[r], booting'[q])
    <3>1. \A b, c : Disjoint(b, c) => Disjoint(c, b)
      BY DEF Disjoint
    <3> QED
      BY <1>2, <1>4, <3>1 DEF PackInv
  <2> QED
    BY <2>1 DEF Disjoint, Opened, Holding
<1>5. PackageTypeOK'
  <2>1. \A r \in Servers : booting'[r].upserted <= Len(booting'[r].package.agents)
    BY <1>3 DEF Placed
  <2> QED
    BY <1>1, <1>2, <2>1 DEF PackInv, PackageTypeOK, Boot
<1>6. DeployedWhole'
  BY <1>1 DEF PackInv, DeployedWhole
<1> QED
  BY <1>3, <1>4, <1>5, <1>6 DEF PackInv

(* What a transaction is after one of its fields changed.                  *)
LEMMA BootsMove ==
  ASSUME NEW b \in Boot, NEW to,
         NEW at \in {"package", "agents", "roomWritten", "roomLeft", "agentsDropped", "agentsDroppedAlone"},
         to = [b EXCEPT !.at = at]
  PROVE  to \in Boot /\ to.at = at /\ to.package = b.package /\ to.upserted = b.upserted /\ to.dropping = b.dropping
  BY DEF Boot

LEMMA BootsUpsert ==
  ASSUME NEW b \in Boot, NEW to, NEW n \in Nat, to = [b EXCEPT !.upserted = n]
  PROVE  to \in Boot /\ to.at = b.at /\ to.package = b.package /\ to.upserted = n /\ to.dropping = b.dropping
  BY DEF Boot

(* A transaction that is not under way, or that only moves on, meets no    *)
(* other.                                                                  *)
LEMMA MeetsNobody ==
  ASSUME PackInv, NEW s \in Servers, NEW to \in Boot,
         ~Opened(to) \/ (Opened(booting[s]) /\ to.package = booting[s].package /\ Holding(to) = Holding(booting[s]))
  PROVE  \A r \in Servers \ {s} : Disjoint(booting[r], to)
  BY DEF PackInv, Disjoint

LEMMA DownIsPlaced == Down \in Boot /\ Placed(Down) /\ ~Opened(Down)
<1>1. /\ Down.at = "down" /\ Down.package = NoPackage /\ Down.upserted = 0 /\ Down.dropping = {}
      /\ NoPackage.agents = <<>> /\ Down \in Boot
  BY DEF Down, NoPackage, Boot
<1> QED
  BY <1>1 DEF Placed, Opened, Dropped

LEMMA PackagesStart == PackageInit => PackInv
<1> SUFFICES ASSUME PackageInit PROVE PackInv
  OBVIOUS
<1>1. \A s \in Servers : booting[s] = Down
  BY DEF PackageInit
<1>2. PackageTypeOK
  <2>1. \A s \in Servers : booting[s].upserted <= Len(booting[s].package.agents)
    BY <1>1, DownIsPlaced DEF Placed
  <2>2. booting \in [Servers -> Boot]
    BY DownIsPlaced DEF PackageInit
  <2>3. NoRecord \in Records /\ [NoRecord EXCEPT !.of = "people"] \in Records
    BY DEF NoRecord, Records
  <2> QED
    BY <2>1, <2>2, <2>3 DEF PackageInit, PackageTypeOK, Boot
<1>3. DeployedWhole
  <2>1. \A a \in AgentIds : agentRecord[a].of \notin Tenants
    BY TenantsAreNamed DEF PackageInit, NoRecord
  <2>2. room.of \notin Tenants
    BY TenantsAreNamed DEF PackageInit, NoRecord
  <2>3. \A t \in Tenants : deployed[t].agents = <<>>
    BY DEF PackageInit, NoPackage
  <2> QED
    BY <2>1, <2>2, <2>3 DEF DeployedWhole, ToSet
<1>4. \A s \in Servers : Placed(booting[s]) /\ ~Opened(booting[s])
  BY <1>1, DownIsPlaced
<1> QED
  BY <1>2, <1>3, <1>4 DEF PackInv, Disjoint

LEMMA BootingKeeps == ASSUME PackInv, NEW s \in Servers, Boots(s) PROVE PackInv'
<1>1. PICK p \in Packages : Proceeds(s, [Down EXCEPT !.at = "package", !.package = p])
  BY DEF Boots
<1>2. PICK to : to = [Down EXCEPT !.at = "package", !.package = p]
  OBVIOUS
<1>3. to.at = "package" /\ to.package = p /\ to.upserted = 0 /\ to.dropping = {} /\ to \in Boot
  BY <1>2 DEF Down, Boot
<1>4. Placed(to) /\ ~Opened(to)
  BY <1>3, PackagesAre DEF Placed, Opened, Dropped
<1> QED
  BY <1>1, <1>2, <1>3, <1>4, MeetsNobody, ProceedingKeeps

LEMMA RollingBackKeeps == ASSUME PackInv, NEW s \in Servers, Proceeds(s, Down) PROVE PackInv'
  BY DownIsPlaced, MeetsNobody, ProceedingKeeps

LEMMA LoadingKeeps == ASSUME PackInv, NEW s \in Servers, LoadPackage(s) PROVE PackInv'
<1>1. PICK b \in Boot : b = booting[s]
  BY BootsAre DEF PackInv
<1>2. b.at = "package" /\ Proceeds(s, [b EXCEPT !.at = "agents"]) /\ Placed(b)
  BY <1>1 DEF LoadPackage, PackInv
<1>3. PICK to : to = [b EXCEPT !.at = "agents"]
  OBVIOUS
<1>4. to \in Boot /\ to.at = "agents" /\ to.package = b.package /\ to.upserted = b.upserted /\ to.dropping = b.dropping
  BY <1>3, BootsMove
<1>5. to.upserted = 0 /\ to.dropping = {}
  BY <1>2, <1>4 DEF Placed, Opened, Dropped
<1>6. Placed(to)
  BY <1>2, <1>4, <1>5 DEF Placed, Opened, Dropped
<1>7. ASSUME NEW r \in Servers \ {s} PROVE Disjoint(booting[r], to)
  <2>1. Opened(booting[r]) => booting[r].package.tenant # to.package.tenant
    BY <1>1, <1>4 DEF LoadPackage, FirstOfTenant, Rivals, Loading, Opened, Tenant
  <2>2. Holding(to) = {}
    BY <1>5 DEF Holding
  <2> QED
    BY <2>1, <2>2 DEF Disjoint
<1> QED
  BY <1>2, <1>3, <1>4, <1>6, <1>7, ProceedingKeeps

LEMMA UpsertingKeeps == ASSUME PackInv, NEW s \in Servers, UpsertAgent(s) PROVE PackInv'
<1>1. PICK b \in Boot : b = booting[s]
  BY BootsAre DEF PackInv
<1>2. PICK n : n = b.upserted + 1
  OBVIOUS
<1>3. b.at = "agents" /\ Placed(b) /\ n \in Nat /\ n = b.upserted + 1 /\ b.upserted \in Nat /\ b.upserted < Len(b.package.agents)
  BY <1>1, <1>2 DEF UpsertAgent, PackInv, Boot
<1>4. PICK a : a = b.package.agents[n]
  OBVIOUS
<1>5. CASE MayUpsert(s, a) /\ Unwritten(s, a) /\ Proceeds(s, [b EXCEPT !.upserted = n])
  <2>1. PICK to : to = [b EXCEPT !.upserted = n]
    OBVIOUS
  <2>2. to \in Boot /\ to.at = "agents" /\ to.package = b.package /\ to.upserted = n /\ to.dropping = b.dropping
    BY <1>3, <2>1, BootsUpsert
  <2>3. b.package \in Packages /\ Len(b.package.agents) \in Nat /\ b.dropping = {}
    BY <1>3, PackagesAre DEF Placed, Dropped, Boot
  <2>4. agentRecord[a].of \in {b.package.tenant, "none"}
    BY <1>1, <1>5 DEF MayUpsert, Tenant
  <2>5. Placed(to)
    BY <1>3, <1>4, <2>2, <2>3, <2>4 DEF Placed, Opened, Dropped
  <2>6. Holding(to) \subseteq Holding(b) \cup {a}
    BY <1>3, <1>4, <2>2, <2>3 DEF Holding
  <2>7. ASSUME NEW r \in Servers \ {s} PROVE Disjoint(booting[r], to)
    <3>1. Opened(booting[r]) => a \notin Holding(booting[r])
      BY <1>5 DEF Unwritten, Rivals, Opened, Holding, Wrote
    <3>2. Disjoint(booting[r], b) /\ Opened(b)
      BY <1>1, <1>3 DEF PackInv, Opened
    <3> QED
      BY <2>2, <2>6, <3>1, <3>2 DEF Disjoint
  <2> QED
    BY <1>5, <2>1, <2>2, <2>5, <2>7, ProceedingKeeps
<1>6. CASE Proceeds(s, Down)
  BY <1>6, RollingBackKeeps
<1> QED
  BY <1>1, <1>2, <1>4, <1>5, <1>6 DEF UpsertAgent

LEMMA RoomKeeps == ASSUME PackInv, NEW s \in Servers, UpsertOrDropRoom(s) PROVE PackInv'
<1>1. PICK b \in Boot : b = booting[s]
  BY BootsAre DEF PackInv
<1>2. b.at = "agents" /\ b.upserted = Len(b.package.agents) /\ Placed(b)
  BY <1>1 DEF UpsertOrDropRoom, PackInv
<1>3. PICK at \in {"roomWritten", "roomLeft"} :
         Proceeds(s, [b EXCEPT !.at = at]) /\ (at = "roomLeft" => room.of # b.package.tenant)
  BY <1>1 DEF UpsertOrDropRoom, Tenant
<1>4. PICK to : to = [b EXCEPT !.at = at]
  OBVIOUS
<1>5. to \in Boot /\ to.at = at /\ to.package = b.package /\ to.upserted = b.upserted /\ to.dropping = b.dropping
  BY <1>4, BootsMove
<1>6. Placed(to)
  BY <1>2, <1>3, <1>5 DEF Placed, Opened, Dropped
<1>7. Opened(b) /\ Holding(to) = Holding(b)
  BY <1>2, <1>5 DEF Opened, Holding
<1> QED
  BY <1>1, <1>3, <1>4, <1>5, <1>6, <1>7, MeetsNobody, ProceedingKeeps

LEMMA DroppingKeeps == ASSUME PackInv, NEW s \in Servers, DropAgents(s) PROVE PackInv'
<1>1. PICK b \in Boot : b = booting[s]
  BY BootsAre DEF PackInv
<1>2. PICK drops : drops = {a \in AgentIds \ ToSet(b.package.agents) : agentRecord[a].of = b.package.tenant}
  OBVIOUS
<1>3. b.at \in {"roomWritten", "roomLeft"} /\ Placed(b) /\ \A a \in drops : Unwritten(s, a)
  BY <1>1, <1>2 DEF DropAgents, Declared, Tenant, PackInv
<1>4. PICK at \in {"agentsDropped", "agentsDroppedAlone"} :
         Proceeds(s, [b EXCEPT !.dropping = drops, !.at = at]) /\ (at = "agentsDroppedAlone" => b.at = "roomLeft")
  BY <1>1, <1>2 DEF DropAgents, Declared, Tenant
<1>5. PICK to : to = [b EXCEPT !.dropping = drops, !.at = at]
  OBVIOUS
<1>6. to \in Boot /\ to.at = at /\ to.package = b.package /\ to.upserted = b.upserted /\ to.dropping = drops
  <2>1. PICK c : c = [b EXCEPT !.dropping = drops]
    OBVIOUS
  <2>2. c \in Boot /\ c.package = b.package /\ c.upserted = b.upserted /\ c.dropping = drops
    BY <1>2, <2>1 DEF Boot
  <2>3. to = [c EXCEPT !.at = at]
    BY <1>5, <2>1
  <2> QED
    BY <2>2, <2>3, BootsMove
<1>7. Placed(to)
  BY <1>2, <1>3, <1>4, <1>6 DEF Placed, Opened, Dropped
<1>8. Opened(b) /\ Holding(to) = Holding(b) \cup drops
  BY <1>3, <1>6 DEF Opened, Holding, Placed, Dropped
<1>9. ASSUME NEW r \in Servers \ {s} PROVE Disjoint(booting[r], to)
  <2>1. Opened(booting[r]) => drops \cap Holding(booting[r]) = {}
    BY <1>3 DEF Unwritten, Rivals, Opened, Holding, Wrote
  <2>2. Disjoint(booting[r], b)
    BY <1>1 DEF PackInv
  <2> QED
    BY <1>6, <1>8, <2>1, <2>2 DEF Disjoint
<1> QED
  BY <1>4, <1>5, <1>6, <1>7, <1>9, ProceedingKeeps

(* What a commit does to the agents: the version's are all of the tenant's *)
(* there are, and nothing is taken of another tenant's or of people's.     *)
LEMMA PackageCommitWrites ==
  ASSUME PackInv, NEW s \in Servers, Commits(s), NEW b, b = booting[s]
  PROVE  /\ b \in Boot /\ Dropped(b) /\ Opened(b) /\ Placed(b) /\ b.package \in Packages
         /\ \A a \in AgentIds : agentRecord'[a].of = b.package.tenant <=> a \in ToSet(b.package.agents)
         /\ \A a \in ToSet(b.package.agents) : agentRecord'[a] = [of |-> b.package.tenant, as |-> b.package]
         /\ \A a \in AgentIds \ Holding(b) : agentRecord'[a] = agentRecord[a]
         /\ \A a \in Holding(b) : agentRecord[a].of \in {b.package.tenant, "none"}
                                /\ agentRecord'[a].of \in {b.package.tenant, "none"}
         /\ b.dropping = {a \in AgentIds \ ToSet(b.package.agents) : agentRecord[a].of = b.package.tenant}
<1>1. b \in Boot /\ Dropped(b) /\ Opened(b) /\ Placed(b) /\ b.package \in Packages
  BY BootsAre DEF PackInv, Commits, Dropped, Opened, Placed
<1>2. PICK p \in Packages : p = b.package
  BY <1>1
<1>3. PICK ags, t, d : ags = p.agents /\ t = p.tenant /\ d = b.dropping
  OBVIOUS
<1>4. /\ Len(ags) \in Nat /\ DOMAIN ags = 1 .. Len(ags) /\ t \in Tenants /\ ToSet(ags) \subseteq AgentIds
  BY <1>3, PackagesAre
<1>5. b.upserted = Len(ags)
  BY <1>1, <1>2, <1>3 DEF Placed, Dropped
<1>6. d = {a \in AgentIds \ ToSet(ags) : agentRecord[a].of = t}
  BY <1>1, <1>2, <1>3 DEF Placed
<1>7. \A i \in 1 .. Len(ags) : agentRecord[ags[i]].of \in {t, "none"}
  BY <1>1, <1>2, <1>3, <1>5 DEF Placed
<1>8. Holding(b) = ToSet(ags) \cup d
  BY <1>2, <1>3, <1>4, <1>5 DEF Holding, ToSet
<1>9. agentRecord' = [a \in AgentIds |->
        IF a \in ToSet(ags) THEN [of |-> t, as |-> p] ELSE IF a \in d THEN NoRecord ELSE agentRecord[a]]
  BY <1>2, <1>3 DEF Commits, Declared
<1>10. \A a \in ToSet(ags) : agentRecord[a].of \in {t, "none"}
  BY <1>4, <1>7 DEF ToSet
<1>11. NoRecord.of = "none" /\ t # "none"
  BY <1>4, TenantsAreNamed DEF NoRecord
<1>12. \A a \in AgentIds : agentRecord'[a].of = t <=> a \in ToSet(ags)
  BY <1>4, <1>6, <1>9, <1>11
<1>13. \A a \in ToSet(ags) : agentRecord'[a] = [of |-> t, as |-> p]
  BY <1>4, <1>9
<1>14. \A a \in AgentIds \ Holding(b) : agentRecord'[a] = agentRecord[a]
  BY <1>8, <1>9
<1>15. \A a \in Holding(b) : agentRecord[a].of \in {t, "none"} /\ agentRecord'[a].of \in {t, "none"}
  BY <1>4, <1>6, <1>8, <1>9, <1>10, <1>11
<1> QED
  BY <1>1, <1>2, <1>3, <1>6, <1>12, <1>13, <1>14, <1>15

LEMMA PackageCommitKeeps == ASSUME PackInv, NEW s \in Servers, Commits(s) PROVE PackInv'
<1>1. PICK b : b = booting[s]
  OBVIOUS
<1>2. PICK p, ags, t, d : p = b.package /\ ags = p.agents /\ t = p.tenant /\ d = b.dropping
  OBVIOUS
<1>3. /\ b \in Boot /\ Dropped(b) /\ Opened(b) /\ Placed(b) /\ p \in Packages
      /\ \A a \in AgentIds : agentRecord'[a].of = t <=> a \in ToSet(ags)
      /\ \A a \in ToSet(ags) : agentRecord'[a] = [of |-> t, as |-> p]
      /\ \A a \in AgentIds \ Holding(b) : agentRecord'[a] = agentRecord[a]
      /\ \A a \in Holding(b) : agentRecord[a].of \in {t, "none"} /\ agentRecord'[a].of \in {t, "none"}
      /\ d = {a \in AgentIds \ ToSet(ags) : agentRecord[a].of = t}
  BY <1>1, <1>2, PackageCommitWrites
<1>4. /\ t \in Tenants /\ ToSet(ags) \subseteq AgentIds /\ p.permitted \subseteq ToSet(ags)
      /\ "none" \notin Tenants /\ "people" \notin Tenants
  BY <1>2, <1>3, PackagesAre, TenantsAreNamed
<1>5. PICK new : new = [of |-> t, as |-> p]
  OBVIOUS
<1>6. /\ deployed' = [deployed EXCEPT ![t] = p]
      /\ room' = IF b.at # "agentsDropped" THEN room ELSE IF p.channel THEN new ELSE NoRecord
      /\ roomAgents' = (IF b.at = "agentsDropped" THEN p.permitted ELSE roomAgents) \ d
      /\ chatted' = chatted \ d /\ booting' = [booting EXCEPT ![s] = Down]
  BY <1>1, <1>2, <1>3, <1>5 DEF Commits, WroteRoom, Dropped
<1>7. PackageTypeOK
  BY DEF PackInv
<1>8. deployed'[t] = p /\ \A u \in Tenants \ {t} : deployed'[u] = deployed[u]
  BY <1>4, <1>6, <1>7 DEF PackageTypeOK
<1>9. booting'[s] = Down /\ (\A r \in Servers \ {s} : booting'[r] = booting[r]) /\ booting' \in [Servers -> Boot]
  BY <1>6, <1>7, BootsAre, DownIsPlaced
<1>10. \A a \in AgentIds, u \in Tenants \ {t} :
          (agentRecord'[a].of = u <=> agentRecord[a].of = u) /\ (agentRecord[a].of = u => UNCHANGED agentRecord[a])
  BY <1>3, <1>4
<1>11. new.of = t /\ new.as = p /\ NoRecord.of = "none" /\ new \in Records /\ NoRecord \in Records
  BY <1>3, <1>4, <1>5 DEF NoRecord, Records
<1>12. ASSUME NEW r \in Servers PROVE Placed(booting[r])'
  <2>1. CASE r = s
    <3>1. booting'[r].at = "down" /\ booting'[r].upserted = 0 /\ booting'[r].dropping = {}
          /\ booting'[r].package.agents = <<>>
      BY <1>9, <2>1 DEF Down, NoPackage
    <3> QED
      BY <3>1 DEF Placed, Opened, Dropped
  <2>2. CASE r # s
    <3>1. PICK c \in Boot : c = booting[r] /\ c = booting'[r]
      BY <1>7, <1>9, <2>2, BootsAre
    <3>2. Placed(c) /\ Disjoint(b, c)
      BY <1>1, <2>2, <3>1 DEF PackInv
    <3>3. CASE ~Opened(c)
      <4>1. c.upserted = 0
        BY <3>2, <3>3 DEF Placed
      <4> QED
        BY <3>1, <3>2, <3>3, <4>1 DEF Placed, Opened, Dropped
    <3>4. CASE Opened(c)
      <4>1. PICK u : u = c.package.tenant
        OBVIOUS
      <4>2. u \in Tenants \ {t} /\ Holding(b) \cap Holding(c) = {} /\ c.package \in Packages
        BY <1>2, <1>3, <3>2, <3>4, <4>1, PackagesAre DEF Disjoint, Placed, Opened
      <4>3. room.of # u => room'.of # u
        BY <1>4, <1>6, <1>11, <4>2
      <4>4. \A i \in 1 .. c.upserted : agentRecord'[c.package.agents[i]] = agentRecord[c.package.agents[i]]
        <5>1. PICK q \in Packages : q = c.package
          BY <4>2
        <5>2. PICK n \in Nat : n = c.upserted /\ n <= Len(q.agents)
          BY <3>2, <5>1 DEF Boot, Placed
        <5>3. \A i \in 1 .. n : q.agents[i] \in AgentIds
          BY <5>2, PackagesAre
        <5>4. \A i \in 1 .. n : q.agents[i] \in Holding(c)
          BY <5>1, <5>2 DEF Holding
        <5> QED
          BY <1>3, <4>2, <5>1, <5>2, <5>3, <5>4
      <4>5. {a \in AgentIds \ ToSet(c.package.agents) : agentRecord'[a].of = u}
              = {a \in AgentIds \ ToSet(c.package.agents) : agentRecord[a].of = u}
        BY <1>10, <4>2
      <4> QED
        BY <3>1, <3>2, <4>1, <4>3, <4>4, <4>5 DEF Placed, Opened, Dropped
    <3> QED
      BY <3>3, <3>4
  <2> QED
    BY <2>1, <2>2
<1>13. ASSUME NEW r \in Servers, NEW q \in Servers, r # q PROVE Disjoint(booting[r], booting[q])'
  <2>1. ~Opened(Down)
    BY DownIsPlaced
  <2>2. /\ booting'[r] = Down \/ booting'[r] = booting[r]
        /\ booting'[q] = Down \/ booting'[q] = booting[q]
    BY <1>9 DEF PackInv, PackageTypeOK
  <2>3. ~Opened(booting'[r]) \/ ~Opened(booting'[q]) \/ (booting'[r] = booting[r] /\ booting'[q] = booting[q])
    BY <2>1, <2>2
  <2>4. Disjoint(booting[r], booting[q])
    BY <1>13 DEF PackInv
  <2> QED
    BY <2>3, <2>4 DEF Disjoint
<1>14. PackageTypeOK'
  <2>1. \A r \in Servers : booting'[r].upserted <= Len(booting'[r].package.agents)
    BY <1>12 DEF Placed
  <2>2. deployed' \in [Tenants -> Packages \cup {NoPackage}] /\ room' \in Records
    BY <1>3, <1>4, <1>6, <1>7, <1>11 DEF PackageTypeOK
  <2>3. roomAgents' \cup chatted' \subseteq AgentIds
    BY <1>4, <1>6, <1>7 DEF PackageTypeOK
  <2>4. agentRecord' \in [AgentIds -> Records]
    <3>1. agentRecord' = [a \in AgentIds |->
             IF a \in ToSet(ags) THEN new ELSE IF a \in d THEN NoRecord ELSE agentRecord[a]]
      BY <1>1, <1>2, <1>5 DEF Commits, Declared
    <3> QED
      BY <1>7, <1>11, <3>1 DEF PackageTypeOK
  <2> QED
    BY <1>9, <2>1, <2>2, <2>3, <2>4 DEF PackageTypeOK, Boot
<1>15. DeployedWhole'
  <2> SUFFICES ASSUME NEW u \in Tenants
               PROVE  /\ {a \in AgentIds : agentRecord'[a].of = u} = ToSet(deployed'[u].agents)
                      /\ \A a \in AgentIds : agentRecord'[a].of = u => agentRecord'[a].as = deployed'[u]
                      /\ room'.of = u =>
                            /\ room'.as = deployed'[u] /\ deployed'[u].channel
                            /\ roomAgents' = deployed'[u].permitted
    BY DEF DeployedWhole
  <2>1. CASE u = t
    <3>1. {a \in AgentIds : agentRecord'[a].of = u} = ToSet(deployed'[u].agents)
      BY <1>2, <1>3, <1>4, <1>8, <2>1
    <3>2. \A a \in AgentIds : agentRecord'[a].of = u => agentRecord'[a].as = deployed'[u]
      BY <1>3, <1>8, <2>1
    <3>3. CASE b.at = "agentsDropped"
      <4>1. p.permitted \cap d = {}
        BY <1>3, <1>4
      <4> QED
        BY <1>4, <1>6, <1>8, <1>11, <2>1, <3>1, <3>2, <3>3, <4>1
    <3>4. CASE b.at # "agentsDropped"
      <4>1. room'.of # t
        BY <1>2, <1>3, <1>6, <3>4 DEF Placed, Dropped
      <4> QED
        BY <2>1, <3>1, <3>2, <4>1
    <3> QED
      BY <3>3, <3>4
  <2>2. CASE u # t
    <3>1. /\ {a \in AgentIds : agentRecord[a].of = u} = ToSet(deployed[u].agents)
          /\ \A a \in AgentIds : agentRecord[a].of = u => agentRecord[a].as = deployed[u]
          /\ room.of = u =>
                room.as = deployed[u] /\ deployed[u].channel /\ roomAgents = deployed[u].permitted
      BY DEF PackInv, DeployedWhole
    <3>2. /\ {a \in AgentIds : agentRecord'[a].of = u} = ToSet(deployed'[u].agents)
          /\ \A a \in AgentIds : agentRecord'[a].of = u => agentRecord'[a].as = deployed'[u]
      BY <1>8, <1>10, <2>2, <3>1
    <3>3. room'.of = u => b.at # "agentsDropped" /\ room' = room
      BY <1>4, <1>6, <1>11, <2>2
    <3>4. deployed[u].permitted \cap d = {}
      <4>1. deployed[u] \in Packages \cup {NoPackage}
        BY <1>7 DEF PackageTypeOK
      <4>2. NoPackage.permitted = {}
        BY DEF NoPackage
      <4>3. deployed[u].permitted \subseteq {a \in AgentIds : agentRecord[a].of = u}
        BY <3>1, <4>1, <4>2, PackagesAre
      <4> QED
        BY <1>3, <2>2, <4>3
    <3> QED
      BY <1>6, <1>8, <2>2, <3>1, <3>2, <3>3, <3>4
  <2> QED
    BY <2>1, <2>2
<1> QED
  BY <1>12, <1>13, <1>14, <1>15 DEF PackInv

LEMMA ChatsKeep ==
  ASSUME PackInv, UNCHANGED <<deployed, agentRecord, room, roomAgents, booting>>, chatted' \subseteq AgentIds
  PROVE  PackInv'
<1>1. PackageTypeOK'
  BY DEF PackInv, PackageTypeOK
<1>2. DeployedWhole'
  BY DEF PackInv, DeployedWhole
<1>3. \A r \in Servers : Placed(booting[r])'
  BY DEF PackInv, Placed, Opened, Dropped
<1>4. \A r, q \in Servers : r # q => Disjoint(booting[r], booting[q])'
  BY DEF PackInv, Disjoint, Opened, Holding
<1> QED
  BY <1>1, <1>2, <1>3, <1>4 DEF PackInv

LEMMA ChattingKeeps == ASSUME PackInv, NEW on \in SUBSET AgentIds, PeopleChat(on) PROVE PackInv'
  BY ChatsKeep DEF PackInv, PackageTypeOK, PeopleChat

LEMMA PackageStepsKeep == PackInv /\ [PackageNext]_packageVars => PackInv'
<1> SUFFICES ASSUME PackInv, [PackageNext]_packageVars PROVE PackInv'
  OBVIOUS
<1>1. CASE UNCHANGED packageVars
  BY <1>1, ChatsKeep DEF packageVars, PackInv, PackageTypeOK
<1>2. CASE PackageNext
  BY <1>2, BootingKeeps, RollingBackKeeps, LoadingKeeps, UpsertingKeeps, RoomKeeps, DroppingKeeps, PackageCommitKeeps,
     ChattingKeeps DEF PackageNext, BootStep, RollsBack
<1> QED
  BY <1>1, <1>2

(* Only a commit writes agents, and none of people's.                      *)
LEMMA PeoplesAgentsStay ==
  ASSUME PackInv, [PackageNext]_packageVars, NEW a \in AgentIds, agentRecord[a].of = "people"
  PROVE  UNCHANGED agentRecord[a]
<1>1. CASE UNCHANGED agentRecord
  BY <1>1
<1>2. ASSUME NEW s \in Servers, Commits(s) PROVE UNCHANGED agentRecord[a]
  <2>1. PICK b : b = booting[s]
    OBVIOUS
  <2>2. /\ b.package \in Packages
        /\ \A x \in AgentIds \ Holding(b) : agentRecord'[x] = agentRecord[x]
        /\ \A x \in Holding(b) : agentRecord[x].of \in {b.package.tenant, "none"}
    BY <1>2, <2>1, PackageCommitWrites
  <2>3. b.package.tenant # "people"
    BY <2>2, PackagesAre, TenantsAreNamed
  <2> QED
    BY <2>2, <2>3
<1> QED
  BY <1>1, <1>2 DEF PackageNext, BootStep, Boots, RollsBack, LoadPackage, UpsertAgent, UpsertOrDropRoom, DropAgents,
     PeopleChat, Proceeds, Committed, packageVars

(* However many servers boot at once, with whichever versions of whichever *)
(* tenants, what is committed is one version of each, whole, and what      *)
(* people made is left alone (synchronizeTenantPackage).                   *)
THEOREM PackagesStayWhole == PackageSpec => PackagesAreWhole
<1>1. PackInv /\ [PackageNext]_packageVars =>
         [/\ DeployedWhole'
          /\ \A a \in AgentIds : agentRecord[a].of = "people" => UNCHANGED agentRecord[a]]_packageVars
  BY PackageStepsKeep, PeoplesAgentsStay DEF PackInv
<1> QED
  BY <1>1, PackagesStart, PackageStepsKeep, PTL DEF PackageSpec, PackagesAreWhole

-----------------------------------------------------------------------------
(* The credentials: what a request is about to revoke is older than what   *)
(* it has stored, or was given up.                                         *)

Drive == "configureGoogleDrive"
KeyNames == KeyIds \cup {DriveKey}
SecretRow == [keyId : KeyNames, revoked : BOOLEAN]
ClerkRecord == [op : Operations \cup {"none"}, step : 0 .. 4, keyId : KeyNames,
                previous : 0 .. MaxSecrets, stored : 0 .. MaxSecrets, row : Nat]

\* A request knows what it revokes, has stored what it says, and revokes only
\* what is older than that or given up.
InOrder(c) ==
    /\ clerk[c].op # "none" => clerk[c].step \in 1 .. Len(Statements(clerk[c].op))
    /\ clerk[c].op \in {"rotate", "revoke"} => clerk[c].previous \in DOMAIN secrets
    /\ clerk[c].op = "revoke" => secrets[clerk[c].previous].keyId \in givenUp
    /\ clerk[c].op = "rotate" => secrets[clerk[c].previous].keyId \in {clerk[c].keyId} \cup givenUp
    /\ clerk[c].op = "rotate" /\ clerk[c].step # 1 =>
         clerk[c].stored \in Named(clerk[c].keyId) /\ clerk[c].stored > clerk[c].previous
    /\ clerk[c].op = Drive => clerk[c].keyId = DriveKey
    /\ clerk[c].op = Drive /\ clerk[c].step # 1 => clerk[c].stored \in Named(DriveKey)
    /\ clerk[c].op = Drive /\ clerk[c].step = 4 =>
         /\ clerk[c].row \in 0 .. Len(driveRows)
         /\ ~met => (clerk[c].row = 0 <=> driveRows = <<>>)

\* Setups of Google Drive that have not met are one at a time.
OneSetup == ~met => \A c, d \in Clerks : clerk[c].op = Drive /\ clerk[d].op = Drive => c = d

StaysReadable ==
    \A k \in KeyNames \ givenUp : \A i \in Named(k) : \E j \in Usable(k) : j >= i

OneDriveRow == (~met => Len(driveRows) <= 1) /\ ToSet(driveRows) \subseteq Named(DriveKey)

VaultInv ==
    /\ VaultTypeOK /\ (\A c \in Clerks : InOrder(c)) /\ OneSetup /\ StaysReadable /\ OneDriveRow

-----------------------------------------------------------------------------
(* What the type invariant says of the rows and of the requests.           *)
LEMMA VaultShapes ==
  ASSUME VaultTypeOK
  PROVE  /\ secrets \in Seq(SecretRow) /\ DOMAIN secrets = 1 .. Len(secrets)
         /\ Len(secrets) \in Nat /\ Len(secrets) <= MaxSecrets
         /\ \A i \in DOMAIN secrets : secrets[i] \in SecretRow /\ secrets[i].keyId \in KeyNames
         /\ clerk \in [Clerks -> ClerkRecord]
<1>1. secrets \in Seq(SecretRow) /\ clerk \in [Clerks -> ClerkRecord]
  BY DEF VaultTypeOK, SecretRow, ClerkRecord, KeyNames
<1>3. Len(secrets) <= MaxSecrets
  BY DEF VaultTypeOK
<1>2. \A i \in 1 .. Len(secrets) : secrets[i] \in SecretRow
  BY <1>1
<1> QED
  BY <1>1, <1>2, <1>3 DEF SecretRow

(* A request with one of its fields changed is a request.                  *)
LEMMA RequestsChange ==
  ASSUME NEW r \in ClerkRecord
  PROVE  /\ \A n \in 0 .. 4 : [r EXCEPT !.step = n] \in ClerkRecord
         /\ \A n \in 0 .. MaxSecrets : [r EXCEPT !.stored = n] \in ClerkRecord
         /\ \A n \in 0 .. MaxSecrets : [r EXCEPT !.previous = n] \in ClerkRecord
         /\ \A n \in Nat : [r EXCEPT !.row = n] \in ClerkRecord
         /\ \A k \in KeyNames : [r EXCEPT !.keyId = k] \in ClerkRecord
         /\ \A op \in Operations : [r EXCEPT !.op = op] \in ClerkRecord
  BY DEF ClerkRecord

LEMMA AwayIsARequest == Away \in ClerkRecord
  BY VaultAssumption DEF Away, ClerkRecord, KeyNames

(* Where a request is when a statement is its next.                        *)
LEMMA WhereStatementsAre ==
  ASSUME VaultTypeOK, NEW c \in Clerks, InOrder(c)
  PROVE  /\ AtStatement(c, "store") => clerk[c].op \in {"create", "rotate", Drive} /\ clerk[c].step = 1
         /\ AtStatement(c, "revoke") =>
              \/ clerk[c].op = "rotate" /\ clerk[c].step = 2
              \/ clerk[c].op = "revoke" /\ clerk[c].step = 1
         /\ AtStatement(c, "record") =>
              /\ clerk[c].op # "none" /\ (clerk[c].op = "rotate" => clerk[c].step = 3)
              /\ clerk[c].op = Drive => clerk[c].step = 2
         /\ AtStatement(c, "find") => clerk[c].op = Drive /\ clerk[c].step = 3
         /\ AtStatement(c, "write") => clerk[c].op = Drive /\ clerk[c].step = 4
<1>1. clerk[c].op \in Operations \cup {"none"}
  BY DEF VaultTypeOK
<1>2. CASE clerk[c].op = "none"
  BY <1>2 DEF AtStatement, Busy
<1>3. CASE clerk[c].op = "create"
  BY <1>3 DEF AtStatement, Statements, InOrder, Drive
<1>4. CASE clerk[c].op = "rotate"
  BY <1>4 DEF AtStatement, Statements, InOrder, Drive
<1>5. CASE clerk[c].op = "revoke"
  BY <1>5 DEF AtStatement, Statements, InOrder, Drive
<1>6. CASE clerk[c].op = Drive
  BY <1>6 DEF AtStatement, Statements, InOrder, Drive
<1> QED
  BY <1>1, <1>2, <1>3, <1>4, <1>5, <1>6 DEF Operations, Drive

(* No request is past its last statement, and the next of each.            *)
LEMMA WhereRequestsEnd ==
  ASSUME NEW op \in Operations
  PROVE  /\ Len(Statements(op)) \in Nat /\ Len(Statements(op)) >= 2 /\ Len(Statements(op)) <= 4
         /\ op = "rotate" => Len(Statements(op)) = 3
         /\ op = Drive => Len(Statements(op)) = 4
<1>1. CASE op = "create"
  BY <1>1 DEF Statements, Drive
<1>2. CASE op = "rotate"
  BY <1>2 DEF Statements, Drive
<1>3. CASE op = "revoke"
  BY <1>3 DEF Statements, Drive
<1>4. CASE op = Drive
  BY <1>4 DEF Statements, Drive
<1> QED
  BY <1>1, <1>2, <1>3, <1>4 DEF Operations, Drive

(* A step of one request leaves the others as they are, when no name of a  *)
(* stored secret changes, and no name that was given up is taken back.     *)
LEMMA OthersStayInOrder ==
  ASSUME VaultInv, NEW c \in Clerks, NEW d \in Clerks \ {c},
         clerk'[d] = clerk[d],
         DOMAIN secrets \subseteq DOMAIN secrets',
         \A i \in DOMAIN secrets : secrets'[i].keyId = secrets[i].keyId,
         givenUp \subseteq givenUp', met => met',
         \/ UNCHANGED driveRows
         \/ clerk[c].op = Drive /\ Len(driveRows') \in Nat /\ Len(driveRows) <= Len(driveRows')
  PROVE  InOrder(d)'
<1>1. InOrder(d) /\ clerk[d] \in ClerkRecord
  BY DEF VaultInv, VaultTypeOK, ClerkRecord, KeyNames
<1>2. \A k : Named(k) \subseteq Named(k)'
  BY DEF Named
<1>3. clerk[d].op = Drive /\ clerk[d].step = 4 =>
         /\ clerk[d].row \in 0 .. Len(driveRows')
         /\ ~met' => (clerk[d].row = 0 <=> driveRows' = <<>>)
  <2>1. CASE UNCHANGED driveRows
    BY <1>1, <2>1 DEF InOrder
  <2>2. CASE clerk[c].op = Drive /\ Len(driveRows') \in Nat /\ Len(driveRows) <= Len(driveRows')
    <3>1. clerk[d].op = Drive => met
      BY <2>2 DEF VaultInv, OneSetup
    <3>2. Len(driveRows) \in Nat
      BY DEF VaultInv, VaultTypeOK
    <3> QED
      BY <1>1, <2>2, <3>1, <3>2 DEF InOrder
  <2> QED
    BY <2>1, <2>2
<1> QED
  BY <1>1, <1>2, <1>3 DEF InOrder

(* What remains of the invariant, when a step leaves the secrets, the       *)
(* rows and the histories as they are and no request becomes a setup.      *)
LEMMA NothingKept ==
  ASSUME VaultInv, UNCHANGED <<secrets, driveRows, givenUp, met>>,
         NEW c \in Clerks, NEW r \in ClerkRecord,
         clerk' = [clerk EXCEPT ![c] = r], r.op = Drive => clerk[c].op = Drive, InOrder(c)'
  PROVE  VaultInv'
<1>1. VaultTypeOK'
  BY DEF VaultInv, VaultTypeOK, ClerkRecord, KeyNames
<1>2. ASSUME NEW d \in Clerks PROVE InOrder(d)'
  <2>1. CASE d # c
    <3>1. clerk'[d] = clerk[d]
      BY <2>1 DEF VaultInv, VaultTypeOK
    <3> QED
      BY <2>1, <3>1, OthersStayInOrder
  <2> QED
    BY <2>1
<1>3. OneSetup'
  BY DEF VaultInv, OneSetup, VaultTypeOK
<1>4. StaysReadable' /\ OneDriveRow'
  BY DEF VaultInv, StaysReadable, OneDriveRow, Named, Usable
<1> QED
  BY <1>1, <1>2, <1>3, <1>4 DEF VaultInv

LEMMA StartsKept == VaultInit => VaultInv
<1> SUFFICES ASSUME VaultInit PROVE VaultInv
  OBVIOUS
<1>1. VaultTypeOK
  <2>1. clerk \in [Clerks -> ClerkRecord]
    BY AwayIsARequest DEF VaultInit
  <2>2. secrets \in Seq(SecretRow) /\ driveRows \in Seq(SecretIds) /\ Len(secrets) = 0
    BY DEF VaultInit
  <2>3. givenUp = {} /\ met = FALSE /\ 0 <= MaxSecrets
    BY VaultAssumption DEF VaultInit
  <2> QED
    BY <2>1, <2>2, <2>3 DEF VaultTypeOK, ClerkRecord, KeyNames, SecretRow
<1>2. (\A c \in Clerks : InOrder(c)) /\ OneSetup
  BY DEF VaultInit, InOrder, OneSetup, Away, Drive
<1>3. StaysReadable /\ OneDriveRow
  BY DEF VaultInit, StaysReadable, OneDriveRow, Named, Usable, ToSet
<1> QED
  BY <1>1, <1>2, <1>3 DEF VaultInv

LEMMA ArrivalKeeps == ASSUME VaultInv, NEW c \in Clerks, ClerkArrives(c) PROVE VaultInv'
<1> USE DEF KeyNames
<1>1. PICK op \in Operations, k \in KeyNames, old \in 0 .. Len(secrets) :
         /\ op \in {"rotate", "revoke"} <=> old # 0
         /\ clerk' = [clerk EXCEPT ![c] = [Away EXCEPT
                !.op = op, !.step = 1, !.previous = old,
                !.keyId = IF op = "configureGoogleDrive" THEN DriveKey ELSE k]]
         /\ givenUp' = IF op = "revoke" \/ (op = "rotate" /\ secrets[old].keyId # k)
                       THEN givenUp \cup {secrets[old].keyId} ELSE givenUp
         /\ met' = (met \/
                (op = "configureGoogleDrive" /\ \E d \in Clerks : clerk[d].op = op))
  BY DEF ClerkArrives
<1>2. UNCHANGED <<secrets, driveRows>> /\ clerk[c].op = "none"
  BY DEF ClerkArrives, Busy
<1>15. PICK key : key = IF op = "configureGoogleDrive" THEN DriveKey ELSE k
  OBVIOUS
<1> DEFINE new == [Away EXCEPT !.op = op, !.step = 1, !.previous = old, !.keyId = key]
<1>3. VaultTypeOK /\ key \in KeyNames
  BY <1>15 DEF VaultInv
<1>4. new.op = op /\ new.step = 1 /\ new.keyId = key /\ new.previous = old
  BY DEF Away
<1>5. clerk' = [clerk EXCEPT ![c] = new]
  BY <1>1, <1>15
<1>6. clerk'[c] = new /\ \A d \in Clerks \ {c} : clerk'[d] = clerk[d]
  BY <1>3, <1>5, VaultShapes
<1>7. old # 0 => old \in DOMAIN secrets /\ secrets[old] \in SecretRow
  BY <1>3, VaultShapes
<1>14. new \in ClerkRecord
  <2>1. old \in 0 .. MaxSecrets
    BY <1>3, VaultShapes, VaultAssumption
  <2>2. \A r \in ClerkRecord : [r EXCEPT !.op = op] \in ClerkRecord
    BY DEF ClerkRecord
  <2>3. \A r \in ClerkRecord : [r EXCEPT !.step = 1] \in ClerkRecord
    BY DEF ClerkRecord
  <2>4. \A r \in ClerkRecord : [r EXCEPT !.previous = old] \in ClerkRecord
    BY <2>1 DEF ClerkRecord
  <2>5. \A r \in ClerkRecord : [r EXCEPT !.keyId = key] \in ClerkRecord
    BY <1>3 DEF ClerkRecord
  <2> QED
    BY <2>2, <2>3, <2>4, <2>5, AwayIsARequest
<1> HIDE DEF new
<1>8. VaultTypeOK'
  <2>1. givenUp' \subseteq KeyNames
    BY <1>1, <1>3, <1>7 DEF VaultTypeOK, SecretRow
  <2>2. met' \in BOOLEAN
    BY <1>1, <1>3 DEF VaultTypeOK
  <2> QED
    BY <1>2, <1>3, <1>5, <1>14, <2>1, <2>2 DEF VaultTypeOK, ClerkRecord
<1>9. givenUp \subseteq givenUp' /\ (met => met')
  BY <1>1
<1>10. InOrder(c)'
  <2>1. Len(Statements(op)) >= 1
    BY WhereRequestsEnd DEF Operations, Drive
  <2>2. op \in {"rotate", "revoke"} => old \in DOMAIN secrets
    BY <1>1, <1>7
  <2>3. op = "revoke" => secrets[old].keyId \in givenUp'
    BY <1>1
  <2>4. op = "rotate" => secrets[old].keyId \in {k} \cup givenUp'
    BY <1>1
  <2>5. Len(Statements(op)) \in Nat
    BY WhereRequestsEnd DEF Operations, Drive
  <2> QED
    BY <1>2, <1>4, <1>6, <1>15, <2>1, <2>2, <2>3, <2>4, <2>5 DEF InOrder, Drive
<1>11. ASSUME NEW d \in Clerks PROVE InOrder(d)'
  BY <1>2, <1>6, <1>9, <1>10, OthersStayInOrder
<1>12. OneSetup'
  <2> SUFFICES ASSUME ~met', NEW d \in Clerks, NEW e \in Clerks,
                      clerk'[d].op = Drive, clerk'[e].op = Drive
               PROVE  d = e
    BY DEF OneSetup
  <2>1. CASE op = Drive
    <3>1. \A x \in Clerks : clerk[x].op # Drive
      BY <1>1, <2>1 DEF Drive
    <3> QED
      BY <1>4, <1>6, <3>1
  <2>2. CASE op # Drive
    BY <1>1, <1>4, <1>6, <2>2 DEF VaultInv, OneSetup
  <2> QED
    BY <2>1, <2>2
<1>13. StaysReadable' /\ OneDriveRow'
  BY <1>1, <1>2, <1>9 DEF VaultInv, StaysReadable, OneDriveRow, Named, Usable
<1> QED
  BY <1>8, <1>11, <1>12, <1>13 DEF VaultInv

LEMMA StoringKeeps == ASSUME VaultInv, NEW c \in Clerks, persistCredential(c) PROVE VaultInv'
<1> USE DEF KeyNames
<1> DEFINE n == Len(secrets) + 1
           kept == [keyId |-> clerk[c].keyId, revoked |-> FALSE]
<1>1. VaultTypeOK /\ InOrder(c) /\ clerk[c] \in ClerkRecord
  BY VaultShapes DEF VaultInv
<1>2. clerk[c].op \in {"create", "rotate", Drive} /\ clerk[c].step = 1
  BY <1>1, WhereStatementsAre DEF persistCredential
<1>3. /\ secrets' = Append(secrets, kept) /\ Len(secrets) < MaxSecrets
      /\ UNCHANGED <<driveRows, givenUp, met>>
  BY DEF persistCredential
<1>4. secrets \in Seq(SecretRow) /\ kept \in SecretRow
  BY <1>1, VaultShapes DEF SecretRow, ClerkRecord
<1>5. /\ Len(secrets') = n /\ DOMAIN secrets' = 1 .. n /\ secrets'[n] = kept
      /\ DOMAIN secrets = 1 .. Len(secrets) /\ Len(secrets) \in Nat
      /\ \A i \in DOMAIN secrets : secrets'[i] = secrets[i]
  BY <1>3, <1>4
<1>18. PICK stored : stored = [clerk[c] EXCEPT !.stored = n]
  OBVIOUS
<1>19. PICK next : next = [stored EXCEPT !.step = 2]
  OBVIOUS
<1>16. /\ stored \in ClerkRecord
       /\ stored.op = clerk[c].op /\ stored.step = 1 /\ stored.stored = n
       /\ stored.previous = clerk[c].previous /\ stored.keyId = clerk[c].keyId
  <2>1. n \in 0 .. MaxSecrets
    BY <1>3, <1>5, VaultAssumption
  <2> QED
    BY <1>1, <1>2, <1>18, <2>1, RequestsChange DEF ClerkRecord
<1>6. clerk' = [clerk EXCEPT ![c] = next]
  <2>1. GoesThrough(c, stored)
    BY <1>5, <1>18 DEF persistCredential
  <2>2. stored.step # Len(Statements(stored.op))
    <3>4. stored.op \in Operations
      BY <1>2, <1>16 DEF Operations, Drive
    <3>1. PICK op \in Operations : op = stored.op
      BY <3>4
    <3>5. PICK len : len = Len(Statements(op))
      OBVIOUS
    <3>6. len \in Nat /\ len >= 2
      BY <3>5, WhereRequestsEnd
    <3>7. 1 # len /\ stored.step = 1
      BY <1>16, <3>6
    <3>2. stored.step # Len(Statements(op))
      BY <3>5, <3>7
    <3> QED
      BY <3>1, <3>2
  <2> QED
    BY <1>16, <1>19, <2>1, <2>2 DEF GoesThrough
<1>7. clerk'[c] = next /\ \A d \in Clerks \ {c} : clerk'[d] = clerk[d]
  BY <1>1, <1>6, VaultShapes
<1>8. /\ next \in ClerkRecord
      /\ next.op = clerk[c].op /\ next.step = 2 /\ next.stored = n
      /\ next.previous = clerk[c].previous /\ next.keyId = clerk[c].keyId
  BY <1>16, <1>19, RequestsChange DEF ClerkRecord
<1>9. VaultTypeOK'
  <2>1. secrets' \in Seq(SecretRow) /\ Len(secrets') <= MaxSecrets
    BY <1>3, <1>4, <1>5, VaultAssumption
  <2>2. clerk' \in [Clerks -> ClerkRecord]
    BY <1>1, <1>6, <1>8, VaultShapes
  <2> QED
    BY <1>1, <1>3, <2>1, <2>2 DEF VaultTypeOK, ClerkRecord, SecretRow
<1>17. PICK name : name = clerk[c].keyId
  OBVIOUS
<1>10. /\ \A k : Named(k) \subseteq Named(k)' /\ Usable(k) \subseteq Usable(k)'
       /\ \A k : \A i \in Named(k)' : i \in Named(k) \/ (i = n /\ k = name)
       /\ n \in Usable(name)' /\ n \in Named(name)'
  <2>1. \A k : Named(k) \subseteq Named(k)' /\ Usable(k) \subseteq Usable(k)'
    BY <1>5, <1>17 DEF Named, Usable
  <2>2. \A k : \A i \in Named(k)' : i \in Named(k) \/ (i = n /\ k = name)
    BY <1>5, <1>17 DEF Named
  <2>3. n \in DOMAIN secrets' /\ secrets'[n].keyId = name /\ ~secrets'[n].revoked
    BY <1>5, <1>17
  <2>4. n \in Usable(name)' /\ n \in Named(name)'
    BY <2>3 DEF Named, Usable
  <2> QED
    BY <2>1, <2>2, <2>4
<1>11. InOrder(c)'
  <2>1. clerk[c].op = "rotate" =>
           /\ clerk[c].previous \in DOMAIN secrets' /\ n > clerk[c].previous
           /\ secrets'[clerk[c].previous].keyId \in {clerk[c].keyId} \cup givenUp'
    BY <1>1, <1>3, <1>5 DEF InOrder
  <2>2. clerk[c].op = Drive => clerk[c].keyId = DriveKey
    BY <1>1 DEF InOrder
  <2>3. Len(Statements(clerk[c].op)) \in Nat /\ Len(Statements(clerk[c].op)) >= 2
    <3>1. clerk[c].op \in Operations
      BY <1>2 DEF Operations, Drive
    <3> QED
      BY <3>1, WhereRequestsEnd
  <2> QED
    BY <1>2, <1>7, <1>8, <1>10, <1>17, <2>1, <2>2, <2>3 DEF InOrder, Drive
<1>12. ASSUME NEW d \in Clerks PROVE InOrder(d)'
  <2>1. DOMAIN secrets \subseteq DOMAIN secrets'
    BY <1>5
  <2> QED
    BY <1>3, <1>5, <1>7, <1>11, <2>1, OthersStayInOrder
<1>13. OneSetup'
  <2>1. \A d \in Clerks : clerk'[d].op = clerk[d].op
    BY <1>7, <1>8
  <2> QED
    BY <1>3, <2>1 DEF VaultInv, OneSetup
<1>14. StaysReadable'
  <2> SUFFICES ASSUME NEW k \in KeyNames \ givenUp, NEW i \in Named(k)'
               PROVE  \E j \in Usable(k)' : j >= i
    BY <1>3 DEF StaysReadable
  <2>1. CASE i \in Named(k)
    BY <1>10, <2>1 DEF VaultInv, StaysReadable
  <2>2. CASE i = n /\ k = name
    <3>1. n \in Usable(k)' /\ n >= i
      BY <1>5, <1>10, <2>2
    <3> QED
      BY <3>1
  <2> QED
    BY <1>10, <2>1, <2>2
<1>15. OneDriveRow'
  BY <1>3, <1>10 DEF VaultInv, OneDriveRow
<1> QED
  BY <1>9, <1>12, <1>13, <1>14, <1>15 DEF VaultInv

(* A statement that goes through ends the request or takes it to the next. *)
LEMMA GoesOn ==
  ASSUME VaultTypeOK, NEW c \in Clerks, NEW request \in ClerkRecord, request.op # "none",
         request.step \in 1 .. Len(Statements(request.op)), GoesThrough(c, request)
  PROVE  \E r \in ClerkRecord :
            /\ clerk' = [clerk EXCEPT ![c] = r]
            /\ \/ r = Away /\ r.op = "none"
               \/ /\ r.op = request.op /\ r.step = request.step + 1
                  /\ request.step # Len(Statements(request.op)) /\ r.step \in 1 .. Len(Statements(r.op))
                  /\ r.keyId = request.keyId /\ r.previous = request.previous
                  /\ r.stored = request.stored /\ r.row = request.row
<1>1. CASE request.step = Len(Statements(request.op))
  <2>1. clerk' = [clerk EXCEPT ![c] = Away] /\ Away.op = "none"
    BY <1>1 DEF GoesThrough, Away
  <2> QED
    BY <2>1, AwayIsARequest
<1>2. CASE request.step # Len(Statements(request.op))
  <2>1. PICK n \in Nat : n = request.step + 1 /\ n \in 1 .. Len(Statements(request.op)) /\ n \in 0 .. 4
    <3>1. request.op \in Operations /\ request.step \in Nat
      BY DEF ClerkRecord
    <3>2. Len(Statements(request.op)) \in Nat /\ Len(Statements(request.op)) <= 4
      BY <3>1, WhereRequestsEnd
    <3>3. /\ request.step + 1 \in Nat /\ request.step + 1 \in 1 .. Len(Statements(request.op))
          /\ request.step + 1 \in 0 .. 4
      BY <1>2, <3>1, <3>2
    <3> QED
      BY <3>3
  <2>2. \A r \in ClerkRecord : [r EXCEPT !.step = n] \in ClerkRecord
    BY <2>1 DEF ClerkRecord
  <2>3. clerk' = [clerk EXCEPT ![c] = [request EXCEPT !.step = n]]
    BY <1>2, <2>1 DEF GoesThrough
  <2>4. LET r == [request EXCEPT !.step = n]
        IN  /\ r.op = request.op /\ r.step = n /\ r.keyId = request.keyId
            /\ r.previous = request.previous /\ r.stored = request.stored /\ r.row = request.row
    BY DEF ClerkRecord
  <2> QED
    BY <1>2, <2>1, <2>2, <2>3, <2>4
<1> QED
  BY <1>1, <1>2

LEMMA RecordingKeeps == ASSUME VaultInv, NEW c \in Clerks, RecordsCredential(c) PROVE VaultInv'
<1>1. VaultTypeOK /\ InOrder(c) /\ clerk[c] \in ClerkRecord
  BY VaultShapes DEF VaultInv
<1>2. /\ clerk[c].op # "none" /\ (clerk[c].op = "rotate" => clerk[c].step = 3)
      /\ clerk[c].op = Drive => clerk[c].step = 2
  BY <1>1, WhereStatementsAre DEF RecordsCredential
<1>3. UNCHANGED <<secrets, driveRows, givenUp, met>> /\ GoesThrough(c, clerk[c])
  BY DEF RecordsCredential
<1>4. PICK r \in ClerkRecord :
         /\ clerk' = [clerk EXCEPT ![c] = r]
         /\ \/ r = Away /\ r.op = "none"
            \/ /\ r.op = clerk[c].op /\ r.step = clerk[c].step + 1
               /\ clerk[c].step # Len(Statements(clerk[c].op)) /\ r.step \in 1 .. Len(Statements(r.op))
               /\ r.keyId = clerk[c].keyId /\ r.previous = clerk[c].previous
               /\ r.stored = clerk[c].stored /\ r.row = clerk[c].row
  BY <1>1, <1>2, <1>3, GoesOn DEF InOrder
<1>5. clerk'[c] = r
  BY <1>1, <1>4, VaultShapes
<1>6. InOrder(c)'
  <2>1. CASE r.op = "none"
    BY <1>5, <2>1 DEF InOrder, Drive
  <2>2. CASE r.op # "none"
    <3>1. \A k : Named(k)' = Named(k)
      BY <1>3 DEF Named
    <3> QED
      BY <1>1, <1>2, <1>3, <1>4, <1>5, <2>2, <3>1 DEF InOrder, Drive
  <2> QED
    BY <2>1, <2>2
<1>7. r.op = Drive => clerk[c].op = Drive
  BY <1>4 DEF Drive
<1> QED
  BY <1>3, <1>4, <1>6, <1>7, NothingKept

LEMMA FindingKeeps == ASSUME VaultInv, NEW c \in Clerks, FindsDriveRow(c) PROVE VaultInv'
<1>1. VaultTypeOK /\ InOrder(c) /\ clerk[c] \in ClerkRecord
  BY VaultShapes DEF VaultInv
<1>2. clerk[c].op = Drive /\ clerk[c].step = 3
  BY <1>1, WhereStatementsAre DEF FindsDriveRow
<1>3. UNCHANGED <<secrets, driveRows, givenUp, met>>
  BY DEF FindsDriveRow
<1>4. PICK i \in 0 .. Len(driveRows) :
         (i = 0 <=> driveRows = <<>>) /\ GoesThrough(c, [clerk[c] EXCEPT !.row = i])
  BY DEF FindsDriveRow
<1>5. Len(driveRows) \in Nat
  BY <1>1 DEF VaultTypeOK
<1>11. PICK found : found = [clerk[c] EXCEPT !.row = i]
  OBVIOUS
<1>6. /\ found \in ClerkRecord /\ found.op = Drive /\ found.step = 3 /\ found.row = i
      /\ found.keyId = clerk[c].keyId /\ found.stored = clerk[c].stored
  <2>1. \A r \in ClerkRecord : [r EXCEPT !.row = i] \in ClerkRecord
    BY <1>5 DEF ClerkRecord
  <2> QED
    BY <1>1, <1>2, <1>11, <2>1 DEF ClerkRecord
<1>7. GoesThrough(c, found)
  BY <1>4, <1>11
<1>8. PICK r \in ClerkRecord :
         /\ clerk' = [clerk EXCEPT ![c] = r]
         /\ \/ r = Away /\ r.op = "none"
            \/ /\ r.op = found.op /\ r.step = found.step + 1
               /\ found.step # Len(Statements(found.op)) /\ r.step \in 1 .. Len(Statements(r.op))
               /\ r.keyId = found.keyId /\ r.previous = found.previous
               /\ r.stored = found.stored /\ r.row = found.row
  <2>4. found.op \in Operations
    BY <1>6 DEF Operations, Drive
  <2>1. PICK op \in Operations : op = found.op
    BY <2>4
  <2>5. op # "none" /\ Len(Statements(op)) = 4
    BY <1>6, <2>1, WhereRequestsEnd DEF Operations
  <2>2. op # "none" /\ found.step \in 1 .. Len(Statements(op))
    BY <1>6, <2>5
  <2>3. found.op # "none" /\ found.step \in 1 .. Len(Statements(found.op))
    BY <2>1, <2>2
  <2> QED
    BY <1>1, <1>6, <1>7, <2>3, GoesOn
<1>9. clerk'[c] = r
  BY <1>1, <1>8, VaultShapes
<1>10. InOrder(c)'
  <2>1. CASE r.op = "none"
    BY <1>9, <2>1 DEF InOrder, Drive
  <2>2. CASE r.op # "none"
    <3>1. /\ r.op = Drive /\ r.step = 4 /\ r.row = i /\ r.keyId = DriveKey
          /\ r.stored \in Named(DriveKey) /\ r.step \in 1 .. Len(Statements(r.op))
      BY <1>1, <1>2, <1>6, <1>8, <2>2 DEF InOrder
    <3>2. \A k : Named(k)' = Named(k)
      BY <1>3 DEF Named
    <3> QED
      BY <1>3, <1>4, <1>9, <3>1, <3>2 DEF InOrder, Drive
  <2> QED
    BY <2>1, <2>2
<1> QED
  BY <1>2, <1>3, <1>8, <1>10, NothingKept

LEMMA BreakingOffKeeps == ASSUME VaultInv, NEW c \in Clerks, BreaksOff(c) PROVE VaultInv'
<1>1. VaultTypeOK /\ clerk' = [clerk EXCEPT ![c] = Away] /\ UNCHANGED <<secrets, driveRows, givenUp, met>>
  BY DEF VaultInv, BreaksOff
<1>2. clerk'[c] = Away /\ Away.op = "none"
  BY <1>1, VaultShapes DEF Away
<1>3. InOrder(c)'
  BY <1>2 DEF InOrder, Drive
<1> QED
  BY <1>1, <1>2, <1>3, AwayIsARequest, NothingKept DEF Drive

LEMMA RevokingKeeps == ASSUME VaultInv, NEW c \in Clerks, Revokes(c) PROVE VaultInv'
<1>1. VaultTypeOK /\ InOrder(c) /\ clerk[c] \in ClerkRecord
  BY VaultShapes DEF VaultInv
<1>2. \/ clerk[c].op = "rotate" /\ clerk[c].step = 2
      \/ clerk[c].op = "revoke" /\ clerk[c].step = 1
  BY <1>1, WhereStatementsAre DEF Revokes
<1>3. PICK p : p = clerk[c].previous
  OBVIOUS
<1>4. p \in DOMAIN secrets
  BY <1>1, <1>2, <1>3 DEF InOrder
<1>5. /\ secrets' = [secrets EXCEPT ![p].revoked = TRUE]
      /\ UNCHANGED <<driveRows, givenUp, met>> /\ GoesThrough(c, clerk[c])
  BY <1>3 DEF Revokes
<1>6. PICK old \in SecretRow : old = secrets[p]
  BY <1>1, <1>4, VaultShapes
<1>7. [old EXCEPT !.revoked = TRUE] \in SecretRow /\ [old EXCEPT !.revoked = TRUE].keyId = old.keyId
  BY DEF SecretRow
<1>8. secrets' = [secrets EXCEPT ![p] = [old EXCEPT !.revoked = TRUE]]
  BY <1>5, <1>6
<1>9. /\ secrets' \in Seq(SecretRow) /\ Len(secrets') = Len(secrets) /\ DOMAIN secrets' = DOMAIN secrets
      /\ \A i \in DOMAIN secrets \ {p} : secrets'[i] = secrets[i]
      /\ secrets'[p].keyId = secrets[p].keyId
  <2>1. secrets \in Seq(SecretRow)
    BY <1>1, VaultShapes
  <2>2. secrets' \in Seq(SecretRow) /\ Len(secrets') = Len(secrets) /\ DOMAIN secrets' = DOMAIN secrets
    BY <1>4, <1>7, <1>8, <2>1
  <2>3. (\A i \in DOMAIN secrets \ {p} : secrets'[i] = secrets[i]) /\ secrets'[p] = [old EXCEPT !.revoked = TRUE]
    BY <1>4, <1>8, <2>1
  <2> QED
    BY <1>6, <1>7, <2>2, <2>3
<1>10. \A i \in DOMAIN secrets : secrets'[i].keyId = secrets[i].keyId
  BY <1>9
<1>11. \A k : Named(k)' = Named(k) /\ Usable(k) \ {p} \subseteq Usable(k)'
  BY <1>9, <1>10 DEF Named, Usable
<1>12. PICK r \in ClerkRecord :
         /\ clerk' = [clerk EXCEPT ![c] = r]
         /\ \/ r = Away /\ r.op = "none"
            \/ /\ r.op = clerk[c].op /\ r.step = clerk[c].step + 1
               /\ clerk[c].step # Len(Statements(clerk[c].op)) /\ r.step \in 1 .. Len(Statements(r.op))
               /\ r.keyId = clerk[c].keyId /\ r.previous = clerk[c].previous
               /\ r.stored = clerk[c].stored /\ r.row = clerk[c].row
  BY <1>1, <1>2, <1>5, GoesOn DEF InOrder
<1>13. clerk'[c] = r /\ (\A d \in Clerks \ {c} : clerk'[d] = clerk[d]) /\ clerk' \in [Clerks -> ClerkRecord]
  BY <1>1, <1>12, VaultShapes
<1>14. VaultTypeOK'
  BY <1>1, <1>5, <1>9, <1>13 DEF VaultTypeOK, ClerkRecord, SecretRow, KeyNames
<1>15. InOrder(c)'
  <2>1. CASE r.op = "none"
    BY <1>13, <2>1 DEF InOrder, Drive
  <2>2. CASE r.op # "none"
    <3>1. r.previous \in DOMAIN secrets' /\ secrets'[r.previous].keyId = secrets[r.previous].keyId
      BY <1>3, <1>4, <1>9, <1>10, <1>12, <2>2
    <3> QED
      BY <1>1, <1>2, <1>5, <1>11, <1>12, <1>13, <2>2, <3>1 DEF InOrder, Drive
  <2> QED
    BY <2>1, <2>2
<1>16. ASSUME NEW d \in Clerks PROVE InOrder(d)'
  <2>1. CASE d # c
    BY <1>5, <1>9, <1>10, <1>13, <2>1, OthersStayInOrder
  <2> QED
    BY <1>15, <2>1
<1>17. OneSetup'
  <2>1. clerk'[c].op # Drive
    BY <1>2, <1>12, <1>13 DEF Drive
  <2> QED
    BY <1>5, <1>13, <2>1 DEF VaultInv, OneSetup
<1>18. StaysReadable'
  <2> SUFFICES ASSUME NEW k \in KeyNames \ givenUp, NEW i \in Named(k)
               PROVE  \E j \in Usable(k)' : j >= i
    BY <1>5, <1>11 DEF StaysReadable
  <2>1. PICK j \in Usable(k) : j >= i
    BY DEF VaultInv, StaysReadable
  <2>2. CASE j # p
    BY <1>11, <2>1, <2>2
  <2>3. CASE j = p
    <3>1. secrets[p].keyId = k
      BY <2>1, <2>3 DEF Usable, Named
    <3>2. PICK s : s = clerk[c].stored
      OBVIOUS
    <3>3. s \in Named(k) /\ s > p
      BY <1>1, <1>2, <1>3, <3>1, <3>2 DEF InOrder
    <3>4. PICK l \in Usable(k) : l >= s
      BY <3>3 DEF VaultInv, StaysReadable
    <3>5. i \in Nat /\ p \in Nat /\ s \in Nat /\ l \in Nat
      BY <1>1, <1>4, <3>3, <3>4, VaultShapes DEF Named, Usable
    <3> QED
      BY <1>11, <2>1, <2>3, <3>3, <3>4, <3>5
  <2> QED
    BY <2>2, <2>3
<1>19. OneDriveRow'
  BY <1>5, <1>11 DEF VaultInv, OneDriveRow
<1> QED
  BY <1>14, <1>16, <1>17, <1>18, <1>19 DEF VaultInv

LEMMA WritingKeeps == ASSUME VaultInv, NEW c \in Clerks, WritesDriveRow(c) PROVE VaultInv'
<1>1. VaultTypeOK /\ InOrder(c) /\ clerk[c] \in ClerkRecord
  BY VaultShapes DEF VaultInv
<1>2. clerk[c].op = Drive /\ clerk[c].step = 4
  BY <1>1, WhereStatementsAre DEF WritesDriveRow
<1>3. UNCHANGED <<secrets, givenUp, met>> /\ GoesThrough(c, clerk[c])
  BY DEF WritesDriveRow
<1>4. PICK s, w : s = clerk[c].stored /\ w = clerk[c].row
  OBVIOUS
<1>5. s \in Named(DriveKey) /\ s \in SecretIds
  <2>1. s \in Named(DriveKey)
    BY <1>1, <1>2, <1>4 DEF InOrder
  <2>2. s \in DOMAIN secrets
    BY <2>1 DEF Named
  <2> QED
    BY <1>1, <2>1, <2>2, VaultShapes, VaultAssumption DEF SecretIds
<1>6. w \in 0 .. Len(driveRows) /\ (~met => (w = 0 <=> driveRows = <<>>))
  BY <1>1, <1>2, <1>4 DEF InOrder
<1>7. driveRows \in Seq(SecretIds) /\ Len(driveRows) \in Nat
  BY <1>1 DEF VaultTypeOK
<1>8. /\ w = 0 => driveRows' = Append(driveRows, s)
      /\ w # 0 => driveRows' = [driveRows EXCEPT ![w] = s]
  BY <1>4 DEF WritesDriveRow
<1>9. /\ driveRows' \in Seq(SecretIds) /\ Len(driveRows) <= Len(driveRows')
      /\ \A i \in DOMAIN driveRows' : driveRows'[i] = s \/ (i \in DOMAIN driveRows /\ driveRows'[i] = driveRows[i])
      /\ ~met => Len(driveRows') <= 1
  <2>1. CASE w = 0
    <3>1. ~met => Len(driveRows) = 0
      BY <1>6, <2>1
    <3> QED
      BY <1>5, <1>7, <1>8, <2>1, <3>1
  <2>2. CASE w # 0
    <3>1. w \in DOMAIN driveRows /\ driveRows' = [driveRows EXCEPT ![w] = s]
      BY <1>6, <1>7, <1>8, <2>2
    <3>2. driveRows' \in Seq(SecretIds) /\ Len(driveRows') = Len(driveRows) /\ DOMAIN driveRows' = DOMAIN driveRows
      BY <1>5, <1>7, <3>1
    <3>3. ~met => Len(driveRows) <= 1
      BY DEF VaultInv, OneDriveRow
    <3> QED
      BY <1>7, <3>1, <3>2, <3>3
  <2> QED
    BY <2>1, <2>2
<1>10. clerk' = [clerk EXCEPT ![c] = Away]
  BY <1>2, <1>3 DEF GoesThrough, Statements, Drive
<1>11. clerk'[c].op = "none" /\ (\A d \in Clerks \ {c} : clerk'[d] = clerk[d]) /\ clerk' \in [Clerks -> ClerkRecord]
  <2>1. clerk'[c] = Away /\ (\A d \in Clerks \ {c} : clerk'[d] = clerk[d]) /\ clerk' \in [Clerks -> ClerkRecord]
    BY <1>1, <1>10, VaultShapes, AwayIsARequest
  <2> QED
    BY <2>1 DEF Away
<1>12. VaultTypeOK'
  BY <1>1, <1>3, <1>9, <1>11 DEF VaultTypeOK, ClerkRecord, KeyNames
<1>13. ASSUME NEW d \in Clerks PROVE InOrder(d)'
  <2>1. CASE d # c
    <3>1. clerk[c].op = Drive /\ Len(driveRows') \in Nat /\ Len(driveRows) <= Len(driveRows')
      BY <1>2, <1>9
    <3> QED
      BY <1>3, <1>11, <2>1, <3>1, OthersStayInOrder
  <2>2. CASE d = c
    BY <1>11, <2>2 DEF InOrder, Drive
  <2> QED
    BY <2>1, <2>2
<1>14. OneSetup'
  <2>1. clerk'[c].op # Drive
    BY <1>11 DEF Drive
  <2> QED
    BY <1>3, <1>11, <2>1 DEF VaultInv, OneSetup
<1>15. StaysReadable'
  BY <1>3 DEF VaultInv, StaysReadable, Named, Usable
<1>16. OneDriveRow'
  <2>1. \A i \in DOMAIN driveRows : driveRows[i] \in Named(DriveKey)
    BY DEF VaultInv, OneDriveRow, ToSet
  <2>2. Named(DriveKey)' = Named(DriveKey)
    BY <1>3 DEF Named
  <2>3. \A i \in DOMAIN driveRows' : driveRows'[i] \in Named(DriveKey)'
    BY <1>5, <1>9, <2>1, <2>2
  <2> QED
    BY <1>3, <1>9, <2>3 DEF OneDriveRow, ToSet
<1> QED
  BY <1>12, <1>13, <1>14, <1>15, <1>16 DEF VaultInv

LEMMA VaultStepsKeep == VaultInv /\ [VaultNext]_vaultVars => VaultInv'
<1> SUFFICES ASSUME VaultInv, [VaultNext]_vaultVars PROVE VaultInv'
  OBVIOUS
<1>1. CASE UNCHANGED vaultVars
  BY <1>1 DEF vaultVars, VaultInv, VaultTypeOK, InOrder, OneSetup, StaysReadable, OneDriveRow, Named, Usable
<1>2. CASE VaultNext
  BY <1>2, ArrivalKeeps, StoringKeeps, RevokingKeeps, RecordingKeeps, FindingKeeps, WritingKeeps,
     BreakingOffKeeps DEF VaultNext
<1> QED
  BY <1>1, <1>2

(* A name that nobody gave up can be read at every moment, whoever rotates *)
(* its key and wherever that stops: storing before revoking is what keeps  *)
(* a secret as new as any (rotateCredential).  And the connector's row     *)
(* names a secret of the connector's own (configureGoogleDrive).           *)
THEOREM VaultStaysKept == VaultSpec => []VaultIsKept
<1>1. VaultInv => VaultIsKept
  BY DEF VaultInv, VaultIsKept, StaysReadable, OneDriveRow, KeyNames
<1> QED
  BY <1>1, StartsKept, VaultStepsKeep, PTL DEF VaultSpec

-----------------------------------------------------------------------------
(* The rows of all three, and the requests, transactions and clerks that   *)
(* write them, are always of their types, whatever breaks off: no request  *)
(* runs past its last statement (RowsTypeOK).                              *)
THEOREM RowsTypeCorrect == MCSpec => []RowsTypeOK
<1>1. MCInit => IInv /\ PackInv /\ VaultInv
  BY InitIInv, PackagesStart, StartsKept DEF MCInit
<1>2. [MCNext]_rowsVars => [Next]_vars /\ [PackageNext]_packageVars /\ [VaultNext]_vaultVars
  BY DEF MCNext, rowsVars
<1>3. IInv /\ PackInv /\ VaultInv /\ [MCNext]_rowsVars => (IInv /\ PackInv /\ VaultInv)'
  BY <1>2, NextIInv, PackageStepsKeep, VaultStepsKeep
<1>4. IInv /\ PackInv /\ VaultInv => RowsTypeOK
  BY DEF IInv, PackInv, VaultInv, RowsTypeOK
<1> QED
  BY <1>1, <1>3, <1>4, PTL DEF MCSpec

=============================================================================
