---------------------------- MODULE Sequence_lemmas ----------------------------
(* Facts about numbers and sequences that the proofs need: induction over  *)
(* a set of numbers, and what concatenation, appending and flattening give *)
(* (for \o, Append and FlattenSeq as the models use them).                 *)
EXTENDS Naturals, SequencesExt, FiniteSetTheorems, SequenceTheorems, TLAPS

(* Induction over the naturals, for a set: the first missing number would  *)
(* make the successor an injection of a finite set into less of it.        *)
LEMMA SetInduction ==
  ASSUME NEW T, 0 \in T, \A n \in Nat : n \in T => n + 1 \in T
  PROVE  Nat \subseteq T
<1> SUFFICES ASSUME NEW k \in Nat, k \notin T PROVE FALSE
  OBVIOUS
<1> DEFINE S == {n \in 0 .. k : n \in T}
<1>1. IsFiniteSet(S) /\ Cardinality(S) \in Nat
  <2>1. IsFiniteSet(0 .. k)
    BY FS_Interval
  <2>2. S \in SUBSET (0 .. k)
    OBVIOUS
  <2> QED
    BY <2>1, <2>2, FS_Subset, FS_CardinalityType
<1>2. 0 \in S
  OBVIOUS
<1>3. IsFiniteSet(S \ {0}) /\ Cardinality(S \ {0}) < Cardinality(S)
  <2> HIDE DEF S
  <2>1. IsFiniteSet(S \ {0}) /\ Cardinality(S \ {0}) = Cardinality(S) - 1
    BY <1>1, <1>2, FS_RemoveElement
  <2> QED
    BY <1>1, <2>1
<1>4. PICK f : f = [n \in S |-> n + 1]
  OBVIOUS
<1>5. f \in [S -> S \ {0}]
  <2> SUFFICES ASSUME NEW n \in S PROVE n + 1 \in S \ {0}
    BY <1>4
  <2>1. n \in Nat /\ n <= k /\ n + 1 \in T
    OBVIOUS
  <2>2. n + 1 # k + 1
    BY <2>1
  <2> QED
    BY <2>1, <2>2
<1>6. \A x, y \in S : f[x] = f[y] => x = y
  BY <1>4
<1> HIDE DEF S
<1> QED
  BY <1>1, <1>3, <1>5, <1>6, FS_PigeonHole

(* A set of naturals with a bound has a greatest.                          *)
LEMMA Greatest ==
  ASSUME NEW S \in SUBSET Nat, S # {}, NEW n \in Nat, \A x \in S : x <= n
  PROVE  \E x \in S : \A y \in S : y <= x
<1> SUFFICES ASSUME \A x \in S : \E y \in S : ~(y <= x) PROVE FALSE
  OBVIOUS
<1> DEFINE T == {k \in Nat : \E y \in S : k <= y}
<1>1. 0 \in T
  <2>1. PICK y \in S : y \in Nat
    OBVIOUS
  <2>2. 0 <= y
    BY <2>1
  <2> QED
    BY <2>2
<1>2. ASSUME NEW k \in Nat, k \in T PROVE k + 1 \in T
  <2>1. PICK y \in S : k <= y
    BY <1>2
  <2>2. PICK z \in S : ~(z <= y)
    OBVIOUS
  <2>3. k + 1 <= z
    BY <2>1, <2>2
  <2> QED
    BY <2>3
<1>3. n + 1 \in T
  <2> HIDE DEF T
  <2> QED
    BY <1>1, <1>2, SetInduction
<1> QED
  BY <1>3

-----------------------------------------------------------------------------
(* What a concatenation holds, place by place.                             *)
LEMMA ConcatPlaces ==
  ASSUME NEW X, NEW s \in Seq(X), NEW t \in Seq(X), NEW w, w = s \o t
  PROVE  /\ w \in Seq(X) /\ Len(w) = Len(s) + Len(t)
         /\ \A i \in 1 .. Len(s) : i \in 1 .. Len(w) /\ w[i] = s[i]
         /\ \A i \in 1 .. Len(t) : Len(s) + i \in 1 .. Len(w) /\ w[Len(s) + i] = t[i]
         /\ \A k \in 1 .. Len(w) :
               k \in 1 .. Len(s) \/ (k > Len(s) /\ k - Len(s) \in 1 .. Len(t) /\ w[k] = t[k - Len(s)])
<1>1. PICK m \in Nat : m = Len(s)
  OBVIOUS
<1>2. PICK n \in Nat : n = Len(t)
  OBVIOUS
<1>3. w \in Seq(X) /\ Len(w) = m + n /\ \A i \in 1 .. m + n : w[i] = IF i <= m THEN s[i] ELSE t[i - m]
  BY <1>1, <1>2, ConcatProperties
<1>4. \A i \in 1 .. m : i \in 1 .. m + n /\ w[i] = s[i]
  BY <1>3
<1>5. \A i \in 1 .. n : m + i \in 1 .. m + n /\ w[m + i] = t[i]
  <2> SUFFICES ASSUME NEW i \in 1 .. n PROVE m + i \in 1 .. m + n /\ w[m + i] = t[i]
    OBVIOUS
  <2>1. m + i \in 1 .. m + n /\ ~(m + i <= m) /\ m + i - m = i
    OBVIOUS
  <2> QED
    BY <1>3, <2>1
<1>6. \A k \in 1 .. m + n : k \in 1 .. m \/ (k > m /\ k - m \in 1 .. n /\ w[k] = t[k - m])
  BY <1>3
<1> QED
  BY <1>1, <1>2, <1>3, <1>4, <1>5, <1>6

(* One element more.                                                       *)
LEMMA OneMore ==
  ASSUME NEW X, NEW s \in Seq(X), NEW e \in X, NEW w, w = Append(s, e)
  PROVE  /\ w \in Seq(X) /\ Len(w) = Len(s) + 1
         /\ \A i \in 1 .. Len(s) : i \in 1 .. Len(w) /\ i # Len(w) /\ w[i] = s[i]
         /\ w[Len(w)] = e
         /\ \A k \in 1 .. Len(w) : k = Len(w) \/ (k \in 1 .. Len(s) /\ w[k] = s[k])
<1>1. PICK n \in Nat : n = Len(s)
  OBVIOUS
<1>2. w \in Seq(X) /\ Len(w) = n + 1 /\ w[n + 1] = e /\ \A i \in 1 .. n : w[i] = s[i]
  BY <1>1, AppendProperties
<1>3. \A i \in 1 .. n : i \in 1 .. n + 1 /\ i # n + 1
  OBVIOUS
<1>4. \A k \in 1 .. n + 1 : k = n + 1 \/ k \in 1 .. n
  OBVIOUS
<1> QED
  BY <1>1, <1>2, <1>3, <1>4

(* One element, and two, at the end.                                       *)
LEMMA ConcatOne ==
  ASSUME NEW X, NEW s \in Seq(X), NEW e \in X
  PROVE  s \o <<e>> = Append(s, e)
OBVIOUS

LEMMA ConcatTwo ==
  ASSUME NEW X, NEW s \in Seq(X), NEW d \in X, NEW e \in X
  PROVE  s \o <<d, e>> = Append(Append(s, d), e)
<1>1. PICK n \in Nat : n = Len(s)
  OBVIOUS
<1>2. PICK u : u = Append(s, d)
  OBVIOUS
<1>3. u \in Seq(X) /\ Len(u) = n + 1 /\ u[n + 1] = d /\ \A i \in 1 .. n : u[i] = s[i]
  BY <1>1, <1>2, AppendProperties
<1>4. PICK v : v = Append(u, e)
  OBVIOUS
<1>5. v \in Seq(X) /\ Len(v) = n + 1 + 1 /\ v[n + 1 + 1] = e /\ \A i \in 1 .. n + 1 : v[i] = u[i]
  BY <1>3, <1>4, AppendProperties
<1>6. PICK t : t = <<d, e>>
  OBVIOUS
<1>7. t \in Seq(X) /\ Len(t) = 2 /\ t[1] = d /\ t[2] = e
  BY <1>6
<1>8. PICK w : w = s \o t
  OBVIOUS
<1>9. w \in Seq(X) /\ Len(w) = n + 2 /\ \A i \in 1 .. n + 2 : w[i] = IF i <= n THEN s[i] ELSE t[i - n]
  BY <1>1, <1>7, <1>8, ConcatProperties
<1>10. \A i \in 1 .. n + 2 : w[i] = v[i]
  <2> SUFFICES ASSUME NEW i \in 1 .. n + 2 PROVE w[i] = v[i]
    OBVIOUS
  <2>1. CASE i <= n
    <3>1. i \in 1 .. n /\ i \in 1 .. n + 1
      BY <2>1
    <3> QED
      BY <1>3, <1>5, <1>9, <2>1, <3>1
  <2>2. CASE i = n + 1
    <3>1. ~(i <= n) /\ i - n = 1 /\ i \in 1 .. n + 1
      BY <2>2
    <3> QED
      BY <1>3, <1>5, <1>7, <1>9, <2>2, <3>1
  <2>3. CASE i = n + 2
    <3>1. ~(i <= n) /\ i - n = 2 /\ i = n + 1 + 1
      BY <2>3
    <3> QED
      BY <1>5, <1>7, <1>9, <3>1
  <2> QED
    BY <2>1, <2>2, <2>3
<1>11. w = v
  <2>1. Len(w) = Len(v)
    BY <1>5, <1>9
  <2> QED
    BY <1>5, <1>9, <1>10, <2>1, SeqEqual
<1> QED
  BY <1>2, <1>4, <1>6, <1>8, <1>11

(* A sequence over a set is one over a wider set.                          *)
LEMMA WiderSeq == ASSUME NEW X, NEW Y, X \subseteq Y, NEW s \in Seq(X) PROVE s \in Seq(Y)
OBVIOUS

(* What two sequences hold, one after the other.                           *)
LEMMA ConcatHolds ==
  ASSUME NEW X, NEW s \in Seq(X), NEW t \in Seq(X)
  PROVE  s \o t \in Seq(X) /\ ToSet(s \o t) = ToSet(s) \cup ToSet(t)
<1>1. PICK m \in Nat : m = Len(s)
  OBVIOUS
<1>2. PICK n \in Nat : n = Len(t)
  OBVIOUS
<1>3. PICK w : w = s \o t
  OBVIOUS
<1>4. w \in Seq(X) /\ Len(w) = m + n
  BY <1>1, <1>2, <1>3
<1>5. \A j \in 1 .. m : w[j] = s[j]
  BY <1>1, <1>2, <1>3
<1>6. \A j \in 1 .. n : w[m + j] = t[j]
  BY <1>1, <1>2, <1>3
<1>7. ASSUME NEW x PROVE (\E j \in 1 .. m + n : w[j] = x)
                         <=> (\E j \in 1 .. m : s[j] = x) \/ (\E j \in 1 .. n : t[j] = x)
  <2>1. ASSUME NEW j \in 1 .. m + n, w[j] = x
        PROVE  (\E i \in 1 .. m : s[i] = x) \/ (\E i \in 1 .. n : t[i] = x)
    <3>1. CASE j <= m
      BY <1>5, <2>1, <3>1
    <3>2. CASE ~(j <= m)
      <4>1. j - m \in 1 .. n /\ m + (j - m) = j
        BY <3>2
      <4> QED
        BY <1>6, <2>1, <4>1
    <3> QED
      BY <3>1, <3>2
  <2>2. ASSUME NEW j \in 1 .. m, s[j] = x PROVE \E i \in 1 .. m + n : w[i] = x
    <3>1. j \in 1 .. m + n
      OBVIOUS
    <3> QED
      BY <1>5, <2>2, <3>1
  <2>3. ASSUME NEW j \in 1 .. n, t[j] = x PROVE \E i \in 1 .. m + n : w[i] = x
    <3>1. m + j \in 1 .. m + n
      OBVIOUS
    <3> QED
      BY <1>6, <2>3, <3>1
  <2> QED
    BY <2>1, <2>2, <2>3
<1>8. DOMAIN s = 1 .. m /\ DOMAIN t = 1 .. n /\ DOMAIN w = 1 .. m + n
  BY <1>1, <1>2, <1>4
<1>9. ToSet(w) = ToSet(s) \cup ToSet(t)
  BY <1>7, <1>8 DEF ToSet
<1> QED
  BY <1>3, <1>4, <1>9

(* The sequences of a sequence, one after the other: the function that     *)
(* FlattenSeq chooses exists, and what it holds is what they hold.         *)
LEMMA FlattenProperties ==
  ASSUME NEW X, NEW seqs \in Seq(Seq(X))
  PROVE  /\ FlattenSeq(seqs) \in Seq(X)
         /\ ToSet(FlattenSeq(seqs)) = UNION {ToSet(seqs[i]) : i \in 1 .. Len(seqs)}
<1>1. PICK n \in Nat : n = Len(seqs)
  OBVIOUS
<1>2. \A i \in 1 .. n : seqs[i] \in Seq(X)
  BY <1>1
<1> DEFINE Body(f, i) == IF i = 1 THEN seqs[i] ELSE f[i - 1] \o seqs[i]
           Good(f, k) == f = [i \in 1 .. k |-> Body(f, i)]
           T == {k \in Nat : \E f : Good(f, k)}
\* Such a function exists, of any length.
<1>3. 0 \in T
  <2>1. PICK f : f = [i \in 1 .. 0 |-> 0]
    OBVIOUS
  <2>2. Good(f, 0)
    <3>1. 1 .. 0 = {}
      OBVIOUS
    <3> QED
      BY <2>1, <3>1, Zenon
  <2> HIDE DEF Good
  <2> QED
    BY <2>2
<1>4. ASSUME NEW k \in Nat, k \in T PROVE k + 1 \in T
  <2>1. PICK f : Good(f, k)
    <3> HIDE DEF Good
    <3> QED
      BY <1>4
  <2>2. PICK s : s = Body(f, k + 1)
    OBVIOUS
  <2>3. PICK g : g = [i \in 1 .. k + 1 |-> IF i = k + 1 THEN s ELSE f[i]]
    OBVIOUS
  <2>4. Good(g, k + 1)
    <3> SUFFICES ASSUME NEW i \in 1 .. k + 1 PROVE (IF i = k + 1 THEN s ELSE f[i]) = Body(g, i)
      BY <2>3
    <3>1. i # 1 => i - 1 \in 1 .. k + 1 /\ i - 1 # k + 1
      OBVIOUS
    <3>2. i # 1 => g[i - 1] = f[i - 1]
      BY <2>3, <3>1
    <3>3. Body(g, i) = Body(f, i)
      BY <3>2
    <3>4. i # k + 1 => i \in 1 .. k
      OBVIOUS
    <3> QED
      BY <2>1, <2>2, <3>3, <3>4
  <2> HIDE DEF Good
  <2> QED
    BY <2>4
<1>5. n \in T
  <2> HIDE DEF T
  <2> QED
    BY <1>1, <1>3, <1>4, SetInduction
<1>6. PICK F : F = CHOOSE f : Good(f, n)
  OBVIOUS
<1>7. Good(F, n)
  <2> HIDE DEF Good
  <2> QED
    BY <1>5, <1>6
\* What it holds, at every place.
<1> DEFINE Holds(s, i) == ToSet(s) = UNION {ToSet(seqs[h]) : h \in 1 .. i}
           U == {k \in Nat : \A i : i = k + 1 /\ i <= n => F[i] \in Seq(X) /\ Holds(F[i], i)}
<1>8. 0 \in U
  <2> SUFFICES ASSUME 1 <= n PROVE F[1] \in Seq(X) /\ Holds(F[1], 1)
    OBVIOUS
  <2>1. 1 \in 1 .. n /\ 1 .. 1 = {1}
    BY <1>1
  <2>2. F[1] = seqs[1]
    BY <1>7, <2>1
  <2> QED
    BY <1>2, <2>1, <2>2
<1>9. ASSUME NEW k \in Nat, k \in U PROVE k + 1 \in U
  <2> SUFFICES ASSUME NEW i, i = k + 1 + 1, i <= n PROVE F[i] \in Seq(X) /\ Holds(F[i], i)
    <3> HIDE DEF Holds
    <3> QED
      OBVIOUS
  <2>0. i = k + 2
    OBVIOUS
  <2>1. k + 2 \in 1 .. n /\ k + 1 <= n /\ k + 2 # 1 /\ k + 2 - 1 = k + 1
    BY <1>1
  <2>2. PICK u : u = F[k + 1]
    OBVIOUS
  <2>3. PICK v : v = seqs[k + 2]
    OBVIOUS
  <2>4. PICK s : s = u \o v
    OBVIOUS
  <2>5. u \in Seq(X) /\ Holds(u, k + 1)
    <3> HIDE DEF Holds
    <3> QED
      BY <1>9, <2>1, <2>2
  <2>6. v \in Seq(X)
    BY <1>2, <2>1, <2>3
  <2>7. F[k + 2] = s
    <3>1. F[i] = Body(F, i)
      BY <1>7, <2>0, <2>1
    <3>2. i - 1 = k + 1 /\ i # 1
      BY <2>0
    <3> QED
      BY <2>0, <2>2, <2>3, <2>4, <3>1, <3>2
  <2>8. s \in Seq(X)
    BY <2>4, <2>5, <2>6
  <2>9. ToSet(s) = ToSet(u) \cup ToSet(v)
    BY <2>4, <2>5, <2>6, ConcatHolds
  <2>10. Holds(s, k + 2)
    <3>1. 1 .. k + 2 = 1 .. k + 1 \cup {k + 2}
      OBVIOUS
    <3> QED
      BY <2>3, <2>5, <2>9, <3>1
  <2> HIDE DEF Holds
  <2> QED
    BY <2>0, <2>7, <2>8, <2>10
<1>10. n - 1 \in Nat => n - 1 \in U
  <2> HIDE DEF U
  <2> QED
    BY <1>1, <1>8, <1>9, SetInduction
<1>11. CASE n = 0
  <2>1. Len(seqs) = 0 /\ seqs = <<>>
    BY <1>1, <1>11, EmptySeq
  <2>2. FlattenSeq(seqs) = seqs
    BY <2>1, Zenon DEF FlattenSeq
  <2>3. 1 .. Len(seqs) = {} /\ DOMAIN seqs = {}
    BY <2>1
  <2>4. ToSet(seqs) = {} /\ UNION {ToSet(seqs[i]) : i \in 1 .. Len(seqs)} = {}
    BY <2>3, Zenon DEF ToSet
  <2>5. seqs \in Seq(X)
    BY <2>1
  <2> QED
    BY <2>2, <2>4, <2>5, Zenon
<1>12. CASE n # 0
  <2>1. FlattenSeq(seqs) = F[n]
    BY <1>1, <1>6, <1>12 DEF FlattenSeq
  <2>2. n - 1 \in Nat /\ n - 1 + 1 = n /\ n <= n
    BY <1>1, <1>12
  <2>3. PICK w : w = F[n]
    OBVIOUS
  <2>4. w \in Seq(X) /\ Holds(w, n)
    BY <1>10, <2>2, <2>3
  <2>5. w = FlattenSeq(seqs)
    BY <2>1, <2>3
  <2> HIDE DEF Good, U
  <2> QED
    BY <1>1, <2>4, <2>5
<1> QED
  BY <1>1, <1>11, <1>12


-----------------------------------------------------------------------------
(* Greatest numbers, and folds.                                            *)

(* The greatest of a set of numbers.                                       *)
LEMMA MaxBounds ==
  ASSUME NEW n \in Nat, NEW S \in SUBSET (0 .. n), 0 \in S
  PROVE  Max(S) \in S /\ \A y \in S : y <= Max(S)
<1>1. S \in SUBSET Nat /\ S # {} /\ \A x \in S : x <= n
  OBVIOUS
<1>2. \E x \in S : \A y \in S : y <= x
  BY <1>1, Greatest
<1>3. \E x \in S : \A y \in S : x >= y
  BY <1>1, <1>2
<1>4. PICK m : m = CHOOSE x \in S : \A y \in S : x >= y
  OBVIOUS
<1>5. m \in S /\ \A y \in S : m >= y
  BY <1>3, <1>4, Zenon
<1>6. m = Max(S)
  BY <1>4, Zenon DEF Max
<1>7. \A y \in S : y <= m
  BY <1>1, <1>5
<1> QED
  BY <1>5, <1>6, <1>7, Zenon

(* The greatest of a set of places is one of them, and of an interval its  *)
(* last.                                                                   *)
LEMMA MaxIsIn ==
  ASSUME NEW n \in Nat, NEW s \in SUBSET (1 .. n), s # {}
  PROVE  Max(s) \in s
<1>1. \A x \in s : x \in Nat /\ x <= n
  OBVIOUS
<1>2. \E x \in s : \A y \in s : y <= x
  BY <1>1, Greatest
<1>3. \E x \in s : \A y \in s : x >= y
  BY <1>1, <1>2
<1>4. PICK m : m = CHOOSE x \in s : \A y \in s : x >= y
  OBVIOUS
<1>5. m \in s
  BY <1>3, <1>4, Zenon
<1>6. m = Max(s)
  BY <1>4, Zenon DEF Max
<1> QED
  BY <1>5, <1>6, Zenon

LEMMA MaxOfInterval ==
  ASSUME NEW k \in Nat \ {0}
  PROVE  Max(1 .. k) = k /\ (1 .. k) \ {k} = 1 .. (k - 1) /\ 1 .. k # {}
<1>1. k \in 1 .. k /\ \A y \in 1 .. k : k >= y
  OBVIOUS
<1>2. PICK m : m = CHOOSE x \in 1 .. k : \A y \in 1 .. k : x >= y
  OBVIOUS
<1>3. m \in 1 .. k /\ \A y \in 1 .. k : m >= y
  BY <1>1, <1>2, Zenon
<1>4. m = Max(1 .. k)
  BY <1>2, Zenon DEF Max
<1>5. m = k
  BY <1>1, <1>3
<1>6. (1 .. k) \ {k} = 1 .. (k - 1) /\ 1 .. k # {}
  BY <1>1
<1> QED
  BY <1>4, <1>5, <1>6, Zenon
(* A fold over the places of a sequence: the function that MapThenFoldSet  *)
(* chooses exists, if what folds is a function from values to values.      *)
Folding(f, V, base, n, op) ==
    /\ f \in [SUBSET (1 .. n) -> V]
    /\ \A s \in SUBSET (1 .. n) : f[s] = IF s = {} THEN base ELSE op[Max(s)][f[s \ {Max(s)}]]

LEMMA FoldExists ==
  ASSUME NEW V, NEW base \in V, NEW n \in Nat, NEW op \in [Nat -> [V -> V]]
  PROVE  \E f : Folding(f, V, base, n, op)
<1> DEFINE Good(f, k) == Folding(f, V, base, k, op)
           T == {k \in Nat : \E f : Good(f, k)}
<1>1. 0 \in T
  <2>1. PICK f : f = [s \in SUBSET (1 .. 0) |-> base]
    OBVIOUS
  <2>2. Good(f, 0)
    <3>1. \A s \in SUBSET (1 .. 0) : s = {}
      OBVIOUS
    <3> QED
      BY <2>1, <3>1 DEF Folding
  <2> HIDE DEF Good
  <2> QED
    BY <2>2
<1>2. ASSUME NEW k \in Nat, k \in T PROVE k + 1 \in T
  <2>1. PICK f : Good(f, k)
    <3> HIDE DEF Good
    <3> QED
      BY <1>2
  <2>0. /\ f \in [SUBSET (1 .. k) -> V]
        /\ \A s \in SUBSET (1 .. k) : f[s] = IF s = {} THEN base ELSE op[Max(s)][f[s \ {Max(s)}]]
    BY <2>1 DEF Folding
  <2>2. PICK g : g = [s \in SUBSET (1 .. k + 1) |-> IF k + 1 \in s THEN op[k + 1][f[s \ {k + 1}]] ELSE f[s]]
    OBVIOUS
  <2>3. ASSUME NEW s \in SUBSET (1 .. k + 1), k + 1 \in s
        PROVE  /\ Max(s) = k + 1 /\ s \ {k + 1} \in SUBSET (1 .. k) /\ k + 1 \notin s \ {k + 1}
               /\ s \ {k + 1} \in SUBSET (1 .. k + 1)
    <3>1. \A x \in s : x \in Nat /\ k + 1 >= x
      OBVIOUS
    <3>2. Max(s) = k + 1
      <4>1. \E x \in s : \A y \in s : x >= y
        BY <2>3, <3>1
      <4>3. PICK m : m = CHOOSE x \in s : \A y \in s : x >= y
        OBVIOUS
      <4>4. m \in s /\ \A y \in s : m >= y
        BY <4>1, <4>3, Zenon
      <4>5. m = Max(s)
        BY <4>3, Zenon DEF Max
      <4>6. m = k + 1
        BY <2>3, <3>1, <4>4
      <4> QED
        BY <4>5, <4>6, Zenon
    <3> QED
      BY <2>3, <3>2
  <2>4. ASSUME NEW s \in SUBSET (1 .. k + 1), k + 1 \notin s, s # {}
        PROVE  s \in SUBSET (1 .. k) /\ s \ {Max(s)} \in SUBSET (1 .. k) /\ k + 1 \notin s \ {Max(s)}
               /\ s \ {Max(s)} \in SUBSET (1 .. k + 1)
    <3>1. s \in SUBSET (1 .. k)
      <4> SUFFICES ASSUME NEW x \in s PROVE x \in 1 .. k
        OBVIOUS
      <4>1. x \in 1 .. k + 1 /\ x # k + 1
        BY <2>4
      <4> QED
        BY <4>1
    <3> QED
      BY <2>4, <3>1
  <2>5. ASSUME NEW s \in SUBSET (1 .. k + 1)
        PROVE  g[s] \in V /\ g[s] = IF s = {} THEN base ELSE op[Max(s)][g[s \ {Max(s)}]]
    <3>1. CASE k + 1 \in s
      <4>1. PICK u : u = s \ {k + 1}
        OBVIOUS
      <4>2. g[u] = f[u] /\ f[u] \in V /\ g[s] = op[k + 1][f[u]]
        BY <2>0, <2>2, <2>3, <3>1, <4>1
      <4>3. PICK m : m = Max(s)
        OBVIOUS
      <4>6. m = k + 1
        BY <2>3, <3>1, <4>3
      <4>7. s \ {m} = u
        BY <4>1, <4>6, Zenon
      <4>8. s # {} /\ k + 1 \in Nat
        BY <3>1
      <4>5. op[k + 1][f[u]] \in V
        BY <4>2, <4>8
      <4>9. g[s] \in V /\ g[s] = op[m][g[u]]
        BY <4>2, <4>5, <4>6
      <4> QED
        BY <4>3, <4>7, <4>8, <4>9, Zenon
    <3>2. CASE s = {}
      <4>1. {} \in SUBSET (1 .. k) /\ {} \in SUBSET (1 .. k + 1)
        OBVIOUS
      <4> QED
        BY <2>0, <2>2, <3>2, <4>1
    <3>3. CASE k + 1 \notin s /\ s # {}
      <4>1. PICK u : u = s \ {Max(s)}
        OBVIOUS
      <4>2. g[s] = f[s] /\ g[u] = f[u] /\ s \in SUBSET (1 .. k)
        BY <2>2, <2>4, <3>3, <4>1
      <4> QED
        BY <2>0, <3>3, <4>1, <4>2
    <3> QED
      BY <3>1, <3>2, <3>3
  <2>6. Good(g, k + 1)
    <3>1. g = [s \in SUBSET (1 .. k + 1) |-> g[s]]
      BY <2>2
    <3> QED
      BY <2>5, <3>1 DEF Folding
  <2> HIDE DEF Good
  <2> QED
    BY <2>6
<1>3. n \in T
  <2> HIDE DEF T
  <2> QED
    BY <1>1, <1>2, SetInduction
<1>4. PICK f : Good(f, n)
  <2> HIDE DEF Good
  <2> QED
    BY <1>3
<1> QED
  BY <1>4, Zenon

=============================================================================
