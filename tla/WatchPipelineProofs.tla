------------------------ MODULE WatchPipelineProofs ------------------------
(***************************************************************************)
(* Proofs about WatchPipeline and WatchProgress: the types, that a watch   *)
(* sends its events in order and once, and that it leaves no hole.         *)
(***************************************************************************)
EXTENDS WatchProgress, FiniteSetTheorems, WellFoundedInduction, SequenceTheorems, TLAPS

-----------------------------------------------------------------------------
(* Numbers and sequences that are in order. *)

(* Every number of A is below every number of B. *)
Below(A, B) == \A x \in A, y \in B : x < y

AtMost(A, b) == \A x \in A : x <= b

Asc(s) == \A i, j \in DOMAIN s : i < j => s[i] < s[j]

(* The events of a queue of items. *)
Events(q) == UNION {ToSet(q[i]) : i \in DOMAIN q}

(* A queue of items that is in order from its first event to its last. *)
AscQueue(q) ==
  /\ \A i \in DOMAIN q : Asc(q[i])
  /\ \A i, j \in DOMAIN q : i < j => Below(ToSet(q[i]), ToSet(q[j]))

LEMMA LeastNumber ==
  ASSUME NEW S \in SUBSET Nat, S # {}
  PROVE  \E m \in S : \A n \in S : m <= n
<1>1. IsWellFoundedOn(OpToRel(<, Nat), Nat)
  BY NatLessThanWellFounded
<1> DEFINE R == OpToRel(<, Nat)
<1> HIDE DEF R
<1>2. PICK m \in S : \A n \in S : ~(<<n, m>> \in R)
  BY <1>1, WFMin DEF R
<1>3. ASSUME NEW n \in S PROVE m <= n
  <2>1. ~(n < m)
    BY <1>2 DEF R, OpToRel
  <2>2. QED
    BY <2>1
<1>4. QED
  BY <1>3

LEMMA MaxOf ==
  ASSUME NEW S \in SUBSET Nat, S # {}, NEW b \in Nat, \A n \in S : n <= b
  PROVE  Max(S) \in S /\ \A n \in S : n <= Max(S)
<1> DEFINE D == {b - n : n \in S}
<1>1. D \in SUBSET Nat /\ D # {}
  OBVIOUS
<1> HIDE DEF D
<1>2. PICK d \in D : \A e \in D : d <= e
  BY <1>1, LeastNumber
<1>3. PICK m \in S : d = b - m
  BY <1>2 DEF D
<1>4. ASSUME NEW n \in S PROVE m >= n
  <2>1. b - n \in D
    BY DEF D
  <2>2. d <= b - n
    BY <1>2, <2>1
  <2>3. QED
    BY <1>3, <2>2
<1>5. \E x \in S : \A y \in S : x >= y
  BY <1>4
<1>6. Max(S) \in S /\ \A y \in S : Max(S) >= y
  BY <1>5, Zenon DEF Max
<1>7. QED
  BY <1>6

(* Induction on 1 .. n, with the set of the numbers it is shown for. *)
LEMMA Induct ==
  ASSUME NEW n \in Nat, NEW T, 1 \in T, \A i \in 1 .. (n - 1) : i \in T => i + 1 \in T
  PROVE  \A i \in 1 .. n : i \in T
<1> DEFINE D == (1 .. n) \ T
<1>1. SUFFICES ASSUME D # {} PROVE FALSE
  OBVIOUS
<1>2. D \in SUBSET Nat
  OBVIOUS
<1> HIDE DEF D
<1>3. PICK m \in D : \A k \in D : m <= k
  BY <1>1, <1>2, LeastNumber
<1>4. m \in 1 .. n /\ m \notin T /\ m # 1
  BY <1>3 DEF D
<1>5. (m - 1) \in 1 .. (n - 1) /\ (m - 1) \in 1 .. n
  BY <1>4
<1>6. (m - 1) \notin D
  <2>1. ~(m <= m - 1)
    BY <1>4
  <2>2. QED
    BY <1>3, <2>1
<1>7. (m - 1) \in T
  BY <1>5, <1>6 DEF D
<1>8. (m - 1) + 1 = m
  BY <1>4
<1>9. QED
  BY <1>4, <1>5, <1>7, <1>8

-----------------------------------------------------------------------------
(* The operators of the model on sequences that are in order. *)

(* Sorted lists the set in ascending order. *)
LEMMA SortedSpec ==
  ASSUME NEW S \in SUBSET Nat, IsFiniteSet(S)
  PROVE  /\ Sorted(S) \in Seq(S) /\ Asc(Sorted(S)) /\ ToSet(Sorted(S)) = S
         /\ DOMAIN Sorted(S) = 1 .. Cardinality(S)
<1> DEFINE n == Cardinality(S)
           upTo(x) == {y \in S : y <= x}
           f == [x \in S |-> Cardinality(upTo(x))]
<1>1. n \in Nat /\ IsFiniteSet(1 .. n) /\ Cardinality(1 .. n) = n
  <2>1. n \in Nat
    BY FS_CardinalityType
  <2>2. IsFiniteSet(1 .. n) /\ Cardinality(1 .. n) = IF 1 > n THEN 0 ELSE (n - 1) + 1
    BY <2>1, FS_Interval
  <2>3. QED
    BY <2>1, <2>2
<1> HIDE DEF n
<1>2. ASSUME NEW x \in S
      PROVE  IsFiniteSet(upTo(x)) /\ Cardinality(upTo(x)) \in 1 .. n
  <2>1. upTo(x) \in SUBSET S /\ x \in upTo(x)
    OBVIOUS
  <2> HIDE DEF upTo
  <2>2. IsFiniteSet(upTo(x)) /\ Cardinality(upTo(x)) <= n
    BY <2>1, FS_Subset DEF n
  <2>3. Cardinality(upTo(x)) \in Nat /\ Cardinality(upTo(x)) # 0
    BY <2>1, <2>2, FS_CardinalityType, FS_EmptySet
  <2>4. QED
    BY <2>2, <2>3, <1>1
<1>3. ASSUME NEW x \in S, NEW y \in S, x < y
      PROVE  Cardinality(upTo(x)) < Cardinality(upTo(y))
  <2>1. upTo(x) \in SUBSET upTo(y) /\ y \in upTo(y) /\ y \notin upTo(x)
    <3>1. \A z \in S : z <= x => z <= y
      BY <1>3
    <3>2. y <= y /\ ~(y <= x)
      BY <1>3
    <3>3. QED
      BY <3>1, <3>2
  <2> HIDE DEF upTo
  <2>2. Cardinality(upTo(x)) <= Cardinality(upTo(y)) /\ Cardinality(upTo(x)) # Cardinality(upTo(y))
    BY <1>2, <2>1, FS_Subset
  <2>3. QED
    BY <2>2, <1>1, <1>2
<1> HIDE DEF upTo
<1>4. f \in Injection(S, 1 .. n)
  <2>1. f \in [S -> 1 .. n]
    BY <1>2
  <2>2. ASSUME NEW x \in S, NEW y \in S, f[x] = f[y] PROVE x = y
    <3>1. Cardinality(upTo(x)) = Cardinality(upTo(y)) /\ Cardinality(upTo(x)) \in 1 .. n
      BY <1>2, <2>2
    <3>2. ~(x < y) /\ ~(y < x)
      BY <1>1, <1>3, <3>1
    <3>3. QED
      BY <3>2
  <2>3. QED
    BY <2>1, <2>2 DEF Injection, IsInjective
<1>5. f \in Surjection(S, 1 .. n)
  BY <1>1, <1>4, FS_Injection DEF n
<1>6. ASSUME NEW i \in 1 .. n
      PROVE  Sorted(S)[i] \in S /\ Cardinality(upTo(Sorted(S)[i])) = i
  <2>1. \E x \in S : f[x] = i
    BY <1>5 DEF Surjection
  <2>2. \E x \in S : Cardinality(upTo(x)) = i
    BY <2>1
  <2>3. Sorted(S)[i] = CHOOSE x \in S : Cardinality(upTo(x)) = i
    BY DEF Sorted, n, upTo
  <2>4. QED
    BY <2>2, <2>3
<1>7. Sorted(S) \in [1 .. n -> S]
  <2>1. Sorted(S) = [i \in 1 .. n |-> Sorted(S)[i]]
    BY DEF Sorted, n
  <2>2. QED
    BY <1>6, <2>1
<1>8. Sorted(S) \in Seq(S) /\ DOMAIN Sorted(S) = 1 .. n
  BY <1>1, <1>7
<1>9. ASSUME NEW i \in 1 .. n, NEW j \in 1 .. n, i < j PROVE Sorted(S)[i] < Sorted(S)[j]
  <2>1. PICK x \in S, y \in S : /\ x = Sorted(S)[i] /\ Cardinality(upTo(x)) = i
                                /\ y = Sorted(S)[j] /\ Cardinality(upTo(y)) = j
    BY <1>6
  <2>2. ~(y < x) /\ x # y
    BY <1>1, <1>3, <1>9, <2>1
  <2>3. QED
    BY <2>1, <2>2
<1>10. ASSUME NEW x \in S PROVE \E i \in 1 .. n : Sorted(S)[i] = x
  <2>1. PICK i \in 1 .. n : i = Cardinality(upTo(x))
    BY <1>2
  <2>2. PICK y \in S : y = Sorted(S)[i] /\ Cardinality(upTo(y)) = i
    BY <1>6
  <2>3. f[x] = f[y]
    BY <2>1, <2>2
  <2>4. x = y
    BY <1>4, <2>3 DEF Injection, IsInjective
  <2>5. QED
    BY <2>2, <2>4
<1>11. QED
  BY <1>6, <1>8, <1>9, <1>10 DEF Asc, ToSet, n

(* Keep keeps the events of the filter, and their order. *)
LEMMA KeepSpec ==
  ASSUME NEW e \in Seq(Nat), Asc(e), NEW P
  PROVE  /\ Keep(e, P) \in Seq(Nat) /\ Asc(Keep(e, P)) /\ ToSet(Keep(e, P)) = ToSet(e) \cap P
<1> DEFINE I == {i \in DOMAIN e : e[i] \in P}
           k == Sorted(I)
<1>1. I \in SUBSET Nat /\ I \subseteq 1 .. Len(e) /\ Len(e) \in Nat
  OBVIOUS
<1>2. IsFiniteSet(I)
  <2>1. IsFiniteSet(1 .. Len(e))
    BY <1>1, FS_Interval
  <2>2. QED
    BY <1>1, <2>1, FS_Subset
<1>3. /\ k \in Seq(I) /\ Asc(k) /\ ToSet(k) = I
  BY <1>1, <1>2, SortedSpec
<1>4. Keep(e, P) = [j \in DOMAIN k |-> e[k[j]]]
  BY DEF Keep
<1>5. \A i \in I : i \in DOMAIN e /\ e[i] \in P /\ e[i] \in Nat
  OBVIOUS
<1>6. \A i \in DOMAIN e : e[i] \in P => i \in I
  OBVIOUS
<1> HIDE DEF I, k
<1>7. DOMAIN k = 1 .. Len(k) /\ Len(k) \in Nat /\ \A j \in DOMAIN k : k[j] \in I
  BY <1>3
<1>8. Keep(e, P) \in Seq(Nat) /\ DOMAIN Keep(e, P) = DOMAIN k
  BY <1>4, <1>5, <1>7
<1>9. \A j \in DOMAIN k : Keep(e, P)[j] = e[k[j]]
  BY <1>4
<1>10. Asc(Keep(e, P))
  <2>1. SUFFICES ASSUME NEW i \in DOMAIN k, NEW j \in DOMAIN k, i < j
                 PROVE  Keep(e, P)[i] < Keep(e, P)[j]
    BY <1>8 DEF Asc
  <2>2. k[i] < k[j] /\ k[i] \in DOMAIN e /\ k[j] \in DOMAIN e
    BY <1>3, <1>5, <1>7, <2>1 DEF Asc
  <2>3. e[k[i]] < e[k[j]]
    BY <2>2 DEF Asc
  <2>4. QED
    BY <1>9, <2>3
<1>11. ASSUME NEW x \in ToSet(Keep(e, P)) PROVE x \in ToSet(e) /\ x \in P
  <2>1. PICK j \in DOMAIN k : x = e[k[j]]
    BY <1>8, <1>9 DEF ToSet
  <2>2. QED
    BY <1>5, <1>7, <2>1 DEF ToSet
<1>12. ASSUME NEW x \in ToSet(e), x \in P PROVE x \in ToSet(Keep(e, P))
  <2>1. PICK i \in DOMAIN e : x = e[i]
    BY DEF ToSet
  <2>2. i \in I
    BY <1>6, <1>12, <2>1
  <2>3. PICK j \in DOMAIN k : i = k[j]
    BY <1>3, <2>2 DEF ToSet
  <2>4. QED
    BY <1>8, <1>9, <2>1, <2>3 DEF ToSet
<1>13. QED
  BY <1>8, <1>10, <1>11, <1>12

(* The recursive function behind FlattenSeq is defined. *)
LEMMA FlattenExists ==
  ASSUME NEW q, Len(q) \in Nat \ {0}
  PROVE  \E f : f = [i \in 1 .. Len(q) |-> IF i = 1 THEN q[i] ELSE f[i - 1] \o q[i]]
<1> DEFINE Def(f, n) == f = [i \in 1 .. n |-> IF i = 1 THEN q[i] ELSE f[i - 1] \o q[i]]
           T == {n \in 1 .. Len(q) : \E f : Def(f, n)}
<1>1. 1 \in T
  <2>1. Def([i \in 1 .. 1 |-> q[i]], 1)
    OBVIOUS
  <2> HIDE DEF Def
  <2>2. \E f : Def(f, 1)
    BY <2>1
  <2>3. 1 \in 1 .. Len(q)
    OBVIOUS
  <2>4. QED
    BY <2>2, <2>3
<1>2. ASSUME NEW n \in 1 .. (Len(q) - 1), n \in T PROVE n + 1 \in T
  <2>1. PICK f : Def(f, n)
    BY <1>2
  <2> DEFINE g == [i \in 1 .. (n + 1) |-> IF i = n + 1 THEN f[n] \o q[n + 1] ELSE f[i]]
  <2>2. ASSUME NEW i \in 1 .. (n + 1)
        PROVE  g[i] = IF i = 1 THEN q[i] ELSE g[i - 1] \o q[i]
    <3>1. CASE i = n + 1
      <4>1. i # 1 /\ (i - 1) = n /\ n \in 1 .. (n + 1) /\ n # n + 1
        BY <3>1
      <4>2. g[i - 1] = f[n]
        BY <4>1
      <4>3. QED
        BY <3>1, <4>1, <4>2
    <3>2. CASE i # n + 1
      <4>1. i \in 1 .. n /\ (i # 1 => (i - 1) \in 1 .. (n + 1) /\ (i - 1) # n + 1)
        BY <3>2
      <4>2. g[i] = f[i] /\ (i # 1 => g[i - 1] = f[i - 1])
        BY <3>2, <4>1
      <4>3. f[i] = IF i = 1 THEN q[i] ELSE f[i - 1] \o q[i]
        BY <2>1, <4>1
      <4>4. QED
        BY <4>2, <4>3
    <3>3. QED
      BY <3>1, <3>2
  <2>3. g = [i \in 1 .. (n + 1) |-> g[i]]
    OBVIOUS
  <2> HIDE DEF g
  <2>4. Def(g, n + 1)
    BY <2>2, <2>3
  <2>5. n + 1 \in 1 .. Len(q)
    OBVIOUS
  <2>6. QED
    BY <2>4, <2>5
<1> HIDE DEF T
<1>3. Len(q) \in T
  <2>1. \A i \in 1 .. Len(q) : i \in T
    BY <1>1, <1>2, Induct
  <2>2. QED
    BY <2>1
<1>4. QED
  BY <1>3 DEF T

(* Two sequences in order, one after the other. *)
LEMMA ConcatAsc ==
  ASSUME NEW s \in Seq(Nat), NEW t \in Seq(Nat), Asc(s), Asc(t), Below(ToSet(s), ToSet(t))
  PROVE  s \o t \in Seq(Nat) /\ Asc(s \o t) /\ ToSet(s \o t) = ToSet(s) \cup ToSet(t)
<1>1. /\ s \o t \in Seq(Nat) /\ Len(s \o t) = Len(s) + Len(t)
      /\ \A i \in 1 .. (Len(s) + Len(t)) : (s \o t)[i] = IF i <= Len(s) THEN s[i] ELSE t[i - Len(s)]
  BY ConcatProperties
<1>2. /\ Len(s) \in Nat /\ Len(t) \in Nat /\ DOMAIN s = 1 .. Len(s) /\ DOMAIN t = 1 .. Len(t)
      /\ DOMAIN (s \o t) = 1 .. (Len(s) + Len(t))
  BY <1>1
<1> DEFINE st == s \o t
<1> HIDE DEF st
<1>3. \A i \in 1 .. Len(s) : i \in DOMAIN st /\ st[i] = s[i]
  BY <1>1, <1>2 DEF st
<1>4. ASSUME NEW i \in 1 .. Len(t) PROVE Len(s) + i \in DOMAIN st /\ st[Len(s) + i] = t[i]
  <2>1. Len(s) + i \in 1 .. (Len(s) + Len(t)) /\ ~(Len(s) + i <= Len(s)) /\ (Len(s) + i) - Len(s) = i
    BY <1>2
  <2>2. QED
    BY <1>1, <1>2, <2>1 DEF st
<1>5. ASSUME NEW i \in DOMAIN st
      PROVE  \/ i \in 1 .. Len(s)
             \/ \E k \in 1 .. Len(t) : i = Len(s) + k
  <2>1. i \in 1 .. (Len(s) + Len(t))
    BY <1>2 DEF st
  <2>2. CASE i > Len(s)
    <3>1. (i - Len(s)) \in 1 .. Len(t) /\ i = Len(s) + (i - Len(s))
      BY <1>2, <2>1, <2>2
    <3>2. QED
      BY <3>1
  <2>3. QED
    BY <1>2, <2>1, <2>2
<1>6. Asc(st)
  <2>1. SUFFICES ASSUME NEW i \in DOMAIN st, NEW j \in DOMAIN st, i < j PROVE st[i] < st[j]
    BY DEF Asc
  <2>2. CASE i \in 1 .. Len(s) /\ j \in 1 .. Len(s)
    BY <1>2, <1>3, <2>1, <2>2 DEF Asc
  <2>3. ASSUME i \in 1 .. Len(s), NEW k \in 1 .. Len(t), j = Len(s) + k PROVE st[i] < st[j]
    <3>1. st[i] = s[i] /\ st[j] = t[k]
      BY <1>3, <1>4, <2>3
    <3>2. s[i] \in ToSet(s) /\ t[k] \in ToSet(t)
      BY <1>2, <2>3 DEF ToSet
    <3>3. QED
      BY <3>1, <3>2 DEF Below
  <2>4. ASSUME j \in 1 .. Len(s), NEW k \in 1 .. Len(t), i = Len(s) + k PROVE FALSE
    BY <1>2, <2>1, <2>4
  <2>5. ASSUME NEW k \in 1 .. Len(t), NEW l \in 1 .. Len(t), i = Len(s) + k, j = Len(s) + l
        PROVE  st[i] < st[j]
    <3>1. st[i] = t[k] /\ st[j] = t[l] /\ k < l
      BY <1>2, <1>4, <2>1, <2>5
    <3>2. QED
      BY <1>2, <3>1 DEF Asc
  <2>6. QED
    BY <1>5, <2>2, <2>3, <2>4, <2>5
<1>7. ASSUME NEW x PROVE x \in ToSet(st) <=> x \in ToSet(s) \/ x \in ToSet(t)
  <2>1. ASSUME x \in ToSet(st) PROVE x \in ToSet(s) \/ x \in ToSet(t)
    <3>1. PICK i \in DOMAIN st : x = st[i]
      BY <2>1 DEF ToSet
    <3>2. QED
      BY <1>2, <1>3, <1>4, <1>5, <3>1 DEF ToSet
  <2>2. ASSUME x \in ToSet(s) PROVE x \in ToSet(st)
    BY <1>2, <1>3, <2>2 DEF ToSet
  <2>3. ASSUME x \in ToSet(t) PROVE x \in ToSet(st)
    <3>1. PICK k \in 1 .. Len(t) : x = t[k]
      BY <1>2, <2>3 DEF ToSet
    <3>2. QED
      BY <1>4, <3>1 DEF ToSet
  <2>4. QED
    BY <2>1, <2>2, <2>3
<1>8. QED
  BY <1>1, <1>6, <1>7 DEF st

(* All the items of a queue in one: in order, and with the same events. *)
LEMMA FlattenSpec ==
  ASSUME NEW q \in Seq(Seq(Nat)), q # <<>>, AscQueue(q)
  PROVE  /\ FlattenSeq(q) \in Seq(Nat)
         /\ Asc(FlattenSeq(q)) /\ ToSet(FlattenSeq(q)) = Events(q)
<1> DEFINE N == Len(q)
           Def(f) == f = [i \in 1 .. N |-> IF i = 1 THEN q[i] ELSE f[i - 1] \o q[i]]
           f == CHOOSE g : Def(g)
           first(n) == UNION {ToSet(q[i]) : i \in 1 .. n}
           Good(n) == f[n] \in Seq(Nat) /\ Asc(f[n]) /\ ToSet(f[n]) = first(n)
           T == {n \in 1 .. N : Good(n)}
<1>1. N \in Nat \ {0} /\ DOMAIN q = 1 .. N /\ \A i \in 1 .. N : q[i] \in Seq(Nat)
  BY EmptySeq
<1>2. FlattenSeq(q) = f[N]
  BY <1>1 DEF FlattenSeq
<1>3. Def(f)
  <2>1. \E g : Def(g)
    BY <1>1, FlattenExists
  <2>2. QED
    BY <2>1
<1> HIDE DEF f
<1>4. f[1] = q[1]
  BY <1>1, <1>3
<1>5. ASSUME NEW n \in 1 .. (N - 1) PROVE f[n + 1] = f[n] \o q[n + 1]
  <2>1. n + 1 \in 1 .. N /\ n + 1 # 1 /\ (n + 1) - 1 = n
    BY <1>1
  <2>2. f[n + 1] = IF n + 1 = 1 THEN q[n + 1] ELSE f[(n + 1) - 1] \o q[n + 1]
    BY <1>3, <2>1
  <2>3. QED
    BY <2>1, <2>2
<1>6. 1 \in T
  <2>1. first(1) = ToSet(q[1])
    OBVIOUS
  <2>2. QED
    BY <1>1, <1>4, <2>1 DEF AscQueue
<1>7. ASSUME NEW n \in 1 .. (N - 1), n \in T PROVE n + 1 \in T
  <2>1. n + 1 \in 1 .. N /\ n \in 1 .. N /\ \A i \in 1 .. n : i < n + 1 /\ i \in 1 .. N
    BY <1>1
  <2>2. first(n + 1) = first(n) \cup ToSet(q[n + 1])
    <3>1. 1 .. (n + 1) = (1 .. n) \cup {n + 1}
      BY <2>1
    <3>2. QED
      BY <3>1
  <2>3. Below(first(n), ToSet(q[n + 1]))
    <3>1. SUFFICES ASSUME NEW x \in first(n), NEW y \in ToSet(q[n + 1]) PROVE x < y
      BY DEF Below
    <3>2. PICK i \in 1 .. n : x \in ToSet(q[i])
      OBVIOUS
    <3>3. Below(ToSet(q[i]), ToSet(q[n + 1]))
      BY <1>1, <2>1 DEF AscQueue
    <3>4. QED
      BY <3>2, <3>3 DEF Below
  <2>4. Good(n)
    BY <1>7
  <2> HIDE DEF first
  <2>5. q[n + 1] \in Seq(Nat) /\ Asc(q[n + 1])
    BY <1>1, <2>1 DEF AscQueue
  <2>6. /\ f[n] \o q[n + 1] \in Seq(Nat) /\ Asc(f[n] \o q[n + 1])
        /\ ToSet(f[n] \o q[n + 1]) = ToSet(f[n]) \cup ToSet(q[n + 1])
    BY <2>3, <2>4, <2>5, ConcatAsc
  <2>7. Good(n + 1)
    BY <1>5, <2>2, <2>4, <2>6
  <2>8. QED
    BY <2>1, <2>7
<1> HIDE DEF T
<1>8. N \in T
  <2>1. \A i \in 1 .. N : i \in T
    BY <1>1, <1>6, <1>7, Induct
  <2>2. QED
    BY <1>1, <2>1
<1>9. Good(N)
  BY <1>8 DEF T
<1>10. first(N) = Events(q)
  BY <1>1 DEF Events
<1>11. QED
  BY <1>2, <1>9, <1>10

(* A sequence of numbers is one of its elements. *)
LEMMA SeqOfElements ==
  ASSUME NEW S, NEW s \in Seq(Nat), ToSet(s) \subseteq S
  PROVE  s \in Seq(S)
<1>1. s \in [1 .. Len(s) -> Nat] /\ Len(s) \in Nat
  OBVIOUS
<1>2. \A i \in 1 .. Len(s) : s[i] \in S
  BY <1>1 DEF ToSet
<1>3. s \in [1 .. Len(s) -> S]
  BY <1>1, <1>2
<1>4. QED
  BY <1>1, <1>3

LEMMA ElementsOfSeq ==
  ASSUME NEW S \in SUBSET Nat, NEW s \in Seq(S)
  PROVE  s \in Seq(Nat) /\ ToSet(s) \subseteq S
<1>1. s \in [1 .. Len(s) -> S] /\ Len(s) \in Nat /\ DOMAIN s = 1 .. Len(s)
  OBVIOUS
<1>2. \A i \in 1 .. Len(s) : s[i] \in S
  BY <1>1
<1>3. s \in [1 .. Len(s) -> Nat]
  BY <1>1, <1>2
<1>4. QED
  BY <1>1, <1>2, <1>3 DEF ToSet

(* The same for a queue. *)
LEMMA ElementsOfQueue ==
  ASSUME NEW S \in SUBSET Nat, NEW q \in Seq(Seq(S))
  PROVE  q \in Seq(Seq(Nat)) /\ Events(q) \subseteq S
<1> DEFINE E == Seq(S)
<1>1. \A s \in E : s \in Seq(Nat) /\ ToSet(s) \subseteq S
  BY ElementsOfSeq
<1>2. q \in Seq(E)
  OBVIOUS
<1> HIDE DEF E
<1>3. q \in [1 .. Len(q) -> E] /\ Len(q) \in Nat /\ DOMAIN q = 1 .. Len(q)
  BY <1>2
<1>4. \A i \in 1 .. Len(q) : q[i] \in Seq(Nat) /\ ToSet(q[i]) \subseteq S
  BY <1>1, <1>3
<1> DEFINE F == Seq(Nat)
<1>5. \A i \in 1 .. Len(q) : q[i] \in F
  BY <1>4
<1> HIDE DEF F
<1>6. q \in [1 .. Len(q) -> F]
  BY <1>3, <1>5
<1>7. q \in Seq(F)
  BY <1>3, <1>6
<1>8. QED
  BY <1>3, <1>4, <1>7 DEF F, Events

(* Nothing, and a queue of one item. *)
LEMMA EmptyQueue ==
  ToSet(<<>>) = {} /\ Asc(<<>>) /\ Events(<<>>) = {} /\ AscQueue(<<>>)
BY DEF ToSet, Asc, Events, AscQueue

LEMMA OneItem ==
  ASSUME NEW e, Asc(e)
  PROVE  AscQueue(<<e>>) /\ Events(<<e>>) = ToSet(e)
<1> DEFINE q == <<e>>
<1>1. DOMAIN q = {1} /\ q[1] = e
  OBVIOUS
<1> HIDE DEF q
<1>2. Events(q) = ToSet(e)
  BY <1>1 DEF Events
<1>3. AscQueue(q)
  BY <1>1 DEF AscQueue
<1>4. QED
  BY <1>2, <1>3 DEF q

LEMMA AppendQueue ==
  ASSUME NEW q \in Seq(Seq(Nat)), NEW e \in Seq(Nat),
         AscQueue(q), Asc(e), Below(Events(q), ToSet(e))
  PROVE  /\ Append(q, e) \in Seq(Seq(Nat)) /\ AscQueue(Append(q, e))
         /\ Events(Append(q, e)) = Events(q) \cup ToSet(e)
<1> DEFINE E == Seq(Nat)
           n == Len(q)
           a == Append(q, e)
<1>1. q \in Seq(E) /\ e \in E
  OBVIOUS
<1> HIDE DEF E
<1>2. /\ a \in Seq(E) /\ Len(a) = n + 1 /\ a[n + 1] = e
      /\ \A i \in 1 .. n : a[i] = q[i]
  BY <1>1, AppendProperties
<1>3. n \in Nat /\ DOMAIN q = 1 .. n
  BY <1>1
<1>4. DOMAIN a = 1 .. (n + 1)
  BY <1>2, <1>3
<1> HIDE DEF n, a
<1>5. \A i \in DOMAIN a : i \in DOMAIN q \/ i = n + 1
  BY <1>3, <1>4
<1>6. \A i \in DOMAIN q : i \in DOMAIN a /\ a[i] = q[i] /\ i < n + 1
  BY <1>2, <1>3, <1>4
<1>7. n + 1 \in DOMAIN a /\ a[n + 1] = e
  BY <1>2, <1>3, <1>4
<1>8. Events(a) = Events(q) \cup ToSet(e)
  BY <1>5, <1>6, <1>7 DEF Events
<1>9. \A i \in DOMAIN a : Asc(a[i])
  BY <1>5, <1>6, <1>7 DEF AscQueue
<1>10. ASSUME NEW i \in DOMAIN a, NEW j \in DOMAIN a, i < j
       PROVE  Below(ToSet(a[i]), ToSet(a[j]))
  <2>1. i \in DOMAIN q
    BY <1>3, <1>4, <1>10
  <2>2. CASE j \in DOMAIN q
    BY <1>6, <1>10, <2>1, <2>2 DEF AscQueue
  <2>3. CASE j = n + 1
    <3>1. ToSet(a[i]) \subseteq Events(q)
      BY <1>6, <2>1 DEF Events
    <3>2. QED
      BY <1>7, <2>3, <3>1 DEF Below
  <2>4. QED
    BY <1>5, <2>2, <2>3
<1>11. QED
  BY <1>2, <1>8, <1>9, <1>10 DEF AscQueue, E, a

LEMMA TailQueue ==
  ASSUME NEW q \in Seq(Seq(Nat)), q # <<>>, AscQueue(q)
  PROVE  /\ Head(q) \in Seq(Nat) /\ Asc(Head(q))
         /\ Tail(q) \in Seq(Seq(Nat)) /\ AscQueue(Tail(q))
         /\ Events(q) = ToSet(Head(q)) \cup Events(Tail(q))
         /\ Below(ToSet(Head(q)), Events(Tail(q)))
<1> DEFINE E == Seq(Nat)
           n == Len(q)
           t == Tail(q)
<1>1. q \in Seq(E)
  OBVIOUS
<1>2. n \in Nat \ {0} /\ DOMAIN q = 1 .. n
  BY <1>1, EmptySeq
<1> HIDE DEF E
<1>3. /\ Head(q) \in E /\ t \in Seq(E) /\ Head(q) = q[1]
      /\ Len(t) = n - 1 /\ \A i \in 1 .. Len(t) : t[i] = q[i + 1]
  BY <1>1, HeadTailProperties
<1>4. DOMAIN t = 1 .. (n - 1)
  BY <1>2, <1>3
<1> HIDE DEF n, t
<1>5. \A i \in DOMAIN t : i + 1 \in DOMAIN q /\ t[i] = q[i + 1] /\ 1 < i + 1
  BY <1>2, <1>3, <1>4
<1>6. 1 \in DOMAIN q
  BY <1>2
<1>7. ASSUME NEW i \in DOMAIN q, i # 1
      PROVE  \E j \in DOMAIN t : t[j] = q[i]
  <2>1. (i - 1) \in DOMAIN t /\ (i - 1) + 1 = i
    BY <1>2, <1>4, <1>7
  <2>2. QED
    BY <1>5, <2>1
<1>8. Events(q) = ToSet(Head(q)) \cup Events(t)
  <2>1. ASSUME NEW x \in Events(q) PROVE x \in ToSet(q[1]) \/ x \in Events(t)
    <3>1. PICK i \in DOMAIN q : x \in ToSet(q[i])
      BY DEF Events
    <3>2. QED
      BY <1>7, <3>1 DEF Events
  <2>2. ToSet(q[1]) \subseteq Events(q) /\ Events(t) \subseteq Events(q)
    BY <1>5, <1>6 DEF Events
  <2>3. QED
    BY <1>3, <2>1, <2>2
<1>9. Below(ToSet(Head(q)), Events(t))
  <2>1. ASSUME NEW i \in DOMAIN t PROVE Below(ToSet(q[1]), ToSet(t[i]))
    BY <1>5, <1>6 DEF AscQueue
  <2>2. QED
    BY <1>3, <2>1 DEF Below, Events
<1>10. AscQueue(t)
  <2>1. \A i \in DOMAIN t : Asc(t[i])
    BY <1>5 DEF AscQueue
  <2>2. ASSUME NEW i \in DOMAIN t, NEW j \in DOMAIN t, i < j
        PROVE  Below(ToSet(t[i]), ToSet(t[j]))
    <3>1. i + 1 < j + 1
      BY <1>2, <1>4, <2>2
    <3>2. QED
      BY <1>5, <3>1 DEF AscQueue
  <2>3. QED
    BY <2>1, <2>2 DEF AscQueue
<1>11. Asc(Head(q))
  BY <1>3, <1>6 DEF AscQueue
<1>12. QED
  BY <1>3, <1>8, <1>9, <1>10, <1>11 DEF E, t

-----------------------------------------------------------------------------
(* The inductive invariant. *)

(***************************************************************************)
(* What a watch has sent or queued for the server (g, res) comes before    *)
(* what is on its way (s, it), or is not above lastRevision, below which   *)
(* the live events are dropped.                                            *)
(***************************************************************************)
Ordered(g, res, s, it, last, pr) ==
  /\ Asc(g) /\ AscQueue(res) /\ AscQueue(s)
  /\ Below(ToSet(g), Events(res)) /\ Below(Events(s), ToSet(it))
  /\ AtMost(Events(s), pr)
  /\ \A y \in ToSet(g) \cup Events(res) :
       y <= last \/ (y <= pr /\ Below({y}, Events(s) \cup ToSet(it)))

(* The states of a watch before its history is read. *)
Unread == {"none", "created", "subscribed"}

(* Before its history is read nothing was sent or queued. *)
Fresh(w) == watch[w].st \in Unread =>
  got[w] = <<>> /\ result[w] = <<>> /\ watch[w].fwd = "off"

OrderInv ==
  /\ rows # {}
  /\ Asc(item) /\ AtMost(ToSet(item), pollRev)
  /\ \A w \in Watches :
       /\ Fresh(w)
       /\ Ordered(got[w], result[w], sub[w], item, watch[w].last, pollRev)

(* The events of the range R after `from', when the table ends at n. *)
Wanted(R, from, n) == {r \in R : from < r /\ 1 <= r /\ r <= n}

(* Every wanted event was sent, or comes after all that was sent. *)
Closed(want, g) == \A r \in want : r \in g \/ Below(g, {r})

(***************************************************************************)
(* The promise of a watch that is open.  A wanted event up to lastRevision *)
(* was sent or is queued; one that is not even on its way comes after      *)
(* everything that is, and, while the watch is subscribed, is in the item  *)
(* of the broadcaster or still to be polled.                               *)
(***************************************************************************)
Promise(want, g, res, s, it, last, pr, subscribed) ==
  /\ \A r \in want : r <= last => r \in g \cup res
  /\ \A r \in want \ (g \cup res \cup s) :
       /\ Below(g \cup res \cup s, {r})
       /\ subscribed => r \in it \/ pr < r

(* A watch m: what it has sent and queued is visible, and has no hole. *)
CompleteAs(R, m, g, res, s, it, n, pr, subscribed, open) ==
  /\ AtMost(g \cup res, n)
  /\ m.last <= n \/ m.last <= m.from
  /\ ~m.missed /\ ~m.failed =>
       /\ Closed(Wanted(R, m.from, n), g)
       /\ m.st = "loop" /\ open =>
            Promise(Wanted(R, m.from, n), g, res, s, it, m.last, pr, subscribed)

Complete(w) ==
  CompleteAs(InRange[w], watch[w], ToSet(got[w]), Events(result[w]), Events(sub[w]),
             ToSet(item), CurrentRevision, pollRev, w \in subs, ~closed)

GapInv ==
  /\ rows = 1 .. CurrentRevision
  /\ pollRev <= CurrentRevision
  /\ running => pollRev # 0
  /\ pollRev = 0 => subs = {}
  /\ \A w \in Watches : Complete(w)

-----------------------------------------------------------------------------
(* The order of a watch under each kind of change. *)

LEMMA OrderedPolled ==
  ASSUME NEW g \in Seq(Nat), NEW res \in Seq(Seq(Nat)), NEW s \in Seq(Seq(Nat)),
         NEW it, NEW last \in Nat, NEW pr \in Nat, NEW pr2 \in Nat, pr <= pr2,
         Events(s) \subseteq Nat, ToSet(g) \subseteq Nat, Events(res) \subseteq Nat,
         ToSet(it) \subseteq Nat,
         NEW new, ToSet(new) \subseteq Nat,
         new = it \/ \A x \in ToSet(new) : pr < x,
         Ordered(g, res, s, it, last, pr)
  PROVE  Ordered(g, res, s, new, last, pr2)
<1>1. AtMost(Events(s), pr2)
  BY DEF Ordered, AtMost
<1>2. Below(Events(s), ToSet(new))
  BY DEF Ordered, AtMost, Below
<1>3. ASSUME NEW y \in ToSet(g) \cup Events(res)
      PROVE  y <= last \/ (y <= pr2 /\ Below({y}, Events(s) \cup ToSet(new)))
  <2>1. SUFFICES ASSUME y <= pr, Below({y}, Events(s) \cup ToSet(it))
                 PROVE  y <= pr2 /\ Below({y}, Events(s) \cup ToSet(new))
    BY DEF Ordered
  <2>2. y \in Nat
    OBVIOUS
  <2>3. \A x \in ToSet(new) : y < x
    BY <2>1, <2>2 DEF Below
  <2>4. QED
    BY <2>1, <2>2, <2>3 DEF Below
<1>4. QED
  BY <1>1, <1>2, <1>3 DEF Ordered

LEMMA OrderedFresh ==
  ASSUME NEW s, NEW it, NEW last, NEW last2, NEW pr, Ordered(<<>>, <<>>, s, it, last, pr)
  PROVE  Ordered(<<>>, <<>>, s, it, last2, pr)
BY EmptyQueue DEF Ordered

LEMMA OrderedHistory ==
  ASSUME NEW s, NEW it, NEW last, NEW last2 \in Nat, NEW pr,
         Ordered(<<>>, <<>>, s, it, last, pr),
         NEW K \in SUBSET Nat, IsFiniteSet(K), AtMost(K, last2)
  PROVE  /\ Events(<<Sorted(K)>>) = K
         /\ Ordered(<<>>, <<Sorted(K)>>, s, it, last2, pr)
<1>1. Asc(Sorted(K)) /\ ToSet(Sorted(K)) = K
  BY SortedSpec
<1>2. AscQueue(<<Sorted(K)>>) /\ Events(<<Sorted(K)>>) = K
  BY <1>1, OneItem
<1>3. Below({}, K) /\ ToSet(<<>>) = {} /\ \A y \in K : y <= last2
  BY EmptyQueue DEF Below, AtMost
<1>4. QED
  BY <1>2, <1>3 DEF Ordered

LEMMA OrderedStream ==
  ASSUME NEW g \in Seq(Nat), NEW res \in Seq(Seq(Nat)), NEW s \in Seq(Seq(Nat)),
         NEW it \in Seq(Nat), NEW last \in Nat, NEW pr \in Nat,
         Asc(it), AtMost(ToSet(it), pr), Ordered(g, res, s, it, last, pr)
  PROVE  /\ Ordered(g, res, s, <<>>, last, pr)
         /\ Append(s, it) \in Seq(Seq(Nat))
         /\ Events(Append(s, it)) = Events(s) \cup ToSet(it)
         /\ Ordered(g, res, Append(s, it), <<>>, last, pr)
<1>1. ToSet(<<>>) = {}
  BY EmptyQueue
<1>2. Ordered(g, res, s, <<>>, last, pr)
  BY <1>1 DEF Ordered, Below
<1>3. /\ Append(s, it) \in Seq(Seq(Nat)) /\ AscQueue(Append(s, it))
      /\ Events(Append(s, it)) = Events(s) \cup ToSet(it)
  BY AppendQueue DEF Ordered
<1>4. AtMost(Events(s) \cup ToSet(it), pr)
  BY DEF Ordered, AtMost
<1>5. QED
  BY <1>1, <1>2, <1>3, <1>4 DEF Ordered, Below

LEMMA OrderedForward ==
  ASSUME NEW g \in Seq(Nat), NEW res \in Seq(Seq(Nat)), NEW s \in Seq(Seq(Nat)),
         NEW it \in Seq(Nat), NEW last \in Nat, NEW pr \in Nat,
         ToSet(g) \subseteq Nat, Events(res) \subseteq Nat, Events(s) \subseteq Nat,
         s # <<>>, Ordered(g, res, s, it, last, pr),
         NEW e \in Seq(Nat), Asc(e), ToSet(e) \subseteq ToSet(Head(s)),
         \A x \in ToSet(e) : last < x
  PROVE  /\ Ordered(g, res, Tail(s), it, last, pr)
         /\ Append(res, e) \in Seq(Seq(Nat))
         /\ Events(Append(res, e)) = Events(res) \cup ToSet(e)
         /\ Ordered(g, Append(res, e), Tail(s), it, last, pr)
<1>1. /\ AscQueue(Tail(s)) /\ Events(s) = ToSet(Head(s)) \cup Events(Tail(s))
      /\ Below(ToSet(Head(s)), Events(Tail(s)))
  BY TailQueue DEF Ordered
<1> DEFINE H == ToSet(Head(s))
           S == Events(Tail(s))
           G == ToSet(g) \cup Events(res)
<1>2. /\ AtMost(H, pr) /\ AtMost(S, pr) /\ Below(H, ToSet(it)) /\ Below(S, ToSet(it))
      /\ Below(H, S)
  BY <1>1 DEF Ordered, AtMost, Below
<1>3. /\ G \subseteq Nat /\ H \subseteq Nat
      /\ \A y \in G : y <= last \/ (y <= pr /\ Below({y}, H \cup S \cup ToSet(it)))
  BY <1>1 DEF Ordered
<1>4. \A y \in G : y <= last \/ (y <= pr /\ Below({y}, S \cup ToSet(it)))
  BY <1>3 DEF Below
<1>5. Ordered(g, res, Tail(s), it, last, pr)
  BY <1>1, <1>2, <1>4 DEF Ordered
<1>6. Below(G, ToSet(e))
  <2>1. SUFFICES ASSUME NEW y \in G, NEW x \in ToSet(e) PROVE y < x
    BY DEF Below
  <2>2. x \in H /\ x \in Nat /\ y \in Nat /\ last < x
    BY <1>3
  <2> HIDE DEF H, S, G
  <2>3. y <= last \/ y < x
    BY <1>3, <2>2 DEF Below
  <2>4. QED
    BY <2>2, <2>3
<1>7. Below(Events(res), ToSet(e)) /\ Below(ToSet(g), ToSet(e))
  BY <1>6 DEF Below
<1>8. /\ Append(res, e) \in Seq(Seq(Nat)) /\ AscQueue(Append(res, e))
      /\ Events(Append(res, e)) = Events(res) \cup ToSet(e)
  BY <1>7, AppendQueue DEF Ordered
<1>9. Below(ToSet(g), Events(res) \cup ToSet(e))
  BY <1>7 DEF Ordered, Below
<1>10. \A y \in ToSet(e) : y <= pr /\ Below({y}, S \cup ToSet(it))
  BY <1>2 DEF AtMost, Below
<1>11. \A y \in ToSet(g) \cup (Events(res) \cup ToSet(e)) :
          y <= last \/ (y <= pr /\ Below({y}, S \cup ToSet(it)))
  BY <1>4, <1>10
<1>12. Ordered(g, Append(res, e), Tail(s), it, last, pr)
  BY <1>1, <1>2, <1>8, <1>9, <1>11 DEF Ordered
<1>13. QED
  BY <1>5, <1>8, <1>12

LEMMA OrderedReceive ==
  ASSUME NEW g \in Seq(Nat), NEW res \in Seq(Seq(Nat)), NEW s, NEW it,
         NEW last, NEW pr, res # <<>>, Ordered(g, res, s, it, last, pr)
  PROVE  /\ FlattenSeq(res) \in Seq(Nat) /\ Asc(FlattenSeq(res))
         /\ ToSet(FlattenSeq(res)) = Events(res)
         /\ ToSet(g \o FlattenSeq(res)) = ToSet(g) \cup Events(res)
         /\ g \o FlattenSeq(res) \in Seq(Nat)
         /\ Ordered(g \o FlattenSeq(res), <<>>, s, it, last, pr)
         /\ Ordered(g, <<>>, s, it, last, pr)
<1>1. /\ FlattenSeq(res) \in Seq(Nat)
      /\ Asc(FlattenSeq(res)) /\ ToSet(FlattenSeq(res)) = Events(res)
  BY FlattenSpec DEF Ordered
<1>2. /\ g \o FlattenSeq(res) \in Seq(Nat) /\ Asc(g \o FlattenSeq(res))
      /\ ToSet(g \o FlattenSeq(res)) = ToSet(g) \cup Events(res)
  BY <1>1, ConcatAsc DEF Ordered
<1>3. AscQueue(<<>>) /\ Events(<<>>) = {}
  BY EmptyQueue
<1>4. \A A : Below(A, {})
  BY DEF Below
<1>5. Ordered(g \o FlattenSeq(res), <<>>, s, it, last, pr)
  BY <1>2, <1>3, <1>4 DEF Ordered
<1>6. Ordered(g, <<>>, s, it, last, pr)
  BY <1>3, <1>4 DEF Ordered
<1>7. QED
  BY <1>1, <1>2, <1>5, <1>6

-----------------------------------------------------------------------------
(* The steps of the specification: types and order. *)

LEMMA RevsAreNumbers ==
  Revs \in SUBSET Nat /\ MaxRev \in Nat /\ 0 \in Revs /\ 1 \in Revs /\ Cap \in Nat \ {0}
BY WatchAssumption DEF Revs

LEMMA Newest ==
  ASSUME NEW S \in SUBSET Revs, S # {}
  PROVE  Max(S) \in S /\ Max(S) \in Revs /\ \A r \in S : r <= Max(S)
<1>1. S \in SUBSET Nat /\ \A r \in S : r <= MaxRev
  BY RevsAreNumbers DEF Revs
<1>2. QED
  BY <1>1, MaxOf, RevsAreNumbers

LEMMA Typed ==
  ASSUME TypeOK, NEW w \in Watches
  PROVE  /\ got[w] \in Seq(Nat) /\ ToSet(got[w]) \subseteq Revs
         /\ result[w] \in Seq(Seq(Nat)) /\ Events(result[w]) \subseteq Revs
         /\ sub[w] \in Seq(Seq(Nat)) /\ Events(sub[w]) \subseteq Revs
         /\ item \in Seq(Nat) /\ ToSet(item) \subseteq Revs
         /\ watch[w] \in WatchState /\ watch[w].last \in Revs /\ pollRev \in Revs
<1>1. /\ got[w] \in Seq(Revs) /\ item \in Seq(Revs)
      /\ result[w] \in Seq(Seq(Revs)) /\ sub[w] \in Seq(Seq(Revs))
      /\ watch[w] \in WatchState /\ pollRev \in Revs
  BY DEF TypeOK
<1>2. got[w] \in Seq(Nat) /\ ToSet(got[w]) \subseteq Revs
  BY <1>1, RevsAreNumbers, ElementsOfSeq
<1>3. item \in Seq(Nat) /\ ToSet(item) \subseteq Revs
  BY <1>1, RevsAreNumbers, ElementsOfSeq
<1>4. result[w] \in Seq(Seq(Nat)) /\ Events(result[w]) \subseteq Revs
  BY <1>1, RevsAreNumbers, ElementsOfQueue
<1>5. sub[w] \in Seq(Seq(Nat)) /\ Events(sub[w]) \subseteq Revs
  BY <1>1, RevsAreNumbers, ElementsOfQueue
<1>6. watch[w].last \in Revs
  BY <1>1 DEF WatchState
<1>7. QED
  BY <1>1, <1>2, <1>3, <1>4, <1>5, <1>6

IndOrder == TypeOK /\ OrderInv

(* A step that leaves the queues alone. *)
Quiet ==
  /\ UNCHANGED <<item, sub, result, got>>
  /\ pollRev <= pollRev' /\ rows \subseteq rows'
  /\ \A w \in Watches :
       /\ watch'[w].last = watch[w].last \/ watch[w].st \in Unread
       /\ watch'[w].st \in Unread =>
            watch[w].st \in Unread /\ watch'[w].fwd \in {"off", watch[w].fwd}

LEMMA QuietOrder ==
  ASSUME IndOrder, TypeOK', Quiet
  PROVE  OrderInv'
<1>1. TypeOK /\ OrderInv
  BY DEF IndOrder
<1>2. PICK p \in Nat : p = pollRev' /\ pollRev <= p
  BY RevsAreNumbers DEF TypeOK, Quiet
<1>3. rows' # {}
  BY <1>1 DEF Quiet, OrderInv
<1>4. Asc(item') /\ AtMost(ToSet(item'), pollRev')
  <2>1. \A x \in ToSet(item) : x <= pollRev /\ x \in Nat
    BY <1>1, ElementsOfSeq, RevsAreNumbers DEF OrderInv, AtMost, TypeOK
  <2>2. pollRev \in Nat
    BY <1>1, RevsAreNumbers DEF TypeOK
  <2>3. AtMost(ToSet(item), p)
    BY <1>2, <2>1, <2>2 DEF AtMost
  <2>4. QED
    BY <1>1, <1>2, <2>3 DEF Quiet, OrderInv
<1>5. ASSUME NEW w \in Watches
      PROVE  Fresh(w)' /\ Ordered(got[w], result[w], sub[w], item, watch[w].last, pollRev)'
  <2>1. Fresh(w) /\ Ordered(got[w], result[w], sub[w], item, watch[w].last, pollRev)
    BY <1>1 DEF OrderInv
  <2>2. Fresh(w)'
    BY <2>1 DEF Fresh, Quiet, Unread
  <2>3. /\ got[w] \in Seq(Nat) /\ ToSet(got[w]) \subseteq Nat
        /\ result[w] \in Seq(Seq(Nat)) /\ Events(result[w]) \subseteq Nat
        /\ sub[w] \in Seq(Seq(Nat)) /\ Events(sub[w]) \subseteq Nat
        /\ ToSet(item) \subseteq Nat
        /\ watch[w].last \in Nat /\ pollRev \in Nat
    BY <1>1, Typed, RevsAreNumbers
  <2>4. Ordered(got[w], result[w], sub[w], item, watch[w].last, p)
    BY <1>2, <2>1, <2>3, OrderedPolled
  <2>5. PICK l : l = watch'[w].last
    OBVIOUS
  <2>6. Ordered(got[w], result[w], sub[w], item, l, p)
    <3>1. CASE watch[w].st \in Unread
      <4>1. got[w] = <<>> /\ result[w] = <<>>
        BY <2>1, <3>1 DEF Fresh, Unread
      <4>2. QED
        BY <2>4, <4>1, OrderedFresh
    <3>2. CASE watch[w].st \notin Unread
      BY <2>4, <2>5, <3>2 DEF Quiet
    <3>3. QED
      BY <3>1, <3>2
  <2>7. QED
    BY <1>2, <2>2, <2>5, <2>6 DEF Quiet
<1>6. QED
  BY <1>3, <1>4, <1>5 DEF OrderInv

(* A step that changes the record of one watch. *)
LEMMA OneWatch ==
  ASSUME watch \in [Watches -> WatchState], NEW w \in Watches, NEW m \in WatchState,
         watch' = [watch EXCEPT ![w] = m]
  PROVE  /\ watch' \in [Watches -> WatchState] /\ watch'[w] = m
         /\ \A x \in Watches : x # w => watch'[x] = watch[x]
OBVIOUS

LEMMA DatabaseOrder ==
  ASSUME IndOrder, Database
  PROVE  TypeOK' /\ Quiet
<1>1. pollRev \in Nat /\ TypeOK
  BY RevsAreNumbers DEF IndOrder, TypeOK
<1>2. CASE Write
  <2>1. PICK r \in 1 .. MaxRev : rows' = rows \cup {r}
    BY <1>2 DEF Write
  <2>2. rows' \in SUBSET Revs
    BY <1>1, <2>1 DEF Revs, TypeOK
  <2>3. TypeOK'
    BY <1>1, <1>2, <2>2 DEF TypeOK, Write, pollVars, subVars, client
  <2>4. QED
    BY <1>1, <1>2, <2>1, <2>3 DEF Quiet, Write, pollVars, subVars, client
<1>3. CASE Compact
  <2>1. PICK r \in (compactRev + 1) .. (pollRev - 1) : compactRev' = r
    BY <1>3 DEF Compact
  <2>2. compactRev' \in Revs
    BY <1>1, <2>1, RevsAreNumbers DEF Revs, TypeOK
  <2>3. TypeOK'
    BY <1>1, <1>3, <2>2 DEF TypeOK, Compact, pollVars, subVars, client
  <2>4. QED
    BY <1>1, <1>3, <2>3 DEF Quiet, Compact, pollVars, subVars, client
<1>4. QED
  BY <1>2, <1>3 DEF Database

LEMMA PolledRevOrder ==
  ASSUME IndOrder, PolledRev
  PROVE  TypeOK' /\ Quiet
<1>1. pollRev \in Nat /\ TypeOK
  BY RevsAreNumbers DEF IndOrder, TypeOK
<1>2. QED
  BY <1>1 DEF TypeOK, Quiet, PolledRev, db, subVars, client

LEMMA UnsubOrder ==
  ASSUME IndOrder, NEW w \in Watches, unsub(w)
  PROVE  TypeOK' /\ Quiet
<1>1. pollRev \in Nat /\ TypeOK /\ watch[w] \in WatchState
  BY RevsAreNumbers DEF IndOrder, TypeOK
<1> DEFINE m == [watch[w] EXCEPT !.chan = "closed"]
<1>2. m \in WatchState /\ m.last = watch[w].last /\ m.st = watch[w].st /\ m.fwd = watch[w].fwd
  BY <1>1 DEF WatchState
<1>3. watch' = [watch EXCEPT ![w] = m]
  BY DEF unsub
<1> HIDE DEF m
<1>4. /\ watch' \in [Watches -> WatchState] /\ watch'[w] = m
      /\ \A x \in Watches : x # w => watch'[x] = watch[x]
  BY <1>1, <1>2, <1>3, OneWatch DEF TypeOK
<1>5. TypeOK'
  BY <1>1, <1>4 DEF TypeOK, unsub, db, pollVars, client
<1>6. QED
  BY <1>1, <1>2, <1>4, <1>5 DEF Quiet, unsub, db, pollVars, client

LEMMA StreamEndOrder ==
  ASSUME IndOrder, streamEnd
  PROVE  TypeOK' /\ Quiet
<1>1. pollRev \in Nat /\ TypeOK /\ watch \in [Watches -> WatchState]
  BY RevsAreNumbers DEF IndOrder, TypeOK
<1>2. ASSUME NEW w \in Watches
      PROVE  /\ watch'[w] \in WatchState /\ watch'[w].last = watch[w].last
             /\ watch'[w].st = watch[w].st /\ watch'[w].fwd = watch[w].fwd
  <2>1. watch'[w] = IF w \in subs THEN [watch[w] EXCEPT !.chan = "closed"] ELSE watch[w]
    BY DEF streamEnd
  <2>2. PICK m \in WatchState : m = watch[w]
    BY <1>1
  <2>3. [m EXCEPT !.chan = "closed"] \in WatchState /\ [m EXCEPT !.chan = "closed"].last = m.last
        /\ [m EXCEPT !.chan = "closed"].st = m.st /\ [m EXCEPT !.chan = "closed"].fwd = m.fwd
    BY DEF WatchState
  <2>4. QED
    BY <2>1, <2>2, <2>3
<1>3. watch' \in [Watches -> WatchState]
  <2>1. watch' = [w \in Watches |-> watch'[w]]
    BY DEF streamEnd
  <2>2. QED
    BY <1>2, <2>1
<1>4. TypeOK'
  BY <1>1, <1>3 DEF TypeOK, streamEnd, db, client
<1>5. QED
  BY <1>1, <1>2, <1>4 DEF Quiet, streamEnd, db, client

LEMMA CloseOrder ==
  ASSUME IndOrder, Close
  PROVE  TypeOK' /\ Quiet
<1>1. pollRev \in Nat /\ TypeOK /\ watch \in [Watches -> WatchState]
  BY RevsAreNumbers DEF IndOrder, TypeOK
<1>2. ASSUME NEW w \in Watches
      PROVE  /\ watch'[w] \in WatchState /\ watch'[w].last = watch[w].last
             /\ watch'[w].st = watch[w].st /\ watch'[w].fwd = watch[w].fwd
  <2>1. watch'[w] = IF watch[w].live THEN Removed(watch[w]) ELSE watch[w]
    BY DEF Close
  <2>2. PICK m \in WatchState : m = watch[w]
    BY <1>1
  <2>3. Removed(m) \in WatchState /\ Removed(m).last = m.last /\ Removed(m).st = m.st
        /\ Removed(m).fwd = m.fwd
    BY DEF WatchState, Removed
  <2>4. QED
    BY <2>1, <2>2, <2>3
<1>3. watch' \in [Watches -> WatchState]
  <2>1. watch' = [w \in Watches |-> watch'[w]]
    BY DEF Close
  <2>2. QED
    BY <1>2, <2>1
<1>4. TypeOK'
  BY <1>1, <1>3 DEF TypeOK, Close, db, pollVars, subVars, client
<1>5. QED
  BY <1>1, <1>2, <1>4 DEF Quiet, Close, db, pollVars, subVars, client

(* The record of one watch changes, and nothing else that the order is about. *)
LEMMA OneWatchQuiet ==
  ASSUME IndOrder, NEW w \in Watches, NEW m \in WatchState,
         watch' = [watch EXCEPT ![w] = m],
         m.last = watch[w].last \/ watch[w].st \in Unread,
         m.st \in Unread => watch[w].st \in Unread /\ m.fwd \in {"off", watch[w].fwd},
         UNCHANGED <<db, pollVars, item, subVars, result, client, closed>>
  PROVE  TypeOK' /\ Quiet
<1>1. pollRev \in Nat /\ TypeOK
  BY RevsAreNumbers DEF IndOrder, TypeOK
<1>2. /\ watch' \in [Watches -> WatchState] /\ watch'[w] = m
      /\ \A x \in Watches : x # w => watch'[x] = watch[x]
  BY <1>1, OneWatch DEF TypeOK
<1>3. TypeOK'
  BY <1>1, <1>2 DEF TypeOK, db, pollVars, subVars, client
<1>4. QED
  BY <1>1, <1>2, <1>3 DEF Quiet, db, pollVars, subVars, client

LEMMA AfterRevisionType ==
  ASSUME TypeOK, NEW w \in Watches
  PROVE  /\ afterRevision(w) \in Revs /\ promisedFrom(w) \in Revs /\ watch[w] \in WatchState
         /\ watch[w].start \in Revs
<1>1. watch[w] \in WatchState /\ compactRev \in Revs
  BY DEF TypeOK
<1>2. watch[w].start \in Revs
  BY <1>1 DEF WatchState
<1>3. PICK s \in Revs : s = watch[w].start
  BY <1>2
<1>4. (IF s > 1 THEN s - 1 ELSE s) \in Revs
  BY RevsAreNumbers DEF Revs
<1>5. afterRevision(w) \in Revs
  BY <1>3, <1>4 DEF afterRevision
<1>6. QED
  BY <1>1, <1>2, <1>5 DEF promisedFrom

LEMMA WatchQuiet ==
  ASSUME IndOrder, NEW w \in Watches,
         \/ HistoryCompacted(w) \/ HistoryFails(w) \/ ForwardEnds(w)
         \/ CreatedFails(w) \/ WatchEnds(w) \/ Cancel(w)
         \/ \E s \in Starts, p \in BOOLEAN : Create(w, s, p)
  PROVE  TypeOK' /\ Quiet
<1>1. TypeOK /\ afterRevision(w) \in Revs /\ promisedFrom(w) \in Revs /\ watch[w] \in WatchState
  BY AfterRevisionType DEF IndOrder
<1>2. PICK v \in WatchState : v = watch[w]
  BY <1>1
<1>3. CASE HistoryCompacted(w)
  <2> DEFINE m == [v EXCEPT !.st = "ended", !.fwd = "on", !.ctx = FALSE, !.live = FALSE,
                            !.progress = FALSE]
  <2>1. m \in WatchState /\ m.last = v.last /\ m.st \notin Unread
    BY DEF WatchState, Unread
  <2>2. watch' = [watch EXCEPT ![w] = m]
    BY <1>2, <1>3 DEF HistoryCompacted
  <2> HIDE DEF m
  <2>3. QED
    BY <1>2, <1>3, <2>1, <2>2, OneWatchQuiet DEF HistoryCompacted
<1>4. CASE HistoryFails(w)
  <2> DEFINE m == [v EXCEPT !.st = "loop", !.fwd = "on", !.ctx = FALSE,
                            !.last = afterRevision(w), !.from = promisedFrom(w), !.failed = TRUE]
  <2>1. m \in WatchState /\ m.st \notin Unread
    BY <1>1 DEF WatchState, Unread
  <2>2. watch' = [watch EXCEPT ![w] = m] /\ v.st \in Unread
    BY <1>2, <1>4 DEF HistoryFails, Unread
  <2> HIDE DEF m
  <2>3. QED
    BY <1>2, <1>4, <2>1, <2>2, OneWatchQuiet DEF HistoryFails
<1>5. CASE ForwardEnds(w)
  <2> DEFINE m == [v EXCEPT !.fwd = "done", !.ctx = FALSE]
  <2>1. m \in WatchState /\ m.last = v.last /\ m.st \notin Unread
    <3>1. v.st \notin Unread
      BY <1>2, <1>5 DEF ForwardEnds, IndOrder, OrderInv, Fresh
    <3>2. QED
      BY <3>1 DEF WatchState
  <2>2. watch' = [watch EXCEPT ![w] = m]
    BY <1>2, <1>5 DEF ForwardEnds
  <2> HIDE DEF m
  <2>3. QED
    BY <1>2, <1>5, <2>1, <2>2, OneWatchQuiet DEF ForwardEnds
<1>6. CASE CreatedFails(w) \/ WatchEnds(w)
  <2> DEFINE m == [Removed(v) EXCEPT !.st = "ended"]
  <2>1. m \in WatchState /\ m.last = v.last /\ m.st \notin Unread
    BY DEF WatchState, Unread, Removed
  <2>2. watch' = [watch EXCEPT ![w] = m]
    BY <1>2, <1>6 DEF CreatedFails, WatchEnds
  <2> HIDE DEF m
  <2>3. QED
    BY <1>2, <1>6, <2>1, <2>2, OneWatchQuiet DEF CreatedFails, WatchEnds
<1>7. CASE Cancel(w)
  <2> DEFINE m == Removed(v)
  <2>1. m \in WatchState /\ m.last = v.last /\ m.st = v.st /\ m.fwd = v.fwd
    BY DEF WatchState, Removed
  <2>2. watch' = [watch EXCEPT ![w] = m]
    BY <1>2, <1>7 DEF Cancel
  <2> HIDE DEF m
  <2>3. QED
    BY <1>2, <1>7, <2>1, <2>2, OneWatchQuiet DEF Cancel
<1>8. ASSUME NEW s \in Starts, NEW p \in BOOLEAN, Create(w, s, p) PROVE TypeOK' /\ Quiet
  <2> DEFINE m == [NoWatch EXCEPT !.st = "created", !.start = s, !.progress = p, !.live = TRUE]
  <2>1. s \in Revs
    BY WatchAssumption DEF Revs
  <2>2. m \in WatchState /\ m.fwd = "off"
    BY <2>1, RevsAreNumbers DEF WatchState, NoWatch
  <2>3. watch' = [watch EXCEPT ![w] = m] /\ v.st \in Unread
    BY <1>2, <1>8 DEF Create, Unread
  <2> HIDE DEF m
  <2>4. QED
    BY <1>2, <1>8, <2>2, <2>3, OneWatchQuiet DEF Create
<1>9. QED
  BY <1>3, <1>4, <1>5, <1>6, <1>7, <1>8

(* The revision a node starts to poll from. *)
LEMMA CurrentType ==
  ASSUME IndOrder
  PROVE  CurrentRevision \in rows /\ CurrentRevision \in Revs /\ CurrentRevision \in Nat
<1>1. rows \in SUBSET Revs /\ rows # {}
  BY DEF IndOrder, TypeOK, OrderInv
<1>2. QED
  BY <1>1, Newest, RevsAreNumbers DEF CurrentRevision

LEMMA WatchBeginsOrder ==
  ASSUME IndOrder, NEW w \in Watches, WatchBegins(w)
  PROVE  TypeOK' /\ Quiet
<1>1. pollRev \in Nat /\ TypeOK /\ watch[w] \in WatchState
  BY RevsAreNumbers DEF IndOrder, TypeOK
<1>2. PICK v \in WatchState : v = watch[w]
  BY <1>1
<1>3. /\ running' \in BOOLEAN /\ pollRev' \in Revs /\ pollRev <= pollRev'
      /\ subs' \in SUBSET Watches
  <2>1. PICK c \in Revs : c = CurrentRevision /\ c \in Nat
    BY CurrentType
  <2>2. CASE start /\ subs' = subs \cup {w}
    <3>1. pollRev = 0 /\ pollRev' = c /\ running' = TRUE
      BY <2>1, <2>2 DEF start
    <3>2. QED
      BY <1>1, <2>1, <2>2, <3>1 DEF TypeOK
  <2>3. CASE UNCHANGED <<running, pollRev>> /\ subs' \in {subs, subs \cup {w}}
    BY <1>1, <2>3 DEF TypeOK
  <2>4. QED
    BY <2>2, <2>3 DEF WatchBegins, Subscribe
<1>4. \E m \in WatchState : m.last = v.last /\ m.st \in Unread /\ v.st \in Unread /\ m.fwd = v.fwd
                            /\ watch' = [watch EXCEPT ![w] = m]
  <2>1. /\ [v EXCEPT !.st = "subscribed", !.chan = "open"] \in WatchState
        /\ [v EXCEPT !.st = "subscribed", !.chan = "nil"] \in WatchState
        /\ [v EXCEPT !.st = "subscribed", !.chan = "open"].last = v.last
        /\ [v EXCEPT !.st = "subscribed", !.chan = "nil"].last = v.last
        /\ [v EXCEPT !.st = "subscribed", !.chan = "open"].fwd = v.fwd
        /\ [v EXCEPT !.st = "subscribed", !.chan = "nil"].fwd = v.fwd
        /\ [v EXCEPT !.st = "subscribed", !.chan = "open"].st \in Unread
        /\ [v EXCEPT !.st = "subscribed", !.chan = "nil"].st \in Unread
    BY DEF WatchState, Unread
  <2>2. v.st \in Unread
    BY <1>2 DEF WatchBegins, Unread
  <2>3. \/ watch' = [watch EXCEPT ![w] = [v EXCEPT !.st = "subscribed", !.chan = "open"]]
        \/ watch' = [watch EXCEPT ![w] = [v EXCEPT !.st = "subscribed", !.chan = "nil"]]
    BY <1>2 DEF WatchBegins
  <2>4. QED
    BY <2>1, <2>2, <2>3
<1>5. PICK m \in WatchState : m.last = v.last /\ m.st \in Unread /\ v.st \in Unread /\ m.fwd = v.fwd
                              /\ watch' = [watch EXCEPT ![w] = m]
  BY <1>4
<1>6. /\ watch' \in [Watches -> WatchState] /\ watch'[w] = m
      /\ \A x \in Watches : x # w => watch'[x] = watch[x]
  BY <1>1, <1>5, OneWatch DEF TypeOK
<1>7. UNCHANGED <<rows, compactRev, polledRev, item, doomed, sub, result, got, maxRevision, closed>>
  BY DEF WatchBegins, db, client
<1>8. TypeOK'
  BY <1>1, <1>3, <1>6, <1>7 DEF TypeOK
<1>9. QED
  BY <1>2, <1>3, <1>5, <1>6, <1>7, <1>8 DEF Quiet

(* The item of a poll: the numbers from a + 1 to b. *)
LEMMA RunSpec ==
  ASSUME NEW a \in Nat, NEW b \in Nat, a < b,
         NEW s, s = [i \in 1 .. (b - a) |-> a + i]
  PROVE  s \in Seq(Nat) /\ Asc(s) /\ ToSet(s) = (a + 1) .. b
<1>1. b - a \in Nat /\ DOMAIN s = 1 .. (b - a) /\ \A i \in 1 .. (b - a) : s[i] = a + i
  OBVIOUS
<1>2. s \in Seq(Nat)
  BY <1>1
<1>3. Asc(s)
  BY <1>1 DEF Asc
<1>4. \A x \in (a + 1) .. b : (x - a) \in 1 .. (b - a) /\ a + (x - a) = x
  OBVIOUS
<1>5. \A i \in 1 .. (b - a) : a + i \in (a + 1) .. b
  OBVIOUS
<1>6. ToSet(s) = (a + 1) .. b
  BY <1>1, <1>4, <1>5 DEF ToSet
<1>7. QED
  BY <1>2, <1>3, <1>6

(* What a poll hands out. *)
LEMMA PollItem ==
  ASSUME TypeOK, Poll
  PROVE  /\ pollRev \in Revs /\ pollRev' \in Revs /\ pollRev < pollRev'
         /\ item' \in Seq(Nat) /\ Asc(item') /\ ToSet(item') = (pollRev + 1) .. pollRev'
         /\ ToSet(item') \subseteq rows
<1>1. PICK last \in (pollRev + 1) .. MaxRev :
        /\ \A r \in (pollRev + 1) .. last : r \in rows
        /\ item' = [i \in 1 .. (last - pollRev) |-> pollRev + i]
        /\ pollRev' = last
  BY DEF Poll
<1>2. pollRev \in Revs /\ pollRev \in Nat
  BY RevsAreNumbers DEF TypeOK
<1>3. last \in Nat /\ last \in Revs /\ pollRev < last
  BY <1>2, RevsAreNumbers DEF Revs
<1>4. PICK s : s = [i \in 1 .. (last - pollRev) |-> pollRev + i]
  OBVIOUS
<1>5. s \in Seq(Nat) /\ Asc(s) /\ ToSet(s) = (pollRev + 1) .. last
  BY <1>2, <1>3, <1>4, RunSpec
<1>6. item' = s
  BY <1>1, <1>4
<1>7. QED
  BY <1>1, <1>2, <1>3, <1>5, <1>6

LEMMA PollOrder ==
  ASSUME IndOrder, Poll
  PROVE  TypeOK' /\ OrderInv'
<1>1. TypeOK /\ OrderInv
  BY DEF IndOrder
<1>2. PICK b \in Revs, new \in Seq(Nat) :
        /\ b = pollRev' /\ new = item' /\ pollRev \in Revs /\ pollRev < b
        /\ Asc(new) /\ ToSet(new) = (pollRev + 1) .. b
  BY <1>1, PollItem
<1>3. pollRev \in Nat /\ b \in Nat
  BY <1>2, RevsAreNumbers
<1>4. ToSet(new) \subseteq Revs /\ ToSet(new) \subseteq Nat /\ AtMost(ToSet(new), b)
      /\ \A x \in ToSet(new) : pollRev < x
  BY <1>2, <1>3, RevsAreNumbers DEF AtMost, Revs
<1>5. new \in Seq(Revs)
  BY <1>4, SeqOfElements
<1>6. TypeOK'
  BY <1>1, <1>2, <1>5 DEF TypeOK, Poll, db, subVars, client
<1>7. ASSUME NEW w \in Watches
      PROVE  Fresh(w)' /\ Ordered(got[w], result[w], sub[w], item, watch[w].last, pollRev)'
  <2>1. Fresh(w) /\ Ordered(got[w], result[w], sub[w], item, watch[w].last, pollRev)
    BY <1>1 DEF OrderInv
  <2>2. /\ got[w] \in Seq(Nat) /\ ToSet(got[w]) \subseteq Nat
        /\ result[w] \in Seq(Seq(Nat)) /\ Events(result[w]) \subseteq Nat
        /\ sub[w] \in Seq(Seq(Nat)) /\ Events(sub[w]) \subseteq Nat
        /\ ToSet(item) \subseteq Nat /\ watch[w].last \in Nat
    BY <1>1, Typed, RevsAreNumbers
  <2>3. /\ pollRev \in Nat /\ b \in Nat /\ pollRev <= b /\ ToSet(new) \subseteq Nat
        /\ new = item \/ \A x \in ToSet(new) : pollRev < x
    BY <1>2, <1>3, <1>4
  <2>4. Ordered(got[w], result[w], sub[w], new, watch[w].last, b)
    BY <2>1, <2>2, <2>3, OrderedPolled
  <2>5. QED
    BY <1>2, <2>1, <2>4 DEF Poll, Fresh, subVars, client
<1>8. rows' = rows
  BY DEF Poll, db
<1>9. QED
  BY <1>1, <1>2, <1>4, <1>6, <1>7, <1>8 DEF OrderInv

LEMMA StreamOrder ==
  ASSUME IndOrder, stream
  PROVE  TypeOK' /\ OrderInv'
<1>1. TypeOK /\ OrderInv
  BY DEF IndOrder
<1> DEFINE slow == {w \in subs : Len(sub[w]) = Cap}
<1>2. /\ sub' = [w \in Watches |-> IF w \in subs \ slow THEN Append(sub[w], item) ELSE sub[w]]
      /\ watch' = [w \in Watches |-> IF w \in slow THEN [watch[w] EXCEPT !.missed = TRUE]
                                                   ELSE watch[w]]
      /\ doomed' = doomed \cup slow /\ item' = <<>> /\ item # <<>>
      /\ UNCHANGED <<rows, compactRev, running, pollRev, polledRev, subs, result, got,
                     maxRevision, closed>>
  BY DEF stream, db, pollVars, client
<1>3. ASSUME NEW w \in Watches
      PROVE  /\ watch'[w] \in WatchState /\ watch'[w].last = watch[w].last
             /\ watch'[w].st = watch[w].st /\ watch'[w].fwd = watch[w].fwd
  <2>1. PICK m \in WatchState : m = watch[w]
    BY <1>1 DEF TypeOK
  <2>2. [m EXCEPT !.missed = TRUE] \in WatchState /\ [m EXCEPT !.missed = TRUE].last = m.last
        /\ [m EXCEPT !.missed = TRUE].st = m.st /\ [m EXCEPT !.missed = TRUE].fwd = m.fwd
    BY DEF WatchState
  <2>3. watch'[w] = IF w \in slow THEN [m EXCEPT !.missed = TRUE] ELSE m
    BY <1>2, <2>1
  <2>4. QED
    BY <2>1, <2>2, <2>3
<1>4. watch' \in [Watches -> WatchState]
  <2>1. watch' = [w \in Watches |-> watch'[w]]
    BY <1>2
  <2>2. QED
    BY <1>3, <2>1
<1>5. ASSUME NEW w \in Watches
      PROVE  sub'[w] \in Seq(Seq(Revs)) /\ Len(sub'[w]) <= Cap
  <2> DEFINE E == Seq(Revs)
  <2>1. sub[w] \in Seq(E) /\ item \in E /\ Len(sub[w]) <= Cap
    BY <1>1 DEF TypeOK
  <2> HIDE DEF E
  <2>2. sub'[w] = IF w \in subs \ slow THEN Append(sub[w], item) ELSE sub[w]
    BY <1>2
  <2>3. CASE w \in subs \ slow
    <3>1. Len(sub[w]) # Cap /\ Len(sub[w]) \in Nat /\ Cap \in Nat
      BY <2>1, <2>3, RevsAreNumbers
    <3>2. Append(sub[w], item) \in Seq(E) /\ Len(Append(sub[w], item)) = Len(sub[w]) + 1
      BY <2>1, AppendProperties
    <3>3. Len(sub[w]) + 1 <= Cap
      BY <2>1, <3>1
    <3>4. QED
      BY <2>2, <2>3, <3>2, <3>3 DEF E
  <2>4. CASE w \notin subs \ slow
    BY <2>1, <2>2, <2>4 DEF E
  <2>5. QED
    BY <2>3, <2>4
<1>6. sub' \in [Watches -> Seq(Seq(Revs))]
  <2> DEFINE F == Seq(Seq(Revs))
  <2>1. \A w \in Watches : sub'[w] \in F
    BY <1>5
  <2> HIDE DEF F
  <2>2. sub' = [w \in Watches |-> sub'[w]]
    BY <1>2
  <2>3. sub' \in [Watches -> F]
    BY <2>1, <2>2
  <2>4. QED
    BY <2>3 DEF F
<1>7. item' \in Seq(Revs) /\ doomed' \in SUBSET Watches
  BY <1>1, <1>2 DEF TypeOK
<1>8. TypeOK'
  BY <1>1, <1>2, <1>4, <1>5, <1>6, <1>7 DEF TypeOK
<1>9. ASSUME NEW w \in Watches
      PROVE  Fresh(w)' /\ Ordered(got[w], result[w], sub[w], item, watch[w].last, pollRev)'
  <2>1. Fresh(w) /\ Ordered(got[w], result[w], sub[w], item, watch[w].last, pollRev)
    BY <1>1 DEF OrderInv
  <2>2. /\ got[w] \in Seq(Nat) /\ result[w] \in Seq(Seq(Nat)) /\ sub[w] \in Seq(Seq(Nat))
        /\ item \in Seq(Nat) /\ watch[w].last \in Nat /\ pollRev \in Nat
    BY <1>1, Typed, RevsAreNumbers
  <2>3. /\ Ordered(got[w], result[w], sub[w], <<>>, watch[w].last, pollRev)
        /\ Ordered(got[w], result[w], Append(sub[w], item), <<>>, watch[w].last, pollRev)
    BY <1>1, <1>2, <2>1, <2>2, OrderedStream DEF OrderInv
  <2>4. sub'[w] \in {sub[w], Append(sub[w], item)}
    BY <1>2
  <2>5. Fresh(w)'
    BY <1>2, <1>3, <2>1 DEF Fresh
  <2>6. QED
    BY <1>2, <1>3, <2>3, <2>4, <2>5
<1>10. Asc(item') /\ AtMost(ToSet(item'), pollRev')
  BY <1>2, EmptyQueue DEF AtMost
<1>11. QED
  BY <1>1, <1>2, <1>8, <1>9, <1>10 DEF OrderInv

(* The history of a watch: rows of its range after its start. *)
LEMMA AfterSpec ==
  ASSUME IndOrder, NEW w \in Watches, NEW kvs \in After(w)
  PROVE  /\ kvs \subseteq rows \cap InRange[w] /\ kvs \in SUBSET Nat /\ kvs \subseteq Revs
         /\ IsFiniteSet(kvs) /\ AtMost(kvs, CurrentRevision)
         /\ \A r \in rows \cap InRange[w] : r > afterRevision(w) /\ ~(r <= compactRev) => r \in kvs
<1>1. rows \in SUBSET Revs /\ rows # {}
  BY DEF IndOrder, TypeOK, OrderInv
<1>2. /\ kvs \subseteq rows \cap InRange[w]
      /\ \A r \in rows \cap InRange[w] : r > afterRevision(w) /\ ~(r <= compactRev) => r \in kvs
  BY DEF After
<1>3. kvs \in SUBSET Nat /\ kvs \subseteq Revs
  BY <1>1, <1>2, RevsAreNumbers
<1>4. IsFiniteSet(kvs)
  <2>1. \A r \in kvs : r <= MaxRev
    BY <1>3 DEF Revs
  <2>2. QED
    BY <1>3, <2>1, RevsAreNumbers, FS_BoundedSetOfNaturals
<1>5. AtMost(kvs, CurrentRevision)
  BY <1>1, <1>2, Newest DEF AtMost, CurrentRevision
<1>6. QED
  BY <1>2, <1>3, <1>4, <1>5

(* The step of a history, with the record m and the queue q it leaves. *)
HistoryLeaves(w, kvs, m, q) ==
  /\ m.st = "loop" /\ m.last = lastRevision(w, kvs) /\ m.from = promisedFrom(w)
  /\ m.start = watch[w].start
  /\ m.missed = watch[w].missed /\ m.failed = watch[w].failed
  /\ watch' = [watch EXCEPT ![w] = m]
  /\ q = (IF kvs = {} THEN <<>> ELSE <<Sorted(kvs)>>) /\ Len(q) <= Cap
  /\ result' = [result EXCEPT ![w] = q]

LEMMA HistoryStep ==
  ASSUME IndOrder, NEW w \in Watches, History(w)
  PROVE  \E kvs \in After(w), m \in WatchState, q \in Seq(Seq(Revs)) : HistoryLeaves(w, kvs, m, q)
<1>1. PICK kvs \in After(w) :
        /\ watch' = [watch EXCEPT ![w] = [watch[w] EXCEPT !.st = "loop", !.fwd = "on",
                       !.last = lastRevision(w, kvs), !.from = promisedFrom(w)]]
        /\ result' = [result EXCEPT ![w] = IF kvs = {} THEN <<>> ELSE <<Sorted(kvs)>>]
  BY DEF History
<1>2. TypeOK /\ afterRevision(w) \in Revs /\ promisedFrom(w) \in Revs /\ watch[w] \in WatchState
  BY AfterRevisionType DEF IndOrder
<1>3. lastRevision(w, kvs) \in Revs
  BY <1>2, CurrentType DEF lastRevision
<1>4. PICK v \in WatchState, l \in Revs, f \in Revs :
        v = watch[w] /\ l = lastRevision(w, kvs) /\ f = promisedFrom(w)
  BY <1>2, <1>3
<1> DEFINE m == [v EXCEPT !.st = "loop", !.fwd = "on", !.last = l, !.from = f]
           q == IF kvs = {} THEN <<>> ELSE <<Sorted(kvs)>>
<1>5. /\ m \in WatchState /\ m.st = "loop" /\ m.last = l /\ m.from = f
      /\ m.missed = v.missed /\ m.failed = v.failed /\ m.start = v.start
  BY DEF WatchState
<1>6. q \in Seq(Seq(Revs)) /\ Len(q) <= Cap
  <2>1. CASE kvs = {}
    <3>1. q = <<>>
      BY <2>1
    <3>2. <<>> \in Seq(Seq(Revs)) /\ Len(<<>>) = 0
      OBVIOUS
    <3>3. QED
      BY <3>1, <3>2, RevsAreNumbers
  <2>2. CASE kvs # {}
    <3>1. kvs \in SUBSET Nat /\ IsFiniteSet(kvs) /\ kvs \subseteq Revs
      BY AfterSpec
    <3>2. Sorted(kvs) \in Seq(kvs) /\ ToSet(Sorted(kvs)) = kvs
      BY <3>1, SortedSpec
    <3>3. Sorted(kvs) \in Seq(Nat)
      BY <3>1, <3>2, ElementsOfSeq
    <3>4. Sorted(kvs) \in Seq(Revs)
      BY <3>1, <3>2, <3>3, SeqOfElements
    <3> DEFINE E == Seq(Revs)
    <3>5. Sorted(kvs) \in E
      BY <3>4
    <3> HIDE DEF E
    <3>6. <<Sorted(kvs)>> \in Seq(E) /\ Len(<<Sorted(kvs)>>) = 1
      BY <3>5
    <3>7. q = <<Sorted(kvs)>> /\ 1 <= Cap
      BY <2>2, RevsAreNumbers
    <3>8. QED
      BY <3>6, <3>7 DEF E
  <2>3. QED
    BY <2>1, <2>2
<1>7. watch' = [watch EXCEPT ![w] = m] /\ result' = [result EXCEPT ![w] = q]
  BY <1>1, <1>4
<1>8. HistoryLeaves(w, kvs, m, q)
  BY <1>4, <1>5, <1>6, <1>7 DEF HistoryLeaves
<1> HIDE DEF m, q
<1>9. QED
  BY <1>5, <1>6, <1>8

LEMMA HistoryOrder ==
  ASSUME IndOrder, NEW w \in Watches, History(w)
  PROVE  TypeOK' /\ OrderInv'
<1>1. TypeOK /\ OrderInv
  BY DEF IndOrder
<1>hist. PICK kvs \in After(w), m \in WatchState, q \in Seq(Seq(Revs)) : HistoryLeaves(w, kvs, m, q)
  BY HistoryStep
<1>2. /\ m.st = "loop" /\ m.last = lastRevision(w, kvs)
      /\ watch' = [watch EXCEPT ![w] = m]
      /\ q = (IF kvs = {} THEN <<>> ELSE <<Sorted(kvs)>>) /\ Len(q) <= Cap
      /\ result' = [result EXCEPT ![w] = q]
  BY <1>hist DEF HistoryLeaves
<1>3. /\ watch' \in [Watches -> WatchState] /\ watch'[w] = m
      /\ \A x \in Watches : x # w => watch'[x] = watch[x]
  BY <1>1, <1>2, OneWatch DEF TypeOK
<1>4. /\ result' \in [Watches -> Seq(Seq(Revs))] /\ result'[w] = q
      /\ \A x \in Watches : x # w => result'[x] = result[x]
  <2> DEFINE F == Seq(Seq(Revs))
  <2>1. result \in [Watches -> F] /\ q \in F
    BY <1>1 DEF TypeOK
  <2> HIDE DEF F
  <2>2. result' \in [Watches -> F]
    BY <1>2, <2>1
  <2>3. QED
    BY <1>2, <2>1, <2>2 DEF F
<1>5. UNCHANGED <<rows, compactRev, running, pollRev, polledRev, item, subs, doomed, sub, got,
                  maxRevision, closed>>
  BY DEF History, db, pollVars, subVars, client
<1>6. TypeOK'
  <2>1. \A x \in Watches : Len(result'[x]) <= Cap
    BY <1>1, <1>2, <1>4 DEF TypeOK
  <2>2. QED
    BY <1>1, <1>3, <1>4, <1>5, <2>1 DEF TypeOK
<1>7. ASSUME NEW x \in Watches
      PROVE  Fresh(x)' /\ Ordered(got[x], result[x], sub[x], item, watch[x].last, pollRev)'
  <2>1. Fresh(x) /\ Ordered(got[x], result[x], sub[x], item, watch[x].last, pollRev)
    BY <1>1 DEF OrderInv
  <2>2. CASE x # w
    BY <1>3, <1>4, <1>5, <2>1, <2>2 DEF Fresh
  <2>3. CASE x = w
    <3>1. got[w] = <<>> /\ result[w] = <<>>
      BY <2>1, <2>3 DEF Fresh, History, Unread
    <3>2. Ordered(<<>>, <<>>, sub[w], item, watch[w].last, pollRev)
      BY <2>1, <2>3, <3>1
    <3>3. Ordered(<<>>, q, sub[w], item, m.last, pollRev)
      <4>1. CASE kvs = {}
        BY <1>2, <3>2, <4>1, OrderedFresh
      <4>2. CASE kvs # {}
        <5>1. /\ kvs \in SUBSET Nat /\ IsFiniteSet(kvs) /\ AtMost(kvs, CurrentRevision)
              /\ CurrentRevision \in Nat
          BY AfterSpec, CurrentType
        <5>2. m.last = CurrentRevision /\ q = <<Sorted(kvs)>>
          BY <1>2, <4>2 DEF lastRevision
        <5>3. Ordered(<<>>, <<Sorted(kvs)>>, sub[w], item, CurrentRevision, pollRev)
          BY <3>2, <5>1, OrderedHistory
        <5>4. QED
          BY <5>2, <5>3
      <4>3. QED
        BY <4>1, <4>2
    <3>4. Fresh(w)'
      BY <1>2, <1>3 DEF Fresh, Unread
    <3>5. QED
      BY <1>3, <1>4, <1>5, <2>3, <3>1, <3>3, <3>4
  <2>4. QED
    BY <2>2, <2>3
<1>8. QED
  BY <1>1, <1>5, <1>6, <1>7 DEF OrderInv

(* What the forwarding goroutine passes on of an item. *)
LEMMA ForwardedSpec ==
  ASSUME IndOrder, NEW w \in Watches, sub[w] # <<>>
  PROVE  /\ Forwarded(w) \in Seq(Nat) /\ Forwarded(w) \in Seq(Revs) /\ Asc(Forwarded(w))
         /\ ToSet(Forwarded(w)) \subseteq ToSet(Head(sub[w])) \cap InRange[w]
         /\ \A x \in ToSet(Forwarded(w)) : watch[w].last < x
         /\ \A x \in ToSet(Head(sub[w])) :
              x \in InRange[w] /\ ~(x <= watch[w].last) => x \in ToSet(Forwarded(w))
<1>1. /\ sub[w] \in Seq(Seq(Nat)) /\ AscQueue(sub[w]) /\ watch[w].last \in Nat
      /\ Events(sub[w]) \subseteq Revs
  BY Typed, RevsAreNumbers DEF IndOrder, OrderInv, Ordered
<1>2. /\ Head(sub[w]) \in Seq(Nat) /\ Asc(Head(sub[w]))
      /\ ToSet(Head(sub[w])) \subseteq Events(sub[w])
  BY <1>1, TailQueue
<1> DEFINE P == filterRange(w) \cap filter(watch[w].last)
           e == Forwarded(w)
           h == Head(sub[w])
<1>3. e = Keep(h, P)
  BY DEF Forwarded
<1> HIDE DEF P, e, h
<1>4. h \in Seq(Nat) /\ Asc(h) /\ ToSet(h) \subseteq Revs
  BY <1>1, <1>2 DEF h
<1>5. e \in Seq(Nat) /\ Asc(e) /\ ToSet(e) = ToSet(h) \cap P
  BY <1>3, <1>4, KeepSpec
<1>6. PICK l \in Nat : l = watch[w].last
  BY <1>1
<1>7. P = InRange[w] \cap ((l + 1) .. MaxRev)
  BY <1>6 DEF P, filterRange, filter
<1>8. \A x \in Revs : (x \in (l + 1) .. MaxRev) <=> ~(x <= l)
  BY RevsAreNumbers DEF Revs
<1>9. \A x \in (l + 1) .. MaxRev : l < x
  BY RevsAreNumbers
<1>10. e \in Seq(Revs)
  BY <1>4, <1>5, SeqOfElements
<1>11. \A x \in ToSet(e) : l < x
  BY <1>5, <1>7, <1>9
<1>12. \A x \in ToSet(h) : x \in InRange[w] /\ ~(x <= l) => x \in ToSet(e)
  BY <1>4, <1>5, <1>7, <1>8
<1>13. QED
  BY <1>5, <1>6, <1>7, <1>10, <1>11, <1>12 DEF e, h

(* The events of the queue that it is appended to. *)
LEMMA AppendForwarded ==
  ASSUME IndOrder, NEW w \in Watches, sub[w] # <<>>
  PROVE  Events(Append(result[w], Forwarded(w))) = Events(result[w]) \cup ToSet(Forwarded(w))
<1> DEFINE f == Forwarded(w)
           l == watch[w].last
           g == got[w]
           res == result[w]
           s == sub[w]
<1>1. /\ f \in Seq(Nat) /\ Asc(f) /\ ToSet(f) \subseteq ToSet(Head(s))
      /\ \A x \in ToSet(f) : l < x
  BY ForwardedSpec
<1>2. /\ g \in Seq(Nat) /\ res \in Seq(Seq(Nat)) /\ s \in Seq(Seq(Nat)) /\ item \in Seq(Nat)
      /\ l \in Nat /\ pollRev \in Nat /\ ToSet(g) \subseteq Nat /\ Events(res) \subseteq Nat
      /\ Events(s) \subseteq Nat /\ s # <<>> /\ Ordered(g, res, s, item, l, pollRev)
  BY Typed, RevsAreNumbers DEF IndOrder, OrderInv
<1> HIDE DEF f, l, g, res, s
<1>3. /\ Ordered(g, res, Tail(s), item, l, pollRev)
      /\ Append(res, f) \in Seq(Seq(Nat))
      /\ Events(Append(res, f)) = Events(res) \cup ToSet(f)
      /\ Ordered(g, Append(res, f), Tail(s), item, l, pollRev)
  BY <1>1, <1>2, OrderedForward, Zenon
<1>4. QED
  BY <1>3 DEF f, res

(* A step of the forwarding goroutine, with the queues it leaves. *)
ForwardLeaves(w, q, t) ==
  /\ t = Tail(sub[w])
  /\ \/ OutOfRange(w) /\ q = result[w]
     \/ ~OutOfRange(w) /\ q = Append(result[w], Forwarded(w)) /\ Len(result[w]) < Cap
  /\ sub' = [sub EXCEPT ![w] = t]
  /\ result' = [result EXCEPT ![w] = q]

LEMMA ForwardStep ==
  ASSUME IndOrder, NEW w \in Watches, Forward(w)
  PROVE  \E q \in Seq(Seq(Revs)), t \in Seq(Seq(Revs)) :
           ForwardLeaves(w, q, t) /\ Len(q) <= Cap /\ Len(t) <= Cap
<1> DEFINE E == Seq(Revs)
           F == Seq(E)
           t == Tail(sub[w])
           e == Forwarded(w)
           o == OutOfRange(w)
           q == IF o THEN result[w] ELSE Append(result[w], e)
<1>1. /\ sub[w] \in Seq(E) /\ result[w] \in Seq(E) /\ Len(sub[w]) <= Cap /\ Len(result[w]) <= Cap
      /\ sub[w] # <<>> /\ e \in E /\ result \in [Watches -> F] /\ sub \in [Watches -> F]
  BY ForwardedSpec DEF IndOrder, TypeOK, Forward
<1>2. /\ ~o => Len(result[w]) < Cap /\ result' = [result EXCEPT ![w] = Append(result[w], e)]
      /\ o => result' = result
      /\ sub' = [sub EXCEPT ![w] = t]
  BY DEF Forward
<1> HIDE DEF E, e, o
<1>3. t \in Seq(E) /\ Len(t) <= Cap
  <2>1. t \in Seq(E) /\ Len(t) = Len(sub[w]) - 1 /\ Len(sub[w]) \in Nat
    BY <1>1, HeadTailProperties
  <2>2. QED
    BY <1>1, <2>1, RevsAreNumbers
<1>4. q \in Seq(E) /\ Len(q) <= Cap
  <2>1. CASE o
    BY <1>1, <2>1
  <2>2. CASE ~o
    <3>1. /\ Append(result[w], e) \in Seq(E) /\ Len(Append(result[w], e)) = Len(result[w]) + 1
          /\ Len(result[w]) \in Nat
      BY <1>1, AppendProperties
    <3>2. Len(result[w]) + 1 <= Cap
      BY <1>2, <2>2, <3>1, RevsAreNumbers
    <3>3. QED
      BY <2>2, <3>1, <3>2
  <2>3. QED
    BY <2>1, <2>2
<1>5. result' = [result EXCEPT ![w] = q]
  <2>1. CASE o
    <3>1. result = [result EXCEPT ![w] = result[w]]
      BY <1>1, Zenon
    <3>2. QED
      BY <1>2, <2>1, <3>1
  <2>2. CASE ~o
    BY <1>2, <2>2
  <2>3. QED
    BY <2>1, <2>2
<1>6. ForwardLeaves(w, q, t)
  BY <1>2, <1>5 DEF ForwardLeaves, e, o
<1> HIDE DEF q, t
<1>7. QED
  BY <1>3, <1>4, <1>6 DEF E

LEMMA ForwardOrder ==
  ASSUME IndOrder, NEW w \in Watches, Forward(w)
  PROVE  TypeOK' /\ OrderInv'
<1>1. TypeOK /\ OrderInv
  BY DEF IndOrder
<1>2. PICK q \in Seq(Seq(Revs)), t \in Seq(Seq(Revs)) :
        ForwardLeaves(w, q, t) /\ Len(q) <= Cap /\ Len(t) <= Cap
  BY ForwardStep
<1>3. /\ sub' \in [Watches -> Seq(Seq(Revs))] /\ sub'[w] = t
      /\ result' \in [Watches -> Seq(Seq(Revs))] /\ result'[w] = q
      /\ \A x \in Watches : x # w => result'[x] = result[x] /\ sub'[x] = sub[x]
  <2> DEFINE F == Seq(Seq(Revs))
  <2>1. result \in [Watches -> F] /\ sub \in [Watches -> F] /\ q \in F /\ t \in F
    BY <1>1 DEF TypeOK
  <2>2. result' = [result EXCEPT ![w] = q] /\ sub' = [sub EXCEPT ![w] = t]
    BY <1>2 DEF ForwardLeaves
  <2> HIDE DEF F
  <2>3. result' \in [Watches -> F] /\ sub' \in [Watches -> F]
    BY <2>1, <2>2
  <2>4. QED
    BY <2>1, <2>2, <2>3 DEF F
<1>4. UNCHANGED <<rows, compactRev, running, pollRev, polledRev, item, subs, doomed, watch, got,
                  maxRevision, closed>>
  BY DEF Forward, db, pollVars, client
<1>5. TypeOK'
  <2>1. \A x \in Watches : Len(result'[x]) <= Cap /\ Len(sub'[x]) <= Cap
    BY <1>1, <1>2, <1>3 DEF TypeOK
  <2>2. QED
    BY <1>1, <1>3, <1>4, <2>1 DEF TypeOK
<1>6. ASSUME NEW x \in Watches
      PROVE  Fresh(x)' /\ Ordered(got[x], result[x], sub[x], item, watch[x].last, pollRev)'
  <2>1. Fresh(x) /\ Ordered(got[x], result[x], sub[x], item, watch[x].last, pollRev)
    BY <1>1 DEF OrderInv
  <2>2. CASE x # w
    BY <1>3, <1>4, <2>1, <2>2 DEF Fresh
  <2>3. CASE x = w
    <3>1. /\ got[w] \in Seq(Nat) /\ ToSet(got[w]) \subseteq Nat
          /\ result[w] \in Seq(Seq(Nat)) /\ Events(result[w]) \subseteq Nat
          /\ sub[w] \in Seq(Seq(Nat)) /\ Events(sub[w]) \subseteq Nat
          /\ item \in Seq(Nat) /\ watch[w].last \in Nat /\ pollRev \in Nat
      BY <1>1, Typed, RevsAreNumbers
    <3>2. sub[w] # <<>> /\ watch[w].fwd = "on"
      BY DEF Forward
    <3>3. /\ Forwarded(w) \in Seq(Nat) /\ Asc(Forwarded(w))
          /\ ToSet(Forwarded(w)) \subseteq ToSet(Head(sub[w]))
          /\ \A y \in ToSet(Forwarded(w)) : watch[w].last < y
      BY <3>2, ForwardedSpec
    <3>4. /\ Ordered(got[w], result[w], Tail(sub[w]), item, watch[w].last, pollRev)
          /\ Ordered(got[w], Append(result[w], Forwarded(w)), Tail(sub[w]), item, watch[w].last,
                     pollRev)
      BY <2>1, <2>3, <3>1, <3>2, <3>3, OrderedForward
    <3>5. Ordered(got[w], q, t, item, watch[w].last, pollRev)
      BY <1>2, <3>4 DEF ForwardLeaves
    <3>6. watch[w].st \notin Unread
      BY <1>1, <3>2 DEF OrderInv, Fresh
    <3>7. Fresh(w)'
      BY <1>4, <3>6 DEF Fresh
    <3>8. QED
      BY <1>3, <1>4, <2>3, <3>5, <3>7
  <2>4. QED
    BY <2>2, <2>3
<1>7. QED
  BY <1>1, <1>4, <1>5, <1>6 DEF OrderInv

(* The loop of a watch reads its queue and sends the events e, unless it drops them. *)
Sends(w, e) == e # <<>> /\ Last(e) >= watch[w].start

ReceiveLeaves(w, e, m) ==
  /\ e = FlattenSeq(result[w])
  /\ m.st = watch[w].st /\ m.last = watch[w].last /\ m.fwd = watch[w].fwd
  /\ m.start = watch[w].start
  /\ m.from = watch[w].from /\ m.missed = watch[w].missed /\ m.failed = watch[w].failed
  /\ watch' = [watch EXCEPT ![w] = m]
  /\ got' = IF Sends(w, e) /\ ~closed THEN [got EXCEPT ![w] = got[w] \o e] ELSE got
  /\ result' = [result EXCEPT ![w] = <<>>]

LEMMA ReceiveStep ==
  ASSUME IndOrder, NEW w \in Watches, Receive(w)
  PROVE  /\ \E e \in Seq(Revs), m \in WatchState : ReceiveLeaves(w, e, m)
         /\ maxRevision' \in Revs
<1>1. /\ result[w] \in Seq(Seq(Nat)) /\ AscQueue(result[w]) /\ Events(result[w]) \subseteq Revs
      /\ result[w] # <<>> /\ watch[w] \in WatchState /\ watch \in [Watches -> WatchState]
      /\ maxRevision \in Revs
  BY Typed DEF IndOrder, TypeOK, OrderInv, Ordered, Receive
<1> DEFINE e == FlattenSeq(result[w])
           b == Sends(w, e)
           l == IF b THEN Last(e) ELSE 0
<1>2. e \in Seq(Nat) /\ ToSet(e) = Events(result[w])
  BY <1>1, FlattenSpec
<1>3. /\ watch' = IF b THEN [watch EXCEPT ![w].max = Last(e)] ELSE watch
      /\ maxRevision' = IF l > maxRevision THEN l ELSE maxRevision
      /\ got' = IF b /\ ~closed THEN [got EXCEPT ![w] = got[w] \o e] ELSE got
      /\ result' = [result EXCEPT ![w] = <<>>]
  BY DEF Receive, Send, Sends
<1>4. e = FlattenSeq(result[w]) /\ b = Sends(w, e) /\ (b => e # <<>>)
  BY DEF Sends
<1> HIDE DEF e, b
<1>5. e \in Seq(Revs)
  BY <1>1, <1>2, SeqOfElements
<1>6. b => Last(e) \in Revs
  <2>1. b => Len(e) \in Nat \ {0}
    BY <1>2, <1>4, EmptySeq
  <2>2. b => Len(e) \in DOMAIN e
    BY <1>2, <2>1
  <2>3. QED
    BY <1>1, <1>2, <2>2 DEF Last, ToSet
<1>7. l \in Revs
  BY <1>6, RevsAreNumbers
<1> HIDE DEF l
<1>8. maxRevision' \in Revs
  BY <1>1, <1>3, <1>7
<1>9. PICK v \in WatchState : v = watch[w]
  BY <1>1
<1>10. \E m \in WatchState :
         /\ m.st = v.st /\ m.last = v.last /\ m.fwd = v.fwd /\ m.start = v.start
         /\ m.from = v.from /\ m.missed = v.missed /\ m.failed = v.failed
         /\ watch' = [watch EXCEPT ![w] = m]
  <2>1. CASE b
    <3> DEFINE m == [v EXCEPT !.max = l]
    <3>1. /\ m \in WatchState /\ m.st = v.st /\ m.last = v.last /\ m.fwd = v.fwd
          /\ m.start = v.start /\ m.from = v.from /\ m.missed = v.missed /\ m.failed = v.failed
      BY <1>7 DEF WatchState
    <3>2. watch' = [watch EXCEPT ![w] = m]
      BY <1>3, <1>9, <2>1 DEF l
    <3> HIDE DEF m
    <3>3. QED
      BY <3>1, <3>2
  <2>2. CASE ~b
    <3>1. watch' = [watch EXCEPT ![w] = v]
      BY <1>1, <1>3, <1>9, <2>2
    <3>2. QED
      BY <3>1
  <2>3. QED
    BY <2>1, <2>2
<1>11. PICK m \in WatchState :
         /\ m.st = v.st /\ m.last = v.last /\ m.fwd = v.fwd /\ m.start = v.start
         /\ m.from = v.from /\ m.missed = v.missed /\ m.failed = v.failed
         /\ watch' = [watch EXCEPT ![w] = m]
  BY <1>10
<1>12. ReceiveLeaves(w, e, m)
  BY <1>3, <1>4, <1>9, <1>11 DEF ReceiveLeaves
<1>13. QED
  BY <1>5, <1>8, <1>12

LEMMA ReceiveOrder ==
  ASSUME IndOrder, NEW w \in Watches, Receive(w)
  PROVE  TypeOK' /\ OrderInv'
<1>1. TypeOK /\ OrderInv
  BY DEF IndOrder
<1>2. PICK e \in Seq(Revs), m \in WatchState : ReceiveLeaves(w, e, m)
  BY ReceiveStep
<1>3. /\ watch' \in [Watches -> WatchState] /\ watch'[w] = m
      /\ \A x \in Watches : x # w => watch'[x] = watch[x]
  BY <1>1, <1>2, OneWatch DEF TypeOK, ReceiveLeaves
<1>4. /\ result' \in [Watches -> Seq(Seq(Revs))] /\ result'[w] = <<>>
      /\ \A x \in Watches : x # w => result'[x] = result[x]
  <2> DEFINE F == Seq(Seq(Revs))
  <2>1. result \in [Watches -> F] /\ <<>> \in F
    BY <1>1 DEF TypeOK
  <2>2. result' = [result EXCEPT ![w] = <<>>]
    BY <1>2 DEF ReceiveLeaves
  <2> HIDE DEF F
  <2>3. result' \in [Watches -> F]
    BY <2>1, <2>2
  <2>4. QED
    BY <2>1, <2>2, <2>3 DEF F
<1>5. got[w] \in Seq(Revs) /\ got[w] \o e \in Seq(Revs)
  <2>1. got[w] \in Seq(Revs)
    BY <1>1 DEF TypeOK
  <2>2. QED
    BY <2>1, ConcatProperties
<1>6. /\ got' \in [Watches -> Seq(Revs)]
      /\ got'[w] \in {got[w], got[w] \o e}
      /\ \A x \in Watches : x # w => got'[x] = got[x]
  <2> DEFINE F == Seq(Revs)
  <2>1. got \in [Watches -> F] /\ got[w] \o e \in F
    BY <1>1, <1>5 DEF TypeOK
  <2>2. got' = got \/ got' = [got EXCEPT ![w] = got[w] \o e]
    BY <1>2 DEF ReceiveLeaves
  <2> HIDE DEF F
  <2>3. got' \in [Watches -> F]
    BY <2>1, <2>2
  <2>4. QED
    BY <2>1, <2>2, <2>3 DEF F
<1>7. UNCHANGED <<rows, compactRev, running, pollRev, polledRev, item, subs, doomed, sub, closed>>
  BY DEF Receive, db, pollVars, subVars
<1>8. TypeOK'
  <2>1. \A x \in Watches : Len(result'[x]) <= Cap
    <3>1. Len(<<>>) <= Cap
      BY RevsAreNumbers
    <3>2. QED
      BY <1>1, <1>4, <3>1 DEF TypeOK
  <2>2. maxRevision' \in Revs
    BY ReceiveStep
  <2>3. QED
    BY <1>1, <1>3, <1>4, <1>6, <1>7, <2>1, <2>2 DEF TypeOK
<1>9. ASSUME NEW x \in Watches
      PROVE  Fresh(x)' /\ Ordered(got[x], result[x], sub[x], item, watch[x].last, pollRev)'
  <2>1. Fresh(x) /\ Ordered(got[x], result[x], sub[x], item, watch[x].last, pollRev)
    BY <1>1 DEF OrderInv
  <2>2. CASE x # w
    BY <1>3, <1>4, <1>6, <1>7, <2>1, <2>2 DEF Fresh
  <2>3. CASE x = w
    <3>1. got[w] \in Seq(Nat) /\ result[w] \in Seq(Seq(Nat))
      BY <1>1, Typed
    <3>2. result[w] # <<>> /\ watch[w].st = "loop"
      BY DEF Receive
    <3>3. e = FlattenSeq(result[w]) /\ m.st = watch[w].st /\ m.last = watch[w].last
      BY <1>2 DEF ReceiveLeaves
    <3>4. /\ Ordered(got[w] \o e, <<>>, sub[w], item, watch[w].last, pollRev)
          /\ Ordered(got[w], <<>>, sub[w], item, watch[w].last, pollRev)
      BY <2>1, <2>3, <3>1, <3>2, <3>3, OrderedReceive
    <3>5. Fresh(w)'
      BY <1>3, <3>2, <3>3 DEF Fresh, Unread
    <3>6. QED
      BY <1>3, <1>4, <1>6, <1>7, <2>3, <3>3, <3>4, <3>5
  <2>4. QED
    BY <2>2, <2>3
<1>10. QED
  BY <1>1, <1>7, <1>8, <1>9 DEF OrderInv

-----------------------------------------------------------------------------
(* Types and order. *)

LEMMA InitOrder ==
  ASSUME Init
  PROVE  TypeOK /\ OrderInv
<1>1. NoWatch \in WatchState /\ NoWatch.last = 0 /\ NoWatch.fwd = "off"
  BY RevsAreNumbers DEF NoWatch, WatchState
<1>2. watch \in [Watches -> WatchState]
  BY <1>1 DEF Init
<1>3. sub \in [Watches -> Seq(Seq(Revs))] /\ result \in [Watches -> Seq(Seq(Revs))]
  <2> DEFINE F == Seq(Seq(Revs))
  <2>1. <<>> \in F
    OBVIOUS
  <2> HIDE DEF F
  <2>2. sub \in [Watches -> F] /\ result \in [Watches -> F]
    BY <2>1 DEF Init
  <2>3. QED
    BY <2>2 DEF F
<1>4. got \in [Watches -> Seq(Revs)] /\ item \in Seq(Revs)
  BY DEF Init
<1>5. \A w \in Watches : Len(sub[w]) <= Cap /\ Len(result[w]) <= Cap
  BY RevsAreNumbers DEF Init
<1>6. rows \in SUBSET Revs /\ rows # {}
  BY RevsAreNumbers DEF Init
<1>7. TypeOK
  BY <1>2, <1>3, <1>4, <1>5, <1>6, RevsAreNumbers DEF TypeOK, Init
<1>8. ASSUME NEW w \in Watches
      PROVE  Fresh(w) /\ Ordered(got[w], result[w], sub[w], item, watch[w].last, pollRev)
  <2>1. got[w] = <<>> /\ result[w] = <<>> /\ sub[w] = <<>> /\ item = <<>> /\ watch[w].fwd = "off"
    BY <1>1 DEF Init
  <2>2. \A l, p : Ordered(<<>>, <<>>, <<>>, <<>>, l, p)
    BY EmptyQueue DEF Ordered, Below, AtMost
  <2>3. QED
    BY <2>1, <2>2 DEF Fresh
<1>9. Asc(item) /\ AtMost(ToSet(item), pollRev)
  BY EmptyQueue DEF Init, AtMost
<1>10. QED
  BY <1>6, <1>7, <1>8, <1>9 DEF OrderInv

LEMMA NextOrder ==
  ASSUME IndOrder, [Next]_vars
  PROVE  IndOrder'
<1>1. SUFFICES TypeOK' /\ OrderInv'
  BY DEF IndOrder
<1>2. ASSUME TypeOK' /\ Quiet PROVE TypeOK' /\ OrderInv'
  BY <1>2, QuietOrder
<1>3. CASE UNCHANGED vars
  <2>1. TypeOK /\ OrderInv
    BY DEF IndOrder
  <2>2. UNCHANGED <<rows, compactRev, running, pollRev, polledRev, item, subs, doomed, sub, result,
                    watch, got, maxRevision, closed>>
    BY <1>3 DEF vars
  <2>3. TypeOK'
    BY <2>1, <2>2 DEF TypeOK
  <2>4. OrderInv'
    BY <2>1, <2>2 DEF OrderInv, Fresh
  <2>5. QED
    BY <2>3, <2>4
<1>4. CASE Database
  BY <1>2, <1>4, DatabaseOrder
<1>5. CASE Broadcast
  BY <1>2, <1>5, PollOrder, PolledRevOrder, StreamOrder, StreamEndOrder, UnsubOrder DEF Broadcast
<1>6. CASE Close
  BY <1>2, <1>6, CloseOrder
<1>7. ASSUME NEW w \in Watches, BackendWatch(w) PROVE TypeOK' /\ OrderInv'
  BY <1>2, <1>7, WatchBeginsOrder, HistoryOrder, ForwardOrder, WatchQuiet DEF BackendWatch
<1>8. ASSUME NEW w \in Watches, ServerWatch(w) PROVE TypeOK' /\ OrderInv'
  BY <1>2, <1>8, ReceiveOrder, WatchQuiet DEF ServerWatch
<1>9. QED
  BY <1>3, <1>4, <1>5, <1>6, <1>7, <1>8 DEF Next

(***************************************************************************)
(* What a watch in its loop has queued is not below its start, so nothing  *)
(* of it is dropped; nor will be what passes the filter after it.          *)
(***************************************************************************)
StartedAs(m, res) == m.st = "loop" => m.start <= m.last + 1 /\ \A x \in res : m.start <= x

StartInv == \A w \in Watches : StartedAs(watch[w], Events(result[w]))

LEMMA OrderImpliesOnce ==
  ASSUME IndOrder
  PROVE  InOrderOnce
BY DEF IndOrder, OrderInv, Ordered, Asc, InOrderOnce

-----------------------------------------------------------------------------
(* The completeness of a watch under each kind of change. *)

(* The watch stays, leaves its loop, or is unsubscribed; the stream may close. *)
KeepsPromise(m, m2) ==
  /\ m2.last = m.last /\ m2.from = m.from /\ m2.failed = m.failed /\ m2.missed = m.missed
  /\ m2.st = "loop" => m.st = "loop"

LEMMA CompleteSame ==
  ASSUME NEW R, NEW m, NEW m2, NEW g, NEW res, NEW s, NEW it, NEW n, NEW pr, NEW pr2,
         NEW sb, NEW sb2, NEW op, NEW op2,
         CompleteAs(R, m, g, res, s, it, n, pr, sb, op),
         KeepsPromise(m, m2), sb2 => sb /\ pr2 = pr, op2 => op
  PROVE  CompleteAs(R, m2, g, res, s, it, n, pr2, sb2, op2)
<1>1. ASSUME Promise(Wanted(R, m.from, n), g, res, s, it, m.last, pr, sb)
      PROVE  Promise(Wanted(R, m.from, n), g, res, s, it, m.last, pr2, sb2)
  BY <1>1 DEF Promise
<1>2. QED
  BY <1>1 DEF CompleteAs, KeepsPromise

(* A watch that was left out of an item, or whose history has failed, owes nothing. *)
LEMMA CompleteBroken ==
  ASSUME NEW R, NEW m, NEW m2, NEW g, NEW res, NEW s, NEW it, NEW n, NEW pr, NEW sb, NEW op,
         NEW s2, NEW it2, CompleteAs(R, m, g, res, s, it, n, pr, sb, op),
         m2.last = m.last, m2.from = m.from, m2.missed \/ m2.failed
  PROVE  CompleteAs(R, m2, g, res, s2, it2, n, pr, sb, op)
BY DEF CompleteAs

LEMMA CompleteFresh ==
  ASSUME NEW R, NEW m, NEW s, NEW it, NEW n, NEW pr, NEW sb, NEW op,
         m.last <= n \/ m.last <= m.from, m.st # "loop" \/ m.failed
  PROVE  CompleteAs(R, m, {}, {}, s, it, n, pr, sb, op)
BY DEF CompleteAs, AtMost, Closed, Below

(* A new row is above everything that was sent, queued or polled. *)
LEMMA CompleteWrite ==
  ASSUME NEW R, NEW m, NEW g \in SUBSET Nat, NEW res \in SUBSET Nat, NEW s \in SUBSET Nat, NEW it,
         NEW n \in Nat, NEW pr \in Nat, NEW sb, NEW op,
         m.last \in Nat, m.from \in Nat, R \in SUBSET Nat,
         CompleteAs(R, m, g, res, s, it, n, pr, sb, op), AtMost(s, pr), pr <= n
  PROVE  CompleteAs(R, m, g, res, s, it, n + 1, pr, sb, op)
<1> DEFINE W == Wanted(R, m.from, n)
           V == Wanted(R, m.from, n + 1)
<1>1. \A r \in V : r \in W \/ (r = n + 1 /\ m.from < r)
  BY DEF Wanted
<1>2. \A x \in g \cup res : x <= n
  BY DEF CompleteAs, AtMost
<1>3. \A x \in s : x <= n
  BY DEF AtMost
<1>4. Below(g, {n + 1}) /\ Below(g \cup res \cup s, {n + 1})
  BY <1>2, <1>3 DEF Below
<1>5. AtMost(g \cup res, n + 1)
  BY <1>2 DEF AtMost
<1>6. m.last <= n + 1 \/ m.last <= m.from
  BY DEF CompleteAs
<1>7. pr < n + 1
  OBVIOUS
<1>8. ASSUME m.from < n + 1, n + 1 <= m.last PROVE FALSE
  BY <1>8 DEF CompleteAs
<1> HIDE DEF W, V
<1>9. ASSUME Closed(W, g) PROVE Closed(V, g)
  BY <1>1, <1>4, <1>9 DEF Closed
<1>10. ASSUME Promise(W, g, res, s, it, m.last, pr, sb)
       PROVE  Promise(V, g, res, s, it, m.last, pr, sb)
  <2>1. \A r \in V : r <= m.last => r \in g \cup res
    BY <1>1, <1>8, <1>10 DEF Promise
  <2>2. ASSUME NEW r \in V \ (g \cup res \cup s)
        PROVE  Below(g \cup res \cup s, {r}) /\ (sb => r \in it \/ pr < r)
    BY <1>1, <1>4, <1>7, <1>10 DEF Promise
  <2>3. QED
    BY <2>1, <2>2 DEF Promise
<1>11. QED
  BY <1>5, <1>6, <1>9, <1>10 DEF CompleteAs, W, V

LEMMA CompletePoll ==
  ASSUME NEW R, NEW m, NEW g, NEW res, NEW s, NEW n \in Nat, NEW pr \in Nat, NEW pr2 \in Nat,
         NEW sb, NEW op, R \in SUBSET Nat,
         CompleteAs(R, m, g, res, s, {}, n, pr, sb, op)
  PROVE  CompleteAs(R, m, g, res, s, (pr + 1) .. pr2, n, pr2, sb, op)
<1> DEFINE W == Wanted(R, m.from, n)
<1>1. \A r \in W : r \in Nat
  BY DEF Wanted
<1> HIDE DEF W
<1>2. \A r \in Nat : pr < r => r \in (pr + 1) .. pr2 \/ pr2 < r
  OBVIOUS
<1>3. ASSUME Promise(W, g, res, s, {}, m.last, pr, sb)
      PROVE  Promise(W, g, res, s, (pr + 1) .. pr2, m.last, pr2, sb)
  BY <1>1, <1>2, <1>3 DEF Promise
<1>4. QED
  BY <1>3 DEF CompleteAs, W

LEMMA CompleteStream ==
  ASSUME NEW R, NEW m, NEW g, NEW res, NEW s, NEW it \in SUBSET Nat, NEW n \in Nat, NEW pr \in Nat,
         NEW sb, NEW op, R \in SUBSET Nat,
         CompleteAs(R, m, g, res, s, it, n, pr, sb, op), AtMost(it, pr)
  PROVE  /\ sb => CompleteAs(R, m, g, res, s \cup it, {}, n, pr, sb, op)
         /\ ~sb => CompleteAs(R, m, g, res, s, {}, n, pr, sb, op)
<1> DEFINE W == Wanted(R, m.from, n)
<1>1. \A r \in W : r \in Nat
  BY DEF Wanted
<1> HIDE DEF W
<1>2. ASSUME Promise(W, g, res, s, it, m.last, pr, sb), sb
      PROVE  Promise(W, g, res, s \cup it, {}, m.last, pr, sb)
  <2>1. ASSUME NEW r \in W \ (g \cup res \cup (s \cup it))
        PROVE  Below(g \cup res \cup (s \cup it), {r}) /\ pr < r
    <3>1. Below(g \cup res \cup s, {r}) /\ pr < r
      BY <1>2 DEF Promise
    <3>2. \A x \in it : x < r
      BY <1>1, <3>1 DEF AtMost
    <3>3. QED
      BY <3>1, <3>2 DEF Below
  <2>2. QED
    BY <1>2, <2>1 DEF Promise
<1>3. ASSUME Promise(W, g, res, s, it, m.last, pr, sb), ~sb
      PROVE  Promise(W, g, res, s, {}, m.last, pr, sb)
  BY <1>3 DEF Promise
<1>4. QED
  BY <1>2, <1>3 DEF CompleteAs, W

LEMMA CompleteForward ==
  ASSUME NEW R, NEW m, NEW g, NEW res, NEW s, NEW s2, NEW H, NEW e, NEW it, NEW n \in Nat, NEW pr,
         NEW sb, NEW op,
         CompleteAs(R, m, g, res, s, it, n, pr, sb, op),
         s = H \cup s2, e \subseteq H, AtMost(H, n),
         \A x \in H : x \in R /\ ~(x <= m.last) => x \in e
  PROVE  CompleteAs(R, m, g, res \cup e, s2, it, n, pr, sb, op)
<1> DEFINE W == Wanted(R, m.from, n)
<1>1. W \subseteq R
  BY DEF Wanted
<1> HIDE DEF W
<1>2. AtMost(g \cup (res \cup e), n)
  BY DEF CompleteAs, AtMost
<1>3. ASSUME Promise(W, g, res, s, it, m.last, pr, sb)
      PROVE  Promise(W, g, res \cup e, s2, it, m.last, pr, sb)
  <2>1. \A r \in W : r <= m.last => r \in g \cup (res \cup e)
    BY <1>3 DEF Promise
  <2>2. ASSUME NEW r \in W \ (g \cup (res \cup e) \cup s2)
        PROVE  r \in W \ (g \cup res \cup s)
    BY <1>1, <2>1
  <2>3. g \cup (res \cup e) \cup s2 \subseteq g \cup res \cup s
    OBVIOUS
  <2>4. \A r : Below(g \cup res \cup s, {r}) => Below(g \cup (res \cup e) \cup s2, {r})
    BY <2>3 DEF Below
  <2>5. QED
    BY <1>3, <2>1, <2>2, <2>4 DEF Promise
<1>4. QED
  BY <1>2, <1>3 DEF CompleteAs, W

LEMMA CompleteHistory ==
  ASSUME NEW R, NEW m, NEW s, NEW it, NEW n \in Nat, NEW pr, NEW sb, NEW op, NEW K,
         AtMost(K, n), m.last <= n \/ m.last <= m.from, Wanted(R, m.from, n) \subseteq K
  PROVE  CompleteAs(R, m, {}, K, s, it, n, pr, sb, op)
<1>1. Closed(Wanted(R, m.from, n), {})
  BY DEF Closed, Below
<1>2. Promise(Wanted(R, m.from, n), {}, K, s, it, m.last, pr, sb)
  BY DEF Promise
<1>3. AtMost({} \cup K, n)
  BY DEF AtMost
<1>4. QED
  BY <1>1, <1>2, <1>3 DEF CompleteAs

LEMMA CompleteReceive ==
  ASSUME NEW R \in SUBSET Nat, NEW m, NEW g \in SUBSET Nat, NEW res \in SUBSET Nat, NEW s, NEW it,
         NEW n \in Nat, NEW pr, NEW sb, m.last \in Nat, m.st = "loop",
         CompleteAs(R, m, g, res, s, it, n, pr, sb, TRUE),
         \A y \in g \cup res : y <= m.last \/ Below({y}, s)
  PROVE  CompleteAs(R, m, g \cup res, {}, s, it, n, pr, sb, TRUE)
<1> DEFINE W == Wanted(R, m.from, n)
<1>1. \A r \in W : r \in Nat
  BY DEF Wanted
<1> HIDE DEF W
<1>2. AtMost((g \cup res) \cup {}, n)
  BY DEF CompleteAs, AtMost
<1>3. ASSUME Promise(W, g, res, s, it, m.last, pr, sb)
      PROVE  Closed(W, g \cup res) /\ Promise(W, g \cup res, {}, s, it, m.last, pr, sb)
  <2>1. ASSUME NEW r \in W, r \notin g \cup res PROVE Below(g \cup res, {r})
    <3>1. CASE r \notin s
      BY <1>3, <2>1, <3>1 DEF Promise, Below
    <3>2. CASE r \in s
      <4>1. SUFFICES ASSUME NEW y \in g \cup res PROVE y < r
        BY DEF Below
      <4>2. y \in Nat /\ r \in Nat
        BY <1>1
      <4>3. ~(r <= m.last)
        BY <1>3, <2>1 DEF Promise
      <4>4. y <= m.last \/ y < r
        BY <3>2 DEF Below
      <4>5. QED
        BY <4>2, <4>3, <4>4
    <3>3. QED
      BY <3>1, <3>2
  <2>2. Closed(W, g \cup res)
    BY <2>1 DEF Closed
  <2>3. Promise(W, g \cup res, {}, s, it, m.last, pr, sb)
    BY <1>3 DEF Promise
  <2>4. QED
    BY <2>2, <2>3
<1>4. QED
  BY <1>2, <1>3 DEF CompleteAs, W

(* A closed stream drops what it reads. *)
LEMMA CompleteDrop ==
  ASSUME NEW R, NEW m, NEW g, NEW res, NEW s, NEW it, NEW n, NEW pr, NEW sb,
         CompleteAs(R, m, g, res, s, it, n, pr, sb, FALSE)
  PROVE  CompleteAs(R, m, g, {}, s, it, n, pr, sb, FALSE)
BY DEF CompleteAs, AtMost

-----------------------------------------------------------------------------
(* The steps of the specification: nothing queued is below the start of its watch. *)

(* A watch that is in its loop was so before, with the same start and filter. *)
Steady(v, m) == m.st = "loop" => v.st = "loop" /\ m.start = v.start /\ m.last = v.last

LEMMA SteadyStarted ==
  ASSUME StartInv, NEW x \in Watches, Steady(watch[x], watch'[x]), result'[x] = result[x]
  PROVE  StartedAs(watch'[x], Events(result'[x]))
<1>1. PICK v, m : v = watch[x] /\ m = watch'[x]
  OBVIOUS
<1>2. StartedAs(v, Events(result[x])) /\ Steady(v, m)
  BY <1>1 DEF StartInv
<1>3. StartedAs(m, Events(result[x]))
  BY <1>2 DEF StartedAs, Steady
<1>4. QED
  BY <1>1, <1>3

LEMMA StartedFrom ==
  ASSUME StartInv, NEW w \in Watches, StartedAs(watch'[w], Events(result'[w])),
         \A x \in Watches : x # w => watch'[x] = watch[x] /\ result'[x] = result[x]
  PROVE  StartInv'
<1>1. ASSUME NEW x \in Watches, x # w PROVE StartedAs(watch'[x], Events(result'[x]))
  <2>1. Steady(watch[x], watch'[x]) /\ result'[x] = result[x]
    BY <1>1 DEF Steady
  <2>2. QED
    BY <2>1, SteadyStarted
<1>2. QED
  BY <1>1 DEF StartInv

LEMMA SteadySteps ==
  ASSUME IndOrder, StartInv,
         \/ UNCHANGED vars \/ Database \/ Broadcast \/ Close
         \/ \E w \in Watches :
              \/ WatchBegins(w) \/ HistoryCompacted(w) \/ ForwardEnds(w)
              \/ CreatedFails(w) \/ WatchEnds(w) \/ Cancel(w)
              \/ \E s \in Starts, p \in BOOLEAN : Create(w, s, p)
  PROVE  StartInv'
<1>1. watch \in [Watches -> WatchState]
  BY DEF IndOrder, TypeOK
<1>2. \A m : Steady(m, m)
  BY DEF Steady
<1>3. SUFFICES result' = result /\ \A x \in Watches : Steady(watch[x], watch'[x])
  BY SteadyStarted DEF StartInv
<1>4. CASE UNCHANGED vars \/ Database \/ Poll \/ PolledRev
  BY <1>2, <1>4 DEF vars, Database, Write, Compact, Poll, PolledRev
<1>5. \A m \in WatchState : /\ Steady(m, [m EXCEPT !.missed = TRUE])
                            /\ Steady(m, [m EXCEPT !.chan = "closed"])
                            /\ Steady(m, Removed(m))
  BY DEF Steady, WatchState, Removed
<1>6. CASE stream
  BY <1>1, <1>2, <1>5, <1>6 DEF stream
<1>7. CASE streamEnd
  BY <1>1, <1>2, <1>5, <1>7 DEF streamEnd
<1>8. CASE Close
  BY <1>1, <1>2, <1>5, <1>8 DEF Close
<1>9. ASSUME NEW w \in Watches, unsub(w)
      PROVE  result' = result /\ \A x \in Watches : Steady(watch[x], watch'[x])
  <2>1. watch' = [watch EXCEPT ![w] = [watch[w] EXCEPT !.chan = "closed"]] /\ result' = result
    BY <1>9 DEF unsub
  <2>2. QED
    BY <1>1, <1>2, <1>5, <2>1
<1>10. ASSUME NEW w \in Watches,
              \/ WatchBegins(w) \/ HistoryCompacted(w) \/ ForwardEnds(w)
              \/ CreatedFails(w) \/ WatchEnds(w) \/ Cancel(w)
              \/ \E s \in Starts, p \in BOOLEAN : Create(w, s, p)
       PROVE  result' = result /\ \A x \in Watches : Steady(watch[x], watch'[x])
  <2>1. PICK v \in WatchState : v = watch[w]
    BY <1>1
  <2>2. result' = result
    BY <1>10 DEF WatchBegins, HistoryCompacted, ForwardEnds, CreatedFails, WatchEnds, Cancel, Create
  <2>3. SUFFICES \E m : watch' = [watch EXCEPT ![w] = m] /\ Steady(v, m)
    <3>1. PICK m : watch' = [watch EXCEPT ![w] = m] /\ Steady(v, m)
      BY <2>3
    <3>2. \A x \in Watches : watch'[x] = watch[x] \/ (x = w /\ watch'[x] = m)
      BY <1>1, <3>1
    <3>3. QED
      BY <1>2, <2>1, <2>2, <3>1, <3>2
  <2>4. CASE WatchBegins(w)
    <3>1. PICK c \in {"open", "nil"} :
            watch' = [watch EXCEPT ![w] = [v EXCEPT !.st = "subscribed", !.chan = c]]
      BY <2>1, <2>4 DEF WatchBegins
    <3>2. Steady(v, [v EXCEPT !.st = "subscribed", !.chan = c])
      BY DEF Steady, WatchState
    <3>3. QED
      BY <3>1, <3>2
  <2>5. CASE HistoryCompacted(w)
    <3>1. watch' = [watch EXCEPT ![w] = [v EXCEPT !.st = "ended", !.fwd = "on", !.ctx = FALSE,
                                                  !.live = FALSE, !.progress = FALSE]]
      BY <2>1, <2>5 DEF HistoryCompacted
    <3>2. Steady(v, [v EXCEPT !.st = "ended", !.fwd = "on", !.ctx = FALSE, !.live = FALSE,
                              !.progress = FALSE])
      BY DEF Steady, WatchState
    <3>3. QED
      BY <3>1, <3>2
  <2>6. CASE ForwardEnds(w)
    <3>1. watch' = [watch EXCEPT ![w] = [v EXCEPT !.fwd = "done", !.ctx = FALSE]]
      BY <2>1, <2>6 DEF ForwardEnds
    <3>2. Steady(v, [v EXCEPT !.fwd = "done", !.ctx = FALSE])
      BY DEF Steady, WatchState
    <3>3. QED
      BY <3>1, <3>2
  <2>7. CASE CreatedFails(w) \/ WatchEnds(w)
    <3>1. watch' = [watch EXCEPT ![w] = [Removed(v) EXCEPT !.st = "ended"]]
      BY <2>1, <2>7 DEF CreatedFails, WatchEnds
    <3>2. Steady(v, [Removed(v) EXCEPT !.st = "ended"])
      BY DEF Steady, WatchState, Removed
    <3>3. QED
      BY <3>1, <3>2
  <2>8. CASE Cancel(w)
    <3>1. watch' = [watch EXCEPT ![w] = Removed(v)]
      BY <2>1, <2>8 DEF Cancel
    <3>2. QED
      BY <1>5, <3>1
  <2>9. ASSUME NEW s \in Starts, NEW p \in BOOLEAN, Create(w, s, p)
        PROVE  \E m : watch' = [watch EXCEPT ![w] = m] /\ Steady(v, m)
    <3>1. watch' = [watch EXCEPT ![w] = [NoWatch EXCEPT !.st = "created", !.start = s,
                                                        !.progress = p, !.live = TRUE]]
      BY <2>9 DEF Create
    <3>2. Steady(v, [NoWatch EXCEPT !.st = "created", !.start = s, !.progress = p, !.live = TRUE])
      BY DEF Steady, NoWatch
    <3>3. QED
      BY <3>1, <3>2
  <2>10. QED
    BY <1>10, <2>4, <2>5, <2>6, <2>7, <2>8, <2>9
<1>11. QED
  BY <1>3, <1>4, <1>6, <1>7, <1>8, <1>9, <1>10 DEF Broadcast

(* The history is not older than the start, and the filter begins no lower. *)
LEMMA AfterStart ==
  ASSUME IndOrder, NEW w \in Watches
  PROVE  /\ watch[w].start <= afterRevision(w) + 1
         /\ \A kvs \in After(w) : \A x \in kvs : x \in Nat /\ watch[w].start <= x
<1>1. PICK s \in Nat : s = watch[w].start
  BY AfterRevisionType, RevsAreNumbers DEF IndOrder
<1>2. afterRevision(w) = IF s > 1 THEN s - 1 ELSE s
  BY <1>1 DEF afterRevision
<1>3. PICK a \in Nat : a = afterRevision(w) /\ s <= a + 1
  BY <1>1, <1>2
<1>4. ASSUME NEW kvs \in After(w), NEW x \in kvs PROVE x \in Nat /\ s <= x
  <2>1. x \in Nat /\ x > a
    BY <1>3, <1>4, AfterSpec DEF After
  <2>2. QED
    BY <1>3, <2>1
<1>5. QED
  BY <1>1, <1>3, <1>4

LEMMA HistoryStarted ==
  ASSUME IndOrder, StartInv, NEW w \in Watches, History(w) \/ HistoryFails(w)
  PROVE  StartInv'
<1>1. TypeOK /\ OrderInv /\ watch \in [Watches -> WatchState]
  BY DEF IndOrder, TypeOK
<1>2. PICK v \in WatchState, s \in Nat, a \in Nat :
        v = watch[w] /\ s = v.start /\ a = afterRevision(w) /\ s <= a + 1
  BY <1>1, AfterStart, AfterRevisionType, RevsAreNumbers
<1>3. CASE HistoryFails(w)
  <2> DEFINE m == [v EXCEPT !.st = "loop", !.fwd = "on", !.ctx = FALSE, !.last = a,
                            !.from = promisedFrom(w), !.failed = TRUE]
  <2>1. m.start = s /\ m.last = a
    BY <1>2 DEF WatchState
  <2>2. watch' = [watch EXCEPT ![w] = m] /\ result' = result
    BY <1>2, <1>3 DEF HistoryFails
  <2> HIDE DEF m
  <2>3. Events(result[w]) = {}
    BY <1>1, <1>3, EmptyQueue DEF OrderInv, Fresh, HistoryFails, Unread
  <2>4. StartedAs(m, Events(result[w]))
    BY <1>2, <2>1, <2>3 DEF StartedAs
  <2>5. QED
    BY <1>1, <2>2, <2>4, StartedFrom
<1>4. CASE History(w)
  <2>1. PICK kvs \in After(w), m \in WatchState, q \in Seq(Seq(Revs)) : HistoryLeaves(w, kvs, m, q)
    BY <1>4, HistoryStep
  <2>2. /\ m.start = s /\ m.last = lastRevision(w, kvs)
        /\ watch' = [watch EXCEPT ![w] = m]
        /\ q = (IF kvs = {} THEN <<>> ELSE <<Sorted(kvs)>>)
        /\ result' = [result EXCEPT ![w] = q]
    BY <1>2, <2>1 DEF HistoryLeaves
  <2>3. /\ \A x \in kvs : x \in Nat /\ s <= x
        /\ kvs \in SUBSET Nat /\ IsFiniteSet(kvs) /\ AtMost(kvs, CurrentRevision)
    BY <1>2, AfterStart, AfterSpec
  <2>4. Events(q) = kvs
    <3>1. CASE kvs = {}
      BY <2>2, <3>1, EmptyQueue
    <3>2. CASE kvs # {}
      <4>1. Asc(Sorted(kvs)) /\ ToSet(Sorted(kvs)) = kvs
        BY <2>3, SortedSpec
      <4>2. Events(<<Sorted(kvs)>>) = kvs
        BY <4>1, OneItem
      <4>3. QED
        BY <2>2, <3>2, <4>2
    <3>3. QED
      BY <3>1, <3>2
  <2>5. s <= m.last + 1
    <3>1. PICK c \in Nat : c = CurrentRevision
      BY CurrentType
    <3>2. CASE kvs = {}
      BY <1>2, <2>2, <3>2 DEF lastRevision
    <3>3. CASE kvs # {}
      <4>1. PICK x \in kvs : s <= x /\ x <= c /\ x \in Nat
        BY <2>3, <3>1, <3>3 DEF AtMost
      <4>2. m.last = c
        BY <2>2, <3>1, <3>3 DEF lastRevision
      <4>3. QED
        BY <4>1, <4>2
    <3>4. QED
      BY <3>2, <3>3
  <2>6. StartedAs(m, Events(q))
    BY <2>2, <2>3, <2>4, <2>5 DEF StartedAs
  <2>7. watch'[w] = m /\ result'[w] = q
        /\ \A x \in Watches : x # w => watch'[x] = watch[x] /\ result'[x] = result[x]
    BY <1>1, <2>2 DEF TypeOK
  <2>8. QED
    BY <2>6, <2>7, StartedFrom
<1>5. QED
  BY <1>3, <1>4

LEMMA ForwardStarted ==
  ASSUME IndOrder, StartInv, NEW w \in Watches, Forward(w)
  PROVE  StartInv'
<1>1. TypeOK /\ OrderInv /\ sub[w] # <<>> /\ watch' = watch
  BY DEF IndOrder, Forward
<1>2. PICK q \in Seq(Seq(Revs)), t \in Seq(Seq(Revs)) : ForwardLeaves(w, q, t)
  BY ForwardStep
<1>3. result'[w] = q /\ \A x \in Watches : x # w => result'[x] = result[x]
  BY <1>1, <1>2 DEF TypeOK, ForwardLeaves
<1>4. watch[w].last \in Nat /\ watch[w].start \in Nat
  BY <1>1, Typed, AfterRevisionType, RevsAreNumbers
<1>5. \A x \in ToSet(Forwarded(w)) : watch[w].last < x /\ x \in Nat
  <2>1. Forwarded(w) \in Seq(Nat) /\ ToSet(Forwarded(w)) \subseteq Nat
    BY <1>1, ForwardedSpec, ElementsOfSeq
  <2>2. QED
    BY <1>1, <2>1, ForwardedSpec
<1>6. Events(Append(result[w], Forwarded(w))) = Events(result[w]) \cup ToSet(Forwarded(w))
  BY <1>1, AppendForwarded
<1>7. Events(q) \subseteq Events(result[w]) \cup ToSet(Forwarded(w))
  BY <1>2, <1>6 DEF ForwardLeaves
<1>8. StartedAs(watch[w], Events(q))
  <2>1. SUFFICES ASSUME watch[w].st = "loop"
                 PROVE  /\ watch[w].start <= watch[w].last + 1
                        /\ \A x \in Events(q) : watch[w].start <= x
    BY DEF StartedAs
  <2>2. /\ watch[w].start <= watch[w].last + 1
        /\ \A x \in Events(result[w]) : watch[w].start <= x
    BY <2>1 DEF StartInv, StartedAs
  <2>3. \A x \in ToSet(Forwarded(w)) : watch[w].start <= x
    BY <1>4, <1>5, <2>2
  <2>4. QED
    BY <1>7, <2>2, <2>3
<1>9. QED
  BY <1>1, <1>3, <1>8, StartedFrom

LEMMA ReceiveStarted ==
  ASSUME IndOrder, StartInv, NEW w \in Watches, Receive(w)
  PROVE  StartInv'
<1>1. TypeOK
  BY DEF IndOrder
<1>2. PICK e \in Seq(Revs), m \in WatchState : ReceiveLeaves(w, e, m)
  BY ReceiveStep
<1>3. /\ watch'[w] = m /\ result'[w] = <<>>
      /\ \A x \in Watches : x # w => watch'[x] = watch[x] /\ result'[x] = result[x]
  BY <1>1, <1>2 DEF TypeOK, ReceiveLeaves
<1>4. m.st = watch[w].st /\ m.start = watch[w].start /\ m.last = watch[w].last
  BY <1>2 DEF ReceiveLeaves
<1>5. StartedAs(m, {})
  BY <1>4 DEF StartInv, StartedAs
<1>6. QED
  BY <1>3, <1>5, EmptyQueue, StartedFrom

LEMMA NextStarted ==
  ASSUME IndOrder, StartInv, [Next]_vars
  PROVE  StartInv'
<1>1. CASE UNCHANGED vars \/ Database \/ Broadcast \/ Close
  BY <1>1, SteadySteps
<1>2. ASSUME NEW w \in Watches, BackendWatch(w) PROVE StartInv'
  BY <1>2, SteadySteps, HistoryStarted, ForwardStarted DEF BackendWatch
<1>3. ASSUME NEW w \in Watches, ServerWatch(w) PROVE StartInv'
  BY <1>3, SteadySteps, ReceiveStarted DEF ServerWatch
<1>4. QED
  BY <1>1, <1>2, <1>3 DEF Next

(* Nothing of what a watch has queued is dropped for its start. *)
LEMMA AllIsSent ==
  ASSUME IndOrder, StartInv, NEW w \in Watches, watch[w].st = "loop",
         NEW e \in Seq(Nat), ToSet(e) = Events(result[w])
  PROVE  Sends(w, e) \/ e = <<>>
<1>1. SUFFICES ASSUME e # <<>> PROVE Last(e) >= watch[w].start
  BY DEF Sends
<1>2. Len(e) \in Nat \ {0}
  BY <1>1, EmptySeq
<1>3. Last(e) \in ToSet(e) /\ Last(e) \in Nat
  BY <1>2 DEF Last, ToSet
<1>4. watch[w].start \in Nat
  BY AfterRevisionType, RevsAreNumbers DEF IndOrder
<1>5. watch[w].start <= Last(e)
  BY <1>3 DEF StartInv, StartedAs
<1>6. QED
  BY <1>3, <1>4, <1>5

-----------------------------------------------------------------------------
(* The steps of the specification: completeness. *)

IndGap == IndOrder /\ StartInv /\ GapInv

CompleteNext(w) ==
  CompleteAs(InRange[w], watch'[w], ToSet(got'[w]), Events(result'[w]), Events(sub'[w]),
             ToSet(item'), CurrentRevision, pollRev', w \in subs', ~closed')

LEMMA GapFrom ==
  ASSUME IndGap, rows' = rows, pollRev' <= CurrentRevision, running' => pollRev' # 0,
         pollRev' = 0 => subs' = {}, \A w \in Watches : CompleteNext(w)
  PROVE  GapInv'
<1>1. CurrentRevision' = CurrentRevision /\ rows = 1 .. CurrentRevision
  BY DEF CurrentRevision, IndGap, GapInv
<1>2. ASSUME NEW w \in Watches PROVE Complete(w)'
  BY <1>1 DEF CompleteNext, Complete
<1>3. QED
  BY <1>1, <1>2 DEF GapInv

LEMMA GapTyped ==
  ASSUME IndGap
  PROVE  /\ CurrentRevision \in Nat /\ CurrentRevision \in Revs /\ 1 <= CurrentRevision
         /\ pollRev \in Nat /\ TypeOK /\ OrderInv /\ IndOrder /\ rows = 1 .. CurrentRevision
         /\ StartInv
<1>1. IndOrder /\ GapInv /\ TypeOK /\ OrderInv /\ StartInv
  BY DEF IndGap, IndOrder
<1>2. CurrentRevision \in rows /\ CurrentRevision \in Revs /\ CurrentRevision \in Nat
  BY <1>1, CurrentType
<1>3. QED
  BY <1>1, <1>2, RevsAreNumbers DEF GapInv, TypeOK

LEMMA WatchTyped ==
  ASSUME IndGap, NEW w \in Watches
  PROVE  /\ ToSet(got[w]) \in SUBSET Nat /\ Events(result[w]) \in SUBSET Nat
         /\ Events(sub[w]) \in SUBSET Nat /\ ToSet(item) \in SUBSET Nat
         /\ InRange[w] \in SUBSET Nat /\ watch[w].last \in Nat /\ watch[w].from \in Nat
         /\ watch[w] \in WatchState
          /\ CompleteAs(InRange[w], watch[w], ToSet(got[w]), Events(result[w]), Events(sub[w]),
                       ToSet(item), CurrentRevision, pollRev, w \in subs, ~closed)
         /\ Ordered(got[w], result[w], sub[w], item, watch[w].last, pollRev) /\ Fresh(w)
<1>1. TypeOK /\ OrderInv /\ GapInv
  BY DEF IndGap, IndOrder
<1>2. watch[w] \in WatchState
  BY <1>1 DEF TypeOK
<1>3. watch[w].last \in Nat /\ watch[w].from \in Nat
  BY <1>2, RevsAreNumbers DEF WatchState
<1>4. InRange[w] \in SUBSET Nat
  BY WatchAssumption
<1>5. /\ ToSet(got[w]) \in SUBSET Nat /\ Events(result[w]) \in SUBSET Nat
      /\ Events(sub[w]) \in SUBSET Nat /\ ToSet(item) \in SUBSET Nat
  BY <1>1, Typed, RevsAreNumbers
<1>6. Complete(w) /\ Fresh(w) /\ Ordered(got[w], result[w], sub[w], item, watch[w].last, pollRev)
  BY <1>1 DEF GapInv, OrderInv
<1>7. QED
  BY <1>2, <1>3, <1>4, <1>5, <1>6 DEF Complete

(* A step that leaves the table, the poll loop and the queues alone. *)
Calm ==
  /\ UNCHANGED <<rows, pollRev, item, sub, result, got>>
  /\ running' => running
  /\ subs' \subseteq subs
  /\ closed => closed'
  /\ \A w \in Watches : KeepsPromise(watch[w], watch'[w])

LEMMA CalmGap ==
  ASSUME IndGap, Calm
  PROVE  GapInv'
<1>1. ASSUME NEW w \in Watches PROVE CompleteNext(w)
  <2> DEFINE sb == w \in subs
             op == ~closed
             sb2 == w \in subs'
             op2 == ~closed'
  <2>2. (sb2 => sb) /\ (op2 => op)
    BY DEF Calm
  <2>3. CompleteAs(InRange[w], watch[w], ToSet(got[w]), Events(result[w]), Events(sub[w]),
                   ToSet(item), CurrentRevision, pollRev, sb, op)
    BY WatchTyped
  <2> HIDE DEF sb, op, sb2, op2
  <2>4. PICK m2 : m2 = watch'[w] /\ KeepsPromise(watch[w], m2)
    BY DEF Calm
  <2>5. CompleteAs(InRange[w], m2, ToSet(got[w]), Events(result[w]), Events(sub[w]),
                   ToSet(item), CurrentRevision, pollRev, sb2, op2)
    BY <2>2, <2>3, <2>4, CompleteSame
  <2>6. QED
    BY <2>4, <2>5 DEF CompleteNext, Calm, sb2, op2
<1>2. pollRev' <= CurrentRevision /\ (running' => pollRev' # 0) /\ (pollRev' = 0 => subs' = {})
  BY DEF Calm, IndGap, GapInv
<1>3. QED
  BY <1>1, <1>2, GapFrom DEF Calm

LEMMA WriteGap ==
  ASSUME IndGap, LateCommit = FALSE, Write
  PROVE  GapInv'
<1>1. PICK n \in Nat : n = CurrentRevision /\ 1 <= n /\ rows = 1 .. n
  BY GapTyped
<1>2. PICK r \in (1 .. MaxRev) \ rows : r <= n + 1 /\ rows' = rows \cup {r}
  BY <1>1 DEF Write
<1>3. r = n + 1 /\ rows' = 1 .. (n + 1)
  BY <1>1, <1>2, RevsAreNumbers
<1>4. CurrentRevision' = n + 1
  <2>1. rows' \in SUBSET Revs /\ rows' # {}
    BY <1>1, <1>2, <1>3, RevsAreNumbers DEF Revs
  <2>2. PICK c \in Nat : c = Max(rows') /\ c \in rows' /\ \A x \in rows' : x <= c
    BY <2>1, Newest, RevsAreNumbers
  <2>3. c = n + 1
    BY <1>1, <1>3, <2>2
  <2>4. QED
    BY <2>2, <2>3 DEF CurrentRevision
<1>5. /\ UNCHANGED <<running, pollRev, item, subs, sub, result, watch, got, closed>>
      /\ pollRev \in Nat /\ pollRev <= n /\ (running => pollRev # 0) /\ (pollRev = 0 => subs = {})
  BY <1>1, GapTyped DEF Write, pollVars, subVars, client, IndGap, GapInv
<1>6. ASSUME NEW w \in Watches PROVE Complete(w)'
  <2>1. /\ ToSet(got[w]) \in SUBSET Nat /\ Events(result[w]) \in SUBSET Nat
        /\ Events(sub[w]) \in SUBSET Nat /\ InRange[w] \in SUBSET Nat
        /\ watch[w].last \in Nat /\ watch[w].from \in Nat
        /\ CompleteAs(InRange[w], watch[w], ToSet(got[w]), Events(result[w]), Events(sub[w]),
                      ToSet(item), n, pollRev, w \in subs, ~closed)
        /\ AtMost(Events(sub[w]), pollRev)
    BY <1>1, WatchTyped DEF Ordered
  <2>2. CompleteAs(InRange[w], watch[w], ToSet(got[w]), Events(result[w]), Events(sub[w]),
                   ToSet(item), n + 1, pollRev, w \in subs, ~closed)
    BY <1>5, <2>1, CompleteWrite
  <2>3. QED
    BY <1>4, <1>5, <2>2 DEF Complete
<1>7. pollRev' <= CurrentRevision'
  BY <1>4, <1>5
<1>8. QED
  BY <1>3, <1>4, <1>5, <1>6, <1>7 DEF GapInv

LEMMA PollGap ==
  ASSUME IndGap, Poll
  PROVE  GapInv'
<1>1. PICK n \in Nat : n = CurrentRevision /\ rows = 1 .. n
  BY GapTyped
<1>hand. /\ pollRev \in Nat /\ pollRev' \in Nat /\ pollRev < pollRev'
         /\ ToSet(item') = (pollRev + 1) .. pollRev' /\ ToSet(item') \subseteq rows
  BY PollItem, GapTyped, RevsAreNumbers
<1>2. PICK a \in Nat, b \in Nat :
        /\ a = pollRev /\ b = pollRev' /\ ToSet(item') = (a + 1) .. b /\ a < b
        /\ (a + 1) .. b \subseteq rows
  BY <1>hand
<1>3. b <= n /\ b # 0
  <2>1. b \in (a + 1) .. b
    BY <1>2
  <2>2. b \in rows
    BY <1>2, <2>1
  <2>3. QED
    BY <1>1, <2>2
<1>4. /\ UNCHANGED <<rows, running, subs, sub, result, watch, got, closed>> /\ item = <<>>
  BY DEF Poll, db, subVars, client
<1>5. ASSUME NEW w \in Watches PROVE CompleteNext(w)
  <2>1. /\ InRange[w] \in SUBSET Nat
        /\ CompleteAs(InRange[w], watch[w], ToSet(got[w]), Events(result[w]), Events(sub[w]),
                      {}, n, a, w \in subs, ~closed)
    BY <1>1, <1>2, <1>4, WatchTyped, EmptyQueue
  <2>2. CompleteAs(InRange[w], watch[w], ToSet(got[w]), Events(result[w]), Events(sub[w]),
                   (a + 1) .. b, n, b, w \in subs, ~closed)
    BY <2>1, CompletePoll
  <2>3. QED
    BY <1>1, <1>2, <1>4, <2>2 DEF CompleteNext
<1>6. QED
  BY <1>1, <1>2, <1>3, <1>4, <1>5, GapFrom

LEMMA StreamGap ==
  ASSUME IndGap, stream
  PROVE  GapInv'
<1> DEFINE slow == {w \in subs : Len(sub[w]) = Cap}
<1>1. /\ sub' = [w \in Watches |-> IF w \in subs \ slow THEN Append(sub[w], item) ELSE sub[w]]
      /\ watch' = [w \in Watches |-> IF w \in slow THEN [watch[w] EXCEPT !.missed = TRUE]
                                                   ELSE watch[w]]
      /\ item' = <<>> /\ item # <<>>
      /\ UNCHANGED <<rows, running, pollRev, subs, result, got, closed>>
  BY DEF stream, db, pollVars, client
<1>2. PICK n \in Nat : n = CurrentRevision
  BY GapTyped
<1>3. pollRev \in Nat /\ Asc(item) /\ AtMost(ToSet(item), pollRev) /\ ToSet(<<>>) = {}
  BY GapTyped, EmptyQueue DEF OrderInv
<1>4. ASSUME NEW w \in Watches PROVE CompleteNext(w)
  <2>1. /\ ToSet(item) \in SUBSET Nat /\ InRange[w] \in SUBSET Nat /\ watch[w] \in WatchState
        /\ CompleteAs(InRange[w], watch[w], ToSet(got[w]), Events(result[w]), Events(sub[w]),
                      ToSet(item), n, pollRev, w \in subs, ~closed)
    BY <1>2, WatchTyped
  <2>2. CASE w \in slow
    <3>1. PICK m, m2 : m = watch[w] /\ m2 = [m EXCEPT !.missed = TRUE] /\ m \in WatchState
      BY <2>1
    <3>2. m2.last = m.last /\ m2.from = m.from /\ m2.missed
      BY <3>1 DEF WatchState
    <3>3. CompleteAs(InRange[w], m2, ToSet(got[w]), Events(result[w]), Events(sub[w]),
                     {}, n, pollRev, w \in subs, ~closed)
      BY <2>1, <3>1, <3>2, CompleteBroken
    <3>4. watch'[w] = m2 /\ sub'[w] = sub[w]
      BY <1>1, <2>2, <3>1
    <3>5. QED
      BY <1>1, <1>2, <1>3, <3>3, <3>4 DEF CompleteNext
  <2>3. CASE w \in subs \ slow
    <3>1. CompleteAs(InRange[w], watch[w], ToSet(got[w]), Events(result[w]),
                     Events(sub[w]) \cup ToSet(item), {}, n, pollRev, w \in subs, ~closed)
      BY <1>3, <2>1, <2>3, CompleteStream
    <3>2. Events(Append(sub[w], item)) = Events(sub[w]) \cup ToSet(item)
      <4>1. /\ got[w] \in Seq(Nat) /\ result[w] \in Seq(Seq(Nat)) /\ sub[w] \in Seq(Seq(Nat))
            /\ item \in Seq(Nat) /\ watch[w].last \in Nat /\ pollRev \in Nat
        BY GapTyped, Typed, RevsAreNumbers
      <4>2. QED
        BY <1>1, <1>3, <4>1, OrderedStream, WatchTyped
    <3>3. watch'[w] = watch[w] /\ sub'[w] = Append(sub[w], item)
      BY <1>1, <2>3
    <3>4. QED
      BY <1>1, <1>2, <1>3, <3>1, <3>2, <3>3 DEF CompleteNext
  <2>4. CASE w \notin subs
    <3>1. CompleteAs(InRange[w], watch[w], ToSet(got[w]), Events(result[w]),
                     Events(sub[w]), {}, n, pollRev, w \in subs, ~closed)
      BY <1>3, <2>1, <2>4, CompleteStream
    <3>2. watch'[w] = watch[w] /\ sub'[w] = sub[w]
      BY <1>1, <2>4
    <3>3. QED
      BY <1>1, <1>2, <1>3, <3>1, <3>2 DEF CompleteNext
  <2>5. QED
    BY <2>2, <2>3, <2>4
<1>5. pollRev' <= CurrentRevision /\ (running' => pollRev' # 0) /\ (pollRev' = 0 => subs' = {})
  BY <1>1 DEF IndGap, GapInv
<1>6. QED
  BY <1>1, <1>4, <1>5, GapFrom

(* A step of one watch: the others keep what they have. *)
LEMMA OthersComplete ==
  ASSUME IndGap, NEW x \in Watches,
         watch'[x] = watch[x], got'[x] = got[x], result'[x] = result[x], sub'[x] = sub[x],
         item' = item, closed' = closed, x \in subs' => x \in subs /\ pollRev' = pollRev
  PROVE  CompleteNext(x)
<1> DEFINE sb == x \in subs
           op == ~closed
           sb2 == x \in subs'
<1>1. CompleteAs(InRange[x], watch[x], ToSet(got[x]), Events(result[x]), Events(sub[x]),
                 ToSet(item), CurrentRevision, pollRev, sb, op)
  BY WatchTyped
<1>2. PICK p : p = pollRev'
  OBVIOUS
<1>3. sb2 => sb /\ p = pollRev
  BY <1>2
<1> HIDE DEF sb, op, sb2
<1>4. KeepsPromise(watch[x], watch[x])
  BY DEF KeepsPromise
<1>5. CompleteAs(InRange[x], watch[x], ToSet(got[x]), Events(result[x]), Events(sub[x]),
                 ToSet(item), CurrentRevision, p, sb2, op)
  BY <1>1, <1>3, <1>4, CompleteSame
<1>6. QED
  BY <1>2, <1>5 DEF CompleteNext, sb2, op

(* The history has every event that the watch was promised. *)
LEMMA HistoryHasAll ==
  ASSUME IndGap, NEW w \in Watches, ~Compacted(w), NEW kvs \in After(w)
  PROVE  /\ Wanted(InRange[w], promisedFrom(w), CurrentRevision) \subseteq kvs
         /\ \/ lastRevision(w, kvs) <= CurrentRevision
            \/ lastRevision(w, kvs) <= promisedFrom(w)
<1>1. PICK n \in Nat : n = CurrentRevision /\ rows = 1 .. n
  BY GapTyped
<1>2. TypeOK /\ IndOrder
  BY DEF IndGap, IndOrder
<1>3. PICK s \in Nat, c \in Nat, a \in Nat :
        s = watch[w].start /\ c = compactRev /\ a = afterRevision(w)
  BY <1>2, AfterRevisionType, RevsAreNumbers DEF TypeOK
<1>4. a = IF s > 1 THEN s - 1 ELSE s
  BY <1>3 DEF afterRevision
<1>5. ~(a > 0 /\ a < c)
  BY <1>3 DEF Compacted
<1>6. PICK f \in Nat : f = promisedFrom(w)
  BY <1>2, AfterRevisionType, RevsAreNumbers
<1>7. f = IF s = 0 THEN c ELSE a
  BY <1>3, <1>6 DEF promisedFrom
<1>8. a <= f /\ c <= f
  BY <1>4, <1>5, <1>7
<1>9. ASSUME NEW r \in Wanted(InRange[w], f, n) PROVE r \in kvs
  <2>1. r \in InRange[w] /\ f < r /\ 1 <= r /\ r <= n /\ r \in Nat
    BY WatchAssumption DEF Wanted
  <2>2. r \in rows \cap InRange[w]
    BY <1>1, <2>1
  <2>3. r > a /\ ~(r <= c)
    BY <1>8, <2>1
  <2>4. QED
    BY <1>2, <1>3, <2>2, <2>3, AfterSpec
<1>10. lastRevision(w, kvs) \in {a, n}
  BY <1>1, <1>3 DEF lastRevision
<1>11. lastRevision(w, kvs) <= n \/ lastRevision(w, kvs) <= f
  BY <1>8, <1>10
<1>12. QED
  BY <1>1, <1>6, <1>9, <1>11

LEMMA HistoryGap ==
  ASSUME IndGap, NEW w \in Watches, History(w)
  PROVE  GapInv'
<1>1. TypeOK /\ OrderInv /\ IndOrder
  BY GapTyped
<1>2. PICK n \in Nat : n = CurrentRevision
  BY GapTyped
<1>3. PICK kvs \in After(w), m \in WatchState, q \in Seq(Seq(Revs)) : HistoryLeaves(w, kvs, m, q)
  BY <1>1, HistoryStep
<1>4. /\ watch' = [watch EXCEPT ![w] = m] /\ result' = [result EXCEPT ![w] = q]
      /\ m.st = "loop" /\ m.last = lastRevision(w, kvs) /\ m.from = promisedFrom(w)
      /\ q = (IF kvs = {} THEN <<>> ELSE <<Sorted(kvs)>>)
  BY <1>3 DEF HistoryLeaves
<1>5. /\ watch'[w] = m /\ result'[w] = q
      /\ \A x \in Watches : x # w => watch'[x] = watch[x] /\ result'[x] = result[x]
  BY <1>1, <1>4 DEF TypeOK
<1>6. UNCHANGED <<rows, running, pollRev, item, subs, sub, got, closed>>
  BY DEF History, db, pollVars, subVars, client
<1>7. Events(q) = kvs /\ AtMost(kvs, n)
  <2>1. kvs \in SUBSET Nat /\ IsFiniteSet(kvs) /\ AtMost(kvs, n)
    BY <1>1, <1>2, AfterSpec
  <2>2. CASE kvs = {}
    BY <1>4, <2>1, <2>2, EmptyQueue
  <2>3. CASE kvs # {}
    <3>1. Asc(Sorted(kvs)) /\ ToSet(Sorted(kvs)) = kvs
      BY <2>1, SortedSpec
    <3>2. Events(<<Sorted(kvs)>>) = kvs
      BY <3>1, OneItem
    <3>3. QED
      BY <1>4, <2>1, <2>3, <3>2
  <2>4. QED
    BY <2>2, <2>3
<1>8. /\ Wanted(InRange[w], m.from, n) \subseteq kvs
      /\ m.last <= n \/ m.last <= m.from
  BY <1>2, <1>4, HistoryHasAll DEF History
<1>9. ToSet(got[w]) = {}
  BY <1>1, EmptyQueue DEF OrderInv, Fresh, History, Unread
<1>10. CompleteAs(InRange[w], m, {}, kvs, Events(sub[w]), ToSet(item), n, pollRev, w \in subs,
                  ~closed)
  BY <1>7, <1>8, CompleteHistory
<1>11. ASSUME NEW x \in Watches PROVE CompleteNext(x)
  <2>1. CASE x = w
    BY <1>2, <1>5, <1>6, <1>7, <1>9, <1>10, <2>1 DEF CompleteNext
  <2>2. CASE x # w
    BY <1>5, <1>6, <2>2, OthersComplete
  <2>3. QED
    BY <2>1, <2>2
<1>12. pollRev' <= CurrentRevision /\ (running' => pollRev' # 0) /\ (pollRev' = 0 => subs' = {})
  BY <1>6 DEF IndGap, GapInv
<1>13. QED
  BY <1>6, <1>11, <1>12, GapFrom

LEMMA ForwardGap ==
  ASSUME IndGap, NEW w \in Watches, Forward(w)
  PROVE  GapInv'
<1>1. TypeOK /\ OrderInv /\ IndOrder
  BY GapTyped
<1>2. PICK n \in Nat : n = CurrentRevision /\ pollRev \in Nat /\ pollRev <= n
  BY GapTyped DEF IndGap, GapInv
<1>3. PICK q \in Seq(Seq(Revs)), t \in Seq(Seq(Revs)) : ForwardLeaves(w, q, t)
  BY <1>1, ForwardStep
<1>4. /\ sub'[w] = t /\ result'[w] = q
      /\ \A x \in Watches : x # w => result'[x] = result[x] /\ sub'[x] = sub[x]
  BY <1>1, <1>3 DEF TypeOK, ForwardLeaves
<1>5. UNCHANGED <<rows, running, pollRev, item, subs, watch, got, closed>> /\ sub[w] # <<>>
  BY DEF Forward, db, pollVars, client
<1>6. /\ Forwarded(w) \in Seq(Nat) /\ Asc(Forwarded(w))
      /\ ToSet(Forwarded(w)) \subseteq ToSet(Head(sub[w]))
      /\ \A x \in ToSet(Forwarded(w)) : watch[w].last < x
  BY <1>1, <1>5, ForwardedSpec
<1>pass. \A x \in ToSet(Head(sub[w])) :
           x \in InRange[w] /\ ~(x <= watch[w].last) => x \in ToSet(Forwarded(w))
  BY <1>1, <1>5, ForwardedSpec
<1>7. /\ got[w] \in Seq(Nat) /\ ToSet(got[w]) \subseteq Nat
      /\ result[w] \in Seq(Seq(Nat)) /\ Events(result[w]) \subseteq Nat
      /\ sub[w] \in Seq(Seq(Nat)) /\ Events(sub[w]) \subseteq Nat
      /\ item \in Seq(Nat) /\ watch[w].last \in Nat /\ pollRev \in Nat
      /\ Ordered(got[w], result[w], sub[w], item, watch[w].last, pollRev)
  BY <1>1, Typed, RevsAreNumbers DEF OrderInv
<1>8. Events(q) = Events(result[w]) \cup ToSet(Forwarded(w))
  <2>1. CASE OutOfRange(w)
    <3>1. ToSet(Forwarded(w)) = {}
      BY <1>1, <1>5, <2>1, ForwardedSpec DEF OutOfRange, filterRange
    <3>2. QED
      BY <1>3, <2>1, <3>1 DEF ForwardLeaves
  <2>2. CASE ~OutOfRange(w)
    <3>1. q = Append(result[w], Forwarded(w))
      BY <1>3, <2>2 DEF ForwardLeaves
    <3>2. Events(Append(result[w], Forwarded(w))) = Events(result[w]) \cup ToSet(Forwarded(w))
      BY <1>1, <1>5, AppendForwarded
    <3>3. QED
      BY <3>1, <3>2
  <2>3. QED
    BY <2>1, <2>2
<1>9. Events(sub[w]) = ToSet(Head(sub[w])) \cup Events(t)
  <2>1. t = Tail(sub[w])
    BY <1>3 DEF ForwardLeaves
  <2>2. QED
    BY <1>5, <1>7, <2>1, TailQueue DEF Ordered
<1>10. AtMost(ToSet(Head(sub[w])), n)
  <2>1. \A x \in ToSet(Head(sub[w])) : x \in Nat /\ x <= pollRev
    BY <1>7, <1>9 DEF Ordered, AtMost
  <2>2. QED
    BY <1>2, <2>1 DEF AtMost
<1>11. CompleteAs(InRange[w], watch[w], ToSet(got[w]), Events(result[w]), Events(sub[w]),
                  ToSet(item), n, pollRev, w \in subs, ~closed)
  BY <1>2, WatchTyped
<1>12. CompleteAs(InRange[w], watch[w], ToSet(got[w]), Events(q), Events(t), ToSet(item), n,
                  pollRev, w \in subs, ~closed)
  <2> DEFINE H == ToSet(Head(sub[w]))
             s == Events(sub[w])
             e == ToSet(Forwarded(w))
             sb == w \in subs
             op == ~closed
             m == watch[w]
  <2>1. s = H \cup Events(t) /\ e \subseteq H /\ AtMost(H, n)
    BY <1>6, <1>9, <1>10
  <2>2. \A x \in H : x \in InRange[w] /\ ~(x <= m.last) => x \in e
    BY <1>pass
  <2>3. CompleteAs(InRange[w], m, ToSet(got[w]), Events(result[w]), s, ToSet(item), n, pollRev,
                   sb, op)
    BY <1>11
  <2> HIDE DEF H, s, e, sb, op, m
  <2>4. CompleteAs(InRange[w], m, ToSet(got[w]), Events(result[w]) \cup e, Events(t), ToSet(item),
                   n, pollRev, sb, op)
    BY <2>1, <2>2, <2>3, CompleteForward
  <2>5. QED
    BY <1>8, <2>4 DEF e, sb, op, m
<1>13. ASSUME NEW x \in Watches PROVE CompleteNext(x)
  <2>1. CASE x = w
    BY <1>2, <1>4, <1>5, <1>12, <2>1 DEF CompleteNext
  <2>2. CASE x # w
    BY <1>4, <1>5, <2>2, OthersComplete
  <2>3. QED
    BY <2>1, <2>2
<1>14. pollRev' <= CurrentRevision /\ (running' => pollRev' # 0) /\ (pollRev' = 0 => subs' = {})
  BY <1>5 DEF IndGap, GapInv
<1>15. QED
  BY <1>5, <1>13, <1>14, GapFrom

LEMMA ReceiveGap ==
  ASSUME IndGap, NEW w \in Watches, Receive(w)
  PROVE  GapInv'
<1>1. TypeOK /\ OrderInv /\ IndOrder
  BY GapTyped
<1>2. PICK n \in Nat : n = CurrentRevision
  BY GapTyped
<1>3. PICK e \in Seq(Revs), m \in WatchState : ReceiveLeaves(w, e, m)
  BY <1>1, ReceiveStep
<1>4. /\ watch'[w] = m /\ result'[w] = <<>>
      /\ \A x \in Watches : x # w => watch'[x] = watch[x] /\ result'[x] = result[x]
  BY <1>1, <1>3 DEF TypeOK, ReceiveLeaves
<1>5. /\ closed => got' = got
      /\ ~closed /\ Sends(w, e) => got'[w] = got[w] \o e
      /\ ~Sends(w, e) => got'[w] = got[w]
      /\ \A x \in Watches : x # w => got'[x] = got[x]
  BY <1>1, <1>3 DEF TypeOK, ReceiveLeaves
<1>6. UNCHANGED <<rows, running, pollRev, item, subs, sub, closed>>
  BY DEF Receive, db, pollVars, subVars
<1>7. /\ KeepsPromise(watch[w], m) /\ m.st = "loop" /\ m.last = watch[w].last
  BY <1>3 DEF ReceiveLeaves, KeepsPromise, Receive
<1>8. /\ ToSet(got[w]) \in SUBSET Nat /\ Events(result[w]) \in SUBSET Nat
      /\ InRange[w] \in SUBSET Nat /\ watch[w].last \in Nat
      /\ CompleteAs(InRange[w], watch[w], ToSet(got[w]), Events(result[w]), Events(sub[w]),
                    ToSet(item), n, pollRev, w \in subs, ~closed)
      /\ \A y \in ToSet(got[w]) \cup Events(result[w]) :
           y <= watch[w].last \/ Below({y}, Events(sub[w]) \cup ToSet(item))
  BY <1>2, WatchTyped DEF Ordered
<1>9. CompleteAs(InRange[w], m, ToSet(got[w]), Events(result[w]), Events(sub[w]),
                 ToSet(item), n, pollRev, w \in subs, ~closed)
  BY <1>7, <1>8, CompleteSame
<1>10. \A y \in ToSet(got[w]) \cup Events(result[w]) : y <= m.last \/ Below({y}, Events(sub[w]))
  BY <1>7, <1>8 DEF Below
<1>11. Events(<<>>) = {}
  BY EmptyQueue
<1>12. CASE ~closed
  <2>1. ToSet(got'[w]) = ToSet(got[w]) \cup Events(result[w])
    <3>1. /\ got[w] \in Seq(Nat) /\ result[w] \in Seq(Seq(Nat))
          /\ Ordered(got[w], result[w], sub[w], item, watch[w].last, pollRev)
          /\ result[w] # <<>> /\ e = FlattenSeq(result[w])
      BY <1>1, <1>3, Typed DEF OrderInv, Receive, ReceiveLeaves
    <3>2. /\ e \in Seq(Nat) /\ ToSet(e) = Events(result[w])
          /\ ToSet(got[w] \o e) = ToSet(got[w]) \cup Events(result[w])
      BY <3>1, OrderedReceive
    <3>3. Sends(w, e) \/ e = <<>>
      BY <1>1, <3>2, AllIsSent, GapTyped DEF Receive
    <3>4. CASE Sends(w, e)
      BY <1>5, <1>12, <3>2, <3>4
    <3>5. CASE ~Sends(w, e)
      <4>1. Events(result[w]) = {}
        BY <3>2, <3>3, <3>5, EmptyQueue
      <4>2. QED
        BY <1>5, <3>5, <4>1
    <3>6. QED
      BY <3>4, <3>5
  <2>2. CompleteAs(InRange[w], m, ToSet(got[w]), Events(result[w]), Events(sub[w]),
                   ToSet(item), n, pollRev, w \in subs, TRUE)
    BY <1>9, <1>12
  <2>3. CompleteAs(InRange[w], m, ToSet(got[w]) \cup Events(result[w]), {}, Events(sub[w]),
                   ToSet(item), n, pollRev, w \in subs, TRUE)
    BY <1>7, <1>8, <1>10, <2>2, CompleteReceive
  <2>4. CompleteNext(w)
    BY <1>2, <1>4, <1>6, <1>11, <1>12, <2>1, <2>3 DEF CompleteNext
  <2>5. QED
    BY <1>4, <1>5, <1>6, <2>4, OthersComplete, GapFrom DEF IndGap, GapInv
<1>13. CASE closed
  <2>1. CompleteAs(InRange[w], m, ToSet(got[w]), Events(result[w]), Events(sub[w]),
                   ToSet(item), n, pollRev, w \in subs, FALSE)
    BY <1>9, <1>13
  <2>2. CompleteAs(InRange[w], m, ToSet(got[w]), {}, Events(sub[w]),
                   ToSet(item), n, pollRev, w \in subs, FALSE)
    BY <2>1, CompleteDrop
  <2>3. CompleteNext(w)
    BY <1>2, <1>4, <1>5, <1>6, <1>11, <1>13, <2>2 DEF CompleteNext
  <2>4. QED
    BY <1>4, <1>5, <1>6, <2>3, OthersComplete, GapFrom DEF IndGap, GapInv
<1>14. QED
  BY <1>12, <1>13

(* A watch before its history is read changes its record. *)
LEMMA UnreadGap ==
  ASSUME IndGap, NEW w \in Watches, NEW m \in WatchState,
         watch' = [watch EXCEPT ![w] = m], watch[w].st \in Unread,
         m.last <= CurrentRevision \/ m.last <= m.from, m.st # "loop" \/ m.failed,
         UNCHANGED <<rows, item, sub, result, got, closed>>,
         pollRev' <= CurrentRevision, running' => pollRev' # 0, pollRev' = 0 => subs' = {},
         \A x \in Watches \ {w} : x \in subs' => x \in subs /\ pollRev' = pollRev
  PROVE  GapInv'
<1>1. TypeOK /\ OrderInv
  BY GapTyped
<1>2. /\ watch'[w] = m
      /\ \A x \in Watches : x # w => watch'[x] = watch[x]
  BY <1>1 DEF TypeOK
<1>3. ToSet(got[w]) = {} /\ Events(result[w]) = {}
  BY <1>1, EmptyQueue DEF OrderInv, Fresh
<1>4. \A p, sb, op : CompleteAs(InRange[w], m, {}, {}, Events(sub[w]), ToSet(item),
                                CurrentRevision, p, sb, op)
  BY CompleteFresh
<1>5. CompleteNext(w)
  BY <1>2, <1>3, <1>4 DEF CompleteNext
<1>6. ASSUME NEW x \in Watches, x # w PROVE CompleteNext(x)
  BY <1>2, <1>6, OthersComplete
<1>7. QED
  BY <1>5, <1>6, GapFrom

LEMMA WatchBeginsGap ==
  ASSUME IndGap, NEW w \in Watches, WatchBegins(w)
  PROVE  GapInv'
<1>1. TypeOK /\ GapInv /\ watch[w] \in WatchState
  BY GapTyped, WatchTyped DEF IndGap
<1>2. PICK v \in WatchState : v = watch[w]
  BY <1>1
<1>3. v.st \in Unread /\ UNCHANGED <<rows, item, sub, result, got, closed>>
  BY <1>2 DEF WatchBegins, Unread, db, client
<1>4. PICK c \in {"open", "nil"} :
        watch' = [watch EXCEPT ![w] = [v EXCEPT !.st = "subscribed", !.chan = c]]
  BY <1>2 DEF WatchBegins
<1>5. PICK m \in WatchState : /\ watch' = [watch EXCEPT ![w] = m] /\ m.st # "loop"
                              /\ m.last = v.last /\ m.from = v.from
  <2>1. LET m == [v EXCEPT !.st = "subscribed", !.chan = c] IN
          m \in WatchState /\ m.st # "loop" /\ m.last = v.last /\ m.from = v.from
    BY DEF WatchState
  <2>2. QED
    BY <1>4, <2>1
<1>6. m.last <= CurrentRevision \/ m.last <= m.from
  BY <1>1, <1>2, <1>5 DEF GapInv, Complete, CompleteAs
<1>7. PICK n \in Nat : n = CurrentRevision /\ 1 <= n
  BY GapTyped
<1>8. /\ pollRev' <= n /\ (running' => pollRev' # 0) /\ (pollRev' = 0 => subs' = {})
      /\ \A x \in Watches \ {w} : x \in subs' => x \in subs /\ pollRev' = pollRev
  <2>1. pollRev <= n /\ (running => pollRev # 0) /\ (pollRev = 0 => subs = {})
    BY <1>1, <1>7 DEF GapInv
  <2>2. CASE start /\ subs' = subs \cup {w}
    <3>1. pollRev = 0 /\ pollRev' = n
      BY <1>7, <2>2 DEF start
    <3>2. subs' = {w}
      BY <2>1, <2>2, <3>1
    <3>3. pollRev' <= n /\ pollRev' # 0
      BY <1>7, <3>1
    <3>4. QED
      BY <3>2, <3>3
  <2>3. CASE running /\ UNCHANGED <<running, pollRev>> /\ subs' = subs \cup {w}
    BY <2>1, <2>3
  <2>4. CASE UNCHANGED <<running, pollRev, subs>>
    BY <2>1, <2>4
  <2>5. QED
    BY <2>2, <2>3, <2>4 DEF WatchBegins, Subscribe
<1>9. QED
  BY <1>2, <1>3, <1>5, <1>6, <1>7, <1>8, UnreadGap

LEMMA UnreadSteps ==
  ASSUME IndGap, NEW w \in Watches,
         \/ HistoryCompacted(w) \/ HistoryFails(w)
         \/ \E s \in Starts, p \in BOOLEAN : Create(w, s, p)
  PROVE  GapInv'
<1>1. TypeOK /\ GapInv /\ watch[w] \in WatchState
  BY GapTyped, WatchTyped DEF IndGap
<1>2. PICK v \in WatchState : v = watch[w]
  BY <1>1
<1>3. /\ v.st \in Unread
      /\ UNCHANGED <<rows, running, pollRev, item, subs, sub, result, got, closed>>
  BY <1>2 DEF HistoryCompacted, HistoryFails, Create, Unread, db, pollVars, subVars, client
<1>4. PICK n \in Nat : n = CurrentRevision
  BY GapTyped
<1>5. SUFFICES \E m \in WatchState : /\ watch' = [watch EXCEPT ![w] = m]
                                     /\ m.last <= n \/ m.last <= m.from
                                     /\ m.st # "loop" \/ m.failed
  <2>1. PICK m \in WatchState : /\ watch' = [watch EXCEPT ![w] = m]
                                /\ m.last <= n \/ m.last <= m.from
                                /\ m.st # "loop" \/ m.failed
    BY <1>5
  <2>2. pollRev' <= CurrentRevision /\ (running' => pollRev' # 0) /\ (pollRev' = 0 => subs' = {})
    BY <1>1, <1>3 DEF GapInv
  <2>3. QED
    BY <1>2, <1>3, <1>4, <2>1, <2>2, UnreadGap
<1>6. CASE HistoryCompacted(w)
  <2> DEFINE m == [v EXCEPT !.st = "ended", !.fwd = "on", !.ctx = FALSE, !.live = FALSE,
                            !.progress = FALSE]
  <2>1. m \in WatchState /\ m.last = v.last /\ m.from = v.from /\ m.st # "loop"
    BY DEF WatchState
  <2>2. watch' = [watch EXCEPT ![w] = m]
    BY <1>2, <1>6 DEF HistoryCompacted
  <2> HIDE DEF m
  <2>3. v.last <= n \/ v.last <= v.from
    BY <1>1, <1>2, <1>4 DEF GapInv, Complete, CompleteAs
  <2>4. QED
    BY <2>1, <2>2, <2>3
<1>7. CASE HistoryFails(w)
  <2>1. PICK a \in Revs, f \in Revs : a = afterRevision(w) /\ f = promisedFrom(w) /\ a <= f
    <3>1. PICK s \in Nat, c \in Nat : s = watch[w].start /\ c = compactRev
      BY <1>1, AfterRevisionType, RevsAreNumbers DEF TypeOK
    <3>2. afterRevision(w) = IF s > 1 THEN s - 1 ELSE s
      BY <3>1 DEF afterRevision
    <3>3. promisedFrom(w) = IF s = 0 THEN c ELSE afterRevision(w)
      BY <3>1 DEF promisedFrom
    <3>4. afterRevision(w) <= promisedFrom(w)
      BY <3>1, <3>2, <3>3
    <3>5. QED
      BY <1>1, <3>4, AfterRevisionType
  <2> DEFINE m == [v EXCEPT !.st = "loop", !.fwd = "on", !.ctx = FALSE,
                            !.last = a, !.from = f, !.failed = TRUE]
  <2>2. m \in WatchState /\ m.last = a /\ m.from = f /\ m.failed
    BY DEF WatchState
  <2>3. watch' = [watch EXCEPT ![w] = m]
    BY <1>2, <1>7, <2>1 DEF HistoryFails
  <2> HIDE DEF m
  <2>4. QED
    BY <2>1, <2>2, <2>3
<1>8. ASSUME NEW s \in Starts, NEW p \in BOOLEAN, Create(w, s, p)
      PROVE  \E m \in WatchState : /\ watch' = [watch EXCEPT ![w] = m]
                                   /\ m.last <= n \/ m.last <= m.from
                                   /\ m.st # "loop" \/ m.failed
  <2> DEFINE m == [NoWatch EXCEPT !.st = "created", !.start = s, !.progress = p, !.live = TRUE]
  <2>1. s \in Revs
    BY WatchAssumption DEF Revs
  <2>2. m \in WatchState /\ m.last = 0 /\ m.from = 0 /\ m.st # "loop"
    BY <2>1, RevsAreNumbers DEF WatchState, NoWatch
  <2>3. watch' = [watch EXCEPT ![w] = m]
    BY <1>8 DEF Create
  <2> HIDE DEF m
  <2>4. m.last <= m.from
    BY <2>2
  <2>5. QED
    BY <2>2, <2>3, <2>4
<1>9. QED
  BY <1>6, <1>7, <1>8

(* The steps that are calm. *)
LEMMA CalmBroadcast ==
  ASSUME IndGap,
         \/ Compact \/ PolledRev \/ streamEnd \/ Close \/ \E w \in Watches : unsub(w)
  PROVE  Calm
<1>1. \A m : KeepsPromise(m, m)
  BY DEF KeepsPromise
<1>2. watch \in [Watches -> WatchState]
  BY GapTyped DEF TypeOK
<1>3. CASE Compact \/ PolledRev
  <2>1. watch' = watch
    BY <1>3 DEF Compact, PolledRev
  <2>2. QED
    BY <1>1, <1>3, <2>1 DEF Calm, Compact, PolledRev, db, pollVars, subVars, client
<1>4. \A m \in WatchState : KeepsPromise(m, [m EXCEPT !.chan = "closed"])
  BY DEF KeepsPromise, WatchState
<1>5. CASE streamEnd
  <2>1. \A w \in Watches : KeepsPromise(watch[w], watch'[w])
    BY <1>1, <1>2, <1>4, <1>5 DEF streamEnd
  <2>2. QED
    BY <1>5, <2>1 DEF Calm, streamEnd, db, client
<1>6. \A m \in WatchState : KeepsPromise(m, Removed(m))
  BY DEF KeepsPromise, WatchState, Removed
<1>7. CASE Close
  <2>1. \A w \in Watches : KeepsPromise(watch[w], watch'[w])
    BY <1>1, <1>2, <1>6, <1>7 DEF Close
  <2>2. QED
    BY <1>7, <2>1 DEF Calm, Close, db, pollVars, subVars, client
<1>8. ASSUME NEW w \in Watches, unsub(w) PROVE Calm
  <2>1. watch' = [watch EXCEPT ![w] = [watch[w] EXCEPT !.chan = "closed"]]
    BY <1>8 DEF unsub
  <2>2. \A x \in Watches : KeepsPromise(watch[x], watch'[x])
    BY <1>1, <1>2, <1>4, <2>1
  <2>3. QED
    BY <1>8, <2>2 DEF Calm, unsub, db, pollVars, client
<1>9. QED
  BY <1>3, <1>5, <1>7, <1>8

LEMMA CalmWatch ==
  ASSUME IndGap, NEW w \in Watches,
         ForwardEnds(w) \/ CreatedFails(w) \/ WatchEnds(w) \/ Cancel(w)
  PROVE  Calm
<1>1. \A m : KeepsPromise(m, m)
  BY DEF KeepsPromise
<1>2. watch \in [Watches -> WatchState]
  BY GapTyped DEF TypeOK
<1>3. PICK v \in WatchState : v = watch[w]
  BY <1>2
<1>4. /\ KeepsPromise(v, [v EXCEPT !.fwd = "done", !.ctx = FALSE])
      /\ KeepsPromise(v, Removed(v))
      /\ KeepsPromise(v, [Removed(v) EXCEPT !.st = "ended"])
  BY DEF KeepsPromise, WatchState, Removed
<1>5. watch'[w] \in {[v EXCEPT !.fwd = "done", !.ctx = FALSE], Removed(v),
                     [Removed(v) EXCEPT !.st = "ended"]}
      /\ \A x \in Watches : x # w => watch'[x] = watch[x]
  BY <1>2, <1>3 DEF ForwardEnds, CreatedFails, WatchEnds, Cancel
<1>6. \A x \in Watches : KeepsPromise(watch[x], watch'[x])
  BY <1>1, <1>3, <1>4, <1>5
<1>7. QED
  BY <1>6 DEF Calm, ForwardEnds, CreatedFails, WatchEnds, Cancel, db, pollVars, subVars, client

-----------------------------------------------------------------------------
(* Completeness. *)

LEMMA InitGap ==
  ASSUME Init
  PROVE  IndGap
<1>1. TypeOK /\ OrderInv
  BY InitOrder
<1>2. CurrentRevision = 1 /\ rows = {1}
  BY <1>1, Newest DEF CurrentRevision, Init, TypeOK, OrderInv
<1>3. rows = 1 .. CurrentRevision
  BY <1>2
<1>4. ASSUME NEW w \in Watches PROVE Complete(w)
  <2>1. watch[w] = NoWatch /\ got[w] = <<>> /\ result[w] = <<>>
    BY DEF Init
  <2>2. NoWatch.last = 0 /\ NoWatch.from = 0 /\ NoWatch.st # "loop"
    BY DEF NoWatch
  <2>3. PICK m : m = NoWatch
    OBVIOUS
  <2>4. m.last <= m.from /\ m.st # "loop"
    BY <2>2, <2>3
  <2>5. \A p, sb, op : CompleteAs(InRange[w], m, {}, {}, Events(sub[w]), ToSet(item),
                                  CurrentRevision, p, sb, op)
    BY <2>4, CompleteFresh
  <2>6. QED
    BY <2>1, <2>3, <2>5, EmptyQueue DEF Complete
<1>5. pollRev <= CurrentRevision /\ (running => pollRev # 0) /\ (pollRev = 0 => subs = {})
  BY <1>2 DEF Init
<1>6. StartInv
  BY DEF Init, NoWatch, StartInv, StartedAs
<1>7. QED
  BY <1>1, <1>3, <1>4, <1>5, <1>6 DEF IndGap, IndOrder, GapInv

LEMMA NextGap ==
  ASSUME LateCommit = FALSE, IndGap, [Next]_vars
  PROVE  IndGap'
<1>1. IndOrder' /\ StartInv'
  BY NextOrder, NextStarted DEF IndGap
<1>2. SUFFICES GapInv'
  BY <1>1 DEF IndGap
<1>3. ASSUME Calm PROVE GapInv'
  BY <1>3, CalmGap
<1>4. CASE UNCHANGED vars
  <2>1. Calm
    BY <1>4 DEF Calm, KeepsPromise, vars
  <2>2. QED
    BY <1>3, <2>1
<1>5. CASE Database
  BY <1>3, <1>5, WriteGap, CalmBroadcast DEF Database
<1>6. CASE Broadcast
  BY <1>3, <1>6, PollGap, StreamGap, CalmBroadcast DEF Broadcast
<1>7. CASE Close
  BY <1>3, <1>7, CalmBroadcast
<1>8. ASSUME NEW w \in Watches, BackendWatch(w) PROVE GapInv'
  BY <1>3, <1>8, WatchBeginsGap, HistoryGap, UnreadSteps, ForwardGap, CalmWatch DEF BackendWatch
<1>9. ASSUME NEW w \in Watches, ServerWatch(w) PROVE GapInv'
  BY <1>3, <1>9, UnreadSteps, ReceiveGap, CalmWatch DEF ServerWatch
<1>10. QED
  BY <1>4, <1>5, <1>6, <1>7, <1>8, <1>9 DEF Next

LEMMA GapImpliesNoHole ==
  ASSUME IndGap
  PROVE  NoSilentGap
<1>1. SUFFICES ASSUME NEW w \in Watches, ~watch[w].missed, ~watch[w].failed,
                      NEW r \in Revs, Due(w, r)
               PROVE  Contains(got[w], r)
  BY DEF NoSilentGap
<1>2. PICK n \in Nat : n = CurrentRevision /\ rows = 1 .. n
  BY GapTyped
<1>3. Closed(Wanted(InRange[w], watch[w].from, n), ToSet(got[w]))
  BY <1>1, <1>2, WatchTyped DEF CompleteAs
<1>4. r \in Wanted(InRange[w], watch[w].from, n)
  <2>1. watch[w].from \in Nat /\ r \in Nat
    BY WatchTyped, RevsAreNumbers
  <2>2. QED
    BY <1>1, <1>2, <2>1 DEF Due, Wanted
<1>5. PICK i \in DOMAIN got[w] : r <= got[w][i]
  BY <1>1 DEF Due
<1>6. got[w] \in Seq(Nat)
  BY Typed, GapTyped
<1>7. got[w][i] \in ToSet(got[w]) /\ got[w][i] \in Nat /\ r \in Nat
  BY <1>6, RevsAreNumbers DEF ToSet
<1>8. ~Below(ToSet(got[w]), {r})
  <2>1. ~(got[w][i] < r)
    BY <1>5, <1>7
  <2>2. QED
    BY <1>7, <2>1 DEF Below
<1>9. r \in ToSet(got[w])
  BY <1>3, <1>4, <1>8 DEF Closed
<1>10. QED
  BY <1>6, <1>9 DEF Contains, ToSet

-----------------------------------------------------------------------------
(* The progress notifications disturb none of this. *)

LEMMA NotificationsQuiet ==
  ASSUME IndOrder, ProgressTypeOK, Notifications
  PROVE  /\ TypeOK' /\ Quiet /\ UNCHANGED <<rows, pollRev, item, sub, result, got, running, subs, closed>>
         /\ \A w \in Watches : KeepsPromise(watch[w], watch'[w]) /\ Steady(watch[w], watch'[w])
         /\ notify' \in BOOLEAN /\ prog' \in [Timers -> Call] /\ bcast' \in Revs
<1>1. TypeOK /\ OrderInv /\ pollRev \in Nat /\ watch \in [Watches -> WatchState]
  BY RevsAreNumbers DEF IndOrder, TypeOK
<1>2. notify \in BOOLEAN /\ prog \in [Timers -> Call] /\ bcast \in Revs
  BY DEF ProgressTypeOK
<1>3. Idle \in Call
  BY RevsAreNumbers DEF Idle, Call
<1>4. ASSUME UNCHANGED vars
      PROVE  /\ TypeOK' /\ Quiet
             /\ UNCHANGED <<rows, pollRev, item, sub, result, got, running, subs, closed>>
             /\ \A w \in Watches : KeepsPromise(watch[w], watch'[w]) /\ Steady(watch[w], watch'[w])
  <2>1. UNCHANGED <<rows, compactRev, running, pollRev, polledRev, item, subs, doomed, sub, result,
                    watch, got, maxRevision, closed>>
    BY <1>4 DEF vars
  <2>2. TypeOK'
    BY <1>1, <2>1 DEF TypeOK
  <2>3. Quiet
    BY <1>1, <2>1 DEF Quiet
  <2>4. QED
    BY <2>1, <2>2, <2>3 DEF KeepsPromise, Steady
<1>5. CASE Progress
  BY <1>2, <1>4, <1>5 DEF Progress
<1>6. ASSUME NEW t \in Timers, ProgressFires(t) PROVE UNCHANGED <<vars, notify, bcast>>
                                                      /\ prog' \in [Timers -> Call]
  <2>1. PICK rev \in Revs : prog' = [prog EXCEPT ![t] = [st |-> "wait", rev |-> rev, todo |-> {}]]
    BY <1>1, <1>6 DEF ProgressFires, TypeOK
  <2>2. [st |-> "wait", rev |-> rev, todo |-> {}] \in Call
    BY DEF Call
  <2>3. QED
    BY <1>2, <1>6, <2>1, <2>2 DEF ProgressFires
<1>7. ASSUME NEW t \in Timers, ProgressSynced(t)
      PROVE  UNCHANGED <<vars, bcast>> /\ notify' \in BOOLEAN /\ prog' \in [Timers -> Call]
  <2>1. PICK c \in Call : c = prog[t]
    BY <1>2
  <2>2. [c EXCEPT !.st = "visit", !.todo = {w \in Watches : watch[w].progress}] \in Call
    BY DEF Call
  <2>3. prog' = [prog EXCEPT ![t] = [c EXCEPT !.st = "visit",
                                              !.todo = {w \in Watches : watch[w].progress}]]
    BY <1>7, <2>1 DEF ProgressSynced
  <2>4. notify' = (notify /\ t # "all") /\ UNCHANGED <<vars, bcast>>
    BY <1>7 DEF ProgressSynced
  <2>5. prog' \in [Timers -> Call]
    BY <1>2, <2>2, <2>3
  <2>6. notify' \in BOOLEAN
    BY <2>4
  <2>7. QED
    BY <2>4, <2>5, <2>6
<1>8. ASSUME NEW t \in Timers, ProgressDone(t)
      PROVE  UNCHANGED <<vars, notify>> /\ bcast' \in Revs /\ prog' \in [Timers -> Call]
  <2>1. prog[t].rev \in Revs
    BY <1>2 DEF Call
  <2>2. QED
    BY <1>2, <1>3, <1>8, <2>1 DEF ProgressDone
<1>9. ASSUME NEW w \in Watches, ProgressAll(w)
      PROVE  UNCHANGED <<vars, notify, bcast>> /\ prog' \in [Timers -> Call]
  <2>1. "all" \in Timers
    BY DEF Timers
  <2>2. PICK c \in Call : c = prog["all"]
    BY <1>2, <2>1
  <2>3. [c EXCEPT !.todo = c.todo \ {w}] \in Call
    BY DEF Call
  <2>4. prog' \in {[prog EXCEPT !["all"] = [c EXCEPT !.todo = c.todo \ {w}]],
                   [prog EXCEPT !["all"] = Idle]}
    BY <1>9, <2>2 DEF ProgressAll
  <2>5. QED
    BY <1>2, <1>3, <1>9, <2>3, <2>4 DEF ProgressAll
<1>10. CASE SendBroadcast
  <2>1. UNCHANGED <<rows, compactRev, running, pollRev, polledRev, item, subs, doomed, sub, result,
                    watch, got, closed, notify, prog>>
    BY <1>10 DEF SendBroadcast, db, pollVars, subVars
  <2>2. maxRevision' \in Revs /\ bcast' \in Revs
    BY <1>1, <1>2, <1>10, RevsAreNumbers DEF SendBroadcast, Send, TypeOK
  <2>3. TypeOK'
    BY <1>1, <2>1, <2>2 DEF TypeOK
  <2>4. Quiet
    BY <1>1, <2>1 DEF Quiet
  <2>5. QED
    BY <1>2, <2>1, <2>2, <2>3, <2>4 DEF KeepsPromise, Steady
<1>11. ASSUME NEW w \in Watches, ProgressIfSynced(w)
       PROVE  /\ TypeOK' /\ Quiet
              /\ UNCHANGED <<rows, pollRev, item, sub, result, got, running, subs, closed>>
              /\ \A x \in Watches : KeepsPromise(watch[x], watch'[x]) /\ Steady(watch[x], watch'[x])
              /\ notify' \in BOOLEAN /\ prog' \in [Timers -> Call] /\ bcast' \in Revs
  <2>1. UNCHANGED <<rows, compactRev, running, pollRev, polledRev, item, subs, doomed, sub, result,
                    got, closed, notify, bcast>>
    BY <1>11 DEF ProgressIfSynced, db, pollVars, subVars
  <2>2. "tick" \in Timers
    BY DEF Timers
  <2>3. PICK c \in Call : c = prog["tick"]
    BY <1>2, <2>2
  <2>4. [c EXCEPT !.todo = c.todo \ {w}] \in Call /\ c.rev \in Revs
    BY DEF Call
  <2>5. prog' = [prog EXCEPT !["tick"] = [c EXCEPT !.todo = c.todo \ {w}]]
    BY <1>11, <2>3 DEF ProgressIfSynced
  <2>6. prog' \in [Timers -> Call]
    BY <1>2, <2>4, <2>5
  <2>7. PICK v \in WatchState : v = watch[w]
    BY <1>1
  <2>8. PICK m : m = [v EXCEPT !.max = c.rev]
    OBVIOUS
  <2>9. m \in WatchState /\ KeepsPromise(v, m) /\ Steady(v, m) /\ m.last = v.last /\ m.st = v.st /\ m.fwd = v.fwd
    BY <2>4, <2>8 DEF WatchState, KeepsPromise, Steady
  <2>10. /\ watch' \in {watch, [watch EXCEPT ![w] = m]}
         /\ maxRevision' \in {maxRevision, c.rev}
    BY <1>11, <2>3, <2>7, <2>8 DEF ProgressIfSynced, Send
  <2>11. watch' \in [Watches -> WatchState] /\ maxRevision' \in Revs
    BY <1>1, <2>4, <2>9, <2>10 DEF TypeOK
  <2>12. \A x \in Watches : /\ KeepsPromise(watch[x], watch'[x]) /\ Steady(watch[x], watch'[x])
                            /\ watch'[x].last = watch[x].last
                            /\ watch'[x].st = watch[x].st /\ watch'[x].fwd = watch[x].fwd
    <3>1. \A x \in Watches : watch'[x] = watch[x] \/ (x = w /\ watch'[x] = m)
      BY <1>1, <2>10
    <3>2. \A x : KeepsPromise(x, x) /\ Steady(x, x)
      BY DEF KeepsPromise, Steady
    <3>3. QED
      BY <2>7, <2>9, <3>1, <3>2
  <2>13. TypeOK'
    BY <1>1, <2>1, <2>11 DEF TypeOK
  <2>14. Quiet
    BY <1>1, <2>1, <2>12 DEF Quiet
  <2>15. QED
    BY <1>2, <2>1, <2>6, <2>12, <2>13, <2>14
<1>12. QED
  BY <1>2, <1>4, <1>5, <1>6, <1>7, <1>8, <1>9, <1>10, <1>11 DEF Notifications

LEMMA NotificationsOrder ==
  ASSUME IndOrder, ProgressTypeOK, Notifications
  PROVE  IndOrder' /\ ProgressTypeOK'
<1>1. /\ TypeOK' /\ Quiet /\ notify' \in BOOLEAN /\ prog' \in [Timers -> Call] /\ bcast' \in Revs
  BY NotificationsQuiet
<1>2. OrderInv'
  BY <1>1, QuietOrder
<1>3. QED
  BY <1>1, <1>2 DEF IndOrder, ProgressTypeOK

LEMMA NotificationsGap ==
  ASSUME IndGap, ProgressTypeOK, Notifications
  PROVE  IndGap'
<1>1. IndOrder /\ IndOrder'
  BY NotificationsOrder DEF IndGap
<1>2. Calm
  BY <1>1, NotificationsQuiet DEF Calm
<1>3. GapInv'
  BY <1>2, CalmGap
<1>4. StartInv'
  BY NotificationsQuiet, SteadyStarted DEF IndGap, StartInv
<1>5. QED
  BY <1>1, <1>3, <1>4 DEF IndGap

LEMMA StutterProgress ==
  ASSUME IndOrder, ProgressTypeOK, [ProgressNext]_allVars
  PROVE  \/ [Next]_vars /\ UNCHANGED progVars
         \/ Notifications
BY DEF ProgressNext, allVars

LEMMA ProgressNextOrder ==
  ASSUME IndOrder, ProgressTypeOK, [ProgressNext]_allVars
  PROVE  IndOrder' /\ ProgressTypeOK'
<1>1. CASE [Next]_vars /\ UNCHANGED progVars
  <2>1. IndOrder'
    BY <1>1, NextOrder
  <2>2. QED
    BY <1>1, <2>1 DEF IndOrder, ProgressTypeOK, progVars
<1>2. CASE Notifications
  BY <1>2, NotificationsOrder
<1>3. QED
  BY <1>1, <1>2, StutterProgress

-----------------------------------------------------------------------------
(* Theorems. *)

(***************************************************************************)
(* WatchPipeline is type correct: no channel ever holds more than its      *)
(* capacity, although stream, forward and the history all send into one.   *)
(***************************************************************************)
THEOREM WatchTypeCorrect == Spec => []TypeOK
<1>1. Init => IndOrder
  BY InitOrder DEF IndOrder
<1>2. IndOrder /\ [Next]_vars => IndOrder'
  BY NextOrder
<1>3. IndOrder => TypeOK
  BY DEF IndOrder
<1>4. QED
  BY <1>1, <1>2, <1>3, PTL DEF Spec

(***************************************************************************)
(* A watch sends its events in ascending order and none twice, whatever    *)
(* the history read and the live events overlap in, for every number of    *)
(* watches, every capacity, and also where rows become visible late.       *)
(***************************************************************************)
THEOREM SentInOrderOnce == Spec => []InOrderOnce
<1>1. Init => IndOrder
  BY InitOrder DEF IndOrder
<1>2. IndOrder /\ [Next]_vars => IndOrder'
  BY NextOrder
<1>3. IndOrder => InOrderOnce
  BY OrderImpliesOnce
<1>4. QED
  BY <1>1, <1>2, <1>3, PTL DEF Spec

(***************************************************************************)
(* What a watch has sent has no hole between its start and its newest      *)
(* event, when rows become visible in the order of their ids: the overlap  *)
(* of SQLLog.After and the subscription loses nothing.                     *)
(***************************************************************************)
THEOREM SentWithoutGap ==
  ASSUME LateCommit = FALSE
  PROVE  Spec => []NoSilentGap
<1>1. Init => IndGap
  BY InitGap
<1>2. IndGap /\ [Next]_vars => IndGap'
  BY NextGap
<1>3. IndGap => NoSilentGap
  BY GapImpliesNoHole
<1>4. QED
  BY <1>1, <1>2, <1>3, PTL DEF Spec

(***************************************************************************)
(* WatchProgress is type correct: the revisions that the timers read and   *)
(* announce are revisions of the table, and afterRevision never makes a    *)
(* history start below 0.                                                  *)
(***************************************************************************)
THEOREM ProgressTypeCorrect == ProgressSpec => []ProgressTypeOK
<1>1. ProgressInit => IndOrder /\ ProgressTypeOK
  <2>1. Idle \in Call
    BY RevsAreNumbers DEF Idle, Call
  <2>2. QED
    BY <2>1, InitOrder, RevsAreNumbers DEF ProgressInit, IndOrder, ProgressTypeOK
<1>2. IndOrder /\ ProgressTypeOK /\ [ProgressNext]_allVars => (IndOrder /\ ProgressTypeOK)'
  BY ProgressNextOrder
<1>3. QED
  BY <1>1, <1>2, PTL DEF ProgressSpec

(***************************************************************************)
(* The progress timers disturb neither the order nor the completeness of   *)
(* what a watch sends.                                                     *)
(***************************************************************************)
THEOREM NotificationsKeepEvents ==
  ASSUME LateCommit = FALSE
  PROVE  ProgressSpec => [](InOrderOnce /\ NoSilentGap)
<1> DEFINE Ind == IndGap /\ ProgressTypeOK
<1>1. ProgressInit => Ind
  <2>1. Idle \in Call
    BY RevsAreNumbers DEF Idle, Call
  <2>2. QED
    BY <2>1, InitGap, InitOrder, RevsAreNumbers DEF ProgressInit, ProgressTypeOK
<1>2. ASSUME Ind, [ProgressNext]_allVars PROVE Ind'
  <2>1. IndOrder
    BY <1>2 DEF IndGap
  <2>2. ProgressTypeOK'
    BY <1>2, <2>1, ProgressNextOrder
  <2>3. CASE [Next]_vars
    BY <1>2, <2>2, <2>3, NextGap
  <2>4. CASE Notifications
    BY <1>2, <2>2, <2>4, NotificationsGap
  <2>5. QED
    BY <1>2, <2>1, <2>3, <2>4, StutterProgress
<1>3. Ind => InOrderOnce /\ NoSilentGap
  BY OrderImpliesOnce, GapImpliesNoHole DEF IndGap
<1> HIDE DEF Ind
<1>4. QED
  BY <1>1, <1>2, <1>3, PTL DEF ProgressSpec

=============================================================================
