------------------------ MODULE MemoryBackendProofs ------------------------
(***************************************************************************)
(* Proofs about MemoryBackend, for every composition that only takes the   *)
(* steps of MemoryNext: the types, that a read at a revision that is not   *)
(* compacted is exact, and that a watch has no gap.                        *)
(***************************************************************************)
EXTENDS MemoryBackend, FiniteSetTheorems, WellFoundedInduction, SequenceTheorems, TLAPS

-----------------------------------------------------------------------------
(* The greatest number of a set. *)

LEMMA LeastNumber ==
  ASSUME NEW S \in SUBSET Nat, S # {}
  PROVE  \E m \in S : \A n \in S : m <= n
<1>1. IsWellFoundedOn(OpToRel(<, Nat), Nat)
  BY NatLessThanWellFounded
<1> DEFINE R == OpToRel(<, Nat)
<1> HIDE DEF R
<1>2. PICK m \in S : \A n \in S : ~(<<n, m>> \in R)
  BY <1>1, WFMin DEF R
<1>3. ASSUME NEW n \in S PROVE m <= n
  <2>1. ~(n < m)
    BY <1>2 DEF R, OpToRel
  <2>2. QED
    BY <2>1
<1>4. QED
  BY <1>3

LEMMA MaxOf ==
  ASSUME NEW S \in SUBSET Nat, S # {}, NEW b \in Nat, \A n \in S : n <= b
  PROVE  Max(S) \in S /\ \A n \in S : n <= Max(S)
<1> DEFINE D == {b - n : n \in S}
<1>1. D \in SUBSET Nat /\ D # {}
  OBVIOUS
<1> HIDE DEF D
<1>2. PICK d \in D : \A e \in D : d <= e
  BY <1>1, LeastNumber
<1>3. PICK m \in S : d = b - m
  BY <1>2 DEF D
<1>4. ASSUME NEW n \in S PROVE m >= n
  <2>1. b - n \in D
    BY DEF D
  <2>2. d <= b - n
    BY <1>2, <2>1
  <2>3. QED
    BY <1>3, <2>2
<1>5. \E x \in S : \A y \in S : x >= y
  BY <1>4
<1>6. Max(S) \in S /\ \A y \in S : Max(S) >= y
  BY <1>5, Zenon DEF Max
<1>7. QED
  BY <1>6

(* atRevision is the end of the longest prefix whose revisions are at most r. *)
LEMMA AtRevisionSpec ==
  ASSUME NEW h, Len(h) \in Nat, NEW r \in Nat,
         \A i \in 1 .. Len(h) : h[i].rev \in Nat
  PROVE  /\ atRevision(h, r) \in 0 .. Len(h)
         /\ \A j \in 1 .. atRevision(h, r) : h[j].rev <= r
         /\ atRevision(h, r) < Len(h) => h[atRevision(h, r) + 1].rev > r
<1> DEFINE P(i) == \A j \in 1 .. i : h[j].rev <= r
           S == {i \in 0 .. Len(h) : P(i)}
<1>1. atRevision(h, r) = Max(S)
  BY DEF atRevision
<1>2. S \in SUBSET Nat /\ 0 \in S /\ \A n \in S : n <= Len(h)
  OBVIOUS
<1> HIDE DEF S
<1>3. Max(S) \in S /\ \A n \in S : n <= Max(S)
  BY <1>2, MaxOf
<1>4. PICK m : m = Max(S)
  OBVIOUS
<1>5. m \in 0 .. Len(h) /\ P(m)
  BY <1>3, <1>4 DEF S
<1>6. ASSUME m < Len(h) PROVE h[m + 1].rev > r
  <2>1. m + 1 \notin S
    BY <1>3, <1>4, <1>5
  <2>2. ~P(m + 1)
    BY <2>1, <1>5, <1>6 DEF S
  <2>3. PICK j \in 1 .. m + 1 : ~(h[j].rev <= r)
    BY <2>2
  <2>4. j = m + 1
    BY <1>5, <2>3
  <2>5. QED
    BY <2>3, <2>4, <1>5, <1>6
<1>7. QED
  BY <1>1, <1>4, <1>5, <1>6

(* newestAt is the newest entry of the key up to r, 0 when there is none. *)
LEMMA NewestSpec ==
  ASSUME NEW k, NEW r \in Nat
  PROVE  /\ newestAt(k, r) \in 0 .. r
         /\ newestAt(k, r) # 0 => written[newestAt(k, r)].key = k
         /\ \A s \in 1 .. r : written[s].key = k => s <= newestAt(k, r)
<1> DEFINE S == {0} \cup {s \in 1 .. r : written[s].key = k}
<1>1. newestAt(k, r) = Max(S)
  BY DEF newestAt
<1>2. S \in SUBSET Nat /\ S # {} /\ \A n \in S : n <= r
  OBVIOUS
<1>3. \A s \in S : s \in 0 .. r /\ (s # 0 => written[s].key = k)
  OBVIOUS
<1>4. \A s \in 1 .. r : written[s].key = k => s \in S
  OBVIOUS
<1> HIDE DEF S
<1>5. Max(S) \in S /\ \A n \in S : n <= Max(S)
  BY <1>2, MaxOf
<1>6. QED
  BY <1>1, <1>3, <1>4, <1>5

-----------------------------------------------------------------------------
(* The steps a composition may take, and the inductive invariant. *)

(* The reader of a watch takes the first event of its channel. *)
receive(w) ==
  /\ events[w] # <<>>
  /\ events' = [events EXCEPT ![w] = Tail(@)]
  /\ UNCHANGED <<store, mwatch>>

MemoryNext ==
  \/ ClientWrite
  \/ \E r \in Revs : Compact(r)
  \/ \E w \in Watchers : \/ \E start \in 0 .. MaxRev + 1 : Watch(w, start)
                         \/ watchStep(w)
                         \/ receive(w)

MemorySpec == MemoryInit /\ [][MemoryNext]_memVars

(***************************************************************************)
(* The log is the end of the history, the revisions dense and ascending.   *)
(* It begins at or below the compact revision: every compaction but the    *)
(* first leaves one entry more than it could.                              *)
(***************************************************************************)
LogOK(lg, wr, cur, comp) ==
  /\ Len(wr) = cur /\ \A s \in 1 .. cur : wr[s].rev = s
  /\ comp <= cur
  /\ Len(lg) <= cur /\ cur - Len(lg) <= comp
  /\ \A i \in 1 .. Len(lg) : lg[i].rev = cur - Len(lg) + i

(* Entry s of key k is not needed at the compact revision: a tombstone, or not the newest there. *)
Superseded(wr, comp, k, s) ==
  /\ s <= comp
  /\ wr[s].deleted \/ \E t \in s + 1 .. comp : wr[t].key = k

(* The entries h that are kept of key k are those of the history, in order. *)
KeptInOrder(h, wr, cur, k) ==
  /\ \A i, j \in 1 .. Len(h) : i < j => h[i].rev < h[j].rev
  /\ \A i \in 1 .. Len(h) : h[i].rev \in 1 .. cur /\ h[i] = wr[h[i].rev] /\ h[i].key = k

(* What is not kept of key k is not needed, and older than all that is kept. *)
DroppedUnneeded(h, wr, cur, comp, k) ==
  \A s \in 1 .. cur :
    \/ wr[s].key # k
    \/ \E i \in 1 .. Len(h) : h[i].rev = s
    \/ Superseded(wr, comp, k, s) /\ \A i \in 1 .. Len(h) : s < h[i].rev

LogInv == LogOK(log, written, currentRevision, compactRevision)

KeyOK(h, wr, cur, comp, k) == KeptInOrder(h, wr, cur, k) /\ DroppedUnneeded(h, wr, cur, comp, k)

KeyInv(k) == KeyOK(keys[k], written, currentRevision, compactRevision, k)

StoreInv == LogInv /\ \A k \in Keys : KeyInv(k)

(* What a watch has passed it has sent, or is about to send. *)
WatchOK(m, comp) ==
  m.st # "off" =>
    /\ ~Overtake => comp <= m.lastSeen
    /\ \A r \in (m.from + 1) .. m.lastSeen :
         \/ r \in m.sent
         \/ m.st = "send" /\ \E i \in 1 .. Len(m.batch) : m.batch[i] = r
         \/ Overtake /\ r <= comp

WatchInv(w) == WatchOK(mwatch[w], compactRevision)

MemoryInv == MemoryTypeOK /\ StoreInv /\ \A w \in Watchers : WatchInv(w)

-----------------------------------------------------------------------------
(* The types, element by element. *)

LEMMA NumbersTyped ==
  ASSUME MemoryTypeOK
  PROVE  currentRevision \in Nat /\ compactRevision \in Nat /\ MaxRev \in Nat
         /\ currentRevision <= MaxRev /\ compactRevision <= MaxRev
<1>1. currentRevision \in Revs /\ compactRevision \in Revs
  BY DEF MemoryTypeOK
<1>2. MaxRev \in Nat
  BY MemoryAssumption
<1>3. QED
  BY <1>1, <1>2 DEF Revs

LEMMA SeqTyped ==
  ASSUME NEW E, NEW h \in Seq(E)
  PROVE  Len(h) \in Nat /\ DOMAIN h = 1 .. Len(h) /\ \A i \in 1 .. Len(h) : h[i] \in E
OBVIOUS

LEMMA EntryTyped ==
  ASSUME NEW e \in Entry
  PROVE  e.rev \in 1 .. MaxRev /\ e.rev \in Nat /\ e.rev \in Revs /\ e.key \in Keys
         /\ e.leased \in BOOLEAN /\ e.deleted \in BOOLEAN
<1>1. MaxRev \in Nat
  BY MemoryAssumption
<1>2. e.rev \in 1 .. MaxRev /\ e.key \in Keys /\ e.leased \in BOOLEAN /\ e.deleted \in BOOLEAN
  BY DEF Entry
<1>3. QED
  BY <1>1, <1>2 DEF Revs

LEMMA EntriesTyped ==
  ASSUME NEW h \in Seq(Entry)
  PROVE  /\ Len(h) \in Nat /\ DOMAIN h = 1 .. Len(h)
         /\ \A i \in 1 .. Len(h) : h[i] \in Entry /\ h[i].rev \in Nat
<1>1. Len(h) \in Nat /\ DOMAIN h = 1 .. Len(h) /\ \A i \in 1 .. Len(h) : h[i] \in Entry
  BY SeqTyped
<1>2. QED
  BY <1>1, EntryTyped

LEMMA StoreTyped ==
  ASSUME MemoryTypeOK
  PROVE  /\ log \in Seq(Entry) /\ written \in Seq(Entry)
         /\ \A k \in Keys : keys[k] \in Seq(Entry)
         /\ DOMAIN keys = Keys
<1> DEFINE E == Entry
<1>1. log \in Seq(E) /\ written \in Seq(E) /\ keys \in [Keys -> Seq(E)]
  BY DEF MemoryTypeOK
<1> HIDE DEF E
<1>2. (\A k \in Keys : keys[k] \in Seq(E)) /\ DOMAIN keys = Keys
  BY <1>1
<1>3. QED
  BY <1>1, <1>2 DEF E

-----------------------------------------------------------------------------
(* Reads. *)

LEMMA SnapshotOfKey ==
  ASSUME MemoryTypeOK, LogInv, NEW k \in Keys, KeyInv(k),
         NEW r \in compactRevision .. currentRevision
  PROVE  LET i == atRevision(keys[k], r)
             n == newestAt(k, r)
         IN  /\ liveAt(keys[k], i) <=> liveAt(written, n)
             /\ liveAt(keys[k], i) => keys[k][i] = written[n]
<1>1. /\ Len(keys[k]) \in Nat
      /\ \A i \in 1 .. Len(keys[k]) : keys[k][i].rev \in Nat
  BY StoreTyped, EntriesTyped
<1>2. r \in Nat /\ compactRevision \in Nat /\ currentRevision \in Nat
      /\ compactRevision <= r /\ r <= currentRevision
  BY NumbersTyped
<1> DEFINE h == keys[k]
<1>3. PICK i : i = atRevision(keys[k], r)
  OBVIOUS
<1>4. PICK n : n = newestAt(k, r)
  OBVIOUS
<1>5. /\ i \in 0 .. Len(h)
      /\ \A j \in 1 .. i : h[j].rev <= r
      /\ i < Len(h) => h[i + 1].rev > r
  BY <1>1, <1>2, <1>3, AtRevisionSpec
<1>6. /\ n \in 0 .. r
      /\ n # 0 => written[n].key = k
      /\ \A s \in 1 .. r : written[s].key = k => s <= n
  BY <1>2, <1>4, NewestSpec
<1>7. /\ \A a, b \in 1 .. Len(h) : a < b => h[a].rev < h[b].rev
      /\ \A a \in 1 .. Len(h) : h[a].rev \in 1 .. currentRevision /\ h[a] = written[h[a].rev] /\ h[a].key = k
  BY DEF KeyInv, KeyOK, KeptInOrder
<1>8. \A s \in 1 .. currentRevision :
        \/ written[s].key # k
        \/ \E a \in 1 .. Len(h) : h[a].rev = s
        \/ Superseded(written, compactRevision, k, s) /\ \A a \in 1 .. Len(h) : s < h[a].rev
  BY DEF KeyInv, KeyOK, DroppedUnneeded
<1> HIDE DEF h
<1>9. \A a \in 1 .. Len(h) : h[a].rev <= r => a <= i
  <2> SUFFICES ASSUME NEW a \in 1 .. Len(h), h[a].rev <= r, i < a PROVE FALSE
    BY <1>1, <1>5 DEF h
  <2>1. i < Len(h) /\ i + 1 \in 1 .. Len(h) /\ h[i + 1].rev > r
    BY <1>1, <1>5 DEF h
  <2>2. h[i + 1].rev <= h[a].rev
    <3>1. CASE a = i + 1
      BY <3>1, <2>1, <1>1 DEF h
    <3>2. CASE i + 1 < a
      BY <3>2, <2>1, <1>1, <1>7 DEF h
    <3>3. QED
      BY <3>1, <3>2, <1>1, <1>5 DEF h
  <2>3. QED
    BY <2>1, <2>2, <1>1, <1>2 DEF h
<1>10. CASE i # 0
  <2>1. i \in 1 .. Len(h) /\ h[i].rev <= r /\ h[i].rev \in 1 .. r
    BY <1>10, <1>1, <1>2, <1>5, <1>7 DEF h
  <2>2. h[i] = written[h[i].rev] /\ written[h[i].rev].key = k
    BY <2>1, <1>7
  <2>3. h[i].rev <= n /\ n \in 1 .. r /\ n \in 1 .. currentRevision /\ written[n].key = k
    BY <2>1, <2>2, <1>2, <1>6
  <2>4. \E a \in 1 .. Len(h) : h[a].rev = n
    BY <2>1, <2>3, <1>2, <1>8
  <2>5. PICK a \in 1 .. Len(h) : h[a].rev = n
    BY <2>4
  <2>6. a <= i
    BY <2>5, <2>3, <1>9
  <2>7. h[a].rev <= h[i].rev
    <3>1. CASE a = i
      BY <3>1, <2>1, <1>1 DEF h
    <3>2. CASE a < i
      BY <3>2, <2>1, <1>7, <1>1 DEF h
    <3>3. QED
      BY <3>1, <3>2, <2>1, <2>6
  <2>8. h[i].rev = n
    BY <2>1, <2>3, <2>5, <2>7
  <2>9. h[i] = written[n] /\ n # 0
    BY <2>2, <2>3, <2>8
  <2>10. QED
    BY <2>9, <1>3, <1>4, <1>10 DEF liveAt, h
<1>11. CASE i = 0
  <2>1. ASSUME n # 0 PROVE written[n].deleted
    <3>1. n \in 1 .. r /\ n \in 1 .. currentRevision /\ written[n].key = k
      BY <2>1, <1>2, <1>6
    <3>2. ~ \E a \in 1 .. Len(h) : h[a].rev = n
      BY <3>1, <1>9, <1>11, <1>2
    <3>3. Superseded(written, compactRevision, k, n)
      BY <3>1, <3>2, <1>8
    <3>4. ~ \E t \in n + 1 .. compactRevision : written[t].key = k
      BY <3>1, <1>2, <1>6
    <3>5. QED
      BY <3>3, <3>4 DEF Superseded
  <2>2. QED
    BY <2>1, <1>3, <1>4, <1>11 DEF liveAt, h
<1>12. QED
  BY <1>10, <1>11

LEMMA SnapshotFromInv ==
  ASSUME MemoryInv
  PROVE  SnapshotExact
<1>1. MemoryTypeOK /\ LogInv /\ \A k \in Keys : KeyInv(k)
  BY DEF MemoryInv, StoreInv
<1>2. QED
  BY <1>1, SnapshotOfKey DEF SnapshotExact

LEMMA NoGapFromInv ==
  ASSUME MemoryInv
  PROVE  NoGapInWatch
BY DEF MemoryInv, WatchInv, WatchOK, NoGapInWatch

-----------------------------------------------------------------------------
(* An entry is appended. *)

LEMMA AppendLog ==
  ASSUME NEW lg \in Seq(Entry), NEW wr \in Seq(Entry), NEW cur \in Nat, NEW comp \in Nat,
         NEW e \in Entry, e.rev = cur + 1, LogOK(lg, wr, cur, comp)
  PROVE  LogOK(Append(lg, e), Append(wr, e), cur + 1, comp)
<1>1. /\ Len(wr) = cur /\ \A s \in 1 .. cur : wr[s].rev = s
      /\ comp <= cur
      /\ Len(lg) <= cur /\ cur - Len(lg) <= comp
      /\ \A i \in 1 .. Len(lg) : lg[i].rev = cur - Len(lg) + i
  BY DEF LogOK
<1>2. Len(lg) \in Nat
  BY EntriesTyped
<1> DEFINE E == Entry
<1>3. lg \in Seq(E) /\ wr \in Seq(E) /\ e \in E
  OBVIOUS
<1> HIDE DEF E
<1>4. /\ Len(Append(lg, e)) = Len(lg) + 1
      /\ \A i \in 1 .. Len(lg) : Append(lg, e)[i] = lg[i]
      /\ Append(lg, e)[Len(lg) + 1] = e
  BY <1>3, AppendProperties
<1>5. /\ Len(Append(wr, e)) = Len(wr) + 1
      /\ \A i \in 1 .. Len(wr) : Append(wr, e)[i] = wr[i]
      /\ Append(wr, e)[Len(wr) + 1] = e
  BY <1>3, AppendProperties
<1>6. PICK lg2, wr2 : lg2 = Append(lg, e) /\ wr2 = Append(wr, e)
  OBVIOUS
<1>7. Len(wr2) = cur + 1 /\ \A s \in 1 .. cur + 1 : wr2[s].rev = s
  <2>1. \A s \in 1 .. cur : wr2[s].rev = s
    BY <1>1, <1>5, <1>6
  <2>2. wr2[cur + 1].rev = cur + 1
    BY <1>1, <1>5, <1>6
  <2>3. QED
    BY <2>1, <2>2, <1>1, <1>5, <1>6
<1>8. \A i \in 1 .. Len(lg2) : lg2[i].rev = (cur + 1) - Len(lg2) + i
  <2>1. \A i \in 1 .. Len(lg) : lg2[i].rev = cur - Len(lg) + i
    BY <1>1, <1>4, <1>6
  <2>2. lg2[Len(lg) + 1].rev = cur + 1
    BY <1>4, <1>6
  <2>3. Len(lg2) = Len(lg) + 1
    BY <1>4, <1>6
  <2>4. QED
    BY <2>1, <2>2, <2>3, <1>2
<1>9. Len(lg2) <= cur + 1 /\ (cur + 1) - Len(lg2) <= comp /\ comp <= cur + 1
  BY <1>1, <1>2, <1>4, <1>6
<1>10. LogOK(lg2, wr2, cur + 1, comp)
  BY <1>7, <1>8, <1>9 DEF LogOK
<1>11. QED
  BY <1>6, <1>10

(* The history of another key stays what it is. *)
LEMMA AppendOther ==
  ASSUME NEW h \in Seq(Entry), NEW wr \in Seq(Entry), NEW cur \in Nat, NEW comp \in Nat,
         NEW e \in Entry, NEW k \in Keys, e.key # k,
         Len(wr) = cur, comp <= cur, KeyOK(h, wr, cur, comp, k)
  PROVE  KeyOK(h, Append(wr, e), cur + 1, comp, k)
<1> DEFINE E == Entry
<1>1. wr \in Seq(E) /\ e \in E
  OBVIOUS
<1> HIDE DEF E
<1>2. /\ \A i \in 1 .. cur : Append(wr, e)[i] = wr[i]
      /\ Append(wr, e)[cur + 1] = e
  BY <1>1, AppendProperties
<1>3. PICK wr2 : wr2 = Append(wr, e)
  OBVIOUS
<1>4. Len(h) \in Nat
  BY EntriesTyped
<1>5. KeptInOrder(h, wr2, cur + 1, k)
  BY <1>2, <1>3, <1>4 DEF KeyOK, KeptInOrder
<1>6. \A s \in 1 .. cur : Superseded(wr, comp, k, s) => Superseded(wr2, comp, k, s)
  BY <1>2, <1>3 DEF Superseded
<1>7. DroppedUnneeded(h, wr2, cur + 1, comp, k)
  <2> SUFFICES ASSUME NEW s \in 1 .. cur + 1, wr2[s].key = k
               PROVE  \/ \E i \in 1 .. Len(h) : h[i].rev = s
                      \/ Superseded(wr2, comp, k, s) /\ \A i \in 1 .. Len(h) : s < h[i].rev
    BY DEF DroppedUnneeded
  <2>1. s \in 1 .. cur
    BY <1>2, <1>3
  <2>2. wr[s].key = k
    BY <2>1, <1>2, <1>3
  <2>3. \/ \E i \in 1 .. Len(h) : h[i].rev = s
        \/ Superseded(wr, comp, k, s) /\ \A i \in 1 .. Len(h) : s < h[i].rev
    BY <2>1, <2>2 DEF KeyOK, DroppedUnneeded
  <2>4. QED
    BY <2>1, <2>3, <1>6
<1>8. QED
  BY <1>3, <1>5, <1>7 DEF KeyOK

(* The history of the key itself gets the entry. *)
LEMMA AppendOwn ==
  ASSUME NEW h \in Seq(Entry), NEW wr \in Seq(Entry), NEW cur \in Nat, NEW comp \in Nat,
         NEW e \in Entry, NEW k \in Keys, e.key = k, e.rev = cur + 1,
         Len(wr) = cur, comp <= cur, KeyOK(h, wr, cur, comp, k)
  PROVE  KeyOK(Append(h, e), Append(wr, e), cur + 1, comp, k)
<1> DEFINE E == Entry
<1>1. wr \in Seq(E) /\ e \in E /\ h \in Seq(E)
  OBVIOUS
<1> HIDE DEF E
<1>2. /\ \A i \in 1 .. cur : Append(wr, e)[i] = wr[i]
      /\ Append(wr, e)[cur + 1] = e
  BY <1>1, AppendProperties
<1>3. PICK wr2, h2 : wr2 = Append(wr, e) /\ h2 = Append(h, e)
  OBVIOUS
<1>4. Len(h) \in Nat
  BY EntriesTyped
<1>5. /\ Len(h2) = Len(h) + 1
      /\ \A i \in 1 .. Len(h) : h2[i] = h[i]
      /\ h2[Len(h) + 1] = e
  BY <1>1, <1>3, AppendProperties
<1>6. /\ \A i, j \in 1 .. Len(h) : i < j => h[i].rev < h[j].rev
      /\ \A i \in 1 .. Len(h) : h[i].rev \in 1 .. cur /\ h[i] = wr[h[i].rev] /\ h[i].key = k
  BY DEF KeyOK, KeptInOrder
<1>7. \A i \in 1 .. Len(h2) : h2[i].rev \in 1 .. cur + 1 /\ h2[i] = wr2[h2[i].rev] /\ h2[i].key = k
  <2> TAKE i \in 1 .. Len(h2)
  <2>1. CASE i \in 1 .. Len(h)
    <3>1. h2[i] = h[i]
      BY <2>1, <1>5
    <3>2. h[i].rev \in 1 .. cur /\ h[i] = wr[h[i].rev] /\ h[i].key = k
      BY <2>1, <1>6
    <3>3. QED
      BY <3>1, <3>2, <1>2, <1>3
  <2>2. CASE i = Len(h) + 1
    BY <2>2, <1>5, <1>2, <1>3
  <2>3. QED
    BY <2>1, <2>2, <1>4, <1>5
<1>8. \A i, j \in 1 .. Len(h2) : i < j => h2[i].rev < h2[j].rev
  <2> SUFFICES ASSUME NEW i \in 1 .. Len(h2), NEW j \in 1 .. Len(h2), i < j
               PROVE  h2[i].rev < h2[j].rev
    OBVIOUS
  <2>1. i \in 1 .. Len(h) /\ h2[i] = h[i] /\ h[i].rev \in 1 .. cur
    BY <1>4, <1>5, <1>6
  <2>2. CASE j \in 1 .. Len(h)
    <3>1. h[i].rev < h[j].rev /\ h2[j] = h[j]
      BY <2>1, <2>2, <1>5, <1>6
    <3>2. QED
      BY <3>1, <2>1
  <2>3. CASE j = Len(h) + 1
    BY <2>1, <2>3, <1>5
  <2>4. QED
    BY <2>2, <2>3, <1>4, <1>5
<1>9. \A s \in 1 .. cur : Superseded(wr, comp, k, s) => Superseded(wr2, comp, k, s)
  BY <1>2, <1>3 DEF Superseded
<1>10. DroppedUnneeded(h2, wr2, cur + 1, comp, k)
  <2> SUFFICES ASSUME NEW s \in 1 .. cur + 1, wr2[s].key = k
               PROVE  \/ \E i \in 1 .. Len(h2) : h2[i].rev = s
                      \/ Superseded(wr2, comp, k, s) /\ \A i \in 1 .. Len(h2) : s < h2[i].rev
    BY DEF DroppedUnneeded
  <2>1. CASE s = cur + 1
    BY <2>1, <1>4, <1>5
  <2>2. CASE s \in 1 .. cur
    <3>1. wr[s].key = k
      BY <2>2, <1>2, <1>3
    <3>2. \/ \E i \in 1 .. Len(h) : h[i].rev = s
          \/ Superseded(wr, comp, k, s) /\ \A i \in 1 .. Len(h) : s < h[i].rev
      BY <2>2, <3>1 DEF KeyOK, DroppedUnneeded
    <3>3. CASE \E i \in 1 .. Len(h) : h[i].rev = s
      BY <3>3, <1>4, <1>5
    <3>4. CASE Superseded(wr, comp, k, s) /\ \A i \in 1 .. Len(h) : s < h[i].rev
      <4>1. \A i \in 1 .. Len(h2) : s < h2[i].rev
        <5> TAKE i \in 1 .. Len(h2)
        <5>1. CASE i \in 1 .. Len(h)
          BY <5>1, <3>4, <1>5
        <5>2. CASE i = Len(h) + 1
          BY <5>2, <2>2, <1>5
        <5>3. QED
          BY <5>1, <5>2, <1>4, <1>5
      <4>2. QED
        BY <4>1, <3>4, <2>2, <1>9
    <3>5. QED
      BY <3>2, <3>3, <3>4
  <2>3. QED
    BY <2>1, <2>2
<1>11. KeyOK(h2, wr2, cur + 1, comp, k)
  BY <1>7, <1>8, <1>10 DEF KeyOK, KeptInOrder
<1>12. QED
  BY <1>3, <1>11

(* MemoryInv only looks at the types, the store and the watches. *)
LEMMA WatchesAsBefore ==
  ASSUME MemoryInv, UNCHANGED mwatch, compactRevision' = compactRevision
  PROVE  \A w \in Watchers : WatchInv(w)'
BY DEF MemoryInv, WatchInv

LEMMA AppendStep ==
  ASSUME MemoryInv, NEW k \in Keys, NEW leased \in BOOLEAN, NEW deleted \in BOOLEAN,
         appendEntry(k, leased, deleted)
  PROVE  MemoryInv'
<1>1. MemoryTypeOK /\ LogInv /\ \A kk \in Keys : KeyInv(kk)
  BY DEF MemoryInv, StoreInv
<1>2. currentRevision \in Nat /\ compactRevision \in Nat /\ MaxRev \in Nat
  BY <1>1, NumbersTyped
<1>3. log \in Seq(Entry) /\ written \in Seq(Entry) /\ DOMAIN keys = Keys
      /\ \A kk \in Keys : keys[kk] \in Seq(Entry)
  BY <1>1, StoreTyped
<1>4. PICK e : e = [rev |-> currentRevision + 1, key |-> k, leased |-> leased, deleted |-> deleted]
  OBVIOUS
<1>5. /\ currentRevision < MaxRev
      /\ currentRevision' = currentRevision + 1
      /\ log' = Append(log, e)
      /\ keys' = [keys EXCEPT ![k] = Append(@, e)]
      /\ written' = Append(written, e)
      /\ compactRevision' = compactRevision /\ mwatch' = mwatch /\ events' = events
  BY <1>4 DEF appendEntry, nextRevision
<1>6. e \in Entry /\ e.rev = currentRevision + 1 /\ e.key = k
  <2>1. currentRevision + 1 \in 1 .. MaxRev
    BY <1>2, <1>5
  <2>2. QED
    BY <2>1, <1>4 DEF Entry
<1>7. /\ DOMAIN keys' = Keys
      /\ keys'[k] = Append(keys[k], e)
      /\ \A kk \in Keys : kk # k => keys'[kk] = keys[kk]
  BY <1>3, <1>5
<1> DEFINE E == Entry
<1>8. log \in Seq(E) /\ written \in Seq(E) /\ e \in E /\ \A kk \in Keys : keys[kk] \in Seq(E)
  BY <1>3, <1>6
<1>9. MemoryTypeOK'
  <2> HIDE DEF E
  <2>1. log' \in Seq(E) /\ written' \in Seq(E)
    BY <1>5, <1>8
  <2>2. keys' \in [Keys -> Seq(E)]
    <3>1. ASSUME NEW kk \in Keys PROVE keys'[kk] \in Seq(E)
      <4>1. Append(keys[k], e) \in Seq(E) /\ keys[kk] \in Seq(E)
        BY <1>8
      <4>2. keys'[kk] = Append(keys[k], e) \/ keys'[kk] = keys[kk]
        BY <1>7
      <4>3. QED
        BY <4>1, <4>2, Zenon
    <3>2. keys' = [kk \in Keys |-> keys'[kk]]
      BY <1>5, <1>3
    <3>3. QED
      BY <3>1, <3>2
  <2>3. currentRevision' \in Revs
    BY <1>2, <1>5 DEF Revs
  <2>4. compactRevision' \in Revs /\ mwatch' \in [Watchers -> Watcher] /\ events' \in [Watchers -> Seq(Revs)]
    BY <1>1, <1>5 DEF MemoryTypeOK
  <2>5. QED
    BY <2>1, <2>2, <2>3, <2>4 DEF MemoryTypeOK, E
<1>10. Len(written) = currentRevision /\ compactRevision <= currentRevision
  BY <1>1 DEF LogInv, LogOK
<1>11. LogInv'
  <2>1. LogOK(Append(log, e), Append(written, e), currentRevision + 1, compactRevision)
    BY <1>1, <1>2, <1>3, <1>6, AppendLog DEF LogInv
  <2>2. QED
    BY <2>1, <1>5 DEF LogInv
<1>12. ASSUME NEW kk \in Keys PROVE KeyInv(kk)'
  <2>1. KeyOK(keys[kk], written, currentRevision, compactRevision, kk)
    BY <1>1 DEF KeyInv
  <2>2. CASE kk = k
    <3>1. KeyOK(Append(keys[k], e), Append(written, e), currentRevision + 1, compactRevision, k)
      BY <2>1, <2>2, <1>2, <1>3, <1>6, <1>10, AppendOwn
    <3>2. QED
      BY <3>1, <2>2, <1>5, <1>7 DEF KeyInv
  <2>3. CASE kk # k
    <3>1. KeyOK(keys[kk], Append(written, e), currentRevision + 1, compactRevision, kk)
      BY <2>1, <2>3, <1>2, <1>3, <1>6, <1>10, AppendOther
    <3>2. QED
      BY <3>1, <2>3, <1>5, <1>7 DEF KeyInv
  <2>4. QED
    BY <2>2, <2>3
<1>13. \A w \in Watchers : WatchInv(w)'
  BY <1>5, WatchesAsBefore
<1>14. QED
  BY <1>9, <1>11, <1>12, <1>13 DEF MemoryInv, StoreInv

LEMMA LatestTyped ==
  ASSUME MemoryTypeOK, NEW k \in Keys, Exists(k)
  PROVE  latest(k) \in Entry /\ latest(k).leased \in BOOLEAN /\ latest(k) = keys[k][Len(keys[k])]
         /\ Len(keys[k]) \in 1 .. Len(keys[k])
<1>1. keys[k] \in Seq(Entry) /\ keys[k] # <<>>
  BY StoreTyped DEF Exists
<1>2. Len(keys[k]) \in Nat /\ Len(keys[k]) # 0 /\ \A i \in 1 .. Len(keys[k]) : keys[k][i] \in Entry
  <2> DEFINE E == Entry
  <2>1. keys[k] \in Seq(E)
    BY <1>1
  <2> HIDE DEF E
  <2>2. Len(keys[k]) # 0
    BY <2>1, <1>1, EmptySeq
  <2>3. QED
    BY <2>2, <1>1, EntriesTyped
<1>3. latest(k) = keys[k][Len(keys[k])]
  BY DEF latest, Last
<1>4. latest(k) \in Entry
  BY <1>2, <1>3
<1>5. QED
  BY <1>2, <1>3, <1>4, EntryTyped

LEMMA DeleteStep ==
  ASSUME MemoryInv, NEW k \in Keys, NEW r, Delete(k, r)
  PROVE  MemoryInv'
<1>1. MemoryTypeOK
  BY DEF MemoryInv
<1>2. Exists(k) /\ appendEntry(k, latest(k).leased, TRUE)
  BY DEF Delete, Deletes, Live
<1>3. latest(k).leased \in BOOLEAN
  BY <1>1, <1>2, LatestTyped
<1>4. QED
  BY <1>2, <1>3, AppendStep

LEMMA ClientWriteStep ==
  ASSUME MemoryInv, ClientWrite
  PROVE  MemoryInv'
<1>1. PICK k \in Keys :
        \/ \E leased \in BOOLEAN : Create(k, leased) \/ \E r \in Revs : Update(k, r, leased)
        \/ \E r \in Revs : Delete(k, r)
  BY DEF ClientWrite
<1>2. ASSUME NEW leased \in BOOLEAN, Create(k, leased) PROVE MemoryInv'
  <2>1. appendEntry(k, leased, FALSE)
    BY <1>2 DEF Create
  <2>2. QED
    BY <2>1, AppendStep
<1>3. ASSUME NEW leased \in BOOLEAN, NEW r \in Revs, Update(k, r, leased) PROVE MemoryInv'
  <2>1. appendEntry(k, leased, FALSE)
    BY <1>3 DEF Update
  <2>2. QED
    BY <2>1, AppendStep
<1>4. QED
  BY <1>1, <1>2, <1>3, DeleteStep

-----------------------------------------------------------------------------
(* Compaction. *)

LEMMA TailFrom ==
  ASSUME NEW E, NEW h \in Seq(E), NEW st \in 1 .. Len(h) + 1
  PROVE  /\ SubSeq(h, st, Len(h)) \in Seq(E)
         /\ Len(SubSeq(h, st, Len(h))) = Len(h) + 1 - st
         /\ \A i \in 1 .. Len(h) + 1 - st : SubSeq(h, st, Len(h))[i] = h[st - 1 + i]
<1>1. Len(h) \in Nat /\ \A i \in st .. Len(h) : h[i] \in E
  BY SeqTyped
<1>2. PICK s : s = SubSeq(h, st, Len(h))
  OBVIOUS
<1>3. s \in Seq(E)
  BY <1>1, <1>2
<1>4. Len(s) = Len(h) + 1 - st
  BY <1>1, <1>2
<1>5. \A i \in 1 .. Len(h) + 1 - st : s[i] = h[st - 1 + i]
  BY <1>1, <1>2
<1>6. QED
  BY <1>2, <1>3, <1>4, <1>5

LEMMA CompactKey ==
  ASSUME NEW h \in Seq(Entry), NEW wr, NEW cur \in Nat, NEW comp \in Nat, NEW k, NEW r \in Nat,
         comp <= r, KeyOK(h, wr, cur, comp, k)
  PROVE  compacted(h, r) \in Seq(Entry) /\ KeyOK(compacted(h, r), wr, cur, r, k)
<1>1. Len(h) \in Nat /\ \A i \in 1 .. Len(h) : h[i].rev \in Nat
  BY EntriesTyped
<1>2. PICK f : f = atRevision(h, r)
  OBVIOUS
<1>3. f \in 0 .. Len(h) /\ (\A j \in 1 .. f : h[j].rev <= r)
  BY <1>1, <1>2, AtRevisionSpec
<1>4. PICK st : st = IF liveAt(h, f) THEN f ELSE f + 1
  OBVIOUS
<1>5. st \in 1 .. Len(h) + 1 /\ st - 1 <= f /\ (st = f + 1 => f = 0 \/ h[f].deleted) /\ (st = f \/ st = f + 1)
  BY <1>1, <1>3, <1>4 DEF liveAt
<1>6. PICK h2 : h2 = SubSeq(h, st, Len(h))
  OBVIOUS
<1>7. compacted(h, r) = h2
  BY <1>2, <1>4, <1>6 DEF compacted
<1>8. /\ h2 \in Seq(Entry) /\ Len(h2) = Len(h) + 1 - st
      /\ \A i \in 1 .. Len(h) + 1 - st : h2[i] = h[st - 1 + i]
  <2> DEFINE E == Entry
  <2>1. h \in Seq(E)
    OBVIOUS
  <2> HIDE DEF E
  <2>2. /\ h2 \in Seq(E) /\ Len(h2) = Len(h) + 1 - st
        /\ \A i \in 1 .. Len(h) + 1 - st : h2[i] = h[st - 1 + i]
    BY <2>1, <1>5, <1>6, TailFrom
  <2>3. QED
    BY <2>2 DEF E
<1>9. /\ \A i, j \in 1 .. Len(h) : i < j => h[i].rev < h[j].rev
      /\ \A i \in 1 .. Len(h) : h[i].rev \in 1 .. cur /\ h[i] = wr[h[i].rev] /\ h[i].key = k
  BY DEF KeyOK, KeptInOrder
<1>10. KeptInOrder(h2, wr, cur, k)
  <2>1. ASSUME NEW i \in 1 .. Len(h2)
        PROVE  h2[i] = h[st - 1 + i] /\ st - 1 + i \in 1 .. Len(h)
    BY <1>1, <1>5, <1>8
  <2>2. \A i, j \in 1 .. Len(h2) : i < j => h2[i].rev < h2[j].rev
    <3> SUFFICES ASSUME NEW i \in 1 .. Len(h2), NEW j \in 1 .. Len(h2), i < j
                 PROVE  h2[i].rev < h2[j].rev
      OBVIOUS
    <3>1. PICK a, b \in 1 .. Len(h) : a = st - 1 + i /\ b = st - 1 + j
      BY <2>1
    <3>2. a < b
      BY <3>1, <1>1, <1>5, <1>8
    <3>3. h[a].rev < h[b].rev
      BY <3>2, <1>9
    <3>4. QED
      BY <3>1, <3>3, <2>1
  <2>3. \A i \in 1 .. Len(h2) : h2[i].rev \in 1 .. cur /\ h2[i] = wr[h2[i].rev] /\ h2[i].key = k
    BY <2>1, <1>9
  <2>4. QED
    BY <2>2, <2>3 DEF KeptInOrder
<1>11. DroppedUnneeded(h2, wr, cur, r, k)
  <2> SUFFICES ASSUME NEW s \in 1 .. cur, wr[s].key = k
               PROVE  \/ \E i \in 1 .. Len(h2) : h2[i].rev = s
                      \/ Superseded(wr, r, k, s) /\ \A i \in 1 .. Len(h2) : s < h2[i].rev
    BY DEF DroppedUnneeded
  <2>1. \/ \E i \in 1 .. Len(h) : h[i].rev = s
        \/ Superseded(wr, comp, k, s) /\ \A i \in 1 .. Len(h) : s < h[i].rev
    BY DEF KeyOK, DroppedUnneeded
  <2>2. ASSUME NEW i \in 1 .. Len(h), h[i].rev = s, st <= i
        PROVE  \E j \in 1 .. Len(h2) : h2[j].rev = s
    <3>1. i - st + 1 \in 1 .. Len(h) + 1 - st /\ st - 1 + (i - st + 1) = i
      BY <2>2, <1>1, <1>5
    <3>2. i - st + 1 \in 1 .. Len(h2) /\ h2[i - st + 1] = h[i]
      BY <3>1, <1>8
    <3>3. QED
      BY <3>2, <2>2
  <2>3. ASSUME NEW i \in 1 .. Len(h), h[i].rev = s, i < st
        PROVE  Superseded(wr, r, k, s) /\ \A j \in 1 .. Len(h2) : s < h2[j].rev
    <3>1. \A j \in 1 .. Len(h2) : s < h2[j].rev
      <4> TAKE j \in 1 .. Len(h2)
      <4>1. PICK b \in 1 .. Len(h) : b = st - 1 + j /\ h2[j] = h[b] /\ i < b
        BY <2>3, <1>1, <1>5, <1>8
      <4>2. h[i].rev < h[b].rev
        BY <4>1, <1>9
      <4>3. QED
        BY <4>1, <4>2, <2>3
    <3>2. i \in 1 .. f /\ f \in 1 .. Len(h)
      BY <2>3, <1>1, <1>3, <1>5
    <3>3. s <= r
      BY <3>2, <2>3, <1>3
    <3>4. CASE i = f
      <4>1. st = f + 1
        BY <3>4, <3>2, <2>3, <1>5
      <4>2. h[f].deleted
        BY <4>1, <3>2, <1>5
      <4>3. h[f] = wr[s]
        BY <3>4, <3>2, <2>3, <1>9
      <4>4. QED
        BY <3>1, <3>3, <4>2, <4>3 DEF Superseded
    <3>5. CASE i < f
      <4>1. PICK t : t = h[f].rev
        OBVIOUS
      <4>2. s < t /\ t <= r /\ t \in 1 .. cur /\ h[f] = wr[t] /\ h[f].key = k
        BY <4>1, <3>5, <3>2, <2>3, <1>3, <1>9
      <4>3. t \in s + 1 .. r /\ wr[t].key = k
        BY <4>2
      <4>4. QED
        BY <3>1, <3>3, <4>3 DEF Superseded
    <3>6. QED
      BY <3>2, <3>4, <3>5
  <2>4. CASE Superseded(wr, comp, k, s) /\ \A i \in 1 .. Len(h) : s < h[i].rev
    <3>1. Superseded(wr, r, k, s)
      BY <2>4 DEF Superseded
    <3>2. \A j \in 1 .. Len(h2) : s < h2[j].rev
      <4> TAKE j \in 1 .. Len(h2)
      <4>1. PICK b \in 1 .. Len(h) : b = st - 1 + j /\ h2[j] = h[b]
        BY <1>1, <1>5, <1>8
      <4>2. QED
        BY <4>1, <2>4
    <3>3. QED
      BY <3>1, <3>2
  <2>5. CASE \E i \in 1 .. Len(h) : h[i].rev = s
    <3>1. PICK i \in 1 .. Len(h) : h[i].rev = s
      BY <2>5
    <3>2. CASE st <= i
      BY <3>1, <3>2, <2>2
    <3>3. CASE i < st
      BY <3>1, <3>3, <2>3
    <3>4. QED
      BY <3>2, <3>3, <1>1, <1>5
  <2>6. QED
    BY <2>1, <2>4, <2>5
<1>12. QED
  BY <1>7, <1>8, <1>10, <1>11 DEF KeyOK

(* The cut of the log leaves it the end of the history. *)
LEMMA CompactLog ==
  ASSUME NEW lg \in Seq(Entry), NEW wr, NEW cur \in Nat, NEW comp \in Nat, NEW r \in Nat,
         comp < r, r <= cur, LogOK(lg, wr, cur, comp), NEW c, c = r - comp - 1, c > 0
  PROVE  /\ SubSeq(lg, c + 1, Len(lg)) \in Seq(Entry)
         /\ LogOK(SubSeq(lg, c + 1, Len(lg)), wr, cur, r)
<1>1. Len(lg) \in Nat
  BY EntriesTyped
<1>2. /\ Len(wr) = cur /\ \A s \in 1 .. cur : wr[s].rev = s
      /\ comp <= cur
      /\ Len(lg) <= cur /\ cur - Len(lg) <= comp
      /\ \A i \in 1 .. Len(lg) : lg[i].rev = cur - Len(lg) + i
  BY DEF LogOK
<1>3. c \in Nat /\ c + 1 \in 1 .. Len(lg) + 1 /\ c < Len(lg)
  BY <1>1, <1>2
<1>4. PICK l2 : l2 = SubSeq(lg, c + 1, Len(lg))
  OBVIOUS
<1>5. /\ l2 \in Seq(Entry) /\ Len(l2) = Len(lg) - c
      /\ \A i \in 1 .. Len(lg) - c : l2[i] = lg[c + i]
  <2> DEFINE E == Entry
  <2>1. lg \in Seq(E)
    OBVIOUS
  <2> HIDE DEF E
  <2>2. PICK st \in 1 .. Len(lg) + 1 : st = c + 1
    BY <1>3
  <2>3. /\ l2 \in Seq(E) /\ Len(l2) = Len(lg) + 1 - st
        /\ \A i \in 1 .. Len(lg) + 1 - st : l2[i] = lg[st - 1 + i]
    BY <2>1, <2>2, <1>4, TailFrom
  <2>4. Len(lg) + 1 - st = Len(lg) - c /\ st - 1 = c
    BY <2>2, <1>1, <1>3
  <2>5. QED
    BY <2>3, <2>4 DEF E
<1>6. Len(l2) <= cur /\ cur - Len(l2) <= r
  BY <1>1, <1>2, <1>3, <1>5
<1>7. \A i \in 1 .. Len(l2) : l2[i].rev = cur - Len(l2) + i
  <2> TAKE i \in 1 .. Len(l2)
  <2>1. l2[i] = lg[c + i] /\ c + i \in 1 .. Len(lg)
    BY <1>1, <1>3, <1>5
  <2>2. lg[c + i].rev = cur - Len(lg) + (c + i)
    BY <2>1, <1>2
  <2>3. QED
    BY <2>1, <2>2, <1>1, <1>3, <1>5
<1>8. LogOK(l2, wr, cur, r)
  BY <1>2, <1>6, <1>7 DEF LogOK
<1>9. QED
  BY <1>4, <1>5, <1>8

LEMMA CompactStep ==
  ASSUME MemoryInv, NEW r \in Revs, Compact(r)
  PROVE  MemoryInv'
<1>1. MemoryTypeOK /\ LogInv /\ (\A k \in Keys : KeyInv(k)) /\ \A w \in Watchers : WatchInv(w)
  BY DEF MemoryInv, StoreInv
<1>2. currentRevision \in Nat /\ compactRevision \in Nat /\ MaxRev \in Nat /\ r \in Nat
  BY <1>1, NumbersTyped DEF Revs
<1>3. log \in Seq(Entry) /\ \A k \in Keys : keys[k] \in Seq(Entry)
  BY <1>1, StoreTyped
<1>4. /\ compactRevision < r /\ r <= currentRevision
      /\ keys' = [k \in Keys |-> compacted(keys[k], r)]
      /\ log' = IF cut(r) > 0 THEN SubSeq(log, cut(r) + 1, Len(log)) ELSE log
      /\ compactRevision' = r
      /\ Overtake \/ \A w \in Watchers : mwatch[w].st # "off" => r <= mwatch[w].lastSeen
      /\ currentRevision' = currentRevision /\ written' = written /\ mwatch' = mwatch /\ events' = events
  BY DEF Compact
<1>5. compactRevision <= r
  BY <1>2, <1>4
<1>6. ASSUME NEW k \in Keys
      PROVE  /\ compacted(keys[k], r) \in Seq(Entry)
             /\ KeyOK(compacted(keys[k], r), written, currentRevision, r, k)
  <2>1. KeyOK(keys[k], written, currentRevision, compactRevision, k)
    BY <1>1 DEF KeyInv
  <2>2. QED
    BY <2>1, <1>2, <1>3, <1>5, CompactKey
<1>7. log' \in Seq(Entry) /\ LogOK(log', written, currentRevision, r)
  <2>1. LogOK(log, written, currentRevision, compactRevision)
    BY <1>1 DEF LogInv
  <2>2. PICK c : c = r - compactRevision - 1
    OBVIOUS
  <2>3. CASE c > 0
    <3>1. /\ SubSeq(log, c + 1, Len(log)) \in Seq(Entry)
          /\ LogOK(SubSeq(log, c + 1, Len(log)), written, currentRevision, r)
      BY <2>1, <2>2, <2>3, <1>2, <1>3, <1>4, CompactLog
    <3>2. log' = SubSeq(log, c + 1, Len(log))
      BY <2>2, <2>3, <1>4 DEF cut
    <3>3. QED
      BY <3>1, <3>2
  <2>4. CASE ~(c > 0)
    <3>1. log' = log
      BY <2>2, <2>4, <1>4 DEF cut
    <3>2. Len(log) \in Nat
      BY <1>3, EntriesTyped
    <3>3. LogOK(log, written, currentRevision, r)
      <4>1. currentRevision - Len(log) <= compactRevision
        BY <2>1 DEF LogOK
      <4>2. r <= currentRevision /\ currentRevision - Len(log) <= r
        BY <4>1, <3>2, <1>2, <1>4
      <4>3. QED
        BY <4>2, <2>1, Zenon DEF LogOK
    <3>4. QED
      BY <3>1, <3>3, <1>3
  <2>5. QED
    BY <2>3, <2>4
<1>8. MemoryTypeOK'
  <2> DEFINE E == Entry
  <2>1. log' \in Seq(E) /\ \A k \in Keys : compacted(keys[k], r) \in Seq(E)
    BY <1>6, <1>7
  <2>2. written' \in Seq(E) /\ currentRevision' \in Revs /\ compactRevision' \in Revs
        /\ mwatch' \in [Watchers -> Watcher] /\ events' \in [Watchers -> Seq(Revs)]
    BY <1>1, <1>4 DEF MemoryTypeOK
  <2> HIDE DEF E
  <2>3. keys' \in [Keys -> Seq(E)]
    BY <2>1, <1>4
  <2>4. QED
    BY <2>1, <2>2, <2>3 DEF MemoryTypeOK, E
<1>9. LogInv'
  BY <1>4, <1>7 DEF LogInv
<1>10. ASSUME NEW k \in Keys PROVE KeyInv(k)'
  <2>1. keys'[k] = compacted(keys[k], r)
    BY <1>4
  <2>2. QED
    BY <2>1, <1>4, <1>6 DEF KeyInv
<1>11. ASSUME NEW w \in Watchers PROVE WatchInv(w)'
  <2>1. WatchOK(mwatch[w], compactRevision)
    BY <1>1 DEF WatchInv
  <2>2. Overtake \/ (mwatch[w].st # "off" => r <= mwatch[w].lastSeen)
    BY <1>4
  <2>3. mwatch[w].lastSeen \in Nat /\ mwatch[w].from \in Nat
    BY <1>1, <1>2 DEF MemoryTypeOK, Watcher, Revs
  <2>4. WatchOK(mwatch[w], r)
    BY <2>1, <2>2, <2>3, <1>2, <1>5 DEF WatchOK
  <2>5. QED
    BY <2>4, <1>4 DEF WatchInv
<1>12. QED
  BY <1>8, <1>9, <1>10, <1>11 DEF MemoryInv, StoreInv

-----------------------------------------------------------------------------
(* Watches. *)

LEMMA WatcherTyped ==
  ASSUME MemoryTypeOK, NEW w \in Watchers
  PROVE  /\ mwatch[w] \in Watcher
         /\ mwatch[w].st \in {"off", "loop", "scan", "send", "wait"}
         /\ mwatch[w].lastSeen \in Revs /\ mwatch[w].ch \in Revs /\ mwatch[w].from \in Revs
         /\ mwatch[w].lastSeen \in Nat /\ mwatch[w].from \in Nat
         /\ mwatch[w].batch \in Seq(Revs) /\ mwatch[w].sent \in SUBSET Revs
<1>1. mwatch[w] \in Watcher
  BY DEF MemoryTypeOK
<1>2. /\ mwatch[w].st \in {"off", "loop", "scan", "send", "wait"}
      /\ mwatch[w].lastSeen \in Revs /\ mwatch[w].ch \in Revs /\ mwatch[w].from \in Revs
      /\ mwatch[w].batch \in Seq(Revs) /\ mwatch[w].sent \in SUBSET Revs
  BY <1>1 DEF Watcher
<1>3. QED
  BY <1>1, <1>2, MemoryAssumption DEF Revs

(* A step of one watch: it is enough to look at that watch. *)
LEMMA OneWatch ==
  ASSUME MemoryInv, UNCHANGED store, NEW w \in Watchers, NEW m \in Watcher,
         mwatch' = [mwatch EXCEPT ![w] = m], events' \in [Watchers -> Seq(Revs)],
         WatchOK(m, compactRevision)
  PROVE  MemoryInv'
<1>1. MemoryTypeOK /\ LogInv /\ (\A k \in Keys : KeyInv(k)) /\ \A v \in Watchers : WatchInv(v)
  BY DEF MemoryInv, StoreInv
<1>2. /\ currentRevision' = currentRevision /\ compactRevision' = compactRevision
      /\ log' = log /\ keys' = keys /\ written' = written
  BY DEF store
<1>3. mwatch \in [Watchers -> Watcher]
  BY <1>1 DEF MemoryTypeOK
<1>4. mwatch' \in [Watchers -> Watcher] /\ mwatch'[w] = m /\ \A v \in Watchers : v # w => mwatch'[v] = mwatch[v]
  BY <1>3
<1>5. MemoryTypeOK'
  BY <1>1, <1>2, <1>4 DEF MemoryTypeOK
<1>6. LogInv' /\ \A k \in Keys : KeyInv(k)'
  BY <1>1, <1>2 DEF LogInv, KeyInv
<1>7. ASSUME NEW v \in Watchers PROVE WatchInv(v)'
  <2>1. CASE v = w
    BY <2>1, <1>2, <1>4 DEF WatchInv
  <2>2. CASE v # w
    BY <2>2, <1>1, <1>2, <1>4 DEF WatchInv
  <2>3. QED
    BY <2>1, <2>2
<1>8. QED
  BY <1>5, <1>6, <1>7 DEF MemoryInv, StoreInv

LEMMA WatchStart ==
  ASSUME MemoryInv, NEW w \in Watchers, NEW start \in 0 .. MaxRev + 1, Watch(w, start)
  PROVE  MemoryInv'
<1>1. MemoryTypeOK /\ LogInv
  BY DEF MemoryInv, StoreInv
<1>2. currentRevision \in Nat /\ compactRevision \in Nat /\ MaxRev \in Nat
      /\ currentRevision <= MaxRev /\ compactRevision <= currentRevision
  BY <1>1, NumbersTyped DEF LogInv, LogOK
<1>3. PICK seen : seen = IF start <= 0 THEN currentRevision ELSE start - 1
  OBVIOUS
<1>4. seen \in Revs /\ seen \in Nat /\ compactRevision <= seen
  BY <1>2, <1>3 DEF Watch, Refused, Revs
<1>5. PICK m : m = [Off EXCEPT !.st = "loop", !.lastSeen = seen, !.from = seen]
  OBVIOUS
<1>6. /\ mwatch' = [mwatch EXCEPT ![w] = m]
      /\ events' = [events EXCEPT ![w] = <<>>]
      /\ UNCHANGED store
  BY <1>3, <1>5, Zenon DEF Watch
<1>7. m \in Watcher /\ m.st = "loop" /\ m.lastSeen = seen /\ m.from = seen
  <2>1. 0 \in Revs /\ <<>> \in Seq(Revs)
    BY <1>2 DEF Revs
  <2>2. Off \in Watcher
    BY <2>1 DEF Off, Watcher
  <2>3. QED
    BY <2>2, <1>4, <1>5 DEF Watcher
<1>8. events' \in [Watchers -> Seq(Revs)]
  <2>1. events \in [Watchers -> Seq(Revs)]
    BY <1>1 DEF MemoryTypeOK
  <2>2. QED
    BY <2>1, <1>6
<1>9. WatchOK(m, compactRevision)
  BY <1>4, <1>7 DEF WatchOK
<1>10. QED
  BY <1>6, <1>7, <1>8, <1>9, OneWatch

LEMMA GetNotifyChStep ==
  ASSUME MemoryInv, NEW w \in Watchers, getNotifyCh(w)
  PROVE  MemoryInv'
<1>1. MemoryTypeOK /\ WatchInv(w)
  BY DEF MemoryInv
<1>2. PICK m : m = [mwatch[w] EXCEPT !.st = "scan", !.ch = currentRevision]
  OBVIOUS
<1>3. /\ mwatch[w].st = "loop"
      /\ mwatch' = [mwatch EXCEPT ![w] = m]
      /\ UNCHANGED store /\ events' = events
  BY <1>2 DEF getNotifyCh
<1>4. mwatch[w] \in Watcher /\ currentRevision \in Revs /\ events \in [Watchers -> Seq(Revs)]
  BY <1>1 DEF MemoryTypeOK
<1>5. m \in Watcher /\ m.st = "scan" /\ m.lastSeen = mwatch[w].lastSeen
      /\ m.from = mwatch[w].from /\ m.sent = mwatch[w].sent
  BY <1>2, <1>4 DEF Watcher
<1>6. WatchOK(m, compactRevision)
  BY <1>1, <1>3, <1>5 DEF WatchInv, WatchOK
<1>7. QED
  BY <1>3, <1>4, <1>5, <1>6, OneWatch

LEMMA WakeStep ==
  ASSUME MemoryInv, NEW w \in Watchers, wake(w)
  PROVE  MemoryInv'
<1>1. MemoryTypeOK /\ WatchInv(w)
  BY DEF MemoryInv
<1>2. PICK m : m = [mwatch[w] EXCEPT !.st = "loop"]
  OBVIOUS
<1>3. mwatch[w] \in Watcher /\ events \in [Watchers -> Seq(Revs)]
  BY <1>1 DEF MemoryTypeOK
<1>4. /\ mwatch[w].st = "wait"
      /\ mwatch' = [mwatch EXCEPT ![w] = m]
      /\ UNCHANGED store /\ events' = events
  BY <1>2, <1>3 DEF wake
<1>5. m \in Watcher /\ m.st = "loop" /\ m.lastSeen = mwatch[w].lastSeen
      /\ m.from = mwatch[w].from /\ m.sent = mwatch[w].sent
  BY <1>2, <1>3 DEF Watcher
<1>6. WatchOK(m, compactRevision)
  BY <1>1, <1>4, <1>5 DEF WatchInv, WatchOK
<1>7. QED
  BY <1>3, <1>4, <1>5, <1>6, OneWatch

LEMMA SendStep ==
  ASSUME MemoryInv, NEW w \in Watchers, send(w)
  PROVE  MemoryInv'
<1>1. MemoryTypeOK /\ WatchInv(w)
  BY DEF MemoryInv
<1>2. mwatch[w].st = "send" /\ UNCHANGED store
  BY DEF send
<1>3. events' = [events EXCEPT ![w] = @ \o mwatch[w].batch]
  BY Zenon DEF send
<1>4. mwatch \in [Watchers -> Watcher] /\ mwatch[w] \in Watcher
      /\ mwatch[w].batch \in Seq(Revs) /\ mwatch[w].sent \in SUBSET Revs
  BY <1>1, WatcherTyped DEF MemoryTypeOK
<1>5. PICK sent : sent = mwatch[w].sent \cup ToSet(mwatch[w].batch)
  OBVIOUS
<1>6. DOMAIN mwatch[w].batch = 1 .. Len(mwatch[w].batch)
      /\ \A i \in 1 .. Len(mwatch[w].batch) : mwatch[w].batch[i] \in Revs
  BY <1>4, SeqTyped
<1>7. /\ sent \in SUBSET Revs
      /\ \A r : r \in mwatch[w].sent => r \in sent
      /\ \A i \in 1 .. Len(mwatch[w].batch) : mwatch[w].batch[i] \in sent
  BY <1>4, <1>5, <1>6 DEF ToSet
<1>8. PICK m \in Watcher :
        /\ mwatch' = [mwatch EXCEPT ![w] = m]
        /\ m.st = "wait" /\ m.lastSeen = mwatch[w].lastSeen
        /\ m.from = mwatch[w].from /\ m.sent = sent
  <2>2. mwatch' = [mwatch EXCEPT ![w] = [@ EXCEPT !.st = "wait", !.batch = <<>>, !.sent = sent]]
    BY <1>5, Zenon DEF send
  <2>3. mwatch' = [mwatch EXCEPT ![w] = mwatch'[w]]
    BY <2>2, <1>4
  <2>4. <<>> \in Seq(Revs)
    OBVIOUS
  <2>5. mwatch'[w].st = "wait" /\ mwatch'[w].lastSeen = mwatch[w].lastSeen
        /\ mwatch'[w].from = mwatch[w].from /\ mwatch'[w].ch = mwatch[w].ch
    BY <2>2, <1>4 DEF Watcher
  <2>6. mwatch'[w].sent = sent
    BY <2>2, <1>4 DEF Watcher
  <2>7. mwatch'[w] \in Watcher
    BY <2>2, <2>4, <1>4, <1>7 DEF Watcher
  <2>8. QED
    BY <2>3, <2>5, <2>6, <2>7, Zenon
<1>9. WatchOK(m, compactRevision)
  <2>1. WatchOK(mwatch[w], compactRevision)
    BY <1>1 DEF WatchInv
  <2>2. QED
    BY <2>1, <1>2, <1>7, <1>8 DEF WatchOK
<1>10. events' \in [Watchers -> Seq(Revs)]
  <2>1. events \in [Watchers -> Seq(Revs)]
    BY <1>1 DEF MemoryTypeOK
  <2> DEFINE R == Revs
  <2>2. events \in [Watchers -> Seq(R)] /\ mwatch[w].batch \in Seq(R)
    BY <2>1, <1>4
  <2> HIDE DEF R
  <2>3. events[w] \o mwatch[w].batch \in Seq(R)
    BY <2>2, ConcatProperties
  <2>4. events' \in [Watchers -> Seq(R)]
    BY <2>2, <2>3, <1>3
  <2>5. QED
    BY <2>4 DEF R
<1>11. QED
  BY <1>2, <1>8, <1>9, <1>10, OneWatch

(***************************************************************************)
(* A scan: the index is computed from the compact revision, the log may    *)
(* begin below it.  With `new' from index idx on, nothing above lastSeen   *)
(* is left out but what was compacted away.                                *)
(***************************************************************************)
IndexAfter(idx, lg, comp, seen) ==
  /\ idx \in 0 .. Len(lg)
  /\ seen < comp => idx = 0
  /\ seen >= comp /\ idx < Len(lg) => idx = seen - comp

ScanCovers(new, cur, comp, seen) ==
  new # <<>> => /\ Len(new) \in 1 .. Len(new)
                /\ new[Len(new)].rev = cur
                /\ \A r \in seen + 1 .. cur :
                     \/ \E i \in 1 .. Len(new) : new[i].rev = r
                     \/ seen < comp /\ r <= comp

LEMMA ScanIndex ==
  ASSUME NEW lg \in Seq(Entry), NEW wr, NEW cur \in Nat, NEW comp \in Nat, LogOK(lg, wr, cur, comp),
         NEW seen \in Nat, NEW idx, IndexAfter(idx, lg, comp, seen),
         NEW new, new = SubSeq(lg, idx + 1, Len(lg))
  PROVE  new \in Seq(Entry) /\ Len(new) \in Nat /\ ScanCovers(new, cur, comp, seen)
<1>1. Len(lg) \in Nat
  BY EntriesTyped
<1>2. /\ comp <= cur
      /\ Len(lg) <= cur /\ cur - Len(lg) <= comp
      /\ \A i \in 1 .. Len(lg) : lg[i].rev = cur - Len(lg) + i
  BY DEF LogOK
<1>3. /\ idx \in 0 .. Len(lg)
      /\ seen < comp => idx = 0
      /\ seen >= comp /\ idx < Len(lg) => idx = seen - comp
  BY DEF IndexAfter
<1>4. /\ new \in Seq(Entry) /\ Len(new) = Len(lg) - idx
      /\ \A i \in 1 .. Len(lg) - idx : new[i] = lg[idx + i]
  <2> DEFINE E == Entry
  <2>1. lg \in Seq(E)
    OBVIOUS
  <2> HIDE DEF E
  <2>2. PICK st \in 1 .. Len(lg) + 1 : st = idx + 1
    BY <1>1, <1>3
  <2>3. /\ new \in Seq(E) /\ Len(new) = Len(lg) + 1 - st
        /\ \A i \in 1 .. Len(lg) + 1 - st : new[i] = lg[st - 1 + i]
    BY <2>1, <2>2, TailFrom
  <2>4. Len(lg) + 1 - st = Len(lg) - idx /\ st - 1 = idx
    BY <2>2, <1>1, <1>3
  <2>5. QED
    BY <2>3, <2>4 DEF E
<1>5. \A i \in 1 .. Len(new) : new[i].rev = cur - Len(lg) + idx + i
  <2> TAKE i \in 1 .. Len(new)
  <2>1. new[i] = lg[idx + i] /\ idx + i \in 1 .. Len(lg)
    BY <1>1, <1>3, <1>4
  <2>2. lg[idx + i].rev = cur - Len(lg) + (idx + i)
    BY <2>1, <1>2
  <2>3. QED
    BY <2>1, <2>2, <1>1, <1>3
<1>6. ASSUME new # <<>>
      PROVE  /\ Len(new) \in 1 .. Len(new)
             /\ new[Len(new)].rev = cur
             /\ \A r \in seen + 1 .. cur :
                  \/ \E i \in 1 .. Len(new) : new[i].rev = r
                  \/ seen < comp /\ r <= comp
  <2>1. Len(new) \in Nat /\ Len(new) # 0
    <3> DEFINE E == Entry
    <3>1. new \in Seq(E)
      BY <1>4
    <3> HIDE DEF E
    <3>2. QED
      BY <3>1, <1>6, EmptySeq
  <2>2. Len(new) \in 1 .. Len(new) /\ idx < Len(lg)
    BY <2>1, <1>1, <1>3, <1>4
  <2>3. new[Len(new)].rev = cur
    <3>1. PICK n : n = Len(new)
      OBVIOUS
    <3>2. new[n].rev = cur - Len(lg) + idx + n
      BY <3>1, <2>2, <1>5
    <3>3. n = Len(lg) - idx /\ idx \in Nat
      BY <3>1, <1>3, <1>4
    <3>4. cur - Len(lg) + idx + n = cur
      BY <3>3, <1>1
    <3>5. QED
      BY <3>1, <3>2, <3>4
  <2>4. ASSUME NEW r \in seen + 1 .. cur, r > cur - Len(lg) + idx
        PROVE  \E i \in 1 .. Len(new) : new[i].rev = r
    <3>1. PICK i : i = r - (cur - Len(lg) + idx)
      OBVIOUS
    <3>2. i \in 1 .. Len(new) /\ cur - Len(lg) + idx + i = r
      BY <3>1, <2>4, <1>1, <1>2, <1>3, <1>4
    <3>3. QED
      BY <3>2, <1>5
  <2>5. ASSUME NEW r \in seen + 1 .. cur, ~(r > cur - Len(lg) + idx)
        PROVE  seen < comp /\ r <= comp
    <3>1. CASE seen < comp
      <4>1. idx = 0 /\ r <= cur - Len(lg)
        BY <3>1, <2>5, <1>1, <1>3
      <4>2. QED
        BY <4>1, <3>1, <1>1, <1>2
    <3>2. CASE seen >= comp
      <4>1. idx = seen - comp
        BY <3>2, <2>2, <1>3
      <4>2. QED
        BY <4>1, <2>5, <1>1, <1>2
    <3>3. QED
      BY <3>1, <3>2
  <2>6. QED
    BY <2>2, <2>3, <2>4, <2>5
<1>7. Len(new) \in Nat
  BY <1>4, EntriesTyped
<1>8. ScanCovers(new, cur, comp, seen)
  BY <1>6, Zenon DEF ScanCovers
<1>9. QED
  BY <1>4, <1>7, <1>8

LEMMA ScanStep ==
  ASSUME MemoryInv, NEW w \in Watchers, scan(w)
  PROVE  MemoryInv'
<1>1. MemoryTypeOK /\ LogInv /\ WatchInv(w)
  BY DEF MemoryInv, StoreInv
<1>2. currentRevision \in Nat /\ compactRevision \in Nat /\ currentRevision \in Revs
  BY <1>1, NumbersTyped DEF MemoryTypeOK
<1>3. log \in Seq(Entry) /\ Len(log) \in Nat
  BY <1>1, StoreTyped, EntriesTyped
<1>4. LogOK(log, written, currentRevision, compactRevision) /\ compactRevision <= currentRevision
  BY <1>1 DEF LogInv, LogOK
<1>5. /\ mwatch \in [Watchers -> Watcher] /\ mwatch[w] \in Watcher
      /\ mwatch[w].lastSeen \in Revs /\ mwatch[w].lastSeen \in Nat /\ mwatch[w].from \in Nat
  BY <1>1, WatcherTyped DEF MemoryTypeOK
<1>6. PICK seen, from : seen = mwatch[w].lastSeen /\ from = mwatch[w].from
  OBVIOUS
<1>7. PICK idx : idx = logIndexAfter(seen)
  OBVIOUS
<1>8. /\ idx \in 0 .. Len(log)
      /\ seen < compactRevision => idx = 0
      /\ seen >= compactRevision /\ idx < Len(log) => idx = seen - compactRevision
  BY <1>2, <1>3, <1>5, <1>6, <1>7 DEF logIndexAfter
<1>9. PICK new : new = SubSeq(log, idx + 1, Len(log))
  OBVIOUS
<1>10. /\ new \in Seq(Entry) /\ Len(new) \in Nat
       /\ new # <<>> => /\ Len(new) \in 1 .. Len(new)
                        /\ new[Len(new)].rev = currentRevision
                        /\ \A r \in seen + 1 .. currentRevision :
                             \/ \E i \in 1 .. Len(new) : new[i].rev = r
                             \/ seen < compactRevision /\ r <= compactRevision
  <2>1. seen \in Nat
    BY <1>5, <1>6
  <2>2. IndexAfter(idx, log, compactRevision, seen)
    BY <1>8, Zenon DEF IndexAfter
  <2>3. new \in Seq(Entry) /\ Len(new) \in Nat /\ ScanCovers(new, currentRevision, compactRevision, seen)
    BY <2>1, <2>2, <1>2, <1>3, <1>4, <1>9, ScanIndex
  <2>4. QED
    BY <2>3, Zenon DEF ScanCovers
<1>11. PICK batch : batch = [i \in DOMAIN new |-> new[i].rev]
  OBVIOUS
<1>12. batch \in Seq(Revs) /\ Len(batch) = Len(new) /\ \A i \in 1 .. Len(new) : batch[i] = new[i].rev
  <2>1. DOMAIN new = 1 .. Len(new) /\ \A i \in 1 .. Len(new) : new[i] \in Entry
    BY <1>10, EntriesTyped
  <2>2. \A i \in 1 .. Len(new) : new[i].rev \in Revs
    BY <2>1, EntryTyped
  <2>3. batch = [i \in 1 .. Len(new) |-> new[i].rev]
    BY <2>1, <1>11
  <2>4. batch \in [1 .. Len(new) -> Revs]
    BY <2>2, <2>3
  <2>5. QED
    BY <2>3, <2>4, <1>10
<1>13. PICK st, last :
         /\ st = IF new = <<>> THEN "wait" ELSE "send"
         /\ last = IF new = <<>> THEN mwatch[w].lastSeen ELSE Last(new).rev
  OBVIOUS
<1>14. /\ new = <<>> => st = "wait" /\ last = seen
       /\ new # <<>> => st = "send" /\ last = currentRevision
  BY <1>6, <1>10, <1>13 DEF Last
<1>15. st \in {"off", "loop", "scan", "send", "wait"} /\ last \in Revs
  BY <1>2, <1>5, <1>6, <1>14
<1>16. mwatch[w].st = "scan" /\ UNCHANGED store /\ events' = events
  BY DEF scan
<1>17. PICK m \in Watcher :
        /\ mwatch' = [mwatch EXCEPT ![w] = m]
        /\ m.st = st /\ m.lastSeen = last /\ m.batch = batch
        /\ m.from = from /\ m.sent = mwatch[w].sent
  <2>1. new = SubSeq(log, logIndexAfter(mwatch[w].lastSeen) + 1, Len(log))
    BY <1>6, <1>7, <1>9
  <2>2. mwatch' = [mwatch EXCEPT ![w] = [@ EXCEPT !.st = st, !.batch = batch, !.lastSeen = last]]
    BY <2>1, <1>11, <1>13, Zenon DEF scan
  <2>3. mwatch' = [mwatch EXCEPT ![w] = mwatch'[w]]
    BY <2>2, <1>5
  <2>4. mwatch'[w].st = st /\ mwatch'[w].lastSeen = last /\ mwatch'[w].batch = batch
        /\ mwatch'[w].from = mwatch[w].from /\ mwatch'[w].sent = mwatch[w].sent
    BY <2>2, <1>5 DEF Watcher
  <2>5. mwatch'[w] \in Watcher
    BY <2>2, <1>5, <1>12, <1>15 DEF Watcher
  <2>6. mwatch'[w].from = from
    BY <2>4, <1>6
  <2>7. QED
    BY <2>3, <2>4, <2>5, <2>6, Zenon
<1>18. WatchOK(m, compactRevision)
  <2>1. /\ ~Overtake => compactRevision <= seen
        /\ \A r \in (from + 1) .. seen : r \in mwatch[w].sent \/ (Overtake /\ r <= compactRevision)
    BY <1>1, <1>6, <1>16 DEF WatchInv, WatchOK
  <2>2. CASE new = <<>>
    BY <2>1, <2>2, <1>14, <1>17 DEF WatchOK
  <2>3. CASE new # <<>>
    <3>1. m.st = "send" /\ m.lastSeen = currentRevision /\ m.from = from /\ m.sent = mwatch[w].sent /\ m.batch = batch
      BY <2>3, <1>14, <1>17
    <3>2. ASSUME NEW r \in (from + 1) .. currentRevision
          PROVE  \/ r \in mwatch[w].sent
                 \/ \E i \in 1 .. Len(batch) : batch[i] = r
                 \/ Overtake /\ r <= compactRevision
      <4>1. CASE r <= seen
        BY <4>1, <2>1, <1>2, <1>5, <1>6
      <4>2. CASE r > seen
        <5>1. r \in seen + 1 .. currentRevision
          BY <4>2, <1>2, <1>5, <1>6
        <5>2. \/ \E i \in 1 .. Len(new) : new[i].rev = r
              \/ seen < compactRevision /\ r <= compactRevision
          BY <5>1, <2>3, <1>10
        <5>3. CASE \E i \in 1 .. Len(new) : new[i].rev = r
          BY <5>3, <1>12
        <5>4. CASE seen < compactRevision /\ r <= compactRevision
          BY <5>4, <2>1, <1>2, <1>5, <1>6
        <5>5. QED
          BY <5>2, <5>3, <5>4
      <4>3. QED
        BY <4>1, <4>2, <1>2, <1>5, <1>6
    <3>3. QED
      BY <3>1, <3>2, <1>4 DEF WatchOK
  <2>4. QED
    BY <2>2, <2>3
<1>19. events' \in [Watchers -> Seq(Revs)]
  BY <1>1, <1>16 DEF MemoryTypeOK
<1>20. QED
  BY <1>16, <1>17, <1>18, <1>19, OneWatch

LEMMA ReceiveStep ==
  ASSUME MemoryInv, NEW w \in Watchers, receive(w)
  PROVE  MemoryInv'
<1>1. MemoryTypeOK /\ LogInv /\ (\A k \in Keys : KeyInv(k)) /\ \A v \in Watchers : WatchInv(v)
  BY DEF MemoryInv, StoreInv
<1>2. /\ currentRevision' = currentRevision /\ compactRevision' = compactRevision
      /\ log' = log /\ keys' = keys /\ written' = written /\ mwatch' = mwatch
  BY DEF receive, store
<1>3. events' \in [Watchers -> Seq(Revs)]
  <2> DEFINE R == Revs
  <2>1. events \in [Watchers -> Seq(R)] /\ events[w] # <<>> /\ events' = [events EXCEPT ![w] = Tail(@)]
    BY <1>1 DEF MemoryTypeOK, receive
  <2> HIDE DEF R
  <2>2. Tail(events[w]) \in Seq(R)
    BY <2>1, HeadTailProperties
  <2>3. events' \in [Watchers -> Seq(R)]
    BY <2>1, <2>2
  <2>4. QED
    BY <2>3 DEF R
<1>4. MemoryTypeOK'
  BY <1>1, <1>2, <1>3 DEF MemoryTypeOK
<1>5. LogInv' /\ \A k \in Keys : KeyInv(k)'
  BY <1>1, <1>2 DEF LogInv, KeyInv
<1>6. \A v \in Watchers : WatchInv(v)'
  BY <1>2, WatchesAsBefore
<1>7. QED
  BY <1>4, <1>5, <1>6 DEF MemoryInv, StoreInv

-----------------------------------------------------------------------------
(* What the history keeps: a version stays what it is. *)

LEMMA WrittenStays ==
  ASSUME MemoryInv, [MemoryNext]_memVars
  PROVE  /\ currentRevision \in Nat /\ currentRevision' \in Nat /\ currentRevision <= currentRevision'
         /\ \A r \in 1 .. currentRevision : written'[r] = written[r]
<1>1. currentRevision \in Nat /\ written \in Seq(Entry) /\ Len(written) = currentRevision
  BY NumbersTyped, StoreTyped DEF MemoryInv, StoreInv, LogInv, LogOK
<1>2. ASSUME NEW k, NEW leased, NEW deleted, appendEntry(k, leased, deleted)
      PROVE  /\ currentRevision' = currentRevision + 1
             /\ \A r \in 1 .. currentRevision : written'[r] = written[r]
  <2>1. PICK e : written' = Append(written, e)
    BY <1>2 DEF appendEntry
  <2> DEFINE E == Entry
  <2>2. written \in Seq(E)
    BY <1>1
  <2> HIDE DEF E
  <2>3. \A r \in 1 .. Len(written) : Append(written, e)[r] = written[r]
    BY <2>2
  <2>4. currentRevision' = currentRevision + 1
    BY <1>2 DEF appendEntry, nextRevision
  <2>5. QED
    BY <2>1, <2>3, <2>4, <1>1
<1>3. CASE ClientWrite
  <2>1. \E k \in Keys, leased \in BOOLEAN : appendEntry(k, leased, FALSE) \/ appendEntry(k, latest(k).leased, TRUE)
    BY <1>3 DEF ClientWrite, Create, Update, Delete
  <2>2. /\ currentRevision' = currentRevision + 1
        /\ \A r \in 1 .. currentRevision : written'[r] = written[r]
    BY <2>1, <1>2, Zenon
  <2>3. QED
    BY <2>2, <1>1
<1>4. CASE currentRevision' = currentRevision /\ written' = written
  BY <1>1, <1>4
<1>5. QED
  BY <1>3, <1>4 DEF MemoryNext, Compact, Watch, watchStep, receive, getNotifyCh, scan, send, wake, store, memVars

-----------------------------------------------------------------------------
(* What a watch sends are entries of the history. *)

EventsOK(w, cur) ==
  /\ \A i \in 1 .. Len(mwatch[w].batch) : mwatch[w].batch[i] \in 1 .. cur
  /\ \A i \in 1 .. Len(events[w]) : events[w][i] \in 1 .. cur

EventsInv == \A w \in Watchers : EventsOK(w, currentRevision)

LEMMA EventsStoreStep ==
  ASSUME MemoryInv, MemoryInv', EventsInv, mwatch' = mwatch, events' = events,
         currentRevision <= currentRevision'
  PROVE  EventsInv'
<1>1. PICK cur \in Nat : cur = currentRevision
  BY NumbersTyped DEF MemoryInv
<1>2. PICK next \in Nat : next = currentRevision'
  <2>1. currentRevision' \in Revs
    BY DEF MemoryInv, MemoryTypeOK
  <2>2. QED
    BY <2>1, MemoryAssumption DEF Revs
<1>3. cur <= next
  BY <1>1, <1>2
<1>4. ASSUME NEW w \in Watchers PROVE EventsOK(w, next)'
  <2>1. EventsOK(w, cur)
    BY <1>1 DEF EventsInv
  <2>2. mwatch'[w] = mwatch[w] /\ events'[w] = events[w]
    OBVIOUS
  <2>3. QED
    BY <2>1, <2>2, <1>3 DEF EventsOK
<1>5. QED
  BY <1>2, <1>4 DEF EventsInv

LEMMA EventsWatchStep ==
  ASSUME MemoryInv, EventsInv, UNCHANGED store, NEW w \in Watchers,
         \A v \in Watchers : v # w => mwatch'[v] = mwatch[v] /\ events'[v] = events[v],
         \A i \in 1 .. Len(mwatch'[w].batch) : mwatch'[w].batch[i] \in 1 .. currentRevision,
         \A i \in 1 .. Len(events'[w]) : events'[w][i] \in 1 .. currentRevision
  PROVE  EventsInv'
<1>1. currentRevision' = currentRevision
  BY DEF store
<1>2. ASSUME NEW v \in Watchers PROVE EventsOK(v, currentRevision)'
  <2>1. CASE v = w
    BY <2>1, <1>1 DEF EventsOK
  <2>2. CASE v # w
    BY <2>2, <1>1 DEF EventsInv, EventsOK
  <2>3. QED
    BY <2>1, <2>2
<1>3. QED
  BY <1>2 DEF EventsInv

LEMMA EventsAppend ==
  ASSUME MemoryInv, MemoryInv', EventsInv, NEW k, NEW leased, NEW deleted, appendEntry(k, leased, deleted)
  PROVE  EventsInv'
<1>1. currentRevision \in Nat
  BY NumbersTyped DEF MemoryInv
<1>2. mwatch' = mwatch /\ events' = events /\ currentRevision <= currentRevision'
  BY <1>1 DEF appendEntry, nextRevision
<1>3. QED
  BY <1>2, EventsStoreStep

LEMMA EventsTyped ==
  ASSUME MemoryInv, NEW w \in Watchers
  PROVE  /\ mwatch \in [Watchers -> Watcher] /\ events \in [Watchers -> Seq(Revs)]
         /\ mwatch[w] \in Watcher /\ events[w] \in Seq(Revs) /\ mwatch[w].batch \in Seq(Revs)
         /\ Len(events[w]) \in Nat /\ Len(mwatch[w].batch) \in Nat
<1>1. mwatch \in [Watchers -> Watcher] /\ events \in [Watchers -> Seq(Revs)]
  BY DEF MemoryInv, MemoryTypeOK
<1>2. mwatch[w] \in Watcher /\ events[w] \in Seq(Revs)
  BY <1>1
<1>3. mwatch[w].batch \in Seq(Revs)
  BY <1>2 DEF Watcher
<1>4. QED
  BY <1>1, <1>2, <1>3, SeqTyped

LEMMA EventsScan ==
  ASSUME MemoryInv, EventsInv, NEW w \in Watchers, scan(w)
  PROVE  EventsInv'
<1>1. /\ mwatch \in [Watchers -> Watcher] /\ mwatch[w] \in Watcher
  BY EventsTyped
<1>2. MemoryTypeOK /\ LogInv
  BY DEF MemoryInv, StoreInv
<1>3. currentRevision \in Nat /\ compactRevision \in Nat /\ mwatch[w].lastSeen \in Nat
  BY <1>2, NumbersTyped, WatcherTyped
<1>4. log \in Seq(Entry) /\ Len(log) \in Nat
  BY <1>2, StoreTyped, EntriesTyped
<1>5. Len(log) <= currentRevision /\ \A i \in 1 .. Len(log) : log[i].rev = currentRevision - Len(log) + i
  BY <1>2 DEF LogInv, LogOK
<1>6. PICK idx : idx = logIndexAfter(mwatch[w].lastSeen)
  OBVIOUS
<1>7. idx \in 0 .. Len(log)
  BY <1>3, <1>4, <1>6 DEF logIndexAfter
<1>8. PICK new : new = SubSeq(log, idx + 1, Len(log))
  OBVIOUS
<1>9. new \in Seq(Entry) /\ Len(new) = Len(log) - idx /\ \A i \in 1 .. Len(log) - idx : new[i] = log[idx + i]
  <2> DEFINE E == Entry
  <2>1. log \in Seq(E)
    BY <1>4
  <2> HIDE DEF E
  <2>2. PICK st \in 1 .. Len(log) + 1 : st = idx + 1
    BY <1>4, <1>7
  <2>3. /\ new \in Seq(E) /\ Len(new) = Len(log) + 1 - st
        /\ \A i \in 1 .. Len(log) + 1 - st : new[i] = log[st - 1 + i]
    BY <2>1, <2>2, <1>8, TailFrom
  <2>4. Len(log) + 1 - st = Len(log) - idx /\ st - 1 = idx
    BY <2>2, <1>4, <1>7
  <2>5. QED
    BY <2>3, <2>4 DEF E
<1>10. DOMAIN new = 1 .. Len(new) /\ \A i \in 1 .. Len(new) : new[i].rev \in 1 .. currentRevision
  <2>1. DOMAIN new = 1 .. Len(new)
    BY <1>9, EntriesTyped
  <2>2. ASSUME NEW i \in 1 .. Len(new) PROVE new[i].rev \in 1 .. currentRevision
    <3>1. new[i] = log[idx + i] /\ idx + i \in 1 .. Len(log)
      BY <1>4, <1>7, <1>9
    <3>2. log[idx + i].rev = currentRevision - Len(log) + (idx + i)
      BY <3>1, <1>5
    <3>3. QED
      BY <3>1, <3>2, <1>3, <1>4, <1>5, <1>7
  <2>3. QED
    BY <2>1, <2>2
<1>11. PICK batch : batch = [i \in DOMAIN new |-> new[i].rev]
  OBVIOUS
<1>12. Len(batch) = Len(new) /\ \A i \in 1 .. Len(batch) : batch[i] \in 1 .. currentRevision
  <2>1. batch = [i \in 1 .. Len(new) |-> new[i].rev]
    BY <1>10, <1>11
  <2>2. Len(new) \in Nat
    BY <1>9, EntriesTyped
  <2>3. QED
    BY <2>1, <2>2, <1>10
<1>13. PICK st, last :
         /\ st = IF new = <<>> THEN "wait" ELSE "send"
         /\ last = IF new = <<>> THEN mwatch[w].lastSeen ELSE Last(new).rev
  OBVIOUS
<1>14. new = SubSeq(log, logIndexAfter(mwatch[w].lastSeen) + 1, Len(log))
  BY <1>6, <1>8
<1>15. mwatch' = [mwatch EXCEPT ![w] = [@ EXCEPT !.st = st, !.batch = batch, !.lastSeen = last]]
  BY <1>14, <1>11, <1>13, Zenon DEF scan
<1>16. mwatch'[w].batch = batch /\ \A v \in Watchers : v # w => mwatch'[v] = mwatch[v]
  BY <1>15, <1>1 DEF Watcher
<1>17. UNCHANGED store /\ events' = events
  BY DEF scan
<1>18. \A i \in 1 .. Len(events'[w]) : events'[w][i] \in 1 .. currentRevision
  BY <1>17 DEF EventsInv, EventsOK
<1>19. QED
  BY <1>12, <1>16, <1>17, <1>18, EventsWatchStep

LEMMA EventsSend ==
  ASSUME MemoryInv, EventsInv, NEW w \in Watchers, send(w)
  PROVE  EventsInv'
<1>1. /\ mwatch \in [Watchers -> Watcher] /\ mwatch[w] \in Watcher
      /\ events \in [Watchers -> Seq(Revs)] /\ events[w] \in Seq(Revs) /\ mwatch[w].batch \in Seq(Revs)
      /\ Len(events[w]) \in Nat /\ Len(mwatch[w].batch) \in Nat
  BY EventsTyped
<1>2. EventsOK(w, currentRevision)
  BY DEF EventsInv
<1>3. PICK s, b : s = events[w] /\ b = mwatch[w].batch
  OBVIOUS
<1>4. events' = [events EXCEPT ![w] = s \o b]
  BY <1>3, Zenon DEF send
<1>5. events'[w] = s \o b /\ \A v \in Watchers : v # w => events'[v] = events[v]
  BY <1>1, <1>4
<1>6. \A i \in 1 .. Len(s \o b) : (s \o b)[i] \in 1 .. currentRevision
  <2>1. /\ \A i \in 1 .. Len(s) : s[i] \in 1 .. currentRevision
        /\ \A i \in 1 .. Len(b) : b[i] \in 1 .. currentRevision
    BY <1>2, <1>3 DEF EventsOK
  <2>2. Len(s) \in Nat /\ Len(b) \in Nat /\ s \in Seq(Revs) /\ b \in Seq(Revs)
    BY <1>1, <1>3
  <2>3. Len(s \o b) = Len(s) + Len(b)
        /\ \A i \in 1 .. Len(s) + Len(b) : (s \o b)[i] = IF i <= Len(s) THEN s[i] ELSE b[i - Len(s)]
    BY <2>2, ConcatProperties
  <2> TAKE i \in 1 .. Len(s \o b)
  <2>4. CASE i <= Len(s)
    BY <2>1, <2>2, <2>3, <2>4
  <2>5. CASE i > Len(s)
    <3>1. i - Len(s) \in 1 .. Len(b) /\ (s \o b)[i] = b[i - Len(s)]
      BY <2>2, <2>3, <2>5
    <3>2. QED
      BY <3>1, <2>1
  <2>6. QED
    BY <2>2, <2>3, <2>4, <2>5
<1>7. PICK sent : sent = mwatch[w].sent \cup ToSet(mwatch[w].batch)
  OBVIOUS
<1>8. mwatch' = [mwatch EXCEPT ![w] = [@ EXCEPT !.st = "wait", !.batch = <<>>, !.sent = sent]]
  BY <1>7, Zenon DEF send
<1>9. mwatch'[w].batch = <<>> /\ \A v \in Watchers : v # w => mwatch'[v] = mwatch[v]
  BY <1>8, <1>1 DEF Watcher
<1>10. \A i \in 1 .. Len(mwatch'[w].batch) : mwatch'[w].batch[i] \in 1 .. currentRevision
  BY <1>9
<1>11. UNCHANGED store
  BY DEF send
<1>12. \A i \in 1 .. Len(events'[w]) : events'[w][i] \in 1 .. currentRevision
  BY <1>5, <1>6, Zenon
<1>13. QED
  BY <1>5, <1>9, <1>10, <1>11, <1>12, EventsWatchStep

LEMMA EventsQuietStep ==
  ASSUME MemoryInv, EventsInv, NEW w \in Watchers, getNotifyCh(w) \/ wake(w)
  PROVE  EventsInv'
<1>1. mwatch \in [Watchers -> Watcher] /\ mwatch[w] \in Watcher
  BY EventsTyped
<1>2. UNCHANGED store /\ events' = events
  BY DEF getNotifyCh, wake
<1>3. mwatch'[w].batch = mwatch[w].batch /\ \A v \in Watchers : v # w => mwatch'[v] = mwatch[v]
  BY <1>1 DEF getNotifyCh, wake, Watcher
<1>4. EventsOK(w, currentRevision)
  BY DEF EventsInv
<1>5. \A i \in 1 .. Len(mwatch'[w].batch) : mwatch'[w].batch[i] \in 1 .. currentRevision
  BY <1>3, <1>4 DEF EventsOK
<1>6. \A i \in 1 .. Len(events'[w]) : events'[w][i] \in 1 .. currentRevision
  BY <1>2, <1>4 DEF EventsOK
<1>7. QED
  BY <1>2, <1>3, <1>5, <1>6, EventsWatchStep

LEMMA EventsStart ==
  ASSUME MemoryInv, EventsInv, NEW w \in Watchers, NEW start, Watch(w, start)
  PROVE  EventsInv'
<1>1. mwatch \in [Watchers -> Watcher] /\ events \in [Watchers -> Seq(Revs)]
  BY EventsTyped
<1>2. PICK seen : seen = IF start <= 0 THEN currentRevision ELSE start - 1
  OBVIOUS
<1>3. PICK m : m = [Off EXCEPT !.st = "loop", !.lastSeen = seen, !.from = seen]
  OBVIOUS
<1>4. m.batch = <<>>
  BY <1>3 DEF Off
<1>5. mwatch' = [mwatch EXCEPT ![w] = m] /\ events' = [events EXCEPT ![w] = <<>>] /\ UNCHANGED store
  BY <1>2, <1>3, Zenon DEF Watch
<1>6. mwatch'[w].batch = <<>> /\ events'[w] = <<>>
      /\ \A v \in Watchers : v # w => mwatch'[v] = mwatch[v] /\ events'[v] = events[v]
  BY <1>1, <1>4, <1>5
<1>7. /\ \A i \in 1 .. Len(mwatch'[w].batch) : mwatch'[w].batch[i] \in 1 .. currentRevision
      /\ \A i \in 1 .. Len(events'[w]) : events'[w][i] \in 1 .. currentRevision
  BY <1>6
<1>8. QED
  BY <1>5, <1>6, <1>7, EventsWatchStep

LEMMA EventsReceive ==
  ASSUME MemoryInv, EventsInv, NEW w \in Watchers, receive(w)
  PROVE  EventsInv'
<1>1. events \in [Watchers -> Seq(Revs)] /\ events[w] \in Seq(Revs) /\ Len(events[w]) \in Nat
  BY EventsTyped
<1>2. events[w] # <<>> /\ events' = [events EXCEPT ![w] = Tail(@)] /\ UNCHANGED store /\ mwatch' = mwatch
  BY DEF receive
<1>3. EventsOK(w, currentRevision)
  BY DEF EventsInv
<1>4. PICK s : s = events[w]
  OBVIOUS
<1>5. events'[w] = Tail(s) /\ \A v \in Watchers : v # w => mwatch'[v] = mwatch[v] /\ events'[v] = events[v]
  BY <1>1, <1>2, <1>4
<1>6. \A i \in 1 .. Len(Tail(s)) : Tail(s)[i] \in 1 .. currentRevision
  <2>1. s \in Seq(Revs) /\ s # <<>> /\ Len(s) \in Nat /\ \A i \in 1 .. Len(s) : s[i] \in 1 .. currentRevision
    BY <1>1, <1>2, <1>3, <1>4 DEF EventsOK
  <2>2. Len(Tail(s)) = Len(s) - 1 /\ \A i \in 1 .. Len(Tail(s)) : Tail(s)[i] = s[i + 1]
    BY <2>1, HeadTailProperties
  <2>3. QED
    BY <2>1, <2>2
<1>7. \A i \in 1 .. Len(events'[w]) : events'[w][i] \in 1 .. currentRevision
  BY <1>5, <1>6, Zenon
<1>8. \A i \in 1 .. Len(mwatch'[w].batch) : mwatch'[w].batch[i] \in 1 .. currentRevision
  BY <1>2, <1>3 DEF EventsOK
<1>9. QED
  BY <1>2, <1>5, <1>7, <1>8, EventsWatchStep

LEMMA EventsStep ==
  ASSUME MemoryInv, MemoryInv', EventsInv, [MemoryNext]_memVars
  PROVE  EventsInv'
<1>1. CASE ClientWrite
  <2>1. \E k \in Keys, leased, deleted \in BOOLEAN : appendEntry(k, leased, deleted) \/ appendEntry(k, latest(k).leased, TRUE)
    BY <1>1 DEF ClientWrite, Create, Update, Delete
  <2>2. QED
    BY <2>1, EventsAppend
<1>2. ASSUME NEW r \in Revs, Compact(r) PROVE EventsInv'
  <2>1. currentRevision \in Nat
    BY NumbersTyped DEF MemoryInv
  <2>2. mwatch' = mwatch /\ events' = events /\ currentRevision <= currentRevision'
    BY <2>1, <1>2 DEF Compact
  <2>3. QED
    BY <2>2, EventsStoreStep
<1>3. ASSUME NEW w \in Watchers, watchStep(w) PROVE EventsInv'
  BY <1>3, EventsScan, EventsSend, EventsQuietStep DEF watchStep
<1>4. CASE UNCHANGED memVars
  <2>1. currentRevision \in Nat
    BY NumbersTyped DEF MemoryInv
  <2>2. mwatch' = mwatch /\ events' = events /\ currentRevision <= currentRevision'
    BY <2>1, <1>4 DEF memVars, store
  <2>3. QED
    BY <2>2, EventsStoreStep
<1>5. QED
  BY <1>1, <1>2, <1>3, <1>4, EventsStart, EventsReceive DEF MemoryNext

LEMMA EventsInit ==
  ASSUME MemoryInit
  PROVE  EventsInv
BY DEF MemoryInit, EventsInv, EventsOK, Off

-----------------------------------------------------------------------------
(* The theorems. *)

LEMMA MemoryInvInit ==
  ASSUME MemoryInit
  PROVE  MemoryInv
<1>1. MemoryTypeOK
  <2>1. 0 \in Revs
    BY MemoryAssumption DEF Revs
  <2>2. Off \in Watcher
    BY <2>1 DEF Off, Watcher
  <2>3. QED
    BY <2>1, <2>2 DEF MemoryInit, MemoryTypeOK
<1>2. LogInv
  BY DEF MemoryInit, LogInv, LogOK
<1>3. ASSUME NEW k \in Keys PROVE KeyInv(k)
  <2>1. keys[k] = <<>> /\ Len(keys[k]) = 0 /\ currentRevision = 0
    BY DEF MemoryInit
  <2>2. QED
    BY <2>1 DEF KeyInv, KeyOK, KeptInOrder, DroppedUnneeded
<1>4. ASSUME NEW w \in Watchers PROVE WatchInv(w)
  BY DEF MemoryInit, Off, WatchInv, WatchOK
<1>5. QED
  BY <1>1, <1>2, <1>3, <1>4 DEF MemoryInv, StoreInv

LEMMA MemoryInvUnchanged ==
  ASSUME MemoryInv, UNCHANGED memVars
  PROVE  MemoryInv'
<1>1. /\ currentRevision' = currentRevision /\ compactRevision' = compactRevision
      /\ log' = log /\ keys' = keys /\ written' = written /\ mwatch' = mwatch /\ events' = events
  BY DEF memVars, store
<1>2. MemoryTypeOK' /\ LogInv' /\ \A k \in Keys : KeyInv(k)'
  BY <1>1 DEF MemoryInv, StoreInv, MemoryTypeOK, LogInv, KeyInv
<1>3. \A w \in Watchers : WatchInv(w)'
  BY <1>1, WatchesAsBefore
<1>4. QED
  BY <1>2, <1>3 DEF MemoryInv, StoreInv

LEMMA MemoryInvStep ==
  ASSUME MemoryInv, [MemoryNext]_memVars
  PROVE  MemoryInv'
<1>1. ASSUME NEW w \in Watchers, watchStep(w) PROVE MemoryInv'
  BY <1>1, GetNotifyChStep, ScanStep, SendStep, WakeStep DEF watchStep
<1>2. CASE MemoryNext
  BY <1>1, <1>2, ClientWriteStep, CompactStep, WatchStart, ReceiveStep DEF MemoryNext
<1>3. CASE UNCHANGED memVars
  BY <1>3, MemoryInvUnchanged
<1>4. QED
  BY <1>2, <1>3

LEMMA MemoryInvHolds == MemorySpec => []MemoryInv
<1>1. MemoryInit => MemoryInv
  BY MemoryInvInit
<1>2. MemoryInv /\ [MemoryNext]_memVars => MemoryInv'
  BY MemoryInvStep
<1>3. QED
  BY <1>1, <1>2, PTL DEF MemorySpec

(***************************************************************************)
(* The memory backend is type correct, for any number of keys, watches and *)
(* revisions: Memory.List, Memory.Compact and the goroutine of             *)
(* Memory.Watch never index outside the log or a history.                  *)
(***************************************************************************)
THEOREM MemoryTypeCorrect == MemorySpec => []MemoryTypeOK
<1>1. MemoryInv => MemoryTypeOK
  BY DEF MemoryInv
<1>2. QED
  BY <1>1, MemoryInvHolds, PTL

(***************************************************************************)
(* A read at a revision that is not compacted finds what the full history  *)
(* has: the floor that Memory.Compact keeps, and the tombstone it drops,   *)
(* change no answer of Memory.List, whatever was compacted before.         *)
(***************************************************************************)
THEOREM SnapshotsAreExact == MemorySpec => []SnapshotExact
<1>1. MemoryInv => SnapshotExact
  BY SnapshotFromInv
<1>2. QED
  BY <1>1, MemoryInvHolds, PTL

(***************************************************************************)
(* A watch passes over no entry: the index that logIndexAfter computes     *)
(* from the compact revision skips nothing, although the log begins below  *)
(* it.  Where a compaction may overtake a watch (Overtake), only what was  *)
(* compacted is missing.                                                   *)
(***************************************************************************)
THEOREM NoMemoryWatchGap == MemorySpec => []NoGapInWatch
<1>1. MemoryInv => NoGapInWatch
  BY NoGapFromInv
<1>2. QED
  BY <1>1, MemoryInvHolds, PTL

=============================================================================
