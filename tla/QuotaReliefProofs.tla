------------------------- MODULE QuotaReliefProofs -------------------------
(***************************************************************************)
(* Proofs about QuotaRelief, for every limit, lag, batch size, number of   *)
(* tries and set of keys, and however the sampler, the clients, the poll   *)
(* loop, time, autovacuum and resets of the statistics interleave.         *)
(***************************************************************************)
EXTENDS QuotaRelief, FiniteSetTheorems, SequenceTheorems, WellFoundedInduction, TLAPS

-----------------------------------------------------------------------------
(* The table. *)

(* A table that has a newest row, and whose rows replace older ones. *)
TableOK(R) ==
  /\ R \subseteq Row /\ IsFiniteSet(R)
  /\ \A r \in R : CompactRevKeyID < r.id /\ r.prev < r.id
  /\ \E r \in R : \A s \in R : s.id <= r.id

(* In such a table MAX(id) is the id of its newest row. *)
LEMMA HeadOf ==
  ASSUME NEW R, TableOK(R), NEW h \in R, \A s \in R : s.id <= h.id
  PROVE  CurrentRevision(R) = h.id
<1> DEFINE S == {CompactRevKeyID} \cup {r.id : r \in R}
<1>1. \A r \in R : r.id \in Nat /\ r.id > 1
  BY DEF TableOK, Row, CompactRevKeyID
<1>2. h.id \in S /\ \A r \in R : r.id <= h.id
  OBVIOUS
<1>3. ASSUME NEW m \in S, \A r \in R : r.id <= m PROVE m = h.id
  <2>1. m \in Nat /\ h.id <= m
    BY <1>1, <1>3 DEF CompactRevKeyID
  <2>2. m <= h.id
    BY <1>1, <1>2 DEF CompactRevKeyID
  <2>3. QED
    BY <1>1, <2>1, <2>2
<1>4. QED
  BY <1>2, <1>3 DEF CurrentRevision

(* MAX(id) is the id of a row, and bounds all of them. *)
LEMMA HeadExists ==
  ASSUME NEW R, TableOK(R)
  PROVE  /\ CurrentRevision(R) \in Nat /\ CurrentRevision(R) > 1
         /\ \A s \in R : s.id <= CurrentRevision(R)
         /\ \E r \in R : r.id = CurrentRevision(R)
<1>1. PICK h \in R : \A s \in R : s.id <= h.id
  BY DEF TableOK
<1>2. CurrentRevision(R) = h.id
  BY <1>1, HeadOf
<1>3. QED
  BY <1>1, <1>2 DEF TableOK, Row, CompactRevKeyID

(* An INSERT: the new row is the newest one, and there is one row more. *)
LEMMA InsertTable ==
  ASSUME NEW R, TableOK(R), NEW x \in Row, x.id = CurrentRevision(R) + 1, x.prev < x.id
  PROVE  /\ TableOK(R \cup {x})
         /\ CurrentRevision(R \cup {x}) = CurrentRevision(R) + 1
         /\ RowCount(R \cup {x}) = RowCount(R) + 1
         /\ RowCount(R) \in Nat
<1>1. /\ CurrentRevision(R) \in Nat /\ CurrentRevision(R) > 1
      /\ \A s \in R : s.id <= CurrentRevision(R)
  BY HeadExists
<1>2. \A s \in R : s.id \in Nat
  BY DEF TableOK, Row
<1>3. x \notin R /\ \A s \in R \cup {x} : s.id <= x.id
  BY <1>1, <1>2
<1>4. TableOK(R \cup {x})
  BY <1>1, <1>3, FS_AddElement DEF TableOK, CompactRevKeyID
<1>5. CurrentRevision(R \cup {x}) = x.id
  BY <1>3, <1>4, HeadOf
<1>6. IsFiniteSet(R)
  BY DEF TableOK
<1>7. Cardinality(R \cup {x}) = Cardinality(R) + 1 /\ Cardinality(R) \in Nat
  BY <1>3, <1>6, FS_AddElement, FS_CardinalityType
<1>8. QED
  BY <1>4, <1>5, <1>7 DEF RowCount

(* A compaction below the newest row leaves that row, and no more rows. *)
LEMMA CompactTable ==
  ASSUME NEW R, TableOK(R), NEW to \in Nat, to < CurrentRevision(R)
  PROVE  /\ TableOK(Compacted(R, to))
         /\ CurrentRevision(Compacted(R, to)) = CurrentRevision(R)
         /\ Cardinality(Compacted(R, to)) \in Nat /\ Cardinality(R) \in Nat
         /\ Cardinality(Compacted(R, to)) <= Cardinality(R)
<1> DEFINE C == Compacted(R, to)
<1>1. PICK h \in R : \A s \in R : s.id <= h.id
  BY DEF TableOK
<1>2. CurrentRevision(R) = h.id
  BY <1>1, HeadOf
<1>3. \A q \in R : q.id \in Nat /\ q.prev \in Nat /\ q.prev < q.id
  BY DEF TableOK, Row
<1>4. h \in C
  <2>1. ASSUME NEW q \in R, q.id <= to PROVE q.prev # h.id /\ q.id # h.id
    BY <1>2, <1>3, <2>1
  <2>2. QED
    BY <2>1 DEF Compacted, CompactedIds
<1>5. C \subseteq R
  BY DEF Compacted
<1>6. IsFiniteSet(R)
  BY DEF TableOK
<1>7. IsFiniteSet(C) /\ Cardinality(C) <= Cardinality(R) /\ Cardinality(C) \in Nat /\ Cardinality(R) \in Nat
  BY <1>5, <1>6, FS_Subset, FS_CardinalityType
<1>8. TableOK(C)
  BY <1>1, <1>4, <1>5, <1>7 DEF TableOK
<1>9. CurrentRevision(C) = h.id
  BY <1>1, <1>4, <1>5, <1>8, HeadOf
<1>10. QED
  BY <1>2, <1>7, <1>8, <1>9

-----------------------------------------------------------------------------
(***************************************************************************)
(* The inductive invariant.  Where the poll loop and the cached revision   *)
(* are, and what the age of a recorded revision says: every revision up to *)
(* it is at least as old, so all up to the target of a pass are Lag old.   *)
(***************************************************************************)
TableInv ==
  /\ TableOK(rows) /\ Newest <= MaxRev
  /\ polled <= Newest /\ cached <= Newest

AgedRevs == \A i \in DOMAIN revs :
  /\ revs[i].rev <= Newest
  /\ \A r \in 1 .. revs[i].rev : age[r] >= revs[i].age

AgedTarget ==
  /\ pass.target <= Newest /\ pass.bound <= pass.target /\ pass.bound <= polled
  /\ \A r \in 1 .. pass.target : age[r] >= Lag

Behind ==
  /\ relieved <= polled /\ relieved < Newest
  /\ \A r \in 1 .. relieved : age[r] >= Lag

ReliefInv == TypeOK /\ TableInv /\ AgedRevs /\ AgedTarget /\ Behind

LEMMA ReliefInit == Init => ReliefInv
<1> SUFFICES ASSUME Init PROVE ReliefInv
  OBVIOUS
<1> DEFINE k == CHOOSE k \in Keys : k # HealthKey
           a == [id |-> 2, name |-> k, created |-> TRUE, deleted |-> FALSE, createRev |-> 0, prev |-> 0]
           b == [id |-> 3, name |-> k, created |-> FALSE, deleted |-> FALSE, createRev |-> 2, prev |-> 2]
<1>1. k \in Keys
  BY ReliefAssumption
<1>2. InitRows = {a, b}
  BY DEF InitRows
<1>3. a \in Row /\ b \in Row /\ a.id = 2 /\ a.prev = 0 /\ b.id = 3 /\ b.prev = 2
  BY <1>1 DEF Row
<1> HIDE DEF k, a, b
<1>4. IsFiniteSet({a, b}) /\ Cardinality({a, b}) \in Nat
  <2>1. IsFiniteSet({a})
    BY FS_Singleton
  <2>2. {a, b} = {a} \cup {b}
    OBVIOUS
  <2>3. IsFiniteSet({a, b})
    BY <2>1, <2>2, FS_AddElement
  <2>4. QED
    BY <2>3, FS_CardinalityType
<1>5. TableOK(InitRows)
  BY <1>2, <1>3, <1>4 DEF TableOK, CompactRevKeyID
<1>6. CurrentRevision(InitRows) = 3
  BY <1>2, <1>3, <1>5, HeadOf
<1>7. RowCount(InitRows) \in Nat
  BY <1>2, <1>4 DEF RowCount
<1>8. InitRows \subseteq Row
  BY <1>5 DEF TableOK
<1>9. MaxRev \in Nat /\ 3 <= MaxRev /\ MaxResets \in Nat /\ Lag \in Nat /\ Tries \in Nat /\ Pause \in Nat
  BY ReliefAssumption
<1>10. TypeOK
  <2>1. rows \subseteq Row /\ compactRev \in 0 .. MaxRev /\ polled \in 0 .. MaxRev /\ cached \in 0 .. MaxRev
    BY <1>6, <1>8, <1>9 DEF Init
  <2>2. stats \in [ins : Nat, live : Nat, rel : Nat, vac : BOOLEAN, unflushed : Nat, own : Nat, file : Nat,
                   lost : BOOLEAN, resets : 0 .. MaxResets]
    BY <1>7, <1>9 DEF Init
  <2>3. pass \in [st : {"idle", "refresh", "relieve", "batch", "resample", "mark"}, target : 0 .. MaxRev, bound : 0 .. MaxRev,
                  deleted : BOOLEAN, to : 0 .. MaxRev, head : 0 .. MaxRev, failed : BOOLEAN]
    BY <1>9 DEF Init, NoPass
  <2>4. age \in [1 .. MaxRev -> 0 .. Lag]
    BY <1>6, <1>9 DEF Init
  <2>5. watch \in [ins : Nat \cup {-1}, vac : BOOLEAN, owed : BOOLEAN]
    BY DEF Init
  <2>6. revs \in Seq([age : 0 .. Lag, rev : 0 .. MaxRev])
    BY DEF Init
  <2>7. polling \in BOOLEAN /\ refreshOwed \in BOOLEAN /\ due \in BOOLEAN
    BY Zenon DEF Init
  <2>8. live \in Nat /\ refreshFails \in 0 .. Tries /\ refreshPaused \in 0 .. Pause /\ lastDelete \in {0, 1}
    BY <1>9 DEF Init
  <2>9. relieved \in 0 .. MaxRev
    BY <1>9 DEF Init
  <2>10. QED
    BY <2>1, <2>2, <2>3, <2>4, <2>5, <2>6, <2>7, <2>8, <2>9, Zenon DEF TypeOK
<1>11. TableInv
  BY <1>5, <1>6, <1>9 DEF Init, TableInv, Newest
<1>12. AgedRevs /\ AgedTarget /\ Behind
  BY <1>6 DEF Init, AgedRevs, AgedTarget, Behind, Newest, NoPass
<1>13. QED
  BY <1>10, <1>11, <1>12 DEF ReliefInv

-----------------------------------------------------------------------------
(* What a step does to the table. *)

Inserts == Newest < MaxRev /\ \E k \in Keys, deleted \in BOOLEAN : insertRow(k, deleted)

Compacts == \E to \in Nat :
  /\ pass.st = "batch"
  /\ to <= pass.bound /\ to < Newest
  /\ compactBatch(to)

LEMMA NewRowType ==
  ASSUME TypeOK, TableInv, NEW k \in Keys, NEW deleted \in BOOLEAN
  PROVE  newRow(k, deleted) \in Row /\ newRow(k, deleted).id = Newest + 1 /\ newRow(k, deleted).prev < Newest + 1
<1>1. Newest \in Nat /\ \A r \in rows : r.id <= Newest /\ r.id \in Nat
  BY HeadExists DEF TableInv, TableOK, Row, Newest
<1>2. ASSUME Latest(rows, k) # {}
      PROVE  (CHOOSE p \in Latest(rows, k) : TRUE) \in rows
  BY <1>2 DEF Latest
<1> DEFINE prev == IF Latest(rows, k) = {} THEN 0 ELSE (CHOOSE p \in Latest(rows, k) : TRUE).id
<1>3. prev \in Nat /\ prev < Newest + 1
  BY <1>1, <1>2
<1> DEFINE created == Latest(rows, k) = {}
<1>4. newRow(k, deleted) =
        [id |-> Newest + 1, name |-> k, deleted |-> deleted, created |-> created, createRev |-> 0, prev |-> prev]
  BY Zenon DEF newRow
<1>5. created \in BOOLEAN
  BY Zenon
<1> HIDE DEF prev, created
<1>6. QED
  BY <1>1, <1>3, <1>4, <1>5 DEF Row

LEMMA BatchCompacts ==
  ASSUME TypeOK, TableInv, pass.st = "batch", compactRev < reliefBound,
         compactBatch(min(reliefBound, compactRev + BatchSize))
  PROVE  Compacts
<1>1. Newest \in Nat
  BY HeadExists DEF TableInv, Newest
<1>2. pass.bound \in Nat /\ compactRev \in Nat /\ BatchSize \in Nat \ {0}
  BY ReliefAssumption DEF TypeOK
<1>3. reliefBound \in Int /\ reliefBound <= pass.bound /\ reliefBound < Newest
  BY <1>1, <1>2 DEF reliefBound, min
<1> DEFINE to == min(reliefBound, compactRev + BatchSize)
<1>4. to \in Nat /\ to <= reliefBound
  BY <1>2, <1>3 DEF min
<1>5. to <= pass.bound /\ to < Newest
  BY <1>1, <1>2, <1>3, <1>4
<1>6. QED
  BY <1>4, <1>5 DEF Compacts

LEMMA ClientInserts ==
  ASSUME TableInv, ClientWrite PROVE Inserts
<1>1. \E k \in Keys, deleted \in BOOLEAN : insertRow(k, deleted)
  BY Zenon DEF ClientWrite
<1>2. Newest \in Nat
  BY HeadExists DEF TableInv, Newest
<1>3. Newest < MaxRev
  BY <1>2, ReliefAssumption DEF ClientWrite
<1>4. QED
  BY <1>1, <1>3 DEF Inserts

(* kine's own compactor stays below the newest row as well. *)
LEMMA OwnCompacts ==
  ASSUME TypeOK, TableInv, compact
  PROVE  \E to \in Nat : to < Newest /\ rows' = Compacted(rows, to) /\ compactRev' = to
<1>1. Newest \in Nat /\ compactRev \in Nat /\ MinRetain \in Nat \ {0}
  BY HeadExists, ReliefAssumption DEF TableInv, TypeOK, Newest
<1>2. PICK to \in compactRev + 1 .. Newest - MinRetain : rows' = Compacted(rows, to) /\ compactRev' = to
  BY DEF compact
<1>3. to \in Nat /\ to < Newest
  BY <1>1
<1>4. QED
  BY <1>2, <1>3

LEMMA TableSteps ==
  ASSUME TypeOK, TableInv, [Next]_vars
  PROVE  UNCHANGED table \/ Inserts \/ Compacts \/ compact
<1>1. MaxClientRev \in Nat /\ MaxRev \in Nat /\ MaxClientRev < MaxRev /\ HealthKey \in Keys
  BY ReliefAssumption
<1>2. Newest \in Nat
  BY HeadExists DEF TableInv, Newest
<1>3. CASE ClientWrite
  BY <1>3, ClientInserts
<1>4. CASE markHead
  BY <1>1, <1>4 DEF markHead, Inserts, table
<1>5. CASE reliefBatch \/ reliefCommitLost
  BY <1>5, BatchCompacts DEF reliefBatch, reliefCommitLost
<1>6. CASE \/ UNCHANGED vars \/ Poll \/ Elapse \/ Autovacuum \/ Reset
           \/ tick \/ refresh \/ refreshFailed \/ startPolling \/ relieveBegins \/ reliefDone \/ reliefFails
           \/ resample \/ relieveReturns
  BY <1>6 DEF vars, table, Poll, Elapse, Autovacuum, Reset, tick, refresh, refreshFailed, startPolling, relieveBegins,
              reliefDone, reliefFails, resample, relieveReturns
<1>7. QED
  BY <1>3, <1>4, <1>5, <1>6 DEF Next, Sampler

(* The newest revision after a step. *)
LEMMA NewestStep ==
  ASSUME TypeOK, TableInv, [Next]_vars
  PROVE  /\ Newest \in Nat /\ Newest' \in Nat /\ TableOK(rows') /\ Newest' <= MaxRev
         /\ Newest' >= Newest
         /\ Inserts => Newest' = Newest + 1
<1>1. Newest \in Nat /\ Newest <= MaxRev /\ MaxRev \in Nat
  BY HeadExists, ReliefAssumption DEF TableInv, Newest
<1>2. CASE Inserts
  <2>1. PICK k \in Keys, deleted \in BOOLEAN : rows' = rows \cup {newRow(k, deleted)}
    BY <1>2 DEF Inserts, insertRow
  <2>2. Newest' = Newest + 1 /\ TableOK(rows')
    BY <2>1, NewRowType, InsertTable DEF TableInv, Newest
  <2>3. QED
    BY <1>1, <1>2, <2>2 DEF Inserts
<1>3. CASE Compacts /\ ~Inserts
  <2>1. PICK to \in Nat : to < Newest /\ rows' = Compacted(rows, to)
    BY <1>3 DEF Compacts, compactBatch
  <2>2. Newest' = Newest /\ TableOK(rows')
    BY <2>1, CompactTable DEF TableInv, Newest
  <2>3. QED
    BY <1>1, <1>3, <2>2
<1>4. CASE compact /\ ~Inserts
  <2>1. PICK to \in Nat : to < Newest /\ rows' = Compacted(rows, to)
    BY <1>4, OwnCompacts
  <2>2. Newest' = Newest /\ TableOK(rows')
    BY <2>1, CompactTable DEF TableInv, Newest
  <2>3. QED
    BY <1>1, <1>4, <2>2
<1>5. CASE UNCHANGED table /\ ~Inserts
  BY <1>1, <1>5 DEF table, Newest, TableInv
<1>6. QED
  BY <1>2, <1>3, <1>4, <1>5, TableSteps

-----------------------------------------------------------------------------
(* Type correctness: one lemma for each variable that several actions change. *)

StatsType == [ins : Nat, live : Nat, rel : Nat, vac : BOOLEAN, unflushed : Nat, own : Nat, file : Nat,
              lost : BOOLEAN, resets : 0 .. MaxResets]

PassType == [st : {"idle", "refresh", "relieve", "batch", "resample", "mark"}, target : 0 .. MaxRev, bound : 0 .. MaxRev,
             deleted : BOOLEAN, to : 0 .. MaxRev, head : 0 .. MaxRev, failed : BOOLEAN]

WatchType == [ins : Nat \cup {-1}, vac : BOOLEAN, owed : BOOLEAN]

(* The statistics change with an insert, a batch, a VACUUM, a flush and a reset, and not otherwise. *)
LEMMA StatsSteps ==
  ASSUME TypeOK, TableInv, [Next]_vars
  PROVE  \/ Inserts /\ inserted /\ UNCHANGED watch
         \/ Compacts /\ UNCHANGED watch
         \/ compact \/ Autovacuum \/ refresh \/ Elapse \/ Reset
         \/ UNCHANGED <<stats, rows>>
<1>1. CASE Inserts /\ UNCHANGED watch
  BY <1>1 DEF Inserts, insertRow
<1>2. CASE ClientWrite
  <2>1. Inserts /\ UNCHANGED watch
    BY <1>2, ClientInserts DEF ClientWrite
  <2>2. QED
    BY <1>1, <2>1
<1>3. CASE markHead
  <2>1. CASE UNCHANGED <<table, stats, cached>>
    BY <2>1 DEF table
  <2>2. CASE insertRow(HealthKey, FALSE)
    BY <1>1, <1>3, <2>2, ReliefAssumption DEF markHead, Inserts
  <2>3. QED
    BY <1>3, <2>1, <2>2 DEF markHead
<1>4. CASE reliefBatch \/ reliefCommitLost
  BY <1>4, BatchCompacts DEF reliefBatch, reliefCommitLost
<1>5. CASE \/ UNCHANGED vars \/ Poll
           \/ tick \/ refreshFailed \/ startPolling \/ relieveBegins \/ reliefDone \/ reliefFails
           \/ resample \/ relieveReturns
  BY <1>5 DEF vars, table, Poll, tick, refreshFailed, startPolling, relieveBegins, reliefDone, reliefFails, resample, relieveReturns
<1>6. QED
  BY <1>2, <1>3, <1>4, <1>5 DEF Next, Sampler

LEMMA StatsTypeStep ==
  ASSUME TypeOK, TableInv, [Next]_vars
  PROVE  stats' \in StatsType
<1>1. stats \in StatsType
  BY DEF TypeOK, StatsType
<1>2. RowCount(rows) \in Nat /\ RowCount(rows') \in Nat
  <2>1. TableOK(rows) /\ TableOK(rows')
    BY NewestStep DEF TableInv
  <2>2. QED
    BY <2>1, FS_CardinalityType DEF TableOK, RowCount
<1>3. CASE Inserts /\ inserted
  <2> DEFINE file == IF RowCount(rows') > stats.file THEN RowCount(rows') ELSE stats.file
             ins == stats.ins + 1
             lv == stats.live + 1
  <2>1. file \in Nat /\ ins \in Nat /\ lv \in Nat
    BY <1>1, <1>2 DEF StatsType
  <2>2. stats' = [stats EXCEPT !.ins = ins, !.live = lv, !.file = file]
    BY <1>3 DEF inserted
  <2> HIDE DEF file, ins, lv
  <2>3. QED
    BY <1>1, <2>1, <2>2 DEF StatsType
<1>4. CASE Compacts
  <2>1. PICK to \in Nat : to < Newest /\ compactBatch(to)
    BY <1>4 DEF Compacts
  <2>2. Cardinality(rows') \in Nat /\ Cardinality(rows) \in Nat /\ Cardinality(rows') <= Cardinality(rows)
    BY <2>1, CompactTable DEF TableInv, Newest, compactBatch
  <2>3. QED
    BY <1>1, <2>1, <2>2 DEF compactBatch, StatsType
<1>5. vacuumed(stats) \in StatsType
  BY <1>1, <1>2 DEF vacuumed, StatsType
<1>6. flushed(stats) \in StatsType
  <2>1. Max0(stats.live - (stats.unflushed + stats.own)) \in Nat
    BY <1>1 DEF StatsType, Max0
  <2>2. QED
    BY <1>1, <2>1 DEF flushed, StatsType
<1>7. CASE Reset
  <2>1. stats.resets + 1 \in 0 .. MaxResets
    BY <1>1, <1>7, ReliefAssumption DEF Reset, StatsType
  <2>2. QED
    BY <1>1, <1>7, <2>1 DEF Reset, StatsType
<1>8. CASE compact
  <2>1. PICK to \in Nat : to < Newest /\ rows' = Compacted(rows, to)
    BY <1>8, OwnCompacts
  <2>2. Cardinality(rows') \in Nat /\ Cardinality(rows) \in Nat /\ Cardinality(rows') <= Cardinality(rows)
    BY <2>1, CompactTable DEF TableInv, Newest
  <2>3. QED
    BY <1>1, <1>8, <2>2 DEF compact, StatsType
<1>9. QED
  BY <1>1, <1>3, <1>4, <1>5, <1>6, <1>7, <1>8, StatsSteps DEF Autovacuum, refresh, Elapse

(* What a sample stores. *)
LEMMA SampleType ==
  ASSUME TypeOK, Sampled
  PROVE  live' \in Nat /\ watch' \in WatchType
<1>1. stats \in StatsType /\ watch \in WatchType
  BY DEF TypeOK, StatsType, WatchType
<1>2. liveSize \in Nat
  BY <1>1 DEF liveSize, StatsType
<1> DEFINE o == owed
<1>3. o \in BOOLEAN
  BY <1>1, Zenon DEF owed
<1>4. live' = liveSize /\ watch' = [ins |-> stats.ins, vac |-> stats.vac, owed |-> o]
  BY DEF Sampled
<1> HIDE DEF o
<1>5. QED
  BY <1>1, <1>2, <1>3, <1>4 DEF StatsType, WatchType

(* A nonempty set of natural numbers has a least one. *)
LEMMA LeastOf ==
  ASSUME NEW S, S \subseteq Nat, S # {}
  PROVE  \E x \in S : \A y \in S : x <= y
<1> DEFINE R == {p \in Nat \X Nat : p[1] < p[2]}
<1>1. IsWellFoundedOn(R, Nat)
  BY NatLessThanWellFounded DEF OpToRel
<1> HIDE DEF R
<1>2. PICK x \in S : \A y \in S : ~(<<y, x>> \in R)
  BY <1>1, WFMin
<1>3. ASSUME NEW y \in S PROVE x <= y
  <2>1. y < x => <<y, x>> \in R
    BY DEF R
  <2>2. QED
    BY <1>2, <2>1
<1>4. QED
  BY <1>3

(* The entries that are old enough have a last one. *)
LEMMA LaggedHasLast ==
  ASSUME TypeOK, lagged # {}
  PROVE  \E i \in lagged : \A j \in lagged : j <= i
<1>1. revs \in Seq([age : 0 .. Lag, rev : 0 .. MaxRev])
  BY DEF TypeOK
<1>2. lagged \subseteq 1 .. Len(revs) /\ Len(revs) \in Nat
  BY <1>1 DEF lagged
<1> DEFINE up == {Len(revs) - i : i \in lagged}
<1>3. up \subseteq Nat /\ up # {}
  <2>1. \A i \in lagged : Len(revs) - i \in Nat
    BY <1>2
  <2>2. QED
    BY <2>1
<1>4. PICK x \in up : \A y \in up : x <= y
  BY <1>3, LeastOf
<1>5. PICK i \in lagged : x = Len(revs) - i
  OBVIOUS
<1>6. ASSUME NEW j \in lagged PROVE j <= i
  <2>1. x <= Len(revs) - j
    BY <1>4
  <2>2. QED
    BY <1>2, <1>5, <2>1
<1>7. QED
  BY <1>6

LEMMA KeptType ==
  ASSUME TypeOK
  PROVE  keptRevs \in Seq([age : 0 .. Lag, rev : 0 .. MaxRev])
<1> DEFINE E == [age : 0 .. Lag, rev : 0 .. MaxRev]
<1>1. revs \in Seq(E)
  BY DEF TypeOK
<1> HIDE DEF E
<1>2. CASE lagged = {}
  BY <1>1, <1>2 DEF keptRevs, E
<1>3. CASE lagged # {}
  <2>1. \E i \in lagged : \A j \in lagged : j <= i
    BY <1>3, LaggedHasLast
  <2>2. PICK i \in lagged : keptRevs = SubSeq(revs, i, Len(revs))
    BY <1>3, <2>1 DEF keptRevs
  <2>3. i \in 1 .. Len(revs)
    BY <1>1, <2>2 DEF lagged
  <2>4. keptRevs \in Seq(E)
    BY <1>1, <2>2, <2>3
  <2>5. QED
    BY <2>4 DEF E
<1>4. QED
  BY <1>2, <1>3

LEMMA RevsType ==
  ASSUME TypeOK, TableInv, [Next]_vars
  PROVE  revs' \in Seq([age : 0 .. Lag, rev : 0 .. MaxRev])
<1> DEFINE E == [age : 0 .. Lag, rev : 0 .. MaxRev]
<1>1. revs \in Seq(E) /\ cached \in 0 .. MaxRev /\ Lag \in Nat
  BY ReliefAssumption DEF TypeOK
<1> HIDE DEF E
<1>2. CASE UNCHANGED revs
  BY <1>1, <1>2 DEF E
<1>3. CASE Elapse
  <2>1. \A i \in DOMAIN revs : [revs[i] EXCEPT !.age = older(@, Lag)] \in E
    <3>1. ASSUME NEW i \in DOMAIN revs PROVE [revs[i] EXCEPT !.age = older(@, Lag)] \in E
      <4>1. revs[i] \in E
        BY <1>1
      <4>2. older(revs[i].age, Lag) \in 0 .. Lag
        BY <1>1, <4>1 DEF older, E
      <4>3. QED
        BY <4>1, <4>2 DEF E
    <3>2. QED
      BY <3>1
  <2>2. Len(revs) \in Nat /\ DOMAIN revs = 1 .. Len(revs)
    BY <1>1
  <2>3. revs' \in [1 .. Len(revs) -> E]
    BY <1>3, <2>1, <2>2 DEF Elapse
  <2>4. revs' \in Seq(E)
    BY <2>2, <2>3, IsASeq
  <2>5. QED
    BY <2>4 DEF E
<1>4. CASE tick
  <2>1. keptRevs \in Seq(E)
    BY KeptType DEF E
  <2>2. [age |-> 0, rev |-> cached] \in E
    BY <1>1 DEF E
  <2>3. Append(keptRevs, [age |-> 0, rev |-> cached]) \in Seq(E)
    BY <2>1, <2>2
  <2>4. QED
    BY <1>2, <1>4, <2>3 DEF tick, tickPass, E
<1>5. CASE \/ UNCHANGED vars \/ Poll \/ ClientWrite \/ Autovacuum \/ Reset
           \/ refresh \/ refreshFailed \/ startPolling \/ compact \/ relieveBegins \/ reliefDone \/ reliefFails \/ reliefBatch
           \/ reliefCommitLost \/ resample \/ relieveReturns \/ markHead
  BY <1>2, <1>5 DEF vars, quota, Poll, ClientWrite, Autovacuum, Reset, refresh, refreshFailed, startPolling, compact, relieveBegins,
     reliefDone, reliefFails, reliefBatch, reliefCommitLost, resample, relieveReturns, markHead
<1>6. QED
  BY <1>3, <1>4, <1>5 DEF Next, Sampler, E

LEMMA RevEntry ==
  ASSUME TypeOK, NEW i \in DOMAIN revs
  PROVE  revs[i].age \in 0 .. Lag /\ revs[i].rev \in 0 .. MaxRev
<1> DEFINE E == [age : 0 .. Lag, rev : 0 .. MaxRev]
<1>1. revs \in Seq(E)
  BY DEF TypeOK
<1> HIDE DEF E
<1>2. revs[i] \in E
  BY <1>1
<1>3. QED
  BY <1>2 DEF E

(* The target of a pass is a recorded revision of the age QuotaReliefLag, or 0. *)
LEMMA TargetRecorded ==
  ASSUME TypeOK
  PROVE  \/ reliefTarget = 0
         \/ \E i \in DOMAIN revs : reliefTarget = revs[i].rev /\ revs[i].age >= Lag
<1>1. CASE lagged = {}
  BY <1>1 DEF reliefTarget
<1>2. CASE lagged # {}
  <2>1. \E i \in lagged : \A j \in lagged : j <= i
    BY <1>2, LaggedHasLast
  <2>2. PICK i \in lagged : reliefTarget = revs[i].rev
    BY <1>2, <2>1 DEF reliefTarget
  <2>3. QED
    BY <2>2 DEF lagged
<1>3. QED
  BY <1>1, <1>2

LEMMA NoPassType ==
  ASSUME NEW st \in {"idle", "refresh", "relieve", "resample"}, NEW target \in 0 .. MaxRev
  PROVE  /\ NoPass \in PassType /\ NoPass.target = 0 /\ NoPass.bound = 0 /\ NoPass.st = "idle"
         /\ [NoPass EXCEPT !.st = st] \in PassType
         /\ [NoPass EXCEPT !.st = st].target = 0 /\ [NoPass EXCEPT !.st = st].bound = 0
         /\ [NoPass EXCEPT !.st = st, !.target = target] \in PassType
         /\ [NoPass EXCEPT !.st = st, !.target = target].target = target
         /\ [NoPass EXCEPT !.st = st, !.target = target].bound = 0
<1>1. 0 \in 0 .. MaxRev
  BY ReliefAssumption
<1>2. NoPass \in PassType /\ NoPass.target = 0 /\ NoPass.bound = 0 /\ NoPass.st = "idle"
  BY <1>1 DEF NoPass, PassType
<1>3. QED
  BY <1>2 DEF PassType

(* The end of a pass. *)
LEMMA EndsType ==
  ASSUME TypeOK, NEW p \in PassType, NEW stale \in BOOLEAN, relieveEnds(p, stale)
  PROVE  /\ pass' \in PassType /\ pass'.target = p.target /\ pass'.bound = p.bound
         /\ refreshOwed' \in BOOLEAN /\ lastDelete' \in {0, 1}
<1> DEFINE st == IF p.deleted THEN "resample" ELSE "mark"
<1>1. st \in {"resample", "mark"}
  BY Zenon
<1>2. pass' = [p EXCEPT !.st = st]
  BY DEF relieveEnds
<1> HIDE DEF st
<1>3. pass' \in PassType /\ pass'.target = p.target /\ pass'.bound = p.bound
  BY <1>1, <1>2 DEF PassType
<1>4. refreshOwed' \in BOOLEAN
  BY Zenon DEF relieveEnds
<1>5. lastDelete' \in {0, 1}
  BY DEF relieveEnds, TypeOK
<1>6. QED
  BY <1>3, <1>4, <1>5

LEMMA PassTypeStep ==
  ASSUME TypeOK, TableInv, Next
  PROVE  /\ pass' \in PassType
         /\ refreshOwed' \in BOOLEAN /\ lastDelete' \in {0, 1}
         /\ \/ pass'.target = pass.target /\ pass'.bound = pass.bound
            \/ pass'.target = 0 /\ pass'.bound = 0
            \/ pass'.target = reliefTarget /\ pass'.bound = 0
            \/ relieveBegins /\ pass'.target = pass.target /\ pass'.bound = min(pass.target, polled)
<1>1. pass \in PassType /\ refreshOwed \in BOOLEAN /\ lastDelete \in {0, 1}
  BY DEF TypeOK, PassType
<1>2. Newest \in 0 .. MaxRev /\ MaxRev \in Nat
  BY HeadExists, ReliefAssumption DEF TableInv, Newest
<1>3. compactRev \in 0 .. MaxRev
  BY DEF TypeOK
<1>4. pass.deleted \in BOOLEAN
  BY <1>1 DEF PassType
<1>5. CASE tick
  <2>1. reliefTarget \in 0 .. MaxRev
    <3>1. CASE reliefTarget = 0
      BY <1>2, <3>1
    <3>2. QED
      BY <3>1, RevEntry, TargetRecorded
  <2>2. /\ NoPass \in PassType /\ NoPass.target = 0 /\ NoPass.bound = 0
        /\ [NoPass EXCEPT !.st = "refresh"] \in PassType
        /\ [NoPass EXCEPT !.st = "refresh"].target = 0 /\ [NoPass EXCEPT !.st = "refresh"].bound = 0
        /\ [NoPass EXCEPT !.st = "relieve", !.target = reliefTarget] \in PassType
        /\ [NoPass EXCEPT !.st = "relieve", !.target = reliefTarget].target = reliefTarget
        /\ [NoPass EXCEPT !.st = "relieve", !.target = reliefTarget].bound = 0
    BY <2>1, NoPassType
  <2>3. /\ pass' \in PassType
        /\ \/ pass'.target = pass.target /\ pass'.bound = pass.bound
           \/ pass'.target = 0 /\ pass'.bound = 0
           \/ pass'.target = reliefTarget /\ pass'.bound = 0
    <3>1. CASE UNCHANGED pass
      BY <1>1, <3>1
    <3>2. CASE tickPass
      BY <3>2, <2>2, Zenon DEF tickPass
    <3>3. QED
      BY <1>5, <3>1, <3>2 DEF tick
  <2>4. refreshOwed' \in BOOLEAN
    <3>1. CASE refreshOwed' = refreshOwed
      BY <1>1, <3>1
    <3>2. CASE refreshOwed' = (refreshOwed \/ watch'.owed)
      BY <3>2, Zenon
    <3>3. QED
      BY <1>5, <3>1, <3>2 DEF tick, tickPass
  <2>5. lastDelete' \in {0, 1}
    BY <1>1, <1>5 DEF tick
  <2>6. QED
    BY <1>5, <2>3, <2>4, <2>5
<1>6. CASE reliefDone
  <2>1. PICK failed \in {FALSE, pass.deleted} :
          relieveEnds([pass EXCEPT !.to = compactRev, !.head = Newest, !.failed = failed], pass.deleted)
    BY <1>6 DEF reliefDone
  <2> DEFINE p == [pass EXCEPT !.to = compactRev, !.head = Newest, !.failed = failed]
  <2>2. p \in PassType /\ p.target = pass.target /\ p.bound = pass.bound
    BY <1>1, <1>2, <1>3, <1>4 DEF PassType
  <2> HIDE DEF p
  <2>3. relieveEnds(p, pass.deleted)
    BY <2>1 DEF p
  <2>4. QED
    BY <1>4, <2>2, <2>3, EndsType
<1>7. CASE reliefFails \/ reliefCommitLost
  <2> DEFINE p == [pass EXCEPT !.failed = TRUE]
  <2>1. p \in PassType /\ p.target = pass.target /\ p.bound = pass.bound
    BY <1>1 DEF PassType
  <2>2. relieveEnds(p, pass.deleted) \/ relieveEnds(p, TRUE)
    BY <1>7 DEF reliefFails, reliefCommitLost
  <2> HIDE DEF p
  <2>3. TRUE \in BOOLEAN
    OBVIOUS
  <2>4. QED
    BY <1>4, <2>1, <2>2, <2>3, EndsType
<1>8. CASE reliefBatch
  <2> DEFINE to == min(reliefBound, compactRev + BatchSize)
             d == pass.deleted \/ rows' # rows
             p == [pass EXCEPT !.to = to, !.head = Newest, !.deleted = d]
  <2>1. d \in BOOLEAN
    BY <1>4, Zenon
  <2>2. to \in 0 .. MaxRev
    <3>1. pass.bound \in Nat /\ BatchSize \in Nat /\ compactRev < reliefBound
      BY <1>8, ReliefAssumption DEF reliefBatch, TypeOK
    <3>2. QED
      BY <1>2, <1>3, <3>1 DEF reliefBound, min
  <2> HIDE DEF d, to
  <2>3. p \in PassType /\ p.target = pass.target /\ p.bound = pass.bound /\ p.deleted = d
    BY <1>1, <1>2, <2>1, <2>2 DEF PassType
  <2>4. \/ pass' = p /\ UNCHANGED <<refreshOwed, lastDelete>>
        \/ \E failed \in {FALSE, p.deleted} : relieveEnds([p EXCEPT !.failed = failed], p.deleted)
    BY <1>8 DEF reliefBatch, d, to
  <2> HIDE DEF p
  <2>5. ASSUME NEW failed \in {FALSE, p.deleted}
        PROVE  /\ [p EXCEPT !.failed = failed] \in PassType
               /\ [p EXCEPT !.failed = failed].target = pass.target /\ [p EXCEPT !.failed = failed].bound = pass.bound
    BY <2>1, <2>3 DEF PassType
  <2>6. p.deleted \in BOOLEAN
    BY <2>1, <2>3
  <2>7. ASSUME NEW failed \in {FALSE, p.deleted}, relieveEnds([p EXCEPT !.failed = failed], p.deleted)
        PROVE  /\ pass' \in PassType /\ pass'.target = pass.target /\ pass'.bound = pass.bound
               /\ refreshOwed' \in BOOLEAN /\ lastDelete' \in {0, 1}
    <3> DEFINE q == [p EXCEPT !.failed = failed]
    <3>1. q \in PassType /\ q.target = pass.target /\ q.bound = pass.bound
      BY <2>5
    <3> HIDE DEF q
    <3>2. relieveEnds(q, p.deleted)
      BY <2>7 DEF q
    <3>3. QED
      BY <2>6, <3>1, <3>2, EndsType
  <2>8. QED
    BY <1>1, <2>3, <2>4, <2>7
<1>9. CASE resample
  <2>1. /\ [pass EXCEPT !.st = "mark"] \in PassType
        /\ [pass EXCEPT !.st = "mark"].target = pass.target /\ [pass EXCEPT !.st = "mark"].bound = pass.bound
    BY <1>1 DEF PassType
  <2>2. QED
    BY <1>1, <1>9, <2>1 DEF resample, refreshState
<1>10. CASE refresh
  <2>1. /\ [NoPass EXCEPT !.st = "resample"] \in PassType
        /\ [NoPass EXCEPT !.st = "resample"].target = 0 /\ [NoPass EXCEPT !.st = "resample"].bound = 0
    BY <1>3, NoPassType
  <2>2. QED
    BY <1>1, <1>10, <2>1 DEF refresh
<1>11. CASE refreshFailed \/ startPolling \/ relieveReturns \/ markHead
  BY <1>1, <1>3, <1>11, NoPassType DEF refreshFailed, startPolling, relieveReturns, markHead, quota, refreshState
<1>12. CASE Elapse
  BY <1>1, <1>12 DEF Elapse
<1>13. CASE Poll \/ ClientWrite \/ compact \/ Autovacuum \/ Reset
  BY <1>1, <1>13 DEF Poll, ClientWrite, compact, Autovacuum, Reset, quota, refreshState
<1>14. CASE relieveBegins
  <2> DEFINE b == min(pass.target, polled)
  <2>1. b \in 0 .. MaxRev
    BY <1>1, <1>2 DEF min, PassType, TypeOK
  <2>2. pass' = [pass EXCEPT !.st = "batch", !.bound = b] /\ UNCHANGED <<refreshOwed, lastDelete>>
    BY <1>14 DEF relieveBegins, quota, refreshState
  <2> HIDE DEF b
  <2>3. pass' \in PassType /\ pass'.target = pass.target /\ pass'.bound = b
    BY <1>1, <2>1, <2>2 DEF PassType
  <2>4. QED
    BY <1>1, <1>14, <2>2, <2>3 DEF b
<1>15. QED
  BY <1>5, <1>6, <1>7, <1>8, <1>9, <1>10, <1>11, <1>12, <1>13, <1>14 DEF Next, Sampler

(* The poll loop and the cached revision stay at or below the newest row. *)
LEMMA PollerStep ==
  ASSUME TypeOK, TableInv, [Next]_vars
  PROVE  /\ polled' \in Nat /\ cached' \in Nat
         /\ polled' <= Newest' /\ cached' <= Newest' /\ polled' >= polled
         /\ polling' \in BOOLEAN
<1>1. Newest \in Nat /\ Newest' \in Nat /\ Newest' >= Newest /\ (Inserts => Newest' = Newest + 1)
  BY NewestStep
<1>2. polled \in Nat /\ cached \in Nat /\ polled <= Newest /\ cached <= Newest
  BY DEF TypeOK, TableInv
<1>3. polling' \in BOOLEAN
  BY DEF Next, Sampler, vars, poller, Poll, Elapse, Autovacuum, Reset, tick, refresh, refreshFailed, startPolling, compact, relieveBegins,
     reliefDone, reliefFails, resample, relieveReturns, ClientWrite, markHead, reliefBatch, reliefCommitLost, TypeOK
<1>4. CASE UNCHANGED <<polled, cached>>
  BY <1>1, <1>2, <1>3, <1>4
<1>5. CASE ClientWrite
  <2>1. Inserts /\ cached' = Newest + 1 /\ polled' = polled
    BY <1>5, ClientInserts DEF ClientWrite
  <2>2. QED
    BY <1>1, <1>2, <1>3, <2>1
<1>6. CASE markHead
  <2>1. CASE UNCHANGED cached
    BY <1>4, <1>6, <2>1 DEF markHead
  <2>2. CASE insertRow(HealthKey, FALSE) /\ cached' = Newest + 1
    <3>1. Inserts
      BY <1>6, <2>2, ReliefAssumption DEF markHead, Inserts
    <3>2. QED
      BY <1>1, <1>2, <1>3, <1>6, <2>2, <3>1 DEF markHead
  <2>3. QED
    BY <1>6, <2>1, <2>2 DEF markHead
<1>7. CASE Poll
  BY <1>1, <1>2, <1>3, <1>7 DEF Poll
<1>8. CASE \/ UNCHANGED vars \/ Elapse \/ Autovacuum \/ Reset
           \/ tick \/ refresh \/ refreshFailed \/ startPolling \/ compact \/ relieveBegins \/ reliefDone \/ reliefFails \/ reliefBatch
           \/ reliefCommitLost \/ resample \/ relieveReturns
  BY <1>4, <1>8 DEF vars, poller, Elapse, Autovacuum, Reset, tick, refresh, refreshFailed, startPolling, compact, relieveBegins,
              reliefDone, reliefFails, reliefBatch, reliefCommitLost, resample, relieveReturns
<1>9. QED
  BY <1>5, <1>6, <1>7, <1>8 DEF Next, Sampler

(* Only a batch of the relief moves the history variable of what it compacted. *)
LEMMA RelievedSteps ==
  ASSUME TypeOK, TableInv, [Next]_vars
  PROVE  relieved' = relieved \/ Compacts
<1>1. CASE reliefBatch \/ reliefCommitLost
  BY <1>1, BatchCompacts DEF reliefBatch, reliefCommitLost
<1>2. QED
  BY <1>1 DEF Next, Sampler, vars, Poll, Elapse, Autovacuum, Reset, tick, refresh, refreshFailed, startPolling,
     relieveBegins, compact, reliefDone, reliefFails, resample, relieveReturns, ClientWrite, markHead

LEMMA TypeStep ==
  ASSUME TypeOK, TableInv, [Next]_vars
  PROVE  TypeOK'
<1> USE DEF StatsType, PassType, WatchType
<1>1. CASE UNCHANGED vars
  <2>1. /\ rows' = rows /\ compactRev' = compactRev /\ polling' = polling /\ polled' = polled /\ cached' = cached
        /\ stats' = stats /\ watch' = watch /\ live' = live /\ revs' = revs /\ refreshOwed' = refreshOwed
        /\ refreshFails' = refreshFails /\ refreshPaused' = refreshPaused /\ lastDelete' = lastDelete
        /\ pass' = pass /\ due' = due /\ age' = age /\ relieved' = relieved
    BY <1>1 DEF vars, table, poller, quota, refreshState
  <2>2. rows' \subseteq Row /\ compactRev' \in 0 .. MaxRev /\ polled' \in 0 .. MaxRev /\ cached' \in 0 .. MaxRev
    BY <2>1 DEF TypeOK
  <2>3. stats' \in StatsType
    BY <2>1 DEF TypeOK
  <2>4. watch' \in WatchType
    BY <2>1 DEF TypeOK
  <2>5. pass' \in PassType
    BY <2>1 DEF TypeOK
  <2>6. revs' \in Seq([age : 0 .. Lag, rev : 0 .. MaxRev])
    BY <2>1, RevsType
  <2>7. polling' \in BOOLEAN /\ refreshOwed' \in BOOLEAN /\ due' \in BOOLEAN
    BY <2>1 DEF TypeOK
  <2>8. live' \in Nat /\ refreshFails' \in 0 .. Tries /\ refreshPaused' \in 0 .. Pause /\ lastDelete' \in {0, 1}
    BY <2>1 DEF TypeOK
  <2>9. age' \in [1 .. MaxRev -> 0 .. Lag] /\ relieved' \in 0 .. MaxRev
    BY <2>1 DEF TypeOK
  <2>10. QED
    BY <2>2, <2>3, <2>4, <2>5, <2>6, <2>7, <2>8, <2>9, Zenon DEF TypeOK
<1>2. CASE Next
  <2>1. rows' \subseteq Row /\ Newest' \in Nat /\ Newest' <= MaxRev /\ MaxRev \in Nat /\ Newest \in Nat /\ Newest <= MaxRev
    BY NewestStep, ReliefAssumption DEF TableOK, TableInv
  <2>2. compactRev' \in 0 .. MaxRev
    <3>1. CASE compactRev' = compactRev
      BY <3>1 DEF TypeOK
    <3>2. CASE Compacts
      BY <2>1, <3>2 DEF Compacts, compactBatch
    <3>3. CASE compact
      BY <2>1, <3>3, OwnCompacts
    <3>4. QED
      BY <3>1, <3>2, <3>3, TableSteps DEF Inserts, insertRow, table
  <2>3. polling' \in BOOLEAN /\ polled' \in 0 .. MaxRev /\ cached' \in 0 .. MaxRev
    BY <2>1, PollerStep
  <2>4. stats' \in StatsType
    BY StatsTypeStep
  <2>5. watch' \in WatchType /\ live' \in Nat
    <3>1. watch \in WatchType /\ live \in Nat
      BY DEF TypeOK
    <3>2. CASE Sampled
      BY <3>2, SampleType
    <3>3. CASE UNCHANGED <<live, watch>>
      BY <3>1, <3>3
    <3>4. CASE refresh
      BY <3>1, <3>4 DEF refresh
    <3>5. QED
      BY <1>2, <3>2, <3>3, <3>4 DEF Next, Sampler, quota, Poll, Elapse, Autovacuum, Reset, tick, tickSample, refreshFailed,
         startPolling, compact, relieveBegins, reliefDone, reliefFails, resample, relieveReturns, ClientWrite, markHead, reliefBatch, reliefCommitLost
  <2>6. revs' \in Seq([age : 0 .. Lag, rev : 0 .. MaxRev])
    BY RevsType
  <2>7. pass' \in PassType /\ refreshOwed' \in BOOLEAN /\ lastDelete' \in {0, 1}
    BY <1>2, PassTypeStep
  <2>8. refreshFails' \in 0 .. Tries /\ refreshPaused' \in 0 .. Pause
    <3>1. refreshFails \in 0 .. Tries /\ refreshPaused \in 0 .. Pause /\ Tries \in Nat \ {0} /\ Pause \in Nat
      BY ReliefAssumption DEF TypeOK
    <3>2. CASE UNCHANGED <<refreshFails, refreshPaused>>
      BY <3>1, <3>2
    <3>3. CASE refresh
      BY <3>1, <3>3 DEF refresh
    <3>4. CASE refreshFailed
      BY <3>1, <3>4 DEF refreshFailed
    <3>5. CASE Elapse
      BY <3>1, <3>5 DEF Elapse, Max0
    <3>6. QED
      BY <1>2, <3>2, <3>3, <3>4, <3>5 DEF Next, Sampler, quota, refreshState, Poll, Autovacuum, Reset, tick,
         startPolling, compact, relieveBegins, reliefDone, reliefFails, resample, relieveReturns, ClientWrite, markHead, reliefBatch, reliefCommitLost
  <2>9. due' \in BOOLEAN
    <3>1. due \in BOOLEAN
      BY DEF TypeOK
    <3>2. CASE due' = TRUE \/ due' = FALSE \/ due' = due
      BY <3>1, <3>2
    <3>3. QED
      BY <1>2, <3>2 DEF Next, Sampler, Poll, Elapse, Autovacuum, Reset, tick, refresh, refreshFailed,
         startPolling, compact, relieveBegins, reliefDone, reliefFails, resample, relieveReturns, ClientWrite, markHead, reliefBatch, reliefCommitLost
  <2>10. age' \in [1 .. MaxRev -> 0 .. Lag]
    <3>1. age \in [1 .. MaxRev -> 0 .. Lag] /\ Lag \in Nat
      BY ReliefAssumption DEF TypeOK
    <3>2. CASE Elapse
      <4>1. \A r \in 1 .. MaxRev : older(age[r], Lag) \in 0 .. Lag
        BY <3>1 DEF older
      <4>2. QED
        BY <3>1, <3>2, <4>1 DEF Elapse
    <3>3. CASE UNCHANGED age
      BY <3>1, <3>3
    <3>4. QED
      BY <1>2, <3>2, <3>3 DEF Next, Sampler, Poll, Autovacuum, Reset, tick, refresh, refreshFailed,
         startPolling, compact, relieveBegins, reliefDone, reliefFails, resample, relieveReturns, ClientWrite, markHead, reliefBatch, reliefCommitLost
  <2>11. relieved' \in 0 .. MaxRev
    <3>1. CASE relieved' = relieved
      BY <3>1 DEF TypeOK
    <3>2. CASE Compacts
      BY <2>1, <3>2 DEF Compacts, compactBatch
    <3>3. QED
      BY <3>1, <3>2, RelievedSteps
  <2>12. QED
    BY <2>1, <2>2, <2>3, <2>4, <2>5, <2>6, <2>7, <2>8, <2>9, <2>10, <2>11, Zenon DEF TypeOK
<1>3. QED
  BY <1>1, <1>2

-----------------------------------------------------------------------------
(***************************************************************************)
(* The ages.  A revision that is there only gets older, so what is known   *)
(* about the age of a revision stays known.                                *)
(***************************************************************************)
LEMMA AgesGrow ==
  ASSUME TypeOK, TableInv, [Next]_vars
  PROVE  \A r \in 1 .. Newest : age'[r] >= age[r]
<1>1. Newest \in Nat /\ Newest <= MaxRev /\ MaxRev \in Nat /\ Lag \in Nat
  BY NewestStep, ReliefAssumption DEF TableInv
<1>2. age \in [1 .. MaxRev -> 0 .. Lag]
  BY DEF TypeOK
<1>3. CASE UNCHANGED age
  BY <1>1, <1>2, <1>3
<1>4. CASE Elapse
  <2>1. age' = [r \in 1 .. MaxRev |-> IF r <= Newest THEN older(age[r], Lag) ELSE 0]
    BY <1>4 DEF Elapse
  <2>2. ASSUME NEW r \in 1 .. Newest PROVE age'[r] >= age[r]
    <3>1. r \in 1 .. MaxRev /\ r <= Newest /\ age[r] \in 0 .. Lag
      BY <1>1, <1>2
    <3>2. age'[r] = older(age[r], Lag)
      BY <2>1, <3>1
    <3>3. QED
      BY <1>1, <3>1, <3>2 DEF older
  <2>3. QED
    BY <2>2
<1>5. QED
  BY <1>3, <1>4 DEF Next, Sampler, vars, Poll, Autovacuum, Reset, tick, refresh, refreshFailed,
     startPolling, compact, relieveBegins, reliefDone, reliefFails, resample, relieveReturns, ClientWrite, markHead, reliefBatch, reliefCommitLost

(* An entry of revs that a tick keeps was there before, with its age. *)
LEMMA KeptEntry ==
  ASSUME TypeOK, NEW i \in DOMAIN keptRevs
  PROVE  \E j \in DOMAIN revs : keptRevs[i] = revs[j]
<1>1. revs \in Seq([age : 0 .. Lag, rev : 0 .. MaxRev])
  BY DEF TypeOK
<1>2. CASE lagged = {}
  BY <1>2 DEF keptRevs
<1>3. CASE lagged # {}
  <2>1. \E l \in lagged : \A j \in lagged : j <= l
    BY <1>3, LaggedHasLast
  <2>2. PICK l \in lagged : keptRevs = SubSeq(revs, l, Len(revs))
    BY <1>3, <2>1 DEF keptRevs
  <2>3. l \in 1 .. Len(revs) /\ Len(revs) \in Nat
    BY <1>1 DEF lagged
  <2>4. DOMAIN keptRevs = 1 .. Len(revs) - l + 1 /\ keptRevs[i] = revs[l + i - 1]
    BY <1>1, <2>2, <2>3
  <2>5. l + i - 1 \in DOMAIN revs
    BY <1>1, <2>3, <2>4
  <2>6. QED
    BY <2>4, <2>5
<1>4. QED
  BY <1>2, <1>3

LEMMA AgesBounded ==
  ASSUME ReliefInv, [Next]_vars
  PROVE  \A r \in 1 .. Newest : age[r] \in 0 .. Lag /\ age'[r] \in 0 .. Lag /\ age'[r] >= age[r]
<1>1. age \in [1 .. MaxRev -> 0 .. Lag] /\ age' \in [1 .. MaxRev -> 0 .. Lag]
  BY TypeStep DEF ReliefInv, TypeOK
<1>2. Newest \in Nat /\ Newest <= MaxRev /\ MaxRev \in Nat
  BY NewestStep, ReliefAssumption DEF ReliefInv, TableInv
<1>3. QED
  BY <1>1, <1>2, AgesGrow DEF ReliefInv

LEMMA AgedRevsStep ==
  ASSUME ReliefInv, [Next]_vars
  PROVE  AgedRevs'
<1>1. Newest \in Nat /\ Newest' \in Nat /\ Newest' >= Newest
  BY NewestStep DEF ReliefInv
<1>2. \A r \in 1 .. Newest : age[r] \in 0 .. Lag /\ age'[r] \in 0 .. Lag /\ age'[r] >= age[r]
  BY AgesBounded
<1>3. Lag \in Nat /\ MaxRev \in Nat
  BY ReliefAssumption
<1>4. ASSUME NEW j \in DOMAIN revs
      PROVE  /\ revs[j].age \in 0 .. Lag /\ revs[j].rev \in 0 .. MaxRev
             /\ revs[j].rev <= Newest
             /\ \A r \in 1 .. revs[j].rev : age[r] >= revs[j].age /\ age'[r] >= revs[j].age
  <2>1. revs[j].age \in 0 .. Lag /\ revs[j].rev \in 0 .. MaxRev
    BY RevEntry DEF ReliefInv
  <2>2. revs[j].rev <= Newest /\ \A r \in 1 .. revs[j].rev : age[r] >= revs[j].age
    BY DEF ReliefInv, AgedRevs
  <2>3. QED
    BY <1>1, <1>2, <2>1, <2>2
<1>5. CASE UNCHANGED revs
  BY <1>1, <1>3, <1>4, <1>5 DEF AgedRevs
<1>6. CASE Elapse
  <2>1. revs' = [i \in DOMAIN revs |-> [revs[i] EXCEPT !.age = older(@, Lag)]]
        /\ age' = [r \in 1 .. MaxRev |-> IF r <= Newest THEN older(age[r], Lag) ELSE 0]
    BY <1>6 DEF Elapse
  <2>2. ASSUME NEW i \in DOMAIN revs'
        PROVE  revs'[i].rev <= Newest' /\ \A r \in 1 .. revs'[i].rev : age'[r] >= revs'[i].age
    <3>1. i \in DOMAIN revs /\ revs'[i] = [revs[i] EXCEPT !.age = older(revs[i].age, Lag)]
      BY <2>1
    <3>2. revs[i] \in [age : 0 .. Lag, rev : 0 .. MaxRev]
      <4> DEFINE E == [age : 0 .. Lag, rev : 0 .. MaxRev]
      <4>1. revs \in Seq(E)
        BY DEF ReliefInv, TypeOK
      <4> HIDE DEF E
      <4>2. revs[i] \in E
        BY <3>1, <4>1
      <4>3. QED
        BY <4>2 DEF E
    <3>3. revs'[i].rev = revs[i].rev /\ revs'[i].age = older(revs[i].age, Lag)
      BY <3>1, <3>2
    <3>4. ASSUME NEW r \in 1 .. revs[i].rev PROVE age'[r] >= older(revs[i].age, Lag)
      <4>1. revs[i].age \in 0 .. Lag /\ revs[i].rev \in 0 .. MaxRev /\ revs[i].rev <= Newest /\ age[r] >= revs[i].age
        BY <1>4, <3>1
      <4>2. r \in 1 .. MaxRev /\ r <= Newest /\ age[r] \in 0 .. Lag
        BY <1>1, <1>2, <1>3, <4>1
      <4>3. age'[r] = older(age[r], Lag)
        BY <2>1, <4>2
      <4>4. QED
        BY <1>3, <4>1, <4>2, <4>3 DEF older
    <3>5. QED
      BY <1>1, <1>3, <1>4, <3>1, <3>3, <3>4
  <2>3. QED
    BY <2>2 DEF AgedRevs
<1>7. CASE tick /\ tickPass
  <2> DEFINE e == [age |-> 0, rev |-> cached]
  <2>1. revs' = Append(keptRevs, e) /\ cached \in 0 .. MaxRev /\ cached <= Newest
    BY <1>7 DEF tickPass, ReliefInv, TypeOK, TableInv
  <2>2. keptRevs \in Seq([age : 0 .. Lag, rev : 0 .. MaxRev])
    BY KeptType DEF ReliefInv
  <2>3. ASSUME NEW i \in DOMAIN revs'
        PROVE  revs'[i].rev <= Newest' /\ \A r \in 1 .. revs'[i].rev : age'[r] >= revs'[i].age
    <3>1. CASE i \in DOMAIN keptRevs
      <4>1. revs'[i] = keptRevs[i]
        BY <2>1, <2>2, <3>1
      <4>2. PICK j \in DOMAIN revs : keptRevs[i] = revs[j]
        BY <3>1, KeptEntry DEF ReliefInv
      <4>3. QED
        BY <1>1, <1>3, <1>4, <4>1, <4>2
    <3>2. CASE i = Len(keptRevs) + 1
      <4>1. revs'[i] = e
        BY <2>1, <2>2, <3>2
      <4>2. revs'[i].age = 0 /\ revs'[i].rev = cached
        BY <4>1
      <4>3. \A r \in 1 .. cached : age'[r] >= 0
        BY <1>1, <1>2, <1>3, <2>1
      <4>4. QED
        BY <1>1, <1>3, <2>1, <4>2, <4>3
    <3>3. QED
      BY <2>1, <2>2, <3>1, <3>2
  <2>4. QED
    BY <2>3 DEF AgedRevs
<1>8. QED
  BY <1>5, <1>6, <1>7 DEF Next, Sampler, vars, quota, Poll, Autovacuum, Reset, tick, refresh, refreshFailed,
     startPolling, compact, relieveBegins, reliefDone, reliefFails, resample, relieveReturns, ClientWrite, markHead, reliefBatch, reliefCommitLost

LEMMA AgedTargetStep ==
  ASSUME ReliefInv, [Next]_vars
  PROVE  AgedTarget'
<1>1. Newest \in Nat /\ Newest' \in Nat /\ Newest' >= Newest
  BY NewestStep DEF ReliefInv
<1>2. \A r \in 1 .. Newest : age[r] \in 0 .. Lag /\ age'[r] \in 0 .. Lag /\ age'[r] >= age[r]
  BY AgesBounded
<1>3. /\ Lag \in Nat /\ pass.target \in Nat /\ pass.bound \in Nat
      /\ pass.target <= Newest /\ pass.bound <= pass.target /\ pass.bound <= polled
      /\ \A r \in 1 .. pass.target : age[r] >= Lag
  BY ReliefAssumption DEF ReliefInv, AgedTarget, TypeOK
<1>poll. polled \in Nat /\ polled' \in Nat /\ polled' >= polled
  BY PollerStep DEF ReliefInv, TypeOK
<1>4. CASE pass'.target = pass.target /\ (pass'.bound = pass.bound \/ pass'.bound = min(pass.target, polled))
  <2>1. PICK b \in Nat : b = pass'.bound /\ b <= pass.target /\ b <= polled
    BY <1>3, <1>4, <1>poll DEF min
  <2>2. b <= polled'
    BY <1>poll, <2>1
  <2>3. \A r \in 1 .. pass.target : age'[r] >= Lag
    BY <1>1, <1>2, <1>3
  <2>4. pass.target <= Newest'
    BY <1>1, <1>3
  <2>5. QED
    BY <1>4, <2>1, <2>2, <2>3, <2>4 DEF AgedTarget
<1>5. CASE pass'.target = 0 /\ pass'.bound = 0
  BY <1>1, <1>5, <1>poll DEF AgedTarget
<1>6. CASE pass'.target = reliefTarget /\ pass'.bound = 0
  <2>1. CASE reliefTarget = 0
    BY <1>5, <1>6, <2>1
  <2>2. ASSUME NEW i \in DOMAIN revs, reliefTarget = revs[i].rev, revs[i].age >= Lag
        PROVE  AgedTarget'
    <3>1. revs[i].age \in 0 .. Lag /\ revs[i].rev \in Nat
      BY RevEntry DEF ReliefInv
    <3>2. revs[i].rev <= Newest /\ \A r \in 1 .. revs[i].rev : age[r] >= revs[i].age
      BY DEF ReliefInv, AgedRevs
    <3>3. \A r \in 1 .. revs[i].rev : age'[r] >= Lag
      BY <1>1, <1>2, <1>3, <2>2, <3>1, <3>2
    <3>4. QED
      BY <1>1, <1>6, <1>poll, <2>2, <3>1, <3>2, <3>3 DEF AgedTarget
  <2>3. QED
    BY <2>1, <2>2, TargetRecorded DEF ReliefInv
<1>7. CASE UNCHANGED vars
  BY <1>4, <1>7 DEF vars
<1>8. QED
  BY <1>4, <1>5, <1>6, <1>7, PassTypeStep DEF ReliefInv

LEMMA BehindStep ==
  ASSUME ReliefInv, [Next]_vars
  PROVE  Behind'
<1>1. Newest \in Nat /\ Newest' \in Nat /\ Newest' >= Newest
  BY NewestStep DEF ReliefInv
<1>2. \A r \in 1 .. Newest : age[r] \in 0 .. Lag /\ age'[r] \in 0 .. Lag /\ age'[r] >= age[r]
  BY AgesBounded
<1>3. polled \in Nat /\ polled' \in Nat /\ polled' >= polled
  BY PollerStep DEF ReliefInv, TypeOK
<1>4. Lag \in Nat /\ relieved \in Nat /\ pass.target \in Nat /\ pass.bound \in Nat
  BY ReliefAssumption DEF ReliefInv, TypeOK
<1>5. CASE relieved' = relieved
  BY <1>1, <1>2, <1>3, <1>4, <1>5 DEF ReliefInv, Behind
<1>6. CASE Compacts
  <2>0. PICK to \in Nat : to <= pass.bound /\ to < Newest /\ relieved' = to
    BY <1>6 DEF Compacts, compactBatch
  <2>1. to <= pass.target /\ to <= polled /\ to < Newest
    BY <1>3, <1>4, <2>0 DEF ReliefInv, AgedTarget
  <2>2. \A r \in 1 .. to : age'[r] >= Lag
    BY <1>1, <1>2, <1>4, <2>1 DEF ReliefInv, AgedTarget
  <2>3. QED
    BY <1>1, <1>3, <2>0, <2>1, <2>2 DEF Behind
<1>7. QED
  BY <1>5, <1>6, RelievedSteps DEF ReliefInv

LEMMA ReliefStep == ReliefInv /\ [Next]_vars => ReliefInv'
<1> SUFFICES ASSUME ReliefInv, [Next]_vars PROVE ReliefInv'
  OBVIOUS
<1>1. TypeOK'
  BY TypeStep DEF ReliefInv
<1>2. TableInv'
  BY NewestStep, PollerStep DEF ReliefInv, TableInv
<1>3. QED
  BY <1>1, <1>2, AgedRevsStep, AgedTargetStep, BehindStep DEF ReliefInv

(* The sampler, the statistics and the table keep their types: no figure is negative, no age is lost. *)
THEOREM ReliefTypeCorrect == Spec => []TypeOK
<1>1. ReliefInv => TypeOK
  BY DEF ReliefInv
<1>2. QED
  BY <1>1, ReliefInit, ReliefStep, PTL DEF Spec

(***************************************************************************)
(* The compaction that the sampler runs while full (RelieveQuota) stays    *)
(* behind: whatever is written, polled, timed or compacted by kine's own   *)
(* compactor in between, the revisions it compacts are below the newest    *)
(* row, not past what was sent to the watches and QuotaReliefLag old.      *)
(***************************************************************************)
THEOREM ReliefStaysBehind == Spec => []ReliefBehind
<1>1. ReliefInv => ReliefBehind
  BY DEF ReliefInv, Behind, ReliefBehind
<1>2. QED
  BY <1>1, ReliefInit, ReliefStep, PTL DEF Spec

-----------------------------------------------------------------------------
(***************************************************************************)
(* The figure.  Deletes that are not flushed yet are still in the live     *)
(* counter, and the deletes of a pass are flushed before a refresh: while  *)
(* they are not, the pass is running or it ended less than one settle time *)
(* ago.  A reset is remembered by the counters of the last sample.         *)
(***************************************************************************)
Counted ==
  /\ stats.file >= RowCount(rows)
  /\ ~stats.lost => stats.live >= RowCount(rows) + stats.unflushed + stats.own

ResetNoticed == stats.lost =>
  /\ ~stats.vac
  /\ watch.ins >= 0 => stats.ins < watch.ins \/ watch.vac \/ watch.owed

BeforeFirstSample == watch.ins < 0 =>
  /\ pass.st = "idle"
  /\ stats.rel > 0
  /\ stats.lost => stats.ins = 0

Settled ==
  /\ pass.st = "refresh" => stats.unflushed = 0
  /\ stats.unflushed > 0 /\ lastDelete # 0 => pass.st = "batch" /\ pass.deleted

SampleInv == Counted /\ ResetNoticed /\ BeforeFirstSample /\ Settled

LEMMA RowCounts ==
  ASSUME TypeOK, TableInv, [Next]_vars
  PROVE  /\ RowCount(rows) \in Nat \ {0} /\ RowCount(rows') \in Nat \ {0}
         /\ Inserts => RowCount(rows') = RowCount(rows) + 1
         /\ Compacts => /\ RowCount(rows') <= RowCount(rows)
                        /\ stats' = [stats EXCEPT !.unflushed = @ + (RowCount(rows) - RowCount(rows'))]
         /\ compact => /\ RowCount(rows') <= RowCount(rows)
                       /\ stats' = [stats EXCEPT !.own = @ + (RowCount(rows) - RowCount(rows'))]
<1>1. TableOK(rows) /\ TableOK(rows')
  BY NewestStep DEF TableInv
<1>2. Cardinality(rows) \in Nat /\ Cardinality(rows') \in Nat
  BY <1>1, FS_CardinalityType DEF TableOK
<1>3. ASSUME Inserts PROVE RowCount(rows') = RowCount(rows) + 1
  <2>1. PICK k \in Keys, deleted \in BOOLEAN : rows' = rows \cup {newRow(k, deleted)}
    BY <1>3 DEF Inserts, insertRow
  <2>2. QED
    BY <1>1, <2>1, NewRowType, InsertTable DEF Newest
<1>4. ASSUME Compacts
      PROVE  /\ RowCount(rows') <= RowCount(rows)
             /\ stats' = [stats EXCEPT !.unflushed = @ + (RowCount(rows) - RowCount(rows'))]
  <2>1. PICK to \in Nat : to < Newest /\ compactBatch(to)
    BY <1>4 DEF Compacts
  <2>2. Cardinality(rows') <= Cardinality(rows)
    BY <1>1, <2>1, CompactTable DEF Newest, compactBatch
  <2>3. stats \in StatsType
    BY DEF TypeOK, StatsType
  <2>4. stats.unflushed + Cardinality(rows) - Cardinality(rows') = stats.unflushed + (RowCount(rows) - RowCount(rows'))
    BY <1>2, <2>3 DEF RowCount, StatsType
  <2>5. stats' = [stats EXCEPT !.unflushed = stats.unflushed + Cardinality(rows) - Cardinality(rows')]
    BY <2>1 DEF compactBatch
  <2>6. RowCount(rows') <= RowCount(rows)
    BY <1>2, <2>2 DEF RowCount
  <2>7. QED
    BY <2>4, <2>5, <2>6
<1>5. ASSUME compact
      PROVE  /\ RowCount(rows') <= RowCount(rows)
             /\ stats' = [stats EXCEPT !.own = @ + (RowCount(rows) - RowCount(rows'))]
  <2>1. PICK to \in Nat : to < Newest /\ rows' = Compacted(rows, to)
    BY <1>5, OwnCompacts
  <2>2. Cardinality(rows') <= Cardinality(rows)
    BY <1>1, <2>1, CompactTable DEF Newest
  <2>3. stats \in StatsType
    BY DEF TypeOK, StatsType
  <2>4. stats.own + Cardinality(rows) - Cardinality(rows') = stats.own + (RowCount(rows) - RowCount(rows'))
    BY <1>2, <2>3 DEF RowCount, StatsType
  <2>5. stats' = [stats EXCEPT !.own = stats.own + Cardinality(rows) - Cardinality(rows')]
    BY <1>5 DEF compact
  <2>6. RowCount(rows') <= RowCount(rows)
    BY <1>2, <2>2 DEF RowCount
  <2>7. QED
    BY <2>4, <2>5, <2>6
<1>6. QED
  BY <1>2, <1>3, <1>4, <1>5 DEF RowCount

LEMMA CountedStep ==
  ASSUME CloseVacuum = FALSE, ReliefInv, SampleInv, [Next]_vars
  PROVE  Counted'
<1> DEFINE n == RowCount(rows)
           m == RowCount(rows')
<1>1. stats \in StatsType /\ stats' \in StatsType
  BY StatsTypeStep DEF ReliefInv, TypeOK, StatsType
<1>2. /\ n \in Nat \ {0} /\ m \in Nat \ {0} /\ (Inserts => m = n + 1)
      /\ Compacts => m <= n /\ stats' = [stats EXCEPT !.unflushed = @ + (n - m)]
      /\ compact => m <= n /\ stats' = [stats EXCEPT !.own = @ + (n - m)]
  BY RowCounts DEF ReliefInv
<1>3. stats.file >= n /\ (~stats.lost => stats.live >= n + stats.unflushed + stats.own)
  BY DEF SampleInv, Counted
<1> SUFFICES stats'.file >= m /\ (~stats'.lost => stats'.live >= m + stats'.unflushed + stats'.own)
  BY DEF Counted
<1> HIDE DEF n, m
<1>4. CASE Inserts /\ inserted
  <2> DEFINE file == IF m > stats.file THEN m ELSE stats.file
             a == stats.ins + 1
             b == stats.live + 1
  <2>1. stats' = [stats EXCEPT !.ins = a, !.live = b, !.file = file]
    BY <1>4 DEF inserted, m
  <2>2. file >= m
    BY <1>1, <1>2 DEF StatsType
  <2>3. b >= stats.live + 1
    BY <1>1 DEF StatsType
  <2> HIDE DEF file, a, b
  <2>4. stats'.file = file /\ stats'.lost = stats.lost /\ stats'.live = b /\ stats'.unflushed = stats.unflushed
        /\ stats'.own = stats.own
    BY <1>1, <2>1 DEF StatsType
  <2>5. m = n + 1
    BY <1>2, <1>4
  <2>6. ~stats.lost => b >= m + stats.unflushed + stats.own
    <3>1. stats.live \in Nat /\ stats.unflushed \in Nat /\ stats.own \in Nat /\ b \in Nat
      BY <1>1 DEF StatsType, b
    <3>2. QED
      BY <1>2, <1>3, <2>3, <2>5, <3>1
  <2>7. QED
    BY <2>2, <2>4, <2>6
<1>5. CASE Compacts
  <2>1. stats'.file = stats.file /\ stats'.lost = stats.lost /\ stats'.live = stats.live
        /\ stats'.unflushed = stats.unflushed + (n - m) /\ stats'.own = stats.own /\ m <= n
    BY <1>1, <1>2, <1>5 DEF StatsType
  <2>2. stats.live \in Nat /\ stats.unflushed \in Nat /\ stats.own \in Nat /\ stats.file \in Nat
    BY <1>1 DEF StatsType
  <2>3. QED
    BY <1>2, <1>3, <2>1, <2>2
<1>6. CASE Autovacuum \/ refresh
  <2>0. stats.unflushed = 0 /\ stats.own = 0
    <3>1. CASE refresh
      BY <3>1 DEF refresh, SampleInv, Settled
    <3>2. CASE Autovacuum
      <4>1. stats.unflushed \in Nat /\ stats.own \in Nat /\ stats.unflushed + stats.own = 0
        BY <1>1, <3>2 DEF Autovacuum, StatsType
      <4>2. QED
        BY <4>1
    <3>3. QED
      BY <1>6, <3>1, <3>2
  <2>1. stats' = vacuumed(stats) /\ rows' = rows
    BY <1>6 DEF Autovacuum, refresh, table
  <2>2. stats'.file = stats.file /\ stats'.live = m /\ stats'.unflushed = 0 /\ stats'.own = 0 /\ m = n
    BY <1>1, <2>0, <2>1 DEF StatsType, vacuumed, n, m
  <2>3. QED
    BY <1>1, <1>2, <1>3, <2>2
<1>7. CASE Elapse
  <2>1. stats' = flushed(stats) /\ m = n
    BY <1>7 DEF Elapse, table, n, m
  <2>2. stats'.file = stats.file /\ stats'.lost = stats.lost /\ stats'.unflushed = 0 /\ stats'.own = 0
        /\ stats'.live = Max0(stats.live - (stats.unflushed + stats.own))
    BY <1>1, <2>1 DEF StatsType, flushed
  <2>3. stats.live \in Nat /\ stats.unflushed \in Nat /\ stats.own \in Nat
    BY <1>1 DEF StatsType
  <2>4. QED
    BY <1>2, <1>3, <2>1, <2>2, <2>3 DEF Max0
<1>8. CASE Reset
  <2>1. m = n /\ stats'.file = stats.file /\ stats'.lost = TRUE
    BY <1>1, <1>8 DEF Reset, table, StatsType, n, m
  <2>2. QED
    BY <1>3, <2>1
<1>9. CASE UNCHANGED <<stats, rows>>
  BY <1>3, <1>9 DEF n, m
<1>10. CASE compact
  <2>1. stats'.file = stats.file /\ stats'.lost = stats.lost /\ stats'.live = stats.live
        /\ stats'.own = stats.own + (n - m) /\ stats'.unflushed = stats.unflushed /\ m <= n
    BY <1>1, <1>2, <1>10 DEF StatsType
  <2>2. stats.live \in Nat /\ stats.unflushed \in Nat /\ stats.own \in Nat /\ stats.file \in Nat
    BY <1>1 DEF StatsType
  <2>3. QED
    BY <1>2, <1>3, <2>1, <2>2
<1>11. QED
  BY <1>4, <1>5, <1>6, <1>7, <1>8, <1>9, <1>10, StatsSteps DEF ReliefInv

(* The counters of the last sample change with a sample and with a refresh. *)
LEMMA WatchSteps ==
  ASSUME [Next]_vars
  PROVE  watch' = watch \/ (Sampled /\ UNCHANGED stats) \/ refresh
  BY DEF Next, Sampler, vars, Poll, Elapse, Autovacuum, Reset, tick, tickSample, refreshFailed,
     startPolling, compact, relieveBegins, reliefDone, reliefFails, resample, relieveReturns, ClientWrite, markHead, reliefBatch, reliefCommitLost

LEMMA ResetNoticedStep ==
  ASSUME HiddenReset = FALSE, ReliefInv, SampleInv, [Next]_vars
  PROVE  ResetNoticed'
<1>1. stats \in StatsType /\ watch \in WatchType
  BY DEF ReliefInv, TypeOK, StatsType, WatchType
<1>2. ResetNoticed
  BY DEF SampleInv
<1>3. CASE Inserts /\ inserted /\ UNCHANGED watch
  <2>1. stats'.lost = stats.lost /\ stats'.vac = stats.vac /\ stats'.ins = stats.ins + 1
    BY <1>1, <1>3 DEF inserted, StatsType
  <2>2. ~Hides(stats.ins + 1)
    BY <1>3 DEF inserted
  <2>3. stats.ins \in Nat /\ watch.ins \in Int
    BY <1>1 DEF StatsType, WatchType
  <2>4. stats.lost /\ ~stats.vac /\ ~watch.vac /\ ~watch.owed => stats.ins + 1 < watch.ins
    BY <2>2, <2>3 DEF Hides
  <2>5. QED
    BY <1>2, <1>3, <2>1, <2>4 DEF ResetNoticed
<1>4. CASE (Compacts \/ Elapse \/ compact) /\ UNCHANGED watch
  <2>1. stats'.lost = stats.lost /\ stats'.vac = stats.vac /\ stats'.ins = stats.ins
    BY <1>1, <1>4 DEF Compacts, compactBatch, compact, Elapse, flushed, StatsType
  <2>2. QED
    BY <1>2, <1>4, <2>1 DEF ResetNoticed
<1>5. CASE Autovacuum \/ refresh
  BY <1>1, <1>5 DEF Autovacuum, refresh, vacuumed, StatsType, ResetNoticed
<1>6. CASE Reset
  <2>1. stats'.ins = 0 /\ stats'.vac = FALSE /\ watch' = watch /\ (watch.ins # 0 \/ watch.vac)
    BY <1>1, <1>6 DEF Reset, StatsType
  <2>2. watch.ins \in Int
    BY <1>1 DEF WatchType
  <2>3. QED
    BY <2>1, <2>2 DEF ResetNoticed
<1>7. CASE Sampled /\ UNCHANGED stats
  <2>1. watch'.owed = owed
    BY <1>7 DEF Sampled
  <2>2. ASSUME stats.lost PROVE ~stats.vac /\ resetSeen
    <3>1. stats.ins \in Nat /\ stats.rel \in Nat /\ watch.ins \in Int
      BY <1>1 DEF StatsType, WatchType
    <3>2. CASE watch.ins >= 0
      BY <1>2, <2>2, <3>1, <3>2 DEF ResetNoticed, resetSeen
    <3>3. CASE watch.ins < 0
      BY <1>2, <2>2, <3>1, <3>3 DEF ResetNoticed, SampleInv, BeforeFirstSample, resetSeen
    <3>4. QED
      BY <3>1, <3>2, <3>3
  <2>3. QED
    BY <1>7, <2>1, <2>2 DEF ResetNoticed, owed
<1>8. CASE UNCHANGED <<stats, watch>>
  BY <1>2, <1>8 DEF ResetNoticed
<1>9. CASE Elapse \/ compact
  BY <1>4, <1>9 DEF Elapse, compact
<1>10. QED
  BY <1>3, <1>4, <1>5, <1>6, <1>7, <1>8, <1>9, StatsSteps, WatchSteps DEF ReliefInv

(* Before the first sample nothing is written, and the sampler has taken no step. *)
LEMMA BeforeFirstStep ==
  ASSUME ReliefInv, SampleInv, [Next]_vars
  PROVE  BeforeFirstSample'
<1> SUFFICES ASSUME watch'.ins < 0
             PROVE  pass'.st = "idle" /\ stats'.rel > 0 /\ (stats'.lost => stats'.ins = 0)
  BY DEF BeforeFirstSample
<1>1. stats \in StatsType /\ watch \in WatchType
  BY DEF ReliefInv, TypeOK, StatsType, WatchType
<1>2. ~Sampled
  BY <1>1 DEF Sampled, StatsType
<1>3. watch.ins < 0
  <2>1. CASE refresh
    BY <1>1, <2>1 DEF refresh, WatchType
  <2>2. QED
    BY <1>2, <2>1, WatchSteps
<1>4. pass.st = "idle" /\ stats.rel > 0 /\ (stats.lost => stats.ins = 0)
  BY <1>3 DEF SampleInv, BeforeFirstSample
<1>5. ~(watch.ins >= 0)
  BY <1>1, <1>3 DEF WatchType
<1>6. ~ClientWrite /\ ~compact /\ ~tick
  BY <1>2, <1>5 DEF ClientWrite, compact, tick, tickSample
<1>7. ~refresh /\ ~refreshFailed /\ ~startPolling /\ ~relieveBegins /\ ~reliefDone /\ ~reliefBatch /\ ~reliefFails
      /\ ~reliefCommitLost /\ ~resample /\ ~markHead /\ ~relieveReturns
  BY <1>4 DEF refresh, refreshFailed, startPolling, relieveBegins, reliefDone, reliefFails, resample, relieveReturns, markHead,
              reliefBatch, reliefCommitLost
<1>8. UNCHANGED vars \/ Poll \/ Elapse \/ Autovacuum \/ Reset
  BY <1>6, <1>7 DEF Next, Sampler
<1>9. pass'.st = "idle"
  BY <1>4, <1>8 DEF vars, Poll, Elapse, Autovacuum, Reset
<1>10. CASE Autovacuum
  <2>1. stats'.rel = RowCount(rows) /\ stats'.lost = FALSE
    BY <1>1, <1>10 DEF Autovacuum, vacuumed, StatsType
  <2>2. RowCount(rows) > 0
    BY RowCounts DEF ReliefInv
  <2>3. QED
    BY <1>9, <2>1, <2>2
<1>11. CASE Reset
  BY <1>1, <1>4, <1>9, <1>11 DEF Reset, StatsType
<1>12. CASE Elapse
  BY <1>1, <1>4, <1>9, <1>12 DEF Elapse, flushed, StatsType
<1>13. CASE UNCHANGED stats
  BY <1>4, <1>9, <1>13
<1>14. QED
  BY <1>8, <1>10, <1>11, <1>12, <1>13 DEF vars, Poll

(* The end of a pass that deleted rows, or may have: they are not settled yet. *)
LEMMA EndSettles ==
  ASSUME NEW p \in PassType, NEW stale, relieveEnds(p, stale), stats' \in StatsType,
         stats'.unflushed > 0 => stale \/ lastDelete = 0
  PROVE  Settled'
<1>1. pass'.st # "refresh"
  BY DEF relieveEnds, PassType
<1>2. stale \/ lastDelete = 0 => lastDelete' = 0
  BY DEF relieveEnds
<1>3. QED
  BY <1>1, <1>2 DEF Settled

LEMMA SettledStep ==
  ASSUME ReliefInv, SampleInv, [Next]_vars
  PROVE  Settled'
<1>1. stats \in StatsType /\ pass \in PassType /\ lastDelete \in {0, 1} /\ stats' \in StatsType
  BY StatsTypeStep DEF ReliefInv, TypeOK, StatsType, PassType
<1>2. Settled
  BY DEF SampleInv
<1>3. ASSUME UNCHANGED lastDelete, stats'.unflushed = stats.unflushed, pass'.st # "refresh", pass.st # "batch"
      PROVE  Settled'
  BY <1>2, <1>3 DEF Settled
<1>4. CASE tick
  <2>1. UNCHANGED <<lastDelete, stats>> /\ pass.st = "idle"
    BY <1>4 DEF tick
  <2>2. pass'.st = "refresh" => lastDelete >= 1
    <3>1. CASE UNCHANGED pass
      BY <2>1, <3>1
    <3>2. CASE tickPass
      BY <3>2 DEF tickPass, refreshDue, NoPass
    <3>3. QED
      BY <1>4, <3>1, <3>2 DEF tick
  <2>3. lastDelete >= 1 => stats.unflushed = 0
    BY <1>1, <1>2, <2>1 DEF Settled, StatsType
  <2>4. QED
    BY <1>1, <2>1, <2>2, <2>3, <1>2 DEF Settled, StatsType
<1>5. CASE refresh
  <2>1. stats'.unflushed = 0
    BY <1>1, <1>2, <1>5 DEF refresh, Settled, vacuumed, StatsType
  <2>2. QED
    BY <2>1 DEF Settled
<1>6. CASE refreshFailed \/ resample \/ startPolling \/ relieveBegins \/ relieveReturns
  <2>1. UNCHANGED <<lastDelete, stats>> /\ pass.st # "batch" /\ pass'.st # "refresh"
    <3>1. CASE refreshFailed \/ startPolling \/ relieveReturns
      BY <3>1 DEF refreshFailed, startPolling, relieveReturns, quota, NoPass
    <3>2. CASE resample
      BY <1>1, <3>2 DEF resample, PassType
    <3>3. CASE relieveBegins
      BY <1>1, <3>3 DEF relieveBegins, quota, PassType
    <3>4. QED
      BY <1>6, <3>1, <3>2, <3>3
  <2>2. QED
    BY <1>3, <2>1
<1>7. CASE markHead
  <2>1. UNCHANGED lastDelete /\ pass.st # "batch" /\ pass'.st # "refresh"
    BY <1>7 DEF markHead, quota, NoPass
  <2>2. stats'.unflushed = stats.unflushed
    BY <1>1, <1>7 DEF markHead, insertRow, inserted, StatsType
  <2>3. QED
    BY <1>3, <2>1, <2>2
<1>8. CASE compact
  <2>1. UNCHANGED <<lastDelete, pass>> /\ stats'.unflushed = stats.unflushed
    BY <1>1, <1>8 DEF compact, quota, StatsType
  <2>2. QED
    BY <1>2, <2>1 DEF Settled
<1>9. CASE reliefDone \/ reliefFails
  <2>1. PICK p \in PassType : relieveEnds(p, pass.deleted)
    <3>1. CASE reliefFails
      <4>1. [pass EXCEPT !.failed = TRUE] \in PassType
        BY <1>1 DEF PassType
      <4>2. QED
        BY <3>1, <4>1 DEF reliefFails
    <3>2. CASE reliefDone
      <4>1. compactRev \in 0 .. MaxRev /\ Newest \in 0 .. MaxRev
        BY HeadExists, ReliefAssumption DEF ReliefInv, TableInv, TypeOK, Newest
      <4>2. PICK failed \in {FALSE, pass.deleted} :
              relieveEnds([pass EXCEPT !.to = compactRev, !.head = Newest, !.failed = failed], pass.deleted)
        BY <3>2 DEF reliefDone
      <4>3. pass.deleted \in BOOLEAN
        BY <1>1 DEF PassType
      <4>4. [pass EXCEPT !.to = compactRev, !.head = Newest, !.failed = failed] \in PassType
        BY <1>1, <4>1, <4>3 DEF PassType
      <4>5. QED
        BY <4>2, <4>4
    <3>3. QED
      BY <1>9, <3>1, <3>2
  <2>2. UNCHANGED stats
    BY <1>9 DEF reliefDone, reliefFails
  <2>3. stats.unflushed > 0 => pass.deleted \/ lastDelete = 0
    BY <1>2 DEF Settled
  <2>4. QED
    BY <1>1, <2>1, <2>2, <2>3, EndSettles
<1>10. CASE reliefCommitLost
  <2>1. [pass EXCEPT !.failed = TRUE] \in PassType
    BY <1>1 DEF PassType
  <2>2. relieveEnds([pass EXCEPT !.failed = TRUE], TRUE)
    BY <1>10 DEF reliefCommitLost
  <2>3. QED
    BY <1>1, <2>1, <2>2, EndSettles
<1>11. CASE reliefBatch
  <2> DEFINE to == min(reliefBound, compactRev + BatchSize)
             d == pass.deleted \/ rows' # rows
             p == [pass EXCEPT !.to = to, !.head = Newest, !.deleted = d]
  <2>1. d \in BOOLEAN
    BY <1>1, Zenon DEF PassType
  <2>2. to \in 0 .. MaxRev /\ Newest \in 0 .. MaxRev
    <3>1. Newest \in Nat /\ Newest <= MaxRev /\ MaxRev \in Nat
      BY HeadExists, ReliefAssumption DEF ReliefInv, TableInv, Newest
    <3>2. compactRev \in Nat /\ pass.bound \in Nat /\ BatchSize \in Nat /\ compactRev < reliefBound
      BY <1>11, ReliefAssumption DEF reliefBatch, ReliefInv, TypeOK
    <3>3. QED
      BY <3>1, <3>2 DEF reliefBound, min
  <2>3. stats'.unflushed > 0 => d \/ lastDelete = 0
    <3>1. CASE rows' = rows
      <4>1. Cardinality(rows) \in Nat
        BY FS_CardinalityType DEF ReliefInv, TableInv, TableOK
      <4>2. stats'.unflushed = stats.unflushed
        BY <1>1, <1>11, <3>1, <4>1 DEF reliefBatch, compactBatch, StatsType
      <4>3. QED
        BY <1>2, <4>2 DEF Settled
    <3>2. QED
      BY <3>1
  <2>4. pass.st = "batch"
    BY <1>11 DEF reliefBatch
  <2> HIDE DEF d, to
  <2>5. p \in PassType /\ p.deleted = d /\ p.st = "batch"
    BY <1>1, <2>1, <2>2, <2>4 DEF PassType
  <2>6. \/ pass' = p /\ UNCHANGED lastDelete
        \/ \E failed \in {FALSE, p.deleted} : relieveEnds([p EXCEPT !.failed = failed], p.deleted)
    BY <1>11 DEF reliefBatch, d, to
  <2> HIDE DEF p
  <2>7. CASE pass' = p /\ UNCHANGED lastDelete
    BY <2>3, <2>5, <2>7 DEF Settled
  <2>8. ASSUME NEW failed \in {FALSE, p.deleted}, relieveEnds([p EXCEPT !.failed = failed], p.deleted)
        PROVE  Settled'
    <3> DEFINE q == [p EXCEPT !.failed = failed]
    <3>1. q \in PassType
      BY <2>1, <2>5 DEF PassType
    <3> HIDE DEF q
    <3>2. relieveEnds(q, d)
      BY <2>5, <2>8 DEF q
    <3>3. QED
      BY <1>1, <2>3, <3>1, <3>2, EndSettles
  <2>9. QED
    BY <2>6, <2>7, <2>8
<1>12. CASE Elapse
  <2>1. stats'.unflushed = 0
    BY <1>1, <1>12 DEF Elapse, flushed, StatsType
  <2>2. QED
    BY <2>1 DEF Settled
<1>13. CASE ClientWrite \/ Autovacuum \/ Reset \/ Poll \/ UNCHANGED vars
  <2>1. UNCHANGED <<lastDelete, pass>>
    BY <1>13 DEF ClientWrite, Autovacuum, Reset, Poll, vars, quota
  <2>2. stats'.unflushed = stats.unflushed
    BY <1>1, <1>13 DEF ClientWrite, insertRow, inserted, Autovacuum, vacuumed, Reset, Poll, vars, StatsType
  <2>3. QED
    BY <1>2, <2>1, <2>2 DEF Settled
<1>14. QED
  BY <1>4, <1>5, <1>6, <1>7, <1>8, <1>9, <1>10, <1>11, <1>12, <1>13 DEF Next, Sampler

LEMMA SampleInit == Init => SampleInv
<1> SUFFICES ASSUME Init PROVE SampleInv
  OBVIOUS
<1>1. RowCount(rows) \in Nat /\ RowCount(rows) > 0
  <2>1. IsFiniteSet(rows)
    BY ReliefInit DEF ReliefInv, TableInv, TableOK
  <2>2. QED
    BY <2>1, FS_CardinalityType DEF RowCount
<1>2. rows = InitRows /\ watch.ins = -1 /\ pass.st = "idle" /\ ~pass.deleted
  BY DEF Init, NoPass
<1>3. stats.file = RowCount(rows) /\ stats.live = RowCount(rows) /\ stats.rel = RowCount(rows) /\ stats.unflushed = 0
      /\ stats.own = 0 /\ ~stats.lost
  BY DEF Init
<1>4. QED
  BY <1>1, <1>2, <1>3 DEF SampleInv, Counted, ResetNoticed, BeforeFirstSample, Settled

(***************************************************************************)
(* The live figure of PostgreSQL that the quota samples does not read low  *)
(* on account of the quota's own passes: whatever resets of the            *)
(* statistics, relief batches, lost commits, refreshes and unflushed       *)
(* counters come in between.  Two cases in which it does read low are      *)
(* excluded: a reset followed by as many inserts before the next sample as *)
(* had been counted (HiddenReset), and a VACUUM right after a delete that  *)
(* is outside the quota's coordination (CloseVacuum).                      *)
(***************************************************************************)
THEOREM SampleNeverLow ==
  ASSUME HiddenReset = FALSE, CloseVacuum = FALSE
  PROVE  Spec => []SampleCovers
<1> DEFINE Inv == ReliefInv /\ SampleInv
<1>1. Init => Inv
  BY ReliefInit, SampleInit
<1>2. Inv /\ [Next]_vars => Inv'
  BY ReliefStep, CountedStep, ResetNoticedStep, BeforeFirstStep, SettledStep DEF SampleInv
<1>3. Inv => SampleCovers
  <2> SUFFICES ASSUME ReliefInv, SampleInv, watch.ins >= 0 PROVE liveSize >= RowCount(rows)
    BY DEF SampleCovers
  <2>1. stats \in StatsType /\ watch \in WatchType
    BY DEF ReliefInv, TypeOK, StatsType, WatchType
  <2>2. RowCount(rows) \in Nat
    BY FS_CardinalityType DEF ReliefInv, TableInv, TableOK, RowCount
  <2>3. CASE stats.lost
    <3>1. ~stats.vac /\ (stats.ins < watch.ins \/ watch.vac \/ watch.owed)
      BY <2>3 DEF SampleInv, ResetNoticed
    <3>2. ~(watch.ins < 0)
      BY <2>1 DEF WatchType
    <3>3. owed
      BY <3>1, <3>2 DEF owed, resetSeen
    <3>4. QED
      BY <3>3 DEF liveSize, SampleInv, Counted
  <2>4. CASE ~stats.lost
    <3>1. stats.live >= RowCount(rows) /\ stats.file >= RowCount(rows)
      BY <2>1, <2>2, <2>4 DEF SampleInv, Counted, StatsType
    <3>2. QED
      BY <2>1, <2>2, <3>1 DEF liveSize, StatsType
  <2>5. QED
    BY <2>3, <2>4
<1>4. QED
  BY <1>1, <1>2, <1>3, PTL DEF Spec

=============================================================================
