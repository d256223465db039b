------------------------ MODULE LogStructuredProofs ------------------------
(***************************************************************************)
(* Proofs about LogStructured, for every set of keys, clients and nodes    *)
(* and every value of the flags that satisfies RetainAssumption.           *)
(***************************************************************************)
EXTENDS LogStructured, TLAPS

(* TypeOK is preserved by every action, one step per action. *)
LEMMA TypeInit == Init => TypeOK
  BY DEF Init, TypeOK, Answers, Compactor, CompactRevKeyID

(* MAX(id) of a table of rows is a natural number that bounds every id. *)
HeadKept ==
  /\ seq >= CompactRevKeyID
  /\ \A r \in rows : CompactRevKeyID < r.id /\ r.id <= seq /\ r.prev < r.id
  /\ \A c \in Clients : pend[c] # NoOp => pend[c].prev <= seq
  /\ seq = CompactRevKeyID \/ \E r \in rows : r.id = seq

(* In such a table the CHOOSE of CurrentRevision is the last id. *)
LEMMA CurrentRevisionIsSeq ==
  ASSUME TypeOK, HeadKept
  PROVE  CurrentRevision(rows) = seq
<1> DEFINE S == {CompactRevKeyID} \cup {r.id : r \in rows}
           P(m) == \A r \in rows : r.id <= m
<1>1. seq \in S /\ P(seq)
  BY DEF HeadKept
<1>2. ASSUME NEW m \in S, P(m) PROVE m = seq
  BY <1>2 DEF HeadKept, TypeOK, Row, CompactRevKeyID
<1>3. QED
  BY <1>1, <1>2 DEF CurrentRevision

-----------------------------------------------------------------------------
(***************************************************************************)
(* The three things a step can do to the table: leave it alone, insert one *)
(* row, or compact it to a target at least CompactMinRetain behind.        *)
(***************************************************************************)
CompactTo(target) ==
  /\ target \in Nat
  /\ target <= seq - CompactMinRetain
  /\ target > compactRev
  /\ CompactTx(target)
  /\ UNCHANGED <<seq, pend, resp, lost>>

(* A batch of compactIter compacts to such a target. *)
LEMMA BatchCompacts ==
  ASSUME TypeOK, HeadKept, NEW n \in Nodes, CompactBatch(n)
  PROVE  \E target \in Nat : CompactTo(target)
<1> DEFINE m == [cmp[n] EXCEPT !.iter = NextIter(cmp[n])]
           target == safeCompactRev(m.iter, seq)
<1>1. cmp[n] \in Compactor /\ compactRev \in Nat /\ seq \in Nat
  BY DEF TypeOK
<1>2. m.iter \in Nat /\ m.compacted \in Nat
  BY <1>1, RetainAssumption DEF Compactor, NextIter
<1>3. CurrentRevision(rows) = seq
  BY CurrentRevisionIsSeq
<1>4. m.compacted = compactRev /\ target > m.compacted /\ CompactTx(target)
      /\ UNCHANGED <<seq, pend, resp, lost>>
  BY <1>3 DEF CompactBatch
<1>5. target \in Nat /\ target <= seq - CompactMinRetain
  BY <1>1, <1>2, <1>4, RetainAssumption DEF safeCompactRev
<1>6. QED
  BY <1>1, <1>4, <1>5 DEF CompactTo

(* The compactor's record keeps its type whatever its loop does. *)
LEMMA CompactorType ==
  ASSUME TypeOK, HeadKept, NEW n \in Nodes, Compact(n)
  PROVE  cmp' \in [Nodes -> Compactor]
<1>1. cmp \in [Nodes -> Compactor] /\ cmp[n] \in Compactor /\ compactRev \in Nat /\ seq \in Nat
  BY DEF TypeOK
<1>2. CurrentRevision(rows) = seq
  BY CurrentRevisionIsSeq
<1>3. NextIter(cmp[n]) \in Nat
  BY <1>1, RetainAssumption DEF NextIter, Compactor
<1>4. ASSUME NEW m \in Compactor PROVE Ended(m) \in Compactor
  BY DEF Ended, Compactor
<1>5. ASSUME NEW m \in Compactor, NEW x \in Nat, NEW y \in Nat
      PROVE  Noted(m, x, y) \in Compactor
  BY DEF Noted, Compactor
<1>6. [cmp[n] EXCEPT !.iter = NextIter(cmp[n])] \in Compactor
  BY <1>1, <1>3 DEF Compactor
<1>7. ASSUME NEW m \in Compactor, cmp' = [cmp EXCEPT ![n] = m]
      PROVE  cmp' \in [Nodes -> Compactor]
  BY <1>1, <1>7
<1>8. CASE CompactTick(n)
  BY <1>1, <1>8 DEF CompactTick, Compactor
<1>9. CASE \E target \in 1 .. seq : CompactRequest(n, target)
  BY <1>1, <1>9 DEF CompactRequest, Compactor
<1>10. CASE CompactBatch(n)
  <2>1. safeCompactRev(NextIter(cmp[n]), seq) \in Nat
    BY <1>1, <1>3, RetainAssumption DEF safeCompactRev
  <2>2. QED
    BY <1>1, <1>2, <1>5, <1>6, <1>7, <1>10, <2>1 DEF CompactBatch, Compactor
<1>11. CASE CompactStale(n)
  BY <1>1, <1>2, <1>4, <1>5, <1>6, <1>7, <1>11 DEF CompactStale
<1>12. CASE CompactError(n)
  BY <1>4, <1>6, <1>7, <1>12 DEF CompactError
<1>13. CASE CompactDone(n)
  BY <1>1, <1>4, <1>7, <1>13 DEF CompactDone
<1>14. QED
  BY <1>8, <1>9, <1>10, <1>11, <1>12, <1>13 DEF Compact

(***************************************************************************)
(* What a step of a client does besides inserting: it may start a write at *)
(* the newest row of its key, or end one.                                  *)
(***************************************************************************)
ReadsNewest(op, k, prev) ==
  \/ Latest(rows, k) = {} /\ prev = 0 /\ op = "create"
  \/ \E r \in Latest(rows, k) : prev = r.id /\ r.deleted = (op = "create")

ReadsCreate(k, prev, createRev) ==
  \E r \in Latest(rows, k) : prev = r.id /\ createRev = CreateRevision(r)

StartsWrite(c, k) ==
  \E op \in {"create", "update", "delete"}, prev \in Nat, createRev \in Nat :
    /\ pend' = [pend EXCEPT ![c] = [op |-> op, key |-> k, prev |-> prev,
                                    createRev |-> createRev, read |-> seq]]
    /\ resp' = [op |-> "none", key |-> NoKey, ans |-> "none"]
    /\ ReadsNewest(op, k, prev)
    /\ op = "update" => ReadsCreate(k, prev, createRev)
    /\ pend[c] = NoOp
    /\ lost' = lost

Ends(c) == pend[c] # NoOp /\ pend' = [pend EXCEPT ![c] = NoOp] /\ lost' = lost \ {c}

(* Every step is of one of these kinds. *)
LEMMA StepKinds ==
  ASSUME TypeOK, HeadKept, [Next]_vars
  PROVE  \/ /\ UNCHANGED <<rows, seq, compactRev>>
            /\ \/ UNCHANGED <<pend, lost>>
               \/ \E c \in Clients : Ends(c)
               \/ \E c \in Clients, k \in Keys : StartsWrite(c, k)
         \/ \E c \in Clients : pend[c] # NoOp /\ Insert(c)
         \/ \E target \in Nat : CompactTo(target)
<1>1. CurrentRevision(rows) = seq
  BY CurrentRevisionIsSeq
<1>2. ASSUME NEW c \in Clients, NEW k \in Keys, NEW r \in Latest(rows, k)
      PROVE  r.id \in Nat /\ CreateRevision(r) \in Nat /\ r.deleted \in BOOLEAN
  BY DEF TypeOK, Latest, Row, CreateRevision
<1>3. ASSUME NEW c \in Clients, NEW k \in Keys, CreateGet(c, k)
      PROVE  UNCHANGED <<rows, seq, compactRev>> /\ (UNCHANGED <<pend, lost>> \/ StartsWrite(c, k))
  BY <1>1, <1>2, <1>3 DEF CreateGet, Start, Answer, StartsWrite, ReadsNewest
<1>4. ASSUME NEW c \in Clients, NEW k \in Keys, NEW v \in 0 .. seq, DeleteGet(c, k, v)
      PROVE  UNCHANGED <<rows, seq, compactRev>> /\ (UNCHANGED <<pend, lost>> \/ StartsWrite(c, k))
  BY <1>1, <1>2, <1>4 DEF DeleteGet, Start, Answer, StartsWrite, ReadsNewest
<1>5. ASSUME NEW c \in Clients, NEW k \in Keys, NEW v \in 0 .. seq, UpdateGet(c, k, v)
      PROVE  UNCHANGED <<rows, seq, compactRev>> /\ (UNCHANGED <<pend, lost>> \/ StartsWrite(c, k))
  <2>1. CASE \E r \in Latest(rows, k) : ~r.deleted /\ r.id = v
    <3>1. ASSUME NEW r \in Latest(rows, k), NEW q \in Latest(rows, k)
          PROVE  r.id = q.id
      BY DEF Latest, TypeOK, Row
    <3>2. PICK r \in Latest(rows, k) : Start(c, "update", k, r.id, CreateRevision(r))
      BY <1>5, <2>1 DEF UpdateGet
    <3>3. PICK q \in Latest(rows, k) : ~q.deleted /\ q.id = r.id
      BY <2>1, <3>1
    <3>4. q.deleted = ("update" = "create")
      BY <1>2, <3>3
    <3>5. ReadsNewest("update", k, r.id) /\ ReadsCreate(k, r.id, CreateRevision(r))
      BY <3>3, <3>4 DEF ReadsNewest, ReadsCreate
    <3>6. StartsWrite(c, k)
      BY <1>1, <1>2, <1>5, <3>2, <3>5 DEF UpdateGet, Start, Answer, StartsWrite
    <3>7. QED
      BY <1>5, <3>6 DEF UpdateGet
  <2>2. QED
    BY <1>5, <2>1 DEF UpdateGet
<1>14. ASSUME NEW c \in Clients, NEW k \in Keys, GetError(c, k)
      PROVE  UNCHANGED <<rows, seq, compactRev, pend, lost>>
  BY <1>14 DEF GetError
<1>6. ASSUME NEW c \in Clients, AppendConflict(c) \/ AppendError(c)
      PROVE  UNCHANGED <<rows, seq, compactRev>> /\ Ends(c)
  BY <1>6 DEF AppendConflict, AppendError, GiveUp, Ends
<1>7. ASSUME NEW c \in Clients, Append(c) \/ AppendAckLost(c)
      PROVE  pend[c] # NoOp /\ Insert(c)
  BY <1>7 DEF Append, AppendAckLost
<1>8. ASSUME NEW n \in Nodes, Compact(n), ~CompactBatch(n)
      PROVE  UNCHANGED <<rows, seq, compactRev, pend, lost>>
  BY <1>8 DEF Compact, CompactTick, CompactRequest, CompactStale, CompactError, CompactDone
<1>9. ASSUME NEW n \in Nodes, CompactBatch(n)
      PROVE  \E target \in Nat : CompactTo(target)
  BY <1>9, BatchCompacts
<1>10. CASE UNCHANGED vars
  BY <1>10 DEF vars
<1>11. CASE \E c \in Clients : Write(c)
  BY <1>3, <1>4, <1>5, <1>6, <1>7, <1>11, <1>14 DEF Write
<1>12. CASE \E n \in Nodes : Compact(n)
  BY <1>8, <1>9, <1>12
<1>13. QED
  BY <1>10, <1>11, <1>12 DEF Next

-----------------------------------------------------------------------------
(* Type correctness, with the head of the table. *)

LEMMA HeadStep == TypeOK /\ HeadKept /\ [Next]_vars => HeadKept'
<1> SUFFICES ASSUME TypeOK, HeadKept, [Next]_vars PROVE HeadKept'
  OBVIOUS
<1> USE DEF CompactRevKeyID
<1>1. CASE /\ UNCHANGED <<rows, seq, compactRev>>
           /\ \/ UNCHANGED <<pend, lost>>
              \/ \E c \in Clients : Ends(c)
              \/ \E c \in Clients, k \in Keys : StartsWrite(c, k)
  <2>1. ASSUME NEW c \in Clients, pend'[c] # NoOp PROVE pend'[c].prev <= seq
    <3>1. CASE UNCHANGED pend
      BY <2>1, <3>1 DEF HeadKept
    <3>2. ASSUME NEW d \in Clients, Ends(d) PROVE pend'[c].prev <= seq
      BY <2>1, <3>2 DEF HeadKept, Ends, TypeOK
    <3>3. ASSUME NEW d \in Clients, NEW k \in Keys, StartsWrite(d, k)
          PROVE  pend'[c].prev <= seq
      <4>1. \A r \in Latest(rows, k) : r.id <= seq
        BY DEF Latest, HeadKept
      <4>2. 0 <= seq
        BY DEF TypeOK
      <4>3. QED
        BY <2>1, <3>3, <4>1, <4>2 DEF HeadKept, StartsWrite, ReadsNewest, TypeOK
    <3>4. QED
      BY <1>1, <3>1, <3>2, <3>3
  <2>2. QED
    BY <1>1, <2>1 DEF HeadKept
<1>2. ASSUME NEW c \in Clients, pend[c] # NoOp, Insert(c) PROVE HeadKept'
  <2>1. pend[c].prev \in Nat /\ pend[c].prev <= seq /\ seq \in Nat
    BY <1>2 DEF TypeOK, HeadKept, Pending
  <2>2. seq' = seq + 1 /\ rows' = rows \cup {NewRow(pend[c])}
        /\ pend' = [pend EXCEPT ![c] = NoOp]
    BY <1>2 DEF Insert
  <2>3. NewRow(pend[c]).id = seq + 1 /\ NewRow(pend[c]).prev = pend[c].prev
    BY DEF NewRow
  <2>4. \A r \in rows : r.id \in Nat /\ r.prev \in Nat
    BY DEF TypeOK, Row
  <2>5. \A r \in rows' : 1 < r.id /\ r.id <= seq' /\ r.prev < r.id
    BY <2>1, <2>2, <2>3, <2>4 DEF HeadKept
  <2>6. \A d \in Clients : pend'[d] # NoOp => pend'[d].prev <= seq'
    BY <2>1, <2>2 DEF HeadKept, TypeOK, Pending
  <2>7. NewRow(pend[c]) \in rows' /\ NewRow(pend[c]).id = seq'
    BY <2>2, <2>3
  <2>8. seq' >= 1
    BY <2>1, <2>2
  <2>9. QED
    BY <2>5, <2>6, <2>7, <2>8 DEF HeadKept
<1>3. ASSUME NEW target \in Nat, CompactTo(target) PROVE HeadKept'
  <2>1. seq \in Nat /\ seq' = seq /\ rows' = Compacted(rows, target) /\ target < seq
        /\ pend' = pend
    BY <1>3, RetainAssumption DEF CompactTo, CompactTx, TypeOK
  <2>2. ASSUME NEW r \in rows, r.id = seq PROVE r \in Compacted(rows, target)
    <3>1. \A q \in rows : q.id \in Nat /\ q.prev \in Nat /\ q.prev < q.id
      BY DEF TypeOK, Row, HeadKept
    <3>2. ASSUME NEW q \in rows, q.id <= target PROVE q.prev # seq /\ q.id # seq
      BY <2>1, <3>1, <3>2
    <3>3. QED
      BY <2>1, <2>2, <3>2 DEF Compacted, CompactedIds
  <2>3. QED
    BY <2>1, <2>2 DEF HeadKept, Compacted
<1>4. QED
  BY <1>1, <1>2, <1>3, StepKinds

(* The variables a step changes keep their types. *)
LEMMA TypeStep == TypeOK /\ HeadKept /\ [Next]_vars => TypeOK'
<1> SUFFICES ASSUME TypeOK, HeadKept, [Next]_vars PROVE TypeOK'
  OBVIOUS
<1>1. seq \in Nat /\ pend \in [Clients -> Pending \cup {NoOp}] /\ rows \in SUBSET Row
  BY DEF TypeOK
<1>2. ASSUME NEW c \in Clients, NEW k \in Keys, StartsWrite(c, k), UNCHANGED <<rows, seq, compactRev>>
      PROVE  pend' \in [Clients -> Pending \cup {NoOp}]
  BY <1>1, <1>2 DEF StartsWrite, Pending
<1>3. ASSUME NEW c \in Clients, pend[c] # NoOp, Insert(c)
      PROVE  /\ rows' \in SUBSET Row /\ seq' \in Nat /\ compactRev' \in Nat
             /\ pend' \in [Clients -> Pending \cup {NoOp}] /\ lost' \in SUBSET Clients
  <2>1. pend[c] \in Pending
    BY <1>1, <1>3
  <2>2. NewRow(pend[c]) \in Row
    BY <1>1, <2>1 DEF NewRow, Row, Pending
  <2>3. QED
    BY <1>1, <1>3, <2>2 DEF Insert, TypeOK
<1>4. ASSUME NEW target \in Nat, CompactTo(target)
      PROVE  /\ rows' \in SUBSET Row /\ seq' \in Nat /\ compactRev' \in Nat
             /\ pend' \in [Clients -> Pending \cup {NoOp}] /\ lost' \in SUBSET Clients
  BY <1>1, <1>4 DEF CompactTo, CompactTx, Compacted, TypeOK
<1>5. /\ rows' \in SUBSET Row /\ seq' \in Nat /\ compactRev' \in Nat
      /\ pend' \in [Clients -> Pending \cup {NoOp}] /\ lost' \in SUBSET Clients
  <2>1. ASSUME NEW c \in Clients, Ends(c)
        PROVE  pend' \in [Clients -> Pending \cup {NoOp}] /\ lost' \in SUBSET Clients
    BY <1>1, <2>1 DEF Ends, TypeOK
  <2>2. ASSUME NEW c \in Clients, NEW k \in Keys, StartsWrite(c, k) PROVE lost' \in SUBSET Clients
    BY <2>2 DEF StartsWrite, TypeOK
  <2>3. QED
    BY <1>2, <1>3, <1>4, <2>1, <2>2, StepKinds DEF TypeOK
<1>6. resp' \in Answers
  <2>1. ASSUME NEW op \in {"create", "update", "delete", "none"}, NEW k \in Keys \cup {NoKey},
               NEW a \in {"none", "ok", "failed", "exists", "error"}, Answer(op, k, a)
        PROVE  resp' \in Answers
    BY <2>1 DEF Answer, Answers
  <2>2. ASSUME NEW c \in Clients, Write(c) PROVE resp' \in Answers
    <3>1. ASSUME NEW k \in Keys, CreateGet(c, k) PROVE resp' \in Answers
      BY <2>1, <3>1 DEF CreateGet, Start
    <3>2. ASSUME NEW k \in Keys, NEW v \in 0 .. seq, DeleteGet(c, k, v) PROVE resp' \in Answers
      BY <2>1, <3>2 DEF DeleteGet, Start
    <3>3. ASSUME NEW k \in Keys, NEW v \in 0 .. seq, UpdateGet(c, k, v) PROVE resp' \in Answers
      BY <2>1, <3>3 DEF UpdateGet, Start
    <3>8. ASSUME NEW k \in Keys, GetError(c, k) PROVE resp' \in Answers
      BY <2>1, <3>8 DEF GetError
    <3>4. ASSUME pend[c] # NoOp
          PROVE  pend[c].op \in {"create", "update", "delete"} /\ pend[c].key \in Keys
      BY <1>1, <3>4 DEF Pending
    <3>5. CASE Append(c)
      BY <2>1, <3>4, <3>5 DEF Append
    <3>6. CASE AppendConflict(c) \/ AppendError(c) \/ AppendAckLost(c)
      BY <2>1, <3>4, <3>6 DEF AppendConflict, AppendError, AppendAckLost, AppendFailed
    <3>7. QED
      BY <2>2, <3>1, <3>2, <3>3, <3>5, <3>6, <3>8 DEF Write
  <2>3. ASSUME NEW n \in Nodes, Compact(n) PROVE resp' = resp
    BY <2>3 DEF Compact, CompactTick, CompactRequest, CompactBatch, CompactStale,
                CompactError, CompactDone
  <2>4. QED
    BY <2>2, <2>3 DEF Next, vars, TypeOK
<1>7. cmp' \in [Nodes -> Compactor]
  <2>1. ASSUME NEW c \in Clients, Write(c) PROVE cmp' = cmp
    BY <2>1 DEF Write, GetError, CreateGet, DeleteGet, UpdateGet, Append, AppendConflict,
                AppendError, AppendAckLost, Insert, GiveUp
  <2>2. QED
    BY <2>1, CompactorType DEF Next, vars, TypeOK
<1>8. QED
  BY <1>5, <1>6, <1>7 DEF TypeOK

(* Both hold initially. *)
LEMMA HeadInit == Init => HeadKept
  BY DEF Init, HeadKept, CompactRevKeyID

(* LogStructured keeps its variables' types, in every configuration. *)
THEOREM TypeCorrect == Spec => []TypeOK
<1>1. Init => TypeOK /\ HeadKept
  BY TypeInit, HeadInit
<1>2. TypeOK /\ HeadKept /\ [Next]_vars => (TypeOK /\ HeadKept)'
  BY TypeStep, HeadStep
<1>3. QED
  BY <1>1, <1>2, PTL DEF Spec

(***************************************************************************)
(* MAX(id) is the last assigned id in every reachable state: no compaction *)
(* takes the newest row, even with writes and other nodes racing it.       *)
(***************************************************************************)
THEOREM HeadIsRetained == Spec => []HeadRetained
<1>1. Init => TypeOK /\ HeadKept
  BY TypeInit, HeadInit
<1>2. TypeOK /\ HeadKept /\ [Next]_vars => (TypeOK /\ HeadKept)'
  BY TypeStep, HeadStep
<1>3. TypeOK /\ HeadKept => HeadRetained
  BY CurrentRevisionIsSeq DEF HeadRetained
<1>4. QED
  BY <1>1, <1>2, <1>3, PTL DEF Spec

-----------------------------------------------------------------------------
(***************************************************************************)
(* The shape of the table that makes the UNIQUE index a compare-and-swap.  *)
(***************************************************************************)
IdsUnique == \A r, s \in rows : r.id = s.id => r = s

(* prev_revision stays within the key. *)
SameKeyPrev == \A r, s \in rows : r.prev = s.id => r.name = s.name

(***************************************************************************)
(* A row that is not its key's newest still has the row that replaced it   *)
(* in the table: a compaction takes the two together or the older alone.   *)
(***************************************************************************)
SuccessorKept ==
  \A r, s \in rows : r.name = s.name /\ s.id < r.id =>
    \E t \in rows : t.name = s.name /\ t.prev = s.id

(* Every key with a row has a newest row. *)
HasLatest == \A r \in rows : \E s \in rows : s \in Latest(rows, r.name)

TableInv == /\ IdsUnique /\ SameKeyPrev /\ SuccessorKept /\ HasLatest
            /\ LinearHistory /\ PendingProtected

(* The row types and bounds the steps below start from. *)
RowFacts == \A r \in rows : /\ r.id \in Nat /\ r.prev \in Nat /\ r.prev < r.id
                            /\ 1 < r.id /\ r.id <= seq /\ r.deleted \in BOOLEAN

LEMMA RowFactsHold == TypeOK /\ HeadKept => RowFacts
  BY DEF TypeOK, Row, HeadKept, RowFacts, CompactRevKeyID

(* A timely write that meets no conflict names the newest row of its key. *)
LEMMA NoConflictMeansLatest ==
  ASSUME TypeOK, HeadKept, TableInv, NEW c \in Clients, Timely(c),
         ~Conflict(rows, pend[c].key, pend[c].prev)
  PROVE  /\ \A r \in rows : r.name = pend[c].key => r.id <= pend[c].prev
         /\ pend[c].prev # 0 => \E r \in rows :
              /\ r.id = pend[c].prev /\ r.name = pend[c].key
              /\ r.deleted = (pend[c].op = "create")
  BY RowFactsHold DEF TableInv, PendingProtected, RowFacts, Timely, TypeOK, Pending

LEMMA TableInsert ==
  ASSUME TypeOK, HeadKept, TableInv, NEW c \in Clients, pend[c] # NoOp, Insert(c)
  PROVE  TableInv'
<1> DEFINE p == pend[c]
           new == NewRow(p)
<1>1. Timely(c) /\ ~Conflict(rows, p.key, p.prev)
  BY DEF Insert, Timely
<1>2. /\ p \in Pending
      /\ \A r \in rows : r.name = p.key => r.id <= p.prev
      /\ p.prev # 0 => \E r \in rows : r.id = p.prev /\ r.name = p.key
  BY <1>1, NoConflictMeansLatest DEF TypeOK
<1>3. rows' = rows \cup {new} /\ seq' = seq + 1 /\ pend' = [pend EXCEPT ![c] = NoOp]
  BY DEF Insert
<1>4. /\ new.id = seq + 1 /\ new.name = p.key /\ new.prev = p.prev
      /\ new.created = (p.op = "create") /\ new.deleted = (p.op = "delete")
  BY DEF NewRow
<1>5. RowFacts /\ seq \in Nat /\ p.prev \in Nat /\ p.prev <= seq
  BY <1>2, RowFactsHold DEF TypeOK, HeadKept, Pending
<1>6. IdsUnique'
  BY <1>3, <1>4, <1>5 DEF TableInv, IdsUnique, RowFacts
<1>7. SameKeyPrev'
  <2>1. ASSUME NEW s \in rows, s.id = p.prev PROVE s.name = p.key
    BY <1>2, <1>5, <2>1 DEF TableInv, IdsUnique, RowFacts
  <2>2. \A r \in rows : r.prev # new.id
    BY <1>4, <1>5 DEF RowFacts
  <2>3. new.prev # new.id
    BY <1>4, <1>5
  <2>4. QED
    BY <1>3, <1>4, <2>1, <2>2, <2>3 DEF TableInv, SameKeyPrev
<1>8. SuccessorKept'
  <2> SUFFICES ASSUME NEW r \in rows', NEW s \in rows', r.name = s.name, s.id < r.id
               PROVE  \E t \in rows' : t.name = s.name /\ t.prev = s.id
    BY DEF SuccessorKept
  <2>1. s \in rows
    BY <1>3, <1>4, <1>5 DEF RowFacts
  <2>2. CASE r \in rows
    BY <1>3, <2>1, <2>2 DEF TableInv, SuccessorKept
  <2>3. CASE r = new
    <3>1. s.id <= p.prev /\ s.name = p.key
      BY <1>2, <1>4, <2>1, <2>3
    <3>2. CASE s.id = p.prev
      BY <1>3, <1>4, <3>1, <3>2
    <3>3. CASE s.id < p.prev
      <4>1. PICK q \in rows : q.id = p.prev /\ q.name = p.key
        BY <1>2, <1>5, <2>1, <3>3 DEF RowFacts
      <4>2. QED
        BY <1>3, <2>1, <3>1, <3>3, <4>1 DEF TableInv, SuccessorKept
    <3>4. QED
      BY <1>5, <2>1, <3>1, <3>2, <3>3 DEF RowFacts
  <2>4. QED
    BY <1>3, <2>2, <2>3
<1>9. HasLatest'
  <2>1. new \in Latest(rows', p.key)
    BY <1>3, <1>4, <1>5 DEF Latest, RowFacts
  <2>2. ASSUME NEW r \in rows, r.name # p.key PROVE Latest(rows', r.name) = Latest(rows, r.name)
    BY <1>3, <1>4, <2>2 DEF Latest
  <2>3. QED
    BY <1>3, <1>4, <2>1, <2>2 DEF TableInv, HasLatest
<1>10. LinearHistory'
  BY <1>2, <1>3, <1>4, <1>5 DEF TableInv, LinearHistory, RowFacts
<1>11. PendingProtected'
  <2> SUFFICES ASSUME NEW d \in Clients, Timely(d)' PROVE
        /\ pend[d].prev <= pend[d].read /\ pend[d].read <= seq + 1
        /\ pend[d].prev # 0 => \E r \in rows' : /\ r.id = pend[d].prev /\ r.name = pend[d].key
                                                /\ r.deleted = (pend[d].op = "create")
        /\ \A r \in rows' : r.name = pend[d].key => r.id <= pend[d].prev \/ r.id > pend[d].read
        /\ (\E r \in rows' : r.name = pend[d].key /\ r.id > pend[d].read) =>
             Conflict(rows', pend[d].key, pend[d].prev)
        /\ pend'[d] = pend[d]
    BY <1>3 DEF PendingProtected, Conflict
  <2>1. d # c /\ pend'[d] = pend[d] /\ pend[d] \in Pending /\ pend[d] # NoOp
    BY <1>3 DEF Timely, TypeOK
  <2>2. Timely(d)
    BY <1>3, <1>5, <2>1, RetainAssumption DEF Timely, Pending
  <2>3. /\ pend[d].prev <= pend[d].read /\ pend[d].read <= seq
        /\ pend[d].prev # 0 => \E r \in rows : /\ r.id = pend[d].prev /\ r.name = pend[d].key
                                               /\ r.deleted = (pend[d].op = "create")
        /\ \A r \in rows : r.name = pend[d].key => r.id <= pend[d].prev \/ r.id > pend[d].read
        /\ (\E r \in rows : r.name = pend[d].key /\ r.id > pend[d].read) =>
             Conflict(rows, pend[d].key, pend[d].prev)
    BY <2>2 DEF TableInv, PendingProtected
  <2>4. \A r \in rows' : r.name = pend[d].key => r.id <= pend[d].prev \/ r.id > pend[d].read
    BY <1>3, <1>4, <1>5, <2>1, <2>3 DEF Pending
  <2>5. ASSUME \E r \in rows' : r.name = pend[d].key /\ r.id > pend[d].read
        PROVE  Conflict(rows', pend[d].key, pend[d].prev)
    <3>1. CASE \E r \in rows : r.name = pend[d].key /\ r.id > pend[d].read
      BY <1>3, <2>3, <3>1 DEF Conflict
    <3>2. CASE ~ \E r \in rows : r.name = pend[d].key /\ r.id > pend[d].read
      <4>1. pend[d].key = p.key
        BY <1>3, <1>4, <2>5, <3>2
      <4>2. \A r \in rows : r.name = p.key => r.id <= pend[d].prev
        BY <2>3, <3>2, <4>1
      <4>3. pend[d].prev = p.prev
        <5>1. CASE p.prev = 0 /\ pend[d].prev # 0
          BY <1>2, <1>5, <2>3, <4>1, <5>1 DEF RowFacts
        <5>2. CASE p.prev # 0 /\ pend[d].prev = 0
          BY <1>2, <1>5, <4>2, <5>2 DEF RowFacts
        <5>3. CASE p.prev # 0 /\ pend[d].prev # 0
          <6>1. p.prev <= pend[d].prev
            BY <1>2, <4>2, <5>3
          <6>2. pend[d].prev <= p.prev
            BY <1>2, <2>3, <4>1, <5>3
          <6>3. QED
            BY <1>5, <2>1, <6>1, <6>2 DEF Pending
        <5>4. QED
          BY <5>1, <5>2, <5>3
      <4>4. QED
        BY <1>3, <1>4, <4>1, <4>3 DEF Conflict
    <3>3. QED
      BY <3>1, <3>2
  <2>6. QED
    BY <1>3, <1>5, <2>1, <2>3, <2>4, <2>5 DEF Pending
<1>12. QED
  BY <1>6, <1>7, <1>8, <1>9, <1>10, <1>11 DEF TableInv

(* Starting a write, ending one, and stuttering. *)
LEMMA TableQuiet ==
  ASSUME TypeOK, HeadKept, TableInv, UNCHANGED <<rows, seq, compactRev>>,
         \/ UNCHANGED <<pend, lost>>
         \/ \E c \in Clients : Ends(c)
         \/ \E c \in Clients, k \in Keys : StartsWrite(c, k)
  PROVE  TableInv'
<1>1. (IdsUnique /\ SameKeyPrev /\ SuccessorKept /\ HasLatest /\ LinearHistory)'
  BY DEF TableInv, IdsUnique, SameKeyPrev, SuccessorKept, HasLatest, LinearHistory, Latest
<1>2. PendingProtected'
  <2>1. CASE UNCHANGED <<pend, lost>>
    BY <2>1 DEF TableInv, PendingProtected, Timely, Conflict
  <2>2. ASSUME NEW c \in Clients, Ends(c) PROVE PendingProtected'
    BY <2>2 DEF TableInv, PendingProtected, Timely, Conflict, Ends, TypeOK
  <2>3. ASSUME NEW c \in Clients, NEW k \in Keys, StartsWrite(c, k) PROVE PendingProtected'
    <3>1. PICK op \in {"create", "update", "delete"}, prev \in Nat, createRev \in Nat :
            /\ pend' = [pend EXCEPT ![c] = [op |-> op, key |-> k, prev |-> prev,
                                            createRev |-> createRev, read |-> seq]]
            /\ ReadsNewest(op, k, prev)
      BY <2>3 DEF StartsWrite
    <3>2. RowFacts /\ seq \in Nat
      BY RowFactsHold DEF TypeOK
    <3>3. prev <= seq
      <4>1. prev = 0 \/ \E r \in rows : prev = r.id
        BY <3>1 DEF Latest, ReadsNewest
      <4>2. QED
        BY <3>2, <4>1 DEF RowFacts
    <3>4. prev # 0 => \E r \in rows : r.id = prev /\ r.name = k /\ r.deleted = (op = "create")
      BY <3>1 DEF Latest, ReadsNewest
    <3>5. \A r \in rows : r.name = k => r.id <= prev
      <4>1. CASE Latest(rows, k) = {}
        BY <4>1 DEF TableInv, HasLatest
      <4>2. CASE \E r \in Latest(rows, k) : prev = r.id
        BY <4>2 DEF Latest
      <4>3. QED
        BY <3>1, <4>1, <4>2 DEF ReadsNewest
    <3>6. \A r \in rows : ~(r.id > seq)
      BY <3>2 DEF RowFacts
    <3>7. \A d \in Clients \ {c} : pend'[d] = pend[d]
      BY <3>1 DEF TypeOK
    <3>8. /\ pend'[c].prev = prev /\ pend'[c].read = seq /\ pend'[c].key = k
          /\ pend'[c].op = op
      BY <3>1 DEF TypeOK
    <3>9. ASSUME NEW d \in Clients \ {c}, Timely(d)' PROVE Timely(d)
      BY <3>7, <3>9 DEF Timely
    <3>10. QED
      BY <3>2, <3>3, <3>4, <3>5, <3>6, <3>7, <3>8, <3>9
         DEF TableInv, PendingProtected, Conflict
  <2>4. QED
    BY <2>1, <2>2, <2>3
<1>3. QED
  BY <1>1, <1>2 DEF TableInv

(***************************************************************************)
(* A row that a compaction takes is at or below its target; it is a        *)
(* tombstone or the predecessor, in its key, of a row at or below it.      *)
(***************************************************************************)
LEMMA TakenRows ==
  ASSUME TypeOK, HeadKept, IdsUnique, SameKeyPrev, NEW target \in Nat,
         NEW r \in rows, r \notin Compacted(rows, target)
  PROVE  /\ r.id <= target
         /\ \/ r.deleted
            \/ \E q \in rows : /\ q.prev = r.id /\ q.name = r.name
                               /\ q.id <= target /\ r.id < q.id
<1>1. RowFacts
  BY RowFactsHold
<1>2. r.id \in CompactedIds(rows, target)
  BY DEF Compacted
<1>3. CASE \E q \in rows : q.prev # 0 /\ q.id <= target /\ q.prev = r.id
  BY <1>1, <1>3 DEF SameKeyPrev, RowFacts
<1>4. CASE \E q \in rows : q.deleted /\ q.id <= target /\ q.id = r.id
  BY <1>4 DEF IdsUnique
<1>5. QED
  BY <1>2, <1>3, <1>4 DEF CompactedIds

(***************************************************************************)
(* A compaction that leaves alone the tombstones Creates have read keeps   *)
(* the table's shape.                                                      *)
(***************************************************************************)
LEMMA TableCompact ==
  ASSUME TypeOK, HeadKept, TableInv, TombstoneRace = FALSE,
         NEW target \in Nat, CompactTo(target)
  PROVE  TableInv'
<1>1. /\ rows' = Compacted(rows, target) /\ seq' = seq /\ pend' = pend
      /\ target <= seq - CompactMinRetain
  BY DEF CompactTo, CompactTx
<1>2. rows' \subseteq rows
  BY <1>1 DEF Compacted
<1>3. RowFacts /\ seq \in Nat
  BY RowFactsHold DEF TypeOK
<1>4. ASSUME NEW r \in rows, r \notin rows'
      PROVE  /\ r.id <= target
             /\ \/ r.deleted
                \/ \E q \in rows : /\ q.prev = r.id /\ q.name = r.name
                                   /\ q.id <= target /\ r.id < q.id
  BY <1>1, <1>4, TakenRows DEF TableInv
<1>5. ASSUME NEW r \in rows, NEW s \in rows, r.prev = s.id, r.id <= target
      PROVE  s \notin rows'
  BY <1>1, <1>3, <1>5 DEF Compacted, CompactedIds, RowFacts
<1>6. IdsUnique' /\ SameKeyPrev' /\ LinearHistory'
  BY <1>2 DEF TableInv, IdsUnique, SameKeyPrev, LinearHistory
<1>7. SuccessorKept'
  <2> SUFFICES ASSUME NEW r \in rows', NEW s \in rows', r.name = s.name, s.id < r.id
               PROVE  \E t \in rows' : t.name = s.name /\ t.prev = s.id
    BY DEF SuccessorKept
  <2>1. PICK t \in rows : t.name = s.name /\ t.prev = s.id
    BY <1>2 DEF TableInv, SuccessorKept
  <2>2. t \in rows'
    BY <1>2, <1>4, <1>5, <2>1
  <2>3. QED
    BY <2>1, <2>2
<1>8. HasLatest'
  <2> SUFFICES ASSUME NEW r \in rows' PROVE \E s \in rows' : s \in Latest(rows', r.name)
    BY DEF HasLatest
  <2>1. PICK s \in rows : s \in Latest(rows, r.name)
    BY <1>2 DEF TableInv, HasLatest
  <2>2. CASE s \in rows'
    BY <1>2, <2>1, <2>2 DEF Latest
  <2>3. CASE s \notin rows'
    <3>1. s.id <= target /\ s.name = r.name /\ \A q \in rows : q.name = r.name => q.id <= s.id
      BY <1>4, <2>1, <2>3 DEF Latest
    <3>2. r # s /\ r.id < s.id
      BY <1>2, <1>3, <2>3, <3>1 DEF TableInv, IdsUnique, RowFacts
    <3>3. PICK t \in rows : t.name = r.name /\ t.prev = r.id
      BY <1>2, <3>1, <3>2 DEF TableInv, SuccessorKept
    <3>4. t.id <= target
      BY <1>3, <3>1, <3>3 DEF RowFacts
    <3>5. QED
      BY <1>2, <1>5, <3>3, <3>4
  <2>4. QED
    BY <2>2, <2>3
<1>9. PendingProtected'
  <2> SUFFICES ASSUME NEW c \in Clients, Timely(c) PROVE
        /\ pend[c].prev <= pend[c].read /\ pend[c].read <= seq
        /\ pend[c].prev # 0 => \E r \in rows' : /\ r.id = pend[c].prev /\ r.name = pend[c].key
                                                /\ r.deleted = (pend[c].op = "create")
        /\ \A r \in rows' : r.name = pend[c].key => r.id <= pend[c].prev \/ r.id > pend[c].read
        /\ (\E r \in rows' : r.name = pend[c].key /\ r.id > pend[c].read) =>
             Conflict(rows', pend[c].key, pend[c].prev)
    BY <1>1 DEF PendingProtected, Timely, Conflict
  <2>1. /\ pend[c].prev <= pend[c].read /\ pend[c].read <= seq
        /\ pend[c].prev # 0 => \E r \in rows : /\ r.id = pend[c].prev /\ r.name = pend[c].key
                                               /\ r.deleted = (pend[c].op = "create")
        /\ \A r \in rows : r.name = pend[c].key => r.id <= pend[c].prev \/ r.id > pend[c].read
        /\ (\E r \in rows : r.name = pend[c].key /\ r.id > pend[c].read) =>
             Conflict(rows, pend[c].key, pend[c].prev)
    BY DEF TableInv, PendingProtected
  <2>2. pend[c] \in Pending /\ pend[c] # NoOp
    BY DEF Timely, TypeOK
  <2>3. target <= pend[c].read
    BY <1>1, <1>3, <2>2, RetainAssumption DEF Timely, Pending
  <2>4. ASSUME NEW r \in rows, r.id > pend[c].read PROVE r \in rows'
    BY <1>3, <1>4, <2>2, <2>3, <2>4 DEF RowFacts, Pending
  <2>5. ASSUME NEW r \in rows, r.id = pend[c].prev, r.name = pend[c].key,
               r.deleted = (pend[c].op = "create")
        PROVE  r \in rows'
    <3>1. SUFFICES ASSUME r \notin rows' PROVE FALSE
      OBVIOUS
    <3>2. CASE r.deleted
      <4>1. pend[c].op = "create"
        BY <2>5, <3>2
      <4>2. pend[c].prev \notin CompactedIds(rows, target)
        BY <2>2, <4>1 DEF CompactTo, CompactTx
      <4>3. QED
        BY <1>1, <2>5, <3>1, <4>2 DEF Compacted
    <3>3. CASE \E q \in rows : q.prev = r.id /\ q.name = r.name /\ q.id <= target /\ r.id < q.id
      BY <1>3, <2>1, <2>2, <2>3, <2>5, <3>3 DEF RowFacts, Pending
    <3>4. QED
      BY <1>4, <3>1, <3>2, <3>3
  <2>6. ASSUME \E r \in rows' : r.name = pend[c].key /\ r.id > pend[c].read
        PROVE  Conflict(rows', pend[c].key, pend[c].prev)
    <3>1. PICK t \in rows : t.name = pend[c].key /\ t.prev = pend[c].prev
      BY <1>2, <2>1, <2>6 DEF Conflict
    <3>2. t.id > pend[c].read
      BY <1>3, <2>1, <2>2, <3>1 DEF RowFacts, Pending
    <3>3. QED
      BY <2>4, <3>1, <3>2 DEF Conflict
  <2>7. QED
    BY <1>2, <2>1, <2>5, <2>6
<1>10. QED
  BY <1>6, <1>7, <1>8, <1>9 DEF TableInv

(* The whole invariant. *)
IndInv == TypeOK /\ HeadKept /\ TableInv

LEMMA IndInit == Init => IndInv
<1> SUFFICES ASSUME Init PROVE TableInv
  BY TypeInit, HeadInit DEF IndInv
<1>1. rows = {} /\ \A c \in Clients : pend[c] = NoOp
  BY DEF Init
<1>2. QED
  BY <1>1 DEF TableInv, IdsUnique, SameKeyPrev, SuccessorKept, HasLatest,
              LinearHistory, PendingProtected, Timely

LEMMA IndStep ==
  ASSUME TombstoneRace = FALSE
  PROVE  IndInv /\ [Next]_vars => IndInv'
<1> SUFFICES ASSUME IndInv, [Next]_vars PROVE TableInv'
  BY TypeStep, HeadStep DEF IndInv
<1>1. TypeOK /\ HeadKept /\ TableInv
  BY DEF IndInv
<1>2. ASSUME NEW c \in Clients, pend[c] # NoOp, Insert(c) PROVE TableInv'
  BY <1>1, <1>2, TableInsert
<1>3. ASSUME NEW target \in Nat, CompactTo(target) PROVE TableInv'
  BY <1>1, <1>3, TableCompact
<1>4. QED
  BY <1>1, <1>2, <1>3, StepKinds, TableQuiet

(***************************************************************************)
(* The history of every key is one chain, for every number of keys,        *)
(* clients and nodes and every batch size and retention: two writes that   *)
(* read the same row never both commit, as long as a write in flight       *)
(* outlasts no more than CompactMinRetain revisions and no compaction      *)
(* takes a tombstone a Create in flight has read.                          *)
(***************************************************************************)
THEOREM HistoryIsLinear ==
  ASSUME TombstoneRace = FALSE
  PROVE  Spec => []LinearHistory
<1>1. Init => IndInv
  BY IndInit
<1>2. IndInv /\ [Next]_vars => IndInv'
  BY IndStep
<1>3. IndInv => LinearHistory
  BY DEF IndInv, TableInv
<1>4. QED
  BY <1>1, <1>2, <1>3, PTL DEF Spec

(* What a timely write in flight needs of the table stays in it. *)
THEOREM PendingIsProtected ==
  ASSUME TombstoneRace = FALSE
  PROVE  Spec => []PendingProtected
<1>1. Init => IndInv
  BY IndInit
<1>2. IndInv /\ [Next]_vars => IndInv'
  BY IndStep
<1>3. IndInv => PendingProtected
  BY DEF IndInv, TableInv
<1>4. QED
  BY <1>1, <1>2, <1>3, PTL DEF Spec

-----------------------------------------------------------------------------
(* What a compaction does to the readers. *)

LEMMA CompactKeepsSnapshots ==
  ASSUME IndInv, NEW target \in Nat, CompactTo(target), NEW rev \in Nat, target <= rev
  PROVE  ListAt(rows', rev) = ListAt(rows, rev)
<1>1. rows' = Compacted(rows, target) /\ rows' \subseteq rows
  BY DEF CompactTo, CompactTx, Compacted
<1>2. RowFacts /\ TypeOK /\ HeadKept /\ TableInv
  BY RowFactsHold DEF IndInv
<1>3. ASSUME NEW r \in rows, r \notin rows'
      PROVE  /\ r.id <= target
             /\ \/ r.deleted
                \/ \E q \in rows : /\ q.prev = r.id /\ q.name = r.name
                                   /\ q.id <= target /\ r.id < q.id
  BY <1>1, <1>2, <1>3, TakenRows DEF TableInv
<1>4. ASSUME NEW r \in ListAt(rows, rev) PROVE r \in ListAt(rows', rev)
  <2>1. /\ r \in rows /\ ~r.deleted /\ r.id <= rev
        /\ \A s \in rows : s.name = r.name /\ s.id <= rev => s.id <= r.id
    BY DEF ListAt
  <2>2. r \in rows'
    BY <1>2, <1>3, <2>1 DEF RowFacts
  <2>3. QED
    BY <1>1, <2>1, <2>2 DEF ListAt
<1>5. ASSUME NEW r \in ListAt(rows', rev) PROVE r \in ListAt(rows, rev)
  <2>1. /\ r \in rows' /\ r \in rows /\ ~r.deleted /\ r.id <= rev
        /\ \A s \in rows' : s.name = r.name /\ s.id <= rev => s.id <= r.id
    BY <1>1 DEF ListAt
  <2>2. ASSUME NEW s \in rows, s.name = r.name, s.id <= rev, ~(s.id <= r.id) PROVE FALSE
    <3>1. PICK t \in rows : t.name = r.name /\ t.prev = r.id
      BY <1>2, <2>1, <2>2 DEF TableInv, SuccessorKept, RowFacts
    <3>2. t \in rows'
      BY <1>1, <1>2, <1>3, <2>1, <3>1 DEF Compacted, CompactedIds, RowFacts
    <3>3. t.id <= s.id
      BY <1>2, <2>1, <2>2, <3>1 DEF TableInv, LinearHistory, RowFacts
    <3>4. r.id < t.id /\ t.id <= rev
      BY <1>2, <2>1, <2>2, <3>1, <3>3 DEF RowFacts
    <3>5. QED
      BY <1>2, <2>1, <3>1, <3>2, <3>4 DEF RowFacts
  <2>3. QED
    BY <2>1, <2>2 DEF ListAt
<1>6. QED
  BY <1>4, <1>5

(***************************************************************************)
(* A read at a revision at or above the compact revision is repeatable,    *)
(* for every table and every batch size.                                   *)
(***************************************************************************)
THEOREM SnapshotsAreStable ==
  ASSUME TombstoneRace = FALSE
  PROVE  Spec => SnapshotStable
<1>1. Init => IndInv
  BY IndInit
<1>2. IndInv /\ [Next]_vars => IndInv'
  BY IndStep
<1>3. IndInv /\ [Next]_vars =>
        [\A rev \in compactRev' .. seq : ListAt(rows', rev) = ListAt(rows, rev)]_vars
  <2> SUFFICES ASSUME IndInv, [Next]_vars, IndInv', NEW rev \in compactRev' .. seq
               PROVE  ListAt(rows', rev) = ListAt(rows, rev)
    BY <1>2
  <2>1. TypeOK /\ HeadKept /\ RowFacts /\ seq \in Nat /\ compactRev' \in Nat /\ rev \in Nat
    BY RowFactsHold DEF IndInv, TypeOK
  <2>2. CASE UNCHANGED rows
    BY <2>2
  <2>3. ASSUME NEW c \in Clients, pend[c] # NoOp, Insert(c)
        PROVE  ListAt(rows', rev) = ListAt(rows, rev)
    <3>1. rows' = rows \cup {NewRow(pend[c])} /\ NewRow(pend[c]).id = seq + 1
      BY <2>3 DEF Insert, NewRow
    <3>2. QED
      BY <2>1, <3>1 DEF ListAt
  <2>4. ASSUME NEW target \in Nat, CompactTo(target)
        PROVE  ListAt(rows', rev) = ListAt(rows, rev)
    BY <2>1, <2>4, CompactKeepsSnapshots DEF CompactTo, CompactTx
  <2>5. QED
    BY <2>1, <2>2, <2>3, <2>4, StepKinds
<1>4. QED
  BY <1>1, <1>2, <1>3, PTL DEF Spec, SnapshotStable

(* No event above the compact revision leaves the table. *)
THEOREM EventsAreRetained ==
  ASSUME TombstoneRace = FALSE
  PROVE  Spec => EventsRetained
<1>1. Init => IndInv
  BY IndInit
<1>2. IndInv /\ [Next]_vars => IndInv'
  BY IndStep
<1>3. IndInv /\ [Next]_vars =>
        [After(rows, compactRev') \subseteq After(rows', compactRev')]_vars
  <2> SUFFICES ASSUME IndInv, [Next]_vars
               PROVE  After(rows, compactRev') \subseteq After(rows', compactRev')
    OBVIOUS
  <2>1. TypeOK /\ HeadKept /\ TableInv /\ RowFacts
    BY RowFactsHold DEF IndInv
  <2>2. CASE rows \subseteq rows'
    BY <2>2 DEF After
  <2>3. ASSUME NEW target \in Nat, CompactTo(target)
        PROVE  After(rows, compactRev') \subseteq After(rows', compactRev')
    <3>1. rows' = Compacted(rows, target) /\ compactRev' = target
      BY <2>3 DEF CompactTo, CompactTx
    <3>2. ASSUME NEW r \in rows, r.id > target PROVE r \in rows'
      BY <2>1, <3>1, <3>2, TakenRows DEF TableInv, RowFacts
    <3>3. QED
      BY <3>1, <3>2 DEF After
  <2>4. QED
    BY <2>1, <2>2, <2>3, StepKinds DEF Insert
<1>4. QED
  BY <1>1, <1>2, <1>3, PTL DEF Spec, EventsRetained

-----------------------------------------------------------------------------
(* LogStructured implements RevisionedKV: the proof of AtomicWrites. *)


(***************************************************************************)
(* What the refinement needs of the writes in flight: one whose key has    *)
(* not been written since its read has a condition that still holds and no *)
(* row to collide with; an Update and a Delete follow a row, and an Update *)
(* carries the create revision of the row it read.                         *)
(***************************************************************************)
UntouchedHolds == \A c \in Clients : pend[c] # NoOp /\ c \notin lost =>
  /\ KV!Holds(LiveKV, AbsRequest(c))
  /\ ~Conflict(rows, pend[c].key, pend[c].prev)

FollowsRow == \A c \in Clients : pend[c] # NoOp /\ pend[c].op # "create" => pend[c].prev # 0

CarriesCreateRev == \A c \in Clients : pend[c] # NoOp /\ pend[c].op = "update" =>
  \A r \in rows : r.id = pend[c].prev => pend[c].createRev = CreateRevision(r)

LEMMA ReqIsNoOp ==
  ASSUME TypeOK, NEW c \in Clients
  PROVE  /\ AbsRequest(c) = NoOp <=> pend[c] = NoOp
         /\ pend[c] # NoOp => AbsRequest(c) \in KV!Request
<1>1. CASE pend[c] = NoOp
  BY <1>1 DEF AbsRequest
<1>2. CASE pend[c] # NoOp
  <2>1. pend[c] \in Pending
    BY <1>2 DEF TypeOK
  <2>2. AbsRequest(c) = [op |-> pend[c].op, key |-> pend[c].key,
                         exp |-> IF pend[c].op = "create" THEN 0 ELSE pend[c].prev]
    BY <1>2 DEF AbsRequest
  <2>3. AbsRequest(c) \in KV!Request
    BY <2>1, <2>2 DEF KV!Request, Pending
  <2>4. QED
    BY <1>2, <2>3, RetainAssumption DEF KV!Request
<1>3. QED
  BY <1>1, <1>2

(* x is the newest row of its key. *)
Newest(x) == \A s \in rows : s.name = x.name => s.id <= x.id

(* An entry of the live store is the newest row of its key. *)
LEMMA LiveEntries ==
  ASSUME TypeOK, HeadKept
  PROVE  LiveKV = {[key |-> r.name, mod |-> r.id, create |-> CreateRevision(r)] :
                     r \in {x \in rows : Newest(x) /\ ~x.deleted}}
<1>1. \A r \in rows : r.id <= seq
  BY DEF HeadKept
<1>2. ListAt(rows, seq) = {x \in rows : Newest(x) /\ ~x.deleted}
  BY <1>1 DEF ListAt, Newest
<1>3. QED
  BY <1>2 DEF LiveKV

(* The condition of a write, in terms of the rows. *)
LEMMA HoldsOfRows ==
  ASSUME TypeOK, HeadKept, NEW c \in Clients, pend[c] # NoOp
  PROVE  KV!Holds(LiveKV, AbsRequest(c)) <=>
           IF pend[c].op = "create"
           THEN \A r \in rows : r.name = pend[c].key /\ Newest(r) => r.deleted
           ELSE \E r \in rows : /\ r.name = pend[c].key /\ r.id = pend[c].prev
                                /\ ~r.deleted /\ Newest(r)
<1> DEFINE q == AbsRequest(c)
           L == {x \in rows : Newest(x) /\ ~x.deleted}
<1>1. /\ q.op = pend[c].op /\ q.key = pend[c].key
      /\ pend[c].op # "create" => q.exp = pend[c].prev
  BY DEF AbsRequest
<1>2. LiveKV = {[key |-> r.name, mod |-> r.id, create |-> CreateRevision(r)] : r \in L}
  BY LiveEntries
<1>3. CASE pend[c].op = "create"
  <2>1. KV!Holds(LiveKV, q) <=> \A e \in LiveKV : e.key # pend[c].key
    BY <1>1, <1>3 DEF KV!Holds
  <2>2. ASSUME \A e \in LiveKV : e.key # pend[c].key, NEW r \in L PROVE r.name # pend[c].key
    <3>1. [key |-> r.name, mod |-> r.id, create |-> CreateRevision(r)] \in LiveKV
      BY <1>2
    <3>2. QED
      BY <2>2, <3>1
  <2>3. ASSUME \A r \in L : r.name # pend[c].key, NEW e \in LiveKV PROVE e.key # pend[c].key
    BY <1>2, <2>3
  <2>4. QED
    BY <1>3, <2>1, <2>2, <2>3
<1>4. CASE pend[c].op # "create"
  <2>1. KV!Holds(LiveKV, q) <=> \E e \in LiveKV : e.key = pend[c].key /\ e.mod = pend[c].prev
    BY <1>1, <1>4 DEF KV!Holds
  <2>2. ASSUME NEW r \in L, r.name = pend[c].key, r.id = pend[c].prev
        PROVE  \E e \in LiveKV : e.key = pend[c].key /\ e.mod = pend[c].prev
    <3>1. [key |-> r.name, mod |-> r.id, create |-> CreateRevision(r)] \in LiveKV
      BY <1>2
    <3>2. QED
      BY <2>2, <3>1
  <2>3. ASSUME NEW e \in LiveKV, e.key = pend[c].key, e.mod = pend[c].prev
        PROVE  \E r \in L : r.name = pend[c].key /\ r.id = pend[c].prev
    BY <1>2, <2>3
  <2>4. QED
    BY <1>4, <2>1, <2>2, <2>3
<1>5. QED
  BY <1>3, <1>4

(* An INSERT that commits finds the condition of its write true. *)
LEMMA InsertHolds ==
  ASSUME IndInv, FollowsRow, NEW c \in Clients, pend[c] # NoOp, Insert(c)
  PROVE  KV!Holds(LiveKV, AbsRequest(c))
<1>1. TypeOK /\ HeadKept /\ TableInv /\ RowFacts
  BY RowFactsHold DEF IndInv
<1>2. /\ \A r \in rows : r.name = pend[c].key => r.id <= pend[c].prev
      /\ pend[c].prev # 0 => \E r \in rows :
              /\ r.id = pend[c].prev /\ r.name = pend[c].key
              /\ r.deleted = (pend[c].op = "create")
  BY <1>1, NoConflictMeansLatest DEF Insert, Timely
<1>3. CASE pend[c].op = "create"
  <2>1. ASSUME NEW r \in rows, r.name = pend[c].key, Newest(r) PROVE r.deleted
    <3>1. pend[c] \in Pending /\ pend[c].prev # 0
      BY <1>1, <1>2, <2>1 DEF RowFacts, TypeOK, Pending
    <3>2. PICK t \in rows : t.id = pend[c].prev /\ t.name = pend[c].key /\ t.deleted
      BY <1>2, <1>3, <3>1
    <3>3. r = t
      BY <1>1, <1>2, <2>1, <3>2 DEF TableInv, IdsUnique, RowFacts, Newest
    <3>4. QED
      BY <3>2, <3>3
  <2>2. QED
    BY <1>1, <1>3, <2>1, HoldsOfRows
<1>4. CASE pend[c].op # "create"
  <2>1. pend[c].prev # 0
    BY <1>4 DEF FollowsRow
  <2>2. PICK r \in rows : /\ r.id = pend[c].prev /\ r.name = pend[c].key /\ ~r.deleted
    BY <1>2, <1>4, <2>1
  <2>3. Newest(r)
    BY <1>2, <2>2 DEF Newest
  <2>4. QED
    BY <1>1, <1>4, <2>2, <2>3, HoldsOfRows
<1>5. QED
  BY <1>3, <1>4

-----------------------------------------------------------------------------
(* The store after an INSERT. *)

(* The entry of the live store that stands for row r. *)
Entry(r) == [key |-> r.name, mod |-> r.id, create |-> CreateRevision(r)]

LEMMA InsertList ==
  ASSUME TypeOK, HeadKept, NEW c \in Clients, pend[c] # NoOp, Insert(c)
  PROVE  ListAt(rows', seq') =
           {r \in ListAt(rows, seq) : r.name # pend[c].key}
             \cup (IF pend[c].op = "delete" THEN {} ELSE {NewRow(pend[c])})
<1> DEFINE n == NewRow(pend[c])
<1>1. /\ rows' = rows \cup {n} /\ seq' = seq + 1 /\ seq \in Nat
      /\ n.id = seq + 1 /\ n.name = pend[c].key /\ n.deleted = (pend[c].op = "delete")
  BY DEF Insert, NewRow, TypeOK
<1>2. \A r \in rows : r.id \in Nat /\ r.id <= seq
  BY DEF TypeOK, Row, HeadKept
<1>3. n \notin rows
  BY <1>1, <1>2
<1> HIDE DEF n
<1>4. ASSUME NEW r \in ListAt(rows', seq')
      PROVE  r = n \/ (r \in ListAt(rows, seq) /\ r.name # pend[c].key)
  BY <1>1, <1>2 DEF ListAt
<1>5. ASSUME NEW r \in ListAt(rows, seq), r.name # pend[c].key
      PROVE  r \in ListAt(rows', seq')
  BY <1>1, <1>2, <1>5 DEF ListAt
<1>6. n \in ListAt(rows', seq') <=> pend[c].op # "delete"
  <2>1. n \in rows' /\ n.id <= seq' /\ \A s \in rows' : s.id <= n.id
    BY <1>1, <1>2
  <2>2. n.deleted <=> pend[c].op = "delete"
    BY DEF n, NewRow
  <2>3. n \in ListAt(rows', seq') <=> ~n.deleted
    BY <2>1 DEF ListAt
  <2>4. QED
    BY <2>2, <2>3
<1>7. \A r \in ListAt(rows, seq) : r # n
  BY <1>3 DEF ListAt
<1>8. QED
  BY <1>4, <1>5, <1>6, <1>7 DEF n

LEMMA InsertLive ==
  ASSUME TypeOK, HeadKept, NEW c \in Clients, pend[c] # NoOp, Insert(c)
  PROVE  LiveKV' = {e \in LiveKV : e.key # pend[c].key}
             \cup (IF pend[c].op = "delete" THEN {} ELSE {Entry(NewRow(pend[c]))})
<1> DEFINE A == ListAt(rows, seq)
           B == ListAt(rows', seq')
           N == IF pend[c].op = "delete" THEN {} ELSE {NewRow(pend[c])}
           M == IF pend[c].op = "delete" THEN {} ELSE {Entry(NewRow(pend[c]))}
<1>1. B = {r \in A : r.name # pend[c].key} \cup N
  BY InsertList
<1>2. LiveKV' = {Entry(r) : r \in B} /\ LiveKV = {Entry(r) : r \in A}
  BY DEF LiveKV, Entry, CreateRevision
<1>3. \A r : Entry(r).key = r.name
  BY DEF Entry
<1>4. {Entry(r) : r \in N} = M
  OBVIOUS
<1> HIDE DEF A, B, N, M
<1>5. ASSUME NEW e \in LiveKV' PROVE e \in M \/ (e \in LiveKV /\ e.key # pend[c].key)
  BY <1>1, <1>2, <1>3, <1>4
<1>6. ASSUME NEW e \in LiveKV, e.key # pend[c].key PROVE e \in LiveKV'
  BY <1>1, <1>2, <1>3, <1>6
<1>7. ASSUME NEW e \in M PROVE e \in LiveKV'
  BY <1>1, <1>2, <1>4
<1>8. LiveKV' = {e \in LiveKV : e.key # pend[c].key} \cup M
  BY <1>5, <1>6, <1>7
<1>9. QED
  BY <1>8 DEF M

(* The inductive invariant of the refinement. *)
RefInv == IndInv /\ UntouchedHolds /\ FollowsRow /\ CarriesCreateRev

(* The fields of the request that stands for a write in flight. *)
LEMMA RequestFields ==
  ASSUME NEW c \in Clients, pend[c] # NoOp
  PROVE  /\ AbsRequest(c).op = pend[c].op
         /\ AbsRequest(c).key = pend[c].key
         /\ pend[c].op # "create" => AbsRequest(c).exp = pend[c].prev
  BY DEF AbsRequest

(* The INSERT writes what the atomic store writes. *)
LEMMA InsertWrites ==
  ASSUME RefInv, NEW c \in Clients, pend[c] # NoOp, Insert(c)
  PROVE  LiveKV' = KV!Written(LiveKV, AbsRequest(c), seq + 1)
<1> DEFINE q == AbsRequest(c)
           n == NewRow(pend[c])
<1>1. IndInv /\ TypeOK /\ HeadKept /\ TableInv /\ RowFacts
  BY RowFactsHold DEF RefInv, IndInv
<1>2. q.op = pend[c].op /\ q.key = pend[c].key
      /\ (pend[c].op # "create" => q.exp = pend[c].prev)
  BY RequestFields
<1>3. pend[c] \in Pending
  BY <1>1 DEF TypeOK
<1>4. LiveKV' = {e \in LiveKV : e.key # pend[c].key}
        \cup (IF pend[c].op = "delete" THEN {} ELSE {Entry(n)})
  BY <1>1, InsertLive
<1>5. /\ pend[c].op = "create" => Entry(n) = [key |-> pend[c].key, mod |-> seq + 1, create |-> seq + 1]
      /\ pend[c].op = "update" => Entry(n) = [key |-> pend[c].key, mod |-> seq + 1,
                                              create |-> pend[c].createRev]
  BY DEF Entry, NewRow, CreateRevision
<1> HIDE DEF n
<1>6. CASE pend[c].op = "create"
  BY <1>2, <1>4, <1>5, <1>6 DEF KV!Written
<1>7. CASE pend[c].op = "delete"
  BY <1>2, <1>4, <1>7 DEF KV!Written
<1>8. CASE pend[c].op = "update"
  <2>1. KV!Holds(LiveKV, q)
    BY <1>1, InsertHolds DEF RefInv
  <2>2. PICK e \in LiveKV : e.key = pend[c].key /\ e.mod = pend[c].prev
    BY <1>2, <1>8, <2>1 DEF KV!Holds
  <2>3. ASSUME NEW x \in LiveKV, x.key = pend[c].key PROVE x.create = pend[c].createRev
    <3>1. LiveKV = {Entry(r) : r \in {y \in rows : Newest(y) /\ ~y.deleted}}
      BY <1>1, LiveEntries DEF Entry
    <3>2. PICK r \in rows : Newest(r) /\ x = Entry(r)
      BY <3>1
    <3>3. PICK t \in rows : Newest(t) /\ e = Entry(t)
      BY <3>1
    <3>4. r.name = pend[c].key /\ t.name = pend[c].key /\ t.id = pend[c].prev
      BY <2>2, <2>3, <3>2, <3>3 DEF Entry
    <3>5. r.id = t.id
      BY <1>1, <3>2, <3>3, <3>4 DEF Newest, RowFacts
    <3>6. x.create = CreateRevision(r)
      BY <3>2 DEF Entry
    <3>7. QED
      BY <1>8, <3>4, <3>5, <3>6 DEF RefInv, CarriesCreateRev
  <2>4. {[key |-> pend[c].key, mod |-> seq + 1, create |-> x.create] :
           x \in {y \in LiveKV : y.key = pend[c].key}} = {Entry(n)}
    BY <1>5, <1>8, <2>2, <2>3
  <2>5. QED
    BY <1>2, <1>4, <1>8, <2>4 DEF KV!Written
<1>9. QED
  BY <1>3, <1>6, <1>7, <1>8 DEF Pending

(* A write to a key decides who has lost: exactly the others on that key. *)
LEMMA InsertLoses ==
  ASSUME RefInv, NEW c \in Clients, pend[c] # NoOp, Insert(c),
         NEW d \in Clients \ {c}, pend[d] # NoOp, d \notin lost
  PROVE  KV!Holds(LiveKV', AbsRequest(d)) <=> pend[d].key # pend[c].key
<1> DEFINE q == AbsRequest(d)
<1>1. IndInv /\ TypeOK /\ HeadKept /\ RowFacts
  BY RowFactsHold DEF RefInv, IndInv
<1>2. pend[c] \in Pending /\ pend[d] \in Pending /\ pend[d].prev <= seq /\ seq \in Nat
  BY <1>1 DEF TypeOK, HeadKept
<1>3. q.op = pend[d].op /\ q.key = pend[d].key
      /\ (pend[d].op # "create" => q.exp = pend[d].prev)
  BY RequestFields
<1>4. KV!Holds(LiveKV, q)
  BY DEF RefInv, UntouchedHolds
<1>5. LiveKV' = {e \in LiveKV : e.key # pend[c].key}
        \cup (IF pend[c].op = "delete" THEN {} ELSE {Entry(NewRow(pend[c]))})
  BY <1>1, InsertLive
<1>6. Entry(NewRow(pend[c])).key = pend[c].key /\ Entry(NewRow(pend[c])).mod = seq + 1
  BY DEF Entry, NewRow
<1>7. CASE pend[d].key # pend[c].key
  BY <1>3, <1>4, <1>5, <1>6, <1>7 DEF KV!Holds
<1>8. CASE pend[d].key = pend[c].key /\ pend[d].op # "create"
  BY <1>2, <1>3, <1>5, <1>6, <1>8 DEF KV!Holds, Pending
<1>9. CASE pend[d].key = pend[c].key /\ pend[d].op = "create"
  <2>1. \A e \in LiveKV : e.key # pend[c].key
    BY <1>3, <1>4, <1>9 DEF KV!Holds
  <2>2. KV!Holds(LiveKV, AbsRequest(c))
    BY <1>1, InsertHolds DEF RefInv
  <2>3. pend[c].op = "create"
    BY <2>1, <2>2, RequestFields DEF KV!Holds
  <2>4. Entry(NewRow(pend[c])) \in LiveKV'
    BY <1>5, <2>3
  <2>5. QED
    BY <1>3, <1>6, <1>9, <2>4 DEF KV!Holds
<1>10. QED
  BY <1>7, <1>8, <1>9

-----------------------------------------------------------------------------
(* RefInv is inductive. *)

LEMMA RefInit == Init => RefInv
<1> SUFFICES ASSUME Init PROVE UntouchedHolds /\ FollowsRow /\ CarriesCreateRev
  BY IndInit DEF RefInv
<1>1. \A c \in Clients : pend[c] = NoOp
  BY DEF Init
<1>2. QED
  BY <1>1 DEF UntouchedHolds, FollowsRow, CarriesCreateRev

(* A write that has just read its key meets its condition. *)
LEMMA StartHolds ==
  ASSUME IndInv, IndInv', UNCHANGED <<rows, seq>>, NEW c \in Clients, NEW k \in Keys,
         StartsWrite(c, k)
  PROVE  /\ pend'[c] # NoOp
         /\ KV!Holds(LiveKV, AbsRequest(c)')
         /\ ~Conflict(rows, pend'[c].key, pend'[c].prev)
         /\ pend'[c].op # "create" => pend'[c].prev # 0
         /\ pend'[c].op = "update" =>
              \A r \in rows : r.id = pend'[c].prev => pend'[c].createRev = CreateRevision(r)
<1>1. PICK op \in {"create", "update", "delete"}, prev \in Nat, createRev \in Nat :
        /\ pend' = [pend EXCEPT ![c] = [op |-> op, key |-> k, prev |-> prev,
                                        createRev |-> createRev, read |-> seq]]
        /\ ReadsNewest(op, k, prev)
        /\ op = "update" => ReadsCreate(k, prev, createRev)
  BY DEF StartsWrite
<1>2. TypeOK /\ TypeOK' /\ HeadKept /\ HeadKept' /\ TableInv /\ RowFacts /\ seq \in Nat
  BY RowFactsHold DEF IndInv, TypeOK
<1>3. pend'[c] = [op |-> op, key |-> k, prev |-> prev, createRev |-> createRev, read |-> seq]
  BY <1>1, <1>2 DEF TypeOK
<1>4. pend'[c] # NoOp
  BY <1>2, <1>3, RetainAssumption DEF TypeOK
<1>5. \A r \in rows : r.name = k => r.id <= prev
  <2>1. CASE Latest(rows, k) = {}
    BY <1>2, <2>1 DEF TableInv, HasLatest
  <2>2. CASE \E r \in Latest(rows, k) : prev = r.id
    BY <2>2 DEF Latest
  <2>3. QED
    BY <1>1, <2>1, <2>2 DEF ReadsNewest
<1>6. ~Conflict(rows, k, prev)
  BY <1>2, <1>5 DEF Conflict, RowFacts
<1>7. op # "create" => prev # 0
  BY <1>1, <1>2 DEF ReadsNewest, Latest, RowFacts
<1>8. ASSUME op = "update", NEW r \in rows, r.id = prev PROVE createRev = CreateRevision(r)
  <2>1. PICK t \in Latest(rows, k) : prev = t.id /\ createRev = CreateRevision(t)
    BY <1>1, <1>8 DEF ReadsCreate
  <2>2. t = r
    BY <1>2, <1>8, <2>1 DEF TableInv, IdsUnique, Latest
  <2>3. QED
    BY <2>1, <2>2
<1>9. KV!Holds(LiveKV, AbsRequest(c)')
  <2> DEFINE q == AbsRequest(c)'
  <2>1. q.op = op /\ q.key = k /\ (op # "create" => q.exp = prev)
    BY <1>3, <1>4 DEF AbsRequest
  <2>2. LiveKV = {Entry(r) : r \in {y \in rows : Newest(y) /\ ~y.deleted}}
    BY <1>2, LiveEntries DEF Entry
  <2>3. CASE op = "create"
    <3>1. ASSUME NEW r \in rows, Newest(r), r.name = k, ~r.deleted PROVE FALSE
      <4>1. PICK t \in Latest(rows, k) : t.deleted
        BY <1>1, <1>2, <2>3, <3>1 DEF ReadsNewest, TableInv, HasLatest
      <4>2. t = r
        BY <1>2, <3>1, <4>1 DEF Latest, Newest, TableInv, IdsUnique, RowFacts
      <4>3. QED
        BY <3>1, <4>1, <4>2
    <3>2. ASSUME NEW e \in LiveKV PROVE e.key # k
      <4>1. PICK r \in rows : Newest(r) /\ ~r.deleted /\ e = Entry(r)
        BY <2>2
      <4>2. QED
        BY <3>1, <4>1 DEF Entry
    <3>3. QED
      BY <2>1, <2>3, <3>2 DEF KV!Holds
  <2>4. CASE op # "create"
    <3>1. PICK t \in Latest(rows, k) : t.id = prev /\ ~t.deleted
      BY <1>1, <2>4 DEF ReadsNewest
    <3>2. t \in rows /\ Newest(t) /\ t.name = k
      BY <3>1 DEF Latest, Newest
    <3>3. Entry(t) \in LiveKV
      BY <2>2, <3>1, <3>2
    <3>4. Entry(t).key = k /\ Entry(t).mod = prev
      BY <3>1, <3>2 DEF Entry
    <3>5. QED
      BY <2>1, <2>4, <3>3, <3>4 DEF KV!Holds
  <2>5. QED
    BY <2>3, <2>4
<1>10. QED
  BY <1>3, <1>4, <1>6, <1>7, <1>8, <1>9

(* A compaction does not touch the live store. *)
LEMMA CompactLive ==
  ASSUME IndInv, NEW target \in Nat, CompactTo(target)
  PROVE  LiveKV' = LiveKV
<1>1. seq' = seq /\ seq \in Nat /\ target <= seq
  BY RetainAssumption DEF CompactTo, IndInv, TypeOK
<1>2. ListAt(rows', seq) = ListAt(rows, seq)
  BY <1>1, CompactKeepsSnapshots
<1>3. QED
  BY <1>1, <1>2 DEF LiveKV, CreateRevision

LEMMA RefStep ==
  ASSUME TombstoneRace = FALSE
  PROVE  RefInv /\ [Next]_vars => RefInv'
<1> SUFFICES ASSUME RefInv, [Next]_vars
             PROVE  UntouchedHolds' /\ FollowsRow' /\ CarriesCreateRev'
  BY IndStep DEF RefInv
<1>1. IndInv /\ IndInv' /\ TypeOK /\ HeadKept /\ TypeOK' /\ HeadKept' /\ RowFacts
  BY IndStep, RowFactsHold DEF RefInv, IndInv
<1>2. UntouchedHolds /\ FollowsRow /\ CarriesCreateRev
  BY DEF RefInv
<1>3. ASSUME NEW d \in Clients, pend'[d] = pend[d] PROVE AbsRequest(d)' = AbsRequest(d)
  BY <1>3 DEF AbsRequest
<1>4. ASSUME UNCHANGED <<rows, seq>> PROVE LiveKV' = LiveKV
  BY <1>4 DEF LiveKV, ListAt, CreateRevision
<1>5. CASE /\ UNCHANGED <<rows, seq, compactRev>>
           /\ UNCHANGED <<pend, lost>> \/ \E c \in Clients : Ends(c)
  <2>1. ASSUME NEW d \in Clients, pend'[d] # NoOp
        PROVE  pend'[d] = pend[d] /\ (d \notin lost' => d \notin lost)
    BY <1>1, <1>5, <2>1 DEF Ends, TypeOK
  <2>2. UntouchedHolds'
    BY <1>2, <1>3, <1>4, <1>5, <2>1 DEF UntouchedHolds, Conflict
  <2>3. FollowsRow' /\ CarriesCreateRev'
    BY <1>2, <1>5, <2>1 DEF FollowsRow, CarriesCreateRev, CreateRevision
  <2>4. QED
    BY <2>2, <2>3
<1>6. ASSUME UNCHANGED <<rows, seq, compactRev>>,
             NEW c \in Clients, NEW k \in Keys, StartsWrite(c, k)
      PROVE  UntouchedHolds' /\ FollowsRow' /\ CarriesCreateRev'
  <2>1. /\ KV!Holds(LiveKV, AbsRequest(c)')
        /\ ~Conflict(rows, pend'[c].key, pend'[c].prev)
        /\ pend'[c].op # "create" => pend'[c].prev # 0
        /\ pend'[c].op = "update" =>
             \A r \in rows : r.id = pend'[c].prev => pend'[c].createRev = CreateRevision(r)
    BY <1>1, <1>6, StartHolds
  <2>2. lost' = lost /\ \A d \in Clients \ {c} : pend'[d] = pend[d]
    BY <1>1, <1>6 DEF StartsWrite, TypeOK
  <2>3. UntouchedHolds'
    BY <1>2, <1>3, <1>4, <1>6, <2>1, <2>2 DEF UntouchedHolds, Conflict
  <2>4. FollowsRow' /\ CarriesCreateRev'
    BY <1>2, <1>6, <2>1, <2>2 DEF FollowsRow, CarriesCreateRev, CreateRevision
  <2>5. QED
    BY <2>3, <2>4
<1>7. ASSUME NEW c \in Clients, pend[c] # NoOp, Insert(c)
      PROVE  UntouchedHolds' /\ FollowsRow' /\ CarriesCreateRev'
  <2>1. /\ pend' = [pend EXCEPT ![c] = NoOp]
        /\ rows' = rows \cup {NewRow(pend[c])}
        /\ lost' = (lost \ {c}) \cup
             {d \in Clients \ {c} : pend[d] # NoOp /\ pend[d].key = pend[c].key}
    BY <1>7 DEF Insert
  <2>2. ASSUME NEW d \in Clients, pend'[d] # NoOp
        PROVE  d # c /\ pend'[d] = pend[d]
    BY <1>1, <2>1, <2>2 DEF TypeOK
  <2>3. NewRow(pend[c]).id = seq + 1 /\ NewRow(pend[c]).name = pend[c].key
    BY DEF NewRow
  <2>4. ASSUME NEW d \in Clients, pend'[d] # NoOp, d \notin lost'
        PROVE  /\ KV!Holds(LiveKV', AbsRequest(d)')
               /\ ~Conflict(rows', pend'[d].key, pend'[d].prev)
    <3>1. d # c /\ pend'[d] = pend[d] /\ pend[d] # NoOp /\ d \notin lost
          /\ pend[d].key # pend[c].key
      BY <2>1, <2>2, <2>4
    <3>2. KV!Holds(LiveKV', AbsRequest(d))
      BY <1>7, <3>1, InsertLoses
    <3>3. ~Conflict(rows, pend[d].key, pend[d].prev)
      BY <1>2, <3>1 DEF UntouchedHolds
    <3>4. QED
      BY <1>3, <2>1, <2>3, <3>1, <3>2, <3>3 DEF Conflict
  <2>5. UntouchedHolds'
    BY <2>4 DEF UntouchedHolds, Conflict
  <2>6. FollowsRow'
    BY <1>2, <2>2 DEF FollowsRow
  <2>7. CarriesCreateRev'
    <3>1. ASSUME NEW d \in Clients, pend'[d] # NoOp, pend'[d].op = "update",
                 NEW r \in rows', r.id = pend'[d].prev
          PROVE  pend'[d].createRev = CreateRevision(r)
      <4>1. pend'[d] = pend[d] /\ pend[d].prev <= seq /\ pend[d] \in Pending /\ seq \in Nat
        BY <1>1, <2>2, <3>1 DEF HeadKept, TypeOK
      <4>2. r # NewRow(pend[c])
        BY <2>3, <3>1, <4>1 DEF Pending
      <4>3. QED
        BY <1>2, <2>1, <3>1, <4>1, <4>2 DEF CarriesCreateRev
    <3>2. QED
      BY <3>1 DEF CarriesCreateRev, CreateRevision
  <2>8. QED
    BY <2>5, <2>6, <2>7
<1>8. ASSUME NEW target \in Nat, CompactTo(target)
      PROVE  UntouchedHolds' /\ FollowsRow' /\ CarriesCreateRev'
  <2>1. LiveKV' = LiveKV /\ rows' \subseteq rows /\ pend' = pend /\ lost' = lost
    BY <1>1, <1>8, CompactLive DEF CompactTo, CompactTx, Compacted
  <2>2. UntouchedHolds'
    BY <1>2, <1>3, <2>1 DEF UntouchedHolds, Conflict
  <2>3. FollowsRow' /\ CarriesCreateRev'
    BY <1>2, <2>1 DEF FollowsRow, CarriesCreateRev, CreateRevision
  <2>4. QED
    BY <2>2, <2>3
<1>9. QED
  BY <1>1, <1>5, <1>6, <1>7, <1>8, StepKinds

-----------------------------------------------------------------------------
(* Every step is a step of the atomic store, or leaves it alone. *)

(* The request map of the refinement, and how a step changes it. *)
Requests == [c \in Clients |-> AbsRequest(c)]

LEMMA RequestsAfter ==
  ASSUME TypeOK, NEW c \in Clients, NEW p, pend' = [pend EXCEPT ![c] = p]
  PROVE  Requests' = [Requests EXCEPT ![c] = AbsRequest(c)']
<1>1. pend'[c] = p /\ \A d \in Clients \ {c} : pend'[d] = pend[d]
  BY DEF TypeOK
<1>2. \A d \in Clients \ {c} : AbsRequest(d)' = AbsRequest(d)
  BY <1>1 DEF AbsRequest
<1>3. QED
  BY <1>2 DEF Requests

LEMMA RequestOf ==
  ASSUME NEW c \in Clients
  PROVE  Requests[c] = AbsRequest(c)
  BY DEF Requests

(* A key is absent from the live store iff it has no newest live row. *)
LEMMA AbsentOfRows ==
  ASSUME TypeOK, HeadKept, NEW k \in Keys
  PROVE  /\ Latest(rows, k) = {} => KV!Absent(LiveKV, k)
         /\ \A r \in Latest(rows, k) : ~r.deleted => ~KV!Absent(LiveKV, k)
<1>1. LiveKV = {Entry(r) : r \in {y \in rows : Newest(y) /\ ~y.deleted}}
  BY LiveEntries DEF Entry
<1>2. ASSUME Latest(rows, k) = {}, NEW e \in LiveKV PROVE e.key # k
  <2>1. PICK r \in rows : Newest(r) /\ e = Entry(r)
    BY <1>1
  <2>2. r.name # k
    BY <1>2, <2>1 DEF Latest, Newest
  <2>3. QED
    BY <2>1, <2>2 DEF Entry
<1>3. ASSUME NEW r \in Latest(rows, k), ~r.deleted PROVE ~KV!Absent(LiveKV, k)
  <2>1. r \in rows /\ Newest(r) /\ r.name = k
    BY DEF Latest, Newest
  <2>2. Entry(r) \in LiveKV /\ Entry(r).key = k
    BY <1>1, <1>3, <2>1 DEF Entry
  <2>3. QED
    BY <2>2 DEF KV!Absent
<1>4. QED
  BY <1>2, <1>3 DEF KV!Absent

(* A read that starts a write is the acceptance of a request. *)
LEMMA StartAccepts ==
  ASSUME IndInv, IndInv', UNCHANGED <<rows, seq>>, NEW c \in Clients, NEW k \in Keys,
         StartsWrite(c, k)
  PROVE  KV!Accept(c)
<1>1. TypeOK /\ TypeOK' /\ pend[c] = NoOp /\ lost' = lost
      /\ resp' = [op |-> "none", key |-> NoKey, ans |-> "none"]
  BY DEF IndInv, StartsWrite
<1>2. LiveKV' = LiveKV
  BY DEF LiveKV, ListAt, CreateRevision
<1>3. pend'[c] # NoOp /\ KV!Holds(LiveKV, AbsRequest(c)')
  BY StartHolds
<1>4. AbsRequest(c)' \in KV!Request
  <2>1. pend'[c] \in Pending
    BY <1>1, <1>3 DEF TypeOK
  <2>2. QED
    BY <1>3, <2>1 DEF AbsRequest, KV!Request, Pending
<1>5. Requests' = [Requests EXCEPT ![c] = AbsRequest(c)']
  BY <1>1, RequestsAfter DEF StartsWrite
<1>6. Requests[c] = NoOp /\ Requests'[c] = AbsRequest(c)'
  BY <1>1, <1>5 DEF Requests, AbsRequest
<1>7. /\ Requests[c] = NoOp
      /\ Requests'[c] \in KV!Request
      /\ KV!Holds(LiveKV, Requests'[c])
      /\ Requests' = [Requests EXCEPT ![c] = Requests'[c]]
      /\ resp' = KV!NoAnswer
      /\ UNCHANGED <<LiveKV, seq, lost>>
  BY <1>1, <1>2, <1>3, <1>4, <1>5, <1>6 DEF KV!NoAnswer
<1>8. QED
  BY <1>7 DEF KV!Accept, Requests

(* A committed INSERT is the write of the atomic store. *)
LEMMA InsertApplies ==
  ASSUME RefInv, NEW c \in Clients, pend[c] # NoOp, Insert(c), NEW a \in {"ok", "error"},
         resp' = [op |-> pend[c].op, key |-> pend[c].key, ans |-> a]
  PROVE  KV!Apply(c)
<1>1. IndInv /\ TypeOK
  BY DEF RefInv, IndInv
<1>2. pend' = [pend EXCEPT ![c] = NoOp] /\ seq' = seq + 1
      /\ lost' = (lost \ {c}) \cup
           {d \in Clients \ {c} : pend[d] # NoOp /\ pend[d].key = pend[c].key}
  BY DEF Insert
<1>3. Requests' = [Requests EXCEPT ![c] = NoOp]
  <2>1. pend'[c] = NoOp
    BY <1>1, <1>2 DEF TypeOK
  <2>2. AbsRequest(c)' = NoOp
    BY <2>1 DEF AbsRequest
  <2>3. QED
    BY <1>1, <1>2, <2>2, RequestsAfter
<1>4. LiveKV' = KV!Written(LiveKV, Requests[c], seq + 1) /\ KV!Holds(LiveKV, Requests[c])
  BY <1>1, InsertWrites, InsertHolds, RequestOf DEF RefInv
<1>5. Requests[c] # NoOp /\ Requests[c].op = pend[c].op /\ Requests[c].key = pend[c].key
  BY <1>1, ReqIsNoOp, RequestFields, RequestOf
<1>6. lost' = (lost \ {c}) \cup
        {d \in Clients \ {c} : Requests[d] # NoOp /\ ~KV!Holds(LiveKV', Requests[d])}
  <2>1. ASSUME NEW d \in Clients \ {c}, d \notin lost
        PROVE  (pend[d] # NoOp /\ pend[d].key = pend[c].key) <=>
                 (Requests[d] # NoOp /\ ~KV!Holds(LiveKV', Requests[d]))
    BY <1>1, <2>1, InsertLoses, ReqIsNoOp, RequestOf
  <2>2. QED
    BY <1>2, <2>1
<1>7. \E x \in {"ok", "error"} : resp' = KV!Answer(Requests[c].op, Requests[c].key, x)
  BY <1>5 DEF KV!Answer
<1>8. QED
  BY <1>2, <1>3, <1>4, <1>5, <1>6, <1>7 DEF KV!Apply, Requests

(* An Append that fails without writing is a request that is dropped. *)
LEMMA FailureDrops ==
  ASSUME RetriesEnd = FALSE, RefInv, NEW c \in Clients, AppendConflict(c) \/ AppendError(c)
  PROVE  KV!Drop(c)
<1>1. TypeOK /\ pend[c] # NoOp /\ GiveUp(c) /\ pend[c] \in Pending
  BY DEF RefInv, IndInv, AppendConflict, AppendError, TypeOK
<1>2. PICK unique \in BOOLEAN :
        AppendFailed(c, unique) /\ (unique => Conflict(rows, pend[c].key, pend[c].prev))
  BY DEF AppendConflict, AppendError
<1>3. PICK a \in {"exists", "failed", "error"} :
        /\ resp' = [op |-> pend[c].op, key |-> pend[c].key, ans |-> a]
        /\ a = "exists" => pend[c].op = "create" /\ unique
        /\ a = "failed" => pend[c].op # "create"
  BY <1>2 DEF AppendFailed, Answer
<1>4. a = "exists" => c \in lost
  BY <1>1, <1>2, <1>3 DEF RefInv, UntouchedHolds
<1>5. Requests[c] # NoOp /\ Requests[c].op = pend[c].op /\ Requests[c].key = pend[c].key
  BY <1>1, ReqIsNoOp, RequestFields, RequestOf
<1>6. Requests' = [Requests EXCEPT ![c] = NoOp]
  <2>1. pend' = [pend EXCEPT ![c] = NoOp]
    BY <1>1 DEF GiveUp
  <2>2. pend'[c] = NoOp
    BY <1>1, <2>1 DEF TypeOK
  <2>3. AbsRequest(c)' = NoOp
    BY <2>2 DEF AbsRequest
  <2>4. QED
    BY <1>1, <2>1, <2>3, RequestsAfter
<1>7. UNCHANGED <<LiveKV, seq>> /\ lost' = lost \ {c}
  BY <1>1 DEF GiveUp, LiveKV, ListAt, CreateRevision
<1>8. \E x \in {"exists", "failed", "error"} :
        /\ x = "exists" => Requests[c].op = "create" /\ c \in lost
        /\ x = "failed" => Requests[c].op # "create"
        /\ resp' = KV!Answer(Requests[c].op, Requests[c].key, x)
  BY <1>3, <1>4, <1>5 DEF KV!Answer
<1>9. QED
  BY <1>5, <1>6, <1>7, <1>8 DEF KV!Drop, Requests

(* A call that ends at its read is refused, or is about an absent key. *)
LEMMA ReadRefuses ==
  ASSUME IndInv, NEW c \in Clients, NEW k \in Keys, pend[c] = NoOp,
         UNCHANGED <<rows, seq, pend, lost>>,
         \/ /\ \E r \in Latest(rows, k) : ~r.deleted
            /\ Answer("create", k, "exists")
         \/ Answer("update", k, "failed")
         \/ Answer("delete", k, "failed")
         \/ Latest(rows, k) = {} /\ Answer("delete", k, "ok")
         \/ \E op \in {"create", "update", "delete"} : Answer(op, k, "error")
  PROVE  KV!Refuse(c)
<1>1. TypeOK /\ HeadKept
  BY DEF IndInv
<1>2. Requests[c] = NoOp
  BY DEF Requests, AbsRequest
<1>3. UNCHANGED <<LiveKV, seq, Requests, lost>>
  BY DEF LiveKV, ListAt, CreateRevision, Requests, AbsRequest
<1>4. \/ ~KV!Absent(LiveKV, k) /\ resp' = KV!Answer("create", k, "exists")
      \/ \E op \in {"update", "delete"} : resp' = KV!Answer(op, k, "failed")
      \/ KV!Absent(LiveKV, k) /\ resp' = KV!Answer("delete", k, "ok")
      \/ \E op \in {"create", "update", "delete"} : resp' = KV!Answer(op, k, "error")
  BY <1>1, AbsentOfRows DEF Answer, KV!Answer
<1>5. QED
  BY <1>2, <1>3, <1>4 DEF KV!Refuse, Requests

(* The reads of Create, Delete and Update. *)
LEMMA ReadsMap ==
  ASSUME IndInv, IndInv', NEW c \in Clients, NEW k \in Keys,
         \/ GetError(c, k)
         \/ CreateGet(c, k)
         \/ \E revision \in 0 .. seq : DeleteGet(c, k, revision)
         \/ \E revision \in 0 .. seq : UpdateGet(c, k, revision)
  PROVE  KV!Accept(c) \/ KV!Refuse(c)
<1>1. TypeOK /\ HeadKept /\ UNCHANGED <<rows, seq, compactRev>> /\ pend[c] = NoOp /\ lost' = lost
  BY DEF IndInv, GetError, CreateGet, DeleteGet, UpdateGet
<1>2. CurrentRevision(rows) = seq
  BY <1>1, CurrentRevisionIsSeq
<1>3. ASSUME NEW r \in Latest(rows, k)
      PROVE  r.id \in Nat /\ CreateRevision(r) \in Nat /\ r.deleted \in BOOLEAN
  BY <1>1 DEF TypeOK, Latest, Row, CreateRevision
<1>4. CASE CreateGet(c, k)
  <2>1. CASE UNCHANGED pend /\ Answer("create", k, "exists")
             /\ \E r \in Latest(rows, k) : ~r.deleted
    BY <1>1, <2>1, ReadRefuses
  <2>2. CASE StartsWrite(c, k)
    BY <1>1, <2>2, StartAccepts
  <2>3. (\E r \in Latest(rows, k) : r.deleted /\ Start(c, "create", k, r.id, 0))
          => StartsWrite(c, k)
    BY <1>1, <1>2, <1>3 DEF Start, Answer, StartsWrite, ReadsNewest
  <2>4. Latest(rows, k) = {} /\ Start(c, "create", k, 0, 0) => StartsWrite(c, k)
    BY <1>1, <1>2 DEF Start, Answer, StartsWrite, ReadsNewest
  <2>5. QED
    BY <1>4, <2>1, <2>2, <2>3, <2>4 DEF CreateGet
<1>5. ASSUME NEW v \in 0 .. seq, DeleteGet(c, k, v) PROVE KV!Accept(c) \/ KV!Refuse(c)
  <2>1. CASE UNCHANGED pend /\ (Answer("delete", k, "failed") \/
                                 (Latest(rows, k) = {} /\ Answer("delete", k, "ok")))
    BY <1>1, <2>1, ReadRefuses
  <2>2. CASE StartsWrite(c, k)
    BY <1>1, <2>2, StartAccepts
  <2>3. (\E r \in Latest(rows, k) : ~r.deleted /\ Start(c, "delete", k, r.id, 0))
          => StartsWrite(c, k)
    BY <1>1, <1>2, <1>3 DEF Start, Answer, StartsWrite, ReadsNewest
  <2>4. QED
    BY <1>5, <2>1, <2>2, <2>3 DEF DeleteGet
<1>6. ASSUME NEW v \in 0 .. seq, UpdateGet(c, k, v) PROVE KV!Accept(c) \/ KV!Refuse(c)
  <2>1. CASE UNCHANGED pend /\ Answer("update", k, "failed")
    BY <1>1, <2>1, ReadRefuses
  <2>2. CASE StartsWrite(c, k)
    BY <1>1, <2>2, StartAccepts
  <2>3. CASE \E r \in Latest(rows, k) : ~r.deleted /\ r.id = v
    <3>1. ASSUME NEW r \in Latest(rows, k), NEW q \in Latest(rows, k) PROVE r.id = q.id
      BY <1>1 DEF Latest, TypeOK, Row
    <3>2. PICK r \in Latest(rows, k) : Start(c, "update", k, r.id, CreateRevision(r))
      BY <1>6, <2>3 DEF UpdateGet
    <3>3. PICK q \in Latest(rows, k) : ~q.deleted /\ q.id = r.id
      BY <2>3, <3>1
    <3>4. q.deleted = ("update" = "create")
      BY <1>3, <3>3
    <3>5. ReadsNewest("update", k, r.id) /\ ReadsCreate(k, r.id, CreateRevision(r))
      BY <3>3, <3>4 DEF ReadsNewest, ReadsCreate
    <3>6. StartsWrite(c, k)
      BY <1>1, <1>2, <1>3, <3>2, <3>5 DEF Start, Answer, StartsWrite
    <3>7. QED
      BY <2>2, <3>6
  <2>4. QED
    BY <1>6, <2>1, <2>3 DEF UpdateGet
<1>7. ASSUME GetError(c, k) PROVE KV!Refuse(c)
  BY <1>1, <1>7, ReadRefuses DEF GetError
<1>8. QED
  BY <1>4, <1>5, <1>6, <1>7

LEMMA StepMaps ==
  ASSUME TombstoneRace = FALSE, AckLoss = FALSE, RetriesEnd = FALSE, RefInv, [Next]_vars
  PROVE  [KV!Next]_(KV!vars)
<1>1. RefInv' /\ IndInv /\ IndInv' /\ TypeOK /\ HeadKept
  BY RefStep, IndStep DEF RefInv, IndInv
<1>2. ASSUME NEW c \in Clients, NEW k \in Keys,
             \/ GetError(c, k)
             \/ CreateGet(c, k)
             \/ \E revision \in 0 .. seq : DeleteGet(c, k, revision)
             \/ \E revision \in 0 .. seq : UpdateGet(c, k, revision)
      PROVE  KV!Next
  <2>1. KV!Accept(c) \/ KV!Refuse(c)
    BY <1>1, <1>2, ReadsMap
  <2>2. QED
    BY <2>1 DEF KV!Next
<1>3. ASSUME NEW c \in Clients, Append(c) PROVE KV!Next
  <2>1. KV!Apply(c)
    BY <1>3, InsertApplies DEF Append, Answer
  <2>2. QED
    BY <2>1 DEF KV!Next
<1>4. ASSUME NEW c \in Clients, AppendAckLost(c) PROVE KV!Next
  <2>1. pend[c] # NoOp /\ Insert(c) /\ pend[c].op = "create"
        /\ resp' = [op |-> pend[c].op, key |-> pend[c].key, ans |-> "error"]
    BY <1>4 DEF AppendAckLost, AppendFailed, Answer
  <2>2. KV!Apply(c)
    BY <2>1, InsertApplies
  <2>3. QED
    BY <2>2 DEF KV!Next
<1>5. ASSUME NEW c \in Clients, AppendConflict(c) \/ AppendError(c) PROVE KV!Next
  <2>1. KV!Drop(c)
    BY <1>5, FailureDrops
  <2>2. QED
    BY <2>1 DEF KV!Next
<1>6. ASSUME LiveKV' = LiveKV, UNCHANGED <<seq, pend, lost, resp>> PROVE UNCHANGED KV!vars
  BY <1>6 DEF KV!vars, AbsRequest
<1>7. ASSUME NEW n \in Nodes, Compact(n) PROVE UNCHANGED KV!vars
  <2>1. CASE CompactBatch(n)
    <3>1. PICK target \in Nat : CompactTo(target)
      BY <1>1, <2>1, BatchCompacts
    <3>2. LiveKV' = LiveKV
      BY <1>1, <3>1, CompactLive
    <3>3. QED
      BY <1>6, <3>1, <3>2 DEF CompactTo
  <2>2. CASE ~CompactBatch(n)
    <3>1. UNCHANGED <<rows, seq, pend, resp, lost>>
      BY <1>7, <2>2 DEF Compact, CompactTick, CompactRequest, CompactStale, CompactError, CompactDone
    <3>2. QED
      BY <1>6, <3>1 DEF LiveKV, ListAt, CreateRevision
  <2>3. QED
    BY <2>1, <2>2
<1>8. CASE UNCHANGED vars
  BY <1>6, <1>8 DEF vars, LiveKV, ListAt, CreateRevision
<1>9. CASE \E c \in Clients : Write(c)
  BY <1>2, <1>3, <1>4, <1>5, <1>9 DEF Write
<1>10. QED
  BY <1>7, <1>8, <1>9 DEF Next

(***************************************************************************)
(* The two-statement writes of any number of clients, with any number of   *)
(* nodes compacting under them, implement the atomic revisioned store:     *)
(* what LogStructured.Create, Update and Delete answer is true of one      *)
(* instant of the call.  It rests on the retention assumption, and holds   *)
(* where no compaction takes a tombstone from under a Create, no answer of *)
(* an Update or Delete that committed is lost, and no INSERT meets a fill  *)
(* row on the primary key in all its attempts.                             *)
(***************************************************************************)
THEOREM WritesAreAtomic ==
  ASSUME TombstoneRace = FALSE, AckLoss = FALSE, RetriesEnd = FALSE
  PROVE  Spec => AtomicWrites
<1>1. Init => RefInv
  BY RefInit
<1>2. RefInv /\ [Next]_vars => RefInv'
  BY RefStep
<1>3. Init => KV!Init
  <2> SUFFICES ASSUME Init PROVE KV!Init
    OBVIOUS
  <2>1. rows = {} /\ seq = CompactRevKeyID /\ lost = {} /\ \A c \in Clients : pend[c] = NoOp
    BY DEF Init
  <2>2. LiveKV = {}
    BY <2>1 DEF LiveKV, ListAt
  <2>3. [c \in Clients |-> AbsRequest(c)] = [c \in Clients |-> NoOp]
    BY <2>1 DEF AbsRequest
  <2>4. QED
    BY <2>1, <2>2, <2>3 DEF Init, KV!Init, KV!NoAnswer
<1>4. RefInv /\ [Next]_vars => [KV!Next]_(KV!vars)
  BY StepMaps
<1>5. QED
  BY <1>1, <1>2, <1>3, <1>4, PTL DEF Spec, AtomicWrites, KV!Spec
=============================================================================
