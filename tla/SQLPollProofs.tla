--------------------------- MODULE SQLPollProofs ---------------------------
(***************************************************************************)
(* Proofs about SQLPoll, for every number of nodes and writers.            *)
(***************************************************************************)
EXTENDS SQLPoll, TLAPS

LEMMA PollTypeInit == Init => TypeOK
  BY PollAssumption DEF Init, TypeOK, Tx, Poller, FirstID

(* What the handling of a batch does, whichever of the four cases it is. *)
HandlesTo(n, last, skip, aged) ==
  /\ Deliver(n, last, skip, aged)
  /\ UNCHANGED <<seq, events, committed, tx, polledRev, query, start>>
  /\ poll[n].st = "scan"
  /\ last <= seq /\ last >= poll[n].rev
  /\ poll[n].aged \/ RunEnds(poll[n].batch, poll[n].rev, last)
  /\ poll[n].aged \/ ~aged

FillsNext(n, last) ==
  \/ UNCHANGED fills
  \/ /\ last + 1 \notin visible
     /\ \A w \in Writers : ~(tx[w].st = "inserted" /\ tx[w].id = last + 1)
     /\ fills' = fills \cup {last + 1}
     /\ GapAfter(poll[n].batch, last)

Handles(n) ==
  \E last \in Nat, skip \in Nat, aged \in BOOLEAN :
    HandlesTo(n, last, skip, aged) /\ FillsNext(n, last)

LEMMA BatchSteps ==
  ASSUME TypeOK, NEW n \in Nodes, PollScan(n) \/ PollGap(n) \/ PollFill(n) \/ PollSkip(n)
  PROVE  Handles(n)
<1>1. /\ poll[n] \in Poller /\ seq \in Nat
      /\ poll[n].rev \in Nat /\ poll[n].skip \in Nat /\ poll[n].aged \in BOOLEAN
      /\ poll[n].batch \in SUBSET Nat
  BY DEF TypeOK, Poller
<1>2. CASE PollScan(n)
  <2>1. PICK last \in poll[n].rev .. seq :
          /\ RunEnds(poll[n].batch, poll[n].rev, last)
          /\ Deliver(n, last, poll[n].skip, poll[n].aged)
    BY <1>2 DEF PollScan
  <2>2. HandlesTo(n, last, poll[n].skip, poll[n].aged) /\ FillsNext(n, last)
    BY <1>1, <1>2, <2>1 DEF PollScan, HandlesTo, FillsNext, db
  <2>3. last \in Nat
    BY <1>1
  <2>4. QED
    BY <1>1, <2>2, <2>3 DEF Handles
<1>3. CASE PollGap(n)
  <2>1. PICK last \in poll[n].rev .. seq :
          /\ RunEnds(poll[n].batch, poll[n].rev, last)
          /\ Deliver(n, last, last + 1, FALSE)
    BY <1>3 DEF PollGap
  <2>2. HandlesTo(n, last, last + 1, FALSE) /\ FillsNext(n, last)
    <3>1. /\ UNCHANGED <<seq, events, fills, committed, tx, polledRev, query, start>>
          /\ poll[n].st = "scan"
      BY <1>3 DEF PollGap, db
    <3>2. last <= seq /\ last >= poll[n].rev
      BY <1>1
    <3>3. HandlesTo(n, last, last + 1, FALSE)
      BY <2>1, <3>1, <3>2 DEF HandlesTo
    <3>4. QED
      BY <3>1, <3>3 DEF FillsNext
  <2>3. last \in Nat /\ last + 1 \in Nat
    BY <1>1
  <2>4. QED
    BY <2>2, <2>3 DEF Handles
<1>4. CASE PollFill(n)
  <2>1. PICK last \in poll[n].rev .. seq :
          /\ RunEnds(poll[n].batch, poll[n].rev, last)
          /\ FillsNext(n, last)
          /\ Deliver(n, last, poll[n].skip, poll[n].aged)
    BY <1>4 DEF PollFill, FillsNext
  <2>2. HandlesTo(n, last, poll[n].skip, poll[n].aged)
    BY <1>1, <1>4, <2>1 DEF PollFill, HandlesTo
  <2>3. last \in Nat
    BY <1>1
  <2>4. QED
    BY <1>1, <2>1, <2>2, <2>3 DEF Handles
<1>5. CASE PollSkip(n)
  <2>1. PICK last \in poll[n].rev .. seq, next \in poll[n].batch :
          /\ next > last
          /\ poll[n].aged
          /\ \E last2 \in next .. seq :
               \/ Deliver(n, last2, last2 + 1, FALSE)
               \/ Deliver(n, last2, poll[n].skip, TRUE)
    BY <1>5 DEF PollSkip
  <2>2. next \in Nat
    BY <1>1
  <2>3. PICK last2 \in next .. seq :
               \/ Deliver(n, last2, last2 + 1, FALSE)
               \/ Deliver(n, last2, poll[n].skip, TRUE)
    BY <2>1
  <2>4. last2 \in Nat /\ last2 + 1 \in Nat /\ last2 <= seq /\ last2 >= poll[n].rev
    BY <1>1, <2>1, <2>2
  <2>5. FillsNext(n, last2)
    BY <1>5 DEF PollSkip, FillsNext, db
  <2>6. CASE Deliver(n, last2, last2 + 1, FALSE)
    <3>1. HandlesTo(n, last2, last2 + 1, FALSE)
      BY <1>5, <2>1, <2>4, <2>6 DEF PollSkip, HandlesTo, db
    <3>2. QED
      BY <2>4, <2>5, <3>1 DEF Handles
  <2>7. CASE Deliver(n, last2, poll[n].skip, TRUE)
    <3>1. HandlesTo(n, last2, poll[n].skip, TRUE)
      BY <1>5, <2>1, <2>4, <2>7 DEF PollSkip, HandlesTo, db
    <3>2. QED
      BY <1>1, <2>4, <2>5, <3>1 DEF Handles
  <2>8. QED
    BY <2>3, <2>6, <2>7
<1>6. QED
  BY <1>2, <1>3, <1>4, <1>5

(* TypeOK is preserved. *)
LEMMA PollTypeStep == TypeOK /\ [Next]_vars => TypeOK'
<1> SUFFICES ASSUME TypeOK, [Next]_vars PROVE TypeOK'
  OBVIOUS
<1>1. ASSUME NEW n \in Nodes, Handles(n) PROVE TypeOK'
  <2>1. PICK last \in Nat, skip \in Nat, aged \in BOOLEAN :
          HandlesTo(n, last, skip, aged) /\ FillsNext(n, last)
    BY <1>1 DEF Handles
  <2>2. poll[n] \in Poller /\ Deliver(n, last, skip, aged)
        /\ UNCHANGED <<seq, events, committed, tx, polledRev, query, start>>
    BY <2>1 DEF TypeOK, HandlesTo
  <2>3. poll' \in [Nodes -> Poller]
    BY <2>1, <2>2 DEF Deliver, TypeOK, Poller
  <2>4. sent' \in [Nodes -> SUBSET Nat]
    BY <2>1, <2>2 DEF Deliver, TypeOK, Poller
  <2>5. currentRev' \in [Nodes -> Nat]
    BY <2>2 DEF Deliver, TypeOK, CAS
  <2>6. fills' \in SUBSET Nat
    <3>1. last + 1 \in Nat /\ (fills' = fills \/ fills' = fills \cup {last + 1})
      BY <2>1 DEF FillsNext
    <3>2. QED
      BY <3>1 DEF TypeOK
  <2>7. QED
    BY <2>2, <2>3, <2>4, <2>5, <2>6 DEF TypeOK
<1>2. ASSUME NEW w \in Writers, Append(w) PROVE TypeOK'
  <2>1. tx[w] \in Tx /\ Home[w] \in Nodes
    BY PollAssumption DEF TypeOK
  <2>2. CASE AppendBegin(w)
    BY <2>1, <2>2 DEF AppendBegin, TypeOK, Tx, db, caches, hist
  <2>3. CASE Reserve(w)
    <3>0. seq + 1 \in Nat
      BY DEF TypeOK
    <3>1. [tx[w] EXCEPT !.st = "reserved", !.id = seq + 1] \in Tx
      BY <2>1, <3>0 DEF Tx
    <3>2. tx' \in [Writers -> Tx]
      BY <2>3, <3>1 DEF Reserve, TypeOK
    <3>3. QED
      BY <2>3, <3>2 DEF Reserve, TypeOK, caches, hist
  <2>4. CASE IndexInsert(w)
    BY <2>1, <2>4 DEF IndexInsert, TypeOK, Tx, db, caches, hist
  <2>5. CASE Commit(w)
    BY <2>1, <2>5 DEF Commit, TypeOK, Tx, caches, hist
  <2>6. CASE Abort(w)
    BY <2>1, <2>6 DEF Abort, TypeOK, Tx, db, caches, hist
  <2>7. CASE AppendDone(w)
    BY <2>1, <2>7 DEF AppendDone, CAS, TypeOK, Tx, db, hist
  <2>8. CASE CommitLost(w)
    BY <2>1, <2>8 DEF CommitLost, TypeOK, Tx, caches, hist
  <2>9. QED
    BY <1>2, <2>2, <2>3, <2>4, <2>5, <2>6, <2>7, <2>8 DEF Append
<1>3. ASSUME NEW n \in Nodes, Poll(n) PROVE TypeOK'
  <2>1. poll[n] \in Poller /\ visible \in SUBSET Nat
    BY DEF TypeOK, visible
  <2>2. CASE startWatch(n)
    <3>1. PICK m \in visible :
            /\ poll' = [poll EXCEPT ![n] = [poll[n] EXCEPT !.st = "wait", !.rev = m]]
            /\ start' = [start EXCEPT ![n] = m]
      BY <2>2 DEF startWatch
    <3>2. m \in Nat /\ [poll[n] EXCEPT !.st = "wait", !.rev = m] \in Poller
      BY <2>1 DEF Poller
    <3>3. poll' \in [Nodes -> Poller]
      BY <3>1, <3>2 DEF TypeOK
    <3>4. start' \in [Nodes -> Nat]
      BY <3>1, <3>2 DEF TypeOK
    <3>5. QED
      BY <2>2, <3>3, <3>4 DEF startWatch, TypeOK, db, caches
  <2>3. CASE PollWake(n)
    BY <2>1, <2>3 DEF PollWake, TypeOK, Poller, db, hist
  <2>4. CASE PollRead(n)
    <3>1. PICK B \in SUBSET visible :
            poll' = [poll EXCEPT ![n] = [poll[n] EXCEPT
                       !.st = IF B = {} THEN "wait" ELSE "scan",
                       !.batch = B, !.found = B \cap events]]
      BY <2>4 DEF PollRead
    <3>2. B \in SUBSET Nat /\ B \cap events \in SUBSET Nat
      BY <2>1, <3>1
    <3>3. (IF B = {} THEN "wait" ELSE "scan") \in {"off", "wait", "read", "scan"}
      OBVIOUS
    <3>4. [poll[n] EXCEPT !.st = IF B = {} THEN "wait" ELSE "scan",
                          !.batch = B, !.found = B \cap events] \in Poller
      BY <2>1, <3>2, <3>3 DEF Poller
    <3>5. poll' \in [Nodes -> Poller]
      BY <3>1, <3>4 DEF TypeOK
    <3>6. QED
      BY <2>4, <3>5 DEF PollRead, TypeOK, db, caches, hist
  <2>5. CASE PollError(n)
    BY <2>1, <2>5 DEF PollError, TypeOK, Poller, db, caches, hist
  <2>6. CASE SecondPasses(n)
    BY <2>1, <2>6 DEF SecondPasses, TypeOK, Poller, db, caches, hist
  <2>7. CASE CurrentRevision(n)
    BY <2>1, <2>7 DEF CurrentRevision, CAS, TypeOK, db, hist
  <2>9. CASE QueryRevision(n)
    BY <2>1, <2>9 DEF QueryRevision, TypeOK, db, hist
  <2>8. QED
    BY <1>1, <1>3, <2>2, <2>3, <2>4, <2>5, <2>6, <2>7, <2>9, BatchSteps DEF Poll
<1>4. CASE Compact
  BY <1>4 DEF Compact, TypeOK, caches, hist
<1>5. CASE UNCHANGED vars
  BY <1>5 DEF vars, TypeOK
<1>6. QED
  BY <1>2, <1>3, <1>4, <1>5 DEF Next

(* Every variable of the poll model keeps its type. *)
THEOREM PollTypeCorrect == Spec => []TypeOK
<1>1. QED
  BY PollTypeInit, PollTypeStep, PTL DEF Spec

-----------------------------------------------------------------------------
(***************************************************************************)
(* The cached revision.  A compare-and-swap stores an id above the value   *)
(* it replaces: an Append holds an id above the revision it loaded.        *)
(***************************************************************************)

TxBound(t, last) ==
  /\ t.cur <= last
  /\ t.st \in {"reserved", "inserted", "committed"} => t.cur < t.id /\ t.id <= last

PollBound(p, last) == p.rev <= last /\ \A i \in p.batch : i <= last

Bounds ==
  /\ \A i \in events : i <= seq
  /\ \A i \in fills : i <= seq
  /\ \A i \in committed : i <= seq
  /\ \A n \in Nodes : currentRev[n] <= seq
  /\ \A n \in Nodes : query[n] <= seq
  /\ \A n \in Nodes : PollBound(poll[n], seq)
  /\ \A w \in Writers : TxBound(tx[w], seq)

LEMMA BoundsInit == Init => Bounds
  BY PollAssumption DEF Init, Bounds, TxBound, PollBound, FirstID

(* A CAS of an id above the old value raises the cache, and keeps it bounded. *)
LEMMA CASRaises ==
  ASSUME TypeOK, NEW n \in Nodes, NEW old \in Nat, NEW new \in Nat, CAS(n, old, new),
         old <= new, new <= seq, \A m \in Nodes : currentRev[m] <= seq
  PROVE  /\ \A m \in Nodes : currentRev'[m] <= seq
         /\ \A m \in Nodes : currentRev'[m] >= currentRev[m]
  BY DEF CAS, TypeOK

(* Bounds are preserved, and no step lowers the cached revision. *)
Raises == \A n \in Nodes : currentRev'[n] >= currentRev[n]

LEMMA BoundsStep ==
  TypeOK /\ Bounds /\ [Next]_vars => Bounds' /\ Raises
<1> SUFFICES ASSUME TypeOK, Bounds, [Next]_vars PROVE Bounds' /\ Raises
  OBVIOUS
<1>0. /\ seq \in Nat /\ events \in SUBSET Nat /\ fills \in SUBSET Nat
      /\ committed \in SUBSET Nat
      /\ currentRev \in [Nodes -> Nat]
      /\ tx \in [Writers -> Tx] /\ poll \in [Nodes -> Poller]
      /\ \A w \in Writers : /\ tx[w] \in Tx /\ tx[w].cur \in Nat
                            /\ tx[w].id \in Nat /\ Home[w] \in Nodes
      /\ \A n \in Nodes : /\ poll[n] \in Poller /\ poll[n].rev \in Nat
                          /\ poll[n].batch \in SUBSET Nat
                          /\ currentRev[n] \in Nat /\ query[n] \in Nat
  BY PollAssumption DEF TypeOK, Tx, Poller
<1>1. ASSUME UNCHANGED currentRev PROVE Raises
  BY <1>0, <1>1 DEF Raises
<1>2. ASSUME NEW n \in Nodes, Handles(n) PROVE Bounds' /\ Raises
  <2>1. PICK last \in Nat, skip \in Nat, aged \in BOOLEAN :
          HandlesTo(n, last, skip, aged) /\ FillsNext(n, last)
    BY <1>2 DEF Handles
  <2>2. /\ Deliver(n, last, skip, aged)
        /\ UNCHANGED <<seq, events, committed, tx, polledRev, query, start>>
        /\ last <= seq /\ last >= poll[n].rev
    BY <2>1 DEF HandlesTo
  <2>3. /\ \A m \in Nodes : currentRev'[m] <= seq
        /\ Raises
    <3>1. CASE last > poll[n].rev
      BY <1>0, <2>2, <3>1, CASRaises DEF Deliver, Bounds, Raises
    <3>2. CASE ~(last > poll[n].rev)
      BY <1>0, <1>1, <2>2, <3>2 DEF Deliver, Bounds
    <3>3. QED
      BY <3>1, <3>2
  <2>4. \A m \in Nodes : PollBound(poll'[m], seq)
    BY <1>0, <2>2 DEF Deliver, Bounds, PollBound
  <2>5. \A i \in fills' : i <= seq
    <3>1. CASE UNCHANGED fills
      BY <3>1 DEF Bounds
    <3>2. CASE fills' = fills \cup {last + 1} /\ GapAfter(poll[n].batch, last)
      <4>1. PICK i \in poll[n].batch : i > last
        BY <3>2 DEF GapAfter
      <4>2. i \in Nat /\ i <= seq
        BY <1>0, <4>1 DEF Bounds, PollBound
      <4>3. last + 1 <= seq
        BY <1>0, <4>1, <4>2
      <4>4. QED
        BY <3>2, <4>3 DEF Bounds
    <3>3. QED
      BY <2>1, <3>1, <3>2 DEF FillsNext
  <2>6. QED
    BY <2>2, <2>3, <2>4, <2>5 DEF Bounds
<1>3. ASSUME NEW w \in Writers, Append(w) PROVE Bounds' /\ Raises
  <2>1. TxBound(tx[w], seq) /\ \A n \in Nodes : currentRev[n] <= seq
    BY DEF Bounds
  <2>2. CASE AppendBegin(w)
    <3>1. \A v \in Writers : TxBound(tx'[v], seq)
      BY <1>0, <2>1, <2>2 DEF AppendBegin, Bounds, TxBound
    <3>2. QED
      BY <1>1, <2>2, <3>1 DEF AppendBegin, Bounds, db, caches
  <2>3. CASE Reserve(w)
    <3>1. \A v \in Writers : TxBound(tx'[v], seq + 1)
      <4>1. SUFFICES ASSUME NEW v \in Writers PROVE TxBound(tx'[v], seq + 1)
        OBVIOUS
      <4>2. CASE v = w
        <5>1. tx'[w] = [tx[w] EXCEPT !.st = "reserved", !.id = seq + 1]
          BY <1>0, <2>3 DEF Reserve
        <5>2. tx'[w].cur = tx[w].cur /\ tx'[w].id = seq + 1
          BY <1>0, <5>1 DEF Tx
        <5>3. QED
          BY <1>0, <2>1, <4>2, <5>2 DEF TxBound
      <4>3. CASE v # w
        BY <1>0, <2>3, <4>3 DEF Reserve, Bounds, TxBound
      <4>4. QED
        BY <4>2, <4>3
    <3>2. seq' = seq + 1 /\ UNCHANGED <<events, fills, committed, poll, currentRev, query>>
      BY <2>3 DEF Reserve, caches
    <3>3. \A n \in Nodes : PollBound(poll[n], seq + 1) /\ query[n] <= seq + 1
      BY <1>0 DEF Bounds, PollBound
    <3>4. QED
      BY <1>0, <1>1, <3>1, <3>2, <3>3 DEF Bounds
  <2>4. CASE IndexInsert(w)
    <3>1. \A v \in Writers : TxBound(tx'[v], seq)
      BY <1>0, <2>1, <2>4 DEF IndexInsert, Bounds, TxBound, Tx
    <3>2. QED
      BY <1>1, <2>4, <3>1 DEF IndexInsert, Bounds, db, caches
  <2>5. CASE Commit(w)
    <3>1. \A v \in Writers : TxBound(tx'[v], seq)
      BY <1>0, <2>1, <2>5 DEF Commit, Bounds, TxBound, Tx
    <3>2. tx[w].id <= seq
      BY <2>1, <2>5 DEF Commit, TxBound
    <3>3. QED
      BY <1>1, <2>5, <3>1, <3>2 DEF Commit, Bounds, caches
  <2>6. CASE Abort(w)
    <3>1. \A v \in Writers : TxBound(tx'[v], seq)
      BY <1>0, <2>6 DEF Abort, Bounds, TxBound
    <3>2. QED
      BY <1>1, <2>6, <3>1 DEF Abort, Bounds, db, caches
  <2>7. CASE AppendDone(w)
    <3>1. \A v \in Writers : TxBound(tx'[v], seq)
      BY <1>0, <2>7 DEF AppendDone, Bounds, TxBound
    <3>2. /\ CAS(Home[w], tx[w].cur, tx[w].id)
          /\ tx[w].cur <= tx[w].id /\ tx[w].id <= seq
      BY <1>0, <2>1, <2>7 DEF AppendDone, TxBound
    <3>3. (\A m \in Nodes : currentRev'[m] <= seq) /\ Raises
      BY <1>0, <2>1, <3>2, CASRaises DEF Raises
    <3>4. QED
      BY <2>7, <3>1, <3>3 DEF AppendDone, Bounds, db
  <2>8. CASE CommitLost(w)
    <3>1. \A v \in Writers : TxBound(tx'[v], seq)
      BY <1>0, <2>8 DEF CommitLost, Bounds, TxBound
    <3>2. tx[w].id <= seq
      BY <2>1, <2>8 DEF CommitLost, TxBound
    <3>3. QED
      BY <1>1, <2>8, <3>1, <3>2 DEF CommitLost, Bounds, caches
  <2>9. QED
    BY <1>3, <2>2, <2>3, <2>4, <2>5, <2>6, <2>7, <2>8 DEF Append
<1>4. ASSUME NEW n \in Nodes, Poll(n) PROVE Bounds' /\ Raises
  <2>1. /\ visible \in SUBSET Nat /\ \A i \in visible : i <= seq
        /\ PollBound(poll[n], seq)
    BY <1>0 DEF visible, Bounds
  <2>2. CASE startWatch(n)
    <3>1. PICK m \in visible :
            poll' = [poll EXCEPT ![n] = [poll[n] EXCEPT !.st = "wait", !.rev = m]]
      BY <2>2 DEF startWatch
    <3>2. \A k \in Nodes : PollBound(poll'[k], seq)
      BY <1>0, <2>1, <3>1 DEF Bounds, PollBound, Poller
    <3>3. QED
      BY <1>1, <2>2, <3>2 DEF startWatch, Bounds, db, caches
  <2>3. CASE PollWake(n)
    <3>1. \A k \in Nodes : PollBound(poll'[k], seq)
      BY <1>0, <2>1, <2>3 DEF PollWake, Bounds, PollBound, Poller
    <3>2. QED
      BY <1>1, <2>3, <3>1 DEF PollWake, Bounds, db
  <2>4. CASE PollRead(n)
    <3>1. PICK B \in SUBSET visible :
            poll' = [poll EXCEPT ![n] = [poll[n] EXCEPT
                       !.st = IF B = {} THEN "wait" ELSE "scan",
                       !.batch = B, !.found = B \cap events]]
      BY <2>4 DEF PollRead
    <3>2. \A k \in Nodes : PollBound(poll'[k], seq)
      <4>1. SUFFICES ASSUME NEW k \in Nodes PROVE PollBound(poll'[k], seq)
        OBVIOUS
      <4>2. CASE k # n
        BY <1>0, <3>1, <4>2 DEF Bounds
      <4>3. CASE k = n
        <5>1. poll'[n].rev = poll[n].rev /\ poll'[n].batch = B
          BY <1>0, <3>1 DEF Poller
        <5>2. QED
          BY <2>1, <3>1, <4>3, <5>1 DEF PollBound
      <4>4. QED
        BY <4>2, <4>3
    <3>3. QED
      BY <1>1, <2>4, <3>2 DEF PollRead, Bounds, db, caches
  <2>5. CASE PollError(n)
    <3>1. \A k \in Nodes : PollBound(poll'[k], seq)
      BY <1>0, <2>1, <2>5 DEF PollError, Bounds, PollBound, Poller
    <3>2. QED
      BY <1>1, <2>5, <3>1 DEF PollError, Bounds, db, caches
  <2>6. CASE SecondPasses(n)
    <3>1. \A k \in Nodes : PollBound(poll'[k], seq)
      BY <1>0, <2>1, <2>6 DEF SecondPasses, Bounds, PollBound, Poller
    <3>2. QED
      BY <1>1, <2>6, <3>1 DEF SecondPasses, Bounds, db, caches
  <2>7. CASE CurrentRevision(n)
    <3>1. CAS(n, 0, query[n]) /\ query' = [query EXCEPT ![n] = 0]
      BY <2>7 DEF CurrentRevision
    <3>2. query[n] \in Nat /\ 0 \in Nat /\ 0 <= query[n] /\ query[n] <= seq
      BY <1>0 DEF Bounds
    <3>3. (\A m \in Nodes : currentRev'[m] <= seq) /\ Raises
      BY <3>1, <3>2, CASRaises DEF Bounds, Raises
    <3>4. \A m \in Nodes : query'[m] <= seq
      BY <1>0, <3>1 DEF Bounds, TypeOK
    <3>5. QED
      BY <2>7, <3>3, <3>4 DEF CurrentRevision, Bounds, db
  <2>9. CASE QueryRevision(n)
    <3>1. PICK lastRev \in visible : query' = [query EXCEPT ![n] = lastRev]
      BY <2>9 DEF QueryRevision
    <3>2. \A m \in Nodes : query'[m] <= seq
      BY <1>0, <2>1, <3>1 DEF Bounds, TypeOK
    <3>3. QED
      BY <1>1, <2>9, <3>2 DEF QueryRevision, Bounds, db
  <2>8. QED
    BY <1>2, <1>4, <2>2, <2>3, <2>4, <2>5, <2>6, <2>7, <2>9, BatchSteps DEF Poll
<1>5. CASE Compact
  <2>1. /\ events' \subseteq events /\ fills' \subseteq fills
        /\ UNCHANGED <<seq, committed, tx, poll, currentRev, query>>
    BY <1>5 DEF Compact, caches
  <2>2. QED
    BY <1>1, <2>1 DEF Bounds
<1>6. CASE UNCHANGED vars
  BY <1>1, <1>6 DEF vars, Bounds
<1>7. QED
  BY <1>3, <1>4, <1>5, <1>6 DEF Next

(***************************************************************************)
(* The cached current revision of a node never goes back, whatever the     *)
(* interleaving of Append, poll and CurrentRevision, and even where the    *)
(* poll loop skips holes or a compaction overtakes it.                     *)
(***************************************************************************)
THEOREM CacheIsMonotone == Spec => CacheMonotone
<1>1. TypeOK /\ Bounds /\ [Next]_vars
        => [\A n \in Nodes : currentRev'[n] >= currentRev[n]]_vars
  BY BoundsStep DEF Raises
<1>2. Spec => [](TypeOK /\ Bounds)
  <2>1. Init => TypeOK /\ Bounds
    BY PollTypeInit, BoundsInit
  <2>2. TypeOK /\ Bounds /\ [Next]_vars => (TypeOK /\ Bounds)'
    BY PollTypeStep, BoundsStep
  <2>3. QED
    BY <2>1, <2>2, PTL DEF Spec
<1>3. QED
  BY <1>1, <1>2, PTL DEF Spec, CacheMonotone

-----------------------------------------------------------------------------
(***************************************************************************)
(* Delivery, while no hole outlives a second and no compaction overtakes a *)
(* poller or an open INSERT.                                               *)
(***************************************************************************)

Holding(w) == tx[w].st \in {"reserved", "inserted"}

(* The rows: an id is an event or a fill, never both, and some row that is *)
(* at least as new as any event ever committed stays.                      *)
Rows ==
  /\ events \subseteq committed
  /\ \A i \in fills : i \notin committed
  /\ \A i \in committed : \E j \in visible : i <= j

(* The ids of open INSERTs are fresh. *)
Held ==
  /\ \A w \in Writers : Holding(w) => tx[w].id \notin committed
  /\ \A w \in Writers : tx[w].st = "inserted" => tx[w].id \notin fills
  /\ \A v, w \in Writers : v # w /\ Holding(v) /\ Holding(w) => tx[v].id # tx[w].id

(***************************************************************************)
(* The poller of n: no event above its revision is compacted; an open      *)
(* INSERT whose id it has passed is doomed, because the id is filled; and  *)
(* the batch it works on is what the table holds.                          *)
(***************************************************************************)
Follows(n) ==
  /\ start[n] <= poll[n].rev
  /\ \A i \in committed : i > poll[n].rev => i \in events
  /\ \A w \in Writers : Holding(w) /\ start[n] < tx[w].id /\ tx[w].id <= poll[n].rev
                         => tx[w].st = "reserved" /\ tx[w].id \in fills
  /\ sent[n] = {i \in committed : start[n] < i /\ i <= poll[n].rev}

BatchOK(n) ==
  /\ \A i \in poll[n].batch : i > poll[n].rev
  /\ \A i \in poll[n].batch : i \in committed \/ i \in fills
  /\ poll[n].found = poll[n].batch \cap committed

PollerOK(n) ==
  /\ ~poll[n].aged
  /\ poll[n].st = "off" => sent[n] = {}
  /\ poll[n].st # "off" => Follows(n)
  /\ poll[n].st = "scan" => BatchOK(n)

Pollers == \A n \in Nodes : PollerOK(n)

DeliveryInv == TypeOK /\ Bounds /\ Rows /\ Held /\ Pollers

LEMMA DeliveryInit == Init => DeliveryInv
<1> SUFFICES ASSUME Init PROVE DeliveryInv
  OBVIOUS
<1>1. Rows
  BY DEF Init, Rows, visible, FirstID
<1>2. Held
  BY DEF Init, Held, Holding
<1>3. Pollers
  BY DEF Init, Pollers, PollerOK
<1>4. QED
  BY <1>1, <1>2, <1>3, PollTypeInit, BoundsInit DEF DeliveryInv

(* The types of the parts, as the steps below need them. *)
LEMMA Parts ==
  ASSUME TypeOK
  PROVE  /\ seq \in Nat /\ events \in SUBSET Nat /\ fills \in SUBSET Nat
         /\ committed \in SUBSET Nat
         /\ tx \in [Writers -> Tx] /\ poll \in [Nodes -> Poller]
         /\ start \in [Nodes -> Nat] /\ sent \in [Nodes -> SUBSET Nat]
         /\ \A w \in Writers : tx[w] \in Tx /\ tx[w].id \in Nat
         /\ \A n \in Nodes : /\ poll[n] \in Poller /\ poll[n].rev \in Nat
                             /\ poll[n].batch \in SUBSET Nat
                             /\ poll[n].found \in SUBSET Nat
                             /\ start[n] \in Nat
  BY DEF TypeOK, Tx, Poller

(* The steps of the writers. *)
LEMMA AppendDelivery ==
  ASSUME DeliveryInv, NEW w \in Writers, Append(w)
  PROVE  Rows' /\ Held' /\ Pollers'
<1>0. TypeOK /\ Bounds /\ Rows /\ Held /\ Pollers
  BY DEF DeliveryInv
<1>1. ASSUME UNCHANGED <<events, fills, committed, poll, start, sent>>,
             \A v \in Writers : Holding(v)' => tx'[v] = tx[v]
      PROVE  Rows' /\ Held' /\ Pollers'
  <2>1. Rows'
    BY <1>0, <1>1 DEF Rows, visible
  <2>2. Held'
    BY <1>0, <1>1 DEF Held, Holding
  <2>3. Pollers'
    BY <1>0, <1>1 DEF Pollers, PollerOK, Follows, BatchOK, Holding
  <2>4. QED
    BY <2>1, <2>2, <2>3
<1>2. CASE AppendBegin(w)
  BY <1>0, <1>1, <1>2, Parts DEF AppendBegin, Holding, db, hist
<1>3. CASE Reserve(w)
  <2>1. /\ tx' = [tx EXCEPT ![w] = [tx[w] EXCEPT !.st = "reserved", !.id = seq + 1]]
        /\ UNCHANGED <<events, fills, committed, poll, start, sent>>
    BY <1>3 DEF Reserve, hist
  <2>2. /\ tx'[w].id = seq + 1 /\ tx'[w].st = "reserved"
        /\ \A v \in Writers : v # w => tx'[v] = tx[v]
    BY <1>0, <2>1, Parts DEF Tx
  <2>3. Rows'
    BY <1>0, <2>1 DEF Rows, visible
  <2>4. /\ seq + 1 \notin committed
        /\ \A v \in Writers : Holding(v) => tx[v].id # seq + 1
        /\ \A n \in Nodes : ~(seq + 1 <= poll[n].rev)
    BY <1>0, Parts DEF Bounds, TxBound, PollBound, Holding
  <2>5. Held'
    <3>1. \A v \in Writers : Holding(v)' => tx'[v].id \notin committed'
      BY <1>0, <2>1, <2>2, <2>4 DEF Held, Holding
    <3>2. \A v \in Writers : tx'[v].st = "inserted" => tx'[v].id \notin fills'
      BY <1>0, <2>1, <2>2 DEF Held
    <3>3. \A u, v \in Writers : u # v /\ Holding(u)' /\ Holding(v)' => tx'[u].id # tx'[v].id
      BY <1>0, <2>2, <2>4 DEF Held, Holding
    <3>4. QED
      BY <3>1, <3>2, <3>3 DEF Held
  <2>6. Pollers'
    <3>1. SUFFICES ASSUME NEW n \in Nodes PROVE PollerOK(n)'
      BY DEF Pollers
    <3>2. PollerOK(n)
      BY <1>0 DEF Pollers
    <3>3. (poll[n].st # "off" => Follows(n)) => (poll[n].st # "off" => Follows(n)')
      BY <2>1, <2>2, <2>4 DEF Follows, Holding
    <3>4. BatchOK(n) => BatchOK(n)'
      BY <2>1 DEF BatchOK
    <3>5. QED
      BY <2>1, <3>2, <3>3, <3>4 DEF PollerOK
  <2>7. QED
    BY <2>3, <2>5, <2>6
<1>4. CASE IndexInsert(w)
  <2>1. UNCHANGED <<events, fills, committed, poll, start, sent>>
    BY <1>4 DEF IndexInsert, db, hist
  <2>2. CASE tx[w].id \in fills
    <3>1. tx' = [tx EXCEPT ![w] = [tx[w] EXCEPT !.st = "begin", !.id = 0]]
      BY <1>4, <2>2 DEF IndexInsert
    <3>2. tx'[w].st = "begin" /\ \A v \in Writers : v # w => tx'[v] = tx[v]
      BY <1>0, <3>1, Parts DEF Tx
    <3>3. QED
      BY <1>1, <2>1, <3>2 DEF Holding
  <2>3. CASE tx[w].id \notin fills
    <3>1. tx' = [tx EXCEPT ![w] = [tx[w] EXCEPT !.st = "inserted"]] /\ tx[w].st = "reserved"
      BY <1>4, <2>3 DEF IndexInsert
    <3>2. /\ tx'[w].st = "inserted" /\ tx'[w].id = tx[w].id
          /\ \A v \in Writers : v # w => tx'[v] = tx[v]
      BY <1>0, <3>1, Parts DEF Tx
    <3>3. \A v \in Writers : /\ Holding(v)' <=> Holding(v)
                            /\ tx'[v].id = tx[v].id
      BY <3>1, <3>2 DEF Holding
    <3>4. Rows'
      BY <1>0, <2>1 DEF Rows, visible
    <3>5. Held'
      BY <1>0, <2>1, <2>3, <3>2, <3>3 DEF Held
    <3>6. ASSUME NEW n \in Nodes PROVE PollerOK(n)'
      <4>1. PollerOK(n)
        BY <1>0 DEF Pollers
      <4>2. Follows(n) => Follows(n)'
        <5>1. SUFFICES ASSUME Follows(n) PROVE Follows(n)'
          OBVIOUS
        <5>2. ~(start[n] < tx[w].id /\ tx[w].id <= poll[n].rev)
          BY <2>3, <3>1, <5>1 DEF Follows, Holding
        <5>3. QED
          BY <2>1, <3>2, <3>3, <5>1, <5>2 DEF Follows
      <4>3. BatchOK(n) => BatchOK(n)'
        BY <2>1 DEF BatchOK
      <4>4. QED
        BY <2>1, <4>1, <4>2, <4>3 DEF PollerOK
    <3>7. QED
      BY <3>4, <3>5, <3>6 DEF Pollers
  <2>4. QED
    BY <2>2, <2>3
<1>5. CASE Commit(w) \/ CommitLost(w)
  <2>1. /\ tx[w].st = "inserted"
        /\ events' = events \cup {tx[w].id}
        /\ committed' = committed \cup {tx[w].id}
        /\ UNCHANGED <<fills, poll, start, sent>>
    BY <1>5 DEF Commit, CommitLost, hist
  <2>2. /\ tx'[w].st \in {"committed", "idle"}
        /\ \A v \in Writers : v # w => tx'[v] = tx[v]
        /\ tx[w].id \in Nat
    BY <1>0, <1>5, Parts DEF Commit, CommitLost, Tx
  <2>3. tx[w].id \notin committed /\ tx[w].id \notin fills
    BY <1>0, <2>1 DEF Held, Holding
  <2>4. Rows'
    BY <1>0, <2>1, <2>2, <2>3 DEF Rows, visible
  <2>5. \A v \in Writers : Holding(v)' => Holding(v) /\ v # w /\ tx'[v] = tx[v]
    BY <2>2 DEF Holding
  <2>6. Held'
    <3>1. \A v \in Writers : Holding(v)' => tx'[v].id \notin committed'
      BY <1>0, <2>1, <2>5 DEF Held, Holding
    <3>2. \A v \in Writers : tx'[v].st = "inserted" => tx'[v].id \notin fills'
      BY <1>0, <2>1, <2>2 DEF Held
    <3>3. \A u, v \in Writers : u # v /\ Holding(u)' /\ Holding(v)' => tx'[u].id # tx'[v].id
      BY <1>0, <2>5 DEF Held
    <3>4. QED
      BY <3>1, <3>2, <3>3 DEF Held
  <2>7. ASSUME NEW n \in Nodes PROVE PollerOK(n)'
    <3>1. PollerOK(n)
      BY <1>0 DEF Pollers
    <3>2. Follows(n) => Follows(n)'
      <4>1. SUFFICES ASSUME Follows(n) PROVE Follows(n)'
        OBVIOUS
      <4>2. ~(start[n] < tx[w].id /\ tx[w].id <= poll[n].rev)
        BY <2>1, <4>1 DEF Follows, Holding
      <4>3. sent'[n] = {i \in committed' : start'[n] < i /\ i <= poll'[n].rev}
        BY <2>1, <4>1, <4>2 DEF Follows
      <4>4. \A i \in committed' : i > poll'[n].rev => i \in events'
        BY <2>1, <4>1 DEF Follows
      <4>5. QED
        BY <2>1, <2>5, <4>1, <4>3, <4>4 DEF Follows
    <3>3. BatchOK(n) => BatchOK(n)'
      BY <2>1, <2>3 DEF BatchOK
    <3>4. QED
      BY <2>1, <3>1, <3>2, <3>3 DEF PollerOK
  <2>8. QED
    BY <2>4, <2>6, <2>7 DEF Pollers
<1>6. CASE Abort(w)
  BY <1>0, <1>1, <1>6, Parts DEF Abort, Holding, db, hist
<1>7. CASE AppendDone(w)
  BY <1>0, <1>1, <1>7, Parts DEF AppendDone, Holding, db, hist
<1>8. QED
  BY <1>2, <1>3, <1>4, <1>5, <1>6, <1>7 DEF Append

(* A batch is handled while its rows are as they were read. *)
LEMMA HandlesDelivery ==
  ASSUME DeliveryInv, NEW n \in Nodes, Handles(n)
  PROVE  Rows' /\ Held' /\ Pollers'
<1>0. TypeOK /\ Bounds /\ Rows /\ Held /\ Pollers /\ PollerOK(n)
  BY DEF DeliveryInv, Pollers
<1>1. PICK last \in Nat, skip \in Nat, aged \in BOOLEAN :
        HandlesTo(n, last, skip, aged) /\ FillsNext(n, last)
  BY DEF Handles
<1>2. /\ Deliver(n, last, skip, aged)
      /\ UNCHANGED <<seq, events, committed, tx, polledRev, query, start>>
      /\ poll[n].st = "scan"
      /\ last >= poll[n].rev
      /\ RunEnds(poll[n].batch, poll[n].rev, last)
      /\ ~aged
  BY <1>0, <1>1 DEF HandlesTo, PollerOK
<1>3. Follows(n) /\ BatchOK(n)
  BY <1>0, <1>2 DEF PollerOK
<1>4. /\ poll'[n] = [st |-> "wait", rev |-> last, skip |-> skip,
                     aged |-> aged, batch |-> {}, found |-> {}]
      /\ sent'[n] = sent[n] \cup {i \in poll[n].found : i <= last}
      /\ \A m \in Nodes : m # n => poll'[m] = poll[m] /\ sent'[m] = sent[m]
  BY <1>0, <1>2, Parts DEF Deliver
<1>5. /\ fills \subseteq fills'
      /\ \A i \in fills' : i \notin committed
      /\ \A w \in Writers : tx[w].st = "inserted" => tx[w].id \notin fills'
  <2>1. CASE UNCHANGED fills
    BY <1>0, <2>1 DEF Rows, Held
  <2>2. CASE /\ last + 1 \notin visible
             /\ \A w \in Writers : ~(tx[w].st = "inserted" /\ tx[w].id = last + 1)
             /\ fills' = fills \cup {last + 1}
    <3>1. last + 1 > poll[n].rev
      BY <1>0, <1>2, Parts
    <3>2. last + 1 \notin committed
      BY <1>3, <2>2, <3>1 DEF Follows, visible
    <3>3. QED
      BY <1>0, <2>2, <3>2 DEF Rows, Held
  <2>3. QED
    BY <1>1, <2>1, <2>2 DEF FillsNext
<1>6. Rows'
  <2>1. \A i \in committed' : \E j \in visible' : i <= j
    BY <1>0, <1>2, <1>5 DEF Rows, visible
  <2>2. QED
    BY <1>0, <1>2, <1>5, <2>1 DEF Rows
<1>7. Held'
  BY <1>0, <1>2, <1>5 DEF Held, Holding
<1>8. ASSUME NEW m \in Nodes, m # n PROVE PollerOK(m)'
  <2>1. PollerOK(m)
    BY <1>0 DEF Pollers
  <2>2. Follows(m) => Follows(m)'
    BY <1>2, <1>4, <1>5, <1>8 DEF Follows, Holding
  <2>3. BatchOK(m) => BatchOK(m)'
    BY <1>2, <1>4, <1>5, <1>8 DEF BatchOK
  <2>4. QED
    BY <1>4, <1>8, <2>1, <2>2, <2>3 DEF PollerOK
<1>9. PollerOK(n)'
  <2>1. poll'[n].rev = last /\ poll'[n].st = "wait" /\ ~poll'[n].aged
    BY <1>2, <1>4
  <2>2. \A i \in Nat : poll[n].rev < i /\ i <= last => i \in poll[n].batch
    BY <1>0, <1>2, Parts DEF RunEnds
  <2>3. sent'[n] = {i \in committed : start[n] < i /\ i <= last}
    <3>1. ASSUME NEW i \in sent'[n]
          PROVE  i \in committed /\ start[n] < i /\ i <= last
      <4>1. CASE i \in sent[n]
        <5>1. i \in committed /\ i \in Nat /\ start[n] < i /\ i <= poll[n].rev
          BY <1>0, <1>3, <4>1, Parts DEF Follows
        <5>2. QED
          BY <1>0, <1>2, <5>1, Parts
      <4>2. CASE i \in poll[n].found /\ i <= last
        <5>1. i \in committed /\ i \in Nat /\ i > poll[n].rev
          BY <1>0, <1>3, <4>2, Parts DEF BatchOK
        <5>2. QED
          BY <1>0, <1>3, <4>2, <5>1, Parts DEF Follows
      <4>3. QED
        BY <1>4, <3>1, <4>1, <4>2
    <3>2. ASSUME NEW i \in committed, start[n] < i, i <= last
          PROVE  i \in sent'[n]
      <4>1. CASE i <= poll[n].rev
        BY <1>3, <1>4, <3>2, <4>1 DEF Follows
      <4>2. CASE ~(i <= poll[n].rev)
        <5>1. i \in Nat /\ poll[n].rev < i
          BY <1>0, <4>2, Parts
        <5>2. i \in poll[n].found
          BY <1>3, <2>2, <3>2, <5>1 DEF BatchOK
        <5>3. QED
          BY <1>4, <3>2, <5>2
      <4>3. QED
        BY <4>1, <4>2
    <3>3. QED
      BY <3>1, <3>2
  <2>4. \A w \in Writers : Holding(w) /\ start[n] < tx[w].id /\ tx[w].id <= last
                          => tx[w].st = "reserved" /\ tx[w].id \in fills'
    <3>1. SUFFICES ASSUME NEW w \in Writers, Holding(w),
                          start[n] < tx[w].id, tx[w].id <= last
                   PROVE  tx[w].st = "reserved" /\ tx[w].id \in fills'
      OBVIOUS
    <3>2. CASE tx[w].id <= poll[n].rev
      BY <1>3, <1>5, <3>1, <3>2 DEF Follows
    <3>3. CASE ~(tx[w].id <= poll[n].rev)
      <4>1. tx[w].id \in poll[n].batch
        BY <1>0, <2>2, <3>1, <3>3, Parts
      <4>2. tx[w].id \notin committed
        BY <1>0, <3>1 DEF Held
      <4>3. tx[w].id \in fills
        BY <1>3, <4>1, <4>2 DEF BatchOK
      <4>4. QED
        BY <1>0, <1>5, <3>1, <4>3 DEF Held, Holding
    <3>4. QED
      BY <3>2, <3>3
  <2>5. \A i \in committed : i > last => i \in events
    BY <1>0, <1>2, <1>3, Parts DEF Follows
  <2>6. start[n] <= last
    BY <1>0, <1>2, <1>3, Parts DEF Follows
  <2>7. Follows(n)'
    BY <1>2, <2>1, <2>3, <2>4, <2>5, <2>6 DEF Follows, Holding
  <2>8. QED
    BY <2>1, <2>7 DEF PollerOK
<1>10. QED
  BY <1>6, <1>7, <1>8, <1>9 DEF Pollers

(* The steps of a poll loop. *)
LEMMA PollDelivery ==
  ASSUME SlowPoll = FALSE, DeliveryInv, NEW n \in Nodes, Poll(n)
  PROVE  Rows' /\ Held' /\ Pollers'
<1>0. TypeOK /\ Bounds /\ Rows /\ Held /\ Pollers /\ PollerOK(n)
  BY DEF DeliveryInv, Pollers
<1>1. ASSUME UNCHANGED <<events, fills, committed, tx, sent>>,
             \A m \in Nodes : m # n => poll'[m] = poll[m] /\ start'[m] = start[m],
             PollerOK(n)'
      PROVE  Rows' /\ Held' /\ Pollers'
  <2>1. Rows'
    BY <1>0, <1>1 DEF Rows, visible
  <2>2. Held'
    BY <1>0, <1>1 DEF Held, Holding
  <2>3. ASSUME NEW m \in Nodes, m # n PROVE PollerOK(m)'
    <3>1. PollerOK(m) /\ UNCHANGED <<poll[m], start[m], sent[m]>>
      BY <1>0, <1>1, <2>3 DEF Pollers
    <3>2. Follows(m) => Follows(m)'
      BY <1>1, <3>1 DEF Follows, Holding
    <3>3. BatchOK(m) => BatchOK(m)'
      BY <1>1, <3>1 DEF BatchOK
    <3>4. QED
      BY <3>1, <3>2, <3>3 DEF PollerOK
  <2>4. QED
    BY <1>1, <2>1, <2>2, <2>3 DEF Pollers
<1>2. CASE startWatch(n)
  <2>1. PICK m \in visible :
          /\ IsMax(visible, m)
          /\ poll' = [poll EXCEPT ![n] = [poll[n] EXCEPT !.st = "wait", !.rev = m]]
          /\ start' = [start EXCEPT ![n] = m]
    BY <1>2 DEF startWatch
  <2>2. /\ poll[n].st = "off"
        /\ UNCHANGED <<events, fills, committed, tx, sent>>
    BY <1>2 DEF startWatch, db
  <2>3. m \in Nat
    BY <1>0, <2>1, Parts DEF visible
  <2>4. /\ poll'[n].st = "wait" /\ poll'[n].rev = m /\ start'[n] = m
        /\ poll'[n].aged = poll[n].aged
        /\ \A k \in Nodes : k # n => poll'[k] = poll[k] /\ start'[k] = start[k]
    BY <1>0, <2>1, Parts DEF Poller
  <2>5. \A i \in committed : i <= m
    <3>1. SUFFICES ASSUME NEW i \in committed PROVE i <= m
      OBVIOUS
    <3>2. PICK j \in visible : i <= j
      BY <1>0 DEF Rows
    <3>3. j <= m /\ i \in Nat /\ j \in Nat
      BY <1>0, <2>1, <3>2, Parts DEF IsMax, visible
    <3>4. QED
      BY <2>3, <3>2, <3>3
  <2>6. sent'[n] = {} /\ {i \in committed : m < i /\ i <= m} = {}
    BY <1>0, <2>2, <2>3, Parts DEF PollerOK
  <2>7. Follows(n)'
    <3>1. \A i \in committed' : ~(i > poll'[n].rev)
      BY <1>0, <2>2, <2>3, <2>4, <2>5, Parts
    <3>2. \A w \in Writers : ~(start'[n] < tx'[w].id /\ tx'[w].id <= poll'[n].rev)
      BY <1>0, <2>2, <2>3, <2>4, Parts
    <3>3. start'[n] <= poll'[n].rev
      BY <2>3, <2>4
    <3>4. QED
      BY <2>2, <2>4, <2>6, <3>1, <3>2, <3>3 DEF Follows
  <2>8. PollerOK(n)'
    BY <1>0, <2>4, <2>7 DEF PollerOK
  <2>9. QED
    BY <1>1, <2>2, <2>4, <2>8
<1>3. ASSUME UNCHANGED <<events, fills, committed, tx, sent, start>>,
             NEW st \in {"wait", "read"}, poll[n].st # "off",
             poll' = [poll EXCEPT ![n].st = st]
      PROVE  Rows' /\ Held' /\ Pollers'
  <2>1. /\ poll'[n].st = st /\ poll'[n].rev = poll[n].rev
        /\ poll'[n].aged = poll[n].aged
        /\ \A m \in Nodes : m # n => poll'[m] = poll[m] /\ start'[m] = start[m]
    BY <1>0, <1>3, Parts DEF Poller
  <2>2. Follows(n)'
    BY <1>0, <1>3, <2>1 DEF PollerOK, Follows, Holding
  <2>3. PollerOK(n)'
    BY <1>0, <1>3, <2>1, <2>2 DEF PollerOK
  <2>4. QED
    BY <1>1, <1>3, <2>1, <2>3
<1>4. CASE PollWake(n)
  BY <1>3, <1>4 DEF PollWake, db, hist
<1>5. CASE PollError(n)
  BY <1>3, <1>5 DEF PollError, db, caches, hist
<1>6. CASE PollRead(n)
  <2>1. PICK B \in SUBSET {i \in visible : i > poll[n].rev} :
          poll' = [poll EXCEPT ![n] = [poll[n] EXCEPT
                     !.st = IF B = {} THEN "wait" ELSE "scan",
                     !.batch = B, !.found = B \cap events]]
    BY <1>6 DEF PollRead
  <2>2. poll[n].st = "read" /\ UNCHANGED <<events, fills, committed, tx, sent, start>>
    BY <1>6 DEF PollRead, db, hist
  <2>3. /\ poll'[n].st \in {"wait", "scan"}
        /\ poll'[n].rev = poll[n].rev /\ poll'[n].aged = poll[n].aged
        /\ poll'[n].batch = B /\ poll'[n].found = B \cap events
        /\ \A m \in Nodes : m # n => poll'[m] = poll[m] /\ start'[m] = start[m]
    BY <1>0, <2>1, <2>2, Parts DEF Poller
  <2>4. Follows(n)
    BY <1>0, <2>2 DEF PollerOK
  <2>5. Follows(n)'
    BY <2>2, <2>3, <2>4 DEF Follows, Holding
  <2>6. \A i \in B : i \in committed <=> i \in events
    BY <1>0, <2>1, <2>4 DEF Rows, Follows
  <2>7. \A i \in B : i > poll[n].rev /\ (i \in committed \/ i \in fills)
    BY <1>0, <2>1 DEF Rows, visible
  <2>8. BatchOK(n)'
    BY <2>2, <2>3, <2>6, <2>7 DEF BatchOK
  <2>9. PollerOK(n)'
    BY <1>0, <2>3, <2>5, <2>8 DEF PollerOK
  <2>10. QED
    BY <1>1, <2>2, <2>3, <2>9
<1>7. CASE SecondPasses(n)
  BY <1>7 DEF SecondPasses
<1>8. CASE QueryRevision(n) \/ CurrentRevision(n)
  <2>1. UNCHANGED <<events, fills, committed, tx, poll, start, sent>>
    BY <1>8 DEF QueryRevision, CurrentRevision, db, hist
  <2>2. QED
    BY <1>0, <2>1 DEF Rows, visible, Held, Holding, Pollers, PollerOK, Follows, BatchOK
<1>9. QED
  BY <1>2, <1>4, <1>5, <1>6, <1>7, <1>8, BatchSteps, HandlesDelivery, <1>0 DEF Poll

(* A compaction that stays behind the pollers and the open INSERTs. *)
LEMMA CompactDelivery ==
  ASSUME Stalls = FALSE, DeliveryInv, Compact
  PROVE  Rows' /\ Held' /\ Pollers'
<1>0. TypeOK /\ Bounds /\ Rows /\ Held /\ Pollers
  BY DEF DeliveryInv
<1>1. PICK target \in 1 .. seq :
        /\ \E m \in visible : IsMax(visible, m) /\ target <= m - MinRetain
        /\ \A n \in Nodes : poll[n].st # "off" => target <= poll[n].rev
        /\ \A w \in Writers : tx[w].st \in {"reserved", "inserted"} => target < tx[w].id
        /\ \E S \in SUBSET {i \in visible : FirstID < i /\ i <= target} :
             events' = events \ S /\ fills' = fills \ S
  BY DEF Compact
<1>2. UNCHANGED <<committed, tx, poll, start, sent>> /\ target \in Nat
  BY <1>0, Parts DEF Compact, hist
<1>3. /\ events' \subseteq events /\ fills' \subseteq fills
      /\ \A i \in events : ~(i <= target) => i \in events'
      /\ \A i \in fills : ~(i <= target) => i \in fills'
  BY <1>1
<1>4. PICK m \in visible : IsMax(visible, m) /\ target <= m - MinRetain
  BY <1>1
<1>5. m \in Nat /\ ~(m <= target)
  BY <1>0, <1>2, <1>4, Parts, PollAssumption DEF visible
<1>6. m \in visible'
  BY <1>3, <1>4, <1>5 DEF visible
<1>7. \A i \in committed : i <= m
  <2>1. SUFFICES ASSUME NEW i \in committed PROVE i <= m
    OBVIOUS
  <2>2. PICK j \in visible : i <= j
    BY <1>0 DEF Rows
  <2>3. j <= m /\ i \in Nat /\ j \in Nat
    BY <1>0, <1>4, <2>2, Parts DEF IsMax, visible
  <2>4. QED
    BY <1>5, <2>2, <2>3
<1>8. Rows'
  BY <1>0, <1>2, <1>3, <1>6, <1>7 DEF Rows
<1>9. Held'
  BY <1>0, <1>2, <1>3 DEF Held, Holding
<1>10. ASSUME NEW n \in Nodes PROVE PollerOK(n)'
  <2>1. PollerOK(n)
    BY <1>0 DEF Pollers
  <2>2. poll[n].st # "off" => Follows(n)'
    <3>1. SUFFICES ASSUME poll[n].st # "off" PROVE Follows(n)'
      OBVIOUS
    <3>2. Follows(n) /\ target <= poll[n].rev
      BY <1>1, <2>1, <3>1 DEF PollerOK
    <3>3. \A i \in committed : i > poll[n].rev => i \in events'
      <4>1. SUFFICES ASSUME NEW i \in committed, i > poll[n].rev PROVE i \in events'
        OBVIOUS
      <4>2. i \in events /\ i \in Nat
        BY <1>0, <3>2, <4>1, Parts DEF Follows
      <4>3. ~(i <= target)
        BY <1>0, <1>2, <3>2, <4>1, <4>2, Parts
      <4>4. QED
        BY <1>3, <4>2, <4>3
    <3>4. \A w \in Writers : Holding(w) /\ tx[w].id \in fills => tx[w].id \in fills'
      <4>1. SUFFICES ASSUME NEW w \in Writers, Holding(w), tx[w].id \in fills
                     PROVE  tx[w].id \in fills'
        OBVIOUS
      <4>2. ~(tx[w].id <= target)
        BY <1>0, <1>1, <1>2, <4>1, Parts DEF Holding
      <4>3. QED
        BY <1>3, <4>1, <4>2
    <3>5. QED
      BY <1>2, <3>2, <3>3, <3>4 DEF Follows, Holding
  <2>3. poll[n].st = "scan" => BatchOK(n)'
    <3>1. SUFFICES ASSUME poll[n].st = "scan" PROVE BatchOK(n)'
      OBVIOUS
    <3>2. BatchOK(n) /\ target <= poll[n].rev
      BY <1>1, <2>1, <3>1 DEF PollerOK
    <3>3. \A i \in poll[n].batch : i \in fills => i \in fills'
      <4>1. SUFFICES ASSUME NEW i \in poll[n].batch, i \in fills PROVE i \in fills'
        OBVIOUS
      <4>2. i > poll[n].rev /\ i \in Nat
        BY <1>0, <3>2, Parts DEF BatchOK
      <4>3. ~(i <= target)
        BY <1>0, <1>2, <3>2, <4>2, Parts
      <4>4. QED
        BY <1>3, <4>1, <4>3
    <3>4. QED
      BY <1>2, <3>2, <3>3 DEF BatchOK
  <2>4. QED
    BY <1>2, <2>1, <2>2, <2>3 DEF PollerOK
<1>11. QED
  BY <1>8, <1>9, <1>10 DEF Pollers

(* The invariant is inductive. *)
LEMMA DeliveryStep ==
  ASSUME SlowPoll = FALSE, Stalls = FALSE, DeliveryInv, [Next]_vars
  PROVE  DeliveryInv'
<1>1. TypeOK' /\ Bounds'
  BY PollTypeStep, BoundsStep DEF DeliveryInv
<1>2. Rows' /\ Held' /\ Pollers'
  <2>1. CASE UNCHANGED vars
    BY <2>1 DEF vars, DeliveryInv, Rows, visible, Held, Holding,
                Pollers, PollerOK, Follows, BatchOK
  <2>2. CASE Next
    BY <2>2, AppendDelivery, PollDelivery, CompactDelivery DEF Next
  <2>3. QED
    BY <2>1, <2>2
<1>3. QED
  BY <1>1, <1>2 DEF DeliveryInv

(***************************************************************************)
(* As long as no hole outlives a second and no compaction overtakes a      *)
(* poller or an open INSERT, every poll loop hands out exactly the events  *)
(* between its start and its revision, for any number of nodes, writers    *)
(* and rolled-back INSERTs.                                                *)
(***************************************************************************)
THEOREM DeliveryIsExact ==
  ASSUME SlowPoll = FALSE, Stalls = FALSE
  PROVE  Spec => []ExactDelivery
<1>1. DeliveryInv /\ [Next]_vars => DeliveryInv'
  BY DeliveryStep
<1>2. DeliveryInv => ExactDelivery
  BY DEF DeliveryInv, Pollers, PollerOK, Follows, ExactDelivery
<1>3. QED
  BY DeliveryInit, <1>1, <1>2, PTL DEF Spec
=============================================================================
