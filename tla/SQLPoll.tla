------------------------------ MODULE SQLPoll ------------------------------
(***************************************************************************)
(* How a committed row becomes an event on every kine node: SQLLog.Append, *)
(* the poll loop of pkg/logstructured/sqllog, the gap filling, and the     *)
(* cached current revision.                                                *)
(*                                                                         *)
(* PostgreSQL takes the id of a new row from a sequence when the INSERT    *)
(* begins; the row becomes visible when the transaction commits.  Ids are  *)
(* therefore visible out of order, and the id of a transaction that rolls  *)
(* back is never used.  A poller must tell the two apart: it delivers the  *)
(* rows in the order of their ids, without holes, waits for a missing id,  *)
(* and in the end inserts a fill row in its place.                         *)
(*                                                                         *)
(* A row is its id.  What the database keeps of an id is whether the row   *)
(* is an event or a fill; which rows a compaction takes is the subject of  *)
(* LogStructured, here it is any set of rows at or below its target.       *)
(***************************************************************************)
EXTENDS Integers, FiniteSets

CONSTANTS
  Nodes,          \* kine processes
  Writers,        \* goroutines in SQLLog.Append
  Home,           \* the node of every writer
  PollBatchSize,  \* --poll-batch-size
  MinRetain,      \* --compact-min-retain
  MaxRev,         \* bound of the model: the last id the sequence gives out
  SlowPoll,       \* may a hole be there a second after a poller noted it?
  Stalls          \* may a compaction overtake a poller or an open INSERT?

ASSUME PollAssumption ==
  /\ Home \in [Writers -> Nodes]
  /\ PollBatchSize \in Nat \ {0}
  /\ MinRetain \in Nat \ {0}
  /\ MaxRev \in Nat \ {0}
  /\ SlowPoll \in BOOLEAN
  /\ Stalls \in BOOLEAN

VARIABLES
  seq,        \* the sequence: the last id given out
  events,     \* ids of the visible rows that are events
  fills,      \* ids of the visible fill rows
  committed,  \* history: every id that was ever committed as an event
  tx,         \* per writer: its INSERT
  poll,       \* per node: the local variables of the poll loop
  currentRev, \* per node: SQLLog.currentRev, 0 when not loaded
  polledRev,  \* per node: SQLLog.polledRev
  query,      \* per node: the MAX(id) a CurrentRevision call has read, or 0
  start,      \* per node: history, the pollStart of its poll loop
  sent        \* per node: the events sent to the broadcaster

vars == <<seq, events, fills, committed, tx, poll, currentRev, polledRev, query,
          start, sent>>

(* The compact_rev_key row has the first id. *)
FirstID == 1

Tx == [st : {"idle", "begin", "reserved", "inserted", "committed"}, id : Nat, cur : Nat]

Poller == [st : {"off", "wait", "read", "scan"}, rev : Nat, skip : Nat,
           aged : BOOLEAN, batch : SUBSET Nat, found : SUBSET Nat]

TypeOK ==
  /\ seq \in Nat
  /\ events \in SUBSET Nat
  /\ fills \in SUBSET Nat
  /\ committed \in SUBSET Nat
  /\ tx \in [Writers -> Tx]
  /\ poll \in [Nodes -> Poller]
  /\ currentRev \in [Nodes -> Nat]
  /\ polledRev \in [Nodes -> Nat]
  /\ query \in [Nodes -> Nat]
  /\ start \in [Nodes -> Nat]
  /\ sent \in [Nodes -> SUBSET Nat]

Init ==
  /\ seq = FirstID
  /\ events = {FirstID}
  /\ fills = {}
  /\ committed = {FirstID}
  /\ tx = [w \in Writers |-> [st |-> "idle", id |-> 0, cur |-> 0]]
  /\ poll = [n \in Nodes |-> [st |-> "off", rev |-> 0, skip |-> 0,
                              aged |-> FALSE, batch |-> {}, found |-> {}]]
  /\ currentRev = [n \in Nodes |-> 0]
  /\ polledRev = [n \in Nodes |-> 0]
  /\ query = [n \in Nodes |-> 0]
  /\ start = [n \in Nodes |-> 0]
  /\ sent = [n \in Nodes |-> {}]

visible == events \cup fills

IsMax(S, m) == m \in S /\ \A i \in S : i <= m

(* Mutant of CAS: an unconditional Store. *)
StoreRev(n, old, new) == currentRev' = [currentRev EXCEPT ![n] = new]

(* CompareAndSwap on the cached revision of node n. *)
CAS(n, old, new) ==
  currentRev' = IF currentRev[n] = old THEN [currentRev EXCEPT ![n] = new]
                                       ELSE currentRev

db     == <<seq, events, fills, committed>>
caches == <<currentRev, polledRev, query>>
hist   == <<start, sent>>

-----------------------------------------------------------------------------
(* SQLLog.Append and Generic.Insert. *)

(* Append loads currentRev before it inserts. *)
AppendBegin(w) ==
  /\ tx[w].st = "idle"
  /\ tx' = [tx EXCEPT ![w] = [st |-> "begin", id |-> 0, cur |-> currentRev[Home[w]]]]
  /\ UNCHANGED <<db, poll, caches, hist>>

(* The INSERT takes its id from the sequence. *)
Reserve(w) ==
  /\ tx[w].st = "begin"
  /\ seq < MaxRev
  /\ seq' = seq + 1
  /\ tx' = [tx EXCEPT ![w] = [tx[w] EXCEPT !.st = "reserved", !.id = seq + 1]]
  /\ UNCHANGED <<events, fills, committed, poll, caches, hist>>

(***************************************************************************)
(* The row enters the primary key index.  If a poller has filled the id in *)
(* the meantime the INSERT fails on kine_pkey and Insert tries again, with *)
(* a new id.                                                               *)
(***************************************************************************)
IndexInsert(w) ==
  /\ tx[w].st = "reserved"
  /\ tx' = [tx EXCEPT ![w] = IF tx[w].id \in fills
                             THEN [tx[w] EXCEPT !.st = "begin", !.id = 0]
                             ELSE [tx[w] EXCEPT !.st = "inserted"]]
  /\ UNCHANGED <<db, poll, caches, hist>>

(* The INSERT commits: the row is visible to everyone. *)
Commit(w) ==
  /\ tx[w].st = "inserted"
  /\ events' = events \cup {tx[w].id}
  /\ committed' = committed \cup {tx[w].id}
  /\ tx' = [tx EXCEPT ![w].st = "committed"]
  /\ UNCHANGED <<seq, fills, poll, caches, hist>>

(* It commits and its answer is lost: Append returns an error. *)
CommitLost(w) ==
  /\ tx[w].st = "inserted"
  /\ events' = events \cup {tx[w].id}
  /\ committed' = committed \cup {tx[w].id}
  /\ tx' = [tx EXCEPT ![w] = [st |-> "idle", id |-> 0, cur |-> 0]]
  /\ UNCHANGED <<seq, fills, poll, caches, hist>>

(* It rolls back: a UNIQUE violation, a deadline, a lost connection. *)
Abort(w) ==
  /\ tx[w].st \in {"begin", "reserved", "inserted"}
  /\ tx' = [tx EXCEPT ![w] = [st |-> "idle", id |-> 0, cur |-> 0]]
  /\ UNCHANGED <<db, poll, caches, hist>>

(* Append returns the new revision. *)
AppendDone(w) ==
  /\ tx[w].st = "committed"
  /\ CAS(Home[w], tx[w].cur, tx[w].id)
  /\ tx' = [tx EXCEPT ![w] = [st |-> "idle", id |-> 0, cur |-> 0]]
  /\ UNCHANGED <<db, poll, polledRev, query, hist>>

(* CurrentRevision on a node that has no cached revision asks for MAX(id). *)
QueryRevision(n) ==
  /\ currentRev[n] = 0
  /\ query[n] = 0
  /\ \E lastRev \in visible :
       /\ IsMax(visible, lastRev)
       /\ query' = [query EXCEPT ![n] = lastRev]
  /\ UNCHANGED <<db, tx, poll, currentRev, polledRev, hist>>

(* It swaps what it read in, unless somebody else has been faster. *)
CurrentRevision(n) ==
  /\ query[n] # 0
  /\ CAS(n, 0, query[n])
  /\ query' = [query EXCEPT ![n] = 0]
  /\ UNCHANGED <<db, tx, poll, polledRev, hist>>

-----------------------------------------------------------------------------
(* SQLLog.startWatch and poll. *)

(* Mutant of startWatch: it starts two revisions before the newest row. *)
startWatchEarly(n) ==
  /\ poll[n].st = "off"
  /\ \E m \in visible :
       /\ IsMax(visible, m)
       /\ poll' = [poll EXCEPT ![n] = [poll[n] EXCEPT !.st = "wait", !.rev = m - 2]]
       /\ start' = [start EXCEPT ![n] = m - 2]
  /\ UNCHANGED <<db, tx, caches, sent>>

(* The first watch of a node starts its poll loop at MAX(id). *)
startWatch(n) ==
  /\ poll[n].st = "off"
  /\ \E m \in visible :
       /\ IsMax(visible, m)
       /\ poll' = [poll EXCEPT ![n] = [poll[n] EXCEPT !.st = "wait", !.rev = m]]
       /\ start' = [start EXCEPT ![n] = m]
  /\ UNCHANGED <<db, tx, caches, sent>>

(***************************************************************************)
(* The select ends: on a revision announced by an Append of this node or   *)
(* by another one, or on the ticker, which alone makes it always possible. *)
(***************************************************************************)
PollWake(n) ==
  /\ poll[n].st = "wait"
  /\ poll' = [poll EXCEPT ![n].st = "read"]
  /\ polledRev' = [polledRev EXCEPT ![n] = poll[n].rev]
  /\ UNCHANGED <<db, tx, currentRev, query, hist>>

(* The first PollBatchSize rows of S, a set of ids. *)
IsBatch(S, B) ==
  /\ B \subseteq S
  /\ \A i \in B : \A j \in S : j < i => j \in B
  /\ Cardinality(B) <= PollBatchSize
  /\ B # S => Cardinality(B) = PollBatchSize

(* After: the next batch of rows, or none. *)
PollRead(n) ==
  /\ poll[n].st = "read"
  /\ LET S == {i \in visible : i > poll[n].rev} IN
     \E B \in SUBSET S :
       /\ IsBatch(S, B)
       /\ poll' = [poll EXCEPT ![n] = [poll[n] EXCEPT
                     !.st = IF B = {} THEN "wait" ELSE "scan",
                     !.batch = B, !.found = B \cap events]]
  /\ UNCHANGED <<db, tx, caches, hist>>

(* The query fails; the loop waits for the next wake-up. *)
PollError(n) ==
  /\ poll[n].st = "read"
  /\ poll' = [poll EXCEPT ![n].st = "wait"]
  /\ UNCHANGED <<db, tx, caches, hist>>

(* Mutant of RunEnds: the holes are not looked at. *)
RunEndsAtLast(B, rev, last) ==
  /\ rev <= last
  /\ last \in B \cup {rev}
  /\ \A i \in B : i <= last

(* The rows of B that follow rev without a hole end at `last'. *)
RunEnds(B, rev, last) ==
  /\ rev <= last
  /\ \A i \in (rev + 1) .. last : i \in B
  /\ last + 1 \notin B

(* There are rows behind a hole at last + 1. *)
GapAfter(B, last) == \E i \in B : i > last

(* Mutant of Deliver: the noted hole is forgotten with every batch. *)
DeliverForgets(n, last, skip, aged) ==
  /\ sent' = [sent EXCEPT ![n] = @ \cup {i \in poll[n].found : i <= last}]
  /\ IF last > poll[n].rev THEN CAS(n, poll[n].rev, last) ELSE UNCHANGED currentRev
  /\ poll' = [poll EXCEPT ![n] = [st |-> "wait", rev |-> last, skip |-> 0,
                                  aged |-> aged, batch |-> {}, found |-> {}]]

(***************************************************************************)
(* The sequential rows are sent, fills left out, the revisions are saved,  *)
(* and the loop waits again.                                               *)
(***************************************************************************)
Deliver(n, last, skip, aged) ==
  /\ sent' = [sent EXCEPT ![n] = @ \cup {i \in poll[n].found : i <= last}]
  /\ IF last > poll[n].rev THEN CAS(n, poll[n].rev, last) ELSE UNCHANGED currentRev
  /\ poll' = [poll EXCEPT ![n] = [st |-> "wait", rev |-> last, skip |-> skip,
                                  aged |-> aged, batch |-> {}, found |-> {}]]

(* No hole in the batch. *)
PollScan(n) ==
  /\ poll[n].st = "scan"
  /\ \E last \in poll[n].rev .. seq :
       /\ RunEnds(poll[n].batch, poll[n].rev, last)
       /\ ~GapAfter(poll[n].batch, last)
       /\ Deliver(n, last, poll[n].skip, poll[n].aged)
  /\ UNCHANGED <<db, tx, polledRev, query, start>>

(* A hole met for the first time: remember it and try again soon. *)
PollGap(n) ==
  /\ poll[n].st = "scan"
  /\ \E last \in poll[n].rev .. seq :
       /\ RunEnds(poll[n].batch, poll[n].rev, last)
       /\ GapAfter(poll[n].batch, last)
       /\ poll[n].skip # last + 1
       /\ Deliver(n, last, last + 1, FALSE)
  /\ UNCHANGED <<db, tx, polledRev, query, start>>

(***************************************************************************)
(* The hole is still there within a second: insert a fill row.  The INSERT *)
(* waits for a transaction that has the id in the index; it fails when the *)
(* id is taken, or for any other reason.                                   *)
(***************************************************************************)
PollFill(n) ==
  /\ poll[n].st = "scan"
  /\ \E last \in poll[n].rev .. seq :
       /\ RunEnds(poll[n].batch, poll[n].rev, last)
       /\ GapAfter(poll[n].batch, last)
       /\ poll[n].skip = last + 1
       /\ ~poll[n].aged
       /\ \/ /\ last + 1 \notin visible
             /\ \A w \in Writers : ~(tx[w].st = "inserted" /\ tx[w].id = last + 1)
             /\ fills' = fills \cup {last + 1}
          \/ UNCHANGED fills
       /\ Deliver(n, last, poll[n].skip, poll[n].aged)
  /\ UNCHANGED <<seq, events, committed, tx, polledRev, query, start>>

(***************************************************************************)
(* canSkipRevision: the hole is older than a second.  The loop steps over  *)
(* it and goes on behind it, up to the next hole, which is a new one.      *)
(***************************************************************************)
PollSkip(n) ==
  /\ poll[n].st = "scan"
  /\ \E last \in poll[n].rev .. seq, next \in poll[n].batch :
     \E last2 \in next .. seq :
       LET B == poll[n].batch IN
       /\ RunEnds(B, poll[n].rev, last)
       /\ next > last
       /\ \A i \in B : i > last => i >= next
       /\ poll[n].skip = last + 1
       /\ poll[n].aged
       /\ RunEnds(B, next, last2)
       /\ IF GapAfter(B, last2) THEN Deliver(n, last2, last2 + 1, FALSE)
                                ELSE Deliver(n, last2, poll[n].skip, TRUE)
  /\ UNCHANGED <<db, tx, polledRev, query, start>>

(***************************************************************************)
(* A second has passed since the hole was noted: queries were slow, or the *)
(* fills failed.  "This situation should never happen" (the comment on the *)
(* fallback) is the assumption ~SlowPoll.                                  *)
(***************************************************************************)
SecondPasses(n) ==
  /\ SlowPoll
  /\ poll[n].skip # 0
  /\ ~poll[n].aged
  /\ poll' = [poll EXCEPT ![n].aged = TRUE]
  /\ UNCHANGED <<db, tx, caches, hist>>

-----------------------------------------------------------------------------
(***************************************************************************)
(* A compaction, of any node.  Without Stalls it stays behind every poller *)
(* and every open INSERT: the retained revisions cover their delays.       *)
(***************************************************************************)
Compact ==
  \E target \in 1 .. seq :
    /\ \E m \in visible : IsMax(visible, m) /\ target <= m - MinRetain
    /\ Stalls \/ /\ \A n \in Nodes : poll[n].st # "off" => target <= poll[n].rev
                 /\ \A w \in Writers : tx[w].st \in {"reserved", "inserted"} =>
                                         target < tx[w].id
    /\ \E S \in SUBSET {i \in visible : FirstID < i /\ i <= target} :
         events' = events \ S /\ fills' = fills \ S
    /\ UNCHANGED <<seq, committed, tx, poll, caches, hist>>

-----------------------------------------------------------------------------
Append(w) ==
  \/ AppendBegin(w) \/ Reserve(w) \/ IndexInsert(w)
  \/ Commit(w) \/ CommitLost(w) \/ Abort(w) \/ AppendDone(w)

Poll(n) ==
  \/ startWatch(n) \/ PollWake(n) \/ PollRead(n) \/ PollError(n)
  \/ PollScan(n) \/ PollGap(n) \/ PollFill(n) \/ PollSkip(n)
  \/ SecondPasses(n) \/ QueryRevision(n) \/ CurrentRevision(n)

Next ==
  \/ \E w \in Writers : Append(w)
  \/ \E n \in Nodes : Poll(n)
  \/ Compact

Spec == Init /\ [][Next]_vars

(***************************************************************************)
(* Fairness: the ticker fires and the loop goes on; a query and a fill     *)
(* that keep being tried succeed from time to time; an open INSERT ends.   *)
(***************************************************************************)
Fairness ==
  /\ \A n \in Nodes :
       /\ WF_vars(PollWake(n)) /\ SF_vars(PollRead(n))
       /\ WF_vars(PollScan(n)) /\ WF_vars(PollGap(n)) /\ WF_vars(PollSkip(n))
       /\ WF_vars(PollFill(n)) /\ SF_vars(PollFill(n) /\ fills' # fills)
  /\ \A w \in Writers : WF_vars(Commit(w) \/ Abort(w))

FairSpec == Spec /\ Fairness

-----------------------------------------------------------------------------
(* Properties. *)

(***************************************************************************)
(* What a node has handed to its watches is exactly the committed events   *)
(* from the start of its poll loop to the poller's revision: no event is   *)
(* passed over because its transaction was still open, or because somebody *)
(* filled or compacted its id, and no fill row is ever handed out.         *)
(***************************************************************************)
ExactDelivery == \A n \in Nodes : poll[n].st # "off" =>
  sent[n] = {i \in committed : start[n] < i /\ i <= poll[n].rev}

(***************************************************************************)
(* The cached current revision never goes back, whichever of Append, poll  *)
(* and CurrentRevision swap it, in whatever order their loads and their    *)
(* compare-and-swaps happen.                                               *)
(***************************************************************************)
CacheMonotone == [][\A n \in Nodes : currentRev'[n] >= currentRev[n]]_vars

(***************************************************************************)
(* Append's comment: when its compare-and-swap fails, "currentRev may have *)
(* moved ahead due to other inserts".  When Append returns, the cached     *)
(* revision is its own or a later one.                                     *)
(***************************************************************************)
AckedIsCurrent ==
  [][\A w \in Writers : tx[w].st = "committed" /\ tx'[w].st = "idle" =>
       currentRev'[Home[w]] >= tx[w].id]_vars

(***************************************************************************)
(* Every event committed above the start of a poll loop is eventually      *)
(* handed out, over the holes that rolled-back INSERTs leave in the ids.   *)
(***************************************************************************)
EventsReachWatches == \A n \in Nodes, i \in 1 .. MaxRev :
  i \in committed /\ poll[n].st # "off" /\ start[n] < i ~> i \in sent[n]
=============================================================================
