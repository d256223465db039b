--------------------------- MODULE LogStructured ---------------------------
(***************************************************************************)
(* The write path and the compaction of the SQL backends:                  *)
(* pkg/logstructured (Create, Update, Delete) over pkg/logstructured/sqllog*)
(* (Append, compactor, compactIter, compact).                              *)
(*                                                                         *)
(* A write is two database statements with nothing held in between: a read *)
(* of the key's newest row and an INSERT that names that row as its        *)
(* prev_revision.  The UNIQUE index on (name, prev_revision) turns the     *)
(* INSERT into a compare-and-swap.  Several kine nodes write to and        *)
(* compact the same table, so a compaction may run between the two         *)
(* statements of any write.                                                *)
(***************************************************************************)
EXTENDS KineTable

CONSTANTS
  Clients,           \* requests in flight, on any node
  Nodes,             \* kine processes, each with a compactor
  ManualNodes,       \* those with --compact-interval 0: they compact when asked
  CompactMinRetain,  \* --compact-min-retain
  CompactBatchSize,  \* --compact-batch-size
  InFlightLag,       \* revisions that may pass while a write is in flight
  MaxRev,            \* bound of the model: no write past this revision
  TombstoneRace,     \* may a compaction delete the tombstone that a Create
                     \* in flight has read?
  AckLoss,           \* may the answer to an INSERT that committed get lost
                     \* for Update and Delete?
  RetriesEnd,        \* may an INSERT meet a fill row on the primary key in
                     \* all its 20 attempts?
  NoOp,              \* the client has no write in flight
  NoKey

(***************************************************************************)
(* The compare-and-swap is only as good as the index: a write that stays   *)
(* in flight while more than CompactMinRetain revisions pass may find the  *)
(* conflicting row compacted.  InFlightLag names that timing assumption    *)
(* (1000 revisions with the default flags).                                *)
(***************************************************************************)
ASSUME RetainAssumption ==
  /\ CompactMinRetain \in Nat \ {0}
  /\ CompactBatchSize \in Nat \ {0}
  /\ InFlightLag \in Nat
  /\ InFlightLag <= CompactMinRetain
  /\ MaxRev \in Nat
  /\ TombstoneRace \in BOOLEAN
  /\ AckLoss \in BOOLEAN
  /\ RetriesEnd \in BOOLEAN
  /\ NoOp \notin [op : {"create", "update", "delete"}, key : Keys, prev : Nat,
                  createRev : Nat, read : Nat]
  /\ NoOp \notin [op : {"create", "update", "delete"}, key : Keys, exp : Nat]

VARIABLES
  rows,        \* the kine table
  seq,         \* the last id the database assigned
  compactRev,  \* prev_revision of the compact_rev_key row
  pend,        \* per client: the write between its read and its INSERT
  resp,        \* the last answer a client got
  lost,        \* history: the clients whose key was written since their read
  cmp          \* per node: the state of the compactor goroutine

vars == <<rows, seq, compactRev, pend, resp, lost, cmp>>

Pending == [op : {"create", "update", "delete"}, key : Keys, prev : Nat,
            createRev : Nat, read : Nat]

Answers == [op : {"create", "update", "delete", "none"}, key : Keys \cup {NoKey},
            ans : {"none", "ok", "failed", "exists", "error"}]

Compactor == [running : BOOLEAN, compactRev : Nat, target : Nat,
              iter : Nat, compacted : Nat, current : Nat]

TypeOK ==
  /\ rows \in SUBSET Row
  /\ seq \in Nat
  /\ compactRev \in Nat
  /\ pend \in [Clients -> Pending \cup {NoOp}]
  /\ resp \in Answers
  /\ lost \in SUBSET Clients
  /\ cmp \in [Nodes -> Compactor]

(***************************************************************************)
(* A new database holds the compact_rev_key row only, and every compactor  *)
(* starts from its revisions (compactStart, first lines of compactor).     *)
(***************************************************************************)
Init ==
  /\ rows = {}
  /\ seq = CompactRevKeyID
  /\ compactRev = 0
  /\ pend = [c \in Clients |-> NoOp]
  /\ resp = [op |-> "none", key |-> NoKey, ans |-> "none"]
  /\ lost = {}
  /\ cmp = [n \in Nodes |-> [running |-> FALSE, compactRev |-> 0,
                             target |-> CompactRevKeyID, iter |-> 0,
                             compacted |-> 0, current |-> 0]]

-----------------------------------------------------------------------------
(* Writes: LogStructured.Create, Update and Delete. *)

Answer(op, k, a) == resp' = [op |-> op, key |-> k, ans |-> a]

(* The write goes on to its INSERT, after the row with revision prev. *)
Start(c, op, k, prev, createRev) ==
  /\ pend' = [pend EXCEPT ![c] = [op |-> op, key |-> k, prev |-> prev,
                                  createRev |-> createRev,
                                  read |-> CurrentRevision(rows)]]
  /\ Answer("none", NoKey, "none")

(* The first read of a write fails, and the write with it. *)
GetError(c, k) ==
  /\ pend[c] = NoOp
  /\ \E op \in {"create", "update", "delete"} : Answer(op, k, "error")
  /\ UNCHANGED <<rows, seq, compactRev, pend, lost, cmp>>

(***************************************************************************)
(* Create reads the key with its tombstone.  A live key ends the call with *)
(* ErrKeyExists; the new row follows the tombstone, or nothing.            *)
(***************************************************************************)
CreateGet(c, k) ==
  /\ pend[c] = NoOp
  /\ \/ \E r \in Latest(rows, k) :
          \/ /\ ~r.deleted
             /\ Answer("create", k, "exists")
             /\ UNCHANGED pend
          \/ r.deleted /\ Start(c, "create", k, r.id, 0)
     \/ Latest(rows, k) = {} /\ Start(c, "create", k, 0, 0)
  /\ UNCHANGED <<rows, seq, compactRev, lost, cmp>>

(***************************************************************************)
(* Delete with the caller's revision (0: any).  A key without a row counts *)
(* as deleted, a tombstone and another revision do not.                    *)
(***************************************************************************)
DeleteGet(c, k, revision) ==
  /\ pend[c] = NoOp
  /\ \/ \E r \in Latest(rows, k) :
          IF ~r.deleted /\ revision \in {0, r.id}
          THEN Start(c, "delete", k, r.id, 0)
          ELSE Answer("delete", k, "failed") /\ UNCHANGED pend
     \/ /\ Latest(rows, k) = {}
        /\ Answer("delete", k, "ok")
        /\ UNCHANGED pend
  /\ UNCHANGED <<rows, seq, compactRev, lost, cmp>>

(* Update with the caller's revision; it does not see tombstones. *)
UpdateGet(c, k, revision) ==
  /\ pend[c] = NoOp
  /\ IF \E r \in Latest(rows, k) : ~r.deleted /\ r.id = revision
     THEN \E r \in Latest(rows, k) :
            Start(c, "update", k, r.id, CreateRevision(r))
     ELSE Answer("update", k, "failed") /\ UNCHANGED pend
  /\ UNCHANGED <<rows, seq, compactRev, lost, cmp>>

(* Mutant of NewRow: Update does not carry the create revision over. *)
NewRowLosesCreate(p) ==
  [id |-> seq + 1, name |-> p.key, created |-> p.op = "create",
   deleted |-> p.op = "delete", createRev |-> 0, prev |-> p.prev]

(* The row that Append hands to Insert for the write p. *)
NewRow(p) ==
  [id |-> seq + 1, name |-> p.key, created |-> p.op = "create",
   deleted |-> p.op = "delete", createRev |-> p.createRev, prev |-> p.prev]

(* The INSERT commits: the database assigns the next id. *)
Insert(c) ==
  /\ seq < MaxRev
  /\ seq - pend[c].read <= InFlightLag
  /\ ~Conflict(rows, pend[c].key, pend[c].prev)
  /\ rows' = rows \cup {NewRow(pend[c])}
  /\ seq' = seq + 1
  /\ lost' = (lost \ {c}) \cup
               {d \in Clients \ {c} : pend[d] # NoOp /\ pend[d].key = pend[c].key}
  /\ pend' = [pend EXCEPT ![c] = NoOp]
  /\ UNCHANGED <<compactRev, cmp>>

(* Append succeeds and the client is told so. *)
Append(c) ==
  /\ pend[c] # NoOp
  /\ Insert(c)
  /\ Answer(pend[c].op, pend[c].key, "ok")

(***************************************************************************)
(* What the client is told when Append returns an error.  Create returns   *)
(* the error, a UNIQUE violation translated to ErrKeyExists.  Update and   *)
(* Delete take any error for a UNIQUE violation: they read the key again   *)
(* and answer that the write did not happen.  That second read may fail as *)
(* well: Update then returns its error, Delete swallows it.                *)
(***************************************************************************)
AppendFailed(c, unique) ==
  \/ /\ pend[c].op = "create"
     /\ Answer("create", pend[c].key, IF unique THEN "exists" ELSE "error")
  \/ /\ pend[c].op # "create"
     /\ Answer(pend[c].op, pend[c].key, "failed")
  \/ /\ pend[c].op = "update"
     /\ Answer("update", pend[c].key, "error")

GiveUp(c) ==
  /\ pend' = [pend EXCEPT ![c] = NoOp]
  /\ lost' = lost \ {c}
  /\ UNCHANGED <<rows, seq, compactRev, cmp>>

(* The INSERT meets the UNIQUE index. *)
AppendConflict(c) ==
  /\ pend[c] # NoOp
  /\ Conflict(rows, pend[c].key, pend[c].prev)
  /\ AppendFailed(c, TRUE)
  /\ GiveUp(c)

(***************************************************************************)
(* The INSERT fails for another reason (connection, deadline).  One that   *)
(* met a fill row on the primary key 20 times ends as a UNIQUE violation   *)
(* too: the translation does not tell the two indexes apart.               *)
(***************************************************************************)
AppendError(c) ==
  /\ pend[c] # NoOp
  /\ \E unique \in (IF RetriesEnd THEN BOOLEAN ELSE {FALSE}) : AppendFailed(c, unique)
  /\ GiveUp(c)

(* The INSERT commits and its answer is lost: Append returns an error. *)
AppendAckLost(c) ==
  /\ pend[c] # NoOp
  /\ pend[c].op = "create" \/ AckLoss
  /\ Insert(c)
  /\ AppendFailed(c, FALSE)

-----------------------------------------------------------------------------
(* Compaction: SQLLog.compactor, compactIter and compact. *)

(* Mutant of safeCompactRev: --compact-min-retain is not subtracted. *)
safeCompactRevNoRetain(target, current) == IF target < current THEN target ELSE current

(* Never compact the newest compactMinRetain revisions. *)
safeCompactRev(target, current) ==
  LET safeRev == IF target < current - CompactMinRetain
                 THEN target ELSE current - CompactMinRetain
  IN  IF safeRev < 0 THEN 0 ELSE safeRev

(* The ticker of compactor fires: compactIter sets its loop variables up. *)
CompactTick(n) ==
  /\ n \notin ManualNodes
  /\ ~cmp[n].running
  /\ cmp' = [cmp EXCEPT ![n].running = TRUE,
                        ![n].iter = cmp[n].compactRev,
                        ![n].compacted = cmp[n].compactRev,
                        ![n].current = 0]
  /\ UNCHANGED <<rows, seq, compactRev, pend, resp, lost>>

(***************************************************************************)
(* SQLLog.Compact on a node without automatic compaction: compactIter runs *)
(* from the database's compact revision to the requested one.              *)
(***************************************************************************)
CompactRequest(n, target) ==
  /\ n \in ManualNodes
  /\ ~cmp[n].running
  /\ target <= CurrentRevision(rows)
  /\ target > compactRev
  /\ cmp' = [cmp EXCEPT ![n] = [running |-> TRUE, compactRev |-> compactRev,
                                target |-> target, iter |-> compactRev,
                                compacted |-> compactRev, current |-> 0]]
  /\ UNCHANGED <<rows, seq, compactRev, pend, resp, lost>>

(* The result of one compact() as compactIter keeps it. *)
Noted(m, compacted, current) ==
  IF compacted # 0 /\ current # 0
  THEN [m EXCEPT !.compacted = compacted, !.current = current]
  ELSE m

(* Mutant of Ended: the current revision is not kept as the next target. *)
EndedSameTarget(m) ==
  IF m.current > 0
  THEN [m EXCEPT !.running = FALSE, !.compactRev = m.compacted]
  ELSE [m EXCEPT !.running = FALSE]

(* The loop of compactIter ends: its results go back to compactor. *)
Ended(m) ==
  IF m.current > 0
  THEN [m EXCEPT !.running = FALSE, !.compactRev = m.compacted, !.target = m.current]
  ELSE [m EXCEPT !.running = FALSE]

(* Mutant of NextIter: the batch is taken off instead of added. *)
NextIterBack(m) ==
  IF m.iter + CompactBatchSize > m.target THEN m.target
                                          ELSE m.iter - CompactBatchSize

(* The next batch of the loop. *)
NextIter(m) ==
  IF m.iter + CompactBatchSize > m.target THEN m.target
                                          ELSE m.iter + CompactBatchSize

(* The transaction of compact() moves the compact revision to target. *)
CompactTx(target) ==
  /\ TombstoneRace \/
       \A c \in Clients : pend[c] # NoOp /\ pend[c].op = "create" =>
                            pend[c].prev \notin CompactedIds(rows, target)
  /\ rows' = Compacted(rows, target)
  /\ compactRev' = target

(***************************************************************************)
(* One turn of the loop: a batch in a serializable transaction.            *)
(***************************************************************************)
CompactBatch(n) ==
  LET m       == [cmp[n] EXCEPT !.iter = NextIter(cmp[n])]
      current == CurrentRevision(rows)
      target  == safeCompactRev(m.iter, current)
  IN  /\ cmp[n].running
      /\ cmp[n].iter < cmp[n].target
      /\ m.compacted = compactRev
      /\ target > m.compacted
      /\ CompactTx(target)
      /\ cmp' = [cmp EXCEPT ![n] = Noted(m, target, current)]
      /\ UNCHANGED <<seq, pend, resp, lost>>

(***************************************************************************)
(* ErrCompacted: another node moved the compact revision, or the target is *)
(* not above it.  compact() returns what the database holds.               *)
(***************************************************************************)
CompactStale(n) ==
  LET m       == [cmp[n] EXCEPT !.iter = NextIter(cmp[n])]
      current == CurrentRevision(rows)
      target  == safeCompactRev(m.iter, current)
  IN  /\ cmp[n].running
      /\ cmp[n].iter < cmp[n].target
      /\ m.compacted # compactRev \/ target <= m.compacted
      /\ cmp' = [cmp EXCEPT ![n] = Ended(Noted(m, compactRev, current))]
      /\ UNCHANGED <<rows, seq, compactRev, pend, resp, lost>>

(* Any other error rolls the transaction back and ends the loop. *)
CompactError(n) ==
  /\ cmp[n].running
  /\ cmp[n].iter < cmp[n].target
  /\ cmp' = [cmp EXCEPT ![n] = Ended([cmp[n] EXCEPT !.iter = NextIter(cmp[n])])]
  /\ UNCHANGED <<rows, seq, compactRev, pend, resp, lost>>

(* The loop has reached the target. *)
CompactDone(n) ==
  /\ cmp[n].running
  /\ cmp[n].iter >= cmp[n].target
  /\ cmp' = [cmp EXCEPT ![n] = Ended(cmp[n])]
  /\ UNCHANGED <<rows, seq, compactRev, pend, resp, lost>>

-----------------------------------------------------------------------------
Write(c) ==
  \/ \E k \in Keys :
       \/ GetError(c, k)
       \/ CreateGet(c, k)
       \/ \E revision \in 0 .. seq : DeleteGet(c, k, revision)
       \/ \E revision \in 0 .. seq : UpdateGet(c, k, revision)
  \/ Append(c)
  \/ AppendConflict(c)
  \/ AppendError(c)
  \/ AppendAckLost(c)

Compact(n) ==
  \/ CompactTick(n)
  \/ \E target \in 1 .. seq : CompactRequest(n, target)
  \/ CompactBatch(n)
  \/ CompactStale(n)
  \/ CompactError(n)
  \/ CompactDone(n)

Next ==
  \/ \E c \in Clients : Write(c)
  \/ \E n \in Nodes : Compact(n)

Spec == Init /\ [][Next]_vars

(***************************************************************************)
(* Fairness: the ticker fires, the loop goes on, and a database that keeps *)
(* being asked answers a batch from time to time.  Nothing is assumed of   *)
(* the clients.                                                            *)
(***************************************************************************)
Fairness == \A n \in Nodes :
  /\ WF_vars(CompactTick(n))
  /\ WF_vars(CompactDone(n))
  /\ SF_vars(CompactStale(n))
  /\ SF_vars(CompactBatch(n))

FairSpec == Spec /\ Fairness

-----------------------------------------------------------------------------
(* Properties. *)

(***************************************************************************)
(* The rows of a key form one chain: of two rows of a key, the newer one   *)
(* was inserted after a read that saw the older one or a successor of it.  *)
(* It fails if two writes that read the same row both commit, at once or   *)
(* after a compaction has removed the row they would collide with.         *)
(***************************************************************************)
LinearHistory ==
  \A r, s \in rows : r.name = s.name /\ s.id < r.id => s.id <= r.prev

(***************************************************************************)
(* A write in flight, as long as the timing assumption covers it, finds in *)
(* the table what its compare-and-swap needs: the row it read is there,    *)
(* nothing of its key lies between that row and its read, and once the key *)
(* has been written since, a row with its (name, prev_revision) is there   *)
(* to collide with, whatever the compactors have removed.                  *)
(***************************************************************************)
Timely(c) == pend[c] # NoOp /\ seq - pend[c].read <= InFlightLag

PendingProtected == \A c \in Clients : Timely(c) =>
  LET p == pend[c] IN
  /\ p.prev <= p.read /\ p.read <= seq
  /\ p.prev # 0 => \E r \in rows : /\ r.id = p.prev /\ r.name = p.key
                                   /\ r.deleted = (p.op = "create")
  /\ \A r \in rows : r.name = p.key => r.id <= p.prev \/ r.id > p.read
  /\ (\E r \in rows : r.name = p.key /\ r.id > p.read) =>
       Conflict(rows, p.key, p.prev)

(***************************************************************************)
(* The current revision, MAX(id), never falls behind the last id the       *)
(* database assigned: compaction leaves the newest row alone even when it  *)
(* is a tombstone.                                                         *)
(***************************************************************************)
HeadRetained == CurrentRevision(rows) = seq

(***************************************************************************)
(* A List at a revision that is not compacted returns the same rows        *)
(* whenever it is asked: later writes do not show, and a compaction        *)
(* neither drops a row that is still visible there nor brings back one     *)
(* that a removed tombstone was hiding.                                    *)
(***************************************************************************)
SnapshotStable ==
  [][\A rev \in compactRev' .. seq : ListAt(rows', rev) = ListAt(rows, rev)]_vars

(***************************************************************************)
(* A watch that starts at or above the compact revision finds every event  *)
(* after its start in the table: compaction only takes rows at or below    *)
(* the compact revision it records in the same transaction.                *)
(***************************************************************************)
EventsRetained ==
  [][After(rows, compactRev') \subseteq After(rows', compactRev')]_vars

(***************************************************************************)
(* Refinement: the table implements the atomic revisioned store.  The live *)
(* keys are the newest rows that are not tombstones.                       *)
(***************************************************************************)
LiveKV ==
  {[key |-> r.name, mod |-> r.id, create |-> CreateRevision(r)] :
     r \in ListAt(rows, seq)}

AbsRequest(c) ==
  IF pend[c] = NoOp THEN NoOp
  ELSE [op |-> pend[c].op, key |-> pend[c].key,
        exp |-> IF pend[c].op = "create" THEN 0 ELSE pend[c].prev]

KV == INSTANCE RevisionedKV WITH
        kv <- LiveKV, rev <- seq, req <- [c \in Clients |-> AbsRequest(c)],
        InitRev <- CompactRevKeyID, NoRequest <- NoOp

(***************************************************************************)
(* Every behaviour of the two-statement writes and the compactors is one   *)
(* of the atomic store: a write takes effect only if its condition holds   *)
(* at that instant, "ok" means it did and "failed" or "exists" that it did *)
(* not, create revisions survive updates, and compaction is invisible.     *)
(***************************************************************************)
AtomicWrites == KV!Spec

(***************************************************************************)
(* An Update or a Delete that is answered "not written" has not written:   *)
(* what Delete's comment on a failed Append says of it.                    *)
(***************************************************************************)
RefusedNotWritten == [][resp'.ans = "failed" /\ resp' # resp => rows' = rows]_vars

(***************************************************************************)
(* Once the writes stop, every revision but the retained ones is           *)
(* eventually compacted, whatever the nodes do to each other's batches.    *)
(***************************************************************************)
CompactionCatchesUp ==
  []<>(seq - compactRev <= CompactMinRetain \/ seq < MaxRev)

=============================================================================
