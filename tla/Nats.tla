-------------------------------- MODULE Nats --------------------------------
(***************************************************************************)
(* pkg/drivers/nats: a JetStream key-value bucket, an index of it in       *)
(* memory (the btree) that a consumer of the stream keeps, read-after-     *)
(* write by waiting for that consumer, deletes in two messages, leases in  *)
(* a heap, compaction as a message, and watches by consumers.              *)
(*                                                                         *)
(* The stream is a sequence: a message's index is its revision.  JetStream *)
(* checks the last revision of a key when it appends, and keeps the last   *)
(* History messages of every key.  kine may crash; what is in memory is    *)
(* lost then.                                                              *)
(***************************************************************************)
EXTENDS Integers, Sequences, FiniteSets, FiniteSetsExt

CONSTANTS
  Keys, CompactKey,   \* compactRevAPI
  Clients, Expirer,   \* requests of clients, and the goroutine of the ExpireWatcher
  History,            \* revHistory
  MaxSeq,             \* bound of the model: the last revision
  MaxClientSeq,       \* bound of the model: clients begin up to this revision
  MaxCompactSeq,      \* bound of the model: a compaction begins up to this revision
  MaxFaults,          \* bound of the model: crashes and failures of consumers
  RequestFails,       \* may a request to the NATS server fail?
  WaitTimeout,        \* may waitForSequence time out?
  OtherNodes          \* may another kine be ahead of this one's consumer?

ASSUME NatsAssumption ==
  /\ Keys # {} /\ CompactKey \notin Keys /\ Expirer \notin Clients
  /\ History \in Nat \ {0}
  /\ MaxSeq \in Nat /\ MaxClientSeq \in Nat /\ MaxCompactSeq \in Nat /\ MaxFaults \in Nat
  /\ {RequestFails, WaitTimeout, OtherNodes} \subseteq BOOLEAN

VARIABLES
  stream,      \* the messages of the bucket
  bt, lastSeq, \* the btree, and the last revision in it
  consumer,    \* the consumer of btreeWatcher: its position, its targetSeq, isStartupReplay
  ready,       \* readyCh is closed: requests are served
  compactRev, compactSeen,  \* compactRev, and the position of compactWatcher
  compactor,   \* a call of Compact: its step, its target, and the revision it waits for
  heap,        \* the entries of the ExpireHeap
  req,         \* the requests
  watch,       \* a watch: its start, its position, and what it has sent
  acked,       \* history: the last revision whose write was acknowledged
  faults       \* the crashes so far, and the failures of consumers

index == <<bt, lastSeq, consumer, ready>>
compaction == <<compactRev, compactSeen, compactor>>
vars == <<stream, index, compaction, heap, req, watch, acked, faults>>

Callers == Clients \cup {Expirer}
AllKeys == Keys \cup {CompactKey}
Seqs == 0 .. MaxSeq

(* op: a natsData, one with Delete set (the tombstone), or the delete marker of the bucket. *)
Message == [key : AllKeys, op : {"put", "tomb", "del"}, leased : BOOLEAN, rev : Seqs]

IdleReq == [st |-> "idle", op |-> "create", key |-> CHOOSE k \in Keys : TRUE, leased |-> FALSE, last |-> 0, seq |-> 0]

NotCompacting == [st |-> "idle", target |-> 0, seq |-> 0]

NoWatch == [on |-> FALSE, start |-> 0, pos |-> 0, sent |-> {}]

TypeOK ==
  /\ stream \in Seq(Message) /\ Len(stream) <= MaxSeq
  /\ bt \in [AllKeys -> Seq([seq : Seqs, op : {"put", "tomb", "del"}])] /\ \A k \in AllKeys : Len(bt[k]) <= History
  /\ lastSeq \in Seqs
  /\ consumer \in [pos : 1 .. MaxSeq + 1, target : Seqs, startup : BOOLEAN]
  /\ ready \in BOOLEAN
  /\ compactRev \in Seqs /\ compactSeen \in Seqs
  /\ compactor \in [st : {"idle", "read"}, target : Seqs, seq : Seqs]
  /\ heap \subseteq [key : Keys, seq : Seqs]
  /\ req \in [Callers -> [st : {"idle", "get", "write", "wait", "marker", "history"}, op : {"create", "update", "delete"}, key : Keys,
                          leased : BOOLEAN, last : Seqs, seq : Seqs]]
  /\ watch \in [on : BOOLEAN, start : 0 .. MaxSeq + 1, pos : 0 .. MaxSeq + 1, sent : SUBSET Seqs]
  /\ acked \in Seqs /\ faults \in [crashes : 0 .. MaxFaults, errors : 0 .. MaxFaults]

(* What a process has in memory when it starts on the stream s. *)
Started(s) ==
  /\ bt' = [k \in AllKeys |-> <<>>] /\ lastSeq' = 0
  /\ consumer' = [pos |-> 1, target |-> Len(s), startup |-> s # <<>>]
  /\ ready' = (s = <<>>)
  /\ compactRev' = 0 /\ compactSeen' = 0 /\ compactor' = NotCompacting
  /\ heap' = {} /\ req' = [c \in Callers |-> IdleReq] /\ watch' = NoWatch

Init ==
  /\ stream = <<>>
  /\ bt = [k \in AllKeys |-> <<>>] /\ lastSeq = 0
  /\ consumer = [pos |-> 1, target |-> 0, startup |-> FALSE]
  /\ ready = TRUE
  /\ compactRev = 0 /\ compactSeen = 0 /\ compactor = NotCompacting
  /\ heap = {}
  /\ req = [c \in Callers |-> IdleReq]
  /\ watch = NoWatch
  /\ acked = 0 /\ faults = [crashes |-> 0, errors |-> 0]

-----------------------------------------------------------------------------
(* The bucket. *)

SeqsOf(k) == {s \in DOMAIN stream : stream[s].key = k}

LastOf(k) == IF SeqsOf(k) = {} THEN 0 ELSE Max(SeqsOf(k))

(* The message is still kept. *)
Kept(s) == Cardinality({t \in SeqsOf(stream[s].key) : t > s}) < History

(* The next message that a consumer at position pos is sent; 0 when there is none. *)
NextFrom(pos, K) ==
  LET next == {s \in DOMAIN stream : s >= pos /\ stream[s].key \in K /\ Kept(s)} IN
  IF next = {} THEN 0 ELSE Min(next)

(* Create of the bucket (last = 0): no message, or a delete marker.  Update: the last revision. *)
Accepts(k, last) ==
  IF last = 0 THEN LastOf(k) = 0 \/ stream[LastOf(k)].op = "del" ELSE LastOf(k) = last

Publish(k, op, leased, rev) ==
  /\ Len(stream) < MaxSeq
  /\ stream' = Append(stream, [key |-> k, op |-> op, leased |-> leased, rev |-> rev])

-----------------------------------------------------------------------------
(* The index. *)

(* The version a history has at an index, 0 when the key is deleted there. *)
putAt(hist, i) == IF hist[i].op = "put" THEN hist[i].seq ELSE 0

upTo(hist, r) == {i \in DOMAIN hist : r <= 0 \/ hist[i].seq <= r}

(* Mutant of getSeqOp: the oldest entry up to the revision. *)
getSeqOpOldest(hist, r) == IF upTo(hist, r) = {} THEN 0 ELSE putAt(hist, Min(upTo(hist, r)))

(* The revision a history has at r (0: now), 0 when the key is not there. *)
getSeqOp(hist, r) == IF upTo(hist, r) = {} THEN 0 ELSE putAt(hist, Max(upTo(hist, r)))

(* checkRevision: is a read at revision r refused? *)
ErrFutureRev(r) == r > lastSeq
ErrCompacted(r) == r > 0 /\ r < compactRev

(* The handler of Watch drops what is compacted. *)
delivered(s) == s >= compactRev

(* Mutant of remember: the oldest entry stays. *)
rememberAll(hist, o) == Append(hist, o)

(* A history of one entry more, at most History long. *)
remember(hist, o) == IF Len(hist) = History THEN Append(Tail(hist), o) ELSE Append(hist, o)

(* Mutant of startupDone: ready one message too early. *)
startupDoneEarly(s) == consumer.startup /\ s + 1 >= consumer.target

startupDone(s) == consumer.startup /\ s >= consumer.target

btreeUpdate ==
  LET s == NextFrom(consumer.pos, AllKeys)  m == stream[s] IN
  /\ s # 0
  /\ consumer' = [consumer EXCEPT !.pos = s + 1]
  /\ IF delivered(s)
     THEN /\ bt' = [bt EXCEPT ![m.key] = remember(@, [seq |-> s, op |-> m.op])]
          /\ lastSeq' = s
          /\ ready' = (ready \/ startupDone(s))
     ELSE UNCHANGED <<bt, lastSeq, ready>>
  /\ UNCHANGED <<stream, compaction, heap, req, watch, acked, faults>>

(* Mutant of resumeAt: from what the stream has now. *)
resumeAtEnd == Len(stream) + 1

(* Where a new consumer starts: at the last revision once more, or at the beginning. *)
resumeAt == IF lastSeq = 0 THEN 1 ELSE lastSeq

ErrorOccurs ==
  /\ faults.crashes + faults.errors < MaxFaults
  /\ faults' = [faults EXCEPT !.errors = @ + 1]

(* The consumer fails; Start runs btreeWatcher again, a startup replay only if nothing was read. *)
btreeRestart ==
  /\ ErrorOccurs
  /\ consumer' = [pos |-> resumeAt, target |-> Len(stream), startup |-> lastSeq = 0 /\ ~ready]
  /\ UNCHANGED <<stream, bt, lastSeq, ready, compaction, heap, req, watch, acked>>

-----------------------------------------------------------------------------
(* Requests: look the key up in the index, read the bucket, write, wait for the index. *)

(* getRevisionOp of a request: Create writes a key it does not find, the others return. *)
Lookup(c, op, k, leased, last) ==
  /\ req[c].st = "idle" /\ ready
  /\ LET there == getSeqOp(bt[k], 0) # 0 IN
     req' = [req EXCEPT ![c] =
       IF there \/ op = "create"
       THEN [st |-> IF there THEN "get" ELSE "write", op |-> op, key |-> k, leased |-> leased, last |-> last, seq |-> 0]
       ELSE IdleReq]

Begin(c) ==
  /\ Len(stream) < MaxClientSeq
  /\ \E op \in {"create", "update", "delete"}, k \in Keys, leased \in BOOLEAN :
       /\ op = "delete" => ~leased
       /\ op # "create" => getSeqOp(bt[k], 0) # 0
       /\ Lookup(c, op, k, leased, 0)
  /\ UNCHANGED <<stream, index, compaction, heap, watch, acked, faults>>

(* get, and what the request makes of it.  A client asks for the revision that is there. *)
Get(c) ==
  LET r == req[c]  s == LastOf(r.key)
      found == IF s = 0 THEN "del" ELSE stream[s].op
      goesOn == CASE r.op = "create" -> found # "put"
                  [] OTHER -> found = "put" /\ r.last \in {0, s} IN
  /\ r.st = "get"
  /\ req' = [req EXCEPT ![c] = IF goesOn THEN [r EXCEPT !.st = "write", !.last = IF found = "del" THEN 0 ELSE s]
                               ELSE IdleReq]
  /\ UNCHANGED <<stream, index, compaction, heap, watch, acked, faults>>

(* A request to the server is answered, fails, or is done and its answer is lost. *)
Outcomes == IF RequestFails THEN {"answered", "failed", "lost"} ELSE {"answered"}

(* A write of kv that is accepted, refused, or fails; an accepted one waits for the index. *)
Write(c) ==
  LET r == req[c] IN
  /\ r.st = "write"
  /\ \E out \in Outcomes :
       IF out # "failed" /\ Accepts(r.key, r.last)
       THEN /\ Publish(r.key, IF r.op = "delete" THEN "tomb" ELSE "put", r.leased, 0)
            /\ req' = [req EXCEPT ![c] = IF out = "lost" THEN IdleReq
                                         ELSE [r EXCEPT !.st = "wait", !.seq = Len(stream) + 1]]
       ELSE /\ req' = [req EXCEPT ![c] = IdleReq]
            /\ UNCHANGED stream
  /\ UNCHANGED <<index, compaction, heap, watch, acked, faults>>

(* Mutant of waitForSequence: the index has the revision before. *)
waitForSequenceBefore(s) == lastSeq + 1 >= s

waitForSequence(s) == lastSeq >= s \/ WaitTimeout

(* The request returns, with a lease added to the heap; a Delete goes on to its marker. *)
Waited(c) ==
  LET r == req[c] IN
  /\ r.st = "wait" /\ waitForSequence(r.seq)
  /\ IF r.op = "delete" /\ stream[r.seq].op = "tomb"
     THEN /\ req' = [req EXCEPT ![c] = [r EXCEPT !.st = "marker"]]
          /\ UNCHANGED <<heap, acked>>
     ELSE /\ req' = [req EXCEPT ![c] = IdleReq]
          /\ heap' = IF r.leased THEN heap \cup {[key |-> r.key, seq |-> r.seq]} ELSE heap
          /\ acked' = IF r.seq > acked THEN r.seq ELSE acked
  /\ UNCHANGED <<stream, index, compaction, watch, faults>>

(* Mutant of markerLast: the marker is written whatever came after the tombstone. *)
markerLastAny(k, s) == TRUE

(* The delete marker is written only on the tombstone. *)
markerLast(k, s) == LastOf(k) = s

Marker(c) ==
  LET r == req[c] IN
  /\ r.st = "marker"
  /\ \E out \in Outcomes :
       IF out # "failed" /\ markerLast(r.key, r.seq)
       THEN /\ Publish(r.key, "del", FALSE, 0)
            /\ req' = [req EXCEPT ![c] = IF out = "lost" THEN IdleReq ELSE [r EXCEPT !.st = "history"]]
       ELSE /\ req' = [req EXCEPT ![c] = IdleReq]
            /\ UNCHANGED stream
  /\ UNCHANGED <<index, compaction, heap, watch, acked, faults>>

(***************************************************************************)
(* The Delete reads the history of its key.  If a delete marker is still   *)
(* the last message it waits for that; otherwise, or if the history cannot *)
(* be read, it returns without waiting.                                    *)
(***************************************************************************)
MarkerHistory(c) ==
  LET r == req[c] IN
  /\ r.st = "history"
  /\ \E out \in Outcomes :
       IF out = "answered" /\ stream[LastOf(r.key)].op = "del"
       THEN /\ req' = [req EXCEPT ![c] = [r EXCEPT !.st = "wait", !.seq = LastOf(r.key)]]
            /\ UNCHANGED acked
       ELSE /\ req' = [req EXCEPT ![c] = IdleReq]
            /\ acked' = IF r.seq > acked THEN r.seq ELSE acked
  /\ UNCHANGED <<stream, index, compaction, heap, watch, faults>>

-----------------------------------------------------------------------------
(* Leases. *)

(* The time of an entry has come: processExpired takes it and calls Delete with its revision. *)
Expire ==
  /\ \E e \in heap :
       /\ Lookup(Expirer, "delete", e.key, FALSE, e.seq)
       /\ heap' = heap \ {e}
  /\ UNCHANGED <<stream, index, compaction, watch, acked, faults>>

-----------------------------------------------------------------------------
(* Compaction: a value of CompactKey that every node's compactWatcher reads. *)

CompactValue == IF LastOf(CompactKey) = 0 THEN 0 ELSE stream[LastOf(CompactKey)].rev

(* The revisions that are told to clients: this node's, or those of another node, ahead of it. *)
Told == IF OtherNodes THEN Len(stream) ELSE lastSeq

(***************************************************************************)
(* Compact, by a tick of compactor or by a client, for a revision that was *)
(* told (or, below 2, for one minRetain before the current one).  Several  *)
(* calls are one after the other: the key is written only if it is still   *)
(* at the revision that the call read.                                     *)
(***************************************************************************)
CompactBegin ==
  /\ compactor.st = "idle" /\ ready /\ Len(stream) < MaxCompactSeq
  /\ \E target \in CompactValue + 2 .. Told :
       compactor' = [st |-> "read", target |-> target, seq |-> 0]
  /\ UNCHANGED <<stream, index, compactRev, compactSeen, heap, req, watch, acked, faults>>

(* Create the key with revision 0 when there is none, and wait for the index; then update it. *)
CompactWrite ==
  LET new == LastOf(CompactKey) = 0  due == compactor.target > CompactValue + 1 IN
  /\ compactor.st = "read" /\ waitForSequence(compactor.seq)
  /\ IF new \/ due
     THEN Publish(CompactKey, "put", FALSE, IF new THEN 0 ELSE compactor.target)
     ELSE UNCHANGED stream
  /\ compactor' = IF new THEN [compactor EXCEPT !.seq = Len(stream) + 1] ELSE NotCompacting
  /\ UNCHANGED <<index, compactRev, compactSeen, heap, req, watch, acked, faults>>

(***************************************************************************)
(* The compact transaction of an apiserver writes the key itself.  The     *)
(* version it compares makes its revision one that was told after the last *)
(* write of the key.                                                       *)
(***************************************************************************)
CompactTxn ==
  /\ ready /\ Len(stream) < MaxCompactSeq
  /\ \E target \in CompactValue + 1 .. Told : Publish(CompactKey, "put", FALSE, target)
  /\ UNCHANGED <<index, compaction, heap, req, watch, acked, faults>>

compactWatcher ==
  LET s == NextFrom(compactSeen + 1, {CompactKey}) IN
  /\ ready /\ s # 0
  /\ compactSeen' = s
  /\ compactRev' = IF delivered(s) /\ stream[s].rev > 0 THEN stream[s].rev ELSE compactRev
  /\ UNCHANGED <<stream, index, compactor, heap, req, watch, acked, faults>>

-----------------------------------------------------------------------------
(* A watch. *)

(* Opened at a start revision that is not compacted; 0 is every message, however far the compaction is. *)
WatchOpen ==
  /\ ~watch.on /\ ready /\ Len(stream) < MaxClientSeq
  /\ \E start \in 0 .. lastSeq + 1 :
       /\ start > 0 => start > compactRev
       /\ watch' = [on |-> TRUE, start |-> start, pos |-> start, sent |-> {}]
  /\ UNCHANGED <<stream, index, compaction, heap, req, acked, faults>>

(* An event for a put and for a tombstone, none for a delete marker. *)
WatchDeliver ==
  LET s == NextFrom(watch.pos, Keys) IN
  /\ watch.on /\ s # 0
  /\ watch' = [watch EXCEPT !.pos = s + 1,
                            !.sent = IF delivered(s) /\ stream[s].op # "del" THEN @ \cup {s} ELSE @]
  /\ UNCHANGED <<stream, index, compaction, heap, req, acked, faults>>

(* Mutant of watchAgainAt: from what the stream has now. *)
watchAgainAtEnd == Len(stream) + 1

(* After an error the watch is opened at its first revision again. *)
watchAgainAt == watch.start

WatchError ==
  /\ watch.on /\ ErrorOccurs
  /\ watch' = [watch EXCEPT !.pos = watchAgainAt]
  /\ UNCHANGED <<stream, index, compaction, heap, req, acked>>

-----------------------------------------------------------------------------
Crash ==
  /\ faults.crashes + faults.errors < MaxFaults /\ stream # <<>>
  /\ Started(stream)
  /\ faults' = [faults EXCEPT !.crashes = @ + 1]
  /\ UNCHANGED <<stream, acked>>

(* A request goes on. *)
RequestStep(c) == Get(c) \/ Write(c) \/ Waited(c) \/ Marker(c) \/ MarkerHistory(c)

Next ==
  \/ btreeUpdate \/ btreeRestart
  \/ \E c \in Clients : Begin(c)
  \/ \E c \in Callers : RequestStep(c)
  \/ Expire
  \/ CompactBegin \/ CompactWrite \/ CompactTxn \/ compactWatcher
  \/ WatchOpen \/ WatchDeliver \/ WatchError
  \/ Crash

Spec == Init /\ [][Next]_vars

-----------------------------------------------------------------------------
(* Properties. *)

(* The newest message of the key up to revision r, 0 when it is none or a deletion. *)
ValueAt(k, r) ==
  LET seen == {s \in SeqsOf(k) : s <= r} IN
  IF seen = {} \/ stream[Max(seen)].op # "put" THEN 0 ELSE Max(seen)

(* The keys List and Count find at revision r, each with the version it had then. *)
getListOps(r) == {[key |-> k, seq |-> getSeqOp(bt[k], r)] : k \in {k \in Keys : getSeqOp(bt[k], r) # 0}}

(* List fetches every version from the bucket, and leaves out one that is no longer kept. *)
List(r) == {e \in getListOps(r) : Kept(e.seq)}

(* The revision that a read at r, 0 for now, is about. *)
ReadAt(r) == IF r = 0 THEN lastSeq ELSE r

(* The index, across consumers that fail and restart and a bucket that keeps History messages of a *)
(* key: a read (List) of now, and one at any revision that is neither compacted nor in the future, *)
(* answers the versions of that revision and never another one; it may leave out a key of which    *)
(* the bucket has dropped the version.  A read of now leaves out no version that the bucket has.   *)
IndexExact ==
  ready =>
    /\ \A r \in Seqs : ~ErrFutureRev(r) /\ ~ErrCompacted(r) =>
         \A e \in List(r) : e.seq = ValueAt(e.key, ReadAt(r))
    /\ \A k \in Keys : LET s == ValueAt(k, lastSeq) IN
         s # 0 /\ Kept(s) => [key |-> k, seq |-> s] \in List(0)

(* A write that was acknowledged, before a crash too, is in the index whenever requests are served: *)
(* waitForSequence, and the startup replay that Start waits for.                                   *)
ReadYourWrites == ready => lastSeq >= acked

(* A watch, its errors included, has sent every change from its start that it has passed, unless   *)
(* the change is compacted or no longer kept (the handler of Watch, and the loop around it).       *)
NoGapInWatch ==
  watch.on => \A s \in DOMAIN stream :
    (/\ watch.start <= s /\ s < watch.pos
     /\ stream[s].key \in Keys /\ stream[s].op # "del"
     /\ s >= compactRev /\ Kept(s)) => s \in watch.sent

(* The marker of a Delete never covers a newer put: the message of its key before it is the         *)
(* tombstone that watches see, whoever created the key again in between.  That the marker follows   *)
(* at all is not said: a crash after the tombstone leaves the key without one.                      *)
MarkerAfterTombstone ==
  \A s \in DOMAIN stream : stream[s].op = "del" =>
    \E t \in 1 .. s - 1 :
      /\ stream[t].key = stream[s].key /\ stream[t].op = "tomb"
      /\ \A u \in t + 1 .. s - 1 : stream[u].key # stream[s].key

(* No lease is forgotten: the newest version of a key, if it has one, is in the heap under its own  *)
(* revision, or its write is still to return and add it, or the ExpireWatcher is deleting it.  An   *)
(* entry leaves the heap for good before its Delete has looked the key up in the index, so the      *)
(* index must have it by then.  Only a crash forgets the heap.                                      *)
LeaseTracked ==
  faults.crashes = 0 => \A k \in Keys :
    LET s == LastOf(k)  e == req[Expirer] IN
    s # 0 /\ stream[s].leased =>
      \/ [key |-> k, seq |-> s] \in heap
      \/ \E c \in Clients : req[c].st = "wait" /\ req[c].seq = s
      \/ e.st \in {"get", "write"} /\ e.key = k /\ e.last = s
=============================================================================
