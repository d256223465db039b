--------------------------- MODULE MemoryBackend ---------------------------
(***************************************************************************)
(* pkg/drivers/memory: a log of entries with dense revisions, the history  *)
(* of every key, compaction of both, and watches that read the log.  Every *)
(* operation runs under one lock; a watch goroutine holds it for one scan  *)
(* only.                                                                   *)
(*                                                                         *)
(* appendEntry replaces notifyCh with every entry, so the channel a watch  *)
(* has taken is told by the revision at that moment, and it is closed when *)
(* the revision has moved on.                                              *)
(***************************************************************************)
EXTENDS Integers, Sequences, SequencesExt

CONSTANTS
  Keys,
  Watchers,    \* watches that may be opened
  MaxRev,      \* bound of the model: the last revision
  Overtake     \* may a compaction overtake a watch that lags behind?

ASSUME MemoryAssumption == MaxRev \in Nat \ {0} /\ Overtake \in BOOLEAN

VARIABLES
  currentRevision,
  compactRevision,
  log,      \* the entries not compacted away, in order
  keys,     \* per key: its entries not compacted away, in order
  written,  \* history: every entry ever appended; entry r has revision r
  mwatch,   \* per watch: the locals of its goroutine
  events    \* per watch: the channel with the revisions it has sent

store    == <<currentRevision, compactRevision, log, keys, written>>
memVars  == <<store, mwatch, events>>

Revs == 0 .. MaxRev

Entry == [rev : 1 .. MaxRev, key : Keys, leased : BOOLEAN, deleted : BOOLEAN]

(***************************************************************************)
(* st: where the goroutine is; lastSeen: its variable; ch: the notifyCh it *)
(* has taken; batch: what it is about to send; from: history, its lastSeen *)
(* at the start; sent: history, the revisions it has sent.                 *)
(***************************************************************************)
Watcher == [st : {"off", "loop", "scan", "send", "wait"}, lastSeen : Revs, ch : Revs,
            batch : Seq(Revs), from : Revs, sent : SUBSET Revs]

MemoryTypeOK ==
  /\ currentRevision \in Revs /\ compactRevision \in Revs
  /\ log \in Seq(Entry) /\ keys \in [Keys -> Seq(Entry)] /\ written \in Seq(Entry)
  /\ mwatch \in [Watchers -> Watcher]
  /\ events \in [Watchers -> Seq(Revs)]

Off == [st |-> "off", lastSeen |-> 0, ch |-> 0, batch |-> <<>>, from |-> 0, sent |-> {}]

MemoryInit ==
  /\ currentRevision = 0 /\ compactRevision = 0
  /\ log = <<>> /\ keys = [k \in Keys |-> <<>>] /\ written = <<>>
  /\ mwatch = [w \in Watchers |-> Off]
  /\ events = [w \in Watchers |-> <<>>]

-----------------------------------------------------------------------------
(* Reads *)

(* latest: the newest entry of key k, a tombstone included. *)
Exists(k) == keys[k] # <<>>
latest(k) == Last(keys[k])
Live(k) == Exists(k) /\ ~latest(k).deleted

(* The loop over a history up to its first entry above r: the index it has reached, 0 for none. *)
atRevision(hist, r) == Max({i \in 0 .. Len(hist) : \A j \in 1 .. i : hist[j].rev <= r})

liveAt(hist, i) == i # 0 /\ ~hist[i].deleted

(***************************************************************************)
(* List at revision r (0: now) of the keys K: the entries of the live      *)
(* keys.  It is refused for a future or a compacted revision.              *)
(***************************************************************************)
ErrFutureRev(r) == r > currentRevision
ErrCompacted(r) == r > 0 /\ r < compactRevision

List(K, r) ==
  LET idx(k) == IF r > 0 THEN atRevision(keys[k], r) ELSE Len(keys[k])
  IN  {keys[k][idx(k)] : k \in {k \in K : liveAt(keys[k], idx(k))}}

-----------------------------------------------------------------------------
(* Writes *)

nextRevision == currentRevision + 1

appendEntry(k, leased, deleted) ==
  LET e == [rev |-> nextRevision, key |-> k, leased |-> leased, deleted |-> deleted] IN
  /\ currentRevision < MaxRev
  /\ currentRevision' = nextRevision
  /\ log' = Append(log, e)
  /\ keys' = [keys EXCEPT ![k] = Append(@, e)]
  /\ written' = Append(written, e)
  /\ UNCHANGED <<compactRevision, mwatch, events>>

(* Create, Update and Delete when they write; otherwise they only answer. *)
Create(k, leased) == ~Live(k) /\ appendEntry(k, leased, FALSE)

Update(k, r, leased) == Live(k) /\ latest(k).rev = r /\ appendEntry(k, leased, FALSE)

Deletes(k, r) == Live(k) /\ (r = 0 \/ latest(k).rev = r)

Delete(k, r) == Deletes(k, r) /\ appendEntry(k, latest(k).leased, TRUE)

(* Mutant of compacted: a history loses all entries up to the revision. *)
compactedAll(hist, r) == SubSeq(hist, atRevision(hist, r) + 1, Len(hist))

(***************************************************************************)
(* What a compaction at revision r leaves of a history: the entries above  *)
(* r and the last one up to it, unless that is a tombstone.                *)
(***************************************************************************)
compacted(hist, r) ==
  LET floor == atRevision(hist, r) IN
  SubSeq(hist, IF liveAt(hist, floor) THEN floor ELSE floor + 1, Len(hist))

(* The log loses the entries before index `cut'. *)
cut(r) == r - compactRevision - 1

Compact(r) ==
  /\ compactRevision < r /\ r <= currentRevision
  /\ keys' = [k \in Keys |-> compacted(keys[k], r)]
  /\ log' = IF cut(r) > 0 THEN SubSeq(log, cut(r) + 1, Len(log)) ELSE log
  /\ compactRevision' = r
  /\ Overtake \/ \A w \in Watchers : mwatch[w].st # "off" => r <= mwatch[w].lastSeen
  /\ UNCHANGED <<currentRevision, written, mwatch, events>>

-----------------------------------------------------------------------------
(* Watches *)

(* A watch at a compacted revision is refused, with the compact revision. *)
Refused(start) == 0 < start /\ start <= compactRevision

(* Watch: the goroutine starts after `start', or after now. *)
Watch(w, start) ==
  LET seen == IF start <= 0 THEN currentRevision ELSE start - 1 IN
  /\ mwatch[w].st = "off"
  /\ ~Refused(start)
  /\ mwatch' = [mwatch EXCEPT ![w] = [Off EXCEPT !.st = "loop", !.lastSeen = seen, !.from = seen]]
  /\ events' = [events EXCEPT ![w] = <<>>]
  /\ UNCHANGED store

(* getNotifyCh comes before the scan. *)
getNotifyCh(w) ==
  /\ mwatch[w].st = "loop"
  /\ mwatch' = [mwatch EXCEPT ![w] = [@ EXCEPT !.st = "scan", !.ch = currentRevision]]
  /\ UNCHANGED <<store, events>>

(* Mutant of logIndexAfter: the index behind the right one. *)
logIndexBehind(rev) ==
  LET i == rev - compactRevision + 1 IN IF i < 0 THEN 0 ELSE IF i > Len(log) THEN Len(log) ELSE i

(* logIndexAfter, counted from 0 as the code does. *)
logIndexAfter(rev) ==
  LET i == rev - compactRevision IN IF i < 0 THEN 0 ELSE IF i > Len(log) THEN Len(log) ELSE i

(* One pass over the log: the entries from the index on are the next batch. *)
scan(w) ==
  /\ mwatch[w].st = "scan"
  /\ LET new == SubSeq(log, logIndexAfter(mwatch[w].lastSeen) + 1, Len(log)) IN
     mwatch' = [mwatch EXCEPT ![w] =
       [@ EXCEPT !.st = IF new = <<>> THEN "wait" ELSE "send",
                 !.batch = [i \in DOMAIN new |-> new[i].rev],
                 !.lastSeen = IF new = <<>> THEN mwatch[w].lastSeen ELSE Last(new).rev]]
  /\ UNCHANGED <<store, events>>

(* Mutant of send: the notify channel is taken after the scan. *)
sendLate(w) ==
  /\ mwatch[w].st = "send"
  /\ events' = [events EXCEPT ![w] = @ \o mwatch[w].batch]
  /\ mwatch' = [mwatch EXCEPT ![w] = [@ EXCEPT !.st = "wait", !.batch = <<>>,
                  !.sent = mwatch[w].sent \cup ToSet(mwatch[w].batch), !.ch = currentRevision]]
  /\ UNCHANGED store

(* The batch goes into the channel. *)
send(w) ==
  /\ mwatch[w].st = "send"
  /\ events' = [events EXCEPT ![w] = @ \o mwatch[w].batch]
  /\ mwatch' = [mwatch EXCEPT ![w] = [@ EXCEPT !.st = "wait", !.batch = <<>>,
                  !.sent = mwatch[w].sent \cup ToSet(mwatch[w].batch)]]
  /\ UNCHANGED store

(* The channel it waits on has been closed by a broadcast. *)
wake(w) ==
  /\ mwatch[w].st = "wait"
  /\ currentRevision > mwatch[w].ch
  /\ mwatch' = [mwatch EXCEPT ![w].st = "loop"]
  /\ UNCHANGED <<store, events>>

watchStep(w) == getNotifyCh(w) \/ scan(w) \/ send(w) \/ wake(w)

(* A write of a client. *)
ClientWrite ==
  \E k \in Keys :
    \/ \E leased \in BOOLEAN : Create(k, leased) \/ \E r \in Revs : Update(k, r, leased)
    \/ \E r \in Revs : Delete(k, r)

-----------------------------------------------------------------------------
(* Properties. *)

(* The newest entry of key k up to revision r in the full history; 0 when there is none. *)
newestAt(k, r) == Max({0} \cup {s \in 1 .. r : written[s].key = k})

(***************************************************************************)
(* A read at a revision that is not compacted finds, for every key, what   *)
(* the full history has at that revision: the floor a compaction keeps or  *)
(* drops (a tombstone) changes no answer.                                  *)
(***************************************************************************)
SnapshotExact == \A k \in Keys, r \in compactRevision .. currentRevision :
  LET i == atRevision(keys[k], r)
      n == newestAt(k, r)
  IN  /\ liveAt(keys[k], i) <=> liveAt(written, n)
      /\ liveAt(keys[k], i) => keys[k][i] = written[n]

(***************************************************************************)
(* A watch passes over no entry that the log still promises: what it has   *)
(* not sent of the revisions it has seen was compacted away.  The index it *)
(* resumes at is computed from the compact revision, not searched.         *)
(***************************************************************************)
NoGapInWatch == \A w \in Watchers : mwatch[w].st \in {"loop", "wait"} =>
  \A r \in (mwatch[w].from + 1) .. mwatch[w].lastSeen :
    r \in mwatch[w].sent \/ (Overtake /\ r <= compactRevision)

(***************************************************************************)
(* Watch: "lastSeen is the highest revision already delivered to the       *)
(* caller.  Subsequent passes start from the first log entry whose         *)
(* revision is greater than lastSeen": no entry is sent twice.             *)
(***************************************************************************)
SentOnce == \A w \in Watchers : mwatch[w].st = "send" =>
  \A i \in DOMAIN mwatch[w].batch : mwatch[w].batch[i] \notin mwatch[w].sent
=============================================================================
