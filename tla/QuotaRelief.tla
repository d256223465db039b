---------------------------- MODULE QuotaRelief ----------------------------
(***************************************************************************)
(* The sampler goroutine of kubehz_quota.go (tick), the compaction it runs *)
(* while full (sqllog/kubehz_relief.go), and the live figure it samples on *)
(* PostgreSQL (pgsql/kubehz_quota.go).                                     *)
(*                                                                         *)
(* A row counts as one byte, and the figure is the last live sample; Quota *)
(* models the bytes written since.  A unit of time is quotaRefreshSettle:  *)
(* longer than PostgreSQL needs to flush the counters of a backend.  Ages  *)
(* stop at the largest value that a guard tells apart.  A vacuum count is  *)
(* 0 or not: only that, and a return to 0, is looked at.  The table and    *)
(* its TOAST relation are one.                                             *)
(***************************************************************************)
EXTENDS KineTable, Sequences, FiniteSets

CONSTANTS
  HealthKey,     \* the key of the head marker
  limit,         \* --quota-bytes, in rows
  Lag,           \* QuotaReliefLag
  Tries,         \* quotaRefreshTries
  Pause,         \* quotaRefreshPause
  BatchSize,     \* --compact-batch-size
  MinRetain,     \* --compact-min-retain, of kine's own compactor
  MaxRev,        \* bound of the model: the last revision
  MaxClientRev,  \* bound of the model: clients write up to this revision
  MaxResets,     \* bound of the model: resets of the statistics
  HiddenReset,   \* may a reset be hidden by as many inserts before the next sample?
  CloseVacuum    \* may a VACUUM follow deletes outside the quota's coordination too closely?

ASSUME ReliefAssumption ==
  /\ HealthKey \in Keys /\ Keys # {HealthKey}
  /\ {limit, Lag, Tries, BatchSize, MinRetain} \subseteq Nat \ {0} /\ Pause \in Nat
  /\ MaxClientRev \in Nat /\ MaxRev \in Nat /\ 3 <= MaxClientRev /\ MaxClientRev < MaxRev /\ MaxResets \in Nat
  /\ HiddenReset \in BOOLEAN /\ CloseVacuum \in BOOLEAN

VARIABLES
  rows, compactRev,  \* the table
  polling,           \* has a subscriber started the poll loop?
  polled, cached,    \* polledRev and currentRev of the SQLLog
  stats,             \* the statistics of PostgreSQL
  watch,             \* statsWatch: the counters of the last sample, and owed
  live,              \* the last live sample
  revs,              \* the current revision at recent ticks, with their ages
  refreshOwed, refreshFails, refreshPaused,
  lastDelete,        \* the age of the last pass that deleted rows
  pass,              \* where the sampler goroutine is, and the result of its pass
  due,               \* has the ticker fired?
  age,               \* history: the age of every revision
  relieved           \* history: the last revision that the relief compacted to

table == <<rows, compactRev>>
poller == <<polling, polled, cached>>
refreshState == <<refreshOwed, refreshFails, refreshPaused>>
quota == <<live, revs, refreshState, lastDelete>>
vars == <<table, poller, stats, watch, quota, pass, due, age, relieved>>

Newest == CurrentRevision(rows)

Max0(n) == IF n > 0 THEN n ELSE 0

(* A newer value, up to the largest that matters. *)
older(n, top) == IF n < top THEN n + 1 ELSE top

NoPass == [st |-> "idle", target |-> 0, bound |-> 0, deleted |-> FALSE, to |-> 0, head |-> 0, failed |-> FALSE]

TypeOK ==
  /\ rows \subseteq Row /\ compactRev \in 0 .. MaxRev
  /\ polling \in BOOLEAN /\ polled \in 0 .. MaxRev /\ cached \in 0 .. MaxRev
  /\ stats \in [ins : Nat, live : Nat, rel : Nat, vac : BOOLEAN, unflushed : Nat, own : Nat, file : Nat,
               lost : BOOLEAN, resets : 0 .. MaxResets]
  /\ watch \in [ins : Nat \cup {-1}, vac : BOOLEAN, owed : BOOLEAN]
  /\ live \in Nat
  /\ revs \in Seq([age : 0 .. Lag, rev : 0 .. MaxRev])
  /\ refreshOwed \in BOOLEAN /\ refreshFails \in 0 .. Tries /\ refreshPaused \in 0 .. Pause
  /\ lastDelete \in {0, 1}
  /\ pass \in [st : {"idle", "refresh", "relieve", "batch", "resample", "mark"},
               target : 0 .. MaxRev, bound : 0 .. MaxRev, deleted : BOOLEAN,
               to : 0 .. MaxRev, head : 0 .. MaxRev, failed : BOOLEAN]
  /\ due \in BOOLEAN
  /\ age \in [1 .. MaxRev -> 0 .. Lag] /\ relieved \in 0 .. MaxRev

(***************************************************************************)
(* kine starts on a table with some history, and no watch has started the  *)
(* poll loop yet.                                                          *)
(***************************************************************************)
InitRows ==
  LET k == CHOOSE k \in Keys : k # HealthKey IN
  {[id |-> 2, name |-> k, created |-> TRUE, deleted |-> FALSE, createRev |-> 0, prev |-> 0],
   [id |-> 3, name |-> k, created |-> FALSE, deleted |-> FALSE, createRev |-> 2, prev |-> 2]}

RowCount(R) == Cardinality(R) + 1

Init ==
  /\ rows = InitRows /\ compactRev = 0
  /\ polling = FALSE /\ polled = 0 /\ cached = CurrentRevision(InitRows)
  /\ LET count == RowCount(InitRows) IN
     stats = [ins |-> count, live |-> count, rel |-> count, file |-> count, vac |-> FALSE,
              unflushed |-> 0, own |-> 0, lost |-> FALSE, resets |-> 0]
  /\ watch = [ins |-> -1, vac |-> FALSE, owed |-> FALSE]
  /\ live = 0 /\ revs = <<>>
  /\ refreshOwed = FALSE /\ refreshFails = 0 /\ refreshPaused = 0 /\ lastDelete = 1
  /\ pass = NoPass /\ due = TRUE
  /\ age = [r \in 1 .. MaxRev |-> IF r <= CurrentRevision(InitRows) THEN Lag ELSE 0]
  /\ relieved = 0

Full == live >= limit

-----------------------------------------------------------------------------
(* PostgreSQL. *)

(***************************************************************************)
(* What the statistics count of an insert.  Unless HiddenReset, the        *)
(* inserts after a reset stay behind the counter of the last sample.       *)
(***************************************************************************)
Hides(ins) == stats.lost /\ ~stats.vac /\ ~watch.vac /\ ~watch.owed /\ ins >= watch.ins

inserted ==
  /\ HiddenReset \/ ~Hides(stats.ins + 1)
  /\ stats' = [stats EXCEPT !.ins = @ + 1, !.live = @ + 1,
                 !.file = IF RowCount(rows') > @ THEN RowCount(rows') ELSE @]

(* Deleted rows leave the live counter when the backends that deleted them flush. *)
flushed(s) == [s EXCEPT !.live = Max0(@ - (s.unflushed + s.own)), !.unflushed = 0, !.own = 0]

vacuumed(s) == [s EXCEPT !.live = RowCount(rows), !.rel = RowCount(rows), !.vac = TRUE, !.lost = FALSE]

(***************************************************************************)
(* Autovacuum is outside the quota's coordination: with CloseVacuum it may *)
(* also come right after a delete.                                         *)
(***************************************************************************)
Autovacuum ==
  /\ CloseVacuum \/ stats.unflushed + stats.own = 0
  /\ stats' = vacuumed(stats)
  /\ stats' # stats
  /\ UNCHANGED <<table, poller, watch, quota, pass, due, age, relieved>>

(* A crash, a failover or pg_stat_reset: the counters begin again. *)
Reset ==
  /\ watch.ins # 0 \/ watch.vac
  /\ stats.resets < MaxResets
  /\ stats' = [stats EXCEPT !.ins = 0, !.live = 0, !.vac = FALSE, !.lost = TRUE, !.resets = @ + 1]
  /\ UNCHANGED <<table, poller, watch, quota, pass, due, age, relieved>>

resetSeen ==
  IF watch.ins < 0 THEN stats.ins < stats.rel /\ ~stats.vac
  ELSE stats.ins < watch.ins \/ (watch.vac /\ ~stats.vac) \/ watch.owed

(* liveSize: until a VACUUM settles a reset, the size of the table on disk. *)
owed == resetSeen /\ ~stats.vac

liveSize == IF owed THEN stats.file ELSE IF stats.live > stats.rel THEN stats.live ELSE stats.rel

Sampled ==
  /\ live' = liveSize
  /\ watch' = [ins |-> stats.ins, vac |-> stats.vac, owed |-> owed]

-----------------------------------------------------------------------------
(* Clients, the poll loop and time. *)

newRow(k, deleted) ==
  LET prev == Latest(rows, k) IN
  [id |-> Newest + 1, name |-> k, deleted |-> deleted, created |-> prev = {}, createRev |-> 0,
   prev |-> IF prev = {} THEN 0 ELSE (CHOOSE p \in prev : TRUE).id]

insertRow(k, deleted) ==
  /\ rows' = rows \cup {newRow(k, deleted)}
  /\ inserted
  /\ UNCHANGED compactRev

LiveKey(k) == \E r \in Latest(rows, k) : ~r.deleted

(* New keys are refused while full. *)
ClientWrite ==
  /\ watch.ins >= 0 /\ Newest < MaxClientRev
  /\ \E k \in Keys \ {HealthKey} :
       \/ LiveKey(k) /\ \E deleted \in BOOLEAN : insertRow(k, deleted)
       \/ ~LiveKey(k) /\ ~Full /\ insertRow(k, FALSE)
  /\ cached' = Newest + 1
  /\ UNCHANGED <<polling, polled, watch, quota, pass, due, age, relieved>>

Poll ==
  /\ polling
  /\ polled < Newest
  /\ polled' = Newest /\ cached' = Newest
  /\ UNCHANGED <<table, polling, stats, watch, quota, pass, due, age, relieved>>

(***************************************************************************)
(* A batch of kine's own compactor (SQLLog.compact), which is outside the  *)
(* coordination, too: any revision from the last compaction up to          *)
(* MinRetain before the newest row.                                        *)
(***************************************************************************)
compact ==
  /\ watch.ins >= 0
  /\ \E to \in compactRev + 1 .. Newest - MinRetain :
       /\ to <= compactRev + BatchSize
       /\ rows' = Compacted(rows, to)
       /\ compactRev' = to
  /\ stats' = [stats EXCEPT !.own = @ + Cardinality(rows) - Cardinality(rows')]
  /\ UNCHANGED <<poller, watch, quota, pass, due, age, relieved>>

(* One unit of time: everything is older, the ticker fires.  Size queries are shorter. *)
Elapse ==
  /\ pass.st \notin {"resample", "mark"}
  /\ revs' = [i \in DOMAIN revs |-> [revs[i] EXCEPT !.age = older(@, Lag)]]
  /\ refreshPaused' = Max0(refreshPaused - 1)
  /\ lastDelete' = 1
  /\ due' = TRUE
  /\ age' = [r \in 1 .. MaxRev |-> IF r <= Newest THEN older(age[r], Lag) ELSE 0]
  /\ stats' = flushed(stats)
  /\ UNCHANGED <<table, poller, watch, live, refreshOwed, refreshFails, pass, relieved>>

-----------------------------------------------------------------------------
(* tick *)

(* The newest revision recorded at least Lag ago; older entries are dropped. *)
lagged == {i \in DOMAIN revs : revs[i].age >= Lag}

reliefTarget == IF lagged = {} THEN 0 ELSE revs[CHOOSE i \in lagged : \A j \in lagged : j <= i].rev

keptRevs == IF lagged = {} THEN revs ELSE SubSeq(revs, CHOOSE i \in lagged : \A j \in lagged : j <= i, Len(revs))

(* Mutant of refreshDue: the deletes need not have settled. *)
refreshDueAtOnce(isOwed) == isOwed /\ refreshPaused = 0

refreshDue(isOwed) == isOwed /\ lastDelete >= 1 /\ refreshPaused = 0

settling(isOwed) == isOwed /\ lastDelete < 1 /\ refreshPaused = 0

(* The sample; a failed one keeps the last figure and does not end the tick. *)
tickSample ==
  \/ Sampled
  \/ watch.ins >= 0 /\ UNCHANGED <<live, watch>>

(***************************************************************************)
(* One pass per tick: a refresh, or a compaction.  If the current revision *)
(* cannot be read there is none.                                           *)
(***************************************************************************)
tickPass ==
  LET isOwed == refreshOwed \/ watch'.owed IN
  /\ revs' = Append(keptRevs, [age |-> 0, rev |-> cached])
  /\ refreshOwed' = isOwed
  /\ pass' = IF refreshDue(isOwed) THEN [NoPass EXCEPT !.st = "refresh"]
             ELSE IF ~settling(isOwed) /\ live' >= limit /\ reliefTarget > 0
             THEN [NoPass EXCEPT !.st = "relieve", !.target = reliefTarget]
             ELSE NoPass

tick ==
  /\ pass.st = "idle" /\ due
  /\ due' = FALSE
  /\ tickSample
  /\ tickPass \/ UNCHANGED <<revs, refreshOwed, pass>>
  /\ UNCHANGED <<table, poller, stats, refreshFails, refreshPaused, lastDelete, age, relieved>>

(* RefreshStats: the VACUUM ran, and settles a reset; the figure is read again. *)
refresh ==
  /\ pass.st = "refresh" /\ (CloseVacuum \/ stats.own = 0)
  /\ stats' = vacuumed(stats)
  /\ refreshOwed' = FALSE /\ refreshFails' = 0
  /\ watch' = [watch EXCEPT !.vac = TRUE, !.owed = FALSE]
  /\ pass' = [NoPass EXCEPT !.st = "resample"]
  /\ UNCHANGED <<table, poller, live, revs, refreshPaused, lastDelete, due, age, relieved>>

(* Mutant of refreshFailed: the count of failures is not cleared. *)
refreshFailedOn ==
  /\ pass.st = "refresh"
  /\ refreshFails' = refreshFails + 1
  /\ refreshPaused' = IF refreshFails + 1 >= Tries THEN Pause ELSE refreshPaused
  /\ pass' = NoPass
  /\ UNCHANGED <<table, poller, stats, watch, live, revs, refreshOwed, lastDelete, due, age, relieved>>

(* It failed or skipped the table; after Tries failures the refresh pauses. *)
refreshFailed ==
  /\ pass.st = "refresh"
  /\ IF refreshFails + 1 >= Tries THEN refreshFails' = 0 /\ refreshPaused' = Pause
     ELSE refreshFails' = refreshFails + 1 /\ UNCHANGED refreshPaused
  /\ pass' = NoPass
  /\ UNCHANGED <<table, poller, stats, watch, live, revs, refreshOwed, lastDelete, due, age, relieved>>

-----------------------------------------------------------------------------
(* RelieveQuota *)

min(a, b) == IF a < b THEN a ELSE b

(* No watch has started the poll loop: start it, and compact nothing. *)
startPolling ==
  /\ pass.st = "relieve" /\ polled = 0
  /\ polling' \in BOOLEAN /\ (polling => polling')
  /\ pass' = NoPass
  /\ UNCHANGED <<table, polled, cached, stats, watch, quota, due, age, relieved>>

(* Mutant of relieveBegins: the poller may be overtaken. *)
relieveUnpolled ==
  /\ pass.st = "relieve" /\ polled > 0
  /\ pass' = [pass EXCEPT !.st = "batch", !.bound = pass.target]
  /\ UNCHANGED <<table, poller, stats, watch, quota, due, age, relieved>>

(* The pass does not go past what the watches were sent when it begins ... *)
relieveBegins ==
  /\ pass.st = "relieve" /\ polled > 0
  /\ pass' = [pass EXCEPT !.st = "batch", !.bound = min(pass.target, polled)]
  /\ UNCHANGED <<table, poller, stats, watch, quota, due, age, relieved>>

(* ... and no batch reaches the newest row. *)
reliefBound == min(pass.bound, Newest - 1)

(***************************************************************************)
(* The end of relieve: rows that were deleted, or may have been, make a    *)
(* refresh owed, and the figure is read again if any were.                 *)
(***************************************************************************)
relieveEnds(p, stale) ==
  /\ pass' = [p EXCEPT !.st = IF p.deleted THEN "resample" ELSE "mark"]
  /\ refreshOwed' = (refreshOwed \/ stale)
  /\ lastDelete' = IF stale THEN 0 ELSE lastDelete

(* A batch that finds nothing left to compact; PostCompact, after rows were deleted, may fail. *)
reliefDone ==
  /\ pass.st = "batch"
  /\ reliefBound <= compactRev
  /\ \E failed \in {FALSE, pass.deleted} :
       relieveEnds([pass EXCEPT !.to = compactRev, !.head = Newest, !.failed = failed], pass.deleted)
  /\ UNCHANGED <<table, poller, stats, watch, live, revs, refreshFails, refreshPaused, due, age, relieved>>

(* The transaction of a batch, committed. *)
compactBatch(to) ==
  /\ rows' = Compacted(rows, to)
  /\ compactRev' = to /\ relieved' = to
  /\ stats' = [stats EXCEPT !.unflushed = @ + Cardinality(rows) - Cardinality(rows')]

reliefBatch ==
  LET to == min(reliefBound, compactRev + BatchSize)
      p == [pass EXCEPT !.to = to, !.head = Newest, !.deleted = @ \/ rows' # rows]
  IN
  /\ pass.st = "batch"
  /\ compactRev < reliefBound
  /\ compactBatch(to)
  /\ IF to < reliefBound THEN pass' = p /\ UNCHANGED <<refreshOwed, lastDelete>>
     ELSE \E failed \in {FALSE, p.deleted} : relieveEnds([p EXCEPT !.failed = failed], p.deleted)
  /\ UNCHANGED <<poller, watch, live, revs, refreshFails, refreshPaused, due, age>>

(* An error before the commit ends the pass. *)
reliefFails ==
  /\ pass.st = "batch"
  /\ relieveEnds([pass EXCEPT !.failed = TRUE], pass.deleted)
  /\ UNCHANGED <<table, poller, stats, watch, live, revs, refreshFails, refreshPaused, due, age, relieved>>

(* errCommitUnknown: the commit reports an error and has taken effect. *)
reliefCommitLost ==
  /\ pass.st = "batch"
  /\ compactRev < reliefBound
  /\ compactBatch(min(reliefBound, compactRev + BatchSize))
  /\ relieveEnds([pass EXCEPT !.failed = TRUE], TRUE)
  /\ UNCHANGED <<poller, watch, live, revs, refreshFails, refreshPaused, due, age>>

(* sample without a new base; it may fail. *)
resample ==
  /\ pass.st = "resample"
  /\ Sampled \/ UNCHANGED <<live, watch>>
  /\ pass' = [pass EXCEPT !.st = "mark"]
  /\ UNCHANGED <<table, poller, stats, revs, refreshState, lastDelete, due, age, relieved>>

(* Mutant of marks: the target must be past the newest row. *)
marksPast == pass.head > 0 /\ pass.target > pass.head /\ ~pass.failed /\ pass.to >= pass.head - 1 /\ Full

(* The newest row is what keeps rows back, and this pass got as far as it could. *)
marks ==
  /\ pass.head > 0 /\ pass.target >= pass.head
  /\ ~pass.failed
  /\ pass.to >= pass.head - 1
  /\ Full

(***************************************************************************)
(* markHead writes the health key; it may fail, and its acknowledgement    *)
(* may be lost.                                                            *)
(***************************************************************************)
markHead ==
  /\ pass.st = "mark"
  /\ marks /\ Newest < MaxRev
  /\ \/ insertRow(HealthKey, FALSE) /\ cached' \in {cached, Newest + 1}
     \/ UNCHANGED <<table, stats, cached>>
  /\ pass' = NoPass
  /\ UNCHANGED <<polling, polled, watch, quota, due, age, relieved>>

relieveReturns ==
  /\ pass.st = "mark"
  /\ ~(marks /\ Newest < MaxRev)
  /\ pass' = NoPass
  /\ UNCHANGED <<table, poller, stats, watch, quota, due, age, relieved>>

-----------------------------------------------------------------------------
Sampler ==
  \/ tick \/ refresh \/ refreshFailed \/ startPolling \/ relieveBegins
  \/ reliefDone \/ reliefBatch \/ reliefFails \/ reliefCommitLost \/ resample
  \/ markHead \/ relieveReturns

Next == Sampler \/ ClientWrite \/ compact \/ Poll \/ Elapse \/ Autovacuum \/ Reset

Spec == Init /\ [][Next]_vars

reliefSucceeds ==
  \/ reliefDone
  \/ startPolling /\ polling'
  \/ reliefBatch /\ ~pass'.failed

(***************************************************************************)
(* Fairness: time passes, the poll loop runs, the sampler goroutine takes  *)
(* its steps, and what is tried again and again (a tick, a refresh, a      *)
(* compaction, the marker) succeeds.                                       *)
(***************************************************************************)
Fairness ==
  /\ WF_vars(Elapse) /\ WF_vars(Poll) /\ WF_vars(Sampler)
  /\ SF_vars(tick /\ Sampled /\ tickPass) /\ SF_vars(refresh)
  /\ SF_vars(reliefSucceeds) /\ SF_vars(markHead /\ rows' # rows)

FairSpec == Spec /\ Fairness

-----------------------------------------------------------------------------
(* Properties. *)

(***************************************************************************)
(* The relief compacts no revision that a write may still be about: all up *)
(* to the one it compacts to are QuotaReliefLag old, were sent to the      *)
(* watches of this process, and are not the newest row.                    *)
(***************************************************************************)
ReliefBehind == relieved > 0 =>
  /\ relieved <= polled
  /\ relieved < Newest
  /\ \A r \in 1 .. relieved : age[r] >= Lag

(***************************************************************************)
(* The quota's own passes do not make the live figure read low: a sample   *)
(* taken now shows at least the rows there are.  A refresh before the      *)
(* deletes of a relief pass are flushed would have them subtracted twice,  *)
(* and a reset of the statistics would leave only the rows written since.  *)
(* Two things that do make it read low are assumed away: a reset that the  *)
(* counters hide (HiddenReset), and, outside the quota's coordination, an  *)
(* autovacuum right after a delete or a refresh right after a delete of    *)
(* kine's own compactor (CloseVacuum).                                     *)
(***************************************************************************)
SampleCovers == watch.ins >= 0 => liveSize >= RowCount(rows)

(***************************************************************************)
(* A tenant that deletes everything gets its space back with no staff      *)
(* step: the quota does not stay full for ever.  Nothing is compacted      *)
(* before a poll loop runs, and the newest row, a tombstone with the old   *)
(* value, needs a marker behind it; after a reset of the statistics the    *)
(* figure is the size of the file, until the quota has run a VACUUM.       *)
(***************************************************************************)
AllDeleted == \A k \in Keys \ {HealthKey} : ~LiveKey(k)
SpaceFreed == Full /\ AllDeleted ~> ~Full \/ ~AllDeleted

=============================================================================
