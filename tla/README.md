# Formal specification of kine

kine gives an etcd API to Kubernetes on top of a SQL database (or NATS, t4, an
in-memory store). This directory specifies the parts of it on which its
correctness rests, in TLA+: TLC checks the modules on small instances, TLAPS
proves the main properties for every value of the constants.

## 1. The system

| Component | State | Operations | What makes it correct |
|---|---|---|---|
| kine table (`pkg/drivers/generic`, `pgsql`, `sqlite`, `mysql`) | one row per revision, UNIQUE (name, prev_revision), the `compact_rev_key` row | INSERT, MAX(id), newest row per name, rows after an id, CompactSQL, fill | a revision is an id; the index is the compare-and-swap |
| `logstructured.LogStructured` | none of its own | Create, Update, Delete, Get, List, Count, Watch | a conditional write happens only if its condition holds |
| `sqllog.SQLLog` compaction | compact revision in the table; two local revisions per node | compactor, compactIter, compact, Compact | snapshots and events above the compact revision survive; it keeps up |
| `sqllog.SQLLog` append and poll | `currentRev`, `polledRev`, the locals of the poll loop | Append, CurrentRevision, startWatch, poll, Fill | every committed event, once, in order |
| `broadcaster` and `LogStructured.Watch` | subscriber channels | Subscribe, unsub, stream, Watch | history then live events without a gap |
| `ttl` | store of leases, delaying queue | Run, seed, handle | a key is deleted after its last lease, and not before |
| quota (`pkg/server/kubehz_quota.go`, `sqllog/kubehz_relief.go`) | sampled sizes, written bytes, ticks | admit, settle, sample, RelieveQuota | the ceiling holds; relief takes nothing a watch still needs |
| etcd bridge (`pkg/server`) | none for KV; watch ids and progress for Watch | Txn forms, Put, Range, Compact, Watch, LeaseGrant | answers agree with the backend's effect |
| `drivers/memory` | dense log, compact revision, notify channel | all of Backend | same promise as the SQL path |
| `pgsql/notify.go` | last announced revision | notify, listen | only makes a poll happen sooner |
| `drivers/nats` | a JetStream bucket; in memory an index of it, the compact revision, a heap of leases | all of Backend | the index is exact and has every acknowledged write |
| `drivers/t4` | an external store | all of Backend | same promise, on another store |

The components meet at these points. The bridge calls a Backend; LogStructured
calls SQLLog; SQLLog calls the dialect, that is the database. Writers, pollers
and compactors of several kine processes share nothing but the table. In one
process Append wakes the poll loop over a channel and all three of Append,
CurrentRevision and poll swap the cached revision. The poll loop feeds the
broadcaster, the broadcaster the watches, and one of these watches feeds TTL.

What is hard to test: the two statements of a write are not a transaction, and
a compaction of any node may come between them; PostgreSQL hands out ids before
rows are visible, so rows appear out of order and some ids never do; an answer
from the database may be lost after the commit; a compaction is a loop of
transactions that may fail or be overtaken half way; a poller must wait for a
missing row but not for ever. `PROJECT.json` lists each of these hazards with
its line and with the properties that watch over it.

## 2. Modules

    KineTable  <--  LogStructured  --refines-->  RevisionedKV
        ^              ^
        |              LogStructuredProofs
    QuotaRelief  <--  QuotaReliefProofs

    Quota  <--  QuotaProofs            SQLPoll  <--  SQLPollProofs
    Nats   <--  NatsProofs

    WatchPipeline  <--  WatchProgress  <--  WatchPipelineProofs

    MemoryBackend  <--  MemoryBackendProofs
        ^   ^                    ^
        |   TTL  <---------------|
        EtcdBridge  <---  MemoryClientProofs

An arrow points to the module that is extended. Each module but KineTable,
RevisionedKV, MemoryBackend and the proofs has an MC module and one or more
`.cfg` files.

**The SQL path**

* **KineTable**: rows and queries as operators on a set of rows. A row is
  `[id, name, created, deleted, createRev, prev]`; the row's id stands for its
  value.
* **RevisionedKV**: what the Backend interface (`pkg/server/types.go`)
  promises: live keys with a revision, conditional writes in one step. `ok`
  means the write took effect while its condition held; `failed` and `exists`
  that it did not; `error` leaves it open.
* **LogStructured**: Create, Update and Delete as a read (`CreateGet`,
  `UpdateGet`, `DeleteGet`; `GetError` when it fails) and an INSERT with its
  outcomes (`Append`, `AppendConflict`, `AppendError`, `AppendAckLost`); the compactors with their
  loop variables (`CompactTick`, `CompactRequest`, `CompactBatch`,
  `CompactStale`, `CompactError`, `CompactDone`). `pend` is a write between its
  two statements, `cmp` the locals of compactor and compactIter.
* **SQLPoll**: an INSERT as reservation of the id, entry into the index,
  commit or rollback (`AppendBegin` .. `AppendDone`); CurrentRevision as query
  and swap (`QueryRevision`, `CurrentRevision`); the poll loop as wake-up,
  query, and one action for each case of the scan: no hole (`PollScan`), a new
  hole (`PollGap`), a known hole (`PollFill`), a hole older than a second
  (`PollSkip`). A row is its id, and a compaction takes any rows up to its
  target: which ones is LogStructured's business.
* **WatchPipeline**: from the poll loop to the client. `stream` spreads an item
  over the bounded channels of the subscribers and starts an unsubscription for
  those that are full; `History` and `Forward` are the two sources of
  LogStructured.Watch, whose two filters (the range of the watch, and what is
  above lastRevision) are sets of revisions to `Keep`; an item with nothing in
  the range takes no room in a channel (`OutOfRange`), one that the second
  filter empties does. `Receive`, `CreatedFails`, `Cancel`, `Close` and
  `WatchEnds` are the watch server. A Send that fails later in the loop is
  covered by `Close`. The poll loop is SQLPoll's, seen through ExactDelivery: it hands out
  the visible rows in order and without holes.
* **WatchProgress**: the two progress timers and the request flag on top of it.

LogStructured gives every row its id and its visibility in one step, as SQLite
does; SQLPoll is about the difference. LogStructured's argument does not depend
on it: a conflict is decided by the index, not by the order of ids.

**The quota**

* **Quota**: admission. Each load, store and add on the atomics of `Quota` is
  a step of its own (`LoadLive`, `Reserve`, `GiveBack`, `settle`, `SampleStored`,
  `SampleAdvances`); the backend below is the bytes of its rows, and the size
  query shows young rows late. A request compares with any revision, also one
  that is still to come. `uncounted` records the bytes that the code leaves out
  by design (deletes, values that shrink, errors taken for conflicts, updates
  that compare with a later revision), so that FigureCovers and LimitHolds say
  exactly what remains. The reservation that markHead makes for its own few
  bytes is not in this module.
* **QuotaRelief**: the sampler goroutine over a kine table: `tick`, the VACUUM
  (`refresh`), the batches of RelieveQuota with their failures, `markHead`, and
  kine's own compactor (`compact`), which the sampler does not know of; the
  statistics of PostgreSQL with their flush, autovacuum and resets.

**The other backends and the bridge**

* **MemoryBackend**: log, per-key histories, compaction with the index
  arithmetic of the code, and watches that take the notify channel, scan, send
  and wait. TTL and EtcdBridge run on it, and TLC checks it under TTL; for the
  proofs, MemoryBackendProofs states what any composition does to it
  (`MemorySpec`). `send` leaves out the capacity of the events channel (100),
  the end of the watch's context while it waits there, and the range of keys:
  a watch sends a batch in one step and is never closed.
* **TTL**: `ttl.Run` (`seed`, `watchSeeded`, `onEvent`) and the handler
  (`handleGet`, `handleDelete`, `handleRetry`, `handleRemove`) over the shared
  map of leases. `seed` reads all pages in one step, and a Delete that ends
  because the process shuts down is left out.
* **EtcdBridge**: the recognised transactions, Put, ranges and the apiserver's
  compact transaction, one step for each call of the backend. What it shows is
  about the memory backend, where a List, a Count and a refusal are each about
  one revision. The SQL path is weaker in three ways: Count answers the current
  revision for a past one (`CountsCurrent`), List answers MAX(id) in its header
  for a past one (`sql.go:341-389`), and LogStructured.Create reads the revision
  of a refusal after it has refused (`adjustRevision`, `logstructured.go:79-110`),
  so that it may answer one at which the key is deleted already and the Get that
  follows does not show it.
* **Nats**: the stream as a sequence of messages (JetStream is external: a
  write is accepted by the last revision of its key, and a bucket keeps
  `History` messages of a key), the btree and its consumer, the wait for the
  index after a write, deletes in two messages and the wait that follows if the
  history of the key says so (`MarkerHistory`), leases, compaction by Compact
  (`CompactBegin`, `CompactWrite`: the ticker's, and a client's for any revision
  it was told) and by the compact transaction of an apiserver (`CompactTxn`),
  watches, crashes and failures of consumers. A request is answered, fails, or
  takes effect and its answer is lost (`Outcomes`). Several calls of Compact are
  modelled one after the other: the revision of the key decides between them.

## 3. Runs

| Run | Distinct states | Shows |
|---|---|---|
| `log_structured` | 489 k | two clients, two keys, one compactor: LinearHistory, PendingProtected, and AtomicWrites (refinement of RevisionedKV) |
| `log_structured_compact` | 52 k | one automatic and one manual compactor: HeadRetained, SnapshotStable, EventsRetained, and CompactionCatchesUp under fairness |
| `log_structured_tombstone` | violation | without the assumption on tombstones two Creates of a key both commit |
| `sql_poll` | 282 k | ExactDelivery, and EventsReachWatches under fairness |
| `sql_poll_stall` | 438 k | a poll loop that skips holes and is overtaken: CacheMonotone |
| `watch_pipeline` | 99 k | a watch with a channel of one item, writes, compactions, failures, a stream that closes: NoSilentGap, InOrderOnce, and under fairness BrokenWatchEnds, CancelledEnds, EventsArrive |
| `watch_progress` | 674 k | progress requests against both timers: ProgressServed |
| `ttl` | 218 k | leases written, renewed and dropped while the log is compacted: SnapshotExact, NoGapInWatch, OnlyElapsed, LeasesExpire |
| `quota` | 2.9 M | two writers and the sampler, with every outcome of a call: FigureCovers, LimitHolds, FreePassWritesNothing, ReservationsBalance |
| `quota_relief` | 277 k | a tenant at its limit, relief and kine's own compaction, VACUUM, resets: ReliefBehind, SampleCovers, and SpaceFreed under fairness |
| `nats` | 1.5 M | a client, the expirer, compactions, a watch and one fault: IndexExact, ReadYourWrites, NoGapInWatch, MarkerAfterTombstone, LeaseTracked |
| `etcd_bridge` | 214 k | two clients whose requests take several calls, and compactions in between: PageExact, RefusalShown, VersionsAdvance |

**Bounds.** `MaxRev` bounds the ids; with `CompactMinRetain` 1 four or five ids
are enough for a key to be created, updated, deleted and created again while
compaction removes the first rows, and for two holes in one batch.
`InFlightLag` and `CompactMinRetain` are 1 rather than 1000: only their
difference matters. Batch sizes of 1 and 2 make the loops take several turns.
A channel has room for one item rather than 100, so that it is full as soon as
possible; the watch of `watch_pipeline` wants every revision but one, so that
both filters have something to drop. The runs of SQLPoll have one node and
four ids, since nodes share only the table; with two nodes that fill each other's
holes, a writer on each and three ids (2.6 M states) ExactDelivery holds as well. In `quota` a value is 1 or 2
bytes, the limit 2, the cap of cleanups 3 and the ceiling 5, so that each lane
admits and refuses; `MaxWritten` lets both writers stand before the limit at
the same time, and with `MaxWritten` 3 (15 M states) all properties hold as
well. In `quota_relief` a row is a byte, the lag one unit of time, kine's own
compactor keeps two revisions, and a refresh that failed is due again at the
next tick. With a pause of one unit (528 k states) all properties hold as
well, and with a lag of two (1.2 M states) the safety properties.
In `nats` the bucket keeps two messages of a key, so that the third version pushes the first out; clients begin operations up to
revision 2, compactions up to 3, and what follows from them (tombstones,
markers, expiry) goes up to 5; with 8 (2.9 M states), and with two clients,
compactions up to 2, no fault and 8 (909 k states), all properties hold as well. In `etcd_bridge`
three keys and a limit of 1 make a page with a rest, and three revisions let a
write or a compaction fall between any two calls.

Symmetry is used where a run has only safety properties: keys and clients of
`log_structured`, the writers of one node in `sql_poll_stall` and those of `quota`, the clients of
`etcd_bridge`. The type invariants of TTL, Quota and EtcdBridge hold in their
runs, too; they are not among the listed properties.

**Assumptions that are constants.** Each is a Boolean or a number that a run
can switch, so that the model says what breaks without it (section 5).

* `InFlightLag <= CompactMinRetain`: at most so many revisions pass between the
  read and the INSERT of a write. The code relies on it (1000 revisions).
* `TombstoneRace = FALSE`: no compaction removes a tombstone that a Create in
  flight has read.
* `AckLoss = FALSE`: no lost answer for Update and Delete. For Create the lost
  answer is always part of the model.
* `RetriesEnd = FALSE`: an INSERT does not meet a fill row twenty times in a row.
* `SlowPoll = FALSE`: a hole is delivered or filled within a second.
* `Stalls = FALSE`: no compaction overtakes a poller or an open INSERT.
* `LateCommit = FALSE` (WatchPipeline): the rows a history read finds have no
  holes below its MAX(id).
* `Overtake = FALSE` (MemoryBackend): no compaction passes a watch that lags.
* `HandleRace = FALSE` (TTL): the event of a renewal is not applied while the
  handler works on its key.
* `CloseTicks = FALSE` (Quota): a sampling interval passes between two samples.
  After a refresh of up to two minutes the ticker has a tick waiting, and the
  code does not make it wait.
* `CloseVacuum = FALSE` (QuotaRelief): an autovacuum does not follow a delete,
  nor a refresh a delete of kine's own compactor, before PostgreSQL has flushed
  the counters of the delete. The quota does not coordinate with either:
  `kubehz/MERGE-GUIDE.md:382-386` says that the figure then reads low until the
  next VACUUM. What SampleCovers shows is about the quota's own passes.
* `HiddenReset = FALSE` (QuotaRelief): after a reset of the statistics the
  counter does not reach its old value before the next sample.
* `RequestFails`, `WaitTimeout`, `OtherNodes` = FALSE (Nats): requests to the
  server are answered, the index follows within five seconds, and the revision
  a compaction names is not ahead of this node's index.
* `CountsCurrent = FALSE` (EtcdBridge): Count answers at the revision it was
  asked for, as the memory backend does.

**Fairness.** Only goroutines of kine, timers and the database owe progress;
clients never do.

* Compaction: the ticker fires (WF on CompactTick), the loop ends (WF on
  CompactDone), and a database that is asked again and again answers now and
  then (SF on CompactBatch and CompactStale; errors may happen any number of
  times in between).
* Polling: the ticker fires and the loop goes on (WF), the query and the fill
  succeed now and then (SF), an open INSERT ends because its context or its
  connection does (WF).
* Watches: poll loop, stream, unsubscription and the goroutines of a watch run
  (WF); in WatchProgress the timers fire, too. In MemoryBackend every watch
  goroutine runs (WF).
* TTL: the loop runs (WF), an item of the queue comes up (SF, since the handler
  may be busy with another), time passes (WF), and a Delete that is retried
  succeeds now and then (SF).
* QuotaRelief: time passes and the goroutine goes on (WF); a sample, a VACUUM,
  a batch and the marker succeed now and then (SF), because every tick tries
  them again. Clients, autovacuum and kine's own compactor owe nothing.

**Deadlock** is checked in the runs of LogStructured and SQLPoll. The others
stop when their bound on revisions is used up and nothing is left to do, and
their cfg says so.

## 4. Proofs

`LogStructuredProofs` proves the safety properties of LogStructured for any
keys, clients and nodes, any batch size and any retention of at least one
revision that covers `InFlightLag`; `RetainAssumption` names what is assumed.

* TypeCorrect, HeadIsRetained: no further assumption. A compaction stays below
  the head, since its target is at most MAX(id) minus the retention.
* HistoryIsLinear, PendingIsProtected, SnapshotsAreStable, EventsAreRetained:
  for `TombstoneRace = FALSE`. LinearHistory is not inductive: to show that an
  INSERT extends the chain one needs that a write in flight would collide if
  its key had been written since its read, and to show that of a compaction,
  that it only takes rows at or below the read. `IndInv` joins the type and
  head invariants, LinearHistory, PendingProtected and the facts about the
  table they rest on (ids and predecessors of rows, the compact revision below
  the retained ones).
* WritesAreAtomic: for `TombstoneRace = FALSE`, `AckLoss = FALSE` and
  `RetriesEnd = FALSE` the specification implies RevisionedKV's under the mapping
  of the newest rows that are no tombstones to live keys. A read with its
  answer maps to Accept or Refuse, an INSERT to Apply, a failed one to Drop,
  and every step of a compactor to a stuttering step.

`SQLPollProofs` proves, for any nodes, writers and batch size:

* PollTypeCorrect and CacheIsMonotone, without further assumption: a swap
  stores an id above the value it replaces, because an INSERT gets its id after
  Append loaded the cache (`Bounds`).
* DeliveryIsExact, for `SlowPoll = FALSE` and `Stalls = FALSE`. The inductive
  invariant `DeliveryInv` adds to ExactDelivery: an id is an event or a fill
  and never both; ids of open INSERTs are fresh; an open INSERT whose id a
  poller has passed is doomed, because the id is filled; no event above a
  poller's revision has been compacted; and the batch a poller works on is
  still what the table holds.

`QuotaReliefProofs`, for any keys, limit, lag, batch size and number of tries
(`ReliefAssumption`):

* ReliefTypeCorrect and ReliefStaysBehind, without further assumption.
  ReliefBehind speaks of ages of revisions, of which the code keeps a few
  recorded ones; `ReliefInv` adds what these stand for: every revision up to a
  recorded one is at least as old as it (`AgedRevs`), so every revision up to
  the target of a pass is as old as the lag (`AgedTarget`), the poll loop and
  the cached revision are at or below the newest row, and rows replace older
  rows.
* SampleNeverLow, for `HiddenReset = FALSE` and `CloseVacuum = FALSE`: the
  quota's own passes do not make the figure read low. `SampleInv` follows the counters
  of PostgreSQL: the live counter covers the rows and the deletes that are not
  flushed, unless a reset lost it, and then the counters of the last sample
  still tell (`ResetNoticed`); deletes that are not flushed belong to a pass
  that runs (`Settled`).

`QuotaProofs`, for any finite set of writers and any limit and margins
(`QuotaAssumption`): QuotaTypeCorrect, ReservationsBalanced, FreePassIsFree,
FigureNeverLow and LimitIsKept, all from `QuotaInv`, the last two for
`CloseTicks = FALSE`. LimitIsKept holds each lane to its own cap, in bytes that
the code counts. What is reserved is what
is committed and what requests hold (`Balance`), a sum over the writers. The
figure is never low because every stored byte the sample does not show yet was
credited after the mark that the base comes from (`MarksOrdered`,
`YoungCovered`), also while a writer has loaded the base and not yet the sample
(`LoadedCovers`). The sums are a recursive function over sets of writers; what
it computes is proved by a smallest set on which it would fail.

`NatsProofs`, for any keys, clients, history and number of faults
(`NatsAssumption`), in layers of which each uses the ones before:

* NatsTypeCorrect; MarkersFollowTombstones: the message a request in flight has
  written is the last of its key, or the request will be refused
  (`RequestsInv`).
* NoWatchGap: the revisions of compactions grow along the stream
  (`CompactInv`), and no watch is past its end (`WatchInv`).
* AcknowledgedIsRead, for `WaitTimeout = FALSE`: before the replay has reached
  the end of the stream nothing is asked of the process (`StartInv`), and every
  acknowledged write is in the stream (`AckInv`).
* NewestIsIndexed, for `OtherNodes = FALSE`: the compact revision is behind the
  index, so that the handler drops nothing it needs (`BehindInv`).
* NoLeaseForgotten, also for `RequestFails = FALSE` and `WaitTimeout = FALSE`:
  it needs NewestIsIndexed, because the expirer takes an entry out of the heap
  before it looks the key up (`LeaseInv`).
* IndexIsExact, for `OtherNodes = FALSE` and any `History`, any number of
  clients, requests that fail and waits that time out. A consumer that is behind
  may not be sent a version that the bucket has dropped meanwhile, so the history
  of a key can have holes; but List fetches each version it answers, and leaves
  out one that is no longer there. `HistoriesInv` says that what is in a history
  was a message of the key, that no message between two entries is still kept,
  and that the last entry is at or after every kept message that the index has
  passed. With holes only where nothing is kept, the version found at a revision
  is the right one or can no longer be fetched. Count does not fetch, and can
  count a key whose version at that revision is gone.

`WatchPipelineProofs`, for any watches, ranges, start revisions and any capacity
of the channels above zero (`WatchAssumption`):

* WatchTypeCorrect and SentInOrderOnce, without further assumption, so also
  where rows commit late. InOrderOnce is not inductive: it needs where each
  event is. `OrderInv` says that what a watch has sent comes before what is
  queued for the server, and that before what is still in the subscription and
  in the broadcaster's item, or else is not above lastRevision, below which
  live events are dropped (`Ordered`).
* SentWithoutGap, for `LateCommit = FALSE`. `StartInv` says that nothing a
  watch has queued is below its start, nor anything that passes the filter
  later, so that the server drops nothing of it. `GapInv` adds that the visible rows
  are 1 to MAX(id), that the poll loop is at or below it, and for each watch
  that was neither left out nor failed a promise: a wanted event up to
  lastRevision was sent or is queued; one that is not on its way comes after
  everything that is, and, while the watch is subscribed, is in the item of the
  broadcaster or still to be polled (`Promise`). The subscription comes before
  the history read, and this is where it counts.
* ProgressTypeCorrect and NotificationsKeepEvents: the same for WatchProgress,
  whose timers change nothing that the invariants are about.

`MemoryBackendProofs`, for any keys and watches, over `MemorySpec`: the steps of
MemoryNext in any order.

* MemoryTypeCorrect, SnapshotsAreExact, NoMemoryWatchGap. `MemoryInv` says that
  the log is the end of the history and begins at or below the compact revision
  (`LogOK`); that what is kept of a key is in order, and what is not kept is
  older and not needed at the compact revision (`KeyOK`); and that a watch has
  sent, or is about to send, what it has passed (`WatchOK`). SnapshotExact alone
  is not inductive: a second compaction starts from what the first has left.

`MemoryClientProofs` is about the two compositions on that backend. For TTL
(keys are not empty, `TTLAssumption`): TTLIsMemory shows that TTL only takes
steps of the memory backend, which gives TTLSnapshotsAreExact and
NoTTLWatchGap; TTLTypeCorrect; and OnlyElapsedDeleted, for
`HandleRace = FALSE`: an entry of the map of leases stands for a leased version
of its key, and the handler still sees the entry whose lease it saw elapse
(`TTLInv`).

For EtcdBridge, with any clients, any finite set of keys and any limit
(`BridgeAssumption`), from `BridgeInv`, which joins `MemoryInv` with what the
requests between two calls know:

* PagesAreExact, for `CountsCurrent = FALSE`: the page a list holds while it
  counts is that of the first `Limit` live keys at its revision, and not all
  there is (`ReqOK`). It stays true because the history only grows: what was
  live at a revision always was. The lemmas on `firstOf` say that one entry more
  than the limit tells whether there are more.
* RefusalsShow: the key was live at the revision of the refusal, and a revision
  that is not compacted shows it.
* VersionsAlwaysAdvance: the compact key is never deleted, and the version in
  each of its entries is the number of its entries up to it (`VersionsInv`).

All invariants that are proved inductive were checked by TLC first.

**Only model-checked.**

* Liveness (CompactionCatchesUp, EventsReachWatches, EventsArrive and the other
  properties of watches, LeasesExpire, SpaceFreed, ProgressServed): TLAPS does
  not treat fairness and ENABLED.

Every invariant and action property that a passing run checks is also a theorem,
under the assumptions named above. Where an assumption is a constant that a run
can switch (section 3), section 5 shows what fails without it.

Facts that need induction over data are proved here as the absence of a smallest
counterexample (WFMin with the order of the natural numbers, or of the finite
subsets): for maxima, minima and sums, and in WatchPipelineProofs for the
elements and the order of a sorted set, a filtered and a flattened sequence.

## 5. Findings and known counterexamples

`log_structured_tombstone` is a run, since it contradicts a comment of the code
(`PROJECT.json` quotes it): a Create has to be in flight while the tombstone it
has read is compacted, and it need not be a recent compaction.

The assumptions above are there because the code is not correct without them.
Each of these takes one line of a `.cfg` to see, and TLC answers with a short
trace:

| Change | Property that fails | What happens |
|---|---|---|
| `LogStructured.cfg`: `AckLoss = TRUE`, PROPERTY `RefusedNotWritten` | RefusedNotWritten | the INSERT of an Update commits, its answer is lost, and the client is told of a conflict |
| `LogStructured.cfg`: `RetriesEnd = TRUE` | AtomicWrites | a Create whose INSERTs all met fill rows is told that the key exists |
| `SQLPoll.cfg`: `SlowPoll = TRUE` | ExactDelivery | a hole that is older than a second is skipped, and the INSERT that owns it commits later |
| `SQLPoll.cfg`: `Stalls = TRUE` | ExactDelivery | a compaction removes rows that the poll loop has not read |
| `SQLPoll.cfg`: PROPERTY `AckedIsCurrent` | AckedIsCurrent | after Append the cached revision can still be behind the revision it returned |
| `WatchPipeline.cfg`: `LateCommit = TRUE` | NoSilentGap | the history has MAX(id), the row below it arrives later and is filtered out as already sent |
| `WatchPipeline.cfg`: INVARIANT `NothingMissed` | NothingMissed | a slow consumer gets an item after the one it missed, before it is cancelled |
| `WatchProgress.cfg`: PROPERTY `SyncedClaims` | SyncedClaims | the poll loop is at a revision while its events are still in a channel behind it, and the watch is told of the revision |
| `TTL.cfg`: `HandleRace = TRUE` | OnlyElapsed, LeasesExpire | a renewal between the check and the Delete is deleted; one between the Delete and the removal of the entry is forgotten |
| `TTL.cfg`: INVARIANT `SentOnce` | SentOnce | after a compaction the index of a watch is one short, and an entry is sent again |
| `Quota.cfg`: INVARIANT `FreePassNeverWrites` | FreePassNeverWrites | an update that compares with a revision still to come passes without a reservation like one that has lost, and writes once another request has brought its key to that revision |
| `Quota.cfg`: `CloseTicks = TRUE` | FigureCovers, LimitHolds | two samples right after each other: the base moves past bytes that the statistics do not show yet |
| `QuotaRelief.cfg`: `CloseVacuum = TRUE` | SampleCovers | a VACUUM counts the rows, and the deletes before it are subtracted once more when they are flushed |
| `QuotaRelief.cfg`: `HiddenReset = TRUE`, `MaxClientRev` 6, `MaxRev` 7, `limit` 6 | SampleCovers | as many inserts as before the reset hide it |
| `Nats.cfg`: `RequestFails = TRUE` | LeaseTracked | a Delete of the ExpireWatcher fails and is not tried again |
| `Nats.cfg`: `WaitTimeout = TRUE` | ReadYourWrites | a write is acknowledged before the index has it |
| `Nats.cfg`: `OtherNodes = TRUE` | IndexExact | the compact revision of another node is ahead of this node's consumer, which drops messages the index needs |
| `EtcdBridge.cfg`: `CountsCurrent = TRUE` | PageExact | a page at a past revision has the count of the current one in its header, as SQLLog.Count would answer |

The comment at `admitUpdate` (`kubehz_quota.go:803-806`) says that an update whose
compare revision is not the current one is answered without a new row.
FreePassNeverWrites states that and fails; FreePassWritesNothing, which holds and
is proved, is about the revisions there were at the read.

Behaviour that is modelled and that no property forbids, because the repository
promises nothing about it: a Put of an existing key answers success without
writing unless the key is the newest (`putUpdate`), both of two racing compact
transactions may report success (`compactWrite`), a NATS watch sends events
again after an error, a NATS node that loses its consumer during the first
replay never gets ready, one that restarts has forgotten its leases, and one that
dies between the two messages of a delete leaves a key that nobody can create.

## 6. Not modelled, and what is left

* PostgreSQL LISTEN/NOTIFY: it wakes the poll loop earlier than its ticker.
* Lease, cluster and maintenance services: constants and pass-through calls.
* t4 adapter, the NATS codec and embedded server, the remote driver: external
  stores and conversions without protocol state.
* SQL text, paging, schema migration, the repair of duplicate compact rows, and
  process plumbing (flags, TLS, metrics, listeners).
* In Nats: a Compact of a revision that nobody was told is left out; so is the
  restart of a consumer on an empty stream, which closes a closed channel, and
  the wake-up that is lost between the check and the wait of waitForSequence,
  since the timeout ends it.
* In the quota: the reservation of markHead, and the two relations (table and
  TOAST) whose counters the figure adds up.

Left to do, in this order: MemoryBackend as a refinement of RevisionedKV; several
watches of one stream in `watch_pipeline` with shared channels.
