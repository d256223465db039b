--------------------------- MODULE WatchPipeline --------------------------
(***************************************************************************)
(* How an event travels from the poll loop of a node to the client of a    *)
(* watch stream: pkg/broadcaster, SQLLog.Watch and After,                  *)
(* LogStructured.Watch, and the watches of a stream in pkg/server/watch.go *)
(* (their progress notifications: WatchProgress).                          *)
(*                                                                         *)
(* An event is its revision.  The poll loop is the one of SQLPoll seen     *)
(* from outside: it hands out the visible rows in the order of their ids   *)
(* and without holes.  The channels `sub' and `res' of a watch, and the    *)
(* goroutine of SQLLog.Watch between them, are one bounded queue here; so  *)
(* is `result'.  The item a goroutine holds is still in the queue it came  *)
(* from.                                                                   *)
(***************************************************************************)
EXTENDS Integers, Sequences, FiniteSets, SequencesExt

CONSTANTS
  Watches,     \* the watches a stream may create
  InRange,     \* per watch: the revisions whose key is in its range
  Cap,         \* the capacity of a channel (100 in the code)
  MaxRev,      \* bound of the model: the last revision
  Starts,      \* the start revisions clients ask for
  LateCommit   \* may a row become visible after a row with a higher id?

ASSUME WatchAssumption ==
  /\ InRange \in [Watches -> SUBSET (1 .. MaxRev)]
  /\ Cap \in Nat \ {0}
  /\ MaxRev \in Nat \ {0}
  /\ Starts \subseteq 0 .. MaxRev
  /\ LateCommit \in BOOLEAN

VARIABLES
  rows,        \* the ids of the visible rows
  compactRev,  \* the compact revision
  running,     \* Broadcaster.running, and with it the poll loop
  pollRev,     \* the poll loop's revision: what it has handed out
  polledRev,   \* SQLLog.polledRev
  item,        \* the item Broadcaster.stream has received and not yet spread
  subs,        \* Broadcaster.subs
  doomed,      \* the watches with a pending `go unsub' (slow consumer)
  sub,         \* per watch: the queue of its subscription
  result,      \* per watch: the queue the server reads
  watch,       \* per watch: the locals of its goroutines
  got,         \* per watch: the revisions sent to the client, in order
  maxRevision, \* server.maxRevision of the stream
  closed       \* the stream's handler has returned

vars == <<rows, compactRev, running, pollRev, polledRev, item, subs, doomed, sub, result,
          watch, got, maxRevision, closed>>

db       == <<rows, compactRev>>
pollVars == <<running, pollRev, polledRev>>
subVars  == <<subs, doomed, sub>>
client   == <<got, maxRevision>>

Revs == 0 .. MaxRev

(***************************************************************************)
(* st: where watcher.watch is; live: the id is in watcher.watches;         *)
(* progress: it has a progress channel; ctx: its context is not done;      *)
(* chan: its subscription; fwd: the goroutine of LogStructured.Watch;      *)
(* last: lastRevision; from: the revision its history starts after;        *)
(* failed: the history could not be read; max: maxRev of the loop; missed: *)
(* history, the broadcaster has left it out once.                          *)
(***************************************************************************)
WatchState ==
  [st : {"none", "created", "subscribed", "loop", "ended"}, start : Revs,
   progress : BOOLEAN, live : BOOLEAN, ctx : BOOLEAN,
   chan : {"none", "open", "closed", "nil"}, fwd : {"off", "on", "done"},
   last : Revs, from : Revs, failed : BOOLEAN, max : Revs, missed : BOOLEAN]

TypeOK ==
  /\ rows \in SUBSET Revs /\ compactRev \in Revs
  /\ running \in BOOLEAN /\ pollRev \in Revs /\ polledRev \in Revs
  /\ item \in Seq(Revs)
  /\ subs \in SUBSET Watches /\ doomed \in SUBSET Watches
  /\ sub \in [Watches -> Seq(Seq(Revs))] /\ result \in [Watches -> Seq(Seq(Revs))]
  /\ \A w \in Watches : Len(sub[w]) <= Cap /\ Len(result[w]) <= Cap
  /\ watch \in [Watches -> WatchState]
  /\ got \in [Watches -> Seq(Revs)]
  /\ maxRevision \in Revs /\ closed \in BOOLEAN

NoWatch ==
  [st |-> "none", start |-> 0, progress |-> FALSE, live |-> FALSE, ctx |-> TRUE,
   chan |-> "none", fwd |-> "off", last |-> 0, from |-> 0, failed |-> FALSE,
   max |-> 0, missed |-> FALSE]

Init ==
  /\ rows = {1} /\ compactRev = 0
  /\ running = FALSE /\ pollRev = 0 /\ polledRev = 0
  /\ item = <<>> /\ subs = {} /\ doomed = {}
  /\ sub = [w \in Watches |-> <<>>]
  /\ result = [w \in Watches |-> <<>>]
  /\ watch = [w \in Watches |-> NoWatch]
  /\ got = [w \in Watches |-> <<>>]
  /\ maxRevision = 0
  /\ closed = FALSE

(* The ids of S in ascending order. *)
Sorted(S) ==
  [i \in 1 .. Cardinality(S) |-> CHOOSE x \in S : Cardinality({y \in S : y <= x}) = i]

CurrentRevision == Max(rows)

-----------------------------------------------------------------------------
(* The table, as SQLPoll and LogStructured describe it. *)

(* A row becomes visible; LateCommit: an id is passed over and comes later. *)
Write ==
  /\ \E r \in (1 .. MaxRev) \ rows :
       /\ r <= CurrentRevision + (IF LateCommit THEN 2 ELSE 1)
       /\ rows' = rows \cup {r}
  /\ UNCHANGED <<compactRev, pollVars, item, subVars, result, watch, client, closed>>

(* The compact revision moves up, behind the poll loop. *)
Compact ==
  /\ running
  /\ \E r \in (compactRev + 1) .. (pollRev - 1) : compactRev' = r
  /\ UNCHANGED <<rows, pollVars, item, subVars, result, watch, client, closed>>

(***************************************************************************)
(* poll: the rows that follow without a hole go to the broadcaster; the    *)
(* channel has no buffer, so stream must be back at its receive.           *)
(***************************************************************************)
Poll ==
  /\ running
  /\ item = <<>>
  /\ \E last \in (pollRev + 1) .. MaxRev :
       /\ \A r \in (pollRev + 1) .. last : r \in rows
       /\ last + 1 \notin rows
       /\ item' = [i \in 1 .. (last - pollRev) |-> pollRev + i]
       /\ pollRev' = last
  /\ UNCHANGED <<db, running, polledRev, subVars, result, watch, client, closed>>

(* Mutant of PolledRev: the revision before the last one is stored. *)
PolledRevShort ==
  /\ running
  /\ polledRev' = pollRev - 1
  /\ UNCHANGED <<db, running, pollRev, item, subVars, result, watch, client, closed>>

(* The poll loop wakes up and says how far it has come. *)
PolledRev ==
  /\ running
  /\ polledRev' = pollRev
  /\ UNCHANGED <<db, running, pollRev, item, subVars, result, watch, client, closed>>

-----------------------------------------------------------------------------
(* pkg/broadcaster *)

(* Mutant of stream: the slow consumer is left out and stays subscribed. *)
streamKeeps ==
  /\ item # <<>>
  /\ LET slow == {w \in subs : Len(sub[w]) = Cap} IN
     /\ sub' = [w \in Watches |-> IF w \in subs \ slow THEN Append(sub[w], item) ELSE sub[w]]
     /\ watch' = [w \in Watches |-> IF w \in slow THEN [watch[w] EXCEPT !.missed = TRUE]
                                                  ELSE watch[w]]
  /\ item' = <<>>
  /\ UNCHANGED <<db, pollVars, subs, doomed, result, client, closed>>

(* One item to every subscriber; the one that is full gets a `go unsub'. *)
stream ==
  /\ item # <<>>
  /\ LET slow == {w \in subs : Len(sub[w]) = Cap} IN
     /\ sub' = [w \in Watches |-> IF w \in subs \ slow THEN Append(sub[w], item) ELSE sub[w]]
     /\ doomed' = doomed \cup slow
     /\ watch' = [w \in Watches |-> IF w \in slow THEN [watch[w] EXCEPT !.missed = TRUE]
                                                  ELSE watch[w]]
  /\ item' = <<>>
  /\ UNCHANGED <<db, pollVars, subs, result, client, closed>>

(* Mutant of unsub: the channel is removed and not closed. *)
unsubOpen(w) ==
  /\ w \in subs
  /\ w \in doomed \/ ~watch[w].ctx
  /\ subs' = subs \ {w}
  /\ doomed' = doomed \ {w}
  /\ UNCHANGED <<db, pollVars, item, sub, result, watch, client, closed>>

(* Close and remove a subscription: a slow consumer, or its context is done. *)
unsub(w) ==
  /\ w \in subs
  /\ w \in doomed \/ ~watch[w].ctx
  /\ subs' = subs \ {w}
  /\ doomed' = doomed \ {w}
  /\ watch' = [watch EXCEPT ![w].chan = "closed"]
  /\ UNCHANGED <<db, pollVars, item, sub, result, client, closed>>

(* The server's context ends: poll closes its channel, stream every sub. *)
streamEnd ==
  /\ running
  /\ item = <<>>
  /\ running' = FALSE
  /\ subs' = {}
  /\ doomed' = {}
  /\ watch' = [w \in Watches |-> IF w \in subs THEN [watch[w] EXCEPT !.chan = "closed"]
                                               ELSE watch[w]]
  /\ UNCHANGED <<db, pollRev, polledRev, item, sub, result, client, closed>>

(* connect is SQLLog.startWatch: it reads MAX(id) and starts the poll loop. *)
start ==
  /\ ~running /\ pollRev = 0
  /\ running' = TRUE
  /\ pollRev' = CurrentRevision

Subscribe(w) ==
  /\ (running /\ UNCHANGED <<running, pollRev>>) \/ start
  /\ subs' = subs \cup {w}

(* SQLLog.Watch: when the broadcaster cannot start it returns a nil channel. *)
WatchBegins(w) ==
  /\ watch[w].st = "created"
  /\ \/ /\ Subscribe(w)
        /\ watch' = [watch EXCEPT ![w] = [@ EXCEPT !.st = "subscribed", !.chan = "open"]]
     \/ /\ ~running
        /\ watch' = [watch EXCEPT ![w] = [@ EXCEPT !.st = "subscribed", !.chan = "nil"]]
        /\ UNCHANGED <<running, pollRev, subs>>
  /\ UNCHANGED <<db, polledRev, item, doomed, sub, result, client, closed>>

-----------------------------------------------------------------------------
(* LogStructured.Watch *)

(* Mutant of afterRevision: revision 0 is lowered too. *)
afterRevisionLow(w) == watch[w].start - 1

(* The history of a watch starts after this revision. *)
afterRevision(w) == IF watch[w].start > 1 THEN watch[w].start - 1 ELSE watch[w].start

(* The events after this revision are promised: at revision 0, what is not compacted. *)
promisedFrom(w) == IF watch[w].start = 0 THEN compactRev ELSE afterRevision(w)

Compacted(w) == afterRevision(w) > 0 /\ afterRevision(w) < compactRev

(* Mutant of lastRevision: the live events are cut where the history begins. *)
lastRevisionOfStart(w, kvs) == afterRevision(w)

(* The live events up to this revision have been sent with the history. *)
lastRevision(w, kvs) == IF kvs = {} THEN afterRevision(w) ELSE CurrentRevision

(***************************************************************************)
(* SQLLog.After: the rows of the range after the start, without some of    *)
(* the compacted ones when the start is revision 0.                        *)
(***************************************************************************)
After(w) ==
  LET found == {r \in rows \cap InRange[w] : r > afterRevision(w)}
  IN  {found \ gone : gone \in SUBSET {r \in found : r <= compactRev}}

(* The history is queued and the forwarding goroutine starts. *)
History(w) ==
  /\ watch[w].st = "subscribed"
  /\ ~Compacted(w)
  /\ \E kvs \in After(w) :
       /\ watch' = [watch EXCEPT ![w] = [@ EXCEPT !.st = "loop", !.fwd = "on",
                      !.last = lastRevision(w, kvs),
                      !.from = promisedFrom(w)]]
       /\ result' = [result EXCEPT ![w] = IF kvs = {} THEN <<>> ELSE <<Sorted(kvs)>>]
  /\ UNCHANGED <<db, pollVars, item, subVars, client, closed>>

(***************************************************************************)
(* ErrCompacted: the server cancels the watch with both revisions.  If the *)
(* compact revision cannot be read it does not notice (see HistoryFails).  *)
(***************************************************************************)
HistoryCompacted(w) ==
  /\ watch[w].st = "subscribed"
  /\ Compacted(w)
  /\ watch' = [watch EXCEPT ![w] = [@ EXCEPT !.st = "ended", !.fwd = "on", !.ctx = FALSE,
                                    !.live = FALSE, !.progress = FALSE]]
  /\ UNCHANGED <<db, pollVars, item, subVars, result, client, closed>>

(* The read fails: the context is cancelled, the live events still go out. *)
HistoryFails(w) ==
  /\ watch[w].st = "subscribed"
  /\ watch' = [watch EXCEPT ![w] = [@ EXCEPT !.st = "loop", !.fwd = "on", !.ctx = FALSE,
                 !.last = afterRevision(w), !.from = promisedFrom(w), !.failed = TRUE]]
  /\ UNCHANGED <<db, pollVars, item, subVars, result, client, closed>>

(* The filter of sqllog passes the events of the range. *)
filterRange(w) == InRange[w]

(* Mutant of filter: the revision after the last one is dropped too. *)
filterWide(rev) == (rev + 2) .. MaxRev

(* The filter of logstructured passes the events the history did not have. *)
filter(rev) == (rev + 1) .. MaxRev

(* The events that pass a filter, in the order in which they come. *)
Keep(events, pass) ==
  LET kept == Sorted({i \in DOMAIN events : events[i] \in pass})
  IN  [j \in DOMAIN kept |-> events[kept[j]]]

(* What is left of an item on its way; the filter of sqllog drops it whole. *)
Forwarded(w) == Keep(Head(sub[w]), filterRange(w) \cap filter(watch[w].last))

OutOfRange(w) == ToSet(Head(sub[w])) \cap filterRange(w) = {}

(* Mutant of Forward: it drops the item when the channel is full. *)
ForwardDrops(w) ==
  /\ watch[w].fwd = "on"
  /\ sub[w] # <<>>
  /\ IF OutOfRange(w) \/ Len(result[w]) = Cap THEN UNCHANGED result
     ELSE result' = [result EXCEPT ![w] = Append(@, Forwarded(w))]
  /\ sub' = [sub EXCEPT ![w] = Tail(@)]
  /\ UNCHANGED <<db, pollVars, item, subs, doomed, watch, client, closed>>

(* The forwarding goroutine passes an item on, though the history left it empty. *)
Forward(w) ==
  /\ watch[w].fwd = "on"
  /\ sub[w] # <<>>
  /\ \/ OutOfRange(w) /\ UNCHANGED result
     \/ /\ ~OutOfRange(w) /\ Len(result[w]) < Cap
        /\ result' = [result EXCEPT ![w] = Append(@, Forwarded(w))]
  /\ sub' = [sub EXCEPT ![w] = Tail(@)]
  /\ UNCHANGED <<db, pollVars, item, subs, doomed, watch, client, closed>>

(* readChan is closed and read to its end: close(result), cancel(). *)
ForwardEnds(w) ==
  /\ watch[w].fwd = "on"
  /\ watch[w].chan = "closed"
  /\ sub[w] = <<>>
  /\ watch' = [watch EXCEPT ![w] = [@ EXCEPT !.fwd = "done", !.ctx = FALSE]]
  /\ UNCHANGED <<db, pollVars, item, subVars, result, client, closed>>

-----------------------------------------------------------------------------
(* watcher, the watches of one stream *)

(* server.Send: the header's revision never goes back. *)
Send(rev) == maxRevision' = IF rev > maxRevision THEN rev ELSE maxRevision

(* A create request; a rejected one (CancelEarly) changes nothing. *)
Create(w, s, p) ==
  /\ ~closed
  /\ watch[w].st = "none"
  /\ watch' = [watch EXCEPT ![w] = [NoWatch EXCEPT !.st = "created", !.start = s,
                                    !.progress = p, !.live = TRUE]]
  /\ UNCHANGED <<db, pollVars, item, subVars, result, client, closed>>

(***************************************************************************)
(* The loop of watcher.watch reads all that is queued and sends it, unless *)
(* that is nothing, or ends before the start of the watch.                 *)
(***************************************************************************)
Receive(w) ==
  /\ watch[w].st = "loop"
  /\ result[w] # <<>>
  /\ LET events == FlattenSeq(result[w])
         sends  == events # <<>> /\ Last(events) >= watch[w].start
     IN  /\ watch' = IF sends THEN [watch EXCEPT ![w].max = Last(events)] ELSE watch
         /\ Send(IF sends THEN Last(events) ELSE 0)
         /\ got' = IF sends /\ ~closed THEN [got EXCEPT ![w] = @ \o events] ELSE got
  /\ result' = [result EXCEPT ![w] = <<>>]
  /\ UNCHANGED <<db, pollVars, item, subVars, closed>>

(* removeWatch *)
Removed(s) == [s EXCEPT !.live = FALSE, !.progress = FALSE, !.ctx = FALSE]

(* The Created message cannot be sent: the watch ends at once. *)
CreatedFails(w) ==
  /\ watch[w].st = "created"
  /\ watch' = [watch EXCEPT ![w] = [Removed(@) EXCEPT !.st = "ended"]]
  /\ UNCHANGED <<db, pollVars, item, subVars, result, client, closed>>

(* The events channel is closed: cancel the watch and end. *)
WatchEnds(w) ==
  /\ watch[w].st = "loop"
  /\ watch[w].fwd = "done"
  /\ result[w] = <<>>
  /\ watch' = [watch EXCEPT ![w] = [Removed(@) EXCEPT !.st = "ended"]]
  /\ UNCHANGED <<db, pollVars, item, subVars, result, client, closed>>

(* A cancel request of the client. *)
Cancel(w) ==
  /\ ~closed
  /\ watch[w].live
  /\ watch' = [watch EXCEPT ![w] = Removed(@)]
  /\ UNCHANGED <<db, pollVars, item, subVars, result, client, closed>>

(* The client goes away: every watch of the stream is cancelled. *)
Close ==
  /\ ~closed
  /\ closed' = TRUE
  /\ watch' = [w \in Watches |-> IF watch[w].live THEN Removed(watch[w]) ELSE watch[w]]
  /\ UNCHANGED <<db, pollVars, item, subVars, result, client>>

-----------------------------------------------------------------------------
Database == Write \/ Compact

Broadcast == Poll \/ PolledRev \/ stream \/ streamEnd \/ \E w \in Watches : unsub(w)

BackendWatch(w) ==
  \/ WatchBegins(w) \/ History(w) \/ HistoryCompacted(w) \/ HistoryFails(w)
  \/ Forward(w) \/ ForwardEnds(w)

ServerWatch(w) ==
  \/ \E s \in Starts, p \in BOOLEAN : Create(w, s, p)
  \/ CreatedFails(w) \/ Receive(w) \/ WatchEnds(w) \/ Cancel(w)

Next ==
  \/ Database \/ Broadcast \/ Close
  \/ \E w \in Watches : BackendWatch(w) \/ ServerWatch(w)

Spec == Init /\ [][Next]_vars

(***************************************************************************)
(* Fairness: the goroutines run.  The database, the client and the         *)
(* server's context owe nothing.                                           *)
(***************************************************************************)
Fairness ==
  /\ WF_vars(Poll) /\ WF_vars(PolledRev) /\ WF_vars(stream)
  /\ \A w \in Watches :
       /\ WF_vars(unsub(w)) /\ WF_vars(BackendWatch(w))
       /\ WF_vars(Receive(w)) /\ WF_vars(WatchEnds(w))

FairSpec == Spec /\ Fairness

-----------------------------------------------------------------------------
(* Properties. *)

(* Event r belongs to watch w and comes no later than what it was sent. *)
Due(w, r) ==
  /\ r \in rows \cap InRange[w]
  /\ r > watch[w].from
  /\ \E i \in DOMAIN got[w] : r <= got[w][i]

(***************************************************************************)
(* What a watch sends has no holes: between its start and the newest event *)
(* it has sent, every event of its range was sent, whether it came with    *)
(* the history or from the live channel, and however the two overlap.      *)
(* Excepted are the watches the broadcaster has left out and those whose   *)
(* history could not be read: they are on their way to be cancelled.       *)
(***************************************************************************)
NoSilentGap == \A w \in Watches : ~watch[w].missed /\ ~watch[w].failed =>
  \A r \in Revs : Due(w, r) => Contains(got[w], r)

(* No event is sent twice, or after a later one, by history and live channel. *)
InOrderOnce == \A w \in Watches : \A i, j \in DOMAIN got[w] : i < j => got[w][i] < got[w][j]

(***************************************************************************)
(* LogStructured.Watch: "starting watching right away so we don't miss     *)
(* anything".  NoSilentGap for every watch.                                *)
(***************************************************************************)
NothingMissed == \A w \in Watches, r \in Revs : Due(w, r) => Contains(got[w], r)

(***************************************************************************)
(* A watch the broadcaster has left out, or whose history failed, does not *)
(* stay open with a hole: it ends, and the client hears of it.             *)
(***************************************************************************)
BrokenWatchEnds == \A w \in Watches :
  (watch[w].missed \/ watch[w].failed) /\ watch[w].chan # "nil" ~> watch[w].st = "ended"

(***************************************************************************)
(* A cancelled watch, or one of a closed stream, ends: Close waits for     *)
(* every goroutine of the stream.  A watch without a subscription (nil     *)
(* channel) does not.                                                      *)
(***************************************************************************)
CancelledEnds == \A w \in Watches :
  watch[w].st # "none" /\ ~watch[w].live ~> watch[w].st = "ended" \/ watch[w].chan = "nil"

(***************************************************************************)
(* Every event of the range of an open watch is sent in the end, or the    *)
(* watch ends: nothing is stuck in a full channel or a stopped goroutine.  *)
(***************************************************************************)
EventsArrive == \A w \in Watches, r \in 1 .. MaxRev :
  /\ watch[w].st = "loop" /\ watch[w].chan # "nil"
  /\ r \in rows \cap InRange[w] /\ r > watch[w].from
  ~> Contains(got[w], r) \/ watch[w].st = "ended"
=============================================================================
