------------------------------- MODULE Quota -------------------------------
(***************************************************************************)
(* pkg/server/kubehz_quota.go, the write path: quotaBackend admits a put   *)
(* by a figure made of atomics that concurrent writers and the sampler     *)
(* read and change one load, store or add at a time.                       *)
(*                                                                         *)
(* The database below it is abstract: per key its revision and value size, *)
(* and the bytes of all rows.  Its statistics are late: what a size query  *)
(* returns holds every row that was committed two sampling intervals       *)
(* before (PostgreSQL flushes the counters within 60 s), and of the        *)
(* younger rows any part.                                                  *)
(***************************************************************************)
EXTENDS Integers, Sequences, FiniteSets, FiniteSetsExt

CONSTANTS
  Writers,        \* requests in progress at the same time
  Keys,
  ControlKeys,    \* the keys with one of quotaControlPrefixes
  Sizes,          \* the value sizes of requests
  InitBytes,      \* the bytes stored when the process starts, one of these
  KeyLen,         \* the length of a key
  limit,          \* --quota-bytes
  CeilingMargin, CreateMargin, ControlReserve,
  ControlMaxValue, GrowthSlack,
  CloseTicks,     \* two samples may come without an interval between them
  MaxRev,         \* bound of the model: rows written
  MaxWritten      \* bound of the model: requests begin while `written' is below it

ASSUME QuotaAssumption ==
  /\ IsFiniteSet(Writers) /\ Keys # {} /\ ControlKeys \subseteq Keys
  /\ Sizes \subseteq Nat /\ InitBytes \subseteq Nat /\ KeyLen \in Nat
  /\ \A v \in Sizes : KeyLen + v > 0    \* no key is empty; a model may count its bytes as 0
  /\ limit \in Nat \ {0} /\ CloseTicks \in BOOLEAN
  /\ {CeilingMargin, CreateMargin, ControlReserve, ControlMaxValue, GrowthSlack, MaxRev, MaxWritten} \subseteq Nat

ceiling    == 2 * limit + CeilingMargin
createCap  == limit + CreateMargin
cleanupCap == ceiling - ControlReserve

VARIABLES
  live, written, committed, base,  \* the atomics of Quota
  marks,      \* committed at the start of the previous two good samples
  sampler,    \* the sampler goroutine: where it is and its local `mark'
  req,        \* per writer: its request
  row,        \* per key: revision and size of its newest row; rev 0: no live key
  revision,   \* the revision of the newest row
  old,        \* bytes of the rows every size query shows
  young,      \* bytes of the rows by sampling interval, the newest first
  uncounted   \* history: bytes of rows that the code knowingly does not count

atomics == <<live, written, committed, base>>
database == <<row, revision, old, young, uncounted>>
vars == <<atomics, marks, sampler, req, database>>

(***************************************************************************)
(* st: where the request is; lane: which threshold it is tried against;    *)
(* rev: the compare revision (0: a create); ahead (history): it was above  *)
(* the newest row when admitUpdate passed it; cost: its reservation; base, *)
(* live: what figure has loaded; wrote: the argument of settle.            *)
(***************************************************************************)
Idle == [st |-> "idle", lane |-> "below", key |-> CHOOSE k \in Keys : TRUE, val |-> 0,
         rev |-> 0, ahead |-> FALSE, cost |-> 0, base |-> 0, live |-> 0, wrote |-> FALSE]

Stored == old + young[1] + young[2] + young[3]

Figure == live + written - base

TypeOK ==
  /\ live \in Nat /\ written \in Nat /\ committed \in Nat /\ base \in Nat
  /\ marks \in Nat \X Nat
  /\ sampler \in [st : {"idle", "query", "advance"}, mark : Nat]
  /\ req \in [Writers -> [st : {"idle", "live", "reserve", "giveback", "admit", "call", "settle"},
                          lane : {"below", "create", "control", "cleanup"}, key : Keys, val : Nat,
                          rev : Nat, ahead : BOOLEAN, cost : Nat, base : Nat, live : Nat,
                          wrote : BOOLEAN]]
  /\ row \in [Keys -> [rev : 0 .. MaxRev, size : Nat]]
  /\ revision \in 0 .. MaxRev
  /\ old \in Nat /\ young \in Nat \X Nat \X Nat /\ uncounted \in Nat

(* Sample has run once before the first request; marks and base are still 0. *)
Init ==
  /\ old \in InitBytes
  /\ live = old
  /\ written = 0 /\ committed = 0 /\ base = 0 /\ marks = <<0, 0>>
  /\ sampler = [st |-> "idle", mark |-> 0]
  /\ req = [w \in Writers |-> Idle]
  /\ row = [k \in Keys |-> [rev |-> 0, size |-> 0]] /\ revision = 0
  /\ young = <<0, 0, 0>> /\ uncounted = 0

-----------------------------------------------------------------------------
(* The sampler. *)

(* Mutant of committedMark: the mark has the running writes too. *)
writtenMark == written

committedMark == committed

(***************************************************************************)
(* sample begins with its mark.  When a sampling interval has passed, the  *)
(* rows that are two intervals old are shown from now on.  With CloseTicks *)
(* it need not have: a tick that waited for a slow refresh runs right      *)
(* before the next one.                                                    *)
(***************************************************************************)
SampleBegins == \E interval \in (IF CloseTicks THEN BOOLEAN ELSE {TRUE}) :
  /\ sampler.st = "idle"
  /\ sampler' = [st |-> "query", mark |-> committedMark]
  /\ old' = IF interval THEN old + young[3] ELSE old
  /\ young' = IF interval THEN <<0, young[1], young[2]>> ELSE young
  /\ UNCHANGED <<atomics, marks, req, row, revision, uncounted>>

(* The live query fails: no term moves. *)
SampleFails ==
  /\ sampler.st = "query"
  /\ sampler' = [sampler EXCEPT !.st = "idle"]
  /\ UNCHANGED <<atomics, marks, req, database>>

(* The extremes of what a size query shows. *)
Shown == {old, Stored}

(* The sample is stored before the base moves. *)
SampleStored ==
  /\ sampler.st = "query"
  /\ live' \in Shown
  /\ sampler' = [sampler EXCEPT !.st = "advance"]
  /\ UNCHANGED <<written, committed, base, marks, req, database>>

(* Mutant of newBase: the mark of the last sample, not of the one before. *)
newBaseLast == marks[2]

newBase == marks[1]

SampleAdvances ==
  /\ sampler.st = "advance"
  /\ base' = newBase
  /\ marks' = <<marks[2], sampler.mark>>
  /\ sampler' = [sampler EXCEPT !.st = "idle"]
  /\ UNCHANGED <<live, written, committed, req, database>>

(* The re-read after a relief pass: advance = false. *)
Resample ==
  /\ sampler.st = "idle"
  /\ live' \in Shown
  /\ live' # live
  /\ UNCHANGED <<written, committed, base, marks, sampler, req, database>>

-----------------------------------------------------------------------------
(* Requests. *)

Step(w, r) == req' = [req EXCEPT ![w] = r]

(* figure(add) loads the base first ... *)
tries(r, lane, cost) == [r EXCEPT !.st = "live", !.lane = lane, !.cost = cost, !.base = base]

Create(w) ==
  /\ req[w].st = "idle" /\ written < MaxWritten
  /\ \E k \in Keys, v \in Sizes :
       Step(w, tries([Idle EXCEPT !.key = k, !.val = v], "below", KeyLen + v))
  /\ UNCHANGED <<atomics, marks, sampler, database>>

(* An update compares with any revision, also with one that no row has yet. *)
Update(w) ==
  /\ req[w].st = "idle" /\ written < MaxWritten
  /\ \E k \in Keys, v \in Sizes, r \in 1 .. MaxRev :
       Step(w, tries([Idle EXCEPT !.key = k, !.val = v, !.rev = r], "below", KeyLen + 2 * v))
  /\ UNCHANGED <<atomics, marks, sampler, database>>

(* ... then the live sample ... *)
LoadLive(w) ==
  /\ req[w].st = "live"
  /\ Step(w, [req[w] EXCEPT !.st = "reserve", !.live = live])
  /\ UNCHANGED <<atomics, marks, sampler, database>>

(* Mutant of reserveBelow: the check is made without the other reservations. *)
sampledBelow(r) == r.live < limit

(* ... and adds its cost to the reservations of all. *)
figure(r) == r.live + (written + r.cost) - r.base

reserveBelow(r) == figure(r) - r.cost < limit

(* Mutant of reserveWithin: the cleanup lane goes up to the ceiling. *)
reserveCeiling(r) == figure(r) <= IF r.lane = "create" THEN createCap ELSE ceiling

reserveWithin(r) ==
  figure(r) <= CASE r.lane = "create" -> createCap
                 [] r.lane = "control" -> ceiling
                 [] r.lane = "cleanup" -> cleanupCap

reserved(r) == IF r.lane = "below" THEN reserveBelow(r) ELSE reserveWithin(r)

decided(r, st) == [r EXCEPT !.st = st, !.base = 0, !.live = 0]

(* In a lane, a request that the figure lets through may be over the rate. *)
Reserve(w) ==
  /\ req[w].st = "reserve"
  /\ written' = written + req[w].cost
  /\ \/ reserved(req[w]) /\ Step(w, decided(req[w], "call"))
     \/ /\ ~reserved(req[w]) \/ req[w].lane # "below"
        /\ Step(w, decided(req[w], "giveback"))
  /\ UNCHANGED <<live, committed, base, marks, sampler, database>>

(* A refused request gives its bytes back; below the limit a lane is next. *)
GiveBack(w) ==
  /\ req[w].st = "giveback"
  /\ written' = written - req[w].cost
  /\ Step(w, IF req[w].lane = "below" THEN [req[w] EXCEPT !.st = "admit", !.cost = 0] ELSE Idle)
  /\ UNCHANGED <<live, committed, base, marks, sampler, database>>

isControl(r) == r.key \in ControlKeys /\ r.val <= ControlMaxValue

admitControlCreate(w) ==
  /\ req[w].st = "admit" /\ req[w].rev = 0
  /\ Step(w, IF isControl(req[w]) THEN tries(req[w], "create", KeyLen + req[w].val) ELSE Idle)
  /\ UNCHANGED <<atomics, marks, sampler, database>>

(* Mutant of loses: an update at the newest revision passes, too. *)
losesOrNot(r) == row[r.key].rev >= r.rev

(* An update that cannot write now passes without a reservation. *)
loses(r) == row[r.key].rev # r.rev

admitUpdate(w) ==
  LET r == req[w]  cur == row[r.key].size  cost == KeyLen + r.val + cur IN
  /\ r.st = "admit" /\ r.rev > 0
  /\ Step(w, IF loses(r) THEN [r EXCEPT !.st = "call", !.cost = 0, !.ahead = r.rev > revision]
             ELSE IF r.val - cur > GrowthSlack THEN Idle
             ELSE tries(r, IF isControl(r) THEN "control" ELSE "cleanup", cost))
  /\ UNCHANGED <<atomics, marks, sampler, database>>

(* The read of admitUpdate fails. *)
admitReadFails(w) ==
  /\ req[w].st = "admit" /\ req[w].rev > 0
  /\ Step(w, Idle)
  /\ UNCHANGED <<atomics, marks, sampler, database>>

(***************************************************************************)
(* The backend.  A row that a request writes holds the key, the value and  *)
(* the old value; a write may have happened although it reports an error.  *)
(***************************************************************************)
canWrite(r) == row[r.key].rev = r.rev

rowBytes(r) == KeyLen + r.val + row[r.key].size

insertRow(k, rev, size, bytes) ==
  /\ revision < MaxRev
  /\ revision' = revision + 1
  /\ row' = [row EXCEPT ![k] = [rev |-> rev, size |-> size]]
  /\ young' = [young EXCEPT ![1] = @ + bytes]
  /\ UNCHANGED old

(* What a row holds beyond its charge: an old value that was larger. *)
undercharged(r) == IF rowBytes(r) > r.cost /\ r.lane = "below" THEN rowBytes(r) - r.cost ELSE 0

settling(r, wrote) == [Idle EXCEPT !.st = "settle", !.cost = r.cost, !.wrote = wrote]

CallWrites(w) ==
  /\ req[w].st = "call" /\ canWrite(req[w])
  /\ insertRow(req[w].key, revision + 1, req[w].val, rowBytes(req[w]))
  /\ uncounted' = uncounted + undercharged(req[w])
  /\ Step(w, settling(req[w], TRUE))
  /\ UNCHANGED <<atomics, marks, sampler>>

(* An error, and no row. *)
CallFails(w) ==
  /\ req[w].st = "call"
  /\ Step(w, settling(req[w], TRUE))
  /\ UNCHANGED <<atomics, marks, sampler, database>>

(* ErrKeyExists, a lost compare-and-swap, or an update's failed insert reported as one. *)
CallRefused(w) ==
  /\ req[w].st = "call" /\ (~canWrite(req[w]) \/ req[w].rev > 0)
  /\ Step(w, settling(req[w], FALSE))
  /\ UNCHANGED <<atomics, marks, sampler, database>>

(***************************************************************************)
(* LogStructured.Update reports an insert with an error as a lost compare- *)
(* and-swap, although its row can be there.                                *)
(***************************************************************************)
CallSwallowed(w) ==
  /\ req[w].st = "call" /\ canWrite(req[w]) /\ req[w].rev > 0
  /\ insertRow(req[w].key, revision + 1, req[w].val, rowBytes(req[w]))
  /\ uncounted' = uncounted + rowBytes(req[w])
  /\ Step(w, settling(req[w], FALSE))
  /\ UNCHANGED <<atomics, marks, sampler>>

(* A delete passes through; its row keeps the old value. *)
Delete(k) ==
  /\ row[k].rev > 0
  /\ insertRow(k, 0, 0, KeyLen + row[k].size)
  /\ uncounted' = uncounted + KeyLen + row[k].size
  /\ UNCHANGED <<atomics, marks, sampler, req>>

(* Mutant of settle: a write that did not happen keeps its reservation. *)
settleKeeps(w) ==
  /\ req[w].st = "settle"
  /\ IF req[w].wrote THEN committed' = committed + req[w].cost ELSE UNCHANGED committed
  /\ Step(w, Idle)
  /\ UNCHANGED <<written, live, base, marks, sampler, database>>

settle(w) ==
  /\ req[w].st = "settle"
  /\ IF req[w].wrote THEN committed' = committed + req[w].cost /\ UNCHANGED written
     ELSE written' = written - req[w].cost /\ UNCHANGED committed
  /\ Step(w, Idle)
  /\ UNCHANGED <<live, base, marks, sampler, database>>

-----------------------------------------------------------------------------
Request(w) ==
  \/ Create(w) \/ Update(w) \/ LoadLive(w) \/ Reserve(w) \/ GiveBack(w)
  \/ admitControlCreate(w) \/ admitUpdate(w) \/ admitReadFails(w)
  \/ CallWrites(w) \/ CallFails(w) \/ CallRefused(w) \/ CallSwallowed(w) \/ settle(w)

Sampler == SampleBegins \/ SampleFails \/ SampleStored \/ SampleAdvances \/ Resample

Next == Sampler \/ (\E w \in Writers : Request(w)) \/ \E k \in Keys : Delete(k)

Spec == Init /\ [][Next]_vars

-----------------------------------------------------------------------------
(* Properties. *)

Costs(r, S) == MapThenSumSet(LAMBDA w : r[w].cost, S)

Others(w) == {x \in Writers \ {w} : req[x].st = "call"}

(***************************************************************************)
(* The figure never reads low: with the rows the code does not count by    *)
(* design (deletes, shrinking values, swallowed errors, an update that     *)
(* compares with a later revision than there was), it is at least the      *)
(* bytes stored, whatever part of the young rows the statistics show, at   *)
(* every point of a sample, and with writes running at its marks.          *)
(***************************************************************************)
FigureCovers == Figure + uncounted >= Stored

(* What a request that its lane admits may leave at most: stored and reserved bytes. *)
capOf(lane) ==
  CASE lane = "below" -> limit - 1
    [] lane = "create" -> createCap
    [] lane = "control" -> ceiling
    [] lane = "cleanup" -> cleanupCap

(***************************************************************************)
(* "Concurrent writes see each other: the limit is passed by one write at  *)
(* most".  When reserveBelow admits a request, the bytes stored and those  *)
(* of every other admitted request are below the limit; when a lane admits *)
(* one, they and its own are within that lane's cap (creates: createCap,   *)
(* control updates: the ceiling, cleanup: the ceiling less the reserve).   *)
(* The stored bytes are those the code counts: without `uncounted'.        *)
(***************************************************************************)
LimitHolds == [][\A w \in Writers :
  req[w].st = "reserve" /\ req'[w].st = "call" =>
    Stored - uncounted + Costs(req, Others(w)) + (IF req[w].lane = "below" THEN 0 ELSE req[w].cost)
      <= capOf(req[w].lane)]_vars

(***************************************************************************)
(* An update that was let through without a reservation, because the key   *)
(* is not at the revision it compares with, writes no row, if a row had    *)
(* that revision by then: whatever others do to the key, it does not get   *)
(* the revision again.  An update that compares with a later revision can. *)
(***************************************************************************)
FreePassWritesNothing == \A w \in Writers :
  req[w].st = "call" /\ req[w].rev > 0 /\ req[w].cost = 0 /\ ~req[w].ahead => ~canWrite(req[w])

(***************************************************************************)
(* What the comment at admitUpdate says of every update that passes        *)
(* without a reservation: the backend answers it without a new row.  It    *)
(* fails for one that compares with a later revision.                      *)
(***************************************************************************)
FreePassNeverWrites == \A w \in Writers :
  req[w].st = "call" /\ req[w].rev > 0 /\ req[w].cost = 0 => ~canWrite(req[w])

(***************************************************************************)
(* Every reservation is given back or committed exactly once: what is      *)
(* reserved and not committed is the cost of the requests in progress.     *)
(***************************************************************************)
Holding == {w \in Writers : req[w].st \in {"giveback", "call", "settle"}}
ReservationsBalance == written - committed = Costs(req, Holding)
=============================================================================
