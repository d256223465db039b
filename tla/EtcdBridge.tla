----------------------------- MODULE EtcdBridge -----------------------------
(***************************************************************************)
(* pkg/server: the etcd KV service as LimitedServer builds it from calls   *)
(* of the backend.  Every call is atomic (here: in the memory backend), a  *)
(* request of several calls is not: a range with a limit lists and then    *)
(* counts, an update of a key that must not exist creates and then reads,  *)
(* a put creates, reads and updates, the apiserver's compact transaction   *)
(* reads and then writes.  Clients and compactions run in between.         *)
(*                                                                         *)
(* Keys are numbers, so that a range has an order; the apiserver's         *)
(* compact_rev_key is kept under compactRevAPI with a version before its   *)
(* value.                                                                  *)
(***************************************************************************)
EXTENDS MemoryBackend, FiniteSets

CONSTANTS
  Clients,
  compactRevAPI,   \* the stored key, in Keys
  Limit,           \* the limit of a range
  CountsCurrent    \* does Count answer with the current revision, as SQLLog's does?

ASSUME BridgeAssumption ==
  /\ Keys \subseteq Nat /\ IsFiniteSet(Keys) /\ compactRevAPI \in Keys
  /\ Limit \in Nat \ {0} /\ CountsCurrent \in BOOLEAN

VARIABLES
  req,      \* per client: the request it waits for
  answer,   \* per client: the last answer
  versions  \* the version encoded in the value of every entry ever written, 0 for other keys

bridge == <<req, answer, versions>>
vars == <<memVars, bridge>>

UserKeys == Keys \ {compactRevAPI}

NoReq == [st |-> "idle", key |-> compactRevAPI, rev |-> 0, page |-> {}]

(* kind: the operation; ok: Succeeded; rev: the header; kvs: the entries; count, more: of a range. *)
Answer == [kind : {"none", "txn", "update", "put", "range", "compact", "error"}, ok : BOOLEAN, rev : Revs,
           kvs : SUBSET Entry, count : Nat, more : BOOLEAN]

NoAnswer == [kind |-> "none", ok |-> FALSE, rev |-> 0, kvs |-> {}, count |-> 0, more |-> FALSE]

TypeOK ==
  /\ MemoryTypeOK
  /\ req \in [Clients -> [st : {"idle", "updateGet", "putGet", "putUpdate", "count", "compactWrite", "compactGet"},
                          key : Keys, rev : Revs, page : SUBSET Entry]]
  /\ DOMAIN answer = Clients /\ \A c \in Clients : answer[c].kvs \subseteq Entry /\ answer[c] \in
       [kind : {"none", "txn", "update", "put", "range", "compact", "error"}, ok : BOOLEAN, rev : Revs,
        kvs : {answer[c].kvs}, count : 0 .. Cardinality(Keys), more : BOOLEAN]
  /\ versions \in Seq(Revs) /\ Len(versions) = Len(written)

Init ==
  /\ MemoryInit
  /\ req = [c \in Clients |-> NoReq]
  /\ answer = [c \in Clients |-> NoAnswer]
  /\ versions = <<>>

-----------------------------------------------------------------------------
(* Transactions are told by their shape. *)

Shapes == [target : {"none", "mod", "version"}, rev : Revs, success : {"put", "delete", "range+delete"},
           failure : {"none", "range"}, key : Keys]

isCreate(t) == t.target = "mod" /\ t.rev = 0 /\ t.failure = "none" /\ t.success = "put"

isDelete(t) ==
  \/ t.target = "none" /\ t.failure = "none" /\ t.success = "range+delete"
  \/ t.target = "mod" /\ t.failure = "range" /\ t.success = "delete"

isUpdate(t) == t.target = "mod" /\ t.success = "put" /\ t.failure = "range"

isCompact(t) == t.target = "version" /\ t.success = "put" /\ t.failure = "range" /\ t.key = compactRevAPI

(* What clients send: only compact transactions are about the compact key, a revision is one of *)
(* the compare; one transaction stands for all that are not supported.                          *)
Txns == {t \in Shapes :
  IF isCreate(t) \/ isDelete(t) \/ isUpdate(t)
  THEN t.key # compactRevAPI /\ (t.target = "none" => t.rev = 0)
  ELSE isCompact(t) \/ t = [target |-> "none", rev |-> 0, success |-> "put", failure |-> "none", key |-> compactRevAPI]}

(* The request goes on to its next call, or is answered. *)
GoesOn(c, st, key, rev, page) ==
  /\ req' = [req EXCEPT ![c] = [st |-> st, key |-> key, rev |-> rev, page |-> page]]
  /\ answer' = [answer EXCEPT ![c] = NoAnswer]

Answers(c, a) ==
  /\ req' = [req EXCEPT ![c] = NoReq]
  /\ answer' = [answer EXCEPT ![c] = a]

Ok(kind, rev) == [NoAnswer EXCEPT !.kind = kind, !.ok = TRUE, !.rev = rev]
Failed(kind, rev, kvs) == [NoAnswer EXCEPT !.kind = kind, !.rev = rev, !.kvs = kvs, !.count = Cardinality(kvs)]
Errs == [NoAnswer EXCEPT !.kind = "error"]

(* An entry is appended; its value holds version v. *)
Encodes(v) == versions' = Append(versions, v)

ReadOnly == UNCHANGED <<memVars, versions>>

(* The entry of key k at revision r, as a set of none or one. *)
Get(k, r) == List({k}, r)

-----------------------------------------------------------------------------
create(c, k) ==
  IF Live(k)
  THEN Answers(c, Failed("txn", currentRevision, {})) /\ ReadOnly
  ELSE Create(k, FALSE) /\ Encodes(0) /\ Answers(c, Ok("txn", nextRevision))

delete(c, k, r) ==
  IF Deletes(k, r)
  THEN Delete(k, r) /\ Encodes(0) /\ Answers(c, [Ok("txn", nextRevision) EXCEPT !.kvs = Get(k, 0), !.count = 1])
  ELSE Answers(c, Failed("txn", currentRevision, Get(k, 0))) /\ ReadOnly

(* With revision 0 the key must not exist: Create, and Get at the revision of the refusal. *)
update(c, k, r) ==
  IF r = 0
  THEN IF Live(k)
       THEN GoesOn(c, "updateGet", k, currentRevision, {}) /\ ReadOnly
       ELSE Create(k, FALSE) /\ Encodes(0) /\ Answers(c, Ok("update", nextRevision))
  ELSE IF Live(k) /\ latest(k).rev = r
       THEN Update(k, r, FALSE) /\ Encodes(0) /\ Answers(c, Ok("txn", nextRevision))
       ELSE Answers(c, Failed("txn", currentRevision, Get(k, 0))) /\ ReadOnly

(* Mutant of refusalRev: the current value. *)
refusalRevNow(r) == 0

(* The revision at which the refused key is read. *)
refusalRev(r) == r

updateGet(c) ==
  LET q == req[c] IN
  /\ q.st = "updateGet"
  /\ Answers(c, IF ErrCompacted(refusalRev(q.rev)) THEN Errs
                ELSE Failed("update", q.rev, Get(q.key, refusalRev(q.rev))))
  /\ ReadOnly

(* Put: Create, Get, and Update at the revision that Get answered. *)
Put(c, k) ==
  IF Live(k)
  THEN GoesOn(c, "putGet", k, currentRevision, {}) /\ ReadOnly
  ELSE Create(k, FALSE) /\ Encodes(0) /\ Answers(c, Ok("put", nextRevision))

putGet(c) ==
  LET q == req[c] IN
  /\ q.st = "putGet"
  /\ IF ErrCompacted(q.rev) THEN Answers(c, Errs) ELSE GoesOn(c, "putUpdate", q.key, q.rev, {})
  /\ ReadOnly

putUpdate(c) ==
  LET q == req[c] IN
  /\ q.st = "putUpdate"
  /\ IF Live(q.key) /\ latest(q.key).rev = q.rev
     THEN Update(q.key, q.rev, FALSE) /\ Encodes(0) /\ Answers(c, Ok("put", nextRevision))
     ELSE Answers(c, Ok("put", currentRevision)) /\ ReadOnly

-----------------------------------------------------------------------------
(* Ranges. *)

(* The first entries of the keys, at most n. *)
firstOf(entries, n) == {e \in entries : Cardinality({f \in entries : f.key < e.key}) < n}

Headed(r) == IF r > 0 THEN r ELSE currentRevision

(* list: one entry more than the limit tells that there are more. *)
list(c, r) ==
  LET kvs == firstOf(List(UserKeys, r), Limit + 1) IN
  IF ErrFutureRev(r) \/ ErrCompacted(r) THEN Answers(c, Errs) /\ ReadOnly
  ELSE IF Cardinality(kvs) > Limit
  THEN GoesOn(c, "count", compactRevAPI, Headed(r), firstOf(kvs, Limit)) /\ ReadOnly
  ELSE Answers(c, [NoAnswer EXCEPT !.kind = "range", !.ok = TRUE, !.rev = Headed(r), !.kvs = kvs,
                                   !.count = Cardinality(kvs)]) /\ ReadOnly

(* Mutant of countRev: the revision of the request, 0 for the current one. *)
countRevAsked(r) == 0

(* The keys are counted at the revision of the list. *)
countRev(r) == r

(* Count of the backend answers with a revision too, which becomes the header. *)
count(c) ==
  LET q == req[c]  r == countRev(q.rev) IN
  /\ q.st = "count"
  /\ Answers(c, IF ErrCompacted(r) THEN Errs
       ELSE [kind |-> "range", ok |-> TRUE, rev |-> IF CountsCurrent THEN currentRevision ELSE Headed(r),
             kvs |-> q.page, count |-> Cardinality(List(UserKeys, r)), more |-> TRUE])
  /\ ReadOnly

(* get, and a range that only counts. *)
get(c, k, r) ==
  /\ Answers(c, IF ErrFutureRev(r) \/ ErrCompacted(r) THEN Errs ELSE Failed("txn", Headed(r), Get(k, r)))
  /\ ReadOnly

countOnly(c, r) ==
  /\ Answers(c, IF ErrFutureRev(r) \/ ErrCompacted(r) THEN Errs
                ELSE [NoAnswer EXCEPT !.kind = "txn", !.rev = Headed(r), !.count = Cardinality(List(UserKeys, r))])
  /\ ReadOnly

-----------------------------------------------------------------------------
(* The apiserver's compact transaction, and compaction. *)

(* DecodeVersion of the compact key; 0 when it is not there. *)
storedVersion == IF Live(compactRevAPI) THEN versions[latest(compactRevAPI).rev] ELSE 0

compact(c, compareVersion) ==
  IF compareVersion = storedVersion
  THEN GoesOn(c, "compactWrite", compactRevAPI, IF Live(compactRevAPI) THEN latest(compactRevAPI).rev ELSE 0, {})
       /\ ReadOnly
  ELSE Answers(c, Failed("compact", currentRevision, Get(compactRevAPI, 0))) /\ ReadOnly

(* Mutant of modRev: the revision the key has now. *)
modRevNow(q) == IF q.rev = 0 THEN 0 ELSE latest(compactRevAPI).rev

(* The revision at which the key was read. *)
modRev(q) == q.rev

(* Create of the first version, Update of a later one; that an Update did nothing is not noticed. *)
compactWrite(c) ==
  LET q == req[c]  r == modRev(q)  version == IF q.rev = 0 THEN 0 ELSE versions[q.rev] IN
  /\ q.st = "compactWrite"
  /\ IF version = 0
     THEN IF Live(compactRevAPI)
          THEN GoesOn(c, "compactGet", compactRevAPI, 0, {}) /\ ReadOnly
          ELSE Create(compactRevAPI, FALSE) /\ Encodes(1) /\ Answers(c, Ok("compact", nextRevision))
     ELSE IF Live(compactRevAPI) /\ latest(compactRevAPI).rev = r
          THEN Update(compactRevAPI, r, FALSE) /\ Encodes(version + 1) /\ Answers(c, Ok("compact", nextRevision))
          ELSE Answers(c, Ok("compact", currentRevision)) /\ ReadOnly

compactGet(c) ==
  /\ req[c].st = "compactGet"
  /\ Answers(c, Failed("compact", currentRevision, Get(compactRevAPI, 0)))
  /\ ReadOnly

(* Compact of the service is Compact of the backend. *)
CompactRequest == \E r \in 1 .. MaxRev : Compact(r) /\ UNCHANGED bridge

-----------------------------------------------------------------------------
(* Txn: the first shape that fits, or ErrNotSupported. *)
Txn(c, t) ==
  IF isCreate(t) THEN create(c, t.key)
  ELSE IF isDelete(t) THEN delete(c, t.key, IF t.target = "none" THEN 0 ELSE t.rev)
  ELSE IF isUpdate(t) THEN update(c, t.key, t.rev)
  ELSE IF isCompact(t) THEN compact(c, t.rev)
  ELSE Answers(c, Errs) /\ ReadOnly

Request(c) ==
  /\ req[c].st = "idle"
  /\ \/ \E t \in Txns : Txn(c, t)
     \/ \E k \in UserKeys : Put(c, k) \/ \E r \in Revs : get(c, k, r)
     \/ \E r \in Revs : list(c, r) \/ countOnly(c, r)

Step(c) == updateGet(c) \/ putGet(c) \/ putUpdate(c) \/ count(c) \/ compactWrite(c) \/ compactGet(c)

Next == (\E c \in Clients : Request(c) \/ Step(c)) \/ CompactRequest

Spec == Init /\ [][Next]_vars

-----------------------------------------------------------------------------
(* Properties. *)

LiveAt(k, r) == liveAt(written, newestAt(k, r))

(***************************************************************************)
(* Every answer to a range is the state of one revision, the one in its    *)
(* header: the entries are those of the first Limit keys that are live     *)
(* there, count is the number of all of them, more says that there are     *)
(* more.  list calls the backend twice, with writes and compactions in     *)
(* between.                                                                *)
(***************************************************************************)
PageExact == \A c \in Clients : answer[c].kind = "range" =>
  LET a == answer[c]
      live == {k \in UserKeys : LiveAt(k, a.rev)} IN
  /\ a.count = Cardinality(live) /\ (a.more <=> a.count > Limit)
  /\ {e.key : e \in a.kvs} = {k \in live : Cardinality({j \in live : j < k}) < Limit}
  /\ \A e \in a.kvs : e.rev <= a.rev /\ \A r \in e.rev + 1 .. a.rev : written[r].key # e.key

(***************************************************************************)
(* An update with revision 0 that is refused because the key exists shows  *)
(* the key, although Create and Get are two calls and the key may be gone  *)
(* when Get runs: a client that retries from the answer needs the value.   *)
(***************************************************************************)
RefusalShown == \A c \in Clients :
  (answer[c].kind = "update" /\ ~answer[c].ok) => answer[c].kvs # {}

(***************************************************************************)
(* The versions of the compact key are 1, 2, 3 ... in the order of their   *)
(* revisions, whatever transactions of the apiservers race: a version is   *)
(* stored once and none is skipped.                                        *)
(***************************************************************************)
VersionsAdvance == \A r \in DOMAIN written : written[r].key = compactRevAPI =>
  versions[r] = Cardinality({s \in 1 .. r : written[s].key = compactRevAPI})
=============================================================================
