------------------------ MODULE MemoryClientProofs ------------------------
(***************************************************************************)
(* Proofs about the two specifications that run on the memory backend.     *)
(*                                                                         *)
(* TTL: its steps are steps of the memory backend, hence the results of    *)
(* MemoryBackendProofs hold for it; its types; and that only versions      *)
(* whose lease has elapsed are deleted.  TTLAssumption is what it needs of *)
(* its constants.                                                          *)
(*                                                                         *)
(* EtcdBridge, for any number of clients, keys and revisions and any       *)
(* limit: an answer to a range is the state of one revision, a refused     *)
(* update shows the key, and the versions of the compact key are counted   *)
(* up one by one.  BridgeAssumption is what it needs of its constants.     *)
(***************************************************************************)
EXTENDS TTL, EtcdBridge, MemoryBackendProofs

-----------------------------------------------------------------------------
(* TTL. *)

RunTypeOK ==
  /\ run \in {"seed", "watch", "loop", "down"} /\ seedRev \in Revs
  /\ leases \in [Keys -> Revs] /\ queue \in SUBSET Keys
  /\ handle \in [st : {"idle", "delete", "remove"}, key : Keys]
  /\ elapsed \in SUBSET Revs

(* An entry of the map of leases stands for a version of its key that has a lease. *)
LeaseOfVersion(k, r) == r # 0 => r \in 1 .. currentRevision /\ written[r].key = k /\ written[r].leased

(***************************************************************************)
(* Nothing is in the queue before the first list; and while handle is      *)
(* about to delete a key, the entry it has seen elapsed is still there.    *)
(***************************************************************************)
TTLInv ==
  /\ \A k \in Keys : LeaseOfVersion(k, leases[k])
  /\ run = "seed" => queue = {} /\ handle.st = "idle"
  /\ ~HandleRace /\ handle.st = "delete" => leases[handle.key] # 0 /\ leases[handle.key] \in elapsed

IndTTLInv == MemoryInv /\ EventsInv /\ RunTypeOK /\ TTLInv

-----------------------------------------------------------------------------
LEMMA IdleTyped == HandleIdle \in [st : {"idle", "delete", "remove"}, key : Keys] /\ HandleIdle.st = "idle"
<1>1. \E k \in Keys : TRUE
  BY TTLAssumption
<1>2. (CHOOSE k \in Keys : TRUE) \in Keys
  BY <1>1
<1>3. QED
  BY <1>2 DEF HandleIdle

(* The steps of TTL are steps of the memory backend. *)
LEMMA StepsOfMemory ==
  ASSUME RunTypeOK, [TTLNext]_ttlVars
  PROVE  [MemoryNext]_memVars
<1>1. CASE seed
  BY <1>1 DEF seed
<1>2. CASE watchSeeded
  <2>1. TTLWatch \in Watchers /\ MaxRev \in Nat
    BY TTLAssumption, MemoryAssumption
  <2>2. seedRev + 1 \in 0 .. MaxRev + 1
    BY <2>1 DEF RunTypeOK, Revs
  <2>3. Watch(TTLWatch, seedRev + 1) \/ UNCHANGED memVars
    BY <1>2 DEF watchSeeded
  <2>4. QED
    BY <2>1, <2>2, <2>3 DEF MemoryNext
<1>3. CASE onEvent
  <2>1. TTLWatch \in Watchers
    BY TTLAssumption
  <2>2. receive(TTLWatch)
    BY <1>3 DEF onEvent, receive
  <2>3. QED
    BY <2>1, <2>2 DEF MemoryNext
<1>4. CASE handleDelete
  <2>1. handle.key \in Keys /\ leases[handle.key] \in Revs
    BY DEF RunTypeOK
  <2>2. Delete(handle.key, leases[handle.key]) \/ UNCHANGED memVars
    BY <1>4 DEF handleDelete, modRevision
  <2>3. QED
    BY <2>1, <2>2 DEF MemoryNext, ClientWrite
<1>5. CASE handleRetry \/ handleRemove \/ \E k \in Keys : handleGet(k) \/ LeaseElapses(k)
  BY <1>5 DEF handleRetry, handleRemove, handleGet, LeaseElapses
<1>6. CASE Backend
  BY <1>6 DEF Backend, MemoryNext
<1>7. CASE UNCHANGED ttlVars
  BY <1>7 DEF ttlVars
<1>8. QED
  BY <1>1, <1>2, <1>3, <1>4, <1>5, <1>6, <1>7 DEF TTLNext, Run, Handler

-----------------------------------------------------------------------------
(* The map of leases. *)

LEMMA LeaseStays ==
  ASSUME MemoryInv, [MemoryNext]_memVars, NEW k, NEW r, LeaseOfVersion(k, r), NEW s, s = r
  PROVE  LeaseOfVersion(k, s)'
BY WrittenStays DEF LeaseOfVersion

LEMMA LeasesStay ==
  ASSUME MemoryInv, [MemoryNext]_memVars, RunTypeOK, TTLInv, leases' = leases
  PROVE  \A k \in Keys : LeaseOfVersion(k, leases[k])'
<1> TAKE k \in Keys
<1>1. PICK r : r = leases[k]
  OBVIOUS
<1>2. LeaseOfVersion(k, r)
  BY <1>1 DEF TTLInv
<1>3. LeaseOfVersion(k, r)'
  BY <1>2, LeaseStays
<1>4. r = leases'[k]
  BY <1>1
<1>5. QED
  BY <1>3, <1>4

(* An entry that List finds is the newest of its key. *)
LEMMA ListedIsLatest ==
  ASSUME MemoryInv, NEW e \in List(Keys, 0)
  PROVE  /\ e.key \in Keys /\ Exists(e.key) /\ e = latest(e.key)
         /\ e.rev \in 1 .. currentRevision /\ written[e.rev] = e
<1>1. PICK k \in Keys : liveAt(keys[k], Len(keys[k])) /\ e = keys[k][Len(keys[k])]
  BY DEF List
<1>2. keys[k] \in Seq(Entry) /\ Len(keys[k]) \in Nat /\ KeyInv(k)
  BY StoreTyped, EntriesTyped DEF MemoryInv, StoreInv
<1>3. Len(keys[k]) \in 1 .. Len(keys[k])
  BY <1>1, <1>2 DEF liveAt
<1>4. e.rev \in 1 .. currentRevision /\ e = written[e.rev] /\ e.key = k
  BY <1>1, <1>2, <1>3 DEF KeyInv, KeyOK, KeptInOrder
<1>5. Exists(k)
  BY <1>2, <1>3 DEF Exists
<1>6. latest(k) = keys[k][Len(keys[k])]
  BY DEF latest, Last
<1>7. QED
  BY <1>1, <1>4, <1>5, <1>6

LEMMA SeedStep ==
  ASSUME MemoryInv, RunTypeOK, TTLInv, [MemoryNext]_memVars, seed
  PROVE  RunTypeOK' /\ TTLInv'
<1>1. /\ run = "seed" /\ handle' = handle /\ elapsed' = elapsed
      /\ currentRevision' = currentRevision /\ written' = written
  BY DEF seed, memVars, store
<1>2. handle.st = "idle" /\ currentRevision \in Revs
  BY <1>1 DEF TTLInv, MemoryInv, MemoryTypeOK
<1>3. CASE ShutDown /\ UNCHANGED <<seedRev, leases>>
  <2>1. run' = "down" /\ queue' = {} /\ seedRev' = seedRev /\ leases' = leases
    BY <1>3 DEF ShutDown
  <2>2. RunTypeOK'
    BY <2>1, <1>1 DEF RunTypeOK
  <2>3. \A k \in Keys : LeaseOfVersion(k, leases[k])'
    BY <2>1, LeasesStay
  <2>4. QED
    BY <2>1, <2>2, <2>3, <1>1, <1>2 DEF TTLInv
<1>4. ASSUME NEW found, found = {e \in List(Keys, 0) : e.leased},
             leases' = [k \in Keys |-> IF \E e \in found : e.key = k THEN latest(k).rev ELSE 0],
             queue' = {e.key : e \in found}, run' = "watch", seedRev' = currentRevision
      PROVE  RunTypeOK' /\ TTLInv'
  <2>1. \A e \in found : /\ e.leased /\ e.key \in Keys /\ e = latest(e.key)
                         /\ e.rev \in 1 .. currentRevision /\ written[e.rev] = e
    BY <1>4, ListedIsLatest
  <2>2. ASSUME NEW k \in Keys PROVE leases'[k] \in Revs /\ LeaseOfVersion(k, leases[k])'
    <3>1. CASE \E e \in found : e.key = k
      <4>1. PICK e \in found : e.key = k
        BY <3>1
      <4>2. leases'[k] = e.rev
        BY <4>1, <2>1, <1>4
      <4>3. PICK r : r = e.rev
        OBVIOUS
      <4>4. r \in 1 .. currentRevision /\ written[r].key = k /\ written[r].leased
        BY <4>1, <4>3, <2>1
      <4>5. r \in 1 .. currentRevision' /\ written'[r].key = k /\ written'[r].leased
        BY <4>4, <1>1
      <4>6. LeaseOfVersion(k, r)'
        BY <4>5 DEF LeaseOfVersion
      <4>7. r \in Revs
        BY <4>4, <1>2, MemoryAssumption DEF Revs
      <4>8. QED
        BY <4>2, <4>3, <4>6, <4>7
    <3>2. CASE ~ \E e \in found : e.key = k
      <4>1. leases'[k] = 0
        BY <3>2, <1>4
      <4>2. QED
        BY <4>1, MemoryAssumption DEF LeaseOfVersion, Revs
    <3>3. QED
      BY <3>1, <3>2
  <2>3. RunTypeOK'
    <3>1. leases' \in [Keys -> Revs]
      <4>1. leases' = [k \in Keys |-> leases'[k]]
        BY <1>4
      <4>2. QED
        BY <4>1, <2>2
    <3>2. queue' \in SUBSET Keys
      BY <2>1, <1>4
    <3>3. QED
      BY <3>1, <3>2, <1>1, <1>2, <1>4 DEF RunTypeOK
  <2>4. QED
    BY <2>2, <2>3, <1>1, <1>2, <1>4 DEF TTLInv
<1>5. QED
  BY <1>3, <1>4 DEF seed

LEMMA WatchSeededStep ==
  ASSUME MemoryInv, RunTypeOK, TTLInv, [MemoryNext]_memVars, watchSeeded
  PROVE  RunTypeOK' /\ TTLInv'
<1>1. /\ seedRev' = seedRev /\ leases' = leases /\ handle' = handle /\ elapsed' = elapsed
      /\ run' \in {"loop", "down"} /\ (queue' = queue \/ queue' = {})
  BY DEF watchSeeded, ShutDown
<1>2. \A k \in Keys : LeaseOfVersion(k, leases[k])'
  BY <1>1, LeasesStay
<1>3. RunTypeOK'
  BY <1>1 DEF RunTypeOK
<1>4. QED
  BY <1>1, <1>2, <1>3 DEF TTLInv

LEMMA OnEventStep ==
  ASSUME MemoryInv, EventsInv, RunTypeOK, TTLInv, [MemoryNext]_memVars, onEvent
  PROVE  RunTypeOK' /\ TTLInv'
<1>1. /\ run = "loop" /\ run' = run /\ seedRev' = seedRev /\ handle' = handle /\ elapsed' = elapsed
      /\ events[TTLWatch] # <<>>
      /\ currentRevision' = currentRevision /\ written' = written
  BY DEF onEvent, store
<1>2. PICK h : h = Head(events[TTLWatch])
  OBVIOUS
<1>3. h \in 1 .. currentRevision
  <2>1. TTLWatch \in Watchers
    BY TTLAssumption
  <2>2. events[TTLWatch] \in Seq(Revs) /\ Len(events[TTLWatch]) \in Nat
    BY <2>1, EventsTyped
  <2>3. Len(events[TTLWatch]) # 0 /\ h = events[TTLWatch][1]
    BY <2>2, <1>1, <1>2
  <2>4. EventsOK(TTLWatch, currentRevision)
    BY <2>1 DEF EventsInv
  <2>5. QED
    BY <2>2, <2>3, <2>4 DEF EventsOK
<1>4. PICK e : e = written[h]
  OBVIOUS
<1>5. e \in Entry /\ e.rev = h /\ e.key \in Keys /\ h \in Revs
  <2>1. written \in Seq(Entry) /\ Len(written) = currentRevision /\ \A s \in 1 .. currentRevision : written[s].rev = s
    BY StoreTyped DEF MemoryInv, StoreInv, LogInv, LogOK
  <2>2. e \in Entry
    BY <2>1, <1>3, <1>4, EntriesTyped
  <2>3. QED
    BY <2>1, <2>2, <1>3, <1>4, EntryTyped
<1>6. /\ HandleRace \/ handle.st = "idle" \/ handle.key # e.key
      /\ IF isNewLease(e) THEN save(e) ELSE UNCHANGED <<leases, queue>>
  BY <1>2, <1>4 DEF onEvent
<1>7. CASE isNewLease(e)
  <2>1. leases' = [leases EXCEPT ![e.key] = h] /\ queue' = queue \cup {e.key} /\ e.leased
    BY <1>5, <1>6, <1>7 DEF save, isNewLease
  <2>2. leases \in [Keys -> Revs] /\ leases' \in [Keys -> Revs]
    BY <2>1, <1>5 DEF RunTypeOK
  <2>3. RunTypeOK'
    BY <2>1, <2>2, <1>1, <1>5 DEF RunTypeOK
  <2>4. ASSUME NEW k \in Keys PROVE LeaseOfVersion(k, leases[k])'
    <3>1. PICK r : r = leases'[k]
      OBVIOUS
    <3>2. LeaseOfVersion(k, r)
      <4>1. CASE k = e.key
        <5>1. r = h
          BY <4>1, <3>1, <2>1, <2>2
        <5>2. QED
          BY <5>1, <4>1, <2>1, <1>3, <1>4 DEF LeaseOfVersion
      <4>2. CASE k # e.key
        <5>1. r = leases[k]
          BY <4>2, <3>1, <2>1, <2>2
        <5>2. QED
          BY <5>1 DEF TTLInv
      <4>3. QED
        BY <4>1, <4>2
    <3>3. LeaseOfVersion(k, r)'
      BY <3>2, LeaseStays
    <3>4. QED
      BY <3>1, <3>3
  <2>5. ~HandleRace /\ handle'.st = "delete" => leases'[handle'.key] # 0 /\ leases'[handle'.key] \in elapsed'
    <3>1. handle.key \in Keys
      BY DEF RunTypeOK
    <3>2. ~HandleRace /\ handle.st = "delete" => leases'[handle.key] = leases[handle.key]
      BY <3>1, <2>1, <2>2, <1>6
    <3>3. QED
      BY <3>2, <1>1 DEF TTLInv
  <2>6. QED
    BY <2>3, <2>4, <2>5, <1>1 DEF TTLInv
<1>8. CASE ~isNewLease(e)
  <2>1. leases' = leases /\ queue' = queue
    BY <1>6, <1>8
  <2>2. \A k \in Keys : LeaseOfVersion(k, leases[k])'
    BY <2>1, LeasesStay
  <2>3. QED
    BY <2>1, <2>2, <1>1 DEF RunTypeOK, TTLInv
<1>9. QED
  BY <1>7, <1>8

LEMMA HandleGetStep ==
  ASSUME MemoryInv, RunTypeOK, TTLInv, [MemoryNext]_memVars, NEW k \in Keys, handleGet(k)
  PROVE  RunTypeOK' /\ TTLInv'
<1>1. /\ run' = run /\ seedRev' = seedRev /\ leases' = leases /\ elapsed' = elapsed
      /\ k \in queue /\ handle.st = "idle" /\ run # "seed"
  BY DEF handleGet, TTLInv
<1>2. queue' \in SUBSET Keys
  BY DEF handleGet, RunTypeOK
<1>3. \A kk \in Keys : LeaseOfVersion(kk, leases[kk])'
  BY <1>1, LeasesStay
<1>4. CASE leases[k] # 0 /\ Expired(k)
  <2>1. handle' = [st |-> "delete", key |-> k]
    BY <1>4 DEF handleGet
  <2>2. RunTypeOK'
    BY <2>1, <1>1, <1>2 DEF RunTypeOK
  <2>3. leases'[handle'.key] # 0 /\ leases'[handle'.key] \in elapsed'
    BY <2>1, <1>1, <1>4 DEF Expired
  <2>4. QED
    BY <2>2, <2>3, <1>1, <1>3 DEF TTLInv
<1>5. CASE ~(leases[k] # 0 /\ Expired(k))
  <2>1. handle' = handle
    BY <1>5 DEF handleGet
  <2>2. RunTypeOK'
    BY <2>1, <1>1, <1>2 DEF RunTypeOK
  <2>3. QED
    BY <2>1, <2>2, <1>1, <1>3 DEF TTLInv
<1>6. QED
  BY <1>4, <1>5

LEMMA HandleOtherStep ==
  ASSUME MemoryInv, RunTypeOK, TTLInv, [MemoryNext]_memVars, handleDelete \/ handleRetry
  PROVE  RunTypeOK' /\ TTLInv'
<1>1. /\ run' = run /\ seedRev' = seedRev /\ leases' = leases /\ elapsed' = elapsed
      /\ handle.st = "delete" /\ run # "seed"
  BY DEF handleDelete, handleRetry, TTLInv
<1>2. handle \in [st : {"idle", "delete", "remove"}, key : Keys] /\ handle.key \in Keys
  BY DEF RunTypeOK
<1>3. handle' \in [st : {"idle", "delete", "remove"}, key : Keys] /\ handle'.st # "delete"
  <2>1. CASE handleDelete
    BY <2>1, <1>2 DEF handleDelete
  <2>2. CASE handleRetry
    BY <2>2, IdleTyped DEF handleRetry
  <2>3. QED
    BY <2>1, <2>2
<1>4. queue' \in SUBSET Keys
  BY <1>2 DEF handleDelete, handleRetry, RunTypeOK
<1>5. \A kk \in Keys : LeaseOfVersion(kk, leases[kk])'
  BY <1>1, LeasesStay
<1>6. RunTypeOK'
  BY <1>1, <1>3, <1>4 DEF RunTypeOK
<1>7. QED
  BY <1>1, <1>3, <1>5, <1>6 DEF TTLInv

LEMMA HandleRemoveStep ==
  ASSUME MemoryInv, RunTypeOK, TTLInv, [MemoryNext]_memVars, handleRemove
  PROVE  RunTypeOK' /\ TTLInv'
<1>1. /\ run' = run /\ seedRev' = seedRev /\ queue' = queue /\ elapsed' = elapsed
      /\ handle.st = "remove" /\ handle' = HandleIdle
      /\ leases' = [leases EXCEPT ![handle.key] = 0]
  BY DEF handleRemove
<1>2. leases \in [Keys -> Revs] /\ handle.key \in Keys /\ 0 \in Revs
  BY MemoryAssumption DEF RunTypeOK, Revs
<1>3. leases' \in [Keys -> Revs]
  BY <1>1, <1>2
<1>4. RunTypeOK'
  BY <1>1, <1>3, IdleTyped DEF RunTypeOK
<1>5. ASSUME NEW k \in Keys PROVE LeaseOfVersion(k, leases[k])'
  <2>1. PICK r : r = leases'[k]
    OBVIOUS
  <2>2. r = 0 \/ r = leases[k]
    BY <2>1, <1>1, <1>2
  <2>3. LeaseOfVersion(k, r)
    BY <2>2 DEF LeaseOfVersion, TTLInv
  <2>4. LeaseOfVersion(k, r)'
    BY <2>3, LeaseStays
  <2>5. QED
    BY <2>1, <2>4
<1>6. QED
  BY <1>1, <1>4, <1>5, IdleTyped DEF TTLInv

LEMMA LeaseElapsesStep ==
  ASSUME MemoryInv, RunTypeOK, TTLInv, [MemoryNext]_memVars, NEW k \in Keys, LeaseElapses(k)
  PROVE  RunTypeOK' /\ TTLInv'
<1>1. /\ run' = run /\ seedRev' = seedRev /\ leases' = leases /\ queue' = queue /\ handle' = handle
      /\ elapsed' = elapsed \cup {leases[k]}
  BY DEF LeaseElapses
<1>2. \A kk \in Keys : LeaseOfVersion(kk, leases[kk])'
  BY <1>1, LeasesStay
<1>3. RunTypeOK'
  BY <1>1 DEF RunTypeOK
<1>4. QED
  BY <1>1, <1>2, <1>3 DEF TTLInv

LEMMA TTLUnchanged ==
  ASSUME MemoryInv, RunTypeOK, TTLInv, [MemoryNext]_memVars, UNCHANGED ttl
  PROVE  RunTypeOK' /\ TTLInv'
<1>1. /\ run' = run /\ seedRev' = seedRev /\ leases' = leases /\ queue' = queue /\ handle' = handle
      /\ elapsed' = elapsed
  BY DEF ttl
<1>2. \A kk \in Keys : LeaseOfVersion(kk, leases[kk])'
  BY <1>1, LeasesStay
<1>3. RunTypeOK'
  BY <1>1 DEF RunTypeOK
<1>4. QED
  BY <1>1, <1>2, <1>3 DEF TTLInv

LEMMA IInvHolds == TTLSpec => []IndTTLInv
<1>1. TTLInit => IndTTLInv
  <2> SUFFICES ASSUME TTLInit PROVE IndTTLInv
    OBVIOUS
  <2>1. MemoryInv /\ EventsInv
    BY MemoryInvInit, EventsInit DEF TTLInit
  <2>2. 0 \in Revs
    BY MemoryAssumption DEF Revs
  <2>3. RunTypeOK
    BY <2>2, IdleTyped DEF TTLInit, RunTypeOK
  <2>4. TTLInv
    BY IdleTyped DEF TTLInit, TTLInv, LeaseOfVersion
  <2>5. QED
    BY <2>1, <2>3, <2>4 DEF IndTTLInv
<1>2. IndTTLInv /\ [TTLNext]_ttlVars => IndTTLInv'
  <2> SUFFICES ASSUME IndTTLInv, [TTLNext]_ttlVars PROVE IndTTLInv'
    OBVIOUS
  <2>1. MemoryInv /\ EventsInv /\ RunTypeOK /\ TTLInv
    BY DEF IndTTLInv
  <2>2. [MemoryNext]_memVars
    BY <2>1, StepsOfMemory
  <2>3. MemoryInv'
    BY <2>1, <2>2, MemoryInvStep
  <2>4. EventsInv'
    BY <2>1, <2>2, <2>3, EventsStep
  <2>5. RunTypeOK' /\ TTLInv'
    <3>1. CASE Run
      BY <3>1, <2>1, <2>2, SeedStep, WatchSeededStep, OnEventStep DEF Run
    <3>2. CASE Handler
      BY <3>2, <2>1, <2>2, HandleGetStep, HandleOtherStep, HandleRemoveStep DEF Handler
    <3>3. CASE Backend
      BY <3>3, <2>1, <2>2, TTLUnchanged DEF Backend
    <3>4. CASE \E k \in Keys : LeaseElapses(k)
      BY <3>4, <2>1, <2>2, LeaseElapsesStep
    <3>5. CASE UNCHANGED ttlVars
      BY <3>5, <2>1, <2>2, TTLUnchanged DEF ttlVars
    <3>6. QED
      BY <3>1, <3>2, <3>3, <3>4, <3>5 DEF TTLNext
  <2>6. QED
    BY <2>1, <2>3, <2>4, <2>5 DEF IndTTLInv
<1>3. QED
  BY <1>1, <1>2, PTL DEF TTLSpec

-----------------------------------------------------------------------------
(* The theorems. *)

(* ttl.Run and handle on the memory backend are type correct. *)
THEOREM TTLTypeCorrect == TTLSpec => []TTLTypeOK
<1>1. IndTTLInv => TTLTypeOK
  BY DEF IndTTLInv, MemoryInv, RunTypeOK, TTLTypeOK
<1>2. QED
  BY <1>1, IInvHolds, PTL

(* The lists and the Delete of the TTL loop only take steps of the memory backend. *)
THEOREM TTLIsMemory == TTLSpec => MemorySpec
<1>1. TTLInit => MemoryInit
  BY DEF TTLInit
<1>2. IndTTLInv /\ [TTLNext]_ttlVars => [MemoryNext]_memVars
  BY StepsOfMemory DEF IndTTLInv
<1>3. QED
  BY <1>1, <1>2, IInvHolds, PTL DEF TTLSpec, MemorySpec

(***************************************************************************)
(* Reads at revisions that are not compacted stay exact while the TTL loop *)
(* lists, watches and deletes.                                             *)
(***************************************************************************)
THEOREM TTLSnapshotsAreExact == TTLSpec => []SnapshotExact
BY TTLIsMemory, SnapshotsAreExact, PTL

(* The watch of ttl.Run, and every other one, passes over no entry. *)
THEOREM NoTTLWatchGap == TTLSpec => []NoGapInWatch
BY TTLIsMemory, NoMemoryWatchGap, PTL

(***************************************************************************)
(* What handle deletes is a version with a lease that has elapsed, as long *)
(* as no event of a key is applied while handle works on it: the entry it  *)
(* read then still is the one whose revision it gives to Delete, and       *)
(* Delete takes the newest version of the key only at that revision.       *)
(***************************************************************************)
THEOREM OnlyElapsedDeleted ==
  ASSUME HandleRace = FALSE
  PROVE  TTLSpec => OnlyElapsed
<1> DEFINE A == handle.st = "delete" /\ handle'.st = "remove" /\ currentRevision' > currentRevision =>
                  latest(handle.key).leased /\ latest(handle.key).rev \in elapsed
<1>1. IndTTLInv /\ [TTLNext]_ttlVars => [A]_ttlVars
  <2> SUFFICES ASSUME IndTTLInv, TTLNext, handle.st = "delete", handle'.st = "remove",
                      currentRevision' > currentRevision
               PROVE  latest(handle.key).leased /\ latest(handle.key).rev \in elapsed
    OBVIOUS
  <2>1. MemoryInv /\ RunTypeOK /\ TTLInv /\ currentRevision \in Nat
    BY NumbersTyped DEF IndTTLInv, MemoryInv
  <2>2. PICK k \in Keys : k = handle.key
    BY <2>1 DEF RunTypeOK
  <2>3. leases[k] # 0 /\ leases[k] \in elapsed
    BY <2>1, <2>2 DEF TTLInv
  <2>4. handleDelete
    <3>1. handle' # handle
      OBVIOUS
    <3>2. ~(seed \/ watchSeeded \/ onEvent \/ Backend)
      BY <3>1 DEF seed, watchSeeded, onEvent, Backend, ttl
    <3>3. ~(handleRetry \/ handleRemove)
      BY IdleTyped DEF handleRetry, handleRemove
    <3>4. ~ \E kk \in Keys : handleGet(kk) \/ LeaseElapses(kk)
      BY <3>1 DEF handleGet, LeaseElapses
    <3>5. QED
      BY <3>2, <3>3, <3>4 DEF TTLNext, Run, Handler
  <2>5. Delete(k, leases[k])
    <3>1. ~(UNCHANGED memVars)
      BY <2>1 DEF memVars, store
    <3>2. QED
      BY <3>1, <2>2, <2>4 DEF handleDelete, modRevision
  <2>6. Exists(k) /\ latest(k).rev = leases[k]
    BY <2>3, <2>5 DEF Delete, Deletes, Live
  <2>7. latest(k) = written[latest(k).rev]
    <3>1. MemoryTypeOK /\ KeyInv(k)
      BY <2>1 DEF MemoryInv, StoreInv
    <3>2. latest(k) = keys[k][Len(keys[k])] /\ Len(keys[k]) \in 1 .. Len(keys[k])
      BY <3>1, <2>6, LatestTyped
    <3>3. QED
      BY <3>1, <3>2 DEF KeyInv, KeyOK, KeptInOrder
  <2>8. written[leases[k]].leased
    BY <2>1, <2>3 DEF TTLInv, LeaseOfVersion
  <2>9. QED
    BY <2>2, <2>3, <2>6, <2>7, <2>8
<1>2. QED
  BY <1>1, IInvHolds, PTL DEF TTLSpec, OnlyElapsed

-----------------------------------------------------------------------------
(* EtcdBridge: the invariant. *)

(* The keys of the clients that are live at revision r. *)
LiveSet(r) == {k \in UserKeys : LiveAt(k, r)}

(* The first n of a set of keys. *)
FirstKeys(K, n) == {k \in K : Cardinality({j \in K : j < k}) < n}

(* The entries are the newest of their keys at revision r. *)
NewestOnes(kvs, r) == \A e \in kvs : e.rev \in 0 .. r /\ \A s \in e.rev + 1 .. r : written[s].key # e.key

(* The entries of a page are those of the first keys that are live at revision r. *)
PageRight(kvs, r) == {e.key : e \in kvs} = FirstKeys(LiveSet(r), Limit) /\ NewestOnes(kvs, r)

RangeRight(a) ==
  /\ a.rev \in 0 .. currentRevision
  /\ a.count = Cardinality(LiveSet(a.rev)) /\ (a.more <=> a.count > Limit)
  /\ PageRight(a.kvs, a.rev)

AnswerOK(a) ==
  /\ ~CountsCurrent /\ a.kind = "range" => RangeRight(a)
  /\ a.kind = "update" /\ ~a.ok => a.kvs # {}

(***************************************************************************)
(* What a request that goes on knows of the history: the key that refused  *)
(* an update was live at the revision of the refusal, the compact key was  *)
(* written at the revision it was read at, and the page of a list is right *)
(* and not all there is.                                                   *)
(***************************************************************************)
ReqOK(q) ==
  /\ q.rev \in 0 .. currentRevision
  /\ q.st \in {"updateGet", "putGet", "putUpdate"} => q.key \in UserKeys
  /\ q.st = "updateGet" => LiveAt(q.key, q.rev)
  /\ q.st = "compactWrite" /\ q.rev # 0 => written[q.rev].key = compactRevAPI
  /\ q.st = "count" => PageRight(q.page, q.rev) /\ q.rev # 0 /\ Cardinality(LiveSet(q.rev)) > Limit

ClientsInv ==
  /\ DOMAIN req = Clients /\ DOMAIN answer = Clients
  /\ \A c \in Clients : ReqOK(req[c]) /\ AnswerOK(answer[c])

(* The entries of the compact key up to revision r. *)
CompactRows(wr, r) == {s \in 1 .. r : wr[s].key = compactRevAPI}

(* The compact key is never deleted, and its versions count its entries. *)
VersionsOK(vs, wr, cur) ==
  \A r \in 1 .. cur : wr[r].key = compactRevAPI =>
    vs[r] = Cardinality(CompactRows(wr, r)) /\ ~wr[r].deleted

VersionsInv ==
  /\ versions \in Seq(Nat) /\ Len(versions) = currentRevision
  /\ VersionsOK(versions, written, currentRevision)

BridgeInv == MemoryInv /\ VersionsInv /\ ClientsInv

-----------------------------------------------------------------------------
(* The first entries of a set in which every key has at most one. *)

(* A finite set of entries, one for a key. *)
OneEach(S) ==
  /\ IsFiniteSet(S)
  /\ \A e \in S : e.key \in Nat
  /\ \A e, f \in S : e.key = f.key => e = f

LEMMA OneEachSubset ==
  ASSUME NEW S, OneEach(S), NEW T \in SUBSET S
  PROVE  OneEach(T)
BY FS_Subset DEF OneEach

LEMMA KeysCounted ==
  ASSUME NEW S, OneEach(S)
  PROVE  Cardinality({e.key : e \in S}) = Cardinality(S) /\ IsFiniteSet({e.key : e \in S})
<1> DEFINE K == {e.key : e \in S}
           f == [e \in S |-> e.key]
<1>1. f \in Bijection(S, K)
  <2>1. f \in [S -> K]
    OBVIOUS
  <2>2. \A x, y \in S : f[x] = f[y] => x = y
    BY DEF OneEach
  <2>3. \A y \in K : \E x \in S : f[x] = y
    OBVIOUS
  <2>4. QED
    BY <2>1, <2>2, <2>3 DEF Bijection, Injection, Surjection, IsInjective
<1>2. ExistsBijection(S, K)
  BY <1>1 DEF ExistsBijection
<1>3. QED
  BY <1>2, FS_Bijection DEF OneEach

(* The entries before e. *)
Before(S, e) == {f \in S : f.key < e.key}

LEMMA BeforeCounted ==
  ASSUME NEW S, OneEach(S), NEW e \in S
  PROVE  /\ Before(S, e) \in SUBSET S /\ IsFiniteSet(Before(S, e)) /\ Cardinality(Before(S, e)) \in Nat
         /\ Cardinality(Before(S, e)) = Cardinality({j \in {f.key : f \in S} : j < e.key})
<1>1. Before(S, e) \in SUBSET S
  BY DEF Before
<1>2. OneEach(Before(S, e))
  BY <1>1, OneEachSubset
<1>3. {f.key : f \in Before(S, e)} = {j \in {f.key : f \in S} : j < e.key}
  BY DEF Before
<1>4. QED
  BY <1>1, <1>2, <1>3, KeysCounted, FS_CardinalityType DEF OneEach

LEMMA FirstOfKeys ==
  ASSUME NEW S, OneEach(S), NEW n \in Nat
  PROVE  {e.key : e \in firstOf(S, n)} = FirstKeys({e.key : e \in S}, n)
<1> DEFINE K == {e.key : e \in S}
<1>1. firstOf(S, n) = {e \in S : Cardinality(Before(S, e)) < n}
  BY DEF firstOf, Before
<1>2. \A e \in S : Cardinality(Before(S, e)) = Cardinality({j \in K : j < e.key})
  BY BeforeCounted
<1>3. ASSUME NEW k \in K PROVE k \in {e.key : e \in firstOf(S, n)} <=> k \in FirstKeys(K, n)
  <2>1. PICK e \in S : e.key = k
    OBVIOUS
  <2>2. \A f \in S : f.key = k => f = e
    BY <2>1 DEF OneEach
  <2>3. k \in FirstKeys(K, n) <=> Cardinality({j \in K : j < k}) < n
    BY <1>3 DEF FirstKeys
  <2>4. k \in {f.key : f \in firstOf(S, n)} <=> e \in firstOf(S, n)
    BY <2>1, <2>2, <1>1
  <2>5. QED
    BY <2>1, <2>3, <2>4, <1>1, <1>2
<1>4. {e.key : e \in firstOf(S, n)} \subseteq K
  BY <1>1
<1>5. FirstKeys(K, n) \subseteq K
  BY DEF FirstKeys
<1>6. QED
  BY <1>3, <1>4, <1>5

(* The entries before one of the first are first. *)
LEMMA FirstDown ==
  ASSUME NEW S, OneEach(S), NEW n \in Nat, NEW e \in firstOf(S, n)
  PROVE  Before(S, e) = Before(firstOf(S, n), e)
<1>1. firstOf(S, n) = {x \in S : Cardinality(Before(S, x)) < n}
  BY DEF firstOf, Before
<1>2. ASSUME NEW f \in Before(S, e) PROVE f \in firstOf(S, n)
  <2>1. e \in S /\ f \in S /\ f.key < e.key /\ Cardinality(Before(S, e)) < n
    BY <1>1 DEF Before
  <2>2. e.key \in Nat /\ f.key \in Nat /\ \A x \in S : x.key \in Nat
    BY <2>1 DEF OneEach
  <2>3. Before(S, f) \in SUBSET Before(S, e)
    BY <2>1, <2>2 DEF Before
  <2>4. IsFiniteSet(Before(S, e)) /\ Cardinality(Before(S, e)) \in Nat /\ Cardinality(Before(S, f)) \in Nat
    BY <2>1, BeforeCounted
  <2>5. Cardinality(Before(S, f)) <= Cardinality(Before(S, e))
    BY <2>3, <2>4, FS_Subset
  <2>6. QED
    BY <1>1, <2>1, <2>4, <2>5
<1>3. QED
  BY <1>1, <1>2 DEF Before

(* The first n of the first n + 1. *)
LEMMA FirstOfFirst ==
  ASSUME NEW S, OneEach(S), NEW n \in Nat
  PROVE  firstOf(firstOf(S, n + 1), n) = firstOf(S, n)
<1> DEFINE T == firstOf(S, n + 1)
<1>1. T = {x \in S : Cardinality(Before(S, x)) < n + 1}
  BY DEF firstOf, Before
<1>2. firstOf(S, n) = {x \in S : Cardinality(Before(S, x)) < n}
  BY DEF firstOf, Before
<1>3. firstOf(T, n) = {x \in T : Cardinality(Before(T, x)) < n}
  BY DEF firstOf, Before
<1>4. \A x \in T : Before(T, x) = Before(S, x)
  BY FirstDown
<1>5. \A x \in S : Cardinality(Before(S, x)) \in Nat
  BY BeforeCounted
<1> HIDE DEF T
<1>6. QED
  BY <1>1, <1>2, <1>3, <1>4, <1>5 DEF T

(* If fewer than n are first, these are all. *)
LEMMA FirstAreAll ==
  ASSUME NEW S, OneEach(S), NEW n \in Nat, Cardinality(firstOf(S, n)) < n
  PROVE  firstOf(S, n) = S
<1> SUFFICES ASSUME firstOf(S, n) # S PROVE FALSE
  OBVIOUS
<1> DEFINE T == firstOf(S, n)
           R == {e.key : e \in S \ T}
<1>1. T = {x \in S : Cardinality(Before(S, x)) < n}
  BY DEF firstOf, Before
<1>2. \A e \in S : e.key \in Nat
  BY DEF OneEach
<1> HIDE DEF T
<1>3. R \in SUBSET Nat /\ R # {}
  BY <1>1, <1>2 DEF T
<1>4. PICK m \in R : \A j \in R : m <= j
  BY <1>3, LeastNumber
<1>5. PICK e \in S \ T : e.key = m
  BY <1>4
<1>6. Before(S, e) \in SUBSET T
  <2>1. ASSUME NEW f \in S, f.key < e.key, f \notin T PROVE FALSE
    <3>1. f.key \in R /\ f.key \in Nat /\ m \in Nat
      BY <2>1, <1>2, <1>3, <1>4
    <3>2. m <= f.key
      BY <3>1, <1>4
    <3>3. QED
      BY <3>1, <3>2, <2>1, <1>5
  <2>2. QED
    BY <2>1 DEF Before
<1>7. IsFiniteSet(T) /\ Cardinality(T) \in Nat
  BY <1>1, FS_Subset, FS_CardinalityType DEF OneEach
<1>8. Cardinality(Before(S, e)) <= Cardinality(T)
  BY <1>6, <1>7, FS_Subset
<1>9. Cardinality(Before(S, e)) \in Nat /\ ~(Cardinality(Before(S, e)) < n)
  BY <1>1, <1>5, BeforeCounted
<1>10. QED
  BY <1>7, <1>8, <1>9 DEF T

(* Of at most n keys all are first. *)
LEMMA FirstOfFew ==
  ASSUME NEW K \in SUBSET Nat, IsFiniteSet(K), NEW n \in Nat, Cardinality(K) <= n
  PROVE  FirstKeys(K, n) = K
<1>1. ASSUME NEW k \in K PROVE Cardinality({j \in K : j < k}) < n
  <2> DEFINE B == {j \in K : j < k}
  <2>1. B \in SUBSET K /\ B # K
    <3>1. k \notin B
      BY <1>1
    <3>2. QED
      BY <3>1
  <2> HIDE DEF B
  <2>2. Cardinality(B) <= Cardinality(K) /\ Cardinality(B) # Cardinality(K) /\ IsFiniteSet(B)
    BY <2>1, FS_Subset
  <2>3. Cardinality(B) \in Nat /\ Cardinality(K) \in Nat
    BY <2>2, FS_CardinalityType
  <2>4. Cardinality(B) < n
    BY <2>2, <2>3
  <2>5. QED
    BY <2>4 DEF B
<1>2. QED
  BY <1>1 DEF FirstKeys

-----------------------------------------------------------------------------
(* Reads. *)

LEMMA BridgeTyped ==
  ASSUME MemoryInv
  PROVE  /\ MemoryTypeOK /\ LogInv /\ \A k \in Keys : KeyInv(k)
         /\ currentRevision \in Nat /\ compactRevision \in Nat /\ compactRevision <= currentRevision
         /\ currentRevision <= MaxRev /\ MaxRev \in Nat
         /\ written \in Seq(Entry) /\ Len(written) = currentRevision
         /\ \A s \in 1 .. currentRevision : written[s] \in Entry /\ written[s].rev = s
<1>1. MemoryTypeOK /\ LogInv /\ \A k \in Keys : KeyInv(k)
  BY DEF MemoryInv, StoreInv
<1>2. written \in Seq(Entry) /\ \A s \in 1 .. Len(written) : written[s] \in Entry
  BY <1>1, StoreTyped, EntriesTyped
<1>3. QED
  BY <1>1, <1>2, NumbersTyped DEF LogInv, LogOK

(* The last entry of a history is what a read at the current revision finds. *)
LEMMA LastIsCurrent ==
  ASSUME MemoryInv, NEW k \in Keys
  PROVE  atRevision(keys[k], currentRevision) = Len(keys[k])
<1>1. KeyInv(k) /\ currentRevision \in Nat /\ MemoryTypeOK
  BY BridgeTyped
<1>2. Len(keys[k]) \in Nat /\ \A i \in 1 .. Len(keys[k]) : keys[k][i].rev \in Nat
  BY <1>1, StoreTyped, EntriesTyped
<1>3. \A i \in 1 .. Len(keys[k]) : keys[k][i].rev <= currentRevision
  BY <1>1 DEF KeyInv, KeyOK, KeptInOrder
<1>4. PICK i : i = atRevision(keys[k], currentRevision)
  OBVIOUS
<1>5. i \in 0 .. Len(keys[k]) /\ (i < Len(keys[k]) => keys[k][i + 1].rev > currentRevision)
  BY <1>1, <1>2, <1>4, AtRevisionSpec
<1>6. ~(i < Len(keys[k]))
  <2> SUFFICES ASSUME i < Len(keys[k]) PROVE FALSE
    OBVIOUS
  <2>1. i + 1 \in 1 .. Len(keys[k])
    BY <1>2, <1>5
  <2>2. QED
    BY <2>1, <1>1, <1>2, <1>3, <1>5
<1>7. QED
  BY <1>2, <1>4, <1>5, <1>6

(* A live key shows its newest entry. *)
LEMMA LatestIsNewest ==
  ASSUME MemoryInv, NEW k \in Keys
  PROVE  /\ Live(k) <=> LiveAt(k, currentRevision)
         /\ Live(k) => /\ latest(k).rev = newestAt(k, currentRevision)
                       /\ latest(k).rev \in 1 .. currentRevision
                       /\ written[latest(k).rev].key = k
<1>1. /\ MemoryTypeOK /\ LogInv /\ KeyInv(k) /\ currentRevision \in compactRevision .. currentRevision
      /\ currentRevision \in Nat
  BY BridgeTyped
<1>2. PICK i, n : i = Len(keys[k]) /\ n = newestAt(k, currentRevision)
  OBVIOUS
<1>3. /\ liveAt(keys[k], i) <=> liveAt(written, n)
      /\ liveAt(keys[k], i) => keys[k][i] = written[n]
  BY <1>1, <1>2, LastIsCurrent, SnapshotOfKey
<1>4. n \in 0 .. currentRevision /\ (n # 0 => written[n].key = k)
  BY <1>1, <1>2, NewestSpec
<1>5. i \in Nat /\ (i = 0 <=> keys[k] = <<>>)
  <2> DEFINE E == Entry
  <2>1. keys[k] \in Seq(E)
    BY <1>1, StoreTyped
  <2> HIDE DEF E
  <2>2. QED
    BY <2>1, <1>2, EmptySeq
<1>6. Live(k) <=> liveAt(keys[k], i)
  <2>1. keys[k] # <<>> => latest(k) = keys[k][i]
    BY <1>1, <1>2, LatestTyped DEF Exists
  <2>2. QED
    BY <2>1, <1>5 DEF Live, Exists, liveAt
<1>7. Live(k) => latest(k) = written[n] /\ n # 0
  BY <1>1, <1>2, <1>3, <1>6, LatestTyped DEF Live, liveAt
<1>8. n # 0 => n \in 1 .. currentRevision /\ written[n].rev = n
  BY <1>1, <1>4 DEF LogInv, LogOK
<1>9. QED
  BY <1>2, <1>3, <1>4, <1>6, <1>7, <1>8 DEF LiveAt

(* Revision r, 0 for the current one, can be read. *)
Readable(r) == r \in Nat /\ r <= currentRevision /\ (r = 0 \/ compactRevision <= r)

(* The entry that List takes of a key. *)
IdxOf(k, r) == IF r > 0 THEN atRevision(keys[k], r) ELSE Len(keys[k])

LEMMA IdxIsNewest ==
  ASSUME MemoryInv, NEW r, Readable(r), NEW k \in Keys
  PROVE  /\ liveAt(keys[k], IdxOf(k, r)) <=> LiveAt(k, Headed(r))
         /\ LiveAt(k, Headed(r)) => keys[k][IdxOf(k, r)] = written[newestAt(k, Headed(r))]
<1>1. /\ MemoryTypeOK /\ LogInv /\ KeyInv(k) /\ currentRevision \in Nat /\ compactRevision \in Nat
      /\ compactRevision <= currentRevision
  BY BridgeTyped
<1>2. PICK h : h = Headed(r)
  OBVIOUS
<1>3. h \in compactRevision .. currentRevision
  BY <1>1, <1>2 DEF Headed, Readable
<1>4. PICK i : i = atRevision(keys[k], h)
  OBVIOUS
<1>5. IdxOf(k, r) = i
  BY <1>1, <1>2, <1>4, LastIsCurrent DEF IdxOf, Headed, Readable
<1>6. /\ liveAt(keys[k], i) <=> liveAt(written, newestAt(k, h))
      /\ liveAt(keys[k], i) => keys[k][i] = written[newestAt(k, h)]
  BY <1>1, <1>3, <1>4, SnapshotOfKey
<1>7. QED
  BY <1>2, <1>5, <1>6 DEF LiveAt

LEMMA HeadedIsRead ==
  ASSUME MemoryInv, NEW r, Readable(r)
  PROVE  Headed(r) \in 0 .. currentRevision /\ Headed(r) \in Nat /\ (r # 0 => Headed(r) = r)
BY BridgeTyped DEF Headed, Readable

(* List at r shows the newest entries of the keys that are live at r, one for a key. *)
LEMMA ListSpec ==
  ASSUME MemoryInv, NEW r, Readable(r), NEW K \in SUBSET Keys
  PROVE  /\ {e.key : e \in List(K, r)} = {k \in K : LiveAt(k, Headed(r))}
         /\ OneEach(List(K, r)) /\ NewestOnes(List(K, r), Headed(r))
<1>1. PICK h \in 0 .. currentRevision : h = Headed(r)
  BY HeadedIsRead
<1>2. currentRevision \in Nat /\ h \in Nat /\ \A s \in 1 .. currentRevision : written[s].rev = s
  BY <1>1, BridgeTyped
<1> DEFINE L == {k \in K : LiveAt(k, h)}
           E(k) == written[newestAt(k, h)]
<1>3. List(K, r) = {E(k) : k \in L}
  <2>1. List(K, r) = {keys[k][IdxOf(k, r)] : k \in {k \in K : liveAt(keys[k], IdxOf(k, r))}}
    BY DEF List, IdxOf
  <2>2. \A k \in K : /\ liveAt(keys[k], IdxOf(k, r)) <=> LiveAt(k, h)
                     /\ LiveAt(k, h) => keys[k][IdxOf(k, r)] = E(k)
    BY <1>1, IdxIsNewest
  <2>3. QED
    BY <2>1, <2>2
<1>4. ASSUME NEW k \in L
      PROVE  /\ E(k).key = k /\ E(k).rev \in 0 .. h
             /\ \A s \in E(k).rev + 1 .. h : written[s].key # k
  <2>1. PICK n : n = newestAt(k, h)
    OBVIOUS
  <2>2. n \in 0 .. h /\ (n # 0 => written[n].key = k) /\ \A s \in 1 .. h : written[s].key = k => s <= n
    BY <2>1, <1>2, NewestSpec
  <2>3. n # 0
    BY <2>1, <1>4 DEF LiveAt, liveAt
  <2>4. n \in 1 .. h /\ n \in 1 .. currentRevision
    BY <2>2, <2>3, <1>1, <1>2
  <2>5. written[n].rev = n
    BY <2>4, <1>2
  <2>6. \A s \in n + 1 .. h : written[s].key # k
    <3> SUFFICES ASSUME NEW s \in n + 1 .. h, written[s].key = k PROVE FALSE
      OBVIOUS
    <3>1. s \in 1 .. h /\ ~(s <= n)
      BY <2>4, <1>2
    <3>2. QED
      BY <3>1, <2>2
  <2>7. QED
    BY <2>1, <2>2, <2>3, <2>5, <2>6
<1>5. L \subseteq Nat /\ IsFiniteSet(L)
  BY FS_Subset, BridgeAssumption
<1> HIDE DEF L, E
<1>6. IsFiniteSet({E(k) : k \in L})
  <2> DEFINE f == [k \in L |-> E(k)]
             T == {E(k) : k \in L}
  <2>1. f \in Surjection(L, T)
    BY DEF Surjection
  <2> HIDE DEF f, T
  <2>2. IsFiniteSet(T)
    BY <2>1, <1>5, FS_Surjection
  <2>3. QED
    BY <2>2 DEF T
<1>7. {e.key : e \in List(K, r)} = L
  BY <1>3, <1>4
<1>8. OneEach(List(K, r))
  <2>1. \A e \in List(K, r) : e.key \in Nat
    BY <1>7, <1>5
  <2>2. \A e, f \in List(K, r) : e.key = f.key => e = f
    BY <1>3, <1>4
  <2>3. QED
    BY <2>1, <2>2, <1>3, <1>6 DEF OneEach
<1>9. NewestOnes(List(K, r), h)
  <2> SUFFICES ASSUME NEW e \in List(K, r)
               PROVE  e.rev \in 0 .. h /\ \A s \in e.rev + 1 .. h : written[s].key # e.key
    BY DEF NewestOnes
  <2>1. PICK k \in L : e = E(k)
    BY <1>3
  <2>2. QED
    BY <2>1, <1>4
<1>10. QED
  BY <1>1, <1>7, <1>8, <1>9 DEF L

LEMMA LiveSetFinite ==
  ASSUME NEW r
  PROVE  LiveSet(r) \in SUBSET Nat /\ IsFiniteSet(LiveSet(r)) /\ Cardinality(LiveSet(r)) \in Nat
<1>1. LiveSet(r) \in SUBSET Keys
  BY DEF LiveSet, UserKeys
<1>2. QED
  BY <1>1, FS_Subset, FS_CardinalityType, BridgeAssumption

(* The keys of the clients that List shows, and their number. *)
LEMMA ListOfUsers ==
  ASSUME MemoryInv, NEW r, Readable(r)
  PROVE  /\ {e.key : e \in List(UserKeys, r)} = LiveSet(Headed(r))
         /\ Cardinality(List(UserKeys, r)) = Cardinality(LiveSet(Headed(r)))
         /\ OneEach(List(UserKeys, r)) /\ NewestOnes(List(UserKeys, r), Headed(r))
<1>1. UserKeys \in SUBSET Keys
  BY DEF UserKeys
<1>2. /\ {e.key : e \in List(UserKeys, r)} = LiveSet(Headed(r))
      /\ OneEach(List(UserKeys, r)) /\ NewestOnes(List(UserKeys, r), Headed(r))
  BY <1>1, ListSpec DEF LiveSet
<1>3. QED
  BY <1>2, KeysCounted

(* Nothing is live at revision 0. *)
LEMMA NothingAtZero == LiveSet(0) = {}
<1>1. ASSUME NEW k PROVE ~LiveAt(k, 0)
  <2>1. newestAt(k, 0) \in 0 .. 0
    BY NewestSpec
  <2>2. newestAt(k, 0) = 0
    BY <2>1
  <2>3. QED
    BY <2>2 DEF LiveAt, liveAt
<1>2. QED
  BY <1>1 DEF LiveSet

(* What list finds is right, for the answer and for the page that is counted later. *)
LEMMA ListIsRight ==
  ASSUME MemoryInv, NEW r, Readable(r), NEW kvs, kvs = firstOf(List(UserKeys, r), Limit + 1)
  PROVE  /\ Cardinality(kvs) \in Nat
         /\ Cardinality(kvs) <= Limit =>
              PageRight(kvs, Headed(r)) /\ Cardinality(kvs) = Cardinality(LiveSet(Headed(r)))
         /\ Cardinality(kvs) > Limit =>
              /\ PageRight(firstOf(kvs, Limit), Headed(r)) /\ Cardinality(LiveSet(Headed(r))) > Limit
              /\ Headed(r) # 0
<1> DEFINE L == List(UserKeys, r)
<1>1. PICK h : h = Headed(r)
  OBVIOUS
<1>2. /\ {e.key : e \in L} = LiveSet(h) /\ Cardinality(L) = Cardinality(LiveSet(h))
      /\ OneEach(L) /\ NewestOnes(L, h)
  BY <1>1, ListOfUsers
<1>3. kvs = firstOf(L, Limit + 1)
  OBVIOUS
<1> HIDE DEF L
<1>4. Limit \in Nat /\ Limit > 0 /\ Limit + 1 \in Nat
  BY BridgeAssumption
<1>5. kvs \in SUBSET L
  BY <1>3 DEF firstOf
<1>6. IsFiniteSet(L) /\ Cardinality(L) \in Nat /\ Cardinality(kvs) \in Nat /\ Cardinality(kvs) <= Cardinality(L)
  BY <1>2, <1>5, FS_Subset, FS_CardinalityType DEF OneEach
<1>7. ASSUME Cardinality(kvs) <= Limit
      PROVE  PageRight(kvs, h) /\ Cardinality(kvs) = Cardinality(LiveSet(h))
  <2>1. kvs = L
    BY <1>7, <1>2, <1>3, <1>4, <1>6, FirstAreAll
  <2>2. FirstKeys(LiveSet(h), Limit) = LiveSet(h)
    BY <2>1, <1>2, <1>4, <1>7, LiveSetFinite, FirstOfFew
  <2>3. QED
    BY <2>1, <2>2, <1>2 DEF PageRight
<1>8. ASSUME Cardinality(kvs) > Limit
      PROVE  PageRight(firstOf(kvs, Limit), h) /\ Cardinality(LiveSet(h)) > Limit /\ h # 0
  <2>1. firstOf(kvs, Limit) = firstOf(L, Limit)
    BY <1>2, <1>3, <1>4, FirstOfFirst
  <2>2. {e.key : e \in firstOf(L, Limit)} = FirstKeys(LiveSet(h), Limit)
    BY <1>2, <1>4, FirstOfKeys
  <2>3. NewestOnes(firstOf(L, Limit), h)
    BY <1>2 DEF NewestOnes, firstOf
  <2>4. Cardinality(LiveSet(h)) > Limit
    BY <1>2, <1>4, <1>6, <1>8
  <2>5. h # 0
    <3> SUFFICES ASSUME h = 0 PROVE FALSE
      OBVIOUS
    <3>1. Cardinality(LiveSet(h)) = 0
      BY NothingAtZero, FS_EmptySet
    <3>2. QED
      BY <3>1, <2>4, <1>4
  <2>6. QED
    BY <2>1, <2>2, <2>3, <2>4, <2>5 DEF PageRight
<1>9. QED
  BY <1>1, <1>4, <1>6, <1>7, <1>8

-----------------------------------------------------------------------------
(* What was right of a revision stays right. *)

(* The history only grows. *)
Grows ==
  /\ currentRevision \in Nat /\ currentRevision' \in Nat /\ currentRevision <= currentRevision'
  /\ \A r \in 1 .. currentRevision : written'[r] = written[r]

LEMMA NewestStays ==
  ASSUME Grows, NEW k, NEW r \in 0 .. currentRevision
  PROVE  newestAt(k, r)' = newestAt(k, r) /\ newestAt(k, r) \in 0 .. r
<1>1. \A s \in 1 .. r : written'[s] = written[s]
  BY DEF Grows
<1>2. {s \in 1 .. r : written'[s].key = k} = {s \in 1 .. r : written[s].key = k}
  BY <1>1
<1>3. newestAt(k, r)' = newestAt(k, r)
  BY <1>2 DEF newestAt
<1>4. r \in Nat
  BY DEF Grows
<1>5. QED
  BY <1>3, <1>4, NewestSpec

LEMMA LiveStays ==
  ASSUME Grows, NEW k, NEW r \in 0 .. currentRevision
  PROVE  LiveAt(k, r)' <=> LiveAt(k, r)
<1>1. PICK n : n = newestAt(k, r)
  OBVIOUS
<1>2. newestAt(k, r)' = n /\ n \in 0 .. r
  BY <1>1, NewestStays
<1>3. n # 0 => written'[n] = written[n]
  BY <1>2 DEF Grows
<1>4. QED
  BY <1>1, <1>2, <1>3 DEF LiveAt, liveAt

LEMMA LiveSetStays ==
  ASSUME Grows, NEW r \in 0 .. currentRevision
  PROVE  LiveSet(r)' = LiveSet(r)
BY LiveStays DEF LiveSet

LEMMA PageStays ==
  ASSUME Grows, NEW kvs, NEW r \in 0 .. currentRevision, PageRight(kvs, r)
  PROVE  PageRight(kvs, r)'
<1>1. {e.key : e \in kvs} = FirstKeys(LiveSet(r), Limit)
  BY DEF PageRight
<1>2. LiveSet(r)' = LiveSet(r)
  BY LiveSetStays
<1>3. \A s \in 1 .. r : written'[s] = written[s]
  BY DEF Grows
<1>4. NewestOnes(kvs, r)'
  <2> SUFFICES ASSUME NEW e \in kvs
               PROVE  e.rev \in 0 .. r /\ \A s \in e.rev + 1 .. r : written'[s].key # e.key
    BY DEF NewestOnes
  <2>1. e.rev \in 0 .. r /\ \A s \in e.rev + 1 .. r : written[s].key # e.key
    BY DEF PageRight, NewestOnes
  <2>2. \A s \in e.rev + 1 .. r : s \in 1 .. r
    BY <2>1 DEF Grows
  <2>3. QED
    BY <2>1, <2>2, <1>3
<1>5. QED
  BY <1>1, <1>2, <1>4 DEF PageRight, FirstKeys

LEMMA AnswerStays ==
  ASSUME Grows, NEW a, AnswerOK(a)
  PROVE  AnswerOK(a)'
<1>1. ASSUME RangeRight(a) PROVE RangeRight(a)'
  <2>1. a.rev \in 0 .. currentRevision
    BY <1>1 DEF RangeRight
  <2>2. a.rev \in 0 .. currentRevision'
    BY <2>1 DEF Grows
  <2>3. PageRight(a.kvs, a.rev)'
    BY <1>1, <2>1, PageStays DEF RangeRight
  <2>4. LiveSet(a.rev)' = LiveSet(a.rev)
    BY <2>1, LiveSetStays
  <2>5. QED
    BY <1>1, <2>2, <2>3, <2>4 DEF RangeRight
<1>2. QED
  BY <1>1 DEF AnswerOK

LEMMA ReqStays ==
  ASSUME Grows, NEW q, ReqOK(q)
  PROVE  ReqOK(q)'
<1>1. q.rev \in 0 .. currentRevision
  BY DEF ReqOK
<1>2. q.rev \in 0 .. currentRevision'
  BY <1>1 DEF Grows
<1>3. q.rev # 0 => written'[q.rev] = written[q.rev]
  BY <1>1 DEF Grows
<1>4. q.st = "updateGet" => LiveAt(q.key, q.rev)'
  BY <1>1, LiveStays DEF ReqOK
<1>5. q.st = "count" => PageRight(q.page, q.rev)'
  BY <1>1, PageStays DEF ReqOK
<1>6. LiveSet(q.rev)' = LiveSet(q.rev)
  BY <1>1, LiveSetStays
<1>7. QED
  BY <1>2, <1>3, <1>4, <1>5, <1>6 DEF ReqOK

(* The request q and the answer a of one client are new. *)
LEMMA OneClient ==
  ASSUME ClientsInv, Grows, NEW c \in Clients, NEW q, NEW a,
         req' = [req EXCEPT ![c] = q], answer' = [answer EXCEPT ![c] = a],
         ReqOK(q)', AnswerOK(a)'
  PROVE  ClientsInv'
<1>1. DOMAIN req = Clients /\ DOMAIN answer = Clients
  BY DEF ClientsInv
<1>2. DOMAIN req' = Clients /\ DOMAIN answer' = Clients /\ req'[c] = q /\ answer'[c] = a
      /\ \A d \in Clients : d # c => req'[d] = req[d] /\ answer'[d] = answer[d]
  BY <1>1
<1>3. ASSUME NEW d \in Clients PROVE (ReqOK(req[d]) /\ AnswerOK(answer[d]))'
  <2>1. PICK p, b : p = req'[d] /\ b = answer'[d]
    OBVIOUS
  <2>2. ReqOK(p)' /\ AnswerOK(b)'
    <3>1. CASE d = c
      BY <3>1, <2>1, <1>2
    <3>2. CASE d # c
      <4>1. p = req[d] /\ b = answer[d]
        BY <3>2, <2>1, <1>2
      <4>2. ReqOK(p) /\ AnswerOK(b)
        BY <4>1 DEF ClientsInv
      <4>3. QED
        BY <4>2, ReqStays, AnswerStays
    <3>3. QED
      BY <3>1, <3>2
  <2>3. QED
    BY <2>1, <2>2
<1>4. QED
  BY <1>2, <1>3 DEF ClientsInv

LEMMA NoClient ==
  ASSUME ClientsInv, Grows, req' = req, answer' = answer
  PROVE  ClientsInv'
<1>1. ASSUME NEW d \in Clients PROVE (ReqOK(req[d]) /\ AnswerOK(answer[d]))'
  <2>1. PICK p, b : p = req[d] /\ b = answer[d]
    OBVIOUS
  <2>2. ReqOK(p)' /\ AnswerOK(b)'
    BY <2>1, ReqStays, AnswerStays DEF ClientsInv
  <2>3. QED
    BY <2>1, <2>2
<1>2. QED
  BY <1>1 DEF ClientsInv

-----------------------------------------------------------------------------
(* The steps are steps of the memory backend. *)

(* A client step that only reads. *)
LEMMA ReadStep ==
  ASSUME BridgeInv, ReadOnly, NEW c \in Clients, NEW q, NEW a,
         req' = [req EXCEPT ![c] = q], answer' = [answer EXCEPT ![c] = a],
         ReqOK(q), AnswerOK(a)
  PROVE  BridgeInv'
<1>1. UNCHANGED memVars /\ versions' = versions
  BY DEF ReadOnly
<1>2. MemoryInv'
  BY <1>1, MemoryInvUnchanged DEF BridgeInv
<1>3. Grows
  BY <1>1, WrittenStays DEF BridgeInv, Grows
<1>4. ReqOK(q)' /\ AnswerOK(a)'
  BY <1>3, ReqStays, AnswerStays
<1>5. ClientsInv'
  BY <1>3, <1>4, OneClient DEF BridgeInv
<1>6. VersionsInv'
  BY <1>1 DEF BridgeInv, VersionsInv, memVars, store
<1>7. QED
  BY <1>2, <1>5, <1>6 DEF BridgeInv

LEMMA NoReqOK ==
  ASSUME MemoryInv
  PROVE  ReqOK(NoReq)
<1>1. currentRevision \in Nat
  BY BridgeTyped
<1>2. NoReq.st = "idle" /\ NoReq.rev = 0
  BY DEF NoReq
<1>3. QED
  BY <1>1, <1>2 DEF ReqOK

(* An answer about which nothing is promised. *)
PlainAnswer(a) == a.kind # "range" /\ (a.kind = "update" => a.ok)

LEMMA PlainOK ==
  ASSUME NEW a, PlainAnswer(a)
  PROVE  AnswerOK(a)
BY DEF PlainAnswer, AnswerOK

LEMMA PlainAnswers ==
  /\ PlainAnswer(NoAnswer) /\ PlainAnswer(Errs)
  /\ \A kind, rev : PlainAnswer(Ok(kind, rev)) <=> kind # "range"
  /\ \A kind, rev, kvs : kind \notin {"range", "update"} => PlainAnswer(Failed(kind, rev, kvs))
BY DEF PlainAnswer, NoAnswer, Errs, Ok, Failed

(* A client that is answered without a write. *)
LEMMA AnsweredRead ==
  ASSUME BridgeInv, ReadOnly, NEW c \in Clients, NEW a, Answers(c, a), AnswerOK(a)
  PROVE  BridgeInv'
<1>1. MemoryInv
  BY DEF BridgeInv
<1>2. ReqOK(NoReq)
  BY <1>1, NoReqOK
<1>3. QED
  BY <1>2, ReadStep DEF Answers

(* A request that goes on. *)
LEMMA WentOn ==
  ASSUME BridgeInv, ReadOnly, NEW c \in Clients, NEW st, NEW k, NEW r, NEW page,
         GoesOn(c, st, k, r, page), ReqOK([st |-> st, key |-> k, rev |-> r, page |-> page])
  PROVE  BridgeInv'
<1>1. AnswerOK(NoAnswer)
  BY PlainAnswers, PlainOK
<1>2. QED
  BY <1>1, ReadStep DEF GoesOn

-----------------------------------------------------------------------------
(* Writes. *)

LEMMA CompactRowsFinite ==
  ASSUME NEW wr, NEW r \in Nat
  PROVE  IsFiniteSet(CompactRows(wr, r)) /\ Cardinality(CompactRows(wr, r)) \in Nat
<1>1. IsFiniteSet(1 .. r) /\ CompactRows(wr, r) \in SUBSET (1 .. r)
  BY FS_Interval DEF CompactRows
<1>2. QED
  BY <1>1, FS_Subset, FS_CardinalityType

(* Entry e and version v are appended. *)
LEMMA VersionAppended ==
  ASSUME NEW vs \in Seq(Nat), NEW wr \in Seq(Entry), NEW cur \in Nat, Len(vs) = cur, Len(wr) = cur,
         VersionsOK(vs, wr, cur), NEW e \in Entry, NEW v \in Nat,
         e.key = compactRevAPI => v = Cardinality(CompactRows(wr, cur)) + 1 /\ ~e.deleted
  PROVE  VersionsOK(Append(vs, v), Append(wr, e), cur + 1)
<1> DEFINE E == Entry
<1>1. wr \in Seq(E) /\ e \in E
  OBVIOUS
<1> HIDE DEF E
<1>2. PICK wr2, vs2 : wr2 = Append(wr, e) /\ vs2 = Append(vs, v)
  OBVIOUS
<1>3. (\A i \in 1 .. cur : wr2[i] = wr[i]) /\ wr2[cur + 1] = e
  BY <1>1, <1>2, AppendProperties
<1>4. (\A i \in 1 .. cur : vs2[i] = vs[i]) /\ vs2[cur + 1] = v
  BY <1>2, AppendProperties
<1>5. \A r \in 0 .. cur : CompactRows(wr2, r) = CompactRows(wr, r)
  BY <1>3 DEF CompactRows
<1>6. ASSUME NEW r \in 1 .. cur, wr2[r].key = compactRevAPI
      PROVE  vs2[r] = Cardinality(CompactRows(wr2, r)) /\ ~wr2[r].deleted
  <2>1. wr[r].key = compactRevAPI /\ r \in 0 .. cur
    BY <1>3, <1>6
  <2>2. vs[r] = Cardinality(CompactRows(wr, r)) /\ ~wr[r].deleted
    BY <2>1 DEF VersionsOK
  <2>3. QED
    BY <2>1, <2>2, <1>3, <1>4, <1>5
<1>7. ASSUME e.key = compactRevAPI
      PROVE  v = Cardinality(CompactRows(wr2, cur + 1)) /\ ~e.deleted
  <2>1. CompactRows(wr2, cur + 1) = CompactRows(wr, cur) \cup {cur + 1}
    BY <1>3, <1>7 DEF CompactRows
  <2>2. cur + 1 \notin CompactRows(wr, cur)
    BY DEF CompactRows
  <2>3. Cardinality(CompactRows(wr2, cur + 1)) = Cardinality(CompactRows(wr, cur)) + 1
    BY <2>1, <2>2, CompactRowsFinite, FS_AddElement
  <2>4. QED
    BY <2>3, <1>7
<1>8. \A r \in 1 .. cur + 1 : r \in 1 .. cur \/ r = cur + 1
  OBVIOUS
<1>9. VersionsOK(vs2, wr2, cur + 1)
  BY <1>3, <1>4, <1>6, <1>7, <1>8 DEF VersionsOK
<1>10. QED
  BY <1>2, <1>9

(* A client that is answered with a write. *)
LEMMA WriteStep ==
  ASSUME BridgeInv, NEW c \in Clients, NEW k \in Keys, NEW leased \in BOOLEAN, NEW deleted \in BOOLEAN,
         appendEntry(k, leased, deleted), ClientWrite, NEW v \in Nat, Encodes(v),
         k = compactRevAPI => v = Cardinality(CompactRows(written, currentRevision)) + 1 /\ ~deleted,
         NEW a, Answers(c, a), PlainAnswer(a)
  PROVE  BridgeInv'
<1>1. MemoryInv /\ VersionsInv /\ ClientsInv
  BY DEF BridgeInv
<1>2. MemoryNext
  BY DEF MemoryNext
<1>3. MemoryInv'
  BY <1>1, <1>2, MemoryInvStep
<1>4. Grows
  BY <1>1, <1>2, WrittenStays DEF Grows
<1>5. ReqOK(NoReq)' /\ AnswerOK(a)'
  <2>1. ReqOK(NoReq) /\ AnswerOK(a)
    BY <1>1, NoReqOK, PlainOK
  <2>2. QED
    BY <2>1, <1>4, ReqStays, AnswerStays
<1>6. req' = [req EXCEPT ![c] = NoReq] /\ answer' = [answer EXCEPT ![c] = a]
  BY DEF Answers
<1>7. ClientsInv'
  BY <1>1, <1>4, <1>5, <1>6, OneClient
<1>8. VersionsInv'
  <2>1. PICK e : e = [rev |-> nextRevision, key |-> k, leased |-> leased, deleted |-> deleted]
    OBVIOUS
  <2>2. written' = Append(written, e) /\ currentRevision' = currentRevision + 1 /\ currentRevision < MaxRev
    BY <2>1 DEF appendEntry, nextRevision
  <2>3. currentRevision \in Nat /\ MaxRev \in Nat /\ written \in Seq(Entry) /\ Len(written) = currentRevision
    BY <1>1, BridgeTyped
  <2>4. nextRevision \in 1 .. MaxRev
    BY <2>2, <2>3 DEF nextRevision
  <2>5. e \in Entry /\ e.key = k /\ e.deleted = deleted
    BY <2>1, <2>4 DEF Entry
  <2>6. versions \in Seq(Nat) /\ Len(versions) = currentRevision
        /\ VersionsOK(versions, written, currentRevision)
    BY <1>1 DEF VersionsInv
  <2>7. VersionsOK(Append(versions, v), Append(written, e), currentRevision + 1)
    BY <2>3, <2>5, <2>6, VersionAppended
  <2>8. versions' = Append(versions, v)
    BY DEF Encodes
  <2>9. Append(versions, v) \in Seq(Nat) /\ Len(Append(versions, v)) = currentRevision + 1
    BY <2>6, AppendProperties
  <2>10. VersionsOK(versions', written', currentRevision')
    BY <2>2, <2>7, <2>8
  <2>11. QED
    BY <2>2, <2>8, <2>9, <2>10 DEF VersionsInv
<1>9. QED
  BY <1>3, <1>7, <1>8 DEF BridgeInv

LEMMA UserKeyTyped ==
  ASSUME NEW k \in UserKeys
  PROVE  k \in Keys /\ k # compactRevAPI
BY DEF UserKeys

LEMMA CreateAnswered ==
  ASSUME BridgeInv, NEW c \in Clients, NEW k \in UserKeys, NEW a, PlainAnswer(a),
         Create(k, FALSE), Encodes(0), Answers(c, a)
  PROVE  BridgeInv'
<1>1. k \in Keys /\ k # compactRevAPI
  BY UserKeyTyped
<1>2. appendEntry(k, FALSE, FALSE) /\ ClientWrite
  BY <1>1 DEF Create, ClientWrite
<1>3. QED
  BY <1>1, <1>2, WriteStep

LEMMA UpdateAnswered ==
  ASSUME BridgeInv, NEW c \in Clients, NEW k \in UserKeys, NEW r, NEW a, PlainAnswer(a),
         Update(k, r, FALSE), Encodes(0), Answers(c, a)
  PROVE  BridgeInv'
<1>1. k \in Keys /\ k # compactRevAPI /\ MemoryTypeOK
  BY UserKeyTyped DEF BridgeInv, MemoryInv
<1>2. r \in Revs
  BY <1>1, LatestTyped, EntryTyped DEF Update, Live
<1>3. appendEntry(k, FALSE, FALSE) /\ ClientWrite
  BY <1>1, <1>2 DEF Update, ClientWrite
<1>4. QED
  BY <1>1, <1>3, WriteStep

LEMMA DeleteAnswered ==
  ASSUME BridgeInv, NEW c \in Clients, NEW k \in UserKeys, NEW r \in Revs, NEW a, PlainAnswer(a),
         Delete(k, r), Encodes(0), Answers(c, a)
  PROVE  BridgeInv'
<1>1. k \in Keys /\ k # compactRevAPI /\ MemoryTypeOK
  BY UserKeyTyped DEF BridgeInv, MemoryInv
<1>2. latest(k).leased \in BOOLEAN
  BY <1>1, LatestTyped DEF Delete, Deletes, Live
<1>3. appendEntry(k, latest(k).leased, TRUE) /\ ClientWrite
  BY <1>1 DEF Delete, ClientWrite
<1>4. QED
  BY <1>1, <1>2, <1>3, WriteStep

-----------------------------------------------------------------------------
(* The requests. *)

LEMMA CreateStep ==
  ASSUME BridgeInv, NEW c \in Clients, NEW k \in UserKeys, create(c, k)
  PROVE  BridgeInv'
<1>1. CASE Live(k)
  <2>1. PICK a : a = Failed("txn", currentRevision, {})
    OBVIOUS
  <2>2. AnswerOK(a) /\ Answers(c, a) /\ ReadOnly
    BY <1>1, <2>1, PlainAnswers, PlainOK DEF create
  <2>3. QED
    BY <2>2, AnsweredRead
<1>2. CASE ~Live(k)
  <2>1. PICK a : a = Ok("txn", nextRevision)
    OBVIOUS
  <2>2. PlainAnswer(a) /\ Create(k, FALSE) /\ Encodes(0) /\ Answers(c, a)
    BY <1>2, <2>1, PlainAnswers DEF create
  <2>3. QED
    BY <2>2, CreateAnswered
<1>3. QED
  BY <1>1, <1>2

LEMMA DeleteTxnStep ==
  ASSUME BridgeInv, NEW c \in Clients, NEW k \in UserKeys, NEW r \in Revs, delete(c, k, r)
  PROVE  BridgeInv'
<1>1. CASE Deletes(k, r)
  <2>1. PICK a : a = [Ok("txn", nextRevision) EXCEPT !.kvs = Get(k, 0), !.count = 1]
    OBVIOUS
  <2>2. PlainAnswer(a)
    BY <2>1 DEF PlainAnswer, Ok, NoAnswer
  <2>3. Delete(k, r) /\ Encodes(0) /\ Answers(c, a)
    BY <1>1, <2>1, Zenon DEF delete
  <2>4. QED
    BY <2>2, <2>3, DeleteAnswered
<1>2. CASE ~Deletes(k, r)
  <2>1. PICK a : a = Failed("txn", currentRevision, Get(k, 0))
    OBVIOUS
  <2>2. AnswerOK(a) /\ Answers(c, a) /\ ReadOnly
    BY <1>2, <2>1, PlainAnswers, PlainOK DEF delete
  <2>3. QED
    BY <2>2, AnsweredRead
<1>3. QED
  BY <1>1, <1>2

LEMMA UpdateTxnStep ==
  ASSUME BridgeInv, NEW c \in Clients, NEW k \in UserKeys, NEW r \in Revs, update(c, k, r)
  PROVE  BridgeInv'
<1>1. CASE r = 0 /\ Live(k)
  <2>1. GoesOn(c, "updateGet", k, currentRevision, {}) /\ ReadOnly
    BY <1>1 DEF update
  <2>2. LiveAt(k, currentRevision) /\ currentRevision \in Nat
    BY <1>1, LatestIsNewest, BridgeTyped, UserKeyTyped DEF BridgeInv
  <2>3. ReqOK([st |-> "updateGet", key |-> k, rev |-> currentRevision, page |-> {}])
    BY <2>2 DEF ReqOK
  <2>4. QED
    BY <2>1, <2>3, WentOn
<1>2. CASE r = 0 /\ ~Live(k)
  <2>1. PICK a : a = Ok("update", nextRevision)
    OBVIOUS
  <2>2. PlainAnswer(a) /\ Create(k, FALSE) /\ Encodes(0) /\ Answers(c, a)
    BY <1>2, <2>1, PlainAnswers DEF update
  <2>3. QED
    BY <2>2, CreateAnswered
<1>3. CASE r # 0 /\ Live(k) /\ latest(k).rev = r
  <2>1. PICK a : a = Ok("txn", nextRevision)
    OBVIOUS
  <2>2. PlainAnswer(a) /\ Update(k, r, FALSE) /\ Encodes(0) /\ Answers(c, a)
    BY <1>3, <2>1, PlainAnswers DEF update
  <2>3. QED
    BY <2>2, UpdateAnswered
<1>4. CASE r # 0 /\ ~(Live(k) /\ latest(k).rev = r)
  <2>1. PICK a : a = Failed("txn", currentRevision, Get(k, 0))
    OBVIOUS
  <2>2. AnswerOK(a) /\ Answers(c, a) /\ ReadOnly
    BY <1>4, <2>1, PlainAnswers, PlainOK DEF update
  <2>3. QED
    BY <2>2, AnsweredRead
<1>5. QED
  BY <1>1, <1>2, <1>3, <1>4

(* The revision of a request is one that is known. *)
LEMMA ReqTyped ==
  ASSUME BridgeInv, NEW c \in Clients
  PROVE  ReqOK(req[c]) /\ req[c].rev \in 0 .. currentRevision /\ req[c].rev \in Nat /\ currentRevision \in Nat
<1>1. ReqOK(req[c]) /\ currentRevision \in Nat
  BY BridgeTyped DEF BridgeInv, ClientsInv
<1>2. QED
  BY <1>1 DEF ReqOK

LEMMA UpdateGetStep ==
  ASSUME BridgeInv, NEW c \in Clients, updateGet(c)
  PROVE  BridgeInv'
<1>1. PICK q : q = req[c]
  OBVIOUS
<1>2. /\ q.st = "updateGet" /\ ReadOnly
      /\ Answers(c, IF ErrCompacted(q.rev) THEN Errs ELSE Failed("update", q.rev, Get(q.key, q.rev)))
  BY <1>1 DEF updateGet, refusalRev
<1>3. /\ q.key \in UserKeys /\ LiveAt(q.key, q.rev) /\ q.rev \in 0 .. currentRevision /\ q.rev \in Nat
      /\ currentRevision \in Nat
  BY <1>1, <1>2, ReqTyped DEF ReqOK
<1>4. CASE ErrCompacted(q.rev)
  <2>1. Answers(c, Errs) /\ AnswerOK(Errs)
    BY <1>2, <1>4, PlainAnswers, PlainOK
  <2>2. QED
    BY <2>1, <1>2, AnsweredRead
<1>5. CASE ~ErrCompacted(q.rev)
  <2>1. PICK a : a = Failed("update", q.rev, Get(q.key, q.rev))
    OBVIOUS
  <2>2. q.rev # 0
    <3>1. q.rev = 0 => newestAt(q.key, q.rev) = 0
      BY NewestSpec
    <3>2. QED
      BY <3>1, <1>3 DEF LiveAt, liveAt
  <2>3. compactRevision \in Nat /\ MemoryInv
    BY BridgeTyped DEF BridgeInv
  <2>4. Readable(q.rev) /\ Headed(q.rev) = q.rev
    BY <2>2, <2>3, <1>3, <1>5 DEF ErrCompacted, Readable, Headed
  <2>5. {q.key} \in SUBSET Keys
    BY <1>3, UserKeyTyped
  <2>6. {e.key : e \in Get(q.key, q.rev)} = {k \in {q.key} : LiveAt(k, q.rev)}
    BY <2>3, <2>4, <2>5, ListSpec DEF Get
  <2>7. Get(q.key, q.rev) # {}
    BY <2>6, <1>3
  <2>8. a.kind = "update" /\ a.kvs = Get(q.key, q.rev)
    BY <2>1 DEF Failed, NoAnswer
  <2>9. AnswerOK(a)
    BY <2>7, <2>8 DEF AnswerOK
  <2>10. Answers(c, a)
    BY <2>1, <1>2, <1>5
  <2>11. QED
    BY <2>9, <2>10, <1>2, AnsweredRead
<1>6. QED
  BY <1>4, <1>5

LEMMA PutStep ==
  ASSUME BridgeInv, NEW c \in Clients, NEW k \in UserKeys, Put(c, k)
  PROVE  BridgeInv'
<1>1. CASE Live(k)
  <2>1. GoesOn(c, "putGet", k, currentRevision, {}) /\ ReadOnly
    BY <1>1 DEF Put
  <2>2. currentRevision \in Nat
    BY BridgeTyped DEF BridgeInv
  <2>3. ReqOK([st |-> "putGet", key |-> k, rev |-> currentRevision, page |-> {}])
    BY <2>2 DEF ReqOK
  <2>4. QED
    BY <2>1, <2>3, WentOn
<1>2. CASE ~Live(k)
  <2>1. PICK a : a = Ok("put", nextRevision)
    OBVIOUS
  <2>2. PlainAnswer(a) /\ Create(k, FALSE) /\ Encodes(0) /\ Answers(c, a)
    BY <1>2, <2>1, PlainAnswers DEF Put
  <2>3. QED
    BY <2>2, CreateAnswered
<1>3. QED
  BY <1>1, <1>2

LEMMA PutGetStep ==
  ASSUME BridgeInv, NEW c \in Clients, putGet(c)
  PROVE  BridgeInv'
<1>1. PICK q : q = req[c]
  OBVIOUS
<1>2. /\ q.st = "putGet" /\ ReadOnly
      /\ IF ErrCompacted(q.rev) THEN Answers(c, Errs) ELSE GoesOn(c, "putUpdate", q.key, q.rev, {})
  BY <1>1 DEF putGet
<1>3. CASE ErrCompacted(q.rev)
  <2>1. Answers(c, Errs) /\ AnswerOK(Errs)
    BY <1>2, <1>3, PlainAnswers, PlainOK
  <2>2. QED
    BY <2>1, <1>2, AnsweredRead
<1>4. CASE ~ErrCompacted(q.rev)
  <2>1. q.key \in UserKeys /\ q.rev \in 0 .. currentRevision
    BY <1>1, <1>2, ReqTyped DEF ReqOK
  <2>2. ReqOK([st |-> "putUpdate", key |-> q.key, rev |-> q.rev, page |-> {}])
    BY <2>1 DEF ReqOK
  <2>3. QED
    BY <2>2, <1>2, <1>4, WentOn
<1>5. QED
  BY <1>3, <1>4

LEMMA PutUpdateStep ==
  ASSUME BridgeInv, NEW c \in Clients, putUpdate(c)
  PROVE  BridgeInv'
<1>1. PICK q : q = req[c]
  OBVIOUS
<1>2. /\ q.st = "putUpdate"
      /\ IF Live(q.key) /\ latest(q.key).rev = q.rev
         THEN Update(q.key, q.rev, FALSE) /\ Encodes(0) /\ Answers(c, Ok("put", nextRevision))
         ELSE Answers(c, Ok("put", currentRevision)) /\ ReadOnly
  BY <1>1 DEF putUpdate
<1>3. q.key \in UserKeys
  BY <1>1, <1>2, ReqTyped DEF ReqOK
<1>4. \A r : PlainAnswer(Ok("put", r))
  BY PlainAnswers
<1>5. CASE Live(q.key) /\ latest(q.key).rev = q.rev
  BY <1>2, <1>3, <1>4, <1>5, UpdateAnswered
<1>6. CASE ~(Live(q.key) /\ latest(q.key).rev = q.rev)
  BY <1>2, <1>4, <1>6, PlainOK, AnsweredRead
<1>7. QED
  BY <1>5, <1>6

LEMMA ListStep ==
  ASSUME BridgeInv, NEW c \in Clients, NEW r \in Revs, list(c, r)
  PROVE  BridgeInv'
<1>1. PICK kvs : kvs = firstOf(List(UserKeys, r), Limit + 1)
  OBVIOUS
<1>2. MemoryInv /\ currentRevision \in Nat /\ compactRevision \in Nat /\ r \in Nat
  BY BridgeTyped DEF BridgeInv, Revs
<1>3. CASE ErrFutureRev(r) \/ ErrCompacted(r)
  <2>1. Answers(c, Errs) /\ ReadOnly /\ AnswerOK(Errs)
    BY <1>3, PlainAnswers, PlainOK DEF list
  <2>2. QED
    BY <2>1, AnsweredRead
<1>4. CASE ~(ErrFutureRev(r) \/ ErrCompacted(r))
  <2>1. Readable(r)
    BY <1>2, <1>4 DEF ErrFutureRev, ErrCompacted, Readable
  <2>2. PICK h : h = Headed(r)
    OBVIOUS
  <2>3. h \in 0 .. currentRevision
    BY <2>1, <2>2, <1>2, HeadedIsRead
  <2>4. /\ Cardinality(kvs) \in Nat
        /\ Cardinality(kvs) <= Limit => PageRight(kvs, h) /\ Cardinality(kvs) = Cardinality(LiveSet(h))
        /\ Cardinality(kvs) > Limit =>
             PageRight(firstOf(kvs, Limit), h) /\ Cardinality(LiveSet(h)) > Limit /\ h # 0
    BY <2>1, <2>2, <1>1, <1>2, ListIsRight
  <2>5. IF Cardinality(kvs) > Limit
        THEN GoesOn(c, "count", compactRevAPI, h, firstOf(kvs, Limit)) /\ ReadOnly
        ELSE Answers(c, [NoAnswer EXCEPT !.kind = "range", !.ok = TRUE, !.rev = h, !.kvs = kvs,
                                         !.count = Cardinality(kvs)]) /\ ReadOnly
    BY <1>1, <1>4, <2>2, Zenon DEF list
  <2>6. CASE Cardinality(kvs) > Limit
    <3>1. ReqOK([st |-> "count", key |-> compactRevAPI, rev |-> h, page |-> firstOf(kvs, Limit)])
      BY <2>3, <2>4, <2>6 DEF ReqOK
    <3>2. QED
      BY <3>1, <2>5, <2>6, WentOn
  <2>7. CASE ~(Cardinality(kvs) > Limit)
    <3>1. PICK a : a = [NoAnswer EXCEPT !.kind = "range", !.ok = TRUE, !.rev = h, !.kvs = kvs,
                                        !.count = Cardinality(kvs)]
      OBVIOUS
    <3>2. a.kind = "range" /\ a.rev = h /\ a.kvs = kvs /\ a.count = Cardinality(kvs) /\ a.more = FALSE
      BY <3>1 DEF NoAnswer
    <3>3. Limit \in Nat /\ Cardinality(kvs) <= Limit
      BY <2>4, <2>7, BridgeAssumption
    <3>4. RangeRight(a)
      BY <3>2, <3>3, <2>3, <2>4, <2>7 DEF RangeRight
    <3>5. AnswerOK(a)
      BY <3>2, <3>4 DEF AnswerOK
    <3>6. QED
      BY <3>1, <3>5, <2>5, <2>7, AnsweredRead
  <2>8. QED
    BY <2>6, <2>7
<1>5. QED
  BY <1>3, <1>4

LEMMA CountStep ==
  ASSUME BridgeInv, NEW c \in Clients, count(c)
  PROVE  BridgeInv'
<1>1. PICK q : q = req[c]
  OBVIOUS
<1>2. /\ q.st = "count" /\ ReadOnly
      /\ Answers(c, IF ErrCompacted(q.rev) THEN Errs
           ELSE [kind |-> "range", ok |-> TRUE, rev |-> IF CountsCurrent THEN currentRevision ELSE Headed(q.rev),
                 kvs |-> q.page, count |-> Cardinality(List(UserKeys, q.rev)), more |-> TRUE])
  BY <1>1 DEF count, countRev
<1>3. CASE ErrCompacted(q.rev)
  <2>1. Answers(c, Errs) /\ AnswerOK(Errs)
    BY <1>2, <1>3, PlainAnswers, PlainOK
  <2>2. QED
    BY <2>1, <1>2, AnsweredRead
<1>4. CASE ~ErrCompacted(q.rev)
  <2>1. PICK a : a = [kind |-> "range", ok |-> TRUE, rev |-> IF CountsCurrent THEN currentRevision ELSE Headed(q.rev),
                      kvs |-> q.page, count |-> Cardinality(List(UserKeys, q.rev)), more |-> TRUE]
    OBVIOUS
  <2>2. /\ a.kind = "range" /\ a.kvs = q.page /\ a.count = Cardinality(List(UserKeys, q.rev)) /\ a.more = TRUE
        /\ ~CountsCurrent => a.rev = Headed(q.rev)
    BY <2>1
  <2>3. /\ q.rev \in 0 .. currentRevision /\ q.rev \in Nat /\ currentRevision \in Nat /\ q.rev # 0
        /\ PageRight(q.page, q.rev) /\ Cardinality(LiveSet(q.rev)) > Limit
    BY <1>1, <1>2, ReqTyped DEF ReqOK
  <2>4. MemoryInv /\ compactRevision \in Nat
    BY BridgeTyped DEF BridgeInv
  <2>5. Readable(q.rev) /\ Headed(q.rev) = q.rev
    BY <2>3, <2>4, <1>4 DEF ErrCompacted, Readable, Headed
  <2>6. Cardinality(List(UserKeys, q.rev)) = Cardinality(LiveSet(q.rev))
    BY <2>4, <2>5, ListOfUsers
  <2>7. ~CountsCurrent => RangeRight(a)
    BY <2>2, <2>3, <2>5, <2>6 DEF RangeRight
  <2>8. AnswerOK(a)
    BY <2>2, <2>7 DEF AnswerOK
  <2>9. Answers(c, a)
    BY <2>1, <1>2, <1>4
  <2>10. QED
    BY <2>8, <2>9, <1>2, AnsweredRead
<1>5. QED
  BY <1>3, <1>4

(* Reads about which nothing is promised here. *)
LEMMA GetStep ==
  ASSUME BridgeInv, NEW c \in Clients, NEW k, NEW r, get(c, k, r)
  PROVE  BridgeInv'
<1>1. PICK a : a = IF ErrFutureRev(r) \/ ErrCompacted(r) THEN Errs ELSE Failed("txn", Headed(r), Get(k, r))
  OBVIOUS
<1>2. AnswerOK(a)
  BY <1>1, PlainAnswers, PlainOK
<1>3. QED
  BY <1>1, <1>2, AnsweredRead DEF get

LEMMA CountOnlyStep ==
  ASSUME BridgeInv, NEW c \in Clients, NEW r, countOnly(c, r)
  PROVE  BridgeInv'
<1>1. PICK n, h : n = Cardinality(List(UserKeys, r)) /\ h = Headed(r)
  OBVIOUS
<1>2. PICK b : b = [NoAnswer EXCEPT !.kind = "txn", !.rev = h, !.count = n]
  OBVIOUS
<1>3. PlainAnswer(b)
  BY <1>2 DEF PlainAnswer, NoAnswer
<1>4. Answers(c, IF ErrFutureRev(r) \/ ErrCompacted(r) THEN Errs ELSE b) /\ ReadOnly
  BY <1>1, <1>2, Zenon DEF countOnly
<1>5. AnswerOK(Errs) /\ AnswerOK(b)
  BY <1>3, PlainAnswers, PlainOK
<1>6. QED
  BY <1>4, <1>5, AnsweredRead

-----------------------------------------------------------------------------
(* The compact transaction. *)

LEMMA CompactTxnStep ==
  ASSUME BridgeInv, NEW c \in Clients, NEW v, compact(c, v)
  PROVE  BridgeInv'
<1>1. MemoryInv /\ currentRevision \in Nat /\ compactRevAPI \in Keys
  BY BridgeTyped, BridgeAssumption DEF BridgeInv
<1>2. CASE v = storedVersion
  <2>1. PICK r : r = IF Live(compactRevAPI) THEN latest(compactRevAPI).rev ELSE 0
    OBVIOUS
  <2>2. GoesOn(c, "compactWrite", compactRevAPI, r, {}) /\ ReadOnly
    BY <1>2, <2>1 DEF compact
  <2>3. r \in 0 .. currentRevision /\ (r # 0 => written[r].key = compactRevAPI)
    BY <2>1, <1>1, LatestIsNewest
  <2>4. ReqOK([st |-> "compactWrite", key |-> compactRevAPI, rev |-> r, page |-> {}])
    BY <2>3 DEF ReqOK
  <2>5. QED
    BY <2>2, <2>4, WentOn
<1>3. CASE v # storedVersion
  <2>1. PICK a : a = Failed("compact", currentRevision, Get(compactRevAPI, 0))
    OBVIOUS
  <2>2. AnswerOK(a) /\ Answers(c, a) /\ ReadOnly
    BY <1>3, <2>1, PlainAnswers, PlainOK DEF compact
  <2>3. QED
    BY <2>2, AnsweredRead
<1>4. QED
  BY <1>2, <1>3

(* A compact key that is not live was never written. *)
LEMMA NeverWritten ==
  ASSUME BridgeInv, ~Live(compactRevAPI)
  PROVE  CompactRows(written, currentRevision) = {}
<1>1. MemoryInv /\ currentRevision \in Nat /\ compactRevAPI \in Keys
      /\ VersionsOK(versions, written, currentRevision)
  BY BridgeTyped, BridgeAssumption DEF BridgeInv, VersionsInv
<1>2. ~LiveAt(compactRevAPI, currentRevision)
  BY <1>1, LatestIsNewest
<1>3. PICK n : n = newestAt(compactRevAPI, currentRevision)
  OBVIOUS
<1>4. /\ n \in 0 .. currentRevision /\ (n # 0 => written[n].key = compactRevAPI)
      /\ \A s \in 1 .. currentRevision : written[s].key = compactRevAPI => s <= n
  BY <1>1, <1>3, NewestSpec
<1>5. n = 0
  <2> SUFFICES ASSUME n # 0 PROVE FALSE
    OBVIOUS
  <2>1. n \in 1 .. currentRevision /\ written[n].key = compactRevAPI
    BY <1>1, <1>4
  <2>2. ~written[n].deleted
    BY <2>1, <1>1 DEF VersionsOK
  <2>3. QED
    BY <2>2, <1>2, <1>3 DEF LiveAt, liveAt
<1>6. QED
  BY <1>1, <1>4, <1>5 DEF CompactRows

(* All entries of the compact key are up to its latest. *)
LEMMA RowsUpToLatest ==
  ASSUME BridgeInv, Live(compactRevAPI), NEW r, latest(compactRevAPI).rev = r
  PROVE  CompactRows(written, currentRevision) = CompactRows(written, r) /\ r \in 1 .. currentRevision
<1>1. MemoryInv /\ currentRevision \in Nat /\ compactRevAPI \in Keys
  BY BridgeTyped, BridgeAssumption DEF BridgeInv
<1>2. r = newestAt(compactRevAPI, currentRevision) /\ r \in 1 .. currentRevision
  BY <1>1, LatestIsNewest
<1>3. \A s \in 1 .. currentRevision : written[s].key = compactRevAPI => s <= r
  BY <1>1, <1>2, NewestSpec
<1>4. QED
  BY <1>1, <1>2, <1>3 DEF CompactRows

LEMMA CompactWriteStep ==
  ASSUME BridgeInv, NEW c \in Clients, compactWrite(c)
  PROVE  BridgeInv'
<1>1. PICK q : q = req[c]
  OBVIOUS
<1>2. PICK version : version = IF q.rev = 0 THEN 0 ELSE versions[q.rev]
  OBVIOUS
<1>3. /\ q.st = "compactWrite"
      /\ IF version = 0
         THEN IF Live(compactRevAPI)
              THEN GoesOn(c, "compactGet", compactRevAPI, 0, {}) /\ ReadOnly
              ELSE Create(compactRevAPI, FALSE) /\ Encodes(1) /\ Answers(c, Ok("compact", nextRevision))
         ELSE IF Live(compactRevAPI) /\ latest(compactRevAPI).rev = q.rev
              THEN Update(compactRevAPI, q.rev, FALSE) /\ Encodes(version + 1) /\ Answers(c, Ok("compact", nextRevision))
              ELSE Answers(c, Ok("compact", currentRevision)) /\ ReadOnly
  BY <1>1, <1>2, Zenon DEF compactWrite, modRev
<1>4. /\ MemoryInv /\ MemoryTypeOK /\ currentRevision \in Nat /\ compactRevAPI \in Keys
      /\ VersionsOK(versions, written, currentRevision)
  BY BridgeTyped, BridgeAssumption DEF BridgeInv, VersionsInv
<1>5. \A r : PlainAnswer(Ok("compact", r)) /\ AnswerOK(Ok("compact", r))
  BY PlainAnswers, PlainOK
<1>6. CASE version = 0 /\ Live(compactRevAPI)
  <2>1. GoesOn(c, "compactGet", compactRevAPI, 0, {}) /\ ReadOnly
    BY <1>3, <1>6
  <2>2. ReqOK([st |-> "compactGet", key |-> compactRevAPI, rev |-> 0, page |-> {}])
    BY <1>4 DEF ReqOK
  <2>3. QED
    BY <2>1, <2>2, WentOn
<1>7. CASE version = 0 /\ ~Live(compactRevAPI)
  <2>1. Create(compactRevAPI, FALSE) /\ Encodes(1) /\ Answers(c, Ok("compact", nextRevision))
    BY <1>3, <1>7
  <2>2. Cardinality(CompactRows(written, currentRevision)) = 0
    BY <1>7, NeverWritten, FS_EmptySet
  <2>3. 1 = Cardinality(CompactRows(written, currentRevision)) + 1
    BY <2>2
  <2>4. appendEntry(compactRevAPI, FALSE, FALSE) /\ ClientWrite
    BY <2>1, <1>4 DEF Create, ClientWrite
  <2>5. QED
    BY <2>1, <2>3, <2>4, <1>4, <1>5, WriteStep
<1>8. CASE version # 0 /\ Live(compactRevAPI) /\ latest(compactRevAPI).rev = q.rev
  <2>1. /\ Update(compactRevAPI, q.rev, FALSE) /\ Encodes(version + 1)
        /\ Answers(c, Ok("compact", nextRevision))
    BY <1>3, <1>8
  <2>2. CompactRows(written, currentRevision) = CompactRows(written, q.rev) /\ q.rev \in 1 .. currentRevision
    BY <1>8, RowsUpToLatest
  <2>3. q.rev # 0 /\ written[q.rev].key = compactRevAPI
    BY <2>2, <1>1, <1>3, ReqTyped DEF ReqOK
  <2>4. version = Cardinality(CompactRows(written, q.rev))
    BY <2>2, <2>3, <1>2, <1>4 DEF VersionsOK
  <2>5. version \in Nat /\ version = Cardinality(CompactRows(written, currentRevision))
    BY <2>2, <2>4, <1>4, CompactRowsFinite
  <2>6. q.rev \in Revs
    BY <2>1, <1>4, LatestTyped, EntryTyped DEF Update, Live
  <2>7. appendEntry(compactRevAPI, FALSE, FALSE) /\ ClientWrite
    BY <2>1, <2>6, <1>4 DEF Update, ClientWrite
  <2>8. PICK v \in Nat : v = version + 1
    BY <2>5
  <2>9. QED
    BY <2>1, <2>5, <2>7, <2>8, <1>4, <1>5, WriteStep
<1>9. CASE version # 0 /\ ~(Live(compactRevAPI) /\ latest(compactRevAPI).rev = q.rev)
  <2>1. Answers(c, Ok("compact", currentRevision)) /\ ReadOnly
    BY <1>3, <1>9
  <2>2. QED
    BY <2>1, <1>5, AnsweredRead
<1>10. QED
  BY <1>6, <1>7, <1>8, <1>9

LEMMA CompactGetStep ==
  ASSUME BridgeInv, NEW c \in Clients, compactGet(c)
  PROVE  BridgeInv'
<1>1. PICK a : a = Failed("compact", currentRevision, Get(compactRevAPI, 0))
  OBVIOUS
<1>2. AnswerOK(a) /\ Answers(c, a) /\ ReadOnly
  BY <1>1, PlainAnswers, PlainOK DEF compactGet
<1>3. QED
  BY <1>2, AnsweredRead

LEMMA CompactRequestStep ==
  ASSUME BridgeInv, CompactRequest
  PROVE  BridgeInv'
<1>1. MemoryInv /\ MaxRev \in Nat
  BY BridgeTyped DEF BridgeInv
<1>2. PICK r \in 1 .. MaxRev : Compact(r) /\ UNCHANGED bridge
  BY DEF CompactRequest
<1>3. r \in Revs
  BY <1>1 DEF Revs
<1>4. MemoryNext
  BY <1>2, <1>3 DEF MemoryNext
<1>5. MemoryInv'
  BY <1>1, <1>4, MemoryInvStep
<1>6. Grows
  BY <1>1, <1>4, WrittenStays DEF Grows
<1>7. req' = req /\ answer' = answer /\ versions' = versions
  BY <1>2 DEF bridge
<1>8. ClientsInv'
  BY <1>6, <1>7, NoClient DEF BridgeInv
<1>9. written' = written /\ currentRevision' = currentRevision
  BY <1>2 DEF Compact
<1>10. VersionsInv'
  BY <1>7, <1>9 DEF BridgeInv, VersionsInv
<1>11. QED
  BY <1>5, <1>8, <1>10 DEF BridgeInv

-----------------------------------------------------------------------------
(* The theorems. *)

LEMMA TxnStep ==
  ASSUME BridgeInv, NEW c \in Clients, NEW t \in Txns, Txn(c, t)
  PROVE  BridgeInv'
<1>1. t \in Shapes
  BY DEF Txns
<1>2. t.key \in Keys /\ t.rev \in Revs /\ 0 \in Revs
  BY <1>1, MemoryAssumption DEF Shapes, Revs
<1>3. isCreate(t) \/ isDelete(t) \/ isUpdate(t) => t.key \in UserKeys
  BY <1>2 DEF Txns, UserKeys
<1>4. CASE isCreate(t)
  BY <1>3, <1>4, CreateStep DEF Txn
<1>5. CASE ~isCreate(t) /\ isDelete(t)
  <2>1. PICK r \in Revs : r = IF t.target = "none" THEN 0 ELSE t.rev
    BY <1>2
  <2>2. delete(c, t.key, r)
    BY <2>1, <1>5, Zenon DEF Txn
  <2>3. QED
    BY <2>2, <1>3, <1>5, DeleteTxnStep
<1>6. CASE ~isCreate(t) /\ ~isDelete(t) /\ isUpdate(t)
  BY <1>2, <1>3, <1>6, UpdateTxnStep DEF Txn
<1>7. CASE ~isCreate(t) /\ ~isDelete(t) /\ ~isUpdate(t) /\ isCompact(t)
  BY <1>7, CompactTxnStep DEF Txn
<1>8. CASE ~isCreate(t) /\ ~isDelete(t) /\ ~isUpdate(t) /\ ~isCompact(t)
  <2>1. Answers(c, Errs) /\ ReadOnly
    BY <1>8 DEF Txn
  <2>2. QED
    BY <2>1, PlainAnswers, PlainOK, AnsweredRead
<1>9. QED
  BY <1>4, <1>5, <1>6, <1>7, <1>8

LEMMA BridgeInit ==
  ASSUME Init
  PROVE  BridgeInv
<1>1. MemoryInv
  BY MemoryInvInit DEF Init
<1>2. VersionsInv
  BY DEF Init, MemoryInit, VersionsInv, VersionsOK
<1>3. ReqOK(NoReq) /\ AnswerOK(NoAnswer)
  BY <1>1, NoReqOK, PlainAnswers, PlainOK
<1>4. ClientsInv
  BY <1>3 DEF Init, ClientsInv
<1>5. QED
  BY <1>1, <1>2, <1>4 DEF BridgeInv

LEMMA BridgeStep ==
  ASSUME BridgeInv, [Next]_vars
  PROVE  BridgeInv'
<1>1. ASSUME NEW c \in Clients, Request(c) PROVE BridgeInv'
  BY <1>1, TxnStep, PutStep, GetStep, ListStep, CountOnlyStep DEF Request
<1>2. ASSUME NEW c \in Clients, Step(c) PROVE BridgeInv'
  BY <1>2, UpdateGetStep, PutGetStep, PutUpdateStep, CountStep, CompactWriteStep, CompactGetStep DEF Step
<1>3. CASE UNCHANGED vars
  <2>1. UNCHANGED memVars /\ req' = req /\ answer' = answer /\ versions' = versions
    BY <1>3 DEF vars, bridge
  <2>2. MemoryInv' /\ Grows
    BY <2>1, MemoryInvUnchanged, WrittenStays DEF BridgeInv, Grows
  <2>3. ClientsInv'
    BY <2>1, <2>2, NoClient DEF BridgeInv
  <2>4. VersionsInv'
    BY <2>1 DEF BridgeInv, VersionsInv, memVars, store
  <2>5. QED
    BY <2>2, <2>3, <2>4 DEF BridgeInv
<1>4. QED
  BY <1>1, <1>2, <1>3, CompactRequestStep DEF Next

LEMMA BridgeInvHolds == Spec => []BridgeInv
<1>1. Init => BridgeInv
  BY BridgeInit
<1>2. BridgeInv /\ [Next]_vars => BridgeInv'
  BY BridgeStep
<1>3. QED
  BY <1>1, <1>2, PTL DEF Spec

(***************************************************************************)
(* Whatever LimitedServer.list answers is the state of one revision, for   *)
(* every limit, every number of keys and clients, whatever is written or   *)
(* compacted between its List and its Count, provided that Count answers   *)
(* with the revision it was asked for.                                     *)
(***************************************************************************)
THEOREM PagesAreExact ==
  ASSUME CountsCurrent = FALSE
  PROVE  Spec => []PageExact
<1>1. ASSUME BridgeInv, NEW c \in Clients, answer[c].kind = "range"
      PROVE  RangeRight(answer[c])
  BY <1>1 DEF BridgeInv, ClientsInv, AnswerOK
<1>2. ASSUME NEW a, RangeRight(a)
      PROVE  LET live == {k \in UserKeys : LiveAt(k, a.rev)} IN
             /\ a.count = Cardinality(live) /\ (a.more <=> a.count > Limit)
             /\ {e.key : e \in a.kvs} = {k \in live : Cardinality({j \in live : j < k}) < Limit}
             /\ \A e \in a.kvs : e.rev <= a.rev /\ \A r \in e.rev + 1 .. a.rev : written[r].key # e.key
  BY <1>2 DEF RangeRight, PageRight, NewestOnes, FirstKeys, LiveSet
<1>3. BridgeInv => PageExact
  BY <1>1, <1>2 DEF PageExact
<1>4. QED
  BY <1>3, BridgeInvHolds, PTL

(***************************************************************************)
(* An update with revision 0 that LimitedServer.update refuses shows the   *)
(* key: Get reads at the revision of the refusal, where the key was live,  *)
(* even if it was deleted and compacted up to there since.                 *)
(***************************************************************************)
THEOREM RefusalsShow == Spec => []RefusalShown
<1>1. BridgeInv => RefusalShown
  BY DEF BridgeInv, ClientsInv, AnswerOK, RefusalShown
<1>2. QED
  BY <1>1, BridgeInvHolds, PTL

(***************************************************************************)
(* However many compact transactions of the apiservers race, the versions  *)
(* that LimitedServer.compact stores are 1, 2, 3 ...: the Update at the    *)
(* revision that was read lets one of them through.                        *)
(***************************************************************************)
THEOREM VersionsAlwaysAdvance == Spec => []VersionsAdvance
<1>1. ASSUME BridgeInv PROVE VersionsAdvance
  <2>1. written \in Seq(Entry) /\ Len(written) = currentRevision /\ VersionsOK(versions, written, currentRevision)
    BY <1>1, BridgeTyped DEF BridgeInv, VersionsInv
  <2>2. DOMAIN written = 1 .. currentRevision
    BY <2>1, EntriesTyped
  <2>3. QED
    BY <2>1, <2>2 DEF VersionsOK, VersionsAdvance, CompactRows
<1>2. QED
  BY <1>1, BridgeInvHolds, PTL

=============================================================================
