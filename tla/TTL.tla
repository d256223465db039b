-------------------------------- MODULE TTL --------------------------------
(***************************************************************************)
(* pkg/ttl on the memory backend, as Memory.Start composes them: the loop  *)
(* of ttl.Run lists the leased keys, watches for new ones and puts each    *)
(* into a delaying queue; the goroutine of handle deletes a key when its   *)
(* lease has elapsed.                                                      *)
(*                                                                         *)
(* Time is the set of the revisions whose lease has elapsed.  The queue is *)
(* the set of the keys in it: an item may come up at any time, handle      *)
(* looks at the clock itself.  A Delete may fail for any reason (in        *)
(* LogStructured: the deadline of kubehz_ttl.go).                          *)
(***************************************************************************)
EXTENDS MemoryBackend

CONSTANTS
  TTLWatch,    \* the watch of ttl.Run
  MaxClientRev,\* bound of the model: clients write up to this revision
  HandleRace   \* may an event be applied while handle works on its key?

ASSUME TTLAssumption ==
  /\ TTLWatch \in Watchers /\ Keys # {}
  /\ MaxClientRev \in Nat /\ MaxClientRev < MaxRev
  /\ HandleRace \in BOOLEAN

VARIABLES
  run,      \* where ttl.Run is: "seed", "watch", "loop" or "down"
  seedRev,  \* the revision of its initial List
  leases,   \* the map `store': per key the modRevision of its entry, 0 when there is none
  queue,    \* the keys in the workqueue
  handle,   \* the goroutine of handle: where it is and its key
  elapsed   \* the revisions whose lease has elapsed

ttl == <<run, seedRev, leases, queue, handle, elapsed>>
ttlVars == <<memVars, ttl>>

HandleIdle == [st |-> "idle", key |-> CHOOSE k \in Keys : TRUE]

TTLTypeOK ==
  /\ MemoryTypeOK
  /\ run \in {"seed", "watch", "loop", "down"} /\ seedRev \in Revs
  /\ leases \in [Keys -> Revs] /\ queue \in SUBSET Keys
  /\ handle \in [st : {"idle", "delete", "remove"}, key : Keys]
  /\ elapsed \in SUBSET Revs

TTLInit ==
  /\ MemoryInit
  /\ run = "seed" /\ seedRev = 0
  /\ leases = [k \in Keys |-> 0]
  /\ queue = {} /\ handle = HandleIdle /\ elapsed = {}

ShutDown == run' = "down" /\ queue' = {}

-----------------------------------------------------------------------------
(* ttl.Run *)

(***************************************************************************)
(* seed: every leased key, in pages that are all read at the revision of   *)
(* the first one.  A page may fail: the backend does, or the revision has  *)
(* been compacted.                                                         *)
(***************************************************************************)
seed ==
  /\ run = "seed"
  /\ \/ LET found == {e \in List(Keys, 0) : e.leased} IN
        /\ leases' = [k \in Keys |-> IF \E e \in found : e.key = k THEN latest(k).rev ELSE 0]
        /\ queue' = {e.key : e \in found}
        /\ run' = "watch"
        /\ seedRev' = currentRevision
     \/ ShutDown /\ UNCHANGED <<seedRev, leases>>
  /\ UNCHANGED <<memVars, handle, elapsed>>

(* The watch starts behind the list; if that is compacted, ttl.Run gives up. *)
watchSeeded ==
  /\ run = "watch"
  /\ \/ Watch(TTLWatch, seedRev + 1) /\ run' = "loop" /\ UNCHANGED queue
     \/ Refused(seedRev + 1) /\ ShutDown /\ UNCHANGED memVars
  /\ UNCHANGED <<seedRev, leases, handle, elapsed>>

(* Mutant of isNewLease: any newer event counts, leased or not. *)
isNewEvent(e) == ~e.deleted /\ e.rev > leases[e.key]

(* An event with a lease that is newer than the entry of its key. *)
isNewLease(e) == ~e.deleted /\ e.leased /\ e.rev > leases[e.key]

(* save changes the entry in place. *)
save(e) ==
  /\ leases' = [leases EXCEPT ![e.key] = e.rev]
  /\ queue' = queue \cup {e.key}

onEvent ==
  /\ run = "loop"
  /\ events[TTLWatch] # <<>>
  /\ LET e == written[Head(events[TTLWatch])] IN
     /\ HandleRace \/ handle.st = "idle" \/ handle.key # e.key
     /\ IF isNewLease(e) THEN save(e) ELSE UNCHANGED <<leases, queue>>
  /\ events' = [events EXCEPT ![TTLWatch] = Tail(@)]
  /\ UNCHANGED <<store, mwatch, run, seedRev, handle, elapsed>>

-----------------------------------------------------------------------------
(* handle *)

Expired(k) == leases[k] \in elapsed

(***************************************************************************)
(* An item comes up: no entry, drop it; not expired, back into the queue;  *)
(* expired, go on and delete.                                              *)
(***************************************************************************)
handleGet(k) ==
  /\ k \in queue
  /\ handle.st = "idle"
  /\ queue' = IF leases[k] # 0 /\ ~Expired(k) THEN queue ELSE queue \ {k}
  /\ handle' = IF leases[k] # 0 /\ Expired(k) THEN [st |-> "delete", key |-> k] ELSE handle
  /\ UNCHANGED <<memVars, run, seedRev, leases, elapsed>>

(* The revision handle gives to Delete: the entry's, at this moment. *)
modRevision(k) == leases[k]

(* Delete at the entry's revision; a key that has changed since stays. *)
handleDelete ==
  /\ handle.st = "delete"
  /\ \/ Delete(handle.key, modRevision(handle.key))
     \/ ~Deletes(handle.key, modRevision(handle.key)) /\ UNCHANGED memVars
  /\ handle' = [handle EXCEPT !.st = "remove"]
  /\ UNCHANGED <<run, seedRev, leases, queue, elapsed>>

(* Delete fails: try again after the retry interval. *)
handleRetry ==
  /\ handle.st = "delete"
  /\ handle' = HandleIdle
  /\ queue' = IF run = "down" THEN queue ELSE queue \cup {handle.key}
  /\ UNCHANGED <<memVars, run, seedRev, leases, elapsed>>

(* The entry is removed, whatever is in it by now. *)
handleRemove ==
  /\ handle.st = "remove"
  /\ leases' = [leases EXCEPT ![handle.key] = 0]
  /\ handle' = HandleIdle
  /\ UNCHANGED <<memVars, run, seedRev, queue, elapsed>>

(* The lease of an entry elapses. *)
LeaseElapses(k) ==
  /\ leases[k] # 0
  /\ ~Expired(k)
  /\ elapsed' = elapsed \cup {leases[k]}
  /\ UNCHANGED <<memVars, run, seedRev, leases, queue, handle>>

-----------------------------------------------------------------------------
Run == seed \/ watchSeeded \/ onEvent

Handler == handleDelete \/ handleRetry \/ handleRemove \/ \E k \in Keys : handleGet(k)

Backend ==
  /\ \/ currentRevision < MaxClientRev /\ ClientWrite
     \/ \E r \in Revs : Compact(r)
     \/ \E w \in Watchers : watchStep(w)
  /\ UNCHANGED ttl

TTLNext == Run \/ Handler \/ Backend \/ \E k \in Keys : LeaseElapses(k)

TTLSpec == TTLInit /\ [][TTLNext]_ttlVars

(***************************************************************************)
(* Fairness: the goroutines run, time passes, the queue hands out its      *)
(* items, and a Delete that is tried again and again succeeds.             *)
(***************************************************************************)
TTLFairness ==
  /\ WF_ttlVars(Run) /\ SF_ttlVars(handleDelete) /\ WF_ttlVars(handleRemove)
  /\ \A k \in Keys : SF_ttlVars(handleGet(k)) /\ WF_ttlVars(LeaseElapses(k))
  /\ \A w \in Watchers : WF_ttlVars(watchStep(w) /\ UNCHANGED ttl)

FairTTLSpec == TTLSpec /\ TTLFairness

-----------------------------------------------------------------------------
(* Properties. *)

(***************************************************************************)
(* What the TTL loop deletes is a version of a key that was written with a *)
(* lease, and that lease has elapsed: not an update without a lease that   *)
(* came in between, and not a version whose lease is still running.        *)
(***************************************************************************)
OnlyElapsed ==
  [][handle.st = "delete" /\ handle'.st = "remove" /\ currentRevision' > currentRevision =>
       latest(handle.key).leased /\ latest(handle.key).rev \in elapsed]_ttlVars

(***************************************************************************)
(* A leased version of a key does not stay for ever: it is replaced or     *)
(* deleted, unless ttl.Run has given up.  No event of a lease is lost      *)
(* between the list and the watch, in the log, or in the queue.            *)
(***************************************************************************)
LeasesExpire == \A k \in Keys, r \in 1 .. MaxRev :
  Live(k) /\ latest(k).leased /\ latest(k).rev = r
    ~> ~(Live(k) /\ latest(k).rev = r) \/ run = "down"
=============================================================================
