--------------------------- MODULE WatchProgress ---------------------------
(***************************************************************************)
(* The progress notifications of a watch stream (pkg/server/watch.go) on   *)
(* top of WatchPipeline.  Two timers of the stream tell its client how far *)
(* its watches are: ProgressIfSynced every watch for itself,               *)
(* ProgressAll, on request, all of them with one message.                  *)
(***************************************************************************)
EXTENDS WatchPipeline

VARIABLES
  notify,  \* watcher.notify: progress has been requested
  prog,    \* per timer: its running call
  bcast    \* a broadcast notification that `go Send' has still to send

progVars == <<notify, prog, bcast>>

allVars == <<vars, progVars>>

Timers == {"all", "tick"}

Idle == [st |-> "idle", rev |-> 0, todo |-> {}]

Call == [st : {"idle", "wait", "visit"}, rev : Revs, todo : SUBSET Watches]

ProgressTypeOK ==
  /\ TypeOK
  /\ notify \in BOOLEAN /\ prog \in [Timers -> Call] /\ bcast \in Revs

ProgressInit ==
  /\ Init
  /\ notify = FALSE
  /\ prog = [t \in Timers |-> Idle]
  /\ bcast = 0

-----------------------------------------------------------------------------
(* A progress request sets a flag. *)
Progress ==
  /\ ~closed
  /\ notify' = TRUE
  /\ UNCHANGED <<vars, prog, bcast>>

(***************************************************************************)
(* A timer fires: ProgressAll works on request only, ProgressIfSynced only *)
(* when there is none.  It takes the cached current revision, which may be *)
(* behind MAX(id) (SQLPoll); a call that cannot get one changes nothing.   *)
(***************************************************************************)
ProgressFires(t) ==
  /\ ~closed
  /\ prog[t].st = "idle"
  /\ notify <=> t = "all"
  /\ \E rev \in rows : prog' = [prog EXCEPT ![t] = [st |-> "wait", rev |-> rev, todo |-> {}]]
  /\ UNCHANGED <<vars, notify, bcast>>

(* WaitForSyncTo returns; ProgressAll takes the flag back. *)
ProgressSynced(t) ==
  /\ prog[t].st = "wait"
  /\ polledRev >= prog[t].rev
  /\ prog' = [prog EXCEPT ![t] = [@ EXCEPT !.st = "visit",
                                  !.todo = {w \in Watches : watch[w].progress}]]
  /\ notify' = (notify /\ t # "all")
  /\ UNCHANGED <<vars, bcast>>

(* watcher.watch is blocked in its select and takes a progress message. *)
Blocked(w) == watch[w].st = "loop" /\ result[w] = <<>> /\ watch[w].fwd # "done"

(* ProgressIfSynced hands its revision to watch w, which passes it on. *)
Announces(w) ==
  /\ w \in prog["tick"].todo
  /\ Blocked(w) /\ watch[w].progress
  /\ prog["tick"].rev >= watch[w].max
  /\ ~closed

(* ProgressIfSynced visits the channel of watch w. *)
ProgressIfSynced(w) ==
  /\ w \in prog["tick"].todo
  /\ prog' = [prog EXCEPT !["tick"].todo = @ \ {w}]
  /\ IF Announces(w)
     THEN watch' = [watch EXCEPT ![w].max = prog["tick"].rev] /\ Send(prog["tick"].rev)
     ELSE UNCHANGED <<watch, maxRevision>>
  /\ UNCHANGED <<db, pollVars, item, subVars, result, got, closed, notify, bcast>>

(* ProgressAll probes every watch and gives up at the first that is busy. *)
ProgressAll(w) ==
  /\ w \in prog["all"].todo
  /\ prog' = IF Blocked(w) THEN [prog EXCEPT !["all"].todo = @ \ {w}]
                           ELSE [prog EXCEPT !["all"] = Idle]
  /\ UNCHANGED <<vars, notify, bcast>>

(* A call is through its watches; ProgressAll starts `go Send'. *)
ProgressDone(t) ==
  /\ prog[t].st = "visit"
  /\ prog[t].todo = {}
  /\ bcast' = IF t = "all" THEN prog[t].rev ELSE bcast
  /\ prog' = [prog EXCEPT ![t] = Idle]
  /\ UNCHANGED <<vars, notify>>

(* The broadcast notification: it is for every watch of the stream. *)
SendBroadcast ==
  /\ bcast # 0
  /\ Send(bcast)
  /\ bcast' = 0
  /\ UNCHANGED <<db, pollVars, item, subVars, result, watch, got, closed, notify, prog>>

-----------------------------------------------------------------------------
Notifications ==
  \/ Progress \/ SendBroadcast
  \/ \E t \in Timers : ProgressFires(t) \/ ProgressSynced(t) \/ ProgressDone(t)
  \/ \E w \in Watches : ProgressIfSynced(w) \/ ProgressAll(w)

ProgressNext == (Next /\ UNCHANGED progVars) \/ Notifications

ProgressSpec == ProgressInit /\ [][ProgressNext]_allVars

(* The timers fire and their calls go on; so do poll loop and forwarding. *)
ProgressFairness ==
  /\ WF_allVars(Poll /\ UNCHANGED progVars) /\ WF_allVars(PolledRev /\ UNCHANGED progVars)
  /\ WF_allVars(stream /\ UNCHANGED progVars)
  /\ \A t \in Timers : /\ WF_allVars(ProgressFires(t)) /\ WF_allVars(ProgressSynced(t))
                       /\ WF_allVars(ProgressDone(t))
  /\ \A w \in Watches : WF_allVars(ProgressAll(w)) /\ WF_allVars(ProgressIfSynced(w))

FairProgressSpec == ProgressSpec /\ ProgressFairness

-----------------------------------------------------------------------------
(* Properties. *)

(***************************************************************************)
(* A progress request is taken up while the node polls and the stream is   *)
(* open: WaitForSyncTo does not wait for ever, and the timer of the other  *)
(* kind of notification does not starve it.                                *)
(***************************************************************************)
ProgressServed == notify ~> ~notify \/ closed \/ ~running

(***************************************************************************)
(* "ProgressIfSynced sends a progress report on any channels that are      *)
(* synced": a watch that is told of a revision, the header that Send makes *)
(* of it included, has been sent its events up to that revision.           *)
(***************************************************************************)
SyncedClaims ==
  [][\A w \in Watches :
       /\ Announces(w) /\ w \notin prog'["tick"].todo
       /\ ~watch[w].missed /\ ~watch[w].failed
       =>
       \A r \in rows \cap InRange[w] :
         watch[w].from < r /\ r <= maxRevision' => Contains(got[w], r)]_allVars
=============================================================================
