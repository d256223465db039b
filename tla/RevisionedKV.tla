--------------------------- MODULE RevisionedKV ----------------------------
(***************************************************************************)
(* What a backend promises the etcd front end (pkg/server/types.go,        *)
(* Backend): one store of live keys with a revision that every write       *)
(* raises by one, and conditional writes that take effect in one step, and *)
(* only when their condition holds in that step.                           *)
(*                                                                         *)
(* A request is pending from the moment the backend accepted it until it   *)
(* answers.  `lost' holds the pending requests whose condition has been    *)
(* false at some moment since they were accepted: the answer "exists" is   *)
(* reserved to those.  "failed" is a weak refusal (the write did not       *)
(* happen, the caller reads again); "error" leaves the outcome open.       *)
(***************************************************************************)
EXTENDS Integers

CONSTANTS
  Keys,
  Clients,
  InitRev,    \* the revision of an empty store
  NoRequest,  \* the client has no request pending
  NoKey       \* no key: the client has had no answer yet

VARIABLES
  kv,    \* the live keys: a set of [key, mod, create], one entry per key
  rev,   \* the store's revision
  req,   \* the pending request of every client
  lost,  \* the pending requests whose condition has been false
  resp   \* the last answer a client got

vars == <<kv, rev, req, lost, resp>>

Request == [op : {"create", "update", "delete"}, key : Keys, exp : Nat]

(* The condition of a request in a store. *)
Holds(store, r) ==
  IF r.op = "create" THEN \A e \in store : e.key # r.key
                     ELSE \E e \in store : e.key = r.key /\ e.mod = r.exp

(* The store after the write of request r at revision n. *)
Written(store, r, n) ==
  {e \in store : e.key # r.key}
    \cup (CASE r.op = "create" -> {[key |-> r.key, mod |-> n, create |-> n]}
            [] r.op = "update" -> {[key |-> r.key, mod |-> n, create |-> e.create] :
                                     e \in {x \in store : x.key = r.key}}
            [] r.op = "delete" -> {})

NoAnswer == [op |-> "none", key |-> NoKey, ans |-> "none"]

Answer(op, k, a) == [op |-> op, key |-> k, ans |-> a]

(* No entry of the store is for key k. *)
Absent(store, k) == \A e \in store : e.key # k

Init ==
  /\ kv = {}
  /\ rev = InitRev
  /\ req = [c \in Clients |-> NoRequest]
  /\ lost = {}
  /\ resp = NoAnswer

(* A request is accepted while its condition holds. *)
Accept(c) ==
  /\ req[c] = NoRequest
  /\ req'[c] \in Request
  /\ Holds(kv, req'[c])
  /\ req' = [req EXCEPT ![c] = req'[c]]
  /\ resp' = NoAnswer
  /\ UNCHANGED <<kv, rev, lost>>

(***************************************************************************)
(* A request that is not accepted is answered at once: "exists" to the     *)
(* create of a live key, "failed" to any conditional write, "ok" to the    *)
(* delete of a key that is not there, and "error" to any.                  *)
(***************************************************************************)
Refuse(c) ==
  /\ req[c] = NoRequest
  /\ \E k \in Keys :
       \/ /\ ~Absent(kv, k)
          /\ resp' = Answer("create", k, "exists")
       \/ \E op \in {"update", "delete"} :
            resp' = Answer(op, k, "failed")
       \/ \E op \in {"create", "update", "delete"} :
            resp' = Answer(op, k, "error")
       \/ /\ Absent(kv, k)
          /\ resp' = Answer("delete", k, "ok")
  /\ UNCHANGED <<kv, rev, req, lost>>

(* The write takes effect.  The answer is "ok", or lost on the way. *)
Apply(c) ==
  /\ req[c] # NoRequest
  /\ Holds(kv, req[c])
  /\ rev' = rev + 1
  /\ kv' = Written(kv, req[c], rev + 1)
  /\ req' = [req EXCEPT ![c] = NoRequest]
  /\ lost' = (lost \ {c}) \cup
               {d \in Clients \ {c} : req[d] # NoRequest /\ ~Holds(kv', req[d])}
  /\ \E a \in {"ok", "error"} :
       resp' = Answer(req[c].op, req[c].key, a)

(* The request ends without effect. *)
Drop(c) ==
  /\ req[c] # NoRequest
  /\ \E a \in {"exists", "failed", "error"} :
       /\ a = "exists" => req[c].op = "create" /\ c \in lost
       /\ a = "failed" => req[c].op # "create"
       /\ resp' = Answer(req[c].op, req[c].key, a)
  /\ req' = [req EXCEPT ![c] = NoRequest]
  /\ lost' = lost \ {c}
  /\ UNCHANGED <<kv, rev>>

Next == \E c \in Clients : Accept(c) \/ Refuse(c) \/ Apply(c) \/ Drop(c)

Spec == Init /\ [][Next]_vars
=============================================================================
