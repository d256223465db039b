----------------------------- MODULE KineTable -----------------------------
(***************************************************************************)
(* The one table every SQL driver of kine works on, and the queries        *)
(* pkg/drivers/generic runs against it.  The table is a set of rows; `id'  *)
(* is the auto-increment primary key and doubles as the revision.          *)
(*                                                                         *)
(* Values, old values and leases are left out: a row's id stands for its   *)
(* value.  The compact_rev_key row is the first row of a new database, it  *)
(* is never deleted, and its prev_revision column is the variable          *)
(* compactRev of the modules that use this one; CompactRevKeyID is its id. *)
(***************************************************************************)
EXTENDS Integers

CONSTANT Keys

(* id of the compact_rev_key row that SQLLog.compactStart inserts. *)
CompactRevKeyID == 1

(***************************************************************************)
(* A row of the kine table.  createRev is 0 in a row that creates its key: *)
(* the revision is only known once the database has assigned the id.       *)
(***************************************************************************)
Row == [id : Nat, name : Keys, created : BOOLEAN, deleted : BOOLEAN,
        createRev : Nat, prev : Nat]

(* SELECT MAX(id): the current revision of the database. *)
CurrentRevision(rows) ==
  CHOOSE m \in {CompactRevKeyID} \cup {r.id : r \in rows} :
    \A r \in rows : r.id <= m

(* MAX(id) per name over the whole table: what a read at revision 0 sees. *)
Latest(rows, k) ==
  {r \in rows : r.name = k /\ \A s \in rows : s.name = k => s.id <= r.id}

(* The rows a List at revision rev returns: the newest row of every key at *)
(* that revision, tombstones left out.                                     *)
ListAt(rows, rev) ==
  {r \in rows : /\ ~r.deleted
                /\ r.id <= rev
                /\ \A s \in rows :
                     s.name = r.name /\ s.id <= rev => s.id <= r.id}

(* SELECT ... WHERE id > rev: the events a watch from rev starts with. *)
After(rows, rev) == {r \in rows : r.id > rev}

(* Mutant of Conflict: the index ignores rows without a predecessor. *)
ConflictUnlessNew(rows, k, prev) ==
  prev # 0 /\ \E r \in rows : r.name = k /\ r.prev = prev

(***************************************************************************)
(* The UNIQUE index on (name, prev_revision): the INSERT of a row for k    *)
(* after revision prev fails when a row with the same pair is there.       *)
(***************************************************************************)
Conflict(rows, k, prev) == \E r \in rows : r.name = k /\ r.prev = prev

(* Mutant of CompactedIds: tombstones go, the rows they hide stay. *)
TombstoneIds(rows, target) == {r.id : r \in {q \in rows : q.deleted /\ q.id <= target}}

(* Mutant of CompactedIds: one revision too many. *)
CompactedIdsPast(rows, target) ==
       {r.prev : r \in {q \in rows : q.prev # 0 /\ q.id <= target + 1}}
  \cup {r.id : r \in {q \in rows : q.deleted /\ q.id <= target + 1}}

(***************************************************************************)
(* CompactSQL: delete every row that a row at or below target replaced,    *)
(* and every tombstone at or below target.                                 *)
(***************************************************************************)
CompactedIds(rows, target) ==
       {r.prev : r \in {q \in rows : q.prev # 0 /\ q.id <= target}}
  \cup {r.id : r \in {q \in rows : q.deleted /\ q.id <= target}}

Compacted(rows, target) ==
  {r \in rows : r.id \notin CompactedIds(rows, target)}

(* scan(): the revision at which the row's key was created. *)
CreateRevision(r) == IF r.created THEN r.id ELSE r.createRev

=============================================================================
