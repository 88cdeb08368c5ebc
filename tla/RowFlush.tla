------------------------------ MODULE RowFlush ------------------------------
(***************************************************************************)
(* How a request changes database rows, shared by the modules of the       *)
(* records that requests load, check and write back.                       *)
(*                                                                         *)
(* A handler opens a transaction, loads rows without a lock, checks them,  *)
(* assigns attributes and commits.  The session then updates, in each row, *)
(* only the columns whose value differs from the one it loaded, with no    *)
(* condition on the row still being as it was loaded: the version mixin    *)
(* is not a version_id_col.  The commit of one request is one step.        *)
(***************************************************************************)
(* The row after the flush of an object loaded as `old` and set to `new`.   *)
Flush_EveryColumn(row, old, new) == new

Flush(row, old, new) ==
  [f \in DOMAIN row |-> IF new[f] # old[f] THEN new[f] ELSE row[f]]

(* A request in flight: the rows it will write, as loaded and as set, and   *)
(* those of them another request has written since it loaded them.          *)
Write(id, old, new) == [i \in {id} |-> [old |-> old, new |-> new]]

Load(id, old, new) == [writes |-> Write(id, old, new), stale |-> {}]

LoadMore(r, id, old, new) ==
  [r EXCEPT !.writes = [i \in DOMAIN @ \cup {id} |-> IF i = id THEN [old |-> old, new |-> new] ELSE @[i]]]

Dirty(r) == DOMAIN r.writes

(* bump_version: an expected version other than the loaded one is refused.  *)
(* The counter is abstracted to what comparing it can tell.                 *)
BumpVersion(expected) == expected \in {"none", "current"}

(* The table after the commit of request r.                                 *)
Commit(table, r) ==
  [id \in DOMAIN table |->
     IF id \in Dirty(r)
       THEN Flush(table[id], r.writes[id].old, r.writes[id].new)
       ELSE table[id]]

(* The other requests, once the rows ids have been written.                 *)
Outdate(r, ids) == [r EXCEPT !.stale = @ \cup (ids \cap Dirty(r))]
=============================================================================
