--------------------------- MODULE SnapshotStack ---------------------------
(***************************************************************************)
(* What a chainbase index promises its users, stated without its undo      *)
(* buffer: opening a session saves a whole copy of the index, undoing it   *)
(* puts that copy back, squashing a session into its parent forgets one    *)
(* copy and keeps the contents, committing forgets the oldest copies.      *)
(*                                                                         *)
(* UndoIndex, which keeps per-object differences instead of copies, is     *)
(* shown to implement this specification.                                  *)
(***************************************************************************)
EXTENDS Naturals, Sequences

CONSTANTS Id,       \* object ids
          Value,    \* object values
          Absent    \* marks an id no object has

VARIABLES objects,  \* the index: object id -> value, or Absent
          next_id,  \* the id the next created object gets
          snaps     \* one saved copy per open session, oldest first

vars == <<objects, next_id, snaps>>

Copy == [objects |-> objects, next_id |-> next_id]

Init ==
  /\ objects = [i \in Id |-> Absent]
  /\ next_id = 0
  /\ snaps = <<>>

(* An object is created, modified or removed: one id changes. *)
Change ==
  /\ \E i \in Id, v \in Value \cup {Absent} :
       /\ objects' = [objects EXCEPT ![i] = v]
       /\ next_id' = IF objects[i] = Absent THEN next_id + 1 ELSE next_id
       /\ objects[i] = Absent => i = next_id
  /\ UNCHANGED snaps

Open ==
  /\ snaps' = Append(snaps, Copy)
  /\ UNCHANGED <<objects, next_id>>

Undo ==
  /\ snaps # <<>>
  /\ objects' = snaps[Len(snaps)].objects
  /\ next_id' = snaps[Len(snaps)].next_id
  /\ snaps' = SubSeq(snaps, 1, Len(snaps) - 1)

Squash ==
  /\ snaps # <<>>
  /\ snaps' = SubSeq(snaps, 1, Len(snaps) - 1)
  /\ UNCHANGED <<objects, next_id>>

Commit ==
  /\ \E k \in 1..Len(snaps) : snaps' = SubSeq(snaps, k + 1, Len(snaps))
  /\ UNCHANGED <<objects, next_id>>

Next == Change \/ Open \/ Undo \/ Squash \/ Commit

Spec == Init /\ [][Next]_vars
=============================================================================
