----------------------------- MODULE UndoIndex -----------------------------
(***************************************************************************)
(* chainbase::generic_index: one table of the state database together with *)
(* its undo buffer (libraries/chainbase/include/chainbase/chainbase.hpp).  *)
(*                                                                         *)
(* Every block, every pending transaction and every operation is applied   *)
(* inside an undo session.  The index does not save copies of itself: each *)
(* undo_state on _stack records, per object, what the session did first    *)
(* (created, modified, removed) so that undo() can put it back, squash()   *)
(* can merge a session into its parent and commit() can drop the oldest.   *)
(*                                                                         *)
(* An object is a pair of a unique secondary key and other data.  snaps is *)
(* a history variable (no field of the class): the copies that             *)
(* SnapshotStack keeps, which the properties compare the undo buffer with. *)
(***************************************************************************)
EXTENDS Naturals, Sequences

CONSTANTS Key,           \* values of a unique secondary key
          Data,          \* the rest of an object's contents
          Absent,        \* marks an id no object has
          MaxId,         \* bound: how many ids are ever handed out
          MaxDepth,      \* bound: how many sessions are nested
          MaxRevision    \* bound: revisions of open sessions

Id == 0 .. MaxId - 1
Value == [key : Key, data : Data]

ASSUME MaxIdAssumption == MaxId \in Nat
ASSUME AbsentAssumption == Absent \notin Value

VARIABLES objects,       \* _indices: id -> value, or Absent
          next_id,       \* _next_id
          stack,         \* _stack: undo states, oldest first
          revision,      \* _revision
          unwinding,     \* undo_all() is in its loop
          snaps          \* history: the contents when each session opened

vars == <<objects, next_id, stack, revision, unwinding, snaps>>

Slots == [Id -> Value \cup {Absent}]

UndoState == [old_values : Slots, new_ids : SUBSET Id, removed_values : Slots,
              old_next_id : Nat, revision : Nat \ {0}]

Snapshot == [objects : Slots, next_id : Nat]

TypeOK ==
  /\ objects \in Slots
  /\ next_id \in 0..MaxId
  /\ stack \in Seq(UndoState)
  /\ revision \in Nat
  /\ unwinding \in BOOLEAN
  /\ snaps \in Seq(Snapshot)
  /\ Len(snaps) = Len(stack)

-----------------------------------------------------------------------------
(* Sequences used as stacks and queues. *)

Front(s) == SubSeq(s, 1, Len(s) - 1)
Top(s) == s[Len(s)]
Drop(s, k) == SubSeq(s, k + 1, Len(s))

(* enabled(): is any session recording? *)
enabled == stack # <<>>

(* The top undo state is replaced by u; with no session open the            *)
(* notification returns at once.                                            *)
Record(u) == stack' = IF enabled THEN [stack EXCEPT ![Len(stack)] = u] ELSE stack

(* The secondary index admits value v for object i. *)
Admits(objs, i, v) ==
  \A j \in Id \ {i} : objs[j] # Absent => objs[j].key # v.key

-----------------------------------------------------------------------------
(* What the notifications do to the top undo state. *)

on_create(u, i) == [u EXCEPT !.new_ids = @ \cup {i}]

on_modify(u, i) ==
  IF i \in u.new_ids \/ u.old_values[i] # Absent THEN u
  ELSE [u EXCEPT !.old_values[i] = objects[i]]

(* Mutant: an object created by this session is not taken out of new_ids.  *)
on_remove_keeps_new(u, i) ==
  IF i \in u.new_ids THEN u
  ELSE [u EXCEPT !.removed_values[i] = IF u.old_values[i] # Absent THEN u.old_values[i] ELSE objects[i],
                 !.old_values[i] = Absent]

(* Mutant: the value saved by an earlier modify() is not moved.            *)
on_remove_saves_current(u, i) ==
  IF i \in u.new_ids THEN [u EXCEPT !.new_ids = @ \ {i}]
  ELSE [u EXCEPT !.removed_values[i] = objects[i], !.old_values[i] = Absent]

on_remove(u, i) ==
  IF i \in u.new_ids THEN [u EXCEPT !.new_ids = @ \ {i}]
  ELSE IF u.old_values[i] # Absent
    THEN [u EXCEPT !.removed_values[i] = u.old_values[i], !.old_values[i] = Absent]
  ELSE IF u.removed_values[i] # Absent THEN u
  ELSE [u EXCEPT !.removed_values[i] = objects[i]]

(* undo(): old values are written back, then created objects are erased,    *)
(* then removed objects are put back.                                       *)
Restore(u, objs) ==
  [i \in Id |-> IF u.removed_values[i] # Absent THEN u.removed_values[i]
                ELSE IF i \in u.new_ids THEN Absent
                ELSE IF u.old_values[i] # Absent THEN u.old_values[i]
                ELSE objs[i]]

(* The calls undo() makes on the container are all well defined: it finds   *)
(* what it writes back or erases, and no call meets a unique key that is    *)
(* taken at that moment (old_values is walked in the order of ids while     *)
(* the objects created by the session are still there).                     *)
UndoDefined(u, objs) ==
  /\ \A i \in Id : u.old_values[i] # Absent =>
       /\ objs[i] # Absent
       /\ Admits([j \in Id |-> IF j < i /\ u.old_values[j] # Absent
                               THEN u.old_values[j] ELSE objs[j]],
                 i, u.old_values[i])
  /\ \A i \in u.new_ids : objs[i] # Absent
  /\ \A i \in Id : u.removed_values[i] # Absent =>
       /\ objs[i] = Absent \/ i \in u.new_ids
       /\ Admits(Restore(u, objs), i, u.removed_values[i])

(* squash(): the change set s of the last session is merged into its        *)
(* parent's, p, by the three loops over s.                                  *)
MergedOld(p, s) ==
  [i \in Id |-> IF s.old_values[i] # Absent /\ i \notin p.new_ids /\ p.old_values[i] = Absent
                THEN s.old_values[i] ELSE p.old_values[i]]

(* Mutant: upd(was=X) + del(was=Y) becomes del(was=Y).                     *)
MergeKeepsNewer(p, s) ==
  LET gone == {i \in Id : s.removed_values[i] # Absent}
      new == p.new_ids \cup s.new_ids
  IN [p EXCEPT
        !.old_values = [i \in Id |-> IF i \in gone THEN Absent ELSE MergedOld(p, s)[i]],
        !.new_ids = new \ gone,
        !.removed_values = [i \in Id |-> IF i \in gone \ new THEN s.removed_values[i]
                                         ELSE p.removed_values[i]]]

(* Mutant: the merged undo state takes over the newer revision number.     *)
MergeKeepsRevision(p, s) ==
  [s EXCEPT !.old_next_id = p.old_next_id, !.old_values = MergedOld(p, s),
            !.new_ids = @ \cup p.new_ids]

Merge(p, s) ==
  LET old == MergedOld(p, s)
      new == p.new_ids \cup s.new_ids
      gone == {i \in Id : s.removed_values[i] # Absent}
  IN [p EXCEPT
        !.old_values = [i \in Id |-> IF i \in gone \ new THEN Absent ELSE old[i]],
        !.new_ids = new \ gone,
        !.removed_values =
           [i \in Id |-> IF i \notin gone \/ i \in new THEN p.removed_values[i]
                         ELSE IF old[i] # Absent THEN old[i]
                         ELSE s.removed_values[i]]]

(* The two assert()s inside squash(). *)
MergeAsserts(p, s) ==
  /\ \A i \in Id : /\ s.old_values[i] # Absent
                   /\ i \notin p.new_ids
                   /\ p.old_values[i] = Absent
                   => p.removed_values[i] = Absent
  /\ \A i \in Id : /\ s.removed_values[i] # Absent
                   /\ i \notin p.new_ids \cup s.new_ids
                   /\ MergedOld(p, s)[i] = Absent
                   => p.removed_values[i] = Absent

-----------------------------------------------------------------------------
(* Operations. *)

Init ==
  /\ objects = [i \in Id |-> Absent]
  /\ next_id = 0
  /\ stack = <<>>
  /\ revision = 0
  /\ unwinding = FALSE
  /\ snaps = <<>>

(* emplace(): a taken key throws before anything changes. *)
emplace(v) ==
  /\ ~unwinding
  /\ next_id < MaxId
  /\ Admits(objects, next_id, v)
  /\ objects' = [objects EXCEPT ![next_id] = v]
  /\ next_id' = next_id + 1
  /\ Record(on_create(Top(stack), next_id))
  /\ UNCHANGED <<revision, unwinding, snaps>>

(* modify() by a modifier that leaves the unique key alone, as the          *)
(* modifiers of the chain library do.  (A session that moved an object off  *)
(* its key and then created another with that key could not be undone:      *)
(* the write-back meets the new object.)                                    *)
modify(i, d) ==
  /\ ~unwinding
  /\ objects[i] # Absent
  /\ objects' = [objects EXCEPT ![i].data = d]
  /\ Record(on_modify(Top(stack), i))
  /\ UNCHANGED <<next_id, revision, unwinding, snaps>>

remove(i) ==
  /\ ~unwinding
  /\ objects[i] # Absent
  /\ objects' = [objects EXCEPT ![i] = Absent]
  /\ Record(on_remove(Top(stack), i))
  /\ UNCHANGED <<next_id, revision, unwinding, snaps>>

start_undo_session ==
  /\ ~unwinding
  /\ Len(stack) < MaxDepth
  /\ revision < MaxRevision
  /\ stack' = Append(stack, [old_values |-> [i \in Id |-> Absent],
                             new_ids |-> {},
                             removed_values |-> [i \in Id |-> Absent],
                             old_next_id |-> next_id,
                             revision |-> revision + 1])
  /\ revision' = revision + 1
  /\ snaps' = Append(snaps, [objects |-> objects, next_id |-> next_id])
  /\ UNCHANGED <<objects, next_id, unwinding>>

(* undo(); with an empty stack it returns and changes nothing.  undo_all()  *)
(* repeats it until the stack is empty.  UndoAlwaysDefined says that the    *)
(* second conjunct is never what keeps it from happening.                   *)
(* Mutant: _revision is decremented once more by the session object.       *)
undo_twice ==
  /\ enabled
  /\ objects' = Restore(Top(stack), objects)
  /\ next_id' = Top(stack).old_next_id
  /\ stack' = Front(stack)
  /\ revision' = revision - 2
  /\ unwinding' = (unwinding /\ Len(stack) > 1)
  /\ snaps' = Front(snaps)

undo ==
  /\ enabled
  /\ UndoDefined(Top(stack), objects)
  /\ objects' = Restore(Top(stack), objects)
  /\ next_id' = Top(stack).old_next_id
  /\ stack' = Front(stack)
  /\ revision' = revision - 1
  /\ unwinding' = (unwinding /\ Len(stack) > 1)
  /\ snaps' = Front(snaps)

undo_all ==
  /\ ~unwinding
  /\ enabled
  /\ unwinding' = TRUE
  /\ UNCHANGED <<objects, next_id, stack, revision, snaps>>

(* squash() of the only session forgets it and returns early, which leaves  *)
(* _revision where it was.                                                  *)
squash ==
  /\ ~unwinding
  /\ enabled
  /\ IF Len(stack) = 1
       THEN stack' = <<>> /\ revision' = revision
       ELSE /\ stack' = [Front(stack) EXCEPT ![Len(stack) - 1] =
                                              Merge(stack[Len(stack) - 1], Top(stack))]
            /\ revision' = revision - 1
  /\ snaps' = Front(snaps)
  /\ UNCHANGED <<objects, next_id, unwinding>>

(* commit(r): undo states leave at the front while their revision is <= r.  *)
commit(r) ==
  /\ ~unwinding
  /\ \E k \in 1..Len(stack) :
       /\ \A i \in 1..k : stack[i].revision <= r
       /\ k < Len(stack) => stack[k + 1].revision > r
       /\ stack' = Drop(stack, k)
       /\ snaps' = Drop(snaps, k)
  /\ UNCHANGED <<objects, next_id, revision, unwinding>>

set_revision(r) ==
  /\ ~unwinding
  /\ ~enabled
  /\ revision' = r
  /\ UNCHANGED <<objects, next_id, stack, unwinding, snaps>>

Next ==
  \/ \E v \in Value : emplace(v)
  \/ \E i \in Id, d \in Data : modify(i, d)
  \/ \E i \in Id : remove(i)
  \/ start_undo_session
  \/ undo
  \/ undo_all
  \/ squash
  \/ \E r \in 1..MaxRevision : commit(r)
  \/ \E r \in 0..MaxRevision : set_revision(r)

Spec == Init /\ [][Next]_vars

-----------------------------------------------------------------------------
(* Properties. *)

(* The contents that undo state i was recorded against: what was in the      *)
(* index when the session above it opened, or what is there now.             *)
After(i) == IF i = Len(stack) THEN objects ELSE snaps[i + 1].objects

(* undo() can always run: each object it writes back or erases is there and  *)
(* no write meets a taken unique key, whatever was created, modified,        *)
(* removed, squashed or committed before (chainbase.hpp:323, the calls that  *)
(* would otherwise be undefined or throw out of a session destructor).       *)
UndoAlwaysDefined == enabled => UndoDefined(Top(stack), objects)

(* "Restores the state to how it was prior to the current session"           *)
(* (chainbase.hpp:319): at every depth, undoing the sessions one after the   *)
(* other gives back exactly the contents and the next id of the moment the   *)
(* session was opened, although sessions in between were squashed.           *)
UndoRestores ==
  \A i \in 1..Len(stack) :
     /\ Restore(stack[i], After(i)) = snaps[i].objects
     /\ stack[i].old_next_id = snaps[i].next_id

(* The revisions of the open sessions are consecutive and end at _revision,  *)
(* which is what lets the chain commit "up to block n" by number after any   *)
(* mixture of undo, squash and commit (chainbase.hpp:461, 533).              *)
RevisionsConsecutive ==
  \A i \in 1..Len(stack) : stack[i].revision + Len(stack) = revision + i

(* The difference-based undo buffer behaves as a stack of whole copies.      *)
Snapshots == INSTANCE SnapshotStack WITH
               Id <- Id, Value <- Value, Absent <- Absent,
               objects <- objects, next_id <- next_id, snaps <- snaps
ImplementsSnapshots == Snapshots!Spec
=============================================================================
