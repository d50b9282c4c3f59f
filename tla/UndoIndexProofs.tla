-------------------------- MODULE UndoIndexProofs --------------------------
(***************************************************************************)
(* The undo buffer of a chainbase index is correct for every number of     *)
(* objects, keys, nested sessions and revisions.                           *)
(*                                                                         *)
(* UndoRestores is not inductive: squash() is only right because ids are   *)
(* never reused while a session that saw them is open, and undo() because  *)
(* no two objects share a key in any of the saved states.  IInv adds these *)
(* facts and says, id by id, how an undo state relates the contents before *)
(* the session to the contents after it (Describes).                       *)
(***************************************************************************)
EXTENDS UndoIndex, TLAPS

(* Every id in use has been handed out. *)
Issued(s) == \A i \in Id : s.objects[i] # Absent => i < s.next_id

(* No two objects share the unique key. *)
UniqueKeys(s) ==
  \A i, j \in Id : /\ i # j
                   /\ s.objects[i] # Absent
                   /\ s.objects[j] # Absent
                   => s.objects[i].key # s.objects[j].key

Sound(s) == Issued(s) /\ UniqueKeys(s)

(* What undo state u says of id i if the session found value x there and    *)
(* left value y.                                                            *)
DescribesId(u, i, x, y) ==
  /\ i \in u.new_ids <=> (x = Absent /\ y # Absent)
  /\ u.removed_values[i] = (IF y = Absent THEN x ELSE Absent)
  /\ u.old_values[i] = Absent \/ (u.old_values[i] = x /\ y # Absent)
  /\ x # Absent /\ y # Absent /\ x # y => u.old_values[i] = x
  /\ x # Absent /\ y # Absent => x.key = y.key
  /\ x = Absent /\ y # Absent => i >= u.old_next_id

(* u is a correct record of a session that found b and left a. *)
Describes(u, b, a) ==
  /\ u.old_next_id = b.next_id
  /\ b.next_id <= a.next_id
  /\ \A i \in Id : DescribesId(u, i, b.objects[i], a.objects[i])

Current == [objects |-> objects, next_id |-> next_id]

(* The contents when session n opened; above the last one, the current. *)
SnapAt(n) == IF n <= Len(snaps) THEN snaps[n] ELSE Current

IInv ==
  /\ TypeOK
  /\ RevisionsConsecutive
  /\ \A n \in 1..(Len(stack) + 1) : Sound(SnapAt(n))
  /\ \A n \in 1..Len(stack) : Describes(stack[n], SnapAt(n), SnapAt(n + 1))

-----------------------------------------------------------------------------
(* Facts about a single undo state. *)

(* Undoing a correctly described session gives back what it found: the      *)
(* three loops of undo() together are the inverse of the session.           *)
LEMMA RestoreDescribed ==
  ASSUME NEW u \in UndoState, NEW b \in Snapshot, NEW a \in Snapshot, Describes(u, b, a)
  PROVE  Restore(u, a.objects) = b.objects
<1>1. b.objects \in Slots /\ a.objects \in Slots
  BY DEF Snapshot
<1>2. ASSUME NEW i \in Id
      PROVE  Restore(u, a.objects)[i] = b.objects[i]
  <2>1. DescribesId(u, i, b.objects[i], a.objects[i])
    BY DEF Describes
  <2>2. QED
    BY <2>1 DEF DescribesId, Restore
<1>3. QED
  BY <1>1, <1>2 DEF Restore, Slots

(* Undoing a correctly described session never meets a missing object or a  *)
(* taken key: keys do not change, so each old value fits where it was.      *)
LEMMA DescribedUndoDefined ==
  ASSUME NEW u \in UndoState, NEW b \in Snapshot, NEW a \in Snapshot,
         Describes(u, b, a), Sound(b), Sound(a)
  PROVE  UndoDefined(u, a.objects)
<1>1. ASSUME NEW i \in Id
      PROVE  DescribesId(u, i, b.objects[i], a.objects[i])
  BY DEF Describes
<1>2. ASSUME NEW i \in Id, u.old_values[i] # Absent
      PROVE  /\ a.objects[i] # Absent
             /\ Admits([j \in Id |-> IF j < i /\ u.old_values[j] # Absent
                                     THEN u.old_values[j] ELSE a.objects[j]],
                       i, u.old_values[i])
  <2>1. a.objects[i] # Absent /\ u.old_values[i].key = a.objects[i].key
    BY <1>1, <1>2 DEF DescribesId
  <2>2. ASSUME NEW j \in Id, u.old_values[j] # Absent
        PROVE  a.objects[j] # Absent /\ u.old_values[j].key = a.objects[j].key
    BY <1>1, <2>2 DEF DescribesId
  <2>3. QED
    BY <2>1, <2>2 DEF Admits, Sound, UniqueKeys
<1>3. \A i \in u.new_ids : a.objects[i] # Absent
  BY <1>1 DEF DescribesId, UndoState
<1>4. ASSUME NEW i \in Id, u.removed_values[i] # Absent
      PROVE  /\ a.objects[i] = Absent
             /\ Admits(Restore(u, a.objects), i, u.removed_values[i])
  <2>1. a.objects[i] = Absent /\ u.removed_values[i] = b.objects[i]
    BY <1>1, <1>4 DEF DescribesId
  <2>2. Restore(u, a.objects) = b.objects
    BY RestoreDescribed
  <2>3. QED
    BY <1>4, <2>1, <2>2 DEF Admits, Sound, UniqueKeys
<1>5. QED
  BY <1>2, <1>3, <1>4 DEF UndoDefined

(* The undo state that squash() builds has the type of an undo state. *)
LEMMA MergeType ==
  ASSUME NEW p \in UndoState, NEW s \in UndoState
  PROVE  Merge(p, s) \in UndoState
<1>1. MergedOld(p, s) \in Slots
  BY DEF MergedOld, UndoState, Slots
<1>2. QED
  BY <1>1 DEF Merge, UndoState, Slots

(* Merging the record of m -> a into the record of b -> m describes b -> a. *)
LEMMA MergeDescribes ==
  ASSUME NEW p \in UndoState, NEW s \in UndoState,
         NEW b \in Snapshot, NEW m \in Snapshot, NEW a \in Snapshot,
         Describes(p, b, m), Describes(s, m, a), Sound(b)
  PROVE  Describes(Merge(p, s), b, a)
<1> DEFINE q == Merge(p, s)
<1>1. q.old_next_id = p.old_next_id
  BY DEF Merge, UndoState
<1>2. q.old_next_id = b.next_id /\ b.next_id <= a.next_id
  BY <1>1 DEF Describes, Snapshot
<1>3. ASSUME NEW i \in Id
      PROVE  DescribesId(q, i, b.objects[i], a.objects[i])
  <2> DEFINE x == b.objects[i]
             y == m.objects[i]
             z == a.objects[i]
  <2>1. DescribesId(p, i, x, y) /\ DescribesId(s, i, y, z)
    BY DEF Describes
  <2>2. x # Absent => i < m.next_id
    BY DEF Sound, Issued, Describes, Snapshot, Id
  <2>3. ~(x # Absent /\ y = Absent /\ z # Absent)
    BY <2>1, <2>2 DEF DescribesId, Describes, Snapshot, Id
  <2>4. /\ q.old_values[i] = IF s.removed_values[i] # Absent /\ i \notin p.new_ids \cup s.new_ids
                             THEN Absent ELSE MergedOld(p, s)[i]
        /\ i \in q.new_ids <=> (i \in p.new_ids \cup s.new_ids /\ s.removed_values[i] = Absent)
        /\ q.removed_values[i] =
             IF s.removed_values[i] = Absent \/ i \in p.new_ids \cup s.new_ids
             THEN p.removed_values[i]
             ELSE IF MergedOld(p, s)[i] # Absent THEN MergedOld(p, s)[i]
             ELSE s.removed_values[i]
    BY DEF Merge, UndoState
  <2>5. MergedOld(p, s)[i] = IF s.old_values[i] # Absent /\ i \notin p.new_ids /\ p.old_values[i] = Absent
                             THEN s.old_values[i] ELSE p.old_values[i]
    BY DEF MergedOld
  <2>6. x = Absent /\ z # Absent => i >= b.next_id
    BY <2>1 DEF DescribesId, Describes, Snapshot, Id
  <2> HIDE DEF q
  <2>7. QED
    BY <2>1, <2>3, <2>4, <2>5, <2>6, <1>2 DEF DescribesId
<1>4. QED
  BY <1>2, <1>3 DEF Describes

(* The assert()s of squash() hold for two adjacent correct records. *)
LEMMA MergeAssertsDescribed ==
  ASSUME NEW p \in UndoState, NEW s \in UndoState,
         NEW b \in Snapshot, NEW m \in Snapshot, NEW a \in Snapshot,
         Describes(p, b, m), Describes(s, m, a)
  PROVE  MergeAsserts(p, s)
<1>1. ASSUME NEW i \in Id
      PROVE  /\ DescribesId(p, i, b.objects[i], m.objects[i])
             /\ DescribesId(s, i, m.objects[i], a.objects[i])
  BY DEF Describes
<1>2. QED
  BY <1>1 DEF MergeAsserts, MergedOld, DescribesId

-----------------------------------------------------------------------------
(* Operations inside a session. *)

(* The shape shared by emplace, modify and remove: the contents change and   *)
(* the top undo state becomes u, which describes the change.                 *)
LEMMA TopChange ==
  ASSUME IInv, NEW u,
         objects' \in Slots, next_id' \in 0..MaxId, Sound(Current'),
         Record(u),
         enabled => /\ u \in UndoState
                    /\ u.revision = Top(stack).revision
                    /\ Describes(u, Top(snaps), Current'),
         UNCHANGED <<revision, unwinding, snaps>>
  PROVE  IInv'
<1> USE DEF Top
<1>0. PICK n \in Nat : n = Len(stack)
  BY DEF IInv, TypeOK
<1>1. /\ n \in Nat /\ Len(stack) = n /\ Len(snaps) = n
      /\ stack \in Seq(UndoState) /\ snaps \in Seq(Snapshot)
  BY <1>0 DEF IInv, TypeOK
<1>2. n = 0 <=> ~enabled
  BY <1>1 DEF enabled
<1>3. /\ stack' \in Seq(UndoState)
      /\ Len(stack') = n
      /\ \A k \in 1..n : stack'[k] = IF k = n THEN u ELSE stack[k]
  BY <1>1, <1>2 DEF Record
<1>4. TypeOK'
  BY <1>1, <1>3 DEF IInv, TypeOK
<1>5. RevisionsConsecutive'
  BY <1>1, <1>2, <1>3 DEF IInv, RevisionsConsecutive
<1>6. \A k \in 1..n : SnapAt(k)' = SnapAt(k) /\ SnapAt(k) = snaps[k]
  BY <1>1 DEF SnapAt
<1>7. SnapAt(n + 1)' = Current'
  BY <1>1, <1>3 DEF SnapAt
<1>8. \A k \in 1..(n + 1) : Sound(SnapAt(k)')
  <2>1. ASSUME NEW k \in 1..(n + 1)
        PROVE  Sound(SnapAt(k)')
    <3>1. CASE k = n + 1
      BY <3>1, <1>7
    <3>2. CASE k \in 1..n
      BY <3>2, <1>6, <1>1 DEF IInv
    <3>3. QED
      BY <3>1, <3>2, <1>1
  <2>2. QED
    BY <2>1
<1>9. ASSUME NEW k \in 1..n
      PROVE  Describes(stack'[k], SnapAt(k)', SnapAt(k + 1)')
  <2>1. CASE k = n
    BY <2>1, <1>1, <1>2, <1>3, <1>6, <1>7
  <2>2. CASE k # n
    <3>1. k + 1 \in 1..n
      BY <2>2, <1>1
    <3>2. stack'[k] = stack[k] /\ SnapAt(k)' = SnapAt(k) /\ SnapAt(k + 1)' = SnapAt(k + 1)
      BY <3>1, <2>2, <1>3, <1>6
    <3>3. QED
      BY <3>2, <1>1 DEF IInv
  <2>3. QED
    BY <2>1, <2>2
<1>10. QED
  BY <1>1, <1>3, <1>4, <1>5, <1>8, <1>9 DEF IInv

(* What IInv says of the session on top, in the words the steps below use. *)
LEMMA TopFacts ==
  ASSUME IInv
  PROVE  /\ Sound(Current)
         /\ Current \in Snapshot
         /\ enabled => /\ Top(stack) \in UndoState
                       /\ Top(snaps) \in Snapshot
                       /\ Sound(Top(snaps))
                       /\ Describes(Top(stack), Top(snaps), Current)
<1> DEFINE n == Len(stack)
<1>1. n \in Nat /\ Len(snaps) = n /\ stack \in Seq(UndoState) /\ snaps \in Seq(Snapshot)
  BY DEF IInv, TypeOK
<1>2. SnapAt(n + 1) = Current
  BY <1>1 DEF SnapAt
<1>3. Sound(Current)
  BY <1>1, <1>2 DEF IInv
<1>4. Current \in Snapshot
  BY MaxIdAssumption DEF IInv, TypeOK, Current, Snapshot
<1>5. ASSUME enabled
      PROVE  /\ Top(stack) \in UndoState
             /\ Top(snaps) \in Snapshot
             /\ Sound(Top(snaps))
             /\ Describes(Top(stack), Top(snaps), Current)
  <2>1. n \in 1..n
    BY <1>1, <1>5 DEF enabled
  <2>2. SnapAt(n) = snaps[n]
    BY <2>1, <1>1 DEF SnapAt
  <2>3. Describes(stack[n], SnapAt(n), SnapAt(n + 1)) /\ Sound(SnapAt(n))
    BY <2>1, <1>1 DEF IInv
  <2>4. QED
    BY <2>1, <2>2, <2>3, <1>1, <1>2 DEF Top
<1>6. QED
  BY <1>3, <1>4, <1>5

(* emplace(): the id is new to every saved state because it was not issued. *)
LEMMA EmplaceStep ==
  ASSUME IInv, NEW v \in Value, emplace(v)
  PROVE  IInv'
<1> DEFINE u == on_create(Top(stack), next_id)
<1>1. /\ objects \in Slots /\ next_id \in Id /\ MaxId \in Nat
      /\ objects' = [objects EXCEPT ![next_id] = v] /\ next_id' = next_id + 1
  BY MaxIdAssumption DEF IInv, TypeOK, emplace, Id
<1>2. v # Absent
  BY AbsentAssumption
<1>3. objects[next_id] = Absent
  BY <1>1, TopFacts DEF Sound, Issued, Current, Id
<1>4. objects' \in Slots /\ next_id' \in 0..MaxId
  BY <1>1 DEF Slots, Id
<1>5. \A i \in Id : objects'[i] = IF i = next_id THEN v ELSE objects[i]
  BY <1>1 DEF Slots
<1>6. Sound(Current')
  <2>1. Issued(Current')
    BY <1>1, <1>5, TopFacts DEF Sound, Issued, Current, Id
  <2>2. UniqueKeys(Current')
    BY <1>1, <1>5, TopFacts DEF Sound, UniqueKeys, Current, emplace, Admits
  <2>3. QED
    BY <2>1, <2>2 DEF Sound
<1>7. ASSUME enabled
      PROVE  /\ u \in UndoState
             /\ u.revision = Top(stack).revision
             /\ Describes(u, Top(snaps), Current')
  <2> DEFINE w == Top(stack)
             b == Top(snaps)
  <2>1. w \in UndoState /\ b \in Snapshot /\ Describes(w, b, Current) /\ Sound(b)
    BY <1>7, TopFacts
  <2>2. /\ u \in UndoState /\ u.revision = w.revision
        /\ u.old_next_id = w.old_next_id /\ u.old_values = w.old_values
        /\ u.removed_values = w.removed_values /\ u.new_ids = w.new_ids \cup {next_id}
    BY <2>1, <1>1 DEF on_create, UndoState
  <2>3. b.next_id <= next_id /\ b.next_id \in Nat /\ w.old_next_id = b.next_id
    BY <2>1 DEF Describes, Current, Snapshot
  <2> HIDE DEF u, w, b
  <2>6. b.objects[next_id] = Absent
    BY <2>1, <2>3, <1>1 DEF Sound, Issued, Id
  <2>4. ASSUME NEW i \in Id
        PROVE  DescribesId(u, i, b.objects[i], objects'[i])
    <3>1. DescribesId(w, i, b.objects[i], objects[i])
      BY <2>1 DEF Describes, Current
    <3>2. CASE i = next_id
      BY <3>1, <3>2, <2>2, <2>3, <2>6, <1>1, <1>2, <1>3, <1>5 DEF DescribesId, Id
    <3>3. CASE i # next_id
      BY <3>1, <3>3, <2>2, <1>5 DEF DescribesId
    <3>4. QED
      BY <3>2, <3>3
  <2>5. QED
    BY <2>2, <2>3, <2>4, <1>1 DEF Describes, Current, Id, w, b
<1>8. QED
  BY <1>4, <1>6, <1>7, TopChange DEF emplace

(* modify(): the unique key stays, so the contents stay sound. *)
LEMMA ModifyStep ==
  ASSUME IInv, NEW i \in Id, NEW d \in Data, modify(i, d)
  PROVE  IInv'
<1> DEFINE u == on_modify(Top(stack), i)
           v == objects'[i]
<1>1. /\ objects \in Slots /\ next_id' = next_id /\ next_id \in 0..MaxId
      /\ objects[i] # Absent
      /\ objects' = [objects EXCEPT ![i].data = d]
  BY DEF IInv, TypeOK, modify
<1>2. objects[i] \in Value
  BY <1>1 DEF Slots
<1>3. v \in Value /\ v.key = objects[i].key /\ v # Absent
  BY <1>1, <1>2, AbsentAssumption DEF Value, Slots
<1>4. \A j \in Id : objects'[j] = IF j = i THEN v ELSE objects[j]
  BY <1>1 DEF Slots
<1>5. objects' \in Slots
  BY <1>1, <1>3, <1>4 DEF Slots
<1> HIDE DEF v
<1>6. Sound(Current')
  BY <1>1, <1>3, <1>4, TopFacts DEF Sound, Issued, UniqueKeys, Current
<1>7. ASSUME enabled
      PROVE  /\ u \in UndoState
             /\ u.revision = Top(stack).revision
             /\ Describes(u, Top(snaps), Current')
  <2> DEFINE w == Top(stack)
             b == Top(snaps)
  <2>1. w \in UndoState /\ b \in Snapshot /\ Describes(w, b, Current)
    BY <1>7, TopFacts
  <2>2. /\ u \in UndoState /\ u.revision = w.revision
        /\ u.old_next_id = w.old_next_id /\ u.new_ids = w.new_ids
        /\ u.removed_values = w.removed_values
        /\ \A j \in Id : u.old_values[j] =
             IF j = i /\ i \notin w.new_ids /\ w.old_values[i] = Absent
             THEN objects[i] ELSE w.old_values[j]
    BY <2>1, <1>2 DEF on_modify, UndoState, Slots
  <2> HIDE DEF u, w, b
  <2>3. ASSUME NEW j \in Id
        PROVE  DescribesId(u, j, b.objects[j], objects'[j])
    <3>1. DescribesId(w, j, b.objects[j], objects[j])
      BY <2>1 DEF Describes, Current
    <3>2. QED
      BY <3>1, <2>2, <1>1, <1>3, <1>4 DEF DescribesId
  <2>4. QED
    BY <2>1, <2>2, <2>3, <1>1 DEF Describes, Current, w, b
<1>8. QED
  BY <1>1, <1>5, <1>6, <1>7, TopChange DEF modify

(* remove(): what the session found of the object is kept for undo(). *)
LEMMA RemoveStep ==
  ASSUME IInv, NEW i \in Id, remove(i)
  PROVE  IInv'
<1> DEFINE u == on_remove(Top(stack), i)
<1>1. /\ objects \in Slots /\ next_id' = next_id /\ next_id \in 0..MaxId
      /\ objects[i] # Absent
      /\ objects' = [objects EXCEPT ![i] = Absent]
  BY DEF IInv, TypeOK, remove
<1>2. \A j \in Id : objects'[j] = IF j = i THEN Absent ELSE objects[j]
  BY <1>1 DEF Slots
<1>3. objects' \in Slots
  BY <1>1 DEF Slots
<1>4. Sound(Current')
  BY <1>1, <1>2, TopFacts DEF Sound, Issued, UniqueKeys, Current
<1>5. ASSUME enabled
      PROVE  /\ u \in UndoState
             /\ u.revision = Top(stack).revision
             /\ Describes(u, Top(snaps), Current')
  <2> DEFINE w == Top(stack)
             b == Top(snaps)
  <2>1. w \in UndoState /\ b \in Snapshot /\ Describes(w, b, Current)
    BY <1>5, TopFacts
  <2>2. /\ u \in UndoState /\ u.revision = w.revision
        /\ u.old_next_id = w.old_next_id
        /\ \A j \in Id :
             /\ j \in u.new_ids <=> j \in w.new_ids /\ j # i
             /\ u.old_values[j] =
                  IF j = i /\ i \notin w.new_ids THEN Absent ELSE w.old_values[j]
             /\ u.removed_values[j] =
                  IF j # i \/ i \in w.new_ids THEN w.removed_values[j]
                  ELSE IF w.old_values[i] # Absent THEN w.old_values[i]
                  ELSE IF w.removed_values[i] # Absent THEN w.removed_values[i]
                  ELSE objects[i]
    <3>1. CASE i \in w.new_ids
      BY <3>1, <2>1 DEF on_remove, UndoState, Slots
    <3>2. CASE i \notin w.new_ids /\ w.old_values[i] # Absent
      BY <3>2, <2>1 DEF on_remove, UndoState, Slots
    <3>3. CASE i \notin w.new_ids /\ w.old_values[i] = Absent
      BY <3>3, <2>1, <1>1 DEF on_remove, UndoState, Slots
    <3>4. QED
      BY <3>1, <3>2, <3>3
  <2> HIDE DEF u, w, b
  <2>3. ASSUME NEW j \in Id
        PROVE  DescribesId(u, j, b.objects[j], objects'[j])
    <3>1. DescribesId(w, j, b.objects[j], objects[j])
      BY <2>1 DEF Describes, Current
    <3>2. QED
      BY <3>1, <2>2, <1>1, <1>2 DEF DescribesId
  <2>4. QED
    BY <2>1, <2>2, <2>3, <1>1 DEF Describes, Current, w, b
<1>6. QED
  BY <1>1, <1>3, <1>4, <1>5, TopChange DEF remove

-----------------------------------------------------------------------------
(* Operations on sessions. *)

(* A step that leaves m + 1 sound states and m records between them, however *)
(* it got there, re-establishes the invariant.                               *)
LEMMA Rebuild ==
  ASSUME TypeOK', RevisionsConsecutive', NEW m \in Nat, m = Len(stack'),
         \A k \in 1..(m + 1) : Sound(SnapAt(k)'),
         \A k \in 1..m : Describes(stack'[k], SnapAt(k)', SnapAt(k + 1)')
  PROVE  IInv'
BY DEF IInv

(* The revision of open session k, as a number. *)
LEMMA RevisionFacts ==
  ASSUME IInv, NEW k \in 1..Len(stack)
  PROVE  /\ stack[k].revision \in Nat \ {0}
         /\ stack[k].revision + Len(stack) = revision + k
<1>1. stack[k] \in UndoState
  BY DEF IInv, TypeOK
<1>2. stack[k].revision \in Nat \ {0}
  BY <1>1 DEF UndoState
<1>3. QED
  BY <1>2 DEF IInv, RevisionsConsecutive

(* start_undo_session(): the new record is empty and describes no change. *)
LEMMA StartStep ==
  ASSUME IInv, start_undo_session
  PROVE  IInv'
<1> DEFINE e == [old_values |-> [i \in Id |-> Absent], new_ids |-> {},
                 removed_values |-> [i \in Id |-> Absent],
                 old_next_id |-> next_id, revision |-> revision + 1]
<1>0. PICK n \in Nat : n = Len(stack)
  BY DEF IInv, TypeOK
<1>1. /\ Len(stack) = n /\ Len(snaps) = n
      /\ stack \in Seq(UndoState) /\ snaps \in Seq(Snapshot)
      /\ revision \in Nat /\ next_id \in Nat
  BY <1>0, MaxIdAssumption DEF IInv, TypeOK
<1>2. e \in UndoState
  BY <1>1 DEF UndoState, Slots
<1>3. /\ Current' = Current /\ Current \in Snapshot
      /\ stack' = Append(stack, e) /\ snaps' = Append(snaps, Current)
      /\ revision' = revision + 1
  BY TopFacts DEF start_undo_session, Current
<1>4. e.old_next_id = next_id /\ e.revision = revision + 1 /\ e.new_ids = {}
      /\ \A i \in Id : e.old_values[i] = Absent /\ e.removed_values[i] = Absent
  OBVIOUS
<1> HIDE DEF e
<1>5. /\ stack' \in Seq(UndoState) /\ Len(stack') = n + 1
      /\ snaps' \in Seq(Snapshot) /\ Len(snaps') = n + 1
      /\ stack'[n + 1] = e /\ snaps'[n + 1] = Current
      /\ \A k \in 1..n : stack'[k] = stack[k] /\ snaps'[k] = snaps[k]
  BY <1>1, <1>2, <1>3
<1>6. TypeOK'
  BY <1>1, <1>3, <1>5 DEF IInv, TypeOK, start_undo_session
<1>7. RevisionsConsecutive'
  <2>1. ASSUME NEW k \in 1..(n + 1)
        PROVE  stack'[k].revision + (n + 1) = (revision + 1) + k
    <3>1. CASE k = n + 1
      BY <3>1, <1>1, <1>4, <1>5
    <3>2. CASE k \in 1..n
      <4>1. stack[k].revision \in Nat /\ stack[k].revision + n = revision + k
        BY <3>2, <1>1, RevisionFacts
      <4>2. stack'[k].revision = stack[k].revision
        BY <3>2, <1>5
      <4>3. QED
        BY <4>1, <4>2, <1>1
    <3>3. QED
      BY <3>1, <3>2
  <2>2. QED
    BY <2>1, <1>3, <1>5 DEF RevisionsConsecutive
<1>8. \A k \in 1..(n + 1) : SnapAt(k)' = SnapAt(k)
  BY <1>1, <1>5 DEF SnapAt
<1>9. SnapAt(n + 2)' = Current /\ SnapAt(n + 1) = Current
  BY <1>1, <1>3, <1>5 DEF SnapAt
<1>10. \A k \in 1..(n + 2) : Sound(SnapAt(k)')
  <2>1. ASSUME NEW k \in 1..(n + 2)
        PROVE  Sound(SnapAt(k)')
    <3>1. CASE k = n + 2
      BY <3>1, <1>9, TopFacts
    <3>2. CASE k \in 1..(n + 1)
      BY <3>2, <1>8, <1>1 DEF IInv
    <3>3. QED
      BY <3>1, <3>2
  <2>2. QED
    BY <2>1
<1>11. ASSUME NEW k \in 1..(n + 1)
       PROVE  Describes(stack'[k], SnapAt(k)', SnapAt(k + 1)')
  <2>1. CASE k = n + 1
    <3>1. Describes(e, Current, Current)
      BY <1>1, <1>4 DEF Describes, DescribesId, Current
    <3>2. QED
      BY <2>1, <3>1, <1>5, <1>8, <1>9
  <2>2. CASE k \in 1..n
    <3>1. k + 1 \in 1..(n + 1)
      BY <2>2
    <3>2. QED
      BY <2>2, <3>1, <1>1, <1>5, <1>8 DEF IInv
  <2>3. QED
    BY <2>1, <2>2
<1>12. QED
  BY <1>5, <1>6, <1>7, <1>10, <1>11, Rebuild

(* undo(): the contents become those saved by the session. *)
LEMMA UndoGivesSnapshot ==
  ASSUME IInv, undo
  PROVE  Current' = Top(snaps) /\ Top(snaps) \in Snapshot
<1>1. /\ Top(stack) \in UndoState /\ Top(snaps) \in Snapshot
      /\ Describes(Top(stack), Top(snaps), Current) /\ Current \in Snapshot
  BY TopFacts DEF undo
<1>2. Restore(Top(stack), objects) = Top(snaps).objects
  BY <1>1, RestoreDescribed DEF Current
<1>3. objects' = Top(snaps).objects /\ next_id' = Top(snaps).next_id
  BY <1>1, <1>2 DEF undo, Describes
<1>4. QED
  BY <1>1, <1>3 DEF Current, Snapshot

(* undo() puts the saved contents back, and keeps the invariant. *)
LEMMA UndoStep ==
  ASSUME IInv, undo
  PROVE  IInv'
<1>0. PICK n \in Nat : n = Len(stack)
  BY DEF IInv, TypeOK
<1>1. /\ Len(stack) = n /\ Len(snaps) = n /\ n > 0
      /\ stack \in Seq(UndoState) /\ snaps \in Seq(Snapshot)
      /\ revision \in Nat /\ unwinding \in BOOLEAN
  BY <1>0 DEF IInv, TypeOK, undo, enabled
<1>2. Current' = snaps[n] /\ snaps[n] \in Snapshot
  BY <1>1, UndoGivesSnapshot DEF Top
<1>3. /\ stack' \in Seq(UndoState) /\ Len(stack') = n - 1
      /\ snaps' \in Seq(Snapshot) /\ Len(snaps') = n - 1
      /\ \A k \in 1..(n - 1) : stack'[k] = stack[k] /\ snaps'[k] = snaps[k]
  BY <1>1 DEF undo, Front
<1>4. revision' = revision - 1 /\ revision >= n
  <2>1. stack[1].revision \in Nat \ {0} /\ stack[1].revision + n = revision + 1
    BY <1>1, RevisionFacts
  <2>2. QED
    BY <2>1, <1>1 DEF undo
<1>5. TypeOK'
  <2>1. snaps[n].objects \in Slots /\ objects' = snaps[n].objects /\ next_id' = snaps[n].next_id
    BY <1>2 DEF Current, Snapshot
  <2>2. next_id' \in 0..MaxId
    <3>1. Describes(stack[n], snaps[n], Current)
      BY <1>1, TopFacts DEF Top, undo
    <3>2. QED
      BY <3>1, <2>1, <1>2, MaxIdAssumption DEF Describes, Current, IInv, TypeOK, Snapshot
  <2>3. QED
    BY <2>1, <2>2, <1>1, <1>3, <1>4 DEF TypeOK, undo
<1>6. RevisionsConsecutive'
  <2>1. ASSUME NEW k \in 1..(n - 1)
        PROVE  stack'[k].revision + (n - 1) = (revision - 1) + k
    <3>1. stack[k].revision \in Nat /\ stack[k].revision + n = revision + k
      BY <1>1, RevisionFacts
    <3>2. stack'[k].revision = stack[k].revision
      BY <1>3
    <3>3. QED
      BY <3>1, <3>2, <1>1, SMTT(40)
  <2>2. QED
    BY <2>1, <1>3, <1>4 DEF RevisionsConsecutive
<1>7. \A k \in 1..n : SnapAt(k)' = SnapAt(k)
  BY <1>1, <1>2, <1>3 DEF SnapAt
<1>8. /\ \A k \in 1..((n - 1) + 1) : Sound(SnapAt(k)')
      /\ \A k \in 1..(n - 1) : Describes(stack'[k], SnapAt(k)', SnapAt(k + 1)')
  BY <1>1, <1>3, <1>7 DEF IInv
<1>9. QED
  BY <1>1, <1>3, <1>5, <1>6, <1>8, Rebuild

(* squash(): the two records on top become one, described by MergeDescribes. *)
LEMMA SquashStep ==
  ASSUME IInv, squash
  PROVE  IInv'
<1>0. PICK n \in Nat : n = Len(stack)
  BY DEF IInv, TypeOK
<1>1. /\ Len(stack) = n /\ Len(snaps) = n /\ n > 0
      /\ stack \in Seq(UndoState) /\ snaps \in Seq(Snapshot)
      /\ revision \in Nat /\ snaps' = Front(snaps)
      /\ Current' = Current
  BY <1>0 DEF IInv, TypeOK, squash, enabled, Current
<1>2. /\ snaps' \in Seq(Snapshot) /\ Len(snaps') = n - 1
      /\ \A k \in 1..(n - 1) : snaps'[k] = snaps[k]
  BY <1>1 DEF Front
<1>3. CASE n = 1
  <2>1. stack' = <<>> /\ revision' = revision /\ Len(stack') = 0
    BY <1>1, <1>3 DEF squash
  <2>2. TypeOK' /\ RevisionsConsecutive'
    BY <2>1, <1>1, <1>2, <1>3 DEF IInv, TypeOK, RevisionsConsecutive, squash
  <2>3. SnapAt(1)' = Current
    BY <1>1, <1>2, <1>3 DEF SnapAt
  <2>4. \A k \in 1..(0 + 1) : Sound(SnapAt(k)')
    BY <2>3, TopFacts
  <2>5. QED
    BY <2>1, <2>2, <2>4, Rebuild
<1>4. CASE n > 1
  <2> DEFINE q == Merge(stack[n - 1], stack[n])
  <2>1. stack[n - 1] \in UndoState /\ stack[n] \in UndoState
    BY <1>1, <1>4
  <2>2. q \in UndoState /\ q.revision = stack[n - 1].revision
    BY <2>1, MergeType DEF Merge, UndoState
  <2>3. stack' = [Front(stack) EXCEPT ![n - 1] = q] /\ revision' = revision - 1
    BY <1>1, <1>4 DEF squash, Top
  <2>4. /\ Front(stack) \in Seq(UndoState) /\ Len(Front(stack)) = n - 1
        /\ \A k \in 1..(n - 1) : Front(stack)[k] = stack[k]
    BY <1>1, <1>4 DEF Front
  <2> HIDE DEF q
  <2>6. /\ stack' \in Seq(UndoState) /\ Len(stack') = n - 1
        /\ \A k \in 1..(n - 1) : stack'[k] = IF k = n - 1 THEN q ELSE stack[k]
    BY <2>2, <2>3, <2>4, <1>4
  <2>7. revision' \in Nat
    <3>1. stack[1].revision \in Nat \ {0} /\ stack[1].revision + n = revision + 1
      BY <1>1, RevisionFacts
    <3>2. QED
      BY <3>1, <2>3, <1>1
  <2>8. TypeOK'
    BY <2>6, <2>7, <1>1, <1>2 DEF IInv, TypeOK, squash
  <2>9. RevisionsConsecutive'
    <3>1. ASSUME NEW k \in 1..(n - 1)
          PROVE  stack'[k].revision + (n - 1) = (revision - 1) + k
      <4>1. stack[k].revision \in Nat /\ stack[k].revision + n = revision + k
        BY <1>1, RevisionFacts
      <4>2. stack'[k].revision = stack[k].revision
        BY <2>2, <2>6
      <4>3. revision \in Nat
        BY <1>1
      <4>4. QED
        BY <4>1, <4>2, <4>3
    <3>2. QED
      BY <3>1, <2>3, <2>6 DEF RevisionsConsecutive
  <2>10. /\ \A k \in 1..(n - 1) : SnapAt(k)' = SnapAt(k) /\ SnapAt(k) = snaps[k]
         /\ SnapAt(n)' = SnapAt(n + 1) /\ SnapAt(n) = snaps[n] /\ SnapAt(n + 1) = Current
    BY <1>1, <1>2 DEF SnapAt
  <2>11. ASSUME NEW k \in 1..((n - 1) + 1)
         PROVE  Sound(SnapAt(k)')
    <3>1. CASE k = n
      BY <3>1, <2>10, TopFacts
    <3>2. CASE k \in 1..(n - 1)
      BY <3>2, <2>10, <1>1 DEF IInv
    <3>3. QED
      BY <3>1, <3>2, <1>1
  <2>12. ASSUME NEW k \in 1..(n - 1)
         PROVE  Describes(stack'[k], SnapAt(k)', SnapAt(k + 1)')
    <3>1. CASE k = n - 1
      <4>1. /\ Describes(stack[n - 1], snaps[n - 1], snaps[n])
            /\ Describes(stack[n], snaps[n], Current)
            /\ Sound(snaps[n - 1])
        <5>1. n - 1 \in 1..Len(stack) /\ n \in 1..Len(stack) /\ (n - 1) + 1 = n
          BY <1>1, <1>4
        <5>2. QED
          BY <5>1, <2>10 DEF IInv
      <4>2. snaps[n - 1] \in Snapshot /\ snaps[n] \in Snapshot /\ Current \in Snapshot
        BY <1>1, <1>4, TopFacts
      <4>3. Describes(q, snaps[n - 1], Current)
        BY <4>1, <4>2, <2>1, MergeDescribes DEF q
      <4>4. QED
        BY <4>3, <3>1, <2>6, <2>10, <1>4
    <3>2. CASE k # n - 1
      <4>1. k + 1 \in 1..(n - 1)
        BY <3>2, <1>1
      <4>2. QED
        BY <4>1, <3>2, <2>6, <2>10, <1>1 DEF IInv
    <3>3. QED
      BY <3>1, <3>2
  <2>13. QED
    BY <2>6, <2>8, <2>9, <2>11, <2>12, <1>1, Rebuild
<1>5. QED
  BY <1>1, <1>3, <1>4

(* What is left of a sequence without its first d elements. *)
LEMMA DropFacts ==
  ASSUME NEW S, NEW s \in Seq(S), NEW n \in Nat, n = Len(s), NEW d \in 1..n
  PROVE  /\ Drop(s, d) \in Seq(S) /\ Len(Drop(s, d)) = n - d
         /\ \A k \in 1..(n - d) : Drop(s, d)[k] = s[k + d]
BY SMTT(20) DEF Drop

(* commit(): the oldest records and copies leave together. *)
LEMMA CommitStep ==
  ASSUME IInv, NEW r, commit(r)
  PROVE  IInv'
<1>0. PICK n \in Nat : n = Len(stack)
  BY DEF IInv, TypeOK
<1>1. /\ Len(stack) = n /\ Len(snaps) = n
      /\ stack \in Seq(UndoState) /\ snaps \in Seq(Snapshot)
      /\ revision \in Nat /\ Current' = Current /\ revision' = revision
  BY <1>0 DEF IInv, TypeOK, commit, Current
<1>2. PICK d \in 1..n : stack' = Drop(stack, d) /\ snaps' = Drop(snaps, d)
  BY <1>1 DEF commit
<1>3. /\ stack' \in Seq(UndoState) /\ Len(stack') = n - d
      /\ snaps' \in Seq(Snapshot) /\ Len(snaps') = n - d
      /\ \A k \in 1..(n - d) : stack'[k] = stack[k + d] /\ snaps'[k] = snaps[k + d]
  <2>1. /\ stack' \in Seq(UndoState) /\ Len(stack') = n - d
        /\ \A k \in 1..(n - d) : stack'[k] = stack[k + d]
    BY <1>1, <1>2, DropFacts
  <2>2. /\ snaps' \in Seq(Snapshot) /\ Len(snaps') = n - d
        /\ \A k \in 1..(n - d) : snaps'[k] = snaps[k + d]
    BY <1>1, <1>2, DropFacts
  <2>3. QED
    BY <2>1, <2>2
<1>4. TypeOK'
  BY <1>1, <1>3 DEF IInv, TypeOK, commit
<1>5. RevisionsConsecutive'
  <2>1. ASSUME NEW k \in 1..(n - d)
        PROVE  stack'[k].revision + (n - d) = revision + k
    <3>1. stack[k + d].revision \in Nat /\ stack[k + d].revision + n = revision + (k + d)
      BY <1>1, RevisionFacts
    <3>2. stack'[k].revision = stack[k + d].revision
      BY <1>3
    <3>3. revision \in Nat
      BY <1>1
    <3>4. QED
      BY <3>1, <3>2, <3>3
  <2>2. QED
    BY <2>1, <1>1, <1>3 DEF RevisionsConsecutive
<1>6. \A k \in 1..((n - d) + 1) : SnapAt(k)' = SnapAt(k + d)
  BY <1>1, <1>3 DEF SnapAt
<1>7. \A k \in 1..((n - d) + 1) : Sound(SnapAt(k)')
  BY <1>1, <1>6 DEF IInv
<1>8. ASSUME NEW k \in 1..(n - d)
      PROVE  Describes(stack'[k], SnapAt(k)', SnapAt(k + 1)')
  <2>1. k + d \in 1..Len(stack) /\ (k + d) + 1 = (k + 1) + d
    BY <1>1
  <2>2. QED
    BY <2>1, <1>3, <1>6 DEF IInv
<1>9. QED
  BY <1>1, <1>3, <1>4, <1>5, <1>7, <1>8, Rebuild

-----------------------------------------------------------------------------
(* The invariant and what follows from it. *)

(* An empty index satisfies the invariant. *)
LEMMA InitIInv == Init => IInv
<1> SUFFICES ASSUME Init PROVE IInv
  OBVIOUS
<1>1. /\ stack = <<>> /\ snaps = <<>> /\ Len(stack) = 0 /\ Len(snaps) = 0
      /\ objects = [i \in Id |-> Absent] /\ next_id = 0
      /\ stack \in Seq(UndoState) /\ snaps \in Seq(Snapshot)
  BY DEF Init
<1>2. TypeOK
  <2>1. objects \in Slots
    BY <1>1 DEF Slots
  <2>2. next_id \in 0..MaxId /\ revision \in Nat
    BY <1>1, MaxIdAssumption DEF Init
  <2>3. unwinding \in BOOLEAN
    BY DEF Init
  <2>4. QED
    BY <1>1, <2>1, <2>2, <2>3 DEF TypeOK
<1>3. RevisionsConsecutive
  BY <1>1 DEF RevisionsConsecutive
<1>4. SnapAt(1) = Current
  BY <1>1 DEF SnapAt
<1>5. Sound(Current)
  BY <1>1 DEF Sound, Issued, UniqueKeys, Current
<1>6. QED
  BY <1>1, <1>2, <1>3, <1>4, <1>5 DEF IInv

(* Every operation of the index keeps the invariant. *)
LEMMA StepIInv == IInv /\ [Next]_vars => IInv'
<1> SUFFICES ASSUME IInv, [Next]_vars PROVE IInv'
  OBVIOUS
<1>1. ASSUME NEW v \in Value, emplace(v) PROVE IInv'
  BY <1>1, EmplaceStep
<1>2. ASSUME NEW i \in Id, NEW d \in Data, modify(i, d) PROVE IInv'
  BY <1>2, ModifyStep
<1>3. ASSUME NEW i \in Id, remove(i) PROVE IInv'
  BY <1>3, RemoveStep
<1>4. CASE start_undo_session
  BY <1>4, StartStep
<1>5. CASE undo
  BY <1>5, UndoStep
<1>6. CASE undo_all
  BY <1>6 DEF IInv, TypeOK, RevisionsConsecutive, SnapAt, Current, undo_all
<1>7. CASE squash
  BY <1>7, SquashStep
<1>8. ASSUME NEW r \in 1..MaxRevision, commit(r) PROVE IInv'
  BY <1>8, CommitStep
<1>9. ASSUME NEW r \in 0..MaxRevision, set_revision(r) PROVE IInv'
  <2>1. stack = <<>> /\ Len(stack) = 0 /\ revision' \in Nat
    BY <1>9 DEF set_revision, enabled
  <2>2. QED
    BY <2>1, <1>9 DEF IInv, TypeOK, RevisionsConsecutive, SnapAt, Current, set_revision
<1>10. CASE UNCHANGED vars
  BY <1>10 DEF IInv, TypeOK, RevisionsConsecutive, SnapAt, Current, vars
<1>11. QED
  BY <1>1, <1>2, <1>3, <1>4, <1>5, <1>6, <1>7, <1>8, <1>9, <1>10 DEF Next

(* IInv is an invariant of the undo index. *)
THEOREM Invariance == Spec => []IInv
BY InitIInv, StepIInv, PTL DEF Spec

(* Type correctness of the index and of its undo buffer. *)
THEOREM TypeCorrect == Spec => []TypeOK
<1>1. IInv => TypeOK
  BY DEF IInv
<1>2. QED
  BY <1>1, Invariance, PTL

(* undo() of chainbase.hpp:323 never looks up a missing object and never     *)
(* meets a taken unique key.                                                 *)
THEOREM UndoNeverFails == Spec => []UndoAlwaysDefined
<1>1. IInv => UndoAlwaysDefined
  <2>1. SUFFICES ASSUME IInv, enabled
                 PROVE  UndoDefined(Top(stack), objects)
    BY DEF UndoAlwaysDefined
  <2>2. UndoDefined(Top(stack), Current.objects)
    BY <2>1, TopFacts, DescribedUndoDefined
  <2>3. QED
    BY <2>2 DEF Current
<1>2. QED
  BY <1>1, Invariance, PTL

(* Undoing session after session restores the contents and the next id of    *)
(* the moment each was opened (chainbase.hpp:319), at every depth.           *)
THEOREM UndoAlwaysRestores == Spec => []UndoRestores
<1>1. IInv => UndoRestores
  <2> SUFFICES ASSUME IInv, NEW k \in 1..Len(stack)
               PROVE  /\ Restore(stack[k], After(k)) = snaps[k].objects
                      /\ stack[k].old_next_id = snaps[k].next_id
    BY DEF UndoRestores
  <2>1. /\ Len(stack) \in Nat /\ Len(snaps) = Len(stack)
        /\ stack[k] \in UndoState /\ snaps[k] \in Snapshot
    BY DEF IInv, TypeOK
  <2>2. SnapAt(k) = snaps[k] /\ After(k) = SnapAt(k + 1).objects
    BY <2>1 DEF SnapAt, After, Current
  <2>3. SnapAt(k + 1) \in Snapshot
    BY <2>1, TopFacts DEF SnapAt, IInv, TypeOK
  <2>4. Describes(stack[k], snaps[k], SnapAt(k + 1))
    BY <2>2 DEF IInv
  <2>5. QED
    BY <2>1, <2>2, <2>3, <2>4, RestoreDescribed DEF Describes
<1>2. QED
  BY <1>1, Invariance, PTL

(* The revisions of the open sessions are consecutive up to _revision.       *)
THEOREM RevisionsStayConsecutive == Spec => []RevisionsConsecutive
<1>1. IInv => RevisionsConsecutive
  BY DEF IInv
<1>2. QED
  BY <1>1, Invariance, PTL

(* Neither assert() of squash() (chainbase.hpp:413, 444) can fail: the cases *)
(* its comment marks N/A do not occur.                                       *)
THEOREM SquashAssertsHold ==
  Spec => [](\A k \in 1..(Len(stack) - 1) : MergeAsserts(stack[k], stack[k + 1]))
<1>1. IInv => \A k \in 1..(Len(stack) - 1) : MergeAsserts(stack[k], stack[k + 1])
  <2> SUFFICES ASSUME IInv, NEW k \in 1..(Len(stack) - 1)
               PROVE  MergeAsserts(stack[k], stack[k + 1])
    OBVIOUS
  <2>1. /\ Len(stack) \in Nat /\ Len(snaps) = Len(stack)
        /\ stack[k] \in UndoState /\ stack[k + 1] \in UndoState
        /\ snaps[k] \in Snapshot /\ snaps[k + 1] \in Snapshot
    BY DEF IInv, TypeOK
  <2>2. SnapAt(k) = snaps[k] /\ SnapAt(k + 1) = snaps[k + 1] /\ SnapAt(k + 2) \in Snapshot
    BY <2>1, TopFacts DEF SnapAt, IInv, TypeOK
  <2>3. k \in 1..Len(stack) /\ k + 1 \in 1..Len(stack) /\ (k + 1) + 1 = k + 2
    BY <2>1
  <2>4. Describes(stack[k], snaps[k], snaps[k + 1]) /\ Describes(stack[k + 1], snaps[k + 1], SnapAt(k + 2))
    BY <2>2, <2>3 DEF IInv
  <2>5. QED
    BY <2>1, <2>2, <2>4, MergeAssertsDescribed
<1>2. QED
  BY <1>1, Invariance, PTL

(* The undo index implements the stack of whole copies.                      *)
THEOREM Refinement == Spec => ImplementsSnapshots
<1>1. Init => Snapshots!Init
  BY DEF Init, Snapshots!Init
<1>2. IInv /\ [Next]_vars => [Snapshots!Next]_(Snapshots!vars)
  <2> SUFFICES ASSUME IInv, [Next]_vars
               PROVE  Snapshots!Next \/ UNCHANGED Snapshots!vars
    OBVIOUS
  <2> USE DEF Snapshots!Next, Snapshots!vars
  <2>1. ASSUME NEW v \in Value, emplace(v) PROVE Snapshots!Change
    <3>1. next_id \in Id
      BY <2>1, MaxIdAssumption DEF IInv, TypeOK, emplace, Id
    <3>2. objects[next_id] = Absent
      BY <3>1, TopFacts DEF Sound, Issued, Current, Id
    <3>3. QED
      BY <2>1, <3>1, <3>2 DEF emplace, Snapshots!Change
  <2>2. ASSUME NEW i \in Id, NEW d \in Data, modify(i, d) PROVE Snapshots!Change
    <3> DEFINE v == [objects[i] EXCEPT !.data = d]
    <3>1. objects[i] \in Value /\ objects[i] # Absent
      BY <2>2 DEF IInv, TypeOK, Slots, modify
    <3>2. v \in Value /\ objects' = [objects EXCEPT ![i] = v]
      BY <2>2, <3>1 DEF Value, modify
    <3>3. QED
      BY <2>2, <3>1, <3>2 DEF modify, Snapshots!Change
  <2>3. ASSUME NEW i \in Id, remove(i) PROVE Snapshots!Change
    BY <2>3 DEF remove, Snapshots!Change
  <2>4. CASE start_undo_session
    BY <2>4 DEF start_undo_session, Snapshots!Open, Snapshots!Copy
  <2>5. CASE undo
    <3>1. objects' = Top(snaps).objects /\ next_id' = Top(snaps).next_id
      <4>1. Current' = Top(snaps)
        BY <2>5, UndoGivesSnapshot
      <4>2. QED
        BY <4>1 DEF Current
    <3>2. snaps # <<>>
      BY <2>5 DEF undo, enabled, IInv, TypeOK
    <3>3. QED
      BY <2>5, <3>1, <3>2 DEF undo, Front, Top, Snapshots!Undo
  <2>6. CASE squash
    <3>1. snaps # <<>>
      BY <2>6 DEF squash, enabled, IInv, TypeOK
    <3>2. QED
      BY <2>6, <3>1 DEF squash, Front, Snapshots!Squash
  <2>7. ASSUME NEW r \in 1..MaxRevision, commit(r) PROVE Snapshots!Commit
    BY <2>7 DEF commit, Drop, IInv, TypeOK, Snapshots!Commit
  <2>8. CASE undo_all
    BY <2>8 DEF undo_all
  <2>9. ASSUME NEW r \in 0..MaxRevision, set_revision(r) PROVE UNCHANGED Snapshots!vars
    BY <2>9 DEF set_revision
  <2>10. CASE UNCHANGED vars
    BY <2>10 DEF vars
  <2>11. QED
    BY <2>1, <2>2, <2>3, <2>4, <2>5, <2>6, <2>7, <2>8, <2>9, <2>10 DEF Next
<1>3. QED
  BY <1>1, <1>2, Invariance, PTL DEF Spec, ImplementsSnapshots, Snapshots!Spec
=============================================================================
