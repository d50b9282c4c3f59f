------------------------ MODULE StateRecoveryProofs ------------------------
(***************************************************************************)
(* A node that serves has one whole state whose undo states end at or      *)
(* behind the head of the block log, for every number of indexes and       *)
(* blocks and however often the process dies, as long as it does not die   *)
(* in one of the two windows of reindex() that WindowsAvoided names.       *)
(*                                                                         *)
(* What is on disk is never more than a few loops away from a whole state. *)
(* An index is described by the contents it rests on, b, and its revision: *)
(* its undo states are the heights from b up to the revision.  The         *)
(* invariant says so at every program point, says how far each loop over   *)
(* the indexes has come (Phase), and that whatever the loop was, the check *)
(* of open() can tell a torn state from a whole one (Recoverable).         *)
(***************************************************************************)
EXTENDS StateRecovery, TLAPS, FiniteSetTheorems

(* The points at which open() cannot find out that the state is not whole.   *)
WindowsAvoided == CrashAt \cap {"wiped", "set_revision"} = {}

(* The contents saved by the undo states with the revisions b + 1 .. r. *)
From(b, r) == [n \in 1..(r - b) |-> b + n - 1]

(* Index j can be undone back to b, and rests on it when nothing can be undone. *)
Undoable(j, b) ==
  b <= rev[j] /\ saved[j] = From(b, rev[j]) /\ (b = rev[j] => height[j] = b)

(* The last irreversible block lies behind the block that made it so. *)
LibBehind == \A h \in Heights : lib[h] = 0 \/ lib[h] < h

Later(b, l) == IF l > b THEN l ELSE b

(* A state of one of the points of _push_block(), which rests on b. *)
Phase(b) ==
  /\ log <= b
  /\ pc # "commit" => \A j \in Indexes : Undoable(j, b)
  /\ pc = "serving" => \A j \in Indexes : height[j] = height[1] /\ rev[j] = height[1]
  /\ pc = "start_session" =>
       /\ height[1] < MaxHeight
       /\ \A j \in Indexes : /\ height[j] = height[1]
                             /\ rev[j] = IF j < i THEN height[1] + 1 ELSE height[1]
  /\ pc = "apply" =>
       /\ height[1] < MaxHeight
       /\ \A j \in Indexes : height[j] = height[1] /\ rev[j] = height[1] + 1
  /\ pc = "commit" =>
       /\ b < height[1]
       /\ \A j \in Indexes : /\ height[j] = height[1] /\ rev[j] = height[1]
                             /\ Undoable(j, IF j < i THEN Later(b, lib[height[1]]) ELSE b)
  /\ pc \in {"block_log", "append", "flush", "flush_contract", "applied"} =>
       /\ b < height[1] /\ lib[height[1]] <= b
       /\ \A j \in Indexes : height[j] = height[1] /\ rev[j] = height[1]
  /\ pc = "undo" =>
       \E r \in Heights :
         /\ b < r
         /\ \A j \in Indexes : IF j < i THEN rev[j] = r - 1 /\ height[j] = r - 1
                               ELSE rev[j] = r

(* What open() may find: the state of a replay, which has no revision yet,   *)
(* or indexes of which the first is ahead of the log if they do not agree.   *)
Replayed == rev[1] # height[1] /\ \A j \in Indexes : saved[j] = <<>>
Torn ==
  /\ \A j \in Indexes : Undoable(j, Base(j)) /\ log <= Base(j)
  /\ log < Base(1) \/ \A j \in Indexes : Base(j) = Base(1)
Recoverable == Replayed \/ Torn

(* The state while a block of the log is replayed: from the last index to   *)
(* the first.                                                               *)
Replaying ==
  /\ \A j \in Indexes : saved[j] = <<>> /\ rev[j] = 0
  /\ \A j \in Indexes : height[j] = IF j > NIndexes + 1 - i THEN height[1] + 1 ELSE height[1]
  /\ i > 1 => height[1] < log

IInv ==
  /\ TypeOK /\ LibBehind
  /\ pc \in Working => \E b \in Heights : Phase(b)
  /\ pc \in {"down", "undo_all", "check", "wipe"} => Recoverable
  /\ pc = "undo_all" => \A j \in Indexes : j < i => saved[j] = <<>>
  /\ pc = "check" => \A j \in Indexes : saved[j] = <<>>
  /\ pc \in {"wiped", "replay"} => Replaying
  /\ pc = "wiped" => height[1] = 0
  /\ pc = "replay" => height[1] > 0
  /\ pc = "set_revision" =>
       \A j \in Indexes : /\ height[j] = log /\ saved[j] = <<>>
                          /\ j < i => rev[j] = log

-----------------------------------------------------------------------------
(* Facts about stacks of saved contents. *)

(* The contents saved between b and r: as many as there are revisions, from b to r - 1. *)
LEMMA FromType ==
  ASSUME NEW b \in Heights, NEW r \in Heights, b <= r
  PROVE  /\ From(b, r) \in Seq(Heights) /\ Len(From(b, r)) = r - b
         /\ b = r => From(b, r) = <<>>
         /\ b < r => /\ From(b, r) # <<>> /\ From(b, r)[1] = b
                     /\ From(b, r)[r - b] = r - 1
<1> USE SizesAssumption DEF Heights
<1>1. From(b, r) \in Seq(Heights) /\ Len(From(b, r)) = r - b
  <2>1. r - b \in Nat /\ \A n \in 1..(r - b) : b + n - 1 \in Heights
    OBVIOUS
  <2>2. QED  BY <2>1 DEF From
<1>2. b = r => From(b, r) = <<>>
  BY DEF From
<1>3. b < r => /\ From(b, r)[1] = b /\ From(b, r)[r - b] = r - 1
  BY DEF From
<1>4. b < r => From(b, r) # <<>>
  BY <1>1
<1>5. QED  BY <1>1, <1>2, <1>3, <1>4

(* start_undo_session() adds the contents of the revision it leaves. *)
LEMMA FromAppend ==
  ASSUME NEW b \in Heights, NEW r \in Heights, b <= r
  PROVE  Append(From(b, r), r) = From(b, r + 1)
BY SizesAssumption DEF From, Heights

(* undo() takes the last one off. *)
LEMMA FromFront ==
  ASSUME NEW b \in Heights, NEW r \in Heights, b < r
  PROVE  SubSeq(From(b, r), 1, Len(From(b, r)) - 1) = From(b, r - 1)
<1>1. Len(From(b, r)) = r - b
  BY FromType DEF Heights
<1>2. QED  BY <1>1, SizesAssumption DEF From, Heights

(* commit(l) takes the first ones off, up to the revision l. *)
LEMMA FromCommitted ==
  ASSUME NEW j \in Indexes, NEW b \in Heights, NEW l \in Heights, rev[j] \in Heights,
         b < rev[j], l < rev[j], saved[j] = From(b, rev[j])
  PROVE  Uncommitted(j, l) = From(Later(b, l), rev[j])
<1> USE SizesAssumption DEF Heights
<1> DEFINE r == rev[j]
           S == {k \in DOMAIN saved[j] : (r - Len(saved[j])) + k <= l}
           n == Later(b, l) - b
<1>1. Len(saved[j]) = r - b /\ DOMAIN saved[j] = 1..(r - b)
  BY FromType DEF From
<1>2. n \in Nat /\ n < r - b
  BY DEF Later
<1>3. S = 1..n
  <2>1. S = {k \in 1..(r - b) : b + k <= l}
    BY <1>1
  <2>2. \A k \in 1..(r - b) : b + k <= l <=> k <= n
    BY DEF Later
  <2>3. QED  BY <1>2, <2>1, <2>2, SMTT(40)
<1>4. Cardinality(S) = n
  <2> HIDE DEF n, r
  <2>1. 1 \in Int /\ n \in Int
    BY <1>2
  <2>2. Cardinality(1..n) = IF 1 > n THEN 0 ELSE n - 1 + 1
    BY <2>1, FS_Interval, Zenon
  <2> HIDE DEF S
  <2>3. n \in Nat
    BY <1>2
  <2>4. Cardinality(1..n) = n
    BY <2>2, <2>3
  <2>5. QED  BY <1>3, <2>4
<1>5. Uncommitted(j, l) = SubSeq(saved[j], n + 1, Len(saved[j]))
  BY <1>4 DEF Uncommitted
<1>6. SubSeq(From(b, r), n + 1, r - b) = From(b + n, r)
  <2> HIDE DEF n, r
  <2>1. r \in Nat /\ b \in Nat /\ b < r
    BY DEF r
  <2>2. SubSeq(From(b, r), n + 1, r - b)
          = [k \in 1..((r - b) - (n + 1) + 1) |-> From(b, r)[k + (n + 1) - 1]]
    BY <1>2, <2>1 DEF From
  <2>3. /\ 1..((r - b) - (n + 1) + 1) = 1..(r - (b + n))
        /\ \A k \in 1..(r - (b + n)) : From(b, r)[k + (n + 1) - 1] = (b + n) + k - 1
    BY <1>2, <2>1 DEF From
  <2>4. QED  BY <2>2, <2>3 DEF From
<1>7. b + n = Later(b, l)
  BY DEF Later
<1>8. QED  BY <1>1, <1>5, <1>6, <1>7

-----------------------------------------------------------------------------
(* What the phases have in common. *)

(* There is a first index and a height of an empty chain. *)
LEMMA Constants == /\ NIndexes \in Nat /\ NIndexes >= 1 /\ 1 \in Indexes
                   /\ \A j \in Indexes : j \in Nat /\ j >= 1 /\ j <= NIndexes
                   /\ MaxHeight \in Nat /\ LibLag \in Nat /\ LibLag >= 1
                   /\ \A h \in Heights : h \in Nat /\ h >= 0 /\ h <= MaxHeight
                   /\ 0 \in Heights
BY SizesAssumption DEF Indexes, Heights

(* undo_all() takes an index back to the height it rests on. *)
LEMMA UndoableBase ==
  ASSUME TypeOK, NEW j \in Indexes, NEW b \in Heights, Undoable(j, b)
  PROVE  Base(j) = b /\ Undoable(j, Base(j))
<1>1. rev[j] \in Heights /\ b <= rev[j] /\ saved[j] = From(b, rev[j])
  BY DEF TypeOK, Undoable
<1>2. CASE b = rev[j]
  BY <1>1, <1>2, FromType DEF Undoable, Base
<1>3. CASE b < rev[j]
  BY <1>1, <1>3, FromType DEF Undoable, Base
<1>4. QED  BY <1>1, <1>2, <1>3, Constants

(* Whenever the process may die while it works, open() finds what it needs. *)
LEMMA WorkRecoverable ==
  ASSUME TypeOK, pc \in Working, NEW b \in Heights, Phase(b)
  PROVE  Torn
<1> USE Constants
<1>1. log \in Nat /\ log <= b /\ b \in Nat
  BY DEF TypeOK, Phase
<1>2. CASE pc # "commit"
  <2>1. \A j \in Indexes : Base(j) = b /\ Undoable(j, Base(j))
    BY <1>2, UndoableBase DEF Phase
  <2>2. QED  BY <1>1, <2>1 DEF Torn
<1>3. CASE pc = "commit"
  <2> DEFINE l == lib[height[1]]
             c(j) == IF j < i THEN Later(b, l) ELSE b
  <2>1. l \in Heights /\ l \in Nat /\ Later(b, l) \in Heights /\ Later(b, l) >= b /\ i \in Indexes
    BY SMTT(40) DEF TypeOK, Later
  <2> HIDE DEF l
  <2>2. ASSUME NEW j \in Indexes
        PROVE  Undoable(j, c(j)) /\ c(j) \in Heights /\ c(j) >= b
    BY <1>1, <1>3, <2>1 DEF Phase, l
  <2>3. \A j \in Indexes : Base(j) = c(j) /\ Undoable(j, Base(j))
    BY <2>2, UndoableBase
  <2>4. ASSUME NEW j \in Indexes PROVE log <= Base(j)
    <3> HIDE DEF c
    <3>1. c(j) \in Nat /\ c(j) >= b /\ Base(j) = c(j)
      BY <2>2, <2>3
    <3>2. QED  BY <1>1, <3>1
  <2>5. log < Base(1) \/ \A j \in Indexes : Base(j) = Base(1)
    <3>1. CASE i = 1
      BY <2>1, <2>3, <3>1
    <3>2. CASE l <= b
      BY <1>1, <2>1, <2>3, <3>2 DEF Later
    <3>3. CASE i # 1 /\ ~(l <= b)
      <4>1. Base(1) = l /\ l > b
        BY <1>1, <2>1, <2>3, <3>3 DEF Later
      <4>2. QED  BY <1>1, <2>1, <4>1
    <3>4. QED  BY <3>1, <3>2, <3>3
  <2>6. QED  BY <2>3, <2>4, <2>5 DEF Torn
<1>4. QED  BY <1>2, <1>3

(* A replay that dies leaves indexes whose revision is not their height. *)
LEMMA ReplayRecoverable ==
  ASSUME Replaying, height[1] > 0, height[1] \in Heights
  PROVE  Replayed
BY Constants DEF Replaying, Replayed

(* The parts of IInv that concern the points of _push_block(). *)
LEMMA WorkingSuffices ==
  ASSUME TypeOK', LibBehind', pc' \in Working, NEW b \in Heights, Phase(b)'
  PROVE  IInv'
BY DEF IInv, Working

(* A node that has never run satisfies the invariant. *)
LEMMA InitHolds == Init => IInv
<1> SUFFICES ASSUME Init PROVE IInv
  OBVIOUS
<1> USE Constants
<1>1. TypeOK
  <2>1. <<>> \in Seq(Heights)
    OBVIOUS
  <2>2. QED  BY <2>1, SizesAssumption DEF Init, TypeOK, Working
<1>2. LibBehind
  BY DEF Init, LibBehind
<1>3. \A j \in Indexes : Undoable(j, 0)
  BY FromType DEF Init, Undoable
<1>4. Phase(0)
  BY <1>3 DEF Init, Phase
<1>5. QED  BY <1>1, <1>2, <1>4 DEF Init, IInv

-----------------------------------------------------------------------------
(* One lemma per step of _push_block(): it leads from a state that rests on  *)
(* b to one that rests on b or on something later.                           *)

(* The arrival of a block keeps the invariant. *)
LEMMA PushBlockKeeps == ASSUME IInv, push_block PROVE IInv'
<1> USE Constants
<1>1. /\ TypeOK /\ LibBehind /\ pc = "serving" /\ height[1] < MaxHeight
      /\ pc' = "start_session" /\ i' = 1 /\ UNCHANGED <<state, logs, crashes>>
  BY DEF IInv, push_block, Goto, head_block_num
<1>2. PICK b \in Heights : Phase(b)
  BY <1>1 DEF IInv, Working
<1>3. TypeOK' /\ LibBehind'
  BY <1>1 DEF TypeOK, LibBehind, state, logs, Working
<1>4. \A j \in Indexes : Undoable(j, b)'
  BY <1>1, <1>2 DEF Phase, Undoable, state
<1>5. Phase(b)'
  BY <1>1, <1>2, <1>4 DEF Phase, state, logs
<1>6. QED  BY <1>1, <1>3, <1>5, WorkingSuffices DEF Working

(* start_undo_session(), index by index, keeps the invariant. *)
LEMMA StartSessionKeeps == ASSUME IInv, start_undo_session PROVE IInv'
<1> USE Constants
<1>1. /\ TypeOK /\ LibBehind /\ pc = "start_session" /\ UNCHANGED <<height, lib, logs, crashes>>
      /\ saved' = [saved EXCEPT ![i] = Append(saved[i], height[i])]
      /\ rev' = [rev EXCEPT ![i] = rev[i] + 1]
      /\ i \in Indexes /\ i \in Nat
  BY DEF IInv, start_undo_session, TypeOK
<1>2. IF i < NIndexes THEN i' = i + 1 /\ pc' = "start_session" ELSE i' = 1 /\ pc' = "apply"
  BY <1>1 DEF start_undo_session, Loop
<1>3. PICK b \in Heights : Phase(b)
  BY <1>1 DEF IInv, Working
<1> DEFINE h == height[1]
<1>4. /\ log <= b /\ h \in Heights /\ h < MaxHeight /\ h + 1 \in Heights /\ b <= h
      /\ \A j \in Indexes : /\ height[j] = h /\ Undoable(j, b)
                            /\ rev[j] = IF j < i THEN h + 1 ELSE h
  <2>1. /\ log <= b /\ h < MaxHeight
        /\ \A j \in Indexes : /\ height[j] = h /\ Undoable(j, b)
                              /\ rev[j] = IF j < i THEN h + 1 ELSE h
    BY <1>1, <1>3 DEF Phase
  <2>2. h \in Heights /\ h + 1 \in Heights
    <3>1. h \in Heights  BY <1>1 DEF TypeOK
    <3> HIDE DEF h
    <3>2. QED  BY <2>1, <3>1 DEF Heights
  <2>3. b <= h
    BY <1>1, <2>1 DEF Undoable
  <2>4. QED  BY <2>1, <2>2, <2>3
<1>5. rev[i] = h /\ saved'[i] = From(b, h + 1) /\ rev'[i] = h + 1
  <2>1. rev[i] = h /\ saved[i] = From(b, h) /\ height[i] = h
    BY <1>1, <1>4 DEF Undoable
  <2>2. saved'[i] = Append(From(b, h), h) /\ rev'[i] = h + 1
    BY <1>1, <2>1 DEF TypeOK
  <2>3. QED  BY <1>4, <2>1, <2>2, FromAppend
<1>6. \A j \in Indexes : j # i => saved'[j] = saved[j] /\ rev'[j] = rev[j]
  BY <1>1 DEF TypeOK
<1>7. ASSUME NEW j \in Indexes PROVE Undoable(j, b)' /\ rev'[j] = IF j <= i THEN h + 1 ELSE h
  <2>1. CASE j = i
    BY <1>1, <1>4, <1>5, <2>1 DEF Undoable
  <2>2. CASE j # i
    BY <1>1, <1>4, <1>6, <2>2 DEF Undoable
  <2>3. QED  BY <2>1, <2>2
<1>8. TypeOK' /\ LibBehind'
  <2>1. saved' \in [Indexes -> Seq(Heights)] /\ rev' \in [Indexes -> Heights]
    BY <1>1, <1>4, <1>5, SMTT(40) DEF TypeOK
  <2>2. i' \in Indexes /\ pc' \in Startup \cup Working
    BY <1>1, <1>2 DEF Indexes, Working
  <2>3. QED  BY <1>1, <2>1, <2>2 DEF TypeOK, LibBehind, logs
<1>9. Phase(b)'
  <2>1. CASE i < NIndexes
    <3>1. pc' = "start_session" /\ i' = i + 1
      BY <1>2, <2>1
    <3>2. \A j \in Indexes : j <= i <=> j < i'
      BY <1>1, <3>1
    <3>3. QED  BY <1>1, <1>4, <1>7, <3>1, <3>2 DEF Phase, logs
  <2>2. CASE ~(i < NIndexes)
    <3>1. pc' = "apply" /\ \A j \in Indexes : j <= i
      BY <1>1, <1>2, <2>2
    <3>2. QED  BY <1>1, <1>4, <1>7, <3>1 DEF Phase, logs
  <2>3. QED  BY <2>1, <2>2
<1>10. QED  BY <1>2, <1>8, <1>9, WorkingSuffices DEF Working

(* _apply_block() keeps the invariant. *)
LEMMA ApplyKeeps == ASSUME IInv, apply_block PROVE IInv'
<1> USE Constants
<1> DEFINE h == height[1] + 1
<1>1. /\ TypeOK /\ LibBehind /\ pc = "apply" /\ pc' = "commit" /\ i' = 1
      /\ height' = [j \in Indexes |-> h] /\ contracts' = contracts \cup {h}
      /\ UNCHANGED <<saved, rev, log, flushed, clog, cflushed, crashes>>
  BY DEF IInv, apply_block, Goto, head_block_num
<1>2. PICK l \in IrreversibleAt(h, lib[height[1]]) : lib' = [lib EXCEPT ![h] = l]
  BY DEF apply_block, head_block_num
<1>3. PICK b \in Heights : Phase(b)
  BY <1>1 DEF IInv, Working
<1>4. /\ log <= b /\ height[1] \in Heights /\ h \in Heights /\ h \in Nat
      /\ \A j \in Indexes : Undoable(j, b) /\ rev[j] = h /\ height[j] = height[1]
  <2>1. /\ log <= b /\ height[1] < MaxHeight
        /\ \A j \in Indexes : Undoable(j, b) /\ rev[j] = h /\ height[j] = height[1]
    BY <1>1, <1>3 DEF Phase
  <2>2. height[1] \in Heights /\ h \in Heights
    BY <1>1, <2>1 DEF TypeOK, Heights
  <2>3. QED  BY <2>1, <2>2
<1>5. b < h
  <2>1. b <= h /\ (b = h => height[1] = h)
    BY <1>4 DEF Undoable
  <2>2. QED  BY <1>4, <2>1
<1>6. l \in Heights /\ l < h
  <2>1. lib[height[1]] \in Heights /\ lib[height[1]] < h
    <3>1. lib[height[1]] \in Heights /\ (lib[height[1]] = 0 \/ lib[height[1]] < height[1])
      BY <1>1, <1>4 DEF TypeOK, LibBehind
    <3>2. QED  BY <1>4, <3>1
  <2>2. l = lib[height[1]] \/ l \in lib[height[1]]..(h - LibLag)
    BY <1>2 DEF IrreversibleAt
  <2>3. QED  BY <1>4, <2>1, <2>2 DEF Heights
<1>7. TypeOK' /\ LibBehind'
  <2>1. lib' \in [Heights -> Heights] /\ height' \in [Indexes -> Heights]
    BY <1>1, <1>2, <1>4, <1>6 DEF TypeOK
  <2>2. LibBehind'
    BY <1>1, <1>2, <1>4, <1>6 DEF TypeOK, LibBehind
  <2>3. TypeOK'
    BY <1>1, <1>4, <2>1 DEF TypeOK, Working
  <2>4. QED  BY <2>2, <2>3
<1>8. \A j \in Indexes : height'[j] = h
  BY <1>1
<1>9. \A j \in Indexes : Undoable(j, b)'
  BY <1>1, <1>4, <1>5, <1>8 DEF Undoable
<1>10. Phase(b)'
  BY <1>1, <1>4, <1>5, <1>8, <1>9 DEF Phase
<1>11. QED  BY <1>1, <1>7, <1>10, WorkingSuffices DEF Working

(* A block that does not apply, and a fork switch that takes one off. *)
LEMMA ToUndoKeeps == ASSUME IInv, apply_fails \/ pop_block PROVE IInv'
<1> USE Constants
<1>1. /\ TypeOK /\ LibBehind /\ pc \in {"apply", "applied", "serving"}
      /\ pc = "serving" => saved[1] # <<>>
      /\ pc' = "undo" /\ i' = 1 /\ UNCHANGED <<state, logs, crashes>>
  BY DEF IInv, apply_fails, pop_block, Goto
<1>2. PICK b \in Heights : Phase(b)
  BY <1>1 DEF IInv, Working
<1> DEFINE r == rev[1]
<1>3. /\ log <= b /\ r \in Heights /\ \A j \in Indexes : Undoable(j, b) /\ rev[j] = r
  BY <1>1, <1>2 DEF Phase, TypeOK
<1>4. b < r
  <2>1. b <= r /\ (b = r => height[1] = b /\ saved[1] = <<>>)
    BY <1>3, FromType DEF Undoable
  <2>2. pc = "apply" => r = height[1] + 1
    BY <1>1, <1>2 DEF Phase
  <2>3. pc = "applied" => b < height[1] /\ r = height[1]
    BY <1>1, <1>2 DEF Phase
  <2>4. height[1] \in Nat
    BY <1>1 DEF TypeOK
  <2>5. QED  BY <1>1, <1>3, <2>1, <2>2, <2>3, <2>4
<1>5. TypeOK' /\ LibBehind'
  BY <1>1 DEF TypeOK, LibBehind, state, logs, Working
<1>6. \A j \in Indexes : Undoable(j, b)' /\ rev'[j] = r /\ ~(j < i')
  BY <1>1, <1>3 DEF Undoable, state
<1>7. Phase(b)'
  BY <1>1, <1>3, <1>4, <1>6 DEF Phase, logs
<1>8. QED  BY <1>1, <1>5, <1>7, WorkingSuffices DEF Working

(* undo(), index by index, keeps the invariant. *)
LEMMA UndoKeeps == ASSUME IInv, undo PROVE IInv'
<1> USE Constants
<1>1. /\ TypeOK /\ LibBehind /\ pc = "undo" /\ UNCHANGED <<lib, logs, crashes>>
      /\ i \in Indexes /\ i \in Nat
  BY DEF IInv, undo, TypeOK
<1>2. IF i < NIndexes THEN i' = i + 1 /\ pc' = "undo" ELSE i' = 1 /\ pc' = "serving"
  BY <1>1 DEF undo, Loop
<1>3. PICK b \in Heights : Phase(b)
  BY <1>1 DEF IInv, Working
<1>4. PICK r \in Heights : /\ b < r
                          /\ \A j \in Indexes : IF j < i THEN rev[j] = r - 1 /\ height[j] = r - 1
                                                ELSE rev[j] = r
  BY <1>1, <1>3 DEF Phase
<1>5. /\ log <= b /\ \A j \in Indexes : Undoable(j, b)
      /\ r - 1 \in Heights /\ b <= r - 1
  <2>1. r - 1 \in Heights /\ b <= r - 1
    BY <1>4 DEF Heights
  <2>2. QED  BY <1>1, <1>3, <2>1 DEF Phase
<1>6. rev[i] = r /\ saved[i] = From(b, r) /\ saved[i] # <<>>
  <2>1. rev[i] = r /\ saved[i] = From(b, r)
    BY <1>1, <1>4, <1>5 DEF Undoable
  <2>2. QED  BY <1>4, <2>1, FromType
<1>7. /\ height' = [height EXCEPT ![i] = r - 1] /\ rev' = [rev EXCEPT ![i] = r - 1]
      /\ saved' = [saved EXCEPT ![i] = From(b, r - 1)]
  <2>1. saved[i][Len(saved[i])] = r - 1 /\ SubSeq(saved[i], 1, Len(saved[i]) - 1) = From(b, r - 1)
    <3>1. b < r /\ b <= r
      BY <1>4
    <3>2. Len(saved[i]) = r - b /\ saved[i][r - b] = r - 1
      BY <1>6, <3>1, FromType
    <3>3. SubSeq(saved[i], 1, Len(saved[i]) - 1) = From(b, r - 1)
      BY <1>6, <3>1, FromFront
    <3>4. QED  BY <3>2, <3>3
  <2>2. /\ height' = [height EXCEPT ![i] = saved[i][Len(saved[i])]]
        /\ rev' = [rev EXCEPT ![i] = rev[i] - 1]
        /\ saved' = [saved EXCEPT ![i] = SubSeq(saved[i], 1, Len(saved[i]) - 1)]
    BY <1>6 DEF undo
  <2>3. QED  BY <1>6, <2>1, <2>2
<1>8. ASSUME NEW j \in Indexes
      PROVE  /\ Undoable(j, b)'
             /\ IF j <= i THEN rev'[j] = r - 1 /\ height'[j] = r - 1 ELSE rev'[j] = r
  <2>1. CASE j = i
    BY <1>1, <1>5, <1>7, <2>1 DEF Undoable, TypeOK
  <2>2. CASE j # i
    <3>1. saved'[j] = saved[j] /\ rev'[j] = rev[j] /\ height'[j] = height[j]
      BY <1>1, <1>7, <2>2 DEF TypeOK
    <3>2. Undoable(j, b)'
      BY <1>5, <3>1 DEF Undoable
    <3>3. j <= i <=> j < i
      BY <1>1, <2>2 DEF Indexes
    <3>4. IF j < i THEN rev[j] = r - 1 /\ height[j] = r - 1 ELSE rev[j] = r
      BY <1>4
    <3>5. QED  BY <3>1, <3>2, <3>3, <3>4
  <2>3. QED  BY <2>1, <2>2
<1>9. TypeOK' /\ LibBehind'
  <2>1. From(b, r - 1) \in Seq(Heights)
    BY <1>5, FromType
  <2>2. /\ saved' \in [Indexes -> Seq(Heights)] /\ rev' \in [Indexes -> Heights]
        /\ height' \in [Indexes -> Heights]
    BY <1>1, <1>5, <1>7, <2>1 DEF TypeOK
  <2>3. i' \in Indexes /\ pc' \in Startup \cup Working
    BY <1>1, <1>2 DEF Indexes, Working
  <2>4. QED  BY <1>1, <2>2, <2>3 DEF TypeOK, LibBehind, logs
<1>10. Phase(b)'
  <2>1. CASE i < NIndexes
    <3>1. pc' = "undo" /\ i' = i + 1
      BY <1>2, <2>1
    <3>2. \A j \in Indexes : j <= i <=> j < i'
      BY <1>1, <3>1
    <3>3. QED  BY <1>1, <1>4, <1>5, <1>8, <3>1, <3>2 DEF Phase, logs
  <2>2. CASE ~(i < NIndexes)
    <3>1. pc' = "serving" /\ \A j \in Indexes : j <= i
      BY <1>1, <1>2, <2>2
    <3>2. \A j \in Indexes : rev'[j] = r - 1 /\ height'[j] = r - 1
      BY <1>8, <3>1
    <3>3. QED  BY <1>1, <1>5, <1>8, <3>1, <3>2 DEF Phase, logs
  <2>3. QED  BY <2>1, <2>2
<1>11. QED  BY <1>2, <1>9, <1>10, WorkingSuffices DEF Working

(* The only step that moves what an index rests on. *)
LEMMA CommitKeeps == ASSUME IInv, commit PROVE IInv'
<1> USE Constants
<1> DEFINE h == height[1]
           l == lib[h]
<1>1. /\ TypeOK /\ LibBehind /\ pc = "commit" /\ UNCHANGED <<height, rev, lib, logs, crashes>>
      /\ saved' = [saved EXCEPT ![i] = Uncommitted(i, l)]
      /\ i \in Indexes /\ i \in Nat /\ h \in Heights /\ l \in Heights
  BY DEF IInv, commit, TypeOK, head_block_num
<1>2. IF i < NIndexes THEN i' = i + 1 /\ pc' = "commit" ELSE i' = 1 /\ pc' = "block_log"
  BY <1>1 DEF commit, Loop
<1>3. PICK b \in Heights : Phase(b)
  BY <1>1 DEF IInv, Working
<1>4. /\ log <= b /\ b < h
      /\ \A j \in Indexes : /\ height[j] = h /\ rev[j] = h
                            /\ Undoable(j, IF j < i THEN Later(b, l) ELSE b)
  BY <1>1, <1>3 DEF Phase
<1>5. PICK c \in Heights : c = Later(b, l) /\ l < h /\ b <= c /\ l <= c /\ c < h
  <2>1. l = 0 \/ l < h
    BY <1>1 DEF LibBehind
  <2> HIDE DEF l, h
  <2>2. QED  BY <1>1, <1>4, <2>1 DEF Later
<1>6. saved'[i] = From(c, h)
  <2>1. saved[i] = From(b, rev[i]) /\ rev[i] = h
    BY <1>1, <1>4 DEF Undoable
  <2>2. Uncommitted(i, l) = From(c, h)
    BY <1>1, <1>4, <1>5, <2>1, FromCommitted
  <2>3. QED  BY <1>1, <2>2 DEF TypeOK
<1> HIDE DEF l, h
<1>7. ASSUME NEW j \in Indexes
      PROVE  /\ height'[j] = h /\ rev'[j] = h
             /\ IF j <= i THEN Undoable(j, c)' ELSE Undoable(j, b)'
  <2>1. height'[j] = h /\ rev'[j] = h
    BY <1>1, <1>4
  <2>2. CASE j = i
    BY <1>1, <1>4, <1>5, <1>6, <2>1, <2>2 DEF Undoable
  <2>3. CASE j # i
    <3>1. saved'[j] = saved[j]
      BY <1>1, <2>3 DEF TypeOK
    <3>2. j <= i <=> j < i
      BY <1>1, <2>3
    <3>3. height[j] = h /\ rev[j] = h
      BY <1>4
    <3>4. QED  BY <1>4, <1>5, <2>1, <3>1, <3>2, <3>3 DEF Undoable
  <2>4. QED  BY <2>1, <2>2, <2>3
<1>8. TypeOK' /\ LibBehind'
  <2>1. From(c, h) \in Seq(Heights)
    BY <1>1, <1>5, FromType, SMTT(40)
  <2>2. saved' \in [Indexes -> Seq(Heights)]
    BY <1>1, <1>6, <2>1 DEF TypeOK
  <2>3. i' \in Indexes /\ pc' \in Startup \cup Working
    BY <1>1, <1>2 DEF Indexes, Working
  <2>4. QED  BY <1>1, <2>2, <2>3 DEF TypeOK, LibBehind, logs
<1>9. h = height'[1] /\ l = lib'[height'[1]] /\ log' = log
  BY <1>1 DEF h, l, logs
<1>10. CASE i < NIndexes
  <2>1. pc' = "commit" /\ i' = i + 1
    BY <1>2, <1>10
  <2>2. \A j \in Indexes : j <= i <=> j < i'
    BY <1>1, <2>1
  <2>3. Phase(b)'
    BY <1>4, <1>5, <1>7, <1>9, <2>1, <2>2 DEF Phase
  <2>4. QED  BY <1>8, <2>1, <2>3, WorkingSuffices DEF Working
<1>11. CASE ~(i < NIndexes)
  <2>1. pc' = "block_log" /\ \A j \in Indexes : j <= i
    BY <1>1, <1>2, <1>11
  <2>2. log' <= c
    BY <1>1, <1>4, <1>5, <1>9 DEF TypeOK
  <2>3. Phase(c)'
    BY <1>5, <1>7, <1>9, <2>1, <2>2 DEF Phase
  <2>4. QED  BY <1>5, <1>8, <2>1, <2>3, WorkingSuffices DEF Working
<1>12. QED  BY <1>10, <1>11

(* Writing the blocks that became irreversible: the log stays behind what    *)
(* commit() left to rest on.                                                 *)
LEMMA LogStepsKeep ==
  ASSUME IInv, compare_log \/ append \/ append_done \/ flush_block_log \/ flush_contract_log \/ push
  PROVE  IInv'
<1> USE Constants
<1> DEFINE Logging == {"block_log", "append", "flush", "flush_contract", "applied"}
<1>1. /\ TypeOK /\ LibBehind /\ pc \in Logging /\ UNCHANGED <<state, crashes>>
      /\ pc' \in Logging \cup {"serving", "undo"}
      /\ pc' = "undo" => i' = 1
      /\ i' \in {i, 1}
  BY DEF IInv, compare_log, append, append_done, flush_block_log, flush_contract_log, push, Goto
<1>2. PICK b \in Heights : Phase(b)
  BY <1>1 DEF IInv, Working
<1> DEFINE h == height[1]
<1>3. /\ log <= b /\ b < h /\ lib[h] <= b /\ h \in Heights /\ lib[h] \in Heights
      /\ \A j \in Indexes : Undoable(j, b) /\ height[j] = h /\ rev[j] = h
  BY <1>1, <1>2 DEF Phase, TypeOK
<1>4. log' \in Heights /\ log' <= b /\ flushed' \in 0..log'
  <2>1. CASE append
    <3>1. log < lib[h] /\ log' = log + 1 /\ flushed' = flushed /\ log \in Nat /\ flushed \in 0..log
      BY <1>1, <2>1 DEF append, TypeOK, head_block_num
    <3> HIDE DEF h
    <3>2. QED  BY <1>3, <3>1 DEF Heights
  <2>2. CASE flush_block_log
    BY <1>1, <1>3, <2>2 DEF flush_block_log, TypeOK
  <2>3. CASE compare_log \/ append_done \/ flush_contract_log \/ push
    BY <1>1, <1>3, <2>3 DEF compare_log, append_done, flush_contract_log, push, logs, TypeOK
  <2>4. QED  BY <2>1, <2>2, <2>3
<1>5. clog' \in Heights /\ cflushed' \in 0..clog' /\ contracts' \subseteq Heights
  <2>1. CASE append
    <3>1. \/ UNCHANGED clog
          \/ clog' = log' /\ ContractFits(log')
      BY <2>1 DEF append
    <3>2. contracts' \subseteq Heights /\ cflushed' = cflushed
      BY <1>1, <2>1 DEF append, TypeOK
    <3>3. CASE UNCHANGED clog
      BY <1>1, <3>2, <3>3 DEF TypeOK
    <3>4. CASE clog' = log' /\ ContractFits(log')
      <4>1. log' = log + 1 /\ log \in Nat /\ clog \in Nat /\ cflushed \in 0..clog
        BY <1>1, <2>1 DEF append, TypeOK
      <4>2. clog = 0 \/ clog = log' - 1
        BY <3>4 DEF ContractFits
      <4>3. cflushed \in 0..log'
        BY <4>1, <4>2
      <4>4. QED  BY <1>4, <3>2, <3>4, <4>3
    <3>5. QED  BY <3>1, <3>3, <3>4
  <2>2. CASE flush_contract_log
    BY <1>1, <2>2, SMTT(40) DEF flush_contract_log, TypeOK
  <2>3. CASE compare_log \/ append_done \/ flush_block_log \/ push
    BY <1>1, <2>3 DEF compare_log, append_done, flush_block_log, push, logs, TypeOK
  <2>4. QED  BY <2>1, <2>2, <2>3
<1>6. TypeOK' /\ LibBehind'
  BY <1>1, <1>4, <1>5 DEF TypeOK, LibBehind, state, Working
<1>7. \A j \in Indexes : Undoable(j, b)' /\ height'[j] = h /\ rev'[j] = h
  BY <1>1, <1>3 DEF Undoable, state
<1>8. height'[1] = h /\ lib' = lib
  BY <1>1 DEF state
<1>9. Phase(b)'
  <2>1. CASE pc' \in Logging
    BY <1>3, <1>4, <1>7, <1>8, <2>1 DEF Phase
  <2>2. CASE pc' = "serving"
    BY <1>4, <1>7, <1>8, <2>2 DEF Phase
  <2>3. CASE pc' = "undo"
    <3>1. \A j \in Indexes : ~(j < i')
      BY <1>1, <2>3
    <3>2. QED  BY <1>3, <1>4, <1>7, <2>3, <3>1 DEF Phase
  <2>4. QED  BY <1>1, <2>1, <2>2, <2>3
<1>10. pc' \in Working
  BY <1>1 DEF Working
<1>11. QED  BY <1>6, <1>9, <1>10, WorkingSuffices

-----------------------------------------------------------------------------
(* Stopping, and dying at any point outside the windows of reindex().        *)

(* close() and a crash leave a state that open() can judge, outside the two windows. *)
LEMMA DownKeeps == ASSUME WindowsAvoided, IInv, close \/ crash PROVE IInv'
<1> USE Constants
<1>1. /\ TypeOK /\ LibBehind /\ pc' = "down" /\ i' = 1 /\ UNCHANGED state
      /\ pc \in CrashAt \/ pc = "serving"
      /\ contracts' = {}
  BY DEF IInv, close, crash, Goto, logs
<1>2. /\ log' \in Heights /\ log' <= log /\ flushed' \in 0..log'
      /\ clog' \in Heights /\ cflushed' \in 0..clog' /\ crashes' \in 0..MaxCrashes
  <2>1. /\ log \in Heights /\ flushed \in 0..log /\ clog \in Heights /\ cflushed \in 0..clog
        /\ crashes \in 0..MaxCrashes /\ MaxCrashes \in Nat
    BY <1>1, SizesAssumption DEF TypeOK
  <2>2. CASE close
    BY <2>1, <2>2 DEF close
  <2>3. CASE crash
    <3>1. PICK n \in flushed..log : log' = n /\ flushed' = n
      BY <2>3 DEF crash
    <3>2. PICK m \in cflushed..clog : clog' = m /\ cflushed' = m
      BY <2>3 DEF crash
    <3>3. crashes' = crashes + 1 /\ crashes < MaxCrashes
      BY <2>3 DEF crash
    <3>4. n \in 0..log /\ m \in 0..clog
      BY <2>1, <3>1, <3>2
    <3>5. QED  BY <2>1, <3>1, <3>2, <3>3, <3>4 DEF Heights
  <2>4. QED  BY <2>2, <2>3
<1>3. TypeOK' /\ LibBehind'
  BY <1>1, <1>2 DEF TypeOK, LibBehind, state, Startup
<1>4. Recoverable
  <2>1. pc \in Working \/ pc \in {"undo_all", "check", "wipe", "replay"}
    BY <1>1, CrashAtAssumption DEF WindowsAvoided, Startup, Working
  <2>2. CASE pc \in Working
    BY <1>1, <2>2, WorkRecoverable DEF IInv, Recoverable
  <2>3. CASE pc \in {"undo_all", "check", "wipe"}
    BY <2>3 DEF IInv
  <2>4. CASE pc = "replay"
    BY <1>1, <2>4, ReplayRecoverable DEF IInv, Recoverable, TypeOK
  <2>5. QED  BY <2>1, <2>2, <2>3, <2>4
<1>5. Recoverable'
  <2>1. CASE Replayed
    BY <1>1, <2>1 DEF Recoverable, Replayed, state
  <2>2. CASE Torn
    <3>1. \A j \in Indexes : Base(j) \in Heights /\ Base(j)' = Base(j) /\ Undoable(j, Base(j))'
      <4>1. ASSUME NEW j \in Indexes
            PROVE  Base(j) \in Heights /\ Base(j)' = Base(j) /\ Undoable(j, Base(j))'
        <5>1. Undoable(j, Base(j))
          BY <2>2 DEF Torn
        <5>2. Base(j)' = Base(j)
          BY <1>1 DEF Base, state
        <5>3. Base(j) \in Heights
          <6>1. height[j] \in Heights /\ saved[j] \in Seq(Heights)
            BY <1>1 DEF TypeOK
          <6>2. QED  BY <6>1 DEF Base
        <5>4. QED  BY <1>1, <5>1, <5>2, <5>3 DEF Undoable, state
      <4>2. QED  BY <4>1
    <3>2. \A j \in Indexes : log' <= Base(j)'
      <4>1. ASSUME NEW j \in Indexes PROVE log' <= Base(j)'
        <5>1. log <= Base(j) /\ Base(j) \in Nat /\ Base(j)' = Base(j)
          BY <2>2, <3>1 DEF Torn
        <5>2. log \in Nat
          BY <1>1 DEF TypeOK
        <5>3. QED  BY <1>2, <5>1, <5>2
      <4>2. QED  BY <4>1
    <3>3. log' < Base(1)' \/ \A j \in Indexes : Base(j)' = Base(1)'
      <4>1. CASE log < Base(1)
        <5>1. Base(1) \in Nat /\ Base(1)' = Base(1) /\ log \in Nat
          BY <1>1, <3>1 DEF TypeOK
        <5>2. QED  BY <1>2, <4>1, <5>1
      <4>2. CASE \A j \in Indexes : Base(j) = Base(1)
        BY <3>1, <4>2
      <4>3. QED  BY <2>2, <4>1, <4>2 DEF Torn
    <3>4. QED  BY <3>1, <3>2, <3>3 DEF Torn, Recoverable
  <2>3. QED  BY <1>4, <2>1, <2>2 DEF Recoverable
<1>6. QED  BY <1>1, <1>3, <1>5 DEF IInv, Working

-----------------------------------------------------------------------------
(* Starting.                                                                 *)

(* What an index rests on is a height. *)
LEMMA BaseType ==
  ASSUME TypeOK, NEW j \in Indexes
  PROVE  Base(j) \in Heights /\ Base(j) \in Nat
<1>1. height[j] \in Heights /\ saved[j] \in Seq(Heights)
  BY DEF TypeOK
<1>2. QED  BY <1>1, Constants DEF Base

(* open() of what is on disk keeps the invariant. *)
LEMMA OpenKeeps == ASSUME IInv, open PROVE IInv'
<1> USE Constants
<1>1. /\ TypeOK /\ LibBehind /\ Recoverable /\ pc' = "undo_all" /\ i' = 1
      /\ UNCHANGED <<state, logs, crashes>>
  BY DEF IInv, open, Goto
<1>2. TypeOK' /\ LibBehind'
  BY <1>1 DEF TypeOK, LibBehind, state, logs, Startup
<1>3. Recoverable'
  BY <1>1 DEF Recoverable, Replayed, Torn, Undoable, Base, state, logs
<1>4. \A j \in Indexes : ~(j < i')
  BY <1>1
<1>5. QED  BY <1>1, <1>2, <1>3, <1>4 DEF IInv, Working

(* Undoing everything leaves an index with what it rests on. *)
LEMMA UndoAllKeeps == ASSUME IInv, undo_all PROVE IInv'
<1> USE Constants
<1>1. /\ TypeOK /\ LibBehind /\ Recoverable /\ pc = "undo_all" /\ UNCHANGED <<lib, logs, crashes>>
      /\ i \in Indexes /\ i \in Nat /\ \A j \in Indexes : j < i => saved[j] = <<>>
  BY DEF IInv, undo_all, TypeOK
<1>2. IF i < NIndexes THEN i' = i + 1 /\ pc' = "undo_all" ELSE i' = 1 /\ pc' = "check"
  BY <1>1 DEF undo_all, Loop
<1>3. saved[i] = <<>> => UNCHANGED <<height, saved, rev>>
  BY DEF undo_all
<1>4. saved[i] # <<>> =>
        /\ Torn /\ height' = [height EXCEPT ![i] = Base(i)] /\ rev' = [rev EXCEPT ![i] = Base(i)]
        /\ saved' = [saved EXCEPT ![i] = <<>>]
  <2> SUFFICES ASSUME saved[i] # <<>>
               PROVE  /\ Torn /\ height' = [height EXCEPT ![i] = Base(i)]
                      /\ rev' = [rev EXCEPT ![i] = Base(i)] /\ saved' = [saved EXCEPT ![i] = <<>>]
    OBVIOUS
  <2>1. Torn
    BY <1>1 DEF Recoverable, Replayed
  <2>2. Base(i) = saved[i][1] /\ saved[i] = From(Base(i), rev[i]) /\ Base(i) <= rev[i]
    BY <1>1, <2>1 DEF Torn, Undoable, Base
  <2>3. Base(i) \in Heights /\ rev[i] \in Heights
    BY <1>1, BaseType DEF TypeOK
  <2>4. Len(saved[i]) = rev[i] - Base(i)
    BY <2>2, <2>3, FromType
  <2>5. rev[i] - Len(saved[i]) = Base(i)
    BY <2>3, <2>4
  <2>6. /\ height' = [height EXCEPT ![i] = saved[i][1]]
        /\ rev' = [rev EXCEPT ![i] = rev[i] - Len(saved[i])]
        /\ saved' = [saved EXCEPT ![i] = <<>>]
    BY DEF undo_all
  <2>7. QED  BY <2>1, <2>2, <2>5, <2>6
<1>5. \A j \in Indexes : j <= i => saved'[j] = <<>>
  <2>1. ASSUME NEW j \in Indexes, j <= i PROVE saved'[j] = <<>>
    <3>1. CASE j = i
      BY <1>1, <1>3, <1>4, <3>1 DEF TypeOK
    <3>2. CASE j # i
      <4>1. j < i
        BY <1>1, <2>1, <3>2
      <4>2. QED  BY <1>1, <1>3, <1>4, <4>1 DEF TypeOK
    <3>3. QED  BY <3>1, <3>2
  <2>2. QED  BY <2>1
<1>6. TypeOK' /\ LibBehind'
  <2>1. Base(i) \in Heights /\ <<>> \in Seq(Heights)
    BY <1>1, BaseType
  <2>2. /\ saved' \in [Indexes -> Seq(Heights)] /\ rev' \in [Indexes -> Heights]
        /\ height' \in [Indexes -> Heights]
    <3>1. CASE saved[i] = <<>>  BY <1>1, <1>3, <3>1 DEF TypeOK
    <3>2. CASE saved[i] # <<>>
      <4>1. saved' \in [Indexes -> Seq(Heights)]
        BY <1>1, <1>4, <2>1, <3>2 DEF TypeOK
      <4>2. rev' = [rev EXCEPT ![i] = Base(i)] /\ height' = [height EXCEPT ![i] = Base(i)]
        BY <1>4, <3>2
      <4>3. rev' \in [Indexes -> Heights] /\ height' \in [Indexes -> Heights]
        <5>1. rev \in [Indexes -> Heights] /\ height \in [Indexes -> Heights]
          BY <1>1 DEF TypeOK
        <5>2. QED  BY <2>1, <4>2, <5>1
      <4>4. QED  BY <4>1, <4>3
    <3>3. QED  BY <3>1, <3>2
  <2>3. i' \in Indexes /\ pc' \in Startup \cup Working
    BY <1>1, <1>2 DEF Indexes, Startup
  <2>4. QED  BY <1>1, <2>2, <2>3 DEF TypeOK, LibBehind, logs
<1>7. Recoverable'
  <2>1. CASE saved[i] = <<>>
    BY <1>1, <1>3, <2>1 DEF Recoverable, Replayed, Torn, Undoable, Base, logs
  <2>2. CASE saved[i] # <<>>
    <3>1. ASSUME NEW j \in Indexes PROVE Base(j)' = Base(j) /\ Undoable(j, Base(j))'
      <4>1. CASE j = i
        <5>1. height'[j] = Base(j) /\ rev'[j] = Base(j) /\ saved'[j] = <<>>
          BY <1>1, <1>4, <2>2, <4>1 DEF TypeOK
        <5>2. Base(j) \in Heights /\ Base(j) \in Nat
          BY <1>1, BaseType
        <5>3. From(Base(j), Base(j)) = <<>>
          BY <5>2, FromType
        <5>4. Base(j)' = Base(j)
          BY <5>1 DEF Base
        <5>5. QED  BY <5>1, <5>2, <5>3, <5>4 DEF Undoable
      <4>2. CASE j # i
        <5>1. height'[j] = height[j] /\ rev'[j] = rev[j] /\ saved'[j] = saved[j]
          BY <1>1, <1>4, <2>2, <4>2 DEF TypeOK
        <5>2. Base(j)' = Base(j)
          BY <5>1 DEF Base
        <5>3. Undoable(j, Base(j))
          BY <1>4, <2>2 DEF Torn
        <5>4. QED  BY <5>1, <5>2, <5>3 DEF Undoable
      <4>3. QED  BY <4>1, <4>2
    <3>2. log' = log
      BY <1>1 DEF logs
    <3>3. Torn'
      BY <1>4, <2>2, <3>1, <3>2 DEF Torn
    <3>4. QED  BY <3>3 DEF Recoverable
  <2>3. QED  BY <2>1, <2>2
<1>8. CASE i < NIndexes
  <2>1. pc' = "undo_all" /\ i' = i + 1
    BY <1>2, <1>8
  <2>2. \A j \in Indexes : j < i' => j <= i
    BY <1>1, <2>1
  <2>3. QED  BY <1>5, <1>6, <1>7, <2>1, <2>2 DEF IInv, Working
<1>9. CASE ~(i < NIndexes)
  <2>1. pc' = "check" /\ \A j \in Indexes : j <= i
    BY <1>1, <1>2, <1>9
  <2>2. QED  BY <1>5, <1>6, <1>7, <2>1 DEF IInv, Working
<1>10. QED  BY <1>8, <1>9

(* The comparison of the head number with the block log finds every torn     *)
(* state: what is served is whole and its log has been committed.            *)
LEMMA CheckKeeps == ASSUME IInv, check PROVE IInv'
<1> USE Constants
<1>1. /\ TypeOK /\ LibBehind /\ Recoverable /\ \A j \in Indexes : saved[j] = <<>>
      /\ i' = 1 /\ UNCHANGED <<state, logs, crashes>>
  BY DEF IInv, check, Goto
<1> DEFINE h == height[1]
<1>2. pc' = IF rev[1] = h /\ (h # 0 => h <= log) THEN "serving" ELSE "wipe"
  BY DEF check, Goto, revision, head_block_num
<1>3. TypeOK' /\ LibBehind'
  BY <1>1, <1>2 DEF TypeOK, LibBehind, state, logs, Startup, Working
<1>4. CASE pc' = "wipe"
  <2>1. Recoverable'
    BY <1>1 DEF Recoverable, Replayed, Torn, Undoable, Base, state, logs
  <2>2. QED  BY <1>3, <1>4, <2>1 DEF IInv, Working
<1>5. CASE pc' = "serving"
  <2>1. rev[1] = h /\ (h # 0 => h <= log) /\ h \in Heights /\ log \in Nat
    BY <1>1, <1>2, <1>5 DEF TypeOK
  <2>2. Torn /\ \A j \in Indexes : Base(j) = height[j]
    BY <1>1, <2>1 DEF Recoverable, Replayed, Base
  <2>3. ~(log < Base(1)) /\ log <= h
    <3>1. Base(1) = h /\ h \in Nat /\ log <= h
      BY <2>1, <2>2 DEF Torn
    <3>2. QED  BY <2>1, <3>1
  <2>4. ASSUME NEW j \in Indexes PROVE height[j] = h /\ rev[j] = h /\ Undoable(j, h)
    <3>1. height[j] = h /\ Undoable(j, h)
      BY <2>2, <2>3 DEF Torn
    <3>2. rev[j] \in Heights /\ h <= rev[j] /\ From(h, rev[j]) = <<>>
      BY <1>1, <3>1 DEF Undoable, TypeOK
    <3>3. ~(h < rev[j])
      BY <2>1, <3>2, FromType
    <3>4. QED  BY <2>1, <3>1, <3>2, <3>3
  <2>5. PICK b \in Heights : b = h
    BY <2>1
  <2>6. Phase(b)'
    <3>1. \A j \in Indexes : height'[j] = b /\ rev'[j] = b /\ Undoable(j, b)'
      BY <1>1, <2>4, <2>5 DEF Undoable, state
    <3>2. log' <= b
      BY <1>1, <2>3, <2>5 DEF logs
    <3>3. QED  BY <1>5, <3>1, <3>2 DEF Phase
  <2>7. QED  BY <1>3, <1>5, <2>6, WorkingSuffices DEF Working
<1>6. QED  BY <1>2, <1>4, <1>5

(* wipe() keeps the invariant. *)
LEMMA WipeKeeps == ASSUME IInv, wipe PROVE IInv'
<1> USE Constants
<1>1. /\ TypeOK /\ pc' = "wiped" /\ i' = 1 /\ UNCHANGED <<log, clog, contracts, crashes>>
      /\ flushed' = log /\ cflushed' = clog
      /\ height' = [j \in Indexes |-> 0] /\ saved' = [j \in Indexes |-> <<>>]
      /\ rev' = [j \in Indexes |-> 0] /\ lib' = [h \in Heights |-> 0]
  BY DEF IInv, wipe, Goto
<1>2. TypeOK'
  <2>1. <<>> \in Seq(Heights)
    OBVIOUS
  <2>2. saved' \in [Indexes -> Seq(Heights)]
    BY <1>1, <2>1
  <2>3. QED  BY <1>1, <2>2 DEF TypeOK, Startup
<1>3. LibBehind'
  BY <1>1 DEF LibBehind
<1>4. Replaying' /\ height'[1] = 0
  <2>1. \A j \in Indexes : ~(j > NIndexes + 1 - i')
    BY <1>1
  <2>2. QED  BY <1>1, <2>1 DEF Replaying
<1>5. QED  BY <1>1, <1>2, <1>3, <1>4 DEF IInv, Working

(* With an empty block log the start ends and leaves the genesis state of wipe() and open(). *)
LEMMA ResyncKeeps == ASSUME IInv, resync_throws PROVE IInv'
<1> USE Constants
<1>1. /\ TypeOK /\ LibBehind /\ Replaying /\ height[1] = 0 /\ log = 0 /\ i \in Nat /\ i >= 1
      /\ pc' = "down" /\ i' = 1 /\ contracts' = {}
      /\ UNCHANGED <<state, log, flushed, clog, cflushed, crashes>>
  BY DEF IInv, resync_throws, Goto, TypeOK
<1>2. TypeOK' /\ LibBehind'
  BY <1>1 DEF TypeOK, LibBehind, state, Startup
<1>3. i = 1
  BY <1>1 DEF Replaying
<1>4. \A j \in Indexes : height[j] = 0 /\ rev[j] = 0 /\ saved[j] = <<>>
  BY <1>1, <1>3 DEF Replaying
<1>5. \A j \in Indexes : height'[j] = 0 /\ rev'[j] = 0 /\ Undoable(j, 0)'
  BY <1>1, <1>4, FromType DEF Undoable, state
<1>6. \A j \in Indexes : Base(j)' = 0
  BY <1>1, <1>4 DEF Base, state
<1>7. Torn'
  BY <1>1, <1>5, <1>6 DEF Torn
<1>8. QED  BY <1>1, <1>2, <1>7 DEF IInv, Recoverable, Working

(* A block replayed, index by index, keeps the invariant. *)
LEMMA ReplayKeeps == ASSUME IInv, replay_block PROVE IInv'
<1> USE Constants
<1> DEFINE h == height[1]
           k == NIndexes + 1 - i
<1>1. /\ TypeOK /\ LibBehind /\ pc \in {"wiped", "replay"} /\ Replaying /\ h < log
      /\ height' = [height EXCEPT ![k] = h + 1] /\ contracts' = contracts \cup {h + 1}
      /\ UNCHANGED <<saved, rev, log, flushed, clog, cflushed, crashes>>
      /\ i \in Indexes /\ i \in Nat
      /\ pc = "wiped" => h = 0
      /\ pc = "replay" => h > 0
  BY DEF IInv, replay_block, head_block_num, TypeOK
<1>2. IF i < NIndexes THEN i' = i + 1 /\ pc' = pc ELSE i' = 1 /\ pc' = "replay"
  BY DEF replay_block, Loop
<1>3. h \in Heights /\ h + 1 \in Heights /\ k \in Indexes /\ k \in Nat /\ log \in Nat
  <2>1. h \in Heights /\ log \in Heights
    BY <1>1 DEF TypeOK
  <2>2. k \in Indexes
    BY <1>1 DEF Indexes
  <2> HIDE DEF h, k
  <2>3. QED  BY <1>1, <2>1, <2>2 DEF Heights
<1>4. lib' \in [Heights -> Heights] /\ LibBehind'
  <2>1. CASE k = 1
    <3>1. PICK l \in IrreversibleAt(h + 1, lib[h]) : lib' = [lib EXCEPT ![h + 1] = l]
      BY <2>1 DEF replay_block, head_block_num
    <3>2. lib[h] \in Heights /\ (lib[h] = 0 \/ lib[h] < h)
      BY <1>1, <1>3 DEF TypeOK, LibBehind
    <3> HIDE DEF h
    <3>3. l = lib[h] \/ l \in lib[h]..((h + 1) - LibLag)
      BY <3>1 DEF IrreversibleAt
    <3>4. l \in Heights /\ l < h + 1
      BY <1>3, <3>2, <3>3 DEF Heights
    <3>5. QED  BY <1>1, <1>3, <3>1, <3>4 DEF TypeOK, LibBehind
  <2>2. CASE k # 1
    <3>1. lib' = lib
      BY <2>2 DEF replay_block
    <3>2. QED  BY <1>1, <3>1 DEF TypeOK, LibBehind
  <2>3. QED  BY <2>1, <2>2
<1>5. TypeOK'
  <2>1. height' \in [Indexes -> Heights]
    BY <1>1, <1>3 DEF TypeOK
  <2>2. i' \in Indexes /\ pc' \in Startup \cup Working
    BY <1>1, <1>2 DEF Indexes, Startup
  <2>3. QED  BY <1>1, <1>3, <1>4, <2>1, <2>2 DEF TypeOK
<1>6. ASSUME NEW j \in Indexes
      PROVE  /\ saved'[j] = <<>> /\ rev'[j] = 0
             /\ height'[j] = IF j >= k THEN h + 1 ELSE h
  <2>1. saved'[j] = <<>> /\ rev'[j] = 0 /\ height[j] = IF j > k THEN h + 1 ELSE h
    BY <1>1 DEF Replaying
  <2>2. height'[j] = IF j = k THEN h + 1 ELSE height[j]
    BY <1>1 DEF TypeOK
  <2> HIDE DEF h, k
  <2>3. j = k \/ (j > k /\ j >= k) \/ (~(j > k) /\ ~(j >= k) /\ j # k)
    BY <1>3
  <2>4. QED  BY <1>3, <2>1, <2>2, <2>3
<1>7. CASE i < NIndexes
  <2>1. i' = i + 1 /\ pc' = pc /\ k > 1
    BY <1>1, <1>2, <1>7
  <2>2. height'[1] = h
    BY <1>3, <1>6, <2>1
  <2>3. \A j \in Indexes : j >= k <=> j > NIndexes + 1 - i'
    BY <1>1, <2>1
  <2>4. Replaying'
    BY <1>1, <1>6, <2>2, <2>3 DEF Replaying
  <2>5. QED  BY <1>1, <1>4, <1>5, <2>1, <2>2, <2>4 DEF IInv, Working
<1>8. CASE ~(i < NIndexes)
  <2>1. i' = 1 /\ pc' = "replay" /\ k = 1
    BY <1>1, <1>2, <1>8
  <2>2. \A j \in Indexes : height'[j] = h + 1 /\ ~(j > NIndexes + 1 - i')
    BY <1>6, <2>1
  <2>3. Replaying' /\ height'[1] > 0
    BY <1>3, <1>6, <2>1, <2>2 DEF Replaying
  <2>4. QED  BY <1>4, <1>5, <2>1, <2>3 DEF IInv, Working
<1>9. QED  BY <1>7, <1>8

(* The end of a replay keeps the invariant. *)
LEMMA ReplayDoneKeeps == ASSUME IInv, replay_done PROVE IInv'
<1> USE Constants
<1>1. /\ TypeOK /\ LibBehind /\ Replaying /\ height[1] = log /\ i = 1
      /\ pc' = "set_revision" /\ i' = 1 /\ UNCHANGED <<state, logs, crashes>>
  BY DEF IInv, replay_done, Goto, head_block_num
<1>2. TypeOK' /\ LibBehind'
  BY <1>1 DEF TypeOK, LibBehind, state, logs, Startup
<1>3. \A j \in Indexes : height'[j] = log' /\ saved'[j] = <<>> /\ ~(j < i')
  BY <1>1 DEF Replaying, state, logs
<1>4. QED  BY <1>1, <1>2, <1>3 DEF IInv, Working

(* set_revision(), index by index, keeps the invariant. *)
LEMMA SetRevisionKeeps == ASSUME IInv, set_revision PROVE IInv'
<1> USE Constants
<1>1. /\ TypeOK /\ LibBehind /\ pc = "set_revision"
      /\ UNCHANGED <<height, saved, lib, logs, crashes>>
      /\ \A j \in Indexes : /\ height[j] = log /\ saved[j] = <<>>
                            /\ j < i => rev[j] = log
      /\ rev' = [rev EXCEPT ![i] = height[1]]
      /\ i \in Indexes /\ i \in Nat
  BY DEF IInv, set_revision, head_block_num, TypeOK
<1>2. IF i < NIndexes THEN i' = i + 1 /\ pc' = "set_revision" ELSE i' = 1 /\ pc' = "serving"
  BY <1>1 DEF set_revision, Loop
<1>3. PICK b \in Heights : b = log
  BY <1>1 DEF TypeOK
<1>4. \A j \in Indexes : height'[j] = b /\ saved'[j] = <<>> /\ (j <= i => rev'[j] = b)
  <2>1. \A j \in Indexes : height'[j] = b /\ saved'[j] = <<>>
    BY <1>1, <1>3
  <2>2. ASSUME NEW j \in Indexes, j <= i PROVE rev'[j] = b
    <3>1. CASE j = i
      BY <1>1, <1>3, <3>1 DEF TypeOK
    <3>2. CASE j # i
      <4>1. j < i
        BY <1>1, <2>2, <3>2
      <4>2. QED  BY <1>1, <1>3, <4>1 DEF TypeOK
    <3>3. QED  BY <3>1, <3>2
  <2>3. QED  BY <2>1, <2>2
<1>5. TypeOK' /\ LibBehind' /\ log' = b
  <2>1. rev' \in [Indexes -> Heights]
    BY <1>1, <1>3 DEF TypeOK
  <2>2. i' \in Indexes /\ pc' \in Startup \cup Working
    BY <1>1, <1>2 DEF Indexes, Startup, Working
  <2>3. QED  BY <1>1, <1>3, <2>1, <2>2 DEF TypeOK, LibBehind, logs
<1>6. CASE i < NIndexes
  <2>1. pc' = "set_revision" /\ i' = i + 1
    BY <1>2, <1>6
  <2>2. \A j \in Indexes : j < i' => j <= i
    BY <1>1, <2>1
  <2>3. QED  BY <1>4, <1>5, <2>1, <2>2 DEF IInv, Working
<1>7. CASE ~(i < NIndexes)
  <2>1. pc' = "serving" /\ \A j \in Indexes : j <= i
    BY <1>1, <1>2, <1>7
  <2>2. \A j \in Indexes : height'[j] = b /\ rev'[j] = b /\ Undoable(j, b)'
    BY <1>4, <2>1, FromType DEF Undoable
  <2>3. Phase(b)'
    BY <1>5, <2>1, <2>2 DEF Phase
  <2>4. QED  BY <1>5, <2>1, <2>3, WorkingSuffices DEF Working
<1>8. QED  BY <1>6, <1>7

-----------------------------------------------------------------------------
(* A stuttering step keeps the invariant. *)
LEMMA StutterKeeps == ASSUME IInv, UNCHANGED vars PROVE IInv'
BY DEF IInv, TypeOK, LibBehind, Phase, Undoable, Recoverable, Replayed, Torn, Base, Replaying, vars

(* Every step keeps the invariant, as long as no crash falls in the two windows. *)
LEMMA StepKeeps == ASSUME WindowsAvoided PROVE IInv /\ [Next]_vars => IInv'
<1> SUFFICES ASSUME IInv, [Next]_vars PROVE IInv'
  OBVIOUS
<1>1. CASE Work
  BY <1>1, PushBlockKeeps, StartSessionKeeps, ApplyKeeps, ToUndoKeeps, CommitKeeps, LogStepsKeep,
     UndoKeeps DEF Work
<1>2. CASE Start
  BY <1>2, OpenKeeps, UndoAllKeeps, CheckKeeps, WipeKeeps, ResyncKeeps, ReplayKeeps,
     ReplayDoneKeeps, SetRevisionKeeps DEF Start
<1>3. CASE close \/ crash  BY <1>3, DownKeeps
<1>4. CASE UNCHANGED vars  BY <1>4, StutterKeeps
<1>5. QED  BY <1>1, <1>2, <1>3, <1>4 DEF Next

(* For every number of indexes, blocks and crashes outside the two windows   *)
(* of reindex(): a node that serves has all indexes at one block, with one   *)
(* undo stack and the head number as revision, whatever open() found.        *)
THEOREM StateAlwaysSound == ASSUME WindowsAvoided PROVE Spec => []StateSound
<1>1. IInv => StateSound
  <2> SUFFICES ASSUME IInv PROVE ServedStateWhole
    BY DEF IInv, StateSound
  <2> SUFFICES ASSUME pc = "serving", NEW j \in Indexes
               PROVE  height[j] = height[1] /\ saved[j] = saved[1] /\ rev[j] = height[1]
    BY DEF ServedStateWhole, head_block_num
  <2>1. PICK b \in Heights : Phase(b)
    BY DEF IInv, Working
  <2>2. QED  BY <2>1, Constants DEF Phase, Undoable
<1>2. QED  BY InitHolds, StepKeeps, <1>1, PTL DEF Spec

(* Under the same assumption nothing that is in the block log can be undone  *)
(* in a served state: what commit() forgot is always ahead of the log.       *)
THEOREM LoggedAlwaysCommitted == ASSUME WindowsAvoided PROVE Spec => []LoggedIsCommitted
<1>1. IInv => LoggedIsCommitted
  <2> SUFFICES ASSUME IInv, pc = "serving", NEW j \in Indexes PROVE log <= Base(j)
    BY DEF LoggedIsCommitted
  <2>1. PICK b \in Heights : Phase(b)
    BY DEF IInv, Working
  <2>2. Torn
    BY <2>1, WorkRecoverable DEF IInv, Working
  <2>3. QED  BY <2>2 DEF Torn
<1>2. QED  BY InitHolds, StepKeeps, <1>1, PTL DEF Spec
=============================================================================
