-------------------------- MODULE WitnessSchedule ---------------------------
(***************************************************************************)
(* Whose turn it is: slots, the schedule of a round, virtual time, missed  *)
(* slots, and the votes for a hardfork                                     *)
(* (libraries/chain/witness_schedule.cpp and database.cpp).                *)
(*                                                                         *)
(* Everything here is a function from a chain state, a record, to the next *)
(* one; Production takes the steps.  A witness is its id, which also       *)
(* orders the names.  The virtual time is as wide as LapLength, the        *)
(* largest number it holds.  The shuffle is any permutation.               *)
(***************************************************************************)
EXTENDS Integers, SequencesExt, FiniteSetsExt

CONSTANTS Witness,        \* ids, 1 is the initial one
          MaxWitnesses,   \* GAMEBANK_MAX_WITNESSES
          MaxVoted,       \* GAMEBANK_MAX_VOTED_WITNESSES
          LapLength,      \* GAMEBANK_VIRTUAL_SCHEDULE_LAP_LENGTH2
          Required,       \* GAMEBANK_HARDFORK_REQUIRED_WITNESSES
          Interval,       \* GAMEBANK_BLOCK_INTERVAL
          BlocksPerDay,   \* GAMEBANK_BLOCKS_PER_DAY
          Window,         \* the 128 bits of recent_slots_filled
          BlockSizes,     \* [Witness -> Nat]: props.maximum_block_size
          InitVotes,      \* [Witness -> Nat]: cast before the first block
          HardforkTime    \* _hardfork_times[1]

ASSUME WitnessAssumption ==
  /\ Witness \subseteq Nat /\ 1 \in Witness /\ IsFiniteSet(Witness)
  /\ BlockSizes \in [Witness -> Nat] /\ InitVotes \in [Witness -> Nat]
  /\ {MaxWitnesses, MaxVoted, Interval, Window, Required} \subseteq Nat \ {0}
  /\ LapLength \in Nat /\ BlocksPerDay \in Nat /\ HardforkTime \in Nat
  /\ MaxVoted < MaxWitnesses

-----------------------------------------------------------------------------
(* database.cpp: slots.  The genesis time is a multiple of the interval.     *)
get_slot_time(s, slot) == (s.time \div Interval + slot) * Interval

get_slot_at_time(s, when) ==
  LET first == get_slot_time(s, 1)
  IN  IF when < first THEN 0 ELSE (when - first) \div Interval + 1

get_scheduled_witness(s, slot) == s.sched[((s.aslot + slot) % Len(s.sched)) + 1]

-----------------------------------------------------------------------------
(* Virtual time.                                                             *)
reset_virtual_schedule_time(s) ==
  [s EXCEPT !.vtime = 0,
            !.wit = [w \in Witness |-> [s.wit[w] EXCEPT !.pos = 0, !.last = 0,
                                          !.vsched = LapLength \div (s.wit[w].votes + 1)]]]

(* Mutant: a time that would be past the end is left where it wraps to. *)
adjust_witness_vote_wraps(s, w, delta) ==
  LET pos == s.wit[w].pos + s.wit[w].votes * (s.vtime - s.wit[w].last)
      votes == s.wit[w].votes + delta
      due == s.vtime + (LapLength - pos) \div (votes + 1)
  IN  [s EXCEPT !.wit[w] = [@ EXCEPT !.pos = pos, !.last = s.vtime, !.votes = votes,
                                     !.vsched = due % (LapLength + 1)]]

(* The vote for a witness changes: its position moves up to the current      *)
(* time, and the rest of its lap is run with the new votes.                  *)
adjust_witness_vote(s, w, delta) ==
  LET pos == s.wit[w].pos + s.wit[w].votes * (s.vtime - s.wit[w].last)
      votes == s.wit[w].votes + delta
      due == s.vtime + (LapLength - pos) \div (votes + 1)
  IN  [s EXCEPT !.wit[w] = [@ EXCEPT !.pos = pos, !.last = s.vtime, !.votes = votes,
                                     !.vsched = IF due > LapLength THEN LapLength ELSE due]]

-----------------------------------------------------------------------------
(* update_witness_schedule4()                                                *)
Keyed(s) == {w \in Witness : s.wit[w].key}

(* The orders of the indexes by_vote_name and by_schedule_time. *)
Above(s, a, b) ==
  s.wit[a].votes > s.wit[b].votes \/ (s.wit[a].votes = s.wit[b].votes /\ a < b)
Earlier(s, a, b) ==
  s.wit[a].vsched < s.wit[b].vsched \/ (s.wit[a].vsched = s.wit[b].vsched /\ a < b)

(* The highest voted. *)
Voted(s) ==
  {w \in Keyed(s) : Cardinality({v \in Keyed(s) : Above(s, v, w)}) < MaxVoted}

(* Mutant: the voted run as well. *)
RunnersAll(s) == Keyed(s)

Runners(s) == Keyed(s) \ Voted(s)

(* The runners in the lead, for the places that are left. *)
Leading(s) ==
  LET runners == Runners(s)
  IN  {w \in runners :
         Cardinality({v \in runners : Earlier(s, v, w)}) < MaxWitnesses - Cardinality(Voted(s))}

(* The witnesses the loop goes over until the places are taken. *)
Processed(s) ==
  LET leading == Leading(s)
  IN  IF Cardinality(Voted(s)) + Cardinality(leading) < MaxWitnesses THEN Witness
      ELSE {w \in Witness : \E l \in leading : w = l \/ Earlier(s, w, l)}

Active(s) == SetToSeq(Voted(s)) \o SetToSeq(Leading(s))

(* Everyone advances to the time of the last one processed; when a next time *)
(* does not fit, all start again.                                            *)
Advanced(s) ==
  LET processed == Processed(s)
      now == Max({s.vtime} \cup {s.wit[w].vsched : w \in processed})
      next == [w \in Witness |-> now + LapLength \div (s.wit[w].votes + 1)]
  IN  IF \E w \in processed : next[w] > LapLength
        THEN reset_virtual_schedule_time(s)
        ELSE [s EXCEPT !.vtime = now,
                       !.wit = [w \in Witness |->
                                  IF w \in processed
                                    THEN [s.wit[w] EXCEPT !.pos = 0, !.last = now, !.vsched = next[w]]
                                    ELSE s.wit[w]]]

(* Mutant: one is enough. *)
VotedHardforkAny(s) == {s.wit[s.sched[i]].vote : i \in DOMAIN s.sched} \ {0}

(* The hardfork enough of the witnesses of the round that ends vote for.     *)
VotedHardfork(s) ==
  {h \in {s.wit[w].vote : w \in Witness} :
     Cardinality({i \in DOMAIN s.sched : s.wit[s.sched[i]].vote = h}) >= Required}

NextHardfork(s) ==
  IF VotedHardfork(s) = {} THEN s.applied ELSE Min(VotedHardfork(s))

(* The highest version that enough of them run, or a higher one. *)
MajorityVersion(s) ==
  LET versions == {s.wit[s.sched[i]].version : i \in DOMAIN s.sched}
      enough == {v \in versions :
                   Cardinality({i \in DOMAIN s.sched : s.wit[s.sched[i]].version >= v}) >= Required}
  IN  IF enough = {} THEN s.majority ELSE Max(enough)

(* update_median_witness_props(): the size in the middle of the sorted ones,  *)
(* the least that more than half of the witnesses do not exceed.             *)
MedianSize(sched) ==
  LET size == [i \in DOMAIN sched |-> BlockSizes[sched[i]]]
  IN  Min({n \in Range(size) :
             Cardinality({i \in DOMAIN sched : size[i] <= n}) > Len(sched) \div 2})

Rounds(s) == Len(Active(s)) = Min({MaxWitnesses, Cardinality(Witness)})

(* The schedule is any permutation of the active ones. *)
Shuffled(q) ==
  {[i \in DOMAIN q |-> q[p[i]]] : p \in {f \in [DOMAIN q -> DOMAIN q] : IsInjective(f)}}

update_witness_schedule4(s, sched) ==
  [Advanced(s) EXCEPT !.sched = sched, !.next = NextHardfork(s),
                      !.majority = MajorityVersion(s), !.size = MedianSize(sched)]

-----------------------------------------------------------------------------
(* update_global_dynamic_data() and update_signing_witness()                 *)

(* The witnesses that missed a slot before the block's, but not the one that *)
(* made the block.                                                           *)
MissedSlots(s, b) ==
  {i \in 1..(get_slot_at_time(s, b.time) - 1) : get_scheduled_witness(s, i) # b.witness}

(* Mutant: one slot missed is enough. *)
IdleAny(s, w) == TRUE

(* head_block_num() - last_confirmed_block_num, on unsigned numbers: what is  *)
(* below zero is larger than any number of blocks.                           *)
Idle(s, w) ==
  LET blocks == s.num - s.wit[w].confirmed IN blocks < 0 \/ blocks > BlocksPerDay

Missed(s, b) ==
  [s EXCEPT !.wit = [w \in Witness |->
     IF \E i \in MissedSlots(s, b) : get_scheduled_witness(s, i) = w
       THEN [s.wit[w] EXCEPT !.key = @ /\ ~Idle(s, w)]
       ELSE s.wit[w]]]

(* Mutant: the oldest bits stay. *)
FilledGrows(s, n) ==
  [s EXCEPT !.filled = @ \o <<1>> \o [i \in 1..(n - 1) |-> 0], !.participation = @ + 1]

(* Mutant: the oldest bit is not taken off the count. *)
FilledUncounted(s, n) ==
  LET bits == s.filled \o <<1>> \o [i \in 1..(n - 1) |-> 0]
  IN  [s EXCEPT !.filled = SubSeq(bits, n + 1, Len(bits)), !.participation = @ + 1]

(* recent_slots_filled moves by n slots, the first one filled. *)
Filled(s, n) ==
  LET bits == s.filled \o <<1>> \o [i \in 1..(n - 1) |-> 0]
      Ones(q) == Cardinality({i \in DOMAIN q : q[i] = 1})
  IN  [s EXCEPT !.filled = SubSeq(bits, n + 1, Len(bits)),
                !.participation = @ + 1 - Ones(SubSeq(bits, 1, n))]

update_global_dynamic_data(s, b) ==
  LET n == get_slot_at_time(s, b.time)
  IN  [Filled(Missed(s, b), n) EXCEPT !.num = @ + 1, !.time = b.time, !.aslot = @ + n]

update_signing_witness(s, w) ==
  [s EXCEPT !.wit[w].confirmed = IF @ > s.num THEN @ ELSE s.num]

-----------------------------------------------------------------------------
(* The extensions _generate_block() writes, of a producer whose binary knows *)
(* the hardforks up to b.version, as process_header_extensions() reads them. *)
process_header_extensions(s, b) ==
  [s EXCEPT !.wit[b.witness].version = b.version,
            !.wit[b.witness].vote = IF s.applied < b.version THEN b.version
                                    ELSE IF s.applied = b.version /\ @ > b.version THEN b.version
                                    ELSE @]

(* The binary knows the hardfork: unknown_hardfork_exception is not here. *)
process_hardforks(s) ==
  IF s.applied < s.next /\ HardforkTime <= s.time THEN [s EXCEPT !.applied = s.next] ELSE s
=============================================================================
