----------------------------- MODULE Production -----------------------------
(***************************************************************************)
(* Blocks on their schedule, and the thread of the witness plugin that     *)
(* produces them (libraries/plugins/witness/witness_plugin.cpp).           *)
(*                                                                         *)
(* maybe_produce_block() takes no lock: between its reads the write thread *)
(* applies blocks and switches forks.  The clock counts half seconds: the  *)
(* timer fires at a whole second or later, and the call rounds to the      *)
(* nearest one.  A block that is refused leaves the state alone and is no  *)
(* step, unless this node made it.  total_missed, last_aslot and           *)
(* next_shuffle_block_num are only reported, and left out.                 *)
(***************************************************************************)
EXTENDS WitnessSchedule

CONSTANTS Mine,           \* _witnesses, with their private keys
          Version,        \* [Witness -> {0, 1}]: the hardforks their binaries know
          Participation,  \* _required_witness_participation, in percent
          Swings,         \* bound: [witness, delta] of the votes that are moved
          Resigning,      \* bound: the witnesses that set a null signing key
          Late,           \* bound: the witnesses whose blocks may be between two slot times
          MaxBlocks,      \* bound: blocks of others
          MaxSlots,       \* bound: slots from one block to the next
          MaxTime,        \* bound: seconds
          Skew,           \* bound: seconds a head may be ahead of the last call of this node
          MaxEvents,      \* bound: operations, fork switches, early confirm messages together
          Orderly         \* bound: a confirm message that comes early is followed by its block

ASSUME ProductionAssumption ==
  /\ Mine \subseteq Witness /\ Version \in [Witness -> {0, 1}]
  /\ Swings \subseteq [w : Witness, n : Int] /\ Resigning \subseteq Witness
  /\ {MaxBlocks, MaxSlots, MaxTime, Skew, MaxEvents} \subseteq Nat /\ Orderly \in BOOLEAN

VARIABLES st,             \* the chain state at the head
          base,           \* the state before the head block
          node,           \* the locals of maybe_produce_block(), and _production_enabled
          signed,         \* the blocks this node has signed: for which time, when, and
                          \* whether it was refused or a fork switch has come since
          refused,        \* the assertions that refused one of them
          announced,      \* the last confirm message that came before its block, or NoBlock
          events          \* bound: the events so far

chainVars == <<st, base, announced, events>>
nodeVars == <<node, signed, refused>>
vars == <<chainVars, nodeVars>>

NoOp == [kind |-> "none", w |-> 1, n |-> 0]
Ops == {NoOp} \cup {[kind |-> "vote", w |-> x.w, n |-> x.n] : x \in Swings}
              \cup {[kind |-> "resign", w |-> w, n |-> 0] : w \in Resigning}
NoBlock == [time |-> 0, witness |-> 1, version |-> 0, op |-> NoOp]

WitnessState == [votes : Nat, key : BOOLEAN, pos : Nat, last : Nat, vsched : Nat,
                 confirmed : Nat, version : {0, 1}, vote : {0, 1}]

TypeOK ==
  /\ st.wit \in [Witness -> WitnessState] /\ st.sched \in Seq(Witness)
  /\ {st.num, st.time, st.aslot, st.vtime, st.participation, st.size} \subseteq Nat
  /\ Len(st.filled) = Window /\ {st.applied, st.next, st.majority} \subseteq {0, 1}
  /\ node.pc \in {"sleep", "slot", "assert", "witness", "time", "key", "rate", "queued", "aborted"}
  /\ signed \in Seq([time : Nat, at : Nat, gone : BOOLEAN])
  /\ refused \subseteq {"header", "version", "schedule"}

GenesisState ==
  [num |-> 0, time |-> 0, aslot |-> 0, sched |-> <<1>>, vtime |-> 0,
   filled |-> [i \in 1..Window |-> 1], participation |-> Window,
   applied |-> 0, next |-> 0, majority |-> 0, size |-> 0,
   wit |-> [w \in Witness |->
              [votes |-> InitVotes[w], key |-> TRUE, pos |-> 0, last |-> 0,
               vsched |-> LapLength \div (InitVotes[w] + 1),
               confirmed |-> 0, version |-> 0, vote |-> 0]]]

Init ==
  /\ st = GenesisState /\ base = GenesisState
  /\ node = [fine |-> 0, enabled |-> FALSE, pc |-> "sleep", slot |-> 0, witness |-> 1, time |-> 0]
  /\ signed = <<>> /\ refused = {} /\ announced = NoBlock
  /\ events = 0

-----------------------------------------------------------------------------
(* _apply_block()                                                            *)
validate_block_header(s, b) ==
  /\ s.time < b.time
  /\ s.wit[b.witness].key
  /\ get_slot_at_time(s, b.time) > 0
  /\ get_scheduled_witness(s, get_slot_at_time(s, b.time)) = b.witness

(* The operation in the block: a vote moves, a witness_update without a key. *)
(* One that changes the key for another, or the properties, is left out.     *)
Evaluated(s, op) ==
  CASE op.kind = "vote" -> adjust_witness_vote(s, op.w, op.n)
    [] op.kind = "resign" -> [s EXCEPT !.wit[op.w].key = FALSE]
    [] op.kind = "none" -> s

Allowed(s, op) == op.kind = "vote" => s.wit[op.w].votes + op.n >= 0

(* Up to the schedule. *)
Counted(s, b) ==
  update_signing_witness(
    update_global_dynamic_data(Evaluated(process_header_extensions(s, b), b.op), b), b.witness)

update_witness_schedule(s) ==
  IF s.num % MaxWitnesses # 0 THEN {s}
  ELSE {update_witness_schedule4(s, sched) : sched \in Shuffled(Active(s))}

(* The assertions a block fails. *)
Failing(s, b) ==
  IF ~validate_block_header(s, b) THEN {"header"}
  ELSE IF process_header_extensions(s, b).wit[b.witness].version < s.applied THEN {"version"}
  ELSE {"schedule" : x \in {y \in {Counted(s, b)} : y.num % MaxWitnesses = 0 /\ ~Rounds(y)}}

Valid(s, b) == Allowed(s, b.op) /\ Failing(s, b) = {}

After(s, b) ==
  {process_hardforks(x) : x \in UNION {update_witness_schedule(c) : c \in {Counted(s, b)}}}

(* The valid blocks on a state, within the bounds: the first round, which    *)
(* the initial witness makes alone, is without incident.                     *)
FirstRound(s) == s.num < MaxWitnesses

Blocks(s) ==
  {b \in [time : (s.time + 1)..Min({MaxTime, s.time + MaxSlots * Interval}),
          witness : Range(s.sched), version : {0, 1}, op : Ops] :
     /\ FirstRound(s) => b.time = get_slot_time(s, 1) /\ b.op = NoOp
     /\ b.version = Version[b.witness]
     /\ b.op # NoOp => events < MaxEvents
     /\ b.time % Interval # 0 => b.witness \in Late
     /\ s.num < MaxBlocks
     /\ Valid(s, b)}

-----------------------------------------------------------------------------
(* now_fine + 500 ms, as a time_point_sec. *)
Rounded(fine) == (fine + 1) \div 2
Now == Rounded(node.fine)

(* Bound: the clock of this node and the head it gets are not far apart; a   *)
(* call takes less than a second.                                            *)
Near(now, time) ==
  /\ time <= IF node.pc = "sleep" THEN now + Skew ELSE now
  /\ now <= time + MaxSlots * Interval

push_block(b) ==
  /\ Orderly /\ announced # NoBlock => b = announced
  /\ st' \in After(st, b) /\ base' = st
  /\ announced' = NoBlock
  /\ events' = IF b.op = NoOp THEN events ELSE events + 1

(* assert() has not ended the process. *)
Running == node.pc # "aborted"

Receive ==
  /\ Running
  /\ \E b \in {x \in Blocks(st) : FirstRound(st) \/ Near(Now, x.time)} : push_block(b)
  /\ UNCHANGED nodeVars

(* Another chain, one block longer, replaces the head. *)
SwitchFork ==
  /\ Running /\ events < MaxEvents /\ ~FirstRound(base) /\ announced = NoBlock
  /\ Orderly => \A w \in Witness : base.wit[w].confirmed <= base.num
  /\ \E b \in {x \in Blocks(base) : x.op = NoOp} : \E mid \in After(base, b) :
       \E c \in {x \in Blocks(mid) : x.op = NoOp /\ Near(Now, x.time)} :
         st' \in After(mid, c) /\ base' = mid
  /\ events' = events + 1
  /\ signed' = [k \in DOMAIN signed |-> [signed[k] EXCEPT !.gone = TRUE]]
  /\ UNCHANGED <<node, refused, announced>>

(* confirm_block() of a block that has not arrived. *)
confirm_block ==
  /\ Running /\ events < MaxEvents /\ ~FirstRound(st)
  /\ Orderly => announced = NoBlock
  /\ \E b \in {x \in Blocks(st) : x.op = NoOp} :
       /\ st' = [st EXCEPT !.wit[b.witness].confirmed = IF @ > st.num + 1 THEN @ ELSE st.num + 1]
       /\ announced' = b
  /\ events' = events + 1
  /\ UNCHANGED <<base, nodeVars>>

-----------------------------------------------------------------------------
(* maybe_produce_block()                                                     *)
(* The call returns. *)
Sleep == node' = [node EXCEPT !.pc = "sleep", !.slot = 0, !.witness = 1, !.time = 0]

(* The timer is set to the next whole second; how late it fires is open.     *)
NextTick == 2 * (node.fine \div 2 + 1)

Wake ==
  /\ node.pc = "sleep" /\ ~FirstRound(st)
  /\ \E fine \in {x \in NextTick..(2 * MaxTime) : Near(Rounded(x), st.time)} :
       LET enabled == node.enabled \/ get_slot_time(st, 1) >= Rounded(fine)
       IN  node' = [node EXCEPT !.fine = fine, !.enabled = enabled,
                                !.pc = IF enabled THEN "slot" ELSE "sleep"]
  /\ UNCHANGED <<chainVars, signed, refused>>

ReadSlot ==
  /\ node.pc = "slot"
  /\ LET slot == get_slot_at_time(st, Now)
     IN  IF slot = 0 THEN Sleep ELSE node' = [node EXCEPT !.pc = "assert", !.slot = slot]
  /\ UNCHANGED <<chainVars, signed, refused>>

(* assert( now > _db.head_block_time() ): with a block in between it can     *)
(* fail, and a build without NDEBUG aborts.                                  *)
AssertTime ==
  /\ node.pc = "assert"
  /\ \/ node' = [node EXCEPT !.pc = "witness"]
     \/ Now <= st.time /\ node' = [node EXCEPT !.pc = "aborted"]
  /\ UNCHANGED <<chainVars, signed, refused>>

ReadWitness ==
  /\ node.pc = "witness"
  /\ LET w == get_scheduled_witness(st, node.slot)
     IN  IF w \notin Mine THEN Sleep ELSE node' = [node EXCEPT !.pc = "time", !.witness = w]
  /\ UNCHANGED <<chainVars, signed, refused>>

ReadTime ==
  /\ node.pc = "time"
  /\ node' = [node EXCEPT !.pc = "key", !.time = get_slot_time(st, node.slot)]
  /\ UNCHANGED <<chainVars, signed, refused>>

ReadKey ==
  /\ node.pc = "key"
  /\ IF st.wit[node.witness].key THEN node' = [node EXCEPT !.pc = "rate"] ELSE Sleep
  /\ UNCHANGED <<chainVars, signed, refused>>

(* Mutant: a node that wakes a second late still produces. *)
LagOkLate(time, now) == time \in {now, now - 1}

(* Within 500 ms, of times that are whole seconds. *)
LagOk(time, now) == time = now

(* witness_participation_rate() *)
Rate(s) == (100 * Cardinality({i \in DOMAIN s.filled : s.filled[i] = 1})) \div Window

(* ... and the lag of what was read before. *)
ReadRate ==
  /\ node.pc = "rate"
  /\ IF Rate(st) >= Participation /\ LagOk(node.time, Now)
       THEN node' = [node EXCEPT !.pc = "queued"] ELSE Sleep
  /\ UNCHANGED <<chainVars, signed, refused>>

(* Mutant: what maybe_produce_block() read is taken for granted. *)
StillMyTurnTrusted(b) == get_slot_at_time(st, b.time) > 0

(* The assertions of _generate_block() itself. *)
StillMyTurn(b) ==
  /\ get_slot_at_time(st, b.time) > 0
  /\ get_scheduled_witness(st, get_slot_at_time(st, b.time)) = b.witness
  /\ st.wit[b.witness].key

(* In the write thread. *)
_generate_block ==
  /\ node.pc = "queued"
  /\ LET b == [time |-> node.time, witness |-> node.witness,
               version |-> Version[node.witness], op |-> NoOp]
     IN  \/ /\ StillMyTurn(b)
            /\ signed' = Append(signed, [time |-> b.time, at |-> node.fine,
                                         gone |-> Failing(st, b) # {}])
            /\ refused' = refused \cup Failing(st, b)
            /\ \/ Failing(st, b) = {} /\ push_block(b)
               \/ Failing(st, b) # {} /\ UNCHANGED chainVars
         \/ ~StillMyTurn(b) /\ UNCHANGED <<chainVars, signed, refused>>
  /\ Sleep

Next ==
  \/ Receive \/ SwitchFork \/ confirm_block
  \/ Wake \/ ReadSlot \/ AssertTime \/ ReadWitness \/ ReadTime \/ ReadKey \/ ReadRate
  \/ _generate_block

Spec == Init /\ [][Next]_vars

-----------------------------------------------------------------------------
(* Nobody in the virtual schedule is passed over: the virtual time never is  *)
(* beyond the time a witness is due, and no witness has run further than its *)
(* lap, whatever votes moved in the middle of it (database.cpp:1442,         *)
(* witness_schedule.cpp:143).                                                *)
LapsKept ==
  \A w \in Witness : LET x == st.wit[w] IN
    /\ st.vtime <= x.vsched /\ x.vsched <= LapLength
    /\ x.pos + x.votes * (st.vtime - x.last) <= LapLength

(* Every witness of a round has one slot of it (witness_schedule.cpp:157).   *)
OneSlotEach == IsInjective(st.sched)

(* Slots, clock and participation agree: current_aslot counts the intervals  *)
(* since genesis, also for blocks between two slot times, and                *)
(* participation_count the bits of recent_slots_filled (database.cpp:3683).  *)
SlotsCounted ==
  /\ st.aslot = st.time \div Interval
  /\ st.participation = Cardinality({i \in DOMAIN st.filled : st.filled[i] = 1})

(* A witness without a key gave it up, or has not confirmed a block for more *)
(* than a day (database.cpp:3668).                                           *)
ShutdownOnlyIdle ==
  \A w \in Witness \ Resigning :
    st.wit[w].key \/ st.num - st.wit[w].confirmed > BlocksPerDay

(* No hardfork is applied that fewer witnesses have voted for than it takes  *)
(* (database.cpp:4475, witness_schedule.cpp:234).                            *)
HardforkBacked ==
  st.applied = 1 => Cardinality({w \in Witness : st.wit[w].vote = 1}) >= Required

(* This node signs a second block for the same time only if the first was    *)
(* refused or taken back by a fork switch, and only within half a second: by *)
(* a call that woke at a whole second after one that woke late in the second *)
(* before it and rounded up (witness_plugin.cpp:525, 606, 618, 661).         *)
SignsAgainOnlyAtOnce ==
  \A j, k \in DOMAIN signed : j < k /\ signed[j].time = signed[k].time =>
    /\ signed[j].gone
    /\ signed[j].at % 2 = 1 /\ signed[k].at = signed[j].at + 1

(* What _generate_block() lets through applies: reads that were stale when   *)
(* the block was queued are noticed there (database.cpp:940).  Only that     *)
(* too few witnesses have a key can stop it (witness_schedule.cpp:192).      *)
OwnBlocksApply == refused \subseteq {"schedule"}

(* The schedule is right about slots, hardfork votes and idle witnesses. *)
ScheduleSound == TypeOK /\ OneSlotEach /\ SlotsCounted /\ HardforkBacked /\ ShutdownOnlyIdle
=============================================================================
