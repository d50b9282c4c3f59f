--------------------------- MODULE StateRecovery ---------------------------
(***************************************************************************)
(* How a node gets its state back after it stops or dies.  Three things    *)
(* survive on disk and are written one after the other: the chainbase      *)
(* indexes in the mapped file (each with its own undo stack and revision), *)
(* the block log and the contract log.  database::open() undoes all        *)
(* sessions, compares the first index with the block log and otherwise     *)
(* lets chain_plugin rebuild the state from the log.                       *)
(*                                                                         *)
(* The chain is one chain (forks are in ChainDatabase), so the contents of *)
(* an index are the height whose block it reflects.  An undo stack is the  *)
(* stack of saved contents that UndoIndex is proved to implement.  The     *)
(* loops of chainbase::database over its indexes are taken one index at a  *)
(* time: the process may die between two of them.  A reindex is one        *)
(* without stop_replay_at, which ends it below the head of the log.        *)
(***************************************************************************)
EXTENDS Integers, Sequences, FiniteSets

CONSTANTS NIndexes,     \* number of indexes; index 1 holds the head number
          MaxHeight,    \* bound: the highest block
          LibLag,       \* the last irreversible block is at least this far back
          MaxCrashes,   \* bound: how often the process dies
          CrashAt       \* the program points at which it may die

ASSUME SizesAssumption == {NIndexes, MaxHeight, LibLag} \subseteq Nat \ {0} /\ MaxCrashes \in Nat

Indexes == 1..NIndexes
Heights == 0..MaxHeight

Startup == {"down", "undo_all", "check", "wipe", "wiped", "replay", "set_revision"}
Working == {"serving", "start_session", "apply", "commit", "block_log", "append",
            "flush", "flush_contract", "applied", "undo"}

ASSUME CrashAtAssumption == CrashAt \subseteq (Startup \cup Working) \ {"down"}

VARIABLES height,       \* index -> height its contents reflect
          saved,        \* index -> saved contents, one per undo state
          rev,          \* index -> _revision
          lib,          \* height -> last_irreversible_block_num in that state
          log, flushed,         \* blocks in the block log, and on the disk
          clog, cflushed,       \* the same of the contract log
          contracts,    \* keys of _contract_block
          pc, i,        \* where the one writing thread is, in which index
          crashes

state == <<height, saved, rev, lib>>
logs == <<log, flushed, clog, cflushed, contracts>>
vars == <<height, saved, rev, lib, log, flushed, clog, cflushed, contracts, pc, i, crashes>>

TypeOK ==
  /\ height \in [Indexes -> Heights]
  /\ saved \in [Indexes -> Seq(Heights)]
  /\ rev \in [Indexes -> Heights]
  /\ lib \in [Heights -> Heights]
  /\ log \in Heights /\ flushed \in 0..log
  /\ clog \in Heights /\ cflushed \in 0..clog
  /\ contracts \subseteq Heights
  /\ pc \in Startup \cup Working /\ i \in Indexes
  /\ crashes \in 0..MaxCrashes

(* A new data directory: init_genesis() has run, nothing is logged. *)
Init ==
  /\ height = [j \in Indexes |-> 0]
  /\ saved = [j \in Indexes |-> <<>>]
  /\ rev = [j \in Indexes |-> 0]
  /\ lib = [h \in Heights |-> 0]
  /\ log = 0 /\ flushed = 0 /\ clog = 0 /\ cflushed = 0
  /\ contracts = {}
  /\ pc = "serving" /\ i = 1
  /\ crashes = 0

head_block_num == height[1]
revision == rev[1]

(* One round of a loop over _index_list; after the last index control is at exit. *)
Loop(exit) ==
  IF i < NIndexes THEN i' = i + 1 /\ pc' = pc ELSE i' = 1 /\ pc' = exit

Goto(label) == i' = 1 /\ pc' = label

-----------------------------------------------------------------------------
(* database::_push_block(), one block onto the head.                       *)

push_block ==
  /\ pc = "serving" /\ head_block_num < MaxHeight
  /\ Goto("start_session")
  /\ UNCHANGED <<state, logs, crashes>>

start_undo_session ==
  /\ pc = "start_session"
  /\ saved' = [saved EXCEPT ![i] = Append(@, height[i])]
  /\ rev' = [rev EXCEPT ![i] = @ + 1]
  /\ Loop("apply")
  /\ UNCHANGED <<height, lib, logs, crashes>>

(* update_last_irreversible_block() only raises the number.  The votes it   *)
(* counts also come from confirm messages, which no log keeps, so it is not *)
(* a function of the chain.                                                 *)
IrreversibleAt(h, before) == {before} \cup (before..(h - LibLag))

(* _apply_block() up to commit(): transactions, _contract_block, head data. *)
apply_block ==
  /\ pc = "apply"
  /\ LET h == head_block_num + 1
     IN /\ \E l \in IrreversibleAt(h, lib[head_block_num]) : lib' = [lib EXCEPT ![h] = l]
        /\ height' = [j \in Indexes |-> h]
        /\ contracts' = contracts \cup {h}
  /\ Goto("commit")
  /\ UNCHANGED <<saved, rev, log, flushed, clog, cflushed, crashes>>

(* A block that does not apply: the session's destructor undoes it. *)
apply_fails ==
  /\ pc \in {"apply", "applied"}
  /\ Goto("undo")
  /\ UNCHANGED <<state, logs, crashes>>

(* generic_index::commit(r): states with a revision up to r are dropped. *)
Uncommitted(j, r) ==
  LET first == rev[j] - Len(saved[j])
      n == Cardinality({k \in DOMAIN saved[j] : first + k <= r})
  IN SubSeq(saved[j], n + 1, Len(saved[j]))

commit ==
  /\ pc = "commit"
  /\ saved' = [saved EXCEPT ![i] = Uncommitted(i, lib[head_block_num])]
  /\ Loop("block_log")
  /\ UNCHANGED <<height, rev, lib, logs, crashes>>

(* "if( log_head_num < dpo.last_irreversible_block_num )" *)
compare_log ==
  /\ pc = "block_log"
  /\ Goto(IF log < lib[head_block_num] THEN "append" ELSE "applied")
  /\ UNCHANGED <<state, logs, crashes>>

(* contract_log::append() asserts that the index entry comes next. *)
ContractFits(num) == clog = 0 \/ clog = num - 1

(* Mutant: writes blocks behind the last irreversible one. *)
append_head ==
  /\ pc = "append" /\ log < head_block_num
  /\ log' = log + 1
  /\ clog' = log + 1 /\ contracts' = contracts \ {log + 1}
  /\ UNCHANGED <<state, flushed, cflushed, pc, i, crashes>>

(* One round of the loop that writes blocks which became irreversible.  If  *)
(* the contract does not fit, the exception leaves the block in the log.    *)
append ==
  /\ pc = "append" /\ log < lib[head_block_num]
  /\ log' = log + 1
  /\ LET num == log + 1
     IN IF num \in contracts
          THEN IF ContractFits(num)
                 THEN clog' = num /\ contracts' = contracts \ {num} /\ UNCHANGED <<pc, i>>
                 ELSE Goto("undo") /\ UNCHANGED <<clog, contracts>>
          ELSE UNCHANGED <<clog, contracts, pc, i>>
  /\ UNCHANGED <<state, flushed, cflushed, crashes>>

append_done ==
  /\ pc = "append" /\ log >= lib[head_block_num]
  /\ Goto("flush")
  /\ UNCHANGED <<state, logs, crashes>>

flush_block_log ==
  /\ pc = "flush"
  /\ flushed' = log
  /\ Goto("flush_contract")
  /\ UNCHANGED <<state, log, clog, cflushed, contracts, crashes>>

flush_contract_log ==
  /\ pc = "flush_contract"
  /\ cflushed' = clog
  /\ Goto("applied")
  /\ UNCHANGED <<state, log, flushed, clog, contracts, crashes>>

(* session.push() *)
push ==
  /\ pc = "applied"
  /\ Goto("serving")
  /\ UNCHANGED <<state, logs, crashes>>

(* Mutant: undo() forgets the revision. *)
undo_keeps_revision ==
  /\ pc = "undo"
  /\ IF saved[i] = <<>>
       THEN UNCHANGED <<height, saved>>
       ELSE /\ height' = [height EXCEPT ![i] = saved[i][Len(saved[i])]]
            /\ saved' = [saved EXCEPT ![i] = SubSeq(@, 1, Len(@) - 1)]
  /\ Loop("serving")
  /\ UNCHANGED <<rev, lib, logs, crashes>>

(* generic_index::undo() leaves an index without undo states alone. *)
undo ==
  /\ pc = "undo"
  /\ IF saved[i] = <<>>
       THEN UNCHANGED <<height, saved, rev>>
       ELSE /\ height' = [height EXCEPT ![i] = saved[i][Len(saved[i])]]
            /\ saved' = [saved EXCEPT ![i] = SubSeq(@, 1, Len(@) - 1)]
            /\ rev' = [rev EXCEPT ![i] = @ - 1]
  /\ Loop("serving")
  /\ UNCHANGED <<lib, logs, crashes>>

(* A fork switch takes blocks off the head. *)
pop_block ==
  /\ pc = "serving" /\ saved[1] # <<>>
  /\ Goto("undo")
  /\ UNCHANGED <<state, logs, crashes>>

-----------------------------------------------------------------------------
(* Stopping and starting.                                                  *)

(* database::close() and the end of the process. *)
close ==
  /\ pc = "serving"
  /\ flushed' = log /\ cflushed' = clog /\ contracts' = {}
  /\ Goto("down")
  /\ UNCHANGED <<state, log, clog, crashes>>

(* The process dies: the mapped file keeps what was written, a log keeps    *)
(* any part of its buffer.                                                  *)
crash ==
  /\ pc \in CrashAt /\ crashes < MaxCrashes
  /\ \E n \in flushed..log : log' = n /\ flushed' = n
  /\ \E n \in cflushed..clog : clog' = n /\ cflushed' = n
  /\ contracts' = {}
  /\ Goto("down")
  /\ crashes' = crashes + 1
  /\ UNCHANGED state

open ==
  /\ pc = "down"
  /\ Goto("undo_all")
  /\ UNCHANGED <<state, logs, crashes>>

undo_all ==
  /\ pc = "undo_all"
  /\ IF saved[i] = <<>>
       THEN UNCHANGED <<height, saved, rev>>
       ELSE /\ height' = [height EXCEPT ![i] = saved[i][1]]
            /\ rev' = [rev EXCEPT ![i] = @ - Len(saved[i])]
            /\ saved' = [saved EXCEPT ![i] = <<>>]
  /\ Loop("check")
  /\ UNCHANGED <<lib, logs, crashes>>

(* Mutant: the comparison with the block log is left out. *)
check_revision_only ==
  /\ pc = "check"
  /\ Goto(IF revision = head_block_num THEN "serving" ELSE "wipe")
  /\ UNCHANGED <<state, logs, crashes>>

(* Mutant: a failed comparison ends in a further attempt to open. *)
check_retries ==
  /\ pc = "check"
  /\ Goto(IF /\ revision = head_block_num
             /\ head_block_num # 0 => head_block_num <= log
          THEN "serving" ELSE "down")
  /\ UNCHANGED <<state, logs, crashes>>

(* The two assertions of open(): the revision is the head number, and the   *)
(* head block is in the block log.                                          *)
check ==
  /\ pc = "check"
  /\ Goto(IF /\ revision = head_block_num
             /\ head_block_num # 0 => head_block_num <= log
          THEN "serving" ELSE "wipe")
  /\ UNCHANGED <<state, logs, crashes>>

(* reindex(): wipe() closes the logs and deletes the mapped file, but never *)
(* the contract log; open() makes a genesis state, which passes the check.  *)
wipe ==
  /\ pc = "wipe"
  /\ height' = [j \in Indexes |-> 0]
  /\ saved' = [j \in Indexes |-> <<>>]
  /\ rev' = [j \in Indexes |-> 0]
  /\ lib' = [h \in Heights |-> 0]
  /\ flushed' = log /\ cflushed' = clog
  /\ Goto("wiped")
  /\ UNCHANGED <<log, clog, contracts, crashes>>

(* "No blocks in block log": reindex() throws.  The handler "resyncs" by     *)
(* calling open() once more, with the indexes of the open() in reindex()     *)
(* still in _index_map: add_index_helper() throws "type_id is already in     *)
(* use", and the process ends.  The next start finds the genesis state.      *)
resync_throws ==
  /\ pc = "wiped" /\ log = 0
  /\ contracts' = {}
  /\ Goto("down")
  /\ UNCHANGED <<state, log, flushed, clog, cflushed, crashes>>

(* One block of the log is applied with skip_block_log and without a        *)
(* session: commit() finds no undo state.  The head number (index 1) is     *)
(* written after the transactions.                                          *)
replay_block ==
  /\ pc \in {"wiped", "replay"} /\ head_block_num < log
  /\ LET h == head_block_num + 1
         j == NIndexes + 1 - i
     IN /\ height' = [height EXCEPT ![j] = h]
        /\ IF j = 1
             THEN \E l \in IrreversibleAt(h, lib[head_block_num]) : lib' = [lib EXCEPT ![h] = l]
             ELSE UNCHANGED lib
        /\ contracts' = contracts \cup {h}
  /\ Loop("replay")
  /\ UNCHANGED <<saved, rev, log, flushed, clog, cflushed, crashes>>

replay_done ==
  /\ pc = "replay" /\ head_block_num = log /\ i = 1
  /\ Goto("set_revision")
  /\ UNCHANGED <<state, logs, crashes>>

set_revision ==
  /\ pc = "set_revision"
  /\ rev' = [rev EXCEPT ![i] = head_block_num]
  /\ Loop("serving")
  /\ UNCHANGED <<height, saved, lib, logs, crashes>>

Work ==
  \/ push_block \/ start_undo_session \/ apply_block \/ apply_fails \/ commit
  \/ compare_log \/ append \/ append_done \/ flush_block_log \/ flush_contract_log
  \/ push \/ undo \/ pop_block

Start ==
  \/ open \/ undo_all \/ check \/ wipe \/ resync_throws \/ replay_block \/ replay_done
  \/ set_revision

Next == Work \/ Start \/ close \/ crash

(* plugin_startup() runs to its end unless the process dies or throws, and  *)
(* a process that has ended is started again.                               *)
Spec == Init /\ [][Next]_vars /\ WF_vars(Start)

-----------------------------------------------------------------------------
(* Contents an index cannot go behind any more. *)
Base(j) == IF saved[j] = <<>> THEN height[j] ELSE saved[j][1]

(* Whatever was cut off by the crashes before, a node that serves has one    *)
(* state: all indexes reflect the same block, hold the same undo states and  *)
(* number them alike, and the head number is the revision the next open()    *)
(* will compare it with.                                                     *)
ServedStateWhole ==
  pc = "serving" =>
    \A j \in Indexes : /\ height[j] = head_block_num
                       /\ saved[j] = saved[1]
                       /\ rev[j] = head_block_num

(* A block in the block log is never taken back: no served state can be      *)
(* undone behind the head of the log.                                        *)
LoggedIsCommitted ==
  pc = "serving" => \A j \in Indexes : log <= Base(j)

(* A node that was stopped, died or gave up its start serves again if it is  *)
(* started often enough: no start leaves a disk that the next cannot open.   *)
EventuallyServes == pc = "down" ~> pc = "serving"

(* Whatever is on disk and in memory is well formed, and whole when served.  *)
StateSound == TypeOK /\ ServedStateWhole
=============================================================================
