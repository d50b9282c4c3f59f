------------------------------ MODULE BlockLog ------------------------------
(***************************************************************************)
(* gamebank::chain::block_log, the append-only file of irreversible blocks *)
(* with its position index, and contract_log, its copy for contract        *)
(* results that may begin at a later block (start_num).                    *)
(*                                                                         *)
(* The main file is a sequence of entries <block, position of the block>;  *)
(* an entry is represented by its block number and entry k lies at         *)
(* position k - 1 (positions only need to start at 0 and to increase).     *)
(* Both files are written through stream buffers: what is behind flushed   *)
(* or idx_flushed may be lost, whole or in part, when the process dies.    *)
(***************************************************************************)
EXTENDS Naturals, Sequences

CONSTANTS StartNums,    \* what start_num may be: {0} for block_log
          MaxNum        \* bound: the highest block number appended

ASSUME StartNumsAssumption == StartNums \subseteq Nat /\ StartNums # {}
ASSUME MaxNumAssumption == MaxNum \in Nat

VARIABLES log,          \* entries of the main file, buffered ones included
          flushed,      \* how many of them have reached the file
          torn,         \* the file ends in a part of an entry
          index,        \* entries of the index file: positions
          idx_flushed,  \* how many of them have reached the file
          head,         \* number of the head block; 0 if there is none
          start_num,    \* number before that of the first entry
          status        \* "closed", "open", or "failed" to open

files == <<log, flushed, torn, index, idx_flushed>>
vars == <<log, flushed, torn, index, idx_flushed, head, start_num, status>>

TypeOK ==
  /\ log \in Seq(1..MaxNum)
  /\ flushed \in 0..Len(log)
  /\ torn \in BOOLEAN
  /\ index \in Seq(Nat)
  /\ idx_flushed \in 0..Len(index)
  /\ head \in 0..MaxNum
  /\ start_num \in StartNums \cup (0..MaxNum)
  /\ status \in {"closed", "open", "failed"}

Init ==
  /\ log = <<>> /\ flushed = 0 /\ torn = FALSE
  /\ index = <<>> /\ idx_flushed = 0
  /\ head = 0 /\ start_num = 0
  /\ status = "closed"

Last(s) == s[Len(s)]

(* Positions of all entries, in order. *)
Positions(n) == [k \in 1..n |-> k - 1]

-----------------------------------------------------------------------------

(* construct_index(): copies trailing positions while pos < end_pos, where  *)
(* pos starts at 0 and end_pos is the position of the last entry.           *)
construct_index ==
  LET end_pos == Len(log) - 1
  IN IF 0 < end_pos THEN Positions(Len(log)) ELSE <<>>

(* Mutant: the index is trusted whenever there is one.                      *)
keeps_any_index ==
  /\ status = "closed" /\ ~torn
  /\ status' = "open"
  /\ IF log # <<>>
       THEN /\ head' = Last(log)
            /\ start_num' = log[1] - 1
            /\ IF index # <<>>
                 THEN UNCHANGED <<index, idx_flushed>>
                 ELSE index' = construct_index /\ idx_flushed' = 0
       ELSE head' = 0 /\ index' = <<>> /\ idx_flushed' = 0 /\ start_num' = 0
  /\ UNCHANGED <<log, flushed, torn>>

(* Mutant: the index is rebuilt but the stream keeps its write mark.         *)
keeps_write_mark ==
  /\ status = "closed" /\ ~torn
  /\ status' = "open"
  /\ IF log # <<>>
       THEN /\ head' = Last(log)
            /\ start_num' = log[1] - 1
            /\ IF index # <<>> /\ Last(index) = Len(log) - 1
                 THEN UNCHANGED index
                 ELSE index' = construct_index
       ELSE head' = 0 /\ index' = <<>> /\ start_num' = 0
  /\ UNCHANGED <<log, flushed, torn, idx_flushed>>

(* Mutant: the head is read only when the index has to be rebuilt.           *)
reads_head_late ==
  /\ status = "closed" /\ ~torn
  /\ status' = "open"
  /\ IF log # <<>>
       THEN /\ start_num' = log[1] - 1
            /\ IF index # <<>> /\ Last(index) = Len(log) - 1
                 THEN head' = 0 /\ UNCHANGED <<index, idx_flushed>>
                 ELSE head' = Last(log) /\ index' = construct_index /\ idx_flushed' = 0
       ELSE head' = 0 /\ index' = <<>> /\ idx_flushed' = 0 /\ start_num' = 0
  /\ UNCHANGED <<log, flushed, torn>>

(* open(): the last positions in the two files decide whether the index is  *)
(* kept or rebuilt; an index without a log is deleted.  (start_num is a     *)
(* field of contract_log; block_log has the constant 0.)                    *)
open ==
  /\ status = "closed" /\ ~torn
  /\ status' = "open"
  /\ IF log # <<>>
       THEN /\ head' = Last(log)
            /\ start_num' = log[1] - 1
            /\ IF index # <<>> /\ Last(index) = Len(log) - 1
                 THEN UNCHANGED <<index, idx_flushed>>
                 ELSE index' = construct_index /\ idx_flushed' = 0
       ELSE head' = 0 /\ index' = <<>> /\ idx_flushed' = 0 /\ start_num' = 0
  /\ UNCHANGED <<log, flushed, torn>>

(* open() of a file that ends in a part of an entry: read_head() follows a  *)
(* position made of other bytes and throws.                                 *)
open_torn ==
  /\ status = "closed" /\ torn
  /\ status' = "failed"
  /\ UNCHANGED <<files, head, start_num>>

(* Mutant: the position is taken after the block was written.               *)
append_position_late(num) ==
  /\ status = "open"
  /\ start_num' = IF log = <<>> THEN num - 1 ELSE start_num
  /\ Len(index) = num - start_num' - 1
  /\ log' = Append(log, num)
  /\ index' = Append(index, Len(log) + 1)
  /\ head' = num
  /\ UNCHANGED <<flushed, torn, idx_flushed, status>>

(* Mutant: going back to writing truncates the file (no ios::app).          *)
append_truncates(num) ==
  /\ status = "open"
  /\ start_num' = IF log = <<>> THEN num - 1 ELSE start_num
  /\ Len(index) = num - start_num' - 1
  /\ log' = IF flushed = Len(log) THEN <<num>> ELSE Append(log, num)
  /\ index' = Append(index, Len(log))
  /\ head' = num
  /\ UNCHANGED <<flushed, torn, idx_flushed, status>>

(* append(): the FC_ASSERT on the place in the index file is the guard of   *)
(* the write.                                                               *)
append(num) ==
  /\ status = "open"
  /\ start_num' = IF log = <<>> THEN num - 1 ELSE start_num
  /\ Len(index) = num - start_num' - 1
  /\ log' = Append(log, num)
  /\ index' = Append(index, Len(log))
  /\ head' = num
  /\ UNCHANGED <<flushed, torn, idx_flushed, status>>

(* check_block_read(), check_index_read(): going from writing to reading    *)
(* closes the stream, which writes its buffer out.                          *)
check_block_read ==
  /\ status = "open" /\ flushed # Len(log)
  /\ flushed' = Len(log)
  /\ UNCHANGED <<log, torn, index, idx_flushed, head, start_num, status>>

check_index_read ==
  /\ status = "open" /\ idx_flushed # Len(index)
  /\ idx_flushed' = Len(index)
  /\ UNCHANGED <<log, flushed, torn, index, head, start_num, status>>

flush ==
  /\ status = "open"
  /\ flushed # Len(log) \/ idx_flushed # Len(index)
  /\ flushed' = Len(log) /\ idx_flushed' = Len(index)
  /\ UNCHANGED <<log, torn, index, head, start_num, status>>

(* my is a new impl, whose streams do not throw; neither do they here. *)
close ==
  /\ status = "open"
  /\ flushed' = Len(log) /\ idx_flushed' = Len(index)
  /\ head' = 0 /\ start_num' = 0 /\ status' = "closed"
  /\ UNCHANGED <<log, torn, index>>

(* The process dies.  Either stream may have spilled any part of its buffer. *)
crash ==
  /\ status = "open"
  /\ \E k \in flushed..Len(log), j \in idx_flushed..Len(index), t \in BOOLEAN :
       /\ t => k < Len(log)
       /\ log' = SubSeq(log, 1, k) /\ flushed' = k /\ torn' = t
       /\ index' = SubSeq(index, 1, j) /\ idx_flushed' = j
  /\ head' = 0 /\ start_num' = 0 /\ status' = "closed"

(* The index file is deleted while the node is down; the header promises    *)
(* that it can be reconstructed.                                            *)
remove_index ==
  /\ status = "closed" /\ index # <<>>
  /\ index' = <<>> /\ idx_flushed' = 0
  /\ UNCHANGED <<log, flushed, torn, head, start_num, status>>

(* update_last_irreversible_block() appends the block after the head of the *)
(* log; contracts may begin at a later block.                               *)
append_next ==
  \E num \in 1..MaxNum :
    /\ IF head = 0 THEN num - 1 \in StartNums ELSE num = head + 1
    /\ append(num)

Next ==
  \/ open \/ open_torn \/ append_next
  \/ check_block_read \/ check_index_read \/ flush \/ close \/ crash
  \/ remove_index

Spec == Init /\ [][Next]_vars

-----------------------------------------------------------------------------
(* Lookup by number: the entry read_block_by_num(num) would return, or 0    *)
(* for npos; a read behind the end of either file throws (0 as well).        *)
read_block_by_num(num) ==
  LET slot == num - start_num
  IN IF head # 0 /\ num <= head /\ num > start_num /\ slot \in DOMAIN index
        /\ index[slot] + 1 \in DOMAIN log
     THEN log[index[slot] + 1] ELSE 0

(* The main file is never rewritten, so its numbers are consecutive whatever *)
(* was lost in crashes and appended again after them, and the head is its    *)
(* last entry (block_log.hpp: "doubly linked list of blocks").               *)
LogConsecutive ==
  /\ \A k \in 1..(Len(log) - 1) : log[k + 1] = log[k] + 1
  /\ status = "open" => head = IF log = <<>> THEN 0 ELSE Last(log)

(* The assertion "Wrong block was read from block log." (block_log.cpp:303)  *)
(* cannot fail: although open() compares only the last position of the two   *)
(* files, every lookup that finds a position finds the block asked for.      *)
LookupsRight ==
  status = "open" =>
    \A num \in 1..MaxNum : read_block_by_num(num) \in {0, num}

(* What open() leaves and append() keeps: every entry is in the index, so    *)
(* every block of the log can be looked up and the next one appended - or    *)
(* the log holds the single block that construct_index() skips.              *)
IndexComplete ==
  status = "open" => \/ index = Positions(Len(log))
                     \/ Len(log) = 1 /\ index = <<>>

(* What was flushed is never lost: the flushed part of the log survives      *)
(* crashes, rebuilds of the index and restarts unchanged.                    *)
FlushedSurvives ==
  [][ /\ Len(log') >= flushed
      /\ SubSeq(log', 1, flushed) = SubSeq(log, 1, flushed) ]_vars

(* Every open log is one this code could go on with: consecutive, with its   *)
(* head at the end, and with an index that lacks nothing.                    *)
LogSound == TypeOK /\ LogConsecutive /\ IndexComplete
=============================================================================
