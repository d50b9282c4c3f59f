---------------------------- MODULE SyncAnswers -----------------------------
(***************************************************************************)
(* What the p2p plugin tells peers about a chain that changes              *)
(* (libraries/plugins/p2p/p2p_plugin.cpp): the synopsis of its own chain,  *)
(* the ids that follow a peer's synopsis, and the blocks themselves.       *)
(*                                                                         *)
(* Each answer is one read under the read lock, so it sees a ChainDatabase *)
(* state between two pushes.  An exception is an answer of its own.        *)
(***************************************************************************)
EXTENDS ChainDatabase, Synopsis

CONSTANTS Summaries,    \* block summaries kept in the state, 65536
          Limit         \* ids in one answer, 2000

(* The exceptions. *)
Thrown == <<"assertion">>
TooOld == <<"block_older_than_undo_history">>
Unreachable == <<"peer_is_on_an_unreachable_fork">>
Answered(a) == a \notin {Thrown, TooOld, Unreachable}

-----------------------------------------------------------------------------
(* The block summaries are part of the state, for the last numbers only.     *)
find_block_id_for_num(n) ==
  IF n \in 1..head_block_num /\ n > head_block_num - Summaries THEN ChainOf[st.head][n]
  ELSE IF n \in DOMAIN log THEN log[n]
  ELSE fetch_block_on_main_branch_by_number(n)

(* Mutant: any block at its number will do. *)
is_included_block_any(b) == find_block_id_for_num(Num[b]) # NoBlock

is_included_block(b) == find_block_id_for_num(Num[b]) = b

(* The last block of a peer's synopsis that is here and on the main chain,   *)
(* then everything up to the head.  A block that is here, later than that,   *)
(* with no block of its number on the main chain, is an assertion.           *)
get_block_ids(synopsis) ==
  LET seen == {i \in DOMAIN synopsis : is_known_block(synopsis[i]) /\ is_included_block(synopsis[i])}
      first == IF synopsis = <<>> THEN 1 ELSE Num[synopsis[Max(seen)]]
      last == Min({head_block_num, first + Limit - 1})
      nowhere(i) == is_known_block(synopsis[i]) /\ find_block_id_for_num(Num[synopsis[i]]) = NoBlock
  IN  IF head_block_num = 0 THEN <<>>
      ELSE IF \E i \in DOMAIN synopsis : nowhere(i) /\ \A j \in seen : j < i THEN Thrown
      ELSE IF synopsis # <<>> /\ seen = {} THEN Unreachable
      ELSE [k \in 1..(last - first + 1) |-> find_block_id_for_num(first + k - 1)]

(* get_block_ids_on_fork(): where the fork leaves the head's chain. *)
LeavesAt(ref) == ForkNum(st.head, ref) - 1

UpTo(numbers, high) == SelectSeq(numbers, LAMBDA n : n <= high)

(* Mutant: the fork's blocks are looked up in the main chain as well. *)
synopsis_of_main(ref, after) ==
  LET high == IF ref = NoBlock THEN head_block_num ELSE Num[ref]
      low == Max({1, Min({st.lib, high})})
      numbers == UpTo(Halving(low, high + after), high)
  IN  IF high = 0 THEN <<>> ELSE [k \in DOMAIN numbers |-> find_block_id_for_num(numbers[k])]

(* get_blockchain_synopsis() of a block this node has, or of the whole       *)
(* chain.  The steps are those of a chain with that many more blocks after   *)
(* the reference, which the network layer appends.                           *)
get_blockchain_synopsis(ref, after) ==
  LET whole == ref = NoBlock
      main == whole \/ is_included_block(ref)
      high == IF whole THEN head_block_num ELSE Num[ref]
      common == IF main THEN high ELSE LeavesAt(ref)
      low == Max({1, IF main /\ ~whole THEN Min({st.lib, high}) ELSE st.lib})
      numbers == UpTo(Halving(low, high + after), high)
  IN  IF whole /\ high = 0 THEN <<>>
      ELSE IF ~whole /\ find_block_id_for_num(high) = NoBlock THEN Thrown
      ELSE IF ~main /\ ~BranchesFound(st.head, ref) THEN Thrown
      ELSE IF ~main /\ common < st.lib THEN TooOld
      ELSE [k \in DOMAIN numbers |->
              IF numbers[k] <= common THEN find_block_id_for_num(numbers[k])
              ELSE ChainOf[ref][numbers[k]]]

-----------------------------------------------------------------------------
Known == index \cup {log[n] : n \in DOMAIN log}

Increasing(s) == \A i, j \in DOMAIN s : i < j => Num[s[i]] < Num[s[j]]

(* A synopsis is of one chain, never of two forks: it names blocks of the    *)
(* reference's own chain, in order, from one this node cannot undo any more, *)
(* and ends with the reference itself, or not further below it than there    *)
(* are blocks to follow (p2p_plugin.cpp:497-516).                            *)
SynopsisOfOneChain ==
  pc = "idle" =>
    \A ref \in Known \cup {NoBlock} : \A after \in 0..Limit :
      LET s == get_blockchain_synopsis(ref, after)
          top == IF ref = NoBlock THEN st.head ELSE ref
      IN  Answered(s) /\ s # <<>> =>
            /\ \A i \in DOMAIN s : s[i] = ChainOf[top][Num[s[i]]]
            /\ Increasing(s) /\ Num[s[1]] <= Max({1, st.lib})
            /\ Num[top] - Num[s[Len(s)]] <= after

(* A block that comes a second time, is taken for one on the head and does   *)
(* not apply there is removed from the fork database (database.cpp:840).     *)
Dropped(b) == b \in Redelivered /\ ~is_known_block(b)

(* The peers this node can help: their head, and their last irreversible     *)
(* block on it, which is also on this node's chain.                          *)
Reachable(top, lib) ==
  /\ lib \in 1..Min({Num[top], head_block_num})
  /\ ChainOf[top][lib] = ChainOf[st.head][lib] /\ ~Dropped(ChainOf[top][lib])

(* A peer that can follow gets ids that link: they begin with a block of the *)
(* peer's own synopsis, go up one by one on this node's chain as far as an   *)
(* answer goes, and each of them can be served when the peer asks for it     *)
(* (p2p_plugin.cpp:360, get_item at :374).                                   *)
AnswersLink ==
  pc = "idle" /\ head_block_num > 0 =>
    \A top \in world : \A lib \in 1..Num[top] : Reachable(top, lib) =>
      LET numbers == Halving(lib, Num[top])
          ids == get_block_ids([k \in DOMAIN numbers |-> ChainOf[top][numbers[k]]])
      IN  /\ Answered(ids) /\ ids # <<>>
          /\ ids[1] = ChainOf[top][Num[ids[1]]]
          /\ \A i \in DOMAIN ids :
               /\ ids[i] = ChainOf[st.head][Num[ids[1]] + i - 1]
               /\ is_known_block(ids[i]) \/ Dropped(ids[i])

(* What peers are told of the chain is of one chain, links to theirs and can *)
(* be had from this node, unless it followed such a minority.                *)
AnswersSound == world \notin Partitions => SynopsisOfOneChain /\ AnswersLink
=============================================================================
