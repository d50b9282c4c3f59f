--------------------------- MODULE ChainDatabase ---------------------------
(***************************************************************************)
(* gamebank::chain::database with its fork_database, block log and undo    *)
(* stack: pushing blocks, switching forks, the last irreversible block and *)
(* what it commits and logs, confirm messages, pending transactions and a  *)
(* restart.                                                                *)
(*                                                                         *)
(* The blocks that exist are one of several trees, which the constants     *)
(* give.  The chain state is what the fork logic reads of it: head block,  *)
(* last irreversible block and the height each witness last confirmed; a   *)
(* session saves the whole of it (UndoIndex proves that chainbase does     *)
(* that).  One block is one step of a fork switch: the exceptions between  *)
(* them are what can go wrong.                                             *)
(***************************************************************************)
EXTENDS Integers, Sequences, FiniteSets, FiniteSetsExt

CONSTANTS Block,        \* all blocks, of all worlds
          Genesis,      \* the null id, previous of the first block
          NoBlock,      \* an empty shared_ptr
          Worlds,       \* the sets of blocks that may exist together
          Partitions,   \* those with a chain that a minority goes on with
                        \* after the votes of the majority passed the fork
          Prev,         \* block -> its previous
          Num,          \* block -> block_num
          Producer,     \* block -> the witness that signed it
          Bad,          \* blocks that do not apply (a transaction throws)
          Overtaking,   \* blocks whose confirm message may come before them
          Redelivered,  \* blocks that may be pushed again while known
          Witness,      \* the scheduled witnesses
          StartVoting,  \* GAMEBANK_START_MINER_VOTING_BLOCK
          MaxWitnesses, \* GAMEBANK_MAX_WITNESSES
          MaxSize       \* initial _max_size of the fork database

ASSUME TreeAssumption ==
  /\ Genesis \notin Block /\ NoBlock \notin Block \cup {Genesis}
  /\ Prev \in [Block -> Block \cup {Genesis}]
  /\ Num \in [Block \cup {Genesis} -> Nat] /\ Num[Genesis] = 0
  /\ \A b \in Block : Num[b] = Num[Prev[b]] + 1
  /\ \A w \in Worlds : w \subseteq Block /\ \A b \in w : Prev[b] \in w \cup {Genesis}
  /\ Partitions \subseteq Worlds
  /\ Producer \in [Block -> Witness] /\ Bad \cup Overtaking \cup Redelivered \subseteq Block
ASSUME SizesAssumption == {StartVoting, MaxWitnesses, MaxSize} \subseteq Nat /\ IsFiniteSet(Witness)

VARIABLES world,        \* the blocks anybody produces
          st,           \* the chain state
          saved,        \* the undo stack, oldest first
          pending,      \* _pending_tx_session is open, on top of saved
          index,        \* fork_database::_index
          linked,       \* its blocks whose prev pointer can be locked
          fhead,        \* fork_database::_head
          max_size,     \* fork_database::_max_size
          log,          \* the block log
          pc,           \* where _push_block() is
          sw,           \* its local variables: new_head, branches
          result        \* how the last push ended, and what there was before

forkdb == <<index, linked, fhead, max_size>>
vars == <<world, st, saved, pending, index, linked, fhead, max_size, log, pc, sw, result>>

State == [head : Block \cup {Genesis}, lib : Nat, confirmed : [Witness -> Nat]]

TypeOK ==
  /\ world \in Worlds /\ st \in State /\ saved \in Seq(State)
  /\ pending \in BOOLEAN /\ (pending => saved # <<>>)
  /\ index \subseteq Block /\ linked \subseteq Block
  /\ fhead \in Block \cup {NoBlock} /\ max_size \in Nat
  /\ log \in Seq(Block)
  /\ pc \in {"idle", "pop", "apply", "unwind", "restore", "return"}
  /\ sw \in [new : Block \cup {NoBlock}, old : Block \cup {Genesis, NoBlock}, fork : Nat]
  /\ result.how \in {"none", "ok", "ignored", "failed", "torn"}

NoSwitch == [new |-> NoBlock, old |-> NoBlock, fork |-> 0]

Init ==
  /\ world \in Worlds
  /\ st = [head |-> Genesis, lib |-> 0, confirmed |-> [w \in Witness |-> 0]]
  /\ saved = <<>> /\ pending = FALSE
  /\ index = {} /\ linked = {} /\ fhead = NoBlock /\ max_size = MaxSize
  /\ log = <<>>
  /\ pc = "idle" /\ sw = NoSwitch
  /\ result = [how |-> "none", head |-> Genesis, fhead |-> NoBlock]

(* The chain that ends in a block; ChainOf[b][n] is its block number n. *)
ChainOf[b \in Block \cup {Genesis}] ==
  IF b = Genesis THEN <<>> ELSE Append(ChainOf[Prev[b]], b)

head_block_num == Num[st.head]

-----------------------------------------------------------------------------
(* fork_database                                                           *)

ByNum(n) == {b \in index : Num[b] = n}

(* Following prev pointers from b down to number n. *)
WalkTo(b, n) ==
  IF \A k \in (n + 1)..Num[b] : ChainOf[b][k] \in linked THEN ChainOf[b][n] ELSE NoBlock

(* walk_main_branch_to_num() *)
walk_main_branch_to_num(n) ==
  IF fhead = NoBlock \/ n > Num[fhead] THEN NoBlock ELSE WalkTo(fhead, n)

(* A block that is alone at its number is returned unchecked. *)
fetch_block_on_main_branch_by_number(n) ==
  IF Cardinality(ByNum(n)) = 1 THEN CHOOSE b \in ByNum(n) : TRUE
  ELSE IF ByNum(n) = {} THEN NoBlock
  ELSE walk_main_branch_to_num(n)

(* _push_block() refuses what is too old or does not link. *)
Links(b) ==
  fhead # NoBlock =>
    /\ Num[b] > Max({0, Num[fhead] - max_size})
    /\ Prev[b] # Genesis => Prev[b] \in index

(* The number at which the branches of fetch_branch_from() begin: the       *)
(* highest up to which both are present and have the same previous.         *)
ForkNum(f, s) ==
  Max({k \in 1..Min({Num[f], Num[s]}) :
         SubSeq(ChainOf[f], 1, k - 1) = SubSeq(ChainOf[s], 1, k - 1)})

(* ... and whether it gets there: both ends are in the index and every prev *)
(* pointer it follows can be locked.                                        *)
BranchesFound(f, s) ==
  /\ f \in index /\ s \in index
  /\ \A b \in {f, s} : WalkTo(b, ForkNum(f, s)) # NoBlock

(* Erasing items: the prev pointers of their children expire. *)
Erase(gone) ==
  /\ index' = index \ gone
  /\ linked' = {b \in linked : Prev[b] \notin gone}

-----------------------------------------------------------------------------
(* update_last_irreversible_block()                                        *)

(* Mutant: half of the witnesses are enough. *)
MedianConfirmed(confirmed) ==
  LET offset == Cardinality(Witness) \div 2
  IN CHOOSE v \in {confirmed[w] : w \in Witness} :
       /\ Cardinality({w \in Witness : confirmed[w] < v}) <= offset
       /\ Cardinality({w \in Witness : confirmed[w] <= v}) > offset

(* The vote: the element at offset 25% of the sorted confirmations. *)
ThresholdConfirmed(confirmed) ==
  LET offset == Cardinality(Witness) \div 4
  IN CHOOSE v \in {confirmed[w] : w \in Witness} :
       /\ Cardinality({w \in Witness : confirmed[w] < v}) <= offset
       /\ Cardinality({w \in Witness : confirmed[w] <= v}) > offset

LastIrreversible(s) ==
  IF Num[s.head] < StartVoting
    THEN IF Num[s.head] > MaxWitnesses THEN Num[s.head] - MaxWitnesses ELSE s.lib
    ELSE Max({s.lib, ThresholdConfirmed(s.confirmed)})

(* Mutant: the last irreversible block itself stays undoable. *)
CommittedBefore(stack, lib) ==
  SelectSeq(stack, LAMBDA s : Num[s.head] + 1 >= lib)

(* chainbase commit(): the state saved before block n has revision n. *)
Committed(stack, lib) ==
  SelectSeq(stack, LAMBDA s : Num[s.head] + 1 > lib)

(* The block numbers the log lacks, up to the first the fork database does  *)
(* not give; it throws there.                                               *)
Missing(lib) == {n \in (Len(log) + 1)..lib : fetch_block_on_main_branch_by_number(n) = NoBlock}

Logged(lib) ==
  LET last == IF Missing(lib) = {} THEN Max({lib, Len(log)}) ELSE Min(Missing(lib)) - 1
  IN log \o [k \in 1..(last - Len(log)) |-> fetch_block_on_main_branch_by_number(Len(log) + k)]

(* set_max_size(), called last, with the head of the fork database as it is. *)
Prune(s) ==
  LET size == head_block_num' - s.lib + 1
  IN /\ max_size' = size
     /\ Erase({b \in index : fhead # NoBlock /\ Num[b] < Num[fhead] - size})

(* Confirmation of block b by its producer: never lowered. *)
Confirm(s, b) ==
  [s EXCEPT !.confirmed[Producer[b]] = Max({@, Num[b]})]

(* The state after block b, its last irreversible block included. *)
AfterBlock(b) ==
  LET s == Confirm([st EXCEPT !.head = b], b)
  IN [s EXCEPT !.lib = LastIrreversible(s)]

Applies(b) == b \notin Bad /\ Prev[b] = st.head

(* start_undo_session(), apply_block(b), push(). *)
Apply(b) ==
  /\ Applies(b) /\ Missing(AfterBlock(b).lib) = {}
  /\ st' = AfterBlock(b)
  /\ saved' = Committed(Append(saved, st), st'.lib)
  /\ log' = Logged(st'.lib)
  /\ Prune(st')

(* apply_block(b) throws.  A block that does not apply leaves no trace.  If *)
(* the log cannot be written the state has been committed: the session      *)
(* undoes what is left of its stack and what was logged stays.  What comes  *)
(* after update_last_irreversible_block() (payouts, schedule, hardforks) is *)
(* taken not to throw: Bad blocks fail before it.                           *)
ApplyThrows(b) ==
  \/ /\ ~Applies(b)
     /\ UNCHANGED <<st, saved, log>>
  \/ /\ Applies(b) /\ Missing(AfterBlock(b).lib) # {}
     /\ LET s == AfterBlock(b)
            stack == Committed(Append(saved, st), s.lib)
        IN IF stack = <<>>
             THEN st' = s /\ saved' = stack
             ELSE st' = stack[Len(stack)] /\ saved' = SubSeq(stack, 1, Len(stack) - 1)
     /\ log' = Logged(AfterBlock(b).lib)

-----------------------------------------------------------------------------
(* push_block()                                                            *)

(* Mutant: the pending session is opened after the flag is set. *)
push_transaction_unsaved ==
  /\ pc = "idle" /\ ~pending
  /\ pending' = TRUE
  /\ UNCHANGED <<world, st, saved, forkdb, log, pc, sw, result>>

(* push_transaction() opens the pending session if there is none, also for  *)
(* a transaction that then throws.                                          *)
push_transaction ==
  /\ pc = "idle" /\ ~pending
  /\ pending' = TRUE
  /\ saved' = Append(saved, st)
  /\ UNCHANGED <<world, st, forkdb, log, pc, sw, result>>

(* Mutant: the pending session is dropped without undoing it. *)
ClearPendingPushed ==
  /\ pending' = FALSE
  /\ UNCHANGED <<st, saved>>

ClearPending ==
  /\ pending' = FALSE
  /\ IF pending THEN st' = saved[Len(saved)] /\ saved' = SubSeq(saved, 1, Len(saved) - 1)
     ELSE UNCHANGED <<st, saved>>

(* generate_block() that throws before it pushes its block.  One that does   *)
(* not is push_block, which begins by undoing the pending session as well.  *)
generate_block_throws ==
  /\ pc = "idle" /\ pending
  /\ ClearPending
  /\ UNCHANGED <<world, forkdb, log, pc, sw, result>>

(* _push_block() returns or throws. *)
Return(how) ==
  /\ pc' = "return" /\ sw' = NoSwitch
  /\ result' = [result EXCEPT !.how = how]

(* The last thing push_block() does, however it ends, is to push the popped *)
(* and the pending transactions again.  Transactions are not modelled:      *)
(* whether there is one to push is a choice.                                *)
restore_pending ==
  /\ pc = "return" /\ pc' = "idle"
  /\ pending' \in BOOLEAN
  /\ saved' = IF pending' THEN Append(saved, st) ELSE saved
  /\ UNCHANGED <<world, st, forkdb, log, sw, result>>

Begin(how) == result' = [how |-> how, head |-> st.head, fhead |-> fhead]

(* Mutant: only a block on the head can become the head. *)
HeadIfNext(b) == IF fhead = NoBlock \/ Prev[b] = fhead THEN b ELSE fhead

(* What fork_database::push_block(b) makes the head. *)
HeadWith(b) == IF fhead = NoBlock \/ Num[b] > Num[fhead] THEN b ELSE fhead

Insert(b) ==
  /\ index' = index \cup {b}
  /\ linked' = IF fhead # NoBlock /\ b \notin index /\ Prev[b] # Genesis
                  THEN linked \cup {b} ELSE linked
  /\ fhead' = HeadWith(b)

(* The network layer asks for a block only if the node does not have it. *)
is_known_block(b) == b \in index \cup {log[n] : n \in DOMAIN log}

(* push_block() up to the decision: build on the head, ignore or switch.    *)
(* What is applied on the head is b, also if new_head is another block.     *)
push_block(b) ==
  /\ pc = "idle" /\ Links(b) /\ (is_known_block(b) => b \in Redelivered)
  /\ Insert(b) /\ ClearPending
  /\ LET new_head == HeadWith(b)
     IN \/ /\ Prev[new_head] = st.head
           /\ pc' = "apply" /\ sw' = [NoSwitch EXCEPT !.new = b]
           /\ Begin("none")
        \/ /\ Prev[new_head] # st.head /\ Num[new_head] <= head_block_num
           /\ pc' = "return" /\ sw' = NoSwitch
           /\ Begin("ignored")
        \/ /\ Prev[new_head] # st.head /\ Num[new_head] > head_block_num
           /\ pc' = "pop" /\ sw' = [new |-> new_head, old |-> st.head, fork |-> 0]
           /\ Begin("none")
  /\ UNCHANGED <<world, max_size, log>>

(* The fork database throws: too old, or its previous is not known. *)
push_block_refused(b) ==
  /\ pc = "idle" /\ ~Links(b)
  /\ ClearPending
  /\ pc' = "return" /\ Begin("failed")
  /\ UNCHANGED <<world, forkdb, log, sw>>

apply_on_head ==
  /\ pc = "apply" /\ sw.old = NoBlock
  /\ Apply(sw.new)
  /\ Return("ok")
  /\ UNCHANGED <<world, pending, fhead>>

(* The block is removed again; _head is not. *)
apply_on_head_throws ==
  /\ pc = "apply" /\ sw.old = NoBlock
  /\ ApplyThrows(sw.new)
  /\ Erase({sw.new})
  /\ Return("failed")
  /\ UNCHANGED <<world, pending, fhead, max_size>>

(* fetch_branch_from() *)
fetch_branch_from ==
  /\ pc = "pop" /\ sw.fork = 0
  /\ IF BranchesFound(sw.new, sw.old)
       THEN sw' = [sw EXCEPT !.fork = ForkNum(sw.new, sw.old)] /\ UNCHANGED <<pc, result>>
       ELSE Return("failed")
  /\ UNCHANGED <<world, st, saved, pending, forkdb, log>>

(* "head_block_id() != branches.second.back()->data.previous" *)
AtFork == st.head = Prev[ChainOf[sw.old][sw.fork]]

(* pop_block(): the head block is fetched first, then the head of the fork  *)
(* database moves to its own previous, whatever block the state takes back. *)
(* undo() does nothing on an empty stack.                                   *)
CanPop == is_known_block(st.head) /\ fhead # NoBlock /\ fhead \in linked

pop_block ==
  /\ pc \in {"pop", "unwind"} /\ sw.fork # 0 /\ ~AtFork /\ CanPop
  /\ fhead' = Prev[fhead]
  /\ IF saved = <<>> THEN UNCHANGED <<st, saved>>
     ELSE st' = saved[Len(saved)] /\ saved' = SubSeq(saved, 1, Len(saved) - 1)
  /\ UNCHANGED <<world, pending, index, linked, max_size, log, pc, sw, result>>

(* Mutant: the exception is caught in the loop. *)
pop_block_ignores ==
  /\ pc \in {"pop", "unwind"} /\ sw.fork # 0 /\ ~AtFork /\ ~CanPop
  /\ UNCHANGED vars

(* Its assertions throw out of _push_block() with the switch half done. *)
pop_block_throws ==
  /\ pc \in {"pop", "unwind"} /\ sw.fork # 0 /\ ~AtFork /\ ~CanPop
  /\ Return("torn")
  /\ UNCHANGED <<world, st, saved, pending, forkdb, log>>

pop_done ==
  /\ pc \in {"pop", "unwind"} /\ sw.fork # 0 /\ AtFork
  /\ pc' = IF pc = "pop" THEN "apply" ELSE "restore"
  /\ UNCHANGED <<world, st, saved, pending, forkdb, log, sw, result>>

(* The next block of the branch that ends in b. *)
NextOf(b) == ChainOf[b][head_block_num + 1]

apply_branch ==
  /\ pc = "apply" /\ sw.old # NoBlock
  /\ Apply(NextOf(sw.new))
  /\ IF st'.head = sw.new THEN Return("ok") ELSE UNCHANGED <<pc, sw, result>>
  /\ UNCHANGED <<world, pending, fhead>>

(* Mutant: the old head is not put back. *)
apply_branch_throws_on ==
  /\ pc = "apply" /\ sw.old # NoBlock
  /\ LET b == NextOf(sw.new)
     IN /\ ApplyThrows(b)
        /\ Erase({ChainOf[sw.new][k] : k \in Num[b]..Num[sw.new]})
  /\ pc' = "unwind"
  /\ UNCHANGED <<world, pending, fhead, max_size, sw, result>>

(* The rest of the branch is removed and the old head put back. *)
apply_branch_throws ==
  /\ pc = "apply" /\ sw.old # NoBlock
  /\ LET b == NextOf(sw.new)
     IN /\ ApplyThrows(b)
        /\ Erase({ChainOf[sw.new][k] : k \in Num[b]..Num[sw.new]})
  /\ fhead' = sw.old
  /\ pc' = "unwind"
  /\ UNCHANGED <<world, pending, max_size, sw, result>>

(* These blocks applied before, on the same state, and what they make       *)
(* irreversible has been logged: nothing is there to throw.                 *)
restore_branch ==
  /\ pc = "restore"
  /\ Apply(NextOf(sw.old))
  /\ IF st'.head = sw.old THEN Return("failed") ELSE UNCHANGED <<pc, sw, result>>
  /\ UNCHANGED <<world, pending, fhead>>

(* confirm_block(): the header must fit on the head, so the block has not   *)
(* been applied.  No session is opened: what it changes belongs to the      *)
(* newest undo state, and stays if the log cannot be written.               *)
confirm_block(b) ==
  /\ pc = "idle" /\ b \in Overtaking /\ Prev[b] = st.head
  /\ st.confirmed[Producer[b]] <= Num[b]
  /\ LET s == Confirm(st, b)
     IN st' = [s EXCEPT !.lib = LastIrreversible(s)]
  /\ st' # st
  /\ saved' = Committed(saved, st'.lib)
  /\ pending' = (pending /\ saved' # <<>>)
  /\ log' = Logged(st'.lib)
  /\ IF Missing(st'.lib) = {} THEN Prune(st') ELSE UNCHANGED <<index, linked, max_size>>
  /\ UNCHANGED <<world, fhead, pc, sw, result>>

(* close() and open(): all sessions are undone, the fork database begins    *)
(* anew with the head block, which the block log must have (StateRecovery). *)
Floor == IF saved = <<>> THEN st ELSE saved[1]

restart ==
  /\ pc = "idle" /\ index # {}
  /\ Floor.head = Genesis \/ (log # <<>> /\ Floor.head \in {log[n] : n \in DOMAIN log})
  /\ st' = Floor /\ saved' = <<>> /\ pending' = FALSE
  /\ index' = {Floor.head} \ {Genesis} /\ linked' = {} /\ max_size' = MaxSize
  /\ fhead' = IF Floor.head = Genesis THEN NoBlock ELSE Floor.head
  /\ result' = [how |-> "none", head |-> Genesis, fhead |-> NoBlock]
  /\ UNCHANGED <<world, log, pc, sw>>

Push ==
  \/ apply_on_head \/ apply_on_head_throws \/ fetch_branch_from \/ pop_block
  \/ pop_block_throws \/ pop_done \/ apply_branch \/ apply_branch_throws
  \/ restore_branch \/ restore_pending

(* "As long as blocks are pushed in order" (fork_database.hpp): an empty    *)
(* fork database would take any block for its head.                         *)
InOrder(b) == index = {} => Prev[b] = Genesis

Next ==
  \/ push_transaction \/ generate_block_throws \/ restart \/ Push
  \/ \E b \in world : (InOrder(b) /\ push_block(b)) \/ push_block_refused(b) \/ confirm_block(b)

Spec == Init /\ [][Next]_vars /\ WF_vars(Push)

-----------------------------------------------------------------------------
(* Between pushes the undo stack is the end of the head's chain: each saved  *)
(* state is that of the block before the next, so pop_block() and a restart  *)
(* give a state the chain has really been in.                                *)
StackIsChain ==
  LET states == Append(saved, st)
      top == IF pending THEN Len(saved) ELSE Len(states)
  IN pc = "idle" =>
       /\ \A k \in 1..(top - 1) :
            states[k + 1].head \in Block /\ Prev[states[k + 1].head] = states[k].head
       /\ pending => saved[Len(saved)].head = st.head

(* A block in the block log is final: it is on the chain of the oldest state *)
(* the undo stack can give back, also in the middle of a fork switch.        *)
LoggedIsFinal ==
  /\ Len(log) <= Num[Floor.head]
  /\ log = SubSeq(ChainOf[Floor.head], 1, Len(log))

(* "The block height that 75% of the witnesses have confirmed"               *)
(* (database.cpp:3825, translated), and "Blocks should only be written to    *)
(* the log after they irreverisble" (block_log.hpp:11): three quarters of    *)
(* the witnesses have built on every block in the log.                       *)
LoggedIsBacked ==
  \A n \in DOMAIN log :
    4 * Cardinality({Producer[b] : b \in {c \in world : Num[c] >= n /\ ChainOf[c][n] = log[n]}})
      >= 3 * Cardinality(Witness)

(* The node is on the longest chain it knows: no push ends with a higher     *)
(* block left in the fork database, unless the node followed a minority that *)
(* the votes have left behind (README, "Cases left out").                    *)
LongestChain ==
  world \notin Partitions /\ pc = "idle" => \A b \in index : Num[b] <= head_block_num

(* A fork switch that meets a block which does not apply goes back to the    *)
(* head it left, and a block refused leaves the head alone; only after such  *)
(* a partition does a switch break off half way.                             *)
FailedPushKeepsHead ==
  /\ world \notin Partitions => result.how # "torn"
  /\ result.how = "failed" /\ pc = "idle" => st.head = result.head

(* Every call of push_block() returns: a fork switch does not pop forever.   *)
PushReturns == pc # "idle" ~> pc = "idle"

(* Head, undo stack and block log are of one chain: what can be taken back   *)
(* leads to what is logged, and nothing logged can be taken back.            *)
ChainSound == TypeOK /\ StackIsChain /\ LoggedIsFinal
=============================================================================
