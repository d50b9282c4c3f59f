-------------------------- MODULE TransactionPool ---------------------------
(***************************************************************************)
(* Transactions on their way into blocks: _pending_tx, the index of known  *)
(* transactions, and what blocks and fork switches do to both              *)
(* (libraries/chain/database.cpp, db_with.hpp).                            *)
(*                                                                         *)
(* Each block above the irreversible one is kept with the state it led to, *)
(* to which pop_block() gets back exactly, as shown in UndoIndex.  A       *)
(* transaction may need others applied before it, or spend what another    *)
(* one also spends.  Signatures and references to blocks (TaPoS) are left  *)
(* out.  A block that is refused, or that does not make a longer chain,    *)
(* ends in the state it found and is no step.                              *)
(***************************************************************************)
EXTENDS Integers, SequencesExt, FiniteSetsExt

CONSTANTS Tx,
          Expiration,     \* [Tx -> Nat]
          Needs,          \* [Tx -> SUBSET Tx]
          Spends,         \* [Tx -> a coin or NoCoin]
          NoCoin,
          MaxUntilExpiration, \* GAMEBANK_MAX_TIME_UNTIL_EXPIRATION, in slots
          BlockSize,      \* maximum_block_size, in transactions
          MaxTime,        \* bound: slots
          MaxFork,        \* bound: blocks a fork switch takes back
          MaxSwitches     \* bound: fork switches

ASSUME ExpirationAssumption == Expiration \in [Tx -> Nat] /\ Needs \in [Tx -> SUBSET Tx]
ASSUME BlockSizeAssumption == BlockSize \in Nat \ {0}
ASSUME BoundsAssumption == {MaxUntilExpiration, MaxTime, MaxFork, MaxSwitches} \subseteq Nat

VARIABLES chain,          \* the blocks above the irreversible one, with their states
          pending,        \* _pending_tx
          switches        \* bound: fork switches so far

poolVars == <<chain, pending, switches>>

Block == [time : 1..MaxTime, txs : SeqOf(Tx, BlockSize)]

State == [known : SUBSET Tx, applied : SUBSET Tx, time : 0..MaxTime]

PoolTypeOK ==
  /\ \A i \in DOMAIN chain : chain[i].block \in Block /\ chain[i].st \in State
  /\ pending \in Seq(Tx)
  /\ switches \in 0..MaxSwitches

PoolInit == chain = <<>> /\ pending = <<>> /\ switches = 0

-----------------------------------------------------------------------------
(* A state: the index of known transactions, all that were applied, the      *)
(* head block's time.                                                        *)
Genesis == [known |-> {}, applied |-> {}, time |-> 0]

(* The conditions of _apply_transaction() and of the operations.  The empty  *)
(* chain ends at an irreversible block, not at block 0, where the expiration *)
(* is not looked at.                                                         *)
Applies(st, t) ==
  /\ t \notin st.known
  /\ st.time < Expiration[t] /\ Expiration[t] <= st.time + MaxUntilExpiration
  /\ Needs[t] \subseteq st.applied
  /\ Spends[t] # NoCoin => \A u \in st.applied \ {t} : Spends[u] # Spends[t]

_apply_transaction(st, t) == [st EXCEPT !.known = @ \cup {t}, !.applied = @ \cup {t}]

(* One transaction after the other, those that do not apply passed over.     *)
Try(acc, t) ==
  IF Applies(acc.st, t)
  THEN [st |-> _apply_transaction(acc.st, t), txs |-> Append(acc.txs, t)]
  ELSE acc
Tried(st, txs) ==
  LET acc[n \in 0..Len(txs)] == IF n = 0 THEN [st |-> st, txs |-> <<>>]
                               ELSE Try(acc[n - 1], txs[n])
  IN  acc[Len(txs)]

(* Mutant: transactions leave the index in the slot before they expire. *)
clear_expired_early(st) == [st EXCEPT !.known = {t \in @ : st.time + 1 < Expiration[t]}]

clear_expired_transactions(st) == [st EXCEPT !.known = {t \in @ : st.time <= Expiration[t]}]

(* _apply_block(); in a valid block every transaction applies. *)
_apply_block(st, b) ==
  clear_expired_transactions([Tried(st, b.txs).st EXCEPT !.time = b.time])

Valid(st, b) == b.time > st.time /\ Tried(st, b.txs).txs = b.txs

(* The state at the top of a chain; a chain with one more block. *)
StateOf(ch) == IF ch = <<>> THEN Genesis ELSE Last(ch).st
Applied(ch, b) == Append(ch, [block |-> b, st |-> _apply_block(StateOf(ch), b)])

(* The chains n valid blocks longer than ch. *)
Longer(ch, n) ==
  LET f[i \in 0..n] == IF i = 0 THEN {ch}
                      ELSE UNION {{Applied(x, b) : b \in {y \in Block : Valid(StateOf(x), y)}} :
                                    x \in f[i - 1]}
  IN  f[n]

(* _popped_tx after pop_block() of all the blocks of ch. *)
Popped(ch) == FlattenSeq([i \in DOMAIN ch |-> ch[i].block.txs])

(* Mutant: what was pending is pushed before what was popped. *)
RestoredPendingFirst(st, popped) == Tried(st, pending \o popped).txs

(* Mutant: a transaction that is not known is pushed without a trial. *)
RestoredUntried(st, popped) == SelectSeq(popped \o pending, LAMBDA t : t \notin st.known)

(* The end of without_pending_transactions(): the transactions popped and    *)
(* then the ones that were pending are pushed on the new state.              *)
Restored(st, popped) == Tried(st, popped \o pending).txs

-----------------------------------------------------------------------------
(* push_transaction() *)
CanPush(t) == Applies(Tried(StateOf(chain), pending).st, t)

push_transaction(t) ==
  /\ CanPush(t)
  /\ pending' = Append(pending, t)
  /\ UNCHANGED <<chain, switches>>

(* _push_block() of a block on the head *)
push_block(b) ==
  /\ Valid(StateOf(chain), b)
  /\ chain' = Applied(chain, b)
  /\ pending' = Restored(StateOf(chain'), <<>>)
  /\ UNCHANGED switches

(* _push_block() of the block that makes the fork above the first k blocks   *)
(* the longest chain.                                                        *)
Kept(k) == SubSeq(chain, 1, k)
Above(ch, k) == SubSeq(ch, k + 1, Len(ch))

switch_fork(k, fork) ==
  /\ chain' = fork
  /\ pending' = Restored(StateOf(fork), Popped(Above(chain, k)))
  /\ switches' = switches + 1

(* The same when a later block of the fork fails: the blocks that did apply  *)
(* are popped as well, and the old branch is applied again.                  *)
switch_fork_fails(k, fork) ==
  /\ pending' = Restored(StateOf(chain), Popped(Above(fork, k) \o Above(chain, k)))
  /\ switches' = switches + 1
  /\ UNCHANGED chain

(* Mutant: no limit to the size. *)
AddAll(acc, t, when) == IF Expiration[t] < when THEN acc ELSE Try(acc, t)

(* The block _generate_block() makes: what has not expired at the time of    *)
(* the block, fits, and still applies.                                       *)
Add(acc, t, when) ==
  IF Expiration[t] < when \/ Len(acc.txs) = BlockSize THEN acc ELSE Try(acc, t)
Assembled(when) ==
  LET acc[n \in 0..Len(pending)] == IF n = 0 THEN [st |-> StateOf(chain), txs |-> <<>>]
                                   ELSE Add(acc[n - 1], pending[n], when)
  IN  [time |-> when, txs |-> acc[Len(pending)].txs]

-----------------------------------------------------------------------------
InChain(ch) == UNION {Range(ch[i].block.txs) : i \in DOMAIN ch}

(* _pending_tx_session is the result of applying _pending_tx                 *)
(* (database.cpp:1012): on the head state each of them applies, in order,    *)
(* and a block made of them can be pushed.                                   *)
PendingApplies ==
  /\ Tried(StateOf(chain), pending).txs = pending
  /\ \A when \in (StateOf(chain).time + 1)..MaxTime : Valid(StateOf(chain), Assembled(when))

(* A transaction is in the chain and the pending ones together at most once, *)
(* also after it has left the index of known transactions                    *)
(* (database.cpp:4081).                                                      *)
AppliedOnce ==
  LET all == Popped(chain) \o pending IN Cardinality(Range(all)) = Len(all)

(* No accepted transaction is dropped while it could still be applied: what  *)
(* leaves the pending ones or, in a fork switch, the chain has become        *)
(* invalid (db_with.hpp:54).                                                 *)
NothingLost ==
  [][\A t \in (Range(pending) \cup InChain(chain)) \ (Range(pending') \cup InChain(chain')) :
       ~Applies(Tried(StateOf(chain'), pending').st, t)]_poolVars
=============================================================================
