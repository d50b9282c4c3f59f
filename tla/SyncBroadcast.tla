--------------------------- MODULE SyncBroadcast ----------------------------
(***************************************************************************)
(* broadcast_transaction_synchronous() of condenser_api on top of the      *)
(* transaction pool: a web thread registers a callback that refers to a    *)
(* promise on its stack, hands the transaction to the write thread and     *)
(* waits for the block that contains it or comes after it has expired      *)
(* (condenser_api.cpp:1830-1887, 2320).                                    *)
(*                                                                         *)
(* _callbacks and _callback_expirations are only touched under _mtx, so    *)
(* each critical section is a step; the write thread applies blocks and    *)
(* transactions one at a time.                                             *)
(***************************************************************************)
EXTENDS TransactionPool

CONSTANTS Client,         \* the web threads that make such a call
          Sent,           \* bound: [Client -> Tx], what each of them sends
          NoTx

ASSUME SentAssumption == Sent \in [Client -> Tx] /\ NoTx \notin Client

VARIABLES call,           \* where the call of each client is
          promise,        \* what its promise has been set to
          callbacks,      \* _callbacks: the client whose promise is referred to, or NoTx
          expirations     \* _callback_expirations: the transactions in it

syncVars == <<call, promise, callbacks, expirations>>
vars == <<poolVars, syncVars>>

TypeOK ==
  /\ PoolTypeOK
  /\ call \in [Client -> {"idle", "queued", "failed", "waiting", "thrown", "returned"}]
  /\ promise \in [Client -> {"unset", "confirmed", "expired"}]
  /\ callbacks \in [Tx -> Client \cup {NoTx}]
  /\ expirations \subseteq Tx

Init ==
  /\ PoolInit
  /\ call = [c \in Client |-> "idle"] /\ promise = [c \in Client |-> "unset"]
  /\ callbacks = [t \in Tx |-> NoTx] /\ expirations = {}

-----------------------------------------------------------------------------
(* Mutant: the expiration is not noted. *)
register_unlisted(c) ==
  /\ call[c] = "idle" /\ callbacks[Sent[c]] = NoTx
  /\ call' = [call EXCEPT ![c] = "queued"]
  /\ callbacks' = [callbacks EXCEPT ![Sent[c]] = c]
  /\ UNCHANGED <<poolVars, promise, expirations>>

(* The first critical section of the call. *)
register(c) ==
  /\ call[c] = "idle"
  /\ IF callbacks[Sent[c]] # NoTx
       THEN call' = [call EXCEPT ![c] = "thrown"] /\ UNCHANGED <<callbacks, expirations>>
       ELSE /\ call' = [call EXCEPT ![c] = "queued"]
            /\ callbacks' = [callbacks EXCEPT ![Sent[c]] = c]
            /\ expirations' = expirations \cup {Sent[c]}
  /\ UNCHANGED <<poolVars, promise>>

(* accept_transaction(), in the write thread.  broadcast_transaction(), next *)
(* to it, may throw as well, which has the same handler and is left out.     *)
accept_transaction(c) ==
  /\ call[c] = "queued"
  /\ \/ push_transaction(Sent[c]) /\ call' = [call EXCEPT ![c] = "waiting"]
     \/ ~CanPush(Sent[c]) /\ call' = [call EXCEPT ![c] = "failed"] /\ UNCHANGED poolVars
  /\ UNCHANGED <<promise, callbacks, expirations>>

(* Mutant: the callback stays when the transaction was refused. *)
erase_nothing(c) ==
  /\ call[c] = "failed"
  /\ call' = [call EXCEPT ![c] = "thrown"]
  /\ UNCHANGED <<poolVars, promise, callbacks, expirations>>

(* The second critical section, in the handlers of an exception: whoever's   *)
(* callback it is.                                                           *)
erase(c) ==
  /\ call[c] = "failed"
  /\ callbacks' = [callbacks EXCEPT ![Sent[c]] = NoTx]
  /\ call' = [call EXCEPT ![c] = "thrown"]
  /\ UNCHANGED <<poolVars, promise, expirations>>

(* p.get_future().get() *)
answered(c) ==
  /\ call[c] = "waiting" /\ promise[c] # "unset"
  /\ call' = [call EXCEPT ![c] = "returned"]
  /\ UNCHANGED <<poolVars, promise, callbacks, expirations>>

(* The expirations that are before the block's time. *)
Passed(s, time) == {t \in s.expirations : Expiration[t] < time}

(* on_post_apply_block(): the transactions of the block are confirmed, then  *)
(* those that expired before it are given up.                                *)
Answer(s, txs, outcome) ==
  [s EXCEPT !.promise = [c \in Client |->
                           IF \E t \in txs : s.callbacks[t] = c THEN outcome ELSE @[c]],
            !.callbacks = [t \in Tx |-> IF t \in txs THEN NoTx ELSE @[t]]]

Posted(s, x) ==
  LET confirmed == Answer(s, Range(x.block.txs), "confirmed")
      passed == Passed(confirmed, x.block.time)
  IN  [Answer(confirmed, passed, "expired") EXCEPT !.expirations = @ \ passed]

on_post_apply_block(applied) ==
  LET post[n \in 0..Len(applied)] ==
        IF n = 0 THEN [promise |-> promise, callbacks |-> callbacks, expirations |-> expirations]
        ELSE Posted(post[n - 1], applied[n])
      s == post[Len(applied)]
  IN  /\ promise' = s.promise /\ callbacks' = s.callbacks /\ expirations' = s.expirations
      /\ UNCHANGED call

-----------------------------------------------------------------------------
(* A transaction from a peer or from broadcast_transaction(). *)
Broadcast == \E t \in Tx : push_transaction(t) /\ UNCHANGED syncVars

Produce ==
  \E when \in 1..MaxTime :
    push_block(Assembled(when)) /\ on_post_apply_block(Above(chain', Len(chain)))

Receive == \E b \in Block : push_block(b) /\ on_post_apply_block(Above(chain', Len(chain)))

Depths == {n \in 1..MaxFork : n <= Len(chain) /\ switches < MaxSwitches}

Switch ==
  \E n \in Depths : LET k == Len(chain) - n IN
    \E fork \in Longer(Kept(k), n + 1) : switch_fork(k, fork) /\ on_post_apply_block(Above(fork, k))

(* There always is an invalid block. *)
SwitchFails ==
  \E n \in Depths : LET k == Len(chain) - n IN
    \E j \in 0..n : \E fork \in Longer(Kept(k), j) :
      switch_fork_fails(k, fork) /\ on_post_apply_block(Above(fork, k) \o Above(chain, k))

Calls(c) == register(c) \/ accept_transaction(c) \/ erase(c) \/ answered(c)

Next ==
  \/ \E c \in Client : Calls(c)
  \/ Broadcast \/ Produce \/ Receive \/ Switch \/ SwitchFails

(* The threads run and there are blocks: this node or another produces. *)
Fairness ==
  /\ \A c \in Client : WF_vars(accept_transaction(c) \/ erase(c) \/ answered(c))
  /\ WF_vars(Produce)

Spec == Init /\ [][Next]_vars /\ Fairness

-----------------------------------------------------------------------------
(* Every callback refers to the promise of a call that is still running and  *)
(* has no answer yet: the write thread never writes to a stack that is gone, *)
(* nor sets a promise twice (condenser_api.cpp:1843).                        *)
PromisesAlive ==
  \A t \in Tx :
    callbacks[t] # NoTx =>
      /\ call[callbacks[t]] \in {"queued", "failed", "waiting"}
      /\ promise[callbacks[t]] = "unset"

(* broadcast_transaction_synchronous() returns: a transaction that was       *)
(* accepted is in a block or expires, whatever forks come and go             *)
(* (condenser_api.cpp:1887).                                                 *)
CallsReturn == \A c \in Client : call[c] = "waiting" ~> call[c] = "returned"

(* What is pending can be applied as it stands, and nothing comes twice. *)
PoolSound == TypeOK /\ PendingApplies /\ AppliedOnce
=============================================================================
