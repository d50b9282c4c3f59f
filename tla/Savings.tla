------------------------------ MODULE Savings -------------------------------
(***************************************************************************)
(* Savings: money moves in at once and out after a delay, during which the *)
(* withdrawal can be cancelled (gamebank_evaluator.cpp:2005-2052,          *)
(* database.cpp:2145).                                                     *)
(***************************************************************************)
EXTENDS Accounts

CONSTANTS RequestId,      \* the request ids accounts use
          WithdrawTime,   \* GAMEBANK_SAVINGS_WITHDRAW_TIME, in blocks
          RequestLimit    \* GAMEBANK_SAVINGS_WITHDRAW_REQUEST_LIMIT

ASSUME SavingsAssumption == WithdrawTime \in Nat /\ RequestLimit \in Nat

VARIABLES withdraws,      \* savings_withdraw_index
          requests        \* account_object::savings_withdraw_requests

savingsVars == <<withdraws, requests>>

SavingsWithdraw ==
  [from : Account, to : Account, request_id : RequestId, amount : Holding, complete : Nat]

SavingsTypeOK ==
  /\ withdraws \subseteq SavingsWithdraw
  /\ requests \in [Account -> Int]

SavingsInit ==
  /\ withdraws = {}
  /\ requests = [a \in Account |-> 0]

transfer_to_savings(from, to, x) ==
  /\ Covers(balance[from], x)
  /\ balance' = Debit(balance, from, x)
  /\ savings' = Credit(savings, to, x)
  /\ UNCHANGED <<supply, now, savingsVars>>

(* create<savings_withdraw_object> refuses a request id in use. *)
transfer_from_savings(from, to, x, rid) ==
  /\ requests[from] < RequestLimit
  /\ Covers(savings[from], x)
  /\ ~\E w \in withdraws : w.from = from /\ w.request_id = rid
  /\ savings' = Debit(savings, from, x)
  /\ withdraws' = withdraws \cup
       {[from |-> from, to |-> to, request_id |-> rid, amount |-> x, complete |-> now + WithdrawTime]}
  /\ requests' = [requests EXCEPT ![from] = @ + 1]
  /\ UNCHANGED <<balance, supply, now>>

(* Mutant: a cancelled withdrawal still counts. *)
cancel_uncounted(w) ==
  /\ savings' = Credit(savings, w.from, w.amount)
  /\ withdraws' = withdraws \ {w}
  /\ UNCHANGED <<requests, balance, supply, now>>

cancel_transfer_from_savings(w) ==
  /\ savings' = Credit(savings, w.from, w.amount)
  /\ withdraws' = withdraws \ {w}
  /\ requests' = [requests EXCEPT ![w.from] = @ - 1]
  /\ UNCHANGED <<balance, supply, now>>

(* process_savings_withdraws(): the withdrawals that are complete at time t. *)
CompletedWithdraws(t) == {w \in withdraws : w.complete <= t}

process_savings_withdraws(t) ==
  /\ withdraws' = withdraws \ CompletedWithdraws(t)
  /\ requests' = [a \in Account |->
       requests[a] - Cardinality({w \in CompletedWithdraws(t) : w.from = a})]
=============================================================================
