------------------------------ MODULE Accounts ------------------------------
(***************************************************************************)
(* The balances of the chain's accounts and the moves every evaluator is   *)
(* built from (libraries/chain/database.cpp, gamebank_evaluator.cpp).      *)
(*                                                                         *)
(* An operation runs with head_block_time() = now, the time of the last    *)
(* block; a block then moves now on and settles what has become due.  An   *)
(* FC_ASSERT that fails undoes the whole operation, so it is a guard.      *)
(* The GBD interest rate, which the witnesses vote on, is 0: a change of a *)
(* GBD balance adds no interest to it.  Accounts are numbered in the order *)
(* of their names; NullAccount signs nothing.                              *)
(***************************************************************************)
EXTENDS Integers, FiniteSetsExt

CONSTANTS Account,       \* a set of natural numbers
          NullAccount,   \* GAMEBANK_NULL_ACCOUNT: what reaches it is burned
          MaxTime        \* bound: blocks

Asset == {"GBC", "GBD"}
Holding == [Asset -> Nat]

ASSUME AccountAssumption ==
  Account \subseteq Nat /\ IsFiniteSet(Account) /\ NullAccount \in Account
ASSUME MaxTimeAssumption == MaxTime \in Nat

VARIABLES balance,       \* balance, gbd_balance of each account
          savings,       \* savings_balance, savings_gbd_balance
          supply,        \* current_supply, current_gbd_supply
          now            \* head_block_time()

accounts == <<balance, savings, supply, now>>

Signer == Account \ {NullAccount}

AccountsTypeOK ==
  /\ balance \in [Account -> Holding]
  /\ savings \in [Account -> Holding]
  /\ supply \in Holding
  /\ now \in 0..MaxTime

-----------------------------------------------------------------------------
(* Amounts of both assets. *)

Amount(n, s) == [t \in Asset |-> IF t = s THEN n ELSE 0]
Both(x, y) == [s \in Asset |-> x[s] + y[s]]
Less(x, y) == [s \in Asset |-> x[s] - y[s]]
Covers(x, y) == \A s \in Asset : x[s] >= y[s]
Nothing == [s \in Asset |-> 0]

(* adjust_balance(), adjust_savings_balance(): one account's holding. *)
Credit(held, a, x) == [held EXCEPT ![a] = Both(@, x)]
Debit(held, a, x) == [held EXCEPT ![a] = Less(@, x)]

(* Everything in the set S, each element paid in full to its owner. *)
CreditAll(held, S, Owner(_), Paid(_)) ==
  [a \in Account |-> [s \in Asset |->
     held[a][s] + SumFunctionOnSet([x \in S |-> Paid(x)[s]], {x \in S : Owner(x) = a})]]

(* What the elements of S hold of asset s. *)
TotalOf(S, Paid(_), s) == SumFunction([x \in S |-> Paid(x)[s]])
TotalHeld(held, s) == SumFunction([a \in Account |-> held[a][s]])

-----------------------------------------------------------------------------
AccountsInit(opening) ==
  /\ balance = opening
  /\ savings = [a \in Account |-> Nothing]
  /\ supply = [s \in Asset |-> TotalHeld(opening, s)]
  /\ now = 0

(* Mutant: the balance is not looked at. *)
transfer_unchecked(from, to, x) ==
  /\ balance' = Credit(Debit(balance, from, x), to, x)
  /\ UNCHANGED <<savings, supply, now>>

(* transfer_evaluator; the account may name itself. *)
transfer(from, to, x) ==
  /\ Covers(balance[from], x)
  /\ balance' = Credit(Debit(balance, from, x), to, x)
  /\ UNCHANGED <<savings, supply, now>>

(* clear_null_account_balance(): what the null account holds in b and in     *)
(* savings leaves the supply.                                                *)
Burned(b) == Both(b[NullAccount], savings[NullAccount])
Cleared(b) == [b EXCEPT ![NullAccount] = Nothing]
=============================================================================
