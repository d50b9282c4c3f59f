------------------------------- MODULE Ledger -------------------------------
(***************************************************************************)
(* All that holds GBC and GBD together: liquid balances, savings, escrow,  *)
(* the market, conversions and crowdfunding, and the block that settles    *)
(* what has become due, in the order of database::_apply_block()           *)
(* (database.cpp:3133-3161).                                               *)
(*                                                                         *)
(* use says with what money the accounts start in this behaviour, which    *)
(* services they use and which amounts they name.                          *)
(***************************************************************************)
EXTENDS Savings, Escrow, Market, Crowdfunding

CONSTANT Uses             \* bound: the cases to explore

Service == {"transfer", "savings", "escrow", "market", "convert", "crowdfunding"}

ASSUME UsesAssumption ==
  \A u \in Uses : /\ u.services \subseteq Service
                  /\ u.opening \in [Account -> Holding]
                  /\ u.amounts \subseteq Nat \ {0}

VARIABLE use

vars == <<accounts, savingsVars, escrows, marketVars, crowdVars, use>>

Init ==
  /\ use \in Uses
  /\ AccountsInit(use.opening) /\ SavingsInit /\ EscrowInit /\ MarketInit /\ CrowdInit

TypeOK ==
  /\ use \in Uses
  /\ AccountsTypeOK /\ SavingsTypeOK /\ EscrowTypeOK /\ MarketTypeOK /\ CrowdTypeOK

Sum == {Amount(n, s) : n \in use.amounts, s \in Asset}

Quiet == trades' = <<>> /\ UNCHANGED <<orders, next_order, converts, median, use>>

-----------------------------------------------------------------------------
Transfers ==
  /\ "transfer" \in use.services
  /\ \E from \in Signer, to \in Account, x \in Sum : transfer(from, to, x)
  /\ Quiet /\ UNCHANGED <<savingsVars, escrows, crowdVars>>

UseSavings ==
  /\ "savings" \in use.services
  /\ \/ \E from \in Signer, to \in Account, x \in Sum : transfer_to_savings(from, to, x)
     \/ \E from \in Signer, to \in Account, x \in Sum, rid \in RequestId :
          transfer_from_savings(from, to, x, rid)
     \/ \E w \in withdraws : cancel_transfer_from_savings(w)
  /\ Quiet /\ UNCHANGED <<escrows, crowdVars>>

UseEscrow ==
  /\ "escrow" \in use.services
  /\ \/ \E from, agent \in Signer, to \in Account, id \in EscrowId, x \in Sum,
           fee \in Sum \cup {Nothing}, terms \in EscrowTerms :
          escrow_transfer(from, to, agent, id, x, fee, terms)
     \/ \E e \in escrows, who \in Signer : escrow_approve(e, who) \/ escrow_reject(e, who)
     \/ \E e \in escrows : escrow_dispute(e)
     \/ \E e \in escrows, who \in Signer, receiver \in Account, x \in Sum :
          escrow_release(e, who, receiver, x)
  /\ Quiet /\ UNCHANGED <<savingsVars, crowdVars>>

UseMarket ==
  /\ "market" \in use.services
  /\ \/ \E a \in Signer, oid \in OrderId, s \in Asset, n, m \in use.amounts,
           life \in OrderLife, kill \in BOOLEAN :
          limit_order_create(a, oid, s, n, m, life, kill)
     \/ \E a \in Signer, oid \in OrderId, s \in Asset, n \in use.amounts, p \in Price,
           life \in OrderLife, kill \in BOOLEAN :
          limit_order_create2(a, oid, s, n, p, life, kill)
     \/ \E o \in orders : limit_order_cancel(o)
  /\ UNCHANGED <<savingsVars, escrows, crowdVars, use>>

UseConversion ==
  /\ "convert" \in use.services
  /\ \E a \in Signer, x \in use.amounts, rid \in RequestNo : convert(a, x, rid)
  /\ UNCHANGED <<savingsVars, escrows, crowdVars, use>>

UseCrowdfunding ==
  /\ "crowdfunding" \in use.services
  /\ \/ \E a \in Signer, p \in Permlink, goal \in use.amounts : crowdfunding(a, p, goal)
     \/ \E a \in Signer, c \in campaigns, n \in use.amounts : invest(a, c, n)
  /\ Quiet /\ UNCHANGED <<savingsVars, escrows>>

(* The money side of _apply_block(), after the transactions of the block:    *)
(* orders expire, the null account is cleared, conversions, withdrawals from *)
(* savings and campaigns are settled, unratified escrows are returned.       *)
NextBlock(m) ==
  LET t == now + 1
      uncancelled == CreditAll(balance, ExpiredOrders(t), LAMBDA o : o.seller, ForSale)
      due == DueConverts(t, m)
      converted == CreditAll(Cleared(uncancelled), due,
                             LAMBDA c : c.owner, LAMBDA c : Issued(c, m))
      withdrawn == CreditAll(converted, CompletedWithdraws(t),
                             LAMBDA w : w.to, LAMBDA w : w.amount)
      refunded == CreditAll(withdrawn, Refunded(t),
                            LAMBDA i : i.invester, LAMBDA i : Amount(i.raise, "GBC"))
      raised == CreditAll(refunded, Settled(t) \ Failed(t), LAMBDA c : c.originator,
                          LAMBDA c : Amount(c.curator_raise_value, "GBC"))
  IN  /\ now < MaxTime
      /\ now' = t
      /\ median' = m
      /\ balance' = CreditAll(raised, UnratifiedEscrows(t), LAMBDA e : e.from, InEscrow)
      /\ savings' = Cleared(savings)
      /\ supply' = Converted(Less(supply, Burned(uncancelled)), due, m)
      /\ orders' = orders \ ExpiredOrders(t)
      /\ converts' = converts \ due
      /\ process_savings_withdraws(t)
      /\ process_crowdfunding(t)
      /\ expire_escrow_ratification(t)
      /\ trades' = <<>>
      /\ UNCHANGED <<next_order, last_expire, use>>

(* update_median_feed(): once there are enough feeds there is always one. *)
Medians == IF median = NoFeed THEN Feed \cup {NoFeed} ELSE Feed

Next ==
  \/ Transfers \/ UseSavings \/ UseEscrow \/ UseMarket \/ UseConversion \/ UseCrowdfunding
  \/ \E m \in Medians : NextBlock(m)

Spec == Init /\ [][Next]_vars

-----------------------------------------------------------------------------
(* Where validate_invariants() looks for asset s (database.cpp:4731): the    *)
(* balances, the savings, conversion requests, orders, escrows and pending   *)
(* withdrawals.                                                              *)
Accounted(s) ==
  TotalHeld(balance, s) + TotalHeld(savings, s)
  + TotalOf(converts, LAMBDA c : c.amount, s)
  + TotalOf(orders, ForSale, s)
  + TotalOf(escrows, InEscrow, s)
  + TotalOf(withdraws, LAMBDA w : w.amount, s)

(* "Verifies all supply invariantes check out" (database.cpp:4729): the      *)
(* assertion of validate_invariants() at database.cpp:4838, in which no      *)
(* crowdfunding campaign occurs.                                             *)
SupplyAccounted == \A s \in Asset : supply[s] = Accounted(s)

(* No operation, no settlement and no order of the two makes or loses money: *)
(* what all objects hold is the recorded supply.  Open campaigns, which      *)
(* SupplyAccounted forgets, are counted here.                                *)
SupplyConserved ==
  \A s \in Asset :
    supply[s] = Accounted(s) + TotalOf(Raised, LAMBDA i : Amount(i.raise, "GBC"), s)

(* After each operation no two resting orders could still trade: apply_order *)
(* has matched the new one as far as it goes, also past orders that were     *)
(* cancelled as too small on the way (database.cpp:3887, 4060).              *)
BookNotCrossed == \A o, p \in orders : ~Crosses(o, p)

(* Nobody trades below the own limit price, or for nothing, whatever the     *)
(* rounding of match() and the remainders of earlier trades (database.cpp:   *)
(* 3939-3963).                                                               *)
TradesHonourLimits ==
  \A i \in DOMAIN trades :
    LET f == trades[i] IN
      /\ f.receives > 0 /\ f.receives >= AtPrice(f.pays, f.new.price)
      /\ f.pays > 0 /\ f.pays >= AtPrice(f.receives, f.old.price)

(* An escrow not ratified by its deadline is gone with the block that passes *)
(* it, and an open one still owes its agent the fee exactly while one of the *)
(* approvals is missing (database.cpp:2434, gamebank_evaluator.cpp:857).     *)
RatificationEnforced ==
  \A e \in escrows :
    IF is_approved(e) THEN e.pending_fee = Nothing ELSE now < e.ratification_deadline

(* savings_withdraw_requests counts the pending withdrawals of an account,   *)
(* so that its limit neither leaks nor locks the account out                 *)
(* (gamebank_evaluator.cpp:2020, 2036, 2050, database.cpp:2154).             *)
RequestsCounted ==
  \A a \in Account :
    /\ requests[a] = Cardinality({w \in withdraws : w.from = a})
    /\ requests[a] <= RequestLimit

(* The books balance, and what is counted or limited on the way is there.    *)
LedgerSound == TypeOK /\ SupplyConserved /\ RatificationEnforced /\ RequestsCounted
=============================================================================
