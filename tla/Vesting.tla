------------------------------ MODULE Vesting -------------------------------
(***************************************************************************)
(* Vesting shares: bought with GBC, sold back in instalments, routed to    *)
(* other accounts, delegated - and each change of a stake carried into the *)
(* votes of WitnessVotes (gamebank_evaluator.cpp:954-1081, 2152-2264,      *)
(* database.cpp:1296, 1510, 1606, 2079, 4115).                             *)
(*                                                                         *)
(* The minimum delegation and its minimum change, which the code derives   *)
(* from the median account creation fee, are constants; new GBC goes to    *)
(* the vesting fund and to the producer, not to content.  use is the case  *)
(* explored: who signs, what they use, the stakes and balances at first,   *)
(* and the new GBC of a block, <<to the fund, to the producer>>.           *)
(***************************************************************************)
EXTENDS WitnessVotes

CONSTANTS NullAccount,    \* GAMEBANK_NULL_ACCOUNT: what reaches it is burned
          InitialRate,    \* shares per GBC while the fund is empty
          Intervals,      \* GAMEBANK_VESTING_WITHDRAW_INTERVALS
          Interval,       \* GAMEBANK_VESTING_WITHDRAW_INTERVAL_SECONDS, in blocks
          Never,          \* time_point_sec::maximum()
          Full,           \* GAMEBANK_100_PERCENT
          MaxRoutes,      \* GAMEBANK_MAX_WITHDRAW_ROUTES
          MinDelegation, MinUpdate, ReturnPeriod,
          MaxTime,        \* bound: blocks
          Uses            \* bound: the cases to explore

ASSUME WithdrawAssumption == {Intervals, Interval, Full, InitialRate} \subseteq Nat \ {0}
ASSUME DelegationAssumption == {MinDelegation, MinUpdate} \subseteq Nat \ {0}
ASSUME NullAssumption == NullAccount \in Account \ Witness
ASSUME UsesAssumption ==
  \A u \in Uses : /\ u.signers \subseteq Account \ {NullAccount} /\ u.amounts \subseteq Nat \ {0}
                  /\ u.stake \in [Account -> Nat] /\ u.balance \in [Account -> Nat]
                  /\ u.rewards \subseteq Nat \X Nat
ASSUME TimeAssumption == {MaxTime, ReturnPeriod, MaxRoutes, Never} \subseteq Nat /\ Never > MaxTime

VARIABLES balance,        \* account_object::balance
          fund,           \* total_vesting_fund_gbc
          supply,         \* current_supply
          power_down,     \* rate, next_vesting_withdrawal, to_withdraw, withdrawn
          routes,         \* withdraw_vesting_route_index
          withdraw_routes,\* account_object::withdraw_routes
          delegated,      \* account_object::delegated_vesting_shares
          received,       \* account_object::received_vesting_shares
          delegations,    \* vesting_delegation_index: shares by delegator and delegatee
          expirations,    \* vesting_delegation_expiration_index: shares by account and date
          use

stakeVars == <<balance, fund, supply, power_down, routes, withdraw_routes,
               delegated, received, delegations, expirations>>
vars == <<voteVars, stakeVars, use>>

PowerDown == [rate : Nat, next : Nat, to_withdraw : Nat, withdrawn : Nat]
Route == [from : Account, to : Account, percent : 1..Full, auto_vest : BOOLEAN]
Date == 0..(MaxTime + ReturnPeriod)

TypeOK ==
  /\ VotesTypeOK
  /\ now \in 0..MaxTime
  /\ balance \in [Account -> Nat] /\ fund \in Nat /\ supply \in Nat
  /\ power_down \in [Account -> PowerDown]
  /\ routes \subseteq Route /\ withdraw_routes \in [Account -> Nat]
  /\ delegated \in [Account -> Nat] /\ received \in [Account -> Nat]
  /\ delegations \in [Account -> [Account -> Nat]]
  /\ expirations \in [Account -> [Date -> Nat]]

Init ==
  /\ use \in Uses
  /\ VotesInit(use.stake)
  /\ now = 0
  /\ balance = use.balance
  /\ fund = shares
  /\ supply = fund + SumFunctionOnSet(balance, Account)
  /\ power_down = [a \in Account |-> [rate |-> 0, next |-> Never, to_withdraw |-> 0, withdrawn |-> 0]]
  /\ routes = {} /\ withdraw_routes = [a \in Account |-> 0]
  /\ delegated = [a \in Account |-> 0] /\ received = [a \in Account |-> 0]
  /\ delegations = [a \in Account |-> [b \in Account |-> 0]]
  /\ expirations = [a \in Account |-> [d \in Date |-> 0]]

-----------------------------------------------------------------------------
(* Mutant: the buyer gets the fraction of a share as well. *)
BoughtUp(st, n) == IF st.fund = 0 \/ st.shares = 0 THEN n * InitialRate
                   ELSE (n * st.shares + st.fund - 1) \div st.fund

(* get_vesting_share_price(): the shares n GBC buy, the GBC n shares sell    *)
(* for, at a state st of the fund.                                           *)
Bought(st, n) == IF st.fund = 0 \/ st.shares = 0 THEN n * InitialRate
                 ELSE (n * st.shares) \div st.fund
Sold(st, n) == IF st.fund = 0 \/ st.shares = 0 THEN n \div InitialRate
               ELSE (n * st.fund) \div st.shares

(* What the steps of a block change; fits is that no assertion has failed.   *)
Current == [vesting |-> vesting, balance |-> balance, fund |-> fund, shares |-> shares,
            supply |-> supply, tally |-> tally, power_down |-> power_down, fits |-> TRUE]

(* A stake changes and the votes follow. *)
Vested(st, a, n) ==
  LET t == Adjusted(st.tally, proxy, votes, a, Own(n))
  IN  [st EXCEPT !.vesting[a] = @ + n, !.tally = t, !.fits = @ /\ Fits(t, st.shares)]

(* create_vesting() *)
create_vesting(st, a, liquid) ==
  LET n == Bought(st, liquid)
  IN  Vested([st EXCEPT !.fund = @ + liquid, !.shares = @ + n], a, n)

Becomes(st) ==
  /\ vesting' = st.vesting /\ balance' = st.balance
  /\ fund' = st.fund /\ shares' = st.shares /\ supply' = st.supply
  /\ power_down' = st.power_down

(* Mutant: the balance is not looked at. *)
transfer_to_vesting_unchecked(from, to, n) ==
  LET st == create_vesting([Current EXCEPT !.balance[from] = @ - n], to, n)
  IN  /\ st.fits
      /\ Becomes(st) /\ tally' = st.tally
      /\ UNCHANGED <<proxy, votes, voted_for, can_vote, declines, now, routes,
                     withdraw_routes, delegated, received, delegations, expirations>>

(* transfer_to_vesting_evaluator *)
transfer_to_vesting(from, to, n) ==
  LET st == create_vesting([Current EXCEPT !.balance[from] = @ - n], to, n)
  IN  /\ balance[from] >= n
      /\ st.fits
      /\ Becomes(st) /\ tally' = st.tally
      /\ UNCHANGED <<proxy, votes, voted_for, can_vote, declines, now, routes,
                     withdraw_routes, delegated, received, delegations, expirations>>

(* Mutant: delegated shares can be withdrawn. *)
withdraw_vesting_delegated(a, n) ==
  LET rate == IF n \div Intervals = 0 THEN 1 ELSE n \div Intervals
  IN  /\ vesting[a] >= n
      /\ power_down[a].rate # rate
      /\ power_down' = [power_down EXCEPT ![a] =
           [rate |-> rate, next |-> now + Interval, to_withdraw |-> n, withdrawn |-> 0]]
      /\ UNCHANGED <<voteVars, balance, fund, supply, routes, withdraw_routes,
                     delegated, received, delegations, expirations>>

(* withdraw_vesting_evaluator.  An amount of 0, which would end the          *)
(* withdrawal, is refused at the top.                                        *)
withdraw_vesting(a, n) ==
  LET rate == IF n \div Intervals = 0 THEN 1 ELSE n \div Intervals
  IN  /\ n > 0
      /\ vesting[a] - delegated[a] >= n
      /\ power_down[a].rate # rate
      /\ power_down' = [power_down EXCEPT ![a] =
           [rate |-> rate, next |-> now + Interval, to_withdraw |-> n, withdrawn |-> 0]]
      /\ UNCHANGED <<voteVars, balance, fund, supply, routes, withdraw_routes,
                     delegated, received, delegations, expirations>>

(* set_withdraw_vesting_route_evaluator: create, remove or change a route;   *)
(* the percentages of an account stay within 100 %.                          *)
RoutesOf(S, a) == {r \in S : r.from = a}

set_withdraw_vesting_route(from, to, percent, auto_vest) ==
  LET old == {r \in routes : r.from = from /\ r.to = to}
      kept == routes \ old
      new == IF percent = 0 THEN kept
             ELSE kept \cup {[from |-> from, to |-> to, percent |-> percent, auto_vest |-> auto_vest]}
  IN  /\ old = {} => percent # 0 /\ withdraw_routes[from] < MaxRoutes
      /\ SumFunction([r \in RoutesOf(new, from) |-> r.percent]) <= Full
      /\ routes' = new
      /\ withdraw_routes' = [withdraw_routes EXCEPT ![from] =
           @ + (IF old = {} THEN 1 ELSE IF percent = 0 THEN -1 ELSE 0)]
      /\ UNCHANGED <<voteVars, balance, fund, supply, power_down,
                     delegated, received, delegations, expirations>>

-----------------------------------------------------------------------------
(* delegate_vesting_shares_evaluator.  A delegation that shrinks leaves the  *)
(* delegatee at once and comes back to the delegator later.                  *)
Available(a) ==
  vesting[a] - delegated[a] - (power_down[a].to_withdraw - power_down[a].withdrawn)

delegate_more(from, to, n) ==
  LET delta == n - delegations[from][to]
  IN  /\ from # to
      /\ IF delegations[from][to] = 0 THEN n >= MinDelegation ELSE delta >= MinUpdate
      /\ Available(from) >= delta
      /\ delegated' = [delegated EXCEPT ![from] = @ + delta]
      /\ received' = [received EXCEPT ![to] = @ + delta]
      /\ delegations' = [delegations EXCEPT ![from][to] = n]
      /\ UNCHANGED <<voteVars, balance, fund, supply, power_down, routes, withdraw_routes, expirations>>

(* Mutant: the shares come back from the whole delegation, not its change. *)
delegate_less_whole(from, to, n) ==
  LET delta == delegations[from][to] - n
  IN  /\ delta > 0
      /\ n > 0 => delta >= MinUpdate /\ n >= MinDelegation
      /\ expirations' = [expirations EXCEPT ![from][now + ReturnPeriod] = @ + delegations[from][to]]
      /\ received' = [received EXCEPT ![to] = @ - delta]
      /\ delegations' = [delegations EXCEPT ![from][to] = n]
      /\ UNCHANGED <<voteVars, balance, fund, supply, power_down, routes, withdraw_routes, delegated>>

delegate_less(from, to, n) ==
  LET delta == delegations[from][to] - n
  IN  /\ delta > 0
      /\ n > 0 => delta >= MinUpdate /\ n >= MinDelegation
      /\ expirations' = [expirations EXCEPT ![from][now + ReturnPeriod] = @ + delta]
      /\ received' = [received EXCEPT ![to] = @ - delta]
      /\ delegations' = [delegations EXCEPT ![from][to] = n]
      /\ UNCHANGED <<voteVars, balance, fund, supply, power_down, routes, withdraw_routes, delegated>>

(* clear_expired_delegations() *)
Returned(t, a) == SumFunctionOnSet(expirations[a], {d \in Date : d < t})

clear_expired_delegations(t) ==
  /\ delegated' = [a \in Account |-> delegated[a] - Returned(t, a)]
  /\ expirations' = [a \in Account |-> [d \in Date |-> IF d < t THEN 0 ELSE expirations[a][d]]]

-----------------------------------------------------------------------------
(* clear_null_account_balance(), the shares included; no votes hang on them. *)
NullCleared(st) ==
  LET gbc == IF st.vesting[NullAccount] > 0 THEN Sold(st, st.vesting[NullAccount]) ELSE 0
  IN  [st EXCEPT !.supply = @ - gbc - st.balance[NullAccount], !.fund = @ - gbc,
                 !.shares = @ - st.vesting[NullAccount],
                 !.vesting[NullAccount] = 0, !.balance[NullAccount] = 0]

(* process_funds(): new GBC for the fund and, vested, for the producer. *)
Funded(st, producer, r) ==
  create_vesting([st EXCEPT !.supply = @ + r[1] + r[2], !.fund = @ + r[1]], producer, r[2])

(* Mutant: the last instalment is as large as the others. *)
InstalmentFull(st, a) ==
  IF st.power_down[a].rate < st.vesting[a] THEN st.power_down[a].rate ELSE st.vesting[a]

(* process_vesting_withdrawals(): what account a sells this time. *)
Instalment(st, a) ==
  LET p == st.power_down[a]
      n == IF p.to_withdraw - p.withdrawn < p.rate THEN p.to_withdraw % p.rate ELSE p.rate
  IN  IF n < st.vesting[a] THEN n ELSE st.vesting[a]

(* The withdrawal is done, or the next instalment is due an interval later.  *)
PowerDownAfter(p, n, left) ==
  LET done == p.withdrawn + n >= p.to_withdraw \/ left = 0
  IN  [p EXCEPT !.withdrawn = @ + n,
                !.rate = IF done THEN 0 ELSE @,
                !.next = IF done THEN Never ELSE @ + Interval]

(* What route r gets of an instalment of n shares; the routes that vest come *)
(* before those that pay GBC.                                                *)
Part(n, r) == (n * r.percent) \div Full
RouteBefore(r, s) == IF r.auto_vest = s.auto_vest THEN r.to < s.to ELSE r.auto_vest
LastRoute(R) == CHOOSE r \in R : \A s \in R \ {r} : RouteBefore(s, r)

(* Mutant: the shares sold stay in the total. *)
PaidKeepsShares(st, a, n) ==
  [st EXCEPT !.balance[a] = @ + Sold(st, n), !.fund = @ - Sold(st, n)]

(* n shares that leave a stake are sold, and account a gets the GBC. *)
Paid(st, a, n) ==
  LET gbc == Sold(st, n)
  IN  [st EXCEPT !.balance[a] = @ + gbc, !.fund = @ - gbc, !.shares = @ - n]

(* A route is served: its part is vested, or sold. *)
Served(st, n, r) ==
  IF ~r.auto_vest THEN Paid(st, r.to, Part(n, r))
  ELSE IF Part(n, r) > 0 THEN Vested(st, r.to, Part(n, r)) ELSE st

(* The state once each R of the routes has been served. *)
Routed(st, n, all) ==
  LET after[R \in SUBSET all] ==
        IF R = {} THEN st ELSE Served(after[R \ {LastRoute(R)}], n, LastRoute(R))
  IN  after

(* One account's instalment: the routes, then the rest for the account       *)
(* itself, whose votes go last.                                              *)
Withdrawn(st, a) ==
  LET n == Instalment(st, a)
      mine == RoutesOf(routes, a)
      rest == n - SumFunction([r \in mine |-> Part(n, r)])
      paid == Paid(Routed(st, n, mine)[mine], a, rest)
      sold == IF n > 0 THEN Vested(paid, a, -n) ELSE paid
  IN  [sold EXCEPT !.power_down[a] = PowerDownAfter(@, n, sold.vesting[a])]

Due(t) == {a \in Account : power_down[a].next <= t}
BySchedule(a, b) == \/ power_down[a].next < power_down[b].next
                    \/ power_down[a].next = power_down[b].next /\ a < b
LastDue(D) == CHOOSE a \in D : \A b \in D \ {a} : BySchedule(b, a)

(* The state once the accounts of each D of due have been served. *)
Withdrawals(st, due) ==
  LET after[D \in SUBSET due] == IF D = {} THEN st ELSE Withdrawn(after[D \ {LastDue(D)}], LastDue(D))
  IN  after

(* The stakes through _apply_block(), in its order. *)
Settlement(t, producer, r) == Withdrawals(Funded(NullCleared(Current), producer, r), Due(t))[Due(t)]

(* A block.  A failed assertion refuses it. *)
NextBlock(producer, r) ==
  LET t == now + 1
      st == Settlement(t, producer, r)
  IN  /\ now < MaxTime
      /\ st.fits
      /\ now' = t
      /\ Becomes(st)
      /\ clear_expired_delegations(t)
      /\ process_decline_voting_rights(t, st.vesting, st.tally)
      /\ UNCHANGED <<routes, withdraw_routes, received, delegations>>

-----------------------------------------------------------------------------
Amounts == use.amounts

Voting ==
  /\ "votes" \in use.services
  /\ \/ \E a \in use.signers, p \in Account \cup {NoProxy} : account_witness_proxy(a, p)
     \/ \E a \in use.signers, w \in Witness, approve \in BOOLEAN : account_witness_vote(a, w, approve)
  /\ UNCHANGED <<stakeVars, use>>

Declining ==
  /\ "decline" \in use.services
  /\ \E a \in use.signers, decline \in BOOLEAN : decline_voting_rights(a, decline)
  /\ UNCHANGED <<stakeVars, use>>

Vest ==
  /\ "vest" \in use.services
  /\ \E from \in use.signers, to \in Account, n \in Amounts : transfer_to_vesting(from, to, n)
  /\ UNCHANGED use

Withdraw ==
  /\ "withdraw" \in use.services
  /\ \E a \in use.signers, n \in Amounts : withdraw_vesting(a, n)
  /\ UNCHANGED use

Routing ==
  /\ "routes" \in use.services
  /\ \E from \in use.signers, to \in Account, percent \in 0..Full, auto \in BOOLEAN :
       set_withdraw_vesting_route(from, to, percent, auto)
  /\ UNCHANGED use

Delegating ==
  /\ "delegate" \in use.services
  /\ \E from \in use.signers, to \in Account, n \in Amounts \cup {0} :
       delegate_more(from, to, n) \/ delegate_less(from, to, n)
  /\ UNCHANGED use

Blocks ==
  /\ \E producer \in Witness, r \in use.rewards : NextBlock(producer, r)
  /\ UNCHANGED use

Next == Voting \/ Declining \/ Vest \/ Withdraw \/ Routing \/ Delegating \/ Blocks

Spec == Init /\ [][Next]_vars

-----------------------------------------------------------------------------
(* Shares are never made or lost apart from the recorded totals, whatever    *)
(* block settles purchases, routed withdrawals and burned stakes together    *)
(* (database.cpp:4731).                                                      *)
SharesConserved ==
  /\ shares = SumFunctionOnSet(vesting, Account)
  /\ supply = fund + SumFunctionOnSet(balance, Account)

(* The value of a share never falls while anyone but the null account holds  *)
(* one: all rounding of purchases, of withdrawals and of burned shares is in *)
(* favour of the fund (database.cpp:1308, 1520, 1684, 1695).                 *)
SharesKeepValue == [][shares > vesting[NullAccount] => fund' * shares >= fund * shares']_vars

(* An account always has the shares it has delegated and those it is still   *)
(* to withdraw, though the two are checked one against the other in          *)
(* different operations (gamebank_evaluator.cpp:970, 2158).                  *)
DelegationsBacked ==
  \A a \in Account :
    delegated[a] + (power_down[a].to_withdraw - power_down[a].withdrawn) <= vesting[a]

(* The counters of delegated and received shares are the delegations, those  *)
(* that have ended but not yet come back included (gamebank_evaluator.cpp:   *)
(* 2230, database.cpp:4115).                                                 *)
DelegationsCounted ==
  \A a \in Account :
    /\ delegated[a] = SumFunction(delegations[a]) + SumFunction(expirations[a])
    /\ received[a] = SumFunction([b \in Account |-> delegations[b][a]])

(* A withdrawal ends when exactly its amount has been paid out, and until    *)
(* then its next instalment is ahead (database.cpp:1630, 1701).              *)
WithdrawalsExact ==
  \A a \in Account :
    LET p == power_down[a]
    IN  IF p.rate = 0 THEN p.withdrawn = p.to_withdraw /\ p.next = Never
        ELSE p.withdrawn < p.to_withdraw /\ now < p.next

(* The running tallies are what counting the votes would give. *)
VotesSound == VotesTallied /\ VotesAccounted /\ NoProxyLoops

(* No share appears, disappears or is promised twice. *)
SharesSound == TypeOK /\ SharesConserved /\ DelegationsBacked /\ DelegationsCounted
=============================================================================
