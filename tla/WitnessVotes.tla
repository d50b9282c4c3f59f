---------------------------- MODULE WitnessVotes ----------------------------
(***************************************************************************)
(* Votes for witnesses, weighted by vesting shares and passed on through   *)
(* proxies (gamebank_evaluator.cpp:1083-1175, 2054, database.cpp:          *)
(* 1377-1479, 2452).                                                       *)
(*                                                                         *)
(* The chain never counts votes: each change of a stake, a proxy or a vote *)
(* is added to running tallies along the chain of proxies.  tally is       *)
(*   proxied: proxied_vsf_votes of each account, by distance,              *)
(*   votes:   witness_object::votes.                                       *)
(* Accounts are numbered in the order of their names; a witness is the     *)
(* account that owns it.                                                   *)
(***************************************************************************)
EXTENDS Integers, FiniteSetsExt, Functions

CONSTANTS Account,        \* a set of natural numbers
          Witness,        \* the accounts that are witnesses
          NoProxy,        \* GAMEBANK_PROXY_TO_SELF_ACCOUNT
          Depth,          \* GAMEBANK_MAX_PROXY_RECURSION_DEPTH
          MaxVotes,       \* GAMEBANK_MAX_ACCOUNT_WITNESS_VOTES
          DeclineDelay    \* GAMEBANK_OWNER_AUTH_RECOVERY_PERIOD, in blocks

ASSUME VoterAssumption ==
  /\ Witness \subseteq Account /\ Account \subseteq Nat /\ IsFiniteSet(Account)
  /\ NoProxy \notin Account
ASSUME DepthAssumption == Depth \in Nat \ {0}
ASSUME LimitAssumption == {MaxVotes, DeclineDelay} \subseteq Nat

VARIABLES vesting,        \* account_object::vesting_shares
          shares,         \* total_vesting_shares
          proxy,          \* account_object::proxy
          tally,          \* the running tallies
          votes,          \* witness_vote_index: pairs (account, witness)
          voted_for,      \* account_object::witnesses_voted_for
          can_vote,       \* account_object::can_vote
          declines,       \* decline_voting_rights_request_index: (date, account)
          now             \* head_block_time()

voteVars == <<vesting, shares, proxy, tally, votes, voted_for, can_vote, declines, now>>

Tally == [proxied : [Account -> [0..(Depth - 1) -> Nat]], votes : [Witness -> Nat]]

VotesTypeOK ==
  /\ vesting \in [Account -> Nat]
  /\ shares \in Nat
  /\ proxy \in [Account -> Account \cup {NoProxy}]
  /\ tally \in Tally
  /\ votes \subseteq Account \X Witness
  /\ voted_for \in [Account -> 0..MaxVotes]
  /\ can_vote \in [Account -> BOOLEAN]
  /\ declines \subseteq Nat \X Account

VotesInit(stake) ==
  /\ vesting = stake
  /\ shares = SumFunctionOnSet(stake, Account)
  /\ proxy = [a \in Account |-> NoProxy]
  /\ tally = [proxied |-> [a \in Account |-> [i \in 0..(Depth - 1) |-> 0]],
              votes |-> [w \in Witness |-> 0]]
  /\ votes = {}
  /\ voted_for = [a \in Account |-> 0]
  /\ can_vote = [a \in Account |-> TRUE]
  /\ declines = {}

-----------------------------------------------------------------------------
(* The n-th proxy of a, or NoProxy beyond the end of the chain. *)
Hops(prox, a) ==
  LET hop[n \in 0..(Depth + 1)] ==
        IF n = 0 THEN a
        ELSE IF hop[n - 1] = NoProxy THEN NoProxy ELSE prox[hop[n - 1]]
  IN  hop

(* Mutant: the last proxy within the depth is not reached. *)
RootDepthsShort(hop) ==
  {d \in 0..(Depth - 1) : hop[d] # NoProxy /\ hop[d + 1] = NoProxy}

(* The distance at which the chain ends, if it ends within the depth. *)
RootDepths(hop) ==
  {d \in 0..Depth : hop[d] # NoProxy /\ hop[d + 1] = NoProxy}

(* adjust_proxied_witness_votes(): delta[0] is a's own stake, delta[i] that  *)
(* of the accounts i proxies away.  Each proxy gets what still fits within   *)
(* the depth; the end of the chain passes the sum on to its witnesses.       *)
Adjusted(t, prox, cast, a, delta) ==
  LET hop == Hops(prox, a)
  IN  [proxied |-> [b \in Account |-> [k \in 0..(Depth - 1) |->
         t.proxied[b][k] + SumFunctionOnSet([d \in 0..k |-> delta[k - d]], {d \in 0..k : hop[d + 1] = b})]],
       votes |-> [w \in Witness |->
         t.votes[w] + SumFunctionOnSet([d \in 0..Depth |-> SumFunctionOnSet(delta, 0..(Depth - d))],
                                       {d \in RootDepths(hop) : <<hop[d], w>> \in cast})]]

Own(n) == [i \in 0..Depth |-> IF i = 0 THEN n ELSE 0]
Stake(v, t, a) == [i \in 0..Depth |-> IF i = 0 THEN v[a] ELSE t.proxied[a][i - 1]]
Minus(delta) == [i \in DOMAIN delta |-> -delta[i]]
witness_vote_weight(v, t, a) ==
  v[a] + SumFunctionOnSet(t.proxied[a], 0..(Depth - 1))

(* The FC_ASSERT of adjust_witness_vote(): no witness has more votes than    *)
(* there are shares.                                                         *)
Fits(t, total) == \A w \in Witness : t.votes[w] <= total

Without(cast, a) == {v \in cast : v[1] # a}

-----------------------------------------------------------------------------
(* Mutant: nobody looks for a loop. *)
NoLoopUnchecked(a, p) == TRUE

(* The walk of account_witness_proxy_evaluator from the new proxy p up.      *)
NoLoop(a, p) ==
  LET hop == Hops(proxy, p)
      above == {n \in 1..(Depth + 1) : hop[n] # NoProxy}
  IN  /\ \A n \in above : hop[n] # a
      /\ Cardinality(above) + 2 <= (IF above = {} THEN 2 ELSE Depth)

(* account_witness_proxy_evaluator *)
account_witness_proxy(a, p) ==
  LET stake == Stake(vesting, tally, a)
      removed == Adjusted(tally, proxy, votes, a, Minus(stake))
      moved == [proxy EXCEPT ![a] = p]
      added == Adjusted(removed, moved, Without(votes, a), a, stake)
  IN  /\ p # a /\ proxy[a] # p
      /\ can_vote[a]
      /\ proxy' = moved
      /\ IF p = NoProxy
           THEN tally' = removed /\ UNCHANGED <<votes, voted_for>>
           ELSE /\ NoLoop(a, p)
                /\ Fits(added, shares)
                /\ tally' = added
                /\ votes' = Without(votes, a)
                /\ voted_for' = [voted_for EXCEPT ![a] = 0]
      /\ UNCHANGED <<vesting, shares, can_vote, declines, now>>

(* account_witness_vote_evaluator *)
account_witness_vote(a, w, approve) ==
  LET weight == witness_vote_weight(vesting, tally, a)
      n == IF approve THEN 1 ELSE -1
      counted == [tally EXCEPT !.votes[w] = @ + n * weight]
  IN  /\ proxy[a] = NoProxy
      /\ approve => can_vote[a] /\ voted_for[a] < MaxVotes
      /\ approve = (<<a, w>> \notin votes)
      /\ Fits(counted, shares)
      /\ votes' = IF approve THEN votes \cup {<<a, w>>} ELSE votes \ {<<a, w>>}
      /\ voted_for' = [voted_for EXCEPT ![a] = @ + n]
      /\ tally' = counted
      /\ UNCHANGED <<vesting, shares, proxy, can_vote, declines, now>>

(* decline_voting_rights_evaluator *)
decline_voting_rights(a, decline) ==
  /\ decline = ~\E r \in declines : r[2] = a
  /\ declines' = IF decline THEN declines \cup {<<now + DeclineDelay, a>>}
                 ELSE {r \in declines : r[2] # a}
  /\ UNCHANGED <<vesting, shares, proxy, tally, votes, voted_for, can_vote, now>>

(* Mutant: the votes are withdrawn, the proxy stays. *)
DeclinedKeepsProxy(v, book, a) ==
  [book EXCEPT !.tally = Adjusted(@, book.proxy, book.votes, a, Minus(Stake(v, book.tally, a))),
               !.votes = Without(@, a)]

(* process_decline_voting_rights(): one request after the other, by date;    *)
(* book is [proxy, tally, votes] and v the stakes at this point of the block.*)
Declined(v, book, a) ==
  [proxy |-> [book.proxy EXCEPT ![a] = NoProxy],
   tally |-> Adjusted(book.tally, book.proxy, book.votes, a, Minus(Stake(v, book.tally, a))),
   votes |-> Without(book.votes, a)]

Earlier(x, y) == x[1] < y[1] \/ (x[1] = y[1] /\ x[2] < y[2])
Latest(D) == CHOOSE r \in D : \A q \in D \ {r} : Earlier(q, r)
DueDeclines(t) == {r \in declines : r[1] <= t}

(* The book once the requests of each D of due have been processed. *)
DeclinedAll(v, start, due) ==
  LET book[D \in SUBSET due] ==
        IF D = {} THEN start ELSE Declined(v, book[D \ {Latest(D)}], Latest(D)[2])
  IN  book

process_decline_voting_rights(t, v, counted) ==
  LET due == DueDeclines(t)
      book == DeclinedAll(v, [proxy |-> proxy, tally |-> counted, votes |-> votes], due)[due]
      gone == {r[2] : r \in due}
  IN  /\ proxy' = book.proxy
      /\ tally' = book.tally
      /\ votes' = book.votes
      /\ voted_for' = [a \in Account |-> IF a \in gone THEN 0 ELSE voted_for[a]]
      /\ can_vote' = [a \in Account |-> can_vote[a] /\ a \notin gone]
      /\ declines' = declines \ due

-----------------------------------------------------------------------------
(* Votes counted from scratch, the way retally_witness_votes() does it: what *)
(* an account at distance n + 1 down the proxies has.                        *)
StakeBelow(a, n) ==
  SumFunctionOnSet(vesting, {b \in Account : Hops(proxy, b)[n + 1] = a})

(* The running tallies are what a recount gives: after any mixture of stake  *)
(* changes, proxies set, moved and cleared, votes and declined rights        *)
(* (database.cpp:1377, 1431, 4944).                                          *)
VotesTallied ==
  /\ \A a \in Account, n \in 0..(Depth - 1) : tally.proxied[a][n] = StakeBelow(a, n)
  /\ \A w \in Witness :
       tally.votes[w] =
         SumFunctionOnSet([a \in Account |-> witness_vote_weight(vesting, tally, a)],
                          {a \in Account : proxy[a] = NoProxy /\ <<a, w>> \in votes})
  /\ \A a \in Account : /\ voted_for[a] = Cardinality({v \in votes : v[1] = a})
                        /\ ~can_vote[a] => voted_for[a] = 0 /\ proxy[a] = NoProxy

(* Each share has exactly one place in the tallies, also below chains longer *)
(* than the depth: the sum validate_invariants() takes (database.cpp:4764).  *)
VotesAccounted ==
  shares = SumFunction([a \in Account |-> IF proxy[a] = NoProxy
                                             THEN witness_vote_weight(vesting, tally, a)
                                             ELSE tally.proxied[a][Depth - 1]])

(* Proxies never run in a circle, however they were set one by one           *)
(* (gamebank_evaluator.cpp:1102).                                            *)
NoProxyLoops ==
  ~\E S \in SUBSET Account : S # {} /\ \A a \in S : proxy[a] \in S
=============================================================================
