---------------------------- MODULE Crowdfunding ----------------------------
(***************************************************************************)
(* Crowdfunding campaigns (gamebank_evaluator.cpp:2266-2359,               *)
(* database.cpp:2166).                                                     *)
(***************************************************************************)
EXTENDS Accounts

CONSTANTS Permlink,       \* names of campaigns
          CampaignLife    \* fc::days(3), in blocks

ASSUME CampaignAssumption == CampaignLife \in Nat \ {0}

VARIABLES campaigns,      \* crowdfunding_index
          invests,        \* crowdfunding_invest_index
          last_expire     \* account_object::last_crowdfunding_expire

crowdVars == <<campaigns, invests, last_expire>>

(* finish: 0 open, 1 paid to the originator, 2 refunded *)
crowdfunding_object ==
  [originator : Account, permlink : Permlink, expire : Nat,
   total_raise_value : Nat, curator_raise_value : Nat, finish : 0..2]

crowdfunding_invest_object ==
  [invester : Account, originator : Account, permlink : Permlink, expire : Nat, raise : Nat]

CrowdTypeOK ==
  /\ campaigns \subseteq crowdfunding_object
  /\ invests \subseteq crowdfunding_invest_object
  /\ last_expire \in [Account -> Int]

CrowdInit ==
  /\ campaigns = {}
  /\ invests = {}
  /\ last_expire = [a \in Account |-> -1]

crowdfunding(originator, permlink, goal) ==
  /\ now > last_expire[originator]
  /\ ~\E c \in campaigns : c.originator = originator /\ c.permlink = permlink
  /\ last_expire' = [last_expire EXCEPT ![originator] = now + CampaignLife]
  /\ campaigns' = campaigns \cup
       {[originator |-> originator, permlink |-> permlink, expire |-> now + CampaignLife,
         total_raise_value |-> goal, curator_raise_value |-> 0, finish |-> 0]}
  /\ UNCHANGED <<accounts, invests>>

Invested(i, c) == i.originator = c.originator /\ i.permlink = c.permlink

(* The index by (expire, invester) is unique: an account cannot invest in    *)
(* two campaigns that end together.                                          *)
invest(a, c, n) ==
  LET mine == {i \in invests : Invested(i, c) /\ i.invester = a}
      before == SumFunction([i \in mine |-> i.raise])
  IN  /\ now < c.expire
      /\ balance[a]["GBC"] >= n
      /\ c.curator_raise_value + n <= c.total_raise_value
      /\ mine = {} => ~\E i \in invests : i.expire = c.expire /\ i.invester = a
      /\ balance' = Debit(balance, a, Amount(n, "GBC"))
      /\ campaigns' = (campaigns \ {c}) \cup {[c EXCEPT !.curator_raise_value = @ + n]}
      /\ invests' = (invests \ mine) \cup
           {[invester |-> a, originator |-> c.originator, permlink |-> c.permlink,
             expire |-> c.expire, raise |-> before + n]}
      /\ UNCHANGED <<savings, supply, now, last_expire>>

(* process_crowdfunding() starts over from the first campaign, by expiration *)
(* and originator, after each one, finds that one finished and breaks: only  *)
(* the first campaign is ever settled.  When it fails, all investments that  *)
(* have expired are paid back.                                               *)
Before(c, d) == c.expire < d.expire \/ (c.expire = d.expire /\ c.originator < d.originator)
First == {c \in campaigns : \A d \in campaigns \ {c} : Before(c, d)}

Settled(t) == {c \in First : c.expire <= t /\ c.finish = 0}
Failed(t) == {c \in Settled(t) : c.total_raise_value > c.curator_raise_value}
Refunded(t) == IF Failed(t) = {} THEN {} ELSE {i \in invests : i.expire <= t}

process_crowdfunding(t) ==
  /\ campaigns' = (campaigns \ Settled(t)) \cup
       {[c EXCEPT !.finish = IF c \in Failed(t) THEN 2 ELSE 1] : c \in Settled(t)}
  /\ invests' = invests \ Refunded(t)

(* The money campaigns hold: what is invested in an open one. *)
Raised == {i \in invests : \E c \in campaigns : Invested(i, c) /\ c.finish = 0}
=============================================================================
