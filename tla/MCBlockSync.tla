---------------------------- MODULE MCBlockSync -----------------------------
(* forks: a peer leaves one fork for a longer one, while a part of the first *)
(* is on the list this node has; another one shares two blocks with it and   *)
(* has a third that does not apply.  broken: the same, without the change,   *)
(* and a connection breaks.  deaf: a peer that answers no request for ids.   *)
(* grow, again: one peer whose chain is longer than this node wants ids for, *)
(* as it is in the code (10000 against 2000), and grows, or is lost.         *)
EXTENDS BlockSync

MCBlock == {"b1", "b2", "b3", "b4", "b5", "b6", "b7", "c2", "c3", "d3"}
MCPrev == [b1 |-> "genesis", b2 |-> "b1", b3 |-> "b2", b4 |-> "b3", b5 |-> "b4", b6 |-> "b5", b7 |-> "b6",
           c2 |-> "b1", c3 |-> "c2", d3 |-> "c2"]
MCNum == [genesis |-> 0, b1 |-> 1, b2 |-> 2, b3 |-> 3, b4 |-> 4, b5 |-> 5, b6 |-> 6, b7 |-> 7,
          c2 |-> 2, c3 |-> 3, d3 |-> 3]
MCHeads == [forks |-> [p |-> <<"c3", "b4">>, q |-> <<"d3">>],
            broken |-> [p |-> <<"c3">>, q |-> <<"d3">>],
            deaf |-> [p |-> <<"b3">>, q |-> <<"b3">>],
            grow |-> [p |-> <<"b6", "b7">>, q |-> <<>>],
            again |-> [p |-> <<"b6">>, q |-> <<>>]]
Few == [ids |-> 2, minPrefetch |-> 1, perPeer |-> 2, atOneTime |-> 2, prefetch |-> 2, recent |-> 2]
Many == [Few EXCEPT !.minPrefetch = 4, !.perPeer = 1]
MCLimits == [w \in DOMAIN MCHeads |-> IF w \in {"grow", "again"} THEN Many ELSE Few]
MCBreaks == [w \in DOMAIN MCHeads |-> IF w \in {"broken", "again"} THEN 1 ELSE 0]
MCOrder == <<"p", "q">>
MCIgnores == [w \in DOMAIN MCHeads |-> [p |-> {}, q |-> IF w = "deaf" THEN {"ids"} ELSE {}]]
=============================================================================
