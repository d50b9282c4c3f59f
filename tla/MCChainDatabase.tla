-------------------------- MODULE MCChainDatabase --------------------------
(* Block trees for TLC.  A tree is a set of tuples                          *)
(* <block, previous, number, producer>.                                     *)
EXTENDS SyncAnswers

Column(tree, c) == [b \in {t[1] : t \in tree} |-> (CHOOSE t \in tree : t[1] = b)[c]]
NumOf(tree) == [b \in {t[1] : t \in tree} \cup {"genesis"} |->
                  IF b = "genesis" THEN 0 ELSE Column(tree, 3)[b]]

(* Two forks of two witnesses each, until D joins the longer one.  Blocks   *)
(* f4 and b4 are bad.  Nobody produces on a second chain before it is       *)
(* longer than the one they have produced on.                               *)
Forks ==
  { <<"m1", "genesis", 1, "A">>, <<"m2", "m1", 2, "B">>, <<"m3", "m2", 3, "A">>,
    <<"m4", "m3", 4, "B">>, <<"m5", "m4", 5, "D">>, <<"m6", "m5", 6, "C">>,
    <<"f2", "m1", 2, "C">>, <<"f3", "f2", 3, "D">>, <<"f4", "f3", 4, "C">>,
    <<"b4", "m3", 4, "A">> }

(* A minority of one against a majority of three: by the time the majority  *)
(* chain is longer, its votes have passed the fork.                         *)
Partition ==
  { <<"d1", "genesis", 1, "D">>,
    <<"d2", "d1", 2, "D">>, <<"d3", "d2", 3, "D">>, <<"d4", "d3", 4, "D">>,
    <<"a2", "d1", 2, "A">>, <<"b3", "a2", 3, "B">>, <<"c4", "b3", 4, "C">>, <<"a5", "c4", 5, "A">> }

BlocksOf(tree) == {t[1] : t \in tree}
MCWorlds == {BlocksOf(Forks), BlocksOf(Partition)}
MCPartitions == {BlocksOf(Partition)}
MCBlock == BlocksOf(Forks \cup Partition)
MCPrev == Column(Forks \cup Partition, 2)
MCNum == NumOf(Forks \cup Partition)
MCProducer == Column(Forks \cup Partition, 4)
=============================================================================
