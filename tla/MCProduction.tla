---------------------------- MODULE MCProduction ----------------------------
(* Four witnesses, three of whom make a round: two by votes, one in turn.    *)
(* The second is this node's; the last still runs the old binary.             *)
EXTENDS Production

MCInitVotes == <<3, 2, 1, 0>>
MCVersion == <<1, 1, 1, 0>>
MCBlockSizes == <<1, 2, 3, 4>>
MCSwings == {[w |-> 3, n |-> -1], [w |-> 4, n |-> 3]}
=============================================================================
