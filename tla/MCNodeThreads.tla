--------------------------- MODULE MCNodeThreads ---------------------------
EXTENDS NodeThreads

(* gamebankd's default plugins: witness brings in chain and p2p, the web    *)
(* server comes last.                                                       *)
DefaultOrder == <<"chain", "p2p", "webserver">>

(* A producing node that serves web clients and hears nothing from its      *)
(* peers, and one that hears transactions and confirm messages and applies  *)
(* no block.                                                                *)
Undisturbed ==
  { [web |-> {"trx", "block"}, peers |-> {}, produces |-> TRUE],
    [web |-> {"trx"}, peers |-> {"trx", "confirm"}, produces |-> FALSE] }

PeerBlocks == { [web |-> {}, peers |-> {"block"}, produces |-> FALSE] }
=============================================================================
