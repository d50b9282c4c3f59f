------------------------------ MODULE MCLedger ------------------------------
EXTENDS Ledger

(* Account 0 is the null account; 1 has g of GBC, 2 has d of GBD. *)
Start(g, d) ==
  [a \in Account |-> [s \in Asset |->
     CASE a = 1 /\ s = "GBC" -> g [] a = 2 /\ s = "GBD" -> d [] OTHER -> 0]]

MCUses ==
  {[services |-> {"transfer", "savings"}, opening |-> Start(1, 1), amounts |-> {1}],
   [services |-> {"escrow"}, opening |-> Start(2, 0), amounts |-> {1, 2}],
   [services |-> {"market"}, opening |-> Start(3, 2), amounts |-> {1, 2, 3}],
   [services |-> {"market", "convert"}, opening |-> Start(1, 2), amounts |-> {1}],
   [services |-> {"crowdfunding"}, opening |-> Start(3, 0), amounts |-> {1, 2}]}
MCPrice == {<<2, 1>>, <<3, 2>>}
MCFeed == {<<1, 1>>, <<1, 2>>}
MCTerms == {<<1, 2>>}
=============================================================================
