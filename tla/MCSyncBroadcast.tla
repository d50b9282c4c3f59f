-------------------------- MODULE MCSyncBroadcast ---------------------------
EXTENDS SyncBroadcast

(* b needs a and spends what c spends; c expires first. *)
MCExpiration == [t \in Tx |-> IF t = "c" THEN 2 ELSE 3]
MCNeeds == [t \in Tx |-> IF t = "b" THEN {"a"} ELSE {}]
MCSpends == [t \in Tx |-> IF t \in {"b", "c"} THEN "coin" ELSE NoCoin]
MCSent == [c \in Client |-> IF c = 1 THEN "a" ELSE "b"]
=============================================================================
