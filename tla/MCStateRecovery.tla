-------------------------- MODULE MCStateRecovery --------------------------
(* Instances of StateRecovery for TLC. *)
EXTENDS StateRecovery

(* Every point except two windows of reindex(): between the deletion of the *)
(* mapped file and the end of the first block, after which open() accepts   *)
(* the genesis state it finds, and the loop of set_revision(), after which  *)
(* open() looks at the revision of the first index only.                    *)
OutsideReindexWindows == (Startup \cup Working) \ {"down", "wiped", "set_revision"}
=============================================================================
