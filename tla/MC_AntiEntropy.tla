---------------------------- MODULE MC_AntiEntropy ----------------------------
(* Instantiates AntiEntropy with a replica set of three nodes in ring     *)
(* order; the first node of the ring is the one runRepair lists.          *)
EXTENDS AntiEntropy

CONSTANTS n1, n2, n3

MCOrder == <<n1, n2, n3>>

=============================================================================
