----------------------------- MODULE MC_Cluster -----------------------------
(* Instantiates Cluster with a replica set of three nodes in ring order.  *)
EXTENDS Cluster

CONSTANTS n1, n2, n3

MCOrder == <<n1, n2, n3>>

=============================================================================
