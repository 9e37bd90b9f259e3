----------------------------- MODULE AntiEntropy -----------------------------
(***************************************************************************)
(* The gateway's anti-entropy loop (part_006 antiEntropyLoop, runRepair)  *)
(* composed with the replication coordinator of module Cluster.           *)
(*                                                                         *)
(* NewGatewayServer starts antiEntropyLoop, which calls runRepair on every *)
(* tick of the repair ticker (-repair_interval, 5 min).  With a           *)
(* ClusterBackend, runRepair lists up to RepairBatch objects with         *)
(* cb.List(ctx, "", "", "", batch), which asks the first node of the ring *)
(* through HTTPBackend.List, and calls cb.RepairObject(ctx, "", key) for  *)
(* each listed key.  A failed listing is logged and ends the pass.        *)
(*                                                                         *)
(* Clients, nodes and the read-repair that handlePut starts behave as in  *)
(* Cluster; the repair passes interleave with them.                        *)
(***************************************************************************)
EXTENDS Cluster

CONSTANTS
    ListNode    \* ring.AllNodes()[0], the node ClusterBackend.List asks

ASSUME ListNode \in Nodes

VARIABLES
    scan        \* the repair goroutine: pc, and the keys listed still to repair

aevars == <<vars, scan>>

\* The bucket runRepair passes to List and to RepairObject.
RepairBucket == ""

\* HTTPBackend.List: GET <baseURL>/<bucket>?list=1&prefix=&marker=&limit=n.
\* The path after the leading "/" is the bucket alone: one segment.
ListPath(bucket) == <<bucket>>

\* NodeServer.ServeHTTP splits the path into bucket and key and answers
\* 400 "invalid path" when there is no key, before it looks at ?list=1;
\* with a key, the list branch answers 200 with the node's objects.
NodeListStatus(path) == IF Len(path) < 2 THEN 400 ELSE 200

\* The keys node n's handleList returns: the one key, when n stores it.
NodeListing(n) == IF store[n] = NoObj THEN <<>> ELSE <<"key">>

\* ClusterBackend.List asks ListNode; HTTPBackend.List fails on a transport
\* error (the node is down) or a status other than 200.
ClusterListOK == up[ListNode] /\ NodeListStatus(ListPath(RepairBucket)) = 200

AEInit == Init /\ scan = [pc |-> "idle", keys |-> <<>>]

\* A tick of the repair ticker: runRepair starts.
RepairTick ==
    /\ scan.pc = "idle"
    /\ scan' = [scan EXCEPT !.pc = "list"]
    /\ UNCHANGED vars

\* cb.List: an error is logged, counted in repairFailedTotal and ends the
\* pass; a listing goes on to the per-key repairs.
RepairList ==
    /\ scan.pc = "list"
    /\ scan' = IF ClusterListOK
               THEN [pc |-> "keys", keys |-> NodeListing(ListNode)]
               ELSE [pc |-> "idle", keys |-> <<>>]
    /\ UNCHANGED vars

\* cb.RepairObject(ctx, "", key): placement and node paths use ""+"/"+key,
\* under which no node stores the object, so every replica answers 404 and
\* RepairObject returns "no source node found"; the error is counted and
\* the loop goes on.  After the last key the pass ends.
RepairListedKey ==
    /\ scan.pc = "keys"
    /\ scan' = IF Len(scan.keys) <= 1 THEN [pc |-> "idle", keys |-> <<>>]
               ELSE [scan EXCEPT !.keys = Tail(@)]
    /\ UNCHANGED vars

AENext ==
    \/ Next /\ UNCHANGED scan
    \/ RepairTick \/ RepairList \/ RepairListedKey

\* The ticker fires every RepairInterval for as long as the gateway runs,
\* and the repair goroutine's steps are its own.
AEFairness ==
    /\ Fairness
    /\ WF_aevars(RepairTick) /\ WF_aevars(RepairList) /\ WF_aevars(RepairListedKey)

AESpec == AEInit /\ [][AENext]_aevars /\ AEFairness

-----------------------------------------------------------------------------
(* Properties                                                              *)

\* No client request and no read-repair is running.
Quiet ==
    /\ \A p \in PutReqs : put[p].pc # "wait" /\ rep[p].pc \notin {"find", "head", "put"}
    /\ \A g \in GetReqs : get[g].pc # "wait"
    /\ \A h \in HeadReqs : head[h].pc # "wait"
    /\ \A d \in DelReqs : del[d].pc # "wait"

\* Spec section 4.9: every RepairInterval the coordinator lists objects from
\* one node and writes each back to the replicas that report it missing,
\* "the sole correctness mechanism for post-partial-write convergence".
\* So once every node stays up, no request runs and the node runRepair
\* lists holds the object, every replica eventually holds it too, even
\* when the read-repair of the PUT met a node that was down.
Converges ==
    (<>[](Quiet /\ (\A n \in Nodes : up[n]) /\ store[ListNode] # NoObj))
        => <>[](\A n \in Nodes : store[n] # NoObj)

=============================================================================
