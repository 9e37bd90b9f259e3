------------------------------- MODULE Cluster -------------------------------
(***************************************************************************)
(* The replication coordinator of the gateway (miniobject/cluster.go) for *)
(* one object key, together with the storage nodes of its replica set and *)
(* the asynchronous read-repair that handlePut starts after every         *)
(* successful replicated PUT (part_006 handlePut).                        *)
(*                                                                         *)
(* Each node's copy of the key is one value: the version written by some  *)
(* PUT request, or NoObj.  A node's local write is atomic here (the       *)
(* temp-file / rename protocol is the subject of module LocalFS).         *)
(* Every node call of a fan-out is a step of its own goroutine, so the    *)
(* steps of concurrent requests, of their goroutines and of the repair    *)
(* task interleave freely.  Nodes may become unreachable and come back,   *)
(* and a PUT may be applied by a node whose reply is then lost (client    *)
(* timeout); both count against the fault budget MaxFaults.               *)
(***************************************************************************)
EXTENDS Naturals, FiniteSets, Sequences, SequencesExt

CONSTANTS
    Order,      \* the replica set in ring order, ring.GetNodes(bucket+"/"+key, replicas)
    W,          \* write quorum (-w)
    R,          \* read quorum (-r), validated at startup and otherwise unused
    PutReqs,    \* client PUT requests; each writes a payload of its own
    GetReqs,    \* client GET requests
    HeadReqs,   \* client HEAD requests
    DelReqs,    \* client DELETE requests
    NoObj,      \* the key is absent on a node
    MaxFaults   \* bound on node outages plus lost PUT replies

Nodes == ToSet(Order)
N == Len(Order)

\* NewClusterBackend refuses w + r <= replicas (cluster.go:23-25).
ASSUME W + R > N /\ W \in 1..N /\ R \in 1..N

\* What one node call of a GET can return: the stored payload, 404, or an
\* error (node down, timeout, 5xx).
NotFound == "404"
Err == "error"
Reply == PutReqs \cup {NotFound, Err}

Writes == PutReqs \cup DelReqs

VARIABLES
    store,      \* store[n]: the payload node n holds for the key
    up,         \* up[n]: node n answers calls
    faults,     \* faults injected so far
    put,        \* state of each PUT request and its fan-out
    get,        \* state of each GET request and its fan-out
    head,       \* state of each HEAD request and the replicas it has still to ask
    del,        \* state of each DELETE request and its fan-out
    rep,        \* the RepairObject task started by each successful PUT
    \* history, read only by the properties
    finished,   \* the client writes (PUT or DELETE) that have returned
    prior       \* prior[w]: what had returned when write w started (NoObj: initial state)

vars == <<store, up, faults, put, get, head, del, rep, finished, prior>>

-----------------------------------------------------------------------------
TypeOK ==
    /\ store \in [Nodes -> PutReqs \cup {NoObj}]
    /\ up \in [Nodes -> BOOLEAN]
    /\ faults \in 0..MaxFaults
    /\ put \in [PutReqs -> [pc : {"idle", "SlowDown", "wait", "ok", "BadDigest", "InternalError"},
                            md5ok : BOOLEAN, replied : SUBSET Nodes, acks : SUBSET Nodes]]
    /\ get \in [GetReqs -> [pc : {"idle", "SlowDown", "wait", "done"}, sent : SUBSET Nodes,
                            chan : SUBSET (Nodes \X Reply), recvd : SUBSET Nodes,
                            result : PutReqs \cup {NotFound}, clean : BOOLEAN,
                            expect : SUBSET (Writes \cup {NoObj})]]
    /\ head \in [HeadReqs -> [pc : {"idle", "SlowDown", "wait", "done"}, todo : Seq(Nodes),
                              result : PutReqs \cup {NotFound}, clean : BOOLEAN,
                              expect : SUBSET (Writes \cup {NoObj})]]
    /\ del \in [DelReqs -> [pc : {"idle", "SlowDown", "wait", "done"}, sent : SUBSET Nodes]]
    /\ rep \in [PutReqs -> [pc : {"none", "find", "head", "put", "done"},
                            todo : Seq(Nodes), src : Nodes \cup {NoObj},
                            data : PutReqs \cup {NoObj}]]
    /\ finished \subseteq Writes
    /\ prior \in [Writes -> SUBSET (Writes \cup {NoObj})]

Init ==
    /\ store = [n \in Nodes |-> NoObj]
    /\ up = [n \in Nodes |-> TRUE]
    /\ faults = 0
    /\ put = [p \in PutReqs |-> [pc |-> "idle", md5ok |-> TRUE, replied |-> {}, acks |-> {}]]
    /\ get = [g \in GetReqs |-> [pc |-> "idle", sent |-> {}, chan |-> {}, recvd |-> {},
                                 result |-> NotFound, clean |-> FALSE, expect |-> {}]]
    /\ head = [h \in HeadReqs |-> [pc |-> "idle", todo |-> <<>>, result |-> NotFound,
                                   clean |-> FALSE, expect |-> {}]]
    /\ del = [d \in DelReqs |-> [pc |-> "idle", sent |-> {}]]
    /\ rep = [p \in PutReqs |-> [pc |-> "none", todo |-> <<>>, src |-> NoObj, data |-> NoObj]]
    /\ finished = {}
    /\ prior = [w \in Writes |-> {}]

\* A client write (PUT or DELETE) is being served.
WriteInFlight ==
    (\E p \in PutReqs : put[p].pc = "wait") \/ (\E d \in DelReqs : del[d].pc = "wait")

\* A write starting marks every GET and HEAD then in progress as
\* overlapping a write.
TaintGets == [g \in GetReqs |-> IF get[g].pc = "wait"
                                THEN [get[g] EXCEPT !.clean = FALSE] ELSE get[g]]
TaintHeads == [h \in HeadReqs |-> IF head[h].pc = "wait"
                                  THEN [head[h] EXCEPT !.clean = FALSE] ELSE head[h]]

\* The payloads a GET that overlaps no client write may return.
\* A write that returned is superseded by a successful write that started
\* after it returned.  The outcomes a GET overlapping no write may observe
\* are those of the returned writes that nothing supersedes (a failed PUT
\* may have reached some replicas, so it counts too); NoObj stands for the
\* key never having been written.
Succeeded == {w \in finished : w \in DelReqs \/ put[w].pc = "ok"}
Superseded == UNION {prior[w] : w \in Succeeded}
Acceptable == (finished \cup {NoObj}) \ Superseded

\* A write starts: record what has returned before it.
RecordStart(w) == prior' = [prior EXCEPT ![w] = finished \cup {NoObj}]

-----------------------------------------------------------------------------
(* PUT: ClusterBackend.Put fans the buffered body out to the N replicas   *)
(* and waits for every goroutine before counting successes.               *)

PutStart(p) ==
    /\ put[p].pc = "idle"
    /\ \E ok \in BOOLEAN :   \* whether the client's Content-MD5 matches the body
          put' = [put EXCEPT ![p] = [pc |-> "wait", md5ok |-> ok, replied |-> {}, acks |-> {}]]
    /\ get' = TaintGets /\ head' = TaintHeads
    /\ RecordStart(p)
    /\ UNCHANGED <<store, up, faults, del, rep, finished>>

\* NodeServer.handlePut: 400 BadDigest when LocalFSBackend.Put rejects the
\* Content-MD5, otherwise 200 with the new ETag (the node's own write
\* failures are the subject of module LocalFS).
NodeHandlePut(p) == IF put[p].md5ok THEN 200 ELSE 400

\* HTTPBackend.Put returns the ETag when client.Do reaches the node and its
\* answer is 200; a transport error or any other status is an error.
NodePutApplies(n, p) == up[n] /\ NodeHandlePut(p) = 200

\* One goroutine's backend.Put on node n.  A node that is down fails the
\* call; a live node with a bad digest answers BadDigest without writing;
\* otherwise the node renames the new payload into place and acks, or its
\* ack is lost after the write.
PutNode(p, n) ==
    /\ put[p].pc = "wait"
    /\ n \notin put[p].replied
    /\ \/ /\ NodePutApplies(n, p)
          /\ store' = [store EXCEPT ![n] = p]
          /\ put' = [put EXCEPT ![p].replied = @ \cup {n}, ![p].acks = @ \cup {n}]
          /\ UNCHANGED faults
       \/ /\ NodePutApplies(n, p) /\ faults < MaxFaults
          /\ store' = [store EXCEPT ![n] = p]
          /\ put' = [put EXCEPT ![p].replied = @ \cup {n}]
          /\ faults' = faults + 1
       \/ /\ ~NodePutApplies(n, p)
          /\ put' = [put EXCEPT ![p].replied = @ \cup {n}]
          /\ UNCHANGED <<store, faults, head>>
    /\ UNCHANGED <<up, get, del, rep, finished, prior, head>>

\* The quorum check of ClusterBackend.Put, then in handlePut either the
\* error reply (a quorum error never carries the node's BadDigest text, so
\* it is an InternalError) or the success reply preceded by
\* "go cb.RepairObject(...)".
PutOutcome(p) ==
    /\ IF Cardinality(put[p].acks) >= W
       THEN /\ put' = [put EXCEPT ![p].pc = "ok"]
            /\ rep' = [rep EXCEPT ![p].pc = "find", ![p].todo = Order]
       ELSE /\ put' = [put EXCEPT ![p].pc = "InternalError"]
            /\ UNCHANGED rep
    /\ finished' = finished \cup {p}
    /\ UNCHANGED <<store, up, faults, get, del, prior, head>>

\* Variant of the wait that waits until every replica acked.
PutReturnOnAllAcks(p) ==
    /\ put[p].pc = "wait" /\ put[p].acks = Nodes /\ PutOutcome(p)

\* The collection loop ranges over the results channel until every
\* goroutine has sent, then the outcome is decided.
PutReturn(p) ==
    /\ put[p].pc = "wait"
    /\ put[p].replied = Nodes
    /\ PutOutcome(p)

-----------------------------------------------------------------------------
(* GET: ClusterBackend.Get starts one goroutine per replica; each sends   *)
(* its result on the channel; the coordinator takes results in arrival   *)
(* order and returns the first that is neither an error nor a 404.       *)

GetStart(g) ==
    /\ get[g].pc = "idle"
    /\ get' = [get EXCEPT ![g] = [pc |-> "wait", sent |-> {}, chan |-> {}, recvd |-> {},
                                  result |-> NotFound, clean |-> ~WriteInFlight,
                                  expect |-> Acceptable]]
    /\ UNCHANGED <<store, up, faults, put, del, rep, finished, prior, head>>

\* What backend.Get on node n answers right now.
NodeGet(n) == IF ~up[n] THEN Err ELSE IF store[n] = NoObj THEN NotFound ELSE store[n]

GetNode(g, n) ==
    /\ get[g].pc = "wait"
    /\ n \notin get[g].sent
    /\ get' = [get EXCEPT ![g].sent = @ \cup {n}, ![g].chan = @ \cup {<<n, NodeGet(n)>>}]
    /\ UNCHANGED <<store, up, faults, put, del, rep, finished, prior, head>>

\* One iteration of the receive loop on result m, which counts as a
\* success or not.  The goroutine read its node when it ran (GetNode) but
\* may send later, so results arrive in any order.  After N results
\* without a success the coordinator answers 404 NoSuchKey, whatever the
\* results were.
Receive(g, m, success) ==
    /\ get[g].pc = "wait"
    /\ m \in get[g].chan
    /\ m[1] \notin get[g].recvd
    /\ IF success
       THEN get' = [get EXCEPT ![g].pc = "done", ![g].result = m[2],
                               ![g].recvd = @ \cup {m[1]}]
       ELSE get' = [get EXCEPT ![g].recvd = @ \cup {m[1]},
                               ![g].pc = IF get[g].recvd \cup {m[1]} = Nodes
                                         THEN "done" ELSE "wait",
                               ![g].result = NotFound]
    /\ UNCHANGED <<store, up, faults, put, del, rep, finished, prior, head>>

\* Variant that drops the 404 test: any answer without an error is a success.
GetRecvAnyAnswer(g) == \E m \in get[g].chan : Receive(g, m, m[2] # Err)

\* "res.err == nil && res.status != 404": only a payload is a success.
GetRecv(g) == \E m \in get[g].chan : Receive(g, m, m[2] \in PutReqs)

-----------------------------------------------------------------------------
(* HEAD: ClusterBackend.Head asks the replicas one after the other in     *)
(* ring order and returns the first that reports the object; an error    *)
(* and a 404 alike move on to the next.  When none reports it, Head       *)
(* returns exists = false with no error, and handleHead answers 404.      *)

\* NodeServer.handleHead: 404 NoSuchKey when the node has no object,
\* otherwise 200.
NodeHandleHead(n) == IF store[n] = NoObj THEN 404 ELSE 200

\* HTTPBackend.Head reports the object as existing only on a 200; a 404 is
\* "does not exist" and a transport error an error, which ClusterBackend.Head
\* and RepairObject treat alike.
NodeHeadExists(n) == up[n] /\ NodeHandleHead(n) = 200

HeadStart(h) ==
    /\ head[h].pc = "idle"
    /\ head' = [head EXCEPT ![h] = [pc |-> "wait", todo |-> Order, result |-> NotFound,
                                    clean |-> ~WriteInFlight, expect |-> Acceptable]]
    /\ UNCHANGED <<store, up, faults, put, get, del, rep, finished, prior>>

\* backend.Head of the next replica in order (HTTPBackend.Head: exists on 200).
HeadNode(h) ==
    /\ head[h].pc = "wait"
    /\ LET n == Head(head[h].todo) IN
       IF NodeHeadExists(n)
       THEN head' = [head EXCEPT ![h].pc = "done", ![h].result = store[n]]
       ELSE head' = [head EXCEPT ![h].todo = Tail(@),
                                 ![h].pc = IF Len(head[h].todo) = 1 THEN "done" ELSE "wait"]
    /\ UNCHANGED <<store, up, faults, put, get, del, rep, finished, prior>>

-----------------------------------------------------------------------------
(* DELETE: one goroutine per replica, errors ignored, always success.    *)

DelStart(d) ==
    /\ del[d].pc = "idle"
    /\ del' = [del EXCEPT ![d].pc = "wait"]
    /\ get' = TaintGets /\ head' = TaintHeads
    /\ RecordStart(d)
    /\ UNCHANGED <<store, up, faults, put, rep, finished>>

\* NodeServer.handleDelete: LocalFSBackend.Delete removes the object,
\* absent or not, and the node answers 204.
NodeHandleDelete(n) == [store EXCEPT ![n] = NoObj]

\* HTTPBackend.Delete on node n: a node that is reached runs
\* handleDelete; the 204, or the error of a node that is down, is ignored
\* by ClusterBackend.Delete.
NodeDelete(n) == IF up[n] THEN NodeHandleDelete(n) ELSE store

DelNode(d, n) ==
    /\ del[d].pc = "wait"
    /\ n \notin del[d].sent
    /\ store' = NodeDelete(n)
    /\ del' = [del EXCEPT ![d].sent = @ \cup {n}]
    /\ UNCHANGED <<up, faults, put, get, rep, finished, prior, head>>

DelReturn(d) ==
    /\ del[d].pc = "wait"
    /\ del[d].sent = Nodes
    /\ del' = [del EXCEPT ![d].pc = "done"]
    /\ finished' = finished \cup {d}
    /\ UNCHANGED <<store, up, faults, put, get, rep, prior, head>>

-----------------------------------------------------------------------------
(* RepairObject: find the first replica in ring order that serves the    *)
(* object with status 200 and read it; then, for every other replica in  *)
(* order, Head it and, when it does not report the object, Put the data  *)
(* read earlier.  Head errors count as "does not exist".                 *)

\* backend.Get of the source replica: a payload only on status 200.
RepairFind(p) ==
    /\ rep[p].pc = "find"
    /\ LET n == Head(rep[p].todo) IN
       IF NodeGet(n) \in PutReqs
       THEN rep' = [rep EXCEPT ![p] = [pc |-> "head", todo |-> Remove(Order, n),
                                       src |-> n, data |-> store[n]]]
       ELSE rep' = [rep EXCEPT ![p].todo = Tail(@),
                               ![p].pc = IF Len(rep[p].todo) = 1 THEN "done" ELSE "find"]
    /\ UNCHANGED <<store, up, faults, put, get, del, finished, prior, head>>

RepairHead(p) ==
    /\ rep[p].pc = "head"
    /\ IF rep[p].todo = <<>>
       THEN rep' = [rep EXCEPT ![p].pc = "done"]
       ELSE LET n == Head(rep[p].todo) IN
            IF NodeHeadExists(n)
            THEN rep' = [rep EXCEPT ![p].todo = Tail(@)]
            ELSE rep' = [rep EXCEPT ![p].pc = "put"]
    /\ UNCHANGED <<store, up, faults, put, get, del, finished, prior, head>>

RepairPut(p) ==
    /\ rep[p].pc = "put"
    /\ LET n == Head(rep[p].todo) IN
       store' = IF up[n] THEN [store EXCEPT ![n] = rep[p].data] ELSE store
    /\ rep' = [rep EXCEPT ![p].pc = "head", ![p].todo = Tail(@)]
    /\ UNCHANGED <<up, faults, put, get, del, finished, prior, head>>

\* The goroutine in handlePut runs RepairObject under a 10 s context; when
\* it expires, every later node call fails and the pass ends early.
RepairTimeout(p) ==
    /\ rep[p].pc \in {"find", "head", "put"}
    /\ rep' = [rep EXCEPT ![p].pc = "done"]
    /\ UNCHANGED <<store, up, faults, put, get, del, finished, prior, head>>

-----------------------------------------------------------------------------
(* handlePut, handleGet and handleDelete first wait for the rate limiter *)
(* (WaitRateLimit); when it refuses, the request ends with SlowDown      *)
(* before the backend is called.                                          *)

PutSlowDown(p) ==
    /\ put[p].pc = "idle"
    /\ put' = [put EXCEPT ![p].pc = "SlowDown"]
    /\ UNCHANGED <<store, up, faults, get, del, rep, finished, prior, head>>

GetSlowDown(g) ==
    /\ get[g].pc = "idle"
    /\ get' = [get EXCEPT ![g].pc = "SlowDown"]
    /\ UNCHANGED <<store, up, faults, put, del, rep, finished, prior, head>>

HeadSlowDown(h) ==
    /\ head[h].pc = "idle"
    /\ head' = [head EXCEPT ![h].pc = "SlowDown"]
    /\ UNCHANGED <<store, up, faults, put, get, del, rep, finished, prior>>

DelSlowDown(d) ==
    /\ del[d].pc = "idle"
    /\ del' = [del EXCEPT ![d].pc = "SlowDown"]
    /\ UNCHANGED <<store, up, faults, put, get, rep, finished, prior, head>>

-----------------------------------------------------------------------------
(* Environment: a node becomes unreachable (crash, partition) and later  *)
(* comes back with its data directory intact (writes were fsynced).      *)

NodeDown(n) ==
    /\ up[n] /\ faults < MaxFaults
    /\ up' = [up EXCEPT ![n] = FALSE]
    /\ faults' = faults + 1
    /\ UNCHANGED <<store, put, get, del, rep, finished, prior, head>>

NodeUp(n) ==
    /\ ~up[n]
    /\ up' = [up EXCEPT ![n] = TRUE]
    /\ UNCHANGED <<store, faults, put, get, del, rep, finished, prior, head>>

-----------------------------------------------------------------------------
Next ==
    \/ \E p \in PutReqs : \/ PutStart(p) \/ PutReturn(p)
                          \/ RepairFind(p) \/ RepairHead(p) \/ RepairPut(p)
                          \/ RepairTimeout(p) \/ PutSlowDown(p)
                          \/ \E n \in Nodes : PutNode(p, n)
    \/ \E g \in GetReqs : \/ GetStart(g) \/ GetRecv(g) \/ GetSlowDown(g)
                          \/ \E n \in Nodes : GetNode(g, n)
    \/ \E h \in HeadReqs : HeadStart(h) \/ HeadNode(h) \/ HeadSlowDown(h)
    \/ \E d \in DelReqs : \/ DelStart(d) \/ DelReturn(d) \/ DelSlowDown(d)
                          \/ \E n \in Nodes : DelNode(d, n)
    \/ \E n \in Nodes : NodeDown(n) \/ NodeUp(n)

\* Every goroutine runs to completion: a call to a node that is down fails
\* by the HTTP client's timeout, so each of these steps stays enabled until
\* taken.  Requests need not arrive and nodes need not fail or recover.
Fairness ==
    /\ \A p \in PutReqs : /\ WF_vars(PutReturn(p))
                          /\ WF_vars(RepairFind(p) \/ RepairHead(p) \/ RepairPut(p))
                          /\ \A n \in Nodes : WF_vars(PutNode(p, n))
    /\ \A g \in GetReqs : WF_vars(GetRecv(g)) /\ \A n \in Nodes : WF_vars(GetNode(g, n))
    /\ \A h \in HeadReqs : WF_vars(HeadNode(h))
    /\ \A d \in DelReqs : WF_vars(DelReturn(d)) /\ \A n \in Nodes : WF_vars(DelNode(d, n))

Spec == Init /\ [][Next]_vars /\ Fairness

-----------------------------------------------------------------------------
(* Properties                                                              *)

\* A read r that has ended reports a result the writes it overlaps with
\* none allow.
Reads(r) ==
    (r.pc = "done" /\ r.clean) =>
        \/ r.result \in r.expect
        \/ r.result = NotFound /\ r.expect \cap (DelReqs \cup {NoObj}) # {}

\* A GET or HEAD that overlaps no client PUT or DELETE returns the payload
\* (ETag) of the last successful write (or of a PUT that failed after it
\* and may have reached some replicas), and answers NoSuchKey only when
\* the key was never written or was deleted: the read-your-writes promise
\* that NewClusterBackend's W + R > N check stands for, against the
\* first-success loop of ClusterBackend.Get, the first-exists loop of
\* ClusterBackend.Head and the background writes of RepairObject.  It
\* does not hold: neither loop uses R, and a replica that was down during
\* the last PUT answers the older payload (Cluster_stale.cfg).
ReadYourWrites ==
    /\ \A g \in GetReqs : Reads(get[g])
    /\ \A h \in HeadReqs : Reads(head[h])

\* An object whose PUT was acknowledged is never reported missing: a GET
\* or HEAD that overlaps no write, started after a PUT succeeded and with
\* no DELETE among the writes it may observe, returns a payload, although
\* a replica the PUT missed answers 404 and one that is down an error
\* until RepairObject fills the gap.  It rests on the W acks of
\* ClusterBackend.Put and on the loops of Get and Head moving past 404s
\* and errors.
ObjectNeverLost ==
    \A r \in {get[g] : g \in GetReqs} \cup {head[h] : h \in HeadReqs} :
        (/\ r.pc = "done" /\ r.clean
         /\ NoObj \notin r.expect /\ r.expect \cap DelReqs = {})
        => r.result # NotFound

\* After a DELETE has returned, a GET that overlaps no other write answers
\* NoSuchKey: the asynchronous RepairObject of an earlier PUT must not
\* bring the object back on any replica.
DeleteIsFinal ==
    \A g \in GetReqs :
        (get[g].pc = "done" /\ get[g].clean /\ get[g].expect \subseteq DelReqs) =>
            get[g].result = NotFound

\* Every request that was accepted gets an answer, and every RepairObject
\* task started by handlePut finishes, even while nodes stay unreachable.
Termination ==
    /\ \A p \in PutReqs : put[p].pc = "wait" ~> put[p].pc # "wait"
    /\ \A p \in PutReqs : rep[p].pc \in {"find", "head", "put"} ~> rep[p].pc = "done"
    /\ \A g \in GetReqs : get[g].pc = "wait" ~> get[g].pc = "done"
    /\ \A h \in HeadReqs : head[h].pc = "wait" ~> head[h].pc = "done"
    /\ \A d \in DelReqs : del[d].pc = "wait" ~> del[d].pc = "done"

=============================================================================
