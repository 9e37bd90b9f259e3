------------------------------ MODULE Lifecycle ------------------------------
(***************************************************************************)
(* The gateway's lifecycle scanner (cmd/s3_server/lifecycle.go) composed  *)
(* with the path its listing takes to the storage nodes.                  *)
(*                                                                         *)
(* runGateway starts LifecycleManager.Start in a goroutine (lifecycle is  *)
(* enabled by default); loadAll has read the bucket's rules from its JSON *)
(* file.  Start runs processAll at once and then on every hourly tick,    *)
(* and nothing calls Stop.  processBucket lists the bucket through the    *)
(* gateway's backend: ClusterBackend.List asks the first node of the ring *)
(* with HTTPBackend.List, which sends GET /<bucket>?list=1 to the node,   *)
(* and NodeServer.ServeHTTP routes it.  Each listed object is checked     *)
(* against every rule and deleted through the backend when it is old      *)
(* enough.  Clients meanwhile PUT and DELETE objects through the gateway. *)
(*                                                                         *)
(* One bucket.  Time is counted in days; an object's LastModified is the  *)
(* day of the PUT that wrote it.                                          *)
(***************************************************************************)
EXTENDS Naturals, Sequences

CONSTANTS
    Bucket,        \* the bucket the configuration names
    Objects,       \* its keys, in the order LocalFSBackend.List walks them
    Rules,         \* the configuration's rules, in order
    RingNodes,     \* number of nodes the ring's AllNodes returns
    BackendToken,  \* the gateway's -backend_auth_token ("" when unset)
    NodeToken,     \* the nodes' -auth_token ("" when unset)
    ListLimit,     \* the limit processBucket passes to List (1000)
    MaxDay,        \* bound on the clock
    MaxFailures,   \* bound on the transport errors of the listing
    Absent         \* no object under the key

(* A key is a directory and a name; a rule's prefix is "" or a directory. *)
Keys == {Objects[i] : i \in DOMAIN Objects}

VARIABLES
    day,      \* today
    obj,      \* obj[k]: the day the current object under k was written, or Absent
    scanner,  \* where the lifecycle goroutine is
    now,      \* processBucket's time.Now(), read after the listing
    listed,   \* the listed objects processBucket has still to check
    failures  \* transport errors of the listing so far

vars == <<day, obj, scanner, now, listed, failures>>

Init ==
    /\ day = 0
    /\ obj \in [Keys -> {Absent, 0}]
    /\ scanner = "process"       \* Start: "Run immediately on start"
    /\ now = 0
    /\ listed = <<>>
    /\ failures = 0

-----------------------------------------------------------------------------
(* The listing's path to a node                                            *)

\* HTTPBackend.List: GET <baseURL>/<bucket>?list=1&prefix=&marker=&limit=n
\* with the backend token as Bearer token when one is set.  The URL path
\* has one segment.
ListRequest ==
    [path |-> <<Bucket>>, list |-> TRUE, auth |-> BackendToken, limit |-> ListLimit]

\* NodeServer.ServeHTTP: the token check, the split of the path into
\* bucket and key, which answers 400 when there is no key, and only then
\* the ?list=1 branch to handleList.
NodeStatus(req) ==
    CASE NodeToken # "" /\ req.auth # NodeToken -> 401
      [] Len(req.path) < 2                      -> 400
      [] req.list                               -> 200
      [] OTHER                                  -> 405

\* handleList and LocalFSBackend.List: the walk visits the keys in order,
\* skips the ones with no object and stops after limit entries.
RECURSIVE Walk(_, _)
Walk(ks, limit) ==
    IF ks = <<>> \/ limit = 0 THEN <<>>
    ELSE IF obj[ks[1]] = Absent THEN Walk(Tail(ks), limit)
    ELSE <<[key |-> ks[1], lm |-> obj[ks[1]]]>> \o Walk(Tail(ks), limit - 1)

NodeList(req) == Walk(Objects, req.limit)

\* HTTPBackend.List's outcomes: a transport error from client.Do, "LIST
\* failed" for a status other than 200, or the decoded listing.
HTTPList(req) ==
    (IF failures < MaxFailures THEN {"transport"} ELSE {})
    \cup {IF NodeStatus(req) = 200 THEN "listed" ELSE "status"}

\* ClusterBackend.List: "no nodes available" on an empty ring, otherwise
\* the first node's HTTPBackend.List.
ClusterList(req) ==
    IF RingNodes = 0 THEN {"nonodes"} ELSE HTTPList(req)

-----------------------------------------------------------------------------
(* The scanner                                                             *)

\* processAll takes the one configuration and processBucket lists the
\* bucket.  On an error processBucket logs it and returns, and Start waits
\* for the next tick; otherwise it reads time.Now() and checks the listing.
ScanList ==
    /\ scanner = "process"
    /\ \E out \in ClusterList(ListRequest) :
          /\ failures' = IF out = "transport" THEN failures + 1 ELSE failures
          /\ listed' = IF out = "listed" THEN NodeList(ListRequest) ELSE <<>>
          /\ scanner' = IF out = "listed" THEN "objects" ELSE "wait"
    /\ now' = day
    /\ UNCHANGED <<day, obj>>

\* A rule applies to a listed key: enabled, with a matching prefix and an
\* expiration.
Applies(r, k) == r.enabled /\ (r.prefix = "" \/ r.prefix = k.dir) /\ r.days > 0

\* The listed object is old enough for the rule: LastModified parses, and
\* now - LastModified >= ExpirationDays * 24h.
OldEnough(r, e) == now - e.lm >= r.days

\* The check of one listed object against each rule in turn; every rule
\* that expires it calls backend.Delete on the key, which removes whatever
\* object the key holds now.  After the last object processBucket returns.
ScanObject ==
    /\ scanner = "objects"
    /\ listed # <<>>
    /\ LET e == listed[1]
       IN obj' = IF \E i \in DOMAIN Rules : Applies(Rules[i], e.key) /\ OldEnough(Rules[i], e)
                 THEN [obj EXCEPT ![e.key] = Absent] ELSE obj
    /\ listed' = Tail(listed)
    /\ scanner' = IF Tail(listed) = <<>> THEN "wait" ELSE "objects"
    /\ UNCHANGED <<day, now, failures>>

\* An empty listing: processBucket's loop does nothing.
ScanEmpty ==
    /\ scanner = "objects"
    /\ listed = <<>>
    /\ scanner' = "wait"
    /\ UNCHANGED <<day, obj, now, listed, failures>>

\* The hourly ticker fires and Start calls processAll again.
TickerFires ==
    /\ scanner = "wait"
    /\ scanner' = "process"
    /\ UNCHANGED <<day, obj, now, listed, failures>>

-----------------------------------------------------------------------------
(* Environment                                                             *)

\* A client's PUT through the gateway writes a new object today.
ClientPut(k) ==
    /\ obj' = [obj EXCEPT ![k] = day]
    /\ UNCHANGED <<day, scanner, now, listed, failures>>

\* A client's DELETE through the gateway.
ClientDelete(k) ==
    /\ obj[k] # Absent
    /\ obj' = [obj EXCEPT ![k] = Absent]
    /\ UNCHANGED <<day, scanner, now, listed, failures>>

NextDay ==
    /\ day < MaxDay
    /\ day' = day + 1
    /\ UNCHANGED <<obj, scanner, now, listed, failures>>

Next ==
    \/ ScanList \/ ScanObject \/ ScanEmpty \/ TickerFires
    \/ \E k \in Keys : ClientPut(k) \/ ClientDelete(k)
    \/ NextDay

\* The scanner goroutine runs and the ticker keeps firing, since nothing
\* stops it; clients owe nothing, and days pass.
Fairness ==
    /\ WF_vars(ScanList) /\ WF_vars(ScanObject) /\ WF_vars(ScanEmpty)
    /\ WF_vars(TickerFires)
    /\ WF_vars(NextDay)

Spec == Init /\ [][Next]_vars /\ Fairness

-----------------------------------------------------------------------------
(* Properties                                                              *)

\* LifecycleManager.ShouldExpire(bucket, key, lastModified): some enabled
\* rule of the bucket's configuration matches the key and its expiration
\* has passed since lastModified.
ShouldExpire(k, lm) ==
    \E i \in DOMAIN Rules : Applies(Rules[i], k) /\ day - lm >= Rules[i].days

\* The object under k is one ShouldExpire says should expire.
Expired(k) == obj[k] # Absent /\ ShouldExpire(k, obj[k])

\* Lifecycle expiration takes effect: an object that has outlived an
\* enabled rule for its key is eventually removed (or rewritten by a
\* client).  processAll, every hour, is the only place the gateway expires
\* objects, and it reaches the objects only through backend.List.
ExpiredObjectsRemoved ==
    \A k \in Keys : Expired(k) ~> ~Expired(k)

=============================================================================
