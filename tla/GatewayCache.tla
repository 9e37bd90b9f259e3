------------------------------ MODULE GatewayCache ------------------------------
(***************************************************************************)
(* The gateway's read caches for one key and the writes that invalidate   *)
(* them.                                                                   *)
(*                                                                         *)
(* PerformanceManager.GetObject: CheckRateLimit, then                      *)
(* ObjectRequestCache.GetObjectData: look in the data cache; on a miss    *)
(* join or lead the single flight of RequestCoalescer.DoWithContext        *)
(* (part_005); the leader runs the fetcher under its own context; every   *)
(* caller that got a value stores it in the cache.                        *)
(*                                                                         *)
(* GatewayServer.handleHead (part_006): look in the head cache            *)
(* (HeadResultCache); on a miss ask the backend and store its answer.     *)
(*                                                                         *)
(* handlePut and handleDelete change the object in the backend and then   *)
(* call PerformanceManager.InvalidateObject, which drops the key from the *)
(* data cache and the head cache.  FastCache entries also disappear on    *)
(* their own (TTL expiry, eviction).                                       *)
(*                                                                         *)
(* The object's state in the backend is a version number; a fetch returns *)
(* the version it read, or an error when the leader's context is          *)
(* cancelled before the backend call completes.                           *)
(***************************************************************************)
EXTENDS Naturals, FiniteSets

CONSTANTS
    Callers,    \* concurrent GetObjectData calls for the key
    HeadReqs,   \* concurrent HEAD requests for the key
    Writers,    \* concurrent writes of the key
    Deletes,    \* the writes among them that are DELETEs; the others are PUTs
    None,       \* no cache entry / no flight
    Err,        \* an error: ctx.Err() of a cancelled fetch, a failed call, SlowDown
    NoSuchKey,  \* handleHead's 404 answer; a listing without the key
    Listers     \* concurrent ListObjects calls for the key's bucket

\* QueryCache has a coalescer of its own; with one call it always leads and
\* runs the fetcher itself, which is what ListFetch models.
ASSUME Cardinality(Listers) <= 1

Versions == 0..Cardinality(Writers)

VARIABLES
    version,    \* version of the object in the backend
    exists,     \* the backend holds an object under the key
    cache,      \* the data cache entry for the key
    headCache,  \* the head cache entry for the key
    head,       \* head[h]: program counter and result of HEAD request h
    inflight,   \* rc.inflight[key]: the leader whose flight is registered
    flight,     \* flight[l]: state of the inflightRequest led by caller l
    caller,     \* caller[c]: program counter, flight followed, result
    cancelled,  \* cancelled[c]: caller c's request context is done
    writer,     \* writer[w]: program counter of write w
    listCache,  \* the query cache entry for the bucket's listing
    lister      \* lister[l]: program counter and result of ListObjects call l

vars == <<version, exists, cache, headCache, head, inflight, flight, caller, cancelled, writer,
          listCache, lister>>

Result == Versions \cup {Err, None}

TypeOK ==
    /\ version \in Versions
    /\ exists \in BOOLEAN
    /\ cache \in Versions \cup {None}
    /\ headCache \in Versions \cup {None}
    /\ head \in [HeadReqs -> [pc : {"idle", "backend", "set", "done"},
                              result : Result \cup {NoSuchKey}]]
    /\ inflight \in Callers \cup {None}
    /\ flight \in [Callers -> [st : {"none", "running", "returned", "deleted", "closed"}, result : Result]]
    /\ caller \in [Callers -> [pc : {"idle", "lookup", "miss", "lead", "wait", "store", "done"},
                              leader : Callers \cup {None}, result : Result]]
    /\ cancelled \in [Callers -> BOOLEAN]
    /\ writer \in [Writers -> {"idle", "invalidate", "done"}]
    /\ listCache \in Versions \cup {NoSuchKey, None}
    /\ lister \in [Listers -> [pc : {"idle", "lookup", "fetch", "store", "done"},
                               result : Result \cup {NoSuchKey}]]

Init ==
    /\ version = 0
    /\ exists = TRUE
    /\ cache = None
    /\ headCache = None
    /\ head = [h \in HeadReqs |-> [pc |-> "idle", result |-> None]]
    /\ inflight = None
    /\ flight = [c \in Callers |-> [st |-> "none", result |-> None]]
    /\ caller = [c \in Callers |-> [pc |-> "idle", leader |-> None, result |-> None]]
    /\ cancelled = [c \in Callers |-> FALSE]
    /\ writer = [w \in Writers |-> "idle"]
    /\ listCache = None
    /\ lister = [l \in Listers |-> [pc |-> "idle", result |-> None]]

-----------------------------------------------------------------------------
(* GetObjectData                                                           *)

\* PerformanceManager.GetObject: CheckRateLimit (Allow, which does not
\* wait) refuses with "rate limit exceeded", or the call goes on to the
\* object cache.
RateCheck(c) ==
    /\ caller[c].pc = "idle"
    /\ \/ caller' = [caller EXCEPT ![c].pc = "lookup"]
       \/ caller' = [caller EXCEPT ![c].pc = "done", ![c].result = Err]
    /\ UNCHANGED <<headCache, head, version, exists, cache, inflight, flight, cancelled, writer, listCache, lister>>

\* cache.GetData: a hit returns the cached bytes.
CacheLookup(c) ==
    /\ caller[c].pc = "lookup"
    /\ caller' = [caller EXCEPT ![c] = IF cache # None
                                      THEN [pc |-> "done", leader |-> None, result |-> cache]
                                      ELSE [@ EXCEPT !.pc = "miss"]]
    /\ UNCHANGED <<headCache, head, version, exists, cache, inflight, flight, cancelled, writer, listCache, lister>>

\* DoWithContext under rc.mu: follow the registered flight, or register a
\* new one and lead it.
Join(c) ==
    /\ caller[c].pc = "miss"
    /\ IF inflight # None
       THEN /\ caller' = [caller EXCEPT ![c].pc = "wait", ![c].leader = inflight]
            /\ UNCHANGED <<inflight, flight, listCache, lister>>
       ELSE /\ inflight' = c
            /\ flight' = [flight EXCEPT ![c] = [st |-> "running", result |-> None]]
            /\ caller' = [caller EXCEPT ![c].pc = "lead", ![c].leader = c]
    /\ UNCHANGED <<headCache, head, version, exists, cache, cancelled, writer, listCache, lister>>

\* The leader runs fn(ctx) and keeps whatever it returns: the fetcher reads
\* the backend, and once the leader's context is done the backend call
\* fails or has already completed with the version it read.
Fetch(c) ==
    /\ caller[c].pc = "lead"
    /\ flight[c].st = "running"
    /\ \E r \in IF cancelled[c] THEN {Err, version} ELSE {version} :
          flight' = [flight EXCEPT ![c] = [st |-> "returned", result |-> r]]
    /\ UNCHANGED <<headCache, head, version, exists, cache, inflight, caller, cancelled, writer, listCache, lister>>

FinishWithoutClose(c) ==
    /\ caller[c].pc = "lead"
    /\ \/ /\ flight[c].st = "returned"
          /\ inflight' = None
          /\ flight' = [flight EXCEPT ![c].st = "deleted"]
          /\ UNCHANGED caller
       \/ /\ flight[c].st = "deleted"
          /\ caller' = [caller EXCEPT ![c].pc = "store", ![c].result = flight[c].result]
          /\ UNCHANGED <<inflight, flight, listCache, lister>>
    /\ UNCHANGED <<headCache, head, version, exists, cache, cancelled, writer, listCache, lister>>

\* After fn returns: delete(rc.inflight, key) under rc.mu; after the
\* Unlock, close(req.done); then the leader returns its own result.
Finish(c) ==
    /\ caller[c].pc = "lead"
    /\ \/ /\ flight[c].st = "returned"
          /\ inflight' = None
          /\ flight' = [flight EXCEPT ![c].st = "deleted"]
          /\ UNCHANGED caller
       \/ /\ flight[c].st = "deleted"
          /\ flight' = [flight EXCEPT ![c].st = "closed"]
          /\ UNCHANGED <<inflight, caller, listCache, lister>>
       \/ /\ flight[c].st = "closed"
          /\ caller' = [caller EXCEPT ![c].pc = "store", ![c].result = flight[c].result]
          /\ UNCHANGED <<inflight, flight, listCache, lister>>
    /\ UNCHANGED <<headCache, head, version, exists, cache, cancelled, writer, listCache, lister>>

\* A waiter's select: done is closed, so it returns the leader's result ...
WaitDone(c) ==
    /\ caller[c].pc = "wait"
    /\ flight[caller[c].leader].st = "closed"
    /\ caller' = [caller EXCEPT ![c].pc = "store", ![c].result = flight[caller[c].leader].result]
    /\ UNCHANGED <<headCache, head, version, exists, cache, inflight, flight, cancelled, writer, listCache, lister>>

\* ... or its own context is done, and it returns ctx.Err().
WaitCancel(c) ==
    /\ caller[c].pc = "wait"
    /\ cancelled[c]
    /\ caller' = [caller EXCEPT ![c].pc = "done", ![c].result = Err]
    /\ UNCHANGED <<headCache, head, version, exists, cache, inflight, flight, cancelled, writer, listCache, lister>>

\* Variant that stores the result without looking at the error.
StoreIgnoringErr(c) ==
    /\ caller[c].pc = "store"
    /\ caller' = [caller EXCEPT ![c].pc = "done"]
    /\ cache' = caller[c].result
    /\ UNCHANGED <<headCache, head, version, exists, inflight, flight, cancelled, writer, listCache, lister>>

\* An error is returned as is; a value is stored with cache.SetData.
Store(c) ==
    /\ caller[c].pc = "store"
    /\ caller' = [caller EXCEPT ![c].pc = "done"]
    /\ cache' = IF caller[c].result = Err THEN cache ELSE caller[c].result
    /\ UNCHANGED <<headCache, head, version, exists, inflight, flight, cancelled, writer, listCache, lister>>

-----------------------------------------------------------------------------
(* handleHead                                                              *)

\* HeadResultCache.Get, Set and Invalidate on the FastCache entry
\* "head:<bucket>/<key>"; the hit and miss counters are left out.
HeadCacheGet == headCache
HeadCacheSet(r) == headCache' = r
HeadCacheInvalidate == headCache' = None

\* handleHead: WaitRateLimit fails (the request's context ends while it
\* waits) and the answer is 503 SlowDown.
HeadSlowDown(h) ==
    /\ head[h].pc = "idle"
    /\ head' = [head EXCEPT ![h] = [pc |-> "done", result |-> Err]]
    /\ UNCHANGED <<version, exists, cache, headCache, inflight, flight, caller, cancelled, writer, listCache, lister>>

\* headCache.Get: a hit answers from the cached result.
HeadLookup(h) ==
    /\ head[h].pc = "idle"
    /\ head' = [head EXCEPT ![h] = IF HeadCacheGet # None
                                  THEN [pc |-> "done", result |-> HeadCacheGet]
                                  ELSE [pc |-> "backend", result |-> None]]
    /\ UNCHANGED <<version, exists, cache, headCache, inflight, flight, caller, cancelled, writer, listCache, lister>>

\* backend.Head: an error is answered 500; an object that does not exist
\* is answered 404 NoSuchKey and not cached; otherwise the current version
\* goes on to the cache.
HeadBackend(h) ==
    /\ head[h].pc = "backend"
    /\ \/ head' = [head EXCEPT ![h] = IF exists THEN [pc |-> "set", result |-> version]
                                     ELSE [pc |-> "done", result |-> NoSuchKey]]
       \/ head' = [head EXCEPT ![h] = [pc |-> "done", result |-> Err]]
    /\ UNCHANGED <<version, exists, cache, headCache, inflight, flight, caller, cancelled, writer, listCache, lister>>

\* headCache.Set of the result read before, then the 200 answer.
HeadSet(h) ==
    /\ head[h].pc = "set"
    /\ HeadCacheSet(head[h].result)
    /\ head' = [head EXCEPT ![h].pc = "done"]
    /\ UNCHANGED <<version, exists, cache, inflight, flight, caller, cancelled, writer, listCache, lister>>

-----------------------------------------------------------------------------
(* PerformanceManager.ListObjects over QueryCache.GetListResultWithFetch  *)

\* What a listing of the bucket shows of the key: its ETag (the version),
\* or no entry.
ListView == IF exists THEN version ELSE NoSuchKey

\* CheckRateLimit refuses with "rate limit exceeded", or the call goes on.
ListRateCheck(l) ==
    /\ lister[l].pc = "idle"
    /\ \/ lister' = [lister EXCEPT ![l].pc = "lookup"]
       \/ lister' = [lister EXCEPT ![l] = [pc |-> "done", result |-> Err]]
    /\ UNCHANGED <<version, exists, cache, headCache, head, inflight, flight, caller, cancelled, writer, listCache>>

\* GetListResult on the FastCache entry of makeListKey(bucket, prefix,
\* marker, maxKeys): a hit is returned as is.
ListLookup(l) ==
    /\ lister[l].pc = "lookup"
    /\ lister' = [lister EXCEPT ![l] = IF listCache # None
                                      THEN [pc |-> "done", result |-> listCache]
                                      ELSE [pc |-> "fetch", result |-> None]]
    /\ UNCHANGED <<version, exists, cache, headCache, head, inflight, flight, caller, cancelled, writer, listCache>>

\* coalescer.DoWithContext runs the fetcher, which lists the backend; an
\* error is returned without caching.
ListFetch(l) ==
    /\ lister[l].pc = "fetch"
    /\ \/ lister' = [lister EXCEPT ![l] = [pc |-> "store", result |-> ListView]]
       \/ lister' = [lister EXCEPT ![l] = [pc |-> "done", result |-> Err]]
    /\ UNCHANGED <<version, exists, cache, headCache, head, inflight, flight, caller, cancelled, writer, listCache>>

\* SetListResult stores the listing read before, and the call returns it.
ListStore(l) ==
    /\ lister[l].pc = "store"
    /\ listCache' = lister[l].result
    /\ lister' = [lister EXCEPT ![l].pc = "done"]
    /\ UNCHANGED <<version, exists, cache, headCache, head, inflight, flight, caller, cancelled, writer>>

-----------------------------------------------------------------------------
(* Writes and the environment                                              *)

\* backend.Put (or Delete) succeeds ...
Write(w) ==
    /\ writer[w] = "idle"
    /\ version' = version + 1
    /\ exists' = (w \notin Deletes)
    /\ writer' = [writer EXCEPT ![w] = "invalidate"]
    /\ UNCHANGED <<headCache, head, cache, inflight, flight, caller, cancelled, listCache, lister>>

\* QueryCache.InvalidateBucket adds to the Invalidations counter and
\* removes no entry.
QueryInvalidateBucket == UNCHANGED listCache

\* ... then InvalidateObject drops the key from the data cache and the head
\* cache (objCache.Invalidate, headCache.Invalidate) and calls the query
\* cache's InvalidateBucket.
Invalidate(w) ==
    /\ writer[w] = "invalidate"
    /\ cache' = None
    /\ HeadCacheInvalidate
    /\ QueryInvalidateBucket
    /\ writer' = [writer EXCEPT ![w] = "done"]
    /\ UNCHANGED <<head, version, exists, inflight, flight, caller, cancelled, lister>>

\* A FastCache entry expires (its TTL) or is evicted.
Expire ==
    /\ \/ cache # None /\ cache' = None /\ UNCHANGED <<headCache, listCache>>
       \/ headCache # None /\ headCache' = None /\ UNCHANGED <<cache, listCache>>
       \/ listCache # None /\ listCache' = None /\ UNCHANGED <<cache, headCache>>
    /\ UNCHANGED <<version, exists, head, inflight, flight, caller, cancelled, writer, lister>>

\* The client of caller c goes away or its deadline passes.
Cancel(c) ==
    /\ ~cancelled[c] /\ caller[c].pc # "done"
    /\ cancelled' = [cancelled EXCEPT ![c] = TRUE]
    /\ UNCHANGED <<headCache, head, version, exists, cache, inflight, flight, caller, writer, listCache, lister>>

Next ==
    \/ \E c \in Callers : \/ RateCheck(c) \/ CacheLookup(c) \/ Join(c) \/ Fetch(c) \/ Finish(c)
                          \/ WaitDone(c) \/ WaitCancel(c) \/ Store(c) \/ Cancel(c)
    \/ \E h \in HeadReqs : HeadSlowDown(h) \/ HeadLookup(h) \/ HeadBackend(h) \/ HeadSet(h)
    \/ \E w \in Writers : Write(w) \/ Invalidate(w)
    \/ \E l \in Listers : ListRateCheck(l) \/ ListLookup(l) \/ ListFetch(l) \/ ListStore(l)
    \/ Expire

\* Every goroutine step is eventually taken; a fetch returns (by value,
\* error or context deadline).  Cancellation and writes need not happen.
Fairness ==
    /\ \A c \in Callers : WF_vars(RateCheck(c) \/ CacheLookup(c) \/ Join(c) \/ Fetch(c) \/ Finish(c)
                                  \/ WaitDone(c) \/ Store(c))
    /\ \A h \in HeadReqs : WF_vars(HeadLookup(h) \/ HeadBackend(h) \/ HeadSet(h))
    /\ \A w \in Writers : WF_vars(Invalidate(w))
    /\ \A l \in Listers : WF_vars(ListRateCheck(l) \/ ListLookup(l) \/ ListFetch(l) \/ ListStore(l))

Spec == Init /\ [][Next]_vars /\ Fairness

-----------------------------------------------------------------------------
(* Properties                                                              *)

\* The coalescer as the contract of spec section 4.6 sees it: the key's
\* registered flight, each flight's result once fn has returned, the
\* flight each caller led or joined, and what each call returned.
SF == INSTANCE SingleFlight WITH
        Callers <- Callers, Results <- Versions \cup {Err}, Err <- Err, None <- None,
        inflight <- inflight,
        result <- [l \in Callers |-> IF flight[l].st \in {"returned", "deleted", "closed"}
                                     THEN flight[l].result ELSE None],
        follows <- [c \in Callers |-> caller[c].leader],
        out <- [c \in Callers |-> IF caller[c].leader # None /\ caller[c].pc \in {"store", "done"}
                                  THEN caller[c].result ELSE None]

CacheNotStale ==
    (\A w \in Writers : writer[w] # "invalidate") =>
        /\ cache \in {None, version}
        /\ headCache \in {None, version}
        /\ listCache \in {None, ListView}

\* Every call of GetObjectData and every HEAD returns: the leader's
\* completion wakes every waiter, and a cancelled waiter leaves by its own
\* context.
Termination ==
    /\ \A c \in Callers : caller[c].pc # "idle" ~> caller[c].pc = "done"
    /\ \A h \in HeadReqs : head[h].pc # "idle" ~> head[h].pc = "done"
    /\ \A l \in Listers : lister[l].pc # "idle" ~> lister[l].pc = "done"

=============================================================================
