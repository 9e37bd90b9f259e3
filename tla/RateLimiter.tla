----------------------------- MODULE RateLimiter -----------------------------
(***************************************************************************)
(* The gateway's admission control: AdaptiveRateLimiter of                 *)
(* cmd/s3_server/rate_limiter.go.  Every object handler of the gateway    *)
(* calls PerformanceManager.WaitRateLimit, which calls Wait on the one    *)
(* global limiter; Wait loops over Allow, and Allow and AllowN begin with  *)
(* refill.  The limiter's fields are read and written with separate       *)
(* atomic operations, and refill takes the mutex only for its             *)
(* read-compute-store of the token count, so every load, check and store  *)
(* that the code separates is a step of its own here.                     *)
(*                                                                         *)
(* Time is the variable clock in ticks: Millisecond is refill's "too soon" *)
(* threshold and Second the divisor of elapsed * rate.                     *)
(***************************************************************************)
EXTENDS Integers, FiniteSets

CONSTANTS
    Procs,          \* goroutines
    Waiters,        \* the goroutines that call Wait; the others call AllowN
    AllowNs,        \* the n of the AllowN calls
    Initial,        \* initialRate of NewAdaptiveRateLimiter
    MinRate,        \* minRate
    MaxRate,        \* maxRate
    Workloads,      \* the workload types OptimizeForWorkload is given
    Metrics,        \* UpdateMetrics' inputs: [err |-> errorRate in basis points, p99 |-> ms]
    Millisecond,    \* ticks in a millisecond
    Second,         \* ticks in a second
    MaxTime,        \* bound on the clock
    MaxAdapt,       \* bound on the number of adaptations
    MaxCalls,       \* bound on the number of Wait and AllowN calls
    None

ASSUME /\ Waiters \subseteq Procs
       /\ 0 < MinRate /\ MinRate <= Initial /\ Initial <= MaxRate
       /\ 0 < Millisecond /\ Millisecond <= Second

VARIABLES
    tokens, maxTokens, refillRate, lastRefill,   \* the limiter's fields
    mu,          \* holder of rl.mu: a goroutine, "adapt" or None
    clock,       \* time.Now()
    pc,          \* where each goroutine is
    req,         \* the call each goroutine makes
    loc,         \* refill's locals: now, last, tokensToAdd, current, maxTokens
    adapts,      \* adaptations made
    calls,       \* Wait and AllowN calls made
    taken,       \* history: tokens handed out by Allow and AllowN
    granted,     \* history: tokens the refill stores added (newTokens - current)
    credit,      \* history: sum of tokensToAdd over the refills that stored
    perBucket,   \* PerformanceConfig.PerBucketLimiting, fixed by NewPerformanceManager
    limiters,    \* PerBucketRateLimiter.limiters[bucket]: a limiter id, 0 while absent
    made,        \* limiters NewAdaptiveRateLimiter has created for the bucket
    got          \* the limiter getLimiter returned to each goroutine, 0 before it returns

vars == <<tokens, maxTokens, refillRate, lastRefill, mu, clock, pc, req, loc,
          adapts, calls, taken, granted, credit, perBucket, limiters, made, got>>
limiter == <<tokens, maxTokens, refillRate, lastRefill>>
hist == <<taken, granted, credit>>
pb == <<perBucket, limiters, made, got>>

WaitCall == [kind |-> "Wait", n |-> 1]
Calls(p) == IF p \in Waiters THEN {WaitCall}
            ELSE {[kind |-> "AllowN", n |-> k] : k \in AllowNs}
NoLoc == [now |-> 0, last |-> 0, add |-> 0, cur |-> 0, max |-> 0]

Smaller(a, b) == IF a < b THEN a ELSE b

\* NewAdaptiveRateLimiter(initialRate, minRate, maxRate) at time 0.
Init ==
    /\ tokens = Initial /\ maxTokens = Initial /\ refillRate = Initial
    /\ lastRefill = 0
    /\ mu = None
    /\ clock = 0
    /\ pc = [p \in Procs |-> "idle"]
    /\ req = [p \in Procs |-> WaitCall]
    /\ loc = [p \in Procs |-> NoLoc]
    /\ adapts = 0 /\ calls = 0
    /\ taken = 0 /\ granted = 0 /\ credit = 0
    /\ perBucket \in BOOLEAN
    /\ limiters = 0 /\ made = 0
    /\ got = [p \in Procs |-> 0]

\* Where a caller goes once refill has returned: Allow's check or AllowN's loop.
AfterRefill(p) == IF req[p].kind = "Wait" THEN "check" ELSE "cas"

\* A goroutine calls Wait (a handler's WaitRateLimit) or AllowN.  With
\* PerBucketLimiting, WaitRateLimit and CheckRateLimit go through
\* PerBucketRateLimiter.Wait and Allow, which first ask getLimiter for the
\* bucket's limiter; otherwise they use the global limiter at once.  Every
\* call names the same bucket, whose limiter the limiter fields are.
Call(p, c) ==
    /\ pc[p] \in {"idle", "done"}
    /\ calls < MaxCalls
    /\ pc' = [pc EXCEPT ![p] = IF perBucket THEN "lookup" ELSE "read"]
    /\ req' = [req EXCEPT ![p] = c]
    /\ got' = [got EXCEPT ![p] = 0]
    /\ calls' = calls + 1
    /\ UNCHANGED <<limiter, mu, clock, loc, adapts, hist, perBucket, limiters, made>>

\* getLimiter: RLock, look the bucket up, RUnlock; a hit is returned, a miss
\* goes on to Lock.  Readers hold the RWMutex only within this step.
GetLimiterRead(p) ==
    /\ pc[p] = "lookup"
    /\ IF limiters # 0
         THEN /\ got' = [got EXCEPT ![p] = limiters]
              /\ pc' = [pc EXCEPT ![p] = "read"]
         ELSE /\ pc' = [pc EXCEPT ![p] = "create"]
              /\ UNCHANGED got
    /\ UNCHANGED <<limiter, mu, clock, req, loc, adapts, calls, hist,
                   perBucket, limiters, made>>

\* NewAdaptiveRateLimiter(defaultRate, minRate, maxRate) at time clock.
Created ==
    /\ tokens' = Initial /\ maxTokens' = Initial /\ refillRate' = Initial
    /\ lastRefill' = clock
    /\ made' = made + 1
    /\ limiters' = made + 1

\* getLimiter under Lock without the double-check: create and store.
GetLimiterLockNoRecheck(p) ==
    /\ pc[p] = "create"
    /\ Created
    /\ got' = [got EXCEPT ![p] = made + 1]
    /\ pc' = [pc EXCEPT ![p] = "read"]
    /\ UNCHANGED <<mu, clock, req, loc, adapts, calls, hist, perBucket>>

\* getLimiter under Lock (deferred Unlock): the double-check returns the
\* limiter another goroutine stored since the read; otherwise a new limiter
\* is created and stored.  Nothing else runs under the write lock, so the
\* whole critical section is one step.
GetLimiterLock(p) ==
    /\ pc[p] = "create"
    /\ IF limiters # 0
         THEN /\ got' = [got EXCEPT ![p] = limiters]
              /\ UNCHANGED <<limiter, limiters, made>>
         ELSE /\ Created
              /\ got' = [got EXCEPT ![p] = made + 1]
    /\ pc' = [pc EXCEPT ![p] = "read"]
    /\ UNCHANGED <<mu, clock, req, loc, adapts, calls, hist, perBucket>>

\* refill: now := time.Now(); last := lastRefill; too soon returns at once.
RefillRead(p) ==
    /\ pc[p] = "read"
    /\ loc' = [loc EXCEPT ![p] = [NoLoc EXCEPT !.now = clock, !.last = lastRefill]]
    /\ pc' = [pc EXCEPT ![p] = IF clock - lastRefill < Millisecond
                                THEN AfterRefill(p) ELSE "lock"]
    /\ UNCHANGED <<limiter, mu, clock, req, adapts, calls, hist, pb>>

\* refill under rl.mu without the double-check after Lock.
RefillLockNoRecheck(p) ==
    /\ pc[p] = "lock"
    /\ mu = None
    /\ LET add == ((loc[p].now - loc[p].last) * refillRate) \div Second
           go  == add > 0
       IN /\ mu' = IF go THEN p ELSE None
          /\ loc' = [loc EXCEPT ![p].add = add, ![p].cur = tokens, ![p].max = maxTokens]
          /\ pc' = [pc EXCEPT ![p] = IF go THEN "store" ELSE AfterRefill(p)]
    /\ UNCHANGED <<limiter, clock, req, adapts, calls, hist, pb>>

\* refill under rl.mu: the double-check of lastRefill, tokensToAdd from the
\* current rate, and the loads of tokens and maxTokens when there is
\* something to add; otherwise the deferred Unlock.
RefillLock(p) ==
    /\ pc[p] = "lock"
    /\ mu = None
    /\ LET add == ((loc[p].now - loc[p].last) * refillRate) \div Second
           go  == lastRefill = loc[p].last /\ add > 0
       IN /\ mu' = IF go THEN p ELSE None
          /\ loc' = [loc EXCEPT ![p].add = add, ![p].cur = tokens, ![p].max = maxTokens]
          /\ pc' = [pc EXCEPT ![p] = IF go THEN "store" ELSE AfterRefill(p)]
    /\ UNCHANGED <<limiter, clock, req, adapts, calls, hist, pb>>

\* StoreInt64(tokens, min(current + tokensToAdd, maxTokens)), then
\* StoreInt64(lastRefill, now), and Unlock.  The store overwrites whatever
\* Allow and AllowN took since the load of current.
RefillStore(p) ==
    /\ pc[p] = "store"
    /\ LET new == Smaller(loc[p].cur + loc[p].add, loc[p].max)
       IN /\ tokens' = new
          /\ granted' = granted + (new - loc[p].cur)
    /\ credit' = credit + loc[p].add
    /\ lastRefill' = loc[p].now
    /\ mu' = None
    /\ pc' = [pc EXCEPT ![p] = AfterRefill(p)]
    /\ UNCHANGED <<maxTokens, refillRate, clock, req, loc, adapts, calls, taken, pb>>

\* Allow: LoadInt64(tokens) > 0; a refusal counts rejected and Wait sleeps.
AllowCheck(p) ==
    /\ pc[p] = "check"
    /\ pc' = [pc EXCEPT ![p] = IF tokens > 0 THEN "take" ELSE "sleep"]
    /\ UNCHANGED <<limiter, mu, clock, req, loc, adapts, calls, hist, pb>>

\* Allow: AddInt64(tokens, -1), a separate atomic operation; Wait returns nil.
AllowTake(p) ==
    /\ pc[p] = "take"
    /\ tokens' = tokens - 1
    /\ taken' = taken + 1
    /\ pc' = [pc EXCEPT ![p] = "done"]
    /\ UNCHANGED <<maxTokens, refillRate, lastRefill, mu, clock, req, loc,
                   adapts, calls, granted, credit, pb>>

\* Wait's select: the request context ends (ctx.Err()), or the 10 ms timer
\* fires and Wait calls Allow again.
WaitSleep(p) ==
    /\ pc[p] = "sleep"
    /\ \/ pc' = [pc EXCEPT ![p] = "done"]
       \/ pc' = [pc EXCEPT ![p] = "read"]
    /\ UNCHANGED <<limiter, mu, clock, req, loc, adapts, calls, hist, pb>>

\* AllowN's loop: Load, then CompareAndSwap(current, current-n); a failed CAS
\* loads again, so each pass that changes anything is one atomic step.
AllowNCas(p) ==
    /\ pc[p] = "cas"
    /\ IF tokens < req[p].n
         THEN UNCHANGED <<tokens, taken>>
         ELSE /\ tokens' = tokens - req[p].n
              /\ taken' = taken + req[p].n
    /\ pc' = [pc EXCEPT ![p] = "done"]
    /\ UNCHANGED <<maxTokens, refillRate, lastRefill, mu, clock, req, loc,
                   adapts, calls, granted, credit, pb>>

\* AdaptUp(f) and AdaptDown(f) under rl.mu: newLimit = int64(current*(1 +/- f))
\* clamped to maxTokensLimit or minTokens; when it moves, maxTokens and
\* refillRate take it.  The token count is left as it is.  With
\* PerBucketLimiting, OptimizeForWorkload still adapts pm.rateLimiter, which no
\* handler consults then, and the bucket's limiter is adapted only through
\* PerBucketRateLimiter.UpdateMetrics, which nothing calls: no adaptation
\* reaches the limiter modelled.
Adapt(newLimit, better) ==
    /\ ~perBucket
    /\ mu = None
    /\ adapts < MaxAdapt
    /\ IF better THEN /\ maxTokens' = newLimit /\ refillRate' = newLimit
                ELSE UNCHANGED <<maxTokens, refillRate>>
    /\ adapts' = adapts + 1
    /\ UNCHANGED <<tokens, lastRefill, mu, clock, pc, req, loc, calls, hist, pb>>

AdaptUp(f) ==
    LET newLimit == Smaller((maxTokens * (100 + f)) \div 100, MaxRate)
    IN Adapt(newLimit, newLimit > maxTokens)

AdaptDown(f) ==
    LET raw == (maxTokens * (100 - f)) \div 100
        newLimit == IF raw < MinRate THEN MinRate ELSE raw
    IN Adapt(newLimit, newLimit < maxTokens)

\* PerformanceManager.OptimizeForWorkload: AdaptUp by the workload's factor.
\* "mixed" and unknown workloads leave the limiter as it is and are not
\* among the Workloads.
WorkloadFactor(w) ==
    CASE w = "read-heavy" -> 20 [] w = "write-heavy" -> 10 [] w = "bursty" -> 30

OptimizeForWorkload(w) == AdaptUp(WorkloadFactor(w))

\* UpdateMetrics stores errorRate and latencyP99 under rl.mu (fields nothing
\* reads, left out here), unlocks, and adapts: down by 20% above 5% errors,
\* by 10% above 1%, up by 10% below 0.1% errors with p99 under 100 ms.
UpdateMetrics(m) ==
    CASE m.err > 500                  -> AdaptDown(20)
      [] m.err > 100                  -> AdaptDown(10)
      [] m.err < 10 /\ m.p99 < 100    -> AdaptUp(10)
      [] OTHER                        -> UNCHANGED vars

\* Time passes.
Tick ==
    /\ clock < MaxTime
    /\ clock' = clock + 1
    /\ UNCHANGED <<limiter, mu, pc, req, loc, adapts, calls, hist, pb>>

Next ==
    \/ \E p \in Procs :
          \/ \E c \in Calls(p) : Call(p, c)
          \/ GetLimiterRead(p) \/ GetLimiterLock(p)
          \/ RefillRead(p) \/ RefillLock(p) \/ RefillStore(p)
          \/ AllowCheck(p) \/ AllowTake(p) \/ WaitSleep(p) \/ AllowNCas(p)
    \/ \E w \in Workloads : OptimizeForWorkload(w)
    \/ \E m \in Metrics : UpdateMetrics(m)
    \/ Tick

Spec == Init /\ [][Next]_vars

-----------------------------------------------------------------------------
TypeOK ==
    /\ tokens \in Int /\ maxTokens \in MinRate..MaxRate
    /\ refillRate = maxTokens
    /\ lastRefill \in 0..clock
    /\ mu \in Procs \cup {None}
    /\ pc \in [Procs -> {"idle", "lookup", "create", "read", "lock", "store",
                         "check", "take", "sleep", "cas", "done"}]
    /\ perBucket \in BOOLEAN /\ limiters \in 0..made /\ got \in [Procs -> 0..made]
    /\ \A p \in Procs : req[p] \in Calls(p) \cup {WaitCall}

(* refill credits each stretch of time once: the double-check of lastRefill *)
(* under the mutex makes a goroutine that read lastRefill before another's *)
(* refill give up, so the tokens credited never exceed what the fastest    *)
(* rate allows for the time lastRefill has advanced.                       *)
RefillCreditsOnce ==
    credit * Second <= MaxRate * lastRefill

(* Allow and AllowN hand out a token only when the bucket holds one: the   *)
(* tokens handed out never exceed the initial tokens plus those refill     *)
(* added.  Allow's separate load and decrement and refill's store over a   *)
(* stale load are what it is about.                                        *)
NeverOverAdmits ==
    taken <= Initial + granted

(* The per-bucket map hands every request of a bucket the same limiter:    *)
(* getLimiter's RLock lookup and its Lock are separate critical sections,  *)
(* and two requests that both miss must not both create one, or the bucket *)
(* gets two independent token buckets and twice its rate.  Every goroutine *)
(* that getLimiter has answered holds the limiter the map has for the      *)
(* bucket, and at most one was ever created.                              *)
OneLimiterPerBucket ==
    /\ made <= 1
    /\ \A p \in Procs : got[p] # 0 => got[p] = limiters

=============================================================================
