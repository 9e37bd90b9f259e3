--------------------------- MODULE MC_RateLimiter ---------------------------
(* Instantiates RateLimiter with goroutines as model values.               *)
EXTENDS RateLimiter

\* One input for each branch of UpdateMetrics that adapts: 6% and 2% errors,
\* and none with a p99 of 50 ms.
MCMetrics == {[err |-> 600, p99 |-> 50], [err |-> 200, p99 |-> 50],
              [err |-> 0, p99 |-> 50]}

=============================================================================
