----------------------------- MODULE SingleFlight -----------------------------
(***************************************************************************)
(* What the request coalescer promises for one key (spec section 4.6):    *)
(* Do(key, fn) runs at most one fn at a time; calls that find the key in  *)
(* flight wait for that fn and share its result, success or failure;      *)
(* after fn returns the key leaves the in-flight table before any waiter  *)
(* resumes, so a later call starts a fresh fn; a waiter whose context     *)
(* ends leaves without disturbing the flight.                             *)
(*                                                                         *)
(* Each caller makes one call.  Registering a flight, joining it and its  *)
(* release are atomic here; module GatewayCache is shown to implement     *)
(* this specification.                                                    *)
(***************************************************************************)
CONSTANTS
    Callers,    \* the callers of Do for the key
    Results,    \* what fn may return, an error included
    Err,        \* the error a waiter returns when its context ends
    None        \* no flight / no result yet

VARIABLES
    inflight,   \* the caller whose flight is registered for the key, or None
    result,     \* result[l]: what the fn of the flight led by l returned, or None
    follows,    \* follows[c]: the leader of the flight caller c led or joined, or None
    out         \* out[c]: what caller c's call returned, or None

vars == <<inflight, result, follows, out>>

Init ==
    /\ inflight = None
    /\ result = [c \in Callers |-> None]
    /\ follows = [c \in Callers |-> None]
    /\ out = [c \in Callers |-> None]

\* A call that finds no flight registers its own and runs fn.
Lead(c) ==
    /\ follows[c] = None /\ inflight = None
    /\ inflight' = c
    /\ follows' = [follows EXCEPT ![c] = c]
    /\ UNCHANGED <<result, out>>

\* A call that finds the key in flight waits on that flight.
Follow(c) ==
    /\ follows[c] = None /\ inflight # None
    /\ follows' = [follows EXCEPT ![c] = inflight]
    /\ UNCHANGED <<inflight, result, out>>

\* The registered flight's fn returns r.
Run(r) ==
    /\ inflight # None /\ result[inflight] = None
    /\ result' = [result EXCEPT ![inflight] = r]
    /\ UNCHANGED <<inflight, follows, out>>

\* Once fn has returned, the key leaves the in-flight table.
Release ==
    /\ inflight # None /\ result[inflight] # None
    /\ inflight' = None
    /\ UNCHANGED <<result, follows, out>>

\* A caller whose flight has been released returns that flight's result.
Return(c) ==
    /\ follows[c] # None /\ out[c] = None
    /\ follows[c] # inflight /\ result[follows[c]] # None
    /\ out' = [out EXCEPT ![c] = result[follows[c]]]
    /\ UNCHANGED <<inflight, result, follows>>

\* A waiter's context ends: it returns the context's error, and the flight
\* and its other callers go on.
Abandon(c) ==
    /\ follows[c] \notin {None, c} /\ out[c] = None
    /\ out' = [out EXCEPT ![c] = Err]
    /\ UNCHANGED <<inflight, result, follows>>

Next ==
    \/ \E c \in Callers : Lead(c) \/ Follow(c) \/ Return(c) \/ Abandon(c)
    \/ \E r \in Results : Run(r)
    \/ Release

Spec == Init /\ [][Next]_vars

=============================================================================
