---------------------------- MODULE MC_ECBackend ----------------------------
(* Instantiates ECBackend with two keys and the requests addressing them. *)
EXTENDS ECBackend

CONSTANTS k1, k2, p1, p2, g1, d1

\* Two PUTs of different keys and a GET of the first key.
MCKeyOfTmp == [r \in {p1, p2, g1} |-> IF r = p2 THEN k2 ELSE k1]

\* A DELETE, then a PUT and a GET, all of one key.
MCKeyOfDel == [r \in {p1, g1, d1} |-> k1]

=============================================================================
