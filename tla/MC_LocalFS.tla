------------------------------ MODULE MC_LocalFS ------------------------------
(* Instantiates LocalFS; the request sets are given as model values in    *)
(* each configuration, the body sizes and Range headers here.             *)
EXTENDS LocalFS

\* An empty body and a three-byte body.
MCSizeOf == [p \in PutReqs |-> IF p = CHOOSE q \in PutReqs : TRUE THEN 0 ELSE 3]

\* Range headers over the byte positions around both bodies' ends: every
\* well-formed pair of pieces from {"", 0, 1, 3}, plus a piece that is
\* not a number, a header without "bytes=", and one and three pieces.
MCPieces == {Tok("empty", 0), Tok("num", 0), Tok("num", 1), Tok("num", 3)}
MCRangeHeaders ==
    {RangeHeader(TRUE, <<a, b>>) : a, b \in MCPieces}
    \cup {RangeHeader(TRUE, <<Tok("junk", 0), Tok("num", 1)>>),
          RangeHeader(FALSE, <<Tok("num", 0), Tok("num", 1)>>),
          RangeHeader(TRUE, <<Tok("num", 1)>>),
          RangeHeader(TRUE, <<Tok("num", 0), Tok("num", 1), Tok("num", 3)>>)}

\* Runs that are not about ranges send none.
MCNoRangeHeaders == {}

=============================================================================
