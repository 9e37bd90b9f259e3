------------------------------- MODULE LocalFS -------------------------------
(***************************************************************************)
(* One key of a storage node's LocalFSBackend (miniobject/localfs.go).    *)
(*                                                                         *)
(* The object is two files: the payload at objectPath and the JSON        *)
(* sidecar at metadataPath.  Put writes and fsyncs a private temp file,   *)
(* checks Content-MD5, writes the sidecar with os.WriteFile (truncate,    *)
(* then write, no fsync), renames the temp file over the payload and      *)
(* fsyncs the directory.  Get reads the sidecar, then opens the payload;  *)
(* Head reads the sidecar only; Delete unlinks the payload, then the      *)
(* sidecar.  Concurrent requests (the node's HTTP server runs each in a   *)
(* goroutine) interleave between these file system calls.                 *)
(*                                                                         *)
(* A file's content is the identity of the PUT that wrote it.  Empty is a *)
(* sidecar that was truncated but not (or not durably) rewritten, which   *)
(* json.Unmarshal rejects.  The disk image (dmeta, dpayload) is what a    *)
(* crash leaves: directory operations and unsynced data reach it through  *)
(* fsync or the kernel's writeback.                                       *)
(***************************************************************************)
EXTENDS Integers, FiniteSets

CONSTANTS
    PutReqs,    \* PUT requests; each writes a payload of its own
    Stored,     \* the PUT, among them, that stored the key before the run (or none)
    GetReqs,    \* GET requests
    HeadReqs,   \* HEAD requests
    DelReqs,    \* DELETE requests
    SizeOf,     \* SizeOf[p]: the size in bytes of the body PUT p writes
    RangeHeaders, \* the Range headers GETs send (see RangeHeader below)
    None,       \* the file does not exist
    Empty,      \* the sidecar exists but holds no valid JSON
    MaxFaults   \* bound on crashes plus failed sidecar writes

ASSUME Stored \subseteq PutReqs /\ Cardinality(Stored) <= 1

VARIABLES
    meta,       \* content of the sidecar as the running system sees it
    payload,    \* content of the payload file as the running system sees it
    dmeta,      \* content of the sidecar on disk
    dpayload,   \* content of the payload file on disk
    put,        \* put[p]: program counter and Content-MD5 verdict of PUT p
    get,        \* get[g]: program counter, sidecar read and answer of GET g
    head,       \* head[h]: answer of HEAD h
    del,        \* del[d]: program counter of DELETE d
    faults      \* crashes and failed writes so far

vars == <<meta, payload, dmeta, dpayload, put, get, head, del, faults>>

Meta == PutReqs \cup {None, Empty}
Data == PutReqs \cup {None}

PutPC == {"idle", "metatrunc", "metawrite", "rename", "dirsync", "ok", "BadDigest", "error", "aborted"}
GetPC == {"idle", "open", "200", "206", "404", "416", "500", "aborted"}

(* A Range header: given is FALSE when the request has none; unit says    *)
(* whether it starts with "bytes="; parts are the pieces strings.Split   *)
(* cuts the rest into at "-".  A piece is empty, a decimal number, or     *)
(* text that does not start with a digit ("junk").                        *)
Tok(k, n) == [kind |-> k, n |-> n]
RangeHeader(u, ps) == [given |-> TRUE, unit |-> u, parts |-> ps]
NoRange == [given |-> FALSE, unit |-> FALSE, parts |-> <<>>]

TypeOK ==
    /\ meta \in Meta /\ dmeta \in Meta
    /\ payload \in Data /\ dpayload \in Data
    /\ put \in [PutReqs -> [pc : PutPC, md5ok : BOOLEAN]]
    /\ get \in [GetReqs -> [pc : GetPC, etag : Data, body : Data,
                            rng : RangeHeaders \cup {NoRange}, span : SUBSET Nat]]
    /\ head \in [HeadReqs -> {"idle", "exists", "missing", "error"}]
    /\ del \in [DelReqs -> {"idle", "unlinkmeta", "ok", "aborted"}]
    /\ faults \in 0..MaxFaults

\* The key's object when the run starts: the one an acknowledged PUT stored
\* and fsynced, or none.
Before == IF Stored = {} THEN None ELSE CHOOSE p \in Stored : TRUE

Init ==
    /\ meta = Before /\ payload = Before
    /\ dmeta = Before /\ dpayload = Before
    /\ put = [p \in PutReqs |-> [pc |-> IF p \in Stored THEN "ok" ELSE "idle", md5ok |-> TRUE]]
    /\ get = [g \in GetReqs |-> [pc |-> "idle", etag |-> None, body |-> None,
                                 rng |-> NoRange, span |-> {}]]
    /\ head = [h \in HeadReqs |-> "idle"]
    /\ del = [d \in DelReqs |-> "idle"]
    /\ faults = 0

files == <<meta, payload, dmeta, dpayload>>

-----------------------------------------------------------------------------
(* Put                                                                     *)

\* MkdirAll, CreateTemp, copy with a running MD5, Sync and Close of the
\* temp file, then the Content-MD5 check, which returns BadDigest (the
\* deferred os.Remove drops the temp file).  The temp file is private to
\* the request, so these calls are one step.
PutTemp(p) ==
    /\ put[p].pc = "idle"
    /\ \E ok \in BOOLEAN :
          put' = [put EXCEPT ![p] = [pc |-> IF ok THEN "metatrunc" ELSE "BadDigest",
                                     md5ok |-> ok]]
    /\ UNCHANGED <<files, get, head, del, faults>>

\* os.WriteFile(metaPath, ...) opens the sidecar with O_TRUNC ...
PutMetaTrunc(p) ==
    /\ put[p].pc = "metatrunc"
    /\ meta' = Empty
    /\ put' = [put EXCEPT ![p].pc = "metawrite"]
    /\ UNCHANGED <<payload, dmeta, dpayload, get, head, del, faults>>

\* ... and writes the JSON, or fails part-way (ENOSPC, EIO) and Put returns
\* "write metadata failed" with the sidecar left truncated.
PutMetaWrite(p) ==
    /\ put[p].pc = "metawrite"
    /\ \/ /\ meta' = p
          /\ put' = [put EXCEPT ![p].pc = "rename"]
          /\ UNCHANGED faults
       \/ /\ faults < MaxFaults
          /\ put' = [put EXCEPT ![p].pc = "error"]
          /\ faults' = faults + 1
          /\ UNCHANGED meta
    /\ UNCHANGED <<payload, dmeta, dpayload, get, head, del>>

\* os.Rename(tmpPath, objPath): the fsynced temp file replaces the payload.
PutRename(p) ==
    /\ put[p].pc = "rename"
    /\ payload' = p
    /\ put' = [put EXCEPT ![p].pc = "dirsync"]
    /\ UNCHANGED <<meta, dmeta, dpayload, get, head, del, faults>>

\* Sync of the parent directory makes its entries durable, the rename
\* included.  The sidecar's data was never fsynced; whether the directory
\* fsync carries it to disk depends on the file system.
PutDirSync(p) ==
    /\ put[p].pc = "dirsync"
    /\ dpayload' = payload
    /\ dmeta' \in {dmeta, meta}
    /\ put' = [put EXCEPT ![p].pc = "ok"]
    /\ UNCHANGED <<meta, payload, get, head, del, faults>>

-----------------------------------------------------------------------------
(* Get, Head, Delete                                                       *)

\* Variant that ignores the json.Unmarshal error and answers with
\* whatever the sidecar held.
GetMetaIgnoringJSON(g) ==
    /\ get[g].pc = "idle"
    /\ \E h \in RangeHeaders \cup {NoRange} :
          get' = [get EXCEPT ![g] = [pc |-> IF meta = None THEN "404" ELSE "open",
                                     etag |-> IF meta = None THEN None ELSE meta,
                                     body |-> None, rng |-> h, span |-> {}]]
    /\ UNCHANGED <<files, put, head, del, faults>>

\* os.ReadFile(metaPath): missing is 404, unparsable is 500; the parsed
\* sidecar supplies the ETag and size of the answer.  The request's Range
\* header, if any, is an input.
GetMeta(g) ==
    /\ get[g].pc = "idle"
    /\ \E h \in RangeHeaders \cup {NoRange} :
          get' = [get EXCEPT ![g] =
                    [pc |-> CASE meta = None  -> "404"
                              [] meta = Empty -> "500"
                              [] OTHER        -> "open",
                     etag |-> IF meta \in PutReqs THEN meta ELSE None,
                     body |-> None, rng |-> h, span |-> {}]]
    /\ UNCHANGED <<files, put, head, del, faults>>

\* parseRange's verdict: a span within the object, or "range not satisfiable".
Refused == [ok |-> FALSE, start |-> 0, end |-> 0]

\* Variant whose bound test lets the end run one byte past the object.
SatisfiablePastEnd(start, end, size) ==
    IF start < 0 \/ end > size \/ start > end THEN Refused
    ELSE [ok |-> TRUE, start |-> start, end |-> end]

Satisfiable(start, end, size) ==
    IF start < 0 \/ end >= size \/ start > end THEN Refused
    ELSE [ok |-> TRUE, start |-> start, end |-> end]

\* fmt.Sscanf(part, "%d", &v) with its error ignored: v keeps its zero
\* value when the part does not start with a digit.
Scan(t) == IF t.kind = "num" THEN t.n ELSE 0

AtLeastZero(x) == IF x < 0 THEN 0 ELSE x

\* parseRange(rangeSpec, size): the "bytes=" prefix, exactly two pieces,
\* then "-n" (the last n bytes), "a-" (from a to the end) or "a-b".
ParseRange(h, size) ==
    LET a == h.parts[1]
        b == h.parts[2]
    IN IF ~h.unit \/ DOMAIN h.parts # 1..2 \/ (a.kind = "empty" /\ b.kind = "empty")
       THEN Refused
       ELSE CASE a.kind = "empty" -> Satisfiable(AtLeastZero(size - Scan(b)), size - 1, size)
              [] b.kind = "empty" -> Satisfiable(Scan(a), size - 1, size)
              [] OTHER            -> Satisfiable(Scan(a), Scan(b), size)

\* os.Open(objPath): a missing payload is 404; the handle keeps the file
\* it opened, whatever is renamed over the path afterwards.  With a Range
\* header, parseRange runs against the size the sidecar gave: 416, or 206
\* with a reader limited to [start, end] of the opened file.
GetOpen(g) ==
    /\ get[g].pc = "open"
    /\ LET r == ParseRange(get[g].rng, SizeOf[get[g].etag])
       IN get' = [get EXCEPT ![g].pc = CASE payload = None  -> "404"
                                         [] ~get[g].rng.given -> "200"
                                         [] r.ok             -> "206"
                                         [] OTHER            -> "416",
                             ![g].body = payload,
                             ![g].span = IF r.ok THEN r.start..r.end ELSE {}]
    /\ UNCHANGED <<files, put, head, del, faults>>

Head(h) ==
    /\ head[h] = "idle"
    /\ head' = [head EXCEPT ![h] = CASE meta = None  -> "missing"
                                     [] meta = Empty -> "error"
                                     [] OTHER        -> "exists"]
    /\ UNCHANGED <<files, put, get, del, faults>>

\* os.Remove(objPath), errors ignored ...
DelPayload(d) ==
    /\ del[d] = "idle"
    /\ payload' = None
    /\ del' = [del EXCEPT ![d] = "unlinkmeta"]
    /\ UNCHANGED <<meta, dmeta, dpayload, put, get, head, faults>>

\* ... then os.Remove(metaPath); Delete always returns nil.
DelMeta(d) ==
    /\ del[d] = "unlinkmeta"
    /\ meta' = None
    /\ del' = [del EXCEPT ![d] = "ok"]
    /\ UNCHANGED <<payload, dmeta, dpayload, put, get, head, faults>>

-----------------------------------------------------------------------------
(* Environment                                                             *)

\* The kernel writes dirty data and directory changes back to disk.
Writeback ==
    /\ <<dmeta, dpayload>> # <<meta, payload>>
    /\ dmeta' = meta /\ dpayload' = payload
    /\ UNCHANGED <<meta, payload, put, get, head, del, faults>>

InFlight(pc, rest) == IF pc \in rest THEN pc ELSE "aborted"

\* Power loss or kernel crash, then the node restarts.  A change not yet
\* written back may or may not have reached the disk; a sidecar that was
\* truncated and rewritten since its last writeback may come back empty.
\* Every request in progress is lost.
Crash ==
    /\ faults < MaxFaults
    /\ \E m \in {meta, dmeta} \cup (IF meta # dmeta THEN {Empty} ELSE {}),
          d \in {payload, dpayload} :
          /\ meta' = m /\ dmeta' = m
          /\ payload' = d /\ dpayload' = d
    /\ put' = [p \in PutReqs |-> [put[p] EXCEPT !.pc = InFlight(@, {"idle", "ok", "BadDigest", "error"})]]
    /\ get' = [g \in GetReqs |-> [get[g] EXCEPT !.pc = InFlight(@, {"idle", "200", "404", "500"})]]
    /\ del' = [d \in DelReqs |-> InFlight(del[d], {"idle", "ok"})]
    /\ faults' = faults + 1
    /\ UNCHANGED head

-----------------------------------------------------------------------------
Next ==
    \/ \E p \in PutReqs : PutTemp(p) \/ PutMetaTrunc(p) \/ PutMetaWrite(p)
                          \/ PutRename(p) \/ PutDirSync(p)
    \/ \E g \in GetReqs : GetMeta(g) \/ GetOpen(g)
    \/ \E h \in HeadReqs : Head(h)
    \/ \E d \in DelReqs : DelPayload(d) \/ DelMeta(d)
    \/ Writeback
    \/ Crash

Spec == Init /\ [][Next]_vars

-----------------------------------------------------------------------------
(* Properties                                                              *)

WritesInFlight ==
    \/ \E p \in PutReqs : put[p].pc \in {"metatrunc", "metawrite", "rename", "dirsync"}
    \/ \E d \in DelReqs : del[d] = "unlinkmeta"

\* A GET that answers 200 serves the bytes its ETag and size describe: a
\* reader sees the old object or the new one in full, as the spec's Put
\* contract promises, while Put writes the sidecar before the rename.
WholeObjectRead ==
    \A g \in GetReqs : get[g].pc \in {"200", "206"} => get[g].etag = get[g].body

\* When no PUT or DELETE is in progress, the sidecar and the payload
\* describe the same object, or the key is absent: the object invariant of
\* the spec, after any interleaving of Put's and Delete's file operations,
\* failed sidecar writes and crashes (Put fsyncs the temp file and the
\* directory but never the sidecar).  A failed PUT must leave the object
\* stored before it readable; a sidecar left empty or naming another PUT
\* makes Get and Head answer 500 for it.
ConsistentAtRest ==
    ~WritesInFlight => meta = payload

\* The spec's range grammar (section 6): "bytes=a-b", "bytes=a-" and
\* "bytes=-n", with numbers for a, b and n; anything else is refused.
WellFormed(h) ==
    /\ h.given /\ h.unit /\ DOMAIN h.parts = 1..2
    /\ \A i \in 1..2 : h.parts[i].kind # "junk"
    /\ {h.parts[1].kind, h.parts[2].kind} # {"empty"}

\* The byte positions of a body of the given size that a well-formed
\* header selects: body[a..=b] when b is within the body (out-of-range is
\* 416), the body from a on, or its last n bytes.
SpecBytes(h, size) ==
    LET a == h.parts[1]
        b == h.parts[2]
        body == 0..(size - 1)
    IN CASE a.kind = "empty" -> {i \in body : i >= size - b.n}
         [] b.kind = "empty" -> {i \in body : i >= a.n}
         [] OTHER            -> IF b.n >= size THEN {}
                                ELSE {i \in body : a.n <= i /\ i <= b.n}

\* A ranged GET with a well-formed header answers 206 with exactly the
\* bytes the spec's grammar selects from the object the sidecar
\* describes, and 416 exactly when it selects none: parseRange's three
\* forms, the clamp of a suffix longer than the body, and its bound test
\* against the sidecar's size.
RangeServedPerSpec ==
    \A g \in GetReqs :
        (get[g].pc \in {"206", "416"} /\ WellFormed(get[g].rng)) =>
            LET want == SpecBytes(get[g].rng, SizeOf[get[g].etag])
            IN IF get[g].pc = "206" THEN want # {} /\ get[g].span = want
                                    ELSE want = {}

=============================================================================
