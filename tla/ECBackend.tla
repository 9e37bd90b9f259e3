------------------------------ MODULE ECBackend ------------------------------
(***************************************************************************)
(* The erasure-coded backend of the gateway (part_007 ECBackend), chosen  *)
(* by -storage_policy ec, for a few keys and the K+M nodes it spreads     *)
(* each object over.                                                      *)
(*                                                                         *)
(* Put stages the request body in one scratch file whose name depends on  *)
(* the process only (ec-put-<pid>), reads the file back, splits and       *)
(* encodes it, and writes the manifest to node 0 and shard i to node i,   *)
(* each call in a goroutine of its own; it waits for all of them and      *)
(* fails on any error.  Get reads the manifest, reads every shard in      *)
(* parallel, reconstructs and joins.  Delete deletes the manifest, then   *)
(* starts one goroutine per shard delete under the request's context and  *)
(* returns without waiting for them.                                      *)
(*                                                                         *)
(* A payload is the PUT request that sent it; a shard holds the encoding  *)
(* of one payload.  The scratch file is a path naming an inode; os.Create *)
(* truncates the inode the path names or creates a new one, each Put      *)
(* writes through its own descriptor, and ReadFile and Remove go through  *)
(* the path.  All payloads have one size, so Join never runs short.       *)
(***************************************************************************)
EXTENDS Naturals, FiniteSets

CONSTANTS
    Keys,       \* object keys (one bucket)
    PutReqs,    \* client PUTs; each sends a payload of its own
    GetReqs,    \* client GETs
    DelReqs,    \* client DELETEs
    KeyOf,      \* KeyOf[r]: the key request r addresses
    K,          \* data shards (-ec_data)
    M,          \* parity shards (-ec_parity)
    None,       \* no manifest, shard, payload or inode
    MaxFaults   \* bound on failed node calls and failed body reads

Idx == 0..(K + M - 1)           \* shard i lives on node i; the manifest on node 0
ManifestCall == K + M          \* the manifest upload, told apart from the shard indices
Targets == Idx \cup {ManifestCall}
Inodes == 1..Cardinality(PutReqs)
Empty == "empty"                \* a scratch file with no bytes
Mixed == "mixed"                \* bytes decoded from shards of different payloads
Writes == PutReqs \cup DelReqs
PutsOf(k) == {p \in PutReqs : KeyOf[p] = k}
WritesOf(k) == {w \in Writes : KeyOf[w] = k}

ASSUME K >= 1 /\ M >= 0 /\ \A r \in Writes \cup GetReqs : KeyOf[r] \in Keys

VARIABLES
    manifest,   \* manifest[k]: the PUT whose manifest node 0 holds for k
    shard,      \* shard[k][i]: the payload shard i of k on node i encodes
    path,       \* the inode tmpDir/ec-put-<pid> names, or None
    inodes,     \* inodes created so far
    content,    \* content[n]: the payload inode n holds, or Empty
    put, get, del,
    faults,
    \* history, read only by the properties
    started,    \* the writes that have started
    prior       \* prior[w]: the writes that had returned when w started

vars == <<manifest, shard, path, inodes, content, put, get, del, faults, started, prior>>

-----------------------------------------------------------------------------
TypeOK ==
    /\ manifest \in [Keys -> PutReqs \cup {None}]
    /\ shard \in [Keys -> [Idx -> PutReqs \cup {None}]]
    /\ path \in Inodes \cup {None}
    /\ inodes \in 0..Cardinality(PutReqs)
    /\ content \in [Inodes -> PutReqs \cup {Empty}]
    /\ put \in [PutReqs -> [pc : {"idle", "copy", "read", "fanout", "ok", "err"},
                            fd : Inodes \cup {None}, data : PutReqs \cup {None},
                            todo : SUBSET Targets, failed : BOOLEAN]]
    /\ get \in [GetReqs -> [pc : {"idle", "shards", "done"}, status : {0, 200, 404, 500},
                            todo : SUBSET Idx, got : [Idx -> PutReqs \cup {None}],
                            data : PutReqs \cup {None, Mixed},
                            expect : PutReqs \cup {None}, seen : SUBSET Writes]]
    /\ del \in [DelReqs -> [pc : {"idle", "done"}, todo : SUBSET Idx]]
    /\ faults \in 0..MaxFaults
    /\ started \subseteq Writes
    /\ prior \in [Writes -> SUBSET Writes]

\* NewECBackend: no object stored, no scratch file.
Init ==
    /\ manifest = [k \in Keys |-> None]
    /\ shard = [k \in Keys |-> [i \in Idx |-> None]]
    /\ path = None
    /\ inodes = 0
    /\ content = [n \in Inodes |-> Empty]
    /\ put = [p \in PutReqs |-> [pc |-> "idle", fd |-> None, data |-> None,
                                 todo |-> {}, failed |-> FALSE]]
    /\ get = [g \in GetReqs |-> [pc |-> "idle", status |-> 0, todo |-> {},
                                 got |-> [i \in Idx |-> None], data |-> None,
                                 expect |-> None, seen |-> {}]]
    /\ del = [d \in DelReqs |-> [pc |-> "idle", todo |-> {}]]
    /\ faults = 0
    /\ started = {}
    /\ prior = [w \in Writes |-> {}]

Returned(w) ==
    IF w \in PutReqs THEN put[w].pc \in {"ok", "err"} ELSE del[w].pc = "done"

\* The write w starts: recorded for the properties.
Start(w) ==
    /\ started' = started \cup {w}
    /\ prior' = [prior EXCEPT ![w] = {v \in Writes : Returned(v)}]

-----------------------------------------------------------------------------
(* Put                                                                     *)

\* os.Create(tmpFile): truncates the inode the path names, or creates one;
\* the deferred os.Remove(tmpFile) is armed.
PutCreate(p) ==
    /\ put[p].pc = "idle"
    /\ IF path = None
       THEN /\ inodes' = inodes + 1
            /\ path' = inodes + 1
            /\ content' = [content EXCEPT ![inodes + 1] = Empty]
            /\ put' = [put EXCEPT ![p].pc = "copy", ![p].fd = inodes + 1]
       ELSE /\ content' = [content EXCEPT ![path] = Empty]
            /\ put' = [put EXCEPT ![p].pc = "copy", ![p].fd = path]
            /\ UNCHANGED <<path, inodes>>
    /\ Start(p)
    /\ UNCHANGED <<manifest, shard, get, del, faults>>

\* The deferred os.Remove(tmpFile) at every return after the Create: it
\* unlinks whatever inode the path names now.
RemoveTmp == path' = None

\* io.Copy(f, r) writes the body through p's descriptor; a failed body read
\* returns the error.
PutCopy(p) ==
    /\ put[p].pc = "copy"
    /\ \/ /\ content' = [content EXCEPT ![put[p].fd] = p]
          /\ put' = [put EXCEPT ![p].pc = "read"]
          /\ UNCHANGED <<path, faults>>
       \/ /\ faults < MaxFaults
          /\ faults' = faults + 1
          /\ put' = [put EXCEPT ![p].pc = "err"]
          /\ RemoveTmp
          /\ UNCHANGED content
    /\ UNCHANGED <<manifest, shard, inodes, get, del, started, prior>>

\* os.ReadFile(tmpFile), Split and Encode: the path may be gone (another
\* Put's Remove) or name an empty file (Split fails), else the shards
\* encode whatever payload the file holds now.
PutRead(p) ==
    /\ put[p].pc = "read"
    /\ IF path # None /\ content[path] # Empty
       THEN /\ put' = [put EXCEPT ![p].pc = "fanout", ![p].data = content[path],
                                  ![p].todo = Targets]
            /\ UNCHANGED path
       ELSE /\ put' = [put EXCEPT ![p].pc = "err"]
            /\ RemoveTmp
    /\ UNCHANGED <<manifest, shard, inodes, content, get, del, faults, started, prior>>

\* One upload goroutine: the manifest (p's size and checksum) to node 0, or
\* shard t to node t; a failed call sends its error.
PutCall(p) ==
    /\ put[p].pc = "fanout"
    /\ \E t \in put[p].todo :
        \/ /\ manifest' = IF t = ManifestCall THEN [manifest EXCEPT ![KeyOf[p]] = p] ELSE manifest
           /\ shard' = IF t = ManifestCall THEN shard ELSE [shard EXCEPT ![KeyOf[p]][t] = put[p].data]
           /\ put' = [put EXCEPT ![p].todo = @ \ {t}]
           /\ UNCHANGED faults
        \/ /\ faults < MaxFaults
           /\ faults' = faults + 1
           /\ put' = [put EXCEPT ![p].todo = @ \ {t}, ![p].failed = TRUE]
           /\ UNCHANGED <<manifest, shard>>
    /\ UNCHANGED <<path, inodes, content, get, del, started, prior>>

\* wg.Wait, then the first error if any; the deferred Remove runs.
PutReturn(p) ==
    /\ put[p].pc = "fanout" /\ put[p].todo = {}
    /\ put' = [put EXCEPT ![p].pc = IF put[p].failed THEN "err" ELSE "ok"]
    /\ RemoveTmp
    /\ UNCHANGED <<manifest, shard, inodes, content, get, del, faults, started, prior>>

-----------------------------------------------------------------------------
(* Get                                                                     *)

\* The PUT of k acknowledged after every other write of k had returned,
\* with no write of k started since; None when there is no such PUT.
LastAcked(k) ==
    LET c == {p \in PutsOf(k) :
                /\ put[p].pc = "ok"
                /\ \A w \in WritesOf(k) \ {p} : w \notin started \/ w \in prior[p]}
    IN IF c = {} THEN None ELSE CHOOSE p \in c : TRUE

\* Load the manifest from node 0: none means NoSuchKey (404).
GetStart(g) ==
    /\ get[g].pc = "idle"
    /\ get' = [get EXCEPT ![g].expect = LastAcked(KeyOf[g]),
                           ![g].seen = started \cap WritesOf(KeyOf[g]),
                           ![g].pc = IF manifest[KeyOf[g]] = None THEN "done" ELSE "shards",
                           ![g].status = IF manifest[KeyOf[g]] = None THEN 404 ELSE 0,
                           ![g].todo = IF manifest[KeyOf[g]] = None THEN {} ELSE Idx]
    /\ UNCHANGED <<manifest, shard, path, inodes, content, put, del, faults, started, prior>>

\* One download goroutine reads shard i from node i.
GetShard(g) ==
    /\ get[g].pc = "shards"
    /\ \E i \in get[g].todo :
        get' = [get EXCEPT ![g].todo = @ \ {i}, ![g].got[i] = shard[KeyOf[g]][i]]
    /\ UNCHANGED <<manifest, shard, path, inodes, content, put, del, faults, started, prior>>

\* Reconstruct decodes from the first K shards present in index order
\* (all data shards, when none is missing) and Join trims to the size.
Decoded(got) ==
    LET present == {i \in Idx : got[i] # None}
        used == {i \in present : Cardinality({j \in present : j < i}) < K}
    IN IF \E v \in PutReqs : \A i \in used : got[i] = v
       THEN CHOOSE v \in PutReqs : \A i \in used : got[i] = v
       ELSE Mixed

\* wg.Wait, Reconstruct (fewer than K shards: an error, 500) and Join.
GetJoin(g) ==
    LET got == get[g].got
        ok == Cardinality({i \in Idx : got[i] # None}) >= K
    IN /\ get[g].pc = "shards" /\ get[g].todo = {}
       /\ get' = [get EXCEPT ![g].pc = "done",
                              ![g].status = IF ok THEN 200 ELSE 500,
                              ![g].data = IF ok THEN Decoded(got) ELSE None]
       /\ UNCHANGED <<manifest, shard, path, inodes, content, put, del, faults, started, prior>>

-----------------------------------------------------------------------------
(* Delete                                                                  *)

\* Delete the manifest (its error is ignored), start one goroutine per
\* shard and return nil: handleDelete answers 204 and the request's
\* context is cancelled.
DelStart(d) ==
    /\ del[d].pc = "idle"
    /\ \/ manifest' = [manifest EXCEPT ![KeyOf[d]] = None] /\ UNCHANGED faults
       \/ faults < MaxFaults /\ faults' = faults + 1 /\ UNCHANGED manifest
    /\ del' = [del EXCEPT ![d] = [pc |-> "done", todo |-> Idx]]
    /\ Start(d)
    /\ UNCHANGED <<shard, path, inodes, content, put, get>>

\* A shard-delete goroutine: its call reaches node i, at any later time,
\* or fails because the context was cancelled before it was sent.
DelShard(d) ==
    /\ \E i \in del[d].todo :
        /\ del' = [del EXCEPT ![d].todo = @ \ {i}]
        /\ \/ shard' = [shard EXCEPT ![KeyOf[d]][i] = None]
           \/ UNCHANGED shard
    /\ UNCHANGED <<manifest, path, inodes, content, put, get, faults, started, prior>>

Next ==
    \/ \E p \in PutReqs : PutCreate(p) \/ PutCopy(p) \/ PutRead(p) \/ PutCall(p) \/ PutReturn(p)
    \/ \E g \in GetReqs : GetStart(g) \/ GetShard(g) \/ GetJoin(g)
    \/ \E d \in DelReqs : DelStart(d) \/ DelShard(d)

Spec == Init /\ [][Next]_vars

-----------------------------------------------------------------------------
(* Properties                                                              *)

\* Spec section 4.4 and the EC invariant of section 3: a Put succeeds only
\* when every shard and the manifest were written, and any K shards
\* reconstruct the payload.  So a GET (ECBackend.Get) that answers 200
\* returns the payload of a PUT of its own key, never a mix; and a GET that
\* starts after a PUT of the key was acknowledged, every other write of the
\* key having returned before that PUT and none starting during the GET,
\* answers 200 with that PUT's payload.
ReadsReturnWrittenData ==
    \A g \in GetReqs : get[g].pc = "done" =>
        /\ get[g].status = 200 => get[g].data \in PutsOf(KeyOf[g])
        /\ (get[g].expect # None /\ started \cap WritesOf(KeyOf[g]) = get[g].seen)
              => get[g].status = 200 /\ get[g].data = get[g].expect

=============================================================================
