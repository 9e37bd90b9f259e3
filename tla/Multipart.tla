------------------------------ MODULE Multipart ------------------------------
(***************************************************************************)
(* The gateway's MultipartManager (cmd/s3_server/rate_limiter.go) for one *)
(* upload ID, from the moment InitiateUpload has returned it: concurrent  *)
(* UploadPart, CompleteUpload and AbortUpload requests and the stale      *)
(* sweeper.  Each handler is split at the points where another goroutine  *)
(* can observe its effects: the uploads-map lookup, each file system call *)
(* on the part files, and the update of the part map under upload.mu.     *)
(*                                                                         *)
(* The bytes an UploadPart request sends are identified with the request, *)
(* and so is their MD5: the ETag UploadPart records is the request.       *)
(* Trunc is a part file that os.Create truncated and that holds none or   *)
(* only some of the bytes of a request.                                   *)
(***************************************************************************)
EXTENDS Naturals, Sequences, SequencesExt

CONSTANTS
    PartNums,   \* part numbers the client uses within 1..10000
    BadPartNums,\* part numbers the client sends outside 1..10000
    Tries,      \* attempts per part number: UploadPart requests are <<n, t>>
    CompReqs,   \* CompleteMultipartUpload requests
    AbortReqs,  \* AbortMultipartUpload requests
    Bogus,      \* an ETag the client names that no UploadPart returned
    None,       \* no file / no part entry
    Trunc       \* a part file truncated by os.Create and not (fully) rewritten

UpReqs == (PartNums \cup BadPartNums) \X Tries
ETags == (PartNums \X Tries) \cup {Bogus}
Content == (PartNums \X Tries) \cup {Trunc}
MaxList == 3    \* length bound of the part lists validateParts is checked on

VARIABLES
    exists,     \* the upload is in m.uploads
    dir,        \* its scratch directory multipart-<id> exists
    file,       \* file[n]: content of part-<n> in the scratch directory
    parts,      \* parts[n]: the ETag upload.Parts records for part n
    up,         \* up[u]: UploadPart request u: pc, and whether its open file is still linked
    comp,       \* comp[c]: CompleteUpload request c: pc, part list, next index
    abort,      \* abort[a]: AbortUpload request a
    sweep       \* the sweeper: "idle", "cleanup" (go m.cleanup pending), "done"

vars == <<exists, dir, file, parts, up, comp, abort, sweep>>

\* InitiateUpload has put the upload in the map and created its directory;
\* no request can name the upload ID before the call returns it.
Init ==
    /\ exists = TRUE /\ dir = TRUE
    /\ file = [n \in PartNums |-> None]
    /\ parts = [n \in PartNums |-> None]
    /\ up = [u \in UpReqs |-> [pc |-> "idle", linked |-> FALSE]]
    /\ comp = [c \in CompReqs |-> [pc |-> "idle", list |-> <<>>, idx |-> 1]]
    /\ abort = [a \in AbortReqs |-> "idle"]
    /\ sweep = "idle"

-----------------------------------------------------------------------------
(* validateParts                                                           *)

RECURSIVE ValidateFromKeepingPrev(_, _, _, _)
RECURSIVE ValidateFrom(_, _, _, _)

\* Variant whose loop never advances prevNum.
ValidateFromKeepingPrev(stored, list, prevNum, seen) ==
    IF list = <<>> THEN "ok"
    ELSE LET n == Head(list)[1] IN
         CASE n <= prevNum              -> "InvalidPartOrder"
           [] n \in seen                -> "InvalidPart"
           [] stored[n] = None          -> "InvalidPart"
           [] stored[n] # Head(list)[2] -> "InvalidPart"
           [] OTHER -> ValidateFromKeepingPrev(stored, Tail(list), prevNum, seen \cup {n})

\* The loop of validateParts over the remaining list: ordering first, then
\* duplicates, then the stored entry and its ETag.
ValidateFrom(stored, list, prevNum, seen) ==
    IF list = <<>> THEN "ok"
    ELSE LET n == Head(list)[1] IN
         CASE n <= prevNum              -> "InvalidPartOrder"
           [] n \in seen                -> "InvalidPart"
           [] stored[n] = None          -> "InvalidPart"
           [] stored[n] # Head(list)[2] -> "InvalidPart"
           [] OTHER -> ValidateFrom(stored, Tail(list), n, seen \cup {n})

validateParts(stored, list) ==
    IF list = <<>> THEN "InvalidPart" ELSE ValidateFrom(stored, list, 0, {})

-----------------------------------------------------------------------------
(* The gateway handlers' answers                                           *)

\* handleUploadPart: the ETag with 200, 404 for "NoSuchUpload", 500 for any
\* other error of UploadPart.
UploadPartStatus(err) ==
    CASE err = "ok" -> "200" [] err = "NoSuchUpload" -> "404" [] OTHER -> "500"

\* handleCompleteMultipart: 200 with the result, 404 for "NoSuchUpload", 400
\* for "InvalidPart" and "InvalidPartOrder", 500 for any other error.
CompleteStatus(err) ==
    CASE err = "ok"                                -> "200"
      [] err = "NoSuchUpload"                      -> "404"
      [] err \in {"InvalidPart", "InvalidPartOrder"} -> "400"
      [] OTHER                                     -> "500"

-----------------------------------------------------------------------------
(* Scratch directory                                                       *)

\* cleanup: os.RemoveAll(partDir).  Files still open keep their inodes,
\* which are no longer reachable by name.
RemoveAll ==
    /\ dir' = FALSE
    /\ file' = [n \in PartNums |-> None]
    /\ up' = [u \in UpReqs |-> [up[u] EXCEPT !.linked = FALSE]]

-----------------------------------------------------------------------------
(* UploadPart                                                              *)

\* handleUploadPart: a partNumber that does not parse or lies outside
\* 1..10000 is answered 400 InvalidPart before UploadPart is called.
UploadBadNumber(u) ==
    /\ up[u].pc = "idle"
    /\ u[1] \notin 1..10000
    /\ up' = [up EXCEPT ![u].pc = "400"]
    /\ UNCHANGED <<exists, dir, file, parts, comp, abort, sweep>>

\* UploadPart: m.uploads lookup under m.mu.RLock, "NoSuchUpload" when
\* absent.
UploadLookup(u) ==
    /\ up[u].pc = "idle"
    /\ u[1] \in 1..10000
    /\ up' = [up EXCEPT ![u].pc = IF exists THEN "create" ELSE UploadPartStatus("NoSuchUpload")]
    /\ UNCHANGED <<exists, dir, file, parts, comp, abort, sweep>>

UploadCreate(u) ==
    /\ up[u].pc = "create"
    /\ IF dir
       THEN /\ file' = [file EXCEPT ![u[1]] = Trunc]
            /\ up' = [up EXCEPT ![u] = [pc |-> "copy", linked |-> TRUE]]
       ELSE /\ up' = [up EXCEPT ![u].pc = UploadPartStatus("create")]
            /\ UNCHANGED file
    /\ UNCHANGED <<exists, dir, parts, comp, abort, sweep>>

\* io.Copy of the request body into the file and the MD5: the body is
\* written through the open file, or the client's body ends early and
\* UploadPart returns the error (500) with the file left truncated.
UploadCopy(u) ==
    /\ up[u].pc = "copy"
    /\ \/ /\ file' = IF up[u].linked THEN [file EXCEPT ![u[1]] = u] ELSE file
          /\ up' = [up EXCEPT ![u].pc = "record"]
       \/ /\ up' = [up EXCEPT ![u].pc = UploadPartStatus("copy")]
          /\ UNCHANGED file
    /\ UNCHANGED <<exists, dir, parts, comp, abort, sweep>>

\* upload.Parts[partNumber] is set under upload.mu, replacing any earlier
\* entry, and the ETag is returned (200).
UploadRecord(u) ==
    /\ up[u].pc = "record"
    /\ parts' = [parts EXCEPT ![u[1]] = u]
    /\ up' = [up EXCEPT ![u].pc = UploadPartStatus("ok")]
    /\ UNCHANGED <<exists, dir, file, comp, abort, sweep>>

-----------------------------------------------------------------------------
(* CompleteUpload                                                          *)

\* The ETags the client has been given for part n.
Returned(n) == {u \in UpReqs : u[1] = n /\ up[u].pc = "200"}

\* The lists a client sends: every part number in order, each with an ETag
\* UploadPart returned for it, or one it did not.
ClientLists ==
    LET ns == SetToSortSeq(PartNums, <)
    IN  {[i \in 1..Len(ns) |-> <<ns[i], e[ns[i]]>>] :
            e \in {f \in [PartNums -> ETags] : \A n \in PartNums : f[n] \in Returned(n) \cup {Bogus}}}

\* handleCompleteMultipart: a body that is not a CompleteMultipartUpload
\* document is answered 400 MalformedXML before CompleteUpload is called.
CompleteMalformedXML(c) ==
    /\ comp[c].pc = "idle"
    /\ comp' = [comp EXCEPT ![c].pc = "400"]
    /\ UNCHANGED <<exists, dir, file, parts, up, abort, sweep>>

\* CompleteUpload: m.uploads lookup, "NoSuchUpload" when absent.
CompleteLookup(c) ==
    /\ comp[c].pc = "idle"
    /\ IF exists
       THEN \E l \in ClientLists : comp' = [comp EXCEPT ![c].pc = "validate", ![c].list = l]
       ELSE comp' = [comp EXCEPT ![c].pc = CompleteStatus("NoSuchUpload")]
    /\ UNCHANGED <<exists, dir, file, parts, up, abort, sweep>>

\* validateParts under upload.mu.RLock, then os.Create of the private
\* complete-<id> file in tmpDir.
CompleteValidate(c) ==
    /\ comp[c].pc = "validate"
    /\ LET r == validateParts(parts, comp[c].list)
       IN  comp' = [comp EXCEPT ![c].pc = IF r = "ok" THEN "copy" ELSE CompleteStatus(r)]
    /\ UNCHANGED <<exists, dir, file, parts, up, abort, sweep>>

\* One iteration of the concatenation loop: os.Open of the part file (its
\* error is returned, 500), io.Copy into the final file and into a fresh
\* MD5 of the part, which is fed to the composite hash.
CompleteCopy(c) ==
    /\ comp[c].pc = "copy"
    /\ comp[c].idx <= Len(comp[c].list)
    /\ LET n == comp[c].list[comp[c].idx][1]
       IN  comp' = [comp EXCEPT ![c] =
                      IF file[n] = None THEN [@ EXCEPT !.pc = CompleteStatus("open")]
                      ELSE [@ EXCEPT !.idx = @ + 1]]
    /\ UNCHANGED <<exists, dir, file, parts, up, abort, sweep>>

\* After the loop: the composite ETag, then m.backend.Put(nil, ...).  The
\* gateway's backend (ClusterBackend or ECBackend) writes through
\* HTTPBackend.Put, whose http.NewRequestWithContext rejects the nil
\* context, so no replica or shard is written, Put returns an error and
\* the handler answers 500; m.cleanup(uploadID) after it is never reached.
CompletePut(c) ==
    /\ comp[c].pc = "copy"
    /\ comp[c].idx > Len(comp[c].list)
    /\ comp' = [comp EXCEPT ![c].pc = CompleteStatus("put")]
    /\ UNCHANGED <<exists, dir, file, parts, up, abort, sweep>>

-----------------------------------------------------------------------------
(* AbortUpload and SweepStale                                              *)

\* delete(m.uploads, uploadID) under m.mu ...
AbortDelete(a) ==
    /\ abort[a] = "idle"
    /\ exists' = FALSE
    /\ abort' = [abort EXCEPT ![a] = "cleanup"]
    /\ UNCHANGED <<dir, file, parts, up, comp, sweep>>

\* ... then m.cleanup(uploadID); AbortUpload returns nil, and
\* handleAbortMultipart answers 204.  It has no error path.
AbortCleanup(a) ==
    /\ abort[a] = "cleanup"
    /\ RemoveAll
    /\ abort' = [abort EXCEPT ![a] = "204"]
    /\ UNCHANGED <<exists, parts, comp, sweep>>

\* A sweeper tick after the TTL: the entry is deleted under m.mu and
\* cleanup is started in a goroutine ...
SweepExpire ==
    /\ sweep = "idle" /\ exists
    /\ exists' = FALSE
    /\ sweep' = "cleanup"
    /\ UNCHANGED <<dir, file, parts, up, comp, abort>>

\* ... which removes the directory later.
SweepCleanup ==
    /\ sweep = "cleanup"
    /\ RemoveAll
    /\ sweep' = "done"
    /\ UNCHANGED <<exists, parts, comp, abort>>

-----------------------------------------------------------------------------
Next ==
    \/ \E u \in UpReqs : \/ UploadBadNumber(u) \/ UploadLookup(u) \/ UploadCreate(u)
                         \/ UploadCopy(u) \/ UploadRecord(u)
    \/ \E c \in CompReqs : \/ CompleteMalformedXML(c) \/ CompleteLookup(c) \/ CompleteValidate(c)
                           \/ CompleteCopy(c)
                           \/ CompletePut(c)
    \/ \E a \in AbortReqs : AbortDelete(a) \/ AbortCleanup(a)
    \/ SweepExpire \/ SweepCleanup

Spec == Init /\ [][Next]_vars

-----------------------------------------------------------------------------
(* Properties                                                              *)

ValidateAcceptsExactly ==
    \A list \in UNION {[1..k -> PartNums \X ETags] : k \in 0..MaxList} :
        (validateParts(parts, list) = "ok") <=>
            /\ list # <<>>
            /\ \A i, j \in DOMAIN list : i < j => list[i][1] < list[j][1]
            /\ \A i \in DOMAIN list : parts[list[i][1]] = list[i][2]

=============================================================================
