--------------------------- MODULE ConcurrentUpload ---------------------------
(***************************************************************************)
(* ConcurrentUploadManager (cmd/s3_server/concurrent_upload.go) over an   *)
(* object backend.                                                         *)
(*                                                                         *)
(* Each upload is driven by one client goroutine that makes its calls one *)
(* after another: UploadParts, RetryFailedParts or CompleteConcurrentUpload *)
(* in any order; another goroutine may call AbortConcurrentUpload at any   *)
(* time, which is what the upload's context is for.  A call to UploadParts *)
(* or RetryFailedParts starts Concurrency workers over a buffered channel *)
(* the caller has filled and closed; workers are interchangeable, so the  *)
(* pool is the parts they are uploading.  A part's data is the pair of    *)
(* its upload and number; every part object is Put under the key          *)
(* "<key>.part.<n>", which names the object's key and not the upload.     *)
(***************************************************************************)
EXTENDS Naturals, Sequences, FiniteSets

CONSTANTS
    Uploads,      \* the upload IDs InitiateConcurrentUpload hands out
    KeyOf,        \* KeyOf[u]: the object key of upload u
    NumParts,     \* parts per upload: ceil(totalSize / chunkSize)
    Concurrency,  \* workers per call, after Initiate's clamping to 1..10
    MaxCalls,     \* bound on each driver's calls
    MaxFaults,    \* bound on failed reads and failed backend calls
    Absent        \* no object under a backend key

ASSUME NumParts \in 1..10000 /\ Concurrency \in 1..10

Parts == 1..NumParts
\* The backend key of upload u's object, and of its part n:
\* fmt.Sprintf("%s.part.%d", upload.Key, part.PartNumber)
ObjKey(u) == <<KeyOf[u]>>
PartKey(u, n) == <<KeyOf[u], n>>

BKeys == {ObjKey(u) : u \in Uploads} \cup {PartKey(u, n) : u \in Uploads, n \in Parts}

VARIABLES
    store,       \* the backend: store[k] is the object under k, or Absent
    registered,  \* the IDs in cum.uploads
    initiated,   \* the IDs Initiate has returned
    part,        \* part[u][n]: the Uploaded and Error fields of part n
    usize,       \* UploadedSize, in parts
    cancelled,   \* the uploads whose context is cancelled
    drv,         \* the driver's call in progress and its locals
    ab,          \* the aborting goroutine's progress
    calls,       \* driver calls made so far
    faults

vars == <<store, registered, initiated, part, usize, cancelled, drv, ab, calls, faults>>

Idle == [pc |-> "idle", op |-> "none", queue |-> <<>>, inflight |-> {},
         results |-> {}, idx |-> 1, data |-> <<>>]

Init ==
    /\ store = [k \in BKeys |-> Absent]
    /\ registered = {} /\ initiated = {}
    /\ part = [u \in Uploads |-> [n \in Parts |-> [up |-> FALSE, err |-> FALSE]]]
    /\ usize = [u \in Uploads |-> 0]
    /\ cancelled = {}
    /\ drv = [u \in Uploads |-> Idle]
    /\ ab = [u \in Uploads |-> [pc |-> "idle", idx |-> 1]]
    /\ calls = [u \in Uploads |-> 0]
    /\ faults = 0

\* A call fails: for cause c when c holds, otherwise as one of the bounded
\* faults (a read error, a node error, a lost reply).
Fails(c) ==
    \/ c /\ UNCHANGED faults
    \/ ~c /\ faults < MaxFaults /\ faults' = faults + 1

-----------------------------------------------------------------------------
(* InitiateConcurrentUpload: the parts are laid out, none uploaded, and   *)
(* the upload is registered under a new context.                          *)
Initiate(u) ==
    /\ u \notin initiated
    /\ initiated' = initiated \cup {u}
    /\ registered' = registered \cup {u}
    /\ UNCHANGED <<store, part, usize, cancelled, drv, ab, calls, faults>>

\* getUpload: the lookup in cum.uploads.
Lookup(u) == u \in registered

\* The driver calls a method that finds no upload: "upload not found".
CallUnknown(u) ==
    /\ u \in initiated /\ drv[u].pc = "idle" /\ calls[u] < MaxCalls
    /\ ~Lookup(u)
    /\ calls' = [calls EXCEPT ![u] = @ + 1]
    /\ UNCHANGED <<store, registered, initiated, part, usize, cancelled, drv, ab, faults>>

\* UploadParts: the workers start and the caller sends every part not yet
\* Uploaded into the channel, in order, and closes it.
StartUploadParts(u) ==
    /\ drv[u].pc = "idle" /\ calls[u] < MaxCalls /\ Lookup(u)
    /\ drv' = [drv EXCEPT ![u] = [Idle EXCEPT !.pc = "run", !.op = "parts",
                 !.queue = SelectSeq([i \in Parts |-> i], LAMBDA n : ~part[u][n].up)]]
    /\ calls' = [calls EXCEPT ![u] = @ + 1]
    /\ UNCHANGED <<store, registered, initiated, part, usize, cancelled, ab, faults>>

\* RetryFailedParts: every part not Uploaded or with an Error is reset,
\* and those parts go to a new pool; with none it returns nil at once.
StartRetry(u) ==
    /\ drv[u].pc = "idle" /\ calls[u] < MaxCalls /\ Lookup(u)
    /\ LET failed == {n \in Parts : ~part[u][n].up \/ part[u][n].err}
       IN /\ part' = [part EXCEPT ![u] = [n \in Parts |->
                        IF n \in failed THEN [up |-> FALSE, err |-> FALSE] ELSE @[n]]]
          /\ drv' = IF failed = {} THEN drv
                    ELSE [drv EXCEPT ![u] = [Idle EXCEPT !.pc = "run", !.op = "retry",
                           !.queue = SelectSeq([i \in Parts |-> i], LAMBDA n : n \in failed)]]
    /\ calls' = [calls EXCEPT ![u] = @ + 1]
    /\ UNCHANGED <<store, registered, initiated, usize, cancelled, ab, faults>>

\* uploadWorker takes the next part: a cancelled context fails it with
\* "upload cancelled"; otherwise it reads the part's bytes (ReadAt may
\* fail) and goes on to the Put.
WorkerTake(u) ==
    /\ drv[u].pc = "run" /\ drv[u].queue # <<>>
    /\ Cardinality(drv[u].inflight) < Concurrency
    /\ LET n == Head(drv[u].queue)
           failIt == /\ drv' = [drv EXCEPT ![u].queue = Tail(@), ![u].results = @ \cup {n}]
                     /\ part' = [part EXCEPT ![u][n].err = TRUE]
       IN \/ Fails(u \in cancelled) /\ failIt
          \/ /\ u \notin cancelled
             /\ drv' = [drv EXCEPT ![u].queue = Tail(@), ![u].inflight = @ \cup {n}]
             /\ UNCHANGED <<part, faults>>
    /\ UNCHANGED <<store, registered, initiated, usize, cancelled, ab, calls>>

\* backend.Put of the part object under upload.ctx.  On success the part
\* is marked Uploaded; on an error its Error is set, and the object may
\* still have been written when the request was cut off by the cancelled
\* context or its reply was lost.  Either way the part goes to results.
WorkerPut(u, n) ==
    /\ n \in drv[u].inflight
    /\ drv' = [drv EXCEPT ![u].inflight = @ \ {n}, ![u].results = @ \cup {n}]
    /\ \/ /\ u \notin cancelled
          /\ store' = [store EXCEPT ![PartKey(u, n)] = <<u, n>>]
          /\ part' = [part EXCEPT ![u][n].up = TRUE]
          /\ UNCHANGED faults
       \/ /\ Fails(u \in cancelled)
          /\ \E written \in BOOLEAN :
                store' = IF written THEN [store EXCEPT ![PartKey(u, n)] = <<u, n>>] ELSE store
          /\ part' = [part EXCEPT ![u][n].err = TRUE]
    /\ UNCHANGED <<registered, initiated, usize, cancelled, ab, calls>>

\* The collecting loop receives a part and reads its Error: UploadParts
\* adds the size of a part without one to UploadedSize; RetryFailedParts
\* only counts the failures.
Collect(u, n) ==
    /\ n \in drv[u].results
    /\ drv' = [drv EXCEPT ![u].results = @ \ {n}]
    /\ usize' = IF drv[u].op = "parts" /\ ~part[u][n].err
                THEN [usize EXCEPT ![u] = @ + 1] ELSE usize
    /\ UNCHANGED <<store, registered, initiated, part, cancelled, ab, calls, faults>>

\* wg.Wait() and close(resultsChan) once every worker has drained the
\* closed channel; the range over results ends and the call returns.
CallReturn(u) ==
    /\ drv[u].pc = "run"
    /\ drv[u].queue = <<>> /\ drv[u].inflight = {} /\ drv[u].results = {}
    /\ drv' = [drv EXCEPT ![u] = Idle]
    /\ UNCHANGED <<store, registered, initiated, part, usize, cancelled, ab, calls, faults>>

-----------------------------------------------------------------------------
(* CompleteConcurrentUpload                                                *)

\* Every part must be Uploaded with no Error; the parts are then read in
\* part-number order.
CompleteStart(u) ==
    /\ drv[u].pc = "idle" /\ calls[u] < MaxCalls /\ Lookup(u)
    /\ drv' = IF \A n \in Parts : part[u][n].up /\ ~part[u][n].err
              THEN [drv EXCEPT ![u] = [Idle EXCEPT !.pc = "get", !.op = "complete"]]
              ELSE drv
    /\ calls' = [calls EXCEPT ![u] = @ + 1]
    /\ UNCHANGED <<store, registered, initiated, part, usize, cancelled, ab, faults>>

\* backend.Get of the part object and io.ReadAll: a missing object, a
\* cancelled context or a failed call returns "read part n".
CompleteGet(u) ==
    /\ drv[u].pc = "get"
    /\ LET obj == store[PartKey(u, drv[u].idx)]
       IN \/ /\ obj # Absent /\ u \notin cancelled
             /\ drv' = [drv EXCEPT ![u].data = Append(@, obj), ![u].pc = "del"]
             /\ UNCHANGED faults
          \/ /\ Fails(obj = Absent \/ u \in cancelled)
             /\ drv' = [drv EXCEPT ![u] = Idle]
    /\ UNCHANGED <<store, registered, initiated, part, usize, cancelled, ab, calls>>

\* "Clean up part": backend.Delete of the part object just read, its
\* error ignored (a cancelled context leaves the object).
CompleteDel(u) ==
    /\ drv[u].pc = "del"
    /\ store' = IF u \in cancelled THEN store
                ELSE [store EXCEPT ![PartKey(u, drv[u].idx)] = Absent]
    /\ drv' = [drv EXCEPT ![u].idx = @ + 1,
                          ![u].pc = IF drv[u].idx = NumParts THEN "put" ELSE "get"]
    /\ UNCHANGED <<registered, initiated, part, usize, cancelled, ab, calls, faults>>

\* backend.Put of the concatenation under the object key; on success the
\* upload leaves cum.uploads, on an error Complete returns it.
CompletePut(u) ==
    /\ drv[u].pc = "put"
    /\ \/ /\ u \notin cancelled
          /\ store' = [store EXCEPT ![ObjKey(u)] = drv[u].data]
          /\ registered' = registered \ {u}
          /\ UNCHANGED faults
       \/ /\ Fails(u \in cancelled)
          /\ UNCHANGED <<store, registered>>
    /\ drv' = [drv EXCEPT ![u] = Idle]
    /\ UNCHANGED <<initiated, part, usize, cancelled, ab, calls>>

-----------------------------------------------------------------------------
(* AbortConcurrentUpload, from another goroutine                           *)

\* getUpload, then upload.cancel().
AbortStart(u) ==
    /\ ab[u].pc = "idle" /\ Lookup(u)
    /\ cancelled' = cancelled \cup {u}
    /\ ab' = [ab EXCEPT ![u].pc = "clean"]
    /\ UNCHANGED <<store, registered, initiated, part, usize, drv, calls, faults>>

\* One iteration of the clean-up loop: the part object is deleted, with a
\* background context, when the part reads as Uploaded now.
AbortClean(u) ==
    /\ ab[u].pc = "clean"
    /\ LET n == ab[u].idx
       IN store' = IF part[u][n].up THEN [store EXCEPT ![PartKey(u, n)] = Absent] ELSE store
    /\ ab' = [ab EXCEPT ![u].idx = @ + 1,
                        ![u].pc = IF ab[u].idx = NumParts THEN "remove" ELSE "clean"]
    /\ UNCHANGED <<registered, initiated, part, usize, cancelled, drv, calls, faults>>

\* delete(cum.uploads, uploadID)
AbortRemove(u) ==
    /\ ab[u].pc = "remove"
    /\ registered' = registered \ {u}
    /\ ab' = [ab EXCEPT ![u].pc = "done"]
    /\ UNCHANGED <<store, initiated, part, usize, cancelled, drv, calls, faults>>

Next ==
    \E u \in Uploads :
        \/ Initiate(u) \/ CallUnknown(u)
        \/ StartUploadParts(u) \/ StartRetry(u) \/ CompleteStart(u)
        \/ WorkerTake(u) \/ CallReturn(u)
        \/ \E n \in Parts : WorkerPut(u, n) \/ Collect(u, n)
        \/ CompleteGet(u) \/ CompleteDel(u) \/ CompletePut(u)
        \/ AbortStart(u) \/ AbortClean(u) \/ AbortRemove(u)

Spec == Init /\ [][Next]_vars

-----------------------------------------------------------------------------
(* Properties                                                              *)

TypeOK ==
    /\ registered \subseteq initiated /\ initiated \subseteq Uploads
    /\ cancelled \subseteq initiated
    /\ \A u \in Uploads : usize[u] \in 0..NumParts * MaxCalls
    /\ faults \in 0..MaxFaults

\* The parts of upload u that CompleteConcurrentUpload would read: each
\* is marked Uploaded with no Error.
Recorded(u) == {n \in Parts : part[u][n].up /\ ~part[u][n].err}

\* While an upload is registered and neither its driver nor an abort is
\* in a call, every part it records as uploaded is stored, with its own
\* data, under its part key.  Otherwise the upload can never finish:
\* CompleteConcurrentUpload fails reading the missing part, and
\* RetryFailedParts re-sends only parts not Uploaded or with an Error.
RecordedPartsStored ==
    \A u \in registered :
        (drv[u].pc = "idle" /\ ab[u].pc \in {"idle", "done"}) =>
            \A n \in Recorded(u) : store[PartKey(u, n)] = <<u, n>>

\* GetProgress: UploadedSize, and the parts counted complete (Uploaded)
\* and failed (with an Error).  Every part is one unit of size here.
Progress(u) ==
    [uploaded |-> usize[u],
     complete |-> Cardinality({n \in Parts : part[u][n].up}),
     failed   |-> Cardinality({n \in Parts : part[u][n].err})]

\* Between calls, the progress report's uploaded bytes are the size of
\* the parts it counts complete without an error.
ProgressMatchesParts ==
    \A u \in registered :
        drv[u].pc = "idle" => Progress(u).uploaded = Cardinality(Recorded(u))

\* A Complete that succeeded stored the upload's own parts, all of them,
\* in part-number order.
CompletedObjectWhole ==
    \A u \in initiated \ registered :
        (ab[u].pc = "idle" /\ store[ObjKey(u)] # Absent) =>
            store[ObjKey(u)] = [n \in Parts |-> <<u, n>>]

=============================================================================
