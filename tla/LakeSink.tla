------------------------------- MODULE LakeSink -------------------------------
(***************************************************************************)
(* The lake sink (collector/sink/lake: lake.go, write.go) over an object   *)
(* store.                                                                  *)
(*                                                                         *)
(* Sink.mu is held only around the in-memory maps; every call on the store *)
(* happens outside it and may fail.  A call of the sink is therefore a     *)
(* sequence of steps of its calling goroutine: one step per critical       *)
(* section and one per store operation.                                    *)
(*                                                                         *)
(* A record is one buffered record: an episode with its steps, or a batch  *)
(* of outcomes.  Sink.outcomes behaves as one more partition, written      *)
(* last, to one file: its rows are taken, restored and aged by the same    *)
(* rules, so it is the partition OutcomePart here.                         *)
(***************************************************************************)
EXTENDS Naturals, Sequences, FiniteSets, FiniteSetsExt, Functions

CONSTANTS
    Callers,         \* goroutines that call the sink
    Recs,            \* records, numbered
    Parts,           \* partition keys, numbered in sort order
    OutcomePart,     \* stands for Sink.outcomes
    PartOf,          \* partitionKey of a record
    BlobOf,          \* the blob a record's payload goes to; 0 when it is inline
    TargetRows,      \* TargetFileBytes (for outcomes: 50000), in rows
    MaxStoreErrors,  \* bound: failing store operations
    MaxCrashes       \* bound: kills of the process

ASSUME RecsAssumption == Recs \subseteq Nat \ {0}
ASSUME PartsAssumption ==
    /\ Parts \subseteq Nat
    /\ \A p \in Parts : p <= OutcomePart
    /\ PartOf \in [Recs -> Parts]
    /\ BlobOf \in [Recs -> Nat]
    /\ \A r \in Recs : PartOf[r] = OutcomePart => BlobOf[r] = 0
ASSUME SinkBoundsAssumption ==
    TargetRows \in Nat /\ MaxStoreErrors \in Nat /\ MaxCrashes \in Nat

VARIABLES
    pending,    \* Sink.pending and Sink.outcomes
    seen,       \* Sink.blobsSeen
    pc,         \* where each caller is in its call
    arg,        \* the record a caller is writing
    ret,        \* what the caller's last call returned: "ok" or "err"
    flush,      \* the flush a caller is in
    nextBatch   \* NewID

VARIABLES
    blobs,      \* blob objects in the store
    blobTable,  \* blobs listed in a file of the blobs table
    files,      \* Parquet files in the store
    manifests,  \* manifests in the store, as the files they list
    errs,       \* store operations that failed so far
    crashes     \* kills so far

(***************************************************************************)
(* History variables.                                                      *)
(***************************************************************************)
VARIABLES
    written,    \* records Write or WriteOutcomes returned nil for
    dropped,    \* records taken by a flush that failed on a file, and not put back
    unlisted,   \* records in a batch whose manifest could not be written
    crashLost   \* records in the sink's memory when the process was killed

sinkMem  == <<pending, seen, flush, nextBatch>>
callVars == <<pc, arg, ret>>
storeVars == <<blobs, blobTable, files, manifests>>
sinkHist == <<written, dropped, unlisted, crashLost>>
sinkVars == <<sinkMem, callVars, storeVars, errs, crashes, sinkHist>>

-----------------------------------------------------------------------------
(***************************************************************************)
(* A partition waiting to be written.  aged: now - firstSeen has reached   *)
(* RollInterval.  A partition without rows is one that is not in the map.  *)
(***************************************************************************)
NoRows == [rows |-> <<>>, aged |-> FALSE]

\* the files a partition is written to, in order: the episodes or outcomes
\* file, then the steps file
FilesOf(p) == IF p = OutcomePart THEN {<<p, 1>>} ELSE {<<p, 1>>, <<p, 2>>}

NoFlush == [batch |-> 0, taken |-> [p \in Parts |-> NoRows], todo |-> {}]

\* fault: only the episodes and outcomes files have to be written
AllPutButSteps(todo) == \A f \in todo : f[2] = 2

\* the file flush writes next: partitions in key order, outcomes last
IsNextFile(f, todo) ==
    /\ f \in todo
    /\ \A g \in todo : f[1] < g[1] \/ (f[1] = g[1] /\ f[2] <= g[2])

\* nothing left to write before the manifest
AllPut(todo) == todo = {}

RowsTaken(fl) == UNION {Range(fl.taken[p].rows) : p \in Parts}

\* fault: the roll interval is ignored
DueBySize(force) ==
    {p \in Parts : /\ pending[p].rows # <<>>
                   /\ force \/ Len(pending[p].rows) >= TargetRows}

\* the partitions flush writes
Due(force) ==
    {p \in Parts : /\ pending[p].rows # <<>>
                   /\ \/ force
                      \/ Len(pending[p].rows) >= TargetRows
                      \/ pending[p].aged}

\* fault: the due partitions are read and stay in the map
NotDueKeepsAll(force) == pending

\* the map without the due partitions
NotDue(force) == [p \in Parts |-> IF p \in Due(force) THEN NoRows ELSE pending[p]]

NewID == nextBatch + 1

\* fault: a partition that fails replaces the rows that arrived meanwhile
RestoreOver(p, part, had) == part

\* restore: rows go back, behind those that arrived meanwhile; outcomes before them
Restore(p, part, had) ==
    IF had.rows = <<>> THEN part
    ELSE [had EXCEPT !.rows = IF p = OutcomePart THEN part.rows \o had.rows
                              ELSE had.rows \o part.rows]

SinkInit ==
    /\ pending = [p \in Parts |-> NoRows]
    /\ seen = {}
    /\ pc = [c \in Callers |-> "idle"]
    /\ arg = [c \in Callers |-> 0]
    /\ ret = [c \in Callers |-> "ok"]
    /\ flush = [c \in Callers |-> NoFlush]
    /\ nextBatch = 1
    /\ blobs = {} /\ blobTable = {} /\ files = {} /\ manifests = {}
    /\ errs = 0 /\ crashes = 0
    /\ written = {} /\ dropped = {} /\ unlisted = {} /\ crashLost = {}

Goto(c, where) == pc' = [pc EXCEPT ![c] = where]

Return(c, value) ==
    /\ Goto(c, "idle")
    /\ arg' = [arg EXCEPT ![c] = 0]
    /\ ret' = [ret EXCEPT ![c] = value]

\* a store operation of c fails
Failing(c) == errs < MaxStoreErrors /\ errs' = errs + 1

-----------------------------------------------------------------------------
(***************************************************************************)
(* Write and WriteOutcomes: externalise the payload, then buffer the row.  *)
(***************************************************************************)
\* putBlob: the cache of blobs known to exist
Write(c, r) ==
    /\ pc[c] = "idle"
    /\ Goto(c, IF BlobOf[r] \in seen \cup {0} THEN "add" ELSE "exists")
    /\ arg' = [arg EXCEPT ![c] = r]
    /\ UNCHANGED <<sinkMem, ret, storeVars, errs, crashes, sinkHist>>

\* fault: the blob is remembered as soon as it is about to be written
BlobExistsEager(c) ==
    /\ pc[c] = "exists"
    /\ seen' = seen \cup {BlobOf[arg[c]]}
    /\ Goto(c, IF BlobOf[arg[c]] \in blobs THEN "add" ELSE "blob")
    /\ UNCHANGED <<pending, flush, nextBatch, arg, ret, storeVars, errs, crashes, sinkHist>>

\* putBlob: Store.Exists
BlobExists(c) ==
    /\ pc[c] = "exists"
    /\ \/ /\ BlobOf[arg[c]] \in blobs
          /\ seen' = seen \cup {BlobOf[arg[c]]}
          /\ Goto(c, "add")
       \/ /\ BlobOf[arg[c]] \notin blobs
          /\ Goto(c, "blob")
          /\ UNCHANGED seen
    /\ UNCHANGED <<pending, flush, nextBatch, arg, ret, storeVars, errs, crashes, sinkHist>>

\* putBlob: Store.Put
PutBlob(c) ==
    /\ pc[c] = "blob"
    /\ blobs' = blobs \cup {BlobOf[arg[c]]}
    /\ seen' = seen \cup {BlobOf[arg[c]]}
    /\ Goto(c, "table")
    /\ UNCHANGED <<pending, flush, nextBatch, arg, ret, blobTable, files, manifests,
                   errs, crashes, sinkHist>>

\* writeBlobTable
PutBlobTable(c) ==
    /\ pc[c] = "table"
    /\ blobTable' = blobTable \cup {BlobOf[arg[c]]}
    /\ Goto(c, "add")
    /\ UNCHANGED <<sinkMem, arg, ret, blobs, files, manifests, errs, crashes, sinkHist>>

\* the critical section of Write and WriteOutcomes
AddRow(c) ==
    /\ pc[c] = "add"
    /\ pending' = [pending EXCEPT ![PartOf[arg[c]]].rows = Append(@, arg[c])]
    /\ written' = written \cup {arg[c]}
    /\ Return(c, "ok")
    /\ UNCHANGED <<seen, flush, nextBatch, storeVars, errs, crashes,
                   dropped, unlisted, crashLost>>

\* a store operation of externalise or writeBlobTable fails: Write returns it
WriteFails(c) ==
    /\ pc[c] \in {"exists", "blob", "table"}
    /\ Failing(c)
    /\ Return(c, "err")
    /\ UNCHANGED <<sinkMem, storeVars, crashes, sinkHist>>

-----------------------------------------------------------------------------
(***************************************************************************)
(* Flush (force) and FlushDue.                                             *)
(***************************************************************************)
\* the first critical section: the due partitions leave the map
Flush(c, force) ==
    /\ pc[c] = "idle"
    /\ \/ /\ Due(force) = {}
          /\ Return(c, "ok")
          /\ UNCHANGED <<pending, flush, nextBatch>>
       \/ /\ Due(force) # {}
          /\ Goto(c, "put")
          /\ flush' = [flush EXCEPT ![c] =
                 [batch |-> nextBatch,
                  taken |-> [p \in Parts |-> IF p \in Due(force) THEN pending[p]
                                             ELSE NoRows],
                  todo  |-> UNION {FilesOf(p) : p \in Due(force)}]]
          /\ pending' = NotDue(force)
          /\ nextBatch' = NewID
          /\ UNCHANGED <<arg, ret>>
    /\ UNCHANGED <<seen, storeVars, errs, crashes, sinkHist>>

\* putParquet of the next file
PutFile(c) ==
    \E f \in flush[c].todo :
        /\ pc[c] = "put"
        /\ IsNextFile(f, flush[c].todo)
        /\ files' = files \cup {[batch |-> flush[c].batch, part |-> f[1], table |-> f[2],
                                 rows |-> Range(flush[c].taken[f[1]].rows)]}
        /\ flush' = [flush EXCEPT ![c].todo = @ \ {f}]
        /\ UNCHANGED <<pending, seen, nextBatch, callVars, blobs, blobTable, manifests,
                       errs, crashes, sinkHist>>

\* putParquet fails: the partition goes back, the others of the batch do not
PutFileFails(c) ==
    \E f \in flush[c].todo :
        /\ pc[c] = "put"
        /\ IsNextFile(f, flush[c].todo)
        /\ Failing(c)
        /\ pending' = [pending EXCEPT ![f[1]] = Restore(f[1], flush[c].taken[f[1]], @)]
        /\ dropped' = dropped \cup
                      UNION {Range(flush[c].taken[p].rows) : p \in Parts \ {f[1]}}
        /\ flush' = [flush EXCEPT ![c] = NoFlush]
        /\ Return(c, "err")
        /\ UNCHANGED <<seen, nextBatch, storeVars, crashes, written,
                       unlisted, crashLost>>

\* the files the batch of c has written so far
Written(c) == {f \in files : f.batch = flush[c].batch}

\* writeManifest, after all the files
PutManifest(c) ==
    /\ pc[c] = "put"
    /\ AllPut(flush[c].todo)
    /\ manifests' = manifests \cup {Written(c)}
    /\ flush' = [flush EXCEPT ![c] = NoFlush]
    /\ Return(c, "ok")
    /\ UNCHANGED <<pending, seen, nextBatch, blobs, blobTable, files, errs, crashes,
                   sinkHist>>

\* writeManifest fails: nothing is put back
PutManifestFails(c) ==
    /\ pc[c] = "put"
    /\ AllPut(flush[c].todo)
    /\ Failing(c)
    /\ unlisted' = unlisted \cup RowsTaken(flush[c])
    /\ flush' = [flush EXCEPT ![c] = NoFlush]
    /\ Return(c, "err")
    /\ UNCHANGED <<pending, seen, nextBatch, storeVars, crashes, written,
                   dropped, crashLost>>

\* RollInterval has passed since a partition's first row
Age(p) ==
    /\ pending[p].rows # <<>>
    /\ ~pending[p].aged
    /\ pending' = [pending EXCEPT ![p].aged = TRUE]
    /\ UNCHANGED <<seen, flush, nextBatch, callVars, storeVars, errs, crashes, sinkHist>>

InMemory ==
    (UNION {Range(pending[p].rows) : p \in Parts}) \cup
    UNION {RowsTaken(flush[c]) : c \in Callers}

\* a new process starts with an empty Sink; what the old one held is gone
NewSink ==
    /\ pending' = [p \in Parts |-> NoRows]
    /\ seen' = {}
    /\ pc' = [c \in Callers |-> "idle"]
    /\ arg' = [c \in Callers |-> 0]
    /\ flush' = [c \in Callers |-> NoFlush]
    /\ crashLost' = crashLost \cup InMemory
    /\ UNCHANGED <<nextBatch, ret, storeVars, errs, written, dropped, unlisted>>

\* the process is killed and started again
SinkCrash ==
    /\ crashes < MaxCrashes
    /\ crashes' = crashes + 1
    /\ NewSink

SinkStep(c) ==
    \/ BlobExists(c) \/ PutBlob(c) \/ PutBlobTable(c) \/ AddRow(c)
    \/ PutFile(c) \/ PutManifest(c)

SinkFailure(c) == WriteFails(c) \/ PutFileFails(c) \/ PutManifestFails(c)

\* records a caller of Write has not handed over yet
Unwritten ==
    Recs \ (written \cup {arg[c] : c \in {d \in Callers : pc[d] \notin {"idle", "put"}}})

SinkNext ==
    \/ \E c \in Callers : SinkStep(c) \/ SinkFailure(c)
    \/ \E c \in Callers, r \in Unwritten : Write(c, r)
    \/ \E c \in Callers, force \in BOOLEAN : Flush(c, force)
    \/ \E p \in Parts : Age(p)
    \/ SinkCrash

SinkSpec == SinkInit /\ [][SinkNext]_sinkVars

-----------------------------------------------------------------------------
Manifested(table) ==
    UNION {f.rows : f \in {g \in UNION manifests : g.table = table}}

\* what a conforming reader sees: rows of files some manifest lists
Visible == Manifested(1)

(***************************************************************************)
(* A batch is visible as a whole or not at all, whatever crashes or fails  *)
(* while it is written: every file a manifest lists is in the store, and   *)
(* no episode is visible without its steps (lake.go: "rather than a        *)
(* half-visible batch").                                                   *)
(***************************************************************************)
NoHalfBatch ==
    /\ UNION manifests \subseteq files
    /\ \A m \in manifests : \A f \in m :
           FilesOf(f.part) = {<<g.part, g.table>> : g \in {h \in m : h.part = f.part}}

(***************************************************************************)
(* A visible row that refers to a blob refers to one that is in the store, *)
(* over failed writes and their retries, restarts that empty the cache of  *)
(* known blobs, and callers that write the same blob at the same time.     *)
(***************************************************************************)
BlobsResolve ==
    \A r \in Visible : BlobOf[r] # 0 => BlobOf[r] \in blobs

RowsOf(r, rows) == {k \in DOMAIN rows : rows[k] = r}

\* the places that hold record r: a row of partition p that waits for a flush,
\* one that the flush of c has taken, a visible file
WaitingAt(r, p) == {<<"pending", <<p, k>>>> : k \in RowsOf(r, pending[p].rows)}
TakenAt(r, c, p) == {<<"taken", <<c, p, k>>>> : k \in RowsOf(r, flush[c].taken[p].rows)}
ShownAt(r) == {<<"visible", f>> : f \in {g \in UNION manifests : g.table = 1 /\ r \in g.rows}}

Places(r) ==
    (UNION {WaitingAt(r, p) : p \in Parts})
    \cup (UNION {UNION {TakenAt(r, c, p) : p \in Parts} : c \in Callers})
    \cup ShownAt(r)

Copies(r) == Cardinality(Places(r))

(***************************************************************************)
(* While the store works and the process lives, concurrent flushes neither *)
(* lose nor duplicate a row: each record written is in exactly one place.  *)
(***************************************************************************)
ExactlyOnceWithoutFailures ==
    errs = 0 /\ crashes = 0 => \A r \in written : Copies(r) = 1

(***************************************************************************)
(* A row the sink took is buffered, being written or visible, unless it    *)
(* was in memory in a kill or in a batch whose flush failed: a partition   *)
(* put back is never lost to rows that arrived while it was being written. *)
(***************************************************************************)
RowsAccounted ==
    written \subseteq InMemory \cup Visible \cup dropped \cup unlisted \cup crashLost

(***************************************************************************)
(* lake.go, flush: rows are put back "so a transient store failure does    *)
(* not lose them".                                                         *)
(***************************************************************************)
FailedFlushKeepsRows == dropped \subseteq InMemory \cup Visible
=============================================================================
