------------------------------ MODULE DiskBuffer ------------------------------
(***************************************************************************)
(* The durable FIFO queue between ingest and delivery                      *)
(* (collector/buffer: buffer.go, io.go, frame.go).                         *)
(*                                                                         *)
(* The queue is a directory of numbered segment files and a state.json     *)
(* that holds the read cursor.  A segment is modelled as the sequence of   *)
(* its bytes, in units of one cell: a record of size n is n consecutive    *)
(* cells, so offsets and sizes mean what they mean in the code and a       *)
(* cursor can point into the middle of a record.                           *)
(*                                                                         *)
(* Every exported method of Buffer holds Buffer.mu for its whole body      *)
(* (PeekAfter takes it twice, and only the second section reads the log),  *)
(* so one method is one action.  The callers are the readers of            *)
(* delivery.go, one in normal operation and two while the service shuts    *)
(* down (service.go: the delivery loop and DrainOnce).  A reader peeks a   *)
(* batch, sends it record by record, acknowledges a record that cannot be  *)
(* sent at once and the others in order after the commit, and may abandon  *)
(* the batch at any point.                                                 *)
(***************************************************************************)
EXTENDS Naturals, Sequences, FiniteSets, FiniteSetsExt, Functions, SequencesExt

CONSTANTS
    Sizes,           \* sizes a framed record can have, in cells
    SegmentBytes,    \* Options.SegmentBytes
    MaxBytes,        \* Options.MaxBytes
    MaxAge,          \* Options.MaxAge, in clock ticks
    Readers,         \* goroutines that drain the queue
    BatchSize,       \* records a reader peeks before it sends them
    MaxRecs,         \* bound: records accepted in one behaviour
    MaxTime,         \* bound: the clock
    MaxStops,        \* bound: how often the process ends
    MaxWriteErrors   \* bound: how often a write to a segment or to state.json fails

ASSUME SizesAssumption == Sizes \subseteq Nat \ {0}
ASSUME BoundsAssumption ==
    /\ SegmentBytes \in Nat \ {0}
    /\ MaxBytes \in Nat
    /\ MaxAge \in Nat
    /\ BatchSize \in Nat \ {0}
    /\ MaxRecs \in Nat
    /\ MaxTime \in Nat
    /\ MaxStops \in Nat
    /\ MaxWriteErrors \in Nat

VARIABLES
    buf,        \* the Buffer struct and the segment files behind it
    saved,      \* the cursor in state.json; <<0, 0>> when there is no file
    up,         \* a process holds the directory open
    clock,      \* Options.Now
    nextRec,    \* records 1 .. nextRec-1 were accepted: Append returned nil
    batch,      \* of each reader, the entries it has peeked and not yet acknowledged
    at,         \* of each reader, the entry it is at; 0 while it peeks a batch
    stops,      \* process ends so far
    errs        \* write errors so far

(***************************************************************************)
(* History variables: what happened to a record.                           *)
(***************************************************************************)
VARIABLES
    acked,      \* records a reader acknowledged
    passed,     \* unacknowledged records the sink took in front of one it could not
    strayed,    \* an acknowledgement moved the cursor into a segment that was gone
    reported,   \* records in segments handed to OnEvict by an eviction
    corrupted,  \* records in bytes handed to OnEvict as torn or corrupt
    powerLost,  \* records cut off by a power failure before they were synced
    flushed,    \* records accepted by a process that then returned from Sync
    firstMine,  \* first record the running process could have accepted
    evicted     \* "none", "clean" or "orphaning": the worst eviction so far

bufVars  == <<buf, saved, up>>
boundVars == <<clock, stops, errs>>
ackVars  == <<acked, passed, strayed>>
histVars == <<ackVars, reported, corrupted, powerLost, flushed, firstMine, evicted>>
readVars == <<batch, at>>
vars == <<bufVars, boundVars, nextRec, readVars, histVars>>

-----------------------------------------------------------------------------
(***************************************************************************)
(* Record framing (frame.go).  Cell k of a record carries the record, its  *)
(* size (the header's length field) and its timestamp.  Cells of record 0  *)
(* are bytes of a frame whose write never completed: they fail the CRC.    *)
(***************************************************************************)
Cell == [rec : Nat, pos : Nat, size : Nat, ts : Nat]

Frame(r, n, t) ==
    [k \in 1..n |-> [rec |-> r, pos |-> k, size |-> n, ts |-> t]]

Torn(n) == Frame(0, n, 0)

\* readFromFile: a record starts at byte offset off and is whole
ReadableAt(cells, off) ==
    /\ off < Len(cells)
    /\ cells[off + 1].rec # 0
    /\ cells[off + 1].pos = 1
    /\ off + cells[off + 1].size <= Len(cells)

\* fault: the scan stops one record early at the end of the file
GoodLenStopsEarly(cells) ==
    Max({n \in 0..Len(cells) :
            /\ \A k \in 1..n : cells[k].rec # 0
            /\ n > 0 => n < Len(cells) /\ cells[n].pos = cells[n].size})

\* truncateTorn: the length of the longest prefix made of whole records
GoodLen(cells) ==
    Max({n \in 0..Len(cells) :
            /\ \A k \in 1..n : cells[k].rec # 0
            /\ n > 0 => cells[n].pos = cells[n].size})

\* the records with a cell at byte offset off or later
RecsFrom(cells, off) ==
    {cells[k].rec : k \in {j \in 1..Len(cells) : j > off}} \ {0}

-----------------------------------------------------------------------------
(***************************************************************************)
(* The Buffer struct.  segs maps a segment id to                           *)
(*   cells, synced   the file, and how much of it fsync has covered        *)
(*   bytes, sealed, open (file # nil), oldest   the in-memory segment      *)
(* Go keeps segments in a slice; ids only grow along it, so segments[0] is *)
(* the least id and the last element the greatest.                         *)
(***************************************************************************)
Segment == [cells : Seq(Cell), synced : Nat, bytes : Nat,
            sealed : BOOLEAN, open : BOOLEAN, oldest : Nat]

Ids(b) == DOMAIN b.segs

\* Buffer.totalBytes, which the code maintains incrementally
TotalBytes(b) == MapThenSumSet(LAMBDA i : b.segs[i].bytes, Ids(b))

Without(b, gone) == [b EXCEPT !.segs = Restrict(b.segs, Ids(b) \ gone)]

\* the assignments to cursorSeg and cursorOff, which always come together
SetCursor(b, seg, off) ==
    [segs |-> b.segs, active |-> b.active, cursorSeg |-> seg, cursorOff |-> off]

\* fault: the segment under the cursor is reclaimed too
ReclaimUnderCursor(b) ==
    Without(b, {i \in Ids(b) : i <= b.cursorSeg /\ b.segs[i].sealed})

\* reclaimLocked: delete sealed segments entirely behind the read cursor
Reclaim(b) ==
    Without(b, {i \in Ids(b) : i < b.cursorSeg /\ b.segs[i].sealed})

\* the first sealed segment, which evictOldestLocked removes; {} when none is
OldestSealed(b) ==
    LET sealed == {i \in Ids(b) : b.segs[i].sealed}
    IN  {i \in sealed : \A j \in sealed : i <= j}

\* evictOldestLocked
EvictOldest(b) ==
    LET gone == OldestSealed(b)
        rest == Without(b, gone)
    IN  IF (\E i \in gone : b.cursorSeg <= i) /\ Ids(rest) # {}
        THEN SetCursor(rest, Min(Ids(rest)), 0)
        ELSE rest

\* the segments EvictExpired removes at time now
Expired(b, now) ==
    {i \in Ids(b) : /\ b.segs[i].sealed
                    /\ b.segs[i].oldest # 0
                    /\ b.segs[i].oldest + MaxAge < now}

\* EvictExpired's loop: each removed segment at or after the cursor pushes it on
DropExpired(b, now) ==
    LET gone == Expired(b, now)
        rest == Without(b, gone)
    IN  IF \E i \in gone : b.cursorSeg <= i
        THEN SetCursor(rest, Max(gone) + 1, 0)
        ELSE rest

\* ensureActiveLocked: a fresh segment unless the active one can be appended to
EnsureActive(b) ==
    IF b.active # 0 /\ b.segs[b.active].open /\ ~b.segs[b.active].sealed
    THEN b
    ELSE LET id == IF Ids(b) = {} THEN 1 ELSE Max(Ids(b)) + 1
             seg == [cells |-> <<>>, synced |-> 0, bytes |-> 0,
                     sealed |-> FALSE, open |-> TRUE, oldest |-> 0]
         IN  [b EXCEPT !.segs = [i \in Ids(b) \cup {id} |->
                                    IF i = id THEN seg ELSE b.segs[i]],
                       !.active = id]

\* b with its active segment replaced
UpdateActive(b, seg) == [b EXCEPT !.segs = [@ EXCEPT ![b.active] = seg]]

\* the successful file write at the end of Append, and the counters after it
WriteFrame(b, r, n, t) ==
    LET seg == b.segs[b.active] IN
    UpdateActive(b, [seg EXCEPT !.cells = seg.cells \o Frame(r, n, t),
                                !.bytes = seg.bytes + n,
                                !.oldest = IF seg.oldest = 0 THEN t ELSE seg.oldest])

\* a write that fails after k bytes: the file has grown, the counters have not
WriteTorn(b, k) ==
    LET seg == b.segs[b.active] IN
    UpdateActive(b, [seg EXCEPT !.cells = seg.cells \o Torn(k)])

\* fault: the sealed segment is closed without an fsync
SealActiveUnsynced(b) ==
    LET seg == b.segs[b.active] IN
    [UpdateActive(b, [seg EXCEPT !.sealed = TRUE, !.open = FALSE]) EXCEPT !.active = 0]

\* fault: the sealed segment stays the active one
SealActiveKept(b) ==
    LET seg == b.segs[b.active] IN
    UpdateActive(b, [seg EXCEPT !.synced = Len(seg.cells), !.sealed = TRUE, !.open = FALSE])

\* sealActiveLocked
SealActive(b) ==
    LET seg == b.segs[b.active] IN
    [UpdateActive(b, [seg EXCEPT !.synced = Len(seg.cells),
                                 !.sealed = TRUE,
                                 !.open = FALSE])
        EXCEPT !.active = 0]

SealIfFull(b) ==
    IF b.segs[b.active].bytes >= SegmentBytes THEN SealActive(b) ELSE b

\* fault: the early return of syncLocked tests sealed instead of file
SyncActiveSealedOnly(b) ==
    LET seg == b.segs[b.active] IN
    IF b.active # 0 /\ seg.sealed
    THEN UpdateActive(b, [seg EXCEPT !.synced = Len(seg.cells)])
    ELSE b

\* syncLocked
SyncActive(b) ==
    LET seg == b.segs[b.active] IN
    IF b.active # 0 /\ seg.open
    THEN UpdateActive(b, [seg EXCEPT !.synced = Len(seg.cells)])
    ELSE b

\* recover: one segment read back from its file
Recovered(seg) ==
    LET n == GoodLen(seg.cells) IN
    [cells  |-> SubSeq(seg.cells, 1, n),
     synced |-> IF n < Len(seg.cells) THEN n ELSE seg.synced,
     bytes  |-> n,
     sealed |-> TRUE,
     open   |-> FALSE,
     oldest |-> IF n > 0 THEN seg.cells[1].ts ELSE 0]

\* recover: only the last segment is left unsealed, unless it is full
Recover(b, cur) ==
    LET segs == [i \in Ids(b) |-> Recovered(b.segs[i])]
        open == {i \in Ids(b) : /\ \A j \in Ids(b) : j <= i
                                /\ segs[i].bytes < SegmentBytes}
    IN  [segs      |-> [i \in Ids(b) |-> [segs[i] EXCEPT !.sealed = i \notin open]],
         active    |-> IF open = {} THEN 0 ELSE Max(open),
         cursorSeg |-> cur[1],
         cursorOff |-> cur[2]]

\* what is left of the Buffer when its process is gone: the files
OnDisk(b) ==
    [segs      |-> [i \in Ids(b) |->
                       [b.segs[i] EXCEPT !.bytes = 0, !.sealed = FALSE,
                                         !.open = FALSE, !.oldest = 0]],
     active    |-> 0,
     cursorSeg |-> 0,
     cursorOff |-> 0]

Closed(b) == SyncActive(b)

\* the records in the segments of b that are no longer segments of c
DroppedRecs(b, c) ==
    UNION {RecsFrom(b.segs[i].cells, 0) : i \in Ids(b) \ Ids(c)}

-----------------------------------------------------------------------------
(***************************************************************************)
(* Reading (PeekAfter, readFrom).  The search starts at a position,        *)
(* resumes at the oldest segment when the position is before it, and walks *)
(* over exhausted segments and over segments that are corrupt where it     *)
(* enters them.                                                            *)
(***************************************************************************)
\* fault: a position before the oldest segment is not moved up to it
WalkNoResume(b, pos) == {i \in Ids(b) : i >= pos[1] /\ pos[1] \in Ids(b)}

Walk(b, pos) ==
    {i \in Ids(b) : /\ i >= pos[1]
                    /\ pos[1] \in Ids(b) \/ \A j \in Ids(b) : pos[1] < j}

\* where the walk from pos enters segment i
EnterAt(pos, i) == IF i = pos[1] THEN pos[2] ELSE 0

\* the segments on the walk that have a record where it enters them
Yielding(b, pos) ==
    {i \in Walk(b, pos) : /\ EnterAt(pos, i) < b.segs[i].bytes
                          /\ ReadableAt(b.segs[i].cells, EnterAt(pos, i))}

EntryAt(b, pos, i) ==
    LET off == EnterAt(pos, i)
        c   == b.segs[i].cells[off + 1]
    IN  [rec |-> c.rec, seg |-> i, end |-> off + c.size]

\* readFrom's answer: the empty set, or the one entry it returns
Found(b, pos) ==
    {EntryAt(b, pos, i) :
        i \in {j \in Yielding(b, pos) : \A k \in Yielding(b, pos) : j <= k}}

\* records in the bytes the walk reports to OnEvict as corrupt on its way
SkippedCorrupt(b, pos) ==
    UNION {RecsFrom(b.segs[i].cells, EnterAt(pos, i)) :
        i \in {j \in Walk(b, pos) :
                  /\ EnterAt(pos, j) < b.segs[j].bytes
                  /\ \A k \in Yielding(b, pos) : j < k}}

\* fault: every peek starts at the cursor
ReadPosAtCursor(d) == <<buf.cursorSeg, buf.cursorOff>>

\* where the next record of reader d's batch is looked for
ReadPos(d) ==
    IF batch[d] = <<>> THEN <<buf.cursorSeg, buf.cursorOff>>
    ELSE <<Last(batch[d]).seg, Last(batch[d]).end>>

-----------------------------------------------------------------------------
(***************************************************************************)
(* An eviction from b to c orphans the log when it removes the newest      *)
(* segment, whose id ensureActiveLocked then gives out again while cursors *)
(* and peeked entries still name it, or when it moves the cursor over a    *)
(* segment that it keeps.                                                  *)
(***************************************************************************)
Orphans(b, c) ==
    \/ \E i \in Ids(b) \ Ids(c) : \A j \in Ids(b) : j <= i
    \/ \E i \in Ids(c) : b.cursorSeg <= i /\ i < c.cursorSeg

Init ==
    /\ buf = [segs |-> <<>>, active |-> 0, cursorSeg |-> 0, cursorOff |-> 0]
    /\ saved = <<0, 0>>
    /\ up = TRUE
    /\ clock = 1
    /\ nextRec = 1
    /\ batch = [d \in Readers |-> <<>>]
    /\ at = [d \in Readers |-> 0]
    /\ stops = 0
    /\ errs = 0
    /\ acked = {} /\ passed = {} /\ strayed = FALSE
    /\ reported = {} /\ corrupted = {} /\ powerLost = {} /\ flushed = {}
    /\ firstMine = 1
    /\ evicted = "none"

(***************************************************************************)
(* Append.  Room is made by reclaiming, then by evicting one segment; what *)
(* was reclaimed or evicted stays so when there is still no room.          *)
(***************************************************************************)
\* fault: the record about to be written is not counted
FullBefore(b, n) == TotalBytes(b) > MaxBytes

Full(b, n) == TotalBytes(b) + n > MaxBytes

AfterReclaim(n) == IF Full(buf, n) THEN Reclaim(buf) ELSE buf

AfterEvict(n) ==
    IF Full(AfterReclaim(n), n) THEN EvictOldest(AfterReclaim(n))
                                ELSE AfterReclaim(n)

ReportEviction(b, c) ==
    /\ reported' = reported \cup DroppedRecs(b, c)
    /\ evicted' = IF Orphans(b, c) THEN "orphaning"
                  ELSE IF Ids(b) # Ids(c) /\ evicted = "none" THEN "clean"
                  ELSE evicted

AppendOk(n) ==
    LET ready == EnsureActive(AfterEvict(n)) IN
    /\ up /\ nextRec <= MaxRecs
    /\ ~Full(AfterEvict(n), n)
    /\ buf' = SealIfFull(WriteFrame(ready, nextRec, n, clock))
    /\ nextRec' = nextRec + 1
    /\ ReportEviction(AfterReclaim(n), AfterEvict(n))
    /\ UNCHANGED <<saved, up, boundVars, readVars, ackVars, corrupted,
                   powerLost, flushed, firstMine>>

AppendFull(n) ==
    /\ up /\ nextRec <= MaxRecs
    /\ Full(AfterEvict(n), n)
    /\ buf' = AfterEvict(n)
    /\ ReportEviction(AfterReclaim(n), AfterEvict(n))
    /\ UNCHANGED <<saved, up, boundVars, nextRec, readVars, ackVars, corrupted,
                   powerLost, flushed, firstMine>>

AppendFails(n, k) ==
    /\ up /\ nextRec <= MaxRecs /\ errs < MaxWriteErrors
    /\ ~Full(AfterEvict(n), n)
    /\ buf' = WriteTorn(EnsureActive(AfterEvict(n)), k)
    /\ errs' = errs + 1
    /\ ReportEviction(AfterReclaim(n), AfterEvict(n))
    /\ UNCHANGED <<saved, up, clock, stops, nextRec, readVars, ackVars, corrupted,
                   powerLost, flushed, firstMine>>

Sync ==
    /\ up
    /\ buf' = SyncActive(buf)
    /\ flushed' = flushed \cup (firstMine .. nextRec - 1)
    /\ UNCHANGED <<saved, up, boundVars, nextRec, readVars, ackVars, reported,
                   corrupted, powerLost, firstMine, evicted>>

EvictExpired ==
    /\ up
    /\ Expired(buf, clock) # {}
    /\ buf' = DropExpired(buf, clock)
    /\ ReportEviction(buf, DropExpired(buf, clock))
    /\ UNCHANGED <<saved, up, boundVars, nextRec, readVars, ackVars, corrupted,
                   powerLost, flushed, firstMine>>

PeekAfter(d) ==
    /\ up /\ at[d] = 0 /\ Len(batch[d]) < BatchSize
    /\ corrupted' = corrupted \cup SkippedCorrupt(buf, ReadPos(d))
    /\ \/ \E e \in Found(buf, ReadPos(d)) : batch' = [batch EXCEPT ![d] = Append(@, e)]
       \/ /\ Found(buf, ReadPos(d)) = {} /\ SkippedCorrupt(buf, ReadPos(d)) # {}
          /\ UNCHANGED batch
    /\ UNCHANGED <<bufVars, boundVars, nextRec, at, ackVars, reported, powerLost,
                   flushed, firstMine, evicted>>

(***************************************************************************)
(* Ack.  The cursor goes to the end of the entry, wherever it was, and     *)
(* what is behind it is reclaimed once state.json is saved.                *)
(***************************************************************************)
Acknowledges(e, front) ==
    /\ acked' = acked \cup {e.rec}
    /\ passed' = (passed \cup front) \ acked'
    /\ strayed' = (strayed \/ e.seg \notin Ids(buf))

AckEntry(e, front) ==
    /\ buf' = Reclaim(SetCursor(buf, e.seg, e.end))
    /\ saved' = <<e.seg, e.end>>
    /\ Acknowledges(e, front)
    /\ UNCHANGED <<up, boundVars, nextRec, reported, corrupted, powerLost, flushed,
                   firstMine, evicted>>

\* the records of reader d's batch in front of entry k
InFrontOf(d, k) == {batch[d][j].rec : j \in 1 .. k - 1}

\* sendOne: entry k cannot be sent, and is acknowledged in front of those that were
DeadLetter(d, k) ==
    /\ up /\ at[d] <= k /\ k \in 1 .. Len(batch[d])
    /\ AckEntry(batch[d][k], InFrontOf(d, k))
    /\ batch' = [batch EXCEPT ![d] = RemoveAt(@, k)]
    /\ at' = [at EXCEPT ![d] = IF Len(batch[d]) = 1 THEN 0 ELSE k]

\* deliverBatch: the batch was sent and committed, and is acknowledged in order
Ack(d) ==
    /\ up /\ batch[d] # <<>>
    /\ AckEntry(Head(batch[d]), {})
    /\ batch' = [batch EXCEPT ![d] = Tail(@)]
    /\ at' = [at EXCEPT ![d] = IF Len(batch[d]) = 1 THEN 0 ELSE Len(batch[d])]

\* Ack when state.json cannot be saved: the cursor has moved all the same,
\* nothing is reclaimed, and the reader drops the rest of its batch
AckFails(d, k) ==
    /\ up /\ errs < MaxWriteErrors
    /\ k \in 1 .. Len(batch[d])
    /\ k = 1 \/ at[d] <= k
    /\ buf' = SetCursor(buf, batch[d][k].seg, batch[d][k].end)
    /\ errs' = errs + 1
    /\ Acknowledges(batch[d][k], InFrontOf(d, k))
    /\ batch' = [batch EXCEPT ![d] = <<>>]
    /\ at' = [at EXCEPT ![d] = 0]
    /\ UNCHANGED <<saved, up, clock, stops, nextRec, reported, corrupted, powerLost,
                   flushed, firstMine, evicted>>

\* the reader gives a batch up: the sink is unreachable
Abandon(d) ==
    /\ up /\ batch[d] # <<>>
    /\ batch' = [batch EXCEPT ![d] = <<>>]
    /\ at' = [at EXCEPT ![d] = 0]
    /\ UNCHANGED <<bufVars, boundVars, nextRec, histVars>>

\* the batches go with the process
DropBatches ==
    /\ batch' = [d \in Readers |-> <<>>]
    /\ at' = [d \in Readers |-> 0]

Close ==
    /\ up /\ stops < MaxStops
    /\ up' = FALSE
    /\ stops' = stops + 1
    /\ buf' = OnDisk(Closed(buf))
    /\ saved' = <<buf.cursorSeg, buf.cursorOff>>
    /\ DropBatches
    /\ UNCHANGED <<clock, errs, nextRec, histVars>>

(***************************************************************************)
(* The process is killed.  The files keep every byte written; a kill in    *)
(* the middle of Append leaves k bytes of a frame nobody was told about.   *)
(***************************************************************************)
Kill ==
    /\ up /\ stops < MaxStops
    /\ up' = FALSE
    /\ stops' = stops + 1
    /\ buf' = OnDisk(buf)
    /\ DropBatches
    /\ UNCHANGED <<saved, clock, errs, nextRec, histVars>>

KillInAppend(n, k) ==
    /\ up /\ stops < MaxStops /\ nextRec <= MaxRecs
    /\ ~Full(AfterEvict(n), n)
    /\ up' = FALSE
    /\ stops' = stops + 1
    /\ buf' = OnDisk(WriteTorn(EnsureActive(AfterEvict(n)), k))
    /\ ReportEviction(AfterReclaim(n), AfterEvict(n))
    /\ DropBatches
    /\ UNCHANGED <<saved, clock, errs, nextRec, ackVars, corrupted,
                   powerLost, flushed, firstMine>>

(***************************************************************************)
(* The machine fails.  Of each file, any part that fsync has not covered   *)
(* may be gone; state.json is synced before the rename.                    *)
(***************************************************************************)
KeptLen(seg, k) == IF k < seg.synced THEN seg.synced
                   ELSE IF k < Len(seg.cells) THEN k ELSE Len(seg.cells)

PowerCut(b, k) ==
    [OnDisk(b) EXCEPT !.segs = [i \in Ids(b) |->
        [@[i] EXCEPT !.cells = SubSeq(b.segs[i].cells, 1, KeptLen(b.segs[i], k))]]]

PowerFail(k) ==
    /\ up /\ stops < MaxStops
    /\ up' = FALSE
    /\ stops' = stops + 1
    /\ buf' = PowerCut(buf, k)
    /\ powerLost' = powerLost \cup
                    UNION {RecsFrom(buf.segs[i].cells, KeptLen(buf.segs[i], k)) :
                              i \in Ids(buf)}
    /\ DropBatches
    /\ UNCHANGED <<saved, clock, errs, nextRec, ackVars, reported, corrupted, flushed,
                   firstMine, evicted>>

\* Open on a directory a previous process left; the torn tail is reported
Open ==
    /\ ~up
    /\ up' = TRUE
    /\ buf' = Recover(buf, saved)
    /\ corrupted' = corrupted \cup
                   UNION {RecsFrom(buf.segs[i].cells, GoodLen(buf.segs[i].cells)) :
                             i \in Ids(buf)}
    /\ firstMine' = nextRec
    /\ UNCHANGED <<saved, boundVars, nextRec, readVars, ackVars, reported, powerLost,
                   flushed, evicted>>

Tick ==
    /\ clock < MaxTime
    /\ clock' = clock + 1
    /\ UNCHANGED <<bufVars, stops, errs, nextRec, readVars, histVars>>

Next ==
    \/ \E n \in Sizes : AppendOk(n) \/ AppendFull(n)
    \/ \E n \in Sizes : \E k \in 0..(n - 1) : AppendFails(n, k) \/ KillInAppend(n, k)
    \/ Sync \/ EvictExpired
    \/ \E d \in Readers : PeekAfter(d) \/ Ack(d) \/ Abandon(d)
    \/ \E d \in Readers : \E k \in 1..BatchSize : DeadLetter(d, k) \/ AckFails(d, k)
    \/ Close \/ Kill \/ Open
    \/ \E k \in 0..MaxBytes : PowerFail(k)
    \/ Tick

Spec == Init /\ [][Next]_vars

-----------------------------------------------------------------------------
Entry == [rec : Nat, seg : Nat, end : Nat]

\* the Buffer struct; the active segment is one that was never sealed
IsBuffer(b) ==
    /\ b = [segs |-> b.segs, active |-> b.active,
            cursorSeg |-> b.cursorSeg, cursorOff |-> b.cursorOff]
    /\ b.segs \in [Ids(b) -> Segment]
    /\ Ids(b) \subseteq Nat \ {0}
    /\ b.active = 0 \/ (b.active \in Ids(b) /\ ~b.segs[b.active].sealed)
    /\ b.cursorSeg \in Nat
    /\ b.cursorOff \in Nat

(***************************************************************************)
(* The types of the Buffer struct, of state.json and of the readers; no    *)
(* more segment ids are in use than appends have begun.                    *)
(***************************************************************************)
TypeOK ==
    /\ IsBuffer(buf)
    /\ \A i \in Ids(buf) : i < nextRec + errs + stops
    /\ saved \in Nat \X Nat
    /\ up \in BOOLEAN
    /\ clock \in Nat /\ stops \in Nat /\ errs \in Nat
    /\ nextRec \in Nat \ {0} /\ firstMine \in Nat \ {0}
    /\ batch \in [Readers -> Seq(Entry)] /\ at \in [Readers -> Nat]
    /\ acked \subseteq Nat /\ passed \subseteq Nat /\ strayed \in BOOLEAN
    /\ reported \subseteq Nat /\ corrupted \subseteq Nat
    /\ powerLost \subseteq Nat /\ flushed \subseteq Nat
    /\ evicted \in {"none", "clean", "orphaning"}

Accepted == 1 .. nextRec - 1

Cursor == IF up THEN <<buf.cursorSeg, buf.cursorOff>> ELSE saved

\* record r is in a file, at or after the cursor
Unread(r) ==
    \E i \in Ids(buf) : \E k \in 1..Len(buf.segs[i].cells) :
        /\ buf.segs[i].cells[k].rec = r
        /\ buf.segs[i].cells[k].pos = 1
        /\ i > Cursor[1] \/ (i = Cursor[1] /\ k > Cursor[2])

(***************************************************************************)
(* A record Append accepted is acknowledged, handed to the sink in front   *)
(* of a dead-lettered record, still queued, in bytes that OnEvict was told *)
(* of, or was never synced before the machine failed (buffer.go: "so the   *)
(* loss is observable rather than silent").                                *)
(***************************************************************************)
NoSilentLoss ==
    \A r \in Accepted :
        r \in acked \cup passed \cup reported \cup corrupted \cup powerLost \/ Unread(r)

(***************************************************************************)
(* The only steps after which a record can be lost silently are evictions  *)
(* that empty the log or step over a segment they keep: appends, crashes,  *)
(* torn and failed writes, recovery, acknowledgements in any order by any  *)
(* number of readers of batches read before an eviction, and every other   *)
(* eviction keep NoSilentLoss.  A record is behind the cursor without an   *)
(* acknowledgement of its own only when the sink took it in front of a     *)
(* dead-lettered record of its batch.                                      *)
(***************************************************************************)
NoLossUnlessOrphaned == evicted # "orphaning" => NoSilentLoss

(***************************************************************************)
(* Once Sync has returned, a power failure takes none of the records the   *)
(* process had accepted by then, whichever segment they are in: sealing    *)
(* syncs a segment before Sync stops covering it.                          *)
(***************************************************************************)
SyncedSurvivesPowerLoss == flushed \cap powerLost = {}

\* the records in the part of a file that fsync has not covered
UnsyncedRecs(seg) == RecsFrom(seg.cells, seg.synced)

\* segment i of b holds accepted records; none that must survive is unsynced,
\* and unless it is being appended to, none of the running process is
SegmentDurable(b, i, r, must, mine) ==
    /\ b.segs[i].synced <= Len(b.segs[i].cells)
    /\ RecsFrom(b.segs[i].cells, 0) \subseteq 1 .. r - 1
    /\ UnsyncedRecs(b.segs[i]) \cap must = {}
    /\ \/ i = b.active /\ b.segs[i].open
       \/ UnsyncedRecs(b.segs[i]) \subseteq 1 .. mine - 1

Durable(b, r, must, mine) ==
    \A i \in Ids(b) : SegmentDurable(b, i, r, must, mine)

(***************************************************************************)
(* The inductive form of SyncedSurvivesPowerLoss: it also holds of the     *)
(* records that only a later power failure could take.  While the process  *)
(* is down nothing is being appended to, and all its records count as old. *)
(***************************************************************************)
DurabilityInv ==
    /\ Durable(buf, nextRec, flushed, IF up THEN firstMine ELSE nextRec)
    /\ firstMine <= nextRec
    /\ flushed \subseteq Accepted
    /\ powerLost \subseteq 1 .. (IF up THEN firstMine ELSE nextRec) - 1
    /\ SyncedSurvivesPowerLoss

(***************************************************************************)
(* The byte bound of F-8.5: the segments a running process accounts for    *)
(* never exceed MaxBytes, across evictions, restarts and recovery.         *)
(***************************************************************************)
DiskBound == TotalBytes(buf) <= MaxBytes

(***************************************************************************)
(* FIFO: a batch lists its records in the order they were accepted, across *)
(* segments, evictions, restarts and the acknowledgements of another       *)
(* reader while it is being read.                                          *)
(***************************************************************************)
BatchInOrder ==
    \A d \in Readers : \A j, k \in 1..Len(batch[d]) :
        j < k => batch[d][j].rec < batch[d][k].rec

(***************************************************************************)
(* Whatever is queued can be read: a reader that starts a batch never      *)
(* finds the queue empty while a record is waiting in it.                  *)
(***************************************************************************)
QueuedIsReadable ==
    (up /\ \E r \in Accepted : Unread(r)) => Found(buf, Cursor) # {}

(***************************************************************************)
(* Without failed writes, a reader finds what is queued as long as nothing *)
(* was evicted and no acknowledgement named a segment that was gone, over  *)
(* any number of crashes; and in a process that started with an empty      *)
(* directory, over any evictions but orphaning ones and acknowledgements   *)
(* in any order.                                                           *)
(***************************************************************************)
ReadableWithoutEviction ==
    /\ errs = 0
    /\ \/ evicted = "none" /\ ~strayed
       \/ stops = 0 /\ evicted # "orphaning"
    => QueuedIsReadable

(***************************************************************************)
(* frame.go: truncation "loses only the record that was never completed".  *)
(* A record that Append accepted is never in bytes dropped as torn or      *)
(* corrupt, unless a power failure cut it.                                 *)
(***************************************************************************)
OnlyUnfinishedIsTorn == corrupted \subseteq powerLost

(***************************************************************************)
(* OnlyUnfinishedIsTorn holds over kills at any byte of an append, power   *)
(* failures and restarts as long as no write has failed in a process that  *)
(* then went on appending to the same segment.                             *)
(***************************************************************************)
TornWithoutWriteError ==
    errs = 0 /\ evicted # "orphaning" => OnlyUnfinishedIsTorn
=============================================================================
