# A TLA+ model of the Trajectory collector

Trajectory's collector receives spans of agent runs, assembles them into
episodes, redacts and samples them, keeps them in a disk buffer, and delivers
them from there to a lake of Parquet files, over which commands join outcomes,
score episodes and export training data.  These modules follow a record along
that whole way and ask where it can be lost, doubled, split, left unredacted or
scored wrongly.  TLC checks the models on small instances.  TLAPS proves their
safety properties for every instance (one of them for redaction without a detector
only, two under stated conditions on what producers send), and that the collector's
life keeps custody of what it has taken.

- [The system](#the-system)
- [Modules](#modules)
- [Runs](#runs)
- [Findings](#findings)
- [Known limits of the code](#known-limits-of-the-code)
- [Proofs](#proofs)
- [What is not modelled](#what-is-not-modelled)
- [Plan](#plan)

## The system

```
 sources ──envelopes──▶ service.onEnvelope ──▶ assembler ──episodes──▶ service.onEpisode
 (otlp, native,          quota, head sampling,   open episodes,         redact, extract,
  webhook, filetail,     backpressure            window, patches        tail sampling
  exporter, importers)                                                       │ Append
                                                                             ▼
   lake reader ◀── objects ── lake sink ◀── deliverer ◀── PeekAfter/Ack ── disk buffer
   join, score, export         pending rows,   retries,                    segments,
                               blobs, manifest dead letters                cursor, state.json
```

| Component | State | Operations | Hard part | What makes it correct | Module |
|---|---|---|---|---|---|
| sources (`collector/source/native`, `otlp`, `webhook`), exporter (`otelcol`) | none beyond a request | `handleEpisodes`, `handleSpans`, `handleOutcomes`, `handleTraces`, `handle`, `ConsumeTraces` | refusal in the middle of a batch, retries, rejects | what is acknowledged is accounted for; what is rejected leaves nothing; a refused producer gets in | `Wire`, `Ingest` |
| file tail (`collector/source/filetail`) | offsets by path, the offset file | `Start`, `pollOnce`, `readFile`, `handleLine`, `saveState` | rotation, truncation, half lines, refusal, restart | at least once across restarts | `Lifecycle` |
| service (`collector/service`) | goroutines, tickers, policy, buckets, marker file | `Run`, `RunBackground`, `drain`, `Shutdown`, `onEnvelope`, `onEpisode`, `Reload`, `RunImport`, `LoadOutcomes` | order of shutdown, tickers racing delivery, reload between records, failing processors | a graceful shutdown loses nothing; a loss is reported; an episode is processed under one policy | `Ingest`, `Lifecycle`, `Delivery` |
| sampling, quotas (`collector/sample`, `service/quota.go`) | the policy in force | `HeadKeepFrom`, `TailKeep`, `allow` | reload | an episode is never split | `Ingest` |
| redaction, extraction (`collector/redact`, `extract`) | the rules | `Process`, `Preview`, `TransformKey`, `Extractor.Process` | rules that rewrite each other's output, detector ranges, failing closed | redacted or quarantined; previews are true; keys meet | `Redaction` |
| assembler (`collector/assemble`) | open episodes by session, memory of emitted sessions | `Add`, `Expire`, `Flush` | late, duplicate and shuffled spans, bounds | output independent of arrival order; no span in two places | `Assembler` |
| disk buffer (`collector/buffer/buffer.go`, `io.go`, `frame.go`) | segment files, segment list, active segment, cursor, `state.json` | `Open`, `Append`, `Sync`, `EvictExpired`, `PeekAfter`, `Ack`, `Close` | crash at any byte, power failure, eviction under a reader, the byte bound | nothing accepted is lost unreported; a sync is a sync; FIFO; the bound | `DiskBuffer` |
| deliverer (`collector/buffer/delivery.go`) | the batch in progress, attempts | `Run`, `DrainOnce`, dead-lettering | retries, abandoned batches, two drainers at shutdown | nothing is acknowledged before something took it; nothing blocks the queue | `Delivery` |
| lake sink (`collector/sink/lake`) | pending partitions, outcomes, known blobs; objects in the store | `Write`, `WriteOutcomes`, `Flush`, `FlushDue`, `Shutdown` | store calls outside the lock, failing in the middle of a batch | a batch is visible whole or not at all; rows are neither lost nor doubled; blob references resolve | `LakeSink` |
| lake reader (`pkg/lakeread`) | none | `Load` | duplicates, patches | every span once | `LakeSink`, `Assembler` |
| join, scorer, export (`pkg/join`, `scorer`, `export`, `cmd/cc`) | rewards in the lake | `join.Run`, `Score`, `cmdScore`, `export.Run` | late facts, as-of, several versions and runs | same as-of, same labels; one reward per version; pairs ordered by reward | `Labels` |

Goroutines: every source has its own and calls `onEnvelope` and, through the
assembler, `onEpisode` and `Buffer.Append`; the deliverer has one; the main
goroutine of `Service.Run` serves tickers that expire episodes, record the number
in flight, sync and evict the buffer and flush the sink, and at shutdown drains
the buffer itself.  `Buffer.mu` is held for the whole of a buffer method.
`Sink.mu` is released around every call on the store, `Assembler.mu` before
`emit`.  The policy is an atomic pointer, read once per envelope and once per
episode.

`PROJECT.json` lists every component with its status, and under `hazards` what
is hard to test in this code, with the properties that cover it.

## Modules

| Module | Models | Uses |
|---|---|---|
| `DiskBuffer` | the queue on disk | community modules |
| `LakeSink` | the sink and its store, called by any number of goroutines | community modules |
| `Delivery` | deliverer and service loop on top of the sink | `LakeSink` |
| `Assembler` | the assembler under its callers, and the reader's merge of what it emits | standard modules |
| `Wire` | what a request or a file comes to: conversions as operators | community modules |
| `Ingest` | requests and commands, sampling, quotas, redaction outcomes, reload, into the buffer | `Wire` |
| `Custody` | what the collector promises about a record it has taken | |
| `Lifecycle` | start, drain, failure, kill, restart, the file tailer, the loss marker | `Custody` |
| `Redaction` | one episode through redactor, detector and extractor; previews; outcome keys | community modules |
| `Labels` | join, score and export over a lake that fills | community modules |
| `DiskBufferProofs`, `DeliveryProofs`, `AssemblerProofs`, `IngestProofs`, `LifecycleProofs`, `RedactionProofs`, `LabelsProofs` | theorems about the module of that name, see [Proofs](#proofs); `DeliveryProofs` begins with those about `LakeSink` | that module, `SequenceFacts` |
| `SequenceFacts` | lemmas on sequences, least elements, enumerations, folds and sums that several of them need | library theorems |
| `MC...` | constants for TLC | the module of that name |

Each module models its component closely and its neighbours by what they may do
to it.  `Ingest` lets an episode close at any `Add` or `Expire`, which `Assembler`
makes precise; its buffer refuses a record at will, which `DiskBuffer` explains;
its redactor works or fails, as `Redaction` says when.

Operators whose comment begins with *fault:* are not part of the model.  Each is a
plausible wrong version of the operator that follows it; `PROJECT.json` names,
for every property, one that makes TLC report the property as violated.

### DiskBuffer

A segment file is a sequence of cells; a record of size *n* is *n* consecutive
cells, so `cursorOff`, `segment.bytes` and `MaxBytes` are byte quantities as they
are in the code, a crash can leave any prefix of a frame, and a cursor can point
into the middle of a record.  Cells of record 0 are bytes of a frame whose write
did not complete: the checksum of such a frame fails.

| Model | Code |
|---|---|
| `buf.segs[i]` | `segment` *i* and its file; `synced` is how much of the file fsync covered |
| `buf.active`, `buf.cursorSeg`, `buf.cursorOff` | the fields of `Buffer`; `active = 0` is nil |
| `saved` | `state.json` |
| `AppendOk`, `AppendFull`, `AppendFails` | `Append` that succeeds, returns `ErrFull`, or fails to write; each reclaims and evicts first |
| `Sync`, `EvictExpired` | the sync ticker of the service |
| `batch[d]`, `at[d]` | of each reader, the batch in hand, and how far `deliverBatch` is with it |
| `PeekAfter`, `DeadLetter`, `Ack`, `AckFails`, `Abandon` | a reader: `nextBatch` reads one record at a time; `sendOne` acknowledges a record it cannot send at once, ahead of those in front of it; `deliverBatch` acknowledges the others in order after the commit; `AckFails` is either when `state.json` cannot be written, `Abandon` a batch given up |
| `AckEntry` | `Buffer.Ack`: the cursor goes to the end of the entry, forwards or back, is saved, and what is behind it is reclaimed |
| `Close`, `Open` | `Close`; `Open` with `recover`, `truncateTorn`, `loadState` |
| `Kill`, `KillInAppend`, `PowerFail` | the process or the machine ends: files keep everything written, a torn frame, or at least what was synced |

The history variables say what happened to each record; `evicted` classifies
evictions.  An eviction is *orphaning* when it removes the newest segment, whose
id is then used again, or moves the cursor over a segment that it keeps.  `passed`
holds the records that the sink took in front of a dead-lettered one and that are
not acknowledged themselves; `strayed` says that an acknowledgement named a segment
that was gone by then.

There are two readers, as while the service shuts down (the delivery loop and the
main goroutine's `DrainOnce`); the model lets both work at any time, which includes
the ordinary case that one of them never starts.  What a reader does between peeking
and acknowledging (sending, retrying, committing) is the subject of `Delivery`.

### LakeSink

One step per critical section of `Sink.mu` and one per store operation, per
calling goroutine (`pc`).  `Write` looks at the cache, `BlobExists` and `PutBlob`
call the store, `PutBlobTable` writes the row of the blobs table, `AddRow` is the
critical section at the end.  `Flush(c, force)` takes the due partitions out of
the map, `PutFile` writes the files in order, `PutManifest` the manifest; each has
a failing variant with what the code does then: `PutFileFails` restores the
failing partition only, `PutManifestFails` restores nothing.  `Sink.outcomes` is
the partition `OutcomePart`: it is taken, aged, restored and written by the same
rules, last, to one file.  A row is the record it came from, so an episode and its
steps are one row in two files.

### Delivery

The two goroutines are `Run` (the deliverer) and `Main` (the service).  `step[d]`
is where *d* is in `DrainOnce`; `phase` is where `Main` is between serving and
stopped.  `Send` and `Commit` start calls on `LakeSink`, whose steps interleave
with everything else.  The buffer is reduced to an append-only log with a cursor
in memory and a saved one.  `NextBatch` may start anywhere between the cursor and
the furthest acknowledgement (`high`), because segments up to there may have been
reclaimed and `readFrom` then resumes at the oldest one left.  Eviction is the
subject of `DiskBuffer` and does not happen here.  When a source fails, `Run`
returns without a drain (`SourceFails`) and `cc run` calls `Shutdown` all the same.

### Assembler

| Model | Code |
|---|---|
| `order` | `open` and `order`: the in-flight episodes, oldest first; `spans` of one is its map of envelopes |
| `memory` | `emitted`, `emittedFIFO` and `emittedSpans`, which have the same sessions |
| `patchIdx` | `patchIdx`, by episode id |
| `ExpireLocked`, with `Picked` | `expireLocked`: the due episodes leave `order`, and the others stay, in their order |
| `ready[g]` | what goroutine *g* has closed under the lock and not yet emitted |
| `AddOpen`, `AddLate`, `AddDuplicate`, `AddNew` | the branches of `Add`, each with the expiry at its end |
| `Emit`, `Expire`, `Flush` | `emit` after the unlock; the ticker; the drain, after every source has returned |
| `Restart`, `Kill` | a new process, with an empty assembler |
| `RowsOf`, `HasOriginal`, `EarliestAt`, `ReadSteps` | `lakeread`: rows merged by episode id, one per step index |

Times are ages that stop at the deadline they are compared with, so no clock
bounds the runs and redeliveries may go on for ever.  Steps are a set of rows with
their index, the number of spans before it in the order of `orderedSteps`.  The
closes of one critical section are remembered together: each appends its session
and the oldest beyond `PatchMemory` go, which is the same as one after the other
because a session is never open and remembered at once (`InFlightBounds`).  Left
out are payloads, metadata, fidelity flags and counters.  `owed` and `forgotten`
are history.

`IdsNameSessions`, `FewSpans` and `SightingsAgree` say what producers keep to and
the code does not check: an episode id names one session, a session has no more
spans than there are step indices below `patchIdxBase`, and sightings of a span that
start together agree on its parent.  They are hypotheses of two theorems; the
envelopes of the run satisfy them (`ProducersKeepTo` in `MCAssembler`).

### Wire and Ingest

`Wire` has one operator per conversion, named after the function.  A record
becomes a sequence of envelopes `[src, session, span, err]`, or `Malformed`;
the importers skip what they cannot convert.  Session keys, span ids, the numbering
of steps and the conditions of an error are kept; the contents are not.

| Model | Code |
|---|---|
| `req[q]` | a request or a command: its envelopes, its status, the next envelope |
| `HandleEpisodes`, `HandleSpans`, `HandleTraces`, `HandleHook`, `ConsumeTraces`, `HandleOutcomes` | the handlers: what they convert before the first `next` |
| `HeadSampled`, `Refuse`, `Accept` | `onEnvelope`: head sampling, then quota, then backpressure, then `Add` |
| `Reply` | 202 at the end, 400 in the middle |
| `Redact`, `Quarantine`, `Keep` | `onEpisode`, in the goroutine that closed the episode, under the policy it read |
| `Reload`, `Load`, `BuildPolicy`, `Refill` | a policy that does not load or build is not applied; buckets start full |
| `CmdImport`, `ImportRefused`, `ImportFlush`, `DrainOnce` | `cc import`, `RunImport` |
| `CmdOutcomes`, `LoadOutcomes` | `cc outcomes`, in chunks |
| `Locked` | the lock on the buffer directory: no command runs beside the service |
| `gone`, `inForce` | history: spans let go of, by reason, and the policies so far |

A redaction policy is "works", "fails" (a detector is down, a token key is
missing) or "invalid" (refused by `Load`).  Rates are fractions of `Scale`, and
`Hash` gives each session and each episode id that a producer chose its place on
that scale.

The episode has the id that the envelope which opened its session names, or else a
fresh one (`EpisodeIDs`, for `Options.NewID`), whose place on the scale is any.
Head sampling goes by the session, tail sampling by this id.  A session that is opened
again, by the next process (`Kill`, `Forget`) or because it was pushed out of the
memory for patches (`RememberEmitted`), may so get another id, by chance or because
another envelope opens it.  `named` is the history of ids.

### Lifecycle and Custody

| Model | Code |
|---|---|
| `files`, `cur`, `half` | the tailed path: inodes, their complete lines, a line the writer has begun |
| `offsets`, `saved`, `tl` | `Tailer.offsets`, the offset file, the position in `readFile` and the line in hand |
| `Stat`, `OpenFile`, `ReadLine`, `SkipLine`, `AcceptRecord`, `RefuseRecord`, `EndOfFile`, `SaveState` | one poll, a step per file operation and per envelope |
| `Report`, `Expire`, `RecordInFlight` | the start of `Run` and its one-second ticker |
| `Cancel`, `FlushAssembly`, `MarkClean`, `Exit` | the signal, `wg.Wait` and `Flush`, the deferred marker, `Shutdown` |
| `SourceFails` | `Run` returns an error of a listener: no drain |
| `RunBackground`, `ShutdownDeadline` | the service inside an OpenTelemetry Collector |
| `http` | a handler that may outlive the `Start` of its server |

A line is two bytes long, so that an offset can lie in the middle of one.
`ReadLine` takes a line from the file, and its records are what `handleLine` goes
through from then on: a truncation while it does so changes the file and not the
line in hand.
`RateLimited` says whether the tailer's source has a rate limit; `RefuseRecord` is then
over quota as well as backpressure, and may happen for ever.
`SourcesReturned` waits for the tailer only: an HTTP server's `Start` returns as
soon as `Shutdown` is called, while handlers still run.

`Custody` is the abstract specification: a record in memory leaves it by being
stored, or with all others when the process ends, and what is stored stays.
`Lifecycle` implements it with the records in assembly and on their way through
`onEpisode` as `held`: TLC checks `CustodyKept == C!Spec` on an instance, and
`LifecycleProofs` proves it.

### Redaction

A text is a sequence of parts, each an atom of content in a node of a JSON
document; a token is the atom it was made from behind a mark, so rules can match
what other rules made.  The form of a part says how its atom is written: as it is,
with escapes of its producer's (`\u0040`, `\/`), or with those that `json.Marshal`
puts in (`\u0026`, for the atoms of `Special`).

| Model | Code |
|---|---|
| `RunRules`, `RunRule` | the loop over the rules in `applyField` |
| `Finds`, `Written` | a regular expression over the raw string, escapes and quotes included; `where` says whether it is anchored ("alone"), needs text around the match ("within"), or neither |
| `FindsAlone` | the same expression over a value by itself: a decoded node in `applyPathRule`, a key in `TransformKey` |
| `PathRule`, `Encoded` | `applyPathRule`: `Path.Set` writes to all nodes of the path, and `json.Marshal` writes the whole document again, with escapes of its own for those of the producer |
| `ApplyDetector`, `Valid`, `Merged`, `ReplaceFromEnd` | `Detect` drops ranges that are empty or end behind the text; the rest are merged and replaced from the end, for every pair of ranges a detector may return |
| `NextField`, `PolicyFor` | one field of a pass; a live one has the policy of the episode's source (`policy`), a preview or a dry run that of the command (`global`) |
| `Post` | an outcome whose key went through `TransformKey` of the global redactor |

A replaced number, and a match that took JSON syntax with it, leave no valid JSON.
Whitespace, the order of object keys and matches that span two parts are left out.

### Labels

Episodes and outcomes land in any order, some of them late.  `Join` is
`join.Run` as a set of labels, `NewRewards` what `cc score` decides when it has
read the lake and `ScoreWrite` writes later; `LatestReward` is the pass of
`latestRewards` over the rewards in the order of their files, which keeps one reward
for each episode, so the two of a pair may be of different versions.  `stale`,
`dataset` and `overlapped` are history, for the exceptions the properties name.

## Runs

| Run | Instance | Checks |
|---|---|---|
| `disk_buffer` | records of 1 and 2 cells, segments of 2, a buffer of 3, 2 readers with batches of 2; 3 records, 1 process end, 1 failed write, 2 clock values | `TypeOK`, `NoLossUnlessOrphaned`, `SyncedSurvivesPowerLoss`, `DurabilityInv`, `DiskBound`, `BatchInOrder`, `TornWithoutWriteError`, `ReadableWithoutEviction` |
| `lake_sink` | 2 interchangeable callers, 2 episodes of one partition that share a blob, 1 batch of outcomes, 2 failing operations, 1 kill | `NoHalfBatch`, `BlobsResolve`, `ExactlyOnceWithoutFailures`, `RowsAccounted` |
| `delivery` | 2 records, the second poisonous, batches of 2, 1 failing operation, 1 kill, 1 shutdown | `AckedWasTaken`, `NoNeedlessDuplicates`, `ShutdownLosesNothing` |
| `delivery_liveness` | the same with 2 attempts and no kill, under `FairSpec` | `QueueDrains`, `RowsLand` |
| `assembler` | a source and the main goroutine; a session of 3 spans, one sighted twice, and spans without a session; 2 open episodes, memory of 1, 3 episodes in all, 1 process end, under `FairSpec` | `SpansAccounted`, `EachSpanOnce`, `InFlightBounds`, `ReaderMergesPatches`, `StatusIsTruthful`, `StepsIgnoreArrivalOrder`, `TerminatedCloses` |
| `ingest` | 2 producers, 13 pairs of requests and files, 7 policies of which 2 load and build, 1 token, a high-water mark of 1, chunks of 2, 1 reload, kill, forgotten session or second attempt, under `FairSpec` | `AcceptedAccounted`, `RejectedLeavesNothing`, `SamplingNeverSplits`, `RefusedThenAccepted` |
| `lifecycle` | a file of 2 lines, one of output and one of 2 records, or a request, on its own or embedded; 2 rotations, truncations, stops, kills or failures, under `FairSpec` | `SavedOffsetIsCovered`, `DrainedUnlessLate`, `LossIsReported`, `LinesGetIn`, `CustodyKept` |
| `labels` | 3 episodes, 2 outcomes one of which is posted twice, a horizon of 1, times up to 2, 2 versions, 2 overlapping commands, 3 commands in all | `RebuildIsExact`, `RewardStaysTrue`, `ScoredOnce`, `ExportPrefersHigher` |
| `redaction` | 14 policies of a source, each also as the global one and 2 others as that; 6 episodes of 2 fields, an atom that needs escapes and one that has some; detector ranges over texts of up to 3 parts | `FullyRedacted`, `PreviewIsTrue`, `KeysMeet` |
| `no_silent_loss`, `failed_flush_keeps_rows`, `acked_is_durable` | smaller instances without kills | a violation each, see [Findings](#findings) |

Bounds.  A buffer of a segment and a half in which one record can fill a segment
and two small ones can share it reaches sealing, reclaiming, eviction by size and
by age, a batch over two segments, and a recovered segment behind a new one.
Three records of the larger size are more than the buffer holds.  Batches of two let
the second record be dead-lettered in front of the first, and two readers let one
reclaim a segment that the other has peeked.  In `lake_sink`
the two episodes make one partition due by size and the outcomes a second one, so
a flush of several partitions fails in between; two failures are a failing retry.
`delivery` takes one attempt per record, so a single failure stalls a batch and
the deliverer meets it again; `delivery_liveness` has the retry.  In `assembler`
a third episode meets two open ones and is the second in a memory of one, so
eviction and forgetting happen; three spans make an original with two patches.
In `ingest` a high-water mark of one puts every second record under backpressure
and a bucket of one refuses in the middle of a batch; the pairs bring together
requests that share a session, and a command with a request or with another
command.  Two policies come into force, so a reload changes the head rate, the
tail rate, `keep_if` and the redactor at once; one of them keeps half of all sessions at
the head and half of all episode ids at the tail, so that fresh ids and the id that
the second span of a session names are drawn apart from the first.  In `lifecycle` two events are a
stop or a kill before or after a rotation, and a kill of a process that started
after a kill; a line of two records can be refused half way.  In `labels` the time
runs past a horizon, two versions order as strings (`"10"` before `"9"`), and three
commands are two overlapping runs and a join or a third run.  In `redaction` rules chain in both orders, with a path rule in front of,
between and behind regular expressions, an anchored one and one that needs context; a range
reaches from 0 to 3, which is past the end of the shorter texts; two ranges
overlap, touch, nest or are apart.  A larger instance of `assembler` (two sources) was checked as
well.  The largest runs have 2,111,665 (`disk_buffer`), 1,139,737 (`labels`), 489,908
(`lifecycle`) and 361,505 (`ingest`) distinct states.  All counters with a bound (`Max...`) are bounds of the instance, not of the
code.  Deadlock is not checked: all bounded behaviours end, and a stopped collector
may stay stopped.

Symmetry is used over the readers in `disk_buffer`, the callers in `lake_sink` and the
commands in `labels`, which the actions treat alike; there are no temporal properties in those runs.

Fairness.  `Delivery!FairSpec`: weak fairness of each goroutine's own steps: the Go
scheduler runs a runnable goroutine, the deliverer polls every 200 ms, and the
flush ticker fires every five seconds as long as `Main` is in its select loop.
Weak fairness of `Age(p)`: time passes, so a partition reaches `RollInterval`.
A failing step is an alternative to the step that succeeds and is taken a bounded
number of times: a store that never recovers is not expected to be delivered to.
New records, shutdowns, kills and restarts are not fair.

`Assembler!FairSpec`: the one-second ticker of `Service.Run` calls `Expire`
(`WF(Expire)`), time passes (`WF(Tick)`), and a goroutine that has left the lock
goes on emitting (`WF(Emit(g))`).  What producers send is not fair.

`Ingest!FairSpec`: handlers, commands and `onEpisode` go on, the deliverer
delivers, and a producer that was refused sends again, as 429, 503 and
`Retry-After` ask it to.  Buckets fill, but not fairly: `RefusedThenAccepted` is
about sources without a limit.

`Lifecycle!FairSpec`: the goroutines go on and a supervisor starts a stopped
process again.  Strong fairness of `AcceptRecord` for each position in a line, where the
source has no rate limit: a record that is tried again and again is accepted at some
try, because backpressure is all that refuses it, and ends (`ingest`).  With a rate limit
nothing of the kind is assumed: every try of a line takes the tokens of its records
anew, so a line that needs more than the bucket holds, or than it gains from one poll to
the next, never gets in, and `LinesGetIn` does not speak of such a source.  Strong fairness of `TailReturn`: Go's select chooses at random
between the poll ticker and `ctx.Done`, so it does not pass the latter over for
ever.

What the passing properties say, beyond what their comments state:

- `NoLossUnlessOrphaned` and `ReadableWithoutEviction` mark the edge of finding 1
  and of the first two known limits: within it the queue keeps its promises over any
  combination of the rest, acknowledgements out of order included.  A record may be
  behind the cursor without having been acknowledged in two cases only: something
  reported it, or the sink had taken it (`passed`).  `TornWithoutWriteError` marks the
  edge of the third limit.
- `RowsAccounted` is the sink's whole ledger: the only ways for a row to vanish
  are a kill, the batch of a flush that failed on a file, and a batch without its
  manifest.
- `AckedWasTaken` is the guarantee that remains of finding 3: an acknowledged
  record was at least handed to the sink or dead-lettered.
- `SpansAccounted` and `ReaderMergesPatches` together say that a span accepted by
  a process that is not killed comes back to the reader, once, as long as its
  session is remembered.
- `TerminatedCloses` is checked with redeliveries that never stop, since nothing
  counts them.
- `ShutdownLosesNothing` needs the flush of `Service.Shutdown`, after the one of
  the drain: the deliverer is still writing to the sink when the drain flushes.
- `AcceptedAccounted` is at the same time the list of what may happen to an
  acknowledged span: sampled, dropped by a full buffer or an overwritten
  quarantine file, or taken by a kill.
- `FullyRedacted`, `PreviewIsTrue` and `KeysMeet` hold up to what the code's two ways of
  reading a text make of them: `WrittenAnew` (a later path rule changed the escapes of a
  word), `global = policy` (the source has no policy of its own), and `KeysUnescaped` with
  `OnlyRegex` (the key reads the same in the text and by itself).  Each of them was taken
  away in turn, and TLC found the property violated.
- `SamplingNeverSplits`, `DrainedUnlessLate`, `LossIsReported`, `RebuildIsExact`,
  `RewardStaysTrue` and `ScoredOnce` carry an exception each (`MaySplit`, `late`,
  `counted`, `complete`, `stale`, `overlapped`).  The comments in the code state them without;
  the exception is exactly where the model needs it, see the next sections.

## Findings

Each is a run that TLC must find violated, with the quoted line in `PROJECT.json`.

1. `no_silent_loss`: eviction of the newest segment lets `ensureActiveLocked` use
   its id, or 1, again.  Two records fill a segment, `EvictExpired` removes it and
   sets the cursor to the following id; the next record goes to segment 1, behind
   the cursor, and is never read.
2. `failed_flush_keeps_rows`: a flush of several partitions that fails on one puts
   back that one only.
3. `acked_is_durable`: `Commit` is `FlushDue`, which leaves partitions that are not
   due in memory; their records are acknowledged, and a kill loses them.

## Known limits of the code

Seen while modelling, and either visible in the models as the exceptions and
guards of the properties above, or read off the code.

Buffer, delivery and lake:

- The recovered last segment of a previous process is unsealed, so neither eviction nor
  `reclaimLocked` removes it, and a later one goes first; an `Ack` of a batch that was
  peeked before moves the cursor to the removed id, and `readFrom` (io.go:465) answers
  that there is nothing to read, although records are queued.  The late `Ack` can be
  that of the other drainer at shutdown, or the one of a record in front of a dead
  letter, with no eviction at all (`strayed`, and `QueuedIsReadable` without the guards
  of `ReadableWithoutEviction`).  The space of that segment stays taken as well.
- A dead-lettered record is acknowledged while those in front of it are neither
  committed nor acknowledged (delivery.go:264).  A kill at that moment leaves the saved
  cursor behind them: what the sink had only in memory is lost, unreported (`passed`).
  When the commit fails after it and the batch is given up, nothing reads those records
  again, and they are in the sink's memory only until it flushes.  The comment at delivery.go:176 says that on any
  failure the whole batch stays unacknowledged.
- After a write error the process goes on in the same segment, and recovery cuts
  the records behind the torn frame (io.go:65; `OnlyUnfinishedIsTorn` without the
  guard of `TornWithoutWriteError`).
- The acknowledgement of a dead-lettered record is undone by that of the record
  before it, so it is read and dead-lettered again (delivery.go:201).
- The blobs table is written after the blob: when that fails, the retry finds the
  blob and its row is never written (write.go:171).
- An episode that a process does not remember, after a restart or past
  `PatchMemory`, is opened again under the id its producer chose, with steps
  numbered from 0; the reader keeps one step per index (lakeread.go:178).
- `absorb` keeps the first metadata value to arrive (assemble.go:264), so shuffled
  spans that disagree give different episodes.  A step whose parent did not arrive
  keeps the `parent_idx` its producer wrote (close.go:110).

Ingest:

- An episode sent in two requests without `step_idx` numbers its steps from 0 in
  each (decode.go:205): those of the second look like redeliveries and are dropped.
- A refused batch takes tokens again when it is sent again (quota.go:35), so one
  that is larger than the bucket never gets in.
- A reload between two spans can split a session, as can `keep_if` between an
  episode and its patch, and sources of different rates (sample.go:6 says never).  So can
  a restart or a full memory for patches: the session is opened again, under a fresh
  `NewID` if its spans name no episode (assemble.go:203), or under another episode id
  that its next span names, and tail sampling hashes that id (sample.go:256).
- A quarantine file is named after the episode: a patch overwrites the original.
- Nothing is delivered during an import, so one with more records than the
  high-water mark fails, and again until `cc run` has drained the buffer.  When the
  destination stalls, `DrainOnce` returns no error, and the command reports success
  with records still queued (import.go:61).
- `cc outcomes` that fails half way leaves the chunks before; a second run posts
  them again, which the join's deduplication by id absorbs.
- `reload.go` leaves a source's `head_sample_rate` out of the configuration it
  records.  The totals of the global and a source's redactor share a metrics key
  (counters.go:28).

Lifecycle:

- A tailed line whose envelopes need more tokens than its source's bucket holds, or
  than it gains between two polls, is refused at every try (quota.go:35,
  service.go:490), and `readFile` never gets to the lines behind it (filetail.go:213,
  filetail.go:299).
- An HTTP handler that runs when assembly is flushed may add an episode that no
  one flushes (native.go:106, otlp.go:149, webhook.go:88); the clean marker then hides the loss.
- The marker counts what was in flight a second ago at most; a burst after it is
  lost uncounted (restartloss.go:19 calls the number an upper bound).
- The offset of a line is saved when the assembler has it; a kill loses the episode.
  Rotation loses lines not yet read; a copytruncated file that has grown past the
  offset again is not noticed.  A listener that fails before the tailer has loaded
  its offsets makes `Shutdown` overwrite the offset file with nothing.
- `Exporter.Shutdown` at its host's deadline closes the buffer while
  `RunBackground` drains; what is in assembly is lost, although the log says that
  records remain buffered (exporter.go:92).
- `cmd/cc/main.go:210` says that a second signal aborts; nothing does that.

Redaction and labels:

- `Path.Set` writes the last replacement to every node of a path (redact.go:389).
  A regex that replaces an unquoted number breaks the JSON, and later path rules and
  the extractor skip the text.
- A path rule writes the whole document anew (redact.go:399), which undoes its
  producer's escapes and adds those of `json.Marshal`.  A word that an earlier
  expression did not find because it was written `bob\u0040x.com` comes out as
  `bob@x.com`, and no rule looks at it again; one that a later expression would have
  found may be hidden from it.  The comment at redact.go:171 has no such exception.
- A range of the detector that ends behind the text is dropped without an error
  (detector.go:88), and what it named stays.  The service counts characters and the code
  takes its offsets for bytes (detector.go:34, detector.go:147), so in a text that is not
  ASCII the ranges name other bytes than the service meant; the model has one unit.
- Keys redacted by a path rule, a rule with fields, or the detector never meet the keys
  of outcomes, which go through the regex rules only.  Nor do, in general: keys of a
  source with a policy of its own, as outcomes take the global one (outcomes.go:51); keys
  written with escapes (`\u0026`, `\/`, `\u0040`), as the payload is matched as it is
  written and the extractor decodes what it finds; and keys matched by an anchored
  expression or one that needs context, which `TransformKey` sees without the text
  around them.
- `cc redact --test` takes the global policy (cmd/cc/redact.go:60) and `cc validate
  -sample` that of the first source (cmd/cc/dryrun.go:80): neither tells what becomes of
  an episode of a source with another one (policy.go:72).
- A failing pass leaves the episode partly redacted in the quarantine file.
- A label that is final changes when an outcome or an episode of before arrives
  late.  Versions compare as strings, so `"9"` is above `"10"` (export.go:238).  The
  highest version is taken for each episode on its own (export.go:231), so a pair may
  compare the reward that one version gave with that of another.
  Overlapping runs of `cc score` write a reward twice.

## Proofs

TLC checks each property on one small instance.  The theorems below hold for every
value of the constants that satisfies the named assumptions of the module.

| Module | Theorems | Assumptions |
|---|---|---|
| `DiskBufferProofs` | `TypeCorrect`, `DurabilityHolds`, `SyncIsDurable`, `BatchesInOrder`, `NothingLostUnlessOrphaned`, `TornIsUnfinished`, `QueuedCanBeRead`, `DiskIsBounded` | record sizes are positive, bounds are naturals |
| `DeliveryProofs`, of `LakeSink` | `SinkInvHolds`, `BatchesAreWhole`, `RowsStayAccounted`, `BlobsAlwaysResolve`, `RowsAreHeldOnce` | records are positive numbers; a record has a partition and perhaps a blob, an outcome none; limits are naturals |
| `DeliveryProofs`, of `Delivery` | `DeliveryInvHolds`, `AckedRecordsWereTaken`, `SinkKeepsItsWord`, `ShutdownKeepsAcked`, `NothingSentTwice` | those of `LakeSink`; two goroutines; records are numbered as the buffer holds them; a batch and the number of attempts are positive |
| `AssemblerProofs` | `AssemblerInvHolds`, `MemoryStaysBounded`, `SpansStayAccounted`, `SpansEmittedOnce`, `StatusStaysTrue`, `ArrivalOrderIsIgnored`, `PatchesAreMerged` | the main goroutine is no source; limits are positive; the settle time is below the window, as `config/validate.go:203` demands; `ArrivalOrderIsIgnored` of producers for which `SightingsAgree` holds, `PatchesAreMerged` of those with `IdsNameSessions` and `FewSpans` |
| `IngestProofs` | `IngestInvHolds`, `AcceptedStaysAccounted`, `RejectionIsWhole`, `SamplingKeepsWhole` | a body is a sequence of envelopes, whose sessions are no producers; limits are positive |
| `LifecycleProofs` | `TypeCorrect`, `LifecycleKeepsCustody`, `DrainAndLoss`, `DrainLosesNothing`, `LossReported`, `OffsetIsCovered` | the three goroutines differ, bounds are naturals |
| `RedactionProofs` | `PreviewsAreTrue`, `EpisodesAreRedacted`, `OutcomeKeysMeet` | each field is visited once; no regular expression matches the empty text; `json.Marshal` escapes no token and no mark; `EpisodesAreRedacted` of policies without a detector |
| `LabelsProofs` | `LabelsInvariant`, `RebuildTheorem`, `RewardTheorem`, `ScoredOnceTheorem`, `ExportTheorem` | the horizon is positive; an id names one episode; an outcome is observed no earlier than it occurred |

None of the properties is inductive as it stands.  What each needs besides:

**Disk buffer.**  `SyncedSurvivesPowerLoss` says that `flushed` (records accepted by
a process that then returned from `Sync`) and `powerLost` are disjoint; it says
nothing of a flushed record that is still in the unsynced part of a file, which the
next power failure would take.  `DurabilityInv` adds that there is none
(`SegmentDurable`), and the reason: a segment other than the one being appended to
holds no unsynced record of the running process, since sealing syncs before the
segment stops being the active one, and recovered segments hold only records of
earlier processes.  One lemma per operator on the buffer (`Without`, `SetCursor`,
`EnsureActive`, `WriteFrame`, `WriteTorn`, `SealActive`, `SyncActive`, `Recover`,
`OnDisk`, `PowerCut`) says that it maps a buffer to a buffer and what it does to
durability; then there is one step per action.

**The queue in the files.**  `LogInv` describes the bytes.  In every
file each cell lies in a frame whose other cells are its own (`Framed`), records are
in the order of acceptance, each once (`Ordered`), the records of a segment precede
those of the next, and the segment appended to is the newest (`LogOK`).  While a
process runs, its files also end with a whole frame (`Whole`), and the byte count of
a segment covers every record in front of a torn frame (`Counted`): the reader stops
at that count, so a record behind it would wait for ever (`RunOK`).  The theorems
add, in this order:

- `BatchesInOrder`: what is still to be read comes after the last entry of each batch
  (`AheadInv`).
- `NothingLostUnlessOrphaned`: every record behind the cursor, behind the cursor in
  `state.json`, or behind an entry of some reader's batch is accounted for, counting as
  read the records of that batch up to the entry (`Behind`), and whatever is appended
  next comes after all of these positions (`Within`); so an acknowledgement that jumps
  ahead, a later one or a restart can step over nothing else (`QueueInv`).  The
  records that a dead letter's acknowledgement steps over are those of its own batch in
  front of it that are still there, which is what `passed` collects.  `Within` is what an orphaning eviction breaks:
  a fresh segment reuses an id that is behind the cursor.
- `TornIsUnfinished`: without failed writes a running process has no torn bytes at
  all, and what a process leaves has them only at the end of a file, so recovery cuts
  nothing whole (`TailInv`).
- `QueuedCanBeRead`: the reader enters the log at a segment that exists, or before
  the oldest one.  Either nothing was evicted, and the segments that the cursor and
  the batches name exist as long as nothing has strayed (`NamedInv`), or the process began with an empty directory,
  and then no segment is behind the cursor and only the newest is not sealed
  (`FreshInv`).  After a restart *and* an eviction neither holds.
- `DiskIsBounded`: recovery counts the bytes of the files anew, and a file can be
  longer than its segment's count (a torn frame is in the file and not in the count).
  `BoundInv` therefore bounds, while no process runs, the bytes that recovery would
  keep.  `TotalBytes` is a fold over the segments; the lemmas `FoldIsSum`,
  `SumMonotone` and `SumGrows` of `SequenceFacts` say how it changes.

**Lake sink.**  A batch is visible as a whole because of what a flush in progress
knows: the files it has put together with those it has to put are exactly the files
of the partitions it took (`FlushInv`), its batch number is nobody else's
(`BatchInv`), and only a caller inside a flush holds rows of its own (`CallInv`).
`RowsAccounted` follows from these.  `BlobsResolve` needs that a row is not buffered,
and not even on its way to the buffer, before its blob is stored (`KnownInv`,
`BlobInv`).  `SinkMove` abstracts the sink's steps, and what the lemmas say of it
holds whoever calls the sink.  `RowsAreHeldOnce` compares places: a row of a record is
at a position of a pending partition, at a position of a partition in flight, or in a
file that a manifest lists, and no two of these are of the same record (`HeldOnce`).
A step moves a row from one kind of place to the next, and `Copies` counts the places.

**Delivery.**  The composition reuses these lemmas: every step of `Delivery` is a
`SinkMove` or leaves the sink alone, so `SinkKeepsItsWord` needs no second proof.
`AckedWasTaken` needs that whatever is behind a goroutine in its batch is taken
(`PeekInv`), that the call a goroutine has made on the sink is the one its step
stands at (`CallerInv`), and that the whole prefix up to the furthest cursor there
has ever been is taken (`CursorInv`): the cursor itself moves back and forth when
both goroutines acknowledge.  `ShutdownLosesNothing` needs `ShutdownInv` (without
failures nothing is let go of, and the pending rows are empty once the sink has
been closed) and that the deliverer has stopped by then (`PhaseInv`).
`NothingSentTwice` adds that what the deliverer still has to send lies beyond
everything the sink has (`RunBehind`).  This is not a statement about the cursor
alone: acknowledging a batch moves the cursor back behind dead-lettered records at
its end, which are not in the sink, so they are read again and never sent.

**Assembler.**  `EachSpanOnce` relates records already emitted with records a
goroutine has closed and not yet emitted (`OnceInv`).  It rests on `TracedInv`
(every emitted span of a session that is not forgotten is in the memory of emitted
sessions) and `ApartInv` (a session is open or remembered, never both).
`OwedInv` makes `SpansAccounted` exact: a span is open, ready or emitted.
`StatusIsTruthful` is the one that needs settle below window.

`StepsIgnoreArrivalOrder` compares two episodes that took the same two observations in
opposite orders.  `Absorb` keeps the earliest sighting of a span, so the two hold
sightings that start together (`Alike`), and by `SightingsAgree` these give the same
steps and links; `KeptInv` supplies that the spans of an open episode are observations
of its own session.  `ReaderMergesPatches` needs that an id, chosen by a producer or
made by `NewID`, is used for one session in everything open, remembered, ready or
emitted (`IdInv`, from `IdsNameSessions`); that the steps of an original are numbered
below `patchIdxBase` and each at another index (`WellMade`, from `FewSpans`); and that
for a session not forgotten, every record's indices are below the next patch index, no
two records share a span or an index, and there is an original (`RecInv`, `IndexInv`).
Without the hypotheses both properties fail: two sessions with one producer id are
merged into one episode, and of two sightings that start together the first is kept.

**Ingest.**  `AcceptedAccounted` speaks of requests that have been answered;
`ProgressInv` says the same of the part of a running request that is behind it, and
`KnownInv` of what the assembler remembers.  `SamplingNeverSplits` needs who kept
what: some policy that was in force kept each envelope that is stored and each
episode behind the tail (`RecordsInv`, `MemoryInv`), and sampled each that is gone
(`GoneInv`).  The tail goes by the episode's id, so these say that each record in
assembly, in the buffer or gone has one of the ids its session was opened under
(`named`); where two of them draw apart the property claims nothing.

**Lifecycle.**  `LifecycleKeepsCustody` is the refinement of `Custody`: an initial
state maps to an initial state and every step to `Take`, `Store`, `End` or a
stutter.  `StepInv` says which goroutine can hold closed episodes in which phase;
without it a stop could leave records in a goroutine that is gone.  `DrainInv` says
that nothing comes into assembly after it was flushed unless a handler is running,
`LossInv` that the marker on disk counts what the process may lose, whenever it
dies.  `SavedOffsetIsCovered` needs the same of the offset in memory and of the
position in the file that is open, for the same file and for an earlier one
(`CoverInv`), and of the line in hand: the records of it that were passed on are
taken, and it still is the line at the position (`HandInv`).

**Redaction.**  A preview and the live pass work on different copies at different
times, so neither can be compared with the other while it runs.  `PreviewInv` compares
both with a third thing: what the pass makes of each field taken alone (`Out`).
`Halfway` says that a running pass has done exactly that to the fields behind it and
nothing to the others, and `ToldInv` that what was printed, reported and extracted is
what all fields alone come to, as long as the command has the policy of the source (`Same`).
`EpisodesAreRedacted` follows one field through its
rules as a chain of results (`Chain`): after each rule the text is clean of it
(`Clean`), and later rules leave it clean, because what they write is a token or a mark
and not a plain word, because a text that has ceased to be JSON does not become
JSON again (`Turns`), and because a part they leave alone stays as it was or is encoded
anew (`Kept`).  The last of these is the exception: a plain word in another form than
the episode had it in is one that a path rule behind this rule wrote (`Anew`), so the
induction says that the text is clean of each rule so far but for those
(`CleanUpTo`).  `OutcomeKeysMeet` runs two such chains side by side, the one of
the text and the one of `TransformKey`: the atom at a key's position and the key are
the same after each rule (`Paired`), and the key stays written as it is (`KeyPart`),
which is what makes `Finds` on the text and `FindsAlone` on the key agree.

**Labels.**  A reward was scored from what a command read, and the lake has grown
since.  `FoundedInv` says that the lake of *now* still gives a final label as of the
time of scoring with this reward, unless the read was stale: an episode or outcome
that lands later either was not known then or makes the read stale (`KnownInv`).
`RewardStaysTrue` then needs that moving the as-of time forward does not change a
final label: what is observed later also occurred later, beyond the horizon of that
label.  `ScoredOnce` needs that what a running command is about to write is new
(`NewInv`), `RebuildIsExact` that the labels of a join are those the lake would give
again (`Rebuilt`).  `ExportPrefersHigher` is about one pass over the rewards in which a
later one replaces an earlier one: after each step the value is the last word on the
rewards of its episode so far (`LastWord`).  That a pair of two versions has no
version in common that is as high follows: such a version would have had the last word
on both.

Two proof attempts changed a model.  The first draft of the file tailer read the
line at its position again for each record, so that after a truncation it could
take the second record of another line, which the code, having the line in memory,
cannot (filetail.go, `readFile`): hence `ReadLine` and `tl.line`.
`RejectedLeavesNothing` compared envelopes, and two bodies may bring the same one;
it now compares sessions and spans, as the code's identities do.

Several of these speak of folds over sequences of any length.  The provers cannot
instantiate the library's induction theorems, so such a fact is proved by a least
counterexample: `FoldExists` gives the sequence of intermediate results of a
`FoldLeft`, and the least position at which the claim fails has one before it at which
it holds.

Only model-checked:

- Liveness (`QueueDrains`, `RowsLand`, `TerminatedCloses`, `RefusedThenAccepted`,
  `LinesGetIn`): TLAPS does not reason about fairness and `ENABLED`.
- `FullyRedacted` with a detector.  Its second half compares what `SelectSeq` keeps of
  the replaced text with the parts outside the detector's ranges.  That comparison
  recognises a replacement by its being none of the parts before it, which holds of the
  run's samples and not of every text: the token of a word may already be there.
- What the three runs that expect a violation show.

## What is not modelled

- Errors of fsync, close and remove in the buffer, and of reading a directory at
  `Open`: the code returns them and the caller logs them.
- Encryption at rest.  A record that does not decrypt is skipped by the reader.
- `Buffer.Next` and `Deliverer.deliver`, which the collector does not call.
- `WriteRewards` inside the sink: `cc score` uses it on a sink of its own,
  sequentially; `Labels` has its effect.
- The contents of rows, files and manifests; metadata and fidelity flags of episodes.
- Decoding of JSON, protobuf and CSV text, the attribute tables of `normalize`, the
  field mapping of webhooks and importers, and the expression language of `keep_if`
  and of extraction: conversions of data no property here tells apart.
- Configuration beyond what decides whether a policy comes into force; TLS;
  authentication.
- Metrics and tracing, apart from the counter of lost episodes.
- In a dry run, the predicted placement, partition and sampling.  In an export,
  filters by reward and fidelity, the choice between verifiers, and line formats.
- `cc inspect`, `cc replay`, the conformance suite, SDKs, generated code, development
  tools and deployment: no state over time that the collector shares.

## Plan

In this order:

1. An abstract queue (records waiting, delivered or reported lost) that
   `DiskBuffer` implements as long as no eviction orphans the log.
2. `Assembler`: metadata and fidelity flags, with the order of arrival.
3. `Redaction`: `DetectionApplied` with positions in place of contents, so that it
   says the same of every text and can be proved.
