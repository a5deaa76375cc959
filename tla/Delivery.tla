------------------------------- MODULE Delivery -------------------------------
(***************************************************************************)
(* Delivery of the buffered records into the lake: the Deliverer           *)
(* (collector/buffer/delivery.go), the goroutines of the service that use  *)
(* it and the sink (collector/service/service.go), and the sink itself     *)
(* (LakeSink).                                                             *)
(*                                                                         *)
(* Run is the goroutine of Deliverer.Run.  Main is the service's select    *)
(* loop: it flushes the sink on a ticker, and at shutdown drains the       *)
(* buffer with a DrainOnce of its own while Run is still delivering.       *)
(*                                                                         *)
(* The buffer is reduced to what DiskBuffer shows of it when nothing is    *)
(* evicted: an append-only log and a durable cursor, where a read behind   *)
(* the furthest acknowledgement may find its segments reclaimed.           *)
(***************************************************************************)
EXTENDS LakeSink

CONSTANTS
    Run, Main,      \* the two goroutines
    Poison,         \* records whose send fails permanently: they do not decode
    BatchSize,      \* DeliveryOptions.BatchSize
    MaxAttempts,    \* DeliveryOptions.MaxAttempts
    MaxStops        \* bound: graceful shutdowns

ASSUME DeliveryAssumption ==
    /\ Callers = {Run, Main} /\ Run # Main
    /\ Recs = 1..Cardinality(Recs)
    /\ Poison \subseteq Recs
    /\ BatchSize \in Nat \ {0}
    /\ MaxAttempts \in Nat \ {0}
    /\ MaxStops \in Nat

VARIABLES
    appended,   \* records 1..appended are in the buffer's log
    cursor,     \* records 1..cursor are acknowledged
    saved,      \* the cursor in state.json
    high,       \* the furthest the cursor has been
    dead,       \* records in the dead-letter directory
    phase,      \* where Main is
    step,       \* where a goroutine is in DrainOnce
    lo, hi,     \* the batch a goroutine has peeked: records lo+1 .. hi
    at,         \* the record of the batch it is at
    tries,      \* attempts that failed at this record or at this commit
    stops       \* graceful shutdowns so far

bufferVars == <<appended, cursor, saved, high, dead>>
batchVars  == <<lo, hi, at>>
drainVars  == <<step, batchVars, tries>>
mainVars   == <<phase, stops>>
vars == <<sinkVars, bufferVars, drainVars, mainVars>>

Goroutines == {Run, Main}

Init ==
    /\ SinkInit
    /\ appended = 0 /\ cursor = 0 /\ saved = 0 /\ high = 0 /\ dead = {}
    /\ phase = "serving"
    /\ step = [d \in Goroutines |-> "idle"]
    /\ lo = [d \in Goroutines |-> 0]
    /\ hi = [d \in Goroutines |-> 0]
    /\ at = [d \in Goroutines |-> 0]
    /\ tries = [d \in Goroutines |-> 0]
    /\ stops = 0

\* an episode reaches the buffer
AppendRecord ==
    /\ phase = "serving"
    /\ appended + 1 \in Recs
    /\ appended' = appended + 1
    /\ UNCHANGED <<sinkVars, cursor, saved, high, dead, drainVars, mainVars>>

-----------------------------------------------------------------------------
Step(d, where) == step' = [step EXCEPT ![d] = where]

\* deliverCtx ends when Run of the service returns
Cancelled(d) == d = Run /\ phase = "cancel"

\* ctx may be done: the context of the drain has a deadline
MayBeDone(d) == d = Main \/ Cancelled(d)

\* a batch is over: deliverBatch returns
Forget(d) ==
    /\ Step(d, "idle")
    /\ lo' = [lo EXCEPT ![d] = 0]
    /\ hi' = [hi EXCEPT ![d] = 0]
    /\ at' = [at EXCEPT ![d] = 0]
    /\ tries' = [tries EXCEPT ![d] = 0]

MayDrain(d) == IF d = Run THEN phase \notin {"cancel", "shutdown", "closing", "stopped"}
                          ELSE phase = "drain"

BatchEnd(from) == Min({from + BatchSize, appended})

\* nextBatch: peek the records after the cursor
NextBatch(d) ==
    /\ step[d] = "idle" /\ MayDrain(d)
    /\ \E from \in cursor..high :
          /\ from < appended
          /\ lo' = [lo EXCEPT ![d] = from]
          /\ hi' = [hi EXCEPT ![d] = BatchEnd(from)]
          /\ at' = [at EXCEPT ![d] = from + 1]
    /\ tries' = [tries EXCEPT ![d] = 0]
    /\ Step(d, "send")
    /\ UNCHANGED <<sinkVars, bufferVars, mainVars>>

\* DrainOnce returns: Run will call it again, Main goes on with its shutdown
Leave(d) ==
    /\ Forget(d)
    /\ phase' = IF d = Main THEN "flush" ELSE phase

\* deliverBatch's loop: on to the next record, or to the commit
Advance(d) ==
    /\ IF at[d] = hi[d] THEN Step(d, "commit") /\ UNCHANGED at
       ELSE Step(d, "send") /\ at' = [at EXCEPT ![d] = @ + 1]
    /\ tries' = [tries EXCEPT ![d] = 0]

\* sendOne: an attempt
Send(d) ==
    /\ step[d] = "send" /\ at[d] \notin Poison
    /\ Write(d, at[d])
    /\ Step(d, "sending")
    /\ UNCHANGED <<bufferVars, batchVars, tries, mainVars>>

\* sendOne: the record does not decode, which is a permanent error
SendPoison(d) ==
    /\ step[d] = "send" /\ at[d] \in Poison /\ ~Cancelled(d)
    /\ Step(d, "dead")
    /\ UNCHANGED <<sinkVars, bufferVars, batchVars, tries, mainVars>>

\* sendOne looks at ctx before it looks at the error
PoisonCancelled(d) ==
    /\ step[d] = "send" /\ at[d] \in Poison /\ MayBeDone(d)
    /\ Leave(d)
    /\ UNCHANGED <<sinkVars, bufferVars, stops>>

\* fault: the error of the send is not looked at
SentOrFailed(d) ==
    /\ step[d] = "sending" /\ pc[d] = "idle"
    /\ Advance(d)
    /\ UNCHANGED <<sinkVars, bufferVars, lo, hi, mainVars>>

\* sendOne: the sink took the record
Sent(d) ==
    /\ step[d] = "sending" /\ pc[d] = "idle" /\ ret[d] = "ok"
    /\ Advance(d)
    /\ UNCHANGED <<sinkVars, bufferVars, lo, hi, mainVars>>

\* an attempt failed and there are attempts left
Retry(d, where) ==
    /\ step[d] = where /\ pc[d] = "idle" /\ ret[d] = "err"
    /\ ~Cancelled(d) /\ tries[d] + 1 < MaxAttempts
    /\ tries' = [tries EXCEPT ![d] = @ + 1]
    /\ Step(d, IF where = "sending" THEN "send" ELSE "commit")
    /\ UNCHANGED <<sinkVars, bufferVars, batchVars, mainVars>>

\* errStalled, or ctx is done: the batch is given up as it is
Stall(d, where) ==
    /\ step[d] = where /\ pc[d] = "idle" /\ ret[d] = "err"
    /\ MayBeDone(d) \/ tries[d] + 1 >= MaxAttempts
    /\ Leave(d)
    /\ UNCHANGED <<sinkVars, bufferVars, stops>>

DeadLetter(d) ==
    /\ step[d] = "dead"
    /\ dead' = dead \cup {at[d]}
    /\ Step(d, "deadack")
    /\ UNCHANGED <<sinkVars, appended, cursor, saved, high, batchVars, tries, mainVars>>

\* the dead-letter file cannot be written: DrainOnce returns the error
DeadLetterFails(d) ==
    /\ step[d] = "dead"
    /\ Failing(d)
    /\ Leave(d)
    /\ UNCHANGED <<sinkMem, callVars, storeVars, crashes, sinkHist, bufferVars, stops>>

\* fault: the cursor is left at the start of the record
AcknowledgeStart(r) ==
    /\ cursor' = r - 1 /\ saved' = r - 1
    /\ high' = IF r > high THEN r ELSE high
    /\ UNCHANGED <<appended, dead>>

\* Buffer.Ack
Acknowledge(r) ==
    /\ cursor' = r /\ saved' = r
    /\ high' = IF r > high THEN r ELSE high
    /\ UNCHANGED <<appended, dead>>

\* fault: the dead-lettered record is not acknowledged
DeadAckMissing(d) ==
    /\ step[d] = "deadack"
    /\ Advance(d)
    /\ UNCHANGED <<sinkVars, bufferVars, lo, hi, mainVars>>

\* sendOne acknowledges a dead-lettered record itself
DeadAck(d) ==
    /\ step[d] = "deadack"
    /\ Acknowledge(at[d])
    /\ Advance(d)
    /\ UNCHANGED <<sinkVars, lo, hi, mainVars>>

ToAck(d) == (lo[d] + 1 .. hi[d]) \ Poison

\* commitWithRetry: Commit is FlushDue
Commit(d) ==
    /\ step[d] = "commit" /\ ToAck(d) # {}
    /\ Flush(d, FALSE)
    /\ Step(d, "committing")
    /\ UNCHANGED <<bufferVars, batchVars, tries, mainVars>>

\* a batch of dead-lettered records only has nothing to commit
SkipCommit(d) ==
    /\ step[d] = "commit" /\ ToAck(d) = {}
    /\ Forget(d)
    /\ UNCHANGED <<sinkVars, bufferVars, mainVars>>

Committed(d) ==
    /\ step[d] = "committing" /\ pc[d] = "idle" /\ ret[d] = "ok"
    /\ at' = [at EXCEPT ![d] = Min(ToAck(d))]
    /\ Step(d, "ack")
    /\ UNCHANGED <<sinkVars, bufferVars, lo, hi, tries, mainVars>>

\* deliverBatch acknowledges the next record of toAck
Ack(d) ==
    LET rest == {r \in ToAck(d) : r > at[d]} IN
    /\ step[d] = "ack"
    /\ Acknowledge(at[d])
    /\ \/ rest = {} /\ Forget(d)
       \/ /\ rest # {}
          /\ at' = [at EXCEPT ![d] = Min(rest)]
          /\ UNCHANGED <<step, lo, hi, tries>>
    /\ UNCHANGED <<sinkVars, mainVars>>

\* Buffer.Ack cannot save the cursor, which has moved all the same: DrainOnce
\* returns the error
AckFails(d) ==
    /\ step[d] \in {"deadack", "ack"}
    /\ Failing(d)
    /\ cursor' = at[d]
    /\ high' = IF at[d] > high THEN at[d] ELSE high
    /\ Leave(d)
    /\ UNCHANGED <<sinkMem, callVars, storeVars, crashes, sinkHist, appended, saved, dead,
                   stops>>

DrainStep(d) ==
    \/ NextBatch(d) \/ Send(d) \/ SendPoison(d) \/ PoisonCancelled(d) \/ Sent(d)
    \/ Retry(d, "sending") \/ Stall(d, "sending")
    \/ DeadLetter(d) \/ DeadAck(d)
    \/ Commit(d) \/ SkipCommit(d) \/ Committed(d)
    \/ Retry(d, "committing") \/ Stall(d, "committing")
    \/ Ack(d)

-----------------------------------------------------------------------------
(***************************************************************************)
(* Service.Run and Service.Shutdown.                                       *)
(***************************************************************************)
MainAt(where) == phase = where /\ pc[Main] = "idle"

MainGoto(where) == phase' = where /\ UNCHANGED stops

\* case <-flush.C
TickerFlush ==
    /\ MainAt("serving")
    /\ Flush(Main, FALSE)
    /\ UNCHANGED <<bufferVars, drainVars, mainVars>>

\* case <-ctx.Done(): the sources have stopped, drain begins
BeginDrain ==
    /\ MainAt("serving") /\ stops < MaxStops
    /\ phase' = "drain" /\ stops' = stops + 1
    /\ UNCHANGED <<sinkVars, bufferVars, drainVars>>

\* case <-errCh: a source failed; Run returns without draining
SourceFails ==
    /\ MainAt("serving") /\ stops < MaxStops
    /\ phase' = "cancel" /\ stops' = stops + 1
    /\ UNCHANGED <<sinkVars, bufferVars, drainVars>>

\* DrainOnce of Main finds the buffer empty, or its deadline has passed
EndDrain ==
    /\ MainAt("drain") /\ step[Main] = "idle"
    /\ MainGoto("flush")
    /\ UNCHANGED <<sinkVars, bufferVars, drainVars>>

\* drain: the final sink.Flush
DrainFlush ==
    /\ MainAt("flush")
    /\ Flush(Main, TRUE)
    /\ MainGoto("flushing")
    /\ UNCHANGED <<bufferVars, drainVars>>

\* Run returns: stopDelivery, then wait for the deliverer
StopDelivery ==
    /\ MainAt("flushing")
    /\ MainGoto("cancel")
    /\ UNCHANGED <<sinkVars, bufferVars, drainVars>>

DeliveryDone ==
    /\ MainAt("cancel") /\ step[Run] = "idle"
    /\ MainGoto("shutdown")
    /\ UNCHANGED <<sinkVars, bufferVars, drainVars>>

\* fault: Shutdown relies on the flush that drain has done
ShutdownFlushSkipped ==
    /\ MainAt("shutdown")
    /\ MainGoto("closing")
    /\ UNCHANGED <<sinkVars, bufferVars, drainVars>>

\* Service.Shutdown: sink.Shutdown flushes once more
ShutdownFlush ==
    /\ MainAt("shutdown")
    /\ Flush(Main, TRUE)
    /\ MainGoto("closing")
    /\ UNCHANGED <<bufferVars, drainVars>>

\* Service.Shutdown: buf.Close
CloseBuffer ==
    /\ MainAt("closing")
    /\ MainGoto("stopped")
    /\ saved' = cursor
    /\ UNCHANGED <<sinkVars, appended, cursor, high, dead, drainVars>>

NewProcess ==
    /\ phase' = "serving"
    /\ step' = [d \in Goroutines |-> "idle"]
    /\ lo' = [d \in Goroutines |-> 0]
    /\ hi' = [d \in Goroutines |-> 0]
    /\ at' = [d \in Goroutines |-> 0]
    /\ tries' = [d \in Goroutines |-> 0]
    /\ cursor' = saved
    /\ UNCHANGED <<appended, saved, high, dead, stops>>

Restart ==
    /\ phase = "stopped"
    /\ NewSink /\ UNCHANGED crashes
    /\ NewProcess

\* the process is killed and started again
Kill == phase # "stopped" /\ SinkCrash /\ NewProcess

MainStep ==
    \/ TickerFlush \/ EndDrain \/ DrainFlush \/ StopDelivery \/ DeliveryDone
    \/ ShutdownFlush \/ CloseBuffer

\* a step of a call on the sink that is in progress
InSink(A) == A /\ UNCHANGED <<bufferVars, drainVars, mainVars>>

Next ==
    \/ AppendRecord
    \/ \E d \in Goroutines : DrainStep(d) \/ DeadLetterFails(d) \/ AckFails(d)
    \/ \E d \in Goroutines : InSink(SinkStep(d)) \/ InSink(SinkFailure(d))
    \/ \E p \in Parts : InSink(Age(p))
    \/ MainStep \/ BeginDrain \/ SourceFails
    \/ Restart \/ Kill

(***************************************************************************)
(* The goroutines keep running and RollInterval passes.  Nothing is        *)
(* assumed of new records, failures, shutdowns, kills or restarts; a       *)
(* failing step is an alternative to the step that succeeds.               *)
(***************************************************************************)
Fairness ==
    /\ \A d \in Goroutines : WF_vars(DrainStep(d)) /\ WF_vars(InSink(SinkStep(d)))
    /\ WF_vars(MainStep)
    /\ \A p \in Parts : WF_vars(InSink(Age(p)))

Spec == Init /\ [][Next]_vars
FairSpec == Spec /\ Fairness

-----------------------------------------------------------------------------
(***************************************************************************)
(* The cursor never passes a record that neither the sink nor the          *)
(* dead-letter directory has taken, whatever fails, whichever goroutine    *)
(* acknowledges, and although the cursor may move back.                    *)
(***************************************************************************)
AckedWasTaken == \A r \in 1..cursor : r \in written \cup dead

(***************************************************************************)
(* While one goroutine delivers and nothing fails, nothing is sent twice:  *)
(* the ticker's flush, a dead-lettered record in the batch and records     *)
(* that arrive meanwhile leave each record in one place, and the reader    *)
(* has nothing to deduplicate.                                             *)
(***************************************************************************)
NoNeedlessDuplicates ==
    stops = 0 /\ errs = 0 /\ crashes = 0 => \A r \in Recs : Copies(r) <= 1

(***************************************************************************)
(* F-11.5: a graceful shutdown in which no store operation fails leaves    *)
(* nothing acknowledged behind in memory, although the deliverer keeps     *)
(* writing to the sink while the drain flushes it.                         *)
(***************************************************************************)
ShutdownLosesNothing ==
    phase = "stopped" /\ errs = 0 /\ crashes = 0 =>
        \A r \in 1..cursor : r \in Visible \cup dead

(***************************************************************************)
(* F-8.3: one poisonous record does not block the records behind it, and a *)
(* sink that recovers is delivered to: every record in the buffer is       *)
(* acknowledged in the end, unless the collector is stopped.               *)
(***************************************************************************)
QueueDrains ==
    \A r \in Recs : (appended >= r) ~> (high >= r \/ phase = "stopped")

(***************************************************************************)
(* F-9.5: the roll interval makes a low-traffic partition land in bounded  *)
(* time: what the sink holds becomes visible, unless a failed flush lets   *)
(* go of it or the process ends.                                           *)
(***************************************************************************)
RowsLand ==
    \A r \in Recs : (r \in written) ~>
        (r \in Visible \cup dropped \cup unlisted \cup crashLost \/ phase = "stopped")

(***************************************************************************)
(* delivery.go: Commit "must make it durable.  Records are acknowledged    *)
(* only once it returns, so a crash between the sink write and the commit  *)
(* redelivers rather than loses".                                          *)
(***************************************************************************)
AckedIsDurable == \A r \in 1..cursor : r \in Visible \cup dead
=============================================================================
