----------------------------- MODULE Lifecycle -----------------------------
(***************************************************************************)
(* How the process of the collector starts, runs and stops, with the       *)
(* source whose position outlives it: Service.Run, drain and Shutdown, the *)
(* marker of in-flight episodes (restartloss.go), the file tailer          *)
(* (source/filetail) and an HTTP handler.  The same service embedded in an *)
(* OpenTelemetry collector (RunBackground, trajectoryexporter) has neither *)
(* sources nor a marker: its host calls ConsumeTraces.                     *)
(*                                                                         *)
(* A line of the tailed file is two bytes long and holds a number of       *)
(* records (none: it is skipped); a record is an episode of its own, so    *)
(* assembly is a set of records that Add or Expire may close at any time.  *)
(* Sampling, quotas and processors are the subject of module Ingest, what  *)
(* the buffer does with a record that of DiskBuffer.                       *)
(***************************************************************************)
EXTENDS Integers, Sequences, FiniteSets

CONSTANTS
    Tail_, Http, Main,   \* goroutines: the tailer, a handler, Service.Run
    PerLine,             \* how many records each line holds, in the order of writing
    StartAt,             \* Options.StartAt: "end" or "beginning"
    RateLimited,         \* whether the tailer's source has a rate limit
    MaxEvents            \* bound: rotations, truncations, stops, kills and failures

ASSUME LifecycleAssumption ==
    /\ Cardinality({Tail_, Http, Main}) = 3
    /\ PerLine \in Seq(Nat)
    /\ StartAt \in {"end", "beginning"}
    /\ RateLimited \in BOOLEAN
    /\ MaxEvents \in Nat

Goroutines == {Tail_, Http, Main}
Lines == DOMAIN PerLine
Records(n) == {<<n, k>> : k \in 1 .. PerLine[n]}
Request == <<0, 1>>                  \* the record of the HTTP request
AllRecords == {Request} \cup UNION {Records(n) : n \in Lines}
Nowhere == [inode |-> 0, off |-> 0, gen |-> 0]   \* no entry in Tailer.offsets

VARIABLES
    files,      \* per inode, its complete lines
    cur,        \* the inode the path leads to
    written,    \* how many lines the writer has finished
    half,       \* the writer is in the middle of a line
    offsets,    \* Tailer.offsets of the path
    saved,      \* the offset file, or Fresh
    tl,         \* where the tailer is in Start, pollOnce and readFile
    http,       \* status of the request
    open,       \* records in assembly
    closing,    \* per goroutine, records it closed and takes to the buffer
    stored,     \* records in the buffer or the lake
    embedded,   \* whether this is the service of an exporter
    phase,      \* of Service.Run or RunBackground, and of Shutdown
    marker,     \* assembly.json: how many, and whether after a drain
    lossMetric, \* LostOnRestart
    counted,    \* history: the records the marker counts
    lost,       \* history: those of them the last process took with it
    killed,     \* history: records a process that did not drain took with it
    exited,     \* history: records a process that drained took with it
    late,       \* history: a handler was running when drain flushed assembly
    gen,        \* history: how often the content behind the path was replaced
    passed,     \* history: lines below an offset that counts other lines, or none
    events      \* how many of those there were

file == <<files, cur, written, half, gen>>
tailer == <<offsets, saved, tl, passed>>
assembly == <<open, closing, stored>>
process == <<embedded, phase, marker, lossMetric, counted, lost, killed, exited, late, events>>
vars == <<file, tailer, http, assembly, process>>

Fresh == [Nowhere EXCEPT !.inode = -1]           \* no offset file
At(pc) == [pc |-> pc, fd |-> 0, line |-> 0, rec |-> 1, pos |-> Nowhere]

-----------------------------------------------------------------------------
(* The file and what happens to it. *)

Size(i) == 2 * Len(files[i]) + IF half /\ i = cur THEN 1 ELSE 0

WriteHalf ==
    /\ ~half /\ written < Len(PerLine)
    /\ half' = TRUE
    /\ UNCHANGED <<files, cur, written, gen, tailer, http, assembly, process>>

WriteRest ==
    /\ half
    /\ half' = FALSE
    /\ written' = written + 1
    /\ files' = [files EXCEPT ![cur] = Append(@, written + 1)]
    /\ UNCHANGED <<cur, gen, tailer, http, assembly, process>>

(* Log rotation: the path leads to a new file. *)
Rotate ==
    /\ ~half /\ events < MaxEvents
    /\ events' = events + 1
    /\ cur' = cur + 1
    /\ files' = Append(files, <<>>)
    /\ gen' = gen + 1
    /\ UNCHANGED <<written, half, tailer, http, assembly, embedded, phase, marker, lossMetric,
                   counted, lost, killed, exited, late>>

(* copytruncate: the same file, empty. *)
Truncate ==
    /\ ~half /\ events < MaxEvents
    /\ events' = events + 1
    /\ files' = [files EXCEPT ![cur] = <<>>]
    /\ gen' = gen + 1
    /\ UNCHANGED <<cur, written, half, tailer, http, assembly, embedded, phase, marker,
                   lossMetric, counted, lost, killed, exited, late>>

-----------------------------------------------------------------------------
(* Add, and onEpisode of what it closes, in goroutine g. *)

\* fault: what is due at an Add is closed and not emitted
AddDropsDue(g, r) ==
    \E due \in SUBSET (open \cup {r}) :
        /\ open' = (open \cup {r}) \ due
        /\ UNCHANGED <<closing, stored>>

Add(g, r) ==
    \E due \in SUBSET (open \cup {r}) :
        /\ open' = (open \cup {r}) \ due
        /\ closing' = [closing EXCEPT ![g] = due]
        /\ UNCHANGED stored

Store(g) ==
    /\ \E r \in closing[g] :
         /\ stored' = stored \cup {r}
         /\ closing' = [closing EXCEPT ![g] = @ \ {r}]
    /\ UNCHANGED <<file, tailer, http, open, process>>

InMemory == open \cup UNION {closing[g] : g \in Goroutines}

-----------------------------------------------------------------------------
(* The tailer. *)

Listening == phase \in {"starting", "serving", "ticking", "failed"}
Polling == Listening \/ phase = "draining"

LinesBelow(i, off) == {files[i][k] : k \in {k \in DOMAIN files[i] : 2 * k <= off}}

(* Start: without an offset file the lines that are there are history, and so is the one
   that is being written. *)
TailStart ==
    /\ tl.pc = "down" /\ Polling /\ ~embedded
    /\ IF saved = Fresh /\ StartAt = "end"
       THEN /\ offsets' = [inode |-> cur, off |-> Size(cur), gen |-> gen]
            /\ saved' = offsets'
            /\ passed' = LinesBelow(cur, Size(cur)) \cup IF half THEN {written + 1} ELSE {}
       ELSE /\ offsets' = IF saved = Fresh THEN Nowhere ELSE saved
            /\ UNCHANGED <<saved, passed>>
    /\ tl' = At("wait")
    /\ UNCHANGED <<file, http, assembly, process>>

\* fault: only the size tells that the file is another one
SameSize == offsets.off <= Size(cur)

(* readFile: a new inode or a shrunken file is read from its beginning. *)
SameFile ==
    offsets.inode = cur /\ offsets.off <= Size(cur)

Stat ==
    /\ tl.pc = "wait" /\ Polling
    /\ LET from == IF SameFile THEN offsets.off ELSE 0
       IN /\ tl' = IF from = Size(cur) THEN At("save")
                   ELSE [At("open") EXCEPT !.pos = [inode |-> cur, off |-> from, gen |-> gen]]
          /\ passed' = IF offsets.gen = gen \/ offsets.inode # cur THEN passed
                       ELSE passed \cup LinesBelow(cur, from + 1)
    /\ UNCHANGED <<file, offsets, saved, http, assembly, process>>

(* The path may lead to another file by now. *)
OpenFile ==
    /\ tl.pc = "open"
    /\ tl' = [tl EXCEPT !.pc = "read", !.fd = cur]
    /\ UNCHANGED <<file, offsets, saved, passed, http, assembly, process>>

(* At ReadBytes, or with a line in hand: what the file holds by then is of no matter to it. *)
Reading == tl.pc = "read" /\ tl.line = 0 /\ closing[Tail_] = {}
InHand == tl.line # 0 /\ closing[Tail_] = {}
LineAt == tl.pos.off \div 2 + 1
HasLine == LineAt <= Len(files[tl.fd])
ThisLine == files[tl.fd][LineAt]
WholeRecord == tl.pos.off % 2 = 0 /\ PerLine[ThisLine] > 0

(* Ordinary log output, or the rest of a line that was being written at the start. *)
SkipLine ==
    /\ Reading /\ HasLine /\ ~WholeRecord
    /\ tl' = [tl EXCEPT !.pos.off = 2 * LineAt]
    /\ UNCHANGED <<file, offsets, saved, passed, http, assembly, process>>

ReadLine ==
    /\ Reading /\ HasLine /\ WholeRecord
    /\ tl' = [tl EXCEPT !.line = ThisLine]
    /\ UNCHANGED <<file, offsets, saved, passed, http, assembly, process>>

AcceptRecord ==
    /\ InHand
    /\ Add(Tail_, <<tl.line, tl.rec>>)
    /\ tl' = IF tl.rec < PerLine[tl.line] THEN [tl EXCEPT !.rec = @ + 1]
             ELSE [tl EXCEPT !.line = 0, !.rec = 1, !.pos.off = @ + 2]
    /\ UNCHANGED <<file, offsets, saved, passed, http, process>>

\* fault: a refused line is left behind
RefuseSkipsLine ==
    /\ InHand
    /\ offsets' = [tl.pos EXCEPT !.off = @ + 2]
    /\ tl' = At("wait")
    /\ UNCHANGED <<file, saved, passed, http, assembly, process>>

(* next refuses, under backpressure or over the rate limit: the poll ends before it saves,
   and the whole line is tried again. *)
RefuseRecord ==
    /\ InHand
    /\ offsets' = tl.pos
    /\ tl' = At("wait")
    /\ UNCHANGED <<file, saved, passed, http, assembly, process>>

(* The end of the file, or a line the writer has not finished. *)
EndOfFile ==
    /\ Reading /\ ~HasLine
    /\ offsets' = tl.pos
    /\ tl' = At("save")
    /\ UNCHANGED <<file, saved, passed, http, assembly, process>>

SaveState ==
    /\ tl.pc = "save"
    /\ saved' = offsets
    /\ tl' = At("wait")
    /\ UNCHANGED <<file, offsets, passed, http, assembly, process>>

(* ctx.Done: Start saves and returns. *)
TailReturn ==
    /\ tl.pc = "wait" /\ phase = "draining"
    /\ saved' = offsets
    /\ tl' = At("returned")
    /\ UNCHANGED <<file, offsets, passed, http, assembly, process>>

-----------------------------------------------------------------------------
(* An HTTP request, sent again when it was refused or its connection broke. *)

HttpReceive ==
    /\ http \in {"new", "refused"} /\ Listening
    /\ http' = "running"
    /\ UNCHANGED <<file, tailer, assembly, process>>

HttpReply ==
    /\ http = "running"
    /\ \/ http' = "adding" /\ Add(Http, Request)
       \/ http' = "refused" /\ UNCHANGED assembly
    /\ UNCHANGED <<file, tailer, process>>

HttpDone ==
    /\ http = "adding" /\ closing[Http] = {}
    /\ http' = "accepted"
    /\ UNCHANGED <<file, tailer, assembly, process>>

HandlerRuns == http \in {"running", "adding"}

-----------------------------------------------------------------------------
(* Service.Run.  Sources start before the marker of the previous process is read.
   RunBackground reads and writes none. *)

MarkerOf(n, clean) == [n |-> n, clean |-> clean]
WriteMarker(clean) == marker' = MarkerOf(Cardinality(open), clean) /\ counted' = open

(* reportPreviousLoss, then recordInFlight. *)
Report ==
    /\ phase = "starting" /\ ~embedded
    /\ phase' = "serving"
    /\ lossMetric' = IF marker.clean THEN 0 ELSE marker.n
    /\ WriteMarker(FALSE)
    /\ UNCHANGED <<file, tailer, http, assembly, embedded, lost, killed, exited, late, events>>

RunBackground ==
    /\ phase = "starting" /\ embedded
    /\ phase' = "serving"
    /\ UNCHANGED <<file, tailer, http, assembly, embedded, marker, lossMetric, counted, lost,
                   killed, exited, late, events>>

(* The ticker: Expire, the episodes it closes, and then recordInFlight. *)
Expire ==
    /\ phase = "serving"
    /\ phase' = "ticking"
    /\ \E due \in SUBSET open :
         open' = open \ due /\ closing' = [closing EXCEPT ![Main] = due]
    /\ UNCHANGED <<file, tailer, http, stored, embedded, marker, lossMetric, counted, lost,
                   killed, exited, late, events>>

RecordInFlight ==
    /\ phase = "ticking" /\ closing[Main] = {}
    /\ phase' = "serving"
    /\ IF embedded THEN UNCHANGED <<marker, counted>> ELSE WriteMarker(FALSE)
    /\ UNCHANGED <<file, tailer, http, assembly, embedded, lossMetric, lost, killed, exited,
                   late, events>>

Cancel ==
    /\ phase = "serving" /\ events < MaxEvents
    /\ phase' = "draining" /\ events' = events + 1
    /\ UNCHANGED <<file, tailer, http, assembly, embedded, marker, lossMetric, counted, lost,
                   killed, exited, late>>

\* fault: drain does not wait for the sources
NobodyAwaited == TRUE

(* wg.Wait returns when Start of every source has: the tailer's after its last poll, the
   one of a gRPC server after its handlers, that of an HTTP server when it is told to.
   RunBackground has nobody to wait for. *)
SourcesReturned == embedded \/ tl.pc = "returned"

(* drain, and RunBackground when it is cancelled: Flush closes everything in assembly. *)
Flushing ==
    /\ phase = "draining" /\ SourcesReturned
    /\ phase' = "flushed"
    /\ open' = {} /\ closing' = [closing EXCEPT ![Main] = open]
    /\ late' = (late \/ HandlerRuns)
    /\ UNCHANGED <<file, tailer, http, stored, embedded, lossMetric, counted, lost, killed,
                   exited, events>>

\* fault: the marker is written at the start of the drain, not when it returns
FlushAndMark == Flushing /\ marker' = MarkerOf(0, TRUE)

FlushAssembly == Flushing /\ UNCHANGED marker

(* The end of drain: recordInFlight(true). *)
MarkClean ==
    /\ phase = "flushed" /\ closing[Main] = {}
    /\ phase' = "closing"
    /\ IF embedded THEN UNCHANGED <<marker, counted>> ELSE WriteMarker(TRUE)
    /\ UNCHANGED <<file, tailer, http, assembly, embedded, lossMetric, lost, killed, exited,
                   late, events>>

(* A listener fails: Run returns without a drain. *)
SourceFails ==
    /\ ~embedded /\ phase = "serving" /\ events < MaxEvents
    /\ phase' = "failed" /\ events' = events + 1
    /\ UNCHANGED <<file, tailer, http, assembly, embedded, marker, lossMetric, counted, lost,
                   killed, exited, late>>

(* The process is gone, with what it has in memory. *)
EndProcess ==
    /\ phase' = "stopped"
    /\ lost' = IF phase = "starting" THEN lost ELSE counted \cap (InMemory \ stored)
    /\ open' = {} /\ closing' = [g \in Goroutines |-> {}]
    /\ tl' = At("down") /\ offsets' = Nowhere
    /\ http' = IF HandlerRuns THEN "refused" ELSE http
    /\ UNCHANGED <<file, passed, stored, embedded, marker, lossMetric, counted, late>>

(* Shutdown: it saves the tailer's offsets and waits for handlers up to a deadline. *)
Exit ==
    /\ \/ phase = "closing" /\ exited' = exited \cup (InMemory \ stored) /\ UNCHANGED killed
       \/ phase = "failed" /\ killed' = killed \cup (InMemory \ stored) /\ UNCHANGED exited
    /\ saved' = IF embedded THEN saved ELSE offsets
    /\ EndProcess
    /\ UNCHANGED events

(* Exporter.Shutdown at the deadline of its host: it closes the sink and the buffer while
   RunBackground is still at it. *)
ShutdownDeadline ==
    /\ embedded /\ phase \in {"draining", "flushed"} /\ events < MaxEvents
    /\ events' = events + 1
    /\ killed' = killed \cup (InMemory \ stored)
    /\ EndProcess
    /\ UNCHANGED <<saved, exited>>

Kill ==
    /\ phase # "stopped" /\ events < MaxEvents
    /\ events' = events + 1
    /\ killed' = killed \cup (InMemory \ stored)
    /\ EndProcess
    /\ UNCHANGED <<saved, exited>>

Restart ==
    /\ phase = "stopped"
    /\ phase' = "starting"
    /\ lossMetric' = 0
    /\ UNCHANGED <<file, tailer, http, assembly, embedded, marker, counted, lost, killed,
                   exited, late, events>>

-----------------------------------------------------------------------------
(* A behaviour has a writer or a request; an embedded service has only its host.  The
   writer may finish a line before the first process has started. *)
Init ==
    /\ \/ written = 0 /\ http = "absent" /\ embedded = FALSE
       \/ written = Len(PerLine) /\ http = "new" /\ embedded \in BOOLEAN
    /\ files = <<<<>>>> /\ cur = 1 /\ half = FALSE /\ gen = 1
    /\ offsets = Nowhere /\ saved = Fresh /\ tl = At("down") /\ passed = {}
    /\ open = {} /\ closing = [g \in Goroutines |-> {}] /\ stored = {}
    /\ phase = "starting" /\ marker = MarkerOf(0, TRUE) /\ lossMetric = 0
    /\ counted = {} /\ lost = {} /\ killed = {} /\ exited = {} /\ late = FALSE
    /\ events = 0

Writer == WriteHalf \/ WriteRest \/ Rotate \/ Truncate
Tailing == TailStart \/ Stat \/ OpenFile \/ SkipLine \/ ReadLine \/ AcceptRecord \/ EndOfFile
           \/ SaveState \/ TailReturn
Handling == HttpReceive \/ HttpReply \/ HttpDone
Run == Report \/ RunBackground \/ RecordInFlight \/ FlushAssembly \/ MarkClean \/ Exit \/ Restart

Next ==
    \/ Writer
    \/ Tailing \/ RefuseRecord
    \/ Handling
    \/ \E g \in Goroutines : Store(g)
    \/ Run \/ Expire \/ Cancel \/ SourceFails \/ Kill \/ ShutdownDeadline

Spec == Init /\ [][Next]_vars

(* Goroutines run, and a process that stopped is started again; select does not pass
   ctx.Done over for ever.  A record that is tried again and again gets in where only
   backpressure refuses it, because backpressure ends.  A rate limit may refuse it for ever:
   every try of a line takes the tokens for its records anew, and one that needs more than
   the bucket holds, or than it gains from one poll to the next, never has enough. *)
FairSpec ==
    /\ Spec
    /\ WF_vars(Tailing) /\ SF_vars(TailReturn) /\ WF_vars(Run)
    /\ ~RateLimited =>
         \A n \in Lines : \A k \in 1 .. PerLine[n] : SF_vars(tl.rec = k /\ AcceptRecord)
    /\ \A g \in Goroutines : WF_vars(Store(g))

-----------------------------------------------------------------------------
(* Properties. *)

C == INSTANCE Custody WITH Item <- AllRecords, held <- InMemory, lost <- killed \cup exited

\* The process keeps what it takes: no poll, handler, ticker, drain or failure of a listener
\* lets a record out of assembly that is not stored, except the end of the process
\* (service.go, Run and drain; module Custody is the promise).
CustodyKept == C!Spec

Taken == InMemory \cup stored \cup killed \cup exited

\* At least once across restarts: the records of a line below the saved offset are in
\* memory or stored, or a process took them with it, however polls, refusals half way
\* through a line, rotation, truncation, stops and kills fall (filetail.go, the package
\* comment).  An offset that survived a truncation it could not notice is outside of this.
SavedOffsetIsCovered ==
    saved.inode = cur /\ saved.gen = gen =>
        \A n \in LinesBelow(cur, saved.off) \ passed : Records(n) \subseteq Taken

\* A process that drained takes no record with it, unless an HTTP handler was still running
\* when assembly was flushed (service.go, drain: "nothing held in memory can be lost").
DrainedUnlessLate == exited # {} => late

\* What a process lost without a drain the next one reports: at least the episodes that
\* the marker counted and that then did not reach the buffer (restartloss.go: "an upper
\* bound on what was lost"), whenever the process died.  An embedded service reports nothing.
LossIsReported == ~embedded /\ phase \in {"serving", "ticking"} /\ ~late => lossMetric >= Cardinality(lost)

\* A complete line of the file gets in, through refusals, polls that race with the writer,
\* stops and kills, unless the file is rotated or truncated first (filetail.go, Start and
\* readFile).  A source with a rate limit is outside of this: a line it refuses for ever
\* holds up all the lines behind it.
LinesGetIn ==
    ~RateLimited =>
    \A n \in Lines :
        (\E k \in DOMAIN files[cur] : files[cur][k] = n)
        ~> \/ Records(n) \subseteq Taken
           \/ n \in passed
           \/ \A k \in DOMAIN files[cur] : files[cur][k] # n
=============================================================================
