------------------------------- MODULE Ingest -------------------------------
(***************************************************************************)
(* From a producer's request to a record in the buffer: the handlers of    *)
(* the native API, OTLP and webhook sources and of the exporter for the    *)
(* OpenTelemetry collector, Service.onEnvelope, what Service.onEpisode     *)
(* does with an assembled episode, reloads of the policy, outcomes, and a  *)
(* kill; and the commands cc import and cc outcomes, each a process of its *)
(* own that feeds a file to the same functions while the service, which    *)
(* would hold the lock of the buffer, does not run.  How the service stops *)
(* is the subject of module Lifecycle.                                     *)
(*                                                                         *)
(* Every request has a goroutine of its own; Main is that of Service.Run.  *)
(* Assembly is the subject of module Assembler: here an episode may close  *)
(* whenever Add or Expire looks at it, and a span of a closed episode      *)
(* becomes a patch.  The buffer is a set with a high-water mark, emptied   *)
(* by delivery; it may refuse a record below the mark, because the disk it *)
(* fills is not the backlog it reports (modules DiskBuffer and Delivery).  *)
(***************************************************************************)
EXTENDS Wire, FiniteSets, TLC

CONSTANTS
    Main,
    Producers,      \* who makes a request or runs a command
    Mixes,          \* what each of them asks for in one behaviour: Producers -> names
    Endpoint,       \* of a name, the handler it is for, or the kind of file to read
    Source,         \* the source its spans are of
    Body,           \* and its records, in order
    Limited,        \* the sources that have a rate limit
    Hash,           \* hashUnit, of a session key or an episode id a producer gave
    Scale,          \* rates are fractions of Scale
    Policies,       \* the policies a configuration file may hold
    Chunk,          \* outcomes that cc outcomes passes on at once
    HighWater,      \* pending records from which the buffer reports backpressure
    MaxFaults       \* bound on reloads, kills, commands run again and sessions forgotten

ASSUME IngestAssumption ==
    /\ Main \notin Producers
    /\ Scale \in Nat \ {0}
    /\ Chunk \in Nat \ {0}
    /\ HighWater \in Nat \ {0}
    /\ \A p \in Policies : p.burst \in Int

VARIABLES
    pol,         \* Service.pol
    tokens,      \* its token buckets
    req,         \* per producer, its request, the status of it and the next record of it
    open,        \* the assembler's in-flight episodes
    known,       \* the sessions it remembers as closed, with id and emitted spans
    work,        \* per goroutine, the episodes it closed and passes to onEpisode
    stage,       \* per goroutine, how far onEpisode is with the first of them
    buffer,      \* records the buffer holds for delivery
    lake,        \* the spans of the records delivered
    quarantined, \* the quarantine directory: episode id -> record
    named,       \* history: the sessions that were opened, with the ids of their episodes
    gone,        \* history: spans that were let go of, by reason
    inForce,     \* history: the policies that have been in force
    faults       \* reloads, kills, commands run again and sessions forgotten so far

memory == <<open, known, work, stage, named>>
records == <<buffer, lake, quarantined>>
vars == <<pol, tokens, req, memory, records, gone, inForce, faults>>

(* A request, with what its body comes to: envelopes, and Malformed where a record does not
   convert. *)
Request(name) ==
    [endpoint |-> Endpoint[name], src |-> Source[name], st |-> "new", at |-> 0,
     stream |-> Convert(Endpoint[name], Source[name], Body[name])]

(* A body comes to a list, and sessions are not named after batches of outcomes, which are
   recorded under their producer here. *)
ASSUME BodiesAssumption ==
    \A mix \in Mixes, q \in Producers :
        LET stream == Request(mix[q]).stream
        IN /\ stream \in Seq(Range(stream))
           /\ \A e \in Range(stream) \ {Malformed} : e.session \notin Producers

(* The requests that are commands, by what they read. *)
Imports == {q \in Producers : req[q].endpoint \in {"native", "langfuse", "langsmith", "phoenix"}}
OutcomeFiles == {q \in Producers : req[q].endpoint \in {"json", "csv"}}
Commands == Imports \cup OutcomeFiles

Goroutines == Producers \cup {Main}
Reasons == {"sampled", "dropped", "killed"}

-----------------------------------------------------------------------------
(* The configuration file.  Load refuses rates that are none, a bucket without tokens, head
   and tail rates that multiply, and redaction rules that do not compile or lack a key. *)

IsRate(x) == x \in 0 .. Scale

ValidateSources(p) == p.burst > 0 /\ \A s \in DOMAIN p.bySource : IsRate(p.bySource[s])

ValidateRedaction(p) == "invalid" \notin Range(p.redactors) \cup {p.redactor}

ValidateSampling(p) ==
    /\ IsRate(p.head) /\ IsRate(p.otherwise)
    /\ p.head = Scale \/ p.otherwise = Scale

Load(p) == ValidateSources(p) /\ ValidateRedaction(p) /\ ValidateSampling(p)

(* buildPolicy: expressions of keep_if and of entities, which Validate does not look into,
   must compile as well. *)
BuildPolicy(p) == p.compiles

FullBuckets(p) == [s \in Limited |-> p.burst]

-----------------------------------------------------------------------------
(* Sampling. *)

Decide(rate, key) == Hash[key] < rate

HeadRate(p, src) == IF src \in DOMAIN p.bySource THEN p.bySource[src] ELSE p.head

\* fault: the hash is of the span rather than of the session
HeadKeepSpan(p, e) == Decide(HeadRate(p, e.src), e.span)

HeadKeep(p, e) == Decide(HeadRate(p, e.src), e.session)

(* Episode.Error: absorb keeps the error of a span; a patch has none. *)
HasError(r) == ~r.patch /\ \E e \in r.spans : e.err

(* keep_if rules come first; this one is has_error.  The rate goes by the episode id. *)
TailKeep(p, r) == (p.keepErrors /\ HasError(r)) \/ r.id.place < p.otherwise

-----------------------------------------------------------------------------
(* The assembler as this module needs it.  An episode has the id that the envelope which
   opened its session names, or a fresh one (Options.NewID): the nth of the session.  The
   place of an id is what hashUnit makes of it. *)

EpisodeIDs(e) ==
    IF e.episode # "" THEN {[name |-> e.episode, nth |-> 0, place |-> Hash[e.episode]]}
    ELSE LET nth == 1 + Cardinality({n \in named : n.session = e.session})
         IN {[name |-> e.session, nth |-> nth, place |-> place] : place \in 0 .. Scale - 1}

Record(e, id, patch) ==
    [session |-> e.session, id |-> id, src |-> e.src, spans |-> {e}, patch |-> patch]

Opened == {r.session : r \in open}
SpanIDs(r) == {<<r.session, e.span>> : e \in r.spans}
IDs(rs) == UNION {SpanIDs(r) : r \in rs}
Held == IDs(open \cup UNION {Range(work[g]) : g \in Goroutines})
Stored == IDs(buffer) \cup lake

LetGo(reason, ids) == gone' = [gone EXCEPT ![reason] = @ \cup ids]

(* Goroutine g closes the episodes of due out of those of eps, which have a session each. *)
CloseDue(g, eps, due) ==
    /\ open' = eps \ due
    /\ known' = [s \in DOMAIN known \cup {r.session : r \in due} |->
                   IF s \in {r.session : r \in due}
                   THEN LET r == CHOOSE r \in due : r.session = s
                        IN [id |-> r.id, spans |-> SpanIDs(r)]
                   ELSE known[s]]
    /\ work' = [work EXCEPT ![g] = SetToSeq(due)]

(* absorb, unless the span is in the episode already. *)
Absorb(r, e) ==
    IF <<r.session, e.span>> \in SpanIDs(r) THEN r ELSE [r EXCEPT !.spans = @ \cup {e}]

(* Add for the envelope e. *)
Add(g, e) ==
    \/ /\ e.session \in Opened
       /\ LET eps == {IF r.session = e.session THEN Absorb(r, e) ELSE r : r \in open}
          IN \E due \in SUBSET eps : CloseDue(g, eps, due)
       /\ UNCHANGED named
    \/ /\ e.session \notin Opened /\ e.session \notin DOMAIN known
       /\ \E id \in EpisodeIDs(e) :
            LET eps == open \cup {Record(e, id, FALSE)}
            IN /\ \E due \in SUBSET eps : CloseDue(g, eps, due)
               /\ named' = named \cup {[session |-> e.session, id |-> id]}
    \/ /\ e.session \in DOMAIN known
       /\ <<e.session, e.span>> \notin known[e.session].spans
       /\ known' = [known EXCEPT ![e.session].spans = @ \cup {<<e.session, e.span>>}]
       /\ work' = [work EXCEPT ![g] = <<Record(e, known[e.session].id, TRUE)>>]
       /\ UNCHANGED <<open, named>>
    \/ /\ e.session \in DOMAIN known
       /\ <<e.session, e.span>> \in known[e.session].spans
       /\ UNCHANGED <<open, known, work, named>>

-----------------------------------------------------------------------------
(* Service.onEnvelope, the Next of every source. *)

\* fault: records that were delivered still count
UnderBackpressureOnDisk == Cardinality(buffer) + Cardinality(lake) >= HighWater

UnderBackpressure == Cardinality(buffer) >= HighWater

Allow(src) == src \in Limited => tokens[src] > 0
TakeToken(src) ==
    tokens' = IF src \in Limited THEN [tokens EXCEPT ![src] = @ - 1] ELSE tokens

(* buffer.Open fails when another process has the lock. *)
Locked == \E q \in Commands : req[q].st = "running"

Moved(r, st, at) == [r EXCEPT !.st = st, !.at = at]
Goto(q, st, at) == req' = [req EXCEPT ![q] = Moved(req[q], st, at)]

(* The handler of q is about to pass the record at its position on. *)
Offering(q) ==
    /\ q \notin OutcomeFiles
    /\ req[q].st = "running"
    /\ work[q] = <<>>
    /\ req[q].at \in DOMAIN req[q].stream
    /\ req[q].stream[req[q].at] # Malformed

Current(q) == req[q].stream[req[q].at]
Advance(q) == Goto(q, "running", req[q].at + 1)

HeadSampled(q) ==
    /\ Offering(q)
    /\ ~HeadKeep(pol, Current(q))
    /\ Advance(q)
    /\ LetGo("sampled", {<<Current(q).session, Current(q).span>>})
    /\ UNCHANGED <<pol, tokens, memory, records, inForce, faults>>

(* The token is taken before the buffer is asked. *)
Refused(src) ==
    \/ ~Allow(src) /\ UNCHANGED tokens
    \/ Allow(src) /\ UnderBackpressure /\ TakeToken(src)

\* fault: a record refused under backpressure is skipped, and the rest acknowledged
SkipUnderBackpressure(q) ==
    /\ q \notin Commands
    /\ Offering(q)
    /\ HeadKeep(pol, Current(q))
    /\ \/ ~Allow(Current(q).src) /\ Goto(q, "refused", 0) /\ UNCHANGED tokens
       \/ /\ Allow(Current(q).src) /\ UnderBackpressure
          /\ Advance(q) /\ TakeToken(Current(q).src)
    /\ UNCHANGED <<pol, memory, records, gone, inForce, faults>>

(* Over quota (429) or under backpressure (503): the whole request is refused, and its
   producer sends all of it again. *)
Refuse(q) ==
    /\ q \notin Commands
    /\ Offering(q)
    /\ HeadKeep(pol, Current(q))
    /\ Refused(Current(q).src)
    /\ Goto(q, "refused", 0)
    /\ UNCHANGED <<pol, memory, records, gone, inForce, faults>>

Accept(q) ==
    /\ Offering(q)
    /\ HeadKeep(pol, Current(q))
    /\ Allow(Current(q).src)
    /\ ~UnderBackpressure
    /\ TakeToken(Current(q).src)
    /\ Add(q, Current(q))
    /\ Advance(q)
    /\ UNCHANGED <<pol, stage, records, gone, inForce, faults>>

-----------------------------------------------------------------------------
(* The handlers.  Spans and callbacks are converted before the first one is passed on;
   episodes are converted one after the other; a span of OTLP always converts. *)

WholeBodyFirst == {"spans", "hook"}

Receive(q, endpoint) ==
    /\ req[q].endpoint = endpoint
    /\ req[q].st \in {"new", "refused"} /\ ~Locked
    /\ UNCHANGED <<pol, tokens, memory, records, gone, inForce, faults>>

ConvertAll(q) ==
    IF Malformed \in Range(req[q].stream) THEN Goto(q, "rejected", 0) ELSE Goto(q, "running", 1)

HandleEpisodes(q) == Receive(q, "episodes") /\ Goto(q, "running", 1)
HandleSpans(q) == Receive(q, "spans") /\ ConvertAll(q)
HandleTraces(q) == Receive(q, "traces") /\ Goto(q, "running", 1)
ConsumeTraces(q) == Receive(q, "exporter") /\ Goto(q, "running", 1)

\* fault: calls are passed on while the ones behind them are still to be mapped
HandleHookOneByOne(q) == Receive(q, "hook") /\ Goto(q, "running", 1)

HandleHook(q) == Receive(q, "hook") /\ ConvertAll(q)

(* 400 for a record in the middle of the body, or 202 at its end. *)
Reply(q) ==
    /\ q \notin Commands
    /\ req[q].st = "running"
    /\ work[q] = <<>>
    /\ \/ /\ req[q].at \in DOMAIN req[q].stream /\ req[q].stream[req[q].at] = Malformed
          /\ Goto(q, "rejected", 0)
       \/ /\ req[q].at \notin DOMAIN req[q].stream
          /\ Goto(q, "accepted", 0)
    /\ UNCHANGED <<pol, tokens, memory, records, gone, inForce, faults>>

(* handleOutcomes and IngestOutcomes: one token and one record for all outcomes of a
   request; validation and the transformation of the keys, by the global redactor, come
   after the token is taken. *)
OutcomesOf(q, outcomes) ==
    [session |-> q, id |-> q, src |-> req[q].src, spans |-> Range(outcomes), patch |-> FALSE]

Acceptable(outcomes) == Malformed \notin Range(outcomes) /\ pol.redactor # "fails"

IngestOutcomes(q, outcomes, answer) ==
    \/ Refused(req[q].src) /\ answer = "refused" /\ UNCHANGED buffer
    \/ /\ Allow(req[q].src) /\ ~UnderBackpressure /\ TakeToken(req[q].src)
       /\ \/ ~Acceptable(outcomes) /\ answer = "rejected" /\ UNCHANGED buffer
          \/ Acceptable(outcomes) /\ answer = "refused" /\ UNCHANGED buffer
          \/ /\ Acceptable(outcomes) /\ answer = "accepted"
             /\ buffer' = buffer \cup {OutcomesOf(q, outcomes)}

HandleOutcomes(q) ==
    /\ req[q].endpoint = "outcomes"
    /\ req[q].st \in {"new", "refused"} /\ ~Locked
    /\ \E answer \in {"refused", "rejected", "accepted"} :
         IngestOutcomes(q, req[q].stream, answer) /\ Goto(q, answer, 0)
    /\ UNCHANGED <<pol, memory, lake, quarantined, gone, inForce, faults>>

-----------------------------------------------------------------------------
(* Service.onEpisode: the goroutine that closed the episode runs it through the
   processors, tail sampling and the buffer, under the policy it read first. *)

NoPolicy == [id |-> 0]

Episode(g) == Head(work[g])

Finish(g) ==
    /\ work' = [work EXCEPT ![g] = Tail(@)]
    /\ stage' = [stage EXCEPT ![g] = NoPolicy]
    /\ UNCHANGED <<open, known, named>>

(* redactorFor: the override of the source or the global one.  A redactor that is built
   works or fails, as its detector does. *)
RedactorFor(p, src) == IF src \in DOMAIN p.redactors THEN p.redactors[src] ELSE p.redactor

Redact(g) ==
    /\ work[g] # <<>> /\ stage[g] = NoPolicy
    /\ RedactorFor(pol, Episode(g).src) # "fails"
    /\ stage' = [stage EXCEPT ![g] = pol]
    /\ UNCHANGED <<pol, tokens, req, open, known, work, named, records, gone, inForce, faults>>

(* A processor fails: the episode goes to a file named after its id, over one that has
   that name. *)
Quarantine(g) ==
    /\ work[g] # <<>> /\ stage[g] = NoPolicy
    /\ RedactorFor(pol, Episode(g).src) = "fails"
    /\ quarantined' = [i \in DOMAIN quarantined \cup {Episode(g).id} |->
                         IF i = Episode(g).id THEN Episode(g) ELSE quarantined[i]]
    /\ IF Episode(g).id \in DOMAIN quarantined
       THEN LetGo("dropped", SpanIDs(quarantined[Episode(g).id]))
       ELSE UNCHANGED gone
    /\ Finish(g)
    /\ UNCHANGED <<pol, tokens, req, buffer, lake, inForce, faults>>

(* Tail sampling, and buf.Append of what it keeps: a record that is refused is logged and
   dropped, although its spans were acknowledged. *)
Keep(g) ==
    /\ stage[g] # NoPolicy
    /\ \/ /\ ~TailKeep(stage[g], Episode(g))
          /\ LetGo("sampled", SpanIDs(Episode(g))) /\ UNCHANGED buffer
       \/ /\ TailKeep(stage[g], Episode(g))
          /\ buffer' = buffer \cup {Episode(g)} /\ UNCHANGED gone
       \/ /\ TailKeep(stage[g], Episode(g))
          /\ LetGo("dropped", SpanIDs(Episode(g)) \ Stored) /\ UNCHANGED buffer
    /\ Finish(g)
    /\ UNCHANGED <<pol, tokens, req, lake, quarantined, inForce, faults>>

Deliver ==
    /\ ~Locked
    /\ \E r \in buffer : buffer' = buffer \ {r} /\ lake' = lake \cup SpanIDs(r)
    /\ UNCHANGED <<pol, tokens, req, memory, quarantined, gone, inForce, faults>>

-----------------------------------------------------------------------------
(* cc import and cc outcomes.  A command that failed may be run again; its process takes
   what it held in memory with it. *)

Forget ==
    /\ LetGo("killed", Held \ Stored)
    /\ open' = {} /\ known' = <<>>
    /\ work' = [g \in Goroutines |-> <<>>] /\ stage' = [g \in Goroutines |-> NoPolicy]
    /\ UNCHANGED named

(* The service was stopped before, and has passed on all it had. *)
StartCommand(q) ==
    /\ \A other \in Producers : req[other].st # "running"
    /\ open = {} /\ \A g \in Goroutines : work[g] = <<>>
    /\ \/ req[q].st = "new" /\ UNCHANGED faults
       \/ req[q].st = "failed" /\ faults < MaxFaults /\ faults' = faults + 1
    /\ known' = <<>> /\ tokens' = FullBuckets(pol)
    /\ UNCHANGED <<pol, open, work, stage, named, records, gone, inForce>>

CmdImport(q) == q \in Imports /\ StartCommand(q) /\ Goto(q, "running", 1)

(* readOutcomeFile: every row of a CSV file must be right before the first is passed on. *)
ReadOutcomeFile(q) == req[q].endpoint = "csv" => ReadOutcomesCSV(req[q].stream)

CmdOutcomes(q) ==
    /\ q \in OutcomeFiles
    /\ StartCommand(q)
    /\ IF ReadOutcomeFile(q) THEN Goto(q, "running", 1) ELSE Goto(q, "failed", 0)

(* The importer gets an error for a record, and gives up. *)
ImportRefused(q) ==
    /\ q \in Imports
    /\ Offering(q)
    /\ HeadKeep(pol, Current(q))
    /\ Refused(Current(q).src)
    /\ Goto(q, "failed", 0)
    /\ Forget
    /\ UNCHANGED <<pol, records, inForce, faults>>

(* At the end of the file every episode still open is closed. *)
ImportFlush(q) ==
    /\ q \in Imports /\ req[q].st = "running"
    /\ work[q] = <<>>
    /\ req[q].at = Len(req[q].stream) + 1
    /\ CloseDue(q, open, open)
    /\ Advance(q)
    /\ UNCHANGED <<pol, tokens, stage, named, records, gone, inForce, faults>>

(* LoadOutcomes: one record for every Chunk outcomes; the first chunk that is not accepted
   ends the command, and the ones before it stay. *)
LoadOutcomes(q) ==
    /\ q \in OutcomeFiles
    /\ req[q].st = "running" /\ req[q].at <= Len(req[q].stream)
    /\ LET part == SubSeq(req[q].stream, req[q].at, Min({req[q].at + Chunk - 1, Len(req[q].stream)}))
       IN \E answer \in {"refused", "rejected", "accepted"} :
            /\ IngestOutcomes(q, part, answer)
            /\ IF answer = "accepted" THEN Goto(q, "running", req[q].at + Chunk)
               ELSE Goto(q, "failed", 0)
    /\ UNCHANGED <<pol, memory, lake, quarantined, gone, inForce, faults>>

(* DrainOnce and the last flush.  A stalled destination ends the drain without an error,
   and the command reports success with records still in the buffer. *)
DrainOnce(q) ==
    /\ q \in Commands /\ req[q].st = "running" /\ work[q] = <<>>
    /\ req[q].at > Len(req[q].stream) + (IF q \in Imports THEN 1 ELSE 0)
    /\ \E done \in SUBSET buffer : buffer' = buffer \ done /\ lake' = lake \cup IDs(done)
    /\ Goto(q, "accepted", 0) \/ Goto(q, "failed", 0)
    /\ Forget
    /\ UNCHANGED <<pol, tokens, quarantined, inForce, faults>>

-----------------------------------------------------------------------------
(* The policy and its quotas. *)

Refill ==
    /\ \E s \in Limited :
         /\ tokens[s] < pol.burst
         /\ tokens' = [tokens EXCEPT ![s] = @ + 1]
    /\ UNCHANGED <<pol, req, memory, records, gone, inForce, faults>>

(* Reload: a file that cannot be loaded or a policy that does not build changes nothing;
   another one replaces the current one whole, with full buckets. *)
Reload ==
    /\ ~Locked
    /\ faults < MaxFaults
    /\ \E p \in Policies :
         /\ p # pol
         /\ \/ ~Load(p) /\ UNCHANGED <<pol, tokens, inForce, faults>>
            \/ Load(p) /\ ~BuildPolicy(p) /\ UNCHANGED <<pol, tokens, inForce, faults>>
            \/ /\ Load(p) /\ BuildPolicy(p) /\ faults' = faults + 1
               /\ pol' = p /\ tokens' = FullBuckets(p) /\ inForce' = inForce \cup {p}
    /\ UNCHANGED <<req, memory, records, gone>>
-----------------------------------------------------------------------------
(* What the ticker of Service.Run closes; and a kill, with the start of the next process:
   what is in memory is gone, and producers whose connection broke send again. *)

Expire ==
    /\ ~Locked /\ work[Main] = <<>>
    /\ \E due \in (SUBSET open) \ {{}} : CloseDue(Main, open, due)
    /\ UNCHANGED <<pol, tokens, req, stage, named, records, gone, inForce, faults>>

(* rememberEmitted: sessions that close later, here those of other producers, push one out
   of the memory for patches. *)
RememberEmitted ==
    /\ faults < MaxFaults
    /\ \E s \in DOMAIN known : known' = Restrict(known, DOMAIN known \ {s})
    /\ faults' = faults + 1
    /\ UNCHANGED <<pol, tokens, req, open, work, stage, named, records, gone, inForce>>

Kill ==
    /\ faults < MaxFaults
    /\ faults' = faults + 1
    /\ Forget
    /\ req' = [q \in Producers |->
                 IF req[q].st # "running" THEN req[q]
                 ELSE Moved(req[q], IF q \in Commands THEN "failed" ELSE "refused", 0)]
    /\ tokens' = FullBuckets(pol)
    /\ UNCHANGED <<pol, records, inForce>>

-----------------------------------------------------------------------------
Init ==
    /\ \E p \in Policies : Load(p) /\ BuildPolicy(p) /\ pol = p /\ inForce = {p} /\ tokens = FullBuckets(p)
    /\ \E mix \in Mixes :
         req = [q \in Producers |-> Request(mix[q])]
    /\ open = {} /\ known = <<>>
    /\ work = [g \in Goroutines |-> <<>>] /\ stage = [g \in Goroutines |-> NoPolicy]
    /\ buffer = {} /\ lake = {} /\ quarantined = <<>> /\ named = {}
    /\ gone = [r \in Reasons |-> {}]
    /\ faults = 0

Handle(q) ==
    \/ HandleEpisodes(q) \/ HandleSpans(q) \/ HandleHook(q)
    \/ HandleTraces(q) \/ ConsumeTraces(q)
    \/ HeadSampled(q) \/ Refuse(q) \/ Accept(q) \/ Reply(q)
RunCommand(q) == ImportRefused(q) \/ ImportFlush(q) \/ LoadOutcomes(q) \/ DrainOnce(q)
OnEpisode(g) == Redact(g) \/ Quarantine(g) \/ Keep(g)

Next ==
    \/ \E q \in Producers : Handle(q) \/ HandleOutcomes(q)
                            \/ CmdImport(q) \/ CmdOutcomes(q) \/ RunCommand(q)
    \/ \E g \in Goroutines : OnEpisode(g)
    \/ Deliver \/ Refill \/ Reload
    \/ Expire \/ RememberEmitted \/ Kill

Spec == Init /\ [][Next]_vars

(* Goroutines and commands run, delivery goes on, and a producer that was refused sends its
   request again. *)
FairSpec ==
    /\ Spec
    /\ \A q \in Producers : WF_vars(Handle(q) \/ RunCommand(q))
    /\ \A g \in Goroutines : WF_vars(OnEpisode(g))
    /\ WF_vars(Deliver)

-----------------------------------------------------------------------------
(* Properties. *)

Accounted == Held \cup Stored \cup IDs(Range(quarantined)) \cup UNION Range(gone)

\* What became of the spans of a request or an import that ended with success is known, through
\* refusals, reloads and restarts: each is in assembly or on its way through onEpisode, in
\* the buffer, in the lake or in a quarantine file, or was let go of for a reason that is
\* counted or logged (service.go, onEnvelope and onEpisode; outcomes.go).
AcceptedAccounted ==
    \A q \in Producers : req[q].st = "accepted" =>
        IF req[q].endpoint = "outcomes" \/ q \in OutcomeFiles
        THEN SpanIDs(OutcomesOf(q, req[q].stream)) \subseteq Stored
        ELSE \A e \in Range(req[q].stream) : <<e.session, e.span>> \in Accounted

\* A request that is answered with 400 by a handler that converts the whole body first
\* (native spans, callbacks) has left nothing behind: no span of it is anywhere, unless
\* another request brought it.
RejectedLeavesNothing ==
    \A q \in Producers : req[q].st = "rejected" /\ req[q].endpoint \in WholeBodyFirst =>
        \A e \in Range(req[q].stream) \ {Malformed} :
            \/ \E other \in Producers \ {q} : \E f \in Range(req[other].stream) \ {Malformed} :
                   f.session = e.session /\ f.span = e.span
            \/ <<e.session, e.span>> \notin Accounted

Envelopes == UNION {Range(req[q].stream) \ {Malformed} : q \in Producers}
SourcesOf(session) == {e.src : e \in {x \in Envelopes : x.session = session}}

(* A tail rate draws the same for all episodes of a session. *)
DrawsAlike(session, rate) ==
    \A n1, n2 \in {n \in named : n.session = session} :
        n1.id.place < rate <=> n2.id.place < rate

(* The rates in force differ for a session, keep_if may keep what its rate drops, or its
   episodes, of which there are several when it was opened again, draw apart. *)
MaySplit(session) ==
    \/ \E p \in inForce : p.keepErrors
    \/ \E p1, p2 \in inForce : p1.otherwise # p2.otherwise
    \/ \E p1, p2 \in inForce, s1, s2 \in SourcesOf(session) : HeadRate(p1, s1) # HeadRate(p2, s2)
    \/ \E p \in inForce : ~DrawsAlike(session, p.otherwise)

\* Sampling never splits a session: unless a reload changed its rate, its spans come from
\* sources of different rates, a keep_if rule applies, or it was opened again after a restart
\* or past the memory for patches, under an id that the tail rate treats otherwise, no span
\* of it is stored when another was sampled out (sample.go, the package comment; onEnvelope).
SamplingNeverSplits ==
    \A i \in gone["sampled"] :
        i[1] \in {j[1] : j \in Stored} => MaySplit(i[1])

Unlimited(q) == /\ q \notin Commands /\ req[q].endpoint # "outcomes"
                /\ req[q].src \notin Limited
                /\ Malformed \notin Range(req[q].stream)

\* A producer that keeps resending what was refused gets in at the end, if its source has
\* no rate limit and its records convert (native.go and otlp.go, 503 and Retry-After).
RefusedThenAccepted ==
    \A q \in Producers : Unlimited(q) /\ req[q].st = "refused" ~> req[q].st = "accepted"
=============================================================================
