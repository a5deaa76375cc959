----------------------------- MODULE Assembler -----------------------------
(***************************************************************************)
(* Assembly of observations into episodes (collector/assemble) and the     *)
(* reader's view of what it emitted (pkg/lakeread).                        *)
(*                                                                         *)
(* Source goroutines call Add, the main loop calls Expire on a ticker and  *)
(* Flush at shutdown.  Each of them changes the open set under the lock    *)
(* and emits after releasing it, so what a goroutine has closed and not    *)
(* yet emitted (ready) is state of its own.                                *)
(*                                                                         *)
(* Times are ages: idle is the time since lastSeen, settle the time since  *)
(* terminalAt, each counted up to the deadline it is compared with.        *)
(***************************************************************************)
EXTENDS Integers, Sequences, FiniteSets

CONSTANTS
    Sources,              \* goroutines that call Add
    Main,                 \* the goroutine of Service.Run
    Envelopes,            \* the observations producers send, again and again
    Window,               \* Options.Window
    SettleAfterTerminal,  \* Options.SettleAfterTerminal
    MaxInFlight,          \* Options.MaxInFlight
    PatchMemory,          \* Options.PatchMemory
    MaxEpisodes,          \* bound: episodes opened, over all processes
    MaxStops              \* bound: process ends

None == 0                 \* an empty string or a nil pointer
NotTerminal == -1         \* the zero terminalAt

Goroutines == Sources \cup {Main}

(* pipeline.Envelope, without payload and metadata.  Session keys, episode ids and
   span ids are positive; parentIdx is the index the producer wrote into the step
   itself. *)
Envelope ==
    [session: Nat, id: Nat, span: Nat, parent: Nat, parentIdx: Int,
     started: Nat, ended: Nat, terminal: BOOLEAN]

NoIdx == -1               \* a nil ParentIdx

(* config.Validate refuses a settle time that is not shorter than the window. *)
ASSUME AssemblyOptions ==
    /\ Main \notin Sources
    /\ Envelopes \subseteq Envelope
    /\ Window \in Nat \ {0}
    /\ SettleAfterTerminal \in Nat /\ SettleAfterTerminal < Window
    /\ MaxInFlight \in Nat \ {0}
    /\ PatchMemory \in Nat \ {0}
    /\ MaxEpisodes \in Nat
    /\ MaxStops \in Nat

VARIABLES
    order,      \* Assembler.open and order: the in-flight episodes, oldest first
    memory,     \* emitted, emittedFIFO and emittedSpans, in insertion order
    patchIdx,   \* Assembler.patchIdx
    opened,     \* episodes opened so far, which makes the ids of NewID unique
    ready,      \* per goroutine, what it has closed and still has to emit
    stops,      \* process ends so far
    phase,      \* "running" or "stopped"
    out,        \* what Emit received
    owed,       \* history: the spans Add took, without those a kill took
    forgotten   \* history: the sessions dropped from memory

vars == <<order, memory, patchIdx, opened, ready, stops, phase, out,
          owed, forgotten>>

-----------------------------------------------------------------------------
(* Identity of spans. *)

(* A span without an id is known by its content; here its start stands for it. *)
SyntheticSpanID(e) == -(e.started + 1)

SpanKey(e) == IF e.span # None THEN e.span ELSE SyntheticSpanID(e)

(* Ids made by NewID are negative; opening an episode takes at most two. *)
NewSessionKey == -(2 * opened + 1)
NewEpisodeID == -(2 * opened + 2)

KeysIn(seq) == {seq[i].key : i \in DOMAIN seq}

(* The map m with v under k. *)
Put(m, k, v) == [j \in DOMAIN m \cup {k} |-> IF j = k THEN v ELSE m[j]]

(* The elements of seq at the positions of at, in their order. *)
Picked(seq, at) ==
    LET positions == CHOOSE f \in [1 .. Cardinality(at) -> at] :
                         \A i, j \in DOMAIN f : i < j => f[i] < f[j]
    IN [i \in DOMAIN positions |-> seq[positions[i]]]

-----------------------------------------------------------------------------
(* One in-flight episode. *)

NewInFlight(key, id) ==
    [key |-> key, id |-> id, idle |-> 0, settle |-> NotTerminal,
     started |-> 0, ended |-> 0, spans |-> <<>>]

\* fault: the latest sighting of a span replaces the earlier one
AbsorbKeepsLast(f, e) ==
    [f EXCEPT !.idle = 0,
              !.spans = Put(@, SpanKey(e), e),
              !.settle = IF e.terminal /\ @ = NotTerminal THEN 0 ELSE @,
              !.started = IF e.started > 0 /\ (@ = 0 \/ e.started < @)
                          THEN e.started ELSE @,
              !.ended = IF e.ended > @ THEN e.ended ELSE @]

\* fault: each terminal marker restarts the settle time
AbsorbRestartsSettle(f, e) ==
    LET k == SpanKey(e)
        keep == k \in DOMAIN f.spans /\ f.spans[k].started <= e.started
    IN [f EXCEPT !.idle = 0,
                 !.spans = IF keep THEN @ ELSE Put(@, k, e),
                 !.settle = IF e.terminal THEN 0 ELSE @,
                 !.started = IF e.started > 0 /\ (@ = 0 \/ e.started < @)
                             THEN e.started ELSE @,
                 !.ended = IF e.ended > @ THEN e.ended ELSE @]

Absorb(f, e) ==
    LET k == SpanKey(e)
        keep == k \in DOMAIN f.spans /\ f.spans[k].started <= e.started
    IN [f EXCEPT !.idle = 0,
                 !.spans = IF keep THEN @ ELSE Put(@, k, e),
                 !.settle = IF e.terminal /\ @ = NotTerminal THEN 0 ELSE @,
                 !.started = IF e.started > 0 /\ (@ = 0 \/ e.started < @)
                             THEN e.started ELSE @,
                 !.ended = IF e.ended > @ THEN e.ended ELSE @]

(* The canonical order: by start, then by span id. *)
Before(spans, j, k) ==
    \/ spans[j].started < spans[k].started
    \/ spans[j].started = spans[k].started /\ j < k

StepIdx(spans, k) == Cardinality({j \in DOMAIN spans : Before(spans, j, k)})

(* A parent among the spans becomes an index; otherwise the step keeps the
   index its producer wrote. *)
ParentIdx(spans, k) ==
    IF spans[k].parent \in DOMAIN spans \ {k}
    THEN StepIdx(spans, spans[k].parent)
    ELSE spans[k].parentIdx

OrderedSteps(spans) ==
    {[span |-> k, started |-> spans[k].started, idx |-> StepIdx(spans, k),
      parent |-> ParentIdx(spans, k)] : k \in DOMAIN spans}

(* What closeLocked returns.  key and terminal are kept for the properties. *)
Episode(f, status) ==
    [key |-> f.key, id |-> f.id, status |-> status, started |-> f.started,
     ended |-> f.ended, steps |-> OrderedSteps(f.spans), terminal |-> f.settle # NotTerminal]

-----------------------------------------------------------------------------
(* Deadlines. *)

Settled(f) == f.settle # NotTerminal /\ f.settle >= SettleAfterTerminal
Idle(f) == f.idle >= Window
Due(f) == Settled(f) \/ Idle(f)

\* fault: the idle deadline is tested first
ExpiredStatusIdleFirst(f) == IF Idle(f) THEN "timed_out" ELSE "complete"

ExpiredStatus(f) == IF Settled(f) THEN "complete" ELSE "timed_out"

(* The status of an episode that Flush closes: the fallback of both callers is
   timed_out. *)
FlushStatus(f) == IF f.settle # NotTerminal THEN "complete" ELSE "timed_out"

\* fault: a dropped session leaves its patch index behind
RememberLeakingIdx(closed) ==
    LET all == memory \o [i \in DOMAIN closed |->
                            [key |-> closed[i].key, id |-> closed[i].id,
                             spans |-> DOMAIN closed[i].spans]]
        excess == IF Len(all) > PatchMemory THEN Len(all) - PatchMemory ELSE 0
    IN /\ memory' = SubSeq(all, excess + 1, Len(all))
       /\ forgotten' = forgotten \cup {all[i].key : i \in 1 .. excess}
       /\ UNCHANGED patchIdx

-----------------------------------------------------------------------------
(* The bounded memory of emitted sessions.  A session is open or remembered,
   never both (InFlightBounds), so closing one always appends it; of a sequence
   of closes the last PatchMemory entries stay, and a dropped entry takes its
   patch index along. *)
Remember(closed) ==
    LET all == memory \o [i \in DOMAIN closed |->
                            [key |-> closed[i].key, id |-> closed[i].id,
                             spans |-> DOMAIN closed[i].spans]]
        excess == IF Len(all) > PatchMemory THEN Len(all) - PatchMemory ELSE 0
        dropped == {all[i] : i \in 1 .. excess}
        kept == {id \in DOMAIN patchIdx : \A m \in dropped : m.id # id}
    IN /\ memory' = SubSeq(all, excess + 1, Len(all))
       /\ patchIdx' = [id \in kept |-> patchIdx[id]]
       /\ forgotten' = forgotten \cup {m.key : m \in dropped}

(* A remembered session that has emitted another span. *)
Marked(m, span) == [m EXCEPT !.spans = @ \cup {span}]

(* Patch indices start clear of any plausible step index: 1 << 20. *)
PatchIdxBase == 1048576

NextPatchIdx(id) == IF id \in DOMAIN patchIdx THEN patchIdx[id] ELSE PatchIdxBase

PatchFor(key, id, e) ==
    [key |-> key, id |-> id, status |-> "patched", started |-> e.started, ended |-> 0,
     steps |-> {[span |-> SpanKey(e), started |-> e.started,
                 idx |-> NextPatchIdx(id), parent |-> e.parentIdx]},
     terminal |-> FALSE]

-----------------------------------------------------------------------------
(* Operations. *)

Init ==
    /\ order = <<>>
    /\ memory = <<>>
    /\ patchIdx = <<>>
    /\ opened = 0
    /\ ready = [g \in Goroutines |-> <<>>]
    /\ stops = 0
    /\ phase = "running"
    /\ out = {}
    /\ owed = {}
    /\ forgotten = {}

\* fault: the evicted episode is closed and not emitted
ExpireLockedDropsEvicted(g, fs, evicted) ==
    LET due == Picked(fs, {i \in DOMAIN fs : Due(fs[i])})
    IN /\ order' = Picked(fs, {i \in DOMAIN fs : ~Due(fs[i])})
       /\ Remember(evicted \o due)
       /\ ready' = [ready EXCEPT ![g] =
             [i \in DOMAIN due |-> Episode(due[i], ExpiredStatus(due[i]))]]

(* expireLocked over the open set fs, after closing those of evicted. *)
ExpireLocked(g, fs, evicted) ==
    LET due == Picked(fs, {i \in DOMAIN fs : Due(fs[i])})
    IN /\ order' = Picked(fs, {i \in DOMAIN fs : ~Due(fs[i])})
       /\ Remember(evicted \o due)
       /\ ready' = [ready EXCEPT ![g] =
             [i \in DOMAIN evicted |-> Episode(evicted[i], "evicted")]
               \o [i \in DOMAIN due |-> Episode(due[i], ExpiredStatus(due[i]))]]

(* Add starts when its goroutine has emitted what it closed before.  The handlers of HTTP
   servers may outlive the drain: Start returns when Shutdown is called. *)
CanAdd(g) == ready[g] = <<>>

(* Add for a session that is open. *)
AddOpen(g, e) ==
    /\ CanAdd(g)
    /\ e.session \in KeysIn(order)
    /\ ExpireLocked(g, [i \in DOMAIN order |->
                          IF order[i].key = e.session THEN Absorb(order[i], e)
                          ELSE order[i]], <<>>)
    /\ owed' = owed \cup {<<e.session, SpanKey(e)>>}
    /\ UNCHANGED <<opened, stops, phase, out>>

\* fault: a patched span is not remembered as emitted
AddLateUnmarked(g, e) ==
    /\ CanAdd(g)
    /\ e.session \notin KeysIn(order)
    /\ \E i \in DOMAIN memory :
         /\ memory[i].key = e.session
         /\ SpanKey(e) \notin memory[i].spans
         /\ patchIdx' = Put(patchIdx, memory[i].id, NextPatchIdx(memory[i].id) + 1)
         /\ ready' = [ready EXCEPT ![g] = <<PatchFor(e.session, memory[i].id, e)>>]
    /\ owed' = owed \cup {<<e.session, SpanKey(e)>>}
    /\ UNCHANGED <<order, memory, opened, stops, phase, out, forgotten>>

\* fault: the patch index is not advanced
AddLateSameIdx(g, e) ==
    /\ CanAdd(g)
    /\ e.session \notin KeysIn(order)
    /\ \E i \in DOMAIN memory :
         /\ memory[i].key = e.session
         /\ SpanKey(e) \notin memory[i].spans
         /\ memory' = [memory EXCEPT ![i] = Marked(@, SpanKey(e))]
         /\ ready' = [ready EXCEPT ![g] = <<PatchFor(e.session, memory[i].id, e)>>]
    /\ owed' = owed \cup {<<e.session, SpanKey(e)>>}
    /\ UNCHANGED <<order, patchIdx, opened, stops, phase, out, forgotten>>

(* Add for a session whose episode was emitted: a span it carried already is a
   duplicate, another one becomes a patch. *)
AddLate(g, e) ==
    /\ CanAdd(g)
    /\ e.session \notin KeysIn(order)
    /\ \E i \in DOMAIN memory :
         /\ memory[i].key = e.session
         /\ SpanKey(e) \notin memory[i].spans
         /\ memory' = [memory EXCEPT ![i] = Marked(@, SpanKey(e))]
         /\ patchIdx' = Put(patchIdx, memory[i].id, NextPatchIdx(memory[i].id) + 1)
         /\ ready' = [ready EXCEPT ![g] = <<PatchFor(e.session, memory[i].id, e)>>]
    /\ owed' = owed \cup {<<e.session, SpanKey(e)>>}
    /\ UNCHANGED <<order, opened, stops, phase, out, forgotten>>

AddDuplicate(g, e) ==
    /\ CanAdd(g)
    /\ e.session \notin KeysIn(order)
    /\ \E i \in DOMAIN memory :
         memory[i].key = e.session /\ SpanKey(e) \in memory[i].spans
    /\ UNCHANGED vars

(* Add for a session that is neither: at capacity the oldest episode makes room.
   A span without a session key gets one of its own. *)
AddNew(g, e) ==
    LET key == IF e.session # None THEN e.session ELSE NewSessionKey
        id == IF e.id # None THEN e.id ELSE NewEpisodeID
        full == Len(order) >= MaxInFlight
        left == IF full THEN Tail(order) ELSE order
    IN /\ CanAdd(g)
       /\ key \notin KeysIn(order) \cup KeysIn(memory)
       /\ opened < MaxEpisodes
       /\ ExpireLocked(g, Append(left, Absorb(NewInFlight(key, id), e)),
                       IF full THEN <<Head(order)>> ELSE <<>>)
       /\ opened' = opened + 1
       /\ owed' = owed \cup {<<key, SpanKey(e)>>}
       /\ UNCHANGED <<stops, phase, out>>

(* emit is called outside the lock, one record at a time. *)
Emit(g) ==
    /\ ready[g] # <<>>
    /\ out' = out \cup {Head(ready[g])}
    /\ ready' = [ready EXCEPT ![g] = Tail(@)]
    /\ UNCHANGED <<order, memory, patchIdx, opened, stops, phase, owed, forgotten>>

(* The ticker of Service.Run. *)
Expire ==
    /\ phase = "running"
    /\ ready[Main] = <<>>
    /\ ExpireLocked(Main, order, <<>>)
    /\ UNCHANGED <<opened, stops, phase, out, owed>>

(* drain, when Start of every source has returned. *)
Flush ==
    /\ phase = "running"
    /\ ready[Main] = <<>>
    /\ phase' = "stopped"
    /\ order' = <<>>
    /\ Remember(order)
    /\ ready' = [ready EXCEPT ![Main] =
         [i \in DOMAIN order |-> Episode(order[i], FlushStatus(order[i]))]]
    /\ UNCHANGED <<opened, stops, out, owed>>

(* A new process starts with an empty assembler; ids are unique over processes. *)
NewProcess ==
    /\ stops < MaxStops
    /\ stops' = stops + 1
    /\ phase' = "running"
    /\ order' = <<>>
    /\ memory' = <<>>
    /\ patchIdx' = <<>>
    /\ ready' = [g \in Goroutines |-> <<>>]
    /\ forgotten' = forgotten \cup {p[1] : p \in owed}
    /\ UNCHANGED <<opened, out>>

SpansOf(r) == {<<r.key, s.span>> : s \in r.steps}
EmittedSpans == UNION {SpansOf(r) : r \in out}
ReadySpans == UNION {UNION {SpansOf(ready[g][i]) : i \in DOMAIN ready[g]} : g \in Goroutines}
OpenSpans == UNION {{<<order[i].key, k>> : k \in DOMAIN order[i].spans} : i \in DOMAIN order}

(* The process ends when its drain has: what a handler still holds goes with it. *)
Restart ==
    /\ phase = "stopped"
    /\ ready[Main] = <<>>
    /\ NewProcess
    /\ owed' = owed \ ((OpenSpans \cup ReadySpans) \ EmittedSpans)

Kill ==
    /\ owed' = owed \cap EmittedSpans
    /\ NewProcess

Older(f) ==
    [f EXCEPT !.idle = IF @ < Window THEN @ + 1 ELSE @,
              !.settle = IF @ # NotTerminal /\ @ < SettleAfterTerminal THEN @ + 1 ELSE @]

Tick ==
    /\ order' = [i \in DOMAIN order |-> Older(order[i])]
    /\ UNCHANGED <<memory, patchIdx, opened, ready, stops, phase, out, owed, forgotten>>

Add(g, e) == AddOpen(g, e) \/ AddLate(g, e) \/ AddDuplicate(g, e) \/ AddNew(g, e)

Next ==
    \/ \E g \in Sources, e \in Envelopes : Add(g, e)
    \/ \E g \in Goroutines : Emit(g)
    \/ Expire
    \/ Tick
    \/ Flush
    \/ Restart
    \/ Kill

Spec == Init /\ [][Next]_vars

(* The ticker keeps firing and time passes; a goroutine that has records to emit
   goes on.  Producers, shutdowns and kills are not fair. *)
FairSpec ==
    /\ Spec
    /\ WF_vars(Tick)
    /\ WF_vars(Expire)
    /\ \A g \in Goroutines : WF_vars(Emit(g))

-----------------------------------------------------------------------------
(* What lakeread.Open makes of the emitted records.  Rows of an episode id are
   merged over all records that carry it, if one of them is not a patch. *)

RowsOf(id) == UNION {r.steps : r \in {r \in out : r.id = id}}

HasOriginal(id) == \E r \in out : r.id = id /\ r.status # "patched"

(* dedupeSteps: of the rows with one index the earliest stays; of two that start
   together the one whose file is read first, which is arbitrary. *)
EarliestAt(rows, idx) ==
    CHOOSE s \in rows : s.idx = idx /\ \A t \in rows : t.idx = idx => s.started <= t.started

ReadSteps(id) ==
    IF HasOriginal(id) THEN {EarliestAt(RowsOf(id), s.idx) : s \in RowsOf(id)} ELSE {}

-----------------------------------------------------------------------------
(* What the producers of observations keep to; the code relies on it and does not
   check it. *)

(* An episode id belongs to one session.  A whole episode has its id for a session key; a
   span record may carry an id next to its session, and an empty one is left to NewID. *)
IdsNameSessions ==
    \A d, e \in Envelopes : d.id # None /\ d.id = e.id => d.session # None /\ d.session = e.session

(* A session has no more spans than there are indices below those of patches. *)
SessionSpans(s) == {SpanKey(e) : e \in {d \in Envelopes : d.session = s}}

FewSpans ==
    \A e \in Envelopes : e.session # None =>
      /\ IsFiniteSet(SessionSpans(e.session))
      /\ Cardinality(SessionSpans(e.session)) <= PatchIdxBase

(* Two sightings of a span with one start tell the same parent. *)
SightingsAgree ==
    \A d, e \in Envelopes :
      d.session = e.session /\ SpanKey(d) = SpanKey(e) /\ d.started = e.started =>
        d.parent = e.parent /\ d.parentIdx = e.parentIdx

-----------------------------------------------------------------------------
(* Properties. *)

Spans == {SpanKey(e) : e \in Envelopes}

(* Every span that Add accepted is in an open episode, on its way to Emit, or
   emitted, unless the end of the process took it: closing, evicting, patching and
   draining do not drop one. *)
SpansAccounted == owed \subseteq OpenSpans \cup ReadySpans \cup EmittedSpans

(* A redelivery after a lost acknowledgement is recognised however it falls
   between the goroutines: as long as the session is not forgotten, a span is in
   one record only, emitted or about to be, and not in an open episode as well. *)
EachSpanOnce ==
    LET places == UNION {{<<g, i>> : i \in DOMAIN ready[g]} : g \in Goroutines}
        known(spans) == {p \in spans : p[1] \notin forgotten}
    IN /\ \A q \in places :
            LET r == ready[q[1]][q[2]]
            IN /\ known(SpansOf(r)) \cap (EmittedSpans \cup OpenSpans) = {}
               /\ \A h \in places \ {q} :
                    known(SpansOf(r)) \cap SpansOf(ready[h[1]][h[2]]) = {}
       /\ known(OpenSpans) \cap EmittedSpans = {}

(* Memory is bounded: the open set, the remembered sessions, and with them the
   patch indices; and a session is open or remembered, never both, which is what
   makes each close drop at most what it adds. *)
InFlightBounds ==
    /\ Len(order) <= MaxInFlight
    /\ Len(memory) <= PatchMemory
    /\ DOMAIN patchIdx \subseteq {memory[i].id : i \in DOMAIN memory}
    /\ KeysIn(order) \cap KeysIn(memory) = {}
    /\ Cardinality(KeysIn(order)) = Len(order)
    /\ Cardinality(KeysIn(memory)) = Len(memory)

(* The reader gets every emitted span back, once, from the original and its
   patches together, in whatever order the goroutines emitted them: positions and
   patch indices do not collide as long as no session of the episode was
   forgotten. *)
ReaderMergesPatches ==
    \A r \in out :
      LET same == {q \in out : q.id = r.id}
          quiet == ReadySpans \cap {<<r.key, k>> : k \in Spans} = {}
      IN quiet /\ (\A q \in same : q.key \notin forgotten) =>
           /\ ReadSteps(r.id) = RowsOf(r.id)
           /\ \A s, t \in ReadSteps(r.id) : s.span = t.span => s = t

(* An episode is labelled timed_out only if its terminal marker did not arrive,
   complete only if it did, although eviction, the ticker, every Add and the drain
   race to close it. *)
StatusIsTruthful ==
    \A r \in out :
      /\ r.status = "timed_out" => ~r.terminal
      /\ r.status = "complete" => r.terminal

Absorbable(f) == {e \in Envelopes : e.session = f.key}

(* Two observations of one session may arrive in either order: the steps of the
   episode, their positions and links, and its start and end are the same.  The
   metadata of an episode is outside of this: absorb keeps the first value. *)
StepsIgnoreArrivalOrder ==
    \A i \in DOMAIN order : \A d, e \in Absorbable(order[i]) :
      LET x == Absorb(Absorb(order[i], d), e)
          y == Absorb(Absorb(order[i], e), d)
      IN /\ OrderedSteps(x.spans) = OrderedSteps(y.spans)
         /\ x.started = y.started /\ x.ended = y.ended

(* A terminal marker closes its episode, even if redelivered spans keep arriving
   for it and refresh lastSeen for ever, as long as the process is not stopping. *)
TerminatedCloses ==
    \A s \in {e.session : e \in Envelopes} \ {None} :
      (\E i \in DOMAIN order : order[i].key = s /\ order[i].settle # NotTerminal)
         ~> (s \notin KeysIn(order) \/ phase = "stopped")
=============================================================================
