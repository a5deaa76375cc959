-------------------------- MODULE AssemblerProofs --------------------------
(***************************************************************************)
(* Proofs about Assembler, for every set of goroutines and envelopes and   *)
(* every choice of deadlines and limits: what Add took is accounted for,   *)
(* a redelivered span is not emitted again while its session is            *)
(* remembered, memory stays bounded, and the status of an episode tells    *)
(* whether it was terminated.  For producers that keep an episode id to    *)
(* one session the reader gets every step back from an original and its    *)
(* patches, and steps do not depend on the order observations arrive in.   *)
(*                                                                         *)
(* The invariant follows each span through the places it can be in.  A     *)
(* session with a span that was closed is remembered with that span or has *)
(* been forgotten, and a remembered session is not open: that is why a     *)
(* second record never carries the span.  Positions are followed the same  *)
(* way: those of an original lie below PatchIdxBase, those of patches      *)
(* below the next index of their episode, while the session is remembered. *)
(***************************************************************************)
EXTENDS Assembler, SequenceFacts

(* No two elements have one key. *)
Distinct(s) == \A i, j \in DOMAIN s : s[i].key = s[j].key => i = j

(* The settle time of a terminated episode has run at least as long as it is idle: the span
   that brought the marker was seen then. *)
IsInFlight(f) ==
    /\ f = [key |-> f.key, id |-> f.id, idle |-> f.idle, settle |-> f.settle,
            started |-> f.started, ended |-> f.ended, spans |-> f.spans]
    /\ f.idle \in Nat
    /\ f.settle # NotTerminal =>
         f.settle \in Nat /\ (f.settle >= f.idle \/ f.settle >= SettleAfterTerminal)

OrderInv ==
    /\ IsSeq(order) /\ Distinct(order) /\ Len(order) <= MaxInFlight
    /\ \A i \in DOMAIN order : IsInFlight(order[i])

IsEntry(m) == m = [key |-> m.key, id |-> m.id, spans |-> m.spans]

MemoryInv ==
    /\ IsSeq(memory) /\ Distinct(memory) /\ Len(memory) <= PatchMemory
    /\ \A i \in DOMAIN memory : IsEntry(memory[i])
    /\ \A id \in DOMAIN patchIdx : \E i \in DOMAIN memory : memory[i].id = id

(* A session is open or remembered, never both. *)
ApartInv == \A i \in DOMAIN order, j \in DOMAIN memory : order[i].key # memory[j].key

Truthful(r) ==
    /\ r.status = "timed_out" => ~r.terminal
    /\ r.status = "complete" => r.terminal

ReadyInv ==
    /\ ready = [g \in Goroutines |-> ready[g]]
    /\ \A g \in Goroutines :
         IsSeq(ready[g]) /\ \A i \in DOMAIN ready[g] : Truthful(ready[g][i])

OutInv == \A r \in out : Truthful(r)

OwedInv == owed = OpenSpans \cup ReadySpans \cup EmittedSpans

(* The memory tells that the span has been in a record. *)
Remembered(p) == \E i \in DOMAIN memory : memory[i].key = p[1] /\ p[2] \in memory[i].spans

TracedInv == \A p \in ReadySpans \cup EmittedSpans : p[1] \in forgotten \/ Remembered(p)

(* Two records, of which one at least is not emitted yet, share no span of a session that is
   not forgotten. *)
OnceInv ==
    \A g \in Goroutines : \A i \in DOMAIN ready[g] : \A p \in SpansOf(ready[g][i]) :
      p[1] \notin forgotten =>
        /\ p \notin EmittedSpans
        /\ \A h \in Goroutines : \A j \in DOMAIN ready[h] :
             p \in SpansOf(ready[h][j]) => h = g /\ j = i

AssemblerInv ==
    /\ OrderInv /\ MemoryInv /\ ApartInv /\ ReadyInv /\ OutInv
    /\ OwedInv /\ TracedInv /\ OnceInv

-----------------------------------------------------------------------------
(* The spans of an episode, in flight and closed. *)

Holds(f) == {<<f.key, k>> : k \in DOMAIN f.spans}
HeldIn(s) == UNION {Holds(s[i]) : i \in DOMAIN s}

LEMMA HeldIs == \A s, p : p \in HeldIn(s) <=> \E i \in DOMAIN s : p \in Holds(s[i])
BY DEF HeldIn

LEMMA OpenIs == OpenSpans = HeldIn(order) /\ OpenSpans' = HeldIn(order')
BY DEF OpenSpans, HeldIn, Holds

LEMMA ReadyIs ==
    \A p : p \in ReadySpans <=>
             \E g \in Goroutines : \E i \in DOMAIN ready[g] : p \in SpansOf(ready[g][i])
BY DEF ReadySpans

LEMMA ReadyIsNext ==
    \A p : p \in ReadySpans' <=>
             \E g \in Goroutines : \E i \in DOMAIN ready'[g] : p \in SpansOf(ready'[g][i])
BY DEF ReadySpans, SpansOf, Goroutines

LEMMA EmittedIs == \A p : p \in EmittedSpans <=> \E r \in out : p \in SpansOf(r)
BY DEF EmittedSpans

LEMMA EmittedIsNext == \A p : p \in EmittedSpans' <=> \E r \in out' : p \in SpansOf(r)
BY DEF EmittedSpans, SpansOf

LEMMA EpisodeSpans == \A f, st : SpansOf(Episode(f, st)) = Holds(f)
<1> SUFFICES ASSUME NEW f, NEW st PROVE SpansOf(Episode(f, st)) = Holds(f)
  OBVIOUS
<1>1. PICK r : r = Episode(f, st)
  OBVIOUS
<1>2. r.key = f.key /\ r.steps = OrderedSteps(f.spans)
  BY <1>1 DEF Episode
<1>3. ASSUME NEW s \in r.steps PROVE <<r.key, s.span>> \in Holds(f)
  BY <1>2 DEF OrderedSteps, Holds
<1>4. ASSUME NEW k \in DOMAIN f.spans PROVE \E s \in r.steps : s.span = k
  <2>1. PICK s : s = [span |-> k, started |-> f.spans[k].started, idx |-> StepIdx(f.spans, k),
                      parent |-> ParentIdx(f.spans, k)]
    OBVIOUS
  <2>2. s \in OrderedSteps(f.spans)
    BY <2>1 DEF OrderedSteps
  <2> QED BY <2>1, <2>2, <1>2
<1> QED BY <1>1, <1>2, <1>3, <1>4 DEF SpansOf, Holds

(* A patch carries the one span it is for. *)
LEMMA PatchSpans ==
    \A key, id, e : /\ SpansOf(PatchFor(key, id, e)) = {<<key, SpanKey(e)>>}
                    /\ Truthful(PatchFor(key, id, e))
<1> SUFFICES ASSUME NEW key, NEW id, NEW e
             PROVE  /\ SpansOf(PatchFor(key, id, e)) = {<<key, SpanKey(e)>>}
                    /\ Truthful(PatchFor(key, id, e))
  OBVIOUS
<1>1. PICK r : r = PatchFor(key, id, e)
  OBVIOUS
<1>2. PICK st : r.steps = {st} /\ st.span = SpanKey(e) /\ r.key = key
  <2>1. PICK st : st = [span |-> SpanKey(e), started |-> e.started, idx |-> NextPatchIdx(id),
                        parent |-> e.parentIdx]
    OBVIOUS
  <2> QED BY <1>1, <2>1 DEF PatchFor
<1>3. SpansOf(r) = {<<key, SpanKey(e)>>}
  BY <1>2 DEF SpansOf
<1>4. r.status = "patched"
  BY <1>1 DEF PatchFor
<1>5. Truthful(r)
  BY <1>4 DEF Truthful
<1> QED BY <1>1, <1>3, <1>5

-----------------------------------------------------------------------------
(* One in-flight episode. *)

LEMMA SettleTime == SettleAfterTerminal \in Nat /\ Window \in Nat /\ SettleAfterTerminal < Window
BY AssemblyOptions

LEMMA AbsorbEffect ==
    ASSUME NEW f, IsInFlight(f), NEW e
    PROVE  /\ IsInFlight(Absorb(f, e)) /\ Absorb(f, e).key = f.key
           /\ Holds(Absorb(f, e)) = Holds(f) \cup {<<f.key, SpanKey(e)>>}
<1>1. PICK key, id, idle, settle, started, ended, spans :
         f = [key |-> key, id |-> id, idle |-> idle, settle |-> settle,
              started |-> started, ended |-> ended, spans |-> spans]
  BY Zenon DEF IsInFlight
<1>2. PICK a : a = Absorb(f, e)
  OBVIOUS
<1> DEFINE keep == SpanKey(e) \in DOMAIN spans /\ spans[SpanKey(e)].started <= e.started
           newSettle == IF e.terminal /\ settle = NotTerminal THEN 0 ELSE settle
<1>3. PICK st, en :
        a = [key |-> key, id |-> id, idle |-> 0, settle |-> newSettle, started |-> st, ended |-> en,
             spans |-> IF keep THEN spans ELSE Put(spans, SpanKey(e), e)]
  BY <1>1, <1>2 DEF Absorb
<1>4. DOMAIN a.spans = DOMAIN spans \cup {SpanKey(e)}
  BY <1>3 DEF Put
<1>5. a.key = key /\ a.idle = 0 /\ a.settle = newSettle
  BY <1>3
<1>6. f.key = key /\ f.spans = spans /\ f.settle = settle
  BY <1>1
<1>7. a = [key |-> a.key, id |-> a.id, idle |-> a.idle, settle |-> a.settle,
           started |-> a.started, ended |-> a.ended, spans |-> a.spans]
  BY <1>3
<1>8. a.settle # NotTerminal => a.settle \in Nat /\ a.settle >= 0
  BY <1>5, <1>6 DEF IsInFlight
<1>9. IsInFlight(a)
  BY <1>5, <1>7, <1>8 DEF IsInFlight
<1>10. Holds(a) = Holds(f) \cup {<<f.key, SpanKey(e)>>}
  BY <1>4, <1>5, <1>6 DEF Holds
<1> QED BY <1>2, <1>5, <1>6, <1>9, <1>10

LEMMA NewEffect ==
    \A key, id : /\ IsInFlight(NewInFlight(key, id)) /\ NewInFlight(key, id).key = key
                 /\ Holds(NewInFlight(key, id)) = {}
<1> SUFFICES ASSUME NEW key, NEW id
             PROVE  /\ IsInFlight(NewInFlight(key, id)) /\ NewInFlight(key, id).key = key
                    /\ Holds(NewInFlight(key, id)) = {}
  OBVIOUS
<1>1. PICK f : f = NewInFlight(key, id)
  OBVIOUS
<1>2. f.key = key /\ f.idle = 0 /\ f.settle = NotTerminal /\ f.spans = <<>>
  BY <1>1 DEF NewInFlight
<1>3. f = [key |-> f.key, id |-> f.id, idle |-> f.idle, settle |-> f.settle,
           started |-> f.started, ended |-> f.ended, spans |-> f.spans]
  BY <1>1 DEF NewInFlight
<1>4. IsInFlight(f)
  BY <1>2, <1>3 DEF IsInFlight
<1>5. Holds(f) = {}
  BY <1>2 DEF Holds
<1> QED BY <1>1, <1>2, <1>4, <1>5

LEMMA OlderEffect ==
    ASSUME NEW f, IsInFlight(f)
    PROVE  /\ IsInFlight(Older(f)) /\ Older(f).key = f.key
           /\ Holds(Older(f)) = Holds(f)
<1>1. PICK key, id, idle, settle, started, ended, spans :
         f = [key |-> key, id |-> id, idle |-> idle, settle |-> settle,
              started |-> started, ended |-> ended, spans |-> spans]
  BY Zenon DEF IsInFlight
<1>2. PICK a : a = Older(f)
  OBVIOUS
<1> DEFINE newIdle == IF idle < Window THEN idle + 1 ELSE idle
           newSettle == IF settle # NotTerminal /\ settle < SettleAfterTerminal
                        THEN settle + 1 ELSE settle
<1>3. a = [key |-> key, id |-> id, idle |-> newIdle, settle |-> newSettle,
           started |-> started, ended |-> ended, spans |-> spans]
  BY <1>1, <1>2 DEF Older
<1>4. /\ a.key = key /\ a.idle = newIdle /\ a.settle = newSettle /\ a.spans = spans
  BY <1>3
<1>5. f.key = key /\ f.spans = spans /\ f.settle = settle /\ f.idle = idle
  BY <1>1
<1>6. a = [key |-> a.key, id |-> a.id, idle |-> a.idle, settle |-> a.settle,
           started |-> a.started, ended |-> a.ended, spans |-> a.spans]
  BY <1>3
<1>7. idle \in Nat /\ (settle # NotTerminal =>
           settle \in Nat /\ (settle >= idle \/ settle >= SettleAfterTerminal))
  BY <1>5 DEF IsInFlight
<1>8. newIdle \in Nat /\ newIdle <= idle + 1
  BY <1>7
<1>9. newSettle # NotTerminal =>
        newSettle \in Nat /\ (newSettle >= newIdle \/ newSettle >= SettleAfterTerminal)
  <2>1. CASE settle = NotTerminal
    BY <2>1
  <2>2. CASE settle # NotTerminal /\ settle < SettleAfterTerminal
    BY <2>2, <1>7, <1>8, SettleTime
  <2>3. CASE settle # NotTerminal /\ ~(settle < SettleAfterTerminal)
    BY <2>3, <1>7, SettleTime
  <2> QED BY <2>1, <2>2, <2>3
<1>10. IsInFlight(a)
  BY <1>4, <1>6, <1>8, <1>9 DEF IsInFlight
<1> QED BY <1>2, <1>4, <1>5, <1>10 DEF Holds

(* What is closed at a deadline, for want of room or by the drain says truly whether its
   terminal marker has arrived: within the settle time the idle deadline cannot pass. *)
LEMMA ClosedTruthfully ==
    ASSUME NEW f, IsInFlight(f)
    PROVE  /\ Due(f) => Truthful(Episode(f, ExpiredStatus(f)))
           /\ Truthful(Episode(f, FlushStatus(f)))
           /\ Truthful(Episode(f, "evicted"))
<1>1. \A st : Episode(f, st).status = st /\ Episode(f, st).terminal = (f.settle # NotTerminal)
  BY DEF Episode
<1>2. ASSUME Due(f) PROVE Truthful(Episode(f, ExpiredStatus(f)))
  <2>1. CASE Settled(f)
    <3>1. ExpiredStatus(f) = "complete" /\ f.settle # NotTerminal
      BY <2>1 DEF ExpiredStatus, Settled
    <3> QED BY <3>1, <1>1 DEF Truthful
  <2>2. CASE ~Settled(f)
    <3>1. ExpiredStatus(f) = "timed_out" /\ Idle(f)
      BY <2>2, <1>2 DEF ExpiredStatus, Due
    <3>2. f.settle = NotTerminal
      BY <3>1, <2>2, SettleTime DEF Idle, Settled, IsInFlight
    <3> QED BY <3>1, <3>2, <1>1 DEF Truthful
  <2> QED BY <2>1, <2>2
<1>3. Truthful(Episode(f, FlushStatus(f)))
  <2>1. CASE f.settle = NotTerminal
    <3>1. FlushStatus(f) = "timed_out"
      BY <2>1 DEF FlushStatus
    <3> QED BY <2>1, <3>1, <1>1 DEF Truthful
  <2>2. CASE f.settle # NotTerminal
    <3>1. FlushStatus(f) = "complete"
      BY <2>2 DEF FlushStatus
    <3> QED BY <2>2, <3>1, <1>1 DEF Truthful
  <2> QED BY <2>1, <2>2
<1>4. Truthful(Episode(f, "evicted"))
  BY <1>1 DEF Truthful
<1> QED BY <1>2, <1>3, <1>4

-----------------------------------------------------------------------------
(* Picking from a sequence. *)

LEMMA PickedFacts ==
    ASSUME NEW s, IsSeq(s), NEW at \in SUBSET DOMAIN s
    PROVE  \E f : /\ IsSeq(Picked(s, at)) /\ Len(Picked(s, at)) <= Len(s)
                  /\ \A i \in DOMAIN Picked(s, at) : f[i] \in at /\ Picked(s, at)[i] = s[f[i]]
                  /\ \A i, j \in DOMAIN Picked(s, at) : f[i] = f[j] => i = j
                  /\ \A d \in at : \E i \in DOMAIN Picked(s, at) : f[i] = d
<1>1. Len(s) \in Nat /\ DOMAIN s = 1 .. Len(s)
  BY SeqShape
<1>2. PICK n \in Nat : n = Len(s) /\ DOMAIN s = 1 .. n
  BY <1>1
<1>3. at \in SUBSET (1 .. n)
  BY <1>2
<1> DEFINE f == CHOOSE h \in [1 .. Cardinality(at) -> at] :
                  \A i, j \in DOMAIN h : i < j => h[i] < h[j]
<1>4. \E h \in [1 .. Cardinality(at) -> at] : \A i, j \in DOMAIN h : i < j => h[i] < h[j]
  BY <1>3, Enumerated DEF Enumerable, Increasing
<1>5. f \in [1 .. Cardinality(at) -> at] /\ \A i, j \in DOMAIN f : i < j => f[i] < f[j]
  BY <1>4
<1>6. Picked(s, at) = [i \in DOMAIN f |-> s[f[i]]]
  BY DEF Picked
<1> HIDE DEF f
<1>7. /\ Cardinality(at) \in Nat /\ Cardinality(at) <= n
      /\ \A i, j \in DOMAIN f : f[i] = f[j] => i = j
      /\ \A d \in at : \E i \in DOMAIN f : f[i] = d
  <2>1. Increasing(f)
    BY <1>5 DEF Increasing
  <2> QED BY <2>1, <1>3, <1>5, EnumerationIsWhole
<1>8. PICK q : q = Picked(s, at)
  OBVIOUS
<1>9. PICK c \in Nat : c = Cardinality(at) /\ DOMAIN f = 1 .. c
  BY <1>5, <1>7
<1>10. q = [i \in 1 .. c |-> q[i]] /\ DOMAIN q = 1 .. c /\ \A i \in 1 .. c : q[i] = s[f[i]]
  BY <1>6, <1>8, <1>9
<1>11. \A i \in 1 .. c : q[i] \in Range(q)
  BY <1>10 DEF Range
<1>12. q \in Seq(Range(q)) /\ Len(q) = c
  BY <1>10, <1>11
<1>13. \A i \in DOMAIN q : f[i] \in at /\ q[i] = s[f[i]]
  BY <1>5, <1>9, <1>10
<1>14. IsSeq(q) /\ Len(q) <= Len(s)
  BY <1>12, <1>7, <1>9, <1>2 DEF IsSeq
<1>15. /\ \A i, j \in DOMAIN q : f[i] = f[j] => i = j
       /\ \A d \in at : \E i \in DOMAIN q : f[i] = d
  BY <1>7, <1>9, <1>10
<1> QED BY <1>8, <1>13, <1>14, <1>15

-----------------------------------------------------------------------------
(* The memory of emitted sessions. *)

Note(f) == [key |-> f.key, id |-> f.id, spans |-> DOMAIN f.spans]

(* No element of s has a key of t. *)
Apart(s, t) == \A i \in DOMAIN s, j \in DOMAIN t : s[i].key # t[j].key

(* A patch index stays as it is until its session is forgotten. *)
IndicesKept(closed) ==
    /\ \A id \in DOMAIN patchIdx' : id \in DOMAIN patchIdx /\ patchIdx'[id] = patchIdx[id]
    /\ \A id \in DOMAIN patchIdx :
         \/ id \in DOMAIN patchIdx'
         \/ \E i \in DOMAIN memory : memory[i].id = id /\ memory[i].key \in forgotten'
         \/ \E i \in DOMAIN closed : closed[i].id = id /\ closed[i].key \in forgotten'

LEMMA RememberEffect ==
    ASSUME MemoryInv, NEW closed, IsSeq(closed), Distinct(closed), Apart(closed, memory),
           Remember(closed)
    PROVE  /\ MemoryInv' /\ forgotten \subseteq forgotten'
           /\ \A j \in DOMAIN memory' :
                \/ \E i \in DOMAIN memory : memory'[j] = memory[i]
                \/ \E i \in DOMAIN closed : memory'[j] = Note(closed[i])
           /\ \A i \in DOMAIN memory :
                \/ memory[i].key \in forgotten'
                \/ \E j \in DOMAIN memory' : memory'[j] = memory[i]
           /\ \A i \in DOMAIN closed :
                \/ closed[i].key \in forgotten'
                \/ \E j \in DOMAIN memory' : memory'[j] = Note(closed[i])
           /\ IndicesKept(closed)
<1>1. PICK noted : noted = [i \in DOMAIN closed |-> Note(closed[i])]
  OBVIOUS
<1>2. DOMAIN noted = DOMAIN closed /\ \A i \in DOMAIN closed : noted[i] = Note(closed[i])
  BY <1>1
<1>3. IsSeq(noted)
  BY <1>1, <1>2, SeqLike
<1>4. PICK all : all = memory \o noted
  OBVIOUS
<1>5. IsSeq(memory)
  BY DEF MemoryInv
<1>6. /\ IsSeq(all)
      /\ \A i \in DOMAIN memory : i \in DOMAIN all /\ all[i] = memory[i]
      /\ \A i \in DOMAIN noted : i + Len(memory) \in DOMAIN all /\ all[i + Len(memory)] = noted[i]
      /\ \A i \in DOMAIN all :
           i \in DOMAIN memory \/ (i - Len(memory) \in DOMAIN noted /\ all[i] = noted[i - Len(memory)])
  BY <1>3, <1>4, <1>5, Joined
<1>7. Len(all) \in Nat /\ DOMAIN all = 1 .. Len(all) /\ Len(memory) \in Nat
  BY <1>5, <1>6, SeqShape
<1>8. Distinct(all)
  <2> SUFFICES ASSUME NEW i \in DOMAIN all, NEW j \in DOMAIN all, all[i].key = all[j].key
               PROVE  i = j
    BY DEF Distinct
  <2>1. CASE i \in DOMAIN memory /\ j \in DOMAIN memory
    BY <2>1, <1>6 DEF Distinct, MemoryInv
  <2>2. ASSUME NEW a \in DOMAIN memory, NEW b \in DOMAIN noted
        PROVE  memory[a].key # noted[b].key
    BY <1>2 DEF Apart, Note
  <2>3. CASE i \in DOMAIN memory /\ j \notin DOMAIN memory
    BY <2>2, <2>3, <1>6
  <2>4. CASE i \notin DOMAIN memory /\ j \in DOMAIN memory
    BY <2>2, <2>4, <1>6
  <2>5. CASE i \notin DOMAIN memory /\ j \notin DOMAIN memory
    <3>1. PICK a \in DOMAIN closed : a = i - Len(memory) /\ all[i] = Note(closed[a])
      BY <2>5, <1>2, <1>6
    <3>2. PICK b \in DOMAIN closed : b = j - Len(memory) /\ all[j] = Note(closed[b])
      BY <2>5, <1>2, <1>6
    <3>3. closed[a].key = closed[b].key
      BY <3>1, <3>2 DEF Note
    <3>4. a = b
      BY <3>3 DEF Distinct
    <3>5. i \in Nat /\ j \in Nat
      BY <1>7
    <3> QED BY <3>1, <3>2, <3>4, <3>5, <1>7
  <2> QED BY <2>1, <2>3, <2>4, <2>5
<1> DEFINE excess == IF Len(all) > PatchMemory THEN Len(all) - PatchMemory ELSE 0
<1>9. PICK d : d = excess
  OBVIOUS
<1>10. PatchMemory \in Nat
  BY AssemblyOptions
<1>11. d \in 0 .. Len(all) /\ Len(all) - d <= PatchMemory
  <2>1. CASE Len(all) > PatchMemory
    <3>1. d = Len(all) - PatchMemory
      BY <2>1, <1>9
    <3> QED BY <2>1, <3>1, <1>7, <1>10
  <2>2. CASE ~(Len(all) > PatchMemory)
    <3>1. d = 0
      BY <2>2, <1>9
    <3> QED BY <2>2, <3>1, <1>7, <1>10
  <2> QED BY <2>1, <2>2
<1>12. /\ memory' = SubSeq(all, d + 1, Len(all))
       /\ forgotten' = forgotten \cup {m.key : m \in {all[i] : i \in 1 .. d}}
       /\ patchIdx' = [id \in {id \in DOMAIN patchIdx : \A m \in {all[i] : i \in 1 .. d} : m.id # id}
                         |-> patchIdx[id]]
  BY <1>1, <1>4, <1>9 DEF Remember, Note
<1>13. /\ IsSeq(memory') /\ Len(memory') = Len(all) - d
       /\ \A i \in DOMAIN memory' : i + d \in DOMAIN all /\ memory'[i] = all[i + d]
       /\ \A i \in DOMAIN all : i > d => i - d \in DOMAIN memory' /\ memory'[i - d] = all[i]
  BY <1>6, <1>11, <1>12, Suffix
<1>14. ASSUME NEW i \in DOMAIN all
       PROVE  all[i].key \in forgotten' \/ \E j \in DOMAIN memory' : memory'[j] = all[i]
  <2>1. CASE i > d
    BY <2>1, <1>13
  <2>2. CASE ~(i > d)
    <3>1. i \in 1 .. d
      BY <2>2, <1>7, <1>11
    <3> QED BY <3>1, <1>12
  <2> QED BY <2>1, <2>2
<1>15. \A i \in DOMAIN all : IsEntry(all[i])
  <2>1. \A f : IsEntry(Note(f))
    BY DEF IsEntry, Note
  <2> QED BY <2>1, <1>2, <1>6 DEF MemoryInv
<1>16. Distinct(memory')
  <2> SUFFICES ASSUME NEW i \in DOMAIN memory', NEW j \in DOMAIN memory',
                      memory'[i].key = memory'[j].key
               PROVE  i = j
    BY DEF Distinct
  <2>1. i + d = j + d
    BY <1>13, <1>8 DEF Distinct
  <2>2. i \in Nat /\ j \in Nat
    BY <1>13, SeqShape
  <2> QED BY <2>1, <2>2, <1>11
<1>17. \A id \in DOMAIN patchIdx' : \E i \in DOMAIN memory' : memory'[i].id = id
  <2> SUFFICES ASSUME NEW id \in DOMAIN patchIdx' PROVE \E i \in DOMAIN memory' : memory'[i].id = id
    OBVIOUS
  <2>1. id \in DOMAIN patchIdx /\ \A i \in 1 .. d : all[i].id # id
    BY <1>12
  <2>2. PICK i \in DOMAIN memory : memory[i].id = id
    BY <2>1 DEF MemoryInv
  <2>3. i \in DOMAIN all /\ all[i].id = id
    BY <2>2, <1>6
  <2>4. i > d
    BY <2>1, <2>3, <1>7, <1>11
  <2> QED BY <2>3, <2>4, <1>13
<1>18. MemoryInv'
  <2>1. \A i \in DOMAIN memory' : IsEntry(memory'[i])
    BY <1>13, <1>15
  <2> QED BY <2>1, <1>11, <1>13, <1>16, <1>17 DEF MemoryInv, IsSeq, Distinct, IsEntry
<1>19. forgotten \subseteq forgotten'
  BY <1>12
<1>20. ASSUME NEW j \in DOMAIN memory'
       PROVE  \/ \E i \in DOMAIN memory : memory'[j] = memory[i]
              \/ \E i \in DOMAIN closed : memory'[j] = Note(closed[i])
  <2>1. PICK k \in DOMAIN all : memory'[j] = all[k]
    BY <1>13
  <2>2. CASE k \in DOMAIN memory
    BY <2>1, <2>2, <1>6
  <2>3. CASE k \notin DOMAIN memory
    <3>1. PICK i \in DOMAIN closed : all[k] = Note(closed[i])
      BY <2>3, <1>2, <1>6
    <3> QED BY <2>1, <3>1
  <2> QED BY <2>2, <2>3
<1>21. ASSUME NEW i \in DOMAIN memory
       PROVE  \/ memory[i].key \in forgotten'
              \/ \E j \in DOMAIN memory' : memory'[j] = memory[i]
  BY <1>6, <1>14
<1>22. ASSUME NEW i \in DOMAIN closed
       PROVE  \/ closed[i].key \in forgotten'
              \/ \E j \in DOMAIN memory' : memory'[j] = Note(closed[i])
  <2>1. PICK k \in DOMAIN all : all[k] = Note(closed[i])
    BY <1>2, <1>6
  <2>2. Note(closed[i]).key = closed[i].key
    BY DEF Note
  <2> QED BY <2>1, <2>2, <1>14
<1>23. \A id \in DOMAIN patchIdx' : id \in DOMAIN patchIdx /\ patchIdx'[id] = patchIdx[id]
  BY <1>12
<1>24. ASSUME NEW id \in DOMAIN patchIdx, id \notin DOMAIN patchIdx'
       PROVE  \/ \E i \in DOMAIN memory : memory[i].id = id /\ memory[i].key \in forgotten'
              \/ \E i \in DOMAIN closed : closed[i].id = id /\ closed[i].key \in forgotten'
  <2>1. PICK k \in 1 .. d : all[k].id = id
    BY <1>12, <1>24
  <2>2. k \in DOMAIN all
    BY <1>7, <1>11
  <2>3. all[k].key \in forgotten'
    BY <1>12
  <2>4. CASE k \in DOMAIN memory
    BY <2>1, <2>3, <2>4, <1>6
  <2>5. CASE k \notin DOMAIN memory
    <3>1. PICK i \in DOMAIN closed : all[k] = Note(closed[i])
      BY <2>2, <2>5, <1>2, <1>6
    <3>2. Note(closed[i]).key = closed[i].key /\ Note(closed[i]).id = closed[i].id
      BY DEF Note
    <3> QED BY <2>1, <2>3, <3>1, <3>2
  <2> QED BY <2>4, <2>5
<1>25. IndicesKept(closed)
  BY <1>23, <1>24 DEF IndicesKept
<1> QED BY <1>18, <1>19, <1>20, <1>21, <1>22, <1>25

-----------------------------------------------------------------------------
(* Closing. *)

(* g closes the episodes of closed, with recs to emit, and leaves those of left open; span is
   what Add has taken in this step. *)
Closing(g, closed, left, recs, span) ==
    /\ g \in Goroutines /\ ready[g] = <<>>
    /\ IsSeq(closed) /\ Distinct(closed) /\ Apart(closed, memory)
    /\ IsSeq(left) /\ Distinct(left) /\ Apart(left, memory) /\ Apart(left, closed)
    /\ Len(left) <= MaxInFlight /\ \A i \in DOMAIN left : IsInFlight(left[i])
    /\ IsSeq(recs) /\ DOMAIN recs = DOMAIN closed
    /\ \A i \in DOMAIN recs : SpansOf(recs[i]) = Holds(closed[i]) /\ Truthful(recs[i])
    /\ HeldIn(closed) \cup HeldIn(left) = OpenSpans \cup span
    /\ order' = left /\ Remember(closed) /\ ready' = [ready EXCEPT ![g] = recs]
    /\ out' = out /\ owed' = owed \cup span

(* The same over the in-flight episodes of all.  The records of closed episodes are originals. *)
Originals(recs, closed) ==
    \A i \in DOMAIN recs : \E st : st # "patched" /\ recs[i] = Episode(closed[i], st)

Within(s, all) == \A i \in DOMAIN s : s[i] \in all

CloseStep(g, all) ==
    \E closed, left, recs, span :
      /\ Closing(g, closed, left, recs, span)
      /\ Within(closed, all) /\ Within(left, all) /\ Originals(recs, closed)

LEMMA ReadyPut ==
    ASSUME ReadyInv, NEW g \in Goroutines, NEW recs, IsSeq(recs),
           \A i \in DOMAIN recs : Truthful(recs[i]),
           ready' = [ready EXCEPT ![g] = recs]
    PROVE  /\ ReadyInv' /\ ready'[g] = recs
           /\ \A h \in Goroutines : h # g => ready'[h] = ready[h]
<1>1. ready = [h \in Goroutines |-> ready[h]]
  BY DEF ReadyInv
<1>2. ready' = [h \in Goroutines |-> ready'[h]] /\ ready'[g] = recs
  BY <1>1
<1>3. \A h \in Goroutines : h # g => ready'[h] = ready[h]
  BY <1>1
<1>4. ASSUME NEW h \in Goroutines
      PROVE  IsSeq(ready'[h]) /\ \A i \in DOMAIN ready'[h] : Truthful(ready'[h][i])
  BY <1>2, <1>3 DEF ReadyInv
<1>5. ReadyInv'
  BY <1>2, <1>4 DEF ReadyInv, IsSeq, Truthful, Goroutines
<1> QED BY <1>2, <1>3, <1>5

LEMMA CloseEffect ==
    ASSUME AssemblerInv, NEW g, NEW closed, NEW left, NEW recs, NEW span,
           Closing(g, closed, left, recs, span)
    PROVE  AssemblerInv'
<1> USE DEF AssemblerInv
<1>1. g \in Goroutines /\ ready[g] = <<>>
  BY DEF Closing
<1>2. /\ MemoryInv' /\ forgotten \subseteq forgotten'
      /\ \A j \in DOMAIN memory' :
           \/ \E i \in DOMAIN memory : memory'[j] = memory[i]
           \/ \E i \in DOMAIN closed : memory'[j] = Note(closed[i])
      /\ \A i \in DOMAIN memory :
           \/ memory[i].key \in forgotten'
           \/ \E j \in DOMAIN memory' : memory'[j] = memory[i]
      /\ \A i \in DOMAIN closed :
           \/ closed[i].key \in forgotten'
           \/ \E j \in DOMAIN memory' : memory'[j] = Note(closed[i])
  BY RememberEffect DEF Closing
<1>3. /\ ReadyInv' /\ ready'[g] = recs
      /\ \A h \in Goroutines : h # g => ready'[h] = ready[h]
  BY ReadyPut DEF Closing
<1>4. OrderInv'
  BY DEF Closing, OrderInv, IsSeq, Distinct, IsInFlight
<1>5. ApartInv'
  BY <1>2 DEF Closing, Apart, ApartInv, Note
<1>6. OutInv'
  BY DEF Closing, OutInv, Truthful
<1>7. EmittedSpans' = EmittedSpans
  BY DEF Closing, EmittedSpans, SpansOf
<1>8. \A p : p \in ReadySpans' <=> p \in ReadySpans \/ p \in HeldIn(closed)
  <2>1. ASSUME NEW p
        PROVE  (\E i \in DOMAIN ready'[g] : p \in SpansOf(ready'[g][i])) <=> p \in HeldIn(closed)
    BY <1>3, HeldIs DEF Closing
  <2>2. DOMAIN ready[g] = {}
    BY <1>1
  <2> QED BY <2>1, <2>2, <1>1, <1>3, ReadyIs, ReadyIsNext
<1>9. OwedInv'
  <2>1. OpenSpans' = HeldIn(left)
    BY OpenIs DEF Closing
  <2>2. owed' = OpenSpans \cup ReadySpans \cup EmittedSpans \cup span
    BY DEF Closing, OwedInv
  <2>3. HeldIn(closed) \cup HeldIn(left) = OpenSpans \cup span
    BY DEF Closing
  <2> QED BY <2>1, <2>2, <2>3, <1>7, <1>8 DEF OwedInv
<1>10. TracedInv'
  <2> SUFFICES ASSUME NEW p, p \in ReadySpans' \cup EmittedSpans'
               PROVE  p[1] \in forgotten' \/ Remembered(p)'
    BY DEF TracedInv
  <2>1. CASE p \in ReadySpans \cup EmittedSpans
    <3>1. p[1] \in forgotten \/ Remembered(p)
      BY <2>1 DEF TracedInv
    <3>2. CASE p[1] \in forgotten
      BY <3>2, <1>2
    <3>3. CASE Remembered(p)
      BY <3>3, <1>2 DEF Remembered
    <3> QED BY <3>1, <3>2, <3>3
  <2>2. CASE p \in HeldIn(closed)
    <3>1. PICK i \in DOMAIN closed : p \in Holds(closed[i])
      BY <2>2, HeldIs
    <3>2. p[1] = closed[i].key /\ p[2] \in DOMAIN closed[i].spans
      BY <3>1 DEF Holds
    <3> QED BY <3>2, <1>2 DEF Remembered, Note
  <2> QED BY <2>1, <2>2, <1>7, <1>8
<1>11. ASSUME NEW p \in ReadySpans \cup EmittedSpans, p[1] \notin forgotten', NEW i \in DOMAIN closed
       PROVE  p \notin Holds(closed[i])
  <2>1. Remembered(p)
    BY <1>11, <1>2 DEF TracedInv
  <2>2. p \in Holds(closed[i]) => p[1] = closed[i].key
    BY DEF Holds
  <2> QED BY <2>1, <2>2 DEF Remembered, Closing, Apart
<1>12. OnceInv'
  <2> SUFFICES ASSUME NEW h \in Goroutines, NEW i \in DOMAIN ready'[h],
                      NEW p \in SpansOf(ready'[h][i]), p[1] \notin forgotten'
               PROVE  /\ p \notin EmittedSpans'
                      /\ \A k \in Goroutines : \A j \in DOMAIN ready'[k] :
                           p \in SpansOf(ready'[k][j]) => k = h /\ j = i
    BY DEF OnceInv, SpansOf, Goroutines
  <2>1. CASE h = g
    <3>1. i \in DOMAIN closed /\ p \in Holds(closed[i])
      BY <2>1, <1>3 DEF Closing
    <3>2. p \notin ReadySpans \cup EmittedSpans
      BY <3>1, <1>11
    <3>3. ASSUME NEW k \in Goroutines, NEW j \in DOMAIN ready'[k], p \in SpansOf(ready'[k][j])
          PROVE  k = h /\ j = i
      <4>1. k = g
        BY <3>2, <3>3, <1>3, ReadyIs
      <4>2. j \in DOMAIN closed /\ p \in Holds(closed[j])
        BY <4>1, <3>3, <1>3 DEF Closing
      <4>3. closed[j].key = closed[i].key
        BY <3>1, <4>2 DEF Holds
      <4> QED BY <4>1, <4>2, <4>3, <3>1, <2>1 DEF Closing, Distinct
    <3> QED BY <3>2, <3>3, <1>7
  <2>2. CASE h # g
    <3>1. ready'[h] = ready[h]
      BY <2>2, <1>3
    <3>2. p \in ReadySpans /\ p[1] \notin forgotten
      BY <3>1, <1>2, ReadyIs
    <3>3. ASSUME NEW k \in Goroutines, NEW j \in DOMAIN ready'[k], p \in SpansOf(ready'[k][j])
          PROVE  k = h /\ j = i
      <4>1. k # g
        <5>1. SUFFICES ASSUME k = g PROVE FALSE
          OBVIOUS
        <5>2. j \in DOMAIN closed /\ p \in Holds(closed[j])
          BY <5>1, <3>3, <1>3 DEF Closing
        <5> QED BY <5>2, <3>2, <1>11
      <4> QED BY <4>1, <3>1, <3>2, <3>3, <1>3 DEF OnceInv
    <3> QED BY <3>1, <3>2, <3>3, <1>7 DEF OnceInv
  <2> QED BY <2>1, <2>2
<1> QED BY <1>2, <1>3, <1>4, <1>5, <1>6, <1>9, <1>10, <1>12

(* expireLocked, over an open set that is apart from what is remembered. *)
LEMMA ExpireEffect ==
    ASSUME AssemblerInv, NEW g \in Goroutines, ready[g] = <<>>, NEW fs, NEW evicted, NEW span,
           NEW all, Within(fs, all), Within(evicted, all),
           IsSeq(fs), Distinct(fs), Apart(fs, memory), Len(fs) <= MaxInFlight,
           \A i \in DOMAIN fs : IsInFlight(fs[i]),
           IsSeq(evicted), Distinct(evicted), Apart(evicted, memory), Apart(evicted, fs),
           \A i \in DOMAIN evicted : IsInFlight(evicted[i]),
           HeldIn(evicted) \cup HeldIn(fs) = OpenSpans \cup span,
           ExpireLocked(g, fs, evicted), out' = out, owed' = owed \cup span
    PROVE  CloseStep(g, all)
<1>1. PICK D : D = {i \in DOMAIN fs : Due(fs[i])}
  OBVIOUS
<1>2. PICK W : W = {i \in DOMAIN fs : ~Due(fs[i])}
  OBVIOUS
<1>3. D \in SUBSET DOMAIN fs /\ W \in SUBSET DOMAIN fs /\ D \cap W = {} /\ D \cup W = DOMAIN fs
  BY <1>1, <1>2
<1>4. PICK due : due = Picked(fs, D)
  OBVIOUS
<1>5. PICK left : left = Picked(fs, W)
  OBVIOUS
<1>6. PICK d : /\ IsSeq(due) /\ Len(due) <= Len(fs)
               /\ \A i \in DOMAIN due : d[i] \in D /\ due[i] = fs[d[i]]
               /\ \A i, j \in DOMAIN due : d[i] = d[j] => i = j
               /\ \A k \in D : \E i \in DOMAIN due : d[i] = k
  BY <1>3, <1>4, PickedFacts
<1>7. PICK w : /\ IsSeq(left) /\ Len(left) <= Len(fs)
               /\ \A i \in DOMAIN left : w[i] \in W /\ left[i] = fs[w[i]]
               /\ \A i, j \in DOMAIN left : w[i] = w[j] => i = j
               /\ \A k \in W : \E i \in DOMAIN left : w[i] = k
  BY <1>3, <1>5, PickedFacts
<1>8. Distinct(due) /\ Distinct(left) /\ Apart(left, due)
  <2>1. Distinct(due)
    BY <1>3, <1>6 DEF Distinct
  <2>2. Distinct(left)
    BY <1>3, <1>7 DEF Distinct
  <2>3. Apart(left, due)
    <3> SUFFICES ASSUME NEW i \in DOMAIN left, NEW j \in DOMAIN due PROVE left[i].key # due[j].key
      BY DEF Apart
    <3>1. /\ left[i] = fs[w[i]] /\ due[j] = fs[d[j]] /\ w[i] # d[j]
          /\ w[i] \in DOMAIN fs /\ d[j] \in DOMAIN fs
      BY <1>3, <1>6, <1>7
    <3> QED BY <3>1 DEF Distinct
  <2> QED BY <2>1, <2>2, <2>3
<1>9. Apart(due, memory) /\ Apart(left, memory) /\ Apart(evicted, due) /\ Apart(evicted, left)
  BY <1>3, <1>6, <1>7 DEF Apart
<1>10. HeldIn(fs) = HeldIn(due) \cup HeldIn(left)
  <2>1. ASSUME NEW p \in HeldIn(fs) PROVE p \in HeldIn(due) \cup HeldIn(left)
    <3>1. PICK k \in DOMAIN fs : p \in Holds(fs[k])
      BY HeldIs
    <3>2. CASE k \in D
      BY <3>1, <3>2, <1>6, HeldIs
    <3>3. CASE k \in W
      BY <3>1, <3>3, <1>7, HeldIs
    <3> QED BY <3>2, <3>3, <1>3
  <2>2. ASSUME NEW p \in HeldIn(due) PROVE p \in HeldIn(fs)
    BY <1>3, <1>6, HeldIs
  <2>3. ASSUME NEW p \in HeldIn(left) PROVE p \in HeldIn(fs)
    BY <1>3, <1>7, HeldIs
  <2> QED BY <2>1, <2>2, <2>3
<1>11. PICK closed : closed = evicted \o due
  OBVIOUS
<1>12. /\ IsSeq(closed)
       /\ \A i \in DOMAIN evicted : i \in DOMAIN closed /\ closed[i] = evicted[i]
       /\ \A i \in DOMAIN due : i + Len(evicted) \in DOMAIN closed /\ closed[i + Len(evicted)] = due[i]
       /\ \A i \in DOMAIN closed :
            i \in DOMAIN evicted \/ (i - Len(evicted) \in DOMAIN due /\ closed[i] = due[i - Len(evicted)])
  BY <1>6, <1>11, Joined
<1>13. Apart(closed, memory) /\ Apart(left, closed)
  <2>1. Apart(closed, memory)
    BY <1>9, <1>12 DEF Apart
  <2>2. Apart(left, closed)
    BY <1>8, <1>9, <1>12 DEF Apart
  <2> QED BY <2>1, <2>2
<1>14. Distinct(closed)
  <2> SUFFICES ASSUME NEW i \in DOMAIN closed, NEW j \in DOMAIN closed, closed[i].key = closed[j].key
               PROVE  i = j
    BY DEF Distinct
  <2>1. CASE i \in DOMAIN evicted /\ j \in DOMAIN evicted
    BY <2>1, <1>12 DEF Distinct
  <2>2. CASE i \in DOMAIN evicted /\ j \notin DOMAIN evicted
    BY <2>2, <1>9, <1>12 DEF Apart
  <2>3. CASE i \notin DOMAIN evicted /\ j \in DOMAIN evicted
    BY <2>3, <1>9, <1>12 DEF Apart
  <2>4. CASE i \notin DOMAIN evicted /\ j \notin DOMAIN evicted
    <3>1. i - Len(evicted) = j - Len(evicted)
      BY <2>4, <1>8, <1>12 DEF Distinct
    <3>2. i \in Nat /\ j \in Nat /\ Len(evicted) \in Nat
      BY <1>12, SeqShape
    <3> QED BY <3>1, <3>2
  <2> QED BY <2>1, <2>2, <2>3, <2>4
<1>15. HeldIn(closed) = HeldIn(evicted) \cup HeldIn(due)
  <2>1. ASSUME NEW p \in HeldIn(closed) PROVE p \in HeldIn(evicted) \cup HeldIn(due)
    <3>1. PICK k \in DOMAIN closed : p \in Holds(closed[k])
      BY HeldIs
    <3>2. CASE k \in DOMAIN evicted
      BY <3>1, <3>2, <1>12, HeldIs
    <3>3. CASE k \notin DOMAIN evicted
      BY <3>1, <3>3, <1>12, HeldIs
    <3> QED BY <3>2, <3>3
  <2>2. ASSUME NEW p \in HeldIn(evicted) PROVE p \in HeldIn(closed)
    BY <1>12, HeldIs
  <2>3. ASSUME NEW p \in HeldIn(due) PROVE p \in HeldIn(closed)
    BY <1>12, HeldIs
  <2> QED BY <2>1, <2>2, <2>3
<1>16. PICK er : er = [i \in DOMAIN evicted |-> Episode(evicted[i], "evicted")]
  OBVIOUS
<1>17. PICK dr : dr = [i \in DOMAIN due |-> Episode(due[i], ExpiredStatus(due[i]))]
  OBVIOUS
<1>18. /\ IsSeq(er) /\ DOMAIN er = DOMAIN evicted /\ Len(er) = Len(evicted)
       /\ IsSeq(dr) /\ DOMAIN dr = DOMAIN due /\ Len(dr) = Len(due)
       /\ \A i \in DOMAIN er : er[i] = Episode(evicted[i], "evicted")
       /\ \A i \in DOMAIN dr : dr[i] = Episode(due[i], ExpiredStatus(due[i]))
  <2>1. IsSeq(er) /\ DOMAIN er = DOMAIN evicted /\ Len(er) = Len(evicted)
    <3>1. er = [i \in DOMAIN evicted |-> er[i]]
      BY <1>16
    <3> QED BY <3>1, SeqLike
  <2>2. IsSeq(dr) /\ DOMAIN dr = DOMAIN due /\ Len(dr) = Len(due)
    <3>1. dr = [i \in DOMAIN due |-> dr[i]]
      BY <1>17
    <3> QED BY <3>1, <1>6, SeqLike
  <2> QED BY <2>1, <2>2, <1>16, <1>17
<1>19. PICK recs : recs = er \o dr
  OBVIOUS
<1>20. /\ IsSeq(recs) /\ Len(recs) = Len(er) + Len(dr)
       /\ \A i \in DOMAIN er : i \in DOMAIN recs /\ recs[i] = er[i]
       /\ \A i \in DOMAIN recs :
            i \in DOMAIN er \/ (i - Len(er) \in DOMAIN dr /\ recs[i] = dr[i - Len(er)])
  <2>1. IsSeq(er) /\ IsSeq(dr)
    BY <1>18
  <2> QED BY <2>1, <1>19, Joined
<1>21. DOMAIN recs = DOMAIN closed
  <2>1. Len(closed) = Len(evicted) + Len(due)
    BY <1>6, <1>11, Joined
  <2>2. DOMAIN closed = 1 .. Len(closed) /\ DOMAIN recs = 1 .. Len(recs)
    BY <1>12, <1>20, SeqShape
  <2> QED BY <2>1, <2>2, <1>18, <1>20
<1>22. ASSUME NEW i \in DOMAIN recs
       PROVE  SpansOf(recs[i]) = Holds(closed[i]) /\ Truthful(recs[i])
  <2>1. CASE i \in DOMAIN evicted
    <3>1. recs[i] = Episode(evicted[i], "evicted") /\ closed[i] = evicted[i]
      BY <2>1, <1>12, <1>18, <1>20
    <3>2. Truthful(Episode(evicted[i], "evicted"))
      BY <2>1, ClosedTruthfully
    <3> QED BY <3>1, <3>2, EpisodeSpans
  <2>2. CASE i \notin DOMAIN evicted
    <3>1. PICK k \in DOMAIN due : /\ recs[i] = Episode(due[k], ExpiredStatus(due[k]))
                                  /\ closed[i] = due[k]
      BY <2>2, <1>12, <1>18, <1>20, <1>21
    <3>2. due[k] = fs[d[k]] /\ d[k] \in DOMAIN fs /\ Due(fs[d[k]])
      BY <1>1, <1>6
    <3>3. Truthful(Episode(due[k], ExpiredStatus(due[k])))
      BY <3>2, ClosedTruthfully
    <3> QED BY <3>1, <3>3, EpisodeSpans
  <2> QED BY <2>1, <2>2
<1>23. /\ order' = left /\ Remember(closed) /\ ready' = [ready EXCEPT ![g] = recs]
  BY <1>1, <1>2, <1>4, <1>5, <1>11, <1>16, <1>17, <1>19 DEF ExpireLocked
<1>24. HeldIn(closed) \cup HeldIn(left) = OpenSpans \cup span
  BY <1>10, <1>15
<1>25. Len(left) <= MaxInFlight
  <2>1. Len(left) \in Nat /\ Len(fs) \in Nat /\ MaxInFlight \in Nat
    BY <1>7, SeqShape, AssemblyOptions
  <2> QED BY <2>1, <1>7
<1>26. \A i \in DOMAIN left : IsInFlight(left[i])
  BY <1>3, <1>7
<1>27. Closing(g, closed, left, recs, span)
  BY <1>7, <1>8, <1>9, <1>12, <1>13, <1>14, <1>20, <1>21, <1>22, <1>23, <1>24, <1>25, <1>26
     DEF Closing
<1>28. Within(closed, all) /\ Within(left, all)
  <2>1. Within(closed, all)
    BY <1>3, <1>6, <1>12 DEF Within
  <2>2. Within(left, all)
    BY <1>3, <1>7 DEF Within
  <2> QED BY <2>1, <2>2
<1>29. Originals(recs, closed)
  <2> SUFFICES ASSUME NEW i \in DOMAIN recs
               PROVE  \E st : st # "patched" /\ recs[i] = Episode(closed[i], st)
    BY DEF Originals
  <2>1. CASE i \in DOMAIN evicted
    BY <2>1, <1>12, <1>18, <1>20
  <2>2. CASE i \notin DOMAIN evicted
    <3>1. PICK k \in DOMAIN due : /\ recs[i] = Episode(due[k], ExpiredStatus(due[k]))
                                  /\ closed[i] = due[k]
      BY <2>2, <1>12, <1>18, <1>20, <1>21
    <3>2. ExpiredStatus(due[k]) # "patched"
      BY DEF ExpiredStatus
    <3> QED BY <3>1, <3>2
  <2> QED BY <2>1, <2>2
<1> QED BY <1>27, <1>28, <1>29 DEF CloseStep

LEMMA CloseStepKeeps ==
    ASSUME AssemblerInv, NEW g, NEW all, CloseStep(g, all)
    PROVE  AssemblerInv'
BY CloseEffect DEF CloseStep

-----------------------------------------------------------------------------
(* The steps. *)

(* The open set after absorbing e into its session. *)
Absorbed(e) ==
    {IF order[i].key = e.session THEN Absorb(order[i], e) ELSE order[i] : i \in DOMAIN order}

(* The open set with a new episode for e. *)
NewKey(e) == IF e.session # None THEN e.session ELSE NewSessionKey
NewId(e) == IF e.id # None THEN e.id ELSE NewEpisodeID
Widened(e) == Range(order) \cup {Absorb(NewInFlight(NewKey(e), NewId(e)), e)}

(* What the lemmas about closing need of an open set that is not closed any further. *)
LEMMA OpenSet ==
    ASSUME AssemblerInv
    PROVE  /\ IsSeq(order) /\ Distinct(order) /\ Apart(order, memory) /\ Len(order) <= MaxInFlight
           /\ \A i \in DOMAIN order : IsInFlight(order[i])
           /\ OpenSpans = HeldIn(order)
           /\ IsSeq(<<>>) /\ DOMAIN <<>> = {} /\ HeldIn(<<>>) = {}
BY OpenIs, NoneSeq DEF AssemblerInv, OrderInv, ApartInv, Apart, HeldIn

LEMMA AddOpenCloses ==
    ASSUME AssemblerInv, NEW g \in Goroutines, NEW e, AddOpen(g, e)
    PROVE  CloseStep(g, Absorbed(e))
<1>1. PICK fs : fs = [i \in DOMAIN order |->
                        IF order[i].key = e.session THEN Absorb(order[i], e) ELSE order[i]]
  OBVIOUS
<1>2. /\ IsSeq(fs) /\ Len(fs) = Len(order) /\ DOMAIN fs = DOMAIN order
  BY <1>1, OpenSet, SeqLike
<1>3. \A i \in DOMAIN order :
        fs[i] = IF order[i].key = e.session THEN Absorb(order[i], e) ELSE order[i]
  BY <1>1
<1>4. \A i \in DOMAIN order : IsInFlight(order[i])
  BY OpenSet
<1>5. ASSUME NEW i \in DOMAIN order
      PROVE  /\ IsInFlight(fs[i]) /\ fs[i].key = order[i].key
             /\ Holds(order[i]) \subseteq Holds(fs[i])
             /\ Holds(fs[i]) \subseteq Holds(order[i]) \cup {<<e.session, SpanKey(e)>>}
             /\ order[i].key = e.session => <<e.session, SpanKey(e)>> \in Holds(fs[i])
  <2>1. CASE order[i].key = e.session
    <3>1. fs[i] = Absorb(order[i], e)
      BY <2>1, <1>3
    <3>2. /\ IsInFlight(Absorb(order[i], e)) /\ Absorb(order[i], e).key = order[i].key
          /\ Holds(Absorb(order[i], e)) = Holds(order[i]) \cup {<<order[i].key, SpanKey(e)>>}
      BY <1>4, AbsorbEffect
    <3> QED BY <2>1, <3>1, <3>2
  <2>2. CASE order[i].key # e.session
    BY <2>2, <1>3, <1>4
  <2> QED BY <2>1, <2>2
<1>6. PICK at \in DOMAIN order : order[at].key = e.session
  BY DEF AddOpen, KeysIn
<1>7. Distinct(fs) /\ Apart(fs, memory)
  <2>1. Distinct(fs)
    BY <1>2, <1>5, OpenSet DEF Distinct
  <2>2. Apart(fs, memory)
    BY <1>2, <1>5, OpenSet DEF Apart
  <2> QED BY <2>1, <2>2
<1>8. HeldIn(fs) = HeldIn(order) \cup {<<e.session, SpanKey(e)>>}
  <2>1. HeldIn(fs) \subseteq HeldIn(order) \cup {<<e.session, SpanKey(e)>>}
    BY <1>2, <1>5, HeldIs
  <2>2. HeldIn(order) \subseteq HeldIn(fs)
    BY <1>2, <1>5, HeldIs
  <2>3. <<e.session, SpanKey(e)>> \in HeldIn(fs)
    BY <1>2, <1>5, <1>6, HeldIs
  <2> QED BY <2>1, <2>2, <2>3
<1>9. /\ ready[g] = <<>> /\ ExpireLocked(g, fs, <<>>) /\ out' = out
      /\ owed' = owed \cup {<<e.session, SpanKey(e)>>}
  BY <1>1 DEF AddOpen, CanAdd
<1>10. /\ Len(fs) <= MaxInFlight /\ \A i \in DOMAIN fs : IsInFlight(fs[i])
  BY <1>2, <1>5, OpenSet
<1>11. /\ IsSeq(<<>>) /\ Distinct(<<>>) /\ Apart(<<>>, memory) /\ Apart(<<>>, fs)
       /\ \A i \in DOMAIN <<>> : IsInFlight(<<>>[i])
  BY OpenSet DEF Distinct, Apart
<1>12. HeldIn(<<>>) \cup HeldIn(fs) = OpenSpans \cup {<<e.session, SpanKey(e)>>}
  BY <1>8, OpenSet
<1>13. Within(fs, Absorbed(e)) /\ Within(<<>>, Absorbed(e))
  <2>1. Within(fs, Absorbed(e))
    BY <1>2, <1>3 DEF Within, Absorbed
  <2>2. Within(<<>>, Absorbed(e))
    BY OpenSet DEF Within
  <2> QED BY <2>1, <2>2
<1> QED BY <1>2, <1>7, <1>9, <1>10, <1>11, <1>12, <1>13, ExpireEffect

LEMMA ExpireCloses ==
    ASSUME AssemblerInv, Expire
    PROVE  CloseStep(Main, Range(order))
<1>1. /\ Main \in Goroutines /\ ready[Main] = <<>> /\ ExpireLocked(Main, order, <<>>)
      /\ out' = out /\ owed' = owed \cup {}
  BY DEF Expire, Goroutines
<1>2. /\ IsSeq(<<>>) /\ Distinct(<<>>) /\ Apart(<<>>, memory) /\ Apart(<<>>, order)
      /\ \A i \in DOMAIN <<>> : IsInFlight(<<>>[i])
  BY OpenSet DEF Distinct, Apart
<1>3. HeldIn(<<>>) \cup HeldIn(order) = OpenSpans \cup {}
  BY OpenSet
<1>4. Within(order, Range(order)) /\ Within(<<>>, Range(order))
  BY OpenSet DEF Within, Range
<1> QED BY <1>1, <1>2, <1>3, <1>4, OpenSet, ExpireEffect

LEMMA FlushCloses ==
    ASSUME AssemblerInv, Flush
    PROVE  CloseStep(Main, Range(order))
<1>1. PICK recs : recs = [i \in DOMAIN order |-> Episode(order[i], FlushStatus(order[i]))]
  OBVIOUS
<1>2. /\ IsSeq(recs) /\ DOMAIN recs = DOMAIN order
      /\ \A i \in DOMAIN order : recs[i] = Episode(order[i], FlushStatus(order[i]))
  <2>1. recs = [i \in DOMAIN order |-> recs[i]]
    BY <1>1
  <2> QED BY <2>1, <1>1, OpenSet, SeqLike
<1>3. ASSUME NEW i \in DOMAIN recs
      PROVE  SpansOf(recs[i]) = Holds(order[i]) /\ Truthful(recs[i])
  <2>1. Truthful(Episode(order[i], FlushStatus(order[i])))
    BY <1>2, OpenSet, ClosedTruthfully
  <2> QED BY <2>1, <1>2, EpisodeSpans
<1>4. /\ Main \in Goroutines /\ ready[Main] = <<>> /\ order' = <<>> /\ Remember(order)
      /\ ready' = [ready EXCEPT ![Main] = recs] /\ out' = out /\ owed' = owed \cup {}
  BY <1>1 DEF Flush, Goroutines
<1>5. /\ IsSeq(<<>>) /\ Distinct(<<>>) /\ Apart(<<>>, memory) /\ Apart(<<>>, order)
      /\ Len(<<>>) <= MaxInFlight /\ \A i \in DOMAIN <<>> : IsInFlight(<<>>[i])
  <2>1. Len(<<>>) = 0 /\ MaxInFlight \in Nat
    BY AssemblyOptions
  <2> QED BY <2>1, OpenSet DEF Distinct, Apart
<1>6. HeldIn(order) \cup HeldIn(<<>>) = OpenSpans \cup {}
  BY OpenSet
<1>7. Closing(Main, order, <<>>, recs, {})
  BY <1>2, <1>3, <1>4, <1>5, <1>6, OpenSet DEF Closing
<1>8. Within(order, Range(order)) /\ Within(<<>>, Range(order))
  BY OpenSet DEF Within, Range
<1>9. Originals(recs, order)
  <2>1. \A f : FlushStatus(f) # "patched"
    BY DEF FlushStatus
  <2> QED BY <2>1, <1>2 DEF Originals
<1> QED BY <1>7, <1>8, <1>9 DEF CloseStep

(* The open set once there is room for one more. *)
RoomMade(left, ev) ==
    \/ ~(Len(order) >= MaxInFlight) /\ left = order /\ ev = <<>>
    \/ Len(order) >= MaxInFlight /\ left = Tail(order) /\ ev = <<Head(order)>>

LEMMA MakeRoom ==
    ASSUME AssemblerInv, NEW left, NEW ev, RoomMade(left, ev)
    PROVE  /\ IsSeq(left) /\ Distinct(left) /\ Len(left) < MaxInFlight
           /\ IsSeq(ev) /\ Distinct(ev) /\ Apart(ev, left)
           /\ \A i \in DOMAIN left : \E j \in DOMAIN order : left[i] = order[j]
           /\ \A i \in DOMAIN ev : \E j \in DOMAIN order : ev[i] = order[j]
           /\ HeldIn(ev) \cup HeldIn(left) = HeldIn(order)
<1>1. /\ IsSeq(order) /\ Distinct(order) /\ Len(order) <= MaxInFlight
      /\ Len(order) \in Nat /\ DOMAIN order = 1 .. Len(order)
      /\ MaxInFlight \in Nat /\ MaxInFlight > 0
  BY OpenSet, SeqShape, AssemblyOptions
<1>2. CASE ~(Len(order) >= MaxInFlight)
  <2>1. Len(order) < MaxInFlight /\ left = order /\ ev = <<>>
    BY <1>1, <1>2 DEF RoomMade
  <2>2. Distinct(<<>>) /\ Apart(<<>>, order)
    BY OpenSet DEF Distinct, Apart
  <2>3. \A i \in DOMAIN <<>> : \E j \in DOMAIN order : <<>>[i] = order[j]
    BY OpenSet
  <2>4. HeldIn(<<>>) \cup HeldIn(order) = HeldIn(order)
    BY OpenSet
  <2>5. \A i \in DOMAIN order : \E j \in DOMAIN order : order[i] = order[j]
    OBVIOUS
  <2> QED BY <2>1, <2>2, <2>3, <2>4, <2>5, <1>1, OpenSet
<1>3. CASE Len(order) >= MaxInFlight
  <2>1. order # <<>> /\ Len(order) > 0
    BY <1>1, <1>3
  <2>2. left = Tail(order) /\ ev = <<Head(order)>>
    BY <1>3 DEF RoomMade
  <2>3. PICK h : h = Head(order)
    OBVIOUS
  <2>4. /\ IsSeq(left) /\ Len(left) = Len(order) - 1 /\ DOMAIN left = 1 .. Len(order) - 1
        /\ \A i \in 1 .. Len(order) - 1 : left[i] = order[i + 1]
        /\ h = order[1] /\ 1 \in DOMAIN order
    <3>1. IsSeq(left)
      BY <2>1, <2>2, <1>1, HeadAndTail
    <3> QED BY <3>1, <2>1, <2>2, <2>3, <1>1 DEF IsSeq
  <2>5. ev = <<h>>
    BY <2>2, <2>3
  <2>12. PICK n \in Nat : n = Len(order) /\ DOMAIN order = 1 .. n /\ DOMAIN left = 1 .. n - 1
    BY <2>4, <1>1
  <2>6. IsSeq(ev) /\ DOMAIN ev = {1} /\ ev[1] = h
    BY <2>5, OneSeq
  <2>7. ASSUME NEW i \in DOMAIN left
        PROVE  i \in Nat /\ i > 0 /\ i + 1 \in DOMAIN order /\ left[i] = order[i + 1]
    BY <2>4, <2>12
  <2>8. Distinct(left) /\ Distinct(ev) /\ Apart(ev, left)
    <3>1. Distinct(left)
      <4> SUFFICES ASSUME NEW i \in DOMAIN left, NEW j \in DOMAIN left, left[i].key = left[j].key
                   PROVE  i = j
        BY DEF Distinct
      <4>1. i + 1 = j + 1
        BY <2>7, <1>1 DEF Distinct
      <4> QED BY <4>1, <2>7
    <3>2. Distinct(ev)
      BY <2>6 DEF Distinct
    <3>3. ASSUME NEW j \in DOMAIN left PROVE h.key # left[j].key
      <4>1. j + 1 # 1
        BY <2>7
      <4> QED BY <4>1, <2>4, <2>7, <1>1 DEF Distinct
    <3> QED BY <3>1, <3>2, <3>3, <2>6 DEF Apart
  <2>9. Len(left) < MaxInFlight
    BY <2>4, <1>1
  <2>10. HeldIn(ev) \cup HeldIn(left) = HeldIn(order)
    <3>1. ASSUME NEW p \in HeldIn(order) PROVE p \in HeldIn(ev) \cup HeldIn(left)
      <4>1. PICK i \in DOMAIN order : p \in Holds(order[i])
        BY HeldIs
      <4>2. CASE i = 1
        BY <4>1, <4>2, <2>4, <2>6, HeldIs
      <4>3. CASE i # 1
        <5>1. i - 1 \in DOMAIN left /\ left[i - 1] = order[i]
          BY <4>3, <2>4, <2>12
        <5> QED BY <4>1, <5>1, HeldIs
      <4> QED BY <4>2, <4>3
    <3>2. ASSUME NEW p \in HeldIn(ev) PROVE p \in HeldIn(order)
      BY <2>4, <2>6, HeldIs
    <3>3. ASSUME NEW p \in HeldIn(left) PROVE p \in HeldIn(order)
      BY <2>7, HeldIs
    <3> QED BY <3>1, <3>2, <3>3
  <2>11. /\ \A i \in DOMAIN left : \E j \in DOMAIN order : left[i] = order[j]
         /\ \A i \in DOMAIN ev : \E j \in DOMAIN order : ev[i] = order[j]
    BY <2>4, <2>6, <2>7
  <2> QED BY <2>4, <2>6, <2>8, <2>9, <2>10, <2>11
<1> QED BY <1>2, <1>3

LEMMA AddNewCloses ==
    ASSUME AssemblerInv, NEW g \in Goroutines, NEW e, AddNew(g, e)
    PROVE  CloseStep(g, Widened(e))
<1>1. PICK key : key = IF e.session # None THEN e.session ELSE NewSessionKey
  OBVIOUS
<1>2. PICK id : id = IF e.id # None THEN e.id ELSE NewEpisodeID
  OBVIOUS
<1>3. PICK left : left = IF Len(order) >= MaxInFlight THEN Tail(order) ELSE order
  OBVIOUS
<1>4. PICK ev : ev = IF Len(order) >= MaxInFlight THEN <<Head(order)>> ELSE <<>>
  OBVIOUS
<1>5. PICK f : f = Absorb(NewInFlight(key, id), e)
  OBVIOUS
<1>6. PICK fs : fs = Append(left, f)
  OBVIOUS
<1>7. /\ ready[g] = <<>> /\ key \notin KeysIn(order) \cup KeysIn(memory)
      /\ ExpireLocked(g, fs, ev) /\ out' = out /\ owed' = owed \cup {<<key, SpanKey(e)>>}
  BY <1>1, <1>2, <1>3, <1>4, <1>5, <1>6 DEF AddNew, CanAdd
<1>8. /\ IsSeq(left) /\ Distinct(left) /\ Len(left) < MaxInFlight
      /\ IsSeq(ev) /\ Distinct(ev) /\ Apart(ev, left)
      /\ \A i \in DOMAIN left : \E j \in DOMAIN order : left[i] = order[j]
      /\ \A i \in DOMAIN ev : \E j \in DOMAIN order : ev[i] = order[j]
      /\ HeldIn(ev) \cup HeldIn(left) = HeldIn(order)
  <2>1. RoomMade(left, ev)
    BY <1>3, <1>4 DEF RoomMade
  <2> QED BY <2>1, MakeRoom
<1>9. IsInFlight(f) /\ f.key = key /\ Holds(f) = {<<key, SpanKey(e)>>}
  <2>1. /\ IsInFlight(NewInFlight(key, id)) /\ NewInFlight(key, id).key = key
        /\ Holds(NewInFlight(key, id)) = {}
    BY NewEffect
  <2> QED BY <2>1, <1>5, AbsorbEffect
<1>10. PICK n \in Nat : n = Len(left) /\ DOMAIN left = 1 .. n
  BY <1>8, SeqShape
<1>11. /\ IsSeq(fs) /\ Len(fs) = n + 1 /\ DOMAIN fs = 1 .. n + 1
       /\ \A i \in DOMAIN left : i \in DOMAIN fs /\ fs[i] = left[i]
       /\ n + 1 \in DOMAIN fs /\ fs[n + 1] = f
       /\ \A i \in DOMAIN fs : i \in DOMAIN left \/ i = n + 1
  <2>1. left \in Seq(Range(left) \cup {f})
    BY <1>8 DEF IsSeq
  <2>2. fs \in Seq(Range(left) \cup {f}) /\ Len(fs) = n + 1 /\ DOMAIN fs = 1 .. n + 1
    BY <2>1, <1>6, <1>10
  <2>3. /\ \A i \in DOMAIN left : i \in DOMAIN fs /\ fs[i] = left[i]
        /\ fs[n + 1] = f
    BY <2>1, <1>6, <1>10
  <2>4. IsSeq(fs)
    BY <2>2, SeqOfItsRange
  <2> QED BY <2>2, <2>3, <2>4, <1>10
<1>12. /\ \A j \in DOMAIN order : order[j].key # key
       /\ \A j \in DOMAIN memory : memory[j].key # key
  BY <1>7 DEF KeysIn
<1>13. Distinct(fs)
  <2> SUFFICES ASSUME NEW i \in DOMAIN fs, NEW j \in DOMAIN fs, fs[i].key = fs[j].key PROVE i = j
    BY DEF Distinct
  <2>1. \A k \in DOMAIN left : left[k].key # key
    BY <1>8, <1>12
  <2>2. CASE i \in DOMAIN left /\ j \in DOMAIN left
    BY <2>2, <1>8, <1>11 DEF Distinct
  <2>3. CASE i \in DOMAIN left /\ j = n + 1
    BY <2>1, <2>3, <1>9, <1>11
  <2>4. CASE i = n + 1 /\ j \in DOMAIN left
    BY <2>1, <2>4, <1>9, <1>11
  <2> QED BY <2>2, <2>3, <2>4, <1>11
<1>14. Apart(fs, memory)
  <2>1. Apart(left, memory)
    BY <1>8, OpenSet DEF Apart
  <2> QED BY <2>1, <1>9, <1>11, <1>12 DEF Apart
<1>15. Apart(ev, memory) /\ Apart(ev, fs)
  <2>1. Apart(ev, memory)
    BY <1>8, OpenSet DEF Apart
  <2>2. \A k \in DOMAIN ev : ev[k].key # key
    BY <1>8, <1>12
  <2>3. Apart(ev, fs)
    BY <2>2, <1>8, <1>9, <1>11 DEF Apart
  <2> QED BY <2>1, <2>3
<1>16. Len(fs) <= MaxInFlight
  BY <1>8, <1>10, <1>11, AssemblyOptions
<1>17. /\ \A i \in DOMAIN fs : IsInFlight(fs[i])
       /\ \A i \in DOMAIN ev : IsInFlight(ev[i])
  BY <1>8, <1>9, <1>11, OpenSet
<1>18. HeldIn(fs) = HeldIn(left) \cup {<<key, SpanKey(e)>>}
  <2>1. ASSUME NEW p \in HeldIn(fs) PROVE p \in HeldIn(left) \cup {<<key, SpanKey(e)>>}
    BY <1>9, <1>11, HeldIs
  <2>2. ASSUME NEW p \in HeldIn(left) PROVE p \in HeldIn(fs)
    BY <1>11, HeldIs
  <2>3. <<key, SpanKey(e)>> \in HeldIn(fs)
    BY <1>9, <1>11, HeldIs
  <2> QED BY <2>1, <2>2, <2>3
<1>19. HeldIn(ev) \cup HeldIn(fs) = OpenSpans \cup {<<key, SpanKey(e)>>}
  BY <1>8, <1>18, OpenSet
<1>20. Within(fs, Widened(e)) /\ Within(ev, Widened(e))
  <2>1. f \in Widened(e) /\ \A j \in DOMAIN order : order[j] \in Widened(e)
    BY <1>1, <1>2, <1>5 DEF Widened, NewKey, NewId, Range
  <2> QED BY <2>1, <1>8, <1>11 DEF Within
<1> QED BY <1>7, <1>8, <1>11, <1>13, <1>14, <1>15, <1>16, <1>17, <1>19, <1>20, ExpireEffect

LEMMA MarkedEntry ==
    ASSUME NEW m, IsEntry(m), NEW span
    PROVE  /\ IsEntry(Marked(m, span)) /\ Marked(m, span).key = m.key /\ Marked(m, span).id = m.id
           /\ Marked(m, span).spans = m.spans \cup {span}
<1>1. PICK a, b, c : m = [key |-> a, id |-> b, spans |-> c]
  BY Zenon DEF IsEntry
<1>2. PICK n : n = Marked(m, span)
  OBVIOUS
<1>3. n = [key |-> a, id |-> b, spans |-> c \cup {span}]
  BY <1>1, <1>2 DEF Marked
<1> QED BY <1>1, <1>2, <1>3 DEF IsEntry

LEMMA AddLateKeeps ==
    ASSUME AssemblerInv, NEW g \in Goroutines, NEW e, AddLate(g, e)
    PROVE  AssemblerInv'
<1> USE DEF AssemblerInv
<1>1. PICK i \in DOMAIN memory :
        /\ memory[i].key = e.session /\ SpanKey(e) \notin memory[i].spans
        /\ memory' = [memory EXCEPT ![i] = Marked(@, SpanKey(e))]
        /\ patchIdx' = Put(patchIdx, memory[i].id, NextPatchIdx(memory[i].id) + 1)
        /\ ready' = [ready EXCEPT ![g] = <<PatchFor(e.session, memory[i].id, e)>>]
  BY DEF AddLate
<1>2. PICK p : p = <<e.session, SpanKey(e)>>
  OBVIOUS
<1>3. /\ ready[g] = <<>> /\ owed' = owed \cup {p}
      /\ order' = order /\ out' = out /\ forgotten' = forgotten
  BY <1>2 DEF AddLate, CanAdd
<1>4. PICK recs : recs = <<PatchFor(e.session, memory[i].id, e)>>
  OBVIOUS
<1>5. /\ IsSeq(recs) /\ DOMAIN recs = {1}
      /\ SpansOf(recs[1]) = {p} /\ Truthful(recs[1])
  BY <1>2, <1>4, OneSeq, PatchSpans
<1>6. /\ ReadyInv' /\ ready'[g] = recs
      /\ \A h \in Goroutines : h # g => ready'[h] = ready[h]
  BY <1>1, <1>4, <1>5, ReadyPut
<1>7. /\ IsSeq(memory) /\ memory = [j \in DOMAIN memory |-> memory[j]]
      /\ \A j \in DOMAIN memory : IsEntry(memory[j])
  BY SeqShape DEF MemoryInv
<1>8. /\ memory' = [j \in DOMAIN memory |-> memory'[j]]
      /\ memory'[i] = Marked(memory[i], SpanKey(e))
      /\ \A j \in DOMAIN memory : j # i => memory'[j] = memory[j]
  BY <1>1, <1>7
<1>9. IsSeq(memory') /\ Len(memory') = Len(memory) /\ DOMAIN memory' = DOMAIN memory
  BY <1>7, <1>8, SeqLike
<1>10. ASSUME NEW j \in DOMAIN memory
       PROVE  /\ IsEntry(memory'[j]) /\ memory'[j].key = memory[j].key /\ memory'[j].id = memory[j].id
              /\ memory[j].spans \subseteq memory'[j].spans
  <2>1. CASE j = i
    BY <2>1, <1>7, <1>8, MarkedEntry
  <2>2. CASE j # i
    BY <2>2, <1>7, <1>8
  <2> QED BY <2>1, <2>2
<1>11. MemoryInv'
  <2>1. Distinct(memory')
    BY <1>9, <1>10 DEF MemoryInv, Distinct
  <2>2. \A id \in DOMAIN patchIdx' : \E j \in DOMAIN memory' : memory'[j].id = id
    <3>1. DOMAIN patchIdx' = DOMAIN patchIdx \cup {memory[i].id}
      BY <1>1 DEF Put
    <3> QED BY <3>1, <1>9, <1>10 DEF MemoryInv
  <2>3. Len(memory') <= PatchMemory
    BY <1>9 DEF MemoryInv
  <2>4. \A j \in DOMAIN memory' : IsEntry(memory'[j])
    BY <1>9, <1>10
  <2> QED BY <2>1, <2>2, <2>3, <2>4, <1>9 DEF MemoryInv, IsSeq, Distinct, IsEntry
<1>12. OrderInv' /\ ApartInv' /\ OutInv'
  <2>1. OrderInv'
    BY <1>3 DEF OrderInv, IsSeq, Distinct, IsInFlight
  <2>2. ApartInv'
    BY <1>3, <1>9, <1>10 DEF ApartInv
  <2>3. OutInv'
    BY <1>3 DEF OutInv, Truthful
  <2> QED BY <2>1, <2>2, <2>3
<1>13. EmittedSpans' = EmittedSpans /\ OpenSpans' = OpenSpans
  BY <1>3, OpenIs DEF EmittedSpans, SpansOf
<1>14. \A q : q \in ReadySpans' <=> q \in ReadySpans \/ q = p
  <2>1. ASSUME NEW q
        PROVE  (\E j \in DOMAIN ready'[g] : q \in SpansOf(ready'[g][j])) <=> q = p
    BY <1>5, <1>6
  <2>2. DOMAIN ready[g] = {}
    BY <1>3
  <2> QED BY <2>1, <2>2, <1>6, ReadyIs, ReadyIsNext
<1>15. OwedInv'
  BY <1>3, <1>13, <1>14 DEF OwedInv
<1>16. TracedInv'
  <2> SUFFICES ASSUME NEW q, q \in ReadySpans' \cup EmittedSpans'
               PROVE  q[1] \in forgotten' \/ Remembered(q)'
    BY DEF TracedInv
  <2>1. CASE q = p
    <3>1. q[1] = e.session /\ q[2] = SpanKey(e)
      BY <2>1, <1>2
    <3>2. memory'[i].key = e.session /\ SpanKey(e) \in memory'[i].spans
      BY <1>1, <1>7, <1>8, MarkedEntry
    <3> QED BY <3>1, <3>2, <1>9 DEF Remembered
  <2>2. CASE q \in ReadySpans \cup EmittedSpans
    <3>1. q[1] \in forgotten \/ Remembered(q)
      BY <2>2 DEF TracedInv
    <3>2. Remembered(q) => Remembered(q)'
      BY <1>9, <1>10 DEF Remembered
    <3> QED BY <3>1, <3>2, <1>3
  <2> QED BY <2>1, <2>2, <1>13, <1>14
<1>17. p[1] \notin forgotten => p \notin ReadySpans \cup EmittedSpans
  <2> SUFFICES ASSUME p[1] \notin forgotten, p \in ReadySpans \cup EmittedSpans PROVE FALSE
    OBVIOUS
  <2>1. PICK j \in DOMAIN memory : memory[j].key = e.session /\ SpanKey(e) \in memory[j].spans
    BY <1>2 DEF TracedInv, Remembered
  <2>2. j = i
    BY <2>1, <1>1 DEF MemoryInv, Distinct
  <2> QED BY <2>1, <2>2, <1>1
<1>18. OnceInv'
  <2> SUFFICES ASSUME NEW h \in Goroutines, NEW a \in DOMAIN ready'[h],
                      NEW q \in SpansOf(ready'[h][a]), q[1] \notin forgotten'
               PROVE  /\ q \notin EmittedSpans'
                      /\ \A k \in Goroutines : \A b \in DOMAIN ready'[k] :
                           q \in SpansOf(ready'[k][b]) => k = h /\ b = a
    BY DEF OnceInv, SpansOf, Goroutines
  <2>1. q[1] \notin forgotten
    BY <1>3
  <2>2. CASE h = g
    <3>1. q = p /\ a = 1
      BY <2>2, <1>5, <1>6
    <3>2. q \notin ReadySpans \cup EmittedSpans
      BY <3>1, <2>1, <1>17
    <3>3. ASSUME NEW k \in Goroutines, NEW b \in DOMAIN ready'[k], q \in SpansOf(ready'[k][b])
          PROVE  k = h /\ b = a
      <4>1. k = g
        BY <3>2, <3>3, <1>6, ReadyIs
      <4> QED BY <4>1, <3>1, <2>2, <1>5, <1>6
    <3> QED BY <3>2, <3>3, <1>13
  <2>3. CASE h # g
    <3>1. ready'[h] = ready[h] /\ q \in ReadySpans
      BY <2>3, <1>6, ReadyIs
    <3>2. q # p
      BY <3>1, <2>1, <1>17
    <3>3. ASSUME NEW k \in Goroutines, NEW b \in DOMAIN ready'[k], q \in SpansOf(ready'[k][b])
          PROVE  k = h /\ b = a
      <4>1. k # g
        BY <3>2, <3>3, <1>5, <1>6
      <4> QED BY <4>1, <3>1, <3>3, <2>1, <1>6 DEF OnceInv
    <3> QED BY <3>1, <3>3, <2>1, <1>13 DEF OnceInv
  <2> QED BY <2>2, <2>3
<1> QED BY <1>6, <1>11, <1>12, <1>15, <1>16, <1>18

LEMMA EmitKeeps ==
    ASSUME AssemblerInv, NEW g \in Goroutines, Emit(g)
    PROVE  AssemblerInv'
<1> USE DEF AssemblerInv
<1>1. /\ ready[g] # <<>> /\ out' = out \cup {Head(ready[g])}
      /\ ready' = [ready EXCEPT ![g] = Tail(@)]
      /\ order' = order /\ memory' = memory /\ patchIdx' = patchIdx
      /\ owed' = owed /\ forgotten' = forgotten
  BY DEF Emit
<1>2. PICK s : s = ready[g]
  OBVIOUS
<1>3. PICK t : t = Tail(s)
  OBVIOUS
<1>4. PICK r : r = Head(s)
  OBVIOUS
<1>5. IsSeq(s) /\ s # <<>> /\ \A i \in DOMAIN s : Truthful(s[i])
  BY <1>1, <1>2 DEF ReadyInv
<1>6. /\ IsSeq(t) /\ r = s[1] /\ 1 \in DOMAIN s
      /\ \A i \in DOMAIN t : i \in Nat /\ i > 0 /\ i + 1 \in DOMAIN s /\ t[i] = s[i + 1]
      /\ \A i \in DOMAIN s : i = 1 \/ (i - 1 \in DOMAIN t /\ t[i - 1] = s[i])
  <2>1. IsSeq(t)
    BY <1>3, <1>5, HeadAndTail
  <2>2. s \in Seq(Range(s)) /\ Len(s) \in Nat /\ DOMAIN s = 1 .. Len(s) /\ Len(s) > 0
    BY <1>5 DEF IsSeq
  <2>3. r = s[1] /\ Len(t) = Len(s) - 1 /\ DOMAIN t = 1 .. Len(s) - 1
        /\ \A i \in 1 .. Len(s) - 1 : t[i] = s[i + 1]
    BY <2>2, <1>3, <1>4, <1>5
  <2>4. PICK n \in Nat : n > 0 /\ DOMAIN s = 1 .. n /\ DOMAIN t = 1 .. n - 1
                         /\ \A i \in 1 .. n - 1 : t[i] = s[i + 1]
    BY <2>2, <2>3
  <2>5. ASSUME NEW i \in DOMAIN t PROVE i \in Nat /\ i > 0 /\ i + 1 \in DOMAIN s /\ t[i] = s[i + 1]
    BY <2>4
  <2>6. ASSUME NEW i \in DOMAIN s PROVE i = 1 \/ (i - 1 \in DOMAIN t /\ t[i - 1] = s[i])
    BY <2>4
  <2> QED BY <2>1, <2>3, <2>4, <2>5, <2>6
<1>7. ready' = [ready EXCEPT ![g] = t] /\ out' = out \cup {r}
  BY <1>1, <1>2, <1>3, <1>4
<1>8. /\ ReadyInv' /\ ready'[g] = t
      /\ \A h \in Goroutines : h # g => ready'[h] = ready[h]
  <2>1. \A i \in DOMAIN t : Truthful(t[i])
    BY <1>5, <1>6
  <2> QED BY <2>1, <1>6, <1>7, ReadyPut
<1>9. OutInv'
  <2>1. Truthful(r)
    BY <1>5, <1>6
  <2> QED BY <2>1, <1>7 DEF OutInv, Truthful
<1>10. OrderInv' /\ MemoryInv' /\ ApartInv'
  <2>1. OrderInv'
    BY <1>1 DEF OrderInv, IsSeq, Distinct, IsInFlight
  <2>2. MemoryInv'
    BY <1>1 DEF MemoryInv, IsSeq, Distinct, IsEntry
  <2>3. ApartInv'
    BY <1>1 DEF ApartInv
  <2> QED BY <2>1, <2>2, <2>3
<1>11. \A p : p \in EmittedSpans' <=> p \in EmittedSpans \/ p \in SpansOf(r)
  BY <1>7, EmittedIs, EmittedIsNext
<1>12. SpansOf(r) \subseteq ReadySpans
  BY <1>2, <1>6, ReadyIs
<1>13. \A p : p \in ReadySpans' => p \in ReadySpans
  <2> SUFFICES ASSUME NEW p, p \in ReadySpans' PROVE p \in ReadySpans
    OBVIOUS
  <2>1. PICK h \in Goroutines : \E i \in DOMAIN ready'[h] : p \in SpansOf(ready'[h][i])
    BY ReadyIsNext
  <2>2. CASE h = g
    BY <2>1, <2>2, <1>2, <1>6, <1>8, ReadyIs
  <2>3. CASE h # g
    BY <2>1, <2>3, <1>8, ReadyIs
  <2> QED BY <2>2, <2>3
<1>14. \A p : p \in ReadySpans => p \in ReadySpans' \/ p \in SpansOf(r)
  <2> SUFFICES ASSUME NEW p, p \in ReadySpans PROVE p \in ReadySpans' \/ p \in SpansOf(r)
    OBVIOUS
  <2>1. PICK h \in Goroutines : \E i \in DOMAIN ready[h] : p \in SpansOf(ready[h][i])
    BY ReadyIs
  <2>2. CASE h = g
    BY <2>1, <2>2, <1>2, <1>6, <1>8, ReadyIsNext
  <2>3. CASE h # g
    BY <2>1, <2>3, <1>8, ReadyIsNext
  <2> QED BY <2>2, <2>3
<1>15. ReadySpans' \cup EmittedSpans' = ReadySpans \cup EmittedSpans
  BY <1>11, <1>12, <1>13, <1>14
<1>16. OwedInv'
  <2>1. OpenSpans' = OpenSpans
    BY <1>1, OpenIs
  <2> QED BY <2>1, <1>1, <1>15 DEF OwedInv
<1>17. TracedInv'
  <2>1. \A p : Remembered(p)' <=> Remembered(p)
    BY <1>1 DEF Remembered
  <2> QED BY <2>1, <1>1, <1>15 DEF TracedInv
<1>18. OnceInv'
  <2> SUFFICES ASSUME NEW h \in Goroutines, NEW i \in DOMAIN ready'[h],
                      NEW p \in SpansOf(ready'[h][i]), p[1] \notin forgotten'
               PROVE  /\ p \notin EmittedSpans'
                      /\ \A k \in Goroutines : \A j \in DOMAIN ready'[k] :
                           p \in SpansOf(ready'[k][j]) => k = h /\ j = i
    BY DEF OnceInv, SpansOf, Goroutines
  <2>1. p[1] \notin forgotten
    BY <1>1
  <2>2. CASE h = g
    <3>1. i \in Nat /\ i > 0 /\ i + 1 \in DOMAIN ready[g] /\ p \in SpansOf(ready[g][i + 1])
      BY <2>2, <1>2, <1>6, <1>8
    <3>2. p \notin EmittedSpans
      BY <3>1, <2>1 DEF OnceInv
    <3>3. p \notin SpansOf(r)
      <4>1. i + 1 # 1
        BY <3>1
      <4> QED BY <3>1, <4>1, <2>1, <1>2, <1>6 DEF OnceInv
    <3>4. ASSUME NEW k \in Goroutines, NEW j \in DOMAIN ready'[k], p \in SpansOf(ready'[k][j])
          PROVE  k = h /\ j = i
      <4>1. k = g
        BY <3>1, <3>4, <2>1, <1>8 DEF OnceInv
      <4>2. j \in Nat /\ j + 1 \in DOMAIN ready[g] /\ p \in SpansOf(ready[g][j + 1])
        BY <4>1, <3>4, <1>2, <1>6, <1>8
      <4>3. j + 1 = i + 1
        BY <3>1, <4>2, <2>1 DEF OnceInv
      <4> QED BY <4>1, <4>2, <4>3, <3>1, <2>2
    <3> QED BY <3>2, <3>3, <3>4, <1>11
  <2>3. CASE h # g
    <3>1. ready'[h] = ready[h]
      BY <2>3, <1>8
    <3>2. p \notin EmittedSpans
      BY <3>1, <2>1 DEF OnceInv
    <3>3. p \notin SpansOf(r)
      BY <3>1, <2>1, <2>3, <1>2, <1>6 DEF OnceInv
    <3>4. ASSUME NEW k \in Goroutines, NEW j \in DOMAIN ready'[k], p \in SpansOf(ready'[k][j])
          PROVE  k = h /\ j = i
      <4>1. k # g
        <5> SUFFICES ASSUME k = g PROVE FALSE
          OBVIOUS
        <5>1. j + 1 \in DOMAIN ready[g] /\ p \in SpansOf(ready[g][j + 1])
          BY <3>4, <1>2, <1>6, <1>8
        <5> QED BY <5>1, <3>1, <2>1, <2>3 DEF OnceInv
      <4> QED BY <4>1, <3>1, <3>4, <2>1, <1>8 DEF OnceInv
    <3> QED BY <3>2, <3>3, <3>4, <1>11
  <2> QED BY <2>2, <2>3
<1> QED BY <1>8, <1>9, <1>10, <1>16, <1>17, <1>18

(* An assembler that has nothing: its spans are those that were emitted. *)
LEMMA NothingHeld ==
    ASSUME NEW r, r = [g \in Goroutines |-> <<>>]
    PROVE  \A g \in Goroutines : r[g] = <<>> /\ DOMAIN r[g] = {} /\ IsSeq(r[g])
BY NoneSeq

LEMMA NewProcessKeeps ==
    ASSUME AssemblerInv, NewProcess, owed' = EmittedSpans
    PROVE  AssemblerInv'
<1> USE DEF AssemblerInv
<1>1. /\ order' = <<>> /\ memory' = <<>> /\ patchIdx' = <<>> /\ out' = out
      /\ ready' = [g \in Goroutines |-> <<>>]
      /\ forgotten' = forgotten \cup {p[1] : p \in owed}
  BY DEF NewProcess
<1>2. /\ IsSeq(<<>>) /\ DOMAIN <<>> = {} /\ Len(<<>>) = 0 /\ HeldIn(<<>>) = {}
      /\ MaxInFlight \in Nat /\ PatchMemory \in Nat
  BY OpenSet, AssemblyOptions
<1>3. \A g \in Goroutines : DOMAIN ready'[g] = {} /\ IsSeq(ready'[g])
  BY <1>1, NothingHeld
<1>4. OrderInv'
  BY <1>1, <1>2 DEF OrderInv, IsSeq, Distinct
<1>5. MemoryInv'
  BY <1>1, <1>2 DEF MemoryInv, IsSeq, Distinct
<1>6. ApartInv'
  BY <1>1, <1>2 DEF ApartInv
<1>7. ReadyInv'
  <2>1. ready' = [g \in Goroutines |-> ready'[g]]
    BY <1>1
  <2> QED BY <2>1, <1>3 DEF ReadyInv, IsSeq, Goroutines
<1>8. OutInv'
  BY <1>1 DEF OutInv, Truthful
<1>9. EmittedSpans' = EmittedSpans
  BY <1>1 DEF EmittedSpans, SpansOf
<1>10. ReadySpans' = {} /\ OpenSpans' = {}
  <2>1. \A p : p \notin ReadySpans'
    BY <1>3, ReadyIsNext
  <2>2. OpenSpans' = {}
    BY <1>1, <1>2, OpenIs
  <2> QED BY <2>1, <2>2
<1>11. OwedInv'
  BY <1>9, <1>10 DEF OwedInv
<1>12. TracedInv'
  <2>1. ASSUME NEW p \in EmittedSpans PROVE p[1] \in forgotten'
    BY <1>1 DEF OwedInv
  <2> QED BY <2>1, <1>9, <1>10 DEF TracedInv
<1>13. OnceInv'
  BY <1>3 DEF OnceInv, Goroutines
<1> QED BY <1>4, <1>5, <1>6, <1>7, <1>8, <1>11, <1>12, <1>13

LEMMA TickKeeps ==
    ASSUME AssemblerInv, Tick
    PROVE  AssemblerInv'
<1> USE DEF AssemblerInv
<1>1. /\ order' = [i \in DOMAIN order |-> Older(order[i])]
      /\ memory' = memory /\ patchIdx' = patchIdx /\ ready' = ready /\ out' = out
      /\ owed' = owed /\ forgotten' = forgotten
  BY DEF Tick
<1>2. DOMAIN order' = DOMAIN order /\ \A i \in DOMAIN order : order'[i] = Older(order[i])
  BY <1>1
<1>3. order' = [i \in DOMAIN order |-> order'[i]]
  BY <1>1
<1>4. IsSeq(order') /\ Len(order') = Len(order)
  BY <1>3, SeqLike DEF OrderInv
<1>5. ASSUME NEW i \in DOMAIN order
      PROVE  /\ IsInFlight(order'[i]) /\ order'[i].key = order[i].key
             /\ Holds(order'[i]) = Holds(order[i])
  BY <1>2, OlderEffect DEF OrderInv
<1>6. OrderInv'
  <2>1. Distinct(order')
    BY <1>2, <1>5 DEF OrderInv, Distinct
  <2>2. Len(order') <= MaxInFlight
    BY <1>4 DEF OrderInv
  <2>3. \A i \in DOMAIN order' : IsInFlight(order'[i])
    BY <1>2, <1>5
  <2> QED BY <2>1, <2>2, <2>3, <1>4 DEF OrderInv, IsSeq, Distinct, IsInFlight
<1>7. MemoryInv' /\ ReadyInv' /\ OutInv'
  <2>1. MemoryInv'
    BY <1>1 DEF MemoryInv, IsSeq, Distinct, IsEntry
  <2>2. ReadyInv'
    BY <1>1 DEF ReadyInv, IsSeq, Truthful, Goroutines
  <2>3. OutInv'
    BY <1>1 DEF OutInv, Truthful
  <2> QED BY <2>1, <2>2, <2>3
<1>8. ApartInv'
  BY <1>1, <1>2, <1>5 DEF ApartInv
<1>9. OpenSpans' = OpenSpans
  <2>1. \A p : p \in HeldIn(order') <=> p \in HeldIn(order)
    BY <1>2, <1>5, HeldIs
  <2> QED BY <2>1, OpenIs
<1>10. ReadySpans' = ReadySpans /\ EmittedSpans' = EmittedSpans
  BY <1>1 DEF ReadySpans, EmittedSpans, SpansOf
<1>11. OwedInv'
  BY <1>1, <1>9, <1>10 DEF OwedInv
<1>12. TracedInv'
  <2>1. \A p : Remembered(p)' <=> Remembered(p)
    BY <1>1 DEF Remembered
  <2> QED BY <2>1, <1>1, <1>10 DEF TracedInv
<1>13. OnceInv'
  BY <1>1, <1>10 DEF OnceInv, SpansOf
<1> QED BY <1>6, <1>7, <1>8, <1>11, <1>12, <1>13

LEMMA StutterKeeps ==
    ASSUME AssemblerInv, UNCHANGED vars
    PROVE  AssemblerInv'
<1> USE DEF AssemblerInv
<1>1. /\ order' = order /\ memory' = memory /\ patchIdx' = patchIdx /\ ready' = ready
      /\ out' = out /\ owed' = owed /\ forgotten' = forgotten
  BY DEF vars
<1>2. OrderInv'
  BY <1>1 DEF OrderInv, IsSeq, Distinct, IsInFlight
<1>3. MemoryInv'
  BY <1>1 DEF MemoryInv, IsSeq, Distinct, IsEntry
<1>4. ApartInv' /\ OutInv'
  BY <1>1 DEF ApartInv, OutInv, Truthful
<1>5. ReadyInv'
  BY <1>1 DEF ReadyInv, IsSeq, Truthful, Goroutines
<1>6. ReadySpans' = ReadySpans /\ EmittedSpans' = EmittedSpans /\ OpenSpans' = OpenSpans
  BY <1>1, OpenIs DEF ReadySpans, EmittedSpans, SpansOf
<1>7. OwedInv'
  BY <1>1, <1>6 DEF OwedInv
<1>8. TracedInv'
  <2>1. \A p : Remembered(p)' <=> Remembered(p)
    BY <1>1 DEF Remembered
  <2> QED BY <2>1, <1>1, <1>6 DEF TracedInv
<1>9. OnceInv'
  BY <1>1, <1>6 DEF OnceInv, SpansOf
<1> QED BY <1>2, <1>3, <1>4, <1>5, <1>7, <1>8, <1>9

LEMMA InitHolds == Init => AssemblerInv
<1> SUFFICES ASSUME Init PROVE AssemblerInv
  OBVIOUS
<1>1. /\ order = <<>> /\ memory = <<>> /\ patchIdx = <<>> /\ ready = [g \in Goroutines |-> <<>>]
      /\ out = {} /\ owed = {}
  BY DEF Init
<1>2. /\ IsSeq(<<>>) /\ DOMAIN <<>> = {} /\ Len(<<>>) = 0
      /\ MaxInFlight \in Nat /\ PatchMemory \in Nat
  BY NoneSeq, AssemblyOptions
<1>3. \A g \in Goroutines : DOMAIN ready[g] = {} /\ IsSeq(ready[g])
  BY <1>1, NothingHeld
<1>4. OrderInv
  BY <1>1, <1>2 DEF OrderInv, Distinct
<1>5. MemoryInv
  BY <1>1, <1>2 DEF MemoryInv, Distinct
<1>6. ApartInv /\ OutInv
  BY <1>1, <1>2 DEF ApartInv, OutInv
<1>7. ReadyInv
  <2>1. ready = [g \in Goroutines |-> ready[g]]
    BY <1>1
  <2> QED BY <2>1, <1>3 DEF ReadyInv
<1>8. ReadySpans = {} /\ OpenSpans = {} /\ EmittedSpans = {}
  <2>1. \A p : p \notin ReadySpans
    BY <1>3, ReadyIs
  <2>2. \A p : p \notin HeldIn(order)
    BY <1>1, <1>2, HeldIs
  <2>3. EmittedSpans = {}
    BY <1>1 DEF EmittedSpans
  <2> QED BY <2>1, <2>2, <2>3, OpenIs
<1>9. OwedInv /\ TracedInv
  BY <1>1, <1>8 DEF OwedInv, TracedInv
<1>10. OnceInv
  BY <1>3 DEF OnceInv
<1> QED BY <1>4, <1>5, <1>6, <1>7, <1>9, <1>10 DEF AssemblerInv

LEMMA NextKeeps == AssemblerInv /\ [Next]_vars => AssemblerInv'
<1> SUFFICES ASSUME AssemblerInv, [Next]_vars PROVE AssemblerInv'
  OBVIOUS
<1>1. ASSUME NEW g \in Sources, NEW e \in Envelopes, Add(g, e) PROVE AssemblerInv'
  <2>1. g \in Goroutines
    BY DEF Goroutines
  <2>2. CASE AddOpen(g, e)
    BY <2>1, <2>2, AddOpenCloses, CloseStepKeeps
  <2>3. CASE AddLate(g, e)
    BY <2>1, <2>3, AddLateKeeps
  <2>4. CASE AddDuplicate(g, e)
    BY <2>4, StutterKeeps DEF AddDuplicate
  <2>5. CASE AddNew(g, e)
    BY <2>1, <2>5, AddNewCloses, CloseStepKeeps
  <2> QED BY <1>1, <2>2, <2>3, <2>4, <2>5 DEF Add
<1>2. ASSUME NEW g \in Goroutines, Emit(g) PROVE AssemblerInv'
  BY <1>2, EmitKeeps
<1>3. CASE Expire
  BY <1>3, ExpireCloses, CloseStepKeeps
<1>4. CASE Tick
  BY <1>4, TickKeeps
<1>5. CASE Flush
  BY <1>5, FlushCloses, CloseStepKeeps
<1>6. CASE Restart
  <2>1. NewProcess /\ owed' = owed \ ((OpenSpans \cup ReadySpans) \ EmittedSpans)
    BY <1>6 DEF Restart
  <2>2. owed' = EmittedSpans
    BY <2>1 DEF AssemblerInv, OwedInv
  <2> QED BY <2>1, <2>2, NewProcessKeeps
<1>7. CASE Kill
  <2>1. NewProcess /\ owed' = owed \cap EmittedSpans
    BY <1>7 DEF Kill
  <2>2. owed' = EmittedSpans
    BY <2>1 DEF AssemblerInv, OwedInv
  <2> QED BY <2>1, <2>2, NewProcessKeeps
<1>8. CASE UNCHANGED vars
  BY <1>8, StutterKeeps
<1> QED BY <1>1, <1>2, <1>3, <1>4, <1>5, <1>6, <1>7, <1>8 DEF Next

-----------------------------------------------------------------------------
(* What follows from it. *)

(* The number of keys of a sequence without repeated keys. *)
LEMMA KeysCount ==
    ASSUME NEW s, IsSeq(s), Distinct(s)
    PROVE  Cardinality(KeysIn(s)) = Len(s)
<1>1. PICK n \in Nat : n = Len(s) /\ DOMAIN s = 1 .. n
  BY SeqShape
<1> DEFINE f == [i \in 1 .. n |-> s[i].key]
<1>2. f \in [1 .. n -> KeysIn(s)]
  BY <1>1 DEF KeysIn
<1>3. \A a, b \in DOMAIN f : f[a] = f[b] => a = b
  BY <1>1 DEF Distinct
<1>4. \A k \in KeysIn(s) : \E i \in 1 .. n : f[i] = k
  BY <1>1 DEF KeysIn
<1>5. f \in Bijection(1 .. n, KeysIn(s))
  BY <1>2, <1>3, <1>4 DEF Bijection, Injection, Surjection, IsInjective
<1> QED BY <1>1, <1>5, FS_CountingElements DEF ExistsBijection

LEMMA InvGivesBounds == AssemblerInv => InFlightBounds
<1> SUFFICES ASSUME AssemblerInv PROVE InFlightBounds
  OBVIOUS
<1> USE DEF AssemblerInv
<1>1. Len(order) <= MaxInFlight /\ Cardinality(KeysIn(order)) = Len(order)
  BY KeysCount DEF OrderInv
<1>2. Len(memory) <= PatchMemory /\ Cardinality(KeysIn(memory)) = Len(memory)
  BY KeysCount DEF MemoryInv
<1>3. DOMAIN patchIdx \subseteq {memory[i].id : i \in DOMAIN memory}
  BY DEF MemoryInv
<1>4. KeysIn(order) \cap KeysIn(memory) = {}
  BY DEF ApartInv, KeysIn
<1> QED BY <1>1, <1>2, <1>3, <1>4 DEF InFlightBounds

LEMMA InvGivesOnce == AssemblerInv => EachSpanOnce
<1> SUFFICES ASSUME AssemblerInv PROVE EachSpanOnce
  OBVIOUS
<1> USE DEF AssemblerInv
<1> DEFINE places == UNION {{<<g, i>> : i \in DOMAIN ready[g]} : g \in Goroutines}
<1>1. ASSUME NEW p \in OpenSpans, p[1] \notin forgotten
      PROVE  p \notin ReadySpans \cup EmittedSpans
  <2>1. PICK i \in DOMAIN order : p \in Holds(order[i])
    BY OpenIs, HeldIs
  <2>2. p[1] = order[i].key
    BY <2>1 DEF Holds
  <2> QED BY <2>2, <1>1 DEF TracedInv, Remembered, ApartInv
<1>2. ASSUME NEW q \in places
      PROVE  /\ q[1] \in Goroutines /\ q[2] \in DOMAIN ready[q[1]] /\ q = <<q[1], q[2]>>
  <2>1. PICK g \in Goroutines : q \in {<<g, i>> : i \in DOMAIN ready[g]}
    OBVIOUS
  <2>2. PICK i \in DOMAIN ready[g] : q = <<g, i>>
    BY <2>1
  <2> QED BY <2>2
<1>3. ASSUME NEW q \in places, NEW p \in SpansOf(ready[q[1]][q[2]]), p[1] \notin forgotten
      PROVE  /\ p \notin EmittedSpans \cup OpenSpans
             /\ \A h \in places \ {q} : p \notin SpansOf(ready[h[1]][h[2]])
  <2>1. p \in ReadySpans /\ p \notin EmittedSpans
    BY <1>2, <1>3, ReadyIs DEF OnceInv
  <2>2. ASSUME NEW h \in places, h # q PROVE p \notin SpansOf(ready[h[1]][h[2]])
    <3>1. h[1] # q[1] \/ h[2] # q[2]
      BY <2>2, <1>2
    <3> QED BY <3>1, <1>2, <1>3 DEF OnceInv
  <2> QED BY <2>1, <2>2, <1>1, <1>3
<1> HIDE DEF places
<1>4. ASSUME NEW q \in places
      PROVE  LET r == ready[q[1]][q[2]]
                 known(spans) == {p \in spans : p[1] \notin forgotten}
             IN /\ known(SpansOf(r)) \cap (EmittedSpans \cup OpenSpans) = {}
                /\ \A h \in places \ {q} : known(SpansOf(r)) \cap SpansOf(ready[h[1]][h[2]]) = {}
  BY <1>3
<1>5. {p \in OpenSpans : p[1] \notin forgotten} \cap EmittedSpans = {}
  BY <1>1
<1> QED BY <1>4, <1>5 DEF EachSpanOnce, places

(* The invariant holds in every state that can be reached. *)
THEOREM AssemblerInvHolds == Spec => []AssemblerInv
<1>1. Init => AssemblerInv
  BY InitHolds
<1>2. AssemblerInv /\ [Next]_vars => AssemblerInv'
  BY NextKeeps
<1> QED BY <1>1, <1>2, PTL DEF Spec

(* The open set and what is remembered of emitted sessions stay within MaxInFlight and
   PatchMemory, a session is in one of them at most, and patch indices are kept for
   remembered episodes only. *)
THEOREM MemoryStaysBounded == Spec => []InFlightBounds
<1>1. AssemblerInv => InFlightBounds
  BY InvGivesBounds
<1> QED BY <1>1, AssemblerInvHolds, PTL

(* What Add took is open, on its way to Emit or emitted, unless the end of the process
   took it. *)
THEOREM SpansStayAccounted == Spec => []SpansAccounted
<1>1. AssemblerInv => SpansAccounted
  BY DEF AssemblerInv, OwedInv, SpansAccounted
<1> QED BY <1>1, AssemblerInvHolds, PTL

(* A span of a session that is not forgotten is in one record at most, whatever the
   goroutines have closed and not yet emitted. *)
THEOREM SpansEmittedOnce == Spec => []EachSpanOnce
<1>1. AssemblerInv => EachSpanOnce
  BY InvGivesOnce
<1> QED BY <1>1, AssemblerInvHolds, PTL

(* timed_out and complete tell whether the terminal marker was seen, for every window that
   is longer than the settle time. *)
THEOREM StatusStaysTrue == Spec => []StatusIsTruthful
<1>1. AssemblerInv => StatusIsTruthful
  BY DEF AssemblerInv, OutInv, Truthful, StatusIsTruthful
<1> QED BY <1>1, AssemblerInvHolds, PTL

-----------------------------------------------------------------------------
(* What an in-flight episode is made of. *)

(* The spans of a session are observations of it. *)
Loose(f) ==
    /\ f.key \in Int /\ f.key # None /\ f.started \in Nat /\ f.ended \in Nat
    /\ \A k \in DOMAIN f.spans :
         /\ f.spans[k] \in Envelopes /\ SpanKey(f.spans[k]) = k
         /\ f.key >= 0 => f.spans[k].session = f.key

(* An observation without a session is an episode alone. *)
Kept(f) ==
    /\ Loose(f) /\ DOMAIN f.spans # {}
    /\ f.key < 0 => \E k \in DOMAIN f.spans : DOMAIN f.spans = {k}

KeptInv == opened \in Nat /\ \A i \in DOMAIN order : Kept(order[i])

LEMMA EnvelopeTypes ==
    ASSUME NEW e \in Envelopes
    PROVE  /\ e.session \in Nat /\ e.id \in Nat /\ e.started \in Nat /\ e.ended \in Nat
           /\ SpanKey(e) \in Int
<1>1. e \in Envelope
  BY AssemblyOptions
<1>2. /\ e.session \in Nat /\ e.id \in Nat /\ e.span \in Nat
      /\ e.started \in Nat /\ e.ended \in Nat
  BY <1>1 DEF Envelope
<1> QED BY <1>2 DEF SpanKey, SyntheticSpanID

(* What Absorb leaves of an episode, field by field. *)
LEMMA AbsorbFields ==
    ASSUME NEW f, IsInFlight(f), NEW e
    PROVE  /\ Absorb(f, e).key = f.key /\ Absorb(f, e).id = f.id
           /\ Absorb(f, e).started = (IF e.started > 0 /\ (f.started = 0 \/ e.started < f.started)
                                      THEN e.started ELSE f.started)
           /\ Absorb(f, e).ended = (IF e.ended > f.ended THEN e.ended ELSE f.ended)
           /\ DOMAIN Absorb(f, e).spans = DOMAIN f.spans \cup {SpanKey(e)}
           /\ \A k \in DOMAIN f.spans : k # SpanKey(e) => Absorb(f, e).spans[k] = f.spans[k]
           /\ Absorb(f, e).spans[SpanKey(e)] =
                IF SpanKey(e) \in DOMAIN f.spans /\ f.spans[SpanKey(e)].started <= e.started
                THEN f.spans[SpanKey(e)] ELSE e
<1>1. PICK key, id, idle, settle, started, ended, spans :
         f = [key |-> key, id |-> id, idle |-> idle, settle |-> settle,
              started |-> started, ended |-> ended, spans |-> spans]
  BY Zenon DEF IsInFlight
<1>2. PICK a : a = Absorb(f, e)
  OBVIOUS
<1>3. PICK n : n = SpanKey(e)
  OBVIOUS
<1> DEFINE keep == n \in DOMAIN spans /\ spans[n].started <= e.started
           st == IF e.started > 0 /\ (started = 0 \/ e.started < started) THEN e.started ELSE started
           en == IF e.ended > ended THEN e.ended ELSE ended
<1>4. PICK se :
        a = [key |-> key, id |-> id, idle |-> 0, settle |-> se, started |-> st, ended |-> en,
             spans |-> IF keep THEN spans ELSE Put(spans, n, e)]
  BY <1>1, <1>2, <1>3 DEF Absorb
<1>5. /\ a.key = key /\ a.id = id /\ a.started = st /\ a.ended = en
      /\ a.spans = IF keep THEN spans ELSE Put(spans, n, e)
  BY <1>4
<1>6. f.key = key /\ f.id = id /\ f.spans = spans /\ f.started = started /\ f.ended = ended
  BY <1>1
<1>7. DOMAIN a.spans = DOMAIN spans \cup {n}
  BY <1>5 DEF Put
<1>8. \A k \in DOMAIN spans : k # n => a.spans[k] = spans[k]
  BY <1>5 DEF Put
<1>9. a.spans[n] = IF n \in DOMAIN spans /\ spans[n].started <= e.started THEN spans[n] ELSE e
  BY <1>5 DEF Put
<1> QED BY <1>2, <1>3, <1>5, <1>6, <1>7, <1>8, <1>9

LEMMA AbsorbKept ==
    ASSUME NEW f, IsInFlight(f), Loose(f), NEW e \in Envelopes,
           f.key >= 0 => e.session = f.key,
           f.key < 0 => DOMAIN f.spans = {}
    PROVE  Kept(Absorb(f, e))
<1>1. PICK a : a = Absorb(f, e)
  OBVIOUS
<1>2. PICK n : n = SpanKey(e)
  OBVIOUS
<1>3. /\ a.key = f.key
      /\ a.started = (IF e.started > 0 /\ (f.started = 0 \/ e.started < f.started)
                      THEN e.started ELSE f.started)
      /\ a.ended = (IF e.ended > f.ended THEN e.ended ELSE f.ended)
      /\ DOMAIN a.spans = DOMAIN f.spans \cup {n}
      /\ \A k \in DOMAIN f.spans : k # n => a.spans[k] = f.spans[k]
      /\ a.spans[n] = IF n \in DOMAIN f.spans /\ f.spans[n].started <= e.started
                      THEN f.spans[n] ELSE e
  BY <1>1, <1>2, AbsorbFields
<1>4. a.key \in Int /\ a.key # None /\ a.started \in Nat /\ a.ended \in Nat
  BY <1>3, EnvelopeTypes DEF Loose
<1>5. ASSUME NEW k \in DOMAIN a.spans
      PROVE  /\ a.spans[k] \in Envelopes /\ SpanKey(a.spans[k]) = k
             /\ a.key >= 0 => a.spans[k].session = a.key
  <2>1. CASE k # n
    BY <2>1, <1>3 DEF Loose
  <2>2. CASE k = n /\ n \in DOMAIN f.spans /\ f.spans[n].started <= e.started
    BY <2>2, <1>3 DEF Loose
  <2>3. CASE k = n /\ ~(n \in DOMAIN f.spans /\ f.spans[n].started <= e.started)
    BY <2>3, <1>2, <1>3
  <2> QED BY <2>1, <2>2, <2>3
<1>6. Loose(a)
  BY <1>4, <1>5 DEF Loose
<1>7. DOMAIN a.spans # {} /\ n \in DOMAIN a.spans
  BY <1>3
<1>8. a.key < 0 => DOMAIN a.spans = {n}
  BY <1>3
<1> QED BY <1>1, <1>6, <1>7, <1>8 DEF Kept

-----------------------------------------------------------------------------
(* Steps do not depend on the order of arrival. *)

(* Two sets of spans that give the same steps. *)
Alike(a, b) ==
    /\ DOMAIN a = DOMAIN b
    /\ \A k \in DOMAIN a : /\ a[k].started = b[k].started /\ a[k].parent = b[k].parent
                           /\ a[k].parentIdx = b[k].parentIdx

LEMMA AlikeSteps ==
    ASSUME NEW a, NEW b, Alike(a, b)
    PROVE  OrderedSteps(a) = OrderedSteps(b)
<1>1. PICK D : D = DOMAIN a /\ D = DOMAIN b
  BY DEF Alike
<1>2. \A k \in D : /\ a[k].started = b[k].started /\ a[k].parent = b[k].parent
                   /\ a[k].parentIdx = b[k].parentIdx
  BY <1>1 DEF Alike
<1>3. \A j, k \in D : Before(a, j, k) <=> Before(b, j, k)
  BY <1>2 DEF Before
<1>4. \A k \in D : {j \in D : Before(a, j, k)} = {j \in D : Before(b, j, k)}
  BY <1>3
<1>5. \A k \in D : StepIdx(a, k) = StepIdx(b, k)
  BY <1>1, <1>4 DEF StepIdx
<1>6. \A k \in D : ParentIdx(a, k) = ParentIdx(b, k)
  BY <1>1, <1>2, <1>5 DEF ParentIdx
<1>7. \A k \in D :
        [span |-> k, started |-> a[k].started, idx |-> StepIdx(a, k), parent |-> ParentIdx(a, k)]
          = [span |-> k, started |-> b[k].started, idx |-> StepIdx(b, k), parent |-> ParentIdx(b, k)]
  BY <1>2, <1>5, <1>6
<1> QED BY <1>1, <1>7, Zenon DEF OrderedSteps

(* Of what was seen of a span the earliest stays, whichever came first. *)
LEMMA AbsorbCommutes ==
    ASSUME SightingsAgree, NEW f, IsInFlight(f), Loose(f),
           NEW d \in Absorbable(f), NEW e \in Absorbable(f)
    PROVE  LET x == Absorb(Absorb(f, d), e)
               y == Absorb(Absorb(f, e), d)
           IN /\ Alike(x.spans, y.spans)
              /\ x.started = y.started /\ x.ended = y.ended
<1>1. d \in Envelopes /\ e \in Envelopes /\ d.session = f.key /\ e.session = f.key /\ f.key >= 0
  BY EnvelopeTypes DEF Absorbable
<1>2. PICK p : p = Absorb(f, d)
  OBVIOUS
<1>3. PICK q : q = Absorb(f, e)
  OBVIOUS
<1>4. PICK x : x = Absorb(p, e)
  OBVIOUS
<1>5. PICK y : y = Absorb(q, d)
  OBVIOUS
<1>6. PICK m : m = SpanKey(d)
  OBVIOUS
<1>7. PICK n : n = SpanKey(e)
  OBVIOUS
<1>8. IsInFlight(p) /\ IsInFlight(q)
  BY <1>2, <1>3, AbsorbEffect
<1> DEFINE Took(a, b, c, k) ==
      /\ a.started = (IF c.started > 0 /\ (b.started = 0 \/ c.started < b.started)
                      THEN c.started ELSE b.started)
      /\ a.ended = (IF c.ended > b.ended THEN c.ended ELSE b.ended)
      /\ DOMAIN a.spans = DOMAIN b.spans \cup {k}
      /\ \A j \in DOMAIN b.spans : j # k => a.spans[j] = b.spans[j]
      /\ a.spans[k] = IF k \in DOMAIN b.spans /\ b.spans[k].started <= c.started
                      THEN b.spans[k] ELSE c
<1>9. Took(p, f, d, m) /\ Took(q, f, e, n)
  BY <1>2, <1>3, <1>6, <1>7, AbsorbFields
<1>10. Took(x, p, e, n) /\ Took(y, q, d, m)
  BY <1>4, <1>5, <1>6, <1>7, <1>8, AbsorbFields
<1>11. /\ f.started \in Nat /\ f.ended \in Nat
       /\ d.started \in Nat /\ d.ended \in Nat /\ e.started \in Nat /\ e.ended \in Nat
       /\ \A k \in DOMAIN f.spans : f.spans[k] \in Envelopes /\ f.spans[k].started \in Nat
  BY <1>1, EnvelopeTypes DEF Loose
<1>12. x.started = y.started
  BY <1>9, <1>10, <1>11
<1>13. x.ended = y.ended
  BY <1>9, <1>10, <1>11
<1>14. DOMAIN x.spans = DOMAIN y.spans /\ DOMAIN x.spans = DOMAIN f.spans \cup {m, n}
  BY <1>9, <1>10
<1>15. ASSUME NEW k \in DOMAIN x.spans
       PROVE  /\ x.spans[k].started = y.spans[k].started /\ x.spans[k].parent = y.spans[k].parent
              /\ x.spans[k].parentIdx = y.spans[k].parentIdx
  <2>1. CASE k # m \/ k # n
    <3>1. x.spans[k] = y.spans[k]
      BY <2>1, <1>9, <1>10, <1>14
    <3> QED BY <3>1
  <2>2. CASE k = m /\ k = n
    <3> DEFINE S == {d, e} \cup (IF k \in DOMAIN f.spans THEN {f.spans[k]} ELSE {})
    <3>1. \A a \in S : a \in Envelopes /\ a.session = f.key /\ SpanKey(a) = k /\ a.started \in Nat
      BY <2>2, <1>1, <1>6, <1>7, <1>11 DEF Loose
    <3>2. x.spans[k] \in S /\ \A a \in S : x.spans[k].started <= a.started
      <4>1. k \in DOMAIN p.spans /\ p.spans[k] \in S /\ p.spans[k].started \in Nat
        BY <2>2, <1>9, <1>11
      <4>2. /\ p.spans[k].started <= d.started
            /\ k \in DOMAIN f.spans => p.spans[k].started <= f.spans[k].started
        BY <2>2, <1>9, <1>11
      <4>3. x.spans[k] = IF p.spans[k].started <= e.started THEN p.spans[k] ELSE e
        BY <2>2, <4>1, <1>10
      <4> QED BY <4>1, <4>2, <4>3, <1>11
    <3>3. y.spans[k] \in S /\ \A a \in S : y.spans[k].started <= a.started
      BY <2>2, <1>9, <1>10, <1>11
    <3> HIDE DEF S
    <3>4. x.spans[k].started = y.spans[k].started
      BY <3>1, <3>2, <3>3
    <3> QED BY <3>1, <3>2, <3>3, <3>4 DEF SightingsAgree
  <2> QED BY <2>1, <2>2
<1>16. Alike(x.spans, y.spans)
  BY <1>14, <1>15 DEF Alike
<1> QED BY <1>2, <1>3, <1>4, <1>5, <1>12, <1>13, <1>16

-----------------------------------------------------------------------------
(* What is in flight stays as it should be. *)

LEMMA CloseKept ==
    ASSUME NEW g, NEW all, CloseStep(g, all), \A f \in all : Kept(f)
    PROVE  \A i \in DOMAIN order' : Kept(order'[i])
BY DEF CloseStep, Closing, Within

LEMMA AbsorbedKept ==
    ASSUME AssemblerInv, KeptInv, NEW e \in Envelopes
    PROVE  \A f \in Absorbed(e) :
             Kept(f) /\ \E i \in DOMAIN order : f.key = order[i].key /\ f.id = order[i].id
<1> SUFFICES ASSUME NEW i \in DOMAIN order, NEW f,
                    f = IF order[i].key = e.session THEN Absorb(order[i], e) ELSE order[i]
             PROVE  Kept(f) /\ f.key = order[i].key /\ f.id = order[i].id
  BY DEF Absorbed
<1>1. IsInFlight(order[i]) /\ Kept(order[i])
  BY OpenSet DEF KeptInv
<1>2. CASE order[i].key = e.session
  <2>1. order[i].key \in Nat /\ ~(order[i].key < 0)
    BY <1>2, EnvelopeTypes
  <2>2. Kept(Absorb(order[i], e))
    BY <1>1, <1>2, <2>1, AbsorbKept DEF Kept
  <2>3. Absorb(order[i], e).key = order[i].key /\ Absorb(order[i], e).id = order[i].id
    BY <1>1, AbsorbFields
  <2> QED BY <1>2, <2>2, <2>3
<1>3. CASE order[i].key # e.session
  BY <1>1, <1>3
<1> QED BY <1>2, <1>3

LEMMA FreshKept ==
    ASSUME KeptInv, NEW e \in Envelopes
    PROVE  LET f == Absorb(NewInFlight(NewKey(e), NewId(e)), e)
           IN Kept(f) /\ f.key = NewKey(e) /\ f.id = NewId(e)
<1>1. PICK n : n = NewInFlight(NewKey(e), NewId(e))
  OBVIOUS
<1>2. /\ n.key = NewKey(e) /\ n.id = NewId(e) /\ n.started = 0 /\ n.ended = 0 /\ n.spans = <<>>
  BY <1>1 DEF NewInFlight
<1>3. IsInFlight(n) /\ DOMAIN n.spans = {}
  BY <1>1, <1>2, NewEffect
<1>4. n.key \in Int /\ n.key # None /\ (n.key >= 0 => e.session = n.key)
  BY <1>2, EnvelopeTypes DEF NewKey, NewSessionKey, KeptInv
<1>5. Loose(n)
  BY <1>2, <1>3, <1>4 DEF Loose
<1>6. Kept(Absorb(n, e))
  BY <1>3, <1>4, <1>5, AbsorbKept
<1>7. Absorb(n, e).key = n.key /\ Absorb(n, e).id = n.id
  BY <1>3, AbsorbFields
<1> QED BY <1>1, <1>2, <1>6, <1>7

LEMMA WidenedKept ==
    ASSUME AssemblerInv, KeptInv, NEW e \in Envelopes
    PROVE  \A f \in Widened(e) :
             /\ Kept(f)
             /\ \/ f.key = NewKey(e) /\ f.id = NewId(e)
                \/ \E i \in DOMAIN order : f.key = order[i].key /\ f.id = order[i].id
<1>1. ASSUME NEW i \in DOMAIN order PROVE Kept(order[i])
  BY DEF KeptInv
<1> QED BY <1>1, FreshKept DEF Widened, Range

LEMMA OpenKept ==
    ASSUME KeptInv
    PROVE  \A f \in Range(order) :
             Kept(f) /\ \E i \in DOMAIN order : f.key = order[i].key /\ f.id = order[i].id
BY DEF KeptInv, Range

LEMMA OlderKept ==
    ASSUME NEW f, IsInFlight(f), Kept(f)
    PROVE  Kept(Older(f)) /\ Older(f).key = f.key /\ Older(f).id = f.id
<1>1. PICK key, id, idle, settle, started, ended, spans :
         f = [key |-> key, id |-> id, idle |-> idle, settle |-> settle,
              started |-> started, ended |-> ended, spans |-> spans]
  BY Zenon DEF IsInFlight
<1>2. PICK a : a = Older(f)
  OBVIOUS
<1>3. PICK x, y : a = [key |-> key, id |-> id, idle |-> x, settle |-> y,
                       started |-> started, ended |-> ended, spans |-> spans]
  BY <1>1, <1>2 DEF Older
<1>4. /\ a.key = f.key /\ a.id = f.id /\ a.started = f.started /\ a.ended = f.ended
      /\ a.spans = f.spans
  BY <1>1, <1>3
<1> QED BY <1>2, <1>4 DEF Kept, Loose

LEMMA KeptNext ==
    ASSUME AssemblerInv, KeptInv, [Next]_vars
    PROVE  KeptInv'
<1> SUFFICES opened' \in Nat /\ \A i \in DOMAIN order' : Kept(order'[i])
  BY DEF KeptInv, Kept, Loose
<1>1. opened \in Nat /\ \A i \in DOMAIN order : Kept(order[i])
  BY DEF KeptInv
<1>2. ASSUME NEW g \in Sources, NEW e \in Envelopes, Add(g, e)
      PROVE  opened' \in Nat /\ \A i \in DOMAIN order' : Kept(order'[i])
  <2>1. g \in Goroutines
    BY DEF Goroutines
  <2>2. CASE AddOpen(g, e)
    <3>1. \A i \in DOMAIN order' : Kept(order'[i])
      BY <2>1, <2>2, AddOpenCloses, AbsorbedKept, CloseKept
    <3> QED BY <2>2, <3>1, <1>1 DEF AddOpen
  <2>3. CASE AddLate(g, e)
    BY <2>3, <1>1 DEF AddLate
  <2>4. CASE AddDuplicate(g, e)
    BY <2>4, <1>1 DEF AddDuplicate, vars
  <2>5. CASE AddNew(g, e)
    <3>1. \A i \in DOMAIN order' : Kept(order'[i])
      BY <2>1, <2>5, AddNewCloses, WidenedKept, CloseKept
    <3> QED BY <2>5, <3>1, <1>1 DEF AddNew
  <2> QED BY <1>2, <2>2, <2>3, <2>4, <2>5 DEF Add
<1>3. ASSUME NEW g \in Goroutines, Emit(g)
      PROVE  opened' \in Nat /\ \A i \in DOMAIN order' : Kept(order'[i])
  BY <1>1, <1>3 DEF Emit
<1>4. CASE Expire
  <2>1. \A i \in DOMAIN order' : Kept(order'[i])
    BY <1>4, ExpireCloses, OpenKept, CloseKept
  <2> QED BY <2>1, <1>1, <1>4 DEF Expire
<1>5. CASE Tick
  <2>1. DOMAIN order' = DOMAIN order /\ \A i \in DOMAIN order : order'[i] = Older(order[i])
    BY <1>5 DEF Tick
  <2>2. \A i \in DOMAIN order : Kept(Older(order[i]))
    BY <1>1, OpenSet, OlderKept
  <2> QED BY <2>1, <2>2, <1>1, <1>5 DEF Tick
<1>6. CASE Flush
  <2>1. \A i \in DOMAIN order' : Kept(order'[i])
    BY <1>6, FlushCloses, OpenKept, CloseKept
  <2> QED BY <2>1, <1>1, <1>6 DEF Flush
<1>7. ASSUME NewProcess PROVE opened' \in Nat /\ \A i \in DOMAIN order' : Kept(order'[i])
  <2>1. order' = <<>> /\ DOMAIN <<>> = {} /\ opened' = opened
    BY <1>7, OpenSet DEF NewProcess
  <2> QED BY <2>1, <1>1
<1>8. CASE UNCHANGED vars
  BY <1>1, <1>8 DEF vars
<1> QED BY <1>2, <1>3, <1>4, <1>5, <1>6, <1>7, <1>8 DEF Next, Restart, Kill

LEMMA KeptHolds == Spec => [](AssemblerInv /\ KeptInv)
<1>1. Init => AssemblerInv /\ KeptInv
  <2> SUFFICES ASSUME Init PROVE KeptInv
    BY InitHolds
  <2>1. order = <<>> /\ DOMAIN <<>> = {} /\ opened = 0
    BY NoneSeq DEF Init
  <2> QED BY <2>1 DEF KeptInv
<1>2. AssemblerInv /\ KeptInv /\ [Next]_vars => (AssemblerInv /\ KeptInv)'
  BY NextKeeps, KeptNext
<1> QED BY <1>1, <1>2, PTL DEF Spec

(* absorb and orderedSteps: two observations of a session leave the same steps, positions,
   links, start and end in whichever order they arrive, if sightings of a span that start
   together agree on its parent (of those the first one is kept). *)
THEOREM ArrivalOrderIsIgnored == SightingsAgree => (Spec => []StepsIgnoreArrivalOrder)
<1> SUFFICES ASSUME SightingsAgree PROVE Spec => []StepsIgnoreArrivalOrder
  OBVIOUS
<1>1. AssemblerInv /\ KeptInv => StepsIgnoreArrivalOrder
  <2> SUFFICES ASSUME AssemblerInv, KeptInv, NEW i \in DOMAIN order,
                      NEW d \in Absorbable(order[i]), NEW e \in Absorbable(order[i])
               PROVE  LET x == Absorb(Absorb(order[i], d), e)
                          y == Absorb(Absorb(order[i], e), d)
                      IN /\ OrderedSteps(x.spans) = OrderedSteps(y.spans)
                         /\ x.started = y.started /\ x.ended = y.ended
    BY DEF StepsIgnoreArrivalOrder
  <2>1. IsInFlight(order[i]) /\ Loose(order[i])
    BY OpenSet DEF KeptInv, Kept
  <2> QED BY <2>1, AbsorbCommutes, AlikeSteps
<1> QED BY <1>1, KeptHolds, PTL

-----------------------------------------------------------------------------
(* The positions of steps. *)

LEMMA SmallerSet ==
    ASSUME NEW S, IsFiniteSet(S), NEW T \in SUBSET S, NEW x \in S, x \notin T
    PROVE  /\ IsFiniteSet(T) /\ Cardinality(T) \in Nat /\ Cardinality(S) \in Nat
           /\ Cardinality(T) < Cardinality(S)
<1>1. IsFiniteSet(T) /\ Cardinality(T) <= Cardinality(S) /\ Cardinality(S) # Cardinality(T)
  BY FS_Subset
<1>2. Cardinality(T) \in Nat /\ Cardinality(S) \in Nat
  BY <1>1, FS_CardinalityType
<1> QED BY <1>1, <1>2

(* The spans of an episode have different positions, all below those of patches. *)
LEMMA Positions ==
    ASSUME FewSpans, NEW f, Kept(f)
    PROVE  LET idx(k) == StepIdx(f.spans, k)
           IN /\ \A k \in DOMAIN f.spans : idx(k) \in Nat /\ idx(k) < PatchIdxBase
              /\ \A j, k \in DOMAIN f.spans : idx(j) = idx(k) => j = k
<1>1. PICK D : D = DOMAIN f.spans
  OBVIOUS
<1>2. \A k \in D : /\ f.spans[k] \in Envelopes /\ SpanKey(f.spans[k]) = k
                   /\ f.key >= 0 => f.spans[k].session = f.key
  BY <1>1 DEF Kept, Loose
<1>3. \A k \in D : k \in Int /\ f.spans[k].started \in Nat
  BY <1>2, EnvelopeTypes
<1>4. IsFiniteSet(D) /\ Cardinality(D) <= PatchIdxBase
  <2>1. CASE f.key < 0
    <3>1. PICK k : D = {k}
      BY <2>1, <1>1 DEF Kept
    <3>2. IsFiniteSet(D) /\ Cardinality(D) = 1
      BY <3>1, FS_Singleton
    <3> QED BY <3>2 DEF PatchIdxBase
  <2>2. CASE ~(f.key < 0)
    <3>1. f.key >= 0 /\ f.key # None
      BY <2>2 DEF Kept, Loose
    <3>2. PICK k \in D : TRUE
      BY <1>1 DEF Kept
    <3>3. /\ IsFiniteSet(SessionSpans(f.key)) /\ Cardinality(SessionSpans(f.key)) <= PatchIdxBase
      BY <3>1, <3>2, <1>2 DEF FewSpans
    <3>4. D \in SUBSET SessionSpans(f.key)
      BY <3>1, <1>2 DEF SessionSpans
    <3>5. IsFiniteSet(D) /\ Cardinality(D) <= Cardinality(SessionSpans(f.key))
      BY <3>3, <3>4, FS_Subset
    <3>6. Cardinality(D) \in Nat /\ Cardinality(SessionSpans(f.key)) \in Nat
      BY <3>3, <3>5, FS_CardinalityType
    <3> QED BY <3>3, <3>5, <3>6 DEF PatchIdxBase
  <2> QED BY <2>1, <2>2
<1> DEFINE Below(k) == {j \in D : Before(f.spans, j, k)}
<1>5. \A k \in D : StepIdx(f.spans, k) = Cardinality(Below(k))
  BY <1>1 DEF StepIdx
<1>6. \A k \in D : ~Before(f.spans, k, k)
  BY <1>3 DEF Before
<1>7. \A j, k \in D : j = k \/ Before(f.spans, j, k) \/ Before(f.spans, k, j)
  BY <1>3 DEF Before
<1>8. \A i, j, k \in D :
        Before(f.spans, i, j) /\ Before(f.spans, j, k) => Before(f.spans, i, k)
  BY <1>3 DEF Before
<1>9. ASSUME NEW k \in D
      PROVE  /\ IsFiniteSet(Below(k)) /\ Cardinality(Below(k)) \in Nat
             /\ Cardinality(Below(k)) < PatchIdxBase
  <2>1. Below(k) \in SUBSET D /\ k \notin Below(k)
    BY <1>6
  <2>2. /\ IsFiniteSet(Below(k)) /\ Cardinality(Below(k)) \in Nat /\ Cardinality(D) \in Nat
        /\ Cardinality(Below(k)) < Cardinality(D)
    BY <2>1, <1>4, SmallerSet
  <2> QED BY <2>2, <1>4 DEF PatchIdxBase
<1>10. ASSUME NEW j \in D, NEW k \in D, Before(f.spans, j, k)
       PROVE  Cardinality(Below(j)) # Cardinality(Below(k))
  <2>1. Below(j) \in SUBSET Below(k) /\ j \in Below(k) /\ j \notin Below(j)
    BY <1>6, <1>8, <1>10
  <2>2. IsFiniteSet(Below(k))
    BY <1>9
  <2> HIDE DEF Below
  <2>3. /\ Cardinality(Below(j)) \in Nat /\ Cardinality(Below(k)) \in Nat
        /\ Cardinality(Below(j)) < Cardinality(Below(k))
    BY <2>1, <2>2, SmallerSet
  <2> QED BY <2>3
<1> HIDE DEF Below
<1>11. \A k \in D : StepIdx(f.spans, k) \in Nat /\ StepIdx(f.spans, k) < PatchIdxBase
  BY <1>5, <1>9
<1>12. ASSUME NEW j \in D, NEW k \in D, StepIdx(f.spans, j) = StepIdx(f.spans, k) PROVE j = k
  BY <1>5, <1>7, <1>10, <1>12
<1> QED BY <1>1, <1>11, <1>12

-----------------------------------------------------------------------------
(* Records. *)

(* The steps of a record are in different positions. *)
WellMade(r) ==
    /\ r.steps # {}
    /\ \A s \in r.steps : s.span \in Spans /\ s.idx \in Nat /\ s.started \in Nat
    /\ r.status # "patched" => \A s \in r.steps : s.idx < PatchIdxBase
    /\ \A s, t \in r.steps : s.idx = t.idx \/ s.span = t.span => s = t

LEMMA OriginalsWellMade ==
    ASSUME FewSpans, NEW f, Kept(f), NEW st
    PROVE  /\ WellMade(Episode(f, st)) /\ \A s \in Episode(f, st).steps : s.idx < PatchIdxBase
           /\ Episode(f, st).key = f.key /\ Episode(f, st).id = f.id
           /\ Episode(f, st).status = st
<1>1. PICK r : r = Episode(f, st)
  OBVIOUS
<1>2. r.steps = OrderedSteps(f.spans) /\ r.key = f.key /\ r.id = f.id /\ r.status = st
  BY <1>1 DEF Episode
<1> DEFINE step(k) == [span |-> k, started |-> f.spans[k].started, idx |-> StepIdx(f.spans, k),
                       parent |-> ParentIdx(f.spans, k)]
<1>3. r.steps = {step(k) : k \in DOMAIN f.spans}
  BY <1>2, Zenon DEF OrderedSteps
<1>4. \A k \in DOMAIN f.spans : /\ step(k).span = k /\ step(k).idx = StepIdx(f.spans, k)
                                /\ step(k).started = f.spans[k].started
  OBVIOUS
<1> HIDE DEF step
<1>5. /\ \A k \in DOMAIN f.spans : /\ StepIdx(f.spans, k) \in Nat
                                   /\ StepIdx(f.spans, k) < PatchIdxBase
      /\ \A j, k \in DOMAIN f.spans : StepIdx(f.spans, j) = StepIdx(f.spans, k) => j = k
  BY Positions
<1>6. \A k \in DOMAIN f.spans : f.spans[k] \in Envelopes /\ SpanKey(f.spans[k]) = k
  BY DEF Kept, Loose
<1>7. \A k \in DOMAIN f.spans : k \in Spans /\ f.spans[k].started \in Nat
  BY <1>6, EnvelopeTypes DEF Spans
<1>8. r.steps # {}
  BY <1>3 DEF Kept
<1>9. \A s \in r.steps : /\ s.span \in Spans /\ s.idx \in Nat /\ s.started \in Nat
                         /\ s.idx < PatchIdxBase
  BY <1>3, <1>4, <1>5, <1>7
<1>10. \A s, t \in r.steps : s.idx = t.idx \/ s.span = t.span => s = t
  BY <1>3, <1>4, <1>5
<1>11. WellMade(r)
  BY <1>8, <1>9, <1>10 DEF WellMade
<1> QED BY <1>1, <1>2, <1>9, <1>11

LEMMA PatchWellMade ==
    ASSUME NEW key, NEW id, NEW e \in Envelopes, NextPatchIdx(id) \in Nat
    PROVE  LET r == PatchFor(key, id, e)
           IN /\ WellMade(r) /\ r.key = key /\ r.id = id
              /\ \A s \in r.steps : s.span = SpanKey(e) /\ s.idx = NextPatchIdx(id)
<1>1. PICK r : r = PatchFor(key, id, e)
  OBVIOUS
<1>2. PICK s : s = [span |-> SpanKey(e), started |-> e.started, idx |-> NextPatchIdx(id),
                    parent |-> e.parentIdx]
  OBVIOUS
<1>3. r.key = key /\ r.id = id /\ r.status = "patched" /\ r.steps = {s}
  BY <1>1, <1>2 DEF PatchFor
<1>4. s.span = SpanKey(e) /\ s.started = e.started /\ s.idx = NextPatchIdx(id)
  BY <1>2
<1>5. SpanKey(e) \in Spans /\ e.started \in Nat
  BY EnvelopeTypes DEF Spans
<1>6. WellMade(r)
  BY <1>3, <1>4, <1>5 DEF WellMade
<1> QED BY <1>1, <1>3, <1>4, <1>6

-----------------------------------------------------------------------------
(* Episode ids. *)

(* The records that were emitted or are about to be. *)
Recs == out \cup UNION {{ready[g][i] : i \in DOMAIN ready[g]} : g \in Goroutines}

(* Whatever has a session and an episode id. *)
Holders == Range(order) \cup Range(memory) \cup Recs

SameId(x, y) == x.key = y.key /\ x.id = y.id

(* An id that was not made up is that of an observation of the session. *)
Apt(key, id) ==
    /\ id \in Int
    /\ id >= 0 => \E e \in Envelopes : e.id = id /\ e.id # None /\ e.session = key

OneSession(S) == \A x, y \in S : x.id = y.id => x.key = y.key

IdInv ==
    /\ \A x \in Holders : Apt(x.key, x.id) /\ x.id >= -(2 * opened)
    /\ OneSession(Holders)

LEMMA RecsAre ==
    /\ \A r : r \in Recs <=> \/ r \in out
                             \/ \E g \in Goroutines : \E i \in DOMAIN ready[g] : r = ready[g][i]
    /\ \A r : r \in Recs' <=> \/ r \in out'
                              \/ \E g \in Goroutines : \E i \in DOMAIN ready'[g] : r = ready'[g][i]
BY DEF Recs, Goroutines

LEMMA HoldersAre ==
    /\ \A x : x \in Holders <=> \/ \E i \in DOMAIN order : x = order[i]
                                \/ \E i \in DOMAIN memory : x = memory[i]
                                \/ x \in Recs
    /\ \A x : x \in Holders' <=> \/ \E i \in DOMAIN order' : x = order'[i]
                                 \/ \E i \in DOMAIN memory' : x = memory'[i]
                                 \/ x \in Recs'
BY DEF Holders, Range

LEMMA FreshId ==
    ASSUME IdsNameSessions, IdInv, opened \in Nat, NEW e \in Envelopes
    PROVE  /\ Apt(NewKey(e), NewId(e)) /\ NewId(e) >= -(2 * (opened + 1))
           /\ \A x \in Holders : x.id = NewId(e) => x.key = NewKey(e)
<1>1. e.session \in Nat /\ e.id \in Nat
  BY EnvelopeTypes
<1>2. CASE e.id # None
  <2>1. NewId(e) = e.id /\ e.session # None /\ NewKey(e) = e.session
    BY <1>2 DEF NewId, NewKey, IdsNameSessions
  <2>2. Apt(NewKey(e), NewId(e)) /\ NewId(e) >= -(2 * (opened + 1))
    BY <1>1, <1>2, <2>1 DEF Apt
  <2>3. ASSUME NEW x \in Holders, x.id = NewId(e) PROVE x.key = NewKey(e)
    <3>1. Apt(x.key, x.id) /\ x.id >= 0
      BY <1>1, <2>1, <2>3 DEF IdInv
    <3>2. PICK d \in Envelopes : d.id = x.id /\ d.id # None /\ d.session = x.key
      BY <3>1 DEF Apt
    <3> QED BY <3>2, <2>1, <2>3 DEF IdsNameSessions
  <2> QED BY <2>2, <2>3
<1>3. CASE e.id = None
  <2>1. NewId(e) = -(2 * opened + 2)
    BY <1>3 DEF NewId, NewEpisodeID
  <2>2. NewId(e) \in Int /\ NewId(e) < -(2 * opened) /\ NewId(e) < 0
        /\ NewId(e) >= -(2 * (opened + 1))
    BY <2>1
  <2>3. Apt(NewKey(e), NewId(e))
    BY <2>2 DEF Apt
  <2>4. ASSUME NEW x \in Holders PROVE x.id # NewId(e)
    <3>1. x.id \in Int /\ x.id >= -(2 * opened)
      BY DEF IdInv, Apt
    <3> QED BY <3>1, <2>2
  <2> QED BY <2>2, <2>3, <2>4
<1> QED BY <1>2, <1>3

(* A step that makes up no id. *)
LEMMA IdsStay ==
    ASSUME IdInv, opened' = opened, \A x \in Holders' : \E y \in Holders : SameId(x, y)
    PROVE  IdInv'
<1>1. ASSUME NEW x \in Holders' PROVE Apt(x.key, x.id) /\ x.id >= -(2 * opened)
  BY <1>1 DEF IdInv, SameId
<1>2. OneSession(Holders')
  BY DEF IdInv, SameId, OneSession
<1> QED BY <1>1, <1>2 DEF IdInv, Apt, OneSession

(* A step that opens an episode. *)
LEMMA IdsGrow ==
    ASSUME IdsNameSessions, IdInv, opened \in Nat, opened' = opened + 1, NEW e \in Envelopes,
           \A x \in Holders' : \/ x.key = NewKey(e) /\ x.id = NewId(e)
                               \/ \E y \in Holders : SameId(x, y)
    PROVE  IdInv'
<1>1. ASSUME NEW x \in Holders' PROVE Apt(x.key, x.id) /\ x.id >= -(2 * (opened + 1))
  <2>1. CASE x.key = NewKey(e) /\ x.id = NewId(e)
    BY <2>1, FreshId
  <2>2. CASE \E y \in Holders : SameId(x, y)
    <3>1. Apt(x.key, x.id) /\ x.id >= -(2 * opened)
      BY <2>2 DEF IdInv, SameId
    <3>2. x.id \in Int
      BY <3>1 DEF Apt
    <3> QED BY <3>1, <3>2
  <2> QED BY <2>1, <2>2
<1>2. ASSUME NEW x \in Holders', NEW y \in Holders', x.id = y.id PROVE x.key = y.key
  <2>1. \A z \in Holders : z.id = NewId(e) => z.key = NewKey(e)
    BY FreshId
  <2> QED BY <2>1, <1>2 DEF IdInv, SameId, OneSession
<1>3. OneSession(Holders')
  BY <1>2 DEF OneSession
<1> QED BY <1>1, <1>3 DEF IdInv, Apt, OneSession

-----------------------------------------------------------------------------
(* The records of a session that is remembered. *)

Known(r) ==
    /\ \E i \in DOMAIN memory : memory[i].key = r.key /\ memory[i].id = r.id
    /\ \A s \in r.steps : s.idx < NextPatchIdx(r.id)

(* No span and no position is in both. *)
NoClash(q, r) == \A s \in q.steps, t \in r.steps : s.span # t.span /\ s.idx # t.idx

IndexInv == \A id \in DOMAIN patchIdx : patchIdx[id] \in Nat /\ patchIdx[id] >= PatchIdxBase

RecInv ==
    /\ \A r \in Recs : WellMade(r) /\ (r.key \notin forgotten => Known(r))
    /\ \A q, r \in Recs : q.key = r.key /\ r.key \notin forgotten /\ q # r => NoClash(q, r)
    /\ \A i \in DOMAIN memory : memory[i].key \notin forgotten =>
         \E q \in Recs : q.key = memory[i].key /\ q.status # "patched"

LEMMA NextIndex ==
    ASSUME IndexInv
    PROVE  \A id : NextPatchIdx(id) \in Nat /\ NextPatchIdx(id) >= PatchIdxBase
BY DEF IndexInv, NextPatchIdx, PatchIdxBase

(* Closing. *)
LEMMA ClosedRecs ==
    ASSUME AssemblerInv, NEW g, NEW closed, NEW left, NEW recs, NEW span,
           Closing(g, closed, left, recs, span)
    PROVE  \A r : r \in Recs' <=> r \in Recs \/ \E i \in DOMAIN recs : r = recs[i]
<1>1. /\ g \in Goroutines /\ ready[g] = <<>> /\ out' = out /\ IsSeq(recs)
      /\ \A i \in DOMAIN recs : Truthful(recs[i])
      /\ ready' = [ready EXCEPT ![g] = recs]
  BY DEF Closing
<1>2. ready'[g] = recs /\ \A h \in Goroutines : h # g => ready'[h] = ready[h]
  BY <1>1, ReadyPut DEF AssemblerInv
<1>3. DOMAIN ready[g] = {}
  BY <1>1, OpenSet
<1> QED BY <1>1, <1>2, <1>3, RecsAre

LEMMA ClosedIds ==
    ASSUME AssemblerInv, NEW g, NEW all, CloseStep(g, all)
    PROVE  \A x \in Holders' : \E y \in Holders \cup all : SameId(x, y)
<1>1. PICK closed, left, recs, span :
        /\ Closing(g, closed, left, recs, span)
        /\ Within(closed, all) /\ Within(left, all) /\ Originals(recs, closed)
  BY DEF CloseStep
<1>2. order' = left /\ DOMAIN recs = DOMAIN closed
  BY <1>1 DEF Closing
<1>3. \A j \in DOMAIN memory' : \/ \E i \in DOMAIN memory : memory'[j] = memory[i]
                                \/ \E i \in DOMAIN closed : memory'[j] = Note(closed[i])
  BY <1>1, RememberEffect DEF Closing, AssemblerInv
<1>4. \A r : r \in Recs' <=> r \in Recs \/ \E i \in DOMAIN recs : r = recs[i]
  BY <1>1, ClosedRecs
<1>5. \A f : SameId(Note(f), f) /\ SameId(f, f)
  BY DEF Note, SameId
<1>6. \A f, st : SameId(Episode(f, st), f)
  BY DEF Episode, SameId
<1> SUFFICES ASSUME NEW x \in Holders' PROVE \E y \in Holders \cup all : SameId(x, y)
  OBVIOUS
<1>7. CASE \E i \in DOMAIN order' : x = order'[i]
  BY <1>1, <1>2, <1>5, <1>7 DEF Within
<1>8. CASE \E i \in DOMAIN memory' : x = memory'[i]
  <2>1. CASE \E i \in DOMAIN memory : x = memory[i]
    BY <2>1, <1>5, HoldersAre
  <2>2. CASE \E i \in DOMAIN closed : x = Note(closed[i])
    BY <2>2, <1>1, <1>5 DEF Within
  <2> QED BY <2>1, <2>2, <1>3, <1>8
<1>9. CASE x \in Recs'
  <2>1. CASE x \in Recs
    BY <2>1, <1>5, HoldersAre
  <2>2. CASE \E i \in DOMAIN recs : x = recs[i]
    BY <2>2, <1>1, <1>2, <1>6 DEF Within, Originals
  <2> QED BY <2>1, <2>2, <1>4, <1>9
<1> QED BY <1>7, <1>8, <1>9, HoldersAre

LEMMA CloseRecs ==
    ASSUME FewSpans, AssemblerInv, IndexInv, RecInv, NEW g, NEW all, CloseStep(g, all),
           \A f \in all : Kept(f), OneSession(Holders \cup all)
    PROVE  IndexInv' /\ RecInv'
<1>1. PICK closed, left, recs, span :
        /\ Closing(g, closed, left, recs, span)
        /\ Within(closed, all) /\ Within(left, all) /\ Originals(recs, closed)
  BY DEF CloseStep
<1>2. /\ DOMAIN recs = DOMAIN closed /\ Distinct(closed) /\ Apart(closed, memory)
  BY <1>1 DEF Closing
<1>3. /\ forgotten \subseteq forgotten'
      /\ \A j \in DOMAIN memory' : \/ \E i \in DOMAIN memory : memory'[j] = memory[i]
                                   \/ \E i \in DOMAIN closed : memory'[j] = Note(closed[i])
      /\ \A i \in DOMAIN memory : \/ memory[i].key \in forgotten'
                                  \/ \E j \in DOMAIN memory' : memory'[j] = memory[i]
      /\ \A i \in DOMAIN closed : \/ closed[i].key \in forgotten'
                                  \/ \E j \in DOMAIN memory' : memory'[j] = Note(closed[i])
      /\ IndicesKept(closed)
  BY <1>1, RememberEffect DEF Closing, AssemblerInv
<1>4. \A r : r \in Recs' <=> r \in Recs \/ \E i \in DOMAIN recs : r = recs[i]
  BY <1>1, ClosedRecs
<1>5. IndexInv'
  BY <1>3 DEF IndexInv, IndicesKept
<1>6. \A id : NextPatchIdx(id)' \in Nat /\ NextPatchIdx(id)' >= PatchIdxBase
  BY <1>5 DEF IndexInv, NextPatchIdx, PatchIdxBase
<1>7. ASSUME NEW i \in DOMAIN recs
      PROVE  /\ WellMade(recs[i]) /\ recs[i].key = closed[i].key /\ recs[i].id = closed[i].id
             /\ recs[i].status # "patched" /\ \A s \in recs[i].steps : s.idx < PatchIdxBase
  <2>1. PICK st : st # "patched" /\ recs[i] = Episode(closed[i], st)
    BY <1>1 DEF Originals
  <2>2. Kept(closed[i])
    BY <1>1, <1>2 DEF Within
  <2> QED BY <2>1, <2>2, OriginalsWellMade
<1>8. ASSUME NEW r \in Recs, r.key \notin forgotten'
      PROVE  /\ Known(r)'
             /\ \E i \in DOMAIN memory : memory[i].key = r.key
  <2>1. Known(r)
    BY <1>3, <1>8 DEF RecInv
  <2>2. PICK i \in DOMAIN memory : memory[i].key = r.key /\ memory[i].id = r.id
    BY <2>1 DEF Known
  <2>3. PICK j \in DOMAIN memory' : memory'[j] = memory[i]
    BY <1>3, <1>8, <2>2
  <2>4. NextPatchIdx(r.id)' = NextPatchIdx(r.id)
    <3>1. CASE r.id \in DOMAIN patchIdx /\ r.id \in DOMAIN patchIdx'
      BY <3>1, <1>3 DEF NextPatchIdx, IndicesKept
    <3>2. CASE r.id \notin DOMAIN patchIdx
      <4>1. r.id \notin DOMAIN patchIdx'
        BY <3>2, <1>3 DEF IndicesKept
      <4> QED BY <3>2, <4>1 DEF NextPatchIdx
    <3>3. CASE r.id \in DOMAIN patchIdx /\ r.id \notin DOMAIN patchIdx'
      <4>1. r \in Holders \cup all
        BY HoldersAre
      <4>2. ASSUME NEW k \in DOMAIN memory, memory[k].id = r.id PROVE memory[k].key = r.key
        BY <4>1, <4>2, HoldersAre DEF OneSession
      <4>3. ASSUME NEW k \in DOMAIN closed, closed[k].id = r.id PROVE closed[k].key = r.key
        BY <4>1, <4>3, <1>1 DEF OneSession, Within
      <4> QED BY <3>3, <4>2, <4>3, <1>3, <1>8 DEF IndicesKept
    <3> QED BY <3>1, <3>2, <3>3
  <2>5. \A s \in r.steps : s.idx < NextPatchIdx(r.id)'
    BY <2>1, <2>4 DEF Known
  <2> QED BY <2>2, <2>3, <2>5 DEF Known
<1>9. ASSUME NEW i \in DOMAIN recs, recs[i].key \notin forgotten' PROVE Known(recs[i])'
  <2>1. PICK j \in DOMAIN memory' : memory'[j] = Note(closed[i])
    BY <1>2, <1>3, <1>7, <1>9
  <2>2. memory'[j].key = recs[i].key /\ memory'[j].id = recs[i].id
    BY <2>1, <1>7 DEF Note
  <2>3. \A s \in recs[i].steps : s.idx < NextPatchIdx(recs[i].id)'
    <3>1. PICK n \in Nat : n = NextPatchIdx(recs[i].id)' /\ n >= PatchIdxBase
      BY <1>6
    <3>2. \A s \in recs[i].steps : s.idx \in Nat /\ s.idx < PatchIdxBase
      BY <1>7 DEF WellMade
    <3> QED BY <3>1, <3>2 DEF PatchIdxBase
  <2> QED BY <2>2, <2>3 DEF Known
<1>10. ASSUME NEW r \in Recs' PROVE WellMade(r) /\ (r.key \notin forgotten' => Known(r)')
  <2>1. CASE r \in Recs
    BY <2>1, <1>8 DEF RecInv
  <2>2. CASE \E i \in DOMAIN recs : r = recs[i]
    BY <2>2, <1>7, <1>9
  <2> QED BY <2>1, <2>2, <1>4
<1>11. ASSUME NEW r \in Recs, NEW i \in DOMAIN recs, r.key \notin forgotten'
       PROVE  r.key # recs[i].key
  <2>1. PICK k \in DOMAIN memory : memory[k].key = r.key
    BY <1>8, <1>11
  <2> QED BY <2>1, <1>2, <1>7 DEF Apart
<1>12. ASSUME NEW q \in Recs', NEW r \in Recs', q.key = r.key, r.key \notin forgotten', q # r
       PROVE  NoClash(q, r)
  <2>1. CASE q \in Recs /\ r \in Recs
    BY <2>1, <1>3, <1>12 DEF RecInv
  <2>2. CASE q \in Recs /\ \E i \in DOMAIN recs : r = recs[i]
    BY <2>2, <1>11, <1>12
  <2>3. CASE r \in Recs /\ \E i \in DOMAIN recs : q = recs[i]
    BY <2>3, <1>11, <1>12
  <2>4. CASE (\E i \in DOMAIN recs : q = recs[i]) /\ (\E i \in DOMAIN recs : r = recs[i])
    BY <2>4, <1>2, <1>7, <1>12 DEF Distinct
  <2> QED BY <2>1, <2>2, <2>3, <2>4, <1>4
<1>13. ASSUME NEW j \in DOMAIN memory', memory'[j].key \notin forgotten'
       PROVE  \E q \in Recs' : q.key = memory'[j].key /\ q.status # "patched"
  <2>1. CASE \E i \in DOMAIN memory : memory'[j] = memory[i]
    BY <2>1, <1>3, <1>4, <1>13 DEF RecInv
  <2>2. CASE \E i \in DOMAIN closed : memory'[j] = Note(closed[i])
    <3>1. PICK i \in DOMAIN closed : memory'[j].key = closed[i].key
      BY <2>2 DEF Note
    <3>2. recs[i] \in Recs' /\ recs[i].key = memory'[j].key /\ recs[i].status # "patched"
      BY <3>1, <1>2, <1>4, <1>7
    <3> QED BY <3>2
  <2> QED BY <2>1, <2>2, <1>3
<1>14. RecInv'
  BY <1>10, <1>12, <1>13 DEF RecInv, WellMade, NoClash
<1> QED BY <1>5, <1>14

(* A patch. *)
LEMMA LateRecs ==
    ASSUME AssemblerInv, IndexInv, IdInv, RecInv, NEW g \in Goroutines, NEW e \in Envelopes,
           AddLate(g, e)
    PROVE  IndexInv' /\ RecInv' /\ \A x \in Holders' : \E y \in Holders : SameId(x, y)
<1>1. PICK i \in DOMAIN memory :
        /\ memory[i].key = e.session /\ SpanKey(e) \notin memory[i].spans
        /\ memory' = [memory EXCEPT ![i] = Marked(@, SpanKey(e))]
        /\ patchIdx' = Put(patchIdx, memory[i].id, NextPatchIdx(memory[i].id) + 1)
        /\ ready' = [ready EXCEPT ![g] = <<PatchFor(e.session, memory[i].id, e)>>]
  BY DEF AddLate
<1>2. /\ ready[g] = <<>> /\ order' = order /\ out' = out /\ forgotten' = forgotten
  BY DEF AddLate, CanAdd
<1>3. PICK id : id = memory[i].id
  OBVIOUS
<1>4. PICK p : p = PatchFor(e.session, id, e)
  OBVIOUS
<1>5. PICK n \in Nat : n = NextPatchIdx(id) /\ n >= PatchIdxBase
  BY NextIndex
<1>6. /\ WellMade(p) /\ p.key = e.session /\ p.id = id
      /\ \A s \in p.steps : s.span = SpanKey(e) /\ s.idx = n
  BY <1>4, <1>5, PatchWellMade
<1>7. /\ DOMAIN memory' = DOMAIN memory
      /\ \A j \in DOMAIN memory : memory'[j].key = memory[j].key /\ memory'[j].id = memory[j].id
  <2>1. DOMAIN memory' = DOMAIN memory
    BY <1>1
  <2>2. /\ memory'[i] = Marked(memory[i], SpanKey(e))
        /\ \A j \in DOMAIN memory : j # i => memory'[j] = memory[j]
    BY <1>1
  <2>3. IsEntry(memory[i])
    BY DEF AssemblerInv, MemoryInv
  <2>4. /\ Marked(memory[i], SpanKey(e)).key = memory[i].key
        /\ Marked(memory[i], SpanKey(e)).id = memory[i].id
    BY <2>3, MarkedEntry
  <2> QED BY <2>1, <2>2, <2>4
<1>8. \A r : r \in Recs' <=> r \in Recs \/ r = p
  <2>1. ready' = [ready EXCEPT ![g] = <<p>>] /\ IsSeq(<<p>>) /\ DOMAIN <<p>> = {1} /\ <<p>>[1] = p
    BY <1>1, <1>3, <1>4, OneSeq
  <2>2. ready'[g] = <<p>> /\ \A h \in Goroutines : h # g => ready'[h] = ready[h]
    BY <2>1 DEF AssemblerInv, ReadyInv
  <2>3. DOMAIN ready[g] = {}
    BY <1>2, OpenSet
  <2> QED BY <2>1, <2>2, <2>3, <1>2, RecsAre
<1>9. /\ DOMAIN patchIdx' = DOMAIN patchIdx \cup {id} /\ patchIdx'[id] = n + 1
      /\ \A k \in DOMAIN patchIdx : k # id => patchIdx'[k] = patchIdx[k]
  BY <1>1, <1>3, <1>5 DEF Put
<1>10. IndexInv'
  BY <1>5, <1>9 DEF IndexInv, PatchIdxBase
<1>11. \A k : k # id => NextPatchIdx(k)' = NextPatchIdx(k)
  BY <1>9 DEF NextPatchIdx
<1>12. NextPatchIdx(id)' = n + 1
  BY <1>9 DEF NextPatchIdx
<1>13. \A j \in DOMAIN memory : memory[j].key = e.session => j = i
  BY <1>1 DEF AssemblerInv, MemoryInv, Distinct
<1>14. ASSUME NEW r \in Recs, r.key \notin forgotten PROVE Known(r)'
  <2>1. Known(r) /\ \A s \in r.steps : s.idx \in Nat
    BY <1>14 DEF RecInv, WellMade
  <2>2. \A s \in r.steps : s.idx < NextPatchIdx(r.id)'
    <3>1. CASE r.id = id
      BY <3>1, <2>1, <1>5, <1>12 DEF Known
    <3>2. CASE r.id # id
      BY <3>2, <2>1, <1>11 DEF Known
    <3> QED BY <3>1, <3>2
  <2> QED BY <2>1, <2>2, <1>7 DEF Known
<1>15. Known(p)'
  <2>1. \A s \in p.steps : s.idx < NextPatchIdx(p.id)'
    BY <1>5, <1>6, <1>12
  <2> QED BY <2>1, <1>1, <1>3, <1>6, <1>7 DEF Known
<1>16. ASSUME NEW r \in Recs, r.key = p.key, r.key \notin forgotten
       PROVE  NoClash(r, p) /\ NoClash(p, r)
  <2>1. Known(r) /\ r.key = e.session
    BY <1>6, <1>16 DEF RecInv
  <2>2. r.id = id
    BY <2>1, <1>3, <1>13 DEF Known
  <2>3. ASSUME NEW s \in r.steps PROVE s.idx # n /\ s.span # SpanKey(e)
    <3>1. s.idx < n /\ s.idx \in Nat
      BY <2>1, <2>2, <1>5 DEF Known, RecInv, WellMade
    <3>2. <<r.key, s.span>> \in ReadySpans \cup EmittedSpans
      <4>1. <<r.key, s.span>> \in SpansOf(r)
        BY DEF SpansOf
      <4> QED BY <4>1, RecsAre, ReadyIs, EmittedIs
    <3>3. PICK w : w = <<r.key, s.span>>
      OBVIOUS
    <3>4. w[1] = r.key /\ w[2] = s.span
      BY <3>3
    <3>5. Remembered(w)
      BY <3>2, <3>3, <3>4, <1>16 DEF AssemblerInv, TracedInv
    <3>6. s.span \in memory[i].spans
      BY <3>4, <3>5, <2>1, <1>13 DEF Remembered
    <3> QED BY <3>1, <3>6, <1>1
  <2> QED BY <2>3, <1>6 DEF NoClash
<1>17. ASSUME NEW r \in Recs' PROVE WellMade(r) /\ (r.key \notin forgotten => Known(r)')
  BY <1>6, <1>8, <1>14, <1>15 DEF RecInv
<1>18. ASSUME NEW q \in Recs', NEW r \in Recs', q.key = r.key, r.key \notin forgotten, q # r
       PROVE  NoClash(q, r)
  BY <1>8, <1>16, <1>18 DEF RecInv
<1>19. ASSUME NEW j \in DOMAIN memory', memory'[j].key \notin forgotten
       PROVE  \E q \in Recs' : q.key = memory'[j].key /\ q.status # "patched"
  BY <1>7, <1>8, <1>19 DEF RecInv
<1>20. RecInv'
  BY <1>2, <1>17, <1>18, <1>19 DEF RecInv, WellMade, NoClash
<1>21. ASSUME NEW x \in Holders' PROVE \E y \in Holders : SameId(x, y)
  <2>1. CASE \E k \in DOMAIN order' : x = order'[k]
    BY <2>1, <1>2, HoldersAre DEF SameId
  <2>2. CASE \E k \in DOMAIN memory' : x = memory'[k]
    BY <2>2, <1>7, HoldersAre DEF SameId
  <2>3. CASE x = p
    BY <2>3, <1>1, <1>3, <1>6, HoldersAre DEF SameId
  <2>4. CASE x \in Recs
    BY <2>4, HoldersAre DEF SameId
  <2> QED BY <2>1, <2>2, <2>3, <2>4, <1>8, HoldersAre
<1> QED BY <1>10, <1>20, <1>21

(* Steps that leave the records and what is remembered as they are. *)
LEMMA SameRecs ==
    ASSUME IndexInv, RecInv, Recs' = Recs, memory' = memory, patchIdx' = patchIdx,
           forgotten' = forgotten
    PROVE  IndexInv' /\ RecInv'
<1>1. \A id : NextPatchIdx(id)' = NextPatchIdx(id)
  BY DEF NextPatchIdx
<1>2. \A r : Known(r)' <=> Known(r)
  BY <1>1 DEF Known
<1>3. IndexInv'
  BY DEF IndexInv
<1>4. RecInv'
  BY <1>2 DEF RecInv, WellMade, NoClash
<1> QED BY <1>3, <1>4

LEMMA EmitRecs ==
    ASSUME AssemblerInv, NEW g \in Goroutines, Emit(g)
    PROVE  Recs' = Recs
<1>1. /\ ready[g] # <<>> /\ out' = out \cup {Head(ready[g])}
      /\ ready' = [ready EXCEPT ![g] = Tail(@)]
  BY DEF Emit
<1>2. PICK s : s = ready[g] /\ IsSeq(s) /\ s # <<>>
  BY <1>1 DEF AssemblerInv, ReadyInv
<1>3. PICK t : t = Tail(s)
  OBVIOUS
<1>4. PICK r : r = Head(s)
  OBVIOUS
<1>5. ready'[g] = t /\ \A h \in Goroutines : h # g => ready'[h] = ready[h]
  BY <1>1, <1>2, <1>3 DEF AssemblerInv, ReadyInv
<1>6. /\ r = s[1] /\ 1 \in DOMAIN s
      /\ \A i \in DOMAIN t : i + 1 \in DOMAIN s /\ t[i] = s[i + 1]
      /\ \A i \in DOMAIN s : i = 1 \/ (i - 1 \in DOMAIN t /\ t[i - 1] = s[i])
  <2>1. s \in Seq(Range(s)) /\ Len(s) \in Nat /\ DOMAIN s = 1 .. Len(s) /\ Len(s) > 0
    BY <1>2 DEF IsSeq
  <2>2. r = s[1] /\ Len(t) = Len(s) - 1 /\ DOMAIN t = 1 .. Len(s) - 1
        /\ \A i \in 1 .. Len(s) - 1 : t[i] = s[i + 1]
    BY <2>1, <1>2, <1>3, <1>4
  <2>3. PICK n \in Nat : n > 0 /\ DOMAIN s = 1 .. n /\ DOMAIN t = 1 .. n - 1
                         /\ \A i \in 1 .. n - 1 : t[i] = s[i + 1]
    BY <2>1, <2>2
  <2>4. ASSUME NEW i \in DOMAIN t PROVE i + 1 \in DOMAIN s /\ t[i] = s[i + 1]
    BY <2>3
  <2>5. ASSUME NEW i \in DOMAIN s PROVE i = 1 \/ (i - 1 \in DOMAIN t /\ t[i - 1] = s[i])
    BY <2>3
  <2> QED BY <2>1, <2>2, <2>4, <2>5
<1>7. out' = out \cup {r}
  BY <1>1, <1>2, <1>4
<1>8. ASSUME NEW x \in Recs PROVE x \in Recs'
  <2>1. CASE x \in out
    BY <2>1, <1>7, RecsAre
  <2>2. ASSUME NEW h \in Goroutines, NEW i \in DOMAIN ready[h], x = ready[h][i] PROVE x \in Recs'
    <3>1. CASE h # g
      BY <3>1, <2>2, <1>5, RecsAre
    <3>2. CASE h = g
      <4>1. x = r \/ \E j \in DOMAIN t : x = t[j]
        BY <3>2, <2>2, <1>2, <1>6
      <4> QED BY <4>1, <1>5, <1>7, RecsAre
    <3> QED BY <3>1, <3>2
  <2> QED BY <2>1, <2>2, RecsAre
<1>9. ASSUME NEW x \in Recs' PROVE x \in Recs
  <2>1. CASE x \in out'
    BY <2>1, <1>2, <1>6, <1>7, RecsAre
  <2>2. ASSUME NEW h \in Goroutines, NEW i \in DOMAIN ready'[h], x = ready'[h][i] PROVE x \in Recs
    <3>1. CASE h # g
      BY <3>1, <2>2, <1>5, RecsAre
    <3>2. CASE h = g
      <4>1. \E j \in DOMAIN s : x = s[j]
        BY <3>2, <2>2, <1>5, <1>6
      <4> QED BY <4>1, <1>2, RecsAre
    <3> QED BY <3>1, <3>2
  <2> QED BY <2>1, <2>2, RecsAre
<1> QED BY <1>8, <1>9

(* The end of a process forgets every session that has a record. *)
LEMMA NewProcessRecs ==
    ASSUME AssemblerInv, RecInv, NewProcess
    PROVE  IndexInv' /\ RecInv' /\ \A x \in Holders' : \E y \in Holders : SameId(x, y)
<1>1. /\ order' = <<>> /\ memory' = <<>> /\ patchIdx' = <<>> /\ out' = out
      /\ ready' = [g \in Goroutines |-> <<>>]
      /\ forgotten' = forgotten \cup {p[1] : p \in owed}
  BY DEF NewProcess
<1>2. DOMAIN <<>> = {} /\ \A g \in Goroutines : DOMAIN ready'[g] = {}
  BY <1>1, OpenSet, NothingHeld
<1>3. \A r : r \in Recs' <=> r \in out
  BY <1>1, <1>2, RecsAre
<1>4. ASSUME NEW r \in out PROVE r \in Recs /\ WellMade(r) /\ r.key \in forgotten'
  <2>1. r \in Recs /\ WellMade(r)
    BY RecsAre DEF RecInv
  <2>2. PICK s \in r.steps : TRUE
    BY <2>1 DEF WellMade
  <2>3. PICK p : p = <<r.key, s.span>>
    OBVIOUS
  <2>4. p \in SpansOf(r) /\ p[1] = r.key
    BY <2>3 DEF SpansOf
  <2>5. p \in owed
    BY <2>4, EmittedIs DEF AssemblerInv, OwedInv
  <2> QED BY <2>1, <2>4, <2>5, <1>1
<1>5. IndexInv'
  BY <1>1, <1>2 DEF IndexInv
<1>6. RecInv'
  <2>1. \A r \in Recs' : WellMade(r) /\ r.key \in forgotten'
    BY <1>3, <1>4
  <2>2. DOMAIN memory' = {}
    BY <1>1, <1>2
  <2> QED BY <2>1, <2>2 DEF RecInv, WellMade
<1>7. ASSUME NEW x \in Holders' PROVE \E y \in Holders : SameId(x, y)
  <2>1. x \in out
    BY <1>1, <1>2, <1>3, HoldersAre
  <2> QED BY <2>1, <1>4, HoldersAre DEF SameId
<1> QED BY <1>5, <1>6, <1>7

(* The whole invariant. *)
ReadInv == KeptInv /\ IdInv /\ IndexInv /\ RecInv

LEMMA AddReads ==
    ASSUME IdsNameSessions, FewSpans, AssemblerInv, ReadInv,
           NEW g \in Goroutines, NEW e \in Envelopes, Add(g, e)
    PROVE  IdInv' /\ IndexInv' /\ RecInv'
<1> USE DEF ReadInv
<1>1. CASE AddOpen(g, e)
  <2>1. CloseStep(g, Absorbed(e)) /\ opened' = opened
    BY <1>1, AddOpenCloses DEF AddOpen
  <2>2. \A f \in Absorbed(e) : Kept(f) /\ \E y \in Holders : SameId(f, y)
    BY AbsorbedKept, HoldersAre DEF SameId
  <2>3. OneSession(Holders \cup Absorbed(e))
    BY <2>2 DEF IdInv, OneSession, SameId
  <2>4. IndexInv' /\ RecInv'
    BY <2>1, <2>2, <2>3, CloseRecs
  <2>5. \A x \in Holders' : \E y \in Holders : SameId(x, y)
    BY <2>1, <2>2, ClosedIds DEF SameId
  <2> QED BY <2>1, <2>4, <2>5, IdsStay
<1>2. CASE AddLate(g, e)
  <2>1. opened' = opened
    BY <1>2 DEF AddLate
  <2>2. IndexInv' /\ RecInv' /\ \A x \in Holders' : \E y \in Holders : SameId(x, y)
    BY <1>2, LateRecs
  <2> QED BY <2>1, <2>2, IdsStay
<1>3. CASE AddDuplicate(g, e)
  <2>1. /\ order' = order /\ memory' = memory /\ patchIdx' = patchIdx /\ ready' = ready
        /\ out' = out /\ opened' = opened /\ forgotten' = forgotten
    BY <1>3 DEF AddDuplicate, vars
  <2>2. Recs' = Recs
    BY <2>1 DEF Recs
  <2>3. \A x \in Holders' : \E y \in Holders : SameId(x, y)
    BY <2>1, <2>2, HoldersAre DEF SameId
  <2> QED BY <2>1, <2>2, <2>3, SameRecs, IdsStay
<1>4. CASE AddNew(g, e)
  <2>1. CloseStep(g, Widened(e)) /\ opened' = opened + 1 /\ opened \in Nat
    BY <1>4, AddNewCloses DEF AddNew, KeptInv
  <2>2. \A f \in Widened(e) : /\ Kept(f)
                              /\ \/ f.key = NewKey(e) /\ f.id = NewId(e)
                                 \/ \E y \in Holders : SameId(f, y)
    BY WidenedKept, HoldersAre DEF SameId
  <2>3. \A x \in Holders : x.id = NewId(e) => x.key = NewKey(e)
    BY <2>1, FreshId
  <2>4. OneSession(Holders \cup Widened(e))
    <3> SUFFICES ASSUME NEW x \in Holders \cup Widened(e), NEW y \in Holders \cup Widened(e),
                        x.id = y.id
                 PROVE  x.key = y.key
      BY DEF OneSession
    <3>1. x.id = NewId(e) => x.key = NewKey(e)
      BY <2>2, <2>3 DEF SameId
    <3>2. y.id = NewId(e) => y.key = NewKey(e)
      BY <2>2, <2>3 DEF SameId
    <3>3. CASE x.id # NewId(e)
      <4>1. (\E a \in Holders : SameId(x, a)) /\ (\E b \in Holders : SameId(y, b))
        BY <2>2, <3>3 DEF SameId
      <4> QED BY <4>1 DEF IdInv, OneSession, SameId
    <3> QED BY <3>1, <3>2, <3>3
  <2>5. IndexInv' /\ RecInv'
    BY <2>1, <2>2, <2>4, CloseRecs
  <2>6. \A x \in Holders' : \/ x.key = NewKey(e) /\ x.id = NewId(e)
                            \/ \E y \in Holders : SameId(x, y)
    BY <2>1, <2>2, ClosedIds DEF SameId
  <2> QED BY <2>1, <2>5, <2>6, IdsGrow
<1> QED BY <1>1, <1>2, <1>3, <1>4 DEF Add

LEMMA OpenCloseReads ==
    ASSUME IdsNameSessions, FewSpans, AssemblerInv, ReadInv, CloseStep(Main, Range(order)),
           opened' = opened
    PROVE  IdInv' /\ IndexInv' /\ RecInv'
<1> USE DEF ReadInv
<1>1. \A f \in Range(order) : Kept(f) /\ f \in Holders /\ SameId(f, f)
  BY OpenKept DEF SameId, Holders
<1>2. OneSession(Holders \cup Range(order))
  BY <1>1 DEF IdInv, OneSession
<1>3. IndexInv' /\ RecInv'
  BY <1>1, <1>2, CloseRecs
<1>4. \A x \in Holders' : \E y \in Holders : SameId(x, y)
  BY <1>1, ClosedIds DEF SameId
<1> QED BY <1>3, <1>4, IdsStay

LEMMA ReadNext ==
    ASSUME IdsNameSessions, FewSpans, AssemblerInv, ReadInv, [Next]_vars
    PROVE  ReadInv'
<1> SUFFICES IdInv' /\ IndexInv' /\ RecInv'
  BY KeptNext DEF ReadInv
<1>1. ASSUME NEW g \in Sources, NEW e \in Envelopes, Add(g, e) PROVE IdInv' /\ IndexInv' /\ RecInv'
  BY <1>1, AddReads DEF Goroutines
<1>2. ASSUME Recs' = Recs, memory' = memory, patchIdx' = patchIdx, forgotten' = forgotten,
             opened' = opened, DOMAIN order' = DOMAIN order,
             \A i \in DOMAIN order : SameId(order'[i], order[i])
      PROVE  IdInv' /\ IndexInv' /\ RecInv'
  <2>1. IndexInv' /\ RecInv'
    BY <1>2, SameRecs DEF ReadInv
  <2>2. ASSUME NEW x \in Holders' PROVE \E y \in Holders : SameId(x, y)
    <3>1. CASE \E i \in DOMAIN order' : x = order'[i]
      BY <3>1, <1>2, HoldersAre
    <3>2. CASE (\E i \in DOMAIN memory' : x = memory'[i]) \/ x \in Recs'
      BY <3>2, <1>2, HoldersAre DEF SameId
    <3> QED BY <3>1, <3>2, HoldersAre
  <2> QED BY <2>1, <2>2, <1>2, IdsStay DEF ReadInv
<1>3. ASSUME NEW g \in Goroutines, Emit(g) PROVE IdInv' /\ IndexInv' /\ RecInv'
  <2>1. /\ order' = order /\ memory' = memory /\ patchIdx' = patchIdx /\ opened' = opened
        /\ forgotten' = forgotten
    BY <1>3 DEF Emit
  <2>2. Recs' = Recs
    BY <1>3, EmitRecs
  <2> QED BY <2>1, <2>2, <1>2 DEF SameId
<1>4. CASE Expire
  BY <1>4, ExpireCloses, OpenCloseReads DEF Expire
<1>5. CASE Tick
  <2>1. /\ DOMAIN order' = DOMAIN order /\ memory' = memory /\ patchIdx' = patchIdx
        /\ opened' = opened /\ forgotten' = forgotten /\ ready' = ready /\ out' = out
        /\ \A i \in DOMAIN order : order'[i] = Older(order[i])
    BY <1>5 DEF Tick
  <2>2. Recs' = Recs
    BY <2>1 DEF Recs
  <2>3. \A i \in DOMAIN order : SameId(Older(order[i]), order[i])
    BY OpenSet, OlderKept DEF ReadInv, KeptInv, SameId
  <2> QED BY <2>1, <2>2, <2>3, <1>2
<1>6. CASE Flush
  BY <1>6, FlushCloses, OpenCloseReads DEF Flush
<1>7. ASSUME NewProcess PROVE IdInv' /\ IndexInv' /\ RecInv'
  <2>1. opened' = opened
    BY <1>7 DEF NewProcess
  <2>2. IndexInv' /\ RecInv' /\ \A x \in Holders' : \E y \in Holders : SameId(x, y)
    BY <1>7, NewProcessRecs DEF ReadInv
  <2> QED BY <2>1, <2>2, IdsStay DEF ReadInv
<1>8. CASE UNCHANGED vars
  <2>1. /\ order' = order /\ memory' = memory /\ patchIdx' = patchIdx /\ opened' = opened
        /\ forgotten' = forgotten /\ ready' = ready /\ out' = out
    BY <1>8 DEF vars
  <2>2. Recs' = Recs
    BY <2>1 DEF Recs
  <2> QED BY <2>1, <2>2, <1>2 DEF SameId
<1> QED BY <1>1, <1>3, <1>4, <1>5, <1>6, <1>7, <1>8 DEF Next, Restart, Kill

LEMMA ReadInit == Init => ReadInv
<1> SUFFICES ASSUME Init PROVE ReadInv
  OBVIOUS
<1>1. /\ order = <<>> /\ memory = <<>> /\ patchIdx = <<>> /\ out = {} /\ opened = 0
      /\ ready = [g \in Goroutines |-> <<>>] /\ DOMAIN <<>> = {}
  BY NoneSeq DEF Init
<1>2. \A g \in Goroutines : DOMAIN ready[g] = {}
  BY <1>1, NothingHeld
<1>3. \A x : x \notin Recs
  BY <1>1, <1>2, RecsAre
<1>4. \A x : x \notin Holders
  BY <1>1, <1>3, HoldersAre
<1>5. KeptInv /\ IndexInv
  BY <1>1 DEF KeptInv, IndexInv
<1>6. IdInv
  BY <1>4 DEF IdInv, OneSession
<1>7. RecInv
  BY <1>1, <1>3 DEF RecInv
<1> QED BY <1>5, <1>6, <1>7 DEF ReadInv

(* What the reader makes of it. *)
LEMMA ReaderMerges ==
    ASSUME AssemblerInv, ReadInv
    PROVE  ReaderMergesPatches
<1> USE DEF ReadInv
<1> SUFFICES ASSUME NEW r \in out, ReadySpans \cap {<<r.key, k>> : k \in Spans} = {},
                    \A q \in {x \in out : x.id = r.id} : q.key \notin forgotten
             PROVE  /\ ReadSteps(r.id) = RowsOf(r.id)
                    /\ \A s, t \in ReadSteps(r.id) : s.span = t.span => s = t
  BY DEF ReaderMergesPatches
<1>1. r \in Recs /\ r.key \notin forgotten /\ Known(r)
  BY RecsAre DEF RecInv
<1>2. PICK i \in DOMAIN memory : memory[i].key = r.key /\ memory[i].id = r.id
  BY <1>1 DEF Known
<1>3. HasOriginal(r.id)
  <2>1. PICK q \in Recs : q.key = r.key /\ q.status # "patched"
    BY <1>1, <1>2 DEF RecInv
  <2>2. Known(q) /\ WellMade(q)
    BY <2>1, <1>1 DEF RecInv
  <2>3. q.id = r.id
    BY <2>1, <2>2, <1>2 DEF Known, AssemblerInv, MemoryInv, Distinct
  <2>4. q \in out
    <3> SUFFICES ASSUME NEW g \in Goroutines, NEW j \in DOMAIN ready[g], q = ready[g][j] PROVE FALSE
      BY <2>1, RecsAre
    <3>1. PICK s \in q.steps : s.span \in Spans
      BY <2>2 DEF WellMade
    <3>2. <<r.key, s.span>> \in SpansOf(q)
      BY <2>1 DEF SpansOf
    <3>3. <<r.key, s.span>> \in ReadySpans
      BY <3>2, ReadyIs
    <3> QED BY <3>1, <3>3
  <2> QED BY <2>1, <2>3, <2>4 DEF HasOriginal
<1>4. \A s : s \in RowsOf(r.id) <=> \E q \in out : q.id = r.id /\ s \in q.steps
  BY DEF RowsOf
<1>5. ASSUME NEW q \in out, q.id = r.id
      PROVE  q \in Recs /\ WellMade(q) /\ q.key = r.key /\ q.key \notin forgotten
  BY <1>5, <1>1, RecsAre, HoldersAre DEF RecInv, IdInv, OneSession
<1>6. ASSUME NEW s \in RowsOf(r.id), NEW t \in RowsOf(r.id), s.idx = t.idx \/ s.span = t.span
      PROVE  s = t
  <2>1. PICK p \in out : p.id = r.id /\ s \in p.steps
    BY <1>4
  <2>2. PICK q \in out : q.id = r.id /\ t \in q.steps
    BY <1>4
  <2>3. CASE p = q
    BY <2>1, <2>2, <2>3, <1>5, <1>6 DEF WellMade
  <2>4. CASE p # q
    <3>1. NoClash(p, q)
      BY <2>1, <2>2, <2>4, <1>5 DEF RecInv
    <3> QED BY <3>1, <2>1, <2>2, <1>6 DEF NoClash
  <2> QED BY <2>3, <2>4
<1>7. ASSUME NEW s \in RowsOf(r.id) PROVE EarliestAt(RowsOf(r.id), s.idx) = s
  <2>1. PICK rows : rows = RowsOf(r.id)
    OBVIOUS
  <2>2. s.started \in Nat
    BY <1>4, <1>5 DEF WellMade
  <2>3. \A t \in rows : t.idx = s.idx => t = s
    BY <2>1, <1>6
  <2>4. s \in rows /\ s.idx = s.idx /\ \A t \in rows : t.idx = s.idx => s.started <= t.started
    BY <2>1, <2>2, <2>3
  <2>5. PICK c : c = EarliestAt(rows, s.idx)
    OBVIOUS
  <2>6. c \in rows /\ c.idx = s.idx
    BY <2>4, <2>5 DEF EarliestAt
  <2> QED BY <2>1, <2>3, <2>5, <2>6
<1>8. ReadSteps(r.id) = RowsOf(r.id)
  <2>1. ReadSteps(r.id) = {EarliestAt(RowsOf(r.id), s.idx) : s \in RowsOf(r.id)}
    BY <1>3 DEF ReadSteps
  <2> QED BY <2>1, <1>7
<1> QED BY <1>6, <1>8

(* What lakeread.Open merges under one episode id is every row of the original and its
   patches, each span once: closeLocked numbers the steps of an original below patchIdxBase,
   nextPatchIdx never repeats an index while the session is remembered, and ids that NewID
   did not make belong to one session. *)
THEOREM PatchesAreMerged == IdsNameSessions /\ FewSpans => (Spec => []ReaderMergesPatches)
<1> SUFFICES ASSUME IdsNameSessions, FewSpans PROVE Spec => []ReaderMergesPatches
  OBVIOUS
<1>1. Init => AssemblerInv /\ ReadInv
  BY InitHolds, ReadInit
<1>2. AssemblerInv /\ ReadInv /\ [Next]_vars => (AssemblerInv /\ ReadInv)'
  BY NextKeeps, ReadNext
<1>3. AssemblerInv /\ ReadInv => ReaderMergesPatches
  BY ReaderMerges
<1> QED BY <1>1, <1>2, <1>3, PTL DEF Spec
=============================================================================
