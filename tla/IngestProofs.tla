---------------------------- MODULE IngestProofs ----------------------------
(***************************************************************************)
(* Proofs about Ingest: what an accepted request brought stays accounted   *)
(* for, a request that is rejected as a whole leaves nothing behind, and   *)
(* sampling does not split an episode, for every set of producers, bodies, *)
(* policies and limits.                                                    *)
(*                                                                         *)
(* The invariant says of every place a record can be in what got it there: *)
(* its spans are of requests that may run at all, some policy kept them at *)
(* the head and, behind onEpisode, at the tail.  Nothing that was          *)
(* accounted for is ever lost sight of, and every request has accounted    *)
(* for the records that are behind it.                                     *)
(***************************************************************************)
EXTENDS Ingest, SequenceFacts

(* A request of a handler that converts the whole body first, and cannot: it never runs. *)
Hopeless(q) == req[q].endpoint \in WholeBodyFirst /\ Malformed \in Range(req[q].stream)

Admissible == UNION {Range(req[q].stream) \ {Malformed} : q \in {p \in Producers : ~Hopeless(p)}}

ReqInv ==
    /\ req = [q \in Producers |->
                [endpoint |-> req[q].endpoint, src |-> req[q].src, st |-> req[q].st,
                 at |-> req[q].at, stream |-> req[q].stream]]
    /\ \A q \in Producers :
         /\ req[q].at \in Nat
         /\ IsSeq(req[q].stream)
         /\ \A e \in Range(req[q].stream) \ {Malformed} : e.session \notin Producers
         /\ req[q].st = "running" =>
              req[q].at > 0 /\ ~Hopeless(q) /\ req[q].endpoint # "outcomes"
         /\ req[q].st = "rejected" /\ req[q].endpoint \in WholeBodyFirst => Hopeless(q)

PolicyInv ==
    /\ pol \in inForce
    /\ stage \in [Goroutines -> inForce \cup {NoPolicy}]
    /\ \A g \in Goroutines : work[g] = <<>> => stage[g] = NoPolicy

(* Some policy that was in force kept the envelope at the head, or would keep the episode
   of this id at the tail. *)
HeadKept(e) == \E p \in inForce : HeadKeep(p, e)
TailKept(id) == \E p \in inForce : p.keepErrors \/ id.place < p.otherwise

(* The session was opened once with an episode of this id. *)
IsNamed(session, id) == [session |-> session, id |-> id] \in named

(* An episode or a patch, of admissible envelopes of one session that were kept, under an
   id that the session was opened with. *)
IsEpisode(r) ==
    /\ r = [session |-> r.session, id |-> r.id, src |-> r.src, spans |-> r.spans, patch |-> r.patch]
    /\ IsNamed(r.session, r.id)
    /\ r.spans \subseteq Admissible
    /\ \A e \in r.spans : e.session = r.session /\ HeadKept(e)

(* The id of a span that a request which may run brings. *)
IsSpanID(i) == \E e \in Admissible : i = <<e.session, e.span>>

KnownAreNamed ==
    /\ known = [s \in DOMAIN known |-> [id |-> known[s].id, spans |-> known[s].spans]]
    /\ \A s \in DOMAIN known : IsNamed(s, known[s].id)

MemoryInv ==
    /\ IsFiniteSet(open)
    /\ \A r \in open : IsEpisode(r)
    /\ KnownAreNamed
    /\ work = [g \in Goroutines |-> work[g]]
    /\ \A g \in Goroutines : IsSeq(work[g]) /\ \A r \in Range(work[g]) : IsEpisode(r)

(* Where an outcome or a span that was kept is. *)
IsKept(i) ==
    \/ i[1] \in Producers
    \/ /\ IsSpanID(i)
       /\ \E n \in named : n.session = i[1] /\ TailKept(n.id)
       /\ \E e \in Admissible : e.session = i[1] /\ HeadKept(e)

RecordsInv ==
    /\ \A r \in buffer : r.session \in Producers \/ (IsEpisode(r) /\ TailKept(r.id))
    /\ \A i \in lake : IsKept(i)
    /\ quarantined = [s \in DOMAIN quarantined |-> quarantined[s]]
    /\ \A s \in DOMAIN quarantined : IsEpisode(quarantined[s])

(* A policy that was in force sampled the span out, at the head or at the tail. *)
IsSampledOut(i) ==
    \/ \E p \in inForce, e \in Admissible : e.session = i[1] /\ ~HeadKeep(p, e)
    \/ \E p \in inForce, n \in named : n.session = i[1] /\ ~(n.id.place < p.otherwise)

GoneInv ==
    /\ gone = [r \in Reasons |-> gone[r]]
    /\ \A r \in Reasons : \A i \in gone[r] : IsSpanID(i)
    /\ \A i \in gone["sampled"] : IsSampledOut(i)

(* How far each request is: what is behind it is accounted for. *)
IsOutcomes(q) == req[q].endpoint = "outcomes" \/ q \in OutcomeFiles

Passed(q) ==
    IF req[q].st = "accepted" THEN DOMAIN req[q].stream
    ELSE {k \in DOMAIN req[q].stream : req[q].st = "running" /\ k < req[q].at}

KnownInv == \A s \in DOMAIN known : known[s].spans \subseteq Accounted

AccountedFor(q, k) ==
    IF IsOutcomes(q) THEN <<q, req[q].stream[k].span>> \in Stored
    ELSE <<req[q].stream[k].session, req[q].stream[k].span>> \in Accounted

ProgressInv == \A q \in Producers : \A k \in Passed(q) : AccountedFor(q, k)

IngestInv ==
    /\ ReqInv /\ PolicyInv /\ MemoryInv /\ RecordsInv /\ GoneInv /\ KnownInv /\ ProgressInv

-----------------------------------------------------------------------------
(* Sequences. *)

(* SetToSeq lists the whole set. *)
LEMMA Listed ==
    ASSUME NEW S, IsFiniteSet(S)
    PROVE  IsSeq(SetToSeq(S)) /\ Range(SetToSeq(S)) = S
<1> DEFINE n == Cardinality(S)
           f == SetToSeq(S)
<1>1. n \in Nat /\ ExistsBijection(1 .. n, S)
  BY FS_CountingElements, FS_CardinalityType
<1>2. \E h \in [1 .. n -> S] : IsInjective(h)
  BY <1>1 DEF ExistsBijection, Bijection, Injection, IsInjective, Surjection
<1>3. f \in [1 .. n -> S] /\ IsInjective(f)
  BY <1>2 DEF SetToSeq
<1>4. f \in Seq(S)
  BY <1>1, <1>3
<1>5. IsSeq(f)
  BY <1>4, SeqOfItsRange
<1>6. IsFiniteSet(1 .. n) /\ Cardinality(1 .. n) = n
  BY <1>1, FS_Interval
<1>7. f \in Injection(1 .. n, Range(f))
  BY <1>3 DEF Injection, IsInjective, Range
<1>8. f \in Bijection(1 .. n, Range(f))
  BY <1>7, <1>3 DEF Bijection, Surjection, Range, Injection
<1>9. IsFiniteSet(Range(f)) /\ Cardinality(Range(f)) = n
  BY <1>6, <1>8, FS_Bijection DEF ExistsBijection
<1>10. Range(f) \subseteq S
  BY <1>3 DEF Range
<1>11. Range(f) = S
  BY <1>9, <1>10, FS_Subset
<1> QED BY <1>5, <1>11

-----------------------------------------------------------------------------
(* Requests.  A step changes how far a request is, never what it asks for. *)

SameRequests ==
    \A q \in Producers : /\ req'[q].endpoint = req[q].endpoint
                         /\ req'[q].src = req[q].src
                         /\ req'[q].stream = req[q].stream

(* q is now at the position at with status st, and the others are where they were. *)
AtNow(q, st, at) ==
    /\ req'[q].st = st /\ req'[q].at = at
    /\ \A other \in Producers \ {q} : req'[other].st = req[other].st /\ req'[other].at = req[other].at

IsRequest(r) ==
    r = [endpoint |-> r.endpoint, src |-> r.src, st |-> r.st, at |-> r.at, stream |-> r.stream]

LEMMA MovedRequest ==
    ASSUME NEW r, IsRequest(r), NEW st, NEW at
    PROVE  Moved(r, st, at) = [endpoint |-> r.endpoint, src |-> r.src, st |-> st,
                               at |-> at, stream |-> r.stream]
<1>1. PICK a, b, c, d, e : r = [endpoint |-> a, src |-> b, st |-> c, at |-> d, stream |-> e]
  BY Zenon DEF IsRequest
<1>2. PICK s : s = Moved(r, st, at)
  OBVIOUS
<1>3. s = [endpoint |-> a, src |-> b, st |-> st, at |-> at, stream |-> e]
  BY <1>1, <1>2 DEF Moved
<1> QED BY <1>1, <1>2, <1>3

LEMMA GotoEffect ==
    ASSUME ReqInv, NEW q \in Producers, NEW st, NEW at, Goto(q, st, at)
    PROVE  /\ SameRequests /\ AtNow(q, st, at)
           /\ req' = [p \in Producers |->
                        [endpoint |-> req'[p].endpoint, src |-> req'[p].src, st |-> req'[p].st,
                         at |-> req'[p].at, stream |-> req'[p].stream]]
<1>1. req = [p \in Producers |->
               [endpoint |-> req[p].endpoint, src |-> req[p].src, st |-> req[p].st,
                at |-> req[p].at, stream |-> req[p].stream]]
  BY DEF ReqInv
<1>2. req'[q] = [endpoint |-> req[q].endpoint, src |-> req[q].src, st |-> st,
                 at |-> at, stream |-> req[q].stream]
  <2>1. req'[q] = Moved(req[q], st, at)
    BY <1>1 DEF Goto
  <2>2. IsRequest(req[q])
    BY <1>1 DEF IsRequest
  <2> QED BY <2>1, <2>2, MovedRequest
<1>3. /\ DOMAIN req' = Producers /\ req' = [p \in Producers |-> req'[p]]
      /\ \A p \in Producers \ {q} : req'[p] = req[p]
  BY <1>1 DEF Goto
<1>4. SameRequests /\ AtNow(q, st, at)
  BY <1>2, <1>3 DEF SameRequests, AtNow
<1>5. \A p \in Producers :
        req'[p] = [endpoint |-> req'[p].endpoint, src |-> req'[p].src, st |-> req'[p].st,
                   at |-> req'[p].at, stream |-> req'[p].stream]
  BY <1>1, <1>2, <1>3
<1> QED BY <1>3, <1>4, <1>5

LEMMA SameHopeless ==
    ASSUME SameRequests
    PROVE  /\ \A q \in Producers : Hopeless(q)' = Hopeless(q)
           /\ Admissible' = Admissible /\ Envelopes' = Envelopes
           /\ Imports' = Imports /\ OutcomeFiles' = OutcomeFiles /\ Commands' = Commands
           /\ \A q \in Producers : IsOutcomes(q)' = IsOutcomes(q)
<1>1. ASSUME NEW q \in Producers PROVE Hopeless(q)' = Hopeless(q)
  BY DEF SameRequests, Hopeless
<1>2. Admissible' = Admissible
  BY <1>1 DEF SameRequests, Admissible
<1>3. Envelopes' = Envelopes
  BY DEF SameRequests, Envelopes
<1>4. Imports' = Imports /\ OutcomeFiles' = OutcomeFiles
  BY DEF SameRequests, Imports, OutcomeFiles
<1>5. ASSUME NEW q \in Producers PROVE IsOutcomes(q)' = IsOutcomes(q)
  BY <1>4 DEF SameRequests, IsOutcomes
<1> QED BY <1>1, <1>2, <1>3, <1>4, <1>5 DEF Commands

(* A request that is not hopeless may run. *)
LEMMA GotoKeepsReqInv ==
    ASSUME ReqInv, NEW q \in Producers, NEW st, NEW at \in Nat, Goto(q, st, at),
           st = "running" => at > 0 /\ ~Hopeless(q) /\ req[q].endpoint # "outcomes",
           st = "rejected" /\ req[q].endpoint \in WholeBodyFirst => Hopeless(q)
    PROVE  ReqInv'
<1>1. SameRequests /\ AtNow(q, st, at)
  BY GotoEffect
<1>2. \A p \in Producers : Hopeless(p)' = Hopeless(p)
  BY <1>1, SameHopeless
<1>3. ASSUME NEW p \in Producers
      PROVE  /\ req'[p].at \in Nat
             /\ req'[p].st = "running" =>
                  req'[p].at > 0 /\ ~Hopeless(p) /\ req'[p].endpoint # "outcomes"
             /\ req'[p].st = "rejected" /\ req'[p].endpoint \in WholeBodyFirst => Hopeless(p)
  <2>1. CASE p = q
    BY <1>1, <2>1 DEF ReqInv, SameRequests, AtNow
  <2>2. CASE p # q
    BY <1>1, <2>2 DEF ReqInv, SameRequests, AtNow
  <2> QED BY <2>1, <2>2
<1>4. ASSUME NEW p \in Producers
      PROVE  /\ IsSeq(req'[p].stream)
             /\ \A e \in Range(req'[p].stream) \ {Malformed} : e.session \notin Producers
  BY <1>1 DEF ReqInv, SameRequests
<1>5. req' = [p \in Producers |->
                [endpoint |-> req'[p].endpoint, src |-> req'[p].src, st |-> req'[p].st,
                 at |-> req'[p].at, stream |-> req'[p].stream]]
  BY GotoEffect
<1> QED BY <1>2, <1>3, <1>4, <1>5 DEF ReqInv

LEMMA ReqUnchanged ==
    ASSUME ReqInv, UNCHANGED req
    PROVE  ReqInv' /\ SameRequests
BY DEF ReqInv, SameRequests, Hopeless

(* A handler starts where the body has been looked at as far as it is before the first
   record is passed on. *)
LEMMA ConvertAllEffect ==
    ASSUME ReqInv, NEW q \in Producers, ConvertAll(q), req[q].endpoint \in WholeBodyFirst
    PROVE  ReqInv' /\ SameRequests
<1>1. CASE Malformed \in Range(req[q].stream)
  <2>1. Goto(q, "rejected", 0) /\ Hopeless(q)
    BY <1>1 DEF ConvertAll, Hopeless
  <2>2. ReqInv'
    BY <2>1, GotoKeepsReqInv
  <2> QED BY <2>1, <2>2, GotoEffect
<1>2. CASE Malformed \notin Range(req[q].stream)
  <2>1. Goto(q, "running", 1) /\ ~Hopeless(q)
    BY <1>2 DEF ConvertAll, Hopeless
  <2>2. req[q].endpoint # "outcomes"
    BY DEF WholeBodyFirst
  <2>3. ReqInv'
    BY <2>1, <2>2, GotoKeepsReqInv
  <2> QED BY <2>1, <2>3, GotoEffect
<1> QED BY <1>1, <1>2

LEMMA AdvanceEffect ==
    ASSUME ReqInv, NEW q \in Producers, req[q].st = "running", Advance(q)
    PROVE  ReqInv' /\ SameRequests /\ AtNow(q, "running", req[q].at + 1)
<1>1. /\ Goto(q, "running", req[q].at + 1) /\ req[q].at + 1 \in Nat /\ req[q].at + 1 > 0
      /\ ~Hopeless(q) /\ req[q].endpoint # "outcomes"
  BY DEF Advance, ReqInv
<1>2. ReqInv'
  BY <1>1, GotoKeepsReqInv
<1> QED BY <1>1, <1>2, GotoEffect

(* A request that ends, for whatever reason but that its records do not convert. *)
LEMMA EndEffect ==
    ASSUME ReqInv, NEW q \in Producers, NEW st \in {"accepted", "refused", "failed"}, Goto(q, st, 0)
    PROVE  ReqInv' /\ SameRequests /\ AtNow(q, st, 0)
<1>1. st # "running" /\ st # "rejected" /\ 0 \in Nat
  OBVIOUS
<1>2. ReqInv'
  BY <1>1, GotoKeepsReqInv
<1> QED BY <1>2, GotoEffect

LEMMA StartsRunning ==
    ASSUME ReqInv, NEW q \in Producers, Goto(q, "running", 1),
           req[q].endpoint \notin WholeBodyFirst, req[q].endpoint # "outcomes"
    PROVE  ReqInv' /\ SameRequests
<1>1. ~Hopeless(q) /\ 1 \in Nat /\ 1 > 0
  BY DEF Hopeless
<1>2. ReqInv'
  BY <1>1, GotoKeepsReqInv
<1> QED BY <1>2, GotoEffect

LEMMA ReqStep ==
    ASSUME ReqInv, Next
    PROVE  ReqInv' /\ SameRequests
<1> USE DEF WholeBodyFirst
<1>1. ASSUME NEW q \in Producers, Handle(q) PROVE ReqInv' /\ SameRequests
  <2>1. CASE HandleEpisodes(q) \/ HandleTraces(q) \/ ConsumeTraces(q)
    <3>1. /\ req[q].endpoint \in {"episodes", "traces", "exporter"}
          /\ Goto(q, "running", 1)
      BY <2>1 DEF HandleEpisodes, HandleTraces, ConsumeTraces, Receive
    <3> QED BY <3>1, StartsRunning
  <2>2. CASE HandleSpans(q) \/ HandleHook(q)
    <3>1. req[q].endpoint \in WholeBodyFirst /\ ConvertAll(q)
      BY <2>2 DEF HandleSpans, HandleHook, Receive
    <3> QED BY <3>1, ConvertAllEffect
  <2>3. CASE HeadSampled(q) \/ Accept(q)
    <3>1. req[q].st = "running" /\ Advance(q)
      BY <2>3 DEF HeadSampled, Accept, Offering
    <3> QED BY <3>1, AdvanceEffect
  <2>4. CASE Refuse(q)
    BY <2>4, EndEffect DEF Refuse
  <2>5. CASE Reply(q)
    <3>1. CASE Goto(q, "accepted", 0)
      BY <3>1, EndEffect
    <3>2. CASE /\ req[q].at \in DOMAIN req[q].stream /\ req[q].stream[req[q].at] = Malformed
               /\ Goto(q, "rejected", 0)
      <4>1. Malformed \in Range(req[q].stream)
        BY <3>2 DEF Range
      <4>2. ~Hopeless(q)
        BY <2>5 DEF Reply, ReqInv
      <4>3. req[q].endpoint \notin WholeBodyFirst
        BY <4>1, <4>2 DEF Hopeless
      <4>4. ReqInv'
        BY <3>2, <4>3, GotoKeepsReqInv
      <4> QED BY <3>2, <4>4, GotoEffect
    <3> QED BY <2>5, <3>1, <3>2 DEF Reply
  <2> QED BY <1>1, <2>1, <2>2, <2>3, <2>4, <2>5 DEF Handle
<1>2. ASSUME NEW q \in Producers, HandleOutcomes(q) PROVE ReqInv' /\ SameRequests
  <2>1. PICK answer \in {"refused", "rejected", "accepted"} : Goto(q, answer, 0)
    BY <1>2 DEF HandleOutcomes
  <2>2. req[q].endpoint = "outcomes"
    BY <1>2 DEF HandleOutcomes
  <2>3. ReqInv'
    BY <2>1, <2>2, GotoKeepsReqInv
  <2> QED BY <2>1, <2>3, GotoEffect
<1>3. ASSUME NEW q \in Producers, CmdImport(q) \/ CmdOutcomes(q) PROVE ReqInv' /\ SameRequests
  <2>1. req[q].endpoint \notin WholeBodyFirst /\ req[q].endpoint # "outcomes"
    BY <1>3 DEF CmdImport, CmdOutcomes, Imports, OutcomeFiles
  <2>2. Goto(q, "running", 1) \/ Goto(q, "failed", 0)
    BY <1>3 DEF CmdImport, CmdOutcomes
  <2> QED BY <2>1, <2>2, StartsRunning, EndEffect
<1>4. ASSUME NEW q \in Producers, RunCommand(q) PROVE ReqInv' /\ SameRequests
  <2>1. CASE ImportRefused(q)
    BY <2>1, EndEffect DEF ImportRefused
  <2>2. CASE ImportFlush(q)
    BY <2>2, AdvanceEffect DEF ImportFlush
  <2>3. CASE LoadOutcomes(q)
    <3>1. CASE Goto(q, "failed", 0)
      BY <3>1, EndEffect
    <3>2. CASE Goto(q, "running", req[q].at + Chunk)
      <4>1. /\ req[q].at \in Nat /\ req[q].at > 0 /\ ~Hopeless(q) /\ req[q].endpoint # "outcomes"
        BY <2>3 DEF ReqInv, LoadOutcomes
      <4>2. req[q].at + Chunk \in Nat /\ req[q].at + Chunk > 0
        BY <4>1, IngestAssumption
      <4>3. ReqInv'
        BY <3>2, <4>1, <4>2, GotoKeepsReqInv
      <4> QED BY <3>2, <4>3, GotoEffect
    <3> QED BY <2>3, <3>1, <3>2 DEF LoadOutcomes
  <2>4. CASE DrainOnce(q)
    BY <2>4, EndEffect DEF DrainOnce
  <2> QED BY <1>4, <2>1, <2>2, <2>3, <2>4 DEF RunCommand
<1>5. ASSUME NEW g \in Goroutines, OnEpisode(g) PROVE ReqInv' /\ SameRequests
  <2>1. UNCHANGED req
    BY <1>5 DEF OnEpisode, Redact, Quarantine, Keep
  <2> QED BY <2>1, ReqUnchanged
<1>6. ASSUME Deliver \/ Refill \/ Reload \/ Expire \/ RememberEmitted PROVE ReqInv' /\ SameRequests
  <2>1. UNCHANGED req
    BY <1>6 DEF Deliver, Refill, Reload, Expire, RememberEmitted
  <2> QED BY <2>1, ReqUnchanged
<1>7. ASSUME Kill PROVE ReqInv' /\ SameRequests
  <2>1. ASSUME NEW q \in Producers
        PROVE  /\ req'[q] = [endpoint |-> req'[q].endpoint, src |-> req'[q].src, st |-> req'[q].st,
                             at |-> req'[q].at, stream |-> req'[q].stream]
               /\ req'[q].endpoint = req[q].endpoint /\ req'[q].src = req[q].src
               /\ req'[q].stream = req[q].stream
               /\ req'[q].at \in Nat /\ req'[q].st # "running"
               /\ req'[q].st = req[q].st \/ req'[q].st # "rejected"
    <3>1. IsRequest(req[q]) /\ req[q].at \in Nat
      BY DEF ReqInv, IsRequest
    <3>2. CASE req[q].st # "running"
      <4>1. req'[q] = req[q]
        BY <1>7, <3>2 DEF Kill
      <4> QED BY <4>1, <3>1, <3>2 DEF IsRequest
    <3>3. CASE req[q].st = "running"
      <4>1. PICK st \in {"failed", "refused"} : req'[q] = Moved(req[q], st, 0)
        BY <1>7, <3>3 DEF Kill
      <4>2. req'[q] = [endpoint |-> req[q].endpoint, src |-> req[q].src, st |-> st,
                       at |-> 0, stream |-> req[q].stream]
        BY <4>1, <3>1, MovedRequest
      <4> QED BY <4>1, <4>2
    <3> QED BY <3>2, <3>3
  <2>2. SameRequests
    BY <2>1 DEF SameRequests
  <2>3. \A q \in Producers : Hopeless(q)' = Hopeless(q)
    BY <2>2, SameHopeless
  <2>4. req' = [q \in Producers |-> req'[q]]
    BY <1>7 DEF Kill
  <2>5. req' = [q \in Producers |->
                  [endpoint |-> req'[q].endpoint, src |-> req'[q].src, st |-> req'[q].st,
                   at |-> req'[q].at, stream |-> req'[q].stream]]
    BY <2>1, <2>4
  <2>6. ASSUME NEW q \in Producers
        PROVE  /\ req'[q].at \in Nat /\ IsSeq(req'[q].stream)
               /\ \A e \in Range(req'[q].stream) \ {Malformed} : e.session \notin Producers
               /\ req'[q].st # "running"
               /\ req'[q].st = "rejected" /\ req'[q].endpoint \in WholeBodyFirst => Hopeless(q)
    BY <2>1 DEF ReqInv
  <2> QED BY <2>2, <2>3, <2>5, <2>6 DEF ReqInv
<1> QED BY <1>1, <1>2, <1>3, <1>4, <1>5, <1>6, <1>7 DEF Next

(* The policies that have been in force and the ids that were given only grow in number. *)
Grows == inForce \subseteq inForce' /\ named \subseteq named'

LEMMA HistoryGrows ==
    ASSUME Next, pol \in inForce
    PROVE  Grows /\ pol' \in inForce'
<1>1. CASE Reload
  BY <1>1 DEF Reload, Grows, memory
<1>2. ASSUME NEW q \in Producers, Handle(q)
      PROVE  UNCHANGED <<pol, inForce>> /\ named \subseteq named'
  <2>1. CASE Accept(q)
    <3>1. Add(q, Current(q)) /\ UNCHANGED <<pol, inForce>>
      BY <2>1 DEF Accept
    <3>2. named \subseteq named'
      BY <3>1 DEF Add
    <3> QED BY <3>1, <3>2
  <2>2. CASE ~Accept(q)
    BY <1>2, <2>2 DEF Handle, HandleEpisodes, HandleSpans, HandleHook, HandleTraces, ConsumeTraces,
                      Receive, HeadSampled, Refuse, Reply, memory
  <2> QED BY <2>1, <2>2
<1>3. ASSUME NEW q \in Producers, HandleOutcomes(q) \/ CmdImport(q) \/ CmdOutcomes(q) \/ RunCommand(q)
      PROVE  UNCHANGED <<pol, inForce, named>>
  BY <1>3 DEF HandleOutcomes, CmdImport, CmdOutcomes, StartCommand, RunCommand,
              ImportRefused, ImportFlush, LoadOutcomes, DrainOnce, Forget, memory
<1>4. ASSUME NEW g \in Goroutines, OnEpisode(g) PROVE UNCHANGED <<pol, inForce, named>>
  BY <1>4 DEF OnEpisode, Redact, Quarantine, Keep, Finish
<1>5. ASSUME Deliver \/ Refill \/ Expire \/ RememberEmitted \/ Kill
      PROVE  UNCHANGED <<pol, inForce, named>>
  BY <1>5 DEF Deliver, Refill, Expire, RememberEmitted, Kill, Forget, memory
<1> QED BY <1>1, <1>2, <1>3, <1>4, <1>5 DEF Next, Grows

(* What was kept or sampled out by a policy that was in force stays so. *)
LEMMA StaysTrue ==
    ASSUME SameRequests, Grows
    PROVE  /\ \A e : HeadKept(e) => HeadKept(e)'
           /\ \A id : TailKept(id) => TailKept(id)'
           /\ \A r : IsEpisode(r) => IsEpisode(r)'
           /\ \A i : IsSpanID(i) => IsSpanID(i)'
           /\ \A i : IsKept(i) => IsKept(i)'
           /\ \A i : IsSampledOut(i) => IsSampledOut(i)'
<1>1. Admissible' = Admissible
  BY SameHopeless
<1>2. \A e : HeadKept(e) => HeadKept(e)'
  BY DEF HeadKept, Grows
<1>3. \A id : TailKept(id) => TailKept(id)'
  BY DEF TailKept, Grows
<1>4. \A r : IsEpisode(r) => IsEpisode(r)'
  BY <1>1, <1>2 DEF IsEpisode, IsNamed, Grows
<1>5. \A i : IsSpanID(i) => IsSpanID(i)'
  BY <1>1 DEF IsSpanID
<1>6. \A i : IsKept(i) => IsKept(i)'
  BY <1>1, <1>2, <1>3, <1>5 DEF IsKept, Grows
<1>7. \A i : IsSampledOut(i) => IsSampledOut(i)'
  BY <1>1 DEF IsSampledOut, Grows
<1> QED BY <1>2, <1>3, <1>4, <1>5, <1>6, <1>7

-----------------------------------------------------------------------------
(* Memory: what the assembler and the goroutines hold. *)

LEMMA HeldIs ==
    \A i : i \in Held <=> \/ \E r \in open : i \in SpanIDs(r)
                          \/ \E g \in Goroutines : \E r \in Range(work[g]) : i \in SpanIDs(r)
BY DEF Held, IDs

LEMMA HeldIsNext ==
    \A i : i \in Held' <=> \/ \E r \in open' : i \in SpanIDs(r)
                           \/ \E g \in Goroutines : \E r \in Range(work'[g]) : i \in SpanIDs(r)
BY DEF Held, IDs

(* Goroutine g has work to do, and what is open is episodes still. *)
MemoryMove(g) ==
    /\ IsFiniteSet(open')
    /\ \A r \in open' : IsEpisode(r)'
    /\ KnownAreNamed'
    /\ work' = [h \in Goroutines |-> work'[h]]
    /\ \A h \in Goroutines \ {g} : work'[h] = work[h]
    /\ IsSeq(work'[g])
    /\ \A r \in Range(work'[g]) : IsEpisode(r)'

(* What a session is known to have emitted is held, or was known before. *)
KnownMove ==
    \A s \in DOMAIN known' : \A i \in known'[s].spans :
        i \in Held' \/ (s \in DOMAIN known /\ i \in known[s].spans)

(* Some sessions are forgotten, or none. *)
KnownFewer ==
    /\ known' = [s \in DOMAIN known' |-> known'[s]]
    /\ \A s \in DOMAIN known' : s \in DOMAIN known /\ known'[s] = known[s]

NamedNext(session, id) == [session |-> session, id |-> id] \in named'

LEMMA FewerAreNamed ==
    ASSUME KnownAreNamed, KnownFewer, Grows
    PROVE  KnownAreNamed'
<1>1. \A s \in DOMAIN known' : known'[s] = [id |-> known'[s].id, spans |-> known'[s].spans]
  BY DEF KnownAreNamed, KnownFewer
<1>2. known' = [s \in DOMAIN known' |-> [id |-> known'[s].id, spans |-> known'[s].spans]]
  BY <1>1 DEF KnownFewer
<1>3. \A s \in DOMAIN known' : NamedNext(s, known'[s].id)
  BY DEF KnownAreNamed, KnownFewer, IsNamed, NamedNext, Grows
<1> QED BY <1>2, <1>3 DEF KnownAreNamed, IsNamed, NamedNext

LEMMA SameAreFewer ==
    ASSUME KnownAreNamed, UNCHANGED known \/ known' = <<>>
    PROVE  KnownFewer
<1>1. CASE UNCHANGED known
  <2>1. known = [s \in DOMAIN known |-> known[s]]
    BY DEF KnownAreNamed
  <2> QED BY <1>1, <2>1 DEF KnownFewer
<1>2. CASE known' = <<>>
  <2>1. DOMAIN <<>> = {} /\ <<>> = [s \in DOMAIN <<>> |-> <<>>[s]]
    OBVIOUS
  <2> QED BY <1>2, <2>1 DEF KnownFewer
<1> QED BY <1>1, <1>2

LEMMA CloseDueEffect ==
    ASSUME MemoryInv, NEW g \in Goroutines, work[g] = <<>>, Grows,
           NEW eps, IsFiniteSet(eps), \A r \in eps : IsEpisode(r)',
           NEW due \in SUBSET eps, CloseDue(g, eps, due)
    PROVE  /\ MemoryMove(g) /\ KnownMove
           /\ eps = open' \cup Range(work'[g])
<1>1. IsFiniteSet(due) /\ IsFiniteSet(open')
  BY FS_Subset, FS_Difference DEF CloseDue
<1>2. IsSeq(SetToSeq(due)) /\ Range(SetToSeq(due)) = due
  BY <1>1, Listed
<1>3. /\ work'[g] = SetToSeq(due)
      /\ work' = [h \in Goroutines |-> work'[h]]
      /\ \A h \in Goroutines \ {g} : work'[h] = work[h]
  BY DEF CloseDue, MemoryInv
<1>4. /\ known' = [s \in DOMAIN known' |-> known'[s]]
      /\ \A s \in DOMAIN known' :
           \/ \E r \in due : r.session = s /\ known'[s] = [id |-> r.id, spans |-> SpanIDs(r)]
           \/ s \in DOMAIN known /\ known'[s] = known[s]
  <2> DEFINE closed == {r.session : r \in due}
             Of(s) == CHOOSE r \in due : r.session = s
  <2>1. known' = [s \in DOMAIN known \cup closed |->
                    IF s \in closed THEN [id |-> Of(s).id, spans |-> SpanIDs(Of(s))] ELSE known[s]]
    BY DEF CloseDue
  <2>2. \A s \in closed : Of(s) \in due /\ Of(s).session = s
    OBVIOUS
  <2> HIDE DEF Of, closed
  <2> QED BY <2>1, <2>2
<1>5. eps = open' \cup Range(work'[g])
  BY <1>2, <1>3 DEF CloseDue
<1>6. ASSUME NEW s \in DOMAIN known'
      PROVE  /\ known'[s] = [id |-> known'[s].id, spans |-> known'[s].spans]
             /\ NamedNext(s, known'[s].id)
             /\ \A i \in known'[s].spans : i \in Held' \/ (s \in DOMAIN known /\ i \in known[s].spans)
  <2>1. CASE \E r \in due : r.session = s /\ known'[s] = [id |-> r.id, spans |-> SpanIDs(r)]
    <3>1. PICK r \in due : r.session = s /\ known'[s] = [id |-> r.id, spans |-> SpanIDs(r)]
      BY <2>1
    <3>2. known'[s].id = r.id /\ known'[s].spans = SpanIDs(r)
      BY <3>1
    <3>3. NamedNext(s, r.id)
      BY <3>1 DEF IsEpisode, IsNamed, NamedNext
    <3>4. \A i \in SpanIDs(r) : i \in Held'
      BY <1>2, <1>3, HeldIsNext
    <3> QED BY <3>1, <3>2, <3>3, <3>4 DEF IsNamed, NamedNext
  <2>2. CASE s \in DOMAIN known /\ known'[s] = known[s]
    <3>1. known[s] = [id |-> known[s].id, spans |-> known[s].spans] /\ IsNamed(s, known[s].id)
      BY <2>2 DEF MemoryInv, KnownAreNamed
    <3> QED BY <2>2, <3>1 DEF IsNamed, NamedNext, Grows
  <2> QED BY <1>4, <1>6, <2>1, <2>2
<1>8. MemoryMove(g)
  <2>1. known' = [s \in DOMAIN known' |-> [id |-> known'[s].id, spans |-> known'[s].spans]]
    BY <1>4, <1>6
  <2>2. KnownAreNamed'
    BY <2>1, <1>6 DEF KnownAreNamed, IsNamed, NamedNext
  <2> QED BY <1>1, <1>2, <1>3, <2>2 DEF MemoryMove, CloseDue
<1>7. KnownMove
  BY <1>6 DEF KnownMove
<1> QED BY <1>5, <1>7, <1>8

(* What was in the episodes from which those due are closed is held afterwards. *)
LEMMA HeldThrough ==
    ASSUME MemoryInv, NEW g \in Goroutines, work[g] = <<>>, MemoryMove(g),
           NEW eps, eps = open' \cup Range(work'[g]),
           \A r \in open : \E s \in eps : SpanIDs(r) \subseteq SpanIDs(s)
    PROVE  Held \subseteq Held'
<1> SUFFICES ASSUME NEW i \in Held PROVE i \in Held'
  OBVIOUS
<1>1. CASE \E r \in open : i \in SpanIDs(r)
  <2>1. PICK s \in eps : i \in SpanIDs(s)
    BY <1>1
  <2> QED BY <2>1, HeldIsNext
<1>2. CASE \E h \in Goroutines : \E r \in Range(work[h]) : i \in SpanIDs(r)
  <2>1. PICK h \in Goroutines : \E r \in Range(work[h]) : i \in SpanIDs(r)
    BY <1>2
  <2>2. h # g
    BY <2>1, NoneSeq
  <2>3. work'[h] = work[h]
    BY <2>2 DEF MemoryMove
  <2> QED BY <2>1, <2>3, HeldIsNext
<1> QED BY <1>1, <1>2, HeldIs

LEMMA AbsorbEffect ==
    ASSUME NEW r, IsEpisode(r), NEW e \in Admissible, HeadKept(e), e.session = r.session
    PROVE  /\ IsEpisode(Absorb(r, e))
           /\ SpanIDs(r) \subseteq SpanIDs(Absorb(r, e))
           /\ <<e.session, e.span>> \in SpanIDs(Absorb(r, e))
<1>1. CASE <<r.session, e.span>> \in SpanIDs(r)
  BY <1>1 DEF Absorb
<1>2. CASE <<r.session, e.span>> \notin SpanIDs(r)
  <2>1. PICK a, b, c, d, f : r = [session |-> a, id |-> b, src |-> c, spans |-> d, patch |-> f]
    BY Zenon DEF IsEpisode
  <2>2. PICK s : s = Absorb(r, e)
    OBVIOUS
  <2>3. s = [session |-> a, id |-> b, src |-> c, spans |-> d \cup {e}, patch |-> f]
    BY <1>2, <2>1, <2>2 DEF Absorb
  <2>4. s.session = r.session /\ s.id = r.id /\ s.spans = r.spans \cup {e}
    BY <2>1, <2>3
  <2>5. s = [session |-> s.session, id |-> s.id, src |-> s.src, spans |-> s.spans, patch |-> s.patch]
    BY <2>3
  <2>6. IsEpisode(s)
    BY <2>4, <2>5 DEF IsEpisode, IsNamed
  <2>7. SpanIDs(r) \subseteq SpanIDs(s) /\ <<e.session, e.span>> \in SpanIDs(s)
    BY <2>4 DEF SpanIDs
  <2> QED BY <2>2, <2>6, <2>7
<1> QED BY <1>1, <1>2

LEMMA RecordEffect ==
    ASSUME NEW e, NEW id, NEW patch
    PROVE  /\ e \in Admissible' /\ HeadKept(e)' /\ NamedNext(e.session, id) => IsEpisode(Record(e, id, patch))'
           /\ <<e.session, e.span>> \in SpanIDs(Record(e, id, patch))
<1>1. PICK s, src : /\ s = Record(e, id, patch)
                    /\ s = [session |-> e.session, id |-> id, src |-> src, spans |-> {e}, patch |-> patch]
  BY DEF Record
<1>2. /\ s.session = e.session /\ s.id = id /\ s.spans = {e}
      /\ s = [session |-> s.session, id |-> s.id, src |-> s.src, spans |-> s.spans, patch |-> s.patch]
  BY <1>1
<1>3. e \in Admissible' /\ HeadKept(e)' /\ NamedNext(e.session, id) => IsEpisode(s)'
  BY <1>2 DEF IsEpisode, IsNamed, NamedNext
<1>4. <<e.session, e.span>> \in SpanIDs(s)
  BY <1>2 DEF SpanIDs
<1> QED BY <1>1, <1>3, <1>4

LEMMA ImageIsFinite ==
    ASSUME NEW e, IsFiniteSet(open)
    PROVE  IsFiniteSet({IF r.session = e.session THEN Absorb(r, e) ELSE r : r \in open})
<1> DEFINE T == {IF r.session = e.session THEN Absorb(r, e) ELSE r : r \in open}
           f == [r \in open |-> IF r.session = e.session THEN Absorb(r, e) ELSE r]
<1>1. f \in Surjection(open, T)
  BY DEF Surjection
<1> QED BY <1>1, FS_Surjection

(* The assembler takes a span in: it is held, or was emitted before. *)
AddedOrKnown(e) ==
    \/ <<e.session, e.span>> \in Held'
    \/ e.session \in DOMAIN known /\ <<e.session, e.span>> \in known[e.session].spans

LEMMA AbsorbedEffect ==
    ASSUME MemoryInv, NEW g \in Goroutines, work[g] = <<>>, SameRequests, Grows,
           NEW e \in Admissible, HeadKept(e), e.session \in Opened,
           NEW due \in SUBSET {IF r.session = e.session THEN Absorb(r, e) ELSE r : r \in open},
           CloseDue(g, {IF r.session = e.session THEN Absorb(r, e) ELSE r : r \in open}, due)
    PROVE  MemoryMove(g) /\ KnownMove /\ Held \subseteq Held' /\ AddedOrKnown(e)
<1> DEFINE With(r) == IF r.session = e.session THEN Absorb(r, e) ELSE r
           changed == {With(r) : r \in open}
<1>1. ASSUME NEW r \in open
      PROVE  /\ IsEpisode(With(r)) /\ SpanIDs(r) \subseteq SpanIDs(With(r))
             /\ r.session = e.session => <<e.session, e.span>> \in SpanIDs(With(r))
  BY AbsorbEffect DEF MemoryInv
<1>2. IsFiniteSet(changed)
  BY ImageIsFinite DEF MemoryInv
<1>3. due \in SUBSET changed /\ CloseDue(g, changed, due)
  OBVIOUS
<1> HIDE DEF With
<1>4. \A s \in changed : IsEpisode(s)'
  BY <1>1, StaysTrue
<1>5. PICK eps : eps = changed
  OBVIOUS
<1>6. MemoryMove(g) /\ KnownMove /\ eps = open' \cup Range(work'[g])
  <2>1. IsFiniteSet(eps) /\ (\A s \in eps : IsEpisode(s)') /\ due \in SUBSET eps /\ CloseDue(g, eps, due)
    BY <1>2, <1>3, <1>4, <1>5
  <2> QED BY <2>1, CloseDueEffect
<1>7. \A r \in open : \E s \in eps : SpanIDs(r) \subseteq SpanIDs(s)
  BY <1>1, <1>5
<1>8. Held \subseteq Held'
  BY <1>6, <1>7, HeldThrough
<1>9. PICK r \in open : r.session = e.session
  BY DEF Opened
<1>10. With(r) \in eps /\ <<e.session, e.span>> \in SpanIDs(With(r))
  BY <1>1, <1>5, <1>9
<1>11. <<e.session, e.span>> \in Held'
  BY <1>6, <1>10, HeldIsNext
<1> QED BY <1>6, <1>8, <1>11 DEF AddedOrKnown

LEMMA OpenedEffect ==
    ASSUME MemoryInv, NEW g \in Goroutines, work[g] = <<>>, SameRequests, Grows,
           NEW e \in Admissible, HeadKept(e), NEW id, NamedNext(e.session, id),
           NEW due \in SUBSET (open \cup {Record(e, id, FALSE)}),
           CloseDue(g, open \cup {Record(e, id, FALSE)}, due)
    PROVE  MemoryMove(g) /\ KnownMove /\ Held \subseteq Held' /\ AddedOrKnown(e)
<1>1. PICK rec : rec = Record(e, id, FALSE)
  OBVIOUS
<1>2. PICK eps : eps = open \cup {rec}
  OBVIOUS
<1>3. due \in SUBSET eps /\ CloseDue(g, eps, due)
  BY <1>1, <1>2
<1>4. IsFiniteSet(eps)
  BY <1>2, FS_AddElement DEF MemoryInv
<1>5. IsEpisode(rec)' /\ <<e.session, e.span>> \in SpanIDs(rec)
  <2>1. e \in Admissible' /\ HeadKept(e)'
    BY StaysTrue, SameHopeless
  <2> QED BY <1>1, <2>1, RecordEffect
<1>6. \A s \in eps : IsEpisode(s)'
  BY <1>2, <1>5, StaysTrue DEF MemoryInv
<1>7. MemoryMove(g) /\ KnownMove /\ eps = open' \cup Range(work'[g])
  BY <1>3, <1>4, <1>6, CloseDueEffect
<1>8. Held \subseteq Held'
  BY <1>2, <1>7, HeldThrough
<1>9. <<e.session, e.span>> \in Held'
  BY <1>2, <1>5, <1>7, HeldIsNext
<1> QED BY <1>7, <1>8, <1>9 DEF AddedOrKnown

(* A span of a closed episode becomes a patch, which has the id of the episode. *)
Patches(g, e) ==
    /\ e.session \in DOMAIN known
    /\ known' = [known EXCEPT ![e.session].spans = @ \cup {<<e.session, e.span>>}]
    /\ work' = [work EXCEPT ![g] = <<Record(e, known[e.session].id, TRUE)>>]
    /\ UNCHANGED open

LEMMA SpansExcept ==
    ASSUME NEW id, NEW old, NEW new, NEW r, r = [id |-> id, spans |-> old]
    PROVE  [r EXCEPT !.spans = new] = [id |-> id, spans |-> new]
OBVIOUS

LEMMA PatchedEffect ==
    ASSUME MemoryInv, NEW g \in Goroutines, work[g] = <<>>, SameRequests, Grows,
           NEW e \in Admissible, HeadKept(e), Patches(g, e)
    PROVE  MemoryMove(g) /\ KnownMove /\ Held \subseteq Held' /\ AddedOrKnown(e)
<1>1. PICK id, i : id = known[e.session].id /\ i = <<e.session, e.span>>
  BY Zenon
<1>2. PICK rec : rec = Record(e, id, TRUE)
  OBVIOUS
<1>3. NamedNext(e.session, id)
  BY <1>1 DEF Patches, MemoryInv, KnownAreNamed, IsNamed, NamedNext, Grows
<1>4. IsEpisode(rec)' /\ i \in SpanIDs(rec)
  <2>1. e \in Admissible' /\ HeadKept(e)'
    BY StaysTrue, SameHopeless
  <2> QED BY <1>1, <1>2, <1>3, <2>1, RecordEffect
<1>5. work'[g] = <<rec>> /\ work' = [h \in Goroutines |-> work'[h]]
      /\ \A h \in Goroutines \ {g} : work'[h] = work[h]
  BY <1>1, <1>2 DEF MemoryInv, Patches
<1>6. IsSeq(work'[g]) /\ Range(work'[g]) = {rec}
  BY <1>5, OneSeq
<1>7. /\ known' = [s \in DOMAIN known' |-> known'[s]] /\ DOMAIN known' = DOMAIN known
      /\ known'[e.session] = [id |-> id, spans |-> known[e.session].spans \cup {i}]
      /\ \A s \in DOMAIN known \ {e.session} : known'[s] = known[s]
  <2>1. known = [s \in DOMAIN known |-> [id |-> known[s].id, spans |-> known[s].spans]]
    BY DEF MemoryInv, KnownAreNamed
  <2>2. PICK r, old : r = known[e.session] /\ old = known[e.session].spans
    BY Zenon
  <2>3. r = [id |-> id, spans |-> old]
    BY <1>1, <2>1, <2>2 DEF Patches
  <2>4. PICK new : new = [r EXCEPT !.spans = old \cup {i}]
    OBVIOUS
  <2>5. known' = [known EXCEPT ![e.session] = new]
    BY <1>1, <2>2, <2>4 DEF Patches
  <2>6. new = [id |-> id, spans |-> old \cup {i}]
    BY <2>3, <2>4, SpansExcept, Zenon
  <2>7. e.session \in DOMAIN known
    BY DEF Patches
  <2> QED BY <2>1, <2>2, <2>7, <2>5, <2>6
<1>8. KnownAreNamed'
  <2>1. ASSUME NEW s \in DOMAIN known'
        PROVE  /\ known'[s] = [id |-> known'[s].id, spans |-> known'[s].spans]
               /\ NamedNext(s, known'[s].id)
    <3>1. CASE s = e.session
      <4>1. PICK spans : known'[s] = [id |-> id, spans |-> spans]
        BY <3>1, <1>7
      <4> QED BY <3>1, <4>1, <1>3
    <3>2. CASE s # e.session
      BY <3>2, <1>7 DEF MemoryInv, KnownAreNamed, IsNamed, NamedNext, Grows
    <3> QED BY <3>1, <3>2
  <2> QED BY <1>7, <2>1 DEF KnownAreNamed, IsNamed, NamedNext
<1>9. MemoryMove(g)
  <2>1. IsFiniteSet(open') /\ \A r \in open' : IsEpisode(r)'
    BY StaysTrue DEF MemoryInv, Patches
  <2> QED BY <1>4, <1>5, <1>6, <1>8, <2>1 DEF MemoryMove
<1>10. i \in Held'
  BY <1>4, <1>6, HeldIsNext
<1>11. KnownMove
  BY <1>7, <1>10 DEF KnownMove
<1>12. Held \subseteq Held'
  <2>1. PICK eps : eps = open' \cup Range(work'[g])
    OBVIOUS
  <2>2. \A r \in open : \E s \in eps : SpanIDs(r) \subseteq SpanIDs(s)
    BY <2>1 DEF Patches
  <2> QED BY <1>9, <2>1, <2>2, HeldThrough
<1> QED BY <1>1, <1>9, <1>10, <1>11, <1>12 DEF AddedOrKnown

LEMMA AddEffect ==
    ASSUME MemoryInv, NEW g \in Goroutines, work[g] = <<>>, SameRequests, Grows,
           NEW e \in Admissible, HeadKept(e), Add(g, e)
    PROVE  MemoryMove(g) /\ KnownMove /\ Held \subseteq Held' /\ AddedOrKnown(e)
<1>1. CASE /\ e.session \in Opened
           /\ \E due \in SUBSET {IF r.session = e.session THEN Absorb(r, e) ELSE r : r \in open} :
                CloseDue(g, {IF r.session = e.session THEN Absorb(r, e) ELSE r : r \in open}, due)
  BY <1>1, AbsorbedEffect
<1>2. CASE \E id \in EpisodeIDs(e) :
             /\ \E due \in SUBSET (open \cup {Record(e, id, FALSE)}) :
                  CloseDue(g, open \cup {Record(e, id, FALSE)}, due)
             /\ named' = named \cup {[session |-> e.session, id |-> id]}
  <2>1. PICK id \in EpisodeIDs(e) :
             /\ \E due \in SUBSET (open \cup {Record(e, id, FALSE)}) :
                  CloseDue(g, open \cup {Record(e, id, FALSE)}, due)
             /\ named' = named \cup {[session |-> e.session, id |-> id]}
    BY <1>2
  <2>2. NamedNext(e.session, id)
    BY <2>1 DEF IsNamed, NamedNext
  <2> QED BY <2>1, <2>2, OpenedEffect
<1>3. CASE /\ e.session \in DOMAIN known
           /\ known' = [known EXCEPT ![e.session].spans = @ \cup {<<e.session, e.span>>}]
           /\ work' = [work EXCEPT ![g] = <<Record(e, known[e.session].id, TRUE)>>]
           /\ UNCHANGED open
  BY <1>3, PatchedEffect DEF Patches
<1>4. CASE /\ e.session \in DOMAIN known /\ <<e.session, e.span>> \in known[e.session].spans
           /\ UNCHANGED <<open, known, work>>
  <2>1. KnownAreNamed'
    BY <1>4, FewerAreNamed, SameAreFewer DEF MemoryInv
  <2>2. MemoryMove(g) /\ KnownMove
    BY <1>4, <2>1, StaysTrue DEF MemoryMove, KnownMove, MemoryInv
  <2>3. Held \subseteq Held'
    BY <1>4, HeldIs, HeldIsNext
  <2> QED BY <1>4, <2>2, <2>3 DEF AddedOrKnown
<1> QED BY <1>1, <1>2, <1>3, <1>4 DEF Add

LEMMA MemoryMoveKeeps ==
    ASSUME MemoryInv, NEW g \in Goroutines, MemoryMove(g), SameRequests, Grows
    PROVE  MemoryInv'
<1>1. \A r : IsEpisode(r) => IsEpisode(r)'
  BY StaysTrue
<1>2. ASSUME NEW h \in Goroutines
      PROVE  IsSeq(work'[h]) /\ \A r \in Range(work'[h]) : IsEpisode(r)'
  <2>1. CASE h = g
    BY <2>1 DEF MemoryMove
  <2>2. CASE h # g
    BY <2>2, <1>1 DEF MemoryMove, MemoryInv
  <2> QED BY <2>1, <2>2
<1>3. /\ IsFiniteSet(open') /\ (\A r \in open' : IsEpisode(r)') /\ KnownAreNamed'
      /\ work' = [h \in Goroutines |-> work'[h]]
  BY DEF MemoryMove
<1> QED BY <1>2, <1>3 DEF MemoryInv

(* Nothing moves in the assembler, but that it may forget. *)
LEMMA MemoryStays ==
    ASSUME MemoryInv, SameRequests, Grows, UNCHANGED <<open, work>>, KnownFewer
    PROVE  MemoryInv' /\ Held' = Held
<1>1. \A r : IsEpisode(r) => IsEpisode(r)'
  BY StaysTrue
<1>2. KnownAreNamed'
  BY FewerAreNamed DEF MemoryInv
<1>3. MemoryInv'
  BY <1>1, <1>2 DEF MemoryInv
<1>4. Held' = Held
  BY DEF Held
<1> QED BY <1>3, <1>4

(* The process is gone, and what it held with it. *)
LEMMA ForgetEffect ==
    ASSUME MemoryInv, GoneInv, Forget
    PROVE  /\ MemoryInv' /\ Held' = {}
           /\ \A g \in Goroutines : work'[g] = <<>> /\ stage'[g] = NoPolicy
           /\ gone' = [r \in Reasons |-> gone'[r]]
           /\ gone'["killed"] = gone["killed"] \cup (Held \ Stored)
           /\ gone'["sampled"] = gone["sampled"] /\ gone'["dropped"] = gone["dropped"]
           /\ known' = <<>>
<1>1. open' = {} /\ \A g \in Goroutines : work'[g] = <<>> /\ stage'[g] = NoPolicy
  BY DEF Forget
<1>2. work' = [g \in Goroutines |-> work'[g]]
  BY DEF Forget
<1>3. MemoryInv'
  <2>1. KnownAreNamed'
    <3>1. known' = <<>>
      BY DEF Forget
    <3>2. DOMAIN <<>> = {} /\ <<>> = [s \in DOMAIN <<>> |-> [id |-> <<>>[s].id, spans |-> <<>>[s].spans]]
      OBVIOUS
    <3> QED BY <3>1, <3>2 DEF KnownAreNamed
  <2> QED BY <1>1, <1>2, <2>1, NoneSeq, FS_EmptySet DEF MemoryInv
<1>4. Held' = {}
  BY <1>1, NoneSeq, HeldIsNext
<1>5. /\ gone' = [r \in Reasons |-> gone'[r]]
      /\ gone'["killed"] = gone["killed"] \cup (Held \ Stored)
      /\ gone'["sampled"] = gone["sampled"] /\ gone'["dropped"] = gone["dropped"]
  BY DEF Forget, LetGo, GoneInv, Reasons
<1>6. known' = <<>>
  BY DEF Forget
<1> QED BY <1>1, <1>3, <1>4, <1>5, <1>6

LEMMA HeldAreSpanIDs ==
    ASSUME MemoryInv
    PROVE  \A i \in Held : IsSpanID(i)
<1>1. \A r : IsEpisode(r) => \A i \in SpanIDs(r) : IsSpanID(i)
  BY DEF IsEpisode, SpanIDs, IsSpanID
<1> QED BY <1>1, HeldIs DEF MemoryInv

(* onEpisode is done with an episode. *)
LEMMA FinishEffect ==
    ASSUME MemoryInv, NEW g \in Goroutines, work[g] # <<>>, Finish(g), SameRequests, Grows
    PROVE  /\ MemoryMove(g) /\ IsEpisode(Episode(g)) /\ UNCHANGED open /\ KnownFewer
           /\ \A i \in Held : i \in Held' \/ i \in SpanIDs(Episode(g))
<1>1. /\ IsSeq(Tail(work[g])) /\ Range(work[g]) = {Episode(g)} \cup Range(Tail(work[g]))
      /\ Episode(g) \in Range(work[g])
  BY HeadAndTail DEF MemoryInv, Episode
<1>2. /\ work'[g] = Tail(work[g]) /\ work' = [h \in Goroutines |-> work'[h]]
      /\ \A h \in Goroutines \ {g} : work'[h] = work[h]
  BY DEF Finish, MemoryInv
<1>3. UNCHANGED <<open, known>>
  BY DEF Finish
<1>4. MemoryMove(g) /\ KnownFewer
  <2>1. KnownFewer /\ KnownAreNamed'
    BY <1>3, FewerAreNamed, SameAreFewer DEF MemoryInv
  <2>2. (\A r \in open' : IsEpisode(r)') /\ \A r \in Range(work'[g]) : IsEpisode(r)'
    BY <1>1, <1>2, <1>3, StaysTrue DEF MemoryInv
  <2> QED BY <1>1, <1>2, <1>3, <2>1, <2>2 DEF MemoryMove, MemoryInv
<1>5. IsEpisode(Episode(g))
  BY <1>1 DEF MemoryInv
<1>6. ASSUME NEW i \in Held PROVE i \in Held' \/ i \in SpanIDs(Episode(g))
  <2>1. CASE \E r \in open : i \in SpanIDs(r)
    BY <2>1, <1>3, HeldIsNext
  <2>2. CASE \E h \in Goroutines : \E r \in Range(work[h]) : i \in SpanIDs(r)
    <3>1. PICK h \in Goroutines : \E r \in Range(work[h]) : i \in SpanIDs(r)
      BY <2>2
    <3>2. CASE h = g
      BY <3>1, <3>2, <1>1, <1>2, HeldIsNext
    <3>3. CASE h # g
      BY <3>1, <3>3, <1>2, HeldIsNext
    <3> QED BY <3>2, <3>3
  <2> QED BY <2>1, <2>2, HeldIs
<1> QED BY <1>3, <1>4, <1>5, <1>6

-----------------------------------------------------------------------------
(* Records, and what was let go of. *)

InFiles == IDs(Range(quarantined))
InGone(i) == \E r \in Reasons : i \in gone[r]

LEMMA AccountedIs ==
    ASSUME GoneInv
    PROVE  \A i : i \in Accounted <=> i \in Held \/ i \in Stored \/ i \in InFiles \/ InGone(i)
<1>1. Range(gone) = {gone[r] : r \in Reasons}
  BY DEF GoneInv, Range
<1> QED BY <1>1 DEF Accounted, InFiles, InGone

LEMMA AccountedIsNext ==
    ASSUME GoneInv'
    PROVE  \A i : i \in Accounted' <=> i \in Held' \/ i \in Stored' \/ i \in InFiles' \/ InGone(i)'
<1>1. Range(gone)' = {gone'[r] : r \in Reasons}
  BY DEF GoneInv, Range
<1> QED BY <1>1 DEF Accounted, InFiles, InGone

(* A step that carries on what was accounted for. *)
CarriesOn ==
    /\ MemoryInv' /\ RecordsInv' /\ GoneInv' /\ KnownInv'
    /\ Accounted \subseteq Accounted' /\ Stored \subseteq Stored'

LEMMA RecordsKept ==
    ASSUME RecordsInv, SameRequests, Grows, UNCHANGED records
    PROVE  RecordsInv' /\ Stored' = Stored /\ InFiles' = InFiles
<1>1. UNCHANGED <<buffer, lake, quarantined>>
  BY DEF records
<1>2. /\ \A id : TailKept(id) => TailKept(id)'
      /\ \A r : IsEpisode(r) => IsEpisode(r)'
      /\ \A i : IsKept(i) => IsKept(i)'
  BY StaysTrue
<1>3. RecordsInv'
  BY <1>1, <1>2 DEF RecordsInv
<1>4. Stored' = Stored /\ InFiles' = InFiles
  BY <1>1 DEF Stored, InFiles
<1> QED BY <1>3, <1>4

LEMMA GoneKept ==
    ASSUME GoneInv, SameRequests, Grows, UNCHANGED gone
    PROVE  GoneInv' /\ \A i : InGone(i)' = InGone(i)
<1>1. /\ \A i : IsSpanID(i) => IsSpanID(i)'
      /\ \A i : IsSampledOut(i) => IsSampledOut(i)'
  BY StaysTrue
<1>2. GoneInv'
  BY <1>1 DEF GoneInv
<1> QED BY <1>2 DEF InGone

LEMMA LetGoEffect ==
    ASSUME GoneInv, SameRequests, Grows,
           NEW reason \in Reasons, NEW ids, LetGo(reason, ids),
           \A i \in ids : IsSpanID(i),
           reason = "sampled" => \A i \in ids : IsSampledOut(i)
    PROVE  /\ GoneInv' /\ (\A i : InGone(i) => InGone(i)') /\ \A i \in ids : InGone(i)'
<1>1. /\ gone' = [r \in Reasons |-> gone'[r]]
      /\ gone'[reason] = gone[reason] \cup ids
      /\ \A r \in Reasons \ {reason} : gone'[r] = gone[r]
  BY DEF LetGo, GoneInv
<1>2. /\ \A i : IsSpanID(i) => IsSpanID(i)'
      /\ \A i : IsSampledOut(i) => IsSampledOut(i)'
  BY StaysTrue
<1>3. ASSUME NEW r \in Reasons, NEW i \in gone'[r]
      PROVE  IsSpanID(i)' /\ (r = "sampled" => IsSampledOut(i)')
  <2>1. CASE i \in gone[r]
    BY <2>1, <1>2 DEF GoneInv
  <2>2. CASE r = reason /\ i \in ids
    BY <2>2, <1>2
  <2> QED BY <2>1, <2>2, <1>1, <1>3
<1>4. GoneInv'
  <2>1. "sampled" \in Reasons
    BY DEF Reasons
  <2> QED BY <1>1, <1>3, <2>1 DEF GoneInv
<1> QED BY <1>1, <1>4 DEF InGone

(* Steps that only move requests, and may forget sessions that were closed. *)
LEMMA OnlyRequestsMove ==
    ASSUME IngestInv, SameRequests, Grows,
           UNCHANGED <<open, work, records, gone>>, KnownFewer
    PROVE  CarriesOn
<1> USE DEF IngestInv
<1>1. RecordsInv' /\ Stored' = Stored /\ InFiles' = InFiles
  BY RecordsKept
<1>2. GoneInv' /\ \A i : InGone(i)' = InGone(i)
  BY GoneKept
<1>3. MemoryInv' /\ Held' = Held
  BY MemoryStays
<1>4. Accounted' = Accounted
  BY <1>1, <1>2, <1>3, AccountedIs, AccountedIsNext
<1>5. KnownInv'
  BY <1>4 DEF KnownInv, KnownFewer
<1> QED BY <1>1, <1>2, <1>3, <1>4, <1>5 DEF CarriesOn

(* Steps of the assembler. *)
LEMMA AssemblerMoves ==
    ASSUME IngestInv, SameRequests, Grows, UNCHANGED <<records, gone>>,
           NEW g \in Goroutines, MemoryMove(g), KnownMove, Held \subseteq Held'
    PROVE  CarriesOn
<1> USE DEF IngestInv
<1>1. RecordsInv' /\ Stored' = Stored /\ InFiles' = InFiles
  BY RecordsKept
<1>2. GoneInv' /\ \A i : InGone(i)' = InGone(i)
  BY GoneKept
<1>3. MemoryInv'
  BY MemoryMoveKeeps
<1>4. Accounted \subseteq Accounted' /\ Held' \subseteq Accounted'
  BY <1>1, <1>2, AccountedIs, AccountedIsNext
<1>5. KnownInv'
  BY <1>4 DEF KnownInv, KnownMove
<1> QED BY <1>1, <1>2, <1>3, <1>4, <1>5 DEF CarriesOn

(* Steps that put records elsewhere: what is held no longer is stored, in a file or gone. *)
LEMMA RecordsMove ==
    ASSUME IngestInv, MemoryInv', RecordsInv', GoneInv', KnownFewer,
           \A i \in Held \cup InFiles : i \in Held' \/ i \in Stored' \/ i \in InFiles' \/ InGone(i)',
           Stored \subseteq Stored', \A i : InGone(i) => InGone(i)'
    PROVE  CarriesOn
<1> USE DEF IngestInv
<1>1. Accounted \subseteq Accounted'
  BY AccountedIs, AccountedIsNext
<1>2. KnownInv'
  BY <1>1 DEF KnownInv, KnownFewer
<1> QED BY <1>1, <1>2 DEF CarriesOn

-----------------------------------------------------------------------------
(* The actions, one by one. *)

LEMMA OfferedIsAdmissible ==
    ASSUME ReqInv, NEW q \in Producers, Offering(q)
    PROVE  Current(q) \in Admissible
<1>1. Current(q) \in Range(req[q].stream) \ {Malformed}
  BY DEF Offering, Current, Range
<1>2. ~Hopeless(q)
  BY DEF Offering, ReqInv
<1> QED BY <1>1, <1>2 DEF Admissible

LEMMA HeadSampledCarriesOn ==
    ASSUME IngestInv, SameRequests, Grows, NEW q \in Producers, HeadSampled(q)
    PROVE  CarriesOn /\ <<Current(q).session, Current(q).span>> \in Accounted'
<1> DEFINE e == Current(q)
<1>0. PICK i : i = <<e.session, e.span>>
  OBVIOUS
<1>1. e \in Admissible /\ ~HeadKeep(pol, e) /\ pol \in inForce
  BY OfferedIsAdmissible DEF IngestInv, PolicyInv, HeadSampled
<1>2. IsSpanID(i)
  BY <1>0, <1>1 DEF IsSpanID
<1>3. i[1] = e.session
  BY <1>0
<1>4. IsSampledOut(i)
  BY <1>1, <1>3 DEF IsSampledOut
<1>5. LetGo("sampled", {i}) /\ "sampled" \in Reasons
  BY <1>0 DEF HeadSampled, Reasons
<1>6. GoneInv' /\ (\A j : InGone(j) => InGone(j)') /\ InGone(i)'
  BY <1>2, <1>4, <1>5, LetGoEffect DEF IngestInv
<1>7. UNCHANGED <<open, known, work, stage, records>>
  BY DEF HeadSampled, memory
<1>8. RecordsInv' /\ Stored' = Stored /\ InFiles' = InFiles
  BY <1>7, RecordsKept DEF IngestInv
<1>9. MemoryInv' /\ Held' = Held /\ KnownFewer
  <2>1. KnownFewer
    BY <1>7, SameAreFewer DEF IngestInv, MemoryInv
  <2> QED BY <1>7, <2>1, MemoryStays DEF IngestInv
<1>10. CarriesOn
  BY <1>6, <1>8, <1>9, RecordsMove
<1>11. i \in Accounted'
  BY <1>6, AccountedIsNext
<1> QED BY <1>0, <1>10, <1>11

LEMMA AcceptCarriesOn ==
    ASSUME IngestInv, SameRequests, Grows, NEW q \in Producers, Accept(q)
    PROVE  CarriesOn /\ <<Current(q).session, Current(q).span>> \in Accounted'
<1> DEFINE e == Current(q)
<1>1. e \in Admissible /\ HeadKeep(pol, e) /\ pol \in inForce
  BY OfferedIsAdmissible DEF IngestInv, PolicyInv, Accept
<1>2. HeadKept(e)
  BY <1>1 DEF HeadKept
<1>3. work[q] = <<>> /\ Add(q, e) /\ UNCHANGED <<records, gone>> /\ q \in Goroutines
  BY DEF Accept, Offering, Goroutines
<1>4. MemoryMove(q) /\ KnownMove /\ Held \subseteq Held' /\ AddedOrKnown(e)
  BY <1>1, <1>2, <1>3, AddEffect DEF IngestInv
<1>5. CarriesOn
  BY <1>3, <1>4, AssemblerMoves
<1>6. <<e.session, e.span>> \in Held' \/ <<e.session, e.span>> \in Accounted
  BY <1>4 DEF IngestInv, KnownInv, AddedOrKnown
<1>7. <<e.session, e.span>> \in Accounted'
  BY <1>5, <1>6, AccountedIsNext DEF CarriesOn
<1> QED BY <1>5, <1>7

LEMMA CloseCarriesOn ==
    ASSUME IngestInv, SameRequests, Grows, UNCHANGED <<records, gone>>,
           NEW g \in Goroutines, work[g] = <<>>, NEW due \in SUBSET open, CloseDue(g, open, due)
    PROVE  CarriesOn
<1>1. MemoryInv /\ IsFiniteSet(open) /\ \A r \in open : IsEpisode(r)'
  BY StaysTrue DEF IngestInv, MemoryInv
<1>2. MemoryMove(g) /\ KnownMove /\ open = open' \cup Range(work'[g])
  BY <1>1, CloseDueEffect
<1>3. \A r \in open : \E s \in open : SpanIDs(r) \subseteq SpanIDs(s)
  OBVIOUS
<1>4. Held \subseteq Held'
  <2>1. PICK eps : eps = open
    OBVIOUS
  <2>2. eps = open' \cup Range(work'[g]) /\ \A r \in open : \E s \in eps : SpanIDs(r) \subseteq SpanIDs(s)
    BY <1>2, <1>3, <2>1
  <2> QED BY <1>1, <1>2, <2>2, HeldThrough
<1> QED BY <1>2, <1>4, AssemblerMoves

LEMMA QuarantineCarriesOn ==
    ASSUME IngestInv, SameRequests, Grows, NEW g \in Goroutines, Quarantine(g)
    PROVE  CarriesOn
<1> DEFINE ep == Episode(g)
<1> USE DEF IngestInv
<1>1. /\ MemoryMove(g) /\ IsEpisode(ep) /\ UNCHANGED open /\ KnownFewer
      /\ \A i \in Held : i \in Held' \/ i \in SpanIDs(ep)
  BY FinishEffect DEF Quarantine
<1>2. MemoryInv'
  BY <1>1, MemoryMoveKeeps
<1>3. quarantined' = [s \in DOMAIN quarantined \cup {ep.id} |-> IF s = ep.id THEN ep ELSE quarantined[s]]
  BY DEF Quarantine
<1>4. UNCHANGED <<buffer, lake>>
  BY DEF Quarantine
<1>5. /\ \A id : TailKept(id) => TailKept(id)'
      /\ \A r : IsEpisode(r) => IsEpisode(r)'
      /\ \A i : IsKept(i) => IsKept(i)'
  BY StaysTrue
<1> HIDE DEF ep
<1>6. ASSUME NEW s \in DOMAIN quarantined', NEW r, r = quarantined'[s] PROVE IsEpisode(r)'
  <2>1. IsEpisode(r)
    BY <1>1, <1>3, <1>6 DEF RecordsInv
  <2> QED BY <2>1, <1>5
<1>7. RecordsInv'
  BY <1>3, <1>4, <1>5, <1>6 DEF RecordsInv
<1>8. Stored' = Stored
  BY <1>4 DEF Stored
<1>9. \A i \in SpanIDs(ep) : i \in InFiles'
  <2>1. ep \in Range(quarantined')
    BY <1>3 DEF Range
  <2> QED BY <2>1 DEF InFiles, IDs
<1>10. /\ GoneInv' /\ (\A i : InGone(i) => InGone(i)')
       /\ ep.id \in DOMAIN quarantined => \A i \in SpanIDs(quarantined[ep.id]) : InGone(i)'
  <2>1. CASE ep.id \in DOMAIN quarantined
    <3>1. PICK ids : ids = SpanIDs(quarantined[ep.id])
      OBVIOUS
    <3>2. LetGo("dropped", ids) /\ "dropped" \in Reasons
      BY <2>1, <3>1 DEF Quarantine, ep, Reasons
    <3>3. \A i \in ids : IsSpanID(i)
      <4>1. IsEpisode(quarantined[ep.id])
        BY <2>1 DEF RecordsInv
      <4> QED BY <3>1, <4>1 DEF IsEpisode, SpanIDs, IsSpanID
    <3>4. GoneInv' /\ (\A i : InGone(i) => InGone(i)') /\ \A i \in ids : InGone(i)'
      BY <3>2, <3>3, LetGoEffect
    <3> QED BY <3>1, <3>4
  <2>2. CASE ep.id \notin DOMAIN quarantined
    <3>1. UNCHANGED gone
      BY <2>2 DEF Quarantine, ep
    <3>2. GoneInv' /\ \A i : InGone(i)' = InGone(i)
      BY <3>1, GoneKept
    <3> QED BY <2>2, <3>2
  <2> QED BY <2>1, <2>2
<1>11. ASSUME NEW i \in InFiles PROVE i \in InFiles' \/ InGone(i)'
  <2>1. PICK s \in DOMAIN quarantined : i \in SpanIDs(quarantined[s])
    BY <1>11 DEF InFiles, IDs, Range
  <2>2. CASE s = ep.id
    BY <2>1, <2>2, <1>10
  <2>3. CASE s # ep.id
    <3>1. quarantined[s] \in Range(quarantined')
      BY <2>1, <2>3, <1>3 DEF Range
    <3> QED BY <2>1, <3>1 DEF InFiles, IDs
  <2> QED BY <2>2, <2>3
<1> QED BY <1>1, <1>2, <1>7, <1>8, <1>9, <1>10, <1>11, RecordsMove

LEMMA EpisodeSpanIDs ==
    ASSUME NEW r, IsEpisode(r)
    PROVE  \A i \in SpanIDs(r) : IsSpanID(i) /\ i[1] = r.session
BY DEF IsEpisode, SpanIDs, IsSpanID

(* Tail sampling, and what the buffer does with a record it keeps. *)
LEMMA KeepCarriesOn ==
    ASSUME IngestInv, SameRequests, Grows, NEW g \in Goroutines, Keep(g)
    PROVE  CarriesOn
<1> USE DEF IngestInv
<1>1. PICK ep : ep = Episode(g)
  OBVIOUS
<1>2. work[g] # <<>> /\ stage[g] \in inForce
  BY DEF Keep, PolicyInv
<1>3. /\ MemoryMove(g) /\ IsEpisode(ep) /\ UNCHANGED open /\ KnownFewer
      /\ \A i \in Held : i \in Held' \/ i \in SpanIDs(ep)
  BY <1>1, <1>2, FinishEffect DEF Keep
<1>4. MemoryInv'
  BY <1>3, MemoryMoveKeeps
<1>5. UNCHANGED <<lake, quarantined>>
  BY DEF Keep
<1>6. InFiles' = InFiles
  BY <1>5 DEF InFiles
<1>7. \A i \in SpanIDs(ep) : IsSpanID(i) /\ i[1] = ep.session
  BY <1>3, EpisodeSpanIDs
<1>8. CASE ~TailKeep(stage[g], ep) /\ LetGo("sampled", SpanIDs(ep)) /\ UNCHANGED buffer
  <2>1. \A i \in SpanIDs(ep) : IsSampledOut(i)
    <3>1. ~(ep.id.place < stage[g].otherwise)
      BY <1>8 DEF TailKeep
    <3>2. PICK n \in named : n.session = ep.session /\ n.id = ep.id
      BY <1>3 DEF IsEpisode, IsNamed
    <3> QED BY <3>1, <3>2, <1>2, <1>7 DEF IsSampledOut
  <2>2. "sampled" \in Reasons
    BY DEF Reasons
  <2>3. GoneInv' /\ (\A i : InGone(i) => InGone(i)') /\ \A i \in SpanIDs(ep) : InGone(i)'
    BY <1>7, <1>8, <2>1, <2>2, LetGoEffect
  <2>4. RecordsInv' /\ Stored' = Stored
    BY <1>5, <1>8, RecordsKept DEF records
  <2> QED BY <1>3, <1>4, <1>6, <2>3, <2>4, RecordsMove
<1>9. CASE TailKeep(stage[g], ep) /\ buffer' = buffer \cup {ep} /\ UNCHANGED gone
  <2>1. TailKept(ep.id)
    <3>1. stage[g].keepErrors \/ ep.id.place < stage[g].otherwise
      BY <1>9 DEF TailKeep
    <3> QED BY <3>1, <1>2 DEF TailKept
  <2>2. GoneInv' /\ \A i : InGone(i)' = InGone(i)
    BY <1>9, GoneKept
  <2>3. /\ \A id : TailKept(id) => TailKept(id)'
        /\ \A r : IsEpisode(r) => IsEpisode(r)'
        /\ \A i : IsKept(i) => IsKept(i)'
    BY StaysTrue
  <2>4. RecordsInv'
    BY <1>3, <1>5, <1>9, <2>1, <2>3 DEF RecordsInv
  <2>5. Stored \subseteq Stored' /\ SpanIDs(ep) \subseteq Stored'
    BY <1>5, <1>9 DEF Stored, IDs
  <2> QED BY <1>3, <1>4, <1>6, <2>2, <2>4, <2>5, RecordsMove
<1>10. CASE LetGo("dropped", SpanIDs(ep) \ Stored) /\ UNCHANGED buffer
  <2>1. PICK ids : ids = SpanIDs(ep) \ Stored
    OBVIOUS
  <2>2. LetGo("dropped", ids) /\ "dropped" \in Reasons /\ \A i \in ids : IsSpanID(i)
    BY <1>7, <1>10, <2>1 DEF Reasons
  <2>3. GoneInv' /\ (\A i : InGone(i) => InGone(i)') /\ \A i \in ids : InGone(i)'
    BY <2>2, LetGoEffect
  <2>4. RecordsInv' /\ Stored' = Stored
    BY <1>5, <1>10, RecordsKept DEF records
  <2>5. \A i \in SpanIDs(ep) : i \in Stored' \/ InGone(i)'
    BY <2>1, <2>3, <2>4
  <2> QED BY <1>3, <1>4, <1>6, <2>3, <2>4, <2>5, RecordsMove
<1> QED BY <1>1, <1>8, <1>9, <1>10 DEF Keep

LEMMA BufferedAreKept ==
    ASSUME RecordsInv
    PROVE  \A r \in buffer : \A i \in SpanIDs(r) : IsKept(i)
<1> SUFFICES ASSUME NEW r \in buffer, NEW i \in SpanIDs(r) PROVE IsKept(i)
  OBVIOUS
<1>1. CASE r.session \in Producers
  <2>1. i[1] = r.session
    BY DEF SpanIDs
  <2> QED BY <1>1, <2>1 DEF IsKept
<1>2. CASE IsEpisode(r) /\ TailKept(r.id)
  <2>1. PICK e \in r.spans : i = <<r.session, e.span>>
    BY DEF SpanIDs
  <2>2. e \in Admissible /\ e.session = r.session /\ HeadKept(e) /\ i[1] = r.session
    BY <1>2, <2>1 DEF IsEpisode
  <2>3. PICK n \in named : n.session = r.session /\ n.id = r.id
    BY <1>2 DEF IsEpisode, IsNamed
  <2>4. IsSpanID(i)
    BY <2>1, <2>2 DEF IsSpanID
  <2> QED BY <1>2, <2>2, <2>3, <2>4 DEF IsKept
<1> QED BY <1>1, <1>2 DEF RecordsInv

(* Records that are delivered. *)
LEMMA DeliveryMoves ==
    ASSUME RecordsInv, SameRequests, Grows, UNCHANGED quarantined,
           NEW done \in SUBSET buffer, buffer' = buffer \ done, lake' = lake \cup IDs(done)
    PROVE  RecordsInv' /\ Stored' = Stored /\ InFiles' = InFiles
<1>1. /\ \A id : TailKept(id) => TailKept(id)'
      /\ \A r : IsEpisode(r) => IsEpisode(r)'
      /\ \A i : IsKept(i) => IsKept(i)'
  BY StaysTrue
<1>2. \A i \in lake' : IsKept(i)
  BY BufferedAreKept DEF IDs, RecordsInv
<1>3. RecordsInv'
  BY <1>1, <1>2 DEF RecordsInv
<1>4. Stored' = Stored
  BY DEF Stored, IDs
<1>5. InFiles' = InFiles
  BY DEF InFiles
<1> QED BY <1>3, <1>4, <1>5

LEMMA DeliverCarriesOn ==
    ASSUME IngestInv, SameRequests, Grows, Deliver
    PROVE  CarriesOn
<1> USE DEF IngestInv
<1>1. UNCHANGED <<open, known, work, gone, quarantined>>
  BY DEF Deliver, memory
<1>2. PICK r \in buffer : buffer' = buffer \ {r} /\ lake' = lake \cup SpanIDs(r)
  BY DEF Deliver
<1>3. IDs({r}) = SpanIDs(r)
  BY DEF IDs
<1>4. RecordsInv' /\ Stored' = Stored /\ InFiles' = InFiles
  BY <1>1, <1>2, <1>3, DeliveryMoves
<1>5. GoneInv' /\ \A i : InGone(i)' = InGone(i)
  BY <1>1, GoneKept
<1>6. MemoryInv' /\ Held' = Held /\ KnownFewer
  BY <1>1, SameAreFewer, MemoryStays DEF MemoryInv
<1> QED BY <1>4, <1>5, <1>6, RecordsMove

(* Outcomes are recorded, or they are not. *)
LEMMA OutcomesCarryOn ==
    ASSUME IngestInv, SameRequests, Grows, NEW q \in Producers,
           UNCHANGED <<open, known, work, gone, lake, quarantined>>,
           NEW outcomes, NEW answer, IngestOutcomes(q, outcomes, answer)
    PROVE  CarriesOn /\ (answer = "accepted" => \A e \in Range(outcomes) : <<q, e.span>> \in Stored')
<1> USE DEF IngestInv
<1>1. PICK r : r = OutcomesOf(q, outcomes) /\ r.session = q /\ r.spans = Range(outcomes)
  <2>1. OutcomesOf(q, outcomes).session = q /\ OutcomesOf(q, outcomes).spans = Range(outcomes)
    BY DEF OutcomesOf
  <2> QED BY <2>1, Zenon
<1>2. buffer' = buffer \/ buffer' = buffer \cup {r}
  BY <1>1 DEF IngestOutcomes
<1>3. answer = "accepted" => r \in buffer'
  BY <1>1 DEF IngestOutcomes
<1>4. GoneInv' /\ \A i : InGone(i)' = InGone(i)
  BY GoneKept
<1>5. /\ \A id : TailKept(id) => TailKept(id)'
      /\ \A ep : IsEpisode(ep) => IsEpisode(ep)'
      /\ \A i : IsKept(i) => IsKept(i)'
  BY StaysTrue
<1>6. RecordsInv'
  BY <1>1, <1>2, <1>5 DEF RecordsInv
<1>7. Stored \subseteq Stored' /\ InFiles' = InFiles
  BY <1>2 DEF Stored, IDs, InFiles
<1>8. MemoryInv' /\ Held' = Held /\ KnownFewer
  BY SameAreFewer, MemoryStays DEF MemoryInv
<1>9. CarriesOn
  BY <1>4, <1>6, <1>7, <1>8, RecordsMove
<1>10. ASSUME answer = "accepted", NEW e \in Range(outcomes) PROVE <<q, e.span>> \in Stored'
  <2>1. <<q, e.span>> \in SpanIDs(r)
    BY <1>1 DEF SpanIDs
  <2> QED BY <1>3, <1>10, <2>1 DEF Stored, IDs
<1> QED BY <1>9, <1>10

(* A process ends or is killed; records may have been delivered before. *)
LEMMA ForgetCarriesOn ==
    ASSUME IngestInv, SameRequests, Grows, Forget,
           RecordsInv', Stored' = Stored, InFiles' = InFiles
    PROVE  CarriesOn
<1> USE DEF IngestInv
<1>1. MemoryInv' /\ KnownFewer
  BY ForgetEffect, SameAreFewer DEF MemoryInv
<1>2. PICK ids : ids = Held \ Stored
  OBVIOUS
<1>3. LetGo("killed", ids) /\ "killed" \in Reasons /\ \A i \in ids : IsSpanID(i)
  BY <1>2, HeldAreSpanIDs DEF Forget, Reasons
<1>4. GoneInv' /\ (\A i : InGone(i) => InGone(i)') /\ \A i \in ids : InGone(i)'
  BY <1>3, LetGoEffect
<1> QED BY <1>1, <1>2, <1>4, RecordsMove

LEMMA NextCarriesOn ==
    ASSUME IngestInv, Next, SameRequests, Grows
    PROVE  CarriesOn
<1>0. ASSUME UNCHANGED known \/ known' = <<>> PROVE KnownFewer
  BY <1>0, SameAreFewer DEF IngestInv, MemoryInv
<1>1. ASSUME NEW q \in Producers, Handle(q) PROVE CarriesOn
  <2>1. CASE HeadSampled(q)
    BY <2>1, HeadSampledCarriesOn
  <2>2. CASE Accept(q)
    BY <2>2, AcceptCarriesOn
  <2>3. CASE \/ HandleEpisodes(q) \/ HandleSpans(q) \/ HandleHook(q) \/ HandleTraces(q)
             \/ ConsumeTraces(q) \/ Refuse(q) \/ Reply(q)
    <3>1. UNCHANGED <<open, known, work, records, gone>>
      BY <2>3 DEF HandleEpisodes, HandleSpans, HandleHook, HandleTraces, ConsumeTraces, Receive,
                  Refuse, Reply, memory
    <3> QED BY <3>1, <1>0, OnlyRequestsMove
  <2> QED BY <1>1, <2>1, <2>2, <2>3 DEF Handle
<1>2. ASSUME NEW q \in Producers, HandleOutcomes(q) PROVE CarriesOn
  <2>1. UNCHANGED <<open, known, work, gone, lake, quarantined>>
    BY <1>2 DEF HandleOutcomes, memory
  <2>2. PICK answer : IngestOutcomes(q, req[q].stream, answer)
    BY <1>2 DEF HandleOutcomes
  <2> QED BY <2>1, <2>2, OutcomesCarryOn
<1>3. ASSUME NEW q \in Producers, CmdImport(q) \/ CmdOutcomes(q) PROVE CarriesOn
  <2>1. UNCHANGED <<open, work, records, gone>> /\ known' = <<>>
    BY <1>3 DEF CmdImport, CmdOutcomes, StartCommand
  <2> QED BY <2>1, <1>0, OnlyRequestsMove
<1>4. ASSUME NEW q \in Producers, RunCommand(q) PROVE CarriesOn
  <2>1. CASE ImportRefused(q)
    <3>1. Forget /\ UNCHANGED records
      BY <2>1 DEF ImportRefused
    <3>2. RecordsInv' /\ Stored' = Stored /\ InFiles' = InFiles
      BY <3>1, RecordsKept DEF IngestInv
    <3> QED BY <3>1, <3>2, ForgetCarriesOn
  <2>2. CASE ImportFlush(q)
    <3>1. /\ UNCHANGED <<records, gone>> /\ work[q] = <<>> /\ q \in Goroutines
          /\ CloseDue(q, open, open)
      BY <2>2 DEF ImportFlush, Goroutines
    <3> QED BY <3>1, CloseCarriesOn
  <2>3. CASE LoadOutcomes(q)
    <3>1. UNCHANGED <<open, known, work, gone, lake, quarantined>>
      BY <2>3 DEF LoadOutcomes, memory
    <3>2. PICK part, answer : IngestOutcomes(q, part, answer)
      BY <2>3, Zenon DEF LoadOutcomes
    <3> QED BY <3>1, <3>2, OutcomesCarryOn
  <2>4. CASE DrainOnce(q)
    <3>1. Forget /\ UNCHANGED quarantined
      BY <2>4 DEF DrainOnce
    <3>2. PICK done \in SUBSET buffer : buffer' = buffer \ done /\ lake' = lake \cup IDs(done)
      BY <2>4 DEF DrainOnce
    <3>3. RecordsInv' /\ Stored' = Stored /\ InFiles' = InFiles
      BY <3>1, <3>2, DeliveryMoves DEF IngestInv
    <3> QED BY <3>1, <3>3, ForgetCarriesOn
  <2> QED BY <1>4, <2>1, <2>2, <2>3, <2>4 DEF RunCommand
<1>5. ASSUME NEW g \in Goroutines, OnEpisode(g) PROVE CarriesOn
  <2>1. CASE Redact(g)
    <3>1. UNCHANGED <<open, known, work, records, gone>>
      BY <2>1 DEF Redact
    <3> QED BY <3>1, <1>0, OnlyRequestsMove
  <2> QED BY <1>5, <2>1, QuarantineCarriesOn, KeepCarriesOn DEF OnEpisode
<1>6. ASSUME Refill \/ Reload PROVE CarriesOn
  <2>1. UNCHANGED <<open, known, work, records, gone>>
    BY <1>6 DEF Refill, Reload, memory
  <2> QED BY <2>1, <1>0, OnlyRequestsMove
<1>7. ASSUME Expire PROVE CarriesOn
  <2>1. PICK due \in SUBSET open : CloseDue(Main, open, due)
    BY <1>7 DEF Expire
  <2>2. UNCHANGED <<records, gone>> /\ work[Main] = <<>> /\ Main \in Goroutines
    BY <1>7 DEF Expire, Goroutines
  <2> QED BY <2>1, <2>2, CloseCarriesOn
<1>8. ASSUME Kill PROVE CarriesOn
  <2>1. Forget /\ UNCHANGED records
    BY <1>8 DEF Kill
  <2>2. RecordsInv' /\ Stored' = Stored /\ InFiles' = InFiles
    BY <2>1, RecordsKept DEF IngestInv
  <2> QED BY <2>1, <2>2, ForgetCarriesOn
<1>9. ASSUME RememberEmitted PROVE CarriesOn
  <2>1. UNCHANGED <<open, work, records, gone>>
    BY <1>9 DEF RememberEmitted
  <2>2. PICK s \in DOMAIN known : known' = Restrict(known, DOMAIN known \ {s})
    BY <1>9 DEF RememberEmitted
  <2>3. known' = [r \in DOMAIN known \ {s} |-> known[r]]
    BY <2>2 DEF Restrict
  <2>4. KnownFewer
    BY <2>3 DEF KnownFewer
  <2> QED BY <2>1, <2>4, OnlyRequestsMove
<1> QED BY <1>1, <1>2, <1>3, <1>4, <1>5, <1>6, <1>7, <1>8, <1>9, DeliverCarriesOn DEF Next

(* A goroutine that has nothing to do has read no policy. *)
LEMMA PolicyStep ==
    ASSUME IngestInv, Next, Grows, pol' \in inForce'
    PROVE  PolicyInv'
<1> USE DEF IngestInv
<1>1. ASSUME UNCHANGED stage, \A g \in Goroutines : work[g] = <<>> \/ work'[g] = work[g]
      PROVE  PolicyInv'
  <2>1. \A g \in Goroutines : work'[g] = <<>> => work[g] = <<>>
    BY <1>1
  <2> QED BY <1>1, <2>1 DEF PolicyInv, Grows
<1>2. ASSUME \A g \in Goroutines : stage'[g] = NoPolicy, stage' = [g \in Goroutines |-> stage'[g]]
      PROVE  PolicyInv'
  BY <1>2 DEF PolicyInv
<1>3. ASSUME NEW q \in Producers, Handle(q) PROVE PolicyInv'
  <2>1. CASE Accept(q)
    <3>1. work[q] = <<>> /\ Add(q, Current(q)) /\ UNCHANGED stage
      BY <2>1 DEF Accept, Offering
    <3>2. \A g \in Goroutines : g = q \/ work'[g] = work[g]
      BY <3>1 DEF Add, CloseDue, MemoryInv
    <3> QED BY <3>1, <3>2, <1>1
  <2>2. CASE ~Accept(q)
    <3>1. UNCHANGED <<stage, work>>
      BY <1>3, <2>2 DEF Handle, HandleEpisodes, HandleSpans, HandleHook, HandleTraces, ConsumeTraces,
                        Receive, HeadSampled, Refuse, Reply, memory
    <3> QED BY <3>1, <1>1
  <2> QED BY <2>1, <2>2
<1>4. ASSUME NEW q \in Producers, HandleOutcomes(q) \/ CmdImport(q) \/ CmdOutcomes(q) PROVE PolicyInv'
  <2>1. UNCHANGED <<stage, work>>
    BY <1>4 DEF HandleOutcomes, CmdImport, CmdOutcomes, StartCommand, memory
  <2> QED BY <2>1, <1>1
<1>5. ASSUME NEW q \in Producers, RunCommand(q) PROVE PolicyInv'
  <2>1. CASE ImportFlush(q)
    <3>1. work[q] = <<>> /\ UNCHANGED stage
      BY <2>1 DEF ImportFlush
    <3>2. \A g \in Goroutines : g = q \/ work'[g] = work[g]
      BY <2>1 DEF ImportFlush, CloseDue, MemoryInv
    <3> QED BY <3>1, <3>2, <1>1
  <2>2. CASE LoadOutcomes(q)
    <3>1. UNCHANGED <<stage, work>>
      BY <2>2 DEF LoadOutcomes, memory
    <3> QED BY <3>1, <1>1
  <2>3. CASE ImportRefused(q) \/ DrainOnce(q)
    <3>1. Forget
      BY <2>3 DEF ImportRefused, DrainOnce
    <3> QED BY <3>1, <1>2 DEF Forget
  <2> QED BY <1>5, <2>1, <2>2, <2>3 DEF RunCommand
<1>6. ASSUME NEW g \in Goroutines, OnEpisode(g) PROVE PolicyInv'
  <2>1. CASE Redact(g)
    BY <2>1 DEF Redact, PolicyInv
  <2>2. CASE Quarantine(g) \/ Keep(g)
    <3>1. Finish(g)
      BY <2>2 DEF Quarantine, Keep
    <3> QED BY <3>1 DEF Finish, PolicyInv, MemoryInv, Grows
  <2> QED BY <1>6, <2>1, <2>2 DEF OnEpisode
<1>7. ASSUME Deliver \/ Refill \/ Reload \/ RememberEmitted PROVE PolicyInv'
  <2>1. UNCHANGED <<stage, work>>
    BY <1>7 DEF Deliver, Refill, Reload, RememberEmitted, memory
  <2> QED BY <2>1, <1>1
<1>8. ASSUME Expire PROVE PolicyInv'
  <2>1. work[Main] = <<>> /\ UNCHANGED stage
    BY <1>8 DEF Expire
  <2>2. \A g \in Goroutines : g = Main \/ work'[g] = work[g]
    BY <1>8 DEF Expire, CloseDue, MemoryInv
  <2> QED BY <2>1, <2>2, <1>1
<1>9. ASSUME Kill PROVE PolicyInv'
  BY <1>9, <1>2 DEF Kill, Forget
<1> QED BY <1>3, <1>4, <1>5, <1>6, <1>7, <1>8, <1>9 DEF Next

-----------------------------------------------------------------------------
(* How far the requests are. *)

LEMMA StaysAccountedFor ==
    ASSUME ProgressInv, SameRequests, CarriesOn,
           \A q \in Producers : \A k \in Passed(q)' : k \in Passed(q) \/ AccountedFor(q, k)'
    PROVE  ProgressInv'
<1> SUFFICES ASSUME NEW q \in Producers, NEW k \in Passed(q)' PROVE AccountedFor(q, k)'
  BY DEF ProgressInv
<1>1. CASE k \in Passed(q)
  <2>1. AccountedFor(q, k)
    BY <1>1 DEF ProgressInv
  <2>2. IsOutcomes(q)' = IsOutcomes(q) /\ req'[q].stream = req[q].stream
    BY SameHopeless DEF SameRequests
  <2>3. Accounted \subseteq Accounted' /\ Stored \subseteq Stored'
    BY DEF CarriesOn
  <2> QED BY <2>1, <2>2, <2>3 DEF AccountedFor
<1> QED BY <1>1

LEMMA PassedUnmoved ==
    ASSUME SameRequests, NEW p \in Producers, req'[p].st = req[p].st, req'[p].at = req[p].at
    PROVE  Passed(p)' = Passed(p)
BY DEF Passed, SameRequests

(* One request moves; what it passes is accounted for. *)
LEMMA OneMoves ==
    ASSUME ReqInv, ProgressInv, SameRequests, CarriesOn, NEW q \in Producers, NEW st, NEW at,
           Goto(q, st, at),
           \A k \in DOMAIN req[q].stream :
               st = "accepted" \/ (st = "running" /\ k < at) => k \in Passed(q) \/ AccountedFor(q, k)'
    PROVE  ProgressInv'
<1>1. AtNow(q, st, at)
  BY GotoEffect
<1>2. ASSUME NEW p \in Producers, NEW k \in Passed(p)' PROVE k \in Passed(p) \/ AccountedFor(p, k)'
  <2>1. CASE p = q
    <3>1. k \in DOMAIN req[q].stream /\ (st = "accepted" \/ (st = "running" /\ k < at))
      BY <1>1, <1>2, <2>1 DEF Passed, SameRequests, AtNow
    <3> QED BY <3>1, <2>1
  <2>2. CASE p # q
    BY <1>1, <1>2, <2>2, PassedUnmoved DEF AtNow
  <2> QED BY <2>1, <2>2
<1> QED BY <1>2, StaysAccountedFor

LEMMA PositionsAreNaturals ==
    ASSUME ReqInv, NEW q \in Producers
    PROVE  /\ Len(req[q].stream) \in Nat /\ DOMAIN req[q].stream = 1 .. Len(req[q].stream)
           /\ req[q].at \in Nat
BY DEF ReqInv, IsSeq

LEMMA StartedHasPassedNothing ==
    ASSUME ReqInv, ProgressInv, SameRequests, CarriesOn, NEW q \in Producers,
           Goto(q, "running", 1) \/ Goto(q, "refused", 0) \/ Goto(q, "rejected", 0) \/ Goto(q, "failed", 0)
    PROVE  ProgressInv'
<1>1. \A k \in DOMAIN req[q].stream : ~(k < 1)
  BY PositionsAreNaturals
<1>2. CASE Goto(q, "running", 1)
  BY <1>1, <1>2, OneMoves
<1>3. CASE Goto(q, "refused", 0)
  BY <1>3, OneMoves
<1>4. CASE Goto(q, "rejected", 0)
  BY <1>4, OneMoves
<1>5. CASE Goto(q, "failed", 0)
  BY <1>5, OneMoves
<1> QED BY <1>2, <1>3, <1>4, <1>5

(* The handler goes on to the next record. *)
LEMMA AdvancePasses ==
    ASSUME ReqInv, ProgressInv, SameRequests, CarriesOn, NEW q \in Producers, Offering(q), Advance(q),
           <<Current(q).session, Current(q).span>> \in Accounted'
    PROVE  ProgressInv'
<1>1. req[q].st = "running" /\ req[q].endpoint # "outcomes" /\ q \notin OutcomeFiles
  BY DEF Offering, ReqInv
<1>2. ~IsOutcomes(q)'
  BY <1>1, SameHopeless DEF IsOutcomes
<1>3. ASSUME NEW k, k = req[q].at PROVE AccountedFor(q, k)'
  <2>1. req'[q].stream[k] = Current(q)
    BY <1>3 DEF Current, SameRequests
  <2> QED BY <1>2, <2>1 DEF AccountedFor
<1>4. ASSUME NEW k \in DOMAIN req[q].stream, k < req[q].at + 1
      PROVE  k \in Passed(q) \/ AccountedFor(q, k)'
  <2>1. k < req[q].at \/ k = req[q].at
    BY <1>4, PositionsAreNaturals
  <2>2. CASE k < req[q].at
    BY <1>1, <2>2 DEF Passed
  <2> QED BY <1>3, <2>1, <2>2
<1> QED BY <1>4, OneMoves DEF Advance

(* One batch of outcomes after the other. *)
LEMMA LeastOfTwo ==
    ASSUME NEW a \in Int, NEW b \in Int
    PROVE  Min({a, b}) \in {a, b} /\ Min({a, b}) <= a /\ Min({a, b}) <= b
<1>1. \E x \in {a, b} : \A y \in {a, b} : x =< y
  <2>1. CASE a <= b
    BY <2>1
  <2>2. CASE b <= a
    BY <2>2
  <2> QED BY <2>1, <2>2
<1>2. Min({a, b}) \in {a, b} /\ \A y \in {a, b} : Min({a, b}) =< y
  BY <1>1 DEF Min
<1> QED BY <1>2

LEMMA LoadPasses ==
    ASSUME IngestInv, SameRequests, CarriesOn, Grows,
           NEW q \in Producers, LoadOutcomes(q)
    PROVE  ProgressInv'
<1> USE DEF IngestInv
<1>1. PICK at, stream, len : at = req[q].at /\ stream = req[q].stream /\ len = Len(stream)
  BY Zenon
<1>2. /\ at \in Nat /\ len \in Nat /\ DOMAIN stream = 1 .. len /\ at <= len /\ at > 0
      /\ stream \in Seq(Range(stream))
  BY <1>1, PositionsAreNaturals DEF LoadOutcomes, ReqInv, IsSeq
<1>3. PICK last : last = Min({at + Chunk - 1, len})
  OBVIOUS
<1>4. Chunk \in Nat /\ last \in {at + Chunk - 1, len} /\ last <= at + Chunk - 1 /\ last <= len
  <2>1. PICK x : x = at + Chunk - 1
    OBVIOUS
  <2>2. Chunk \in Nat /\ x \in Int /\ len \in Int
    BY <1>2, <2>1, IngestAssumption
  <2>3. Min({x, len}) \in {x, len} /\ Min({x, len}) <= x /\ Min({x, len}) <= len
    BY <2>2, LeastOfTwo
  <2> QED BY <1>3, <2>1, <2>2, <2>3
<1>5. PICK part : part = SubSeq(stream, at, last)
  OBVIOUS
<1>6. PICK answer \in {"refused", "rejected", "accepted"} :
        /\ IngestOutcomes(q, part, answer)
        /\ IF answer = "accepted" THEN Goto(q, "running", at + Chunk) ELSE Goto(q, "failed", 0)
  BY <1>1, <1>3, <1>5 DEF LoadOutcomes
<1>7. UNCHANGED <<open, known, work, gone, lake, quarantined>>
  BY DEF LoadOutcomes, memory
<1>8. CASE answer # "accepted"
  BY <1>6, <1>8, StartedHasPassedNothing
<1>9. CASE answer = "accepted"
  <2>1. \A e \in Range(part) : <<q, e.span>> \in Stored'
    BY <1>6, <1>7, <1>9, OutcomesCarryOn
  <2>2. IsOutcomes(q)'
    BY SameHopeless DEF LoadOutcomes, IsOutcomes
  <2>3. ASSUME NEW k \in DOMAIN stream, k < at + Chunk PROVE k \in Passed(q) \/ AccountedFor(q, k)'
    <3>1. CASE k < at
      BY <1>1, <3>1 DEF Passed, LoadOutcomes
    <3>2. CASE ~(k < at)
      <4>1. k >= at /\ k <= last /\ k \in Nat
        BY <1>2, <1>4, <2>3, <3>2
      <4>2. k - at + 1 \in DOMAIN part /\ part[k - at + 1] = stream[k]
        BY <1>2, <1>4, <1>5, <4>1
      <4>3. stream[k] \in Range(part)
        BY <4>2 DEF Range
      <4>4. req'[q].stream = stream
        BY <1>1 DEF SameRequests
      <4> QED BY <2>1, <2>2, <4>3, <4>4 DEF AccountedFor
    <3> QED BY <3>1, <3>2
  <2>4. Goto(q, "running", at + Chunk)
    BY <1>6, <1>9
  <2> QED BY <1>1, <2>3, <2>4, OneMoves
<1> QED BY <1>8, <1>9

LEMMA ProgressStep ==
    ASSUME IngestInv, Next, SameRequests, CarriesOn, Grows
    PROVE  ProgressInv'
<1> USE DEF IngestInv
<1>1. ASSUME NEW q \in Producers, Handle(q) PROVE ProgressInv'
  <2>1. CASE HeadSampled(q)
    BY <2>1, HeadSampledCarriesOn, AdvancePasses DEF HeadSampled
  <2>2. CASE Accept(q)
    BY <2>2, AcceptCarriesOn, AdvancePasses DEF Accept
  <2>3. CASE Reply(q)
    <3>1. CASE Goto(q, "rejected", 0)
      BY <3>1, StartedHasPassedNothing
    <3>2. CASE req[q].at \notin DOMAIN req[q].stream /\ Goto(q, "accepted", 0)
      <4>1. req[q].st = "running" /\ req[q].at > 0
        BY <2>3 DEF Reply, ReqInv
      <4>2. \A k \in DOMAIN req[q].stream : k < req[q].at
        BY <3>2, <4>1, PositionsAreNaturals
      <4>3. \A k \in DOMAIN req[q].stream : k \in Passed(q)
        BY <4>1, <4>2 DEF Passed
      <4> QED BY <3>2, <4>3, OneMoves
    <3> QED BY <2>3, <3>1, <3>2 DEF Reply
  <2>4. CASE \/ HandleEpisodes(q) \/ HandleSpans(q) \/ HandleHook(q) \/ HandleTraces(q)
             \/ ConsumeTraces(q) \/ Refuse(q)
    <3>1. Goto(q, "running", 1) \/ Goto(q, "refused", 0) \/ Goto(q, "rejected", 0)
      BY <2>4 DEF HandleEpisodes, HandleSpans, HandleHook, HandleTraces, ConsumeTraces, ConvertAll, Refuse
    <3> QED BY <3>1, StartedHasPassedNothing
  <2> QED BY <1>1, <2>1, <2>2, <2>3, <2>4 DEF Handle
<1>2. ASSUME NEW q \in Producers, HandleOutcomes(q) PROVE ProgressInv'
  <2>1. UNCHANGED <<open, known, work, gone, lake, quarantined>>
    BY <1>2 DEF HandleOutcomes, memory
  <2>2. PICK answer \in {"refused", "rejected", "accepted"} :
          IngestOutcomes(q, req[q].stream, answer) /\ Goto(q, answer, 0)
    BY <1>2 DEF HandleOutcomes
  <2>3. CASE answer # "accepted"
    BY <2>2, <2>3, StartedHasPassedNothing
  <2>4. CASE answer = "accepted"
    <3>1. \A e \in Range(req[q].stream) : <<q, e.span>> \in Stored'
      BY <2>1, <2>2, <2>4, OutcomesCarryOn
    <3>2. IsOutcomes(q)'
      BY <1>2, SameHopeless DEF HandleOutcomes, IsOutcomes
    <3>3. ASSUME NEW k \in DOMAIN req[q].stream PROVE AccountedFor(q, k)'
      <4>1. req[q].stream[k] \in Range(req[q].stream) /\ req'[q].stream = req[q].stream
        BY DEF Range, SameRequests
      <4> QED BY <3>1, <3>2, <4>1 DEF AccountedFor
    <3> QED BY <2>2, <2>4, <3>3, OneMoves
  <2> QED BY <2>3, <2>4
<1>3. ASSUME NEW q \in Producers, CmdImport(q) \/ CmdOutcomes(q) PROVE ProgressInv'
  <2>1. Goto(q, "running", 1) \/ Goto(q, "failed", 0)
    BY <1>3 DEF CmdImport, CmdOutcomes
  <2> QED BY <2>1, StartedHasPassedNothing
<1>4. ASSUME NEW q \in Producers, RunCommand(q) PROVE ProgressInv'
  <2>1. CASE ImportRefused(q)
    BY <2>1, StartedHasPassedNothing DEF ImportRefused
  <2>2. CASE ImportFlush(q)
    <3>1. req[q].st = "running" /\ req[q].at = Len(req[q].stream) + 1 /\ Goto(q, "running", req[q].at + 1)
      BY <2>2 DEF ImportFlush, Advance
    <3>2. \A k \in DOMAIN req[q].stream : k < req[q].at
      BY <3>1, PositionsAreNaturals
    <3>3. \A k \in DOMAIN req[q].stream : k \in Passed(q)
      BY <3>1, <3>2 DEF Passed
    <3> QED BY <3>1, <3>3, OneMoves
  <2>3. CASE LoadOutcomes(q)
    BY <2>3, LoadPasses
  <2>4. CASE DrainOnce(q)
    <3>1. req[q].st = "running" /\ req[q].at > Len(req[q].stream) + (IF q \in Imports THEN 1 ELSE 0)
      BY <2>4 DEF DrainOnce
    <3>2. req[q].at > Len(req[q].stream)
      <4>1. Len(req[q].stream) \in Nat /\ req[q].at \in Nat
        BY PositionsAreNaturals
      <4>2. CASE q \in Imports
        BY <3>1, <4>1, <4>2
      <4>3. CASE q \notin Imports
        BY <3>1, <4>1, <4>3
      <4> QED BY <4>2, <4>3
    <3>3. \A k \in DOMAIN req[q].stream : k \in Passed(q)
      <4>1. \A k \in DOMAIN req[q].stream : k < req[q].at
        BY <3>2, PositionsAreNaturals
      <4> QED BY <3>1, <4>1 DEF Passed
    <3>4. CASE Goto(q, "accepted", 0)
      BY <3>3, <3>4, OneMoves
    <3>5. CASE Goto(q, "failed", 0)
      BY <3>5, StartedHasPassedNothing
    <3> QED BY <2>4, <3>4, <3>5 DEF DrainOnce
  <2> QED BY <1>4, <2>1, <2>2, <2>3, <2>4 DEF RunCommand
<1>5. ASSUME UNCHANGED req PROVE ProgressInv'
  <2>1. \A q \in Producers : Passed(q)' = Passed(q)
    BY <1>5 DEF Passed
  <2> QED BY <2>1, StaysAccountedFor
<1>6. ASSUME Kill PROVE ProgressInv'
  <2>1. ASSUME NEW q \in Producers, NEW k \in Passed(q)' PROVE k \in Passed(q)
    <3>1. CASE req[q].st # "running"
      <4>1. req'[q] = req[q]
        BY <1>6, <3>1 DEF Kill
      <4> QED BY <2>1, <4>1 DEF Passed
    <3>2. CASE req[q].st = "running"
      <4>1. PICK st \in {"failed", "refused"} : req'[q] = Moved(req[q], st, 0)
        BY <1>6, <3>2 DEF Kill
      <4>2. IsRequest(req[q])
        BY DEF ReqInv, IsRequest
      <4>3. req'[q].st = st
        BY <4>1, <4>2, MovedRequest
      <4> QED BY <2>1, <4>1, <4>3 DEF Passed
    <3> QED BY <3>1, <3>2
  <2> QED BY <2>1, StaysAccountedFor
<1>7. ASSUME NEW g \in Goroutines, OnEpisode(g) PROVE UNCHANGED req
  BY <1>7 DEF OnEpisode, Redact, Quarantine, Keep
<1>8. ASSUME Deliver \/ Refill \/ Reload \/ Expire \/ RememberEmitted PROVE UNCHANGED req
  BY <1>8 DEF Deliver, Refill, Reload, Expire, RememberEmitted
<1> QED BY <1>1, <1>2, <1>3, <1>4, <1>5, <1>6, <1>7, <1>8 DEF Next

-----------------------------------------------------------------------------
LEMMA IngestInit == Init => IngestInv
<1> SUFFICES ASSUME Init PROVE IngestInv
  OBVIOUS
<1>1. PICK mix \in Mixes : req = [q \in Producers |-> Request(mix[q])]
  BY DEF Init
<1>2. ASSUME NEW q \in Producers
      PROVE  /\ req[q] = [endpoint |-> req[q].endpoint, src |-> req[q].src, st |-> req[q].st,
                          at |-> req[q].at, stream |-> req[q].stream]
             /\ req[q].st = "new" /\ req[q].at = 0 /\ req[q].stream = Request(mix[q]).stream
  <2>1. PICK a, b, c : Request(mix[q]) = [endpoint |-> a, src |-> b, st |-> "new", at |-> 0, stream |-> c]
    BY DEF Request
  <2>2. req[q] = Request(mix[q])
    BY <1>1
  <2> QED BY <2>1, <2>2
<1>3. ASSUME NEW q \in Producers
      PROVE  /\ IsSeq(req[q].stream)
             /\ \A e \in Range(req[q].stream) \ {Malformed} : e.session \notin Producers
  <2>1. PICK stream : stream = Request(mix[q]).stream
    OBVIOUS
  <2>2. /\ stream \in Seq(Range(stream))
        /\ \A e \in Range(stream) \ {Malformed} : e.session \notin Producers
    BY <2>1, BodiesAssumption
  <2> QED BY <1>2, <2>1, <2>2 DEF IsSeq
<1>4. ReqInv
  <2>1. req = [q \in Producers |->
                 [endpoint |-> req[q].endpoint, src |-> req[q].src, st |-> req[q].st,
                  at |-> req[q].at, stream |-> req[q].stream]]
    BY <1>1, <1>2
  <2> QED BY <1>2, <1>3, <2>1 DEF ReqInv
<1>5. /\ open = {} /\ (\A g \in Goroutines : work[g] = <<>> /\ stage[g] = NoPolicy)
      /\ work = [g \in Goroutines |-> work[g]] /\ stage = [g \in Goroutines |-> stage[g]]
      /\ buffer = {} /\ lake = {} /\ known = <<>> /\ DOMAIN known = {}
      /\ gone = [r \in Reasons |-> gone[r]] /\ (\A r \in Reasons : gone[r] = {})
  BY DEF Init
<1>6. DOMAIN quarantined = {} /\ quarantined = [s \in DOMAIN quarantined |-> quarantined[s]]
  <2>1. quarantined = <<>>
    BY DEF Init
  <2> QED BY <2>1
<1>7. PolicyInv
  <2>1. pol \in inForce
    BY DEF Init
  <2> QED BY <2>1, <1>5 DEF PolicyInv
<1>8. MemoryInv
  <2>1. KnownAreNamed
    <3>1. <<>> = [s \in DOMAIN <<>> |-> [id |-> <<>>[s].id, spans |-> <<>>[s].spans]]
      OBVIOUS
    <3> QED BY <1>5, <3>1 DEF KnownAreNamed
  <2> QED BY <1>5, <2>1, NoneSeq, FS_EmptySet DEF MemoryInv
<1>9. RecordsInv
  BY <1>5, <1>6 DEF RecordsInv
<1>10. GoneInv
  BY <1>5 DEF GoneInv, Reasons
<1>11. KnownInv
  BY <1>5 DEF KnownInv
<1>12. ProgressInv
  BY <1>2 DEF ProgressInv, Passed
<1> QED BY <1>4, <1>7, <1>8, <1>9, <1>10, <1>11, <1>12 DEF IngestInv

LEMMA IngestNext == IngestInv /\ [Next]_vars => IngestInv'
<1> SUFFICES ASSUME IngestInv, [Next]_vars PROVE IngestInv'
  OBVIOUS
<1>1. CASE Next
  <2>1. ReqInv' /\ SameRequests
    BY <1>1, ReqStep DEF IngestInv
  <2>2. Grows /\ pol' \in inForce'
    BY <1>1, HistoryGrows DEF IngestInv, PolicyInv
  <2>3. CarriesOn
    BY <1>1, <2>1, <2>2, NextCarriesOn
  <2>4. PolicyInv' /\ ProgressInv'
    BY <1>1, <2>1, <2>2, <2>3, PolicyStep, ProgressStep
  <2> QED BY <2>1, <2>3, <2>4 DEF IngestInv, CarriesOn
<1>2. CASE UNCHANGED vars
  <2>1. UNCHANGED <<pol, req, open, known, work, stage, named, records, gone, inForce>>
    BY <1>2 DEF vars, memory
  <2>2. ReqInv' /\ SameRequests
    BY <2>1, ReqUnchanged DEF IngestInv
  <2>3. CarriesOn
    <3>1. KnownFewer /\ Grows
      BY <2>1, SameAreFewer DEF IngestInv, MemoryInv, Grows
    <3> QED BY <2>1, <2>2, <3>1, OnlyRequestsMove
  <2>4. \A q \in Producers : Passed(q)' = Passed(q)
    BY <2>1 DEF Passed
  <2>5. ProgressInv'
    BY <2>2, <2>3, <2>4, StaysAccountedFor DEF IngestInv
  <2>6. PolicyInv'
    BY <2>1 DEF PolicyInv, IngestInv
  <2> QED BY <2>2, <2>3, <2>5, <2>6 DEF IngestInv, CarriesOn
<1> QED BY <1>1, <1>2

LEMMA AllAccounted == IngestInv => AcceptedAccounted
<1> SUFFICES ASSUME IngestInv, NEW q \in Producers, req[q].st = "accepted"
             PROVE  IF req[q].endpoint = "outcomes" \/ q \in OutcomeFiles
                    THEN SpanIDs(OutcomesOf(q, req[q].stream)) \subseteq Stored
                    ELSE \A e \in Range(req[q].stream) : <<e.session, e.span>> \in Accounted
  BY DEF AcceptedAccounted
<1>1. \A k \in DOMAIN req[q].stream : AccountedFor(q, k)
  BY DEF IngestInv, ProgressInv, Passed
<1>2. CASE IsOutcomes(q)
  <2>1. OutcomesOf(q, req[q].stream).session = q /\ OutcomesOf(q, req[q].stream).spans = Range(req[q].stream)
    BY DEF OutcomesOf
  <2>2. \A e \in Range(req[q].stream) : <<q, e.span>> \in Stored
    BY <1>1, <1>2 DEF AccountedFor, Range
  <2> QED BY <1>2, <2>1, <2>2 DEF IsOutcomes, SpanIDs
<1>3. CASE ~IsOutcomes(q)
  <2>1. \A e \in Range(req[q].stream) : <<e.session, e.span>> \in Accounted
    BY <1>1, <1>3 DEF AccountedFor, Range
  <2> QED BY <1>3, <2>1 DEF IsOutcomes
<1> QED BY <1>2, <1>3

(* Whatever is accounted for is an outcome, or a span of a request that may run. *)
LEMMA AccountedIsAdmissible ==
    ASSUME IngestInv, NEW i \in Accounted
    PROVE  i[1] \in Producers \/ IsSpanID(i)
<1>1. i \in Held \/ i \in Stored \/ i \in InFiles \/ InGone(i)
  BY AccountedIs DEF IngestInv
<1>2. CASE i \in Held
  BY <1>2, HeldAreSpanIDs DEF IngestInv
<1>3. CASE i \in Stored
  <2>1. IsKept(i)
    BY <1>3, BufferedAreKept DEF Stored, IDs, IngestInv, RecordsInv
  <2> QED BY <2>1 DEF IsKept
<1>4. CASE i \in InFiles
  <2>1. PICK s \in DOMAIN quarantined : i \in SpanIDs(quarantined[s])
    BY <1>4 DEF InFiles, IDs, Range
  <2>2. IsEpisode(quarantined[s])
    BY DEF IngestInv, RecordsInv
  <2> QED BY <2>1, <2>2, EpisodeSpanIDs
<1>5. CASE InGone(i)
  BY <1>5 DEF InGone, IngestInv, GoneInv
<1> QED BY <1>1, <1>2, <1>3, <1>4, <1>5

LEMMA NothingLeft == IngestInv => RejectedLeavesNothing
<1> SUFFICES ASSUME IngestInv, NEW q \in Producers,
                    req[q].st = "rejected", req[q].endpoint \in WholeBodyFirst,
                    NEW e \in Range(req[q].stream) \ {Malformed},
                    <<e.session, e.span>> \in Accounted
             PROVE  \E other \in Producers \ {q} : \E f \in Range(req[other].stream) \ {Malformed} :
                        f.session = e.session /\ f.span = e.span
  BY DEF RejectedLeavesNothing
<1>1. Hopeless(q) /\ e.session \notin Producers
  BY DEF IngestInv, ReqInv
<1>2. IsSpanID(<<e.session, e.span>>)
  <2>1. PICK i : i = <<e.session, e.span>>
    OBVIOUS
  <2>2. i[1] = e.session
    BY <2>1
  <2> QED BY <1>1, <2>1, <2>2, AccountedIsAdmissible
<1>3. PICK f \in Admissible : f.session = e.session /\ f.span = e.span
  BY <1>2 DEF IsSpanID
<1>4. PICK other \in {p \in Producers : ~Hopeless(p)} : f \in Range(req[other].stream) \ {Malformed}
  BY DEF Admissible
<1> QED BY <1>1, <1>3, <1>4

LEMMA NeverSplit == IngestInv => SamplingNeverSplits
<1> SUFFICES ASSUME IngestInv, NEW i \in gone["sampled"], NEW j \in Stored, j[1] = i[1]
             PROVE  MaySplit(i[1])
  BY DEF SamplingNeverSplits
<1>1. PICK session : session = i[1]
  OBVIOUS
<1>2. IsSampledOut(i) /\ IsSpanID(i)
  BY DEF IngestInv, GoneInv, Reasons
<1>3. session \notin Producers
  BY <1>1, <1>2 DEF IsSpanID, Admissible, IngestInv, ReqInv
<1>4. IsKept(j)
  BY BufferedAreKept DEF Stored, IDs, IngestInv, RecordsInv
<1>5. /\ \E n \in named : n.session = session /\ TailKept(n.id)
      /\ \E e \in Admissible : e.session = session /\ HeadKept(e)
  BY <1>1, <1>3, <1>4 DEF IsKept
<1>6. \A e \in Admissible : e.session = session => e.src \in SourcesOf(session)
  BY DEF Admissible, Envelopes, SourcesOf
<1>7. CASE \E p \in inForce, e \in Admissible : e.session = session /\ ~HeadKeep(p, e)
  <2>1. PICK p1 \in inForce, e1 \in Admissible : e1.session = session /\ ~HeadKeep(p1, e1)
    BY <1>7
  <2>2. PICK e2 \in Admissible : e2.session = session /\ HeadKept(e2)
    BY <1>5
  <2>3. PICK p2 \in inForce : HeadKeep(p2, e2)
    BY <2>2 DEF HeadKept
  <2>4. HeadRate(p1, e1.src) # HeadRate(p2, e2.src)
    BY <2>1, <2>2, <2>3 DEF HeadKeep
  <2>5. e1.src \in SourcesOf(session) /\ e2.src \in SourcesOf(session)
    BY <1>6, <2>1, <2>2
  <2> QED BY <1>1, <2>4, <2>5 DEF MaySplit
<1>8. CASE \E p \in inForce, n \in named : n.session = session /\ ~(n.id.place < p.otherwise)
  <2>1. PICK p1 \in inForce, n1 \in named : n1.session = session /\ ~(n1.id.place < p1.otherwise)
    BY <1>8
  <2>2. PICK n2 \in named : n2.session = session /\ TailKept(n2.id)
    BY <1>5
  <2>3. PICK p2 \in inForce : p2.keepErrors \/ n2.id.place < p2.otherwise
    BY <2>2 DEF TailKept
  <2>4. \/ p2.keepErrors \/ p1.otherwise # p2.otherwise
        \/ ~DrawsAlike(session, p1.otherwise)
    BY <2>1, <2>2, <2>3 DEF DrawsAlike
  <2> QED BY <1>1, <2>4 DEF MaySplit
<1> QED BY <1>1, <1>2, <1>7, <1>8 DEF IsSampledOut

(* The inductive invariant: what is where, who kept it, and how far each request is. *)
THEOREM IngestInvHolds == Spec => []IngestInv
BY IngestInit, IngestNext, PTL DEF Spec

(* What an accepted request or import brought is accounted for in every later state, through
   refusals, reloads, quarantines, kills and commands run again (service.go, onEnvelope and
   onEpisode; outcomes.go). *)
THEOREM AcceptedStaysAccounted == Spec => []AcceptedAccounted
BY IngestInvHolds, AllAccounted, PTL

(* A body that is converted as a whole before its first record is passed on leaves nothing
   behind when it is rejected (native.go, handleSpans; webhook.go). *)
THEOREM RejectionIsWhole == Spec => []RejectedLeavesNothing
BY IngestInvHolds, NothingLeft, PTL

(* Head and tail sampling decide for a session as a whole, whatever the rates and however its
   episodes are named, unless the rates in force differ for it, a keep_if rule applies, or it
   was opened again under an id that the tail rate treats otherwise (sample.go; assemble.go,
   NewID; onEnvelope, onEpisode). *)
THEOREM SamplingKeepsWhole == Spec => []SamplingNeverSplits
BY IngestInvHolds, NeverSplit, PTL
=============================================================================
