---------------------------- MODULE LabelsProofs ----------------------------
(***************************************************************************)
(* What module Labels promises for any lake, any number of commands that   *)
(* overlap, fail or are run again, and any rules and versions of a scorer. *)
(***************************************************************************)
EXTENDS Labels, SequenceFacts

-----------------------------------------------------------------------------
(* Deduplication: what is observed after a time changes nothing that was observed by then. *)

LEMMA EarliestExists ==
    ASSUME NEW os \in SUBSET Posted, NEW o \in os
    PROVE  Earliest(os, o.id) # {}
<1> DEFINE S == {p.observed : p \in {p \in os : p.id = o.id}}
<1>1. S \in SUBSET Nat /\ S # {}
  BY LabelsAssumption
<1>2. PICK x \in S : \A y \in S : x <= y
  BY <1>1, Least
<1>3. PICK p \in os : p.id = o.id /\ p.observed = x
  BY <1>2
<1>4. \A q \in os : q.id = o.id => p.observed <= q.observed
  BY <1>2, <1>3
<1> QED BY <1>3, <1>4 DEF Earliest

LEMMA DedupeIs ==
    ASSUME NEW os \in SUBSET Posted, NEW o
    PROVE  o \in Dedupe(os) <=> o \in os /\ o = CHOOSE p \in Earliest(os, o.id) : TRUE
<1>1. ASSUME o \in Dedupe(os)
      PROVE  o \in os /\ o = CHOOSE p \in Earliest(os, o.id) : TRUE
  <2>1. PICK q \in os : o = CHOOSE p \in Earliest(os, q.id) : TRUE
    BY <1>1 DEF Dedupe
  <2>2. Earliest(os, q.id) # {}
    BY EarliestExists
  <2>3. o \in Earliest(os, q.id)
    BY <2>1, <2>2
  <2>4. o \in os /\ o.id = q.id
    BY <2>3 DEF Earliest
  <2> QED BY <2>1, <2>4
<1>2. ASSUME o \in os, o = CHOOSE p \in Earliest(os, o.id) : TRUE
      PROVE  o \in Dedupe(os)
  BY <1>2 DEF Dedupe
<1> QED BY <1>1, <1>2

LEMMA DedupeInEarliest ==
    ASSUME NEW os \in SUBSET Posted, NEW o \in Dedupe(os)
    PROVE  o \in os /\ o \in Earliest(os, o.id)
<1>1. o \in os /\ o = CHOOSE p \in Earliest(os, o.id) : TRUE
  BY DedupeIs
<1>2. Earliest(os, o.id) # {}
  BY <1>1, EarliestExists
<1> QED BY <1>1, <1>2

LEMMA EarliestSame ==
    ASSUME NEW os \in SUBSET Posted, NEW q \in Posted,
           NEW o \in os, o.observed < q.observed
    PROVE  Earliest(os \cup {q}, o.id) = Earliest(os, o.id)
<1>1. ASSUME NEW x \in Earliest(os, o.id) PROVE x \in Earliest(os \cup {q}, o.id)
  <2>1. x \in os /\ x.id = o.id /\ x.observed <= o.observed
        /\ \A p \in os : p.id = o.id => x.observed <= p.observed
    BY DEF Earliest
  <2>2. x.observed <= q.observed
    BY <2>1, LabelsAssumption
  <2> QED BY <2>1, <2>2 DEF Earliest
<1>2. ASSUME NEW x \in Earliest(os \cup {q}, o.id) PROVE x \in Earliest(os, o.id)
  <2>1. x \in os \cup {q} /\ x.id = o.id /\ x.observed <= o.observed
        /\ \A p \in os : p.id = o.id => x.observed <= p.observed
    BY DEF Earliest
  <2>2. x # q
    BY <2>1, LabelsAssumption
  <2> QED BY <2>1, <2>2 DEF Earliest
<1> QED BY <1>1, <1>2

LEMMA DedupeSame ==
    ASSUME NEW os \in SUBSET Posted, NEW q \in Posted, NEW t \in Nat, q.observed > t
    PROVE  {o \in Dedupe(os \cup {q}) : o.observed <= t} = {o \in Dedupe(os) : o.observed <= t}
<1>1. ASSUME NEW o \in Dedupe(os), o.observed <= t PROVE o \in Dedupe(os \cup {q})
  <2>1. o \in os
    BY DedupeInEarliest
  <2>2. o.observed < q.observed
    BY <1>1, <2>1, LabelsAssumption
  <2>3. Earliest(os \cup {q}, o.id) = Earliest(os, o.id)
    BY <2>1, <2>2, EarliestSame
  <2> QED BY <2>1, <2>3, DedupeIs
<1>2. ASSUME NEW o \in Dedupe(os \cup {q}), o.observed <= t PROVE o \in Dedupe(os)
  <2>0. os \cup {q} \in SUBSET Posted
    OBVIOUS
  <2>1. o \in os \cup {q}
    BY <2>0, DedupeInEarliest
  <2>2. o.observed < q.observed
    BY <1>2, <2>1, LabelsAssumption
  <2>3. o \in os
    BY <2>1, <2>2, LabelsAssumption
  <2>4. Earliest(os \cup {q}, o.id) = Earliest(os, o.id)
    BY <2>3, <2>2, EarliestSame
  <2> QED BY <2>0, <2>3, <2>4, DedupeIs
<1> QED BY <1>1, <1>2

-----------------------------------------------------------------------------
(* Attribution: an episode that starts later takes no outcome away. *)

LEMMA ClosesLater ==
    ASSUME NEW e \in Episodes
    PROVE  HorizonClosesAt(e) \in Nat /\ e.start < HorizonClosesAt(e)
<1>1. e.start \in Nat /\ e.end \in Nat /\ Horizon \in Nat \ {0}
  BY LabelsAssumption
<1>2. PICK m \in {e.start, e.end} : \A y \in {e.start, e.end} : m >= y
  BY <1>1
<1>3. Max({e.start, e.end}) \in {e.start, e.end} /\ Max({e.start, e.end}) >= e.start
  BY <1>2 DEF Max
<1> QED BY <1>1, <1>3 DEF HorizonClosesAt

LEMMA AttributedIsEligible ==
    ASSUME NEW eps \in SUBSET Episodes, NEW o \in Posted, NEW by,
           NEW e \in AttributedTo(eps, o, by)
    PROVE  e \in Eligible(eps, o)
<1>1. CASE by = "all" \/ Eligible(eps, o) = {}
  BY <1>1 DEF AttributedTo
<1>2. CASE ~(by = "all" \/ Eligible(eps, o) = {})
  <2> DEFINE S == {o.occurred - d.start : d \in Eligible(eps, o)}
  <2>1. S \in SUBSET Nat /\ S # {}
    BY <1>2, LabelsAssumption DEF Eligible
  <2>2. PICK x \in S : \A y \in S : x <= y
    BY <2>1, Least
  <2>3. PICK d \in Eligible(eps, o) : x = o.occurred - d.start
    BY <2>2
  <2>4. \A f \in Eligible(eps, o) : f.start \in Nat /\ o.occurred \in Nat
    BY LabelsAssumption DEF Eligible
  <2>5. ASSUME NEW f \in Eligible(eps, o) PROVE f.start <= d.start
    <3>1. o.occurred - d.start <= o.occurred - f.start
      BY <2>2, <2>3
    <3> QED BY <3>1, <2>4
  <2>6. Newest(Eligible(eps, o)) # {}
    BY <2>5 DEF Newest
  <2>7. (CHOOSE f \in Newest(Eligible(eps, o)) : TRUE) \in Newest(Eligible(eps, o))
    BY <2>6
  <2>8. e = CHOOSE f \in Newest(Eligible(eps, o)) : TRUE
    BY <1>2 DEF AttributedTo
  <2> QED BY <2>7, <2>8 DEF Newest
<1> QED BY <1>1, <1>2

LEMMA AttributedSame ==
    ASSUME NEW eps \in SUBSET Episodes, NEW d \in Episodes, NEW o \in Posted, NEW by,
           o.occurred < d.start
    PROVE  AttributedTo(eps \cup {d}, o, by) = AttributedTo(eps, o, by)
<1>1. d \notin Eligible(eps \cup {d}, o)
  BY LabelsAssumption DEF Eligible
<1>2. Eligible(eps \cup {d}, o) = Eligible(eps, o)
  BY <1>1 DEF Eligible
<1> QED BY <1>2 DEF AttributedTo

LEMMA OutcomeLandsSame ==
    ASSUME NEW eps \in SUBSET Episodes, NEW os \in SUBSET Posted, NEW q \in Posted, NEW e,
           NEW t \in Nat, NEW by, q.observed > t
    PROVE  Attributed(eps, os \cup {q}, e, t, by) = Attributed(eps, os, e, t, by)
<1>1. {o \in Dedupe(os \cup {q}) : o.observed <= t} = {o \in Dedupe(os) : o.observed <= t}
  BY DedupeSame
<1> QED BY <1>1 DEF Attributed

LEMMA EpisodeLandsSame ==
    ASSUME NEW eps \in SUBSET Episodes, NEW os \in SUBSET Posted, NEW d \in Episodes, NEW e,
           NEW t \in Nat, NEW by, d.start > t
    PROVE  Attributed(eps \cup {d}, os, e, t, by) = Attributed(eps, os, e, t, by)
<1>1. ASSUME NEW o \in Dedupe(os), o.observed <= t
      PROVE  AttributedTo(eps \cup {d}, o, by) = AttributedTo(eps, o, by)
  <2>1. o \in Posted
    BY DedupeInEarliest
  <2>2. o.occurred < d.start
    BY <1>1, <2>1, LabelsAssumption
  <2> QED BY <2>1, <2>2, AttributedSame
<1> QED BY <1>1 DEF Attributed

(* A final label takes no further outcome, when all that happened by then is known. *)
LEMMA FinalSame ==
    ASSUME NEW eps \in SUBSET Episodes, NEW os \in SUBSET Posted, NEW e \in Episodes,
           NEW t \in Nat, NEW n \in Nat, t <= n, NEW by, HorizonClosesAt(e) <= t,
           \A o \in os : o.occurred <= t => o.observed <= t
    PROVE  Attributed(eps, os, e, n, by) = Attributed(eps, os, e, t, by)
<1>1. ASSUME NEW o \in Dedupe(os), e \in AttributedTo(eps, o, by)
      PROVE  o.observed <= n /\ o.observed <= t
  <2>1. o \in os
    BY DedupeInEarliest
  <2>2. e \in Eligible(eps, o)
    BY <1>1, <2>1, AttributedIsEligible
  <2>3. o.occurred <= t
    BY <2>1, <2>2, ClosesLater, LabelsAssumption DEF Eligible
  <2> QED BY <2>1, <2>3, LabelsAssumption
<1> QED BY <1>1 DEF Attributed

LEMMA LabelSame ==
    ASSUME NEW eps, NEW ept, NEW os, NEW ot, NEW e, NEW t, NEW n, NEW by,
           Attributed(eps, os, e, t, by) = Attributed(ept, ot, e, n, by),
           LabelStatus(e, t) = LabelStatus(e, n)
    PROVE  Label(eps, os, e, t, by) = Label(ept, ot, e, n, by)
BY DEF Label, OutcomesOf

-----------------------------------------------------------------------------
(* The state. *)

LabelsType ==
    /\ now \in Nat
    /\ landed \in SUBSET Episodes
    /\ outcomes \in SUBSET Posted
    /\ IsSeq(rewards)
    /\ cmd = [c \in Commands |-> cmd[c]]
    /\ \A c \in Commands : cmd[c].version \in Range(Versions) /\ IsFiniteSet(cmd[c].out)
    /\ reads \in SUBSET (0 .. now)

(* Where a reward comes from: a final label as of the time it was scored, which the lake
   still gives unless that read was stale. *)
Founded(r) ==
    /\ r.version \in Range(Versions) /\ r.at \in reads
    /\ r.at \in stale \/ \E e \in landed :
          /\ e.id = r.id /\ LabelStatus(e, r.at) = "final"
          /\ Score(r.version, Label(landed, outcomes, e, r.at, "last_touch")) = r.reward

FoundedInv ==
    /\ \A r \in Range(rewards) : Founded(r)
    /\ \A c \in Commands : \A r \in cmd[c].out : Founded(r)

(* A read that is not stale knew all that had happened by then. *)
KnownInv ==
    \A t \in reads \ stale : \A o \in outcomes : o.occurred <= t => o.observed <= t

(* What a command is about to write is new. *)
NewInv ==
    /\ \A c \in Commands : \A r, s \in cmd[c].out : r.version = cmd[c].version /\ (r.id = s.id => r = s)
    /\ overlapped \/
         /\ \A c \in Commands : cmd[c].runs =>
              \A r \in cmd[c].out : r.id \notin Already(rewards, cmd[c].version)
         /\ \A c, d \in Commands :
              cmd[c].runs /\ cmd[d].runs /\ cmd[c].version = cmd[d].version => c = d

(* What a join has returned, it would return again. *)
Rebuilt(ds, eps, os) ==
    ds # <<>> =>
        /\ ds = <<[asOf |-> ds[1].asOf, by |-> ds[1].by, complete |-> ds[1].complete,
                   labels |-> ds[1].labels]>>
        /\ ds[1].asOf \in Nat
        /\ ds[1].complete => \A d \in ds[1].labels :
             \E e \in eps : d = Label(eps, os, e, ds[1].asOf, ds[1].by)

LabelsInv == LabelsType /\ FoundedInv /\ KnownInv /\ NewInv /\ ScoredOnce /\ Rebuilt(dataset, landed, outcomes)

-----------------------------------------------------------------------------
(* What is founded stays so. *)

LEMMA FoundedSame ==
    ASSUME NEW r, Founded(r), landed' = landed, outcomes' = outcomes,
           reads \subseteq reads', stale \subseteq stale'
    PROVE  Founded(r)'
BY DEF Founded

LEMMA FoundedEpisode ==
    ASSUME LabelsType, NEW d \in Episodes, LandEpisode(d), NEW r, Founded(r)
    PROVE  Founded(r)'
<1>1. landed' = landed \cup {d} /\ outcomes' = outcomes /\ reads' = reads
      /\ stale' = stale \cup {t \in reads : t >= d.start}
  BY DEF LandEpisode, Lands
<1>2. CASE r.at \in stale'
  BY <1>1, <1>2 DEF Founded
<1>3. CASE r.at \notin stale'
  <2>0. landed \in SUBSET Episodes /\ outcomes \in SUBSET Posted
    BY DEF LabelsType
  <2>1. r.at \in reads /\ r.at \in Nat /\ ~(r.at >= d.start)
    BY <1>1, <1>3 DEF Founded, LabelsType
  <2>2. PICK e \in landed :
          /\ e.id = r.id /\ LabelStatus(e, r.at) = "final"
          /\ Score(r.version, Label(landed, outcomes, e, r.at, "last_touch")) = r.reward
    BY <1>1, <1>3 DEF Founded
  <2>3. d.start > r.at
    BY <2>1, LabelsAssumption
  <2>4. Attributed(landed \cup {d}, outcomes, e, r.at, "last_touch")
          = Attributed(landed, outcomes, e, r.at, "last_touch")
    BY <2>0, <2>1, <2>3, EpisodeLandsSame
  <2>5. Label(landed', outcomes', e, r.at, "last_touch") = Label(landed, outcomes, e, r.at, "last_touch")
    BY <1>1, <2>4, LabelSame
  <2> QED BY <1>1, <2>2, <2>5 DEF Founded
<1> QED BY <1>2, <1>3

LEMMA FoundedOutcome ==
    ASSUME LabelsType, NEW q \in Posted, LandOutcome(q), NEW r, Founded(r)
    PROVE  Founded(r)'
<1>1. landed' = landed /\ outcomes' = outcomes \cup {q} /\ reads' = reads
      /\ stale' = stale \cup {t \in reads : t >= q.occurred}
  BY DEF LandOutcome, Lands
<1>2. CASE r.at \in stale'
  BY <1>1, <1>2 DEF Founded
<1>3. CASE r.at \notin stale'
  <2>0. landed \in SUBSET Episodes /\ outcomes \in SUBSET Posted
    BY DEF LabelsType
  <2>1. r.at \in reads /\ r.at \in Nat /\ ~(r.at >= q.occurred)
    BY <1>1, <1>3 DEF Founded, LabelsType
  <2>2. PICK e \in landed :
          /\ e.id = r.id /\ LabelStatus(e, r.at) = "final"
          /\ Score(r.version, Label(landed, outcomes, e, r.at, "last_touch")) = r.reward
    BY <1>1, <1>3 DEF Founded
  <2>3. q.observed > r.at
    BY <2>1, LabelsAssumption
  <2>4. Attributed(landed, outcomes \cup {q}, e, r.at, "last_touch")
          = Attributed(landed, outcomes, e, r.at, "last_touch")
    BY <2>0, <2>1, <2>3, OutcomeLandsSame
  <2>5. Label(landed', outcomes', e, r.at, "last_touch") = Label(landed, outcomes, e, r.at, "last_touch")
    BY <1>1, <2>4, LabelSame
  <2> QED BY <1>1, <2>2, <2>5 DEF Founded
<1> QED BY <1>2, <1>3

LEMMA FieldReplaced ==
    ASSUME NEW a, NEW b, NEW m, NEW L, NEW x, NEW D,
           D = [asOf |-> a, by |-> b, complete |-> m, labels |-> L]
    PROVE  [D EXCEPT !.complete = x] = [asOf |-> a, by |-> b, complete |-> x, labels |-> L]
OBVIOUS

LEMMA OneDataset ==
    ASSUME NEW a, NEW b, NEW m, NEW L, NEW ds,
           ds = <<[asOf |-> a, by |-> b, complete |-> m, labels |-> L]>>
    PROVE  /\ ds # <<>> /\ ds[1].asOf = a /\ ds[1].by = b /\ ds[1].complete = m /\ ds[1].labels = L
           /\ ds = <<[asOf |-> ds[1].asOf, by |-> ds[1].by, complete |-> ds[1].complete,
                      labels |-> ds[1].labels]>>
           /\ [ds[1] EXCEPT !.complete = FALSE] = [asOf |-> a, by |-> b, complete |-> FALSE, labels |-> L]
<1>0. ds # <<>>
  OBVIOUS
<1>1. PICK D : D = [asOf |-> a, by |-> b, complete |-> m, labels |-> L]
  OBVIOUS
<1>2. ds[1] = D
  BY <1>1
<1>3. D.asOf = a /\ D.by = b /\ D.complete = m /\ D.labels = L
  BY <1>1
<1>4. [D EXCEPT !.complete = FALSE] = [asOf |-> a, by |-> b, complete |-> FALSE, labels |-> L]
  <2>1. PICK x : x = FALSE
    OBVIOUS
  <2>2. [D EXCEPT !.complete = x] = [asOf |-> a, by |-> b, complete |-> x, labels |-> L]
    BY <1>1, FieldReplaced
  <2> QED BY <2>1, <2>2
<1> QED BY <1>0, <1>2, <1>3, <1>4

LEMMA RebuiltIs ==
    ASSUME NEW a \in Nat, NEW b, NEW m, NEW L, NEW eps, NEW os,
           m => \A d \in L : \E e \in eps : d = Label(eps, os, e, a, b)
    PROVE  Rebuilt(<<[asOf |-> a, by |-> b, complete |-> m, labels |-> L]>>, eps, os)
<1>1. PICK ds : ds = <<[asOf |-> a, by |-> b, complete |-> m, labels |-> L]>>
  OBVIOUS
<1>2. /\ ds # <<>> /\ ds[1].asOf = a /\ ds[1].by = b /\ ds[1].complete = m /\ ds[1].labels = L
      /\ ds = <<[asOf |-> ds[1].asOf, by |-> ds[1].by, complete |-> ds[1].complete,
                 labels |-> ds[1].labels]>>
  BY <1>1, OneDataset
<1>3. Rebuilt(ds, eps, os)
  BY <1>2 DEF Rebuilt
<1> QED BY <1>1, <1>3

(* So does what a join has returned. *)
Missed(ds, k) ==
    IF ds # <<>> /\ ds[1].asOf >= k THEN <<[ds[1] EXCEPT !.complete = FALSE]>> ELSE ds

LEMMA RebuiltSame ==
    ASSUME NEW ds, NEW eps, NEW os, NEW ept, NEW ot, Rebuilt(ds, eps, os), eps \subseteq ept,
           NEW k \in Nat,
           \A t \in Nat : t < k => \A e, b : Attributed(ept, ot, e, t, b) = Attributed(eps, os, e, t, b)
    PROVE  Rebuilt(Missed(ds, k), ept, ot)
<1>1. CASE ds = <<>>
  BY <1>1 DEF Rebuilt, Missed
<1>2. CASE ds # <<>>
  <2>1. PICK a, b, m, L :
          /\ a \in Nat /\ ds = <<[asOf |-> a, by |-> b, complete |-> m, labels |-> L]>>
          /\ m => \A d \in L : \E e \in eps : d = Label(eps, os, e, a, b)
    BY <1>2 DEF Rebuilt
  <2>2. /\ ds # <<>> /\ ds[1].asOf = a
        /\ [ds[1] EXCEPT !.complete = FALSE] = [asOf |-> a, by |-> b, complete |-> FALSE, labels |-> L]
    BY <2>1, OneDataset
  <2>3. CASE a >= k
    <3>1. Rebuilt(<<[asOf |-> a, by |-> b, complete |-> FALSE, labels |-> L]>>, ept, ot)
      BY <2>1, RebuiltIs
    <3> QED BY <2>2, <2>3, <3>1 DEF Missed
  <2>4. CASE ~(a >= k)
    <3>1. \A e : Attributed(ept, ot, e, a, b) = Attributed(eps, os, e, a, b)
      BY <2>1, <2>4
    <3>2. \A e : Label(eps, os, e, a, b) = Label(ept, ot, e, a, b)
      BY <3>1, LabelSame
    <3>3. m => \A d \in L : \E e \in ept : d = Label(ept, ot, e, a, b)
      BY <2>1, <3>2
    <3>4. Rebuilt(ds, ept, ot)
      BY <2>1, <3>3, RebuiltIs
    <3> QED BY <2>2, <2>4, <3>4 DEF Missed
  <2> QED BY <2>3, <2>4
<1> QED BY <1>1, <1>2

-----------------------------------------------------------------------------
(* What cc score gives out. *)

LEMMA ListedOnce ==
    ASSUME NEW S, IsFiniteSet(S)
    PROVE  /\ IsSeq(SetToSeq(S)) /\ Range(SetToSeq(S)) \subseteq S
           /\ \A i, j \in DOMAIN SetToSeq(S) : SetToSeq(S)[i] = SetToSeq(S)[j] => i = j
<1>1. Cardinality(S) \in Nat /\ ExistsBijection(1 .. Cardinality(S), S)
  BY FS_CardinalityType
<1>2. \E f \in [1 .. Cardinality(S) -> S] : IsInjective(f)
  BY <1>1 DEF ExistsBijection, Bijection, Injection
<1>3. SetToSeq(S) \in [1 .. Cardinality(S) -> S] /\ IsInjective(SetToSeq(S))
  BY <1>2 DEF SetToSeq
<1>4. PICK f : f = SetToSeq(S)
  OBVIOUS
<1>5. f \in [1 .. Cardinality(S) -> S] /\ IsInjective(f)
  BY <1>3, <1>4
<1>6. f \in Seq(S)
  BY <1>1, <1>5
<1>7. IsSeq(f)
  BY <1>6, SeqOfItsRange
<1>8. Range(f) \subseteq S
  BY <1>5 DEF Range
<1>9. \A i, j \in DOMAIN f : f[i] = f[j] => i = j
  BY <1>5 DEF IsInjective
<1> QED BY <1>4, <1>7, <1>8, <1>9

Scored(e, v, t) ==
    [id |-> e.id, version |-> v, at |-> t,
     reward |-> Score(v, Label(landed, outcomes, e, t, "last_touch"))]

LEMMA GivenOut ==
    ASSUME NEW v, NEW t,
           NEW r \in NewRewards(Join(landed, outcomes, t, "last_touch"), rewards, v, t)
    PROVE  \E e \in landed :
              /\ r = Scored(e, v, t) /\ e.id \notin Already(rewards, v)
              /\ LabelStatus(e, t) = "final"
<1>1. PICK l \in Join(landed, outcomes, t, "last_touch") :
        /\ l.id \notin Already(rewards, v) /\ Score(v, l) # NoReward
        /\ r = [id |-> l.id, version |-> v, at |-> t, reward |-> Score(v, l)]
  BY DEF NewRewards
<1>2. PICK e \in landed : l = Label(landed, outcomes, e, t, "last_touch")
  BY <1>1 DEF Join
<1>3. l.id = e.id /\ l.status = LabelStatus(e, t)
  BY <1>2 DEF Label
<1>4. l.status = "final"
  BY <1>1 DEF Score
<1> QED BY <1>1, <1>2, <1>3, <1>4 DEF Scored

LEMMA ScoredFields ==
    ASSUME NEW e, NEW v, NEW t, NEW r, r = Scored(e, v, t)
    PROVE  /\ r.id = e.id /\ r.version = v /\ r.at = t
           /\ r.reward = Score(v, Label(landed, outcomes, e, t, "last_touch"))
BY DEF Scored

LEMMA OutIsFinite ==
    ASSUME LabelsType, NEW v, NEW t
    PROVE  IsFiniteSet(NewRewards(Join(landed, outcomes, t, "last_touch"), rewards, v, t))
<1>1. PICK T : T = NewRewards(Join(landed, outcomes, t, "last_touch"), rewards, v, t)
  OBVIOUS
<1>2. PICK f : f = [e \in Episodes |-> Scored(e, v, t)]
  OBVIOUS
<1> DEFINE D == {e \in Episodes : f[e] \in T}
           g == [e \in D |-> f[e]]
<1>3. IsFiniteSet(D)
  BY LabelsAssumption, FS_Subset
<1>4. \A r \in T : \E e \in D : f[e] = r
  BY <1>1, <1>2, GivenOut DEF LabelsType
<1>5. g \in Surjection(D, T)
  BY <1>4 DEF Surjection
<1>6. IsFiniteSet(T)
  BY <1>3, <1>5, FS_Surjection
<1> QED BY <1>1, <1>6

-----------------------------------------------------------------------------
(* The steps. *)

LEMMA LabelsInit == Init => LabelsInv
<1> SUFFICES ASSUME Init PROVE LabelsInv
  OBVIOUS
<1>1. Range(rewards) = {} /\ IsSeq(rewards) /\ DOMAIN rewards = {}
  BY NoneSeq DEF Init
<1>2. Versions[1] \in Range(Versions)
  BY LabelsAssumption DEF Range
<1>3. \A c \in Commands : cmd[c].version = Versions[1] /\ cmd[c].out = {} /\ cmd[c].runs = FALSE
  BY DEF Init
<1>4. IsFiniteSet({})
  BY FS_EmptySet
<1>5. LabelsType
  BY <1>1, <1>2, <1>3, <1>4 DEF Init, LabelsType
<1>6. FoundedInv
  BY <1>1, <1>3 DEF FoundedInv
<1>7. KnownInv
  BY DEF Init, KnownInv
<1>8. NewInv
  BY <1>3 DEF NewInv
<1>9. ScoredOnce
  BY <1>1 DEF ScoredOnce
<1>10. Rebuilt(dataset, landed, outcomes)
  BY DEF Init, Rebuilt
<1> QED BY <1>5, <1>6, <1>7, <1>8, <1>9, <1>10 DEF LabelsInv

LEMMA TickStep == LabelsInv /\ (Tick \/ UNCHANGED vars) => LabelsInv'
<1> SUFFICES ASSUME LabelsInv, Tick \/ UNCHANGED vars PROVE LabelsInv'
  OBVIOUS
<1>1. UNCHANGED <<landed, outcomes, rewards, cmd, dataset, reads, stale, overlapped>>
      /\ (now' = now \/ now' = now + 1)
  BY DEF Tick, vars
<1>2. LabelsType'
  BY <1>1 DEF LabelsInv, LabelsType
<1>3. FoundedInv'
  BY <1>1 DEF LabelsInv, FoundedInv, Founded
<1>4. KnownInv' /\ NewInv' /\ ScoredOnce'
  BY <1>1 DEF LabelsInv, KnownInv, NewInv, ScoredOnce, Already
<1>5. Rebuilt(dataset, landed, outcomes)'
  BY <1>1 DEF LabelsInv
<1> QED BY <1>2, <1>3, <1>4, <1>5 DEF LabelsInv

LEMMA LandEpisodeStep ==
    ASSUME LabelsInv, NEW d \in Episodes, LandEpisode(d)
    PROVE  LabelsInv'
<1>1. /\ landed' = landed \cup {d} /\ stale' = stale \cup {t \in reads : t >= d.start}
      /\ dataset' = IF dataset # <<>> /\ dataset[1].asOf >= d.start
                    THEN <<[dataset[1] EXCEPT !.complete = FALSE]>> ELSE dataset
      /\ UNCHANGED <<now, outcomes, rewards, cmd, reads, overlapped>>
  BY DEF LandEpisode, Lands
<1>2. LabelsType'
  BY <1>1 DEF LabelsInv, LabelsType
<1>3. FoundedInv'
  BY <1>1, FoundedEpisode DEF LabelsInv, FoundedInv
<1>4. KnownInv' /\ NewInv' /\ ScoredOnce'
  BY <1>1 DEF LabelsInv, KnownInv, NewInv, ScoredOnce, Already
<1>5. landed \in SUBSET Episodes /\ outcomes \in SUBSET Posted /\ d.start \in Nat
  BY LabelsAssumption DEF LabelsInv, LabelsType
<1>6. \A t \in Nat : t < d.start => \A e, b :
        Attributed(landed', outcomes', e, t, b) = Attributed(landed, outcomes, e, t, b)
  BY <1>1, <1>5, EpisodeLandsSame
<1>7. Rebuilt(dataset, landed, outcomes)
  BY DEF LabelsInv
<1>8. Rebuilt(dataset', landed', outcomes')
  <2>1. PICK k \in Nat : k = d.start
    BY <1>5
  <2>2. landed \subseteq landed'
    BY <1>1
  <2>3. \A t \in Nat : t < k => \A e, b :
          Attributed(landed', outcomes', e, t, b) = Attributed(landed, outcomes, e, t, b)
    BY <1>6, <2>1
  <2>4. dataset' = Missed(dataset, k)
    BY <1>1, <2>1 DEF Missed
  <2> QED BY <1>7, <2>2, <2>3, <2>4, RebuiltSame
<1> QED BY <1>2, <1>3, <1>4, <1>8 DEF LabelsInv

LEMMA LandOutcomeStep ==
    ASSUME LabelsInv, NEW q \in Posted, LandOutcome(q)
    PROVE  LabelsInv'
<1>1. /\ outcomes' = outcomes \cup {q} /\ stale' = stale \cup {t \in reads : t >= q.occurred}
      /\ dataset' = IF dataset # <<>> /\ dataset[1].asOf >= q.observed
                    THEN <<[dataset[1] EXCEPT !.complete = FALSE]>> ELSE dataset
      /\ UNCHANGED <<now, landed, rewards, cmd, reads, overlapped>>
  BY DEF LandOutcome, Lands
<1>2. LabelsType'
  BY <1>1 DEF LabelsInv, LabelsType
<1>3. FoundedInv'
  BY <1>1, FoundedOutcome DEF LabelsInv, FoundedInv
<1>4. NewInv' /\ ScoredOnce'
  BY <1>1 DEF LabelsInv, NewInv, ScoredOnce, Already
<1>5. landed \in SUBSET Episodes /\ outcomes \in SUBSET Posted /\ q.occurred \in Nat /\ q.observed \in Nat
  BY LabelsAssumption DEF LabelsInv, LabelsType
<1>6. KnownInv'
  <2> SUFFICES ASSUME NEW t \in reads', t \notin stale', NEW o \in outcomes', o.occurred <= t
               PROVE  o.observed <= t
    BY DEF KnownInv
  <2>1. t \in Nat /\ t \in reads \ stale /\ ~(t >= q.occurred)
    BY <1>1 DEF LabelsInv, LabelsType
  <2>2. o # q
    BY <1>5, <2>1
  <2> QED BY <1>1, <2>1, <2>2 DEF LabelsInv, KnownInv
<1>7. ASSUME NEW t \in Nat, t < q.observed, NEW e, NEW b
      PROVE  Attributed(landed', outcomes', e, t, b) = Attributed(landed, outcomes, e, t, b)
  <2>1. q.observed > t
    BY <1>5, <1>7
  <2>2. Attributed(landed, outcomes \cup {q}, e, t, b) = Attributed(landed, outcomes, e, t, b)
    BY <1>5, <2>1, OutcomeLandsSame
  <2> QED BY <1>1, <2>2
<1>8. Rebuilt(dataset, landed, outcomes)
  BY DEF LabelsInv
<1>9. Rebuilt(dataset', landed', outcomes')
  <2>1. PICK k \in Nat : k = q.observed
    BY <1>5
  <2>2. landed \subseteq landed'
    BY <1>1
  <2>3. \A t \in Nat : t < k => \A e, b :
          Attributed(landed', outcomes', e, t, b) = Attributed(landed, outcomes, e, t, b)
    BY <1>7, <2>1
  <2>4. dataset' = Missed(dataset, k)
    BY <1>1, <2>1 DEF Missed
  <2> QED BY <1>8, <2>2, <2>3, <2>4, RebuiltSame
<1> QED BY <1>2, <1>3, <1>4, <1>6, <1>9 DEF LabelsInv

LEMMA RunJoinStep ==
    ASSUME LabelsInv, NEW asOf \in 0 .. now, NEW by, RunJoin(asOf, by)
    PROVE  LabelsInv'
<1>1. /\ dataset' = <<[asOf |-> asOf, by |-> by, complete |-> TRUE,
                       labels |-> Join(landed, outcomes, asOf, by)]>>
      /\ UNCHANGED <<now, landed, outcomes, rewards, cmd, reads, stale, overlapped>>
  BY DEF RunJoin
<1>2. LabelsType'
  BY <1>1 DEF LabelsInv, LabelsType
<1>3. FoundedInv'
  BY <1>1 DEF LabelsInv, FoundedInv, Founded
<1>4. KnownInv' /\ NewInv' /\ ScoredOnce'
  BY <1>1 DEF LabelsInv, KnownInv, NewInv, ScoredOnce, Already
<1>5. asOf \in Nat
  BY DEF LabelsInv, LabelsType
<1>6. PICK L : L = Join(landed, outcomes, asOf, by)
  OBVIOUS
<1>7. \A d \in L : \E e \in landed : d = Label(landed, outcomes, e, asOf, by)
  BY <1>6 DEF Join
<1>8. PICK m : m = TRUE
  OBVIOUS
<1>9. Rebuilt(<<[asOf |-> asOf, by |-> by, complete |-> m, labels |-> L]>>, landed, outcomes)
  BY <1>5, <1>7, RebuiltIs
<1>10. Rebuilt(dataset', landed', outcomes')
  BY <1>1, <1>6, <1>8, <1>9
<1> QED BY <1>2, <1>3, <1>4, <1>10 DEF LabelsInv

LEMMA CmdSet ==
    ASSUME cmd = [c \in Commands |-> cmd[c]], NEW c \in Commands, NEW x,
           cmd' = [cmd EXCEPT ![c] = x]
    PROVE  /\ cmd' = [d \in Commands |-> cmd'[d]] /\ cmd'[c] = x
           /\ \A d \in Commands : d # c => cmd'[d] = cmd[d]
OBVIOUS

LEMMA ScoreStartStep ==
    ASSUME LabelsInv, NEW c \in Commands, NEW v \in Range(Versions), NEW t \in 0 .. now,
           ScoreStart(c, v, t)
    PROVE  LabelsInv'
<1>1. PICK new : new = NewRewards(Join(landed, outcomes, t, "last_touch"), rewards, v, t)
  OBVIOUS
<1>2. PICK x : x = [runs |-> TRUE, version |-> v, out |-> new]
  OBVIOUS
<1>3. /\ cmd' = [cmd EXCEPT ![c] = x] /\ reads' = reads \cup {t} /\ ~cmd[c].runs
      /\ stale' = stale \cup {u \in {t} : \E o \in outcomes : o.occurred <= u /\ o.observed > u}
      /\ overlapped' = (overlapped \/ Running(v) # {})
      /\ UNCHANGED <<now, landed, outcomes, rewards, dataset>>
  BY <1>1, <1>2 DEF ScoreStart
<1>4. /\ cmd' = [d \in Commands |-> cmd'[d]] /\ cmd'[c] = x
      /\ \A d \in Commands : d # c => cmd'[d] = cmd[d]
  BY <1>3, CmdSet DEF LabelsInv, LabelsType
<1>5. x.runs = TRUE /\ x.version = v /\ x.out = new
  BY <1>2
<1>6. IsFiniteSet(new)
  BY <1>1, OutIsFinite DEF LabelsInv
<1>7. LabelsType'
  <2>1. reads' \in SUBSET (0 .. now')
    BY <1>3 DEF LabelsInv, LabelsType
  <2>2. \A d \in Commands : cmd'[d].version \in Range(Versions) /\ IsFiniteSet(cmd'[d].out)
    BY <1>4, <1>5, <1>6 DEF LabelsInv, LabelsType
  <2> QED BY <1>3, <1>4, <2>1, <2>2 DEF LabelsInv, LabelsType
<1>8. \A r \in new : \E e \in landed :
         r = Scored(e, v, t) /\ e.id \notin Already(rewards, v) /\ LabelStatus(e, t) = "final"
  BY <1>1, GivenOut
<1>9. FoundedInv'
  <2>1. \A r \in new : Founded(r)'
    <3> SUFFICES ASSUME NEW r \in new PROVE Founded(r)'
      OBVIOUS
    <3>1. PICK e \in landed : r = Scored(e, v, t) /\ LabelStatus(e, t) = "final"
      BY <1>8
    <3>2. /\ r.id = e.id /\ r.version = v /\ r.at = t
          /\ r.reward = Score(v, Label(landed, outcomes, e, t, "last_touch"))
      BY <3>1, ScoredFields
    <3> QED BY <1>3, <3>1, <3>2 DEF Founded
  <2>2. \A r : Founded(r) => Founded(r)'
    BY <1>3, FoundedSame
  <2>3. \A r \in Range(rewards') : Founded(r)'
    BY <1>3, <2>2 DEF LabelsInv, FoundedInv
  <2>4. \A d \in Commands : \A r \in cmd'[d].out : Founded(r)'
    BY <1>4, <1>5, <2>1, <2>2 DEF LabelsInv, FoundedInv
  <2> QED BY <2>3, <2>4 DEF FoundedInv
<1>10. KnownInv'
  <2> SUFFICES ASSUME NEW u \in reads', u \notin stale', NEW o \in outcomes', o.occurred <= u
               PROVE  o.observed <= u
    BY DEF KnownInv
  <2>1. o \in outcomes /\ o.observed \in Nat
    BY <1>3, LabelsAssumption DEF LabelsInv, LabelsType
  <2>2. CASE u \in reads
    BY <1>3, <2>1, <2>2 DEF LabelsInv, KnownInv
  <2>3. CASE u = t
    <3>1. ~(o.observed > t)
      BY <1>3, <2>1, <2>3
    <3>2. t \in Nat
      BY DEF LabelsInv, LabelsType
    <3> QED BY <2>1, <2>3, <3>1, <3>2
  <2> QED BY <1>3, <2>2, <2>3
<1>11. NewInv'
  <2>1. ASSUME NEW d \in Commands, NEW r \in cmd'[d].out, NEW s \in cmd'[d].out
        PROVE  r.version = cmd'[d].version /\ (r.id = s.id => r = s)
    <3>1. CASE d # c
      BY <1>4, <2>1, <3>1 DEF LabelsInv, NewInv
    <3>2. CASE d = c
      <4>1. r \in new /\ s \in new /\ cmd'[d].version = v
        BY <1>4, <1>5, <3>2
      <4>2. PICK e \in landed : r = Scored(e, v, t)
        BY <1>8, <4>1
      <4>3. PICK f \in landed : s = Scored(f, v, t)
        BY <1>8, <4>1
      <4>4. r.version = v /\ r.id = e.id /\ s.id = f.id
        BY <4>2, <4>3, ScoredFields
      <4>5. e.id = f.id => e = f
        BY LabelsAssumption DEF LabelsInv, LabelsType
      <4> QED BY <4>1, <4>2, <4>3, <4>4, <4>5
    <3> QED BY <3>1, <3>2
  <2>2. ASSUME ~overlapped', NEW d \in Commands, cmd'[d].runs, NEW r \in cmd'[d].out
        PROVE  r.id \notin Already(rewards', cmd'[d].version)
    <3>1. CASE d # c
      BY <1>3, <1>4, <2>2, <3>1 DEF LabelsInv, NewInv, Already
    <3>2. CASE d = c
      <4>1. r \in new /\ cmd'[d].version = v
        BY <1>4, <1>5, <3>2
      <4>2. PICK e \in landed : r = Scored(e, v, t) /\ e.id \notin Already(rewards, v)
        BY <1>8, <4>1
      <4>3. r.id = e.id
        BY <4>2, ScoredFields
      <4> QED BY <1>3, <4>1, <4>2, <4>3 DEF Already
    <3> QED BY <3>1, <3>2
  <2>3. ASSUME ~overlapped', NEW d \in Commands, NEW f \in Commands, cmd'[d].runs, cmd'[f].runs,
               cmd'[d].version = cmd'[f].version
        PROVE  d = f
    <3>1. ~overlapped /\ \A g \in Commands : ~(cmd[g].runs /\ cmd[g].version = v)
      BY <1>3, <2>3 DEF Running
    <3>2. CASE d # c /\ f # c
      BY <1>4, <2>3, <3>1, <3>2 DEF LabelsInv, NewInv
    <3>3. CASE d = c \/ f = c
      BY <1>4, <1>5, <2>3, <3>1, <3>3
    <3> QED BY <3>2, <3>3
  <2> QED BY <2>1, <2>2, <2>3 DEF NewInv
<1>12. ScoredOnce'
  BY <1>3 DEF LabelsInv, ScoredOnce
<1>13. Rebuilt(dataset, landed, outcomes)'
  BY <1>3 DEF LabelsInv
<1> QED BY <1>7, <1>9, <1>10, <1>11, <1>12, <1>13 DEF LabelsInv

(* A command that ends, whatever it has written. *)
LEMMA EndStep ==
    ASSUME LabelsInv, NEW c \in Commands, cmd[c].runs, Idle(c),
           UNCHANGED <<now, landed, outcomes, runs, dataset, reads, stale, overlapped>>,
           rewards' = rewards \/ rewards' = rewards \o SetToSeq(cmd[c].out)
    PROVE  LabelsInv'
<1>1. PICK x : x = [runs |-> FALSE, version |-> Versions[1], out |-> {}]
  OBVIOUS
<1>2. /\ cmd' = [d \in Commands |-> cmd'[d]] /\ cmd'[c] = x
      /\ \A d \in Commands : d # c => cmd'[d] = cmd[d]
  BY <1>1, CmdSet DEF LabelsInv, LabelsType, Idle
<1>3. x.runs = FALSE /\ x.version = Versions[1] /\ x.out = {} /\ Versions[1] \in Range(Versions)
  BY <1>1, LabelsAssumption DEF Range
<1>4. PICK s : s = SetToSeq(cmd[c].out)
  OBVIOUS
<1>5. /\ IsSeq(s) /\ Range(s) \subseteq cmd[c].out
      /\ \A i, j \in DOMAIN s : s[i] = s[j] => i = j
  BY <1>4, ListedOnce DEF LabelsInv, LabelsType
<1>6. IsSeq(rewards)
  BY DEF LabelsInv, LabelsType
<1>7. IsSeq(rewards') /\ Range(rewards') \subseteq Range(rewards) \cup cmd[c].out
  <2>1. CASE rewards' = rewards
    BY <1>6, <2>1
  <2>2. CASE rewards' = rewards \o s
    BY <1>5, <1>6, <2>2, Joined
  <2> QED BY <1>4, <2>1, <2>2
<1>8. LabelsType'
  <2>1. \A d \in Commands : cmd'[d].version \in Range(Versions) /\ IsFiniteSet(cmd'[d].out)
    BY <1>2, <1>3, FS_EmptySet DEF LabelsInv, LabelsType
  <2> QED BY <1>2, <1>7, <2>1 DEF LabelsInv, LabelsType
<1>9. FoundedInv'
  <2>1. \A r : Founded(r) => Founded(r)'
    BY FoundedSame
  <2>2. \A r \in Range(rewards') : Founded(r)'
    BY <1>7, <2>1 DEF LabelsInv, FoundedInv
  <2>3. \A d \in Commands : \A r \in cmd'[d].out : Founded(r)'
    BY <1>2, <1>3, <2>1 DEF LabelsInv, FoundedInv
  <2> QED BY <2>2, <2>3 DEF FoundedInv
<1>10. KnownInv'
  BY DEF LabelsInv, KnownInv
<1>11. NewInv'
  <2>1. ASSUME NEW d \in Commands, NEW r \in cmd'[d].out, NEW q \in cmd'[d].out
        PROVE  r.version = cmd'[d].version /\ (r.id = q.id => r = q)
    BY <1>2, <1>3, <2>1 DEF LabelsInv, NewInv
  <2>2. ASSUME ~overlapped', NEW d \in Commands, cmd'[d].runs, NEW r \in cmd'[d].out
        PROVE  r.id \notin Already(rewards', cmd'[d].version)
    <3>1. d # c /\ cmd'[d] = cmd[d]
      BY <1>2, <1>3, <2>2
    <3>2. cmd[d].version # cmd[c].version
      BY <2>2, <3>1 DEF LabelsInv, NewInv
    <3>3. r.id \notin Already(rewards, cmd[d].version)
      BY <2>2, <3>1 DEF LabelsInv, NewInv
    <3>4. \A q \in cmd[c].out : q.version = cmd[c].version
      BY DEF LabelsInv, NewInv
    <3> QED BY <1>7, <3>1, <3>2, <3>3, <3>4 DEF Already
  <2>3. ASSUME ~overlapped', NEW d \in Commands, NEW f \in Commands, cmd'[d].runs, cmd'[f].runs,
               cmd'[d].version = cmd'[f].version
        PROVE  d = f
    BY <1>2, <1>3, <2>3 DEF LabelsInv, NewInv
  <2> QED BY <2>1, <2>2, <2>3 DEF NewInv
<1>12. ScoredOnce'
  <2>1. CASE rewards' = rewards
    BY <2>1 DEF LabelsInv, ScoredOnce
  <2>2. CASE rewards' = rewards \o s /\ ~overlapped
    <3> SUFFICES ASSUME NEW i \in DOMAIN rewards', NEW j \in DOMAIN rewards',
                        rewards'[i].id = rewards'[j].id, rewards'[i].version = rewards'[j].version
                 PROVE  i = j
      BY DEF ScoredOnce
    <3>1. /\ Len(rewards) \in Nat /\ DOMAIN rewards = 1 .. Len(rewards)
          /\ Len(s) \in Nat /\ DOMAIN s = 1 .. Len(s)
      BY <1>5, <1>6, SeqShape
    <3>2. \A k \in DOMAIN rewards' :
            \/ k \in DOMAIN rewards /\ rewards'[k] = rewards[k]
            \/ k - Len(rewards) \in DOMAIN s /\ rewards'[k] = s[k - Len(rewards)]
      BY <1>5, <1>6, <2>2, Joined
    <3>3. i \in Int /\ j \in Int
      BY <1>7, SeqShape
    <3>4. \A k \in DOMAIN s : s[k] \in cmd[c].out
      BY <1>5 DEF Range
    <3>5. \A r \in cmd[c].out : r.version = cmd[c].version /\ r.id \notin Already(rewards, cmd[c].version)
      BY <2>2 DEF LabelsInv, NewInv
    <3>6. \A r \in cmd[c].out : \A k \in DOMAIN rewards :
            ~(rewards[k].id = r.id /\ rewards[k].version = r.version)
      BY <3>5 DEF Already, Range
    <3>7. CASE i \in DOMAIN rewards /\ rewards'[i] = rewards[i]
               /\ j \in DOMAIN rewards /\ rewards'[j] = rewards[j]
      BY <2>2, <3>7 DEF LabelsInv, ScoredOnce
    <3>8. CASE i - Len(rewards) \in DOMAIN s /\ rewards'[i] = s[i - Len(rewards)]
               /\ j - Len(rewards) \in DOMAIN s /\ rewards'[j] = s[j - Len(rewards)]
      <4>1. s[i - Len(rewards)] = s[j - Len(rewards)]
        BY <3>4, <3>8 DEF LabelsInv, NewInv
      <4>2. i - Len(rewards) = j - Len(rewards)
        BY <1>5, <3>8, <4>1
      <4> QED BY <3>1, <3>3, <4>2
    <3>9. CASE i \in DOMAIN rewards /\ rewards'[i] = rewards[i]
               /\ j - Len(rewards) \in DOMAIN s /\ rewards'[j] = s[j - Len(rewards)]
      BY <3>4, <3>6, <3>9
    <3>10. CASE j \in DOMAIN rewards /\ rewards'[j] = rewards[j]
                /\ i - Len(rewards) \in DOMAIN s /\ rewards'[i] = s[i - Len(rewards)]
      BY <3>4, <3>6, <3>10
    <3> QED BY <3>2, <3>7, <3>8, <3>9, <3>10
  <2>3. CASE overlapped
    BY <2>3 DEF ScoredOnce
  <2> QED BY <1>4, <2>1, <2>2, <2>3
<1>13. Rebuilt(dataset, landed, outcomes)'
  BY DEF LabelsInv
<1> QED BY <1>8, <1>9, <1>10, <1>11, <1>12, <1>13 DEF LabelsInv

LEMMA LabelsStep == LabelsInv /\ [Next]_vars => LabelsInv'
<1> SUFFICES ASSUME LabelsInv, [Next]_vars PROVE LabelsInv'
  OBVIOUS
<1>1. CASE Tick \/ UNCHANGED vars
  BY <1>1, TickStep
<1>2. CASE \E e \in Episodes : LandEpisode(e)
  BY <1>2, LandEpisodeStep
<1>3. CASE \E o \in Posted : LandOutcome(o)
  BY <1>3, LandOutcomeStep
<1>4. CASE \E asOf \in 0 .. now, attribution \in {"last_touch", "all"} : RunJoin(asOf, attribution)
  BY <1>4, RunJoinStep
<1>5. CASE \E c \in Commands, v \in Range(Versions), asOf \in 0 .. now : ScoreStart(c, v, asOf)
  BY <1>5, ScoreStartStep
<1>6. CASE \E c \in Commands : ScoreWrite(c) \/ ScoreFails(c)
  <2>1. PICK c \in Commands : ScoreWrite(c) \/ ScoreFails(c)
    BY <1>6
  <2>2. /\ cmd[c].runs /\ Idle(c)
        /\ UNCHANGED <<now, landed, outcomes, runs, dataset, reads, stale, overlapped>>
        /\ rewards' = rewards \/ rewards' = rewards \o SetToSeq(cmd[c].out)
    BY <2>1 DEF ScoreWrite, ScoreFails
  <2> QED BY <2>2, EndStep
<1> QED BY <1>1, <1>2, <1>3, <1>4, <1>5, <1>6 DEF Next

(* Of every reward, written or about to be, the lake still gives the final label it was scored
   from, unless that read was stale; what a command holds is new, and what a join returned it
   would return again (cmdScore, join.Run). *)
THEOREM LabelsInvariant == Spec => []LabelsInv
BY LabelsInit, LabelsStep, PTL DEF Spec

-----------------------------------------------------------------------------
(* One pass over the rewards finds the last word on an episode. *)

LEMMA GreatestPosition ==
    ASSUME NEW n \in Nat, NEW s \in SUBSET (1 .. n), s # {}
    PROVE  Max(s) \in s /\ \A i \in s : i <= Max(s)
<1> DEFINE T == {n - i : i \in s}
<1>1. T \in SUBSET Nat
  OBVIOUS
<1>0. T # {}
  OBVIOUS
<1>2. PICK x \in T : \A y \in T : x <= y
  BY <1>0, <1>1, Least
<1>3. PICK m \in s : x = n - m
  BY <1>2
<1>4. ASSUME NEW i \in s PROVE m >= i
  <2>1. n - m <= n - i
    BY <1>2, <1>3
  <2> QED BY <2>1
<1>5. \E y \in s : \A i \in s : y >= i
  BY <1>4
<1>6. Max(s) \in s /\ \A i \in s : Max(s) >= i
  BY <1>5 DEF Max
<1> QED BY <1>6

(* The value after the first k rewards. *)
Best(rs, id, best) ==
    /\ best[0] = <<>>
    /\ \A k \in DOMAIN rs :
         best[k] = IF rs[k].id = id /\ (best[k - 1] = <<>> \/ Newer(rs[k], best[k - 1][1]))
                   THEN <<rs[k]>> ELSE best[k - 1]

LEMMA OnePass ==
    ASSUME NEW rs, IsSeq(rs), NEW id
    PROVE  \E best : Best(rs, id, best) /\ LatestReward(rs, id) = best[Len(rs)]
<1>1. PICK n \in Nat : n = Len(rs) /\ DOMAIN rs = 1 .. n
  BY SeqShape
<1> DEFINE S == 1 .. n
           V == {<<>>} \cup {<<rs[i]>> : i \in S}
           F == [p \in S \X V |->
                   IF rs[p[1]].id = id /\ (p[2] = <<>> \/ Newer(rs[p[1]], p[2][1]))
                   THEN <<rs[p[1]]>> ELSE p[2]]
           ch == [s \in SUBSET S |-> Max(s)]
<1>2. IsFiniteSet(S)
  BY FS_Interval
<1>3. F \in [S \X V -> V] /\ <<>> \in V
  OBVIOUS
<1>4. \A s \in SUBSET S : s # {} => ch[s] \in s
  BY GreatestPosition
<1> HIDE DEF F, ch, V
<1>5. PICK g \in [SUBSET S -> V] : IsFold(g, SUBSET S, <<>>, F, ch)
  BY <1>2, <1>3, <1>4, FoldExists
<1>6. ASSUME NEW s \in SUBSET S
      PROVE  g[s] = IF s = {} THEN <<>>
                    ELSE IF rs[Max(s)].id = id
                              /\ (g[s \ {Max(s)}] = <<>> \/ Newer(rs[Max(s)], g[s \ {Max(s)}][1]))
                         THEN <<rs[Max(s)]>> ELSE g[s \ {Max(s)}]
  <2>1. CASE s = {}
    BY <1>5, <2>1 DEF IsFold
  <2>2. CASE s # {}
    <3>1. g[s] = F[<<ch[s], g[s \ {ch[s]}]>>]
      BY <1>5, <2>2 DEF IsFold
    <3>2. ch[s] = Max(s)
      BY DEF ch
    <3>3. PICK m \in S : m = Max(s)
      BY <2>2, GreatestPosition
    <3>4. PICK y \in V : y = g[s \ {m}]
      OBVIOUS
    <3>5. <<m, y>> \in S \X V
      OBVIOUS
    <3>6. F[<<m, y>>] = IF rs[m].id = id /\ (y = <<>> \/ Newer(rs[m], y[1])) THEN <<rs[m]>> ELSE y
      BY <3>5 DEF F
    <3> QED BY <2>2, <3>1, <3>2, <3>3, <3>4, <3>6
  <2> QED BY <2>1, <2>2
<1> DEFINE Passes(h) == h = [s \in SUBSET DOMAIN rs |->
             IF s = {} THEN <<>>
             ELSE IF rs[Max(s)].id = id
                       /\ (h[s \ {Max(s)}] = <<>> \/ Newer(rs[Max(s)], h[s \ {Max(s)}][1]))
                  THEN <<rs[Max(s)]>> ELSE h[s \ {Max(s)}]]
<1>7. Passes(g)
  BY <1>1, <1>6
<1>8. PICK h : h = CHOOSE k : Passes(k)
  OBVIOUS
<1>9. LatestReward(rs, id) = h[DOMAIN rs]
  BY <1>8, Zenon DEF LatestReward, FoldLeft, MapThenFoldSet
<1> HIDE DEF Passes
<1>10. Passes(h)
  BY <1>7, <1>8
<1> DEFINE best == [k \in 0 .. n |-> h[1 .. k]]
<1>11. best[0] = <<>>
  BY <1>1, <1>10 DEF Passes
<1>12. ASSUME NEW k \in 1 .. n
       PROVE  best[k] = IF rs[k].id = id /\ (best[k - 1] = <<>> \/ Newer(rs[k], best[k - 1][1]))
                        THEN <<rs[k]>> ELSE best[k - 1]
  <2>1. PICK s \in SUBSET (1 .. n) : s = 1 .. k
    OBVIOUS
  <2>2. s # {} /\ k \in s /\ k - 1 \in 0 .. n /\ k \in 0 .. n
    BY <2>1
  <2>3. Max(s) = k
    <3>1. Max(s) \in s /\ \A i \in s : i <= Max(s)
      BY <2>2, GreatestPosition
    <3>2. PICK m \in 1 .. n : m = Max(s)
      BY <3>1
    <3>3. m \in 1 .. k /\ k <= m
      BY <2>1, <2>2, <3>1, <3>2
    <3> QED BY <3>2, <3>3
  <2>4. s \ {k} = 1 .. k - 1
    BY <2>1
  <2>5. h[s] = IF rs[Max(s)].id = id
                    /\ (h[s \ {Max(s)}] = <<>> \/ Newer(rs[Max(s)], h[s \ {Max(s)}][1]))
               THEN <<rs[Max(s)]>> ELSE h[s \ {Max(s)}]
    BY <1>1, <1>10, <2>2 DEF Passes
  <2>6. best[k] = h[s] /\ best[k - 1] = h[s \ {k}]
    BY <2>1, <2>2, <2>4
  <2> HIDE DEF best
  <2> QED BY <2>3, <2>5, <2>6
<1>13. LatestReward(rs, id) = best[Len(rs)]
  BY <1>1, <1>9
<1> HIDE DEF best
<1>14. Best(rs, id, best)
  BY <1>1, <1>11, <1>12 DEF Best
<1> QED BY <1>13, <1>14

LEMMA RankIs ==
    ASSUME NEW v \in Range(Versions)
    PROVE  Rank(v) \in DOMAIN Versions /\ Rank(v) \in Nat /\ Versions[Rank(v)] = v
<1>1. \E i \in DOMAIN Versions : Versions[i] = v
  BY DEF Range
<1>2. Rank(v) \in DOMAIN Versions /\ Versions[Rank(v)] = v
  BY <1>1 DEF Rank
<1>3. DOMAIN Versions \subseteq Nat
  BY LabelsAssumption
<1> QED BY <1>2, <1>3

LEMMA NewerTransitive ==
    ASSUME NEW q, NEW r, NEW s, Newer(q, r), Newer(r, s),
           q.version \in Range(Versions), r.version \in Range(Versions), s.version \in Range(Versions),
           q.at \in Nat, r.at \in Nat, s.at \in Nat
    PROVE  Newer(q, s)
<1>1. Rank(q.version) \in Nat /\ Rank(r.version) \in Nat /\ Rank(s.version) \in Nat
  BY RankIs
<1>2. q.version = r.version => Rank(q.version) = Rank(r.version)
  OBVIOUS
<1>3. r.version = s.version => Rank(r.version) = Rank(s.version)
  OBVIOUS
<1> QED BY <1>1, <1>2, <1>3 DEF Newer

(* The last word on an episode among the first k rewards. *)
LastWord(rs, id, k, b) ==
    \/ b = <<>> /\ \A i \in 1 .. k : rs[i].id # id
    \/ \E m \in 1 .. k :
         /\ b = <<rs[m]>> /\ rs[m].id = id
         /\ \A i \in 1 .. k : rs[i].id = id => ~Newer(rs[i], rs[m])

LEMMA LatestIsLastWord ==
    ASSUME NEW rs, IsSeq(rs), NEW id,
           \A r \in Range(rs) : r.version \in Range(Versions) /\ r.at \in Nat
    PROVE  LastWord(rs, id, Len(rs), LatestReward(rs, id))
<1>1. PICK n \in Nat : n = Len(rs) /\ DOMAIN rs = 1 .. n
  BY SeqShape
<1>2. PICK best : Best(rs, id, best) /\ LatestReward(rs, id) = best[n]
  BY <1>1, OnePass
<1> DEFINE Bad == {k \in 0 .. n : ~LastWord(rs, id, k, best[k])}
<1>3. Bad = {}
  <2> SUFFICES ASSUME Bad # {} PROVE FALSE
    OBVIOUS
  <2>0. Bad \in SUBSET Nat
    OBVIOUS
  <2>1. PICK k \in Bad : \A l \in Bad : k <= l
    <3> HIDE DEF Bad
    <3> QED BY <2>0, Least
  <2>2. k \in 0 .. n /\ ~LastWord(rs, id, k, best[k])
    BY <2>1
  <2>3. k # 0
    <3>1. LastWord(rs, id, 0, <<>>)
      BY DEF LastWord
    <3> QED BY <1>2, <2>2, <3>1 DEF Best
  <2>4. k \in 1 .. n /\ k - 1 \in 0 .. n /\ k - 1 \notin Bad
    <3> HIDE DEF Bad
    <3> QED BY <2>1, <2>2, <2>3
  <2>5. LastWord(rs, id, k - 1, best[k - 1])
    BY <2>4
  <2>6. best[k] = IF rs[k].id = id /\ (best[k - 1] = <<>> \/ Newer(rs[k], best[k - 1][1]))
                  THEN <<rs[k]>> ELSE best[k - 1]
    BY <1>1, <1>2, <2>4 DEF Best
  <2>7. \A i \in 1 .. k : i \in 1 .. k - 1 \/ i = k
    BY <2>4
  <2>8. \A i \in 1 .. k : rs[i].version \in Range(Versions) /\ rs[i].at \in Nat
    BY <1>1, <2>4 DEF Range
  <2>9. Rank(rs[k].version) \in Nat /\ ~Newer(rs[k], rs[k])
    <3>1. rs[k].version \in Range(Versions) /\ rs[k].at \in Nat
      BY <2>4, <2>8
    <3>2. \E i \in DOMAIN Versions : Versions[i] = rs[k].version
      BY <3>1 DEF Range
    <3>3. Rank(rs[k].version) \in DOMAIN Versions
      BY <3>2 DEF Rank
    <3>4. Rank(rs[k].version) \in Nat
      BY <3>3, LabelsAssumption
    <3> QED BY <3>1, <3>4 DEF Newer
  <2>10. CASE rs[k].id # id
    <3>1. best[k] = best[k - 1]
      BY <2>6, <2>10
    <3> QED BY <2>2, <2>4, <2>5, <2>7, <2>10, <3>1 DEF LastWord
  <2>11. CASE rs[k].id = id /\ best[k - 1] = <<>>
    <3>1. best[k] = <<rs[k]>>
      BY <2>6, <2>11
    <3>2. \A i \in 1 .. k - 1 : rs[i].id # id
      BY <2>5, <2>11 DEF LastWord
    <3>3. \A i \in 1 .. k : rs[i].id = id => ~Newer(rs[i], rs[k])
      BY <2>7, <2>9, <3>2
    <3> QED BY <2>2, <2>4, <2>11, <3>1, <3>3 DEF LastWord
  <2>12. CASE rs[k].id = id /\ best[k - 1] # <<>>
    <3>1. PICK m \in 1 .. k - 1 :
            /\ best[k - 1] = <<rs[m]>> /\ rs[m].id = id
            /\ \A i \in 1 .. k - 1 : rs[i].id = id => ~Newer(rs[i], rs[m])
      BY <2>5, <2>12 DEF LastWord
    <3>2. best[k - 1][1] = rs[m] /\ m \in 1 .. k
      BY <2>4, <3>1
    <3>3. CASE Newer(rs[k], rs[m])
      <4>1. best[k] = <<rs[k]>>
        BY <2>6, <2>12, <3>2, <3>3
      <4>2. ASSUME NEW i \in 1 .. k, rs[i].id = id, Newer(rs[i], rs[k]) PROVE FALSE
        <5>1. i \in 1 .. k - 1
          BY <2>7, <2>9, <4>2
        <5>2. rs[i].version \in Range(Versions) /\ rs[k].version \in Range(Versions)
              /\ rs[m].version \in Range(Versions)
              /\ rs[i].at \in Nat /\ rs[k].at \in Nat /\ rs[m].at \in Nat
          BY <2>4, <2>8, <3>2
        <5>3. Newer(rs[i], rs[m])
          BY <3>3, <4>2, <5>2, NewerTransitive
        <5> QED BY <3>1, <4>2, <5>1, <5>3
      <4> QED BY <2>2, <2>4, <2>12, <4>1, <4>2 DEF LastWord
    <3>4. CASE ~Newer(rs[k], rs[m])
      <4>1. best[k] = <<rs[m]>>
        BY <2>6, <2>12, <3>1, <3>2, <3>4
      <4>2. \A i \in 1 .. k : rs[i].id = id => ~Newer(rs[i], rs[m])
        BY <2>7, <3>1, <3>4
      <4> QED BY <2>2, <3>1, <3>2, <4>1, <4>2 DEF LastWord
    <3> QED BY <3>3, <3>4
  <2> QED BY <2>10, <2>11, <2>12
<1>4. LastWord(rs, id, n, best[n])
  BY <1>3
<1> QED BY <1>1, <1>2, <1>4

-----------------------------------------------------------------------------
(* The theorems. *)

(* A fixed -as-of rebuilds a dataset exactly (outcomejoin.go): whatever episodes and outcomes
   land later, a join as of the same time gives each episode the label it had, as long as
   nothing lands that was known by then. *)
THEOREM RebuildTheorem == Spec => []RebuildIsExact
<1>1. LabelsInv => RebuildIsExact
  <2> SUFFICES ASSUME LabelsInv, dataset # <<>>, dataset[1].complete,
                      NEW l \in Join(landed, outcomes, dataset[1].asOf, dataset[1].by),
                      NEW d \in dataset[1].labels, l.id = d.id
               PROVE  l = d
    BY DEF RebuildIsExact
  <2>1. PICK e \in landed : d = Label(landed, outcomes, e, dataset[1].asOf, dataset[1].by)
    BY DEF LabelsInv, Rebuilt
  <2>2. PICK f \in landed : l = Label(landed, outcomes, f, dataset[1].asOf, dataset[1].by)
    BY DEF Join
  <2>3. d.id = e.id /\ l.id = f.id
    BY <2>1, <2>2 DEF Label
  <2>4. e = f
    BY <2>3, LabelsAssumption DEF LabelsInv, LabelsType
  <2> QED BY <2>1, <2>2, <2>4
<1> QED BY <1>1, LabelsInvariant, PTL

(* With require_final, scoring again never gives another answer (cmdScore): a reward given by
   a read that knew all that had happened is the one the episode would get at any later time. *)
THEOREM RewardTheorem == Spec => []RewardStaysTrue
<1>1. LabelsInv => RewardStaysTrue
  <2> SUFFICES ASSUME LabelsInv, NEW r \in Range(rewards),
                      NEW l \in Join(landed, outcomes, now, "last_touch"), l.id = r.id, r.at \notin stale
               PROVE  Score(r.version, l) = r.reward
    BY DEF RewardStaysTrue
  <2>1. Founded(r)
    BY DEF LabelsInv, FoundedInv
  <2>2. PICK e \in landed :
          /\ e.id = r.id /\ LabelStatus(e, r.at) = "final"
          /\ Score(r.version, Label(landed, outcomes, e, r.at, "last_touch")) = r.reward
    BY <2>1 DEF Founded
  <2>3. PICK f \in landed : l = Label(landed, outcomes, f, now, "last_touch")
    BY DEF Join
  <2>4. l.id = f.id
    BY <2>3 DEF Label
  <2>5. e = f /\ e \in Episodes /\ landed \in SUBSET Episodes /\ outcomes \in SUBSET Posted /\ now \in Nat
    BY <2>2, <2>4, LabelsAssumption DEF LabelsInv, LabelsType
  <2>6. PICK t \in Nat : t = r.at
    BY <2>1 DEF Founded, LabelsInv, LabelsType
  <2>7. t \in reads \ stale /\ t <= now
    BY <2>1, <2>6 DEF Founded, LabelsInv, LabelsType
  <2>8. e.keys # {} /\ t >= HorizonClosesAt(e)
    BY <2>2, <2>6 DEF LabelStatus
  <2>9. HorizonClosesAt(e) \in Nat
    BY <2>5, ClosesLater
  <2>10. HorizonClosesAt(e) <= t /\ now >= HorizonClosesAt(e)
    BY <2>5, <2>7, <2>8, <2>9
  <2>11. LabelStatus(e, now) = LabelStatus(e, t)
    BY <2>8, <2>10 DEF LabelStatus
  <2>12. \A o \in outcomes : o.occurred <= t => o.observed <= t
    BY <2>7 DEF LabelsInv, KnownInv
  <2>13. Attributed(landed, outcomes, e, now, "last_touch") = Attributed(landed, outcomes, e, t, "last_touch")
    BY <2>5, <2>7, <2>10, <2>12, FinalSame
  <2>14. Label(landed, outcomes, e, now, "last_touch") = Label(landed, outcomes, e, t, "last_touch")
    BY <2>11, <2>13, LabelSame
  <2> QED BY <2>2, <2>3, <2>5, <2>6, <2>14
<1> QED BY <1>1, LabelsInvariant, PTL

(* Each version of a scorer scores an episode once, over any number of runs of cc score that
   fail or follow each other (cmdScore's "already" set), unless two of them overlap. *)
THEOREM ScoredOnceTheorem == Spec => []ScoredOnce
BY LabelsInvariant, PTL DEF LabelsInv

(* A preference pair prefers the episode with the higher reward, that of each being the last
   word of the highest version that has scored it (latestRewards, FormatPreference), in
   whatever order the rewards are read; the two are of different versions only where no
   version as high as both has scored both. *)
THEOREM ExportTheorem == Spec => []ExportPrefersHigher
<1>1. LabelsInv => ExportPrefersHigher
  <2> SUFFICES ASSUME LabelsInv PROVE ExportPrefersHigher
    OBVIOUS
  <2>1. PICK sel : sel = Selected(Join(landed, outcomes, now, "last_touch"), rewards)
    OBVIOUS
  <2>2. IsSeq(rewards) /\ \A r \in Range(rewards) : r.version \in Range(Versions) /\ r.at \in Nat
    BY DEF LabelsInv, LabelsType, FoundedInv, Founded
  <2>3. ASSUME NEW x \in sel
        PROVE  \E c \in Range(rewards) :
                 c.id = x.label.id /\ c.reward = x.reward /\ IsLastWord(c)
    <3>1. PICK l : LatestReward(rewards, l.id) # <<>>
                   /\ x = [label |-> l, reward |-> LatestReward(rewards, l.id)[1].reward]
      BY <2>1 DEF Selected
    <3>2. LastWord(rewards, l.id, Len(rewards), LatestReward(rewards, l.id))
      BY <2>2, LatestIsLastWord
    <3>3. PICK m \in 1 .. Len(rewards) :
            /\ LatestReward(rewards, l.id) = <<rewards[m]>> /\ rewards[m].id = l.id
            /\ \A i \in 1 .. Len(rewards) : rewards[i].id = l.id => ~Newer(rewards[i], rewards[m])
      BY <3>1, <3>2 DEF LastWord
    <3>4. DOMAIN rewards = 1 .. Len(rewards)
      BY <2>2, SeqShape
    <3>5. PICK c \in Range(rewards) : c = rewards[m]
      BY <3>4 DEF Range
    <3>6. LatestReward(rewards, l.id)[1] = c
      BY <3>3, <3>5
    <3>7. x.label = l /\ x.reward = c.reward
      BY <3>1, <3>6
    <3>8. IsLastWord(c)
      BY <3>3, <3>4, <3>5 DEF Range, IsLastWord
    <3> QED BY <3>3, <3>5, <3>7, <3>8
  <2>4. SUFFICES ASSUME NEW p \in Pairs(sel)
                 PROVE  \E c, d \in Range(rewards) :
                          /\ c.id = p.chosen.label.id /\ d.id = p.rejected.label.id
                          /\ IsLastWord(c) /\ IsLastWord(d)
                          /\ c.reward > d.reward
                          /\ c.version # d.version =>
                               \A r, s \in Range(rewards) :
                                   r.id = c.id /\ s.id = d.id /\ r.version = s.version =>
                                       \/ Rank(r.version) < Rank(c.version)
                                       \/ Rank(r.version) < Rank(d.version)
    BY <2>1 DEF ExportPrefersHigher
  <2>5. PICK x \in sel, y \in sel :
          /\ p = [chosen |-> x, rejected |-> y] /\ x.reward # y.reward
          /\ y = x \/ Better(x, y)
    <3>1. PICK k \in sel \X sel :
            /\ p = [chosen |-> k[1], rejected |-> k[2]] /\ k[1].label.group = k[2].label.group
            /\ \A z \in sel : z.label.group = k[1].label.group =>
                 (z = k[1] \/ Better(k[1], z)) /\ (z = k[2] \/ Better(z, k[2]))
            /\ k[1].reward # k[2].reward
      BY <2>4 DEF Pairs
    <3>2. PICK x \in sel, y \in sel : k = <<x, y>>
      BY <3>1
    <3>3. k[1] = x /\ k[2] = y
      BY <3>2
    <3> QED BY <3>1, <3>3
  <2>6. x.reward > y.reward
    BY <2>5 DEF Better
  <2>7. p.chosen = x /\ p.rejected = y
    BY <2>5
  <2>8. PICK c \in Range(rewards) :
          c.id = x.label.id /\ c.reward = x.reward /\ IsLastWord(c)
    BY <2>3
  <2>9. PICK d \in Range(rewards) :
          d.id = y.label.id /\ d.reward = y.reward /\ IsLastWord(d)
    BY <2>3
  <2>10. ASSUME c.version # d.version,
                NEW r \in Range(rewards), NEW s \in Range(rewards),
                r.id = c.id, s.id = d.id, r.version = s.version
         PROVE  Rank(r.version) < Rank(c.version) \/ Rank(r.version) < Rank(d.version)
    <3>1. /\ r.version \in Range(Versions) /\ c.version \in Range(Versions)
          /\ d.version \in Range(Versions)
      BY <2>2
    <3>2. /\ Rank(r.version) \in Nat /\ Rank(c.version) \in Nat /\ Rank(d.version) \in Nat
          /\ Versions[Rank(c.version)] = c.version /\ Versions[Rank(d.version)] = d.version
      BY <3>1, RankIs
    <3>3. Rank(c.version) # Rank(d.version)
      BY <2>10, <3>2
    <3>4. ~(Rank(r.version) > Rank(c.version)) /\ ~(Rank(r.version) > Rank(d.version))
      BY <2>8, <2>9, <2>10 DEF IsLastWord, Newer
    <3> QED BY <3>2, <3>3, <3>4
  <2> QED BY <2>6, <2>7, <2>8, <2>9, <2>10
<1> QED BY <1>1, LabelsInvariant, PTL
=============================================================================
