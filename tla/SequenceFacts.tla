--------------------------- MODULE SequenceFacts ---------------------------
(***************************************************************************)
(* Facts about sequences, least elements, folds and sums that the proofs   *)
(* of several components rest on.  A sequence is taken as a sequence over  *)
(* its own range, so that no set of possible elements has to be named.     *)
(***************************************************************************)
EXTENDS Integers, Sequences, FiniteSets, Functions, FiniteSetTheorems, SequenceTheorems,
        WellFoundedInduction, NaturalsInduction, TLAPS

IsSeq(s) == s \in Seq(Range(s))

-----------------------------------------------------------------------------
(* What every sequence has. *)

LEMMA SeqShape ==
    ASSUME NEW s, IsSeq(s)
    PROVE  /\ Len(s) \in Nat /\ DOMAIN s = 1 .. Len(s)
           /\ \A i \in DOMAIN s : i \in Nat /\ s[i] \in Range(s)
           /\ s = [i \in DOMAIN s |-> s[i]]
BY DEF IsSeq, Range

LEMMA SeqOfItsRange ==
    ASSUME NEW s, NEW S, s \in Seq(S)
    PROVE  IsSeq(s)
<1>1. DOMAIN s = 1 .. Len(s) /\ Len(s) \in Nat /\ s = [i \in 1 .. Len(s) |-> s[i]]
  OBVIOUS
<1>2. \A i \in 1 .. Len(s) : s[i] \in Range(s)
  BY <1>1 DEF Range
<1> QED BY <1>1, <1>2 DEF IsSeq

LEMMA NoneSeq == IsSeq(<<>>) /\ Range(<<>>) = {}
<1>1. <<>> \in Seq({})
  OBVIOUS
<1>2. Range(<<>>) = {}
  BY DEF Range
<1> QED BY <1>1, <1>2, SeqOfItsRange

LEMMA OneSeq == \A r : IsSeq(<<r>>) /\ Range(<<r>>) = {r}
<1> SUFFICES ASSUME NEW r PROVE IsSeq(<<r>>) /\ Range(<<r>>) = {r}
  OBVIOUS
<1>1. <<r>> \in Seq({r})
  OBVIOUS
<1>2. IsSeq(<<r>>)
  BY <1>1, SeqOfItsRange
<1>3. DOMAIN <<r>> = {1} /\ <<r>>[1] = r
  OBVIOUS
<1>4. Range(<<r>>) = {r}
  BY <1>3 DEF Range
<1> QED BY <1>2, <1>4

(* What is left of a sequence, and what was taken from it. *)
LEMMA HeadAndTail ==
    ASSUME NEW s, IsSeq(s), s # <<>>
    PROVE  IsSeq(Tail(s)) /\ Range(s) = {Head(s)} \cup Range(Tail(s)) /\ Head(s) \in Range(s)
<1>1. Tail(s) \in Seq(Range(s)) /\ Len(s) \in Nat /\ Len(s) > 0 /\ DOMAIN s = 1 .. Len(s)
  BY DEF IsSeq
<1>2. IsSeq(Tail(s))
  BY <1>1, SeqOfItsRange
<1>3. Head(s) = s[1] /\ 1 \in DOMAIN s
  BY <1>1 DEF IsSeq
<1>4. /\ Len(Tail(s)) = Len(s) - 1 /\ DOMAIN Tail(s) = 1 .. Len(s) - 1
      /\ \A i \in 1 .. Len(s) - 1 : Tail(s)[i] = s[i + 1]
  BY <1>1 DEF IsSeq
<1>5. Head(s) \in Range(s)
  BY <1>3 DEF Range
<1>6. Range(Tail(s)) \subseteq Range(s)
  <2> SUFFICES ASSUME NEW i \in DOMAIN Tail(s) PROVE Tail(s)[i] \in Range(s)
    BY DEF Range
  <2>1. i + 1 \in DOMAIN s /\ Tail(s)[i] = s[i + 1]
    BY <1>1, <1>4
  <2> QED BY <2>1 DEF Range
<1>7. ASSUME NEW i \in DOMAIN s PROVE s[i] \in {Head(s)} \cup Range(Tail(s))
  <2>1. CASE i = 1
    BY <2>1, <1>3
  <2>2. CASE i # 1
    <3>1. i - 1 \in DOMAIN Tail(s) /\ Tail(s)[i - 1] = s[i]
      BY <1>1, <1>4, <2>2
    <3> QED BY <3>1 DEF Range
  <2> QED BY <2>1, <2>2
<1>8. Range(s) \subseteq {Head(s)} \cup Range(Tail(s))
  BY <1>7 DEF Range
<1> QED BY <1>2, <1>5, <1>6, <1>8

(* A function on the positions of a sequence is a sequence. *)
LEMMA SeqLike ==
    ASSUME NEW s, IsSeq(s), NEW t, t = [i \in DOMAIN s |-> t[i]]
    PROVE  IsSeq(t) /\ Len(t) = Len(s) /\ DOMAIN t = DOMAIN s
<1>1. Len(s) \in Nat /\ DOMAIN s = 1 .. Len(s)
  BY SeqShape
<1>2. t = [i \in 1 .. Len(s) |-> t[i]] /\ DOMAIN t = 1 .. Len(s)
  BY <1>1
<1>3. \A i \in 1 .. Len(s) : t[i] \in Range(t)
  BY <1>2 DEF Range
<1>4. t \in Seq(Range(t))
  BY <1>1, <1>2, <1>3
<1> QED BY <1>1, <1>2, <1>4 DEF IsSeq

LEMMA Joined ==
    ASSUME NEW s, NEW t, IsSeq(s), IsSeq(t)
    PROVE  /\ IsSeq(s \o t) /\ Len(s \o t) = Len(s) + Len(t)
           /\ Range(s \o t) = Range(s) \cup Range(t)
           /\ \A i \in DOMAIN s : i \in DOMAIN (s \o t) /\ (s \o t)[i] = s[i]
           /\ \A i \in DOMAIN t : i + Len(s) \in DOMAIN (s \o t) /\ (s \o t)[i + Len(s)] = t[i]
           /\ \A i \in DOMAIN (s \o t) :
                i \in DOMAIN s \/ (i - Len(s) \in DOMAIN t /\ (s \o t)[i] = t[i - Len(s)])
<1> DEFINE S == Range(s) \cup Range(t)
<1>1. s \in Seq(S) /\ t \in Seq(S)
  BY DEF IsSeq
<1>2. PICK u : u = s \o t
  OBVIOUS
<1>3. /\ u \in Seq(S) /\ Len(u) = Len(s) + Len(t) /\ DOMAIN u = 1 .. Len(s) + Len(t)
      /\ Len(s) \in Nat /\ Len(t) \in Nat /\ DOMAIN s = 1 .. Len(s) /\ DOMAIN t = 1 .. Len(t)
  BY <1>1, <1>2
<1>4. \A i \in DOMAIN s : i \in DOMAIN u /\ u[i] = s[i]
  BY <1>1, <1>2, <1>3
<1>5. \A i \in DOMAIN t : i + Len(s) \in DOMAIN u /\ u[i + Len(s)] = t[i]
  BY <1>1, <1>2, <1>3
<1>6. \A i \in DOMAIN u : i \in DOMAIN s \/ (i - Len(s) \in DOMAIN t /\ u[i] = t[i - Len(s)])
  BY <1>1, <1>2, <1>3
<1>7. Range(u) = S
  <2>1. ASSUME NEW i \in DOMAIN u PROVE u[i] \in S
    BY <1>3, <2>1
  <2>2. \A i \in DOMAIN s : s[i] \in Range(u)
    BY <1>4 DEF Range
  <2>3. \A i \in DOMAIN t : t[i] \in Range(u)
    BY <1>5 DEF Range
  <2> QED BY <2>1, <2>2, <2>3 DEF Range
<1>8. IsSeq(u)
  BY <1>3, SeqOfItsRange
<1> QED BY <1>2, <1>3, <1>4, <1>5, <1>6, <1>7, <1>8

(* What a sequence is without its first d elements. *)
LEMMA Suffix ==
    ASSUME NEW s, IsSeq(s), NEW d \in 0 .. Len(s)
    PROVE  /\ IsSeq(SubSeq(s, d + 1, Len(s))) /\ Len(SubSeq(s, d + 1, Len(s))) = Len(s) - d
           /\ \A i \in DOMAIN SubSeq(s, d + 1, Len(s)) :
                i + d \in DOMAIN s /\ SubSeq(s, d + 1, Len(s))[i] = s[i + d]
           /\ \A i \in DOMAIN s : i > d =>
                i - d \in DOMAIN SubSeq(s, d + 1, Len(s))
                /\ SubSeq(s, d + 1, Len(s))[i - d] = s[i]
<1>1. Len(s) \in Nat /\ DOMAIN s = 1 .. Len(s) /\ s \in Seq(Range(s))
  BY SeqShape DEF IsSeq
<1>2. PICK u : u = SubSeq(s, d + 1, Len(s))
  OBVIOUS
<1>7. \A i \in d + 1 .. Len(s) : s[i] \in Range(s)
  BY <1>1
<1>8. /\ u \in Seq(Range(s)) /\ Len(u) = IF d + 1 <= Len(s) THEN Len(s) - (d + 1) + 1 ELSE 0
      /\ \A i \in 1 .. Len(s) - (d + 1) + 1 : u[i] = s[d + 1 + i - 1]
  BY <1>1, <1>2, <1>7, SubSeqProperties
<1>3. /\ u \in Seq(Range(s)) /\ Len(u) = Len(s) - d /\ DOMAIN u = 1 .. Len(s) - d
      /\ \A i \in 1 .. Len(s) - d : u[i] = s[i + d]
  <2>1. Len(u) = Len(s) - d
    <3>1. CASE d + 1 <= Len(s)
      BY <1>1, <1>8, <3>1
    <3>2. CASE ~(d + 1 <= Len(s))
      <4>1. Len(u) = 0
        BY <1>8, <3>2
      <4>2. PICK l \in Nat : l = Len(s)
        BY <1>1
      <4>3. d = l
        BY <3>2, <4>2
      <4> QED BY <4>1, <4>2, <4>3
    <3> QED BY <3>1, <3>2
  <2>2. DOMAIN u = 1 .. Len(s) - d
    BY <1>8, <2>1
  <2>3. ASSUME NEW i \in 1 .. Len(s) - d PROVE u[i] = s[i + d]
    <3>1. i \in 1 .. Len(s) - (d + 1) + 1 /\ d + 1 + i - 1 = i + d
      BY <1>1
    <3> QED BY <3>1, <1>8
  <2> QED BY <1>8, <2>1, <2>2, <2>3
<1>4. IsSeq(u)
  BY <1>3, SeqOfItsRange
<1>5. \A i \in DOMAIN u : i + d \in DOMAIN s /\ u[i] = s[i + d]
  BY <1>1, <1>3
<1>6. ASSUME NEW i \in DOMAIN s, i > d PROVE i - d \in DOMAIN u /\ u[i - d] = s[i]
  BY <1>1, <1>3, <1>6
<1> QED BY <1>2, <1>3, <1>4, <1>5, <1>6

-----------------------------------------------------------------------------
(* Least elements, and the increasing enumeration of a set of positions. *)

LEMMA Least ==
    ASSUME NEW S \in SUBSET Nat, S # {}
    PROVE  \E x \in S : \A y \in S : x <= y
<1>1. IsWellFoundedOn({p \in Nat \X Nat : p[1] < p[2]}, Nat)
  BY NatLessThanWellFounded DEF OpToRel
<1>2. PICK x \in S : \A y \in S : <<y, x>> \notin {p \in Nat \X Nat : p[1] < p[2]}
  BY <1>1, WFMin
<1>3. \A a, b \in Nat : <<a, b>> \in {p \in Nat \X Nat : p[1] < p[2]} <=> a < b
  OBVIOUS
<1>4. \A y \in S : ~(y < x)
  BY <1>2, <1>3
<1> QED BY <1>4

Increasing(f) == \A i, j \in DOMAIN f : i < j => f[i] < f[j]

Enumerable(D) == \E f \in [1 .. Cardinality(D) -> D] : Increasing(f)

LEMMA PositionsAreFinite ==
    ASSUME NEW n \in Nat, NEW D \in SUBSET (1 .. n)
    PROVE  IsFiniteSet(D) /\ Cardinality(D) \in Nat /\ Cardinality(D) <= n
<1>1. IsFiniteSet(1 .. n) /\ Cardinality(1 .. n) = IF 1 > n THEN 0 ELSE n - 1 + 1
  BY FS_Interval
<1>2. Cardinality(1 .. n) = n
  BY <1>1
<1>3. IsFiniteSet(D) /\ Cardinality(D) <= Cardinality(1 .. n)
  BY <1>1, FS_Subset
<1>4. Cardinality(D) \in Nat
  BY <1>3, FS_CardinalityType
<1> QED BY <1>2, <1>3, <1>4

LEMMA OneMoreEnumerated ==
    ASSUME NEW n \in Nat, NEW D \in SUBSET (1 .. n), Enumerable(D)
    PROVE  Enumerable(D \cup {n + 1})
<1>1. IsFiniteSet(D) /\ Cardinality(D) \in Nat
  BY PositionsAreFinite
<1>2. n + 1 \notin D
  OBVIOUS
<1>3. Cardinality(D \cup {n + 1}) = Cardinality(D) + 1
  BY <1>1, <1>2, FS_AddElement
<1>4. PICK f \in [1 .. Cardinality(D) -> D] : Increasing(f)
  BY DEF Enumerable
<1>5. PICK c \in Nat : c = Cardinality(D)
  BY <1>1
<1> DEFINE g == [i \in 1 .. c + 1 |-> IF i <= c THEN f[i] ELSE n + 1]
<1>6. g \in [1 .. c + 1 -> D \cup {n + 1}]
  BY <1>4, <1>5
<1>8. \A x \in D : x \in Int /\ x <= n
  OBVIOUS
<1>7. Increasing(g)
  <2> SUFFICES ASSUME NEW i \in 1 .. c + 1, NEW j \in 1 .. c + 1, i < j PROVE g[i] < g[j]
    BY DEF Increasing
  <2>1. i <= c /\ g[i] = f[i] /\ f[i] \in D /\ f[i] \in Int /\ f[i] <= n
    <3>1. i <= c /\ i \in 1 .. c
      OBVIOUS
    <3>2. g[i] = f[i] /\ f[i] \in D
      BY <3>1, <1>4, <1>5
    <3> QED BY <3>1, <3>2, <1>8
  <2>2. CASE j <= c
    BY <2>1, <2>2, <1>4, <1>5 DEF Increasing
  <2>3. CASE ~(j <= c)
    BY <2>1, <2>3
  <2> QED BY <2>2, <2>3
<1> QED BY <1>3, <1>5, <1>6, <1>7 DEF Enumerable

LEMMA Enumerated ==
    ASSUME NEW n \in Nat, NEW D \in SUBSET (1 .. n)
    PROVE  Enumerable(D)
<1> DEFINE Bad == {k \in Nat : \E E \in SUBSET (1 .. k) : ~Enumerable(E)}
<1>1. SUFFICES ASSUME Bad # {} PROVE FALSE
  OBVIOUS
<1>2. PICK k \in Bad : \A l \in Bad : k <= l
  BY <1>1, Least
<1>3. PICK E \in SUBSET (1 .. k) : ~Enumerable(E)
  BY <1>2
<1>4. CASE k = 0
  <2>1. E = {}
    BY <1>3, <1>4
  <2> HIDE DEF Bad
  <2>5. Cardinality(E) = 0
    BY <2>1, FS_EmptySet
  <2>2. PICK f : f = [i \in 1 .. 0 |-> 0]
    OBVIOUS
  <2>3. f \in [1 .. 0 -> E] /\ DOMAIN f = {}
    BY <2>2
  <2>4. Increasing(f)
    BY <2>3 DEF Increasing
  <2> QED BY <2>5, <2>3, <2>4, <1>3 DEF Enumerable
<1>5. CASE k # 0
  <2>1. k - 1 \in Nat /\ k - 1 \notin Bad /\ (k - 1) + 1 = k
    BY <1>2, <1>5
  <2>2. E \ {k} \in SUBSET (1 .. k - 1)
    BY <1>3, <1>2
  <2>3. Enumerable(E \ {k})
    BY <2>1, <2>2
  <2>4. CASE k \in E
    <3>1. (E \ {k}) \cup {k} = E
      BY <2>4
    <3> QED BY <3>1, <2>1, <2>2, <2>3, <1>3, OneMoreEnumerated
  <2>5. CASE k \notin E
    <3>1. E \ {k} = E
      BY <2>5
    <3> QED BY <3>1, <2>3, <1>3
  <2> QED BY <2>4, <2>5
<1> QED BY <1>4, <1>5

(* An increasing enumeration reaches every position once. *)
LEMMA EnumerationIsWhole ==
    ASSUME NEW n \in Nat, NEW D \in SUBSET (1 .. n),
           NEW f \in [1 .. Cardinality(D) -> D], Increasing(f)
    PROVE  /\ Cardinality(D) \in Nat /\ Cardinality(D) <= n
           /\ \A i, j \in DOMAIN f : f[i] = f[j] => i = j
           /\ \A d \in D : \E i \in DOMAIN f : f[i] = d
<1>1. IsFiniteSet(D) /\ Cardinality(D) \in Nat /\ Cardinality(D) <= n
  BY PositionsAreFinite
<1>6. \A x \in D : x \in Int
  OBVIOUS
<1>2. ASSUME NEW i \in DOMAIN f, NEW j \in DOMAIN f, f[i] = f[j] PROVE i = j
  <2>1. f[i] \in D /\ f[j] \in D /\ i \in 1 .. Cardinality(D) /\ j \in 1 .. Cardinality(D)
    OBVIOUS
  <2>2. f[i] \in Int /\ f[j] \in Int /\ i \in Int /\ j \in Int
    <3>1. f[i] \in Int /\ f[j] \in Int
      BY <2>1, <1>6
    <3>2. PICK c \in Nat : c = Cardinality(D)
      BY <1>1
    <3> QED BY <2>1, <3>1, <3>2
  <2> QED BY <2>2, <1>2 DEF Increasing
<1>3. f \in Injection(1 .. Cardinality(D), D)
  BY <1>2 DEF Injection, IsInjective
<1>4. Cardinality(1 .. Cardinality(D)) = Cardinality(D)
  <2>1. PICK c \in Nat : c = Cardinality(D)
    BY <1>1
  <2>2. Cardinality(1 .. c) = IF 1 > c THEN 0 ELSE c - 1 + 1
    BY FS_Interval
  <2>3. Cardinality(1 .. c) = c
    BY <2>2
  <2> QED BY <2>1, <2>3
<1>5. f \in Surjection(1 .. Cardinality(D), D)
  BY <1>1, <1>3, <1>4, FS_Injection
<1> QED BY <1>1, <1>2, <1>5 DEF Surjection

-----------------------------------------------------------------------------
(* A fold over a finite set exists: what the recursive function of the community module Folds
   is, for a step that is given as a function. *)

IsFold(g, G, base, F, ch) ==
    \A s \in G : g[s] = IF s = {} THEN base ELSE F[<<ch[s], g[s \ {ch[s]}]>>]

LEMMA FoldExists ==
    ASSUME NEW S, IsFiniteSet(S), NEW V, NEW base \in V, NEW F \in [S \X V -> V],
           NEW ch, \A s \in SUBSET S : s # {} => ch[s] \in s
    PROVE  \E g \in [SUBSET S -> V] : IsFold(g, SUBSET S, base, F, ch)
<1> DEFINE G(n) == {s \in SUBSET S : Cardinality(s) <= n}
           Bad == {n \in Nat : ~\E g \in [G(n) -> V] : IsFold(g, G(n), base, F, ch)}
<1>0. \A s \in SUBSET S : IsFiniteSet(s) /\ Cardinality(s) \in Nat /\ Cardinality(s) <= Cardinality(S)
  BY FS_Subset, FS_CardinalityType
<1>1. \A s \in SUBSET S : s # {} => Cardinality(s \ {ch[s]}) = Cardinality(s) - 1
  BY <1>0, FS_RemoveElement
<1>2. \A s \in SUBSET S : Cardinality(s) <= 0 => s = {}
  BY <1>0, FS_EmptySet
<1>3. Bad = {}
  <2> SUFFICES ASSUME Bad # {} PROVE FALSE
    OBVIOUS
  <2>1. PICK n \in Bad : \A m \in Bad : n <= m
    BY Least
  <2>2. CASE n = 0
    <3> DEFINE g == [s \in G(0) |-> base]
    <3>1. g \in [G(0) -> V]
      OBVIOUS
    <3>2. \A s \in G(0) : s = {} /\ g[s] = base
      BY <1>2
    <3> HIDE DEF g
    <3>3. IsFold(g, G(0), base, F, ch)
      BY <3>2 DEF IsFold
    <3> QED BY <2>1, <2>2, <3>1, <3>3
  <2>3. CASE n # 0
    <3>1. n \in Nat /\ n - 1 \in Nat /\ n - 1 \notin Bad
      <4>1. n \in Nat
        BY <2>1
      <4> HIDE DEF Bad
      <4> QED BY <2>1, <2>3, <4>1
    <3>2. PICK g \in [G(n - 1) -> V] : IsFold(g, G(n - 1), base, F, ch)
      BY <3>1
    <3> DEFINE h == [s \in G(n) |-> IF s = {} THEN base ELSE F[<<ch[s], g[s \ {ch[s]}]>>]]
    <3>3. ASSUME NEW s \in G(n), s # {}
          PROVE  ch[s] \in S /\ s \ {ch[s]} \in G(n - 1) /\ s \ {ch[s]} \in G(n)
      BY <1>0, <1>1, <3>1, <3>3
    <3>4. h \in [G(n) -> V]
      BY <3>2, <3>3
    <3>5. \A s \in G(n - 1) : s \in G(n) /\ h[s] = g[s]
      BY <1>0, <3>1, <3>2 DEF IsFold
    <3>6. IsFold(h, G(n), base, F, ch)
      BY <3>3, <3>5 DEF IsFold
    <3>7. \E k \in [G(n) -> V] : IsFold(k, G(n), base, F, ch)
      BY <3>4, <3>6
    <3> QED BY <2>1, <3>7
  <2> QED BY <2>2, <2>3
<1>4. PICK N \in Nat : N = Cardinality(S)
  BY <1>0
<1>5. PICK D : D = G(N)
  OBVIOUS
<1>6. D = SUBSET S
  BY <1>0, <1>4, <1>5
<1>7. \E g \in [D -> V] : IsFold(g, D, base, F, ch)
  BY <1>3, <1>5
<1> QED BY <1>6, <1>7

(* A set of positions has a last one. *)
LEMMA Greatest ==
    ASSUME NEW n \in Nat, NEW s \in SUBSET (1 .. n), s # {}
    PROVE  \E x \in s : \A y \in s : y <= x
<1> DEFINE N == {n - y : y \in s}
<1>0. \A y \in s : y \in Nat /\ y <= n
  OBVIOUS
<1>5. \A y \in s : n - y \in Nat
  BY <1>0
<1>1. N \in SUBSET Nat /\ N # {}
  BY <1>5
<1>2. PICK m \in N : \A k \in N : m <= k
  BY <1>1, Least
<1>3. PICK x \in s : m = n - x
  BY <1>2
<1>4. ASSUME NEW y \in s PROVE y <= x
  <2>1. n - x <= n - y
    BY <1>2, <1>3
  <2> QED BY <1>0, <2>1
<1> QED BY <1>4

-----------------------------------------------------------------------------
(* Sums over finite sets: the order in which a fold adds does not matter. *)

LEMMA LeastSize ==
    ASSUME NEW S, IsFiniteSet(S), NEW T \in SUBSET SUBSET S, T # {}
    PROVE  \E s \in T : \A u \in SUBSET S : Cardinality(u) < Cardinality(s) => u \notin T
<1> DEFINE N == {Cardinality(s) : s \in T}
<1>1. \A s \in SUBSET S : Cardinality(s) \in Nat
  BY FS_Subset, FS_CardinalityType
<1>2. N \in SUBSET Nat /\ N # {}
  BY <1>1
<1>3. PICK n \in N : \A m \in N : n <= m
  BY <1>2, Least
<1>4. PICK s \in T : n = Cardinality(s)
  BY <1>3
<1>5. ASSUME NEW u \in T PROVE ~(Cardinality(u) < Cardinality(s))
  <2>1. Cardinality(s) <= Cardinality(u)
    BY <1>3, <1>4
  <2> QED BY <1>1, <2>1
<1> QED BY <1>5

LEMMA OneLess ==
    ASSUME NEW S, IsFiniteSet(S), NEW s \in SUBSET S, NEW x \in s
    PROVE  s \ {x} \in SUBSET S /\ Cardinality(s \ {x}) < Cardinality(s)
<1>1. IsFiniteSet(s) /\ Cardinality(s) \in Nat
  BY FS_Subset, FS_CardinalityType
<1>2. Cardinality(s \ {x}) = Cardinality(s) - 1
  BY <1>1, FS_RemoveElement
<1> QED BY <1>1, <1>2

SumsTo(g, D, w) ==
    /\ g[{}] = 0
    /\ \A s \in SUBSET D : g[s] \in Nat /\ \A x \in s : g[s] = g[s \ {x}] + w[x]

LEMMA FoldIsSum ==
    ASSUME NEW D, IsFiniteSet(D), NEW w, \A i \in D : w[i] \in Nat,
           NEW ch, \A s \in SUBSET D : s # {} => ch[s] \in s,
           NEW h, \A s \in SUBSET D : h[s] = IF s = {} THEN 0 ELSE w[ch[s]] + h[s \ {ch[s]}]
    PROVE  SumsTo(h, D, w)
<1>1. h[{}] = 0
  OBVIOUS
<1>2. \A s \in SUBSET D : h[s] \in Nat
  <2> DEFINE Bad == {s \in SUBSET D : h[s] \notin Nat}
  <2>1. SUFFICES ASSUME Bad # {} PROVE FALSE
    OBVIOUS
  <2>0. Bad \in SUBSET SUBSET D
    OBVIOUS
  <2>2. PICK s \in Bad : \A u \in SUBSET D : Cardinality(u) < Cardinality(s) => u \notin Bad
    <3> HIDE DEF Bad
    <3> QED BY <2>0, <2>1, LeastSize
  <2>3. /\ s \in SUBSET D /\ h[s] \notin Nat
        /\ \A u \in SUBSET D : Cardinality(u) < Cardinality(s) => h[u] \in Nat
    BY <2>2
  <2> HIDE DEF Bad
  <2>4. s # {}
    BY <1>1, <2>3
  <2>5. PICK c \in s : c = ch[s]
    BY <2>3, <2>4
  <2>6. h[s] = w[c] + h[s \ {c}]
    BY <2>3, <2>4, <2>5
  <2>7. h[s \ {c}] \in Nat
    BY <2>3, <2>5, OneLess
  <2>8. w[c] \in Nat
    BY <2>3, <2>5
  <2> QED BY <2>3, <2>6, <2>7, <2>8
<1>3. \A s \in SUBSET D : \A x \in s : h[s] = h[s \ {x}] + w[x]
  <2> DEFINE Bad == {s \in SUBSET D : ~\A x \in s : h[s] = h[s \ {x}] + w[x]}
  <2>1. SUFFICES ASSUME Bad # {} PROVE FALSE
    OBVIOUS
  <2>0. Bad \in SUBSET SUBSET D
    OBVIOUS
  <2>2. PICK s \in Bad : \A u \in SUBSET D : Cardinality(u) < Cardinality(s) => u \notin Bad
    <3> HIDE DEF Bad
    <3> QED BY <2>0, <2>1, LeastSize
  <2>3. /\ s \in SUBSET D /\ \E x \in s : h[s] # h[s \ {x}] + w[x]
        /\ \A u \in SUBSET D : Cardinality(u) < Cardinality(s) =>
             \A x \in u : h[u] = h[u \ {x}] + w[x]
    BY <2>2
  <2> HIDE DEF Bad
  <2>4. PICK x \in s : h[s] # h[s \ {x}] + w[x]
    BY <2>3
  <2>5. PICK c \in s : c = ch[s]
    BY <2>3, <2>4
  <2>8. h[s] = w[c] + h[s \ {c}] /\ c \in D /\ x \in D /\ s \ {c} \in SUBSET D
    BY <2>3, <2>4, <2>5
  <2>9. h[s \ {c}] \in Nat /\ w[c] \in Nat /\ w[x] \in Nat
    BY <1>2, <2>8
  <2>6. CASE x = c
    BY <2>4, <2>6, <2>8, <2>9
  <2>7. CASE x # c
    <3>1. h[s \ {c}] = h[(s \ {c}) \ {x}] + w[x]
      BY <2>3, <2>4, <2>7, <2>8, OneLess
    <3>2. h[s \ {x}] = h[(s \ {x}) \ {c}] + w[c]
      BY <2>3, <2>5, <2>7, OneLess
    <3>3. PICK u \in SUBSET D : u = (s \ {c}) \ {x} /\ u = (s \ {x}) \ {c}
      BY <2>3
    <3>4. h[u] \in Nat
      BY <1>2
    <3>5. PICK p \in Nat, q \in Nat, r \in Nat : p = h[u] /\ q = w[x] /\ r = w[c]
      BY <2>9, <3>4
    <3>6. h[s \ {c}] = p + q /\ h[s \ {x}] = p + r
      BY <3>1, <3>2, <3>3, <3>5
    <3>7. h[s] = r + (p + q)
      BY <2>8, <3>5, <3>6
    <3> QED BY <2>4, <3>5, <3>6, <3>7
  <2> QED BY <2>6, <2>7
<1> QED BY <1>1, <1>2, <1>3 DEF SumsTo

LEMMA SumMonotone ==
    ASSUME NEW E, IsFiniteSet(E), NEW D \in SUBSET E, NEW w, NEW v, NEW g, NEW h,
           SumsTo(g, D, w), SumsTo(h, E, v),
           \A i \in E : v[i] \in Nat, \A i \in D : w[i] \in Nat /\ w[i] <= v[i]
    PROVE  g[D] <= h[E]
<1>0. IsFiniteSet(D)
  BY FS_Subset
<1>1. \A s \in SUBSET D : g[s] <= h[s]
  <2> DEFINE Bad == {s \in SUBSET D : ~(g[s] <= h[s])}
  <2>1. SUFFICES ASSUME Bad # {} PROVE FALSE
    OBVIOUS
  <2>0. Bad \in SUBSET SUBSET D
    OBVIOUS
  <2>2. PICK s \in Bad : \A u \in SUBSET D : Cardinality(u) < Cardinality(s) => u \notin Bad
    <3> HIDE DEF Bad
    <3> QED BY <2>0, <1>0, <2>1, LeastSize
  <2>8. /\ s \in SUBSET D /\ ~(g[s] <= h[s])
        /\ \A u \in SUBSET D : Cardinality(u) < Cardinality(s) => g[u] <= h[u]
    BY <2>2
  <2> HIDE DEF Bad
  <2>3. s # {}
    <3>1. g[{}] = 0 /\ h[{}] = 0
      BY DEF SumsTo
    <3>2. g[{}] <= h[{}]
      BY <3>1
    <3> QED BY <2>8, <3>2
  <2>4. PICK x \in s : TRUE
    BY <2>3
  <2>5. g[s \ {x}] <= h[s \ {x}]
    BY <1>0, <2>8, <2>4, OneLess
  <2>6. /\ g[s] = g[s \ {x}] + w[x] /\ g[s \ {x}] \in Nat
        /\ h[s] = h[s \ {x}] + v[x] /\ h[s \ {x}] \in Nat
    BY <2>8, <2>4 DEF SumsTo
  <2>7. w[x] \in Nat /\ v[x] \in Nat /\ w[x] <= v[x]
    BY <2>8, <2>4
  <2> QED BY <2>8, <2>5, <2>6, <2>7
<1>2. \A s \in SUBSET E : h[E \ s] <= h[E]
  <2> DEFINE Bad == {s \in SUBSET E : ~(h[E \ s] <= h[E])}
  <2>1. SUFFICES ASSUME Bad # {} PROVE FALSE
    OBVIOUS
  <2>0. Bad \in SUBSET SUBSET E
    OBVIOUS
  <2>2. PICK s \in Bad : \A u \in SUBSET E : Cardinality(u) < Cardinality(s) => u \notin Bad
    <3> HIDE DEF Bad
    <3> QED BY <2>0, <2>1, LeastSize
  <2>10. /\ s \in SUBSET E /\ ~(h[E \ s] <= h[E])
         /\ \A u \in SUBSET E : Cardinality(u) < Cardinality(s) => h[E \ u] <= h[E]
    BY <2>2
  <2> HIDE DEF Bad
  <2>3. s # {}
    <3>1. E \ {} = E /\ h[E] \in Nat
      BY DEF SumsTo
    <3> QED BY <2>10, <3>1
  <2>4. PICK x \in s : TRUE
    BY <2>3
  <2>5. h[E \ (s \ {x})] <= h[E]
    BY <2>10, <2>4, OneLess
  <2>6. PICK u \in SUBSET E : u = E \ (s \ {x})
    OBVIOUS
  <2>7. x \in u /\ u \ {x} = E \ s
    BY <2>10, <2>4, <2>6
  <2>8. h[u] = h[u \ {x}] + v[x] /\ h[u \ {x}] \in Nat /\ h[E] \in Nat /\ h[u] \in Nat
    BY <2>7 DEF SumsTo
  <2>9. v[x] \in Nat
    BY <2>10, <2>4
  <2>11. h[u] <= h[E] /\ h[E \ s] = h[u \ {x}]
    BY <2>5, <2>6, <2>7
  <2>12. h[u \ {x}] <= h[E]
    BY <2>8, <2>9, <2>11
  <2> QED BY <2>10, <2>11, <2>12
<1>3. E \ (E \ D) = D
  OBVIOUS
<1>4. g[D] <= h[D] /\ h[D] <= h[E]
  BY <1>1, <1>2, <1>3
<1>5. g[D] \in Nat /\ h[D] \in Nat /\ h[E] \in Nat
  BY DEF SumsTo
<1> QED BY <1>4, <1>5

(* One summand grows by at most n. *)
LEMMA SumGrows ==
    ASSUME NEW D, IsFiniteSet(D), NEW a, NEW E \in SUBSET (D \cup {a}), a \in E,
           NEW w, NEW v, NEW g, NEW h, SumsTo(g, D, w), SumsTo(h, E, v), NEW n \in Nat,
           \A i \in D : w[i] \in Nat, \A i \in E : v[i] \in Nat,
           \A i \in E \ {a} : v[i] <= w[i],
           v[a] <= (IF a \in D THEN w[a] ELSE 0) + n
    PROVE  h[E] <= g[D] + n
<1>1. PICK F : F = E \ {a}
  OBVIOUS
<1>2. h[E] = h[F] + v[a] /\ h[F] \in Nat /\ g[D] \in Nat /\ v[a] \in Nat
  BY <1>1 DEF SumsTo
<1>3. SumsTo(h, F, v)
  BY <1>1 DEF SumsTo
<1>4. CASE a \in D
  <2>1. PICK C : C = D \ {a}
    OBVIOUS
  <2>2. SumsTo(g, C, w) /\ F \in SUBSET C /\ IsFiniteSet(C)
    BY <1>1, <2>1, FS_Subset DEF SumsTo
  <2>3. h[F] <= g[C]
    BY <1>1, <1>3, <2>1, <2>2, SumMonotone
  <2>4. g[D] = g[C] + w[a] /\ g[C] \in Nat /\ w[a] \in Nat
    BY <1>4, <2>1 DEF SumsTo
  <2>5. v[a] <= w[a] + n
    BY <1>4
  <2> QED BY <1>2, <2>3, <2>4, <2>5
<1>5. CASE a \notin D
  <2>1. F \in SUBSET D
    BY <1>1, <1>5
  <2>2. h[F] <= g[D]
    BY <1>1, <1>3, <2>1, SumMonotone
  <2>3. v[a] <= n
    BY <1>5
  <2> QED BY <1>2, <2>2, <2>3
<1> QED BY <1>4, <1>5
=============================================================================
