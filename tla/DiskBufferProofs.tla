-------------------------- MODULE DiskBufferProofs --------------------------
(***************************************************************************)
(* Theorems about DiskBuffer: first those that rest on the names and the   *)
(* sizes of its files, then those that rest on the order of the bytes in   *)
(* them (nothing accepted is lost unreported, a batch is in the order of   *)
(* acceptance, recovery drops unfinished frames only, what is queued can   *)
(* be read).                                                               *)
(***************************************************************************)
EXTENDS DiskBuffer, SequenceFacts

(***************************************************************************)
(* The least and the greatest element of a set of naturals: what           *)
(* segments[0] and segments[len-1] are in the code's sorted slice.         *)
(***************************************************************************)
LEMMA LessThanIsWellFounded ==
    IsWellFoundedOn({p \in Nat \X Nat : p[1] < p[2]}, Nat)
BY NatLessThanWellFounded DEF OpToRel

LEMMA LeastExists ==
    ASSUME NEW S \in SUBSET Nat, S # {}
    PROVE  \E x \in S : \A y \in S : x <= y
<1>1. PICK x \in S : \A y \in S : <<y, x>> \notin {p \in Nat \X Nat : p[1] < p[2]}
  BY LessThanIsWellFounded, WFMin
<1>2. \A a, b \in Nat : <<a, b>> \in {p \in Nat \X Nat : p[1] < p[2]} <=> a < b
  OBVIOUS
<1>3. \A y \in S : ~(y < x)
  BY <1>1, <1>2
<1>. QED BY <1>3

LEMMA MinIsLeast ==
    ASSUME NEW S \in SUBSET Nat, S # {}
    PROVE  Min(S) \in S /\ \A y \in S : Min(S) <= y
BY LeastExists DEF Min

LEMMA MaxIsGreatest ==
    ASSUME NEW n \in Nat, NEW S \in SUBSET (0..n), S # {}
    PROVE  Max(S) \in S /\ \A y \in S : Max(S) >= y
<1>. DEFINE T == {m \in Nat : \A y \in S : y <= m}
<1>1. n \in T
  OBVIOUS
<1>2. PICK m \in T : \A k \in T : m <= k
  BY <1>1, LeastExists
<1>3. m \in S
  <2>1. CASE m = 0
    <3>1. PICK y \in S : TRUE
      OBVIOUS
    <3>. QED BY <1>2, <2>1, <3>1
  <2>2. CASE m # 0
    <3>1. m - 1 \notin T
      BY <1>2, <2>2
    <3>. QED BY <1>2, <2>2, <3>1
  <2>. QED BY <2>1, <2>2
<1>. QED BY <1>2, <1>3 DEF Max

-----------------------------------------------------------------------------
(***************************************************************************)
(* What the steps of Append, Ack and EvictExpired do to a Buffer struct.   *)
(***************************************************************************)
LEMMA MakeBuffer ==
    ASSUME NEW segs, NEW active, NEW cursorSeg \in Nat, NEW cursorOff \in Nat,
           segs \in [DOMAIN segs -> Segment],
           DOMAIN segs \subseteq Nat \ {0},
           active = 0 \/ (active \in DOMAIN segs /\ ~segs[active].sealed)
    PROVE  IsBuffer([segs |-> segs, active |-> active,
                     cursorSeg |-> cursorSeg, cursorOff |-> cursorOff])
BY DEF IsBuffer, Ids

\* c is b with some segments removed and the cursor moved
Shrinks(b, c) ==
    /\ Ids(c) \subseteq Ids(b)
    /\ \A i \in Ids(c) : c.segs[i] = b.segs[i]
    /\ c.active = b.active

LEMMA WithoutFields ==
    ASSUME NEW b, IsBuffer(b), NEW gone
    PROVE  /\ Without(b, gone) = [segs |-> Restrict(b.segs, Ids(b) \ gone),
                                  active |-> b.active,
                                  cursorSeg |-> b.cursorSeg,
                                  cursorOff |-> b.cursorOff]
           /\ Ids(Without(b, gone)) = Ids(b) \ gone
           /\ \A i \in Ids(b) \ gone : Without(b, gone).segs[i] = b.segs[i]
BY DEF Without, IsBuffer, Ids, Restrict

\* removing sealed segments never removes the active one
LEMMA WithoutType ==
    ASSUME NEW b, IsBuffer(b), NEW gone,
           \A i \in gone : i \in Ids(b) /\ b.segs[i].sealed
    PROVE  IsBuffer(Without(b, gone)) /\ Shrinks(b, Without(b, gone))
<1>. DEFINE c == Without(b, gone)
<1>1. /\ c = [segs |-> Restrict(b.segs, Ids(b) \ gone), active |-> b.active,
              cursorSeg |-> b.cursorSeg, cursorOff |-> b.cursorOff]
      /\ Ids(c) = Ids(b) \ gone
      /\ \A i \in Ids(b) \ gone : c.segs[i] = b.segs[i]
  BY WithoutFields
<1>2. c.segs \in [Ids(c) -> Segment]
  BY <1>1 DEF IsBuffer, Ids, Restrict
<1>3. c.active = 0 \/ (c.active \in Ids(c) /\ ~c.segs[c.active].sealed)
  BY <1>1 DEF IsBuffer
<1>4. IsBuffer(c)
  BY <1>1, <1>2, <1>3, MakeBuffer DEF IsBuffer, Ids
<1>5. Shrinks(b, c)
  BY <1>1 DEF Shrinks
<1>. QED BY <1>4, <1>5

LEMMA ReclaimType ==
    ASSUME NEW b, IsBuffer(b)
    PROVE  IsBuffer(Reclaim(b)) /\ Shrinks(b, Reclaim(b))
BY WithoutType DEF Reclaim

LEMMA EvictOldestType ==
    ASSUME NEW b, IsBuffer(b)
    PROVE  IsBuffer(EvictOldest(b)) /\ Shrinks(b, EvictOldest(b))
<1>. DEFINE gone == OldestSealed(b)
            rest == Without(b, gone)
<1>1. \A i \in gone : i \in Ids(b) /\ b.segs[i].sealed
  BY DEF OldestSealed
<1>2. IsBuffer(rest) /\ Shrinks(b, rest)
  BY <1>1, WithoutType
<1>3. Ids(rest) # {} => Min(Ids(rest)) \in Nat
  BY <1>2, MinIsLeast DEF IsBuffer
<1>. QED BY <1>2, <1>3 DEF EvictOldest, SetCursor, IsBuffer, Ids, Shrinks

\* ids of b are below n; Max over them is defined
Below(b, n) == \A i \in Ids(b) : i < n

LEMMA MaxId ==
    ASSUME NEW b, IsBuffer(b), NEW n \in Nat, Below(b, n),
           NEW S, S \subseteq Ids(b), S # {}
    PROVE  /\ Max(S) \in S /\ Max(S) \in Nat /\ Max(S) < n
           /\ \A i \in S : i <= Max(S)
<1>1. S \in SUBSET (0..n)
  BY DEF IsBuffer, Below
<1>. QED BY <1>1, MaxIsGreatest DEF Below, IsBuffer

LEMMA DropExpiredType ==
    ASSUME NEW b, IsBuffer(b), NEW n \in Nat, Below(b, n), NEW now
    PROVE  IsBuffer(DropExpired(b, now)) /\ Shrinks(b, DropExpired(b, now))
<1>. DEFINE gone == Expired(b, now)
            rest == Without(b, gone)
<1>1. \A i \in gone : i \in Ids(b) /\ b.segs[i].sealed
  BY DEF Expired
<1>2. IsBuffer(rest) /\ Shrinks(b, rest)
  BY <1>1, WithoutType
<1>3. gone # {} => Max(gone) + 1 \in Nat
  BY <1>1, MaxId
<1>. QED BY <1>2, <1>3 DEF DropExpired, SetCursor, IsBuffer, Ids, Shrinks

LEMMA EnsureActiveType ==
    ASSUME NEW b, IsBuffer(b), NEW n \in Nat \ {0}, Below(b, n)
    PROVE  /\ IsBuffer(EnsureActive(b))
           /\ Below(EnsureActive(b), n + 1)
           /\ EnsureActive(b).active # 0
           /\ EnsureActive(b).segs[EnsureActive(b).active].open
<1>1. CASE b.active # 0 /\ b.segs[b.active].open /\ ~b.segs[b.active].sealed
  BY <1>1 DEF EnsureActive, Below, IsBuffer
<1>2. CASE ~(b.active # 0 /\ b.segs[b.active].open /\ ~b.segs[b.active].sealed)
  <2>. DEFINE id == IF Ids(b) = {} THEN 1 ELSE Max(Ids(b)) + 1
              seg == [cells |-> <<>>, synced |-> 0, bytes |-> 0,
                      sealed |-> FALSE, open |-> TRUE, oldest |-> 0]
              segs == [i \in Ids(b) \cup {id} |-> IF i = id THEN seg ELSE b.segs[i]]
              c == EnsureActive(b)
  <2>1. id \in Nat \ {0} /\ id < n + 1
    BY MaxId DEF Below
  <2>2. c = [segs |-> segs, active |-> id,
             cursorSeg |-> b.cursorSeg, cursorOff |-> b.cursorOff]
    BY <1>2 DEF EnsureActive, IsBuffer
  <2>3. seg \in Segment
    BY DEF Segment, Cell
  <2>. HIDE DEF id, seg
  <2>4. segs \in [DOMAIN segs -> Segment] /\ DOMAIN segs \subseteq Nat \ {0}
    BY <2>1, <2>3 DEF IsBuffer
  <2>5. segs[id] = seg /\ id \in DOMAIN segs
    OBVIOUS
  <2>6. ~seg.sealed /\ seg.open
    BY DEF seg
  <2>7. Below(c, n + 1)
    BY <2>1, <2>2 DEF Below, Ids, IsBuffer
  <2>. HIDE DEF segs, c
  <2>8. b.cursorSeg \in Nat /\ b.cursorOff \in Nat
    BY DEF IsBuffer
  <2>9. IsBuffer(c)
    BY <2>1, <2>2, <2>4, <2>5, <2>6, <2>8, MakeBuffer
  <2>. QED BY <2>1, <2>2, <2>5, <2>6, <2>7, <2>9 DEF c
<1>. QED BY <1>1, <1>2

LEMMA ReplaceSegment ==
    ASSUME NEW b, IsBuffer(b), NEW k \in Ids(b), NEW seg \in Segment, NEW c,
           c = [segs |-> [b.segs EXCEPT ![k] = seg], active |-> b.active,
                cursorSeg |-> b.cursorSeg, cursorOff |-> b.cursorOff]
    PROVE  /\ Ids(c) = Ids(b)
           /\ c.segs \in [Ids(b) -> Segment]
           /\ c.segs[k] = seg
           /\ \A i \in Ids(b) \ {k} : c.segs[i] = b.segs[i]
           /\ ~seg.sealed => IsBuffer(c)
<1>. DEFINE segs == [b.segs EXCEPT ![k] = seg]
<1>1. /\ DOMAIN segs = Ids(b)
      /\ segs \in [DOMAIN segs -> Segment]
      /\ segs[k] = seg
      /\ \A i \in Ids(b) \ {k} : segs[i] = b.segs[i]
  BY DEF IsBuffer, Ids
<1>2. /\ b.cursorSeg \in Nat /\ b.cursorOff \in Nat
      /\ DOMAIN segs \subseteq Nat \ {0}
      /\ ~seg.sealed => \/ b.active = 0
                        \/ b.active \in DOMAIN segs /\ ~segs[b.active].sealed
  BY <1>1 DEF IsBuffer
<1>. HIDE DEF segs
<1>3. ~seg.sealed => IsBuffer(c)
  BY <1>1, <1>2, MakeBuffer DEF segs
<1>. QED BY <1>1, <1>3 DEF segs, Ids

LEMMA FrameType ==
    ASSUME NEW r \in Nat, NEW n \in Nat, NEW t \in Nat
    PROVE  /\ Frame(r, n, t) \in Seq(Cell)
           /\ Len(Frame(r, n, t)) = n
           /\ \A k \in 1..n : Frame(r, n, t)[k].rec = r
BY DEF Frame, Cell

LEMMA UpdateFields ==
    ASSUME NEW b, IsBuffer(b), NEW seg
    PROVE  UpdateActive(b, seg) =
              [segs |-> [b.segs EXCEPT ![b.active] = seg], active |-> b.active,
               cursorSeg |-> b.cursorSeg, cursorOff |-> b.cursorOff]
BY DEF UpdateActive, IsBuffer

LEMMA WriteFrameSegment ==
    ASSUME NEW seg \in Segment, NEW r \in Nat, NEW n \in Nat, NEW t \in Nat,
           NEW bytes \in Nat, NEW oldest \in Nat
    PROVE  [seg EXCEPT !.cells = seg.cells \o Frame(r, n, t),
                       !.bytes = bytes, !.oldest = oldest] \in Segment
<1>1. seg.cells \in Seq(Cell)
  BY DEF Segment
<1>2. seg.cells \o Frame(r, n, t) \in Seq(Cell)
  BY <1>1, FrameType, ConcatProperties
<1>. QED BY <1>2 DEF Segment

LEMMA WriteFrameType ==
    ASSUME NEW b, IsBuffer(b), b.active # 0,
           NEW r \in Nat, NEW n \in Nat, NEW t \in Nat
    PROVE  /\ IsBuffer(WriteFrame(b, r, n, t))
           /\ Ids(WriteFrame(b, r, n, t)) = Ids(b)
           /\ WriteFrame(b, r, n, t).active = b.active
           /\ \A i \in Ids(b) \ {b.active} : WriteFrame(b, r, n, t).segs[i] = b.segs[i]
           /\ WriteFrame(b, r, n, t).segs[b.active].cells =
                 b.segs[b.active].cells \o Frame(r, n, t)
           /\ WriteFrame(b, r, n, t).segs[b.active].synced = b.segs[b.active].synced
           /\ WriteFrame(b, r, n, t).segs[b.active].open = b.segs[b.active].open
<1>. DEFINE old == b.segs[b.active]
            seg == [old EXCEPT !.cells = old.cells \o Frame(r, n, t),
                               !.bytes = old.bytes + n,
                               !.oldest = IF old.oldest = 0 THEN t ELSE old.oldest]
            c == WriteFrame(b, r, n, t)
<1>1. old \in Segment /\ ~old.sealed /\ b.active \in Ids(b)
  BY DEF IsBuffer
<1>2. old.bytes + n \in Nat /\ (IF old.oldest = 0 THEN t ELSE old.oldest) \in Nat
  BY <1>1 DEF Segment
<1>3. seg \in Segment
  BY <1>1, <1>2, WriteFrameSegment
<1>4. /\ seg.cells = old.cells \o Frame(r, n, t) /\ seg.synced = old.synced
      /\ seg.open = old.open /\ seg.sealed = old.sealed
  BY <1>1 DEF Segment
<1>5. c = [segs |-> [b.segs EXCEPT ![b.active] = seg], active |-> b.active,
           cursorSeg |-> b.cursorSeg, cursorOff |-> b.cursorOff]
  BY UpdateFields DEF WriteFrame
<1>. HIDE DEF seg, old, c
<1>6. /\ Ids(c) = Ids(b) /\ c.segs[b.active] = seg /\ IsBuffer(c)
      /\ \A i \in Ids(b) \ {b.active} : c.segs[i] = b.segs[i]
  BY <1>1, <1>3, <1>4, <1>5, ReplaceSegment
<1>7. c.active = b.active
  BY <1>5
<1>. QED BY <1>4, <1>6, <1>7 DEF c, old
LEMMA WriteTornType ==
    ASSUME NEW b, IsBuffer(b), b.active # 0, NEW n \in Nat
    PROVE  /\ IsBuffer(WriteTorn(b, n))
           /\ Ids(WriteTorn(b, n)) = Ids(b)
           /\ WriteTorn(b, n).active = b.active
           /\ \A i \in Ids(b) \ {b.active} : WriteTorn(b, n).segs[i] = b.segs[i]
           /\ LET seg == WriteTorn(b, n).segs[b.active]
                  old == b.segs[b.active]
              IN  /\ seg.cells = old.cells \o Torn(n)
                  /\ seg.synced = old.synced
                  /\ seg.open = old.open
<1>. DEFINE old == b.segs[b.active]
            seg == [old EXCEPT !.cells = old.cells \o Torn(n)]
            c == WriteTorn(b, n)
<1>1. old \in Segment /\ ~old.sealed /\ b.active \in Ids(b)
  BY DEF IsBuffer
<1>2. old.cells \in Seq(Cell) /\ Torn(n) \in Seq(Cell)
  BY <1>1, FrameType DEF Segment, Torn
<1>3. old.cells \o Torn(n) \in Seq(Cell)
  BY <1>2, ConcatProperties
<1>4. seg \in Segment
  BY <1>1, <1>3 DEF Segment
<1>5. /\ seg.cells = old.cells \o Torn(n) /\ seg.synced = old.synced
      /\ seg.open = old.open /\ seg.sealed = old.sealed
  BY <1>1 DEF Segment
<1>6. c = [segs |-> [b.segs EXCEPT ![b.active] = seg], active |-> b.active,
           cursorSeg |-> b.cursorSeg, cursorOff |-> b.cursorOff]
  BY UpdateFields DEF WriteTorn
<1>. HIDE DEF seg, old, c
<1>7. /\ Ids(c) = Ids(b) /\ c.segs[b.active] = seg /\ IsBuffer(c)
      /\ \A i \in Ids(b) \ {b.active} : c.segs[i] = b.segs[i]
  BY <1>1, <1>4, <1>5, <1>6, ReplaceSegment
<1>8. c.active = b.active
  BY <1>6
<1>. QED BY <1>5, <1>7, <1>8 DEF c, old

LEMMA SyncActiveType ==
    ASSUME NEW b, IsBuffer(b), b.active # 0, b.segs[b.active].open
    PROVE  /\ IsBuffer(SyncActive(b))
           /\ Ids(SyncActive(b)) = Ids(b)
           /\ SyncActive(b).active = b.active
           /\ \A i \in Ids(b) \ {b.active} : SyncActive(b).segs[i] = b.segs[i]
           /\ LET seg == SyncActive(b).segs[b.active]
                  old == b.segs[b.active]
              IN  /\ seg.cells = old.cells
                  /\ seg.synced = Len(old.cells)
                  /\ seg.open = old.open
<1>. DEFINE old == b.segs[b.active]
            seg == [old EXCEPT !.synced = Len(old.cells)]
            c == SyncActive(b)
<1>1. old \in Segment /\ ~old.sealed /\ b.active \in Ids(b)
  BY DEF IsBuffer
<1>2. Len(old.cells) \in Nat
  BY <1>1 DEF Segment
<1>3. seg \in Segment
  BY <1>1, <1>2 DEF Segment
<1>4. /\ seg.cells = old.cells /\ seg.synced = Len(old.cells)
      /\ seg.open = old.open /\ seg.sealed = old.sealed
  BY <1>1 DEF Segment
<1>5. c = [segs |-> [b.segs EXCEPT ![b.active] = seg], active |-> b.active,
           cursorSeg |-> b.cursorSeg, cursorOff |-> b.cursorOff]
  BY UpdateFields DEF SyncActive
<1>. HIDE DEF seg, old, c
<1>6. /\ Ids(c) = Ids(b) /\ c.segs[b.active] = seg /\ IsBuffer(c)
      /\ \A i \in Ids(b) \ {b.active} : c.segs[i] = b.segs[i]
  BY <1>1, <1>3, <1>4, <1>5, ReplaceSegment
<1>7. c.active = b.active
  BY <1>5
<1>. QED BY <1>4, <1>6, <1>7 DEF c, old

LEMMA SealActiveType ==
    ASSUME NEW b, IsBuffer(b), b.active # 0
    PROVE  /\ IsBuffer(SealActive(b))
           /\ Ids(SealActive(b)) = Ids(b)
           /\ SealActive(b).active = 0
           /\ \A i \in Ids(b) \ {b.active} : SealActive(b).segs[i] = b.segs[i]
           /\ LET seg == SealActive(b).segs[b.active]
                  old == b.segs[b.active]
              IN  /\ seg.cells = old.cells
                  /\ seg.synced = Len(old.cells)
<1>. DEFINE old == b.segs[b.active]
            seg == [old EXCEPT !.synced = Len(old.cells), !.sealed = TRUE, !.open = FALSE]
            segs == [b.segs EXCEPT ![b.active] = seg]
            c == SealActive(b)
<1>1. old \in Segment /\ b.active \in Ids(b)
  BY DEF IsBuffer
<1>2. Len(old.cells) \in Nat
  BY <1>1 DEF Segment
<1>3. seg \in Segment
  BY <1>1, <1>2 DEF Segment
<1>4. /\ seg.cells = old.cells /\ seg.synced = Len(old.cells)
  BY <1>1 DEF Segment
<1>5. c = [segs |-> segs, active |-> 0,
           cursorSeg |-> b.cursorSeg, cursorOff |-> b.cursorOff]
  BY UpdateFields DEF SealActive
<1>. HIDE DEF seg, old, c
<1>6. /\ DOMAIN segs = Ids(b) /\ segs \in [DOMAIN segs -> Segment]
      /\ segs[b.active] = seg
      /\ \A i \in Ids(b) \ {b.active} : segs[i] = b.segs[i]
  BY <1>1, <1>3 DEF IsBuffer, Ids
<1>7. /\ b.cursorSeg \in Nat /\ b.cursorOff \in Nat
      /\ DOMAIN segs \subseteq Nat \ {0}
  BY <1>6 DEF IsBuffer
<1>. HIDE DEF segs
<1>8. IsBuffer(c)
  BY <1>5, <1>6, <1>7, MakeBuffer
<1>9. c.active = 0 /\ c.segs = segs /\ Ids(c) = DOMAIN segs
  BY <1>5 DEF Ids
<1>. QED BY <1>4, <1>6, <1>8, <1>9 DEF c, old

-----------------------------------------------------------------------------
(***************************************************************************)
(* Which records the bytes of a file belong to.                            *)
(***************************************************************************)
LEMMA RecsFromMember ==
    ASSUME NEW s, NEW off, NEW r
    PROVE  r \in RecsFrom(s, off) <=>
              r # 0 /\ \E k \in 1..Len(s) : k > off /\ s[k].rec = r
BY DEF RecsFrom

LEMMA RecsFromAll ==
    ASSUME NEW s \in Seq(Cell), NEW off \in Nat
    PROVE  /\ RecsFrom(s, off) \subseteq RecsFrom(s, 0)
           /\ RecsFrom(s, 0) \subseteq Nat \ {0}
           /\ off >= Len(s) => RecsFrom(s, off) = {}
<1>1. \A k \in 1..Len(s) : s[k].rec \in Nat
  <2>1. \A k \in 1..Len(s) : s[k] \in Cell
    OBVIOUS
  <2>. QED BY <2>1 DEF Cell
<1>2. RecsFrom(s, off) \subseteq RecsFrom(s, 0)
  BY RecsFromMember
<1>3. RecsFrom(s, 0) \subseteq Nat \ {0}
  BY <1>1, RecsFromMember
<1>4. off >= Len(s) => RecsFrom(s, off) = {}
  BY RecsFromMember
<1>. QED BY <1>2, <1>3, <1>4

LEMMA RecsFromConcat ==
    ASSUME NEW s \in Seq(Cell), NEW f \in Seq(Cell), NEW off \in Nat
    PROVE  RecsFrom(s \o f, off) \subseteq RecsFrom(s, off) \cup RecsFrom(f, 0)
BY DEF RecsFrom

LEMMA RecsFromFrame ==
    ASSUME NEW r \in Nat, NEW n \in Nat, NEW t \in Nat
    PROVE  RecsFrom(Frame(r, n, t), 0) \subseteq {r} \ {0}
<1>1. \A k \in 1..Len(Frame(r, n, t)) : Frame(r, n, t)[k].rec = r
  BY FrameType
<1>2. \A x \in RecsFrom(Frame(r, n, t), 0) : x = r /\ x # 0
  BY <1>1, RecsFromMember
<1>. QED BY <1>2

LEMMA RecsFromPrefix ==
    ASSUME NEW s \in Seq(Cell), NEW n \in 0..Len(s), NEW off \in Nat
    PROVE  /\ SubSeq(s, 1, n) \in Seq(Cell)
           /\ Len(SubSeq(s, 1, n)) = n
           /\ RecsFrom(SubSeq(s, 1, n), off) \subseteq RecsFrom(s, off)
BY DEF RecsFrom

-----------------------------------------------------------------------------
(***************************************************************************)
(* Each step of an operation keeps the segments durable.                   *)
(***************************************************************************)
LEMMA DurableShrinks ==
    ASSUME NEW b, NEW c, Shrinks(b, c), NEW r, NEW must, NEW mine,
           Durable(b, r, must, mine)
    PROVE  Durable(c, r, must, mine)
BY DEF Shrinks, Durable, SegmentDurable

LEMMA DurableEnsureActive ==
    ASSUME NEW b, IsBuffer(b), NEW n \in Nat \ {0}, Below(b, n),
           NEW r \in Nat, NEW must, NEW mine \in Nat, Durable(b, r, must, mine)
    PROVE  Durable(EnsureActive(b), r, must, mine)
<1>1. CASE b.active # 0 /\ b.segs[b.active].open /\ ~b.segs[b.active].sealed
  BY <1>1 DEF EnsureActive
<1>2. CASE ~(b.active # 0 /\ b.segs[b.active].open /\ ~b.segs[b.active].sealed)
  <2>. DEFINE id == IF Ids(b) = {} THEN 1 ELSE Max(Ids(b)) + 1
              seg == [cells |-> <<>>, synced |-> 0, bytes |-> 0,
                      sealed |-> FALSE, open |-> TRUE, oldest |-> 0]
              segs == [i \in Ids(b) \cup {id} |-> IF i = id THEN seg ELSE b.segs[i]]
              c == EnsureActive(b)
  <2>1. c = [segs |-> segs, active |-> id,
             cursorSeg |-> b.cursorSeg, cursorOff |-> b.cursorOff]
    BY <1>2 DEF EnsureActive, IsBuffer
  <2>2. id \notin Ids(b)
    BY MaxId DEF IsBuffer
  <2>. HIDE DEF id, c
  <2>3. /\ Ids(c) = Ids(b) \cup {id} /\ c.segs[id] = seg /\ c.active = id
        /\ \A i \in Ids(b) : c.segs[i] = b.segs[i]
    BY <2>1, <2>2 DEF Ids
  <2>4. SegmentDurable(c, id, r, must, mine)
    <3>1. <<>> \in Seq(Cell) /\ Len(<<>>) = 0
      OBVIOUS
    <3>2. RecsFrom(<<>>, 0) = {}
      BY DEF RecsFrom
    <3>. QED BY <2>3, <3>1, <3>2 DEF SegmentDurable, UnsyncedRecs
  <2>5. ASSUME NEW i \in Ids(b)
        PROVE  SegmentDurable(c, i, r, must, mine)
    <3>1. SegmentDurable(b, i, r, must, mine)
      BY DEF Durable
    <3>2. ~(i = b.active /\ b.segs[i].open)
      BY <1>2 DEF IsBuffer
    <3>. QED BY <2>3, <3>1, <3>2 DEF SegmentDurable
  <2>. QED BY <2>3, <2>4, <2>5 DEF Durable, c
<1>. QED BY <1>1, <1>2

LEMMA DurableWriteFrame ==
    ASSUME NEW b, IsBuffer(b), b.active # 0, b.segs[b.active].open,
           NEW r \in Nat \ {0}, NEW n \in Nat, NEW t \in Nat,
           NEW must, must \subseteq 1 .. r - 1, NEW mine \in Nat,
           Durable(b, r, must, mine)
    PROVE  Durable(WriteFrame(b, r, n, t), r + 1, must, mine)
<1>. DEFINE c == WriteFrame(b, r, n, t)
            old == b.segs[b.active]
            seg == c.segs[b.active]
<1>0. r \in Nat
  OBVIOUS
<1>1. /\ Ids(c) = Ids(b) /\ c.active = b.active
      /\ \A i \in Ids(b) \ {b.active} : c.segs[i] = b.segs[i]
      /\ seg.cells = old.cells \o Frame(r, n, t)
      /\ seg.synced = old.synced /\ seg.open = old.open
  <2>1. Ids(c) = Ids(b) /\ c.active = b.active
    BY <1>0, WriteFrameType
  <2>2. \A i \in Ids(b) \ {b.active} : c.segs[i] = b.segs[i]
    BY <1>0, WriteFrameType
  <2>3. seg.cells = old.cells \o Frame(r, n, t)
    BY <1>0, WriteFrameType
  <2>4. seg.synced = old.synced
    BY <1>0, WriteFrameType
  <2>5. seg.open = old.open
    BY <1>0, WriteFrameType
  <2>. QED BY <2>1, <2>2, <2>3, <2>4, <2>5
<1>2. /\ b.active \in Ids(b) /\ old \in Segment
      /\ old.cells \in Seq(Cell) /\ old.synced \in Nat
  BY DEF IsBuffer, Segment
<1>3. Frame(r, n, t) \in Seq(Cell) /\ RecsFrom(Frame(r, n, t), 0) \subseteq {r}
  BY FrameType, RecsFromFrame
<1>4. /\ old.synced <= Len(old.cells) /\ RecsFrom(old.cells, 0) \subseteq 1 .. r - 1
      /\ RecsFrom(old.cells, old.synced) \cap must = {}
  BY <1>2 DEF Durable, SegmentDurable, UnsyncedRecs
<1>. HIDE DEF c, old, seg
<1>5. Len(seg.cells) = Len(old.cells) + Len(Frame(r, n, t))
  BY <1>1, <1>2, <1>3
<1>6. /\ RecsFrom(seg.cells, 0) \subseteq RecsFrom(old.cells, 0) \cup {r}
      /\ RecsFrom(seg.cells, seg.synced) \subseteq RecsFrom(old.cells, old.synced) \cup {r}
  BY <1>1, <1>2, <1>3, RecsFromConcat
<1>7. SegmentDurable(c, b.active, r + 1, must, mine)
  <2>1. seg.synced <= Len(seg.cells)
    BY <1>1, <1>2, <1>3, <1>4, <1>5
  <2>2. RecsFrom(seg.cells, 0) \subseteq 1 .. (r + 1) - 1
    BY <1>4, <1>6
  <2>3. RecsFrom(seg.cells, seg.synced) \cap must = {}
    BY <1>4, <1>6
  <2>. QED BY <1>1, <2>1, <2>2, <2>3 DEF SegmentDurable, UnsyncedRecs, seg, old
<1>8. ASSUME NEW i \in Ids(b) \ {b.active}
      PROVE  SegmentDurable(c, i, r + 1, must, mine)
  <2>1. SegmentDurable(b, i, r, must, mine) /\ c.segs[i] = b.segs[i]
    BY <1>1 DEF Durable
  <2>2. 1 .. r - 1 \subseteq 1 .. (r + 1) - 1
    OBVIOUS
  <2>3. RecsFrom(b.segs[i].cells, 0) \subseteq 1 .. (r + 1) - 1
    BY <2>1, <2>2 DEF SegmentDurable
  <2>. QED BY <1>1, <2>1, <2>3 DEF SegmentDurable
<1>. QED BY <1>1, <1>7, <1>8 DEF Durable, c

LEMMA DurableWriteTorn ==
    ASSUME NEW b, IsBuffer(b), b.active # 0, b.segs[b.active].open,
           NEW r \in Nat \ {0}, NEW n \in Nat, NEW must, NEW mine \in Nat,
           Durable(b, r, must, mine)
    PROVE  Durable(WriteTorn(b, n), r, must, mine)
<1>. DEFINE c == WriteTorn(b, n)
            old == b.segs[b.active]
            seg == c.segs[b.active]
<1>1. /\ Ids(c) = Ids(b) /\ c.active = b.active
      /\ \A i \in Ids(b) \ {b.active} : c.segs[i] = b.segs[i]
      /\ seg.cells = old.cells \o Torn(n)
      /\ seg.synced = old.synced /\ seg.open = old.open
  BY WriteTornType
<1>2. /\ b.active \in Ids(b) /\ old \in Segment
      /\ old.cells \in Seq(Cell) /\ old.synced \in Nat
  BY DEF IsBuffer, Segment
<1>3. Torn(n) \in Seq(Cell) /\ RecsFrom(Torn(n), 0) = {}
  BY FrameType, RecsFromFrame DEF Torn
<1>4. /\ old.synced <= Len(old.cells) /\ RecsFrom(old.cells, 0) \subseteq 1 .. r - 1
      /\ RecsFrom(old.cells, old.synced) \cap must = {}
  BY <1>2 DEF Durable, SegmentDurable, UnsyncedRecs
<1>. HIDE DEF c, old, seg
<1>5. Len(seg.cells) = Len(old.cells) + Len(Torn(n))
  BY <1>1, <1>2, <1>3
<1>6. /\ RecsFrom(seg.cells, 0) \subseteq RecsFrom(old.cells, 0)
      /\ RecsFrom(seg.cells, seg.synced) \subseteq RecsFrom(old.cells, old.synced)
  BY <1>1, <1>2, <1>3, RecsFromConcat
<1>7. SegmentDurable(c, b.active, r, must, mine)
  <2>1. seg.synced <= Len(seg.cells)
    BY <1>1, <1>2, <1>3, <1>4, <1>5
  <2>. QED BY <1>1, <1>4, <1>6, <2>1 DEF SegmentDurable, UnsyncedRecs, seg, old
<1>8. ASSUME NEW i \in Ids(b) \ {b.active}
      PROVE  SegmentDurable(c, i, r, must, mine)
  BY <1>1 DEF Durable, SegmentDurable
<1>. QED BY <1>1, <1>7, <1>8 DEF Durable, c

\* an fsync covers the active segment, the only one with records of this process
LEMMA DurableSynced ==
    ASSUME NEW b, IsBuffer(b), NEW c, NEW r \in Nat \ {0}, NEW must, NEW mine \in Nat \ {0},
           Durable(b, r, must, mine),
           b.active \in Ids(b),
           Ids(c) = Ids(b),
           c.active = b.active \/ c.active = 0,
           \A i \in Ids(b) \ {b.active} : c.segs[i] = b.segs[i],
           c.segs[b.active].cells = b.segs[b.active].cells,
           c.segs[b.active].synced = Len(b.segs[b.active].cells)
    PROVE  Durable(c, r, must \cup (mine .. r - 1), mine)
<1>. DEFINE cells == b.segs[b.active].cells
<1>1. cells \in Seq(Cell) /\ Len(cells) \in Nat
  BY DEF IsBuffer, Segment
<1>2. RecsFrom(cells, Len(cells)) = {}
  BY <1>1, RecsFromAll
<1>3. RecsFrom(cells, 0) \subseteq 1 .. r - 1
  BY DEF Durable, SegmentDurable
<1>4. SegmentDurable(c, b.active, r, must \cup (mine .. r - 1), mine)
  BY <1>1, <1>2, <1>3 DEF SegmentDurable, UnsyncedRecs
<1>5. ASSUME NEW i \in Ids(b) \ {b.active}
      PROVE  SegmentDurable(c, i, r, must \cup (mine .. r - 1), mine)
  <2>1. SegmentDurable(b, i, r, must, mine)
    BY DEF Durable
  <2>2. c.segs[i] = b.segs[i]
    OBVIOUS
  <2>3. UnsyncedRecs(b.segs[i]) \subseteq 1 .. mine - 1 /\ UnsyncedRecs(b.segs[i]) \cap must = {}
    BY <2>1 DEF SegmentDurable
  <2>4. UnsyncedRecs(b.segs[i]) \cap (must \cup (mine .. r - 1)) = {}
    BY <2>3
  <2>. QED BY <2>1, <2>2, <2>3, <2>4 DEF SegmentDurable
<1>. QED BY <1>4, <1>5 DEF Durable

-----------------------------------------------------------------------------
(***************************************************************************)
(* The end of a process and the start of the next.                         *)
(***************************************************************************)
LEMMA OnDiskFields ==
    ASSUME NEW b, IsBuffer(b)
    PROVE  /\ IsBuffer(OnDisk(b))
           /\ Ids(OnDisk(b)) = Ids(b)
           /\ OnDisk(b).active = 0
           /\ \A i \in Ids(b) : /\ OnDisk(b).segs[i].cells = b.segs[i].cells
                                /\ OnDisk(b).segs[i].synced = b.segs[i].synced
<1>. DEFINE segs == [i \in Ids(b) |-> [b.segs[i] EXCEPT !.bytes = 0, !.sealed = FALSE,
                                                        !.open = FALSE, !.oldest = 0]]
<1>1. \A i \in Ids(b) : /\ segs[i] \in Segment
                        /\ segs[i].cells = b.segs[i].cells
                        /\ segs[i].synced = b.segs[i].synced
  BY DEF IsBuffer, Segment
<1>2. DOMAIN segs = Ids(b) /\ segs \in [DOMAIN segs -> Segment]
  BY <1>1
<1>3. DOMAIN segs \subseteq Nat \ {0}
  BY <1>2 DEF IsBuffer
<1>4. OnDisk(b) = [segs |-> segs, active |-> 0, cursorSeg |-> 0, cursorOff |-> 0]
  BY DEF OnDisk
<1>. HIDE DEF segs
<1>5. IsBuffer(OnDisk(b))
  BY <1>2, <1>3, <1>4, MakeBuffer
<1>. QED BY <1>1, <1>2, <1>4, <1>5 DEF Ids

LEMMA DurableOnDisk ==
    ASSUME NEW b, IsBuffer(b), NEW r \in Nat \ {0}, NEW must, NEW mine,
           Durable(b, r, must, mine)
    PROVE  Durable(OnDisk(b), r, must, r)
<1>. SUFFICES ASSUME NEW i \in Ids(b)
              PROVE  SegmentDurable(OnDisk(b), i, r, must, r)
  BY OnDiskFields DEF Durable
<1>1. /\ OnDisk(b).segs[i].cells = b.segs[i].cells
      /\ OnDisk(b).segs[i].synced = b.segs[i].synced
  BY OnDiskFields
<1>2. SegmentDurable(b, i, r, must, mine)
  BY DEF Durable
<1>3. b.segs[i].cells \in Seq(Cell) /\ b.segs[i].synced \in Nat
  BY DEF IsBuffer, Segment
<1>4. RecsFrom(b.segs[i].cells, b.segs[i].synced) \subseteq 1 .. r - 1
  BY <1>2, <1>3, RecsFromAll DEF SegmentDurable
<1>. QED BY <1>1, <1>2, <1>4 DEF SegmentDurable, UnsyncedRecs

LEMMA GoodLenType ==
    ASSUME NEW s \in Seq(Cell)
    PROVE  GoodLen(s) \in 0..Len(s)
<1>. DEFINE S == {n \in 0..Len(s) :
                    /\ \A k \in 1..n : s[k].rec # 0
                    /\ n > 0 => s[n].pos = s[n].size}
<1>1. 0 \in S /\ S \in SUBSET (0..Len(s)) /\ Len(s) \in Nat
  OBVIOUS
<1>2. Max(S) \in S
  BY <1>1, MaxIsGreatest
<1>. QED BY <1>2 DEF GoodLen

LEMMA RecoveredType ==
    ASSUME NEW seg \in Segment, seg.synced <= Len(seg.cells)
    PROVE  /\ Recovered(seg) \in Segment
           /\ Recovered(seg).cells = SubSeq(seg.cells, 1, GoodLen(seg.cells))
           /\ Recovered(seg).synced <= Len(Recovered(seg).cells)
           /\ RecsFrom(Recovered(seg).cells, 0) \subseteq RecsFrom(seg.cells, 0)
           /\ UnsyncedRecs(Recovered(seg)) \subseteq UnsyncedRecs(seg)
<1>. DEFINE n == GoodLen(seg.cells)
            cells == SubSeq(seg.cells, 1, n)
            synced == IF n < Len(seg.cells) THEN n ELSE seg.synced
            oldest == IF n > 0 THEN seg.cells[1].ts ELSE 0
<1>1. seg.cells \in Seq(Cell) /\ seg.synced \in Nat /\ Len(seg.cells) \in Nat
  BY DEF Segment
<1>2. n \in 0..Len(seg.cells)
  BY <1>1, GoodLenType
<1>. HIDE DEF n
<1>3. /\ cells \in Seq(Cell) /\ Len(cells) = n
      /\ RecsFrom(cells, 0) \subseteq RecsFrom(seg.cells, 0)
      /\ RecsFrom(cells, seg.synced) \subseteq RecsFrom(seg.cells, seg.synced)
  BY <1>1, <1>2, RecsFromPrefix
<1>4. synced \in Nat /\ synced <= n
  BY <1>1, <1>2
<1>5. oldest \in Nat
  <2>1. CASE n > 0
    <3>1. seg.cells[1] \in Cell
      BY <1>1, <1>2, <2>1
    <3>. QED BY <2>1, <3>1 DEF Cell
  <2>2. CASE ~(n > 0)
    BY <2>2
  <2>. QED BY <2>1, <2>2
<1>6. RecsFrom(cells, synced) \subseteq RecsFrom(seg.cells, seg.synced)
  <2>1. CASE n < Len(seg.cells)
    <3>0. n \in Nat /\ n >= Len(cells) /\ cells \in Seq(Cell)
      BY <1>2, <1>3
    <3>. HIDE DEF cells
    <3>1. RecsFrom(cells, n) = {}
      BY <3>0, RecsFromAll
    <3>. QED BY <2>1, <3>1
  <2>2. CASE ~(n < Len(seg.cells))
    BY <1>3, <2>2
  <2>. QED BY <2>1, <2>2
<1>. HIDE DEF cells, synced, oldest
<1>7. Recovered(seg) = [cells |-> cells, synced |-> synced, bytes |-> n,
                        sealed |-> TRUE, open |-> FALSE, oldest |-> oldest]
  BY DEF Recovered, cells, synced, oldest, n
<1>8. Recovered(seg) \in Segment
  BY <1>2, <1>3, <1>4, <1>5, <1>7 DEF Segment
<1>. QED BY <1>3, <1>4, <1>6, <1>7, <1>8 DEF UnsyncedRecs, cells, n

LEMMA RecoverType ==
    ASSUME NEW b, IsBuffer(b), NEW n \in Nat, Below(b, n),
           NEW cur \in Nat \X Nat, NEW r \in Nat \ {0}, NEW must,
           Durable(b, r, must, r)
    PROVE  /\ IsBuffer(Recover(b, cur))
           /\ Ids(Recover(b, cur)) = Ids(b)
           /\ Durable(Recover(b, cur), r, must, r)
<1>. DEFINE read == [i \in Ids(b) |-> Recovered(b.segs[i])]
            open == {i \in Ids(b) : /\ \A j \in Ids(b) : j <= i
                                    /\ read[i].bytes < SegmentBytes}
            segs == [i \in Ids(b) |-> [read[i] EXCEPT !.sealed = i \notin open]]
            active == IF open = {} THEN 0 ELSE Max(open)
            c == Recover(b, cur)
<1>1. \A i \in Ids(b) : SegmentDurable(b, i, r, must, r)
  BY DEF Durable
<1>2. \A i \in Ids(b) : /\ b.segs[i] \in Segment
                        /\ b.segs[i].synced <= Len(b.segs[i].cells)
  BY <1>1 DEF IsBuffer, SegmentDurable
<1>3. \A i \in Ids(b) :
         /\ read[i] \in Segment
         /\ read[i].synced <= Len(read[i].cells)
         /\ RecsFrom(read[i].cells, 0) \subseteq RecsFrom(b.segs[i].cells, 0)
         /\ UnsyncedRecs(read[i]) \subseteq UnsyncedRecs(b.segs[i])
  BY <1>2, RecoveredType
<1>. HIDE DEF read
<1>4. open # {} => active \in open
  BY MaxId
<1>. HIDE DEF open
<1>5. \A i \in Ids(b) : /\ segs[i] \in Segment
                        /\ segs[i].sealed = (i \notin open)
                        /\ segs[i].cells = read[i].cells
                        /\ segs[i].synced = read[i].synced
  BY <1>3 DEF Segment
<1>6. DOMAIN segs = Ids(b) /\ segs \in [DOMAIN segs -> Segment]
  BY <1>5
<1>7. active = 0 \/ (active \in DOMAIN segs /\ ~segs[active].sealed)
  <2>1. CASE open = {}
    BY <2>1
  <2>2. CASE open # {}
    <3>1. active \in open /\ active \in Ids(b)
      BY <1>4, <2>2 DEF open
    <3>. QED BY <1>5, <1>6, <3>1
  <2>. QED BY <2>1, <2>2
<1>8. c = [segs |-> segs, active |-> active, cursorSeg |-> cur[1], cursorOff |-> cur[2]]
  BY DEF Recover, read, open
<1>9. DOMAIN segs \subseteq Nat \ {0} /\ cur[1] \in Nat /\ cur[2] \in Nat
  BY <1>6 DEF IsBuffer
<1>. HIDE DEF segs, active, c
<1>10. IsBuffer(c)
  BY <1>6, <1>7, <1>8, <1>9, MakeBuffer
<1>11. Ids(c) = Ids(b) /\ c.segs = segs
  BY <1>6, <1>8 DEF Ids
<1>12. ASSUME NEW i \in Ids(b)
       PROVE  SegmentDurable(c, i, r, must, r)
  <2>1. RecsFrom(segs[i].cells, 0) \subseteq 1 .. r - 1 /\ segs[i].synced <= Len(segs[i].cells)
    BY <1>1, <1>3, <1>5 DEF SegmentDurable
  <2>2. UnsyncedRecs(segs[i]) \subseteq UnsyncedRecs(b.segs[i])
    BY <1>3, <1>5 DEF UnsyncedRecs
  <2>3. UnsyncedRecs(segs[i]) \subseteq RecsFrom(segs[i].cells, 0)
    BY <1>5, RecsFromAll DEF UnsyncedRecs, Segment
  <2>4. UnsyncedRecs(segs[i]) \cap must = {}
    BY <1>1, <2>2 DEF SegmentDurable
  <2>. QED BY <1>11, <2>1, <2>3, <2>4 DEF SegmentDurable
<1>. QED BY <1>10, <1>11, <1>12 DEF Durable, c

LEMMA PowerCutType ==
    ASSUME NEW b, IsBuffer(b), NEW k \in Nat, NEW r \in Nat \ {0}, NEW must, NEW mine,
           Durable(b, r, must, mine)
    PROVE  /\ IsBuffer(PowerCut(b, k))
           /\ Ids(PowerCut(b, k)) = Ids(b)
           /\ Durable(PowerCut(b, k), r, must, r)
           /\ \A i \in Ids(b) :
                 RecsFrom(b.segs[i].cells, KeptLen(b.segs[i], k)) \subseteq (1 .. r - 1) \ must
<1>. DEFINE d == OnDisk(b)
            cut(i) == KeptLen(b.segs[i], k)
            segs == [i \in Ids(b) |->
                       [d.segs[i] EXCEPT !.cells = SubSeq(b.segs[i].cells, 1, cut(i))]]
            c == PowerCut(b, k)
<1>d. d = [segs |-> d.segs, active |-> 0, cursorSeg |-> 0, cursorOff |-> 0]
  BY DEF OnDisk
<1>c. c = [segs |-> segs, active |-> 0, cursorSeg |-> 0, cursorOff |-> 0]
  <2>. HIDE DEF d
  <2>1. c = [d EXCEPT !.segs = segs]
    BY DEF PowerCut, d
  <2>. HIDE DEF segs, c
  <2>. QED BY <1>d, <2>1
<1>1. /\ IsBuffer(d) /\ Ids(d) = Ids(b) /\ Durable(d, r, must, r) /\ d.active = 0
      /\ \A i \in Ids(b) : d.segs[i].cells = b.segs[i].cells /\ d.segs[i].synced = b.segs[i].synced
  BY OnDiskFields, DurableOnDisk
<1>. HIDE DEF d
<1>2. \A i \in Ids(b) : /\ SegmentDurable(d, i, r, must, r)
                        /\ d.segs[i] \in Segment
                        /\ d.segs[i].cells \in Seq(Cell) /\ d.segs[i].synced \in Nat
  BY <1>1 DEF Durable, IsBuffer, Segment
<1>3. ASSUME NEW i \in Ids(b)
      PROVE  cut(i) \in 0..Len(d.segs[i].cells) /\ cut(i) >= d.segs[i].synced
  <2>1. d.segs[i].synced <= Len(d.segs[i].cells) /\ Len(d.segs[i].cells) \in Nat
    BY <1>2 DEF SegmentDurable
  <2>2. d.segs[i].cells = b.segs[i].cells /\ d.segs[i].synced = b.segs[i].synced
    BY <1>1
  <2>3. d.segs[i].synced \in Nat
    BY <1>2
  <2>. QED BY <2>1, <2>2, <2>3 DEF KeptLen
<1>. HIDE DEF cut
<1>4. \A i \in Ids(b) :
         /\ SubSeq(d.segs[i].cells, 1, cut(i)) \in Seq(Cell)
         /\ Len(SubSeq(d.segs[i].cells, 1, cut(i))) = cut(i)
         /\ RecsFrom(SubSeq(d.segs[i].cells, 1, cut(i)), 0)
               \subseteq RecsFrom(d.segs[i].cells, 0)
         /\ RecsFrom(SubSeq(d.segs[i].cells, 1, cut(i)), d.segs[i].synced)
               \subseteq RecsFrom(d.segs[i].cells, d.segs[i].synced)
  BY <1>2, <1>3, RecsFromPrefix
<1>5. \A i \in Ids(b) : /\ segs[i] \in Segment
                        /\ segs[i].cells = SubSeq(d.segs[i].cells, 1, cut(i))
                        /\ segs[i].synced = d.segs[i].synced
  BY <1>1, <1>2, <1>4 DEF Segment
<1>6. DOMAIN segs = Ids(b) /\ segs \in [DOMAIN segs -> Segment] /\ DOMAIN segs \subseteq Nat \ {0}
  BY <1>5 DEF IsBuffer
<1>7. c = [segs |-> segs, active |-> 0, cursorSeg |-> 0, cursorOff |-> 0]
  BY <1>c
<1>. HIDE DEF segs, c
<1>8. IsBuffer(c)
  BY <1>6, <1>7, MakeBuffer
<1>9. Ids(c) = Ids(b) /\ c.segs = segs
  BY <1>6, <1>7 DEF Ids
<1>10. ASSUME NEW i \in Ids(b)
       PROVE  SegmentDurable(c, i, r, must, r)
  <2>1. /\ segs[i].synced <= Len(segs[i].cells)
        /\ RecsFrom(segs[i].cells, 0) \subseteq RecsFrom(d.segs[i].cells, 0)
        /\ UnsyncedRecs(segs[i]) \subseteq UnsyncedRecs(d.segs[i])
    BY <1>2, <1>3, <1>4, <1>5 DEF UnsyncedRecs
  <2>2. /\ RecsFrom(d.segs[i].cells, 0) \subseteq 1 .. r - 1
        /\ UnsyncedRecs(d.segs[i]) \cap must = {}
        /\ UnsyncedRecs(d.segs[i]) \subseteq RecsFrom(d.segs[i].cells, 0)
    BY <1>2, RecsFromAll DEF SegmentDurable, UnsyncedRecs
  <2>. QED BY <1>9, <2>1, <2>2 DEF SegmentDurable
<1>11. ASSUME NEW i \in Ids(b)
       PROVE  RecsFrom(b.segs[i].cells, cut(i)) \subseteq (1 .. r - 1) \ must
  <2>1. \A x \in RecsFrom(d.segs[i].cells, cut(i)) : x \in RecsFrom(d.segs[i].cells, d.segs[i].synced)
    BY <1>2, <1>3, RecsFromMember
  <2>2. /\ RecsFrom(d.segs[i].cells, 0) \subseteq 1 .. r - 1
        /\ RecsFrom(d.segs[i].cells, d.segs[i].synced) \cap must = {}
        /\ RecsFrom(d.segs[i].cells, d.segs[i].synced) \subseteq RecsFrom(d.segs[i].cells, 0)
    BY <1>2, RecsFromAll DEF SegmentDurable, UnsyncedRecs
  <2>. QED BY <1>1, <2>1, <2>2
<1>. QED BY <1>8, <1>9, <1>10, <1>11 DEF Durable, c, cut

-----------------------------------------------------------------------------
LEMMA SealIfFullType ==
    ASSUME NEW b, IsBuffer(b), b.active # 0, NEW r \in Nat \ {0}, NEW must,
           NEW mine \in Nat \ {0}, Durable(b, r, must, mine)
    PROVE  /\ IsBuffer(SealIfFull(b)) /\ Ids(SealIfFull(b)) = Ids(b)
           /\ Durable(SealIfFull(b), r, must, mine)
<1>1. CASE b.segs[b.active].bytes >= SegmentBytes
  <2>. DEFINE c == SealActive(b)
  <2>1. IsBuffer(c) /\ Ids(c) = Ids(b) /\ c.active = 0
    BY SealActiveType
  <2>2. /\ \A i \in Ids(b) \ {b.active} : c.segs[i] = b.segs[i]
        /\ c.segs[b.active].cells = b.segs[b.active].cells
        /\ c.segs[b.active].synced = Len(b.segs[b.active].cells)
    BY SealActiveType
  <2>3. b.active \in Ids(b)
    BY DEF IsBuffer
  <2>. HIDE DEF c
  <2>4. Durable(c, r, must \cup (mine .. r - 1), mine)
    BY <2>1, <2>2, <2>3, DurableSynced
  <2>5. Durable(c, r, must, mine)
    BY <2>4 DEF Durable, SegmentDurable
  <2>. QED BY <1>1, <2>1, <2>5 DEF SealIfFull, c
<1>2. CASE ~(b.segs[b.active].bytes >= SegmentBytes)
  BY <1>2 DEF SealIfFull
<1>. QED BY <1>1, <1>2

LEMMA SyncActiveDurable ==
    ASSUME NEW b, IsBuffer(b), NEW r \in Nat \ {0}, NEW must,
           NEW mine \in Nat \ {0}, Durable(b, r, must, mine)
    PROVE  /\ IsBuffer(SyncActive(b)) /\ Ids(SyncActive(b)) = Ids(b)
           /\ Durable(SyncActive(b), r, must \cup (mine .. r - 1), mine)
<1>1. CASE b.active # 0 /\ b.segs[b.active].open
  <2>. DEFINE c == SyncActive(b)
  <2>1. IsBuffer(c) /\ Ids(c) = Ids(b) /\ c.active = b.active
    BY <1>1, SyncActiveType
  <2>2. /\ \A i \in Ids(b) \ {b.active} : c.segs[i] = b.segs[i]
        /\ c.segs[b.active].cells = b.segs[b.active].cells
        /\ c.segs[b.active].synced = Len(b.segs[b.active].cells)
    BY <1>1, SyncActiveType
  <2>3. b.active \in Ids(b)
    BY <1>1 DEF IsBuffer
  <2>. HIDE DEF c
  <2>4. Durable(c, r, must \cup (mine .. r - 1), mine)
    BY <2>1, <2>2, <2>3, DurableSynced
  <2>. QED BY <2>1, <2>4 DEF c
<1>2. CASE ~(b.active # 0 /\ b.segs[b.active].open)
  <2>1. SyncActive(b) = b
    BY <1>2 DEF SyncActive
  <2>2. ASSUME NEW i \in Ids(b)
        PROVE  SegmentDurable(b, i, r, must \cup (mine .. r - 1), mine)
    <3>1. SegmentDurable(b, i, r, must, mine)
      BY DEF Durable
    <3>2. ~(i = b.active /\ b.segs[i].open)
      BY <1>2 DEF IsBuffer
    <3>3. UnsyncedRecs(b.segs[i]) \subseteq 1 .. mine - 1
      BY <3>1, <3>2 DEF SegmentDurable
    <3>4. UnsyncedRecs(b.segs[i]) \cap (must \cup (mine .. r - 1)) = {}
      BY <3>1, <3>3 DEF SegmentDurable
    <3>. QED BY <3>1, <3>4 DEF SegmentDurable
  <2>. QED BY <2>1, <2>2 DEF Durable
<1>. QED BY <1>1, <1>2

LEMMA DroppedRecsType ==
    ASSUME NEW b, IsBuffer(b), NEW c
    PROVE  DroppedRecs(b, c) \subseteq Nat
<1>1. \A i \in Ids(b) : RecsFrom(b.segs[i].cells, 0) \subseteq Nat
  BY RecsFromAll DEF IsBuffer, Segment
<1>. QED BY <1>1 DEF DroppedRecs

LEMMA FoundType ==
    ASSUME NEW b, IsBuffer(b), NEW pos \in Nat \X Nat
    PROVE  Found(b, pos) \subseteq Entry /\ SkippedCorrupt(b, pos) \subseteq Nat
<1>1. \A i \in Ids(b) : /\ EnterAt(pos, i) \in Nat /\ i \in Nat
                        /\ b.segs[i].cells \in Seq(Cell)
  BY DEF EnterAt, IsBuffer, Segment
<1>2. SkippedCorrupt(b, pos) \subseteq Nat
  <2>1. \A i \in Ids(b) : RecsFrom(b.segs[i].cells, EnterAt(pos, i)) \subseteq Nat
    BY <1>1, RecsFromAll
  <2>. QED BY <2>1 DEF SkippedCorrupt, Walk
<1>3. ASSUME NEW i \in Yielding(b, pos)
      PROVE  EntryAt(b, pos, i) \in Entry
  <2>. DEFINE off == EnterAt(pos, i)
              cells == b.segs[i].cells
  <2>1. i \in Ids(b) /\ ReadableAt(cells, off)
    BY DEF Yielding, Walk
  <2>2. off \in Nat /\ i \in Nat /\ cells \in Seq(Cell)
    BY <1>1, <2>1
  <2>. HIDE DEF off, cells
  <2>3. off + 1 \in 1..Len(cells)
    BY <2>1, <2>2 DEF ReadableAt
  <2>4. cells[off + 1] \in Cell
    BY <2>2, <2>3
  <2>5. cells[off + 1].rec \in Nat /\ cells[off + 1].size \in Nat
    BY <2>4 DEF Cell
  <2>6. EntryAt(b, pos, i) = [rec |-> cells[off + 1].rec, seg |-> i,
                              end |-> off + cells[off + 1].size]
    BY DEF EntryAt, off, cells
  <2>. QED BY <2>2, <2>5, <2>6 DEF Entry
<1>. QED BY <1>2, <1>3 DEF Found

-----------------------------------------------------------------------------
(***************************************************************************)
(* The inductive invariant and its preservation, action by action.         *)
(***************************************************************************)
Inv == TypeOK /\ DurabilityInv

LEMMA InitInv == Init => Inv
<1>. SUFFICES ASSUME Init PROVE Inv
  OBVIOUS
<1>1. Ids(buf) = {} /\ buf.segs = <<>> /\ buf.active = 0
      /\ buf.cursorSeg = 0 /\ buf.cursorOff = 0
  BY DEF Init, Ids
<1>2. IsBuffer(buf)
  BY <1>1 DEF Init, IsBuffer, Ids
<1>3. TypeOK
  <2>1. batch \in [Readers -> Seq(Entry)] /\ at \in [Readers -> Nat]
    <3>1. \A S : <<>> \in Seq(S)
      OBVIOUS
    <3>2. batch = [d \in Readers |-> <<>>] /\ at = [d \in Readers |-> 0]
      BY DEF Init
    <3>3. batch \in [Readers -> Seq(Entry)]
      BY <3>1, <3>2, Zenon
    <3>. QED BY <3>2, <3>3
  <2>2. \A i \in Ids(buf) : i < nextRec + errs + stops
    BY <1>1
  <2>3. /\ saved \in Nat \X Nat /\ up \in BOOLEAN
        /\ clock \in Nat /\ stops \in Nat /\ errs \in Nat
        /\ nextRec \in Nat \ {0} /\ firstMine \in Nat \ {0}
        /\ acked \subseteq Nat /\ passed \subseteq Nat /\ strayed \in BOOLEAN
        /\ reported \subseteq Nat /\ corrupted \subseteq Nat
        /\ powerLost \subseteq Nat /\ flushed \subseteq Nat
        /\ evicted \in {"none", "clean", "orphaning"}
    <3>1. /\ saved = <<0, 0>> /\ clock = 1 /\ stops = 0 /\ errs = 0
          /\ nextRec = 1 /\ firstMine = 1 /\ evicted = "none" /\ up \in BOOLEAN
      BY DEF Init
    <3>2. /\ acked = {} /\ passed = {}
          /\ reported = {} /\ corrupted = {} /\ powerLost = {} /\ flushed = {}
      BY DEF Init
    <3>3. strayed \in BOOLEAN
      BY DEF Init
    <3>. QED BY <3>1, <3>2, <3>3
  <2>. QED BY <1>2, <2>1, <2>2, <2>3 DEF TypeOK
<1>4. DurabilityInv
  BY <1>1 DEF Init, DurabilityInv, Durable, Accepted, SyncedSurvivesPowerLoss
<1>. QED BY <1>3, <1>4 DEF Inv

\* Append up to the point where the frame is written
LEMMA MakeRoom ==
    ASSUME Inv, NEW n
    PROVE  /\ IsBuffer(AfterReclaim(n)) /\ Shrinks(buf, AfterReclaim(n))
           /\ IsBuffer(AfterEvict(n)) /\ Shrinks(buf, AfterEvict(n))
           /\ DroppedRecs(AfterReclaim(n), AfterEvict(n)) \subseteq Nat
<1>1. IsBuffer(buf) /\ Shrinks(buf, buf)
  BY DEF Inv, TypeOK, Shrinks
<1>2. IsBuffer(AfterReclaim(n)) /\ Shrinks(buf, AfterReclaim(n))
  BY <1>1, ReclaimType DEF AfterReclaim
<1>3. IsBuffer(AfterEvict(n)) /\ Shrinks(AfterReclaim(n), AfterEvict(n))
  BY <1>2, EvictOldestType DEF AfterEvict, Shrinks
<1>4. Shrinks(buf, AfterEvict(n))
  BY <1>2, <1>3 DEF Shrinks
<1>. QED BY <1>2, <1>3, <1>4, DroppedRecsType

LEMMA ReadyToWrite ==
    ASSUME Inv, up, NEW n
    PROVE  LET ready == EnsureActive(AfterEvict(n)) IN
           /\ IsBuffer(ready)
           /\ ready.active # 0 /\ ready.segs[ready.active].open
           /\ Below(ready, nextRec + errs + stops + 1)
           /\ Durable(ready, nextRec, flushed, firstMine)
<1>. DEFINE b == AfterEvict(n)
            m == nextRec + errs + stops
<1>1. IsBuffer(b) /\ Shrinks(buf, b)
  BY MakeRoom
<1>2. m \in Nat \ {0} /\ nextRec \in Nat /\ firstMine \in Nat
  BY DEF Inv, TypeOK
<1>3. Below(buf, m)
  BY DEF Inv, TypeOK, Below
<1>4. Below(b, m)
  BY <1>1, <1>3 DEF Below, Shrinks
<1>5. Durable(buf, nextRec, flushed, firstMine)
  BY DEF Inv, DurabilityInv
<1>6. Durable(b, nextRec, flushed, firstMine)
  BY <1>1, <1>5, DurableShrinks
<1>. HIDE DEF b, m
<1>7. /\ IsBuffer(EnsureActive(b)) /\ Below(EnsureActive(b), m + 1)
      /\ EnsureActive(b).active # 0 /\ EnsureActive(b).segs[EnsureActive(b).active].open
  BY <1>1, <1>2, <1>4, EnsureActiveType
<1>8. Durable(EnsureActive(b), nextRec, flushed, firstMine)
  BY <1>1, <1>2, <1>4, <1>6, DurableEnsureActive
<1>. QED BY <1>7, <1>8 DEF b, m

LEMMA AppendOkInv ==
    ASSUME Inv, NEW n \in Sizes, AppendOk(n)
    PROVE  Inv'
<1>. DEFINE ready == EnsureActive(AfterEvict(n))
            written == WriteFrame(ready, nextRec, n, clock)
<1>1. /\ n \in Nat /\ nextRec \in Nat \ {0} /\ clock \in Nat /\ up
      /\ firstMine \in Nat \ {0} /\ flushed \subseteq 1 .. nextRec - 1
      /\ errs \in Nat /\ stops \in Nat
  BY SizesAssumption DEF Inv, TypeOK, DurabilityInv, Accepted, AppendOk
<1>2. /\ IsBuffer(ready) /\ ready.active # 0 /\ ready.segs[ready.active].open
      /\ Below(ready, nextRec + errs + stops + 1)
      /\ Durable(ready, nextRec, flushed, firstMine)
  BY <1>1, ReadyToWrite
<1>. HIDE DEF ready
<1>3. /\ IsBuffer(written) /\ Ids(written) = Ids(ready) /\ written.active # 0
      /\ Durable(written, nextRec + 1, flushed, firstMine)
  <2>1. nextRec \in Nat /\ firstMine \in Nat
    BY <1>1
  <2>2. IsBuffer(written) /\ Ids(written) = Ids(ready)
    BY <1>1, <1>2, <2>1, WriteFrameType
  <2>3. written.active # 0
    BY <1>1, <1>2, <2>1, WriteFrameType
  <2>4. Durable(written, nextRec + 1, flushed, firstMine)
    BY <1>1, <1>2, <2>1, DurableWriteFrame
  <2>. QED BY <2>2, <2>3, <2>4
<1>4. buf' = SealIfFull(written)
  BY DEF AppendOk, ready
<1>. HIDE DEF written
<1>5. /\ IsBuffer(buf') /\ Ids(buf') = Ids(ready)
      /\ Durable(buf', nextRec + 1, flushed, firstMine)
  BY <1>1, <1>3, <1>4, SealIfFullType
<1>6. DroppedRecs(AfterReclaim(n), AfterEvict(n)) \subseteq Nat
  BY MakeRoom
<1>7. TypeOK'
  <2>1. \A i \in Ids(buf') : i < nextRec' + errs' + stops'
    BY <1>1, <1>2, <1>5 DEF Below, AppendOk, boundVars
  <2>2. reported' \subseteq Nat /\ evicted' \in {"none", "clean", "orphaning"}
    BY <1>6 DEF AppendOk, ReportEviction, Inv, TypeOK
  <2>. QED BY <1>1, <1>5, <2>1, <2>2
        DEF AppendOk, Inv, TypeOK, boundVars, readVars, ackVars, Ids
<1>8. DurabilityInv'
  <2>1. Durable(buf', nextRec', flushed', IF up' THEN firstMine' ELSE nextRec')
    BY <1>1, <1>5 DEF AppendOk
  <2>. QED BY <1>1, <2>1 DEF AppendOk, Inv, TypeOK, DurabilityInv, Accepted, SyncedSurvivesPowerLoss
<1>. QED BY <1>7, <1>8 DEF Inv

\* a step that only moves the cursor and removes segments
LEMMA ShrinkInv ==
    ASSUME Inv, IsBuffer(buf'), Shrinks(buf, buf'),
           saved' \in Nat \X Nat,
           batch' \in [Readers -> Seq(Entry)], at' \in [Readers -> Nat],
           acked' \subseteq Nat, passed' \subseteq Nat, strayed' \in BOOLEAN,
           reported' \subseteq Nat, corrupted' \subseteq Nat,
           evicted' \in {"none", "clean", "orphaning"},
           UNCHANGED <<up, clock, stops, errs, nextRec, powerLost, flushed, firstMine>>
    PROVE  Inv'
<1>1. \A i \in Ids(buf') : i < nextRec' + errs' + stops'
  BY DEF Shrinks, Inv, TypeOK
<1>2. TypeOK'
  BY <1>1 DEF Inv, TypeOK, Ids
<1>3. Durable(buf, nextRec, flushed, IF up THEN firstMine ELSE nextRec)
  BY DEF Inv, DurabilityInv
<1>4. Durable(buf', nextRec, flushed, IF up THEN firstMine ELSE nextRec)
  BY <1>3, DurableShrinks
<1>5. DurabilityInv'
  BY <1>4 DEF Inv, DurabilityInv, Accepted, SyncedSurvivesPowerLoss
<1>. QED BY <1>2, <1>5 DEF Inv

LEMMA AppendFullInv ==
    ASSUME Inv, NEW n \in Sizes, AppendFull(n)
    PROVE  Inv'
<1>1. IsBuffer(buf') /\ Shrinks(buf, buf')
  BY MakeRoom DEF AppendFull
<1>2. reported' \subseteq Nat /\ evicted' \in {"none", "clean", "orphaning"}
  BY MakeRoom DEF AppendFull, ReportEviction, Inv, TypeOK
<1>. QED BY <1>1, <1>2, ShrinkInv DEF AppendFull, Inv, TypeOK, boundVars, readVars, ackVars

LEMMA EvictExpiredInv ==
    ASSUME Inv, EvictExpired
    PROVE  Inv'
<1>. DEFINE m == nextRec + errs + stops
<1>1. IsBuffer(buf) /\ m \in Nat /\ Below(buf, m)
  BY DEF Inv, TypeOK, Below
<1>2. IsBuffer(buf') /\ Shrinks(buf, buf')
  BY <1>1, DropExpiredType DEF EvictExpired
<1>3. reported' \subseteq Nat /\ evicted' \in {"none", "clean", "orphaning"}
  BY <1>1, DroppedRecsType DEF EvictExpired, ReportEviction, Inv, TypeOK
<1>. QED BY <1>2, <1>3, ShrinkInv DEF EvictExpired, Inv, TypeOK, boundVars, readVars, ackVars

LEMMA ReadPosType ==
    ASSUME IsBuffer(buf), NEW d \in Readers, batch[d] \in Seq(Entry)
    PROVE  ReadPos(d) \in Nat \X Nat
<1>1. CASE batch[d] = <<>>
  BY <1>1 DEF ReadPos, IsBuffer
<1>2. CASE batch[d] # <<>>
  <2>1. batch[d][Len(batch[d])] \in Entry
    BY <1>2
  <2>. QED BY <1>2, <2>1 DEF ReadPos, Last, Entry
<1>. QED BY <1>1, <1>2

LEMMA PeekAfterInv ==
    ASSUME Inv, NEW d \in Readers, PeekAfter(d)
    PROVE  Inv'
<1>1. IsBuffer(buf) /\ Shrinks(buf, buf) /\ batch[d] \in Seq(Entry)
  BY DEF Inv, TypeOK, Shrinks
<1>2. ReadPos(d) \in Nat \X Nat
  BY <1>1, ReadPosType
<1>3. Found(buf, ReadPos(d)) \subseteq Entry /\ SkippedCorrupt(buf, ReadPos(d)) \subseteq Nat
  BY <1>1, <1>2, FoundType
<1>4. batch' \in [Readers -> Seq(Entry)] /\ corrupted' \subseteq Nat
  <2>1. ASSUME NEW e \in Found(buf, ReadPos(d))
        PROVE  Append(batch[d], e) \in Seq(Entry)
    <3>1. e \in Entry
      BY <1>3
    <3>. QED BY <1>1, <3>1
  <2>2. batch' \in [Readers -> Seq(Entry)]
    BY <2>1 DEF PeekAfter, Inv, TypeOK
  <2>3. corrupted' \subseteq Nat
    BY <1>3 DEF PeekAfter, Inv, TypeOK
  <2>. QED BY <2>2, <2>3
<1>5. buf' = buf /\ UNCHANGED <<saved, up, clock, stops, errs, nextRec, at, acked, passed,
                                strayed, reported, powerLost, flushed, firstMine, evicted>>
  BY DEF PeekAfter, bufVars, boundVars, ackVars
<1>. QED BY <1>1, <1>4, <1>5, ShrinkInv DEF Inv, TypeOK

LEMMA MoveCursor ==
    ASSUME NEW b, IsBuffer(b), NEW seg \in Nat, NEW off \in Nat
    PROVE  IsBuffer(SetCursor(b, seg, off)) /\ Shrinks(b, SetCursor(b, seg, off))
BY DEF IsBuffer, Shrinks, Ids, SetCursor

(***************************************************************************)
(* Ack and DeadLetter are one step: reader d acknowledges entry k of its   *)
(* batch, and s is what is left of the batch.                              *)
(***************************************************************************)
LosesEntry(bt, s, k) ==
    /\ s \in Seq(Entry)
    /\ Len(s) = Len(bt) - 1
    /\ \A j \in 1 .. Len(s) : s[j] = bt[IF j < k THEN j ELSE j + 1]

AckAt(d, k) ==
    /\ up /\ k \in 1 .. Len(batch[d])
    /\ AckEntry(batch[d][k], InFrontOf(d, k))
    /\ \E s : LosesEntry(batch[d], s, k) /\ batch' = [batch EXCEPT ![d] = s]
    /\ at' \in [Readers -> Nat]

LEMMA TailLoses ==
    ASSUME NEW bt \in Seq(Entry), bt # <<>>
    PROVE  LosesEntry(bt, Tail(bt), 1)
BY DEF LosesEntry

LEMMA RemoveLoses ==
    ASSUME NEW bt \in Seq(Entry), NEW k \in 1 .. Len(bt)
    PROVE  LosesEntry(bt, RemoveAt(bt, k), k)
<1>. DEFINE a == SubSeq(bt, 1, k - 1)
            z == SubSeq(bt, k + 1, Len(bt))
<1>1. /\ a \in Seq(Entry) /\ Len(a) = k - 1
      /\ \A j \in 1 .. k - 1 : a[j] = bt[j]
  OBVIOUS
<1>2. \A i \in k + 1 .. Len(bt) : bt[i] \in Entry
  OBVIOUS
<1>3. /\ z \in Seq(Entry)
      /\ Len(z) = IF k + 1 <= Len(bt) THEN Len(bt) - (k + 1) + 1 ELSE 0
      /\ \A j \in 1 .. Len(bt) - (k + 1) + 1 : z[j] = bt[(k + 1) + j - 1]
  <2>1. PICK m \in Int, n \in Int : m = k + 1 /\ n = Len(bt)
    OBVIOUS
  <2>2. \A i \in m .. n : bt[i] \in Entry
    BY <1>2, <2>1
  <2>3. /\ SubSeq(bt, m, n) \in Seq(Entry)
        /\ Len(SubSeq(bt, m, n)) = IF m <= n THEN n - m + 1 ELSE 0
        /\ \A i \in 1 .. n - m + 1 : SubSeq(bt, m, n)[i] = bt[m + i - 1]
    BY <2>2, SubSeqProperties
  <2>. QED BY <2>1, <2>3
<1>. HIDE DEF a, z
<1>4. /\ Len(z) = Len(bt) - k
      /\ \A j \in 1 .. Len(bt) - k : z[j] = bt[k + j]
  BY <1>3
<1>5. a \o z \in Seq(Entry) /\ Len(a \o z) = Len(bt) - 1
  <2>1. a \o z \in Seq(Entry) /\ Len(a \o z) = Len(a) + Len(z)
    BY <1>1, <1>3, ConcatProperties
  <2>. QED BY <1>1, <1>4, <2>1
<1>6. ASSUME NEW j \in 1 .. Len(a \o z)
      PROVE  (a \o z)[j] = bt[IF j < k THEN j ELSE j + 1]
  <2>1. CASE j < k
    <3>1. (a \o z)[j] = a[j]
      BY <1>1, <1>3, <1>5, <2>1
    <3>. QED BY <1>1, <1>5, <2>1, <3>1
  <2>2. CASE ~(j < k)
    <3>1. (a \o z)[j] = z[j - (k - 1)]
      BY <1>1, <1>3, <1>4, <1>5, <2>2
    <3>2. j - (k - 1) \in 1 .. Len(bt) - k /\ k + (j - (k - 1)) = j + 1
      BY <1>5, <2>2
    <3>. QED BY <1>4, <2>2, <3>1, <3>2
  <2>. QED BY <2>1, <2>2
<1>7. RemoveAt(bt, k) = a \o z
  BY DEF RemoveAt, a, z
<1>. QED BY <1>5, <1>6, <1>7 DEF LosesEntry

LEMMA AckIsAt ==
    ASSUME Inv, NEW d \in Readers
    PROVE  /\ Ack(d) => AckAt(d, 1)
           /\ \A k \in Nat : DeadLetter(d, k) => AckAt(d, k)
<1>1. batch[d] \in Seq(Entry) /\ at \in [Readers -> Nat]
  BY DEF Inv, TypeOK
<1>2. ASSUME Ack(d) PROVE AckAt(d, 1)
  <2>1. /\ up /\ batch[d] # <<>> /\ 1 \in 1 .. Len(batch[d])
        /\ Head(batch[d]) = batch[d][1]
    BY <1>1, <1>2 DEF Ack
  <2>2. InFrontOf(d, 1) = {}
    BY DEF InFrontOf
  <2>3. AckEntry(batch[d][1], InFrontOf(d, 1))
    BY <1>2, <2>1, <2>2 DEF Ack
  <2>4. LosesEntry(batch[d], Tail(batch[d]), 1) /\ batch' = [batch EXCEPT ![d] = Tail(@)]
    BY <1>1, <1>2, TailLoses DEF Ack
  <2>5. at' \in [Readers -> Nat]
    BY <1>1, <1>2 DEF Ack
  <2>. QED BY <2>1, <2>3, <2>4, <2>5 DEF AckAt
<1>3. ASSUME NEW k \in Nat, DeadLetter(d, k) PROVE AckAt(d, k)
  <2>1. /\ up /\ k \in 1 .. Len(batch[d])
        /\ AckEntry(batch[d][k], InFrontOf(d, k))
    BY <1>3 DEF DeadLetter
  <2>2. /\ LosesEntry(batch[d], RemoveAt(batch[d], k), k)
        /\ batch' = [batch EXCEPT ![d] = RemoveAt(batch[d], k)]
    BY <1>1, <1>3, <2>1, RemoveLoses DEF DeadLetter
  <2>3. at' \in [Readers -> Nat]
    BY <1>1, <1>3 DEF DeadLetter
  <2>. QED BY <2>1, <2>2, <2>3 DEF AckAt
<1>. QED BY <1>2, <1>3

LEMMA InFrontType ==
    ASSUME NEW d \in Readers, batch[d] \in Seq(Entry), NEW k \in 1 .. Len(batch[d])
    PROVE  InFrontOf(d, k) \subseteq Nat
<1>1. \A j \in 1 .. k - 1 : batch[d][j] \in Entry
  OBVIOUS
<1>. QED BY <1>1 DEF InFrontOf, Entry

LEMMA AckInv ==
    ASSUME Inv, NEW d \in Readers, NEW k \in Nat, AckAt(d, k)
    PROVE  Inv'
<1>. DEFINE e == batch[d][k]
            b == SetCursor(buf, e.seg, e.end)
<1>1. IsBuffer(buf) /\ batch[d] \in Seq(Entry) /\ k \in 1 .. Len(batch[d])
  BY DEF Inv, TypeOK, AckAt
<1>2. e \in Entry
  BY <1>1
<1>. HIDE DEF e
<1>3. e.rec \in Nat /\ e.seg \in Nat /\ e.end \in Nat
  BY <1>2 DEF Entry
<1>4. IsBuffer(b) /\ Shrinks(buf, b)
  BY <1>1, <1>3, MoveCursor
<1>5. /\ AckEntry(e, InFrontOf(d, k)) /\ at' \in [Readers -> Nat]
      /\ \E s \in Seq(Entry) : batch' = [batch EXCEPT ![d] = s]
  BY DEF AckAt, LosesEntry, e
<1>6. buf' = Reclaim(b)
  BY <1>5 DEF AckEntry
<1>. HIDE DEF b
<1>7. IsBuffer(buf') /\ Shrinks(buf, buf')
  BY <1>4, <1>6, ReclaimType DEF Shrinks
<1>8. batch' \in [Readers -> Seq(Entry)]
  BY <1>5 DEF Inv, TypeOK
<1>9. InFrontOf(d, k) \subseteq Nat
  BY <1>1, InFrontType
<1>10. /\ acked' \subseteq Nat /\ passed' \subseteq Nat /\ strayed' \in BOOLEAN
  BY <1>3, <1>5, <1>9 DEF AckEntry, Acknowledges, Inv, TypeOK
<1>11. /\ saved' \in Nat \X Nat
       /\ UNCHANGED <<up, clock, stops, errs, nextRec, reported, corrupted, powerLost,
                      flushed, firstMine, evicted>>
  BY <1>3, <1>5 DEF AckEntry, boundVars
<1>. QED BY <1>5, <1>7, <1>8, <1>10, <1>11, ShrinkInv DEF Inv, TypeOK

LEMMA AckFailsInv ==
    ASSUME Inv, NEW d \in Readers, NEW k \in Nat, AckFails(d, k)
    PROVE  Inv'
<1>. DEFINE e == batch[d][k]
<1>1. IsBuffer(buf) /\ batch[d] \in Seq(Entry) /\ k \in 1 .. Len(batch[d])
  BY DEF Inv, TypeOK, AckFails
<1>2. e \in Entry
  BY <1>1
<1>. HIDE DEF e
<1>3. e.rec \in Nat /\ e.seg \in Nat /\ e.end \in Nat
  BY <1>2 DEF Entry
<1>4. buf' = SetCursor(buf, e.seg, e.end) /\ Acknowledges(e, InFrontOf(d, k))
  BY DEF AckFails, e
<1>5. IsBuffer(buf') /\ Shrinks(buf, buf')
  BY <1>1, <1>3, <1>4, MoveCursor
<1>6. TypeOK'
  <2>1. /\ nextRec \in Nat /\ errs \in Nat /\ stops \in Nat
        /\ nextRec' = nextRec /\ errs' = errs + 1 /\ stops' = stops
    BY DEF Inv, TypeOK, AckFails
  <2>2. \A i \in Ids(buf') : i \in Nat /\ i < nextRec + errs + stops
    BY <1>5 DEF Shrinks, Inv, TypeOK, IsBuffer
  <2>3. \A i \in Ids(buf') : i < nextRec' + errs' + stops'
    BY <2>1, <2>2
  <2>4. /\ clock' \in Nat /\ stops' \in Nat /\ errs' \in Nat
        /\ nextRec' \in Nat \ {0} /\ firstMine' \in Nat \ {0}
    BY <2>1 DEF AckFails, Inv, TypeOK
  <2>5. acked' \subseteq Nat /\ passed' \subseteq Nat /\ strayed' \in BOOLEAN
    BY <1>1, <1>3, <1>4, InFrontType DEF Acknowledges, Inv, TypeOK
  <2>6. batch' \in [Readers -> Seq(Entry)] /\ at' \in [Readers -> Nat]
    BY DEF AckFails, Inv, TypeOK
  <2>7. /\ saved' \in Nat \X Nat /\ up' \in BOOLEAN
        /\ reported' \subseteq Nat /\ corrupted' \subseteq Nat
        /\ powerLost' \subseteq Nat /\ flushed' \subseteq Nat
        /\ evicted' \in {"none", "clean", "orphaning"}
    BY DEF AckFails, Inv, TypeOK
  <2>. QED BY <1>5, <2>3, <2>4, <2>5, <2>6, <2>7 DEF TypeOK, Ids
<1>7. Durable(buf', nextRec, flushed, IF up THEN firstMine ELSE nextRec)
  BY <1>5, DurableShrinks DEF Inv, DurabilityInv
<1>8. DurabilityInv'
  BY <1>7 DEF AckFails, Inv, DurabilityInv, Accepted, SyncedSurvivesPowerLoss
<1>. QED BY <1>6, <1>8 DEF Inv

LEMMA UnchangedInv ==
    ASSUME Inv, UNCHANGED <<bufVars, stops, errs, nextRec, histVars>>,
           clock' \in Nat, batch' \in [Readers -> Seq(Entry)], at' \in [Readers -> Nat]
    PROVE  Inv'
<1>1. TypeOK'
  BY DEF Inv, TypeOK, bufVars, histVars, ackVars, Ids
<1>2. DurabilityInv'
  BY DEF Inv, DurabilityInv, bufVars, histVars, Accepted, SyncedSurvivesPowerLoss
<1>. QED BY <1>1, <1>2 DEF Inv

LEMMA AppendFailsInv ==
    ASSUME Inv, NEW n \in Sizes, NEW k \in 0..(n - 1), AppendFails(n, k)
    PROVE  Inv'
<1>. DEFINE ready == EnsureActive(AfterEvict(n))
<1>1. /\ k \in Nat /\ nextRec \in Nat \ {0} /\ up
      /\ firstMine \in Nat /\ errs \in Nat /\ stops \in Nat
  BY SizesAssumption DEF Inv, TypeOK, AppendFails
<1>2. /\ IsBuffer(ready) /\ ready.active # 0 /\ ready.segs[ready.active].open
      /\ Below(ready, nextRec + errs + stops + 1)
      /\ Durable(ready, nextRec, flushed, firstMine)
  BY <1>1, ReadyToWrite
<1>3. buf' = WriteTorn(ready, k)
  BY DEF AppendFails
<1>. HIDE DEF ready
<1>4. IsBuffer(buf') /\ Ids(buf') = Ids(ready)
  BY <1>1, <1>2, <1>3, WriteTornType
<1>5. Durable(buf', nextRec, flushed, firstMine)
  BY <1>1, <1>2, <1>3, DurableWriteTorn
<1>6. TypeOK'
  <2>1. \A i \in Ids(buf') : i < nextRec' + errs' + stops'
    BY <1>1, <1>2, <1>4 DEF Below, AppendFails
  <2>2. reported' \subseteq Nat /\ evicted' \in {"none", "clean", "orphaning"}
    BY MakeRoom DEF AppendFails, ReportEviction, Inv, TypeOK
  <2>. QED BY <1>1, <1>4, <2>1, <2>2
        DEF AppendFails, Inv, TypeOK, readVars, ackVars, Ids
<1>7. DurabilityInv'
  BY <1>1, <1>5 DEF AppendFails, Inv, DurabilityInv, Accepted, SyncedSurvivesPowerLoss
<1>. QED BY <1>6, <1>7 DEF Inv

LEMMA SyncInv ==
    ASSUME Inv, Sync
    PROVE  Inv'
<1>1. /\ IsBuffer(buf) /\ nextRec \in Nat \ {0} /\ firstMine \in Nat \ {0} /\ up
      /\ Durable(buf, nextRec, flushed, firstMine)
      /\ flushed \subseteq 1 .. nextRec - 1
      /\ powerLost \subseteq 1 .. firstMine - 1
      /\ flushed \cap powerLost = {}
  BY DEF Inv, TypeOK, DurabilityInv, Sync, Accepted, SyncedSurvivesPowerLoss
<1>2. /\ IsBuffer(buf') /\ Ids(buf') = Ids(buf)
      /\ Durable(buf', nextRec, flushed \cup (firstMine .. nextRec - 1), firstMine)
  BY <1>1, SyncActiveDurable DEF Sync
<1>3. flushed' = flushed \cup (firstMine .. nextRec - 1)
  BY DEF Sync
<1>4. flushed' \subseteq 1 .. nextRec - 1 /\ flushed' \cap powerLost = {}
  BY <1>1, <1>3
<1>5. TypeOK'
  BY <1>1, <1>2, <1>4 DEF Inv, TypeOK, Sync, boundVars, readVars, ackVars, Ids
<1>6. DurabilityInv'
  BY <1>1, <1>2, <1>3, <1>4 DEF Inv, DurabilityInv, Sync, Accepted, SyncedSurvivesPowerLoss
<1>. QED BY <1>5, <1>6 DEF Inv

\* the process ends and leaves the files d
LEMMA StopInv ==
    ASSUME Inv, IsBuffer(buf'), Durable(buf', nextRec, flushed, nextRec),
           \A i \in Ids(buf') : i < nextRec + errs + stops + 1,
           ~up', stops' = stops + 1, saved' \in Nat \X Nat, DropBatches,
           reported' \subseteq Nat, evicted' \in {"none", "clean", "orphaning"},
           powerLost' \subseteq 1 .. nextRec - 1, flushed \cap powerLost' = {},
           up' \in BOOLEAN,
           UNCHANGED <<clock, errs, nextRec, ackVars, corrupted, flushed, firstMine>>
    PROVE  Inv'
<1>1. TypeOK'
  BY DEF DropBatches, Inv, TypeOK, ackVars, Ids
<1>2. DurabilityInv'
  BY DEF Inv, DurabilityInv, Accepted, SyncedSurvivesPowerLoss
<1>. QED BY <1>1, <1>2 DEF Inv

LEMMA KillInAppendInv ==
    ASSUME Inv, NEW n \in Sizes, NEW k \in 0..(n - 1), KillInAppend(n, k)
    PROVE  Inv'
<1>. DEFINE ready == EnsureActive(AfterEvict(n))
            written == WriteTorn(ready, k)
<1>1. /\ k \in Nat /\ nextRec \in Nat \ {0} /\ up
      /\ firstMine \in Nat /\ errs \in Nat /\ stops \in Nat
  BY SizesAssumption DEF Inv, TypeOK, KillInAppend
<1>2. /\ IsBuffer(ready) /\ ready.active # 0 /\ ready.segs[ready.active].open
      /\ Below(ready, nextRec + errs + stops + 1)
      /\ Durable(ready, nextRec, flushed, firstMine)
  BY <1>1, ReadyToWrite
<1>. HIDE DEF ready
<1>3. IsBuffer(written) /\ Ids(written) = Ids(ready)
  BY <1>1, <1>2, WriteTornType
<1>4. Durable(written, nextRec, flushed, firstMine)
  BY <1>1, <1>2, DurableWriteTorn
<1>5. buf' = OnDisk(written)
  BY DEF KillInAppend, ready
<1>. HIDE DEF written
<1>6. IsBuffer(buf') /\ Ids(buf') = Ids(ready)
  BY <1>3, <1>5, OnDiskFields
<1>7. Durable(buf', nextRec, flushed, nextRec)
  BY <1>1, <1>3, <1>4, <1>5, DurableOnDisk
<1>8. \A i \in Ids(buf') : i < nextRec + errs + stops + 1
  BY <1>2, <1>6 DEF Below
<1>9. reported' \subseteq Nat /\ evicted' \in {"none", "clean", "orphaning"}
  BY MakeRoom DEF KillInAppend, ReportEviction, Inv, TypeOK
<1>10. powerLost' \subseteq 1 .. nextRec - 1 /\ flushed \cap powerLost' = {}
  BY <1>1 DEF KillInAppend, Inv, TypeOK, DurabilityInv, SyncedSurvivesPowerLoss
<1>. QED BY <1>6, <1>7, <1>8, <1>9, <1>10, StopInv DEF KillInAppend, Inv, TypeOK

LEMMA KillInv ==
    ASSUME Inv, Kill
    PROVE  Inv'
<1>1. /\ IsBuffer(buf) /\ nextRec \in Nat \ {0} /\ firstMine \in Nat \ {0}
      /\ Durable(buf, nextRec, flushed, firstMine)
  BY DEF Inv, TypeOK, DurabilityInv, Kill
<1>2. /\ IsBuffer(buf') /\ Ids(buf') = Ids(buf)
      /\ Durable(buf', nextRec, flushed, nextRec)
  BY <1>1, OnDiskFields, DurableOnDisk DEF Kill
<1>3. \A i \in Ids(buf') : i < nextRec + errs + stops + 1
  BY <1>1, <1>2 DEF Inv, TypeOK, IsBuffer
<1>4. powerLost' \subseteq 1 .. nextRec - 1 /\ flushed \cap powerLost' = {}
  BY <1>1 DEF Kill, histVars, Inv, DurabilityInv, SyncedSurvivesPowerLoss
<1>. QED BY <1>2, <1>3, <1>4, StopInv DEF Kill, histVars, Inv, TypeOK

LEMMA CloseInv ==
    ASSUME Inv, Close
    PROVE  Inv'
<1>. DEFINE b == SyncActive(buf)
<1>1. /\ IsBuffer(buf) /\ nextRec \in Nat \ {0} /\ firstMine \in Nat \ {0}
      /\ Durable(buf, nextRec, flushed, firstMine)
  BY DEF Inv, TypeOK, DurabilityInv, Close
<1>2. /\ IsBuffer(b) /\ Ids(b) = Ids(buf)
      /\ Durable(b, nextRec, flushed \cup (firstMine .. nextRec - 1), firstMine)
  BY <1>1, SyncActiveDurable
<1>3. buf' = OnDisk(b)
  BY DEF Close, Closed
<1>. HIDE DEF b
<1>4. /\ IsBuffer(buf') /\ Ids(buf') = Ids(buf)
      /\ Durable(buf', nextRec, flushed \cup (firstMine .. nextRec - 1), nextRec)
  BY <1>1, <1>2, <1>3, OnDiskFields, DurableOnDisk
<1>5. Durable(buf', nextRec, flushed, nextRec)
  BY <1>4 DEF Durable, SegmentDurable
<1>6. \A i \in Ids(buf') : i < nextRec + errs + stops + 1
  BY <1>1, <1>4 DEF Inv, TypeOK, IsBuffer
<1>7. powerLost' \subseteq 1 .. nextRec - 1 /\ flushed \cap powerLost' = {}
  BY <1>1 DEF Close, histVars, Inv, DurabilityInv, SyncedSurvivesPowerLoss
<1>8. saved' \in Nat \X Nat
  BY <1>1 DEF Close, IsBuffer
<1>. QED BY <1>4, <1>5, <1>6, <1>7, <1>8, StopInv DEF Close, histVars, Inv, TypeOK

LEMMA PowerFailInv ==
    ASSUME Inv, NEW k \in 0..MaxBytes, PowerFail(k)
    PROVE  Inv'
<1>1. /\ IsBuffer(buf) /\ nextRec \in Nat \ {0} /\ firstMine \in Nat \ {0} /\ k \in Nat
      /\ Durable(buf, nextRec, flushed, firstMine)
  BY BoundsAssumption DEF Inv, TypeOK, DurabilityInv, PowerFail
<1>2. /\ IsBuffer(buf') /\ Ids(buf') = Ids(buf)
      /\ Durable(buf', nextRec, flushed, nextRec)
  BY <1>1, PowerCutType DEF PowerFail
<1>3. \A i \in Ids(buf) : RecsFrom(buf.segs[i].cells, KeptLen(buf.segs[i], k))
                             \subseteq (1 .. nextRec - 1) \ flushed
  BY <1>1, PowerCutType
<1>4. \A i \in Ids(buf') : i < nextRec + errs + stops + 1
  BY <1>1, <1>2 DEF Inv, TypeOK, IsBuffer
<1>5. powerLost \subseteq 1 .. nextRec - 1 /\ flushed \cap powerLost = {}
  BY <1>1 DEF Inv, DurabilityInv, SyncedSurvivesPowerLoss
<1>6. powerLost' \subseteq 1 .. nextRec - 1 /\ flushed \cap powerLost' = {}
  BY <1>3, <1>5 DEF PowerFail
<1>. QED BY <1>2, <1>4, <1>6, StopInv DEF PowerFail, Inv, TypeOK

LEMMA OpenInv ==
    ASSUME Inv, Open
    PROVE  Inv'
<1>. DEFINE m == nextRec + errs + stops
<1>1. /\ IsBuffer(buf) /\ nextRec \in Nat \ {0} /\ m \in Nat /\ Below(buf, m)
      /\ saved \in Nat \X Nat /\ Durable(buf, nextRec, flushed, nextRec)
  BY DEF Inv, TypeOK, DurabilityInv, Open, Below
<1>2. /\ IsBuffer(buf') /\ Ids(buf') = Ids(buf)
      /\ Durable(buf', nextRec, flushed, nextRec)
  BY <1>1, RecoverType DEF Open
<1>3. \A i \in Ids(buf) : RecsFrom(buf.segs[i].cells, GoodLen(buf.segs[i].cells)) \subseteq Nat
  <2>1. \A i \in Ids(buf) : buf.segs[i].cells \in Seq(Cell)
    BY <1>1 DEF IsBuffer, Segment
  <2>2. \A i \in Ids(buf) : GoodLen(buf.segs[i].cells) \in Nat
    BY <2>1, GoodLenType
  <2>. QED BY <2>1, <2>2, RecsFromAll
<1>4. corrupted' \subseteq Nat
  BY <1>3 DEF Open, Inv, TypeOK
<1>5. TypeOK'
  BY <1>1, <1>2, <1>4 DEF Inv, TypeOK, Open, boundVars, readVars, ackVars, Ids
<1>6. DurabilityInv'
  BY <1>1, <1>2 DEF Inv, DurabilityInv, Open, Accepted, SyncedSurvivesPowerLoss
<1>. QED BY <1>5, <1>6 DEF Inv

-----------------------------------------------------------------------------
LEMMA NextInv == Inv /\ [Next]_vars => Inv'
<1>. SUFFICES ASSUME Inv, [Next]_vars PROVE Inv'
  OBVIOUS
<1>1. ASSUME NEW n \in Sizes, AppendOk(n) \/ AppendFull(n) PROVE Inv'
  BY <1>1, AppendOkInv, AppendFullInv
<1>2. ASSUME NEW n \in Sizes, NEW k \in 0..(n - 1), AppendFails(n, k) \/ KillInAppend(n, k)
      PROVE  Inv'
  BY <1>2, AppendFailsInv, KillInAppendInv
<1>3. CASE Sync \/ EvictExpired
  BY <1>3, SyncInv, EvictExpiredInv
<1>4. ASSUME NEW d \in Readers, PeekAfter(d) \/ Ack(d) \/ Abandon(d) PROVE Inv'
  <2>1. CASE PeekAfter(d)
    BY <2>1, PeekAfterInv
  <2>2. CASE Ack(d)
    BY <2>2, AckIsAt, AckInv
  <2>3. CASE Abandon(d)
    <3>1. /\ UNCHANGED <<bufVars, stops, errs, nextRec, histVars>>
          /\ clock' \in Nat /\ batch' \in [Readers -> Seq(Entry)] /\ at' \in [Readers -> Nat]
      BY <2>3 DEF Abandon, boundVars, Inv, TypeOK
    <3>. QED BY <3>1, UnchangedInv
  <2>. QED BY <1>4, <2>1, <2>2, <2>3
<1>5. ASSUME NEW d \in Readers, NEW k \in 1..BatchSize, DeadLetter(d, k) \/ AckFails(d, k)
      PROVE  Inv'
  <2>1. k \in Nat
    BY BoundsAssumption
  <2>. QED BY <1>5, <2>1, AckIsAt, AckInv, AckFailsInv
<1>6. CASE Tick \/ UNCHANGED vars
  <2>1. clock \in Nat /\ batch \in [Readers -> Seq(Entry)] /\ at \in [Readers -> Nat]
    BY DEF Inv, TypeOK
  <2>2. UNCHANGED <<bufVars, stops, errs, nextRec, readVars, histVars>>
    BY <1>6 DEF Tick, vars, boundVars
  <2>3. clock' \in Nat
    BY <1>6, <2>1 DEF Tick, vars, boundVars
  <2>. QED BY <2>1, <2>2, <2>3, UnchangedInv DEF readVars
<1>7. CASE Close \/ Kill \/ Open
  BY <1>7, CloseInv, KillInv, OpenInv
<1>8. ASSUME NEW k \in 0..MaxBytes, PowerFail(k) PROVE Inv'
  BY <1>8, PowerFailInv
<1>. QED BY <1>1, <1>2, <1>3, <1>4, <1>5, <1>6, <1>7, <1>8 DEF Next

(***************************************************************************)
(* The Buffer struct, state.json and the readers keep their types, and the *)
(* active segment is never a sealed one, over every sequence of appends,   *)
(* evictions, acknowledgements in any order by any number of readers,      *)
(* write errors, crashes and recoveries.                                   *)
(***************************************************************************)
THEOREM TypeCorrect == Spec => []TypeOK
<1>1. Inv => TypeOK
  BY DEF Inv
<1>. QED BY InitInv, NextInv, <1>1, PTL DEF Spec

(***************************************************************************)
(* The inductive invariant behind SyncedSurvivesPowerLoss.                 *)
(***************************************************************************)
THEOREM DurabilityHolds == Spec => []DurabilityInv
<1>1. Inv => DurabilityInv
  BY DEF Inv
<1>. QED BY InitInv, NextInv, <1>1, PTL DEF Spec

(***************************************************************************)
(* No power failure takes a record its process had accepted before a Sync  *)
(* that returned, for every segment size, byte bound and record size.      *)
(***************************************************************************)
THEOREM SyncIsDurable == Spec => []SyncedSurvivesPowerLoss
<1>1. Inv => SyncedSurvivesPowerLoss
  BY DEF Inv, DurabilityInv
<1>. QED BY InitInv, NextInv, <1>1, PTL DEF Spec

-----------------------------------------------------------------------------
(* The order of the bytes in the files. *)

\* the offsets at which the frame that cell k belongs to begins and ends
Start(s, k) == k - s[k].pos
End(s, k) == Start(s, k) + s[k].size

\* every cell lies in a frame whose other cells, as far as the file has them, are its own
Framed(s) ==
    \A k \in 1 .. Len(s) : s[k].rec # 0 =>
        /\ 0 <= Start(s, k) /\ Start(s, k) < k /\ k <= End(s, k)
        /\ \A l \in 1 .. Len(s) : Start(s, k) < l /\ l <= End(s, k) =>
             s[l].rec = s[k].rec /\ s[l].size = s[k].size /\ Start(s, l) = Start(s, k)

\* records are in the order of acceptance, each once
Ordered(s) ==
    \A k, l \in 1 .. Len(s) : k < l /\ s[k].rec # 0 /\ s[l].rec # 0 =>
        s[k].rec < s[l].rec \/ (s[k].rec = s[l].rec /\ Start(s, k) = Start(s, l))

\* no frame is cut off at the end of the file
Whole(s) == \A k \in 1 .. Len(s) : s[k].rec # 0 => End(s, k) <= Len(s)

\* no unfinished frame begins before offset off
NoTorn(s, off) == \A k \in 1 .. Len(s) : k <= off => s[k].rec # 0

\* the reader stops at bytes: what is behind an unfinished frame is never out of its reach
Counted(seg) ==
    /\ seg.bytes <= Len(seg.cells)
    /\ \A off \in 0 .. Len(seg.cells) : NoTorn(seg.cells, off) =>
         /\ off <= seg.bytes
         /\ RecsFrom(seg.cells, off) # {} => off < seg.bytes

-----------------------------------------------------------------------------
(***************************************************************************)
(* Files that grow by a frame or by a part of one.                         *)
(***************************************************************************)
LEMMA CellAt ==
    ASSUME NEW s \in Seq(Cell), NEW k \in 1 .. Len(s)
    PROVE  s[k].rec \in Nat /\ s[k].pos \in Nat /\ s[k].size \in Nat
<1>1. s[k] \in Cell
  OBVIOUS
<1>. QED BY <1>1 DEF Cell

\* u is s with a frame of record r behind it, of which n bytes were to be written
HasFrame(s, u, r, n) ==
    /\ u \in Seq(Cell) /\ Len(u) = Len(s) + n
    /\ \A k \in 1 .. Len(s) : u[k] = s[k]
    /\ \A k \in 1 .. Len(u) : k > Len(s) =>
         u[k].rec = r /\ u[k].pos = k - Len(s) /\ u[k].size = n

LEMMA Concat ==
    ASSUME NEW s \in Seq(Cell), NEW f \in Seq(Cell)
    PROVE  \A u : u = s \o f =>
             /\ u \in Seq(Cell) /\ Len(u) = Len(s) + Len(f)
             /\ \A k \in 1 .. Len(s) : u[k] = s[k]
             /\ \A k \in 1 .. Len(f) : u[Len(s) + k] = f[k]
OBVIOUS

LEMMA WithFrame ==
    ASSUME NEW s \in Seq(Cell), NEW r \in Nat, NEW n \in Nat, NEW t \in Nat
    PROVE  HasFrame(s, s \o Frame(r, n, t), r, n)
<1>1. PICK f : f = Frame(r, n, t)
  OBVIOUS
<1>2. f \in Seq(Cell) /\ n = Len(f)
  BY <1>1, FrameType
<1>3. \A k \in 1 .. n : f[k].rec = r /\ f[k].pos = k /\ f[k].size = n
  BY <1>1 DEF Frame
<1>4. PICK u : u = s \o f
  OBVIOUS
<1>5. PICK m \in Nat : m = Len(s)
  OBVIOUS
<1>6. /\ u \in Seq(Cell) /\ Len(u) = m + n
      /\ \A k \in 1 .. m : u[k] = s[k]
      /\ \A k \in 1 .. n : u[m + k] = f[k]
  <2>1. /\ u \in Seq(Cell) /\ Len(u) = Len(s) + Len(f)
        /\ \A k \in 1 .. Len(s) : u[k] = s[k]
        /\ \A k \in 1 .. Len(f) : u[Len(s) + k] = f[k]
    BY <1>2, <1>4, Concat
  <2>2. Len(f) = n /\ Len(s) = m
    BY <1>2, <1>5
  <2>. QED BY <2>1, <2>2
<1>7. ASSUME NEW k \in 1 .. m + n, k > m
      PROVE  u[k].rec = r /\ u[k].pos = k - m /\ u[k].size = n
  <2>1. k - m \in 1 .. n /\ m + (k - m) = k
    BY <1>7
  <2>2. u[k] = f[k - m]
    BY <1>6, <2>1
  <2>. QED BY <1>3, <2>1, <2>2
<1>8. HasFrame(s, u, r, n)
  BY <1>5, <1>6, <1>7 DEF HasFrame
<1>. QED BY <1>1, <1>4, <1>8

LEMMA LogFrame ==
    ASSUME NEW s \in Seq(Cell), Framed(s), Ordered(s), Whole(s),
           NEW r \in Nat \ {0}, RecsFrom(s, 0) \subseteq 1 .. r - 1,
           NEW n \in Nat, NEW u, HasFrame(s, u, r, n)
    PROVE  Framed(u) /\ Ordered(u) /\ Whole(u)
<1>2. PICK m \in Nat : m = Len(s)
  OBVIOUS
<1>3. /\ u \in Seq(Cell) /\ Len(u) = m + n
      /\ \A k \in 1 .. m : u[k] = s[k]
      /\ \A k \in 1 .. m + n : k > m => u[k].rec = r /\ u[k].pos = k - m /\ u[k].size = n
  BY <1>2 DEF HasFrame
<1>4. \A k \in 1 .. m + n : u[k].rec \in Nat /\ u[k].pos \in Nat /\ u[k].size \in Nat
  BY <1>3, CellAt
<1>5. \A k \in 1 .. m : s[k].rec # 0 => s[k].rec < r
  <2>. SUFFICES ASSUME NEW k \in 1 .. m, s[k].rec # 0 PROVE s[k].rec < r
    OBVIOUS
  <2>1. s[k].rec \in RecsFrom(s, 0)
    BY <1>2, RecsFromMember
  <2>. QED BY <2>1
<1>6. Whole(u)
  <2>. SUFFICES ASSUME NEW k \in 1 .. m + n, u[k].rec # 0 PROVE End(u, k) <= m + n
    BY <1>3 DEF Whole
  <2>1. CASE k <= m
    <3>1. End(s, k) <= m /\ u[k] = s[k]
      BY <1>2, <1>3, <2>1 DEF Whole
    <3>2. End(u, k) = End(s, k)
      BY <3>1 DEF End, Start
    <3>3. End(u, k) \in Int
      BY <1>4 DEF End, Start
    <3>. QED BY <3>1, <3>2, <3>3
  <2>2. CASE k > m
    BY <1>3, <2>2 DEF End, Start
  <2>. QED BY <2>1, <2>2
<1>7. Framed(u)
  <2>. SUFFICES ASSUME NEW k \in 1 .. m + n, u[k].rec # 0
                PROVE  /\ 0 <= Start(u, k) /\ Start(u, k) < k /\ k <= End(u, k)
                       /\ \A l \in 1 .. m + n : Start(u, k) < l /\ l <= End(u, k) =>
                            /\ u[l].rec = u[k].rec /\ u[l].size = u[k].size
                            /\ Start(u, l) = Start(u, k)
    BY <1>3 DEF Framed
  <2>1. CASE k <= m
    <3>1. /\ u[k] = s[k] /\ End(s, k) <= m
          /\ 0 <= Start(s, k) /\ Start(s, k) < k /\ k <= End(s, k)
          /\ \A l \in 1 .. m : Start(s, k) < l /\ l <= End(s, k) =>
               s[l].rec = s[k].rec /\ s[l].size = s[k].size /\ Start(s, l) = Start(s, k)
      BY <1>2, <1>3, <2>1 DEF Framed, Whole
    <3>2. Start(u, k) = Start(s, k) /\ End(u, k) = End(s, k)
      BY <3>1 DEF End, Start
    <3>3. Start(s, k) \in Int /\ End(s, k) \in Int
      <4>1. s[k].pos \in Nat /\ s[k].size \in Nat /\ k \in Int
        BY <1>4, <3>1
      <4>. QED BY <4>1 DEF End, Start
    <3>4. ASSUME NEW l \in 1 .. m + n, Start(u, k) < l, l <= End(u, k)
          PROVE  u[l].rec = u[k].rec /\ u[l].size = u[k].size /\ Start(u, l) = Start(u, k)
      <4>1. l \in 1 .. m
        BY <3>1, <3>2, <3>3, <3>4
      <4>2. u[l] = s[l]
        BY <1>3, <4>1
      <4>. QED BY <3>1, <3>2, <3>4, <4>1, <4>2 DEF Start
    <3>. QED BY <3>1, <3>2, <3>4
  <2>2. CASE k > m
    <3>1. Start(u, k) = m /\ End(u, k) = m + n
      <4>1. u[k].pos = k - m /\ u[k].size = n /\ k \in Int
        BY <1>3, <2>2
      <4>. QED BY <4>1 DEF End, Start
    <3>2. ASSUME NEW l \in 1 .. m + n, m < l
          PROVE  u[l].rec = u[k].rec /\ u[l].size = u[k].size /\ Start(u, l) = m
      BY <1>3, <2>2, <3>2 DEF Start
    <3>. QED BY <2>2, <3>1, <3>2
  <2>. QED BY <2>1, <2>2
<1>8. Ordered(u)
  <2>. SUFFICES ASSUME NEW k \in 1 .. m + n, NEW l \in 1 .. m + n, k < l,
                       u[k].rec # 0, u[l].rec # 0
                PROVE  u[k].rec < u[l].rec \/ (u[k].rec = u[l].rec /\ Start(u, k) = Start(u, l))
    BY <1>3 DEF Ordered
  <2>1. CASE l <= m
    <3>1. u[k] = s[k] /\ u[l] = s[l] /\ k \in 1 .. m /\ l \in 1 .. m
      BY <1>3, <2>1
    <3>2. s[k].rec < s[l].rec \/ (s[k].rec = s[l].rec /\ Start(s, k) = Start(s, l))
      BY <1>2, <3>1 DEF Ordered
    <3>. QED BY <3>1, <3>2 DEF Start
  <2>2. CASE k <= m /\ l > m
    BY <1>3, <1>5, <2>2
  <2>3. CASE k > m
    <3>1. l > m /\ k - m \in 1 .. n /\ l - m \in 1 .. n
      BY <2>3
    <3>2. u[k].rec = u[l].rec /\ u[k].pos = k - m /\ u[l].pos = l - m
      BY <1>3, <2>3, <3>1
    <3>3. Start(u, k) = Start(u, l)
      BY <3>2 DEF Start
    <3>. QED BY <3>2, <3>3
  <2>. QED BY <2>1, <2>2, <2>3
<1>. QED BY <1>6, <1>7, <1>8

LEMMA LogTorn ==
    ASSUME NEW s \in Seq(Cell), Framed(s), Ordered(s), Whole(s), NEW n \in Nat,
           NEW u, HasFrame(s, u, 0, n)
    PROVE  Framed(u) /\ Ordered(u) /\ Whole(u)
<1>2. PICK m \in Nat : m = Len(s)
  OBVIOUS
<1>3. /\ u \in Seq(Cell) /\ Len(u) = m + n
      /\ \A k \in 1 .. m : u[k] = s[k]
      /\ \A k \in 1 .. m + n : k > m => u[k].rec = 0
  BY <1>2 DEF HasFrame
<1>4. \A k \in 1 .. m + n : u[k].rec \in Nat /\ u[k].pos \in Nat /\ u[k].size \in Nat
  BY <1>3, CellAt
<1>5. \A k \in 1 .. m : Start(u, k) = Start(s, k) /\ End(u, k) = End(s, k) /\ End(s, k) \in Int
  BY <1>3, <1>4 DEF Start, End
<1>6. ASSUME NEW k \in 1 .. m + n, u[k].rec # 0 PROVE k \in 1 .. m /\ u[k] = s[k]
  BY <1>3, <1>6
<1>7. \A k \in 1 .. m : s[k].rec # 0 =>
        /\ End(s, k) <= m
        /\ 0 <= Start(s, k) /\ Start(s, k) < k /\ k <= End(s, k)
        /\ \A l \in 1 .. m : Start(s, k) < l /\ l <= End(s, k) =>
             s[l].rec = s[k].rec /\ s[l].size = s[k].size /\ Start(s, l) = Start(s, k)
  BY <1>2 DEF Framed, Whole
<1>8. Whole(u)
  BY <1>3, <1>5, <1>6, <1>7 DEF Whole
<1>9. Framed(u)
  <2>. SUFFICES ASSUME NEW k \in 1 .. m + n, u[k].rec # 0
                PROVE  /\ 0 <= Start(u, k) /\ Start(u, k) < k /\ k <= End(u, k)
                       /\ \A l \in 1 .. m + n : Start(u, k) < l /\ l <= End(u, k) =>
                            /\ u[l].rec = u[k].rec /\ u[l].size = u[k].size
                            /\ Start(u, l) = Start(u, k)
    BY <1>3 DEF Framed
  <2>1. k \in 1 .. m /\ u[k] = s[k]
    BY <1>6
  <2>2. ASSUME NEW l \in 1 .. m + n, Start(u, k) < l, l <= End(u, k)
        PROVE  u[l].rec = u[k].rec /\ u[l].size = u[k].size /\ Start(u, l) = Start(u, k)
    <3>1. l \in 1 .. m
      BY <1>5, <1>7, <2>1, <2>2
    <3>. QED BY <1>3, <1>5, <1>7, <2>1, <2>2, <3>1
  <2>. QED BY <1>5, <1>7, <2>1, <2>2
<1>10. Ordered(u)
  <2>. SUFFICES ASSUME NEW k \in 1 .. m + n, NEW l \in 1 .. m + n, k < l,
                       u[k].rec # 0, u[l].rec # 0
                PROVE  u[k].rec < u[l].rec \/ (u[k].rec = u[l].rec /\ Start(u, k) = Start(u, l))
    BY <1>3 DEF Ordered
  <2>1. k \in 1 .. m /\ u[k] = s[k] /\ l \in 1 .. m /\ u[l] = s[l]
    BY <1>6
  <2>2. s[k].rec < s[l].rec \/ (s[k].rec = s[l].rec /\ Start(s, k) = Start(s, l))
    BY <1>2, <2>1 DEF Ordered
  <2>. QED BY <1>5, <2>1, <2>2
<1>. QED BY <1>8, <1>9, <1>10

-----------------------------------------------------------------------------
(***************************************************************************)
(* The invariant of the log, on a buffer b.                                *)
(***************************************************************************)
Cells(b, i) == b.segs[i].cells

OpenActive(b) == b.active # 0 /\ b.segs[b.active].open

\* the records of a segment are before those of the next; the segment appended to is the last
LogOK(b) ==
    /\ \A i \in Ids(b) : Framed(Cells(b, i)) /\ Ordered(Cells(b, i))
    /\ \A i, j \in Ids(b) : i < j =>
         \A r \in RecsFrom(Cells(b, i), 0), q \in RecsFrom(Cells(b, j), 0) : r < q
    /\ OpenActive(b) => \A j \in Ids(b) : j <= b.active

\* what a process that runs knows of its segments besides
RunOK(b) == \A i \in Ids(b) : Whole(Cells(b, i)) /\ Counted(b.segs[i])

\* cell k of segment i is behind the position pos in the log
After(pos, i, k) == i > pos[1] \/ (i = pos[1] /\ k > pos[2])

\* offset off is where a frame starts, unless torn cells or none follow
FrameStart(s, off) == \A k \in 1 .. Len(s) : k = off + 1 /\ s[k].rec # 0 => s[k].pos = 1

\* whatever is appended comes after pos, and pos is where a read can start
Within(b, pos) ==
    /\ pos[1] = 0 \/ \E j \in Ids(b) : pos[1] <= j
    /\ OpenActive(b) /\ pos[1] = b.active => pos[2] <= Len(Cells(b, b.active))
    /\ pos[1] \in Ids(b) =>
         NoTorn(Cells(b, pos[1]), pos[2]) /\ FrameStart(Cells(b, pos[1]), pos[2])

\* the records before pos are among gone
Behind(b, pos, gone) ==
    \A i \in Ids(b) : \A k \in 1 .. Len(Cells(b, i)) :
        Cells(b, i)[k].rec # 0 /\ ~After(pos, i, k) => Cells(b, i)[k].rec \in gone

\* the records after pos were accepted after r
Ahead(b, pos, r) ==
    \A i \in Ids(b) : \A k \in 1 .. Len(Cells(b, i)) :
        Cells(b, i)[k].rec # 0 /\ After(pos, i, k) => Cells(b, i)[k].rec > r

\* the first byte of record r is in a file
Placed(b, r) ==
    \E i \in Ids(b) : \E k \in 1 .. Len(Cells(b, i)) :
        Cells(b, i)[k].rec = r /\ Cells(b, i)[k].pos = 1

-----------------------------------------------------------------------------
(***************************************************************************)
(* Removing segments and cutting files short.                              *)
(***************************************************************************)
\* u is what is left of s
CutTo(s, u) ==
    /\ u \in Seq(Cell) /\ Len(u) <= Len(s)
    /\ \A k \in 1 .. Len(u) : u[k] = s[k]

\* c has some of the segments of b, each with some of its cells
Lessens(b, c) ==
    /\ Ids(c) \subseteq Ids(b)
    /\ \A i \in Ids(c) : CutTo(Cells(b, i), Cells(c, i))
    /\ OpenActive(c) => /\ OpenActive(b) /\ c.active = b.active
                        /\ Cells(c, c.active) = Cells(b, b.active)

\* no segment is newer than those that are kept
KeepsNewest(b, c) == \A i \in Ids(b) : \E j \in Ids(c) : i <= j

LEMMA CellsType ==
    ASSUME NEW b, IsBuffer(b), NEW i \in Ids(b)
    PROVE  Cells(b, i) \in Seq(Cell) /\ Len(Cells(b, i)) \in Nat /\ i \in Nat
           /\ b.segs[i].bytes \in Nat
BY DEF IsBuffer, Segment, Cells

LEMMA ActiveId ==
    ASSUME NEW b, IsBuffer(b), OpenActive(b)
    PROVE  b.active \in Ids(b)
BY DEF IsBuffer, OpenActive

LEMMA CutLog ==
    ASSUME NEW s \in Seq(Cell), NEW u, CutTo(s, u), Framed(s), Ordered(s)
    PROVE  Framed(u) /\ Ordered(u) /\ RecsFrom(u, 0) \subseteq RecsFrom(s, 0)
<1>1. \A k \in 1 .. Len(u) : k \in 1 .. Len(s) /\ u[k] = s[k]
  BY DEF CutTo
<1>2. \A k \in 1 .. Len(u) : Start(u, k) = Start(s, k) /\ End(u, k) = End(s, k)
  BY <1>1 DEF Start, End
<1>3. Framed(u)
  <2>. SUFFICES ASSUME NEW k \in 1 .. Len(u), u[k].rec # 0
                PROVE  /\ 0 <= Start(u, k) /\ Start(u, k) < k /\ k <= End(u, k)
                       /\ \A l \in 1 .. Len(u) : Start(u, k) < l /\ l <= End(u, k) =>
                            /\ u[l].rec = u[k].rec /\ u[l].size = u[k].size
                            /\ Start(u, l) = Start(u, k)
    BY DEF Framed
  <2>1. /\ 0 <= Start(s, k) /\ Start(s, k) < k /\ k <= End(s, k)
        /\ \A l \in 1 .. Len(s) : Start(s, k) < l /\ l <= End(s, k) =>
             s[l].rec = s[k].rec /\ s[l].size = s[k].size /\ Start(s, l) = Start(s, k)
    BY <1>1 DEF Framed
  <2>. QED BY <1>1, <1>2, <2>1
<1>4. Ordered(u)
  <2>. SUFFICES ASSUME NEW k \in 1 .. Len(u), NEW l \in 1 .. Len(u), k < l,
                       u[k].rec # 0, u[l].rec # 0
                PROVE  u[k].rec < u[l].rec \/ (u[k].rec = u[l].rec /\ Start(u, k) = Start(u, l))
    BY DEF Ordered
  <2>1. s[k].rec < s[l].rec \/ (s[k].rec = s[l].rec /\ Start(s, k) = Start(s, l))
    BY <1>1 DEF Ordered
  <2>. QED BY <1>1, <1>2, <2>1
<1>5. RecsFrom(u, 0) \subseteq RecsFrom(s, 0)
  BY <1>1, RecsFromMember
<1>. QED BY <1>3, <1>4, <1>5

LEMMA LessLog ==
    ASSUME NEW b, NEW c, IsBuffer(b), IsBuffer(c), Lessens(b, c), LogOK(b)
    PROVE  LogOK(c)
<1>1. \A i \in Ids(c) : /\ i \in Ids(b) /\ Cells(b, i) \in Seq(Cell)
                        /\ CutTo(Cells(b, i), Cells(c, i))
                        /\ Framed(Cells(b, i)) /\ Ordered(Cells(b, i))
  BY CellsType DEF Lessens, LogOK
<1>2. \A i \in Ids(c) : /\ Framed(Cells(c, i)) /\ Ordered(Cells(c, i))
                        /\ RecsFrom(Cells(c, i), 0) \subseteq RecsFrom(Cells(b, i), 0)
  BY <1>1, CutLog
<1>3. \A i, j \in Ids(c) : i < j =>
        \A r \in RecsFrom(Cells(c, i), 0), q \in RecsFrom(Cells(c, j), 0) : r < q
  BY <1>1, <1>2 DEF LogOK
<1>4. OpenActive(c) => \A j \in Ids(c) : j <= c.active
  BY <1>1 DEF LogOK, Lessens
<1>. QED BY <1>2, <1>3, <1>4 DEF LogOK

LEMMA LessWithin ==
    ASSUME NEW b, NEW c, IsBuffer(b), IsBuffer(c), Lessens(b, c), KeepsNewest(b, c),
           NEW pos \in Nat \X Nat, Within(b, pos)
    PROVE  Within(c, pos)
<1>1. pos[1] = 0 \/ \E j \in Ids(c) : pos[1] <= j
  <2>1. CASE pos[1] = 0
    BY <2>1
  <2>2. CASE pos[1] # 0
    <3>1. PICK i \in Ids(b) : pos[1] <= i
      BY <2>2 DEF Within
    <3>2. PICK j \in Ids(c) : i <= j
      BY DEF KeepsNewest
    <3>3. i \in Nat /\ j \in Nat /\ pos[1] \in Nat
      BY CellsType
    <3>. QED BY <3>1, <3>2, <3>3
  <2>. QED BY <2>1, <2>2
<1>2. OpenActive(c) /\ pos[1] = c.active => pos[2] <= Len(Cells(c, c.active))
  BY DEF Within, Lessens
<1>3. ASSUME pos[1] \in Ids(c)
      PROVE  NoTorn(Cells(c, pos[1]), pos[2]) /\ FrameStart(Cells(c, pos[1]), pos[2])
  <2>1. pos[1] \in Ids(b) /\ CutTo(Cells(b, pos[1]), Cells(c, pos[1]))
    BY <1>3 DEF Lessens
  <2>2. NoTorn(Cells(b, pos[1]), pos[2]) /\ FrameStart(Cells(b, pos[1]), pos[2])
    BY <2>1 DEF Within
  <2>3. Len(Cells(b, pos[1])) \in Nat /\ Len(Cells(c, pos[1])) \in Nat
    BY <1>3, <2>1, CellsType
  <2>4. \A k \in 1 .. Len(Cells(c, pos[1])) :
           k \in 1 .. Len(Cells(b, pos[1])) /\ Cells(c, pos[1])[k] = Cells(b, pos[1])[k]
    BY <2>1, <2>3 DEF CutTo
  <2>. QED BY <2>2, <2>4 DEF NoTorn, FrameStart
<1>. QED BY <1>1, <1>2, <1>3 DEF Within

\* a cell of c is one of b
LEMMA LessCell ==
    ASSUME NEW b, NEW c, IsBuffer(b), IsBuffer(c), Lessens(b, c),
           NEW i \in Ids(c), NEW k \in 1 .. Len(Cells(c, i))
    PROVE  i \in Ids(b) /\ k \in 1 .. Len(Cells(b, i)) /\ Cells(c, i)[k] = Cells(b, i)[k]
<1>1. i \in Ids(b) /\ CutTo(Cells(b, i), Cells(c, i))
  BY DEF Lessens
<1>2. Len(Cells(b, i)) \in Nat /\ Len(Cells(c, i)) \in Nat
  BY <1>1, CellsType
<1>. QED BY <1>1, <1>2 DEF CutTo

LEMMA LessBehind ==
    ASSUME NEW b, NEW c, IsBuffer(b), IsBuffer(c), Lessens(b, c),
           NEW pos, NEW gone, Behind(b, pos, gone)
    PROVE  Behind(c, pos, gone)
BY LessCell DEF Behind

LEMMA LessAhead ==
    ASSUME NEW b, NEW c, IsBuffer(b), IsBuffer(c), Lessens(b, c),
           NEW pos, NEW r, Ahead(b, pos, r)
    PROVE  Ahead(c, pos, r)
BY LessCell DEF Ahead

-----------------------------------------------------------------------------
(***************************************************************************)
(* Appending: a fresh segment, a frame or a part of one, sealing.          *)
(***************************************************************************)
\* c is b, or b with an empty segment a that is newer than all and appended to
Readies(b, c, a) ==
    \/ c = b /\ OpenActive(b)
    \/ /\ Ids(c) = Ids(b) \cup {a} /\ a \in Nat \ {0} /\ \A j \in Ids(b) : j < a
       /\ \A i \in Ids(b) : c.segs[i] = b.segs[i]
       /\ Cells(c, a) = <<>> /\ c.segs[a].bytes = 0
       /\ c.active = a

LEMMA EnsureReadies ==
    ASSUME NEW b, IsBuffer(b), NEW n \in Nat \ {0}, Below(b, n)
    PROVE  \E a : Readies(b, EnsureActive(b), a)
<1>1. CASE b.active # 0 /\ b.segs[b.active].open /\ ~b.segs[b.active].sealed
  BY <1>1 DEF EnsureActive, Readies, OpenActive
<1>2. CASE ~(b.active # 0 /\ b.segs[b.active].open /\ ~b.segs[b.active].sealed)
  <2>. DEFINE id == IF Ids(b) = {} THEN 1 ELSE Max(Ids(b)) + 1
              seg == [cells |-> <<>>, synced |-> 0, bytes |-> 0,
                      sealed |-> FALSE, open |-> TRUE, oldest |-> 0]
              segs == [i \in Ids(b) \cup {id} |-> IF i = id THEN seg ELSE b.segs[i]]
              c == EnsureActive(b)
  <2>1. id \in Nat \ {0} /\ \A j \in Ids(b) : j < id
    <3>1. CASE Ids(b) = {}
      BY <3>1
    <3>2. CASE Ids(b) # {}
      <4>1. Max(Ids(b)) \in Nat /\ \A i \in Ids(b) : i <= Max(Ids(b))
        BY <3>2, MaxId
      <4>2. Ids(b) \subseteq Nat
        BY DEF IsBuffer
      <4>. QED BY <3>2, <4>1, <4>2
    <3>. QED BY <3>1, <3>2
  <2>2. c = [segs |-> segs, active |-> id,
             cursorSeg |-> b.cursorSeg, cursorOff |-> b.cursorOff]
    BY <1>2 DEF EnsureActive, IsBuffer
  <2>3. seg.cells = <<>> /\ seg.bytes = 0
    OBVIOUS
  <2>. HIDE DEF id, seg
  <2>4. \A i \in Ids(b) : i # id /\ segs[i] = b.segs[i]
    BY <2>1, CellsType
  <2>5. DOMAIN segs = Ids(b) \cup {id} /\ segs[id] = seg
    OBVIOUS
  <2>. HIDE DEF segs
  <2>6. Ids(c) = Ids(b) \cup {id} /\ c.active = id /\ c.segs = segs
    BY <2>2, <2>5 DEF Ids
  <2>. HIDE DEF c
  <2>7. Readies(b, c, id)
    BY <2>1, <2>3, <2>4, <2>5, <2>6 DEF Readies, Cells
  <2>. QED BY <2>7 DEF c
<1>. QED BY <1>1, <1>2

LEMMA EmptyLog ==
    ASSUME NEW off \in Nat
    PROVE  /\ Framed(<<>>) /\ Ordered(<<>>) /\ Whole(<<>>) /\ RecsFrom(<<>>, 0) = {}
           /\ \A seg : seg.cells = <<>> /\ seg.bytes = 0 => Counted(seg)
<1>1. RecsFrom(<<>>, 0) = {}
  BY DEF RecsFrom
<1>2. \A o \in 0 .. 0 : o = 0
  OBVIOUS
<1>3. \A seg : seg.cells = <<>> /\ seg.bytes = 0 => Counted(seg)
  BY <1>1, <1>2 DEF Counted
<1>. QED BY <1>1, <1>3 DEF Framed, Ordered, Whole

LEMMA ReadyLog ==
    ASSUME NEW b, NEW c, IsBuffer(b), IsBuffer(c), NEW a, Readies(b, c, a), LogOK(b)
    PROVE  LogOK(c)
<1>1. CASE c = b
  BY <1>1
<1>2. CASE c # b
  <2>1. /\ Ids(c) = Ids(b) \cup {a} /\ a \in Nat \ {0} /\ \A j \in Ids(b) : j < a
        /\ \A i \in Ids(b) : Cells(c, i) = Cells(b, i)
        /\ Cells(c, a) = <<>> /\ c.active = a
    BY <1>2 DEF Readies, Cells
  <2>2. \A i \in Ids(c) : Framed(Cells(c, i)) /\ Ordered(Cells(c, i))
    BY <2>1, EmptyLog DEF LogOK
  <2>3. ASSUME NEW i \in Ids(c), NEW j \in Ids(c), i < j,
               NEW r \in RecsFrom(Cells(c, i), 0), NEW q \in RecsFrom(Cells(c, j), 0)
        PROVE  r < q
    <3>1. i \in Ids(b) /\ j \in Ids(b)
      BY <2>1, <2>3, EmptyLog
    <3>. QED BY <2>1, <2>3, <3>1 DEF LogOK
  <2>4. \A j \in Ids(c) : j <= c.active
    BY <2>1, CellsType
  <2>. QED BY <2>2, <2>3, <2>4 DEF LogOK
<1>. QED BY <1>1, <1>2

LEMMA ReadyRun ==
    ASSUME NEW b, NEW c, NEW a, Readies(b, c, a), RunOK(b)
    PROVE  RunOK(c)
<1>1. CASE c = b
  BY <1>1
<1>2. CASE c # b
  <2>1. /\ Ids(c) = Ids(b) \cup {a}
        /\ \A i \in Ids(b) : c.segs[i] = b.segs[i]
        /\ Cells(c, a) = <<>> /\ c.segs[a].bytes = 0
    BY <1>2 DEF Readies
  <2>2. Whole(Cells(c, a)) /\ Counted(c.segs[a])
    BY <2>1, EmptyLog DEF Cells
  <2>. QED BY <2>1, <2>2 DEF RunOK, Cells
<1>. QED BY <1>1, <1>2

LEMMA ReadyWithin ==
    ASSUME NEW b, NEW c, IsBuffer(b), IsBuffer(c), NEW a, Readies(b, c, a),
           NEW pos \in Nat \X Nat, Within(b, pos)
    PROVE  Within(c, pos)
<1>1. CASE c = b
  BY <1>1
<1>2. CASE c # b
  <2>1. /\ Ids(c) = Ids(b) \cup {a} /\ a \in Nat \ {0} /\ \A j \in Ids(b) : j < a
        /\ \A i \in Ids(b) : Cells(c, i) = Cells(b, i)
        /\ c.active = a
    BY <1>2 DEF Readies, Cells
  <2>2. pos[1] # a
    BY <2>1, CellsType DEF Within
  <2>. QED BY <2>1, <2>2 DEF Within
<1>. QED BY <1>1, <1>2

\* a fresh segment has no cells
LEMMA ReadyCell ==
    ASSUME NEW b, NEW c, NEW a, Readies(b, c, a), NEW i \in Ids(c), NEW k \in 1 .. Len(Cells(c, i))
    PROVE  i \in Ids(b) /\ Cells(c, i) = Cells(b, i)
<1>1. CASE c = b
  BY <1>1
<1>2. CASE c # b
  <2>1. /\ Ids(c) = Ids(b) \cup {a} /\ Len(Cells(c, a)) = 0
        /\ \A j \in Ids(b) : Cells(c, j) = Cells(b, j)
    BY <1>2 DEF Readies, Cells
  <2>2. i # a
    BY <2>1
  <2>. QED BY <2>1, <2>2
<1>. QED BY <1>1, <1>2

LEMMA ReadyPlaced ==
    ASSUME NEW b, NEW c, NEW a, Readies(b, c, a), IsBuffer(b), NEW r, Placed(b, r)
    PROVE  Placed(c, r)
<1>1. CASE c = b
  BY <1>1
<1>2. CASE c # b
  <2>1. Ids(b) \subseteq Ids(c) /\ \A j \in Ids(b) : Cells(c, j) = Cells(b, j)
    BY <1>2 DEF Readies, Cells
  <2>. QED BY <2>1 DEF Placed
<1>. QED BY <1>1, <1>2

\* c is b with n cells of record r behind the last cell of the active segment
Grows(b, c, r, n) ==
    /\ OpenActive(b) /\ OpenActive(c) /\ c.active = b.active
    /\ Ids(c) = Ids(b) /\ \A i \in Ids(b) \ {b.active} : c.segs[i] = b.segs[i]
    /\ HasFrame(Cells(b, b.active), Cells(c, b.active), r, n)

LEMMA WriteFrameGrows ==
    ASSUME NEW b, IsBuffer(b), OpenActive(b), NEW r \in Nat, NEW n \in Nat, NEW t \in Nat
    PROVE  /\ Grows(b, WriteFrame(b, r, n, t), r, n)
           /\ WriteFrame(b, r, n, t).segs[b.active].bytes = b.segs[b.active].bytes + n
<1>. DEFINE c == WriteFrame(b, r, n, t)
            old == b.segs[b.active]
            seg == [old EXCEPT !.cells = old.cells \o Frame(r, n, t), !.bytes = old.bytes + n,
                               !.oldest = IF old.oldest = 0 THEN t ELSE old.oldest]
<1>1. b.active \in Ids(b) /\ Cells(b, b.active) \in Seq(Cell) /\ old \in Segment
  BY ActiveId, CellsType DEF IsBuffer
<1>2. /\ Ids(c) = Ids(b) /\ c.active = b.active
      /\ \A i \in Ids(b) \ {b.active} : c.segs[i] = b.segs[i]
      /\ Cells(c, b.active) = Cells(b, b.active) \o Frame(r, n, t)
      /\ c.segs[b.active].open = b.segs[b.active].open
  <2>. HIDE DEF seg, old
  <2>1. b.active # 0
    BY DEF OpenActive
  <2>2. /\ Ids(c) = Ids(b) /\ c.active = b.active
        /\ \A i \in Ids(b) \ {b.active} : c.segs[i] = b.segs[i]
    BY <2>1, WriteFrameType
  <2>3. c.segs[b.active].cells = b.segs[b.active].cells \o Frame(r, n, t)
    BY <2>1, WriteFrameType
  <2>4. c.segs[b.active].open = b.segs[b.active].open
    BY <2>1, WriteFrameType
  <2>. QED BY <2>2, <2>3, <2>4 DEF Cells
<1>3. HasFrame(Cells(b, b.active), Cells(b, b.active) \o Frame(r, n, t), r, n)
  BY <1>1, WithFrame
<1>4. c.segs[b.active].bytes = old.bytes + n
  <2>1. seg.bytes = old.bytes + n
    BY <1>1 DEF Segment
  <2>2. c = UpdateActive(b, seg)
    BY DEF WriteFrame
  <2>. HIDE DEF c, seg
  <2>3. c.segs = [b.segs EXCEPT ![b.active] = seg]
    BY <2>2, UpdateFields
  <2>4. c.segs[b.active] = seg
    BY <1>1, <2>3 DEF IsBuffer
  <2>. QED BY <2>1, <2>4
<1>. HIDE DEF c
<1>5. OpenActive(c)
  BY <1>2 DEF OpenActive
<1>. QED BY <1>2, <1>3, <1>4, <1>5 DEF Grows, c

LEMMA WriteTornGrows ==
    ASSUME NEW b, IsBuffer(b), OpenActive(b), NEW n \in Nat
    PROVE  /\ Grows(b, WriteTorn(b, n), 0, n)
           /\ WriteTorn(b, n).segs[b.active].bytes = b.segs[b.active].bytes
<1>. DEFINE c == WriteTorn(b, n)
            old == b.segs[b.active]
            seg == [old EXCEPT !.cells = old.cells \o Torn(n)]
<1>1. b.active \in Ids(b) /\ Cells(b, b.active) \in Seq(Cell) /\ old \in Segment
  BY ActiveId, CellsType DEF IsBuffer
<1>2. /\ Ids(c) = Ids(b) /\ c.active = b.active
      /\ \A i \in Ids(b) \ {b.active} : c.segs[i] = b.segs[i]
      /\ Cells(c, b.active) = Cells(b, b.active) \o Torn(n)
      /\ c.segs[b.active].open = b.segs[b.active].open
  BY WriteTornType DEF OpenActive, Cells
<1>3. HasFrame(Cells(b, b.active), Cells(b, b.active) \o Torn(n), 0, n)
  BY <1>1, WithFrame DEF Torn
<1>4. c.segs[b.active].bytes = old.bytes
  <2>1. seg.bytes = old.bytes
    BY <1>1 DEF Segment
  <2>2. c = UpdateActive(b, seg)
    BY DEF WriteTorn
  <2>. HIDE DEF c, seg
  <2>3. c.segs = [b.segs EXCEPT ![b.active] = seg]
    BY <2>2, UpdateFields
  <2>4. c.segs[b.active] = seg
    BY <1>1, <2>3 DEF IsBuffer
  <2>. QED BY <2>1, <2>4
<1>. HIDE DEF c
<1>5. OpenActive(c)
  BY <1>2 DEF OpenActive
<1>. QED BY <1>2, <1>3, <1>4, <1>5 DEF Grows, c

\* the records of the active segment after the write
LEMMA GrowRecs ==
    ASSUME NEW s \in Seq(Cell), NEW u, NEW r \in Nat, NEW n \in Nat, HasFrame(s, u, r, n)
    PROVE  RecsFrom(u, 0) \subseteq RecsFrom(s, 0) \cup ({r} \ {0})
<1>. SUFFICES ASSUME NEW q \in RecsFrom(u, 0) PROVE q \in RecsFrom(s, 0) \cup ({r} \ {0})
  OBVIOUS
<1>1. PICK k \in 1 .. Len(u) : u[k].rec = q /\ q # 0
  BY RecsFromMember
<1>2. CASE k <= Len(s)
  <2>1. k \in 1 .. Len(s) /\ s[k].rec = q /\ k > 0
    BY <1>1, <1>2 DEF HasFrame
  <2>. QED BY <1>1, <2>1, RecsFromMember
<1>3. CASE k > Len(s)
  BY <1>1, <1>3 DEF HasFrame
<1>. QED BY <1>2, <1>3

LEMMA GrowLog ==
    ASSUME NEW b, NEW c, IsBuffer(b), IsBuffer(c), NEW r \in Nat, NEW q \in Nat \ {0},
           NEW n \in Nat, r \in {0, q}, Grows(b, c, r, n), LogOK(b), RunOK(b),
           \A i \in Ids(b) : RecsFrom(Cells(b, i), 0) \subseteq 1 .. q - 1
    PROVE  LogOK(c) /\ \A i \in Ids(c) : Whole(Cells(c, i))
<1>. DEFINE a == b.active
<1>1. /\ a \in Ids(b) /\ Cells(b, a) \in Seq(Cell) /\ Ids(c) = Ids(b) /\ c.active = a
      /\ \A i \in Ids(b) \ {a} : Cells(c, i) = Cells(b, i)
      /\ HasFrame(Cells(b, a), Cells(c, a), r, n)
      /\ \A j \in Ids(b) : j <= a
  BY ActiveId, CellsType DEF Grows, LogOK, Cells
<1>2. Framed(Cells(b, a)) /\ Ordered(Cells(b, a)) /\ Whole(Cells(b, a))
  BY <1>1 DEF LogOK, RunOK
<1>. HIDE DEF a
<1>3. Framed(Cells(c, a)) /\ Ordered(Cells(c, a)) /\ Whole(Cells(c, a))
  <2>1. CASE r = 0
    BY <1>1, <1>2, <2>1, LogTorn
  <2>2. CASE r # 0
    <3>1. r = q /\ RecsFrom(Cells(b, a), 0) \subseteq 1 .. r - 1
      BY <1>1, <2>2
    <3>. QED BY <1>1, <1>2, <2>2, <3>1, LogFrame
  <2>. QED BY <2>1, <2>2
<1>4. \A i \in Ids(c) : Framed(Cells(c, i)) /\ Ordered(Cells(c, i)) /\ Whole(Cells(c, i))
  BY <1>1, <1>3 DEF LogOK, RunOK
<1>5. ASSUME NEW i \in Ids(c), NEW j \in Ids(c), i < j,
             NEW x \in RecsFrom(Cells(c, i), 0), NEW y \in RecsFrom(Cells(c, j), 0)
      PROVE  x < y
  <2>1. i # a /\ x \in RecsFrom(Cells(b, i), 0)
    <3>1. i \in Nat /\ j \in Nat /\ a \in Nat
      BY <1>1, CellsType
    <3>2. i # a
      BY <1>1, <1>5, <3>1
    <3>. QED BY <1>1, <3>2
  <2>2. CASE y \in RecsFrom(Cells(b, j), 0)
    BY <1>1, <1>5, <2>1, <2>2 DEF LogOK
  <2>3. CASE y \notin RecsFrom(Cells(b, j), 0)
    <3>1. j = a
      BY <1>1, <2>3
    <3>2. y = r /\ r # 0
      BY <1>1, <2>3, <3>1, GrowRecs
    <3>3. x \in 1 .. q - 1
      BY <1>1, <2>1
    <3>. QED BY <3>2, <3>3
  <2>. QED BY <2>2, <2>3
<1>6. \A j \in Ids(c) : j <= c.active
  BY <1>1
<1>. QED BY <1>4, <1>5, <1>6 DEF LogOK

LEMMA GrowWithin ==
    ASSUME NEW b, NEW c, IsBuffer(b), IsBuffer(c), NEW r \in Nat, NEW n \in Nat,
           Grows(b, c, r, n), NEW pos \in Nat \X Nat, Within(b, pos)
    PROVE  Within(c, pos)
<1>. DEFINE a == b.active
            s == Cells(b, a)
            u == Cells(c, a)
<1>1. /\ a \in Ids(b) /\ s \in Seq(Cell) /\ Ids(c) = Ids(b) /\ c.active = a
      /\ \A i \in Ids(b) \ {a} : Cells(c, i) = Cells(b, i)
      /\ HasFrame(s, u, r, n)
      /\ OpenActive(b)
  BY ActiveId, CellsType DEF Grows, Cells
<1>2. pos[1] = a => pos[2] <= Len(s) /\ NoTorn(s, pos[2]) /\ FrameStart(s, pos[2])
  BY <1>1 DEF Within
<1>. HIDE DEF s, u, a
<1>3. PICK m \in Nat : m = Len(s)
  BY <1>1
<1>4. /\ u \in Seq(Cell) /\ Len(u) = m + n
      /\ \A k \in 1 .. m : u[k] = s[k]
      /\ \A k \in 1 .. m + n : k > m => u[k].rec = r /\ u[k].pos = k - m /\ u[k].size = n
  BY <1>1, <1>3 DEF HasFrame
<1>5. ASSUME pos[1] = a
      PROVE  pos[2] <= Len(u) /\ NoTorn(u, pos[2]) /\ FrameStart(u, pos[2])
  <2>1. pos[2] <= m /\ pos[2] \in Nat
    BY <1>2, <1>3, <1>5
  <2>2. NoTorn(u, pos[2])
    <3>. SUFFICES ASSUME NEW k \in 1 .. m + n, k <= pos[2] PROVE u[k].rec # 0
      BY <1>4 DEF NoTorn
    <3>1. k \in 1 .. m
      BY <2>1
    <3>. QED BY <1>2, <1>3, <1>4, <1>5, <3>1 DEF NoTorn
  <2>3. FrameStart(u, pos[2])
    <3>. SUFFICES ASSUME NEW k \in 1 .. m + n, k = pos[2] + 1, u[k].rec # 0 PROVE u[k].pos = 1
      BY <1>4 DEF FrameStart
    <3>1. CASE k \in 1 .. m
      BY <1>2, <1>3, <1>4, <1>5, <3>1 DEF FrameStart
    <3>2. CASE k \notin 1 .. m
      <4>1. k > m /\ k - m = 1
        BY <2>1, <3>2
      <4>. QED BY <1>4, <4>1
    <3>. QED BY <3>1, <3>2
  <2>. QED BY <1>4, <2>1, <2>2, <2>3
<1>6. pos[1] = 0 \/ \E j \in Ids(c) : pos[1] <= j
  BY <1>1 DEF Within
<1>7. OpenActive(c) /\ pos[1] = c.active => pos[2] <= Len(Cells(c, c.active))
  BY <1>1, <1>5 DEF u
<1>8. pos[1] \in Ids(c) =>
        NoTorn(Cells(c, pos[1]), pos[2]) /\ FrameStart(Cells(c, pos[1]), pos[2])
  BY <1>1, <1>5 DEF u, Within
<1>. QED BY <1>6, <1>7, <1>8 DEF Within

\* a cell of c is one of b or one of the new frame
LEMMA GrowCell ==
    ASSUME NEW b, NEW c, IsBuffer(b), IsBuffer(c), NEW r \in Nat, NEW n \in Nat,
           Grows(b, c, r, n), NEW i \in Ids(c), NEW k \in 1 .. Len(Cells(c, i))
    PROVE  /\ i \in Ids(b)
           /\ \/ k \in 1 .. Len(Cells(b, i)) /\ Cells(c, i)[k] = Cells(b, i)[k]
              \/ i = b.active /\ k > Len(Cells(b, i)) /\ Cells(c, i)[k].rec = r
<1>1. i \in Ids(b) /\ Len(Cells(b, i)) \in Nat
  BY CellsType DEF Grows
<1>2. CASE i # b.active
  BY <1>1, <1>2 DEF Grows, Cells
<1>3. CASE i = b.active
  BY <1>1, <1>3 DEF Grows, HasFrame
<1>. QED BY <1>1, <1>2, <1>3

LEMMA GrowBehind ==
    ASSUME NEW b, NEW c, IsBuffer(b), IsBuffer(c), NEW r \in Nat, NEW n \in Nat,
           Grows(b, c, r, n), LogOK(b), NEW pos \in Nat \X Nat, Within(b, pos),
           NEW gone, Behind(b, pos, gone)
    PROVE  Behind(c, pos, gone)
<1>. SUFFICES ASSUME NEW i \in Ids(c), NEW k \in 1 .. Len(Cells(c, i)),
                     Cells(c, i)[k].rec # 0, ~After(pos, i, k)
              PROVE  Cells(c, i)[k].rec \in gone
  BY DEF Behind
<1>1. CASE i \in Ids(b) /\ k \in 1 .. Len(Cells(b, i)) /\ Cells(c, i)[k] = Cells(b, i)[k]
  BY <1>1 DEF Behind
<1>2. CASE i = b.active /\ k > Len(Cells(b, i))
  <2>1. /\ OpenActive(b) /\ i \in Ids(b) /\ i \in Nat \ {0}
        /\ pos[1] \in Nat /\ pos[2] \in Nat /\ k \in Nat /\ Len(Cells(b, i)) \in Nat
    BY <1>2, ActiveId, CellsType DEF Grows, IsBuffer
  <2>2. pos[1] <= i
    <3>1. CASE pos[1] = 0
      BY <2>1, <3>1
    <3>2. CASE pos[1] # 0
      <4>1. PICK j \in Ids(b) : pos[1] <= j
        BY <3>2 DEF Within
      <4>2. j <= i /\ j \in Nat
        BY <1>2, <2>1, CellsType DEF LogOK
      <4>. QED BY <2>1, <4>1, <4>2
    <3>. QED BY <3>1, <3>2
  <2>3. pos[1] = i => pos[2] <= Len(Cells(b, i))
    BY <1>2, <2>1 DEF Within
  <2>4. After(pos, i, k)
    BY <1>2, <2>1, <2>2, <2>3 DEF After
  <2>. QED BY <2>4
<1>. QED BY <1>1, <1>2, GrowCell

LEMMA GrowAhead ==
    ASSUME NEW b, NEW c, IsBuffer(b), IsBuffer(c), NEW r \in Nat, NEW n \in Nat,
           Grows(b, c, r, n), NEW pos, NEW q \in Nat, r = 0 \/ q < r, Ahead(b, pos, q)
    PROVE  Ahead(c, pos, q)
<1>. SUFFICES ASSUME NEW i \in Ids(c), NEW k \in 1 .. Len(Cells(c, i)),
                     Cells(c, i)[k].rec # 0, After(pos, i, k)
              PROVE  Cells(c, i)[k].rec > q
  BY DEF Ahead
<1>1. CASE i \in Ids(b) /\ k \in 1 .. Len(Cells(b, i)) /\ Cells(c, i)[k] = Cells(b, i)[k]
  BY <1>1 DEF Ahead
<1>2. CASE Cells(c, i)[k].rec = r
  BY <1>2
<1>. QED BY <1>1, <1>2, GrowCell

LEMMA GrowPlaced ==
    ASSUME NEW b, NEW c, IsBuffer(b), IsBuffer(c), NEW r \in Nat, NEW n \in Nat,
           Grows(b, c, r, n)
    PROVE  /\ \A q : Placed(b, q) => Placed(c, q)
           /\ n > 0 => Placed(c, r)
<1>. DEFINE a == b.active
<1>1. /\ a \in Ids(b) /\ Len(Cells(b, a)) \in Nat /\ Ids(c) = Ids(b)
      /\ \A i \in Ids(b) \ {a} : Cells(c, i) = Cells(b, i)
      /\ HasFrame(Cells(b, a), Cells(c, a), r, n)
  BY ActiveId, CellsType DEF Grows, Cells
<1>. HIDE DEF a
<1>2. ASSUME NEW q, Placed(b, q) PROVE Placed(c, q)
  <2>1. PICK i \in Ids(b) : \E k \in 1 .. Len(Cells(b, i)) :
               Cells(b, i)[k].rec = q /\ Cells(b, i)[k].pos = 1
    BY <1>2 DEF Placed
  <2>2. PICK k \in 1 .. Len(Cells(b, i)) : Cells(b, i)[k].rec = q /\ Cells(b, i)[k].pos = 1
    BY <2>1
  <2>3. k \in 1 .. Len(Cells(c, i)) /\ Cells(c, i)[k] = Cells(b, i)[k]
    <3>1. CASE i = a
      BY <1>1, <3>1 DEF HasFrame
    <3>2. CASE i # a
      BY <1>1, <3>2
    <3>. QED BY <3>1, <3>2
  <2>. QED BY <1>1, <2>2, <2>3 DEF Placed
<1>3. ASSUME n > 0 PROVE Placed(c, r)
  <2>1. PICK k \in Nat : k = Len(Cells(b, a)) + 1
    BY <1>1
  <2>2. k \in 1 .. Len(Cells(c, a)) /\ Cells(c, a)[k].rec = r /\ Cells(c, a)[k].pos = 1
    BY <1>1, <1>3, <2>1 DEF HasFrame
  <2>. QED BY <1>1, <2>2 DEF Placed
<1>. QED BY <1>2, <1>3

LEMMA CountedFrame ==
    ASSUME NEW old \in Segment, NEW new, NEW r \in Nat \ {0}, NEW n \in Nat \ {0},
           Counted(old), HasFrame(old.cells, new.cells, r, n), new.bytes = old.bytes + n
    PROVE  Counted(new)
<1>. DEFINE s == old.cells
            u == new.cells
<1>1. s \in Seq(Cell) /\ old.bytes \in Nat
  BY DEF Segment
<1>2. PICK m \in Nat : m = Len(s)
  BY <1>1
<1>3. u \in Seq(Cell) /\ Len(u) = m + n /\ \A k \in 1 .. m : u[k] = s[k]
  BY <1>2 DEF HasFrame
<1>4. /\ old.bytes <= m
      /\ \A off \in 0 .. m : NoTorn(s, off) => off <= old.bytes
  BY <1>2 DEF Counted
<1>. HIDE DEF s, u
<1>5. ASSUME NEW off \in 0 .. m + n, NoTorn(u, off)
      PROVE  off <= old.bytes + n /\ (RecsFrom(u, off) # {} => off < old.bytes + n)
  <2>1. CASE off <= m
    <3>1. NoTorn(s, off)
      BY <1>2, <1>3, <1>5, <2>1 DEF NoTorn
    <3>. QED BY <1>1, <1>4, <2>1, <3>1
  <2>2. CASE off > m
    <3>1. NoTorn(s, m)
      BY <1>2, <1>3, <1>5, <2>2 DEF NoTorn
    <3>2. old.bytes = m
      BY <1>1, <1>4, <3>1
    <3>3. ASSUME RecsFrom(u, off) # {} PROVE off < m + n
      <4>1. PICK q \in RecsFrom(u, off) : TRUE
        BY <3>3
      <4>2. PICK k \in 1 .. Len(u) : k > off
        BY <4>1, RecsFromMember
      <4>. QED BY <1>3, <4>2
    <3>. QED BY <3>2, <3>3
  <2>. QED BY <2>1, <2>2
<1>. QED BY <1>1, <1>3, <1>4, <1>5 DEF Counted, u

LEMMA CountedTorn ==
    ASSUME NEW old \in Segment, NEW new, NEW n \in Nat,
           Counted(old), HasFrame(old.cells, new.cells, 0, n), new.bytes = old.bytes
    PROVE  Counted(new)
<1>. DEFINE s == old.cells
            u == new.cells
<1>1. s \in Seq(Cell) /\ old.bytes \in Nat
  BY DEF Segment
<1>2. PICK m \in Nat : m = Len(s)
  BY <1>1
<1>3. /\ u \in Seq(Cell) /\ Len(u) = m + n /\ \A k \in 1 .. m : u[k] = s[k]
      /\ \A k \in 1 .. m + n : k > m => u[k].rec = 0
  BY <1>2 DEF HasFrame
<1>4. /\ old.bytes <= m
      /\ \A off \in 0 .. m : NoTorn(s, off) =>
           off <= old.bytes /\ (RecsFrom(s, off) # {} => off < old.bytes)
  BY <1>2 DEF Counted
<1>. HIDE DEF s, u
<1>5. ASSUME NEW off \in 0 .. m + n, NoTorn(u, off)
      PROVE  off <= old.bytes /\ (RecsFrom(u, off) # {} => off < old.bytes)
  <2>1. off <= m
    <3>. SUFFICES ASSUME off > m PROVE FALSE
      OBVIOUS
    <3>. QED BY <1>3, <1>5 DEF NoTorn
  <2>2. NoTorn(s, off)
    BY <1>2, <1>3, <1>5, <2>1 DEF NoTorn
  <2>3. ASSUME RecsFrom(u, off) # {} PROVE RecsFrom(s, off) # {}
    <3>1. PICK q \in RecsFrom(u, off) : TRUE
      BY <2>3
    <3>2. PICK k \in 1 .. Len(u) : k > off /\ u[k].rec = q /\ q # 0
      BY <3>1, RecsFromMember
    <3>3. k \in 1 .. m
      BY <1>3, <3>2
    <3>4. q \in RecsFrom(s, off)
      BY <1>2, <1>3, <3>2, <3>3, RecsFromMember
    <3>. QED BY <3>4
  <2>. QED BY <1>4, <2>1, <2>2, <2>3
<1>. QED BY <1>1, <1>3, <1>4, <1>5 DEF Counted, u

LEMMA GrowRun ==
    ASSUME NEW b, NEW c, IsBuffer(b), IsBuffer(c), NEW r \in Nat, NEW n \in Nat,
           Grows(b, c, r, n), r # 0 => n # 0, RunOK(b),
           \A i \in Ids(c) : Whole(Cells(c, i)),
           c.segs[b.active].bytes = b.segs[b.active].bytes + (IF r = 0 THEN 0 ELSE n)
    PROVE  RunOK(c)
<1>. DEFINE a == b.active
<1>1. /\ a \in Ids(b) /\ Ids(c) = Ids(b) /\ b.segs[a] \in Segment
      /\ \A i \in Ids(b) \ {a} : c.segs[i] = b.segs[i]
      /\ HasFrame(b.segs[a].cells, c.segs[a].cells, r, n)
  BY ActiveId DEF Grows, Cells, IsBuffer
<1>2. Counted(b.segs[a]) /\ b.segs[a].bytes \in Nat
  BY <1>1, CellsType DEF RunOK
<1>. HIDE DEF a
<1>3. Counted(c.segs[a])
  <2>1. CASE r = 0
    <3>1. c.segs[a].bytes = b.segs[a].bytes
      BY <1>2, <2>1 DEF a
    <3>. QED BY <1>1, <1>2, <2>1, <3>1, CountedTorn
  <2>2. CASE r # 0
    <3>1. c.segs[a].bytes = b.segs[a].bytes + n
      BY <1>2, <2>2 DEF a
    <3>. QED BY <1>1, <1>2, <2>2, <3>1, CountedFrame
  <2>. QED BY <2>1, <2>2
<1>. QED BY <1>1, <1>3 DEF RunOK, Cells

-----------------------------------------------------------------------------
(***************************************************************************)
(* Steps that leave the contents of all files as they are.                 *)
(***************************************************************************)
SameFiles(b, c) ==
    /\ Ids(c) = Ids(b) /\ \A i \in Ids(b) : Cells(c, i) = Cells(b, i)
    /\ OpenActive(c) => OpenActive(b) /\ c.active = b.active

SameBytes(b, c) == \A i \in Ids(b) : c.segs[i].bytes = b.segs[i].bytes

SamePos(b, c) == c.cursorSeg = b.cursorSeg /\ c.cursorOff = b.cursorOff

LEMMA SameLessens ==
    ASSUME NEW b, IsBuffer(b), NEW c, IsBuffer(c), SameFiles(b, c)
    PROVE  Lessens(b, c) /\ KeepsNewest(b, c) /\ \A r : Placed(b, r) => Placed(c, r)
<1>1. \A i \in Ids(c) : Cells(b, i) \in Seq(Cell) /\ Cells(c, i) = Cells(b, i) /\ i \in Nat
  BY CellsType DEF SameFiles
<1>2. Lessens(b, c)
  <2>1. \A i \in Ids(c) : CutTo(Cells(b, i), Cells(c, i))
    BY <1>1 DEF CutTo
  <2>2. ASSUME OpenActive(c)
        PROVE  OpenActive(b) /\ c.active = b.active /\ Cells(c, c.active) = Cells(b, b.active)
    <3>1. c.active \in Ids(c)
      BY <2>2, ActiveId
    <3>. QED BY <1>1, <2>2, <3>1 DEF SameFiles
  <2>. QED BY <2>1, <2>2 DEF Lessens, SameFiles
<1>3. KeepsNewest(b, c)
  BY <1>1 DEF KeepsNewest, SameFiles
<1>4. \A r : Placed(b, r) => Placed(c, r)
  BY DEF Placed, SameFiles
<1>. QED BY <1>2, <1>3, <1>4

LEMMA SameRun ==
    ASSUME NEW b, NEW c, SameFiles(b, c), SameBytes(b, c), RunOK(b)
    PROVE  RunOK(c)
<1>. SUFFICES ASSUME NEW i \in Ids(c) PROVE Whole(Cells(c, i)) /\ Counted(c.segs[i])
  BY DEF RunOK
<1>1. i \in Ids(b) /\ Cells(c, i) = Cells(b, i) /\ c.segs[i].bytes = b.segs[i].bytes
  BY DEF SameFiles, SameBytes
<1>2. Whole(Cells(b, i)) /\ Counted(b.segs[i])
  BY <1>1 DEF RunOK
<1>. QED BY <1>1, <1>2 DEF Counted, Cells

LEMMA SealSame ==
    ASSUME NEW b, IsBuffer(b), OpenActive(b)
    PROVE  /\ IsBuffer(SealIfFull(b)) /\ SameFiles(b, SealIfFull(b))
           /\ SameBytes(b, SealIfFull(b)) /\ SamePos(b, SealIfFull(b))
<1>1. CASE SealIfFull(b) = b
  BY <1>1 DEF SameFiles, SameBytes, SamePos
<1>2. CASE SealIfFull(b) # b
  <2>. DEFINE old == b.segs[b.active]
              seg == [old EXCEPT !.synced = Len(old.cells), !.sealed = TRUE, !.open = FALSE]
              c == SealActive(b)
  <2>1. b.active # 0 /\ b.active \in Ids(b) /\ old \in Segment
    BY ActiveId DEF OpenActive, IsBuffer
  <2>2. c = [segs |-> [b.segs EXCEPT ![b.active] = seg], active |-> 0,
             cursorSeg |-> b.cursorSeg, cursorOff |-> b.cursorOff]
    BY UpdateFields DEF SealActive
  <2>3. seg.bytes = old.bytes /\ seg.cells = old.cells
    BY <2>1 DEF Segment
  <2>. HIDE DEF seg, old
  <2>4. \A i \in Ids(b) : c.segs[i] = IF i = b.active THEN seg ELSE b.segs[i]
    BY <2>1, <2>2 DEF IsBuffer
  <2>5. \A i \in Ids(b) : c.segs[i].bytes = b.segs[i].bytes /\ c.segs[i].cells = b.segs[i].cells
    BY <2>3, <2>4 DEF old
  <2>6. c.active = 0 /\ c.cursorSeg = b.cursorSeg /\ c.cursorOff = b.cursorOff
    BY <2>2
  <2>7. IsBuffer(c) /\ Ids(c) = Ids(b)
    BY <2>1, SealActiveType
  <2>8. SealIfFull(b) = c
    BY <1>2 DEF SealIfFull
  <2>. HIDE DEF c
  <2>. QED BY <2>5, <2>6, <2>7, <2>8 DEF SameFiles, SameBytes, SamePos, Cells, OpenActive
<1>. QED BY <1>1, <1>2

LEMMA SyncSame ==
    ASSUME NEW b, IsBuffer(b)
    PROVE  /\ IsBuffer(SyncActive(b)) /\ SameFiles(b, SyncActive(b))
           /\ SameBytes(b, SyncActive(b)) /\ SamePos(b, SyncActive(b))
<1>1. CASE SyncActive(b) = b
  BY <1>1 DEF SameFiles, SameBytes, SamePos
<1>2. CASE SyncActive(b) # b
  <2>. DEFINE old == b.segs[b.active]
              seg == [old EXCEPT !.synced = Len(old.cells)]
              c == SyncActive(b)
  <2>1. b.active # 0 /\ old.open /\ b.active \in Ids(b) /\ old \in Segment
    BY <1>2 DEF SyncActive, IsBuffer
  <2>2. c = [segs |-> [b.segs EXCEPT ![b.active] = seg], active |-> b.active,
             cursorSeg |-> b.cursorSeg, cursorOff |-> b.cursorOff]
    BY <2>1, UpdateFields DEF SyncActive
  <2>3. seg.bytes = old.bytes /\ seg.cells = old.cells
    BY <2>1 DEF Segment
  <2>4. IsBuffer(c) /\ Ids(c) = Ids(b)
    BY <2>1, SyncActiveType
  <2>. HIDE DEF seg, old
  <2>5. \A i \in Ids(b) : c.segs[i] = IF i = b.active THEN seg ELSE b.segs[i]
    BY <2>1, <2>2 DEF IsBuffer
  <2>6. \A i \in Ids(b) : c.segs[i].bytes = b.segs[i].bytes /\ c.segs[i].cells = b.segs[i].cells
    BY <2>3, <2>5 DEF old
  <2>7. c.active = b.active /\ c.cursorSeg = b.cursorSeg /\ c.cursorOff = b.cursorOff
    BY <2>2
  <2>. HIDE DEF c
  <2>8. OpenActive(b)
    BY <2>1 DEF OpenActive, old
  <2>9. SameFiles(b, c) /\ SameBytes(b, c) /\ SamePos(b, c)
    BY <2>4, <2>6, <2>7, <2>8 DEF SameFiles, SameBytes, SamePos, Cells
  <2>. QED BY <2>4, <2>9 DEF c
<1>. QED BY <1>1, <1>2

LEMMA OnDiskSame ==
    ASSUME NEW b, IsBuffer(b)
    PROVE  /\ IsBuffer(OnDisk(b)) /\ SameFiles(b, OnDisk(b))
           /\ OnDisk(b).cursorSeg = 0 /\ OnDisk(b).cursorOff = 0
BY OnDiskFields DEF SameFiles, Cells, OpenActive, OnDisk

\* cursors of Append's steps
LEMMA ReadyPos ==
    ASSUME NEW b, IsBuffer(b)
    PROVE  SamePos(b, EnsureActive(b))
BY DEF EnsureActive, SamePos, IsBuffer

LEMMA WritePos ==
    ASSUME NEW b, IsBuffer(b), NEW r, NEW n, NEW t
    PROVE  SamePos(b, WriteFrame(b, r, n, t)) /\ SamePos(b, WriteTorn(b, n))
BY UpdateFields DEF WriteFrame, WriteTorn, SamePos

-----------------------------------------------------------------------------
(***************************************************************************)
(* Power failures and recovery cut files short.                            *)
(***************************************************************************)
\* c has the segments of b, each cut at some point, and none is appended to
Cuts(b, c) ==
    /\ Ids(c) = Ids(b) /\ ~OpenActive(c)
    /\ \A i \in Ids(b) : CutTo(Cells(b, i), Cells(c, i))

LEMMA CutsLessens ==
    ASSUME NEW b, IsBuffer(b), NEW c, Cuts(b, c)
    PROVE  Lessens(b, c) /\ KeepsNewest(b, c)
<1>1. \A i \in Ids(b) : i <= i
  BY CellsType
<1>. QED BY <1>1 DEF Cuts, Lessens, KeepsNewest

\* a record whose first cell was cut off had cells where the file was cut
LEMMA CutPlaced ==
    ASSUME NEW b, IsBuffer(b), NEW c, IsBuffer(c), Cuts(b, c), NEW r, r # 0, Placed(b, r)
    PROVE  Placed(c, r) \/ \E i \in Ids(b) : r \in RecsFrom(Cells(b, i), Len(Cells(c, i)))
<1>1. PICK i \in Ids(b) : \E k \in 1 .. Len(Cells(b, i)) :
              Cells(b, i)[k].rec = r /\ Cells(b, i)[k].pos = 1
  BY DEF Placed
<1>2. PICK k \in 1 .. Len(Cells(b, i)) : Cells(b, i)[k].rec = r /\ Cells(b, i)[k].pos = 1
  BY <1>1
<1>3. /\ i \in Ids(c) /\ CutTo(Cells(b, i), Cells(c, i))
      /\ Len(Cells(b, i)) \in Nat /\ Len(Cells(c, i)) \in Nat
  BY CellsType DEF Cuts
<1>4. CASE k <= Len(Cells(c, i))
  <2>1. k \in 1 .. Len(Cells(c, i)) /\ Cells(c, i)[k] = Cells(b, i)[k]
    BY <1>3, <1>4 DEF CutTo
  <2>. QED BY <1>2, <1>3, <2>1 DEF Placed
<1>5. CASE k > Len(Cells(c, i))
  BY <1>2, <1>5, RecsFromMember
<1>. QED BY <1>3, <1>4, <1>5

LEMMA PrefixCut ==
    ASSUME NEW s \in Seq(Cell), NEW n \in 0 .. Len(s)
    PROVE  CutTo(s, SubSeq(s, 1, n)) /\ Len(SubSeq(s, 1, n)) = n
BY DEF CutTo

LEMMA PowerCutCuts ==
    ASSUME NEW b, IsBuffer(b), NEW k \in Nat,
           \A i \in Ids(b) : b.segs[i].synced <= Len(Cells(b, i))
    PROVE  /\ Cuts(b, PowerCut(b, k))
           /\ \A i \in Ids(b) : Len(Cells(PowerCut(b, k), i)) = KeptLen(b.segs[i], k)
           /\ PowerCut(b, k).cursorSeg = 0 /\ PowerCut(b, k).cursorOff = 0
<1>. DEFINE d == OnDisk(b)
            cut(i) == KeptLen(b.segs[i], k)
            segs == [i \in Ids(b) |->
                       [d.segs[i] EXCEPT !.cells = SubSeq(b.segs[i].cells, 1, cut(i))]]
            c == PowerCut(b, k)
<1>1. d = [segs |-> d.segs, active |-> 0, cursorSeg |-> 0, cursorOff |-> 0]
  BY DEF OnDisk
<1>2. c = [segs |-> segs, active |-> 0, cursorSeg |-> 0, cursorOff |-> 0]
  <2>. HIDE DEF d
  <2>1. c = [d EXCEPT !.segs = segs]
    BY DEF PowerCut, d
  <2>. HIDE DEF segs, c
  <2>. QED BY <1>1, <2>1
<1>3. \A i \in Ids(b) : d.segs[i] \in Segment
  BY OnDiskFields DEF IsBuffer
<1>. HIDE DEF d
<1>4. ASSUME NEW i \in Ids(b) PROVE cut(i) \in 0 .. Len(Cells(b, i))
  <2>1. b.segs[i].synced \in Nat /\ Len(Cells(b, i)) \in Nat
    BY CellsType DEF IsBuffer, Segment
  <2>. QED BY <2>1 DEF KeptLen, Cells
<1>. HIDE DEF cut
<1>5. \A i \in Ids(b) : segs[i].cells = SubSeq(b.segs[i].cells, 1, cut(i))
  BY <1>3 DEF Segment
<1>6. DOMAIN segs = Ids(b)
  OBVIOUS
<1>. HIDE DEF segs
<1>7. /\ Ids(c) = Ids(b) /\ c.active = 0 /\ c.cursorSeg = 0 /\ c.cursorOff = 0
      /\ \A i \in Ids(b) : Cells(c, i) = SubSeq(Cells(b, i), 1, cut(i))
  BY <1>2, <1>5, <1>6 DEF Ids, Cells
<1>. HIDE DEF c
<1>8. ASSUME NEW i \in Ids(b)
      PROVE  CutTo(Cells(b, i), Cells(c, i)) /\ Len(Cells(c, i)) = cut(i)
  <2>1. PICK n \in 0 .. Len(Cells(b, i)) : n = cut(i)
    BY <1>4
  <2>2. PICK s \in Seq(Cell) : s = Cells(b, i)
    BY CellsType
  <2>3. CutTo(s, SubSeq(s, 1, n)) /\ Len(SubSeq(s, 1, n)) = n
    BY <2>1, <2>2, PrefixCut
  <2>. QED BY <1>7, <2>1, <2>2, <2>3
<1>. QED BY <1>7, <1>8 DEF Cuts, OpenActive, c, cut

\* GoodLen is the greatest offset up to which there are whole records only
LEMMA GoodLenFacts ==
    ASSUME NEW s \in Seq(Cell)
    PROVE  /\ GoodLen(s) \in 0 .. Len(s)
           /\ \A k \in 1 .. GoodLen(s) : s[k].rec # 0
           /\ GoodLen(s) > 0 => s[GoodLen(s)].pos = s[GoodLen(s)].size
           /\ \A n \in 1 .. Len(s) :
                (\A k \in 1 .. n : s[k].rec # 0) /\ s[n].pos = s[n].size => n <= GoodLen(s)
<1>. DEFINE S == {n \in 0..Len(s) :
                    /\ \A k \in 1..n : s[k].rec # 0
                    /\ n > 0 => s[n].pos = s[n].size}
<1>1. 0 \in S /\ S \in SUBSET (0..Len(s)) /\ Len(s) \in Nat
  OBVIOUS
<1>2. Max(S) \in S /\ \A y \in S : Max(S) >= y
  BY <1>1, MaxIsGreatest
<1>3. GoodLen(s) = Max(S)
  BY DEF GoodLen
<1>. HIDE DEF S
<1>4. GoodLen(s) \in S /\ \A y \in S : GoodLen(s) >= y
  BY <1>2, <1>3
<1>5. ASSUME NEW n \in 1 .. Len(s), \A k \in 1 .. n : s[k].rec # 0, s[n].pos = s[n].size
      PROVE  n <= GoodLen(s)
  <2>1. n \in S
    BY <1>1, <1>5 DEF S
  <2>. QED BY <1>1, <1>4, <2>1
<1>. QED BY <1>4, <1>5 DEF S

\* what recovery leaves of a file holds whole records only
LEMMA GoodPrefix ==
    ASSUME NEW s \in Seq(Cell), Framed(s), NEW u, CutTo(s, u), Len(u) = GoodLen(s)
    PROVE  Whole(u) /\ NoTorn(u, Len(u))
<1>1. PICK g \in Nat : g = GoodLen(s) /\ g <= Len(s)
  BY GoodLenFacts
<1>2. /\ Len(u) = g
      /\ \A k \in 1 .. g : /\ k \in 1 .. Len(s) /\ u[k] = s[k] /\ s[k].rec # 0
                           /\ s[k].pos \in Nat /\ s[k].size \in Nat
  BY <1>1, GoodLenFacts, CellAt DEF CutTo
<1>3. NoTorn(u, Len(u))
  BY <1>2 DEF NoTorn
<1>4. ASSUME NEW k \in 1 .. g PROVE End(u, k) <= g
  <2>1. /\ End(u, k) = End(s, k) /\ End(s, k) \in Int /\ Start(s, k) \in Int
        /\ Start(s, k) < k
    <3>1. u[k] = s[k] /\ s[k].pos \in Nat /\ s[k].size \in Nat /\ k \in Int
      BY <1>2
    <3>2. Start(s, k) < k
      BY <1>2 DEF Framed
    <3>. QED BY <3>1, <3>2 DEF Start, End
  <2>. SUFFICES ASSUME End(s, k) > g PROVE FALSE
    BY <2>1
  <2>2. g \in 1 .. Len(s) /\ Start(s, k) < g /\ g <= End(s, k) /\ s[k].rec # 0 /\ k \in 1 .. Len(s)
    BY <1>2, <2>1
  <2>3. s[g].size = s[k].size /\ Start(s, g) = Start(s, k)
    BY <2>2 DEF Framed
  <2>4. s[g].pos = s[g].size /\ s[g].pos \in Nat
    BY <1>1, <1>2, <2>2, GoodLenFacts
  <2>5. End(s, k) = g
    BY <2>3, <2>4 DEF Start, End
  <2>. QED BY <2>1, <2>5
<1>5. Whole(u)
  BY <1>2, <1>4 DEF Whole
<1>. QED BY <1>3, <1>5

LEMMA RecoverCuts ==
    ASSUME NEW b, IsBuffer(b), NEW cur \in Nat \X Nat, IsBuffer(Recover(b, cur)),
           \A i \in Ids(b) : b.segs[i].synced <= Len(Cells(b, i))
    PROVE  /\ Cuts(b, Recover(b, cur))
           /\ \A i \in Ids(b) : /\ Len(Cells(Recover(b, cur), i)) = GoodLen(Cells(b, i))
                                /\ Recover(b, cur).segs[i].bytes = GoodLen(Cells(b, i))
           /\ Recover(b, cur).cursorSeg = cur[1] /\ Recover(b, cur).cursorOff = cur[2]
<1>. DEFINE read == [i \in Ids(b) |-> Recovered(b.segs[i])]
            open == {i \in Ids(b) : /\ \A j \in Ids(b) : j <= i
                                    /\ read[i].bytes < SegmentBytes}
            segs == [i \in Ids(b) |-> [read[i] EXCEPT !.sealed = i \notin open]]
            active == IF open = {} THEN 0 ELSE Max(open)
            c == Recover(b, cur)
<1>1. ASSUME NEW i \in Ids(b)
      PROVE  /\ read[i] \in Segment
             /\ read[i].cells = SubSeq(Cells(b, i), 1, GoodLen(Cells(b, i)))
             /\ read[i].bytes = GoodLen(Cells(b, i)) /\ read[i].open = FALSE
  <2>1. b.segs[i] \in Segment /\ b.segs[i].synced <= Len(b.segs[i].cells)
    BY DEF IsBuffer, Cells
  <2>2. Recovered(b.segs[i]) \in Segment
    BY <2>1, RecoveredType
  <2>3. Recovered(b.segs[i]).cells = SubSeq(Cells(b, i), 1, GoodLen(Cells(b, i)))
        /\ Recovered(b.segs[i]).bytes = GoodLen(Cells(b, i))
        /\ Recovered(b.segs[i]).open = FALSE
    BY DEF Recovered, Cells
  <2>. QED BY <2>2, <2>3
<1>. HIDE DEF read
<1>2. \A i \in Ids(b) : /\ segs[i].cells = read[i].cells /\ segs[i].bytes = read[i].bytes
                        /\ segs[i].open = read[i].open
  BY <1>1 DEF Segment
<1>3. c = [segs |-> segs, active |-> active, cursorSeg |-> cur[1], cursorOff |-> cur[2]]
  BY DEF Recover, read, open
<1>4. DOMAIN segs = Ids(b)
  OBVIOUS
<1>. HIDE DEF segs, active, c
<1>5. /\ Ids(c) = Ids(b) /\ c.segs = segs /\ c.cursorSeg = cur[1] /\ c.cursorOff = cur[2]
  BY <1>3, <1>4 DEF Ids
<1>6. ~OpenActive(c)
  <2>1. IsBuffer(c)
    BY DEF c
  <2>2. OpenActive(c) => c.active \in Ids(b) /\ segs[c.active].open
    BY <1>5, <2>1, ActiveId DEF OpenActive
  <2>. QED BY <1>1, <1>2, <2>2
<1>7. \A i \in Ids(b) : CutTo(Cells(b, i), Cells(c, i)) /\ Len(Cells(c, i)) = GoodLen(Cells(b, i))
  <2>. SUFFICES ASSUME NEW i \in Ids(b)
                PROVE  CutTo(Cells(b, i), Cells(c, i)) /\ Len(Cells(c, i)) = GoodLen(Cells(b, i))
    OBVIOUS
  <2>1. Cells(b, i) \in Seq(Cell)
    BY CellsType
  <2>2. GoodLen(Cells(b, i)) \in 0 .. Len(Cells(b, i))
    BY <2>1, GoodLenFacts
  <2>3. Cells(c, i) = SubSeq(Cells(b, i), 1, GoodLen(Cells(b, i)))
    BY <1>1, <1>2, <1>5 DEF Cells
  <2>. QED BY <2>1, <2>2, <2>3, PrefixCut
<1>8. \A i \in Ids(b) : c.segs[i].bytes = GoodLen(Cells(b, i))
  BY <1>1, <1>2, <1>5
<1>. QED BY <1>5, <1>6, <1>7, <1>8 DEF Cuts, c

\* a file that holds whole records only, all of them counted
LEMMA AllCounted ==
    ASSUME NEW seg, seg.cells \in Seq(Cell), seg.bytes = Len(seg.cells), NoTorn(seg.cells, Len(seg.cells))
    PROVE  Counted(seg)
<1>1. PICK m \in Nat : m = Len(seg.cells)
  OBVIOUS
<1>2. ASSUME NEW off \in 0 .. m PROVE off <= m /\ (RecsFrom(seg.cells, off) # {} => off < m)
  <2>1. RecsFrom(seg.cells, off) # {} => off < Len(seg.cells)
    BY RecsFromAll
  <2>. QED BY <1>1, <2>1
<1>. QED BY <1>1, <1>2 DEF Counted

LEMMA RecoverRun ==
    ASSUME NEW b, IsBuffer(b), NEW cur \in Nat \X Nat, IsBuffer(Recover(b, cur)), LogOK(b),
           \A i \in Ids(b) : b.segs[i].synced <= Len(Cells(b, i))
    PROVE  /\ RunOK(Recover(b, cur))
           /\ \A i \in Ids(b) : NoTorn(Cells(Recover(b, cur), i), Len(Cells(Recover(b, cur), i)))
<1>1. PICK c : c = Recover(b, cur)
  OBVIOUS
<1>2. /\ IsBuffer(c) /\ Ids(c) = Ids(b)
      /\ \A i \in Ids(b) : /\ CutTo(Cells(b, i), Cells(c, i))
                           /\ Len(Cells(c, i)) = GoodLen(Cells(b, i))
                           /\ c.segs[i].bytes = Len(Cells(c, i))
  BY <1>1, RecoverCuts DEF Cuts
<1>3. \A i \in Ids(b) : /\ Cells(b, i) \in Seq(Cell) /\ Framed(Cells(b, i))
                        /\ Cells(c, i) \in Seq(Cell)
  BY <1>2, CellsType DEF LogOK
<1>4. \A i \in Ids(b) : Whole(Cells(c, i)) /\ NoTorn(Cells(c, i), Len(Cells(c, i)))
  BY <1>2, <1>3, GoodPrefix
<1>5. \A i \in Ids(b) : Counted(c.segs[i])
  BY <1>2, <1>3, <1>4, AllCounted DEF Cells
<1>. QED BY <1>1, <1>2, <1>4, <1>5 DEF RunOK

-----------------------------------------------------------------------------
(***************************************************************************)
(* Positions a reader can be at, and what is in the files.                 *)
(***************************************************************************)
\* everything before pos is among gone, and everything appended comes after it
At(b, pos, gone) == Within(b, pos) /\ Behind(b, pos, gone)

CursorPos(b) == <<b.cursorSeg, b.cursorOff>>

\* of the records 1 .. n, those that are not among gone are in the files
Stored(b, n, gone) == \A r \in 1 .. n : r \in gone \/ Placed(b, r)

LEMMA LessAt ==
    ASSUME NEW b, NEW c, IsBuffer(b), IsBuffer(c), Lessens(b, c), KeepsNewest(b, c),
           NEW gone, NEW more, gone \subseteq more
    PROVE  \A pos \in Nat \X Nat : At(b, pos, gone) => At(c, pos, more)
<1>. SUFFICES ASSUME NEW pos \in Nat \X Nat, At(b, pos, gone) PROVE At(c, pos, more)
  OBVIOUS
<1>1. Within(c, pos)
  BY LessWithin DEF At
<1>2. Behind(c, pos, gone)
  BY LessBehind DEF At
<1>. QED BY <1>1, <1>2 DEF At, Behind

LEMMA ShrinkLessens ==
    ASSUME NEW b, NEW c, IsBuffer(b), IsBuffer(c), Shrinks(b, c)
    PROVE  Lessens(b, c) /\ (RunOK(b) => RunOK(c))
<1>1. \A i \in Ids(c) : Cells(b, i) \in Seq(Cell) /\ Cells(c, i) = Cells(b, i)
  BY CellsType DEF Shrinks, Cells
<1>2. \A i \in Ids(c) : CutTo(Cells(b, i), Cells(c, i))
  BY <1>1 DEF CutTo
<1>3. ASSUME OpenActive(c)
      PROVE  OpenActive(b) /\ c.active = b.active /\ Cells(c, c.active) = Cells(b, b.active)
  <2>1. c.active \in Ids(c)
    BY <1>3, ActiveId
  <2>. QED BY <1>3, <2>1 DEF Shrinks, OpenActive, Cells
<1>4. RunOK(b) => RunOK(c)
  BY DEF Shrinks, RunOK, Cells
<1>. QED BY <1>2, <1>3, <1>4 DEF Lessens, Shrinks

\* every file starts with a frame, unless its first write was torn
LEMMA FirstFrame ==
    ASSUME NEW s \in Seq(Cell), Framed(s)
    PROVE  NoTorn(s, 0) /\ FrameStart(s, 0)
<1>1. NoTorn(s, 0)
  BY DEF NoTorn
<1>2. ASSUME NEW k \in 1 .. Len(s), k = 1, s[k].rec # 0 PROVE s[k].pos = 1
  <2>1. s[k].pos \in Nat /\ 0 <= Start(s, k) /\ Start(s, k) < k
    BY <1>2, CellAt DEF Framed
  <2>. QED BY <1>2, <2>1 DEF Start
<1>. QED BY <1>1, <1>2 DEF FrameStart

LEMMA StartWithin ==
    ASSUME NEW b, IsBuffer(b), LogOK(b), NEW seg \in Nat, NEW j \in Ids(b), seg <= j
    PROVE  Within(b, <<seg, 0>>)
<1>1. \A i \in Ids(b) : NoTorn(Cells(b, i), 0) /\ FrameStart(Cells(b, i), 0)
  BY CellsType, FirstFrame DEF LogOK
<1>2. OpenActive(b) => 0 <= Len(Cells(b, b.active))
  BY ActiveId, CellsType
<1>. QED BY <1>1, <1>2 DEF Within

LEMMA ReclaimQueue ==
    ASSUME NEW b, IsBuffer(b), NEW gone, At(b, CursorPos(b), gone), NEW n \in Nat,
           Stored(b, n, gone)
    PROVE  /\ KeepsNewest(b, Reclaim(b)) /\ SamePos(b, Reclaim(b))
           /\ Stored(Reclaim(b), n, gone)
<1>. DEFINE c == Reclaim(b)
            out == {i \in Ids(b) : i < b.cursorSeg /\ b.segs[i].sealed}
<1>1. /\ c = [segs |-> Restrict(b.segs, Ids(b) \ out), active |-> b.active,
              cursorSeg |-> b.cursorSeg, cursorOff |-> b.cursorOff]
      /\ Ids(c) = Ids(b) \ out
      /\ \A i \in Ids(b) \ out : c.segs[i] = b.segs[i]
  BY WithoutFields DEF Reclaim
<1>2. SamePos(b, c)
  BY <1>1 DEF SamePos
<1>. HIDE DEF c
<1>3. \A i \in Ids(b) : i < b.cursorSeg \/ i \in Ids(c)
  BY <1>1
<1>. HIDE DEF out
<1>4. b.cursorSeg \in Nat /\ \A i \in Ids(b) : i \in Nat
  BY CellsType DEF IsBuffer
<1>5. ASSUME NEW i \in Ids(b) PROVE \E j \in Ids(c) : i <= j
  <2>1. CASE i \in Ids(c)
    BY <1>4, <2>1
  <2>2. CASE i \notin Ids(c)
    <3>1. i < b.cursorSeg
      BY <1>3, <2>2
    <3>2. PICK j \in Ids(b) : b.cursorSeg <= j
      BY <1>4, <3>1 DEF At, Within, CursorPos
    <3>3. j \in Ids(c) /\ i <= j
      BY <1>3, <1>4, <3>1, <3>2
    <3>. QED BY <3>3
  <2>. QED BY <2>1, <2>2
<1>6. ASSUME NEW r \in 1 .. n, r \notin gone PROVE Placed(c, r)
  <2>1. PICK i \in Ids(b) : \E k \in 1 .. Len(Cells(b, i)) :
                Cells(b, i)[k].rec = r /\ Cells(b, i)[k].pos = 1
    BY <1>6 DEF Stored, Placed
  <2>2. PICK k \in 1 .. Len(Cells(b, i)) : Cells(b, i)[k].rec = r /\ Cells(b, i)[k].pos = 1
    BY <2>1
  <2>3. i \in Ids(c)
    <3>1. ~(i < b.cursorSeg)
      <4>. SUFFICES ASSUME i < b.cursorSeg PROVE FALSE
        OBVIOUS
      <4>1. ~After(CursorPos(b), i, k)
        BY <1>4 DEF After, CursorPos
      <4>2. r \in gone
        BY <2>2, <4>1 DEF At, Behind
      <4>. QED BY <1>6, <4>2
    <3>. QED BY <1>3, <3>1
  <2>4. Cells(c, i) = Cells(b, i)
    BY <1>1, <2>3 DEF Cells
  <2>. QED BY <2>2, <2>3, <2>4 DEF Placed
<1>. QED BY <1>2, <1>5, <1>6 DEF KeepsNewest, Stored, c

LEMMA DropStored ==
    ASSUME NEW b, NEW c, IsBuffer(b), Shrinks(b, c), NEW n \in Nat, NEW gone, Stored(b, n, gone)
    PROVE  Stored(c, n, gone \cup DroppedRecs(b, c))
<1>. SUFFICES ASSUME NEW r \in 1 .. n, r \notin gone, r \notin DroppedRecs(b, c) PROVE Placed(c, r)
  BY DEF Stored
<1>1. PICK i \in Ids(b) : \E k \in 1 .. Len(Cells(b, i)) :
              Cells(b, i)[k].rec = r /\ Cells(b, i)[k].pos = 1
  BY DEF Stored, Placed
<1>2. PICK k \in 1 .. Len(Cells(b, i)) : Cells(b, i)[k].rec = r /\ Cells(b, i)[k].pos = 1
  BY <1>1
<1>3. r \in RecsFrom(b.segs[i].cells, 0)
  BY <1>2, RecsFromMember DEF Cells
<1>4. i \in Ids(c)
  BY <1>3 DEF DroppedRecs
<1>5. Cells(c, i) = Cells(b, i)
  BY <1>4 DEF Shrinks, Cells
<1>. QED BY <1>2, <1>4, <1>5 DEF Placed

LEMMA NotOrphaned ==
    ASSUME NEW b, NEW c, IsBuffer(b), NEW m \in Nat, Below(b, m), ~Orphans(b, c)
    PROVE  KeepsNewest(b, c)
<1>1. CASE Ids(b) = {}
  BY <1>1 DEF KeepsNewest
<1>2. CASE Ids(b) # {}
  <2>1. Max(Ids(b)) \in Ids(b) /\ \A i \in Ids(b) : i <= Max(Ids(b))
    BY <1>2, MaxId
  <2>2. Max(Ids(b)) \in Ids(c)
    BY <2>1 DEF Orphans
  <2>. QED BY <2>1, <2>2 DEF KeepsNewest
<1>. QED BY <1>1, <1>2

LEMMA WithoutPos ==
    ASSUME NEW b, IsBuffer(b), NEW gone
    PROVE  CursorPos(Without(b, gone)) = CursorPos(b)
<1>1. PICK c : c = Without(b, gone)
  OBVIOUS
<1>2. c = [segs |-> Restrict(b.segs, Ids(b) \ gone), active |-> b.active,
           cursorSeg |-> b.cursorSeg, cursorOff |-> b.cursorOff]
  BY <1>1, WithoutFields
<1>3. CursorPos(c) = CursorPos(b)
  BY <1>2 DEF CursorPos
<1>. QED BY <1>1, <1>3

LEMMA MovedPos ==
    ASSUME NEW b, NEW seg, NEW off
    PROVE  /\ Ids(SetCursor(b, seg, off)) = Ids(b)
           /\ CursorPos(SetCursor(b, seg, off)) = <<seg, off>>
           /\ SetCursor(b, seg, off).cursorSeg = seg
BY DEF SetCursor, Ids, CursorPos

LEMMA EvictOldestQueue ==
    ASSUME NEW b, IsBuffer(b), LogOK(b), NEW m \in Nat, Below(b, m),
           ~Orphans(b, EvictOldest(b)), NEW gone, At(b, CursorPos(b), gone)
    PROVE  At(EvictOldest(b), CursorPos(EvictOldest(b)), gone)
<1>. DEFINE c == EvictOldest(b)
            rest == Without(b, OldestSealed(b))
<1>1. IsBuffer(c) /\ Shrinks(b, c)
  BY EvictOldestType
<1>2. Lessens(b, c) /\ KeepsNewest(b, c)
  BY <1>1, ShrinkLessens, NotOrphaned
<1>3. LogOK(c)
  BY <1>1, <1>2, LessLog
<1>4. CursorPos(b) \in Nat \X Nat
  BY DEF CursorPos, IsBuffer
<1>5. CASE c = rest
  <2>1. CursorPos(c) = CursorPos(b)
    BY <1>5, WithoutPos
  <2>. HIDE DEF c
  <2>2. At(c, CursorPos(b), gone)
    BY <1>1, <1>2, <1>4, LessAt
  <2>. QED BY <2>1, <2>2 DEF c
<1>6. CASE c # rest
  <2>1. c = SetCursor(rest, Min(Ids(rest)), 0) /\ Ids(rest) # {}
    BY <1>6 DEF EvictOldest
  <2>2. Ids(c) = Ids(rest) /\ CursorPos(c) = <<Min(Ids(rest)), 0>>
    BY <2>1 DEF SetCursor, Ids, CursorPos
  <2>. HIDE DEF c, rest
  <2>3. Ids(c) \in SUBSET Nat
    BY <1>1, CellsType
  <2>4. Min(Ids(rest)) \in Ids(c) /\ \A j \in Ids(c) : Min(Ids(rest)) <= j
    BY <2>1, <2>2, <2>3, MinIsLeast
  <2>5. PICK s \in Nat : s = Min(Ids(rest))
    BY <2>3, <2>4
  <2>6. Within(c, <<s, 0>>)
    BY <1>1, <1>3, <2>4, <2>5, StartWithin
  <2>7. \A i \in Ids(c) : \A k \in 1 .. Len(Cells(c, i)) : After(<<s, 0>>, i, k)
    BY <2>3, <2>4, <2>5 DEF After
  <2>. QED BY <2>2, <2>5, <2>6, <2>7 DEF At, Behind, c
<1>. QED BY <1>5, <1>6

LEMMA DropExpiredQueue ==
    ASSUME NEW b, IsBuffer(b), LogOK(b), NEW m \in Nat, Below(b, m), NEW now,
           ~Orphans(b, DropExpired(b, now)), NEW gone, At(b, CursorPos(b), gone)
    PROVE  At(DropExpired(b, now), CursorPos(DropExpired(b, now)), gone)
<1>. DEFINE c == DropExpired(b, now)
            out == Expired(b, now)
            rest == Without(b, out)
<1>1. IsBuffer(c) /\ Shrinks(b, c)
  BY DropExpiredType
<1>2. Lessens(b, c) /\ KeepsNewest(b, c)
  BY <1>1, ShrinkLessens, NotOrphaned
<1>3. LogOK(c)
  BY <1>1, <1>2, LessLog
<1>4. CursorPos(b) \in Nat \X Nat
  BY DEF CursorPos, IsBuffer
<1>5. CASE c = rest
  <2>1. CursorPos(c) = CursorPos(b)
    BY <1>5, WithoutPos
  <2>. HIDE DEF c
  <2>2. At(c, CursorPos(b), gone)
    BY <1>1, <1>2, <1>4, LessAt
  <2>. QED BY <2>1, <2>2 DEF c
<1>6. CASE c # rest
  <2>1. c = SetCursor(rest, Max(out) + 1, 0) /\ out # {}
    BY <1>6 DEF DropExpired
  <2>2. /\ Ids(c) = Ids(b) \ out /\ CursorPos(c) = <<Max(out) + 1, 0>>
        /\ c.cursorSeg = Max(out) + 1
    <3>1. Ids(rest) = Ids(b) \ out
      BY WithoutFields
    <3>. HIDE DEF rest, out, c
    <3>. QED BY <2>1, <3>1, MovedPos
  <2>3. out \subseteq Ids(b)
    BY DEF Expired
  <2>4. /\ \A i \in Ids(c) : ~(b.cursorSeg <= i /\ i < c.cursorSeg)
    BY DEF Orphans
  <2>. HIDE DEF c, rest, out
  <2>5. Max(out) \in out /\ Max(out) \in Nat
    BY <2>1, <2>3, MaxId
  <2>6. PICK s \in Nat : s = Max(out) + 1
    BY <2>5
  <2>7. PICK j \in Ids(c) : Max(out) <= j
    BY <1>2, <2>3, <2>5 DEF KeepsNewest
  <2>8. s <= j
    <3>1. j # Max(out) /\ j \in Nat
      BY <1>1, <2>2, <2>5, <2>7, CellsType
    <3>. QED BY <2>5, <2>6, <2>7, <3>1
  <2>9. Within(c, <<s, 0>>)
    BY <1>1, <1>3, <2>8, StartWithin
  <2>10. ASSUME NEW i \in Ids(c), NEW k \in 1 .. Len(Cells(c, i)),
                Cells(c, i)[k].rec # 0, ~After(<<s, 0>>, i, k)
         PROVE  Cells(c, i)[k].rec \in gone
    <3>1. i \in Nat /\ b.cursorSeg \in Nat /\ i < s
      BY <1>1, <2>10, CellsType DEF After, IsBuffer
    <3>2. i < b.cursorSeg
      BY <2>2, <2>4, <2>6, <3>1
    <3>3. ~After(CursorPos(b), i, k)
      BY <3>1, <3>2 DEF After, CursorPos
    <3>4. i \in Ids(b) /\ k \in 1 .. Len(Cells(b, i)) /\ Cells(c, i)[k] = Cells(b, i)[k]
      BY <1>1, <1>2, LessCell
    <3>. QED BY <2>10, <3>3, <3>4 DEF At, Behind
  <2>. QED BY <2>2, <2>6, <2>9, <2>10 DEF At, Behind, c
<1>. QED BY <1>5, <1>6

-----------------------------------------------------------------------------
(***************************************************************************)
(* A whole append: what holds of b holds of c, with record r, or a torn    *)
(* frame if r = 0, behind everything else.                                 *)
(***************************************************************************)
AcceptedBelow(b, r) == \A i \in Ids(b) : RecsFrom(Cells(b, i), 0) \subseteq 1 .. r - 1

Appended(b, c, r) ==
    /\ IsBuffer(c) /\ LogOK(c) /\ RunOK(c) /\ SamePos(b, c)
    /\ \A pos \in Nat \X Nat : \A gone : At(b, pos, gone) => At(c, pos, gone)
    /\ \A pos, q : q \in Nat /\ (r = 0 \/ q < r) /\ Ahead(b, pos, q) => Ahead(c, pos, q)
    /\ \A q : Placed(b, q) => Placed(c, q)

LEMMA ReadyAppended ==
    ASSUME NEW b, IsBuffer(b), NEW m \in Nat \ {0}, Below(b, m), LogOK(b), RunOK(b),
           NEW q, AcceptedBelow(b, q)
    PROVE  /\ Appended(b, EnsureActive(b), 0) /\ OpenActive(EnsureActive(b))
           /\ AcceptedBelow(EnsureActive(b), q)
<1>. DEFINE c == EnsureActive(b)
<1>1. IsBuffer(c) /\ OpenActive(c) /\ SamePos(b, c)
  BY EnsureActiveType, ReadyPos DEF OpenActive
<1>2. PICK a : Readies(b, c, a)
  BY EnsureReadies
<1>. HIDE DEF c
<1>3. LogOK(c) /\ RunOK(c)
  BY <1>1, <1>2, ReadyLog, ReadyRun
<1>4. ASSUME NEW pos \in Nat \X Nat, NEW gone, At(b, pos, gone) PROVE At(c, pos, gone)
  <2>1. Within(c, pos)
    BY <1>1, <1>2, <1>4, ReadyWithin DEF At
  <2>2. Behind(c, pos, gone)
    BY <1>2, <1>4, ReadyCell DEF At, Behind
  <2>. QED BY <2>1, <2>2 DEF At
<1>5. ASSUME NEW pos, NEW r, Ahead(b, pos, r) PROVE Ahead(c, pos, r)
  BY <1>2, <1>5, ReadyCell DEF Ahead
<1>6. \A r : Placed(b, r) => Placed(c, r)
  BY <1>2, ReadyPlaced
<1>7. AcceptedBelow(c, q)
  <2>. SUFFICES ASSUME NEW i \in Ids(c), NEW x \in RecsFrom(Cells(c, i), 0)
                PROVE  x \in 1 .. q - 1
    BY DEF AcceptedBelow
  <2>1. PICK k \in 1 .. Len(Cells(c, i)) : TRUE
    BY RecsFromMember
  <2>2. i \in Ids(b) /\ Cells(c, i) = Cells(b, i)
    BY <1>2, ReadyCell
  <2>. QED BY <2>2 DEF AcceptedBelow
<1>. QED BY <1>1, <1>3, <1>4, <1>5, <1>6, <1>7 DEF Appended, c

LEMMA GrowAppended ==
    ASSUME NEW b, NEW c, IsBuffer(b), IsBuffer(c), LogOK(b), RunOK(b), SamePos(b, c),
           NEW q \in Nat \ {0}, AcceptedBelow(b, q), NEW r \in {0, q}, NEW n \in Nat,
           r # 0 => n # 0, Grows(b, c, r, n),
           c.segs[b.active].bytes = b.segs[b.active].bytes + (IF r = 0 THEN 0 ELSE n)
    PROVE  Appended(b, c, r) /\ (r # 0 => Placed(c, r))
<1>0. r \in Nat
  OBVIOUS
<1>1. LogOK(c) /\ \A i \in Ids(c) : Whole(Cells(c, i))
  BY <1>0, GrowLog DEF AcceptedBelow
<1>2. RunOK(c)
  BY <1>0, <1>1, GrowRun
<1>3. ASSUME NEW pos \in Nat \X Nat, NEW gone, At(b, pos, gone) PROVE At(c, pos, gone)
  BY <1>0, <1>3, GrowWithin, GrowBehind DEF At
<1>4. \A pos, x : x \in Nat /\ (r = 0 \/ x < r) /\ Ahead(b, pos, x) => Ahead(c, pos, x)
  BY <1>0, GrowAhead
<1>5. (\A x : Placed(b, x) => Placed(c, x)) /\ (n > 0 => Placed(c, r))
  BY <1>0, GrowPlaced
<1>. QED BY <1>1, <1>2, <1>3, <1>4, <1>5 DEF Appended

LEMMA AppendedTwice ==
    ASSUME NEW b, NEW c, NEW d, NEW r \in Nat, Appended(b, c, 0), Appended(c, d, r)
    PROVE  Appended(b, d, r)
BY DEF Appended, SamePos

LEMMA SealAppended ==
    ASSUME NEW b, IsBuffer(b), NEW c, NEW d, NEW r, Appended(b, c, r), IsBuffer(d),
           SameFiles(c, d), SameBytes(c, d), SamePos(c, d)
    PROVE  Appended(b, d, r)
<1>1. IsBuffer(c) /\ LogOK(c) /\ RunOK(c)
  BY DEF Appended
<1>2. Lessens(c, d) /\ KeepsNewest(c, d) /\ \A q : Placed(c, q) => Placed(d, q)
  BY <1>1, SameLessens
<1>3. LogOK(d) /\ RunOK(d)
  BY <1>1, <1>2, LessLog, SameRun
<1>4. \A gone : \A pos \in Nat \X Nat : At(c, pos, gone) => At(d, pos, gone)
  BY <1>1, <1>2, LessAt
<1>5. \A pos, q : Ahead(c, pos, q) => Ahead(d, pos, q)
  BY <1>1, <1>2, LessAhead
<1>6. SamePos(b, d)
  BY DEF Appended, SamePos
<1>7. ASSUME NEW pos \in Nat \X Nat, NEW gone, At(b, pos, gone) PROVE At(d, pos, gone)
  BY <1>4, <1>7 DEF Appended
<1>8. \A pos, q : q \in Nat /\ (r = 0 \/ q < r) /\ Ahead(b, pos, q) => Ahead(d, pos, q)
  BY <1>5 DEF Appended
<1>9. \A q : Placed(b, q) => Placed(d, q)
  BY <1>2 DEF Appended
<1>. QED BY <1>3, <1>6, <1>7, <1>8, <1>9 DEF Appended

\* the successful append
LEMMA FrameAppended ==
    ASSUME NEW b, IsBuffer(b), NEW m \in Nat \ {0}, Below(b, m), LogOK(b), RunOK(b),
           NEW r \in Nat \ {0}, AcceptedBelow(b, r), NEW n \in Nat \ {0}, NEW t \in Nat
    PROVE  LET c == SealIfFull(WriteFrame(EnsureActive(b), r, n, t)) IN
           Appended(b, c, r) /\ Placed(c, r)
<1>. DEFINE d == EnsureActive(b)
            w == WriteFrame(d, r, n, t)
            c == SealIfFull(w)
<1>1. Appended(b, d, 0) /\ OpenActive(d) /\ AcceptedBelow(d, r) /\ IsBuffer(d)
  BY ReadyAppended DEF Appended
<1>. HIDE DEF d
<1>2. IsBuffer(w) /\ SamePos(d, w)
  BY <1>1, WriteFrameType, WritePos DEF OpenActive
<1>3. Grows(d, w, r, n) /\ w.segs[d.active].bytes = d.segs[d.active].bytes + n
  BY <1>1, WriteFrameGrows
<1>. HIDE DEF w
<1>4. Appended(d, w, r) /\ Placed(w, r)
  BY <1>1, <1>2, <1>3, GrowAppended DEF Appended
<1>5. Appended(b, w, r)
  BY <1>1, <1>4, AppendedTwice
<1>6. OpenActive(w)
  BY <1>3 DEF Grows
<1>7. IsBuffer(c) /\ SameFiles(w, c) /\ SameBytes(w, c) /\ SamePos(w, c)
  BY <1>2, <1>6, SealSame
<1>. HIDE DEF c
<1>8. Appended(b, c, r)
  BY <1>5, <1>7, SealAppended
<1>9. Placed(c, r)
  BY <1>2, <1>4, <1>7, SameLessens
<1>. QED BY <1>8, <1>9 DEF c, w, d

\* an append that stops half way through its write
LEMMA TornAppended ==
    ASSUME NEW b, IsBuffer(b), NEW m \in Nat \ {0}, Below(b, m), LogOK(b), RunOK(b),
           NEW r \in Nat \ {0}, AcceptedBelow(b, r), NEW k \in Nat
    PROVE  Appended(b, WriteTorn(EnsureActive(b), k), 0)
<1>. DEFINE d == EnsureActive(b)
            w == WriteTorn(d, k)
<1>1. Appended(b, d, 0) /\ OpenActive(d) /\ AcceptedBelow(d, r) /\ IsBuffer(d)
  BY ReadyAppended DEF Appended
<1>. HIDE DEF d
<1>2. IsBuffer(w) /\ SamePos(d, w)
  BY <1>1, WriteTornType, WritePos DEF OpenActive
<1>3. Grows(d, w, 0, k) /\ w.segs[d.active].bytes = d.segs[d.active].bytes
  BY <1>1, WriteTornGrows
<1>4. d.segs[d.active].bytes \in Nat
  BY <1>1, ActiveId, CellsType
<1>. HIDE DEF w
<1>5. Appended(d, w, 0)
  <2>1. w.segs[d.active].bytes = d.segs[d.active].bytes + (IF 0 = 0 THEN 0 ELSE k)
    BY <1>3, <1>4
  <2>. QED BY <1>1, <1>2, <1>3, <2>1, GrowAppended DEF Appended
<1>. QED BY <1>1, <1>5, AppendedTwice DEF w, d

-----------------------------------------------------------------------------
(***************************************************************************)
(* Reading.                                                                *)
(***************************************************************************)
\* behind the last cell of a frame the next one starts
LEMMA NextFrame ==
    ASSUME NEW s \in Seq(Cell), Framed(s), NEW e \in 1 .. Len(s), s[e].pos = s[e].size
    PROVE  FrameStart(s, e)
<1>1. PICK m \in Nat : m = Len(s)
  OBVIOUS
<1>. SUFFICES ASSUME NEW k \in 1 .. m, k = e + 1, s[k].rec # 0, s[k].pos # 1 PROVE FALSE
  BY <1>1 DEF FrameStart
<1>2. PICK y \in Nat, p \in Nat : y = s[k].size /\ p = s[k].pos
  BY <1>1, CellAt
<1>3. PICK st \in Int : st = k - p
  BY <1>2
<1>4. Start(s, k) = st /\ End(s, k) = st + y
  BY <1>2, <1>3 DEF Start, End
<1>5. /\ st < k /\ k <= st + y
      /\ \A l \in 1 .. m : st < l /\ l <= st + y => s[l].size = y /\ Start(s, l) = st
  BY <1>1, <1>2, <1>4 DEF Framed
<1>6. p # 1 /\ st < k /\ k <= st + y /\ e \in Nat /\ k = e + 1
  BY <1>2, <1>5
<1>7. st < e /\ e <= st + y
  <2>1. p \in Nat /\ st \in Int /\ y \in Nat
    BY <1>2, <1>3
  <2>2. st = e + 1 - p /\ st < e + 1 /\ e + 1 <= st + y
    BY <1>3, <1>6
  <2>3. st < e
    BY <1>6, <2>1, <2>2
  <2>. QED BY <1>6, <2>1, <2>2, <2>3
<1>8. s[e].size = y /\ Start(s, e) = st
  BY <1>1, <1>5, <1>7
<1>9. s[e].pos = y /\ e - y = st
  BY <1>8 DEF Start
<1>. QED BY <1>2, <1>5, <1>6, <1>9

\* the frame at offset off: its cells, and what can follow it
LEMMA ReadFrame ==
    ASSUME NEW s \in Seq(Cell), Framed(s), Ordered(s), NEW off \in Nat, ReadableAt(s, off)
    PROVE  \A end : end = off + s[off + 1].size =>
             /\ end \in Nat /\ off < end /\ end <= Len(s)
             /\ s[off + 1].rec \in Nat \ {0} /\ off + 1 \in 1 .. Len(s)
             /\ \A k \in 1 .. Len(s) : off < k /\ k <= end => s[k].rec = s[off + 1].rec
             /\ \A k \in 1 .. Len(s) : end < k /\ s[k].rec # 0 => s[k].rec > s[off + 1].rec
             /\ FrameStart(s, end)
<1>. SUFFICES ASSUME NEW end, end = off + s[off + 1].size
              PROVE  /\ end \in Nat /\ off < end /\ end <= Len(s)
                     /\ s[off + 1].rec \in Nat \ {0} /\ off + 1 \in 1 .. Len(s)
                     /\ \A k \in 1 .. Len(s) : off < k /\ k <= end => s[k].rec = s[off + 1].rec
                     /\ \A k \in 1 .. Len(s) : end < k /\ s[k].rec # 0 => s[k].rec > s[off + 1].rec
                     /\ FrameStart(s, end)
  OBVIOUS
<1>1. PICK m \in Nat : m = Len(s)
  OBVIOUS
<1>2. PICK k0 \in 1 .. m : k0 = off + 1
  BY <1>1 DEF ReadableAt
<1>3. PICK z \in Nat : z = s[k0].size
  BY <1>1, <1>2, CellAt
<1>4. s[k0].rec # 0 /\ s[k0].pos = 1 /\ end = off + z /\ end <= m /\ s[k0].rec \in Nat
  BY <1>1, <1>2, <1>3, CellAt DEF ReadableAt
<1>5. Start(s, k0) = off /\ End(s, k0) = end
  BY <1>2, <1>3, <1>4 DEF Start, End
<1>6. /\ k0 <= end
      /\ \A l \in 1 .. m : off < l /\ l <= end =>
           s[l].rec = s[k0].rec /\ s[l].size = z /\ Start(s, l) = off
  BY <1>1, <1>2, <1>3, <1>4, <1>5 DEF Framed
\* a cell behind the frame that belongs to none that starts at off
<1>7. ASSUME NEW k \in 1 .. m, s[k].rec # 0
      PROVE  /\ k <= End(s, k) /\ Start(s, k) < k
             /\ Start(s, k) \in Int /\ End(s, k) = Start(s, k) + s[k].size
             /\ \A l \in 1 .. m : Start(s, k) < l /\ l <= End(s, k) =>
                  s[l].size = s[k].size /\ Start(s, l) = Start(s, k)
             /\ s[k].pos \in Nat /\ Start(s, k) = k - s[k].pos /\ s[k].size \in Nat
  <2>1. s[k].pos \in Nat /\ s[k].size \in Nat /\ k \in Int
    BY <1>1, CellAt
  <2>2. /\ k <= End(s, k) /\ Start(s, k) < k
        /\ \A l \in 1 .. m : Start(s, k) < l /\ l <= End(s, k) =>
             s[l].size = s[k].size /\ Start(s, l) = Start(s, k)
    BY <1>1, <1>7 DEF Framed
  <2>. QED BY <2>1, <2>2 DEF Start, End
<1>8. end \in Nat /\ k0 \in Nat /\ off < k0 /\ k0 <= end /\ off < end /\ end \in 1 .. m
  BY <1>2, <1>3, <1>4, <1>6
<1>9. ASSUME NEW k \in 1 .. m, end < k, s[k].rec # 0 PROVE s[k].rec > s[k0].rec
  <2>1. s[k0].rec < s[k].rec \/ Start(s, k) = off
    BY <1>1, <1>2, <1>4, <1>5, <1>8, <1>9 DEF Ordered
  <2>2. PICK y \in Nat : y = s[k].size
    BY <1>1, CellAt
  <2>3. ASSUME Start(s, k) = off PROVE FALSE
    <3>1. /\ k <= End(s, k) /\ End(s, k) = off + y
          /\ \A l \in 1 .. m : off < l /\ l <= End(s, k) => s[l].size = y
      BY <1>7, <1>9, <2>2, <2>3
    <3>2. k0 <= End(s, k)
      BY <1>8, <1>9, <3>1
    <3>3. y = z
      BY <1>3, <1>8, <3>1, <3>2
    <3>. QED BY <1>4, <1>9, <3>1, <3>3
  <2>4. s[k].rec \in Nat
    BY <1>1, CellAt
  <2>. QED BY <1>4, <2>1, <2>3, <2>4
<1>10. FrameStart(s, end)
  <2>1. PICK e \in 1 .. m : e = end
    BY <1>8
  <2>2. s[e].size = z /\ Start(s, e) = off /\ s[e].pos \in Nat
    BY <1>1, <1>6, <1>8, <2>1, CellAt
  <2>3. PICK p \in Nat : p = s[e].pos
    BY <2>2
  <2>4. e - p = off /\ e = off + z
    BY <1>4, <2>1, <2>2, <2>3 DEF Start
  <2>5. p = z
    BY <2>4
  <2>. QED BY <1>1, <2>1, <2>2, <2>3, <2>5, NextFrame
<1>. QED BY <1>1, <1>2, <1>4, <1>6, <1>8, <1>9, <1>10

\* where the walk can enter a segment
LEMMA EnterOK ==
    ASSUME NEW b, IsBuffer(b), LogOK(b), NEW pos \in Nat \X Nat, Within(b, pos), NEW i \in Ids(b)
    PROVE  /\ EnterAt(pos, i) \in Nat
           /\ NoTorn(Cells(b, i), EnterAt(pos, i)) /\ FrameStart(Cells(b, i), EnterAt(pos, i))
<1>1. CASE i = pos[1]
  BY <1>1 DEF Within, EnterAt
<1>2. CASE i # pos[1]
  BY <1>2, CellsType, FirstFrame DEF LogOK, EnterAt
<1>. QED BY <1>1, <1>2

LEMMA FoundIs ==
    ASSUME NEW b, IsBuffer(b), NEW pos \in Nat \X Nat, NEW e \in Found(b, pos)
    PROVE  \E i \in Ids(b) :
             /\ i \in Walk(b, pos) /\ pos[1] <= i /\ \A k \in Yielding(b, pos) : i <= k
             /\ ReadableAt(Cells(b, i), EnterAt(pos, i))
             /\ e.seg = i /\ e.rec = Cells(b, i)[EnterAt(pos, i) + 1].rec
             /\ e.end = EnterAt(pos, i) + Cells(b, i)[EnterAt(pos, i) + 1].size
<1>1. PICK i \in Yielding(b, pos) : e = EntryAt(b, pos, i) /\ \A k \in Yielding(b, pos) : i <= k
  BY DEF Found
<1>2. i \in Walk(b, pos) /\ i \in Ids(b) /\ pos[1] <= i /\ ReadableAt(Cells(b, i), EnterAt(pos, i))
  BY CellsType DEF Yielding, Walk, Cells
<1>3. /\ e.seg = i /\ e.rec = Cells(b, i)[EnterAt(pos, i) + 1].rec
      /\ e.end = EnterAt(pos, i) + Cells(b, i)[EnterAt(pos, i) + 1].size
  BY <1>1 DEF EntryAt, Cells
<1>. QED BY <1>1, <1>2, <1>3

\* what is read comes after everything read before, and before everything read later
LEMMA PeekAhead ==
    ASSUME NEW b, IsBuffer(b), LogOK(b), NEW pos \in Nat \X Nat, NEW e \in Found(b, pos)
    PROVE  /\ Ahead(b, <<e.seg, e.end>>, e.rec)
           /\ \A q \in Nat : Ahead(b, pos, q) => q < e.rec
           /\ \E i \in Ids(b) : e.rec \in RecsFrom(Cells(b, i), 0)
<1>1. PICK i \in Ids(b) :
             /\ pos[1] <= i
             /\ ReadableAt(Cells(b, i), EnterAt(pos, i))
             /\ e.seg = i /\ e.rec = Cells(b, i)[EnterAt(pos, i) + 1].rec
             /\ e.end = EnterAt(pos, i) + Cells(b, i)[EnterAt(pos, i) + 1].size
  BY FoundIs
<1>2. PICK off \in Nat : off = EnterAt(pos, i)
  BY DEF EnterAt
<1>3. PICK s \in Seq(Cell) : s = Cells(b, i)
  BY CellsType
<1>4. Framed(s) /\ Ordered(s) /\ ReadableAt(s, off) /\ e.end = off + s[off + 1].size
      /\ e.rec = s[off + 1].rec
  BY <1>1, <1>2, <1>3 DEF LogOK
<1>5. /\ e.end \in Nat /\ off < e.end /\ e.end <= Len(s)
      /\ s[off + 1].rec \in Nat \ {0} /\ off + 1 \in 1 .. Len(s)
      /\ \A k \in 1 .. Len(s) : e.end < k /\ s[k].rec # 0 => s[k].rec > s[off + 1].rec
  BY <1>4, ReadFrame
<1>6. e.rec \in RecsFrom(Cells(b, i), 0)
  <2>1. off + 1 > 0
    OBVIOUS
  <2>. QED BY <1>3, <1>4, <1>5, <2>1, RecsFromMember
<1>7. ASSUME NEW j \in Ids(b), NEW k \in 1 .. Len(Cells(b, j)),
             Cells(b, j)[k].rec # 0, After(<<e.seg, e.end>>, j, k)
      PROVE  Cells(b, j)[k].rec > e.rec
  <2>1. CASE j = i
    <3>1. k > e.end
      BY <1>1, <1>7, <2>1, CellsType DEF After
    <3>. QED BY <1>3, <1>4, <1>5, <1>7, <2>1, <3>1
  <2>2. CASE j # i
    <3>1. i < j
      BY <1>1, <1>7, <2>2, CellsType DEF After
    <3>2. Cells(b, j)[k].rec \in RecsFrom(Cells(b, j), 0)
      BY <1>7, RecsFromMember
    <3>3. e.rec < Cells(b, j)[k].rec
      BY <1>6, <3>1, <3>2 DEF LogOK
    <3>4. Cells(b, j)[k].rec \in Nat /\ e.rec \in Nat
      BY <1>4, <1>5, CellsType, CellAt
    <3>. QED BY <3>3, <3>4
  <2>. QED BY <2>1, <2>2
<1>8. ASSUME NEW q \in Nat, Ahead(b, pos, q) PROVE q < e.rec
  <2>1. off + 1 \in 1 .. Len(Cells(b, i)) /\ Cells(b, i)[off + 1].rec # 0
    BY <1>3, <1>5
  <2>2. After(pos, i, off + 1)
    <3>1. i \in Nat /\ pos[1] \in Nat
      BY CellsType
    <3>2. CASE i = pos[1]
      BY <1>2, <3>2 DEF After, EnterAt
    <3>3. CASE i # pos[1]
      BY <1>1, <3>1, <3>3 DEF After
    <3>. QED BY <3>2, <3>3
  <2>3. Cells(b, i)[off + 1].rec > q
    BY <1>8, <2>1, <2>2 DEF Ahead
  <2>. QED BY <1>3, <1>4, <1>5, <2>3
<1>. QED BY <1>6, <1>7, <1>8 DEF Ahead

\* what the walk passes over is reported as corrupt, or was behind the position before
LEMMA PeekAt ==
    ASSUME NEW b, IsBuffer(b), LogOK(b), RunOK(b), NEW pos \in Nat \X Nat, NEW gone,
           At(b, pos, gone), NEW e \in Found(b, pos)
    PROVE  At(b, <<e.seg, e.end>>, gone \cup {e.rec} \cup SkippedCorrupt(b, pos))
<1>1. PICK i \in Ids(b) :
             /\ i \in Walk(b, pos) /\ pos[1] <= i /\ \A k \in Yielding(b, pos) : i <= k
             /\ ReadableAt(Cells(b, i), EnterAt(pos, i))
             /\ e.seg = i /\ e.rec = Cells(b, i)[EnterAt(pos, i) + 1].rec
             /\ e.end = EnterAt(pos, i) + Cells(b, i)[EnterAt(pos, i) + 1].size
  BY FoundIs
<1>2. PICK off \in Nat : off = EnterAt(pos, i)
  BY DEF EnterAt
<1>3. PICK s \in Seq(Cell) : s = Cells(b, i)
  BY CellsType
<1>4. Framed(s) /\ Ordered(s) /\ ReadableAt(s, off) /\ e.end = off + s[off + 1].size
      /\ e.rec = s[off + 1].rec
  BY <1>1, <1>2, <1>3 DEF LogOK
<1>5. /\ e.end \in Nat /\ off < e.end /\ e.end <= Len(s)
      /\ s[off + 1].rec \in Nat \ {0} /\ off + 1 \in 1 .. Len(s)
      /\ \A k \in 1 .. Len(s) : off < k /\ k <= e.end => s[k].rec = s[off + 1].rec
      /\ FrameStart(s, e.end)
  BY <1>4, ReadFrame
<1>6. Within(b, pos) /\ i \in Nat /\ pos[1] \in Nat /\ pos[2] \in Nat
  BY CellsType DEF At
<1>7. Within(b, <<e.seg, e.end>>)
  <2>1. NoTorn(s, off)
    BY <1>2, <1>3, <1>6, EnterOK
  <2>2. NoTorn(s, e.end)
    BY <1>5, <2>1 DEF NoTorn
  <2>. QED BY <1>1, <1>3, <1>5, <1>6, <2>2 DEF Within
<1>8. ASSUME NEW j \in Ids(b), NEW k \in 1 .. Len(Cells(b, j)),
             Cells(b, j)[k].rec # 0, ~After(<<e.seg, e.end>>, j, k), After(pos, j, k)
      PROVE  Cells(b, j)[k].rec \in {e.rec} \cup SkippedCorrupt(b, pos)
  <2>0. j \in Nat /\ EnterAt(pos, j) \in Nat
    BY CellsType DEF EnterAt
  <2>1. pos[1] <= j /\ EnterAt(pos, j) < k
    BY <1>6, <1>8, <2>0 DEF After, EnterAt
  <2>2. CASE j = i
    <3>1. off < k /\ k <= e.end
      BY <1>1, <1>2, <1>5, <1>8, <2>1, <2>2 DEF After
    <3>. QED BY <1>3, <1>4, <1>5, <2>2, <3>1
  <2>3. CASE j # i
    <3>1. j < i
      BY <1>1, <1>6, <1>8, <2>0, <2>3 DEF After
    <3>2. j \in Walk(b, pos)
      BY <1>1, <2>1 DEF Walk
    <3>3. Cells(b, j)[k].rec \in RecsFrom(Cells(b, j), EnterAt(pos, j))
      BY <1>8, <2>1, RecsFromMember
    <3>4. EnterAt(pos, j) < b.segs[j].bytes
      <4>1. NoTorn(Cells(b, j), EnterAt(pos, j))
        BY <1>6, EnterOK
      <4>2. EnterAt(pos, j) \in 0 .. Len(Cells(b, j))
        BY <2>0, <2>1, CellsType
      <4>. QED BY <3>3, <4>1, <4>2 DEF RunOK, Counted, Cells
    <3>5. \A l \in Yielding(b, pos) : j < l
      <4>1. \A l \in Yielding(b, pos) : l \in Nat
        BY CellsType DEF Yielding, Walk
      <4>. QED BY <1>1, <1>6, <2>0, <3>1, <4>1
    <3>. QED BY <3>2, <3>3, <3>4, <3>5 DEF SkippedCorrupt, Cells
  <2>. QED BY <2>2, <2>3
<1>9. Behind(b, pos, gone)
  BY DEF At
<1>. QED BY <1>7, <1>8, <1>9 DEF At, Behind

\* without torn cells nothing is skipped
LEMMA NothingSkipped ==
    ASSUME NEW b, IsBuffer(b), LogOK(b), RunOK(b), NEW pos \in Nat \X Nat, Within(b, pos),
           \A i \in Ids(b) : NoTorn(Cells(b, i), Len(Cells(b, i)))
    PROVE  SkippedCorrupt(b, pos) = {}
<1>. SUFFICES ASSUME NEW j \in Walk(b, pos), EnterAt(pos, j) < b.segs[j].bytes,
                     \A k \in Yielding(b, pos) : j < k
              PROVE  FALSE
  BY DEF SkippedCorrupt
<1>1. j \in Ids(b) /\ j \in Nat
  BY CellsType DEF Walk
<1>2. PICK off \in Nat : off = EnterAt(pos, j)
  BY DEF EnterAt
<1>3. PICK s \in Seq(Cell) : s = Cells(b, j)
  BY <1>1, CellsType
<1>4. FrameStart(s, off)
  BY <1>1, <1>2, <1>3, EnterOK
<1>5. NoTorn(s, Len(s)) /\ Whole(s) /\ b.segs[j].bytes <= Len(s) /\ b.segs[j].bytes \in Nat
  BY <1>1, <1>3, CellsType DEF RunOK, Counted, Cells
<1>6. off < Len(s) /\ off + 1 \in 1 .. Len(s)
  BY <1>2, <1>5
<1>7. s[off + 1].rec # 0 /\ s[off + 1].pos = 1
  BY <1>4, <1>5, <1>6 DEF NoTorn, FrameStart
<1>8. off + s[off + 1].size <= Len(s)
  <2>1. End(s, off + 1) <= Len(s)
    BY <1>5, <1>6, <1>7 DEF Whole
  <2>2. s[off + 1].size \in Nat
    BY <1>6, CellAt
  <2>. QED BY <1>7, <2>1, <2>2 DEF End, Start
<1>9. j \in Yielding(b, pos)
  BY <1>2, <1>3, <1>6, <1>7, <1>8 DEF Yielding, ReadableAt, Cells
<1>. QED BY <1>1, <1>9

-----------------------------------------------------------------------------
(***************************************************************************)
(* The queue with its cursors: on a buffer b that has accepted the records *)
(* before n, with sv in state.json and the batch bt in the reader's hands. *)
(* A record before a cursor is among gone; one before an entry of the      *)
(* batch may be in the batch as well.                                      *)
(***************************************************************************)
EntryPos(bt, j) == <<bt[j].seg, bt[j].end>>

ReadTo(bt, j, gone) == gone \cup {bt[k].rec : k \in 1 .. j}

BatchAt(b, bt, gone) ==
    \A j \in 1 .. Len(bt) : At(b, EntryPos(bt, j), ReadTo(bt, j, gone))

QueueOK(b, n, sv, bt, gone) ==
    /\ Stored(b, n - 1, gone)
    /\ At(b, sv, gone)
    /\ At(b, CursorPos(b), gone)
    /\ BatchAt(b, bt, gone)

\* the batch is in order, and what is to be read behind an entry comes after it
BatchOK(b, bt, n) ==
    /\ \A j \in 1 .. Len(bt) : bt[j].rec \in 1 .. n - 1
    /\ \A j \in 1 .. Len(bt) : Ahead(b, EntryPos(bt, j), bt[j].rec)
    /\ \A j, k \in 1 .. Len(bt) : j < k => bt[j].rec < bt[k].rec

\* from b to c no position loses what it had
Carries(b, c) == \A pos \in Nat \X Nat : \A gone : At(b, pos, gone) => At(c, pos, gone)

LEMMA AtMore ==
    ASSUME NEW b, NEW pos, NEW gone, NEW more, gone \subseteq more, At(b, pos, gone)
    PROVE  At(b, pos, more)
BY DEF At, Behind

LEMMA EntryPosType ==
    ASSUME NEW bt \in Seq(Entry), NEW j \in 1 .. Len(bt)
    PROVE  EntryPos(bt, j) \in Nat \X Nat /\ bt[j].rec \in Nat
<1>1. bt[j] \in Entry
  OBVIOUS
<1>. QED BY <1>1 DEF Entry, EntryPos

LEMMA BatchMoves ==
    ASSUME NEW b, NEW c, Carries(b, c), NEW bt \in Seq(Entry), NEW gone, NEW more,
           gone \subseteq more, BatchAt(b, bt, gone)
    PROVE  BatchAt(c, bt, more)
<1>. SUFFICES ASSUME NEW j \in 1 .. Len(bt) PROVE At(c, EntryPos(bt, j), ReadTo(bt, j, more))
  BY DEF BatchAt
<1>1. At(b, EntryPos(bt, j), ReadTo(bt, j, gone))
  BY DEF BatchAt
<1>2. PICK g : g = ReadTo(bt, j, gone)
  OBVIOUS
<1>3. At(c, EntryPos(bt, j), g)
  BY <1>1, <1>2, EntryPosType DEF Carries
<1>4. g \subseteq ReadTo(bt, j, more)
  BY <1>2 DEF ReadTo
<1>. QED BY <1>3, <1>4, AtMore

LEMMA LessCarries ==
    ASSUME NEW b, NEW c, IsBuffer(b), IsBuffer(c), Lessens(b, c), KeepsNewest(b, c)
    PROVE  Carries(b, c)
BY LessAt DEF Carries

\* a queue whose cursor stays where it is
LEMMA QueueMoves ==
    ASSUME NEW b, NEW c, Carries(b, c), NEW n, NEW more, NEW gone, gone \subseteq more,
           NEW sv \in Nat \X Nat, NEW bt \in Seq(Entry), QueueOK(b, n, sv, bt, gone),
           NEW m, Stored(c, m - 1, more), At(c, CursorPos(c), more)
    PROVE  QueueOK(c, m, sv, bt, more)
<1>1. At(c, sv, more)
  <2>1. At(c, sv, gone)
    BY DEF QueueOK, Carries
  <2>. QED BY <2>1, AtMore
<1>2. BatchAt(c, bt, more)
  BY BatchMoves DEF QueueOK
<1>. QED BY <1>1, <1>2 DEF QueueOK

LEMMA CursorType ==
    ASSUME NEW b, IsBuffer(b)
    PROVE  CursorPos(b) \in Nat \X Nat
BY DEF IsBuffer, CursorPos

\* a record appended, or a part of one
LEMMA AppendedQueue ==
    ASSUME NEW b, IsBuffer(b), NEW c, NEW r, Appended(b, c, r), NEW n \in Nat \ {0}, NEW m,
           m = n \/ (m = n + 1 /\ Placed(c, n)), NEW gone,
           NEW sv \in Nat \X Nat, NEW bt \in Seq(Entry), QueueOK(b, n, sv, bt, gone)
    PROVE  QueueOK(c, m, sv, bt, gone)
<1>1. Carries(b, c)
  BY DEF Appended, Carries
<1>2. At(c, CursorPos(c), gone)
  <2>1. CursorPos(c) = CursorPos(b)
    BY DEF Appended, SamePos, CursorPos
  <2>. QED BY <1>1, <2>1, CursorType DEF QueueOK, Carries
<1>3. Stored(c, m - 1, gone)
  <2>. SUFFICES ASSUME NEW q \in 1 .. m - 1, q \notin gone PROVE Placed(c, q)
    BY DEF Stored
  <2>1. CASE q \in 1 .. n - 1
    <3>1. Placed(b, q)
      BY <2>1 DEF QueueOK, Stored
    <3>. QED BY <3>1 DEF Appended
  <2>2. CASE q \notin 1 .. n - 1
    <3>1. q = n /\ Placed(c, n)
      BY <2>2
    <3>. QED BY <3>1
  <2>. QED BY <2>1, <2>2
<1>. QED BY <1>1, <1>2, <1>3, QueueMoves

LEMMA OriginAt ==
    ASSUME NEW b, IsBuffer(b), NEW gone, CursorPos(b) = <<0, 0>>
    PROVE  At(b, CursorPos(b), gone)
<1>1. 0 \notin Ids(b) /\ \A i \in Ids(b) : i \in Nat /\ i > 0
  BY DEF IsBuffer
<1>2. OpenActive(b) => b.active # 0
  BY DEF OpenActive
<1>. QED BY <1>1, <1>2 DEF At, Within, Behind, After

\* the process is gone: what is left of the queue are the files and state.json
LEMMA DownQueue ==
    ASSUME NEW b, IsBuffer(b), NEW c, IsBuffer(c), Carries(b, c), CursorPos(c) = <<0, 0>>,
           NEW n, NEW gone, NEW more, gone \subseteq more, Stored(c, n - 1, more),
           NEW sv \in Nat \X Nat, At(b, sv, gone)
    PROVE  QueueOK(c, n, sv, <<>>, more)
<1>1. At(c, sv, more)
  <2>1. At(c, sv, gone)
    BY DEF Carries
  <2>. QED BY <2>1, AtMore
<1>2. At(c, CursorPos(c), more)
  BY OriginAt
<1>3. BatchAt(c, <<>>, more)
  BY DEF BatchAt
<1>. QED BY <1>1, <1>2, <1>3 DEF QueueOK

LEMMA SameStored ==
    ASSUME NEW b, IsBuffer(b), NEW c, IsBuffer(c), SameFiles(b, c), NEW n, NEW gone,
           Stored(b, n, gone)
    PROVE  Stored(c, n, gone)
BY SameLessens DEF Stored

\* what was cut off the files is accounted for in more
LEMMA CutStored ==
    ASSUME NEW b, IsBuffer(b), NEW c, IsBuffer(c), Cuts(b, c), NEW n \in Nat,
           NEW gone, NEW more, gone \subseteq more, Stored(b, n, gone),
           \A i \in Ids(b) : RecsFrom(Cells(b, i), Len(Cells(c, i))) \subseteq more
    PROVE  Stored(c, n, more)
<1>. SUFFICES ASSUME NEW r \in 1 .. n, r \notin more PROVE Placed(c, r)
  BY DEF Stored
<1>1. Placed(b, r) /\ r # 0
  BY DEF Stored
<1>. QED BY <1>1, CutPlaced

LEMMA EvictQueue ==
    ASSUME NEW b, IsBuffer(b), NEW c, IsBuffer(c), Shrinks(b, c), NEW m \in Nat, Below(b, m),
           ~Orphans(b, c), NEW n \in Nat \ {0}, NEW gone, At(c, CursorPos(c), gone),
           NEW sv \in Nat \X Nat, NEW bt \in Seq(Entry), QueueOK(b, n, sv, bt, gone)
    PROVE  QueueOK(c, n, sv, bt, gone \cup DroppedRecs(b, c))
<1>1. Carries(b, c)
  BY NotOrphaned, ShrinkLessens, LessCarries
<1>2. PICK more : more = gone \cup DroppedRecs(b, c)
  OBVIOUS
<1>3. Stored(c, n - 1, more)
  <2>1. n - 1 \in Nat /\ Stored(b, n - 1, gone)
    BY DEF QueueOK
  <2>. QED BY <1>2, <2>1, DropStored
<1>4. gone \subseteq more /\ At(c, CursorPos(c), more)
  BY <1>2, AtMore
<1>5. QueueOK(c, n, sv, bt, more)
  BY <1>1, <1>3, <1>4, QueueMoves
<1>. QED BY <1>2, <1>5

LEMMA ReclaimedQueue ==
    ASSUME NEW b, IsBuffer(b), NEW n \in Nat \ {0}, NEW gone,
           NEW sv \in Nat \X Nat, NEW bt \in Seq(Entry), QueueOK(b, n, sv, bt, gone)
    PROVE  QueueOK(Reclaim(b), n, sv, bt, gone)
<1>1. PICK c : c = Reclaim(b)
  OBVIOUS
<1>2. IsBuffer(c) /\ Shrinks(b, c)
  BY <1>1, ReclaimType
<1>3. n - 1 \in Nat /\ Stored(b, n - 1, gone) /\ At(b, CursorPos(b), gone)
  BY DEF QueueOK
<1>4. KeepsNewest(b, c) /\ SamePos(b, c) /\ Stored(c, n - 1, gone)
  BY <1>1, <1>3, ReclaimQueue
<1>5. Carries(b, c)
  BY <1>2, <1>4, ShrinkLessens, LessCarries
<1>6. At(c, CursorPos(c), gone)
  <2>1. CursorPos(c) = CursorPos(b)
    BY <1>4 DEF SamePos, CursorPos
  <2>. QED BY <1>3, <1>5, <2>1, CursorType DEF Carries
<1>7. QueueOK(c, n, sv, bt, gone)
  BY <1>4, <1>5, <1>6, QueueMoves
<1>. QED BY <1>1, <1>7

\* what is left of a batch when entry k, and with it what was read before, is settled
LEMMA LeftAt ==
    ASSUME NEW b, NEW bt \in Seq(Entry), NEW k \in 1 .. Len(bt), NEW s, LosesEntry(bt, s, k),
           NEW gone, BatchAt(b, bt, gone), NEW more, ReadTo(bt, k, gone) \subseteq more
    PROVE  BatchAt(b, s, more)
<1>1. s \in Seq(Entry) /\ Len(s) = Len(bt) - 1 /\ Len(s) \in Nat
  BY DEF LosesEntry
<1>. SUFFICES ASSUME NEW j \in 1 .. Len(s)
              PROVE  At(b, EntryPos(s, j), ReadTo(s, j, more))
  BY DEF BatchAt
<1>2. \A l \in 1 .. Len(s) : s[l] = bt[IF l < k THEN l ELSE l + 1]
  BY DEF LosesEntry
<1>3. PICK m \in 1 .. Len(bt) : m = (IF j < k THEN j ELSE j + 1)
  BY <1>1
<1>4. EntryPos(s, j) = EntryPos(bt, m)
  BY <1>2, <1>3 DEF EntryPos
<1>5. ReadTo(bt, m, gone) \subseteq ReadTo(s, j, more)
  <2>. SUFFICES ASSUME NEW l \in 1 .. m PROVE bt[l].rec \in ReadTo(s, j, more)
    BY DEF ReadTo
  <2>1. CASE l <= k
    BY <2>1 DEF ReadTo
  <2>2. CASE k < l
    <3>1. l - 1 \in 1 .. j /\ l - 1 \in 1 .. Len(s) /\ ~(l - 1 < k) /\ (l - 1) + 1 = l
      BY <1>1, <1>3, <2>2
    <3>2. s[l - 1] = bt[l]
      BY <1>2, <3>1
    <3>. QED BY <3>1, <3>2 DEF ReadTo
  <2>. QED BY <2>1, <2>2
<1>6. At(b, EntryPos(bt, m), ReadTo(bt, m, gone))
  BY DEF BatchAt
<1>7. At(b, EntryPos(bt, m), ReadTo(s, j, more))
  BY <1>5, <1>6, AtMore
<1>. QED BY <1>4, <1>7

\* the cursor moves to entry k of the batch bt, which is acknowledged; s is
\* another batch, or what is left of this one
LEMMA AckedQueue ==
    ASSUME NEW b, IsBuffer(b), NEW n \in Nat \ {0}, NEW gone,
           NEW sv \in Nat \X Nat, NEW bt \in Seq(Entry), NEW k \in 1 .. Len(bt),
           QueueOK(b, n, sv, bt, gone),
           NEW more, ReadTo(bt, k, gone) \subseteq more,
           NEW new \in Nat \X Nat, new \in {sv, EntryPos(bt, k)},
           NEW s \in Seq(Entry), BatchAt(b, s, gone) \/ LosesEntry(bt, s, k)
    PROVE  QueueOK(SetCursor(b, bt[k].seg, bt[k].end), n, new, s, more)
<1>1. PICK c : c = SetCursor(b, bt[k].seg, bt[k].end)
  OBVIOUS
<1>2. gone \subseteq more /\ bt[k] \in Entry
  BY DEF ReadTo
<1>3. IsBuffer(c) /\ Shrinks(b, c) /\ CursorPos(c) = EntryPos(bt, k)
  <2>1. PICK seg \in Nat, off \in Nat : seg = bt[k].seg /\ off = bt[k].end
    BY <1>2 DEF Entry
  <2>2. c = SetCursor(b, seg, off) /\ EntryPos(bt, k) = <<seg, off>>
    BY <1>1, <2>1 DEF EntryPos
  <2>. QED BY <2>2, MoveCursor, MovedPos
<1>4. KeepsNewest(b, c) /\ \A r : Placed(b, r) => Placed(c, r)
  <2>1. Ids(c) = Ids(b) /\ \A i \in Ids(b) : c.segs[i] = b.segs[i]
    BY <1>1, <1>3, MovedPos DEF Shrinks
  <2>2. \A i \in Ids(b) : i <= i
    BY CellsType
  <2>. QED BY <2>1, <2>2 DEF KeepsNewest, Placed, Cells
<1>5. Carries(b, c)
  BY <1>3, <1>4, ShrinkLessens, LessCarries
<1>6. At(b, EntryPos(bt, k), more)
  <2>1. At(b, EntryPos(bt, k), ReadTo(bt, k, gone))
    BY DEF QueueOK, BatchAt
  <2>. QED BY <2>1, AtMore
<1>7. At(c, EntryPos(bt, k), more)
  BY <1>5, <1>6, EntryPosType DEF Carries
<1>8. At(c, new, more)
  <2>1. At(b, sv, gone)
    BY DEF QueueOK
  <2>2. At(b, sv, more)
    BY <1>2, <2>1, AtMore
  <2>. QED BY <1>5, <1>7, <2>2 DEF Carries
<1>9. Stored(c, n - 1, more)
  BY <1>2, <1>4 DEF QueueOK, Stored
<1>10. BatchAt(c, s, more)
  <2>1. CASE BatchAt(b, s, gone)
    BY <1>2, <1>5, <2>1, BatchMoves
  <2>2. CASE LosesEntry(bt, s, k)
    <3>1. BatchAt(b, s, more)
      BY <2>2, LeftAt DEF QueueOK
    <3>. QED BY <1>5, <3>1, BatchMoves
  <2>. QED BY <2>1, <2>2
<1>11. QueueOK(c, n, new, s, more)
  BY <1>3, <1>7, <1>8, <1>9, <1>10 DEF QueueOK
<1>. QED BY <1>1, <1>11

LEMMA NoBatch ==
    ASSUME NEW b, NEW n, NEW gone, NEW sv, NEW bt, QueueOK(b, n, sv, bt, gone)
    PROVE  QueueOK(b, n, sv, <<>>, gone)
BY DEF QueueOK, BatchAt

\* where a peek starts
PeekPos(b, bt) == IF bt = <<>> THEN CursorPos(b) ELSE EntryPos(bt, Len(bt))

LEMMA PeekPosType ==
    ASSUME NEW b, IsBuffer(b), NEW bt \in Seq(Entry)
    PROVE  PeekPos(b, bt) \in Nat \X Nat
<1>1. CASE bt = <<>>
  BY <1>1, CursorType DEF PeekPos
<1>2. CASE bt # <<>>
  <2>1. Len(bt) \in 1 .. Len(bt)
    BY <1>2
  <2>. QED BY <1>2, <2>1, EntryPosType DEF PeekPos
<1>. QED BY <1>1, <1>2

LEMMA PeekPosAt ==
    ASSUME NEW b, IsBuffer(b), NEW bt \in Seq(Entry), NEW n, NEW sv, NEW gone,
           QueueOK(b, n, sv, bt, gone)
    PROVE  At(b, PeekPos(b, bt), ReadTo(bt, Len(bt), gone))
<1>1. CASE bt = <<>>
  <2>1. gone \subseteq ReadTo(bt, Len(bt), gone)
    BY DEF ReadTo
  <2>2. At(b, CursorPos(b), gone)
    BY DEF QueueOK
  <2>. QED BY <1>1, <2>1, <2>2, AtMore DEF PeekPos
<1>2. CASE bt # <<>>
  <2>1. Len(bt) \in 1 .. Len(bt)
    BY <1>2
  <2>. QED BY <1>2, <2>1 DEF PeekPos, QueueOK, BatchAt
<1>. QED BY <1>1, <1>2

\* the entry a peek returns joins the batch
LEMMA PeekedQueue ==
    ASSUME NEW b, IsBuffer(b), LogOK(b), RunOK(b), NEW bt \in Seq(Entry), NEW n, NEW gone,
           NEW sv \in Nat \X Nat, QueueOK(b, n, sv, bt, gone),
           NEW e \in Found(b, PeekPos(b, bt)),
           NEW more, more = gone \cup SkippedCorrupt(b, PeekPos(b, bt))
    PROVE  QueueOK(b, n, sv, Append(bt, e), more)
<1>1. PICK new : new = Append(bt, e)
  OBVIOUS
<1>2. PICK m \in Nat : m = Len(bt)
  OBVIOUS
<1>3. /\ Len(new) = m + 1 /\ new[m + 1] = e
      /\ \A k \in 1 .. m : new[k] = bt[k]
  BY <1>1, <1>2
<1>4. gone \subseteq more
  OBVIOUS
<1>5. At(b, <<e.seg, e.end>>, ReadTo(bt, m, gone) \cup {e.rec} \cup SkippedCorrupt(b, PeekPos(b, bt)))
  BY <1>2, PeekPosAt, PeekPosType, PeekAt
<1>6. BatchAt(b, new, more)
  <2>. SUFFICES ASSUME NEW j \in 1 .. m + 1 PROVE At(b, EntryPos(new, j), ReadTo(new, j, more))
    BY <1>3 DEF BatchAt
  <2>1. CASE j \in 1 .. m
    <3>1. EntryPos(new, j) = EntryPos(bt, j)
      BY <1>3, <2>1 DEF EntryPos
    <3>2. ReadTo(bt, j, gone) \subseteq ReadTo(new, j, more)
      BY <1>3, <1>4, <2>1 DEF ReadTo
    <3>3. At(b, EntryPos(bt, j), ReadTo(bt, j, gone))
      BY <1>2, <2>1 DEF QueueOK, BatchAt
    <3>. QED BY <3>1, <3>2, <3>3, AtMore
  <2>2. CASE j \notin 1 .. m
    <3>1. j = m + 1
      BY <2>2
    <3>2. EntryPos(new, j) = <<e.seg, e.end>>
      BY <1>3, <3>1 DEF EntryPos
    <3>3. ReadTo(bt, m, gone) \cup {e.rec} \cup SkippedCorrupt(b, PeekPos(b, bt))
             \subseteq ReadTo(new, j, more)
      <4>1. \A k \in 1 .. m : k \in 1 .. j /\ bt[k].rec = new[k].rec
        BY <1>3, <3>1
      <4>2. e.rec \in {new[k].rec : k \in 1 .. j}
        BY <1>3, <3>1
      <4>. QED BY <1>4, <4>1, <4>2 DEF ReadTo
    <3>. QED BY <1>5, <3>2, <3>3, AtMore
  <2>. QED BY <2>1, <2>2
<1>7. At(b, sv, more) /\ At(b, CursorPos(b), more) /\ Stored(b, n - 1, more)
  <2>1. At(b, sv, gone) /\ At(b, CursorPos(b), gone) /\ Stored(b, n - 1, gone)
    BY DEF QueueOK
  <2>2. Stored(b, n - 1, more)
    BY <1>4, <2>1 DEF Stored
  <2>. QED BY <1>4, <2>1, <2>2, AtMore
<1>. QED BY <1>1, <1>6, <1>7 DEF QueueOK

LEMMA MoreQueue ==
    ASSUME NEW b, NEW n, NEW sv \in Nat \X Nat, NEW bt \in Seq(Entry), NEW gone, NEW more,
           gone \subseteq more, QueueOK(b, n, sv, bt, gone)
    PROVE  QueueOK(b, n, sv, bt, more)
<1>1. At(b, CursorPos(b), more) /\ Stored(b, n - 1, more)
  <2>1. At(b, CursorPos(b), gone)
    BY DEF QueueOK
  <2>. QED BY <2>1, AtMore DEF QueueOK, Stored
<1>2. Carries(b, b)
  BY DEF Carries
<1>. QED BY <1>1, <1>2, QueueMoves

-----------------------------------------------------------------------------
(***************************************************************************)
(* The order of the log and of the batch, as invariants of the behaviour.  *)
(***************************************************************************)
LogInv == LogOK(buf) /\ (up => RunOK(buf))

\* the batches of the readers; an empty one is one of them
Batches == {<<>>} \cup {batch[d] : d \in Readers}

AheadInv == \A bt \in Batches : BatchOK(buf, bt, nextRec)

OrderInv == Inv /\ LogInv /\ AheadInv

LEMMA InvFacts ==
    ASSUME Inv
    PROVE  /\ IsBuffer(buf) /\ AcceptedBelow(buf, nextRec)
           /\ \A i \in Ids(buf) : buf.segs[i].synced <= Len(Cells(buf, i))
           /\ nextRec + errs + stops \in Nat \ {0} /\ Below(buf, nextRec + errs + stops)
           /\ nextRec \in Nat \ {0} /\ saved \in Nat \X Nat
           /\ Batches \subseteq Seq(Entry)
<1>1. <<>> \in Seq(Entry)
  OBVIOUS
<1>2. Batches \subseteq Seq(Entry)
  BY <1>1 DEF Inv, TypeOK, Batches
<1>. QED BY <1>2 DEF Inv, TypeOK, DurabilityInv, Durable, SegmentDurable, AcceptedBelow, Below, Cells

LEMMA BatchIs ==
    ASSUME NEW d \in Readers
    PROVE  batch[d] \in Batches
BY DEF Batches

LEMMA BatchesStay ==
    ASSUME UNCHANGED batch \/ UNCHANGED readVars
    PROVE  Batches' = Batches
BY DEF Batches, readVars

LEMMA BatchesDropped ==
    ASSUME DropBatches
    PROVE  Batches' = {<<>>}
BY DEF Batches, DropBatches

\* the batch of one reader changes
LEMMA BatchesReplaced ==
    ASSUME Inv, NEW d \in Readers, NEW s, batch' = [batch EXCEPT ![d] = s]
    PROVE  Batches' \subseteq Batches \cup {s}
BY DEF Batches, Inv, TypeOK

LEMMA LessAccepted ==
    ASSUME NEW b, NEW c, IsBuffer(b), IsBuffer(c), Lessens(b, c), NEW r, AcceptedBelow(b, r)
    PROVE  AcceptedBelow(c, r)
<1>. SUFFICES ASSUME NEW i \in Ids(c), NEW q \in RecsFrom(Cells(c, i), 0) PROVE q \in 1 .. r - 1
  BY DEF AcceptedBelow
<1>1. q # 0 /\ \E k \in 1 .. Len(Cells(c, i)) : k > 0 /\ Cells(c, i)[k].rec = q
  BY RecsFromMember
<1>2. i \in Ids(b) /\ \E k \in 1 .. Len(Cells(b, i)) : k > 0 /\ Cells(b, i)[k].rec = q
  BY <1>1, LessCell
<1>3. q \in RecsFrom(Cells(b, i), 0)
  BY <1>1, <1>2, RecsFromMember
<1>. QED BY <1>2, <1>3 DEF AcceptedBelow

\* the buffer after making room for an append
LEMMA RoomLog ==
    ASSUME Inv, LogInv, up, NEW n
    PROVE  LET c == AfterEvict(n) IN
           /\ IsBuffer(c) /\ LogOK(c) /\ RunOK(c) /\ Lessens(buf, c)
           /\ Below(c, nextRec + errs + stops) /\ AcceptedBelow(c, nextRec)
<1>. DEFINE c == AfterEvict(n)
<1>1. IsBuffer(buf) /\ IsBuffer(c) /\ Shrinks(buf, c)
  BY MakeRoom, InvFacts
<1>. HIDE DEF c
<1>2. Lessens(buf, c) /\ RunOK(c)
  BY <1>1, ShrinkLessens DEF LogInv
<1>3. LogOK(c)
  BY <1>1, <1>2, LessLog DEF LogInv
<1>4. Below(c, nextRec + errs + stops)
  BY <1>1, InvFacts DEF Shrinks, Below
<1>5. AcceptedBelow(c, nextRec)
  BY <1>1, <1>2, InvFacts, LessAccepted
<1>. QED BY <1>1, <1>2, <1>3, <1>4, <1>5 DEF c

LEMMA WrittenLog ==
    ASSUME Inv, LogInv, up, NEW n \in Sizes, NEW k \in Nat
    PROVE  /\ Appended(AfterEvict(n), SealIfFull(WriteFrame(EnsureActive(AfterEvict(n)), nextRec, n, clock)), nextRec)
           /\ Placed(SealIfFull(WriteFrame(EnsureActive(AfterEvict(n)), nextRec, n, clock)), nextRec)
           /\ Appended(AfterEvict(n), WriteTorn(EnsureActive(AfterEvict(n)), k), 0)
<1>1. PICK c : c = AfterEvict(n)
  OBVIOUS
<1>2. PICK m \in Nat \ {0} : m = nextRec + errs + stops
  BY InvFacts
<1>3. IsBuffer(c) /\ LogOK(c) /\ RunOK(c) /\ Below(c, m) /\ AcceptedBelow(c, nextRec)
  BY <1>1, <1>2, RoomLog
<1>4. n \in Nat \ {0} /\ nextRec \in Nat \ {0} /\ clock \in Nat
  BY SizesAssumption, InvFacts DEF Inv, TypeOK
<1>5. Appended(c, WriteTorn(EnsureActive(c), k), 0)
  BY <1>2, <1>3, <1>4, TornAppended
<1>6. /\ Appended(c, SealIfFull(WriteFrame(EnsureActive(c), nextRec, n, clock)), nextRec)
      /\ Placed(SealIfFull(WriteFrame(EnsureActive(c), nextRec, n, clock)), nextRec)
  BY <1>2, <1>3, <1>4, FrameAppended
<1>. QED BY <1>1, <1>5, <1>6

LEMMA LastEntry ==
    ASSUME NEW bt \in Seq(Entry), bt # <<>>
    PROVE  Len(bt) \in 1 .. Len(bt)
OBVIOUS

LEMMA BatchKept ==
    ASSUME NEW b, NEW c, NEW bt \in Seq(Entry), NEW n \in Nat \ {0}, NEW m \in {n, n + 1},
           BatchOK(b, bt, n),
           \A pos, q : q \in 1 .. n - 1 /\ Ahead(b, pos, q) => Ahead(c, pos, q)
    PROVE  BatchOK(c, bt, m)
<1>1. \A j \in 1 .. Len(bt) : bt[j].rec \in 1 .. n - 1 /\ bt[j].rec \in 1 .. m - 1
  BY DEF BatchOK
<1>2. \A j \in 1 .. Len(bt) : Ahead(c, EntryPos(bt, j), bt[j].rec)
  BY <1>1 DEF BatchOK
<1>. QED BY <1>1, <1>2 DEF BatchOK

LEMMA EmptyBatch ==
    ASSUME NEW b, NEW n
    PROVE  BatchOK(b, <<>>, n)
BY DEF BatchOK

LEMMA BatchLess ==
    ASSUME NEW b, NEW c, IsBuffer(b), IsBuffer(c), Lessens(b, c), NEW bt \in Seq(Entry),
           NEW n \in Nat \ {0}, BatchOK(b, bt, n)
    PROVE  BatchOK(c, bt, n)
<1>1. \A pos, q : q \in 1 .. n - 1 /\ Ahead(b, pos, q) => Ahead(c, pos, q)
  BY LessAhead
<1>. QED BY <1>1, BatchKept

LEMMA BatchLoses ==
    ASSUME NEW b, NEW bt \in Seq(Entry), NEW k \in 1 .. Len(bt), NEW s, LosesEntry(bt, s, k),
           NEW n, BatchOK(b, bt, n)
    PROVE  BatchOK(b, s, n)
<1>. DEFINE old(j) == IF j < k THEN j ELSE j + 1
<1>1. s \in Seq(Entry) /\ Len(s) = Len(bt) - 1 /\ \A j \in 1 .. Len(s) : s[j] = bt[old(j)]
  BY DEF LosesEntry
<1>2. \A j \in 1 .. Len(s) : old(j) \in 1 .. Len(bt)
  BY <1>1
<1>3. \A j, l \in 1 .. Len(s) : j < l => old(j) < old(l)
  BY <1>1
<1>. HIDE DEF old
<1>4. \A j \in 1 .. Len(s) : s[j].rec \in 1 .. n - 1
  BY <1>1, <1>2 DEF BatchOK
<1>5. \A j \in 1 .. Len(s) : Ahead(b, EntryPos(s, j), s[j].rec)
  BY <1>1, <1>2 DEF BatchOK, EntryPos
<1>6. \A j, l \in 1 .. Len(s) : j < l => s[j].rec < s[l].rec
  BY <1>1, <1>2, <1>3 DEF BatchOK
<1>. QED BY <1>4, <1>5, <1>6 DEF BatchOK

LEMMA BatchPeek ==
    ASSUME NEW b, IsBuffer(b), LogOK(b), NEW bt \in Seq(Entry), NEW n \in Nat \ {0},
           AcceptedBelow(b, n), BatchOK(b, bt, n), NEW e \in Found(b, PeekPos(b, bt))
    PROVE  BatchOK(b, Append(bt, e), n)
<1>1. PICK new : new = Append(bt, e)
  OBVIOUS
<1>2. PICK m \in Nat : m = Len(bt)
  OBVIOUS
<1>3. /\ Len(new) = m + 1 /\ new[m + 1] = e
      /\ \A k \in 1 .. m : new[k] = bt[k]
  BY <1>1, <1>2
<1>4. /\ Ahead(b, <<e.seg, e.end>>, e.rec)
      /\ \A q \in Nat : Ahead(b, PeekPos(b, bt), q) => q < e.rec
      /\ e.rec \in 1 .. n - 1
  BY PeekPosType, PeekAhead DEF AcceptedBelow
<1>5. \A j \in 1 .. m : bt[j].rec < e.rec
  <2>. SUFFICES ASSUME NEW j \in 1 .. m PROVE bt[j].rec < e.rec
    OBVIOUS
  <2>1. bt # <<>> /\ m \in 1 .. m
    BY <1>2
  <2>2. Ahead(b, PeekPos(b, bt), bt[m].rec)
    BY <1>2, <2>1 DEF BatchOK, PeekPos
  <2>3. bt[m].rec \in Nat /\ bt[j].rec \in Nat
    BY <1>2, <2>1, EntryPosType
  <2>4. bt[m].rec < e.rec
    BY <1>4, <2>2, <2>3
  <2>5. bt[j].rec < bt[m].rec \/ j = m
    BY <1>2, <2>1 DEF BatchOK
  <2>. QED BY <1>4, <2>3, <2>4, <2>5
<1>6. \A j, k \in 1 .. m + 1 : j < k => new[j].rec < new[k].rec
  <2>. SUFFICES ASSUME NEW j \in 1 .. m + 1, NEW k \in 1 .. m + 1, j < k
                PROVE  new[j].rec < new[k].rec
    OBVIOUS
  <2>1. CASE k \in 1 .. m
    <3>1. j \in 1 .. m
      BY <2>1
    <3>. QED BY <1>2, <1>3, <2>1, <3>1 DEF BatchOK
  <2>2. CASE k \notin 1 .. m
    <3>1. k = m + 1 /\ j \in 1 .. m
      BY <2>2
    <3>. QED BY <1>3, <1>5, <3>1
  <2>. QED BY <2>1, <2>2
<1>7. \A j \in 1 .. m + 1 : new[j].rec \in 1 .. n - 1
  <2>. SUFFICES ASSUME NEW j \in 1 .. m + 1 PROVE new[j].rec \in 1 .. n - 1
    OBVIOUS
  <2>1. CASE j \in 1 .. m
    BY <1>2, <1>3, <2>1 DEF BatchOK
  <2>2. CASE j \notin 1 .. m
    <3>1. j = m + 1
      BY <2>2
    <3>. QED BY <1>3, <1>4, <3>1
  <2>. QED BY <2>1, <2>2
<1>8. \A j \in 1 .. m + 1 : Ahead(b, EntryPos(new, j), new[j].rec)
  <2>. SUFFICES ASSUME NEW j \in 1 .. m + 1 PROVE Ahead(b, EntryPos(new, j), new[j].rec)
    OBVIOUS
  <2>1. CASE j \in 1 .. m
    BY <1>2, <1>3, <2>1 DEF BatchOK, EntryPos
  <2>2. CASE j \notin 1 .. m
    <3>1. j = m + 1
      BY <2>2
    <3>. QED BY <1>3, <1>4, <3>1 DEF EntryPos
  <2>. QED BY <2>1, <2>2
<1>9. BatchOK(b, new, n)
  BY <1>3, <1>6, <1>7, <1>8 DEF BatchOK
<1>. QED BY <1>1, <1>9

-----------------------------------------------------------------------------
(***************************************************************************)
(* Every action preserves the order of the log and of the batch.           *)
(***************************************************************************)
\* s is a batch, or what is left of one when an entry is acknowledged
Remains(s) == s \in Batches \/ \E bt \in Batches : \E k \in 1 .. Len(bt) : LosesEntry(bt, s, k)

LEMMA StayRemains ==
    ASSUME Inv, \/ UNCHANGED batch \/ UNCHANGED readVars \/ DropBatches
                \/ \E d \in Readers : batch' = [batch EXCEPT ![d] = <<>>]
    PROVE  Batches' \subseteq Batches /\ \A s \in Batches' : Remains(s)
<1>1. Batches' \subseteq Batches
  <2>1. CASE UNCHANGED batch \/ UNCHANGED readVars
    BY <2>1, BatchesStay
  <2>2. CASE DropBatches
    BY <2>2, BatchesDropped DEF Batches
  <2>3. CASE \E d \in Readers : batch' = [batch EXCEPT ![d] = <<>>]
    <3>1. Batches' \subseteq Batches \cup {<<>>}
      BY <2>3, BatchesReplaced
    <3>. QED BY <3>1 DEF Batches
  <2>. QED BY <2>1, <2>2, <2>3
<1>. QED BY <1>1 DEF Remains

\* the files were only cut short, if they changed at all
LEMMA LessOrder ==
    ASSUME OrderInv, Inv', Lessens(buf, buf'), up' => RunOK(buf'), nextRec' = nextRec,
           \A s \in Batches' : Remains(s)
    PROVE  OrderInv'
<1>1. IsBuffer(buf) /\ IsBuffer(buf')
  BY DEF OrderInv, Inv, TypeOK
<1>2. LogInv'
  <2>1. LogOK(buf')
    BY <1>1, LessLog DEF OrderInv, LogInv
  <2>. QED BY <2>1 DEF LogInv
<1>3. AheadInv'
  <2>1. \A bt \in Batches : BatchOK(buf', bt, nextRec)
    BY <1>1, InvFacts, BatchLess DEF OrderInv, AheadInv
  <2>2. ASSUME NEW s \in Batches' PROVE BatchOK(buf', s, nextRec)
    <3>1. CASE s \in Batches
      BY <2>1, <3>1
    <3>2. CASE \E bt \in Batches : \E k \in 1 .. Len(bt) : LosesEntry(bt, s, k)
      BY <2>1, <3>2, InvFacts, BatchLoses DEF OrderInv
    <3>. QED BY <3>1, <3>2 DEF Remains
  <2>. QED BY <2>2 DEF AheadInv
<1>. QED BY <1>2, <1>3 DEF OrderInv

\* room was made, and something was appended
LEMMA AppendOrder ==
    ASSUME OrderInv, Inv', up, NEW n, NEW r, r = 0 \/ (r = nextRec /\ nextRec' = nextRec + 1),
           nextRec' \in {nextRec, nextRec + 1}, Appended(AfterEvict(n), buf', r),
           UNCHANGED readVars
    PROVE  OrderInv'
<1>1. PICK c : c = AfterEvict(n)
  OBVIOUS
<1>2. IsBuffer(buf) /\ IsBuffer(c) /\ Lessens(buf, c) /\ nextRec \in Nat \ {0}
  BY <1>1, RoomLog, InvFacts DEF OrderInv
<1>3. Appended(c, buf', r)
  BY <1>1
<1>4. LogInv'
  BY <1>3 DEF LogInv, Appended
<1>5. \A pos, q : q \in 1 .. nextRec - 1 /\ Ahead(buf, pos, q) => Ahead(buf', pos, q)
  <2>. SUFFICES ASSUME NEW pos, NEW q \in 1 .. nextRec - 1, Ahead(buf, pos, q)
                PROVE  Ahead(buf', pos, q)
    OBVIOUS
  <2>1. Ahead(c, pos, q)
    BY <1>2, LessAhead
  <2>2. q \in Nat /\ (r = 0 \/ q < r)
    BY <1>2
  <2>. QED BY <1>3, <2>1, <2>2 DEF Appended
<1>6. \A bt \in Batches : BatchOK(buf', bt, nextRec')
  BY <1>2, <1>5, BatchKept, InvFacts DEF OrderInv, AheadInv
<1>7. AheadInv'
  BY <1>6, BatchesStay DEF AheadInv
<1>. QED BY <1>4, <1>7 DEF OrderInv

LEMMA AppendOkOrder ==
    ASSUME OrderInv, Inv', NEW n \in Sizes, AppendOk(n)
    PROVE  OrderInv'
<1>1. Appended(AfterEvict(n), buf', nextRec)
  BY WrittenLog DEF OrderInv, AppendOk
<1>2. nextRec' = nextRec + 1 /\ UNCHANGED readVars /\ up
  BY DEF AppendOk
<1>. QED BY <1>1, <1>2, AppendOrder

LEMMA AppendFailsOrder ==
    ASSUME OrderInv, Inv', NEW n \in Sizes, NEW k \in 0 .. (n - 1), AppendFails(n, k)
    PROVE  OrderInv'
<1>1. Appended(AfterEvict(n), buf', 0)
  <2>1. k \in Nat
    OBVIOUS
  <2>. QED BY <2>1, WrittenLog DEF OrderInv, AppendFails
<1>2. nextRec' = nextRec /\ UNCHANGED readVars /\ up
  BY DEF AppendFails
<1>. QED BY <1>1, <1>2, AppendOrder

LEMMA AppendFullOrder ==
    ASSUME OrderInv, Inv', NEW n \in Sizes, AppendFull(n)
    PROVE  OrderInv'
<1>1. Lessens(buf, buf') /\ RunOK(buf')
  BY RoomLog DEF OrderInv, AppendFull
<1>. QED BY <1>1, LessOrder, StayRemains DEF AppendFull, OrderInv

LEMMA KilledFiles ==
    ASSUME Inv, LogInv, NEW n \in Sizes, NEW k \in 0 .. (n - 1), KillInAppend(n, k)
    PROVE  \E w : /\ Appended(AfterEvict(n), w, 0)
                  /\ w = WriteTorn(EnsureActive(AfterEvict(n)), k)
                  /\ IsBuffer(buf') /\ SameFiles(w, buf') /\ CursorPos(buf') = <<0, 0>>
<1>1. PICK w : w = WriteTorn(EnsureActive(AfterEvict(n)), k)
  OBVIOUS
<1>2. Appended(AfterEvict(n), w, 0)
  <2>1. k \in Nat /\ up
    BY DEF KillInAppend
  <2>. QED BY <1>1, <2>1, WrittenLog
<1>3. IsBuffer(w) /\ buf' = OnDisk(w)
  BY <1>1, <1>2 DEF Appended, KillInAppend
<1>4. IsBuffer(buf') /\ SameFiles(w, buf') /\ CursorPos(buf') = <<0, 0>>
  BY <1>3, OnDiskSame DEF CursorPos
<1>. QED BY <1>1, <1>2, <1>4

LEMMA KillInAppendOrder ==
    ASSUME OrderInv, Inv', NEW n \in Sizes, NEW k \in 0 .. (n - 1), KillInAppend(n, k)
    PROVE  OrderInv'
<1>1. PICK w : Appended(AfterEvict(n), w, 0) /\ IsBuffer(buf') /\ SameFiles(w, buf')
  BY KilledFiles DEF OrderInv
<1>2. LogOK(buf')
  BY <1>1, SameLessens, LessLog DEF Appended
<1>3. ~up' /\ Batches' = {<<>>}
  BY BatchesDropped DEF KillInAppend
<1>. QED BY <1>2, <1>3, EmptyBatch DEF OrderInv, LogInv, AheadInv

LEMMA SyncOrder ==
    ASSUME OrderInv, Inv', Sync
    PROVE  OrderInv'
<1>1. SameFiles(buf, buf') /\ SameBytes(buf, buf') /\ IsBuffer(buf')
  BY SyncSame, InvFacts DEF Sync, OrderInv
<1>2. RunOK(buf')
  BY <1>1, SameRun DEF OrderInv, LogInv, Sync
<1>3. Lessens(buf, buf')
  BY <1>1, SameLessens, InvFacts DEF OrderInv
<1>. QED BY <1>2, <1>3, LessOrder, StayRemains DEF Sync, OrderInv

LEMMA EvictExpiredOrder ==
    ASSUME OrderInv, Inv', EvictExpired
    PROVE  OrderInv'
<1>1. PICK m \in Nat : m = nextRec + errs + stops
  BY InvFacts DEF OrderInv
<1>2. IsBuffer(buf) /\ Below(buf, m)
  BY <1>1, InvFacts DEF OrderInv
<1>3. IsBuffer(buf') /\ Shrinks(buf, buf')
  BY <1>2, DropExpiredType DEF EvictExpired
<1>4. Lessens(buf, buf') /\ RunOK(buf')
  BY <1>2, <1>3, ShrinkLessens DEF OrderInv, LogInv, EvictExpired
<1>. QED BY <1>4, LessOrder, StayRemains DEF EvictExpired, OrderInv

LEMMA PeekPosIs ==
    ASSUME NEW d \in Readers
    PROVE  PeekPos(buf, batch[d]) = ReadPos(d)
BY DEF PeekPos, ReadPos, CursorPos, EntryPos, Last

LEMMA SameBuffer ==
    ASSUME IsBuffer(buf), buf' = buf
    PROVE  Lessens(buf, buf') /\ KeepsNewest(buf, buf')
<1>1. SameFiles(buf, buf)
  BY DEF SameFiles
<1>. QED BY <1>1, SameLessens

LEMMA PeekAfterOrder ==
    ASSUME OrderInv, Inv', NEW d \in Readers, PeekAfter(d)
    PROVE  OrderInv'
<1>1. buf' = buf /\ up /\ up' /\ nextRec' = nextRec
  BY DEF PeekAfter, bufVars
<1>2. CASE batch' = batch
  BY <1>1, <1>2, SameBuffer, InvFacts, LessOrder, StayRemains DEF OrderInv, LogInv
<1>3. CASE \E e \in Found(buf, ReadPos(d)) : batch' = [batch EXCEPT ![d] = Append(@, e)]
  <2>1. PICK e \in Found(buf, PeekPos(buf, batch[d])) :
               batch' = [batch EXCEPT ![d] = Append(batch[d], e)]
    BY <1>3, PeekPosIs
  <2>2. batch[d] \in Seq(Entry) /\ BatchOK(buf, batch[d], nextRec)
    BY BatchIs, InvFacts DEF OrderInv, AheadInv
  <2>3. BatchOK(buf, Append(batch[d], e), nextRec)
    BY <2>2, BatchPeek, InvFacts DEF OrderInv, LogInv
  <2>4. Batches' \subseteq Batches \cup {Append(batch[d], e)}
    BY <2>1, BatchesReplaced DEF OrderInv
  <2>5. AheadInv'
    BY <1>1, <2>3, <2>4 DEF OrderInv, AheadInv
  <2>. QED BY <1>1, <2>5 DEF OrderInv, LogInv
<1>. QED BY <1>2, <1>3 DEF PeekAfter

\* the cursor moves to an entry of a batch
LEMMA CursorMoved ==
    ASSUME Inv, NEW d \in Readers, NEW k \in 1 .. Len(batch[d])
    PROVE  /\ IsBuffer(SetCursor(buf, batch[d][k].seg, batch[d][k].end))
           /\ Shrinks(buf, SetCursor(buf, batch[d][k].seg, batch[d][k].end))
<1>1. batch[d] \in Seq(Entry)
  BY InvFacts, BatchIs
<1>2. batch[d][k] \in Entry
  BY <1>1
<1>. QED BY <1>2, InvFacts, MoveCursor DEF Entry

LEMMA AckShrinks ==
    ASSUME Inv, NEW d \in Readers, NEW k \in Nat, AckAt(d, k)
    PROVE  IsBuffer(buf') /\ Shrinks(buf, buf')
<1>1. PICK c : c = SetCursor(buf, batch[d][k].seg, batch[d][k].end)
  OBVIOUS
<1>2. IsBuffer(c) /\ Shrinks(buf, c)
  BY <1>1, CursorMoved DEF AckAt
<1>3. buf' = Reclaim(c)
  BY <1>1 DEF AckAt, AckEntry
<1>4. IsBuffer(buf') /\ Shrinks(c, buf')
  BY <1>2, <1>3, ReclaimType
<1>. QED BY <1>2, <1>4 DEF Shrinks

LEMMA AckOrder ==
    ASSUME OrderInv, Inv', NEW d \in Readers, NEW k \in Nat, AckAt(d, k)
    PROVE  OrderInv'
<1>1. k \in 1 .. Len(batch[d]) /\ up /\ nextRec' = nextRec
  BY DEF AckAt, AckEntry
<1>2. Lessens(buf, buf') /\ RunOK(buf')
  BY <1>1, AckShrinks, ShrinkLessens, InvFacts DEF OrderInv, LogInv
<1>3. PICK s : LosesEntry(batch[d], s, k) /\ batch' = [batch EXCEPT ![d] = s]
  BY DEF AckAt
<1>4. Batches' \subseteq Batches \cup {s}
  BY <1>3, BatchesReplaced DEF OrderInv
<1>5. \A r \in Batches' : Remains(r)
  BY <1>1, <1>3, <1>4, BatchIs DEF Remains
<1>. QED BY <1>1, <1>2, <1>5, LessOrder

LEMMA AckFailsOrder ==
    ASSUME OrderInv, Inv', NEW d \in Readers, NEW k \in Nat, AckFails(d, k)
    PROVE  OrderInv'
<1>1. IsBuffer(buf') /\ Shrinks(buf, buf') /\ up
  BY CursorMoved DEF OrderInv, AckFails
<1>2. Lessens(buf, buf') /\ RunOK(buf')
  BY <1>1, ShrinkLessens, InvFacts DEF OrderInv, LogInv
<1>3. \A s \in Batches' : Remains(s)
  BY StayRemains DEF OrderInv, AckFails
<1>. QED BY <1>2, <1>3, LessOrder DEF AckFails

LEMMA IdleOrder ==
    ASSUME OrderInv, Inv', buf' = buf, up' = up, nextRec' = nextRec,
           \A s \in Batches' : Remains(s)
    PROVE  OrderInv'
<1>1. Lessens(buf, buf') /\ (up' => RunOK(buf'))
  BY SameBuffer, InvFacts DEF OrderInv, LogInv
<1>. QED BY <1>1, LessOrder

LEMMA CloseFiles ==
    ASSUME Inv, Close
    PROVE  IsBuffer(buf') /\ SameFiles(buf, buf') /\ CursorPos(buf') = <<0, 0>>
<1>1. PICK c : c = SyncActive(buf)
  OBVIOUS
<1>2. IsBuffer(c) /\ SameFiles(buf, c)
  BY <1>1, SyncSame, InvFacts
<1>3. IsBuffer(buf') /\ SameFiles(c, buf') /\ CursorPos(buf') = <<0, 0>>
  BY <1>1, <1>2, OnDiskSame DEF Close, Closed, CursorPos
<1>4. SameFiles(buf, buf')
  BY <1>2, <1>3 DEF SameFiles
<1>. QED BY <1>3, <1>4

LEMMA CloseOrder ==
    ASSUME OrderInv, Inv', Close
    PROVE  OrderInv'
<1>1. Lessens(buf, buf')
  BY CloseFiles, SameLessens, InvFacts DEF OrderInv
<1>. QED BY <1>1, LessOrder, StayRemains DEF Close, OrderInv

LEMMA KillFiles ==
    ASSUME Inv, Kill
    PROVE  IsBuffer(buf') /\ SameFiles(buf, buf') /\ CursorPos(buf') = <<0, 0>>
BY InvFacts, OnDiskSame DEF Kill, CursorPos

LEMMA KillOrder ==
    ASSUME OrderInv, Inv', Kill
    PROVE  OrderInv'
<1>1. Lessens(buf, buf')
  BY KillFiles, SameLessens, InvFacts DEF OrderInv
<1>. QED BY <1>1, LessOrder, StayRemains DEF Kill, OrderInv

LEMMA PowerFailFiles ==
    ASSUME Inv, Inv', NEW k \in 0 .. MaxBytes, PowerFail(k)
    PROVE  /\ IsBuffer(buf') /\ Cuts(buf, buf') /\ CursorPos(buf') = <<0, 0>>
           /\ \A i \in Ids(buf) : Len(Cells(buf', i)) = KeptLen(buf.segs[i], k)
<1>1. k \in Nat /\ buf' = PowerCut(buf, k)
  BY BoundsAssumption DEF PowerFail
<1>2. IsBuffer(buf')
  BY DEF Inv, TypeOK
<1>. QED BY <1>1, <1>2, InvFacts, PowerCutCuts DEF CursorPos

LEMMA PowerFailOrder ==
    ASSUME OrderInv, Inv', NEW k \in 0 .. MaxBytes, PowerFail(k)
    PROVE  OrderInv'
<1>1. Lessens(buf, buf')
  BY PowerFailFiles, CutsLessens, InvFacts DEF OrderInv
<1>. QED BY <1>1, LessOrder, StayRemains DEF PowerFail, OrderInv

LEMMA OpenFiles ==
    ASSUME Inv, LogInv, Inv', Open
    PROVE  /\ IsBuffer(buf') /\ Cuts(buf, buf') /\ CursorPos(buf') = saved /\ RunOK(buf')
           /\ \A i \in Ids(buf) : Len(Cells(buf', i)) = GoodLen(Cells(buf, i))
           /\ \A i \in Ids(buf) : NoTorn(Cells(buf', i), Len(Cells(buf', i)))
<1>1. PICK cur \in Nat \X Nat : cur = saved
  BY InvFacts
<1>2. buf' = Recover(buf, cur) /\ IsBuffer(Recover(buf, cur))
  BY <1>1 DEF Open, Inv, TypeOK
<1>3. /\ Cuts(buf, Recover(buf, cur))
      /\ \A i \in Ids(buf) : Len(Cells(Recover(buf, cur), i)) = GoodLen(Cells(buf, i))
      /\ Recover(buf, cur).cursorSeg = cur[1] /\ Recover(buf, cur).cursorOff = cur[2]
  BY <1>2, InvFacts, RecoverCuts
<1>4. /\ RunOK(Recover(buf, cur))
      /\ \A i \in Ids(buf) : NoTorn(Cells(Recover(buf, cur), i), Len(Cells(Recover(buf, cur), i)))
  BY <1>2, InvFacts, RecoverRun DEF LogInv
<1>5. CursorPos(buf') = saved
  BY <1>1, <1>2, <1>3 DEF CursorPos
<1>. QED BY <1>2, <1>3, <1>4, <1>5

LEMMA OpenOrder ==
    ASSUME OrderInv, Inv', Open
    PROVE  OrderInv'
<1>1. Lessens(buf, buf') /\ RunOK(buf')
  BY OpenFiles, CutsLessens, InvFacts DEF OrderInv
<1>. QED BY <1>1, LessOrder, StayRemains DEF Open, OrderInv

LEMMA InitOrder == Init => OrderInv
<1>. SUFFICES ASSUME Init PROVE OrderInv
  OBVIOUS
<1>1. ~OpenActive(buf) /\ Batches = {<<>>}
  BY DEF Init, OpenActive, Batches
<1>2. Ids(buf) = {}
  BY DEF Init, Ids
<1>3. LogInv
  BY <1>1, <1>2 DEF LogInv, LogOK, RunOK
<1>. QED BY <1>1, <1>3, InitInv, EmptyBatch DEF OrderInv, AheadInv

LEMMA NextOrder == OrderInv /\ [Next]_vars => OrderInv'
<1>. SUFFICES ASSUME OrderInv, [Next]_vars PROVE OrderInv'
  OBVIOUS
<1>0. Inv'
  BY NextInv DEF OrderInv
<1>1. CASE \E n \in Sizes : AppendOk(n) \/ AppendFull(n)
  BY <1>0, <1>1, AppendOkOrder, AppendFullOrder
<1>2. CASE \E n \in Sizes : \E k \in 0..(n - 1) : AppendFails(n, k) \/ KillInAppend(n, k)
  BY <1>0, <1>2, AppendFailsOrder, KillInAppendOrder
<1>3. CASE Sync
  BY <1>0, <1>3, SyncOrder
<1>4. CASE EvictExpired
  BY <1>0, <1>4, EvictExpiredOrder
<1>5. CASE \E d \in Readers : PeekAfter(d)
  BY <1>0, <1>5, PeekAfterOrder
<1>6. CASE \E d \in Readers : Ack(d)
  BY <1>0, <1>6, AckIsAt, AckOrder DEF OrderInv
<1>7. CASE \E d \in Readers : \E k \in 1..BatchSize : DeadLetter(d, k) \/ AckFails(d, k)
  <2>1. PICK d \in Readers, k \in Nat : DeadLetter(d, k) \/ AckFails(d, k)
    BY <1>7, BoundsAssumption
  <2>. QED BY <1>0, <2>1, AckIsAt, AckOrder, AckFailsOrder DEF OrderInv
<1>8. CASE \E d \in Readers : Abandon(d)
  BY <1>0, <1>8, IdleOrder, StayRemains DEF Abandon, bufVars, OrderInv
<1>9. CASE Close
  BY <1>0, <1>9, CloseOrder
<1>10. CASE Kill
  BY <1>0, <1>10, KillOrder
<1>11. CASE Open
  BY <1>0, <1>11, OpenOrder
<1>12. CASE \E k \in 0..MaxBytes : PowerFail(k)
  BY <1>0, <1>12, PowerFailOrder
<1>13. CASE Tick
  BY <1>0, <1>13, IdleOrder, StayRemains DEF Tick, bufVars, OrderInv
<1>14. CASE UNCHANGED vars
  BY <1>0, <1>14, IdleOrder, StayRemains DEF vars, bufVars, OrderInv
<1>. QED BY <1>1, <1>2, <1>3, <1>4, <1>5, <1>6, <1>7, <1>8, <1>9, <1>10, <1>11, <1>12,
            <1>13, <1>14 DEF Next

(***************************************************************************)
(* Every reader's batch is in the order of acceptance: over segments,      *)
(* evictions, acknowledgements by the other readers, failed writes and     *)
(* restarts, orphaning evictions included.                                 *)
(***************************************************************************)
THEOREM BatchesInOrder == Spec => []BatchInOrder
<1>1. OrderInv => BatchInOrder
  BY BatchIs DEF OrderInv, AheadInv, BatchOK, BatchInOrder
<1>. QED BY <1>1, InitOrder, NextOrder, PTL DEF Spec

-----------------------------------------------------------------------------
(***************************************************************************)
(* No action loses a record, except by an orphaning eviction: every        *)
(* accepted record is in a file or accounted for, and one before a cursor  *)
(* is accounted for.                                                       *)
(***************************************************************************)
Settled == acked \cup passed \cup reported \cup corrupted \cup powerLost

QueueInv ==
    evicted # "orphaning" =>
        \A bt \in Batches : QueueOK(buf, nextRec, saved, bt, Settled)

LEMMA EvictionReport ==
    ASSUME NEW b, NEW c, ReportEviction(b, c), evicted' # "orphaning"
    PROVE  ~Orphans(b, c) /\ evicted # "orphaning" /\ reported' = reported \cup DroppedRecs(b, c)
BY DEF ReportEviction

LEMMA ReclaimRoom ==
    ASSUME Inv, NEW n, NEW gone, NEW bt \in Batches,
           QueueOK(buf, nextRec, saved, bt, gone)
    PROVE  QueueOK(AfterReclaim(n), nextRec, saved, bt, gone)
<1>1. CASE Full(buf, n)
  <2>1. AfterReclaim(n) = Reclaim(buf)
    BY <1>1 DEF AfterReclaim
  <2>. QED BY <2>1, InvFacts, ReclaimedQueue
<1>2. CASE ~Full(buf, n)
  BY <1>2 DEF AfterReclaim
<1>. QED BY <1>1, <1>2

LEMMA RoomQueue ==
    ASSUME Inv, LogInv, up, NEW n, ~Orphans(AfterReclaim(n), AfterEvict(n)), NEW gone, NEW bt \in Batches,
           QueueOK(buf, nextRec, saved, bt, gone)
    PROVE  QueueOK(AfterEvict(n), nextRec, saved, bt,
                   gone \cup DroppedRecs(AfterReclaim(n), AfterEvict(n)))
<1>1. PICK b, c : b = AfterReclaim(n) /\ c = AfterEvict(n)
  OBVIOUS
<1>2. PICK m \in Nat : m = nextRec + errs + stops
  BY InvFacts
<1>3. IsBuffer(b) /\ Shrinks(buf, b) /\ QueueOK(b, nextRec, saved, bt, gone) /\ ~Orphans(b, c)
  BY <1>1, MakeRoom, ReclaimRoom
<1>4. Below(b, m)
  BY <1>2, <1>3, InvFacts DEF Below, Shrinks
<1>5. saved \in Nat \X Nat /\ bt \in Seq(Entry) /\ nextRec \in Nat \ {0}
  BY InvFacts
<1>6. CASE Full(b, n)
  <2>1. c = EvictOldest(b)
    BY <1>1, <1>6 DEF AfterEvict
  <2>2. IsBuffer(c) /\ Shrinks(b, c)
    BY <1>3, <2>1, EvictOldestType
  <2>3. LogOK(b)
    BY <1>3, InvFacts, ShrinkLessens, LessLog DEF LogInv
  <2>4. At(b, CursorPos(b), gone)
    BY <1>3 DEF QueueOK
  <2>5. At(c, CursorPos(c), gone)
    BY <1>3, <1>4, <2>1, <2>3, <2>4, EvictOldestQueue
  <2>6. QueueOK(c, nextRec, saved, bt, gone \cup DroppedRecs(b, c))
    BY <1>3, <1>4, <1>5, <2>2, <2>5, EvictQueue
  <2>. QED BY <1>1, <2>6
<1>7. CASE ~Full(b, n)
  <2>1. c = b
    BY <1>1, <1>7 DEF AfterEvict
  <2>2. gone \subseteq gone \cup DroppedRecs(b, c)
    OBVIOUS
  <2>3. QueueOK(b, nextRec, saved, bt, gone \cup DroppedRecs(b, c))
    BY <1>3, <1>5, <2>2, MoreQueue
  <2>. QED BY <1>1, <2>1, <2>3
<1>. QED BY <1>6, <1>7

\* room was made, and the eviction reported
LEMMA RoomMade ==
    ASSUME OrderInv, QueueInv, up, NEW n, ReportEviction(AfterReclaim(n), AfterEvict(n)),
           evicted' # "orphaning",
           acked' = acked, corrupted' = corrupted, powerLost' = powerLost, passed' = passed,
           NEW bt \in Batches
    PROVE  /\ QueueOK(AfterEvict(n), nextRec, saved, bt, Settled')
           /\ IsBuffer(AfterEvict(n))
<1>1. PICK b, c : b = AfterReclaim(n) /\ c = AfterEvict(n)
  OBVIOUS
<1>2. ~Orphans(b, c) /\ evicted # "orphaning" /\ reported' = reported \cup DroppedRecs(b, c)
  BY <1>1, EvictionReport
<1>3. QueueOK(buf, nextRec, saved, bt, Settled)
  BY <1>2 DEF QueueInv
<1>4. QueueOK(c, nextRec, saved, bt, Settled \cup DroppedRecs(b, c))
  BY <1>1, <1>2, <1>3, RoomQueue DEF OrderInv
<1>5. Settled' = Settled \cup DroppedRecs(b, c)
  BY <1>2 DEF Settled
<1>. QED BY <1>1, <1>4, <1>5, RoomLog DEF OrderInv

LEMMA AppendOkQueue ==
    ASSUME OrderInv, QueueInv, NEW n \in Sizes, AppendOk(n)
    PROVE  QueueInv'
<1>. SUFFICES ASSUME evicted' # "orphaning", NEW bt \in Batches'
              PROVE  QueueOK(buf', nextRec', saved', bt, Settled')
  BY DEF QueueInv
<1>0. bt \in Batches /\ bt \in Seq(Entry)
  BY BatchesStay, InvFacts DEF AppendOk, OrderInv
<1>1. PICK c : c = AfterEvict(n)
  OBVIOUS
<1>2. QueueOK(c, nextRec, saved, bt, Settled') /\ IsBuffer(c)
  BY <1>0, <1>1, RoomMade DEF AppendOk, ackVars
<1>3. Appended(c, buf', nextRec) /\ Placed(buf', nextRec)
  BY <1>1, WrittenLog DEF OrderInv, AppendOk
<1>4. PICK gone : gone = Settled'
  OBVIOUS
<1>5. QueueOK(buf', nextRec + 1, saved, bt, gone)
  BY <1>0, <1>2, <1>3, <1>4, AppendedQueue, InvFacts DEF OrderInv
<1>. QED BY <1>4, <1>5 DEF AppendOk

LEMMA AppendFullQueue ==
    ASSUME OrderInv, QueueInv, NEW n \in Sizes, AppendFull(n)
    PROVE  QueueInv'
<1>. SUFFICES ASSUME evicted' # "orphaning", NEW bt \in Batches'
              PROVE  QueueOK(buf', nextRec', saved', bt, Settled')
  BY DEF QueueInv
<1>0. bt \in Batches /\ bt \in Seq(Entry)
  BY BatchesStay, InvFacts DEF AppendFull, OrderInv
<1>1. QueueOK(AfterEvict(n), nextRec, saved, bt, Settled')
  BY <1>0, RoomMade DEF AppendFull, ackVars
<1>. QED BY <1>1 DEF AppendFull

LEMMA AppendFailsQueue ==
    ASSUME OrderInv, QueueInv, NEW n \in Sizes, NEW k \in 0 .. (n - 1), AppendFails(n, k)
    PROVE  QueueInv'
<1>. SUFFICES ASSUME evicted' # "orphaning", NEW bt \in Batches'
              PROVE  QueueOK(buf', nextRec', saved', bt, Settled')
  BY DEF QueueInv
<1>0. bt \in Batches /\ bt \in Seq(Entry)
  BY BatchesStay, InvFacts DEF AppendFails, OrderInv
<1>1. PICK c : c = AfterEvict(n)
  OBVIOUS
<1>2. QueueOK(c, nextRec, saved, bt, Settled') /\ IsBuffer(c)
  BY <1>0, <1>1, RoomMade DEF AppendFails, ackVars
<1>3. Appended(c, buf', 0)
  <2>1. k \in Nat
    OBVIOUS
  <2>. QED BY <1>1, <2>1, WrittenLog DEF OrderInv, AppendFails
<1>4. PICK gone : gone = Settled'
  OBVIOUS
<1>5. QueueOK(buf', nextRec, saved, bt, gone)
  BY <1>0, <1>2, <1>3, <1>4, AppendedQueue, InvFacts DEF OrderInv
<1>. QED BY <1>4, <1>5 DEF AppendFails

LEMMA SameCarries ==
    ASSUME NEW b, IsBuffer(b), NEW c, IsBuffer(c), SameFiles(b, c)
    PROVE  Carries(b, c)
BY SameLessens, LessCarries

LEMMA KillInAppendQueue ==
    ASSUME OrderInv, QueueInv, NEW n \in Sizes, NEW k \in 0 .. (n - 1), KillInAppend(n, k)
    PROVE  QueueInv'
<1>. SUFFICES ASSUME evicted' # "orphaning"
              PROVE  QueueOK(buf', nextRec', saved', <<>>, Settled')
  BY BatchesDropped DEF QueueInv, KillInAppend
<1>0. <<>> \in Batches /\ <<>> \in Seq(Entry)
  BY DEF Batches
<1>1. PICK c : c = AfterEvict(n)
  OBVIOUS
<1>2. QueueOK(c, nextRec, saved, <<>>, Settled') /\ IsBuffer(c)
  BY <1>0, <1>1, RoomMade DEF KillInAppend, ackVars
<1>3. PICK w : /\ Appended(c, w, 0) /\ IsBuffer(buf') /\ SameFiles(w, buf')
               /\ CursorPos(buf') = <<0, 0>>
  BY <1>1, KilledFiles DEF OrderInv
<1>4. PICK gone : gone = Settled'
  OBVIOUS
<1>5. QueueOK(w, nextRec, saved, <<>>, gone)
  BY <1>0, <1>2, <1>3, <1>4, AppendedQueue, InvFacts DEF OrderInv
<1>6. IsBuffer(w) /\ Stored(w, nextRec - 1, gone) /\ At(w, saved, gone)
  BY <1>3, <1>5 DEF Appended, QueueOK
<1>7. Stored(buf', nextRec - 1, gone) /\ Carries(w, buf')
  BY <1>3, <1>6, SameStored, SameCarries
<1>8. QueueOK(buf', nextRec, saved, <<>>, gone)
  BY <1>3, <1>6, <1>7, DownQueue, InvFacts DEF OrderInv
<1>. QED BY <1>4, <1>8 DEF KillInAppend

LEMMA SyncQueue ==
    ASSUME OrderInv, QueueInv, Sync
    PROVE  QueueInv'
<1>. SUFFICES ASSUME evicted' # "orphaning", NEW bt \in Batches'
              PROVE  QueueOK(buf', nextRec', saved', bt, Settled')
  BY DEF QueueInv
<1>0. bt \in Batches /\ bt \in Seq(Entry)
  BY BatchesStay, InvFacts DEF Sync, OrderInv
<1>1. QueueOK(buf, nextRec, saved, bt, Settled)
  BY <1>0 DEF QueueInv, Sync
<1>2. IsBuffer(buf) /\ IsBuffer(buf') /\ SameFiles(buf, buf') /\ CursorPos(buf') = CursorPos(buf)
  BY SyncSame, InvFacts DEF Sync, OrderInv, SamePos, CursorPos
<1>3. PICK gone : gone = Settled
  OBVIOUS
<1>4. Carries(buf, buf') /\ Stored(buf', nextRec - 1, gone)
  BY <1>1, <1>2, <1>3, SameCarries, SameStored DEF QueueOK
<1>5. At(buf', CursorPos(buf'), gone)
  BY <1>1, <1>2, <1>3, <1>4, CursorType DEF QueueOK, Carries
<1>6. QueueOK(buf', nextRec, saved, bt, gone)
  BY <1>0, <1>1, <1>3, <1>4, <1>5, QueueMoves, InvFacts DEF OrderInv
<1>7. Settled' = Settled
  BY DEF Settled, Sync, ackVars
<1>. QED BY <1>3, <1>6, <1>7 DEF Sync

LEMMA EvictExpiredQueue ==
    ASSUME OrderInv, QueueInv, EvictExpired
    PROVE  QueueInv'
<1>. SUFFICES ASSUME evicted' # "orphaning", NEW bt \in Batches'
              PROVE  QueueOK(buf', nextRec', saved', bt, Settled')
  BY DEF QueueInv
<1>0. bt \in Batches /\ bt \in Seq(Entry)
  BY BatchesStay, InvFacts DEF EvictExpired, OrderInv
<1>1. PICK c : c = DropExpired(buf, clock)
  OBVIOUS
<1>2. ~Orphans(buf, c) /\ evicted # "orphaning" /\ reported' = reported \cup DroppedRecs(buf, c)
  BY <1>1, EvictionReport DEF EvictExpired
<1>3. PICK m \in Nat : m = nextRec + errs + stops
  BY InvFacts DEF OrderInv
<1>4. IsBuffer(buf) /\ Below(buf, m) /\ LogOK(buf)
  BY <1>3, InvFacts DEF OrderInv, LogInv
<1>5. IsBuffer(c) /\ Shrinks(buf, c)
  BY <1>1, <1>4, DropExpiredType
<1>6. PICK gone : gone = Settled
  OBVIOUS
<1>7. QueueOK(buf, nextRec, saved, bt, gone)
  BY <1>0, <1>2, <1>6 DEF QueueInv
<1>8. At(c, CursorPos(c), gone)
  BY <1>1, <1>2, <1>4, <1>7, DropExpiredQueue DEF QueueOK
<1>9. QueueOK(c, nextRec, saved, bt, gone \cup DroppedRecs(buf, c))
  BY <1>0, <1>2, <1>4, <1>5, <1>7, <1>8, EvictQueue, InvFacts DEF OrderInv
<1>10. Settled' = gone \cup DroppedRecs(buf, c)
  BY <1>2, <1>6 DEF Settled, EvictExpired, ackVars
<1>. QED BY <1>1, <1>9, <1>10 DEF EvictExpired

LEMMA PeekAfterQueue ==
    ASSUME OrderInv, QueueInv, NEW d \in Readers, PeekAfter(d)
    PROVE  QueueInv'
<1>. SUFFICES ASSUME evicted' # "orphaning", NEW bt \in Batches'
              PROVE  QueueOK(buf', nextRec', saved', bt, Settled')
  BY DEF QueueInv
<1>1. \A s \in Batches : QueueOK(buf, nextRec, saved, s, Settled)
  BY DEF QueueInv, PeekAfter
<1>2. PICK gone : gone = Settled
  OBVIOUS
<1>3. PICK more : more = gone \cup SkippedCorrupt(buf, PeekPos(buf, batch[d]))
  OBVIOUS
<1>4. Settled' = more
  BY <1>2, <1>3, PeekPosIs DEF Settled, PeekAfter, ackVars
<1>5. buf' = buf /\ saved' = saved /\ nextRec' = nextRec /\ up
  BY DEF PeekAfter, bufVars
<1>6. CASE bt \in Batches
  <2>1. QueueOK(buf, nextRec, saved, bt, more)
    BY <1>1, <1>2, <1>3, <1>6, MoreQueue, InvFacts DEF OrderInv
  <2>. QED BY <1>4, <1>5, <2>1
<1>7. CASE bt \notin Batches
  <2>1. batch' # batch
    BY <1>7, BatchesStay
  <2>2. PICK e \in Found(buf, PeekPos(buf, batch[d])) :
               batch' = [batch EXCEPT ![d] = Append(batch[d], e)]
    BY <2>1, PeekPosIs DEF PeekAfter
  <2>3. bt = Append(batch[d], e)
    BY <1>7, <2>2, BatchesReplaced DEF OrderInv
  <2>4. QueueOK(buf, nextRec, saved, batch[d], gone) /\ batch[d] \in Seq(Entry)
    BY <1>1, <1>2, BatchIs, InvFacts DEF OrderInv
  <2>5. QueueOK(buf, nextRec, saved, Append(batch[d], e), more)
    BY <1>3, <1>5, <2>4, PeekedQueue, InvFacts DEF OrderInv, LogInv
  <2>. QED BY <1>4, <1>5, <2>3, <2>5
<1>. QED BY <1>6, <1>7

\* an acknowledgement settles its record and what the batch had in front of it
LEMMA AckSettles ==
    ASSUME NEW d \in Readers, batch[d] \in Seq(Entry), NEW k \in 1 .. Len(batch[d]),
           Acknowledges(batch[d][k], InFrontOf(d, k)),
           UNCHANGED <<reported, corrupted, powerLost>>
    PROVE  ReadTo(batch[d], k, Settled) \subseteq Settled'
<1>1. Settled \subseteq Settled' /\ batch[d][k].rec \in Settled'
  BY DEF Acknowledges, Settled
<1>2. InFrontOf(d, k) \subseteq Settled'
  BY DEF Acknowledges, Settled
<1>3. ASSUME NEW j \in 1 .. k PROVE batch[d][j].rec \in Settled'
  <2>1. CASE j = k
    BY <1>1, <2>1
  <2>2. CASE j # k
    <3>1. j \in 1 .. k - 1
      BY <2>2
    <3>. QED BY <1>2, <3>1 DEF InFrontOf
  <2>. QED BY <2>1, <2>2
<1>. QED BY <1>1, <1>3 DEF ReadTo

LEMMA AckQueue ==
    ASSUME OrderInv, Inv', QueueInv, NEW d \in Readers, NEW k \in Nat, AckAt(d, k)
    PROVE  QueueInv'
<1>. SUFFICES ASSUME evicted' # "orphaning", NEW r \in Batches'
              PROVE  QueueOK(buf', nextRec', saved', r, Settled')
  BY DEF QueueInv
<1>1. PICK bt : bt = batch[d]
  OBVIOUS
<1>2. bt \in Seq(Entry) /\ k \in 1 .. Len(bt)
  BY <1>1, BatchIs, InvFacts DEF OrderInv, AckAt
<1>3. /\ evicted' = evicted /\ nextRec' = nextRec /\ saved' = EntryPos(bt, k)
      /\ Acknowledges(bt[k], InFrontOf(d, k))
      /\ UNCHANGED <<reported, corrupted, powerLost>>
  BY <1>1 DEF AckAt, AckEntry, EntryPos
<1>4. PICK gone, more : gone = Settled /\ more = Settled'
  OBVIOUS
<1>5. ReadTo(bt, k, gone) \subseteq more
  BY <1>1, <1>2, <1>3, <1>4, AckSettles
<1>6. \A s \in Batches : QueueOK(buf, nextRec, saved, s, gone)
  BY <1>3, <1>4 DEF QueueInv
<1>7. r \in Seq(Entry) /\ (BatchAt(buf, r, gone) \/ LosesEntry(bt, r, k))
  <2>1. PICK s : LosesEntry(bt, s, k) /\ batch' = [batch EXCEPT ![d] = s]
    BY <1>1 DEF AckAt
  <2>2. r \in Batches \/ r = s
    BY <2>1, BatchesReplaced DEF OrderInv
  <2>. QED BY <1>6, <2>1, <2>2, InvFacts DEF OrderInv, QueueOK, LosesEntry
<1>8. PICK c : c = SetCursor(buf, bt[k].seg, bt[k].end)
  OBVIOUS
<1>9. PICK sv \in Nat \X Nat : sv = EntryPos(bt, k)
  BY <1>2, EntryPosType
<1>10. QueueOK(buf, nextRec, saved, bt, gone)
  BY <1>1, <1>6, BatchIs
<1>11. QueueOK(c, nextRec, sv, r, more)
  BY <1>2, <1>5, <1>7, <1>8, <1>9, <1>10, AckedQueue, InvFacts DEF OrderInv
<1>12. IsBuffer(c)
  BY <1>1, <1>2, <1>8, CursorMoved DEF OrderInv
<1>13. QueueOK(Reclaim(c), nextRec, sv, r, more)
  BY <1>7, <1>11, <1>12, ReclaimedQueue, InvFacts DEF OrderInv
<1>14. buf' = Reclaim(c)
  BY <1>1, <1>8 DEF AckAt, AckEntry
<1>. QED BY <1>3, <1>4, <1>9, <1>13, <1>14

LEMMA AckFailsQueue ==
    ASSUME OrderInv, QueueInv, NEW d \in Readers, NEW k \in Nat, AckFails(d, k)
    PROVE  QueueInv'
<1>. SUFFICES ASSUME evicted' # "orphaning", NEW r \in Batches'
              PROVE  QueueOK(buf', nextRec', saved', r, Settled')
  BY DEF QueueInv
<1>1. PICK bt : bt = batch[d]
  OBVIOUS
<1>2. bt \in Seq(Entry) /\ k \in 1 .. Len(bt)
  BY <1>1, BatchIs, InvFacts DEF OrderInv, AckFails
<1>3. /\ evicted' = evicted /\ nextRec' = nextRec /\ saved' = saved
      /\ Acknowledges(bt[k], InFrontOf(d, k))
      /\ UNCHANGED <<reported, corrupted, powerLost>>
  BY <1>1 DEF AckFails
<1>4. PICK gone, more : gone = Settled /\ more = Settled'
  OBVIOUS
<1>5. ReadTo(bt, k, gone) \subseteq more
  BY <1>1, <1>2, <1>3, <1>4, AckSettles
<1>6. \A s \in Batches : QueueOK(buf, nextRec, saved, s, gone)
  BY <1>3, <1>4 DEF QueueInv
<1>7. r \in Batches /\ r \in Seq(Entry) /\ BatchAt(buf, r, gone)
  BY <1>6, StayRemains, InvFacts DEF OrderInv, QueueOK, AckFails
<1>8. QueueOK(buf, nextRec, saved, bt, gone)
  BY <1>1, <1>6, BatchIs
<1>9. QueueOK(SetCursor(buf, bt[k].seg, bt[k].end), nextRec, saved, r, more)
  BY <1>2, <1>5, <1>7, <1>8, AckedQueue, InvFacts DEF OrderInv
<1>. QED BY <1>1, <1>3, <1>4, <1>9 DEF AckFails

LEMMA IdleQueue ==
    ASSUME QueueInv, UNCHANGED <<bufVars, nextRec, histVars>>, Batches' \subseteq Batches
    PROVE  QueueInv'
<1>1. /\ buf' = buf /\ saved' = saved /\ nextRec' = nextRec /\ Settled' = Settled
      /\ evicted' = evicted
  BY DEF bufVars, histVars, ackVars, Settled
<1>. QED BY <1>1 DEF QueueInv

\* the process ends: the cursor in state.json is the one it had or the one it saved before
LEMMA StopQueue ==
    ASSUME OrderInv, QueueInv, IsBuffer(buf'), Carries(buf, buf'), CursorPos(buf') = <<0, 0>>,
           evicted' = evicted, nextRec' = nextRec, DropBatches, Settled \subseteq Settled',
           Stored(buf, nextRec - 1, Settled) => Stored(buf', nextRec - 1, Settled'),
           saved' = saved \/ saved' = CursorPos(buf)
    PROVE  QueueInv'
<1>. SUFFICES ASSUME evicted' # "orphaning"
              PROVE  QueueOK(buf', nextRec', saved', <<>>, Settled')
  BY BatchesDropped DEF QueueInv
<1>1. QueueOK(buf, nextRec, saved, <<>>, Settled)
  BY DEF QueueInv, Batches
<1>2. PICK gone, more, sv : gone = Settled /\ more = Settled' /\ sv = saved'
  OBVIOUS
<1>3. gone \subseteq more /\ Stored(buf', nextRec - 1, more) /\ At(buf, sv, gone)
  BY <1>1, <1>2 DEF QueueOK
<1>4. sv \in Nat \X Nat /\ IsBuffer(buf)
  BY <1>2, InvFacts, CursorType DEF OrderInv
<1>5. QueueOK(buf', nextRec, sv, <<>>, more)
  BY <1>3, <1>4, DownQueue
<1>. QED BY <1>2, <1>5

LEMMA CloseQueue ==
    ASSUME OrderInv, QueueInv, Close
    PROVE  QueueInv'
<1>1. IsBuffer(buf) /\ IsBuffer(buf') /\ SameFiles(buf, buf') /\ CursorPos(buf') = <<0, 0>>
  BY CloseFiles, InvFacts DEF OrderInv
<1>2. Carries(buf, buf')
  BY <1>1, SameCarries
<1>3. Settled' = Settled /\ saved' = CursorPos(buf) /\ evicted' = evicted /\ nextRec' = nextRec
      /\ DropBatches
  BY DEF Close, Settled, histVars, ackVars, CursorPos
<1>4. PICK gone : gone = Settled
  OBVIOUS
<1>5. Stored(buf, nextRec - 1, gone) => Stored(buf', nextRec - 1, gone)
  BY <1>1, SameStored
<1>. QED BY <1>1, <1>2, <1>3, <1>4, <1>5, StopQueue

LEMMA KillQueue ==
    ASSUME OrderInv, QueueInv, Kill
    PROVE  QueueInv'
<1>1. IsBuffer(buf) /\ IsBuffer(buf') /\ SameFiles(buf, buf') /\ CursorPos(buf') = <<0, 0>>
  BY KillFiles, InvFacts DEF OrderInv
<1>2. Carries(buf, buf')
  BY <1>1, SameCarries
<1>3. Settled' = Settled /\ saved' = saved /\ evicted' = evicted /\ nextRec' = nextRec
      /\ DropBatches
  BY DEF Kill, Settled, histVars, ackVars
<1>4. PICK gone : gone = Settled
  OBVIOUS
<1>5. Stored(buf, nextRec - 1, gone) => Stored(buf', nextRec - 1, gone)
  BY <1>1, SameStored
<1>. QED BY <1>1, <1>2, <1>3, <1>4, <1>5, StopQueue

LEMMA CutCarries ==
    ASSUME NEW b, IsBuffer(b), NEW c, IsBuffer(c), Cuts(b, c)
    PROVE  Carries(b, c)
BY CutsLessens, LessCarries

LEMMA PowerFailQueue ==
    ASSUME OrderInv, Inv', QueueInv, NEW k \in 0 .. MaxBytes, PowerFail(k)
    PROVE  QueueInv'
<1>1. /\ IsBuffer(buf) /\ IsBuffer(buf') /\ Cuts(buf, buf') /\ CursorPos(buf') = <<0, 0>>
      /\ \A i \in Ids(buf) : Len(Cells(buf', i)) = KeptLen(buf.segs[i], k)
  BY PowerFailFiles, InvFacts DEF OrderInv
<1>2. Carries(buf, buf')
  BY <1>1, CutCarries
<1>3. Settled \subseteq Settled' /\ saved' = saved /\ evicted' = evicted /\ nextRec' = nextRec
      /\ DropBatches
  BY DEF PowerFail, Settled, ackVars
<1>4. PICK gone, more : gone = Settled /\ more = Settled'
  OBVIOUS
<1>5. \A i \in Ids(buf) : RecsFrom(Cells(buf, i), Len(Cells(buf', i))) \subseteq more
  <2>. SUFFICES ASSUME NEW i \in Ids(buf)
                PROVE  RecsFrom(Cells(buf, i), Len(Cells(buf', i))) \subseteq powerLost'
    BY <1>4 DEF Settled
  <2>. QED BY <1>1 DEF PowerFail, Cells
<1>6. Stored(buf, nextRec - 1, gone) => Stored(buf', nextRec - 1, more)
  <2>1. nextRec - 1 \in Nat
    BY InvFacts DEF OrderInv
  <2>. QED BY <1>1, <1>3, <1>4, <1>5, <2>1, CutStored
<1>. QED BY <1>1, <1>2, <1>3, <1>4, <1>6, StopQueue

LEMMA OpenQueue ==
    ASSUME OrderInv, Inv', QueueInv, Open
    PROVE  QueueInv'
<1>. SUFFICES ASSUME evicted' # "orphaning", NEW bt \in Batches'
              PROVE  QueueOK(buf', nextRec', saved', bt, Settled')
  BY DEF QueueInv
<1>0. bt \in Batches /\ bt \in Seq(Entry)
  BY BatchesStay, InvFacts DEF Open, OrderInv
<1>1. QueueOK(buf, nextRec, saved, bt, Settled)
  BY <1>0 DEF QueueInv, Open
<1>2. /\ IsBuffer(buf) /\ IsBuffer(buf') /\ Cuts(buf, buf') /\ CursorPos(buf') = saved
      /\ \A i \in Ids(buf) : Len(Cells(buf', i)) = GoodLen(Cells(buf, i))
  BY OpenFiles, InvFacts DEF OrderInv
<1>3. Carries(buf, buf')
  BY <1>2, CutCarries
<1>4. PICK gone, more : gone = Settled /\ more = Settled'
  OBVIOUS
<1>5. gone \subseteq more
  BY <1>4 DEF Settled, Open, ackVars
<1>6. \A i \in Ids(buf) : RecsFrom(Cells(buf, i), Len(Cells(buf', i))) \subseteq more
  <2>. SUFFICES ASSUME NEW i \in Ids(buf)
                PROVE  RecsFrom(Cells(buf, i), Len(Cells(buf', i))) \subseteq corrupted'
    BY <1>4 DEF Settled
  <2>. QED BY <1>2 DEF Open, Cells
<1>7. Stored(buf', nextRec - 1, more)
  <2>1. nextRec - 1 \in Nat
    BY InvFacts DEF OrderInv
  <2>2. Stored(buf, nextRec - 1, gone)
    BY <1>1, <1>4 DEF QueueOK
  <2>. QED BY <1>2, <1>5, <1>6, <2>1, <2>2, CutStored
<1>8. At(buf', CursorPos(buf'), more)
  <2>1. At(buf', saved, gone)
    BY <1>1, <1>3, <1>4, InvFacts DEF QueueOK, Carries, OrderInv
  <2>. QED BY <1>2, <1>5, <2>1, AtMore
<1>9. QueueOK(buf', nextRec, saved, bt, more)
  BY <1>0, <1>1, <1>3, <1>4, <1>5, <1>7, <1>8, QueueMoves, InvFacts DEF OrderInv
<1>. QED BY <1>4, <1>9 DEF Open

LEMMA InitQueue == Init => QueueInv
<1>. SUFFICES ASSUME Init PROVE QueueOK(buf, nextRec, saved, <<>>, Settled)
  BY DEF QueueInv, Init, Batches
<1>1. PICK gone : gone = Settled
  OBVIOUS
<1>2. IsBuffer(buf) /\ CursorPos(buf) = <<0, 0>> /\ saved = <<0, 0>> /\ nextRec = 1
  BY InitInv DEF Init, Inv, TypeOK, CursorPos
<1>3. At(buf, CursorPos(buf), gone)
  BY <1>2, OriginAt
<1>4. Stored(buf, nextRec - 1, gone) /\ BatchAt(buf, <<>>, gone)
  BY <1>2 DEF Stored, BatchAt
<1>5. QueueOK(buf, nextRec, saved, <<>>, gone)
  BY <1>2, <1>3, <1>4 DEF QueueOK
<1>. QED BY <1>1, <1>5

LEMMA NextQueue == OrderInv /\ QueueInv /\ [Next]_vars => QueueInv'
<1>. SUFFICES ASSUME OrderInv, QueueInv, [Next]_vars PROVE QueueInv'
  OBVIOUS
<1>0. Inv'
  BY NextInv DEF OrderInv
<1>1. CASE \E n \in Sizes : AppendOk(n) \/ AppendFull(n)
  BY <1>1, AppendOkQueue, AppendFullQueue
<1>2. CASE \E n \in Sizes : \E k \in 0..(n - 1) : AppendFails(n, k) \/ KillInAppend(n, k)
  BY <1>2, AppendFailsQueue, KillInAppendQueue
<1>3. CASE Sync
  BY <1>3, SyncQueue
<1>4. CASE EvictExpired
  BY <1>4, EvictExpiredQueue
<1>5. CASE \E d \in Readers : PeekAfter(d)
  BY <1>0, <1>5, PeekAfterQueue
<1>6. CASE \E d \in Readers : Ack(d)
  BY <1>0, <1>6, AckIsAt, AckQueue DEF OrderInv
<1>7. CASE \E d \in Readers : \E k \in 1..BatchSize : DeadLetter(d, k) \/ AckFails(d, k)
  <2>1. PICK d \in Readers, k \in Nat : DeadLetter(d, k) \/ AckFails(d, k)
    BY <1>7, BoundsAssumption
  <2>. QED BY <1>0, <2>1, AckIsAt, AckQueue, AckFailsQueue DEF OrderInv
<1>8. CASE \E d \in Readers : Abandon(d)
  BY <1>8, IdleQueue, StayRemains DEF Abandon, OrderInv
<1>9. CASE Close
  BY <1>9, CloseQueue
<1>10. CASE Kill
  BY <1>10, KillQueue
<1>11. CASE Open
  BY <1>0, <1>11, OpenQueue
<1>12. CASE \E k \in 0..MaxBytes : PowerFail(k)
  BY <1>0, <1>12, PowerFailQueue
<1>13. CASE Tick
  BY <1>13, IdleQueue, StayRemains DEF Tick, OrderInv
<1>14. CASE UNCHANGED vars
  BY <1>14, IdleQueue, StayRemains DEF vars, OrderInv
<1>. QED BY <1>1, <1>2, <1>3, <1>4, <1>5, <1>6, <1>7, <1>8, <1>9, <1>10, <1>11, <1>12,
            <1>13, <1>14 DEF Next

\* a record of the queue that nothing accounts for is still to be read
LEMMA QueueKeeps ==
    OrderInv /\ QueueInv => NoLossUnlessOrphaned
<1>. SUFFICES ASSUME OrderInv, QueueInv, evicted # "orphaning",
                     NEW r \in Accepted, r \notin Settled
              PROVE  Unread(r)
  BY DEF NoLossUnlessOrphaned, NoSilentLoss, Settled
<1>1. PICK gone : gone = Settled
  OBVIOUS
<1>2. QueueOK(buf, nextRec, saved, <<>>, gone)
  BY <1>1 DEF QueueInv, Batches
<1>3. At(buf, Cursor, gone)
  BY <1>2 DEF QueueOK, Cursor, CursorPos
<1>4. r # 0 /\ Placed(buf, r)
  BY <1>1, <1>2 DEF QueueOK, Stored, Accepted
<1>5. PICK i \in Ids(buf) : \E k \in 1 .. Len(Cells(buf, i)) :
             Cells(buf, i)[k].rec = r /\ Cells(buf, i)[k].pos = 1
  BY <1>4 DEF Placed
<1>6. PICK k \in 1 .. Len(Cells(buf, i)) : Cells(buf, i)[k].rec = r /\ Cells(buf, i)[k].pos = 1
  BY <1>5
<1>7. After(Cursor, i, k)
  BY <1>1, <1>3, <1>4, <1>6 DEF At, Behind
<1>. QED BY <1>6, <1>7 DEF Unread, After, Cells

(***************************************************************************)
(* An accepted record is acknowledged, taken by the sink in front of a     *)
(* dead-lettered record of its batch, still to be read, in bytes that      *)
(* OnEvict was told of, or cut off by a power failure before it was        *)
(* synced: over appends that succeed, fail or are killed at any byte,      *)
(* evictions that do not orphan the log, acknowledgements by any number    *)
(* of readers that move the cursor forwards and back or fail, abandoned    *)
(* batches, and restarts, for all sizes, bounds and numbers of failures.   *)
(***************************************************************************)
THEOREM NothingLostUnlessOrphaned == Spec => []NoLossUnlessOrphaned
<1>1. Init => OrderInv /\ QueueInv
  BY InitOrder, InitQueue
<1>2. OrderInv /\ QueueInv /\ [Next]_vars => (OrderInv /\ QueueInv)'
  BY NextOrder, NextQueue
<1>. QED BY <1>1, <1>2, QueueKeeps, PTL DEF Spec

-----------------------------------------------------------------------------
(***************************************************************************)
(* Torn cells.  As long as no write has failed, the log a process appends  *)
(* to has none; what an ended process leaves has them behind everything    *)
(* else, and only frames that a power failure cut are incomplete.          *)
(***************************************************************************)
NoneTorn(b) == \A i \in Ids(b) : NoTorn(Cells(b, i), Len(Cells(b, i)))

TornLast(s) == \A k, l \in 1 .. Len(s) : k < l /\ s[l].rec # 0 => s[k].rec # 0

CutShort(s, lost) ==
    \A k \in 1 .. Len(s) : s[k].rec # 0 => End(s, k) <= Len(s) \/ s[k].rec \in lost

Unbroken(b, lost) == \A i \in Ids(b) : TornLast(Cells(b, i)) /\ CutShort(Cells(b, i), lost)

LEMMA RunUnbroken ==
    ASSUME NEW b, IsBuffer(b), RunOK(b), NoneTorn(b), NEW lost
    PROVE  Unbroken(b, lost)
<1>. SUFFICES ASSUME NEW i \in Ids(b) PROVE TornLast(Cells(b, i)) /\ CutShort(Cells(b, i), lost)
  BY DEF Unbroken
<1>1. PICK s \in Seq(Cell) : s = Cells(b, i)
  BY CellsType
<1>2. Whole(s) /\ NoTorn(s, Len(s))
  BY <1>1 DEF RunOK, NoneTorn
<1>3. TornLast(s)
  BY <1>2 DEF TornLast, NoTorn
<1>. QED BY <1>1, <1>2, <1>3 DEF CutShort, Whole

LEMMA ShrinkNone ==
    ASSUME NEW b, NEW c, Shrinks(b, c), NoneTorn(b)
    PROVE  NoneTorn(c)
BY DEF Shrinks, NoneTorn, Cells

LEMMA SameNone ==
    ASSUME NEW b, NEW c, SameFiles(b, c)
    PROVE  /\ NoneTorn(b) => NoneTorn(c)
           /\ \A lost : Unbroken(b, lost) => Unbroken(c, lost)
BY DEF SameFiles, NoneTorn, Unbroken

LEMMA ReadyNone ==
    ASSUME NEW b, NEW c, NEW a, Readies(b, c, a), NoneTorn(b)
    PROVE  NoneTorn(c)
<1>. SUFFICES ASSUME NEW i \in Ids(c), NEW k \in 1 .. Len(Cells(c, i)) PROVE Cells(c, i)[k].rec # 0
  BY DEF NoneTorn, NoTorn
<1>1. i \in Ids(b) /\ Cells(c, i) = Cells(b, i)
  BY ReadyCell
<1>2. k \in 1 .. Len(Cells(b, i)) /\ k <= Len(Cells(b, i)) /\ NoTorn(Cells(b, i), Len(Cells(b, i)))
  BY <1>1 DEF NoneTorn
<1>. QED BY <1>1, <1>2 DEF NoTorn

LEMMA GrowNone ==
    ASSUME NEW b, IsBuffer(b), NEW c, IsBuffer(c), NEW r \in Nat, NEW n \in Nat,
           Grows(b, c, r, n), NoneTorn(b)
    PROVE  /\ r # 0 => NoneTorn(c)
           /\ r = 0 => \A i \in Ids(c) : TornLast(Cells(c, i))
<1>1. \A i \in Ids(b) : \A k \in 1 .. Len(Cells(b, i)) : Cells(b, i)[k].rec # 0
  BY DEF NoneTorn, NoTorn
<1>2. r # 0 => NoneTorn(c)
  <2>. SUFFICES ASSUME r # 0, NEW i \in Ids(c), NEW k \in 1 .. Len(Cells(c, i))
                PROVE  Cells(c, i)[k].rec # 0
    BY DEF NoneTorn, NoTorn
  <2>. QED BY <1>1, GrowCell
<1>3. r = 0 => \A i \in Ids(c) : TornLast(Cells(c, i))
  <2>. SUFFICES ASSUME r = 0, NEW i \in Ids(c),
                       NEW k \in 1 .. Len(Cells(c, i)), NEW l \in 1 .. Len(Cells(c, i)),
                       k < l, Cells(c, i)[l].rec # 0
                PROVE  Cells(c, i)[k].rec # 0
    BY DEF TornLast
  <2>1. i \in Ids(b) /\ l \in 1 .. Len(Cells(b, i))
    BY GrowCell
  <2>2. Len(Cells(b, i)) \in Nat
    BY <2>1, CellsType
  <2>3. k \in 1 .. Len(Cells(b, i))
    BY <2>1, <2>2
  <2>4. Cells(c, i)[k] = Cells(b, i)[k]
    BY <2>2, <2>3, GrowCell
  <2>. QED BY <1>1, <2>1, <2>3, <2>4
<1>. QED BY <1>2, <1>3

LEMMA WrittenNone ==
    ASSUME NEW b, IsBuffer(b), NEW m \in Nat \ {0}, Below(b, m), LogOK(b), RunOK(b), NoneTorn(b),
           NEW r \in Nat \ {0}, AcceptedBelow(b, r), NEW n \in Nat, NEW t \in Nat, NEW k \in Nat
    PROVE  /\ NoneTorn(SealIfFull(WriteFrame(EnsureActive(b), r, n, t)))
           /\ \A i \in Ids(WriteTorn(EnsureActive(b), k)) :
                 TornLast(Cells(WriteTorn(EnsureActive(b), k), i))
<1>1. PICK d : d = EnsureActive(b)
  OBVIOUS
<1>2. IsBuffer(d) /\ OpenActive(d)
  BY <1>1, ReadyAppended DEF Appended
<1>3. NoneTorn(d)
  BY <1>1, EnsureReadies, ReadyNone
<1>4. PICK w, v : w = WriteFrame(d, r, n, t) /\ v = WriteTorn(d, k)
  OBVIOUS
<1>5. IsBuffer(w) /\ IsBuffer(v) /\ Grows(d, w, r, n) /\ Grows(d, v, 0, k)
  BY <1>2, <1>4, WriteFrameType, WriteTornType, WriteFrameGrows, WriteTornGrows DEF OpenActive
<1>6. NoneTorn(w)
  BY <1>2, <1>3, <1>5, GrowNone
<1>7. \A i \in Ids(v) : TornLast(Cells(v, i))
  BY <1>2, <1>3, <1>5, GrowNone
<1>8. SameFiles(w, SealIfFull(w))
  BY <1>5, SealSame DEF Grows
<1>9. NoneTorn(SealIfFull(w))
  BY <1>6, <1>8, SameNone
<1>. QED BY <1>1, <1>4, <1>7, <1>9

\* what a power failure cuts off
LEMMA CutUnbroken ==
    ASSUME NEW s \in Seq(Cell), Framed(s), Whole(s), NoTorn(s, Len(s)), NEW u, CutTo(s, u),
           NEW lost, RecsFrom(s, Len(u)) \subseteq lost
    PROVE  TornLast(u) /\ CutShort(u, lost)
<1>1. PICK m \in Nat, n \in Nat : m = Len(u) /\ n = Len(s)
  BY DEF CutTo
<1>2. \A k \in 1 .. m : k \in 1 .. n /\ u[k] = s[k] /\ s[k].rec # 0
  BY <1>1 DEF CutTo, NoTorn
<1>3. TornLast(u)
  BY <1>1, <1>2 DEF TornLast
<1>4. CutShort(u, lost)
  <2>. SUFFICES ASSUME NEW k \in 1 .. m, ~(End(u, k) <= m) PROVE u[k].rec \in lost
    BY <1>1 DEF CutShort
  <2>1. PICK st \in Int, e \in Int : st = Start(s, k) /\ e = End(s, k)
    <3>1. PICK p \in Nat, z \in Nat : p = s[k].pos /\ z = s[k].size
      BY <1>1, <1>2, CellAt
    <3>2. k - p \in Int /\ k - p + z \in Int
      OBVIOUS
    <3>3. Start(s, k) \in Int /\ End(s, k) \in Int
      BY <3>1, <3>2 DEF Start, End
    <3>. QED BY <3>3
  <2>2. End(u, k) = e
    BY <1>2, <2>1 DEF Start, End
  <2>3. /\ st < k /\ e <= n
        /\ \A l \in 1 .. n : st < l /\ l <= e => s[l].rec = s[k].rec
    BY <1>1, <1>2, <2>1 DEF Framed, Whole
  <2>4. m + 1 \in 1 .. n /\ st < m + 1 /\ m + 1 <= e
    BY <2>2, <2>3
  <2>5. s[m + 1].rec = s[k].rec
    BY <2>3, <2>4
  <2>6. s[k].rec \in RecsFrom(s, m)
    <3>1. m + 1 > m
      OBVIOUS
    <3>. QED BY <1>1, <1>2, <2>4, <2>5, <3>1, RecsFromMember
  <2>. QED BY <1>1, <1>2, <2>6
<1>. QED BY <1>3, <1>4

\* what recovery drops
LEMMA TornDropped ==
    ASSUME NEW s \in Seq(Cell), Framed(s), NEW lost, TornLast(s), CutShort(s, lost)
    PROVE  RecsFrom(s, GoodLen(s)) \subseteq lost
<1>. SUFFICES ASSUME NEW r \in RecsFrom(s, GoodLen(s)) PROVE r \in lost
  OBVIOUS
<1>1. PICK m \in Nat : m = Len(s)
  OBVIOUS
<1>2. PICK g \in 0 .. m : g = GoodLen(s)
  BY <1>1, GoodLenFacts
<1>3. PICK k \in 1 .. m : k > g /\ s[k].rec = r /\ r # 0
  BY <1>1, <1>2, RecsFromMember
<1>4. PICK p \in Nat, z \in Nat : p = s[k].pos /\ z = s[k].size
  BY <1>1, CellAt
<1>5. PICK st \in Int, e \in Int : st = k - p /\ e = st + z
  OBVIOUS
<1>6. Start(s, k) = st /\ End(s, k) = e
  BY <1>4, <1>5 DEF Start, End
<1>7. /\ 0 <= st /\ st < k /\ k <= e
      /\ \A l \in 1 .. m : st < l /\ l <= e =>
           s[l].rec = r /\ s[l].size = z /\ Start(s, l) = st
  BY <1>1, <1>3, <1>4, <1>6 DEF Framed
<1>8. CASE e <= m
  <2>1. e \in 1 .. m /\ st < e
    BY <1>3, <1>7, <1>8
  <2>2. s[e].rec = r /\ s[e].size = z /\ e - s[e].pos = st /\ s[e].pos \in Nat
    BY <1>1, <1>7, <2>1, CellAt DEF Start
  <2>3. s[e].pos = s[e].size
    <3>1. PICK q \in Nat : q = s[e].pos
      BY <2>2
    <3>2. q = z
      BY <1>5, <2>2, <3>1
    <3>. QED BY <2>2, <3>1, <3>2
  <2>4. \A l \in 1 .. e : s[l].rec # 0
    <3>. SUFFICES ASSUME NEW l \in 1 .. e PROVE s[l].rec # 0
      OBVIOUS
    <3>1. l \in 1 .. m /\ (l < e \/ l = e)
      BY <2>1
    <3>. QED BY <1>1, <1>3, <2>1, <2>2, <3>1 DEF TornLast
  <2>5. e <= g
    BY <1>1, <1>2, <2>1, <2>3, <2>4, GoodLenFacts
  <2>. QED BY <1>3, <1>7, <2>5
<1>9. CASE ~(e <= m)
  BY <1>1, <1>3, <1>6, <1>9 DEF CutShort
<1>. QED BY <1>8, <1>9

TailInv == errs = 0 => (up => NoneTorn(buf)) /\ Unbroken(buf, powerLost)

TornInv == TailInv /\ TornWithoutWriteError

LEMMA UpTail ==
    ASSUME OrderInv', up', NoneTorn(buf')
    PROVE  TailInv'
<1>1. IsBuffer(buf') /\ RunOK(buf')
  BY DEF OrderInv, Inv, TypeOK, LogInv
<1>2. PICK lost : lost = powerLost'
  OBVIOUS
<1>3. Unbroken(buf', lost)
  BY <1>1, RunUnbroken
<1>. QED BY <1>2, <1>3 DEF TailInv

LEMMA RoomNone ==
    ASSUME OrderInv, up, NoneTorn(buf), NEW n \in Sizes, NEW k \in Nat
    PROVE  /\ NoneTorn(AfterEvict(n))
           /\ NoneTorn(SealIfFull(WriteFrame(EnsureActive(AfterEvict(n)), nextRec, n, clock)))
           /\ \A i \in Ids(WriteTorn(EnsureActive(AfterEvict(n)), k)) :
                 TornLast(Cells(WriteTorn(EnsureActive(AfterEvict(n)), k), i))
<1>1. PICK c : c = AfterEvict(n)
  OBVIOUS
<1>2. PICK m \in Nat \ {0} : m = nextRec + errs + stops
  BY InvFacts DEF OrderInv
<1>3. IsBuffer(c) /\ LogOK(c) /\ RunOK(c) /\ Below(c, m) /\ AcceptedBelow(c, nextRec)
  BY <1>1, <1>2, RoomLog DEF OrderInv
<1>4. n \in Nat /\ nextRec \in Nat \ {0} /\ clock \in Nat
  BY SizesAssumption, InvFacts DEF OrderInv, Inv, TypeOK
<1>5. NoneTorn(c)
  <2>1. Shrinks(buf, c)
    BY <1>1, MakeRoom DEF OrderInv
  <2>. QED BY <2>1, ShrinkNone
<1>6. /\ NoneTorn(SealIfFull(WriteFrame(EnsureActive(c), nextRec, n, clock)))
      /\ \A i \in Ids(WriteTorn(EnsureActive(c), k)) : TornLast(Cells(WriteTorn(EnsureActive(c), k), i))
  BY <1>2, <1>3, <1>4, <1>5, WrittenNone
<1>. QED BY <1>1, <1>5, <1>6

LEMMA AppendTail ==
    ASSUME OrderInv, OrderInv', TailInv, NEW n \in Sizes, AppendOk(n) \/ AppendFull(n)
    PROVE  TailInv'
<1>. SUFFICES ASSUME errs' = 0 PROVE TailInv'
  BY DEF TailInv
<1>1. up /\ up' /\ errs = 0
  BY DEF AppendOk, AppendFull, boundVars
<1>2. NoneTorn(buf)
  BY <1>1 DEF TailInv
<1>3. 0 \in Nat
  OBVIOUS
<1>4. NoneTorn(buf')
  <2>1. CASE AppendOk(n)
    BY <1>1, <1>2, <1>3, <2>1, RoomNone DEF AppendOk
  <2>2. CASE AppendFull(n)
    BY <1>1, <1>2, <1>3, <2>2, RoomNone DEF AppendFull
  <2>. QED BY <2>1, <2>2
<1>. QED BY <1>1, <1>4, UpTail

LEMMA KillInAppendTail ==
    ASSUME OrderInv, TailInv, NEW n \in Sizes, NEW k \in 0 .. (n - 1), KillInAppend(n, k)
    PROVE  TailInv'
<1>. SUFFICES ASSUME errs' = 0 PROVE TailInv'
  BY DEF TailInv
<1>1. up /\ ~up' /\ errs = 0 /\ powerLost' = powerLost /\ k \in Nat
  BY DEF KillInAppend
<1>2. NoneTorn(buf)
  BY <1>1 DEF TailInv
<1>3. PICK w : /\ Appended(AfterEvict(n), w, 0)
               /\ w = WriteTorn(EnsureActive(AfterEvict(n)), k)
               /\ IsBuffer(buf') /\ SameFiles(w, buf')
  BY KilledFiles DEF OrderInv
<1>4. \A i \in Ids(w) : TornLast(Cells(w, i)) /\ Whole(Cells(w, i))
  BY <1>1, <1>2, <1>3, RoomNone DEF Appended, RunOK
<1>5. Unbroken(w, powerLost)
  BY <1>4 DEF Unbroken, CutShort, Whole
<1>6. Unbroken(buf', powerLost)
  BY <1>3, <1>5, SameNone
<1>. QED BY <1>1, <1>6 DEF TailInv

LEMMA SameTail ==
    ASSUME TailInv, SameFiles(buf, buf'), errs' = errs, up' => up, powerLost' = powerLost
    PROVE  TailInv'
BY SameNone DEF TailInv

LEMMA ShrinkTail ==
    ASSUME TailInv, OrderInv', Shrinks(buf, buf'), errs' = errs, up, up'
    PROVE  TailInv'
<1>1. CASE errs = 0
  BY <1>1, ShrinkNone, UpTail DEF TailInv
<1>2. CASE errs # 0
  BY <1>2 DEF TailInv
<1>. QED BY <1>1, <1>2

LEMMA FailTail ==
    ASSUME Inv, errs' = errs + 1
    PROVE  TailInv'
BY DEF Inv, TypeOK, TailInv

LEMMA PowerFailTail ==
    ASSUME OrderInv, Inv', TailInv, NEW k \in 0 .. MaxBytes, PowerFail(k)
    PROVE  TailInv'
<1>. SUFFICES ASSUME errs' = 0 PROVE TailInv'
  BY DEF TailInv
<1>1. up /\ ~up' /\ errs = 0
  BY DEF PowerFail
<1>2. /\ IsBuffer(buf) /\ IsBuffer(buf') /\ Cuts(buf, buf')
      /\ \A i \in Ids(buf) : Len(Cells(buf', i)) = KeptLen(buf.segs[i], k)
  BY PowerFailFiles, InvFacts DEF OrderInv
<1>3. PICK lost : lost = powerLost'
  OBVIOUS
<1>4. ASSUME NEW i \in Ids(buf)
      PROVE  TornLast(Cells(buf', i)) /\ CutShort(Cells(buf', i), lost)
  <2>1. PICK s, u : s \in Seq(Cell) /\ s = Cells(buf, i) /\ u = Cells(buf', i)
    BY <1>2, CellsType
  <2>2. Framed(s) /\ Whole(s) /\ NoTorn(s, Len(s)) /\ CutTo(s, u)
    BY <1>1, <1>2, <2>1 DEF OrderInv, LogInv, LogOK, RunOK, TailInv, NoneTorn, Cuts
  <2>3. RecsFrom(s, Len(u)) \subseteq lost
    BY <1>2, <1>3, <2>1 DEF PowerFail, Cells
  <2>. QED BY <2>1, <2>2, <2>3, CutUnbroken
<1>5. Unbroken(buf', lost)
  BY <1>2, <1>4 DEF Unbroken, Cuts
<1>. QED BY <1>1, <1>3, <1>5 DEF TailInv

LEMMA OpenTail ==
    ASSUME OrderInv, OrderInv', TailInv, Open
    PROVE  TailInv'
<1>1. NoneTorn(buf') /\ up'
  BY OpenFiles DEF OrderInv, NoneTorn, Cuts, Open
<1>. QED BY <1>1, UpTail

\* recovery drops nothing that was complete
LEMMA OpenTorn ==
    ASSUME OrderInv, TornInv, Open
    PROVE  TornWithoutWriteError'
<1>. SUFFICES ASSUME errs' = 0, evicted' # "orphaning" PROVE corrupted' \subseteq powerLost'
  BY DEF TornWithoutWriteError, OnlyUnfinishedIsTorn
<1>1. errs = 0 /\ evicted # "orphaning" /\ powerLost' = powerLost
  BY DEF Open, boundVars
<1>2. corrupted \subseteq powerLost /\ Unbroken(buf, powerLost)
  BY <1>1 DEF TornInv, TailInv, TornWithoutWriteError, OnlyUnfinishedIsTorn
<1>3. ASSUME NEW i \in Ids(buf)
      PROVE  RecsFrom(buf.segs[i].cells, GoodLen(buf.segs[i].cells)) \subseteq powerLost
  <2>1. PICK s \in Seq(Cell) : s = Cells(buf, i)
    BY InvFacts, CellsType DEF OrderInv
  <2>2. Framed(s) /\ TornLast(s) /\ CutShort(s, powerLost)
    BY <1>2, <2>1 DEF OrderInv, LogInv, LogOK, Unbroken
  <2>3. RecsFrom(s, GoodLen(s)) \subseteq powerLost
    BY <2>2, TornDropped
  <2>. QED BY <2>1, <2>3 DEF Cells
<1>. QED BY <1>1, <1>2, <1>3 DEF Open

\* the reader passes over nothing
LEMMA PeekTorn ==
    ASSUME OrderInv, QueueInv, TornInv, NEW d \in Readers, PeekAfter(d)
    PROVE  TornWithoutWriteError'
<1>. SUFFICES ASSUME errs' = 0, evicted' # "orphaning" PROVE corrupted' \subseteq powerLost'
  BY DEF TornWithoutWriteError, OnlyUnfinishedIsTorn
<1>1. errs = 0 /\ evicted # "orphaning" /\ powerLost' = powerLost /\ up
  BY DEF PeekAfter, boundVars
<1>2. corrupted \subseteq powerLost /\ NoneTorn(buf)
  BY <1>1 DEF TornInv, TailInv, TornWithoutWriteError, OnlyUnfinishedIsTorn
<1>3. PICK bt \in Seq(Entry) : bt = batch[d]
  BY BatchIs, InvFacts DEF OrderInv
<1>4. PICK pos \in Nat \X Nat : pos = PeekPos(buf, bt)
  BY PeekPosType, InvFacts DEF OrderInv
<1>5. Within(buf, pos)
  <2>1. PICK gone : gone = Settled
    OBVIOUS
  <2>2. QueueOK(buf, nextRec, saved, bt, gone)
    BY <1>1, <1>3, <2>1, BatchIs DEF QueueInv
  <2>. QED BY <1>4, <2>2, PeekPosAt, InvFacts DEF OrderInv, At
<1>6. SkippedCorrupt(buf, pos) = {}
  BY <1>1, <1>2, <1>5, NothingSkipped, InvFacts DEF OrderInv, LogInv, NoneTorn
<1>. QED BY <1>1, <1>2, <1>3, <1>4, <1>6, PeekPosIs DEF PeekAfter

\* the other actions add nothing to corrupted
LEMMA SameTorn ==
    ASSUME TornWithoutWriteError, errs' = 0 => errs = 0,
           evicted' # "orphaning" => evicted # "orphaning",
           corrupted' = corrupted, powerLost \subseteq powerLost'
    PROVE  TornWithoutWriteError'
BY DEF TornWithoutWriteError, OnlyUnfinishedIsTorn

LEMMA SameFilesSelf ==
    ASSUME buf' = buf
    PROVE  SameFiles(buf, buf')
BY DEF SameFiles

LEMMA InitTorn == Init => TornInv
<1>. SUFFICES ASSUME Init PROVE TornInv
  OBVIOUS
<1>1. Ids(buf) = {} /\ corrupted = {}
  BY DEF Init, Ids
<1>. QED BY <1>1 DEF TornInv, TailInv, NoneTorn, Unbroken, TornWithoutWriteError,
                     OnlyUnfinishedIsTorn

LEMMA NextTail == OrderInv /\ TailInv /\ [Next]_vars => TailInv'
<1>. SUFFICES ASSUME OrderInv, TailInv, [Next]_vars PROVE TailInv'
  OBVIOUS
<1>0. OrderInv' /\ Inv /\ Inv' /\ IsBuffer(buf)
  BY NextOrder, InvFacts DEF OrderInv
<1>1. CASE \E n \in Sizes : AppendOk(n) \/ AppendFull(n)
  BY <1>0, <1>1, AppendTail
<1>2. CASE \E n \in Sizes : \E k \in 0..(n - 1) : AppendFails(n, k) \/ KillInAppend(n, k)
  <2>1. ASSUME NEW n \in Sizes, NEW k \in 0..(n - 1), AppendFails(n, k) PROVE TailInv'
    BY <1>0, <2>1, FailTail DEF AppendFails
  <2>. QED BY <1>2, <2>1, KillInAppendTail
<1>3. CASE Sync
  <2>1. SameFiles(buf, buf')
    BY <1>0, <1>3, SyncSame DEF Sync
  <2>. QED BY <1>3, <2>1, SameTail DEF Sync, boundVars
<1>4. CASE EvictExpired
  <2>1. PICK m \in Nat : m = nextRec + errs + stops
    BY <1>0, InvFacts
  <2>2. Shrinks(buf, buf')
    BY <1>0, <1>4, <2>1, InvFacts, DropExpiredType DEF EvictExpired
  <2>. QED BY <1>0, <1>4, <2>2, ShrinkTail DEF EvictExpired, boundVars
<1>5. CASE \E d \in Readers : PeekAfter(d)
  BY <1>5, SameFilesSelf, SameTail DEF PeekAfter, bufVars, boundVars
<1>6. ASSUME NEW d \in Readers, NEW k \in Nat, AckAt(d, k) PROVE TailInv'
  BY <1>0, <1>6, AckShrinks, ShrinkTail DEF AckAt, AckEntry, boundVars
<1>7. CASE \E d \in Readers : Ack(d)
  BY <1>0, <1>6, <1>7, AckIsAt
<1>8. CASE \E d \in Readers : \E k \in 1..BatchSize : DeadLetter(d, k) \/ AckFails(d, k)
  <2>1. PICK d \in Readers, k \in Nat : DeadLetter(d, k) \/ AckFails(d, k)
    BY <1>8, BoundsAssumption
  <2>2. CASE DeadLetter(d, k)
    BY <1>0, <1>6, <2>2, AckIsAt
  <2>3. CASE AckFails(d, k)
    BY <1>0, <2>3, FailTail DEF AckFails
  <2>. QED BY <2>1, <2>2, <2>3
<1>9. CASE \E d \in Readers : Abandon(d)
  BY <1>9, SameFilesSelf, SameTail DEF Abandon, bufVars, boundVars, histVars
<1>10. CASE Close
  BY <1>0, <1>10, CloseFiles, SameTail DEF Close, histVars
<1>11. CASE Kill
  BY <1>0, <1>11, KillFiles, SameTail DEF Kill, histVars
<1>12. CASE Open
  BY <1>0, <1>12, OpenTail
<1>13. CASE \E k \in 0..MaxBytes : PowerFail(k)
  BY <1>0, <1>13, PowerFailTail
<1>14. CASE Tick
  BY <1>14, SameFilesSelf, SameTail DEF Tick, bufVars, histVars
<1>15. CASE UNCHANGED vars
  BY <1>15, SameFilesSelf, SameTail DEF vars, bufVars, boundVars, histVars
<1>. QED BY <1>1, <1>2, <1>3, <1>4, <1>5, <1>7, <1>8, <1>9, <1>10, <1>11, <1>12,
            <1>13, <1>14, <1>15 DEF Next

LEMMA NextTorn ==
    OrderInv /\ QueueInv /\ TornInv /\ [Next]_vars => TornWithoutWriteError'
<1>. SUFFICES ASSUME OrderInv, QueueInv, TornInv, [Next]_vars PROVE TornWithoutWriteError'
  OBVIOUS
<1>0. errs \in Nat /\ TornWithoutWriteError
  BY DEF OrderInv, Inv, TypeOK, TornInv
<1>1. CASE \E n \in Sizes : AppendOk(n) \/ AppendFull(n)
  BY <1>0, <1>1, SameTorn, EvictionReport DEF AppendOk, AppendFull, boundVars
<1>2. CASE \E n \in Sizes : \E k \in 0..(n - 1) : AppendFails(n, k) \/ KillInAppend(n, k)
  <2>1. ASSUME NEW n \in Sizes, NEW k \in 0..(n - 1), AppendFails(n, k)
        PROVE  TornWithoutWriteError'
    <3>1. errs' # 0
      BY <1>0, <2>1 DEF AppendFails
    <3>. QED BY <3>1 DEF TornWithoutWriteError
  <2>2. ASSUME NEW n \in Sizes, NEW k \in 0..(n - 1), KillInAppend(n, k)
        PROVE  TornWithoutWriteError'
    BY <1>0, <2>2, SameTorn, EvictionReport DEF KillInAppend
  <2>. QED BY <1>2, <2>1, <2>2
<1>3. CASE Sync
  BY <1>0, <1>3, SameTorn DEF Sync, boundVars
<1>4. CASE EvictExpired
  BY <1>0, <1>4, SameTorn, EvictionReport DEF EvictExpired, boundVars
<1>5. CASE \E d \in Readers : PeekAfter(d)
  BY <1>5, PeekTorn
<1>6. CASE \E d \in Readers : Ack(d)
  BY <1>0, <1>6, SameTorn DEF Ack, AckEntry, boundVars
<1>7. CASE \E d \in Readers : \E k \in 1..BatchSize : DeadLetter(d, k) \/ AckFails(d, k)
  <2>1. PICK d \in Readers, k \in 1..BatchSize : DeadLetter(d, k) \/ AckFails(d, k)
    BY <1>7
  <2>2. CASE DeadLetter(d, k)
    BY <1>0, <2>2, SameTorn DEF DeadLetter, AckEntry, boundVars
  <2>3. CASE AckFails(d, k)
    <3>1. errs' # 0
      BY <1>0, <2>3 DEF AckFails
    <3>. QED BY <3>1 DEF TornWithoutWriteError
  <2>. QED BY <2>1, <2>2, <2>3
<1>8. CASE \E d \in Readers : Abandon(d)
  BY <1>0, <1>8, SameTorn DEF Abandon, boundVars, histVars
<1>9. CASE Close
  BY <1>0, <1>9, SameTorn DEF Close, histVars
<1>10. CASE Kill
  BY <1>0, <1>10, SameTorn DEF Kill, histVars
<1>11. CASE Open
  BY <1>11, OpenTorn
<1>12. CASE \E k \in 0..MaxBytes : PowerFail(k)
  BY <1>0, <1>12, SameTorn DEF PowerFail
<1>13. CASE Tick
  BY <1>0, <1>13, SameTorn DEF Tick, histVars
<1>14. CASE UNCHANGED vars
  BY <1>0, <1>14, SameTorn DEF vars, boundVars, histVars
<1>. QED BY <1>1, <1>2, <1>3, <1>4, <1>5, <1>6, <1>7, <1>8, <1>9, <1>10, <1>11, <1>12,
            <1>13, <1>14 DEF Next

(***************************************************************************)
(* As long as no write has failed and no eviction has orphaned the log,    *)
(* nothing that recovery truncates or the reader passes over was accepted, *)
(* but for what a power failure cut: over kills at any byte of an append.  *)
(***************************************************************************)
THEOREM TornIsUnfinished == Spec => []TornWithoutWriteError
<1>1. Init => OrderInv /\ QueueInv /\ TornInv
  BY InitOrder, InitQueue, InitTorn
<1>2. OrderInv /\ QueueInv /\ TornInv /\ [Next]_vars => (OrderInv /\ QueueInv /\ TornInv)'
  BY NextOrder, NextQueue, NextTail, NextTorn DEF TornInv
<1>3. TornInv => TornWithoutWriteError
  BY DEF TornInv
<1>. QED BY <1>1, <1>2, <1>3, PTL DEF Spec

-----------------------------------------------------------------------------
(***************************************************************************)
(* What is queued can be read: the walk from the cursor reaches it.        *)
(***************************************************************************)
\* the walk from pos has a segment to start in, or starts at the oldest
Enters(b, pos) == pos[1] \in Ids(b) \/ \A i \in Ids(b) : pos[1] < i

LEMMA CanRead ==
    ASSUME NEW b, IsBuffer(b), LogOK(b), RunOK(b), NoneTorn(b), NEW pos \in Nat \X Nat,
           Within(b, pos), Enters(b, pos),
           NEW i \in Ids(b), NEW k \in 1 .. Len(Cells(b, i)),
           Cells(b, i)[k].rec # 0, After(pos, i, k)
    PROVE  Found(b, pos) # {}
<1>1. PICK s \in Seq(Cell) : s = Cells(b, i)
  BY CellsType
<1>2. PICK m \in Nat : m = Len(s)
  OBVIOUS
<1>3. i \in Nat /\ pos[1] \in Nat /\ pos[2] \in Nat
  BY CellsType
<1>4. i \in Walk(b, pos)
  BY <1>3 DEF After, Enters, Walk
<1>5. PICK off \in Nat : off = EnterAt(pos, i)
  BY DEF EnterAt
<1>6. off < k /\ k \in 1 .. m /\ s[k].rec # 0
  BY <1>1, <1>2, <1>3, <1>5 DEF After, EnterAt
<1>7. NoTorn(s, off) /\ FrameStart(s, off)
  BY <1>1, <1>5, EnterOK
<1>8. \A l \in 1 .. m : s[l].rec # 0
  BY <1>1, <1>2 DEF NoneTorn, NoTorn
<1>9. PICK l \in 1 .. m : l = off + 1
  BY <1>6
<1>10. s[l].rec # 0 /\ s[l].pos = 1
  BY <1>2, <1>7, <1>8, <1>9 DEF FrameStart
<1>11. off + s[l].size <= m
  <2>1. End(s, l) <= m
    BY <1>1, <1>2, <1>10 DEF RunOK, Whole
  <2>2. PICK z \in Nat : z = s[l].size
    BY <1>2, CellAt
  <2>. QED BY <1>9, <1>10, <2>1, <2>2 DEF End, Start
<1>12. ReadableAt(s, off)
  BY <1>2, <1>6, <1>9, <1>10, <1>11 DEF ReadableAt
<1>13. off < b.segs[i].bytes
  <2>1. s[k].rec \in RecsFrom(s, off)
    BY <1>2, <1>6, RecsFromMember
  <2>2. off \in 0 .. Len(s)
    BY <1>2, <1>6
  <2>. QED BY <1>1, <1>7, <2>1, <2>2 DEF RunOK, Counted, Cells
<1>14. i \in Yielding(b, pos)
  BY <1>1, <1>4, <1>5, <1>12, <1>13 DEF Yielding, Cells
<1>15. Yielding(b, pos) \in SUBSET Nat
  BY CellsType DEF Yielding, Walk
<1>16. PICK j \in Yielding(b, pos) : \A l2 \in Yielding(b, pos) : j <= l2
  BY <1>14, <1>15, LeastExists
<1>. QED BY <1>16 DEF Found

-----------------------------------------------------------------------------
(***************************************************************************)
(* Without an eviction, the segment the cursor names exists, unless an     *)
(* acknowledgement has named one that was gone.                            *)
(***************************************************************************)
Named(S, sv) == sv[1] = 0 \/ sv[1] \in S

NamedInv ==
    errs = 0 /\ evicted = "none" /\ ~strayed =>
        (up => saved = CursorPos(buf)) /\ Named(Ids(buf), saved)

LEMMA NamedKept ==
    ASSUME NEW S, NEW T, NEW sv \in Nat \X Nat, Named(S, sv),
           \A i \in S : sv[1] <= i => i \in T
    PROVE  Named(T, sv)
<1>1. sv[1] \in Nat /\ sv[1] <= sv[1]
  OBVIOUS
<1>. QED BY <1>1 DEF Named

LEMMA NoEviction ==
    ASSUME NEW b, NEW c, ReportEviction(b, c), evicted' = "none"
    PROVE  evicted = "none" /\ Ids(b) = Ids(c)
BY DEF ReportEviction

LEMMA ReclaimIds ==
    ASSUME NEW b, IsBuffer(b)
    PROVE  /\ CursorPos(Reclaim(b)) = CursorPos(b)
           /\ \A i \in Ids(b) : b.cursorSeg <= i => i \in Ids(Reclaim(b))
           /\ \A i \in Ids(Reclaim(b)) : i \in Ids(b) /\ (i < b.cursorSeg => ~b.segs[i].sealed)
<1>1. PICK gone : gone = {i \in Ids(b) : i < b.cursorSeg /\ b.segs[i].sealed}
  OBVIOUS
<1>2. Reclaim(b) = Without(b, gone)
  BY <1>1 DEF Reclaim
<1>3. Ids(Reclaim(b)) = Ids(b) \ gone /\ CursorPos(Reclaim(b)) = CursorPos(b)
  BY <1>2, WithoutFields, WithoutPos
<1>4. \A i \in Ids(b) : i \in Nat /\ b.cursorSeg \in Nat
  BY DEF IsBuffer
<1>. QED BY <1>1, <1>3, <1>4

LEMMA EvictIds ==
    ASSUME NEW b, IsBuffer(b)
    PROVE  /\ Ids(EvictOldest(b)) = Ids(b) \ OldestSealed(b)
           /\ \/ CursorPos(EvictOldest(b)) = CursorPos(b)
              \/ /\ OldestSealed(b) # {} /\ Ids(EvictOldest(b)) # {}
                 /\ EvictOldest(b).cursorSeg = Min(Ids(EvictOldest(b)))
<1>1. PICK gone, rest : gone = OldestSealed(b) /\ rest = Without(b, gone)
  OBVIOUS
<1>2. Ids(rest) = Ids(b) \ gone /\ CursorPos(rest) = CursorPos(b)
  BY <1>1, WithoutFields, WithoutPos
<1>3. CASE (\E i \in gone : b.cursorSeg <= i) /\ Ids(rest) # {}
  <2>1. EvictOldest(b) = SetCursor(rest, Min(Ids(rest)), 0)
    BY <1>1, <1>3 DEF EvictOldest
  <2>2. Ids(EvictOldest(b)) = Ids(rest) /\ EvictOldest(b).cursorSeg = Min(Ids(rest))
    BY <2>1, MovedPos
  <2>. QED BY <1>1, <1>2, <1>3, <2>2
<1>4. CASE ~((\E i \in gone : b.cursorSeg <= i) /\ Ids(rest) # {})
  <2>1. EvictOldest(b) = rest
    BY <1>1, <1>4 DEF EvictOldest
  <2>. QED BY <1>1, <1>2, <2>1
<1>. QED BY <1>3, <1>4

\* room was made without an eviction
LEMMA RoomNamed ==
    ASSUME Inv, NEW n, ReportEviction(AfterReclaim(n), AfterEvict(n)), evicted' = "none"
    PROVE  /\ evicted = "none" /\ IsBuffer(AfterEvict(n))
           /\ CursorPos(AfterEvict(n)) = CursorPos(buf)
           /\ \A i \in Ids(buf) : buf.cursorSeg <= i => i \in Ids(AfterEvict(n))
<1>1. PICK b, c : b = AfterReclaim(n) /\ c = AfterEvict(n)
  OBVIOUS
<1>2. evicted = "none" /\ Ids(b) = Ids(c) /\ IsBuffer(b) /\ IsBuffer(c)
  BY <1>1, NoEviction, MakeRoom
<1>3. /\ CursorPos(b) = CursorPos(buf)
      /\ \A i \in Ids(buf) : buf.cursorSeg <= i => i \in Ids(b)
  BY <1>1, InvFacts, ReclaimIds DEF AfterReclaim
<1>4. CursorPos(c) = CursorPos(b)
  <2>1. CASE Full(b, n)
    <3>1. c = EvictOldest(b)
      BY <1>1, <2>1 DEF AfterEvict
    <3>2. OldestSealed(b) \subseteq Ids(b)
      BY DEF OldestSealed
    <3>. QED BY <1>2, <3>1, <3>2, EvictIds
  <2>2. CASE ~Full(b, n)
    BY <1>1, <2>2 DEF AfterEvict
  <2>. QED BY <2>1, <2>2
<1>. QED BY <1>1, <1>2, <1>3, <1>4

LEMMA WrittenIds ==
    ASSUME Inv, LogInv, up, NEW n \in Sizes, NEW k \in Nat
    PROVE  /\ Ids(AfterEvict(n)) \subseteq
                 Ids(SealIfFull(WriteFrame(EnsureActive(AfterEvict(n)), nextRec, n, clock)))
           /\ Ids(AfterEvict(n)) \subseteq Ids(WriteTorn(EnsureActive(AfterEvict(n)), k))
<1>1. PICK c, d : c = AfterEvict(n) /\ d = EnsureActive(c)
  OBVIOUS
<1>2. PICK m \in Nat \ {0} : m = nextRec + errs + stops
  BY InvFacts
<1>3. IsBuffer(c) /\ LogOK(c) /\ RunOK(c) /\ Below(c, m) /\ AcceptedBelow(c, nextRec)
  BY <1>1, <1>2, RoomLog
<1>4. IsBuffer(d) /\ OpenActive(d)
  BY <1>1, <1>2, <1>3, ReadyAppended DEF Appended
<1>5. Ids(c) \subseteq Ids(d)
  <2>1. PICK a : Readies(c, d, a)
    BY <1>1, <1>2, <1>3, EnsureReadies
  <2>. QED BY <2>1 DEF Readies
<1>6. n \in Nat /\ nextRec \in Nat /\ clock \in Nat
  BY SizesAssumption DEF Inv, TypeOK
<1>7. PICK w, v : w = WriteFrame(d, nextRec, n, clock) /\ v = WriteTorn(d, k)
  OBVIOUS
<1>8. IsBuffer(w) /\ Grows(d, w, nextRec, n) /\ Ids(v) = Ids(d)
  BY <1>4, <1>6, <1>7, WriteFrameType, WriteTornType, WriteFrameGrows DEF OpenActive
<1>9. Ids(SealIfFull(w)) = Ids(d)
  BY <1>8, SealSame DEF Grows, SameFiles
<1>. QED BY <1>1, <1>5, <1>7, <1>8, <1>9

\* a step without an eviction that keeps every segment from the cursor on
LEMMA NamedStep ==
    ASSUME Inv, NamedInv,
           errs' = 0 /\ evicted' = "none" /\ ~strayed' => errs = 0 /\ evicted = "none" /\ ~strayed,
           \A i \in Ids(buf) : saved[1] <= i => i \in Ids(buf'),
           saved' = saved, up' => up /\ CursorPos(buf') = CursorPos(buf)
    PROVE  NamedInv'
<1>. SUFFICES ASSUME errs' = 0, evicted' = "none", ~strayed'
              PROVE  (up' => saved' = CursorPos(buf')) /\ Named(Ids(buf'), saved')
  BY DEF NamedInv
<1>1. (up => saved = CursorPos(buf)) /\ Named(Ids(buf), saved)
  BY DEF NamedInv
<1>2. PICK S, T, sv : S = Ids(buf) /\ T = Ids(buf') /\ sv = saved /\ sv \in Nat \X Nat
  BY InvFacts
<1>3. Named(T, sv)
  BY <1>1, <1>2, NamedKept
<1>. QED BY <1>1, <1>2, <1>3

LEMMA AppendNamed ==
    ASSUME OrderInv, NamedInv, NEW n \in Sizes, AppendOk(n) \/ AppendFull(n)
    PROVE  NamedInv'
<1>. SUFFICES ASSUME errs' = 0, evicted' = "none", ~strayed' PROVE NamedInv'
  BY DEF NamedInv
<1>1. /\ up /\ up' /\ errs = 0 /\ ~strayed /\ saved' = saved
      /\ ReportEviction(AfterReclaim(n), AfterEvict(n))
  BY DEF AppendOk, AppendFull, boundVars, ackVars
<1>2. Inv /\ LogInv
  BY DEF OrderInv
<1>3. PICK c : c = AfterEvict(n)
  OBVIOUS
<1>4. /\ evicted = "none" /\ CursorPos(c) = CursorPos(buf)
      /\ \A i \in Ids(buf) : buf.cursorSeg <= i => i \in Ids(c)
  BY <1>1, <1>2, <1>3, RoomNamed
<1>5. saved[1] = buf.cursorSeg
  BY <1>1, <1>4 DEF NamedInv, CursorPos
<1>6. Ids(c) \subseteq Ids(buf') /\ CursorPos(buf') = CursorPos(c)
  <2>1. CASE AppendOk(n)
    <3>0. 0 \in Nat
      OBVIOUS
    <3>1. Ids(c) \subseteq Ids(buf')
      BY <1>1, <1>2, <1>3, <2>1, <3>0, WrittenIds DEF AppendOk
    <3>2. SamePos(c, buf')
      BY <1>1, <1>2, <1>3, <2>1, <3>0, WrittenLog DEF AppendOk, Appended
    <3>. QED BY <3>1, <3>2 DEF SamePos, CursorPos
  <2>2. CASE AppendFull(n)
    BY <1>3, <2>2 DEF AppendFull
  <2>. QED BY <2>1, <2>2
<1>. QED BY <1>1, <1>2, <1>4, <1>5, <1>6, NamedStep

LEMMA KillInAppendNamed ==
    ASSUME OrderInv, NamedInv, NEW n \in Sizes, NEW k \in 0 .. (n - 1), KillInAppend(n, k)
    PROVE  NamedInv'
<1>. SUFFICES ASSUME errs' = 0, evicted' = "none", ~strayed' PROVE NamedInv'
  BY DEF NamedInv
<1>1. /\ up /\ ~up' /\ errs = 0 /\ ~strayed /\ saved' = saved /\ k \in Nat
      /\ ReportEviction(AfterReclaim(n), AfterEvict(n))
  BY DEF KillInAppend, ackVars
<1>2. Inv /\ LogInv
  BY DEF OrderInv
<1>3. PICK c : c = AfterEvict(n)
  OBVIOUS
<1>4. /\ evicted = "none"
      /\ \A i \in Ids(buf) : buf.cursorSeg <= i => i \in Ids(c)
  BY <1>1, <1>2, <1>3, RoomNamed
<1>5. saved[1] = buf.cursorSeg
  BY <1>1, <1>4 DEF NamedInv, CursorPos
<1>6. Ids(c) \subseteq Ids(buf')
  <2>1. PICK w : w = WriteTorn(EnsureActive(c), k) /\ SameFiles(w, buf')
    BY <1>2, <1>3, KilledFiles
  <2>2. Ids(c) \subseteq Ids(w)
    BY <1>1, <1>2, <1>3, <2>1, WrittenIds
  <2>. QED BY <2>1, <2>2 DEF SameFiles
<1>. QED BY <1>1, <1>2, <1>4, <1>5, <1>6, NamedStep

LEMMA ExpiredIds ==
    ASSUME NEW b, IsBuffer(b), NEW now
    PROVE  /\ Expired(b, now) \subseteq Ids(b)
           /\ Ids(DropExpired(b, now)) = Ids(b) \ Expired(b, now)
           /\ \/ /\ CursorPos(DropExpired(b, now)) = CursorPos(b)
                 /\ \A i \in Expired(b, now) : ~(b.cursorSeg <= i)
              \/ /\ Expired(b, now) # {}
                 /\ DropExpired(b, now).cursorSeg = Max(Expired(b, now)) + 1
<1>1. PICK gone, rest : gone = Expired(b, now) /\ rest = Without(b, gone)
  OBVIOUS
<1>2. Ids(rest) = Ids(b) \ gone /\ CursorPos(rest) = CursorPos(b) /\ gone \subseteq Ids(b)
  BY <1>1, WithoutFields, WithoutPos DEF Expired
<1>3. CASE \E i \in gone : b.cursorSeg <= i
  <2>1. DropExpired(b, now) = SetCursor(rest, Max(gone) + 1, 0)
    BY <1>1, <1>3 DEF DropExpired
  <2>2. Ids(DropExpired(b, now)) = Ids(rest) /\ DropExpired(b, now).cursorSeg = Max(gone) + 1
    BY <2>1, MovedPos
  <2>. QED BY <1>1, <1>2, <1>3, <2>2
<1>4. CASE ~(\E i \in gone : b.cursorSeg <= i)
  <2>1. DropExpired(b, now) = rest
    BY <1>1, <1>4 DEF DropExpired
  <2>. QED BY <1>1, <1>2, <1>4, <2>1
<1>. QED BY <1>3, <1>4

LEMMA EvictExpiredNamed ==
    ASSUME Inv, EvictExpired
    PROVE  NamedInv'
<1>1. PICK c : c = DropExpired(buf, clock)
  OBVIOUS
<1>2. Ids(c) # Ids(buf)
  BY <1>1, InvFacts, ExpiredIds DEF EvictExpired
<1>3. evicted' # "none"
  BY <1>1, <1>2, NoEviction DEF EvictExpired
<1>. QED BY <1>3 DEF NamedInv

LEMMA PeekAfterNamed ==
    ASSUME Inv, NamedInv, NEW d \in Readers, PeekAfter(d)
    PROVE  NamedInv'
BY NamedStep DEF PeekAfter, bufVars, boundVars, ackVars

LEMMA AckNamed ==
    ASSUME Inv, NamedInv, NEW d \in Readers, NEW k \in Nat, AckAt(d, k)
    PROVE  NamedInv'
<1>. SUFFICES ASSUME errs' = 0, evicted' = "none", ~strayed'
              PROVE  saved' = CursorPos(buf') /\ Named(Ids(buf'), saved')
  BY DEF NamedInv
<1>1. PICK seg, off : seg = batch[d][k].seg /\ off = batch[d][k].end
  OBVIOUS
<1>2. /\ buf' = Reclaim(SetCursor(buf, seg, off)) /\ saved' = <<seg, off>>
      /\ seg \in Ids(buf)
  BY <1>1 DEF AckAt, AckEntry, Acknowledges
<1>3. PICK c : c = SetCursor(buf, seg, off)
  OBVIOUS
<1>4. /\ IsBuffer(c) /\ Ids(c) = Ids(buf) /\ CursorPos(c) = <<seg, off>>
      /\ c.cursorSeg = seg
  BY <1>1, <1>3, CursorMoved, MovedPos DEF AckAt
<1>5. /\ CursorPos(buf') = <<seg, off>>
      /\ \A i \in Ids(buf) : seg <= i => i \in Ids(buf')
  BY <1>2, <1>3, <1>4, ReclaimIds
<1>6. seg \in Nat
  BY <1>2, InvFacts, CellsType
<1>. QED BY <1>2, <1>5, <1>6 DEF Named

LEMMA CloseNamed ==
    ASSUME Inv, NamedInv, Close
    PROVE  NamedInv'
<1>. SUFFICES ASSUME errs' = 0, evicted' = "none", ~strayed' PROVE NamedInv'
  BY DEF NamedInv
<1>1. /\ errs = 0 /\ evicted = "none" /\ ~strayed /\ up /\ ~up'
      /\ saved' = CursorPos(buf)
  BY DEF Close, histVars, ackVars, CursorPos
<1>2. saved' = saved
  BY <1>1 DEF NamedInv
<1>3. Ids(buf') = Ids(buf)
  BY CloseFiles DEF SameFiles
<1>. QED BY <1>1, <1>2, <1>3, NamedStep

LEMMA OpenNamed ==
    ASSUME Inv, LogInv, Inv', NamedInv, Open
    PROVE  NamedInv'
<1>. SUFFICES ASSUME errs' = 0, evicted' = "none", ~strayed' PROVE NamedInv'
  BY DEF NamedInv
<1>1. errs = 0 /\ evicted = "none" /\ ~strayed /\ saved' = saved
  BY DEF Open, boundVars, ackVars
<1>2. Ids(buf') = Ids(buf) /\ CursorPos(buf') = saved
  BY OpenFiles DEF Cuts
<1>3. Named(Ids(buf), saved)
  BY <1>1 DEF NamedInv
<1>. QED BY <1>1, <1>2, <1>3 DEF NamedInv

LEMMA NextNamed == OrderInv /\ NamedInv /\ [Next]_vars => NamedInv'
<1>. SUFFICES ASSUME OrderInv, NamedInv, [Next]_vars PROVE NamedInv'
  OBVIOUS
<1>0. Inv /\ LogInv /\ Inv' /\ IsBuffer(buf) /\ errs \in Nat
  BY NextInv, InvFacts DEF OrderInv, Inv, TypeOK
<1>1. CASE \E n \in Sizes : AppendOk(n) \/ AppendFull(n)
  BY <1>1, AppendNamed
<1>2. CASE \E n \in Sizes : \E k \in 0..(n - 1) : AppendFails(n, k) \/ KillInAppend(n, k)
  <2>1. ASSUME NEW n \in Sizes, NEW k \in 0..(n - 1), AppendFails(n, k) PROVE NamedInv'
    <3>1. errs' # 0
      BY <1>0, <2>1 DEF AppendFails
    <3>. QED BY <3>1 DEF NamedInv
  <2>. QED BY <1>2, <2>1, KillInAppendNamed
<1>3. CASE Sync
  <2>1. Ids(buf') = Ids(buf) /\ CursorPos(buf') = CursorPos(buf)
    BY <1>0, <1>3, SyncSame DEF Sync, SameFiles, SamePos, CursorPos
  <2>. QED BY <1>0, <1>3, <2>1, NamedStep DEF Sync, boundVars, ackVars
<1>4. CASE EvictExpired
  BY <1>0, <1>4, EvictExpiredNamed
<1>5. CASE \E d \in Readers : PeekAfter(d)
  BY <1>0, <1>5, PeekAfterNamed
<1>6. CASE \E d \in Readers : Ack(d)
  BY <1>0, <1>6, AckIsAt, AckNamed
<1>7. CASE \E d \in Readers : \E k \in 1..BatchSize : DeadLetter(d, k) \/ AckFails(d, k)
  <2>1. PICK d \in Readers, k \in Nat : DeadLetter(d, k) \/ AckFails(d, k)
    BY <1>7, BoundsAssumption
  <2>2. CASE DeadLetter(d, k)
    BY <1>0, <2>2, AckIsAt, AckNamed
  <2>3. CASE AckFails(d, k)
    <3>1. errs' # 0
      BY <1>0, <2>3 DEF AckFails
    <3>. QED BY <3>1 DEF NamedInv
  <2>. QED BY <2>1, <2>2, <2>3
<1>8. CASE \E d \in Readers : Abandon(d)
  BY <1>0, <1>8, NamedStep DEF Abandon, bufVars, boundVars, histVars, ackVars
<1>9. CASE Close
  BY <1>0, <1>9, CloseNamed
<1>10. CASE Kill
  <2>1. Ids(buf') = Ids(buf)
    BY <1>0, <1>10, KillFiles DEF SameFiles
  <2>. QED BY <1>0, <1>10, <2>1, NamedStep DEF Kill, histVars, ackVars
<1>11. CASE Open
  BY <1>0, <1>11, OpenNamed
<1>12. CASE \E k \in 0..MaxBytes : PowerFail(k)
  <2>1. PICK k \in 0..MaxBytes : PowerFail(k)
    BY <1>12
  <2>2. Ids(buf') = Ids(buf)
    BY <1>0, <2>1, PowerFailFiles DEF Cuts
  <2>. QED BY <1>0, <2>1, <2>2, NamedStep DEF PowerFail, ackVars
<1>13. CASE Tick
  BY <1>0, <1>13, NamedStep DEF Tick, bufVars, histVars, ackVars
<1>14. CASE UNCHANGED vars
  BY <1>0, <1>14, NamedStep DEF vars, bufVars, boundVars, histVars, ackVars
<1>. QED BY <1>1, <1>2, <1>3, <1>4, <1>5, <1>6, <1>7, <1>8, <1>9, <1>10, <1>11, <1>12,
            <1>13, <1>14 DEF Next

-----------------------------------------------------------------------------
(***************************************************************************)
(* In a process that started with an empty directory, no segment is behind *)
(* the cursor, and only the one appended to is not sealed.                 *)
(***************************************************************************)
Fresh(b, bt) ==
    /\ \A i \in Ids(b) : b.cursorSeg <= i /\ (i # b.active => b.segs[i].sealed)
    /\ b.active # 0 => b.segs[b.active].open
    /\ \A j \in 1 .. Len(bt) : Enters(b, EntryPos(bt, j))

FreshInv ==
    errs = 0 /\ stops = 0 /\ evicted # "orphaning" => up /\ \A bt \in Batches : Fresh(buf, bt)

LEMMA FreshNewest ==
    ASSUME NEW b, IsBuffer(b), LogOK(b), NEW bt, Fresh(b, bt), NEW i \in Ids(b),
           ~b.segs[i].sealed
    PROVE  i = b.active /\ \A j \in Ids(b) : j <= i
<1>1. i = b.active /\ i # 0
  BY DEF Fresh, IsBuffer
<1>2. OpenActive(b)
  BY <1>1 DEF Fresh, OpenActive
<1>. QED BY <1>1, <1>2 DEF LogOK

LEMMA FreshReclaim ==
    ASSUME NEW b, IsBuffer(b), NEW bt, Fresh(b, bt)
    PROVE  Fresh(Reclaim(b), bt)
<1>1. PICK c : c = Reclaim(b)
  OBVIOUS
<1>2. Shrinks(b, c)
  BY <1>1, ReclaimType
<1>3. /\ CursorPos(c) = CursorPos(b)
      /\ \A i \in Ids(b) : b.cursorSeg <= i => i \in Ids(c)
  BY <1>1, ReclaimIds
<1>4. Ids(c) = Ids(b) /\ c.cursorSeg = b.cursorSeg
  BY <1>2, <1>3 DEF Fresh, Shrinks, CursorPos
<1>5. \A i \in Ids(b) : c.segs[i] = b.segs[i]
  BY <1>2, <1>4 DEF Shrinks
<1>6. c.active = b.active /\ (b.active # 0 => b.active \in Ids(b))
  BY <1>2 DEF Shrinks, IsBuffer
<1>7. Fresh(c, bt)
  BY <1>4, <1>5, <1>6 DEF Fresh, Enters
<1>. QED BY <1>1, <1>7

\* the entries of the batch and the cursor when segments gone are removed
LEMMA FreshEvicted ==
    ASSUME NEW b, IsBuffer(b), NEW c, IsBuffer(c), Shrinks(b, c), NEW bt, Fresh(b, bt),
           \A i \in Ids(c) : c.cursorSeg <= i,
           \A i \in Ids(c) : \A g \in Ids(b) \ Ids(c) : g < i
    PROVE  Fresh(c, bt)
<1>1. \A i \in Ids(c) : i # c.active => c.segs[i].sealed
  BY DEF Fresh, Shrinks
<1>2. c.active # 0 => c.segs[c.active].open
  BY DEF Fresh, Shrinks, IsBuffer
<1>3. \A j \in 1 .. Len(bt) : Enters(c, EntryPos(bt, j))
  BY DEF Fresh, Shrinks, Enters
<1>. QED BY <1>1, <1>2, <1>3 DEF Fresh

LEMMA FreshEvictOldest ==
    ASSUME NEW b, IsBuffer(b), LogOK(b), NEW bt, Fresh(b, bt)
    PROVE  Fresh(EvictOldest(b), bt)
<1>1. PICK c, gone : c = EvictOldest(b) /\ gone = OldestSealed(b)
  OBVIOUS
<1>2. IsBuffer(c) /\ Shrinks(b, c)
  BY <1>1, EvictOldestType
<1>3. Ids(c) = Ids(b) \ gone
  BY <1>1, EvictIds
<1>4. \A i \in Ids(b) : i \in Nat
  BY DEF IsBuffer
<1>5. \A i \in Ids(c) : c.cursorSeg <= i
  <2>1. CASE CursorPos(c) = CursorPos(b)
    BY <1>3, <2>1 DEF Fresh, CursorPos
  <2>2. CASE Ids(c) # {} /\ c.cursorSeg = Min(Ids(c))
    <3>1. Ids(c) \in SUBSET Nat
      BY <1>3, <1>4
    <3>. QED BY <2>2, <3>1, MinIsLeast
  <2>. QED BY <1>1, <2>1, <2>2, EvictIds
<1>6. ASSUME NEW i \in Ids(c), NEW g \in Ids(b) \ Ids(c) PROVE g < i
  <2>1. g \in Nat /\ i \in Nat /\ i \in Ids(b) /\ g \in gone /\ g # i
    BY <1>3, <1>4
  <2>2. CASE b.segs[i].sealed
    <3>1. g <= i
      BY <1>1, <2>1, <2>2 DEF OldestSealed
    <3>. QED BY <2>1, <3>1
  <2>3. CASE ~b.segs[i].sealed
    <3>1. g <= i
      BY <2>1, <2>3, FreshNewest
    <3>. QED BY <2>1, <3>1
  <2>. QED BY <2>2, <2>3
<1>7. Fresh(c, bt)
  BY <1>2, <1>5, <1>6, FreshEvicted
<1>. QED BY <1>1, <1>7

LEMMA FreshDropExpired ==
    ASSUME NEW b, IsBuffer(b), NEW m \in Nat, Below(b, m), NEW now,
           ~Orphans(b, DropExpired(b, now)), NEW bt, Fresh(b, bt)
    PROVE  Fresh(DropExpired(b, now), bt)
<1>1. PICK c, gone : c = DropExpired(b, now) /\ gone = Expired(b, now)
  OBVIOUS
<1>2. IsBuffer(c) /\ Shrinks(b, c)
  BY <1>1, DropExpiredType
<1>3. Ids(c) = Ids(b) \ gone /\ gone \subseteq Ids(b)
  BY <1>1, ExpiredIds
<1>4. (\A i \in Ids(b) : i \in Nat) /\ b.cursorSeg \in Nat /\ c.cursorSeg \in Nat
  BY <1>2 DEF IsBuffer
<1>5. CASE gone = {}
  <2>1. CursorPos(c) = CursorPos(b)
    BY <1>1, <1>5, ExpiredIds
  <2>2. \A i \in Ids(c) : c.cursorSeg <= i
    BY <1>3, <2>1 DEF Fresh, CursorPos
  <2>3. \A i \in Ids(c) : \A g \in Ids(b) \ Ids(c) : g < i
    BY <1>3, <1>5
  <2>4. Fresh(c, bt)
    BY <1>2, <2>2, <2>3, FreshEvicted
  <2>. QED BY <1>1, <2>4
<1>6. CASE gone # {}
  <2>1. c.cursorSeg = Max(gone) + 1
    BY <1>1, <1>3, <1>6, ExpiredIds DEF Fresh
  <2>2. Max(gone) \in Nat /\ \A g \in gone : g <= Max(gone)
    BY <1>3, <1>6, MaxId
  <2>3. ASSUME NEW i \in Ids(c) PROVE c.cursorSeg <= i
    <3>1. b.cursorSeg <= i /\ i \in Nat
      BY <1>3, <1>4 DEF Fresh
    <3>2. ~(i < c.cursorSeg)
      BY <1>1, <3>1 DEF Orphans
    <3>. QED BY <1>4, <3>1, <3>2
  <2>4. ASSUME NEW i \in Ids(c), NEW g \in Ids(b) \ Ids(c) PROVE g < i
    <3>1. g \in gone /\ g \in Nat /\ i \in Nat
      BY <1>3, <1>4
    <3>2. g <= Max(gone) /\ Max(gone) + 1 <= i
      BY <2>1, <2>2, <2>3, <3>1
    <3>. QED BY <2>2, <3>1, <3>2
  <2>5. Fresh(c, bt)
    BY <1>2, <2>3, <2>4, FreshEvicted
  <2>. QED BY <1>1, <2>5
<1>. QED BY <1>5, <1>6

LEMMA FreshReady ==
    ASSUME NEW b, IsBuffer(b), NEW m \in Nat \ {0}, Below(b, m), NEW bt \in Seq(Entry),
           Fresh(b, bt), Within(b, CursorPos(b)),
           \A j \in 1 .. Len(bt) : Within(b, EntryPos(bt, j))
    PROVE  Fresh(EnsureActive(b), bt)
<1>1. CASE b.active # 0
  <2>1. EnsureActive(b) = b
    BY <1>1 DEF EnsureActive, Fresh, IsBuffer
  <2>. QED BY <2>1
<1>2. CASE b.active = 0
  <2>1. PICK c : c = EnsureActive(b)
    OBVIOUS
  <2>2. PICK a : /\ Ids(c) = Ids(b) \cup {a} /\ a \in Nat \ {0} /\ \A j \in Ids(b) : j < a
                 /\ \A i \in Ids(b) : c.segs[i] = b.segs[i]
                 /\ c.active = a
    BY <1>2, <2>1, EnsureReadies DEF Readies, OpenActive
  <2>3. c.segs[c.active].open
    BY <2>1, EnsureActiveType
  <2>4. SamePos(b, c)
    BY <2>1, ReadyPos
  <2>5. \A i \in Ids(b) : i \in Nat
    BY DEF IsBuffer
  <2>6. ASSUME NEW pos \in Nat \X Nat, Within(b, pos) PROVE pos[1] < a \/ pos[1] \in Ids(b)
    <3>1. CASE pos[1] = 0
      BY <2>2, <3>1
    <3>2. CASE \E j \in Ids(b) : pos[1] <= j
      <4>1. PICK j \in Ids(b) : pos[1] <= j
        BY <3>2
      <4>2. j < a /\ j \in Nat /\ pos[1] \in Nat /\ a \in Nat
        BY <2>2, <2>5
      <4>. QED BY <4>1, <4>2
    <3>. QED BY <2>6, <3>1, <3>2 DEF Within
  <2>7. \A i \in Ids(c) : c.cursorSeg <= i /\ (i # c.active => c.segs[i].sealed)
    <3>. SUFFICES ASSUME NEW i \in Ids(c)
                  PROVE  c.cursorSeg <= i /\ (i # c.active => c.segs[i].sealed)
      OBVIOUS
    <3>1. c.cursorSeg = b.cursorSeg /\ b.cursorSeg \in Nat
      BY <2>4 DEF SamePos, IsBuffer
    <3>2. CASE i \in Ids(b)
      <4>1. i # b.active
        BY <1>2, <3>2 DEF IsBuffer
      <4>. QED BY <2>2, <3>1, <3>2, <4>1 DEF Fresh
    <3>3. CASE i = a
      <4>1. b.cursorSeg < a \/ b.cursorSeg \in Ids(b)
        BY <2>6, CursorType DEF CursorPos
      <4>. QED BY <2>2, <3>1, <3>3, <4>1
    <3>. QED BY <2>2, <3>2, <3>3
  <2>8. ASSUME NEW j \in 1 .. Len(bt) PROVE Enters(c, EntryPos(bt, j))
    <3>1. PICK pos \in Nat \X Nat : pos = EntryPos(bt, j)
      BY EntryPosType
    <3>2. Enters(b, pos) /\ (pos[1] < a \/ pos[1] \in Ids(b))
      BY <2>6, <3>1 DEF Fresh
    <3>. QED BY <2>2, <3>1, <3>2 DEF Enters
  <2>9. Fresh(c, bt)
    BY <2>3, <2>7, <2>8 DEF Fresh
  <2>. QED BY <2>1, <2>9
<1>. QED BY <1>1, <1>2

\* the active segment changes, or is sealed
LEMMA FreshSame ==
    ASSUME NEW b, NEW c, NEW bt, Fresh(b, bt), Ids(c) = Ids(b), SamePos(b, c),
           \A i \in Ids(b) \ {b.active} : c.segs[i] = b.segs[i],
           \/ c.active = b.active /\ (b.active # 0 => c.segs[b.active].open = b.segs[b.active].open)
           \/ c.active = 0 /\ c.segs[b.active].sealed
    PROVE  Fresh(c, bt)
<1>1. \A i \in Ids(c) : c.cursorSeg <= i /\ (i # c.active => c.segs[i].sealed)
  BY DEF Fresh, SamePos
<1>2. c.active # 0 => c.segs[c.active].open
  BY DEF Fresh
<1>. QED BY <1>1, <1>2 DEF Fresh, Enters

LEMMA SealedActive ==
    ASSUME NEW b, IsBuffer(b), OpenActive(b)
    PROVE  SealActive(b).segs[b.active].sealed
<1>1. PICK old : old = b.segs[b.active]
  OBVIOUS
<1>2. old \in Segment /\ b.active \in Ids(b)
  BY <1>1, ActiveId DEF IsBuffer
<1>3. PICK seg : seg = [old EXCEPT !.synced = Len(old.cells), !.sealed = TRUE, !.open = FALSE]
  OBVIOUS
<1>4. seg.sealed = TRUE
  BY <1>2, <1>3 DEF Segment
<1>5. UpdateActive(b, seg) = [segs |-> [b.segs EXCEPT ![b.active] = seg], active |-> b.active,
                              cursorSeg |-> b.cursorSeg, cursorOff |-> b.cursorOff]
  BY UpdateFields
<1>6. SealActive(b) = [UpdateActive(b, seg) EXCEPT !.active = 0]
  BY <1>1, <1>3 DEF SealActive
<1>7. SealActive(b).segs = [b.segs EXCEPT ![b.active] = seg]
  BY <1>5, <1>6
<1>8. [b.segs EXCEPT ![b.active] = seg][b.active] = seg
  BY <1>2 DEF IsBuffer
<1>. QED BY <1>4, <1>7, <1>8

LEMMA FreshSeal ==
    ASSUME NEW b, IsBuffer(b), OpenActive(b), NEW bt, Fresh(b, bt)
    PROVE  Fresh(SealIfFull(b), bt)
<1>1. CASE b.segs[b.active].bytes >= SegmentBytes
  <2>1. PICK c : c = SealActive(b)
    OBVIOUS
  <2>2. SealIfFull(b) = c
    BY <1>1, <2>1 DEF SealIfFull
  <2>3. /\ Ids(c) = Ids(b) /\ c.active = 0
        /\ \A i \in Ids(b) \ {b.active} : c.segs[i] = b.segs[i]
    BY <2>1, SealActiveType DEF OpenActive
  <2>4. c.segs[b.active].sealed
    BY <2>1, SealedActive
  <2>5. SamePos(b, c)
    BY <2>2, SealSame
  <2>. QED BY <2>2, <2>3, <2>4, <2>5, FreshSame
<1>2. CASE ~(b.segs[b.active].bytes >= SegmentBytes)
  BY <1>2 DEF SealIfFull
<1>. QED BY <1>1, <1>2

LEMMA FreshWritten ==
    ASSUME NEW b, IsBuffer(b), OpenActive(b), NEW bt, Fresh(b, bt),
           NEW r \in Nat, NEW n \in Nat, NEW t \in Nat
    PROVE  Fresh(SealIfFull(WriteFrame(b, r, n, t)), bt)
<1>1. PICK w : w = WriteFrame(b, r, n, t)
  OBVIOUS
<1>2. /\ IsBuffer(w) /\ Ids(w) = Ids(b) /\ w.active = b.active
      /\ \A i \in Ids(b) \ {b.active} : w.segs[i] = b.segs[i]
      /\ w.segs[b.active].open = b.segs[b.active].open
  <2>1. b.active # 0
    BY DEF OpenActive
  <2>. QED BY <1>1, <2>1, WriteFrameType
<1>3. SamePos(b, w)
  BY <1>1, WritePos
<1>4. Fresh(w, bt)
  BY <1>2, <1>3, FreshSame
<1>5. OpenActive(w)
  BY <1>2 DEF OpenActive
<1>. QED BY <1>1, <1>2, <1>4, <1>5, FreshSeal

\* entry k of batch bt is acknowledged; s is that batch without it, or another one
LEMMA FreshAck ==
    ASSUME NEW b, IsBuffer(b), LogOK(b), NEW bt \in Seq(Entry), NEW k \in 1 .. Len(bt),
           Fresh(b, bt), NEW s, Fresh(b, s) \/ LosesEntry(bt, s, k)
    PROVE  Fresh(Reclaim(SetCursor(b, bt[k].seg, bt[k].end)), s)
<1>1. PICK seg \in Nat, off \in Nat : seg = bt[k].seg /\ off = bt[k].end
  <2>1. bt[k] \in Entry
    OBVIOUS
  <2>. QED BY <2>1 DEF Entry
<1>2. PICK c : c = SetCursor(b, seg, off)
  OBVIOUS
<1>3. IsBuffer(c) /\ Ids(c) = Ids(b) /\ c.cursorSeg = seg /\ c.segs = b.segs /\ c.active = b.active
  <2>1. IsBuffer(c) /\ Ids(c) = Ids(b)
    BY <1>2, MoveCursor, MovedPos
  <2>2. c.cursorSeg = seg /\ c.segs = b.segs /\ c.active = b.active
    BY <1>2 DEF SetCursor
  <2>. QED BY <2>1, <2>2
<1>4. PICK d : d = Reclaim(c)
  OBVIOUS
<1>5. IsBuffer(d) /\ Shrinks(c, d)
  BY <1>3, <1>4, ReclaimType
<1>6. Shrinks(b, d)
  BY <1>3, <1>5 DEF Shrinks
<1>7. /\ CursorPos(d) = CursorPos(c)
      /\ \A i \in Ids(c) : seg <= i => i \in Ids(d)
      /\ \A i \in Ids(d) : i \in Ids(c) /\ (i < seg => ~c.segs[i].sealed)
  BY <1>3, <1>4, ReclaimIds
<1>8. d.cursorSeg = seg
  BY <1>3, <1>7 DEF CursorPos
<1>9. \A i \in Ids(b) : i \in Nat
  BY DEF IsBuffer
<1>10. seg \in Ids(b) \/ \A i \in Ids(b) : seg < i
  <2>1. Enters(b, EntryPos(bt, k))
    BY DEF Fresh
  <2>. QED BY <1>1, <2>1 DEF Enters, EntryPos
<1>11. ASSUME NEW i \in Ids(d) PROVE seg <= i
  <2>1. i \in Ids(b) /\ i \in Nat
    BY <1>3, <1>7, <1>9
  <2>2. CASE i < seg
    <3>1. ~b.segs[i].sealed
      BY <1>3, <1>7, <2>2
    <3>2. \A j \in Ids(b) : j <= i
      BY <2>1, <3>1, FreshNewest
    <3>. QED BY <1>10, <2>1, <2>2, <3>2
  <2>. QED BY <2>1, <2>2
<1>12. ASSUME NEW i \in Ids(d), NEW g \in Ids(b) \ Ids(d) PROVE g < i
  <2>1. g \in Nat /\ i \in Nat /\ ~(seg <= g) /\ seg <= i
    BY <1>3, <1>6, <1>7, <1>9, <1>11 DEF Shrinks
  <2>. QED BY <2>1
<1>13. ASSUME NEW z, Fresh(b, z) PROVE Fresh(d, z)
  BY <1>5, <1>6, <1>8, <1>11, <1>12, <1>13, FreshEvicted
<1>14. ASSUME LosesEntry(bt, s, k) PROVE Fresh(d, s)
  <2>1. ASSUME NEW j \in 1 .. Len(s) PROVE Enters(d, EntryPos(s, j))
    <3>1. PICK l \in 1 .. Len(bt) : s[j] = bt[l]
      BY <1>14 DEF LosesEntry
    <3>2. EntryPos(s, j) = EntryPos(bt, l)
      BY <3>1 DEF EntryPos
    <3>. QED BY <1>13, <3>2 DEF Fresh
  <2>. QED BY <1>13, <2>1 DEF Fresh
<1>. QED BY <1>1, <1>2, <1>4, <1>13, <1>14

LEMMA FreshRoom ==
    ASSUME Inv, LogInv, up, NEW n, NEW bt, Fresh(buf, bt)
    PROVE  Fresh(AfterEvict(n), bt)
<1>1. PICK b : b = AfterReclaim(n)
  OBVIOUS
<1>2. IsBuffer(buf) /\ LogOK(buf)
  BY InvFacts DEF LogInv
<1>3. IsBuffer(b) /\ LogOK(b) /\ Fresh(b, bt)
  <2>1. CASE Full(buf, n)
    <3>1. b = Reclaim(buf)
      BY <1>1, <2>1 DEF AfterReclaim
    <3>2. IsBuffer(b) /\ Shrinks(buf, b)
      BY <1>2, <3>1, ReclaimType
    <3>3. LogOK(b)
      BY <1>2, <3>2, ShrinkLessens, LessLog
    <3>. QED BY <1>2, <3>1, <3>2, <3>3, FreshReclaim
  <2>2. CASE ~Full(buf, n)
    BY <1>1, <1>2, <2>2 DEF AfterReclaim
  <2>. QED BY <2>1, <2>2
<1>4. CASE Full(b, n)
  <2>1. AfterEvict(n) = EvictOldest(b)
    BY <1>1, <1>4 DEF AfterEvict
  <2>. QED BY <1>3, <2>1, FreshEvictOldest
<1>5. CASE ~Full(b, n)
  BY <1>1, <1>3, <1>5 DEF AfterEvict
<1>. QED BY <1>4, <1>5

LEMMA AppendFullFresh ==
    ASSUME OrderInv, FreshInv, NEW n \in Sizes, AppendFull(n)
    PROVE  FreshInv'
<1>0. <<>> \in Batches'
  BY DEF Batches
<1>. SUFFICES ASSUME errs' = 0, stops' = 0, evicted' # "orphaning",
                     NEW bt \in Batches'
              PROVE  up' /\ Fresh(buf', bt)
  BY <1>0 DEF FreshInv
<1>1. /\ errs = 0 /\ stops = 0 /\ up /\ up' /\ bt \in Batches
      /\ ReportEviction(AfterReclaim(n), AfterEvict(n)) /\ buf' = AfterEvict(n)
  BY BatchesStay DEF AppendFull, boundVars
<1>2. evicted # "orphaning"
  BY <1>1, EvictionReport
<1>3. Fresh(buf, bt)
  BY <1>1, <1>2 DEF FreshInv
<1>. QED BY <1>1, <1>3, FreshRoom DEF OrderInv

LEMMA AppendOkFresh ==
    ASSUME OrderInv, QueueInv, FreshInv, NEW n \in Sizes, AppendOk(n)
    PROVE  FreshInv'
<1>0. <<>> \in Batches'
  BY DEF Batches
<1>. SUFFICES ASSUME errs' = 0, stops' = 0, evicted' # "orphaning",
                     NEW bt \in Batches'
              PROVE  up' /\ Fresh(buf', bt)
  BY <1>0 DEF FreshInv
<1>1. /\ errs = 0 /\ stops = 0 /\ up /\ up' /\ bt \in Batches
      /\ ReportEviction(AfterReclaim(n), AfterEvict(n))
      /\ buf' = SealIfFull(WriteFrame(EnsureActive(AfterEvict(n)), nextRec, n, clock))
  BY BatchesStay DEF AppendOk, boundVars
<1>2. evicted # "orphaning"
  BY <1>1, EvictionReport
<1>3. PICK c : c = AfterEvict(n)
  OBVIOUS
<1>4. Fresh(c, bt)
  BY <1>1, <1>2, <1>3, FreshRoom DEF OrderInv, FreshInv
<1>5. PICK m \in Nat \ {0} : m = nextRec + errs + stops
  BY InvFacts DEF OrderInv
<1>6. IsBuffer(c) /\ LogOK(c) /\ RunOK(c) /\ Below(c, m) /\ AcceptedBelow(c, nextRec)
  BY <1>1, <1>3, <1>5, RoomLog DEF OrderInv
<1>7. QueueOK(c, nextRec, saved, bt, Settled')
  BY <1>1, <1>3, RoomMade DEF AppendOk, ackVars
<1>8. Within(c, CursorPos(c)) /\ \A j \in 1 .. Len(bt) : Within(c, EntryPos(bt, j))
  BY <1>7 DEF QueueOK, BatchAt, At
<1>9. PICK d : d = EnsureActive(c)
  OBVIOUS
<1>10. bt \in Seq(Entry) /\ n \in Nat /\ nextRec \in Nat /\ clock \in Nat
  BY <1>1, InvFacts, SizesAssumption DEF OrderInv, Inv, TypeOK
<1>11. Fresh(d, bt)
  BY <1>4, <1>5, <1>6, <1>8, <1>9, <1>10, FreshReady
<1>12. IsBuffer(d) /\ OpenActive(d)
  BY <1>5, <1>6, <1>9, EnsureActiveType DEF OpenActive
<1>13. Fresh(SealIfFull(WriteFrame(d, nextRec, n, clock)), bt)
  BY <1>10, <1>11, <1>12, FreshWritten
<1>. QED BY <1>1, <1>3, <1>9, <1>13

LEMMA SyncFresh ==
    ASSUME Inv, FreshInv, Sync
    PROVE  FreshInv'
<1>. SUFFICES ASSUME errs = 0, stops = 0, evicted # "orphaning",
                     NEW bt \in Batches'
              PROVE  up' /\ Fresh(buf', bt)
  BY DEF FreshInv, Sync, boundVars
<1>1. up' /\ buf' = SyncActive(buf) /\ Fresh(buf, bt) /\ IsBuffer(buf)
  BY InvFacts, BatchesStay DEF Sync, FreshInv
<1>2. CASE buf.active # 0
  <2>1. buf.segs[buf.active].open
    BY <1>1, <1>2 DEF Fresh
  <2>2. PICK c : c = SyncActive(buf)
    OBVIOUS
  <2>3. /\ Ids(c) = Ids(buf) /\ c.active = buf.active
        /\ \A i \in Ids(buf) \ {buf.active} : c.segs[i] = buf.segs[i]
        /\ c.segs[buf.active].open = buf.segs[buf.active].open
    BY <1>1, <1>2, <2>1, <2>2, SyncActiveType
  <2>4. SamePos(buf, c)
    BY <1>1, <2>2, SyncSame
  <2>5. Fresh(c, bt)
    BY <1>1, <2>3, <2>4, FreshSame
  <2>. QED BY <1>1, <2>2, <2>5
<1>3. CASE buf.active = 0
  BY <1>1, <1>3 DEF SyncActive
<1>. QED BY <1>2, <1>3

LEMMA EvictExpiredFresh ==
    ASSUME Inv, FreshInv, EvictExpired
    PROVE  FreshInv'
<1>0. <<>> \in Batches'
  BY DEF Batches
<1>. SUFFICES ASSUME errs' = 0, stops' = 0, evicted' # "orphaning",
                     NEW bt \in Batches'
              PROVE  up' /\ Fresh(buf', bt)
  BY <1>0 DEF FreshInv
<1>1. /\ errs = 0 /\ stops = 0 /\ up' /\ bt \in Batches /\ buf' = DropExpired(buf, clock)
      /\ ReportEviction(buf, DropExpired(buf, clock))
  BY BatchesStay DEF EvictExpired, boundVars
<1>2. evicted # "orphaning" /\ ~Orphans(buf, DropExpired(buf, clock))
  BY <1>1, EvictionReport
<1>3. Fresh(buf, bt)
  BY <1>1, <1>2 DEF FreshInv
<1>4. PICK m \in Nat : m = nextRec + errs + stops
  BY InvFacts
<1>5. IsBuffer(buf) /\ Below(buf, m)
  BY <1>4, InvFacts
<1>. QED BY <1>1, <1>2, <1>3, <1>5, FreshDropExpired

LEMMA PeekAfterFresh ==
    ASSUME Inv, FreshInv, NEW d \in Readers, PeekAfter(d)
    PROVE  FreshInv'
<1>0. <<>> \in Batches'
  BY DEF Batches
<1>. SUFFICES ASSUME errs = 0, stops = 0, evicted # "orphaning", NEW bt \in Batches'
              PROVE  up' /\ Fresh(buf', bt)
  BY <1>0 DEF FreshInv, PeekAfter, boundVars
<1>1. up' /\ buf' = buf /\ (\A s \in Batches : Fresh(buf, s)) /\ IsBuffer(buf)
  BY InvFacts DEF PeekAfter, bufVars, FreshInv
<1>2. CASE batch' = batch
  BY <1>1, <1>2, BatchesStay
<1>3. CASE \E e \in Found(buf, ReadPos(d)) : batch' = [batch EXCEPT ![d] = Append(@, e)]
  <2>1. PICK old \in Seq(Entry) : old = batch[d] /\ Fresh(buf, old)
    BY <1>1, BatchIs, InvFacts
  <2>2. PICK pos \in Nat \X Nat : pos = PeekPos(buf, old)
    BY <1>1, <2>1, PeekPosType
  <2>3. PICK e \in Found(buf, pos) : batch' = [batch EXCEPT ![d] = Append(old, e)]
    BY <1>3, <2>1, <2>2, PeekPosIs
  <2>4. PICK new : new = Append(old, e)
    OBVIOUS
  <2>5. bt \in Batches \/ bt = new
    BY <2>3, <2>4, BatchesReplaced
  <2>6. e.seg \in Ids(buf)
    BY <1>1, <2>2, <2>3, FoundIs
  <2>7. PICK m \in Nat : m = Len(old)
    OBVIOUS
  <2>8. /\ Len(new) = m + 1 /\ new[m + 1] = e
        /\ \A k \in 1 .. m : new[k] = old[k]
    BY <2>4, <2>7
  <2>9. ASSUME NEW j \in 1 .. Len(new) PROVE Enters(buf, EntryPos(new, j))
    <3>1. CASE j \in 1 .. m
      <4>1. EntryPos(new, j) = EntryPos(old, j)
        BY <2>8, <3>1 DEF EntryPos
      <4>. QED BY <2>1, <2>7, <3>1, <4>1 DEF Fresh
    <3>2. CASE j = m + 1
      <4>1. EntryPos(new, j)[1] = e.seg
        BY <2>8, <3>2 DEF EntryPos
      <4>. QED BY <2>6, <4>1 DEF Enters
    <3>. QED BY <2>7, <2>8, <3>1, <3>2
  <2>10. Fresh(buf, new)
    BY <2>1, <2>9 DEF Fresh
  <2>. QED BY <1>1, <2>5, <2>10
<1>. QED BY <1>2, <1>3 DEF PeekAfter

LEMMA AckFresh ==
    ASSUME Inv, LogInv, FreshInv, NEW d \in Readers, NEW k \in Nat, AckAt(d, k)
    PROVE  FreshInv'
<1>. SUFFICES ASSUME errs = 0, stops = 0, evicted # "orphaning", NEW r \in Batches'
              PROVE  up' /\ Fresh(buf', r)
  BY DEF FreshInv, AckAt, AckEntry, boundVars
<1>1. PICK bt \in Seq(Entry) : bt = batch[d]
  BY BatchIs, InvFacts
<1>2. PICK s : LosesEntry(bt, s, k) /\ batch' = [batch EXCEPT ![d] = s]
  BY <1>1 DEF AckAt
<1>3. r \in Batches \/ r = s
  BY <1>2, BatchesReplaced
<1>4. /\ up' /\ k \in 1 .. Len(bt)
      /\ buf' = Reclaim(SetCursor(buf, bt[k].seg, bt[k].end))
  BY <1>1 DEF AckAt, AckEntry
<1>5. /\ \A z \in Batches : Fresh(buf, z)
      /\ Fresh(buf, bt) /\ IsBuffer(buf) /\ LogOK(buf)
  BY <1>1, BatchIs, InvFacts DEF FreshInv, LogInv
<1>6. Fresh(buf, r) \/ LosesEntry(bt, r, k)
  BY <1>2, <1>3, <1>5
<1>. QED BY <1>4, <1>5, <1>6, FreshAck

\* the log stays as it is
LEMMA IdleFresh ==
    ASSUME FreshInv, UNCHANGED <<buf, up, errs, stops, evicted>>, Batches' \subseteq Batches
    PROVE  FreshInv'
BY DEF FreshInv

LEMMA InitReach == Init => NamedInv /\ FreshInv
<1>. SUFFICES ASSUME Init PROVE NamedInv /\ FreshInv
  OBVIOUS
<1>1. /\ up /\ saved = <<0, 0>> /\ CursorPos(buf) = <<0, 0>> /\ Batches = {<<>>}
      /\ Ids(buf) = {} /\ buf.active = 0
  BY DEF Init, CursorPos, Ids, Batches
<1>2. Named(Ids(buf), saved)
  BY <1>1 DEF Named
<1>3. Fresh(buf, <<>>)
  BY <1>1 DEF Fresh
<1>. QED BY <1>1, <1>2, <1>3 DEF NamedInv, FreshInv

LEMMA NextFresh == OrderInv /\ QueueInv /\ FreshInv /\ [Next]_vars => FreshInv'
<1>. SUFFICES ASSUME OrderInv, QueueInv, FreshInv, [Next]_vars PROVE FreshInv'
  OBVIOUS
<1>0. Inv /\ LogInv /\ errs \in Nat /\ stops \in Nat
  BY DEF OrderInv, Inv, TypeOK
<1>1. CASE \E n \in Sizes : AppendOk(n) \/ AppendFull(n)
  BY <1>1, AppendOkFresh, AppendFullFresh
<1>2. CASE \E n \in Sizes : \E k \in 0..(n - 1) : AppendFails(n, k) \/ KillInAppend(n, k)
  <2>1. errs' # 0 \/ stops' # 0
    BY <1>0, <1>2 DEF AppendFails, KillInAppend
  <2>. QED BY <2>1 DEF FreshInv
<1>3. CASE Sync
  BY <1>0, <1>3, SyncFresh
<1>4. CASE EvictExpired
  BY <1>0, <1>4, EvictExpiredFresh
<1>5. CASE \E d \in Readers : PeekAfter(d)
  BY <1>0, <1>5, PeekAfterFresh
<1>6. CASE \E d \in Readers : Ack(d)
  BY <1>0, <1>6, AckIsAt, AckFresh
<1>7. CASE \E d \in Readers : \E k \in 1..BatchSize : DeadLetter(d, k) \/ AckFails(d, k)
  <2>1. PICK d \in Readers, k \in Nat : DeadLetter(d, k) \/ AckFails(d, k)
    BY <1>7, BoundsAssumption
  <2>2. CASE DeadLetter(d, k)
    BY <1>0, <2>2, AckIsAt, AckFresh
  <2>3. CASE AckFails(d, k)
    <3>1. errs' # 0
      BY <1>0, <2>3 DEF AckFails
    <3>. QED BY <3>1 DEF FreshInv
  <2>. QED BY <2>1, <2>2, <2>3
<1>8. CASE \E d \in Readers : Abandon(d)
  <2>1. PICK d \in Readers : Abandon(d)
    BY <1>8
  <2>2. Batches' \subseteq Batches
    BY <1>0, <2>1, BatchesReplaced DEF Abandon, Batches
  <2>. QED BY <2>1, <2>2, IdleFresh DEF Abandon, bufVars, boundVars, histVars
<1>9. CASE Close \/ Kill \/ \E k \in 0..MaxBytes : PowerFail(k)
  <2>1. stops' # 0
    BY <1>0, <1>9 DEF Close, Kill, PowerFail
  <2>. QED BY <2>1 DEF FreshInv
<1>10. CASE Open
  BY <1>10 DEF Open, boundVars, FreshInv
<1>11. CASE Tick
  BY <1>11, BatchesStay, IdleFresh DEF Tick, bufVars, histVars
<1>12. CASE UNCHANGED vars
  BY <1>12, BatchesStay, IdleFresh DEF vars, bufVars, boundVars, histVars
<1>. QED BY <1>1, <1>2, <1>3, <1>4, <1>5, <1>6, <1>7, <1>8, <1>9, <1>10, <1>11, <1>12 DEF Next

ReachInv == NamedInv /\ FreshInv

LEMMA ReachReads ==
    OrderInv /\ QueueInv /\ TornInv /\ ReachInv => ReadableWithoutEviction
<1>. SUFFICES ASSUME OrderInv, QueueInv, TornInv, ReachInv, errs = 0,
                     (evicted = "none" /\ ~strayed) \/ (stops = 0 /\ evicted # "orphaning"),
                     up, NEW r \in Accepted, Unread(r)
              PROVE  Found(buf, Cursor) # {}
  BY DEF ReadableWithoutEviction, QueuedIsReadable
<1>1. PICK pos \in Nat \X Nat : pos = CursorPos(buf)
  BY InvFacts, CursorType DEF OrderInv
<1>2. Cursor = pos /\ pos[1] = buf.cursorSeg
  BY <1>1 DEF Cursor, CursorPos
<1>3. <<>> \in Batches
  BY DEF Batches
<1>4. IsBuffer(buf) /\ LogOK(buf) /\ RunOK(buf) /\ NoneTorn(buf)
  BY InvFacts DEF OrderInv, LogInv, TornInv, TailInv
<1>5. Within(buf, pos)
  BY <1>1, <1>3 DEF QueueInv, QueueOK, At
<1>6. Enters(buf, pos)
  <2>1. (\A i \in Ids(buf) : i \in Nat \ {0}) /\ pos[1] \in Nat
    BY <1>4 DEF IsBuffer
  <2>2. CASE evicted = "none" /\ ~strayed
    <3>1. pos = saved /\ (saved[1] = 0 \/ saved[1] \in Ids(buf))
      BY <1>1, <2>2 DEF ReachInv, NamedInv, Named
    <3>. QED BY <2>1, <3>1 DEF Enters
  <2>3. CASE stops = 0 /\ evicted # "orphaning"
    <3>1. \A i \in Ids(buf) : pos[1] <= i
      BY <1>2, <1>3, <2>3 DEF ReachInv, FreshInv, Fresh
    <3>. QED BY <2>1, <3>1 DEF Enters
  <2>. QED BY <2>2, <2>3
<1>7. r # 0
  BY DEF Accepted
<1>8. PICK i \in Ids(buf) : \E k \in 1 .. Len(Cells(buf, i)) :
             Cells(buf, i)[k].rec = r /\ After(pos, i, k)
  BY <1>2 DEF Unread, After, Cells
<1>9. PICK k \in 1 .. Len(Cells(buf, i)) : Cells(buf, i)[k].rec = r /\ After(pos, i, k)
  BY <1>8
<1>. QED BY <1>2, <1>4, <1>5, <1>6, <1>7, <1>9, CanRead

(***************************************************************************)
(* As long as no write has failed, PeekAfter finds a record whenever one   *)
(* is queued: over any crashes and restarts while nothing was evicted and  *)
(* no acknowledgement named a segment that was gone, and, in a process     *)
(* that started with an empty directory, over any evictions but orphaning  *)
(* ones and acknowledgements in any order.                                 *)
(***************************************************************************)
THEOREM QueuedCanBeRead == Spec => []ReadableWithoutEviction
<1>1. Init => OrderInv /\ QueueInv /\ TornInv /\ ReachInv
  BY InitOrder, InitQueue, InitTorn, InitReach DEF ReachInv
<1>2. OrderInv /\ QueueInv /\ TornInv /\ ReachInv /\ [Next]_vars
      => (OrderInv /\ QueueInv /\ TornInv /\ ReachInv)'
  BY NextOrder, NextQueue, NextTail, NextTorn, NextNamed, NextFresh DEF TornInv, ReachInv
<1>3. OrderInv /\ QueueInv /\ TornInv /\ ReachInv => ReadableWithoutEviction
  BY ReachReads
<1>. QED BY <1>1, <1>2, <1>3, PTL DEF Spec

-----------------------------------------------------------------------------
(* The bytes of all segments together. *)

Bytes(b) == [i \in Ids(b) |-> b.segs[i].bytes]

LEMMA TotalIsSum ==
    ASSUME NEW b, IsBuffer(b), IsFiniteSet(Ids(b))
    PROVE  \E h : SumsTo(h, Ids(b), Bytes(b)) /\ TotalBytes(b) = h[Ids(b)]
<1>1. PICK D : D = Ids(b) /\ IsFiniteSet(D)
  OBVIOUS
<1>2. PICK w \in [D -> Nat] : w = Bytes(b) /\ \A i \in D : w[i] = b.segs[i].bytes
  <2>1. \A i \in D : b.segs[i].bytes \in Nat
    BY <1>1, CellsType
  <2>2. Bytes(b) = [i \in D |-> b.segs[i].bytes]
    BY <1>1 DEF Bytes
  <2> QED BY <2>1, <2>2
<1> DEFINE ch == [s \in SUBSET D |-> CHOOSE x \in s : TRUE]
           F == [p \in D \X Nat |-> w[p[1]] + p[2]]
<1>3. \A s \in SUBSET D : s # {} => ch[s] \in s
  OBVIOUS
<1>4. F \in [D \X Nat -> Nat]
  OBVIOUS
<1> HIDE DEF ch, F
<1>5. PICK g \in [SUBSET D -> Nat] : IsFold(g, SUBSET D, 0, F, ch)
  BY <1>1, <1>3, <1>4, FoldExists
<1> DEFINE Adds(h) == h = [s \in SUBSET Ids(b) |->
             IF s = {} THEN 0
             ELSE b.segs[CHOOSE x \in s : TRUE].bytes + h[s \ {CHOOSE x \in s : TRUE}]]
<1>6. Adds(g)
  <2>1. ASSUME NEW s \in SUBSET D
        PROVE  g[s] = IF s = {} THEN 0
                      ELSE b.segs[CHOOSE x \in s : TRUE].bytes + g[s \ {CHOOSE x \in s : TRUE}]
    <3>1. CASE s = {}
      BY <1>5, <3>1 DEF IsFold
    <3>2. CASE s # {}
      <4>1. PICK c \in s : c = ch[s]
        BY <1>3, <3>2
      <4>2. c = CHOOSE x \in s : TRUE
        BY <4>1 DEF ch
      <4>3. PICK y \in Nat : y = g[s \ {c}]
        OBVIOUS
      <4>4. g[s] = F[<<c, y>>]
        BY <1>5, <3>2, <4>1, <4>3 DEF IsFold
      <4>5. F[<<c, y>>] = w[c] + y
        BY DEF F
      <4>6. w[c] = b.segs[c].bytes
        BY <1>2
      <4> QED BY <3>2, <4>2, <4>3, <4>4, <4>5, <4>6
    <3> QED BY <3>1, <3>2
  <2> QED BY <1>1, <2>1
<1>7. PICK h : h = CHOOSE k : Adds(k)
  OBVIOUS
<1>8. TotalBytes(b) = h[Ids(b)]
  BY <1>7, Zenon DEF TotalBytes, MapThenSumSet, MapThenFoldSet
<1> HIDE DEF Adds
<1>9. Adds(h)
  BY <1>6, <1>7
<1>10. ASSUME NEW s \in SUBSET D
       PROVE  h[s] = IF s = {} THEN 0 ELSE w[ch[s]] + h[s \ {ch[s]}]
  <2>1. h[s] = IF s = {} THEN 0
               ELSE b.segs[CHOOSE x \in s : TRUE].bytes + h[s \ {CHOOSE x \in s : TRUE}]
    BY <1>1, <1>9 DEF Adds
  <2>2. ch[s] = CHOOSE x \in s : TRUE
    BY DEF ch
  <2>3. s # {} => w[ch[s]] = b.segs[ch[s]].bytes
    BY <1>2, <1>3
  <2> QED BY <2>1, <2>2, <2>3
<1>11. SumsTo(h, D, w)
  BY <1>1, <1>2, <1>3, <1>10, FoldIsSum
<1> QED BY <1>1, <1>2, <1>8, <1>11

(* Dropping segments, or counting less in some, lowers the sum. *)
LEMMA TotalFewer ==
    ASSUME NEW b, IsBuffer(b), IsFiniteSet(Ids(b)), NEW c, IsBuffer(c), Ids(c) \subseteq Ids(b),
           \A i \in Ids(c) : c.segs[i].bytes <= b.segs[i].bytes
    PROVE  TotalBytes(c) \in Nat /\ TotalBytes(b) \in Nat /\ TotalBytes(c) <= TotalBytes(b)
<1>0. IsFiniteSet(Ids(c))
  BY FS_Subset
<1>1. PICK h : SumsTo(h, Ids(b), Bytes(b)) /\ TotalBytes(b) = h[Ids(b)]
  BY TotalIsSum
<1>2. PICK g : SumsTo(g, Ids(c), Bytes(c)) /\ TotalBytes(c) = g[Ids(c)]
  BY <1>0, TotalIsSum
<1>3. \A i \in Ids(b) : Bytes(b)[i] \in Nat /\ Bytes(b)[i] = b.segs[i].bytes
  BY CellsType DEF Bytes
<1>4. \A i \in Ids(c) : Bytes(c)[i] \in Nat /\ Bytes(c)[i] = c.segs[i].bytes
  BY CellsType DEF Bytes
<1>5. g[Ids(c)] <= h[Ids(b)]
  BY <1>1, <1>2, <1>3, <1>4, SumMonotone
<1> QED BY <1>1, <1>2, <1>5 DEF SumsTo

(* Adding n bytes to one segment, a new one perhaps, adds n. *)
LEMMA TotalMore ==
    ASSUME NEW b, IsBuffer(b), IsFiniteSet(Ids(b)), NEW c, IsBuffer(c), NEW a, NEW n \in Nat,
           a \in Ids(c), Ids(c) \subseteq Ids(b) \cup {a},
           \A i \in Ids(c) \ {a} : c.segs[i].bytes <= b.segs[i].bytes,
           c.segs[a].bytes <= (IF a \in Ids(b) THEN b.segs[a].bytes ELSE 0) + n
    PROVE  TotalBytes(c) <= TotalBytes(b) + n
<1>0. IsFiniteSet(Ids(c))
  <2>1. IsFiniteSet(Ids(b) \cup {a})
    BY FS_AddElement
  <2> QED BY <2>1, FS_Subset
<1>1. PICK h : SumsTo(h, Ids(b), Bytes(b)) /\ TotalBytes(b) = h[Ids(b)]
  BY TotalIsSum
<1>2. PICK g : SumsTo(g, Ids(c), Bytes(c)) /\ TotalBytes(c) = g[Ids(c)]
  BY <1>0, TotalIsSum
<1>3. \A i \in Ids(b) : Bytes(b)[i] \in Nat /\ Bytes(b)[i] = b.segs[i].bytes
  BY CellsType DEF Bytes
<1>4. \A i \in Ids(c) : Bytes(c)[i] \in Nat /\ Bytes(c)[i] = c.segs[i].bytes
  BY CellsType DEF Bytes
<1>5. Bytes(c)[a] <= (IF a \in Ids(b) THEN Bytes(b)[a] ELSE 0) + n
  BY <1>3, <1>4
<1>6. \A i \in Ids(c) \ {a} : Bytes(c)[i] <= Bytes(b)[i]
  BY <1>3, <1>4
<1>7. g[Ids(c)] <= h[Ids(b)] + n
  BY <1>1, <1>2, <1>3, <1>4, <1>5, <1>6, SumGrows
<1> QED BY <1>1, <1>2, <1>7

-----------------------------------------------------------------------------
(***************************************************************************)
(* The byte bound across a restart.  A file that no process has open has   *)
(* no counter: what bounds it is what the last process had counted for it, *)
(* since recovery stops at the first unfinished frame.                     *)
(***************************************************************************)
\* w is at least what recovery can count in each segment
Load(b, w) ==
    /\ w \in [Ids(b) -> Nat]
    /\ \A i \in Ids(b) : \A off \in 0 .. Len(Cells(b, i)) :
         NoTorn(Cells(b, i), off) => off <= w[i]

Fits(b) == \E w, g : Load(b, w) /\ SumsTo(g, Ids(b), w) /\ g[Ids(b)] <= MaxBytes

LEMMA IdsAreFinite ==
    ASSUME NEW b, IsBuffer(b), NEW n \in Nat, Below(b, n)
    PROVE  IsFiniteSet(Ids(b))
<1>1. Ids(b) \subseteq 0 .. n
  BY DEF IsBuffer, Below
<1>2. IsFiniteSet(0 .. n)
  BY FS_Interval
<1>. QED BY <1>1, <1>2, FS_Subset

LEMMA RunFits ==
    ASSUME NEW b, IsBuffer(b), IsFiniteSet(Ids(b)), RunOK(b), TotalBytes(b) <= MaxBytes
    PROVE  Fits(b)
<1>1. PICK h : SumsTo(h, Ids(b), Bytes(b)) /\ TotalBytes(b) = h[Ids(b)]
  BY TotalIsSum
<1>2. Bytes(b) \in [Ids(b) -> Nat]
  BY CellsType DEF Bytes
<1>3. ASSUME NEW i \in Ids(b), NEW off \in 0 .. Len(Cells(b, i)), NoTorn(Cells(b, i), off)
      PROVE  off <= Bytes(b)[i]
  BY <1>3 DEF RunOK, Counted, Cells, Bytes
<1>. QED BY <1>1, <1>2, <1>3 DEF Fits, Load

\* a file that is kept or cut short holds no more
LEMMA CutFits ==
    ASSUME NEW b, IsBuffer(b), NEW c, IsBuffer(c), Ids(c) = Ids(b),
           \A i \in Ids(b) : CutTo(Cells(b, i), Cells(c, i)), Fits(b)
    PROVE  Fits(c)
<1>1. PICK w, g : Load(b, w) /\ SumsTo(g, Ids(b), w) /\ g[Ids(b)] <= MaxBytes
  BY DEF Fits
<1>2. ASSUME NEW i \in Ids(c), NEW off \in 0 .. Len(Cells(c, i)), NoTorn(Cells(c, i), off)
      PROVE  off <= w[i]
  <2>1. CutTo(Cells(b, i), Cells(c, i)) /\ Len(Cells(b, i)) \in Nat /\ Len(Cells(c, i)) \in Nat
    BY CellsType
  <2>2. off \in 0 .. Len(Cells(b, i)) /\ NoTorn(Cells(b, i), off)
    BY <1>2, <2>1 DEF CutTo, NoTorn
  <2>. QED BY <1>1, <2>2 DEF Load
<1>3. Load(c, w)
  BY <1>1, <1>2 DEF Load
<1>. QED BY <1>1, <1>3 DEF Fits

LEMMA SameFits ==
    ASSUME NEW b, IsBuffer(b), NEW c, IsBuffer(c), SameFiles(b, c), Fits(b)
    PROVE  Fits(c)
<1>1. Ids(c) = Ids(b) /\ \A i \in Ids(b) : CutTo(Cells(b, i), Cells(c, i))
  BY CellsType DEF SameFiles, CutTo
<1>. QED BY <1>1, CutFits

\* recovery counts the whole records of each file
LEMMA RecoveredFits ==
    ASSUME NEW b, IsBuffer(b), IsFiniteSet(Ids(b)), Fits(b), NEW c, IsBuffer(c), Ids(c) = Ids(b),
           \A i \in Ids(b) : c.segs[i].bytes = GoodLen(Cells(b, i))
    PROVE  TotalBytes(c) <= MaxBytes
<1>1. PICK w, g : Load(b, w) /\ SumsTo(g, Ids(b), w) /\ g[Ids(b)] <= MaxBytes
  BY DEF Fits
<1>2. PICK h : SumsTo(h, Ids(b), Bytes(c)) /\ TotalBytes(c) = h[Ids(b)]
  BY TotalIsSum
<1>3. \A i \in Ids(b) : Bytes(c)[i] \in Nat /\ w[i] \in Nat
  BY <1>1, CellsType DEF Bytes, Load
<1>4. ASSUME NEW i \in Ids(b)
      PROVE  Bytes(c)[i] <= w[i]
  <2>1. PICK s \in Seq(Cell) : s = Cells(b, i)
    BY CellsType
  <2>2. PICK n \in 0 .. Len(s) : n = GoodLen(s) /\ \A k \in 1 .. n : s[k].rec # 0
    BY <2>1, GoodLenFacts
  <2>3. NoTorn(s, n)
    BY <2>2 DEF NoTorn
  <2>4. n <= w[i]
    BY <1>1, <2>1, <2>2, <2>3 DEF Load
  <2>. QED BY <2>1, <2>2, <2>4 DEF Bytes
<1>5. h[Ids(b)] <= g[Ids(b)]
  BY <1>1, <1>2, <1>3, <1>4, SumMonotone
<1>6. h[Ids(b)] \in Nat /\ g[Ids(b)] \in Nat
  BY <1>1, <1>2 DEF SumsTo
<1>. QED BY <1>1, <1>2, <1>5, <1>6, BoundsAssumption

BoundInv == DiskBound /\ (~up => Fits(buf))

LEMMA BufferFacts ==
    ASSUME OrderInv
    PROVE  IsBuffer(buf) /\ IsFiniteSet(Ids(buf)) /\ TotalBytes(buf) \in Nat /\ (up => RunOK(buf))
<1>1. PICK n \in Nat : n = nextRec + errs + stops
  BY InvFacts DEF OrderInv
<1>2. IsBuffer(buf) /\ Below(buf, n)
  BY <1>1, InvFacts DEF OrderInv
<1>3. IsFiniteSet(Ids(buf))
  BY <1>2, IdsAreFinite
<1>4. TotalBytes(buf) \in Nat
  BY <1>2, <1>3, TotalFewer, CellsType
<1>. QED BY <1>2, <1>3, <1>4 DEF OrderInv, LogInv

\* steps that count no more in any segment
LEMMA FewerBound ==
    ASSUME OrderInv, OrderInv', BoundInv, Ids(buf') \subseteq Ids(buf),
           \A i \in Ids(buf') : buf'.segs[i].bytes <= buf.segs[i].bytes
    PROVE  DiskBound'
<1>1. IsBuffer(buf) /\ IsFiniteSet(Ids(buf)) /\ IsBuffer(buf')
  BY BufferFacts DEF OrderInv, Inv, TypeOK
<1>2. TotalBytes(buf') \in Nat /\ TotalBytes(buf) \in Nat /\ TotalBytes(buf') <= TotalBytes(buf)
  BY <1>1, TotalFewer
<1>3. TotalBytes(buf') <= MaxBytes
  BY <1>2, BoundsAssumption DEF BoundInv, DiskBound
<1>. QED BY <1>3 DEF DiskBound

LEMMA ShrinkBound ==
    ASSUME OrderInv, OrderInv', BoundInv, up', Shrinks(buf, buf')
    PROVE  BoundInv'
<1>1. \A i \in Ids(buf') : buf'.segs[i].bytes <= buf.segs[i].bytes
  BY BufferFacts, CellsType DEF Shrinks
<1>2. DiskBound'
  BY <1>1, FewerBound DEF Shrinks
<1>. QED BY <1>2 DEF BoundInv

LEMMA SameBound ==
    ASSUME OrderInv, BoundInv, buf' = buf, up' = up
    PROVE  BoundInv'
<1>1. DiskBound' /\ (~up => Fits(buf'))
  BY DEF BoundInv, DiskBound
<1>. QED BY <1>1 DEF BoundInv

\* one write, to a segment that may be new
LEMMA WrittenTotal ==
    ASSUME NEW b, IsBuffer(b), IsFiniteSet(Ids(b)), NEW r, NEW a, Readies(b, r, a), IsBuffer(r),
           OpenActive(r), NEW c, IsBuffer(c), NEW n \in Nat, Ids(c) = Ids(r),
           \A i \in Ids(r) \ {r.active} : c.segs[i].bytes = r.segs[i].bytes,
           c.segs[r.active].bytes = r.segs[r.active].bytes + n
    PROVE  TotalBytes(c) <= TotalBytes(b) + n
<1>1. PICK x : x = r.active /\ x \in Ids(r) /\ x \in Ids(c)
  BY ActiveId
<1>2. Ids(c) \subseteq Ids(b) \cup {x}
  BY <1>1 DEF Readies
<1>3. \A i \in Ids(c) \ {x} : i \in Ids(b) /\ c.segs[i].bytes = b.segs[i].bytes
  BY <1>1, <1>2 DEF Readies
<1>4. \A i \in Ids(c) \ {x} : c.segs[i].bytes <= b.segs[i].bytes
  BY <1>3, CellsType
<1>5. r.segs[x].bytes = IF x \in Ids(b) THEN b.segs[x].bytes ELSE 0
  <2>1. CASE r = b
    BY <1>1, <2>1
  <2>2. CASE r # b
    <3>1. x = a /\ x \notin Ids(b) /\ r.segs[x].bytes = 0
      BY <1>1, <2>2, CellsType DEF Readies
    <3>. QED BY <3>1
  <2>. QED BY <2>1, <2>2
<1>6. PICK m \in Nat : m = IF x \in Ids(b) THEN b.segs[x].bytes ELSE 0
  BY CellsType
<1>7. c.segs[x].bytes <= m + n
  BY <1>1, <1>5, <1>6
<1>8. c.segs[x].bytes <= (IF x \in Ids(b) THEN b.segs[x].bytes ELSE 0) + n
  BY <1>6, <1>7
<1>. QED BY <1>1, <1>2, <1>4, <1>8, TotalMore

LEMMA WriteBound ==
    ASSUME OrderInv, BoundInv, up, NEW n \in Sizes, NEW k \in Nat, ~Full(AfterEvict(n), n)
    PROVE  /\ TotalBytes(SealIfFull(WriteFrame(EnsureActive(AfterEvict(n)), nextRec, n, clock))) <= MaxBytes
           /\ TotalBytes(WriteTorn(EnsureActive(AfterEvict(n)), k)) <= MaxBytes
<1>1. PICK b : b = AfterEvict(n)
  OBVIOUS
<1>2. PICK m \in Nat \ {0} : m = nextRec + errs + stops
  BY InvFacts DEF OrderInv
<1>3. IsBuffer(b) /\ Below(b, m)
  BY <1>1, <1>2, RoomLog DEF OrderInv
<1>4. IsFiniteSet(Ids(b)) /\ TotalBytes(b) \in Nat
  <2>1. IsFiniteSet(Ids(b))
    BY <1>3, IdsAreFinite
  <2>. QED BY <1>3, <2>1, TotalFewer, CellsType
<1>5. n \in Nat /\ nextRec \in Nat /\ clock \in Nat
  BY SizesAssumption DEF OrderInv, Inv, TypeOK
<1>6. TotalBytes(b) + n <= MaxBytes
  BY <1>1, <1>4, <1>5, BoundsAssumption DEF Full
<1>7. PICK r : r = EnsureActive(b)
  OBVIOUS
<1>8. PICK a : Readies(b, r, a)
  BY <1>2, <1>3, <1>7, EnsureReadies
<1>9. IsBuffer(r) /\ OpenActive(r)
  BY <1>2, <1>3, <1>7, EnsureActiveType DEF OpenActive
<1>10. TotalBytes(SealIfFull(WriteFrame(r, nextRec, n, clock))) <= MaxBytes
  <2>1. PICK w : w = WriteFrame(r, nextRec, n, clock)
    OBVIOUS
  <2>2. Grows(r, w, nextRec, n) /\ w.segs[r.active].bytes = r.segs[r.active].bytes + n
    BY <1>5, <1>9, <2>1, WriteFrameGrows
  <2>3. IsBuffer(w)
    BY <1>5, <1>9, <2>1, WriteFrameType DEF OpenActive
  <2>4. OpenActive(w) /\ w.active = r.active
    BY <2>2 DEF Grows
  <2>5. PICK c : c = SealIfFull(w)
    OBVIOUS
  <2>6. IsBuffer(c) /\ SameFiles(w, c) /\ SameBytes(w, c)
    BY <2>3, <2>4, <2>5, SealSame
  <2>7. Ids(c) = Ids(r) /\ \A i \in Ids(r) : c.segs[i].bytes = w.segs[i].bytes
    BY <2>2, <2>6 DEF SameFiles, SameBytes, Grows
  <2>8. r.active \in Ids(r)
    BY <1>9, ActiveId
  <2>9. \A i \in Ids(r) \ {r.active} : c.segs[i].bytes = r.segs[i].bytes
    BY <2>2, <2>7 DEF Grows
  <2>10. c.segs[r.active].bytes = r.segs[r.active].bytes + n
    BY <2>2, <2>7, <2>8
  <2>11. TotalBytes(c) <= TotalBytes(b) + n
    BY <1>3, <1>4, <1>5, <1>8, <1>9, <2>6, <2>7, <2>9, <2>10, WrittenTotal
  <2>12. IsFiniteSet(Ids(c)) /\ TotalBytes(c) \in Nat
    <3>1. IsFiniteSet(Ids(b) \cup {r.active})
      BY <1>4, FS_AddElement
    <3>2. Ids(c) \subseteq Ids(b) \cup {r.active}
      BY <1>8, <2>7 DEF Readies
    <3>3. IsFiniteSet(Ids(c))
      BY <3>1, <3>2, FS_Subset
    <3>. QED BY <2>6, <3>3, TotalFewer, CellsType
  <2>. QED BY <1>4, <1>5, <1>6, <2>1, <2>5, <2>11, <2>12, BoundsAssumption
<1>11. TotalBytes(WriteTorn(r, k)) <= MaxBytes
  <2>1. PICK c : c = WriteTorn(r, k)
    OBVIOUS
  <2>2. Grows(r, c, 0, k) /\ c.segs[r.active].bytes = r.segs[r.active].bytes
    BY <1>9, <2>1, WriteTornGrows
  <2>3. IsBuffer(c)
    BY <1>9, <2>1, WriteTornType DEF OpenActive
  <2>4. r.active \in Ids(r)
    BY <1>9, ActiveId
  <2>5. Ids(c) = Ids(r) /\ \A i \in Ids(r) \ {r.active} : c.segs[i].bytes = r.segs[i].bytes
    BY <2>2 DEF Grows
  <2>6. c.segs[r.active].bytes = r.segs[r.active].bytes + 0
    BY <1>9, <2>2, <2>4, CellsType
  <2>7. TotalBytes(c) <= TotalBytes(b) + 0
    BY <1>3, <1>4, <1>8, <1>9, <2>3, <2>5, <2>6, WrittenTotal
  <2>8. IsFiniteSet(Ids(c)) /\ TotalBytes(c) \in Nat
    <3>1. IsFiniteSet(Ids(b) \cup {r.active})
      BY <1>4, FS_AddElement
    <3>2. Ids(c) \subseteq Ids(b) \cup {r.active}
      BY <1>8, <2>5 DEF Readies
    <3>3. IsFiniteSet(Ids(c))
      BY <3>1, <3>2, FS_Subset
    <3>. QED BY <2>3, <3>3, TotalFewer, CellsType
  <2>. QED BY <1>4, <1>5, <1>6, <2>1, <2>7, <2>8, BoundsAssumption
<1>. QED BY <1>1, <1>7, <1>10, <1>11

\* files without a process count nothing
LEMMA OnDiskCounts ==
    ASSUME NEW b, IsBuffer(b), NEW i \in Ids(b)
    PROVE  OnDisk(b).segs[i].bytes = 0
<1>. DEFINE segs == [j \in Ids(b) |-> [b.segs[j] EXCEPT !.bytes = 0, !.sealed = FALSE,
                                                        !.open = FALSE, !.oldest = 0]]
<1>1. segs[i].bytes = 0
  BY DEF IsBuffer, Segment
<1>2. OnDisk(b).segs = segs
  BY DEF OnDisk
<1>. QED BY <1>1, <1>2

LEMMA PowerCutCounts ==
    ASSUME NEW b, IsBuffer(b), NEW k, NEW i \in Ids(b)
    PROVE  PowerCut(b, k).segs[i].bytes = 0
<1>. DEFINE d == OnDisk(b)
            segs == [j \in Ids(b) |->
                [d.segs[j] EXCEPT !.cells = SubSeq(b.segs[j].cells, 1, KeptLen(b.segs[j], k))]]
<1>1. d.segs[i] \in Segment /\ d.segs[i].bytes = 0
  BY OnDiskFields, OnDiskCounts DEF IsBuffer
<1>2. d = [segs |-> d.segs, active |-> 0, cursorSeg |-> 0, cursorOff |-> 0]
  BY DEF OnDisk
<1>. HIDE DEF d
<1>3. segs[i].bytes = 0
  BY <1>1 DEF Segment
<1>4. PowerCut(b, k) = [d EXCEPT !.segs = segs]
  BY DEF PowerCut, d
<1>. HIDE DEF segs
<1>5. PowerCut(b, k).segs = segs
  BY <1>2, <1>4
<1>. QED BY <1>3, <1>5

LEMMA UpFits ==
    ASSUME OrderInv, BoundInv, up
    PROVE  Fits(buf)
BY BufferFacts, RunFits DEF BoundInv, DiskBound

LEMMA StopBound ==
    ASSUME OrderInv, OrderInv', BoundInv, up, Ids(buf') = Ids(buf), Fits(buf'),
           \A i \in Ids(buf) : buf'.segs[i].bytes = 0
    PROVE  BoundInv'
<1>1. \A i \in Ids(buf') : buf'.segs[i].bytes <= buf.segs[i].bytes
  BY BufferFacts, CellsType
<1>2. DiskBound'
  BY <1>1, FewerBound
<1>. QED BY <1>2 DEF BoundInv

LEMMA KillBound ==
    ASSUME OrderInv, OrderInv', BoundInv, Kill
    PROVE  BoundInv'
<1>1. IsBuffer(buf) /\ IsBuffer(buf') /\ SameFiles(buf, buf') /\ up
  BY KillFiles, BufferFacts DEF OrderInv, Kill
<1>2. Fits(buf')
  BY <1>1, UpFits, SameFits
<1>3. \A i \in Ids(buf) : buf'.segs[i].bytes = 0
  BY <1>1, OnDiskCounts DEF Kill
<1>. QED BY <1>1, <1>2, <1>3, StopBound DEF SameFiles

LEMMA CloseBound ==
    ASSUME OrderInv, OrderInv', BoundInv, Close
    PROVE  BoundInv'
<1>1. IsBuffer(buf) /\ IsBuffer(buf') /\ SameFiles(buf, buf') /\ up
  BY CloseFiles, BufferFacts DEF OrderInv, Close
<1>2. Fits(buf')
  BY <1>1, UpFits, SameFits
<1>3. PICK c : c = SyncActive(buf)
  OBVIOUS
<1>4. IsBuffer(c) /\ Ids(c) = Ids(buf) /\ buf' = OnDisk(c)
  BY <1>1, <1>3, SyncSame DEF SameFiles, Close, Closed
<1>5. \A i \in Ids(buf) : buf'.segs[i].bytes = 0
  BY <1>4, OnDiskCounts
<1>. QED BY <1>1, <1>2, <1>5, StopBound DEF SameFiles

LEMMA PowerFailBound ==
    ASSUME OrderInv, OrderInv', BoundInv, NEW k \in 0 .. MaxBytes, PowerFail(k)
    PROVE  BoundInv'
<1>1. IsBuffer(buf) /\ IsBuffer(buf') /\ Cuts(buf, buf') /\ up
  BY PowerFailFiles, BufferFacts DEF OrderInv, PowerFail
<1>2. Fits(buf')
  BY <1>1, UpFits, CutFits DEF Cuts
<1>3. \A i \in Ids(buf) : buf'.segs[i].bytes = 0
  BY <1>1, PowerCutCounts DEF PowerFail
<1>. QED BY <1>1, <1>2, <1>3, StopBound DEF Cuts

LEMMA KillInAppendBound ==
    ASSUME OrderInv, OrderInv', BoundInv, NEW n \in Sizes, NEW k \in 0 .. (n - 1), KillInAppend(n, k)
    PROVE  BoundInv'
<1>1. PICK w : /\ Appended(AfterEvict(n), w, 0)
               /\ w = WriteTorn(EnsureActive(AfterEvict(n)), k)
               /\ IsBuffer(buf') /\ SameFiles(w, buf')
  BY KilledFiles DEF OrderInv
<1>2. TotalBytes(w) <= MaxBytes
  <2>1. k \in Nat /\ up /\ ~Full(AfterEvict(n), n)
    BY DEF KillInAppend
  <2>. QED BY <1>1, <2>1, WriteBound
<1>3. IsBuffer(w) /\ RunOK(w) /\ Ids(buf') = Ids(w) /\ buf' = OnDisk(w)
  BY <1>1 DEF Appended, SameFiles, KillInAppend
<1>4. PICK m \in Nat : m = nextRec' + errs' + stops'
  <2>1. nextRec' \in Nat /\ errs' \in Nat /\ stops' \in Nat
    BY DEF OrderInv, Inv, TypeOK
  <2>2. PICK x \in Nat, y \in Nat, z \in Nat : x = nextRec' /\ y = errs' /\ z = stops'
    BY <2>1
  <2>3. PICK m \in Nat : m = x + y + z
    OBVIOUS
  <2>. QED BY <2>2, <2>3
<1>5. IsFiniteSet(Ids(w))
  <2>1. Below(buf', m)
    BY <1>4 DEF OrderInv, Inv, TypeOK, Below
  <2>2. IsFiniteSet(Ids(buf'))
    BY <1>1, <1>4, <2>1, IdsAreFinite
  <2>. QED BY <1>3, <2>2
<1>6. Fits(w)
  BY <1>2, <1>3, <1>5, RunFits
<1>7. Fits(buf')
  BY <1>1, <1>3, <1>6, SameFits
<1>8. \A i \in Ids(buf') : buf'.segs[i].bytes = 0 /\ w.segs[i].bytes \in Nat
  BY <1>3, OnDiskCounts, CellsType
<1>9. \A i \in Ids(buf') : buf'.segs[i].bytes <= w.segs[i].bytes
  BY <1>8
<1>10. TotalBytes(buf') \in Nat /\ TotalBytes(w) \in Nat /\ TotalBytes(buf') <= TotalBytes(w)
  BY <1>1, <1>3, <1>5, <1>9, TotalFewer
<1>11. TotalBytes(buf') <= MaxBytes
  BY <1>2, <1>10, BoundsAssumption
<1>. QED BY <1>7, <1>11 DEF BoundInv, DiskBound

LEMMA OpenBound ==
    ASSUME OrderInv, OrderInv', BoundInv, Open
    PROVE  BoundInv'
<1>1. IsBuffer(buf) /\ IsBuffer(buf') /\ Cuts(buf, buf') /\ ~up /\ up' /\ IsFiniteSet(Ids(buf))
  BY OpenFiles, BufferFacts DEF OrderInv, Open
<1>2. \A i \in Ids(buf) : buf'.segs[i].bytes = GoodLen(Cells(buf, i))
  <2>1. PICK cur \in Nat \X Nat : cur = saved
    BY InvFacts DEF OrderInv
  <2>2. buf' = Recover(buf, cur)
    BY <2>1 DEF Open
  <2>3. \A i \in Ids(buf) : buf.segs[i].synced <= Len(Cells(buf, i))
    BY InvFacts DEF OrderInv
  <2>. QED BY <1>1, <2>2, <2>3, RecoverCuts
<1>3. TotalBytes(buf') <= MaxBytes
  BY <1>1, <1>2, RecoveredFits DEF BoundInv, Cuts
<1>. QED BY <1>1, <1>3 DEF BoundInv, DiskBound

LEMMA InitBound == Init => BoundInv
<1>. SUFFICES ASSUME Init PROVE BoundInv
  OBVIOUS
<1>1. Ids(buf) = {} /\ IsBuffer(buf) /\ up
  BY InitOrder DEF Init, Ids, OrderInv, Inv, TypeOK
<1>2. IsFiniteSet({})
  BY FS_EmptySet
<1>3. PICK h : SumsTo(h, Ids(buf), Bytes(buf)) /\ TotalBytes(buf) = h[Ids(buf)]
  BY <1>1, <1>2, TotalIsSum
<1>4. TotalBytes(buf) = 0
  BY <1>1, <1>3 DEF SumsTo
<1>. QED BY <1>1, <1>4, BoundsAssumption DEF BoundInv, DiskBound

LEMMA AppendBound ==
    ASSUME OrderInv, OrderInv', BoundInv, NEW n \in Sizes,
           AppendOk(n) \/ \E k \in 0 .. (n - 1) : AppendFails(n, k)
    PROVE  BoundInv'
<1>1. up /\ up' /\ ~Full(AfterEvict(n), n)
  BY DEF AppendOk, AppendFails
<1>2. CASE AppendOk(n)
  <2>1. 0 \in Nat
    OBVIOUS
  <2>2. TotalBytes(buf') <= MaxBytes
    BY <1>1, <1>2, <2>1, WriteBound DEF AppendOk
  <2>. QED BY <1>1, <2>2 DEF BoundInv, DiskBound
<1>3. ASSUME NEW k \in 0 .. (n - 1), AppendFails(n, k)
      PROVE  BoundInv'
  <2>1. k \in Nat
    OBVIOUS
  <2>2. TotalBytes(buf') <= MaxBytes
    BY <1>1, <1>3, <2>1, WriteBound DEF AppendFails
  <2>. QED BY <1>1, <2>2 DEF BoundInv, DiskBound
<1>. QED BY <1>2, <1>3

\* an append that is refused, an expiry or an acknowledgement only takes segments away
LEMMA DropBound ==
    ASSUME OrderInv, OrderInv', BoundInv,
           \/ \E n \in Sizes : AppendFull(n)
           \/ EvictExpired
           \/ \E d \in Readers : \E k \in Nat : AckAt(d, k) \/ AckFails(d, k)
    PROVE  BoundInv'
<1>1. CASE \E n \in Sizes : AppendFull(n)
  <2>1. PICK n \in Sizes : AppendFull(n)
    BY <1>1
  <2>2. Shrinks(buf, buf') /\ up'
    BY <2>1, MakeRoom DEF OrderInv, AppendFull
  <2>. QED BY <2>2, ShrinkBound
<1>2. CASE EvictExpired
  <2>1. PICK m \in Nat : m = nextRec + errs + stops
    BY InvFacts DEF OrderInv
  <2>2. IsBuffer(buf) /\ Below(buf, m)
    BY <2>1, InvFacts DEF OrderInv
  <2>3. Shrinks(buf, buf') /\ up'
    BY <1>2, <2>1, <2>2, DropExpiredType DEF EvictExpired
  <2>. QED BY <2>3, ShrinkBound
<1>3. CASE \E d \in Readers : \E k \in Nat : AckAt(d, k) \/ AckFails(d, k)
  <2>1. PICK d \in Readers, k \in Nat : AckAt(d, k) \/ AckFails(d, k)
    BY <1>3
  <2>2. CASE AckAt(d, k)
    <3>1. Shrinks(buf, buf') /\ up'
      BY <2>2, AckShrinks DEF OrderInv, AckAt, AckEntry
    <3>. QED BY <3>1, ShrinkBound
  <2>3. CASE AckFails(d, k)
    <3>1. Shrinks(buf, buf') /\ up'
      BY <2>3, CursorMoved DEF OrderInv, AckFails
    <3>. QED BY <3>1, ShrinkBound
  <2>. QED BY <2>1, <2>2, <2>3
<1>. QED BY <1>1, <1>2, <1>3

LEMMA SyncBound ==
    ASSUME OrderInv, OrderInv', BoundInv, Sync
    PROVE  BoundInv'
<1>1. SameFiles(buf, buf') /\ SameBytes(buf, buf') /\ up'
  BY SyncSame, InvFacts DEF Sync, OrderInv
<1>2. \A i \in Ids(buf') : buf'.segs[i].bytes <= buf.segs[i].bytes
  BY <1>1, BufferFacts, CellsType DEF SameFiles, SameBytes
<1>3. DiskBound'
  BY <1>1, <1>2, FewerBound DEF SameFiles
<1>. QED BY <1>1, <1>3 DEF BoundInv

LEMMA NextBound == OrderInv /\ BoundInv /\ [Next]_vars => BoundInv'
<1>. SUFFICES ASSUME OrderInv, BoundInv, [Next]_vars PROVE BoundInv'
  OBVIOUS
<1>0. OrderInv'
  BY NextOrder
<1>1. CASE \E n \in Sizes : AppendOk(n) \/ \E k \in 0..(n - 1) : AppendFails(n, k)
  BY <1>0, <1>1, AppendBound
<1>2. CASE \E n \in Sizes : \E k \in 0..(n - 1) : KillInAppend(n, k)
  BY <1>0, <1>2, KillInAppendBound
<1>3. CASE (\E n \in Sizes : AppendFull(n)) \/ EvictExpired
  BY <1>0, <1>3, DropBound
<1>4. CASE Sync
  BY <1>0, <1>4, SyncBound
<1>5. CASE \E d \in Readers : PeekAfter(d) \/ Abandon(d)
  BY <1>5, SameBound DEF PeekAfter, Abandon, bufVars
<1>6. CASE \E d \in Readers : Ack(d) \/ \E k \in 1..BatchSize : DeadLetter(d, k) \/ AckFails(d, k)
  <2>1. \E d \in Readers : \E k \in Nat : AckAt(d, k) \/ AckFails(d, k)
    BY <1>6, AckIsAt, BoundsAssumption DEF OrderInv
  <2>. QED BY <1>0, <2>1, DropBound
<1>7. CASE Close
  BY <1>0, <1>7, CloseBound
<1>8. CASE Kill
  BY <1>0, <1>8, KillBound
<1>9. CASE Open
  BY <1>0, <1>9, OpenBound
<1>10. CASE \E k \in 0..MaxBytes : PowerFail(k)
  BY <1>0, <1>10, PowerFailBound
<1>11. CASE Tick
  BY <1>11, SameBound DEF Tick, bufVars
<1>12. CASE UNCHANGED vars
  BY <1>12, SameBound DEF vars, bufVars
<1>. QED BY <1>1, <1>2, <1>3, <1>4, <1>5, <1>6, <1>7, <1>8, <1>9, <1>10, <1>11, <1>12 DEF Next

(***************************************************************************)
(* Buffer.totalBytes stays within Options.MaxBytes over appends, failed    *)
(* writes, evictions, crashes and recoveries: Append makes room before it  *)
(* writes, a failed or interrupted write is not counted, and what recovery *)
(* counts anew is no more than the process before it had counted.          *)
(***************************************************************************)
THEOREM DiskIsBounded == Spec => []DiskBound
<1>1. OrderInv /\ BoundInv => DiskBound
  BY DEF BoundInv
<1>. QED BY <1>1, InitOrder, NextOrder, InitBound, NextBound, PTL DEF Spec
=============================================================================
