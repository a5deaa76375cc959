--------------------------- MODULE DeliveryProofs ---------------------------
(***************************************************************************)
(* What modules LakeSink and Delivery promise for any number of callers,   *)
(* records and partitions, any batch size and number of attempts, and any  *)
(* number of failing operations, graceful shutdowns and kills.             *)
(***************************************************************************)
EXTENDS Delivery, SequenceFacts

-----------------------------------------------------------------------------
(* The lake sink. *)

PCs == {"idle", "exists", "blob", "table", "add", "put"}
PartRows == [rows : Seq(Recs), aged : BOOLEAN]
Flushes == [batch : Nat, taken : [Parts -> PartRows], todo : SUBSET (Parts \X {1, 2})]
Files == [batch : Nat, part : Parts, table : {1, 2}, rows : SUBSET Recs]

SinkType ==
    /\ pending \in [Parts -> PartRows]
    /\ pc \in [Callers -> PCs]
    /\ arg \in [Callers -> Recs \cup {0}]
    /\ flush \in [Callers -> Flushes]
    /\ nextBatch \in Nat \ {0}
    /\ files \in SUBSET Files

(* Who is in which part of a call: only a flush holds rows of its own. *)
CallInv ==
    \A c \in Callers :
        /\ pc[c] \in {"exists", "blob", "table", "add"} => arg[c] \in Recs
        /\ pc[c] # "put" => flush[c] = NoFlush

(* Batches are never used twice. *)
BatchInv ==
    /\ \A c \in Callers : pc[c] = "put" => flush[c].batch \in 1 .. nextBatch - 1
    /\ \A c, d \in Callers : c # d /\ pc[c] = "put" /\ pc[d] = "put" => flush[c].batch # flush[d].batch
    /\ \A f \in files : f.batch \in 1 .. nextBatch - 1

(* The files of a flush: those it has put and those it still has to put are the files of
   the partitions it took. *)
FlushInv ==
    /\ \A f \in files : <<f.part, f.table>> \in FilesOf(f.part)
    /\ \A c \in Callers : pc[c] = "put" =>
         /\ \A p \in Parts : flush[c].taken[p].rows # <<>> =>
              \A x \in FilesOf(p) : \/ x \in flush[c].todo
                                    \/ \E g \in Written(c) : g.part = x[1] /\ g.table = x[2]
         /\ \A x \in flush[c].todo : flush[c].taken[x[1]].rows # <<>> /\ x \in FilesOf(x[1])
         /\ \A g \in Written(c) : /\ flush[c].taken[g.part].rows # <<>>
                                  /\ g.rows = Range(flush[c].taken[g.part].rows)

(* A row is only ever buffered when its blob is in the store. *)
Resolved(r) == BlobOf[r] \in blobs \cup {0}

KnownInv ==
    /\ seen \subseteq blobs
    /\ \A c \in Callers : pc[c] \in {"table", "add"} => Resolved(arg[c])

BlobInv ==
    /\ KnownInv
    /\ \A r \in InMemory : Resolved(r)
    /\ \A f \in files : \A r \in f.rows : Resolved(r)

-----------------------------------------------------------------------------
(* Rows of a sequence. *)

LEMMA RangeEmpty == Range(<<>>) = {}
BY DEF Range

LEMMA RangeAppend ==
    ASSUME NEW S, NEW s \in Seq(S), NEW e \in S
    PROVE  Range(Append(s, e)) = Range(s) \cup {e}
<1> DEFINE t == Append(s, e)
<1>1. /\ DOMAIN s = 1 .. Len(s) /\ DOMAIN t = 1 .. Len(s) + 1 /\ Len(s) \in Nat
      /\ t[Len(s) + 1] = e /\ \A k \in 1 .. Len(s) : t[k] = s[k]
  OBVIOUS
<1> HIDE DEF t
<1>2. \A k \in 1 .. Len(s) + 1 : k \in 1 .. Len(s) \/ k = Len(s) + 1
  BY <1>1
<1>3. \A k \in 1 .. Len(s) : k \in 1 .. Len(s) + 1
  BY <1>1
<1>4. Len(s) + 1 \in 1 .. Len(s) + 1
  BY <1>1
<1>5. Range(t) = Range(s) \cup {e}
  BY <1>1, <1>2, <1>3, <1>4 DEF Range
<1> QED
  BY <1>5 DEF t

LEMMA RangeConcat ==
    ASSUME NEW S, NEW s \in Seq(S), NEW t \in Seq(S)
    PROVE  Range(s \o t) = Range(s) \cup Range(t)
<1> DEFINE u == s \o t
<1>1. /\ DOMAIN s = 1 .. Len(s) /\ DOMAIN t = 1 .. Len(t) /\ DOMAIN u = 1 .. Len(s) + Len(t)
      /\ Len(s) \in Nat /\ Len(t) \in Nat
  OBVIOUS
<1>2. /\ \A k \in 1 .. Len(s) : u[k] = s[k]
      /\ \A k \in 1 .. Len(t) : u[Len(s) + k] = t[k]
  OBVIOUS
<1> HIDE DEF u
<1>3. ASSUME NEW k \in 1 .. Len(s) + Len(t) PROVE u[k] \in Range(s) \cup Range(t)
  <2>1. CASE k <= Len(s)
    BY <1>1, <1>2, <2>1 DEF Range
  <2>2. CASE k > Len(s)
    <3>1. k - Len(s) \in 1 .. Len(t) /\ k = Len(s) + (k - Len(s))
      BY <1>1, <2>2
    <3> QED
      BY <1>1, <1>2, <3>1 DEF Range
  <2> QED
    BY <1>1, <2>1, <2>2
<1>4. ASSUME NEW k \in 1 .. Len(s) PROVE s[k] \in Range(u)
  <2>1. k \in 1 .. Len(s) + Len(t)
    BY <1>1
  <2> QED
    BY <1>1, <1>2, <2>1 DEF Range
<1>5. ASSUME NEW k \in 1 .. Len(t) PROVE t[k] \in Range(u)
  <2>1. Len(s) + k \in 1 .. Len(s) + Len(t)
    BY <1>1
  <2> QED
    BY <1>1, <1>2, <2>1 DEF Range
<1>6. Range(u) = Range(s) \cup Range(t)
  BY <1>1, <1>3, <1>4, <1>5 DEF Range
<1> QED
  BY <1>6 DEF u

LEMMA RangeInSet ==
    ASSUME NEW S, NEW s \in Seq(S)
    PROVE  Range(s) \subseteq S
BY DEF Range

(* The rows a of a partition that goes back, and the rows b that arrived meanwhile. *)
LEMMA RestoredRows ==
    ASSUME NEW a \in Seq(Recs), NEW b \in Seq(Recs), NEW d,
           (d = a /\ b = <<>>) \/ d = a \o b \/ d = b \o a
    PROVE  Range(d) = Range(a) \cup Range(b)
<1>1. CASE d = a /\ b = <<>>
  BY <1>1, RangeEmpty
<1>2. CASE d = a \o b
  BY <1>2, RangeConcat
<1>3. CASE d = b \o a
  <2>1. Range(d) = Range(b) \cup Range(a)
    BY <1>3, RangeConcat
  <2> QED
    BY <2>1
<1> QED
  BY <1>1, <1>2, <1>3

LEMMA RestoreType ==
    ASSUME NEW p, NEW part \in PartRows, NEW had \in PartRows
    PROVE  Restore(p, part, had) \in PartRows
<1>1. part.rows \in Seq(Recs) /\ had.rows \in Seq(Recs)
  BY DEF PartRows
<1>2. part.rows \o had.rows \in Seq(Recs) /\ had.rows \o part.rows \in Seq(Recs)
  BY <1>1
<1> QED
  BY <1>2 DEF Restore, PartRows

LEMMA NoFlushType == NoRows \in PartRows /\ NoFlush \in Flushes
<1>1. NoRows \in PartRows
  BY DEF NoRows, PartRows
<1> QED
  BY <1>1 DEF NoFlush, Flushes

LEMMA FilesOfType ==
    ASSUME NEW p \in Parts, NEW x \in FilesOf(p)
    PROVE  x \in Parts \X {1, 2} /\ x[1] = p
BY DEF FilesOf

-----------------------------------------------------------------------------
(* Calls and flushes. *)

SinkInv == SinkType /\ CallInv /\ BatchInv /\ FlushInv

LEMMA InitSink == SinkInit => SinkInv
<1> SUFFICES ASSUME SinkInit PROVE SinkInv
  OBVIOUS
<1>1. SinkType
  BY NoFlushType DEF SinkInit, SinkType, PCs
<1>2. CallInv /\ BatchInv /\ FlushInv
  BY DEF SinkInit, CallInv, BatchInv, FlushInv
<1> QED
  BY <1>1, <1>2 DEF SinkInv

(* A caller that is in no flush afterwards leaves the flushes of the others alone. *)
LEMMA NotInFlush ==
    ASSUME SinkInv, NEW c \in Callers, NEW w \in PCs \ {"put"},
           pc' = [pc EXCEPT ![c] = w], flush' = [flush EXCEPT ![c] = NoFlush],
           UNCHANGED <<nextBatch, files>>
    PROVE  /\ pc' \in [Callers -> PCs] /\ flush' \in [Callers -> Flushes]
           /\ \A d \in Callers : pc'[d] # "put" => flush'[d] = NoFlush
           /\ BatchInv' /\ FlushInv'
<1> USE DEF SinkInv, SinkType
<1>1. pc' \in [Callers -> PCs] /\ flush' \in [Callers -> Flushes]
  BY NoFlushType
<1>2. pc'[c] # "put" /\ flush'[c] = NoFlush
      /\ \A d \in Callers \ {c} : pc'[d] = pc[d] /\ flush'[d] = flush[d]
  OBVIOUS
<1>3. \A d \in Callers : pc'[d] # "put" => flush'[d] = NoFlush
  BY <1>2 DEF CallInv
<1>4. BatchInv'
  BY <1>2 DEF BatchInv
<1>5. FlushInv'
  BY <1>2 DEF FlushInv, Written
<1> QED
  BY <1>1, <1>3, <1>4, <1>5

(* A step of Write. *)
LEMMA WriteStep ==
    ASSUME SinkInv, NEW c \in Callers,
           (\E r \in Recs : Write(c, r)) \/ BlobExists(c) \/ PutBlob(c) \/ PutBlobTable(c)
           \/ WriteFails(c)
    PROVE  SinkInv' /\ UNCHANGED <<pending, flush, files, manifests, sinkHist>>
<1> USE DEF SinkInv, SinkType
<1>1. UNCHANGED <<pending, flush, nextBatch, files, manifests, sinkHist>>
  BY DEF Write, BlobExists, PutBlob, PutBlobTable, WriteFails, sinkMem, storeVars
<1>2. pc[c] # "put"
  BY DEF Write, BlobExists, PutBlob, PutBlobTable, WriteFails
<1>3. \E w \in PCs \ {"put"} : pc' = [pc EXCEPT ![c] = w]
  BY DEF Write, BlobExists, PutBlob, PutBlobTable, WriteFails, Return, Goto, PCs
<1>4. flush' = [flush EXCEPT ![c] = NoFlush]
  BY <1>1, <1>2 DEF CallInv
<1>5. arg' \in [Callers -> Recs \cup {0}]
  BY DEF Write, BlobExists, PutBlob, PutBlobTable, WriteFails, Return
<1>6. \A d \in Callers : pc'[d] \in {"exists", "blob", "table", "add"} => arg'[d] \in Recs
  BY DEF CallInv, Write, BlobExists, PutBlob, PutBlobTable, WriteFails, Return, Goto
<1>7. /\ pc' \in [Callers -> PCs] /\ flush' \in [Callers -> Flushes]
      /\ \A d \in Callers : pc'[d] # "put" => flush'[d] = NoFlush
      /\ BatchInv' /\ FlushInv'
  BY <1>1, <1>3, <1>4, NotInFlush
<1> QED
  BY <1>1, <1>5, <1>6, <1>7 DEF CallInv, sinkHist

LEMMA AddRowStep ==
    ASSUME SinkInv, NEW c \in Callers, AddRow(c)
    PROVE  SinkInv'
<1> USE DEF SinkInv, SinkType
<1>1. arg[c] \in Recs /\ pc[c] # "put"
  BY DEF AddRow, CallInv
<1>2. PartOf[arg[c]] \in Parts
  BY <1>1, PartsAssumption
<1>3. pending' \in [Parts -> PartRows]
  <2>1. pending' = [pending EXCEPT ![PartOf[arg[c]]] =
                       [pending[PartOf[arg[c]]] EXCEPT !.rows = Append(pending[PartOf[arg[c]]].rows, arg[c])]]
    BY DEF AddRow
  <2>2. Append(pending[PartOf[arg[c]]].rows, arg[c]) \in Seq(Recs)
    BY <1>1, <1>2 DEF PartRows
  <2>3. [pending[PartOf[arg[c]]] EXCEPT !.rows = Append(pending[PartOf[arg[c]]].rows, arg[c])] \in PartRows
    BY <1>2, <2>2 DEF PartRows
  <2> QED
    BY <1>2, <2>1, <2>3
<1>4. UNCHANGED <<flush, nextBatch, files>> /\ pc' = [pc EXCEPT ![c] = "idle"]
      /\ arg' = [arg EXCEPT ![c] = 0]
  BY DEF AddRow, Return, Goto, storeVars
<1>5. flush' = [flush EXCEPT ![c] = NoFlush] /\ "idle" \in PCs \ {"put"}
  BY <1>1, <1>4 DEF CallInv, PCs
<1>6. /\ pc' \in [Callers -> PCs] /\ flush' \in [Callers -> Flushes]
      /\ \A d \in Callers : pc'[d] # "put" => flush'[d] = NoFlush
      /\ BatchInv' /\ FlushInv'
  BY <1>4, <1>5, NotInFlush
<1>7. CallInv'
  BY <1>4, <1>6 DEF CallInv
<1> QED
  BY <1>3, <1>4, <1>6, <1>7

(* The critical section of a flush. *)
LEMMA FlushStep ==
    ASSUME SinkInv, NEW c \in Callers, NEW force \in BOOLEAN, Flush(c, force)
    PROVE  SinkInv'
<1> USE DEF SinkInv, SinkType
<1>1. UNCHANGED files /\ pc[c] = "idle"
  BY DEF Flush, storeVars
<1>2. CASE Due(force) = {}
  <2>1. UNCHANGED <<pending, flush, nextBatch>> /\ pc' = [pc EXCEPT ![c] = "idle"]
        /\ arg' = [arg EXCEPT ![c] = 0]
    BY <1>2 DEF Flush, Return, Goto
  <2>2. flush' = [flush EXCEPT ![c] = NoFlush] /\ "idle" \in PCs \ {"put"}
    BY <1>1, <2>1 DEF CallInv, PCs
  <2>3. /\ pc' \in [Callers -> PCs] /\ flush' \in [Callers -> Flushes]
        /\ \A d \in Callers : pc'[d] # "put" => flush'[d] = NoFlush
        /\ BatchInv' /\ FlushInv'
    BY <1>1, <2>1, <2>2, NotInFlush
  <2> QED
    BY <1>1, <2>1, <2>3 DEF CallInv
<1>3. CASE Due(force) # {}
  <2> DEFINE taken == [p \in Parts |-> IF p \in Due(force) THEN pending[p] ELSE NoRows]
             todo == UNION {FilesOf(p) : p \in Due(force)}
             fl == [batch |-> nextBatch, taken |-> taken, todo |-> todo]
  <2>1. /\ flush' = [flush EXCEPT ![c] = fl] /\ pc' = [pc EXCEPT ![c] = "put"]
        /\ nextBatch' = nextBatch + 1 /\ UNCHANGED arg /\ pending' = NotDue(force)
    BY <1>3 DEF Flush, Goto, NewID
  <2>2. taken \in [Parts -> PartRows] /\ pending' \in [Parts -> PartRows]
    BY <2>1, NoFlushType DEF NotDue
  <2>3. \A x \in todo : x \in Parts \X {1, 2} /\ x[1] \in Due(force) /\ x \in FilesOf(x[1])
    <3> SUFFICES ASSUME NEW p \in Due(force), NEW x \in FilesOf(p)
                 PROVE  x \in Parts \X {1, 2} /\ x[1] \in Due(force) /\ x \in FilesOf(x[1])
      OBVIOUS
    <3> QED
      BY FilesOfType DEF Due
  <2>4. \A p \in Parts : taken[p].rows # <<>> => p \in Due(force)
    BY DEF NoRows
  <2>5. \A p \in Due(force) : taken[p].rows # <<>> /\ FilesOf(p) \subseteq todo
    BY DEF Due
  <2>6. fl \in Flushes /\ fl.batch = nextBatch /\ fl.taken = taken /\ fl.todo = todo
    BY <2>2, <2>3 DEF Flushes
  <2> HIDE DEF fl, taken, todo
  <2>7. flush' \in [Callers -> Flushes] /\ pc' \in [Callers -> PCs] /\ pc'[c] = "put" /\ flush'[c] = fl
        /\ \A d \in Callers \ {c} : pc'[d] = pc[d] /\ flush'[d] = flush[d]
    BY <2>1, <2>6 DEF PCs
  <2>8. SinkType' /\ CallInv'
    BY <1>1, <2>1, <2>2, <2>7 DEF CallInv
  <2>9. \A f \in files : f.batch # nextBatch
    BY DEF BatchInv
  <2>10. \A d \in Callers \ {c} : pc[d] = "put" => flush[d].batch # nextBatch
    BY DEF BatchInv
  <2>11. BatchInv'
    BY <1>1, <2>1, <2>6, <2>7, <2>9, <2>10 DEF BatchInv
  <2>12. FlushInv'
    BY <1>1, <2>3, <2>4, <2>5, <2>6, <2>7, <2>9 DEF FlushInv, Written
  <2> QED
    BY <2>8, <2>11, <2>12
<1> QED
  BY <1>2, <1>3

(* A file of a flush is written. *)
LEMMA PutFileStep ==
    ASSUME SinkInv, NEW c \in Callers, PutFile(c)
    PROVE  SinkInv' /\ \A d \in Callers : flush'[d].taken = flush[d].taken
<1> USE DEF SinkInv, SinkType
<1>1. PICK f \in flush[c].todo :
        /\ files' = files \cup {[batch |-> flush[c].batch, part |-> f[1], table |-> f[2],
                                  rows |-> Range(flush[c].taken[f[1]].rows)]}
        /\ flush' = [flush EXCEPT ![c].todo = flush[c].todo \ {f}]
  BY DEF PutFile
<1>2. UNCHANGED <<pending, nextBatch, pc, arg>> /\ pc[c] = "put"
  BY DEF PutFile, callVars
<1>3. flush[c] \in Flushes /\ f \in Parts \X {1, 2} /\ f[1] \in Parts /\ f[2] \in {1, 2}
      /\ f = <<f[1], f[2]>>
  BY DEF Flushes
<1> DEFINE new == [batch |-> flush[c].batch, part |-> f[1], table |-> f[2],
                   rows |-> Range(flush[c].taken[f[1]].rows)]
<1>4. flush[c].taken[f[1]].rows \in Seq(Recs)
  BY <1>3 DEF Flushes, PartRows
<1>5. new \in Files
  BY <1>3, <1>4, RangeInSet DEF Files, Flushes
<1>6. new.batch = flush[c].batch /\ new.part = f[1] /\ new.table = f[2]
      /\ new.rows = Range(flush[c].taken[f[1]].rows)
  OBVIOUS
<1>7. files' = files \cup {new}
  BY <1>1
<1> HIDE DEF new
<1>8. flush' \in [Callers -> Flushes]
      /\ flush'[c].taken = flush[c].taken /\ flush'[c].batch = flush[c].batch
      /\ flush'[c].todo = flush[c].todo \ {f}
      /\ \A d \in Callers \ {c} : flush'[d] = flush[d]
  BY <1>1, <1>3 DEF Flushes
<1>9. SinkType' /\ CallInv'
  BY <1>2, <1>5, <1>7, <1>8 DEF CallInv
<1>10. BatchInv'
  BY <1>2, <1>6, <1>7, <1>8 DEF BatchInv
<1>11. flush[c].taken[f[1]].rows # <<>> /\ f \in FilesOf(f[1])
  BY <1>2 DEF FlushInv
<1>12. Written(c)' = Written(c) \cup {new}
  BY <1>6, <1>7, <1>8 DEF Written
<1>13. \A d \in Callers \ {c} : pc[d] = "put" => Written(d)' = Written(d)
  <2>1. \A d \in Callers \ {c} : pc[d] = "put" => flush[d].batch # new.batch
    BY <1>2, <1>6 DEF BatchInv
  <2> QED
    BY <1>7, <1>8, <2>1 DEF Written
<1>14. \A g \in files' : <<g.part, g.table>> \in FilesOf(g.part)
  BY <1>3, <1>6, <1>7, <1>11 DEF FlushInv
<1>15. ASSUME NEW d \in Callers, pc[d] = "put", d # c
       PROVE  /\ \A p \in Parts : flush'[d].taken[p].rows # <<>> =>
                   \A x \in FilesOf(p) : \/ x \in flush'[d].todo
                                         \/ \E g \in Written(d)' : g.part = x[1] /\ g.table = x[2]
              /\ \A x \in flush'[d].todo : flush'[d].taken[x[1]].rows # <<>> /\ x \in FilesOf(x[1])
              /\ \A g \in Written(d)' : /\ flush'[d].taken[g.part].rows # <<>>
                                       /\ g.rows = Range(flush'[d].taken[g.part].rows)
  BY <1>8, <1>13, <1>15 DEF FlushInv
<1>16. /\ \A p \in Parts : flush[c].taken[p].rows # <<>> =>
            \A x \in FilesOf(p) : \/ x \in flush'[c].todo
                                  \/ \E g \in Written(c)' : g.part = x[1] /\ g.table = x[2]
       /\ \A x \in flush'[c].todo : flush[c].taken[x[1]].rows # <<>> /\ x \in FilesOf(x[1])
       /\ \A g \in Written(c)' : /\ flush[c].taken[g.part].rows # <<>>
                                /\ g.rows = Range(flush[c].taken[g.part].rows)
  BY <1>2, <1>6, <1>8, <1>11, <1>12 DEF FlushInv
<1>17. FlushInv'
  BY <1>2, <1>8, <1>14, <1>15, <1>16 DEF FlushInv
<1> QED
  BY <1>8, <1>9, <1>10, <1>17

(* A flush ends. *)
LEMMA FlushEnds ==
    ASSUME SinkInv, NEW c \in Callers, PutFileFails(c) \/ PutManifest(c) \/ PutManifestFails(c)
    PROVE  SinkInv' /\ flush' = [flush EXCEPT ![c] = NoFlush] /\ UNCHANGED files
<1> USE DEF SinkInv, SinkType
<1>1. /\ flush' = [flush EXCEPT ![c] = NoFlush] /\ pc' = [pc EXCEPT ![c] = "idle"]
      /\ arg' = [arg EXCEPT ![c] = 0] /\ UNCHANGED <<nextBatch, files>>
  BY DEF PutFileFails, PutManifest, PutManifestFails, Return, Goto, storeVars
<1>2. /\ pc' \in [Callers -> PCs] /\ flush' \in [Callers -> Flushes]
      /\ \A d \in Callers : pc'[d] # "put" => flush'[d] = NoFlush
      /\ BatchInv' /\ FlushInv'
  BY <1>1, NotInFlush DEF PCs
<1>3. pending' \in [Parts -> PartRows]
  <2>1. CASE PutFileFails(c)
    <3>1. PICK f \in flush[c].todo :
            pending' = [pending EXCEPT ![f[1]] = Restore(f[1], flush[c].taken[f[1]], pending[f[1]])]
      BY <2>1 DEF PutFileFails
    <3>2. f[1] \in Parts /\ flush[c].taken[f[1]] \in PartRows
      BY DEF Flushes
    <3> QED
      BY <3>1, <3>2, RestoreType
  <2>2. CASE PutManifest(c) \/ PutManifestFails(c)
    BY <2>2 DEF PutManifest, PutManifestFails
  <2> QED
    BY <2>1, <2>2
<1>4. CallInv'
  BY <1>1, <1>2 DEF CallInv
<1> QED
  BY <1>1, <1>2, <1>3, <1>4

LEMMA AgeStep ==
    ASSUME SinkInv, NEW p \in Parts, Age(p)
    PROVE  SinkInv' /\ \A q \in Parts : pending'[q].rows = pending[q].rows
<1> USE DEF SinkInv, SinkType
<1>1. UNCHANGED <<flush, nextBatch, pc, arg, files>>
  BY DEF Age, callVars, storeVars
<1>2. pending' = [pending EXCEPT ![p] = [pending[p] EXCEPT !.aged = TRUE]]
  BY DEF Age
<1>3. [pending[p] EXCEPT !.aged = TRUE] \in PartRows
      /\ [pending[p] EXCEPT !.aged = TRUE].rows = pending[p].rows
  BY DEF PartRows
<1>4. pending' \in [Parts -> PartRows] /\ \A q \in Parts : pending'[q].rows = pending[q].rows
  BY <1>2, <1>3
<1> QED
  BY <1>1, <1>4 DEF CallInv, BatchInv, FlushInv, Written

LEMMA NewSinkStep ==
    ASSUME SinkInv, NewSink
    PROVE  SinkInv'
<1> USE DEF SinkInv, SinkType
<1>1. SinkType'
  BY NoFlushType DEF NewSink, storeVars, PCs
<1>2. CallInv' /\ BatchInv' /\ FlushInv'
  BY DEF NewSink, storeVars, CallInv, BatchInv, FlushInv
<1> QED
  BY <1>1, <1>2

(***************************************************************************)
(* A step of the sink, whoever drives it: the callers of SinkSpec, which    *)
(* write each record once, or the goroutines of Delivery, which write a    *)
(* record again after a failure and start a new process after a shutdown   *)
(* as well as after a kill.                                                *)
(***************************************************************************)
sinkCore == <<sinkMem, callVars, storeVars, sinkHist>>

SinkMove ==
    \/ \E c \in Callers : SinkStep(c) \/ SinkFailure(c)
    \/ \E c \in Callers, r \in Recs : Write(c, r)
    \/ \E c \in Callers, force \in BOOLEAN : Flush(c, force)
    \/ \E p \in Parts : Age(p)
    \/ NewSink

LEMMA SinkNextMoves == [SinkNext]_sinkVars => [SinkMove]_sinkCore
<1>1. Unwritten \subseteq Recs
  BY DEF Unwritten
<1>2. SinkNext => SinkMove
  BY <1>1 DEF SinkNext, SinkMove, SinkCrash
<1>3. UNCHANGED sinkVars => UNCHANGED sinkCore
  BY DEF sinkVars, sinkCore
<1> QED
  BY <1>2, <1>3

LEMMA SinkInvIsInductive ==
    ASSUME SinkInv, [SinkMove]_sinkCore
    PROVE  SinkInv'
<1>1. ASSUME NEW c \in Callers, SinkStep(c) \/ SinkFailure(c) PROVE SinkInv'
  BY <1>1, WriteStep, AddRowStep, PutFileStep, FlushEnds DEF SinkStep, SinkFailure
<1>2. ASSUME NEW c \in Callers, NEW r \in Recs, Write(c, r) PROVE SinkInv'
  BY <1>2, WriteStep
<1>3. CASE UNCHANGED sinkCore
  BY <1>3 DEF sinkCore, sinkMem, callVars, storeVars, SinkInv, SinkType, CallInv, BatchInv,
              FlushInv, Written
<1> QED
  BY <1>1, <1>2, <1>3, FlushStep, AgeStep, NewSinkStep DEF SinkMove

\* In every state: only a flush holds rows of its own, its batch is nobody else's, and the
\* files it has put with those it has to put are those of the partitions it took.
THEOREM SinkInvHolds == SinkSpec => []SinkInv
<1>1. SinkInit => SinkInv
  BY InitSink
<1>2. SinkInv /\ [SinkNext]_sinkVars => SinkInv'
  BY SinkInvIsInductive, SinkNextMoves
<1> QED
  BY <1>1, <1>2, PTL DEF SinkSpec

-----------------------------------------------------------------------------
(* Manifests. *)

(* What a step does to the store: a file is added, or the manifest of a finished flush. *)
LEMMA StoreStep ==
    ASSUME SinkInv, [SinkMove]_sinkCore
    PROVE  /\ files \subseteq files' /\ blobs \subseteq blobs'
           /\ \/ UNCHANGED manifests
              \/ \E c \in Callers : PutManifest(c)
<1>1. ASSUME NEW c \in Callers, SinkStep(c) \/ SinkFailure(c), ~PutManifest(c)
      PROVE  files \subseteq files' /\ blobs \subseteq blobs' /\ UNCHANGED manifests
  BY <1>1 DEF SinkStep, SinkFailure, BlobExists, PutBlob, PutBlobTable, AddRow, PutFile,
              WriteFails, PutFileFails, PutManifestFails, storeVars
<1>2. ASSUME NEW c \in Callers, PutManifest(c)
      PROVE  files \subseteq files' /\ blobs \subseteq blobs'
  BY <1>2 DEF PutManifest
<1>3. ASSUME NEW c \in Callers, NEW r, Write(c, r) PROVE UNCHANGED storeVars
  BY <1>3 DEF Write
<1>4. ASSUME NEW c \in Callers, NEW force, Flush(c, force) PROVE UNCHANGED storeVars
  BY <1>4 DEF Flush
<1>5. ASSUME NEW p \in Parts, Age(p) PROVE UNCHANGED storeVars
  BY <1>5 DEF Age
<1>6. ASSUME NewSink PROVE UNCHANGED storeVars
  BY <1>6 DEF NewSink
<1>7. ASSUME UNCHANGED sinkCore PROVE UNCHANGED storeVars
  BY <1>7 DEF sinkCore
<1>8. ASSUME UNCHANGED storeVars
      PROVE  files \subseteq files' /\ blobs \subseteq blobs' /\ UNCHANGED manifests
  BY <1>8 DEF storeVars
<1> QED
  BY <1>1, <1>2, <1>3, <1>4, <1>5, <1>6, <1>7, <1>8 DEF SinkMove

WholeBatch(m) ==
    \A f \in m : FilesOf(f.part) = {<<g.part, g.table>> : g \in {h \in m : h.part = f.part}}

(* A flush that has nothing left to put has put whole partitions. *)
LEMMA FinishedFlush ==
    ASSUME SinkInv, NEW c \in Callers, pc[c] = "put", flush[c].todo = {}
    PROVE  WholeBatch(Written(c))
<1> USE DEF SinkInv, SinkType
<1> SUFFICES ASSUME NEW f \in Written(c)
             PROVE  FilesOf(f.part) = {<<g.part, g.table>> : g \in {h \in Written(c) : h.part = f.part}}
  BY DEF WholeBatch
<1>1. f \in Files /\ f.part \in Parts
  BY DEF Written, Files
<1>2. flush[c].taken[f.part].rows # <<>>
  BY DEF FlushInv
<1>3. ASSUME NEW x \in FilesOf(f.part)
      PROVE  x \in {<<g.part, g.table>> : g \in {h \in Written(c) : h.part = f.part}}
  <2>1. x[1] = f.part /\ x = <<x[1], x[2]>>
    BY <1>1, FilesOfType
  <2>2. PICK g \in Written(c) : g.part = x[1] /\ g.table = x[2]
    BY <1>1, <1>2 DEF FlushInv
  <2> QED
    BY <2>1, <2>2
<1>4. ASSUME NEW g \in Written(c), g.part = f.part
      PROVE  <<g.part, g.table>> \in FilesOf(f.part)
  BY <1>4 DEF FlushInv, Written
<1> QED
  BY <1>3, <1>4

LEMMA BatchStep ==
    ASSUME SinkInv, NoHalfBatch, [SinkMove]_sinkCore
    PROVE  NoHalfBatch'
<1>1. files \subseteq files'
  BY StoreStep
<1>2. CASE UNCHANGED manifests
  BY <1>1, <1>2 DEF NoHalfBatch
<1>3. ASSUME NEW c \in Callers, PutManifest(c) PROVE NoHalfBatch'
  <2>1. manifests' = manifests \cup {Written(c)} /\ pc[c] = "put" /\ flush[c].todo = {}
    BY <1>3 DEF PutManifest, AllPut
  <2>2. Written(c) \subseteq files /\ WholeBatch(Written(c))
    BY <2>1, FinishedFlush DEF Written
  <2>3. \A m \in manifests' : m \subseteq files' /\ WholeBatch(m)
    BY <1>1, <2>1, <2>2 DEF NoHalfBatch, WholeBatch
  <2> QED
    BY <2>3 DEF NoHalfBatch, WholeBatch
<1> QED
  BY <1>2, <1>3, StoreStep

\* A batch is visible as a whole or not at all, for any number of concurrent flushes, failing
\* store operations and kills (lake.go, flush; write.go, writeManifest).
THEOREM BatchesAreWhole == SinkSpec => []NoHalfBatch
<1>1. SinkInit => NoHalfBatch
  BY DEF SinkInit, NoHalfBatch
<1>2. SinkInv /\ NoHalfBatch /\ [SinkNext]_sinkVars => NoHalfBatch'
  BY BatchStep, SinkNextMoves
<1> QED
  BY <1>1, <1>2, SinkInvHolds, PTL DEF SinkSpec

-----------------------------------------------------------------------------
(* Rows in memory. *)

Buffered == UNION {Range(pending[p].rows) : p \in Parts}

LEMMA NoFlushTakes == RowsTaken(NoFlush) = {}
BY RangeEmpty DEF RowsTaken, NoFlush, NoRows

(* A step in which one caller's flush changes. *)
LEMMA MemoryOfOne ==
    ASSUME NEW c \in Callers, \A d \in Callers \ {c} : flush'[d].taken = flush[d].taken
    PROVE  /\ InMemory \subseteq Buffered \cup RowsTaken(flush[c]) \cup InMemory'
           /\ InMemory' \subseteq Buffered' \cup RowsTaken(flush[c])' \cup InMemory
           /\ Buffered \cup RowsTaken(flush[c]) \subseteq InMemory
           /\ Buffered' \cup RowsTaken(flush[c])' \subseteq InMemory'
<1>1. \A d \in Callers \ {c} : RowsTaken(flush[d])' = RowsTaken(flush[d])
  BY DEF RowsTaken
<1> QED
  BY <1>1 DEF InMemory, Buffered

LEMMA VisibleGrows ==
    ASSUME manifests \subseteq manifests'
    PROVE  Visible \subseteq Visible'
BY DEF Visible, Manifested

(* The rows of a finished flush are those of its files. *)
LEMMA FinishedRows ==
    ASSUME SinkInv, NEW c \in Callers, pc[c] = "put", flush[c].todo = {},
           NEW r \in RowsTaken(flush[c])
    PROVE  \E g \in Written(c) : g.table = 1 /\ r \in g.rows
<1> USE DEF SinkInv, SinkType
<1>1. PICK p \in Parts : r \in Range(flush[c].taken[p].rows)
  BY DEF RowsTaken
<1>2. flush[c].taken[p].rows # <<>>
  BY <1>1, RangeEmpty
<1>3. <<p, 1>> \in FilesOf(p)
  BY DEF FilesOf
<1>4. PICK g \in Written(c) : g.part = p /\ g.table = 1
  BY <1>2, <1>3 DEF FlushInv
<1>5. g.rows = Range(flush[c].taken[p].rows)
  BY <1>4 DEF FlushInv
<1> QED
  BY <1>1, <1>4, <1>5

Adding == {arg[c] : c \in {d \in Callers : pc[d] = "add"}}
Gone == dropped \cup unlisted \cup crashLost

(* What a step does to the rows in memory. *)
LEMMA MemoryStep ==
    ASSUME SinkInv, [SinkMove]_sinkCore
    PROVE  /\ InMemory \subseteq InMemory' \cup Visible' \cup Gone'
           /\ InMemory' \subseteq InMemory \cup Adding
           /\ written' \subseteq written \cup InMemory'
           /\ Gone \subseteq Gone' /\ Visible \subseteq Visible'
<1> USE DEF SinkInv, SinkType
<1>a. ASSUME UNCHANGED <<pending, flush, manifests, sinkHist>>
      PROVE  /\ InMemory' = InMemory /\ written' = written
             /\ Gone' = Gone /\ Visible' = Visible
  BY <1>a DEF InMemory, RowsTaken, Visible, Manifested, sinkHist, Gone
<1>1. ASSUME NEW c \in Callers,
             (\E r \in Recs : Write(c, r)) \/ BlobExists(c) \/ PutBlob(c) \/ PutBlobTable(c)
             \/ WriteFails(c)
      PROVE  UNCHANGED <<pending, flush, manifests, sinkHist>>
  BY <1>1, WriteStep
<1>2. ASSUME NEW c \in Callers, AddRow(c)
      PROVE  InMemory' = InMemory \cup {arg[c]} /\ written' = written \cup {arg[c]}
             /\ Gone' = Gone /\ Visible' = Visible /\ arg[c] \in Adding
  <2>1. arg[c] \in Recs /\ pc[c] = "add" /\ PartOf[arg[c]] \in Parts
    BY <1>2, PartsAssumption DEF AddRow, CallInv
  <2>2. UNCHANGED <<flush, manifests, dropped, unlisted, crashLost>> /\ written' = written \cup {arg[c]}
    BY <1>2 DEF AddRow, storeVars
  <2>3. \A p \in Parts : pending'[p].rows = IF p = PartOf[arg[c]] THEN Append(pending[p].rows, arg[c])
                                            ELSE pending[p].rows
    BY <1>2, <2>1 DEF AddRow, PartRows
  <2>4. \A p \in Parts : pending[p].rows \in Seq(Recs)
    BY DEF PartRows
  <2>5. Range(pending'[PartOf[arg[c]]].rows) = Range(pending[PartOf[arg[c]]].rows) \cup {arg[c]}
    BY <2>1, <2>3, <2>4, RangeAppend
  <2>6. Buffered' = Buffered \cup {arg[c]}
    BY <2>1, <2>3, <2>5 DEF Buffered
  <2>7. InMemory' = InMemory \cup {arg[c]}
    <3>1. RowsTaken(flush[c])' = RowsTaken(flush[c]) /\ \A d \in Callers : flush'[d].taken = flush[d].taken
      BY <2>2 DEF RowsTaken
    <3> QED
      BY <2>6, <3>1, MemoryOfOne
  <2> QED
    BY <2>1, <2>2, <2>7 DEF Gone, Visible, Manifested, Adding
<1>3. ASSUME NEW c \in Callers, NEW force \in BOOLEAN, Flush(c, force)
      PROVE  InMemory' = InMemory /\ written' = written /\ Gone' = Gone /\ Visible' = Visible
  <2>1. UNCHANGED <<manifests, sinkHist>>
    BY <1>3 DEF Flush, storeVars
  <2>2. CASE UNCHANGED <<pending, flush>>
    BY <1>a, <2>1, <2>2
  <2>3. CASE Due(force) # {}
    <3>1. pc[c] # "put" /\ flush[c] = NoFlush
      BY <1>3 DEF Flush, CallInv
    <3>2. \A p \in Parts : flush'[c].taken[p] = IF p \in Due(force) THEN pending[p] ELSE NoRows
      BY <1>3, <2>3 DEF Flush
    <3>3. \A p \in Parts : pending'[p] = IF p \in Due(force) THEN NoRows ELSE pending[p]
      BY <1>3, <2>3 DEF Flush, NotDue
    <3>4. Range(NoRows.rows) = {}
      BY RangeEmpty DEF NoRows
    <3>5. Buffered = Buffered' \cup RowsTaken(flush[c])'
      BY <3>2, <3>3, <3>4 DEF Buffered, RowsTaken
    <3>6. \A d \in Callers \ {c} : flush'[d].taken = flush[d].taken
      BY <1>3, <2>3 DEF Flush
    <3>7. RowsTaken(flush[c]) = {}
      BY <3>1, NoFlushTakes
    <3>8. InMemory' = InMemory
      BY <3>5, <3>6, <3>7, MemoryOfOne
    <3> QED
      BY <2>1, <3>8 DEF Gone, sinkHist, Visible, Manifested
  <2> QED
    BY <1>3, <2>2, <2>3 DEF Flush
<1>4. ASSUME NEW c \in Callers, PutFile(c)
      PROVE  InMemory' = InMemory /\ written' = written /\ Gone' = Gone /\ Visible' = Visible
  <2>1. UNCHANGED <<pending, manifests, sinkHist>> /\ \A d \in Callers : flush'[d].taken = flush[d].taken
    BY <1>4, PutFileStep DEF PutFile
  <2> QED
    BY <2>1 DEF InMemory, RowsTaken, Gone, sinkHist, Visible, Manifested
<1>5. ASSUME NEW c \in Callers, PutFileFails(c)
      PROVE  /\ InMemory \subseteq InMemory' \cup Gone' /\ InMemory' \subseteq InMemory
             /\ written' = written /\ Gone \subseteq Gone' /\ Visible' = Visible
  <2>1. PICK f \in flush[c].todo :
          /\ pending' = [pending EXCEPT ![f[1]] = Restore(f[1], flush[c].taken[f[1]], pending[f[1]])]
          /\ dropped' = dropped \cup UNION {Range(flush[c].taken[p].rows) : p \in Parts \ {f[1]}}
    BY <1>5 DEF PutFileFails
  <2>2. f[1] \in Parts /\ flush[c].taken[f[1]] \in PartRows
    BY DEF Flushes
  <2>3. flush' = [flush EXCEPT ![c] = NoFlush]
    BY <1>5, FlushEnds
  <2>4. Range(pending'[f[1]].rows) = Range(flush[c].taken[f[1]].rows) \cup Range(pending[f[1]].rows)
        /\ \A p \in Parts \ {f[1]} : pending'[p] = pending[p]
    <3>1. pending[f[1]] \in PartRows
      BY <2>2
    <3>2. pending'[f[1]] = Restore(f[1], flush[c].taken[f[1]], pending[f[1]])
          /\ \A p \in Parts \ {f[1]} : pending'[p] = pending[p]
      BY <2>1, <2>2
    <3>3. flush[c].taken[f[1]].rows \in Seq(Recs) /\ pending[f[1]].rows \in Seq(Recs)
      BY <2>2, <3>1 DEF PartRows
    <3>4. \/ pending'[f[1]].rows = flush[c].taken[f[1]].rows /\ pending[f[1]].rows = <<>>
          \/ pending'[f[1]].rows = flush[c].taken[f[1]].rows \o pending[f[1]].rows
          \/ pending'[f[1]].rows = pending[f[1]].rows \o flush[c].taken[f[1]].rows
      BY <2>2, <3>1, <3>2 DEF Restore, PartRows
    <3> QED
      <4> DEFINE a == flush[c].taken[f[1]].rows
                 b == pending[f[1]].rows
                 d == pending'[f[1]].rows
      <4>1. a \in Seq(Recs) /\ b \in Seq(Recs) /\ ((d = a /\ b = <<>>) \/ d = a \o b \/ d = b \o a)
        BY <3>3, <3>4
      <4> HIDE DEF a, b, d
      <4>2. Range(d) = Range(a) \cup Range(b)
        BY <4>1, RestoredRows
      <4> QED
        BY <3>2, <4>2 DEF a, b, d
  <2>5. Buffered' = Buffered \cup Range(flush[c].taken[f[1]].rows)
    BY <2>2, <2>4 DEF Buffered
  <2>6. RowsTaken(flush[c]) \subseteq Buffered' \cup dropped'
    BY <2>1, <2>5 DEF RowsTaken
  <2>7. Range(flush[c].taken[f[1]].rows) \subseteq RowsTaken(flush[c])
    BY <2>2 DEF RowsTaken
  <2>8. RowsTaken(flush[c])' = {}
    BY <2>3, NoFlushTakes
  <2>9. \A d \in Callers \ {c} : flush'[d].taken = flush[d].taken
    BY <2>3
  <2>10. InMemory' \subseteq InMemory /\ InMemory \subseteq InMemory' \cup dropped'
    BY <2>5, <2>6, <2>7, <2>8, <2>9, MemoryOfOne
  <2>11. UNCHANGED <<manifests, written, unlisted, crashLost>> /\ dropped \subseteq dropped'
    BY <1>5 DEF PutFileFails, storeVars
  <2> QED
    BY <2>10, <2>11 DEF Gone, Visible, Manifested
<1>6. ASSUME NEW c \in Callers, PutManifest(c) \/ PutManifestFails(c)
      PROVE  /\ InMemory \subseteq InMemory' \cup Visible' \cup Gone' /\ InMemory' \subseteq InMemory
             /\ written' = written /\ Gone \subseteq Gone' /\ Visible \subseteq Visible'
  <2>1. flush' = [flush EXCEPT ![c] = NoFlush] /\ UNCHANGED pending
    BY <1>6, FlushEnds DEF PutManifest, PutManifestFails
  <2>2. manifests \subseteq manifests' /\ Gone \subseteq Gone' /\ written' = written
    BY <1>6 DEF PutManifest, PutManifestFails, storeVars, sinkHist, Gone
  <2>3. RowsTaken(flush[c]) \subseteq Visible' \cup Gone'
    <3>1. CASE PutManifest(c)
      <4>1. manifests' = manifests \cup {Written(c)} /\ pc[c] = "put" /\ flush[c].todo = {}
        BY <3>1 DEF PutManifest, AllPut
      <4>2. ASSUME NEW r \in RowsTaken(flush[c]) PROVE r \in Visible'
        <5>1. PICK g \in Written(c) : g.table = 1 /\ r \in g.rows
          BY <4>1, FinishedRows
        <5>2. g \in UNION manifests'
          BY <4>1, <5>1
        <5> QED
          BY <5>1, <5>2 DEF Visible, Manifested
      <4> QED
        BY <4>2
    <3>2. CASE PutManifestFails(c)
      BY <3>2 DEF PutManifestFails, Gone
    <3> QED
      BY <1>6, <3>1, <3>2
  <2>4. RowsTaken(flush[c])' = {} /\ Buffered' = Buffered
    BY <2>1, NoFlushTakes DEF Buffered
  <2>5. \A d \in Callers \ {c} : flush'[d].taken = flush[d].taken
    BY <2>1
  <2>6. InMemory' \subseteq InMemory /\ InMemory \subseteq InMemory' \cup RowsTaken(flush[c])
    BY <2>4, <2>5, MemoryOfOne
  <2> QED
    BY <2>2, <2>3, <2>6, VisibleGrows
<1>7. ASSUME NEW p \in Parts, Age(p)
      PROVE  InMemory' = InMemory /\ written' = written /\ Gone' = Gone /\ Visible' = Visible
  <2>1. UNCHANGED <<flush, manifests, sinkHist>> /\ \A q \in Parts : pending'[q].rows = pending[q].rows
    BY <1>7, AgeStep DEF Age, storeVars
  <2> QED
    BY <2>1 DEF InMemory, RowsTaken, Gone, sinkHist, Visible, Manifested
<1>8. ASSUME NewSink
      PROVE  /\ InMemory \subseteq Gone' /\ InMemory' \subseteq InMemory
             /\ written' = written /\ Gone \subseteq Gone' /\ Visible' = Visible
  <2>1. \A p \in Parts : Range(pending'[p].rows) = {}
    BY <1>8, RangeEmpty DEF NewSink, NoRows
  <2>2. \A c \in Callers : RowsTaken(flush[c])' = {}
    BY <1>8, NoFlushTakes DEF NewSink
  <2>3. InMemory' = {}
    <3>1. (UNION {Range(pending[p].rows) : p \in Parts})' = {}
      BY <2>1
    <3>2. (UNION {RowsTaken(flush[c]) : c \in Callers})' = {}
      BY <2>2
    <3> QED
      BY <3>1, <3>2 DEF InMemory
  <2> QED
    BY <1>8, <2>3 DEF NewSink, Gone, storeVars, Visible, Manifested
<1>9. ASSUME UNCHANGED sinkCore PROVE UNCHANGED <<pending, flush, manifests, sinkHist>>
  BY <1>9 DEF sinkCore, sinkMem, storeVars
<1>10. ASSUME NEW c \in Callers, SinkStep(c) \/ SinkFailure(c)
       PROVE  /\ InMemory \subseteq InMemory' \cup Visible' \cup Gone'
              /\ InMemory' \subseteq InMemory \cup Adding
              /\ written' \subseteq written \cup InMemory'
              /\ Gone \subseteq Gone' /\ Visible \subseteq Visible'
  BY <1>10, <1>a, <1>1, <1>2, <1>4, <1>5, <1>6 DEF SinkStep, SinkFailure
<1> QED
  BY <1>a, <1>1, <1>3, <1>7, <1>8, <1>9, <1>10 DEF SinkMove

LEMMA AccountStep ==
    ASSUME SinkInv, RowsAccounted, [SinkMove]_sinkCore
    PROVE  RowsAccounted'
<1>1. written \subseteq InMemory \cup Visible \cup Gone
  BY DEF RowsAccounted, Gone
<1>2. written' \subseteq InMemory' \cup Visible' \cup Gone'
  BY <1>1, MemoryStep
<1> QED
  BY <1>2 DEF RowsAccounted, Gone

\* A row the sink took is buffered, being written or visible, unless it was in memory in a
\* kill or in a batch whose flush failed (lake.go, Write, flush and restore).
THEOREM RowsStayAccounted == SinkSpec => []RowsAccounted
<1>1. SinkInit => RowsAccounted
  BY DEF SinkInit, RowsAccounted
<1>2. SinkInv /\ RowsAccounted /\ [SinkNext]_sinkVars => RowsAccounted'
  BY AccountStep, SinkNextMoves
<1> QED
  BY <1>1, <1>2, SinkInvHolds, PTL DEF SinkSpec

-----------------------------------------------------------------------------
(* Blobs. *)

LEMMA BlobStep ==
    ASSUME SinkInv, BlobInv, [SinkMove]_sinkCore
    PROVE  BlobInv'
<1> USE DEF SinkInv, SinkType
<1>1. blobs \subseteq blobs'
  BY StoreStep
<1>2. \A r : Resolved(r) => Resolved(r)'
  BY <1>1 DEF Resolved
<1>3. \A r \in InMemory' : Resolved(r)'
  <2>1. \A r \in Adding : Resolved(r)
    BY DEF Adding, BlobInv, KnownInv
  <2> QED
    BY <1>2, <2>1, MemoryStep DEF BlobInv
<1>4. \A f \in files' : \A r \in f.rows : Resolved(r)'
  <2>1. CASE UNCHANGED files
    BY <1>2, <2>1 DEF BlobInv
  <2>2. ASSUME NEW c \in Callers, PutFile(c) PROVE \A f \in files' : \A r \in f.rows : Resolved(r)'
    <3>1. PICK x \in flush[c].todo :
            files' = files \cup {[batch |-> flush[c].batch, part |-> x[1], table |-> x[2],
                                  rows |-> Range(flush[c].taken[x[1]].rows)]}
      BY <2>2 DEF PutFile
    <3>2. x[1] \in Parts
      BY DEF Flushes
    <3>3. Range(flush[c].taken[x[1]].rows) \subseteq InMemory
      BY <3>2 DEF InMemory, RowsTaken
    <3> QED
      BY <1>2, <3>1, <3>3 DEF BlobInv
  <2>3. (\E c \in Callers : PutFile(c)) \/ UNCHANGED files
    BY DEF SinkMove, SinkStep, SinkFailure, BlobExists, PutBlob, PutBlobTable, AddRow, PutManifest,
           WriteFails, PutFileFails, PutManifestFails, Write, Flush, Age, NewSink,
           storeVars, sinkCore
  <2> QED
    BY <2>1, <2>2, <2>3
<1>5. KnownInv'
  <2>a. ASSUME NEW c \in Callers, seen' \subseteq blobs',
               \A d \in Callers \ {c} : pc'[d] = pc[d] /\ arg'[d] = arg[d],
               pc'[c] \in {"table", "add"} => BlobOf[arg'[c]] \in blobs' \cup {0}
        PROVE  KnownInv'
    BY <1>1, <2>a DEF BlobInv, KnownInv, Resolved
  <2>1. ASSUME NEW c \in Callers, NEW r \in Recs, Write(c, r) PROVE KnownInv'
    <3>1. arg'[c] = r /\ seen' = seen /\ (pc'[c] = "add" => BlobOf[r] \in seen \cup {0})
          /\ pc'[c] # "table"
          /\ \A d \in Callers \ {c} : pc'[d] = pc[d] /\ arg'[d] = arg[d]
      BY <2>1 DEF Write, Goto, sinkMem
    <3> QED
      BY <1>1, <2>a, <3>1 DEF BlobInv, KnownInv
  <2>2. ASSUME NEW c \in Callers, BlobExists(c) \/ PutBlob(c) \/ PutBlobTable(c) PROVE KnownInv'
    <3>1. /\ \A d \in Callers \ {c} : pc'[d] = pc[d] /\ arg'[d] = arg[d]
          /\ arg'[c] = arg[c]
      BY <2>2 DEF BlobExists, PutBlob, PutBlobTable, Goto
    <3>2. CASE BlobExists(c)
      BY <1>1, <2>a, <3>1, <3>2 DEF BlobExists, Goto, BlobInv, KnownInv, storeVars
    <3>3. CASE PutBlob(c)
      <4>1. seen' \subseteq blobs' /\ BlobOf[arg[c]] \in blobs'
        BY <3>3 DEF PutBlob, BlobInv, KnownInv
      <4> QED
        BY <2>a, <3>1, <4>1
    <3>4. CASE PutBlobTable(c)
      <4>1. seen' = seen /\ blobs' = blobs /\ Resolved(arg[c])
        BY <3>4 DEF PutBlobTable, sinkMem, BlobInv, KnownInv
      <4> QED
        BY <2>a, <3>1, <4>1 DEF Resolved, BlobInv, KnownInv
    <3> QED
      BY <2>2, <3>2, <3>3, <3>4
  <2>3. ASSUME NEW c \in Callers,
               AddRow(c) \/ WriteFails(c) \/ PutFileFails(c) \/ PutManifest(c) \/ PutManifestFails(c)
        PROVE  KnownInv'
    <3>1. seen' = seen /\ pc'[c] = "idle" /\ \A d \in Callers \ {c} : pc'[d] = pc[d] /\ arg'[d] = arg[d]
      BY <2>3 DEF AddRow, WriteFails, PutFileFails, PutManifest, PutManifestFails, Return, Goto, sinkMem
    <3> QED
      BY <1>1, <2>a, <3>1 DEF BlobInv, KnownInv
  <2>4. ASSUME NEW c \in Callers, NEW force \in BOOLEAN, Flush(c, force) PROVE KnownInv'
    <3>1. seen' = seen /\ pc'[c] \in {"idle", "put"} /\ \A d \in Callers \ {c} : pc'[d] = pc[d] /\ arg'[d] = arg[d]
      BY <2>4 DEF Flush, Return, Goto
    <3> QED
      BY <1>1, <2>a, <3>1 DEF BlobInv, KnownInv
  <2>5. ASSUME UNCHANGED <<seen, pc, arg>> PROVE KnownInv'
    BY <1>1, <2>5 DEF BlobInv, KnownInv, Resolved
  <2>6. CASE NewSink
    BY <2>6 DEF NewSink, KnownInv
  <2>7. ASSUME (\E c \in Callers : PutFile(c)) \/ (\E p \in Parts : Age(p)) \/ UNCHANGED sinkCore
        PROVE  UNCHANGED <<seen, pc, arg>>
    BY <2>7 DEF PutFile, Age, callVars, sinkCore, sinkMem
  <2>8. ASSUME NEW c \in Callers, SinkStep(c) \/ SinkFailure(c) PROVE KnownInv'
    BY <2>2, <2>3, <2>5, <2>7, <2>8 DEF SinkStep, SinkFailure
  <2>9. ASSUME NEW p \in Parts, Age(p) PROVE KnownInv'
    BY <2>5, <2>7, <2>9
  <2>10. CASE UNCHANGED sinkCore
    BY <2>5, <2>7, <2>10
  <2>11. ASSUME NEW c \in Callers, NEW r \in Recs, Write(c, r) PROVE KnownInv'
    BY <2>1, <2>11
  <2> QED
    BY <2>4, <2>6, <2>8, <2>9, <2>10, <2>11 DEF SinkMove
<1> QED
  BY <1>3, <1>4, <1>5 DEF BlobInv

LEMMA InitBlobs == SinkInit => BlobInv
<1> SUFFICES ASSUME SinkInit PROVE BlobInv
  OBVIOUS
<1>1. \A p \in Parts : Range(pending[p].rows) = {}
  BY RangeEmpty DEF SinkInit, NoRows
<1>2. \A c \in Callers : RowsTaken(flush[c]) = {}
  BY NoFlushTakes DEF SinkInit
<1>3. \A r : r \notin InMemory
  BY <1>1, <1>2 DEF InMemory
<1> QED
  BY <1>3 DEF SinkInit, BlobInv, KnownInv

LEMMA VisibleResolve == NoHalfBatch /\ BlobInv => BlobsResolve
<1> SUFFICES ASSUME NoHalfBatch, BlobInv, NEW r \in Visible, BlobOf[r] # 0
             PROVE  BlobOf[r] \in blobs
  BY DEF BlobsResolve
<1>1. PICK f \in UNION manifests : r \in f.rows
  BY DEF Visible, Manifested
<1>2. f \in files
  BY DEF NoHalfBatch
<1> QED
  BY <1>1, <1>2 DEF BlobInv, Resolved

\* A visible row that refers to a blob refers to one that is in the store, whatever fails and
\* whoever writes the same blob at the same time (write.go, putBlob).
THEOREM BlobsAlwaysResolve == SinkSpec => []BlobsResolve
<1>1. SinkInv /\ BlobInv /\ [SinkNext]_sinkVars => BlobInv'
  BY BlobStep, SinkNextMoves
<1> QED
  BY <1>1, InitBlobs, VisibleResolve, SinkInvHolds, BatchesAreWhole, PTL DEF SinkSpec

-----------------------------------------------------------------------------
(* The deliverer over the sink. *)

Steps == {"idle", "send", "sending", "dead", "deadack", "commit", "committing", "ack"}
Phases == {"serving", "drain", "flush", "flushing", "cancel", "shutdown", "closing", "stopped"}
Writing == {"exists", "blob", "table", "add"}

DeliveryType ==
    /\ appended \in Nat /\ cursor \in Nat /\ saved \in Nat /\ high \in Nat /\ errs \in Nat
    /\ phase \in Phases
    /\ step \in [Goroutines -> Steps]
    /\ lo \in [Goroutines -> Nat] /\ hi \in [Goroutines -> Nat] /\ at \in [Goroutines -> Nat]
    /\ ret \in [Callers -> {"ok", "err"}]
    /\ 1..appended \subseteq Recs

(* The sink or the dead-letter directory has taken record r. *)
Taken(r) == r \in written \cup dead

(* The batch of a goroutine that is in DrainOnce: what it has peeked is in the buffer, and
   what it has behind it is taken. *)
Peeked(d) ==
    /\ lo[d] < at[d] /\ at[d] <= hi[d] /\ hi[d] <= appended
    /\ \A r \in 1 .. at[d] - 1 : Taken(r)
    /\ step[d] = "sending" /\ pc[d] = "idle" /\ ret[d] = "ok" => Taken(at[d])
    /\ step[d] = "deadack" => Taken(at[d])
    /\ step[d] \in {"commit", "committing", "ack"} => \A r \in 1 .. hi[d] : Taken(r)
    /\ step[d] \in {"committing", "ack"} => ToAck(d) # {}

PeekInv == \A d \in Goroutines : step[d] # "idle" => Peeked(d)

(* The call on the sink a goroutine is in is the one its step has made, or a flush of Main
   outside DrainOnce. *)
InCall(d) ==
    /\ pc[d] \in Writing => step[d] = "sending" /\ arg[d] = at[d]
    /\ pc[d] = "put" => step[d] = "committing" \/ (d = Main /\ step[d] = "idle")

CallerInv == \A d \in Goroutines : InCall(d)

(* Main delivers only while it drains, and the deliverer has stopped when Shutdown flushes. *)
PhaseInv ==
    /\ step[Main] # "idle" => phase = "drain"
    /\ phase \in {"shutdown", "closing", "stopped"} => step[Run] = "idle"
    /\ phase = "stopped" => pc[Main] = "idle"
    /\ phase = "drain" /\ step[Main] = "idle" => pc[Main] = "idle"

(* Everything up to the furthest the cursor has ever been is taken: the cursor may move back
   and forth below it. *)
CursorInv ==
    /\ cursor <= high /\ saved <= high
    /\ \A r \in 1 .. high : Taken(r)

DeliveryInv ==
    DeliveryType /\ PeekInv /\ CallerInv /\ PhaseInv /\ CursorInv

(* Without failures nothing is ever let go of, and nothing is buffered once the sink has
   been shut down. *)
ShutdownInv ==
    /\ crashes \in Nat
    /\ errs = 0 /\ crashes = 0 => Gone = {}
    /\ errs = 0 /\ phase \in {"closing", "stopped"} => \A p \in Parts : pending[p].rows = <<>>

-----------------------------------------------------------------------------
(* Least elements. *)

LEMMA LeastOf ==
    ASSUME NEW S \in SUBSET Nat, S # {}
    PROVE  Min(S) \in S /\ \A y \in S : Min(S) <= y
<1>1. PICK x \in S : \A y \in S : x <= y
  BY Least
<1> QED
  BY <1>1 DEF Min

LEMMA BatchEndIs ==
    ASSUME DeliveryType, NEW from \in Nat, from < appended
    PROVE  BatchEnd(from) \in Nat /\ from < BatchEnd(from) /\ BatchEnd(from) <= appended
<1>1. {from + BatchSize, appended} \in SUBSET Nat /\ {from + BatchSize, appended} # {}
  BY DeliveryAssumption DEF DeliveryType
<1>2. BatchEnd(from) \in {from + BatchSize, appended}
      /\ \A y \in {from + BatchSize, appended} : BatchEnd(from) <= y
  BY <1>1, LeastOf DEF BatchEnd
<1> QED
  BY <1>2, DeliveryAssumption DEF DeliveryType

LEMMA FirstToAck ==
    ASSUME DeliveryType, NEW d \in Goroutines, NEW S \in SUBSET ToAck(d), S # {}
    PROVE  Min(S) \in S /\ Min(S) \in Nat /\ lo[d] < Min(S) /\ Min(S) <= hi[d]
<1>1. ToAck(d) \subseteq Nat /\ \A r \in ToAck(d) : lo[d] < r /\ r <= hi[d]
  BY DEF ToAck, DeliveryType
<1> QED
  BY <1>1, LeastOf

-----------------------------------------------------------------------------
(* Goroutines: a step of one leaves the others where they are. *)

(* Goroutine e does nothing in this step. *)
Still(e) ==
    /\ step'[e] = step[e] /\ lo'[e] = lo[e] /\ hi'[e] = hi[e] /\ at'[e] = at[e]
    /\ pc'[e] = pc[e] /\ arg'[e] = arg[e] /\ ret'[e] = ret[e]

(* Record r is taken when the step is done. *)
WillBeTaken(r) == r \in written' \cup dead'

(* What is taken stays taken, what is in the log stays in it. *)
Grows == written \subseteq written' /\ dead \subseteq dead' /\ appended <= appended'

LEMMA StillPeeked ==
    ASSUME DeliveryType, Grows, appended' \in Nat, NEW e \in Goroutines, Still(e),
           step[e] # "idle" => Peeked(e)
    PROVE  step'[e] # "idle" => Peeked(e)'
<1>1. \A r : Taken(r) => Taken(r)'
  BY DEF Grows, Taken
<1>2. ToAck(e)' = ToAck(e)
  BY DEF ToAck, Still
<1> SUFFICES ASSUME step[e] # "idle" PROVE Peeked(e)'
  BY DEF Still
<1> QED
  BY <1>1, <1>2 DEF Peeked, Still, Grows, DeliveryType

LEMMA PeekFromOne ==
    ASSUME DeliveryType, PeekInv, Grows, appended' \in Nat, NEW d \in Goroutines,
           \A e \in Goroutines \ {d} : Still(e), step'[d] # "idle" => Peeked(d)'
    PROVE  PeekInv'
BY StillPeeked DEF PeekInv

LEMMA CallsFromOne ==
    ASSUME CallerInv, NEW d \in Goroutines,
           \A e \in Goroutines \ {d} : Still(e), InCall(d)'
    PROVE  CallerInv'
BY DEF CallerInv, InCall, Still

(* The cursor moves to a record with everything up to it taken, back to the saved cursor,
   or not at all. *)
LEMMA CursorMoves ==
    ASSUME DeliveryType, CursorInv, Grows, NEW r \in Nat, \A q \in 1 .. r : WillBeTaken(q),
           cursor' = r, saved' \in {saved, r}, high' = IF r > high THEN r ELSE high
    PROVE  CursorInv' /\ cursor' \in Nat /\ saved' \in Nat /\ high' \in Nat
BY DEF CursorInv, DeliveryType, Grows, Taken, WillBeTaken

LEMMA CursorStays ==
    ASSUME DeliveryType, CursorInv, Grows, cursor' \in {cursor, saved},
           saved' \in {saved, cursor}, high' = high
    PROVE  CursorInv' /\ cursor' \in Nat /\ saved' \in Nat /\ high' \in Nat
BY DEF CursorInv, DeliveryType, Grows, Taken

-----------------------------------------------------------------------------
(* The steps of DrainOnce that are not calls on the sink. *)

LocalStep(d) ==
    \/ NextBatch(d) \/ SendPoison(d) \/ PoisonCancelled(d) \/ Sent(d)
    \/ Retry(d, "sending") \/ Stall(d, "sending")
    \/ DeadLetter(d) \/ DeadAck(d)
    \/ SkipCommit(d) \/ Committed(d)
    \/ Retry(d, "committing") \/ Stall(d, "committing")
    \/ Ack(d) \/ DeadLetterFails(d) \/ AckFails(d)

(* The step ends the batch. *)
Ends(d) ==
    \/ PoisonCancelled(d) \/ SkipCommit(d) \/ DeadLetterFails(d) \/ AckFails(d)
    \/ Stall(d, "sending") \/ Stall(d, "committing")

LEMMA LocalFrame ==
    ASSUME NEW d \in Goroutines, LocalStep(d)
    PROVE  UNCHANGED <<pc, arg, ret, appended, written, dropped, unlisted, crashLost, crashes,
                       pending, flush>>
<1> USE DEF bufferVars, mainVars, sinkVars, sinkMem, callVars, sinkHist
<1>1. CASE NextBatch(d) \/ SendPoison(d) \/ PoisonCancelled(d) \/ Sent(d) \/ DeadLetter(d)
  BY <1>1 DEF NextBatch, SendPoison, PoisonCancelled, Sent, DeadLetter
<1>2. ASSUME NEW w, Retry(d, w) \/ Stall(d, w)
      PROVE  UNCHANGED <<pc, arg, ret, appended, written, dropped, unlisted, crashLost, crashes,
                         pending, flush>>
  BY <1>2 DEF Retry, Stall
<1>3. CASE DeadAck(d) \/ SkipCommit(d) \/ Committed(d) \/ Ack(d)
  BY <1>3 DEF DeadAck, SkipCommit, Committed, Ack, Acknowledge
<1>4. CASE DeadLetterFails(d) \/ AckFails(d)
  BY <1>4 DEF DeadLetterFails, AckFails
<1> QED
  BY <1>1, <1>2, <1>3, <1>4 DEF LocalStep

LEMMA EndsForgets ==
    ASSUME NEW d \in Goroutines, Ends(d)
    PROVE  Forget(d) /\ phase' \in (IF d = Main THEN {phase, "flush"} ELSE {phase})
           /\ step[d] # "idle"
<1>1. ASSUME NEW w \in {"sending", "committing"}, Stall(d, w)
      PROVE  Forget(d) /\ phase' \in (IF d = Main THEN {phase, "flush"} ELSE {phase})
             /\ step[d] # "idle"
  BY <1>1 DEF Stall, Leave
<1>2. CASE PoisonCancelled(d) \/ SkipCommit(d) \/ DeadLetterFails(d) \/ AckFails(d)
  BY <1>2 DEF PoisonCancelled, SkipCommit, DeadLetterFails, AckFails, Leave, mainVars
<1> QED
  BY <1>1, <1>2 DEF Ends

(* The step takes goroutine d to s, with the batch l+1 .. h at record a. *)
Moves(d, s, l, h, a) ==
    /\ step' = [step EXCEPT ![d] = s] /\ lo' = [lo EXCEPT ![d] = l]
    /\ hi' = [hi EXCEPT ![d] = h] /\ at' = [at EXCEPT ![d] = a]

LEMMA MovesOne ==
    ASSUME DeliveryType, NEW d \in Goroutines, NEW s \in Steps, NEW l \in Nat, NEW h \in Nat,
           NEW a \in Nat, Moves(d, s, l, h, a)
    PROVE  /\ step' \in [Goroutines -> Steps]
           /\ lo' \in [Goroutines -> Nat] /\ hi' \in [Goroutines -> Nat] /\ at' \in [Goroutines -> Nat]
           /\ step'[d] = s /\ lo'[d] = l /\ hi'[d] = h /\ at'[d] = a
           /\ \A e \in Goroutines \ {d} :
                step'[e] = step[e] /\ lo'[e] = lo[e] /\ hi'[e] = hi[e] /\ at'[e] = at[e]
BY DEF DeliveryType, Moves

(* Somewhere a step of its own can take a goroutine: Peeked for the values it gets. *)
Fits(s, l, h, a) ==
    /\ s \notin {"sending", "committing"}
    /\ s # "idle" =>
         /\ l < a /\ a <= h /\ h <= appended
         /\ \A r \in 1 .. a - 1 : WillBeTaken(r)
         /\ s = "deadack" => WillBeTaken(a)
         /\ s \in {"commit", "ack"} => \A r \in 1 .. h : WillBeTaken(r)
         /\ s = "ack" => (l + 1 .. h) \ Poison # {}

(* Where a step of its own takes a goroutine. *)
LocalMove(d) ==
    /\ step[d] # "idle" \/ MayDrain(d)
    /\ \E s \in Steps, l \in Nat, h \in Nat, a \in Nat :
         /\ Moves(d, s, l, h, a) /\ Fits(s, l, h, a)
         /\ phase' = phase \/ (d = Main /\ s = "idle" /\ phase' = "flush")

LEMMA StaysAt ==
    ASSUME DeliveryType, NEW d \in Goroutines, NEW s, NEW a \in Nat,
           Step(d, s), at' = [at EXCEPT ![d] = a] \/ (a = at[d] /\ at' = at),
           UNCHANGED <<lo, hi>>
    PROVE  Moves(d, s, lo[d], hi[d], a) /\ lo[d] \in Nat /\ hi[d] \in Nat /\ at[d] \in Nat
<1>1. lo = [lo EXCEPT ![d] = lo[d]] /\ hi = [hi EXCEPT ![d] = hi[d]] /\ at = [at EXCEPT ![d] = at[d]]
  BY DEF DeliveryType
<1> QED
  BY <1>1 DEF DeliveryType, Moves, Step

LEMMA ForgetMoves ==
    ASSUME NEW d \in Goroutines, step[d] # "idle", Forget(d),
           phase' = phase \/ (d = Main /\ phase' = "flush")
    PROVE  LocalMove(d)
<1>1. Moves(d, "idle", 0, 0, 0) /\ Fits("idle", 0, 0, 0) /\ "idle" \in Steps
  BY DEF Forget, Step, Moves, Fits, Steps
<1> QED
  BY <1>1 DEF LocalMove

(* deliverBatch's loop: the record it was at is taken. *)
LEMMA AdvanceMoves ==
    ASSUME DeliveryType, NEW d \in Goroutines, step[d] # "idle", Peeked(d), Grows, WillBeTaken(at[d]),
           Advance(d), UNCHANGED <<lo, hi, phase, appended>>
    PROVE  LocalMove(d)
<1> USE DEF DeliveryType
<1>1. ASSUME NEW r \in 1 .. at[d] PROVE WillBeTaken(r)
  <2>1. CASE r = at[d]
    BY <2>1
  <2>2. CASE r # at[d]
    BY <2>2 DEF Peeked, Grows, Taken, WillBeTaken
  <2> QED
    BY <2>1, <2>2
<1>2. CASE at[d] = hi[d]
  <2>1. Moves(d, "commit", lo[d], hi[d], at[d])
    BY <1>2, StaysAt DEF Advance
  <2>2. Fits("commit", lo[d], hi[d], at[d])
    BY <1>1, <1>2 DEF Fits, Peeked
  <2> QED
    BY <2>1, <2>2 DEF LocalMove, Steps
<1>3. CASE at[d] # hi[d]
  <2>1. Moves(d, "send", lo[d], hi[d], at[d] + 1)
    BY <1>3, StaysAt DEF Advance
  <2>2. Fits("send", lo[d], hi[d], at[d] + 1)
    BY <1>1, <1>3 DEF Fits, Peeked
  <2> QED
    BY <2>1, <2>2 DEF LocalMove, Steps
<1> QED
  BY <1>2, <1>3

LEMMA LocalMoves ==
    ASSUME DeliveryInv, NEW d \in Goroutines, LocalStep(d), Grows
    PROVE  LocalMove(d)
<1> USE DEF DeliveryInv
<1>0. /\ \A r : Taken(r) => WillBeTaken(r)
      /\ step[d] # "idle" => Peeked(d)
      /\ UNCHANGED <<appended, pc, ret>>
      /\ lo[d] \in Nat /\ hi[d] \in Nat /\ at[d] \in Nat /\ appended \in Nat
  BY LocalFrame DEF Grows, Taken, WillBeTaken, PeekInv, DeliveryType
<1>1. CASE Ends(d)
  BY <1>1, EndsForgets, ForgetMoves
<1>2. CASE NextBatch(d)
  <2>1. PICK from \in cursor..high :
          /\ from < appended
          /\ lo' = [lo EXCEPT ![d] = from]
          /\ hi' = [hi EXCEPT ![d] = BatchEnd(from)]
          /\ at' = [at EXCEPT ![d] = from + 1]
    BY <1>2 DEF NextBatch
  <2>2. from \in Nat /\ from <= high
    BY DEF DeliveryType
  <2>3. BatchEnd(from) \in Nat /\ from < BatchEnd(from) /\ BatchEnd(from) <= appended
    BY <2>1, <2>2, BatchEndIs
  <2>4. Moves(d, "send", from, BatchEnd(from), from + 1) /\ MayDrain(d) /\ phase' = phase
    BY <1>2, <2>1 DEF NextBatch, Moves, Step, mainVars
  <2>5. \A r \in 1 .. from : WillBeTaken(r)
    BY <1>0, <2>2 DEF CursorInv, DeliveryType
  <2>6. Fits("send", from, BatchEnd(from), from + 1)
    BY <2>2, <2>3, <2>5 DEF Fits
  <2> QED
    BY <2>2, <2>3, <2>4, <2>6 DEF LocalMove, Steps
<1>3. CASE SendPoison(d)
  <2>1. Moves(d, "dead", lo[d], hi[d], at[d]) /\ phase' = phase /\ step[d] # "idle"
    BY <1>0, <1>3, StaysAt DEF SendPoison, mainVars, batchVars
  <2>2. Fits("dead", lo[d], hi[d], at[d])
    BY <1>0, <2>1 DEF Fits, Peeked
  <2> QED
    BY <1>0, <2>1, <2>2 DEF LocalMove, Steps
<1>4. CASE DeadLetter(d)
  <2>1. Moves(d, "deadack", lo[d], hi[d], at[d]) /\ phase' = phase /\ step[d] # "idle"
    BY <1>0, <1>4, StaysAt DEF DeadLetter, mainVars, batchVars
  <2>2. WillBeTaken(at[d])
    BY <1>4 DEF DeadLetter, WillBeTaken
  <2>3. Fits("deadack", lo[d], hi[d], at[d])
    BY <1>0, <2>1, <2>2 DEF Fits, Peeked
  <2> QED
    BY <1>0, <2>1, <2>3 DEF LocalMove, Steps
<1>5. CASE Retry(d, "sending")
  <2>1. Moves(d, "send", lo[d], hi[d], at[d]) /\ phase' = phase /\ step[d] # "idle"
    BY <1>0, <1>5, StaysAt DEF Retry, mainVars, batchVars
  <2>2. Fits("send", lo[d], hi[d], at[d])
    BY <1>0, <2>1 DEF Fits, Peeked
  <2> QED
    BY <1>0, <2>1, <2>2 DEF LocalMove, Steps
<1>6. CASE Retry(d, "committing")
  <2>1. Moves(d, "commit", lo[d], hi[d], at[d]) /\ phase' = phase /\ step[d] = "committing"
    BY <1>0, <1>6, StaysAt DEF Retry, mainVars, batchVars
  <2>2. Fits("commit", lo[d], hi[d], at[d])
    BY <1>0, <2>1 DEF Fits, Peeked
  <2> QED
    BY <1>0, <2>1, <2>2 DEF LocalMove, Steps
<1>7. CASE Sent(d) \/ DeadAck(d)
  <2>1. Advance(d) /\ UNCHANGED <<lo, hi, phase>> /\ step[d] # "idle"
    BY <1>7 DEF Sent, DeadAck, mainVars
  <2>2. Taken(at[d])
    BY <1>0, <1>7, <2>1 DEF Sent, DeadAck, Peeked
  <2> QED
    BY <1>0, <2>1, <2>2, AdvanceMoves
<1>8. CASE Committed(d)
  <2>1. step[d] = "committing" /\ ToAck(d) # {} /\ \A r \in 1 .. hi[d] : WillBeTaken(r)
    BY <1>0, <1>8 DEF Committed, Peeked
  <2>2. Min(ToAck(d)) \in Nat /\ lo[d] < Min(ToAck(d)) /\ Min(ToAck(d)) <= hi[d]
    BY <2>1, FirstToAck
  <2>3. PICK a \in Nat : a = Min(ToAck(d))
    BY <2>2
  <2>4. Moves(d, "ack", lo[d], hi[d], a) /\ phase' = phase
    BY <1>8, <2>3, StaysAt DEF Committed, mainVars
  <2>5. Fits("ack", lo[d], hi[d], a)
    <3>1. lo[d] < a /\ a <= hi[d]
      BY <2>2, <2>3
    <3>2. (lo[d] + 1 .. hi[d]) \ Poison # {}
      BY <2>1 DEF ToAck
    <3>3. hi[d] <= appended
      BY <1>0, <2>1 DEF Peeked
    <3> QED
      BY <1>0, <2>1, <3>1, <3>2, <3>3 DEF Fits
  <2> QED
    BY <1>0, <2>1, <2>4, <2>5 DEF LocalMove, Steps
<1>9. CASE Ack(d)
  <2> DEFINE rest == {r \in ToAck(d) : r > at[d]}
  <2>1. step[d] = "ack" /\ ToAck(d) # {} /\ \A r \in 1 .. hi[d] : WillBeTaken(r)
    BY <1>0, <1>9 DEF Ack, Peeked
  <2>2. phase' = phase
    BY <1>9 DEF Ack, mainVars
  <2>3. CASE Forget(d)
    BY <2>1, <2>2, <2>3, ForgetMoves
  <2>4. CASE ~Forget(d)
    <3>1. rest # {} /\ at' = [at EXCEPT ![d] = Min(rest)] /\ UNCHANGED <<step, lo, hi>>
      BY <1>9, <2>4 DEF Ack
    <3>2. Min(rest) \in Nat /\ lo[d] < Min(rest) /\ Min(rest) <= hi[d]
      BY <3>1, FirstToAck
    <3>3. Step(d, "ack")
      BY <2>1, <3>1 DEF Step, DeliveryType
    <3>4. Moves(d, "ack", lo[d], hi[d], Min(rest))
      BY <3>1, <3>2, <3>3, StaysAt
    <3> HIDE DEF rest
    <3>5. Fits("ack", lo[d], hi[d], Min(rest))
      BY <1>0, <2>1, <3>2 DEF Fits, ToAck, Peeked
    <3> QED
      BY <1>0, <2>1, <2>2, <3>2, <3>4, <3>5 DEF LocalMove, Steps
  <2> QED
    BY <2>3, <2>4
<1> QED
  BY <1>1, <1>2, <1>3, <1>4, <1>5, <1>6, <1>7, <1>8, <1>9 DEF LocalStep, Ends

LEMMA LocalGrows ==
    ASSUME DeliveryType, NEW d \in Goroutines, LocalStep(d)
    PROVE  Grows /\ errs' \in Nat /\ errs <= errs'
<1>1. dead \subseteq dead' /\ errs' \in Nat /\ errs <= errs'
  <2> USE DEF bufferVars, sinkVars, DeliveryType
  <2>1. CASE NextBatch(d) \/ SendPoison(d) \/ PoisonCancelled(d) \/ Sent(d)
    BY <2>1 DEF NextBatch, SendPoison, PoisonCancelled, Sent
  <2>2. CASE DeadLetter(d)
    BY <2>2 DEF DeadLetter
  <2>3. ASSUME NEW w, Retry(d, w) \/ Stall(d, w) PROVE dead \subseteq dead' /\ errs' \in Nat /\ errs <= errs'
    BY <2>3 DEF Retry, Stall
  <2>4. CASE DeadAck(d) \/ SkipCommit(d) \/ Committed(d) \/ Ack(d)
    BY <2>4 DEF DeadAck, SkipCommit, Committed, Ack, Acknowledge
  <2>5. CASE DeadLetterFails(d) \/ AckFails(d)
    BY <2>5 DEF DeadLetterFails, AckFails, Failing
  <2> QED
    BY <2>1, <2>2, <2>3, <2>4, <2>5 DEF LocalStep
<1> QED
  BY <1>1, LocalFrame DEF Grows, DeliveryType

(* A goroutine that takes a step of its own is in no call. *)
LEMMA LocalQuiet ==
    ASSUME SinkInv, DeliveryInv, NEW d \in Goroutines, LocalStep(d)
    PROVE  pc[d] = "idle"
<1> USE DEF DeliveryInv
<1>1. pc[d] \in PCs
  BY DeliveryAssumption DEF SinkInv, SinkType, Goroutines
<1>2. CASE step[d] \notin {"idle", "sending", "committing"}
  BY <1>1, <1>2 DEF CallerInv, InCall, PCs, Writing
<1>3. CASE step[d] \in {"sending", "committing"}
  <2>1. Sent(d) \/ Retry(d, "sending") \/ Stall(d, "sending") \/ Committed(d)
        \/ Retry(d, "committing") \/ Stall(d, "committing")
    BY <1>3 DEF LocalStep, NextBatch, SendPoison, PoisonCancelled, DeadLetter, DeadAck, SkipCommit,
                Ack, DeadLetterFails, AckFails
  <2> QED
    BY <2>1 DEF Sent, Retry, Stall, Committed
<1>4. CASE step[d] = "idle"
  <2>1. MayDrain(d)
    BY <1>4 DEF LocalStep, NextBatch, SendPoison, PoisonCancelled, DeadLetter, DeadAck, SkipCommit,
                Ack, DeadLetterFails, AckFails, Sent, Retry, Stall, Committed
  <2>2. CASE d = Main
    BY <1>4, <2>1, <2>2, DeliveryAssumption DEF MayDrain, PhaseInv
  <2>3. CASE d # Main
    BY <1>1, <1>4, <2>3 DEF CallerInv, InCall, PCs, Writing
  <2> QED
    BY <2>2, <2>3
<1> QED
  BY <1>2, <1>3, <1>4

LEMMA LocalCursor ==
    ASSUME DeliveryInv, NEW d \in Goroutines, LocalStep(d), Grows
    PROVE  CursorInv' /\ cursor' \in Nat /\ saved' \in Nat /\ high' \in Nat
<1> USE DEF DeliveryInv
<1>1. CASE DeadAck(d) \/ Ack(d) \/ AckFails(d)
  <2>1. step[d] \in {"deadack", "ack"}
    BY <1>1 DEF DeadAck, Ack, AckFails
  <2>2. Peeked(d) /\ at[d] \in Nat /\ hi[d] \in Nat
    BY <2>1 DEF PeekInv, DeliveryType
  <2>3. \A r \in 1 .. at[d] : Taken(r)
    BY <2>1, <2>2 DEF Peeked
  <2>4. \A r \in 1 .. at[d] : WillBeTaken(r)
    BY <2>3 DEF Grows, Taken, WillBeTaken
  <2>5. cursor' = at[d] /\ saved' \in {saved, at[d]} /\ high' = IF at[d] > high THEN at[d] ELSE high
    BY <1>1 DEF DeadAck, Ack, AckFails, Acknowledge
  <2> QED
    BY <2>2, <2>4, <2>5, CursorMoves
<1>2. CASE ~(DeadAck(d) \/ Ack(d) \/ AckFails(d))
  <2>1. UNCHANGED <<cursor, saved, high>>
    BY <1>2 DEF LocalStep, NextBatch, SendPoison, PoisonCancelled, DeadLetter, SkipCommit,
                DeadLetterFails, Sent, Retry, Stall, Committed, bufferVars
  <2> QED
    BY <2>1, CursorStays
<1> QED
  BY <1>1, <1>2

LEMMA LocalKeeps ==
    ASSUME SinkInv, DeliveryInv, NEW d \in Goroutines, LocalStep(d)
    PROVE  DeliveryInv'
<1> USE DEF DeliveryInv
<1>1. Grows /\ errs' \in Nat /\ UNCHANGED <<pc, arg, ret, appended>> /\ pc[d] = "idle"
  BY LocalGrows, LocalFrame, LocalQuiet
<1>2. PICK s \in Steps, l \in Nat, h \in Nat, a \in Nat :
        /\ Moves(d, s, l, h, a) /\ Fits(s, l, h, a)
        /\ phase' = phase \/ (d = Main /\ s = "idle" /\ phase' = "flush")
  BY <1>1, LocalMoves DEF LocalMove
<1>3. step[d] # "idle" \/ MayDrain(d)
  BY <1>1, LocalMoves DEF LocalMove
<1>4. /\ step' \in [Goroutines -> Steps]
      /\ lo' \in [Goroutines -> Nat] /\ hi' \in [Goroutines -> Nat] /\ at' \in [Goroutines -> Nat]
      /\ step'[d] = s /\ lo'[d] = l /\ hi'[d] = h /\ at'[d] = a
      /\ \A e \in Goroutines \ {d} : Still(e)
  BY <1>1, <1>2, MovesOne DEF Still
<1>5. DeliveryType'
  <2>1. phase' \in Phases
    BY <1>2 DEF DeliveryType, Phases
  <2> QED
    BY <1>1, <1>4, <2>1, LocalCursor DEF DeliveryType
<1>6. step'[d] # "idle" => Peeked(d)'
  BY <1>1, <1>2, <1>4 DEF Peeked, Fits, ToAck, Taken, WillBeTaken
<1>7. PeekInv'
  BY <1>1, <1>4, <1>6, PeekFromOne DEF DeliveryType
<1>8. CallerInv'
  BY <1>1, <1>4, CallsFromOne DEF InCall, Writing
<1>9. PhaseInv'
  <2>1. CASE d = Main
    BY <1>1, <1>2, <1>3, <1>4, <2>1, DeliveryAssumption DEF PhaseInv, MayDrain, Still, Goroutines
  <2>2. CASE d = Run
    BY <1>1, <1>2, <1>3, <1>4, <2>2, DeliveryAssumption DEF PhaseInv, MayDrain, Still, Goroutines
  <2> QED
    BY <2>1, <2>2 DEF Goroutines
<1> QED
  BY <1>1, <1>5, <1>7, <1>8, <1>9, LocalCursor

-----------------------------------------------------------------------------
(* Calls on the sink. *)

LEMMA CallersAre == Callers = Goroutines
BY DeliveryAssumption DEF Goroutines

LEMMA FlushCall ==
    ASSUME SinkInv, DeliveryType, NEW c \in Goroutines, NEW force \in BOOLEAN, Flush(c, force)
    PROVE  /\ pc'[c] \in {"idle", "put"}
           /\ \A e \in Goroutines \ {c} : pc'[e] = pc[e] /\ arg'[e] = arg[e] /\ ret'[e] = ret[e]
           /\ ret' \in [Callers -> {"ok", "err"}]
           /\ UNCHANGED <<written, errs, crashes, dropped, unlisted, crashLost>>
<1> USE CallersAre DEF SinkInv, SinkType, DeliveryType, sinkHist
<1>1. UNCHANGED <<written, errs, crashes, dropped, unlisted, crashLost>>
  BY DEF Flush
<1>2. CASE Return(c, "ok")
  BY <1>1, <1>2 DEF Return, Goto
<1>3. CASE Goto(c, "put") /\ UNCHANGED <<arg, ret>>
  BY <1>1, <1>3 DEF Goto
<1> QED
  BY <1>2, <1>3 DEF Flush

(* A flush of the service's loop or its shutdown: Main is not in DrainOnce. *)
MainFlush(where, force) ==
    /\ Flush(Main, force) /\ phase' = where
    /\ UNCHANGED <<bufferVars, drainVars>>

LEMMA MainFlushKeeps ==
    ASSUME SinkInv, DeliveryInv, NEW force \in BOOLEAN, phase # "drain",
           NEW where \in Phases \ {"drain", "stopped"}, MainFlush(where, force),
           where \in {"shutdown", "closing"} => phase \in {"shutdown", "closing"}
    PROVE  DeliveryInv'
<1> USE CallersAre DEF DeliveryInv
<1>0. Main \in Goroutines
  BY DEF Goroutines
<1>1. /\ pc'[Main] \in {"idle", "put"}
      /\ \A e \in Goroutines \ {Main} : pc'[e] = pc[e] /\ arg'[e] = arg[e] /\ ret'[e] = ret[e]
      /\ ret' \in [Callers -> {"ok", "err"}]
      /\ UNCHANGED <<written, errs>>
  BY <1>0, FlushCall DEF MainFlush
<1>2. UNCHANGED <<appended, cursor, saved, high, dead, step, lo, hi, at>> /\ phase' = where
  BY DEF MainFlush, bufferVars, drainVars, batchVars
<1>3. Grows /\ \A e \in Goroutines \ {Main} : Still(e)
  BY <1>1, <1>2 DEF Grows, Still, DeliveryType
<1>4. step[Main] = "idle" /\ step'[Main] = "idle"
  BY <1>2 DEF PhaseInv
<1>5. DeliveryType'
  BY <1>1, <1>2 DEF DeliveryType
<1>6. PeekInv'
  BY <1>0, <1>2, <1>3, <1>4, PeekFromOne DEF DeliveryType
<1>7. CallerInv'
  BY <1>0, <1>1, <1>3, <1>4, CallsFromOne DEF InCall, Writing
<1>8. PhaseInv'
  BY <1>2, <1>4 DEF PhaseInv, Phases
<1>9. CursorInv'
  BY <1>2, <1>3, CursorStays
<1> QED
  BY <1>5, <1>6, <1>7, <1>8, <1>9

(* DrainOnce hands a record to the sink, or commits. *)
LEMMA CallKeeps ==
    ASSUME SinkInv, DeliveryInv, NEW d \in Goroutines, Send(d) \/ Commit(d)
    PROVE  DeliveryInv'
<1> USE CallersAre DEF DeliveryInv
<1> DEFINE w == IF Send(d) THEN "sending" ELSE "committing"
<1>1. /\ pc'[d] \in (IF Send(d) THEN {"exists", "add"} ELSE {"idle", "put"})
      /\ Send(d) => arg'[d] = at[d]
      /\ \A e \in Goroutines \ {d} : pc'[e] = pc[e] /\ arg'[e] = arg[e] /\ ret'[e] = ret[e]
      /\ ret' \in [Callers -> {"ok", "err"}]
      /\ UNCHANGED <<written, errs>>
  <2>1. CASE Send(d)
    BY <2>1 DEF Send, Write, Goto, SinkInv, SinkType, DeliveryType, sinkHist
  <2>2. CASE ~Send(d)
    BY <2>2, FlushCall DEF Commit
  <2> QED
    BY <2>1, <2>2
<1>2. /\ UNCHANGED <<appended, cursor, saved, high, dead, lo, hi, at, phase>>
      /\ step' = [step EXCEPT ![d] = w] /\ step[d] # "idle"
  BY DEF Send, Commit, Step, bufferVars, batchVars, mainVars
<1>3. /\ step' \in [Goroutines -> Steps] /\ step'[d] = w /\ w \in Steps
      /\ \A e \in Goroutines \ {d} : step'[e] = step[e]
  BY <1>2 DEF DeliveryType, Steps
<1>4. Grows /\ \A e \in Goroutines \ {d} : Still(e)
  BY <1>1, <1>2, <1>3 DEF Grows, Still, DeliveryType
<1>5. DeliveryType'
  BY <1>1, <1>2, <1>3 DEF DeliveryType
<1>6. Peeked(d)'
  <2>1. Peeked(d) /\ ToAck(d)' = ToAck(d) /\ \A r : Taken(r)' <=> Taken(r)
    BY <1>1, <1>2 DEF PeekInv, ToAck, Taken
  <2>2. CASE Send(d)
    BY <1>1, <1>2, <1>3, <2>1, <2>2 DEF Peeked, Taken
  <2>3. CASE ~Send(d)
    BY <1>1, <1>2, <1>3, <2>1, <2>3 DEF Peeked, Taken, Commit
  <2> QED
    BY <2>2, <2>3
<1>7. PeekInv'
  BY <1>2, <1>4, <1>6, PeekFromOne DEF DeliveryType
<1>8. CallerInv'
  BY <1>1, <1>2, <1>3, <1>4, CallsFromOne DEF InCall, Writing
<1>9. PhaseInv'
  <2>1. CASE d = Main
    BY <1>2, <1>3, <1>4, <2>1, DeliveryAssumption DEF PhaseInv, Still, Goroutines
  <2>2. CASE d = Run
    BY <1>2, <1>3, <1>4, <2>2, DeliveryAssumption DEF PhaseInv, Still, Goroutines
  <2> QED
    BY <2>1, <2>2 DEF Goroutines
<1>10. CursorInv'
  BY <1>2, <1>4, CursorStays
<1> QED
  BY <1>5, <1>7, <1>8, <1>9, <1>10

(* What a step inside a call does to its caller: a Write that returns nil has the record. *)
LEMMA CallProgress ==
    ASSUME SinkInv, DeliveryType, NEW c \in Goroutines, SinkStep(c) \/ SinkFailure(c)
    PROVE  /\ pc[c] \in Writing \cup {"put"}
           /\ \A e \in Goroutines \ {c} : pc'[e] = pc[e] /\ arg'[e] = arg[e] /\ ret'[e] = ret[e]
           /\ ret' \in [Callers -> {"ok", "err"}]
           /\ written \subseteq written' /\ errs' \in Nat /\ errs <= errs'
           /\ UNCHANGED <<crashes, crashLost>>
           /\ pc[c] \in Writing =>
                \/ pc'[c] \in Writing /\ arg'[c] = arg[c]
                \/ pc'[c] = "idle" /\ ret'[c] = "err"
                \/ pc'[c] = "idle" /\ arg[c] \in written'
           /\ pc[c] = "put" => pc'[c] \in {"idle", "put"}
           /\ errs' = errs => /\ UNCHANGED <<dropped, unlisted>>
                              /\ pc[c] = "put" => UNCHANGED pending
<1> USE CallersAre DEF SinkInv, SinkType, DeliveryType, sinkHist, Writing
<1>1. CASE BlobExists(c) \/ PutBlob(c) \/ PutBlobTable(c)
  BY <1>1 DEF BlobExists, PutBlob, PutBlobTable, Goto
<1>2. CASE AddRow(c)
  BY <1>2 DEF AddRow, Return, Goto
<1>3. CASE WriteFails(c)
  BY <1>3 DEF WriteFails, Return, Goto, Failing
<1>4. CASE PutFile(c)
  BY <1>4 DEF PutFile, callVars
<1>5. CASE PutManifest(c)
  BY <1>5 DEF PutManifest, Return, Goto
<1>6. CASE PutFileFails(c)
  BY <1>6 DEF PutFileFails, Return, Goto, Failing
<1>7. CASE PutManifestFails(c)
  BY <1>7 DEF PutManifestFails, Return, Goto, Failing
<1> QED
  BY <1>1, <1>2, <1>3, <1>4, <1>5, <1>6, <1>7 DEF SinkStep, SinkFailure

LEMMA ProgressKeeps ==
    ASSUME SinkInv, DeliveryInv, NEW d \in Goroutines, SinkStep(d) \/ SinkFailure(d),
           UNCHANGED <<bufferVars, drainVars, mainVars>>
    PROVE  DeliveryInv'
<1> USE CallersAre DEF DeliveryInv
<1>1. UNCHANGED <<appended, cursor, saved, high, dead, step, lo, hi, at, phase>>
  BY DEF bufferVars, drainVars, batchVars, mainVars
<1>2. Grows /\ \A e \in Goroutines \ {d} : Still(e)
  BY <1>1, CallProgress DEF Grows, Still, DeliveryType
<1>3. DeliveryType'
  BY <1>1, CallProgress DEF DeliveryType
<1>4. step'[d] # "idle" => Peeked(d)'
  <2> SUFFICES ASSUME step[d] # "idle" PROVE Peeked(d)'
    BY <1>1
  <2>1. Peeked(d) /\ ToAck(d)' = ToAck(d) /\ (\A r : Taken(r) => WillBeTaken(r)) /\ InCall(d)
    BY <1>1, <1>2 DEF PeekInv, ToAck, Taken, WillBeTaken, Grows, CallerInv
  <2>2. step[d] = "sending" /\ pc'[d] = "idle" /\ ret'[d] = "ok" => WillBeTaken(at[d])
    <3> SUFFICES ASSUME step[d] = "sending", pc'[d] = "idle", ret'[d] = "ok" PROVE WillBeTaken(at[d])
      OBVIOUS
    <3>1. pc[d] \in Writing /\ arg[d] = at[d]
      BY <2>1, CallProgress DEF InCall
    <3>2. arg[d] \in written'
      BY <3>1, CallProgress DEF Writing
    <3> QED
      BY <3>1, <3>2 DEF WillBeTaken
  <2>3. Taken(at[d])' = WillBeTaken(at[d]) /\ \A r : Taken(r)' = WillBeTaken(r)
    BY <1>1 DEF Taken, WillBeTaken
  <2> QED
    BY <1>1, <2>1, <2>2, <2>3 DEF Peeked
<1>5. PeekInv'
  BY <1>1, <1>2, <1>4, PeekFromOne DEF DeliveryType
<1>6. CallerInv'
  <2>1. InCall(d) /\ pc[d] \in Writing \cup {"put"}
    BY CallProgress DEF CallerInv
  <2>2. ASSUME pc[d] \in Writing PROVE InCall(d)'
    BY <1>1, <2>1, <2>2, CallProgress DEF InCall, Writing
  <2>3. ASSUME pc[d] = "put" PROVE InCall(d)'
    BY <1>1, <2>1, <2>3, CallProgress DEF InCall, Writing
  <2>4. InCall(d)'
    BY <2>1, <2>2, <2>3
  <2> QED
    BY <1>2, <2>4, CallsFromOne
<1>7. PhaseInv'
  <2>1. Main \in Goroutines
    BY DEF Goroutines
  <2>2. pc[Main] = "idle" => pc'[Main] = "idle"
    BY <2>1, CallProgress DEF Writing
  <2> QED
    BY <1>1, <2>2 DEF PhaseInv
<1>8. CursorInv'
  BY <1>1, <1>2, CursorStays
<1> QED
  BY <1>3, <1>5, <1>6, <1>7, <1>8

-----------------------------------------------------------------------------
(* The service and the process. *)

(* Only Main moves, between phases, or nothing but the buffer's log and cursor file. *)
LEMMA PhaseKeeps ==
    ASSUME DeliveryInv, UNCHANGED <<pc, arg, ret, written, errs, dead, step, lo, hi, at>>,
           phase' \in Phases, PhaseInv', cursor' = cursor, saved' \in {saved, cursor}, high' = high,
           appended' \in Nat, appended <= appended', 1 .. appended' \subseteq Recs
    PROVE  DeliveryInv'
<1> USE DEF DeliveryInv
<1>1. Grows /\ \A e \in Goroutines : Still(e)
  BY DEF Grows, Still
<1>2. DeliveryType'
  BY DEF DeliveryType
<1>3. PeekInv' /\ CallerInv'
  BY <1>1, StillPeeked DEF PeekInv, CallerInv, InCall, Still
<1> QED
  BY <1>1, <1>2, <1>3, CursorStays

LEMMA AppendKeeps == ASSUME DeliveryInv, AppendRecord PROVE DeliveryInv'
<1> USE DEF DeliveryInv
<1>1. UNCHANGED <<pc, arg, ret, written, errs, dead, step, lo, hi, at, phase, cursor, saved, high>>
      /\ appended' = appended + 1 /\ appended + 1 \in Recs
  BY DEF AppendRecord, sinkVars, callVars, sinkHist, drainVars, batchVars, mainVars
<1>2. 1 .. appended' \subseteq Recs
  BY <1>1 DEF DeliveryType
<1>3. PhaseInv' /\ phase' \in Phases
  BY <1>1 DEF PhaseInv, DeliveryType
<1> QED
  BY <1>1, <1>2, <1>3, PhaseKeeps DEF DeliveryType

LEMMA MainKeeps ==
    ASSUME SinkInv, DeliveryInv, MainStep \/ BeginDrain \/ SourceFails
    PROVE  DeliveryInv'
<1> USE DEF DeliveryInv
<1>1. CASE TickerFlush
  <2>1. phase = "serving" /\ MainFlush("serving", FALSE)
    BY <1>1 DEF TickerFlush, MainAt, MainFlush, mainVars
  <2> QED
    BY <2>1, MainFlushKeeps DEF Phases
<1>2. CASE DrainFlush
  <2>1. phase = "flush" /\ MainFlush("flushing", TRUE)
    BY <1>2 DEF DrainFlush, MainAt, MainGoto, MainFlush
  <2> QED
    BY <2>1, MainFlushKeeps DEF Phases
<1>3. CASE ShutdownFlush
  <2>1. phase = "shutdown" /\ MainFlush("closing", TRUE)
    BY <1>3 DEF ShutdownFlush, MainAt, MainGoto, MainFlush
  <2> QED
    BY <2>1, MainFlushKeeps DEF Phases
<1>4. CASE BeginDrain \/ SourceFails \/ EndDrain \/ StopDelivery \/ DeliveryDone \/ CloseBuffer
  <2>1. UNCHANGED <<pc, arg, ret, written, errs, dead, step, lo, hi, at, cursor, high, appended>>
        /\ saved' \in {saved, cursor}
    BY <1>4 DEF BeginDrain, SourceFails, EndDrain, StopDelivery, DeliveryDone, CloseBuffer,
                sinkVars, callVars, sinkHist, bufferVars, drainVars, batchVars
  <2>2. PhaseInv' /\ phase' \in Phases
    <3>1. CASE BeginDrain
      BY <2>1, <3>1 DEF BeginDrain, MainAt, PhaseInv, Phases
    <3>2. CASE SourceFails
      BY <2>1, <3>2 DEF SourceFails, MainAt, PhaseInv, Phases
    <3>3. CASE EndDrain \/ StopDelivery
      BY <2>1, <3>3 DEF EndDrain, StopDelivery, MainAt, MainGoto, PhaseInv, Phases
    <3>4. CASE DeliveryDone \/ CloseBuffer
      BY <2>1, <3>4 DEF DeliveryDone, CloseBuffer, MainAt, MainGoto, PhaseInv, Phases
    <3> QED
      BY <1>4, <3>1, <3>2, <3>3, <3>4
  <2> QED
    BY <2>1, <2>2, PhaseKeeps DEF DeliveryType
<1> QED
  BY <1>1, <1>2, <1>3, <1>4 DEF MainStep

(* A new process, after a shutdown or a kill. *)
LEMMA ProcessKeeps ==
    ASSUME DeliveryInv, NewSink, NewProcess
    PROVE  DeliveryInv'
<1> USE CallersAre DEF DeliveryInv
<1>1. /\ UNCHANGED <<appended, saved, high, dead, written, errs, ret>> /\ cursor' = saved
      /\ phase' = "serving"
      /\ \A d \in Goroutines : step'[d] = "idle" /\ pc'[d] = "idle"
  BY DEF NewProcess, NewSink
<1>2. DeliveryType'
  BY <1>1 DEF NewProcess, DeliveryType, Phases, Steps
<1>3. PeekInv' /\ CallerInv' /\ PhaseInv'
  BY <1>1 DEF PeekInv, CallerInv, InCall, PhaseInv, Writing, Goroutines
<1>4. Grows
  BY <1>1 DEF Grows, DeliveryType
<1> QED
  BY <1>1, <1>2, <1>3, <1>4, CursorStays

LEMMA DeliveryInvIsInductive ==
    ASSUME SinkInv, DeliveryInv, [Next]_vars
    PROVE  DeliveryInv'
<1>1. ASSUME NEW d \in Goroutines, DrainStep(d) \/ DeadLetterFails(d) \/ AckFails(d) PROVE DeliveryInv'
  BY <1>1, LocalKeeps, CallKeeps DEF DrainStep, LocalStep
<1>2. ASSUME NEW d \in Goroutines, InSink(SinkStep(d)) \/ InSink(SinkFailure(d)) PROVE DeliveryInv'
  BY <1>2, ProgressKeeps DEF InSink
<1>a. ASSUME UNCHANGED <<callVars, written, errs, bufferVars, drainVars, mainVars>> PROVE DeliveryInv'
  <2>1. UNCHANGED <<pc, arg, ret, written, errs, dead, step, lo, hi, at, phase, cursor, saved, high, appended>>
    BY <1>a DEF callVars, bufferVars, drainVars, batchVars, mainVars
  <2>2. PhaseInv' /\ phase' \in Phases
    BY <2>1 DEF PhaseInv, DeliveryInv, DeliveryType
  <2> QED
    BY <2>1, <2>2, PhaseKeeps DEF DeliveryInv, DeliveryType
<1>3. ASSUME NEW p \in Parts, InSink(Age(p)) PROVE DeliveryInv'
  BY <1>a, <1>3 DEF InSink, Age, sinkHist
<1>4. CASE UNCHANGED vars
  BY <1>a, <1>4 DEF vars, sinkVars, sinkHist
<1>5. CASE Restart \/ Kill
  BY <1>5, ProcessKeeps DEF Restart, Kill, SinkCrash
<1> QED
  BY <1>1, <1>2, <1>3, <1>4, <1>5, AppendKeeps, MainKeeps DEF Next

(***************************************************************************)
(* Every step of Delivery is a step of the sink.                           *)
(***************************************************************************)
LEMMA DeliveryMovesSink ==
    ASSUME DeliveryInv, [Next]_vars
    PROVE  [SinkMove]_sinkCore
<1> USE CallersAre
<1>1. ASSUME NEW d \in Goroutines, LocalStep(d) PROVE UNCHANGED sinkCore
  <2> USE DEF sinkVars, sinkCore
  <2>1. ASSUME NEW w, Retry(d, w) \/ Stall(d, w) PROVE UNCHANGED sinkCore
    BY <2>1 DEF Retry, Stall
  <2> QED
    BY <1>1, <2>1 DEF LocalStep, NextBatch, SendPoison, PoisonCancelled, Sent, DeadLetter, DeadAck,
           SkipCommit, Committed, Ack, DeadLetterFails, AckFails
<1>2. ASSUME NEW d \in Goroutines, Send(d) PROVE SinkMove
  <2>1. at[d] \in 1 .. appended
    BY <1>2 DEF Send, DeliveryInv, PeekInv, Peeked, DeliveryType
  <2>2. at[d] \in Recs
    BY <2>1 DEF DeliveryInv, DeliveryType
  <2> QED
    BY <1>2, <2>2 DEF Send, SinkMove
<1>3. ASSUME NEW d \in Goroutines, Commit(d) PROVE SinkMove
  BY <1>3 DEF Commit, SinkMove
<1>4. ASSUME NEW d \in Goroutines, InSink(SinkStep(d)) \/ InSink(SinkFailure(d)) PROVE SinkMove
  BY <1>4 DEF InSink, SinkMove
<1>5. ASSUME NEW p \in Parts, InSink(Age(p)) PROVE SinkMove
  BY <1>5 DEF InSink, SinkMove
<1>6. CASE TickerFlush \/ DrainFlush \/ ShutdownFlush
  BY <1>6 DEF TickerFlush, DrainFlush, ShutdownFlush, SinkMove, Goroutines
<1>7. CASE AppendRecord \/ BeginDrain \/ SourceFails \/ EndDrain \/ StopDelivery \/ DeliveryDone \/ CloseBuffer
  BY <1>7 DEF AppendRecord, BeginDrain, SourceFails, EndDrain, StopDelivery, DeliveryDone, CloseBuffer,
              sinkVars, sinkCore
<1>8. CASE Restart \/ Kill
  BY <1>8 DEF Restart, Kill, SinkCrash, SinkMove
<1>9. CASE UNCHANGED vars
  BY <1>9 DEF vars, sinkVars, sinkCore
<1>10. ASSUME NEW d \in Goroutines, DrainStep(d) \/ DeadLetterFails(d) \/ AckFails(d)
       PROVE  [SinkMove]_sinkCore
  BY <1>1, <1>2, <1>3, <1>10 DEF DrainStep, LocalStep
<1> QED
  BY <1>4, <1>5, <1>6, <1>7, <1>8, <1>9, <1>10 DEF Next, MainStep

LEMMA InitDelivery == Init => SinkInv /\ DeliveryInv
<1> SUFFICES ASSUME Init PROVE SinkInv /\ DeliveryInv
  OBVIOUS
<1> USE CallersAre
<1>1. SinkInv
  BY InitSink DEF Init
<1>2. DeliveryType
  BY DEF Init, SinkInit, DeliveryType, Phases, Steps
<1>3. PeekInv /\ CallerInv /\ PhaseInv /\ CursorInv
  BY DEF Init, SinkInit, PeekInv, CallerInv, InCall, PhaseInv, CursorInv, Writing, Goroutines
<1> QED
  BY <1>1, <1>2, <1>3 DEF DeliveryInv

\* In every state of the composed system: a goroutine is in the call its step has made, all
\* that a batch has behind it is taken, and so is everything up to the furthest cursor.
THEOREM DeliveryInvHolds == Spec => [](SinkInv /\ DeliveryInv)
<1>1. SinkInv /\ DeliveryInv /\ [Next]_vars => (SinkInv /\ DeliveryInv)'
  BY DeliveryInvIsInductive, DeliveryMovesSink, SinkInvIsInductive
<1> QED
  BY <1>1, InitDelivery, PTL DEF Spec

\* The cursor never passes a record that neither the sink nor the dead-letter directory has
\* taken, for every batch size and number of attempts and whatever fails, although two
\* goroutines deliver at once and the cursor moves back (delivery.go, deliverBatch).
THEOREM AckedRecordsWereTaken == Spec => []AckedWasTaken
<1>1. DeliveryInv => AckedWasTaken
  <2> SUFFICES ASSUME DeliveryInv, NEW r \in 1 .. cursor PROVE r \in written \cup dead
    BY DEF AckedWasTaken
  <2>1. r \in 1 .. high
    BY DEF DeliveryInv, CursorInv, DeliveryType
  <2> QED
    BY <2>1 DEF DeliveryInv, CursorInv, Taken
<1> QED
  BY <1>1, DeliveryInvHolds, PTL

\* What the sink promises its callers it keeps under delivery, where a record is written again
\* after a failure and by two goroutines at once: whole batches, rows accounted for, blobs.
THEOREM SinkKeepsItsWord == Spec => [](NoHalfBatch /\ RowsAccounted /\ BlobsResolve)
<1>1. Init => NoHalfBatch /\ RowsAccounted /\ BlobInv
  BY InitBlobs DEF Init, SinkInit, NoHalfBatch, RowsAccounted
<1>2. SinkInv /\ DeliveryInv /\ (NoHalfBatch /\ RowsAccounted /\ BlobInv) /\ [Next]_vars
      => (NoHalfBatch /\ RowsAccounted /\ BlobInv)'
  BY DeliveryMovesSink, BatchStep, AccountStep, BlobStep
<1> QED
  BY <1>1, <1>2, VisibleResolve, DeliveryInvHolds, PTL DEF Spec

-----------------------------------------------------------------------------
(* A graceful shutdown. *)

(* The process has stopped, or is about to, without a failure: nothing is in memory. *)
LEMMA NothingInMemory ==
    ASSUME SinkInv, DeliveryInv, ShutdownInv, errs = 0, phase = "stopped"
    PROVE  InMemory = {}
<1> USE CallersAre DEF SinkInv, SinkType, DeliveryInv
<1>1. \A p \in Parts : Range(pending[p].rows) = {}
  BY RangeEmpty DEF ShutdownInv
<1>2. ASSUME NEW c \in Callers PROVE RowsTaken(flush[c]) = {}
  <2>1. pc[c] # "put"
    <3>1. CASE c = Main
      BY <3>1 DEF PhaseInv
    <3>2. CASE c = Run
      BY <3>2, DeliveryAssumption DEF PhaseInv, CallerInv, InCall
    <3> QED
      BY <3>1, <3>2 DEF Goroutines
  <2> QED
    BY <2>1, NoFlushTakes DEF CallInv
<1>3. \A r : r \notin InMemory
  BY <1>1, <1>2 DEF InMemory
<1> QED
  BY <1>3

(* The last flush takes every row there is. *)
LEMMA FlushTakesAll ==
    ASSUME SinkInv, NEW c \in Callers, Flush(c, TRUE)
    PROVE  \A p \in Parts : pending'[p].rows = <<>>
<1>1. CASE Due(TRUE) = {}
  BY <1>1 DEF Flush, Due
<1>2. CASE Due(TRUE) # {}
  <2>1. pending' = NotDue(TRUE)
    BY <1>2 DEF Flush
  <2> QED
    BY <2>1 DEF NotDue, Due, NoRows
<1> QED
  BY <1>1, <1>2

LEMMA ShutdownStep ==
    ASSUME SinkInv, DeliveryInv, ShutdownInv, [Next]_vars
    PROVE  ShutdownInv'
<1> USE CallersAre DEF DeliveryInv
<1>a. ASSUME UNCHANGED <<dropped, unlisted, crashLost, crashes, pending>>, errs <= errs', errs' \in Nat,
             phase' \in {"closing", "stopped"} => phase \in {"closing", "stopped"}
      PROVE  ShutdownInv'
  BY <1>a DEF ShutdownInv, Gone, DeliveryType
<1>1. ASSUME NEW d \in Goroutines, LocalStep(d) PROVE ShutdownInv'
  <2>1. phase' = phase \/ phase' = "flush"
    BY <1>1, LocalGrows, LocalMoves DEF LocalMove
  <2> QED
    BY <1>1, <1>a, <2>1, LocalFrame, LocalGrows
<1>2. ASSUME NEW d \in Goroutines, Send(d) \/ Commit(d) PROVE ShutdownInv'
  <2>1. phase' = phase /\ step[d] # "idle"
    BY <1>2 DEF Send, Commit, mainVars
  <2>2. phase \notin {"closing", "stopped"}
    BY <2>1 DEF PhaseInv, Goroutines
  <2>3. UNCHANGED <<errs, crashes, dropped, unlisted, crashLost>>
    BY <1>2, FlushCall DEF Send, Commit, Write, sinkHist
  <2> QED
    BY <2>1, <2>2, <2>3 DEF ShutdownInv, Gone
<1>3. ASSUME NEW d \in Goroutines, SinkStep(d) \/ SinkFailure(d), phase' = phase PROVE ShutdownInv'
  <2>1. CASE errs' # errs
    BY <1>3, <2>1, CallProgress DEF ShutdownInv, DeliveryType
  <2>2. CASE errs' = errs
    <3>1. Gone' = Gone /\ crashes' = crashes
      BY <1>3, <2>2, CallProgress DEF Gone
    <3>2. ASSUME phase \in {"closing", "stopped"} PROVE UNCHANGED pending
      <4>1. step[d] = "idle"
        BY <3>2 DEF PhaseInv, Goroutines
      <4>2. pc[d] = "put"
        BY <1>3, <4>1, CallProgress DEF CallerInv, InCall
      <4> QED
        BY <1>3, <2>2, <4>2, CallProgress
    <3> QED
      BY <1>3, <2>2, <3>1, <3>2 DEF ShutdownInv
  <2> QED
    BY <2>1, <2>2
<1>4. ASSUME NEW p \in Parts, InSink(Age(p)) PROVE ShutdownInv'
  <2>1. UNCHANGED <<errs, crashes, dropped, unlisted, crashLost, phase>>
    BY <1>4 DEF InSink, Age, sinkHist, mainVars
  <2>2. \A q \in Parts : pending'[q].rows = pending[q].rows
    BY <1>4, AgeStep DEF InSink
  <2> QED
    BY <2>1, <2>2 DEF ShutdownInv, Gone
<1>5. CASE TickerFlush \/ DrainFlush
  <2>1. phase' \notin {"closing", "stopped"}
    BY <1>5 DEF TickerFlush, DrainFlush, MainAt, MainGoto, mainVars
  <2>2. UNCHANGED <<errs, crashes, dropped, unlisted, crashLost>>
    BY <1>5, FlushCall DEF TickerFlush, DrainFlush, Goroutines
  <2> QED
    BY <2>1, <2>2 DEF ShutdownInv, Gone
<1>6. CASE ShutdownFlush
  <2>1. Main \in Goroutines /\ Flush(Main, TRUE)
    BY <1>6 DEF ShutdownFlush, Goroutines
  <2>2. UNCHANGED <<errs, crashes, dropped, unlisted, crashLost>>
    BY <2>1, FlushCall
  <2> QED
    BY <2>1, <2>2, FlushTakesAll DEF ShutdownInv, Gone
<1>7. CASE AppendRecord \/ BeginDrain \/ SourceFails \/ EndDrain \/ StopDelivery \/ DeliveryDone \/ CloseBuffer
  <2>1. UNCHANGED <<dropped, unlisted, crashLost, crashes, pending, errs>>
    BY <1>7 DEF AppendRecord, BeginDrain, SourceFails, EndDrain, StopDelivery, DeliveryDone, CloseBuffer,
                sinkVars, sinkMem, sinkHist
  <2>2. phase' \in {"closing", "stopped"} => phase \in {"closing", "stopped"}
    BY <1>7 DEF AppendRecord, BeginDrain, SourceFails, EndDrain, StopDelivery, DeliveryDone, CloseBuffer,
                MainAt, MainGoto, mainVars
  <2> QED
    BY <1>a, <2>1, <2>2 DEF DeliveryType
<1>8. CASE Restart
  <2>1. phase = "stopped" /\ phase' = "serving" /\ UNCHANGED <<errs, crashes, dropped, unlisted>>
        /\ crashLost' = crashLost \cup InMemory
    BY <1>8 DEF Restart, NewSink, NewProcess
  <2> QED
    BY <2>1, NothingInMemory DEF ShutdownInv, Gone
<1>9. CASE Kill
  BY <1>9 DEF Kill, SinkCrash, NewProcess, ShutdownInv
<1>10. CASE UNCHANGED vars
  BY <1>a, <1>10 DEF vars, sinkVars, sinkMem, sinkHist, mainVars, DeliveryType
<1>11. ASSUME NEW d \in Goroutines, DrainStep(d) \/ DeadLetterFails(d) \/ AckFails(d) PROVE ShutdownInv'
  BY <1>1, <1>2, <1>11 DEF DrainStep, LocalStep
<1>12. ASSUME NEW d \in Goroutines, InSink(SinkStep(d)) \/ InSink(SinkFailure(d)) PROVE ShutdownInv'
  BY <1>3, <1>12 DEF InSink, mainVars
<1> QED
  BY <1>4, <1>5, <1>6, <1>7, <1>8, <1>9, <1>10, <1>11, <1>12 DEF Next, MainStep

\* F-11.5: a graceful shutdown in which no store operation fails leaves nothing acknowledged
\* behind in memory, for every number of records and partitions, although the deliverer keeps
\* writing to the sink while the drain flushes it (service.go, Run, drain and Shutdown).
THEOREM ShutdownKeepsAcked == Spec => []ShutdownLosesNothing
<1>1. Init => ShutdownInv
  BY DEF Init, SinkInit, ShutdownInv, Gone
<1>2. SinkInv /\ DeliveryInv /\ ShutdownInv /\ [Next]_vars => ShutdownInv'
  BY ShutdownStep
<1>3. SinkInv /\ DeliveryInv /\ ShutdownInv /\ RowsAccounted /\ AckedWasTaken => ShutdownLosesNothing
  <2> SUFFICES ASSUME SinkInv, DeliveryInv, ShutdownInv, RowsAccounted, AckedWasTaken,
                      phase = "stopped", errs = 0, crashes = 0, NEW r \in 1 .. cursor
               PROVE  r \in Visible \cup dead
    BY DEF ShutdownLosesNothing
  <2>1. r \in written \cup dead
    BY DEF AckedWasTaken
  <2>2. written \subseteq Visible
    BY NothingInMemory DEF RowsAccounted, ShutdownInv, Gone
  <2> QED
    BY <2>1, <2>2
<1> QED
  BY <1>1, <1>2, <1>3, DeliveryInvHolds, SinkKeepsItsWord, AckedRecordsWereTaken, PTL DEF Spec

-----------------------------------------------------------------------------
(* The places that hold a row. *)

Waits(r, p, k) == k \in DOMAIN pending[p].rows /\ pending[p].rows[k] = r
Takes(r, c, p, k) == k \in DOMAIN flush[c].taken[p].rows /\ flush[c].taken[p].rows[k] = r
Shows(r, f) == f \in UNION manifests /\ f.table = 1 /\ r \in f.rows

IsHeld(r) ==
    \/ \E p \in Parts : \E k : Waits(r, p, k)
    \/ \E c \in Callers, p \in Parts : \E k : Takes(r, c, p, k)
    \/ \E f : Shows(r, f)

(* No two places hold record r. *)
HeldOnce(r) ==
    /\ \A p, q \in Parts : \A k, l : Waits(r, p, k) /\ Waits(r, q, l) => p = q /\ k = l
    /\ \A c, d \in Callers, p, q \in Parts : \A k, l :
         Takes(r, c, p, k) /\ Takes(r, d, q, l) => c = d /\ p = q /\ k = l
    /\ \A f, g : Shows(r, f) /\ Shows(r, g) => f = g
    /\ \A p \in Parts : \A k : Waits(r, p, k) =>
         /\ \A c \in Callers, q \in Parts : \A l : ~Takes(r, c, q, l)
         /\ \A f : ~Shows(r, f)
    /\ \A c \in Callers, p \in Parts : \A k : Takes(r, c, p, k) => \A f : ~Shows(r, f)

OnceInv == \A r \in Recs : HeldOnce(r) /\ (IsHeld(r) => r \in written)

LEMMA PlaceIs ==
    ASSUME NEW r, NEW x \in Places(r)
    PROVE  \/ \E p \in Parts : \E k : Waits(r, p, k) /\ x = <<"pending", <<p, k>>>>
           \/ \E c \in Callers, p \in Parts : \E k : Takes(r, c, p, k) /\ x = <<"taken", <<c, p, k>>>>
           \/ \E f : Shows(r, f) /\ x = <<"visible", f>>
<1>1. ASSUME NEW p \in Parts, x \in WaitingAt(r, p)
      PROVE  \E k : Waits(r, p, k) /\ x = <<"pending", <<p, k>>>>
  BY <1>1 DEF WaitingAt, RowsOf, Waits
<1>2. ASSUME NEW c \in Callers, NEW p \in Parts, x \in TakenAt(r, c, p)
      PROVE  \E k : Takes(r, c, p, k) /\ x = <<"taken", <<c, p, k>>>>
  BY <1>2 DEF TakenAt, RowsOf, Takes
<1>3. ASSUME x \in ShownAt(r)
      PROVE  \E f : Shows(r, f) /\ x = <<"visible", f>>
  BY <1>3 DEF ShownAt, Shows
<1> QED
  BY <1>1, <1>2, <1>3 DEF Places

LEMMA PlaceOf ==
    ASSUME NEW r, IsHeld(r)
    PROVE  \E x : x \in Places(r)
<1>1. ASSUME NEW p \in Parts, NEW k, Waits(r, p, k) PROVE <<"pending", <<p, k>>>> \in Places(r)
  <2>1. <<"pending", <<p, k>>>> \in WaitingAt(r, p)
    BY <1>1 DEF WaitingAt, RowsOf, Waits
  <2> QED
    BY <2>1 DEF Places
<1>2. ASSUME NEW c \in Callers, NEW p \in Parts, NEW k, Takes(r, c, p, k)
      PROVE  <<"taken", <<c, p, k>>>> \in Places(r)
  <2>1. <<"taken", <<c, p, k>>>> \in TakenAt(r, c, p)
    BY <1>2 DEF TakenAt, RowsOf, Takes
  <2> QED
    BY <2>1 DEF Places
<1>3. ASSUME NEW f, Shows(r, f) PROVE <<"visible", f>> \in Places(r)
  <2>1. <<"visible", f>> \in ShownAt(r)
    BY <1>3 DEF ShownAt, Shows
  <2> QED
    BY <2>1 DEF Places
<1> QED
  BY <1>1, <1>2, <1>3 DEF IsHeld

LEMMA OnePlace ==
    ASSUME NEW r, HeldOnce(r), NEW x \in Places(r), NEW y \in Places(r)
    PROVE  x = y
<1>1. CASE \E p \in Parts : \E k : Waits(r, p, k) /\ x = <<"pending", <<p, k>>>>
  <2>1. \E p \in Parts : \E k : Waits(r, p, k) /\ y = <<"pending", <<p, k>>>>
    BY <1>1, PlaceIs DEF HeldOnce
  <2> QED
    BY <1>1, <2>1 DEF HeldOnce
<1>2. CASE \E c \in Callers, p \in Parts : \E k : Takes(r, c, p, k) /\ x = <<"taken", <<c, p, k>>>>
  <2>1. \E c \in Callers, p \in Parts : \E k : Takes(r, c, p, k) /\ y = <<"taken", <<c, p, k>>>>
    BY <1>2, PlaceIs DEF HeldOnce
  <2> QED
    BY <1>2, <2>1 DEF HeldOnce
<1>3. CASE \E f : Shows(r, f) /\ x = <<"visible", f>>
  <2>1. \E f : Shows(r, f) /\ y = <<"visible", f>>
    BY <1>3, PlaceIs DEF HeldOnce
  <2> QED
    BY <1>3, <2>1 DEF HeldOnce
<1> QED
  BY <1>1, <1>2, <1>3, PlaceIs

LEMMA CopiesOf ==
    ASSUME NEW r, HeldOnce(r)
    PROVE  /\ IsHeld(r) => Copies(r) = 1
           /\ Copies(r) <= 1
<1>1. CASE Places(r) = {}
  <2>1. Copies(r) = 0
    BY <1>1, FS_EmptySet DEF Copies
  <2> QED
    BY <1>1, <2>1, PlaceOf
<1>2. CASE Places(r) # {}
  <2>1. PICK x : x \in Places(r)
    BY <1>2
  <2>2. Places(r) = {x}
    BY <2>1, OnePlace
  <2>3. Copies(r) = 1
    BY <2>2, FS_Singleton DEF Copies
  <2> QED
    BY <2>3
<1> QED
  BY <1>1, <1>2

-----------------------------------------------------------------------------
(* What the steps of the sink do to the places of a row. *)

(* Nothing is held that was not held in the same place. *)
LEMMA FewerPlaces ==
    ASSUME OnceInv, written \subseteq written',
           \A r \in Recs : \A p \in Parts : \A k : Waits(r, p, k)' => Waits(r, p, k),
           \A r \in Recs : \A c \in Callers, p \in Parts : \A k : Takes(r, c, p, k)' => Takes(r, c, p, k),
           \A r \in Recs : \A f : Shows(r, f)' => Shows(r, f)
    PROVE  OnceInv'
<1> SUFFICES ASSUME NEW r \in Recs PROVE HeldOnce(r)' /\ (IsHeld(r)' => r \in written')
  BY DEF OnceInv
<1>1. HeldOnce(r) /\ (IsHeld(r) => r \in written)
  BY DEF OnceInv
<1>2. HeldOnce(r)'
  BY <1>1 DEF HeldOnce
<1>3. IsHeld(r)' => IsHeld(r)
  BY DEF IsHeld
<1> QED
  BY <1>1, <1>2, <1>3

LEMMA SamePlaces ==
    ASSUME OnceInv, UNCHANGED <<pending, manifests, written>>,
           \A c \in Callers : flush'[c].taken = flush[c].taken
    PROVE  OnceInv'
<1>1. \A r \in Recs : \A p \in Parts : \A k : Waits(r, p, k)' => Waits(r, p, k)
  BY DEF Waits
<1>2. \A r \in Recs : \A c \in Callers, p \in Parts : \A k : Takes(r, c, p, k)' => Takes(r, c, p, k)
  BY DEF Takes
<1>3. \A r \in Recs : \A f : Shows(r, f)' => Shows(r, f)
  BY DEF Shows
<1> QED
  BY <1>1, <1>2, <1>3, FewerPlaces

(* A flush moves the rows of the partitions it takes. *)
LEMMA FlushMoves ==
    ASSUME NEW r, NEW c \in Callers, NEW D, HeldOnce(r), IsHeld(r) => r \in written,
           written \subseteq written',
           \A p \in Parts : \A k : Waits(r, p, k)' => Waits(r, p, k) /\ p \notin D,
           \A p \in Parts : \A k : Takes(r, c, p, k)' => Waits(r, p, k) /\ p \in D,
           \A e \in Callers \ {c}, p \in Parts : \A k : Takes(r, e, p, k)' => Takes(r, e, p, k),
           \A f : Shows(r, f)' => Shows(r, f)
    PROVE  HeldOnce(r)' /\ (IsHeld(r)' => r \in written')
<1>1. \A p, q \in Parts : \A k, l : Waits(r, p, k)' /\ Waits(r, q, l)' => p = q /\ k = l
  BY DEF HeldOnce
<1>2. \A e, d \in Callers, p, q \in Parts : \A k, l :
         Takes(r, e, p, k)' /\ Takes(r, d, q, l)' => e = d /\ p = q /\ k = l
  BY DEF HeldOnce
<1>3. \A f, g : Shows(r, f)' /\ Shows(r, g)' => f = g
  BY DEF HeldOnce
<1>4. \A p \in Parts : \A k : Waits(r, p, k)' =>
         /\ \A e \in Callers, q \in Parts : \A l : ~Takes(r, e, q, l)'
         /\ \A f : ~Shows(r, f)'
  BY DEF HeldOnce
<1>5. \A e \in Callers, p \in Parts : \A k : Takes(r, e, p, k)' => \A f : ~Shows(r, f)'
  BY DEF HeldOnce
<1>6. IsHeld(r)' => IsHeld(r)
  BY DEF IsHeld
<1> QED
  BY <1>1, <1>2, <1>3, <1>4, <1>5, <1>6 DEF HeldOnce

LEMMA FlushOnce ==
    ASSUME SinkInv, OnceInv, NEW c \in Callers, NEW force \in BOOLEAN, Flush(c, force)
    PROVE  OnceInv'
<1> USE DEF SinkInv, SinkType
<1>1. UNCHANGED <<manifests, written>>
  BY DEF Flush, storeVars, sinkHist
<1>2. CASE UNCHANGED <<pending, flush>>
  BY <1>1, <1>2, SamePlaces
<1>3. CASE Due(force) # {}
  <2>1. \A p \in Parts : flush'[c].taken[p] = IF p \in Due(force) THEN pending[p] ELSE NoRows
    BY <1>3 DEF Flush
  <2>2. \A p \in Parts : pending'[p] = IF p \in Due(force) THEN NoRows ELSE pending[p]
    BY <1>3 DEF Flush, NotDue
  <2>3. \A d \in Callers \ {c} : flush'[d] = flush[d]
    BY <1>3 DEF Flush
  <2>4. \A k : k \notin DOMAIN NoRows.rows
    BY DEF NoRows
  <2> SUFFICES ASSUME NEW r \in Recs PROVE HeldOnce(r)' /\ (IsHeld(r)' => r \in written')
    BY DEF OnceInv
  <2>5. HeldOnce(r) /\ (IsHeld(r) => r \in written) /\ written \subseteq written'
    BY <1>1 DEF OnceInv
  <2>6. \A p \in Parts : \A k : Waits(r, p, k)' => Waits(r, p, k) /\ p \notin Due(force)
    BY <2>2, <2>4 DEF Waits
  <2>7. \A p \in Parts : \A k : Takes(r, c, p, k)' => Waits(r, p, k) /\ p \in Due(force)
    BY <2>1, <2>4 DEF Waits, Takes
  <2>8. \A e \in Callers \ {c}, p \in Parts : \A k : Takes(r, e, p, k)' => Takes(r, e, p, k)
    BY <2>3 DEF Takes
  <2>9. \A f : Shows(r, f)' => Shows(r, f)
    BY <1>1 DEF Shows
  <2> QED
    BY <2>5, <2>6, <2>7, <2>8, <2>9, FlushMoves
<1> QED
  BY <1>2, <1>3 DEF Flush

(* A manifest shows the rows its flush had taken, each in one file. *)
LEMMA ManifestMoves ==
    ASSUME NEW r, NEW c \in Callers, NEW W, HeldOnce(r), IsHeld(r) => r \in written,
           written \subseteq written',
           \A p \in Parts : \A k : Waits(r, p, k)' => Waits(r, p, k),
           \A p \in Parts : \A k : ~Takes(r, c, p, k)',
           \A e \in Callers \ {c}, p \in Parts : \A k : Takes(r, e, p, k)' => Takes(r, e, p, k),
           \A f : Shows(r, f)' => Shows(r, f) \/ f \in W,
           \A f \in W : Shows(r, f)' => f.part \in Parts /\ \E k : Takes(r, c, f.part, k),
           \A f, g \in W : Shows(r, f)' /\ Shows(r, g)' /\ f.part = g.part => f = g
    PROVE  HeldOnce(r)' /\ (IsHeld(r)' => r \in written')
<1>1. \A p, q \in Parts : \A k, l : Waits(r, p, k)' /\ Waits(r, q, l)' => p = q /\ k = l
  BY DEF HeldOnce
<1>2. \A e, d \in Callers, p, q \in Parts : \A k, l :
         Takes(r, e, p, k)' /\ Takes(r, d, q, l)' => e = d /\ p = q /\ k = l
  BY DEF HeldOnce
<1>3. ASSUME NEW f, NEW g, Shows(r, f)', Shows(r, g)' PROVE f = g
  <2>1. CASE f \in W /\ g \in W
    <3>1. f.part = g.part
      BY <1>3, <2>1 DEF HeldOnce
    <3> QED
      BY <1>3, <2>1, <3>1
  <2>2. CASE f \notin W /\ g \notin W
    BY <1>3, <2>2 DEF HeldOnce
  <2>3. CASE f \in W /\ g \notin W
    BY <1>3, <2>3 DEF HeldOnce
  <2>4. CASE f \notin W /\ g \in W
    BY <1>3, <2>4 DEF HeldOnce
  <2> QED
    BY <2>1, <2>2, <2>3, <2>4
<1>4. \A p \in Parts : \A k : Waits(r, p, k)' =>
         /\ \A e \in Callers, q \in Parts : \A l : ~Takes(r, e, q, l)'
         /\ \A f : ~Shows(r, f)'
  BY DEF HeldOnce
<1>5. \A e \in Callers, p \in Parts : \A k : Takes(r, e, p, k)' => \A f : ~Shows(r, f)'
  BY DEF HeldOnce
<1>6. IsHeld(r)' => IsHeld(r)
  BY DEF IsHeld
<1> QED
  BY <1>1, <1>2, <1>3, <1>4, <1>5, <1>6 DEF HeldOnce

LEMMA ManifestOnce ==
    ASSUME SinkInv, OnceInv, NEW c \in Callers, PutManifest(c)
    PROVE  OnceInv'
<1> USE DEF SinkInv, SinkType
<1>1. /\ UNCHANGED <<pending, written>> /\ manifests' = manifests \cup {Written(c)} /\ pc[c] = "put"
      /\ flush' = [flush EXCEPT ![c] = NoFlush]
  BY DEF PutManifest, sinkHist
<1>2. \A f \in Written(c) : f \in Files /\ f.batch = flush[c].batch
                            /\ f.rows = Range(flush[c].taken[f.part].rows)
  BY <1>1 DEF FlushInv, Written
<1>3. UNION manifests' = (UNION manifests) \cup Written(c)
  BY <1>1
<1> SUFFICES ASSUME NEW r \in Recs PROVE HeldOnce(r)' /\ (IsHeld(r)' => r \in written')
  BY DEF OnceInv
<1>5. HeldOnce(r) /\ (IsHeld(r) => r \in written) /\ written \subseteq written'
  BY <1>1 DEF OnceInv
<1>6. \A p \in Parts : \A k : Waits(r, p, k)' => Waits(r, p, k)
  BY <1>1 DEF Waits
<1>7. \A p \in Parts : \A k : ~Takes(r, c, p, k)'
  <2>1. flush'[c] = NoFlush
    BY <1>1
  <2>2. \A p \in Parts : \A k : k \notin DOMAIN NoFlush.taken[p].rows
    BY DEF NoFlush, NoRows
  <2> QED
    BY <2>1, <2>2 DEF Takes
<1>8. \A e \in Callers \ {c}, p \in Parts : \A k : Takes(r, e, p, k)' => Takes(r, e, p, k)
  BY <1>1 DEF Takes
<1>9. \A f : Shows(r, f)' => Shows(r, f) \/ f \in Written(c)
  BY <1>3 DEF Shows
<1>10. ASSUME NEW f \in Written(c), Shows(r, f)'
       PROVE  f.part \in Parts /\ \E k : Takes(r, c, f.part, k)
  <2>1. f.part \in Parts /\ r \in f.rows
    BY <1>2, <1>10 DEF Files, Shows
  <2>2. r \in Range(flush[c].taken[f.part].rows)
    BY <1>2, <2>1
  <2> QED
    BY <2>1, <2>2 DEF Range, Takes
<1>11. ASSUME NEW f \in Written(c), NEW g \in Written(c), Shows(r, f)', Shows(r, g)', f.part = g.part
       PROVE  f = g
  <2>1. f.table = g.table /\ f.rows = g.rows /\ f.batch = g.batch /\ f \in Files /\ g \in Files
    BY <1>2, <1>11 DEF Shows
  <2> QED
    BY <1>11, <2>1 DEF Files
<1> QED
  BY <1>5, <1>6, <1>7, <1>8, <1>9, <1>10, <1>11, ManifestMoves

(* A new row of a record that no place holds. *)
LEMMA AddOnce ==
    ASSUME SinkInv, OnceInv, NEW c \in Callers, AddRow(c), arg[c] \notin written
    PROVE  OnceInv'
<1> USE DEF SinkInv, SinkType
<1>1. PICK a \in Recs : a = arg[c]
  BY DEF AddRow, CallInv
<1>2. PICK q \in Parts : q = PartOf[a]
  BY <1>1, PartsAssumption
<1>3. UNCHANGED <<flush, manifests>> /\ written' = written \cup {a}
  BY <1>1 DEF AddRow, storeVars
<1>4. PICK s \in Seq(Recs) : s = pending[q].rows
  BY <1>2 DEF PartRows
<1>5. \A p \in Parts : pending'[p].rows = IF p = q THEN Append(s, a) ELSE pending[p].rows
  BY <1>1, <1>2, <1>4 DEF AddRow, PartRows
<1>6. \A k : k \in DOMAIN Append(s, a) => k = Len(s) + 1 \/ (k \in DOMAIN s /\ Append(s, a)[k] = s[k])
  BY <1>4
<1>7. Append(s, a)[Len(s) + 1] = a
  BY <1>4
<1>8. \A r \in Recs, p \in Parts : \A k : Waits(r, p, k)' =>
         Waits(r, p, k) \/ (r = a /\ p = q /\ k = Len(s) + 1)
  BY <1>4, <1>5, <1>6, <1>7 DEF Waits
<1>9. \A r \in Recs : \A e \in Callers, p \in Parts : \A k : Takes(r, e, p, k)' => Takes(r, e, p, k)
  BY <1>3 DEF Takes
<1>10. \A r \in Recs : \A f : Shows(r, f)' => Shows(r, f)
  BY <1>3 DEF Shows
<1>11. ~IsHeld(a) /\ a \in written' /\ written \subseteq written'
  BY <1>1, <1>3 DEF OnceInv
<1> SUFFICES ASSUME NEW r \in Recs PROVE HeldOnce(r)' /\ (IsHeld(r)' => r \in written')
  BY DEF OnceInv
<1>12. CASE r = a
  <2>1. \A p \in Parts : \A k : Waits(r, p, k)' => p = q /\ k = Len(s) + 1
    BY <1>8, <1>11, <1>12 DEF IsHeld
  <2>2. \A e \in Callers, p \in Parts : \A k : ~Takes(r, e, p, k)'
    BY <1>9, <1>11, <1>12 DEF IsHeld
  <2>3. \A f : ~Shows(r, f)'
    BY <1>10, <1>11, <1>12 DEF IsHeld
  <2>4. HeldOnce(r)'
    BY <2>1, <2>2, <2>3 DEF HeldOnce
  <2> QED
    BY <1>11, <1>12, <2>4
<1>13. CASE r # a
  <2>1. HeldOnce(r) /\ (IsHeld(r) => r \in written)
    BY DEF OnceInv
  <2>2. \A p \in Parts : \A k : Waits(r, p, k)' => Waits(r, p, k)
    BY <1>8, <1>13
  <2>3. HeldOnce(r)'
    BY <1>9, <1>10, <2>1, <2>2 DEF HeldOnce
  <2>4. IsHeld(r)' => IsHeld(r)
    BY <1>9, <1>10, <2>2 DEF IsHeld
  <2> QED
    BY <1>11, <2>1, <2>3, <2>4
<1> QED
  BY <1>12, <1>13

(* Flushes that succeed, and rows that are added once. *)
LEMMA OnceStep ==
    ASSUME SinkInv, OnceInv, [SinkMove]_sinkCore,
           \A c \in Callers : AddRow(c) => arg[c] \notin written,
           \A c \in Callers : ~PutFileFails(c)
    PROVE  OnceInv'
<1> USE DEF SinkInv, SinkType
<1>1. ASSUME NEW c \in Callers,
             (\E r \in Recs : Write(c, r)) \/ BlobExists(c) \/ PutBlob(c) \/ PutBlobTable(c)
             \/ WriteFails(c)
      PROVE  OnceInv'
  <2>1. UNCHANGED <<pending, flush, manifests, sinkHist>>
    BY <1>1, WriteStep
  <2> QED
    BY <2>1, SamePlaces DEF sinkHist
<1>2. ASSUME NEW c \in Callers, AddRow(c) PROVE OnceInv'
  BY <1>2, AddOnce
<1>3. ASSUME NEW c \in Callers, NEW force \in BOOLEAN, Flush(c, force) PROVE OnceInv'
  BY <1>3, FlushOnce
<1>4. ASSUME NEW c \in Callers, PutFile(c) PROVE OnceInv'
  <2>1. UNCHANGED <<pending, manifests, sinkHist>> /\ \A d \in Callers : flush'[d].taken = flush[d].taken
    BY <1>4, PutFileStep DEF PutFile
  <2> QED
    BY <2>1, SamePlaces DEF sinkHist
<1>5. ASSUME NEW c \in Callers, PutManifest(c) PROVE OnceInv'
  BY <1>5, ManifestOnce
<1>6. ASSUME \A p \in Parts : pending'[p] = NoRows \/ pending'[p].rows = pending[p].rows,
             \A c \in Callers : flush'[c] = NoFlush \/ flush'[c] = flush[c],
             UNCHANGED <<manifests, written>>
      PROVE  OnceInv'
  <2>1. \A p \in Parts : \A k : k \notin DOMAIN NoFlush.taken[p].rows /\ k \notin DOMAIN NoRows.rows
    BY DEF NoFlush, NoRows
  <2>2. \A r \in Recs : \A p \in Parts : \A k : Waits(r, p, k)' => Waits(r, p, k)
    BY <1>6, <2>1 DEF Waits
  <2>3. \A r \in Recs : \A c \in Callers, p \in Parts : \A k : Takes(r, c, p, k)' => Takes(r, c, p, k)
    BY <1>6, <2>1 DEF Takes
  <2>4. \A r \in Recs : \A f : Shows(r, f)' => Shows(r, f)
    BY <1>6 DEF Shows
  <2> QED
    BY <1>6, <2>2, <2>3, <2>4, FewerPlaces
<1>7. ASSUME NEW c \in Callers, PutManifestFails(c) PROVE OnceInv'
  BY <1>6, <1>7 DEF PutManifestFails, storeVars
<1>8. ASSUME NEW p \in Parts, Age(p) PROVE OnceInv'
  BY <1>6, <1>8, AgeStep DEF Age, storeVars, sinkHist
<1>9. ASSUME NewSink PROVE OnceInv'
  BY <1>6, <1>9 DEF NewSink, storeVars
<1>10. ASSUME UNCHANGED sinkCore PROVE OnceInv'
  BY <1>10, SamePlaces DEF sinkCore, sinkMem, storeVars, sinkHist
<1>11. ASSUME NEW c \in Callers, SinkStep(c) \/ SinkFailure(c) PROVE OnceInv'
  BY <1>11, <1>1, <1>2, <1>4, <1>5, <1>7 DEF SinkStep, SinkFailure
<1> QED
  BY <1>1, <1>3, <1>8, <1>9, <1>10, <1>11 DEF SinkMove

(* What is in memory or visible has a place. *)
LEMMA HeldSomewhere ==
    ASSUME NEW r \in InMemory \cup Visible
    PROVE  IsHeld(r)
<1>1. ASSUME NEW p \in Parts, r \in Range(pending[p].rows) PROVE IsHeld(r)
  BY <1>1 DEF Range, IsHeld, Waits
<1>2. ASSUME NEW c \in Callers, r \in RowsTaken(flush[c]) PROVE IsHeld(r)
  <2>1. PICK p \in Parts : r \in Range(flush[c].taken[p].rows)
    BY <1>2 DEF RowsTaken
  <2>2. PICK k : Takes(r, c, p, k)
    BY <2>1 DEF Range, Takes
  <2> QED
    BY <2>2 DEF IsHeld
<1>3. ASSUME r \in Visible PROVE IsHeld(r)
  <2>1. PICK f : Shows(r, f)
    BY <1>3 DEF Visible, Manifested, Shows
  <2> QED
    BY <2>1 DEF IsHeld
<1> QED
  BY <1>1, <1>2, <1>3 DEF InMemory

(* Callers of Write in SinkSpec hand each record over once. *)
WriteInv ==
    /\ written \subseteq Recs
    /\ \A c \in Callers : pc[c] \in Writing =>
         /\ arg[c] \notin written
         /\ \A d \in Callers \ {c} : pc[d] \in Writing => arg[d] # arg[c]

LEMMA WriteInvStep ==
    ASSUME SinkInv, WriteInv, [SinkNext]_sinkVars
    PROVE  WriteInv'
<1> USE DEF SinkInv, SinkType
<1>1. ASSUME \A c \in Callers : pc'[c] \in Writing => pc[c] \in Writing /\ arg'[c] = arg[c],
             written' = written
      PROVE  WriteInv'
  BY <1>1 DEF WriteInv
<1>2. ASSUME NEW c \in Callers, NEW r \in Unwritten, Write(c, r) PROVE WriteInv'
  <2>1. /\ written' = written /\ arg' = [arg EXCEPT ![c] = r]
        /\ \E w : pc' = [pc EXCEPT ![c] = w]
    BY <1>2 DEF Write, Goto, sinkHist
  <2>2. r \notin written /\ \A d \in Callers : pc[d] \in Writing => arg[d] # r
    BY DEF Unwritten, Writing
  <2> QED
    BY <2>1, <2>2 DEF WriteInv
<1>3. ASSUME NEW c \in Callers, AddRow(c) PROVE WriteInv'
  <2>1. /\ written' = written \cup {arg[c]} /\ pc' = [pc EXCEPT ![c] = "idle"] /\ pc[c] \in Writing
        /\ arg[c] \in Recs /\ \A d \in Callers \ {c} : arg'[d] = arg[d]
    BY <1>3 DEF AddRow, Return, Goto, Writing, CallInv
  <2> QED
    BY <2>1 DEF WriteInv, Writing
<1>4. ASSUME NEW c \in Callers, BlobExists(c) \/ PutBlob(c) \/ PutBlobTable(c) PROVE WriteInv'
  <2>1. UNCHANGED <<arg, written>> /\ pc[c] \in Writing /\ \E w : pc' = [pc EXCEPT ![c] = w]
    BY <1>4 DEF BlobExists, PutBlob, PutBlobTable, sinkHist, Goto, Writing
  <2> QED
    BY <1>1, <2>1
<1>5. ASSUME NEW c \in Callers,
             \/ WriteFails(c) \/ PutFile(c) \/ PutFileFails(c) \/ PutManifest(c) \/ PutManifestFails(c)
             \/ \E force \in BOOLEAN : Flush(c, force)
      PROVE  WriteInv'
  <2>1. written' = written
    BY <1>5 DEF WriteFails, PutFile, PutFileFails, PutManifest, PutManifestFails, Flush, sinkHist
  <2>2. \A d \in Callers : pc'[d] \in Writing => pc[d] \in Writing /\ arg'[d] = arg[d]
    <3>1. CASE WriteFails(c) \/ PutFileFails(c) \/ PutManifest(c) \/ PutManifestFails(c)
      BY <3>1 DEF WriteFails, PutFileFails, PutManifest, PutManifestFails, Return, Goto, Writing
    <3>2. CASE PutFile(c)
      BY <3>2 DEF PutFile, callVars
    <3>3. ASSUME NEW force \in BOOLEAN, Flush(c, force)
          PROVE  \A d \in Callers : pc'[d] \in Writing => pc[d] \in Writing /\ arg'[d] = arg[d]
      BY <3>3 DEF Flush, Return, Goto, Writing
    <3> QED
      BY <1>5, <3>1, <3>2, <3>3
  <2> QED
    BY <1>1, <2>1, <2>2
<1>6. ASSUME NEW p \in Parts, Age(p) PROVE WriteInv'
  BY <1>1, <1>6 DEF Age, callVars, sinkHist
<1>7. ASSUME SinkCrash PROVE WriteInv'
  BY <1>1, <1>7 DEF SinkCrash, NewSink, Writing
<1>8. ASSUME UNCHANGED sinkVars PROVE WriteInv'
  BY <1>1, <1>8 DEF sinkVars, callVars, sinkHist
<1> QED
  BY <1>2, <1>3, <1>4, <1>5, <1>6, <1>7, <1>8 DEF SinkNext, SinkStep, SinkFailure

(* Without failures nothing is let go of. *)
NoFailures ==
    /\ errs \in Nat /\ crashes \in Nat
    /\ errs = 0 /\ crashes = 0 => Gone = {}

LEMMA NoFailuresStep ==
    ASSUME NoFailures, [SinkNext]_sinkVars
    PROVE  /\ NoFailures' /\ errs' >= errs
           /\ errs' = 0 => errs = 0 /\ \A c \in Callers : ~PutFileFails(c)
<1>1. ASSUME NEW c \in Callers, SinkFailure(c)
      PROVE  errs' = errs + 1 /\ crashes' = crashes
  BY <1>1 DEF SinkFailure, WriteFails, PutFileFails, PutManifestFails, Failing
<1>2. ASSUME NEW c \in Callers, SinkStep(c)
      PROVE  errs' = errs /\ crashes' = crashes /\ Gone' = Gone
  BY <1>2 DEF SinkStep, BlobExists, PutBlob, PutBlobTable, AddRow, PutFile, PutManifest, sinkHist, Gone
<1>3. ASSUME NEW c \in Callers, NEW r, Write(c, r)
      PROVE  errs' = errs /\ crashes' = crashes /\ Gone' = Gone
  BY <1>3 DEF Write, sinkHist, Gone
<1>4. ASSUME NEW c \in Callers, NEW force, Flush(c, force)
      PROVE  errs' = errs /\ crashes' = crashes /\ Gone' = Gone
  BY <1>4 DEF Flush, sinkHist, Gone
<1>5. ASSUME NEW p \in Parts, Age(p)
      PROVE  errs' = errs /\ crashes' = crashes /\ Gone' = Gone
  BY <1>5 DEF Age, sinkHist, Gone
<1>6. ASSUME SinkCrash
      PROVE  errs' = errs /\ crashes' = crashes + 1
  BY <1>6 DEF SinkCrash, NewSink
<1>7. ASSUME UNCHANGED sinkVars
      PROVE  errs' = errs /\ crashes' = crashes /\ Gone' = Gone
  BY <1>7 DEF sinkVars, sinkHist, Gone
<1>8. \/ errs' = errs /\ crashes' = crashes /\ Gone' = Gone
      \/ errs' = errs /\ crashes' = crashes + 1
      \/ errs' = errs + 1 /\ crashes' = crashes
  BY <1>1, <1>2, <1>3, <1>4, <1>5, <1>6, <1>7 DEF SinkNext
<1>9. NoFailures' /\ errs' >= errs
  BY <1>8 DEF NoFailures
<1>10. ASSUME NEW c \in Callers, PutFileFails(c) PROVE errs' = errs + 1
  BY <1>10 DEF PutFileFails, Failing
<1> QED
  BY <1>9, <1>10 DEF NoFailures

SinkOnceInv == WriteInv /\ NoFailures /\ (errs = 0 => OnceInv)

LEMMA SinkOnceStep ==
    ASSUME SinkInv, SinkOnceInv, [SinkNext]_sinkVars
    PROVE  SinkOnceInv'
<1>1. WriteInv' /\ NoFailures'
  BY WriteInvStep, NoFailuresStep DEF SinkOnceInv
<1>2. ASSUME errs' = 0 PROVE OnceInv'
  <2>1. OnceInv /\ \A c \in Callers : ~PutFileFails(c)
    BY <1>2, NoFailuresStep DEF SinkOnceInv
  <2>2. \A c \in Callers : AddRow(c) => arg[c] \notin written
    BY DEF SinkOnceInv, WriteInv, AddRow, Writing
  <2> QED
    BY <2>1, <2>2, OnceStep, SinkNextMoves
<1> QED
  BY <1>1, <1>2 DEF SinkOnceInv

LEMMA InitOnce == SinkInit => OnceInv
<1> SUFFICES ASSUME SinkInit PROVE OnceInv
  OBVIOUS
<1>1. \A p \in Parts : \A k : k \notin DOMAIN NoFlush.taken[p].rows /\ k \notin DOMAIN NoRows.rows
  BY DEF NoFlush, NoRows
<1>2. \A r \in Recs : \A p \in Parts : \A k : ~Waits(r, p, k)
  BY <1>1 DEF SinkInit, Waits
<1>3. \A r \in Recs : \A c \in Callers, p \in Parts : \A k : ~Takes(r, c, p, k)
  BY <1>1 DEF SinkInit, Takes
<1>4. \A r \in Recs : \A f : ~Shows(r, f)
  BY DEF SinkInit, Shows
<1> QED
  BY <1>2, <1>3, <1>4 DEF OnceInv, HeldOnce, IsHeld

\* While the store works and the process lives, concurrent flushes neither lose nor duplicate
\* a row (lake.go, Write, flush, FlushDue).
THEOREM RowsAreHeldOnce == SinkSpec => []ExactlyOnceWithoutFailures
<1>1. SinkInit => SinkOnceInv
  <2>1. SinkInit => WriteInv
    BY DEF SinkInit, WriteInv, Writing
  <2>2. SinkInit => NoFailures
    BY DEF SinkInit, NoFailures, Gone
  <2> QED
    BY <2>1, <2>2, InitOnce DEF SinkOnceInv
<1>2. SinkInv /\ SinkOnceInv /\ [SinkNext]_sinkVars => SinkOnceInv'
  BY SinkOnceStep
<1>3. SinkInv /\ SinkOnceInv /\ RowsAccounted => ExactlyOnceWithoutFailures
  <2> SUFFICES ASSUME SinkInv, SinkOnceInv, RowsAccounted, errs = 0, crashes = 0, NEW r \in written
               PROVE  Copies(r) = 1
    BY DEF ExactlyOnceWithoutFailures
  <2>1. r \in InMemory \cup Visible
    BY DEF RowsAccounted, SinkOnceInv, NoFailures, Gone
  <2>2. IsHeld(r)
    BY <2>1, HeldSomewhere
  <2>3. HeldOnce(r)
    BY DEF SinkOnceInv, OnceInv, WriteInv
  <2> QED
    BY <2>2, <2>3, CopiesOf
<1> QED
  BY <1>1, <1>2, <1>3, SinkInvHolds, RowsStayAccounted, PTL DEF SinkSpec

-----------------------------------------------------------------------------
(* One goroutine delivers and nothing fails. *)

Solo == stops = 0 /\ errs = 0 /\ crashes = 0

(* The sink has nothing beyond record n. *)
Behind(n) == \A w \in written : w <= n

(* What Run still has to send lies beyond everything the sink has.  Acknowledging moves the
   cursor back behind the dead-lettered records of the batch, which are not in the sink. *)
RunBehind ==
    /\ step[Run] = "idle" => Behind(cursor)
    /\ step[Run] \in {"send", "dead", "deadack"} => Behind(at[Run] - 1)
    /\ step[Run] = "sending" => /\ at[Run] \notin Poison
                                /\ pc[Run] # "idle" => Behind(at[Run] - 1)
                                /\ pc[Run] = "idle" => Behind(at[Run])
    /\ step[Run] \in {"commit", "committing", "ack"} => Behind(hi[Run])
    /\ step[Run] = "commit" /\ hi[Run] \in Poison => cursor = hi[Run]

SoloState ==
    /\ phase = "serving"
    /\ \A c \in Callers : ret[c] = "ok"
    /\ written \subseteq Nat /\ written \cap Poison = {}
    /\ RunBehind

SoloInv ==
    /\ stops \in Nat /\ crashes \in Nat
    /\ Solo => SoloState

(* The steps that are not a failure, a stop or a kill. *)
QuietStep ==
    \/ AppendRecord
    \/ \E d \in Goroutines : DrainStep(d) \/ InSink(SinkStep(d))
    \/ \E p \in Parts : InSink(Age(p))
    \/ MainStep \/ Restart \/ UNCHANGED vars

LEMMA StaysSolo ==
    ASSUME SinkInv, DeliveryInv, SoloInv, [Next]_vars
    PROVE  /\ stops' \in Nat /\ crashes' \in Nat
           /\ Solo' => Solo /\ QuietStep /\ errs' = errs
<1> USE DEF DeliveryInv
<1>0. stops \in Nat /\ crashes \in Nat /\ errs \in Nat
  BY DEF SoloInv, DeliveryType
<1> DEFINE Same == stops' = stops /\ crashes' = crashes /\ errs' = errs
<1>1. ASSUME NEW d \in Goroutines, DrainStep(d) PROVE Same
  <2> USE DEF sinkVars, mainVars
  <2>1. ASSUME NEW w, Retry(d, w) \/ Stall(d, w) PROVE Same
    BY <2>1 DEF Retry, Stall
  <2>2. CASE Send(d)
    BY <2>2 DEF Send, Write
  <2>3. CASE Commit(d)
    BY <2>3 DEF Commit, Flush
  <2>4. CASE NextBatch(d) \/ SendPoison(d) \/ PoisonCancelled(d) \/ Sent(d) \/ DeadLetter(d) \/ DeadAck(d)
    BY <2>4 DEF NextBatch, SendPoison, PoisonCancelled, Sent, DeadLetter, DeadAck
  <2>5. CASE SkipCommit(d) \/ Committed(d) \/ Ack(d)
    BY <2>5 DEF SkipCommit, Committed, Ack
  <2> QED
    BY <1>1, <2>1, <2>2, <2>3, <2>4, <2>5 DEF DrainStep
<1>2. ASSUME NEW d \in Goroutines, InSink(SinkStep(d)) PROVE Same
  BY <1>2 DEF InSink, SinkStep, BlobExists, PutBlob, PutBlobTable, AddRow, PutFile, PutManifest, mainVars
<1>3. ASSUME NEW p \in Parts, InSink(Age(p)) PROVE Same
  BY <1>3 DEF InSink, Age, mainVars
<1>4. ASSUME MainStep PROVE Same
  BY <1>4 DEF MainStep, TickerFlush, EndDrain, DrainFlush, StopDelivery, DeliveryDone, ShutdownFlush,
              CloseBuffer, MainGoto, Flush, mainVars, sinkVars
<1>5. ASSUME Restart \/ AppendRecord \/ UNCHANGED vars PROVE Same
  BY <1>5 DEF Restart, NewSink, NewProcess, AppendRecord, vars, mainVars, sinkVars
<1>6. ASSUME NEW d \in Goroutines, DeadLetterFails(d) \/ AckFails(d) \/ InSink(SinkFailure(d))
      PROVE  stops' = stops /\ crashes' = crashes /\ errs' = errs + 1
  BY <1>6 DEF DeadLetterFails, AckFails, InSink, SinkFailure, WriteFails, PutFileFails, PutManifestFails,
              Failing, mainVars
<1>7. \/ Same /\ QuietStep
      \/ stops' = stops /\ crashes' = crashes /\ errs' = errs + 1
      \/ stops' = stops + 1 /\ crashes' = crashes /\ errs' = errs
      \/ stops' = stops /\ crashes' = crashes + 1 /\ errs' = errs
  <2>1. CASE \E d \in Goroutines : DrainStep(d) \/ DeadLetterFails(d) \/ AckFails(d)
    BY <1>1, <1>6, <2>1 DEF QuietStep
  <2>2. CASE \E d \in Goroutines : InSink(SinkStep(d)) \/ InSink(SinkFailure(d))
    BY <1>2, <1>6, <2>2 DEF QuietStep
  <2>3. CASE BeginDrain \/ SourceFails
    BY <2>3 DEF BeginDrain, SourceFails, sinkVars
  <2>4. CASE Kill
    BY <2>4 DEF Kill, SinkCrash, NewSink, NewProcess
  <2>5. CASE MainStep \/ AppendRecord \/ Restart \/ UNCHANGED vars \/ \E p \in Parts : InSink(Age(p))
    BY <1>3, <1>4, <1>5, <2>5 DEF QuietStep
  <2> QED
    BY <2>1, <2>2, <2>3, <2>4, <2>5 DEF Next
<1> QED
  BY <1>0, <1>7 DEF Solo

(* What Run adds to the sink is new to it. *)
LEMMA SoloAddsNew ==
    ASSUME SinkInv, DeliveryInv, SoloState, NEW c \in Callers, pc[c] \in Writing
    PROVE  c = Run /\ step[Run] = "sending" /\ arg[c] = at[Run] /\ arg[c] \notin written
           /\ arg[c] \notin Poison /\ arg[c] \in Nat
<1> USE CallersAre DEF DeliveryInv
<1>1. step[c] = "sending" /\ arg[c] = at[c]
  BY DEF CallerInv, InCall
<1>2. c = Run
  BY <1>1 DEF SoloState, PhaseInv, Goroutines
<1>3. at[Run] \in Nat /\ pc[Run] # "idle"
  BY <1>2 DEF DeliveryType, Writing
<1>4. Behind(at[Run] - 1) /\ at[Run] \notin Poison
  BY <1>1, <1>2, <1>3 DEF SoloState, RunBehind
<1>5. at[Run] \notin written
  BY <1>3, <1>4 DEF SoloState, Behind
<1> QED
  BY <1>1, <1>2, <1>3, <1>4, <1>5

LEMMA SoloFrame ==
    ASSUME SinkInv, DeliveryInv, SoloState, NEW d \in Goroutines, DrainStep(d)
    PROVE  /\ d = Run
           /\ written' = written /\ phase' = phase
           /\ \A c \in Callers : ret'[c] = "ok"
<1> USE CallersAre DEF DeliveryInv
<1>1. d = Run
  <2> SUFFICES ASSUME d = Main PROVE FALSE
    BY DEF Goroutines
  <2>1. step[Main] = "idle" /\ ~MayDrain(Main)
    BY DeliveryAssumption DEF SoloState, PhaseInv, MayDrain
  <2> QED
    BY <2>1 DEF DrainStep, NextBatch, Send, SendPoison, PoisonCancelled, Sent, Retry, Stall, DeadLetter,
                DeadAck, Commit, SkipCommit, Committed, Ack
<1>2. CASE LocalStep(d)
  <2>1. phase' = phase
    BY <1>1, <1>2, LocalGrows, LocalMoves, DeliveryAssumption DEF LocalMove
  <2> QED
    BY <1>1, <1>2, <2>1, LocalFrame DEF SoloState
<1>3. CASE Send(d)
  BY <1>1, <1>3 DEF Send, Write, sinkHist, mainVars, SoloState
<1>4. CASE Commit(d)
  <2>1. Flush(d, FALSE) /\ phase' = phase
    BY <1>4 DEF Commit, mainVars
  <2>2. written' = written /\ ret \in [Callers -> {"ok", "err"}]
    BY <2>1, FlushCall DEF DeliveryType
  <2>3. ret' = ret \/ ret' = [ret EXCEPT ![d] = "ok"]
    BY <2>1 DEF Flush, Return
  <2> QED
    BY <1>1, <2>1, <2>2, <2>3 DEF SoloState
<1> QED
  BY <1>2, <1>3, <1>4 DEF DrainStep, LocalStep

(* deliverBatch's loop: the sink has nothing beyond the record it was at. *)
LEMMA SoloAdvance ==
    ASSUME SinkInv, DeliveryInv, SoloState, step[Run] \in {"sending", "deadack"}, Behind(at[Run]),
           Advance(Run), UNCHANGED <<lo, hi, written>>,
           at[Run] \in Poison => cursor' = at[Run]
    PROVE  RunBehind'
<1> USE DEF DeliveryInv, DeliveryType
<1>0. Run \in Goroutines /\ at[Run] \in Nat /\ hi[Run] \in Nat
  BY DEF Goroutines
<1>1. CASE at[Run] = hi[Run]
  <2>1. step'[Run] = "commit" /\ hi'[Run] = at[Run]
    BY <1>0, <1>1 DEF Advance, Step
  <2>2. Behind(hi[Run])' /\ hi'[Run] = hi[Run]
    BY <1>0, <1>1 DEF Behind
  <2> QED
    BY <1>1, <2>1, <2>2 DEF RunBehind
<1>2. CASE at[Run] # hi[Run]
  <2>1. step'[Run] = "send" /\ at'[Run] = at[Run] + 1
    BY <1>0, <1>2 DEF Advance, Step
  <2>2. at'[Run] - 1 = at[Run]
    BY <1>0, <2>1
  <2>3. Behind(at[Run] - 1)'
    BY <2>2 DEF Behind
  <2> QED
    BY <2>1, <2>3 DEF RunBehind
<1> QED
  BY <1>1, <1>2

LEMMA SoloDrain ==
    ASSUME SinkInv, DeliveryInv, SoloState, NEW d \in Goroutines, DrainStep(d)
    PROVE  SoloState'
<1> USE CallersAre DEF DeliveryInv
<1>0. /\ d = Run /\ Run \in Goroutines /\ Run \in Callers
      /\ written' = written /\ phase' = phase /\ \A c \in Callers : ret'[c] = "ok"
      /\ written \subseteq Nat /\ RunBehind
      /\ cursor \in Nat /\ at[Run] \in Nat /\ hi[Run] \in Nat /\ lo[Run] \in Nat
      /\ step[Run] # "idle" => Peeked(Run)
  BY SoloFrame DEF SoloState, DeliveryType, PeekInv
<1> SUFFICES RunBehind'
  BY <1>0 DEF SoloState
<1>1. CASE NextBatch(Run)
  <2>1. PICK from \in cursor..high : at' = [at EXCEPT ![Run] = from + 1]
    BY <1>1 DEF NextBatch
  <2>2. step'[Run] = "send" /\ at'[Run] = from + 1 /\ from \in Nat /\ cursor <= from /\ step[Run] = "idle"
    BY <1>0, <1>1, <2>1 DEF NextBatch, Step, DeliveryType
  <2>3. Behind(at[Run] - 1)'
    BY <1>0, <2>2 DEF RunBehind, Behind
  <2> QED
    BY <2>2, <2>3 DEF RunBehind
<1>2. CASE Send(Run)
  <2>1. step'[Run] = "sending" /\ at' = at /\ pc'[Run] # "idle" /\ at[Run] \notin Poison /\ step[Run] = "send"
    BY <1>0, <1>2 DEF Send, Step, Write, Goto, batchVars, SinkInv, SinkType, DeliveryType
  <2>2. Behind(at[Run] - 1)'
    BY <1>0, <2>1 DEF RunBehind, Behind
  <2> QED
    BY <2>1, <2>2 DEF RunBehind
<1>3. CASE SendPoison(Run) \/ DeadLetter(Run)
  <2>1. step'[Run] \in {"dead", "deadack"} /\ at' = at /\ step[Run] \in {"send", "dead"}
    BY <1>0, <1>3 DEF SendPoison, DeadLetter, Step, batchVars, DeliveryType
  <2>2. Behind(at[Run] - 1)'
    BY <1>0, <2>1 DEF RunBehind, Behind
  <2> QED
    BY <2>1, <2>2 DEF RunBehind
<1>4. CASE Sent(Run)
  BY <1>0, <1>4, SoloAdvance DEF Sent, RunBehind
<1>5. CASE DeadAck(Run)
  <2>1. Behind(at[Run])
    BY <1>0, <1>5 DEF DeadAck, RunBehind, Behind
  <2> QED
    BY <1>0, <1>5, <2>1, SoloAdvance DEF DeadAck, Acknowledge
<1>6. CASE Commit(Run)
  <2>1. step'[Run] = "committing" /\ hi' = hi /\ step[Run] = "commit"
    BY <1>0, <1>6 DEF Commit, Step, batchVars, DeliveryType
  <2>2. Behind(hi[Run])'
    BY <1>0, <2>1 DEF RunBehind, Behind
  <2> QED
    BY <2>1, <2>2 DEF RunBehind
<1>7. CASE SkipCommit(Run)
  <2>1. step'[Run] = "idle" /\ cursor' = cursor /\ step[Run] = "commit" /\ ToAck(Run) = {}
    BY <1>0, <1>7 DEF SkipCommit, Forget, Step, bufferVars, DeliveryType
  <2>2. hi[Run] \in lo[Run] + 1 .. hi[Run]
    BY <1>0, <2>1 DEF Peeked
  <2>3. hi[Run] \in Poison
    BY <2>1, <2>2 DEF ToAck
  <2>4. Behind(cursor)'
    BY <1>0, <2>1, <2>3 DEF RunBehind, Behind
  <2> QED
    BY <2>1, <2>4 DEF RunBehind
<1>8. CASE Committed(Run)
  <2>1. step'[Run] = "ack" /\ hi' = hi /\ step[Run] = "committing"
    BY <1>0, <1>8 DEF Committed, Step, DeliveryType
  <2>2. Behind(hi[Run])'
    BY <1>0, <2>1 DEF RunBehind, Behind
  <2> QED
    BY <2>1, <2>2 DEF RunBehind
<1>9. CASE Ack(Run)
  <2> DEFINE rest == {r \in ToAck(Run) : r > at[Run]}
  <2>1. step[Run] = "ack" /\ cursor' = at[Run] /\ Behind(hi[Run])
    BY <1>0, <1>9 DEF Ack, Acknowledge, RunBehind
  <2>2. CASE rest = {}
    <3>1. step'[Run] = "idle"
      BY <1>0, <1>9, <2>2 DEF Ack, Forget, Step, DeliveryType
    <3>2. ASSUME NEW w \in written PROVE w <= at[Run]
      <4>1. w \in Nat /\ w <= hi[Run] /\ w \notin Poison /\ lo[Run] < at[Run]
        BY <1>0, <2>1 DEF Behind, Peeked, SoloState
      <4>2. CASE w <= lo[Run]
        BY <1>0, <4>1, <4>2
      <4>3. CASE ~(w <= lo[Run])
        <5>1. w \in ToAck(Run)
          BY <1>0, <4>1, <4>3 DEF ToAck
        <5> QED
          BY <1>0, <2>2, <4>1, <5>1
      <4> QED
        BY <4>2, <4>3
    <3>3. Behind(cursor)'
      BY <1>0, <2>1, <3>2 DEF Behind
    <3> QED
      BY <3>1, <3>3 DEF RunBehind
  <2>3. CASE rest # {}
    <3>1. step' = step /\ hi' = hi
      BY <1>0, <1>9, <2>3 DEF Ack
    <3>2. Behind(hi[Run])'
      BY <1>0, <2>1, <3>1 DEF Behind
    <3> QED
      BY <2>1, <3>1, <3>2 DEF RunBehind
  <2> QED
    BY <2>2, <2>3
<1>10. CASE PoisonCancelled(Run)
  BY <1>10, DeliveryAssumption DEF PoisonCancelled, MayBeDone, Cancelled, SoloState
<1>11. ASSUME NEW w, Retry(Run, w) \/ Stall(Run, w) PROVE FALSE
  BY <1>0, <1>11 DEF Retry, Stall, SoloState
<1> QED
  BY <1>0, <1>1, <1>2, <1>3, <1>4, <1>5, <1>6, <1>7, <1>8, <1>9, <1>10, <1>11 DEF DrainStep

LEMMA SoloSink ==
    ASSUME SinkInv, DeliveryInv, SoloState, NEW d \in Goroutines, InSink(SinkStep(d))
    PROVE  SoloState'
<1> USE CallersAre DEF DeliveryInv
<1>0. UNCHANGED <<cursor, step, lo, hi, at, phase>> /\ Run \in Goroutines /\ at[Run] \in Nat
  BY DEF InSink, bufferVars, drainVars, batchVars, mainVars, Goroutines, DeliveryType
<1>1. SinkStep(d) /\ pc[d] \in PCs
  BY DEF InSink, SinkInv, SinkType
<1>2. \A c \in Callers : ret'[c] = "ok"
  <2>1. ret' = ret \/ ret' = [ret EXCEPT ![d] = "ok"]
    BY <1>1 DEF SinkStep, BlobExists, PutBlob, PutBlobTable, AddRow, PutFile, PutManifest, callVars, Return
  <2> QED
    BY <2>1 DEF SoloState, DeliveryType
<1>3. CASE AddRow(d)
  <2>1. /\ d = Run /\ step[Run] = "sending" /\ arg[d] = at[Run] /\ arg[d] \notin Poison
        /\ written' = written \cup {at[Run]} /\ pc'[Run] = "idle" /\ pc[Run] # "idle"
    BY <1>3, SoloAddsNew DEF AddRow, Return, Goto, Writing, SinkInv, SinkType
  <2>2. Behind(at[Run])'
    BY <1>0, <2>1 DEF SoloState, RunBehind, Behind
  <2>3. RunBehind'
    BY <1>0, <2>1, <2>2 DEF SoloState, RunBehind
  <2> QED
    BY <1>0, <1>2, <2>1, <2>3 DEF SoloState
<1>4. CASE ~AddRow(d)
  <2>1. written' = written
    BY <1>1, <1>4 DEF SinkStep, BlobExists, PutBlob, PutBlobTable, PutFile, PutManifest, sinkHist
  <2>2. step[Run] = "sending" => (pc'[Run] = "idle" <=> pc[Run] = "idle")
    <3>1. CASE d = Run
      <4>1. step[Run] = "sending" => pc[Run] # "put"
        BY <1>0 DEF CallerInv, InCall
      <4>2. CASE BlobExists(d) \/ PutBlob(d) \/ PutBlobTable(d)
        BY <3>1, <4>2 DEF BlobExists, PutBlob, PutBlobTable, Goto, SinkInv, SinkType
      <4>3. CASE PutFile(d) \/ PutManifest(d)
        BY <3>1, <4>1, <4>3 DEF PutFile, PutManifest
      <4> QED
        BY <1>1, <1>4, <4>2, <4>3 DEF SinkStep
    <3>2. CASE d # Run
      BY <1>0, <1>1, <3>2, CallProgress
    <3> QED
      BY <3>1, <3>2
  <2>3. RunBehind'
    BY <1>0, <2>1, <2>2 DEF SoloState, RunBehind, Behind
  <2> QED
    BY <1>0, <1>2, <2>1, <2>3 DEF SoloState
<1> QED
  BY <1>3, <1>4

LEMMA SoloStep ==
    ASSUME SinkInv, DeliveryInv, SoloInv, [Next]_vars
    PROVE  SoloInv'
<1> USE CallersAre DEF DeliveryInv
<1> SUFFICES ASSUME Solo, SoloState, QuietStep PROVE SoloState'
  BY StaysSolo DEF SoloInv
<1>1. ASSUME UNCHANGED <<written, cursor, step, at, hi, phase>>, pc'[Run] = pc[Run],
             \A c \in Callers : ret'[c] = "ok"
      PROVE  SoloState'
  BY <1>1 DEF SoloState, RunBehind, Behind
<1>2. CASE AppendRecord \/ UNCHANGED vars
  BY <1>1, <1>2 DEF AppendRecord, vars, sinkVars, bufferVars, drainVars, batchVars, mainVars, callVars, sinkHist,
                    SoloState
<1>3. ASSUME NEW p \in Parts, InSink(Age(p)) PROVE SoloState'
  BY <1>1, <1>3 DEF InSink, Age, bufferVars, drainVars, batchVars, mainVars, callVars, sinkHist, SoloState
<1>4. CASE TickerFlush
  <2>1. Flush(Main, FALSE) /\ UNCHANGED <<cursor, step, at, hi, phase>> /\ Main \in Goroutines
    BY <1>4 DEF TickerFlush, bufferVars, drainVars, batchVars, mainVars, Goroutines
  <2>2. written' = written /\ pc'[Run] = pc[Run]
    BY <2>1, FlushCall, DeliveryAssumption DEF Goroutines
  <2>3. ret' = ret \/ ret' = [ret EXCEPT ![Main] = "ok"]
    BY <2>1 DEF Flush, Return
  <2>4. \A c \in Callers : ret'[c] = "ok"
    BY <2>3 DEF SoloState, DeliveryType
  <2> QED
    BY <1>1, <2>1, <2>2, <2>4
<1>5. ~Restart /\ (MainStep => TickerFlush)
  BY DEF Restart, MainStep, EndDrain, DrainFlush, StopDelivery, DeliveryDone, ShutdownFlush, CloseBuffer,
         MainAt, SoloState
<1> QED
  BY <1>2, <1>3, <1>4, <1>5, SoloDrain, SoloSink DEF QuietStep

(* In SoloInv the sink holds each record in one place. *)
SoloOnceInv == SoloInv /\ (Solo => OnceInv)

LEMMA SoloOnceStep ==
    ASSUME SinkInv, DeliveryInv, SoloOnceInv, [Next]_vars
    PROVE  SoloOnceInv'
<1>1. SoloInv'
  BY SoloStep DEF SoloOnceInv
<1>2. ASSUME Solo' PROVE OnceInv'
  <2>1. Solo /\ SoloState /\ OnceInv /\ errs' = errs /\ errs \in Nat
    BY <1>2, StaysSolo DEF SoloOnceInv, SoloInv, DeliveryInv, DeliveryType
  <2>2. \A c \in Callers : ~PutFileFails(c)
    BY <2>1 DEF PutFileFails, Failing
  <2>3. \A c \in Callers : AddRow(c) => arg[c] \notin written
    BY <2>1, SoloAddsNew DEF AddRow, Writing
  <2> QED
    BY <2>1, <2>2, <2>3, OnceStep, DeliveryMovesSink
<1> QED
  BY <1>1, <1>2 DEF SoloOnceInv

\* While one goroutine delivers and nothing fails, nothing is sent twice: for every batch
\* size, every set of poisonous records and whenever the ticker flushes, a record is in one
\* place, although acknowledging a batch moves the cursor back (delivery.go, deliverBatch).
THEOREM NothingSentTwice == Spec => []NoNeedlessDuplicates
<1>1. Init => SoloOnceInv
  <2>1. Init => SoloInv
    BY CallersAre DEF Init, SinkInit, SoloInv, SoloState, RunBehind, Behind, Goroutines
  <2> QED
    BY <2>1, InitOnce DEF SoloOnceInv, Init
<1>2. SinkInv /\ DeliveryInv /\ SoloOnceInv /\ [Next]_vars => SoloOnceInv'
  BY SoloOnceStep
<1>3. SoloOnceInv => NoNeedlessDuplicates
  BY CopiesOf DEF SoloOnceInv, Solo, OnceInv, NoNeedlessDuplicates
<1> QED
  BY <1>1, <1>2, <1>3, DeliveryInvHolds, PTL DEF Spec
=============================================================================
