-------------------------- MODULE LifecycleProofs --------------------------
(***************************************************************************)
(* What module Lifecycle promises for every file, every number of lines    *)
(* and records and every number of restarts: the refinement of Custody,    *)
(* the drain, the report of a loss and the offset that is saved.           *)
(*                                                                         *)
(* TypeInv and StepInv say where the goroutines can be; the rest builds on *)
(* them, each invariant on those before it.                                *)
(***************************************************************************)
EXTENDS Lifecycle, FiniteSetTheorems, TLAPS

Position == [inode : Int, off : Nat, gen : Nat]
PCs == {"down", "wait", "open", "read", "save", "returned"}
Phases == {"starting", "serving", "ticking", "draining", "flushed", "closing", "failed",
           "stopped"}

FileType ==
    /\ files \in Seq(Seq(Lines)) /\ cur = Len(files) /\ cur \in Nat \ {0}
    /\ written \in Nat /\ half \in BOOLEAN /\ gen \in Nat
    /\ half => written < Len(PerLine)

TailerType ==
    /\ offsets \in Position /\ saved \in Position
    /\ tl \in [pc : PCs, fd : Nat, line : Nat, rec : Nat \ {0}, pos : Position]
    /\ tl.pc = "read" => tl.fd \in 1 .. cur
    /\ tl.line # 0 => tl.pc = "read" /\ tl.line \in Lines /\ tl.rec \in 1 .. PerLine[tl.line]
    /\ tl.line = 0 => tl.rec = 1

AssemblyType ==
    /\ open \in SUBSET AllRecords /\ IsFiniteSet(open)
    /\ closing \in [Goroutines -> SUBSET AllRecords]
    /\ stored \in SUBSET AllRecords

ProcessType ==
    /\ http \in {"absent", "new", "running", "adding", "refused", "accepted"}
    /\ embedded \in BOOLEAN /\ late \in BOOLEAN /\ phase \in Phases
    /\ marker \in [n : Nat, clean : BOOLEAN] /\ lossMetric \in Nat
    /\ counted \in SUBSET AllRecords /\ IsFiniteSet(counted)

TypeInv == FileType /\ TailerType /\ AssemblyType /\ ProcessType

(* Who can have records between assembly and the buffer. *)
StepInv ==
    /\ tl.pc # "read" => closing[Tail_] = {}
    /\ http # "adding" => closing[Http] = {}
    /\ phase \notin {"ticking", "flushed"} => closing[Main] = {}

-----------------------------------------------------------------------------
(* The three goroutines are different. *)
LEMMA Distinct == Tail_ # Http /\ Tail_ # Main /\ Http # Main
<1>1. ASSUME NEW x, NEW y, {Tail_, Http, Main} = {x, y} PROVE FALSE
  <2>1. IsFiniteSet({x}) /\ Cardinality({x}) = 1
    BY FS_Singleton
  <2>2. Cardinality({x} \cup {y}) = IF y \in {x} THEN Cardinality({x}) ELSE Cardinality({x}) + 1
    BY <2>1, FS_AddElement
  <2>3. {Tail_, Http, Main} = {x} \cup {y}
    BY <1>1
  <2>4. Cardinality({x} \cup {y}) = 3
    BY <2>3, LifecycleAssumption
  <2> QED
    BY <2>1, <2>2, <2>4
<1>2. ASSUME Tail_ = Http PROVE {Tail_, Http, Main} = {Tail_, Main}
  BY <1>2
<1>3. ASSUME Tail_ = Main PROVE {Tail_, Http, Main} = {Tail_, Http}
  BY <1>3
<1>4. ASSUME Http = Main PROVE {Tail_, Http, Main} = {Tail_, Http}
  BY <1>4
<1> QED
  BY <1>1, <1>2, <1>3, <1>4

LEMMA LinesAreIndices ==
    /\ Lines = 1 .. Len(PerLine) /\ Len(PerLine) \in Nat
    /\ \A n \in Lines : PerLine[n] \in Nat
BY LifecycleAssumption DEF Lines

LEMMA RecordOfLine ==
    ASSUME NEW n \in Lines, NEW k \in 1 .. PerLine[n]
    PROVE  <<n, k>> \in AllRecords
<1>1. <<n, k>> \in Records(n)
  BY DEF Records
<1>2. Records(n) \in {Records(m) : m \in Lines}
  OBVIOUS
<1> QED
  BY <1>1, <1>2, Zenon DEF AllRecords

LEMMA RequestIsRecord == Request \in AllRecords
BY Zenon DEF AllRecords

(* Add leaves a finite set of records in assembly. *)
LEMMA AddType ==
    ASSUME AssemblyType, NEW g \in Goroutines, NEW r \in AllRecords, Add(g, r)
    PROVE  AssemblyType'
<1>1. IsFiniteSet(open \cup {r})
  BY FS_AddElement DEF AssemblyType
<1>2. open' \subseteq open \cup {r}
  BY DEF Add
<1>3. IsFiniteSet(open')
  BY <1>1, <1>2, FS_Subset
<1> QED
  BY <1>3 DEF AssemblyType, Add

LEMMA InitType == Init => TypeInv /\ StepInv
<1> SUFFICES ASSUME Init PROVE TypeInv /\ StepInv
  OBVIOUS
<1>1. FileType
  <2>1. files = <<<<>>>>
    BY DEF Init
  <2>2. <<>> \in Seq(Lines)
    OBVIOUS
  <2>3. files \in Seq(Seq(Lines)) /\ Len(files) = 1
    BY <2>1, <2>2
  <2>4. cur = 1 /\ written \in Nat /\ gen = 1
    BY LinesAreIndices DEF Init
  <2>5. ~half /\ half \in BOOLEAN
    BY DEF Init
  <2> QED
    BY <2>3, <2>4, <2>5 DEF FileType
<1>2. TailerType
  BY DEF Init, TailerType, Position, PCs, At, Nowhere, Fresh
<1>3. AssemblyType
  BY FS_EmptySet DEF Init, AssemblyType
<1>4. ProcessType
  BY FS_EmptySet DEF Init, ProcessType, Phases, MarkerOf
<1>5. StepInv
  BY DEF Init, StepInv, Goroutines
<1> QED
  BY <1>1, <1>2, <1>3, <1>4, <1>5 DEF TypeInv


(* A step of the tailed file. *)
LEMMA FileStep ==
    ASSUME TypeInv, Writer
    PROVE  /\ FileType' /\ cur <= cur'
           /\ \A i \in 1 .. cur - 1 : files'[i] = files[i]
<1>1. CASE WriteHalf
  BY <1>1 DEF WriteHalf, TypeInv, FileType
<1>2. CASE WriteRest
  <2>1. files[cur] \in Seq(Lines) /\ cur \in DOMAIN files
    BY DEF TypeInv, FileType
  <2>2. written + 1 \in Lines
    BY <1>2, LinesAreIndices DEF WriteRest, TypeInv, FileType
  <2>3. Append(files[cur], written + 1) \in Seq(Lines)
    BY <2>1, <2>2
  <2>4. files' = [files EXCEPT ![cur] = Append(files[cur], written + 1)]
    BY <1>2 DEF WriteRest
  <2>5. files' \in Seq(Seq(Lines)) /\ Len(files') = Len(files)
    BY <2>1, <2>3, <2>4 DEF TypeInv, FileType
  <2>6. \A i \in 1 .. cur - 1 : files'[i] = files[i]
    BY <2>4 DEF TypeInv, FileType
  <2>7. ~half' /\ half' \in BOOLEAN /\ written' = written + 1 /\ cur' = cur /\ gen' = gen
    BY <1>2 DEF WriteRest
  <2>8. written' \in Nat /\ cur' \in Nat \ {0} /\ cur' = Len(files') /\ gen' \in Nat /\ cur <= cur'
    BY <2>5, <2>7 DEF TypeInv, FileType
  <2> QED
    BY <2>5, <2>6, <2>7, <2>8 DEF FileType
<1>3. CASE Rotate
  <2>1. files' = Append(files, <<>>) /\ <<>> \in Seq(Lines)
    BY <1>3 DEF Rotate
  <2>2. files' \in Seq(Seq(Lines)) /\ Len(files') = Len(files) + 1
    BY <2>1 DEF TypeInv, FileType
  <2>3. \A i \in 1 .. cur - 1 : files'[i] = files[i]
    BY <2>1 DEF TypeInv, FileType
  <2> QED
    BY <1>3, <2>2, <2>3 DEF Rotate, TypeInv, FileType
<1>4. CASE Truncate
  <2>1. files' = [files EXCEPT ![cur] = <<>>] /\ <<>> \in Seq(Lines)
    BY <1>4 DEF Truncate
  <2>2. files' \in Seq(Seq(Lines)) /\ Len(files') = Len(files)
    BY <2>1 DEF TypeInv, FileType
  <2>3. \A i \in 1 .. cur - 1 : files'[i] = files[i]
    BY <2>1 DEF TypeInv, FileType
  <2> QED
    BY <1>4, <2>2, <2>3 DEF Truncate, TypeInv, FileType
<1> QED
  BY <1>1, <1>2, <1>3, <1>4 DEF Writer

(* What a poll sees of the file. *)
LEMMA SizeIsNat ==
    ASSUME FileType
    PROVE  Size(cur) \in Nat /\ files[cur] \in Seq(Lines) /\ Len(files[cur]) \in Nat
           /\ Size(cur) = 2 * Len(files[cur]) + (IF half THEN 1 ELSE 0)
           /\ Size(cur) \in {2 * Len(files[cur]), 2 * Len(files[cur]) + 1}
<1>1. files[cur] \in Seq(Lines) /\ Len(files[cur]) \in Nat
  BY DEF FileType
<1>2. CASE half
  BY <1>1, <1>2 DEF Size
<1>3. CASE ~half
  BY <1>1, <1>3 DEF Size
<1> QED
  BY <1>2, <1>3

LEMMA LineInFile ==
    ASSUME FileType, TailerType, tl.pc = "read"
    PROVE  /\ LineAt \in Nat \ {0}
           /\ tl.pos.off = 2 * (LineAt - 1) + (tl.pos.off % 2) /\ tl.pos.off % 2 \in {0, 1}
           /\ files[tl.fd] \in Seq(Lines)
           /\ HasLine => ThisLine \in Lines
<1>1. tl.pos.off \in Nat
  BY DEF TailerType, Position
<1>2. \A n \in Nat : n \div 2 \in Nat /\ n = 2 * (n \div 2) + (n % 2) /\ n % 2 \in {0, 1}
  OBVIOUS
<1>3. files[tl.fd] \in Seq(Lines)
  BY DEF FileType, TailerType
<1> QED
  BY <1>1, <1>2, <1>3 DEF LineAt, HasLine, ThisLine


(* The steps of the tailer. *)
LEMMA TailerStep ==
    ASSUME TypeInv, StepInv, Tailing \/ RefuseRecord
    PROVE  TailerType' /\ AssemblyType' /\ StepInv'
<1> USE DEF TypeInv, file, process, assembly
<1>0. Tail_ # Http /\ Tail_ # Main /\ Tail_ \in Goroutines
  BY Distinct DEF Goroutines
<1>1. CASE TailStart
  <2>1. Size(cur) \in Nat
    BY SizeIsNat
  <2>2. AssemblyType'
    BY <1>1 DEF TailStart, AssemblyType
  <2>3. tl' \in [pc : PCs, fd : Nat, line : Nat, rec : Nat \ {0}, pos : Position]
    BY <1>1, <2>1 DEF TailStart, At, Nowhere, Fresh, TailerType, FileType, PCs, Position
  <2>6. offsets' \in Position /\ saved' \in Position
    BY <1>1, <2>1 DEF TailStart, Nowhere, TailerType, FileType, Position
  <2>4. TailerType'
    BY <1>1, <2>3, <2>6 DEF TailStart, At, TailerType
  <2>5. StepInv'
    BY <1>1, <2>3 DEF TailStart, At, Nowhere, Fresh, StepInv, TailerType
  <2> QED
    BY <2>2, <2>4, <2>5
<1>2. CASE Stat
  <2>1. Size(cur) \in Nat
    BY SizeIsNat
  <2>2. AssemblyType'
    BY <1>2 DEF Stat, AssemblyType
  <2>3. tl' \in [pc : PCs, fd : Nat, line : Nat, rec : Nat \ {0}, pos : Position]
    <3>1. PICK from \in Nat : \/ tl' = At("save")
                              \/ tl' = [At("open") EXCEPT !.pos = [inode |-> cur, off |-> from, gen |-> gen]]
      BY <1>2 DEF Stat, TailerType, Position
    <3>2. [inode |-> cur, off |-> from, gen |-> gen] \in Position /\ Nowhere \in Position
      BY DEF FileType, Position, Nowhere
    <3> QED
      BY <3>1, <3>2 DEF At, PCs
  <2>4. TailerType'
    BY <1>2, <2>1, <2>3 DEF Stat, At, Nowhere, TailerType, FileType, Position
  <2>5. StepInv'
    BY <1>2, <2>3 DEF Stat, At, Nowhere, StepInv, TailerType
  <2> QED
    BY <2>2, <2>4, <2>5
<1>3. CASE OpenFile
  <2>1. AssemblyType'
    BY <1>3 DEF OpenFile, AssemblyType
  <2>2. tl' \in [pc : PCs, fd : Nat, line : Nat, rec : Nat \ {0}, pos : Position]
    BY <1>3 DEF OpenFile, TailerType, FileType, PCs
  <2>3. TailerType'
    BY <1>3, <2>2 DEF OpenFile, TailerType, FileType
  <2>4. StepInv'
    BY <1>3, <2>2 DEF OpenFile, StepInv, TailerType
  <2> QED
    BY <2>1, <2>3, <2>4
<1>4. CASE SkipLine
  <2>1. LineAt \in Nat
    BY <1>4, LineInFile DEF SkipLine, Reading
  <2>2. AssemblyType'
    BY <1>4 DEF SkipLine, AssemblyType
  <2>3. tl' \in [pc : PCs, fd : Nat, line : Nat, rec : Nat \ {0}, pos : Position]
    <3>1. tl' = [tl EXCEPT !.pos = [tl.pos EXCEPT !.off = 2 * LineAt]]
      BY <1>4 DEF SkipLine, TailerType
    <3>2. [tl.pos EXCEPT !.off = 2 * LineAt] \in Position
      BY <2>1 DEF TailerType, Position
    <3> QED
      BY <3>1, <3>2 DEF TailerType
  <2>4. TailerType'
    BY <1>4, <2>1, <2>3 DEF SkipLine, Reading, TailerType, FileType, Position
  <2>5. StepInv'
    BY <1>4, <2>3 DEF SkipLine, Reading, StepInv, TailerType
  <2> QED
    BY <2>2, <2>4, <2>5
<1>5. CASE ReadLine
  <2>1. ThisLine \in Lines /\ ThisLine \in Nat
    BY <1>5, LineInFile, LinesAreIndices DEF ReadLine, Reading
  <2>2. PerLine[ThisLine] \in Nat \ {0}
    BY <1>5, <2>1, LinesAreIndices DEF ReadLine, WholeRecord
  <2>3. AssemblyType'
    BY <1>5 DEF ReadLine, AssemblyType
  <2>4. tl' \in [pc : PCs, fd : Nat, line : Nat, rec : Nat \ {0}, pos : Position]
    BY <1>5, <2>1, <2>2 DEF ReadLine, Reading, TailerType, FileType, PCs, Position
  <2>5. TailerType'
    <3>1. tl'.pc = "read" /\ tl'.fd = tl.fd /\ tl'.line = ThisLine /\ tl'.rec = tl.rec
      BY <1>5 DEF ReadLine, Reading, TailerType
    <3> QED
      BY <1>5, <2>1, <2>2, <2>4, <3>1 DEF ReadLine, Reading, TailerType, FileType
  <2>6. StepInv'
    BY <1>5, <2>4 DEF ReadLine, Reading, StepInv, TailerType
  <2> QED
    BY <2>3, <2>5, <2>6
<1>6. CASE AcceptRecord
  <2>1. tl.line \in Lines /\ tl.line # 0 /\ tl.rec \in 1 .. PerLine[tl.line] /\ tl.pc = "read"
    BY <1>6 DEF AcceptRecord, InHand, TailerType
  <2>2. AssemblyType'
    BY <1>0, <1>6, <2>1, RecordOfLine, AddType DEF AcceptRecord
  <2>5. PerLine[tl.line] \in Nat
    BY <2>1, LinesAreIndices
  <2>6. \/ /\ tl.rec < PerLine[tl.line]
           /\ tl' = [tl EXCEPT !.rec = tl.rec + 1]
        \/ /\ ~(tl.rec < PerLine[tl.line])
           /\ tl' = [pc |-> tl.pc, fd |-> tl.fd, line |-> 0, rec |-> 1,
                     pos |-> [inode |-> tl.pos.inode, off |-> tl.pos.off + 2, gen |-> tl.pos.gen]]
    BY <1>6 DEF AcceptRecord, TailerType, Position
  <2>7. [inode |-> tl.pos.inode, off |-> tl.pos.off + 2, gen |-> tl.pos.gen] \in Position
    BY DEF TailerType, Position
  <2>8. tl' \in [pc : PCs, fd : Nat, line : Nat, rec : Nat \ {0}, pos : Position]
    BY <2>6, <2>7 DEF TailerType
  <2>9. /\ tl'.pc = "read" /\ tl'.fd = tl.fd
        /\ \/ tl'.line = 0 /\ tl'.rec = 1
           \/ tl'.line = tl.line /\ tl'.rec = tl.rec + 1 /\ tl.rec < PerLine[tl.line]
    BY <2>1, <2>6 DEF TailerType
  <2>3. TailerType'
    BY <1>6, <2>1, <2>5, <2>8, <2>9 DEF AcceptRecord, TailerType, FileType
  <2>4. StepInv'
    BY <1>0, <1>6, <2>1, <2>3 DEF AcceptRecord, Add, StepInv, AssemblyType, TailerType
  <2> QED
    BY <2>2, <2>3, <2>4
<1>7. CASE EndOfFile
  BY <1>7 DEF EndOfFile, Reading, TailerType, AssemblyType, StepInv, FileType, PCs, Position, At, Nowhere
<1>8. CASE SaveState
  BY <1>8 DEF SaveState, TailerType, AssemblyType, StepInv, FileType, PCs, Position, At, Nowhere
<1>9. CASE TailReturn
  BY <1>9 DEF TailReturn, TailerType, AssemblyType, StepInv, FileType, PCs, Position, At, Nowhere
<1>10. CASE RefuseRecord
  BY <1>10 DEF RefuseRecord, InHand, TailerType, AssemblyType, StepInv, FileType, PCs, Position, At, Nowhere
<1> QED
  BY <1>1, <1>2, <1>3, <1>4, <1>5, <1>6, <1>7, <1>8, <1>9, <1>10 DEF Tailing

LEMMA HandlerStep ==
    ASSUME TypeInv, StepInv, Handling
    PROVE  TypeInv' /\ StepInv'
<1> USE DEF TypeInv, file, tailer, process, assembly
<1>0. Http # Tail_ /\ Http # Main /\ Http \in Goroutines
  BY Distinct DEF Goroutines
<1>1. CASE HttpReceive
  BY <1>1 DEF HttpReceive, TailerType, AssemblyType, StepInv, FileType, ProcessType
<1>2. CASE HttpReply
  <2>1. FileType' /\ TailerType'
    BY <1>2 DEF HttpReply, FileType, TailerType
  <2>2. ProcessType'
    BY <1>2 DEF HttpReply, ProcessType
  <2>3. CASE http' = "adding" /\ Add(Http, Request)
    <3>1. AssemblyType'
      BY <1>0, <2>3, AddType, RequestIsRecord
    <3>2. StepInv'
      BY <1>0, <1>2, <2>3 DEF HttpReply, Add, StepInv, AssemblyType
    <3> QED
      BY <2>1, <2>2, <3>1, <3>2
  <2>4. CASE http' = "refused" /\ UNCHANGED assembly
    <3>1. AssemblyType' /\ StepInv'
      BY <1>2, <2>4 DEF HttpReply, StepInv, AssemblyType
    <3> QED
      BY <2>1, <2>2, <3>1
  <2> QED
    BY <1>2, <2>3, <2>4 DEF HttpReply
<1>3. CASE HttpDone
  BY <1>3 DEF HttpDone, TailerType, AssemblyType, StepInv, FileType, ProcessType
<1> QED
  BY <1>1, <1>2, <1>3 DEF Handling

LEMMA StoreStep ==
    ASSUME TypeInv, StepInv, NEW g \in Goroutines, Store(g)
    PROVE  TypeInv' /\ StepInv'
<1> USE DEF TypeInv, file, tailer, process
<1>1. PICK r \in closing[g] : /\ stored' = stored \cup {r}
                              /\ closing' = [closing EXCEPT ![g] = closing[g] \ {r}]
  BY DEF Store
<1>2. \A h \in Goroutines : closing'[h] \subseteq closing[h]
  BY <1>1 DEF AssemblyType
<1>3. AssemblyType'
  BY <1>1 DEF Store, AssemblyType
<1>4. FileType' /\ TailerType' /\ ProcessType'
  BY DEF Store, FileType, TailerType, ProcessType
<1>5. StepInv'
  BY <1>2 DEF Store, StepInv, Goroutines
<1> QED
  BY <1>3, <1>4, <1>5

(* The process ends: nothing of its memory is left. *)
LEMMA EndStep ==
    ASSUME TypeInv, StepInv, EndProcess, saved' \in {saved, offsets}
    PROVE  TypeInv' /\ StepInv'
<1> USE DEF TypeInv, file
<1>1. FileType' /\ ProcessType'
  BY DEF EndProcess, FileType, ProcessType, Phases
<1>2. TailerType'
  BY DEF EndProcess, TailerType, Position, PCs, At, Nowhere
<1>3. AssemblyType'
  BY FS_EmptySet DEF EndProcess, AssemblyType
<1>4. StepInv'
  BY DEF EndProcess, StepInv, Goroutines
<1> QED
  BY <1>1, <1>2, <1>3, <1>4

LEMMA MarkerStep ==
    ASSUME TypeInv, NEW b \in BOOLEAN, WriteMarker(b)
    PROVE  /\ marker' \in [n : Nat, clean : BOOLEAN] /\ counted' \in SUBSET AllRecords
           /\ IsFiniteSet(counted')
           /\ marker'.n = Cardinality(counted') /\ marker'.clean = b /\ counted' = open
<1>1. IsFiniteSet(open) /\ open \in SUBSET AllRecords
  BY DEF TypeInv, AssemblyType
<1>2. Cardinality(open) \in Nat
  BY <1>1, FS_CardinalityType
<1> QED
  BY <1>1, <1>2 DEF WriteMarker, MarkerOf

(* The steps of Service.Run and of what interrupts it. *)
LEMMA ServiceStep ==
    ASSUME TypeInv, StepInv,
           Run \/ Expire \/ Cancel \/ SourceFails \/ Kill \/ ShutdownDeadline
    PROVE  TypeInv' /\ StepInv'
<1> USE DEF TypeInv, file, tailer, assembly
<1>0. Main # Tail_ /\ Main # Http /\ Main \in Goroutines
  BY Distinct DEF Goroutines
<1>1. CASE Report
  <2>1. ProcessType'
    BY <1>1, MarkerStep DEF Report, ProcessType, Phases
  <2> QED
    BY <1>1, <2>1 DEF Report, TailerType, AssemblyType, StepInv, FileType
<1>2. CASE RunBackground
  BY <1>2 DEF RunBackground, TailerType, AssemblyType, StepInv, FileType, ProcessType, Phases
<1>3. CASE RecordInFlight
  <2>1. ProcessType'
    BY <1>3, MarkerStep DEF RecordInFlight, ProcessType, Phases
  <2> QED
    BY <1>3, <2>1 DEF RecordInFlight, TailerType, AssemblyType, StepInv, FileType
<1>4. CASE FlushAssembly
  <2>1. AssemblyType'
    BY <1>0, <1>4, FS_EmptySet DEF FlushAssembly, Flushing, AssemblyType
  <2>2. ProcessType'
    BY <1>4 DEF FlushAssembly, Flushing, ProcessType, Phases
  <2>3. StepInv'
    BY <1>0, <1>4 DEF FlushAssembly, Flushing, StepInv, AssemblyType
  <2> QED
    BY <1>4, <2>1, <2>2, <2>3 DEF FlushAssembly, Flushing, TailerType, FileType
<1>5. CASE MarkClean
  <2>1. ProcessType'
    BY <1>5, MarkerStep DEF MarkClean, ProcessType, Phases
  <2> QED
    BY <1>5, <2>1 DEF MarkClean, TailerType, AssemblyType, StepInv, FileType
<1>6. CASE Exit
  BY <1>6, EndStep DEF Exit
<1>7. CASE Restart
  BY <1>7 DEF Restart, TailerType, AssemblyType, StepInv, FileType, ProcessType, Phases
<1>8. CASE Expire
  <2>1. PICK due \in SUBSET open : open' = open \ due /\ closing' = [closing EXCEPT ![Main] = due]
    BY <1>8 DEF Expire
  <2>2. IsFiniteSet(open')
    BY <2>1, FS_Subset DEF AssemblyType
  <2>3. AssemblyType'
    BY <1>0, <1>8, <2>1, <2>2 DEF Expire, AssemblyType
  <2>4. StepInv'
    BY <1>0, <1>8, <2>1 DEF Expire, StepInv, AssemblyType
  <2> QED
    BY <1>8, <2>3, <2>4 DEF Expire, TailerType, FileType, ProcessType, Phases
<1>9. CASE Cancel
  BY <1>9 DEF Cancel, TailerType, AssemblyType, StepInv, FileType, ProcessType, Phases
<1>10. CASE SourceFails
  BY <1>10 DEF SourceFails, TailerType, AssemblyType, StepInv, FileType, ProcessType, Phases
<1>11. CASE Kill
  BY <1>11, EndStep DEF Kill
<1>12. CASE ShutdownDeadline
  BY <1>12, EndStep DEF ShutdownDeadline
<1> QED
  BY <1>1, <1>2, <1>3, <1>4, <1>5, <1>6, <1>7, <1>8, <1>9, <1>10, <1>11, <1>12 DEF Run

(* The goroutines stay where StepInv says, through every step. *)
LEMMA StepInvIsInductive ==
    ASSUME TypeInv, StepInv, [Next]_vars
    PROVE  TypeInv' /\ StepInv'
<1>1. CASE Writer
  <2>1. FileType' /\ cur <= cur' /\ cur' \in Nat
    BY <1>1, FileStep DEF FileType
  <2>2. UNCHANGED <<tailer, http, assembly, embedded, phase, marker, lossMetric, counted, late>>
    BY <1>1 DEF Writer, WriteHalf, WriteRest, Rotate, Truncate, process
  <2>3. TailerType'
    BY <2>1, <2>2 DEF TypeInv, FileType, TailerType, tailer
  <2> QED
    BY <2>1, <2>2, <2>3 DEF TypeInv, StepInv, tailer, assembly, AssemblyType, ProcessType
<1>2. CASE Tailing \/ RefuseRecord
  <2>1. UNCHANGED <<file, http, process>>
    BY <1>2 DEF Tailing, RefuseRecord, TailStart, Stat, OpenFile, SkipLine, ReadLine,
                AcceptRecord, EndOfFile, SaveState, TailReturn
  <2> QED
    BY <1>2, <2>1, TailerStep DEF TypeInv, file, process, FileType, ProcessType
<1>3. CASE Handling
  BY <1>3, HandlerStep
<1>4. CASE \E g \in Goroutines : Store(g)
  BY <1>4, StoreStep
<1>5. CASE Run \/ Expire \/ Cancel \/ SourceFails \/ Kill \/ ShutdownDeadline
  BY <1>5, ServiceStep
<1>6. CASE UNCHANGED vars
  BY <1>6 DEF vars, file, tailer, assembly, process, TypeInv, FileType, TailerType, AssemblyType,
              ProcessType, StepInv
<1> QED
  BY <1>1, <1>2, <1>3, <1>4, <1>5, <1>6 DEF Next

-----------------------------------------------------------------------------
(* Custody. *)

LEMMA MemoryIs ==
    /\ InMemory = open \cup closing[Tail_] \cup closing[Http] \cup closing[Main]
    /\ InMemory' = open' \cup closing'[Tail_] \cup closing'[Http] \cup closing'[Main]
<1>1. ASSUME NEW f PROVE UNION {f[g] : g \in Goroutines} = f[Tail_] \cup f[Http] \cup f[Main]
  BY DEF Goroutines
<1> QED
  BY <1>1 DEF InMemory

(* Add closes into a goroutine that has nothing to take to the buffer. *)
LEMMA AddTakes ==
    ASSUME AssemblyType, NEW g \in Goroutines, NEW r, closing[g] = {}, Add(g, r)
    PROVE  InMemory' = InMemory \cup {r} /\ stored' = stored
<1>1. PICK due \in SUBSET (open \cup {r}) : /\ open' = (open \cup {r}) \ due
                                            /\ closing' = [closing EXCEPT ![g] = due]
  BY DEF Add
<1>2. closing'[g] = due /\ \A h \in Goroutines \ {g} : closing'[h] = closing[h]
  BY <1>1 DEF AssemblyType
<1>3. stored' = stored
  BY DEF Add
<1> QED
  BY <1>1, <1>2, <1>3, MemoryIs, Distinct DEF Goroutines

LEMMA EndIsEnd ==
    ASSUME TypeInv, EndProcess,
           (killed \cup exited)' = killed \cup exited \cup (InMemory \ stored)
    PROVE  C!End
<1>1. InMemory' = {}
  BY MemoryIs DEF EndProcess, Goroutines
<1> QED
  BY <1>1 DEF C!End, EndProcess

(* Each step of the process is a step of Custody, or changes nothing of it. *)
LEMMA CustodyStep ==
    ASSUME TypeInv, StepInv, [Next]_vars
    PROVE  [C!Next]_(C!vars)
<1> USE DEF TypeInv, C!vars
<1>a. Tail_ \in Goroutines /\ Http \in Goroutines /\ Main \in Goroutines
  BY DEF Goroutines
<1>b. ASSUME UNCHANGED <<open, closing, stored, killed, exited>> PROVE [C!Next]_(C!vars)
  BY <1>b DEF InMemory
<1>c. ASSUME UNCHANGED <<stored, killed, exited>>, NEW r \in AllRecords, InMemory' = InMemory \cup {r}
      PROVE  [C!Next]_(C!vars)
  BY <1>c DEF C!Next, C!Take
<1>1. CASE Writer
  BY <1>1, <1>b DEF Writer, WriteHalf, WriteRest, Rotate, Truncate, process, assembly
<1>2. CASE (Tailing /\ ~AcceptRecord) \/ RefuseRecord
  BY <1>2, <1>b DEF Tailing, RefuseRecord, TailStart, Stat, OpenFile, SkipLine, ReadLine,
                    EndOfFile, SaveState, TailReturn, process, assembly
<1>3. CASE AcceptRecord
  <2>1. <<tl.line, tl.rec>> \in AllRecords
    BY <1>3, RecordOfLine DEF AcceptRecord, InHand, TailerType
  <2>2. InMemory' = InMemory \cup {<<tl.line, tl.rec>>} /\ stored' = stored
    BY <1>3, <1>a, <2>1, AddTakes DEF AcceptRecord, InHand
  <2> QED
    BY <1>3, <1>c, <2>1, <2>2 DEF AcceptRecord, process
<1>4. CASE HttpReceive \/ HttpDone
  BY <1>4, <1>b DEF HttpReceive, HttpDone, process, assembly
<1>5. CASE HttpReply
  <2>1. CASE Add(Http, Request)
    <3>1. closing[Http] = {}
      BY <1>5 DEF HttpReply, StepInv
    <3>2. InMemory' = InMemory \cup {Request} /\ stored' = stored
      BY <1>a, <2>1, <3>1, RequestIsRecord, AddTakes
    <3> QED
      BY <1>5, <1>c, <3>2, RequestIsRecord DEF HttpReply, process
  <2>2. CASE UNCHANGED assembly
    BY <1>5, <2>2, <1>b DEF HttpReply, process, assembly
  <2> QED
    BY <1>5, <2>1, <2>2 DEF HttpReply
<1>6. ASSUME NEW g \in Goroutines, Store(g) PROVE [C!Next]_(C!vars)
  <2>1. PICK r \in closing[g] : /\ stored' = stored \cup {r}
                                /\ closing' = [closing EXCEPT ![g] = closing[g] \ {r}]
    BY <1>6 DEF Store
  <2>2. r \in AllRecords /\ r \in InMemory
    BY <2>1 DEF AssemblyType, InMemory
  <2>3. closing'[g] = closing[g] \ {r} /\ \A h \in Goroutines \ {g} : closing'[h] = closing[h]
    BY <2>1 DEF AssemblyType
  <2>4. open' = open /\ killed' = killed /\ exited' = exited
    BY <1>6 DEF Store, process
  <2>5. InMemory' \in {InMemory, InMemory \ {r}}
    BY <2>1, <2>3, <2>4, MemoryIs, Distinct DEF Goroutines
  <2> QED
    BY <2>1, <2>2, <2>4, <2>5 DEF C!Next, C!Store
<1>7. CASE Report \/ RunBackground \/ RecordInFlight \/ MarkClean \/ Restart \/ Cancel \/ SourceFails
  BY <1>7, <1>b DEF Report, RunBackground, RecordInFlight, MarkClean, Restart, Cancel,
                    SourceFails, assembly
<1>8. CASE Expire \/ FlushAssembly
  <2>1. closing[Main] = {}
    BY <1>8 DEF Expire, FlushAssembly, Flushing, StepInv
  <2>2. PICK due \in SUBSET open : open' = open \ due /\ closing' = [closing EXCEPT ![Main] = due]
    BY <1>8 DEF Expire, FlushAssembly, Flushing
  <2>3. closing'[Main] = due /\ closing'[Tail_] = closing[Tail_] /\ closing'[Http] = closing[Http]
    BY <1>a, <2>2, Distinct DEF AssemblyType
  <2>4. InMemory' = InMemory
    BY <2>1, <2>2, <2>3, MemoryIs
  <2> QED
    BY <1>8, <2>4 DEF Expire, FlushAssembly, Flushing
<1>9. CASE Exit \/ Kill \/ ShutdownDeadline
  <2>1. EndProcess /\ (killed \cup exited)' = killed \cup exited \cup (InMemory \ stored)
    BY <1>9 DEF Exit, Kill, ShutdownDeadline
  <2> QED
    BY <2>1, EndIsEnd DEF C!Next
<1>10. CASE UNCHANGED vars
  BY <1>10, <1>b DEF vars, assembly, process
<1> QED
  BY <1>1, <1>2, <1>3, <1>4, <1>5, <1>6, <1>7, <1>8, <1>9, <1>10
     DEF Next, Tailing, Handling, Run

\* Where the goroutines can be, in every state the process reaches: who holds closed
\* episodes, and that a poll reads lines and records that are there.
THEOREM TypeCorrect == Spec => [](TypeInv /\ StepInv)
<1>1. Init => TypeInv /\ StepInv
  BY InitType
<1>2. (TypeInv /\ StepInv) /\ [Next]_vars => (TypeInv /\ StepInv)'
  BY StepInvIsInductive
<1> QED
  BY <1>1, <1>2, PTL DEF Spec

\* The process keeps what it takes, for any file and any number of stops and kills: Lifecycle
\* implements Custody (service.go, Run and drain).
THEOREM LifecycleKeepsCustody == Spec => CustodyKept
<1>1. Init => C!Init
  <2>1. ASSUME Init PROVE InMemory = {}
    BY <2>1, MemoryIs DEF Init, Goroutines
  <2> QED
    BY <2>1 DEF Init, C!Init
<1>2. TypeInv /\ StepInv /\ [Next]_vars => [C!Next]_(C!vars)
  BY CustodyStep
<1> QED
  BY <1>1, <1>2, TypeCorrect, PTL DEF Spec, CustodyKept, C!Spec

-----------------------------------------------------------------------------
(* The drain and the report of a loss. *)

(* After drain flushed assembly nobody adds to it, unless a handler was running. *)
DrainInv ==
    /\ embedded => tl.pc = "down"
    /\ phase \in {"flushed", "closing"} /\ ~late =>
         open = {} /\ ~HandlerRuns /\ SourcesReturned
    /\ exited # {} => late

(* The marker counts what the process may take with it; the next one reads it before it
   writes its own. *)
LossInv ==
    ~embedded /\ ~late =>
        /\ marker.n = Cardinality(counted)
        /\ marker.clean => counted = {}
        /\ phase \in {"starting", "stopped"} => lost \subseteq counted
        /\ phase \notin {"starting", "stopped"} => lossMetric >= Cardinality(lost)

LEMMA DrainStep ==
    ASSUME TypeInv, StepInv, DrainInv, [Next]_vars
    PROVE  DrainInv'
<1> USE DEF TypeInv, DrainInv, HandlerRuns, SourcesReturned
<1>1. CASE Writer
  BY <1>1 DEF Writer, WriteHalf, WriteRest, Rotate, Truncate, process, assembly, tailer
<1>2. CASE Tailing \/ RefuseRecord
  <2>1. UNCHANGED <<http, embedded, phase, late, exited>>
    BY <1>2 DEF Tailing, RefuseRecord, TailStart, Stat, OpenFile, SkipLine, ReadLine,
                AcceptRecord, EndOfFile, SaveState, TailReturn, process
  <2>2. tl.pc # "returned" /\ ~(embedded /\ tl.pc = "down")
    BY <1>2 DEF Tailing, RefuseRecord, TailStart, Stat, OpenFile, SkipLine, ReadLine,
                AcceptRecord, EndOfFile, SaveState, TailReturn, Reading, InHand, TailerType
  <2>3. ~embedded /\ ~(phase \in {"flushed", "closing"} /\ ~late)
    BY <2>2
  <2> QED
    BY <2>1, <2>3
<1>3. CASE HttpReceive
  BY <1>3 DEF HttpReceive, Listening, process, assembly, tailer
<1>4. CASE HttpReply \/ HttpDone
  BY <1>4 DEF HttpReply, HttpDone, process, assembly, tailer
<1>5. ASSUME NEW g \in Goroutines, Store(g) PROVE DrainInv'
  BY <1>5 DEF Store, process, tailer
<1>6. CASE Report \/ RunBackground \/ RecordInFlight \/ MarkClean \/ Restart \/ Cancel \/ SourceFails
  <2>1. /\ UNCHANGED <<embedded, tl, http, open, late, exited>>
        /\ phase' \in {"flushed", "closing"} => phase = "flushed"
    BY <1>6 DEF Report, RunBackground, RecordInFlight, MarkClean, Restart, Cancel,
                SourceFails, assembly, tailer
  <2> QED
    BY <2>1
<1>7. CASE Expire
  BY <1>7 DEF Expire, tailer
<1>8. CASE FlushAssembly
  <2>1. ~late' => ~late /\ ~HandlerRuns
    BY <1>8, Zenon DEF FlushAssembly, Flushing
  <2>2. late => late'
    BY <1>8, Zenon DEF FlushAssembly, Flushing
  <2>3. /\ open' = {} /\ SourcesReturned
        /\ UNCHANGED <<embedded, tl, http, exited>>
    BY <1>8 DEF FlushAssembly, Flushing, tailer
  <2> QED
    BY <2>1, <2>2, <2>3
<1>9. CASE Exit
  <2>1. CASE phase = "closing"
    <3>1. ~late => InMemory = {}
      BY <2>1, MemoryIs DEF StepInv
    <3>2. exited' = exited \cup (InMemory \ stored) \/ exited' = exited
      BY <1>9 DEF Exit
    <3> QED
      BY <1>9, <3>1, <3>2 DEF Exit, EndProcess, At
  <2>2. CASE phase = "failed"
    BY <1>9, <2>2 DEF Exit, EndProcess, At
  <2> QED
    BY <1>9, <2>1, <2>2 DEF Exit
<1>10. CASE Kill \/ ShutdownDeadline
  BY <1>10 DEF Kill, ShutdownDeadline, EndProcess, At
<1>11. CASE UNCHANGED vars
  BY <1>11 DEF vars, assembly, process, tailer
<1> QED
  BY <1>1, <1>2, <1>3, <1>4, <1>5, <1>6, <1>7, <1>8, <1>9, <1>10, <1>11 DEF Next, Handling, Run

LEMMA LossStep ==
    ASSUME TypeInv, StepInv, DrainInv, LossInv, [Next]_vars
    PROVE  LossInv'
<1> USE DEF TypeInv, LossInv
<1>a. ASSUME UNCHANGED <<embedded, phase, marker, lossMetric, counted, lost, late>> PROVE LossInv'
  BY <1>a
<1>1. CASE Writer
  BY <1>1, <1>a DEF Writer, WriteHalf, WriteRest, Rotate, Truncate, process
<1>2. CASE Tailing \/ RefuseRecord
  BY <1>2, <1>a DEF Tailing, RefuseRecord, TailStart, Stat, OpenFile, SkipLine, ReadLine,
                    AcceptRecord, EndOfFile, SaveState, TailReturn, process
<1>3. CASE Handling
  BY <1>3, <1>a DEF Handling, HttpReceive, HttpReply, HttpDone, process
<1>4. ASSUME NEW g \in Goroutines, Store(g) PROVE LossInv'
  BY <1>4, <1>a DEF Store, process
<1>5. CASE Report
  <2>1. marker'.n = Cardinality(counted') /\ ~marker'.clean
    BY <1>5, MarkerStep DEF Report
  <2>2. ASSUME ~late, ~embedded PROVE lossMetric' >= Cardinality(lost)
    <3>1. lost \subseteq counted /\ IsFiniteSet(counted)
      BY <1>5, <2>2 DEF Report, ProcessType
    <3>2. Cardinality(lost) <= Cardinality(counted) /\ Cardinality(lost) \in Nat
          /\ Cardinality(counted) \in Nat
      BY <3>1, FS_Subset, FS_CardinalityType
    <3>3. CASE marker.clean
      <4>1. lost = {} /\ lossMetric' = 0
        BY <1>5, <2>2, <3>1, <3>3 DEF Report
      <4> QED
        BY <4>1, FS_EmptySet
    <3>4. CASE ~marker.clean
      BY <1>5, <2>2, <3>2, <3>4 DEF Report
    <3> QED
      BY <3>3, <3>4
  <2> QED
    BY <1>5, <2>1, <2>2 DEF Report
<1>6. CASE RunBackground
  BY <1>6 DEF RunBackground
<1>7. CASE RecordInFlight
  <2>1. CASE embedded
    BY <1>7, <2>1 DEF RecordInFlight
  <2>2. CASE ~embedded
    <3>1. marker'.n = Cardinality(counted') /\ ~marker'.clean
      BY <1>7, <2>2, MarkerStep DEF RecordInFlight
    <3> QED
      BY <1>7, <3>1 DEF RecordInFlight
  <2> QED
    BY <2>1, <2>2
<1>8. CASE MarkClean
  <2>1. CASE embedded
    BY <1>8, <2>1 DEF MarkClean
  <2>2. CASE ~embedded
    <3>1. marker'.n = Cardinality(counted') /\ counted' = open
      BY <1>8, <2>2, MarkerStep DEF MarkClean
    <3>2. ~late => open = {}
      BY <1>8 DEF MarkClean, DrainInv
    <3> QED
      BY <1>8, <3>1, <3>2 DEF MarkClean
  <2> QED
    BY <2>1, <2>2
<1>9. CASE FlushAssembly
  BY <1>9 DEF FlushAssembly, Flushing
<1>10. CASE Restart
  BY <1>10 DEF Restart
<1>11. CASE Expire \/ Cancel \/ SourceFails
  BY <1>11 DEF Expire, Cancel, SourceFails
<1>12. CASE Exit \/ Kill \/ ShutdownDeadline
  <2>1. EndProcess
    BY <1>12 DEF Exit, Kill, ShutdownDeadline
  <2> QED
    BY <2>1 DEF EndProcess
<1>13. CASE UNCHANGED vars
  BY <1>13, <1>a DEF vars, process
<1> QED
  BY <1>1, <1>2, <1>3, <1>4, <1>5, <1>6, <1>7, <1>8, <1>9, <1>10, <1>11, <1>12, <1>13 DEF Next, Run

LEMMA InitDrain == Init => DrainInv /\ LossInv
<1> SUFFICES ASSUME Init PROVE DrainInv /\ LossInv
  OBVIOUS
<1>1. DrainInv
  BY DEF Init, DrainInv, At
<1>2. LossInv
  BY FS_EmptySet DEF Init, LossInv, MarkerOf
<1> QED
  BY <1>1, <1>2

\* After the sources have returned and assembly was flushed, nothing comes into it, unless a
\* handler was running; and the marker on disk counts what the process may lose.
THEOREM DrainAndLoss == Spec => [](DrainInv /\ LossInv)
<1>1. Init => DrainInv /\ LossInv
  BY InitDrain
<1>2. (TypeInv /\ StepInv) /\ (DrainInv /\ LossInv) /\ [Next]_vars => (DrainInv /\ LossInv)'
  BY DrainStep, LossStep
<1> QED
  BY <1>1, <1>2, TypeCorrect, PTL DEF Spec

\* A process that drained takes no record with it, unless an HTTP handler was still running
\* when assembly was flushed (service.go, drain).
THEOREM DrainLosesNothing == Spec => []DrainedUnlessLate
<1>1. DrainInv /\ LossInv => DrainedUnlessLate
  BY DEF DrainInv, DrainedUnlessLate
<1> QED
  BY <1>1, DrainAndLoss, PTL

\* The next process reports at least the episodes that the marker counted and that did not
\* reach the buffer, whenever the last one died (restartloss.go, reportPreviousLoss).
THEOREM LossReported == Spec => []LossIsReported
<1>1. DrainInv /\ LossInv => LossIsReported
  BY DEF LossInv, LossIsReported
<1> QED
  BY <1>1, DrainAndLoss, PTL

-----------------------------------------------------------------------------
(* The offset. *)

(* Position p of the lines f of file c in its generation g, when w lines were written: what
   is below it is in tk or was passed over, and so is the line in whose middle it is. *)
Covers(p, f, c, g, w, ps, tk) ==
    p.inode = c /\ p.gen = g =>
        /\ p.off <= 2 * Len(f) + 1
        /\ \A k \in 1 .. Len(f) : 2 * k <= p.off => f[k] \in ps \/ Records(f[k]) \subseteq tk
        /\ \A k \in 1 .. Len(f) : 2 * k = p.off + 1 => f[k] \in ps
        /\ p.off = 2 * Len(f) + 1 => w + 1 \in ps

Covered(p) == Covers(p, files[cur], cur, gen, written, passed, Taken)

(* The line in hand is the one at the position, unless the file was replaced since. *)
HandInv ==
    tl.line # 0 =>
        /\ \A k \in 1 .. tl.rec - 1 : <<tl.line, k>> \in Taken
        /\ tl.pos.inode = cur /\ tl.pos.gen = gen =>
             /\ LineAt <= Len(files[cur]) /\ files[cur][LineAt] = tl.line
             /\ tl.pos.off = 2 * (LineAt - 1)

PositionInv ==
    /\ offsets.inode <= cur /\ saved.inode <= cur /\ tl.pos.inode <= cur
    /\ offsets.gen <= gen /\ saved.gen <= gen /\ tl.pos.gen <= gen
    /\ tl.pc \notin {"open", "read"} => tl.pos = Nowhere
    /\ tl.pc = "read" => tl.pos.inode <= tl.fd

CoverInv ==
    PositionInv /\ HandInv /\ Covered(offsets) /\ Covered(saved) /\ Covered(tl.pos)

(* Nothing that was taken is forgotten. *)
LEMMA TakenGrows ==
    ASSUME TypeInv, StepInv, [Next]_vars
    PROVE  Taken \subseteq Taken'
<1>1. [C!Next]_(C!vars)
  BY CustodyStep
<1>2. CASE UNCHANGED C!vars
  BY <1>2 DEF Taken, C!vars
<1>3. ASSUME NEW r \in AllRecords, C!Take(r) \/ C!Store(r) PROVE Taken \subseteq Taken'
  BY <1>3 DEF Taken, C!Take, C!Store
<1>4. CASE C!End
  BY <1>4 DEF Taken, C!End
<1> QED
  BY <1>1, <1>2, <1>3, <1>4 DEF C!Next

LEMMA CoversGrows ==
    ASSUME NEW p, NEW f, NEW c, NEW g, NEW w, NEW ps, NEW tk, NEW ps2, NEW tk2,
           Covers(p, f, c, g, w, ps, tk), ps \subseteq ps2, tk \subseteq tk2
    PROVE  Covers(p, f, c, g, w, ps2, tk2)
BY DEF Covers

(* The writer ends a line: it is above every position, or the one that a position is in. *)
LEMMA CoversAppend ==
    ASSUME NEW p \in Position, NEW f \in Seq(Lines), NEW c, NEW g, NEW w \in Nat, NEW ps, NEW tk,
           w + 1 \in Lines, Covers(p, f, c, g, w, ps, tk)
    PROVE  Covers(p, Append(f, w + 1), c, g, w + 1, ps, tk)
<1> SUFFICES ASSUME p.inode = c, p.gen = g
             PROVE  Covers(p, Append(f, w + 1), c, g, w + 1, ps, tk)
  BY DEF Covers
<1> DEFINE e == Append(f, w + 1)
<1>1. Len(e) = Len(f) + 1 /\ Len(f) \in Nat /\ e[Len(f) + 1] = w + 1 /\ p.off \in Nat
  BY DEF Position
<1>2. \A k \in 1 .. Len(f) : e[k] = f[k]
  OBVIOUS
<1>3. p.off <= 2 * Len(f) + 1
  BY DEF Covers
<1>4. ASSUME NEW k \in 1 .. Len(e), 2 * k <= p.off PROVE e[k] \in ps \/ Records(e[k]) \subseteq tk
  <2>1. k \in 1 .. Len(f)
    BY <1>1, <1>3, <1>4
  <2> QED
    BY <1>2, <1>4, <2>1 DEF Covers
<1>5. ASSUME NEW k \in 1 .. Len(e), 2 * k = p.off + 1 PROVE e[k] \in ps
  <2>1. CASE k \in 1 .. Len(f)
    BY <1>2, <1>5, <2>1 DEF Covers
  <2>2. CASE k = Len(f) + 1
    <3>1. p.off = 2 * Len(f) + 1
      BY <1>1, <1>5, <2>2
    <3>2. w + 1 \in ps
      BY <3>1 DEF Covers
    <3> QED
      BY <1>1, <2>2, <3>2
  <2> QED
    BY <1>1, <2>1, <2>2
<1>6. p.off # 2 * Len(e) + 1 /\ p.off <= 2 * Len(e) + 1
  BY <1>1, <1>3
<1> HIDE DEF e
<1>7. Covers(p, e, c, g, w + 1, ps, tk)
  BY <1>4, <1>5, <1>6 DEF Covers
<1> QED
  BY <1>7 DEF e

LEMMA CoversOther ==
    ASSUME NEW p, NEW f, NEW c, NEW g, NEW w, NEW ps, NEW tk, p.inode # c \/ p.gen # g
    PROVE  Covers(p, f, c, g, w, ps, tk)
BY DEF Covers

LEMMA CoverInit == Init => CoverInv
<1> SUFFICES ASSUME Init PROVE CoverInv
  OBVIOUS
<1>1. offsets = Nowhere /\ saved = Fresh /\ tl = At("down") /\ cur = 1 /\ gen = 1
  BY DEF Init
<1>2. PositionInv /\ HandInv
  BY <1>1 DEF PositionInv, HandInv, At, Nowhere, Fresh
<1>3. Nowhere.inode # cur /\ Fresh.inode # cur /\ At("down").pos = Nowhere
  BY <1>1 DEF Nowhere, Fresh, At
<1> QED
  BY <1>1, <1>2, <1>3, CoversOther DEF CoverInv, Covered

(* The writer and the rotation. *)
LEMMA CoverFile ==
    ASSUME TypeInv, StepInv, CoverInv, Writer
    PROVE  CoverInv'
<1>1. UNCHANGED <<tailer, Taken>>
  BY DEF Writer, WriteHalf, WriteRest, Rotate, Truncate, process, assembly, Taken, InMemory
<1>2. offsets \in Position /\ saved \in Position /\ tl.pos \in Position
  BY DEF TypeInv, TailerType
<1>3. files[cur] \in Seq(Lines) /\ cur \in DOMAIN files /\ cur \in Nat /\ gen \in Nat /\ written \in Nat
  BY DEF TypeInv, FileType
<1>4. CASE WriteHalf
  BY <1>1, <1>4 DEF WriteHalf, CoverInv, PositionInv, HandInv, Covered, tailer, LineAt
<1>5. CASE WriteRest
  <2>1. UNCHANGED <<cur, gen>> /\ written' = written + 1
        /\ files'[cur] = Append(files[cur], written + 1)
    BY <1>3, <1>5 DEF WriteRest
  <2>2. written + 1 \in Lines
    BY <1>5, LinesAreIndices DEF WriteRest, TypeInv, FileType
  <2>3. ASSUME NEW p \in Position, Covered(p)
        PROVE  Covers(p, files'[cur'], cur', gen', written', passed', Taken')
    BY <1>1, <1>3, <2>1, <2>2, <2>3, CoversAppend DEF Covered, tailer
  <2>4. Covered(offsets)' /\ Covered(saved)' /\ Covered(tl.pos)'
    BY <1>1, <1>2, <2>3 DEF Covered, CoverInv, tailer
  <2>5. HandInv'
    <3> SUFFICES ASSUME tl.line # 0 PROVE HandInv'
      BY <1>1 DEF HandInv, tailer
    <3>1. tl.pc = "read"
      BY DEF TypeInv, TailerType
    <3>2. LineAt \in Nat \ {0} /\ LineAt' = LineAt
      BY <1>1, <3>1, LineInFile DEF TypeInv, LineAt, tailer
    <3>3. ASSUME LineAt <= Len(files[cur])
          PROVE  LineAt <= Len(files'[cur]) /\ files'[cur][LineAt] = files[cur][LineAt]
      BY <1>3, <2>1, <2>2, <3>2, <3>3
    <3> QED
      BY <1>1, <2>1, <3>2, <3>3 DEF CoverInv, HandInv, tailer
  <2>6. PositionInv'
    BY <1>1, <2>1 DEF CoverInv, PositionInv, tailer
  <2> QED
    BY <2>4, <2>5, <2>6 DEF CoverInv
<1>6. CASE Rotate \/ Truncate
  <2>1. (cur' = cur + 1 /\ gen' = gen + 1) \/ (cur' = cur /\ gen' = gen + 1)
    BY <1>6 DEF Rotate, Truncate
  <2>2. ASSUME NEW p \in Position, p.inode <= cur, p.gen <= gen
        PROVE  /\ ~(p.inode = cur' /\ p.gen = gen') /\ p.inode <= cur' /\ p.gen <= gen'
               /\ Covers(p, files'[cur'], cur', gen', written', passed', Taken')
    <3>1. p.inode \in Int /\ p.gen \in Nat
      BY DEF Position
    <3>2. p.gen # gen' /\ p.inode <= cur' /\ p.gen <= gen'
      BY <1>3, <2>1, <2>2, <3>1
    <3> QED
      BY <3>2, CoversOther
  <2>3. Covered(offsets)' /\ Covered(saved)' /\ Covered(tl.pos)'
    BY <1>1, <1>2, <2>2 DEF Covered, CoverInv, PositionInv, tailer
  <2>4. HandInv'
    BY <1>1, <1>2, <2>2 DEF CoverInv, PositionInv, HandInv, tailer
  <2>5. PositionInv'
    BY <1>1, <1>2, <2>2 DEF CoverInv, PositionInv, tailer
  <2> QED
    BY <2>3, <2>4, <2>5 DEF CoverInv
<1> QED
  BY <1>4, <1>5, <1>6 DEF Writer

(* Whatever leaves the file and the tailer alone. *)
LEMMA CoverElsewhere ==
    ASSUME CoverInv, UNCHANGED <<file, tailer>>, Taken \subseteq Taken'
    PROVE  CoverInv'
<1>1. PositionInv' /\ HandInv'
  BY DEF CoverInv, PositionInv, HandInv, LineAt, file, tailer
<1>2. Covered(offsets)' /\ Covered(saved)' /\ Covered(tl.pos)'
  BY CoversGrows DEF CoverInv, Covered, file, tailer
<1> QED
  BY <1>1, <1>2 DEF CoverInv

(* The process ends, and the tailer with it. *)
LEMMA CoverEnd ==
    ASSUME TypeInv, CoverInv, EndProcess, saved' \in {saved, offsets}, Taken \subseteq Taken'
    PROVE  CoverInv'
<1>1. tl' = At("down") /\ offsets' = Nowhere /\ UNCHANGED <<files, cur, gen, written, passed>>
  BY DEF EndProcess, file
<1>2. cur \in Nat \ {0} /\ gen \in Nat
  BY DEF TypeInv, FileType
<1>3. At("down").pos = Nowhere /\ Nowhere.inode = 0 /\ Nowhere.gen = 0 /\ At("down").line = 0
      /\ At("down").pc = "down"
  BY DEF At, Nowhere
<1>4. PositionInv' /\ HandInv'
  BY <1>1, <1>2, <1>3 DEF CoverInv, PositionInv, HandInv
<1>5. Covered(saved)'
  BY <1>1, CoversGrows DEF CoverInv, Covered
<1>6. Covered(offsets)' /\ Covered(tl.pos)'
  BY <1>1, <1>2, <1>3, CoversOther DEF Covered
<1> QED
  BY <1>4, <1>5, <1>6 DEF CoverInv

(* The tailer. *)
LEMMA CoverTailer ==
    ASSUME TypeInv, StepInv, CoverInv, Tailing \/ RefuseRecord, Taken \subseteq Taken'
    PROVE  CoverInv'
<1> DEFINE Covered2(p) == Covers(p, files[cur], cur, gen, written, passed', Taken')
<1>a. UNCHANGED <<files, cur, gen, written, half>>
  BY DEF Tailing, RefuseRecord, TailStart, Stat, OpenFile, SkipLine, ReadLine, AcceptRecord,
         EndOfFile, SaveState, TailReturn, file
<1>b. /\ files[cur] \in Seq(Lines) /\ Len(files[cur]) \in Nat
      /\ cur \in Nat \ {0} /\ gen \in Nat /\ written \in Nat
  BY SizeIsNat DEF TypeInv, FileType
<1>c. offsets \in Position /\ saved \in Position /\ tl.pos \in Position
  BY DEF TypeInv, TailerType
<1>d. \A pc : At(pc).pos = Nowhere /\ At(pc).line = 0 /\ At(pc).pc = pc
  BY DEF At
<1>e. Nowhere.inode = 0 /\ Nowhere.gen = 0 /\ Nowhere.off = 0
  BY DEF Nowhere
<1>f. Covered2(Nowhere)
  BY <1>b, <1>e, CoversOther
<1>g. ASSUME passed \subseteq passed', NEW p, Covered(p) PROVE Covered2(p)
  BY <1>g, CoversGrows DEF Covered
<1>h. ASSUME Covered2(offsets'), Covered2(saved'), Covered2(tl'.pos), PositionInv', HandInv'
      PROVE  CoverInv'
  BY <1>a, <1>h DEF CoverInv, Covered
<1> HIDE DEF Covered2
<1>1. CASE TailStart
  <2>1. tl' = At("wait")
    BY <1>1 DEF TailStart
  <2>2. CASE saved = Fresh /\ StartAt = "end"
    <3> DEFINE here == [inode |-> cur, off |-> Size(cur), gen |-> gen]
    <3>1. offsets' = here /\ saved' = here
      BY <1>1, <2>2 DEF TailStart
    <3>2. passed' = LinesBelow(cur, Size(cur)) \cup IF half THEN {written + 1} ELSE {}
      BY <1>1, <2>2 DEF TailStart
    <3>3. Size(cur) = 2 * Len(files[cur]) + (IF half THEN 1 ELSE 0)
      BY SizeIsNat DEF TypeInv
    <3>4. \A k \in 1 .. Len(files[cur]) : 2 * k <= Size(cur) => files[cur][k] \in passed'
      BY <1>b, <3>2 DEF LinesBelow
    <3>5. Size(cur) = 2 * Len(files[cur]) + 1 => written + 1 \in passed'
      <4>1. CASE half
        BY <3>2, <4>1
      <4>2. CASE ~half
        BY <1>b, <3>3, <4>2
      <4> QED
        BY <4>1, <4>2
    <3>6. Size(cur) <= 2 * Len(files[cur]) + 1 /\ Size(cur) >= 2 * Len(files[cur]) /\ Size(cur) \in Nat
      <4>1. Size(cur) = 2 * Len(files[cur]) \/ Size(cur) = 2 * Len(files[cur]) + 1
        BY SizeIsNat DEF TypeInv
      <4> QED
        BY <1>b, <4>1
    <3>7. ASSUME NEW k \in 1 .. Len(files[cur]), 2 * k = Size(cur) + 1 PROVE FALSE
      BY <1>b, <3>6, <3>7
    <3>8. here.inode = cur /\ here.off = Size(cur) /\ here.gen = gen
      OBVIOUS
    <3> HIDE DEF here
    <3>9. Covered2(here)
      BY <3>4, <3>5, <3>6, <3>7, <3>8 DEF Covered2, Covers
    <3>10. PositionInv' /\ HandInv'
      BY <1>a, <1>b, <1>d, <1>e, <2>1, <3>1, <3>8 DEF PositionInv, HandInv
    <3> QED
      BY <1>d, <1>f, <1>h, <2>1, <3>1, <3>9, <3>10
  <2>3. CASE ~(saved = Fresh /\ StartAt = "end")
    <3>1. offsets' \in {Nowhere, saved} /\ saved' = saved /\ passed' = passed
      BY <1>1, <2>3 DEF TailStart
    <3>2. PositionInv' /\ HandInv'
      BY <1>a, <1>b, <1>d, <1>e, <2>1, <3>1 DEF CoverInv, PositionInv, HandInv
    <3> QED
      BY <1>d, <1>f, <1>g, <1>h, <2>1, <3>1, <3>2 DEF CoverInv
  <2> QED
    BY <2>2, <2>3
<1>2. CASE Stat
  <2> DEFINE from == IF SameFile THEN offsets.off ELSE 0
             pos == [inode |-> cur, off |-> from, gen |-> gen]
  <2>1. offsets' = offsets /\ saved' = saved /\ passed \subseteq passed'
    BY <1>2 DEF Stat
  <2>2. \/ tl' = At("save")
        \/ tl' = [At("open") EXCEPT !.pos = pos] /\ from # Size(cur)
    BY <1>2 DEF Stat
  <2>3. tl'.line = 0 /\ tl'.pos \in {Nowhere, pos} /\ tl'.pc \in {"save", "open"}
        /\ (tl'.pc = "save" => tl'.pos = Nowhere)
    BY <2>2 DEF At
  <2>4. from \in Nat /\ pos.inode = cur /\ pos.gen = gen /\ pos.off = from
    BY <1>c DEF Position
  <2>5. PositionInv' /\ HandInv'
    BY <1>a, <1>b, <1>e, <2>1, <2>3, <2>4 DEF CoverInv, PositionInv, HandInv
  <2>6. ASSUME tl' = [At("open") EXCEPT !.pos = pos], from # Size(cur) PROVE Covered2(pos)
    <3>1. CASE offsets.inode # cur \/ ~(offsets.off <= Size(cur))
      <4>1. from = 0
        BY <3>1 DEF SameFile
      <4> QED
        BY <1>b, <2>4, <4>1 DEF Covered2, Covers
    <3>2. CASE offsets.inode = cur /\ offsets.off <= Size(cur) /\ offsets.gen = gen
      <4>1. from = offsets.off
        BY <3>2 DEF SameFile
      <4>2. Covered2(offsets)
        BY <1>g, <2>1 DEF CoverInv
      <4> QED
        BY <2>4, <3>2, <4>1, <4>2 DEF Covered2, Covers
    <3>3. CASE offsets.inode = cur /\ offsets.off <= Size(cur) /\ offsets.gen # gen
      <4>1. from = offsets.off
        BY <3>3 DEF SameFile
      <4>2. passed' = passed \cup LinesBelow(cur, from + 1)
        BY <1>2, <3>3 DEF Stat
      <4>3. \A k \in 1 .. Len(files[cur]) : 2 * k <= from + 1 => files[cur][k] \in passed'
        BY <1>b, <4>2 DEF LinesBelow
      <4>4. from <= 2 * Len(files[cur])
        <5>1. Size(cur) \in {2 * Len(files[cur]), 2 * Len(files[cur]) + 1}
          BY SizeIsNat DEF TypeInv
        <5>2. from <= Size(cur) /\ from # Size(cur)
          BY <2>6, <3>3, <4>1
        <5> QED
          BY <1>b, <2>4, <5>1, <5>2
      <4> HIDE DEF from, pos
      <4> QED
        BY <1>b, <2>4, <4>3, <4>4 DEF Covered2, Covers
    <3> QED
      BY <3>1, <3>2, <3>3
  <2>7. Covered2(tl'.pos)
    BY <1>d, <1>f, <2>2, <2>6 DEF At
  <2> QED
    BY <1>g, <1>h, <2>1, <2>5, <2>7 DEF CoverInv
<1>3. CASE OpenFile
  <2>1. tl'.pc = "read" /\ tl'.fd = cur /\ tl'.pos = tl.pos /\ tl'.line = tl.line
        /\ offsets' = offsets /\ saved' = saved /\ passed' = passed
    BY <1>3 DEF OpenFile, TypeInv, TailerType
  <2>2. tl.line = 0
    BY <1>3 DEF OpenFile, TypeInv, TailerType
  <2>3. PositionInv' /\ HandInv'
    BY <1>a, <2>1, <2>2 DEF CoverInv, PositionInv, HandInv
  <2> QED
    BY <1>g, <1>h, <2>1, <2>3 DEF CoverInv
<1>7. CASE EndOfFile \/ RefuseRecord
  <2>1. offsets' = tl.pos /\ saved' = saved /\ passed' = passed
        /\ (tl' = At("save") \/ tl' = At("wait"))
    BY <1>7 DEF EndOfFile, RefuseRecord
  <2>2. PositionInv' /\ HandInv'
    BY <1>a, <1>b, <1>d, <1>e, <2>1 DEF CoverInv, PositionInv, HandInv
  <2> QED
    BY <1>d, <1>f, <1>g, <1>h, <2>1, <2>2 DEF CoverInv
<1>8. CASE SaveState \/ TailReturn
  <2>1. offsets' = offsets /\ saved' = offsets /\ passed' = passed
        /\ (tl' = At("wait") \/ tl' = At("returned"))
    BY <1>8 DEF SaveState, TailReturn
  <2>2. PositionInv' /\ HandInv'
    BY <1>a, <1>b, <1>d, <1>e, <2>1 DEF CoverInv, PositionInv, HandInv
  <2> QED
    BY <1>d, <1>f, <1>g, <1>h, <2>1, <2>2 DEF CoverInv
<1>i. ASSUME tl.pc = "read", tl.pos.inode = cur PROVE tl.fd = cur
  <2>1. tl.fd \in 1 .. cur
    BY <1>i DEF TypeInv, TailerType
  <2> QED
    BY <1>b, <1>i, <2>1 DEF CoverInv, PositionInv
<1>j. ASSUME tl.pc = "read"
      PROVE  /\ LineAt \in Nat \ {0} /\ tl.pos.off \in Nat
             /\ tl.pos.off = 2 * (LineAt - 1) + (tl.pos.off % 2) /\ tl.pos.off % 2 \in {0, 1}
  BY <1>j, <1>c, LineInFile DEF TypeInv, Position
<1>4. CASE SkipLine
  <2>0. tl.pc = "read" /\ tl.line = 0 /\ LineAt <= Len(files[tl.fd])
        /\ (tl.pos.off % 2 = 0 => ~(PerLine[ThisLine] > 0))
    BY <1>4 DEF SkipLine, Reading, HasLine, WholeRecord
  <2>1. offsets' = offsets /\ saved' = saved /\ passed' = passed
        /\ tl' = [tl EXCEPT !.pos = [tl.pos EXCEPT !.off = 2 * LineAt]]
    BY <1>4 DEF SkipLine
  <2>2. tl'.pc = "read" /\ tl'.fd = tl.fd /\ tl'.line = 0
        /\ tl'.pos.inode = tl.pos.inode /\ tl'.pos.gen = tl.pos.gen /\ tl'.pos.off = 2 * LineAt
    BY <1>c, <2>0, <2>1 DEF TypeInv, TailerType, Position
  <2>3. PositionInv' /\ HandInv'
    BY <1>a, <2>0, <2>1, <2>2 DEF CoverInv, PositionInv, HandInv
  <2>4. ASSUME tl.pos.inode = cur, tl.pos.gen = gen PROVE Covered2(tl'.pos)
    <3>1. LineAt <= Len(files[cur]) /\ ThisLine = files[cur][LineAt]
      BY <1>i, <2>0, <2>4 DEF ThisLine
    <3>2. Covered2(tl.pos)
      BY <1>g, <2>1 DEF CoverInv
    <3>3. files[cur][LineAt] \in passed' \/ Records(files[cur][LineAt]) = {}
      <4>1. CASE tl.pos.off % 2 = 1
        <5>1. 2 * LineAt = tl.pos.off + 1 /\ LineAt \in 1 .. Len(files[cur])
          BY <1>b, <1>j, <2>0, <3>1, <4>1
        <5> QED
          BY <2>4, <3>2, <5>1 DEF Covered2, Covers
      <4>2. CASE tl.pos.off % 2 = 0
        <5>1. ThisLine \in Lines /\ ~(PerLine[ThisLine] > 0)
          BY <1>4, <2>0, <4>2, LineInFile DEF SkipLine, TypeInv
        <5>2. PerLine[ThisLine] \in Nat
          BY <5>1, LinesAreIndices
        <5>3. 1 .. PerLine[ThisLine] = {}
          BY <5>1, <5>2
        <5> QED
          BY <3>1, <5>3 DEF Records
      <4> QED
        BY <1>j, <2>0, <4>1, <4>2
    <3>4. ASSUME NEW k \in 1 .. Len(files[cur]), 2 * k <= 2 * LineAt
          PROVE  files[cur][k] \in passed' \/ Records(files[cur][k]) \subseteq Taken'
      <4>1. CASE k = LineAt
        BY <3>3, <4>1
      <4>2. CASE 2 * k <= tl.pos.off
        BY <2>4, <3>2, <4>2 DEF Covered2, Covers
      <4> QED
        BY <1>j, <2>0, <3>4, <4>1, <4>2
    <3>5. \A k \in 1 .. Len(files[cur]) : 2 * k # 2 * LineAt + 1
      BY <1>b, <1>j, <2>0
    <3>6. 2 * LineAt <= 2 * Len(files[cur]) + 1 /\ 2 * LineAt # 2 * Len(files[cur]) + 1
      <4>1. LineAt \in Nat
        BY <1>j, <2>0
      <4> QED
        BY <1>b, <3>1, <4>1
    <3> QED
      BY <2>2, <3>4, <3>5, <3>6 DEF Covered2, Covers
  <2>5. Covered2(tl'.pos)
    BY <2>2, <2>4, CoversOther DEF Covered2
  <2> QED
    BY <1>g, <1>h, <2>1, <2>3, <2>5 DEF CoverInv
<1>5. CASE ReadLine
  <2>0. tl.pc = "read" /\ tl.line = 0 /\ LineAt <= Len(files[tl.fd]) /\ tl.pos.off % 2 = 0
    BY <1>5 DEF ReadLine, Reading, HasLine, WholeRecord
  <2>1. offsets' = offsets /\ saved' = saved /\ passed' = passed
        /\ tl' = [tl EXCEPT !.line = ThisLine]
    BY <1>5 DEF ReadLine
  <2>2. tl'.pc = "read" /\ tl'.fd = tl.fd /\ tl'.line = ThisLine /\ tl'.rec = 1 /\ tl'.pos = tl.pos
    BY <2>0, <2>1 DEF TypeInv, TailerType
  <2>3. PositionInv'
    BY <1>a, <2>0, <2>1, <2>2 DEF CoverInv, PositionInv
  <2>4. LineAt' = LineAt /\ tl.pos.off = 2 * (LineAt - 1)
    BY <1>j, <2>0, <2>2 DEF LineAt
  <2>5. HandInv'
    BY <1>a, <1>i, <2>0, <2>2, <2>4 DEF HandInv, ThisLine
  <2> QED
    BY <1>g, <1>h, <2>1, <2>2, <2>3, <2>5 DEF CoverInv
<1>6. CASE AcceptRecord
  <2>0. tl.pc = "read" /\ tl.line # 0 /\ tl.line \in Lines /\ tl.rec \in 1 .. PerLine[tl.line]
        /\ PerLine[tl.line] \in Nat
    BY <1>6, LinesAreIndices DEF AcceptRecord, InHand, TypeInv, TailerType
  <2>1. offsets' = offsets /\ saved' = saved /\ passed' = passed
    BY <1>6 DEF AcceptRecord
  <2>2. <<tl.line, tl.rec>> \in Taken'
    <3>1. InMemory' = InMemory \cup {<<tl.line, tl.rec>>}
      BY <1>6, AddTakes DEF AcceptRecord, InHand, Goroutines, TypeInv
    <3> QED
      BY <3>1 DEF Taken
  <2>3. \A k \in 1 .. tl.rec : <<tl.line, k>> \in Taken'
    <3>1. \A k \in 1 .. tl.rec - 1 : <<tl.line, k>> \in Taken'
      BY <2>0 DEF CoverInv, HandInv
    <3>2. \A k \in 1 .. tl.rec : k = tl.rec \/ k \in 1 .. tl.rec - 1
      BY <2>0
    <3> QED
      BY <2>2, <3>1, <3>2
  <2>4. CASE tl.rec < PerLine[tl.line]
    <3>1. tl' = [tl EXCEPT !.rec = tl.rec + 1]
      BY <1>6, <2>4 DEF AcceptRecord
    <3>2. tl'.pc = tl.pc /\ tl'.fd = tl.fd /\ tl'.line = tl.line /\ tl'.rec = tl.rec + 1 /\ tl'.pos = tl.pos
      BY <3>1 DEF TypeInv, TailerType
    <3>3. PositionInv'
      BY <1>a, <2>1, <3>2 DEF CoverInv, PositionInv
    <3>4. tl'.rec - 1 = tl.rec /\ LineAt' = LineAt
      BY <2>0, <3>2 DEF LineAt
    <3>5. HandInv'
      BY <1>a, <2>0, <2>3, <3>2, <3>4 DEF CoverInv, HandInv
    <3> QED
      BY <1>g, <1>h, <2>1, <3>2, <3>3, <3>5 DEF CoverInv
  <2>5. CASE ~(tl.rec < PerLine[tl.line])
    <3>1. tl' = [pc |-> tl.pc, fd |-> tl.fd, line |-> 0, rec |-> 1,
                 pos |-> [inode |-> tl.pos.inode, off |-> tl.pos.off + 2, gen |-> tl.pos.gen]]
      BY <1>6, <2>5 DEF AcceptRecord, TypeInv, TailerType, Position
    <3>2. tl'.pc = tl.pc /\ tl'.fd = tl.fd /\ tl'.line = 0
          /\ tl'.pos.inode = tl.pos.inode /\ tl'.pos.gen = tl.pos.gen /\ tl'.pos.off = tl.pos.off + 2
      BY <3>1
    <3>3. PositionInv' /\ HandInv'
      BY <1>a, <2>0, <2>1, <3>2 DEF CoverInv, PositionInv, HandInv
    <3>4. Records(tl.line) \subseteq Taken'
      BY <2>0, <2>3, <2>5 DEF Records
    <3>5. ASSUME tl.pos.inode = cur, tl.pos.gen = gen PROVE Covered2(tl'.pos)
      <4>1. LineAt <= Len(files[cur]) /\ files[cur][LineAt] = tl.line /\ tl.pos.off = 2 * (LineAt - 1)
        BY <2>0, <3>5 DEF CoverInv, HandInv
      <4>2. Covered2(tl.pos)
        BY <1>g, <2>1 DEF CoverInv
      <4>3. tl.pos.off + 2 = 2 * LineAt /\ LineAt \in Nat \ {0}
        BY <1>j, <2>0, <4>1
      <4>4. ASSUME NEW k \in 1 .. Len(files[cur]), 2 * k <= 2 * LineAt
            PROVE  files[cur][k] \in passed' \/ Records(files[cur][k]) \subseteq Taken'
        <5>1. CASE k = LineAt
          BY <3>4, <4>1, <5>1
        <5>2. CASE 2 * k <= tl.pos.off
          BY <3>5, <4>2, <5>2 DEF Covered2, Covers
        <5> QED
          BY <4>1, <4>3, <4>4, <5>1, <5>2
      <4>5. \A k \in 1 .. Len(files[cur]) : 2 * k # 2 * LineAt + 1
        BY <1>b, <4>3
      <4>6. 2 * LineAt <= 2 * Len(files[cur]) + 1 /\ 2 * LineAt # 2 * Len(files[cur]) + 1
        BY <1>b, <4>1, <4>3
      <4> QED
        BY <3>2, <4>3, <4>4, <4>5, <4>6 DEF Covered2, Covers
    <3>6. Covered2(tl'.pos)
      BY <3>2, <3>5, CoversOther DEF Covered2
    <3> QED
      BY <1>g, <1>h, <2>1, <3>3, <3>6 DEF CoverInv
  <2> QED
    BY <2>4, <2>5
<1> QED
  BY <1>1, <1>2, <1>3, <1>4, <1>5, <1>6, <1>7, <1>8 DEF Tailing

LEMMA CoverStep ==
    ASSUME TypeInv, StepInv, CoverInv, [Next]_vars
    PROVE  CoverInv'
<1>0. Taken \subseteq Taken'
  BY TakenGrows
<1>1. CASE Writer
  BY <1>1, CoverFile
<1>2. CASE Tailing \/ RefuseRecord
  BY <1>0, <1>2, CoverTailer
<1>3. CASE Handling \/ \E g \in Goroutines : Store(g)
  BY <1>0, <1>3, CoverElsewhere DEF Handling, HttpReceive, HttpReply, HttpDone, Store
<1>4. CASE (Run /\ ~Exit) \/ Expire \/ Cancel \/ SourceFails
  BY <1>0, <1>4, CoverElsewhere DEF Run, Report, RunBackground, RecordInFlight, FlushAssembly,
     Flushing, MarkClean, Restart, Expire, Cancel, SourceFails
<1>5. CASE Exit \/ Kill \/ ShutdownDeadline
  <2>1. EndProcess /\ saved' \in {saved, offsets}
    BY <1>5 DEF Exit, Kill, ShutdownDeadline
  <2> QED
    BY <1>0, <2>1, CoverEnd
<1>6. CASE UNCHANGED vars
  BY <1>0, <1>6, CoverElsewhere DEF vars
<1> QED
  BY <1>1, <1>2, <1>3, <1>4, <1>5, <1>6 DEF Next, Run

\* At least once across restarts, for every file: the records of a line below the saved
\* offset are in memory or stored, or a process took them with it, however polls, refusals
\* half way through a line, rotation, truncation, stops and kills fall (filetail.go,
\* readFile and saveState).
THEOREM OffsetIsCovered == Spec => []SavedOffsetIsCovered
<1>1. Init => CoverInv
  BY CoverInit
<1>2. (TypeInv /\ StepInv) /\ CoverInv /\ [Next]_vars => CoverInv'
  BY CoverStep
<1>3. (TypeInv /\ StepInv) /\ CoverInv => SavedOffsetIsCovered
  <2> SUFFICES ASSUME TypeInv, CoverInv, saved.inode = cur, saved.gen = gen,
                      NEW n \in LinesBelow(cur, saved.off), n \notin passed
               PROVE  Records(n) \subseteq Taken
    BY DEF SavedOffsetIsCovered
  <2>1. PICK k \in DOMAIN files[cur] : 2 * k <= saved.off /\ n = files[cur][k]
    BY DEF LinesBelow
  <2>2. k \in 1 .. Len(files[cur])
    BY <2>1, SizeIsNat DEF TypeInv
  <2> QED
    BY <2>1, <2>2 DEF CoverInv, Covered, Covers
<1> QED
  BY <1>1, <1>2, <1>3, TypeCorrect, PTL DEF Spec

=============================================================================
