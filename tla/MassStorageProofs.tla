--------------------------- MODULE MassStorageProofs ---------------------------
(***************************************************************************)
(* Proofs about MassStorage, for every word size, sector size, command     *)
(* line, geometry and input file.                                          *)
(***************************************************************************)
EXTENDS MassStorage, CommandBlocksProofs, SequenceTheorems

(* A word counts from 0 to a positive bound.                               *)
LEMMA WordFacts == Word \in Nat \ {0} /\ SectorLen \in Nat \ {0}
<1>1. Byte \in Nat /\ Byte > 0
  BY ByteAssumption
<1>2. Half \in Nat /\ Half > 0
  BY <1>1 DEF Half
<1> QED BY <1>2, SectorAssumption DEF Word

(* Sums and differences of words are words; a sum wraps once or not.       *)
LEMMA WordSums ==
    ASSUME NEW a \in Words, NEW b \in Words
    PROVE  /\ Add(a, b) \in Words
           /\ a + b < Word => Add(a, b) = a + b
           /\ a + b >= Word => Add(a, b) = a + b - Word
<1>1. Word \in Nat \ {0}
  BY WordFacts
<1>2. a \in Nat /\ b \in Nat /\ a < Word /\ b < Word
  BY <1>1 DEF Words
<1>3. CASE a + b < Word
  <2>1. (a + b) % Word = a + b
    BY <1>1, <1>2, <1>3
  <2> QED BY <1>1, <1>2, <1>3, <2>1 DEF Add, Words
<1>4. CASE a + b >= Word
  <2>1. (a + b) % Word = a + b - Word
    BY <1>1, <1>2, <1>4
  <2> QED BY <1>1, <1>2, <1>4, <2>1 DEF Add, Words
<1> QED BY <1>1, <1>2, <1>3, <1>4

(* A table over 1..n is a sequence of length n.                            *)
LEMMA TableIsSeq ==
    ASSUME NEW S, NEW n \in Nat, NEW f \in [1..n -> S]
    PROVE  f \in Seq(S) /\ Len(f) = n
<1>1. f \in Seq(S)
  BY SeqDef
<1>2. Len(f) \in Nat /\ 1..Len(f) = 1..n
  BY <1>1, LenProperties
<1> QED BY <1>1, <1>2

(* What the buffers and blocks are made of.                                *)
LEMMA FillFacts ==
    ASSUME NEW b \in Seq(Cell), NEW data \in Seq(Cell), Len(data) <= Len(b)
    PROVE  /\ Fill(b, data) \in Seq(Cell)
           /\ Len(Fill(b, data)) = Len(b)
           /\ \A k \in 1..Len(b) :
                  Fill(b, data)[k] = IF k <= Len(data) THEN data[k] ELSE b[k]
<1>1. Len(b) \in Nat /\ Len(data) \in Nat
  BY LenProperties
<1>2. Fill(b, data) = [k \in 1..Len(b) |->
                          IF k <= Len(data) THEN data[k] ELSE b[k]]
  BY <1>1 DEF Fill
<1>3. \A k \in 1..Len(b) : (IF k <= Len(data) THEN data[k] ELSE b[k]) \in Cell
  <2> TAKE k \in 1..Len(b)
  <2>1. b[k] \in Cell
    BY ElementOfSeq
  <2>2. CASE k <= Len(data)
    BY <1>1, <2>2, ElementOfSeq
  <2> QED BY <2>1, <2>2
<1>4. Fill(b, data) \in [1..Len(b) -> Cell]
  BY <1>2, <1>3
<1>5. Fill(b, data) \in Seq(Cell) /\ Len(Fill(b, data)) = Len(b)
  BY <1>1, <1>4, TableIsSeq
<1> QED BY <1>2, <1>5

LEMMA CellFacts ==
    /\ Junk \in Seq(Cell) /\ Len(Junk) = SectorLen
    /\ \A b \in Nat, n \in Nat :
          Block(b, n) \in Seq(Cell) /\ Len(Block(b, n)) = n
    /\ \A p \in Nat : FileCell(p) \in Cell
<1>1. SectorLen \in Nat
  BY WordFacts
<1>2. Junk \in [1..SectorLen -> Cell]
  BY <1>1 DEF Junk, Cell
<1>3. ASSUME NEW b \in Nat, NEW n \in Nat PROVE Block(b, n) \in [1..n -> Cell]
  BY DEF Block, Cell
<1>4. \A b \in Nat, n \in Nat :
         Block(b, n) \in Seq(Cell) /\ Len(Block(b, n)) = n
  BY <1>3, TableIsSeq
<1> QED BY <1>1, <1>2, <1>4, TableIsSeq DEF FileCell, Cell

(* The sector read from the file ends with the file.                       *)
LEMMA SectorFacts ==
    ASSUME inlen \in Nat, pos \in 0..inlen
    PROVE  /\ NextSector \in Seq(Cell)
           /\ Len(NextSector) <= SectorLen
           /\ pos + Len(NextSector) \in 0..inlen
           /\ Len(NextSector) = IF inlen - pos < SectorLen THEN inlen - pos
                                ELSE SectorLen
           /\ \A k \in 1..Len(NextSector) : NextSector[k] = FileCell(pos + k)
<1> DEFINE n == IF inlen - pos < SectorLen THEN inlen - pos ELSE SectorLen
<1>1. n \in Nat /\ n <= SectorLen /\ pos + n \in 0..inlen
  BY WordFacts
<1>2. NextSector = [k \in 1..n |-> FileCell(pos + k)]
  BY DEF NextSector
<1>3. NextSector \in [1..n -> Cell]
  <2>1. \A k \in 1..n : FileCell(pos + k) \in Cell
    BY <1>1, CellFacts
  <2> QED BY <1>2, <2>1
<1>4. NextSector \in Seq(Cell) /\ Len(NextSector) = n
  BY <1>1, <1>3, TableIsSeq
<1> QED BY <1>1, <1>2, <1>4
-----------------------------------------------------------------------------
(* Type correctness.  The loop variable stays a word, and the buffer keeps *)
(* its size, because the range and the geometry were checked before.       *)
RangeInv ==
    /\ pc \in {"fopen", "loop"} => InRange(geo)
    /\ pc = "loop" => app.lba <= i

LEMMA WordTypes ==
    /\ 0 \in Words /\ Words \subseteq Nat
    /\ \A g \in Geometries : g \in [lastLBA : Words, blockLen : Words]
    /\ \A a \in Options : a.lba \in Words /\ a.bc \in Words /\ a.offset \in Words
    /\ InLengths \subseteq Nat
  BY WordFacts, OptionsAssumption, GeometriesAssumption, LengthsAssumption
     DEF Words

LEMMA TypeInit == Init => TypeOK /\ RangeInv
<1> SUFFICES ASSUME Init PROVE TypeOK /\ RangeInv
  OBVIOUS
<1>1. <<>> \in Seq(Cell)
  BY EmptySeq
<1> QED BY <1>1, WordTypes, CellFacts DEF Init, TypeOK, RangeInv

(* What the checked range says about the loop.                             *)
LEMMA RangeFacts ==
    ASSUME TypeOK, RangeInv
    PROVE  /\ app.lba \in Nat /\ app.bc \in Nat /\ app.offset \in Nat
           /\ app.lba \in Words /\ app.bc \in Words
           /\ Add(app.lba, app.bc) \in Words /\ Add(app.lba, app.bc) \in Nat
           /\ geo.lastLBA \in Nat /\ geo.blockLen \in Nat
           /\ inlen \in Nat /\ SectorLen \in Nat \ {0}
           /\ \A c : InLoop(c) =>
                 /\ i \in Words /\ i \in Nat /\ i + 1 \in Words
                 /\ i - app.lba \in Nat /\ app.lba <= i + 1
                 /\ geo.blockLen <= SectorLen
                 /\ i < Add(app.lba, app.bc)
                 /\ Add(app.lba, app.bc) <= geo.lastLBA
<1>1. /\ app.lba \in Words /\ app.bc \in Words /\ app.offset \in Words
      /\ inlen \in Nat /\ Words \subseteq Nat
  BY WordTypes DEF TypeOK
<1>2. Add(app.lba, app.bc) \in Words
  BY <1>1, WordSums
<1>3. geo.lastLBA \in Nat /\ geo.blockLen \in Nat /\ i \in Words /\ i \in Nat
  BY <1>1 DEF TypeOK
<1>4. Word \in Nat /\ SectorLen \in Nat \ {0}
  BY WordFacts
<1>5. ASSUME NEW c, InLoop(c)
      PROVE  /\ i + 1 \in Words /\ i - app.lba \in Nat /\ app.lba <= i + 1
             /\ geo.blockLen <= SectorLen /\ i < Add(app.lba, app.bc)
             /\ Add(app.lba, app.bc) <= geo.lastLBA
  <2>1. pc = "loop" /\ i < Add(app.lba, app.bc)
    BY <1>5 DEF InLoop
  <2>2. /\ app.lba <= i /\ geo.blockLen <= SectorLen
        /\ Add(app.lba, app.bc) <= geo.lastLBA
    BY <2>1 DEF RangeInv, InRange
  <2>3. app.lba \in Nat /\ Add(app.lba, app.bc) \in 0..(Word - 1)
    BY <1>1, <1>2 DEF Words
  <2>4. i + 1 \in 0..(Word - 1) /\ i - app.lba \in Nat /\ app.lba <= i + 1
    BY <1>3, <1>4, <2>1, <2>2, <2>3
  <2> QED BY <2>1, <2>2, <2>4 DEF Words
<1> QED BY <1>1, <1>2, <1>3, <1>4, <1>5

(* A command for the current block is about that block only.               *)
LEMMA ReadTarget ==
    ASSUME NEW b \in Words, NEW n \in Nat
    PROVE  /\ Addressed(Read10(b, n)) = {b}
           /\ Answers(Read10(b, n)) = {Block(b, m) : m \in 0..n}
<1>1. Addressed(Read10(b, n)) = {b}
  BY OneSectorAddressed
<1>2. Address(Read10(b, n)) = b
  BY ReadAddress
<1>3. Read10(b, n).len = n
  BY DEF Read10, Cdb
<1> QED BY <1>1, <1>2, <1>3 DEF Answers

LEMMA WriteTarget ==
    ASSUME NEW b \in Words, NEW n \in Nat
    PROVE  Addressed(Write10(b, n)) = {b} /\ Address(Write10(b, n)) = b
  BY OneSectorAddressed, ReadAddress

LEMMA TypeNext == TypeOK /\ RangeInv /\ [Next]_vars => TypeOK' /\ RangeInv'
<1> SUFFICES ASSUME TypeOK, RangeInv, [Next]_vars PROVE TypeOK' /\ RangeInv'
  OBVIOUS
<1> USE DEF setup, output
<1>1. CASE Open
  BY <1>1 DEF Open, End, Goto, TypeOK, RangeInv
<1>2. CASE Query
  BY <1>2 DEF Query, End, TypeOK, RangeInv
<1>3. CASE GetGeometry
  <2>1. geo' \in [lastLBA : Words, blockLen : Words]
    BY <1>3, WordTypes DEF GetGeometry, TypeOK
  <2>2. pc' \in {"fopen", "end"} /\ status' \in {-1, 0, 1}
    BY <1>3 DEF GetGeometry, End, Goto, TypeOK
  <2>3. pc' = "fopen" => InRange(geo')
    BY <1>3 DEF GetGeometry, End, Goto
  <2>4. RangeInv'
    BY <1>3, <2>2, <2>3 DEF GetGeometry, RangeInv, InRange
  <2> QED BY <1>3, <2>1, <2>2, <2>4 DEF GetGeometry, TypeOK
<1>4. CASE OpenFile
  <2>1. pos' \in 0..inlen
    <3>1. inlen \in Nat /\ app.offset \in Nat /\ pos \in 0..inlen
      BY RangeFacts DEF TypeOK
    <3>2. inlen % Word <= inlen /\ inlen % Word \in Nat
      BY <3>1, WordFacts
    <3>3. \/ pos' = pos \/ pos' = inlen
          \/ app.offset <= inlen % Word /\ pos' = app.offset
      BY <1>4 DEF OpenFile
    <3> QED BY <3>1, <3>2, <3>3
  <2>2. pc' \in {"loop", "exit"} /\ status' = status /\ i' = app.lba
        /\ handle' \in {"none", "open", "closed"} /\ pc = "fopen"
    BY <1>4 DEF OpenFile, Goto, TypeOK
  <2>3. i' \in Words /\ app.lba <= i'
    BY <2>2, RangeFacts
  <2>4. UNCHANGED <<setup, geo, buf, output, printed>>
    BY <1>4 DEF OpenFile
  <2>5. RangeInv'
    BY <2>2, <2>3, <2>4 DEF RangeInv, InRange, Add
  <2> QED BY <2>1, <2>2, <2>3, <2>4, <2>5 DEF TypeOK
<1>5. CASE ReadBlock
  <2>1. /\ pc = "loop" /\ i \in Words /\ i \in Nat /\ i + 1 \in Words
        /\ i - app.lba \in Nat /\ app.lba <= i + 1 /\ geo.blockLen \in Nat
        /\ geo.blockLen <= SectorLen
    BY <1>5, RangeFacts DEF ReadBlock, InLoop
  <2>0. /\ Addressed(Read10(i, geo.blockLen)) = {i}
        /\ \/ UNCHANGED <<buf, file, answered>>
           \/ /\ \E n \in 0..geo.blockLen :
                    /\ buf' = Fill(buf, Block(i, n))
                    /\ answered' = Append(answered, Len(Block(i, n)))
              /\ file' = file \o buf'
    BY <1>5, <2>1, ReadTarget DEF ReadBlock
  <2>2. /\ buf' \in Seq(Cell) /\ Len(buf') = SectorLen
        /\ file' \in Seq(Cell) /\ answered' \in Seq(0..SectorLen)
    <3>1. ASSUME NEW n \in 0..geo.blockLen,
                 buf' = Fill(buf, Block(i, n)),
                 answered' = Append(answered, Len(Block(i, n))),
                 file' = file \o buf'
          PROVE  /\ buf' \in Seq(Cell) /\ Len(buf') = SectorLen
                 /\ file' \in Seq(Cell) /\ answered' \in Seq(0..SectorLen)
      <4>1. n \in Nat /\ n \in 0..SectorLen
        BY <2>1, WordFacts
      <4>2. /\ Block(i, n) \in Seq(Cell) /\ Len(Block(i, n)) = n
            /\ n <= Len(buf) /\ buf \in Seq(Cell) /\ Len(buf) = SectorLen
        BY <2>1, <4>1, CellFacts DEF TypeOK
      <4>3. buf' \in Seq(Cell) /\ Len(buf') = SectorLen
        BY <3>1, <4>2, FillFacts
      <4>4. file' \in Seq(Cell)
        BY <3>1, <4>3, ConcatProperties DEF TypeOK
      <4>5. answered' \in Seq(0..SectorLen)
        BY <3>1, <4>1, <4>2, AppendProperties DEF TypeOK
      <4> QED BY <4>3, <4>4, <4>5
    <3>2. CASE UNCHANGED <<buf, file, answered>>
      BY <3>2 DEF TypeOK
    <3> QED BY <2>0, <3>1, <3>2
  <2>5. i' \in Words /\ app.lba <= i' /\ pc' \in {"loop", "exit"}
    BY <1>5, <2>1 DEF ReadBlock, TypeOK, RangeInv, Goto
  <2>6. UNCHANGED <<setup, geo, handle, pos, stored, printed, status>>
        /\ sent' = sent \cup {i}
    BY <1>5, <2>0 DEF ReadBlock, Goto
  <2>7. RangeInv'
    BY <2>1, <2>5, <2>6 DEF RangeInv, InRange, Add
  <2> QED BY <2>1, <2>2, <2>5, <2>6, <2>7 DEF TypeOK
<1>6. CASE WriteBlock
  <2>1. /\ pc = "loop" /\ i \in Words /\ i + 1 \in Words /\ app.lba <= i + 1
        /\ geo.blockLen \in Nat /\ geo.blockLen <= SectorLen
    BY <1>6, RangeFacts DEF WriteBlock, InLoop
  <2>0. /\ Addressed(Write10(i, geo.blockLen)) = {i}
        /\ Address(Write10(i, geo.blockLen)) = i
    BY <2>1, WriteTarget
  <2>2. buf' \in Seq(Cell) /\ Len(buf') = SectorLen /\ pos' \in 0..inlen
    <3>1. inlen \in Nat /\ pos \in 0..inlen /\ buf \in Seq(Cell)
          /\ Len(buf) = SectorLen
      BY RangeFacts DEF TypeOK
    <3>2. Len(NextSector) <= Len(buf) /\ NextSector \in Seq(Cell)
          /\ pos + Len(NextSector) \in 0..inlen
      BY <3>1, SectorFacts
    <3>3. buf' = Fill(buf, NextSector) /\ pos' = pos + Len(NextSector)
      BY <1>6 DEF WriteBlock
    <3> QED BY <3>1, <3>2, <3>3, FillFacts
  <2>3. SubSeq(buf', 1, geo.blockLen) \in Seq(Cell)
    <3>1. SectorLen \in Nat
      BY WordFacts
    <3>2. \A k \in 1..geo.blockLen : k \in 1..Len(buf')
      BY <2>1, <2>2, <3>1
    <3>3. \A k \in 1..geo.blockLen : buf'[k] \in Cell
      BY <2>2, <3>2, ElementOfSeq
    <3> QED BY <2>1, <3>3, SubSeqProperties
  <2> DEFINE block == [lba |-> i, data |-> SubSeq(buf', 1, geo.blockLen)]
  <2>4. block \in [lba : Words, data : Seq(Cell)]
    BY <2>1, <2>3
  <2>5. stored' = stored \/ stored' = stored \cup {block}
    BY <1>6, <2>0 DEF WriteBlock
  <2>6. i' \in Words /\ app.lba <= i' /\ pc' \in {"loop", "exit"}
    BY <1>6, <2>1 DEF WriteBlock, TypeOK, RangeInv, Goto
  <2>7. UNCHANGED <<setup, geo, handle, file, answered, printed, status>>
        /\ sent' = sent \cup {i}
    BY <1>6, <2>0 DEF WriteBlock, Goto
  <2>8. RangeInv'
    BY <2>1, <2>6, <2>7 DEF RangeInv, InRange, Add
  <2>9. stored' \subseteq [lba : Words, data : Seq(Cell)]
    BY <2>4, <2>5 DEF TypeOK
  <2> QED BY <2>1, <2>2, <2>6, <2>7, <2>8, <2>9 DEF TypeOK
<1>7. CASE LoopDone
  BY <1>7 DEF LoopDone, Goto, TypeOK, RangeInv
<1>8. CASE Exit
  BY <1>8 DEF Exit, End, TypeOK, RangeInv
<1>9. CASE UNCHANGED vars
  BY <1>9 DEF vars, TypeOK, RangeInv, InRange, Add
<1> QED BY <1>1, <1>2, <1>3, <1>4, <1>5, <1>6, <1>7, <1>8, <1>9 DEF Next

(* The variables keep their types: no word overflows, no buffer is overrun *)
(* whatever block size the device reports.                                 *)
THEOREM TypeCorrect == Spec => []TypeOK
  BY TypeInit, TypeNext, PTL DEF Spec
-----------------------------------------------------------------------------
(* The loop has asked for the blocks from the first to the one before the  *)
(* current, and for none before it began.                                  *)
SentInv ==
    /\ pc \in {"start", "query", "geometry", "fopen"} => sent = {}
    /\ pc = "loop" => sent = app.lba..(i - 1)
    /\ sent \subseteq app.lba..(Add(app.lba, app.bc) - 1)
    /\ sent # {} => Add(app.lba, app.bc) <= geo.lastLBA

(* "done." is printed at the end of the loop only.                         *)
DoneInv ==
    /\ pc = "loop" => i <= Add(app.lba, app.bc) \/ i = app.lba
    /\ printed = "done" =>
          /\ pc \in {"exit", "end"}
          /\ sent = app.lba..(Add(app.lba, app.bc) - 1)

LEMMA SentInit == Init => SentInv /\ DoneInv
  BY DEF Init, SentInv, DoneInv

LEMMA SentNext ==
    /\ TypeOK /\ RangeInv /\ SentInv /\ DoneInv /\ [Next]_vars
    => SentInv' /\ DoneInv'
<1> SUFFICES ASSUME TypeOK, RangeInv, SentInv, DoneInv, [Next]_vars
             PROVE  SentInv' /\ DoneInv'
  OBVIOUS
<1> USE DEF setup, output
<1>a. app.lba \in Nat /\ app.bc \in Nat /\ Add(app.lba, app.bc) \in Nat
      /\ i \in Nat
  BY RangeFacts, WordTypes DEF TypeOK
<1>1. CASE Open
  BY <1>1 DEF Open, End, Goto, SentInv, DoneInv, Add
<1>2. CASE Query
  BY <1>2 DEF Query, End, SentInv, DoneInv, Add
<1>3. CASE GetGeometry
  BY <1>3 DEF GetGeometry, End, Goto, SentInv, DoneInv, Add
<1>4. CASE OpenFile
  <2>1. /\ pc = "fopen" /\ sent = {} /\ sent' = sent /\ i' = app.lba
        /\ app' = app /\ geo' = geo /\ printed' = printed
        /\ pc' \in {"loop", "exit"} /\ printed # "done"
    BY <1>4 DEF OpenFile, Goto, SentInv, DoneInv
  <2>2. app.lba..(app.lba - 1) = {}
    BY <1>a
  <2> QED BY <2>1, <2>2 DEF SentInv, DoneInv, Add
<1>5. ASSUME \/ ReadBlock \/ WriteBlock
      PROVE  SentInv' /\ DoneInv'
  <2>1. /\ pc = "loop" /\ i < Add(app.lba, app.bc) /\ app.lba <= i
        /\ Add(app.lba, app.bc) <= geo.lastLBA
    BY <1>5, RangeFacts DEF ReadBlock, WriteBlock, InLoop, RangeInv
  <2>0. /\ i \in Words /\ geo.blockLen \in Nat
    BY <1>5, RangeFacts DEF ReadBlock, WriteBlock, InLoop
  <2>2. /\ sent' = sent \cup {i} /\ app' = app /\ geo' = geo
        /\ printed' = printed
        /\ \/ pc' = "exit"
           \/ pc' = "loop" /\ i' = i + 1
    BY <1>5, <2>0, ReadTarget, WriteTarget DEF ReadBlock, WriteBlock, Goto
  <2>3. sent = app.lba..(i - 1) /\ printed # "done"
    BY <2>1 DEF SentInv, DoneInv
  <2>4. sent' = app.lba..i
    BY <1>a, <2>1, <2>2, <2>3
  <2>5. sent' \subseteq app.lba..(Add(app.lba, app.bc) - 1)
    BY <1>a, <2>1, <2>4
  <2>6. pc' = "loop" => sent' = app.lba..(i' - 1) /\ i' <= Add(app.lba, app.bc)
    BY <1>a, <2>1, <2>2, <2>4
  <2>7. Add(app.lba, app.bc)' = Add(app.lba, app.bc)
    BY <2>2 DEF Add
  <2> QED BY <2>1, <2>2, <2>3, <2>5, <2>6, <2>7 DEF SentInv, DoneInv
<1>6. CASE LoopDone
  <2>1. /\ pc = "loop" /\ ~(i < Add(app.lba, app.bc)) /\ app.lba <= i
        /\ pc' = "exit" /\ UNCHANGED <<app, geo, sent>>
    BY <1>6 DEF LoopDone, Goto, RangeInv
  <2>2. sent = app.lba..(i - 1) /\ (i <= Add(app.lba, app.bc) \/ i = app.lba)
    BY <2>1 DEF SentInv, DoneInv
  <2>3. sent = app.lba..(Add(app.lba, app.bc) - 1)
    BY <1>a, <2>1, <2>2
  <2> QED BY <2>1, <2>3 DEF SentInv, DoneInv, Add
<1>7. CASE Exit
  BY <1>7 DEF Exit, End, SentInv, DoneInv, Add
<1>8. CASE UNCHANGED vars
  BY <1>8 DEF vars, SentInv, DoneInv, Add
<1> QED BY <1>1, <1>2, <1>3, <1>4, <1>5, <1>6, <1>7, <1>8 DEF Next

LEMMA SentImplies ==
    TypeOK /\ RangeInv /\ SentInv /\ DoneInv => SentInRange /\ DoneIsComplete
<1> SUFFICES ASSUME TypeOK, RangeInv, SentInv, DoneInv
             PROVE  SentInRange /\ DoneIsComplete
  OBVIOUS
<1>1. /\ app.lba \in Words /\ app.bc \in Words /\ app.lba \in Nat
      /\ app.bc \in Nat /\ Add(app.lba, app.bc) \in Nat /\ geo.lastLBA \in Nat
      /\ app.bc < Word /\ app.lba < Word /\ Word \in Nat
  BY RangeFacts, WordFacts DEF Words
<1>2. /\ app.lba + app.bc < Word => Add(app.lba, app.bc) = app.lba + app.bc
      /\ app.lba + app.bc >= Word
         => Add(app.lba, app.bc) = app.lba + app.bc - Word
  BY <1>1, WordSums
<1>3. SentInRange
  <2> SUFFICES ASSUME NEW b \in sent
               PROVE  /\ app.lba <= b /\ b < geo.lastLBA
                      /\ b - app.lba < app.bc
    BY DEF SentInRange
  <2>1. /\ b \in app.lba..(Add(app.lba, app.bc) - 1)
        /\ Add(app.lba, app.bc) <= geo.lastLBA
    BY DEF SentInv
  <2>2. CASE app.lba + app.bc < Word
    BY <1>1, <1>2, <2>1, <2>2
  <2>3. CASE app.lba + app.bc >= Word
    BY <1>1, <1>2, <2>1, <2>3
  <2> QED BY <1>1, <2>2, <2>3
<1>4. DoneIsComplete
  <2> SUFFICES ASSUME printed = "done"
               PROVE  sent = IF app.lba + app.bc < Word
                             THEN app.lba..(app.lba + app.bc - 1) ELSE {}
    BY DEF DoneIsComplete
  <2>1. sent = app.lba..(Add(app.lba, app.bc) - 1)
    BY DEF DoneInv
  <2>2. CASE app.lba + app.bc < Word
    <3>1. Add(app.lba, app.bc) = app.lba + app.bc
      BY <1>2, <2>2
    <3>2. Add(app.lba, app.bc) - 1 = app.lba + app.bc - 1
      BY <1>1, <3>1
    <3> QED BY <2>1, <2>2, <3>2
  <2>3. CASE app.lba + app.bc >= Word
    <3>1. Add(app.lba, app.bc) < app.lba
      BY <1>1, <1>2, <2>3
    <3>2. app.lba..(Add(app.lba, app.bc) - 1) = {}
      BY <1>1, <3>1
    <3> QED BY <1>1, <2>1, <2>3, <3>2
  <2> QED BY <1>1, <2>2, <2>3
<1> QED BY <1>3, <1>4

(* Whatever wraps, no block outside the range the user gave, or past the   *)
(* capacity the program was told, is asked for.                            *)
THEOREM RangeRespected == Spec => []SentInRange
  BY TypeInit, TypeNext, SentInit, SentNext, SentImplies, PTL DEF Spec

(* "done." means that every block of the range was moved, or that the      *)
(* range wraps around the end of the address space and none was.           *)
THEOREM DoneCorrect == Spec => []DoneIsComplete
  BY TypeInit, TypeNext, SentInit, SentNext, SentImplies, PTL DEF Spec

-----------------------------------------------------------------------------
(* The contents of the output file, in slots of a sector each.             *)

SlotOf(f, n) == SubSeq(f, n * SectorLen + 1, (n + 1) * SectorLen)

(* Where a slot begins and ends.                                           *)
LEMMA SlotPlaces ==
    ASSUME NEW n \in Nat
    PROVE  /\ n * SectorLen \in Nat /\ (n + 1) * SectorLen \in Nat
           /\ (n + 1) * SectorLen = n * SectorLen + SectorLen
           /\ \A m \in Nat : n < m => (n + 1) * SectorLen <= m * SectorLen
<1>1. SectorLen \in Nat
  BY WordFacts
<1>2. n * SectorLen \in Nat /\ (n + 1) * SectorLen \in Nat
      /\ (n + 1) * SectorLen = n * SectorLen + SectorLen
  BY <1>1
<1>3. ASSUME NEW m \in Nat, n < m PROVE (n + 1) * SectorLen <= m * SectorLen
  <2>1. PICK d \in Nat : m = n + 1 + d
    <3> DEFINE d == m - (n + 1)
    <3>1. d \in Nat /\ m = n + 1 + d
      BY <1>3
    <3> QED BY <3>1
  <2>2. m * SectorLen = (n + 1) * SectorLen + d * SectorLen
    BY <1>1, <2>1
  <2>3. d * SectorLen \in Nat
    BY <1>1, <2>1
  <2> QED BY <1>2, <2>2, <2>3
<1> QED BY <1>2, <1>3

(* The second part of a concatenation.                                     *)
LEMMA ConcatSecond ==
    ASSUME NEW f \in Seq(Cell), NEW b \in Seq(Cell), Len(b) # 0
    PROVE  SubSeq(f \o b, Len(f) + 1, Len(f) + Len(b)) = b
<1> DEFINE s == SubSeq(f \o b, Len(f) + 1, Len(f) + Len(b))
<1>1. Len(f) \in Nat /\ Len(b) \in Nat
  BY LenProperties
<1>2. /\ f \o b \in Seq(Cell) /\ Len(f \o b) = Len(f) + Len(b)
      /\ \A k \in 1..(Len(f) + Len(b)) :
            (f \o b)[k] = IF k <= Len(f) THEN f[k] ELSE b[k - Len(f)]
      /\ \A k \in 1..(Len(f) + Len(b)) : (f \o b)[k] \in Cell
  BY ConcatProperties, ElementOfSeq
<1>3. ASSUME NEW p \in Nat, NEW q \in Nat, q # 0
      PROVE  /\ p + 1 \in Int /\ p + q \in Int /\ p + 1 <= p + q
             /\ p + q - (p + 1) + 1 = q
             /\ \A k \in p + 1..p + q : k \in 1..(p + q)
             /\ \A k \in 1..q : /\ p + 1 + k - 1 = p + k /\ p + k \in 1..(p + q)
                               /\ ~(p + k <= p) /\ p + k - p = k
  <2>1. /\ p + 1 \in Int /\ p + q \in Int /\ p + 1 <= p + q
        /\ p + q - (p + 1) + 1 = q
    BY <1>3
  <2>2. \A k \in p + 1..p + q : k \in 1..(p + q)
    OBVIOUS
  <2>3. ASSUME NEW k \in 1..q
        PROVE  /\ p + 1 + k - 1 = p + k /\ p + k \in 1..(p + q)
               /\ ~(p + k <= p) /\ p + k - p = k
    OBVIOUS
  <2> QED BY <2>1, <2>2, <2>3
<1>4. \A k \in Len(f) + 1..Len(f) + Len(b) : (f \o b)[k] \in Cell
  BY <1>1, <1>2, <1>3
<1>5. /\ Len(f) + 1 \in Int /\ Len(f) + Len(b) \in Int
      /\ Len(f) + 1 <= Len(f) + Len(b)
      /\ Len(f) + Len(b) - (Len(f) + 1) + 1 = Len(b)
  BY <1>1, <1>3
<1>6. /\ s \in Seq(Cell) /\ Len(s) = Len(b)
      /\ \A k \in 1..Len(b) : s[k] = (f \o b)[Len(f) + 1 + k - 1]
  <2>1. ASSUME NEW t, NEW p \in Int, NEW q \in Int, p <= q,
               \A k \in p..q : t[k] \in Cell
        PROVE  /\ SubSeq(t, p, q) \in Seq(Cell) /\ Len(SubSeq(t, p, q)) = q - p + 1
               /\ \A k \in 1..(q - p + 1) : SubSeq(t, p, q)[k] = t[p + k - 1]
    BY <2>1, SubSeqProperties
  <2> QED BY <1>4, <1>5, <2>1
<1>7. \A k \in 1..Len(b) : s[k] = b[k]
  <2> TAKE k \in 1..Len(b)
  <2>1. /\ Len(f) + 1 + k - 1 = Len(f) + k /\ Len(f) + k \in 1..(Len(f) + Len(b))
        /\ ~(Len(f) + k <= Len(f)) /\ Len(f) + k - Len(f) = k
    BY <1>1, <1>3
  <2>2. (f \o b)[Len(f) + k] = b[k]
    BY <1>2, <2>1
  <2> QED BY <1>6, <2>1, <2>2
<1> HIDE DEF s
<1>8. s = b
  BY <1>6, <1>7, SeqEqual
<1> QED BY <1>8 DEF s

(* A sector behind m slots is the next slot, and disturbs none of them.    *)
LEMMA SlotAppended ==
    ASSUME NEW m \in Nat, NEW f \in Seq(Cell), NEW b \in Seq(Cell),
           Len(f) = m * SectorLen, Len(b) = SectorLen
    PROVE  /\ f \o b \in Seq(Cell) /\ Len(f \o b) = (m + 1) * SectorLen
           /\ SlotOf(f \o b, m) = b
           /\ \A n \in 0..(m - 1) : SlotOf(f \o b, n) = SlotOf(f, n)
<1>1. /\ m * SectorLen \in Nat /\ SectorLen \in Nat \ {0}
      /\ (m + 1) * SectorLen = m * SectorLen + SectorLen
  BY SlotPlaces, WordFacts
<1>2. /\ f \o b \in Seq(Cell) /\ Len(f \o b) = Len(f) + Len(b)
      /\ \A k \in 1..(Len(f) + Len(b)) :
            (f \o b)[k] = IF k <= Len(f) THEN f[k] ELSE b[k - Len(f)]
      /\ \A k \in 1..(Len(f) + Len(b)) : (f \o b)[k] \in Cell
  BY ConcatProperties, ElementOfSeq
<1>3. SlotOf(f \o b, m) = b
  <2>1. /\ m * SectorLen + 1 = Len(f) + 1
        /\ (m + 1) * SectorLen = Len(f) + Len(b)
    BY <1>1
  <2>2. SubSeq(f \o b, Len(f) + 1, Len(f) + Len(b)) = b
    BY <1>1, ConcatSecond
  <2> QED BY <2>1, <2>2, Zenon DEF SlotOf
<1>4. ASSUME NEW n \in 0..(m - 1) PROVE SlotOf(f \o b, n) = SlotOf(f, n)
  <2> DEFINE lo == n * SectorLen + 1
             hi == (n + 1) * SectorLen
  <2>1. /\ n \in Nat /\ n * SectorLen \in Nat /\ n < m
        /\ hi = n * SectorLen + SectorLen /\ hi <= m * SectorLen
    <3>1. n \in Nat /\ n < m
      OBVIOUS
    <3> QED BY <3>1, SlotPlaces
  <2>2. /\ lo \in 1..Len(f) /\ hi \in lo..Len(f)
    BY <1>1, <2>1
  <2>3. SubSeq(f \o b, lo, hi) = SubSeq(f, lo, hi)
    <3> HIDE DEF lo, hi
    <3> QED BY <2>2, SubSeqOfConcat1
  <2> QED BY <2>3 DEF SlotOf
<1> QED BY <1>1, <1>2, <1>3, <1>4

(* The read: the slots before the current one are filled, and the buffer   *)
(* has the last of them and behind a block what it had at first.           *)
ReadInv ==
    /\ pc \in {"start", "query", "geometry", "fopen"}
          => i = 0 /\ file = <<>> /\ answered = <<>> /\ buf = Junk
    /\ pc = "loop" /\ app.cmd = "read" =>
          /\ Len(answered) = i - app.lba
          /\ buf = IF i = app.lba THEN Junk ELSE SlotOf(file, i - app.lba - 1)
          /\ \A k \in 1..SectorLen : k > geo.blockLen => buf[k] = Junk[k]
          /\ Len(file) = (i - app.lba) * SectorLen
    /\ ReadImage

(* A step that leaves the image alone.                                     *)
LEMMA ImageUntouched ==
    ASSUME ReadImage, UNCHANGED <<app, geo, i, file, answered>>,
           pc' = "loop" => pc = "loop"
    PROVE  ReadImage'
  BY DEF ReadImage

LEMMA ReadInit == Init => ReadInv
<1> SUFFICES ASSUME Init PROVE ReadInv
  OBVIOUS
<1>1. app.lba \in Nat
  BY WordTypes DEF Init
<1>2. 0..(0 - app.lba - 1) = {}
  BY <1>1
<1> QED BY <1>2 DEF Init, ReadInv, ReadImage

LEMMA ReadNext ==
    TypeOK /\ RangeInv /\ ReadInv /\ [Next]_vars => ReadInv'
<1> SUFFICES ASSUME TypeOK, RangeInv, ReadInv, [Next]_vars PROVE ReadInv'
  OBVIOUS
<1> USE DEF setup, output
<1>1. CASE Open \/ Query
  <2>1. /\ UNCHANGED <<app, geo, i, file, answered, buf>> /\ pc' # "loop"
        /\ pc \in {"start", "query"}
    BY <1>1 DEF Open, Query, End, Goto
  <2> QED BY <2>1, ImageUntouched DEF ReadInv
<1>2. CASE GetGeometry
  <2>1. /\ pc = "geometry" /\ pc' \in {"fopen", "end"}
        /\ UNCHANGED <<app, i, file, answered, buf>>
    BY <1>2 DEF GetGeometry, End, Goto
  <2>2. 0..(0 - app.lba - 1) = {}
    BY RangeFacts
  <2> QED BY <2>1, <2>2 DEF ReadInv, ReadImage
<1>3. CASE OpenFile
  <2>1. /\ pc = "fopen" /\ pc' \in {"loop", "exit"} /\ i' = app.lba
        /\ UNCHANGED <<app, geo, file, answered, buf>>
    BY <1>3 DEF OpenFile, Goto
  <2>2. file = <<>> /\ answered = <<>> /\ buf = Junk
    BY <2>1 DEF ReadInv
  <2>3. 0..(app.lba - app.lba - 1) = {} /\ app.lba - app.lba = 0
        /\ 0 * SectorLen = 0 /\ Len(<<>>) = 0
    BY RangeFacts, EmptySeq
  <2> QED BY <2>1, <2>2, <2>3 DEF ReadInv, ReadImage
<1>4. CASE ReadBlock
  <2> DEFINE m == i - app.lba
  <2>1. /\ pc = "loop" /\ app.cmd = "read" /\ i \in Nat /\ i \in Words
        /\ app.lba \in Nat /\ m \in Nat /\ geo.blockLen \in Nat
        /\ geo.blockLen <= SectorLen /\ SectorLen \in Nat
        /\ file \in Seq(Cell) /\ buf \in Seq(Cell) /\ Len(buf) = SectorLen
        /\ answered \in Seq(0..SectorLen)
    BY <1>4, RangeFacts DEF ReadBlock, InLoop, TypeOK
  <2>2. /\ Len(answered) = m
        /\ buf = IF i = app.lba THEN Junk ELSE SlotOf(file, m - 1)
        /\ \A k \in 1..SectorLen : k > geo.blockLen => buf[k] = Junk[k]
        /\ Len(file) = m * SectorLen
    BY <2>1 DEF ReadInv
  <2>3. /\ UNCHANGED <<app, geo>>
        /\ \/ pc' = "exit" /\ UNCHANGED <<i, file, answered, buf>>
           \/ /\ pc' = "loop" /\ i' = i + 1 /\ file' = file \o buf'
              /\ \E n \in 0..geo.blockLen :
                    /\ buf' = Fill(buf, Block(i, n))
                    /\ answered' = Append(answered, Len(Block(i, n)))
    <3>1. Answers(Read10(i, geo.blockLen)) = {Block(i, n) : n \in 0..geo.blockLen}
      BY <2>1, ReadTarget
    <3>2. /\ UNCHANGED <<app, geo>>
          /\ \/ pc' = "exit" /\ UNCHANGED <<i, file, answered, buf>>
             \/ /\ pc' = "loop" /\ i' = i + 1 /\ file' = file \o buf'
                /\ \E data \in Answers(Read10(i, geo.blockLen)) :
                      buf' = Fill(buf, data) /\ answered' = Append(answered, Len(data))
      BY <1>4, Zenon DEF ReadBlock, Goto
    <3> QED BY <3>1, <3>2
  <2>4. CASE pc' = "exit" /\ UNCHANGED <<i, file, answered, buf>>
    BY <2>1, <2>3, <2>4, ImageUntouched DEF ReadInv
  <2>5. ASSUME pc' = "loop", i' = i + 1, file' = file \o buf',
               NEW n \in 0..geo.blockLen,
               buf' = Fill(buf, Block(i, n)),
               answered' = Append(answered, Len(Block(i, n)))
        PROVE  ReadInv'
(* The buffer: the answer, behind it what it had, behind a block the stack's.*)
    <3>1. /\ buf' \in Seq(Cell) /\ Len(buf') = SectorLen
          /\ \A k \in 1..SectorLen :
                buf'[k] = IF k <= n
                            THEN [from |-> "device", at |-> i, k |-> k]
                            ELSE buf[k]
          /\ Len(Block(i, n)) = n
      <4>1. n \in Nat /\ n <= SectorLen
        BY <2>1
      <4>2. Block(i, n) \in Seq(Cell) /\ Len(Block(i, n)) = n
        BY <2>1, <4>1, CellFacts
      <4>3. /\ buf' \in Seq(Cell) /\ Len(buf') = SectorLen
            /\ \A k \in 1..SectorLen :
                  buf'[k] = IF k <= n THEN Block(i, n)[k] ELSE buf[k]
        <5> DEFINE data == Block(i, n)
        <5>1. buf \in Seq(Cell) /\ data \in Seq(Cell) /\ Len(data) <= Len(buf)
          BY <2>1, <4>1, <4>2
        <5>2. Len(data) = n /\ Len(buf) = SectorLen /\ buf' = Fill(buf, data)
          BY <2>1, <2>5, <4>2
        <5> HIDE DEF data
        <5>3. /\ Fill(buf, data) \in Seq(Cell)
              /\ Len(Fill(buf, data)) = Len(buf)
              /\ \A k \in 1..Len(buf) :
                   Fill(buf, data)[k] = IF k <= Len(data) THEN data[k] ELSE buf[k]
          BY <5>1, FillFacts
        <5>4. /\ buf' \in Seq(Cell) /\ Len(buf') = SectorLen
              /\ \A k \in 1..SectorLen :
                   buf'[k] = IF k <= n THEN data[k] ELSE buf[k]
          BY <5>2, <5>3
        <5> QED BY <5>4, Zenon DEF data
      <4>4. \A k \in 1..SectorLen : k <= n => k \in 1..n
        BY <4>1
      <4>5. \A k \in 1..n : Block(i, n)[k] = [from |-> "device", at |-> i, k |-> k]
        BY DEF Block
      <4> QED BY <4>2, <4>3, <4>4, <4>5
    <3>2. \A k \in 1..SectorLen : k > geo.blockLen => buf'[k] = Junk[k] /\ ~(k <= n)
      <4>1. \A k \in 1..SectorLen : k > geo.blockLen => ~(k <= n)
        BY <2>1
      <4> QED BY <2>2, <3>1, <4>1
(* The history.                                                            *)
    <3>3. /\ Len(answered') = m + 1 /\ answered'[m + 1] = n
          /\ \A j \in 1..m : answered'[j] = answered[j]
      <4>1. n \in 0..SectorLen
        BY <2>1
      <4>2. /\ Len(Append(answered, n)) = Len(answered) + 1
            /\ Append(answered, n)[Len(answered) + 1] = n
            /\ \A j \in 1..Len(answered) : Append(answered, n)[j] = answered[j]
        BY <2>1, <4>1, AppendProperties
      <4> QED BY <2>2, <2>5, <3>1, <4>2
(* The file.                                                               *)
    <3>4. /\ Len(file') = (m + 1) * SectorLen
          /\ SlotOf(file', m) = buf'
          /\ \A j \in 0..(m - 1) : SlotOf(file', j) = SlotOf(file, j)
      <4>1. file' = file \o buf' /\ m \in Nat /\ Len(file) = m * SectorLen
        BY <2>1, <2>2, <2>5
      <4>2. /\ file \in Seq(Cell) /\ buf' \in Seq(Cell) /\ Len(buf') = SectorLen
        BY <2>1, <3>1
      <4> HIDE DEF m
      <4>3. /\ Len(file \o buf') = (m + 1) * SectorLen
            /\ SlotOf(file \o buf', m) = buf'
            /\ \A j \in 0..(m - 1) : SlotOf(file \o buf', j) = SlotOf(file, j)
        <5>1. ASSUME NEW p \in Nat, NEW f \in Seq(Cell), NEW b \in Seq(Cell),
                     Len(f) = p * SectorLen, Len(b) = SectorLen
              PROVE  /\ Len(f \o b) = (p + 1) * SectorLen
                     /\ SlotOf(f \o b, p) = b
                     /\ \A j \in 0..(p - 1) : SlotOf(f \o b, j) = SlotOf(f, j)
          BY <5>1, SlotAppended
        <5> QED BY <4>1, <4>2, <5>1, Zenon
      <4> QED BY <4>1, <4>3, Zenon
    <3>5. /\ i' - app'.lba = m + 1 /\ i' # app'.lba /\ i' - app'.lba - 1 = m
          /\ app.lba + m = i
      <4>1. app' = app /\ i' = i + 1
        BY <2>3, <2>5
      <4>2. /\ i + 1 - app.lba = m + 1 /\ i + 1 - app.lba - 1 = m
            /\ app.lba + m = i /\ i + 1 # app.lba
        <5>1. ASSUME NEW a \in Nat, NEW b \in Nat, b - a \in Nat
              PROVE  /\ b + 1 - a = b - a + 1 /\ b + 1 - a - 1 = b - a
                     /\ a + (b - a) = b /\ b + 1 # a
          BY <5>1
        <5> QED BY <2>1, <5>1, Zenon
      <4>3. app'.lba = app.lba /\ i' = i + 1
        BY <4>1
      <4>4. i \in Nat /\ app.lba \in Nat /\ m \in Nat
        BY <2>1
      <4> QED BY <4>2, <4>3, <4>4
    <3>6. ASSUME NEW j \in 0..m, NEW k \in 1..SectorLen
          PROVE  SlotOf(file', j)[k] =
                   IF k <= answered'[j + 1]
                   THEN [from |-> "device", at |-> app.lba + j, k |-> k]
                   ELSE IF j = 0 \/ k > geo.blockLen THEN Junk[k]
                   ELSE SlotOf(file', j - 1)[k]
      <4>1. CASE j = m
        <5>1. SlotOf(file', j)[k] =
                IF k <= n THEN [from |-> "device", at |-> i, k |-> k] ELSE buf[k]
          BY <3>1, <3>4, <4>1
        <5>2. m = 0 <=> i = app.lba
          BY <2>1
        <5>3. m # 0 => SlotOf(file', m - 1) = SlotOf(file, m - 1)
          <6>1. m # 0 => m - 1 \in 0..(m - 1)
            BY <2>1
          <6> QED BY <3>4, <6>1
        <5>4. buf[k] = IF j = 0 \/ k > geo.blockLen THEN Junk[k]
                       ELSE SlotOf(file', j - 1)[k]
          <6>1. CASE j = 0
            BY <2>2, <4>1, <5>2, <6>1
          <6>2. CASE j # 0
            <7>1. buf = SlotOf(file', j - 1)
              BY <2>2, <4>1, <5>2, <5>3, <6>2
            <7>2. k > geo.blockLen => buf[k] = Junk[k]
              BY <2>2
            <7> QED BY <6>2, <7>1, <7>2
          <6> QED BY <6>1, <6>2
        <5> QED BY <3>3, <3>5, <4>1, <5>1, <5>4
      <4>2. CASE j # m
        <5>1. j \in 0..(m - 1) /\ (j # 0 => j - 1 \in 0..(m - 1)) /\ j + 1 \in 1..m
          BY <2>1, <4>2
        <5>2. SlotOf(file, j)[k] =
                IF k <= answered[j + 1]
                THEN [from |-> "device", at |-> app.lba + j, k |-> k]
                ELSE IF j = 0 \/ k > geo.blockLen THEN Junk[k]
                ELSE SlotOf(file, j - 1)[k]
          BY <2>1, <5>1 DEF ReadInv, ReadImage, SlotOf
        <5> QED BY <3>3, <3>4, <5>1, <5>2
      <4> QED BY <4>1, <4>2
    <3>7. ReadImage'
      <4>1. \A j \in 0..(i' - app'.lba - 1), k \in 1..SectorLen :
                SlotOf(file', j)[k] =
                   IF k <= answered'[j + 1]
                   THEN [from |-> "device", at |-> app'.lba + j, k |-> k]
                   ELSE IF j = 0 \/ k > geo'.blockLen THEN Junk[k]
                   ELSE SlotOf(file', j - 1)[k]
        <5>1. app' = app /\ geo' = geo
          BY <2>3
        <5>2. 0..(i' - app'.lba - 1) = 0..m
          BY <3>5
        <5> QED BY <3>6, <5>1, <5>2
      <4>2. Len(file') = (i' - app'.lba) * SectorLen
        BY <3>4, <3>5
      <4> QED BY <4>1, <4>2, Zenon DEF ReadImage, SlotOf
    <3>8. buf' = SlotOf(file', m) /\ geo' = geo
      BY <2>3, <3>4
    <3> QED BY <2>5, <3>2, <3>3, <3>4, <3>5, <3>7, <3>8 DEF ReadInv
  <2> QED BY <2>3, <2>4, <2>5
<1>5. CASE WriteBlock
  <2>1. /\ pc = "loop" /\ app.cmd = "write" /\ pc' \in {"loop", "exit"}
        /\ app' = app
    BY <1>5 DEF WriteBlock, InLoop, Goto
  <2> QED BY <2>1 DEF ReadInv, ReadImage
<1>6. CASE LoopDone \/ Exit
  <2>1. /\ UNCHANGED <<app, geo, i, file, answered, buf>> /\ pc' \in {"exit", "end"}
    BY <1>6 DEF LoopDone, Exit, End, Goto
  <2> QED BY <2>1, ImageUntouched DEF ReadInv
<1>7. CASE UNCHANGED vars
  BY <1>7 DEF vars, ReadInv, ReadImage, SlotOf
<1> QED BY <1>1, <1>2, <1>3, <1>4, <1>5, <1>6, <1>7 DEF Next

(* Wherever a read stops, the file has the blocks read so far in order,    *)
(* each in a slot of its own as far as it was answered, then as the slot   *)
(* before, and behind a block what the stack held.                         *)
THEOREM ReadKept == Spec => []ReadImage
<1>1. ReadInv => ReadImage
  BY DEF ReadInv
<1> QED BY <1>1, TypeInit, TypeNext, ReadInit, ReadNext, PTL DEF Spec
-----------------------------------------------------------------------------
(* The write: the loop stands a sector behind the last one it read, and    *)
(* the input file has all that is left to write.                           *)
Whole == geo.blockLen = SectorLen /\ app.bc * geo.blockLen < Word
WriteInv ==
    /\ pc \in {"start", "query", "geometry", "fopen"} => stored = {}
    /\ pc = "loop" /\ app.cmd = "write" /\ Whole =>
          /\ pos = app.offset + (i - app.lba) * SectorLen
          /\ app.offset + app.bc * SectorLen <= inlen
    /\ WriteImage

(* Enough data, when nothing wraps, is enough data.                        *)
LEMMA EnoughIsEnough ==
    ASSUME TypeOK, RangeInv, EnoughData, Whole
    PROVE  app.offset + app.bc * SectorLen <= inlen
<1>1. /\ Word \in Nat \ {0} /\ inlen \in Nat /\ app.offset \in Nat
      /\ app.offset < Word
  BY RangeFacts, WordFacts, WordTypes DEF TypeOK, Words
<1>2. /\ app.bc * SectorLen \in Nat /\ app.bc * SectorLen < Word
      /\ app.bc * geo.blockLen = app.bc * SectorLen
  BY RangeFacts DEF Whole
<1> DEFINE rest == inlen % Word
           size == app.bc * SectorLen
<1>3. /\ app.offset <= rest /\ (size % Word) <= ((rest - app.offset) % Word)
  BY <1>2 DEF EnoughData, Mul, Sub
<1>4. rest \in Nat /\ rest < Word /\ rest <= inlen
  BY <1>1
<1>5. ASSUME NEW r \in Nat, NEW s \in Nat, NEW o \in Nat, NEW w \in Nat \ {0},
             r < w, s < w, o <= r, (s % w) <= ((r - o) % w)
      PROVE  o + s <= r
  <2>1. s % w = s /\ (r - o) % w = r - o
    BY <1>5
  <2> QED BY <1>5, <2>1
<1> HIDE DEF rest, size
<1>6. size \in Nat /\ size < Word
  BY <1>2 DEF size
<1>7. app.offset + size <= rest
  BY <1>1, <1>3, <1>4, <1>5, <1>6
<1>8. app.offset + size <= inlen
  BY <1>1, <1>4, <1>6, <1>7
<1> QED BY <1>8 DEF size

(* The sector the loop reads next is all there.                            *)
LEMMA NextIsWhole ==
    ASSUME TypeOK, RangeInv, WriteInv, InLoop("write"), Whole
    PROVE  /\ Len(NextSector) = SectorLen /\ NextSector \in Seq(Cell)
           /\ pos + SectorLen = app.offset + ((i + 1) - app.lba) * SectorLen
           /\ pos + SectorLen <= inlen
           /\ \A k \in 1..SectorLen :
                 NextSector[k] = FileCell(app.offset + (i - app.lba) * SectorLen + k)
<1>1. /\ pos = app.offset + (i - app.lba) * SectorLen
      /\ app.offset + app.bc * SectorLen <= inlen
  BY DEF InLoop, WriteInv
<1> DEFINE m == i - app.lba
<1>2. /\ m \in Nat /\ app.bc \in Nat /\ SectorLen \in Nat /\ inlen \in Nat
      /\ (i + 1) - app.lba = m + 1 /\ app.offset \in Nat
  <2>1. \A a \in Nat, b \in Nat : (b + 1) - a = b - a + 1
    OBVIOUS
  <2> QED BY RangeFacts, <2>1
<1>3. m < app.bc
  <2>1. app.lba \in Words /\ app.bc \in Words /\ app.lba \in Nat /\ i \in Nat
        /\ i < Add(app.lba, app.bc) /\ app.bc \in Nat
    BY RangeFacts
  <2>2. Add(app.lba, app.bc) = app.lba + app.bc
        \/ Add(app.lba, app.bc) = app.lba + app.bc - Word
    <3>1. /\ app.lba + app.bc < Word => Add(app.lba, app.bc) = app.lba + app.bc
          /\ app.lba + app.bc >= Word
             => Add(app.lba, app.bc) = app.lba + app.bc - Word
      BY <2>1, WordSums
    <3>2. app.lba + app.bc < Word \/ app.lba + app.bc >= Word
      BY <2>1, WordFacts
    <3> QED BY <3>1, <3>2
  <2>3. Word \in Nat
    BY WordFacts
  <2> QED BY <2>1, <2>2, <2>3
<1>4. /\ m * SectorLen \in Nat /\ (m + 1) * SectorLen = m * SectorLen + SectorLen
      /\ (m + 1) * SectorLen <= app.bc * SectorLen
  BY <1>2, <1>3, SlotPlaces
<1>5. /\ pos + SectorLen = app.offset + (m + 1) * SectorLen
      /\ pos + SectorLen <= inlen /\ pos \in 0..inlen
  <2>1. app.bc * SectorLen \in Nat
    BY <1>2
  <2>2. ASSUME NEW p \in Int, NEW a \in Nat, NEW b \in Nat, NEW c \in Nat,
               NEW o \in Nat, NEW l \in Nat, NEW sl \in Nat,
               p = o + a, b = a + sl, b <= c, o + c <= l
        PROVE  p + sl = o + b /\ p + sl <= l /\ p \in 0..l
    BY <2>2
  <2>3. (m + 1) * SectorLen \in Nat /\ pos \in Int
    BY <1>1, <1>2, <1>4
  <2> HIDE DEF m
  <2>4. pos = app.offset + m * SectorLen
    BY <1>1 DEF m
  <2> QED BY <1>1, <1>2, <1>4, <2>1, <2>2, <2>3, <2>4
<1>6. /\ NextSector \in Seq(Cell)
      /\ Len(NextSector) = IF inlen - pos < SectorLen THEN inlen - pos
                           ELSE SectorLen
      /\ \A k \in 1..Len(NextSector) : NextSector[k] = FileCell(pos + k)
  BY <1>2, <1>5, SectorFacts
<1>7. ~(inlen - pos < SectorLen)
  <2>1. \A p \in Nat, l \in Nat, sl \in Nat : p + sl <= l => ~(l - p < sl)
    OBVIOUS
  <2>2. pos \in Nat
    BY <1>2, <1>5
  <2> QED BY <1>2, <1>5, <2>1, <2>2
<1>8. Len(NextSector) = SectorLen
  BY <1>6, <1>7, Zenon
<1> QED BY <1>1, <1>2, <1>5, <1>6, <1>8, Zenon

(* A step that stores nothing and stays in no loop.                        *)
LEMMA NothingStored ==
    ASSUME WriteInv, UNCHANGED <<app, inlen, stored>>, pc' # "loop",
           geo' = geo \/ stored = {},
           pc' \in {"start", "query", "geometry", "fopen"}
             => pc \in {"start", "query", "geometry", "fopen"}
    PROVE  WriteInv'
  BY DEF WriteInv, WriteImage, Whole

LEMMA WriteInit == Init => WriteInv
  BY DEF Init, WriteInv, WriteImage

LEMMA WriteNext ==
    TypeOK /\ RangeInv /\ WriteInv /\ [Next]_vars => WriteInv'
<1> SUFFICES ASSUME TypeOK, RangeInv, WriteInv, [Next]_vars PROVE WriteInv'
  OBVIOUS
<1> USE DEF setup, output
<1>1. CASE Open \/ Query \/ GetGeometry
  <2>1. /\ UNCHANGED <<app, inlen, stored>> /\ pc' # "loop"
        /\ pc \in {"start", "query", "geometry"}
    BY <1>1 DEF Open, Query, GetGeometry, End, Goto
  <2>2. stored = {}
    BY <2>1 DEF WriteInv
  <2> QED BY <2>1, <2>2, NothingStored
<1>2. CASE OpenFile
  <2>1. /\ pc = "fopen" /\ UNCHANGED <<app, inlen, geo, stored>> /\ i' = app.lba
    BY <1>2 DEF OpenFile
  <2>2. stored' = {}
    BY <2>1 DEF WriteInv
  <2>3. ASSUME pc' = "loop", app.cmd = "write", Whole
        PROVE  /\ pos' = app.offset + (i' - app.lba) * SectorLen
               /\ app.offset + app.bc * SectorLen <= inlen
    <3>1. EnoughData
      BY <1>2, <2>3 DEF OpenFile, Goto
    <3>2. app.offset <= inlen % Word
      BY <3>1 DEF EnoughData
    <3>3. pos' = app.offset
      BY <1>2, <2>3, <3>2 DEF OpenFile, Goto
    <3>4. app.offset = app.offset + (i' - app.lba) * SectorLen
      <4>1. i' - app.lba = 0
        BY <2>1, RangeFacts
      <4>2. 0 * SectorLen = 0 /\ app.offset \in Nat
        BY RangeFacts
      <4> QED BY <4>1, <4>2
    <3> QED BY <2>3, <3>1, <3>3, <3>4, EnoughIsEnough
  <2> QED BY <2>1, <2>2, <2>3 DEF WriteInv, WriteImage, Whole
<1>3. CASE ReadBlock
  <2>1. /\ pc = "loop" /\ app.cmd = "read" /\ pc' \in {"loop", "exit"}
        /\ UNCHANGED <<app, inlen, geo, stored>>
    BY <1>3 DEF ReadBlock, InLoop, Goto
  <2> QED BY <2>1 DEF WriteInv, WriteImage
<1>4. CASE WriteBlock
  <2>1. /\ InLoop("write") /\ pc' \in {"loop", "exit"}
        /\ UNCHANGED <<app, inlen, geo>>
        /\ buf' = Fill(buf, NextSector) /\ pos' = pos + Len(NextSector)
        /\ pc' = "loop" => i' = i + 1
    BY <1>4 DEF WriteBlock, Goto
  <2>2. ASSUME Whole
        PROVE  /\ pc' = "loop" => pos' = app.offset + (i' - app.lba) * SectorLen
               /\ \A b \in stored' : \A k \in 1..SectorLen :
                    /\ b.data[k] =
                         FileCell(app.offset + (b.lba - app.lba) * SectorLen + k)
                    /\ b.data[k].at <= inlen
    <3>1. /\ Len(NextSector) = SectorLen /\ NextSector \in Seq(Cell)
          /\ pos + SectorLen = app.offset + ((i + 1) - app.lba) * SectorLen
          /\ \A k \in 1..SectorLen :
                NextSector[k] = FileCell(app.offset + (i - app.lba) * SectorLen + k)
      BY <2>1, <2>2, NextIsWhole
    <3>2. pos + SectorLen <= inlen
      BY <2>1, <2>2, NextIsWhole
    <3>3. /\ buf' \in Seq(Cell) /\ Len(buf') = SectorLen
          /\ \A k \in 1..SectorLen : buf'[k] = NextSector[k]
      <4>1. buf \in Seq(Cell) /\ Len(buf) = SectorLen
        BY DEF TypeOK
      <4>2. \A k \in 1..SectorLen : k <= SectorLen
        BY WordFacts
      <4>3. Len(NextSector) <= Len(buf)
        BY <3>1, <4>1, WordFacts
      <4>4. /\ buf' \in Seq(Cell) /\ Len(buf') = SectorLen
            /\ \A k \in 1..SectorLen :
                  buf'[k] = IF k <= SectorLen THEN NextSector[k] ELSE buf[k]
        BY <2>1, <3>1, <4>1, <4>3, FillFacts
      <4> QED BY <4>2, <4>4
    <3>4. SubSeq(buf', 1, geo.blockLen) = buf'
      <4>1. geo.blockLen = Len(buf')
        BY <2>2, <3>3 DEF Whole
      <4> QED BY <3>3, <4>1, SubSeqFull
    <3>5. /\ i \in Words /\ geo.blockLen \in Nat
      BY <2>1, RangeFacts
    <3>6. stored' \subseteq stored \cup {[lba |-> i, data |-> buf']}
      <4>1. Address(Write10(i, geo.blockLen)) = i
        BY <3>5, WriteTarget
      <4> QED BY <1>4, <3>4, <4>1 DEF WriteBlock
    <3>7. ASSUME NEW k \in 1..SectorLen
          PROVE  /\ buf'[k] = FileCell(app.offset + (i - app.lba) * SectorLen + k)
                 /\ buf'[k].at <= inlen
      <4>1. buf'[k] = FileCell(app.offset + (i - app.lba) * SectorLen + k)
        BY <3>1, <3>3
      <4>2. pos = app.offset + (i - app.lba) * SectorLen
        BY <2>1, <2>2 DEF WriteInv, InLoop
      <4>3. buf'[k] = FileCell(pos + k)
        BY <4>1, <4>2, Zenon
      <4>4. buf'[k].at = pos + k
        BY <4>3 DEF FileCell
      <4>5. pos \in Nat /\ inlen \in Nat /\ SectorLen \in Nat
        BY RangeFacts DEF TypeOK
      <4>6. ASSUME NEW p \in Nat, NEW n \in Nat, NEW l \in Nat, p + n <= l,
                   NEW j \in 1..n
            PROVE  p + j <= l
        BY <4>6
      <4>7. pos + k <= inlen
        BY <3>2, <4>5, <4>6
      <4> QED BY <4>1, <4>4, <4>7
    <3>8. ASSUME NEW b \in stored', NEW k \in 1..SectorLen
          PROVE  /\ b.data[k] =
                       FileCell(app.offset + (b.lba - app.lba) * SectorLen + k)
                 /\ b.data[k].at <= inlen
      <4>1. CASE b \in stored
        BY <2>2, <4>1 DEF WriteInv, WriteImage, Whole
      <4>2. CASE b = [lba |-> i, data |-> buf']
        <5>1. b.lba = i /\ b.data = buf'
          BY <4>2
        <5> QED BY <3>7, <5>1
      <4> QED BY <3>6, <4>1, <4>2
    <3>9. pc' = "loop" => pos' = app.offset + (i' - app.lba) * SectorLen
      <4> SUFFICES ASSUME pc' = "loop"
                   PROVE  pos' = app.offset + (i' - app.lba) * SectorLen
        OBVIOUS
      <4>1. i' = i + 1 /\ pos' = pos + SectorLen
        BY <2>1, <3>1
      <4>2. pos + SectorLen = app.offset + ((i + 1) - app.lba) * SectorLen
        BY <3>1
      <4> QED BY <4>1, <4>2, Zenon
    <3> QED BY <3>8, <3>9
  <2>3. pc = "loop" /\ app.cmd = "write"
    BY <2>1 DEF InLoop
  <2>4. Whole' <=> Whole
    BY <2>1 DEF Whole
  <2>5. WriteImage'
    <3>1. Whole' => \A b \in stored' : \A k \in 1..SectorLen :
                    /\ b.data[k] =
                         FileCell(app'.offset + (b.lba - app'.lba) * SectorLen + k)
                    /\ b.data[k].at <= inlen'
      BY <2>1, <2>2, <2>4
    <3> QED BY <3>1, Zenon DEF WriteImage, Whole
  <2>6. pc' = "loop" /\ Whole' =>
          /\ pos' = app'.offset + (i' - app'.lba) * SectorLen
          /\ app'.offset + app'.bc * SectorLen <= inlen'
    BY <2>1, <2>2, <2>3, <2>4 DEF WriteInv
  <2> QED BY <2>1, <2>5, <2>6 DEF WriteInv
<1>5. CASE LoopDone \/ Exit
  <2>1. UNCHANGED <<app, inlen, geo, stored>> /\ pc' \in {"exit", "end"}
    BY <1>5 DEF LoopDone, Exit, End, Goto
  <2> QED BY <2>1, NothingStored
<1>6. CASE UNCHANGED vars
  BY <1>6 DEF vars, WriteInv, WriteImage, Whole
<1> QED BY <1>1, <1>2, <1>3, <1>4, <1>5, <1>6 DEF Next

(* A device whose blocks are sectors is sent the file from the offset on,  *)
(* without a gap and never past its end, as long as the size of the data   *)
(* is a word.                                                              *)
THEOREM WriteKept == Spec => []WriteImage
<1>1. WriteInv => WriteImage
  BY DEF WriteInv
<1> QED BY <1>1, TypeInit, TypeNext, WriteInit, WriteNext, PTL DEF Spec

-----------------------------------------------------------------------------
(* scsi_read10 and scsi_write10 end with the file closed, whatever fails;  *)
(* the safety half of EndsClosed.                                          *)
THEOREM ClosedAtEnd == Spec => [](pc = "end" => Closed)
<1> DEFINE OpenInv == handle = "open" => pc \in {"loop", "exit"}
<1>1. Init => OpenInv
  BY DEF Init
<1>2. OpenInv /\ [Next]_vars => OpenInv'
  <2> SUFFICES ASSUME OpenInv, [Next]_vars PROVE OpenInv'
    OBVIOUS
  <2>1. CASE Open \/ Query \/ GetGeometry
    BY <2>1 DEF Open, Query, GetGeometry
  <2>2. CASE OpenFile \/ ReadBlock \/ WriteBlock \/ LoopDone
    BY <2>2 DEF OpenFile, ReadBlock, WriteBlock, LoopDone, InLoop, Goto
  <2>3. CASE Exit
    BY <2>3 DEF Exit
  <2>4. CASE UNCHANGED vars
    BY <2>4 DEF vars
  <2> QED BY <2>1, <2>2, <2>3, <2>4 DEF Next
<1>3. OpenInv => (pc = "end" => Closed)
  BY DEF Closed
<1> QED BY <1>1, <1>2, <1>3, PTL DEF Spec
===============================================================================
