------------------------- MODULE FirmwareSessionProofs -------------------------
(***************************************************************************)
(* Proofs about FirmwareSession, for every command line, device, disk and  *)
(* size of a word.                                                         *)
(***************************************************************************)
EXTENDS FirmwareSession, CommandBlocksProofs, LeastNumber, SequenceTheorems

-----------------------------------------------------------------------------
(* Words and the sums of words.                                            *)

LEMMA WordFacts ==
    /\ Word \in Nat \ {0} /\ Half \in Nat /\ Half <= Word
    /\ 0 \in Words /\ Words \subseteq Nat
    /\ SectorLen \in Nat \ {0} /\ RamLimit \in Nat /\ RamLimit <= Half
<1>1. Byte \in Nat /\ Byte > 0
  BY ByteAssumption
<1>2. Half \in Nat /\ Half > 0
  BY <1>1 DEF Half
<1>3. Word \in Nat /\ Half <= Word
  BY <1>2 DEF Word
<1>4. RamLimit \in 0..Half /\ SectorLen \in Words \ {0}
  BY WordAssumption
<1> QED BY <1>2, <1>3, <1>4 DEF Words

(* The sum of two words is a word: that of the numbers, or less by Word.   *)
LEMMA WordSums ==
    ASSUME NEW a \in Words, NEW b \in Words
    PROVE  /\ Add(a, b) \in Words
           /\ a + b < Word => Add(a, b) = a + b
           /\ a + b >= Word => Add(a, b) = a + b - Word
<1>1. Word \in Nat \ {0}
  BY WordFacts
<1>2. a \in Nat /\ b \in Nat /\ a < Word /\ b < Word
  BY <1>1 DEF Words
<1>3. CASE a + b < Word
  <2>1. (a + b) % Word = a + b
    BY <1>1, <1>2, <1>3
  <2> QED BY <1>1, <1>2, <1>3, <2>1 DEF Add, Words
<1>4. CASE a + b >= Word
  <2>1. (a + b) % Word = a + b - Word
    <3>1. (a + b - Word) % Word = a + b - Word
      BY <1>1, <1>2, <1>4
    <3>2. a + b = (a + b - Word) + 1 * Word
      BY <1>1, <1>2
    <3> QED BY <1>1, <1>2, <1>4, <3>1, <3>2
  <2> QED BY <1>1, <1>2, <1>4, <2>1 DEF Add, Words
<1> QED BY <1>2, <1>1, <1>3, <1>4

-----------------------------------------------------------------------------
(* The last file of a directory.                                           *)

Items == [used : BOOLEAN, offset : Words, length : Words]
Counted(dir) == {k \in 1..Len(dir) : dir[k].used /\ dir[k].offset > 0}

(* The place LastFile chooses exists: among the entries with the largest   *)
(* offset there is a first one.                                            *)
LEMMA LastFileFacts ==
    ASSUME NEW dir \in Seq(Items)
    PROVE  /\ LastFile(dir) \in Items
           /\ Counted(dir) # {} =>
                \E k \in Counted(dir) :
                    /\ LastFile(dir) = dir[k]
                    /\ \A m \in Counted(dir) : dir[m].offset <= dir[k].offset
<1>1. CASE Counted(dir) = {}
  BY <1>1, WordFacts DEF LastFile, Counted, Items
<1>2. CASE Counted(dir) # {}
  <2> DEFINE used == Counted(dir)
             Later(k) == \A m \in used :
                 \/ dir[m].offset < dir[k].offset
                 \/ dir[m].offset = dir[k].offset /\ k <= m
  <2>1. Len(dir) \in Nat /\ \A k \in 1..Len(dir) : dir[k] \in Items
    BY LenProperties
  <2>2. \A k \in used : /\ k \in Nat /\ dir[k] \in Items
                        /\ dir[k].offset \in Nat /\ dir[k].offset < Word
    BY <2>1, WordFacts DEF Counted, Items, Words
  <2>3. PICK top \in used : \A m \in used : dir[m].offset <= dir[top].offset
    <3> DEFINE gaps == {Word - dir[k].offset : k \in used}
    <3>1. gaps \in SUBSET Nat /\ gaps # {}
      BY <1>2, <2>2, WordFacts
    <3>2. PICK x \in gaps : \A y \in gaps : x <= y
      <4> HIDE DEF gaps
      <4> QED BY <3>1, LeastNatural
    <3>3. PICK top \in used : x = Word - dir[top].offset
      BY <3>2
    <3>4. ASSUME NEW m \in used PROVE dir[m].offset <= dir[top].offset
      <4>1. x <= Word - dir[m].offset
        BY <3>2
      <4> QED BY <4>1, <3>3, <2>2, WordFacts
    <3> QED BY <3>4
  <2>4. PICK k \in used : Later(k)
    <3> DEFINE tops == {m \in used : dir[m].offset = dir[top].offset}
    <3>1. tops \in SUBSET Nat /\ tops # {}
      BY <2>2
    <3>2. PICK k \in tops : \A m \in tops : k <= m
      <4> HIDE DEF tops
      <4> QED BY <3>1, LeastNatural
    <3>3. ASSUME NEW m \in used
          PROVE  \/ dir[m].offset < dir[k].offset
                 \/ dir[m].offset = dir[k].offset /\ k <= m
      BY <2>2, <2>3, <3>2
    <3> QED BY <3>2, <3>3
  <2>5. LastFile(dir) = dir[CHOOSE j \in used : Later(j)]
    BY <1>2 DEF LastFile, Counted
  <2>6. PICK j \in used : LastFile(dir) = dir[j] /\ Later(j)
    BY <2>4, <2>5
  <2>7. \A m \in used : dir[m].offset <= dir[j].offset
    BY <2>2, <2>6
  <2> QED BY <2>2, <2>6, <2>7
<1> QED BY <1>1, <1>2

(* Whole sectors.                                                          *)
LEMMA Divided == \A n \in Nat : n \div SectorLen \in Nat
  BY WordFacts

(* The entries of a directory.                                             *)
LEMMA ItemFacts ==
    ASSUME NEW dir \in Seq(Items), NEW k \in 1..Len(dir)
    PROVE  /\ dir[k] \in Items /\ k \in Nat
           /\ dir[k].offset \in Words /\ dir[k].length \in Words
           /\ dir[k].offset \in Nat /\ dir[k].length \in Nat
<1>1. dir[k] \in Items /\ k \in Nat
  BY LenProperties
<1> QED BY <1>1, WordFacts DEF Items

(* The header read at a sector, and the sizes of what its directory lists. *)
LEMMA HeaderFacts ==
    ASSUME NEW s \in Nat, fw \in Firmwares
    PROVE  /\ HeaderAt(s).dir \in Seq(Items)
           /\ FwSize(HeaderAt(s).dir) \in Words
<1>1. fw.main \in Headers /\ fw.altMain \in Headers /\ NoHeader \in Headers
  <2>1. <<>> \in Seq(Items)
    BY EmptySeq
  <2> QED BY <2>1, FirmwaresAssumption DEF NoHeader, Headers, Items
<1>2. HeaderAt(s) \in Headers
  BY <1>1 DEF HeaderAt
<1>3. HeaderAt(s).dir \in Seq(Items)
  BY <1>2 DEF Headers, Items
<1>4. \A n \in Words : Sectors(n) \in Nat
  <2>1. ASSUME NEW n \in Words PROVE Add(n, SectorLen - 1) \in Nat
    BY WordFacts, <2>1 DEF Add
  <2> QED BY <2>1, Divided DEF Sectors
<1>5. \A a, b \in Nat : Add(a, b) \in Words
  BY WordFacts DEF Add, Words
<1>6. FwSize(HeaderAt(s).dir) \in Words
  <2> DEFINE last == LastFile(HeaderAt(s).dir)
  <2>1. last.offset \in Nat /\ last.length \in Words
    BY <1>3, LastFileFacts, WordFacts DEF Items
  <2> QED BY <2>1, <1>4, <1>5 DEF FwSize
<1> QED BY <1>3, <1>6

-----------------------------------------------------------------------------
(* The inductive invariant.                                                *)

Started == pc \in {"loop", "exit", "end"}

(* What a place of the program says about the command line and about what  *)
(* was done so far: nothing is in the file before the loop, and its range  *)
(* was checked if it is one of RAM.                                        *)
StageInv ==
    /\ ~Started => /\ file = <<>> /\ answered = <<>> /\ ~guessed /\ size = 0
                   /\ buf = [m \in 1..SectorLen |-> Junk]
    /\ printed # "nothing" => pc \in {"exit", "end"}
    /\ ofile = "open" => /\ pc \in {"search", "size", "range", "loop", "exit"}
                         /\ app.cmd # "headinfo"
    /\ pc = "search" => app.cmd \in {"headinfo", "dumpraw"}
    /\ pc = "header" => app.cmd = "headinfo"
    /\ pc = "ramtest" => app.cmd \in {"ramacc", "readram"}
    /\ pc \in {"fopen", "range", "loop"}
           => app.cmd \in {"readfw", "readram", "dumpraw"}
    /\ pc = "range" => app.cmd # "dumpraw" \/ ~app.logical
    /\ pc = "size" => app.cmd = "dumpraw"
    /\ pc \in {"confirm", "entry"} => app.cmd = "entry"
    /\ pc = "start" \/ ~OutOfRam \/ (pc = "end" /\ file = <<>>)

(* What the device was sent.                                               *)
SentInv ==
    /\ pc \in {"start", "init"} => sent = {}
    /\ fw.actions \/ ( /\ pc \in {"start", "init", "exit", "end"}
                       /\ sent \subseteq {"identify", "detach"} )
    /\ CleanEnd

(* The loop: how far it is, that the file has all there was room for, and  *)
(* that dumpbuffer is still as it was written last.                        *)
LoopInv ==
    pc = "loop" =>
        /\ i >= first /\ (i = first \/ i <= Add(first, size))
        /\ app.cmd = "readram" => first = app.lba /\ size = app.bc
        /\ Len(answered) = i - first
        /\ Len(file) = IF i - first <= room THEN i - first ELSE room
        /\ i - first <= room => buf = IF file = <<>>
                                        THEN [m \in 1..SectorLen |-> Junk]
                                        ELSE file[Len(file)]
        /\ app.cmd = "readram" => \A m \in 1..SectorLen : buf[m].sector < RamLimit

(* A raw dump measures the firmware by the directory of its header.        *)
SizeInv ==
    app.cmd = "dumpraw" /\ app.logical /\ ~guessed
        => size \in {0, FwSize(HeaderAt(first).dir)}

IInv == /\ TypeOK /\ StageInv /\ SentInv /\ LoopInv /\ SizeInv
        /\ FileIsPrefix /\ RamInRange /\ DoneIsComplete

LEMMA InvInit == Init => IInv
<1> SUFFICES ASSUME Init PROVE IInv
  OBVIOUS
<1> USE DEF Init
<1>1. <<>> \in Seq(Contents) /\ <<>> \in Seq(0..SectorLen) /\ Len(<<>>) = 0
  BY EmptySeq
<1>2. TypeOK
  <2>1. Junk \in Units
    BY WordFacts DEF Junk, Units
  <2>2. [m \in 1..SectorLen |-> Junk] \in Contents
    BY <2>1 DEF Contents
  <2> QED BY <1>1, <2>2, WordFacts DEF TypeOK
<1>3. StageInv /\ LoopInv /\ SizeInv
  BY DEF StageInv, Started, LoopInv, SizeInv
<1>4. SentInv
  BY DEF SentInv, CleanEnd
<1>5. FileIsPrefix /\ RamInRange /\ DoneIsComplete
  BY <1>1 DEF FileIsPrefix, RamInRange, DoneIsComplete
<1> QED BY <1>2, <1>3, <1>4, <1>5 DEF IInv

(* What a step preserves that leaves the file and its range alone.         *)
LEMMA FileUntouched ==
    ASSUME IInv, UNCHANGED <<setup, first, size, file, answered, guessed>>,
           printed' = "done" => printed = "done"
    PROVE  SizeInv' /\ FileIsPrefix' /\ RamInRange' /\ DoneIsComplete'
<1> USE DEF setup
<1>1. SizeInv' /\ RamInRange'
  BY DEF IInv, SizeInv, HeaderAt, RamInRange
<1>2. FileIsPrefix'
  BY DEF IInv, FileIsPrefix, Area
<1>3. DoneIsComplete'
  BY DEF IInv, DoneIsComplete
<1> QED BY <1>1, <1>2, <1>3

(* What a step preserves while the file is empty and nothing is claimed.   *)
LEMMA FileEmpty ==
    ASSUME file' = <<>>, printed' # "done"
    PROVE  FileIsPrefix' /\ RamInRange' /\ DoneIsComplete'
<1>1. Len(file') = 0
  BY EmptySeq
<1> QED BY <1>1 DEF FileIsPrefix, RamInRange, DoneIsComplete

LEMMA InvOpen == IInv /\ Open => IInv'
<1> SUFFICES ASSUME IInv, Open PROVE IInv'
  OBVIOUS
<1> USE DEF IInv, Open, setup, range, output, End, Goto
<1>1. TypeOK'
  BY DEF TypeOK
<1>2. StageInv'
  BY DEF StageInv, Started, OutOfRam
<1>3. SentInv'
  BY DEF SentInv, CleanEnd, StageInv
<1>4. LoopInv'
  BY DEF LoopInv
<1> QED BY <1>1, <1>2, <1>3, <1>4, FileUntouched

LEMMA InvInitAct == IInv /\ InitAct => IInv'
<1> SUFFICES ASSUME IInv, InitAct PROVE IInv'
  OBVIOUS
<1> USE DEF IInv, InitAct, setup, range, output, Goto, Send
<1>1. app.cmd \in Commands
  BY OptionsAssumption DEF TypeOK
<1>2. TypeOK'
  BY <1>1 DEF TypeOK, AfterInit, Commands
<1>3. StageInv'
  BY <1>1 DEF StageInv, Started, OutOfRam, AfterInit, Commands
<1>4. SentInv'
  BY <1>1 DEF SentInv, CleanEnd, AfterInit, Commands
<1>5. LoopInv'
  BY <1>1 DEF LoopInv, AfterInit, Commands
<1> QED BY <1>2, <1>3, <1>4, <1>5, FileUntouched

LEMMA InvSearch == IInv /\ SearchAlternateFw => IInv'
<1> SUFFICES ASSUME IInv, SearchAlternateFw PROVE IInv'
  OBVIOUS
<1> USE DEF IInv, SearchAlternateFw, setup, output, Goto, Send
<1>1. first' \in Words
  BY WordFacts, WordAssumption, FirmwaresAssumption
     DEF SearchError, NotFound, TypeOK, Words
<1>2. TypeOK'
  BY <1>1 DEF TypeOK
<1>3. StageInv'
  <2>1. \/ pc' = "exit"
        \/ pc' = "header" /\ app.cmd = "headinfo"
        \/ pc' = "size" /\ app.cmd = "dumpraw"
    BY DEF StageInv
  <2> QED BY <2>1 DEF StageInv, Started, OutOfRam
<1>4. SentInv'
  BY DEF SentInv, CleanEnd
<1>5. LoopInv' /\ SizeInv'
  BY DEF LoopInv, SizeInv, StageInv, Started
<1>6. file' = <<>> /\ printed' # "done"
  BY DEF StageInv, Started
<1> QED BY <1>2, <1>3, <1>4, <1>5, <1>6, FileEmpty

(* The actions that only print something, or nothing at all.               *)
LEMMA InvQueries ==
    IInv /\ (HeadInfo \/ SysInfo \/ TestRamAccess \/ Confirm \/ Entry) => IInv'
<1> SUFFICES ASSUME IInv,
                    HeadInfo \/ SysInfo \/ TestRamAccess \/ Confirm \/ Entry
             PROVE  IInv'
  OBVIOUS
<1> USE DEF IInv, HeadInfo, SysInfo, TestRamAccess, Confirm, Entry,
            setup, range, output, Goto, Send, End
<1>1. TypeOK'
  <2>1. printed' \in {"nothing", "header", "sysinfo", "ramacc", "done", "entry"}
    BY DEF TypeOK
  <2>5. answered' = answered /\ guessed' \in BOOLEAN
    BY DEF TypeOK
  <2>4. retval' = retval \/ retval' = TRUE
    BY Zenon
  <2>2. sent' \subseteq {"identify", "init", "readone", "readram", "entry",
                        "detach"}
    BY DEF TypeOK
  <2>3. pc' \in {"exit", "fopen", "entry", "end"} /\ status' \in {-1, 0, 1}
    BY DEF TypeOK
  <2> QED BY <2>1, <2>2, <2>3, <2>4, <2>5 DEF TypeOK
<1>2. StageInv'
  BY DEF StageInv, Started, OutOfRam
<1>3. SentInv'
  <2>1. /\ pc \in {"header", "sysinfo", "ramtest", "confirm", "entry"}
        /\ fw' = fw /\ app' = app /\ ofile' = ofile /\ ofile # "open"
    BY DEF StageInv
  <2>2. fw.actions /\ "detach" \notin sent
    BY <2>1 DEF SentInv, CleanEnd
  <2>3. "detach" \notin sent' /\ pc' \notin {"start", "init"}
    BY <2>2
  <2>4. pc' = "end" => app.cmd = "entry" /\ ~app.yes
    BY DEF StageInv
  <2> QED BY <2>1, <2>2, <2>3, <2>4 DEF SentInv, CleanEnd
<1>4. LoopInv' /\ SizeInv'
  BY DEF LoopInv, SizeInv, StageInv, Started, HeaderAt
<1>5. file' = <<>> /\ printed' # "done"
  BY DEF StageInv, Started
<1> QED BY <1>1, <1>2, <1>3, <1>4, <1>5, FileEmpty

LEMMA InvOpenFile == IInv /\ OpenFile => IInv'
<1> SUFFICES ASSUME IInv, OpenFile PROVE IInv'
  OBVIOUS
<1> USE DEF IInv, OpenFile, setup, range, Goto
<1>1. TypeOK'
  BY DEF TypeOK
<1>2. StageInv'
  BY DEF StageInv, Started, OutOfRam
<1>3. SentInv'
  BY DEF SentInv, CleanEnd
<1>4. LoopInv'
  BY DEF LoopInv
<1> QED BY <1>1, <1>2, <1>3, <1>4, FileUntouched

LEMMA InvExit == IInv /\ Exit => IInv'
<1> SUFFICES ASSUME IInv, Exit PROVE IInv'
  OBVIOUS
<1> USE DEF IInv, Exit, setup, range, Send, End
<1>1. TypeOK'
  BY DEF TypeOK
<1>2. StageInv'
  BY DEF StageInv, Started, OutOfRam
<1>3. SentInv'
  BY DEF SentInv, CleanEnd
<1>4. LoopInv'
  BY DEF LoopInv
<1> QED BY <1>1, <1>2, <1>3, <1>4, FileUntouched

(* The range of the loop is set: nothing was read yet.                     *)
LEMMA InvRange == IInv /\ (GetFwSize \/ FixedRange) => IInv'
<1> SUFFICES ASSUME IInv, GetFwSize \/ FixedRange PROVE IInv'
  OBVIOUS
<1>1. /\ app \in Options /\ app.lba \in Words /\ app.bc \in Words
      /\ fw \in Firmwares /\ first \in Words /\ first \in Nat
      /\ BrecAlt \in Words /\ BrecSize \in Words /\ 0 \in Words
      /\ StackSizes \subseteq Words
  BY OptionsAssumption, WordAssumption, WordFacts DEF IInv, TypeOK
<1>2. /\ pc' = "loop" /\ i' = first' /\ buf' = buf
      /\ buf = [m \in 1..SectorLen |-> Junk]
      /\ file = <<>> /\ file' = <<>> /\ printed' = printed
      /\ printed = "nothing" /\ app.cmd \in {"readfw", "readram", "dumpraw"}
      /\ setup' = setup /\ ofile' = ofile /\ retval' = retval
      /\ status' = status /\ ~OutOfRam
  BY DEF GetFwSize, FixedRange, Goto, IInv, StageInv, Started, output, setup
<1>3. first' \in Words /\ size' \in Words /\ SizeInv'
  <2>1. CASE GetFwSize
    <3>1. FwSize(HeaderAt(first).dir) \in Words /\ first' = first
      BY <1>1, <2>1, HeaderFacts DEF GetFwSize
    <3>2. HeaderAt(first)' = HeaderAt(first)
      BY <1>2, <3>1 DEF HeaderAt, setup
    <3>3. \/ size' \in {0, FwSize(HeaderAt(first).dir)}
          \/ size' \in StackSizes /\ guessed'
      BY <2>1 DEF GetFwSize
    <3> QED BY <1>1, <3>1, <3>2, <3>3 DEF SizeInv
  <2>2. CASE FixedRange
    <3>1. app.cmd # "dumpraw" \/ ~app.logical
      BY <2>2 DEF FixedRange, IInv, StageInv
    <3>2. first' \in Words /\ size' \in Words
      BY <1>1, <2>2 DEF FixedRange
    <3> QED BY <1>2, <3>1, <3>2 DEF SizeInv, setup
  <2> QED BY <2>1, <2>2
<1>4. answered' = answered /\ answered = <<>> /\ guessed' \in BOOLEAN
  BY DEF GetFwSize, FixedRange, output, IInv, TypeOK, StageInv, Started
<1>5. /\ sent \subseteq sent' /\ \A x \in sent' : x \in sent \/ x = "readone"
  BY DEF GetFwSize, FixedRange, Send
<1>6. TypeOK'
  <2>1. sent' \subseteq {"identify", "init", "readone", "readram", "entry",
                        "detach"}
    BY <1>5 DEF IInv, TypeOK
  <2> QED BY <1>2, <1>3, <1>4, <2>1 DEF IInv, TypeOK, setup
<1>7. StageInv'
  <2>1. ~OutOfRam' /\ app'.cmd = app.cmd
    BY <1>2 DEF OutOfRam, setup
  <2>2. ofile = "open" => app.cmd # "headinfo"
    BY <1>2
  <2> QED BY <1>2, <2>1, <2>2 DEF StageInv, Started
<1>8. SentInv'
  <2>1. pc \in {"size", "range"} /\ fw' = fw
    BY <1>2 DEF GetFwSize, FixedRange, setup
  <2>2. fw.actions /\ "detach" \notin sent
    BY <2>1 DEF IInv, SentInv, CleanEnd
  <2> QED BY <1>2, <1>5, <2>1, <2>2 DEF SentInv, CleanEnd
<1>9. LoopInv'
  <2>1. /\ i' - first' = 0 /\ i' >= first'
        /\ Len(file') = 0 /\ Len(answered') = 0
    <3>1. first' \in Nat
      BY <1>3, WordFacts
    <3>2. Len(file') = 0 /\ Len(answered') = 0
      BY <1>2, <1>4, EmptySeq
    <3>3. \A a \in Nat : a - a = 0 /\ a >= a
      OBVIOUS
    <3> QED BY <1>2, <3>1, <3>2, <3>3, Zenon
  <2>2. room' \in Nat
    BY <1>2, WordAssumption DEF IInv, TypeOK, setup
  <2>3. app'.cmd = "readram" => first' = app'.lba /\ size' = app'.bc
    BY <1>2 DEF GetFwSize, FixedRange, IInv, StageInv, setup
  <2>4. app'.cmd = "readram" => RamLimit > 0
    <3>1. app' = app /\ app.lba \in Nat /\ RamLimit \in Nat
      BY <1>1, <1>2, WordFacts DEF setup
    <3>2. app.cmd = "readram" => ~(app.lba >= RamLimit)
      BY <1>2 DEF OutOfRam
    <3> QED BY <3>1, <3>2
  <2>5. buf' = [m \in 1..SectorLen |-> Junk]
    BY <1>2
  <2>6. \A m \in 1..SectorLen : buf'[m].sector = 0
    BY <2>5 DEF Junk
  <2> QED BY <1>2, <2>1, <2>2, <2>3, <2>4, <2>5, <2>6 DEF LoopInv
<1> QED BY <1>2, <1>3, <1>6, <1>7, <1>8, <1>9, FileEmpty DEF IInv

(* The end of the loop: what it set out to read was read.                  *)
LEMMA InvLoopDone == IInv /\ LoopDone => IInv'
<1> SUFFICES ASSUME IInv, LoopDone PROVE IInv'
  OBVIOUS
<1> USE DEF IInv, LoopDone, setup, range, output, Goto
<1>1. TypeOK'
  BY DEF TypeOK
<1>2. StageInv'
  BY DEF StageInv, Started, OutOfRam
<1>3. SentInv'
  BY DEF SentInv, CleanEnd
<1>4. LoopInv' /\ SizeInv' /\ RamInRange'
  BY DEF LoopInv, SizeInv, HeaderAt, RamInRange
<1>5. FileIsPrefix'
  BY DEF FileIsPrefix, Area
<1>6. DoneIsComplete'
  <2>1. /\ first \in Words /\ size \in Words /\ i \in Words /\ room \in Nat
        /\ first \in Nat /\ size \in Nat /\ i \in Nat /\ Word \in Nat
        /\ first < Word /\ size < Word
    BY WordFacts, WordAssumption DEF TypeOK, Words
  <2>2. /\ i >= first /\ (i = first \/ i <= Add(first, size))
        /\ Len(file) = IF i - first <= room THEN i - first ELSE room
    BY DEF LoopInv
  <2>3. ~(i < Add(first, size)) /\ Add(first, size) \in Nat
    BY <2>1, WordSums, WordFacts
  <2>4. CASE first + size < Word
    <3>1. i - first = size
      BY <2>1, <2>2, <2>3, <2>4, WordSums
    <3> QED BY <2>1, <2>2, <2>4, <3>1 DEF DoneIsComplete
  <2>5. CASE first + size >= Word
    <3>1. i - first = 0
      BY <2>1, <2>2, <2>3, <2>5, WordSums
    <3> QED BY <2>1, <2>2, <2>5, <3>1 DEF DoneIsComplete
  <2> QED BY <2>1, <2>4, <2>5
<1> QED BY <1>1, <1>2, <1>3, <1>4, <1>5, <1>6

(* What the device answers in a round of the loop.                         *)
LEMMA AnswerFacts ==
    ASSUME i \in Words, app.logical \in BOOLEAN, app.cmd = "readram" => i < RamLimit
    PROVE  Answer(Command(i)) = [area |-> Area, sector |-> i]
<1>1. CASE app.cmd = "readram"
  <2>1. i \in 0..(Half - 1)
    BY <1>1, WordFacts
  <2>2. Address(ActReadRam(i, SectorSize)) = i
    BY <2>1, RamAddress DEF SectorSize
  <2>3. ActReadRam(i, SectorSize).op = "ram"
    BY DEF ActReadRam, Cdb
  <2> QED BY <1>1, <2>2, <2>3 DEF Answer, Command, Area
<1>2. CASE app.cmd # "readram"
  <2>1. Address(ActReadOne(i, app.logical)) = i
    BY ReadOneAddress
  <2>2. ActReadOne(i, app.logical).op = IF app.logical THEN "log" ELSE "phy"
    BY DEF ActReadOne, Cdb
  <2> QED BY <1>2, <2>1, <2>2 DEF Answer, Command, Area
<1> QED BY <1>1, <1>2

(* One round of the loop.                                                  *)
LEMMA InvReadSector == IInv /\ ReadSector => IInv'
<1> SUFFICES ASSUME IInv, ReadSector PROVE IInv'
  OBVIOUS
<1> DEFINE k == i - first + 1
           unit == [area |-> Area, sector |-> i]
<1>1. /\ app \in Options /\ app.lba \in Words /\ app.bc \in Words
      /\ app.logical \in BOOLEAN /\ first \in Words /\ size \in Words
      /\ i \in Words /\ first \in Nat /\ i \in Nat /\ room \in Nat
      /\ app.lba \in Nat
      /\ Word \in Nat /\ RamLimit \in Nat /\ RamLimit <= Half /\ Half <= Word
      /\ file \in Seq(Contents) /\ buf \in Contents /\ Len(file) \in Nat
      /\ answered \in Seq(0..SectorLen)
  BY OptionsAssumption, WordAssumption, WordFacts, LenProperties DEF IInv, TypeOK
<1>2. /\ pc = "loop" /\ i < Add(first, size) /\ Add(first, size) \in Words
      /\ Add(first, size) \in Nat /\ Add(first, size) < Word
  <2>1. Add(first, size) \in Words
    BY <1>1, WordSums
  <2>2. pc = "loop" /\ i < Add(first, size)
    BY DEF ReadSector
  <2> QED BY <1>1, <2>1, <2>2 DEF Words
<1>3. /\ i >= first
      /\ app.cmd = "readram" => first = app.lba /\ size = app.bc
      /\ Len(answered) = i - first
      /\ Len(file) = IF i - first <= room THEN i - first ELSE room
      /\ i - first <= room => buf = IF file = <<>>
                                      THEN [m \in 1..SectorLen |-> Junk]
                                      ELSE file[Len(file)]
      /\ app.cmd = "readram" => \A m \in 1..SectorLen : buf[m].sector < RamLimit
  BY <1>2 DEF IInv, LoopInv
<1>4. app.cmd = "readram" => i < RamLimit
  <2>1. app.cmd = "readram" => Add(app.lba, app.bc) <= RamLimit
    <3>1. ~OutOfRam
      BY <1>2 DEF IInv, StageInv
    <3>2. Add(app.lba, app.bc) \in Nat
      BY <1>1, WordSums, WordFacts
    <3> QED BY <1>1, <3>1, <3>2 DEF OutOfRam
  <2> QED BY <1>1, <1>2, <1>3, <2>1
<1>5. Answer(Command(i)) = unit
  BY <1>1, <1>4, AnswerFacts
<1>6. PICK n \in 0..SectorLen :
        /\ setup' = setup /\ first' = first /\ size' = size /\ ofile' = ofile
        /\ printed' = printed /\ retval' = retval /\ status' = status
        /\ guessed' = guessed
        /\ \/ /\ pc' = "exit" /\ i' = i /\ buf' = buf /\ file' = file
              /\ answered' = answered
           \/ /\ pc' = "loop" /\ i' = i + 1
              /\ file' = IF Len(file) < room THEN Append(file, buf') ELSE file
              /\ buf' = [m \in 1..SectorLen |-> IF m <= n THEN unit ELSE buf[m]]
              /\ answered' = Append(answered, n)
  <2>1. 0 \in 0..SectorLen
    BY WordFacts
  <2>2. /\ setup' = setup /\ first' = first /\ size' = size /\ ofile' = ofile
        /\ printed' = printed /\ retval' = retval /\ guessed' = guessed
        /\ status' = status
        /\ \/ /\ pc' = "exit" /\ i' = i /\ buf' = buf /\ file' = file
              /\ answered' = answered
           \/ /\ pc' = "loop" /\ i' = i + 1
              /\ file' = IF Len(file) < room THEN Append(file, buf') ELSE file
              /\ \E n \in 0..SectorLen :
                     buf' = Filled(n, i) /\ answered' = Append(answered, n)
    BY DEF ReadSector, Goto, Write
  <2> QED BY <1>5, <2>1, <2>2 DEF Filled
<1>7. /\ pc' \in {"loop", "exit"} /\ app' = app /\ fw' = fw /\ room' = room
      /\ i' \in {i, i + 1}
  BY <1>6 DEF setup
<1>8. /\ sent \subseteq sent'
      /\ \A x \in sent' : x \in sent \/ x \in {"readram", "readone"}
  BY DEF ReadSector, Send
<1>9. /\ buf' \in Contents
      /\ app.cmd = "readram" => \A m \in 1..SectorLen : buf'[m].sector < RamLimit
  <2>1. unit \in Units /\ unit.sector = i
    BY <1>1 DEF Area, Units
  <2>2. \A m \in 1..SectorLen : buf[m] \in Units
    BY <1>1 DEF Contents
  <2>3. CASE buf' = buf
    BY <1>1, <1>3, <2>3
  <2>4. CASE buf' = [m \in 1..SectorLen |-> IF m <= n THEN unit ELSE buf[m]]
    <3>1. buf' \in Contents
      BY <2>1, <2>2, <2>4 DEF Contents
    <3>2. \A m \in 1..SectorLen : buf'[m] = unit \/ buf'[m] = buf[m]
      BY <2>4
    <3> QED BY <1>3, <1>4, <2>1, <3>1, <3>2
  <2> QED BY <1>6, <2>3, <2>4
<1>10. /\ file' \in Seq(Contents) /\ answered' \in Seq(0..SectorLen)
       /\ file' = file \/ (Len(file) < room /\ file' = Append(file, buf'))
  <2>1. Append(answered, n) \in Seq(0..SectorLen)
    BY <1>1, AppendProperties
  <2>2. Append(file, buf') \in Seq(Contents)
    BY <1>1, <1>9, AppendProperties
  <2> QED BY <1>1, <1>6, <2>1, <2>2
<1>11. TypeOK'
  <2>1. sent' \subseteq {"identify", "init", "readone", "readram", "entry",
                        "detach"}
    BY <1>8 DEF IInv, TypeOK
  <2>2. i' \in Words
    BY <1>1, <1>2, <1>7 DEF Words
  <2> QED BY <1>6, <1>7, <1>9, <1>10, <2>1, <2>2 DEF IInv, TypeOK
<1>12. StageInv'
  BY <1>2, <1>6, <1>7 DEF IInv, StageInv, Started, OutOfRam
<1>13. SentInv'
  <2>1. fw.actions /\ "detach" \notin sent
    BY <1>2 DEF IInv, SentInv, CleanEnd
  <2> QED BY <1>7, <1>8, <2>1 DEF SentInv, CleanEnd
<1>14. SizeInv'
  <2>1. HeaderAt(first)' = HeaderAt(first)
    BY <1>6, <1>7 DEF HeaderAt
  <2> QED BY <1>6, <1>7, <2>1 DEF IInv, SizeInv
(* The history grows behind what is in the file.                           *)
<1>15. /\ Len(answered) \in Nat /\ k = Len(answered) + 1
       /\ \A m \in 1..Len(file) : m \in 1..Len(answered)
       /\ \A m \in 1..Len(answered) : answered'[m] = answered[m]
       /\ answered' = answered \/
             (Len(answered') = k /\ answered'[k] = n)
  <2>1. Len(answered) \in Nat /\ k = Len(answered) + 1
    BY <1>1, <1>3, LenProperties
  <2>2. \A m \in 1..Len(file) : m \in 1..Len(answered)
    BY <1>1, <1>3, <2>1
  <2>3. /\ Len(Append(answered, n)) = Len(answered) + 1
        /\ \A m \in 1..Len(answered) : Append(answered, n)[m] = answered[m]
        /\ Append(answered, n)[Len(answered) + 1] = n
    BY <1>1, AppendProperties
  <2> QED BY <1>6, <2>1, <2>2, <2>3
<1>16. ASSUME file' = file
       PROVE  FileIsPrefix' /\ RamInRange' /\ DoneIsComplete'
  <2>1. FileIsPrefix'
    <3>1. \A m \in 1..Len(file) : answered'[m] = answered[m]
      BY <1>15
    <3>2. Area' = Area
      BY <1>7 DEF Area
    <3> QED BY <1>6, <1>16, <3>1, <3>2 DEF IInv, FileIsPrefix
  <2>2. RamInRange' /\ DoneIsComplete'
    BY <1>2, <1>6, <1>7, <1>16
       DEF IInv, StageInv, RamInRange, DoneIsComplete
  <2> QED BY <2>1, <2>2
<1>17. ASSUME Len(file) < room, file' = Append(file, buf')
       PROVE  FileIsPrefix' /\ RamInRange' /\ DoneIsComplete'
  <2>1. k = Len(file) + 1 /\ k \in Nat /\ i - first <= room
    BY <1>1, <1>3, <1>17
  <2>2. /\ Len(file') = k /\ file'[k] = buf'
        /\ \A m \in 1..Len(file) : file'[m] = file[m]
    BY <1>1, <1>9, <1>17, <2>1, AppendProperties
  <2>3. file' # file
    BY <1>1, <2>1, <2>2
  <2>4. /\ buf' = [m \in 1..SectorLen |-> IF m <= n THEN unit ELSE buf[m]]
        /\ answered'[k] = n
    <3>1. answered' = Append(answered, n)
      BY <1>6, <2>3
    <3>2. Append(answered, n)[Len(answered) + 1] = n
      BY <1>1, AppendProperties
    <3> QED BY <1>6, <1>15, <2>3, <3>1, <3>2
  <2>5. FileIsPrefix'
    <3> SUFFICES ASSUME NEW j \in 1..Len(file'), NEW m \in 1..SectorLen
                 PROVE  file'[j][m] =
                          IF m <= answered'[j]
                            THEN [area |-> Area, sector |-> first + j - 1]
                            ELSE IF j = 1 THEN Junk ELSE file'[j-1][m]
      BY <1>6, <1>7 DEF FileIsPrefix, Area
    <3>1. CASE j \in 1..Len(file)
      <4>1. file[j][m] = IF m <= answered[j]
                           THEN [area |-> Area, sector |-> first + j - 1]
                           ELSE IF j = 1 THEN Junk ELSE file[j-1][m]
        BY <3>1 DEF IInv, FileIsPrefix
      <4>2. answered'[j] = answered[j]
        BY <1>15, <3>1
      <4>3. j # 1 => file'[j-1] = file[j-1]
        <5>1. j # 1 => j - 1 \in 1..Len(file)
          BY <1>1, <3>1
        <5> QED BY <2>2, <5>1
      <4> QED BY <2>2, <3>1, <4>1, <4>2, <4>3
    <3>2. CASE j = k
      <4>1. file'[j][m] = IF m <= n THEN unit ELSE buf[m]
        BY <2>2, <2>4, <3>2
      <4>2. answered'[j] = n /\ first + j - 1 = i
        <5>1. first + k - 1 = i
          BY <1>1
        <5> QED BY <2>4, <3>2, <5>1
      <4>3. buf[m] = IF j = 1 THEN Junk ELSE file'[j-1][m]
        <5>1. file = <<>> <=> j = 1
          BY <1>1, <2>1, <3>2, EmptySeq
        <5>2. j # 1 => j - 1 = Len(file) /\ j - 1 \in 1..Len(file)
          BY <1>1, <2>1, <3>2
        <5>3. buf = IF file = <<>> THEN [x \in 1..SectorLen |-> Junk]
                                   ELSE file[Len(file)]
          BY <1>3, <2>1
        <5>4. CASE j = 1
          BY <5>1, <5>3, <5>4
        <5>5. CASE j # 1
          BY <2>2, <5>1, <5>2, <5>3, <5>5
        <5> QED BY <5>4, <5>5
      <4> QED BY <4>1, <4>2, <4>3
    <3>3. j \in 1..Len(file) \/ j = k
      BY <1>1, <2>1, <2>2
    <3> QED BY <3>1, <3>2, <3>3
  <2>6. RamInRange'
    <3>1. \A j \in 1..Len(file') : j \in 1..Len(file) \/ j = k
      BY <1>1, <2>1, <2>2
    <3> QED BY <1>7, <1>9, <2>2, <3>1 DEF IInv, RamInRange
  <2>7. DoneIsComplete'
    BY <1>2, <1>6 DEF IInv, StageInv, DoneIsComplete
  <2> QED BY <2>5, <2>6, <2>7
<1>18. LoopInv'
  <2> SUFFICES ASSUME pc' = "loop" PROVE LoopInv'
    BY DEF LoopInv
  <2>1. /\ i' = i + 1 /\ answered' = Append(answered, n)
        /\ file' = IF Len(file) < room THEN Append(file, buf') ELSE file
    BY <1>6
  <2>2. i' >= first' /\ i' <= Add(first, size)' /\ i' - first' = k
    BY <1>1, <1>2, <1>3, <1>6, <2>1 DEF Add
  <2>3. Len(answered') = k
    <3>1. Len(Append(answered, n)) = Len(answered) + 1
      BY <1>1, AppendProperties
    <3> QED BY <1>15, <2>1, <3>1
  <2>4. Len(file') = IF k <= room THEN k ELSE room
    <3>1. Len(Append(file, buf')) = Len(file) + 1
      BY <1>1, <1>9, AppendProperties
    <3> QED BY <1>1, <1>3, <2>1, <3>1
  <2>5. k <= room => file' # <<>> /\ buf' = file'[Len(file')]
    <3>1. k <= room => file' = Append(file, buf')
      BY <1>1, <1>3, <2>1
    <3>2. /\ Append(file, buf') # <<>>
          /\ Append(file, buf')[Len(Append(file, buf'))] = buf'
      BY <1>1, <1>9, AppendProperties
    <3> QED BY <3>1, <3>2
  <2> QED BY <1>3, <1>6, <1>7, <1>9, <2>2, <2>3, <2>4, <2>5 DEF LoopInv
<1> QED BY <1>10, <1>11, <1>12, <1>13, <1>14, <1>16, <1>17, <1>18 DEF IInv

LEMMA InvNext == IInv /\ [Next]_vars => IInv'
<1> SUFFICES ASSUME IInv, [Next]_vars PROVE IInv'
  OBVIOUS
<1>1. CASE UNCHANGED vars
  <2> USE <1>1 DEF IInv, vars, setup
  <2>1. TypeOK' /\ StageInv' /\ SentInv' /\ LoopInv'
    BY DEF TypeOK, StageInv, Started, OutOfRam, SentInv, CleanEnd, LoopInv
  <2> QED BY <2>1, FileUntouched
<1>2. CASE Next
  BY <1>2, InvOpen, InvInitAct, InvSearch, InvQueries, InvOpenFile, InvRange,
     InvReadSector, InvLoopDone, InvExit DEF Next
<1> QED BY <1>1, <1>2

-----------------------------------------------------------------------------
(* What FwSize makes of a directory whose files lie apart: where the last  *)
(* of them ends.                                                           *)
FileEnd(item) == item.offset + (item.length + SectorLen - 1) \div SectorLen
Before(a, b) == a.offset < b.offset /\ FileEnd(a) <= b.offset

LEMMA EndFacts ==
    ASSUME NEW dir \in Seq(Items), NEW k \in 1..Len(dir)
    PROVE  FileEnd(dir[k]) \in Nat /\ dir[k].offset <= FileEnd(dir[k])
<1>1. dir[k].offset \in Nat /\ dir[k].length \in Nat
  BY ItemFacts
<1>2. dir[k].length + SectorLen - 1 \in Nat
  BY <1>1, WordFacts
<1>3. (dir[k].length + SectorLen - 1) \div SectorLen \in Nat
  BY <1>2, Divided
<1> QED BY <1>1, <1>3 DEF FileEnd

LEMMA SizeCoversFiles ==
    ASSUME NEW dir \in Seq(Items),
           \A k \in 1..Len(dir) : dir[k].used =>
               /\ dir[k].offset > 0 /\ FileEnd(dir[k]) < Word
               /\ dir[k].length + SectorLen - 1 < Word,
           \A k, m \in 1..Len(dir) : dir[k].used /\ dir[m].used =>
               k = m \/ Before(dir[k], dir[m]) \/ Before(dir[m], dir[k])
    PROVE  \A k \in 1..Len(dir) : dir[k].used => FileEnd(dir[k]) <= FwSize(dir)
<1> SUFFICES ASSUME NEW k \in 1..Len(dir), dir[k].used
             PROVE  FileEnd(dir[k]) <= FwSize(dir)
  OBVIOUS
<1>1. k \in Counted(dir)
  BY DEF Counted
<1>2. PICK m \in Counted(dir) :
          /\ LastFile(dir) = dir[m]
          /\ \A n \in Counted(dir) : dir[n].offset <= dir[m].offset
  BY <1>1, LastFileFacts
<1>3. /\ m \in 1..Len(dir) /\ dir[m].used
      /\ dir[m].offset \in Nat /\ dir[k].offset \in Nat
      /\ dir[m].length \in Nat /\ dir[k].length \in Nat
      /\ dir[m].offset \in Words /\ dir[m].length \in Words
  BY ItemFacts DEF Counted
<1>4. FileEnd(dir[m]) = FwSize(dir)
  <2> DEFINE n == dir[m].length + SectorLen - 1
  <2>1. n \in Nat /\ SectorLen - 1 \in Words /\ n < Word
    BY <1>3, WordFacts, WordAssumption DEF Words
  <2>2. Add(dir[m].length, SectorLen - 1) = n
    <3>1. dir[m].length + (SectorLen - 1) = n
      BY <1>3, WordFacts
    <3> QED BY <1>3, <2>1, <3>1, WordSums
  <2>3. Sectors(dir[m].length) = n \div SectorLen /\ n \div SectorLen \in Nat
    <3>1. n \div SectorLen \in Nat
      BY <2>1, Divided
    <3> QED BY <2>2, <3>1 DEF Sectors
  <2>4. FileEnd(dir[m]) = dir[m].offset + Sectors(dir[m].length)
    BY <2>3 DEF FileEnd
  <2>5. FileEnd(dir[m]) < Word
    BY <1>3
  <2>6. Add(dir[m].offset, Sectors(dir[m].length)) = FileEnd(dir[m])
    <3>1. Sectors(dir[m].length) \in Words
      BY <1>3, <2>3, <2>4, <2>5, WordFacts DEF Words
    <3> QED BY <1>3, <2>4, <2>5, <3>1, WordSums
  <2> QED BY <1>2, <2>6 DEF FwSize
<1>5. k = m \/ Before(dir[k], dir[m])
  <2>1. dir[k].offset <= dir[m].offset
    BY <1>1, <1>2
  <2>2. ~Before(dir[m], dir[k])
    BY <1>3, <2>1 DEF Before
  <2> QED BY <1>3, <2>2
<1>6. dir[m].offset <= FileEnd(dir[m]) /\ FileEnd(dir[m]) \in Nat
      /\ FileEnd(dir[k]) \in Nat
  BY <1>3, EndFacts
<1> QED BY <1>3, <1>4, <1>5, <1>6 DEF Before

LEMMA InvCovers == IInv => DumpCoversFiles
<1> SUFFICES ASSUME IInv PROVE DumpCoversFiles
  OBVIOUS
<1> DEFINE dir == HeaderAt(first).dir
           files == {k \in 1..Len(dir) : dir[k].used}
<1> SUFFICES ASSUME printed = "done", app.cmd = "dumpraw", app.logical,
                    ~guessed, file # <<>>, size <= room,
                    \A k \in files : /\ dir[k].offset > 0
                                     /\ first + FileEnd(dir[k]) < Word
                                     /\ dir[k].length + SectorLen - 1 < Word,
                    \A k, m \in files :
                        k = m \/ Before(dir[k], dir[m]) \/ Before(dir[m], dir[k])
             PROVE  \A k \in files : FileEnd(dir[k]) <= Len(file)
  BY DEF DumpCoversFiles, FileEnd, Before
<1>1. /\ dir \in Seq(Items) /\ first \in Nat /\ size \in Nat /\ Word \in Nat
      /\ room \in Nat
  BY HeaderFacts, WordFacts, WordAssumption DEF IInv, TypeOK
<1>2. Len(file) # 0
  BY EmptySeq, LenProperties DEF IInv, TypeOK
<1>3. Len(file) = size /\ size = FwSize(dir)
  BY <1>1, <1>2 DEF IInv, DoneIsComplete, SizeInv
<1>4. \A k \in files : FileEnd(dir[k]) < Word
  <2>1. \A k \in files : FileEnd(dir[k]) \in Nat
    BY <1>1, EndFacts
  <2> QED BY <1>1, <2>1
<1> HIDE DEF dir
<1>5. \A k \in files : FileEnd(dir[k]) <= FwSize(dir)
  BY <1>1, <1>4, SizeCoversFiles
<1> QED BY <1>3, <1>5

-----------------------------------------------------------------------------
(* The invariant holds of every state the program reaches.                 *)
LEMMA Invariance == Spec => []IInv
  BY InvInit, InvNext, PTL DEF Spec

(* Every variable of a session keeps its type: no sum leaves a word.       *)
THEOREM TypeCorrect == Spec => []TypeOK
<1>1. IInv => TypeOK
  BY DEF IInv
<1> QED BY <1>1, Invariance, PTL

(* Wherever a session stops, the file has the sectors from the first one   *)
(* on, in order and without a gap, each as far as it was answered and from *)
(* there on as the one before it.                                          *)
THEOREM PrefixKept == Spec => []FileIsPrefix
<1>1. IInv => FileIsPrefix
  BY DEF IInv
<1> QED BY <1>1, Invariance, PTL

(* "done." is for all the sectors of the range, or those the disk takes;   *)
(* or for none, when the end of the range wraps.                           *)
THEOREM DoneCorrect == Spec => []DoneIsComplete
<1>1. IInv => DoneIsComplete
  BY DEF IInv
<1> QED BY <1>1, Invariance, PTL

(* A raw dump holds every file of the firmware whose header it could read. *)
THEOREM DumpCovers == Spec => []DumpCoversFiles
  BY InvCovers, Invariance, PTL

(* RAM is never read beyond its limit: a sum that wraps in the range check *)
(* wraps in the bound of the loop as well.                                 *)
THEOREM RamRespected == Spec => []RamInRange
<1>1. IInv => RamInRange
  BY DEF IInv
<1> QED BY <1>1, Invariance, PTL

(* At the end the file is closed, and the device detached as asked, after  *)
(* everything else it was sent.                                            *)
THEOREM EndIsClean == Spec => []CleanEnd
<1>1. IInv => CleanEnd
  BY DEF IInv, SentInv
<1> QED BY <1>1, Invariance, PTL

(* Only a device that identified itself is sent a firmware command.        *)
THEOREM OthersUntouched == Spec => []OnlyActionsDevices
<1>1. IInv => OnlyActionsDevices
  BY DEF IInv, SentInv, OnlyActionsDevices
<1> QED BY <1>1, Invariance, PTL
===============================================================================
