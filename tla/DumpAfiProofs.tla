----------------------------- MODULE DumpAfiProofs -----------------------------
(***************************************************************************)
(* Proofs about DumpAfi, for every device, every size of the words, the    *)
(* header, a sector and the members, and every point of failure.           *)
(***************************************************************************)
EXTENDS DumpAfi, AfiContainerProofs

(* What the file begins with, and the entries of the directory in the end. *)
Base == Zeros(HeaderLen) \o Cells(0, BrecLen)
Brec == [type |-> "B", offset |-> HeaderLen, length |-> BrecLen,
         checksum |-> Checksum(Cells(0, BrecLen))]
Image == [type |-> "I", offset |-> HeaderLen + BrecLen, length |-> ImageLength,
          checksum |-> checksum]
SysinfoOffset == (HeaderLen + BrecLen + ImageLength) % Width
Sysinfo == [type |-> " ", offset |-> SysinfoOffset, length |-> SysinfoLen,
            checksum |-> Checksum(Cells(Word, SysinfoLen))]

(* Where the loop ends, a range that wraps where it began.                 *)
ImageEnd == IF NoWrap THEN first + size ELSE first

(* img is what was read of the firmware, and the end of the file.          *)
Reads(img) ==
    /\ Len(img) = (i - first) * SectorLen
    /\ Checksum(img) = checksum
    /\ file = Base \o img

(* img is what a complete file has between boot record and sysinfo.        *)
Holds(img) ==
    /\ Len(img) = size * SectorLen
    /\ Checksum(img) = checksum
    /\ ~NoWrap => img = Zeros(size * SectorLen)
    /\ file = (Base \o img) \o Cells(Word, SysinfoLen)

(* The four directories a file can have, and what is behind the header.    *)
Empty == dir = <<>> /\ printed = "nothing"
Started ==
    /\ dir = <<Brec>> /\ printed = "nothing"
    /\ \E rest \in Seq(Nat) : file = Base \o rest
Imaged ==
    /\ dir = <<Brec, Image>> /\ printed = "nothing"
    /\ i = ImageEnd
    /\ \E img \in Seq(Nat) : Reads(img)
Complete ==
    /\ dir = <<Brec, Image, Sysinfo>>
    /\ i = ImageEnd
    /\ ~Overwrites(size) => \E rest \in Seq(Nat) : file = Base \o rest
    /\ Fits => \E img \in Seq(Nat) : Holds(img)

LoopInv ==
    /\ dir = <<Brec>> /\ printed = "nothing"
    /\ first <= i /\ i <= ImageEnd
    /\ pos = Len(file)
    /\ i # first => Len(buf) = SectorLen
    /\ \E img \in Seq(Nat) : Reads(img)

StageInv ==
    /\ header = dir
    /\ size \in {0, fw.main, fw.altSize}
    /\ Empty \/ Started \/ Imaged \/ Complete
    /\ pc \in {"start", "init", "brec"} => Empty
    /\ pc \in {"start", "init", "brec", "search", "size"} => size = 0
    /\ pc = "brec" => file = Zeros(HeaderLen)
    /\ pc \in {"search", "size"} => Started /\ file = Base
    /\ pc = "image" => LoopInv
    /\ pc = "sysinfo" => Imaged

-----------------------------------------------------------------------------
(* What the constants and the pieces of the file are.                      *)
LEMMA Sizes ==
    /\ HeaderLen \in Nat /\ BrecLen \in Nat /\ SysinfoLen \in Nat
    /\ SectorLen \in Nat /\ Width \in Nat \ {0}
    /\ HeaderLen + BrecLen + SysinfoLen < Width
    /\ Slots \in Nat /\ Slots >= 3
    /\ Word \in Nat \ {0} /\ 0 \in Words /\ Word - 1 \in Words
    /\ SearchFrom \in Words /\ SearchTo \in Words
    /\ Words \subseteq Nat
<1>1. /\ HeaderLen \in Nat /\ Width \in Nat /\ HeaderLen < Width /\ Slots \in Nat
  BY ContainerAssumption
<1>2. /\ BrecLen \in Nat /\ SysinfoLen \in Nat /\ SectorLen \in Nat
      /\ HeaderLen + BrecLen + SysinfoLen < Width /\ Slots >= 3
      /\ Word \in Nat /\ SearchFrom \in Words /\ SearchTo \in Words
  BY DumpAssumption
<1>3. Word # 0
  BY <1>2 DEF Words
<1> QED BY <1>1, <1>2, <1>3 DEF Words

LEMMA CellsFacts ==
    ASSUME NEW s \in Nat, NEW n \in Nat
    PROVE  Cells(s, n) \in Seq(Nat) /\ Len(Cells(s, n)) = n
<1>1. Cells(s, n) \in [1..n -> Nat]
  BY DEF Cells
<1> QED BY <1>1, TableIsSeq

LEMMA BaseFacts ==
    /\ Zeros(HeaderLen) \in Seq(Nat) /\ Len(Zeros(HeaderLen)) = HeaderLen
    /\ Cells(0, BrecLen) \in Seq(Nat) /\ Len(Cells(0, BrecLen)) = BrecLen
    /\ Cells(Word, SysinfoLen) \in Seq(Nat)
    /\ Len(Cells(Word, SysinfoLen)) = SysinfoLen
    /\ Base \in Seq(Nat) /\ Len(Base) = HeaderLen + BrecLen
<1>1. /\ Zeros(HeaderLen) \in Seq(Nat) /\ Len(Zeros(HeaderLen)) = HeaderLen
  BY Sizes, ZerosFacts
<1>2. /\ Cells(0, BrecLen) \in Seq(Nat) /\ Len(Cells(0, BrecLen)) = BrecLen
      /\ Cells(Word, SysinfoLen) \in Seq(Nat)
      /\ Len(Cells(Word, SysinfoLen)) = SysinfoLen
  BY Sizes, CellsFacts
<1>3. /\ Base \in Seq(Nat)
      /\ Len(Base) = Len(Zeros(HeaderLen)) + Len(Cells(0, BrecLen))
  BY <1>1, <1>2, ConcatFacts DEF Base
<1> QED BY <1>1, <1>2, <1>3

(* Rewriting the header of a file that begins with boot record or header.  *)
LEMMA HeaderKept ==
    /\ WriteAt(Zeros(HeaderLen), 0, Zeros(HeaderLen)) = Zeros(HeaderLen)
    /\ \A rest \in Seq(Nat) :
          WriteAt(Base \o rest, 0, Zeros(HeaderLen)) = Base \o rest
<1>1. WriteAt(Zeros(HeaderLen) \o <<>>, 0, Zeros(HeaderLen))
         = Zeros(HeaderLen) \o <<>>
  BY Sizes, EmptySeq, HeaderRewritten
<1>2. Zeros(HeaderLen) \o <<>> = Zeros(HeaderLen)
  BY BaseFacts, ConcatEmptySeq
<1>3. ASSUME NEW rest \in Seq(Nat)
      PROVE  WriteAt(Base \o rest, 0, Zeros(HeaderLen)) = Base \o rest
  <2>1. Base \o rest = Zeros(HeaderLen) \o (Cells(0, BrecLen) \o rest)
    <3>1. Zeros(HeaderLen) \in Seq(Nat) /\ Cells(0, BrecLen) \in Seq(Nat)
      BY BaseFacts
    <3>2. ASSUME NEW a \in Seq(Nat), NEW b \in Seq(Nat)
          PROVE  (a \o b) \o rest = a \o (b \o rest)
      BY ConcatAssociative
    <3> QED BY <3>1, <3>2, Zenon DEF Base
  <2>2. Cells(0, BrecLen) \o rest \in Seq(Nat)
    BY BaseFacts, ConcatFacts
  <2>3. \A r \in Seq(Nat) : WriteAt(Zeros(HeaderLen) \o r, 0, Zeros(HeaderLen))
                              = Zeros(HeaderLen) \o r
    BY Sizes, HeaderRewritten
  <2> QED BY <2>1, <2>2, <2>3, Zenon
<1> QED BY <1>1, <1>2, <1>3, Zenon

(* The bound of the loop, as a word and as a number.                       *)
LEMMA LoopEnds ==
    ASSUME first \in Words, size \in Words
    PROVE  /\ LoopEnd \in Words /\ first \in Nat /\ size \in Nat
           /\ NoWrap => LoopEnd = first + size
           /\ ~NoWrap => LoopEnd < first
<1>1. first \in Nat /\ first < Word /\ size \in Nat /\ size < Word /\ Word \in Nat
  BY Sizes DEF Words
<1>2. ASSUME NEW a \in Nat, NEW b \in Nat, NEW w \in Nat, a < w, b < w
      PROVE  /\ (a + b) % w \in 0..(w - 1)
             /\ a + b < w => (a + b) % w = a + b
             /\ ~(a + b < w) => (a + b) % w = a + b - w /\ (a + b) % w < a
  BY <1>2
<1> QED BY <1>1, <1>2 DEF LoopEnd, NoWrap, Words

(* The offset behind the members, for each directory.                      *)
LEMMA Offsets ==
    /\ dir = <<>> => afi_offset = HeaderLen
    /\ dir = <<Brec>> => afi_offset = HeaderLen + BrecLen
    /\ dir = <<Brec, Image>> => afi_offset = SysinfoOffset
<1>1. dir = <<>> => afi_offset = HeaderLen
  BY DEF afi_offset
<1>2. ASSUME dir = <<Brec>> PROVE afi_offset = HeaderLen + BrecLen
  <2>1. Last(dir) = Brec /\ dir # <<>>
    BY <1>2 DEF Last
  <2>2. afi_offset = (HeaderLen + BrecLen) % Width
    BY <2>1 DEF afi_offset, Brec
  <2>3. HeaderLen + BrecLen \in Nat /\ HeaderLen + BrecLen < Width
    BY Sizes
  <2> QED BY <2>2, <2>3, Sizes
<1>3. ASSUME dir = <<Brec, Image>> PROVE afi_offset = SysinfoOffset
  <2>1. Last(dir) = Image /\ dir # <<>>
    BY <1>3 DEF Last
  <2> QED BY <2>1 DEF afi_offset, Image, SysinfoOffset
<1> QED BY <1>1, <1>2, <1>3

(* The length of an image, and when it is its own length.                  *)
LEMMA ImageLengths ==
    ASSUME size \in Words
    PROVE  /\ size * SectorLen \in Nat /\ ImageLength \in Nat
           /\ SysinfoOffset \in Nat
           /\ Fits => /\ ImageLength = size * SectorLen
                      /\ SysinfoOffset = HeaderLen + BrecLen + size * SectorLen
           /\ ~Overwrites(size) => HeaderLen + BrecLen <= SysinfoOffset
<1> DEFINE n == size * SectorLen
           h == HeaderLen + BrecLen
<1>1. /\ n \in Nat /\ h \in Nat /\ SysinfoLen \in Nat /\ Width \in Nat \ {0}
      /\ size \in Nat
  BY Sizes
<1> HIDE DEF n, h
<1>2. n % Width \in Nat /\ (h + (n % Width)) % Width \in Nat
  BY <1>1
<1>3. ASSUME h + n + SysinfoLen < Width
      PROVE  n % Width = n /\ (h + (n % Width)) % Width = h + n
  <2>1. n % Width = n
    BY <1>1, <1>3
  <2>2. h + n \in Nat /\ h + n < Width
    BY <1>1, <1>3
  <2> QED BY <1>1, <2>1, <2>2
<1>4. /\ ImageLength = n % Width
      /\ SysinfoOffset = (h + (n % Width)) % Width
      /\ Fits <=> h + n + SysinfoLen < Width
      /\ Overwrites(size) <=> (h + (n % Width)) % Width < h
  BY DEF ImageLength, SysinfoOffset, Fits, Overwrites, n, h
<1>5. ~((h + (n % Width)) % Width < h) => h <= (h + (n % Width)) % Width
  BY <1>1, <1>2
<1> QED BY <1>1, <1>2, <1>3, <1>4, <1>5 DEF n, h

LEMMA EntryTypes ==
    ASSUME size \in Words, checksum \in Nat
    PROVE  Brec \in Entry /\ Image \in Entry /\ Sysinfo \in Entry
<1>1. /\ Checksum(Cells(0, BrecLen)) \in Nat
      /\ Checksum(Cells(Word, SysinfoLen)) \in Nat
  BY BaseFacts, ChecksumType
<1>2. /\ HeaderLen + BrecLen \in Nat /\ ImageLength \in Nat
      /\ SysinfoOffset \in Nat
  BY Sizes, ImageLengths
<1> QED BY <1>1, <1>2, Sizes DEF Brec, Image, Sysinfo, Entry

-----------------------------------------------------------------------------
(* Type correctness and the stages of the dump.                            *)
LEMMA Init0 == Init => TypeOK /\ StageInv
<1> SUFFICES ASSUME Init PROVE TypeOK /\ StageInv
  OBVIOUS
<1>1. <<>> \in Seq(Entry) /\ <<>> \in Seq(Nat)
  BY EmptySeq
<1>2. TypeOK
  BY <1>1, Sizes DEF Init, ContainerInit, TypeOK
<1>3. StageInv
  BY DEF Init, ContainerInit, StageInv, Empty
<1> QED BY <1>2, <1>3

(* A step that leaves the file and what was counted alone.                 *)
LEMMA SameFile ==
    ASSUME UNCHANGED <<dir, file, fw, first, size, i, checksum, printed>>
    PROVE  /\ (Empty' <=> Empty) /\ (Started' <=> Started)
           /\ (Imaged' <=> Imaged) /\ (Complete' <=> Complete)
  BY DEF Empty, Started, Imaged, Complete, Reads, Holds, Brec, Image, Sysinfo,
         SysinfoOffset, ImageEnd, ImageLength, NoWrap, Fits, Overwrites

(* The first member.                                                       *)
LEMMA BrecStep ==
    ASSUME TypeOK, StageInv, AddBrec
    PROVE  /\ dir' = <<Brec>> /\ header' = <<Brec>> /\ file' = Base
           /\ pos' = HeaderLen
           /\ UNCHANGED <<fw, alt, detach, size, i, buf, checksum, isOpen,
                          printed, detached>>
           /\ first' = 0 /\ pc' \in {"search", "size"}
<1>1. /\ pc = "brec" /\ dir = <<>> /\ file = Zeros(HeaderLen)
      /\ afi_offset = HeaderLen
  BY Offsets DEF AddBrec, StageInv, Empty
<1>2. /\ AddEntry([type |-> "B", offset |-> HeaderLen,
                   length |-> Len(Cells(0, BrecLen)),
                   checksum |-> Checksum(Cells(0, BrecLen))])
      /\ SaveHeader(WriteAt(file, HeaderLen, Cells(0, BrecLen)))
  BY <1>1 DEF AddBrec, afi_add_whole
<1>3. AddEntry(Brec)
  BY <1>2, BaseFacts DEF Brec
<1>4. dir' = <<Brec>>
  <2>1. Len(dir) < Slots /\ Append(dir, Brec) = <<Brec>>
    BY <1>1, Sizes
  <2> QED BY <1>3, <2>1 DEF AddEntry
<1>5. WriteAt(file, HeaderLen, Cells(0, BrecLen)) = Base
  BY <1>1, BaseFacts, WriteAtEnd DEF Base
<1>6. WriteAt(Base, 0, Zeros(HeaderLen)) = Base
  <2>1. Base \o <<>> = Base /\ <<>> \in Seq(Nat)
    BY BaseFacts, ConcatEmptySeq, EmptySeq
  <2> QED BY <2>1, HeaderKept
<1>7. file' = Base /\ header' = dir' /\ pos' = HeaderLen
  BY <1>2, <1>5, <1>6 DEF SaveHeader
<1> QED BY <1>4, <1>7 DEF AddBrec, Goto, setup

(* The image, when the loop is done.                                       *)
LEMMA ImageStep ==
    ASSUME TypeOK, StageInv, AddImage
    PROVE  /\ dir' = <<Brec, Image>> /\ header' = dir'
           /\ UNCHANGED <<fw, alt, detach, first, size, i, buf, checksum, file,
                          isOpen, printed, detached>>
           /\ i = ImageEnd /\ pos' = HeaderLen /\ pc' = "sysinfo" /\ LoopInv
<1>1. pc = "image" /\ LoopInv /\ ~(i < LoopEnd)
  BY DEF AddImage, StageInv
<1>2. dir = <<Brec>> /\ afi_offset = HeaderLen + BrecLen
  BY <1>1, Offsets DEF LoopInv
<1>3. AddEntry(Image) /\ SaveHeader(file)
  BY <1>2 DEF AddImage, afi_add_appended, Image
<1>4. dir' = <<Brec, Image>>
  <2>1. Len(dir) < Slots /\ Append(dir, Image) = <<Brec, Image>>
    <3>1. \A a, b : Len(<<a>>) = 1 /\ Append(<<a>>, b) = <<a, b>>
      BY AppendTuples
    <3>2. 1 < Slots
      BY Sizes
    <3> QED BY <1>2, <3>1, <3>2
  <2> QED BY <1>3, <2>1 DEF AddEntry
<1>5. PICK img \in Seq(Nat) : file = Base \o img
  BY <1>1 DEF LoopInv, Reads
<1>6. WriteAt(file, 0, Zeros(HeaderLen)) = file
  BY <1>5, HeaderKept
<1>7. file' = file /\ header' = dir' /\ pos' = HeaderLen
  BY <1>3, <1>6 DEF SaveHeader
<1>8. i = ImageEnd
  <2>1. /\ first \in Words /\ size \in Words /\ i \in Nat
        /\ first <= i /\ i <= ImageEnd
    BY <1>1, Sizes DEF TypeOK, LoopInv
  <2>2. /\ LoopEnd \in Nat /\ first \in Nat /\ size \in Nat
        /\ NoWrap => LoopEnd = first + size
        /\ ~NoWrap => LoopEnd < first
    BY <2>1, LoopEnds, Sizes
  <2>3. CASE NoWrap
    BY <1>1, <2>1, <2>2, <2>3 DEF ImageEnd
  <2>4. CASE ~NoWrap
    BY <2>1, <2>2, <2>4 DEF ImageEnd
  <2> QED BY <2>3, <2>4
<1> QED BY <1>1, <1>4, <1>7, <1>8 DEF AddImage, Goto, setup, loop

(* A sector of the firmware: the file grows by the buffer.                 *)
LEMMA SectorStep ==
    ASSUME TypeOK, StageInv, DumpSector
    PROVE  /\ buf' \in Seq(Nat) /\ Len(buf') = SectorLen
           /\ file' = file \o buf' /\ file' \in Seq(Nat)
           /\ pos' = Len(file') /\ pos' \in Nat
           /\ checksum' = checksum + Checksum(buf') /\ checksum' \in Nat
           /\ i' = i + 1 /\ i' \in Words /\ LoopInv /\ NoWrap
           /\ i < first + size /\ first <= i /\ i \in Nat /\ first \in Nat
           /\ UNCHANGED <<dir, header, fw, alt, detach, pc, first, size, isOpen,
                          printed, detached>>
<1>1. /\ pc = "image" /\ LoopInv /\ i < LoopEnd
      /\ UNCHANGED <<dir, header, fw, alt, detach, pc, first, size, isOpen,
                     printed, detached>>
      /\ checksum' = checksum + Checksum(buf') /\ i' = i + 1
      /\ file' = WriteAt(file, pos, buf') /\ pos' = pos + Len(buf')
      /\ \E n \in 0..SectorLen : buf' = Answered(n)
  BY DEF DumpSector, StageInv, Write, setup
<1>2. /\ first \in Words /\ size \in Words /\ i \in Words /\ i \in Nat
      /\ file \in Seq(Nat) /\ checksum \in Nat /\ buf \in Seq(Nat)
      /\ pos = Len(file) /\ first <= i /\ (i # first => Len(buf) = SectorLen)
      /\ first \in Nat /\ size \in Nat
  BY <1>1, Sizes DEF TypeOK, LoopInv
<1>3. buf' \in Seq(Nat) /\ Len(buf') = SectorLen
  <2>1. PICK n \in 0..SectorLen : buf' = Answered(n)
    BY <1>1
  <2>2. n \in Nat /\ SectorLen \in Nat
    BY Sizes
  <2>3. ASSUME NEW k \in 1..SectorLen
        PROVE  (IF k <= n THEN i + 1 ELSE IF i = first THEN 0 ELSE buf[k]) \in Nat
    <3>1. i # first => buf[k] \in Nat
      BY <1>2, <2>3, ElementOfSeq
    <3> QED BY <1>2, <3>1
  <2>4. buf' \in [1..SectorLen -> Nat]
    BY <2>1, <2>3 DEF Answered
  <2> QED BY <2>2, <2>4, TableIsSeq
<1>4. file' = file \o buf' /\ file' \in Seq(Nat) /\ Len(file') = Len(file) + Len(buf')
  <2>1. ASSUME NEW b \in Seq(Nat)
        PROVE  /\ WriteAt(file, Len(file), b) = file \o b
               /\ file \o b \in Seq(Nat) /\ Len(file \o b) = Len(file) + Len(b)
    BY <1>2, WriteAtEnd, ConcatFacts
  <2>2. file' = WriteAt(file, Len(file), buf')
    BY <1>1, <1>2
  <2> QED BY <1>3, <2>1, <2>2, Zenon
<1>5. pos' = Len(file') /\ pos' \in Nat
  <2>1. Len(file') \in Nat
    BY <1>4, LenProperties
  <2>2. pos' = Len(file')
    BY <1>1, <1>2, <1>4
  <2> QED BY <2>1, <2>2
<1>6. checksum' \in Nat
  <2>1. Checksum(buf') \in Nat
    BY <1>3, ChecksumType
  <2> QED BY <1>1, <1>2, <2>1
<1>7. NoWrap /\ i < first + size /\ i' \in Words
  <2>1. /\ LoopEnd \in Words /\ (NoWrap => LoopEnd = first + size)
        /\ (~NoWrap => LoopEnd < first)
    BY <1>2, LoopEnds
  <2>2. LoopEnd \in Nat /\ LoopEnd < Word /\ Word \in Nat
    BY <2>1, Sizes DEF Words
  <2>3. NoWrap
    BY <1>1, <1>2, <2>1, <2>2
  <2>4. i + 1 \in 0..(Word - 1)
    BY <1>1, <1>2, <2>2
  <2> QED BY <1>1, <2>1, <2>3, <2>4 DEF Words
<1> QED BY <1>1, <1>2, <1>3, <1>4, <1>5, <1>6, <1>7

(* The sysinfo: behind the image or behind the hole that stands for one.   *)
LEMMA SysinfoStep ==
    ASSUME TypeOK, StageInv, AddSysinfo
    PROVE  /\ dir' = <<Brec, Image, Sysinfo>> /\ header' = dir'
           /\ file' \in Seq(Nat) /\ pos' = HeaderLen
           /\ ~Overwrites(size) => \E rest \in Seq(Nat) : file' = Base \o rest
           /\ Fits => \A img \in Seq(Nat) : Reads(img) =>
                 /\ (NoWrap => Len(img) = size * SectorLen
                               /\ file' = (Base \o img) \o Cells(Word, SysinfoLen))
                 /\ (~NoWrap => img = <<>>
                       /\ file' = (Base \o Zeros(size * SectorLen))
                                      \o Cells(Word, SysinfoLen))
           /\ UNCHANGED <<fw, alt, detach, first, size, i, buf, checksum,
                          isOpen, detached>>
           /\ pc' = "exit" /\ printed' = "ready" /\ Imaged
<1> DEFINE cells == Cells(Word, SysinfoLen)
           w == WriteAt(file, SysinfoOffset, cells)
<1>1. /\ pc = "sysinfo" /\ Imaged /\ dir = <<Brec, Image>>
      /\ afi_offset = SysinfoOffset
      /\ size \in Words /\ first \in Words /\ file \in Seq(Nat)
  BY Offsets DEF AddSysinfo, StageInv, Imaged, TypeOK
<1>2. AddEntry(Sysinfo) /\ SaveHeader(w)
  <2>1. Len(cells) = SysinfoLen
    BY BaseFacts
  <2> QED BY <1>1, <2>1 DEF AddSysinfo, afi_add_whole, Sysinfo
<1>3. dir' = <<Brec, Image, Sysinfo>>
  <2>1. \A a, b, c : Len(<<a, b>>) = 2 /\ Append(<<a, b>>, c) = <<a, b, c>>
    BY AppendTuples
  <2>2. 2 < Slots
    BY Sizes
  <2> QED BY <1>1, <1>2, <2>1, <2>2 DEF AddEntry
<1>4. header' = dir' /\ pos' = HeaderLen /\ file' = WriteAt(w, 0, Zeros(HeaderLen))
  BY <1>2 DEF SaveHeader
<1>5. /\ cells \in Seq(Nat) /\ SysinfoOffset \in Nat /\ size * SectorLen \in Nat
      /\ Fits => SysinfoOffset = HeaderLen + BrecLen + size * SectorLen
      /\ ~Overwrites(size) => HeaderLen + BrecLen <= SysinfoOffset
  BY <1>1, BaseFacts, ImageLengths
<1> HIDE DEF cells
<1>6. file' \in Seq(Nat)
  <2>1. ASSUME NEW f \in Seq(Nat), NEW o \in Nat, NEW d \in Seq(Nat)
        PROVE  WriteAt(f, o, d) \in Seq(Nat)
    BY WriteFacts
  <2>2. w \in Seq(Nat)
    BY <1>1, <1>5, <2>1
  <2>3. 0 \in Nat /\ Zeros(HeaderLen) \in Seq(Nat)
    BY BaseFacts
  <2> HIDE DEF w
  <2> QED BY <1>4, <2>1, <2>2, <2>3, Zenon
<1>7. ASSUME ~Overwrites(size)
      PROVE  \E rest \in Seq(Nat) : file' = Base \o rest
  <2>1. PICK img \in Seq(Nat) : file = Base \o img
    BY <1>1 DEF Imaged, Reads
  <2>2. Len(Base) <= SysinfoOffset /\ Base \in Seq(Nat)
    BY <1>5, <1>7, BaseFacts
  <2>3. PICK t \in Seq(Nat) : w = Base \o t
    <3>1. ASSUME NEW o \in Nat, Len(Base) <= o, NEW d \in Seq(Nat)
          PROVE  \E t \in Seq(Nat) : WriteAt(Base \o img, o, d) = Base \o t
      BY <2>2, <3>1, WriteKeeps
    <3> QED BY <1>5, <2>1, <2>2, <3>1, Zenon
  <2> HIDE DEF w
  <2>4. file' = Base \o t
    BY <1>4, <2>3, HeaderKept
  <2> QED BY <2>4
<1>8. ASSUME Fits, NEW img \in Seq(Nat), Reads(img)
      PROVE  /\ (NoWrap => Len(img) = size * SectorLen /\ file' = (Base \o img) \o cells)
             /\ (~NoWrap => img = <<>>
                      /\ file' = (Base \o Zeros(size * SectorLen)) \o cells)
  <2>1. /\ file = Base \o img /\ Len(img) = (i - first) * SectorLen
        /\ i = ImageEnd /\ first \in Nat /\ size \in Nat
    BY <1>1, <1>8, Sizes DEF Reads, Imaged
  <2>2. Base \in Seq(Nat) /\ Len(Base) = HeaderLen + BrecLen
    BY BaseFacts
  <2>3. /\ Len(file) = HeaderLen + BrecLen + Len(img) /\ Len(img) \in Nat
        /\ HeaderLen + BrecLen \in Nat
    BY <2>1, <2>2, ConcatFacts, Sizes
  <2>4. SysinfoOffset = HeaderLen + BrecLen + size * SectorLen
    BY <1>5, <1>8
  <2>5. ASSUME NEW h \in Nat, NEW m \in Seq(Nat),
               file \o Zeros(h) = Base \o m, SysinfoOffset = Len(file) + h
        PROVE  file' = (Base \o m) \o cells
    <3>1. Len(file) <= SysinfoOffset /\ SysinfoOffset - Len(file) = h
      BY <2>3, <2>5
    <3>2. w = (file \o Zeros(h)) \o cells
      BY <1>1, <1>5, <3>1, WriteBehind
    <3>3. (Base \o m) \o cells = Base \o (m \o cells) /\ m \o cells \in Seq(Nat)
      <4>1. ASSUME NEW b \in Seq(Nat), NEW c \in Seq(Nat)
            PROVE  (b \o m) \o c = b \o (m \o c) /\ m \o c \in Seq(Nat)
        BY ConcatAssociative, ConcatFacts
      <4> QED BY <1>5, <2>2, <4>1, Zenon
    <3>4. w = Base \o (m \o cells)
      BY <2>5, <3>2, <3>3
    <3> HIDE DEF w
    <3> QED BY <1>4, <3>3, <3>4, HeaderKept
  <2>6. ASSUME NoWrap
        PROVE  Len(img) = size * SectorLen /\ file' = (Base \o img) \o cells
    <3>1. i - first = size
      BY <2>1, <2>6 DEF ImageEnd
    <3>2. Len(img) = size * SectorLen
      BY <2>1, <3>1
    <3>3. file \o Zeros(0) = Base \o img
      <4>1. Zeros(0) = <<>>
        BY ZerosFacts, EmptySeq
      <4> QED BY <1>1, <2>1, <4>1, ConcatEmptySeq
    <3>4. SysinfoOffset = Len(file) + 0 /\ 0 \in Nat
      BY <2>3, <2>4, <3>2
    <3> QED BY <2>5, <3>2, <3>3, <3>4
  <2>7. ASSUME ~NoWrap
        PROVE  img = <<>> /\ file' = (Base \o Zeros(size * SectorLen)) \o cells
    <3>1. i - first = 0
      BY <2>1, <2>7 DEF ImageEnd
    <3>2. Len(img) = 0
      <4>1. 0 * SectorLen = 0
        BY Sizes
      <4> QED BY <2>1, <3>1, <4>1, Zenon
    <3>3. img = <<>>
      BY <3>2, EmptySeq
    <3>4. file = Base
      BY <2>1, <2>2, <3>3, ConcatEmptySeq
    <3>5. Zeros(size * SectorLen) \in Seq(Nat)
      BY <1>5, ZerosFacts
    <3>6. SysinfoOffset = Len(file) + size * SectorLen
      BY <2>2, <2>4, <3>4
    <3>7. file \o Zeros(size * SectorLen) = Base \o Zeros(size * SectorLen)
      BY <3>4
    <3> QED BY <1>5, <2>5, <3>3, <3>5, <3>6, <3>7, Zenon
  <2> QED BY <2>6, <2>7
<1> QED BY <1>1, <1>3, <1>4, <1>6, <1>7, <1>8
        DEF AddSysinfo, Goto, setup, loop, cells

LEMMA BaseBefore ==
    ASSUME NEW a \in Seq(Nat), NEW b \in Seq(Nat)
    PROVE  (Base \o a) \o b = Base \o (a \o b)
<1>1. ASSUME NEW c \in Seq(Nat) PROVE (c \o a) \o b = c \o (a \o b)
  BY ConcatAssociative
<1>2. Base \in Seq(Nat)
  BY BaseFacts
<1> QED BY <1>1, <1>2

(* The checksum and the length of what was read, after a sector.           *)
LEMMA ReadsOn ==
    ASSUME NEW img \in Seq(Nat), NEW b \in Seq(Nat), NEW j \in Nat, NEW f \in Nat,
           f <= j, Len(img) = (j - f) * SectorLen, Len(b) = SectorLen
    PROVE  /\ img \o b \in Seq(Nat)
           /\ Len(img \o b) = ((j + 1) - f) * SectorLen
           /\ Checksum(img \o b) = Checksum(img) + Checksum(b)
           /\ (Base \o img) \o b = Base \o (img \o b)
<1>1. /\ img \o b \in Seq(Nat) /\ Len(img \o b) = Len(img) + Len(b)
  BY ConcatFacts
<1>2. ((j + 1) - f) * SectorLen = (j - f) * SectorLen + SectorLen
  <2>1. SectorLen \in Nat /\ j - f \in Nat /\ (j + 1) - f = (j - f) + 1
    BY Sizes
  <2>2. \A m \in Nat, n \in Nat : (m + 1) * n = m * n + n
    OBVIOUS
  <2> QED BY <2>1, <2>2
<1>3. Checksum(img \o b) = Checksum(img) + Checksum(b)
  BY ChecksumConcat
<1>4. (Base \o img) \o b = Base \o (img \o b)
  BY BaseBefore
<1> QED BY <1>1, <1>2, <1>3, <1>4

LEMMA StageNext == TypeOK /\ StageInv /\ [Next]_vars => TypeOK' /\ StageInv'
<1> SUFFICES ASSUME TypeOK, StageInv, [Next]_vars PROVE TypeOK' /\ StageInv'
  OBVIOUS
<1> USE DEF setup, loop, container
<1>a. /\ file \in Seq(Nat) /\ size \in Words /\ first \in Words /\ i \in Words
      /\ checksum \in Nat /\ dir \in Seq(Entry)
  BY DEF TypeOK
<1>b. Brec \in Entry /\ Image \in Entry /\ Sysinfo \in Entry
  BY <1>a, EntryTypes
<1>1. CASE Open
  <2>1. /\ UNCHANGED <<dir, file, header, pos, fw, alt, detach, first, size, i,
                      buf, checksum, isOpen, printed, detached>>
        /\ pc = "start" /\ pc' \in {"init", "end"}
    BY <1>1 DEF Open, Goto
  <2>2. TypeOK'
    BY <2>1 DEF TypeOK
  <2>3. Empty' <=> Empty
    BY <2>1, SameFile
  <2> QED BY <2>1, <2>2, <2>3 DEF StageInv
<1>2. CASE NewFile
  <2>1. /\ UNCHANGED <<fw, alt, detach, first, size, i, buf, checksum, printed,
                      detached>>
        /\ dir' = <<>> /\ header' = <<>> /\ file' = Zeros(HeaderLen)
        /\ pos' = HeaderLen /\ isOpen' = TRUE
        /\ pc = "init" /\ pc' = "brec"
    BY <1>2 DEF NewFile, afi_new_file, Goto
  <2>2. <<>> \in Seq(Entry) /\ Zeros(HeaderLen) \in Seq(Nat) /\ HeaderLen \in Nat
    BY EmptySeq, BaseFacts, Sizes
  <2>3. TypeOK'
    BY <2>1, <2>2 DEF TypeOK
  <2>4. StageInv'
    BY <2>1 DEF StageInv, Empty
  <2> QED BY <2>3, <2>4
<1>3. CASE AddBrec
  <2>1. /\ dir' = <<Brec>> /\ header' = <<Brec>> /\ file' = Base
        /\ pos' = HeaderLen
        /\ UNCHANGED <<fw, alt, detach, size, i, buf, checksum, isOpen,
                       printed, detached>>
        /\ first' = 0 /\ pc' \in {"search", "size"}
    BY <1>3, BrecStep
  <2>2. /\ <<Brec>> \in Seq(Entry) /\ Base \in Seq(Nat) /\ HeaderLen \in Nat
        /\ 0 \in Words
    BY <1>b, BaseFacts, Sizes
  <2>3. TypeOK'
    BY <2>1, <2>2 DEF TypeOK
  <2>4. pc = "brec" /\ Empty /\ size = 0
    BY <1>3 DEF AddBrec, StageInv
  <2>5. Started'
    <3>1. Base = Base \o <<>> /\ <<>> \in Seq(Nat)
      BY BaseFacts, ConcatEmptySeq, EmptySeq
    <3> QED BY <2>1, <2>4, <3>1 DEF Started, Empty, Base, Brec
  <2>6. StageInv'
    BY <2>1, <2>4, <2>5 DEF StageInv, Base, Brec
  <2> QED BY <2>3, <2>6
<1>4. CASE SearchAlternateFw
  <2>1. /\ UNCHANGED <<dir, file, header, pos, fw, alt, detach, size, i, buf,
                       checksum, isOpen, printed, detached>>
        /\ pc = "search" /\ pc' \in {"exit", "size"}
        /\ first' \in {SearchError, NotFound} \cup SearchFrom..(SearchTo - 1)
    BY <1>4 DEF SearchAlternateFw, Goto
  <2>2. first' \in Words
    <3>1. \A x \in SearchFrom..(SearchTo - 1) : x \in Words
      BY Sizes DEF Words
    <3> QED BY <2>1, <3>1, Sizes DEF SearchError, NotFound
  <2>3. TypeOK'
    BY <2>1, <2>2 DEF TypeOK
  <2>4. Started /\ file = Base /\ size = 0
    BY <2>1 DEF StageInv
  <2>5. Started'
    BY <2>1, <2>4 DEF Started, Base, Brec
  <2>6. StageInv'
    BY <2>1, <2>4, <2>5 DEF StageInv, Base
  <2> QED BY <2>3, <2>6
<1>5. CASE GetFwSize
  <2>1. /\ UNCHANGED <<dir, file, header, fw, alt, detach, first, buf, isOpen,
                       printed, detached>>
        /\ pc = "size" /\ pc' = "image" /\ size' \in {0, FirmwareAt(first)}
        /\ i' = first /\ checksum' = 0 /\ pos' = Len(file)
    BY <1>5 DEF GetFwSize, SeekEnd, Goto
  <2>2. /\ fw.main \in Words /\ fw.altSize \in Words /\ 0 \in Words
        /\ size' \in {0, fw.main, fw.altSize}
    BY <2>1, DumpAssumption, Sizes DEF FirmwareAt, TypeOK
  <2>3. TypeOK'
    <3>1. Len(file) \in Nat
      BY <1>a, LenProperties
    <3>2. size' \in Words
      BY <2>2
    <3> QED BY <2>1, <3>1, <3>2 DEF TypeOK
  <2>4. /\ dir = <<Brec>> /\ printed = "nothing" /\ file = Base
    BY <2>1 DEF StageInv, Started
  <2>5. /\ Base = Base \o <<>> /\ <<>> \in Seq(Nat) /\ Len(<<>>) = 0
        /\ Checksum(<<>>) = 0
    <3>1. 0 \in Nat
      OBVIOUS
    <3> QED BY <3>1, BaseFacts, ConcatEmptySeq, EmptySeq, ChecksumZeros
  <2>6. LoopInv'
    <3>1. first \in Nat /\ first - first = 0 /\ 0 * SectorLen = 0
      BY <1>a, Sizes
    <3>2. Reads(<<>>)'
      BY <2>1, <2>4, <2>5, <3>1 DEF Reads, Base
    <3>3. first <= ImageEnd'
      <4>1. size' \in Nat
        BY <2>2, Sizes
      <4>2. ImageEnd' = first + size' \/ ImageEnd' = first
        BY <2>1 DEF ImageEnd, NoWrap
      <4>3. \A a \in Nat, b \in Nat : a <= a + b /\ a <= a
        OBVIOUS
      <4>4. first <= first + size' /\ first <= first
        BY <3>1, <4>1, <4>3
      <4> QED BY <4>2, <4>4
    <3>4. first <= first
      BY <3>1
    <3> QED BY <2>1, <2>4, <2>5, <3>2, <3>3, <3>4 DEF LoopInv, Brec
  <2>7. Started'
    BY <2>1, <2>4, <2>5 DEF Started, Brec, Base
  <2>8. header = dir
    BY DEF StageInv
  <2>9. StageInv'
    BY <2>1, <2>2, <2>6, <2>7, <2>8 DEF StageInv
  <2> QED BY <2>3, <2>9
<1>6. CASE DumpSector
  <2>1. /\ buf' \in Seq(Nat) /\ Len(buf') = SectorLen
        /\ file' = file \o buf' /\ file' \in Seq(Nat)
        /\ pos' = Len(file') /\ pos' \in Nat
        /\ checksum' = checksum + Checksum(buf') /\ checksum' \in Nat
        /\ i' = i + 1 /\ i' \in Words /\ LoopInv /\ NoWrap
        /\ i < first + size /\ first <= i /\ i \in Nat /\ first \in Nat
        /\ UNCHANGED <<dir, header, fw, alt, detach, pc, first, size, isOpen,
                       printed, detached>>
    BY <1>6, SectorStep
  <2>2. TypeOK'
    BY <2>1 DEF TypeOK
  <2>3. PICK img \in Seq(Nat) : Reads(img)
    BY <2>1 DEF LoopInv
  <2>4. PICK m \in Seq(Nat) :
           /\ Len(m) = ((i + 1) - first) * SectorLen
           /\ Checksum(m) = Checksum(img) + Checksum(buf')
           /\ (Base \o img) \o buf' = Base \o m
    <3>1. Len(img) = (i - first) * SectorLen
      BY <2>3 DEF Reads
    <3>2. ASSUME NEW b \in Seq(Nat), Len(b) = SectorLen
          PROVE  /\ img \o b \in Seq(Nat)
                 /\ Len(img \o b) = ((i + 1) - first) * SectorLen
                 /\ Checksum(img \o b) = Checksum(img) + Checksum(b)
                 /\ (Base \o img) \o b = Base \o (img \o b)
      BY <2>1, <3>1, <3>2, ReadsOn
    <3> QED BY <2>1, <3>2
  <2>5. Reads(m)'
    <3>1. Checksum(img) = checksum /\ file = Base \o img
      BY <2>3 DEF Reads
    <3>2. /\ Len(m) = (i' - first') * SectorLen
          /\ Checksum(m) = checksum'
          /\ file' = Base \o m
      BY <2>1, <2>4, <3>1, Zenon
    <3> QED BY <3>2 DEF Reads, Base
  <2>6. LoopInv'
    <3>1. first <= i + 1 /\ i + 1 <= ImageEnd
      <4>1. size \in Nat
        BY <1>a, Sizes
      <4> QED BY <2>1, <4>1 DEF ImageEnd
    <3>2. ImageEnd' = ImageEnd
      BY <2>1 DEF ImageEnd, NoWrap
    <3>3. \E n \in Seq(Nat) : Reads(n)'
      BY <2>5
    <3>4. dir' = <<Brec>>' /\ printed' = "nothing"
      BY <2>1 DEF LoopInv, Brec
    <3> QED BY <2>1, <3>1, <3>2, <3>3, <3>4 DEF LoopInv
  <2>7. Started'
    <3>1. \E n \in Seq(Nat) : file' = Base \o n
      BY <2>5 DEF Reads, Base
    <3> QED BY <2>6, <3>1 DEF Started, LoopInv, Base
  <2>8. pc = "image" /\ header = dir /\ size \in {0, fw.main, fw.altSize}
    BY <1>6 DEF DumpSector, StageInv
  <2>9. StageInv'
    BY <2>1, <2>6, <2>7, <2>8 DEF StageInv
  <2> QED BY <2>2, <2>9
<1>7. CASE AddImage
  <2>1. /\ dir' = <<Brec, Image>> /\ header' = dir'
        /\ UNCHANGED <<fw, alt, detach, first, size, i, buf, checksum, file,
                       isOpen, printed, detached>>
        /\ i = ImageEnd /\ pos' = HeaderLen /\ pc' = "sysinfo" /\ LoopInv
    BY <1>7, ImageStep
  <2>2. <<Brec, Image>> \in Seq(Entry) /\ HeaderLen \in Nat
    BY <1>b, Sizes
  <2>3. TypeOK'
    BY <2>1, <2>2 DEF TypeOK
  <2>4. Imaged'
    <3>1. PICK img \in Seq(Nat) : Reads(img)
      BY <2>1 DEF LoopInv
    <3>2. Reads(img)'
      BY <2>1, <3>1 DEF Reads, Base
    <3>3. <<Brec, Image>>' = <<Brec, Image>> /\ ImageEnd' = ImageEnd
      BY <2>1 DEF Brec, Image, ImageLength, ImageEnd, NoWrap
    <3>4. printed = "nothing"
      BY <2>1 DEF LoopInv
    <3> QED BY <2>1, <3>2, <3>3, <3>4 DEF Imaged
  <2>5. size \in {0, fw.main, fw.altSize}
    BY DEF StageInv
  <2>6. StageInv'
    BY <2>1, <2>4, <2>5 DEF StageInv
  <2> QED BY <2>3, <2>6
<1>8. CASE AddSysinfo
  <2>1. /\ dir' = <<Brec, Image, Sysinfo>> /\ header' = dir'
        /\ file' \in Seq(Nat) /\ pos' = HeaderLen
        /\ ~Overwrites(size) => \E rest \in Seq(Nat) : file' = Base \o rest
        /\ UNCHANGED <<fw, alt, detach, first, size, i, buf, checksum,
                       isOpen, detached>>
        /\ pc' = "exit" /\ printed' = "ready" /\ Imaged
    BY <1>8, SysinfoStep
  <2>2. <<Brec, Image, Sysinfo>> \in Seq(Entry) /\ HeaderLen \in Nat
    BY <1>b, Sizes
  <2>3. TypeOK'
    BY <2>1, <2>2 DEF TypeOK
  <2>4. PICK img \in Seq(Nat) : Reads(img)
    BY <2>1 DEF Imaged
  <2>5. ASSUME Fits PROVE \E m \in Seq(Nat) : Holds(m)'
    <3>0. /\ NoWrap => Len(img) = size * SectorLen
                       /\ file' = (Base \o img) \o Cells(Word, SysinfoLen)
          /\ ~NoWrap => img = <<>>
                       /\ file' = (Base \o Zeros(size * SectorLen))
                                     \o Cells(Word, SysinfoLen)
      BY <1>8, <2>4, <2>5, SysinfoStep
    <3>1. Checksum(img) = checksum
      BY <2>4 DEF Reads
    <3>2. CASE NoWrap
      <4>1. Holds(img)'
        BY <2>1, <3>0, <3>1, <3>2 DEF Holds, NoWrap, Base
      <4> QED BY <4>1
    <3>3. CASE ~NoWrap
      <4>1. size * SectorLen \in Nat
        BY <1>a, ImageLengths
      <4>2. PICK z \in Seq(Nat) :
                z = Zeros(size * SectorLen) /\ Len(z) = size * SectorLen
                /\ Checksum(z) = 0 /\ Checksum(<<>>) = 0
        BY <4>1, ZerosFacts, ChecksumZeros
      <4>3. Holds(z)'
        BY <2>1, <3>0, <3>1, <3>3, <4>2 DEF Holds, NoWrap, Base
      <4> QED BY <4>2, <4>3
    <3> QED BY <3>2, <3>3
  <2>6. Complete'
    <3>1. <<Brec, Image, Sysinfo>>' = <<Brec, Image, Sysinfo>>
      BY <2>1 DEF Brec, Image, Sysinfo, SysinfoOffset, ImageLength
    <3>2. /\ ImageEnd' = ImageEnd /\ (Fits' <=> Fits) /\ i = ImageEnd
          /\ (Overwrites(size)' <=> Overwrites(size))
      BY <2>1 DEF ImageEnd, NoWrap, Fits, Overwrites, Imaged
    <3>3. ~Overwrites(size)' => \E rest \in Seq(Nat) : file' = Base' \o rest
      BY <2>1, <3>2 DEF Base
    <3>4. Fits' => \E m \in Seq(Nat) : Holds(m)'
      BY <2>5, <3>2
    <3> QED BY <2>1, <3>1, <3>2, <3>3, <3>4 DEF Complete
  <2>7. size \in {0, fw.main, fw.altSize}
    BY DEF StageInv
  <2>8. StageInv'
    BY <2>1, <2>6, <2>7 DEF StageInv
  <2> QED BY <2>3, <2>8
<1>9. CASE Fail \/ Exit
  <2>1. /\ UNCHANGED <<dir, file, header, pos, fw, alt, detach, first, size, i,
                      buf, checksum, printed>>
        /\ isOpen' \in BOOLEAN /\ detached' \in BOOLEAN
        /\ pc' \in {"exit", "end"}
    BY <1>9 DEF Fail, Exit, Goto, TypeOK
  <2>2. TypeOK'
    BY <2>1 DEF TypeOK
  <2>3. /\ (Empty' <=> Empty) /\ (Started' <=> Started)
        /\ (Imaged' <=> Imaged) /\ (Complete' <=> Complete)
    BY <2>1, SameFile
  <2>4. StageInv'
    BY <2>1, <2>3 DEF StageInv
  <2> QED BY <2>2, <2>4
<1>10. CASE UNCHANGED vars
  <2>1. UNCHANGED <<dir, file, header, pos, fw, alt, detach, pc, first, size, i,
                    buf, checksum, isOpen, printed, detached>>
    BY <1>10 DEF vars
  <2>2. TypeOK'
    BY <2>1 DEF TypeOK
  <2>3. /\ (Empty' <=> Empty) /\ (Started' <=> Started)
        /\ (Imaged' <=> Imaged) /\ (Complete' <=> Complete)
    BY <2>1, SameFile
  <2>4. LoopInv' <=> LoopInv
    BY <2>1 DEF LoopInv, Brec, ImageEnd, NoWrap, Reads, Base
  <2>5. StageInv'
    BY <2>1, <2>3, <2>4 DEF StageInv, Base
  <2> QED BY <2>2, <2>5
<1> QED BY <1>1, <1>2, <1>3, <1>4, <1>5, <1>6, <1>7, <1>8, <1>9, <1>10 DEF Next

(* The variables keep their types: every count is a word, whatever wraps.  *)
THEOREM TypeCorrect == Spec => []TypeOK
  BY Init0, StageNext, PTL DEF Spec

-----------------------------------------------------------------------------
(* What the file has of an entry that describes a part of it.              *)
LEMMA ContentFound ==
    ASSUME NEW a \in Seq(Nat), NEW b \in Seq(Nat), NEW c \in Seq(Nat),
           NEW e, e.offset = Len(a), e.length = Len(b)
    PROVE  /\ ContentOf((a \o b) \o c, e) = b
           /\ e.offset + e.length <= Len((a \o b) \o c)
           /\ Len((a \o b) \o c) = Len(a) + Len(b) + Len(c)
<1> DEFINE f == (a \o b) \o c
<1>1. /\ a \o b \in Seq(Nat) /\ Len(a \o b) = Len(a) + Len(b)
      /\ Len(a) \in Nat /\ Len(b) \in Nat
  BY ConcatFacts
<1>2. Len(f) = Len(a \o b) + Len(c) /\ Len(c) \in Nat
  BY <1>1, ConcatFacts
<1> HIDE DEF f
<1>3. /\ Len(f) = Len(a) + Len(b) + Len(c)
      /\ Len(a) + Len(b) <= Len(f)
      /\ Len(a) + Len(b) \in Int /\ Len(f) \in Int
  BY <1>1, <1>2
<1>4. Min({Len(a) + Len(b), Len(f)}) = Len(a) + Len(b)
  <2>1. ASSUME NEW x \in Int, NEW y \in Int, x <= y PROVE Min({x, y}) = x
    <3>1. Min({x, y}) = IF x < y THEN x ELSE y
      BY MaxOfTwo
    <3> QED BY <2>1, <3>1
  <2> QED BY <1>3, <2>1
<1>5. ContentOf(f, e) = SubSeq(f, Len(a) + 1, Len(a) + Len(b))
  BY <1>4 DEF ContentOf
<1>6. SubSeq(f, Len(a) + 1, Len(a) + Len(b)) = b
  BY MiddleOfThree DEF f
<1> QED BY <1>3, <1>5, <1>6 DEF f

(* The boot record at the start of the file, and what follows it.          *)
LEMMA BrecFound ==
    ASSUME NEW rest \in Seq(Nat)
    PROVE  /\ ContentOf(Base \o rest, Brec) = Cells(0, BrecLen)
           /\ Brec.offset + Brec.length <= Len(Base \o rest)
<1>1. /\ Brec.offset = Len(Zeros(HeaderLen))
      /\ Brec.length = Len(Cells(0, BrecLen))
  BY BaseFacts DEF Brec
<1> QED BY <1>1, BaseFacts, ContentFound DEF Base

LEMMA ImageFound ==
    ASSUME NEW img \in Seq(Nat), NEW rest \in Seq(Nat),
           NEW e, e.offset = HeaderLen + BrecLen, e.length = Len(img)
    PROVE  /\ ContentOf((Base \o img) \o rest, e) = img
           /\ e.offset + e.length <= Len((Base \o img) \o rest)
           /\ Len((Base \o img) \o rest)
                 = HeaderLen + BrecLen + Len(img) + Len(rest)
<1>1. Base \in Seq(Nat) /\ Len(Base) = HeaderLen + BrecLen
  BY BaseFacts
<1>2. ASSUME NEW a \in Seq(Nat), e.offset = Len(a)
      PROVE  /\ ContentOf((a \o img) \o rest, e) = img
             /\ e.offset + e.length <= Len((a \o img) \o rest)
             /\ Len((a \o img) \o rest) = Len(a) + Len(img) + Len(rest)
  BY <1>2, ContentFound
<1> HIDE DEF Base
<1>3. /\ ContentOf((Base \o img) \o rest, e) = img
      /\ e.offset + e.length <= Len((Base \o img) \o rest)
      /\ Len((Base \o img) \o rest) = Len(Base) + Len(img) + Len(rest)
  <2>1. Base \in Seq(Nat) /\ e.offset = Len(Base)
    BY <1>1
  <2> QED BY <1>2, <2>1, Zenon
<1> QED BY <1>1, <1>3

(* The directory and the file say the same at every stage.                 *)
LEMMA StageImplies ==
    ASSUME TypeOK, StageInv
    PROVE  /\ EntriesDescribeFile /\ ImageBehindMembers
           /\ ReadyIsComplete /\ NoPartialImage
<1>0. /\ size \in Words /\ header = dir /\ HeaderLen \in Nat /\ BrecLen \in Nat
      /\ first \in Nat /\ size \in Nat
  BY Sizes DEF TypeOK, StageInv
<1>1. /\ size * SectorLen \in Nat
      /\ Fits => /\ ImageLength = size * SectorLen
                 /\ SysinfoOffset = HeaderLen + BrecLen + size * SectorLen
  BY <1>0, ImageLengths
<1>a. \A e, f : f = file => Content(e) = ContentOf(f, e)
  BY DEF Content
<1>b. ASSUME NEW rest \in Seq(Nat), file = Base \o rest PROVE Describes(Brec)
  <2>1. Content(Brec) = Cells(0, BrecLen)
    BY <1>a, <1>b, BrecFound
  <2>2. Brec.checksum = Checksum(Cells(0, BrecLen))
    BY DEF Brec
  <2> QED BY <1>b, <2>1, <2>2, BrecFound DEF Describes
<1>c. /\ Tile(<<>>) /\ Tile(<<Brec>>) /\ Tile(<<Brec, Image>>)
      /\ Fits => Tile(<<Brec, Image, Sysinfo>>)
  <2>1. /\ Brec.offset = HeaderLen /\ Brec.length = BrecLen
        /\ Image.offset = HeaderLen + BrecLen /\ Image.length = ImageLength
        /\ Sysinfo.offset = SysinfoOffset
    BY DEF Brec, Image, Sysinfo
  <2>2. ASSUME NEW x, NEW y, NEW z
        PROVE  /\ Tile(<<>>) /\ (x.offset = HeaderLen => Tile(<<x>>))
               /\ x.offset = HeaderLen /\ y.offset = x.offset + x.length
                    => Tile(<<x, y>>)
               /\ x.offset = HeaderLen /\ y.offset = x.offset + x.length
                    /\ z.offset = y.offset + y.length => Tile(<<x, y, z>>)
    <3>1. Tile(<<>>) /\ (x.offset = HeaderLen => Tile(<<x>>))
      BY DEF Tile
    <3>2. x.offset = HeaderLen /\ y.offset = x.offset + x.length
             => Tile(<<x, y>>)
      BY DEF Tile
    <3>3. x.offset = HeaderLen /\ y.offset = x.offset + x.length
             /\ z.offset = y.offset + y.length => Tile(<<x, y, z>>)
      <4>1. \A k \in 1..Len(<<x, y, z>>) : k = 1 \/ k = 2 \/ k = 3
        OBVIOUS
      <4>2. 2 - 1 = 1 /\ 3 - 1 = 2
        OBVIOUS
      <4> QED BY <4>1, <4>2 DEF Tile
    <3> QED BY <3>1, <3>2, <3>3
  <2>3. Fits => SysinfoOffset = (HeaderLen + BrecLen) + ImageLength
    BY <1>1
  <2> QED BY <2>1, <2>2, <2>3
<1>2. CASE Empty
  <2>1. header = <<>> /\ printed = "nothing" /\ pc # "image"
    BY <1>0, <1>2 DEF Empty, StageInv, LoopInv
  <2> QED BY <1>c, <2>1 DEF EntriesDescribeFile, ImageBehindMembers,
                            ReadyIsComplete, NoPartialImage
<1>3. CASE Started
  <2>1. header = <<Brec>> /\ printed = "nothing"
    BY <1>0, <1>3 DEF Started
  <2>2. Describes(Brec)
    BY <1>3, <1>b DEF Started
  <2>3. EntriesDescribeFile
    BY <1>c, <2>1, <2>2 DEF EntriesDescribeFile
  <2>4. NoPartialImage
    BY <2>1 DEF NoPartialImage, Brec
  <2>5. ImageBehindMembers
    <3> SUFFICES ASSUME pc = "image"
                 PROVE  /\ Len(file) = afi_offset + (i - first) * SectorLen
                        /\ pos = Len(file)
      BY DEF ImageBehindMembers
    <3>1. LoopInv
      BY DEF StageInv
    <3>2. PICK img \in Seq(Nat) : Reads(img)
      BY <3>1 DEF LoopInv
    <3>3. afi_offset = HeaderLen + BrecLen
      BY <1>0, <2>1, Offsets
    <3>4. Base \in Seq(Nat) /\ Len(Base) = HeaderLen + BrecLen
      BY BaseFacts
    <3>5. Len(file) = Len(Base) + Len(img)
      BY <3>2, <3>4, ConcatFacts DEF Reads
    <3>6. Len(img) = (i - first) * SectorLen
      BY <3>2 DEF Reads
    <3> QED BY <3>1, <3>3, <3>4, <3>5, <3>6 DEF LoopInv
  <2> QED BY <2>1, <2>3, <2>4, <2>5 DEF ReadyIsComplete
<1>4. CASE Imaged
  <2>1. header = <<Brec, Image>> /\ printed = "nothing" /\ i = ImageEnd
        /\ pc # "image"
    <3>1. \A x, y : <<x, y>> # <<x>>
      OBVIOUS
    <3>2. dir = <<Brec, Image>> /\ dir # <<Brec>>
      BY <1>4, <3>1 DEF Imaged
    <3> QED BY <1>0, <1>4, <3>2 DEF Imaged, StageInv, LoopInv
  <2>2. PICK img \in Seq(Nat) : Reads(img)
    BY <1>4 DEF Imaged
  <2>3. Describes(Brec)
    BY <1>b, <2>2 DEF Reads
  <2>4. ASSUME Fits, NoWrap PROVE Describes(Image)
    <3>1. Len(img) = size * SectorLen
      <4>1. i - first = size
        BY <1>0, <2>1, <2>4 DEF ImageEnd
      <4> QED BY <2>2, <4>1 DEF Reads
    <3>2. Image.offset = HeaderLen + BrecLen /\ Image.length = Len(img)
          /\ Image.checksum = Checksum(img)
      BY <1>1, <2>2, <2>4, <3>1 DEF Image, Reads
    <3>3. file = (Base \o img) \o <<>> /\ <<>> \in Seq(Nat)
      <4>1. Base \o img \in Seq(Nat) /\ file = Base \o img
        BY <2>2, BaseFacts, ConcatFacts DEF Reads
      <4> QED BY <4>1, ConcatEmptySeq, EmptySeq
    <3>4. /\ ContentOf((Base \o img) \o <<>>, Image) = img
          /\ Image.offset + Image.length <= Len((Base \o img) \o <<>>)
      BY <3>2, <3>3, ImageFound
    <3>5. Content(Image) = img /\ Image.offset + Image.length <= Len(file)
      BY <1>a, <3>3, <3>4
    <3> QED BY <3>2, <3>5 DEF Describes
  <2>5. EntriesDescribeFile
    <3> SUFFICES ASSUME Fits
                 PROVE  \A k \in 1..Len(header) :
                          NoWrap \/ printed = "ready" \/ header[k].type # "I"
                             => Describes(header[k])
      BY <1>c, <2>1 DEF EntriesDescribeFile
    <3>1. Image.type = "I"
      BY DEF Image
    <3>2. \A k \in 1..Len(header) : header[k] = Brec \/ header[k] = Image
      BY <2>1
    <3> QED BY <2>1, <2>3, <2>4, <3>1, <3>2
  <2>6. NoPartialImage
    BY <2>1 DEF NoPartialImage, ImageEnd
  <2> QED BY <2>1, <2>5, <2>6 DEF ReadyIsComplete, ImageBehindMembers
<1>5. CASE Complete
  <2>1. header = <<Brec, Image, Sysinfo>> /\ i = ImageEnd /\ pc # "image"
    <3>1. \A x, y, z : <<x, y, z>> # <<x>>
      OBVIOUS
    <3>2. dir = <<Brec, Image, Sysinfo>> /\ dir # <<Brec>>
      BY <1>5, <3>1 DEF Complete
    <3> QED BY <1>0, <1>5, <3>2 DEF Complete, StageInv, LoopInv
  <2>2. ASSUME Fits, NEW img \in Seq(Nat), Holds(img)
        PROVE  /\ Describes(Brec) /\ Describes(Image) /\ Describes(Sysinfo)
               /\ Content(Image) = img
               /\ Image.length = size * SectorLen
               /\ Len(file) = HeaderLen + BrecLen + size * SectorLen + SysinfoLen
    <3> DEFINE cells == Cells(Word, SysinfoLen)
    <3>1. /\ file = (Base \o img) \o cells /\ cells \in Seq(Nat)
          /\ Len(cells) = SysinfoLen /\ Base \in Seq(Nat)
          /\ Len(Base) = HeaderLen + BrecLen
      BY <2>2, BaseFacts DEF Holds
    <3>2. /\ Len(img) = size * SectorLen /\ Checksum(img) = checksum
      BY <2>2 DEF Holds
    <3>3. Sysinfo.checksum = Checksum(cells) /\ Sysinfo.length = SysinfoLen
      BY DEF Sysinfo
    <3> HIDE DEF cells
    <3>4. Describes(Brec)
      <4>1. (Base \o img) \o cells = Base \o (img \o cells)
        BY <3>1, BaseBefore
      <4>2. img \o cells \in Seq(Nat)
        BY <3>1, ConcatFacts
      <4> QED BY <1>b, <3>1, <4>1, <4>2
    <3>5. Image.offset = HeaderLen + BrecLen /\ Image.length = Len(img)
          /\ Image.checksum = Checksum(img)
      BY <1>1, <2>2, <3>2 DEF Image
    <3>6. /\ ContentOf((Base \o img) \o cells, Image) = img
          /\ Image.offset + Image.length <= Len((Base \o img) \o cells)
          /\ Len((Base \o img) \o cells)
                 = HeaderLen + BrecLen + Len(img) + Len(cells)
      BY <3>1, <3>5, ImageFound
    <3>7. Content(Image) = img /\ Describes(Image)
      <4>1. Content(Image) = img /\ Image.offset + Image.length <= Len(file)
        BY <1>a, <3>1, <3>6
      <4> QED BY <3>5, <4>1 DEF Describes
    <3>8. Describes(Sysinfo)
      <4>1. /\ Base \o img \in Seq(Nat) /\ <<>> \in Seq(Nat)
            /\ Len(Base \o img) = Len(Base) + Len(img)
        BY <3>1, ConcatFacts, EmptySeq
      <4>2. Sysinfo.offset = Len(Base \o img)
        BY <1>1, <2>2, <3>1, <3>2, <4>1 DEF Sysinfo
      <4>3. Sysinfo.length = Len(cells)
        BY <3>1, <3>3
      <4>4. /\ ContentOf(((Base \o img) \o cells) \o <<>>, Sysinfo) = cells
            /\ Sysinfo.offset + Sysinfo.length
                  <= Len(((Base \o img) \o cells) \o <<>>)
        <5>1. ASSUME NEW a \in Seq(Nat), NEW b \in Seq(Nat), NEW c \in Seq(Nat),
                     Sysinfo.offset = Len(a), Sysinfo.length = Len(b)
              PROVE  /\ ContentOf((a \o b) \o c, Sysinfo) = b
                     /\ Sysinfo.offset + Sysinfo.length <= Len((a \o b) \o c)
          BY <5>1, ContentFound
        <5> QED BY <3>1, <4>1, <4>2, <4>3, <5>1, Zenon
      <4>5. file = ((Base \o img) \o cells) \o <<>>
        <5>1. (Base \o img) \o cells \in Seq(Nat)
          BY <3>1, <4>1, ConcatFacts
        <5> QED BY <3>1, <5>1, ConcatEmptySeq
      <4>6. Content(Sysinfo) = cells /\ Sysinfo.offset + Sysinfo.length <= Len(file)
        BY <1>a, <4>4, <4>5
      <4> QED BY <3>3, <4>6 DEF Describes
    <3>9. Len(file) = HeaderLen + BrecLen + size * SectorLen + SysinfoLen
      BY <3>1, <3>2, <3>6
    <3> QED BY <3>2, <3>4, <3>5, <3>7, <3>8, <3>9
  <2>3. EntriesDescribeFile
    <3> SUFFICES ASSUME Fits PROVE \A k \in 1..Len(header) : Describes(header[k])
      BY <1>c, <2>1 DEF EntriesDescribeFile
    <3>1. PICK img \in Seq(Nat) : Holds(img)
      BY <1>5 DEF Complete
    <3>2. Describes(Brec) /\ Describes(Image) /\ Describes(Sysinfo)
      BY <2>2, <3>1
    <3>3. \A k \in 1..Len(header) :
             header[k] = Brec \/ header[k] = Image \/ header[k] = Sysinfo
      BY <2>1
    <3> QED BY <3>2, <3>3
  <2>4. NoPartialImage
    BY <2>1 DEF NoPartialImage, ImageEnd
  <2>5. ReadyIsComplete
    <3> SUFFICES ASSUME Fits
                 PROVE  /\ [k \in 1..Len(header) |-> header[k].type]
                              = <<"B", "I", " ">>
                        /\ header[2].length = size * SectorLen
                        /\ Len(file) = HeaderLen + BrecLen + size * SectorLen
                                          + SysinfoLen
                        /\ ~NoWrap => Content(header[2]) = Zeros(size * SectorLen)
      BY DEF ReadyIsComplete
    <3>1. PICK img \in Seq(Nat) : Holds(img)
      BY <1>5 DEF Complete
    <3>2. [k \in 1..Len(header) |-> header[k].type] = <<"B", "I", " ">>
      <4>1. Brec.type = "B" /\ Image.type = "I" /\ Sysinfo.type = " "
        BY DEF Brec, Image, Sysinfo
      <4>2. /\ Len(header) = 3 /\ header[1] = Brec /\ header[2] = Image
            /\ header[3] = Sysinfo
        BY <2>1
      <4>3. [k \in 1..3 |-> header[k].type]
               = <<header[1].type, header[2].type, header[3].type>>
        OBVIOUS
      <4> QED BY <4>1, <4>2, <4>3
    <3>3. header[2] = Image
      BY <2>1
    <3>4. /\ Content(Image) = img /\ Image.length = size * SectorLen
          /\ Len(file) = HeaderLen + BrecLen + size * SectorLen + SysinfoLen
      BY <2>2, <3>1
    <3>5. ~NoWrap => img = Zeros(size * SectorLen)
      BY <3>1 DEF Holds
    <3> QED BY <3>2, <3>3, <3>4, <3>5
  <2> QED BY <2>1, <2>3, <2>4, <2>5 DEF ImageBehindMembers
<1> QED BY <1>2, <1>3, <1>4, <1>5 DEF StageInv

(* After any failure every entry of the header in the file describes what  *)
(* the file holds, and the entries tile it.                                *)
THEOREM EntriesCorrect == Spec => []EntriesDescribeFile
  BY Init0, StageNext, StageImplies, PTL DEF Spec

(* The image is written where its entry will say it is.                    *)
THEOREM ImageInPlace == Spec => []ImageBehindMembers
  BY Init0, StageNext, StageImplies, PTL DEF Spec

(* "AFI file ready." stands for a complete file, and nothing else in it.   *)
THEOREM ReadyCorrect == Spec => []ReadyIsComplete
  BY Init0, StageNext, StageImplies, PTL DEF Spec

(* A started image is in no directory.                                     *)
THEOREM PartialUnlisted == Spec => []NoPartialImage
  BY Init0, StageNext, StageImplies, PTL DEF Spec

-----------------------------------------------------------------------------
(* The dump implements an archive to which members are only added.  What   *)
(* the first n entries of a header h list in a file f.                     *)
View(h, f, n) ==
    [k \in 1..n |-> [type |-> h[k].type, content |-> ContentOf(f, h[k])]]

Harmless == ~Overwrites(fw.main) /\ ~Overwrites(fw.altSize)
Whole == Fits /\ NoWrap

Member(t, c) == [type |-> t, content |-> c]
Member1 == Member("B", Cells(0, BrecLen))
Member3 == Member(" ", Cells(Word, SysinfoLen))

IsBrec(e) == e.type = "B" /\ e.offset = HeaderLen /\ e.length = BrecLen

LEMMA ListedView ==
    Listed = View(header, file, Kept)
  BY DEF Listed, View

LEMMA ListedViewNext ==
    Listed' = View(header', file', Kept')
<1>1. (Listed = View(header, file, Kept))'
  BY ListedView, PTL
<1> QED BY <1>1 DEF View

LEMMA KeptIs ==
    /\ ~Harmless => Kept = 0
    /\ Harmless /\ Whole => Kept = Len(header)
    /\ header = <<>> => Kept = 0
    /\ Harmless /\ header = <<Brec>> => Kept = 1
    /\ Harmless /\ ~Whole /\ Len(header) \in Nat \ {0} => Kept = 1
<1>1. \A n \in Nat : Min({1, n}) = IF 1 < n THEN 1 ELSE n
  BY MaxOfTwo
<1>2. Len(<<>>) = 0 /\ Len(<<Brec>>) = 1
  OBVIOUS
<1>3. Min({1, 0}) = 0 /\ \A n \in Nat \ {0} : Min({1, n}) = 1
  BY <1>1
<1>4. Kept = IF ~Harmless THEN 0 ELSE IF Whole THEN Len(header)
             ELSE Min({1, Len(header)})
  BY DEF Kept, Harmless, Whole
<1> QED BY <1>2, <1>3, <1>4

LEMMA ViewNone ==
    ASSUME NEW h, NEW f PROVE View(h, f, 0) = <<>>
<1>1. 1..0 = {}
  OBVIOUS
<1> QED BY <1>1 DEF View

LEMMA ViewFirst ==
    ASSUME NEW h, IsBrec(h[1]), NEW rest \in Seq(Nat)
    PROVE  View(h, Base \o rest, 1) = <<Member1>>
<1>1. ContentOf(Base \o rest, h[1]) = Cells(0, BrecLen)
  <2>1. h[1].offset = Brec.offset /\ h[1].length = Brec.length
    BY DEF IsBrec, Brec
  <2>2. ContentOf(Base \o rest, h[1]) = ContentOf(Base \o rest, Brec)
    BY <2>1 DEF ContentOf
  <2> QED BY <2>2, BrecFound
<1>2. View(h, Base \o rest, 1)
         = [k \in 1..1 |-> [type |-> h[k].type,
                            content |-> ContentOf(Base \o rest, h[k])]]
  BY DEF View
<1> DEFINE g(k) == [type |-> h[k].type, content |-> ContentOf(Base \o rest, h[k])]
<1>3. g(1) = Member1
  BY <1>1 DEF Member1, Member, IsBrec
<1> HIDE DEF g
<1>4. [k \in 1..1 |-> g(k)] = <<g(1)>>
  OBVIOUS
<1> QED BY <1>2, <1>3, <1>4 DEF g

(* The sector image of a complete file, and what is behind it.             *)
LEMMA ViewMore ==
    ASSUME NEW h, NEW img \in Seq(Nat), NEW rest \in Seq(Nat),
           IsBrec(h[1]), h[2].type = "I", h[2].offset = HeaderLen + BrecLen,
           h[2].length = Len(img)
    PROVE  /\ View(h, (Base \o img) \o rest, 2) = <<Member1, Member("I", img)>>
           /\ h[3].type = " " /\ h[3].offset = HeaderLen + BrecLen + Len(img)
                /\ h[3].length = SysinfoLen /\ rest = Cells(Word, SysinfoLen)
              => View(h, (Base \o img) \o rest, 3)
                    = <<Member1, Member("I", img), Member3>>
<1> DEFINE f == (Base \o img) \o rest
           g(k) == [type |-> h[k].type, content |-> ContentOf(f, h[k])]
<1>1. g(1) = Member1
  <2>1. img \o rest \in Seq(Nat) /\ f = Base \o (img \o rest)
    BY BaseBefore, ConcatFacts
  <2>2. View(h, Base \o (img \o rest), 1) = <<Member1>>
    BY <2>1, ViewFirst
  <2>3. View(h, f, 1)[1] = g(1)
    BY DEF View
  <2> QED BY <2>1, <2>2, <2>3
<1>2. g(2) = Member("I", img)
  BY ImageFound DEF Member
<1>3. ASSUME h[3].type = " ", h[3].offset = HeaderLen + BrecLen + Len(img),
             h[3].length = SysinfoLen, rest = Cells(Word, SysinfoLen)
      PROVE  g(3) = Member3
  <2>1. /\ Base \o img \in Seq(Nat) /\ <<>> \in Seq(Nat)
        /\ Len(Base \o img) = HeaderLen + BrecLen + Len(img)
        /\ Len(rest) = SysinfoLen
    <3>1. /\ Base \in Seq(Nat) /\ Len(Base) = HeaderLen + BrecLen
          /\ Len(rest) = SysinfoLen
      BY <1>3, BaseFacts
    <3>2. Base \o img \in Seq(Nat) /\ Len(Base \o img) = Len(Base) + Len(img)
      BY <3>1, ConcatFacts
    <3> QED BY <3>1, <3>2, EmptySeq
  <2>2. ASSUME NEW a \in Seq(Nat), h[3].offset = Len(a)
        PROVE  ContentOf((a \o rest) \o <<>>, h[3]) = rest
    <3>1. ASSUME NEW b \in Seq(Nat), NEW c \in Seq(Nat), h[3].length = Len(b)
          PROVE  ContentOf((a \o b) \o c, h[3]) = b
      BY <2>2, <3>1, ContentFound
    <3>2. h[3].length = Len(rest)
      BY <1>3, <2>1
    <3> QED BY <2>1, <3>1, <3>2, Zenon
  <2>3. h[3].offset = Len(Base \o img)
    BY <1>3, <2>1
  <2>4. ContentOf(((Base \o img) \o rest) \o <<>>, h[3]) = rest
    BY <2>1, <2>2, <2>3, Zenon
  <2>5. f \o <<>> = f
    <3>1. f \in Seq(Nat)
      BY <2>1, ConcatFacts
    <3> HIDE DEF f
    <3> QED BY <3>1, ConcatEmptySeq
  <2> QED BY <1>3, <2>4, <2>5 DEF Member3, Member
<1>4. \A n : View(h, f, n) = [k \in 1..n |-> g(k)]
  BY DEF View
<1> HIDE DEF g
<1>5. /\ [k \in 1..2 |-> g(k)] = <<g(1), g(2)>>
      /\ [k \in 1..3 |-> g(k)] = <<g(1), g(2), g(3)>>
  OBVIOUS
<1> QED
  <2>1. View(h, f, 2) = <<Member1, Member("I", img)>>
    BY <1>1, <1>2, <1>4, <1>5, Zenon
  <2>2. ASSUME h[3].type = " ", h[3].offset = HeaderLen + BrecLen + Len(img),
               h[3].length = SysinfoLen, rest = Cells(Word, SysinfoLen)
        PROVE  View(h, f, 3) = <<Member1, Member("I", img), Member3>>
    <3>1. g(3) = Member3
      BY <1>3, <2>2
    <3> QED BY <1>1, <1>2, <1>4, <1>5, <3>1, Zenon
  <2> QED BY <2>1, <2>2

(* What the archive shows of each directory.                               *)
LEMMA ShownOf ==
    ASSUME NEW h, NEW f
    PROVE  /\ h = <<Brec>> \/ h = <<Brec, Image>> \/ h = <<Brec, Image, Sysinfo>>
                => IsBrec(h[1])
           /\ h = <<Brec, Image>> => Len(h) = 2
           /\ h = <<Brec, Image, Sysinfo>> => Len(h) = 3
  BY DEF Brec, IsBrec

LEMMA HarmlessSize ==
    ASSUME StageInv, Harmless PROVE ~Overwrites(size)
<1>1. ~Overwrites(0)
  <2>1. /\ 0 * SectorLen = 0 /\ 0 % Width = 0
        /\ HeaderLen + BrecLen \in Nat /\ HeaderLen + BrecLen < Width
    BY Sizes
  <2>2. (HeaderLen + BrecLen + 0) % Width = HeaderLen + BrecLen
    BY <2>1, Sizes
  <2> QED BY <2>1, <2>2 DEF Overwrites
<1> QED BY <1>1 DEF StageInv, Harmless

(* Every step adds one member to those listed, or leaves them alone.       *)
LEMMA Adds ==
    ASSUME NEW a, NEW b, NEW c
    PROVE  /\ Listed = <<>> /\ Listed' = <<a>> => Archive!Next
           /\ Listed = <<a>> /\ Listed' = <<a, b>> => Archive!Next
           /\ Listed = <<a, b>> /\ Listed' = <<a, b, c>> => Archive!Next
<1>1. /\ Len(<<>>) = 0 /\ Len(<<a>>) = 1 /\ Len(<<a, b>>) = 2
      /\ Len(<<a, b, c>>) = 3
  OBVIOUS
<1>2. /\ Append(<<>>, a) = <<a>> /\ Append(<<a>>, b) = <<a, b>>
      /\ Append(<<a, b>>, c) = <<a, b, c>>
  <2>1. Append(<<>>, a) = <<a>>
    OBVIOUS
  <2> QED BY <2>1, AppendTuples
<1>3. /\ <<a>>[0 + 1] = a /\ <<a, b>>[1 + 1] = b /\ <<a, b, c>>[2 + 1] = c
      /\ 1 = 0 + 1 /\ 2 = 1 + 1 /\ 3 = 2 + 1
  OBVIOUS
<1> QED BY <1>1, <1>2, <1>3 DEF Archive!Next, Archive!Add

LEMMA KeptNext ==
    ASSUME fw' = fw
    PROVE  /\ ~Harmless => Kept' = 0
           /\ Harmless /\ Whole' => Kept' = Len(header')
           /\ header' = <<>> => Kept' = 0
           /\ Harmless /\ header' = <<Brec>> => Kept' = 1
           /\ Harmless /\ ~Whole' /\ Len(header') \in Nat \ {0} => Kept' = 1
<1>1. /\ (~Harmless => Kept = 0)'
      /\ (Harmless /\ Whole => Kept = Len(header))'
      /\ (header = <<>> => Kept = 0)'
      /\ (Harmless /\ header = <<Brec>> => Kept = 1)'
      /\ (Harmless /\ ~Whole /\ Len(header) \in Nat \ {0} => Kept = 1)'
  BY KeptIs, PTL
<1>2. Harmless' <=> Harmless
  BY DEF Harmless, Overwrites
<1>3. Brec' = Brec
  BY DEF Brec
<1> QED BY <1>1, <1>2, <1>3

LEMMA ArchiveStep ==
    TypeOK /\ StageInv /\ [Next]_vars => [Archive!Next]_Listed
<1> SUFFICES ASSUME TypeOK, StageInv, [Next]_vars
             PROVE  Listed' = Listed \/ Archive!Next
  OBVIOUS
<1>0. /\ header = dir /\ size \in Words /\ first \in Words
      /\ Listed = View(header, file, Kept)
      /\ Listed' = View(header', file', Kept')
  BY ListedView, ListedViewNext DEF TypeOK, StageInv
<1>1. ASSUME UNCHANGED <<header, file, fw, first, size>> PROVE Listed' = Listed
  <2>1. Kept' = Kept
    BY <1>1 DEF Kept, Fits, NoWrap, Overwrites
  <2> QED BY <1>0, <1>1, <2>1
<1>2. CASE \/ Open \/ Fail \/ Exit \/ UNCHANGED vars
  BY <1>1, <1>2 DEF Open, Fail, Exit, vars, setup, loop, container
(* Before the image is entered the directory is the boot record.           *)
<1>3. CASE SearchAlternateFw \/ GetFwSize
  <2>1. UNCHANGED <<header, file, fw>> /\ pc \in {"search", "size"}
    BY <1>3 DEF SearchAlternateFw, GetFwSize, SeekEnd, setup, loop, container
  <2>2. header = <<Brec>> /\ header' = <<Brec>>
    BY <1>0, <2>1 DEF StageInv, Started
  <2>3. Kept' = Kept
    BY <2>1, <2>2, KeptIs, KeptNext
  <2> QED BY <1>0, <2>1, <2>3
<1>4. CASE NewFile
  <2>1. fw' = fw /\ header = <<>> /\ header' = <<>>
    BY <1>0, <1>4 DEF NewFile, afi_new_file, setup, StageInv, Empty
  <2>2. Kept = 0 /\ Kept' = 0
    BY <2>1, KeptIs, KeptNext
  <2> QED BY <1>0, <2>2, ViewNone
<1>5. CASE AddBrec
  <2>1. fw' = fw /\ header' = <<Brec>> /\ file' = Base /\ header = <<>>
    BY <1>0, <1>5, BrecStep DEF AddBrec, StageInv, Empty
  <2>2. Kept = 0 /\ Listed = <<>>
    BY <1>0, <2>1, KeptIs, ViewNone
  <2>3. CASE ~Harmless
    BY <1>0, <2>1, <2>2, <2>3, KeptNext, ViewNone
  <2>4. CASE Harmless
    <3>1. Kept' = 1
      BY <2>1, <2>4, KeptNext
    <3>2. Base = Base \o <<>> /\ <<>> \in Seq(Nat)
      BY BaseFacts, ConcatEmptySeq, EmptySeq
    <3>3. ASSUME NEW h, h = <<Brec>>
          PROVE  View(h, Base \o <<>>, 1) = <<Member1>>
      BY <3>2, <3>3, ViewFirst DEF IsBrec, Brec
    <3>4. Listed' = <<Member1>>
      BY <1>0, <2>1, <3>1, <3>2, <3>3, Zenon
    <3> QED BY <2>2, <3>4, Adds
  <2> QED BY <2>3, <2>4
<1>6. CASE DumpSector
  <2>1. /\ UNCHANGED <<fw, dir, header, first, size>> /\ LoopInv
    BY <1>6, SectorStep
  <2>2. header = <<Brec>> /\ header' = <<Brec>>
    BY <1>0, <2>1 DEF LoopInv
  <2>3. CASE ~Harmless
    BY <1>0, <2>1, <2>3, KeptIs, KeptNext, ViewNone
  <2>4. CASE Harmless
    <3>1. Kept = 1 /\ Kept' = 1
      BY <2>1, <2>2, <2>4, KeptIs, KeptNext
    <3>2. PICK img \in Seq(Nat) : file = Base \o img
      BY <2>1 DEF LoopInv, Reads
    <3>3. PICK m \in Seq(Nat) : file' = Base \o m
      <4>1. buf' \in Seq(Nat) /\ file' = file \o buf'
        BY <1>6, SectorStep
      <4>2. PICK b \in Seq(Nat) : b = buf'
        BY <4>1
      <4>3. file' = Base \o (img \o b) /\ img \o b \in Seq(Nat)
        BY <3>2, <4>1, <4>2, BaseBefore, ConcatFacts
      <4> QED BY <4>3
    <3>4. IsBrec(<<Brec>>[1])
      BY DEF IsBrec, Brec
    <3>5. ASSUME NEW r \in Seq(Nat)
          PROVE  View(<<Brec>>, Base \o r, 1) = <<Member1>>
      BY <3>4, ViewFirst
    <3> QED BY <1>0, <2>2, <3>1, <3>2, <3>3, <3>5, Zenon
  <2> QED BY <2>3, <2>4
(* The image becomes a member if it is there.                              *)
<1>7. CASE AddImage
  <2>1. /\ header = <<Brec>> /\ header' = <<Brec, Image>>
        /\ UNCHANGED <<fw, file, first, size, i, checksum>>
        /\ i = ImageEnd /\ LoopInv
    BY <1>0, <1>7, ImageStep DEF LoopInv
  <2>2. PICK img \in Seq(Nat) : Reads(img)
    BY <2>1 DEF LoopInv
  <2>3. /\ file = Base \o img /\ file' = file
        /\ (Whole' <=> Whole)
    BY <2>1, <2>2 DEF Reads, Whole, Fits, NoWrap
  <2>4. ASSUME Harmless
        PROVE  /\ Kept = 1 /\ Listed = <<Member1>>
               /\ Whole => Kept' = 2
               /\ ~Whole => Kept' = 1
    <3>1. Kept = 1
      BY <2>1, <2>4, KeptIs
    <3>2. View(<<Brec>>, Base \o img, 1) = <<Member1>>
      <4>1. IsBrec(<<Brec>>[1])
        BY DEF IsBrec, Brec
      <4> QED BY <4>1, ViewFirst
    <3>3. Len(header') = 2
      BY <2>1
    <3>4. (Whole => Kept' = 2) /\ (~Whole => Kept' = 1)
      BY <2>1, <2>3, <2>4, <3>3, KeptNext
    <3> QED BY <1>0, <2>1, <2>3, <3>1, <3>2, <3>4
  <2>5. CASE ~Harmless
    BY <1>0, <2>1, <2>5, KeptIs, KeptNext, ViewNone
  <2>6. CASE Harmless /\ ~Whole
    <3>1. View(<<Brec, Image>>, Base \o img, 1) = <<Member1>>
      <4>1. IsBrec(<<Brec, Image>>[1])
        BY DEF IsBrec, Brec
      <4> QED BY <4>1, ViewFirst
    <3>2. Listed' = View(<<Brec, Image>>, Base \o img, 1)
      BY <1>0, <2>1, <2>3, <2>4, <2>6
    <3> QED BY <2>4, <2>6, <3>1, <3>2
  <2>7. CASE Harmless /\ Whole
    <3>1. Len(img) = size * SectorLen
      <4>1. i - first = size
        BY <1>0, <2>1, <2>7, Sizes DEF ImageEnd, Whole
      <4> QED BY <2>2, <4>1 DEF Reads
    <3>2. ImageLength = Len(img)
      BY <1>0, <2>7, <3>1, ImageLengths DEF Whole
    <3>3. /\ IsBrec(<<Brec, Image>>[1]) /\ <<Brec, Image>>[2] = Image
          /\ Image.type = "I" /\ Image.offset = HeaderLen + BrecLen
          /\ Image.length = Len(img)
      BY <3>2 DEF IsBrec, Brec, Image
    <3>4. View(<<Brec, Image>>, (Base \o img) \o <<>>, 2)
             = <<Member1, Member("I", img)>>
      <4>1. ASSUME NEW h, IsBrec(h[1]), h[2].type = "I",
                   h[2].offset = HeaderLen + BrecLen, h[2].length = Len(img)
            PROVE  View(h, (Base \o img) \o <<>>, 2)
                      = <<Member1, Member("I", img)>>
        <5>1. <<>> \in Seq(Nat)
          BY EmptySeq
        <5> QED BY <4>1, <5>1, ViewMore
      <4> QED BY <3>3, <4>1, Zenon
    <3>5. (Base \o img) \o <<>> = file
      <4>1. Base \o img \in Seq(Nat)
        BY BaseFacts, ConcatFacts
      <4> QED BY <2>3, <4>1, ConcatEmptySeq
    <3>6. Listed' = <<Member1, Member("I", img)>>
      BY <1>0, <2>1, <2>3, <2>4, <2>7, <3>4, <3>5
    <3> QED BY <2>4, <2>7, <3>6, Adds
  <2> QED BY <2>5, <2>6, <2>7
<1>8. CASE AddSysinfo
  <2>1. /\ header = <<Brec, Image>> /\ header' = <<Brec, Image, Sysinfo>>
        /\ UNCHANGED <<fw, first, size, i, checksum>>
        /\ Imaged /\ i = ImageEnd
        /\ ~Overwrites(size) => \E rest \in Seq(Nat) : file' = Base \o rest
    BY <1>0, <1>8, SysinfoStep DEF Imaged
  <2>2. PICK img \in Seq(Nat) : Reads(img)
    BY <2>1 DEF Imaged
  <2>3. file = Base \o img /\ (Whole' <=> Whole)
    BY <2>1, <2>2 DEF Reads, Whole, Fits, NoWrap
  <2>4. /\ Len(header) = 2 /\ Len(header') = 3
        /\ IsBrec(header[1]) /\ IsBrec(header'[1])
    BY <2>1 DEF IsBrec, Brec
  <2>5. CASE ~Harmless
    BY <1>0, <2>1, <2>5, KeptIs, KeptNext, ViewNone
  <2>6. CASE Harmless /\ ~Whole
    <3>1. Kept = 1 /\ Kept' = 1
      BY <2>1, <2>3, <2>4, <2>6, KeptIs, KeptNext
    <3>2. PICK rest \in Seq(Nat) : file' = Base \o rest
      BY <2>1, <2>6, HarmlessSize
    <3>3. ASSUME NEW h, IsBrec(h[1]), NEW r \in Seq(Nat)
          PROVE  View(h, Base \o r, 1) = <<Member1>>
      BY <3>3, ViewFirst
    <3>4. PICK h : h = header'
      OBVIOUS
    <3>5. View(h, Base \o rest, 1) = <<Member1>>
      BY <2>4, <3>3, <3>4, Zenon
    <3>6. View(header, Base \o img, 1) = <<Member1>>
      BY <2>4, <3>3, Zenon
    <3> QED BY <1>0, <2>3, <3>1, <3>2, <3>4, <3>5, <3>6
  <2>7. CASE Harmless /\ Whole
    <3>1. Kept = 2 /\ Kept' = 3
      BY <2>1, <2>3, <2>4, <2>7, KeptIs, KeptNext
    <3>2. /\ Len(img) = size * SectorLen
          /\ file' = (Base \o img) \o Cells(Word, SysinfoLen)
      BY <1>8, <2>2, <2>7, SysinfoStep DEF Whole
    <3>3. /\ ImageLength = Len(img)
          /\ SysinfoOffset = HeaderLen + BrecLen + Len(img)
      BY <1>0, <2>7, <3>2, ImageLengths DEF Whole
    <3>4. ASSUME NEW h, h = <<Brec, Image>> \/ h = <<Brec, Image, Sysinfo>>,
                 NEW r \in Seq(Nat)
          PROVE  View(h, (Base \o img) \o r, 2) = <<Member1, Member("I", img)>>
      <4>1. IsBrec(h[1]) /\ h[2] = Image
        BY <3>4 DEF IsBrec, Brec
      <4>2. /\ h[2].type = "I" /\ h[2].offset = HeaderLen + BrecLen
            /\ h[2].length = Len(img)
        BY <3>3, <4>1 DEF Image
      <4> QED BY <4>1, <4>2, ViewMore
    <3>5. Listed = <<Member1, Member("I", img)>>
      <4>1. View(header, (Base \o img) \o <<>>, 2)
               = <<Member1, Member("I", img)>>
        BY <2>1, <3>4, EmptySeq
      <4>2. (Base \o img) \o <<>> = file
        <5>1. Base \o img \in Seq(Nat)
          BY BaseFacts, ConcatFacts
        <5> QED BY <2>3, <5>1, ConcatEmptySeq
      <4> QED BY <1>0, <3>1, <4>1, <4>2
    <3>6. View(<<Brec, Image, Sysinfo>>,
               (Base \o img) \o Cells(Word, SysinfoLen), 3)
             = <<Member1, Member("I", img), Member3>>
      <4>1. ASSUME NEW h, h = <<Brec, Image, Sysinfo>>
            PROVE  View(h, (Base \o img) \o Cells(Word, SysinfoLen), 3)
                      = <<Member1, Member("I", img), Member3>>
        <5>1. IsBrec(h[1]) /\ h[2] = Image /\ h[3] = Sysinfo
          BY <4>1 DEF IsBrec, Brec
        <5>2. /\ h[2].type = "I" /\ h[2].offset = HeaderLen + BrecLen
              /\ h[2].length = Len(img)
          BY <3>3, <5>1 DEF Image
        <5>3. /\ h[3].type = " " /\ h[3].length = SysinfoLen
              /\ h[3].offset = HeaderLen + BrecLen + Len(img)
          <6>1. /\ Sysinfo.type = " " /\ Sysinfo.length = SysinfoLen
                /\ Sysinfo.offset = SysinfoOffset
            BY DEF Sysinfo
          <6> QED BY <3>3, <5>1, <6>1
        <5>4. Cells(Word, SysinfoLen) \in Seq(Nat)
          BY BaseFacts
        <5> QED BY <5>1, <5>2, <5>3, <5>4, ViewMore
      <4> QED BY <4>1
    <3>7. Listed' = <<Member1, Member("I", img), Member3>>
      BY <1>0, <2>1, <3>1, <3>2, <3>6, Zenon
    <3> QED BY <3>5, <3>7, Adds
  <2> QED BY <2>5, <2>6, <2>7
<1> QED BY <1>2, <1>3, <1>4, <1>5, <1>6, <1>7, <1>8 DEF Next

(* The dump is an archive: a member, once it is listed, keeps its content  *)
(* whatever is added behind it.                                            *)
THEOREM DumpImplementsArchive == Spec => ImplementsArchive
<1>1. Init => Archive!Init
  <2> SUFFICES ASSUME Init PROVE Listed = <<>>
    BY DEF Archive!Init
  <2>1. header = <<>>
    BY DEF Init, ContainerInit
  <2> QED BY <2>1, KeptIs, ListedView, ViewNone
<1> QED BY <1>1, Init0, StageNext, ArchiveStep, PTL
        DEF Spec, ImplementsArchive, Archive!Spec

-----------------------------------------------------------------------------
(* What is left behind.                                                    *)
EndInv ==
    /\ pc \in {"start", "init"} => ~isOpen /\ file = <<>>
    /\ pc = "end" => Closed

(* action_dumpafi: whatever fails, the file is closed and the device is    *)
(* detached if it was asked for; the safety half of EndsClean.             *)
THEOREM ClosedAtEnd == Spec => [](pc = "end" => Closed)
<1>1. Init => EndInv
  BY DEF Init, ContainerInit, EndInv
<1>2. EndInv /\ [Next]_vars => EndInv'
  <2> SUFFICES ASSUME EndInv, [Next]_vars PROVE EndInv'
    OBVIOUS
  <2>1. CASE Open
    BY <2>1 DEF Open, Goto, container, EndInv, Closed
  <2>2. CASE NewFile \/ AddBrec \/ SearchAlternateFw \/ GetFwSize \/ DumpSector
             \/ AddImage \/ AddSysinfo \/ Fail
    <3>1. pc' \notin {"start", "init", "end"}
      BY <2>2 DEF NewFile, AddBrec, SearchAlternateFw, GetFwSize, DumpSector,
                  AddImage, AddSysinfo, Fail, Goto, setup, loop
    <3> QED BY <3>1 DEF EndInv
  <2>3. CASE Exit
    BY <2>3 DEF Exit, Goto, setup, EndInv, Closed
  <2>4. CASE UNCHANGED vars
    BY <2>4 DEF vars, setup, loop, container, EndInv, Closed
  <2> QED BY <2>1, <2>2, <2>3, <2>4 DEF Next
<1>3. EndInv => (pc = "end" => Closed)
  BY DEF EndInv
<1> QED BY <1>1, <1>2, <1>3, PTL DEF Spec
===============================================================================
