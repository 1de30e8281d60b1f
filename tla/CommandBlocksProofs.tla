-------------------------- MODULE CommandBlocksProofs --------------------------
(***************************************************************************)
(* That a device finds in a command block the address the program put in   *)
(* it, for every address and every size of a byte.                         *)
(***************************************************************************)
EXTENDS CommandBlocks, TLAPS

(* Division with remainder by the size of a byte.                          *)
LEMMA ShiftLow ==
    ASSUME NEW x \in Nat
    PROVE  /\ Shift(x) \in Nat /\ Low(x) \in Bytes
           /\ x = Low(x) + Byte * Shift(x)
  BY ByteAssumption DEF Shift, Low, Bytes

(* A factor more than 0 can be cancelled from an order.                    *)
LEMMA Cancel ==
    ASSUME NEW a \in Nat, NEW b \in Nat, Byte * a < Byte * b
    PROVE  a < b
<1> SUFFICES ASSUME ~(a < b) PROVE FALSE
  OBVIOUS
<1>1. PICK d \in Nat : a = b + d
  <2> DEFINE d == a - b
  <2>1. d \in Nat /\ a = b + d
    OBVIOUS
  <2> QED BY <2>1
<1>2. Byte * a = Byte * b + Byte * d
  BY <1>1, ByteAssumption
<1>3. Byte * d \in Nat /\ Byte * a \in Nat /\ Byte * b \in Nat
  BY ByteAssumption
<1> QED BY <1>2, <1>3

(* A word has four bytes: the last shift leaves a byte.                    *)
LEMMA LastByte ==
    ASSUME NEW x \in Words
    PROVE  /\ Shift(Shift(Shift(x))) \in Bytes
           /\ Low(Shift(Shift(Shift(x)))) = Shift(Shift(Shift(x)))
<1> DEFINE y == Shift(x)
           z == Shift(y)
           w == Shift(z)
<1>1. x \in Nat /\ Word \in Nat /\ Half \in Nat /\ x < Word
  BY ByteAssumption DEF Words, Word, Half
<1>2. /\ y \in Nat /\ z \in Nat /\ w \in Nat
      /\ Byte * y <= x /\ Byte * z <= y /\ Byte * w <= z
  <2>1. y \in Nat /\ Low(x) \in Nat /\ x = Low(x) + Byte * y
    BY <1>1, ShiftLow DEF Bytes
  <2>2. z \in Nat /\ Low(y) \in Nat /\ y = Low(y) + Byte * z
    BY <2>1, ShiftLow DEF Bytes
  <2>3. w \in Nat /\ Low(z) \in Nat /\ z = Low(z) + Byte * w
    BY <2>2, ShiftLow DEF Bytes
  <2>4. Byte * y \in Nat /\ Byte * z \in Nat /\ Byte * w \in Nat
    BY <2>1, <2>2, <2>3, ByteAssumption
  <2> HIDE DEF y, z, w
  <2> QED BY <2>1, <2>2, <2>3, <2>4
<1> HIDE DEF y, z, w
<1>3. /\ Byte * y \in Nat /\ Byte * z \in Nat /\ Byte * w \in Nat
      /\ Byte * (Byte * Half) \in Nat /\ Byte * Half \in Nat
      /\ Byte * Byte \in Nat
  BY <1>1, <1>2, ByteAssumption
<1>4. Word = Byte * (Byte * Half) /\ Half = Byte * Byte
  <2>1. Half * Half = Byte * (Byte * Half)
    BY <1>1, ByteAssumption DEF Half
  <2> QED BY <2>1 DEF Word, Half
<1>5. y < Byte * Half
  <2>1. Byte * y < Byte * (Byte * Half)
    BY <1>1, <1>2, <1>3, <1>4
  <2> QED BY <2>1, <1>2, <1>3, Cancel
<1>6. z < Byte * Byte
  <2>1. Byte * z < Byte * (Byte * Byte)
    BY <1>2, <1>3, <1>4, <1>5
  <2> QED BY <2>1, <1>2, <1>3, Cancel
<1>7. w < Byte
  <2>1. Byte * w < Byte * Byte
    BY <1>2, <1>3, <1>6
  <2> QED BY <2>1, <1>2, ByteAssumption, Cancel
<1>8. w \in Bytes /\ Low(w) = w
  BY <1>2, <1>7, ByteAssumption DEF Bytes, Low
<1> QED BY <1>8 DEF w, z, y

(* Horner's rule: the four bytes of a word give the word.                  *)
LEMMA FourBytes ==
    ASSUME NEW x \in Words
    PROVE  x = Low(x) + Byte * (Low(Shift(x))
                 + Byte * (Low(Shift(Shift(x)))
                 + Byte * Low(Shift(Shift(Shift(x))))))
<1>1. x \in Nat
  BY ByteAssumption DEF Words, Word, Half
<1>2. Shift(x) \in Nat /\ x = Low(x) + Byte * Shift(x)
  BY <1>1, ShiftLow
<1>3. /\ Shift(Shift(x)) \in Nat
      /\ Shift(x) = Low(Shift(x)) + Byte * Shift(Shift(x))
  BY <1>2, ShiftLow
<1>4. Shift(Shift(x)) = Low(Shift(Shift(x))) + Byte * Shift(Shift(Shift(x)))
  BY <1>3, ShiftLow
<1>5. Shift(Shift(Shift(x))) = Low(Shift(Shift(Shift(x))))
  BY LastByte
<1> QED BY <1>2, <1>3, <1>4, <1>5, Zenon

(* The address of a standard command, which is big endian.                 *)
LEMMA ReadAddress ==
    ASSUME NEW lba \in Words, NEW len \in Nat
    PROVE  Address(Read10(lba, len)) = lba /\ Address(Write10(lba, len)) = lba
<1>1. FromBigEndian(BigEndian(lba)) = lba
  BY FourBytes, Zenon DEF FromBigEndian, BigEndian
<1> QED BY <1>1 DEF Read10, Write10, Cdb, Address, Standard

(* The address of a read of the NAND, which is little endian.              *)
LEMMA ReadOneAddress ==
    ASSUME NEW lba \in Words, NEW logical \in BOOLEAN
    PROVE  Address(ActReadOne(lba, logical)) = lba
<1>1. FromLittleEndian(LittleEndian(lba)) = lba
  BY FourBytes, Zenon DEF FromLittleEndian, LittleEndian
<1> QED BY <1>1 DEF ActReadOne, Cdb, Address, Standard

(* What the functions with a full address put in a block, the device finds *)
(* there: the standard commands, which are big endian, and the Actions     *)
(* ones, which are little endian, are about exactly the one sector that    *)
(* their caller names.                                                     *)
THEOREM OneSectorAddressed ==
    ASSUME NEW lba \in Words, NEW len \in Nat, NEW logical \in BOOLEAN
    PROVE  /\ Addressed(Read10(lba, len)) = {lba}
           /\ Addressed(Write10(lba, len)) = {lba}
           /\ Addressed(ActReadOne(lba, logical)) = {lba}
<1>1. lba \in Nat
  BY ByteAssumption DEF Words, Word, Half
<1>3. 1 + Byte * 0 = 1
  BY ByteAssumption
<1>4. ASSUME NEW block, Address(block) = lba, Count(block) = 1
      PROVE  Addressed(block) = {lba}
  BY <1>1, <1>4 DEF Addressed
<1>5. /\ Address(Read10(lba, len)) = lba /\ Count(Read10(lba, len)) = 1
      /\ Address(Write10(lba, len)) = lba /\ Count(Write10(lba, len)) = 1
  BY <1>3, ReadAddress DEF Read10, Write10, Cdb, Count, Standard
<1>6. /\ Address(ActReadOne(lba, logical)) = lba
      /\ Count(ActReadOne(lba, logical)) = 1
  BY <1>3, ReadOneAddress DEF ActReadOne, Cdb, Count, Standard
<1> QED BY <1>4, <1>5, <1>6

(* The address of a RAM command, of which 16 bits are sent.                *)
LEMMA RamAddress ==
    ASSUME NEW sector \in 0..(Half - 1), NEW len \in Nat
    PROVE  Address(ActReadRam(sector, len)) = sector
<1>1. sector \in Nat /\ Half \in Nat /\ sector < Half
  BY ByteAssumption DEF Half
<1>2. Shift(sector) \in Nat /\ Low(sector) \in Bytes
      /\ sector = Low(sector) + Byte * Shift(sector)
  BY <1>1, ShiftLow
<1>3. Shift(sector) < Byte
  <2>1. Byte * Shift(sector) \in Nat /\ Byte * Byte \in Nat
    BY <1>2, ByteAssumption
  <2>2. Byte * Shift(sector) < Byte * Byte
    BY <1>1, <1>2, <2>1 DEF Half, Bytes
  <2> QED BY <2>2, <1>2, ByteAssumption, Cancel
<1>4. Low(Shift(sector)) = Shift(sector) /\ sector % Half = sector
  <2>1. Low(Shift(sector)) = Shift(sector)
    BY <1>2, <1>3, ByteAssumption DEF Low
  <2>2. sector % Half = sector
    BY <1>1
  <2> QED BY <2>1, <2>2
<1>5. FromLittleEndian(<<Low(sector), Shift(sector), 0, 0>>) = sector
  <2>1. Byte * (0 + Byte * 0) = 0 /\ Shift(sector) + 0 = Shift(sector)
    BY <1>2, ByteAssumption
  <2> QED BY <1>2, <2>1 DEF FromLittleEndian
<1>6. ActReadRam(sector, len).addr = <<Low(sector), Shift(sector), 0, 0>>
      /\ ActReadRam(sector, len).op = "ram"
  BY <1>4 DEF ActReadRam, Cdb, HalfAddress
<1> QED BY <1>5, <1>6 DEF Address, Standard

(* The sector of a RAM command has 16 bits; one that fits, as the range    *)
(* check of action_readram sees to, is the one the device reads.           *)
THEOREM RamSectorAddressed ==
    ASSUME NEW sector \in 0..(Half - 1), NEW len \in Nat
    PROVE  Addressed(ActReadRam(sector, len)) = {sector}
<1>1. sector \in Nat
  BY ByteAssumption DEF Half
<1>2. Address(ActReadRam(sector, len)) = sector
      /\ Count(ActReadRam(sector, len)) = 1
  BY RamAddress DEF ActReadRam, Cdb, Count, Standard
<1> QED BY <1>1, <1>2 DEF Addressed
===============================================================================
