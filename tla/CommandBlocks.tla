----------------------------- MODULE CommandBlocks -----------------------------
(***************************************************************************)
(* The command blocks of commands.c: the twelve command_init_ functions,   *)
(* and what a device makes of the address in a block.  A block is          *)
(* [op, dir, len, addr, count]: the operation code; the direction and      *)
(* length of the data; the four bytes at SCSI_PACKET_LBA and the two at    *)
(* SCSI_PACKET_LENGTH, in the order they are sent.  The parameter of the   *)
(* entry command is in addr too, though it is sent one byte earlier.  The  *)
(* LUN is left out.                                                        *)
(***************************************************************************)
EXTENDS Integers, Sequences

CONSTANT Byte       \* 2^8, the range of a uint8_t

ASSUME ByteAssumption == Byte \in Nat /\ Byte > 1

Bytes == 0..(Byte - 1)
Half == Byte * Byte
Word == Half * Half
Words == 0..(Word - 1)

Low(x) == x % Byte          \* x & 0xFF
Shift(x) == x \div Byte     \* x >> 8

LittleEndian(x) ==
    <<Low(x), Low(Shift(x)), Low(Shift(Shift(x))), Low(Shift(Shift(Shift(x))))>>
BigEndian(x) ==
    <<Low(Shift(Shift(Shift(x)))), Low(Shift(Shift(x))), Low(Shift(x)), Low(x)>>
LittleEndianHalf(x) == <<Low(x), Low(Shift(x))>>
BigEndianHalf(x) == <<Low(Shift(x)), Low(x)>>

HalfAddress(x) == <<Low(x), Low(Shift(x)), 0, 0>>

NoAddress == <<0, 0, 0, 0>>
NoCount == <<0, 0>>
Cdb(op, dir, len, addr, count) ==
    [op |-> op, dir |-> dir, len |-> len, addr |-> addr, count |-> count]

InquirySize == 36           \* sizeof(SCSI_INQUIRY)
FcapacitySize == 524        \* sizeof(SCSI_FORMAT_CAPACITY)
CapacitySize == 8           \* sizeof(SCSI_CAPACITY)
IdentifySize == 13          \* sizeof(ACTIONSUSBD)
SectorSize == 512           \* SECTOR_SIZE

Inquiry == Cdb("inquiry", "in", InquirySize, NoAddress, NoCount)
ReadFcapacity ==
    Cdb("fcapacity", "in", FcapacitySize, NoAddress,
          BigEndianHalf(FcapacitySize))
ReadCapacity == Cdb("capacity", "in", CapacitySize, NoAddress, NoCount)

(* Mutant: an address in the byte order of the Actions commands.           *)
Read10Little(lba, size) == Cdb("read10", "in", size, LittleEndian(lba), <<0, 1>>)

Read10(lba, size) == Cdb("read10", "in", size, BigEndian(lba), <<0, 1>>)
Write10(lba, size) == Cdb("write10", "out", size, BigEndian(lba), <<0, 1>>)

ActIdentify == Cdb("identify", "in", IdentifySize, NoAddress, NoCount)
ActInit == Cdb("init", "in", 1, NoAddress, NoCount)
ActDetach == Cdb("detach", "in", 0, NoAddress, NoCount)
ActReadOne(lba, logical) ==
    Cdb(IF logical THEN "log" ELSE "phy", "in", SectorSize,
          LittleEndian(lba), <<1, 0>>)

(* Mutant: the two bytes of the sector are swapped.                        *)
ActReadRamSwapped(sector, length) ==
    Cdb("ram", "in", length % Half, <<Low(Shift(sector)), Low(sector), 0, 0>>,
          LittleEndianHalf(length % Half))

(* The parameters of this function are 16 bits wide.                       *)
ActReadRam(sector, length) ==
    Cdb("ram", "in", length % Half, HalfAddress(sector % Half),
          LittleEndianHalf(length % Half))
ActEntry(param) ==
    Cdb("entry", "in", 0, HalfAddress(param), NoCount)

-----------------------------------------------------------------------------
(* The device: the standard commands are big endian, its own little endian.*)
FromLittleEndian(b) == b[1] + Byte * (b[2] + Byte * (b[3] + Byte * b[4]))
FromBigEndian(b) == b[4] + Byte * (b[3] + Byte * (b[2] + Byte * b[1]))

Standard == {"inquiry", "fcapacity", "capacity", "read10", "write10"}
Address(block) ==
    IF block.op \in Standard THEN FromBigEndian(block.addr)
    ELSE FromLittleEndian(block.addr)

(* The number of blocks; RAM is counted in bytes, of at most one sector.   *)
Count(block) ==
    IF block.op \in Standard THEN block.count[2] + Byte * block.count[1]
    ELSE IF block.op = "ram" THEN 1
    ELSE block.count[1] + Byte * block.count[2]

(* The blocks or sectors a command is about.                               *)
Addressed(block) == Address(block)..(Address(block) + Count(block) - 1)
===============================================================================
