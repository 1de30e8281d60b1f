----------------------------- MODULE AfiContainer -----------------------------
(***************************************************************************)
(* The AFI container of afi.c: a header with a directory, kept in memory   *)
(* (afi_header) and rewritten at the start of the file after every change, *)
(* and behind it the contents of the members.                              *)
(*                                                                         *)
(* The file is a sequence of cells.  A cell stands for 64 bytes of it and  *)
(* its value for their sum, so a checksum is the sum of cells; the cells   *)
(* of the header are 0 and its contents are the variable header.  No       *)
(* directory entry is ever removed, so the first free slot of the table is *)
(* the one behind the last entry.                                          *)
(***************************************************************************)
EXTENDS Integers, SequencesExt

CONSTANTS
    HeaderLen,  \* cells of FW_AFI_HEADER: 64
    Slots,      \* entries of its directory: 126
    Width       \* cells a uint32_t can count: 2^26

ASSUME ContainerAssumption == /\ HeaderLen \in Nat /\ Slots \in Nat \ {0}
                              /\ Width \in Nat /\ HeaderLen < Width

VARIABLES
    dir,        \* afi_header.diritem: the entries in use
    file,       \* the cells of the file
    header,     \* the directory as the header in the file holds it
    pos         \* the position of the file stream

container == <<dir, file, header, pos>>

Entry == [type : {"B", "I", " "}, offset : Nat, length : Nat, checksum : Nat]

Zeros(n) == [k \in 1..n |-> 0]

Checksum(data) ==
    LET sum[n \in 0..Len(data)] == IF n = 0 THEN 0 ELSE sum[n-1] + data[n]
    IN  sum[Len(data)]

(* fwrite at offset off: past the end of the file it leaves a hole.        *)
WriteAt(f, off, data) ==
    [k \in 1..Max({Len(f), off + Len(data)}) |->
        IF k \in (off + 1)..(off + Len(data)) THEN data[k - off]
        ELSE IF k <= Len(f) THEN f[k] ELSE 0]

(* Mutant: the header is not counted.                                      *)
OffsetNoHeader ==
    IF dir = <<>> THEN 0 ELSE (Last(dir).offset + Last(dir).length) % Width

(* The end of the last used entry, or of the header, in a uint32_t.        *)
afi_offset ==
    IF dir = <<>> THEN HeaderLen
    ELSE (Last(dir).offset + Last(dir).length) % Width

ContainerInit == dir = <<>> /\ file = <<>> /\ header = <<>> /\ pos = 0

afi_new_file ==
    /\ dir' = <<>>
    /\ header' = <<>>
    /\ file' = Zeros(HeaderLen)
    /\ pos' = HeaderLen

(* The entry goes to the first free slot; without one it is dropped.       *)
AddEntry(e) == dir' = IF Len(dir) < Slots THEN Append(dir, e) ELSE dir

(* Rewriting the header leaves the stream behind it.                       *)
SaveHeader(f) ==
    /\ file' = WriteAt(f, 0, Zeros(HeaderLen))
    /\ header' = dir'
    /\ pos' = HeaderLen

afi_add_whole(type, data) ==
    /\ AddEntry([type |-> type, offset |-> afi_offset, length |-> Len(data),
                 checksum |-> Checksum(data)])
    /\ SaveHeader(WriteAt(file, afi_offset, data))

(* The content is in the file already; the caller gives its length and     *)
(* checksum, and the offset is where it should have been put.              *)
afi_add_appended(type, length, checksum) ==
    /\ AddEntry([type |-> type, offset |-> afi_offset, length |-> length,
                 checksum |-> checksum])
    /\ SaveHeader(file)

(* fseek to the end, and fwrite at the position reached.                   *)
SeekEnd == pos' = Len(file) /\ UNCHANGED <<dir, file, header>>

Write(data) ==
    /\ file' = WriteAt(file, pos, data)
    /\ pos' = pos + Len(data)
    /\ UNCHANGED <<dir, header>>

-----------------------------------------------------------------------------
(* What a file f has of an entry.                                          *)
ContentOf(f, e) == SubSeq(f, e.offset + 1, Min({e.offset + e.length, Len(f)}))
Content(e) == ContentOf(file, e)

(* The content of an entry is all there and sums to its checksum.          *)
Describes(e) ==
    e.offset + e.length <= Len(file) /\ e.checksum = Checksum(Content(e))

(* The members fill the file from the header on, without gap or overlap.   *)
Tile(entries) ==
    \A k \in 1..Len(entries) :
        entries[k].offset = IF k = 1 THEN HeaderLen
                            ELSE entries[k-1].offset + entries[k-1].length

===============================================================================
