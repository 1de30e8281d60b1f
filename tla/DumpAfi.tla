-------------------------------- MODULE DumpAfi --------------------------------
(***************************************************************************)
(* action_dumpafi of main.c: the boot record, the main firmware and the    *)
(* sysinfo of a device are put in one AFI container.  The firmware is      *)
(* written to the file sector by sector as it is read, and entered in the  *)
(* directory once it is complete; the other two are read into memory and   *)
(* added whole.  Any command may fail, which ends the dump where it is.    *)
(*                                                                         *)
(* Sectors are counted in words, cells in Width: a firmware can be too long*)
(* for either.                                                             *)
(***************************************************************************)
EXTENDS AfiContainer

CONSTANTS
    Firmwares,  \* the devices: [main, alt, altSize], as in FirmwareSession
    Word,       \* 2^32, the range of a uint32_t
    SectorLen,  \* cells of a sector: 8
    BrecLen,    \* cells of FW_BREC: 256
    SysinfoLen, \* cells of FW_SYSINFO: 3
    SearchFrom, \* 8, where the search for the alternate firmware starts
    SearchTo    \* MAX_SEARCH_LBA, where it ends

Words == 0..(Word - 1)

ASSUME DumpAssumption ==
    /\ Word \in Nat
    /\ Firmwares \subseteq [main : Words, alt : Words, altSize : Words]
    /\ SectorLen \in Nat /\ BrecLen \in Nat /\ SysinfoLen \in Nat
    /\ HeaderLen + BrecLen + SysinfoLen < Width /\ Slots >= 3
    /\ SearchFrom \in Words /\ SearchTo \in Words /\ SearchTo < Word - 1

NotFound == 0
SearchError == Word - 1     \* 0xFFFFFFFF

VARIABLES
    fw,         \* the device, its sizes in sectors, 0: no valid header
    alt,        \* app.is_alt_fw
    detach,     \* app.is_detach
    pc,         \* what the program does next
    first,      \* first_sector
    size,       \* size, in sectors
    i,          \* the loop variable
    buf,        \* dumpbuffer
    checksum,   \* the sum of the sectors written
    isOpen,     \* app.ofile is open
    printed,    \* "nothing", or "ready" after "AFI file ready."
    detached    \* history: the device was sent a DETACH

vars == <<container, fw, alt, detach, pc, first, size, i, buf, checksum, isOpen,
          printed, detached>>
setup == <<fw, alt, detach>>
loop == <<first, size, i, buf, checksum>>

(* The cells of n cells read from sector s on: all of them are s + 1, so   *)
(* that every sector has a sum of its own.                                 *)
Cells(s, n) == [k \in 1..n |-> s + 1]

(* Mutant: the sum does not wrap.                                          *)
LoopEndWide == first + size

(* The bound of the loop, and the length of what it writes, are words.     *)
LoopEnd == (first + size) % Word
ImageLength == (size * SectorLen) % Width

FirmwareAt(s) ==
    IF s = 0 THEN fw.main ELSE IF s = fw.alt THEN fw.altSize ELSE 0

Init ==
    /\ ContainerInit
    /\ fw \in Firmwares
    /\ alt \in BOOLEAN /\ detach \in BOOLEAN
    /\ pc = "start"
    /\ first = 0 /\ size = 0 /\ i = 0 /\ buf = <<>> /\ checksum = 0
    /\ isOpen = FALSE
    /\ printed = "nothing"
    /\ detached = FALSE

Goto(p) == pc' = p

(* open_and_claim.                                                         *)
Open ==
    /\ pc = "start"
    /\ Goto("init") \/ Goto("end")
    /\ UNCHANGED <<container, setup, loop, isOpen, printed, detached>>

(* A command fails: the label exit, with whatever the file holds by now.   *)
Fail ==
    /\ pc \in {"init", "brec", "search", "image", "sysinfo"}
    /\ Goto("exit")
    /\ UNCHANGED <<container, setup, loop, isOpen, printed,
                   detached>>

(* init_act succeeds and the file is created.                              *)
NewFile ==
    /\ pc = "init"
    /\ afi_new_file
    /\ isOpen' = TRUE
    /\ Goto("brec")
    /\ UNCHANGED <<setup, loop, printed, detached>>

(* The boot record, read sector by sector into memory and added whole.  The*)
(* cells stand for whatever the reads left there: nothing looks into them. *)
AddBrec ==
    /\ pc = "brec"
    /\ afi_add_whole("B", Cells(0, BrecLen))
    /\ first' = 0
    /\ Goto(IF alt THEN "search" ELSE "size")
    /\ UNCHANGED <<setup, size, i, buf, checksum, isOpen, printed,
                   detached>>

(* search_alternate_fw and the test of its result.                         *)
SearchAlternateFw ==
    /\ pc = "search"
    /\ \/ first' = SearchError
       \/ first' = NotFound
       \/ fw.alt \in SearchFrom..(SearchTo - 1) /\ first' = fw.alt
    /\ Goto(IF first' = SearchError THEN "exit" ELSE "size")
    /\ UNCHANGED <<container, setup, size, i, buf, checksum, isOpen, printed,
                   detached>>

(* Mutant: the end of the file is not looked up.                           *)
GetFwSizeNoSeek ==
    /\ pc = "size"
    /\ size' \in {0, FirmwareAt(first)}
    /\ i' = first
    /\ checksum' = 0
    /\ Goto("image")
    /\ UNCHANGED <<container, setup, first, buf, isOpen, printed, detached>>

(* get_fw_size, 0 when the header cannot be read or is not valid, and that *)
(* of another device when it comes short; then the end of the file is      *)
(* looked up.                                                              *)
GetFwSize ==
    /\ pc = "size"
    /\ size' \in {0, FirmwareAt(first)}
    /\ i' = first
    /\ checksum' = 0
    /\ SeekEnd
    /\ Goto("image")
    /\ UNCHANGED <<setup, first, buf, isOpen, printed,
                   detached>>

(* Mutant: the checksum is that of the last sector.                        *)
DumpSectorLastSum ==
    /\ pc = "image"
    /\ i < LoopEnd
    /\ buf' = Cells(i, SectorLen)
    /\ Write(buf')
    /\ checksum' = Checksum(buf')
    /\ i' = i + 1
    /\ UNCHANGED <<setup, pc, first, size, isOpen, printed, detached>>

(* dumpbuffer after n cells of sector i came: behind them is what it held. *)
Answered(n) ==
    [k \in 1..SectorLen |-> IF k <= n THEN i + 1
                            ELSE IF i = first THEN 0 ELSE buf[k]]

(* A sector of the firmware, or the start of one.                          *)
DumpSector ==
    /\ pc = "image"
    /\ i < LoopEnd
    /\ \E n \in 0..SectorLen : buf' = Answered(n)
    /\ Write(buf')
    /\ checksum' = checksum + Checksum(buf')
    /\ i' = i + 1
    /\ UNCHANGED <<setup, pc, first, size, isOpen, printed,
                   detached>>

(* Mutant: the image is entered one sector early.                          *)
AddImageEarly ==
    /\ pc = "image"
    /\ ~(i + 1 < LoopEnd)
    /\ afi_add_appended("I", ImageLength, checksum)
    /\ Goto("sysinfo")
    /\ UNCHANGED <<setup, loop, isOpen, printed, detached>>

(* Mutant: the length is in sectors.                                       *)
AddImageInSectors ==
    /\ pc = "image"
    /\ ~(i < LoopEnd)
    /\ afi_add_appended("I", size, checksum)
    /\ Goto("sysinfo")
    /\ UNCHANGED <<setup, loop, isOpen, printed, detached>>

AddImage ==
    /\ pc = "image"
    /\ ~(i < LoopEnd)
    /\ afi_add_appended("I", ImageLength, checksum)
    /\ Goto("sysinfo")
    /\ UNCHANGED <<setup, loop, isOpen, printed,
                   detached>>

(* get_fw_sysinfo; its structure is added whole.  Its cells, no sector's,  *)
(* stand for whatever the header it found had in it.                       *)
AddSysinfo ==
    /\ pc = "sysinfo"
    /\ afi_add_whole(" ", Cells(Word, SysinfoLen))
    /\ printed' = "ready"
    /\ Goto("exit")
    /\ UNCHANGED <<setup, loop, isOpen, detached>>

(* Mutant: an exit that leaves the file open.                              *)
ExitLeavesOpen ==
    /\ pc = "exit"
    /\ detached' = detach
    /\ Goto("end")
    /\ UNCHANGED <<container, setup, loop, isOpen, printed>>

Exit ==
    /\ pc = "exit"
    /\ isOpen' = FALSE
    /\ detached' = detach
    /\ Goto("end")
    /\ UNCHANGED <<container, setup, loop, printed>>

Next == \/ Open \/ NewFile \/ AddBrec \/ SearchAlternateFw \/ GetFwSize
        \/ DumpSector \/ AddImage \/ AddSysinfo \/ Fail \/ Exit

Spec == Init /\ [][Next]_vars
FairSpec == Spec /\ WF_vars(Next)

-----------------------------------------------------------------------------
TypeOK ==
    /\ dir \in Seq(Entry) /\ header \in Seq(Entry)
    /\ file \in Seq(Nat) /\ pos \in Nat
    /\ fw \in Firmwares /\ alt \in BOOLEAN /\ detach \in BOOLEAN
    /\ pc \in {"start", "init", "brec", "search", "size", "image", "sysinfo",
               "exit", "end"}
    /\ first \in Words /\ size \in Words
    /\ i \in Words /\ buf \in Seq(Nat) /\ checksum \in Nat
    /\ isOpen \in BOOLEAN /\ printed \in {"nothing", "ready"}
    /\ detached \in BOOLEAN

(* The file is no longer than a word can count.                            *)
Fits == HeaderLen + BrecLen + size * SectorLen + SysinfoLen < Width

(* The range of the firmware does not reach past the last address.         *)
NoWrap == first + size < Word

(* At any moment, so after any failure, every entry of the header in the   *)
(* file describes what the file holds, and the entries tile it.  A range   *)
(* that wraps makes an entry for an image nothing of which is written: it  *)
(* is wrong until the sysinfo behind it turns the gap into a hole, which   *)
(* sums to the checksum of nothing.                                        *)
EntriesDescribeFile ==
    Fits => /\ Tile(header)
            /\ \A k \in 1..Len(header) :
                   NoWrap \/ printed = "ready" \/ header[k].type # "I"
                       => Describes(header[k])

(* While the firmware is written, the file is exactly the members so far   *)
(* and the sectors read: the place where afi_add_appended will look for    *)
(* the image is the place where the loop puts it.                          *)
ImageBehindMembers ==
    pc = "image" => /\ Len(file) = afi_offset + (i - first) * SectorLen
                    /\ pos = Len(file)

(* "AFI file ready." stands for a boot record, an image of as many sectors *)
(* as the firmware's size and a sysinfo, and nothing else in the file; of  *)
(* a range that wraps all these sectors are missing from it.               *)
ReadyIsComplete ==
    printed = "ready" /\ Fits =>
        /\ [k \in 1..Len(header) |-> header[k].type] = <<"B", "I", " ">>
        /\ header[2].length = size * SectorLen
        /\ Len(file) = HeaderLen + BrecLen + size * SectorLen + SysinfoLen
        /\ ~NoWrap => Content(header[2]) = Zeros(size * SectorLen)

(* A dump that fails leaves an AFI file whose directory is valid for the   *)
(* members it lists; a started image is not among them.                    *)
NoPartialImage ==
    NoWrap => \A k \in 1..Len(header) :
        header[k].type = "I" => i = first + size

(* The offset behind an image of n sectors wraps into the header or the    *)
(* boot record, where the sysinfo is then put.                             *)
Overwrites(n) ==
    (HeaderLen + BrecLen + ((n * SectorLen) % Width)) % Width
        < HeaderLen + BrecLen

(* Adding members never disturbs those already in the file, if it fits and *)
(* the image is there; otherwise only the boot record can be counted on,   *)
(* and not even that where the sysinfo comes over it.                      *)
Kept == IF Overwrites(fw.main) \/ Overwrites(fw.altSize) THEN 0
        ELSE IF Fits /\ NoWrap THEN Len(header)
        ELSE Min({1, Len(header)})

Listed ==
    [k \in 1..Kept |-> [type |-> header[k].type,
                        content |-> ContentOf(file, header[k])]]

Archive == INSTANCE AfiArchive WITH members <- Listed

ImplementsArchive == Archive!Spec

(* The dump always ends, with the file closed; a dump that created a file  *)
(* has detached the device if the user asked for it.                       *)
Closed == ~isOpen /\ (detached = detach \/ file = <<>>)
EndsClean == <>(pc = "end" /\ Closed)
===============================================================================
