---------------------------- MODULE FirmwareSession ----------------------------
(***************************************************************************)
(* One invocation of the program with a firmware command: main dispatches  *)
(* to an action_ function of main.c, which opens the device, enters the    *)
(* firmware mode (init_act), runs its commands through the helpers of fw.c *)
(* and leaves through its exit label, where the output file is closed and  *)
(* the device is detached if the user asked for it.                        *)
(*                                                                         *)
(* A command to the device succeeds or fails (CommandChannel); one that    *)
(* succeeds answers the question asked (FreshAnswer of BulkTransport), but *)
(* perhaps with less data than asked for, which the transport only warns   *)
(* about: the rest of the caller's buffer is then what it was before.  So  *)
(* a sector in memory is a row of SectorLen units, each of which says what *)
(* it was last filled from.                                                *)
(* The disk takes a number of sectors, behind which fwrite fails without   *)
(* the program looking at it.                                              *)
(* action_dumpafi, the one command that builds an AFI file, is DumpAfi.    *)
(***************************************************************************)
EXTENDS CommandBlocks

CONSTANTS
    Options,    \* the command lines: [cmd, lba, bc, logical, alt, detach, yes]
    Firmwares,  \* the devices: [actions, main, alt, altMain]
    Rooms,      \* how many sectors of output the disk may take
    StackSizes, \* sizes a header that comes short may seem to have
    SectorLen,  \* SECTOR_SIZE, in the unit of a file's length
    RamLimit,   \* 0x800, the sectors of RAM
    BrecSize,   \* 0x20, the sectors of a boot record
    BrecAlt,    \* 0x200, where the alternate boot record starts
    SearchFrom, \* 8, where the search for the alternate firmware starts
    SearchTo    \* MAX_SEARCH_LBA, where it ends

Commands == {"headinfo", "sysinfo", "readfw", "ramacc", "readram", "dumpraw",
             "entry"}
NotFound == 0
SearchError == Word - 1     \* 0xFFFFFFFF

ASSUME WordAssumption ==
    /\ SectorLen \in Words \ {0} /\ RamLimit \in 0..Half /\ BrecSize \in Words
    /\ BrecAlt \in Words /\ SearchFrom \in Words \ {0} /\ SearchTo \in Words
    /\ SearchTo < SearchError
    /\ StackSizes \subseteq Words /\ Rooms \subseteq Nat
ASSUME OptionsAssumption ==
    Options \subseteq [cmd : Commands, lba : Words, bc : Words,
                       logical : BOOLEAN, alt : BOOLEAN, detach : BOOLEAN,
                       yes : BOOLEAN]
Headers == [valid : BOOLEAN,
            dir : Seq([used : BOOLEAN, offset : Words, length : Words])]
ASSUME FirmwaresAssumption ==
    \A f \in Firmwares :
        /\ DOMAIN f = {"actions", "main", "alt", "altMain"}
        /\ f.actions \in BOOLEAN /\ f.alt \in Words
        /\ f.main \in Headers /\ f.altMain \in Headers

VARIABLES
    app,        \* the command line
    fw,         \* the device: is it an Actions device; the header at
                \* sector 0; the sector of the alternate firmware, and the
                \* header there.  A header is valid if it has the magic
                \* number, and has a directory of [used, offset, length]
    room,       \* the sectors the disk takes
    pc,         \* what the program does next
    first,      \* first_sector, or app.lba
    size,       \* sectors to read: size, or app.bc
    i,          \* the loop variable
    buf,        \* dumpbuffer
    ofile,      \* the output file: "none", "open" or "closed"
    file,       \* the sectors written to it
    answered,   \* history: with how many units each sector was answered
    guessed,    \* history: a header that came short was used
    printed,    \* what the program claims: "nothing", "done", "header", ...
    retval,     \* the action's return value
    sent,       \* history: the kinds of commands the device was sent
    status      \* exit status of the process, -1 while it runs

vars == <<app, fw, room, pc, first, size, i, buf, ofile, file, answered,
          guessed, printed, retval, sent, status>>
setup == <<app, fw, room>>
output == <<ofile, file, answered, guessed>>
range == <<first, size, i, buf>>

(* Mutant: the sum of two words does not wrap.                             *)
AddWide(a, b) == a + b
Add(a, b) == (a + b) % Word

Units == [area : {"none", "ram", "log", "phy"}, sector : Words]
Contents == [1..SectorLen -> Units]
Junk == [area |-> "none", sector |-> 0]
(* What the sectors of the file are taken from.                            *)
Area == IF app.cmd = "readram" THEN "ram"
        ELSE IF app.logical THEN "log" ELSE "phy"

(* What get_fw_header reads at sector s.                                   *)
NoHeader == [valid |-> FALSE, dir |-> <<>>]
HeaderAt(s) ==
    IF s = 0 THEN fw.main ELSE IF s = fw.alt THEN fw.altMain ELSE NoHeader

(* Mutant: the last used entry of the directory counts, wherever it lies.  *)
LastFileListed(dir) ==
    LET used == {k \in 1..Len(dir) : dir[k].used /\ dir[k].offset > 0}
    IN  IF used = {} THEN [used |-> FALSE, offset |-> 0, length |-> 0]
        ELSE dir[CHOOSE k \in used : \A m \in used : m <= k]

(* The used entry with the largest offset, of several the first one; one   *)
(* at offset 0 never replaces the initial values.                          *)
LastFile(dir) ==
    LET used == {k \in 1..Len(dir) : dir[k].used /\ dir[k].offset > 0}
    IN  IF used = {} THEN [used |-> FALSE, offset |-> 0, length |-> 0]
        ELSE dir[CHOOSE k \in used : \A m \in used :
                     \/ dir[m].offset < dir[k].offset
                     \/ dir[m].offset = dir[k].offset /\ k <= m]

Sectors(length) == Add(length, SectorLen - 1) \div SectorLen

(* The size in sectors of a firmware with this directory.                  *)
FwSize(dir) == Add(LastFile(dir).offset, Sectors(LastFile(dir).length))

Init ==
    /\ app \in Options
    /\ fw \in Firmwares
    /\ room \in Rooms
    /\ pc = "start"
    /\ first = 0 /\ size = 0 /\ i = 0 /\ buf = [m \in 1..SectorLen |-> Junk]
    /\ ofile = "none" /\ file = <<>> /\ answered = <<>> /\ guessed = FALSE
    /\ printed = "nothing"
    /\ retval = FALSE
    /\ sent = {}
    /\ status = -1

Send(kinds) == sent' = sent \cup kinds

(* main's switch: status 0 if the action returned true.                    *)
End == pc' = "end" /\ status' = (IF retval THEN 0 ELSE 1)
Goto(p) == pc' = p /\ UNCHANGED status

OutOfRam ==
    app.cmd = "readram"
        /\ (app.lba >= RamLimit \/ Add(app.lba, app.bc) > RamLimit)

(* The range check of action_readram, then open_and_claim.                 *)
Open ==
    /\ pc = "start"
    /\ \/ End
       \/ ~OutOfRam /\ Goto("init")
    /\ UNCHANGED <<setup, range, output, printed, retval, sent>>

AfterInit ==
    CASE app.cmd = "headinfo" -> IF app.alt THEN "search" ELSE "header"
      [] app.cmd = "sysinfo" -> "sysinfo"
      [] app.cmd \in {"readfw", "dumpraw"} -> "fopen"
      [] app.cmd \in {"ramacc", "readram"} -> "ramtest"
      [] app.cmd = "entry" -> "confirm"

(* Mutant: the identifier is not compared.                                 *)
InitActAnyDevice ==
    /\ pc = "init"
    /\ \/ Send({"identify"}) /\ Goto("exit")
       \/ Send({"identify", "init"}) /\ Goto("exit")
       \/ Send({"identify", "init"}) /\ Goto(AfterInit)
    /\ UNCHANGED <<setup, range, output, printed, retval>>

(* init_act: only a device that identifies itself is sent ACT INIT.        *)
InitAct ==
    /\ pc = "init"
    /\ \/ Send({"identify"}) /\ Goto("exit")
       \/ fw.actions /\ Send({"identify", "init"}) /\ Goto("exit")
       \/ fw.actions /\ Send({"identify", "init"}) /\ Goto(AfterInit)
    /\ UNCHANGED <<setup, range, output, printed, retval>>

(* search_alternate_fw and its caller's test of the result.                *)
SearchAlternateFw ==
    /\ pc = "search"
    /\ Send({"readone"})
    /\ \/ first' = SearchError
       \/ first' = NotFound
       \/ fw.alt \in SearchFrom..(SearchTo - 1) /\ first' = fw.alt
    /\ Goto(IF first' = SearchError THEN "exit"
            ELSE IF app.cmd = "headinfo" THEN "header" ELSE "size")
    /\ UNCHANGED <<setup, size, i, buf, output, printed, retval>>

(* action_headinfo: get_fw_header, then the listing.  A header that comes  *)
(* short is in part what the stack held.                                   *)
HeadInfo ==
    /\ pc = "header"
    /\ Send({"readone"})
    /\ \/ UNCHANGED <<printed, retval, guessed>>
       \/ /\ \/ HeaderAt(first).valid /\ UNCHANGED guessed
             \/ guessed' = TRUE
          /\ printed' = "header" /\ retval' = TRUE
    /\ Goto("exit")
    /\ UNCHANGED <<setup, range, ofile, file, answered>>

(* action_sysinfo: get_fw_sysinfo, then the listing.                       *)
SysInfo ==
    /\ pc = "sysinfo"
    /\ Send({"readram"})
    /\ \/ UNCHANGED <<printed, retval>>
       \/ printed' = "sysinfo" /\ retval' = TRUE
    /\ Goto("exit")
    /\ UNCHANGED <<setup, range, output>>

(* test_ram_access: action_readram only warns when it fails.               *)
TestRamAccess ==
    /\ pc = "ramtest"
    /\ Send({"readram"})
    /\ IF app.cmd = "ramacc"
         THEN printed' = "ramacc" /\ Goto("exit")
         ELSE Goto("fopen") /\ UNCHANGED printed
    /\ UNCHANGED <<setup, range, output, retval>>

(* fopen of the output file, which truncates it.                           *)
OpenFile ==
    /\ pc = "fopen"
    /\ \/ Goto("exit") /\ UNCHANGED ofile
       \/ /\ ofile' = "open"
          /\ Goto(IF app.cmd # "dumpraw" \/ ~app.logical THEN "range"
                  ELSE IF app.alt THEN "search" ELSE "size")
    /\ UNCHANGED <<setup, range, file, answered, guessed, printed, retval,
                   sent>>

(* get_fw_size: 0 when the header cannot be read or is not valid; of one   *)
(* that comes short, whatever the stack held.                              *)
GetFwSize ==
    /\ pc = "size"
    /\ Send({"readone"})
    /\ \/ size' = 0 /\ UNCHANGED guessed
       \/ /\ HeaderAt(first).valid /\ size' = FwSize(HeaderAt(first).dir)
          /\ UNCHANGED guessed
       \/ size' \in StackSizes /\ guessed' = TRUE
    /\ i' = first
    /\ Goto("loop")
    /\ UNCHANGED <<setup, first, buf, ofile, file, answered, printed, retval>>

(* The range when it does not depend on the firmware: the user's, or the   *)
(* boot record's.                                                          *)
FixedRange ==
    /\ pc = "range"
    /\ IF app.cmd = "dumpraw"
         THEN first' = (IF app.alt THEN BrecAlt ELSE 0) /\ size' = BrecSize
         ELSE first' = app.lba /\ size' = app.bc
    /\ i' = first'
    /\ Goto("loop")
    /\ UNCHANGED <<setup, buf, output, printed, retval, sent>>

(* fwrite of a sector, of which nothing is written if the disk is full.    *)
Write(data) == file' = IF Len(file) < room THEN Append(file, data) ELSE file

(* The command for sector s, and what the device answers to it.            *)
Command(s) == IF app.cmd = "readram" THEN ActReadRam(s, SectorSize)
              ELSE ActReadOne(s, app.logical)
Answer(block) == [area |-> block.op, sector |-> Address(block)]

(* The first n units of dumpbuffer are of sector s, the rest is not filled.*)
Filled(n, s) ==
    [m \in 1..SectorLen |-> IF m <= n THEN Answer(Command(s)) ELSE buf[m]]

(* Mutant: the sector is written before it is read.                        *)
ReadSectorLate ==
    /\ pc = "loop"
    /\ i < Add(first, size)
    /\ Send({IF app.cmd = "readram" THEN "readram" ELSE "readone"})
    /\ \/ Goto("exit") /\ UNCHANGED <<i, buf, file, answered>>
       \/ /\ \E n \in 0..SectorLen :
                 buf' = Filled(n, i) /\ answered' = Append(answered, n)
          /\ Write(buf)
          /\ i' = i + 1
          /\ Goto("loop")
    /\ UNCHANGED <<setup, first, size, ofile, guessed, printed, retval>>

(* One round of the dump loop: a sector answered short is written with the *)
(* rest of what the round before left in dumpbuffer.                       *)
ReadSector ==
    /\ pc = "loop"
    /\ i < Add(first, size)
    /\ Send({IF app.cmd = "readram" THEN "readram" ELSE "readone"})
    /\ \/ Goto("exit") /\ UNCHANGED <<i, buf, file, answered>>
       \/ /\ \E n \in 0..SectorLen :
                 buf' = Filled(n, i) /\ answered' = Append(answered, n)
          /\ Write(buf')
          /\ i' = i + 1
          /\ Goto("loop")
    /\ UNCHANGED <<setup, first, size, ofile, guessed, printed, retval>>

(* Mutant: the loop ends one sector early.                                 *)
LoopDoneEarly ==
    /\ pc = "loop"
    /\ ~(i + 1 < Add(first, size))
    /\ printed' = "done"
    /\ Goto("exit")
    /\ UNCHANGED <<setup, range, output, retval, sent>>

LoopDone ==
    /\ pc = "loop"
    /\ ~(i < Add(first, size))
    /\ printed' = "done"
    /\ Goto("exit")
    /\ UNCHANGED <<setup, range, output, retval, sent>>

(* Mutant: the question is asked until it is confirmed.                    *)
ConfirmAgain ==
    /\ pc = "confirm"
    /\ Goto(IF app.yes THEN "entry" ELSE "confirm")
    /\ UNCHANGED <<setup, range, output, printed, retval, sent>>

(* action_entry: an unconfirmed command returns at once.                   *)
Confirm ==
    /\ pc = "confirm"
    /\ IF app.yes THEN Goto("entry") ELSE End
    /\ UNCHANGED <<setup, range, output, printed, retval, sent>>

Entry ==
    /\ pc = "entry"
    /\ Send({"entry"})
    /\ printed' \in {printed, "entry"}
    /\ Goto("exit")
    /\ UNCHANGED <<setup, range, output, retval>>

(* Mutant: an exit that does not close the file.                           *)
ExitLeavesOpen ==
    /\ pc = "exit"
    /\ Send(IF app.detach THEN {"detach"} ELSE {})
    /\ End
    /\ UNCHANGED <<setup, range, output, printed, retval>>

(* The exit label: close the file, detach_device, return.                  *)
Exit ==
    /\ pc = "exit"
    /\ ofile' = (IF ofile = "open" THEN "closed" ELSE ofile)
    /\ Send(IF app.detach THEN {"detach"} ELSE {})
    /\ End
    /\ UNCHANGED <<setup, range, file, answered, guessed, printed, retval>>

Next == \/ Open \/ InitAct \/ SearchAlternateFw \/ HeadInfo \/ SysInfo
        \/ TestRamAccess \/ OpenFile \/ GetFwSize \/ FixedRange
        \/ ReadSector \/ LoopDone \/ Confirm \/ Entry \/ Exit

(* A single thread: it goes on as long as it has something to do.          *)
Spec == Init /\ [][Next]_vars
FairSpec == Spec /\ WF_vars(Next)

-----------------------------------------------------------------------------
TypeOK ==
    /\ app \in Options /\ fw \in Firmwares /\ room \in Rooms
    /\ pc \in {"start", "init", "search", "header", "sysinfo", "ramtest",
               "fopen", "size", "range", "loop", "confirm", "entry", "exit",
               "end"}
    /\ first \in Words /\ size \in Words /\ i \in Words
    /\ buf \in Contents
    /\ ofile \in {"none", "open", "closed"}
    /\ file \in Seq(Contents)
    /\ answered \in Seq(0..SectorLen)
    /\ guessed \in BOOLEAN
    /\ printed \in {"nothing", "header", "sysinfo", "ramacc", "done", "entry"}
    /\ retval \in BOOLEAN
    /\ sent \subseteq {"identify", "init", "readone", "readram", "entry",
                       "detach"}
    /\ status \in {-1, 0, 1}

(* At any moment, so also when a command fails half way, the file holds    *)
(* the sectors from the first one on, in order and without a gap, each as  *)
(* far as it was answered; where an answer ended early the file repeats the*)
(* sector before, and the first one what the stack held.                   *)
FileIsPrefix ==
    \A k \in 1..Len(file), m \in 1..SectorLen :
        file[k][m] = IF m <= answered[k]
                       THEN [area |-> Area, sector |-> first + k - 1]
                       ELSE IF k = 1 THEN Junk ELSE file[k-1][m]

(* "done." is printed only for a file of all the sectors asked for, or of  *)
(* those that fit on the disk; but if the range reaches past the last      *)
(* address, for a file with nothing in it: the bound of the loop wraps to  *)
(* before its start.                                                       *)
DoneIsComplete ==
    printed = "done" =>
        Len(file) = IF first + size >= Word THEN 0
                    ELSE IF size <= room THEN size ELSE room

(* A raw dump that is "done." and not empty holds every file of the        *)
(* firmware, in whatever order the directory lists them, if they lie behind*)
(* the header, at different places and without overlap, end before the last*)
(* address and fit on the disk.                                            *)
DumpCoversFiles ==
    LET dir == HeaderAt(first).dir
        files == {k \in 1..Len(dir) : dir[k].used}
        end(k) == dir[k].offset + (dir[k].length + SectorLen - 1) \div SectorLen
        before(k, m) == dir[k].offset < dir[m].offset /\ end(k) <= dir[m].offset
    IN  /\ printed = "done" /\ app.cmd = "dumpraw" /\ app.logical
        /\ ~guessed /\ file # <<>> /\ size <= room
        /\ \A k \in files : /\ dir[k].offset > 0 /\ first + end(k) < Word
                            /\ dir[k].length + SectorLen - 1 < Word
        /\ \A k, m \in files : k = m \/ before(k, m) \/ before(m, k)
        => \A k \in files : end(k) <= Len(file)

(* RAM is never read beyond its limit, though a wrapping block count gets  *)
(* past the range check.                                                   *)
RamInRange ==
    app.cmd = "readram" =>
        \A k \in 1..Len(file), m \in 1..SectorLen : file[k][m].sector < RamLimit

(* When the program ends, the file is closed; and the device was detached, *)
(* after everything else it was sent, if the user asked for it, unless an  *)
(* entry command was not confirmed.                                        *)
CleanEnd ==
    /\ "detach" \in sent => pc = "end"
    /\ pc = "end" =>
           /\ ofile # "open"
           /\ app.detach /\ "identify" \in sent
                  => "detach" \in sent \/ (app.cmd = "entry" /\ ~app.yes)

(* Only a device that identified itself is sent anything but IDENTIFY and  *)
(* DETACH; what init_act rejects is still detached.                        *)
OnlyActionsDevices == fw.actions \/ sent \subseteq {"identify", "detach"}

(* The program always ends.                                                *)
Ends == <>(pc = "end")

(* What the comments at main.c:342 and main.c:666 say of --alternate: exit *)
(* if the alternate firmware is not found.                                 *)
AlternateOrExit ==
    app.alt /\ app.logical /\ app.cmd \in {"headinfo", "dumpraw"}
        => (printed \in {"header", "done"} => first # 0)

(* What main.c:542 prints and main.c:912 means: a read that is "done."     *)
(* exits with status 0.                                                    *)
DoneExitsZero == pc = "end" /\ printed = "done" => status = 0

(* What the usage text of cmdline.c:89 says of --detach: the device is     *)
(* detached at the end of a firmware command.                              *)
DetachAtEnd ==
    pc = "end" /\ app.detach /\ "init" \in sent => "detach" \in sent
===============================================================================
