------------------------------ MODULE MassStorage ------------------------------
(***************************************************************************)
(* One invocation of the program with a standard SCSI command: scsi_inquiry*)
(* scsi_read_fcapacity, scsi_read_capacity, scsi_read10 and scsi_write10.  *)
(* The last two ask the device for its geometry, check the range against   *)
(* it and move one block at a time between the device and a file.          *)
(*                                                                         *)
(* Files and buffers are sequences of cells, a fraction of a sector.  As in*)
(* FirmwareSession a command fails, or succeeds, perhaps with an answer    *)
(* that comes short: what is not filled keeps what it held before, which   *)
(* is the stack's for the geometry.                                        *)
(***************************************************************************)
EXTENDS CommandBlocks

CONSTANTS
    Options,    \* the command lines: [cmd, lba, bc, offset]
    Geometries, \* what a device may report: [lastLBA, blockLen]
    InLengths,  \* cells of the input file
    SectorLen   \* cells of SECTOR_SIZE, the size of the buffers

ASSUME SectorAssumption == SectorLen \in Nat \ {0}
ASSUME OptionsAssumption ==
    Options \subseteq [cmd : {"inquiry", "fcapacity", "capacity", "read",
                              "write"},
                       lba : Words, bc : Words, offset : Words]
ASSUME GeometriesAssumption ==
    Geometries \subseteq [lastLBA : Words, blockLen : Words]
ASSUME LengthsAssumption == InLengths \subseteq Nat

VARIABLES
    app,        \* the command line
    inlen,      \* cells of the input file
    pc,         \* what the program does next
    geo,        \* capacity: the geometry the program goes by
    i,          \* the loop variable
    buf,        \* dumpbuffer or inbuffer
    handle,     \* app.ofile or app.ifile: "none", "open" or "closed"
    pos,        \* position in the input file
    file,       \* cells of the output file
    answered,   \* history: with how many cells each block was answered
    stored,     \* history: the blocks the device may have stored
    sent,       \* history: the blocks the device was asked for
    printed,    \* what the program claims
    status      \* exit status of the process, -1 while it runs

vars == <<app, inlen, pc, geo, i, buf, handle, pos, file, answered, stored,
          sent, printed, status>>
setup == <<app, inlen>>
output == <<file, answered, stored, sent>>

Cell == [from : {"stack", "device", "file"}, at : Nat, k : Nat]
Junk == [k \in 1..SectorLen |-> [from |-> "stack", at |-> 0, k |-> k]]
Block(b, n) == [k \in 1..n |-> [from |-> "device", at |-> b, k |-> k]]
(* What the device may answer: the block the command is about, or less.    *)
Answers(command) == {Block(Address(command), n) : n \in 0..command.len}

FileCell(p) == [from |-> "file", at |-> p, k |-> 0]

(* A buffer after data was read to its start, longer if data overran it.   *)
Fill(b, data) ==
    [k \in 1..(IF Len(data) > Len(b) THEN Len(data) ELSE Len(b)) |->
        IF k <= Len(data) THEN data[k] ELSE b[k]]

Add(a, b) == (a + b) % Word
Sub(a, b) == (a - b) % Word
Mul(a, b) == (a * b) % Word

Init ==
    /\ app \in Options /\ inlen \in InLengths
    /\ pc = "start"
    /\ geo = [lastLBA |-> 0, blockLen |-> 0] /\ i = 0 /\ buf = Junk
    /\ handle = "none" /\ pos = 0
    /\ file = <<>> /\ answered = <<>> /\ stored = {} /\ sent = {}
    /\ printed = "nothing"
    /\ status = -1

Goto(p) == pc' = p /\ UNCHANGED status

(* The function returns, and main's switch makes it the exit status.       *)
End(ok) == pc' = "end" /\ status' = (IF ok THEN 0 ELSE 1)

(* open_and_claim.                                                         *)
Open ==
    /\ pc = "start"
    /\ \/ End(FALSE)
       \/ Goto(IF app.cmd \in {"read", "write"} THEN "geometry" ELSE "query")
    /\ UNCHANGED <<setup, geo, i, buf, handle, pos, output, printed>>

(* The three commands that print an answer.                                *)
Query ==
    /\ pc = "query"
    /\ \/ End(FALSE) /\ UNCHANGED printed
       \/ End(TRUE) /\ printed' = "answer"
    /\ UNCHANGED <<setup, geo, i, buf, handle, pos, output>>

(* Mutant: the size of a block is not checked.                             *)
AnyBlock(g) ==
    app.lba < g.lastLBA /\ Add(app.lba, app.bc) <= g.lastLBA

(* The checks of the geometry and of the range: lastLBA is taken for the   *)
(* number of blocks.                                                       *)
InRange(g) ==
    /\ g.blockLen <= SectorLen
    /\ app.lba < g.lastLBA
    /\ Add(app.lba, app.bc) <= g.lastLBA

(* READ CAPACITY: what the device reports, or what the stack held.         *)
GetGeometry ==
    /\ pc = "geometry"
    /\ \/ End(FALSE) /\ UNCHANGED geo
       \/ /\ geo' \in Geometries
          /\ IF InRange(geo') THEN Goto("fopen") ELSE End(FALSE)
    /\ UNCHANGED <<setup, i, buf, handle, pos, output, printed>>

(* Mutant: the length of the input file is not looked at.                  *)
AnyLength == TRUE

(* scsi_write10 looks whether the input file has enough data behind the    *)
(* offset: in blocks of the device's size, with a product that wraps.      *)
EnoughData ==
    LET oflen == inlen % Word
    IN  /\ app.offset <= oflen
        /\ Mul(app.bc, geo.blockLen) <= Sub(oflen, app.offset)

(* fopen; for a write the checks of the input file and the seek.           *)
OpenFile ==
    /\ pc = "fopen"
    /\ \/ Goto("exit") /\ UNCHANGED <<handle, pos>>
       \/ /\ handle' = "open"
          /\ IF app.cmd = "write"
               THEN /\ pos' = IF app.offset <= inlen % Word THEN app.offset
                              ELSE inlen
                    /\ Goto(IF EnoughData THEN "loop" ELSE "exit")
               ELSE Goto("loop") /\ UNCHANGED pos
    /\ i' = app.lba
    /\ UNCHANGED <<setup, geo, buf, output, printed>>

InLoop(cmd) == pc = "loop" /\ app.cmd = cmd /\ i < Add(app.lba, app.bc)

(* Mutant: the buffer is written before it is filled.                      *)
ReadBlockLate ==
    /\ InLoop("read")
    /\ sent' = sent \cup Addressed(Read10(i, geo.blockLen))
    /\ \E data \in Answers(Read10(i, geo.blockLen)) :
           buf' = Fill(buf, data) /\ answered' = Append(answered, Len(data))
    /\ file' = file \o buf
    /\ i' = i + 1
    /\ Goto("loop")
    /\ UNCHANGED <<setup, geo, handle, pos, stored, printed>>

(* One block: its data goes to the start of the buffer, and all of the     *)
(* buffer to the file.                                                     *)
ReadBlock ==
    /\ InLoop("read")
    /\ sent' = sent \cup Addressed(Read10(i, geo.blockLen))
    /\ \/ Goto("exit") /\ UNCHANGED <<i, buf, file, answered>>
       \/ /\ \E data \in Answers(Read10(i, geo.blockLen)) :
                 /\ buf' = Fill(buf, data)
                 /\ answered' = Append(answered, Len(data))
          /\ file' = file \o buf'
          /\ i' = i + 1
          /\ Goto("loop")
    /\ UNCHANGED <<setup, geo, handle, pos, stored, printed>>

(* fread of a sector: less at the end of the file, which leaves the rest   *)
(* of the buffer as it was.                                                *)
NextSector ==
    [k \in 1..(IF inlen - pos < SectorLen THEN inlen - pos ELSE SectorLen) |->
        FileCell(pos + k)]

(* One block: a sector from the file, of which the device is sent as much  *)
(* as a block.  A write that fails may have been stored.                   *)
WriteBlock ==
    /\ InLoop("write")
    /\ buf' = Fill(buf, NextSector)
    /\ pos' = pos + Len(NextSector)
    /\ sent' = sent \cup Addressed(Write10(i, geo.blockLen))
    /\ LET block == [lba |-> Address(Write10(i, geo.blockLen)),
                     data |-> SubSeq(buf', 1, geo.blockLen)]
       IN \/ /\ stored' \in {stored, stored \cup {block}}
             /\ Goto("exit") /\ UNCHANGED i
          \/ /\ stored' = stored \cup {block}
             /\ i' = i + 1
             /\ Goto("loop")
    /\ UNCHANGED <<setup, geo, handle, file, answered, printed>>

(* Mutant: the loop ends one block early.                                  *)
LoopDoneEarly ==
    /\ pc = "loop"
    /\ ~(i + 1 < Add(app.lba, app.bc))
    /\ printed' = "done"
    /\ Goto("exit")
    /\ UNCHANGED <<setup, geo, i, buf, handle, pos, output>>

LoopDone ==
    /\ pc = "loop"
    /\ ~(i < Add(app.lba, app.bc))
    /\ printed' = "done"
    /\ Goto("exit")
    /\ UNCHANGED <<setup, geo, i, buf, handle, pos, output>>

(* Mutant: an exit that leaves the file open.                              *)
ExitLeavesOpen ==
    /\ pc = "exit"
    /\ End(FALSE)
    /\ UNCHANGED <<setup, geo, i, buf, handle, pos, output, printed>>

(* The label exit: close the file and return retval, still false.          *)
Exit ==
    /\ pc = "exit"
    /\ handle' = (IF handle = "open" THEN "closed" ELSE handle)
    /\ End(FALSE)
    /\ UNCHANGED <<setup, geo, i, buf, pos, output, printed>>

Next == \/ Open \/ Query \/ GetGeometry \/ OpenFile \/ ReadBlock \/ WriteBlock
        \/ LoopDone \/ Exit

(* A single thread: it goes on as long as it has something to do.          *)
Spec == Init /\ [][Next]_vars
FairSpec == Spec /\ WF_vars(Next)

-----------------------------------------------------------------------------
TypeOK ==
    /\ app \in Options /\ inlen \in InLengths
    /\ pc \in {"start", "query", "geometry", "fopen", "loop", "exit", "end"}
    /\ geo \in [lastLBA : Words, blockLen : Words]
    /\ i \in Words
    /\ buf \in Seq(Cell) /\ Len(buf) = SectorLen        \* never overrun
    /\ handle \in {"none", "open", "closed"}
    /\ pos \in 0..inlen
    /\ file \in Seq(Cell) /\ answered \in Seq(0..SectorLen)
    /\ stored \subseteq [lba : Words, data : Seq(Cell)]
    /\ sent \subseteq Words
    /\ printed \in {"nothing", "answer", "done"}
    /\ status \in {-1, 0, 1}

(* No block outside the range the user gave, or past the capacity the      *)
(* program was told, is ever asked for or overwritten, whatever wraps.     *)
SentInRange ==
    \A b \in sent : /\ app.lba <= b /\ b < geo.lastLBA
                    /\ b - app.lba < app.bc

(* At any moment the output file holds the blocks read so far, in order,   *)
(* each at a multiple of the sector size, whatever the block size is, and  *)
(* filled up with what the stack held.  Where the answer to a block ended  *)
(* early, the rest of the block is that of the one before.                 *)
ReadImage ==
    LET slot(n) == SubSeq(file, n * SectorLen + 1, (n + 1) * SectorLen)
    IN  /\ pc = "loop" /\ app.cmd = "read"
               => Len(file) = (i - app.lba) * SectorLen
        /\ app.cmd = "read" => \A n \in 0..(i - app.lba - 1), k \in 1..SectorLen :
               slot(n)[k] =
                   IF k <= answered[n + 1]
                   THEN [from |-> "device", at |-> app.lba + n, k |-> k]
                   ELSE IF n = 0 \/ k > geo.blockLen THEN Junk[k]
                   ELSE slot(n - 1)[k]

(* A device whose blocks are sectors is sent the file from the offset on,  *)
(* block by block without a gap, and never a cell the file does not have,  *)
(* as long as the size of the data is a word.                              *)
WriteImage ==
    geo.blockLen = SectorLen /\ app.bc * geo.blockLen < Word =>
        \A b \in stored : \A k \in 1..SectorLen :
            /\ b.data[k] = FileCell(app.offset + (b.lba - app.lba) * SectorLen + k)
            /\ b.data[k].at <= inlen

(* "done." means that every block of the range was moved, unless the range *)
(* wraps around the end of the address space, where nothing is.            *)
DoneIsComplete ==
    printed = "done" =>
        sent = IF app.lba + app.bc < Word
               THEN app.lba..(app.lba + app.bc - 1) ELSE {}

(* The program always ends, with the file closed.                          *)
Closed == handle # "open"
EndsClosed == <>(pc = "end" /\ Closed)

(* What the check at main.c:291 promises: a write for which the input file *)
(* has not enough data is refused, so what is written is from the file.    *)
WriteHasData ==
    \A b \in stored : \A k \in 1..Len(b.data) : b.data[k].from = "file"
===============================================================================
