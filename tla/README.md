# usbfw in TLA+

`usbfw` is a single-threaded C program that talks to media players built on
Actions Semiconductor chips: over a USB mass-storage interface it sends SCSI
commands and the vendor's own ones, and saves firmware, RAM or sectors to files.
Nothing in it runs concurrently, but it faces a device and a bus that fail,
answer late, answer short or not at all, at any point of a sequence of commands,
and it recovers from none of that inside a call. This directory models what it
does then, checks it with TLC, and proves with TLAPS that what the checks found of
small instances holds of every instance.

## The system

| Component | Source | State | Operations |
|---|---|---|---|
| Bulk-Only transport | `commands.c:1-142` | the static tag counter; what is left in the two pipes and in the device | `command_init`, `command_perform_generic_read`, `command_perform_generic_write`, `check_csw` |
| Command blocks | `commands.c:146-369` | none | `command_init_*` (opcode, length, LBA), `command_perform_*` (byte order of answers) |
| Firmware session | `main.c:325-710`, `main.c:841-937`, `fw.c` | command line, loop variables, the output file, return value | `action_headinfo`, `action_sysinfo`, `action_readfw`, `action_test_ramacc`, `action_readram`, `action_dumpraw`, `action_entry`; `init_act`, `search_alternate_fw`, `get_fw_size`, ... |
| AFI container | `afi.c` | `afi_header` in memory, the file, its stream position | `afi_new_file`, `afi_add_whole`, `afi_add_appended` |
| AFI dump | `main.c:712-839` | loop variables, running checksum | `action_dumpafi` |
| Mass-storage session | `main.c:88-323` | capacity, loop variables, files | `scsi_inquiry`, `scsi_read_capacity`, `scsi_read10`, `scsi_write10`, ... |
| USB context | `context.c`, `main.c:34-86` | `USB_BULK_CONTEXT`: handle, descriptor, claimed interface, endpoints | `init_`, `claim_`, `free_bulk_context`, `open_device`, `enumerate_devices` |
| Command line | `cmdline.c`, `tools.c:20-45`, `tools.c:283` | `APP_CONTEXT app` | `parseparams`, `parse_devid`, `confirm` |
| Formatting, checksums | `tools.c` | static text buffers, running checksum | `decode_*`, `make_*`, `checksum16`, `checksum32` |
| File inspectors | `tools/*.c` | an ACTOS file | stand-alone programs |

`main` parses the command line into `app`, initialises libusb and calls one
function for the command. That function opens and claims the device (USB
context), and sends one command after another: each is numbered and filled in by a
`command_init_*` and carried out by `command_perform_*`, which go through the
transport. The answers go to buffers on the caller's stack, from there to the
output file, for `--dump-afi` through the AFI container.

### What is hard, and what makes each component correct

* **Transport.** A transfer that times out may have been done, and its answer may
  come during the next command. Two pipes, a device that lags behind, a stall
  that outlasts the call it failed, tags that start over with each run. Correct means: success
  is reported only for a command the device executed with its own data, and the
  data in the caller's buffer is the answer to that command; and every call ends.
* **Session.** A failure at any command; an answer that comes short and leaves the
  rest of the last one in the buffer; 32-bit sums that wrap; `goto exit` against `return`.
  Correct means: the file is at any moment a prefix of what was asked for, "done."
  means all of it or what the disk took, the file is closed, the device detached, and nothing but a
  device that identified itself is sent firmware commands.
* **AFI.** The image is written to the file before its directory entry is computed;
  every change of the directory moves the stream. Correct means: at any moment,
  and so after any failure, the directory in the file describes the file.
* **Mass storage.** Geometry from the device, wrapping sums and products, a fixed
  `SECTOR_SIZE` in the file against a variable block size.
* **USB context.** Any of a dozen calls of libusb fails for any device; a failing
  function frees the context and its caller frees it again. Correct means: nothing
  is released twice or used without being held, it is known what stays open, and
  the device a command goes to is the one asked for, at endpoints that belong together.
* **Command line.** Options repeat and contradict each other, numbers are cut to
  32, 16 and 3 bits, and a second table repeats the letters of the first. Correct
  means: `app` is what the line says, and the usage text says what the line means.
* **Command blocks.** Two byte orders and two widths: the device must find the
  sector its caller named.

The complete list, line by line, is under `hazards` in `PROJECT.json`.

## The modules

| Module | What it is |
|---|---|
| `CommandChannel` | abstract: what the transport promises. Numbered commands, one call at a time, executed at most once and in order; success only for a command executed well |
| `BulkTransport` | `commands.c:1-142`: every transfer is an action that succeeds or fails, with the device and both pipes |
| `BulkTransportProofs` | theorems about `BulkTransport`, and that it implements `CommandChannel` |
| `CommandBlocks` | `commands.c:146-369`: the block each `command_init_*` fills in, and what a device reads in it |
| `CommandBlocksProofs` | theorems about `CommandBlocks` |
| `FirmwareSession` | one invocation with a firmware command; a command to the device is one step, as `CommandChannel` allows |
| `FirmwareSessionProofs` | theorems about `FirmwareSession` |
| `AfiArchive` | abstract: a list of members that only grows |
| `AfiContainer` | `afi.c`: the file as cells, the directory in memory and in the file, the stream position |
| `DumpAfi` | `action_dumpafi` on top of `AfiContainer` |
| `AfiContainerProofs` | lemmas about the operators of `AfiContainer`: writing, checksums |
| `DumpAfiProofs` | theorems about `DumpAfi`, and that it implements `AfiArchive` |
| `MassStorage` | `main.c:88-323`: one invocation with a standard SCSI command |
| `MassStorageProofs` | theorems about `MassStorage` |
| `CommandLine` | `cmdline.c`: from the options to `app`, or to the usage text |
| `UsbContext` | `context.c` and `enumerate_devices`: from the device list to a claimed interface and back |
| `Invocation` | `main`: composes `CommandLine` and `UsbContext`, up to the exit status |
| `InvocationProofs` | theorems about `Invocation` and the two modules it composes |
| `LeastNumber` | two lemmas on numbers that the inductions of the proofs use |
| `MC...` | the small instances TLC checks |

The layers meet in what they assume of each other. `BulkTransport` shows
(`FreshAnswer`, `WriteIntegrity`, `ImplementsChannel`) that a call fails or its
answer is its own; that is how `FirmwareSession` and `DumpAfi` model a command:
one action, which fails, or answers with the sector asked for, or (since the transport
only warns of a short packet) with the start of it, of any length from nothing on, before
what the buffer held. `FirmwareSession` and
`MassStorage` ask with the blocks of `CommandBlocks`, whose direction and length
are also the requests `MCBulkTransport` gives to `BulkTransport`; so the byte order
of an address is part of which sector a file gets. `Invocation` runs from the command
line to the device that is open, where the session modules begin (their `Open`),
and takes what they do as one step; the options they start from are values of the
`app` that `AppIsReading` is about.

### BulkTransport and the code

`Start` is `command_init`: the next tag, and a caller's buffer without an answer.
`SendCbw`, `SendData`, `RecvData`, `RecvCsw` are the `libusb_bulk_transfer` calls
in the order of `generic_read` and `generic_write`; the two functions differ
only in the direction of the data, so `pc` goes through "cbw", "data" (if the
length is not 0) and "csw" for both. A failing OUT transfer may or may not have
delivered its message (`Transmit`), a failing IN transfer may or may not have
consumed one (`ReceiveFails`); after any failure the call returns and leaves the
pipes as they are. `UnexpectedCsw` is the test at `commands.c:71-74`: 13 bytes,
shorter than what was asked for, with the signature. `CheckCsw` is `check_csw`.
After an unexpected CSW that is bad, `ClearHalt` is a step of its own
(`libusb_clear_halt`, `commands.c:80`): between the transfer and the clear the device may
stall, and the clear then ends a stall that no transfer has met.

The device is external. It reads the OUT pipe in order, executes one command at a
time, may skip the data phase, stall, or end with an error, and takes whatever
packet comes next as the data of a write; it may stop at any point for ever. It
does not report good status for a write whose data did not arrive. That
assumption is the only one `WriteIntegrity` makes about it.

A message is a record that says which command it belongs to; the tag is what the
code compares, the full command (with the run) is what the properties compare.
`log`, `behind` and `csw` are history: no guard reads them.

### FirmwareSession and the code

`pc` names the next step of the action function, `AfterInit` the way each one
goes on after `init_act`, and `Exit` the label `exit`, which all of them end at
but three: a range error and a failing `open_and_claim` (in `Open`), and the
unconfirmed `entry` (`Confirm`). A sector in memory or in the
file is a row of `SectorLen` units, each of which names the sector it was filled from;
`dumpbuffer` is `buf`, `Filled` puts the start of an answer into it, and `answered` records
how many units of each sector came. `uint32_t` sums are `Add`, modulo `Word`. The device
is a record: whether it is an Actions device, the header at sector 0, and the place
and the header of an alternate firmware. A header is its magic number and its
directory; `LastFile` is the loop of `get_fw_size` over it, `FwSize` the sum it
returns. The 16 sectors of a header are one step, after which it may be in part
what the stack held: `get_fw_size` then gives any of `StackSizes`, and `guessed`
is true.
The disk takes `room` sectors, and `Write` loses what comes after them, as the code
does, which then says "done." all the same.

### CommandBlocks and the code

An operator per `command_init_` function. A block has the four bytes at
`SCSI_PACKET_LBA` and the two at `SCSI_PACKET_LENGTH` in the order they are sent;
`Address`, `Count` and `Addressed` are the device, which reads the standard
commands big endian and its own little endian. `Byte` is a constant, so that a word
(`Byte`^4) is small in a run.

### AfiContainer and DumpAfi and the code

The file is a sequence of cells of 64 bytes, a cell's value the sum of its words,
so `checksum32` over a block is the sum of cells. `WriteAt` is `fseek` and
`fwrite`, with the hole a write past the end leaves. `dir` is `afi_header` in
memory, `header` the directory last written to the file. In `DumpAfi` the
firmware is written cell by cell at the stream position while `afi_offset` decides
later where the directory says it is: `ImageBehindMembers` relates the two. `Answered`
is `dumpbuffer` after an answer of any length: behind it the sector before, and in the first
round cells of 0 for what the stack held. The cells of the boot record and of the sysinfo
stand for whatever the reads left in memory.
The bound of the loop (`LoopEnd`) counts sectors in a word, and the length of the
entry (`ImageLength`) counts bytes in one, here cells below `Width`. `NoWrap` and
`Fits` say that neither wraps. Of a range that does, nothing is written, yet an entry
of full length is made; the sysinfo behind it then turns the gap into a hole. The offset
of the next member (`afi_offset`) can wrap too: `Overwrites` says when the sysinfo comes
to lie over the header or the boot record. `Kept` is the number of entries whose content
stays what it was, and `ImplementsArchive` is about these: all of them when
everything fits, the boot record alone when the image does not, none when the sysinfo may
come over that. `DumpAssumption` says of the sizes what they are in the code: header,
boot record and sysinfo together are below `Width`, and there are at least three slots.

### MassStorage and the code

`GetGeometry` is READ CAPACITY with the three checks of `scsi_read10` and
`scsi_write10` (`InRange`), `OpenFile` is `fopen` with, for a write, the checks of
the input file (`EnoughData`) and the seek; then `ReadBlock` or `WriteBlock` per
block. Files and buffers are sequences of cells that say where their content is
from: the device (block and place), the input file (place), or the stack.
A sector has `SectorLen` cells, a block as many as the device says: `Fill` puts
the block at the start of the buffer, and would make it longer if data overran
it, so `TypeOK` says that nothing does. `fread` takes a sector
(`NextSector`), the device gets a block of it. A block is answered as a whole or
in part (`Answers`). `sent`, `stored` and `answered` are history.

### CommandLine, UsbContext, Invocation and the code

`CommandLine` has one action per group of cases of `parseparams`: `SelectCommand`,
`SetFile`, `ParseDevid`, `SetLun`, `SetNumber`, `SetFlag`. An option is its name and
the numbers its argument stands for; `Returned` is `getopt_long` with the two option
tables of the code. `Help` and `Refuse` are the two ways the program ends there.

In `UsbContext`, `at` is the place in `context.c` or `enumerate_devices`; `want` tells the
two loops apart. `GetDescriptor`, `OpenHandle` and `GetConfiguration` are the calls of
`init_bulk_context`, `ScanSetting` its inner loop for one alternate setting, `Claim`,
`CompareId` and `Identify` what the callers do then. A context names its handle,
descriptor and claim by the number of the device, 0 for none; `handles`, `confs` and
`claims` are what libusb holds, and `misuse` becomes true if the program releases what it
does not hold. `actid` says whether the stack variable of this name spells ACTIONSUSBD:
`Identify` leaves it as it was, or filled, when the command fails or is answered short, so
that it may hold the answer of a device before. `found` is the count, as a set; `tested`,
`short` and `failed` are history.

`Invocation` is `main`: `Parse`, `LibusbInit`, `Dispatch` with the range check that
`action_readram` makes before it opens the device, `Context`, `Session`, `LibusbExit`.

## The runs

| Run | Question | Instance |
|---|---|---|
| `Transport` | Is a successful call's answer its own, does it return, does the transport implement `CommandChannel`? | 3 commands: without data, reads of 13 (identify) and 512 bytes, a write; packets of 0, 13 and 512 bytes |
| `TransportRerun` | And with a second process on the same device? | 2 runs of 2 commands, reads only |
| `TransportNoData` | Does a read without data fail? No: finding | 1 command |
| `Session` | What is in the file, what does "done." mean, does a dump hold the firmware, how does it end? | words of 8 bits, RAM of 6 sectors, ranges that wrap and that do not, all flags; nine directories, five alternate firmwares; a disk of 1 and of 8 sectors |
| `SessionAlternate`, `SessionStatus`, `SessionDetach` | Three statements of comments, messages and usage text the code does not keep: findings | as `Session` |
| `DumpAfi` | Is the container valid at any moment, and does it implement `AfiArchive`? | header of 3 cells, boot record of 2, sectors of 2, firmware of 0 to 3 sectors, and of 4, 5 and 7 in a file of at most 13 cells; one that passes the last of 16 sectors |
| `MassStorage` | Which blocks are asked for, what do file and device get, what does "done." mean? | 16-valued words, sectors of 2 cells, blocks of 0 to 3, capacities of 0, 3 and 8 blocks, 11 ranges of which three wrap, files of 0 to 19 cells |
| `MassStorageData` | Is all that is written from the input file? No: finding | as `MassStorage` |
| `Invocation` | Does `app` say what the line says, what stays open, is the right device used, does it end? | lines of up to three of 28 options with an empty bus; four lines with every bus of up to three of six devices |
| `InvocationUsage` | Does a long name run the command the usage text gives it? No: finding | one line per option, and pairs |

**Bounds.** `MaxTag` = 3 lets an answer that was given up meet a next command and
one after that, with one more behind it in the device; the proofs remove the
bound for all the properties they cover. `MaxRun` = 2 is the least that repeats a
tag. In `Session` a byte has 2 bits, so a word has 8 and the 16-bit sector of a RAM command
4: the RAM sectors need both of its bytes. Ranges end
below, at, and beyond the top, and around `RamLimit`; the search interval has an
alternate firmware at its first and last sector, and outside of it. The directories
list files in order, out of order, at offset 0, at one offset, free, and so long that
the size wraps. In `DumpAfi`
three sectors give a first, a middle and a last one. In `Invocation` three options are
enough for one to contradict another and a third to end the line, and three devices
for one to be passed over, one to fail and one to be used; words have 6 bits and
halves 3, so that a number can fit both, one or none. In `MassStorage` the block
sizes are nothing, half a sector, a sector, and too much; the input files end
before, within and behind the data, and one is longer than a word can count.

**Deadlock** is not checked: the program ends, and a device may stay silent.

**Fairness.** `BulkTransport`: weak fairness of the program's transfers only
(`HostStep`), because every `libusb_bulk_transfer` has the timeout `USB_TIMEOUT`
and so comes back, and `libusb_clear_halt` is a request of the host controller that comes back
as well; none for the device, and none for the caller. `FirmwareSession`,
`DumpAfi`, `MassStorage` and `Invocation`: weak fairness of `Next`, one thread whose every call returns, which
`CallsReturn` shows of the transport.

## Findings

* A read can succeed without data (`TransportNoData`): the check that should
  notice covers an answer that is a CSW, not an empty or short packet.
* `--alternate` without an alternate firmware uses the main one
  (`SessionAlternate`): "not found" is 0, the callers test for 0xFFFFFFFF twice.
* A complete read exits with status 1 (`SessionStatus`).
* An unconfirmed `entry` leaves the device attached and in firmware mode despite
  `--detach` (`SessionDetach`).
* A write can store what was never in the input file (`MassStorageData`): the
  product of block count and block size wraps, and blocks smaller than a sector
  take a sector each from the file.
* `--entry` enumerates the devices (`InvocationUsage`): the table of long options
  gives it the letter of `--enumerate-devices`. `--inquiry` is misspelt there.

Two results are recorded in properties that hold. `LeftOpen`: `open_device` leaves every
suitable device it passes over open, and no function closes the device a command used,
whose interface stays claimed: when `main` calls `libusb_exit`, these are open and nothing
else is. `EntriesDescribeFile`: an image whose range wraps is entered without being
written.

## What is proved

Every property the passing runs check is proved for every value of the constants but
for two kinds: what must eventually happen, and what the findings refute. The
assumptions are those the modules state on their constants, which TLC evaluates in the
runs; they bound nothing but the width of the types in the code. So the number of
commands, of processes, of options, of devices, settings and endpoints, the size of a byte,
a word, a sector and a file, and the length of every loop are arbitrary.

| Module | Theorem | States |
|---|---|---|
| `BulkTransportProofs` | `TypeCorrect` | the type invariant, for `RerunSpec` (and so for `Spec`) |
| | `FreshAnswers` | a read that returned 0 has its own command's answer |
| | `WritesAreExecuted` | a write that returned 0 was executed with its own data |
| | `LateCallsFail` | a call that begins when the device is behind does not return 0 |
| | `StallsOutlastCalls` | while the endpoint is stalled no call returns 0, and the stall ends only in the clear after a bad CSW, of a call that was behind (an action property) |
| | `CoherentAnswers` | over several runs: data and status belong to one command |
| | `StaleAnswersNeedBacklog` | over several runs: a foreign answer needs a device that was behind |
| | `TransportImplementsChannel` | refinement: the transport implements `CommandChannel` |
| `CommandBlocksProofs` | `OneSectorAddressed` | the device finds in a read or write of one sector, of either byte order, the sector named and no other |
| | `RamSectorAddressed` | and in a RAM command, if the sector has 16 bits |
| `FirmwareSessionProofs` | `TypeCorrect` | no sum leaves its word |
| | `PrefixKept` | at any moment the file has the first sectors asked for, each as far as it was answered, then the rest of the one before |
| | `DoneCorrect` | "done." stands for all of it, what the disk took, or nothing if the range wraps |
| | `DumpCovers` | a raw dump that is done has every file of the directory |
| | `RamRespected` | no sector outside of the RAM is in a file |
| | `EndIsClean` | at the end the file is closed and the device detached |
| | `OthersUntouched` | a device that is not an Actions device is only asked, and detached |
| `DumpAfiProofs` | `TypeCorrect` | the type invariant |
| | `EntriesCorrect` | at any moment the directory in the file describes the file |
| | `ImageInPlace` | the image is written where its entry will say |
| | `ReadyCorrect` | "ready" stands for the three members and nothing else |
| | `PartialUnlisted` | an image is entered whole or not at all |
| | `DumpImplementsArchive` | refinement: the dump implements `AfiArchive` |
| | `ClosedAtEnd` | at the end the file is closed |
| `MassStorageProofs` | `TypeCorrect` | no buffer is overrun, no loop variable leaves its word |
| | `RangeRespected` | only blocks of the user's range and below the capacity are asked for |
| | `DoneCorrect` | "done." stands for the whole range, or for nothing if the range wraps |
| | `ReadKept` | at any moment the file holds the blocks read, in order, each as far as it was answered, filled up to sectors |
| | `WriteKept` | the device is sent the file from the offset on, if its blocks are sectors and the size of the data is a word |
| | `ClosedAtEnd` | at the end no file is open |
| `InvocationProofs` | `TypeCorrect` | the type invariant of `Invocation` and its parts |
| | `ReadingCorrect` | `app` says what the options read so far say |
| | `NothingMisused` | nothing is released twice, or released without being held |
| | `LeftOpenExactly` | open are exactly the devices `open_device` passed over and the one in use, until the program ends |
| | `OneSettingUsed` | interface and endpoints are of one mass-storage setting |
| | `AskedDeviceUsed` | a command works on the first usable device with the id asked for, or is refused for a reason |
| | `AllVisited` | an enumeration tests every usable device that no call failed for |
| | `StatusJustified` | exit status 0 comes from the usage text, a full enumeration, or an answer |

None of these properties is inductive as it stands: each speaks of the moment after a
call or at a message. What follows is the invariant each proof adds, and why.

### BulkTransport

`PairInv` says that a data message in the IN pipe, or one just
read into the caller's buffer, is followed by the status of its own command (in the
pipe or still to come from the device). `CallInv` carries the phases of a call: no
answer before the data phase, one after it. From the two, a status read after data
belongs to the command of the data: coherence, over any number of runs. `OwnInv`
says that a call that starts when the device has caught up meets no messages but
its own: a foreign answer needs a backlog. `IdInv` is about one run, where no tag is
used twice: whatever is in the pipes, in the device or in `csw` and has the tag of
the current command is of this command (`Known`), and a good status of a write is
one the device gave after taking its data (`Vouched`). So the tag check of
`check_csw` turns coherence into `FreshAnswer`, and its status check gives
`WriteIntegrity`.

`OrderInv` says that tags rise: along each pipe, and from what was executed over what is
being served to what waits; what was answered was executed. It is what makes "at most once
and in order" of `CommandChannel` hold, whose steps the host's and the device's are
(`ChannelStep`: a call of the channel is a `Start`, an execution a `DevStatus`, a return a
transfer that ends the call, well or not; anything else is a stutter). `DebtInv` says
that, when the call began behind, something older than its tag is still answered, served
or waiting, until a status was taken for data. The answer the call reads is then the older
one, and its tag gives it away: `StaleStartFails`. The step before `libusb_clear_halt` is
left out of it, since there the older status was just read. `ClearInv` is about that step:
a call that was not behind has read its own status there, so by `OwnInv` and `OrderInv`
the device is through with everything and not stalled (`CaughtUp`). So the clear ends a
stall only in a call that was behind, which is what `StallOutlastsCalls` says besides that
no stalled transfer succeeds.

### CommandBlocks

By Horner's rule (`FourBytes`) from division with remainder (`ShiftLow`), where
`LastByte` says that three shifts of a word leave a byte. The proofs about sessions use
it: what `SentInRange` and `FileIsPrefix` say is of the blocks the device finds in
the command, not of the ones the program meant.

### FirmwareSession

`IInv` has four parts besides the types. `StageInv` says what a place in the program implies
of the command line and the file: nothing is in the file before the loop, and a RAM range
that is out of bounds is only met before its check or after the end. `SentInv` says what
the device was sent by then. `LoopInv` gives the loop: `i` is between the bounds, the
file has as many sectors as were read or as the disk has room for, and the buffer is the last
of them while there is room, the rest of which a short answer leaves there; each of its
units is of a sector of the RAM, if the RAM is read. `SizeInv` says that the
size of a raw dump is 0 or the one of the directory in its header. A range that wraps
(`WordSums`) ends below its start, so that the loop does nothing. For `DumpCovers`,
`LastFileFacts` says what the loop of `get_fw_size` finds, whatever order the directory
has: no file it compares begins behind the one it returns; so files apart from each
other end before that one begins (`SizeCoversFiles`).

### DumpAfi

`AfiContainerProofs` has the file as a sequence of cells: what a write behind the end, at
the end and within the file changes (`WriteBehind`, `WriteAtEnd`, `WriteKeeps`), that
rewriting the header leaves the members (`HeaderRewritten`), and that the checksum of two
pieces is the sum of theirs (`ChecksumConcat`): that is why the sum over sectors is the
checksum of the image. In `DumpAfiProofs`, `StageInv` is a list of the four directories a
file can have (`Empty`, `Started`, `Imaged`, `Complete`), each with the file that goes
with it: boot record, image, sysinfo. `LoopInv` ties the sectors read to the running
checksum and the stream position. The invariants of the module are read off each of the
four, and so is the refinement: a step from one directory to the next adds a member and
leaves the earlier ones (`KeptNext`), where `Overwrites` does not say otherwise.

### MassStorage

Types alone are not inductive: `RangeInv` adds that between the check and the end of
the loop the geometry is one that passed `InRange`, so the buffer holds a block
and `i + 1` is at most the bound, a word. `SentInv` says that the blocks
asked for are those from the first to the one before `i`, `DoneInv` that the loop
never overshoots. A range that wraps ends below its start, so
the interval is empty and both properties hold of it. For the contents, `ReadInv` says that
the buffer is the last slot of the file, and behind a block still what the stack held: so
an answer of any length leaves before that the rest of the last block.
`WriteInv` says that the stream stands behind the sectors already sent and that the
input file has all that is left, which the check before the loop established.

### Invocation

The reading of a line is stated on lines alone (`ReadingIn`): which option counts, what it
says. `ParserReads` shows that each case of `parseparams` changes `app` as one more option
changes the reading (`ReadingNext`). For the context, `BooksInv` says that what libusb
holds open is what `uctx` names and the devices passed over (`Passed`), `PlaceInv` what is
held at each place of `context.c`, so that `free_bulk_context` can be shown to release
exactly that (`FreeReleases`), once, though callee and caller both call it. `VisitInv`
says what became of the devices the loop went past: not usable, failed, tested, or with
another id; its part `TestInv` says that `actid` is the answer of a device tested by then.
`OpenInv` adds to `BooksInv` the other inclusion: a device passed over has not failed and
is still held, and the list is allocated as long as one of the loops goes on (`Looping`);
the two together make `LeftOpen` an equality. `VisitInv` is about sets of devices and not
about a count, so no induction over the bus is needed.

### How inductions are done, and what stays with TLC

The theorems of the library on induction take an operator, which no prover here can
instantiate. `LeastNumber` has the same fact for sets, where it can be used: a set of
numbers that has 0 and with each number its successor has all of them (`SetInduction`),
and a set of numbers that is not empty has a least one (`LeastNatural`), for what the
models define by CHOOSE. The one recursion, `Checksum`, is a recursive function:
`SumExists` shows that there is one, `ChecksumIs` that it is this one.

TLC alone checks what must eventually happen: `CallsReturn` of the transport, and that the
programs end (`Ends`, `EndsClean`, `EndsClosed`, `Terminates`). Liveness needs ENABLED, which
the provers do not treat. Each of the last three says two things, that the program ends and
in which state; the second one is the safety property `[](pc = "end" => ...)` and is
proved (`ClosedAtEnd` twice, `StatusJustified`). TLC alone also shows the findings,
by a behaviour each.

## Not modelled

* The contents of messages beyond who they belong to, texts, spinners and colours,
  the `decode_*` functions: they only produce output.
* The result of `fwrite` (a full disk), which the code does not look at: `FirmwareSession`
  has it, but for whole sectors; the files of `DumpAfi` and `MassStorage` take every
  write.
* `getopt_long` beyond what the program sees of it: abbreviated long names, words that
  are not options, and `--`.
* The byte swaps of the two capacity answers: a geometry is the words the program works
  with.
* The reaction of a device to transfers on an alternate setting that was never selected
  (`context.c:54`): no code of the repository says anything about it.
* The number of the interface: `context.c:47` stores the index in the configuration, which
  `context.c:95` claims as `bInterfaceNumber`; a model interface has one number for both.
* What `libusb_exit` does with the handles that are still open.
* File names: which of its two names a function opens is seen only in the default
  (`scsi_write10` opens `read_out.bin`).
* The file inspectors of `tools/`: stand-alone programs without state of their own. The
  one piece of control in them, the walk over the banks of a driver, is listed as a
  hazard.

## Plan

1. *Done*: transport with its abstract channel, command blocks, firmware session with
   its directories, AFI container and dump with wrapping words, mass-storage session, USB
   context, command line and their composition.
2. *Done*: proofs of every safety invariant, of the action property and of both
   refinements.
3. Left: that the transport, at the return of a call, gives the session module one of the
   answers its command steps allow, as a refinement of its own; action properties of the sessions (nothing is
   asked for after a failure, a file only grows); the walk over the banks in `tools/drvinfo.c`;
   the abbreviations of long options.
