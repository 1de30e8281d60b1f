------------------------------ MODULE CommandLine ------------------------------
(***************************************************************************)
(* parseparams of cmdline.c: the command line, option by option, becomes   *)
(* the structure app, or the program ends with a message or the usage text.*)
(*                                                                         *)
(* An option is a name, short or long, and an argument.  The argument is a *)
(* sequence of numbers: none; the one that strtoul makes of it, or the     *)
(* place of a file name among the names given; the two of a device id, one *)
(* of which is missing when it has no colon.  Words of the line that are   *)
(* not options are ignored by getopt_long and left out here, and only the  *)
(* last option can lack an argument: before it, the next word is taken.    *)
(***************************************************************************)
EXTENDS Integers, Sequences

CONSTANTS
    Word,       \* 2^32, the range of a uint32_t
    Half        \* 2^16, the range of a uint16_t

ASSUME WidthAssumption == Half \in Nat \ {0, 1} /\ Word \in Nat /\ Word >= Half

VARIABLES
    argv,       \* the options on the command line
    optind,     \* getopt's place in them
    app,        \* the structure of main.c
    pc,         \* what the program does next
    status      \* exit status of the process, -1 while it runs

lineVars == <<argv, optind, app, pc, status>>

Words == 0..(Word - 1)
Halves == 0..(Half - 1)
Options == [name : STRING, arg : Seq(Nat)]
DefaultName == 0        \* read_out.bin or write_in.bin
MaxLun == 7

Commands == {"enumerate", "inquiry", "capacity", "fcapacity", "headinfo",
             "sysinfo", "read", "write", "readfw", "ramacc", "readram",
             "dumpraw", "dumpafi", "entry"}

Defaults == [cmd |-> "none", ofilename |-> DefaultName,
             ifilename |-> DefaultName, offset |-> 0, isdev |-> FALSE,
             vid |-> 0, pid |-> 0, lun |-> 0, lba |-> 0, bc |-> 1,
             logical |-> TRUE, showdir |-> FALSE, detach |-> FALSE,
             alt |-> FALSE, yes |-> FALSE, entry_param |-> 0]

-----------------------------------------------------------------------------
(* getopt_long: the letters of its third argument, and the table longopt   *)
(* with the letter each long name stands for.                              *)
ShortOptions == {"f", "e", "d", "l", "L", "c", "i", "C", "F", "I", "S", "r",
                 "w", "R", "T", "M", "P", "A", "E", "O", "p", "o", "s", "D",
                 "a", "h", "?"}
ShortArgs == {"f", "d", "l", "L", "c", "E", "o"}

longopt ==
    [enumerate_devices |-> "e", inqiry |-> "i", capacity |-> "C",
     format_capacity |-> "F", header_info |-> "I", sys_info |-> "S",
     read |-> "r", write |-> "w", read_fw |-> "R", test_ram_access |-> "T",
     read_ram |-> "M", dump_raw_fw |-> "P", dump_afi_fw |-> "A",
     entry |-> "e", help |-> "h", file |-> "f", device |-> "d", lun |-> "L",
     lba |-> "l", block_count |-> "c", logical |-> "O", physical |-> "p",
     offset |-> "o", show_dir |-> "s", detach |-> "D", alternate |-> "a",
     yes_i_know_what_im_doing |-> "yes"]
LongArgs == {"entry", "file", "device", "lun", "lba", "block_count", "offset"}

(* What getopt_long returns for an option: "?" when it does not know it or *)
(* its argument is missing.                                                *)
Returned(token) ==
    IF token.name \in ShortArgs \cup LongArgs /\ token.arg = <<>> THEN "?"
    ELSE IF token.name \in DOMAIN longopt THEN longopt[token.name]
    ELSE IF token.name \in ShortOptions THEN token.name ELSE "?"

-----------------------------------------------------------------------------
LineInit(line) ==
    /\ argv = line
    /\ optind = 1
    /\ app = Defaults
    /\ pc = "parse"
    /\ status = -1

Parsing == pc = "parse" /\ optind <= Len(argv)
optarg == argv[optind].arg
Opt == Returned(argv[optind])

(* The program ends while it reads the command line.                       *)
ExitWith(code) ==
    /\ pc' = "end" /\ status' = code
    /\ UNCHANGED <<argv, optind, app>>

(* The label help: the usage text, and status 0 although it is an error.   *)
Help == ExitWith(0)

(* exit(-1), of which the parent sees 8 bits.                              *)
Refuse == ExitWith(255)

Take(newApp) ==
    /\ app' = newApp
    /\ optind' = optind + 1
    /\ UNCHANGED <<argv, pc, status>>

CommandOf ==
    [e |-> "enumerate", i |-> "inquiry", C |-> "capacity", F |-> "fcapacity",
     I |-> "headinfo", S |-> "sysinfo", r |-> "read", w |-> "write",
     R |-> "readfw", T |-> "ramacc", M |-> "readram", P |-> "dumpraw",
     A |-> "dumpafi", E |-> "entry"]

(* One command only; the entry command has a parameter of 16 bits.         *)
SelectCommand ==
    /\ Parsing /\ Opt \in DOMAIN CommandOf
    /\ IF app.cmd # "none" THEN Help
       ELSE Take([app EXCEPT !.cmd = CommandOf[Opt],
                             !.entry_param = IF Opt = "E" THEN optarg[1] % Half
                                             ELSE @])

AskForHelp == Parsing /\ Opt \in {"?", "h"} /\ Help

(* One name for the file that is read and the file that is written.        *)
SetFile ==
    /\ Parsing /\ Opt = "f"
    /\ Take([app EXCEPT !.ofilename = optarg[1], !.ifilename = optarg[1]])

(* parse_devid: two numbers, of which strtoul's 64 bits are cut to 32      *)
(* before they are compared with 16.                                       *)
ParseDevid ==
    LET half(k) == optarg[k] % Word
    IN  /\ Parsing /\ Opt = "d"
        /\ IF Len(optarg) = 2 /\ half(1) \in Halves /\ half(2) \in Halves
             THEN Take([app EXCEPT !.vid = half(1), !.pid = half(2),
                                   !.isdev = TRUE])
             ELSE Refuse

(* Mutant: the number is looked at after it was cut to three bits.         *)
SetLunCut ==
    /\ Parsing /\ Opt = "L"
    /\ IF optarg[1] % (MaxLun + 1) > MaxLun THEN Refuse
       ELSE Take([app EXCEPT !.lun = optarg[1] % Word])

SetLun ==
    /\ Parsing /\ Opt = "L"
    /\ IF optarg[1] % Word > MaxLun THEN Refuse
       ELSE Take([app EXCEPT !.lun = optarg[1] % Word])

SetNumber ==
    /\ Parsing
    /\ \/ Opt = "l" /\ Take([app EXCEPT !.lba = optarg[1] % Word])
       \/ Opt = "c" /\ Take([app EXCEPT !.bc = optarg[1] % Word])
       \/ Opt = "o" /\ Take([app EXCEPT !.offset = optarg[1] % Word])

(* Mutant: -O only repeats the default and does not take back a -p.        *)
SetFlagDefault ==
    /\ Parsing
    /\ \/ Opt = "O" /\ Take(app)
       \/ Opt = "p" /\ Take([app EXCEPT !.logical = FALSE])
       \/ Opt = "s" /\ Take([app EXCEPT !.showdir = TRUE])
       \/ Opt = "D" /\ Take([app EXCEPT !.detach = TRUE])
       \/ Opt = "a" /\ Take([app EXCEPT !.alt = TRUE])
       \/ Opt = "yes" /\ Take([app EXCEPT !.yes = TRUE])

SetFlag ==
    /\ Parsing
    /\ \/ Opt = "O" /\ Take([app EXCEPT !.logical = TRUE])
       \/ Opt = "p" /\ Take([app EXCEPT !.logical = FALSE])
       \/ Opt = "s" /\ Take([app EXCEPT !.showdir = TRUE])
       \/ Opt = "D" /\ Take([app EXCEPT !.detach = TRUE])
       \/ Opt = "a" /\ Take([app EXCEPT !.alt = TRUE])
       \/ Opt = "yes" /\ Take([app EXCEPT !.yes = TRUE])

(* getopt_long returns -1: parseparams returns if there is a command.      *)
EndOfLine ==
    /\ pc = "parse" /\ optind > Len(argv)
    /\ IF app.cmd = "none" THEN Help
       ELSE pc' = "init" /\ UNCHANGED <<argv, optind, app, status>>

ParseStep ==
    \/ SelectCommand \/ AskForHelp \/ SetFile \/ ParseDevid \/ SetLun
    \/ SetNumber \/ SetFlag \/ EndOfLine

-----------------------------------------------------------------------------
(* The options read so far that the parser returned one of letters for,    *)
(* and the argument of the last of them.                                   *)
Given(letters) == {k \in 1..(optind - 1) : Returned(argv[k]) \in letters}
LastGiven(letters) ==
    argv[CHOOSE k \in Given(letters) : \A m \in Given(letters) : m <= k]
Argument(letter, width, default) ==
    IF Given({letter}) = {} THEN default ELSE LastGiven({letter}).arg[1] % width

(* The structure the session works with says what the line says: of an     *)
(* option given twice the last one counts, of -O and -p the later one, but *)
(* a command is given only once; numbers lose what does not fit, an id and *)
(* a LUN that do not fit are never taken; what is not given has its default*)
AppIsReading ==
    /\ app.lba = Argument("l", Word, 0) /\ app.bc = Argument("c", Word, 1)
    /\ app.offset = Argument("o", Word, 0)
    /\ app.lun = Argument("L", Word, 0) /\ app.lun <= MaxLun
    /\ {app.ofilename, app.ifilename} = {IF Given({"f"}) = {} THEN DefaultName
                                         ELSE LastGiven({"f"}).arg[1]}
    /\ IF Given({"d"}) = {} THEN app.vid = 0 /\ app.pid = 0
       ELSE LET id == LastGiven({"d"}).arg
            IN  Len(id) = 2 /\ app.vid = id[1] % Word /\ app.pid = id[2] % Word
    /\ app.vid \in Halves /\ app.pid \in Halves
    /\ app.isdev <=> Given({"d"}) # {}
    /\ app.logical <=> IF Given({"O", "p"}) = {} THEN TRUE
                       ELSE Returned(LastGiven({"O", "p"})) = "O"
    /\ app.detach <=> Given({"D"}) # {}
    /\ app.alt <=> Given({"a"}) # {}
    /\ app.yes <=> Given({"yes"}) # {}
    /\ app.showdir <=> Given({"s"}) # {}
    /\ app.entry_param = Argument("E", Half, 0)
    /\ IF Given(DOMAIN CommandOf) = {} THEN app.cmd = "none"
       ELSE /\ app.cmd = CommandOf[Returned(LastGiven(DOMAIN CommandOf))]
            /\ \A k, m \in Given(DOMAIN CommandOf) : k = m
===============================================================================
