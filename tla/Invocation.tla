------------------------------- MODULE Invocation -------------------------------
(***************************************************************************)
(* main: one invocation of the program, from its command line over the     *)
(* device it opens to its exit status.  CommandLine reads the line, and    *)
(* UsbContext enumerates the devices or opens the one asked for.  What a   *)
(* command does with an open device is FirmwareSession, DumpAfi and        *)
(* MassStorage; here it is one step that returns true or false.            *)
(***************************************************************************)
EXTENDS CommandLine, UsbContext

CONSTANTS
    Invocations,    \* what may be started: [line, bus]
    RamLimit        \* 0x800, the sectors of RAM

ASSUME InvocationAssumption ==
    Invocations \subseteq [line : Seq(Options), bus : Seq(UsbDevices)]

vars == <<lineVars, contextVars>>

Init ==
    \E v \in Invocations : LineInit(v.line) /\ ContextInit(v.bus)

Parse == ParseStep /\ UNCHANGED contextVars

Goto(p) == pc' = p /\ UNCHANGED status

LibusbInit ==
    /\ pc = "init"
    /\ \/ pc' = "end" /\ status' = 255
       \/ Goto("dispatch")
    /\ UNCHANGED <<argv, optind, app, contextVars>>

(* The functions whose retval becomes true when the device answered.  The  *)
(* others return the false they start with.                                *)
ScsiAnswers == {"inquiry", "fcapacity", "capacity"}
ActAnswers == {"headinfo", "sysinfo"}
Succeeding == ScsiAnswers \cup ActAnswers

Return(result) == pc' = "exit" /\ status' = IF result THEN 0 ELSE 1

OutOfRam ==
    app.cmd = "readram"
        /\ (app.lba >= RamLimit \/ (app.lba + app.bc) % Word > RamLimit)

(* The switch of main and the start of each function: enumerate_devices, or*)
(* open_and_claim of the device named on the line.                         *)
Dispatch ==
    /\ pc = "dispatch"
    /\ IF OutOfRam THEN Return(FALSE) /\ UNCHANGED <<want, at>>
       ELSE /\ Goto("context")
            /\ Continue(IF app.cmd = "enumerate" THEN AnyDevice
                        ELSE <<app.vid, app.pid>>)
    /\ UNCHANGED <<argv, optind, app, devices, n, setting, uctx, books, counts>>

Context == pc = "context" /\ ContextStep /\ UNCHANGED lineVars

(* Back in main, or in the function that called open_and_claim.            *)
ContextDone ==
    /\ pc = "context"
    /\ \/ at = "enumerated" /\ Return(TRUE)
       \/ at = "refused" /\ Return(FALSE)
       \/ at = "opened" /\ Goto("session")
    /\ UNCHANGED <<argv, optind, app, contextVars>>

(* The rest of the function.  No function frees the context of its device. *)
Session ==
    /\ pc = "session"
    /\ \E result \in {FALSE, app.cmd \in Succeeding} : Return(result)
    /\ UNCHANGED <<argv, optind, app, contextVars>>

LibusbExit ==
    /\ pc = "exit"
    /\ Goto("end")
    /\ UNCHANGED <<argv, optind, app, contextVars>>

Next ==
    \/ Parse \/ LibusbInit \/ Dispatch \/ Context \/ ContextDone \/ Session
    \/ LibusbExit

(* One thread, each of whose calls returns.                                *)
Spec == Init /\ [][Next]_vars
FairSpec == Spec /\ WF_vars(Next)

-----------------------------------------------------------------------------
TypeOK ==
    LET N == 0..Len(devices)
        Addr == 0..255
    IN
    /\ optind \in 1..(Len(argv) + 1)
    /\ app \in [cmd : Commands \cup {"none"}, ofilename : Nat,
                ifilename : Nat, offset : Words, isdev : BOOLEAN,
                vid : Halves, pid : Halves, lun : 0..MaxLun, lba : Words,
                bc : Words, logical : BOOLEAN, showdir : BOOLEAN,
                detach : BOOLEAN, alt : BOOLEAN, yes : BOOLEAN,
                entry_param : Halves]
    /\ pc \in {"parse", "init", "dispatch", "context", "session", "exit", "end"}
    /\ status \in {-1, 0, 1, 255} /\ (pc \in {"exit", "end"} <=> status # -1)
    /\ want \in {AnyDevice} \cup (Halves \X Halves)
    /\ at \in {"idle", "list", "next", "descriptor", "open", "config", "scan",
               "unsuitable", "compare", "claim", "identify", "refused",
               "opened", "enumerated"}
    /\ n \in 1..(Len(devices) + 1) /\ setting \in Nat
    /\ uctx \in [dev : N, handle : N, conf : N, interface : Nat,
                 claimed : BOOLEAN, in : Addr, out : Addr]
    /\ listed \in BOOLEAN /\ misuse \in BOOLEAN /\ actid \in BOOLEAN
    /\ \A set \in {handles, confs, claims, found, tested, short, failed} :
           set \subseteq N \ {0}

(* However the line, the bus and the calls of libusb go, the program ends; *)
(* and with status 0 only after the usage text, an enumeration of all      *)
(* devices, or an answer of the device that was asked for.                 *)
Justified ==
    status = 0 => \/ at = "idle" /\ ~(optind > Len(argv) /\ app.cmd # "none")
                  \/ at = "enumerated" /\ n = Len(devices) + 1
                  \/ at = "opened" /\ app.cmd \in Succeeding
Terminates == <>(pc = "end" /\ Justified)

(* The commands of the usage text of cmdline.c:45-73, by their long names. *)
UsageText ==
    [enumerate_devices |-> "enumerate", inquiry |-> "inquiry",
     capacity |-> "capacity", format_capacity |-> "fcapacity",
     header_info |-> "headinfo", sys_info |-> "sysinfo", read |-> "read",
     write |-> "write", read_fw |-> "readfw", test_ram_access |-> "ramacc",
     read_ram |-> "readram", dump_raw_fw |-> "dumpraw",
     dump_afi_fw |-> "dumpafi", entry |-> "entry"]

(* What the usage text of cmdline.c:45 says of the commands: a line that is*)
(* accepted with one of them runs this command.                            *)
UsageKept ==
    pc = "dispatch" =>
        \A k \in 1..Len(argv) : argv[k].name \in DOMAIN UsageText
            => app.cmd = UsageText[argv[k].name]
===============================================================================
