----------------------------- MODULE BulkTransport -----------------------------
(***************************************************************************)
(* The Bulk-Only transport of commands.c: command_init numbers a command   *)
(* block (CBW), command_perform_generic_read and _write send it on the OUT *)
(* pipe, move the data and read the command status (CSW) from the IN pipe. *)
(*                                                                         *)
(* Every libusb_bulk_transfer may fail, and a transfer that fails may      *)
(* still have moved its message (a timeout racing the device) or not.  A   *)
(* call that fails returns at once: it neither resets the device nor drains*)
(* the pipes, so what it left there meets the next command.  The two pipes *)
(* and the device are external; the device answers commands one by one in  *)
(* the order it reads them.                                                *)
(*                                                                         *)
(* Each bulk message ends with a short packet, so two messages are never   *)
(* merged into one transfer.  No data packet spells out a CSW; one that is *)
(* read as the CSW leaves the rest of the structure as the stack had it,   *)
(* at best an earlier CSW, whose tag is not the one check_csw wants.       *)
(***************************************************************************)
EXTENDS Integers, Sequences

CONSTANTS
    Requests,   \* the commands callers make: direction and data length
    Sizes,      \* the lengths of the data packets a device may return
    MaxTag,     \* bound: commands per process
    MaxRun      \* bound: processes (invocations of the program)

CswSize == 13

ASSUME RequestsAssumption == Requests \subseteq [dir : {"in", "out"}, len : Nat]
ASSUME SizesAssumption == Sizes \subseteq Nat
ASSUME BoundsAssumption == MaxTag \in Nat /\ MaxRun \in Nat \ {0}

VARIABLES
    run,        \* the process: its static tag counter starts at 0 again
    tag,        \* command_init's static counter: the tag of the last CBW
    cmd,        \* the command in progress, or the last one
    pc,         \* what the call does next: "cbw", "data", "csw", "clear"
    buf,        \* the message the data phase left in the caller's buffer
    csw,        \* the last message read as a CSW by this call
    result,     \* what the call returned: 0 is "ok", anything else "error"
    behind,     \* history: the call started before the device had caught up
    devq,       \* OUT pipe: messages the device has not read
    dev,        \* the device: its phase, its command, whether it got its data
    inq,        \* IN pipe: messages the program has not read
    halted,     \* the IN endpoint is stalled
    log         \* history: the commands the device has finished

host == <<run, tag, cmd, pc, buf, csw, result, behind>>
vars == <<run, tag, cmd, pc, buf, csw, result, behind,
          devq, dev, inq, halted, log>>

Commands == [run : Nat, tag : Nat, dir : {"in", "out"}, len : Nat]
NoCommand == [run |-> 0, tag |-> 0, dir |-> "in", len |-> 0]

OutMessages == [kind : {"cbw", "data"}, of : Commands]
InMessages == [kind : {"none", "data", "csw"}, of : Commands,
               size : Nat, ok : BOOLEAN]
NoMessage == [kind |-> "none", of |-> NoCommand, size |-> 0, ok |-> FALSE]

Cbw(c) == [kind |-> "cbw", of |-> c]
DataOut(c) == [kind |-> "data", of |-> c]
DataIn(c, s) == [kind |-> "data", of |-> c, size |-> s, ok |-> FALSE]
Csw(c, ok) == [kind |-> "csw", of |-> c, size |-> CswSize, ok |-> ok]

IdleDevice == [phase |-> "idle", of |-> NoCommand, took |-> FALSE]

-----------------------------------------------------------------------------
(* Mutants of check_csw: the tag or the status is not looked at.           *)
CheckCswNoTag(m) == m.kind = "csw" /\ m.ok
CheckCswNoStatus(m) == m.kind = "csw" /\ m.of.tag = cmd.tag

(* check_csw: signature, tag and status.                                   *)
CheckCsw(m) == m.kind = "csw" /\ m.of.tag = cmd.tag /\ m.ok

Init ==
    /\ run = 1
    /\ tag = 0
    /\ cmd = NoCommand
    /\ pc = "idle"
    /\ buf = NoMessage
    /\ csw = NoMessage
    /\ result = "none"
    /\ behind = FALSE
    /\ devq = <<>>
    /\ dev = IdleDevice
    /\ inq = <<>>
    /\ halted = FALSE
    /\ log = {}

(* Mutant: the tag counts down.                                            *)
StartCountsDown(r) ==
    /\ pc = "idle"
    /\ tag < MaxTag
    /\ tag' = tag - 1
    /\ cmd' = [run |-> run, tag |-> tag - 1, dir |-> r.dir, len |-> r.len]
    /\ pc' = "cbw"
    /\ buf' = NoMessage /\ csw' = NoMessage
    /\ result' = "none" /\ behind' = FALSE
    /\ UNCHANGED <<run, devq, dev, inq, halted, log>>

(* command_init: a new tag, and the caller's buffer holds no answer yet.   *)
Start(r) ==
    /\ pc = "idle"
    /\ tag < MaxTag
    /\ tag' = tag + 1
    /\ cmd' = [run |-> run, tag |-> tag + 1, dir |-> r.dir, len |-> r.len]
    /\ pc' = "cbw"
    /\ buf' = NoMessage
    /\ csw' = NoMessage
    /\ result' = "none"
    /\ behind' = (\/ inq # <<>>
                  \/ dev.phase # "idle"
                  \/ \E i \in 1..Len(devq) : devq[i].kind = "cbw")
    /\ UNCHANGED <<run, devq, dev, inq, halted, log>>

Return(r) == pc' = "idle" /\ result' = r

Goto(p) == pc' = p /\ UNCHANGED result

(* An OUT transfer delivers the message or not, whatever the call says: a  *)
(* short one is only warned about, a timed out one may have been taken.    *)
Transmit(m) == devq' \in {devq, Append(devq, m)}

(* Mutant: the data phase is left out.                                     *)
SendCbwNoData ==
    /\ pc = "cbw"
    /\ Transmit(Cbw(cmd))
    /\ Return("error") \/ Goto("csw")
    /\ UNCHANGED <<run, tag, cmd, buf, csw, behind, dev, inq, halted, log>>

SendCbw ==
    /\ pc = "cbw"
    /\ Transmit(Cbw(cmd))
    /\ \/ Return("error")
       \/ Goto(IF cmd.len > 0 THEN "data" ELSE "csw")
    /\ UNCHANGED <<run, tag, cmd, buf, csw, behind, dev, inq, halted, log>>

SendData ==
    /\ pc = "data"
    /\ cmd.dir = "out"
    /\ Transmit(DataOut(cmd))
    /\ \/ Return("error")
       \/ Goto("csw")
    /\ UNCHANGED <<run, tag, cmd, buf, csw, behind, dev, inq, halted, log>>

(* An IN transfer into room bytes succeeds with the next message.          *)
Receive(room) ==
    /\ ~halted
    /\ inq # <<>>
    /\ Head(inq).size <= room
    /\ inq' = Tail(inq)

(* It fails: timeout, stall or overflow, with or without losing a message. *)
ReceiveFails ==
    \/ UNCHANGED inq
    \/ (~halted /\ inq # <<>> /\ inq' = Tail(inq))

(* Mutant: a CSW in the data phase is taken for data.                      *)
NeverUnexpected(m) == FALSE

(* A short answer that is exactly a CSW ends the call: a good one with an   *)
(* error because the data is missing, a bad one after a libusb_clear_halt. *)
UnexpectedCsw(m) == m.size # cmd.len /\ m.size = CswSize /\ m.kind = "csw"

RecvData ==
    /\ pc = "data"
    /\ cmd.dir = "in"
    /\ Receive(cmd.len)
    /\ buf' = Head(inq)
    /\ \/ ~UnexpectedCsw(Head(inq)) /\ Goto("csw")
       \/ UnexpectedCsw(Head(inq)) /\ CheckCsw(Head(inq)) /\ Return("error")
       \/ UnexpectedCsw(Head(inq)) /\ ~CheckCsw(Head(inq)) /\ Goto("clear")
    /\ UNCHANGED <<run, tag, cmd, csw, behind, devq, dev, halted, log>>

(* The device may have stalled since the data phase: that stall is cleared,*)
(* unless the request fails, which nobody looks at.                        *)
ClearHalt ==
    /\ pc = "clear"
    /\ halted' \in {halted, FALSE}
    /\ Return("error")
    /\ UNCHANGED <<run, tag, cmd, buf, csw, behind, devq, dev, inq, log>>

RecvCsw ==
    /\ pc = "csw"
    /\ Receive(CswSize)
    /\ csw' = Head(inq)
    /\ Return(IF CheckCsw(Head(inq)) THEN "ok" ELSE "error")
    /\ UNCHANGED <<run, tag, cmd, buf, behind, devq, dev, halted, log>>

(* Mutants: a failed transfer is tried again for ever; a failed transfer   *)
(* clears the stall.                                                       *)
RecvFailsRetries ==
    /\ (pc = "data" /\ cmd.dir = "in") \/ pc = "csw"
    /\ ReceiveFails
    /\ UNCHANGED <<host, devq, dev, halted, log>>
RecvFailsClears ==
    /\ (pc = "data" /\ cmd.dir = "in") \/ pc = "csw"
    /\ ReceiveFails
    /\ Return("error")
    /\ halted' = FALSE
    /\ UNCHANGED <<run, tag, cmd, buf, csw, behind, devq, dev, log>>

RecvFails ==
    /\ (pc = "data" /\ cmd.dir = "in") \/ pc = "csw"
    /\ ReceiveFails
    /\ Return("error")
    /\ UNCHANGED <<run, tag, cmd, buf, csw, behind, devq, dev, halted, log>>

HostStep ==
    SendCbw \/ SendData \/ RecvData \/ ClearHalt \/ RecvCsw \/ RecvFails

-----------------------------------------------------------------------------
(* The device (external).  It takes a command only when it is idle, and a  *)
(* data packet that belongs to no command is dropped.                      *)
DevTakeCbw ==
    /\ dev.phase = "idle"
    /\ devq # <<>>
    /\ Head(devq).kind = "cbw"
    /\ dev' = [phase |-> "exec", of |-> Head(devq).of, took |-> FALSE]
    /\ devq' = Tail(devq)
    /\ UNCHANGED <<host, inq, halted, log>>

DevDropData ==
    /\ dev.phase = "idle"
    /\ devq # <<>>
    /\ Head(devq).kind = "data"
    /\ devq' = Tail(devq)
    /\ UNCHANGED <<host, dev, inq, halted, log>>

(* The data phase of a read: one packet of at most the length asked for.   *)
DevSendData(s) ==
    /\ dev.phase = "exec"
    /\ dev.of.dir = "in"
    /\ s <= dev.of.len
    /\ inq' = Append(inq, DataIn(dev.of, s))
    /\ dev' = [dev EXCEPT !.phase = "status"]
    /\ UNCHANGED <<host, devq, halted, log>>

(* The data phase of a write: whatever comes next is its data, a later     *)
(* command's CBW included.                                                 *)
DevTakeData ==
    /\ dev.phase = "exec"
    /\ dev.of.dir = "out" /\ dev.of.len > 0
    /\ devq # <<>>
    /\ dev' = [dev EXCEPT !.phase = "status",
                          !.took = (Head(devq) = DataOut(dev.of))]
    /\ devq' = Tail(devq)
    /\ UNCHANGED <<host, inq, halted, log>>

(* No data phase: nothing to move, a read answered without data, or a      *)
(* write the device gives up.                                              *)
DevSkipData ==
    /\ dev.phase = "exec"
    /\ dev' = [dev EXCEPT !.phase = "status"]
    /\ UNCHANGED <<host, devq, inq, halted, log>>

DevStall ==
    /\ dev.phase = "exec"
    /\ dev' = [dev EXCEPT !.phase = "status"]
    /\ halted' = TRUE
    /\ UNCHANGED <<host, devq, inq, log>>

(* The status; a write whose data did not arrive is never reported good.   *)
DevStatus(ok) ==
    /\ dev.phase = "status"
    /\ (ok /\ dev.of.dir = "out" /\ dev.of.len > 0) => dev.took
    /\ inq' = Append(inq, Csw(dev.of, ok))
    /\ log' = log \cup {[of |-> dev.of, ok |-> ok, took |-> dev.took]}
    /\ dev' = IdleDevice
    /\ UNCHANGED <<host, devq, halted>>

DeviceStep ==
    \/ DevTakeCbw
    \/ DevDropData
    \/ \E s \in Sizes : DevSendData(s)
    \/ DevTakeData
    \/ DevSkipData
    \/ DevStall
    \/ \E ok \in BOOLEAN : DevStatus(ok)

(* The program is run again, after it ended or was killed in a call: the   *)
(* tags start over, the device and the pipes keep what they hold.          *)
Rerun ==
    /\ run < MaxRun
    /\ run' = run + 1
    /\ tag' = 0
    /\ pc' = "idle"
    /\ buf' = NoMessage
    /\ csw' = NoMessage
    /\ result' = "none"
    /\ behind' = FALSE
    /\ UNCHANGED <<cmd, devq, dev, inq, halted, log>>

Call == \E r \in Requests : Start(r)

(* One process.                                                            *)
Next == Call \/ HostStep \/ DeviceStep
Spec == Init /\ [][Next]_vars

(* Every transfer is bounded by USB_TIMEOUT and the request that clears a  *)
(* halt by the host itself, so a call goes on; the device owes nothing.    *)
FairSpec == Spec /\ WF_vars(HostStep)

(* One process after another.                                              *)
RerunNext == Next \/ Rerun
RerunSpec == Init /\ [][RerunNext]_vars

-----------------------------------------------------------------------------

TypeOK ==
    /\ run \in 1..MaxRun
    /\ tag \in 0..MaxTag
    /\ cmd \in Commands
    /\ pc \in {"idle", "cbw", "data", "csw", "clear"}
    /\ buf \in InMessages
    /\ csw \in InMessages
    /\ result \in {"none", "ok", "error"}
    /\ behind \in BOOLEAN
    /\ devq \in Seq(OutMessages)
    /\ dev \in [phase : {"idle", "exec", "status"},
                of : Commands, took : BOOLEAN]
    /\ inq \in Seq(InMessages)
    /\ halted \in BOOLEAN
    /\ log \subseteq [of : Commands, ok : BOOLEAN, took : BOOLEAN]

(* A read of CswSize bytes (the identify request of init_act) cannot tell  *)
(* an unexpected CSW from its answer: the transfer is not short.           *)
CswTakenAsData == cmd.len = CswSize /\ buf.kind = "csw"

ReadReturnedOk == result = "ok" /\ cmd.dir = "in" /\ cmd.len > 0

(* A read that returned 0 left in the caller's buffer the answer to this   *)
(* very command, never one an earlier command left in the pipe, whatever   *)
(* timed out before: the tag check of the CSW vouches for the data too.    *)
FreshAnswer == ReadReturnedOk => buf.of = cmd \/ CswTakenAsData

(* Tags repeat from one run of the program to the next, so an answer may   *)
(* be a previous run's; but data and status still belong to one command.   *)
CoherentAnswer == ReadReturnedOk => buf.of = csw.of \/ CswTakenAsData

(* Over any number of runs: a read that returned 0 with an answer that is  *)
(* not its own began while the device was behind.                          *)
StaleOnlyWhenBehind ==
    ReadReturnedOk => buf.of = cmd \/ behind \/ CswTakenAsData

(* A write that returned 0 was executed by the device with its own data.   *)
WriteIntegrity ==
    result = "ok" /\ cmd.dir = "out" /\ cmd.len > 0
        => [of |-> cmd, ok |-> TRUE, took |-> TRUE] \in log

(* A call that begins while the device still owes or holds an earlier      *)
(* answer never returns 0: the transport does not resynchronise in a call. *)
StaleStartFails == result = "ok" => ~behind \/ CswTakenAsData

(* A stall of the IN endpoint outlasts the call it happened in: while it   *)
(* lasts no call returns 0, and only the libusb_clear_halt of commands.c:80*)
(* ends it, in a call that was behind: it read the status of an earlier    *)
(* command in its data phase, and the device stalled before the clear.     *)
StallOutlastsCalls ==
    [][halted => /\ halted' \/ (pc = "clear" /\ behind)
                 /\ result' = "ok" => result = "ok"]_vars

(* Every call returns, whatever the device does or does not do.            *)
CallsReturn == (pc # "idle") ~> (pc = "idle")

(* What commands.c:83 says of a read: without data it returns an error.    *)
NoDataIsError == ReadReturnedOk => buf.size > 0

(* What the transport promises: CommandChannel.                            *)
Channel == INSTANCE CommandChannel WITH
    busy <- (pc # "idle"),
    outcome <- result,
    executed <- {e.of.tag : e \in log},
    good <- {e.of.tag : e \in {f \in log : f.ok}}

ImplementsChannel == Channel!Spec
===============================================================================
