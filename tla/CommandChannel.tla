---------------------------- MODULE CommandChannel ----------------------------
(***************************************************************************)
(* What the transport of commands.c promises to the layers above it.       *)
(*                                                                         *)
(* The program issues numbered commands, one at a time.  The device        *)
(* executes a command at most once and in the order they were issued, but  *)
(* possibly long after the program gave up waiting for it.  A call may     *)
(* return an error whatever the device does; it returns success only for a *)
(* command that the device has executed completely and accepted.           *)
(***************************************************************************)
EXTENDS Integers

VARIABLES
    tag,        \* number of the last command issued, 0 before the first
    busy,       \* a call is in progress
    outcome,    \* what the last call returned: "none", "ok" or "error"
    executed,   \* commands the device has finished
    good        \* those of them it completed with status 0

vars == <<tag, busy, outcome, executed, good>>

Init ==
    /\ tag = 0
    /\ busy = FALSE
    /\ outcome = "none"
    /\ executed = {}
    /\ good = {}

(* The program starts the next command.                                    *)
Issue ==
    /\ ~busy
    /\ tag' = tag + 1
    /\ busy' = TRUE
    /\ outcome' = "none"
    /\ UNCHANGED <<executed, good>>

(* The device finishes a command: never twice, never out of order.         *)
Execute(t) ==
    /\ \A u \in executed : u < t
    /\ executed' = executed \cup {t}
    /\ good' \in {good, good \cup {t}}
    /\ UNCHANGED <<tag, busy, outcome>>

(* The call returns; success only for a command executed well.             *)
Return ==
    /\ busy
    /\ busy' = FALSE
    /\ outcome' \in {"ok", "error"}
    /\ outcome' = "ok" => tag \in good
    /\ UNCHANGED <<tag, executed, good>>

Next == Issue \/ (\E t \in 1..tag : Execute(t)) \/ Return

Spec == Init /\ [][Next]_vars
===============================================================================
