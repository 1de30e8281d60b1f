------------------------------- MODULE MCDumpAfi -------------------------------
(* Devices for checking DumpAfi: with and without a valid main or alternate  *)
(* firmware, one whose alternate lies outside the range of the search, one   *)
(* that reaches past the last address, and three too long for the file, one  *)
(* of them such that the sysinfo overwrites the boot record.                 *)
EXTENDS DumpAfi

SmallFirmwares ==
    {[main |-> m, alt |-> a[1], altSize |-> a[2]] :
        m \in 0..3, a \in {<<0, 0>>, <<2, 0>>, <<2, 2>>, <<3, 3>>, <<14, 2>>,
                           <<13, 4>>}}
    \cup {[main |-> m, alt |-> 0, altSize |-> 0] : m \in {4, 5, 7}}
===============================================================================
