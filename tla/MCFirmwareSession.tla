--------------------------- MODULE MCFirmwareSession ---------------------------
(* Command lines and devices for checking FirmwareSession.  The constants of *)
(* the program are scaled down: bytes of 2 bits and so words of 8, RAM of 6  *)
(* sectors, a boot record of 3 at 0 or 9, a search over the sectors 2 to 7.  *)
EXTENDS FirmwareSession

Ranges == {<<0, 1>>, <<1, 3>>, <<3, 3>>, <<4, 3>>, <<6, 1>>, <<5, 253>>,
           <<5, 255>>, <<254, 2>>, <<253, 2>>, <<255, 1>>, <<100, 2>>}

SmallOptions ==
    {[cmd |-> c, lba |-> r[1], bc |-> r[2], logical |-> l, alt |-> FALSE,
      detach |-> d, yes |-> FALSE] :
        c \in {"readfw", "readram"}, r \in Ranges, l, d \in BOOLEAN}
    \cup
    {[cmd |-> c, lba |-> 0, bc |-> 1, logical |-> l, alt |-> a,
      detach |-> d, yes |-> y] :
        c \in {"headinfo", "sysinfo", "ramacc", "dumpraw", "entry"},
        l, a, d, y \in BOOLEAN}

File(offset, length) == [used |-> TRUE, offset |-> offset, length |-> length]
Free(offset, length) == [used |-> FALSE, offset |-> offset, length |-> length]
Valid(dir) == [valid |-> TRUE, dir |-> dir]

(* A sector is 2 units of length.  Files in order, in the other order, one *)
(* behind the end of what is used, one at 0, one that wraps, two at one    *)
(* place, the first without contents or not, and a directory without files.*)
Directories ==
    {<<File(1, 2), File(2, 1)>>, <<File(2, 1), File(1, 2)>>,
     <<File(3, 4), File(1, 2), File(2, 2)>>, <<File(1, 3), Free(4, 4)>>,
     <<File(0, 4), File(1, 0)>>, <<File(1, 255), File(2, 255)>>,
     <<File(2, 1), File(2, 4)>>, <<File(1, 0), File(1, 2)>>, <<Free(1, 1)>>}

Alternates ==
    {[alt |-> 0, dir |-> <<>>], [alt |-> 2, dir |-> <<File(1, 3)>>],
     [alt |-> 4, dir |-> <<File(252, 2)>>],
     [alt |-> 7, dir |-> <<File(1, 1), File(0, 1)>>],
     [alt |-> 9, dir |-> <<File(1, 2)>>]}

Firmware(actions, main, a) ==
    [actions |-> actions, main |-> main, alt |-> a.alt,
     altMain |-> IF a.alt = 0 THEN NoHeader ELSE Valid(a.dir)]

NoAlternate == [alt |-> 0, dir |-> <<>>]

SmallFirmwares ==
    {Firmware(x, main, a) : x \in BOOLEAN, a \in Alternates,
                            main \in {NoHeader, Valid(<<File(1, 3)>>)}}
    \cup {Firmware(TRUE, Valid(dir), NoAlternate) : dir \in Directories}
===============================================================================
