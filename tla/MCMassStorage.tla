----------------------------- MODULE MCMassStorage -----------------------------
(* Command lines and devices for checking MassStorage.  Words have 4 bits    *)
(* and a sector has 2 cells.                                                 *)
EXTENDS MassStorage

Ranges == {<<0, 0>>, <<0, 1>>, <<0, 3>>, <<1, 2>>, <<2, 1>>, <<3, 1>>, <<4, 2>>,
           <<0, 8>>, <<2, 14>>, <<3, 15>>, <<15, 1>>}

SmallOptions ==
    {[cmd |-> c, lba |-> r[1], bc |-> r[2], offset |-> 0] :
        c \in {"inquiry", "fcapacity", "capacity"}, r \in {<<0, 1>>}}
    \cup
    {[cmd |-> "read", lba |-> r[1], bc |-> r[2], offset |-> 0] : r \in Ranges}
    \cup
    {[cmd |-> "write", lba |-> r[1], bc |-> r[2], offset |-> o] :
        r \in Ranges, o \in {0, 1, 5}}

SmallGeometries ==
    {[lastLBA |-> n, blockLen |-> s] : n \in {0, 3, 8}, s \in 0..3}

Lengths == {0, 1, 3, 6, 7, 19}
===============================================================================
