----------------------------- MODULE MCInvocation -----------------------------
(* Command lines and buses for checking Invocation: every line of up to    *)
(* three of the options below with nothing on the bus, and some lines with *)
(* every bus of up to three of the devices below.  Words have 6 bits and   *)
(* halves 3, so that 67 is 3 in a word and 9 is 1 in a half.               *)
EXTENDS Invocation

Opt0(name) == [name |-> name, arg |-> <<>>]
Opt1(name, x) == [name |-> name, arg |-> <<x>>]
Opt2(name, x, y) == [name |-> name, arg |-> <<x, y>>]

LineOptions ==
    {Opt0(name) : name \in {"e", "read", "M", "inquiry", "O", "physical", "D",
                            "a", "s", "yes_i_know_what_im_doing", "h"}}
    \cup {Opt1("E", 9), Opt1("entry", 9), Opt1("f", 1), Opt1("file", 2),
          Opt1("L", 3), Opt1("L", 8), Opt1("lun", 64), Opt1("l", 4),
          Opt1("lba", 67), Opt1("c", 62), Opt1("block_count", 5),
          Opt1("o", 66), Opt1("d", 1), Opt2("d", 1, 2), Opt2("device", 0, 0),
          Opt2("d", 9, 1), Opt2("d", 65, 66)}

(* Only the last option can lack its argument.                             *)
Incomplete == {Opt0("l"), Opt0("entry"), Opt0("L")}

Lines ==
    UNION {[1..k -> LineOptions] : k \in 0..3}
    \cup {Append(line, last) : line \in UNION {[1..k -> LineOptions] : k \in 0..1},
                               last \in Incomplete}

DeviceLines ==
    {<<Opt0("e")>>, <<Opt0("read"), Opt2("d", 1, 2)>>,
     <<Opt0("i"), Opt2("d", 1, 2)>>, <<Opt0("M"), Opt1("c", 3), Opt2("d", 1, 2)>>}

Ep(in, addr) == [bulk |-> TRUE, in |-> in, addr |-> addr]
Interrupt(addr) == [bulk |-> FALSE, in |-> TRUE, addr |-> addr]
Setting(i, st, eps) == [interface |-> i, storage |-> st, endpoints |-> eps]

Settings ==
    [plain |-> <<Setting(0, TRUE, <<Ep(TRUE, 129), Ep(FALSE, 2)>>)>>,
     second |-> <<Setting(0, FALSE, <<Ep(TRUE, 130), Ep(FALSE, 3)>>),
                  Setting(1, TRUE, <<Interrupt(131), Ep(TRUE, 132), Ep(TRUE, 133),
                                     Ep(FALSE, 4), Ep(FALSE, 5)>>)>>,
     half |-> <<Setting(0, TRUE, <<Ep(TRUE, 129)>>),
                Setting(0, TRUE, <<Ep(FALSE, 2)>>)>>,
     later |-> <<Setting(0, TRUE, <<Ep(FALSE, 6)>>),
                 Setting(1, TRUE, <<Ep(TRUE, 129), Ep(FALSE, 2)>>)>>,
     other |-> <<Setting(0, FALSE, <<Ep(TRUE, 129), Ep(FALSE, 2)>>)>>]

Device(id, actions, s) == [id |-> id, actions |-> actions, settings |-> Settings[s]]

BusDevices ==
    {Device(<<1, 2>>, TRUE, "plain"), Device(<<1, 2>>, FALSE, "second"),
     Device(<<1, 3>>, TRUE, "plain"), Device(<<1, 2>>, TRUE, "half"),
     Device(<<1, 2>>, TRUE, "later"), Device(<<4, 2>>, FALSE, "other")}

Buses == UNION {[1..k -> BusDevices] : k \in 0..3}

SmallInvocations ==
    [line : Lines, bus : {<<>>}] \cup [line : DeviceLines, bus : Buses]

(* One option each for every command of the usage text and of the tables.  *)
CommandLines ==
    {<<Opt0(name)>> : name \in (DOMAIN UsageText \cup ShortOptions)
                               \ (LongArgs \cup ShortArgs)}
    \cup {<<Opt1(name, 1)>> : name \in {"E", "entry"}}
    \cup {<<Opt0(a), Opt0(b)>> : a, b \in {"e", "i", "read", "O", "p", "D"}}

UsageInvocations == [line : CommandLines, bus : {<<>>}]
===============================================================================
